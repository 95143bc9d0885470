------------------------------- MODULE SysMgr -------------------------------
(***************************************************************************)
(* sys_mgr_task: it looks at the BOOT button, takes the commands that      *)
(* other tasks queued for it, and now and then gives each device its port  *)
(* of the console (wired_port_hdl) and makes the search follow the power   *)
(* of the console (power_on_hdl).  The Bluetooth controller's task has     *)
(* priority on this core: its handlers run between any two steps.          *)
(*                                                                         *)
(* The hardware is the one that is built into a console                    *)
(* (CONFIG_BLUERETRO_HW2), which may sit in a case of its own too.         *)
(*                                                                         *)
(* Definitions marked as mutants are wrong on purpose, to see that a       *)
(* property notices the mistake.                                           *)
(***************************************************************************)
EXTENDS BootButton

CONSTANTS MaxDev,        \* BT_MAX_DEV
          port_cnt,
          Hotplug,       \* SYS_MGR_HOTPLUG: the console is told which ports are in use
          InqAuto,       \* config.global_cfg.inquiry_mode is INQ_AUTO
          CmdRoom,       \* the commands cmd_q has room for
          Every          \* bound: the turns of the loop to a look at ports and power

ASSUME MgrAssumption ==
    /\ MaxDev \in Nat \ {0} /\ port_cnt \in Nat \ {0}
    /\ Hotplug \in BOOLEAN /\ InqAuto \in BOOLEAN
    /\ CmdRoom \in Nat \ {0} /\ Every \in Nat \ {0}

Devices == 0 .. MaxDev - 1
Ports == 0 .. port_cnt - 1
\* SYS_MGR_CMD_PWR_ON and SYS_MGR_CMD_PWR_OFF are for the console as RST is (and the devices that
\* PWR_OFF disconnects go when they answer); FACTORY_RST and DEEP_SLEEP end the task as ADAPTER_RST does.
Cmds == {"RST", "INQ_TOOGLE", "ADAPTER_RST"}

VARIABLES
    at,                  \* what sys_mgr_task is at
    cnt,                 \* modulo Every
    cmd_q,
    found, ready,        \* the devices with BT_DEV_DEVICE_FOUND, and BT_DEV_HID_INIT_DONE
    out_idx,             \* per device: the port it is for, from port_cnt on none
    inquiry_override,
    curr,                \* of power_on_hdl: whether the console was on when it looked
    wired,               \* the ports with a wired controller
    i, j, idx, port_mask, update,   \* of wired_port_hdl
    port_state,          \* what the console's side was told
    moved                \* for a property: what wired_port_hdl has not seen yet, devices and ports

pass == <<i, j, idx, port_mask, update>>
devices == <<found, ready, out_idx>>
search == <<inquiry_state, inquiry_override>>
hold == <<pc, hold_cnt, state, led, action>>      \* of BootButton, not followed here
pressed == <<button, hold>>
mgrvars == <<external, power, pressed, at, cnt, cmd_q, devices, search, curr, wired, pass, port_state, moved>>

MgrInit ==
    /\ Init
    /\ at = "button" /\ cnt = 0
    /\ cmd_q = <<>>
    /\ found = {} /\ ready = {}
    /\ out_idx = [d \in Devices |-> d]
    /\ inquiry_override = FALSE
    /\ curr = FALSE
    /\ wired \in SUBSET Ports
    /\ i = 0 /\ j = 0 /\ idx = 0 /\ port_mask = {} /\ update = FALSE
    /\ port_state = {}
    /\ moved = [dev |-> {}, port |-> wired]

-----------------------------------------------------------------------------
(* What happens around the task                                            *)

\* The user presses and releases, plugs and unplugs, and switches the console.
Press ==
    /\ button' = ~button
    /\ UNCHANGED <<external, power, hold,  at, cnt, cmd_q, devices, search, curr,
                   wired, pass, port_state, moved>>

Plug(p) ==
    /\ wired' = (wired \cup {p}) \ (wired \cap {p})
    /\ moved' = [moved EXCEPT !.port = @ \cup {p}]
    /\ UNCHANGED <<external, power, pressed, at, cnt, cmd_q, devices, search, curr, pass, port_state>>

Switch ==
    /\ ~external
    /\ power' = ~power
    /\ UNCHANGED <<external, pressed, at, cnt, cmd_q, devices, search, curr, wired, pass, port_state, moved>>

\* sys_mgr_cmd; with no room the caller waits.
SysMgrCmd(c) ==
    /\ Len(cmd_q) < CmdRoom
    /\ cmd_q' = Append(cmd_q, c)
    /\ UNCHANGED <<external, power, pressed, at, cnt, devices, search, curr, wired, pass, port_state, moved>>

\* The handlers of hci.c: a device is found, ...
Found(d) ==
    /\ d \notin found /\ \A e \in Devices \ found : d <= e
    /\ found' = found \cup {d}
    /\ UNCHANGED <<external, power, pressed, at, cnt, cmd_q, ready, out_idx, search, curr, wired, pass,
                   port_state, moved>>

\* ... its start-up ends, ...
HidInitDone(d) ==
    /\ d \in found \ ready
    /\ ready' = ready \cup {d}
    /\ UNCHANGED <<external, power, pressed, at, cnt, cmd_q, found, out_idx, search, curr, wired, pass,
                   port_state, moved>>

\* ... and it goes: bt_host_reset_dev, and the search goes on after the last.
Gone(d) ==
    /\ d \in found
    /\ found' = found \ {d}
    /\ ready' = ready \ {d}
    /\ out_idx' = [out_idx EXCEPT ![d] = d]
    /\ inquiry_state' = (inquiry_state \/ (InqAuto /\ found' = {} /\ ~inquiry_override))
    /\ moved' = [moved EXCEPT !.dev = @ \cup {d}]
    /\ UNCHANGED <<external, power, pressed, at, cnt, cmd_q, inquiry_override, curr, wired, pass, port_state>>

\* A device was named, or the inquiry has gone on for long.
SearchStops ==
    /\ found # {} /\ inquiry_state
    /\ inquiry_state' = FALSE
    /\ UNCHANGED <<external, power, pressed, at, cnt, cmd_q, devices, inquiry_override, curr, wired, pass,
                   port_state, moved>>

-----------------------------------------------------------------------------
(* boot_btn_hdl, and the commands                                          *)

Else == UNCHANGED <<cnt, cmd_q, devices, inquiry_override, curr, wired, pass, port_state, moved>>
Goto(a) == at' = a

\* How long the button is held (BootButton) is left open here.
Poll == at = "button" /\ Goto(IF button /\ power THEN "hold" ELSE "cmd") /\ UNCHANGED inquiry_state

Release ==
    /\ at = "hold" /\ ~button
    /\ \E n \in 0 .. 3 :
          /\ inquiry_state' = CASE SelectedAt(n) = "stop_inquiry" -> FALSE
                                [] SelectedAt(n) = "start_inquiry" -> inquiry_state \/ ~inquiry_override
                                [] OTHER -> inquiry_state
          /\ Goto(IF SelectedAt(n) = "factory_reset" THEN "over" ELSE "cmd")

ButtonStep == (Poll \/ Release) /\ Else /\ UNCHANGED <<external, power, pressed>>

\* The command is carried out, and then cnt decides.
Turn == IF cnt = Every - 1 THEN "ports" ELSE "button"

CmdStep ==
    /\ at = "cmd"
    /\ cnt' = (cnt + 1) % Every
    /\ IF cmd_q = <<>>
       THEN UNCHANGED <<cmd_q, inquiry_state>> /\ Goto(Turn)
       ELSE /\ cmd_q' = Tail(cmd_q)
            /\ inquiry_state' = IF Head(cmd_q) = "INQ_TOOGLE" THEN ~inquiry_state /\ ~inquiry_override
                                ELSE inquiry_state
            /\ Goto(IF Head(cmd_q) = "ADAPTER_RST" THEN "over" ELSE Turn)
    /\ UNCHANGED <<external, power, pressed, devices, inquiry_override, curr, wired, pass,
                   port_state, moved>>

-----------------------------------------------------------------------------
(* wired_port_hdl, a port or a device at a time                            *)

Still == UNCHANGED <<external, power, pressed, cnt, cmd_q>>

\* A port with a wired controller is passed by, and counts for idx.
PortFull ==
    /\ at = "ports" /\ i < MaxDev
    /\ j < port_cnt /\ j \in wired
    /\ j' = j + 1 /\ idx' = idx + 1
    /\ moved' = [moved EXCEPT !.port = @ \ {j}]
    /\ Still /\ UNCHANGED <<at, devices, search, curr, wired, i, port_mask, update, port_state>>

NextPortStuck == j                 \* mutant: a port that was given away is looked at again
NextPort == IF j < port_cnt THEN j + 1 ELSE j

\* The port that is empty, or one past the last, is the device's.
PortStep ==
    /\ at = "ports" /\ i < MaxDev
    /\ j < port_cnt => j \notin wired
    /\ j' = NextPort /\ idx' = idx + 1 /\ i' = i + 1
    /\ out_idx' = [out_idx EXCEPT ![i] = idx]
    /\ port_mask' = IF Hotplug => i \in ready THEN port_mask \cup {idx} ELSE port_mask
    /\ update' = (update \/ out_idx[i] # idx)
    /\ moved' = [dev |-> moved.dev \ {i}, port |-> moved.port \ {j}]
    /\ Still /\ UNCHANGED <<at, found, ready, search, curr, wired, port_state>>

\* wired_comm_port_cfg, if there is something new to tell.
PortsDone ==
    /\ at = "ports" /\ i = MaxDev
    /\ port_state' = IF update \/ (Hotplug /\ port_state # port_mask) THEN port_mask ELSE port_state
    /\ i' = 0 /\ j' = 0 /\ idx' = 0 /\ port_mask' = {} /\ update' = FALSE
    /\ Goto(IF external THEN "button" ELSE "power")
    /\ Still /\ UNCHANGED <<devices, search, curr, wired, moved>>

-----------------------------------------------------------------------------
(* power_on_hdl                                                            *)

Ports_ == UNCHANGED <<devices, wired, pass, port_state, moved>>

\* On: without a controller, wireless or wired, there is a search, ...
PollOn ==
    /\ at = "power" /\ power
    /\ curr' = TRUE
    /\ inquiry_override' = FALSE
    /\ Goto(IF found = {} /\ wired = {} /\ ~inquiry_state THEN "search" ELSE "button")
    /\ Still /\ Ports_ /\ UNCHANGED inquiry_state

\* ... bt_hci_start_inquiry.
StartSearch ==
    /\ at = "search"
    /\ inquiry_state' = (inquiry_state \/ ~inquiry_override)
    /\ Goto("button")
    /\ Still /\ Ports_ /\ UNCHANGED <<inquiry_override, curr>>

PollOffOpen ==                     \* mutant: nothing keeps the handlers from starting a search
    /\ at = "power" /\ ~power
    /\ curr' = FALSE
    /\ inquiry_override' = FALSE
    /\ inquiry_state' = IF ~curr /\ ready # {} THEN inquiry_state ELSE FALSE
    /\ Goto("button")
    /\ Still /\ Ports_

\* Off: a controller that has been connected since switches the console on; else there is no search.
\* When it has just gone off, all are asked to disconnect.
PollOff ==
    /\ at = "power" /\ ~power
    /\ curr' = FALSE
    /\ IF ~curr /\ ready # {}
       THEN inquiry_override' = FALSE /\ UNCHANGED inquiry_state
       ELSE inquiry_override' = TRUE /\ inquiry_state' = FALSE
    /\ Goto("button")
    /\ Still /\ Ports_

-----------------------------------------------------------------------------
Task == ButtonStep \/ CmdStep \/ PortFull \/ PortStep \/ PortsDone \/ PollOn \/ StartSearch \/ PollOff

MgrNext ==
    \/ Press \/ Switch \/ SearchStops
    \/ \E p \in Ports : Plug(p)
    \/ \E c \in Cmds : SysMgrCmd(c)
    \/ \E d \in Devices : Found(d) \/ HidInitDone(d) \/ Gone(d)
    \/ ButtonStep \/ CmdStep \/ PortFull \/ PortStep \/ PortsDone \/ PollOn \/ StartSearch \/ PollOff

MgrSpec == MgrInit /\ [][MgrNext]_mgrvars

\* The task is scheduled.
MgrFairness == WF_mgrvars(Task)

-----------------------------------------------------------------------------
(* Properties.                                                             *)

MgrTypeOK ==
    /\ TypeOK
    /\ at \in {"button", "hold", "cmd", "ports", "power", "search", "over"}
    /\ cnt \in 0 .. Every - 1
    /\ Len(cmd_q) <= CmdRoom
    /\ ready \subseteq found /\ found \subseteq Devices
    /\ out_idx \in [Devices -> 0 .. MaxDev + port_cnt - 1]
    /\ inquiry_override \in BOOLEAN /\ curr \in BOOLEAN /\ update \in BOOLEAN
    /\ wired \subseteq Ports
    /\ i \in 0 .. MaxDev /\ j \in 0 .. port_cnt /\ idx \in 0 .. MaxDev + port_cnt
    /\ moved.dev \subseteq Devices /\ moved.port \subseteq Ports

(***************************************************************************)
(* Two controllers that send reports drive different ports, and none the   *)
(* port of a wired one, whatever comes and goes: but while wired_port_hdl  *)
(* goes through them, and until it has seen that a device was reset, which *)
(* puts it back to the port of its slot, or that a port was filled.        *)
(***************************************************************************)
PortsApart ==
    at # "ports" =>
        \A d \in ready \ moved.dev :
            /\ \A e \in ready \ (moved.dev \cup {d}) : out_idx[d] # out_idx[e]
            /\ out_idx[d] \notin wired \ moved.port

(***************************************************************************)
(* What the pass of wired_port_hdl has done so far: the devices that it    *)
(* has been through have their ports in order, below idx, and none has the *)
(* port of a wired controller.  Outside of a pass that is all of them.     *)
(***************************************************************************)
PassTypeOK ==
    /\ i \in 0 .. MaxDev /\ j \in 0 .. port_cnt /\ idx \in Nat
    /\ ready \subseteq Devices /\ found \subseteq Devices
    /\ out_idx \in [Devices -> Nat]
    /\ wired \subseteq Ports
    /\ moved \in [dev : SUBSET Devices, port : SUBSET Ports]

Through == {d \in Devices : at = "ports" => d < i} \ moved.dev

InOrder ==
    /\ at # "ports" => i = 0 /\ j = 0 /\ idx = 0
    /\ idx = j \/ (j = port_cnt /\ j < idx)
    /\ \A d \in Through :
         /\ at = "ports" => out_idx[d] < idx
         /\ out_idx[d] \notin wired \ moved.port
         /\ \A e \in Through : d < e => out_idx[d] < out_idx[e]

PassInv == PassTypeOK /\ InOrder

(***************************************************************************)
(* In a console, the search follows the power: once it stays off and no    *)
(* controller is connected there is no search any more, though handlers    *)
(* start one whenever the last device goes; and while it stays on and      *)
(* there is no controller, wired or not, there is a search again and       *)
(* again, though the button and the commands stop it.                      *)
(***************************************************************************)
Over == at = "over"
InquiryFollowsPower ==
    ~external =>
        /\ <>[](~power /\ ready = {} /\ ~button) => <>[](~inquiry_state) \/ <>Over
        /\ <>[](power /\ found = {} /\ wired = {} /\ ~button) => []<>inquiry_state \/ <>Over

=============================================================================
