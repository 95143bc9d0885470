---------------------------- MODULE SysMgrProofs ----------------------------
(***************************************************************************)
(* Proofs about the system manager: for a hold of the BOOT button of any   *)
(* length, and for any number of devices, ports and commands.              *)
(***************************************************************************)
EXTENDS SysMgr, TLAPS

LEMMA ConstantFacts ==
    /\ MaxDev \in Nat /\ MaxDev > 0
    /\ port_cnt \in Nat /\ port_cnt > 0
    /\ MaxHold \in Nat
BY MgrAssumption, ButtonAssumption DEF MgrAssumption, ButtonAssumption

-----------------------------------------------------------------------------
(* The BOOT button.                                                        *)

\* The rates of the LEDs.
LEMMA Rates ==
    /\ led_flash_hz[0] = 2 /\ led_flash_hz[1] = 4 /\ led_flash_hz[2] = 8
BY DEF led_flash_hz

\* The types, and what the LEDs show: every step keeps them.
LEMMA LedKept == TypeOK /\ LedTellsState /\ [Next]_vars => TypeOK' /\ LedTellsState'
<1> SUFFICES ASSUME TypeOK, LedTellsState, [Next]_vars PROVE TypeOK' /\ LedTellsState'
  OBVIOUS
<1>1. CASE PressOrRelease
  BY <1>1 DEF PressOrRelease, TypeOK, LedTellsState, LedTellsAction
<1>2. CASE Others
  <2>1. power' \in BOOLEAN
    BY <1>2 DEF Others, PowerLevels
  <2> QED
    BY <1>2, <2>1 DEF Others, TypeOK, LedTellsState, LedTellsAction
<1>3. CASE PowerOn
  BY <1>3 DEF PowerOn, user, TypeOK, LedTellsState, LedTellsAction
<1>4. CASE Pressed
  BY <1>4, ConstantFacts DEF Pressed, user, TypeOK, LedTellsState, LedTellsAction
<1>5. CASE Held
  <2>1. hold_cnt' \in 0 .. MaxHold
    BY <1>5, ConstantFacts DEF Held, TypeOK
  <2>2. state' \in 0 .. 3 /\ led' = IF state' = 0 THEN 0 ELSE led_flash_hz[state' - 1]
    <3>1. led = IF state = 0 THEN 0 ELSE led_flash_hz[state - 1]
      BY <1>5 DEF Held, LedTellsState
    <3>2. CASE state < 3 /\ hold_cnt' > sw_thresholds[state]
      BY <1>5, <3>2 DEF Held, TypeOK
    <3>3. CASE ~(state < 3 /\ hold_cnt' > sw_thresholds[state])
      BY <1>5, <3>1, <3>3 DEF Held, TypeOK
    <3> QED
      BY <3>2, <3>3
  <2>3. led' \in {0, 2, 4, 8}
    BY <2>2, Rates
  <2> QED
    BY <1>5, <2>1, <2>2, <2>3 DEF Held, user, TypeOK, LedTellsState, LedTellsAction
<1>6. CASE Released
  <2>1. led = IF state = 0 THEN 0 ELSE led_flash_hz[state - 1]
    BY <1>6 DEF Released, LedTellsState
  <2>2. /\ action' = Selected /\ pc' \in {"restarted", "inhibit"} /\ inquiry_state' \in BOOLEAN
        /\ UNCHANGED <<external, button, power, hold_cnt, state, led>>
    BY <1>6 DEF Released, user, TypeOK
  <2>3. /\ state = 0 /\ ~external => action' = "reset" /\ led = 0
        /\ state = 0 /\ external => action' \in {"stop_inquiry", "disconnect_all"} /\ led = 0
        /\ state = 1 /\ ~external => action' \in {"stop_inquiry", "disconnect_all"} /\ led = 2
        /\ state = 1 /\ external => action' = "start_inquiry" /\ led = 2
        /\ state = 2 /\ ~external => action' = "start_inquiry" /\ led = 4
        /\ state = 2 /\ external => action' = "factory_reset" /\ led = 4
        /\ state = 3 => action' = "factory_reset" /\ led = 8
    BY <2>1, <2>2, Rates DEF Selected, SelectedAt
  <2>4. state = 0 \/ state = 1 \/ state = 2 \/ state = 3
    BY DEF TypeOK
  <2>5. TypeOK'
    BY <2>2, <2>3, <2>4 DEF TypeOK
  <2>6. LedTellsAction'
    BY <2>2, <2>3, <2>4 DEF LedTellsAction, TypeOK
  <2> QED
    BY <2>1, <2>2, <2>5, <2>6 DEF LedTellsState
<1>7. CASE InhibitOver
  BY <1>7 DEF InhibitOver, user, TypeOK, LedTellsState, LedTellsAction
<1>8. CASE UNCHANGED vars
  BY <1>8 DEF vars, TypeOK, LedTellsState, LedTellsAction
<1> QED
  BY <1>1, <1>2, <1>3, <1>4, <1>5, <1>6, <1>7, <1>8 DEF Next

(***************************************************************************)
(* The LEDs tell what the release of the button did, however long and how  *)
(* often it is held (boot_btn_hdl).                                        *)
(***************************************************************************)
THEOREM LedsTell == Spec => []LedTellsAction
<1>1. Init => TypeOK /\ LedTellsState
  <2> SUFFICES ASSUME Init PROVE TypeOK /\ LedTellsState
    OBVIOUS
  <2>1. /\ pc = "poll" /\ hold_cnt = 0 /\ state = 0 /\ led = 0 /\ action = "none"
    BY DEF Init
  <2>2. external \in BOOLEAN /\ button \in BOOLEAN /\ power \in BOOLEAN /\ inquiry_state \in BOOLEAN
    BY DEF Init, PowerLevels
  <2>3. hold_cnt \in 0 .. MaxHold /\ state \in 0 .. 3
    BY <2>1, ConstantFacts
  <2> QED
    BY <2>1, <2>2, <2>3 DEF TypeOK, LedTellsState, LedTellsAction
<1>2. LedTellsState => LedTellsAction
  BY DEF LedTellsState
<1> QED
  BY <1>1, <1>2, LedKept, PTL DEF Spec

-----------------------------------------------------------------------------
(* The ports.                                                              *)

\* A step that neither gives out ports nor resets a device, nor begins or ends a pass.
LEMMA Aside ==
    ASSUME PassInv, UNCHANGED <<out_idx, i, j, idx, moved, wired>>,
           at = "ports" <=> at' = "ports", ready' \subseteq Devices, found' \subseteq Devices
    PROVE  PassInv'
<1>1. PassTypeOK'
  BY DEF PassInv, PassTypeOK
<1>2. Through' = Through
  BY DEF Through
<1> QED
  BY <1>1, <1>2 DEF PassInv, InOrder

\* The pass begins: outside of one all devices count as gone through.
LEMMA Begins ==
    ASSUME PassInv, UNCHANGED <<out_idx, i, j, idx, moved, wired, ready, found>>, at # "ports"
    PROVE  PassInv'
<1>1. PassTypeOK'
  BY DEF PassInv, PassTypeOK
<1>2. CASE at' # "ports"
  BY <1>2, Aside DEF PassInv, PassTypeOK
<1>3. CASE at' = "ports"
  <2>1. i' = 0 /\ Through' = {}
    BY <1>3 DEF PassInv, InOrder, Through, Devices
  <2> QED
    BY <1>1, <1>3, <2>1 DEF PassInv, InOrder
<1> QED
  BY <1>2, <1>3

\* Something happens around the task.
LEMMA PlugKeeps ==
    ASSUME PassInv, NEW p \in Ports, Plug(p)
    PROVE  PassInv'
<1>1. /\ moved' = [moved EXCEPT !.port = moved.port \cup {p}]
      /\ wired' = (wired \cup {p}) \ (wired \cap {p})
      /\ UNCHANGED <<at, found, ready, out_idx, i, j, idx>>
  BY DEF Plug, devices, pass
<1>2. PassTypeOK'
  BY <1>1 DEF PassInv, PassTypeOK
<1>3. Through' = Through /\ moved'.port = moved.port \cup {p}
  BY <1>1 DEF PassInv, PassTypeOK, Through
<1>4. wired' \ moved'.port \subseteq wired \ moved.port
  BY <1>1, <1>3
<1> QED
  BY <1>1, <1>2, <1>3, <1>4 DEF PassInv, InOrder

LEMMA GoneKeeps ==
    ASSUME PassInv, NEW d \in Devices, Gone(d)
    PROVE  PassInv'
<1>1. /\ moved' = [moved EXCEPT !.dev = moved.dev \cup {d}]
      /\ out_idx' = [out_idx EXCEPT ![d] = d]
      /\ found' = found \ {d} /\ ready' = ready \ {d}
      /\ UNCHANGED <<at, wired, i, j, idx>>
  BY DEF Gone, pass
<1>2. PassTypeOK'
  <2>1. d \in Nat
    BY ConstantFacts DEF Devices
  <2>2. out_idx' \in [Devices -> Nat]
    BY <1>1, <2>1 DEF PassInv, PassTypeOK
  <2>3. moved' \in [dev : SUBSET Devices, port : SUBSET Ports]
    BY <1>1 DEF PassInv, PassTypeOK
  <2>4. found' \subseteq Devices /\ ready' \subseteq Devices
    BY <1>1 DEF PassInv, PassTypeOK
  <2> QED
    BY <1>1, <2>2, <2>3, <2>4 DEF PassInv, PassTypeOK
<1>3. Through' = Through \ {d} /\ moved'.port = moved.port
  BY <1>1 DEF PassInv, PassTypeOK, Through
<1>4. \A e \in Through' : out_idx'[e] = out_idx[e] /\ e \in Through
  BY <1>1, <1>3 DEF PassInv, PassTypeOK, Through
<1> QED
  BY <1>1, <1>2, <1>3, <1>4 DEF PassInv, InOrder

\* A port with a wired controller is passed by.
LEMMA FullKeeps ==
    ASSUME PassInv, PortFull
    PROVE  PassInv'
<1>1. /\ at = "ports" /\ j < port_cnt /\ j' = j + 1 /\ idx' = idx + 1
      /\ moved' = [moved EXCEPT !.port = moved.port \ {j}]
      /\ UNCHANGED <<at, found, ready, out_idx, wired, i>>
  BY DEF PortFull, devices
<1>2. PassTypeOK'
  BY <1>1, ConstantFacts DEF PassInv, PassTypeOK
<1>3. Through' = Through /\ moved'.port = moved.port \ {j}
  BY <1>1 DEF PassInv, PassTypeOK, Through
<1>4. idx = j /\ j \in Nat
  BY <1>1, ConstantFacts DEF PassInv, PassTypeOK, InOrder
<1>5. \A d \in Through : out_idx[d] \in Nat /\ out_idx[d] < j
  BY <1>1, <1>4 DEF PassInv, PassTypeOK, InOrder, Through
<1> QED
  BY <1>1, <1>2, <1>3, <1>4, <1>5 DEF PassInv, InOrder

\* A device gets its port.
LEMMA StepKeeps ==
    ASSUME PassInv, PortStep
    PROVE  PassInv'
<1>1. /\ at = "ports" /\ i < MaxDev /\ (j < port_cnt => j \notin wired)
      /\ j' = NextPort /\ idx' = idx + 1 /\ i' = i + 1
      /\ out_idx' = [out_idx EXCEPT ![i] = idx]
      /\ moved' = [dev |-> moved.dev \ {i}, port |-> moved.port \ {j}]
      /\ UNCHANGED <<at, found, ready, wired>>
  BY DEF PortStep
<1>2. i \in Devices /\ i \in Nat /\ j \in Nat /\ idx \in Nat
  BY <1>1, ConstantFacts DEF PassInv, PassTypeOK, Devices
<1>3. PassTypeOK'
  BY <1>1, <1>2, ConstantFacts DEF PassInv, PassTypeOK, NextPort
<1>4. Through' = (Through \ {i}) \cup {i} /\ moved'.port = moved.port \ {j}
  BY <1>1, <1>2 DEF PassInv, PassTypeOK, Through, Devices
<1>5. \A d \in Through : d \in Devices /\ d < i /\ out_idx[d] \in Nat /\ out_idx[d] < idx
                         /\ out_idx'[d] = out_idx[d]
  BY <1>1, <1>2 DEF PassInv, PassTypeOK, InOrder, Through, Devices
<1>6. idx' = j' \/ (j' = port_cnt /\ j' < idx')
  BY <1>1, <1>2, ConstantFacts DEF PassInv, PassTypeOK, InOrder, NextPort
<1>7. out_idx'[i] = idx /\ idx \notin wired
  <2>1. out_idx'[i] = idx
    BY <1>1, <1>2 DEF PassInv, PassTypeOK
  <2>2. CASE idx = j /\ j < port_cnt
    BY <1>1, <2>1, <2>2
  <2>3. CASE ~(idx = j /\ j < port_cnt)
    <3>1. ~(idx < port_cnt)
      BY <1>2, <2>3, ConstantFacts DEF PassInv, PassTypeOK, InOrder
    <3>2. idx \notin Ports
      BY <1>2, <3>1, ConstantFacts DEF Ports
    <3> QED
      BY <2>1, <3>2 DEF PassInv, PassTypeOK
  <2> QED
    BY <2>2, <2>3
<1>8. ASSUME NEW d \in Through'
      PROVE  /\ out_idx'[d] < idx' /\ out_idx'[d] \notin wired' \ moved'.port
             /\ \A e \in Through' : d < e => out_idx'[d] < out_idx'[e]
  <2>1. CASE d = i
    <3>1. \A e \in Through' : ~(i < e)
      BY <1>2, <1>4, <1>5 DEF Devices
    <3> QED
      BY <1>1, <1>2, <1>7, <2>1, <3>1
  <2>2. CASE d # i
    <3>1. d \in Through
      BY <1>4, <2>2
    <3>2. out_idx[d] \notin wired \ moved.port /\ out_idx[d] < idx /\ out_idx[d] \in Nat
      BY <1>5, <3>1 DEF PassInv, InOrder
    <3>3. out_idx'[d] \notin wired' \ moved'.port
      <4>1. CASE idx = j
        BY <1>1, <1>4, <1>5, <3>1, <3>2, <4>1
      <4>2. CASE j = port_cnt
        <5>1. j \notin Ports
          BY <4>2, ConstantFacts DEF Ports
        <5> QED
          BY <1>1, <1>4, <1>5, <3>1, <3>2, <5>1 DEF PassInv, PassTypeOK
      <4> QED
        BY <4>1, <4>2 DEF PassInv, InOrder
    <3>4. ASSUME NEW e \in Through', d < e PROVE out_idx'[d] < out_idx'[e]
      <4>1. CASE e = i
        BY <1>5, <1>7, <3>1, <3>2, <4>1
      <4>2. CASE e # i
        BY <1>4, <1>5, <3>1, <3>4, <4>2 DEF PassInv, InOrder
      <4> QED
        BY <4>1, <4>2
    <3>5. out_idx'[d] < idx'
      BY <1>1, <1>2, <1>5, <3>1, <3>2
    <3> QED
      BY <3>3, <3>4, <3>5
  <2> QED
    BY <2>1, <2>2
<1> QED
  BY <1>1, <1>3, <1>6, <1>8 DEF PassInv, InOrder

\* The pass is over: it has been through all devices.
LEMMA DoneKeeps ==
    ASSUME PassInv, PortsDone
    PROVE  PassInv'
<1>1. /\ at = "ports" /\ i = MaxDev /\ at' # "ports" /\ i' = 0 /\ j' = 0 /\ idx' = 0
      /\ UNCHANGED <<found, ready, out_idx, wired, moved>>
  BY DEF PortsDone, devices, Goto
<1>2. PassTypeOK'
  BY <1>1, ConstantFacts DEF PassInv, PassTypeOK
<1>3. Through' = Through
  BY <1>1, ConstantFacts DEF Through, Devices
<1> QED
  BY <1>1, <1>2, <1>3 DEF PassInv, InOrder

\* Every step keeps the invariant.
LEMMA PassKept == PassInv /\ [MgrNext]_mgrvars => PassInv'
<1> SUFFICES ASSUME PassInv, [MgrNext]_mgrvars PROVE PassInv'
  OBVIOUS
<1>0. ready \subseteq Devices /\ found \subseteq Devices
  BY DEF PassInv, PassTypeOK
<1>1. CASE Press \/ Switch \/ SearchStops \/ UNCHANGED mgrvars
  <2>1. UNCHANGED <<at, out_idx, i, j, idx, moved, wired, ready, found>>
    BY <1>1 DEF Press, Switch, SearchStops, mgrvars, devices, pass
  <2> QED
    BY <1>0, <2>1, Aside
<1>2. ASSUME NEW c \in Cmds, SysMgrCmd(c) PROVE PassInv'
  <2>1. UNCHANGED <<at, out_idx, i, j, idx, moved, wired, ready, found>>
    BY <1>2 DEF SysMgrCmd, devices, pass
  <2> QED
    BY <1>0, <2>1, Aside
<1>3. ASSUME NEW d \in Devices, Found(d) \/ HidInitDone(d) PROVE PassInv'
  <2>1. UNCHANGED <<at, out_idx, i, j, idx, moved, wired>>
    BY <1>3 DEF Found, HidInitDone, pass
  <2>2. ready' \subseteq Devices /\ found' \subseteq Devices
    BY <1>0, <1>3 DEF Found, HidInitDone
  <2> QED
    BY <2>1, <2>2, Aside
<1>4. CASE ButtonStep \/ CmdStep \/ PollOn \/ StartSearch \/ PollOff
  <2>1. UNCHANGED <<out_idx, i, j, idx, moved, wired, ready, found>> /\ at # "ports"
    <3>1. CASE ButtonStep
      BY <3>1 DEF ButtonStep, Poll, Release, Else, devices, pass
    <3>2. CASE CmdStep
      BY <3>2 DEF CmdStep, devices, pass
    <3>3. CASE PollOn \/ StartSearch \/ PollOff
      BY <3>3 DEF PollOn, StartSearch, PollOff, Ports_, devices, pass
    <3> QED
      BY <1>4, <3>1, <3>2, <3>3
  <2> QED
    BY <2>1, Begins
<1> QED
  BY <1>1, <1>2, <1>3, <1>4, PlugKeeps, GoneKeeps, FullKeeps, StepKeeps, DoneKeeps DEF MgrNext

THEOREM PassInvariant == MgrSpec => []PassInv
<1>1. MgrInit => PassInv
  <2> SUFFICES ASSUME MgrInit PROVE PassInv
    OBVIOUS
  <2>1. /\ at = "button" /\ found = {} /\ ready = {} /\ out_idx = [d \in Devices |-> d]
        /\ wired \in SUBSET Ports /\ i = 0 /\ j = 0 /\ idx = 0
        /\ moved = [dev |-> {}, port |-> wired]
    BY DEF MgrInit
  <2>2. PassTypeOK
    BY <2>1, ConstantFacts DEF PassTypeOK, Devices
  <2>3. InOrder
    BY <2>1 DEF InOrder, Through
  <2> QED
    BY <2>2, <2>3 DEF PassInv
<1> QED
  BY <1>1, PassKept, PTL DEF MgrSpec

(***************************************************************************)
(* No two controllers drive the same port, nor one the port of a wired     *)
(* controller, once wired_port_hdl has seen what changed; whatever is      *)
(* plugged or goes in the middle of its pass.                              *)
(***************************************************************************)
THEOREM DifferentPorts == MgrSpec => []PortsApart
<1>1. PassInv => PortsApart
  <2> SUFFICES ASSUME PassInv, at # "ports", NEW d \in ready \ moved.dev
               PROVE  /\ \A e \in ready \ (moved.dev \cup {d}) : out_idx[d] # out_idx[e]
                      /\ out_idx[d] \notin wired \ moved.port
    BY DEF PortsApart
  <2>1. d \in Through
    BY DEF PassInv, PassTypeOK, Through
  <2>2. ASSUME NEW e \in ready \ (moved.dev \cup {d}) PROVE out_idx[d] # out_idx[e]
    <3>1. e \in Through /\ d \in Int /\ e \in Int /\ d # e
      BY <2>1 DEF PassInv, PassTypeOK, Through, Devices
    <3>2. d < e \/ e < d
      BY <3>1
    <3>3. out_idx[d] < out_idx[e] \/ out_idx[e] < out_idx[d]
      BY <2>1, <3>1, <3>2 DEF PassInv, InOrder
    <3>4. out_idx[d] \in Nat /\ out_idx[e] \in Nat
      BY <2>1, <3>1 DEF PassInv, PassTypeOK, Through
    <3> QED
      BY <3>3, <3>4
  <2> QED
    BY <2>1, <2>2 DEF PassInv, InOrder
<1> QED
  BY <1>1, PassInvariant, PTL

=============================================================================
