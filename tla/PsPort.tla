------------------------------- MODULE PsPort -------------------------------
(***************************************************************************)
(* One pad at a port of a PlayStation, with a multitap or without.  The    *)
(* interrupt handlers of core 1 collect a packet in one of two buffers and *)
(* obey it when the console ends it: a packet for a single pad at once, a  *)
(* packet for the multitap, which has a command for each of its pads, at   *)
(* the end of the packet after it, in which it is answered.  Other packets *)
(* pass through the same buffers.                                          *)
(*                                                                         *)
(* In its configuration mode a pad is told which mode to take afterwards,  *)
(* and which bytes drive its motors.  Its user changes the mode as well.   *)
(* The pads of a multitap share nothing but the packets: one is followed.  *)
(*                                                                         *)
(* The console (external) sends packets to their end.  (Mutants: see       *)
(* BssRing.)                                                               *)
(***************************************************************************)
EXTENDS Naturals

CONSTANTS PsCommands,    \* bound: the commands the console gives
          Letters        \* bound: the letters of game ids, as the commands they look like

Modes == {"digital", "analog", "pressure"}           \* dev_id 0x41, 0x73, 0x79

\* 0x42 with a motor on or off, 0x43 with 1 and 0, 0x44 with 0 and 1, 0x4F for the sticks alone
\* and with the pressure, 0x4D with a byte for a motor and without; any other.
ModeCommands == {"digital", "analog", "sticks", "pressure"}
Commands == {"on", "off", "enter", "leave", "map", "unmap", "other"} \cup ModeCommands
ModeOf(c) == IF c = "sticks" THEN "analog" ELSE c

ASSUME PsAssumption == PsCommands \cup Letters \subseteq Commands

VARIABLES
    tap, first,          \* the port is a multitap; the pad is its first one
    mt_state,            \* the next packet is for the multitap
    rx_buf, active,      \* the command of the pad in each buffer; the buffer that is filled
    dev_id, pend_dev_id, \* the mode ("config" is 0xF3), and the one after the configuration
    analog_btn,          \* the button for the mode is held
    mapped, last_rumble, \* a byte drives a motor; what was asked for last
    ps_motor, ps_lost,   \* what the controller was told last; a full queue dropped something since
    due,                 \* for the properties: the command that comes next
    session, asked,      \* what the console has told the pad: that it is configured, its mode,
    wants,               \* the motor
    switched, amid, deaf \* history: the multitap was left with a command due, or entered with an
                         \* old one in the buffer; a change of mode by the user in a configuration;
                         \* the last stop of the motor came to a digital pad

port == <<tap, first, mt_state, rx_buf, active>>
pad == <<dev_id, pend_dev_id, analog_btn, mapped, last_rumble, ps_motor, ps_lost>>
view == <<due, session, asked, wants, switched, amid, deaf>>
psvars == <<port, pad, view>>

\* ps_spi_init
PsInit ==
    /\ tap \in BOOLEAN /\ first \in BOOLEAN /\ (first \/ tap)
    /\ mt_state = tap
    /\ rx_buf = [b \in {0, 1} |-> "off"] /\ active = 0
    /\ dev_id = "digital" /\ pend_dev_id = "digital"
    /\ analog_btn = FALSE /\ mapped = FALSE /\ last_rumble = FALSE /\ ps_motor = FALSE /\ ps_lost = FALSE
    /\ due = "other" /\ session = FALSE /\ asked = "none" /\ wants = FALSE
    /\ switched = FALSE /\ amid = FALSE /\ deaf = FALSE

-----------------------------------------------------------------------------
(* What a packet does to the pad: ps_analog_btn_hdlr, then ps_cmd_req_hdlr *)

\* The button is released: the mode changes, also in the configuration.
Released(held) == analog_btn /\ ~held
IdAfter(held) ==
    IF ~Released(held) THEN dev_id ELSE IF dev_id = "digital" THEN "analog" ELSE "digital"

Enters(id) == id # "config"

\* A full queue drops what is for the controller.
Obey(id, c, dropped) ==
    LET maps == mapped /\ id = dev_id
        rumble == IF c \in {"on", "off"} /\ id # "digital" THEN c = "on" /\ maps ELSE last_rumble
    IN /\ last_rumble' = rumble
       /\ ps_motor' = IF rumble # last_rumble /\ ~dropped THEN rumble ELSE ps_motor
       /\ ps_lost' = IF rumble # last_rumble THEN dropped /\ rumble # ps_motor ELSE ps_lost
       /\ dev_id' = CASE c = "enter" -> "config"
                      [] c = "leave" -> pend_dev_id
                      [] OTHER -> id
       /\ pend_dev_id' = IF c = "enter" /\ Enters(id) THEN id
                         ELSE IF c \in ModeCommands /\ id = "config" THEN ModeOf(c) ELSE pend_dev_id
       /\ mapped' = IF id = "config" /\ c \in {"map", "unmap", "digital", "analog"} THEN c = "map" ELSE maps

-----------------------------------------------------------------------------
(* What the console has told, and the user done, when the packet is over.  *)

Told(c, held) ==
    LET flips == Released(held)
    IN /\ session' = IF c \in {"enter", "leave"} THEN c = "enter" ELSE session
       /\ asked' = IF c \in ModeCommands /\ session THEN ModeOf(c)
                   ELSE IF flips \/ (amid /\ c = "enter") THEN "none" ELSE asked
       /\ wants' = IF c \in {"on", "off"} THEN c = "on" ELSE wants
       /\ amid' = IF c = "enter" THEN FALSE ELSE amid \/ (flips /\ session)
       /\ deaf' = IF c = "off" THEN IdAfter(held) = "digital" ELSE deaf /\ c # "on"

-----------------------------------------------------------------------------
(* Packets: spi_isr and packet_end.                                        *)

\* For a single pad.  Where the command of the first pad of a multitap would be is an argument.
SinglePacket(c, mt, held, dropped) ==
    /\ ~mt_state
    /\ mt_state' = (tap /\ mt)
    /\ rx_buf' = IF first THEN [rx_buf EXCEPT ![active] = "other"] ELSE rx_buf
    /\ active' = 1 - active
    /\ switched' = (mt_state' /\ rx_buf'[active] \notin {"off", "other"})
    /\ IF first
       THEN Obey(IdAfter(held), c, dropped) /\ analog_btn' = held /\ Told(c, held)
       ELSE UNCHANGED <<pad, session, asked, wants, amid, deaf>>
    /\ UNCHANGED <<tap, first, due>>

PrevActive == rx_buf'[active]                                  \* mutant: the packet that just came
Prev == rx_buf[1 - active]

\* For the multitap, which stays one.
TapPacket(c, held, dropped) ==
    /\ mt_state
    /\ rx_buf' = [rx_buf EXCEPT ![active] = c]
    /\ active' = 1 - active
    /\ Obey(IdAfter(held), Prev, dropped) /\ analog_btn' = held
    /\ Told(due, held) /\ due' = c
    /\ UNCHANGED <<tap, first, mt_state, switched>>

\* One that asks for single pads is broken off, and not obeyed.
LeaveTap ==
    /\ mt_state /\ mt_state' = FALSE
    /\ rx_buf' = IF first THEN [rx_buf EXCEPT ![active] = "other"] ELSE rx_buf
    /\ switched' = (due # "other")
    /\ UNCHANGED <<tap, first, active, pad, due, session, asked, wants, amid, deaf>>

\* For the memory card: the letters of a game id where commands are (see also ConfigStore).
CardPacket(c) ==
    /\ rx_buf' = [rx_buf EXCEPT ![active] = c]
    /\ UNCHANGED <<tap, first, mt_state, active, pad, view>>

\* Bound: it ends when commands are lost, or about to be repeated.
PsNext ==
    /\ ~switched
    /\ \/ \E c \in PsCommands, mt, held, dropped \in BOOLEAN : SinglePacket(c, mt, held, dropped)
       \/ \E c \in PsCommands, held, dropped \in BOOLEAN : TapPacket(c, held, dropped)
       \/ LeaveTap
       \/ \E c \in Letters : CardPacket(c)

PsSpec == PsInit /\ [][PsNext]_psvars

-----------------------------------------------------------------------------
PsTypeOK ==
    /\ tap \in BOOLEAN /\ first \in BOOLEAN /\ mt_state \in BOOLEAN
    /\ rx_buf \in [{0, 1} -> Commands] /\ active \in {0, 1}
    /\ dev_id \in Modes \cup {"config"} /\ pend_dev_id \in Modes
    /\ {analog_btn, mapped, last_rumble, ps_motor, ps_lost} \subseteq BOOLEAN
    /\ due \in Commands /\ asked \in Modes \cup {"none"}
    /\ {session, wants, switched, amid, deaf} \subseteq BOOLEAN

(***************************************************************************)
(* A pad does what the console told it, each command once and in order: it *)
(* is in the configuration mode when it was put there, has afterwards the  *)
(* mode it was told, and its motor does not run when it was told to stop.  *)
(* Excepted are a console that leaves the multitap, whose last command is  *)
(* lost, or comes back to it when what is in the buffer, an old command or *)
(* a game id, is taken for one; a user who changes the mode in a           *)
(* configuration; and a stop told to a pad that is digital then, or        *)
(* dropped by a full queue.                                                *)
(***************************************************************************)
PadObeys ==
    ~switched =>
        /\ ~amid => (dev_id = "config" <=> session)
        /\ ~amid /\ ~session /\ asked # "none" => dev_id = asked
        /\ ps_motor => wants \/ deaf \/ ps_lost

-----------------------------------------------------------------------------
(* Why it holds.                                                           *)

\* The command that is due is in the buffer, or nothing is due and nothing in it does harm.
DueIsInBuffer ==
    /\ mt_state => Prev = due \/ (due = "other" /\ Prev = "off")
    /\ ~mt_state => due = "other"

\* Every configuration leads to the mode that was asked for, also one in which none is asked for.
PendingIsAsked == ~amid /\ asked # "none" => pend_dev_id = asked

\* The motor differs from last_rumble only if a change was dropped.
RumbleKnown ==
    /\ ps_motor => last_rumble \/ ps_lost
    /\ last_rumble => wants \/ deaf

\* What commands that are obeyed when they are due keep, the conjuncts of PadObeys first.
PadInv ==
    /\ ~amid => (dev_id = "config" <=> session)
    /\ ~amid /\ ~session /\ asked # "none" => dev_id = asked
    /\ PendingIsAsked
    /\ RumbleKnown

PsInv == PsTypeOK /\ PadObeys /\ (~switched => DueIsInBuffer /\ PendingIsAsked /\ RumbleKnown)

=============================================================================
