----------------------------- MODULE WiiStart ------------------------------
(***************************************************************************)
(* The extensions of a Wii Remote.  When one is put in or taken out, the   *)
(* Remote tells its status and stops its reports; the host initialises the *)
(* extension with two writes, reads what it is, puts a Classic Controller  *)
(* into its 8 bit mode and reads again, and asks for reports.  hid_state   *)
(* says which request to send next, or again if one has failed.  The user  *)
(* may have changed the extension meanwhile: answers to requests for the   *)
(* one before are taken for answers to the requests for this one.          *)
(*                                                                         *)
(* The Remote (external) answers in the order of the requests.  An         *)
(* extension tells what it is when both writes have come since it was put  *)
(* in; without one, writes to its registers fail.  A Classic Controller may*)
(* have no 8 bit mode, or tell another mode than it is in.  (Mutants: see  *)
(* BssRing.)                                                               *)
(***************************************************************************)
EXTENDS Naturals, Sequences

CONSTANTS MaxPlugs,      \* bound: changes of the extension
          MaxInits       \* bound: calls of bt_hid_wii_init

ASSUME WiiAssumption == MaxPlugs \in Nat /\ MaxInits \in Nat

Classics == {"classic", "classic8"}          \* a Classic Controller in its two modes
Extensions == {"nunchuk"} \cup Classics

VARIABLES
    ext, writes,         \* what is in, or "none", and the writes it has got
    reports,             \* the Remote sends reports
    ordered,             \* the requests it has not come to
    told,                \* what it has told and the host has not heard
    state,               \* hid_state
    subtype, CAL,        \* ids.subtype, and BT_INIT of its reports
    plugs, inits         \* changes of the extension, calls of bt_hid_wii_init

remote == <<ext, writes, reports, plugs>>
wiivars == <<remote, ordered, told, state, subtype, CAL, inits>>

Status(in) == [is |-> "STATUS", of |-> in]
Ack(ok) == [is |-> "ACK", of |-> ok]
RdData(what) == [is |-> "RD_DATA", of |-> what]

WiiInit ==
    /\ ext \in (Extensions \ {"classic8"}) \cup {"none"} /\ writes = {}
    /\ reports = FALSE
    /\ ordered = <<>> /\ told = <<>>
    /\ state = 0 /\ subtype = "none" /\ CAL = FALSE
    /\ plugs = 0 /\ inits = 0

\* bt_hid_wii_init: at first when the channels are ready (the Remote tells its status then), and
\* with every change of the LEDs.
WiiHidInit ==
    /\ inits < MaxInits
    /\ inits' = inits + 1
    /\ ordered' = Append(ordered, "REP_MODE")
    /\ told' = IF inits = 0 THEN <<Status(ext # "none")>> ELSE told
    /\ UNCHANGED <<remote, state, subtype, CAL>>

-----------------------------------------------------------------------------
(* The Remote.                                                             *)

Plug ==
    /\ inits > 0 /\ plugs < MaxPlugs
    /\ ext' \in (IF ext = "none" THEN {"nunchuk", "classic"} ELSE {"none"})
    /\ writes' = {} /\ reports' = FALSE /\ plugs' = plugs + 1
    /\ told' = Append(told, Status(ext' # "none"))
    /\ UNCHANGED <<ordered, state, subtype, CAL, inits>>

Initialised == writes = {"INIT0", "INIT1"}

RemoteWrites ==
    /\ ordered # <<>> /\ Head(ordered) \in {"INIT0", "INIT1", "8BIT"}
    /\ ordered' = Tail(ordered)
    /\ told' = Append(told, Ack(ext # "none"))
    /\ writes' = IF ext = "none" THEN {} ELSE writes \cup ({Head(ordered)} \ {"8BIT"})
    /\ ext' \in IF Head(ordered) = "8BIT" /\ ext = "classic" /\ Initialised THEN Classics ELSE {ext}
    /\ UNCHANGED <<reports, plugs, state, subtype, CAL, inits>>

RemoteReads ==
    /\ ordered # <<>> /\ Head(ordered) = "READ"
    /\ ordered' = Tail(ordered)
    /\ \E type \in IF ~Initialised THEN {"unknown"} ELSE IF ext \in Classics THEN Classics ELSE {ext} :
            told' = Append(told, RdData(type))
    /\ UNCHANGED <<remote, state, subtype, CAL, inits>>

RemoteReports ==
    /\ ordered # <<>> /\ Head(ordered) = "REP_MODE"
    /\ ordered' = Tail(ordered)
    /\ reports' = TRUE
    /\ UNCHANGED <<ext, writes, plugs, told, state, subtype, CAL, inits>>

-----------------------------------------------------------------------------
(* bt_hid_wii_hdlr.                                                        *)

\* bt_wii_exec_next_state
NextRequest(s) == IF s < 5 THEN <<<<"INIT0", "INIT1", "READ", "8BIT", "READ">>[s + 1]>> ELSE <<>>

Hear(is) == told # <<>> /\ Head(told).is = is /\ told' = Tail(told)

WiiStatus ==
    /\ Hear("STATUS")
    /\ subtype' = "none" /\ CAL' = FALSE
    /\ IF Head(told).of
       THEN state' = 0 /\ ordered' = Append(ordered, "INIT0")
       ELSE ordered' = Append(ordered, "REP_MODE") /\ UNCHANGED state
    /\ UNCHANGED <<remote, inits>>

First8BitAlways == TRUE                                    \* mutant: it is asked again and again
First8Bit == state < 3

\* A type that is not known leaves the one before.
WiiRdData ==
    /\ Hear("RD_DATA")
    /\ LET type == Head(told).of
           again == type = "classic" /\ First8Bit
       IN /\ subtype' = IF type = "unknown" THEN subtype ELSE type
          /\ CAL' = (CAL /\ type = "unknown")
          /\ state' = IF again THEN 3 ELSE state
          /\ ordered' = Append(ordered, IF again THEN "8BIT" ELSE "REP_MODE")
    /\ UNCHANGED <<remote, inits>>

WiiAck ==
    /\ Hear("ACK")
    /\ state' = IF Head(told).of THEN state + 1 ELSE state
    /\ ordered' = ordered \o NextRequest(state')
    /\ UNCHANGED <<remote, subtype, CAL, inits>>

(***************************************************************************)
(* A report, of which the first that is converted is looked at: the bytes  *)
(* of the buttons tell the two modes of a Classic Controller apart.        *)
(***************************************************************************)
WiiReport ==
    /\ reports /\ ~CAL /\ subtype # "none"
    /\ IF subtype \in Classics /\ ext \in Classics \ {subtype}
       THEN subtype' = ext /\ UNCHANGED CAL
       ELSE CAL' = TRUE /\ UNCHANGED subtype
    /\ UNCHANGED <<remote, ordered, told, state, inits>>

RemoteActs == RemoteWrites \/ RemoteReads \/ RemoteReports
WiiHandler == WiiStatus \/ WiiRdData \/ WiiAck

WiiNext == WiiHidInit \/ Plug \/ RemoteActs \/ WiiHandler \/ WiiReport

WiiSpec == WiiInit /\ [][WiiNext]_wiivars

\* The Remote does what it is asked; what it tells is heard.
WiiFairness == WF_wiivars(RemoteActs) /\ WF_wiivars(WiiHandler) /\ WF_wiivars(WiiReport)

WiiTypeOK ==
    /\ ext \in Extensions \cup {"none"} /\ writes \subseteq {"INIT0", "INIT1"}
    /\ reports \in BOOLEAN /\ CAL \in BOOLEAN
    /\ state \in Nat /\ subtype \in Extensions \cup {"none"}

(***************************************************************************)
(* However often the user changes the extension, once he is done it is     *)
(* known for what it is, in the mode it is in, and its reports come.       *)
(***************************************************************************)
ExtensionKnown == <>[](inits > 0 => reports /\ subtype = ext)

=============================================================================
