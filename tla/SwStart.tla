------------------------------ MODULE SwStart -------------------------------
(***************************************************************************)
(* The start of a Switch controller: a chain of requests, each sent by the *)
(* handler of the answer to the one before, that ends with the mode of the *)
(* reports.  On the way the calibration of the sticks is read; the first   *)
(* reports that are converted copy it into the tables of the conversion.   *)
(* When sys_mgr_task gives a controller another port, bt_fb_task calls     *)
(* bt_hid_init again, for the LEDs, which wipes the calibration first.  A  *)
(* rumble sets the LEDs as well, and so starts a chain of its own until    *)
(* the calibration has been read.                                          *)
(*                                                                         *)
(* The handlers preempt bt_fb_task.  (Mutants: see BssRing.)               *)
(***************************************************************************)
EXTENDS Naturals, Sequences

CONSTANTS MaxStarts,     \* bound: calls of bt_hid_sw_init
          MaxRumbles     \* bound: feedback to the motors

ASSUME SwAssumption == MaxStarts \in Nat \ {0} /\ MaxRumbles \in Nat

VARIABLES
    memory,              \* the calibrations the controller has: of the factory, of the user
    mode,                \* the reports it sends
    asked,               \* the requests it has not answered
    hid_state,           \* 1: the calibration has been read
    calib,               \* what was read: the centres, and whose dead zones
    report_type, report_cnt,
    BT_INIT, meta,       \* the tables of the conversion: ready, and what they were made from
    sw_at, starts,       \* where bt_fb_task is in bt_hid_sw_init; calls of it
    rumbles,
    cut, amid            \* history: a chain was not repeated; the tables were made during one

asking == <<memory, mode, asked, hid_state, calib, cut>>
reporting == <<report_type, report_cnt, BT_INIT, meta, amid>>
starting == <<sw_at, starts, rumbles>>
swvars == <<asking, reporting, starting>>

BlankCalib == [centre |-> "none", dead |-> {}]
DEFAULT == [centre |-> "none", dead |-> {"left", "right"}]    \* sw_native_axes_meta_default
STATUS == [centre |-> "status", dead |-> {}]                  \* sw_hid_pad_init has no calibration

\* bt_hid_sw_init was called when the interrupt channel was ready.
SwInit ==
    /\ memory \in SUBSET {"factory", "user"}
    /\ mode \in {"status", "native"}
    /\ asked = <<"SET_LED">>
    /\ hid_state = 0
    /\ calib = BlankCalib
    /\ report_type = "none" /\ report_cnt = 0
    /\ BT_INIT = FALSE /\ meta = DEFAULT
    /\ sw_at = "idle" /\ starts = 1 /\ rumbles = 0
    /\ cut = FALSE /\ amid = FALSE

-----------------------------------------------------------------------------
(* bt_hid_sw_hdlr: answers, which come in the order of the requests.       *)

\* RUMBLE and RUMBLE_EN are a SET_LED and an EN_RUMBLE too, of a chain that no wipe came before.
Then(request) ==
    CASE request = "SET_LED" -> "EN_RUMBLE"
      [] request = "RUMBLE" -> "RUMBLE_EN"
      [] request \in {"EN_RUMBLE", "RUMBLE_EN"} -> "603D"
      [] request = "603D" -> "6086"
      [] request = "6086" -> "6098"
      [] request = "6098" -> "8010"
      [] request = "8010" -> "SET_REP_MODE"

\* A calibration that is not there reads 0xFF.
Read(c, whose) == IF whose \in memory THEN [c EXCEPT !.centre = whose] ELSE c

CalibOf(request) ==
    CASE request = "603D" -> Read(calib, "factory")
      [] request = "6086" -> [calib EXCEPT !.dead = @ \cup {"left"}]
      [] request = "6098" -> [calib EXCEPT !.dead = @ \cup {"right"}]
      [] request = "8010" -> Read(calib, "user")
      [] OTHER -> calib

\* The LEDs of a later start are answered when the calibration has been read: it ends there.
Repeats(request) == request \in {"SET_LED", "EN_RUMBLE", "RUMBLE", "RUMBLE_EN"} => hid_state = 0

SubcmdAck ==
    /\ asked # <<>> /\ Head(asked) # "SET_REP_MODE"
    /\ LET request == Head(asked)
       IN /\ asked' = IF Repeats(request) THEN Append(Tail(asked), Then(request)) ELSE Tail(asked)
          /\ calib' = CalibOf(request)
          /\ hid_state' = IF request = "8010" THEN 1 ELSE hid_state
          /\ cut' = (cut \/ (request \in {"SET_LED", "EN_RUMBLE"} /\ ~Repeats(request)))
    /\ UNCHANGED <<memory, mode, reporting, starting>>

\* The controller has changed the mode when it answers.
ModeAck ==
    /\ asked # <<>> /\ Head(asked) = "SET_REP_MODE"
    /\ asked' = Tail(asked) /\ mode' = "native"
    /\ UNCHANGED <<memory, hid_state, calib, cut, reporting, starting>>

(***************************************************************************)
(* A report.  One of another kind than before makes bt_type_update forget  *)
(* the tables; bt_host_bridge skips two, and the next makes them anew      *)
(* (sw_native_pad_init).                                                   *)
(***************************************************************************)
KeptTables == BT_INIT                                          \* mutant: a change of the kind is not noticed
Tables == BT_INIT /\ report_type = mode

Report ==
    LET count == IF report_type = mode THEN report_cnt ELSE 0
        makes == ~Tables /\ count > 1
    IN /\ report_type' = mode
       /\ report_cnt' = IF count < 2 THEN count + 1 ELSE count
       /\ BT_INIT' = (Tables \/ makes)
       /\ meta' = IF ~makes THEN meta
                  ELSE IF mode = "status" THEN STATUS
                  ELSE IF calib.centre = "none" THEN DEFAULT ELSE calib
       /\ amid' = IF makes THEN mode = "native" /\ (asked # <<>> \/ sw_at # "idle") ELSE amid
       /\ UNCHANGED <<asking, starting>>

-----------------------------------------------------------------------------
(* FB_TYPE_PLAYER_LED in bt_fb_task: bt_hid_sw_init.                       *)

Wipe ==
    /\ sw_at = "idle" /\ starts < MaxStarts
    /\ sw_at' = "wiped" /\ starts' = starts + 1
    /\ calib' = BlankCalib
    /\ UNCHANGED <<memory, mode, asked, hid_state, cut, rumbles, reporting>>

SetLed ==
    /\ sw_at = "wiped"
    /\ sw_at' = "idle"
    /\ asked' = Append(asked, "SET_LED")
    /\ UNCHANGED <<memory, mode, hid_state, calib, cut, reporting, starts, rumbles>>

(***************************************************************************)
(* FB_TYPE_RUMBLE in bt_fb_task, or n64_acc_toggle_fb in the handler of a  *)
(* report, in the middle of bt_hid_sw_init as well: sw_fb_from_generic     *)
(* puts the motors into a SET_LED, which bt_hid_feedback sends.            *)
(***************************************************************************)
Rumble ==
    /\ rumbles < MaxRumbles
    /\ rumbles' = rumbles + 1
    /\ asked' = Append(asked, "RUMBLE")
    /\ UNCHANGED <<memory, mode, hid_state, calib, cut, reporting, sw_at, starts>>

SwNext == SubcmdAck \/ ModeAck \/ Report \/ Wipe \/ SetLed \/ Rumble

SwSpec == SwInit /\ [][SwNext]_swvars

-----------------------------------------------------------------------------
SwTypeOK ==
    /\ memory \subseteq {"factory", "user"} /\ mode \in {"status", "native"}
    /\ hid_state \in {0, 1}
    /\ calib \in [centre : {"none", "factory", "user"}, dead : SUBSET {"left", "right"}]
    /\ report_type \in {"none", "status", "native"} /\ report_cnt \in 0 .. 2
    /\ BT_INIT \in BOOLEAN
    /\ sw_at \in {"idle", "wiped"} /\ starts \in 1 .. MaxStarts /\ rumbles \in 0 .. MaxRumbles

\* What the sticks are to be read with.
OwnCalibration ==
    CASE "user" \in memory -> [centre |-> "user", dead |-> {"left", "right"}]
      [] memory = {"factory"} -> [centre |-> "factory", dead |-> {"left", "right"}]
      [] OTHER -> DEFAULT

(***************************************************************************)
(* The sticks are read with the calibration the controller holds, all of   *)
(* it, however often bt_fb_task started it again, and whatever chains its  *)
(* rumbles added: but if such a start was cut short, its answers coming    *)
(* when the calibration had been read, or if the tables were made while    *)
(* answers were outstanding.                                               *)
(***************************************************************************)
OwnCalibrationUsed ==
    BT_INIT => meta = (IF report_type = "native" THEN OwnCalibration ELSE STATUS) \/ cut \/ amid

\* One of these requests has still to be answered.
Asked(requests) == \E i \in 1 .. Len(asked) : asked[i] \in requests

(***************************************************************************)
(* What makes it inductive.  Chains may run one behind the other, and a    *)
(* wipe may come in the middle of one; but the wipe starts a chain of its  *)
(* own, and when no chain has a request or an earlier one before it, that  *)
(* chain has got the answer.                                               *)
(***************************************************************************)
CalibrationRead ==
    ~cut /\ sw_at = "idle" =>
        /\ ~Asked({"SET_LED", "EN_RUMBLE", "603D"}) /\ "factory" \in memory => calib.centre # "none"
        /\ ~Asked({"SET_LED", "EN_RUMBLE", "603D", "6086"}) => "left" \in calib.dead
        /\ ~Asked({"SET_LED", "EN_RUMBLE", "603D", "6086", "6098"}) => "right" \in calib.dead
        /\ ~Asked({"SET_LED", "EN_RUMBLE", "603D", "6086", "6098", "8010"}) /\ "user" \in memory
              => calib.centre = "user"

Requests == {"SET_LED", "EN_RUMBLE", "RUMBLE", "RUMBLE_EN", "603D", "6086", "6098", "8010", "SET_REP_MODE"}

SwInv ==
    /\ SwTypeOK
    /\ asked \in Seq(Requests)
    /\ calib.centre \in memory \cup {"none"}
    /\ CalibrationRead
    /\ OwnCalibrationUsed

=============================================================================
