------------------------------ MODULE FbTimer -------------------------------
(***************************************************************************)
(* The rumble of one Dreamcast controller: the console asks for it,        *)
(* bt_fb_task switches the motor on and makes a timer whose callback       *)
(* queues the stop, because the console does not ask for it.  The task     *)
(* reads and writes fb_timer_hdl step by step; the callback runs in the    *)
(* task of esp_timer, which bt_fb_task (priority 10) does not interrupt.   *)
(* A timer that is deleted or leaked when it is not armed is forgotten.    *)
(* (Mutants: see BssRing.)                                                 *)
(***************************************************************************)
EXTENDS Integers, Sequences, FiniteSets

CONSTANTS Timers,        \* bound: the timers that can be armed at a time
          FbQueueLen,    \* bound: the items the feedback queue holds
          NULL

ASSUME FbAssumption == IsFiniteSet(Timers) /\ NULL \notin Timers /\ FbQueueLen \in Nat

VARIABLES requests,      \* input_q_hdl: "on", and "off" with or without data
          armed,         \* the timers that are armed
          fb_timer_hdl,
          fb_at, fb_hdl, \* where bt_fb_task is, and the handle it has read
          motor,         \* the last the controller was told
          trouble        \* history: what kept a stop from being queued

fbvars == <<requests, armed, fb_timer_hdl, fb_at, fb_hdl, motor, trouble>>

FbInit ==
    /\ requests = <<>>
    /\ armed = {}
    /\ fb_timer_hdl = NULL
    /\ fb_at = "idle" /\ fb_hdl = NULL
    /\ motor = FALSE
    /\ trouble = {}

-----------------------------------------------------------------------------
\* The timers that are or will be needed.
Demand == Cardinality(armed) + Cardinality({i \in 1 .. Len(requests) : requests[i] = "on"})
          + (IF fb_at \in {"start", "create", "arm"} THEN 1 ELSE 0)

\* adapter_q_fb, called by the loop of core 1: best effort.
ConsoleAsks(request) ==
    /\ request = "on" => Demand < Cardinality(Timers)
    /\ requests' = IF Len(requests) < FbQueueLen THEN Append(requests, request) ELSE requests
    /\ UNCHANGED <<armed, fb_timer_hdl, fb_at, fb_hdl, motor, trouble>>

FbGoto(from, to) == fb_at = from /\ fb_at' = to

\* bt_fb_task takes an item and dc_fb_to_generic looks at it.
TakeRequest ==
    /\ requests # <<>>
    /\ FbGoto("idle", IF Head(requests) = "on" THEN "start" ELSE "stop")
    /\ requests' = Tail(requests)
    /\ UNCHANGED <<armed, fb_timer_hdl, fb_hdl, motor, trouble>>

\* adapter_fb_stop_timer_start: only if there is no timer
StartSeen ==
    /\ FbGoto("start", IF fb_timer_hdl = NULL THEN "create" ELSE "turn_on")
    /\ UNCHANGED <<requests, armed, fb_timer_hdl, fb_hdl, motor, trouble>>

\* one is made,
Create ==
    /\ FbGoto("create", "arm")
    /\ \E t \in Timers \ armed : fb_timer_hdl' = t
    /\ UNCHANGED <<requests, armed, fb_hdl, motor, trouble>>

\* and started, if the callback of a former one has not deleted it.
Arm ==
    /\ FbGoto("arm", "turn_on")
    /\ armed' = IF fb_timer_hdl = NULL THEN armed ELSE armed \cup {fb_timer_hdl}
    /\ trouble' = IF fb_timer_hdl = NULL THEN trouble \cup {"unarmed"} ELSE trouble
    /\ UNCHANGED <<requests, fb_timer_hdl, fb_hdl, motor>>

\* adapter_fb_stop_timer_stop: the handle is read,
StopSeen ==
    /\ FbGoto("stop", IF fb_timer_hdl = NULL THEN "turn_off" ELSE "delete")
    /\ fb_hdl' = fb_timer_hdl
    /\ UNCHANGED <<requests, armed, fb_timer_hdl, motor, trouble>>

(***************************************************************************)
(* the timer deleted, which esp_timer refuses for one that is armed (it    *)
(* fires later, with nobody to hold its handle) or does,                   *)
(***************************************************************************)
Delete ==
    /\ FbGoto("delete", "forget")
    /\ armed' \in {armed, armed \ {fb_hdl}}
    /\ UNCHANGED <<requests, fb_timer_hdl, fb_hdl, motor, trouble>>

ForgottenNot == fb_timer_hdl     \* mutant: the handle is left as it is
Forgotten == NULL

\* and forgotten.
Forget ==
    /\ FbGoto("forget", "turn_off")
    /\ fb_timer_hdl' = Forgotten /\ fb_hdl' = NULL
    /\ UNCHANGED <<requests, armed, motor, trouble>>

\* bt_hid_feedback.
Feedback ==
    /\ fb_at \in {"turn_on", "turn_off"}
    /\ fb_at' = "idle"
    /\ motor' = (fb_at = "turn_on")
    /\ UNCHANGED <<requests, armed, fb_timer_hdl, fb_hdl, trouble>>

FbTask == TakeRequest \/ StartSeen \/ Create \/ Arm \/ StopSeen \/ Delete \/ Forget \/ Feedback

-----------------------------------------------------------------------------
(***************************************************************************)
(* adapter_fb_stop_cb: the stop is queued, if there is room, and the timer *)
(* that the handle names now, its own or a later one, deleted.             *)
(***************************************************************************)
TimerFires(t) ==
    /\ t \in armed
    /\ armed' \in {armed \ {t}, armed \ {t, fb_timer_hdl}}
    /\ fb_timer_hdl' = Forgotten
    /\ IF Len(requests) < FbQueueLen
       THEN requests' = Append(requests, "off") /\ UNCHANGED trouble
       ELSE trouble' = trouble \cup {"full"} /\ UNCHANGED requests
    /\ UNCHANGED <<fb_at, fb_hdl, motor>>

FbNext ==
    \/ \E request \in {"on", "off"} : ConsoleAsks(request)
    \/ FbTask
    \/ \E t \in Timers : TimerFires(t)

FbSpec == FbInit /\ [][FbNext]_fbvars

\* Both tasks are scheduled; a timer that is armed expires.
FbFairness == WF_fbvars(FbTask) /\ \A t \in Timers : WF_fbvars(TimerFires(t))

-----------------------------------------------------------------------------
FbTypeOK ==
    /\ requests \in Seq({"on", "off"})
    /\ armed \subseteq Timers
    /\ fb_timer_hdl \in Timers \cup {NULL} /\ fb_hdl \in Timers \cup {NULL}
    /\ fb_at \in {"idle", "start", "create", "arm", "stop", "delete", "forget", "turn_on", "turn_off"}
    /\ motor \in BOOLEAN
    /\ trouble \subseteq {"full", "unarmed"}

(***************************************************************************)
(* A motor that is on is switched off, though the console never asks: the  *)
(* timer is there whenever it is needed.  The code misses it when the      *)
(* queue has no room for the stop, and when a timer left from before fires *)
(* between esp_timer_create and esp_timer_start_once of the next.          *)
(***************************************************************************)
RumbleStops == motor ~> ~motor \/ trouble # {}

\* A stop is on its way, or something kept it from being queued.
StopComing ==
    \/ trouble # {}
    \/ armed # {}
    \/ \E i \in 1 .. Len(requests) : requests[i] = "off"
    \/ fb_at \in {"stop", "delete", "forget", "turn_off"}

\* The handle names a timer that is armed, but while the task works on it.
HandleOfArmed ==
    fb_timer_hdl # NULL => fb_timer_hdl \in armed \/ fb_at \in {"arm", "forget"}

(***************************************************************************)
(* What RumbleStops rests on: while the motor runs, or is about to, a      *)
(* timer is armed or the stop is queued or under way.                      *)
(***************************************************************************)
NoRumbleForgotten == motor \/ fb_at = "turn_on" => StopComing

FbInv == FbTypeOK /\ HandleOfArmed /\ NoRumbleForgotten

=============================================================================
