----------------------------- MODULE Ps3Rumble -----------------------------
(***************************************************************************)
(* The rumble of a PlayStation 3 controller, which does not take a stop    *)
(* soon after a start: bt_fb_task marks that it has to wait and starts a   *)
(* timer; a stop that finds the mark only clears it, and the callback of   *)
(* the timer, finding it cleared, stops the motor.  The timer that delays  *)
(* the start-up of the controller has the same handle, in the slot of the  *)
(* controller, whose reset forgets it while the timer runs.                *)
(*                                                                         *)
(* The handlers of Bluetooth interrupt the task of esp_timer, and both     *)
(* interrupt bt_fb_task.  (Mutants: see BssRing.)                          *)
(***************************************************************************)
EXTENDS Naturals, FiniteSets

CONSTANTS Ps3Timers,     \* bound: the timers there can be at a time
          NO_TIMER

ASSUME Ps3Assumption == IsFiniteSet(Ps3Timers) /\ NO_TIMER \notin Ps3Timers

VARIABLES
    connected,           \* the slot has a PlayStation 3 controller
    timer_hdl, FB_DELAY, \* of the slot
    running,             \* the timers that are armed, by what their callback is
    ps3_at,              \* where bt_fb_task is
    cb, cb_at,           \* the callback that runs, and where it is
    asks,                \* what the console asked for last, as far as bt_fb_task has come
    spins,               \* the motor
    swallowed            \* history: why a stop was not sent

slot == <<connected, timer_hdl, FB_DELAY>>
ps3vars == <<slot, running, ps3_at, cb, cb_at, asks, spins, swallowed>>

Kinds == {"stopped", "ready", "init"}
Idle == {t \in Ps3Timers : running[t] = "stopped" /\ t # timer_hdl}

Ps3Init ==
    /\ connected = FALSE
    /\ timer_hdl = NO_TIMER /\ FB_DELAY = FALSE
    /\ running = [t \in Ps3Timers |-> "stopped"]
    /\ ps3_at = "idle" /\ cb = "none" /\ cb_at = "idle"
    /\ asks = FALSE /\ spins = FALSE
    /\ swallowed = {}

-----------------------------------------------------------------------------
(* The handlers of Bluetooth.                                              *)

\* The first bt_hid_ps3_init: no timer is known in a slot that is new.
Connect ==
    /\ ~connected
    /\ connected' = TRUE
    /\ \E t \in Idle : timer_hdl' = t /\ running' = [running EXCEPT ![t] = "init"]
    /\ UNCHANGED <<FB_DELAY, ps3_at, cb, cb_at, asks, spins, swallowed>>

\* bt_host_reset_dev.
Leave ==
    /\ connected
    /\ connected' = FALSE
    /\ timer_hdl' = NO_TIMER /\ FB_DELAY' = FALSE
    /\ asks' = FALSE /\ spins' = FALSE
    /\ UNCHANGED <<running, ps3_at, cb, cb_at, swallowed>>

-----------------------------------------------------------------------------
(* bt_fb_task, which runs when no callback does.                           *)

Ps3Goto(from, to) == cb_at = "idle" /\ ps3_at = from /\ ps3_at' = to

\* bt_hid_cmd_ps3_set_conf is called for a controller that is there.
Ps3Start ==
    /\ connected /\ Ps3Goto("idle", "look")
    /\ asks' = TRUE /\ spins' = TRUE
    /\ UNCHANGED <<connected, timer_hdl, FB_DELAY, running, cb, cb_at, swallowed>>

LookForTimer ==
    /\ Ps3Goto("look", IF timer_hdl = NO_TIMER THEN "create" ELSE "idle")
    /\ UNCHANGED <<slot, running, cb, cb_at, asks, spins, swallowed>>

CreateTimer ==
    /\ ps3_at \in {"create", "createinit"}
    /\ Ps3Goto(ps3_at, IF ps3_at = "create" THEN "arm" ELSE "arminit")
    /\ \E t \in Idle : timer_hdl' = t
    /\ UNCHANGED <<connected, FB_DELAY, running, cb, cb_at, asks, spins, swallowed>>

\* esp_timer_start_once, of the timer that the handle names now.
ArmTimer ==
    /\ ps3_at \in {"arm", "arminit"}
    /\ Ps3Goto(ps3_at, IF ps3_at = "arm" THEN "mark" ELSE "idle")
    /\ running' = [t \in Ps3Timers |->
                      IF t = timer_hdl /\ running[t] = "stopped"
                      THEN IF ps3_at = "arm" THEN "ready" ELSE "init" ELSE running[t]]
    /\ UNCHANGED <<slot, cb, cb_at, asks, spins, swallowed>>

\* The mark is set whether the timer was started or not, in whatever slot this is now.
Mark ==
    /\ Ps3Goto("mark", "idle")
    /\ FB_DELAY' = TRUE
    /\ swallowed' = IF \A t \in Ps3Timers : running[t] # "ready" THEN swallowed \cup {"unarmed"} ELSE swallowed
    /\ UNCHANGED <<connected, timer_hdl, running, cb, cb_at, asks, spins>>

Ps3Stop ==
    /\ connected /\ Ps3Goto("idle", IF FB_DELAY THEN "skip" ELSE "clear")
    /\ asks' = FALSE
    /\ spins' = (spins /\ FB_DELAY)
    /\ UNCHANGED <<connected, timer_hdl, FB_DELAY, running, cb, cb_at, swallowed>>

ClearMark ==
    /\ ps3_at \in {"skip", "clear"} /\ Ps3Goto(ps3_at, "idle")
    /\ FB_DELAY' = FALSE
    /\ swallowed' = IF ps3_at = "skip" /\ ~FB_DELAY THEN swallowed \cup {"raced"} ELSE swallowed
    /\ UNCHANGED <<connected, timer_hdl, running, cb, cb_at, asks, spins>>

\* FB_TYPE_PLAYER_LED: bt_hid_ps3_init once more.
StartAgain ==
    /\ connected /\ Ps3Goto("idle", "createinit")
    /\ UNCHANGED <<connected, timer_hdl, FB_DELAY, running, cb, cb_at, asks, spins, swallowed>>

FbTask3 == LookForTimer \/ CreateTimer \/ ArmTimer \/ Mark \/ ClearMark

-----------------------------------------------------------------------------
(* The callbacks.                                                          *)

\* bt_hid_ps3_fb_init stops the motor, too.
ReadyNot == FB_DELAY                                  \* mutant: the test is the wrong way round
Ready == ~FB_DELAY

FbReady(t) ==
    /\ cb_at = "idle" /\ running[t] = "ready"
    /\ cb' = "ready" /\ cb_at' = "clear"
    /\ running' = [running EXCEPT ![t] = "stopped"]
    /\ spins' = (spins /\ ~Ready)
    /\ UNCHANGED <<slot, ps3_at, asks, swallowed>>

CbClear ==
    /\ cb_at = "clear" /\ cb_at' = "delete"
    /\ FB_DELAY' = FALSE
    /\ UNCHANGED <<connected, timer_hdl, running, ps3_at, cb, asks, spins, swallowed>>

InitDelayed(t) ==
    /\ cb_at = "idle" /\ running[t] = "init"
    /\ cb' = "init" /\ cb_at' = "delete"
    /\ running' = [running EXCEPT ![t] = "stopped"]
    /\ UNCHANGED <<slot, ps3_at, asks, spins, swallowed>>

\* The timer the handle names now: armed, it is deleted or not, as in FbTimer.
CbDelete ==
    /\ cb_at = "delete" /\ cb_at' = "idle" /\ cb' = "none"
    /\ running' \in {running, [t \in Ps3Timers |-> IF t = timer_hdl THEN "stopped" ELSE running[t]]}
    /\ timer_hdl' = NO_TIMER
    /\ spins' = (spins /\ cb = "ready")
    /\ UNCHANGED <<connected, FB_DELAY, ps3_at, asks, swallowed>>

Callback == CbClear \/ CbDelete \/ \E t \in Ps3Timers : FbReady(t) \/ InitDelayed(t)

Ps3Next == Connect \/ Leave \/ Ps3Start \/ Ps3Stop \/ StartAgain \/ FbTask3 \/ Callback

Ps3Spec == Ps3Init /\ [][Ps3Next]_ps3vars

\* bt_fb_task and the task of the timers are scheduled, and timers that are armed expire.
Ps3Fairness ==
    /\ WF_ps3vars(FbTask3)
    /\ WF_ps3vars(CbClear \/ CbDelete)
    /\ \A t \in Ps3Timers : SF_ps3vars(FbReady(t)) /\ SF_ps3vars(InitDelayed(t))

-----------------------------------------------------------------------------
Ps3TypeOK ==
    /\ connected \in BOOLEAN /\ FB_DELAY \in BOOLEAN
    /\ timer_hdl \in Ps3Timers \cup {NO_TIMER}
    /\ running \in [Ps3Timers -> Kinds]
    /\ cb \in {"none", "ready", "init"} /\ cb_at \in {"idle", "clear", "delete"}
    /\ asks \in BOOLEAN /\ spins \in BOOLEAN

(***************************************************************************)
(* A motor the console wants to stop stops in the end, or is wanted again, *)
(* or its controller goes; unless the stop came between the test and the   *)
(* clearing of the mark by the callback, or the mark was set without a     *)
(* timer.                                                                  *)
(***************************************************************************)
Ps3Stops == (spins /\ ~asks) ~> (~spins \/ asks \/ swallowed # {})

=============================================================================
