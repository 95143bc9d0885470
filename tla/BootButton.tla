----------------------------- MODULE BootButton -----------------------------
(***************************************************************************)
(* The BOOT button: boot_btn_hdl, which sys_mgr_task calls every 10 ms,    *)
(* measures how long the button is held, shows the progress on the LEDs    *)
(* and acts when it is released.                                           *)
(*                                                                         *)
(* Definitions marked as mutants are wrong on purpose, to see that a       *)
(* property notices the mistake.                                           *)
(***************************************************************************)
EXTENDS Integers, Sequences

CONSTANT MaxHold         \* bound: the longest hold, in turns of the loop

\* sw_thresholds, in turns of 10 ms, and led_flash_hz; indexed from 0.
sw_thresholds == [i \in 0 .. 2 |-> <<100, 300, 600>>[i + 1]]
led_flash_hz == [i \in 0 .. 2 |-> <<2, 4, 8>>[i + 1]]

ASSUME ButtonAssumption == MaxHold \in Nat

VARIABLES
    external,            \* SYS_MGR_EXTERNAL: the adapter is outside of the console
    button,              \* the user holds the button down
    power,               \* sys_mgr_get_power: the console is on
    pc,                  \* where boot_btn_hdl is
    hold_cnt,
    state,               \* how many thresholds the hold has passed
    led,                 \* how the LEDs of the ports flash: 0 is steady, else in Hz
    inquiry_state,       \* what bt_hci_get_inquiry returns
    action               \* what the last press did

vars == <<external, button, power, pc, hold_cnt, state, led, inquiry_state, action>>
user == <<button, power>>

\* The power of the console is sensed by an internal adapter only.
PowerLevels == IF external THEN {TRUE} ELSE BOOLEAN

Init ==
    /\ external \in BOOLEAN
    /\ button = FALSE
    /\ power \in PowerLevels
    /\ pc = "poll"
    /\ hold_cnt = 0
    /\ state = 0
    /\ led = 0
    /\ inquiry_state \in BOOLEAN
    /\ action = "none"

-----------------------------------------------------------------------------
\* The user, and the console and the search, that change meanwhile.
PressOrRelease ==
    /\ button' = ~button
    /\ UNCHANGED <<external, power, pc, hold_cnt, state, led, inquiry_state, action>>

Others ==
    /\ power' \in PowerLevels
    /\ inquiry_state' \in BOOLEAN
    /\ UNCHANGED <<external, button, pc, hold_cnt, state, led, action>>

-----------------------------------------------------------------------------
(* boot_btn_hdl                                                            *)

\* A console that is off gets a pulse on its power line, again and again.
PowerOn ==
    /\ pc = "poll" /\ button /\ ~power
    /\ action' = "power_on"
    /\ UNCHANGED <<external, user, pc, hold_cnt, state, led, inquiry_state>>

PressedStale ==                    \* mutant: the LEDs still show the press before
    /\ pc = "poll" /\ button /\ power
    /\ pc' = "hold"
    /\ hold_cnt' = 0
    /\ state' = 0
    /\ action' = "none"
    /\ UNCHANGED <<external, user, led, inquiry_state>>

Pressed ==
    /\ pc = "poll" /\ button /\ power
    /\ pc' = "hold"
    /\ hold_cnt' = 0
    /\ state' = 0
    /\ led' = 0
    /\ action' = "none"
    /\ UNCHANGED <<external, user, inquiry_state>>

\* One turn of the loop.  sw_thresholds[3] is read too, past its end, and has no effect.
Held ==
    /\ pc = "hold" /\ button
    /\ hold_cnt < MaxHold
    /\ hold_cnt' = hold_cnt + 1
    /\ IF state < 3 /\ hold_cnt' > sw_thresholds[state]
       THEN /\ led' = led_flash_hz[state]
            /\ state' = state + 1
       ELSE UNCHANGED <<led, state>>
    /\ UNCHANGED <<external, user, pc, inquiry_state, action>>

\* The action that a release selects when n thresholds have passed; an external adapter has no console
\* to reset.
SelectedAt(n) ==
    LET s == IF external THEN n + 1 ELSE n
    IN CASE s = 0 -> "reset"
         [] s = 1 -> IF inquiry_state THEN "stop_inquiry" ELSE "disconnect_all"
         [] s = 2 -> "start_inquiry"
         [] OTHER -> "factory_reset"
Selected == SelectedAt(state)

\* (bt_hci_start_inquiry does nothing while inquiry_override is set.)
Released ==
    /\ pc = "hold" /\ ~button
    /\ action' = Selected
    /\ inquiry_state' \in CASE Selected = "stop_inquiry" -> {FALSE}
                            [] Selected = "start_inquiry" -> {TRUE, inquiry_state}
                            [] OTHER -> {inquiry_state}
    /\ pc' = IF Selected = "factory_reset" THEN "restarted" ELSE "inhibit"
    /\ UNCHANGED <<external, user, hold_cnt, state, led>>

\* Two seconds without looking at the button.
InhibitOver ==
    /\ pc = "inhibit"
    /\ pc' = "poll"
    /\ UNCHANGED <<external, user, hold_cnt, state, led, inquiry_state, action>>

Next ==
    \/ PressOrRelease
    \/ Others
    \/ PowerOn
    \/ Pressed
    \/ Held
    \/ Released
    \/ InhibitOver

Spec == Init /\ [][Next]_vars

-----------------------------------------------------------------------------
(* Properties.                                                             *)

TypeOK ==
    /\ external \in BOOLEAN
    /\ button \in BOOLEAN
    /\ power \in BOOLEAN
    /\ pc \in {"poll", "hold", "inhibit", "restarted"}
    /\ hold_cnt \in 0 .. MaxHold
    /\ state \in 0 .. 3
    /\ led \in {0, 2, 4, 8}
    /\ inquiry_state \in BOOLEAN
    /\ action \in {"none", "power_on", "reset", "stop_inquiry", "disconnect_all",
                   "start_inquiry", "factory_reset"}

(***************************************************************************)
(* The user releases the button by what the LEDs show: the rate they flash *)
(* at is enough to tell which action the release selects, in every order   *)
(* of presses, and nothing is erased before they have flashed at the rate  *)
(* of the action before.                                                   *)
(***************************************************************************)
LedTellsAction ==
    pc \in {"inhibit", "restarted"} =>
        CASE led = 0 -> action \in (IF external THEN {"stop_inquiry", "disconnect_all"}
                                                ELSE {"reset"})
          [] led = 2 -> action \in (IF external THEN {"start_inquiry"}
                                                ELSE {"stop_inquiry", "disconnect_all"})
          [] led = 4 -> action = (IF external THEN "factory_reset" ELSE "start_inquiry")
          [] OTHER -> action = "factory_reset"

\* The LEDs flash at the rate of the thresholds that the hold has passed.
LedTellsState ==
    /\ pc # "poll" => led = IF state = 0 THEN 0 ELSE led_flash_hz[state - 1]
    /\ LedTellsAction

=============================================================================
