----------------------------- MODULE KbMonitor ------------------------------
(***************************************************************************)
(* The keyboard of one port.  kbmon_update, in the callback of Bluetooth,  *)
(* turns the keys of a report into MAKE and BREAK codes for the console;   *)
(* kbmon_typematic_cb, in the task of esp_timer, repeats the last key; the *)
(* loop of core 1 takes the codes.  The callback of Bluetooth (priority    *)
(* 23) interrupts the task of esp_timer (22) and is not interrupted by it. *)
(* The queue is abstracted to the FIFO that QueueBss is shown to be.       *)
(* (Mutants: see BssRing.)                                                 *)
(***************************************************************************)
EXTENDS Integers, Sequences, FiniteSets

CONSTANTS KbKeys,        \* the keys: ids, in the order of the loop
          CodeQueueLen   \* the codes a queue holds

ASSUME KbAssumption == KbKeys \subseteq Nat /\ IsFiniteSet(KbKeys) /\ CodeQueueLen \in Nat

NoKey == -1

VARIABLES held,          \* the keys that are down on the keyboard
          keys_state,    \* the keys of the last report
          changed,       \* kbmon_update: the keys it has still to go through
          tm_state,      \* typematic is on: PlayStation and CD-i; off for Saturn
          tm_armed,      \* tm_timer_hdl is armed
          tm_key_id,
          tm_at, tm_key, \* where kbmon_typematic_cb is, and the key it repeats
          codes,         \* scq_hdl
          made,          \* the keys that are down for the console
          raced, lost    \* history: an update came amid the callback; a code was dropped

kbvars == <<held, keys_state, changed, tm_state, tm_armed, tm_key_id, tm_at, tm_key, codes, made,
            raced, lost>>

KbInit ==
    /\ held = {} /\ keys_state = {} /\ changed = {}
    /\ tm_state \in BOOLEAN
    /\ tm_armed = FALSE /\ tm_key_id = NoKey
    /\ tm_at = "idle" /\ tm_key = NoKey
    /\ codes = <<>> /\ made = {}
    /\ raced = FALSE /\ lost = FALSE

\* kbmon_set_code: a full queue drops the code.
SetCode(type, key) ==
    IF Len(codes) < CodeQueueLen
    THEN codes' = Append(codes, <<type, key>>) /\ UNCHANGED lost
    ELSE lost' = TRUE /\ UNCHANGED codes

-----------------------------------------------------------------------------
\* kbmon_update is called with a report: what differs from the last one is gone through.
KbReport(keys) ==
    /\ changed = {}
    /\ held' = keys /\ keys_state' = keys
    /\ changed' = (keys \ keys_state) \cup (keys_state \ keys)
    /\ raced' = (raced \/ (tm_at # "idle" /\ changed' # {}))
    /\ UNCHANGED <<tm_state, tm_armed, tm_key_id, tm_at, tm_key, codes, made, lost>>

ArmedAfterBreak(key) == tm_armed \/ (key \in keys_state /\ tm_state)     \* mutant: never stopped
ArmedAfter(key) == key \in keys_state /\ tm_state

\* One turn of the loop of kbmon_update: the repetition stops, and starts with the key if it went down.
UpdateKey(key) ==
    /\ key \in changed /\ \A k \in changed : key <= k
    /\ changed' = changed \ {key}
    /\ SetCode(IF key \in keys_state THEN "make" ELSE "break", key)
    /\ tm_armed' = ArmedAfter(key)
    /\ tm_key_id' = IF ArmedAfter(key) THEN key ELSE tm_key_id
    /\ UNCHANGED <<held, keys_state, tm_state, tm_at, tm_key, made, raced>>

\* The keyboard is gone, or its battery: nobody tells the monitor.
KeyboardLost ==
    /\ held # {}
    /\ held' = {}
    /\ UNCHANGED <<keys_state, changed, tm_state, tm_armed, tm_key_id, tm_at, tm_key, codes, made,
                   raced, lost>>

-----------------------------------------------------------------------------
(* kbmon_typematic_cb.                                                     *)

TypematicFires ==
    /\ changed = {}
    /\ tm_armed /\ tm_at = "idle"
    /\ tm_armed' = FALSE
    /\ tm_at' = "make" /\ tm_key' = tm_key_id
    /\ UNCHANGED <<held, keys_state, changed, tm_state, tm_key_id, codes, made, raced, lost>>

TypematicMakes ==
    /\ changed = {}
    /\ tm_at = "make"
    /\ SetCode("make", tm_key)
    /\ tm_at' = "rearm" /\ tm_key' = NoKey
    /\ UNCHANGED <<held, keys_state, changed, tm_state, tm_armed, tm_key_id, made, raced>>

\* esp_timer_start_once fails, without effect, if the timer is armed.
TypematicRearms ==
    /\ changed = {}
    /\ tm_at = "rearm"
    /\ tm_armed' = TRUE
    /\ tm_at' = "idle"
    /\ UNCHANGED <<held, keys_state, changed, tm_state, tm_key_id, tm_key, codes, made, raced, lost>>

-----------------------------------------------------------------------------
\* Core 1 sends the oldest code to the console: kbmon_get_code.
GetCode ==
    /\ codes # <<>>
    /\ LET type == Head(codes)[1]  key == Head(codes)[2] IN
       made' = IF type = "make" THEN made \cup {key} ELSE made \ {key}
    /\ codes' = Tail(codes)
    /\ UNCHANGED <<held, keys_state, changed, tm_state, tm_armed, tm_key_id, tm_at, tm_key, raced, lost>>

KbNext ==
    \/ \E keys \in SUBSET KbKeys : KbReport(keys)
    \/ \E key \in KbKeys : UpdateKey(key)
    \/ KeyboardLost
    \/ TypematicFires \/ TypematicMakes \/ TypematicRearms
    \/ GetCode

KbSpec == KbInit /\ [][KbNext]_kbvars

-----------------------------------------------------------------------------
KbTypeOK ==
    /\ held \subseteq KbKeys /\ keys_state \subseteq KbKeys
    /\ changed \subseteq KbKeys /\ made \subseteq KbKeys
    /\ tm_state \in BOOLEAN /\ tm_armed \in BOOLEAN
    /\ raced \in BOOLEAN /\ lost \in BOOLEAN
    /\ tm_key_id \in KbKeys \cup {NoKey} /\ tm_key \in KbKeys \cup {NoKey}
    /\ tm_at \in {"idle", "make", "rearm"}
    /\ codes \in Seq({"make", "break"} \X KbKeys)

\* Nothing is on its way between the keyboard and the console.
KbQuiet == changed = {} /\ tm_at = "idle" /\ codes = <<>>

(***************************************************************************)
(* Once the console has taken the codes, the keys that are down for it are *)
(* those of the keyboard, and only such a key is repeated.  The code       *)
(* breaks this in three ways only: a report that interrupts the callback   *)
(* of the timer, which then sends or repeats a key that was let go; a code *)
(* that finds the queue full; a keyboard that leaves with a key down.      *)
(***************************************************************************)
KeysAgree ==
    KbQuiet /\ ~raced /\ ~lost /\ held = keys_state =>
        /\ made = held
        /\ tm_armed => tm_key_id \in held

\* What the console will hold of a key when it has taken the codes: the last of them that is
\* about the key says it or, if none is, what the console holds now.
Settles(key, type) ==
    \E i \in 0 .. Len(codes) :
        /\ \A j \in i + 1 .. Len(codes) : codes[j][2] # key
        /\ IF i = 0 THEN key \in made <=> type = "make" ELSE codes[i] = <<type, key>>

\* What it has been told of it: the report before the last for the keys kbmon_update has still to
\* go through.
KeyTold(key) == IF (key \in keys_state) = (key \notin changed) THEN "make" ELSE "break"

\* The console is told of every key, ...
AllTold == ~raced /\ ~lost => \A key \in KbKeys : Settles(key, KeyTold(key))

\* ... and what is repeated is a key of the last report, as soon as kbmon_update is through.
RepeatsHeld ==
    ~raced =>
        /\ changed = {} /\ tm_armed => tm_key_id \in keys_state
        /\ tm_at # "idle" => /\ changed = {}
                             /\ tm_key_id \in keys_state
                             /\ tm_at = "make" => tm_key = tm_key_id

\* The timer that is armed has a key, and so has its callback.
HasKey ==
    /\ tm_armed \/ tm_at # "idle" => tm_key_id # NoKey
    /\ tm_at = "make" => tm_key # NoKey

(***************************************************************************)
(* What makes KeysAgree inductive: it speaks of the moments when nothing   *)
(* is on its way, AllTold of the codes that are.                           *)
(***************************************************************************)
KbInv == KbTypeOK /\ HasKey /\ AllTold /\ RepeatsHeld

=============================================================================
