----------------------------- MODULE Core0Stall -----------------------------
(***************************************************************************)
(* How core 1, which answers the console with its interrupts off, stops    *)
(* core 0 while the timing is tight: core0_stall_start raises an interrupt *)
(* on core 0, whose handler says that it is there and spins until          *)
(* core0_stall_end lets it go.  The two cores share two words and the      *)
(* interrupt register, and every access to them is a step of its own.      *)
(* (Mutants: see BssRing.)                                                 *)
(***************************************************************************)
EXTENDS Integers, Sequences

VARIABLES start_var,     \* core0_stall_start_var: core 0 is in the handler
          end_var,       \* core0_stall_end_var: core 0 may go on
          raised,        \* DPORT_CPU_INTR_FROM_CPU_2_REG
          core1, stores, \* where core 1 is, and the stores it has made in core0_stall_start
          core0,         \* where core 0 is
          missed         \* history: 1 if end_var was reset before core 0 had read it

stallvars == <<start_var, end_var, raised, core1, stores, core0, missed>>

StallInit ==
    /\ start_var = 0 /\ end_var = 0
    /\ raised = 0
    /\ core1 = "polls" /\ stores = 0
    /\ core0 = "runs"
    /\ missed = 0

-----------------------------------------------------------------------------
(* Core 1.                                                                 *)

StartStoresLate == <<"raised", "start_var", "end_var">>     \* mutant: the interrupt first

\* The stores of core0_stall_start, in their order.
StartStores == <<"start_var", "end_var", "raised">>

\* The console selects the controller: the loop of core 1 takes the lock.
Lock ==
    /\ core1 = "polls"
    /\ core1' = "starts" /\ stores' = 0
    /\ UNCHANGED <<start_var, end_var, raised, core0, missed>>

StallStart ==
    /\ core1 = "starts"
    /\ stores' = stores + 1
    /\ core1' = IF stores' = Len(StartStores) THEN "locked" ELSE "starts"
    /\ LET word == StartStores[stores'] IN
       /\ start_var' = IF word = "start_var" THEN 0 ELSE start_var
       /\ end_var' = IF word = "end_var" THEN 0 ELSE end_var
       /\ raised' = IF word = "raised" THEN 1 ELSE raised
       /\ missed' = IF word = "end_var" /\ end_var = 1 /\ core0 = "spins" THEN 1 ELSE missed
    /\ UNCHANGED core0

\* The console has been answered, or has not asked for a while.
Unlock ==
    /\ core1 = "locked"
    /\ core1' = "ends"
    /\ UNCHANGED <<start_var, end_var, raised, stores, core0, missed>>

\* core0_stall_end spins until core 0 is in the handler,
StallSeen ==
    /\ core1 = "ends" /\ start_var = 1
    /\ core1' = "releases"
    /\ UNCHANGED <<start_var, end_var, raised, stores, core0, missed>>

\* and lets it go.
StallEnd ==
    /\ core1 = "releases"
    /\ end_var' = 1
    /\ core1' = "polls"
    /\ UNCHANGED <<start_var, raised, stores, core0, missed>>

-----------------------------------------------------------------------------
(* Core 0: the interrupt of level 5.                                       *)

Interrupt ==
    /\ core0 = "runs" /\ raised = 1
    /\ raised' = 0
    /\ core0' = "enters"
    /\ UNCHANGED <<start_var, end_var, core1, stores, missed>>

InHandler ==
    /\ core0 = "enters"
    /\ start_var' = 1
    /\ core0' = "spins"
    /\ UNCHANGED <<end_var, raised, core1, stores, missed>>

HandlerReturns ==
    /\ core0 = "spins" /\ end_var = 1
    /\ core0' = "runs"
    /\ UNCHANGED <<start_var, end_var, raised, core1, stores, missed>>

-----------------------------------------------------------------------------
Core1 == Lock \/ StallStart \/ Unlock \/ StallSeen \/ StallEnd
Core0 == Interrupt \/ InHandler \/ HandlerReturns

StallNext == Core1 \/ Core0

StallSpec == StallInit /\ [][StallNext]_stallvars

\* Core 1 never stops inside a section; nothing masks the interrupt for ever.
StallFairness ==
    /\ WF_stallvars(StallStart \/ Unlock \/ StallSeen \/ StallEnd)
    /\ WF_stallvars(Core0)

-----------------------------------------------------------------------------
StallTypeOK ==
    /\ start_var \in {0, 1} /\ end_var \in {0, 1}
    /\ raised \in {0, 1} /\ missed \in {0, 1}
    /\ core1 \in {"polls", "starts", "locked", "ends", "releases"}
    /\ stores \in 0 .. 3
    /\ core1 = "starts" => stores < 3
    /\ core0 \in {"runs", "enters", "spins"}

(***************************************************************************)
(* Neither core waits for the other for ever: core 0, which also runs the  *)
(* Bluetooth stack, gets out of the handler, and core 1 gets past          *)
(* core0_stall_end.  The exception is the race the code has: the handler   *)
(* did not read end_var before the next core0_stall_start cleared it.      *)
(***************************************************************************)
StallEnds ==
    /\ core0 = "spins" ~> core0 = "runs" \/ missed = 1
    /\ core1 = "ends" ~> core1 = "polls" \/ missed = 1

\* Core 1 is in a section: core0_stall_start is over, core0_stall_end is not.
Inside == core1 \in {"locked", "ends", "releases"}

(***************************************************************************)
(* Core 0 is let go by the end of the section that stopped it, and by      *)
(* nothing else: when core 1 is about to end a section core 0 spins, and   *)
(* what it will read is not left from the section before.                  *)
(***************************************************************************)
SectionHolds ==
    /\ missed = 0 /\ core1 = "releases" => core0 = "spins"
    /\ missed = 0 /\ Inside => end_var = 0

(***************************************************************************)
(* What the words mean: outside of a section core 0 is not on its way into *)
(* the handler and may leave it, and inside of it the interrupt is on its  *)
(* way, is taken, or has been answered.                                    *)
(***************************************************************************)
ResetInOrder ==
    missed = 0 /\ core1 = "starts" =>
        /\ stores >= 1 => start_var = 0
        /\ stores >= 2 => end_var = 0
OutsideFree ==
    missed = 0 /\ ~Inside =>
        /\ raised = 0
        /\ core0 # "enters"
        /\ core0 = "spins" => end_var = 1
InsideAnswers ==
    missed = 0 /\ Inside =>
        /\ raised = 1 <=> core0 = "runs"
        /\ start_var = 1 <=> core0 = "spins"

StallInv == StallTypeOK /\ SectionHolds /\ ResetInOrder /\ OutsideFree /\ InsideAnswers

=============================================================================
