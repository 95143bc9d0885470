------------------------------ MODULE MCCores -------------------------------
(***************************************************************************)
(* What the core that answers the console shares with the core that runs   *)
(* Bluetooth: the queue of the feedback, the codes of a keyboard, the      *)
(* timer of the rumble, and the stall of core 0; and a pad of a            *)
(* PlayStation.  Each is explored from its own beginning.                  *)
(***************************************************************************)
EXTENDS MCQueueBss, Core0Stall, KbMonitor, FbTimer, PsPort

VARIABLE which           \* the machine that runs

corevars == <<vars, stallvars, kbvars, fbvars, psvars, which>>

CoresInit ==
    /\ Init /\ StallInit /\ KbInit /\ FbInit /\ PsInit
    /\ which \in {"queue", "stall", "keyboard", "rumble", "pad"}
    /\ which # "keyboard" => tm_state
    /\ tap <=> which = "pad"             \* left by its console, a multitap is a single pad

CoresNext ==
    \/ which = "queue" /\ Next /\ UNCHANGED <<stallvars, kbvars, fbvars, psvars, which>>
    \/ which = "stall" /\ StallNext /\ UNCHANGED <<vars, kbvars, fbvars, psvars, which>>
    \/ which = "keyboard" /\ KbNext /\ UNCHANGED <<vars, stallvars, fbvars, psvars, which>>
    \/ which = "rumble" /\ FbNext /\ UNCHANGED <<vars, stallvars, kbvars, psvars, which>>
    \/ which = "pad" /\ PsNext /\ UNCHANGED <<vars, stallvars, kbvars, fbvars, which>>

\* What does not run is at its beginning, where nothing is enabled that fairness is asked of.
CoresSpec == CoresInit /\ [][CoresNext]_corevars /\ WF_vars(Consume) /\ StallFairness /\ FbFairness

CoresTypeOK == TypeOK /\ StallTypeOK /\ KbTypeOK /\ FbTypeOK /\ PsTypeOK

=============================================================================
