------------------------------ MODULE MCSysMgr ------------------------------
(***************************************************************************)
(* The task with its surroundings; and, from the same start, the button    *)
(* alone, with the thresholds of the source and a hold that goes well past *)
(* the last.                                                               *)
(***************************************************************************)
EXTENDS SysMgr

VARIABLE which           \* what is explored

\* In a console wired controllers come and go at its first port only.
FirstPort == external \/ wired \subseteq {0}

MCInit == MgrInit /\ FirstPort /\ which \in {"task", "button"} /\ (which = "button" => wired = {})
MCNext ==
    \/ which = "task" /\ ~Over /\ MgrNext /\ FirstPort' /\ UNCHANGED which
    \/ which = "button" /\ Next /\ Else /\ UNCHANGED <<at, which>>
MCSpec == MCInit /\ [][MCNext]_<<mgrvars, which>> /\ MgrFairness

=============================================================================
