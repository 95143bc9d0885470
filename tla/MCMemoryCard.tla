---------------------------- MODULE MCMemoryCard ----------------------------
(***************************************************************************)
(* Small instances of MemoryCard: two blocks, the wired loop and the web   *)
(* configuration, and a feedback queue of two items.                       *)
(***************************************************************************)
EXTENDS MemoryCard

=============================================================================
