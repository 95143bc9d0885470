----------------------------- MODULE MCQueueBss -----------------------------
(***************************************************************************)
(* QueueBss on a ring of four elements (three slots), with two items that  *)
(* fit and one that is too long.                                           *)
(***************************************************************************)
EXTENDS QueueBss, Bitwise, TLC

CONSTANTS m1, m2, long

MCMsgs == {m1, m2, long}
MCLenOf == (m1 :> 1) @@ (m2 :> 2) @@ (long :> 3)

\* The code wraps a cursor with (i + 1) & mask; NextIndex is that, for powers of two.
ASSUME MaskWraps == \A i \in Index : NextIndex(i) = (i + 1) & (N - 1)

=============================================================================
