-------------------------- MODULE MCBtConnections --------------------------
(***************************************************************************)
(* Small instances of BtConnections.                                       *)
(***************************************************************************)
EXTENDS BtConnections, FiniteSets, TLC

CONSTANTS b1, l1, l2, c1

MCOneOfEach == {b1, l1, c1}
MCTwoLe == {b1, l1, l2, c1}

MCSymmetry == Permutations({l1, l2})

\* Bound: one device at most is left behind by the reset of another's slot.
OneMisled == Cardinality(misled') <= 1

=============================================================================
