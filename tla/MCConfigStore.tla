--------------------------- MODULE MCConfigStore ---------------------------
(***************************************************************************)
(* Two games and the default configuration; the files of the games are     *)
(* alike, so they may be exchanged.                                        *)
(***************************************************************************)
EXTENDS ConfigStore, TLC

Symmetry == Permutations(Games)

\* Bound: what follows a crossing, of which the properties promise next to nothing, is left out.
UntilCrossed == ~crossed

=============================================================================
