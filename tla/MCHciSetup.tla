----------------------------- MODULE MCHciSetup -----------------------------
(***************************************************************************)
(* A table with every kind of entry: reset, plain commands, the clearing   *)
(* and the loading of the accept list, the page scan, and the LE scan.     *)
(***************************************************************************)
EXTENDS HciSetup, TLC

=============================================================================
