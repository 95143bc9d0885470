------------------------------ MODULE MCBleHid ------------------------------
(***************************************************************************)
(* What a BLE controller goes through: the store of its key, its pairing,  *)
(* and the discovery of its reports, each explored from its own beginning. *)
(***************************************************************************)
EXTENDS SmpPairing, AttHid, TLC

CONSTANTS r1, r2, r3

Addresses == {r1, r2, r3}

Db(n, c, m, t, k) == [reports |-> n, chunk |-> c, map |-> m, tail |-> t, kept |-> k]
\* The only report of one is of a type that is not known, the third one of another of its first one's.
Controllers == {Db(1, 5, 2, "wide", {}), Db(2, 40, 1, "single", {1}),
                Db(4, 5, 1, "none", {1, 4}), Db(6, 5, 1, "none", {1, 3, 4})}

VARIABLE which           \* the machine that runs

allvars == <<keyvars, smpvars, attvars, which>>

Init == KeysInit /\ SmpInit /\ AttInit /\ which \in {"keys", "smp", "att"}

\* Remotes that have not paired, and are not pairing, are interchangeable: the least of them comes next.
Rank == (r1 :> 1) @@ (r2 :> 2) @@ (r3 :> 3)
New == {d \in Addresses : bond[d] = 0 /\ \A s \in Slots : who[s] # d}
LeastFirst == \A d, e \in New : Rank[e] < Rank[d] => \A s \in Slots : who'[s] # d

\* Bound: of the pairings the first alone is given up by its remote end.
FirstGivesUp == \A s \in Slots : phase'[s] = "quit" => try[s] = 1

\* SmpPairing has to answer for a pairing until something went wrong.
Next ==
    \/ which = "keys" /\ KeysNext /\ UNCHANGED <<smpvars, attvars, which>>
    \/ /\ which = "smp" /\ trouble = {} /\ SmpNext /\ LeastFirst /\ FirstGivesUp
       /\ UNCHANGED <<keyvars, attvars, which>>
    \/ which = "att" /\ AttNext /\ UNCHANGED <<keyvars, smpvars, which>>

Spec == Init /\ [][Next]_allvars /\ SmpFairness /\ AttFairness

TypeOK == KeysTypeOK /\ SmpTypeOK /\ AttTypeOK

=============================================================================
