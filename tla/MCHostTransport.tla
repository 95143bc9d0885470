-------------------------- MODULE MCHostTransport --------------------------
(***************************************************************************)
(* What is sent and what is reassembled share no state: which chooses one  *)
(* of the two, so that the run explores their sum and not their product.   *)
(* A ring that one handler can fill; two devices with frames of up to      *)
(* three fragments.                                                        *)
(***************************************************************************)
EXTENDS HostTransport, AclReassembly

VARIABLE which

MCInit == Init /\ RxInit /\ which \in {"tx", "rx"}

MCNext ==
    \/ which = "tx" /\ Next /\ UNCHANGED <<rx, which>>
    \/ which = "rx" /\ RxNext /\ UNCHANGED <<vars, which>>

MCSpec ==
    /\ MCInit
    /\ [][MCNext]_<<vars, rx, which>>
    /\ which = "tx" => Fairness

=============================================================================
