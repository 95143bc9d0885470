----------------------------- MODULE FbChannel -----------------------------
(***************************************************************************)
(* What the feedback queue promises its users: a bounded, lossy-on-entry   *)
(* FIFO.  A message is either refused when it is offered or delivered      *)
(* exactly once, whole, in order; the receiver keeps the message it is     *)
(* working on in the channel's memory, so it counts against the capacity.  *)
(***************************************************************************)
EXTENDS Integers, Sequences

CONSTANTS Msgs,        \* the messages that fit in a slot
          Capacity,    \* the number of slots
          Nothing      \* the receiver holds no message

VARIABLES chan,        \* messages sent and not yet received, oldest first
          held         \* the message the receiver is working on, or Nothing

vars == <<chan, held>>

Load == Len(chan) + (IF held = Nothing THEN 0 ELSE 1)

Init == chan = <<>> /\ held = Nothing

Send(m) ==
    /\ Load < Capacity
    /\ chan' = Append(chan, m)
    /\ UNCHANGED held

Receive ==
    /\ held = Nothing
    /\ chan # <<>>
    /\ held' = Head(chan)
    /\ chan' = Tail(chan)

Release ==
    /\ held # Nothing
    /\ held' = Nothing
    /\ UNCHANGED chan

Next == (\E m \in Msgs : Send(m)) \/ Receive \/ Release

Spec == Init /\ [][Next]_vars

FairSpec == Spec /\ WF_vars(Receive) /\ WF_vars(Release)

=============================================================================
