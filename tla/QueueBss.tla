------------------------------ MODULE QueueBss ------------------------------
(***************************************************************************)
(* queue_bss: a queue of fixed-size items built from two liblfds rings.    *)
(* item_free_state holds the slots nobody uses, item_queue_state the slots *)
(* that carry an item.  A producer takes a slot from the free ring, copies *)
(* its item into it and pushes it on the queue ring; the consumer pops it, *)
(* works on the item in place and gives the slot back to the free ring.    *)
(* The adapter uses one such queue for the feedback the console sends to   *)
(* the controllers: producers call adapter_q_fb, bt_fb_task consumes.      *)
(*                                                                         *)
(* Every access to state the two sides share is a step of its own.         *)
(* (Mutants: see BssRing.)                                                 *)
(***************************************************************************)
EXTENDS BssRing

CONSTANTS Producers,     \* the threads that call queue_bss_enqueue
          Msgs,          \* the items they offer
          LenOf,         \* item_len of each item
          ItemMaxLen,    \* item_max_len of the queue
          NoSlot,        \* no slot: garbage in a ring, or an empty hand
          Torn,          \* a slot that is uninitialised or half written
          NoMsg          \* no item

Slots == 0 .. N - 2      \* queue_bss_init pushes item_num - 1 slots

ASSUME QueueAssumption ==
    /\ LenOf \in [Msgs -> Nat]
    /\ ItemMaxLen \in Nat
    /\ NoSlot \notin Slots
    /\ Torn \notin Msgs
    /\ NoMsg \notin Msgs \cup {Torn}

VARIABLES free,          \* item_free_state
          queue,         \* item_queue_state
          item,          \* what each slot holds: the bytes and the length together
          ppc,           \* where each producer is in queue_bss_enqueue
          pmsg,          \* the item it was called with
          pslot,         \* the slot it took from the free ring
          ret,           \* what its last queue_bss_enqueue returned
          cpc,           \* where bt_fb_task is
          cslot          \* the slot it works on

prodVars == <<ppc, pmsg, pslot, ret>>
consVars == <<cpc, cslot>>
vars == <<free, queue, item, prodVars, consVars>>

Init ==
    /\ free = [read_index |-> 0, write_index |-> N - 1,
               element |-> [i \in Index |-> IF i \in Slots THEN i ELSE NoSlot]]
    /\ queue = [read_index |-> 0, write_index |-> 0,
                element |-> [i \in Index |-> NoSlot]]
    /\ item = [s \in Slots |-> Torn]
    /\ ppc = [p \in Producers |-> "idle"]
    /\ pmsg = [p \in Producers |-> NoMsg]
    /\ pslot = [p \in Producers |-> NoSlot]
    /\ ret = [p \in Producers |-> 0]
    /\ cpc = "idle"
    /\ cslot = NoSlot

-----------------------------------------------------------------------------
(* The producer: queue_bss_enqueue.                                        *)

Goto(p, from, to) ==
    /\ ppc[p] = from
    /\ ppc' = [ppc EXCEPT ![p] = to]

\* The call: an item larger than a slot is refused before anything is touched.
Offer(p, m) ==
    /\ LenOf[m] <= ItemMaxLen
    /\ Goto(p, "idle", "check")
    /\ pmsg' = [pmsg EXCEPT ![p] = m]
    /\ ret' = [ret EXCEPT ![p] = 0]
    /\ UNCHANGED <<free, queue, item, pslot, consVars>>

\* lfds711_queue_bss_dequeue on the free ring: no free slot, the item is dropped ...
NoFreeSlot(p) ==
    /\ IsEmpty(free)
    /\ Goto(p, "check", "idle")
    /\ pmsg' = [pmsg EXCEPT ![p] = NoMsg]
    /\ ret' = [ret EXCEPT ![p] = -1]
    /\ UNCHANGED <<free, queue, item, pslot, consVars>>

\* ... or there is one,
FreeSlotSeen(p) ==
    /\ ~IsEmpty(free)
    /\ Goto(p, "check", "fetch")
    /\ UNCHANGED <<free, queue, item, pmsg, pslot, ret, consVars>>

\* which is read from the ring,
FetchFree(p) ==
    /\ Goto(p, "fetch", "retire")
    /\ pslot' = [pslot EXCEPT ![p] = Front(free)]
    /\ UNCHANGED <<free, queue, item, pmsg, ret, consVars>>

\* and then taken off it.
RetireFree(p) ==
    /\ Goto(p, "retire", "copy")
    /\ free' = Retire(free)
    /\ UNCHANGED <<queue, item, pmsg, pslot, ret, consVars>>

\* memcpy and the store of the length take time: the slot is torn meanwhile.
BeginCopy(p) ==
    /\ Goto(p, "copy", "copying")
    /\ item' = [item EXCEPT ![pslot[p]] = Torn]
    /\ UNCHANGED <<free, queue, pmsg, pslot, ret, consVars>>

EndCopyMissed(p) ==                \* mutant: only the length is written
    /\ Goto(p, "copying", "room")
    /\ UNCHANGED <<free, queue, item, pmsg, pslot, ret, consVars>>

EndCopy(p) ==
    /\ Goto(p, "copying", "room")
    /\ item' = [item EXCEPT ![pslot[p]] = pmsg[p]]
    /\ UNCHANGED <<free, queue, pmsg, pslot, ret, consVars>>

(***************************************************************************)
(* lfds711_queue_bss_enqueue on the queue ring: the check for room.  When  *)
(* there is none ("Queue full!") the producer itself gives the slot back   *)
(* to the free ring, whose producer the consumer is; NeverFull says that   *)
(* this branch is dead, so it is not divided into steps.                   *)
(***************************************************************************)
CheckRoom(p) ==
    IF IsFull(queue)
    THEN /\ Goto(p, "room", "idle")
         /\ free' = IF IsFull(free) THEN free ELSE Publish(Store(free, pslot[p]))
         /\ pmsg' = [pmsg EXCEPT ![p] = NoMsg]
         /\ pslot' = [pslot EXCEPT ![p] = NoSlot]
         /\ ret' = [ret EXCEPT ![p] = -1]
         /\ UNCHANGED <<queue, item, consVars>>
    ELSE /\ Goto(p, "room", "store")
         /\ UNCHANGED <<free, queue, item, pmsg, pslot, ret, consVars>>

StoreQueue(p) ==
    /\ Goto(p, "store", "publish")
    /\ queue' = Store(queue, pslot[p])
    /\ UNCHANGED <<free, item, pmsg, pslot, ret, consVars>>

PublishQueue(p) ==
    /\ Goto(p, "publish", "idle")
    /\ queue' = Publish(queue)
    /\ pmsg' = [pmsg EXCEPT ![p] = NoMsg]
    /\ pslot' = [pslot EXCEPT ![p] = NoSlot]
    /\ UNCHANGED <<free, item, ret, consVars>>

-----------------------------------------------------------------------------
(* The consumer: the loop of bt_fb_task.                                   *)

CGoto(from, to) == cpc = from /\ cpc' = to

\* lfds711_queue_bss_dequeue on the queue ring; when it is empty the task sleeps 10 ms.
ItemSeen ==
    /\ ~IsEmpty(queue)
    /\ CGoto("idle", "fetch")
    /\ UNCHANGED <<free, queue, item, prodVars, cslot>>

FetchQueue ==
    /\ CGoto("fetch", "retire")
    /\ cslot' = Front(queue)
    /\ UNCHANGED <<free, queue, item, prodVars>>

RetireQueue ==
    /\ CGoto("retire", "use")
    /\ queue' = Retire(queue)
    /\ UNCHANGED <<free, item, prodVars, cslot>>

\* The switch on header.type: the task reads the item in place until it is done.
UseItem ==
    /\ CGoto("use", "return")
    /\ UNCHANGED <<free, queue, item, prodVars, cslot>>

\* queue_bss_return: if the free ring has no room, the slot is lost for good.
ReturnCheck ==
    /\ CGoto("return", IF IsFull(free) THEN "idle" ELSE "restore")
    /\ cslot' = IF IsFull(free) THEN NoSlot ELSE cslot
    /\ UNCHANGED <<free, queue, item, prodVars>>

StoreFree ==
    /\ CGoto("restore", "release")
    /\ free' = Store(free, cslot)
    /\ UNCHANGED <<queue, item, prodVars, cslot>>

PublishFree ==
    /\ CGoto("release", "idle")
    /\ free' = Publish(free)
    /\ cslot' = NoSlot
    /\ UNCHANGED <<queue, item, prodVars>>

-----------------------------------------------------------------------------
Produce(p) ==
    \/ \E m \in Msgs : Offer(p, m)
    \/ NoFreeSlot(p)
    \/ FreeSlotSeen(p)
    \/ FetchFree(p)
    \/ RetireFree(p)
    \/ BeginCopy(p)
    \/ EndCopy(p)
    \/ CheckRoom(p)
    \/ StoreQueue(p)
    \/ PublishQueue(p)

Consume ==
    \/ ItemSeen
    \/ FetchQueue
    \/ RetireQueue
    \/ UseItem
    \/ ReturnCheck
    \/ StoreFree
    \/ PublishFree

Next == (\E p \in Producers : Produce(p)) \/ Consume

Spec == Init /\ [][Next]_vars

\* bt_fb_task is a FreeRTOS task in an endless loop: it never stops for good.
FairSpec == Spec /\ WF_vars(Consume)

-----------------------------------------------------------------------------
(* Properties.                                                             *)

TypeOK ==
    /\ free \in Ring(Slots \cup {NoSlot})
    /\ queue \in Ring(Slots \cup {NoSlot})
    /\ item \in [Slots -> Msgs \cup {Torn}]
    /\ ppc \in [Producers -> {"idle", "check", "fetch", "retire", "copy", "copying",
                              "room", "store", "publish"}]
    /\ pmsg \in [Producers -> Msgs \cup {NoMsg}]
    /\ pslot \in [Producers -> Slots \cup {NoSlot}]
    /\ ret \in [Producers -> {-1, 0}]
    /\ cpc \in {"idle", "fetch", "retire", "use", "return", "restore", "release"}
    /\ cslot \in Slots \cup {NoSlot}

\* The slot is in this producer's (the consumer's) hand and in no ring.
InHand(p) == ppc[p] \in {"copy", "copying", "room", "store", "publish"}
Holding == cpc \in {"use", "return", "restore", "release"}

HandCount == IF \E p \in Producers : InHand(p) THEN 1 ELSE 0
HeldCount == IF Holding THEN 1 ELSE 0

\* No slot is ever lost or made up: the rings and the two hands account for all of them.
Conservation == Count(free) + Count(queue) + HandCount + HeldCount = N - 1

(***************************************************************************)
(* The "Queue full!" branch of queue_bss_enqueue and the failure branch of *)
(* queue_bss_return (whose result nobody checks) are dead code: a ring has *)
(* room whenever something is about to be pushed on it.                    *)
(***************************************************************************)
NeverFull ==
    /\ \A p \in Producers : ppc[p] \in {"room", "store", "publish"} => ~IsFull(queue)
    /\ cpc \in {"return", "restore", "release"} => ~IsFull(free)

(***************************************************************************)
(* A slot has one owner: no slot is live twice in the rings, and the one   *)
(* a producer fills or the consumer reads is live in neither ring and not  *)
(* shared between them.  bt_fb_task works on the item in place, so this is *)
(* what keeps a rumble request from being overwritten while it is handled. *)
(***************************************************************************)
SingleOwner ==
    /\ NoDuplicates(free)
    /\ NoDuplicates(queue)
    /\ \A s \in Slots : ~(Contains(free, s) /\ Contains(queue, s))
    /\ \A p \in Producers : InHand(p) =>
          /\ ~Contains(free, pslot[p])
          /\ ~Contains(queue, pslot[p])
          /\ Holding => pslot[p] # cslot
    /\ Holding => ~Contains(free, cslot) /\ ~Contains(queue, cslot)

\* The items that fit in a slot.
Fitting == {m \in Msgs : LenOf[m] <= ItemMaxLen}

(***************************************************************************)
(* What each side knows between two of its steps; with the properties      *)
(* above it makes an inductive invariant.                                  *)
(***************************************************************************)
ProducerKnows(p) ==
    /\ ppc[p] # "idle" => pmsg[p] \in Fitting
    /\ ppc[p] \in {"fetch", "retire"} => ~IsEmpty(free)
    /\ ppc[p] = "retire" => pslot[p] = Front(free)
    /\ ppc[p] = "publish" => queue.element[queue.write_index] = pslot[p]
    /\ InHand(p) => pslot[p] \in Slots
    /\ ppc[p] \in {"room", "store", "publish"} => item[pslot[p]] = pmsg[p]

ConsumerKnows ==
    /\ cpc \in {"fetch", "retire"} => ~IsEmpty(queue)
    /\ cpc = "retire" => cslot = Front(queue)
    /\ cpc = "release" => free.element[free.write_index] = cslot
    /\ Holding => cslot \in Slots

EntriesAreSlots ==
    \A r \in {free, queue} : \A i \in LiveIn(r) : r.element[i] \in Slots

IndInv ==
    /\ TypeOK
    /\ Conservation
    /\ SingleOwner
    /\ EntriesAreSlots
    /\ \A p \in Producers : ProducerKnows(p)
    /\ ConsumerKnows

\* "Best effort" has a limit: an item that fits is dropped only when every slot is taken.
DroppedOnlyWhenFull ==
    [][\A p \in Producers :
          ret[p] = 0 /\ ret'[p] = -1 => Count(queue) + HeldCount = N - 1]_vars

\* The queue implements the channel it promises, liveness included.
Chan == INSTANCE FbChannel WITH
    Msgs <- Fitting,
    Capacity <- N - 1,
    Nothing <- NoMsg,
    chan <- [k \in 1 .. Count(queue) |-> item[Entries(queue)[k]]],
    held <- IF Holding THEN item[cslot] ELSE NoMsg

ImplementsChannel == Chan!FairSpec

(***************************************************************************)
(* The contract of the rings: between its look at the cursors and its move *)
(* of its own cursor, a ring has one thread on the enqueue side and one on *)
(* the dequeue side at most.                                               *)
(***************************************************************************)
SingleProducer ==
    /\ \A p, q \in Producers :
          ppc[p] \in {"fetch", "retire"} /\ ppc[q] \in {"fetch", "retire"} => p = q
    /\ \A p, q \in Producers :
          ppc[p] \in {"store", "publish"} /\ ppc[q] \in {"store", "publish"} => p = q

=============================================================================
