--------------------------- MODULE QueueBssProofs ---------------------------
(***************************************************************************)
(* Proofs about QueueBss for a ring of any size, any items, and the one    *)
(* producer the rings are made for; about Core0Stall, FbTimer, PsPort and  *)
(* KbMonitor.                                                              *)
(***************************************************************************)
EXTENDS QueueBss, Core0Stall, FbTimer, PsPort, KbMonitor, SequenceTheorems, TLAPS

-----------------------------------------------------------------------------
(* The cursors and the entries of a ring.                                  *)

\* What the two boundary tests of liblfds say about the number of entries.
LEMMA Boundaries ==
    ASSUME NEW S, NEW r \in Ring(S)
    PROVE  /\ Count(r) \in 0 .. N - 1
           /\ IsEmpty(r) <=> Count(r) = 0
           /\ IsFull(r) <=> Count(r) = N - 1
           /\ r.write_index \in Index /\ r.read_index \in Index
           /\ ~Live(r, r.write_index)
           /\ ~IsEmpty(r) => Contains(r, Front(r))
BY RingSize
   DEF Ring, Index, Count, IsEmpty, IsFull, NextIndex, Live, LiveIn, Contains, Front

\* A store to a ring that is not published yet changes no entry.
LEMMA StoreRing ==
    ASSUME NEW S, NEW r \in Ring(S), NEW e \in S
    PROVE  /\ Store(r, e) \in Ring(S)
           /\ Count(Store(r, e)) = Count(r)
           /\ Store(r, e).write_index = r.write_index
           /\ Store(r, e).read_index = r.read_index
           /\ Store(r, e).element[r.write_index] = e
           /\ IsEmpty(Store(r, e)) <=> IsEmpty(r)
           /\ IsFull(Store(r, e)) <=> IsFull(r)
           /\ LiveIn(Store(r, e)) = LiveIn(r)
           /\ \A i \in LiveIn(r) : Store(r, e).element[i] = r.element[i]
           /\ \A s : Contains(Store(r, e), s) <=> Contains(r, s)
           /\ NoDuplicates(Store(r, e)) <=> NoDuplicates(r)
<1>1. /\ Store(r, e) \in Ring(S)
      /\ Store(r, e).write_index = r.write_index
      /\ Store(r, e).read_index = r.read_index
      /\ Store(r, e).element = [r.element EXCEPT ![r.write_index] = e]
  BY DEF Ring, Index, Store
<1>2. /\ Count(Store(r, e)) = Count(r)
      /\ LiveIn(Store(r, e)) = LiveIn(r)
      /\ IsEmpty(Store(r, e)) <=> IsEmpty(r)
      /\ IsFull(Store(r, e)) <=> IsFull(r)
  BY <1>1 DEF Count, LiveIn, Live, IsEmpty, IsFull
<1>3. \A i \in LiveIn(r) : Store(r, e).element[i] = r.element[i]
  BY <1>1, Boundaries DEF LiveIn, Ring
<1>4. Store(r, e).element[r.write_index] = e
  BY <1>1, Boundaries DEF Ring
<1> QED
  BY <1>1, <1>2, <1>3, <1>4 DEF Contains, NoDuplicates

\* The oldest entry survives a store.
LEMMA StoreFront ==
    ASSUME NEW S, NEW r \in Ring(S), NEW e \in S, ~IsEmpty(r)
    PROVE  Front(Store(r, e)) = Front(r)
<1>1. r.read_index \in LiveIn(r)
  BY RingSize DEF Ring, Index, LiveIn, Live, IsEmpty
<1> QED
  BY <1>1, StoreRing DEF Front

\* Publishing adds exactly the stored entry.
LEMMA PublishRing ==
    ASSUME NEW S, NEW r \in Ring(S), ~IsFull(r)
    PROVE  /\ Publish(r) \in Ring(S)
           /\ Count(Publish(r)) = Count(r) + 1
           /\ Publish(r).element = r.element
           /\ Publish(r).read_index = r.read_index
           /\ Front(Publish(r)) = Front(r)
           /\ ~IsEmpty(Publish(r))
           /\ LiveIn(Publish(r)) = LiveIn(r) \cup {r.write_index}
           /\ \A s : Contains(Publish(r), s)
                        <=> Contains(r, s) \/ s = r.element[r.write_index]
           /\ NoDuplicates(r) /\ ~Contains(r, r.element[r.write_index])
                 => NoDuplicates(Publish(r))
<1>1. /\ Publish(r) \in Ring(S)
      /\ Publish(r).element = r.element
      /\ Publish(r).read_index = r.read_index
      /\ Publish(r).write_index = NextIndex(r.write_index)
  BY RingSize DEF Ring, Index, Publish, NextIndex
<1>2. Count(Publish(r)) = Count(r) + 1
  BY <1>1, RingSize DEF Ring, Index, Count, IsFull, NextIndex
<1>3. LiveIn(Publish(r)) = LiveIn(r) \cup {r.write_index}
  BY <1>1, RingSize DEF Ring, Index, LiveIn, Live, IsFull, NextIndex
<1>4. ~IsEmpty(Publish(r))
  BY <1>1, <1>2, Boundaries
<1> QED
  BY <1>1, <1>2, <1>3, <1>4 DEF Contains, NoDuplicates, Front

\* Retiring removes exactly the oldest entry.
LEMMA RetireRing ==
    ASSUME NEW S, NEW r \in Ring(S), ~IsEmpty(r)
    PROVE  /\ Retire(r) \in Ring(S)
           /\ Count(Retire(r)) = Count(r) - 1
           /\ Retire(r).element = r.element
           /\ Retire(r).write_index = r.write_index
           /\ LiveIn(Retire(r)) = LiveIn(r) \ {r.read_index}
           /\ \A s : Contains(Retire(r), s) => Contains(r, s)
           /\ NoDuplicates(r) =>
                 NoDuplicates(Retire(r)) /\ ~Contains(Retire(r), Front(r))
<1>1. /\ Retire(r) \in Ring(S)
      /\ Retire(r).element = r.element
      /\ Retire(r).write_index = r.write_index
      /\ Retire(r).read_index = NextIndex(r.read_index)
  BY RingSize DEF Ring, Index, Retire, NextIndex
<1>2. Count(Retire(r)) = Count(r) - 1
  BY <1>1, RingSize DEF Ring, Index, Count, IsEmpty, NextIndex
<1>3. LiveIn(Retire(r)) = LiveIn(r) \ {r.read_index} /\ r.read_index \in LiveIn(r)
  BY <1>1, RingSize DEF Ring, Index, LiveIn, Live, IsEmpty, NextIndex
<1> QED
  BY <1>1, <1>2, <1>3 DEF Contains, NoDuplicates, Front

-----------------------------------------------------------------------------
(* The invariant, for one producer.                                        *)

\* A queue that queue_bss_init has just set up satisfies the invariant.
LEMMA InitIndInv ==
    ASSUME NEW prod, Producers = {prod}
    PROVE  Init => IndInv
<1> SUFFICES ASSUME Init PROVE IndInv
  OBVIOUS
<1> USE RingSize, QueueAssumption
<1>1. TypeOK
  BY DEF Init, TypeOK, Ring, Index, Slots
<1>2. Conservation
  BY DEF Init, Conservation, Count, HandCount, HeldCount, InHand, Holding
<1>3. LiveIn(free) = Slots /\ \A i \in Slots : free.element[i] = i
  <2>1. /\ free.read_index = 0 /\ free.write_index = N - 1
        /\ free.element = [i \in Index |-> IF i \in Slots THEN i ELSE NoSlot]
    BY DEF Init
  <2>2. \A i \in Index : Live(free, i) <=> i \in Slots
    BY <2>1 DEF Live, Index, Slots
  <2>3. Slots \subseteq Index
    BY DEF Index, Slots
  <2> QED
    BY <2>1, <2>2, <2>3 DEF LiveIn
<1>4. LiveIn(queue) = {}
  <2>1. queue.read_index = 0 /\ queue.write_index = 0
    BY DEF Init
  <2> QED
    BY <2>1 DEF LiveIn, Live, Index
<1>5. \A p \in Producers : ~InHand(p)
  BY DEF Init, InHand
<1>6. ~Holding
  BY DEF Init, Holding
<1>7. SingleOwner
  BY <1>3, <1>4, <1>5, <1>6 DEF SingleOwner, Contains, NoDuplicates
<1>8. EntriesAreSlots
  BY <1>3, <1>4 DEF EntriesAreSlots
<1>9. (\A p \in Producers : ProducerKnows(p)) /\ ConsumerKnows
  BY <1>5, <1>6 DEF Init, ProducerKnows, ConsumerKnows
<1> QED
  BY <1>1, <1>2, <1>7, <1>8, <1>9 DEF IndInv


\* One step of the system preserves the invariant.
LEMMA StepIndInv ==
    ASSUME NEW prod, Producers = {prod}, IndInv, [Next]_vars
    PROVE  IndInv'
<1> USE RingSize, QueueAssumption
<1> DEFINE S == Slots \cup {NoSlot}
<1>1. /\ free \in Ring(S) /\ queue \in Ring(S)
      /\ prod \in Producers
      /\ \A p \in Producers : p = prod
  BY DEF IndInv, TypeOK
<1>2. /\ HandCount = IF InHand(prod) THEN 1 ELSE 0
      /\ HandCount' = IF InHand(prod)' THEN 1 ELSE 0
  BY <1>1 DEF HandCount, InHand
<1>3. /\ \A e : Contains(free, e) => e \in Slots
      /\ \A e : Contains(queue, e) => e \in Slots
  BY DEF IndInv, EntriesAreSlots, Contains
<1>4. /\ InHand(prod) => Count(queue) < N - 1 /\ ~IsFull(queue)
      /\ Holding => Count(free) < N - 1 /\ ~IsFull(free)
  BY <1>1, <1>2, Boundaries DEF IndInv, Conservation, HeldCount
<1>5. ASSUME NEW m \in Msgs, Offer(prod, m) PROVE IndInv'
  <2>1. /\ free' = free /\ queue' = queue
        /\ ~InHand(prod) /\ ~InHand(prod)' /\ pslot' = pslot
        /\ ppc[prod] = "idle" /\ ppc' = [ppc EXCEPT ![prod] = "check"]
        /\ Holding' = Holding /\ cslot' = cslot /\ cpc' = cpc
    BY <1>1, <1>5 DEF IndInv, TypeOK, ProducerKnows, Offer, Goto, InHand, Holding, consVars
  <2>3. TypeOK'
    BY <1>1, <1>5, <2>1 DEF IndInv, TypeOK, Offer, Goto, consVars
  <2>4. Conservation'
    BY <1>1, <1>2, <2>1, Boundaries DEF IndInv, Conservation, HeldCount
  <2>5. SingleOwner'
    BY <1>1, <2>1 DEF IndInv, SingleOwner
  <2>6. EntriesAreSlots'
    BY <1>1, <2>1 DEF IndInv, EntriesAreSlots
  <2>7. (\A p \in Producers : ProducerKnows(p))'
    BY <1>1, <1>5, <2>1 DEF IndInv, TypeOK, ProducerKnows, Offer, Fitting
  <2>8. ConsumerKnows'
    BY <1>1, <2>1 DEF IndInv, ConsumerKnows
  <2> QED
    BY <2>3, <2>4, <2>5, <2>6, <2>7, <2>8 DEF IndInv
<1>6. ASSUME NoFreeSlot(prod) PROVE IndInv'
  <2>1. /\ free' = free /\ queue' = queue
        /\ ~InHand(prod) /\ ~InHand(prod)' /\ pslot' = pslot
        /\ ppc[prod] = "check" /\ ppc' = [ppc EXCEPT ![prod] = "idle"]
        /\ Holding' = Holding /\ cslot' = cslot /\ cpc' = cpc
    BY <1>1, <1>6 DEF IndInv, TypeOK, ProducerKnows, NoFreeSlot, Goto, InHand, Holding, consVars
  <2>3. TypeOK'
    BY <1>1, <1>6, <2>1 DEF IndInv, TypeOK, NoFreeSlot, Goto, consVars
  <2>4. Conservation'
    BY <1>1, <1>2, <2>1, Boundaries DEF IndInv, Conservation, HeldCount
  <2>5. SingleOwner'
    BY <1>1, <2>1 DEF IndInv, SingleOwner
  <2>6. EntriesAreSlots'
    BY <1>1, <2>1 DEF IndInv, EntriesAreSlots
  <2>7. (\A p \in Producers : ProducerKnows(p))'
    BY <1>1, <1>6, <2>1 DEF IndInv, TypeOK, ProducerKnows, NoFreeSlot
  <2>8. ConsumerKnows'
    BY <1>1, <2>1 DEF IndInv, ConsumerKnows
  <2> QED
    BY <2>3, <2>4, <2>5, <2>6, <2>7, <2>8 DEF IndInv
<1>7. ASSUME FreeSlotSeen(prod) PROVE IndInv'
  <2>1. /\ free' = free /\ queue' = queue
        /\ ~IsEmpty(free)
        /\ ~InHand(prod) /\ ~InHand(prod)' /\ pslot' = pslot
        /\ ppc[prod] = "check" /\ ppc' = [ppc EXCEPT ![prod] = "fetch"]
        /\ Holding' = Holding /\ cslot' = cslot /\ cpc' = cpc
    BY <1>1, <1>7 DEF IndInv, TypeOK, ProducerKnows, FreeSlotSeen, Goto, InHand, Holding, consVars
  <2>3. TypeOK'
    BY <1>1, <1>7, <2>1 DEF IndInv, TypeOK, FreeSlotSeen, Goto, consVars
  <2>4. Conservation'
    BY <1>1, <1>2, <2>1, Boundaries DEF IndInv, Conservation, HeldCount
  <2>5. SingleOwner'
    BY <1>1, <2>1 DEF IndInv, SingleOwner
  <2>6. EntriesAreSlots'
    BY <1>1, <2>1 DEF IndInv, EntriesAreSlots
  <2>7. (\A p \in Producers : ProducerKnows(p))'
    BY <1>1, <1>7, <2>1 DEF IndInv, TypeOK, ProducerKnows, FreeSlotSeen
  <2>8. ConsumerKnows'
    BY <1>1, <2>1 DEF IndInv, ConsumerKnows
  <2> QED
    BY <2>3, <2>4, <2>5, <2>6, <2>7, <2>8 DEF IndInv
<1>8. ASSUME FetchFree(prod) PROVE IndInv'
  <2>1. /\ free' = free /\ queue' = queue
        /\ ~IsEmpty(free)
        /\ ~InHand(prod) /\ ~InHand(prod)' /\ pslot' = [pslot EXCEPT ![prod] = Front(free)]
        /\ ppc[prod] = "fetch" /\ ppc' = [ppc EXCEPT ![prod] = "retire"]
        /\ Holding' = Holding /\ cslot' = cslot /\ cpc' = cpc
    BY <1>1, <1>8 DEF IndInv, TypeOK, ProducerKnows, FetchFree, Goto, InHand, Holding, consVars
  <2>2. /\ Front(free) \in Slots
    BY <1>1, <1>3, <2>1, Boundaries
  <2>3. TypeOK'
    BY <1>1, <1>8, <2>1, <2>2 DEF IndInv, TypeOK, FetchFree, Goto, consVars
  <2>4. Conservation'
    BY <1>1, <1>2, <2>1, <2>2, Boundaries DEF IndInv, Conservation, HeldCount
  <2>5. SingleOwner'
    BY <1>1, <2>1, <2>2 DEF IndInv, SingleOwner
  <2>6. EntriesAreSlots'
    BY <1>1, <2>1, <2>2 DEF IndInv, EntriesAreSlots
  <2>7. (\A p \in Producers : ProducerKnows(p))'
    BY <1>1, <1>8, <2>1, <2>2 DEF IndInv, TypeOK, ProducerKnows, FetchFree
  <2>8. ConsumerKnows'
    BY <1>1, <2>1, <2>2 DEF IndInv, ConsumerKnows
  <2> QED
    BY <2>3, <2>4, <2>5, <2>6, <2>7, <2>8 DEF IndInv
<1>9. ASSUME RetireFree(prod) PROVE IndInv'
  <2>1. /\ free' = Retire(free) /\ queue' = queue
        /\ ~IsEmpty(free) /\ pslot[prod] = Front(free)
        /\ ~InHand(prod) /\ InHand(prod)' /\ pslot' = pslot
        /\ ppc[prod] = "retire" /\ ppc' = [ppc EXCEPT ![prod] = "copy"]
        /\ Holding' = Holding /\ cslot' = cslot /\ cpc' = cpc
    BY <1>1, <1>9 DEF IndInv, TypeOK, ProducerKnows, RetireFree, Goto, InHand, Holding, consVars
  <2>2. /\ free' \in Ring(S) /\ Count(free') = Count(free) - 1
        /\ \A e : Contains(free', e) => Contains(free, e)
        /\ Contains(free, pslot[prod]) /\ pslot[prod] \in Slots
        /\ NoDuplicates(free) => NoDuplicates(free') /\ ~Contains(free', pslot[prod])
        /\ free'.write_index = free.write_index /\ free'.element = free.element
        /\ LiveIn(free') \subseteq LiveIn(free)
    BY <1>1, <1>3, <2>1, RetireRing, Boundaries
  <2>3. TypeOK'
    BY <1>1, <1>9, <2>1, <2>2 DEF IndInv, TypeOK, RetireFree, Goto, consVars
  <2>4. Conservation'
    BY <1>1, <1>2, <2>1, <2>2, Boundaries DEF IndInv, Conservation, HeldCount
  <2>5. SingleOwner'
    BY <1>1, <2>1, <2>2 DEF IndInv, SingleOwner
  <2>6. EntriesAreSlots'
    BY <1>1, <2>1, <2>2 DEF IndInv, EntriesAreSlots
  <2>7. (\A p \in Producers : ProducerKnows(p))'
    BY <1>1, <1>9, <2>1, <2>2 DEF IndInv, TypeOK, ProducerKnows, RetireFree
  <2>8. ConsumerKnows'
    BY <1>1, <2>1, <2>2 DEF IndInv, ConsumerKnows
  <2> QED
    BY <2>3, <2>4, <2>5, <2>6, <2>7, <2>8 DEF IndInv
<1>10. ASSUME BeginCopy(prod) PROVE IndInv'
  <2>1. /\ free' = free /\ queue' = queue
        /\ InHand(prod) /\ InHand(prod)' /\ pslot' = pslot
        /\ ppc[prod] = "copy" /\ ppc' = [ppc EXCEPT ![prod] = "copying"]
        /\ Holding' = Holding /\ cslot' = cslot /\ cpc' = cpc
    BY <1>1, <1>10 DEF IndInv, TypeOK, ProducerKnows, BeginCopy, Goto, InHand, Holding, consVars
  <2>3. TypeOK'
    BY <1>1, <1>10, <2>1 DEF IndInv, TypeOK, BeginCopy, Goto, consVars
  <2>4. Conservation'
    BY <1>1, <1>2, <2>1, Boundaries DEF IndInv, Conservation, HeldCount
  <2>5. SingleOwner'
    BY <1>1, <2>1 DEF IndInv, SingleOwner
  <2>6. EntriesAreSlots'
    BY <1>1, <2>1 DEF IndInv, EntriesAreSlots
  <2>7. (\A p \in Producers : ProducerKnows(p))'
    BY <1>1, <1>10, <2>1 DEF IndInv, TypeOK, ProducerKnows, BeginCopy
  <2>8. ConsumerKnows'
    BY <1>1, <2>1 DEF IndInv, ConsumerKnows
  <2> QED
    BY <2>3, <2>4, <2>5, <2>6, <2>7, <2>8 DEF IndInv
<1>11. ASSUME EndCopy(prod) PROVE IndInv'
  <2>1. /\ free' = free /\ queue' = queue
        /\ InHand(prod) /\ InHand(prod)' /\ pslot' = pslot
        /\ ppc[prod] = "copying" /\ ppc' = [ppc EXCEPT ![prod] = "room"]
        /\ Holding' = Holding /\ cslot' = cslot /\ cpc' = cpc
    BY <1>1, <1>11 DEF IndInv, TypeOK, ProducerKnows, EndCopy, Goto, InHand, Holding, consVars
  <2>3. TypeOK'
    BY <1>1, <1>11, <2>1 DEF IndInv, TypeOK, EndCopy, Goto, consVars, ProducerKnows, Fitting
  <2>4. Conservation'
    BY <1>1, <1>2, <2>1, Boundaries DEF IndInv, Conservation, HeldCount
  <2>5. SingleOwner'
    BY <1>1, <2>1 DEF IndInv, SingleOwner
  <2>6. EntriesAreSlots'
    BY <1>1, <2>1 DEF IndInv, EntriesAreSlots
  <2>7. (\A p \in Producers : ProducerKnows(p))'
    BY <1>1, <1>11, <2>1 DEF IndInv, TypeOK, ProducerKnows, EndCopy
  <2>8. ConsumerKnows'
    BY <1>1, <2>1 DEF IndInv, ConsumerKnows
  <2> QED
    BY <2>3, <2>4, <2>5, <2>6, <2>7, <2>8 DEF IndInv
<1>12. ASSUME CheckRoom(prod) PROVE IndInv'
  <2>1. /\ free' = free /\ queue' = queue
        /\ InHand(prod) /\ InHand(prod)' /\ pslot' = pslot
        /\ ppc[prod] = "room" /\ ppc' = [ppc EXCEPT ![prod] = "store"]
        /\ Holding' = Holding /\ cslot' = cslot /\ cpc' = cpc
    BY <1>1, <1>12, <1>4 DEF IndInv, TypeOK, ProducerKnows, CheckRoom, Goto, InHand, Holding, consVars
  <2>3. TypeOK'
    BY <1>1, <1>12, <2>1 DEF IndInv, TypeOK, CheckRoom, Goto, consVars
  <2>4. Conservation'
    BY <1>1, <1>2, <2>1, Boundaries DEF IndInv, Conservation, HeldCount
  <2>5. SingleOwner'
    BY <1>1, <2>1 DEF IndInv, SingleOwner
  <2>6. EntriesAreSlots'
    BY <1>1, <2>1 DEF IndInv, EntriesAreSlots
  <2>7. (\A p \in Producers : ProducerKnows(p))'
    BY <1>1, <1>12, <2>1 DEF IndInv, TypeOK, ProducerKnows, CheckRoom
  <2>8. ConsumerKnows'
    BY <1>1, <2>1 DEF IndInv, ConsumerKnows
  <2> QED
    BY <2>3, <2>4, <2>5, <2>6, <2>7, <2>8 DEF IndInv
<1>13. ASSUME StoreQueue(prod) PROVE IndInv'
  <2>1. /\ free' = free /\ queue' = Store(queue, pslot[prod])
        /\ pslot[prod] \in Slots
        /\ InHand(prod) /\ InHand(prod)' /\ pslot' = pslot
        /\ ppc[prod] = "store" /\ ppc' = [ppc EXCEPT ![prod] = "publish"]
        /\ Holding' = Holding /\ cslot' = cslot /\ cpc' = cpc
    BY <1>1, <1>13 DEF IndInv, TypeOK, ProducerKnows, StoreQueue, Goto, InHand, Holding, consVars
  <2>2. /\ queue' \in Ring(S) /\ Count(queue') = Count(queue)
        /\ \A e : Contains(queue', e) <=> Contains(queue, e)
        /\ NoDuplicates(queue) => NoDuplicates(queue')
        /\ queue'.element[queue'.write_index] = pslot[prod]
        /\ LiveIn(queue') = LiveIn(queue)
        /\ \A i \in LiveIn(queue) : queue'.element[i] = queue.element[i]
        /\ IsEmpty(queue') <=> IsEmpty(queue)
        /\ ~IsEmpty(queue) => Front(queue') = Front(queue)
    BY <1>1, <1>3, <2>1, StoreRing, Boundaries, StoreFront
  <2>3. TypeOK'
    BY <1>1, <1>13, <2>1, <2>2 DEF IndInv, TypeOK, StoreQueue, Goto, consVars
  <2>4. Conservation'
    BY <1>1, <1>2, <2>1, <2>2, Boundaries DEF IndInv, Conservation, HeldCount
  <2>5. SingleOwner'
    BY <1>1, <2>1, <2>2 DEF IndInv, SingleOwner
  <2>6. EntriesAreSlots'
    BY <1>1, <2>1, <2>2 DEF IndInv, EntriesAreSlots
  <2>7. (\A p \in Producers : ProducerKnows(p))'
    BY <1>1, <1>13, <2>1, <2>2 DEF IndInv, TypeOK, ProducerKnows, StoreQueue
  <2>8. ConsumerKnows'
    BY <1>1, <2>1, <2>2 DEF IndInv, ConsumerKnows
  <2> QED
    BY <2>3, <2>4, <2>5, <2>6, <2>7, <2>8 DEF IndInv
<1>14. ASSUME PublishQueue(prod) PROVE IndInv'
  <2>1. /\ free' = free /\ queue' = Publish(queue)
        /\ queue.element[queue.write_index] = pslot[prod]
        /\ pslot[prod] \in Slots
        /\ InHand(prod) /\ ~InHand(prod)' /\ pslot' = [pslot EXCEPT ![prod] = NoSlot]
        /\ ppc[prod] = "publish" /\ ppc' = [ppc EXCEPT ![prod] = "idle"]
        /\ Holding' = Holding /\ cslot' = cslot /\ cpc' = cpc
    BY <1>1, <1>14 DEF IndInv, TypeOK, ProducerKnows, PublishQueue, Goto, InHand, Holding, consVars
  <2>2. /\ ~IsFull(queue)
        /\ queue' \in Ring(S) /\ Count(queue') = Count(queue) + 1
        /\ \A e : Contains(queue', e) <=> Contains(queue, e) \/ e = pslot[prod]
        /\ NoDuplicates(queue) /\ ~Contains(queue, pslot[prod]) => NoDuplicates(queue')
        /\ LiveIn(queue') = LiveIn(queue) \cup {queue.write_index}
        /\ queue'.element = queue.element
        /\ ~IsEmpty(queue')
        /\ Front(queue') = Front(queue)
    BY <1>1, <1>3, <2>1, PublishRing, Boundaries, <1>4
  <2>3. TypeOK'
    BY <1>1, <1>14, <2>1, <2>2 DEF IndInv, TypeOK, PublishQueue, Goto, consVars
  <2>4. Conservation'
    BY <1>1, <1>2, <2>1, <2>2, Boundaries DEF IndInv, Conservation, HeldCount
  <2>5. SingleOwner'
    BY <1>1, <2>1, <2>2 DEF IndInv, SingleOwner
  <2>6. EntriesAreSlots'
    BY <1>1, <2>1, <2>2 DEF IndInv, EntriesAreSlots
  <2>7. (\A p \in Producers : ProducerKnows(p))'
    BY <1>1, <1>14, <2>1, <2>2 DEF IndInv, TypeOK, ProducerKnows, PublishQueue
  <2>8. ConsumerKnows'
    BY <1>1, <2>1, <2>2 DEF IndInv, ConsumerKnows
  <2> QED
    BY <2>3, <2>4, <2>5, <2>6, <2>7, <2>8 DEF IndInv
<1>15. ASSUME ItemSeen PROVE IndInv'
  <2>1. /\ free' = free /\ queue' = queue
        /\ ~IsEmpty(queue)
        /\ ~Holding /\ ~Holding' /\ cslot' = cslot
        /\ cpc = "idle" /\ cpc' = "fetch"
        /\ pslot' = pslot /\ ppc' = ppc /\ InHand(prod)' = InHand(prod)
    BY <1>1, <1>15 DEF IndInv, TypeOK, ConsumerKnows, ItemSeen, CGoto, InHand, Holding, prodVars
  <2>3. TypeOK'
    BY <1>1, <1>15, <2>1 DEF IndInv, TypeOK, ItemSeen, CGoto, prodVars
  <2>4. Conservation'
    BY <1>1, <1>2, <2>1, Boundaries DEF IndInv, Conservation, HeldCount
  <2>5. SingleOwner'
    BY <1>1, <2>1 DEF IndInv, SingleOwner
  <2>6. EntriesAreSlots'
    BY <1>1, <2>1 DEF IndInv, EntriesAreSlots
  <2>7. (\A p \in Producers : ProducerKnows(p))'
    BY <1>1, <1>15, <2>1 DEF IndInv, TypeOK, ProducerKnows, ItemSeen, prodVars
  <2>8. ConsumerKnows'
    BY <1>1, <2>1 DEF IndInv, ConsumerKnows
  <2> QED
    BY <2>3, <2>4, <2>5, <2>6, <2>7, <2>8 DEF IndInv
<1>16. ASSUME FetchQueue PROVE IndInv'
  <2>1. /\ free' = free /\ queue' = queue
        /\ ~IsEmpty(queue)
        /\ ~Holding /\ ~Holding' /\ cslot' = Front(queue)
        /\ cpc = "fetch" /\ cpc' = "retire"
        /\ pslot' = pslot /\ ppc' = ppc /\ InHand(prod)' = InHand(prod)
    BY <1>1, <1>16 DEF IndInv, TypeOK, ConsumerKnows, FetchQueue, CGoto, InHand, Holding, prodVars
  <2>2. /\ Front(queue) \in Slots
    BY <1>1, <1>3, <2>1, Boundaries
  <2>3. TypeOK'
    BY <1>1, <1>16, <2>1, <2>2 DEF IndInv, TypeOK, FetchQueue, CGoto, prodVars
  <2>4. Conservation'
    BY <1>1, <1>2, <2>1, <2>2, Boundaries DEF IndInv, Conservation, HeldCount
  <2>5. SingleOwner'
    BY <1>1, <2>1, <2>2 DEF IndInv, SingleOwner
  <2>6. EntriesAreSlots'
    BY <1>1, <2>1, <2>2 DEF IndInv, EntriesAreSlots
  <2>7. (\A p \in Producers : ProducerKnows(p))'
    BY <1>1, <1>16, <2>1, <2>2 DEF IndInv, TypeOK, ProducerKnows, FetchQueue, prodVars
  <2>8. ConsumerKnows'
    BY <1>1, <2>1, <2>2 DEF IndInv, ConsumerKnows
  <2> QED
    BY <2>3, <2>4, <2>5, <2>6, <2>7, <2>8 DEF IndInv
<1>17. ASSUME RetireQueue PROVE IndInv'
  <2>1. /\ free' = free /\ queue' = Retire(queue)
        /\ ~IsEmpty(queue) /\ cslot = Front(queue)
        /\ ~Holding /\ Holding' /\ cslot' = cslot
        /\ cpc = "retire" /\ cpc' = "use"
        /\ pslot' = pslot /\ ppc' = ppc /\ InHand(prod)' = InHand(prod)
    BY <1>1, <1>17 DEF IndInv, TypeOK, ConsumerKnows, RetireQueue, CGoto, InHand, Holding, prodVars
  <2>2. /\ queue' \in Ring(S) /\ Count(queue') = Count(queue) - 1
        /\ \A e : Contains(queue', e) => Contains(queue, e)
        /\ Contains(queue, cslot) /\ cslot \in Slots
        /\ NoDuplicates(queue) => NoDuplicates(queue') /\ ~Contains(queue', cslot)
        /\ queue'.write_index = queue.write_index /\ queue'.element = queue.element
        /\ LiveIn(queue') \subseteq LiveIn(queue)
    BY <1>1, <1>3, <2>1, RetireRing, Boundaries
  <2>3. TypeOK'
    BY <1>1, <1>17, <2>1, <2>2 DEF IndInv, TypeOK, RetireQueue, CGoto, prodVars
  <2>4. Conservation'
    BY <1>1, <1>2, <2>1, <2>2, Boundaries DEF IndInv, Conservation, HeldCount
  <2>5. SingleOwner'
    BY <1>1, <2>1, <2>2 DEF IndInv, SingleOwner
  <2>6. EntriesAreSlots'
    BY <1>1, <2>1, <2>2 DEF IndInv, EntriesAreSlots
  <2>7. (\A p \in Producers : ProducerKnows(p))'
    BY <1>1, <1>17, <2>1, <2>2 DEF IndInv, TypeOK, ProducerKnows, RetireQueue, prodVars
  <2>8. ConsumerKnows'
    BY <1>1, <2>1, <2>2 DEF IndInv, ConsumerKnows
  <2> QED
    BY <2>3, <2>4, <2>5, <2>6, <2>7, <2>8 DEF IndInv
<1>18. ASSUME UseItem PROVE IndInv'
  <2>1. /\ free' = free /\ queue' = queue
        /\ Holding /\ Holding' /\ cslot' = cslot
        /\ cpc = "use" /\ cpc' = "return"
        /\ pslot' = pslot /\ ppc' = ppc /\ InHand(prod)' = InHand(prod)
    BY <1>1, <1>18 DEF IndInv, TypeOK, ConsumerKnows, UseItem, CGoto, InHand, Holding, prodVars
  <2>3. TypeOK'
    BY <1>1, <1>18, <2>1 DEF IndInv, TypeOK, UseItem, CGoto, prodVars
  <2>4. Conservation'
    BY <1>1, <1>2, <2>1, Boundaries DEF IndInv, Conservation, HeldCount
  <2>5. SingleOwner'
    BY <1>1, <2>1 DEF IndInv, SingleOwner
  <2>6. EntriesAreSlots'
    BY <1>1, <2>1 DEF IndInv, EntriesAreSlots
  <2>7. (\A p \in Producers : ProducerKnows(p))'
    BY <1>1, <1>18, <2>1 DEF IndInv, TypeOK, ProducerKnows, UseItem, prodVars
  <2>8. ConsumerKnows'
    BY <1>1, <2>1 DEF IndInv, ConsumerKnows
  <2> QED
    BY <2>3, <2>4, <2>5, <2>6, <2>7, <2>8 DEF IndInv
<1>19. ASSUME ReturnCheck PROVE IndInv'
  <2>1. /\ free' = free /\ queue' = queue
        /\ Holding /\ Holding' /\ cslot' = cslot
        /\ cpc = "return" /\ cpc' = "restore"
        /\ pslot' = pslot /\ ppc' = ppc /\ InHand(prod)' = InHand(prod)
    BY <1>1, <1>19, <1>4 DEF IndInv, TypeOK, ConsumerKnows, ReturnCheck, CGoto, InHand, Holding, prodVars
  <2>3. TypeOK'
    BY <1>1, <1>19, <2>1 DEF IndInv, TypeOK, ReturnCheck, CGoto, prodVars
  <2>4. Conservation'
    BY <1>1, <1>2, <2>1, Boundaries DEF IndInv, Conservation, HeldCount
  <2>5. SingleOwner'
    BY <1>1, <2>1 DEF IndInv, SingleOwner
  <2>6. EntriesAreSlots'
    BY <1>1, <2>1 DEF IndInv, EntriesAreSlots
  <2>7. (\A p \in Producers : ProducerKnows(p))'
    BY <1>1, <1>19, <2>1 DEF IndInv, TypeOK, ProducerKnows, ReturnCheck, prodVars
  <2>8. ConsumerKnows'
    BY <1>1, <2>1 DEF IndInv, ConsumerKnows
  <2> QED
    BY <2>3, <2>4, <2>5, <2>6, <2>7, <2>8 DEF IndInv
<1>20. ASSUME StoreFree PROVE IndInv'
  <2>1. /\ free' = Store(free, cslot) /\ queue' = queue
        /\ cslot \in Slots
        /\ Holding /\ Holding' /\ cslot' = cslot
        /\ cpc = "restore" /\ cpc' = "release"
        /\ pslot' = pslot /\ ppc' = ppc /\ InHand(prod)' = InHand(prod)
    BY <1>1, <1>20 DEF IndInv, TypeOK, ConsumerKnows, StoreFree, CGoto, InHand, Holding, prodVars
  <2>2. /\ free' \in Ring(S) /\ Count(free') = Count(free)
        /\ \A e : Contains(free', e) <=> Contains(free, e)
        /\ NoDuplicates(free) => NoDuplicates(free')
        /\ free'.element[free'.write_index] = cslot
        /\ LiveIn(free') = LiveIn(free)
        /\ \A i \in LiveIn(free) : free'.element[i] = free.element[i]
        /\ IsEmpty(free') <=> IsEmpty(free)
        /\ ~IsEmpty(free) => Front(free') = Front(free)
    BY <1>1, <1>3, <2>1, StoreRing, Boundaries, StoreFront
  <2>3. TypeOK'
    BY <1>1, <1>20, <2>1, <2>2 DEF IndInv, TypeOK, StoreFree, CGoto, prodVars
  <2>4. Conservation'
    BY <1>1, <1>2, <2>1, <2>2, Boundaries DEF IndInv, Conservation, HeldCount
  <2>5. SingleOwner'
    BY <1>1, <2>1, <2>2 DEF IndInv, SingleOwner
  <2>6. EntriesAreSlots'
    BY <1>1, <2>1, <2>2 DEF IndInv, EntriesAreSlots
  <2>7. (\A p \in Producers : ProducerKnows(p))'
    BY <1>1, <1>20, <2>1, <2>2 DEF IndInv, TypeOK, ProducerKnows, StoreFree, prodVars
  <2>8. ConsumerKnows'
    BY <1>1, <2>1, <2>2 DEF IndInv, ConsumerKnows
  <2> QED
    BY <2>3, <2>4, <2>5, <2>6, <2>7, <2>8 DEF IndInv
<1>21. ASSUME PublishFree PROVE IndInv'
  <2>1. /\ free' = Publish(free) /\ queue' = queue
        /\ free.element[free.write_index] = cslot
        /\ cslot \in Slots
        /\ Holding /\ ~Holding' /\ cslot' = NoSlot
        /\ cpc = "release" /\ cpc' = "idle"
        /\ pslot' = pslot /\ ppc' = ppc /\ InHand(prod)' = InHand(prod)
    BY <1>1, <1>21 DEF IndInv, TypeOK, ConsumerKnows, PublishFree, CGoto, InHand, Holding, prodVars
  <2>2. /\ ~IsFull(free)
        /\ free' \in Ring(S) /\ Count(free') = Count(free) + 1
        /\ \A e : Contains(free', e) <=> Contains(free, e) \/ e = cslot
        /\ NoDuplicates(free) /\ ~Contains(free, cslot) => NoDuplicates(free')
        /\ LiveIn(free') = LiveIn(free) \cup {free.write_index}
        /\ free'.element = free.element
        /\ ~IsEmpty(free')
        /\ Front(free') = Front(free)
    BY <1>1, <1>3, <2>1, PublishRing, Boundaries, <1>4
  <2>3. TypeOK'
    BY <1>1, <1>21, <2>1, <2>2 DEF IndInv, TypeOK, PublishFree, CGoto, prodVars
  <2>4. Conservation'
    BY <1>1, <1>2, <2>1, <2>2, Boundaries DEF IndInv, Conservation, HeldCount
  <2>5. SingleOwner'
    BY <1>1, <2>1, <2>2 DEF IndInv, SingleOwner
  <2>6. EntriesAreSlots'
    BY <1>1, <2>1, <2>2 DEF IndInv, EntriesAreSlots
  <2>7. (\A p \in Producers : ProducerKnows(p))'
    BY <1>1, <1>21, <2>1, <2>2 DEF IndInv, TypeOK, ProducerKnows, PublishFree, prodVars
  <2>8. ConsumerKnows'
    BY <1>1, <2>1, <2>2 DEF IndInv, ConsumerKnows
  <2> QED
    BY <2>3, <2>4, <2>5, <2>6, <2>7, <2>8 DEF IndInv
<1>22. CASE UNCHANGED vars
  BY <1>22 DEF vars, prodVars, consVars, IndInv, TypeOK, Conservation, HandCount, HeldCount,
     SingleOwner, EntriesAreSlots, ProducerKnows, ConsumerKnows, InHand, Holding
<1> QED
  BY <1>1, <1>5, <1>6, <1>7, <1>8, <1>9, <1>10, <1>11, <1>12, <1>13, <1>14, <1>15, <1>16, <1>17, <1>18, <1>19, <1>20, <1>21, <1>22 DEF Next, Produce, Consume

-----------------------------------------------------------------------------
(* The theorems.                                                           *)

\* With one producer the invariant always holds.
THEOREM Invariant ==
    ASSUME NEW prod, Producers = {prod}
    PROVE  Spec => []IndInv
<1>1. Init => IndInv
  BY InitIndInv
<1>2. IndInv /\ [Next]_vars => IndInv'
  BY StepIndInv
<1> QED
  BY <1>1, <1>2, PTL DEF Spec

\* Every variable of queue_bss, its rings and the two threads keeps its type.
THEOREM TypeCorrect ==
    ASSUME NEW prod, Producers = {prod}
    PROVE  Spec => []TypeOK
<1>1. IndInv => TypeOK
  BY DEF IndInv
<1> QED
  BY <1>1, Invariant, PTL

\* queue_bss neither leaks nor duplicates a slot, whatever the interleaving.
THEOREM SlotsConserved ==
    ASSUME NEW prod, Producers = {prod}
    PROVE  Spec => []Conservation
<1>1. IndInv => Conservation
  BY DEF IndInv
<1> QED
  BY <1>1, Invariant, PTL

\* The item bt_fb_task works on in place is nobody else's.
THEOREM SlotsOwned ==
    ASSUME NEW prod, Producers = {prod}
    PROVE  Spec => []SingleOwner
<1>1. IndInv => SingleOwner
  BY DEF IndInv
<1> QED
  BY <1>1, Invariant, PTL

\* In a state of the invariant a ring that is about to be pushed on has room.
LEMMA PushesSucceedNow == IndInv => NeverFull
<1> SUFFICES ASSUME IndInv PROVE NeverFull
  OBVIOUS
<1>1. free \in Ring(Slots \cup {NoSlot}) /\ queue \in Ring(Slots \cup {NoSlot})
  BY DEF IndInv, TypeOK
<1>2. Count(free) + Count(queue) + HandCount + HeldCount = N - 1
  BY DEF IndInv, Conservation
<1>3. Count(free) \in 0 .. N - 1 /\ Count(queue) \in 0 .. N - 1
  BY <1>1, Boundaries
<1>4. HandCount \in 0 .. 1 /\ HeldCount \in 0 .. 1
  BY DEF HandCount, HeldCount
<1>5. ASSUME NEW p \in Producers, InHand(p) PROVE ~IsFull(queue)
  <2>1. HandCount = 1
    BY <1>5 DEF HandCount
  <2> QED
    BY <1>1, <1>2, <1>3, <1>4, <2>1, RingSize, Boundaries
<1>6. ASSUME Holding PROVE ~IsFull(free)
  <2>1. HeldCount = 1
    BY <1>6 DEF HeldCount
  <2> QED
    BY <1>1, <1>2, <1>3, <1>4, <2>1, RingSize, Boundaries
<1> QED
  BY <1>5, <1>6 DEF NeverFull, InHand, Holding

\* "Queue full!" and a failing queue_bss_return cannot happen.
THEOREM PushesSucceed ==
    ASSUME NEW prod, Producers = {prod}
    PROVE  Spec => []NeverFull
BY Invariant, PushesSucceedNow, PTL

\* An item that fits is dropped only when all the slots hold items or one is in work.
THEOREM DropsAreJustified ==
    ASSUME NEW prod, Producers = {prod}
    PROVE  Spec => DroppedOnlyWhenFull
<1>1. ASSUME IndInv, [Next]_vars, NEW p \in Producers, ret[p] = 0, ret'[p] = -1
      PROVE  Count(queue) + HeldCount = N - 1
  <2>1. free \in Ring(Slots \cup {NoSlot}) /\ queue \in Ring(Slots \cup {NoSlot})
    BY <1>1 DEF IndInv, TypeOK
  <2>2. NoFreeSlot(prod) /\ p = prod
    BY <1>1, PushesSucceedNow
       DEF Next, Produce, Consume, vars, prodVars, IndInv, TypeOK, NeverFull,
           Offer, FreeSlotSeen, FetchFree, RetireFree, BeginCopy, EndCopy, CheckRoom,
           StoreQueue, PublishQueue, Goto, ItemSeen, FetchQueue, RetireQueue, UseItem,
           ReturnCheck, StoreFree, PublishFree
  <2>3. Count(free) = 0 /\ HandCount = 0
    BY <1>1, <2>1, <2>2, Boundaries DEF NoFreeSlot, Goto, HandCount, InHand
  <2> QED
    BY <1>1, <2>1, <2>3, Boundaries DEF IndInv, Conservation, HeldCount
<1>2. IndInv /\ [Next]_vars =>
          [\A p \in Producers :
             ret[p] = 0 /\ ret'[p] = -1 => Count(queue) + HeldCount = N - 1]_vars
  BY <1>1
<1> QED
  BY <1>2, Invariant, PTL DEF Spec, DroppedOnlyWhenFull

-----------------------------------------------------------------------------
(* The queue implements the channel.                                       *)

\* Where the k-th entry of a ring is, before and after each operation.
LEMMA Positions ==
    ASSUME NEW S, NEW r \in Ring(S)
    PROVE  /\ \A k \in 1 .. Count(r) : Position(r, k) \in LiveIn(r)
           /\ ~IsFull(r) =>
                 /\ \A k \in 1 .. Count(r) : Position(Publish(r), k) = Position(r, k)
                 /\ Position(Publish(r), Count(r) + 1) = r.write_index
           /\ ~IsEmpty(r) =>
                 /\ Position(r, 1) = r.read_index
                 /\ \A k \in 1 .. Count(r) - 1 :
                       Position(Retire(r), k) = Position(r, k + 1)
<1>1. r.read_index \in 0 .. N - 1 /\ r.write_index \in 0 .. N - 1
  BY DEF Ring, Index
<1>2. \A k \in 1 .. Count(r) : Position(r, k) \in LiveIn(r)
  BY <1>1, RingSize DEF Count, Position, LiveIn, Live, Index
<1>3. ASSUME ~IsFull(r)
      PROVE  /\ \A k \in 1 .. Count(r) : Position(Publish(r), k) = Position(r, k)
             /\ Position(Publish(r), Count(r) + 1) = r.write_index
  <2>1. Publish(r).read_index = r.read_index
    BY <1>3, PublishRing
  <2> QED
    BY <1>1, <1>3, <2>1, RingSize DEF Count, Position
<1>4. ASSUME ~IsEmpty(r)
      PROVE  /\ Position(r, 1) = r.read_index
             /\ \A k \in 1 .. Count(r) - 1 :
                   Position(Retire(r), k) = Position(r, k + 1)
  <2>1. Retire(r).read_index = NextIndex(r.read_index)
    BY DEF Ring, Retire
  <2> QED
    BY <1>1, <1>4, <2>1, RingSize DEF Count, Position, NextIndex
<1> QED
  BY <1>2, <1>3, <1>4

\* The messages in flight, as the channel sees them.
InFlight == [k \in 1 .. Count(queue) |-> item[Entries(queue)[k]]]
InWork == IF Holding THEN item[cslot] ELSE NoMsg

\* A step that disturbs no live entry and no item in one leaves the channel's contents alone.
LEMMA SameInFlight ==
    ASSUME IndInv,
           Count(queue') = Count(queue),
           \A k \in 1 .. Count(queue) : Position(queue', k) = Position(queue, k),
           \A i \in LiveIn(queue) : queue'.element[i] = queue.element[i],
           \A i \in LiveIn(queue) : item'[queue.element[i]] = item[queue.element[i]]
    PROVE  InFlight' = InFlight
<1>1. queue \in Ring(Slots \cup {NoSlot})
  BY DEF IndInv, TypeOK
<1>2. \A k \in 1 .. Count(queue) : Position(queue, k) \in LiveIn(queue)
  BY <1>1, Positions
<1>3. \A k \in 1 .. Count(queue) : item'[Entries(queue')[k]] = item[Entries(queue)[k]]
  BY <1>2 DEF Entries
<1> QED
  BY <1>3 DEF InFlight

\* Append, element by element.
LEMMA AppendElementwise ==
    ASSUME NEW T, NEW s \in Seq(T), NEW t \in Seq(T), NEW e \in T,
           Len(t) = Len(s) + 1,
           \A k \in 1 .. Len(s) : t[k] = s[k],
           t[Len(s) + 1] = e
    PROVE  t = Append(s, e)
<1>1. Append(s, e) \in Seq(T) /\ Len(Append(s, e)) = Len(s) + 1
  OBVIOUS
<1>2. \A k \in 1 .. Len(s) + 1 : t[k] = Append(s, e)[k]
  OBVIOUS
<1> QED
  BY <1>1, <1>2, SeqEqual

\* Publishing appends the producer's message to the messages in flight.
LEMMA PublishAppends ==
    ASSUME IndInv, NEW prod \in Producers, Producers = {prod}, PublishQueue(prod),
           NEW m \in Fitting, m = pmsg[prod]
    PROVE  Chan!Send(m)
<1> USE RingSize, QueueAssumption
<1>1. /\ queue \in Ring(Slots \cup {NoSlot}) /\ queue' = Publish(queue)
      /\ item' = item /\ cslot' = cslot /\ Holding' = Holding
      /\ pmsg[prod] \in Fitting /\ item[pslot[prod]] = pmsg[prod]
      /\ queue.element[queue.write_index] = pslot[prod]
      /\ InHand(prod)
  BY DEF IndInv, TypeOK, ProducerKnows, PublishQueue, Goto, consVars, Holding, InHand
<1>2. Count(queue) + HeldCount < N - 1 /\ ~IsFull(queue) /\ Count(queue) \in Nat
  <2>1. HandCount = 1
    BY <1>1 DEF HandCount
  <2>2. free \in Ring(Slots \cup {NoSlot})
    BY DEF IndInv, TypeOK
  <2> QED
    BY <1>1, <2>1, <2>2, Boundaries DEF IndInv, Conservation, HeldCount
<1>3. Count(queue') = Count(queue) + 1 /\ queue'.element = queue.element
  BY <1>1, <1>2, PublishRing
<1>4. /\ \A k \in 1 .. Count(queue) : Position(queue', k) = Position(queue, k)
      /\ Position(queue', Count(queue) + 1) = queue.write_index
  BY <1>1, <1>2, Positions
<1>5. /\ DOMAIN InFlight' = 1 .. Count(queue) + 1
      /\ \A k \in 1 .. Count(queue) : InFlight'[k] = InFlight[k]
      /\ InFlight'[Count(queue) + 1] = pmsg[prod]
  BY <1>1, <1>2, <1>3, <1>4 DEF InFlight, Entries
<1>6. InFlight' = Append(InFlight, pmsg[prod])
  <2> DEFINE T == Msgs \cup {Torn}
  <2>1. InFlight \in Seq(T) /\ Len(InFlight) = Count(queue)
    <3>1. \A k \in 1 .. Count(queue) : Entries(queue)[k] \in Slots
      BY <1>1, Positions DEF Entries, IndInv, EntriesAreSlots
    <3> QED
      BY <1>2, <3>1 DEF InFlight, IndInv, TypeOK
  <2>2. InFlight' \in Seq(T) /\ Len(InFlight') = Count(queue) + 1
    <3>1. InFlight' = [k \in 1 .. Count(queue) + 1 |-> InFlight'[k]]
      BY <1>3 DEF InFlight
    <3>2. \A k \in 1 .. Count(queue) + 1 : InFlight'[k] \in T
      BY <1>1, <1>2, <1>5, <2>1 DEF Fitting
    <3> QED
      BY <1>2, <3>1, <3>2
  <2>3. pmsg[prod] \in T
    BY <1>1 DEF Fitting
  <2> QED
    BY <1>5, <2>1, <2>2, <2>3, AppendElementwise
<1>7. Len(InFlight) = Count(queue)
  BY <1>2 DEF InFlight
<1>8. InWork' = InWork
  BY <1>1 DEF InWork
<1>9. (IF InWork = NoMsg THEN 0 ELSE 1) <= HeldCount
  BY DEF InWork, HeldCount
<1>10. Chan!Load < N - 1
  <2>1. Chan!Load = Len(InFlight) + (IF InWork = NoMsg THEN 0 ELSE 1)
    BY DEF Chan!Load, InFlight, InWork
  <2>2. HeldCount \in Nat
    BY DEF HeldCount
  <2> QED
    BY <1>2, <1>7, <1>9, <2>1, <2>2
<1> QED
  BY <1>6, <1>8, <1>10 DEF Chan!Send, InFlight, InWork

\* Retiring hands the oldest message in flight to the consumer.
LEMMA RetireReceives ==
    ASSUME IndInv, RetireQueue
    PROVE  Chan!Receive
<1> USE RingSize, QueueAssumption
<1>1. /\ queue \in Ring(Slots \cup {NoSlot}) /\ queue' = Retire(queue)
      /\ ~IsEmpty(queue) /\ cslot = Front(queue)
      /\ item' = item /\ cslot' = cslot /\ ~Holding /\ Holding'
  BY DEF IndInv, TypeOK, ConsumerKnows, RetireQueue, CGoto, prodVars, Holding
<1>2. Count(queue) \in Nat \ {0}
  BY <1>1, Boundaries
<1>3. Count(queue') = Count(queue) - 1 /\ queue'.element = queue.element
  BY <1>1, RetireRing
<1>4. /\ \A k \in 1 .. Count(queue) - 1 : Position(queue', k) = Position(queue, k + 1)
      /\ Position(queue, 1) = queue.read_index
  BY <1>1, Positions
<1>5. /\ InFlight' = [k \in 1 .. Count(queue) - 1 |-> InFlight[k + 1]]
      /\ InFlight[1] = item[cslot]
  BY <1>1, <1>2, <1>3, <1>4 DEF InFlight, Entries, Front
<1>6. /\ Len(InFlight) = Count(queue)
      /\ InFlight = [k \in 1 .. Count(queue) |-> InFlight[k]]
  BY <1>2 DEF InFlight
<1>7. InFlight' = Tail(InFlight) /\ Head(InFlight) = item[cslot] /\ InFlight # <<>>
  BY <1>2, <1>5, <1>6
<1>8. InWork = NoMsg /\ InWork' = item[cslot]
  BY <1>1 DEF InWork
<1> QED
  BY <1>7, <1>8 DEF Chan!Receive, InFlight, InWork

\* Every other step leaves the channel alone, except the release of the item in work.
LEMMA StepChannel ==
    ASSUME NEW prod, Producers = {prod}, IndInv, [Next]_vars
    PROVE  [Chan!Next]_<<InFlight, InWork>>
<1> USE RingSize, QueueAssumption
<1>1. /\ free \in Ring(Slots \cup {NoSlot}) /\ queue \in Ring(Slots \cup {NoSlot})
      /\ prod \in Producers
      /\ \A k \in 1 .. Count(queue) : Position(queue, k) \in LiveIn(queue)
  BY Positions DEF IndInv, TypeOK
<1>2. ASSUME queue' = queue, item' = item PROVE InFlight' = InFlight
  BY <1>2 DEF InFlight
<1>3. ASSUME item' = item, cslot' = cslot, Holding' = Holding PROVE InWork' = InWork
  BY <1>3 DEF InWork
<1>4. ASSUME PublishQueue(prod) PROVE Chan!Next
  <2>1. pmsg[prod] \in Fitting
    BY <1>1, <1>4 DEF IndInv, ProducerKnows, PublishQueue, Goto
  <2>2. PICK m \in Fitting : m = pmsg[prod]
    BY <2>1
  <2>3. Chan!Send(m)
    BY <1>1, <1>4, <2>2, PublishAppends
  <2> QED
    BY <2>3 DEF Chan!Next
<1>5. ASSUME RetireQueue PROVE Chan!Next
  BY <1>5, RetireReceives DEF Chan!Next
<1>6. ASSUME PublishFree PROVE Chan!Next
  <2>1. /\ queue' = queue /\ item' = item /\ Holding /\ ~Holding'
        /\ item[cslot] # NoMsg
    BY <1>6 DEF IndInv, TypeOK, ConsumerKnows, PublishFree, CGoto, Holding, prodVars
  <2>2. InFlight' = InFlight /\ InWork # NoMsg /\ InWork' = NoMsg
    BY <1>2, <2>1 DEF InWork
  <2> QED
    BY <2>2 DEF Chan!Next, Chan!Release, InFlight, InWork
<1>7. ASSUME BeginCopy(prod) \/ EndCopy(prod)
      PROVE  UNCHANGED <<InFlight, InWork>>
  <2>1. /\ queue' = queue /\ cslot' = cslot /\ Holding' = Holding
        /\ InHand(prod)
        /\ \A s \in Slots : s # pslot[prod] => item'[s] = item[s]
    BY <1>1, <1>7
       DEF IndInv, TypeOK, BeginCopy, EndCopy, Goto, consVars, InHand, Holding
  <2>2. \A i \in LiveIn(queue) : queue.element[i] # pslot[prod]
    BY <1>1, <2>1 DEF IndInv, SingleOwner, Contains
  <2>3. \A i \in LiveIn(queue) : item'[queue.element[i]] = item[queue.element[i]]
    BY <2>1, <2>2 DEF IndInv, EntriesAreSlots
  <2>4. InFlight' = InFlight
    BY <2>1, <2>3, SameInFlight
  <2>5. Holding => cslot \in Slots /\ cslot # pslot[prod]
    BY <1>1, <2>1 DEF IndInv, SingleOwner, ConsumerKnows
  <2>6. InWork' = InWork
    BY <2>1, <2>5 DEF InWork
  <2> QED
    BY <2>4, <2>6
<1>8. ASSUME StoreQueue(prod) PROVE UNCHANGED <<InFlight, InWork>>
  <2>1. /\ queue' = Store(queue, pslot[prod]) /\ pslot[prod] \in Slots
        /\ item' = item /\ cslot' = cslot /\ Holding' = Holding
    BY <1>1, <1>8
       DEF IndInv, ProducerKnows, StoreQueue, Goto, consVars, InHand, Holding
  <2>2. /\ Count(queue') = Count(queue)
        /\ queue'.read_index = queue.read_index
        /\ \A i \in LiveIn(queue) : queue'.element[i] = queue.element[i]
    BY <1>1, <2>1, StoreRing
  <2>3. \A k \in 1 .. Count(queue) : Position(queue', k) = Position(queue, k)
    BY <2>2 DEF Position
  <2>4. InFlight' = InFlight
    BY <2>1, <2>2, <2>3, SameInFlight
  <2> QED
    BY <1>3, <2>1, <2>4
<1>9. ASSUME \/ \E m \in Msgs : Offer(prod, m)
             \/ NoFreeSlot(prod) \/ FreeSlotSeen(prod) \/ FetchFree(prod)
             \/ RetireFree(prod)
      PROVE  UNCHANGED <<InFlight, InWork>>
  <2>1. queue' = queue /\ item' = item /\ cslot' = cslot /\ Holding' = Holding
    BY <1>9 DEF Offer, NoFreeSlot, FreeSlotSeen, FetchFree, RetireFree, consVars, Holding
  <2> QED
    BY <1>2, <1>3, <2>1
<1>10. ASSUME CheckRoom(prod) PROVE UNCHANGED <<InFlight, InWork>>
  <2>1. queue' = queue /\ item' = item /\ cslot' = cslot /\ Holding' = Holding
    BY <1>10 DEF CheckRoom, consVars, Holding
  <2> QED
    BY <1>2, <1>3, <2>1
<1>11. ASSUME ItemSeen \/ FetchQueue PROVE UNCHANGED <<InFlight, InWork>>
  <2>1. queue' = queue /\ item' = item /\ ~Holding /\ ~Holding'
    BY <1>11 DEF ItemSeen, FetchQueue, CGoto, Holding
  <2> QED
    BY <1>2, <2>1 DEF InWork
<1>12. ASSUME UseItem \/ ReturnCheck \/ StoreFree
       PROVE  UNCHANGED <<InFlight, InWork>>
  <2>1. cpc = "return" => ~IsFull(free)
    BY PushesSucceedNow DEF NeverFull
  <2>2. queue' = queue /\ item' = item /\ cslot' = cslot /\ Holding /\ Holding'
    BY <1>12, <2>1 DEF UseItem, ReturnCheck, StoreFree, CGoto, Holding
  <2> QED
    BY <1>2, <1>3, <2>2
<1>13. ASSUME UNCHANGED vars PROVE UNCHANGED <<InFlight, InWork>>
  <2>1. queue' = queue /\ item' = item /\ cslot' = cslot /\ Holding' = Holding
    BY <1>13 DEF vars, consVars, Holding
  <2> QED
    BY <1>2, <1>3, <2>1
<1> QED
  BY <1>4, <1>5, <1>6, <1>7, <1>8, <1>9, <1>10, <1>11, <1>12, <1>13
     DEF Next, Produce, Consume

\* queue_bss is the bounded, lossy-on-entry FIFO its users take it for.
THEOREM ChannelRefinement ==
    ASSUME NEW prod, Producers = {prod}
    PROVE  Spec => Chan!Spec
<1>1. Init => Chan!Init
  BY RingSize DEF Init, Count, Holding, Chan!Init
<1>2. IndInv /\ [Next]_vars => [Chan!Next]_(Chan!vars)
  BY StepChannel DEF Chan!vars, InFlight, InWork
<1> QED
  BY <1>1, <1>2, Invariant, PTL DEF Spec, Chan!Spec

-----------------------------------------------------------------------------
(* The stall of core 0.                                                    *)

\* Every step of the two cores keeps the types.
LEMMA StallTyped == StallTypeOK /\ [StallNext]_stallvars => StallTypeOK'
<1> SUFFICES ASSUME StallTypeOK, [StallNext]_stallvars PROVE StallTypeOK'
  OBVIOUS
<1> USE DEF StallTypeOK
<1>1. CASE StallStart
  <2>1. stores' \in 1 .. 3 /\ core1' = IF stores' = 3 THEN "locked" ELSE "starts"
    BY <1>1 DEF StallStart, StartStores
  <2>2. start_var' \in {0, 1} /\ end_var' \in {0, 1} /\ raised' \in {0, 1} /\ missed' \in {0, 1}
    BY <1>1 DEF StallStart
  <2> QED
    BY <1>1, <2>1, <2>2 DEF StallStart
<1>2. CASE Lock \/ Unlock \/ StallSeen \/ StallEnd
  BY <1>2 DEF Lock, Unlock, StallSeen, StallEnd
<1>3. CASE Core0 \/ UNCHANGED stallvars
  BY <1>3 DEF Core0, Interrupt, InHandler, HandlerReturns, stallvars
<1> QED
  BY <1>1, <1>2, <1>3 DEF StallNext, Core1

(***************************************************************************)
(* Unless the one race happens, core 0 is held from core0_stall_start to   *)
(* core0_stall_end of the same section.                                    *)
(***************************************************************************)
THEOREM SectionsHold == StallSpec => []SectionHolds
<1>1. StallInit => StallInv
  BY DEF StallInit, StallInv, StallTypeOK, SectionHolds, ResetInOrder, OutsideFree, InsideAnswers, Inside
<1>2. StallInv /\ StallStart => StallInv'
  <2> SUFFICES ASSUME StallInv, StallStart PROVE StallInv'
    OBVIOUS
  <2> DEFINE word == StartStores[stores']
  <2>1. /\ stores' = stores + 1 /\ stores \in 0 .. 2
        /\ core1' = IF stores' = 3 THEN "locked" ELSE "starts"
        /\ word = IF stores' = 1 THEN "start_var" ELSE IF stores' = 2 THEN "end_var" ELSE "raised"
    BY DEF StallStart, StartStores, StallInv, StallTypeOK
  <2>2. /\ start_var' = IF word = "start_var" THEN 0 ELSE start_var
        /\ end_var' = IF word = "end_var" THEN 0 ELSE end_var
        /\ raised' = IF word = "raised" THEN 1 ELSE raised
        /\ missed' = IF word = "end_var" /\ end_var = 1 /\ core0 = "spins" THEN 1 ELSE missed
        /\ core0' = core0 /\ core1 = "starts"
    BY DEF StallStart
  <2>3. end_var \in {0, 1} /\ core0 \in {"runs", "enters", "spins"}
    BY DEF StallInv, StallTypeOK
  <2> HIDE DEF word
  <2>4. StallTypeOK'
    BY StallTyped DEF StallInv, StallNext, Core1
  <2>5. SectionHolds'
    BY <2>1, <2>2, <2>3 DEF StallInv, SectionHolds, ResetInOrder, OutsideFree, Inside
  <2>6. ResetInOrder'
    BY <2>1, <2>2, <2>3 DEF StallInv, ResetInOrder
  <2>7. OutsideFree'
    BY <2>1, <2>2, <2>3 DEF StallInv, OutsideFree, Inside
  <2>8. InsideAnswers'
    BY <2>1, <2>2, <2>3 DEF StallInv, ResetInOrder, OutsideFree, InsideAnswers, Inside
  <2> QED
    BY <2>4, <2>5, <2>6, <2>7, <2>8 DEF StallInv
<1>3. StallInv /\ (Lock \/ Unlock \/ StallSeen \/ StallEnd) => StallInv'
  <2> SUFFICES ASSUME StallInv, Lock \/ Unlock \/ StallSeen \/ StallEnd PROVE StallInv'
    OBVIOUS
  <2> USE DEF Lock, Unlock, StallSeen, StallEnd
  <2>1. StallTypeOK'
    BY StallTyped DEF StallInv, StallNext, Core1
  <2>2. SectionHolds'
    BY DEF StallInv, SectionHolds, InsideAnswers, Inside
  <2>3. ResetInOrder'
    BY DEF StallInv, ResetInOrder
  <2>4. OutsideFree'
    BY DEF StallInv, StallTypeOK, SectionHolds, OutsideFree, InsideAnswers, Inside
  <2>5. InsideAnswers'
    <3>1. UNCHANGED <<start_var, raised, core0, missed>> /\ (Inside' => Inside)
      BY DEF Inside
    <3> QED
      BY <3>1 DEF StallInv, InsideAnswers
  <2> QED
    BY <2>1, <2>2, <2>3, <2>4, <2>5 DEF StallInv
<1>4. StallInv /\ (Core0 \/ UNCHANGED stallvars) => StallInv'
  <2> SUFFICES ASSUME StallInv, Core0 \/ UNCHANGED stallvars PROVE StallInv'
    OBVIOUS
  <2> USE DEF Core0, Interrupt, InHandler, HandlerReturns, stallvars
  <2>1. StallTypeOK'
    BY StallTyped DEF StallInv, StallNext
  <2>2. SectionHolds'
    BY DEF StallInv, SectionHolds, OutsideFree, InsideAnswers, Inside
  <2>3. ResetInOrder'
    BY DEF StallInv, ResetInOrder, OutsideFree, Inside
  <2>4. OutsideFree'
    BY DEF StallInv, OutsideFree, Inside
  <2>5. InsideAnswers'
    BY DEF StallInv, SectionHolds, InsideAnswers, Inside
  <2> QED
    BY <2>1, <2>2, <2>3, <2>4, <2>5 DEF StallInv
<1>5. StallInv => SectionHolds
  BY DEF StallInv
<1> QED
  BY <1>1, <1>2, <1>3, <1>4, <1>5, PTL DEF StallSpec, StallNext, Core1

-----------------------------------------------------------------------------
(* The timer of the rumble.                                                *)

\* Every step of the rumble keeps the types.
LEMMA FbTyped == FbTypeOK /\ [FbNext]_fbvars => FbTypeOK'
<1> SUFFICES ASSUME FbTypeOK, [FbNext]_fbvars PROVE FbTypeOK'
  OBVIOUS
<1> USE DEF FbTypeOK
<1>1. ASSUME NEW request \in {"on", "off"}, ConsoleAsks(request) PROVE FbTypeOK'
  BY <1>1 DEF ConsoleAsks
<1>2. CASE TakeRequest
  BY <1>2 DEF TakeRequest, FbGoto
<1>3. CASE StartSeen \/ Create \/ Arm
  BY <1>3 DEF StartSeen, Create, Arm, FbGoto
<1>4. CASE StopSeen \/ Delete \/ Forget
  BY <1>4 DEF StopSeen, Delete, Forget, Forgotten, FbGoto
<1>5. CASE Feedback
  <2>1. motor' \in BOOLEAN
    BY <1>5 DEF Feedback
  <2> QED
    BY <1>5, <2>1 DEF Feedback
<1>6. ASSUME NEW t \in Timers, TimerFires(t) PROVE FbTypeOK'
  <2>1. requests' \in Seq({"on", "off"})
    BY <1>6 DEF TimerFires
  <2>2. trouble' \subseteq {"full", "unarmed"}
    BY <1>6 DEF TimerFires
  <2>3. armed' \subseteq Timers /\ fb_timer_hdl' = NULL
    BY <1>6 DEF TimerFires, Forgotten
  <2> QED
    BY <1>6, <2>1, <2>2, <2>3 DEF TimerFires
<1>7. CASE UNCHANGED fbvars
  BY <1>7 DEF fbvars
<1> QED
  BY <1>1, <1>2, <1>3, <1>4, <1>5, <1>6, <1>7 DEF FbNext, FbTask

\* A request that is appended is the last, and the others keep their places.
LEMMA OffKept ==
    ASSUME NEW q \in Seq({"on", "off"}), NEW r \in {"on", "off"}
    PROVE  /\ (\E i \in 1 .. Len(q) : q[i] = "off") =>
                 \E i \in 1 .. Len(Append(q, r)) : Append(q, r)[i] = "off"
           /\ r = "off" => \E i \in 1 .. Len(Append(q, r)) : Append(q, r)[i] = "off"
           /\ q # <<>> /\ Head(q) # "off" /\ (\E i \in 1 .. Len(q) : q[i] = "off") =>
                 \E i \in 1 .. Len(Tail(q)) : Tail(q)[i] = "off"
<1>1. ASSUME NEW i \in 1 .. Len(q), q[i] = "off" PROVE i \in 1 .. Len(Append(q, r)) /\ Append(q, r)[i] = "off"
  BY <1>1
<1>2. Len(q) + 1 \in 1 .. Len(Append(q, r)) /\ Append(q, r)[Len(q) + 1] = r
  OBVIOUS
<1>3. ASSUME q # <<>>, Head(q) # "off", NEW i \in 1 .. Len(q), q[i] = "off"
      PROVE  i - 1 \in 1 .. Len(Tail(q)) /\ Tail(q)[i - 1] = "off"
  BY <1>3
<1> QED
  BY <1>1, <1>2, <1>3

(***************************************************************************)
(* While the motor runs its stop is on its way, for any number of timers   *)
(* and a queue of any length, unless the queue was full or the timer could *)
(* not be armed.                                                           *)
(***************************************************************************)
THEOREM StopOnItsWay == FbSpec => []NoRumbleForgotten
<1>1. FbInit => FbInv
  <2> SUFFICES ASSUME FbInit PROVE FbInv
    OBVIOUS
  <2>1. FbTypeOK
    <3>1. motor \in BOOLEAN
      BY DEF FbInit
    <3> QED
      BY <3>1 DEF FbInit, FbTypeOK
  <2>2. HandleOfArmed /\ NoRumbleForgotten
    BY DEF FbInit, HandleOfArmed, NoRumbleForgotten
  <2> QED
    BY <2>1, <2>2 DEF FbInv
<1>2. FbInv /\ [FbNext]_fbvars => FbInv'
  <2> SUFFICES ASSUME FbInv, [FbNext]_fbvars PROVE HandleOfArmed' /\ NoRumbleForgotten'
    BY FbTyped DEF FbInv
  <2> USE DEF HandleOfArmed, NoRumbleForgotten, StopComing
  <2>1. requests \in Seq({"on", "off"}) /\ HandleOfArmed /\ NoRumbleForgotten
    BY DEF FbInv, FbTypeOK
  <2>2. ASSUME NEW request \in {"on", "off"}, ConsoleAsks(request)
        PROVE  HandleOfArmed' /\ NoRumbleForgotten'
    BY <2>1, <2>2, OffKept DEF ConsoleAsks
  <2>3. CASE TakeRequest
    <3>1. Head(requests) \in {"on", "off"}
      BY <2>1, <2>3 DEF TakeRequest
    <3>2. Head(requests) = "off" => fb_at' = "stop"
      BY <2>3 DEF TakeRequest, FbGoto
    <3> QED
      BY <2>1, <2>3, <3>1, <3>2, OffKept DEF TakeRequest, FbGoto
  <2>4. CASE StartSeen
    BY <2>1, <2>4 DEF StartSeen, FbGoto
  <2>5. CASE Create
    BY <2>1, <2>5 DEF Create, FbGoto
  <2>6. CASE Arm
    BY <2>1, <2>6 DEF Arm, FbGoto
  <2>7. CASE StopSeen
    BY <2>1, <2>7 DEF StopSeen, FbGoto
  <2>8. CASE Delete
    BY <2>1, <2>8 DEF Delete, FbGoto
  <2>9. CASE Forget
    BY <2>1, <2>9 DEF Forget, Forgotten, FbGoto
  <2>10. CASE Feedback
    BY <2>1, <2>10 DEF Feedback
  <2>11. ASSUME NEW t \in Timers, TimerFires(t)
         PROVE  HandleOfArmed' /\ NoRumbleForgotten'
    <3>1. HandleOfArmed'
      BY <2>11 DEF TimerFires, Forgotten
    <3>2. StopComing'
      BY <2>1, <2>11, OffKept DEF TimerFires
    <3> QED
      BY <3>1, <3>2
  <2>12. CASE UNCHANGED fbvars
    BY <2>1, <2>12 DEF fbvars
  <2> QED
    BY <2>2, <2>3, <2>4, <2>5, <2>6, <2>7, <2>8, <2>9, <2>10, <2>11, <2>12 DEF FbNext, FbTask
<1>3. FbInv => NoRumbleForgotten
  BY DEF FbInv
<1> QED
  BY <1>1, <1>2, <1>3, PTL DEF FbSpec

-----------------------------------------------------------------------------
(* The pad of a PlayStation.                                               *)

\* A command that is obeyed when it is due keeps PadInv, and so does an old one that is harmless.
LEMMA ObeyedWhenDue ==
    ASSUME PsTypeOK, PadInv, NEW c \in Commands, NEW t \in Commands, NEW btn \in BOOLEAN,
           NEW dropped \in BOOLEAN, c = t \/ (t = "other" /\ c = "off"),
           Obey(IdAfter(btn), c, dropped), Told(t, btn), analog_btn' = btn
    PROVE  /\ dev_id' \in Modes \cup {"config"} /\ pend_dev_id' \in Modes
           /\ asked' \in Modes \cup {"none"}
           /\ {analog_btn', mapped', last_rumble', ps_motor', ps_lost'} \subseteq BOOLEAN
           /\ {session', wants', amid', deaf'} \subseteq BOOLEAN
           /\ PadInv'
<1>1. IdAfter(btn) \in Modes \cup {"config"} /\ (~Released(btn) => IdAfter(btn) = dev_id)
      /\ (Released(btn) => IdAfter(btn) # "config")
  BY DEF IdAfter, Modes, PsTypeOK
<1>2. dev_id' \in Modes \cup {"config"} /\ pend_dev_id' \in Modes /\ asked' \in Modes \cup {"none"}
  BY <1>1 DEF Obey, Told, PsTypeOK, Modes, ModeCommands, ModeOf, Enters
<1>3. {analog_btn', mapped', last_rumble', ps_motor', ps_lost'} \subseteq BOOLEAN
  BY <1>1 DEF Obey, PsTypeOK
<1>4. {session', wants', amid', deaf'} \subseteq BOOLEAN
  BY <1>1 DEF Told, PsTypeOK
<1>5. RumbleKnown'
  BY <1>1 DEF PadInv, RumbleKnown, Obey, Told, PsTypeOK
<1>6. /\ ~amid' => (dev_id' = "config" <=> session')
      /\ ~amid' /\ ~session' /\ asked' # "none" => dev_id' = asked'
      /\ PendingIsAsked'
  BY <1>1 DEF PadInv, PendingIsAsked, Obey, Told, PsTypeOK, Modes, ModeCommands, ModeOf, Enters
<1> QED
  BY <1>2, <1>3, <1>4, <1>5, <1>6 DEF PadInv

(***************************************************************************)
(* A pad does what the console told it, whatever the commands and letters: *)
(* the two buffers hand every command of a multitap on once, and in order. *)
(***************************************************************************)
THEOREM PadsObey == PsSpec => []PadObeys
<1>1. PsInit => PsInv
  <2> SUFFICES ASSUME PsInit PROVE PsInv
    OBVIOUS
  <2>1. PsTypeOK
    BY DEF PsInit, PsTypeOK, Commands, Modes
  <2>2. Prev = "off" /\ due = "other"
    BY DEF PsInit, Prev
  <2>3. PadObeys /\ DueIsInBuffer
    BY <2>2 DEF PsInit, PadObeys, DueIsInBuffer
  <2>4. PendingIsAsked /\ RumbleKnown
    BY DEF PsInit, PendingIsAsked, RumbleKnown
  <2> QED
    BY <2>1, <2>3, <2>4 DEF PsInv
<1>2. PsInv /\ [PsNext]_psvars => PsInv'
  <2> SUFFICES ASSUME PsInv, [PsNext]_psvars PROVE PsInv'
    OBVIOUS
  <2>0. ASSUME ~switched PROVE PadInv
    BY <2>0 DEF PsInv, PadObeys, PadInv
  <2>p. ASSUME ~switched', PadInv', DueIsInBuffer' PROVE PadObeys' /\ PendingIsAsked' /\ RumbleKnown'
    BY <2>p DEF PadObeys, PadInv, RumbleKnown
  <2>1. ASSUME ~switched, NEW c \in PsCommands, NEW mt \in BOOLEAN, NEW btn \in BOOLEAN,
               NEW dropped \in BOOLEAN, SinglePacket(c, mt, btn, dropped)
        PROVE  PsInv'
    <3>1. c \in Commands
      BY PsAssumption
    <3>2. /\ tap' \in BOOLEAN /\ first' \in BOOLEAN /\ mt_state' \in BOOLEAN /\ switched' \in BOOLEAN
          /\ rx_buf' \in [{0, 1} -> Commands] /\ active' \in {0, 1} /\ due' \in Commands
      BY <2>1 DEF SinglePacket, PsInv, PsTypeOK, Commands
    <3>3. ~switched' => DueIsInBuffer'
      <4>1. due' = "other" /\ 1 - active' = active
        BY <2>1 DEF SinglePacket, PsInv, PsTypeOK, DueIsInBuffer
      <4>2. ~switched' /\ mt_state' => rx_buf'[active] \in {"off", "other"}
        BY <2>1 DEF SinglePacket
      <4> QED
        BY <4>1, <4>2 DEF DueIsInBuffer, Prev
    <3>4. CASE first
      <4>1. Obey(IdAfter(btn), c, dropped) /\ analog_btn' = btn /\ Told(c, btn)
        BY <2>1, <3>4 DEF SinglePacket
      <4> HIDE <2>1
      <4>2. /\ dev_id' \in Modes \cup {"config"} /\ pend_dev_id' \in Modes
            /\ asked' \in Modes \cup {"none"}
            /\ {analog_btn', mapped', last_rumble', ps_motor', ps_lost'} \subseteq BOOLEAN
            /\ {session', wants', amid', deaf'} \subseteq BOOLEAN
            /\ PadInv'
        BY <4>1, <2>0, <2>1, <3>1, ObeyedWhenDue DEF PsInv
      <4> QED
        BY <4>2, <3>2, <3>3, <2>p DEF PsInv, PsTypeOK, PadObeys
    <3>5. CASE ~first
      <4>1. UNCHANGED <<pad, session, asked, wants, amid, deaf>>
        BY <2>1, <3>5 DEF SinglePacket
      <4>2. PadInv'
        BY <2>0, <2>1, <4>1 DEF PadInv, PendingIsAsked, RumbleKnown, pad
      <4> QED
        BY <4>1, <4>2, <3>2, <3>3, <2>p DEF PsInv, PsTypeOK, PadObeys, pad
    <3> QED
      BY <3>4, <3>5
  <2>2. ASSUME ~switched, NEW c \in PsCommands, NEW btn \in BOOLEAN, NEW dropped \in BOOLEAN,
               TapPacket(c, btn, dropped)
        PROVE  PsInv'
    <3>1. c \in Commands /\ Prev \in Commands
      BY PsAssumption DEF Prev, PsInv, PsTypeOK
    <3>2. /\ tap' \in BOOLEAN /\ first' \in BOOLEAN /\ mt_state' \in BOOLEAN /\ switched' \in BOOLEAN
          /\ rx_buf' \in [{0, 1} -> Commands] /\ active' \in {0, 1} /\ due' \in Commands
      BY <2>2, <3>1 DEF TapPacket, PsInv, PsTypeOK
    <3>3. DueIsInBuffer'
      BY <2>2 DEF TapPacket, DueIsInBuffer, Prev, PsInv, PsTypeOK
    <3>4. Prev = due \/ (due = "other" /\ Prev = "off")
      BY <2>2 DEF TapPacket, DueIsInBuffer, PsInv
    <3>5. Obey(IdAfter(btn), Prev, dropped) /\ analog_btn' = btn /\ Told(due, btn)
      BY <2>2 DEF TapPacket
    <3>6. due \in Commands /\ PsTypeOK
      BY DEF PsInv, PsTypeOK
    <3>7. /\ dev_id' \in Modes \cup {"config"} /\ pend_dev_id' \in Modes
          /\ asked' \in Modes \cup {"none"}
          /\ {analog_btn', mapped', last_rumble', ps_motor', ps_lost'} \subseteq BOOLEAN
          /\ {session', wants', amid', deaf'} \subseteq BOOLEAN
          /\ PadInv'
      BY <3>5, <3>6, <3>4, <3>1, <2>0, <2>2, ObeyedWhenDue
    <3> QED
      BY <3>7, <3>2, <3>3, <2>p DEF PsInv, PsTypeOK, PadObeys
  <2>3. ASSUME ~switched, LeaveTap PROVE PsInv'
    <3>1. PadInv' /\ UNCHANGED <<pad, due, session, asked, wants, amid, deaf>>
      BY <2>0, <2>3 DEF LeaveTap, PadInv, PendingIsAsked, RumbleKnown, pad
    <3>2. ~switched' => DueIsInBuffer'
      BY <2>3 DEF LeaveTap, DueIsInBuffer
    <3>3. PsTypeOK'
      BY <2>3, <3>1 DEF LeaveTap, PsInv, PsTypeOK, Commands, pad
    <3> QED
      BY <3>1, <3>2, <3>3, <2>p DEF PsInv, PadObeys
  <2>4. ASSUME ~switched, NEW c \in Letters, CardPacket(c) PROVE PsInv'
    <3>0. c \in Commands
      BY PsAssumption
    <3>1. PadInv' /\ UNCHANGED <<pad, view>>
      BY <2>0, <2>4 DEF CardPacket, PadInv, PendingIsAsked, RumbleKnown, pad, view
    <3>2. DueIsInBuffer'
      BY <2>4, <3>1 DEF CardPacket, DueIsInBuffer, Prev, PsInv, PsTypeOK, view
    <3>3. PsTypeOK'
      BY <2>4, <3>0, <3>1 DEF CardPacket, PsInv, PsTypeOK, pad, view
    <3> QED
      BY <3>1, <3>2, <3>3, <2>p DEF PsInv, PadObeys
  <2>5. CASE UNCHANGED psvars
    BY <2>5 DEF psvars, port, pad, view, PsInv, PsTypeOK, PadObeys, DueIsInBuffer, PendingIsAsked, RumbleKnown, Prev
  <2> QED
    BY <2>1, <2>2, <2>3, <2>4, <2>5 DEF PsNext
<1>3. PsInv => PadObeys
  BY DEF PsInv
<1> QED
  BY <1>1, <1>2, <1>3, PTL DEF PsSpec

-----------------------------------------------------------------------------
(***************************************************************************)
(* KbMonitor, for any finite set of keys and a queue of any length.        *)
(* KeysAgree speaks of the moments when nothing is on its way; AllTold     *)
(* says it of the codes that are in the queue.                             *)
(***************************************************************************)

LEMMA KbInitInv == KbInit => KbInv
<1> SUFFICES ASSUME KbInit PROVE KbInv
  OBVIOUS
<1>f. raced \in BOOLEAN /\ lost \in BOOLEAN /\ tm_state \in BOOLEAN /\ tm_armed \in BOOLEAN /\ ~tm_armed
  BY Zenon DEF KbInit
<1>1. KbTypeOK
  BY <1>f DEF KbInit, KbTypeOK, NoKey
<1>2. AllTold
  BY DEF KbInit, AllTold, Settles, KeyTold
<1>3. RepeatsHeld /\ HasKey
  BY <1>f DEF KbInit, RepeatsHeld, HasKey
<1> QED
  BY <1>1, <1>2, <1>3 DEF KbInv

\* The flags are apart, for the provers' sake.
LEMMA KbFlags ==
    KbTypeOK /\ [KbNext]_kbvars =>
        /\ raced' \in BOOLEAN /\ lost' \in BOOLEAN /\ tm_state' \in BOOLEAN /\ tm_armed' \in BOOLEAN
        /\ ~raced' => ~raced
        /\ ~lost' => ~lost
<1> SUFFICES ASSUME KbTypeOK, [KbNext]_kbvars
    PROVE  /\ raced' \in BOOLEAN /\ lost' \in BOOLEAN /\ tm_state' \in BOOLEAN /\ tm_armed' \in BOOLEAN
           /\ ~raced' => ~raced
           /\ ~lost' => ~lost
  OBVIOUS
<1> USE DEF KbTypeOK
<1>1. CASE \E keys \in SUBSET KbKeys : KbReport(keys)
  <2>1. PICK keys \in SUBSET KbKeys : KbReport(keys)
    BY <1>1
  <2>2. \/ raced' = TRUE
        \/ raced' = raced
    BY <2>1, Zenon DEF KbReport
  <2>3. UNCHANGED <<tm_state, tm_armed, lost>>
    BY <2>1 DEF KbReport
  <2>4. ~raced' => ~raced
    BY <2>1, Zenon DEF KbReport
  <2> QED
    BY <2>2, <2>3, <2>4, Zenon
<1>2. CASE \E key \in KbKeys : UpdateKey(key)
  <2>1. \A key : ArmedAfter(key) \in BOOLEAN
    BY Zenon DEF ArmedAfter
  <2>2. PICK key \in KbKeys : UpdateKey(key)
    BY <1>2
  <2>3. tm_armed' \in BOOLEAN /\ UNCHANGED <<tm_state, raced>>
    BY <2>1, <2>2, Zenon DEF UpdateKey
  <2>4. lost' = lost \/ lost' = TRUE
    BY <2>2, Zenon DEF UpdateKey, SetCode
  <2> QED
    BY <2>3, <2>4, Zenon
<1>3. CASE KeyboardLost \/ TypematicFires \/ GetCode
  BY <1>3, Zenon DEF KeyboardLost, TypematicFires, GetCode
<1>4. CASE TypematicMakes \/ TypematicRearms
  BY <1>4, Zenon DEF TypematicMakes, TypematicRearms, SetCode
<1>5. CASE UNCHANGED kbvars
  BY <1>5, Zenon DEF kbvars
<1> QED
  BY <1>1, <1>2, <1>3, <1>4, <1>5 DEF KbNext

\* A code that is queued is one, and the queue keeps the ones before.
LEMMA CodeQueued ==
    ASSUME KbTypeOK, NEW type \in {"make", "break"}, NEW key \in KbKeys, SetCode(type, key)
    PROVE  /\ codes' \in Seq({"make", "break"} \X KbKeys)
           /\ \/ lost' = TRUE /\ codes' = codes
              \/ /\ UNCHANGED lost
                 /\ Len(codes') = Len(codes) + 1
                 /\ codes'[Len(codes')] = <<type, key>>
                 /\ \A i \in 1 .. Len(codes) : codes'[i] = codes[i]
<1>1. <<type, key>> \in {"make", "break"} \X KbKeys
  OBVIOUS
<1>2. CASE codes' = codes /\ lost' = TRUE
  BY <1>2 DEF KbTypeOK
<1>3. CASE codes' = Append(codes, <<type, key>>) /\ UNCHANGED lost
  <2>1. codes' \in Seq({"make", "break"} \X KbKeys)
    BY <1>1, <1>3 DEF KbTypeOK
  <2>2. /\ Len(codes') = Len(codes) + 1
        /\ codes'[Len(codes')] = <<type, key>>
        /\ \A i \in 1 .. Len(codes) : codes'[i] = codes[i]
    BY <1>3 DEF KbTypeOK
  <2> QED
    BY <1>3, <2>1, <2>2, Zenon
<1> QED
  BY <1>2, <1>3, Zenon DEF SetCode

LEMMA KbStepType == KbTypeOK /\ HasKey /\ [KbNext]_kbvars => KbTypeOK' /\ HasKey'
<1> SUFFICES ASSUME KbTypeOK, HasKey, [KbNext]_kbvars PROVE KbTypeOK' /\ HasKey'
  OBVIOUS
<1> USE KbFlags, KbAssumption DEF KbTypeOK, HasKey, NoKey
<1>1. ASSUME NEW keys \in SUBSET KbKeys, KbReport(keys) PROVE KbTypeOK' /\ HasKey'
  BY <1>1 DEF KbReport
<1>2. ASSUME NEW key \in KbKeys, UpdateKey(key) PROVE KbTypeOK' /\ HasKey'
  <2>1. codes' \in Seq({"make", "break"} \X KbKeys)
    <3>1. (IF key \in keys_state THEN "make" ELSE "break") \in {"make", "break"}
      OBVIOUS
    <3>2. SetCode(IF key \in keys_state THEN "make" ELSE "break", key)
      BY <1>2 DEF UpdateKey
    <3> QED
      BY <3>1, <3>2, CodeQueued
  <2>2. tm_key_id' \in KbKeys \cup {NoKey} /\ changed' \subseteq KbKeys
    BY <1>2 DEF UpdateKey
  <2>3. tm_armed' => tm_key_id' # NoKey
    BY <1>2 DEF UpdateKey
  <2> QED
    BY <1>2, <2>1, <2>2, <2>3 DEF UpdateKey
<1>3. CASE KeyboardLost \/ TypematicFires \/ TypematicRearms
  BY <1>3 DEF KeyboardLost, TypematicFires, TypematicRearms
<1>4. CASE TypematicMakes
  <2>1. tm_key \in KbKeys
    BY <1>4 DEF TypematicMakes
  <2>2. codes' \in Seq({"make", "break"} \X KbKeys)
    BY <1>4, <2>1, CodeQueued DEF TypematicMakes
  <2> QED
    BY <1>4, <2>2 DEF TypematicMakes
<1>5. CASE GetCode
  <2>1. Head(codes) \in {"make", "break"} \X KbKeys /\ codes' \in Seq({"make", "break"} \X KbKeys)
    BY <1>5 DEF GetCode
  <2>2. made' \subseteq KbKeys
    BY <1>5, <2>1 DEF GetCode
  <2> QED
    BY <1>5, <2>1, <2>2 DEF GetCode
<1>6. CASE UNCHANGED kbvars
  BY <1>6 DEF kbvars
<1> QED
  BY <1>1, <1>2, <1>3, <1>4, <1>5, <1>6 DEF KbNext

\* A code about another key changes nothing for this one, and a code about it settles it.
LEMMA SettlesOther ==
    ASSUME KbTypeOK, NEW type \in {"make", "break"}, NEW other \in KbKeys, SetCode(type, other),
           UNCHANGED <<made, lost>>, NEW key \in KbKeys, key # other, NEW t, Settles(key, t)
    PROVE  Settles(key, t)'
<1>1. CASE codes' = codes
  BY <1>1 DEF Settles
<1>2. CASE /\ Len(codes') = Len(codes) + 1
           /\ codes'[Len(codes')] = <<type, other>>
           /\ \A i \in 1 .. Len(codes) : codes'[i] = codes[i]
  <2>1. PICK i \in 0 .. Len(codes) : /\ \A j \in i + 1 .. Len(codes) : codes[j][2] # key
                                     /\ IF i = 0 THEN key \in made <=> t = "make"
                                                 ELSE codes[i] = <<t, key>>
    BY DEF Settles
  <2>2. Len(codes) \in Nat
    BY DEF KbTypeOK
  <2>3. i \in 0 .. Len(codes')
    BY <1>2, <2>2
  <2>4. \A j \in i + 1 .. Len(codes') : codes'[j][2] # key
    BY <1>2, <2>1, <2>2
  <2>5. IF i = 0 THEN key \in made' <=> t = "make" ELSE codes'[i] = <<t, key>>
    BY <1>2, <2>1, <2>2
  <2> QED
    BY <2>3, <2>4, <2>5 DEF Settles
<1> QED
  BY <1>1, <1>2, CodeQueued

LEMMA SettlesSame ==
    ASSUME KbTypeOK, NEW type \in {"make", "break"}, NEW key \in KbKeys, SetCode(type, key), ~lost'
    PROVE  Settles(key, type)'
<1>1. /\ codes' \in Seq({"make", "break"} \X KbKeys)
      /\ Len(codes') = Len(codes) + 1
      /\ codes'[Len(codes')] = <<type, key>>
  BY CodeQueued, Zenon
<1>2. Len(codes') \in 0 .. Len(codes') /\ Len(codes') # 0
  BY <1>1 DEF KbTypeOK
<1> QED
  BY <1>1, <1>2 DEF Settles

\* What a key is settled to does not change when core 1 takes a code.
LEMMA SettlesTaken ==
    ASSUME KbTypeOK, GetCode, NEW key \in KbKeys, NEW type \in {"make", "break"}, Settles(key, type)
    PROVE  Settles(key, type)'
<1>1. PICK i \in 0 .. Len(codes) : /\ \A j \in i + 1 .. Len(codes) : codes[j][2] # key
                                   /\ IF i = 0 THEN key \in made <=> type = "make"
                                               ELSE codes[i] = <<type, key>>
  BY DEF Settles
<1>2. /\ codes # <<>> /\ codes' = Tail(codes)
      /\ made' = IF codes[1][1] = "make" THEN made \cup {codes[1][2]} ELSE made \ {codes[1][2]}
  <2>1. codes # <<>> => Head(codes) = codes[1]
    BY DEF KbTypeOK
  <2> QED
    BY <2>1, Zenon DEF GetCode
<1>3. /\ Len(codes) \in Nat /\ Len(codes) > 0
      /\ Len(codes') = Len(codes) - 1
      /\ \A j \in 1 .. Len(codes') : codes'[j] = codes[j + 1]
  BY <1>2 DEF KbTypeOK
<1>4. CASE i = 0
  <2>1. \A j \in 1 .. Len(codes) : codes[j][2] # key
    BY <1>1, <1>4
  <2>2. key \in made' <=> key \in made
    BY <1>2, <1>3, <2>1
  <2>3. \A j \in 0 + 1 .. Len(codes') : codes'[j][2] # key
    BY <1>3, <2>1
  <2>4. 0 \in 0 .. Len(codes') /\ (key \in made' <=> type = "make")
    BY <1>1, <1>3, <1>4, <2>2
  <2> QED
    BY <2>3, <2>4 DEF Settles
<1>5. CASE i = 1
  <2>1. codes[1][1] = type /\ codes[1][2] = key
    BY <1>1, <1>5
  <2>2. key \in made' <=> type = "make"
    BY <1>2, <2>1
  <2>3. \A j \in 0 + 1 .. Len(codes') : codes'[j][2] # key
    BY <1>1, <1>3, <1>5
  <2>4. 0 \in 0 .. Len(codes')
    BY <1>3
  <2> QED
    BY <2>2, <2>3, <2>4 DEF Settles
<1>6. CASE i > 1
  <2>1. i - 1 \in 0 .. Len(codes') /\ i - 1 # 0 /\ i - 1 \in 1 .. Len(codes')
    BY <1>3, <1>6
  <2>2. codes'[i - 1] = <<type, key>>
    BY <1>1, <1>3, <1>6, <2>1
  <2>3. \A j \in (i - 1) + 1 .. Len(codes') : codes'[j][2] # key
    BY <1>1, <1>3, <1>6
  <2> QED
    BY <2>1, <2>2, <2>3 DEF Settles
<1> QED
  BY <1>4, <1>5, <1>6

LEMMA KbStepTold == KbInv /\ [KbNext]_kbvars => AllTold'
<1> SUFFICES ASSUME KbInv, [KbNext]_kbvars, ~raced', ~lost', NEW key \in KbKeys
             PROVE  Settles(key, KeyTold(key))'
  BY DEF AllTold
<1>0. KbTypeOK /\ Settles(key, KeyTold(key)) /\ RepeatsHeld /\ HasKey /\ ~raced
  BY KbFlags DEF KbInv, AllTold
<1>t. KeyTold(key) \in {"make", "break"}
  BY DEF KeyTold
<1>1. ASSUME NEW keys \in SUBSET KbKeys, KbReport(keys) PROVE Settles(key, KeyTold(key))'
  <2>1. KeyTold(key)' = KeyTold(key)
    BY <1>1 DEF KbReport, KeyTold
  <2>2. UNCHANGED <<codes, made>>
    BY <1>1 DEF KbReport
  <2> QED
    BY <1>0, <2>1, <2>2 DEF Settles
<1>2. ASSUME NEW other \in KbKeys, UpdateKey(other) PROVE Settles(key, KeyTold(key))'
  <2>0. PICK type \in {"make", "break"} : type = IF other \in keys_state THEN "make" ELSE "break"
    OBVIOUS
  <2>1. /\ SetCode(type, other)
        /\ UNCHANGED <<keys_state, made>> /\ changed' = changed \ {other} /\ other \in changed
    BY <1>2, <2>0 DEF UpdateKey
  <2>2. CASE key = other
    <3>1. KeyTold(key)' = type
      BY <2>0, <2>1, <2>2 DEF KeyTold
    <3>2. Settles(key, type)'
      BY <1>0, <2>1, <2>2, SettlesSame
    <3> QED
      BY <3>1, <3>2 DEF Settles
  <2>3. CASE key # other
    <3>1. KeyTold(key)' = KeyTold(key)
      BY <2>1, <2>3 DEF KeyTold
    <3>2. UNCHANGED lost
      BY <2>1, Zenon DEF SetCode
    <3>3. \A t : Settles(key, t) => Settles(key, t)'
      BY <1>0, <2>1, <2>3, <3>2, SettlesOther
    <3> QED
      BY <1>0, <3>1, <3>3 DEF Settles
  <2> QED
    BY <2>2, <2>3
<1>3. CASE UNCHANGED <<keys_state, changed, codes, made>>
  BY <1>0, <1>3 DEF Settles, KeyTold
<1>4. CASE KeyboardLost \/ TypematicFires \/ TypematicRearms
  BY <1>3, <1>4 DEF KeyboardLost, TypematicFires, TypematicRearms
<1>5. CASE TypematicMakes
  <2>1. /\ SetCode("make", tm_key) /\ tm_key \in KbKeys
        /\ UNCHANGED <<keys_state, changed, made>> /\ changed = {} /\ tm_key \in keys_state
    BY <1>0, <1>5 DEF TypematicMakes, RepeatsHeld, KbTypeOK, HasKey
  <2>2. KeyTold(key)' = KeyTold(key)
    BY <2>1 DEF KeyTold
  <2>3. CASE key = tm_key
    <3>1. KeyTold(key) = "make"
      BY <2>1, <2>3 DEF KeyTold
    <3>2. Settles(key, "make")'
      BY <1>0, <2>1, <2>3, SettlesSame
    <3> QED
      BY <2>2, <3>1, <3>2 DEF Settles
  <2>4. CASE key # tm_key
    <3>1. UNCHANGED lost
      BY <2>1, Zenon DEF SetCode
    <3>2. \A t : Settles(key, t) => Settles(key, t)'
      BY <1>0, <2>1, <2>4, <3>1, SettlesOther
    <3> QED
      BY <1>0, <2>2, <3>2 DEF Settles
  <2> QED
    BY <2>3, <2>4
<1>6. CASE GetCode
  <2>1. Settles(key, KeyTold(key))' \/ KeyTold(key)' # KeyTold(key)
    <3>1. \A t \in {"make", "break"} : Settles(key, t) => Settles(key, t)'
      BY <1>0, <1>6, SettlesTaken
    <3> QED
      BY <1>0, <1>t, <3>1 DEF Settles
  <2>2. KeyTold(key)' = KeyTold(key)
    BY <1>6 DEF GetCode, KeyTold
  <2> QED
    BY <2>1, <2>2
<1>7. CASE UNCHANGED kbvars
  BY <1>3, <1>7 DEF kbvars
<1> QED
  BY <1>1, <1>2, <1>4, <1>5, <1>6, <1>7 DEF KbNext

LEMMA KbStepRepeats == KbInv /\ [KbNext]_kbvars => RepeatsHeld'
<1> SUFFICES ASSUME KbInv, [KbNext]_kbvars, ~raced' PROVE RepeatsHeld'
  BY DEF RepeatsHeld
<1>0. KbTypeOK /\ RepeatsHeld /\ ~raced
  BY KbFlags DEF KbInv
<1> USE DEF RepeatsHeld
<1>1. ASSUME NEW keys \in SUBSET KbKeys, KbReport(keys) PROVE RepeatsHeld'
  <2>1. /\ changed = {} /\ changed' = (keys \ keys_state) \cup (keys_state \ keys) /\ keys_state' = keys
        /\ UNCHANGED <<tm_armed, tm_key_id, tm_at, tm_key>>
    BY <1>1 DEF KbReport
  <2>2. tm_at = "idle" \/ changed' = {}
    BY <1>1, Zenon DEF KbReport
  <2>3. changed' = {} => keys_state' = keys_state
    BY <2>1
  <2> QED
    BY <1>0, <2>1, <2>2, <2>3
<1>2. ASSUME NEW key \in KbKeys, UpdateKey(key) PROVE RepeatsHeld'
  <2>1. /\ changed # {} /\ UNCHANGED <<keys_state, tm_at, tm_key>>
        /\ tm_armed' => tm_key_id' = key /\ key \in keys_state
    BY <1>2 DEF UpdateKey, ArmedAfter
  <2> QED
    BY <1>0, <2>1
<1>3. CASE UNCHANGED <<keys_state, changed, tm_armed, tm_key_id, tm_at, tm_key>>
  BY <1>0, <1>3
<1>4. CASE TypematicFires
  BY <1>0, <1>4 DEF TypematicFires
<1>5. CASE TypematicMakes
  BY <1>0, <1>5 DEF TypematicMakes
<1>6. CASE TypematicRearms
  BY <1>0, <1>6 DEF TypematicRearms
<1>7. CASE KeyboardLost \/ GetCode \/ UNCHANGED kbvars
  BY <1>3, <1>7 DEF KeyboardLost, GetCode, kbvars
<1> QED
  BY <1>1, <1>2, <1>4, <1>5, <1>6, <1>7 DEF KbNext

\* The invariant of the keyboard: what is queued settles every key, and what is repeated is held.
THEOREM KeyboardInvariant == KbSpec => []KbInv
<1>1. KbInv /\ [KbNext]_kbvars => KbInv'
  <2> SUFFICES ASSUME KbInv, [KbNext]_kbvars PROVE KbInv'
    OBVIOUS
  <2>1. KbTypeOK' /\ HasKey'
    BY KbStepType DEF KbInv
  <2> QED
    BY <2>1, KbStepTold, KbStepRepeats DEF KbInv
<1> QED
  BY <1>1, KbInitInv, PTL DEF KbSpec

(***************************************************************************)
(* Once the console has taken the codes, it has the keys of the keyboard,  *)
(* in whatever order the reports of kbmon_update, the repetitions of       *)
(* kbmon_typematic_cb and the loop of core 1 come.                         *)
(***************************************************************************)
THEOREM KeysStayInStep == KbSpec => []KeysAgree
<1>1. KbInv => KeysAgree
  <2> SUFFICES ASSUME KbInv, KbQuiet, ~raced, ~lost, held = keys_state
               PROVE  made = held /\ (tm_armed => tm_key_id \in held)
    BY DEF KeysAgree
  <2>1. ASSUME NEW key \in KbKeys PROVE key \in made <=> key \in keys_state
    <3>1. Settles(key, KeyTold(key)) /\ codes = <<>> /\ changed = {}
      BY DEF KbInv, AllTold, KbQuiet
    <3>2. key \in made <=> KeyTold(key) = "make"
      BY <3>1 DEF Settles
    <3> QED
      BY <3>1, <3>2 DEF KeyTold
  <2>2. made = held
    BY <2>1 DEF KbInv, KbTypeOK
  <2> QED
    BY <2>2 DEF KbInv, RepeatsHeld, KbQuiet
<1> QED
  BY <1>1, KeyboardInvariant, PTL

=============================================================================
