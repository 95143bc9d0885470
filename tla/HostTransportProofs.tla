------------------------ MODULE HostTransportProofs ------------------------
(***************************************************************************)
(* Proofs about the packets to and from the controller: for every length   *)
(* of the ring and every number of packets a handler sends, and for every  *)
(* set of devices and length of their frames.                              *)
(***************************************************************************)
EXTENDS HostTransport, AclReassembly, SequenceTheorems, TLAPS

LEMMA ConstantFacts ==
    /\ QueueLen \in Nat /\ QueueLen > 0
    /\ MaxBurst \in Nat /\ MaxBurst > 0
    /\ MaxFrame \in Nat /\ MaxFrame > 0
BY TransportAssumption, FrameAssumption DEF TransportAssumption, FrameAssumption

\* What the ring holds.
Packets == [by : Tasks, from : SUBSET Tasks, late : BOOLEAN]

LEMMA AppendFact ==
    ASSUME NEW S, NEW q \in Seq(S), NEW e \in S
    PROVE  /\ Append(q, e) \in Seq(S) /\ Len(Append(q, e)) = Len(q) + 1
           /\ Append(q, e) # <<>> /\ Len(q) \in Nat
           /\ \A i \in 1 .. Len(Append(q, e)) :
                \/ (i \in 1 .. Len(q) /\ Append(q, e)[i] = q[i])
                \/ (i = Len(q) + 1 /\ Append(q, e)[i] = e)
OBVIOUS

LEMMA TailFact ==
    ASSUME NEW S, NEW q \in Seq(S), q # <<>>
    PROVE  /\ Tail(q) \in Seq(S) /\ Len(q) \in Nat /\ Len(Tail(q)) = Len(q) - 1
           /\ \A i \in 1 .. Len(Tail(q)) : Tail(q)[i] = q[i + 1] /\ i + 1 \in 1 .. Len(q)
OBVIOUS

-----------------------------------------------------------------------------
\* A task that was asked for n packets is about to write the first.
LEMMA JobTypes ==
    ASSUME TransportTypeOK, NEW t \in Tasks, NEW n \in 1 .. MaxBurst, Job(t, n)
    PROVE  /\ pc' \in [Tasks -> {"idle", "body", "head", "send", "sendwait"}]
           /\ left' \in [Tasks -> 0 .. MaxBurst - 1]
           /\ pc'[t] = "body" /\ \A u \in Tasks \ {t} : pc'[u] = pc[u]
BY ConstantFacts DEF Job, TransportTypeOK

\* The packet a task adds to the ring.
LEMMA AddFact ==
    ASSUME TransportTypeOK, NEW t \in Tasks, TxqAdd(t)
    PROVE  \E p \in Packets :
             /\ txq' = Append(txq, p)
             /\ p.from = {} \/ (pc[t] = "send" /\ p = Packet(t))
             /\ p.by = t
<1>1. Packet(t) \in Packets /\ WaitPacket(t) \in Packets
  BY DEF Packet, WaitPacket, Packets, TransportTypeOK
<1>2. Packet(t).by = t /\ WaitPacket(t).by = t /\ WaitPacket(t).from = {}
  BY DEF Packet, WaitPacket
<1> QED
  BY <1>1, <1>2 DEF TxqAdd

\* Every step keeps the types.
LEMMA TypeKept == TransportTypeOK /\ [Next]_vars => TransportTypeOK'
<1> SUFFICES ASSUME TransportTypeOK, [Next]_vars PROVE TransportTypeOK'
  OBVIOUS
<1>0. txq \in Seq(Packets)
  BY DEF TransportTypeOK, Packets
<1>1. ASSUME NEW t \in Tasks, Begin(t) PROVE TransportTypeOK'
  BY <1>1, JobTypes, ConstantFacts DEF Begin, TransportTypeOK, tx
<1>2. ASSUME NEW t \in Tasks, FillBody(t) PROVE TransportTypeOK'
  BY <1>2 DEF FillBody, TransportTypeOK, tx
<1>3. ASSUME NEW t \in Tasks, FillHead(t) PROVE TransportTypeOK'
  BY <1>3 DEF FillHead, TransportTypeOK, tx
<1>4. CASE QueueWait
  BY <1>4 DEF QueueWait, TransportTypeOK, tx
<1>5. ASSUME NEW t \in Tasks, TxqAdd(t) PROVE TransportTypeOK'
  <2>1. PICK p \in Packets : txq' = Append(txq, p)
    BY <1>5, AddFact
  <2>2. txq' \in Seq(Packets) /\ Len(txq') = Len(txq) + 1 /\ txq' # <<>>
    BY <1>0, <2>1, AppendFact
  <2>3. Len(txq') <= QueueLen
    BY <1>0, <1>5, <2>2, AppendFact, ConstantFacts DEF TxqAdd, Room
  <2>4. /\ pc' \in [Tasks -> {"idle", "body", "head", "send", "sendwait"}]
        /\ left' \in [Tasks -> 0 .. MaxBurst - 1]
    <3>1. CASE left[t] = 0 /\ pc' = [pc EXCEPT ![t] = "idle"] /\ UNCHANGED left
      BY <3>1 DEF TransportTypeOK
    <3>2. CASE left[t] > 0 /\ Job(t, left[t])
      <4>1. left[t] \in 1 .. MaxBurst
        BY <3>2, ConstantFacts DEF TransportTypeOK
      <4> QED
        BY <3>2, <4>1, JobTypes
    <3> QED
      BY <1>5, <3>1, <3>2 DEF TxqAdd
  <2> QED
    BY <1>5, <2>2, <2>3, <2>4 DEF TxqAdd, TransportTypeOK, Packets, tx
<1>6. ASSUME NEW t \in Tasks, TxqFull(t) PROVE TransportTypeOK'
  BY <1>6 DEF TxqFull, TransportTypeOK, tx
<1>7. CASE TxTest \/ TxSend \/ TxPktReady
  BY <1>7 DEF TxTest, TxSend, TxPktReady, TransportTypeOK, send
<1>8. CASE TxReceive \/ TxDelayOver
  BY <1>8 DEF TxReceive, TxDelayOver, TransportTypeOK, send
<1>9. CASE TxReturn
  <2>1. txq # <<>>
    BY <1>9 DEF TxReturn, TransportTypeOK
  <2>2. txq' \in Seq(Packets) /\ Len(txq') <= QueueLen
    BY <1>0, <1>9, <2>1, TailFact, ConstantFacts DEF TxReturn, TransportTypeOK
  <2> QED
    BY <1>9, <2>2 DEF TxReturn, TransportTypeOK, Packets, send
<1>10. CASE Event
  <2>1. PICK n \in 1 .. MaxBurst : Job("evt", n)
    BY <1>10 DEF Event
  <2>2. "evt" \in Tasks
    BY DEF Tasks
  <2> QED
    BY <1>10, <2>1, <2>2, JobTypes DEF Event, TransportTypeOK, tx
<1>11. CASE UNCHANGED vars
  BY <1>11 DEF vars, send, tx, TransportTypeOK
<1> QED
  BY <1>1, <1>2, <1>3, <1>4, <1>5, <1>6, <1>7, <1>8, <1>9, <1>10, <1>11 DEF Next

-----------------------------------------------------------------------------
\* Every step keeps what is known of BT_CTRL_READY.
LEMMA SoundKept == TransportTypeOK /\ Sound /\ [Next]_vars => Sound'
<1> SUFFICES ASSUME TransportTypeOK, Sound, [Next]_vars PROVE Sound'
  OBVIOUS
<1>1. CASE UNCHANGED tx
  BY <1>1 DEF tx, Sound, SentWhenReady
<1>2. ASSUME NEW t \in Tasks,
             Begin(t) \/ FillBody(t) \/ FillHead(t) \/ TxqAdd(t) \/ TxqFull(t)
      PROVE  UNCHANGED tx
  BY <1>2 DEF Begin, FillBody, FillHead, TxqAdd, TxqFull
<1>3. CASE TxTest \/ TxReceive \/ TxSend \/ TxDelayOver \/ TxReturn
  BY <1>3 DEF TxTest, TxReceive, TxSend, TxDelayOver, TxReturn, Sound, SentWhenReady,
              TransportTypeOK
<1>4. CASE TxPktReady
  BY <1>4 DEF TxPktReady, Sound, SentWhenReady, TransportTypeOK
<1>5. CASE Event \/ QueueWait \/ UNCHANGED vars
  BY <1>1, <1>5 DEF Event, QueueWait, vars
<1> QED
  BY <1>1, <1>2, <1>3, <1>4, <1>5 DEF Next

-----------------------------------------------------------------------------
\* While a task that can run is in the middle of a packet, none below it writes.
LEMMA Above ==
    ASSUME NEW t \in Tasks, NEW u \in Tasks, Runs(u), CanRun(t)
    PROVE  ~(Priority[t] > Priority[u])
BY DEF Runs, Preempted

LEMMA InTheMiddle ==
    ASSUME NEW t \in Tasks, pc[t] = "head" \/ (pc[t] = "send" /\ ~blocked[t])
    PROVE  CanRun(t)
BY DEF CanRun

\* What t has written is its own, or of the tasks above it, that is of one in mine.
LEMMA OwnKept ==
    ASSUME TransportTypeOK, [Next]_vars, NEW t \in Tasks, NEW mine \in SUBSET Tasks,
           t \in mine, \A u \in Tasks : Priority[u] > Priority[t] => u \in mine,
           \A u \in Tasks \ {t} : Priority[u] > Priority[t] \/ Priority[t] > Priority[u],
           Own(t, mine)
    PROVE  Own(t, mine)'
<1>1. ASSUME NEW u \in Tasks, Begin(u) PROVE Own(t, mine)'
  BY <1>1 DEF Begin, Job, Own, TransportTypeOK
<1>2. ASSUME NEW u \in Tasks, FillBody(u) PROVE Own(t, mine)'
  <2>1. CASE u = t
    BY <1>2, <2>1 DEF FillBody, Own, TransportTypeOK
  <2>2. CASE u # t
    <3>1. pc'[t] = pc[t] /\ blocked'[t] = blocked[t] /\ buffer'.head = buffer.head
          /\ buffer'.body = u
      BY <1>2, <2>2 DEF FillBody, TransportTypeOK
    <3>2. pc[t] = "head" \/ (pc[t] = "send" /\ ~blocked[t]) => u \in mine
      BY <1>2, <2>2, Above, InTheMiddle DEF FillBody
    <3> QED
      BY <3>1, <3>2 DEF Own
  <2> QED
    BY <2>1, <2>2
<1>3. ASSUME NEW u \in Tasks, FillHead(u) PROVE Own(t, mine)'
  <2>1. CASE u = t
    BY <1>3, <2>1 DEF FillHead, Own, TransportTypeOK
  <2>2. CASE u # t
    <3>1. pc'[t] = pc[t] /\ blocked'[t] = blocked[t] /\ buffer'.body = buffer.body
          /\ buffer'.head = u
      BY <1>3, <2>2 DEF FillHead, TransportTypeOK
    <3>2. pc[t] = "send" /\ ~blocked[t] => u \in mine
      BY <1>3, <2>2, Above, InTheMiddle DEF FillHead
    <3> QED
      BY <3>1, <3>2 DEF Own
  <2> QED
    BY <2>1, <2>2
<1>4. CASE QueueWait
  BY <1>4 DEF QueueWait, Own, TransportTypeOK
<1>5. ASSUME NEW u \in Tasks, TxqAdd(u) PROVE Own(t, mine)'
  <2>1. buffer' = buffer /\ blocked' = [blocked EXCEPT ![u] = FALSE]
    BY <1>5 DEF TxqAdd
  <2>2. pc' = [pc EXCEPT ![u] = "idle"] \/ pc' = [pc EXCEPT ![u] = "body"]
    BY <1>5 DEF TxqAdd, Job
  <2> QED
    BY <2>1, <2>2 DEF Own, TransportTypeOK
<1>6. ASSUME NEW u \in Tasks, TxqFull(u) PROVE Own(t, mine)'
  BY <1>6 DEF TxqFull, Own, TransportTypeOK
<1>7. CASE TxTest \/ TxReceive \/ TxSend \/ TxDelayOver \/ TxReturn \/ TxPktReady
  BY <1>7 DEF TxTest, TxReceive, TxSend, TxDelayOver, TxReturn, TxPktReady, send, Own
<1>8. CASE Event
  <2>1. pc["evt"] = "idle" /\ pc' = [pc EXCEPT !["evt"] = "body"] /\ UNCHANGED <<buffer, blocked>>
    BY <1>8 DEF Event, Job
  <2> QED
    BY <2>1 DEF Own, TransportTypeOK, Tasks
<1>9. CASE UNCHANGED vars
  BY <1>9 DEF vars, send, Own
<1> QED
  BY <1>1, <1>2, <1>3, <1>4, <1>5, <1>6, <1>7, <1>8, <1>9 DEF Next

\* No task below its sender has written in a packet.
Whole(p) ==
    /\ p.by = "evt" => p.from \subseteq {"evt"}
    /\ p.by = "timer" => p.from \subseteq {"timer", "evt"}
    /\ p.by = "fb" => p.from \subseteq {"fb", "timer", "evt"}

LEMMA WholeFact ==
    /\ TornFromAbove <=> \A i \in 1 .. Len(txq) : ~txq[i].late => Whole(txq[i])
    /\ TornFromAbove' <=> \A i \in 1 .. Len(txq') : ~txq'[i].late => Whole(txq'[i])
BY DEF TornFromAbove, Whole

\* A packet a task adds has only its own bytes in it, or those of tasks above it.
LEMMA TornKept ==
    ASSUME TransportTypeOK, TornFromAbove, [Next]_vars,
           Own("evt", {"evt"}), Own("timer", {"timer", "evt"}), Own("fb", {"fb", "timer", "evt"})
    PROVE  TornFromAbove'
<1>0. txq \in Seq(Packets)
  BY DEF TransportTypeOK, Packets
<1>1. CASE UNCHANGED txq
  BY <1>1 DEF TornFromAbove
<1>2. ASSUME NEW t \in Tasks, TxqAdd(t) PROVE TornFromAbove'
  <2>1. PICK p \in Packets : /\ txq' = Append(txq, p)
                             /\ p.from = {} \/ (pc[t] = "send" /\ p = Packet(t))
                             /\ p.by = t
    BY <1>2, AddFact
  <2>2. ~p.late => Whole(p)
    <3>1. CASE p.from = {}
      BY <3>1 DEF Whole
    <3>2. CASE pc[t] = "send" /\ p = Packet(t)
      <4>1. /\ p.from = {buffer.head, buffer.body} /\ p.late = blocked[t]
        BY <3>2 DEF Packet
      <4>2. ASSUME ~blocked[t]
            PROVE  /\ t = "evt" => {buffer.head, buffer.body} \subseteq {"evt"}
                   /\ t = "timer" => {buffer.head, buffer.body} \subseteq {"timer", "evt"}
                   /\ t = "fb" => {buffer.head, buffer.body} \subseteq {"fb", "timer", "evt"}
        BY <3>2, <4>2 DEF Own
      <4> QED
        BY <2>1, <4>1, <4>2 DEF Whole
    <3> QED
      BY <2>1, <3>1, <3>2
  <2> SUFFICES ASSUME NEW i \in 1 .. Len(txq'), ~txq'[i].late
               PROVE  Whole(txq'[i])
    BY WholeFact
  <2>3. (i \in 1 .. Len(txq) /\ txq'[i] = txq[i]) \/ txq'[i] = p
    BY <1>0, <2>1, AppendFact
  <2>4. CASE i \in 1 .. Len(txq) /\ txq'[i] = txq[i]
    BY <2>4, WholeFact
  <2>5. CASE txq'[i] = p
    BY <2>2, <2>5
  <2> QED
    BY <2>3, <2>4, <2>5
<1>3. CASE TxReturn
  <2>1. txq # <<>> /\ txq' = Tail(txq)
    BY <1>3 DEF TxReturn, TransportTypeOK
  <2> QED
    <3> SUFFICES ASSUME NEW i \in 1 .. Len(txq'), ~txq'[i].late
                 PROVE  Whole(txq'[i])
      BY WholeFact
    <3>1. i + 1 \in 1 .. Len(txq) /\ txq'[i] = txq[i + 1]
      BY <1>0, <2>1, TailFact
    <3> QED
      BY <3>1, WholeFact
<1>4. ASSUME NEW t \in Tasks, Begin(t) \/ FillBody(t) \/ FillHead(t) \/ TxqFull(t)
      PROVE  UNCHANGED txq
  BY <1>4 DEF Begin, FillBody, FillHead, TxqFull
<1>5. CASE TxTest \/ TxReceive \/ TxSend \/ TxDelayOver \/ TxPktReady \/ QueueWait \/ Event
           \/ UNCHANGED vars
  BY <1>1, <1>5 DEF TxTest, TxReceive, TxSend, TxDelayOver, TxPktReady, QueueWait, Event, vars
<1> QED
  BY <1>1, <1>2, <1>3, <1>4, <1>5 DEF Next

\* The invariant holds at the start.
LEMMA InitHolds == Init => TransportInv
<1> SUFFICES ASSUME Init PROVE TransportInv
  OBVIOUS
<1>1. TransportTypeOK
  <2>0. txq = <<>> /\ ready = TRUE /\ busy = FALSE
    BY DEF Init
  <2>1. txq \in Seq(Packets) /\ Len(txq) <= QueueLen
    BY <2>0, EmptySeq, ConstantFacts
  <2>2. /\ pc \in [Tasks -> {"idle", "body", "head", "send", "sendwait"}]
        /\ left \in [Tasks -> 0 .. MaxBurst - 1]
        /\ blocked \in [Tasks -> BOOLEAN]
    BY ConstantFacts DEF Init
  <2>3. buffer \in [head : Tasks, body : Tasks] /\ tpc = "test"
    BY DEF Init, Tasks
  <2>4. ready \in BOOLEAN /\ busy \in BOOLEAN
    BY <2>0
  <2> QED
    BY <2>1, <2>2, <2>3, <2>4 DEF TransportTypeOK, Packets
<1> QED
  BY <1>1 DEF Init, TransportInv, Sound, SentWhenReady, Own, TornFromAbove, Tasks

\* Every step keeps it.
LEMMA TransportKept == TransportInv /\ [Next]_vars => TransportInv'
<1> SUFFICES ASSUME TransportInv, [Next]_vars PROVE TransportInv'
  OBVIOUS
<1>1. /\ TransportTypeOK /\ Sound /\ TornFromAbove
      /\ Own("evt", {"evt"}) /\ Own("timer", {"timer", "evt"}) /\ Own("fb", {"fb", "timer", "evt"})
  BY DEF TransportInv
<1>2. Own("evt", {"evt"})'
  <2>1. "evt" \in Tasks /\ {"evt"} \in SUBSET Tasks /\ "evt" \in {"evt"}
    BY DEF Tasks
  <2>2. /\ \A u \in Tasks : Priority[u] > Priority["evt"] => u \in {"evt"}
        /\ \A u \in Tasks \ {"evt"} : Priority[u] > Priority["evt"] \/ Priority["evt"] > Priority[u]
    BY DEF Priority, Tasks
  <2> QED
    BY <1>1, <2>1, <2>2, OwnKept
<1>3. Own("timer", {"timer", "evt"})'
  <2>1. "timer" \in Tasks /\ {"timer", "evt"} \in SUBSET Tasks /\ "timer" \in {"timer", "evt"}
    BY DEF Tasks
  <2>2. /\ \A u \in Tasks : Priority[u] > Priority["timer"] => u \in {"timer", "evt"}
        /\ \A u \in Tasks \ {"timer"} :
             Priority[u] > Priority["timer"] \/ Priority["timer"] > Priority[u]
    BY DEF Priority, Tasks
  <2> QED
    BY <1>1, <2>1, <2>2, OwnKept
<1>4. Own("fb", {"fb", "timer", "evt"})'
  <2>1. /\ "fb" \in Tasks /\ {"fb", "timer", "evt"} \in SUBSET Tasks
        /\ "fb" \in {"fb", "timer", "evt"}
    BY DEF Tasks
  <2>2. /\ \A u \in Tasks : Priority[u] > Priority["fb"] => u \in {"fb", "timer", "evt"}
        /\ \A u \in Tasks \ {"fb"} : Priority[u] > Priority["fb"] \/ Priority["fb"] > Priority[u]
    BY DEF Priority, Tasks
  <2> QED
    BY <1>1, <2>1, <2>2, OwnKept
<1> QED
  BY <1>1, <1>2, <1>3, <1>4, TypeKept, SoundKept, TornKept DEF TransportInv

THEOREM Transport == Spec => []TransportInv
BY InitHolds, TransportKept, PTL DEF Spec

(***************************************************************************)
(* No packet of a handler is torn, one of a timer's callback only by a     *)
(* handler, and one of bt_fb_task only by these two, unless the ring was   *)
(* full (bt_hci_pkt_tmp, bt_host_txq_add).                                 *)
(***************************************************************************)
THEOREM NeverTornFromBelow == Spec => []TornFromAbove
<1>1. TransportInv => TornFromAbove
  BY DEF TransportInv
<1> QED
  BY <1>1, Transport, PTL

(***************************************************************************)
(* The controller gets a packet only after it is done with the last one    *)
(* (bt_tx_task, bt_host_tx_pkt_ready).                                     *)
(***************************************************************************)
THEOREM ControllerReady == Spec => []SentWhenReady
<1>1. TransportInv => SentWhenReady
  BY DEF TransportInv, Sound
<1> QED
  BY <1>1, Transport, PTL

-----------------------------------------------------------------------------
(* Reassembly.                                                             *)

\* A frame is a sequence, each of which grows out of the one before.
LEMMA FrameFact ==
    ASSUME NEW d, NEW n \in Nat, NEW p
    PROVE  /\ Frame(d, n, p) \in Seq({Fragment(d, i, p) : i \in 1 .. n})
           /\ Len(Frame(d, n, p)) = n
           /\ \A i \in 1 .. n : Frame(d, n, p)[i] = Fragment(d, i, p)
BY DEF Frame

LEMMA FirstFragment ==
    ASSUME NEW d, NEW p
    PROVE  Frame(d, 1, p) = <<Fragment(d, 1, p)>>
BY DEF Frame, Fragment

LEMMA NextFragment ==
    ASSUME NEW d, NEW n \in Nat, NEW p
    PROVE  Append(Frame(d, n, p), Fragment(d, n + 1, p)) = Frame(d, n + 1, p)
<1> DEFINE S == {Fragment(d, i, p) : i \in 1 .. n + 1}
<1>1. Frame(d, n, p) \in Seq(S) /\ Len(Frame(d, n, p)) = n /\ Fragment(d, n + 1, p) \in S
  BY DEF Frame
<1>2. Append(Frame(d, n, p), Fragment(d, n + 1, p)) \in Seq(S)
  BY <1>1
<1>3. Frame(d, n + 1, p) \in Seq(S) /\ Len(Frame(d, n + 1, p)) = n + 1
  BY DEF Frame
<1>4. \A i \in 1 .. n + 1 :
        Append(Frame(d, n, p), Fragment(d, n + 1, p))[i] = Frame(d, n + 1, p)[i]
  BY <1>1, <1>3 DEF Frame
<1>5. Len(Append(Frame(d, n, p), Fragment(d, n + 1, p))) = n + 1
  BY <1>1
<1> HIDE DEF S
<1> QED
  BY <1>2, <1>3, <1>4, <1>5, SeqEqual

\* The whole of a frame is all of the buffer.
LEMMA WholeFrame ==
    ASSUME NEW d, NEW n \in Nat, NEW p
    PROVE  SubSeq(Frame(d, n, p), 1, n) = Frame(d, n, p)
BY DEF Frame

\* The first fragment of a frame.
LEMMA StartKeeps ==
    ASSUME RxInv, NEW d \in Devices, NEW n \in 1 .. MaxFrame, AclStart(d, n)
    PROVE  RxInv'
<1>0. RxTypeOK /\ OneFrame /\ FramesWhole
  BY DEF RxInv
<1>1. RxTypeOK' /\ parity'[d] \in 0 .. 1
  <2>1. parity' = [parity EXCEPT ![d] = 1 - parity[d]] /\ 1 - parity[d] \in 0 .. 1
    BY <1>0 DEF AclStart, RxTypeOK
  <2>2. /\ rest' = [rest EXCEPT ![d] = n - 1] /\ n - 1 \in Nat
        /\ total' = [total EXCEPT ![d] = n]
    BY ConstantFacts DEF AclStart
  <2>3. mixed' \in BOOLEAN
    BY <1>0 DEF AclStart, RxTypeOK
  <2> QED
    BY <1>0, <2>1, <2>2, <2>3, ConstantFacts DEF RxTypeOK
<1>2. CASE n = 1
  <2>1. /\ rest' = rest /\ frame' = [dev |-> d, fragments |-> <<Fragment(d, 1, parity'[d])>>]
        /\ UNCHANGED <<frag_buf, frag_size, mixed>>
    BY <1>0, <1>2 DEF AclStart, RxTypeOK, HandOn
  <2>2. OneFrame'
    BY <1>0, <2>1, ConstantFacts DEF AclStart, OneFrame, RxTypeOK
  <2>3. frame'.fragments = Frame(frame'.dev, 1, parity'[d]) /\ 1 \in 1 .. MaxFrame
    BY <2>1, FirstFragment, ConstantFacts
  <2> QED
    BY <1>1, <2>2, <2>3 DEF RxInv, FramesWhole
<1>3. CASE n # 1
  <2>1. /\ frag_buf' = <<Fragment(d, 1, parity'[d])>> /\ frag_size' = n /\ frame' = NO_FRAME
        /\ mixed' = (\E e \in Devices \ {d} : rest[e] > 0)
        /\ rest' = [rest EXCEPT ![d] = n - 1] /\ total' = [total EXCEPT ![d] = n]
    BY <1>3 DEF AclStart
  <2>2. OneFrame'
    <3> SUFFICES ASSUME ~mixed', NEW e \in Devices, rest'[e] > 0
                 PROVE  /\ frag_buf' = Frame(e, total'[e] - rest'[e], parity'[e])
                        /\ frag_size' = total'[e]
                        /\ \A f \in Devices \ {e} : rest'[f] = 0
      BY DEF OneFrame
    <3>1. \A f \in Devices \ {d} : rest'[f] = 0
      BY <1>0, <2>1 DEF RxTypeOK
    <3>2. e = d
      BY <3>1
    <3>3. rest'[d] = n - 1 /\ total'[d] = n
      BY <1>0, <2>1 DEF RxTypeOK
    <3>4. total'[e] - rest'[e] = 1
      BY <3>2, <3>3
    <3> QED
      BY <2>1, <3>1, <3>2, <3>3, <3>4, FirstFragment
  <2> QED
    BY <1>1, <2>1, <2>2 DEF RxInv, FramesWhole
<1> QED
  BY <1>2, <1>3

\* The next one.
LEMMA ContinueKeeps ==
    ASSUME RxInv, NEW d \in Devices, AclContinue(d)
    PROVE  RxInv'
<1>0. RxTypeOK /\ OneFrame /\ FramesWhole
  BY DEF RxInv
<1>1. /\ rest' = [rest EXCEPT ![d] = rest[d] - 1] /\ rest[d] > 0
      /\ UNCHANGED <<frag_size, total, parity, mixed>>
      /\ frag_buf' = Append(frag_buf, Fragment(d, total[d] - rest'[d], parity[d]))
  BY DEF AclContinue
<1>2. RxTypeOK'
  BY <1>0, <1>1 DEF RxTypeOK
<1>3. CASE mixed
  BY <1>1, <1>2, <1>3 DEF RxInv, OneFrame, FramesWhole
<1>4. CASE ~mixed
  <2> DEFINE n == total[d] - rest[d]
  <2>1. /\ frag_buf = Frame(d, n, parity[d]) /\ frag_size = total[d]
        /\ \A e \in Devices \ {d} : rest[e] = 0
    BY <1>0, <1>1, <1>4 DEF OneFrame
  <2>2. n \in Nat /\ total[d] - rest'[d] = n + 1 /\ total[d] \in 1 .. MaxFrame
        /\ rest'[d] = total[d] - (n + 1) /\ rest'[d] \in Nat
    BY <1>0, <1>1, ConstantFacts DEF RxTypeOK
  <2>3. frag_buf' = Frame(d, n + 1, parity[d])
    BY <1>1, <2>1, <2>2, NextFragment
  <2>4. OneFrame'
    <3> SUFFICES ASSUME NEW e \in Devices, rest'[e] > 0
                 PROVE  /\ frag_buf' = Frame(e, total'[e] - rest'[e], parity'[e])
                        /\ frag_size' = total'[e]
                        /\ \A f \in Devices \ {e} : rest'[f] = 0
      BY DEF OneFrame
    <3>1. \A f \in Devices \ {d} : rest'[f] = 0
      BY <1>0, <1>1, <2>1 DEF RxTypeOK
    <3>2. e = d
      BY <3>1
    <3> QED
      BY <1>1, <2>1, <2>2, <2>3, <3>1, <3>2
  <2>5. FramesWhole'
    <3>1. CASE ~Full(frag_buf')
      BY <3>1 DEF AclContinue, FramesWhole
    <3>2. CASE Full(frag_buf')
      <4>1. Len(frag_buf') = n + 1
        <5>1. n + 1 \in Nat
          BY <2>2
        <5> HIDE DEF n
        <5> QED
          BY <2>3, <5>1, FrameFact
      <4>2. n + 1 = total[d]
        BY <1>1, <2>1, <2>2, <3>2, <4>1 DEF Full, AclContinue
      <4>3. frame' = [dev |-> d, fragments |-> SubSeq(frag_buf', 1, frag_size)]
        BY <3>2 DEF AclContinue, HandOn
      <4>4. SubSeq(frag_buf', 1, frag_size) = Frame(d, n + 1, parity[d])
        BY <2>1, <2>2, <2>3, <4>2, WholeFrame
      <4>5. frame'.fragments = Frame(frame'.dev, total[d], parity[d]) /\ parity[d] \in 0 .. 1
        BY <1>0, <4>2, <4>3, <4>4 DEF RxTypeOK
      <4> QED
        BY <2>2, <4>5 DEF FramesWhole
    <3> QED
      BY <3>1, <3>2
  <2> QED
    BY <1>2, <2>4, <2>5 DEF RxInv
<1> QED
  BY <1>3, <1>4

\* The link goes in the middle of a frame.
LEMMA LostKeeps ==
    ASSUME RxInv, NEW d \in Devices, LinkLost(d)
    PROVE  RxInv'
<1>1. RxTypeOK'
  BY ConstantFacts DEF RxInv, LinkLost, RxTypeOK
<1>2. OneFrame'
  BY DEF RxInv, LinkLost, RxTypeOK, OneFrame
<1>3. FramesWhole'
  BY DEF RxInv, LinkLost, FramesWhole
<1> QED
  BY <1>1, <1>2, <1>3 DEF RxInv

(***************************************************************************)
(* Unless two devices sent frames in fragments at the same time, every     *)
(* frame that is handed on is whole (bt_host_acl_hdlr).                    *)
(***************************************************************************)
THEOREM NeverHalfAFrame == RxSpec => []FramesWhole
<1>1. RxInit => RxInv
  <2>1. RxInit => RxTypeOK
    <3> SUFFICES ASSUME RxInit PROVE RxTypeOK
      OBVIOUS
    <3>1. mixed \in BOOLEAN
      BY DEF RxInit
    <3>2. /\ rest = [d \in Devices |-> 0] /\ total = [d \in Devices |-> 1]
          /\ parity = [d \in Devices |-> 0]
      BY DEF RxInit
    <3> QED
      BY <3>1, <3>2, ConstantFacts DEF RxTypeOK
  <2>2. RxInit => OneFrame /\ FramesWhole
    BY DEF RxInit, OneFrame, FramesWhole
  <2> QED
    BY <2>1, <2>2 DEF RxInv
<1>2. RxInv /\ [RxNext]_rx => RxInv'
  <2>1. CASE UNCHANGED rx
    BY <2>1 DEF rx, RxInv, RxTypeOK, OneFrame, FramesWhole
  <2> QED
    BY <2>1, StartKeeps, ContinueKeeps, LostKeeps DEF RxNext
<1>3. RxInv => FramesWhole
  BY DEF RxInv
<1> QED
  BY <1>1, <1>2, <1>3, PTL DEF RxSpec

=============================================================================
