--------------------------- MODULE HostTransport ---------------------------
(***************************************************************************)
(* Packets to and from the Bluetooth controller.  The tasks of the host    *)
(* build packets in one buffer, bt_hci_pkt_tmp, which bt_host_txq_add      *)
(* copies into the ring txq once there is room.  bt_tx_task gives them to  *)
(* the controller, one whenever it has said that it is ready.  What the    *)
(* controller has to say it says in its own task, whose callbacks are the  *)
(* handlers of all packets it receives; they build packets too.            *)
(*                                                                         *)
(* All run on one core, by priority: a task runs while none above it can.  *)
(*                                                                         *)
(* Definitions marked as mutants are wrong on purpose, to see that a       *)
(* property notices the mistake.                                           *)
(***************************************************************************)
EXTENDS Integers, Sequences

CONSTANTS QueueLen,      \* the packets txq has room for
          MaxBurst       \* bound: the packets one handler sends

ASSUME TransportAssumption == QueueLen \in Nat \ {0} /\ MaxBurst \in Nat \ {0}

\* "evt": the callbacks of the controller; "timer": the esp_timer task, whose callbacks of PS3 and
\* PS5 controllers send reports; "fb": bt_fb_task; "host": bt_host_task, and sys_mgr_task,
\* which has the same priority.
Tasks == {"evt", "timer", "fb", "host"}
PriorityInverted == [evt |-> 23, timer |-> 22, tx |-> 11, fb |-> 5, host |-> 10]     \* mutant
Priority == [evt |-> 23, timer |-> 22, tx |-> 11, fb |-> 10, host |-> 5]

VARIABLES
    buffer,              \* bt_hci_pkt_tmp: who wrote its head and its body last
    txq,                 \* the ring; the packet bt_tx_task works on still takes its place
    ready,               \* BT_CTRL_READY
    busy,                \* the controller works on a packet
    pc,                  \* where each task is in building a packet
    left,                \* packets it is still to send after this one
    blocked,             \* it has waited for room
    tpc                  \* where bt_tx_task is

send == <<buffer, pc, left, blocked>>
tx == <<ready, busy, tpc>>
vars == <<send, txq, tx>>

Init ==
    /\ buffer = [head |-> "evt", body |-> "evt"]
    /\ txq = <<>>
    /\ ready = TRUE
    /\ busy = FALSE
    /\ pc = [t \in Tasks |-> "idle"]
    /\ left = [t \in Tasks |-> 0]
    /\ blocked = [t \in Tasks |-> FALSE]
    /\ tpc = "test"

-----------------------------------------------------------------------------
(* The scheduler                                                           *)

Room == Len(txq) < QueueLen

CanRun(t) == pc[t] \in {"body", "head"} \/ (pc[t] \in {"send", "sendwait"} /\ (Room \/ ~blocked[t]))
\* bt_tx_task spins while the controller is not ready.
TxCanRun == tpc \in {"test", "send", "return"} \/ (tpc = "receive" /\ txq # <<>>)

Preempted(t) ==
    \/ \E u \in Tasks : Priority[u] > Priority[t] /\ CanRun(u)
    \/ Priority.tx > Priority[t] /\ TxCanRun
Runs(t) == ~Preempted(t)
TxRuns == \A u \in Tasks : Priority[u] > Priority.tx => ~CanRun(u)

-----------------------------------------------------------------------------
(* A task sends packets                                                    *)

Job(t, n) == /\ pc' = [pc EXCEPT ![t] = "body"]
             /\ left' = [left EXCEPT ![t] = n - 1]

\* A timer has run out, or bt_fb_task or bt_host_task has something to send.
Begin(t) ==
    /\ t # "evt" /\ pc[t] = "idle" /\ Runs(t)
    /\ Job(t, 1)
    /\ UNCHANGED <<buffer, blocked, txq, tx>>

\* The parameters are written, ...
FillBody(t) ==
    /\ pc[t] = "body" /\ Runs(t)
    /\ buffer' = [buffer EXCEPT !.body = t]
    /\ pc' = [pc EXCEPT ![t] = "head"]
    /\ UNCHANGED <<left, blocked, txq, tx>>

\* ... then the headers with the length.
FillHead(t) ==
    /\ pc[t] = "head" /\ Runs(t)
    /\ buffer' = [buffer EXCEPT !.head = t]
    /\ pc' = [pc EXCEPT ![t] = "send"]
    /\ UNCHANGED <<left, blocked, txq, tx>>

\* from: the tasks whose bytes it has; late: its sender has waited for room.
Packet(t) == [by |-> t, from |-> {buffer.head, buffer.body}, late |-> blocked[t]]
WaitPacket(t) == [by |-> t, from |-> {}, late |-> blocked[t]]

\* bt_host_txq_add: xRingbufferSend with no timeout copies the bytes when there is room.
TxqAdd(t) ==
    /\ pc[t] \in {"send", "sendwait"} /\ Runs(t)
    /\ Room
    /\ txq' = Append(txq, IF pc[t] = "send" THEN Packet(t) ELSE WaitPacket(t))
    /\ blocked' = [blocked EXCEPT ![t] = FALSE]
    /\ \/ left[t] = 0 /\ pc' = [pc EXCEPT ![t] = "idle"] /\ UNCHANGED left
       \/ left[t] > 0 /\ Job(t, left[t])
    /\ UNCHANGED <<buffer, tx>>

\* There is none: the task waits, and others run.
TxqFull(t) ==
    /\ pc[t] \in {"send", "sendwait"} /\ Runs(t)
    /\ ~Room /\ ~blocked[t]
    /\ blocked' = [blocked EXCEPT ![t] = TRUE]
    /\ UNCHANGED <<buffer, pc, left, txq, tx>>

\* bt_host_q_wait_pkt: a packet of its own, from the stack, which only a handler sends.
QueueWait ==
    /\ pc["evt"] = "body" /\ Runs("evt")
    /\ pc' = [pc EXCEPT !["evt"] = "sendwait"]
    /\ UNCHANGED <<buffer, left, blocked, txq, tx>>

-----------------------------------------------------------------------------
(* bt_tx_task                                                              *)

TxTest ==
    /\ tpc = "test" /\ TxRuns
    /\ ready
    /\ tpc' = "receive"
    /\ UNCHANGED <<send, txq, ready, busy>>

TxReceive ==
    /\ tpc = "receive" /\ TxRuns
    /\ txq # <<>>
    /\ IF Head(txq).from = {}
       THEN tpc' = "delay" /\ UNCHANGED ready
       ELSE tpc' = "send" /\ ready' = FALSE
    /\ UNCHANGED <<send, txq, busy>>

\* esp_vhci_host_send_packet
TxSend ==
    /\ tpc = "send" /\ TxRuns
    /\ busy' = TRUE
    /\ tpc' = "return"
    /\ UNCHANGED <<send, txq, ready>>

\* vTaskDelay
TxDelayOver ==
    /\ tpc = "delay"
    /\ tpc' = "return"
    /\ UNCHANGED <<send, txq, ready, busy>>

TxReturnClearing ==                \* mutant: the flag is cleared once the packet is sent
    /\ tpc = "return" /\ TxRuns
    /\ txq' = Tail(txq)
    /\ tpc' = "test"
    /\ ready' = FALSE
    /\ UNCHANGED <<send, busy>>

\* vRingbufferReturnItem: only now there is room for another.
TxReturn ==
    /\ tpc = "return" /\ TxRuns
    /\ txq' = Tail(txq)
    /\ tpc' = "test"
    /\ UNCHANGED <<send, ready, busy>>

TxTask == TxTest \/ TxReceive \/ TxSend \/ TxDelayOver \/ TxReturn

-----------------------------------------------------------------------------
(* The task of the controller                                              *)

\* bt_host_tx_pkt_ready
TxPktReady ==
    /\ pc["evt"] = "idle"
    /\ busy
    /\ busy' = FALSE
    /\ ready' = TRUE
    /\ UNCHANGED <<send, txq, tpc>>

\* bt_host_rx_pkt: an event or an ACL packet, whose handler sends up to MaxBurst packets.
Event ==
    /\ pc["evt"] = "idle"
    /\ \E n \in 1 .. MaxBurst : Job("evt", n)
    /\ UNCHANGED <<buffer, blocked, txq, tx>>

Next ==
    \/ \E t \in Tasks : Begin(t) \/ FillBody(t) \/ FillHead(t) \/ TxqAdd(t) \/ TxqFull(t)
    \/ QueueWait
    \/ TxTest \/ TxReceive \/ TxSend \/ TxDelayOver \/ TxReturn
    \/ TxPktReady
    \/ Event

GoOn(t) == FillBody(t) \/ FillHead(t) \/ TxqAdd(t) \/ TxqFull(t)

\* The controller completes what it is given, and leaves the core to the timers and to bt_tx_task
\* again and again; a handler and a timer's callback go on.
Fairness ==
    /\ SF_vars(TxTask)
    /\ SF_vars(TxPktReady)
    /\ WF_vars(GoOn("evt"))
    /\ SF_vars(GoOn("timer"))

Spec == Init /\ [][Next]_vars /\ Fairness

-----------------------------------------------------------------------------
(* Properties.                                                             *)

TransportTypeOK ==
    /\ buffer \in [head : Tasks, body : Tasks]
    /\ txq \in Seq([by : Tasks, from : SUBSET Tasks, late : BOOLEAN])
    /\ Len(txq) <= QueueLen
    /\ ready \in BOOLEAN
    /\ busy \in BOOLEAN
    /\ pc \in [Tasks -> {"idle", "body", "head", "send", "sendwait"}]
    /\ left \in [Tasks -> 0 .. MaxBurst - 1]
    /\ blocked \in [Tasks -> BOOLEAN]
    /\ tpc \in {"test", "receive", "send", "delay", "return"}
    /\ tpc \in {"send", "delay", "return"} => txq # <<>>

(***************************************************************************)
(* One buffer serves several tasks without a lock.  A packet of a handler  *)
(* is whole, one of a timer has no bytes of another but a handler's in it, *)
(* and one of bt_fb_task none but theirs, unless its sender found the ring *)
(* full and others could run before the bytes were copied: which takes a   *)
(* full ring and a delay of bt_tx_task.                                    *)
(***************************************************************************)
TornFromAbove ==
    \A i \in 1 .. Len(txq) :
        LET p == txq[i]
        IN ~p.late =>
             /\ p.by = "evt" => p.from \subseteq {"evt"}
             /\ p.by = "timer" => p.from \subseteq {"timer", "evt"}
             /\ p.by = "fb" => p.from \subseteq {"fb", "timer", "evt"}

(***************************************************************************)
(* The controller is given a packet only when it is done with the one      *)
(* before, though BT_CTRL_READY is tested long before it is cleared.       *)
(***************************************************************************)
SentWhenReady == tpc = "send" => ~busy /\ ~ready

\* What keeps TornFromAbove: what a task that can run has written nobody below it overwrites.
Own(t, mine) ==
    /\ pc[t] \in {"head", "send"} /\ ~blocked[t] => buffer.body \in mine
    /\ pc[t] = "send" /\ ~blocked[t] => buffer.head \in mine
    /\ pc[t] \in {"idle", "body", "head"} => ~blocked[t]

Sound == /\ ready => ~busy
         /\ tpc \in {"receive", "delay"} => ready
         /\ SentWhenReady

TransportInv ==
    /\ TransportTypeOK /\ Sound
    /\ Own("evt", {"evt"}) /\ Own("timer", {"timer", "evt"}) /\ Own("fb", {"fb", "timer", "evt"})
    /\ TornFromAbove

(***************************************************************************)
(* Every packet in the ring leaves it, unless a handler waits for room     *)
(* while the controller is to say that it is ready, which it would say in  *)
(* the task that waits (bt_host_txq_add has no timeout): then nothing is   *)
(* ever sent again.                                                        *)
(***************************************************************************)
Stuck == blocked["evt"] /\ ~Room /\ ~ready /\ tpc = "test"
PacketsLeave == txq # <<>> ~> tpc = "return" \/ Stuck

=============================================================================
