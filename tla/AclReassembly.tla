--------------------------- MODULE AclReassembly ---------------------------
(***************************************************************************)
(* Frames that come in several ACL packets: bt_host_acl_hdlr keeps one     *)
(* buffer, one offset and one size for all devices.  A frame is counted in *)
(* fragments of one size; a fragment is named by its device, its place and *)
(* the parity of its frame.                                                *)
(*                                                                         *)
(* Definitions marked as mutants are wrong on purpose, to see that a       *)
(* property notices the mistake.                                           *)
(***************************************************************************)
EXTENDS Integers, Sequences

CONSTANTS Devices,
          MaxFrame       \* bound: the fragments of the longest frame

ASSUME FrameAssumption == MaxFrame \in Nat \ {0}

VARIABLES
    frag_buf,            \* the fragments in it; frag_offset is its length
    frag_size,
    rest,                \* per device: the fragments of its frame that are still to come
    parity,              \* per device: of its current frame
    total,               \* per device: the fragments of its current frame
    mixed,               \* the buffer was filled while another device's frame was not complete
    frame                \* the frame that was handed on last

rx == <<frag_buf, frag_size, rest, parity, total, mixed, frame>>

NO_FRAME == [dev |-> "none", fragments |-> <<>>]

Fragment(d, i, p) == [dev |-> d, place |-> i, parity |-> p]
Frame(d, n, p) == [i \in 1 .. n |-> Fragment(d, i, p)]

RxInit ==
    /\ frag_buf = <<>>
    /\ frag_size = 0
    /\ rest = [d \in Devices |-> 0]
    /\ parity = [d \in Devices |-> 0]
    /\ total = [d \in Devices |-> 1]
    /\ mixed = FALSE
    /\ frame = NO_FRAME

HandOn(d, fragments) == frame' = [dev |-> d, fragments |-> fragments]

AclStartAppending(d, n) ==         \* mutant: the offset is not reset, as the end of a frame does not
    /\ rest[d] = 0
    /\ rest' = [rest EXCEPT ![d] = n - 1]
    /\ total' = [total EXCEPT ![d] = n]
    /\ parity' = [parity EXCEPT ![d] = 1 - @]
    /\ IF n = 1
       THEN HandOn(d, <<Fragment(d, 1, parity'[d])>>) /\ UNCHANGED <<frag_buf, frag_size, mixed>>
       ELSE /\ frag_buf' = Append(frag_buf, Fragment(d, 1, parity'[d]))
            /\ frag_size' = n
            /\ mixed' = \E e \in Devices \ {d} : rest[e] > 0
            /\ frame' = NO_FRAME

\* An ACL packet that starts a frame of n fragments: it is handed on at once if it is all of it,
\* and fills the buffer anew if it is not.
AclStart(d, n) ==
    /\ rest[d] = 0
    /\ rest' = [rest EXCEPT ![d] = n - 1]
    /\ total' = [total EXCEPT ![d] = n]
    /\ parity' = [parity EXCEPT ![d] = 1 - @]
    /\ IF n = 1
       THEN HandOn(d, <<Fragment(d, 1, parity'[d])>>) /\ UNCHANGED <<frag_buf, frag_size, mixed>>
       ELSE /\ frag_buf' = <<Fragment(d, 1, parity'[d])>>
            /\ frag_size' = n
            /\ mixed' = \E e \in Devices \ {d} : rest[e] > 0
            /\ frame' = NO_FRAME

\* The buffer, to which a packet was appended, is full.
Full(buf) == Len(buf) >= frag_size

\* An ACL packet that continues a frame is appended, whosever the buffer is; when the buffer is
\* full it is handed on as a frame of the packet's device.
AclContinue(d) ==
    /\ rest[d] > 0
    /\ rest' = [rest EXCEPT ![d] = @ - 1]
    /\ frag_buf' = Append(frag_buf, Fragment(d, total[d] - rest'[d], parity[d]))
    /\ IF Full(frag_buf')
       THEN HandOn(d, SubSeq(frag_buf', 1, frag_size))
       ELSE frame' = NO_FRAME
    /\ UNCHANGED <<frag_size, total, parity, mixed>>

\* The link of a device goes, in the middle of a frame.
LinkLost(d) ==
    /\ rest[d] > 0
    /\ rest' = [rest EXCEPT ![d] = 0]
    /\ UNCHANGED <<frag_buf, frag_size, parity, total, mixed, frame>>

RxNext ==
    \E d \in Devices :
        \/ \E n \in 1 .. MaxFrame : AclStart(d, n)
        \/ AclContinue(d)
        \/ LinkLost(d)

RxSpec == RxInit /\ [][RxNext]_rx

-----------------------------------------------------------------------------
(***************************************************************************)
(* A frame that is handed on is a frame that its device sent, all of it,   *)
(* however the packets of several devices are interleaved and wherever a   *)
(* link breaks off; unless two of them sent frames in fragments at the     *)
(* same time.  Once they are through, the next frame is whole again,       *)
(* although the offset is not reset at the end of a frame.                 *)
(***************************************************************************)
FramesWhole ==
    frame # NO_FRAME /\ ~mixed =>
        \E n \in 1 .. MaxFrame, p \in 0 .. 1 : frame.fragments = Frame(frame.dev, n, p)

(***************************************************************************)
(* What the buffer holds of the one frame that is not complete.            *)
(***************************************************************************)
RxTypeOK ==
    /\ rest \in [Devices -> Nat]
    /\ total \in [Devices -> 1 .. MaxFrame]
    /\ parity \in [Devices -> 0 .. 1]
    /\ mixed \in BOOLEAN
    /\ \A d \in Devices : rest[d] < total[d]

OneFrame ==
    ~mixed => \A d \in Devices : rest[d] > 0 =>
        /\ frag_buf = Frame(d, total[d] - rest[d], parity[d])
        /\ frag_size = total[d]
        /\ \A e \in Devices \ {d} : rest[e] = 0

RxInv == RxTypeOK /\ OneFrame /\ FramesWhole

=============================================================================
