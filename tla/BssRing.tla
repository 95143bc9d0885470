------------------------------ MODULE BssRing ------------------------------
(***************************************************************************)
(* The bounded single-producer single-consumer ring of liblfds 7.1.1       *)
(* (struct lfds711_queue_bss_state) as a record of its two cursors and its *)
(* element array.  lfds711_queue_bss_enqueue and lfds711_queue_bss_dequeue *)
(* are not atomic: each reads the cursors, touches one element, and only   *)
(* then moves its own cursor.  The operators below are those pieces; a     *)
(* specification that uses a ring makes each of them a step of its own.    *)
(***************************************************************************)
EXTENDS Integers, Sequences

CONSTANT N          \* number_elements of the ring

ASSUME RingSize == N \in Nat /\ N >= 2

Index == 0 .. N - 1

(***************************************************************************)
(* Definitions marked as mutants are wrong on purpose: each is a plausible *)
(* mistake in the operator that follows it, and is used only to see that a *)
(* property notices the mistake.                                           *)
(***************************************************************************)

(***************************************************************************)
(* (i + 1) & mask, where mask = number_elements - 1 and number_elements is *)
(* a power of two: the increment wraps to 0 at the end of the array.       *)
(***************************************************************************)
NextIndex(i) == IF i = N - 1 THEN 0 ELSE i + 1

\* Every ring over elements of S (the array is malloc'ed: S holds the garbage too).
Ring(S) == [read_index : Index, write_index : Index, element : [Index -> S]]

IsEmptyEarly(r) ==                 \* mutant: the last entry is never taken
    r.read_index = r.write_index \/ NextIndex(r.read_index) = r.write_index

IsEmpty(r) == r.read_index = r.write_index

\* One element is never used: the ring is full with N - 1 entries.
IsFull(r) == NextIndex(r.write_index) = r.read_index

\* The element a dequeue reads before it moves read_index.
Front(r) == r.element[r.read_index]

\* The store of an enqueue, before the store barrier.
Store(r, e) == [r EXCEPT !.element[r.write_index] = e]

\* The publication of an enqueue, after the store barrier.
Publish(r) == [r EXCEPT !.write_index = NextIndex(@)]

\* The release of an element by a dequeue that has read it.

Retire(r) == [r EXCEPT !.read_index = NextIndex(@)]

(***************************************************************************)
(* Views of a ring, used by properties only.                               *)
(***************************************************************************)
Count(r) ==
    IF r.write_index >= r.read_index
    THEN r.write_index - r.read_index
    ELSE r.write_index - r.read_index + N

\* The positions from read_index up to, not including, write_index.
Live(r, i) ==
    IF r.write_index >= r.read_index
    THEN r.read_index <= i /\ i < r.write_index
    ELSE r.read_index <= i \/ i < r.write_index

LiveIn(r) == {i \in Index : Live(r, i)}

Contains(r, e) == \E i \in LiveIn(r) : r.element[i] = e

NoDuplicates(r) == \A i, j \in LiveIn(r) : r.element[i] = r.element[j] => i = j

\* The k-th live position, k = 1 being the next one to be dequeued.
Position(r, k) ==
    IF r.read_index + k - 1 < N
    THEN r.read_index + k - 1
    ELSE r.read_index + k - 1 - N

\* The live elements, oldest first.
Entries(r) == [k \in 1 .. Count(r) |-> r.element[Position(r, k)]]

=============================================================================
