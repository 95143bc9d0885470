----------------------------- MODULE MemoryCard -----------------------------
(***************************************************************************)
(* The memory card: its content is kept in RAM and stored in a file of the *)
(* flash, one block at a time.  A writer (the wired loop of core 1, or the *)
(* web configuration on core 0) changes the RAM, marks the block and sends *)
(* an FB_TYPE_MEM_WRITE through the feedback queue; bt_fb_task arms a      *)
(* timer; the callback of the timer stores one marked block, removes the   *)
(* mark and arms the timer again while others are left.  None of them      *)
(* holds a lock, so each access to what they share is a step of its own.   *)
(*                                                                         *)
(* Definitions marked as mutants are wrong on purpose, to see that a       *)
(* property notices the mistake.                                           *)
(***************************************************************************)
EXTENDS Integers

CONSTANTS Writers,       \* the threads that call mc_write
          Blocks,        \* the blocks of mc_buffer, by number
          QueueLen,      \* the items the feedback queue takes
          MaxFiles,      \* max_files of the file system
          Torn,          \* the content of a block whose store failed
          MaxWrites,     \* bound: calls of mc_write
          MaxFails       \* bound: calls of fopen and fwrite that fail

ASSUME CardAssumption ==
    /\ Blocks \subseteq Nat
    /\ QueueLen \in Nat \ {0}
    /\ MaxFiles \in Nat
    /\ MaxWrites \in Nat
    /\ MaxFails \in Nat
    /\ Torn \notin 0 .. MaxWrites

VARIABLES
    mc_buffer,           \* the content of each block: the number of its last write
    mc_block_state,      \* the blocks marked for the callback to store
    card_file,           \* the content of each block in the file
    wpc, wblock,         \* where each writer is in mc_write, and with which block
    mem_notes,           \* FB_TYPE_MEM_WRITE items in the feedback queue
    others,              \* items of other types in it
    fpc,                 \* where bt_fb_task is in mc_start_update_timer
    armed,               \* the timer is active
    tpc, tblock,         \* where the callback is, and the block it stores
    stored,              \* its fwrite succeeded
    leaked,              \* files it has left open
    unopened,            \* history: its last fopen failed
    raced,               \* blocks written and marked between their store and the end of their mark
    muted,               \* a note was dropped when none other was in the queue
    writes, fails        \* counted for the bounds

writerVars == <<wpc, wblock, writes>>
queueVars == <<mem_notes, others>>
cardVars == <<mc_buffer, mc_block_state, card_file, raced>>
fileVars == <<leaked, unopened>>
timerVars == <<tpc, tblock, stored, fileVars, fails>>
memVars == <<cardVars, writerVars, queueVars, muted, fpc, armed, timerVars>>

\* mc_restore: the RAM and the file are equal.
CardInit ==
    /\ mc_buffer = [b \in Blocks |-> 0]
    /\ mc_block_state = {}
    /\ card_file = [b \in Blocks |-> 0]
    /\ wpc = [w \in Writers |-> "idle"]
    /\ wblock \in [Writers -> Blocks]
    /\ mem_notes = 0
    /\ others = 0
    /\ fpc = "idle"
    /\ armed = FALSE
    /\ tpc = "idle"
    /\ tblock \in Blocks
    /\ stored = FALSE
    /\ leaked = 0
    /\ unopened = FALSE
    /\ raced = {}
    /\ muted = FALSE
    /\ writes = 0
    /\ fails = 0

-----------------------------------------------------------------------------
(* mc_write                                                                *)

\* memcpy, whole: what a store sees of a copy that goes on is as good as the block before.
Copy(w, b) ==
    /\ wpc[w] = "idle"
    /\ writes < MaxWrites
    /\ writes' = writes + 1
    /\ mc_buffer' = [mc_buffer EXCEPT ![b] = writes']
    /\ wpc' = [wpc EXCEPT ![w] = "mark"]
    /\ wblock' = [wblock EXCEPT ![w] = b]
    /\ UNCHANGED <<mc_block_state, card_file, raced, queueVars, muted, fpc, armed, timerVars>>

\* atomic_set_bit.  raced is for the properties only.
Mark(w) ==
    LET b == wblock[w]
    IN /\ wpc[w] = "mark"
       /\ wpc' = [wpc EXCEPT ![w] = "notify"]
       /\ mc_block_state' = mc_block_state \cup {b}
       /\ raced' = IF tpc = "clear" /\ tblock = b /\ card_file[b] # mc_buffer[b]
                   THEN raced \cup {b} ELSE raced
       /\ UNCHANGED <<mc_buffer, card_file, wblock, writes, queueVars, muted, fpc, armed,
                      timerVars>>

\* adapter_q_fb: the item is dropped when the queue is full.
NotifyNobody(w) ==                 \* mutant: the item is never queued
    /\ wpc[w] = "notify"
    /\ wpc' = [wpc EXCEPT ![w] = "idle"]
    /\ UNCHANGED <<cardVars, wblock, writes, queueVars, muted, fpc, armed, timerVars>>

Notify(w) ==
    /\ wpc[w] = "notify"
    /\ wpc' = [wpc EXCEPT ![w] = "idle"]
    /\ IF mem_notes + others < QueueLen
       THEN mem_notes' = mem_notes + 1 /\ UNCHANGED muted
       ELSE muted' = (muted \/ mem_notes = 0) /\ UNCHANGED mem_notes
    /\ UNCHANGED <<cardVars, wblock, writes, others, fpc, armed, timerVars>>

-----------------------------------------------------------------------------
(* bt_fb_task, and the other users of the feedback queue.                  *)

OtherQueued ==
    /\ mem_notes + others < QueueLen
    /\ others' = others + 1
    /\ UNCHANGED <<cardVars, writerVars, mem_notes, muted, fpc, armed, timerVars>>

OtherHandled ==
    /\ fpc = "idle"
    /\ others > 0
    /\ others' = others - 1
    /\ UNCHANGED <<cardVars, writerVars, mem_notes, muted, fpc, armed, timerVars>>

\* mc_storage_update: mc_start_update_timer(1 s).  Where it goes after esp_timer_is_active.
AfterActive == IF armed THEN "stop" ELSE "start"

TakeNote ==
    /\ fpc = "idle"
    /\ mem_notes > 0
    /\ mem_notes' = mem_notes - 1
    /\ fpc' = AfterActive
    /\ UNCHANGED <<cardVars, writerVars, others, muted, armed, timerVars>>

FbStop ==
    /\ fpc = "stop"
    /\ fpc' = "start"
    /\ armed' = FALSE
    /\ UNCHANGED <<cardVars, writerVars, queueVars, muted, timerVars>>

\* esp_timer_start_once refuses a timer that is active: it is armed either way.
FbStart ==
    /\ fpc = "start"
    /\ fpc' = "idle"
    /\ armed' = TRUE
    /\ UNCHANGED <<cardVars, writerVars, queueVars, muted, timerVars>>

-----------------------------------------------------------------------------
(* mc_store_cb, in the task of esp_timer.                                  *)

TGoto(from, to) == tpc = from /\ tpc' = to

\* The timer is not active any more when its callback is called.
Fire ==
    /\ armed
    /\ armed' = FALSE
    /\ TGoto("idle", "open")
    /\ UNCHANGED <<cardVars, writerVars, queueVars, muted, fpc, tblock, stored, fileVars, fails>>

\* fopen fails if the callback left too many files open, or others have the rest of them open.
OpenFailed ==
    /\ \/ leaked >= MaxFiles /\ UNCHANGED fails
       \/ fails < MaxFails /\ fails' = fails + 1
    /\ TGoto("open", "idle")
    /\ unopened' = TRUE
    /\ UNCHANGED <<cardVars, writerVars, queueVars, muted, fpc, armed, tblock, stored, leaked>>

FileOpened == leaked < MaxFiles /\ unopened' = FALSE

\* __builtin_ffs: the first block that is marked ...
Pick ==
    /\ FileOpened
    /\ TGoto("open", "write")
    /\ \E b \in mc_block_state :
          /\ \A c \in mc_block_state : b <= c
          /\ tblock' = b
    /\ UNCHANGED <<cardVars, writerVars, queueVars, muted, fpc, armed, stored, leaked, fails>>

\* ... or none: the callback returns and leaves the file open.
PickNone ==
    /\ FileOpened
    /\ mc_block_state = {}
    /\ TGoto("open", "idle")
    /\ leaked' = leaked + 1
    /\ UNCHANGED <<cardVars, writerVars, queueVars, muted, fpc, armed, tblock, stored, fails>>

StoreBlock ==
    /\ TGoto("write", "clear")
    /\ card_file' = [card_file EXCEPT ![tblock] = mc_buffer[tblock]]
    /\ raced' = raced \ {tblock}
    /\ stored' = TRUE
    /\ UNCHANGED <<mc_buffer, mc_block_state, writerVars, queueVars, muted, fpc, armed, tblock,
                   fileVars, fails>>

StoreBlockFailed ==
    /\ fails < MaxFails
    /\ fails' = fails + 1
    /\ TGoto("write", "clear")
    /\ card_file' = [card_file EXCEPT ![tblock] = Torn]
    /\ stored' = FALSE
    /\ UNCHANGED <<mc_buffer, mc_block_state, raced, writerVars, queueVars, muted, fpc, armed,
                   tblock, fileVars>>

\* fclose; atomic_clear_bit if the store succeeded.
ClearAlways ==                     \* mutant: whether it succeeded or not
    /\ TGoto("clear", "rearm")
    /\ mc_block_state' = mc_block_state \ {tblock}
    /\ UNCHANGED <<mc_buffer, card_file, raced, writerVars, queueVars, muted, fpc, armed, tblock,
                   stored, fileVars, fails>>

Clear ==
    /\ TGoto("clear", "rearm")
    /\ mc_block_state' = IF stored THEN mc_block_state \ {tblock} ELSE mc_block_state
    /\ UNCHANGED <<mc_buffer, card_file, raced, writerVars, queueVars, muted, fpc, armed, tblock,
                   stored, fileVars, fails>>

\* if (mc_block_state) mc_start_update_timer(20 ms)

Rearm ==
    /\ TGoto("rearm", IF mc_block_state = {} THEN "idle" ELSE AfterActive)
    /\ UNCHANGED <<cardVars, writerVars, queueVars, muted, fpc, armed, tblock, stored, fileVars, fails>>

CbStop ==
    /\ TGoto("stop", "start")
    /\ armed' = FALSE
    /\ UNCHANGED <<cardVars, writerVars, queueVars, muted, fpc, tblock, stored, fileVars, fails>>

CbStart ==
    /\ TGoto("start", "idle")
    /\ armed' = TRUE
    /\ UNCHANGED <<cardVars, writerVars, queueVars, muted, fpc, tblock, stored, fileVars, fails>>

-----------------------------------------------------------------------------
McWrite(w) == (\E b \in Blocks : Copy(w, b)) \/ Mark(w) \/ Notify(w)

FbTask == OtherHandled \/ TakeNote \/ FbStop \/ FbStart

Callback == Fire \/ OpenFailed \/ Pick \/ PickNone \/ StoreBlock \/ StoreBlockFailed \/ Clear
            \/ Rearm \/ CbStop \/ CbStart

CardNext == (\E w \in Writers : McWrite(w)) \/ OtherQueued \/ FbTask \/ Callback

CardSpec == CardInit /\ [][CardNext]_memVars

(***************************************************************************)
(* The writers finish their calls, bt_fb_task polls for ever and takes the *)
(* items in the order they came, and esp_timer calls back in the end.      *)
(***************************************************************************)
FairCardSpec ==
    /\ CardSpec
    /\ \A w \in Writers : WF_memVars(Mark(w) \/ Notify(w))
    /\ SF_memVars(TakeNote)
    /\ WF_memVars(FbStop \/ FbStart)
    /\ WF_memVars(Callback)

-----------------------------------------------------------------------------
(* Properties.                                                             *)

Content == 0 .. MaxWrites \cup {Torn}

CardFlagsOK == armed \in BOOLEAN /\ stored \in BOOLEAN /\ muted \in BOOLEAN /\ unopened \in BOOLEAN

CardTypeOK ==
    /\ CardFlagsOK
    /\ mc_buffer \in [Blocks -> 0 .. MaxWrites]
    /\ mc_block_state \subseteq Blocks
    /\ card_file \in [Blocks -> Content]
    /\ wpc \in [Writers -> {"idle", "mark", "notify"}]
    /\ wblock \in [Writers -> Blocks]
    /\ mem_notes \in 0 .. QueueLen
    /\ others \in 0 .. QueueLen
    /\ mem_notes + others <= QueueLen
    /\ fpc \in {"idle", "stop", "start"}
    /\ tpc \in {"idle", "open", "write", "clear", "rearm", "stop", "start"}
    /\ tblock \in Blocks
    /\ leaked \in 0 .. MaxFiles
    /\ raced \subseteq Blocks
    /\ writes \in 0 .. MaxWrites
    /\ fails \in 0 .. MaxFails

Marking(b) == \E w \in Writers : wpc[w] = "mark" /\ wblock[w] = b

(***************************************************************************)
(* A block whose file is out of date is marked, or about to be: the one    *)
(* write that is lost is one that is copied and marked while the callback, *)
(* having stored the block, has not removed the mark of the write before.  *)
(***************************************************************************)
LostOnlyByRace ==
    \A b \in Blocks :
        card_file[b] # mc_buffer[b] => b \in mc_block_state \/ Marking(b) \/ b \in raced

\* The callback has stored a block, and what was written since is marked, or raced.
StoredIsNoted ==
    tpc = "clear" /\ stored /\ card_file[tblock] # mc_buffer[tblock] =>
        Marking(tblock) \/ tblock \in raced

\* The block the callback works on keeps its mark until the callback removes it.
PickedIsMarked == tpc \in {"write", "clear"} => tblock \in mc_block_state

(***************************************************************************)
(* What makes LostOnlyByRace inductive: the same, while the callback is    *)
(* between its store and the removal of the mark.  (FB_TYPE_MEM_WRITE and  *)
(* the timer do not matter for what can be lost.)                          *)
(***************************************************************************)
CardIndInv == CardTypeOK /\ LostOnlyByRace /\ StoredIsNoted /\ PickedIsMarked

(***************************************************************************)
(* Somebody is going to arm the timer, or it is armed, as long as a block  *)
(* is marked, whichever way bt_fb_task and the callback interleave in      *)
(* mc_start_update_timer.  The exceptions are two resources that run out:  *)
(* the note was dropped because the feedback queue was full of others'     *)
(* items, or the file could not be opened.                                 *)
(***************************************************************************)
UnderWay ==
    \/ armed
    \/ fpc # "idle"
    \/ tpc # "idle"
    \/ mem_notes > 0
    \/ \E w \in Writers : wpc[w] = "notify"

MarkedIsUnderWay == mc_block_state # {} => UnderWay \/ muted \/ unopened

\* What the writers have written is stored in the end, with the same two exceptions.
AllStored == <>[](mc_block_state = {} \/ muted \/ unopened)

=============================================================================
