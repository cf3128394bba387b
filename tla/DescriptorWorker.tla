-------------------------- MODULE DescriptorWorker --------------------------
(***************************************************************************)
(* DxvkDescriptorCopyWorker (src/src/dxvk/dxvk_descriptor_worker.h, .cpp): *)
(* the CS thread fills a ring of blocks with descriptor updates, a worker  *)
(* thread writes them to descriptor memory, and the submission thread      *)
(* waits for the updates of a command list before it submits the list.     *)
(*                                                                         *)
(* Two sync::Fence values are all that guards the ring: m_appendFence      *)
(* counts the blocks handed to the worker, m_consumeFence those it is      *)
(* through with.  An update is the number of the allocEntry call that made *)
(* it, so that later updates have larger numbers.                          *)
(***************************************************************************)
EXTENDS Naturals, FiniteSets, Sequences

CONSTANTS
  BlockCount,  \* blocks of the ring
  RangeCount,  \* updates that fit in a block
  MaxEntries,  \* bound of the model: calls of allocEntry
  MaxLists     \* bound of the model: command lists

\* What the constants are.
RingAssumption ==
  /\ BlockCount \in Nat \ {0}
  /\ RangeCount \in Nat \ {0}
  /\ MaxEntries \in Nat
  /\ MaxLists \in Nat

VARIABLES
  blocks,      \* m_blocks: the updates in each
  blockIndex,  \* m_blockIndex
  entries,     \* calls of allocEntry so far
  append,      \* value of m_appendFence
  consume,     \* value of m_consumeFence
  csPc,        \* the call the CS thread is in
  workerPc,    \* where the worker is
  batch,       \* the append value the worker has read
  written,     \* updates that are in descriptor memory
  lists,       \* command lists: the updates they need, and their sync handle
  submitted    \* how many of them have been submitted

workerVars == <<workerPc, batch, written>>
listVars == <<lists, submitted>>
vars == <<blocks, blockIndex, entries, append, consume, csPc, workerVars, listVars>>

\* uint64_t(-1): above every value the fence counts to.
Stop == MaxEntries + 1

Init ==
  /\ blocks = [i \in 0..(BlockCount - 1) |-> {}]
  /\ blockIndex = 0 /\ entries = 0
  /\ append = 0 /\ consume = 0
  /\ csPc = "idle"
  /\ workerPc = "wait" /\ batch = 0 /\ written = {}
  /\ lists = <<>> /\ submitted = 0

\* A block has room for RangeCount updates.  Its second limit, DescriptorCount descriptors
\* over all updates, is left out: what follows is the same whichever is reached.
IsFull == Cardinality(blocks[blockIndex]) = RangeCount

\* The part of allocEntry that writes to the block.
Write ==
  /\ entries' = entries + 1
  /\ blocks' = [blocks EXCEPT ![blockIndex] = @ \union {entries + 1}]

\* allocEntry, up to flushBlock() if the block is full
AllocEntry ==
  /\ csPc = "idle" /\ entries < MaxEntries
  /\ IF IsFull THEN csPc' = "flushAlloc" /\ UNCHANGED <<entries, blocks>>
               ELSE Write /\ UNCHANGED csPc
  /\ UNCHANGED <<blockIndex, append, consume, workerVars, listVars>>

\* The value of getSyncHandle's SyncPoint, for the consume fence.
Handle == append

FinishList ==
  lists' = Append(lists, [needs |-> entries, handle |-> Handle])

\* flushCommandList calls getSyncHandle, which flushes the block unless it is empty.
GetSyncHandle ==
  /\ csPc = "idle" /\ Len(lists) < MaxLists
  /\ IF blocks[blockIndex] = {}
       THEN FinishList /\ UNCHANGED csPc
       ELSE csPc' = "flushHandle" /\ UNCHANGED lists
  /\ UNCHANGED <<blocks, blockIndex, entries, append, consume, workerVars, submitted>>

\* flushBlock(): hand the block to the worker ...
SignalAppend ==
  /\ append' = append + 1
  /\ \/ csPc = "flushAlloc" /\ csPc' = "nextAlloc"
     \/ csPc = "flushHandle" /\ csPc' = "nextHandle"
  /\ UNCHANGED <<blocks, blockIndex, entries, consume, workerVars, listVars>>

NextUsableMutant == append >= BlockCount => consume + BlockCount >= append
\* ... and wait until the next one is free
NextUsable == append >= BlockCount => consume >= append - BlockCount + 1

NextBlock ==
  /\ csPc \in {"nextAlloc", "nextHandle"} /\ NextUsable
  /\ blockIndex' = append % BlockCount
  /\ csPc' = IF csPc = "nextAlloc" THEN "alloc" ELSE "handle"
  /\ UNCHANGED <<blocks, entries, append, consume, workerVars, listVars>>

\* The rest of allocEntry and of getSyncHandle.
ReturnFromFlush ==
  /\ \/ csPc = "alloc" /\ Write /\ UNCHANGED lists
     \/ csPc = "handle" /\ FinishList /\ UNCHANGED <<entries, blocks>>
  /\ csPc' = "idle"
  /\ UNCHANGED <<blockIndex, append, consume, workerVars, submitted>>

WorkerWait ==
  /\ workerPc = "wait" /\ append >= consume + 1
  /\ batch' = append
  /\ workerPc' = IF append = Stop THEN "exit" ELSE "process"
  /\ UNCHANGED <<blocks, blockIndex, entries, append, consume, csPc, written, listVars>>

\* processBlock writes the updates and resets the block.
ProcessBlock ==
  /\ workerPc = "process"
  /\ written' = written \union blocks[consume % BlockCount]
  /\ blocks' = [blocks EXCEPT ![consume % BlockCount] = {}]
  /\ workerPc' = "signal"
  /\ UNCHANGED <<blockIndex, entries, append, consume, csPc, batch, listVars>>

More(n) == n < batch

SignalConsume ==
  /\ workerPc = "signal"
  /\ consume' = consume + 1
  /\ workerPc' = IF More(consume + 1) THEN "process" ELSE "wait"
  /\ UNCHANGED <<blocks, blockIndex, entries, append, csPc, batch, written, listVars>>

\* DxvkCommandList::submit: "Wait for pending descriptor copies to finish".
Submit ==
  /\ submitted < Len(lists)
  /\ consume >= lists[submitted + 1].handle
  /\ submitted' = submitted + 1
  /\ UNCHANGED <<blocks, blockIndex, entries, append, consume, csPc, workerVars, lists>>

Drained == consume >= append

\* The destructor, once nobody records any more, up to its join; a block that was
\* never flushed belongs to no command list and is dropped.
Destroy ==
  /\ csPc = "idle" /\ Drained
  /\ append' = Stop
  /\ csPc' = "destroyed"
  /\ UNCHANGED <<blocks, blockIndex, entries, consume, workerVars, listVars>>

WorkerStep == WorkerWait \/ ProcessBlock \/ SignalConsume
FlushStep == SignalAppend \/ NextBlock \/ ReturnFromFlush

Next == AllocEntry \/ GetSyncHandle \/ FlushStep \/ WorkerStep \/ Submit \/ Destroy

Spec == Init /\ [][Next]_vars

\* The three threads run; nothing obliges the CS thread to record or to stop.
FairSpec ==
  Spec /\ WF_vars(WorkerStep) /\ WF_vars(FlushStep) /\ WF_vars(Submit)

-----------------------------------------------------------------------------
(* Properties *)

\* The values the variables take; a block holds no more updates than fit.
TypeOK ==
  /\ blocks \in [0..(BlockCount - 1) -> SUBSET (1..MaxEntries)]
  /\ \A i \in DOMAIN blocks : Cardinality(blocks[i]) <= RangeCount
  /\ blockIndex \in 0..(BlockCount - 1)
  /\ entries \in 0..MaxEntries
  /\ append \in 0..Stop /\ batch \in 0..Stop /\ consume \in 0..MaxEntries
  /\ csPc \in {"idle", "flushAlloc", "flushHandle", "nextAlloc", "nextHandle",
               "alloc", "handle", "destroyed"}
  /\ workerPc \in {"wait", "process", "signal", "exit"}
  /\ written \subseteq 1..MaxEntries
  /\ submitted \in 0..Len(lists)
  /\ Len(lists) <= MaxLists

\* While the CS thread may write to its block, the worker neither works on that block
\* nor has it still to come.
BlockNotShared ==
  csPc \in {"idle", "alloc", "handle"} =>
    \A n \in consume..(append - 1) : n % BlockCount # blockIndex

\* Updates reach descriptor memory in the order of the calls, and none is lost on the
\* way: the others are in the blocks, each in one.  Two updates of the same memory
\* therefore leave the later one there.
UpdatesInOrder ==
  /\ written = 1..Cardinality(written)
  /\ \A e \in 1..entries : e \notin written => \E i \in DOMAIN blocks : e \in blocks[i]
  /\ \A i, j \in DOMAIN blocks : i # j => blocks[i] \intersect blocks[j] = {}

\* A command list is submitted only when every update recorded before its end, its
\* own among them, is in descriptor memory.
UpdatesBeforeSubmit ==
  \A n \in 1..submitted : 1..lists[n].needs \subseteq written

\* What the two fences are for: the ring is used by one thread at a time, as a queue,
\* and a sync handle covers what was recorded before it was taken.
RingSafe == BlockNotShared /\ UpdatesInOrder /\ UpdatesBeforeSubmit

\* The CS thread gets its next block, every command list is submitted, and the
\* destructor's join returns: neither side waits for the other for ever.
RingDrains ==
  /\ csPc \in {"nextAlloc", "nextHandle"} ~> csPc = "idle"
  /\ \A n \in 1..MaxLists : Len(lists) >= n ~> submitted >= n
  /\ csPc = "destroyed" ~> workerPc = "exit"
=============================================================================
