-------------------------- MODULE ImmediateContext --------------------------
(***************************************************************************)
(* The recording side of D3D11ImmediateContext                             *)
(* (src/src/d3d11/d3d11_context_imm.cpp) and its flush heuristic           *)
(* GpuFlushTracker (src/src/util/util_flush.cpp), as functions of a record *)
(* that holds the context's members.                                       *)
(*                                                                         *)
(* Commands are collected in a chunk; a full chunk goes to the CS thread,  *)
(* which CsThread.tla shows to execute the chunks in order and to count    *)
(* them.  What the CS thread has still to execute is part of the record.   *)
(* A command is a tuple that starts with its name; the module that uses    *)
(* this one gives it a meaning.                                            *)
(***************************************************************************)
EXTENDS Integers, Sequences, FiniteSetsExt

CONSTANTS
  ChunkSize,             \* commands that fit in a chunk
  MaxFlushType,          \* m_maxType of the flush tracker: Strong on tilers, else Weak
  MinPendingSubmissions, \* minPendingSubmissions
  MinChunkCount,         \* minChunkCount
  MaxChunkCount          \* maxChunkCount

\* GpuFlushType: the smaller, the more urgent.
Explicit == 0
Synchronization == 1
Strong == 2
Weak == 3
None == 4

\* What the constants are.
ContextAssumption ==
  /\ ChunkSize \in Nat \ {0}
  /\ MaxFlushType \in {Strong, Weak}
  /\ MinPendingSubmissions \in Nat \ {0}
  /\ MinChunkCount \in Nat \ {0}
  /\ MaxChunkCount \in Nat \ {0}

NewContext ==
  [chunk |-> <<>>,   \* m_csChunk
   stream |-> <<>>,  \* dispatched chunks, less what the CS thread has executed
   seq |-> 0,        \* m_csSeqNum
   flushSeq |-> 0,   \* m_flushSeqNum, which m_lastFlushChunkId always equals
   submission |-> 0, \* m_submissionId, which m_lastFlushSubmissionId always equals
   missed |-> None]  \* m_lastMissedType

\* "We do not flush empty chunks, so if we are tracking a resource immediately after
\* a flush, we need to use the sequence number of the previously submitted chunk"
CurrentSequence(c) == IF c.chunk = <<>> THEN c.seq ELSE c.seq + 1
PendingChunks(c) == CurrentSequence(c) - c.flushSeq

\* EmitCsChunk, with a fresh chunk in its place.
FlushChunk(c) ==
  IF c.chunk = <<>> THEN c
  ELSE [c EXCEPT !.stream = Append(@, c.chunk), !.seq = @ + 1, !.chunk = <<>>]

Push(c, command) == [c EXCEPT !.chunk = Append(@, command)]
IsFull(c) == Len(c.chunk) >= ChunkSize

\* The submission fence is signaled with n once the list that <<"flush", n>> ends is
\* through.  ApplyDirtyNullBindings' command only changes bindings and is left out.
ExecuteFlush(c) ==
  LET n == c.submission + 1
      flushed == FlushChunk(Push(IF IsFull(c) THEN FlushChunk(c) ELSE c, <<"flush", n>>))
  IN IF PendingChunks(c) = 0 THEN c
     ELSE [flushed EXCEPT !.submission = n, !.flushSeq = flushed.seq, !.missed = None]

\* GpuFlushTracker::considerFlush, once the type is settled.
ShouldFlush(type, chunks, pending) ==
  \/ type = Explicit
  \/ type = Strong /\ chunks >= MinChunkCount
  \/ /\ type \in {Synchronization, Weak}
     /\ type = Weak => chunks >= 2 * MinChunkCount
     /\ \/ pending < MinPendingSubmissions
        \/ chunks >= Min({MaxChunkCount, pending * MinChunkCount})

ConsiderFlush(c, flushType, completed) ==
  LET type == Min({flushType, c.missed})
      noted == IF type = Synchronization THEN c ELSE [c EXCEPT !.missed = type]
  IN IF PendingChunks(c) = 0 \/ flushType > MaxFlushType THEN c
     ELSE IF ShouldFlush(type, PendingChunks(c), c.submission - completed)
            THEN ExecuteFlush(noted) ELSE noted

EmitCs(c, command, completed) ==
  Push(IF IsFull(c) THEN ConsiderFlush(FlushChunk(c), Weak, completed) ELSE c, command)

\* On a tiler a request that was refused before is granted here.
NotifyRenderPassBoundary(c, completed) ==
  IF MaxFlushType = Weak THEN ConsiderFlush(c, Weak, completed)
  ELSE IF c.missed # None THEN ExecuteFlush(c) ELSE c

\* What the CS thread sees: the next command, and the number of the last chunk that
\* it is through with.
HasCommand(c) == c.stream # <<>>
NextCommand(c) == Head(Head(c.stream))
DropCommand(c) ==
  [c EXCEPT !.stream = IF Len(Head(@)) = 1 THEN Tail(@) ELSE <<Tail(Head(@))>> \o Tail(@)]
ExecutedChunks(c) == c.seq - Len(c.stream)

\* m_csThread.synchronize(n) as SynchronizeCsThread calls it, up to its wait.
Dispatched(c, n) == IF n > c.seq THEN FlushChunk(c) ELSE c
=============================================================================
