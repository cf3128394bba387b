--------------------------- MODULE CommandStream ---------------------------
(***************************************************************************)
(* What the command stream (CS) thread promises: every chunk is executed   *)
(* at most once, one at a time, chunks of one queue in the order they were *)
(* queued, and a chunk of the ordered queue is begun only when no          *)
(* high-priority chunk waits, whenever that was queued.  So resource       *)
(* initialization can go through the high-priority queue, and LockImage    *)
(* waits for one ordered chunk at most, the one that is being executed.    *)
(***************************************************************************)
EXTENDS Naturals, Sequences

CONSTANT MaxChunks  \* number of chunks the clients ever queue

VARIABLES
  count,      \* chunks queued so far; they are numbered in this order
  ordered,    \* ordered chunks that wait, oldest first
  high,       \* high-priority chunks that wait, oldest first
  current,    \* the chunk that is being executed, 0 for none
  executed    \* executed chunks, in the order of execution

streamVars == <<count, ordered, high, current, executed>>

StreamInit ==
  /\ count = 0
  /\ ordered = <<>> /\ high = <<>>
  /\ current = 0
  /\ executed = <<>>

EnqueueOrdered ==
  /\ count < MaxChunks
  /\ count' = count + 1
  /\ ordered' = Append(ordered, count + 1)
  /\ UNCHANGED <<high, current, executed>>

EnqueueHigh ==
  /\ count < MaxChunks
  /\ count' = count + 1
  /\ high' = Append(high, count + 1)
  /\ UNCHANGED <<ordered, current, executed>>

BeginHigh ==
  /\ current = 0 /\ high # <<>>
  /\ current' = Head(high)
  /\ high' = Tail(high)
  /\ UNCHANGED <<count, ordered, executed>>

BeginOrdered ==
  /\ current = 0 /\ ordered # <<>>
  /\ high = <<>>
  /\ current' = Head(ordered)
  /\ ordered' = Tail(ordered)
  /\ UNCHANGED <<count, high, executed>>

\* A chunk that does not come to its end is never followed by another.
End ==
  /\ current # 0
  /\ executed' = Append(executed, current)
  /\ current' = 0
  /\ UNCHANGED <<count, ordered, high>>

StreamNext == EnqueueOrdered \/ EnqueueHigh \/ BeginHigh \/ BeginOrdered \/ End

StreamSpec == StreamInit /\ [][StreamNext]_streamVars
=============================================================================
