------------------------------ MODULE CsThread ------------------------------
(***************************************************************************)
(* DxvkCsThread (src/src/dxvk/dxvk_cs.h, dxvk_cs.cpp): the command stream  *)
(* thread that executes chunks of commands on the DxvkContext.             *)
(*                                                                         *)
(* The thread that records D3D commands dispatches chunks to the ordered   *)
(* queue and synchronizes with their sequence numbers.  Other threads      *)
(* inject chunks: resource initialization into the high-priority queue,    *)
(* swap chain work into the ordered one, and LockImage and LockBuffer into *)
(* the high-priority queue with a wait for the execution.                  *)
(*                                                                         *)
(* Chunks are numbered in the order in which they are queued.  A condition *)
(* variable is the set of the threads asleep on it; notify_one wakes any   *)
(* one of them.                                                            *)
(***************************************************************************)
EXTENDS Naturals, Sequences, FiniteSets, Functions

CONSTANTS
  Apps,       \* threads that dispatch chunks and synchronize
  Injectors,  \* threads that inject chunks and do not wait
  Lockers,    \* threads that inject a chunk and wait for it
  MaxChunks,  \* bound of the model: chunks ever queued
  MayThrow    \* a command may raise a DxvkError

Worker  == "dxvk-cs"
Clients == Apps \union Injectors \union Lockers
Queues  == {"ordered", "high"}  \* DxvkCsQueue

\* A client is a thread in one of these roles: a thread that records and also locks
\* is two clients, which are never in a call at the same time.
ASSUME CsAssumption ==
  /\ Apps \intersect Lockers = {}
  /\ MaxChunks \in Nat
  /\ MayThrow \in BOOLEAN
  /\ Worker \notin Clients

SynchronizeAll == MaxChunks + 1  \* ~0ull: larger than every sequence number

Entries == [chunk : 1..MaxChunks, seq : 0..MaxChunks]  \* DxvkCsQueuedChunk
NoEntry == [chunk |-> 0, seq |-> 0]

VARIABLES
  count,        \* chunks queued so far
  queue,        \* DxvkCsChunkQueue::queue of each queue
  seqDispatch,  \* DxvkCsChunkQueue::seqDispatch of each queue
  hasHighPrio,  \* m_hasHighPrio
  counter,      \* m_seqOrdered and m_seqHighPrio
  stopped,      \* m_stopped
  condOnAdd,    \* threads asleep on m_condOnAdd
  condOnSync,   \* threads asleep on m_condOnSync
  crowded,      \* two threads have been asleep on it at once
  threadPc,     \* where the worker is
  local,        \* its local vectors, from their index on
  entry,        \* the entry it executes, and from which queue
  pc,           \* the call each client is in
  request,      \* the sequence number a client waits for
  executed,     \* chunks in the order of their execution
  numbered      \* chunk of each sequence number of each queue

queueVars  == <<count, queue, seqDispatch, hasHighPrio, numbered>>
workerVars == <<threadPc, local, entry, executed, counter>>
clientVars == <<pc, request, crowded>>
vars == <<queueVars, workerVars, clientVars, condOnAdd, condOnSync, stopped>>

Init ==
  /\ count = 0
  /\ queue = [q \in Queues |-> <<>>]
  /\ seqDispatch = [q \in Queues |-> 0]
  /\ hasHighPrio = FALSE
  /\ counter = [q \in Queues |-> 0]
  /\ stopped = FALSE
  /\ condOnAdd = {} /\ condOnSync = {} /\ crowded = FALSE
  /\ threadPc = "loop"
  /\ local = [q \in Queues |-> <<>>]
  /\ entry = [from |-> "ordered", item |-> NoEntry]
  /\ pc = [t \in Clients |-> "idle"]
  /\ request = [t \in Clients |-> 0]
  /\ executed = <<>>
  /\ numbered = [q \in Queues |-> <<>>]

-----------------------------------------------------------------------------
(* Clients *)

Outside(t) == pc[t] \in {"idle", "returned"} /\ ~stopped

\* notify_one on m_condOnAdd, where only the worker ever sleeps
WakeWorker == condOnAdd' = {}

\* emplace_back of a new chunk, with the next sequence number of the queue or
\* with none, and notify_one for the worker.
Push(q, withSeq) ==
  /\ count < MaxChunks
  /\ count' = count + 1
  /\ seqDispatch' = IF withSeq THEN [seqDispatch EXCEPT ![q] = @ + 1] ELSE seqDispatch
  /\ numbered' = IF withSeq THEN [numbered EXCEPT ![q] = Append(@, count + 1)] ELSE numbered
  /\ queue' = [queue EXCEPT ![q] =
                 Append(@, [chunk |-> count + 1, seq |-> IF withSeq THEN seqDispatch'[q] ELSE 0])]
  /\ WakeWorker

RaiseFlag(q) == hasHighPrio' = (hasHighPrio \/ q = "high")

DispatchChunk(t) ==
  /\ t \in Apps /\ Outside(t)
  /\ Push("ordered", TRUE)
  /\ pc' = [pc EXCEPT ![t] = "idle"]
  /\ request' = [request EXCEPT ![t] = 0]
  /\ UNCHANGED <<hasHighPrio, workerVars, condOnSync, crowded, stopped>>

\* injectChunk(queue, chunk, false)
InjectChunk(t, q) ==
  /\ t \in Injectors /\ Outside(t)
  /\ Push(q, FALSE)
  /\ RaiseFlag(q)
  /\ UNCHANGED <<workerVars, clientVars, condOnSync, stopped>>

\* injectChunk(HighPriority, chunk, true), up to its wait
InjectAndWait(t) ==
  /\ t \in Lockers /\ Outside(t)
  /\ Push("high", TRUE)
  /\ RaiseFlag("high")
  /\ pc' = [pc EXCEPT ![t] = "waitHigh"]
  /\ request' = [request EXCEPT ![t] = seqDispatch'["high"]]
  /\ UNCHANGED <<workerVars, condOnSync, crowded, stopped>>

\* The dispatch counter is read with no lock.
ResolveMutant(seq) == seq
Resolve(seq) == IF seq = SynchronizeAll THEN seqDispatch["ordered"] ELSE seq

\* synchronize(seq), up to its wait.  dxvk_cs.h says of it that a number of 0 waits for all
\* pending chunks; the code compares 0 with the counter like any other number and returns
\* at once.  It is SynchronizeAll that waits for all, and the front ends pass it.
Synchronize(t, seq) ==
  /\ t \in Apps /\ Outside(t)
  /\ request' = [request EXCEPT ![t] = Resolve(seq)]
  /\ pc' = [pc EXCEPT ![t] = IF seq > counter["ordered"] THEN "waitOrdered" ELSE "returned"]
  /\ UNCHANGED <<queueVars, workerVars, condOnAdd, condOnSync, crowded, stopped>>

\* Mutant: an off-by-one in the predicate.
ArrivedMutant(q, seq) == counter[q] + 1 >= seq
Arrived(q, seq) == counter[q] >= seq

\* condition_variable::wait on m_condOnSync with m_counterMutex
WaitForCounter(t, q) ==
  /\ pc[t] = (IF q = "high" THEN "waitHigh" ELSE "waitOrdered")
  /\ t \notin condOnSync
  /\ \/ /\ Arrived(q, request[t])
        /\ pc' = [pc EXCEPT ![t] = "returned"]
        /\ UNCHANGED <<condOnSync, crowded>>
     \/ /\ ~Arrived(q, request[t])
        /\ condOnSync' = condOnSync \union {t}
        /\ crowded' = (crowded \/ condOnSync # {})
        /\ UNCHANGED pc
  /\ UNCHANGED <<queueVars, workerVars, request, condOnAdd, stopped>>

\* The destructor.  The immediate context synchronizes with all that it has
\* dispatched before it is destroyed; injected chunks may still be queued.
Stop ==
  /\ \A t \in Clients : Outside(t)
  /\ counter["ordered"] = seqDispatch["ordered"]
  /\ stopped' = TRUE
  /\ WakeWorker
  /\ UNCHANGED <<queueVars, workerVars, clientVars, condOnSync>>

-----------------------------------------------------------------------------
(* The worker, threadFunc *)

CheckStopped ==
  /\ threadPc = "loop"
  /\ threadPc' = IF stopped THEN "exit" ELSE "wait"
  /\ UNCHANGED <<queueVars, local, entry, executed, counter, clientVars,
                 condOnAdd, condOnSync, stopped>>

\* Mutant: the flag survives the swap of both queues.
ClearFlagMutant == UNCHANGED hasHighPrio
ClearFlag == hasHighPrio' = FALSE

\* Wait for chunks, then swap both queues with the empty local ones.
FetchChunks ==
  /\ threadPc = "wait" /\ Worker \notin condOnAdd
  /\ IF (\A q \in Queues : queue[q] = <<>>) /\ ~stopped
       THEN /\ condOnAdd' = condOnAdd \union {Worker}
            /\ UNCHANGED <<queue, hasHighPrio, threadPc, local>>
       ELSE /\ local' = queue
            /\ queue' = [q \in Queues |-> <<>>]
            /\ ClearFlag
            /\ threadPc' = "next"
            /\ UNCHANGED condOnAdd
  /\ UNCHANGED <<count, seqDispatch, numbered, entry, executed, counter,
                 clientVars, condOnSync, stopped>>

\* Once its high-priority chunks are used up the worker takes what has been
\* injected in the meantime, before it goes on with the ordered chunks.  The flag is read
\* before the lock: with a TRUE the picking happens at the swap, as only the worker
\* clears the flag, and with a FALSE at the read, after which nothing shared is read.
\* Mutant: no refill.
RefillMutant(hp) == FALSE
Refill(hp) == hp = <<>> /\ hasHighPrio

\* "Drain high-priority queue first"
Prefer(hp) == IF hp = <<>> THEN "ordered" ELSE "high"

PickChunk ==
  /\ threadPc = "next"
  /\ \E q \in Queues : local[q] # <<>>
  /\ LET hp   == IF Refill(local["high"]) THEN queue["high"] ELSE local["high"]
         from == Prefer(hp)
         src  == IF from = "high" THEN hp ELSE local["ordered"]
     IN /\ entry' = [from |-> from, item |-> Head(src)]
        /\ local' = IF from = "high"
                      THEN [local EXCEPT !["high"] = Tail(src)]
                      ELSE [local EXCEPT !["ordered"] = Tail(src), !["high"] = hp]
  /\ IF Refill(local["high"])
       THEN queue' = [queue EXCEPT !["high"] = <<>>] /\ ClearFlag
       ELSE UNCHANGED <<queue, hasHighPrio>>
  /\ threadPc' = "execute"
  /\ UNCHANGED <<count, seqDispatch, numbered, executed, counter, clientVars,
                 condOnAdd, condOnSync, stopped>>

\* The local queues are used up.
LeaveChunks ==
  /\ threadPc = "next"
  /\ \A q \in Queues : local[q] = <<>>
  /\ threadPc' = "loop"
  /\ UNCHANGED <<queueVars, local, entry, executed, counter, clientVars,
                 condOnAdd, condOnSync, stopped>>

ExecuteChunk ==
  /\ threadPc = "execute"
  /\ executed' = Append(executed, entry.item.chunk)
  /\ threadPc' = "notify"
  /\ UNCHANGED <<queueVars, local, entry, counter, clientVars, condOnAdd,
                 condOnSync, stopped>>

\* An exception leaves the loop for good; the thread ends.
Throw ==
  /\ threadPc = "execute"
  /\ MayThrow
  /\ threadPc' = "exit"
  /\ UNCHANGED <<queueVars, local, entry, executed, counter, clientVars,
                 condOnAdd, condOnSync, stopped>>

NotifyOneMutant == UNCHANGED condOnSync
NotifyOne ==
  \/ condOnSync = {} /\ UNCHANGED condOnSync
  \/ \E t \in condOnSync : condOnSync' = condOnSync \ {t}

\* Publish the sequence number of a numbered chunk and release the chunk.
FinishChunk ==
  /\ threadPc = "notify"
  /\ IF entry.item.seq # 0
       THEN counter' = [counter EXCEPT ![entry.from] = entry.item.seq] /\ NotifyOne
       ELSE UNCHANGED <<counter, condOnSync>>
  /\ threadPc' = "next"
  /\ entry' = [entry EXCEPT !.item = NoEntry]
  /\ UNCHANGED <<queueVars, local, executed, clientVars, condOnAdd, stopped>>

-----------------------------------------------------------------------------
Wait(t) == \E q \in Queues : WaitForCounter(t, q)

WorkerStep ==
  \/ CheckStopped \/ FetchChunks \/ PickChunk \/ LeaveChunks
  \/ ExecuteChunk \/ Throw \/ FinishChunk

Next ==
  \/ \E t \in Clients :
       \/ DispatchChunk(t)
       \/ \E q \in Queues : InjectChunk(t, q)
       \/ InjectAndWait(t)
       \/ \E seq \in 0..seqDispatch["ordered"] \union {SynchronizeAll} : Synchronize(t, seq)
       \/ Wait(t)
  \/ Stop
  \/ WorkerStep

Spec == Init /\ [][Next]_vars

\* The worker runs and a client that waits evaluates its predicate when it is
\* awake.  Nothing obliges a client to call.
Fairness ==
  /\ WF_vars(WorkerStep)
  /\ \A t \in Clients : WF_vars(Wait(t))

FairSpec == Spec /\ Fairness

-----------------------------------------------------------------------------
(* Properties *)

\* The values the variables take.
TypeOK ==
  /\ count \in 0..MaxChunks
  /\ queue \in [Queues -> Seq(Entries)]
  /\ seqDispatch \in [Queues -> 0..MaxChunks]
  /\ hasHighPrio \in BOOLEAN /\ stopped \in BOOLEAN /\ crowded \in BOOLEAN
  /\ counter \in [Queues -> 0..MaxChunks]
  /\ condOnAdd \subseteq {Worker} /\ condOnSync \subseteq Clients
  /\ threadPc \in {"loop", "wait", "next", "execute", "notify", "exit"}
  /\ local \in [Queues -> Seq(Entries)]
  /\ entry \in [from : Queues, item : Entries \union {NoEntry}]
  /\ pc \in [Clients -> {"idle", "waitOrdered", "waitHigh", "returned"}]
  /\ request \in [Clients -> 0..MaxChunks]
  /\ executed \in Seq(1..MaxChunks)
  /\ numbered \in [Queues -> Seq(1..MaxChunks)]

\* The flag that the worker reads with no lock says what is in the queue: with
\* a stale TRUE the worker would lock for nothing, with a stale FALSE an
\* injected chunk would wait for all of the ordered ones.
FlagMatchesQueue == hasHighPrio <=> queue["high"] # <<>>

\* The queue a client waits for
WaitsFor(t) == IF t \in Lockers THEN "high" ELSE "ordered"

\* When synchronize or a synchronizing injectChunk has returned, all chunks up
\* to the sequence number have been executed, and all that were dispatched before the
\* call if that is SynchronizeAll.  LockImage relies on it: its chunk writes to a
\* variable on the caller's stack.  Of a call with the number 0, which does not wait
\* (see Synchronize), nothing is promised.
SyncMeansExecuted ==
  \A t \in Clients : pc[t] = "returned" =>
    \A n \in 1..request[t] : numbered[WaitsFor(t)][n] \in Range(executed)

\* The worker implements the command stream of CommandStream.tla: each queue is
\* executed in order, and an ordered chunk is picked only when no injected chunk waits
\* in either copy of the queue ("Drain high-priority queue first"), one that was injected
\* after the worker had fetched its chunks included: it is picked up by the refill.
\* A chunk that raised an exception stays in hand for ever.
Items(q) == local[q] \o queue[q]
Waiting(q) == [i \in DOMAIN Items(q) |-> Items(q)[i].chunk]
InHand == IF threadPc \in {"execute", "exit"} THEN entry.item.chunk ELSE 0

Stream == INSTANCE CommandStream WITH
  ordered <- Waiting("ordered"),
  high    <- Waiting("high"),
  current <- InHand

ImplementsStream == Stream!StreamSpec

\* "Whether to wait for execution to complete" (dxvk_cs.h): a thread that waits for
\* a sequence number goes on, unless an exception has ended the worker.
WaitEnds(t) == pc[t] = "returned" \/ threadPc = "exit"
EveryWaitEnds ==
  \A t \in Clients : pc[t] \in {"waitOrdered", "waitHigh"} ~> WaitEnds(t)

\* It does as long as no two threads have slept on m_condOnSync at once, in
\* whatever way the wait, the publication and the notification interleave.
WaitsEnd ==
  \A t \in Clients : pc[t] \in {"waitOrdered", "waitHigh"} ~> (WaitEnds(t) \/ crowded)

\* Every chunk is executed unless the worker ends first, and it ends once the
\* destructor has asked it to, so that join() returns.
WorkerProgresses ==
  /\ \A c \in 1..MaxChunks :
       count >= c ~> (c \in Range(executed) \/ stopped \/ threadPc = "exit")
  /\ stopped ~> threadPc = "exit"

\* Neither side leaves the other behind: waits end, chunks are executed, joins return.
CallsEnd == WaitsEnd /\ WorkerProgresses
=============================================================================
