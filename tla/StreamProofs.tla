---------------------------- MODULE StreamProofs ----------------------------
(***************************************************************************)
(* Proofs about the command stream thread and the threads that work for    *)
(* the thread that records, which MCStream puts together: CsThread for     *)
(* every set of clients, every number of chunks, and with and without      *)
(* exceptions, then the ring of descriptor blocks and the latency tracker. *)
(*                                                                         *)
(* A chunk passes through three places: the queue that the clients see,    *)
(* the worker's local copy and its hand.  Line(q), the three of them in a  *)
(* row, is what the argument is about: a client appends to it, executing a *)
(* chunk removes its head, and the swap of the queues, the refill and the  *)
(* pick only move items along it (PushItems, SwapItems, PickItems,         *)
(* ExecuteItems, collected in CoreSteps).                                  *)
(*                                                                         *)
(* On that line sequence numbers increase and have no gap, and all that    *)
(* are not on it any more have been executed (NumbersInv).  A published    *)
(* number is one that has been executed, whence SyncMeansExecuted.  For    *)
(* the priority of injected chunks the hand is left out: what waits of a   *)
(* queue, Items(q), loses its head with a pick, and that an ordered chunk  *)
(* is picked only when no injected one waits (PickWaiting) is due to       *)
(* FlagMatchesQueue: with the flag down the clients' queue is empty, and   *)
(* with the flag up the refill has emptied it.                             *)
(*                                                                         *)
(* The ring and the tracker keep a window of consecutive numbers, blocks   *)
(* handed over or frames known, in an array that is indexed by the number  *)
(* modulo its length.  What they rest on is that the window is never       *)
(* longer than the array, so that two numbers of it have different entries *)
(* (ModDiffers).                                                           *)
(***************************************************************************)
EXTENDS MCStream, SequenceTheorems, TLAPS, FiniteSetTheorems

-----------------------------------------------------------------------------
(* Types *)

\* The worker holds an entry while it executes one, and its local queues are empty
\* when it fetches.
HandInv ==
  /\ threadPc \in {"execute", "notify"} => entry.item \in Entries
  /\ threadPc \in {"loop", "wait", "next"} => entry.item = NoEntry
  /\ threadPc \in {"loop", "wait"} => \A q \in Queues : local[q] = <<>>

TypeInv ==
  /\ TypeOK /\ HandInv /\ FlagMatchesQueue
  /\ \A q \in Queues : seqDispatch[q] <= count

LEMMA InitTypes == Init => TypeInv
<1> SUFFICES ASSUME Init PROVE TypeInv
  OBVIOUS
<1> USE CsAssumption DEF CsAssumption
<1>1. "ordered" \in Queues /\ "high" \in Queues
  BY DEF Queues
<1>2. TypeOK
  <2>1. /\ queue \in [Queues -> Seq(Entries)] /\ local \in [Queues -> Seq(Entries)]
        /\ numbered \in [Queues -> Seq(1..MaxChunks)] /\ executed \in Seq(1..MaxChunks)
    BY DEF Init
  <2>2. entry \in [from : Queues, item : Entries \union {NoEntry}]
    BY <1>1 DEF Init
  <2>3. pc \in [Clients -> {"idle", "waitOrdered", "waitHigh", "returned"}]
    BY DEF Init
  <2>4. hasHighPrio \in BOOLEAN /\ stopped \in BOOLEAN /\ crowded \in BOOLEAN
    BY DEF Init
  <2>5. /\ seqDispatch \in [Queues -> 0..MaxChunks] /\ counter \in [Queues -> 0..MaxChunks]
        /\ request \in [Clients -> 0..MaxChunks] /\ count \in 0..MaxChunks
    BY DEF Init
  <2>6. /\ condOnAdd \subseteq {Worker} /\ condOnSync \subseteq Clients
        /\ threadPc \in {"loop", "wait", "next", "execute", "notify", "exit"}
    BY DEF Init
  <2> QED
    BY <2>1, <2>2, <2>3, <2>4, <2>5, <2>6 DEF TypeOK
<1> QED
  BY <1>1, <1>2 DEF Init, TypeInv, HandInv, FlagMatchesQueue

\* A client that queues a chunk.
PushStep(q, withSeq) == Push(q, withSeq) /\ RaiseFlag(q) /\ UNCHANGED <<workerVars, stopped>>

NewItem(q, withSeq) ==
  [chunk |-> count + 1, seq |-> IF withSeq THEN seqDispatch[q] + 1 ELSE 0]

coreVars == <<queueVars, workerVars>>

\* What clients and the destructor do to the queues: they push, or leave them alone.
LEMMA ClientSteps ==
  ASSUME TypeOK,
         \/ \E t \in Clients :
              \/ DispatchChunk(t) \/ InjectAndWait(t) \/ Wait(t)
              \/ \E q \in Queues : InjectChunk(t, q)
              \/ \E seq \in 0..seqDispatch["ordered"] \union {SynchronizeAll} : Synchronize(t, seq)
         \/ Stop
         \/ UNCHANGED vars
  PROVE  \/ \E q \in Queues, withSeq \in BOOLEAN : PushStep(q, withSeq)
         \/ UNCHANGED coreVars
<1>1. "ordered" \in Queues /\ "high" \in Queues
  BY DEF Queues
<1>2. ASSUME NEW t \in Clients, DispatchChunk(t) PROVE PushStep("ordered", TRUE)
  <2>1. hasHighPrio' = (hasHighPrio \/ "ordered" = "high")
    BY <1>2 DEF DispatchChunk, TypeOK
  <2> QED
    BY <1>2, <2>1 DEF DispatchChunk, PushStep, RaiseFlag
<1>3. ASSUME NEW t \in Clients, NEW q \in Queues, InjectChunk(t, q) PROVE PushStep(q, FALSE)
  BY <1>3 DEF InjectChunk, PushStep
<1>4. ASSUME NEW t \in Clients, InjectAndWait(t) PROVE PushStep("high", TRUE)
  BY <1>4 DEF InjectAndWait, PushStep
<1>5. ASSUME NEW t \in Clients, Wait(t) PROVE UNCHANGED coreVars
  BY <1>5 DEF Wait, WaitForCounter, coreVars
<1>6. ASSUME NEW t \in Clients, NEW seq, Synchronize(t, seq) PROVE UNCHANGED coreVars
  BY <1>6 DEF Synchronize, coreVars
<1>7. ASSUME Stop \/ UNCHANGED vars PROVE UNCHANGED coreVars
  BY <1>7 DEF Stop, vars, coreVars
<1> QED
  BY <1>1, <1>2, <1>3, <1>4, <1>5, <1>6, <1>7

\* Line that the clients append are entries.
LEMMA NewItemIsEntry ==
  ASSUME TypeInv, NEW q \in Queues, NEW withSeq \in BOOLEAN, Push(q, withSeq)
  PROVE  /\ NewItem(q, withSeq) \in Entries
         /\ count + 1 \in 1..MaxChunks
         /\ queue' = [queue EXCEPT ![q] = Append(@, NewItem(q, withSeq))]
         /\ seqDispatch' \in [Queues -> 0..MaxChunks]
         /\ \A p \in Queues : seqDispatch'[p] <= count'
<1> USE CsAssumption DEF CsAssumption
<1>1. /\ count \in Nat /\ seqDispatch \in [Queues -> 0..MaxChunks] /\ seqDispatch[q] <= count
      /\ \A p \in Queues : seqDispatch[p] <= count
  BY DEF TypeInv, TypeOK
<1>2. count < MaxChunks /\ count' = count + 1
  BY DEF Push
<1>3. count + 1 \in 1..MaxChunks /\ seqDispatch[q] + 1 \in 0..MaxChunks
  BY <1>1, <1>2
<1>4. seqDispatch' = IF withSeq THEN [seqDispatch EXCEPT ![q] = seqDispatch[q] + 1] ELSE seqDispatch
  BY DEF Push
<1>5. withSeq => seqDispatch'[q] = seqDispatch[q] + 1
  BY <1>1, <1>4
<1>6. NewItem(q, withSeq) \in Entries
  BY <1>3 DEF NewItem, Entries
<1>7. queue' = [queue EXCEPT ![q] = Append(@, NewItem(q, withSeq))]
  BY <1>5 DEF Push, NewItem
<1>8. /\ seqDispatch' \in [Queues -> 0..MaxChunks]
      /\ \A p \in Queues : seqDispatch'[p] <= count'
  <2>1. CASE withSeq
    BY <1>1, <1>2, <1>3, <1>4, <2>1
  <2>2. CASE ~withSeq
    BY <1>1, <1>2, <1>4, <2>2
  <2> QED
    BY <2>1, <2>2
<1> QED
  BY <1>3, <1>6, <1>7, <1>8

\* The types of what only clients change, and of what clients and the worker share.
ClientTypes ==
  /\ stopped \in BOOLEAN /\ crowded \in BOOLEAN
  /\ condOnAdd \subseteq {Worker} /\ condOnSync \subseteq Clients
  /\ pc \in [Clients -> {"idle", "waitOrdered", "waitHigh", "returned"}]
  /\ request \in [Clients -> 0..MaxChunks]

CoreTypes ==
  /\ count \in 0..MaxChunks
  /\ queue \in [Queues -> Seq(Entries)]
  /\ seqDispatch \in [Queues -> 0..MaxChunks]
  /\ hasHighPrio \in BOOLEAN
  /\ counter \in [Queues -> 0..MaxChunks]
  /\ threadPc \in {"loop", "wait", "next", "execute", "notify", "exit"}
  /\ local \in [Queues -> Seq(Entries)]
  /\ entry \in [from : Queues, item : Entries \union {NoEntry}]
  /\ executed \in Seq(1..MaxChunks)
  /\ numbered \in [Queues -> Seq(1..MaxChunks)]

LEMMA TypeSplit == TypeOK <=> CoreTypes /\ ClientTypes
  BY DEF TypeOK, CoreTypes, ClientTypes

LEMMA ClientTypesStep ==
  ASSUME TypeInv, [Next]_vars
  PROVE  ClientTypes'
<1>1. CoreTypes /\ ClientTypes /\ "ordered" \in Queues /\ "high" \in Queues
  BY TypeSplit DEF TypeInv, Queues
<1>2. ASSUME NEW t \in Clients, DispatchChunk(t) PROVE ClientTypes'
  <2>1. 0 \in 0..MaxChunks
    BY CsAssumption DEF CsAssumption
  <2> QED
    BY <1>1, <1>2, <2>1 DEF DispatchChunk, Push, WakeWorker, ClientTypes
<1>3. ASSUME NEW t \in Clients, NEW q \in Queues, InjectChunk(t, q) PROVE ClientTypes'
  BY <1>1, <1>3 DEF InjectChunk, Push, WakeWorker, ClientTypes, clientVars
<1>4. ASSUME NEW t \in Clients, InjectAndWait(t) PROVE ClientTypes'
  <2>1. seqDispatch'["high"] \in 0..MaxChunks
    BY <1>1, <1>4, NewItemIsEntry DEF InjectAndWait
  <2> QED
    BY <1>1, <1>4, <2>1 DEF InjectAndWait, Push, WakeWorker, ClientTypes
<1>5. ASSUME NEW t \in Clients, Wait(t) PROVE ClientTypes'
  BY <1>1, <1>5 DEF Wait, WaitForCounter, ClientTypes
<1>6. ASSUME NEW t \in Clients, NEW seq \in 0..seqDispatch["ordered"] \union {SynchronizeAll},
             Synchronize(t, seq)
      PROVE  ClientTypes'
  <2>1. Resolve(seq) \in 0..MaxChunks
    BY <1>1, CsAssumption, SMTT(30) DEF CoreTypes, Resolve, SynchronizeAll, CsAssumption
  <2> QED
    BY <1>1, <1>6, <2>1 DEF Synchronize, ClientTypes
<1>7. ASSUME Stop PROVE ClientTypes'
  BY <1>1, <1>7 DEF Stop, WakeWorker, ClientTypes, clientVars
<1>8. ASSUME WorkerStep PROVE ClientTypes'
  <2>1. /\ UNCHANGED <<stopped, crowded, pc, request>>
        /\ condOnAdd' \subseteq condOnAdd \union {Worker}
        /\ condOnSync' \subseteq condOnSync
    BY <1>8
    DEF WorkerStep, CheckStopped, FetchChunks, PickChunk, LeaveChunks, ExecuteChunk, Throw,
        FinishChunk, NotifyOne, clientVars
  <2> QED
    BY <1>1, <2>1 DEF ClientTypes
<1>9. ASSUME UNCHANGED vars PROVE ClientTypes'
  BY <1>1, <1>9 DEF vars, clientVars, ClientTypes
<1> QED
  BY <1>2, <1>3, <1>4, <1>5, <1>6, <1>7, <1>8, <1>9 DEF Next

\* Every step of the specification is one of these, as far as the queues go.
LEMMA QueueSteps ==
  ASSUME TypeOK, [Next]_vars
  PROVE  \/ \E q \in Queues, withSeq \in BOOLEAN : PushStep(q, withSeq)
         \/ UNCHANGED coreVars
         \/ WorkerStep
<1>1. CASE UNCHANGED vars \/ Stop
  BY <1>1, ClientSteps
<1>2. CASE WorkerStep
  BY <1>2
<1>3. CASE \E t \in Clients :
             \/ DispatchChunk(t) \/ InjectAndWait(t) \/ Wait(t)
             \/ \E q \in Queues : InjectChunk(t, q)
             \/ \E seq \in 0..seqDispatch["ordered"] \union {SynchronizeAll} : Synchronize(t, seq)
  BY <1>3, ClientSteps
<1> QED
  BY <1>1, <1>2, <1>3 DEF Next

CoreInv ==
  /\ CoreTypes /\ HandInv /\ FlagMatchesQueue
  /\ \A q \in Queues : seqDispatch[q] <= count

LEMMA TypeStep ==
  ASSUME TypeInv, [Next]_vars
  PROVE  TypeInv'
<1>1. CoreInv /\ ClientTypes' /\ "ordered" \in Queues /\ "high" \in Queues
  BY TypeSplit, ClientTypesStep DEF TypeInv, CoreInv, Queues
<1> SUFFICES CoreInv'
  BY <1>1, TypeSplit DEF TypeInv, CoreInv, TypeOK, CoreTypes, ClientTypes
<1>2. CASE UNCHANGED coreVars
  BY <1>1, <1>2
  DEF CoreInv, CoreTypes, HandInv, FlagMatchesQueue, coreVars, queueVars, workerVars
<1>3. ASSUME NEW q \in Queues, NEW withSeq \in BOOLEAN, PushStep(q, withSeq) PROVE CoreInv'
  <2>1. /\ Push(q, withSeq) /\ count' = count + 1 /\ hasHighPrio' = (hasHighPrio \/ q = "high")
        /\ UNCHANGED <<threadPc, local, entry, executed, counter>>
        /\ numbered' = IF withSeq THEN [numbered EXCEPT ![q] = Append(@, count + 1)] ELSE numbered
    BY <1>3 DEF PushStep, Push, RaiseFlag, workerVars
  <2>2. /\ NewItem(q, withSeq) \in Entries
        /\ count + 1 \in 1..MaxChunks
        /\ queue' = [queue EXCEPT ![q] = Append(@, NewItem(q, withSeq))]
        /\ seqDispatch' \in [Queues -> 0..MaxChunks]
        /\ \A p \in Queues : seqDispatch'[p] <= count'
    BY <2>1, NewItemIsEntry
  <2>3. queue' \in [Queues -> Seq(Entries)]
    BY <1>1, <2>2 DEF CoreInv, CoreTypes
  <2>4. numbered' \in [Queues -> Seq(1..MaxChunks)]
    <3>1. Append(numbered[q], count + 1) \in Seq(1..MaxChunks)
      BY <1>1, <2>2 DEF CoreInv, CoreTypes
    <3> QED
      BY <1>1, <2>1, <3>1 DEF CoreInv, CoreTypes
  <2>5. count' \in 0..MaxChunks /\ hasHighPrio' \in BOOLEAN
    BY <2>1, <2>2
  <2>6. FlagMatchesQueue'
    <3>1. CASE q = "high"
      <4>1. queue'["high"] = Append(queue["high"], NewItem(q, withSeq)) /\ hasHighPrio'
        BY <1>1, <2>1, <2>2, <3>1 DEF CoreInv, CoreTypes
      <4>2. queue["high"] \in Seq(Entries)
        BY <1>1 DEF CoreInv, CoreTypes
      <4>3. queue'["high"] # <<>>
        BY <2>2, <4>1, <4>2, AppendProperties
      <4> QED
        BY <4>1, <4>3 DEF FlagMatchesQueue
    <3>2. CASE q # "high"
      BY <1>1, <2>1, <2>2, <3>2 DEF CoreInv, CoreTypes, FlagMatchesQueue
    <3> QED
      BY <3>1, <3>2
  <2> QED
    BY <1>1, <2>1, <2>2, <2>3, <2>4, <2>5, <2>6 DEF CoreInv, CoreTypes, HandInv
<1>4. ASSUME CheckStopped \/ LeaveChunks \/ Throw PROVE CoreInv'
  <2>1. UNCHANGED <<queueVars, local, entry, executed, counter>>
    BY <1>4 DEF CheckStopped, LeaveChunks, Throw
  <2>2. HandInv' /\ threadPc' \in {"loop", "wait", "next", "execute", "notify", "exit"}
    BY <1>1, <1>4 DEF CheckStopped, LeaveChunks, Throw, CoreInv, HandInv
  <2> QED
    BY <1>1, <2>1, <2>2 DEF CoreInv, CoreTypes, FlagMatchesQueue, queueVars
<1>5. ASSUME FetchChunks PROVE CoreInv'
  <2>1. CASE UNCHANGED <<queue, hasHighPrio, threadPc, local>>
    BY <1>1, <1>5, <2>1 DEF FetchChunks, CoreInv, CoreTypes, HandInv, FlagMatchesQueue
  <2>2. CASE /\ local' = queue /\ queue' = [q \in Queues |-> <<>>]
             /\ ClearFlag /\ threadPc' = "next"
    BY <1>1, <1>5, <2>2
    DEF FetchChunks, ClearFlag, CoreInv, CoreTypes, HandInv, FlagMatchesQueue
  <2> QED
    BY <1>5, <2>1, <2>2 DEF FetchChunks
<1>6. ASSUME PickChunk PROVE CoreInv'
  <2> DEFINE hp == IF Refill(local["high"]) THEN queue["high"] ELSE local["high"]
  <2> DEFINE from == Prefer(hp)
  <2> DEFINE src == IF from = "high" THEN hp ELSE local["ordered"]
  <2>1. /\ entry' = [from |-> from, item |-> Head(src)]
        /\ local' = IF from = "high"
                      THEN [local EXCEPT !["high"] = Tail(src)]
                      ELSE [local EXCEPT !["ordered"] = Tail(src), !["high"] = hp]
        /\ threadPc' = "execute"
        /\ UNCHANGED <<count, seqDispatch, numbered, executed, counter>>
    BY <1>6 DEF PickChunk
  <2>2. hp \in Seq(Entries) /\ local["ordered"] \in Seq(Entries)
    BY <1>1 DEF CoreInv, CoreTypes
  <2>3. from \in Queues /\ src \in Seq(Entries) /\ src # <<>>
    <3>1. hp = <<>> => local["high"] = <<>>
      BY <1>1 DEF Refill, CoreInv, FlagMatchesQueue
    <3>2. local["high"] # <<>> \/ local["ordered"] # <<>>
      BY <1>6 DEF PickChunk, Queues
    <3> QED
      BY <1>1, <2>2, <3>1, <3>2 DEF Prefer
  <2>4. Head(src) \in Entries /\ Tail(src) \in Seq(Entries)
    BY <2>3, HeadTailProperties
  <2>5. local' \in [Queues -> Seq(Entries)]
    BY <1>1, <2>1, <2>2, <2>4 DEF CoreInv, CoreTypes
  <2>6. entry' \in [from : Queues, item : Entries \union {NoEntry}] /\ entry'.item \in Entries
    BY <2>1, <2>3, <2>4
  <2>7. queue' \in [Queues -> Seq(Entries)] /\ hasHighPrio' \in BOOLEAN /\ FlagMatchesQueue'
    <3>1. CASE Refill(local["high"])
      <4>1. queue' = [queue EXCEPT !["high"] = <<>>] /\ hasHighPrio' = FALSE
        BY <1>6, <3>1 DEF PickChunk, ClearFlag
      <4>2. queue' \in [Queues -> Seq(Entries)] /\ queue'["high"] = <<>>
        BY <1>1, <4>1 DEF CoreInv, CoreTypes
      <4> QED
        BY <4>1, <4>2 DEF FlagMatchesQueue
    <3>2. CASE ~Refill(local["high"])
      BY <1>1, <1>6, <3>2 DEF PickChunk, CoreInv, CoreTypes, FlagMatchesQueue
    <3> QED
      BY <3>1, <3>2
  <2> QED
    BY <1>1, <2>1, <2>5, <2>6, <2>7 DEF CoreInv, CoreTypes, HandInv
<1>7. ASSUME ExecuteChunk PROVE CoreInv'
  <2>1. entry.item.chunk \in 1..MaxChunks
    BY <1>1, <1>7 DEF ExecuteChunk, CoreInv, HandInv, Entries
  <2>2. executed' \in Seq(1..MaxChunks)
    BY <1>1, <1>7, <2>1 DEF ExecuteChunk, CoreInv, CoreTypes
  <2> QED
    BY <1>1, <1>7, <2>2
    DEF ExecuteChunk, CoreInv, CoreTypes, HandInv, FlagMatchesQueue, queueVars
<1>8. ASSUME FinishChunk PROVE CoreInv'
  <2>1. entry.item.seq \in 0..MaxChunks /\ entry.from \in Queues
    BY <1>1, <1>8 DEF FinishChunk, CoreInv, CoreTypes, HandInv, Entries
  <2>2. counter' \in [Queues -> 0..MaxChunks]
    BY <1>1, <1>8, <2>1 DEF FinishChunk, CoreInv, CoreTypes
  <2>3. entry' \in [from : Queues, item : Entries \union {NoEntry}] /\ entry'.item = NoEntry
    BY <1>1, <1>8 DEF FinishChunk, CoreInv, CoreTypes
  <2> QED
    BY <1>1, <1>8, <2>2, <2>3
    DEF FinishChunk, CoreInv, CoreTypes, HandInv, FlagMatchesQueue, queueVars
<1> QED
  BY <1>2, <1>3, <1>4, <1>5, <1>6, <1>7, <1>8, QueueSteps DEF TypeInv, WorkerStep

LEMMA TypeInvariance == Spec => []TypeInv
  BY InitTypes, TypeStep, PTL DEF Spec

\* The variables keep their types in every behaviour.
THEOREM TypeCorrect == Spec => []TypeOK
<1>1. TypeInv => TypeOK
  BY DEF TypeInv
<1> QED
  BY <1>1, TypeInvariance, PTL

\* The flag that the worker reads with no lock agrees with the queue in every
\* state, whatever clients and the worker do between.
THEOREM FlagCorrect == Spec => []FlagMatchesQueue
<1>1. TypeInv => FlagMatchesQueue
  BY DEF TypeInv
<1> QED
  BY <1>1, TypeInvariance, PTL

-----------------------------------------------------------------------------
(* The line of items of a queue *)

\* What the worker holds of a queue, as a sequence, and the line of the queue
Hand(q) ==
  IF threadPc \in {"execute", "exit"} /\ entry.item # NoEntry /\ entry.from = q
    THEN <<entry.item>>
    ELSE <<>>
Line(q) == Hand(q) \o local[q] \o queue[q]

\* An item moves from the front of a sequence to the back of the one before it.
LEMMA HeadJoins ==
  ASSUME NEW S, NEW s \in Seq(S), s # <<>>
  PROVE  <<Head(s)>> \in Seq(S) /\ <<Head(s)>> \o Tail(s) = s
<1>1. /\ Len(s) \in Nat /\ Len(s) >= 1 /\ 1 \in 1..Len(s) /\ Len(s) \in 1..Len(s)
      /\ Head(s) = s[1] /\ Head(s) \in S
  BY HeadTailProperties, EmptySeq
<1>2. SubSeq(s, 1, Len(s)) = <<s[1]>> \o SubSeq(s, 1 + 1, Len(s))
  BY <1>1, SubSeqRecursiveFirst
<1>3. SubSeq(s, 1, Len(s)) = s /\ Tail(s) = SubSeq(s, 2, Len(s)) /\ 1 + 1 = 2
  BY SubSeqFull, TailIsSubSeq
<1> QED
  BY <1>1, <1>2, <1>3

\* An item before a sequence is its head.
LEMMA ConsOf ==
  ASSUME NEW S, NEW x \in S, NEW s \in Seq(S)
  PROVE  /\ <<x>> \o s \in Seq(S) /\ <<x>> \o s # <<>>
         /\ Head(<<x>> \o s) = x /\ Tail(<<x>> \o s) = s
<1> DEFINE h == <<x>>
<1>1. h \in Seq(S) /\ Len(h) = 1 /\ h[1] = x
  OBVIOUS
<1> HIDE DEF h
<1>2. /\ h \o s \in Seq(S) /\ Len(h \o s) = 1 + Len(s) /\ Len(s) \in Nat
      /\ \A i \in 1..(1 + Len(s)) : (h \o s)[i] = IF i <= 1 THEN x ELSE s[i - 1]
  BY <1>1, ConcatProperties, LenProperties
<1>3. h \o s # <<>>
  BY <1>2, EmptySeq
<1>4. /\ Head(h \o s) = (h \o s)[1] /\ Tail(h \o s) \in Seq(S) /\ Len(Tail(h \o s)) = Len(s)
      /\ \A i \in 1..Len(s) : Tail(h \o s)[i] = (h \o s)[i + 1]
  BY <1>2, <1>3, HeadTailProperties
<1>5. \A i \in 1..Len(s) : Tail(h \o s)[i] = s[i]
  BY <1>2, <1>4
<1>6. Tail(h \o s) = s
  BY <1>4, <1>5, SeqEqual
<1> QED
  BY <1>2, <1>3, <1>4, <1>6 DEF h

LEMMA AppendJoins ==
  ASSUME NEW S, NEW s \in Seq(S), NEW t \in Seq(S), NEW x \in S
  PROVE  s \o Append(t, x) = Append(s \o t, x)
<1>1. <<x>> \in Seq(S) /\ s \o t \in Seq(S)
  BY ConcatProperties
<1>2. Append(t, x) = t \o <<x>> /\ Append(s \o t, x) = (s \o t) \o <<x>>
  BY <1>1, AppendIsConcat
<1>3. (s \o t) \o <<x>> = s \o (t \o <<x>>)
  BY <1>1, ConcatAssociative
<1> QED
  BY <1>2, <1>3

LEMMA AppendLine ==
  \A s, t \in Seq(Entries), x \in Entries : s \o Append(t, x) = Append(s \o t, x)
  BY AppendJoins

LEMMA ConsLine ==
  ASSUME NEW x \in Entries, NEW s \in Seq(Entries), NEW t \in Seq(Entries)
  PROVE  /\ (<<x>> \o s) \o t # <<>>
         /\ Head((<<x>> \o s) \o t) = x /\ Tail((<<x>> \o s) \o t) = s \o t
<1> DEFINE h == <<x>>
<1>1. h \in Seq(Entries)
  OBVIOUS
<1>2. s \o t \in Seq(Entries)
  BY ConcatProperties
<1> DEFINE st == s \o t
<1>3. h \o st # <<>> /\ Head(h \o st) = x /\ Tail(h \o st) = st
  <2> HIDE DEF st
  <2> QED
    BY <1>2, ConsOf DEF st
<1> HIDE DEF h
<1>4. (h \o s) \o t = h \o st
  BY <1>1, ConcatAssociative
<1> QED
  BY <1>3, <1>4 DEF h

LEMMA EntryIsNotNone == \A e \in Entries : e # NoEntry
  BY DEF Entries, NoEntry

LEMMA ItemsType ==
  ASSUME TypeOK, NEW q \in Queues
  PROVE  /\ Hand(q) \in Seq(Entries) /\ local[q] \in Seq(Entries) /\ queue[q] \in Seq(Entries)
         /\ Hand(q) \o local[q] \in Seq(Entries)
         /\ Line(q) \in Seq(Entries)
<1>1. /\ local[q] \in Seq(Entries) /\ queue[q] \in Seq(Entries)
      /\ entry.item \in Entries \union {NoEntry}
  BY DEF TypeOK
<1>2. Hand(q) \in Seq(Entries)
  BY <1>1 DEF Hand
<1>3. Hand(q) \o local[q] \in Seq(Entries)
  BY <1>1, <1>2, ConcatProperties
<1>4. Line(q) \in Seq(Entries)
  BY <1>1, <1>3, ConcatProperties DEF Line
<1> QED
  BY <1>1, <1>2, <1>3, <1>4

\* Clients append.
LEMMA PushItems ==
  ASSUME TypeInv, NEW q \in Queues, NEW withSeq \in BOOLEAN, PushStep(q, withSeq)
  PROVE  /\ Line(q)' = Append(Line(q), NewItem(q, withSeq))
         /\ \A p \in Queues \ {q} : Line(p)' = Line(p)
<1>1. /\ NewItem(q, withSeq) \in Entries
      /\ queue' = [queue EXCEPT ![q] = Append(@, NewItem(q, withSeq))]
      /\ UNCHANGED <<threadPc, entry, local>>
  BY NewItemIsEntry DEF PushStep, workerVars
<1>2. \A p \in Queues : Hand(p)' = Hand(p)
  BY <1>1 DEF Hand
<1>3. queue \in [Queues -> Seq(Entries)] /\ TypeOK
  BY DEF TypeInv, TypeOK
<1>4. Line(q)' = Append(Line(q), NewItem(q, withSeq))
  <2>1. Line(q)' = (Hand(q) \o local[q]) \o Append(queue[q], NewItem(q, withSeq))
    BY <1>1, <1>2, <1>3 DEF Line
  <2>2. queue[q] \in Seq(Entries) /\ Hand(q) \o local[q] \in Seq(Entries)
    BY <1>3, ItemsType
  <2>3. (Hand(q) \o local[q]) \o Append(queue[q], NewItem(q, withSeq))
          = Append((Hand(q) \o local[q]) \o queue[q], NewItem(q, withSeq))
    BY <1>1, <2>2, AppendLine
  <2> QED
    BY <2>1, <2>3 DEF Line
<1>5. ASSUME NEW p \in Queues \ {q} PROVE Line(p)' = Line(p)
  BY <1>1, <1>2, <1>3 DEF Line
<1> QED
  BY <1>4, <1>5

\* The swap of the queues with the empty local ones leaves the line as it is.
LEMMA SwapItems ==
  ASSUME TypeInv, FetchChunks, NEW q \in Queues
  PROVE  Line(q)' = Line(q)
<1>1. /\ queue \in [Queues -> Seq(Entries)] /\ TypeOK /\ local[q] = <<>> /\ queue[q] \in Seq(Entries)
      /\ entry' = entry /\ entry.item = NoEntry
  BY DEF TypeInv, TypeOK, HandInv, FetchChunks
<1>2. Hand(q) = <<>> /\ Hand(q)' = <<>>
  BY <1>1 DEF Hand
<1>3. CASE UNCHANGED <<queue, local>>
  BY <1>2, <1>3 DEF Line
<1>4. CASE local' = queue /\ queue' = [p \in Queues |-> <<>>]
  <2>1. Line(q)' = (<<>> \o queue[q]) \o <<>> /\ Line(q) = (<<>> \o <<>>) \o queue[q]
    BY <1>1, <1>2, <1>4 DEF Line
  <2>2. <<>> \o <<>> = <<>> /\ <<>> \o queue[q] = queue[q] /\ queue[q] \o <<>> = queue[q]
    BY <1>1, ConcatEmptySeq, EmptySeq
  <2> QED
    BY <2>1, <2>2
<1> QED
  BY <1>3, <1>4 DEF FetchChunks

\* So do the refill of the high-priority queue and the pick of the next chunk.
LEMMA PickItems ==
  ASSUME TypeInv, PickChunk, NEW q \in Queues
  PROVE  Line(q)' = Line(q)
<1> DEFINE hp == IF Refill(local["high"]) THEN queue["high"] ELSE local["high"]
<1> DEFINE from == Prefer(hp)
<1> DEFINE src == IF from = "high" THEN hp ELSE local["ordered"]
<1>1. /\ entry' = [from |-> from, item |-> Head(src)]
      /\ local' = IF from = "high"
                    THEN [local EXCEPT !["high"] = Tail(src)]
                    ELSE [local EXCEPT !["ordered"] = Tail(src), !["high"] = hp]
      /\ threadPc' = "execute" /\ entry.item = NoEntry
      /\ queue' = IF Refill(local["high"]) THEN [queue EXCEPT !["high"] = <<>>] ELSE queue
  BY DEF PickChunk, TypeInv, HandInv
<1>2. /\ queue \in [Queues -> Seq(Entries)] /\ local \in [Queues -> Seq(Entries)] /\ TypeOK
      /\ "high" \in Queues /\ "ordered" \in Queues /\ Queues = {"ordered", "high"}
      /\ local["ordered"] \in Seq(Entries) /\ local["high"] \in Seq(Entries)
      /\ queue["ordered"] \in Seq(Entries) /\ queue["high"] \in Seq(Entries)
  BY DEF TypeInv, TypeOK, Queues
<1>3. hp \in Seq(Entries) /\ src \in Seq(Entries) /\ src # <<>>
  <2>1. hp \in Seq(Entries) /\ src \in Seq(Entries)
    BY <1>2
  <2>2. hp = <<>> => local["ordered"] # <<>>
    BY <1>2 DEF PickChunk, Refill, TypeInv, FlagMatchesQueue
  <2> QED
    BY <2>1, <2>2 DEF Prefer
<1>4. Head(src) \in Entries /\ Tail(src) \in Seq(Entries) /\ Head(src) # NoEntry
  BY <1>3, HeadTailProperties, EntryIsNotNone
<1>5. /\ Hand(q) = <<>>
      /\ Hand(q)' = IF q = from THEN <<Head(src)>> ELSE <<>>
  <2>1. threadPc' \in {"execute", "exit"} /\ entry'.item = Head(src) /\ entry'.from = from
    BY <1>1
  <2> QED
    BY <1>1, <1>4, <2>1 DEF Hand
\* What the refill has done, before the pick
<1> DEFINE rest == IF q = "high" /\ Refill(local["high"]) THEN <<>> ELSE queue[q]
<1> DEFINE mine == IF q = "high" THEN hp ELSE local["ordered"]
<1>6. queue'[q] = rest /\ rest \in Seq(Entries) /\ mine \in Seq(Entries)
  BY <1>1, <1>2, <1>3
<1>7. Line(q) = mine \o rest
  <2>1. Line(q) = local[q] \o queue[q]
    BY <1>2, <1>5, ConcatEmptySeq DEF Line
  <2>2. CASE q = "high" /\ Refill(local["high"])
    BY <1>2, <2>1, <2>2, ConcatEmptySeq DEF Refill
  <2>3. CASE ~(q = "high" /\ Refill(local["high"]))
    BY <1>2, <2>1, <2>3
  <2> QED
    BY <2>2, <2>3
<1>8. Line(q)' = (Hand(q)' \o local'[q]) \o rest
  BY <1>6 DEF Line
<1>9. CASE q = from
  <2>1. mine = src /\ local'[q] = Tail(src)
    BY <1>1, <1>2, <1>9
  <2>2. Hand(q)' \o local'[q] = <<Head(src)>> \o Tail(src)
    BY <1>5, <1>9, <2>1
  <2>3. <<Head(src)>> \o Tail(src) = src
    BY <1>3, HeadJoins
  <2>4. Line(q)' = src \o rest
    BY <1>8, <2>2, <2>3
  <2> HIDE DEF hp, from, src, rest, mine
  <2> QED
    BY <1>7, <2>1, <2>4
<1>10. CASE q # from
  <2>1. local'[q] = mine
    <3>1. CASE q = "high"
      BY <1>1, <1>2, <1>10, <3>1 DEF Prefer
    <3>2. CASE q = "ordered"
      BY <1>1, <1>2, <1>10, <3>2 DEF Prefer
    <3> QED
      BY <1>2, <3>1, <3>2
  <2>2. Hand(q)' \o local'[q] = mine
    BY <1>5, <1>6, <1>10, <2>1, ConcatEmptySeq
  <2> QED
    BY <1>7, <1>8, <2>2
<1> QED
  BY <1>9, <1>10

\* The chunk that is to be executed is the head of its line.
LEMMA HandIsHead ==
  ASSUME TypeInv, threadPc = "execute", NEW q \in Queues, q = entry.from
  PROVE  /\ Line(q) # <<>> /\ Head(Line(q)) = entry.item
         /\ Tail(Line(q)) = local[q] \o queue[q]
<1>1. entry.item \in Entries /\ TypeOK
  BY DEF TypeInv, HandInv
<1>2. Hand(q) = <<entry.item>>
  BY <1>1, EntryIsNotNone DEF Hand
<1>3. /\ Line(q) = (<<entry.item>> \o local[q]) \o queue[q]
      /\ local[q] \in Seq(Entries) /\ queue[q] \in Seq(Entries)
  BY <1>1, <1>2, ItemsType DEF Line
<1>4. /\ (<<entry.item>> \o local[q]) \o queue[q] # <<>>
      /\ Head((<<entry.item>> \o local[q]) \o queue[q]) = entry.item
      /\ Tail((<<entry.item>> \o local[q]) \o queue[q]) = local[q] \o queue[q]
  <2> DEFINE x == entry.item
             s == local[q]
             t == queue[q]
  <2>1. x \in Entries /\ s \in Seq(Entries) /\ t \in Seq(Entries)
    BY <1>1, <1>3
  <2> HIDE DEF x, s, t
  <2>2. /\ (<<x>> \o s) \o t # <<>>
        /\ Head((<<x>> \o s) \o t) = x /\ Tail((<<x>> \o s) \o t) = s \o t
    BY <2>1, ConsLine
  <2> QED
    BY <2>2 DEF x, s, t
<1> QED
  BY <1>3, <1>4

\* Executing a chunk removes the head of the line.
LEMMA ExecuteItems ==
  ASSUME TypeInv, ExecuteChunk
  PROVE  /\ entry.from \in Queues /\ entry.item \in Entries
         /\ \A q \in Queues :
              /\ q = entry.from =>
                   Line(q) # <<>> /\ Head(Line(q)) = entry.item /\ Line(q)' = Tail(Line(q))
              /\ q # entry.from => Line(q)' = Line(q)
<1>1. /\ entry.from \in Queues /\ entry.item \in Entries /\ TypeOK
      /\ threadPc = "execute" /\ threadPc' = "notify" /\ UNCHANGED <<entry, local, queue>>
  BY DEF ExecuteChunk, TypeInv, TypeOK, HandInv, queueVars
<1>2. ASSUME NEW q \in Queues, q # entry.from PROVE Line(q)' = Line(q)
  <2>1. Hand(q) = <<>> /\ Hand(q)' = <<>>
    BY <1>1, <1>2 DEF Hand
  <2> QED
    BY <1>1, <2>1 DEF Line
<1>3. ASSUME NEW q \in Queues, q = entry.from
      PROVE  Line(q) # <<>> /\ Head(Line(q)) = entry.item /\ Line(q)' = Tail(Line(q))
  <2>1. Hand(q)' = <<>> /\ local[q] \in Seq(Entries) /\ queue[q] \in Seq(Entries)
    BY <1>1, ItemsType DEF Hand
  <2>2. Line(q)' = (<<>> \o local[q]) \o queue[q]
    BY <1>1, <2>1 DEF Line
  <2>3. Line(q)' = local[q] \o queue[q]
    BY <2>1, <2>2, ConcatEmptySeq
  <2> QED
    BY <1>1, <1>3, <2>3, HandIsHead
<1> QED
  BY <1>1, <1>2, <1>3

-----------------------------------------------------------------------------
(* Sequence numbers *)

\* The last sequence number of a queue whose chunk has been executed; when the worker
\* is about to notify, that number has not been published yet.
Done(q) ==
  IF threadPc = "notify" /\ entry.from = q /\ entry.item.seq # 0
    THEN entry.item.seq
    ELSE counter[q]

\* The numbers of a queue are handed out without a gap ...
Bounds(q) ==
  /\ Len(numbered[q]) = seqDispatch[q]
  /\ counter[q] <= Done(q) /\ Done(q) <= seqDispatch[q]

\* ... those up to Done have been executed ...
Executed(q) == \A n \in 1..Done(q) : numbered[q][n] \in Range(executed)

\* ... the others are on the line, in their order ...
Unexecuted(q) ==
  \A n \in (Done(q) + 1)..seqDispatch[q] : \E i \in 1..Len(Line(q)) : Line(q)[i].seq = n
Increasing(q) ==
  \A i, j \in 1..Len(Line(q)) :
    i < j /\ Line(q)[i].seq # 0 /\ Line(q)[j].seq # 0 => Line(q)[i].seq < Line(q)[j].seq

\* ... and an item bears the number that was handed out for its chunk.
Labelled(q) ==
  \A i \in 1..Len(Line(q)) :
    Line(q)[i].seq # 0 =>
      /\ Line(q)[i].seq > Done(q) /\ Line(q)[i].seq <= seqDispatch[q]
      /\ numbered[q][Line(q)[i].seq] = Line(q)[i].chunk

Numbers(q) == Bounds(q) /\ Executed(q) /\ Unexecuted(q) /\ Increasing(q) /\ Labelled(q)

NumbersInv == TypeInv /\ \A q \in Queues : Numbers(q)

\* Steps that only move items along the lines, or publish what has been executed.
MoveStep ==
  /\ UNCHANGED <<count, seqDispatch, numbered, executed>>
  /\ \A q \in Queues :
       /\ Line(q)' = Line(q) /\ Done(q)' = Done(q)
       /\ counter'[q] \in {counter[q], Done(q)}

\* Every step of the specification is one of these, as far as the lines go.
LEMMA CoreSteps ==
  ASSUME TypeInv, [Next]_vars
  PROVE  \/ \E q \in Queues, withSeq \in BOOLEAN : PushStep(q, withSeq)
         \/ ExecuteChunk
         \/ MoveStep
<1>1. TypeOK /\ counter \in [Queues -> 0..MaxChunks] /\ entry.from \in Queues
  BY DEF TypeInv, TypeOK
<1>2. CASE UNCHANGED coreVars
  BY <1>2 DEF coreVars, queueVars, workerVars, MoveStep, Line, Hand, Done
<1>3. CASE FetchChunks
  <2>1. \A q \in Queues : Line(q)' = Line(q)
    BY <1>3, SwapItems
  <2>2. \A q \in Queues : Done(q)' = Done(q)
    BY <1>3 DEF FetchChunks, Done
  <2> QED
    BY <1>3, <2>1, <2>2 DEF FetchChunks, MoveStep
<1>4. CASE PickChunk
  <2>1. \A q \in Queues : Line(q)' = Line(q)
    BY <1>4, PickItems
  <2>2. \A q \in Queues : Done(q)' = Done(q)
    BY <1>4 DEF PickChunk, Done
  <2> QED
    BY <1>4, <2>1, <2>2 DEF PickChunk, MoveStep
<1>5. CASE CheckStopped \/ LeaveChunks \/ Throw
  <2>1. /\ UNCHANGED <<queueVars, local, entry, executed, counter>>
        /\ threadPc # "notify" /\ threadPc' # "notify"
    BY <1>5 DEF CheckStopped, LeaveChunks, Throw
  <2>2. ASSUME NEW q \in Queues PROVE Hand(q)' = Hand(q)
    BY <1>5, <2>1 DEF CheckStopped, LeaveChunks, Throw, TypeInv, HandInv, Hand
  <2> QED
    BY <2>1, <2>2 DEF queueVars, MoveStep, Line, Done
<1>6. CASE FinishChunk
  <2>1. /\ threadPc = "notify" /\ threadPc' = "next" /\ entry'.from = entry.from
        /\ entry'.item = NoEntry
        /\ counter' = IF entry.item.seq # 0
                        THEN [counter EXCEPT ![entry.from] = entry.item.seq] ELSE counter
        /\ UNCHANGED <<queueVars, local, executed>>
    BY <1>1, <1>6 DEF FinishChunk, TypeOK
  <2>2. ASSUME NEW q \in Queues PROVE Done(q)' = Done(q) /\ counter'[q] = Done(q)
    BY <1>1, <2>1 DEF Done
  <2>3. ASSUME NEW q \in Queues PROVE Hand(q) = <<>> /\ Hand(q)' = <<>>
    BY <2>1 DEF Hand
  <2> QED
    BY <2>1, <2>2, <2>3 DEF queueVars, MoveStep, Line
<1> QED
  BY <1>1, <1>2, <1>3, <1>4, <1>5, <1>6, QueueSteps DEF WorkerStep

\* The types that the arithmetic on the line of a queue needs.
LEMMA LineTypes ==
  ASSUME TypeInv, NEW q \in Queues
  PROVE  /\ Line(q) \in Seq(Entries) /\ Len(Line(q)) \in Nat
         /\ \A i \in 1..Len(Line(q)) :
              Line(q)[i] \in Entries /\ Line(q)[i].seq \in Nat /\ Line(q)[i].chunk \in 1..MaxChunks
         /\ seqDispatch[q] \in Nat /\ counter[q] \in Nat /\ Done(q) \in Nat /\ count \in Nat
         /\ numbered[q] \in Seq(1..MaxChunks) /\ executed \in Seq(1..MaxChunks)
<1> USE CsAssumption DEF CsAssumption
<1>1. TypeOK /\ HandInv
  BY DEF TypeInv
<1>2. Line(q) \in Seq(Entries) /\ Len(Line(q)) \in Nat
  BY <1>1, ItemsType, LenProperties
<1>3. \A i \in 1..Len(Line(q)) : Line(q)[i] \in Entries
  BY <1>2, ElementOfSeq
<1>4. \A e \in Entries : e.seq \in Nat /\ e.chunk \in 1..MaxChunks
  BY DEF Entries
<1>5. /\ seqDispatch[q] \in Nat /\ counter[q] \in Nat /\ count \in Nat
      /\ numbered[q] \in Seq(1..MaxChunks) /\ executed \in Seq(1..MaxChunks)
  BY <1>1 DEF TypeOK
<1>6. Done(q) \in Nat
  BY <1>1, <1>4, <1>5 DEF Done, HandInv
<1> QED
  BY <1>2, <1>3, <1>4, <1>5, <1>6

LEMMA InitNumbers == Init => NumbersInv
<1> SUFFICES ASSUME Init, NEW q \in Queues PROVE Numbers(q)
  BY InitTypes DEF NumbersInv
<1>1. TypeInv
  BY InitTypes
<1>2. Line(q) = <<>> /\ Len(Line(q)) = 0
  <2>1. Line(q) = (<<>> \o <<>>) \o <<>>
    BY DEF Init, Line, Hand
  <2>2. \A s \in Seq(Entries) : s \o <<>> = s
    BY ConcatEmptySeq
  <2> QED
    BY <2>1, <2>2
<1>3. Done(q) = 0 /\ seqDispatch[q] = 0 /\ counter[q] = 0 /\ Len(numbered[q]) = 0
  BY DEF Init, Done
<1> QED
  BY <1>2, <1>3 DEF Numbers, Bounds, Executed, Unexecuted, Increasing, Labelled

\* What has been executed stays executed.
LEMMA ExecutedGrows ==
  ASSUME TypeInv, TypeInv', [Next]_vars
  PROVE  /\ Range(executed) \subseteq Range(executed')
         /\ ExecuteChunk => entry.item.chunk \in Range(executed')
<1>1. executed \in Seq(1..MaxChunks) /\ executed' \in Seq(1..MaxChunks)
  BY DEF TypeInv, TypeOK
<1>2. /\ \A x : x \in Range(executed) <=> \E k \in 1..Len(executed) : x = executed[k]
      /\ \A x : x \in Range(executed') <=> \E k \in 1..Len(executed') : x = executed'[k]
  BY <1>1 DEF Range
<1>3. CASE UNCHANGED executed /\ ~ExecuteChunk
  BY <1>3
<1>4. CASE ExecuteChunk
  <2>1. executed' = Append(executed, entry.item.chunk) /\ entry.item.chunk \in 1..MaxChunks
    BY <1>4 DEF ExecuteChunk, TypeInv, HandInv, Entries
  <2>2. /\ Len(executed) \in Nat /\ Len(executed') = Len(executed) + 1
        /\ \A k \in 1..Len(executed) : executed'[k] = executed[k]
        /\ executed'[Len(executed) + 1] = entry.item.chunk
    BY <1>1, <2>1, AppendProperties, LenProperties
  <2>3. /\ Len(executed) + 1 \in 1..Len(executed')
        /\ \A k \in 1..Len(executed) : k \in 1..Len(executed')
    BY <2>2
  <2> QED
    BY <1>2, <2>2, <2>3
<1> QED
  BY <1>3, <1>4, CoreSteps DEF PushStep, MoveStep, workerVars, ExecuteChunk

\* A new chunk gets the next number, at the end of the line.
LEMMA PushNumbers ==
  ASSUME NumbersInv, TypeInv', NEW q \in Queues, NEW withSeq \in BOOLEAN, PushStep(q, withSeq)
  PROVE  Numbers(q)' /\ \A p \in Queues \ {q} : Numbers(p)'
<1>1. TypeInv /\ Numbers(q)
  BY DEF NumbersInv
<1>2. /\ UNCHANGED <<threadPc, entry, counter, executed>>
      /\ NewItem(q, withSeq) \in Entries
      /\ Line(q)' = Append(Line(q), NewItem(q, withSeq))
      /\ \A p \in Queues \ {q} : Line(p)' = Line(p)
      /\ \A p \in Queues : Done(p)' = Done(p)
  BY <1>1, NewItemIsEntry, PushItems DEF PushStep, workerVars, Done
<1>3. /\ seqDispatch \in [Queues -> 0..MaxChunks]
      /\ numbered \in [Queues -> Seq(1..MaxChunks)]
      /\ seqDispatch' = IF withSeq THEN [seqDispatch EXCEPT ![q] = @ + 1] ELSE seqDispatch
      /\ numbered' = IF withSeq THEN [numbered EXCEPT ![q] = Append(@, count + 1)] ELSE numbered
      /\ count + 1 \in 1..MaxChunks
  BY <1>1, NewItemIsEntry DEF PushStep, Push, TypeInv, TypeOK
<1>4. ASSUME NEW p \in Queues \ {q} PROVE Numbers(p)'
  <2>1. seqDispatch'[p] = seqDispatch[p] /\ numbered'[p] = numbered[p]
    BY <1>3
  <2>2. Numbers(p)
    BY DEF NumbersInv
  <2> QED
    BY <1>2, <2>1, <2>2 DEF Numbers, Bounds, Executed, Unexecuted, Increasing, Labelled
<1> DEFINE s == Line(q)
<1> DEFINE x == NewItem(q, withSeq)
<1> DEFINE d == seqDispatch[q]
<1>5. /\ s \in Seq(Entries) /\ Len(s) \in Nat
      /\ \A i \in 1..Len(s) : s[i] \in Entries /\ s[i].seq \in Nat /\ s[i].chunk \in 1..MaxChunks
      /\ d \in Nat /\ counter[q] \in Nat /\ Done(q) \in Nat
      /\ numbered[q] \in Seq(1..MaxChunks)
  BY <1>1, LineTypes
<1>6. /\ Len(Line(q)') = Len(s) + 1
      /\ \A i \in 1..Len(s) : Line(q)'[i] = s[i]
      /\ Line(q)'[Len(s) + 1] = x
  BY <1>2, <1>5, AppendProperties
<1>7. x.chunk = count + 1 /\ x.seq = IF withSeq THEN d + 1 ELSE 0
  BY DEF NewItem
<1>8. seqDispatch'[q] = IF withSeq THEN d + 1 ELSE d
  BY <1>3
<1>9. /\ Len(numbered'[q]) = seqDispatch'[q]
      /\ \A n \in 1..d : numbered'[q][n] = numbered[q][n]
      /\ withSeq => numbered'[q][d + 1] = count + 1
  <2>1. Len(numbered[q]) = d
    BY <1>1 DEF Numbers, Bounds
  <2>2. CASE withSeq
    <3>1. numbered'[q] = Append(numbered[q], count + 1)
      BY <1>3, <2>2
    <3> QED
      BY <1>3, <1>5, <1>8, <2>1, <2>2, <3>1, AppendProperties
  <2>3. CASE ~withSeq
    BY <1>3, <1>8, <2>1, <2>3
  <2> QED
    BY <2>2, <2>3
<1>10. Bounds(q)'
  BY <1>1, <1>2, <1>5, <1>8, <1>9 DEF Numbers, Bounds
<1>11. Executed(q)'
  BY <1>1, <1>2, <1>5, <1>9 DEF Numbers, Bounds, Executed
<1> HIDE DEF s, x, d
<1>12. Unexecuted(q)'
  <2> SUFFICES ASSUME NEW n \in (Done(q)' + 1)..seqDispatch'[q]
               PROVE  \E i \in 1..Len(Line(q)') : Line(q)'[i].seq = n
    BY DEF Unexecuted
  <2>1. CASE n \in (Done(q) + 1)..d
    <3>1. PICK i \in 1..Len(s) : s[i].seq = n
      BY <1>1, <2>1 DEF Numbers, Unexecuted, s, d
    <3>2. i \in 1..Len(Line(q)') /\ Line(q)'[i].seq = n
      BY <1>5, <1>6, <3>1, SMTT(30)
    <3> QED
      BY <3>2
  <2>2. CASE n \notin (Done(q) + 1)..d
    <3>1. withSeq /\ n = d + 1
      BY <1>2, <1>5, <1>8, <2>2
    <3>2. Len(s) + 1 \in 1..Len(Line(q)') /\ Line(q)'[Len(s) + 1].seq = n
      BY <1>5, <1>6, <1>7, <3>1
    <3> QED
      BY <3>2
  <2> QED
    BY <2>1, <2>2
<1>13. \A i \in 1..Len(s) : s[i].seq # 0 => /\ s[i].seq > Done(q) /\ s[i].seq <= d
                                            /\ numbered[q][s[i].seq] = s[i].chunk
  BY <1>1 DEF Numbers, Labelled, s, d
<1>14. Increasing(q)'
  <2> SUFFICES ASSUME NEW i \in 1..Len(Line(q)'), NEW j \in 1..Len(Line(q)'),
                      i < j, Line(q)'[i].seq # 0, Line(q)'[j].seq # 0
               PROVE  Line(q)'[i].seq < Line(q)'[j].seq
    BY DEF Increasing
  <2>1. i \in 1..Len(s) /\ Line(q)'[i] = s[i] /\ j \in 1..(Len(s) + 1)
    BY <1>5, <1>6
  <2>2. CASE j \in 1..Len(s)
    <3>1. Line(q)'[j] = s[j]
      BY <1>6, <2>2
    <3> QED
      BY <1>1, <2>1, <2>2, <3>1 DEF Numbers, Increasing, s
  <2>3. CASE j = Len(s) + 1
    <3>1. Line(q)'[j].seq = x.seq /\ x.seq = d + 1
      BY <1>6, <1>7, <2>3
    <3>2. Line(q)'[i].seq = s[i].seq /\ s[i].seq <= d
      BY <1>13, <2>1
    <3>3. s[i].seq \in Nat
      BY <1>5, <2>1
    <3> QED
      BY <1>5, <3>1, <3>2, <3>3
  <2>4. j \in 1..Len(s) \/ j = Len(s) + 1
    <3>1. Len(s) \in Nat
      BY <1>5
    <3> QED
      BY <2>1, <3>1
  <2> QED
    BY <2>2, <2>3, <2>4
<1>15. Labelled(q)'
  <2> SUFFICES ASSUME NEW i \in 1..Len(Line(q)'), Line(q)'[i].seq # 0
               PROVE  /\ Line(q)'[i].seq > Done(q)' /\ Line(q)'[i].seq <= seqDispatch'[q]
                      /\ numbered'[q][Line(q)'[i].seq] = Line(q)'[i].chunk
    BY DEF Labelled
  <2>0. Done(q)' = Done(q) /\ (i \in 1..Len(s) \/ i = Len(s) + 1)
    BY <1>2, <1>5, <1>6
  <2>1. CASE i \in 1..Len(s)
    <3>0. Line(q)'[i] = s[i] /\ s[i].seq \in Nat /\ s[i].seq # 0
      BY <1>5, <1>6, <2>1
    <3>1. Line(q)'[i] = s[i] /\ s[i].seq \in 1..d /\ s[i].seq > Done(q)
      <4>1. s[i].seq <= d /\ s[i].seq > Done(q)
        BY <1>13, <2>1, <3>0
      <4> QED
        BY <1>5, <3>0, <4>1
    <3>2. numbered'[q][s[i].seq] = s[i].chunk
      BY <1>9, <1>13, <2>1, <3>1
    <3>3. s[i].seq <= seqDispatch'[q]
      BY <1>5, <1>8, <2>1, <3>1
    <3> QED
      BY <2>0, <3>1, <3>2, <3>3
  <2>2. CASE i = Len(s) + 1
    <3>1. Line(q)'[i] = x /\ withSeq /\ Done(q) <= d
      BY <1>1, <1>6, <1>7, <2>2 DEF Numbers, Bounds, d
    <3>2. x.seq = d + 1 /\ x.chunk = count + 1 /\ seqDispatch'[q] = d + 1
      BY <1>7, <1>8, <3>1
    <3>3. x.seq > Done(q) /\ x.seq <= seqDispatch'[q]
      BY <1>5, <3>1, <3>2
    <3>4. numbered'[q][x.seq] = x.chunk
      BY <1>9, <3>1, <3>2
    <3> QED
      BY <2>0, <3>1, <3>3, <3>4
  <2> QED
    BY <2>0, <2>1, <2>2
<1> QED
  BY <1>4, <1>10, <1>11, <1>12, <1>14, <1>15 DEF Numbers

\* The chunk at the head of the line bears the next number, or none.
LEMMA ExecuteNumbers ==
  ASSUME NumbersInv, TypeInv', [Next]_vars, ExecuteChunk, NEW q \in Queues
  PROVE  Numbers(q)'
<1>1. TypeInv /\ Numbers(q)
  BY DEF NumbersInv
<1>2. /\ entry.from \in Queues /\ entry.item \in Entries
      /\ UNCHANGED <<entry, counter, count, seqDispatch, numbered>>
      /\ threadPc = "execute" /\ threadPc' = "notify"
      /\ Range(executed) \subseteq Range(executed') /\ entry.item.chunk \in Range(executed')
  BY <1>1, ExecuteItems, ExecutedGrows DEF ExecuteChunk, queueVars
<1>3. Done(q) = counter[q]
  BY <1>2 DEF Done
<1>4. CASE q # entry.from
  <2>1. Line(q)' = Line(q) /\ Done(q)' = Done(q)
    BY <1>1, <1>2, <1>3, <1>4, ExecuteItems DEF Done
  <2> QED
    BY <1>1, <1>2, <2>1 DEF Numbers, Bounds, Executed, Unexecuted, Increasing, Labelled
<1>5. CASE q = entry.from
  <2> DEFINE s == Line(q)
  <2> DEFINE d == seqDispatch[q]
  <2>1. /\ s \in Seq(Entries) /\ Len(s) \in Nat
        /\ \A i \in 1..Len(s) : s[i] \in Entries /\ s[i].seq \in Nat /\ s[i].chunk \in 1..MaxChunks
        /\ d \in Nat /\ counter[q] \in Nat
    BY <1>1, LineTypes
  <2>2. s # <<>> /\ Head(s) = entry.item /\ Line(q)' = Tail(s)
    BY <1>1, <1>5, ExecuteItems
  <2>3. /\ Len(s) >= 1 /\ 1 \in 1..Len(s) /\ s[1] = entry.item
        /\ Len(Line(q)') = Len(s) - 1
        /\ \A i \in 1..(Len(s) - 1) : Line(q)'[i] = s[i + 1]
    BY <2>1, <2>2, HeadTailProperties, EmptySeq
  <2>4. Done(q)' = IF entry.item.seq # 0 THEN entry.item.seq ELSE counter[q]
    BY <1>2, <1>5 DEF Done
  <2> HIDE DEF s, d
  <2>5. /\ \A i \in 1..Len(s) : s[i].seq # 0 =>
             /\ s[i].seq > counter[q] /\ s[i].seq <= d /\ numbered[q][s[i].seq] = s[i].chunk
        /\ \A i, j \in 1..Len(s) : i < j /\ s[i].seq # 0 /\ s[j].seq # 0 => s[i].seq < s[j].seq
        /\ \A n \in (counter[q] + 1)..d : \E i \in 1..Len(s) : s[i].seq = n
        /\ \A n \in 1..counter[q] : numbered[q][n] \in Range(executed)
        /\ Len(numbered[q]) = d /\ counter[q] <= d
    BY <1>1, <1>3 DEF Numbers, Bounds, Executed, Unexecuted, Increasing, Labelled, s, d
  <2>6. Bounds(q)'
    BY <1>2, <2>1, <2>3, <2>4, <2>5 DEF Bounds, d
  <2>7. ASSUME NEW i \in 1..Len(s), s[i].seq # 0, i # 1 PROVE s[i].seq > Done(q)'
    <3>1. CASE entry.item.seq = 0
      BY <2>4, <2>5, <2>7, <3>1
    <3>2. CASE entry.item.seq # 0
      <4>1. 1 < i /\ s[1].seq # 0
        BY <2>1, <2>3, <2>7, <3>2
      <4>2. s[1].seq < s[i].seq
        BY <2>3, <2>5, <2>7, <4>1
      <4> QED
        BY <2>1, <2>3, <2>4, <2>7, <3>2, <4>2
    <3> QED
      BY <3>1, <3>2
  <2>8. Executed(q)'
    <3> SUFFICES ASSUME NEW n \in 1..Done(q)' PROVE numbered[q][n] \in Range(executed')
      BY <1>2 DEF Executed
    <3>1. CASE n \in 1..counter[q]
      BY <1>2, <2>5, <3>1
    <3>2. CASE n \notin 1..counter[q]
      <4>1. entry.item.seq # 0 /\ n <= entry.item.seq /\ n \in (counter[q] + 1)..d
        BY <2>1, <2>3, <2>4, <2>5, <3>2
      <4>2. PICK i \in 1..Len(s) : s[i].seq = n
        BY <2>5, <4>1
      <4>3. i = 1
        BY <2>1, <2>3, <2>4, <2>7, <4>1, <4>2
      <4>4. numbered[q][n] = entry.item.chunk
        BY <2>1, <2>3, <2>5, <4>1, <4>2, <4>3
      <4> QED
        BY <1>2, <4>4
    <3> QED
      BY <3>1, <3>2
  <2>9. Unexecuted(q)'
    <3> SUFFICES ASSUME NEW n \in (Done(q)' + 1)..d
                 PROVE  \E i \in 1..Len(Line(q)') : Line(q)'[i].seq = n
      BY <1>2 DEF Unexecuted, d
    <3>1. n \in (counter[q] + 1)..d /\ n # entry.item.seq
      BY <2>1, <2>3, <2>4, <2>5
    <3>2. PICK i \in 1..Len(s) : s[i].seq = n
      BY <2>5, <3>1
    <3>3. i # 1
      BY <2>3, <3>1, <3>2
    <3>4. i - 1 \in 1..(Len(s) - 1) /\ (i - 1) + 1 = i
      BY <2>1, <3>2, <3>3
    <3> QED
      BY <2>3, <3>2, <3>4
  <2>10. Increasing(q)'
    <3> SUFFICES ASSUME NEW i \in 1..Len(Line(q)'), NEW j \in 1..Len(Line(q)'),
                        i < j, Line(q)'[i].seq # 0, Line(q)'[j].seq # 0
                 PROVE  Line(q)'[i].seq < Line(q)'[j].seq
      BY DEF Increasing
    <3>1. /\ Line(q)'[i] = s[i + 1] /\ Line(q)'[j] = s[j + 1]
          /\ i + 1 \in 1..Len(s) /\ j + 1 \in 1..Len(s) /\ i + 1 < j + 1
      BY <2>1, <2>3
    <3> QED
      BY <2>5, <3>1
  <2>11. Labelled(q)'
    <3> SUFFICES ASSUME NEW i \in 1..Len(Line(q)'), Line(q)'[i].seq # 0
                 PROVE  /\ Line(q)'[i].seq > Done(q)' /\ Line(q)'[i].seq <= d
                        /\ numbered[q][Line(q)'[i].seq] = Line(q)'[i].chunk
      BY <1>2 DEF Labelled, d
    <3>1. Line(q)'[i] = s[i + 1] /\ i + 1 \in 1..Len(s) /\ i + 1 # 1
      BY <2>1, <2>3
    <3> QED
      BY <2>5, <2>7, <3>1
  <2> QED
    BY <2>6, <2>8, <2>9, <2>10, <2>11 DEF Numbers
<1> QED
  BY <1>4, <1>5

LEMMA NumbersStep ==
  ASSUME NumbersInv, [Next]_vars
  PROVE  NumbersInv'
<1>1. TypeInv /\ TypeInv'
  BY TypeStep DEF NumbersInv
<1> SUFFICES ASSUME NEW q \in Queues PROVE Numbers(q)'
  BY <1>1 DEF NumbersInv
<1>2. ASSUME NEW p \in Queues, NEW withSeq \in BOOLEAN, PushStep(p, withSeq) PROVE Numbers(q)'
  BY <1>1, <1>2, PushNumbers
<1>3. CASE ExecuteChunk
  BY <1>1, <1>3, ExecuteNumbers
<1>4. CASE MoveStep
  <2>1. /\ Line(q)' = Line(q) /\ Done(q)' = Done(q) /\ counter'[q] \in {counter[q], Done(q)}
        /\ UNCHANGED <<seqDispatch, numbered, executed>>
    BY <1>4 DEF MoveStep
  <2>2. Numbers(q) /\ Done(q) \in Nat
    BY <1>1, LineTypes DEF NumbersInv
  <2>3. Bounds(q)'
    BY <2>1, <2>2 DEF Numbers, Bounds
  <2> QED
    BY <2>1, <2>2, <2>3 DEF Numbers, Executed, Unexecuted, Increasing, Labelled
<1> QED
  BY <1>1, <1>2, <1>3, <1>4, CoreSteps

LEMMA NumbersInvariance == Spec => []NumbersInv
  BY InitNumbers, NumbersStep, PTL DEF Spec

-----------------------------------------------------------------------------
(* Synchronization *)

\* A call waits for the queue of its client, and it has returned only when the number
\* that it asked for was published.
SyncInv ==
  \A t \in Clients :
    /\ pc[t] = "waitOrdered" => t \in Apps
    /\ pc[t] = "waitHigh" => t \in Lockers
    /\ pc[t] = "returned" => request[t] <= counter[WaitsFor(t)]

WaitInv == NumbersInv /\ SyncInv

\* Published numbers only grow.
LEMMA CounterGrows ==
  ASSUME NumbersInv, [Next]_vars, NEW q \in Queues
  PROVE  counter[q] \in Nat /\ counter'[q] \in Nat /\ counter[q] <= counter'[q]
<1>1. /\ TypeInv /\ TypeInv' /\ counter[q] \in Nat /\ Done(q) \in Nat /\ counter[q] <= Done(q)
  BY TypeStep, LineTypes DEF NumbersInv, Numbers, Bounds
<1>2. counter'[q] \in Nat
  BY <1>1, CsAssumption DEF TypeInv, TypeOK, CsAssumption
<1>3. counter'[q] \in {counter[q], Done(q)}
  BY <1>1, CoreSteps DEF PushStep, ExecuteChunk, MoveStep, workerVars
<1> QED
  BY <1>1, <1>2, <1>3

LEMMA SyncStep ==
  ASSUME WaitInv, [Next]_vars
  PROVE  WaitInv'
<1> USE DEF WaitInv
<1>1. NumbersInv' /\ TypeInv /\ TypeInv' /\ TypeOK
  BY NumbersStep DEF NumbersInv, TypeInv
<1>2. /\ pc \in [Clients -> {"idle", "waitOrdered", "waitHigh", "returned"}]
      /\ request \in [Clients -> 0..MaxChunks]
      /\ Apps \intersect Lockers = {} /\ MaxChunks \in Nat
  BY <1>1, CsAssumption DEF TypeOK, CsAssumption
<1> SUFFICES ASSUME NEW t \in Clients
             PROVE  /\ pc'[t] = "waitOrdered" => t \in Apps
                    /\ pc'[t] = "waitHigh" => t \in Lockers
                    /\ pc'[t] = "returned" => request'[t] <= counter'[WaitsFor(t)]
  BY <1>1 DEF SyncInv
<1>3. WaitsFor(t) \in Queues
  BY DEF WaitsFor, Queues
\* A client that does nothing keeps what it has found.
<1>4. CASE pc'[t] = pc[t] /\ request'[t] = request[t]
  <2>1. request[t] \in Nat
    BY <1>2
  <2>2. /\ counter[WaitsFor(t)] \in Nat /\ counter'[WaitsFor(t)] \in Nat
        /\ counter[WaitsFor(t)] <= counter'[WaitsFor(t)]
    BY <1>3, CounterGrows
  <2>3. /\ pc[t] = "waitOrdered" => t \in Apps
        /\ pc[t] = "waitHigh" => t \in Lockers
        /\ pc[t] = "returned" => request[t] <= counter[WaitsFor(t)]
    BY DEF SyncInv
  <2> QED
    BY <1>4, <2>1, <2>2, <2>3
<1>5. ASSUME NEW u \in Clients, DispatchChunk(u) PROVE (pc'[t] = pc[t] /\ request'[t] = request[t]) \/ pc'[t] = "idle"
  BY <1>2, <1>5 DEF DispatchChunk
<1>6. ASSUME NEW u \in Clients, InjectAndWait(u)
      PROVE  (pc'[t] = pc[t] /\ request'[t] = request[t]) \/ (pc'[t] = "waitHigh" /\ t \in Lockers)
  BY <1>2, <1>6 DEF InjectAndWait
<1>7. ASSUME NEW u \in Clients, NEW q \in Queues, WaitForCounter(u, q)
      PROVE  \/ pc'[t] = pc[t] /\ request'[t] = request[t]
             \/ pc'[t] = "returned" /\ request'[t] <= counter'[WaitsFor(t)]
  <2>1. CASE pc' = pc \/ t # u
    BY <1>2, <1>7, <2>1 DEF WaitForCounter
  <2>2. CASE pc' # pc /\ t = u
    <3>1. pc'[t] = "returned" /\ request'[t] <= counter'[q]
      BY <1>2, <1>7, <2>2 DEF WaitForCounter, Arrived, workerVars
    <3>2. q = WaitsFor(t)
      BY <1>2, <1>7, <2>2 DEF WaitForCounter, SyncInv, WaitsFor, Queues
    <3> QED
      BY <3>1, <3>2
  <2> QED
    BY <2>1, <2>2
<1>8. ASSUME NEW u \in Clients, NEW seq \in 0..seqDispatch["ordered"] \union {SynchronizeAll},
             Synchronize(u, seq)
      PROVE  \/ pc'[t] = pc[t] /\ request'[t] = request[t]
             \/ pc'[t] = "waitOrdered" /\ t \in Apps
             \/ pc'[t] = "returned" /\ request'[t] <= counter'[WaitsFor(t)]
  <2>1. CASE t # u
    BY <1>2, <1>8, <2>1 DEF Synchronize
  <2>2. CASE t = u
    <3>1. t \in Apps /\ WaitsFor(t) = "ordered" /\ counter' = counter
      BY <1>2, <1>8, <2>2 DEF Synchronize, WaitsFor, workerVars
    <3>2. pc'[t] = "returned" => seq <= counter["ordered"]
      <4>1. /\ pc'[t] = (IF seq > counter["ordered"] THEN "waitOrdered" ELSE "returned")
            /\ seq \in Nat /\ counter["ordered"] \in Nat
        <5>1. seqDispatch["ordered"] \in Nat /\ counter["ordered"] \in Nat
          BY <1>1, LineTypes DEF Queues
        <5>2. seq \in Nat
          BY <1>2, <5>1 DEF SynchronizeAll
        <5> QED
          BY <1>2, <1>8, <2>2, <5>1, <5>2 DEF Synchronize
      <4> QED
        BY <4>1
    <3>3. seq <= counter["ordered"] => Resolve(seq) = seq
      <4>1. counter["ordered"] \in 0..MaxChunks
        BY <1>1 DEF TypeOK, Queues
      <4> QED
        BY <1>2, <4>1 DEF Resolve, SynchronizeAll
    <3>4. request'[t] = Resolve(seq) /\ pc'[t] \in {"waitOrdered", "returned"}
      BY <1>2, <1>8, <2>2 DEF Synchronize
    <3> QED
      BY <3>1, <3>2, <3>3, <3>4
  <2> QED
    BY <2>1, <2>2
<1>9. ASSUME \/ Stop \/ WorkerStep \/ UNCHANGED vars
             \/ \E u \in Clients, q \in Queues : InjectChunk(u, q)
      PROVE  pc'[t] = pc[t] /\ request'[t] = request[t]
  BY <1>9
  DEF Stop, vars, WorkerStep, CheckStopped, FetchChunks, PickChunk, LeaveChunks,
      ExecuteChunk, Throw, FinishChunk, InjectChunk, clientVars
<1> QED
  BY <1>4, <1>5, <1>6, <1>7, <1>8, <1>9 DEF Next, Wait

\* Whatever a client waits for has been executed when its call has returned.
THEOREM SyncCorrect == Spec => []SyncMeansExecuted
<1>1. Init => WaitInv
  <2> SUFFICES ASSUME Init PROVE SyncInv
    BY InitNumbers DEF WaitInv
  <2> QED
    BY DEF Init, SyncInv
<1>2. WaitInv /\ [Next]_vars => WaitInv'
  BY SyncStep
<1>3. WaitInv => SyncMeansExecuted
  <2> SUFFICES ASSUME WaitInv, NEW t \in Clients, pc[t] = "returned", NEW n \in 1..request[t]
               PROVE  numbered[WaitsFor(t)][n] \in Range(executed)
    BY DEF SyncMeansExecuted
  <2> DEFINE q == WaitsFor(t)
  <2>1. q \in Queues /\ TypeInv /\ Numbers(q) /\ request[t] <= counter[q]
    BY DEF WaitInv, SyncInv, NumbersInv, WaitsFor, Queues
  <2>2. request[t] \in Nat
    BY <2>1, CsAssumption DEF TypeInv, TypeOK, CsAssumption
  <2>3. counter[q] \in Nat /\ Done(q) \in Nat /\ counter[q] <= Done(q)
    BY <2>1, LineTypes DEF Numbers, Bounds
  <2>4. n \in 1..Done(q)
    BY <2>1, <2>2, <2>3
  <2> QED
    BY <2>1, <2>4 DEF Numbers, Executed
<1> QED
  BY <1>1, <1>2, <1>3, PTL DEF Spec

-----------------------------------------------------------------------------
(* The command stream *)

\* The chunks of a sequence of items; Waiting is those of Items.
ChunksOf(s) == [i \in DOMAIN s |-> s[i].chunk]

LEMMA ChunksType ==
  ASSUME NEW s \in Seq(Entries)
  PROVE  /\ ChunksOf(s) \in Seq(1..MaxChunks) /\ Len(ChunksOf(s)) = Len(s) /\ Len(s) \in Nat
         /\ \A i \in 1..Len(s) : ChunksOf(s)[i] = s[i].chunk
         /\ s = <<>> <=> ChunksOf(s) = <<>>
<1>1. DOMAIN s = 1..Len(s) /\ Len(s) \in Nat /\ \A i \in 1..Len(s) : s[i].chunk \in 1..MaxChunks
  <2>1. \A e \in Entries : e.chunk \in 1..MaxChunks
    BY DEF Entries
  <2> QED
    BY <2>1, LenProperties, ElementOfSeq
<1>2. /\ ChunksOf(s) \in Seq(1..MaxChunks) /\ Len(ChunksOf(s)) = Len(s)
      /\ \A i \in 1..Len(s) : ChunksOf(s)[i] = s[i].chunk
  BY <1>1 DEF ChunksOf
<1>3. s = <<>> <=> ChunksOf(s) = <<>>
  BY <1>1, <1>2, EmptySeq
<1> QED
  BY <1>1, <1>2, <1>3

LEMMA ChunksAppend ==
  ASSUME NEW s \in Seq(Entries), NEW e \in Entries
  PROVE  ChunksOf(Append(s, e)) = Append(ChunksOf(s), e.chunk)
<1>1. /\ Append(s, e) \in Seq(Entries) /\ Len(Append(s, e)) = Len(s) + 1 /\ Len(s) \in Nat
      /\ \A i \in 1..Len(s) : Append(s, e)[i] = s[i]
      /\ Append(s, e)[Len(s) + 1] = e /\ e.chunk \in 1..MaxChunks
  BY AppendProperties, LenProperties DEF Entries
<1>2. /\ ChunksOf(s) \in Seq(1..MaxChunks) /\ Len(ChunksOf(s)) = Len(s)
      /\ \A i \in 1..Len(s) : ChunksOf(s)[i] = s[i].chunk
  BY ChunksType
<1>3. /\ ChunksOf(Append(s, e)) \in Seq(1..MaxChunks) /\ Len(ChunksOf(Append(s, e))) = Len(s) + 1
      /\ \A i \in 1..(Len(s) + 1) : ChunksOf(Append(s, e))[i] = Append(s, e)[i].chunk
  BY <1>1, ChunksType
<1>4. /\ Append(ChunksOf(s), e.chunk) \in Seq(1..MaxChunks)
      /\ Len(Append(ChunksOf(s), e.chunk)) = Len(s) + 1
      /\ \A i \in 1..Len(s) : Append(ChunksOf(s), e.chunk)[i] = s[i].chunk
      /\ Append(ChunksOf(s), e.chunk)[Len(s) + 1] = e.chunk
  BY <1>1, <1>2, AppendProperties
<1>5. ASSUME NEW i \in 1..(Len(s) + 1)
      PROVE  ChunksOf(Append(s, e))[i] = Append(ChunksOf(s), e.chunk)[i]
  BY <1>1, <1>3, <1>4
<1> QED
  BY <1>3, <1>4, <1>5, SeqEqual

LEMMA ChunksTail ==
  ASSUME NEW s \in Seq(Entries), s # <<>>
  PROVE  /\ ChunksOf(s) # <<>>
         /\ Head(ChunksOf(s)) = Head(s).chunk
         /\ Tail(ChunksOf(s)) = ChunksOf(Tail(s))
<1> DEFINE c == ChunksOf(s)
<1>1. /\ Tail(s) \in Seq(Entries) /\ Len(Tail(s)) = Len(s) - 1 /\ Len(s) \in Nat /\ Len(s) >= 1
      /\ \A i \in 1..(Len(s) - 1) : Tail(s)[i] = s[i + 1]
      /\ Head(s) = s[1]
  BY HeadTailProperties, EmptySeq
<1>2. /\ c \in Seq(1..MaxChunks) /\ Len(c) = Len(s) /\ c # <<>>
      /\ \A i \in 1..Len(s) : c[i] = s[i].chunk
  BY ChunksType
<1>3. /\ ChunksOf(Tail(s)) \in Seq(1..MaxChunks) /\ Len(ChunksOf(Tail(s))) = Len(s) - 1
      /\ \A i \in 1..(Len(s) - 1) : ChunksOf(Tail(s))[i] = Tail(s)[i].chunk
  BY <1>1, ChunksType
<1> HIDE DEF c
<1>4. /\ Tail(c) \in Seq(1..MaxChunks) /\ Len(Tail(c)) = Len(s) - 1 /\ Head(c) = c[1]
      /\ \A i \in 1..(Len(s) - 1) : Tail(c)[i] = c[i + 1]
  BY <1>2, HeadTailProperties
<1>5. ASSUME NEW i \in 1..(Len(s) - 1) PROVE Tail(c)[i] = ChunksOf(Tail(s))[i]
  <2>1. i + 1 \in 1..Len(s)
    BY <1>1
  <2> QED
    BY <1>1, <1>2, <1>3, <1>4, <2>1
<1>6. Tail(c) = ChunksOf(Tail(s))
  BY <1>1, <1>3, <1>4, <1>5, SeqEqual
<1>7. Head(c) = Head(s).chunk
  BY <1>1, <1>2, <1>4
<1> QED
  BY <1>2, <1>6, <1>7 DEF c

\* A pick takes the first of the items that wait in a queue, and of an ordered one only
\* when no injected one waits: the flag is down, or the refill has just taken them.
LEMMA PickWaiting ==
  ASSUME TypeInv, PickChunk
  PROVE  \E q \in Queues :
           /\ entry'.item \in Entries
           /\ Items(q) # <<>> /\ Head(Items(q)) = entry'.item /\ Items(q)' = Tail(Items(q))
           /\ \A p \in Queues \ {q} : Items(p)' = Items(p)
           /\ q = "ordered" => Items("high") = <<>>
<1> DEFINE hp == IF Refill(local["high"]) THEN queue["high"] ELSE local["high"]
<1> DEFINE from == Prefer(hp)
<1> DEFINE src == IF from = "high" THEN hp ELSE local["ordered"]
<1>1. /\ entry' = [from |-> from, item |-> Head(src)]
      /\ local' = IF from = "high"
                    THEN [local EXCEPT !["high"] = Tail(src)]
                    ELSE [local EXCEPT !["ordered"] = Tail(src), !["high"] = hp]
      /\ queue' = IF Refill(local["high"]) THEN [queue EXCEPT !["high"] = <<>>] ELSE queue
  BY DEF PickChunk
<1>2. /\ queue \in [Queues -> Seq(Entries)] /\ local \in [Queues -> Seq(Entries)]
      /\ "high" \in Queues /\ "ordered" \in Queues /\ Queues = {"ordered", "high"}
      /\ local["ordered"] \in Seq(Entries) /\ local["high"] \in Seq(Entries)
      /\ queue["ordered"] \in Seq(Entries) /\ queue["high"] \in Seq(Entries)
  BY DEF TypeInv, TypeOK, Queues
<1>3. hp \in Seq(Entries) /\ src \in Seq(Entries) /\ src # <<>>
  <2>1. hp \in Seq(Entries) /\ src \in Seq(Entries)
    BY <1>2
  <2>2. hp = <<>> => local["ordered"] # <<>>
    BY <1>2 DEF PickChunk, Refill, TypeInv, FlagMatchesQueue
  <2> QED
    BY <2>1, <2>2 DEF Prefer
<1>4. Head(src) \in Entries /\ Tail(src) \in Seq(Entries)
  BY <1>3, HeadTailProperties
\* What is left of the high-priority queue after the refill, and before the pick
<1> DEFINE rest == IF Refill(local["high"]) THEN <<>> ELSE queue["high"]
<1>5. rest \in Seq(Entries) /\ queue'["high"] = rest /\ queue'["ordered"] = queue["ordered"]
  BY <1>1, <1>2
<1>6. Items("high") = hp \o rest
  <2>1. CASE Refill(local["high"])
    <3>1. Items("high") = <<>> \o queue["high"]
      BY <2>1 DEF Items, Refill
    <3> QED
      BY <1>2, <2>1, <3>1, ConcatEmptySeq
  <2>2. CASE ~Refill(local["high"])
    BY <2>2 DEF Items
  <2> QED
    BY <2>1, <2>2
<1>7. ASSUME NEW t \in Seq(Entries)
      PROVE  src \o t # <<>> /\ Head(src \o t) = Head(src) /\ Tail(src \o t) = Tail(src) \o t
  <2>1. <<Head(src)>> \o Tail(src) = src
    BY <1>3, HeadJoins
  <2> DEFINE x == Head(src)
             s == Tail(src)
  <2>2. x \in Entries /\ s \in Seq(Entries)
    BY <1>4
  <2> HIDE DEF x, s
  <2>3. /\ (<<x>> \o s) \o t # <<>>
        /\ Head((<<x>> \o s) \o t) = x /\ Tail((<<x>> \o s) \o t) = s \o t
    BY <2>2, ConsLine
  <2> QED
    BY <2>1, <2>3 DEF x, s
<1>8. CASE from = "high"
  <2>1. /\ src = hp /\ local'["high"] = Tail(src) /\ local'["ordered"] = local["ordered"]
        /\ entry'.item = Head(src)
    BY <1>1, <1>2, <1>8
  <2>2. Items("high")' = Tail(src) \o rest /\ Items("ordered")' = Items("ordered")
    BY <1>5, <2>1 DEF Items
  <2>3. src \o rest # <<>> /\ Head(src \o rest) = Head(src) /\ Tail(src \o rest) = Tail(src) \o rest
    BY <1>5, <1>7
  <2>4. Items("high") = src \o rest
    BY <1>6, <2>1
  <2> HIDE DEF hp, from, src, rest
  <2> QED
    BY <1>2, <1>4, <2>1, <2>2, <2>3, <2>4
<1>9. CASE from # "high"
  <2>1. hp = <<>> /\ from = "ordered"
    BY <1>9 DEF Prefer
  <2>2. /\ src = local["ordered"] /\ local'["ordered"] = Tail(src) /\ local'["high"] = hp
        /\ entry'.item = Head(src)
    BY <1>1, <1>2, <1>9
  <2>3. rest = <<>>
    BY <2>1 DEF Refill, TypeInv, FlagMatchesQueue
  <2>4. Items("high") = <<>> /\ Items("high")' = Items("high")
    BY <1>5, <1>6, <2>1, <2>2, <2>3, ConcatEmptySeq DEF Items
  <2>5. Items("ordered") = src \o queue["ordered"] /\ Items("ordered")' = Tail(src) \o queue["ordered"]
    BY <1>5, <2>2 DEF Items
  <2>6. /\ src \o queue["ordered"] # <<>> /\ Head(src \o queue["ordered"]) = Head(src)
        /\ Tail(src \o queue["ordered"]) = Tail(src) \o queue["ordered"]
    BY <1>2, <1>7
  <2> HIDE DEF hp, from, src, rest
  <2> QED
    BY <1>2, <1>4, <2>2, <2>4, <2>5, <2>6
<1> QED
  BY <1>8, <1>9

\* Every step of the thread is a step of the command stream, or leaves it alone.
LEMMA StreamStep ==
  ASSUME TypeInv, [Next]_vars
  PROVE  [Stream!StreamNext]_(Stream!streamVars)
<1>1. TypeOK /\ "high" \in Queues /\ "ordered" \in Queues /\ Queues = {"ordered", "high"}
  BY DEF TypeInv, Queues
<1>2. ASSUME NEW q \in Queues
      PROVE  local[q] \in Seq(Entries) /\ queue[q] \in Seq(Entries) /\ Items(q) \in Seq(Entries)
  <2>1. local[q] \in Seq(Entries) /\ queue[q] \in Seq(Entries)
    BY <1>1, <1>2 DEF TypeOK
  <2> QED
    BY <2>1, ConcatProperties DEF Items
<1>3. /\ Waiting("high") = ChunksOf(Items("high")) /\ Waiting("high")' = ChunksOf(Items("high")')
      /\ Waiting("ordered") = ChunksOf(Items("ordered")) /\ Waiting("ordered")' = ChunksOf(Items("ordered")')
  BY DEF Waiting, ChunksOf
<1> SUFFICES \/ Stream!StreamNext
             \/ UNCHANGED <<count, Waiting("ordered"), Waiting("high"), InHand, executed>>
  BY DEF Stream!streamVars
<1>4. ASSUME NEW q \in Queues, NEW withSeq \in BOOLEAN, PushStep(q, withSeq) PROVE Stream!StreamNext
  <2>1. /\ NewItem(q, withSeq) \in Entries /\ NewItem(q, withSeq).chunk = count + 1
        /\ queue' = [queue EXCEPT ![q] = Append(@, NewItem(q, withSeq))]
        /\ count < MaxChunks /\ count' = count + 1
        /\ UNCHANGED <<threadPc, entry, local, executed>>
    BY <1>4, NewItemIsEntry DEF PushStep, Push, NewItem, workerVars
  <2>2. InHand' = InHand
    BY <2>1 DEF InHand
  <2>3. Items(q)' = Append(Items(q), NewItem(q, withSeq))
    <3>1. Items(q)' = local[q] \o Append(queue[q], NewItem(q, withSeq))
      BY <1>1, <2>1 DEF Items, TypeOK
    <3> QED
      BY <1>2, <2>1, <3>1, AppendLine DEF Items
  <2>4. \A p \in Queues \ {q} : Items(p)' = Items(p)
    BY <1>1, <2>1 DEF Items, TypeOK
  <2>5. ChunksOf(Append(Items(q), NewItem(q, withSeq))) = Append(ChunksOf(Items(q)), count + 1)
    BY <1>2, <2>1, ChunksAppend
  <2>6. CASE q = "ordered"
    <3>1. Waiting("ordered")' = Append(Waiting("ordered"), count + 1) /\ Waiting("high")' = Waiting("high")
      BY <1>1, <1>3, <2>3, <2>4, <2>5, <2>6
    <3> QED
      BY <2>1, <2>2, <3>1 DEF Stream!EnqueueOrdered, Stream!StreamNext
  <2>7. CASE q = "high"
    <3>1. Waiting("high")' = Append(Waiting("high"), count + 1) /\ Waiting("ordered")' = Waiting("ordered")
      BY <1>1, <1>3, <2>3, <2>4, <2>5, <2>7
    <3> QED
      BY <2>1, <2>2, <3>1 DEF Stream!EnqueueHigh, Stream!StreamNext
  <2> QED
    BY <1>1, <2>6, <2>7
<1>5. CASE PickChunk
  <2>1. PICK q \in Queues :
           /\ entry'.item \in Entries
           /\ Items(q) # <<>> /\ Head(Items(q)) = entry'.item /\ Items(q)' = Tail(Items(q))
           /\ \A p \in Queues \ {q} : Items(p)' = Items(p)
           /\ q = "ordered" => Items("high") = <<>>
    BY <1>5, PickWaiting
  <2>2. /\ count' = count /\ executed' = executed /\ InHand = 0
        /\ InHand' = entry'.item.chunk
    BY <1>5 DEF PickChunk, InHand
  <2>3. /\ ChunksOf(Items(q)) # <<>> /\ Head(ChunksOf(Items(q))) = entry'.item.chunk
        /\ ChunksOf(Items(q)') = Tail(ChunksOf(Items(q)))
    BY <1>2, <2>1, ChunksTail
  <2>4. CASE q = "high"
    <3>1. /\ Waiting("high") # <<>> /\ Head(Waiting("high")) = InHand'
          /\ Waiting("high")' = Tail(Waiting("high")) /\ Waiting("ordered")' = Waiting("ordered")
      BY <1>1, <1>3, <2>1, <2>2, <2>3, <2>4
    <3> QED
      BY <2>2, <3>1 DEF Stream!BeginHigh, Stream!StreamNext
  <2>5. CASE q = "ordered"
    <3>1. /\ Waiting("ordered") # <<>> /\ Head(Waiting("ordered")) = InHand'
          /\ Waiting("ordered")' = Tail(Waiting("ordered")) /\ Waiting("high")' = Waiting("high")
      BY <1>1, <1>3, <2>1, <2>2, <2>3, <2>5
    <3>2. Waiting("high") = <<>>
      BY <1>1, <1>2, <1>3, <2>1, <2>5, ChunksType
    <3> QED
      BY <2>2, <3>1, <3>2 DEF Stream!BeginOrdered, Stream!StreamNext
  <2> QED
    BY <1>1, <2>4, <2>5
<1>6. CASE ExecuteChunk
  <2>1. /\ count' = count /\ executed' = Append(executed, entry.item.chunk)
        /\ threadPc = "execute" /\ threadPc' = "notify"
        /\ UNCHANGED <<local, queue>>
        /\ entry.item \in Entries
    BY <1>6 DEF ExecuteChunk, queueVars, TypeInv, HandInv
  <2>2. InHand = entry.item.chunk /\ InHand # 0 /\ InHand' = 0
    BY <2>1 DEF InHand, Entries
  <2>3. UNCHANGED <<Waiting("ordered"), Waiting("high")>>
    BY <2>1 DEF Waiting, Items
  <2> QED
    BY <2>1, <2>2, <2>3 DEF Stream!End, Stream!StreamNext
<1>7. CASE FetchChunks
  <2>1. ASSUME NEW q \in Queues PROVE Items(q)' = Items(q)
    <3>1. local[q] = <<>> /\ local \in [Queues -> Seq(Entries)] /\ queue \in [Queues -> Seq(Entries)]
      BY <1>1, <1>7, <2>1 DEF FetchChunks, TypeInv, HandInv, TypeOK
    <3>2. CASE UNCHANGED <<queue, local>>
      BY <3>2 DEF Items
    <3>3. CASE local' = queue /\ queue' = [p \in Queues |-> <<>>]
      <4>1. Items(q)' = queue[q] \o <<>> /\ Items(q) = <<>> \o queue[q]
        BY <2>1, <3>1, <3>3 DEF Items
      <4> QED
        BY <1>2, <2>1, <4>1, ConcatEmptySeq
    <3> QED
      BY <1>7, <3>2, <3>3 DEF FetchChunks
  <2>2. UNCHANGED <<count, executed, InHand>>
    BY <1>7 DEF FetchChunks, InHand
  <2> QED
    BY <1>1, <1>3, <2>1, <2>2
<1>8. CASE UNCHANGED coreVars
  BY <1>8 DEF coreVars, queueVars, workerVars, Waiting, Items, InHand
<1>9. CASE CheckStopped \/ LeaveChunks \/ Throw \/ FinishChunk
  <2>1. UNCHANGED <<queueVars, local, executed>>
    BY <1>9 DEF CheckStopped, LeaveChunks, Throw, FinishChunk
  <2>2. InHand' = InHand
    BY <1>9 DEF CheckStopped, LeaveChunks, Throw, FinishChunk, InHand, TypeInv, HandInv, NoEntry
  <2> QED
    BY <2>1, <2>2 DEF queueVars, Waiting, Items
<1> QED
  BY <1>1, <1>4, <1>5, <1>6, <1>7, <1>8, <1>9, QueueSteps DEF WorkerStep

\* The thread implements the command stream: each queue is executed in the order of
\* its calls, one chunk at a time and every chunk at most once, and an ordered chunk is
\* begun only when no injected one waits, whenever that was injected.
THEOREM StreamCorrect == Spec => ImplementsStream
<1>1. Init => Stream!StreamInit
  <2> SUFFICES ASSUME Init PROVE Stream!StreamInit
    OBVIOUS
  <2>1. ASSUME NEW q \in Queues PROVE Waiting(q) = <<>>
    <3>1. Items(q) = <<>> \o <<>>
      BY <2>1 DEF Init, Items
    <3>2. \A s \in Seq(Entries) : s \o <<>> = s
      BY ConcatEmptySeq
    <3>3. Items(q) = <<>> /\ <<>> \in Seq(Entries)
      BY <3>1, <3>2
    <3>4. ChunksOf(Items(q)) = <<>>
      BY <3>3, ChunksType
    <3> QED
      BY <3>4 DEF Waiting, ChunksOf
  <2>2. InHand = 0
    BY DEF Init, InHand
  <2> QED
    BY <2>1, <2>2 DEF Init, Queues, Stream!StreamInit
<1>2. TypeInv /\ [Next]_vars => [Stream!StreamNext]_(Stream!streamVars)
  BY StreamStep
<1> QED
  BY <1>1, <1>2, TypeInvariance, PTL DEF Spec, ImplementsStream, Stream!StreamSpec

-----------------------------------------------------------------------------
(* The descriptor ring *)

\* The CS thread waits for its next block, and has none.
Between == csPc \in {"nextAlloc", "nextHandle"}

\* The number of the last block that was given to the CS thread, and of the first that
\* the worker has not written.
Top == IF Between THEN append - 1 ELSE append
First == IF ringPc = "signal" THEN consume + 1 ELSE consume
Block(n) == blocks[n % BlockCount]

\* How far the two fences are apart, and that there are never more blocks than updates,
\* so that no count reaches the value that ends the worker.
FencesInv ==
  /\ consume <= append /\ append <= entries
  /\ Between => append >= 1 /\ append <= consume + BlockCount
  /\ ~Between => append < consume + BlockCount
  /\ blockIndex = Top % BlockCount
  /\ ringPc \in {"process", "signal"} => consume < batch /\ batch <= append
  /\ ringPc # "exit"

\* Blocks of the window hold intervals, one after the other, and no others hold anything.
WindowInv ==
  /\ \A n \in First..Top : \E lo, hi \in 0..Ring!Stop : Block(n) = lo..hi
  /\ \A n \in First..(append - 1) : Block(n) # {}
  /\ \A n \in First..Top : \A e \in Block(n) : e > n
  /\ \A m \in First..Top, n \in First..Top :
       m < n => \A e \in Block(m), f \in Block(n) : e < f
  /\ \A i \in 0..(BlockCount - 1) : blocks[i] # {} => \E n \in First..Top : i = n % BlockCount
  /\ ~Between => \E lo \in 0..Ring!Stop : blocks[blockIndex] = lo..entries
  /\ csPc \in {"flushAlloc", "flushHandle"} => blocks[blockIndex] # {}
  /\ csPc \in {"alloc", "handle"} => blocks[blockIndex] = {}

\* A sync handle is past every block with an update that the list needs.
HandlesInv ==
  \A k \in DOMAIN lists :
    /\ lists[k].handle <= append
    /\ \A n \in First..Top : lists[k].handle <= n => \A e \in Block(n) : e > lists[k].needs

\* In the end the worker has written all that was handed to it.
DestroyedInv ==
  /\ append = Ring!Stop /\ ringPc \in {"wait", "exit"}
  /\ \A k \in DOMAIN lists : \A i \in 0..(BlockCount - 1) : \A e \in blocks[i] : e > lists[k].needs

UpdatesInv ==
  /\ lists \in Seq([needs : 0..MaxEntries, handle : 0..MaxEntries])
  /\ \A k \in DOMAIN lists : lists[k].needs <= entries
  /\ \A i \in 0..(BlockCount - 1) : blocks[i] \subseteq 1..entries /\ blocks[i] \intersect written = {}
  /\ written \subseteq 1..entries
  /\ csPc \in {"flushAlloc", "nextAlloc", "alloc"} => entries < MaxEntries
  /\ csPc \in {"flushHandle", "nextHandle", "handle"} => Len(lists) < MaxLists

RingInv ==
  /\ Ring!TypeOK /\ UpdatesInv /\ Ring!UpdatesInOrder /\ Ring!UpdatesBeforeSubmit
  /\ IF csPc = "destroyed" THEN DestroyedInv ELSE FencesInv /\ WindowInv /\ HandlesInv

-----------------------------------------------------------------------------
(* The latency tracker *)

\* Reports are made: from the loss of the device on only the one that is under way.
Reporting == lost # "known" \/ submitPc = "report"
Reported == presented + (IF presentWait /\ submitPc = "report" THEN 1 ELSE 0)

\* s is the numbers that follow n.
Counts(s, n) == \A i \in 1..Len(s) : s[i] = n + i

\* Every frame is reported once, in the order of the presents.
ReportsInv ==
  /\ presents \in Seq(Nat) /\ shows \in Seq(1..frameId)
  /\ submitPc = "report" => presents # <<>>
  /\ Counts(shows, shown)
  /\ Reporting =>
       /\ Counts(presents, presented)
       /\ presented + Len(presents) = frameId
       /\ shown + Len(shows) = Reported

\* The frames that are known are not more than the ring has entries.
KnownInv ==
  /\ frames \in [0..(FrameCount - 1) ->
       [id : 0..(MaxFrames + 1), cpuPresentEnd : BOOLEAN, presentStatus : BOOLEAN,
        frameEnd : BOOLEAN]]
  /\ presentWait \in BOOLEAN /\ lost \in {"no", "lost", "known"} /\ asleep \in BOOLEAN
  /\ rangeEnd <= frameId + 1 /\ rangeBegin <= rangeEnd + 1
  /\ rangeEnd < rangeBegin + FrameCount
  /\ appPc # "idle" => frameId >= 1

LatencyInv == Latency!TypeOK /\ KnownInv /\ ReportsInv /\ Latency!TimingsSound

-----------------------------------------------------------------------------
(* Lemmas *)

\* Numbers that are less than the length of the ring apart have different entries.
LEMMA ModDiffers ==
  ASSUME NEW m \in Nat, NEW n \in Nat, NEW len \in Nat \ {0}, m < n, n < m + len
  PROVE  m % len # n % len
<1>1. PICK q \in Int, r \in 0..(len - 1) : m = q * len + r /\ m % len = r
  <2>1. m = (m \div len) * len + (m % len) /\ m \div len \in Int /\ m % len \in 0..(len - 1)
    BY SMT
  <2> QED
    BY <2>1
<1>2. PICK p \in Int, s \in 0..(len - 1) : n = p * len + s /\ n % len = s
  <2>1. n = (n \div len) * len + (n % len) /\ n \div len \in Int /\ n % len \in 0..(len - 1)
    BY SMT
  <2> QED
    BY <2>1
<1>3. SUFFICES ASSUME r = s PROVE FALSE
  BY <1>1, <1>2
<1>4. (p - q) * len = n - m
  BY <1>1, <1>2, <1>3
<1>5. p - q <= 0 \/ p - q >= 1
  OBVIOUS
<1>6. CASE p - q <= 0
  <2>1. (p - q) * len <= 0
    BY <1>6
  <2> QED
    BY <1>4, <2>1
<1>7. CASE p - q >= 1
  <2>1. (p - q) * len >= len
    BY <1>7
  <2> QED
    BY <1>4, <2>1
<1> QED
  BY <1>5, <1>6, <1>7

LEMMA ModInRange ==
  ASSUME NEW n \in Nat, NEW len \in Nat \ {0}
  PROVE  n % len \in 0..(len - 1)
OBVIOUS

LEMMA CountsAppend ==
  ASSUME NEW s \in Seq(Nat), NEW n \in Nat, Counts(s, n)
  PROVE  Counts(Append(s, n + Len(s) + 1), n)
<1>1. Len(s) \in Nat /\ n + Len(s) + 1 \in Nat
  BY LenProperties
<1>2. /\ Len(Append(s, n + Len(s) + 1)) = Len(s) + 1
      /\ \A i \in 1..Len(s) : Append(s, n + Len(s) + 1)[i] = s[i]
      /\ Append(s, n + Len(s) + 1)[Len(s) + 1] = n + Len(s) + 1
  BY <1>1, AppendProperties
<1> QED
  BY <1>1, <1>2 DEF Counts

LEMMA CountsTail ==
  ASSUME NEW s \in Seq(Nat), s # <<>>, NEW n \in Nat, Counts(s, n)
  PROVE  Head(s) = n + 1 /\ Counts(Tail(s), n + 1)
<1>1. /\ Len(s) \in Nat \ {0} /\ Len(Tail(s)) = Len(s) - 1
      /\ \A i \in 1..Len(Tail(s)) : Tail(s)[i] = s[i + 1]
  BY HeadTailProperties, LenProperties, EmptySeq
<1>2. Head(s) = s[1]
  OBVIOUS
<1> QED
  BY <1>1, <1>2 DEF Counts

\* What a step of the composition is for one part.
LEMMA PartSteps ==
  ASSUME [StreamNext]_allVars
  PROVE  /\ [Next]_vars
         /\ Ring!Next \/ UNCHANGED ringVars
         /\ Latency!Next \/ UNCHANGED latencyVars
BY DEF StreamNext, allVars, StreamRuns, RingRuns, LatencyRuns, streamVars

-----------------------------------------------------------------------------
(* The latency tracker *)

LEMMA LatencyConstants == FrameCount \in Nat \ {0, 1} /\ MaxFrames \in Nat
BY MCStreamAssumption DEF Latency!LatencyAssumption

LEMMA LatencyInit ==
  ASSUME Latency!Init
  PROVE  LatencyInv
<1>0. 0 % FrameCount \in 0..(FrameCount - 1)
  BY LatencyConstants, ModInRange
<1>1. Latency!TypeOK
  BY LatencyConstants DEF Latency!Init, Latency!TypeOK, Latency!NewFrame
<1>2. KnownInv
  <2>1. Latency!NewFrame(0) \in [id : 0..(MaxFrames + 1), cpuPresentEnd : BOOLEAN,
                                presentStatus : BOOLEAN, frameEnd : BOOLEAN]
    BY LatencyConstants DEF Latency!NewFrame
  <2>2. frames = [n \in 0..(FrameCount - 1) |-> Latency!NewFrame(0)]
    BY DEF Latency!Init
  <2>3. presentWait \in BOOLEAN /\ lost \in {"no", "lost", "known"} /\ asleep \in BOOLEAN
    BY DEF Latency!Init
  <2>4. rangeEnd = 0 /\ rangeBegin = 0 /\ frameId = 0 /\ appPc = "idle"
    BY DEF Latency!Init
  <2> QED
    BY <2>1, <2>2, <2>3, <2>4, LatencyConstants DEF KnownInv
<1>3. ReportsInv
  BY LatencyConstants DEF Latency!Init, ReportsInv, Reporting, Reported, Counts
<1>4. Latency!TimingsSound
  BY LatencyConstants DEF Latency!Init, Latency!TimingsSound, Latency!Found
<1> QED
  BY <1>1, <1>2, <1>3, <1>4 DEF LatencyInv

\* What storing a time stamp does.
LEMMA StampStores ==
  ASSUME LatencyInv, NEW f \in 1..frameId,
         NEW stamp \in {"cpuPresentEnd", "presentStatus", "frameEnd"}, Latency!Stamp(f, stamp)
  PROVE  /\ frames' \in [0..(FrameCount - 1) ->
              [id : 0..(MaxFrames + 1), cpuPresentEnd : BOOLEAN, presentStatus : BOOLEAN,
               frameEnd : BOOLEAN]]
         /\ \A g \in 1..(MaxFrames + 1) : Latency!Found(g) =>
              /\ frames'[g % FrameCount].id = Latency!Entry(g).id
              /\ \A s \in {"presentStatus", "frameEnd"} :
                   frames'[g % FrameCount][s] = (Latency!Entry(g)[s] \/ (g = f /\ s = stamp))
<1> USE LatencyConstants DEF LatencyInv
<1>1. f \in Nat /\ f % FrameCount \in 0..(FrameCount - 1) /\ frameId \in 0..MaxFrames
  <2>1. f \in Nat /\ frameId \in 0..MaxFrames
    BY DEF Latency!TypeOK
  <2> QED
    BY <2>1, ModInRange
<1>2. CASE ~Latency!Found(f)
  BY <1>2 DEF Latency!Stamp, Latency!Entry, KnownInv
<1>3. CASE Latency!Found(f)
  <2> DEFINE k == f % FrameCount
  <2>1. /\ frames' = [frames EXCEPT ![k] = [frames[k] EXCEPT ![stamp] = TRUE]]
        /\ frames[k] \in [id : 0..(MaxFrames + 1), cpuPresentEnd : BOOLEAN,
                          presentStatus : BOOLEAN, frameEnd : BOOLEAN]
    BY <1>1, <1>3 DEF Latency!Stamp, KnownInv
  <2>2. /\ [frames[k] EXCEPT ![stamp] = TRUE] \in
             [id : 0..(MaxFrames + 1), cpuPresentEnd : BOOLEAN, presentStatus : BOOLEAN,
              frameEnd : BOOLEAN]
        /\ [frames[k] EXCEPT ![stamp] = TRUE].id = frames[k].id
        /\ \A s \in {"presentStatus", "frameEnd"} :
             [frames[k] EXCEPT ![stamp] = TRUE][s] = (frames[k][s] \/ s = stamp)
    BY <2>1
  <2>3. ASSUME NEW g \in 1..(MaxFrames + 1), Latency!Found(g), g # f
        PROVE  g % FrameCount # k
    <3>1. g < f => f < g + FrameCount
      BY <1>1, <1>3, <2>3 DEF Latency!Found, KnownInv, Latency!TypeOK
    <3>2. f < g => g < f + FrameCount
      BY <1>1, <1>3, <2>3 DEF Latency!Found, KnownInv, Latency!TypeOK
    <3>3. f < g \/ g < f
      BY <1>1, <2>3
    <3>0. FrameCount \in Nat \ {0} /\ f \in Nat /\ g \in Nat
      BY <1>1
    <3>4. CASE f < g
      BY <3>0, <3>2, <3>4, ModDiffers
    <3>5. CASE g < f
      BY <3>0, <3>1, <3>5, ModDiffers
    <3> QED
      BY <3>3, <3>4, <3>5
  <2>4. \A g \in 1..(MaxFrames + 1) : g % FrameCount \in 0..(FrameCount - 1)
    BY ModInRange
  <2>5. /\ frames'[k] = [frames[k] EXCEPT ![stamp] = TRUE]
        /\ \A j \in 0..(FrameCount - 1) : j # k => frames'[j] = frames[j]
    BY <1>1, <2>1 DEF KnownInv
  <2> HIDE DEF k
  <2>6. ASSUME NEW g \in 1..(MaxFrames + 1), Latency!Found(g)
        PROVE  /\ frames'[g % FrameCount].id = Latency!Entry(g).id
               /\ \A s \in {"presentStatus", "frameEnd"} :
                    frames'[g % FrameCount][s] = (Latency!Entry(g)[s] \/ (g = f /\ s = stamp))
    <3>1. CASE g = f
      BY <2>2, <2>5, <3>1 DEF Latency!Entry, k
    <3>2. CASE g # f
      <4>1. frames'[g % FrameCount] = frames[g % FrameCount]
        BY <2>3, <2>4, <2>5, <2>6, <3>2
      <4>2. frames[g % FrameCount].presentStatus \in BOOLEAN /\ frames[g % FrameCount].frameEnd \in BOOLEAN
        BY <2>4 DEF KnownInv
      <4> QED
        BY <4>1, <4>2, <3>2 DEF Latency!Entry
    <3> QED
      BY <3>1, <3>2
  <2>7. frames' \in [0..(FrameCount - 1) ->
              [id : 0..(MaxFrames + 1), cpuPresentEnd : BOOLEAN, presentStatus : BOOLEAN,
               frameEnd : BOOLEAN]]
    BY <1>1, <2>1, <2>2 DEF KnownInv, k
  <2> QED
    BY <2>6, <2>7
<1> QED
  BY <1>2, <1>3

\* The known frames keep their entries when nothing is stored and the range does not grow.
LEMMA KnownKept ==
  ASSUME LatencyInv, UNCHANGED <<frames, presented, shown>>,
         UNCHANGED Latency!rangeVars \/ Latency!DiscardTimings
  PROVE  Latency!TimingsSound'
<1>1. CASE UNCHANGED Latency!rangeVars
  BY <1>1 DEF LatencyInv, Latency!rangeVars, Latency!TimingsSound, Latency!Found, Latency!Entry
<1>2. CASE Latency!DiscardTimings
  <2>1. rangeBegin' = rangeEnd + 1 /\ rangeEnd' = rangeEnd /\ rangeEnd \in Nat
    BY <1>2, LatencyConstants DEF Latency!DiscardTimings, LatencyInv, Latency!TypeOK
  <2>2. ASSUME NEW f \in Nat PROVE ~(f >= rangeEnd + 1 /\ f <= rangeEnd)
    BY <2>1
  <2> QED
    BY <2>1, <2>2, LatencyConstants DEF Latency!TimingsSound, Latency!Found
<1> QED
  BY <1>1, <1>2

LEMMA PresentFailsStep ==
  ASSUME LatencyInv, Latency!PresentFails
  PROVE  LatencyInv'
<1> USE LatencyConstants DEF LatencyInv, Latency!PresentFails, Latency!DiscardTimings,
    Latency!options, Latency!appVars, Latency!reportVars
<1>1. Latency!TypeOK'
  BY DEF Latency!TypeOK, KnownInv
<1>2. KnownInv'
  BY DEF Latency!TypeOK, KnownInv
<1>3. ReportsInv'
  BY DEF ReportsInv, Reporting, Reported
<1>4. Latency!TimingsSound'
  BY KnownKept
<1> QED
  BY <1>1, <1>2, <1>3, <1>4

LEMMA PresentImageStep ==
  ASSUME LatencyInv, Latency!PresentImage
  PROVE  LatencyInv'
<1> USE LatencyConstants DEF LatencyInv
<1>1. /\ appPc = "idle" /\ frameId < MaxFrames /\ frameId' = frameId + 1
      /\ presents' = Append(presents, frameId + 1) /\ appPc' = "presented"
      /\ UNCHANGED <<lowLatency2, presentWait, frames, asleep, submitPc, shows, presented, shown, lost>>
  BY DEF Latency!PresentImage, Latency!options
<1>2. \/ rangeBegin' = rangeEnd + 1 /\ rangeEnd' = rangeEnd
      \/ rangeBegin' = rangeBegin /\ rangeEnd' = rangeEnd
  BY DEF Latency!PresentImage, Latency!DiscardTimings, Latency!rangeVars
<1>3. Latency!TypeOK'
  BY <1>1, <1>2 DEF Latency!TypeOK, KnownInv
<1>4. KnownInv'
  <2>1. /\ rangeEnd' <= frameId' + 1 /\ rangeBegin' <= rangeEnd' + 1
        /\ rangeEnd' < rangeBegin' + FrameCount /\ frameId' >= 1
    BY <1>1, <1>2 DEF Latency!TypeOK, KnownInv
  <2> QED
    BY <1>1, <2>1 DEF KnownInv
<1>5. ReportsInv'
  <2>1. presents \in Seq(Nat) /\ shows \in Seq(1..frameId) /\ frameId \in Nat /\ presented \in Nat
    BY DEF ReportsInv, Latency!TypeOK
  <2>2. presents' \in Seq(Nat) /\ presents' # <<>> /\ Len(presents') = Len(presents) + 1
    BY <1>1, <2>1, AppendProperties, SMTT(30)
  <2>3. shows \in Seq(1..(frameId + 1))
    BY <2>1, SeqMonotonic
  <2>4. ASSUME Reporting
        PROVE  presented + Len(presents') = frameId' /\ Counts(presents', presented)
    <3>1. frameId = presented + Len(presents) /\ Counts(presents, presented)
      BY <2>4 DEF ReportsInv
    <3>2. presents' = Append(presents, presented + Len(presents) + 1)
      BY <1>1, <2>1, <3>1
    <3>3. Counts(presents', presented)
      BY <2>1, <3>1, <3>2, CountsAppend
    <3> QED
      BY <1>1, <2>1, <2>2, <3>1, <3>3, LenProperties
  <2> QED
    BY <1>1, <2>2, <2>3, <2>4 DEF ReportsInv, Reporting, Reported
<1>6. Latency!TimingsSound'
  BY <1>1, KnownKept DEF Latency!PresentImage
<1> QED
  BY <1>3, <1>4, <1>5, <1>6

LEMMA NotifyCpuPresentEndStep ==
  ASSUME LatencyInv, Latency!NotifyCpuPresentEnd
  PROVE  LatencyInv'
<1> USE LatencyConstants DEF LatencyInv
<1>1. /\ appPc = "presented" /\ Latency!Stamp(frameId, "cpuPresentEnd") /\ appPc' = "sleep"
      /\ UNCHANGED <<lowLatency2, presentWait, rangeBegin, rangeEnd, frameId, asleep, presents,
                     submitPc, shows, presented, shown, lost>>
  BY DEF Latency!NotifyCpuPresentEnd, Latency!options, Latency!rangeVars, Latency!reportVars
<1>2. frameId \in 1..frameId
  BY <1>1 DEF KnownInv, Latency!TypeOK
<1> HIDE DEF LatencyInv
<1>3. /\ frames' \in [0..(FrameCount - 1) ->
              [id : 0..(MaxFrames + 1), cpuPresentEnd : BOOLEAN, presentStatus : BOOLEAN,
               frameEnd : BOOLEAN]]
      /\ \A g \in 1..(MaxFrames + 1) : Latency!Found(g) =>
              /\ frames'[g % FrameCount].id = Latency!Entry(g).id
              /\ \A s \in {"presentStatus", "frameEnd"} :
                   frames'[g % FrameCount][s] = (Latency!Entry(g)[s] \/ (g = frameId /\ s = "cpuPresentEnd"))
  BY <1>1, <1>2, StampStores
<1> USE DEF LatencyInv
<1>4. Latency!TypeOK'
  BY <1>1, <1>3 DEF Latency!TypeOK
<1>5. KnownInv'
  BY <1>1, <1>2, <1>3 DEF KnownInv, Latency!TypeOK
<1>6. ReportsInv'
  BY <1>1 DEF ReportsInv, Reporting, Reported
<1>7. Latency!TimingsSound'
  <2>1. ASSUME NEW g \in 1..(MaxFrames + 1), Latency!Found(g)
        PROVE  /\ frames'[g % FrameCount].presentStatus = Latency!Entry(g).presentStatus
               /\ frames'[g % FrameCount].frameEnd = Latency!Entry(g).frameEnd
    <3>1. g % FrameCount \in 0..(FrameCount - 1)
      BY ModInRange
    <3>2. Latency!Entry(g).presentStatus \in BOOLEAN /\ Latency!Entry(g).frameEnd \in BOOLEAN
      BY <3>1 DEF Latency!Entry, KnownInv
    <3> QED
      BY <1>3, <2>1, <3>2
  <2> QED
    BY <1>1, <1>3, <2>1 DEF Latency!TimingsSound, Latency!Found, Latency!Entry
<1> QED
  BY <1>4, <1>5, <1>6, <1>7

LEMMA SleepBeginsStep ==
  ASSUME LatencyInv, Latency!SleepBegins
  PROVE  LatencyInv'
<1> USE LatencyConstants DEF LatencyInv
<1>1. /\ appPc = "sleep" /\ appPc' \in {"sleep", "begin"} /\ ~asleep /\ asleep' \in BOOLEAN
      /\ asleep' => appPc' = "sleep"
      /\ UNCHANGED <<lowLatency2, presentWait, frames, rangeBegin, rangeEnd, frameId, presents,
                     submitPc, shows, presented, shown, lost>>
  BY DEF Latency!SleepBegins, Latency!options, Latency!rangeVars, Latency!reportVars, KnownInv
<1>2. Latency!TypeOK'
  BY <1>1 DEF Latency!TypeOK
<1>3. KnownInv'
  BY <1>1 DEF KnownInv
<1>4. ReportsInv'
  BY <1>1 DEF ReportsInv, Reporting, Reported
<1>5. Latency!TimingsSound'
  BY <1>1, KnownKept DEF Latency!rangeVars
<1> QED
  BY <1>2, <1>3, <1>4, <1>5

LEMMA InitFrameStep ==
  ASSUME LatencyInv, Latency!InitFrame
  PROVE  LatencyInv'
<1> USE LatencyConstants DEF LatencyInv
<1> DEFINE f == frameId + 1
<1>1. /\ appPc = "begin" /\ appPc' = "idle"
      /\ rangeBegin' = Latency!RangeBegin(f) /\ rangeEnd' = f
      /\ frames' = [frames EXCEPT ![f % FrameCount] = Latency!NewFrame(f)]
      /\ UNCHANGED <<lowLatency2, presentWait, frameId, asleep, presents, submitPc, shows,
                     presented, shown, lost>>
  BY DEF Latency!InitFrame, Latency!options, Latency!reportVars
<1>2. /\ frameId \in Nat /\ f \in 1..(MaxFrames + 1) /\ f % FrameCount \in 0..(FrameCount - 1)
      /\ presented \in 0..frameId /\ shown \in 0..frameId
      /\ rangeBegin \in Nat /\ rangeEnd \in Nat /\ rangeBegin <= rangeEnd + 1
  <2>1. f \in Nat /\ FrameCount \in Nat \ {0} /\ frameId \in Nat /\ f \in 1..(MaxFrames + 1)
    BY DEF Latency!TypeOK
  <2>2. f % FrameCount \in 0..(FrameCount - 1)
    BY <2>1, ModInRange
  <2> QED
    BY <2>1, <2>2 DEF Latency!TypeOK, KnownInv
<1>3. PICK b \in Nat :
        /\ rangeBegin' = b /\ b <= f /\ f < b + FrameCount
        /\ b < f => rangeEnd = frameId /\ rangeBegin <= b
  BY <1>1, <1>2 DEF Latency!RangeBegin
<1>4. /\ Latency!NewFrame(f) \in [id : 0..(MaxFrames + 1), cpuPresentEnd : BOOLEAN,
                                 presentStatus : BOOLEAN, frameEnd : BOOLEAN]
      /\ Latency!NewFrame(f).id = f /\ Latency!NewFrame(f).frameEnd = FALSE
      /\ Latency!NewFrame(f).presentStatus = FALSE
  BY <1>2 DEF Latency!NewFrame
<1>5. /\ frames' \in [0..(FrameCount - 1) -> [id : 0..(MaxFrames + 1), cpuPresentEnd : BOOLEAN,
                                             presentStatus : BOOLEAN, frameEnd : BOOLEAN]]
      /\ frames'[f % FrameCount] = Latency!NewFrame(f)
      /\ \A j \in 0..(FrameCount - 1) : j # f % FrameCount => frames'[j] = frames[j]
  BY <1>1, <1>2, <1>4 DEF KnownInv
<1>6. Latency!TypeOK'
  BY <1>1, <1>2, <1>3, <1>5 DEF Latency!TypeOK
<1>7. KnownInv'
  BY <1>1, <1>2, <1>3, <1>5 DEF KnownInv
<1>8. ReportsInv'
  BY <1>1 DEF ReportsInv, Reporting, Reported
<1>9. Latency!TimingsSound'
  <2>1. ASSUME NEW g \in 1..(MaxFrames + 1), g >= b, g <= f
        PROVE  /\ frames'[g % FrameCount].id = g
               /\ frames'[g % FrameCount].frameEnd <=> g <= shown
               /\ frames'[g % FrameCount].presentStatus <=> g <= presented
    <3>1. CASE g = f
      BY <1>2, <1>4, <1>5, <3>1
    <3>2. CASE g # f
      <4>1. g \in Nat /\ f \in Nat /\ g < f /\ f < g + FrameCount /\ FrameCount \in Nat \ {0}
        BY <1>2, <1>3, <2>1, <3>2
      <4>2. g % FrameCount # f % FrameCount /\ g % FrameCount \in 0..(FrameCount - 1)
        BY <4>1, ModDiffers, ModInRange
      <4>3. g >= rangeBegin /\ g <= rangeEnd
        BY <1>2, <1>3, <2>1, <4>1
      <4>4. frames'[g % FrameCount] = frames[g % FrameCount]
        BY <1>5, <4>2
      <4> QED
        BY <4>3, <4>4 DEF Latency!TimingsSound, Latency!Found, Latency!Entry
    <3> QED
      BY <3>1, <3>2
  <2> QED
    BY <1>1, <1>3, <2>1 DEF Latency!TimingsSound, Latency!Found, Latency!Entry
<1> QED
  BY <1>6, <1>7, <1>8, <1>9

LEMMA QueuePresentStep ==
  ASSUME LatencyInv, Latency!QueuePresent
  PROVE  LatencyInv'
<1> USE LatencyConstants DEF LatencyInv
<1>1. /\ submitPc = "fetch" /\ presents # <<>>
      /\ UNCHANGED <<lowLatency2, presentWait, frames, rangeBegin, rangeEnd, frameId, appPc,
                     asleep, presented, shown, lost>>
  BY DEF Latency!QueuePresent, Latency!options, Latency!rangeVars, Latency!appVars
<1>2. /\ presents \in Seq(Nat) /\ shows \in Seq(1..frameId)
      /\ frameId \in Nat /\ presented \in Nat /\ shown \in Nat
  BY DEF ReportsInv, Latency!TypeOK
<1>3. KnownInv'
  BY <1>1 DEF KnownInv
<1>4. Latency!TimingsSound'
  BY <1>1, KnownKept DEF Latency!rangeVars
<1>5. CASE lost = "known"
  <2>1. presents' = Tail(presents) /\ submitPc' = "fetch" /\ shows' = shows
    BY <1>1, <1>5 DEF Latency!QueuePresent
  <2>2. presents' \in Seq(Nat)
    BY <1>1, <1>2, <2>1, HeadTailProperties
  <2>3. Latency!TypeOK'
    BY <1>1, <2>1 DEF Latency!TypeOK
  <2>4. ReportsInv'
    BY <1>1, <1>5, <2>1, <2>2 DEF ReportsInv, Reporting, Counts
  <2> QED
    BY <1>3, <1>4, <2>3, <2>4
<1>6. CASE lost # "known"
  <2>1. /\ presents' = presents /\ submitPc' = "report"
        /\ shows' = IF presentWait THEN Append(shows, Head(presents)) ELSE shows
    BY <1>1, <1>6 DEF Latency!QueuePresent
  <2>2. Latency!TypeOK'
    BY <1>1, <2>1 DEF Latency!TypeOK
  <2>3. /\ Counts(presents, presented) /\ presented + Len(presents) = frameId
        /\ shown + Len(shows) = presented /\ Counts(shows, shown)
    BY <1>1, <1>2, <1>6 DEF ReportsInv, Reporting, Reported
  <2>4. Head(presents) = presented + 1
    BY <1>1, <1>2, <2>3, CountsTail
  <2>5. Len(presents) \in Nat \ {0} /\ Len(shows) \in Nat
    BY <1>1, <1>2, LenProperties, EmptySeq
  <2>6. CASE presentWait
    <3>1. shows' = Append(shows, shown + Len(shows) + 1)
      BY <1>2, <2>1, <2>3, <2>4, <2>6
    <3>2. shown + Len(shows) + 1 \in 1..frameId /\ shows \in Seq(Nat)
      BY <1>2, <2>3, <2>5, SeqMonotonic
    <3>3. shows' \in Seq(1..frameId) /\ Len(shows') = Len(shows) + 1
      BY <1>2, <3>1, <3>2, AppendProperties
    <3>4. Counts(shows', shown)
      BY <1>2, <2>3, <3>1, <3>2, CountsAppend
    <3>5. shown + Len(shows') = presented + 1
      BY <1>2, <2>3, <2>5, <3>3, SMTT(30)
    <3> QED
      BY <1>1, <1>2, <1>3, <1>4, <2>1, <2>2, <2>3, <2>6, <3>3, <3>4, <3>5
      DEF ReportsInv, Reporting, Reported
  <2>7. CASE ~presentWait
    <3>1. shows' = shows /\ Reported' = presented + 0
      BY <1>1, <2>1, <2>7 DEF Reported
    <3> QED
      BY <1>1, <1>2, <1>3, <1>4, <2>1, <2>2, <2>3, <2>7, <3>1 DEF ReportsInv, Reporting
  <2> QED
    BY <2>6, <2>7
<1> QED
  BY <1>5, <1>6

LEMMA LoseDeviceStep ==
  ASSUME LatencyInv, Latency!LoseDevice
  PROVE  LatencyInv'
<1> USE LatencyConstants DEF LatencyInv
<1>1. /\ lost = "no" /\ lost' \in {"lost", "known"}
      /\ UNCHANGED <<lowLatency2, presentWait, frames, rangeBegin, rangeEnd, frameId, appPc,
                     asleep, presents, submitPc, shows, presented, shown>>
  BY DEF Latency!LoseDevice, Latency!options, Latency!rangeVars, Latency!appVars
<1>2. Latency!TypeOK' /\ KnownInv'
  BY <1>1 DEF Latency!TypeOK, KnownInv
<1>3. ReportsInv'
  BY <1>1 DEF ReportsInv, Reporting, Reported
<1>4. Latency!TimingsSound'
  BY <1>1, KnownKept DEF Latency!rangeVars
<1> QED
  BY <1>2, <1>3, <1>4

\* A report of the frame after the last one keeps the time stamps true.
LEMMA StampSound ==
  ASSUME LatencyInv, NEW f \in 1..frameId, UNCHANGED Latency!rangeVars,
         \/ /\ Latency!Stamp(f, "presentStatus") /\ f = presented + 1
            /\ presented' = f /\ shown' = shown
         \/ /\ Latency!Stamp(f, "frameEnd") /\ f = shown + 1
            /\ shown' = f /\ presented' = presented
  PROVE  /\ frames' \in [0..(FrameCount - 1) ->
              [id : 0..(MaxFrames + 1), cpuPresentEnd : BOOLEAN, presentStatus : BOOLEAN,
               frameEnd : BOOLEAN]]
         /\ Latency!TimingsSound'
<1>0. PICK stamp \in {"cpuPresentEnd", "presentStatus", "frameEnd"} :
        /\ Latency!Stamp(f, stamp)
        /\ \/ stamp = "presentStatus" /\ f = presented + 1 /\ presented' = f /\ shown' = shown
           \/ stamp = "frameEnd" /\ f = shown + 1 /\ shown' = f /\ presented' = presented
  OBVIOUS
<1>1. /\ frames' \in [0..(FrameCount - 1) ->
              [id : 0..(MaxFrames + 1), cpuPresentEnd : BOOLEAN, presentStatus : BOOLEAN,
               frameEnd : BOOLEAN]]
      /\ \A g \in 1..(MaxFrames + 1) : Latency!Found(g) =>
              /\ frames'[g % FrameCount].id = Latency!Entry(g).id
              /\ \A s \in {"presentStatus", "frameEnd"} :
                   frames'[g % FrameCount][s] = (Latency!Entry(g)[s] \/ (g = f /\ s = stamp))
  BY <1>0, StampStores
<1>2. ASSUME NEW g \in 1..(MaxFrames + 1), Latency!Found(g)
      PROVE  /\ frames'[g % FrameCount].id = g
             /\ frames'[g % FrameCount].frameEnd <=> g <= shown'
             /\ frames'[g % FrameCount].presentStatus <=> g <= presented'
  <2>1. /\ Latency!Entry(g).id = g
        /\ Latency!Entry(g).frameEnd <=> g <= shown
        /\ Latency!Entry(g).presentStatus <=> g <= presented
    BY <1>2 DEF LatencyInv, Latency!TimingsSound
  <2>2. /\ frames'[g % FrameCount].id = g
        /\ frames'[g % FrameCount].frameEnd =
             (Latency!Entry(g).frameEnd \/ (g = f /\ stamp = "frameEnd"))
        /\ frames'[g % FrameCount].presentStatus =
             (Latency!Entry(g).presentStatus \/ (g = f /\ stamp = "presentStatus"))
    BY <1>1, <1>2, <2>1
  <2>3. g \in Nat /\ f \in Nat /\ shown \in Nat /\ presented \in Nat
    BY LatencyConstants DEF LatencyInv, Latency!TypeOK
  <2>4. CASE stamp = "presentStatus"
    <3>1. f = presented + 1 /\ presented' = presented + 1 /\ shown' = shown
      BY <1>0, <2>4
    <3>2. g <= presented + 1 <=> g <= presented \/ g = f
      BY <2>3, <3>1
    <3> QED
      BY <2>1, <2>2, <2>4, <3>1, <3>2
  <2>5. CASE stamp = "frameEnd"
    <3>1. f = shown + 1 /\ shown' = shown + 1 /\ presented' = presented
      BY <1>0, <2>5
    <3>2. g <= shown + 1 <=> g <= shown \/ g = f
      BY <2>3, <3>1
    <3> QED
      BY <2>1, <2>2, <2>5, <3>1, <3>2
  <2> QED
    BY <1>0, <2>4, <2>5
<1> QED
  BY <1>1, <1>2 DEF Latency!TimingsSound, Latency!Found, Latency!Entry, Latency!rangeVars

LEMMA NotifyQueuePresentEndStep ==
  ASSUME LatencyInv, Latency!NotifyQueuePresentEnd
  PROVE  LatencyInv'
<1> DEFINE h == Head(presents)
<1>1. /\ submitPc = "report" /\ submitPc' = "fetch" /\ Latency!Stamp(h, "presentStatus")
      /\ asleep' = FALSE /\ presented' = h /\ presents' = Tail(presents)
      /\ UNCHANGED <<lowLatency2, presentWait, rangeBegin, rangeEnd, frameId, appPc, shown>>
      /\ \/ /\ shows' = IF presentWait THEN shows ELSE Append(shows, h)
            /\ lost' = lost
         \/ lost = "lost" /\ lost' = "known" /\ shows' = shows
  BY DEF Latency!NotifyQueuePresentEnd, Latency!options, Latency!rangeVars, Latency!appVars
<1>2. /\ presents \in Seq(Nat) /\ presents # <<>> /\ shows \in Seq(1..frameId)
      /\ frameId \in 0..MaxFrames /\ presented \in Nat /\ shown \in 0..frameId
      /\ Len(presents) \in Nat \ {0} /\ Len(shows) \in Nat
  <2>1. /\ presents \in Seq(Nat) /\ presents # <<>> /\ shows \in Seq(1..frameId)
        /\ frameId \in 0..MaxFrames /\ presented \in Nat /\ shown \in 0..frameId
    BY <1>1, LatencyConstants DEF LatencyInv, ReportsInv, Latency!TypeOK
  <2> QED
    BY <2>1, LenProperties, EmptySeq
<1>3. /\ Counts(presents, presented) /\ presented + Len(presents) = frameId
      /\ Counts(shows, shown) /\ shown + Len(shows) = Reported
  BY <1>1 DEF LatencyInv, ReportsInv, Reporting
<1>4. /\ h = presented + 1 /\ Counts(presents', h)
      /\ presents' \in Seq(Nat) /\ Len(presents') = Len(presents) - 1
  <2>1. h = presented + 1 /\ Counts(Tail(presents), presented + 1)
    BY <1>2, <1>3, CountsTail
  <2> QED
    BY <1>1, <1>2, <2>1, HeadTailProperties
<1>5. h \in 1..frameId /\ h \in Nat /\ frameId \in Nat
  BY <1>2, <1>3, <1>4, LatencyConstants
<1> HIDE DEF h
<1>6. /\ frames' \in [0..(FrameCount - 1) ->
              [id : 0..(MaxFrames + 1), cpuPresentEnd : BOOLEAN, presentStatus : BOOLEAN,
               frameEnd : BOOLEAN]]
      /\ Latency!TimingsSound'
  BY <1>1, <1>4, <1>5, StampSound DEF Latency!rangeVars
<1>7. Latency!TypeOK'
  BY <1>1, <1>5, <1>6, LatencyConstants DEF LatencyInv, Latency!TypeOK
<1>8. KnownInv'
  <2>1. lost' \in {"no", "lost", "known"}
    BY <1>1 DEF LatencyInv, KnownInv
  <2> QED
    BY <1>1, <1>6, <2>1 DEF LatencyInv, KnownInv
<1>9. ReportsInv'
  <2>1. h + Len(presents') = frameId
    <3>1. presented + Len(presents) = frameId /\ presented \in Nat /\ Len(presents) \in Nat
      BY <1>2, <1>3
    <3>2. (presented + 1) + (Len(presents) - 1) = frameId
      BY <3>1
    <3> QED
      BY <1>4, <3>2
  <2>2. /\ shows' \in Seq(1..frameId) /\ Counts(shows', shown)
        /\ lost' # "known" => shown + Len(shows') = h
    <3>1. CASE presentWait
      <4>1. shows' = shows
        BY <1>1, <3>1
      <4>2. shown + Len(shows) = presented + 1
        BY <1>1, <1>3, <3>1 DEF Reported
      <4> QED
        BY <1>2, <1>3, <1>4, <4>1, <4>2
    <3>2. CASE ~presentWait /\ lost' = lost /\ shows' = Append(shows, h)
      <4>1. shown + Len(shows) = presented
        BY <1>2, <1>3, <3>2 DEF Reported
      <4>2. h = shown + Len(shows) + 1
        BY <1>2, <1>4, <4>1
      <4>3. shows' \in Seq(1..frameId) /\ Len(shows') = Len(shows) + 1
        BY <1>2, <1>5, <3>2, AppendProperties
      <4>4. Counts(shows', shown)
        <5>1. shows \in Seq(Nat) /\ shown \in Nat
          BY <1>2, <1>5, SeqMonotonic
        <5> QED
          BY <1>3, <3>2, <4>2, <5>1, CountsAppend
      <4> QED
        BY <1>2, <4>2, <4>3, <4>4
    <3>3. CASE lost' = "known" /\ shows' = shows
      BY <1>2, <1>3, <3>3
    <3> QED
      BY <1>1, <3>1, <3>2, <3>3
  <2>3. Reported' = h /\ (Reporting' => lost' # "known")
    BY <1>1, <1>5 DEF Reported, Reporting
  <2> QED
    BY <1>1, <1>4, <2>1, <2>2, <2>3 DEF ReportsInv
<1> QED
  BY <1>6, <1>7, <1>8, <1>9 DEF LatencyInv

LEMMA NotifyGpuPresentEndStep ==
  ASSUME LatencyInv, Latency!NotifyGpuPresentEnd
  PROVE  LatencyInv'
<1> DEFINE h == Head(shows)
<1>1. /\ shows # <<>> /\ Latency!Stamp(h, "frameEnd")
      /\ asleep' = FALSE /\ shown' = h /\ shows' = Tail(shows)
      /\ UNCHANGED <<lowLatency2, presentWait, rangeBegin, rangeEnd, frameId, appPc, presents,
                     submitPc, presented, lost>>
  BY DEF Latency!NotifyGpuPresentEnd, Latency!options, Latency!rangeVars, Latency!appVars
<1>2. /\ shows \in Seq(1..frameId) /\ frameId \in 0..MaxFrames /\ frameId \in Nat
      /\ shown \in Nat /\ Counts(shows, shown)
  BY LatencyConstants DEF LatencyInv, ReportsInv, Latency!TypeOK
<1>3. /\ Len(shows) \in Nat \ {0} /\ h \in 1..frameId /\ h \in Nat
      /\ shows' \in Seq(1..frameId) /\ Len(shows') = Len(shows) - 1
  <2>1. h \in 1..frameId
    BY <1>1, <1>2, HeadTailProperties
  <2> QED
    BY <1>1, <1>2, <2>1, HeadTailProperties, LenProperties, EmptySeq
<1>4. h = shown + 1 /\ Counts(shows', h)
  <2>1. shows \in Seq(Nat)
    BY <1>2, SeqMonotonic
  <2>2. h = shown + 1 /\ Counts(Tail(shows), shown + 1)
    BY <1>1, <1>2, <2>1, CountsTail
  <2> QED
    BY <1>1, <2>2
<1> HIDE DEF h
<1>5. /\ frames' \in [0..(FrameCount - 1) ->
              [id : 0..(MaxFrames + 1), cpuPresentEnd : BOOLEAN, presentStatus : BOOLEAN,
               frameEnd : BOOLEAN]]
      /\ Latency!TimingsSound'
  BY <1>1, <1>3, <1>4, StampSound DEF Latency!rangeVars
<1>6. Latency!TypeOK'
  BY <1>1, <1>3, <1>5, LatencyConstants DEF LatencyInv, Latency!TypeOK
<1>7. KnownInv'
  BY <1>1, <1>5 DEF LatencyInv, KnownInv
<1>8. ReportsInv'
  <2>1. h + Len(shows') = shown + Len(shows)
    BY <1>2, <1>3, <1>4
  <2>2. Reporting' = Reporting /\ Reported' = Reported
    BY <1>1 DEF Reporting, Reported
  <2> QED
    BY <1>1, <1>3, <1>4, <2>1, <2>2 DEF LatencyInv, ReportsInv
<1> QED
  BY <1>5, <1>6, <1>7, <1>8 DEF LatencyInv

LEMMA LatencyStep ==
  ASSUME LatencyInv, Latency!Next
  PROVE  LatencyInv'
BY PresentFailsStep, PresentImageStep, NotifyCpuPresentEndStep, SleepBeginsStep, InitFrameStep,
   QueuePresentStep, NotifyQueuePresentEndStep, NotifyGpuPresentEndStep, LoseDeviceStep
DEF Latency!Next, Latency!AppStep, Latency!SubmitStep

LEMMA LatencyStutters ==
  ASSUME LatencyInv, UNCHANGED latencyVars
  PROVE  LatencyInv'
BY DEF latencyVars, LatencyInv, Latency!TypeOK, KnownInv, ReportsInv, Reporting, Reported, Counts,
   Latency!TimingsSound, Latency!Found, Latency!Entry

\* The tracker takes no time stamp of one frame for that of another, and loses none, while
\* three threads report to it and the application opens and discards frames.
THEOREM TimingsCorrect == StreamSpec => []TimingsSound
<1>1. StreamInit => LatencyInv
  BY LatencyInit DEF StreamInit
<1>2. LatencyInv /\ [StreamNext]_allVars => LatencyInv'
  BY PartSteps, LatencyStep, LatencyStutters
<1>3. LatencyInv => TimingsSound
  BY DEF LatencyInv, TimingsSound
<1> QED
  BY <1>1, <1>2, <1>3, PTL DEF StreamSpec

-----------------------------------------------------------------------------
(* The descriptor ring *)

LEMMA RingConstants ==
  BlockCount \in Nat \ {0} /\ RangeCount \in Nat \ {0} /\ MaxEntries \in Nat /\ MaxLists \in Nat
BY MCStreamAssumption DEF Ring!RingAssumption

LEMMA RingInit ==
  ASSUME Ring!Init
  PROVE  RingInv
<1> USE RingConstants DEF Ring!Init
<1>0. /\ 0 % BlockCount = 0 /\ Cardinality({}) = 0 /\ {} = 1..0 /\ First = 0 /\ Top = 0 /\ ~Between
      /\ Ring!Stop = MaxEntries + 1
  BY FS_EmptySet DEF First, Top, Between, Ring!Stop
<1>1. Ring!TypeOK
  BY <1>0 DEF Ring!TypeOK
<1>2. UpdatesInv
  BY <1>0 DEF UpdatesInv
<1>3. Ring!UpdatesInOrder /\ Ring!UpdatesBeforeSubmit
  <2>1. written = 1..Cardinality(written)
    BY <1>0
  <2>2. \A e \in 1..entries : FALSE
    OBVIOUS
  <2>3. \A i, j \in DOMAIN blocks : blocks[i] \intersect blocks[j] = {}
    OBVIOUS
  <2>4. \A n \in 1..submitted : FALSE
    OBVIOUS
  <2> QED
    BY <2>1, <2>2, <2>3, <2>4 DEF Ring!UpdatesInOrder, Ring!UpdatesBeforeSubmit
<1>4. FencesInv
  BY <1>0 DEF FencesInv
<1>5. WindowInv
  <2>1. \A i \in 0..(BlockCount - 1) : blocks[i] = {}
    OBVIOUS
  <2>2. \A n \in First..Top : n = 0 /\ Block(n) = {}
    BY <1>0, <2>1 DEF Block
  <2>3. \E lo, hi \in 0..Ring!Stop : {} = lo..hi
    BY <1>0
  <2>4. \E lo \in 0..Ring!Stop : blocks[blockIndex] = lo..entries
    BY <1>0, <2>1
  <2>5. append = 0 /\ csPc = "idle" /\ \A n \in First..(append - 1) : FALSE
    BY <1>0
  <2> HIDE DEF Ring!Init
  <2>6. \A n \in First..Top : \E lo, hi \in 0..Ring!Stop : Block(n) = lo..hi
    BY <2>2, <2>3
  <2>7. \A m \in First..Top, n \in First..Top : \A e \in Block(m), f \in Block(n) : FALSE
    BY <2>2
  <2>8. /\ \A n \in First..Top : \A e \in Block(n) : FALSE
        /\ \A i \in 0..(BlockCount - 1) : blocks[i] # {} => FALSE
    BY <2>1, <2>2
  <2> QED
    BY <2>4, <2>5, <2>6, <2>7, <2>8 DEF WindowInv
<1>6. HandlesInv
  BY DEF HandlesInv
<1> QED
  BY <1>1, <1>2, <1>3, <1>4, <1>5, <1>6 DEF RingInv

\* The window is a range of numbers that have entries of their own.
LEMMA WindowEntries ==
  ASSUME RingInv, csPc # "destroyed"
  PROVE  /\ First \in Nat /\ Top \in Nat /\ consume <= First /\ First <= append
         /\ append \in 0..MaxEntries /\ consume \in Nat
         /\ Top = append \/ Top + 1 = append
         /\ \A n \in First..Top : n \in Nat /\ n % BlockCount \in 0..(BlockCount - 1)
         /\ \A m, n \in First..Top : m # n => m % BlockCount # n % BlockCount
<1> USE RingConstants
<1>1. /\ append \in Nat /\ consume \in Nat /\ append <= entries /\ entries \in 0..MaxEntries
      /\ consume <= append
      /\ Between => append >= 1 /\ append <= consume + BlockCount
      /\ ~Between => append < consume + BlockCount
      /\ ringPc = "signal" => consume < append
  <2>1. ringPc = "signal" => consume < batch /\ batch <= append
    BY DEF RingInv, FencesInv
  <2>2. append \in 0..Ring!Stop /\ batch \in 0..Ring!Stop /\ consume \in 0..MaxEntries /\ entries \in 0..MaxEntries
    BY DEF RingInv, Ring!TypeOK
  <2> QED
    BY <2>1, <2>2 DEF RingInv, FencesInv, Ring!Stop
<1>2. /\ First \in Nat /\ Top \in Nat /\ consume <= First /\ First <= append
      /\ Top = append \/ Top + 1 = append
      /\ Top < consume + BlockCount
  BY <1>1 DEF First, Top
<1>3. \A n \in First..Top : n \in Nat /\ n % BlockCount \in 0..(BlockCount - 1)
  BY <1>2, ModInRange
<1>4. ASSUME NEW m \in First..Top, NEW n \in First..Top, m # n
      PROVE  m % BlockCount # n % BlockCount
  <2>1. m \in Nat /\ n \in Nat /\ m < n + BlockCount /\ n < m + BlockCount
    BY <1>1, <1>2
  <2>2. CASE m < n
    BY <2>1, <2>2, ModDiffers
  <2>3. CASE n < m
    BY <2>1, <2>3, ModDiffers
  <2> QED
    BY <1>4, <2>1, <2>2, <2>3
<1> QED
  BY <1>1, <1>2, <1>3, <1>4

\* The guard of the ring: nothing that is with the worker is in the CS thread's block.
LEMMA BlockIsOwn ==
  ASSUME RingInv
  PROVE  Ring!BlockNotShared
<1>1. SUFFICES ASSUME csPc \in {"idle", "alloc", "handle"}, NEW n \in consume..(append - 1)
               PROVE  n % BlockCount # blockIndex
  BY DEF Ring!BlockNotShared
<1>2. csPc # "destroyed" /\ ~Between
  BY <1>1 DEF Between
<1>3. append \in Nat /\ consume \in Nat
  BY <1>2, WindowEntries
<1>4. append < consume + BlockCount /\ blockIndex = append % BlockCount
  BY <1>2 DEF RingInv, FencesInv, Top
<1>5. n \in Nat /\ n < append /\ append < n + BlockCount /\ BlockCount \in Nat \ {0}
  BY <1>3, <1>4, RingConstants
<1> QED
  BY <1>3, <1>4, <1>5, ModDiffers

LEMMA RingSafeInv ==
  ASSUME RingInv
  PROVE  RingSafe
BY BlockIsOwn DEF RingSafe, Ring!RingSafe, RingInv

LEMMA ListsTyped ==
  ASSUME RingInv, NEW k \in DOMAIN lists
  PROVE  /\ lists[k].needs \in 0..MaxEntries /\ lists[k].needs <= entries
         /\ lists[k].handle \in 0..MaxEntries
<1>1. lists \in Seq([needs : 0..MaxEntries, handle : 0..MaxEntries])
  BY DEF RingInv, UpdatesInv
<1>2. lists[k] \in [needs : 0..MaxEntries, handle : 0..MaxEntries]
  BY <1>1, LenProperties, ElementOfSeq
<1> QED
  BY <1>2 DEF RingInv, UpdatesInv

\* The operator that the instance uses is the one that the library's theorems are about.
LEMMA SameCardinality == \A S : Ring!Cardinality(S) = Cardinality(S)
BY DEF Ring!Cardinality, Cardinality

LEMMA SetSizes ==
  ASSUME RingInv
  PROVE  /\ \A i \in 0..(BlockCount - 1) : Cardinality(blocks[i]) <= RangeCount
         /\ \A i \in 0..(BlockCount - 1) : Cardinality(blocks[i]) \in Nat
<1>1. DOMAIN blocks = 0..(BlockCount - 1)
  BY DEF RingInv, Ring!TypeOK
<1>2. \A i \in DOMAIN blocks : Cardinality(blocks[i]) <= RangeCount
  BY SameCardinality, Zenon DEF RingInv, Ring!TypeOK
<1>3. IsFiniteSet(1..MaxEntries)
  BY RingConstants, FS_Interval
<1>4. ASSUME NEW i \in 0..(BlockCount - 1)
      PROVE  Cardinality(blocks[i]) \in Nat
  <2>1. blocks[i] \in SUBSET (1..MaxEntries)
    BY DEF RingInv, Ring!TypeOK
  <2>2. IsFiniteSet(blocks[i])
    BY <1>3, <2>1, FS_Subset
  <2> QED
    BY <2>2, FS_CardinalityType
<1> QED
  BY <1>1, <1>2, <1>4, Zenon

\* A write to the block that the CS thread has.
LEMMA WriteStep ==
  ASSUME RingInv, csPc \in {"idle", "alloc"}, entries < MaxEntries,
         Cardinality(blocks[blockIndex]) < RangeCount, Ring!Write, csPc' = "idle",
         UNCHANGED <<blockIndex, append, consume, ringPc, batch, written, lists, submitted>>
  PROVE  RingInv'
<1> DEFINE N == entries + 1
           Own == blocks[blockIndex]
<1> USE RingConstants
<1>1. /\ First' = First /\ Top' = Top /\ Top = append /\ ~Between /\ ~Between'
      /\ csPc # "destroyed" /\ csPc' # "destroyed" /\ FencesInv /\ WindowInv /\ HandlesInv
      /\ blockIndex = Top % BlockCount
  BY DEF First, Top, Between, RingInv, FencesInv
<1>2. /\ entries' = N /\ blocks' = [blocks EXCEPT ![blockIndex] = Own \union {N}]
  BY DEF Ring!Write
<1>3. /\ entries \in Nat /\ N \in 1..MaxEntries /\ append <= entries
      /\ First \in Nat /\ Top \in Nat /\ First <= Top
      /\ blockIndex \in 0..(BlockCount - 1)
      /\ \A i \in 0..(BlockCount - 1) : blocks[i] \subseteq 1..entries
      /\ blocks \in [0..(BlockCount - 1) -> SUBSET (1..MaxEntries)]
      /\ Ring!Stop = MaxEntries + 1
  BY <1>1, WindowEntries DEF RingInv, Ring!TypeOK, UpdatesInv, FencesInv, Ring!Stop
<1>4. /\ blocks'[blockIndex] = Own \union {N}
      /\ \A i \in 0..(BlockCount - 1) : i # blockIndex => blocks'[i] = blocks[i]
      /\ blocks' \in [0..(BlockCount - 1) -> SUBSET (1..MaxEntries)]
  BY <1>2, <1>3
<1>5. \A n \in First..Top :
        /\ n = Top => Block(n)' = Own \union {N} /\ Block(n) = Own
        /\ n # Top => Block(n)' = Block(n)
  <2>1. ASSUME NEW n \in First..Top, n # Top
        PROVE  n % BlockCount # blockIndex /\ n % BlockCount \in 0..(BlockCount - 1)
    <3>1. Top \in First..Top
      BY <1>3
    <3> QED
      BY <1>1, <2>1, <3>1, WindowEntries
  <2> QED
    BY <1>1, <1>4, <2>1 DEF Block
<1>6. PICK lo \in 0..Ring!Stop : Own = lo..entries
  BY <1>1 DEF WindowInv
<1>7. \E l \in 0..Ring!Stop : Own \union {N} = l..N
  <2>1. CASE lo <= entries
    <3>1. Own \union {N} = lo..N
      BY <1>3, <1>6, <2>1
    <3> QED
      BY <3>1
  <2>2. CASE lo > entries
    <3>1. Own \union {N} = N..N
      BY <1>3, <1>6, <2>2
    <3> QED
      BY <1>3, <3>1
  <2> QED
    BY <1>3, <1>6, <2>1, <2>2
<1>8. Cardinality(Own \union {N}) <= RangeCount
  <2>1. IsFiniteSet(Own) /\ Cardinality(Own) \in Nat /\ Cardinality(Own) < RangeCount
    BY <1>3, <1>6, FS_Interval, FS_CardinalityType
  <2> HIDE DEF N, Own
  <2>2. Cardinality(Own \union {N}) = IF N \in Own THEN Cardinality(Own) ELSE Cardinality(Own) + 1
    BY <2>1, FS_AddElement
  <2> QED
    BY <2>1, <2>2
<1>9. \A e \in Own : e \in 1..entries
  BY <1>3
<1> HIDE DEF N, Own
<1>10. Ring!TypeOK'
  <2>1. \A i \in 0..(BlockCount - 1) : Cardinality(blocks'[i]) <= RangeCount
    <3>1. \A i \in 0..(BlockCount - 1) : Cardinality(blocks[i]) <= RangeCount
      BY SetSizes
    <3> QED
      BY <1>4, <1>8, <3>1
  <2>2. DOMAIN blocks' = 0..(BlockCount - 1) /\ N \in 0..MaxEntries
    BY <1>3, <1>4
  <2>3. Ring!TypeOK
    BY DEF RingInv
  <2> QED
    BY <1>1, <1>2, <1>4, <2>1, <2>2, <2>3, SMTT(30) DEF Ring!TypeOK, Ring!Stop
<1>11. UpdatesInv'
  <2>1. ASSUME NEW i \in 0..(BlockCount - 1)
        PROVE  blocks'[i] \subseteq 1..N /\ blocks'[i] \intersect written = {}
    <3>1. written \subseteq 1..entries /\ blocks[i] \intersect written = {} /\ blocks[i] \subseteq 1..entries
      BY DEF RingInv, UpdatesInv
    <3>2. N \notin 1..entries /\ 1..entries \subseteq 1..N /\ N \in 1..N
      BY <1>3 DEF N
    <3> QED
      BY <1>4, <3>1, <3>2 DEF Own
  <2>2. ASSUME NEW k \in DOMAIN lists
        PROVE  lists[k].needs <= N
    <3>1. lists[k].needs <= entries /\ lists[k].needs \in 0..MaxEntries
      BY ListsTyped
    <3> QED
      BY <1>3, <3>1 DEF N
  <2>3. written \subseteq 1..N
    BY <1>3 DEF RingInv, UpdatesInv, N
  <2> QED
    BY <1>1, <1>2, <2>1, <2>2, <2>3 DEF RingInv, UpdatesInv
<1>12. Ring!UpdatesInOrder' /\ Ring!UpdatesBeforeSubmit'
  <2>1. DOMAIN blocks = 0..(BlockCount - 1) /\ DOMAIN blocks' = 0..(BlockCount - 1)
    BY <1>3, <1>4
  <2>2. ASSUME NEW e \in 1..N, e \notin written
        PROVE  \E i \in 0..(BlockCount - 1) : e \in blocks'[i]
    <3>1. CASE e = N
      BY <1>3, <1>4, <3>1
    <3>2. CASE e # N
      <4>1. e \in 1..entries
        BY <1>3, <3>2 DEF N
      <4>2. PICK i \in 0..(BlockCount - 1) : e \in blocks[i]
        BY <2>1, <2>2, <4>1 DEF RingInv, Ring!UpdatesInOrder
      <4> QED
        BY <1>4, <4>2 DEF Own
    <3> QED
      BY <3>1, <3>2
  <2>3. ASSUME NEW i \in 0..(BlockCount - 1), NEW j \in 0..(BlockCount - 1), i # j
        PROVE  blocks'[i] \intersect blocks'[j] = {}
    <3>1. blocks[i] \intersect blocks[j] = {}
      BY <2>1, <2>3 DEF RingInv, Ring!UpdatesInOrder
    <3>2. N \notin blocks[i] /\ N \notin blocks[j]
      BY <1>3 DEF N
    <3> QED
      BY <1>4, <2>3, <3>1, <3>2 DEF Own
  <2> QED
    BY <1>2, <2>1, <2>2, <2>3 DEF RingInv, Ring!UpdatesInOrder, Ring!UpdatesBeforeSubmit
<1>13. FencesInv'
  <2>1. append <= N
    BY <1>1, <1>3, WindowEntries DEF N
  <2> QED
    BY <1>1, <1>2, <2>1 DEF FencesInv
<1>14. WindowInv'
  <2>1. ASSUME NEW n \in First..Top
        PROVE  \E l, hi \in 0..Ring!Stop : Block(n)' = l..hi
    <3>1. CASE n = Top
      <4>1. N \in 0..Ring!Stop
        BY <1>3
      <4> QED
        BY <1>5, <1>7, <3>1, <4>1
    <3>2. CASE n # Top
      BY <1>1, <1>5, <3>2 DEF WindowInv
    <3> QED
      BY <3>1, <3>2
  <2>2. ASSUME NEW n \in First..(append - 1) PROVE Block(n)' # {}
    <3>1. n \in First..Top /\ n # Top
      BY <1>1, <1>3
    <3> QED
      BY <1>1, <1>5, <3>1 DEF WindowInv
  <2>3. ASSUME NEW n \in First..Top, NEW e \in Block(n)' PROVE e > n
    <3>1. CASE e = N /\ n = Top
      BY <1>1, <1>3, <3>1 DEF N
    <3>2. CASE ~(e = N /\ n = Top)
      BY <1>1, <1>5, <2>3, <3>2 DEF WindowInv
    <3> QED
      BY <3>1, <3>2
  <2>4. ASSUME NEW m \in First..Top, NEW n \in First..Top, m < n,
               NEW e \in Block(m)', NEW f \in Block(n)'
        PROVE  e < f
    <3>1. m # Top /\ e \in Block(m)
      BY <1>1, <1>3, <1>5, <2>4
    <3>2. CASE f = N /\ n = Top
      <4>1. Block(m) \subseteq 1..entries
        BY <1>3, WindowEntries, <1>1 DEF Block
      <4> QED
        BY <1>3, <3>1, <3>2, <4>1 DEF N
    <3>3. CASE ~(f = N /\ n = Top)
      BY <1>1, <1>5, <2>4, <3>1, <3>3 DEF WindowInv
    <3> QED
      BY <3>2, <3>3
  <2>5. ASSUME NEW i \in 0..(BlockCount - 1), blocks'[i] # {}
        PROVE  \E n \in First..Top : i = n % BlockCount
    <3>1. CASE i = blockIndex
      <4>1. Top \in First..Top
        BY <1>3
      <4> QED
        BY <1>1, <3>1, <4>1
    <3>2. CASE i # blockIndex
      BY <1>1, <1>4, <2>5, <3>2 DEF WindowInv
    <3> QED
      BY <3>1, <3>2
  <2>6. \E l \in 0..Ring!Stop : blocks'[blockIndex] = l..N
    BY <1>4, <1>7
  <2> QED
    BY <1>1, <1>2, <2>1, <2>2, <2>3, <2>4, <2>5, <2>6 DEF WindowInv, Ring!Stop
<1>15. HandlesInv'
  <2>1. ASSUME NEW k \in DOMAIN lists, NEW n \in First..Top, lists[k].handle <= n,
               NEW e \in Block(n)'
        PROVE  e > lists[k].needs
    <3>1. CASE e = N /\ n = Top
      <4>1. lists[k].needs <= entries /\ lists[k].needs \in 0..MaxEntries
        BY ListsTyped
      <4> QED
        BY <1>3, <3>1, <4>1 DEF N
    <3>2. CASE ~(e = N /\ n = Top)
      BY <1>1, <1>5, <2>1, <3>2 DEF HandlesInv
    <3> QED
      BY <3>1, <3>2
  <2> QED
    BY <1>1, <2>1 DEF HandlesInv
<1> QED
  BY <1>1, <1>10, <1>11, <1>12, <1>13, <1>14, <1>15 DEF RingInv

\* The end of a command list, with a block that is empty.
LEMMA FinishListStep ==
  ASSUME RingInv, csPc \in {"idle", "handle"}, Len(lists) < MaxLists, blocks[blockIndex] = {},
         Ring!FinishList, csPc' = "idle",
         UNCHANGED <<blocks, blockIndex, entries, append, consume, ringPc, batch, written, submitted>>
  PROVE  RingInv'
<1> DEFINE L == [needs |-> entries, handle |-> append]
<1> USE RingConstants
<1>1. /\ First' = First /\ Top' = Top /\ Top = append /\ ~Between /\ ~Between'
      /\ csPc # "destroyed" /\ csPc' # "destroyed" /\ FencesInv /\ WindowInv /\ HandlesInv
      /\ blockIndex = Top % BlockCount
  BY DEF First, Top, Between, RingInv, FencesInv
<1>2. /\ lists' = Append(lists, L)
  BY DEF Ring!FinishList, Ring!Handle
<1>3. /\ entries \in 0..MaxEntries /\ append \in 0..MaxEntries /\ append <= entries
      /\ lists \in Seq([needs : 0..MaxEntries, handle : 0..MaxEntries])
      /\ Len(lists) \in Nat /\ submitted \in 0..Len(lists)
      /\ First \in Nat /\ Top \in Nat
  <2>1. lists \in Seq([needs : 0..MaxEntries, handle : 0..MaxEntries])
    BY DEF RingInv, UpdatesInv
  <2> QED
    BY <1>1, <2>1, WindowEntries, LenProperties DEF RingInv, Ring!TypeOK, FencesInv
<1>4. L \in [needs : 0..MaxEntries, handle : 0..MaxEntries] /\ L.needs = entries /\ L.handle = append
  BY <1>3
<1> HIDE DEF L
<1>5. /\ lists' \in Seq([needs : 0..MaxEntries, handle : 0..MaxEntries])
      /\ Len(lists') = Len(lists) + 1 /\ DOMAIN lists' = 1..(Len(lists) + 1)
      /\ DOMAIN lists = 1..Len(lists)
      /\ \A k \in 1..Len(lists) : lists'[k] = lists[k]
      /\ lists'[Len(lists) + 1] = L
  BY <1>2, <1>3, <1>4, AppendProperties, LenProperties
<1>6. Ring!TypeOK'
  BY <1>3, <1>5 DEF RingInv, Ring!TypeOK, Ring!Stop
<1>7. UpdatesInv'
  <2>1. ASSUME NEW k \in DOMAIN lists'
        PROVE  lists'[k].needs <= entries
    <3>1. CASE k = Len(lists) + 1
      BY <1>3, <1>4, <1>5, <3>1
    <3>2. CASE k # Len(lists) + 1
      <4>1. k \in DOMAIN lists /\ lists'[k] = lists[k]
        <5>1. k \in 1..(Len(lists) + 1)
          BY <1>5, <2>1
        <5>2. k \in 1..Len(lists)
          BY <1>3, <3>2, <5>1, SMTT(30)
        <5> QED
          BY <1>5, <5>2
      <4> QED
        BY <4>1, ListsTyped
    <3> QED
      BY <3>1, <3>2
  <2> QED
    BY <1>5, <2>1 DEF RingInv, UpdatesInv
<1>8. Ring!UpdatesInOrder' /\ Ring!UpdatesBeforeSubmit'
  <2>1. \A n \in 1..submitted : n \in 1..Len(lists)
    BY <1>3
  <2>2. \A n \in 1..submitted : lists'[n] = lists[n]
    BY <1>5, <2>1
  <2> QED
    BY <2>2 DEF RingInv, Ring!UpdatesInOrder, Ring!UpdatesBeforeSubmit
<1>9. FencesInv'
  BY <1>1 DEF FencesInv
<1>10. WindowInv'
  <2>1. csPc' \notin {"flushAlloc", "flushHandle", "alloc", "handle"}
    BY <1>1
  <2>2. UNCHANGED <<blocks, blockIndex, entries, append, First, Top>>
    BY <1>1
  <2>3. \A n : Block(n)' = Block(n)
    BY DEF Block
  <2> QED
    BY <1>1, <2>1, <2>2, <2>3 DEF WindowInv, Ring!Stop
<1>11. HandlesInv'
  <2>1. ASSUME NEW k \in DOMAIN lists'
        PROVE  /\ lists'[k].handle <= append
               /\ \A n \in First..Top : lists'[k].handle <= n => \A e \in Block(n) : e > lists'[k].needs
    <3>1. CASE k = Len(lists) + 1
      <4>1. lists'[k].handle = append
        BY <1>4, <1>5, <3>1
      <4>2. \A n \in First..Top : append <= n => Block(n) = {}
        <5>1. \A n \in First..Top : append <= n => n = Top
          BY <1>1, <1>3
        <5>2. Block(Top) = {}
          BY <1>1 DEF Block
        <5> QED
          BY <5>1, <5>2
      <4> QED
        BY <1>3, <4>1, <4>2
    <3>2. CASE k # Len(lists) + 1
      <4>1. k \in DOMAIN lists /\ lists'[k] = lists[k]
        <5>1. k \in 1..(Len(lists) + 1)
          BY <1>5, <2>1
        <5>2. k \in 1..Len(lists)
          BY <1>3, <3>2, <5>1, SMTT(30)
        <5> QED
          BY <1>5, <5>2
      <4> QED
        BY <1>1, <4>1 DEF HandlesInv
    <3> QED
      BY <3>1, <3>2
  <2>2. \A n \in First..Top : Block(n)' = Block(n)
    BY DEF Block
  <2> QED
    BY <1>1, <2>1, <2>2 DEF HandlesInv
<1> QED
  BY <1>1, <1>6, <1>7, <1>8, <1>9, <1>10, <1>11 DEF RingInv

LEMMA AllocEntryStep ==
  ASSUME RingInv, Ring!AllocEntry
  PROVE  RingInv'
<1>1. /\ csPc = "idle" /\ entries < MaxEntries
      /\ UNCHANGED <<blockIndex, append, consume, ringPc, batch, written, lists, submitted>>
  BY DEF Ring!AllocEntry, Ring!workerVars, Ring!listVars
<1>2. Cardinality(blocks[blockIndex]) <= RangeCount /\ Cardinality(blocks[blockIndex]) \in Nat
  <2>1. blockIndex \in 0..(BlockCount - 1)
    BY DEF RingInv, Ring!TypeOK
  <2> QED
    BY <2>1, SetSizes
<1>3. CASE Ring!IsFull
  <2>1. csPc' = "flushAlloc" /\ UNCHANGED <<entries, blocks>>
    BY <1>3 DEF Ring!AllocEntry
  <2>2. blocks[blockIndex] # {}
    <3>1. Cardinality(blocks[blockIndex]) = RangeCount /\ RangeCount # 0 /\ Cardinality({}) = 0
      BY <1>3, RingConstants, FS_EmptySet, SameCardinality DEF Ring!IsFull
    <3> QED
      BY <3>1
  <2>3. First' = First /\ Top' = Top /\ Between' = Between /\ ~Between
    BY <1>1, <2>1 DEF First, Top, Between
  <2>4. Ring!TypeOK' /\ UpdatesInv'
    BY <1>1, <2>1 DEF RingInv, Ring!TypeOK, UpdatesInv, Ring!Stop
  <2>5. Ring!UpdatesInOrder' /\ Ring!UpdatesBeforeSubmit'
    BY <1>1, <2>1 DEF RingInv, Ring!UpdatesInOrder, Ring!UpdatesBeforeSubmit
  <2>6. FencesInv' /\ HandlesInv'
    BY <1>1, <2>1, <2>3 DEF RingInv, FencesInv, HandlesInv, Block
  <2>7. WindowInv'
    BY <1>1, <2>1, <2>2, <2>3 DEF RingInv, WindowInv, Block, Ring!Stop
  <2> QED
    BY <1>1, <2>1, <2>4, <2>5, <2>6, <2>7 DEF RingInv
<1>4. CASE ~Ring!IsFull
  <2>1. Ring!Write /\ csPc' = "idle"
    BY <1>1, <1>4 DEF Ring!AllocEntry
  <2>2. Cardinality(blocks[blockIndex]) < RangeCount
    <3>1. Cardinality(blocks[blockIndex]) # RangeCount
      BY <1>4, SameCardinality DEF Ring!IsFull
    <3> QED
      BY <1>2, <3>1, RingConstants
  <2> QED
    BY <1>1, <2>1, <2>2, WriteStep
<1> QED
  BY <1>3, <1>4

LEMMA GetSyncHandleStep ==
  ASSUME RingInv, Ring!GetSyncHandle
  PROVE  RingInv'
<1>1. /\ csPc = "idle" /\ Len(lists) < MaxLists
      /\ UNCHANGED <<blocks, blockIndex, entries, append, consume, ringPc, batch, written, submitted>>
  BY DEF Ring!GetSyncHandle, Ring!workerVars
<1>2. CASE blocks[blockIndex] = {}
  BY <1>1, <1>2, FinishListStep DEF Ring!GetSyncHandle
<1>3. CASE blocks[blockIndex] # {}
  <2>1. csPc' = "flushHandle" /\ lists' = lists
    BY <1>3 DEF Ring!GetSyncHandle
  <2>2. First' = First /\ Top' = Top /\ Between' = Between /\ ~Between
    BY <1>1, <2>1 DEF First, Top, Between
  <2>3. Ring!TypeOK' /\ UpdatesInv'
    BY <1>1, <2>1 DEF RingInv, Ring!TypeOK, UpdatesInv, Ring!Stop
  <2>4. Ring!UpdatesInOrder' /\ Ring!UpdatesBeforeSubmit'
    BY <1>1, <2>1 DEF RingInv, Ring!UpdatesInOrder, Ring!UpdatesBeforeSubmit
  <2>5. FencesInv' /\ HandlesInv'
    BY <1>1, <2>1, <2>2 DEF RingInv, FencesInv, HandlesInv, Block
  <2>6. WindowInv'
    BY <1>1, <1>3, <2>1, <2>2 DEF RingInv, WindowInv, Block, Ring!Stop
  <2> QED
    BY <1>1, <2>1, <2>3, <2>4, <2>5, <2>6 DEF RingInv
<1> QED
  BY <1>2, <1>3

LEMMA SignalAppendStep ==
  ASSUME RingInv, Ring!SignalAppend
  PROVE  RingInv'
<1> USE RingConstants
<1>1. /\ append' = append + 1
      /\ \/ csPc = "flushAlloc" /\ csPc' = "nextAlloc"
         \/ csPc = "flushHandle" /\ csPc' = "nextHandle"
      /\ UNCHANGED <<blocks, blockIndex, entries, consume, ringPc, batch, written, lists, submitted>>
  BY DEF Ring!SignalAppend, Ring!workerVars, Ring!listVars
<1>2. /\ csPc # "destroyed" /\ csPc' # "destroyed" /\ ~Between /\ Between' /\ Top = append
      /\ FencesInv /\ WindowInv /\ HandlesInv
  BY <1>1 DEF Between, Top, RingInv
<1>3. /\ append \in Nat /\ First \in Nat /\ First <= append /\ consume \in Nat
      /\ entries \in 0..MaxEntries /\ blockIndex \in 0..(BlockCount - 1)
  BY <1>2, WindowEntries DEF RingInv, Ring!TypeOK
<1>4. First' = First /\ Top' = Top
  BY <1>1, <1>2, <1>3 DEF First, Top
<1>5. Block(append) = blocks[blockIndex] /\ Block(append) # {}
  BY <1>1, <1>2 DEF FencesInv, WindowInv, Block
<1>6. append + 1 <= entries
  <2>1. PICK e \in Block(append) : TRUE
    BY <1>5
  <2>2. e > append
    BY <1>2, <1>3, <2>1 DEF WindowInv
  <2>3. e \in 1..entries
    BY <1>3, <1>5, <2>1 DEF RingInv, UpdatesInv
  <2> QED
    BY <1>3, <2>2, <2>3
<1>7. Ring!TypeOK'
  BY <1>1, <1>3, <1>6 DEF RingInv, Ring!TypeOK, Ring!Stop
<1>8. UpdatesInv'
  BY <1>1 DEF RingInv, UpdatesInv
<1>9. Ring!UpdatesInOrder' /\ Ring!UpdatesBeforeSubmit'
  BY <1>1 DEF RingInv, Ring!UpdatesInOrder, Ring!UpdatesBeforeSubmit
<1>10. FencesInv'
  <2>1. /\ consume <= append + 1 /\ append + 1 >= 1 /\ append + 1 <= consume + BlockCount
        /\ ringPc \in {"process", "signal"} => consume < batch /\ batch <= append + 1
    <3>1. append < consume + BlockCount /\ consume <= append
      BY <1>2 DEF FencesInv
    <3>2. batch \in Nat
      BY DEF RingInv, Ring!TypeOK, Ring!Stop
    <3> QED
      BY <1>2, <1>3, <3>1, <3>2 DEF FencesInv
  <2>2. blockIndex = Top % BlockCount /\ ringPc # "exit"
    BY <1>2 DEF FencesInv
  <2> QED
    BY <1>1, <1>2, <1>4, <1>6, <2>1, <2>2 DEF FencesInv
<1>11. WindowInv'
  <2>1. \A n \in First..append : Block(n) # {}
    <3>1. ASSUME NEW n \in First..append PROVE Block(n) # {}
      <4>1. CASE n = append
        BY <1>5, <4>1
      <4>2. CASE n # append
        <5>1. n \in First..(append - 1)
          BY <1>3, <4>2
        <5> QED
          BY <1>2, <5>1 DEF WindowInv
      <4> QED
        BY <4>1, <4>2
    <3> QED
      BY <3>1
  <2>2. (append + 1) - 1 = append
    BY <1>3
  <2>3. \A n : Block(n)' = Block(n)
    BY <1>1 DEF Block
  <2>4. csPc' \notin {"flushAlloc", "flushHandle", "alloc", "handle"}
    BY <1>1
  <2> QED
    BY <1>1, <1>2, <1>4, <2>1, <2>2, <2>3, <2>4, SMTT(30) DEF WindowInv, Ring!Stop
<1>12. HandlesInv'
  <2>1. ASSUME NEW k \in DOMAIN lists PROVE lists[k].handle <= append + 1
    BY <1>2, <1>3, ListsTyped DEF HandlesInv
  <2>2. \A n : Block(n)' = Block(n)
    BY <1>1 DEF Block
  <2> QED
    BY <1>1, <1>2, <1>4, <2>1, <2>2 DEF HandlesInv
<1> QED
  BY <1>2, <1>7, <1>8, <1>9, <1>10, <1>11, <1>12 DEF RingInv

LEMMA NextBlockStep ==
  ASSUME RingInv, Ring!NextBlock
  PROVE  RingInv'
<1> USE RingConstants
<1>1. /\ csPc \in {"nextAlloc", "nextHandle"} /\ Ring!NextUsable
      /\ blockIndex' = append % BlockCount
      /\ csPc' = IF csPc = "nextAlloc" THEN "alloc" ELSE "handle"
      /\ UNCHANGED <<blocks, entries, append, consume, ringPc, batch, written, lists, submitted>>
  BY DEF Ring!NextBlock, Ring!workerVars, Ring!listVars
<1>2. /\ csPc # "destroyed" /\ csPc' # "destroyed" /\ Between /\ ~Between' /\ Top = append - 1
      /\ csPc' \in {"alloc", "handle"}
      /\ FencesInv /\ WindowInv /\ HandlesInv
  BY <1>1 DEF Between, Top, RingInv
<1>3. /\ append \in 0..MaxEntries /\ First \in Nat /\ First <= append /\ consume \in Nat /\ consume <= First
      /\ entries \in 0..MaxEntries /\ append >= 1 /\ Ring!Stop = MaxEntries + 1
      /\ append % BlockCount \in 0..(BlockCount - 1)
  <2>1. append \in 0..MaxEntries /\ append \in Nat
    BY <1>2, WindowEntries
  <2>2. append % BlockCount \in 0..(BlockCount - 1)
    BY <2>1, ModInRange
  <2> QED
    BY <1>2, <2>1, <2>2, WindowEntries DEF RingInv, Ring!TypeOK, FencesInv, Ring!Stop
<1>4. First' = First /\ Top' = append
  BY <1>1, <1>2 DEF First, Top
<1>5. append < consume + BlockCount
  <2>1. append >= BlockCount => consume >= append - BlockCount + 1
    BY <1>1 DEF Ring!NextUsable
  <2> QED
    BY <1>3, <2>1
<1>6. Block(append) = {}
  <2>1. SUFFICES ASSUME Block(append) # {} PROVE FALSE
    OBVIOUS
  <2>2. PICK n \in First..Top : append % BlockCount = n % BlockCount
    BY <1>2, <1>3, <2>1 DEF WindowInv, Block
  <2>3. n \in Nat /\ append \in Nat /\ n < append /\ append < n + BlockCount
    BY <1>2, <1>3, <1>5
  <2>4. n % BlockCount # append % BlockCount
    BY <2>3, ModDiffers
  <2> QED
    BY <2>2, <2>4
<1>7. Ring!TypeOK'
  BY <1>1, <1>2, <1>3 DEF RingInv, Ring!TypeOK, Ring!Stop
<1>8. UpdatesInv'
  BY <1>1 DEF RingInv, UpdatesInv
<1>9. Ring!UpdatesInOrder' /\ Ring!UpdatesBeforeSubmit'
  BY <1>1 DEF RingInv, Ring!UpdatesInOrder, Ring!UpdatesBeforeSubmit
<1>10. FencesInv'
  BY <1>1, <1>2, <1>4, <1>5 DEF FencesInv
<1>11. \A n \in First..append : n = append \/ n \in First..Top
  BY <1>2, <1>3
<1>12. \A n : Block(n)' = Block(n)
  BY <1>1 DEF Block
<1>13. WindowInv'
  <2>1. \A n \in First..append : \E lo, hi \in 0..Ring!Stop : Block(n) = lo..hi
    <3>1. {} = 1..0 /\ 0 \in 0..Ring!Stop /\ 1 \in 0..Ring!Stop
      BY <1>3
    <3>2. \E lo, hi \in 0..Ring!Stop : {} = lo..hi
      BY <3>1
    <3> QED
      BY <1>2, <1>6, <1>11, <3>2 DEF WindowInv
  <2>2. \A n \in First..append : \A e \in Block(n) : e > n
    BY <1>2, <1>6, <1>11 DEF WindowInv
  <2>3. \A m \in First..append, n \in First..append :
          m < n => \A e \in Block(m), f \in Block(n) : e < f
    BY <1>2, <1>6, <1>11 DEF WindowInv
  <2>4. \A i \in 0..(BlockCount - 1) : blocks[i] # {} => \E n \in First..append : i = n % BlockCount
    <3>1. First..Top \subseteq First..append
      BY <1>2, <1>3
    <3> QED
      BY <1>2, <3>1 DEF WindowInv
  <2>5. blocks[append % BlockCount] = {}
    BY <1>6 DEF Block
  <2>6. \E lo \in 0..Ring!Stop : {} = lo..entries
    <3>1. {} = (entries + 1)..entries /\ entries + 1 \in 0..Ring!Stop
      BY <1>3
    <3> QED
      BY <3>1
  <2>7. \A n \in First..(append - 1) : Block(n) # {}
    BY <1>2 DEF WindowInv
  <2>8. blocks'[blockIndex'] = {} /\ csPc' \notin {"flushAlloc", "flushHandle"}
    BY <1>1, <1>2, <2>5
  <2>9. \E lo \in 0..Ring!Stop' : blocks'[blockIndex'] = lo..entries'
    BY <1>1, <2>6, <2>8 DEF Ring!Stop
  <2>10. First' = First /\ Top' = append /\ append' = append /\ Ring!Stop' = Ring!Stop
    BY <1>1, <1>4 DEF Ring!Stop
  <2>11. /\ \A n \in First'..Top' : \E lo, hi \in 0..Ring!Stop' : Block(n)' = lo..hi
         /\ \A n \in First'..(append' - 1) : Block(n)' # {}
         /\ \A n \in First'..Top' : \A e \in Block(n)' : e > n
    BY <1>12, <2>1, <2>2, <2>7, <2>10
  <2>12. \A m \in First'..Top', n \in First'..Top' :
           m < n => \A e \in Block(m)', f \in Block(n)' : e < f
    BY <1>12, <2>3, <2>10
  <2>13. \A i \in 0..(BlockCount - 1) :
           blocks'[i] # {} => \E n \in First'..Top' : i = n % BlockCount
    BY <1>1, <2>4, <2>10
  <2> QED
    BY <2>8, <2>9, <2>11, <2>12, <2>13 DEF WindowInv
<1>14. HandlesInv'
  BY <1>1, <1>2, <1>4, <1>6, <1>11, <1>12 DEF HandlesInv
<1> QED
  BY <1>2, <1>7, <1>8, <1>9, <1>10, <1>13, <1>14 DEF RingInv

LEMMA ReturnFromFlushStep ==
  ASSUME RingInv, Ring!ReturnFromFlush
  PROVE  RingInv'
<1>1. /\ csPc' = "idle" /\ csPc \in {"alloc", "handle"}
      /\ UNCHANGED <<blockIndex, append, consume, ringPc, batch, written, submitted>>
  BY DEF Ring!ReturnFromFlush, Ring!workerVars
<1>2. blocks[blockIndex] = {}
  BY <1>1 DEF RingInv, WindowInv
<1>3. CASE csPc = "alloc"
  <2>1. Ring!Write /\ lists' = lists
    BY <1>3 DEF Ring!ReturnFromFlush
  <2>2. entries < MaxEntries
    BY <1>3 DEF RingInv, UpdatesInv
  <2>3. Cardinality(blocks[blockIndex]) < RangeCount
    BY <1>2, FS_EmptySet, RingConstants
  <2>4. UNCHANGED <<blockIndex, append, consume, ringPc, batch, written, lists, submitted>>
    BY <1>1, <2>1
  <2> QED
    BY <1>1, <1>3, <2>1, <2>2, <2>3, <2>4, WriteStep
<1>4. CASE csPc = "handle"
  <2>1. Ring!FinishList /\ UNCHANGED <<entries, blocks>>
    BY <1>4 DEF Ring!ReturnFromFlush
  <2>2. Len(lists) < MaxLists
    BY <1>4 DEF RingInv, UpdatesInv
  <2>3. UNCHANGED <<blocks, blockIndex, entries, append, consume, ringPc, batch, written, submitted>>
    BY <1>1, <2>1
  <2> QED
    BY <1>1, <1>2, <1>4, <2>1, <2>2, <2>3, FinishListStep
<1> QED
  BY <1>1, <1>3, <1>4

LEMMA WorkerWaitStep ==
  ASSUME RingInv, Ring!WorkerWait
  PROVE  RingInv'
<1>1. /\ ringPc = "wait" /\ append >= consume + 1 /\ batch' = append
      /\ ringPc' = IF append = Ring!Stop THEN "exit" ELSE "process"
      /\ UNCHANGED <<blocks, blockIndex, entries, append, consume, csPc, written, lists, submitted>>
  BY DEF Ring!WorkerWait, Ring!listVars
<1>2. Ring!TypeOK'
  BY <1>1 DEF RingInv, Ring!TypeOK, Ring!Stop
<1>3. UpdatesInv'
  BY <1>1 DEF RingInv, UpdatesInv
<1>4. Ring!UpdatesInOrder' /\ Ring!UpdatesBeforeSubmit'
  BY <1>1 DEF RingInv, Ring!UpdatesInOrder, Ring!UpdatesBeforeSubmit
<1>5. CASE csPc = "destroyed"
  <2>1. DestroyedInv'
    BY <1>1, <1>5 DEF RingInv, DestroyedInv, Ring!Stop
  <2> QED
    BY <1>1, <1>2, <1>3, <1>4, <1>5, <2>1 DEF RingInv
<1>6. CASE csPc # "destroyed"
  <2>1. append # Ring!Stop
    BY <1>6, WindowEntries, RingConstants DEF Ring!Stop
  <2>2. ringPc' = "process" /\ append \in Nat /\ consume \in Nat
    BY <1>1, <1>6, <2>1, WindowEntries, RingConstants
  <2>3. First' = First /\ Top' = Top /\ csPc' = csPc /\ (\A n : Block(n)' = Block(n))
    BY <1>1, <2>2 DEF First, Top, Between, Block
  <2>4. FencesInv'
    <3>1. consume < append
      BY <1>1, <2>2
    <3> QED
      BY <1>1, <1>6, <2>2, <2>3, <3>1 DEF RingInv, FencesInv, Between
  <2>5. WindowInv'
    BY <1>1, <1>6, <2>3 DEF RingInv, WindowInv, Between, Ring!Stop
  <2>6. HandlesInv'
    BY <1>1, <1>6, <2>3 DEF RingInv, HandlesInv
  <2> QED
    BY <1>1, <1>2, <1>3, <1>4, <1>6, <2>4, <2>5, <2>6 DEF RingInv
<1> QED
  BY <1>5, <1>6

\* The worker writes the first block of the window.
LEMMA ProcessBlockStep ==
  ASSUME RingInv, Ring!ProcessBlock
  PROVE  RingInv'
<1> DEFINE Mine == Block(consume)
           i0 == consume % BlockCount
<1> USE RingConstants
<1>1. /\ ringPc = "process" /\ ringPc' = "signal"
      /\ written' = written \union Mine
      /\ blocks' = [blocks EXCEPT ![i0] = {}]
      /\ UNCHANGED <<blockIndex, entries, append, consume, csPc, batch, lists, submitted>>
  BY DEF Ring!ProcessBlock, Ring!listVars, Block
<1>2. /\ csPc # "destroyed" /\ FencesInv /\ WindowInv /\ HandlesInv
  BY <1>1 DEF RingInv, DestroyedInv
<1>3. /\ append \in Nat /\ consume \in Nat /\ consume < append /\ First = consume
      /\ Top \in Nat /\ First <= Top /\ (Top = append \/ Top + 1 = append)
      /\ entries \in 0..MaxEntries
  <2>1. consume < batch /\ batch <= append /\ batch \in Nat
    BY <1>1, <1>2 DEF RingInv, FencesInv, Ring!TypeOK, Ring!Stop
  <2>2. append \in Nat /\ consume \in Nat /\ Top \in Nat /\ (Top = append \/ Top + 1 = append)
    BY <1>2, WindowEntries
  <2>3. entries \in 0..MaxEntries
    BY DEF RingInv, Ring!TypeOK
  <2> QED
    BY <1>1, <2>1, <2>2, <2>3 DEF First
<1>4. First' = consume + 1 /\ Top' = Top /\ (Between' <=> Between)
  BY <1>1 DEF First, Top, Between
<1>5. /\ i0 \in 0..(BlockCount - 1) /\ consume \in First..Top
      /\ \A n \in (consume + 1)..Top :
           n \in First..Top /\ n # consume /\ n % BlockCount # i0 /\ n % BlockCount \in 0..(BlockCount - 1)
  <2>1. consume \in First..Top
    <3>1. consume \in Nat /\ Top \in Nat /\ consume <= Top /\ First = consume
      BY <1>3
    <3>2. consume \in consume..Top
      BY <3>1
    <3> QED
      BY <3>1, <3>2
  <2>2. ASSUME NEW n \in (consume + 1)..Top PROVE n \in First..Top /\ n # consume
    <3>1. n \in Int /\ consume + 1 <= n /\ n <= Top
      BY <1>3
    <3>2. n \in consume..Top /\ n # consume
      BY <1>3, <3>1
    <3> QED
      BY <1>3, <3>2
  <2> QED
    BY <1>2, <2>1, <2>2, WindowEntries
<1>6. /\ blocks' \in [0..(BlockCount - 1) -> SUBSET (1..MaxEntries)]
      /\ blocks \in [0..(BlockCount - 1) -> SUBSET (1..MaxEntries)]
      /\ blocks'[i0] = {} /\ \A i \in 0..(BlockCount - 1) : i # i0 => blocks'[i] = blocks[i]
  BY <1>1, <1>5 DEF RingInv, Ring!TypeOK
<1>7. \A n \in (consume + 1)..Top : Block(n)' = Block(n)
  BY <1>5, <1>6 DEF Block
<1>8. PICK lo, hi \in 0..Ring!Stop : Mine = lo..hi
  BY <1>2, <1>5 DEF WindowInv
<1>9. Mine # {} /\ Mine \subseteq 1..entries /\ Mine \intersect written = {} /\ Mine = blocks[i0]
  <2>1. consume \in First..(append - 1)
    BY <1>3
  <2> QED
    BY <1>2, <1>5, <2>1 DEF WindowInv, RingInv, UpdatesInv, Block
<1>10. lo \in Nat /\ hi \in Nat /\ 1 <= lo /\ lo <= hi /\ hi <= entries /\ lo \in Mine /\ hi \in Mine
  <2>1. lo \in Nat /\ hi \in Nat
    BY DEF Ring!Stop
  <2>2. lo <= hi
    BY <1>8, <1>9, <2>1
  <2>3. lo \in Mine /\ hi \in Mine
    BY <1>8, <2>1, <2>2
  <2> QED
    BY <1>3, <1>9, <2>1, <2>2, <2>3
<1> HIDE DEF Mine, i0
<1>11. written' = 1..hi
  <2>1. PICK w \in Int : written = 1..w
    <3>1. written = 1..Ring!Cardinality(written)
      BY DEF RingInv, Ring!UpdatesInOrder
    <3>2. Cardinality(written) \in Int
      <4>1. written \in SUBSET (1..entries) /\ IsFiniteSet(1..entries)
        BY <1>3, FS_Interval DEF RingInv, UpdatesInv
      <4>2. IsFiniteSet(written)
        BY <4>1, FS_Subset
      <4> QED
        BY <4>2, FS_CardinalityType
    <3> QED
      BY <3>1, <3>2, SameCardinality
  <2>2. w < hi
    <3>1. hi \notin 1..w
      BY <1>9, <1>10, <2>1
    <3> QED
      BY <1>10, <2>1, <3>1
  <2>3. ASSUME NEW e \in 1..hi PROVE e \in written \union Mine
    <3>1. SUFFICES ASSUME e \notin written, e \notin Mine PROVE FALSE
      OBVIOUS
    <3>2. e < lo
      BY <1>8, <1>10, <3>1
    <3>3. PICK i \in 0..(BlockCount - 1) : e \in blocks[i]
      <4>1. e \in 1..entries
        BY <1>3, <1>10
      <4> QED
        BY <1>6, <3>1, <4>1 DEF RingInv, Ring!UpdatesInOrder
    <3>4. PICK n \in First..Top : i = n % BlockCount
      BY <1>2, <3>3 DEF WindowInv
    <3>5. e \in Block(n)
      BY <3>3, <3>4 DEF Block
    <3>6. n # consume
      BY <3>1, <3>5 DEF Mine
    <3>7. consume < n
      BY <1>3, <3>4, <3>6
    <3>8. lo < e
      BY <1>2, <1>5, <1>10, <3>4, <3>5, <3>7 DEF WindowInv, Mine
    <3> QED
      BY <1>10, <3>2, <3>8
  <2>4. written \union Mine \subseteq 1..hi
    BY <1>8, <1>10, <2>1, <2>2
  <2> QED
    BY <1>1, <2>3, <2>4
<1>12. Ring!TypeOK'
  <2>1. \A i \in 0..(BlockCount - 1) : Ring!Cardinality(blocks'[i]) <= RangeCount
    <3>1. Ring!Cardinality({}) = 0
      BY SameCardinality, FS_EmptySet
    <3>2. \A i \in 0..(BlockCount - 1) : Ring!Cardinality(blocks[i]) <= RangeCount
      BY SameCardinality, SetSizes
    <3>3. ASSUME NEW i \in 0..(BlockCount - 1)
          PROVE  blocks'[i] = {} \/ blocks'[i] = blocks[i]
      BY <1>6
    <3>4. 0 <= RangeCount
      OBVIOUS
    <3> QED
      BY <3>1, <3>2, <3>3, <3>4
  <2>2. DOMAIN blocks' = 0..(BlockCount - 1) /\ written' \subseteq 1..MaxEntries
    BY <1>3, <1>6, <1>10, <1>11
  <2>3. Ring!TypeOK
    BY DEF RingInv
  <2> QED
    BY <1>1, <1>6, <2>1, <2>2, <2>3 DEF Ring!TypeOK, Ring!Stop
<1>13. UpdatesInv'
  <2>1. ASSUME NEW i \in 0..(BlockCount - 1)
        PROVE  blocks'[i] \subseteq 1..entries /\ blocks'[i] \intersect (written \union Mine) = {}
    <3>1. CASE i = i0
      BY <1>6, <3>1
    <3>2. CASE i # i0
      <4>1. blocks'[i] = blocks[i]
        BY <1>6, <3>2
      <4>2. blocks[i] \intersect blocks[i0] = {}
        BY <1>5, <1>6, <3>2 DEF RingInv, Ring!UpdatesInOrder
      <4>3. blocks[i] \subseteq 1..entries /\ blocks[i] \intersect written = {}
        BY DEF RingInv, UpdatesInv
      <4> QED
        BY <1>9, <4>1, <4>2, <4>3
    <3> QED
      BY <3>1, <3>2
  <2>2. written \union Mine \subseteq 1..entries
    BY <1>9 DEF RingInv, UpdatesInv
  <2> QED
    BY <1>1, <2>1, <2>2 DEF RingInv, UpdatesInv
<1>14. Ring!UpdatesInOrder'
  <2>1. written' = 1..Ring!Cardinality(written')
    <3>1. Cardinality(1..hi) = hi
      <4>1. Cardinality(1..hi) = IF 1 > hi THEN 0 ELSE hi - 1 + 1
        BY <1>10, FS_Interval
      <4> QED
        BY <1>10, <4>1
    <3> QED
      BY <1>11, <3>1, SameCardinality
  <2>2. ASSUME NEW e \in 1..entries, e \notin written \union Mine
        PROVE  \E i \in DOMAIN blocks' : e \in blocks'[i]
    <3>1. PICK i \in 0..(BlockCount - 1) : e \in blocks[i]
      BY <1>6, <2>2 DEF RingInv, Ring!UpdatesInOrder
    <3>2. i # i0
      BY <1>9, <2>2, <3>1
    <3> QED
      BY <1>6, <3>1, <3>2
  <2>3. ASSUME NEW i \in DOMAIN blocks', NEW j \in DOMAIN blocks', i # j
        PROVE  blocks'[i] \intersect blocks'[j] = {}
    <3>1. i \in 0..(BlockCount - 1) /\ j \in 0..(BlockCount - 1)
      BY <1>6
    <3>2. blocks[i] \intersect blocks[j] = {}
      BY <1>6, <2>3, <3>1 DEF RingInv, Ring!UpdatesInOrder
    <3> QED
      BY <1>6, <3>1, <3>2
  <2> QED
    BY <1>1, <2>1, <2>2, <2>3 DEF Ring!UpdatesInOrder
<1>15. Ring!UpdatesBeforeSubmit'
  BY <1>1 DEF RingInv, Ring!UpdatesBeforeSubmit
<1>16. FencesInv'
  BY <1>1, <1>2, <1>4 DEF FencesInv
<1>17. WindowInv'
  <2>1. \A n \in (consume + 1)..Top : \E l, h \in 0..Ring!Stop : Block(n) = l..h
    BY <1>2, <1>5 DEF WindowInv
  <2>2. ASSUME NEW n \in (consume + 1)..(append - 1) PROVE Block(n)' # {}
    <3>1. n \in (consume + 1)..Top /\ n \in First..(append - 1)
      <4>1. n \in Int /\ consume + 1 <= n /\ n <= append - 1
        BY <1>3
      <4>2. n <= Top
        BY <1>3, <4>1
      <4>3. n \in (consume + 1)..Top
        BY <1>3, <4>1, <4>2
      <4>4. n \in consume..(append - 1)
        BY <1>3, <4>1
      <4> QED
        BY <1>3, <4>3, <4>4
    <3> QED
      BY <1>2, <1>7, <3>1 DEF WindowInv
  <2>3. \A n \in (consume + 1)..Top : \A e \in Block(n) : e > n
    BY <1>2, <1>5 DEF WindowInv
  <2>4. \A m \in (consume + 1)..Top, n \in (consume + 1)..Top :
          m < n => \A e \in Block(m), f \in Block(n) : e < f
    BY <1>2, <1>5 DEF WindowInv
  <2>5. ASSUME NEW i \in 0..(BlockCount - 1), blocks'[i] # {}
        PROVE  \E n \in (consume + 1)..Top : i = n % BlockCount
    <3>1. i # i0 /\ blocks[i] # {}
      BY <1>6, <2>5
    <3>2. PICK n \in First..Top : i = n % BlockCount
      BY <1>2, <3>1 DEF WindowInv
    <3>3. n # consume
      BY <3>1, <3>2 DEF i0
    <3>4. n \in (consume + 1)..Top
      BY <1>3, <3>2, <3>3
    <3> QED
      BY <3>2, <3>4
  <2>6. ~Between => blocks'[blockIndex] = blocks[blockIndex]
    <3>1. SUFFICES ASSUME ~Between PROVE blockIndex \in 0..(BlockCount - 1) /\ blockIndex # i0
      BY <1>6
    <3>2. Top = append /\ blockIndex = Top % BlockCount
      BY <1>2, <3>1 DEF Top, FencesInv
    <3>3. Top \in (consume + 1)..Top
      BY <1>3, <3>2
    <3> QED
      BY <1>5, <3>2, <3>3
  <2>7. /\ ~Between => \E l \in 0..Ring!Stop : blocks[blockIndex] = l..entries
        /\ csPc \in {"flushAlloc", "flushHandle"} => blocks[blockIndex] # {}
        /\ csPc \in {"alloc", "handle"} => blocks[blockIndex] = {}
    BY <1>2 DEF WindowInv
  <2>8. csPc \in {"flushAlloc", "flushHandle", "alloc", "handle"} => ~Between
    BY DEF Between
  <2>9. /\ ~Between => \E l \in 0..Ring!Stop : blocks'[blockIndex] = l..entries
        /\ csPc \in {"flushAlloc", "flushHandle"} => blocks'[blockIndex] # {}
        /\ csPc \in {"alloc", "handle"} => blocks'[blockIndex] = {}
    BY <2>6, <2>7, <2>8
  <2>10. /\ \A n \in (consume + 1)..Top : \E l, h \in 0..Ring!Stop : Block(n)' = l..h
         /\ \A n \in (consume + 1)..Top : \A e \in Block(n)' : e > n
    BY <1>7, <2>1, <2>3
  <2>11. \A m \in (consume + 1)..Top, n \in (consume + 1)..Top :
           m < n => \A e \in Block(m)', f \in Block(n)' : e < f
    BY <1>7, <2>4
  <2> QED
    BY <1>1, <1>4, <2>2, <2>5, <2>9, <2>10, <2>11 DEF WindowInv, Ring!Stop
<1>18. HandlesInv'
  <2>1. \A k \in DOMAIN lists : \A n \in (consume + 1)..Top :
          lists[k].handle <= n => \A e \in Block(n) : e > lists[k].needs
    BY <1>2, <1>5 DEF HandlesInv
  <2> QED
    BY <1>1, <1>2, <1>4, <1>7, <2>1 DEF HandlesInv
<1> QED
  BY <1>1, <1>2, <1>12, <1>13, <1>14, <1>15, <1>16, <1>17, <1>18 DEF RingInv

LEMMA SignalConsumeStep ==
  ASSUME RingInv, Ring!SignalConsume
  PROVE  RingInv'
<1>1. /\ ringPc = "signal" /\ consume' = consume + 1
      /\ ringPc' = IF consume + 1 < batch THEN "process" ELSE "wait"
      /\ UNCHANGED <<blocks, blockIndex, entries, append, csPc, batch, written, lists, submitted>>
  BY DEF Ring!SignalConsume, Ring!More, Ring!listVars
<1>2. /\ csPc # "destroyed" /\ FencesInv /\ WindowInv /\ HandlesInv
  BY <1>1 DEF RingInv, DestroyedInv
<1>3. /\ append \in 0..MaxEntries /\ consume \in Nat /\ batch \in Nat /\ BlockCount \in Nat
      /\ consume < batch /\ batch <= append /\ MaxEntries \in Nat
  BY <1>1, <1>2, WindowEntries, RingConstants DEF RingInv, Ring!TypeOK, FencesInv, Ring!Stop
<1>4. First' = First /\ Top' = Top /\ (\A n : Block(n)' = Block(n)) /\ (Between' <=> Between)
  BY <1>1 DEF First, Top, Between, Block
<1>5. Ring!TypeOK'
  <2>1. consume + 1 \in 0..MaxEntries
    BY <1>3
  <2> QED
    BY <1>1, <2>1 DEF RingInv, Ring!TypeOK, Ring!Stop
<1>6. UpdatesInv'
  BY <1>1 DEF RingInv, UpdatesInv
<1>7. Ring!UpdatesInOrder' /\ Ring!UpdatesBeforeSubmit'
  BY <1>1 DEF RingInv, Ring!UpdatesInOrder, Ring!UpdatesBeforeSubmit
<1>8. FencesInv'
  <2>1. /\ consume + 1 <= append
        /\ append <= consume + BlockCount => append <= consume + 1 + BlockCount
        /\ append < consume + BlockCount => append < consume + 1 + BlockCount
    BY <1>3
  <2>2. ringPc' \in {"process", "signal"} => consume + 1 < batch
    BY <1>1
  <2>3. ringPc' # "exit"
    BY <1>1
  <2> QED
    BY <1>1, <1>2, <1>3, <1>4, <2>1, <2>2, <2>3 DEF FencesInv
<1>9. WindowInv'
  BY <1>1, <1>2, <1>4 DEF WindowInv, Ring!Stop
<1>10. HandlesInv'
  BY <1>1, <1>2, <1>4 DEF HandlesInv
<1> QED
  BY <1>1, <1>2, <1>5, <1>6, <1>7, <1>8, <1>9, <1>10 DEF RingInv

\* The updates that a list needs are written once its handle is reached.
LEMMA SubmitStep ==
  ASSUME RingInv, Ring!Submit
  PROVE  RingInv'
<1> USE RingConstants
<1> DEFINE k == submitted + 1
<1>1. /\ submitted < Len(lists) /\ consume >= lists[k].handle /\ submitted' = k
      /\ UNCHANGED <<blocks, blockIndex, entries, append, consume, csPc, ringPc, batch, written, lists>>
  BY DEF Ring!Submit, Ring!workerVars
<1>2. k \in DOMAIN lists /\ submitted \in Nat /\ k \in 0..Len(lists)
  <2>1. Len(lists) \in Nat /\ DOMAIN lists = 1..Len(lists)
    BY LenProperties DEF RingInv, UpdatesInv
  <2>2. submitted \in 0..Len(lists)
    BY DEF RingInv, Ring!TypeOK
  <2> QED
    BY <1>1, <2>1, <2>2
<1>3. lists[k].needs \in 0..MaxEntries /\ lists[k].needs <= entries /\ lists[k].handle \in 0..MaxEntries
  BY <1>2, ListsTyped
<1> HIDE DEF k
<1>4. ASSUME NEW e \in 1..lists[k].needs PROVE e \in written
  <2>1. SUFFICES ASSUME e \notin written PROVE FALSE
    OBVIOUS
  <2>2. e \in 1..entries /\ e <= lists[k].needs /\ e \in Nat
    <3>1. entries \in Nat
      BY DEF RingInv, Ring!TypeOK
    <3> QED
      BY <1>3, <3>1
  <2>3. PICK i \in 0..(BlockCount - 1) : e \in blocks[i]
    <3>1. DOMAIN blocks = 0..(BlockCount - 1)
      BY DEF RingInv, Ring!TypeOK
    <3> QED
      BY <2>1, <2>2, <3>1 DEF RingInv, Ring!UpdatesInOrder
  <2>4. e > lists[k].needs
    <3>1. CASE csPc = "destroyed"
      BY <1>2, <2>3, <3>1 DEF RingInv, DestroyedInv
    <3>2. CASE csPc # "destroyed"
      <4>1. PICK n \in First..Top : i = n % BlockCount
        BY <2>3, <3>2 DEF RingInv, WindowInv
      <4>2. e \in Block(n)
        BY <2>3, <4>1 DEF Block
      <4>3. lists[k].handle <= n
        <5>1. n \in Nat /\ First \in Nat /\ consume \in Nat /\ consume <= First
          BY <3>2, <4>1, WindowEntries
        <5>2. First <= n
          BY <3>2, <4>1, WindowEntries
        <5> QED
          BY <1>1, <1>3, <5>1, <5>2
      <4> QED
        BY <1>2, <3>2, <4>1, <4>2, <4>3 DEF RingInv, HandlesInv
    <3> QED
      BY <3>1, <3>2
  <2> QED
    BY <1>3, <2>2, <2>4
<1>5. Ring!UpdatesBeforeSubmit'
  <2>1. ASSUME NEW n \in 1..k PROVE 1..lists[n].needs \subseteq written
    <3>1. CASE n = k
      BY <1>4, <3>1
    <3>2. CASE n # k
      <4>1. n \in 1..submitted
        BY <1>2, <3>2 DEF k
      <4> QED
        BY <4>1 DEF RingInv, Ring!UpdatesBeforeSubmit
    <3> QED
      BY <3>1, <3>2
  <2> QED
    BY <1>1, <2>1 DEF Ring!UpdatesBeforeSubmit
<1>6. Ring!TypeOK'
  BY <1>1, <1>2 DEF RingInv, Ring!TypeOK, Ring!Stop
<1>7. UpdatesInv' /\ Ring!UpdatesInOrder'
  BY <1>1 DEF RingInv, UpdatesInv, Ring!UpdatesInOrder
<1>8. CASE csPc = "destroyed"
  <2>1. DestroyedInv'
    BY <1>1, <1>8 DEF RingInv, DestroyedInv, Ring!Stop
  <2> QED
    BY <1>1, <1>5, <1>6, <1>7, <1>8, <2>1 DEF RingInv
<1>9. CASE csPc # "destroyed"
  <2>1. First' = First /\ Top' = Top /\ (\A n : Block(n)' = Block(n)) /\ (Between' <=> Between)
    BY <1>1 DEF First, Top, Between, Block
  <2>2. FencesInv'
    BY <1>1, <1>9, <2>1 DEF RingInv, FencesInv
  <2>3. WindowInv'
    BY <1>1, <1>9, <2>1 DEF RingInv, WindowInv, Ring!Stop
  <2>4. HandlesInv'
    BY <1>1, <1>9, <2>1 DEF RingInv, HandlesInv
  <2> QED
    BY <1>1, <1>5, <1>6, <1>7, <1>9, <2>2, <2>3, <2>4 DEF RingInv
<1> QED
  BY <1>8, <1>9

LEMMA DestroyStep ==
  ASSUME RingInv, Ring!Destroy
  PROVE  RingInv'
<1>1. /\ csPc = "idle" /\ consume >= append /\ append' = Ring!Stop /\ csPc' = "destroyed"
      /\ UNCHANGED <<blocks, blockIndex, entries, consume, ringPc, batch, written, lists, submitted>>
  BY DEF Ring!Destroy, Ring!Drained, Ring!workerVars, Ring!listVars
<1>2. /\ FencesInv /\ WindowInv /\ HandlesInv /\ ~Between /\ Top = append
  BY <1>1 DEF RingInv, Between, Top
<1>3. /\ append \in Nat /\ consume \in Nat /\ First \in Nat /\ consume <= First /\ First <= append
  BY <1>1, WindowEntries
<1>4. ringPc = "wait" /\ First = append /\ consume = append
  <2>1. consume = append
    BY <1>1, <1>3, <1>2 DEF FencesInv
  <2>2. batch \in Nat
    BY RingConstants DEF RingInv, Ring!TypeOK, Ring!Stop
  <2>3. ringPc \notin {"process", "signal"}
    BY <1>2, <1>3, <2>1, <2>2 DEF FencesInv
  <2> QED
    BY <1>2, <1>3, <2>1, <2>3 DEF RingInv, Ring!TypeOK, FencesInv, First
<1>5. DestroyedInv'
  <2>1. ASSUME NEW k \in DOMAIN lists, NEW i \in 0..(BlockCount - 1), NEW e \in blocks[i]
        PROVE  e > lists[k].needs
    <3>1. PICK n \in First..Top : i = n % BlockCount
      BY <1>2, <2>1 DEF WindowInv
    <3>2. e \in Block(n)
      BY <2>1, <3>1 DEF Block
    <3>3. lists[k].handle <= n
      <4>1. n = append
        BY <1>2, <1>3, <1>4, <3>1
      <4> QED
        BY <1>2, <4>1 DEF HandlesInv
    <3> QED
      BY <1>2, <3>1, <3>2, <3>3 DEF HandlesInv
  <2> QED
    BY <1>1, <1>4, <2>1 DEF DestroyedInv, Ring!Stop
<1>6. Ring!TypeOK'
  BY <1>1, RingConstants DEF RingInv, Ring!TypeOK, Ring!Stop
<1>7. UpdatesInv' /\ Ring!UpdatesInOrder' /\ Ring!UpdatesBeforeSubmit'
  BY <1>1 DEF RingInv, UpdatesInv, Ring!UpdatesInOrder, Ring!UpdatesBeforeSubmit
<1> QED
  BY <1>1, <1>5, <1>6, <1>7 DEF RingInv

LEMMA RingStep ==
  ASSUME RingInv, Ring!Next
  PROVE  RingInv'
BY AllocEntryStep, GetSyncHandleStep, SignalAppendStep, NextBlockStep, ReturnFromFlushStep,
   WorkerWaitStep, ProcessBlockStep, SignalConsumeStep, SubmitStep, DestroyStep
DEF Ring!Next, Ring!FlushStep, Ring!WorkerStep

LEMMA RingStutters ==
  ASSUME RingInv, UNCHANGED ringVars
  PROVE  RingInv'
<1> USE DEF ringVars
<1>1. Ring!TypeOK' /\ UpdatesInv' /\ Ring!UpdatesInOrder' /\ Ring!UpdatesBeforeSubmit'
  BY DEF RingInv, Ring!TypeOK, UpdatesInv, Ring!UpdatesInOrder, Ring!UpdatesBeforeSubmit, Ring!Stop
<1>2. First' = First /\ Top' = Top /\ (\A n : Block(n)' = Block(n)) /\ (Between' <=> Between)
  BY DEF First, Top, Between, Block
<1>3. DestroyedInv => DestroyedInv'
  BY DEF DestroyedInv, Ring!Stop
<1>4. FencesInv /\ WindowInv /\ HandlesInv => FencesInv' /\ WindowInv' /\ HandlesInv'
  BY <1>2 DEF FencesInv, WindowInv, HandlesInv, Ring!Stop
<1> QED
  BY <1>1, <1>3, <1>4 DEF RingInv

\* The ring is used by one thread at a time and as a queue, and a command list is submitted
\* only after the descriptor updates that it needs.
THEOREM RingCorrect == StreamSpec => []RingSafe
<1>1. StreamInit => RingInv
  BY RingInit DEF StreamInit
<1>2. RingInv /\ [StreamNext]_allVars => RingInv'
  BY PartSteps, RingStep, RingStutters
<1>3. RingInv => RingSafe
  BY RingSafeInv
<1> QED
  BY <1>1, <1>2, <1>3, PTL DEF StreamSpec

\* The variables of the three parts keep their types.
THEOREM StreamTypesCorrect == StreamSpec => []StreamTypeOK
<1>1. StreamSpec => []TypeOK
  <2>1. StreamInit => Init
    BY DEF StreamInit
  <2>2. [StreamNext]_allVars => [Next]_vars
    BY PartSteps
  <2>3. StreamSpec => Spec
    BY <2>1, <2>2, PTL DEF StreamSpec, Spec
  <2> QED
    BY <2>3, TypeCorrect, PTL
<1>2. StreamSpec => []Ring!TypeOK
  <2>1. StreamInit => RingInv
    BY RingInit DEF StreamInit
  <2>2. RingInv /\ [StreamNext]_allVars => RingInv'
    BY PartSteps, RingStep, RingStutters
  <2>3. RingInv => Ring!TypeOK
    BY DEF RingInv
  <2> QED
    BY <2>1, <2>2, <2>3, PTL DEF StreamSpec
<1>3. StreamSpec => []Latency!TypeOK
  <2>1. StreamInit => LatencyInv
    BY LatencyInit DEF StreamInit
  <2>2. LatencyInv /\ [StreamNext]_allVars => LatencyInv'
    BY PartSteps, LatencyStep, LatencyStutters
  <2>3. LatencyInv => Latency!TypeOK
    BY DEF LatencyInv
  <2> QED
    BY <2>1, <2>2, <2>3, PTL DEF StreamSpec
<1> QED
  BY <1>1, <1>2, <1>3, PTL DEF StreamTypeOK
=============================================================================
