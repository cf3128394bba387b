----------------------- MODULE PipelineWorkersProofs ------------------------
(***************************************************************************)
(* Proofs about PipelineWorkers, for any number of workers of each kind,   *)
(* states, libraries and command lists.                                    *)
(*                                                                         *)
(* Of the workers: idleWorkers counts those that wait, so that a bucket    *)
(* with none has no sleeper, and a notification that finds no sleeper in   *)
(* the first bucket with idle workers finds one there that is awake.       *)
(*                                                                         *)
(* Of the pipeline: its use count is at least the number of its users, the *)
(* command lists and the tasks.  The step that destroys the base pipelines *)
(* drops the last use, so that no command list and no task is left.        *)
(***************************************************************************)
EXTENDS PipelineWorkers, FiniteSetTheorems, TLAPS

Of(p) == {w \in Workers : Priority(w) = p}
Waiting(p) == {w \in Workers : workerPc[w] = "wait" /\ Priority(w) = p}

\* The types, without the bounds of the counters of idle workers
Types ==
  /\ queue \in [Priorities -> Seq(Tasks)]
  /\ idle \in [Priorities -> Nat]
  /\ {running, stopped, track, libraryOnly, loaded} \subseteq BOOLEAN
  /\ asleep \subseteq Workers
  /\ workerPc \in [Workers -> {"none", "lock", "wait", "compile", "release", "exit"}]
  /\ entry \in [Workers -> Tasks \union {NoTask}]
  /\ libraries \in 0..MaxLibraries /\ useCount \in Nat
  /\ UNION {known, hasBase, hasFast, bases, failed} \subseteq States
  /\ pc \in {"idle", "create", "request", "load", "test", "base"}
  /\ state \in States \union {NoTask}
  /\ current \in (SUBSET States) \union {NoList} /\ inflight \in Seq(SUBSET States)

IdleCounts == \A p \in Priorities : idle[p] = Cardinality(Waiting(p))

SleepersWait == \A w \in asleep : workerPc[w] = "wait"

\* Workers exist from the first task on, and end when they are stopped.
LifeCycle ==
  /\ ~running /\ ~stopped => \A w \in Workers : workerPc[w] = "none"
  /\ running => ~stopped /\ \A w \in Workers : workerPc[w] \notin {"none", "exit"}

WorkerInv == IdleCounts /\ SleepersWait /\ LifeCycle /\ NoStuckTask

\* A call is made while a command list is recorded; none after the end.
Calls ==
  /\ pc # "idle" => current # NoList /\ state \in States
  /\ stopped => current = NoList

\* Tasks of the pipeline have low priority and those of libraries have not.
QueueKinds ==
  /\ queue[Low] \in Seq(States)
  /\ \A p \in {High, Normal} : queue[p] \in Seq({Library})

\* Who has a task
Entries ==
  \A w \in Workers :
    /\ workerPc[w] = "release" => entry[w] \in States
    /\ workerPc[w] = "compile" <=> entry[w] # NoTask /\ workerPc[w] # "release"

\* The users of the pipeline
Busy == {w \in Workers : entry[w] \in States}
Recording == IF current = NoList THEN 0 ELSE 1
Users == Recording + Len(inflight) + Len(queue[Low]) + Cardinality(Busy)

UsersCounted == track => useCount >= Users

BasesExist == hasBase \subseteq bases

\* The optimized pipeline of s is to be compiled.
Requested(s) ==
  \/ pc = "request" /\ state = s
  \/ \E i \in DOMAIN queue[Low] : queue[Low][i] = s
  \/ \E w \in Workers : workerPc[w] = "compile" /\ entry[w] = s

\* A state has an optimized pipeline, or a base pipeline that stays: because a
\* task for it is under way, or was dropped at the end with its use.
Covered ==
  \A s \in known :
    \/ s \in hasFast \union failed
    \/ s \in hasBase /\ (~track \/ libraryOnly \/ Requested(s) \/ useCount > Users)

PipelineInv ==
  /\ Calls /\ QueueKinds /\ Entries /\ UsersCounted /\ BasesExist /\ Covered /\ BaseAlive

Inv == Types /\ WorkerInv /\ PipelineInv

-----------------------------------------------------------------------------
(* Counting *)

\* The smallest of some buckets is one of them.
LEMMA MinOfBuckets ==
  ASSUME NEW S \in SUBSET Priorities, S # {}
  PROVE  Min(S) \in S /\ \A q \in S : Min(S) <= q
<1> USE DEF Priorities, High, Normal, Low
<1>1. \E x \in S : \A y \in S : x =< y
  <2>1. CASE High \in S
    BY <2>1
  <2>2. CASE High \notin S /\ Normal \in S
    BY <2>2
  <2>3. CASE High \notin S /\ Normal \notin S
    <3>1. \A y \in S : y = Low
      BY <2>3
    <3>2. Low \in S
      BY <3>1
    <3> QED BY <3>1, <3>2
  <2> QED BY <2>1, <2>2, <2>3
<1> QED BY <1>1 DEF Min

LEMMA CountsAreNatural ==
  /\ \A p \in Priorities :
       /\ IsFiniteSet(Waiting(p)) /\ Cardinality(Waiting(p)) \in Nat
       /\ Cardinality(Waiting(p)) <= Cardinality(Of(p))
       /\ Cardinality(Waiting(p)) = 0 <=> Waiting(p) = {}
  /\ IsFiniteSet(Busy) /\ Cardinality(Busy) \in Nat
<1>1. \A S \in SUBSET Workers : IsFiniteSet(S) /\ Cardinality(S) \in Nat
                                /\ (Cardinality(S) = 0 <=> S = {})
  BY WorkerAssumption, FS_Subset, FS_CardinalityType, FS_EmptySet
<1>2. \A p \in Priorities : Waiting(p) \subseteq Of(p) /\ Of(p) \subseteq Workers
  BY DEF Waiting, Of
<1>3. \A p \in Priorities : Cardinality(Waiting(p)) <= Cardinality(Of(p))
  BY <1>1, <1>2, FS_Subset
<1> QED BY <1>1, <1>2, <1>3 DEF Waiting, Busy

LEMMA PriorityType ==
  /\ \A w \in Workers : Priority(w) \in Priorities
  /\ \A w \in LowWorkers : w \in Workers /\ Priority(w) = Low
BY DEF Workers, Priority, Priorities

\* The counters of the type invariant follow from what they count.
LEMMA TypesSuffice == Types /\ IdleCounts => TypeOK
<1> SUFFICES ASSUME Types, IdleCounts PROVE TypeOK
  OBVIOUS
<1>1. \A p \in Priorities : idle[p] <= Cardinality({w \in Workers : Priority(w) = p})
  BY CountsAreNatural DEF IdleCounts, Of
<1> QED BY <1>1 DEF Types, TypeOK

-----------------------------------------------------------------------------
(* The workers *)

\* With no idle worker in the buckets from p on, nobody there sleeps.
LEMMA SleepersAreCounted ==
  ASSUME Types, IdleCounts, SleepersWait, NEW w \in asleep
  PROVE  w \in Waiting(Priority(w)) /\ idle[Priority(w)] > 0
<1>1. w \in Waiting(Priority(w)) /\ Priority(w) \in Priorities
  BY PriorityType DEF Types, SleepersWait, Waiting
<1> QED BY <1>1, CountsAreNatural DEF IdleCounts

\* A request leaves some worker awake that may take it.
LEMMA PushWakes ==
  ASSUME Types, IdleCounts, SleepersWait, NEW p \in Priorities, NotifyWorkers(p)
  PROVE  /\ asleep' \subseteq asleep
         /\ \E w \in Workers \ asleep' : Priority(w) >= p
<1> USE DEF Priorities, High, Normal, Low
<1> DEFINE buckets  == {i \in Suitable(p) : idle[i] > 0}
           sleepers == {w \in asleep : buckets # {} /\ Priority(w) = Min(buckets)}
<1>1. \/ sleepers = {} /\ asleep' = asleep
      \/ \E w \in sleepers : asleep' = asleep \ {w}
  BY DEF NotifyWorkers
<1>2. asleep' \subseteq asleep
  BY <1>1
<1>3. PICK l \in LowWorkers : l \in Workers /\ Priority(l) = Low
  BY WorkerAssumption, PriorityType
<1>4. CASE buckets = {}
  <2>1. ~(idle[Low] > 0)
    BY <1>4 DEF Suitable
  <2>2. l \notin asleep
    BY <2>1, <1>3, SleepersAreCounted
  <2> QED BY <2>2, <1>2, <1>3
<1>5. CASE buckets # {}
  <2> DEFINE m == Min(buckets)
  <2>1. buckets \in SUBSET Priorities
    BY DEF Suitable
  <2>2. m \in buckets
    BY <2>1, <1>5, MinOfBuckets
  <2> HIDE DEF m
  <2>3. m \in Priorities /\ m >= p /\ idle[m] > 0
    BY <2>2 DEF Suitable
  <2>4. PICK w \in Workers : Priority(w) = m /\ w \in Waiting(m)
    BY <2>3, CountsAreNatural DEF IdleCounts, Waiting
  <2>5. CASE w \in asleep
    <3>1. w \in sleepers
      BY <2>4, <2>5, <1>5 DEF m
    <3>2. PICK x \in sleepers : asleep' = asleep \ {x}
      BY <3>1, <1>1
    <3>3. Priority(x) = m /\ x \in Workers
      BY <3>2 DEF m, Types
    <3> QED BY <3>2, <3>3, <2>3
  <2>6. CASE w \notin asleep
    BY <2>6, <2>4, <2>3, <1>2
  <2> QED BY <2>5, <2>6
<1> QED BY <1>2, <1>4, <1>5

\* A worker that goes on is taken off the count, if it was counted.
LEMMA IdleLeaves ==
  ASSUME Types, IdleCounts, NEW w \in Workers, NEW to,
         to # "wait", workerPc' = [workerPc EXCEPT ![w] = to], idle' = LeaveIdle(w)
  PROVE  IdleCounts' /\ idle' \in [Priorities -> Nat]
<1> DEFINE own == Priority(w)
<1>0. own \in Priorities
  BY PriorityType
<1>1. \A p \in Priorities : p # own => Waiting(p)' = Waiting(p)
  BY DEF Waiting, Types
<1>2. CASE workerPc[w] = "wait"
  <2>1. w \in Waiting(own) /\ Waiting(own)' = Waiting(own) \ {w}
    BY <1>2 DEF Waiting, Types
  <2>2. Cardinality(Waiting(own)') = Cardinality(Waiting(own)) - 1
    BY <2>1, <1>0, CountsAreNatural, FS_RemoveElement
  <2>3. idle[own] = Cardinality(Waiting(own)) /\ idle[own] # 0
    BY <2>1, <1>0, CountsAreNatural DEF IdleCounts
  <2>4. idle' = [idle EXCEPT ![own] = @ - 1]
    BY <1>2 DEF LeaveIdle
  <2> HIDE DEF own
  <2>5. idle' \in [Priorities -> Nat]
    BY <2>3, <2>4, <1>0 DEF Types
  <2>6. \A p \in Priorities : idle'[p] = Cardinality(Waiting(p)')
    BY <1>0, <1>1, <2>2, <2>3, <2>4 DEF Types, IdleCounts
  <2> QED BY <2>5, <2>6 DEF IdleCounts, Waiting
<1>3. CASE workerPc[w] # "wait"
  <2>1. idle' = idle /\ \A p \in Priorities : Waiting(p)' = Waiting(p)
    BY <1>3 DEF LeaveIdle, Waiting, Types
  <2> QED BY <2>1 DEF IdleCounts, Waiting, Types
<1> QED BY <1>2, <1>3

\* A worker that begins to wait is counted.
LEMMA IdleEnters ==
  ASSUME Types, IdleCounts, NEW w \in Workers,
         workerPc' = [workerPc EXCEPT ![w] = "wait"],
         idle' = IF workerPc[w] = "wait" THEN idle ELSE [idle EXCEPT ![Priority(w)] = @ + 1]
  PROVE  IdleCounts' /\ idle' \in [Priorities -> Nat]
<1> DEFINE own == Priority(w)
<1>0. own \in Priorities
  BY PriorityType
<1>1. \A p \in Priorities : p # own => Waiting(p)' = Waiting(p)
  BY DEF Waiting, Types
<1>2. CASE workerPc[w] # "wait"
  <2>1. w \notin Waiting(own) /\ Waiting(own)' = Waiting(own) \union {w}
    BY <1>2 DEF Waiting, Types
  <2>2. Cardinality(Waiting(own)') = Cardinality(Waiting(own)) + 1
    BY <2>1, <1>0, CountsAreNatural, FS_AddElement
  <2>3. idle' = [idle EXCEPT ![own] = @ + 1]
    BY <1>2
  <2> HIDE DEF own
  <2>5. idle' \in [Priorities -> Nat]
    BY <2>3, <1>0 DEF Types
  <2>6. \A p \in Priorities : idle'[p] = Cardinality(Waiting(p)')
    BY <1>0, <1>1, <2>2, <2>3 DEF Types, IdleCounts
  <2> QED BY <2>5, <2>6 DEF IdleCounts, Waiting
<1>3. CASE workerPc[w] = "wait"
  <2>1. idle' = idle /\ \A p \in Priorities : Waiting(p)' = Waiting(p)
    BY <1>3 DEF Waiting, Types
  <2> QED BY <2>1 DEF IdleCounts, Waiting, Types
<1> QED BY <1>2, <1>3

\* A request, the first of which starts the workers
LEMMA PushPreserves ==
  ASSUME Types, WorkerInv, ~stopped, NEW p \in Priorities, NEW task \in Tasks, Push(p, task)
  PROVE  WorkerInv'
<1> USE DEF WorkerInv
<1>1. asleep' \subseteq asleep /\ \E w \in Workers \ asleep' : Priority(w) >= p
  BY PushWakes DEF Push
<1>2. \A q \in Priorities : q # p => queue'[q] = queue[q]
  BY DEF Push, Types
<1>3. CASE running
  <2>1. workerPc' = workerPc /\ idle' = idle /\ running' /\ ~stopped'
    BY <1>3 DEF Push, StartWorkers
  <2>2. IdleCounts' /\ SleepersWait' /\ LifeCycle'
    BY <1>1, <1>3, <2>1 DEF IdleCounts, Waiting, SleepersWait, LifeCycle
  <2>3. NoStuckTask'
    BY <1>1, <1>2, <1>3 DEF NoStuckTask
  <2> QED BY <2>2, <2>3
<1>4. CASE ~running
  <2>1. /\ workerPc' = [w \in Workers |-> "lock"] /\ idle' = idle
        /\ running' /\ ~stopped'
    BY <1>4 DEF Push, StartWorkers
  <2>2. \A w \in Workers : workerPc[w] = "none"
    BY <1>4 DEF LifeCycle
  <2>3. asleep = {}
    BY <2>2 DEF SleepersWait, Types
  <2>4. \A q \in Priorities : Waiting(q) = {} /\ Waiting(q)' = {}
    BY <2>1, <2>2 DEF Waiting
  <2>5. IdleCounts'
    BY <2>1, <2>4 DEF IdleCounts
  <2>6. SleepersWait' /\ LifeCycle'
    BY <1>1, <2>1, <2>3 DEF SleepersWait, LifeCycle
  <2>7. NoStuckTask'
    <3>1. PICK l \in LowWorkers : l \in Workers /\ Priority(l) = Low
      BY WorkerAssumption, PriorityType
    <3>2. l \notin asleep' /\ \A q \in Priorities : Priority(l) >= q
      BY <1>1, <2>3, <3>1 DEF Priorities, High, Normal, Low
    <3> QED BY <3>1, <3>2 DEF NoStuckTask
  <2> QED BY <2>5, <2>6, <2>7
<1> QED BY <1>3, <1>4

\* A worker sleeps only when no bucket it looks at has a task.
LEMMA FetchPreserves ==
  ASSUME Types, WorkerInv, NEW w \in Workers, Fetch(w)
  PROVE  WorkerInv' /\ idle' \in [Priorities -> Nat]
<1> USE DEF WorkerInv
<1>1. UNCHANGED <<running, stopped>> /\ w \notin asleep /\ workerPc[w] \in {"lock", "wait"}
  BY DEF Fetch
<1>2. CASE Pending(w) # {} /\ workerPc' = [workerPc EXCEPT ![w] = IF running THEN "compile" ELSE "exit"]
           /\ idle' = LeaveIdle(w) /\ UNCHANGED asleep
           /\ queue' = [queue EXCEPT ![Min(Pending(w))] = Tail(@)]
  <2> DEFINE to == IF running THEN "compile" ELSE "exit"
  <2>0. to # "wait" /\ workerPc' = [workerPc EXCEPT ![w] = to]
    BY <1>2
  <2> HIDE DEF to
  <2>1. IdleCounts' /\ idle' \in [Priorities -> Nat]
    BY <1>2, <2>0, IdleLeaves
  <2>2. SleepersWait' /\ LifeCycle'
    BY <1>1, <1>2, <2>0 DEF SleepersWait, LifeCycle, Types, to
  <2>3. Min(Pending(w)) \in Priorities /\ queue[Min(Pending(w))] # <<>>
    <3>1. Pending(w) \in SUBSET Priorities /\ \A q \in Pending(w) : queue[q] # <<>>
      BY PriorityType DEF Pending, Fetchable, Priorities, High, Normal, Low
    <3> QED BY <3>1, <1>2, MinOfBuckets
  <2>4. \A q \in Priorities : queue'[q] # <<>> => queue[q] # <<>>
    BY <1>2, <2>3 DEF Types
  <2>5. NoStuckTask'
    BY <1>1, <1>2, <2>4 DEF NoStuckTask
  <2> QED BY <2>1, <2>2, <2>5
<1>3. CASE ~running /\ workerPc' = [workerPc EXCEPT ![w] = "exit"] /\ idle' = LeaveIdle(w)
           /\ UNCHANGED <<queue, asleep>>
  <2>1. IdleCounts' /\ idle' \in [Priorities -> Nat]
    BY <1>3, IdleLeaves
  <2>2. SleepersWait' /\ LifeCycle' /\ NoStuckTask'
    BY <1>1, <1>3 DEF SleepersWait, LifeCycle, NoStuckTask, Types
  <2> QED BY <2>1, <2>2
<1>4. CASE Pending(w) = {} /\ running /\ workerPc' = [workerPc EXCEPT ![w] = "wait"]
           /\ asleep' = asleep \union {w} /\ UNCHANGED queue
           /\ idle' = IF workerPc[w] = "wait" THEN idle ELSE [idle EXCEPT ![Priority(w)] = @ + 1]
  <2>1. IdleCounts' /\ idle' \in [Priorities -> Nat]
    BY <1>4, IdleEnters
  <2>2. SleepersWait' /\ LifeCycle'
    BY <1>1, <1>4 DEF SleepersWait, LifeCycle, Types
  <2>3. NoStuckTask'
    <3> SUFFICES ASSUME NEW p \in Priorities, queue[p] # <<>>
                 PROVE  \E x \in Workers \ asleep' : Priority(x) >= p
      BY <1>4 DEF NoStuckTask
    <3>1. PICK x \in Workers \ asleep : Priority(x) >= p
      BY <1>4 DEF NoStuckTask
    <3>2. ~(Priority(w) >= p)
      BY <1>4, PriorityType DEF Pending, Fetchable, Priorities, High, Normal, Low
    <3> QED BY <3>1, <3>2, <1>4
  <2> QED BY <2>1, <2>2, <2>3
<1> QED BY <1>2, <1>3, <1>4 DEF Fetch

-----------------------------------------------------------------------------
(* The types *)

\* The users are counted by naturals.
LEMMA UsersAreNatural ==
  ASSUME Types, QueueKinds
  PROVE  /\ Recording \in {0, 1} /\ Len(inflight) \in Nat /\ Len(queue[Low]) \in Nat
         /\ Cardinality(Busy) \in Nat /\ IsFiniteSet(Busy)
         /\ Users \in Nat
         /\ \A w \in Busy : Cardinality(Busy) >= 1
<1>1. Recording \in {0, 1} /\ Len(inflight) \in Nat /\ Len(queue[Low]) \in Nat
  BY DEF Recording, Types, QueueKinds
<1>2. Cardinality(Busy) \in Nat /\ IsFiniteSet(Busy)
  BY CountsAreNatural
<1>3. \A w \in Busy : Cardinality(Busy) >= 1
  BY <1>2, FS_EmptySet
<1>4. Users \in Nat
  <2> DEFINE a == Recording  b == Len(inflight)  c == Len(queue[Low])  d == Cardinality(Busy)
  <2>1. a \in Nat /\ b \in Nat /\ c \in Nat /\ d \in Nat
    BY <1>1, <1>2
  <2>2. Users = a + b + c + d
    BY DEF Users
  <2> HIDE DEF a, b, c, d
  <2> QED BY <2>1, <2>2
<1> QED BY <1>1, <1>2, <1>3, <1>4

\* Who drops a use is a user.
LEMMA ReleaseIsUse ==
  ASSUME Types, PipelineInv,
         inflight # <<>> \/ \E w \in Workers : workerPc[w] = "release",
         Release
  PROVE  /\ useCount' \in Nat /\ hasBase' \subseteq States /\ bases' \subseteq States
         /\ track => useCount >= 1
<1>1. Users >= 1
  <2>1. CASE inflight # <<>>
    <3>1. Len(inflight) >= 1
      BY <2>1 DEF Types
    <3> QED BY <3>1, UsersAreNatural DEF Users, PipelineInv
  <2>2. CASE \E w \in Workers : workerPc[w] = "release"
    <3>1. \E w \in Workers : w \in Busy
      BY <2>2 DEF PipelineInv, Entries, Busy
    <3> QED BY <3>1, UsersAreNatural DEF Users, PipelineInv
  <2> QED BY <2>1, <2>2
<1>2. track => useCount >= 1
  BY <1>1, UsersAreNatural DEF PipelineInv, UsersCounted, Types
<1> QED BY <1>2 DEF Release, Types

LEMMA PushType ==
  ASSUME Types, NEW p \in Priorities, NEW task \in Tasks, Push(p, task)
  PROVE  /\ queue' \in [Priorities -> Seq(Tasks)] /\ running' \in BOOLEAN
         /\ asleep' \subseteq Workers
         /\ workerPc' \in [Workers -> {"none", "lock", "wait", "compile", "release", "exit"}]
         /\ UNCHANGED <<idle, stopped, entry>>
<1>1. asleep' \subseteq asleep
  BY DEF Push, NotifyWorkers
<1>2. queue' \in [Priorities -> Seq(Tasks)]
  <2>1. queue[p] \in Seq(Tasks)
    BY DEF Types
  <2>2. Append(queue[p], task) \in Seq(Tasks)
    BY <2>1
  <2> QED BY <2>2 DEF Push, Types
<1> QED BY <1>1, <1>2 DEF Push, StartWorkers, Types

LEMMA FetchType ==
  ASSUME Types, WorkerInv, NEW w \in Workers, Fetch(w)
  PROVE  /\ queue' \in [Priorities -> Seq(Tasks)] /\ idle' \in [Priorities -> Nat]
         /\ asleep' \subseteq Workers
         /\ workerPc' \in [Workers -> {"none", "lock", "wait", "compile", "release", "exit"}]
         /\ entry' \in [Workers -> Tasks \union {NoTask}]
<1>1. idle' \in [Priorities -> Nat]
  BY FetchPreserves
<1>2. CASE Pending(w) # {}
  <2> DEFINE p == Min(Pending(w))
  <2>1. p \in Priorities /\ queue[p] # <<>>
    <3>1. Pending(w) \in SUBSET Priorities /\ \A q \in Pending(w) : queue[q] # <<>>
      BY PriorityType DEF Pending, Fetchable, Priorities, High, Normal, Low
    <3> QED BY <3>1, <1>2, MinOfBuckets
  <2>2. /\ entry' = [entry EXCEPT ![w] = IF running THEN Head(queue[p]) ELSE NoTask]
        /\ queue' = [queue EXCEPT ![p] = Tail(@)]
        /\ workerPc' = [workerPc EXCEPT ![w] = IF running THEN "compile" ELSE "exit"]
        /\ UNCHANGED asleep
    BY <1>2 DEF Fetch
  <2> HIDE DEF p
  <2>3. queue[p] \in Seq(Tasks) /\ queue[p] # <<>>
    BY <2>1 DEF Types
  <2>4. Head(queue[p]) \in Tasks /\ Tail(queue[p]) \in Seq(Tasks)
    BY <2>3
  <2> QED BY <1>1, <2>1, <2>2, <2>4 DEF Types
<1>3. CASE Pending(w) = {}
  BY <1>1, <1>3 DEF Fetch, Types
<1> QED BY <1>2, <1>3

LEMMA TypesStep ==
  ASSUME Inv, [Next]_vars
  PROVE  Types'
<1> USE DEF Inv
<1>1. CASE CompilePipelineLibrary
  <2>1. PICK p \in {High, Normal} : Push(p, Library)
    BY <1>1 DEF CompilePipelineLibrary
  <2>2. p \in Priorities /\ Library \in Tasks
    BY DEF Priorities, Tasks
  <2>3. libraries' \in 0..MaxLibraries
    BY <1>1, TaskAssumption DEF CompilePipelineLibrary, Types
  <2>4. UNCHANGED <<configVars, instanceVars, baseVars, callVars, listVars>>
    BY <1>1 DEF CompilePipelineLibrary
  <2>5. UNCHANGED <<track, libraryOnly, known, hasFast, failed, useCount, hasBase, bases,
                    pc, state, loaded, current, inflight>>
    BY <2>4 DEF configVars, instanceVars, baseVars, callVars, listVars
  <2> QED BY <2>1, <2>2, <2>3, <2>5, PushType DEF Types
<1>2. CASE CompileGraphicsPipeline
  <2>1. Push(Low, state) /\ state \in States
    BY <1>2 DEF CompileGraphicsPipeline, Call, PipelineInv, Calls
  <2>2. Low \in Priorities /\ state \in Tasks
    BY <2>1 DEF Priorities, Tasks
  <2>3. /\ pc' = "load" /\ useCount' \in Nat
        /\ UNCHANGED <<libraries, track, libraryOnly, known, hasFast, failed, hasBase, bases,
                       state, loaded, current, inflight>>
    BY <1>2 DEF CompileGraphicsPipeline, Call, AcquireForTask, Acquire, Types,
                configVars, instanceVars, listVars
  <2> QED BY <2>1, <2>2, <2>3, PushType DEF Types
<1>3. CASE TrackGraphicsPipeline
  BY <1>3 DEF Types, TrackGraphicsPipeline, Acquire, workerVars, bucketVars,
              configVars, instanceVars, callVars
<1>14. CASE StopWorkers
  <2>1. running' = FALSE /\ stopped' = TRUE /\ asleep' = {}
    BY <1>14 DEF StopWorkers
  <2> QED BY <1>14, <2>1 DEF Types, StopWorkers, workerVars,
              configVars, instanceVars, baseVars, callVars, listVars
<1>4. CASE FindInstance
  <2>1. state' \in States /\ pc' \in {"load", "create"}
    BY <1>4 DEF FindInstance, Call
  <2> QED BY <1>4, <2>1 DEF Types, FindInstance, bucketVars, workerVars, configVars,
              instanceVars, baseVars, listVars
<1>11. CASE LoadFast \/ TestFast
  <2>1. /\ pc' \in {"test", "idle", "base"} /\ loaded' \in BOOLEAN
        /\ state' \in States \union {NoTask}
    <3>1. CASE LoadFast
      BY <3>1 DEF LoadFast, Call, Types
    <3>2. CASE TestFast
      BY <3>2 DEF TestFast, Call, Return, Types
    <3> QED BY <1>11, <3>1, <3>2
  <2> QED BY <1>11, <2>1 DEF Types, LoadFast, TestFast, bucketVars, workerVars, configVars,
              instanceVars, baseVars, listVars
<1>12. CASE LoadBase
  <2>1. current \in SUBSET States /\ hasBase \subseteq States
    <3>1. current # NoList
      BY <1>12 DEF LoadBase, Call, PipelineInv, Calls
    <3> QED BY <3>1 DEF Types
  <2>2. /\ current' \in SUBSET States /\ state' = NoTask /\ loaded' = FALSE /\ pc' = "idle"
        /\ inflight' = inflight
    BY <1>12, <2>1 DEF LoadBase, Call, Return
  <2> QED BY <1>12, <2>2 DEF Types, LoadBase, bucketVars, workerVars, configVars,
              instanceVars, baseVars
<1>13. CASE SubmitCommandList
  <2>1. inflight' \in Seq(SUBSET States)
    <3>1. current # NoList /\ inflight' = Append(inflight, current)
      BY <1>13 DEF SubmitCommandList
    <3>2. current \in SUBSET States /\ inflight \in Seq(SUBSET States)
      BY <3>1 DEF Types
    <3> HIDE DEF Inv
    <3> QED BY <3>1, <3>2
  <2>2. current' = NoList
    BY <1>13 DEF SubmitCommandList
  <2> QED BY <1>13, <2>1, <2>2 DEF Types, SubmitCommandList, bucketVars, workerVars, configVars,
              instanceVars, baseVars, callVars
<1>5. CASE CreateInstance
  <2>1. state \in States
    BY <1>5 DEF CreateInstance, Call, PipelineInv, Calls
  <2> QED BY <1>5, <2>1 DEF Types, CreateInstance, Call, bucketVars, workerVars, configVars,
              instanceVars, baseVars, callVars, listVars
<1>6. CASE ResetCommandList
  <2>1. useCount' \in Nat /\ hasBase' \subseteq States /\ bases' \subseteq States
    BY <1>6, ReleaseIsUse DEF ResetCommandList
  <2>2. inflight' \in Seq(SUBSET States)
    BY <1>6 DEF ResetCommandList, Types
  <2> QED BY <1>6, <2>1, <2>2 DEF Types, ResetCommandList, bucketVars, workerVars, configVars,
              instanceVars, callVars
<1>7. ASSUME NEW w \in Workers, Fetch(w)
      PROVE  Types'
  <2>1. UNCHANGED <<running, stopped, libraries, track, libraryOnly, known, hasFast, failed,
                    useCount, hasBase, bases, pc, state, loaded, current, inflight>>
    BY <1>7 DEF Fetch, configVars, instanceVars, baseVars, callVars, listVars
  <2> QED BY <1>7, <2>1, FetchType DEF Types
<1>8. ASSUME NEW w \in Workers, CompileLibrary(w) \/ CompilePipeline(w)
      PROVE  Types'
  BY <1>8 DEF Types, CompileLibrary, CompilePipeline, Worker, bucketVars, configVars,
              instanceVars, baseVars, callVars, listVars
<1>9. ASSUME NEW w \in Workers, ReleaseTask(w)
      PROVE  Types'
  <2>1. useCount' \in Nat /\ hasBase' \subseteq States /\ bases' \subseteq States
    BY <1>9, ReleaseIsUse DEF ReleaseTask, Worker
  <2> QED BY <1>9, <2>1 DEF Types, ReleaseTask, Worker, bucketVars, configVars, instanceVars,
              callVars, listVars
<1>10. CASE UNCHANGED vars
  BY <1>10 DEF Types, vars, bucketVars, workerVars, configVars, instanceVars, baseVars,
               callVars, listVars
<1> QED BY <1>1, <1>2, <1>3, <1>4, <1>5, <1>6, <1>7, <1>8, <1>9, <1>10, <1>11, <1>12, <1>13, <1>14
        DEF Next, Choose, CallStep, WorkerStep

-----------------------------------------------------------------------------
(* Every step preserves the invariant of the workers. *)

\* A worker that compiles or releases does not wait before nor after.
LEMMA WorkPreserves ==
  ASSUME Types, WorkerInv, NEW w \in Workers, NEW from \in {"compile", "release"},
         NEW to \in {"release", "lock"}, Worker(w, from, to), UNCHANGED bucketVars
  PROVE  WorkerInv'
<1> USE DEF WorkerInv
<1>1. UNCHANGED <<queue, idle, running, stopped, asleep>>
  BY DEF bucketVars
<1>2. workerPc[w] = from /\ workerPc' = [workerPc EXCEPT ![w] = to]
  BY DEF Worker
<1>3. \A p \in Priorities : Waiting(p)' = Waiting(p)
  BY <1>2 DEF Waiting, Types
<1>4. IdleCounts' /\ SleepersWait' /\ NoStuckTask'
  BY <1>1, <1>2, <1>3 DEF IdleCounts, SleepersWait, NoStuckTask, Types
<1>5. LifeCycle'
  BY <1>1, <1>2 DEF LifeCycle, Types
<1> QED BY <1>4, <1>5

LEMMA WorkerInvStep ==
  ASSUME Inv, [Next]_vars
  PROVE  WorkerInv'
<1> USE DEF Inv
<1>1. CASE CompilePipelineLibrary
  <2>1. PICK p \in {High, Normal} : Push(p, Library)
    BY <1>1 DEF CompilePipelineLibrary
  <2>2. p \in Priorities /\ Library \in Tasks /\ ~stopped
    BY <1>1 DEF Priorities, Tasks, CompilePipelineLibrary
  <2> QED BY <2>1, <2>2, PushPreserves
<1>2. CASE CompileGraphicsPipeline
  <2>1. Push(Low, state) /\ state \in States /\ ~stopped
    BY <1>2 DEF CompileGraphicsPipeline, Call, PipelineInv, Calls
  <2>2. Low \in Priorities /\ state \in Tasks
    BY <2>1 DEF Priorities, Tasks
  <2> QED BY <2>1, <2>2, PushPreserves
<1>3. ASSUME NEW w \in Workers, Fetch(w)
      PROVE  WorkerInv'
  BY <1>3, FetchPreserves
<1>4. ASSUME NEW w \in Workers, CompileLibrary(w) \/ CompilePipeline(w) \/ ReleaseTask(w)
      PROVE  WorkerInv'
  BY <1>4, WorkPreserves DEF CompileLibrary, CompilePipeline, ReleaseTask
<1>5. CASE StopWorkers
  <2>1. /\ running' = FALSE /\ stopped' = TRUE /\ asleep' = {}
        /\ UNCHANGED <<idle, workerPc>>
    BY <1>5 DEF StopWorkers, workerVars
  <2> QED BY <2>1 DEF WorkerInv, IdleCounts, Waiting, SleepersWait, LifeCycle, NoStuckTask
<1>6. CASE UNCHANGED <<bucketVars, workerVars>>
  <2>1. UNCHANGED <<queue, idle, running, stopped, asleep, workerPc>>
    BY <1>6 DEF bucketVars, workerVars
  <2> QED BY <2>1 DEF WorkerInv, IdleCounts, Waiting, SleepersWait, LifeCycle, NoStuckTask
<1>7. CASE TrackGraphicsPipeline \/ FindInstance \/ SubmitCommandList \/ CreateInstance
           \/ LoadFast \/ TestFast \/ LoadBase \/ ResetCommandList
  BY <1>6, <1>7 DEF TrackGraphicsPipeline, FindInstance, SubmitCommandList, CreateInstance,
                    LoadFast, TestFast, LoadBase, ResetCommandList
<1>8. CASE UNCHANGED vars
  BY <1>6, <1>8 DEF vars
<1> QED BY <1>1, <1>2, <1>3, <1>4, <1>5, <1>7, <1>8
        DEF Next, Choose, CallStep, WorkerStep

-----------------------------------------------------------------------------
(* Every step preserves what is known of calls, tasks and workers. *)

\* A request of some priority leaves the other buckets as they are, and no
\* worker has a task before the first request.
LEMMA PushEntries ==
  ASSUME Types, WorkerInv, Entries, ~stopped, NEW p \in Priorities, NEW task \in Tasks,
         Push(p, task)
  PROVE  /\ entry' = entry /\ Entries'
         /\ \A w \in Workers : workerPc'[w] = "compile" <=> workerPc[w] = "compile"
<1>1. entry' = entry
  BY DEF Push
<1>2. CASE running
  <2>1. workerPc' = workerPc
    BY <1>2 DEF Push, StartWorkers
  <2> QED BY <1>1, <2>1 DEF Entries
<1>3. CASE ~running
  <2>1. \A w \in Workers : workerPc[w] = "none" /\ workerPc'[w] = "lock"
    BY <1>3 DEF Push, StartWorkers, WorkerInv, LifeCycle
  <2> QED BY <1>1, <2>1 DEF Entries
<1> QED BY <1>2, <1>3

\* What a worker does in its critical section, by the bucket it takes from
LEMMA FetchCases ==
  ASSUME Types, QueueKinds, Entries, NEW w \in Workers, Fetch(w)
  PROVE  /\ entry[w] = NoTask /\ workerPc[w] \notin {"compile", "release"}
         /\ \/ /\ \E p \in Priorities :
                    /\ queue[p] # <<>> /\ queue' = [queue EXCEPT ![p] = Tail(@)]
                    /\ entry' = [entry EXCEPT ![w] = IF running THEN Head(queue[p]) ELSE NoTask]
               /\ workerPc' = [workerPc EXCEPT ![w] = IF running THEN "compile" ELSE "exit"]
            \/ /\ UNCHANGED <<queue, entry>>
               /\ \E to \in {"wait", "exit"} : workerPc' = [workerPc EXCEPT ![w] = to]
<1>1. entry[w] = NoTask /\ workerPc[w] \notin {"compile", "release"}
  BY DEF Fetch, Entries
<1>2. CASE Pending(w) # {}
  <2> DEFINE p == Min(Pending(w))
  <2>1. p \in Priorities /\ queue[p] # <<>>
    <3>1. Pending(w) \in SUBSET Priorities /\ \A q \in Pending(w) : queue[q] # <<>>
      BY PriorityType DEF Pending, Fetchable, Priorities, High, Normal, Low
    <3> QED BY <3>1, <1>2, MinOfBuckets
  <2>2. /\ entry' = [entry EXCEPT ![w] = IF running THEN Head(queue[p]) ELSE NoTask]
        /\ queue' = [queue EXCEPT ![p] = Tail(@)]
        /\ workerPc' = [workerPc EXCEPT ![w] = IF running THEN "compile" ELSE "exit"]
    BY <1>2 DEF Fetch
  <2> HIDE DEF p
  <2> QED BY <1>1, <2>1, <2>2
<1>3. CASE Pending(w) = {}
  BY <1>1, <1>3 DEF Fetch
<1> QED BY <1>2, <1>3

LEMMA CallsStep ==
  ASSUME Inv, [Next]_vars
  PROVE  Calls'
<1> USE DEF Inv, PipelineInv, Calls
<1>1. CASE TrackGraphicsPipeline
  BY <1>1, TaskAssumption DEF TrackGraphicsPipeline, bucketVars, callVars
<1>2. CASE LoadBase
  <2>1. current \in SUBSET States
    BY <1>2 DEF LoadBase, Call, Types
  <2> QED BY <1>2, <2>1, TaskAssumption DEF LoadBase, Call, Return, bucketVars
<1>3. CASE FindInstance
  BY <1>3 DEF FindInstance, Call, bucketVars, listVars
<1>4. CASE CreateInstance \/ LoadFast
  BY <1>4 DEF CreateInstance, LoadFast, Call, bucketVars, listVars
<1>5. CASE TestFast
  BY <1>5 DEF TestFast, Call, Return, bucketVars, listVars
<1>6. CASE SubmitCommandList \/ ResetCommandList
  BY <1>6 DEF SubmitCommandList, ResetCommandList, bucketVars, callVars
<1>7. CASE StopWorkers
  BY <1>7 DEF StopWorkers, callVars, listVars
<1>8. CASE CompilePipelineLibrary \/ CompileGraphicsPipeline
  BY <1>8 DEF CompilePipelineLibrary, CompileGraphicsPipeline, Push, Call, callVars, listVars
<1>9. ASSUME NEW w \in Workers, WorkerStep(w)
      PROVE  Calls'
  BY <1>9 DEF WorkerStep, Fetch, CompileLibrary, CompilePipeline, ReleaseTask, bucketVars,
              callVars, listVars
<1>10. CASE UNCHANGED vars
  BY <1>10 DEF vars, bucketVars, callVars, listVars
<1> QED BY <1>1, <1>2, <1>3, <1>4, <1>5, <1>6, <1>7, <1>8, <1>9, <1>10
        DEF Next, Choose, CallStep

LEMMA QueueKindsStep ==
  ASSUME Inv, [Next]_vars
  PROVE  QueueKinds'
<1> USE DEF Inv, PipelineInv, Priorities, High, Normal, Low
<1>1. CASE UNCHANGED queue
  BY <1>1 DEF QueueKinds
<1>2. CASE CompilePipelineLibrary
  <2>1. PICK p \in {High, Normal} : queue' = [queue EXCEPT ![p] = Append(@, Library)]
    BY <1>2 DEF CompilePipelineLibrary, Push
  <2>2. Append(queue[p], Library) \in Seq({Library})
    <3>1. queue[p] \in Seq({Library})
      BY DEF QueueKinds
    <3> HIDE DEF Inv
    <3> QED BY <3>1
  <2> QED BY <2>1, <2>2 DEF QueueKinds, Types
<1>3. CASE CompileGraphicsPipeline
  <2>1. queue' = [queue EXCEPT ![Low] = Append(@, state)] /\ state \in States
    BY <1>3 DEF CompileGraphicsPipeline, Call, Calls, Push
  <2>2. Append(queue[Low], state) \in Seq(States)
    <3>1. queue[Low] \in Seq(States)
      BY DEF QueueKinds
    <3> HIDE DEF Inv
    <3> QED BY <3>1, <2>1
  <2> QED BY <2>1, <2>2 DEF QueueKinds, Types
<1>4. ASSUME NEW w \in Workers, Fetch(w)
      PROVE  QueueKinds'
  <2>1. CASE UNCHANGED queue
    BY <2>1 DEF QueueKinds
  <2>2. ASSUME NEW p \in Priorities, queue[p] # <<>>, queue' = [queue EXCEPT ![p] = Tail(@)]
        PROVE  QueueKinds'
    <3>1. \A S : queue[p] \in Seq(S) => Tail(queue[p]) \in Seq(S)
      BY <2>2
    <3> QED BY <2>2, <3>1 DEF QueueKinds, Types
  <2> QED BY <2>1, <2>2, <1>4, FetchCases
<1>5. CASE TrackGraphicsPipeline \/ FindInstance \/ SubmitCommandList \/ StopWorkers
           \/ CreateInstance \/ LoadFast \/ TestFast \/ LoadBase \/ ResetCommandList
           \/ UNCHANGED vars
  BY <1>1, <1>5 DEF TrackGraphicsPipeline, FindInstance, SubmitCommandList, StopWorkers,
        CreateInstance, LoadFast, TestFast, LoadBase, ResetCommandList, vars, bucketVars
<1>6. ASSUME NEW w \in Workers, CompileLibrary(w) \/ CompilePipeline(w) \/ ReleaseTask(w)
      PROVE  QueueKinds'
  BY <1>1, <1>6 DEF CompileLibrary, CompilePipeline, ReleaseTask, bucketVars
<1> QED BY <1>2, <1>3, <1>4, <1>5, <1>6 DEF Next, Choose, CallStep, WorkerStep

LEMMA EntriesStep ==
  ASSUME Inv, [Next]_vars
  PROVE  Entries'
<1> USE DEF Inv, PipelineInv
<1>1. CASE UNCHANGED <<workerPc, entry>>
  BY <1>1 DEF Entries
<1>2. CASE CompilePipelineLibrary
  <2>1. PICK p \in {High, Normal} : Push(p, Library)
    BY <1>2 DEF CompilePipelineLibrary
  <2>2. p \in Priorities /\ Library \in Tasks /\ ~stopped
    BY <1>2 DEF Priorities, Tasks, CompilePipelineLibrary
  <2> QED BY <2>1, <2>2, PushEntries
<1>3. CASE CompileGraphicsPipeline
  <2>1. Push(Low, state) /\ state \in States /\ ~stopped
    BY <1>3 DEF CompileGraphicsPipeline, Call, Calls
  <2>2. Low \in Priorities /\ state \in Tasks
    BY <2>1 DEF Priorities, Tasks
  <2> QED BY <2>1, <2>2, PushEntries
<1>4. ASSUME NEW w \in Workers, Fetch(w)
      PROVE  Entries'
  <2>1. entry[w] = NoTask /\ workerPc[w] \notin {"compile", "release"}
    BY <1>4, FetchCases
  <2>2. ASSUME NEW p \in Priorities, queue[p] # <<>>,
               entry' = [entry EXCEPT ![w] = IF running THEN Head(queue[p]) ELSE NoTask],
               workerPc' = [workerPc EXCEPT ![w] = IF running THEN "compile" ELSE "exit"]
        PROVE  Entries'
    <3>1. Head(queue[p]) \in Tasks
      BY <2>2 DEF Types
    <3>2. Head(queue[p]) # NoTask
      BY <3>1, TaskAssumption
    <3> QED BY <2>2, <3>2 DEF Entries, Types
  <2>3. ASSUME entry' = entry, NEW to \in {"wait", "exit"},
               workerPc' = [workerPc EXCEPT ![w] = to]
        PROVE  Entries'
    BY <2>1, <2>3 DEF Entries, Types
  <2> QED BY <1>4, <2>2, <2>3, FetchCases
<1>5. ASSUME NEW w \in Workers, CompileLibrary(w) \/ ReleaseTask(w)
      PROVE  Entries'
  BY <1>5 DEF CompileLibrary, ReleaseTask, Worker, Entries, Types
<1>6. ASSUME NEW w \in Workers, CompilePipeline(w)
      PROVE  Entries'
  BY <1>6, TaskAssumption DEF CompilePipeline, Worker, Entries, Types, Tasks
<1>7. CASE TrackGraphicsPipeline \/ FindInstance \/ SubmitCommandList \/ StopWorkers
           \/ CreateInstance \/ LoadFast \/ TestFast \/ LoadBase \/ ResetCommandList
           \/ UNCHANGED vars
  BY <1>1, <1>7 DEF TrackGraphicsPipeline, FindInstance, SubmitCommandList, StopWorkers,
        CreateInstance, LoadFast, TestFast, LoadBase, ResetCommandList, vars, workerVars
<1> QED BY <1>2, <1>3, <1>4, <1>5, <1>6, <1>7 DEF Next, Choose, CallStep, WorkerStep

-----------------------------------------------------------------------------
(* The users of the pipeline, and what it has for each state *)

Counted == UsersCounted /\ BasesExist /\ Covered /\ BaseAlive

\* A state stays covered in a step that destroys no base pipeline, if its task is
\* still under way, or did its work, or left a use behind.
LEMMA CoveredKept ==
  ASSUME Covered, UNCHANGED <<track, libraryOnly>>,
         hasFast \subseteq hasFast', failed \subseteq failed', hasBase \subseteq hasBase',
         track /\ useCount > Users => useCount' > Users',
         \A s \in known : Requested(s) =>
           \/ Requested(s)' \/ s \in hasFast' \union failed'
           \/ libraryOnly \/ (track => useCount' > Users'),
         \A s \in known' \ known :
           s \in hasFast' \union failed' \/ (s \in hasBase' /\ Requested(s)')
  PROVE  Covered'
<1> SUFFICES ASSUME NEW s \in known', s \notin hasFast' \union failed'
             PROVE  s \in hasBase' /\ (~track' \/ libraryOnly' \/ Requested(s)'
                                       \/ useCount' > Users')
  BY DEF Covered
<1>1. CASE s \in known
  <2>1. s \in hasBase /\ (~track \/ libraryOnly \/ Requested(s) \/ useCount > Users)
    BY <1>1 DEF Covered
  <2> QED BY <2>1, <1>1
<1>2. CASE s \notin known
  BY <1>2
<1> QED BY <1>1, <1>2

\* A step of a call or a worker that makes no user and drops none
LEMMA UsersKept ==
  ASSUME Inv, UNCHANGED <<useCount, track, libraryOnly, inflight>>,
         current = NoList <=> current' = NoList, queue'[Low] = queue[Low],
         \A w \in Workers : entry'[w] \in States <=> entry[w] \in States,
         hasFast \subseteq hasFast', failed \subseteq failed', hasBase \subseteq hasBase',
         bases \subseteq bases', hasBase' \subseteq bases',
         current' # NoList => current' \subseteq bases,
         \A s \in known : Requested(s) =>
           Requested(s)' \/ s \in hasFast' \union failed' \/ libraryOnly,
         \A s \in known' \ known :
           s \in hasFast' \union failed' \/ (s \in hasBase' /\ Requested(s)')
  PROVE  Counted'
<1> USE DEF Inv, PipelineInv
<1>1. Busy' = Busy /\ Recording' = Recording
  BY DEF Busy, Recording
<1>2. Users' = Users
  BY <1>1 DEF Users
<1>3. UsersCounted' /\ BasesExist'
  BY <1>2 DEF UsersCounted, BasesExist
<1>4. Covered'
  BY <1>2, CoveredKept
<1>5. BaseAlive'
  BY DEF BaseAlive
<1> QED BY <1>3, <1>4, <1>5 DEF Counted

\* A step that makes a user, with its use
LEMMA UserComes ==
  ASSUME Inv, Users' = Users + 1, Acquire, UNCHANGED <<configVars, instanceVars, hasBase, bases>>,
         current' # NoList => current' \subseteq bases, inflight' = inflight,
         \A s \in known : Requested(s) => Requested(s)'
  PROVE  Counted'
<1> USE DEF Inv, PipelineInv, configVars, instanceVars
<1>1. Users \in Nat /\ useCount \in Nat
  BY UsersAreNatural DEF Types
<1>2. track => useCount' = useCount + 1
  BY DEF Acquire
<1>3. UsersCounted' /\ BasesExist'
  BY <1>1, <1>2 DEF UsersCounted, BasesExist
<1>4. Covered'
  BY <1>1, <1>2, CoveredKept
<1>5. BaseAlive'
  BY DEF BaseAlive
<1> QED BY <1>3, <1>4, <1>5 DEF Counted

\* A step that drops a use with its user.  The base pipelines are destroyed only
\* with the last one, when no task is under way.
LEMMA UserGoes ==
  ASSUME Inv, Users' = Users - 1, Release, UNCHANGED <<configVars, instanceVars>>,
         Users >= 1, current' = current,
         \A i \in DOMAIN inflight' : \E j \in DOMAIN inflight : inflight'[i] = inflight[j],
         \A s \in known : Requested(s) => Requested(s)',
         Users = 1 =>
           current = NoList /\ inflight' = <<>> /\ \A s \in known : ~Requested(s)
  PROVE  Counted'
<1> USE DEF Inv, PipelineInv, configVars, instanceVars
<1>1. Users \in Nat /\ useCount \in Nat
  BY UsersAreNatural DEF Types
<1>2. track => useCount' = useCount - 1
  BY DEF Release
<1>3. UsersCounted'
  BY <1>1, <1>2 DEF UsersCounted
<1>4. CASE track /\ useCount = 1 /\ ~libraryOnly
  <2>1. Users = 1 /\ ~(useCount > Users)
    BY <1>1, <1>4 DEF UsersCounted
  <2>2. hasBase' = {} /\ bases' = {}
    BY <1>4 DEF Release, Unused
  <2>3. \A s \in known : s \in hasFast \union failed
    BY <1>4, <2>1 DEF Covered
  <2>4. Covered' /\ BasesExist'
    BY <2>2, <2>3 DEF Covered, BasesExist
  <2>5. BaseAlive'
    BY <2>1 DEF BaseAlive
  <2> QED BY <1>3, <2>4, <2>5 DEF Counted
<1>5. CASE ~(track /\ useCount = 1 /\ ~libraryOnly)
  <2>1. UNCHANGED <<hasBase, bases>>
    BY <1>5 DEF Release, Unused
  <2>2. BasesExist' /\ BaseAlive'
    BY <2>1 DEF BasesExist, BaseAlive
  <2>3. Covered'
    BY <1>1, <1>2, <2>1, CoveredKept
  <2> QED BY <1>3, <2>2, <2>3 DEF Counted
<1> QED BY <1>4, <1>5

\* CompilePipelineLibrary and CompileGraphicsPipeline
LEMMA PushCounted ==
  ASSUME Inv, CompilePipelineLibrary \/ CompileGraphicsPipeline
  PROVE  Counted'
<1> USE DEF Inv, PipelineInv
<1>1. CASE CompilePipelineLibrary
  <2>1. PICK p \in {High, Normal} : Push(p, Library)
    BY <1>1 DEF CompilePipelineLibrary
  <2>2. p \in Priorities /\ Library \in Tasks /\ ~stopped /\ p # Low
    BY <1>1 DEF Priorities, Tasks, CompilePipelineLibrary, High, Normal, Low
  <2>3. entry' = entry /\ \A w \in Workers : workerPc'[w] = "compile" <=> workerPc[w] = "compile"
    BY <2>1, <2>2, PushEntries
  <2>4. queue'[Low] = queue[Low]
    BY <2>1, <2>2 DEF Push, Types
  <2>5. UNCHANGED <<track, libraryOnly, known, hasFast, failed, useCount, hasBase, bases,
                    pc, state, current, inflight>>
    BY <1>1 DEF CompilePipelineLibrary, configVars, instanceVars, baseVars, callVars, listVars
  <2>6. \A s \in known : Requested(s) => Requested(s)'
    BY <2>3, <2>4, <2>5 DEF Requested
  <2>7. hasBase' \subseteq bases' /\ (current' # NoList => current' \subseteq bases)
    BY <2>5 DEF BasesExist, BaseAlive
  <2> QED BY <2>3, <2>4, <2>5, <2>6, <2>7, UsersKept
<1>2. CASE CompileGraphicsPipeline
  <2>1. Push(Low, state) /\ state \in States /\ ~stopped /\ pc' = "load" /\ Acquire
    BY <1>2 DEF CompileGraphicsPipeline, Call, Calls, AcquireForTask
  <2>2. Low \in Priorities /\ state \in Tasks
    BY <2>1 DEF Priorities, Tasks
  <2>3. entry' = entry /\ \A w \in Workers : workerPc'[w] = "compile" <=> workerPc[w] = "compile"
    BY <2>1, <2>2, PushEntries
  <2>4. queue'[Low] = Append(queue[Low], state) /\ queue[Low] \in Seq(States)
    BY <2>1, <2>2 DEF Push, Types, QueueKinds
  <2>5. UNCHANGED <<configVars, instanceVars, hasBase, bases, state, current, inflight>>
    BY <1>2 DEF CompileGraphicsPipeline, listVars
  <2>6. Users' = Users + 1
    <3> DEFINE a == Recording  b == Len(inflight)  c == Len(queue[Low])  d == Cardinality(Busy)
    <3>1. a \in Nat /\ b \in Nat /\ c \in Nat /\ d \in Nat
      BY UsersAreNatural
    <3>2. Recording' = a /\ Len(inflight') = b /\ Busy' = Busy
      BY <2>3, <2>5 DEF Recording, Busy
    <3>3. Len(queue'[Low]) = c + 1
      BY <2>1, <2>4
    <3>4. Users = a + b + c + d /\ Users' = a + b + (c + 1) + d
      BY <3>2, <3>3 DEF Users
    <3> HIDE DEF a, b, c, d
    <3> QED BY <3>1, <3>4
  <2>7. \A s \in known : Requested(s) => Requested(s)'
    <3> SUFFICES ASSUME NEW s \in known, Requested(s) PROVE Requested(s)'
      OBVIOUS
    <3>1. CASE pc = "request" /\ state = s
      <4>1. Len(queue[Low]) + 1 \in DOMAIN queue'[Low] /\ queue'[Low][Len(queue[Low]) + 1] = s
        BY <3>1, <2>1, <2>4
      <4> QED BY <4>1 DEF Requested
    <3>2. CASE \E i \in DOMAIN queue[Low] : queue[Low][i] = s
      <4>1. PICK i \in DOMAIN queue[Low] : queue[Low][i] = s
        BY <3>2
      <4>2. i \in DOMAIN queue'[Low] /\ queue'[Low][i] = s
        BY <4>1, <2>1, <2>4
      <4> QED BY <4>2 DEF Requested
    <3>3. CASE \E w \in Workers : workerPc[w] = "compile" /\ entry[w] = s
      BY <3>3, <2>3 DEF Requested
    <3> QED BY <3>1, <3>2, <3>3 DEF Requested
  <2>8. current' # NoList => current' \subseteq bases
    BY <2>5 DEF BaseAlive
  <2> QED BY <2>1, <2>5, <2>6, <2>7, <2>8, UserComes
<1> QED BY <1>1, <1>2

\* A task that is taken stays under way; one that is dropped leaves its use.
LEMMA FetchCounted ==
  ASSUME Inv, NEW w \in Workers, Fetch(w)
  PROVE  Counted'
<1> USE DEF Inv, PipelineInv
<1>1. entry[w] = NoTask /\ workerPc[w] \notin {"compile", "release"} /\ w \notin Busy
  BY FetchCases, TaskAssumption DEF Busy, Tasks
<1>2. UNCHANGED <<track, libraryOnly, known, hasFast, failed, useCount, hasBase, bases,
                  pc, state, current, inflight>>
  BY DEF Fetch, configVars, instanceVars, baseVars, callVars, listVars
<1>3. hasBase' \subseteq bases' /\ (current' # NoList => current' \subseteq bases)
  BY <1>2 DEF BasesExist, BaseAlive
<1>4. \A x \in Workers : workerPc[x] = "compile" => workerPc'[x] = "compile" /\ x # w
  BY <1>1, FetchCases DEF Types
<1>5. CASE UNCHANGED <<queue, entry>>
  <2>1. \A s \in known : Requested(s) => Requested(s)'
    BY <1>2, <1>4, <1>5 DEF Requested
  <2> QED BY <2>1, <1>2, <1>3, <1>5, UsersKept
<1>6. ASSUME NEW p \in {High, Normal}, queue[p] # <<>>, queue' = [queue EXCEPT ![p] = Tail(@)],
             entry' = [entry EXCEPT ![w] = IF running THEN Head(queue[p]) ELSE NoTask]
      PROVE  Counted'
  <2>1. queue'[Low] = queue[Low]
    BY <1>6 DEF High, Normal, Low, Types, Priorities
  <2>2. Head(queue[p]) = Library
    <3>1. queue[p] \in Seq({Library})
      BY <1>6 DEF QueueKinds
    <3> HIDE DEF Inv
    <3> QED BY <3>1, <1>6
  <2>3. \A x \in Workers : entry'[x] \in States <=> entry[x] \in States
    BY <1>1, <1>6, <2>2, TaskAssumption DEF Types, Tasks
  <2>4. \A s \in known : Requested(s) => Requested(s)'
    BY <1>2, <1>4, <1>6, <2>1 DEF Requested, Types
  <2> QED BY <2>1, <2>3, <2>4, <1>2, <1>3, UsersKept
<1>7. ASSUME queue[Low] # <<>>, queue' = [queue EXCEPT ![Low] = Tail(@)],
             entry' = [entry EXCEPT ![w] = IF running THEN Head(queue[Low]) ELSE NoTask],
             workerPc' = [workerPc EXCEPT ![w] = IF running THEN "compile" ELSE "exit"]
      PROVE  Counted'
  <2> DEFINE a == Recording  b == Len(inflight)  c == Len(queue[Low])  d == Cardinality(Busy)
  <2>1. a \in Nat /\ b \in Nat /\ c \in Nat /\ d \in Nat /\ IsFiniteSet(Busy) /\ Users \in Nat
        /\ useCount \in Nat
    BY UsersAreNatural DEF Types
  <2>2. Recording' = a /\ Len(inflight') = b /\ Len(queue'[Low]) = c - 1
        /\ queue'[Low] = Tail(queue[Low]) /\ queue[Low] \in Seq(States)
    <3>1. Recording' = a /\ Len(inflight') = b
      BY <1>2 DEF Recording
    <3>2. queue'[Low] = Tail(queue[Low]) /\ queue[Low] \in Seq(States)
      BY <1>7 DEF QueueKinds, Types, Priorities
    <3>3. Len(Tail(queue[Low])) = c - 1
      <4> HIDE DEF Inv
      <4> QED BY <3>2, <1>7
    <3> QED BY <3>1, <3>2, <3>3
  <2>3. Head(queue[Low]) \in States
    BY <2>2, <1>7
  <2>4. CASE running
    <3>1. Busy' = Busy \union {w}
      BY <1>1, <1>7, <2>3, <2>4 DEF Busy, Types
    <3>2. Cardinality(Busy') = d + 1
      BY <3>1, <2>1, <1>1, FS_AddElement
    <3>3. Users' = Users
      <4>1. Users = a + b + c + d /\ Users' = a + b + (c - 1) + (d + 1)
        BY <2>2, <3>2 DEF Users
      <4> HIDE DEF a, b, c, d
      <4> QED BY <4>1, <2>1
    <3>4. \A s \in known : Requested(s) => Requested(s)'
      <4> SUFFICES ASSUME NEW s \in known, Requested(s) PROVE Requested(s)'
        OBVIOUS
      <4>1. CASE pc = "request" /\ state = s
        BY <4>1, <1>2 DEF Requested
      <4>2. CASE \E i \in DOMAIN queue[Low] : queue[Low][i] = s
        <5>1. PICK i \in DOMAIN queue[Low] : queue[Low][i] = s
          BY <4>2
        <5>2. CASE i = 1
          <6>1. entry'[w] = s /\ workerPc'[w] = "compile"
            BY <5>1, <5>2, <1>7, <2>2, <2>4 DEF Types
          <6> QED BY <6>1 DEF Requested
        <5>3. CASE i # 1
          <6>1. i - 1 \in DOMAIN Tail(queue[Low]) /\ Tail(queue[Low])[i - 1] = s
            BY <5>1, <5>3, <2>2, <1>7
          <6> QED BY <6>1, <2>2 DEF Requested
        <5> QED BY <5>2, <5>3
      <4>3. CASE \E x \in Workers : workerPc[x] = "compile" /\ entry[x] = s
        BY <4>3, <1>4, <1>7 DEF Requested, Types
      <4> QED BY <4>1, <4>2, <4>3 DEF Requested
    <3>5. UsersCounted' /\ BasesExist' /\ BaseAlive'
      BY <1>2, <1>3, <3>3 DEF UsersCounted, BasesExist, BaseAlive
    <3>6. Covered'
      BY <1>2, <3>3, <3>4, CoveredKept
    <3> QED BY <3>5, <3>6 DEF Counted
  <2>5. CASE ~running
    <3>1. Busy' = Busy
      BY <1>1, <1>7, <2>5, TaskAssumption DEF Busy, Types, Tasks
    <3>3. Users' = Users - 1
      <4>1. Users = a + b + c + d /\ Users' = a + b + (c - 1) + d
        BY <2>2, <3>1 DEF Users
      <4> HIDE DEF a, b, c, d
      <4> QED BY <4>1, <2>1
    <3>4. UsersCounted' /\ BasesExist' /\ BaseAlive'
      BY <1>2, <1>3, <2>1, <3>3 DEF UsersCounted, BasesExist, BaseAlive
    <3>5. track => useCount' > Users'
      BY <1>2, <2>1, <3>3 DEF UsersCounted
    <3>6. Covered'
      BY <1>2, <3>5, CoveredKept
    <3> QED BY <3>4, <3>6 DEF Counted
  <2> QED BY <2>4, <2>5
<1> QED BY <1>5, <1>6, <1>7, FetchCases DEF Priorities

\* TrackGraphicsPipeline: the command list becomes a user.
LEMMA TrackCounted ==
  ASSUME Inv, TrackGraphicsPipeline
  PROVE  Counted'
<1> USE DEF Inv, PipelineInv
<1>1. /\ current = NoList /\ current' = {} /\ Acquire
      /\ UNCHANGED <<queue, workerPc, entry, configVars, instanceVars, hasBase, bases, pc, state,
                     inflight>>
  BY DEF TrackGraphicsPipeline, bucketVars, workerVars, callVars
<1>2. Users' = Users + 1
  <2> DEFINE a == Recording  b == Len(inflight)  c == Len(queue[Low])  d == Cardinality(Busy)
  <2>1. a \in Nat /\ b \in Nat /\ c \in Nat /\ d \in Nat
    BY UsersAreNatural
  <2>2. a = 0 /\ Recording' = 1 /\ Busy' = Busy
    BY <1>1, TaskAssumption DEF Recording, Busy
  <2>3. Users = a + b + c + d /\ Users' = 1 + b + c + d
    BY <1>1, <2>2 DEF Users
  <2> HIDE DEF a, b, c, d
  <2> QED BY <2>1, <2>2, <2>3
<1>3. \A s \in known : Requested(s) => Requested(s)'
  BY <1>1 DEF Requested
<1> QED BY <1>1, <1>2, <1>3, UserComes

\* SubmitCommandList: the use of the command list stays.
LEMMA SubmitCounted ==
  ASSUME Inv, SubmitCommandList
  PROVE  Counted'
<1> USE DEF Inv, PipelineInv
<1>1. /\ current # NoList /\ current' = NoList /\ inflight' = Append(inflight, current)
      /\ UNCHANGED <<queue, workerPc, entry, track, libraryOnly, known, hasFast, failed, useCount,
                     hasBase, bases, pc, state>>
  BY DEF SubmitCommandList, bucketVars, workerVars, configVars, instanceVars, baseVars, callVars
<1>2. Len(inflight') = Len(inflight) + 1 /\ inflight \in Seq(SUBSET States)
      /\ current \in SUBSET States
  BY <1>1 DEF Types
<1>3. Users' = Users
  <2> DEFINE a == Recording  b == Len(inflight)  c == Len(queue[Low])  d == Cardinality(Busy)
  <2>1. a \in Nat /\ b \in Nat /\ c \in Nat /\ d \in Nat
    BY UsersAreNatural
  <2>2. a = 1 /\ Recording' = 0 /\ Busy' = Busy
    BY <1>1 DEF Recording, Busy
  <2>3. Users = a + b + c + d /\ Users' = 0 + (b + 1) + c + d
    BY <1>1, <1>2, <2>2 DEF Users
  <2> HIDE DEF a, b, c, d
  <2> QED BY <2>1, <2>2, <2>3
<1>4. UsersCounted' /\ BasesExist'
  BY <1>1, <1>3 DEF UsersCounted, BasesExist
<1>5. \A s \in known : Requested(s) => Requested(s)'
  BY <1>1 DEF Requested
<1>6. Covered'
  BY <1>1, <1>3, <1>5, CoveredKept
<1>7. BaseAlive'
  <2>1. \A i \in DOMAIN inflight' :
          inflight'[i] = current \/ (i \in DOMAIN inflight /\ inflight'[i] = inflight[i])
    <3> HIDE DEF Inv
    <3> QED BY <1>1, <1>2
  <2> QED BY <1>1, <2>1 DEF BaseAlive
<1> QED BY <1>4, <1>6, <1>7 DEF Counted

\* The steps of a call that looks for a pipeline, and the end of the workers
LEMMA CallCounted ==
  ASSUME Inv, \/ FindInstance \/ LoadFast \/ TestFast \/ LoadBase \/ CreateInstance
              \/ StopWorkers \/ UNCHANGED vars
  PROVE  Counted'
<1> USE DEF Inv, PipelineInv
<1>1. UNCHANGED <<queue, workerPc, entry, track, libraryOnly, useCount, inflight>>
  BY DEF FindInstance, LoadFast, TestFast, LoadBase, CreateInstance, StopWorkers, vars,
         bucketVars, workerVars, configVars, baseVars, listVars
<1>2. \A s \in known :
        Requested(s) => Requested(s)' \/ (pc = "request" /\ state = s)
  BY <1>1 DEF Requested
<1>3. hasBase \subseteq bases /\ (current # NoList => current \subseteq bases)
  BY DEF BasesExist, BaseAlive
<1>4. CASE FindInstance \/ LoadFast \/ TestFast \/ StopWorkers
  <2>1. UNCHANGED <<known, hasFast, failed, hasBase, bases, current>>
    BY <1>4 DEF FindInstance, LoadFast, TestFast, StopWorkers, instanceVars, baseVars, listVars
  <2>2. \A s \in known : Requested(s) => Requested(s)'
    BY <1>2, <1>4 DEF FindInstance, LoadFast, TestFast, StopWorkers, Call, Requested
  <2> QED BY <1>1, <1>3, <2>1, <2>2, UsersKept
<1>5. CASE LoadBase
  <2>1. current # NoList /\ current \in SUBSET States /\ pc = "base"
    BY <1>5 DEF LoadBase, Call, Calls, Types
  <2>2. current' # NoList /\ current' \subseteq bases
    BY <1>5, <1>3, <2>1, TaskAssumption DEF LoadBase, Types
  <2>3. UNCHANGED <<known, hasFast, failed, hasBase, bases>>
    BY <1>5 DEF LoadBase, instanceVars, baseVars
  <2> QED BY <1>1, <1>2, <1>3, <2>1, <2>2, <2>3, UsersKept
<1>6. CASE CreateInstance
  <2>1. pc = "create" /\ state' = state /\ current' = current
        /\ known' = known \union {state}
    BY <1>6 DEF CreateInstance, Call, listVars
  <2>2. \A s \in known : Requested(s) => Requested(s)'
    BY <1>2, <2>1
  <2>3. /\ hasFast \subseteq hasFast' /\ failed \subseteq failed' /\ hasBase \subseteq hasBase'
        /\ bases \subseteq bases' /\ hasBase' \subseteq bases'
    BY <1>6, <1>3 DEF CreateInstance
  <2>6. \A s \in known' \ known :
          s \in hasFast' \union failed' \/ (s \in hasBase' /\ Requested(s)')
    <3> SUFFICES ASSUME NEW s \in known' \ known
                 PROVE  s \in hasFast' \union failed' \/ (s \in hasBase' /\ Requested(s)')
      OBVIOUS
    <3>1. s = state
      BY <2>1
    <3>2. pc' = "request" => Requested(s)'
      BY <2>1, <3>1 DEF Requested
    <3> QED BY <1>6, <3>1, <3>2 DEF CreateInstance, Call
  <2> QED BY <1>1, <1>3, <2>1, <2>2, <2>3, <2>6, UsersKept
<1>7. CASE UNCHANGED vars
  <2>1. UNCHANGED <<known, hasFast, failed, hasBase, bases, pc, state, current>>
    BY <1>7 DEF vars, instanceVars, baseVars, callVars, listVars
  <2>2. \A s \in known : Requested(s) => Requested(s)'
    BY <1>1, <2>1 DEF Requested
  <2> QED BY <1>1, <1>3, <2>1, <2>2, UsersKept
<1> QED BY <1>4, <1>5, <1>6, <1>7

\* CompileLibrary and CompilePipeline: the task has done its work.
LEMMA CompileCounted ==
  ASSUME Inv, NEW w \in Workers, CompileLibrary(w) \/ CompilePipeline(w)
  PROVE  Counted'
<1> USE DEF Inv, PipelineInv
<1>1. UNCHANGED <<queue, track, libraryOnly, known, useCount, hasBase, bases, pc, state, current,
                  inflight>>
  BY DEF CompileLibrary, CompilePipeline, bucketVars, configVars, instanceVars, baseVars,
         callVars, listVars
<1>2. hasBase \subseteq bases /\ (current # NoList => current \subseteq bases)
  BY DEF BasesExist, BaseAlive
<1>3. known \subseteq States
  BY DEF Types
<1>4. CASE CompileLibrary(w)
  <2>1. /\ entry[w] = Library /\ entry' = [entry EXCEPT ![w] = NoTask]
        /\ workerPc' = [workerPc EXCEPT ![w] = "lock"] /\ UNCHANGED <<hasFast, failed>>
    BY <1>4 DEF CompileLibrary, Worker, instanceVars
  <2>2. \A x \in Workers : entry'[x] \in States <=> entry[x] \in States
    BY <2>1, TaskAssumption DEF Types, Tasks
  <2>3. \A s \in known : Requested(s) => Requested(s)'
    BY <1>1, <1>3, <2>1, TaskAssumption DEF Requested, Types
  <2> QED BY <1>1, <1>2, <2>1, <2>2, <2>3, UsersKept
<1>5. CASE CompilePipeline(w)
  <2>1. /\ entry' = entry /\ workerPc' = [workerPc EXCEPT ![w] = "release"]
        /\ hasFast \subseteq hasFast' /\ failed \subseteq failed'
        /\ libraryOnly \/ entry[w] \in hasFast' \union failed'
    BY <1>5 DEF CompilePipeline, Worker, Types
  <2>2. \A s \in known :
          Requested(s) => Requested(s)' \/ s \in hasFast' \union failed' \/ libraryOnly
    BY <1>1, <2>1 DEF Requested, Types
  <2> QED BY <1>1, <1>2, <2>1, <2>2, UsersKept
<1> QED BY <1>4, <1>5

\* ResetCommandList: the oldest command list in flight was a user.
LEMMA ResetCounted ==
  ASSUME Inv, ResetCommandList
  PROVE  Counted'
<1> USE DEF Inv, PipelineInv
<1>1. /\ inflight # <<>> /\ inflight' = Tail(inflight) /\ Release /\ current' = current
      /\ UNCHANGED <<configVars, instanceVars>>
      /\ UNCHANGED <<queue, workerPc, entry, pc, state>>
  BY DEF ResetCommandList, bucketVars, workerVars, callVars
<1>2. inflight \in Seq(SUBSET States)
  BY DEF Types
<1>3. Len(inflight') = Len(inflight) - 1 /\ Len(inflight) >= 1
  BY <1>1, <1>2
<1> DEFINE a == Recording  b == Len(inflight)  c == Len(queue[Low])  d == Cardinality(Busy)
<1>4. a \in Nat /\ b \in Nat /\ c \in Nat /\ d \in Nat /\ IsFiniteSet(Busy)
  BY UsersAreNatural
<1>5. Recording' = a /\ Busy' = Busy
  BY <1>1 DEF Recording, Busy
<1>6. Users = a + b + c + d /\ Users' = a + (b - 1) + c + d
  BY <1>1, <1>3, <1>5 DEF Users
<1>7. Users' = Users - 1 /\ Users >= 1
  <2> HIDE DEF a, c, d
  <2> QED BY <1>3, <1>4, <1>6
<1>8. \A s \in known : Requested(s) => Requested(s)'
  BY <1>1 DEF Requested
<1>9. \A i \in DOMAIN inflight' : \E j \in DOMAIN inflight : inflight'[i] = inflight[j]
  <2> SUFFICES ASSUME NEW i \in DOMAIN inflight'
               PROVE  \E j \in DOMAIN inflight : inflight'[i] = inflight[j]
    OBVIOUS
  <2>1. i + 1 \in DOMAIN inflight /\ inflight'[i] = inflight[i + 1]
    BY <1>1, <1>2
  <2> QED BY <2>1
<1>10. ASSUME Users = 1
       PROVE  current = NoList /\ inflight' = <<>> /\ \A s \in known : ~Requested(s)
  <2>1. a = 0 /\ b = 1 /\ c = 0 /\ d = 0
    <3> HIDE DEF a, c, d
    <3> QED BY <1>10, <1>3, <1>4, <1>6
  <2>2. current = NoList /\ pc # "request"
    BY <2>1 DEF Recording, Calls
  <2>3. inflight' = <<>>
    BY <2>1, <1>1, <1>2
  <2>4. DOMAIN queue[Low] = {}
    BY <2>1 DEF QueueKinds
  <2>5. Busy = {}
    BY <2>1, <1>4, FS_EmptySet
  <2>6. \A s \in known : ~Requested(s)
    BY <2>2, <2>4, <2>5 DEF Requested, Busy, Types
  <2> QED BY <2>2, <2>3, <2>6
<1> HIDE DEF a, b, c, d
<1> QED BY <1>1, <1>7, <1>8, <1>9, <1>10, UserGoes

\* ReleaseTask: the worker was a user.
LEMMA ReleaseCounted ==
  ASSUME Inv, NEW w \in Workers, ReleaseTask(w)
  PROVE  Counted'
<1> USE DEF Inv, PipelineInv
<1>1. /\ workerPc[w] = "release" /\ workerPc' = [workerPc EXCEPT ![w] = "lock"]
      /\ entry' = [entry EXCEPT ![w] = NoTask]
      /\ Release /\ UNCHANGED <<configVars, instanceVars>>
      /\ UNCHANGED <<queue, pc, state, current, inflight>>
  BY DEF ReleaseTask, Worker, bucketVars, callVars, listVars
<1>2. entry[w] \in States
  BY <1>1 DEF Entries
<1>3. w \in Busy /\ Busy' = Busy \ {w}
  BY <1>1, <1>2, TaskAssumption DEF Busy, Types, Tasks
<1> DEFINE a == Recording  b == Len(inflight)  c == Len(queue[Low])  d == Cardinality(Busy)
<1>4. a \in Nat /\ b \in Nat /\ c \in Nat /\ d \in Nat /\ IsFiniteSet(Busy) /\ d >= 1
  BY <1>3, UsersAreNatural
<1>5. Recording' = a /\ Cardinality(Busy') = d - 1
  BY <1>1, <1>3, <1>4, FS_RemoveElement DEF Recording
<1>6. Users = a + b + c + d /\ Users' = a + b + c + (d - 1)
  BY <1>1, <1>5 DEF Users
<1>7. Users' = Users - 1 /\ Users >= 1
  <2> HIDE DEF a, b, c, d
  <2> QED BY <1>4, <1>6
<1>8. \A s \in known : Requested(s) => Requested(s)'
  BY <1>1 DEF Requested, Types
<1>9. \A i \in DOMAIN inflight' : \E j \in DOMAIN inflight : inflight'[i] = inflight[j]
  BY <1>1
<1>10. ASSUME Users = 1
       PROVE  current = NoList /\ inflight' = <<>> /\ \A s \in known : ~Requested(s)
  <2>1. a = 0 /\ b = 0 /\ c = 0 /\ d = 1
    <3> HIDE DEF a, b, c, d
    <3> QED BY <1>10, <1>4, <1>6
  <2>2. current = NoList /\ pc # "request"
    BY <2>1 DEF Recording, Calls
  <2>3. inflight' = <<>>
    BY <2>1, <1>1 DEF Types
  <2>4. DOMAIN queue[Low] = {}
    BY <2>1 DEF QueueKinds
  <2>5. Busy \ {w} = {}
    <3>1. IsFiniteSet(Busy \ {w}) /\ Cardinality(Busy \ {w}) = 0
      BY <2>1, <1>3, <1>4, FS_RemoveElement
    <3> QED BY <3>1, FS_EmptySet
  <2>6. \A s \in known : ~Requested(s)
    <3> SUFFICES ASSUME NEW s \in known, NEW x \in Workers, workerPc[x] = "compile", entry[x] = s
                 PROVE  FALSE
      BY <2>2, <2>4 DEF Requested
    <3>1. x \in Busy /\ x # w
      BY <1>1 DEF Busy, Types
    <3> QED BY <3>1, <2>5
  <2> QED BY <2>2, <2>3, <2>6
<1> HIDE DEF a, b, c, d
<1> QED BY <1>1, <1>7, <1>8, <1>9, <1>10, UserGoes

-----------------------------------------------------------------------------
(* The theorems *)

LEMMA InvStep == Inv /\ [Next]_vars => Inv'
<1> SUFFICES ASSUME Inv, [Next]_vars PROVE Inv'
  OBVIOUS
<1>1. Counted'
  BY PushCounted, FetchCounted, TrackCounted, SubmitCounted, CallCounted, CompileCounted,
     ResetCounted, ReleaseCounted DEF Next, Choose, CallStep, WorkerStep
<1>2. PipelineInv'
  BY <1>1, CallsStep, QueueKindsStep, EntriesStep DEF PipelineInv, Counted
<1> QED BY <1>2, TypesStep, WorkerInvStep DEF Inv

LEMMA InitInv == Init => Inv
<1> SUFFICES ASSUME Init PROVE Inv
  OBVIOUS
<1>1. Types
  <2>1. <<>> \in Seq(Tasks) /\ <<>> \in Seq(SUBSET States) /\ 0 \in 0..MaxLibraries
    BY TaskAssumption
  <2> QED BY <2>1 DEF Init, Types
<1>2. \A p \in Priorities : Waiting(p) = {}
  BY DEF Init, Waiting
<1>3. WorkerInv
  BY <1>2, FS_EmptySet
     DEF Init, WorkerInv, IdleCounts, SleepersWait, LifeCycle, NoStuckTask
<1>4. Busy = {}
  BY TaskAssumption DEF Init, Busy, Tasks
<1>5. QueueKinds
  <2>1. <<>> \in Seq(States) /\ <<>> \in Seq({Library})
    OBVIOUS
  <2> QED BY <2>1 DEF Init, QueueKinds, Priorities
<1>6. Users = 0
  <2>1. Recording = 0 /\ Len(inflight) = 0 /\ Len(queue[Low]) = 0 /\ Cardinality(Busy) = 0
    BY <1>4, FS_EmptySet DEF Init, Recording, Priorities
  <2> QED BY <2>1 DEF Users
<1>7. Calls /\ Entries /\ UsersCounted /\ BasesExist /\ Covered /\ BaseAlive
  BY <1>6 DEF Init, Calls, Entries, UsersCounted, BasesExist, Covered, BaseAlive
<1> QED BY <1>1, <1>3, <1>5, <1>7 DEF Inv, PipelineInv

\* The variables of the workers and of the pipeline stay in their domains, and a
\* bucket never counts more idle workers than it has (runWorker).
THEOREM TypeCorrect == Spec => []TypeOK
<1>1. Inv => TypeOK
  BY TypesSuffice DEF Inv, WorkerInv
<1> QED BY <1>1, InitInv, InvStep, PTL DEF Spec

\* While tasks are queued, some worker that may take them is not asleep, so that
\* the single notification of notifyWorkers is enough.
THEOREM NothingStuck == Spec => []NoStuckTask
<1>1. Inv => NoStuckTask
  BY DEF Inv, WorkerInv
<1> QED BY <1>1, InitInv, InvStep, PTL DEF Spec

\* releasePipeline destroys no base pipeline that a command list binds, whatever the
\* order in which tasks and command lists drop their uses.
THEOREM PipelinesCorrect == Spec => []BaseAlive
<1>1. Inv => BaseAlive
  BY DEF Inv, PipelineInv
<1> QED BY <1>1, InitInv, InvStep, PTL DEF Spec

\* A state that was used has a base or an optimized pipeline, unless the driver
\* failed to make it: the last use releases the base only after the fast link.
THEOREM HandlesCorrect == Spec => []HandleAvailable
<1>1. Inv => HandleAvailable
  BY DEF Inv, PipelineInv, Covered, HandleAvailable
<1> QED BY <1>1, InitInv, InvStep, PTL DEF Spec
=============================================================================
