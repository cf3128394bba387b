-------------------------- MODULE PipelineWorkers --------------------------
(***************************************************************************)
(* DxvkPipelineWorkers (src/src/dxvk/dxvk_pipemanager.h, .cpp) and the     *)
(* pipelines of one DxvkGraphicsPipeline (dxvk_graphics.h, .cpp), which    *)
(* the CS thread uses and the workers compile.                             *)
(*                                                                         *)
(* A state that is met for the first time gets a base pipeline, linked     *)
(* from libraries, and a task that compiles the optimized one.  Command    *)
(* lists and tasks count as users of the pipeline; when the last one is    *)
(* gone all base pipelines are destroyed, since an optimized one is there  *)
(* by then.                                                                *)
(*                                                                         *)
(* Workers come in three kinds, each with a condition variable: those of   *)
(* high priority take tasks of the first bucket only, those of low         *)
(* priority take any.  What happens under m_lock, or under the pipeline's  *)
(* m_mutex, is one step.                                                   *)
(***************************************************************************)
EXTENDS Naturals, Sequences, FiniteSets, FiniteSetsExt

CONSTANTS
  HighWorkers, NormalWorkers, LowWorkers,  \* the threads of startWorkers
  States,        \* state vectors the pipeline is used with
  Library,       \* the task that compiles a shader's pipeline library
  NoTask, NoList,
  MaxLibraries,  \* bound of the model: library tasks
  MaxLists,      \* bound of the model: command lists in flight
  MayFail        \* the driver may fail to compile an optimized pipeline

Workers == HighWorkers \union NormalWorkers \union LowWorkers
Tasks   == States \union {Library}

\* startWorkers makes at least one worker, and the first ones take any task.
ASSUME WorkerAssumption ==
  /\ IsFiniteSet(Workers) /\ LowWorkers # {}
  /\ NormalWorkers \intersect LowWorkers = {}
  /\ HighWorkers \intersect (NormalWorkers \union LowWorkers) = {}
ASSUME TaskAssumption ==
  /\ NoTask \notin Tasks /\ Library \notin States /\ \A L \in SUBSET States : L # NoList
  /\ MaxLibraries \in Nat /\ MaxLists \in Nat /\ MayFail \in BOOLEAN

VARIABLES
  queue,       \* the task queue of each bucket
  idle,        \* idleWorkers of each bucket
  running,     \* m_workersRunning
  stopped,     \* stopWorkers was called, by the destructor of the device
  asleep,      \* workers that sleep on the condition variable of their bucket
  workerPc, entry,  \* where each worker is, and the task it has taken
  libraries,   \* library tasks made
  track, libraryOnly,  \* trackPipelineLifetime and enableGraphicsPipelineLibrary
  useCount,    \* m_useCount
  known,       \* states that have an instance
  hasBase, hasFast,  \* instances whose base handle, fast handle is not null
  bases,       \* base pipelines that exist
  failed,      \* states whose optimized pipeline could not be compiled
  pc, state, loaded,  \* getPipelineHandle: where, of which state, its first load
  current,     \* base pipelines bound in the command list, once it tracks
  inflight     \* and those of the command lists in flight, oldest first

bucketVars   == <<queue, idle, running, stopped, asleep>>
workerVars   == <<workerPc, entry>>
configVars   == <<track, libraryOnly>>
instanceVars == <<known, hasFast, failed>>
baseVars     == <<useCount, hasBase, bases>>
callVars     == <<pc, state, loaded>>
listVars     == <<current, inflight>>
vars == <<bucketVars, workerVars, libraries, configVars, instanceVars, baseVars,
          callVars, listVars>>

High == 0
Normal == 1
Low == 2
Priorities == {High, Normal, Low}

Init ==
  /\ queue = [p \in Priorities |-> <<>>] /\ idle = [p \in Priorities |-> 0]
  /\ running = FALSE /\ stopped = FALSE /\ asleep = {}
  /\ workerPc = [w \in Workers |-> "none"] /\ entry = [w \in Workers |-> NoTask]
  /\ libraries = 0
  /\ track \in BOOLEAN /\ libraryOnly \in BOOLEAN
  /\ useCount = 0 /\ known = {} /\ hasBase = {} /\ hasFast = {} /\ bases = {} /\ failed = {}
  /\ pc = "idle" /\ state = NoTask /\ loaded = FALSE
  /\ current = NoList /\ inflight = <<>>

Priority(w) == IF w \in LowWorkers THEN Low ELSE IF w \in NormalWorkers THEN Normal ELSE High

-----------------------------------------------------------------------------
(* Requests, under m_lock *)

\* The buckets whose workers may take a task of priority p
SuitableMutant(p) == 0..p
Suitable(p) == p..Low

\* notify_one in the first of them that has an idle worker; it has no effect if
\* all of those are awake already.
NotifyWorkers(p) ==
  LET buckets  == {i \in Suitable(p) : idle[i] > 0}
      sleepers == {w \in asleep : buckets # {} /\ Priority(w) = Min(buckets)}
  IN  \/ sleepers = {} /\ UNCHANGED asleep
      \/ \E w \in sleepers : asleep' = asleep \ {w}

StartWorkers ==
  /\ running' = TRUE
  /\ workerPc' = IF running THEN workerPc ELSE [w \in Workers |-> "lock"]

Push(p, task) ==
  /\ StartWorkers
  /\ queue' = [queue EXCEPT ![p] = Append(@, task)]
  /\ NotifyWorkers(p)
  /\ UNCHANGED <<idle, stopped, entry>>

\* registerShader makes tasks of normal priority, requestCompileShader of high.
CompilePipelineLibrary ==
  /\ ~stopped /\ libraries < MaxLibraries
  /\ \E p \in {High, Normal} : Push(p, Library)
  /\ libraries' = libraries + 1
  /\ UNCHANGED <<configVars, instanceVars, baseVars, callVars, listVars>>

\* acquirePipeline and releasePipeline, under the pipeline's own lock
Acquire == useCount' = IF track THEN useCount + 1 ELSE useCount

UnusedMutant == useCount <= 2
Unused == useCount = 1

Release ==
  /\ useCount' = IF track THEN useCount - 1 ELSE useCount
  /\ IF track /\ Unused /\ ~libraryOnly
       THEN hasBase' = {} /\ bases' = {}
       ELSE UNCHANGED <<hasBase, bases>>

AcquireForTaskMutant == UNCHANGED useCount
AcquireForTask == Acquire

-----------------------------------------------------------------------------
(* The CS thread *)

Call(from, to) == pc = from /\ pc' = to

\* updateGraphicsPipeline, once per command list.
TrackGraphicsPipeline ==
  /\ pc = "idle" /\ current = NoList /\ ~stopped
  /\ current' = {}
  /\ Acquire
  /\ UNCHANGED <<bucketVars, workerVars, libraries, configVars, instanceVars, hasBase, bases,
                 callVars, inflight>>

\* getPipelineHandle looks the instance up with no lock.
FindInstance ==
  /\ current # NoList
  /\ state' \in States
  /\ Call("idle", IF state' \in known THEN "load" ELSE "create")
  /\ UNCHANGED <<bucketVars, workerVars, libraries, configVars, instanceVars, baseVars,
                 loaded, listVars>>

\* A state that cannot be linked, or fails to, is compiled at once.
CreateInstance ==
  /\ known' = known \union {state}
  /\ \/ /\ Call("create", "request")
        /\ hasBase' = hasBase \union {state} /\ bases' = bases \union {state}
        /\ UNCHANGED <<hasFast, failed>>
     \/ /\ Call("create", "load")
        /\ hasFast' = hasFast \union {state} /\ UNCHANGED <<hasBase, bases, failed>>
     \/ /\ MayFail /\ Call("create", "request")
        /\ failed' = failed \union {state} /\ UNCHANGED <<hasBase, bases, hasFast>>
  /\ UNCHANGED <<bucketVars, workerVars, libraries, configVars, useCount, state, loaded,
                 listVars>>

\* compileGraphicsPipeline
CompileGraphicsPipeline ==
  /\ Call("request", "load")
  /\ Push(Low, state)
  /\ AcquireForTask
  /\ UNCHANGED <<libraries, configVars, instanceVars, hasBase, bases, state, loaded,
                 listVars>>

\* getHandle loads the fast handle,
LoadFast ==
  /\ Call("load", "test")
  /\ loaded' = (state \in hasFast)
  /\ UNCHANGED <<bucketVars, workerVars, libraries, configVars, instanceVars, baseVars,
                 state, listVars>>

Return == state' = NoTask /\ loaded' = FALSE

\* loads it again to test it, and returns what it loaded first,
TestFast ==
  /\ \/ Call("test", "idle") /\ state \in hasFast /\ Return
     \/ Call("test", "base") /\ state \notin hasFast /\ UNCHANGED <<state, loaded>>
  /\ UNCHANGED <<bucketVars, workerVars, libraries, configVars, instanceVars, baseVars, listVars>>

\* or else returns the base handle, which is bound in the command list.
LoadBase ==
  /\ Call("base", "idle")
  /\ current' = current \union ({state} \intersect hasBase)
  /\ Return
  /\ UNCHANGED <<bucketVars, workerVars, libraries, configVars, instanceVars, baseVars, inflight>>

\* The command list is submitted; the next one tracks the pipeline anew.
SubmitCommandList ==
  /\ pc = "idle" /\ current # NoList /\ Len(inflight) < MaxLists
  /\ inflight' = Append(inflight, current)
  /\ current' = NoList
  /\ UNCHANGED <<bucketVars, workerVars, libraries, configVars, instanceVars, baseVars, callVars>>

\* DxvkCommandList::reset, once the device is through with the command list.
ResetCommandList ==
  /\ inflight # <<>>
  /\ inflight' = Tail(inflight)
  /\ Release
  /\ UNCHANGED <<bucketVars, workerVars, libraries, configVars, instanceVars, callVars, current>>

\* ~DxvkDevice, when nobody uses it any more.
StopWorkers ==
  /\ running /\ pc = "idle" /\ current = NoList
  /\ running' = FALSE /\ stopped' = TRUE
  /\ asleep' = {}
  /\ UNCHANGED <<queue, idle, workerVars, libraries, configVars, instanceVars, baseVars,
                 callVars, listVars>>

-----------------------------------------------------------------------------
(* The workers *)

FetchableMutant(w) == 0..(Priority(w) - 1)
\* The buckets a worker looks at.
Fetchable(w) == 0..Priority(w)
Pending(w) == {p \in Fetchable(w) : queue[p] # <<>>}

LeaveIdleMutant(w) == idle
\* A worker that was waiting, and does not any more, is not idle.
LeaveIdle(w) == IF workerPc[w] = "wait" THEN [idle EXCEPT ![Priority(w)] = @ - 1] ELSE idle

\* The critical section of runWorker, from the lock or from the wait.  A task that
\* is popped when the workers are to stop is dropped.
Fetch(w) ==
  /\ workerPc[w] \in {"lock", "wait"} /\ w \notin asleep
  /\ \/ /\ Pending(w) # {}
        /\ LET p == Min(Pending(w)) IN
             /\ entry' = [entry EXCEPT ![w] = IF running THEN Head(queue[p]) ELSE NoTask]
             /\ queue' = [queue EXCEPT ![p] = Tail(@)]
        /\ workerPc' = [workerPc EXCEPT ![w] = IF running THEN "compile" ELSE "exit"]
        /\ idle' = LeaveIdle(w)
        /\ UNCHANGED asleep
     \/ /\ Pending(w) = {} /\ ~running
        /\ workerPc' = [workerPc EXCEPT ![w] = "exit"]
        /\ idle' = LeaveIdle(w)
        /\ UNCHANGED <<queue, entry, asleep>>
     \/ /\ Pending(w) = {} /\ running
        /\ workerPc' = [workerPc EXCEPT ![w] = "wait"]
        /\ asleep' = asleep \union {w}
        /\ idle' = IF workerPc[w] = "wait" THEN idle ELSE [idle EXCEPT ![Priority(w)] = @ + 1]
        /\ UNCHANGED <<queue, entry>>
  /\ UNCHANGED <<running, stopped, libraries, configVars, instanceVars, baseVars, callVars,
                 listVars>>

Worker(w, from, to) == workerPc[w] = from /\ workerPc' = [workerPc EXCEPT ![w] = to]

\* DxvkShaderPipelineLibrary::compilePipeline
CompileLibrary(w) ==
  /\ entry[w] = Library /\ Worker(w, "compile", "lock")
  /\ entry' = [entry EXCEPT ![w] = NoTask]
  /\ UNCHANGED <<bucketVars, libraries, configVars, instanceVars, baseVars, callVars, listVars>>

\* DxvkGraphicsPipeline::compilePipeline.  The instance is there, without a fast
\* handle, as getPipelineHandle made it before its only request for the state.
CompilePipeline(w) ==
  /\ entry[w] \in States /\ Worker(w, "compile", "release")
  /\ \/ libraryOnly /\ UNCHANGED <<hasFast, failed>>
     \/ ~libraryOnly /\ hasFast' = hasFast \union {entry[w]} /\ UNCHANGED failed
     \/ ~libraryOnly /\ MayFail /\ failed' = failed \union {entry[w]} /\ UNCHANGED hasFast
  /\ UNCHANGED <<bucketVars, entry, libraries, configVars, known, baseVars, callVars, listVars>>

ReleaseTask(w) ==
  /\ Worker(w, "release", "lock")
  /\ entry' = [entry EXCEPT ![w] = NoTask]
  /\ Release
  /\ UNCHANGED <<bucketVars, libraries, configVars, instanceVars, callVars, listVars>>

WorkerStep(w) == Fetch(w) \/ CompileLibrary(w) \/ CompilePipeline(w) \/ ReleaseTask(w)
CallStep == CreateInstance \/ CompileGraphicsPipeline \/ LoadFast \/ TestFast \/ LoadBase
Choose ==
  CompilePipelineLibrary \/ TrackGraphicsPipeline \/ FindInstance \/ SubmitCommandList
    \/ StopWorkers

Next == Choose \/ CallStep \/ ResetCommandList \/ \E w \in Workers : WorkerStep(w)

Spec == Init /\ [][Next]_vars

\* Threads keep running and the device completes what it is given; what the
\* application asks for is its own choice.
FairSpec ==
  /\ Spec
  /\ WF_vars(CallStep) /\ WF_vars(ResetCommandList)
  /\ \A w \in Workers : WF_vars(WorkerStep(w))

-----------------------------------------------------------------------------
(* Properties *)

\* Every variable stays in its domain; a bucket has no more idle workers than
\* workers, though they are counted up and down around each wait.
TypeOK ==
  /\ queue \in [Priorities -> Seq(Tasks)]
  /\ idle \in [Priorities -> Nat]
  /\ \A p \in Priorities : idle[p] <= Cardinality({w \in Workers : Priority(w) = p})
  /\ {running, stopped, track, libraryOnly, loaded} \subseteq BOOLEAN
  /\ asleep \subseteq Workers
  /\ workerPc \in [Workers -> {"none", "lock", "wait", "compile", "release", "exit"}]
  /\ entry \in [Workers -> Tasks \union {NoTask}]
  /\ libraries \in 0..MaxLibraries /\ useCount \in Nat
  /\ UNION {known, hasBase, hasFast, bases, failed} \subseteq States
  /\ pc \in {"idle", "create", "request", "load", "test", "base"}
  /\ state \in States \union {NoTask}
  /\ current \in (SUBSET States) \union {NoList} /\ inflight \in Seq(SUBSET States)

\* A base pipeline is not destroyed while a command list that binds it is recorded
\* or executed, though tasks and command lists drop their use in any order.
BaseAlive ==
  /\ current # NoList => current \subseteq bases
  /\ \A i \in DOMAIN inflight : inflight[i] \subseteq bases

\* The base pipelines go only when an optimized one has replaced them: a state
\* that was used once always has a handle, unless the driver failed to make it.
HandleAvailable == known \subseteq hasBase \union hasFast \union failed

\* "we know that the job is going to be picked up at some point anyway": with a
\* task queued, some worker that may take it is not asleep, though notify_one goes
\* to the first bucket with idle workers, some of which may be on their way already.
NoStuckTask ==
  running => \A p \in Priorities :
    queue[p] # <<>> => \E w \in Workers \ asleep : Priority(w) >= p

\* Every task is taken and compiled, unless the device is destroyed first, and
\* then all workers end, so that stopWorkers returns.
TasksCompile ==
  /\ \A p \in Priorities : queue[p] # <<>> ~> queue[p] = <<>> \/ stopped
  /\ \A s \in States :
       s \in known ~> s \in hasFast \union failed \/ libraryOnly \/ stopped
  /\ stopped ~> \A w \in Workers : workerPc[w] = "exit"

\* "Find a pipeline handle to use. If no optimized pipeline has been compiled yet,
\* use the slower base pipeline instead." (dxvk_graphics.h)
PipelineFound ==
  [][/\ pc = "test" /\ pc' = "idle" => loaded
     /\ pc = "base" /\ pc' = "idle" => state \in hasBase \union failed]_vars
=============================================================================
