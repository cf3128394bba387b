-------------------------- MODULE SubmissionQueue --------------------------
(***************************************************************************)
(* DxvkSubmissionQueue (src/src/dxvk/dxvk_queue.cpp) with the waiting      *)
(* functions DxvkDevice builds on it (dxvk_device.cpp, dxvk_device.h).     *)
(*                                                                         *)
(* Clients push command lists and presents into submitQ.  The submission   *)
(* thread ("dxvk-submit") hands the oldest entry to the Vulkan queue and   *)
(* moves it to finishQ; the queue thread ("dxvk-queue") waits for the GPU, *)
(* releases what the entry used, signals presented frames, and pops it.    *)
(*                                                                         *)
(* A critical section of m_mutex that does not block inside is one step.   *)
(* Each condition variable is the set of the threads that sleep on it: a   *)
(* thread that finds its predicate false goes to sleep, notify_all empties *)
(* the set, and a thread that is awake evaluates its predicate again.      *)
(***************************************************************************)
EXTENDS Naturals, Sequences, FiniteSets, Functions

CONSTANTS
  Producers,    \* threads that submit and present (the CS threads)
  Waiters,      \* application threads that synchronize with the queue
  MaxQueued,    \* MaxNumQueuedCommandBuffers
  MaxEntries,   \* bound of the model: entries ever queued
  Failures      \* errors Vulkan may return in this instance

SubmitThread == "dxvk-submit"
FinishThread == "dxvk-queue"
Clients      == Producers \union Waiters
Threads      == Clients \union {SubmitThread, FinishThread}

ASSUME SubmissionAssumption ==
  /\ MaxQueued \in Nat
  /\ MaxEntries \in Nat
  /\ Failures \subseteq {"DEVICE_LOST", "OUT_OF_MEMORY", "OUT_OF_DATE"}
  /\ Producers \intersect Waiters = {}
  /\ {SubmitThread, FinishThread} \intersect Clients = {}

Ids     == 1..MaxEntries
Kinds   == {"cmd", "present"}
Results == {"NOT_READY", "SUCCESS", "DEVICE_LOST", "OUT_OF_MEMORY", "OUT_OF_DATE"}

VARIABLES
  nextId,       \* entries are numbered in the order they are pushed
  kind,         \* what an entry carries: a command list or a presenter
  submitQ,      \* m_submitQueue
  finishQ,      \* m_finishQueue
  status,       \* DxvkSubmitStatus of an entry, and DxvkSubmitEntry::result
  timeline,     \* DxvkSubmitEntry::timelines
  timelines,    \* m_timelines, the last timeline value used
  lastError,    \* m_lastError
  stopped,      \* m_stopped
  mutex,        \* holder of m_mutex over a call that blocks, or "free"
  queueOwner,   \* holder of m_mutexQueue, or "free"
  appendCond,   \* threads asleep on m_appendCond
  submitCond,   \* threads asleep on m_submitCond
  finishCond,   \* threads asleep on m_finishCond
  submitPc,     \* where the submission thread is
  submitCur,    \* its local entry
  finishPc,     \* where the queue thread is
  finishCur,    \* its local entry
  pc,           \* the call each client is in
  target,       \* the entry a client waits for
  snapshot,     \* entries queued when a client began to wait for all of them
  gpuPending,   \* timeline values the Vulkan queue still has to signal
  gpuValue,     \* value of the timeline semaphore
  gpuLost,      \* the device is lost
  released,     \* entries whose objects were released, signals notified
  frames,       \* presents whose frame was signaled
  recycled      \* command lists handed back for reuse

queueVars  == <<submitQ, finishQ, nextId, kind>>
condVars   == <<appendCond, submitCond, finishCond>>
submitVars == <<submitPc, submitCur>>
finishVars == <<finishPc, finishCur>>
clientVars == <<pc, target, snapshot>>
gpuVars    == <<gpuPending, gpuValue, gpuLost>>
objectVars == <<released, frames, recycled>>
lockVars   == <<mutex, queueOwner, stopped>>
entryVars  == <<status, timeline, timelines, lastError>>

vars == <<queueVars, condVars, submitVars, finishVars, clientVars, gpuVars,
          objectVars, lockVars, entryVars>>

\* What no client changes, and what neither of the two threads changes.
threadVars == <<submitVars, finishVars, gpuVars, objectVars, entryVars, mutex, stopped>>
callerVars == <<clientVars, gpuValue, gpuLost, nextId, kind, queueOwner, stopped>>

Init ==
  /\ nextId = 1
  /\ kind = [i \in Ids |-> "cmd"]
  /\ submitQ = <<>> /\ finishQ = <<>>
  /\ status = [i \in Ids |-> "NOT_READY"]
  /\ timeline = [i \in Ids |-> 0]
  /\ timelines = 0
  /\ lastError = "SUCCESS"
  /\ stopped = FALSE
  /\ mutex = "free" /\ queueOwner = "free"
  /\ appendCond = {} /\ submitCond = {} /\ finishCond = {}
  /\ submitPc = "fetch" /\ submitCur = 0
  /\ finishPc = "fetch" /\ finishCur = 0
  /\ pc = [t \in Clients |-> "idle"]
  /\ target = [t \in Clients |-> 0]
  /\ snapshot = [t \in Clients |-> 0]
  /\ gpuPending = <<>> /\ gpuValue = 0 /\ gpuLost = FALSE
  /\ released = {} /\ frames = {} /\ recycled = {}

-----------------------------------------------------------------------------
(* Client calls.  Each one begins outside of the lock. *)

QueueSizeUnfinished == Len(submitQ)  \* mutant: entries the GPU works on are not counted
QueueSize == Len(submitQ) + Len(finishQ)

\* The predicates of synchronize() and of the second wait of waitForIdle().
SubmittedMutant == Len(submitQ) <= 1
AllSubmitted == submitQ = <<>>
FinishedMutant == Len(finishQ) <= 1
AllFinished == finishQ = <<>>

Goto(t, p) == pc' = [pc EXCEPT ![t] = p] /\ UNCHANGED <<target, snapshot>>
Return(t)  == /\ pc' = [pc EXCEPT ![t] = "idle"]
              /\ target' = [target EXCEPT ![t] = 0]
              /\ snapshot' = [snapshot EXCEPT ![t] = 0]
Stay       == UNCHANGED clientVars

\* condition_variable::wait with a false predicate
Sleep(t, cond) == cond' = cond \union {t}

Queued == 1..(nextId - 1)

\* Entries the producers may still start to queue without going over MaxEntries.
RoomForEntry ==
  nextId + Cardinality({t \in Producers : pc[t] # "idle"}) <= MaxEntries

Call(t) ==
  /\ pc[t] = "idle"
  /\ ~stopped
  /\ \/ /\ t \in Producers
        /\ RoomForEntry
        /\ \E p \in {"submit", "present"} : Goto(t, p)
     \/ /\ t \in Waiters
        /\ \E i \in Queued, p \in {"waitForSubmission", "waitForResource"} :
             /\ p = "waitForResource" => kind[i] = "cmd"
             /\ pc' = [pc EXCEPT ![t] = p]
             /\ target' = [target EXCEPT ![t] = i]
        /\ UNCHANGED snapshot
     \/ /\ t \in Waiters
        /\ \E p \in {"lockSubmission", "waitForIdle"} : pc' = [pc EXCEPT ![t] = p]
        /\ snapshot' = [snapshot EXCEPT ![t] = nextId - 1]
        /\ UNCHANGED target
  /\ UNCHANGED <<queueVars, condVars, queueOwner, threadVars>>

Push(k) ==
  /\ nextId <= MaxEntries
  /\ kind' = [kind EXCEPT ![nextId] = k]
  /\ submitQ' = Append(submitQ, nextId)
  /\ nextId' = nextId + 1
  /\ appendCond' = {}
  /\ UNCHANGED <<finishQ, submitCond, finishCond>>

\* DxvkSubmissionQueue::submit: blocks while too many entries are queued.
Submit(t) ==
  /\ pc[t] = "submit" /\ t \notin finishCond
  /\ mutex = "free"
  /\ \/ /\ QueueSize > MaxQueued
        /\ Sleep(t, finishCond)
        /\ Stay
        /\ UNCHANGED <<queueVars, appendCond, submitCond>>
     \/ /\ QueueSize <= MaxQueued
        /\ Push("cmd")
        /\ Return(t)
  /\ UNCHANGED <<queueOwner, threadVars>>

\* DxvkSubmissionQueue::present: never blocks on the queue size.
Present(t) ==
  /\ pc[t] = "present"
  /\ mutex = "free"
  /\ Push("present")
  /\ Return(t)
  /\ UNCHANGED <<queueOwner, threadVars>>

\* DxvkDevice::waitForSubmission looks at the result before it takes the lock.
WaitForSubmission(t) ==
  /\ pc[t] = "waitForSubmission"
  /\ IF status[target[t]] = "NOT_READY" THEN Goto(t, "synchronizeSubmission")
                                        ELSE Return(t)
  /\ UNCHANGED <<queueVars, condVars, queueOwner, threadVars>>

SynchronizeSubmission(t) ==
  /\ pc[t] = "synchronizeSubmission" /\ t \notin submitCond
  /\ mutex = "free"
  /\ \/ status[target[t]] = "NOT_READY" /\ Sleep(t, submitCond) /\ Stay
     \/ status[target[t]] # "NOT_READY" /\ Return(t) /\ UNCHANGED submitCond
  /\ UNCHANGED <<queueVars, appendCond, finishCond, queueOwner, threadVars>>

\* DxvkPagedResource::isInUse for a resource that command list i uses: the
\* use count is held from recording until the object tracker is cleared.
InUse(i) == i \in Queued /\ i \notin released

\* DxvkDevice::waitForResource looks at the use count before it takes the lock.
WaitForResource(t) ==
  /\ pc[t] = "waitForResource"
  /\ IF InUse(target[t]) THEN Goto(t, "synchronizeUntil") ELSE Return(t)
  /\ UNCHANGED <<queueVars, condVars, queueOwner, threadVars>>

SynchronizeUntil(t) ==
  /\ pc[t] = "synchronizeUntil" /\ t \notin finishCond
  /\ mutex = "free"
  /\ \/ InUse(target[t]) /\ Sleep(t, finishCond) /\ Stay
     \/ ~InUse(target[t]) /\ Return(t) /\ UNCHANGED finishCond
  /\ UNCHANGED <<queueVars, appendCond, submitCond, queueOwner, threadVars>>

\* DxvkSubmissionQueue::waitForIdle.  The second predicate is evaluated under
\* the lock the first wait returned with.
WaitForIdle(t) ==
  /\ pc[t] = "waitForIdle" /\ t \notin submitCond
  /\ mutex = "free"
  /\ \/ /\ ~AllSubmitted
        /\ Sleep(t, submitCond)
        /\ Stay /\ UNCHANGED finishCond
     \/ /\ AllSubmitted /\ ~AllFinished
        /\ Sleep(t, finishCond)
        /\ Goto(t, "waitForFinish") /\ UNCHANGED submitCond
     \/ /\ AllSubmitted /\ AllFinished
        /\ Goto(t, "deviceIdle") /\ UNCHANGED <<submitCond, finishCond>>
  /\ UNCHANGED <<queueVars, appendCond, queueOwner, threadVars>>

WaitForFinish(t) ==
  /\ pc[t] = "waitForFinish" /\ t \notin finishCond
  /\ mutex = "free"
  /\ \/ ~AllFinished /\ Sleep(t, finishCond) /\ Stay
     \/ AllFinished /\ Goto(t, "deviceIdle") /\ UNCHANGED finishCond
  /\ UNCHANGED <<queueVars, appendCond, submitCond, queueOwner, threadVars>>

\* DxvkDevice::lockSubmission: synchronize(), then lockDeviceQueue().
LockSubmission(t) ==
  /\ pc[t] = "lockSubmission" /\ t \notin submitCond
  /\ mutex = "free"
  /\ \/ ~AllSubmitted /\ Sleep(t, submitCond) /\ Stay
     \/ AllSubmitted /\ Goto(t, "lockDeviceQueue") /\ UNCHANGED submitCond
  /\ UNCHANGED <<queueVars, appendCond, finishCond, queueOwner, threadVars>>

\* DxvkDevice::waitForIdle and lockSubmission go on to lock the device queue.
LockDeviceQueue(t) ==
  /\ queueOwner = "free"
  /\ queueOwner' = t
  /\ \/ pc[t] = "deviceIdle" /\ Goto(t, "deviceWaitIdle")
     \/ pc[t] = "lockDeviceQueue" /\ Goto(t, "ownsQueue")
  /\ UNCHANGED <<queueVars, condVars, threadVars>>

\* After vkDeviceWaitIdle, or when the application calls unlockSubmission.
UnlockDeviceQueue(t) ==
  /\ \/ pc[t] = "deviceWaitIdle" /\ (gpuPending = <<>> \/ gpuLost)
     \/ pc[t] = "ownsQueue"
  /\ queueOwner' = "free"
  /\ Return(t)
  /\ UNCHANGED <<queueVars, condVars, threadVars>>

WakeThreads == appendCond' = {} /\ submitCond' = {}

\* The destructor.  DxvkDevice's own destructor has waited for idle before, and
\* no client is left that could call.
Stop ==
  /\ ~stopped
  /\ \A t \in Clients : pc[t] = "idle"
  /\ submitQ = <<>> /\ finishQ = <<>>
  /\ mutex = "free"
  /\ stopped' = TRUE
  /\ WakeThreads
  /\ UNCHANGED <<queueVars, finishCond, submitVars, finishVars, clientVars,
                 gpuVars, objectVars, mutex, queueOwner, entryVars>>

-----------------------------------------------------------------------------
(* The submission thread, submitCmdLists. *)

Oldest == Head(submitQ)

\* Wait for work; the entry is moved out but keeps its place in the queue.
FetchSubmit ==
  /\ submitPc = "fetch" /\ SubmitThread \notin appendCond
  /\ mutex = "free"
  /\ \/ /\ stopped
        /\ submitPc' = "exit"
        /\ UNCHANGED <<submitCur, appendCond>>
     \/ /\ ~stopped /\ submitQ = <<>>
        /\ Sleep(SubmitThread, appendCond)
        /\ UNCHANGED submitVars
     \/ /\ ~stopped /\ submitQ # <<>>
        /\ submitCur' = Oldest
        /\ submitPc' = "checkError"
        /\ UNCHANGED appendCond
  /\ UNCHANGED <<submitQ, finishQ, submitCond, finishCond, finishVars, mutex,
                 gpuPending, objectVars, entryVars, callerVars>>

\* m_lastError is read before the device queue is locked.
CheckError ==
  /\ submitPc = "checkError"
  /\ IF lastError # "DEVICE_LOST"
       THEN submitPc' = "execute" /\ UNCHANGED status
       ELSE submitPc' = "retire" /\ status' = [status EXCEPT ![submitCur] = "DEVICE_LOST"]
  /\ UNCHANGED <<submitQ, finishQ, condVars, submitCur, finishVars, mutex,
                 gpuPending, objectVars, timeline, timelines, lastError, callerVars>>

\* What the driver may answer to a submission or a present.
DriverResult(k) ==
  {"SUCCESS"}
    \union (IF gpuLost THEN {"DEVICE_LOST"} ELSE {})
    \union (Failures \intersect (IF k = "cmd" THEN {"OUT_OF_MEMORY"} ELSE {"OUT_OF_DATE"}))

\* Submit or present with the device queue locked, then store the result where
\* the client looks for it.  Every submission takes a new timeline value before
\* vkQueueSubmit2 is called, and keeps it when the call fails.
Execute ==
  /\ submitPc = "execute"
  /\ queueOwner = "free"
  /\ \E r \in DriverResult(kind[submitCur]) :
       /\ status' = [status EXCEPT ![submitCur] = r]
       /\ \/ /\ kind[submitCur] = "cmd"
             /\ timelines' = timelines + 1
             /\ timeline' = [timeline EXCEPT ![submitCur] = timelines + 1]
             /\ gpuPending' = IF r = "SUCCESS" THEN Append(gpuPending, timelines + 1)
                                               ELSE gpuPending
          \/ /\ kind[submitCur] = "present"
             /\ UNCHANGED <<timelines, timeline, gpuPending>>
  /\ submitPc' = "retire"
  /\ UNCHANGED <<submitQ, finishQ, condVars, submitCur, finishVars, mutex,
                 objectVars, lastError, callerVars>>

ForwardMutant(i) == status[i] = "SUCCESS"
\* doForward of submitCmdLists
Forward(i) ==
  \/ status[i] = "SUCCESS"
  \/ kind[i] = "present" /\ status[i] # "DEVICE_LOST"

PassOnMutant(i) == finishQ' = <<i>> \o finishQ
PassOn(i) == finishQ' = Append(finishQ, i)

WakeSubmitted == submitCond' = {}

\* Pass the entry on to the queue thread.
RetireSubmit ==
  /\ submitPc = "retire"
  /\ mutex = "free"
  /\ Forward(submitCur)
  /\ PassOn(submitCur)
  /\ submitQ' = Tail(submitQ)
  /\ WakeSubmitted
  /\ submitPc' = "fetch"
  /\ UNCHANGED <<appendCond, finishCond, submitCur, finishVars, mutex,
                 gpuPending, objectVars, entryVars, callerVars>>

\* The device is lost: drop the entry.  m_finishCond is not notified.
DropSubmit ==
  /\ submitPc = "retire"
  /\ mutex = "free"
  /\ ~Forward(submitCur)
  /\ status[submitCur] = "DEVICE_LOST"
  /\ lastError' = "DEVICE_LOST"
  /\ submitQ' = Tail(submitQ)
  /\ WakeSubmitted
  /\ submitPc' = "drop"
  /\ UNCHANGED <<finishQ, appendCond, finishCond, submitCur, finishVars, mutex,
                 gpuPending, objectVars, status, timeline, timelines, callerVars>>

\* The local entry goes out of scope and takes the command list with it, which
\* clears its object tracker; its signals are never notified.
ReleaseDropped ==
  /\ submitPc = "drop"
  /\ released' = released \union {submitCur}
  /\ submitPc' = "fetch"
  /\ UNCHANGED <<submitQ, finishQ, condVars, submitCur, finishVars, mutex,
                 gpuPending, frames, recycled, entryVars, callerVars>>

\* Any other error: DxvkDevice::waitForIdle is called with m_mutex locked, and
\* the first thing that call does is to lock m_mutex.  The thread never leaves.
FailSubmit ==
  /\ submitPc = "retire"
  /\ mutex = "free"
  /\ ~Forward(submitCur)
  /\ status[submitCur] # "DEVICE_LOST"
  /\ lastError' = status[submitCur]
  /\ mutex' = SubmitThread
  /\ submitPc' = "waitForIdle"
  /\ UNCHANGED <<submitQ, finishQ, condVars, submitCur, finishVars, gpuPending,
                 objectVars, status, timeline, timelines, callerVars>>

-----------------------------------------------------------------------------
(* The queue thread, finishCmdLists. *)

FetchFinish ==
  /\ finishPc = "fetch" /\ FinishThread \notin submitCond
  /\ mutex = "free"
  /\ \/ /\ stopped
        /\ finishPc' = "exit"
        /\ UNCHANGED <<finishCur, submitCond>>
     \/ /\ ~stopped /\ finishQ = <<>>
        /\ Sleep(FinishThread, submitCond)
        /\ UNCHANGED finishVars
     \/ /\ ~stopped /\ finishQ # <<>>
        /\ finishCur' = Head(finishQ)
        /\ finishPc' = IF kind[Head(finishQ)] = "cmd" THEN "loadError" ELSE "signalFrame"
        /\ UNCHANGED submitCond
  /\ UNCHANGED <<submitQ, finishQ, appendCond, finishCond, submitVars, mutex,
                 gpuPending, objectVars, entryVars, callerVars>>

\* What the queue thread does outside of the lock.
Retiring(from, to) ==
  /\ finishPc = from
  /\ finishPc' = to
  /\ UNCHANGED <<submitQ, finishQ, condVars, submitVars, finishCur, mutex,
                 gpuPending, status, timeline, timelines, callerVars>>

\* A command list is not waited for once the device is known to be lost.
LoadError ==
  /\ Retiring("loadError", IF lastError = "DEVICE_LOST" THEN "notify" ELSE "waitSemaphores")
  /\ UNCHANGED <<lastError, objectVars>>

ReachedMutant(i) == gpuValue + 1 >= timeline[i]
Reached(i) == gpuValue >= timeline[i]

WaitSemaphores ==
  /\ Retiring("waitSemaphores", "notify")
  /\ \/ Reached(finishCur) /\ UNCHANGED lastError
     \/ gpuLost /\ lastError' = "DEVICE_LOST"
  /\ UNCHANGED objectVars

\* Any other error of vkWaitSemaphores: DxvkDevice::waitForIdle waits until
\* m_finishQueue is empty, but the entry this thread works on is still in it
\* and only this thread pops it.  The thread never leaves.
FailFinish ==
  /\ Retiring("waitSemaphores", "waitForIdle")
  /\ "OUT_OF_MEMORY" \in Failures
  /\ lastError' = "OUT_OF_MEMORY"
  /\ UNCHANGED objectVars

\* DxvkCommandList::notifyObjects, before any waiter is woken.
NotifyObjects ==
  /\ Retiring("notify", "pop")
  /\ released' = released \union {finishCur}
  /\ UNCHANGED <<lastError, frames, recycled>>

\* Presenter::signalFrame, then the reference to the presenter is dropped.
SignalFrame ==
  /\ Retiring("signalFrame", "pop")
  /\ frames' = frames \union {finishCur}
  /\ UNCHANGED <<lastError, released, recycled>>

WakeFinishedMutant == UNCHANGED finishCond
WakeFinished == finishCond' = {}

PopFinish ==
  /\ finishPc = "pop"
  /\ mutex = "free"
  /\ finishQ' = Tail(finishQ)
  /\ WakeFinished
  /\ finishPc' = IF kind[finishCur] = "cmd" THEN "recycle" ELSE "fetch"
  /\ UNCHANGED <<submitQ, appendCond, submitCond, submitVars, finishCur, mutex,
                 gpuPending, objectVars, entryVars, callerVars>>

\* DxvkCommandList::reset and DxvkDevice::recycleCommandList
Recycle ==
  /\ Retiring("recycle", "fetch")
  /\ recycled' = recycled \union {finishCur}
  /\ UNCHANGED <<lastError, released, frames>>

-----------------------------------------------------------------------------
(* The Vulkan device. *)

\* Timeline values are signaled in submission order.
GpuSignal ==
  /\ gpuPending # <<>> /\ ~gpuLost
  /\ gpuValue' = Head(gpuPending)
  /\ gpuPending' = Tail(gpuPending)
  /\ UNCHANGED <<queueVars, condVars, submitVars, finishVars, clientVars,
                 gpuLost, objectVars, lockVars, entryVars>>

GpuLose ==
  /\ "DEVICE_LOST" \in Failures
  /\ ~gpuLost
  /\ gpuLost' = TRUE
  /\ UNCHANGED <<queueVars, condVars, submitVars, finishVars, clientVars,
                 gpuPending, gpuValue, objectVars, lockVars, entryVars>>

-----------------------------------------------------------------------------
ClientStep(t) ==
  \/ Submit(t) \/ Present(t)
  \/ WaitForSubmission(t) \/ SynchronizeSubmission(t)
  \/ WaitForResource(t) \/ SynchronizeUntil(t)
  \/ WaitForIdle(t) \/ WaitForFinish(t)
  \/ LockSubmission(t) \/ LockDeviceQueue(t) \/ UnlockDeviceQueue(t)

SubmitStep ==
  \/ FetchSubmit \/ CheckError \/ Execute
  \/ RetireSubmit \/ DropSubmit \/ ReleaseDropped \/ FailSubmit

FinishStep ==
  \/ FetchFinish \/ LoadError \/ WaitSemaphores \/ FailFinish
  \/ SignalFrame \/ NotifyObjects \/ PopFinish \/ Recycle

Next ==
  \/ \E t \in Clients : Call(t) \/ ClientStep(t)
  \/ Stop
  \/ SubmitStep
  \/ FinishStep
  \/ GpuSignal \/ GpuLose

Spec == Init /\ [][Next]_vars

\* The threads run, the device executes what it was given, and a client that is
\* inside a call goes on.  Nothing obliges a client to make a call.
Fairness ==
  /\ WF_vars(SubmitStep)
  /\ WF_vars(FinishStep)
  /\ WF_vars(GpuSignal)
  /\ \A t \in Clients : WF_vars(ClientStep(t))

FairSpec == Spec /\ Fairness

-----------------------------------------------------------------------------
(* Properties *)

\* The values the variables take; every queue holds entries that were pushed.
TypeOK ==
  /\ nextId \in 1..(MaxEntries + 1)
  /\ kind \in [Ids -> Kinds]
  /\ submitQ \in Seq(Ids) /\ finishQ \in Seq(Ids)
  /\ status \in [Ids -> Results]
  /\ timeline \in [Ids -> Nat]
  /\ timelines \in Nat
  /\ lastError \in {"SUCCESS", "DEVICE_LOST", "OUT_OF_MEMORY"}
  /\ stopped \in BOOLEAN
  /\ mutex \in {"free", SubmitThread}
  /\ queueOwner \in Clients \union {"free"}
  /\ appendCond \subseteq {SubmitThread}
  /\ submitCond \subseteq Clients \union {FinishThread}
  /\ finishCond \subseteq Clients
  /\ submitPc \in {"fetch", "checkError", "execute", "retire", "drop", "waitForIdle", "exit"}
  /\ submitCur \in Ids \union {0}
  /\ finishPc \in {"fetch", "loadError", "waitSemaphores", "notify", "signalFrame",
                   "pop", "recycle", "waitForIdle", "exit"}
  /\ finishCur \in Ids \union {0}
  /\ pc \in [Clients -> {"idle", "submit", "present", "waitForSubmission",
                         "synchronizeSubmission", "waitForResource",
                         "synchronizeUntil", "waitForIdle", "waitForFinish",
                         "deviceIdle", "deviceWaitIdle", "lockSubmission",
                         "lockDeviceQueue", "ownsQueue"}]
  /\ target \in [Clients -> Ids \union {0}]
  /\ snapshot \in [Clients -> Ids \union {0}]
  /\ gpuPending \in Seq(Nat) /\ gpuValue \in Nat /\ gpuLost \in BOOLEAN
  /\ released \subseteq Ids /\ frames \subseteq Ids /\ recycled \subseteq Ids

\* The GPU is through with a command list: it reached the list's timeline
\* value, or it never will touch the list's resources again.
GpuDone(i) ==
  \/ gpuValue >= timeline[i]
  \/ gpuLost

\* A resource is reported as unused, and may be overwritten or freed by the
\* application, only when the GPU is through with the command list that uses it.
NoEarlyRelease ==
  \A i \in released : kind[i] = "cmd" => GpuDone(i)

\* When a presented frame is signaled, which is what frame latency events,
\* frame statistics and the swap chain's own pacing count, the GPU is through
\* with every command list that was queued before the present.
FrameAfterItsCommands ==
  \A f \in frames : \A i \in Ids : i < f /\ kind[i] = "cmd" => GpuDone(i)

\* Back-pressure: presents may exceed the limit, command lists may not, in
\* whatever way the calls of several producers interleave.
BoundedCommandLists ==
  Cardinality({i \in Range(submitQ) \union Range(finishQ) : kind[i] = "cmd"})
    <= MaxQueued + 1

\* DxvkSubmissionQueue::waitForIdle releases the lock between its two waits, so
\* entries move while it runs; still, all that was queued before the call has
\* been retired when it gets to vkDeviceWaitIdle.
IdleMeansRetired ==
  \A t \in Waiters : pc[t] \in {"deviceIdle", "deviceWaitIdle"} =>
    \A i \in 1..snapshot[t] :
      Forward(i) => IF kind[i] = "cmd" THEN i \in released ELSE i \in frames

\* A client that owns the Vulkan queue after lockSubmission sees all work that was queued
\* before it began to synchronize submitted, or refused.
OwnerSeesSubmissions ==
  \A t \in Waiters : pc[t] = "ownsQueue" =>
    \A i \in 1..snapshot[t] : status[i] # "NOT_READY"

\* Results become available in queue order: when the result of one entry can be
\* read, every earlier entry has been handed to the device or refused.
ResultsInOrder ==
  \A i \in Ids : status[i] # "NOT_READY" => \A j \in 1..i : status[j] # "NOT_READY"

\* No command list is back in the device's pool while it is queued or the GPU
\* still executes it.
RecycleSafe ==
  \A i \in recycled :
    /\ i \notin Range(submitQ) \union Range(finishQ)
    /\ GpuDone(i)

\* Whatever the queue thread reports or hands back, be it a resource as unused, a
\* frame as shown or a command list as free, the GPU is through with.
RetiredOnlyWhenDone == NoEarlyRelease /\ FrameAfterItsCommands /\ RecycleSafe

\* The queue implements the in-order pipeline of InOrderPipeline.tla.
Pipeline == INSTANCE InOrderPipeline WITH
  next     <- nextId,
  pending  <- submitQ,
  inflight <- finishQ,
  retired  <- {i \in Queued : Forward(i)} \ (Range(submitQ) \union Range(finishQ)),
  lost     <- gpuLost

ImplementsPipeline == Pipeline!PipelineSpec

\* Every call a client is in returns as long as the device works; after an error of
\* it the calls that wait on m_finishCond may not (see UntilReturns), and an error
\* other than a loss stops everything (see IdleReturns).  The calls that only need
\* entries to leave m_submitQueue return even when the device is lost, since
\* dropped entries notify m_submitCond.  Once the destructor has set m_stopped, both
\* threads reach their end, so that its two joins return.
Broken == "waitForIdle" \in {submitPc, finishPc}
CallsReturn ==
  /\ \A t \in Clients : pc[t] # "idle" ~> (pc[t] = "idle" \/ gpuLost \/ Broken)
  /\ \A t \in Waiters :
       pc[t] \in {"waitForSubmission", "lockSubmission"}
         ~> (pc[t] \in {"idle", "ownsQueue"} \/ Broken)
  /\ stopped ~> (submitPc = "exit" /\ finishPc = "exit")

\* "Waits for all submissions to complete" (dxvk_queue.h): waitForIdle returns.
IdleReturns ==
  \A t \in Waiters : pc[t] = "waitForIdle" ~> pc[t] \notin {"waitForIdle", "waitForFinish"}

\* "Synchronizes until a given condition becomes true" (dxvk_queue.h): the call
\* returns once the resource is not in use.
UntilReturns ==
  \A t \in Waiters :
    (pc[t] = "synchronizeUntil" /\ ~InUse(target[t])) ~> pc[t] = "idle"
=============================================================================
