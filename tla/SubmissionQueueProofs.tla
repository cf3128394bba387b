----------------------- MODULE SubmissionQueueProofs -----------------------
(***************************************************************************)
(* Theorems about SubmissionQueue, for every set of producers and waiters, *)
(* every queue limit, every number of entries and every set of failures.   *)
(*                                                                         *)
(* Three facts carry the argument.                                         *)
(*                                                                         *)
(*   - Queue order is entry order: finishQ followed by submitQ is strictly *)
(*     increasing, the submission thread holds the head of submitQ and the *)
(*     queue thread the head of finishQ (Pushed, First, SubmitOrder,       *)
(*     FinishOrder).  What has left a queue is therefore smaller than what *)
(*     is in it (DropPast, RecyclePast).                                   *)
(*   - Timeline values are taken in that order, and everything up to the   *)
(*     last value is signaled or pending (TimelineOrder).  When the queue  *)
(*     thread has seen the value of one command list it has seen all the   *)
(*     values before it.                                                   *)
(*   - An entry is refused only after the device is lost (StatusOrder,     *)
(*     LostKnown), and a lost device touches nothing any more.             *)
(*                                                                         *)
(* They are proved as layers, each one relative to the layers below it:    *)
(* TypeInv, OrderInv, ResultInv, TimelineInv, ReleaseInv and, beside one   *)
(* another on top, SnapshotInv, ForwardInv and LimitInv.                   *)
(***************************************************************************)
EXTENDS SubmissionQueue, FiniteSetTheorems, TLAPS

-----------------------------------------------------------------------------
(* Sequences *)

\* The first element of a sequence that is not empty, and the rest.
LEMMA HeadTail ==
  ASSUME NEW S, NEW s \in Seq(S), s # <<>>
  PROVE  /\ Len(s) \in Nat /\ Len(s) >= 1
         /\ Head(s) = s[1] /\ Head(s) \in S
         /\ Tail(s) \in Seq(S) /\ Len(Tail(s)) = Len(s) - 1
         /\ \A k \in 1..(Len(s) - 1) : Tail(s)[k] = s[k + 1]
  OBVIOUS

\* A sequence with one more element.
LEMMA Appended ==
  ASSUME NEW S, NEW s \in Seq(S), NEW x \in S
  PROVE  /\ Append(s, x) \in Seq(S)
         /\ Len(s) \in Nat /\ Len(Append(s, x)) = Len(s) + 1
         /\ \A k \in 1..Len(s) : Append(s, x)[k] = s[k]
         /\ Append(s, x)[Len(s) + 1] = x
         /\ Append(s, x) # <<>>
         /\ s # <<>> => Head(Append(s, x)) = Head(s)
<1>1. /\ Append(s, x) \in Seq(S)
      /\ Len(s) \in Nat /\ Len(Append(s, x)) = Len(s) + 1
      /\ \A k \in 1..Len(s) : Append(s, x)[k] = s[k]
      /\ Append(s, x)[Len(s) + 1] = x
  OBVIOUS
<1>2. Append(s, x) # <<>>
  <2>1. Len(<<>>) = 0 /\ Len(Append(s, x)) # 0
    BY <1>1
  <2> QED
    BY <2>1
<1>3. ASSUME s # <<>> PROVE Head(Append(s, x)) = Head(s)
  <2>1. 1 \in 1..Len(s) /\ Head(s) = s[1]
    BY <1>3
  <2>2. Head(Append(s, x)) = Append(s, x)[1]
    BY <1>1, <1>2
  <2> QED
    BY <1>1, <2>1, <2>2
<1> QED
  BY <1>1, <1>2, <1>3

\* The elements of a sequence.
LEMMA RangeOf ==
  ASSUME NEW S, NEW s \in Seq(S)
  PROVE  \A x : x \in Range(s) <=> \E k \in 1..Len(s) : x = s[k]
  BY DEF Range

-----------------------------------------------------------------------------
(* Steps *)

coreVars == <<queueVars, submitVars, finishVars, gpuVars, objectVars, entryVars>>

\* A client that pushes an entry; command lists find room in the queue.
PushStep(k) ==
  /\ Push(k)
  /\ k = "cmd" => QueueSize <= MaxQueued
  /\ UNCHANGED <<submitVars, finishVars, gpuVars, objectVars, entryVars>>

\* What clients, the destructor and stuttering do to the queue: they push, or
\* they only sleep, wake and return.
LEMMA ClientSteps ==
  ASSUME \/ \E t \in Clients : Call(t) \/ ClientStep(t)
         \/ Stop
         \/ UNCHANGED vars
  PROVE  UNCHANGED coreVars \/ \E k \in Kinds : PushStep(k)
<1>1. ASSUME NEW t \in Clients, Call(t) PROVE UNCHANGED coreVars
  BY <1>1 DEF Call, coreVars, threadVars
<1>2. ASSUME NEW t \in Clients, Submit(t)
      PROVE  UNCHANGED coreVars \/ PushStep("cmd")
  BY <1>2 DEF Submit, coreVars, threadVars, PushStep
<1>3. ASSUME NEW t \in Clients, Present(t) PROVE PushStep("present")
  BY <1>3 DEF Present, threadVars, PushStep
<1>4. ASSUME NEW t \in Clients, ClientStep(t), ~Submit(t), ~Present(t)
      PROVE  UNCHANGED coreVars
  BY <1>4
  DEF ClientStep, coreVars, threadVars, WaitForSubmission, SynchronizeSubmission,
      WaitForResource, SynchronizeUntil, WaitForIdle, WaitForFinish,
      LockSubmission, LockDeviceQueue, UnlockDeviceQueue
<1>5. ASSUME Stop PROVE UNCHANGED coreVars
  BY <1>5 DEF Stop, coreVars, entryVars
<1>6. ASSUME UNCHANGED vars PROVE UNCHANGED coreVars
  BY <1>6 DEF vars, coreVars
<1> QED
  BY <1>1, <1>2, <1>3, <1>4, <1>5, <1>6 DEF Kinds

-----------------------------------------------------------------------------
(* Types *)

\* The submission thread works on the oldest entry of m_submitQueue, which
\* stays in the queue until the thread removes it.
SubmitInHand ==
  /\ submitPc \in {"checkError", "execute", "retire", "waitForIdle"} =>
       submitQ # <<>> /\ submitCur = Head(submitQ)
  /\ submitPc = "drop" => submitCur \in Ids

\* The queue thread works on the oldest entry of m_finishQueue.
FinishInHand ==
  /\ finishPc \in {"loadError", "waitSemaphores", "notify", "signalFrame", "pop", "waitForIdle"} =>
       finishQ # <<>> /\ finishCur = Head(finishQ)
  /\ finishPc = "recycle" => finishCur \in Ids

\* What the submission thread finds in the entry when it is through with it.
OutcomeKnown ==
  submitPc = "retire" =>
    /\ status[submitCur] # "NOT_READY"
    /\ kind[submitCur] = "cmd" => status[submitCur] # "OUT_OF_DATE"

\* No entry is in m_submitQueue that has not been pushed.
Pushed == \A k \in 1..Len(submitQ) : submitQ[k] < nextId

TypeInv == TypeOK /\ SubmitInHand /\ FinishInHand /\ OutcomeKnown /\ Pushed

\* The types of the variables that only clients and the locks change.
ClientTypes ==
  /\ stopped \in BOOLEAN
  /\ mutex \in {"free", SubmitThread}
  /\ queueOwner \in Clients \union {"free"}
  /\ appendCond \subseteq {SubmitThread}
  /\ submitCond \subseteq Clients \union {FinishThread}
  /\ finishCond \subseteq Clients
  /\ pc \in [Clients -> {"idle", "submit", "present", "waitForSubmission",
                         "synchronizeSubmission", "waitForResource",
                         "synchronizeUntil", "waitForIdle", "waitForFinish",
                         "deviceIdle", "deviceWaitIdle", "lockSubmission",
                         "lockDeviceQueue", "ownsQueue"}]
  /\ target \in [Clients -> Ids \union {0}]
  /\ snapshot \in [Clients -> Ids \union {0}]

CoreTypes ==
  /\ nextId \in 1..(MaxEntries + 1)
  /\ kind \in [Ids -> Kinds]
  /\ submitQ \in Seq(Ids) /\ finishQ \in Seq(Ids)
  /\ status \in [Ids -> Results]
  /\ timeline \in [Ids -> Nat]
  /\ timelines \in Nat
  /\ lastError \in {"SUCCESS", "DEVICE_LOST", "OUT_OF_MEMORY"}
  /\ submitPc \in {"fetch", "checkError", "execute", "retire", "drop", "waitForIdle", "exit"}
  /\ submitCur \in Ids \union {0}
  /\ finishPc \in {"fetch", "loadError", "waitSemaphores", "notify", "signalFrame",
                   "pop", "recycle", "waitForIdle", "exit"}
  /\ finishCur \in Ids \union {0}
  /\ gpuPending \in Seq(Nat) /\ gpuValue \in Nat /\ gpuLost \in BOOLEAN
  /\ released \subseteq Ids /\ frames \subseteq Ids /\ recycled \subseteq Ids

LEMMA TypeSplit == TypeOK <=> CoreTypes /\ ClientTypes
  BY DEF TypeOK, CoreTypes, ClientTypes

LEMMA InitTypes == Init => TypeInv
<1> SUFFICES ASSUME Init PROVE TypeInv
  OBVIOUS
<1> USE SubmissionAssumption DEF SubmissionAssumption
<1>1. CoreTypes
  <2>1. nextId \in 1..(MaxEntries + 1)
    BY DEF Init
  <2>2. kind \in [Ids -> Kinds] /\ status \in [Ids -> Results] /\ timeline \in [Ids -> Nat]
    BY DEF Init, Kinds, Results
  <2>3. <<>> \in Seq(Ids) /\ <<>> \in Seq(Nat)
    OBVIOUS
  <2> QED
    BY <2>1, <2>2, <2>3 DEF Init, CoreTypes
<1>2. ClientTypes
  BY DEF Init, ClientTypes
<1> QED
  BY <1>1, <1>2, TypeSplit DEF Init, TypeInv, SubmitInHand, FinishInHand, OutcomeKnown, Pushed

\* Every step preserves the types of what clients and locks change.
LEMMA ClientTypesStep ==
  ASSUME TypeOK, [Next]_vars
  PROVE  ClientTypes'
<1> USE SubmissionAssumption DEF SubmissionAssumption
<1>1. ASSUME NEW t \in Clients, Call(t) PROVE ClientTypes'
  <2>1. pc' \in [Clients -> {"idle", "submit", "present", "waitForSubmission",
                             "synchronizeSubmission", "waitForResource",
                             "synchronizeUntil", "waitForIdle", "waitForFinish",
                             "deviceIdle", "deviceWaitIdle", "lockSubmission",
                             "lockDeviceQueue", "ownsQueue"}]
    BY <1>1 DEF Call, Goto, TypeOK
  <2>4. nextId \in 1..(MaxEntries + 1)
    BY DEF TypeOK
  <2>2. Queued \subseteq Ids /\ nextId - 1 \in Ids \union {0}
    BY <2>4 DEF Queued, Ids
  <2>3. target' \in [Clients -> Ids \union {0}] /\ snapshot' \in [Clients -> Ids \union {0}]
    <3>1. /\ UNCHANGED target \/ \E i \in Ids : target' = [target EXCEPT ![t] = i]
          /\ UNCHANGED snapshot \/ snapshot' = [snapshot EXCEPT ![t] = nextId - 1]
      BY <1>1, <2>2 DEF Call, Goto
    <3>2. target \in [Clients -> Ids \union {0}] /\ snapshot \in [Clients -> Ids \union {0}]
      BY DEF TypeOK
    <3> QED
      BY <2>2, <3>1, <3>2
  <2> QED
    BY <1>1, <2>1, <2>3 DEF Call, TypeOK, ClientTypes, condVars, threadVars
<1>2. ASSUME NEW t \in Clients, Submit(t) PROVE ClientTypes'
  <2>1. CASE Sleep(t, finishCond) /\ Stay /\ UNCHANGED <<appendCond, submitCond>>
    BY <1>2, <2>1 DEF Submit, Stay, Sleep, TypeOK, ClientTypes, clientVars, threadVars
  <2>2. CASE Push("cmd") /\ Return(t)
    BY <1>2, <2>2 DEF Submit, Push, Return, TypeOK, ClientTypes, threadVars
  <2> QED
    BY <1>2, <2>1, <2>2 DEF Submit
<1>3. ASSUME NEW t \in Clients, Present(t) PROVE ClientTypes'
  BY <1>3 DEF Present, Push, Return, TypeOK, ClientTypes, threadVars
<1>4. ASSUME NEW t \in Clients,
             WaitForSubmission(t) \/ SynchronizeSubmission(t) \/ WaitForResource(t) \/ SynchronizeUntil(t)
      PROVE  ClientTypes'
  <2>1. CASE WaitForSubmission(t) \/ WaitForResource(t)
    BY <2>1
    DEF WaitForSubmission, WaitForResource, Goto, Return, TypeOK, ClientTypes, condVars,
        threadVars
  <2>2. CASE SynchronizeSubmission(t)
    BY <2>2
    DEF SynchronizeSubmission, Return, Stay, Sleep, TypeOK, ClientTypes, clientVars, threadVars
  <2>3. CASE SynchronizeUntil(t)
    BY <2>3
    DEF SynchronizeUntil, Return, Stay, Sleep, TypeOK, ClientTypes, clientVars, threadVars
  <2> QED
    BY <1>4, <2>1, <2>2, <2>3
<1>5. ASSUME NEW t \in Clients, WaitForIdle(t) \/ WaitForFinish(t) \/ LockSubmission(t)
      PROVE  ClientTypes'
  BY <1>5
  DEF WaitForIdle, WaitForFinish, LockSubmission, Goto, Return, Stay, Sleep,
      TypeOK, ClientTypes, clientVars, threadVars
<1>6. ASSUME NEW t \in Clients, LockDeviceQueue(t) \/ UnlockDeviceQueue(t)
      PROVE  ClientTypes'
  BY <1>6
  DEF LockDeviceQueue, UnlockDeviceQueue, Goto, Return, TypeOK, ClientTypes,
      condVars, threadVars
<1>7. ASSUME Stop PROVE ClientTypes'
  BY <1>7 DEF Stop, WakeThreads, TypeOK, ClientTypes, clientVars
<1>8. ASSUME SubmitStep PROVE ClientTypes'
  BY <1>8
  DEF SubmitStep, FetchSubmit, CheckError, Execute, RetireSubmit, DropSubmit,
      ReleaseDropped, FailSubmit, WakeSubmitted, Sleep, TypeOK, ClientTypes,
      callerVars, clientVars, condVars
<1>9. ASSUME FinishStep PROVE ClientTypes'
  BY <1>9
  DEF FinishStep, FetchFinish, LoadError, WaitSemaphores, FailFinish, SignalFrame,
      NotifyObjects, PopFinish, Recycle, Retiring, WakeFinished, Sleep, TypeOK,
      ClientTypes, callerVars, clientVars, condVars
<1>10. ASSUME GpuSignal \/ GpuLose \/ UNCHANGED vars PROVE ClientTypes'
  BY <1>10
  DEF GpuSignal, GpuLose, vars, TypeOK, ClientTypes, clientVars, condVars, lockVars
<1> QED
  BY <1>1, <1>2, <1>3, <1>4, <1>5, <1>6, <1>7, <1>8, <1>9, <1>10 DEF Next, ClientStep

\* Every step of the specification is one of these, as far as the queue goes.
LEMMA CoreSteps ==
  ASSUME [Next]_vars
  PROVE  \/ UNCHANGED coreVars
         \/ \E k \in Kinds : PushStep(k)
         \/ SubmitStep \/ FinishStep \/ GpuSignal \/ GpuLose
  BY ClientSteps DEF Next

\* Pushing an entry, or moving one from queue to queue, leaves the first one.
LEMMA TypeStep ==
  ASSUME TypeInv, [Next]_vars
  PROVE  TypeInv'
<1> USE DEF TypeInv
<1>1. CoreTypes /\ ClientTypes' /\ (CoreTypes' => TypeOK')
  BY TypeSplit, ClientTypesStep DEF TypeOK, CoreTypes, ClientTypes
<1> SUFFICES CoreTypes' /\ SubmitInHand' /\ FinishInHand' /\ OutcomeKnown' /\ Pushed'
  BY <1>1
<1>2. CASE UNCHANGED coreVars
  BY <1>1, <1>2
  DEF coreVars, queueVars, submitVars, finishVars, gpuVars, objectVars, entryVars,
      CoreTypes, SubmitInHand, FinishInHand, OutcomeKnown, Pushed
<1>3. ASSUME NEW k \in Kinds, PushStep(k)
      PROVE  CoreTypes' /\ SubmitInHand' /\ FinishInHand' /\ OutcomeKnown' /\ Pushed'
  <2>1. /\ nextId \in Ids
        /\ kind' = [kind EXCEPT ![nextId] = k]
        /\ submitQ' = Append(submitQ, nextId)
        /\ nextId' = nextId + 1
        /\ UNCHANGED <<finishQ, submitPc, submitCur, finishPc, finishCur, gpuPending,
                       gpuValue, gpuLost, released, frames, recycled, status,
                       timeline, timelines, lastError>>
    BY <1>1, <1>3
    DEF PushStep, Push, CoreTypes, Ids, submitVars, finishVars, gpuVars, objectVars, entryVars
  <2>2. CoreTypes'
    <3>1. nextId' \in 1..(MaxEntries + 1)
      BY <2>1, SubmissionAssumption DEF SubmissionAssumption, Ids
    <3>2. submitQ' \in Seq(Ids) /\ kind' \in [Ids -> Kinds]
      BY <1>1, <2>1 DEF CoreTypes
    <3> QED
      BY <1>1, <2>1, <3>1, <3>2 DEF CoreTypes
  <2>3. SubmitInHand'
    <3>1. submitQ # <<>> => submitQ' # <<>> /\ Head(submitQ') = Head(submitQ)
      <4>1. submitQ \in Seq(Ids) /\ nextId \in Ids /\ submitQ' = Append(submitQ, nextId)
        BY <1>1, <2>1 DEF CoreTypes
      <4> QED
        BY <4>1, Appended
    <3> QED
      BY <2>1, <3>1 DEF SubmitInHand
  <2>4. FinishInHand'
    BY <2>1 DEF FinishInHand
  <2>5. OutcomeKnown'
    <3>1. submitPc = "retire" => submitCur # nextId
      BY <1>1, HeadTail DEF Pushed, SubmitInHand, CoreTypes
    <3> QED
      BY <1>1, <2>1, <3>1 DEF OutcomeKnown, CoreTypes
  <2>6. Pushed'
    <3>1. submitQ \in Seq(Ids) /\ nextId \in Nat
      BY <1>1, <2>1 DEF CoreTypes, Ids
    <3>2. /\ Len(submitQ) \in Nat /\ Len(submitQ') = Len(submitQ) + 1
          /\ \A n \in 1..Len(submitQ) : submitQ'[n] = submitQ[n]
          /\ submitQ'[Len(submitQ) + 1] = nextId
      BY <2>1, <3>1, Appended
    <3>3. \A n \in 1..Len(submitQ) : submitQ[n] \in Nat
      <4>1. Ids \subseteq Nat
        BY DEF Ids
      <4>2. \A n \in 1..Len(submitQ) : submitQ[n] \in Ids
        BY <3>1
      <4> QED
        BY <4>1, <4>2
    <3> QED
      BY <2>1, <3>1, <3>2, <3>3 DEF Pushed
  <2> QED
    BY <2>2, <2>3, <2>4, <2>5, <2>6
<1>4. CASE FetchSubmit
  <2>1. UNCHANGED <<nextId, kind, submitQ, finishQ, finishPc, finishCur, gpuPending,
                    gpuValue, gpuLost, released, frames, recycled, status, timeline,
                    timelines, lastError>>
    BY <1>4 DEF FetchSubmit, callerVars, finishVars, objectVars, entryVars
  <2>2. \/ UNCHANGED submitVars \/ (submitPc' = "exit" /\ submitCur' = submitCur)
        \/ submitQ # <<>> /\ submitCur' = Head(submitQ) /\ submitPc' = "checkError"
    BY <1>4 DEF FetchSubmit, Oldest, submitVars
  <2>3. submitQ # <<>> => Head(submitQ) \in Ids
    BY <1>1 DEF CoreTypes
  <2> QED
    BY <1>1, <2>1, <2>2, <2>3
    DEF CoreTypes, SubmitInHand, FinishInHand, OutcomeKnown, Pushed, submitVars
<1>5. CASE CheckError
  <2>1. UNCHANGED <<nextId, kind, submitQ, finishQ, submitCur, finishPc, finishCur,
                    gpuPending, gpuValue, gpuLost, released, frames, recycled,
                    timeline, timelines, lastError>>
    BY <1>5 DEF CheckError, callerVars, finishVars, objectVars
  <2>2. submitPc = "checkError" /\ submitCur \in Ids
    BY <1>1, <1>5 DEF CheckError, SubmitInHand, CoreTypes
  <2>3. \/ submitPc' = "execute" /\ status' = status
        \/ submitPc' = "retire" /\ status' = [status EXCEPT ![submitCur] = "DEVICE_LOST"]
    BY <1>5 DEF CheckError
  <2>4. CoreTypes'
    BY <1>1, <2>1, <2>3 DEF CoreTypes, Results
  <2> QED
    BY <1>1, <2>1, <2>2, <2>3, <2>4
    DEF CoreTypes, SubmitInHand, FinishInHand, OutcomeKnown, Pushed
<1>6. CASE Execute
  <2>1. UNCHANGED <<nextId, kind, submitQ, finishQ, submitCur, finishPc, finishCur,
                    gpuValue, gpuLost, released, frames, recycled, lastError>>
    BY <1>6 DEF Execute, callerVars, finishVars, objectVars
  <2>2. submitPc = "execute" /\ submitPc' = "retire" /\ submitCur \in Ids
    BY <1>1, <1>6 DEF Execute, SubmitInHand, CoreTypes
  <2>3. PICK r \in DriverResult(kind[submitCur]) :
          /\ status' = [status EXCEPT ![submitCur] = r]
          /\ timelines' \in {timelines, timelines + 1}
          /\ \/ timeline' = timeline
             \/ timeline' = [timeline EXCEPT ![submitCur] = timelines + 1]
          /\ gpuPending' \in {gpuPending, Append(gpuPending, timelines + 1)}
    BY <1>6 DEF Execute
  <2>4. r \in Results \ {"NOT_READY"} /\ (kind[submitCur] = "cmd" => r # "OUT_OF_DATE")
    BY <2>3 DEF DriverResult, Results
  <2>5. CoreTypes'
    <3>1. status' \in [Ids -> Results]
      BY <1>1, <2>3, <2>4 DEF CoreTypes
    <3>2. timelines \in Nat /\ timeline \in [Ids -> Nat] /\ gpuPending \in Seq(Nat)
      BY <1>1 DEF CoreTypes
    <3>3. timelines' \in Nat /\ timeline' \in [Ids -> Nat]
      <4>1. timelines + 1 \in Nat
        BY <3>2
      <4> QED
        BY <2>3, <3>2, <4>1
    <3>4. gpuPending' \in Seq(Nat)
      <4>1. timelines + 1 \in Nat
        BY <3>2
      <4>2. Append(gpuPending, timelines + 1) \in Seq(Nat)
        BY <3>2, <4>1
      <4> QED
        BY <2>3, <3>2, <4>2
    <3> QED
      BY <1>1, <2>1, <2>2, <3>1, <3>3, <3>4 DEF CoreTypes
  <2> QED
    BY <1>1, <2>1, <2>2, <2>3, <2>4, <2>5
    DEF CoreTypes, SubmitInHand, FinishInHand, OutcomeKnown, Pushed
<1>7. CASE RetireSubmit
  <2>1. UNCHANGED <<nextId, kind, submitCur, finishPc, finishCur, gpuPending, gpuValue,
                    gpuLost, released, frames, recycled, status, timeline, timelines,
                    lastError>>
    BY <1>7 DEF RetireSubmit, callerVars, finishVars, objectVars, entryVars
  <2>2. /\ submitQ # <<>> /\ submitCur \in Ids
        /\ submitQ' = Tail(submitQ) /\ finishQ' = Append(finishQ, submitCur)
        /\ submitPc' = "fetch"
    BY <1>1, <1>7 DEF RetireSubmit, PassOn, SubmitInHand, CoreTypes
  <2>3. CoreTypes' /\ Pushed'
    BY <1>1, <2>1, <2>2, HeadTail, Appended DEF CoreTypes, Pushed, Ids
  <2>4. finishQ # <<>> => finishQ' # <<>> /\ Head(finishQ') = Head(finishQ)
    BY <1>1, <2>2 DEF CoreTypes
  <2> QED
    BY <2>1, <2>2, <2>3, <2>4 DEF SubmitInHand, FinishInHand, OutcomeKnown
<1>8. CASE DropSubmit \/ FailSubmit
  <2>1. UNCHANGED <<nextId, kind, finishQ, submitCur, finishPc, finishCur, gpuPending,
                    gpuValue, gpuLost, released, frames, recycled, status, timeline,
                    timelines>>
    BY <1>8 DEF DropSubmit, FailSubmit, callerVars, finishVars, objectVars
  <2>2. /\ submitPc = "retire" /\ submitQ # <<>> /\ submitCur = Head(submitQ)
        /\ submitCur \in Ids /\ ~Forward(submitCur)
        /\ lastError' = status[submitCur]
    BY <1>1, <1>8 DEF DropSubmit, FailSubmit, SubmitInHand, CoreTypes
  <2>3. lastError' \in {"DEVICE_LOST", "OUT_OF_MEMORY"}
    BY <1>1, <2>2 DEF Forward, OutcomeKnown, CoreTypes, Kinds, Results
  <2>4. \/ submitQ' = Tail(submitQ) /\ submitPc' = "drop"
        \/ submitQ' = submitQ /\ submitPc' = "waitForIdle"
    BY <1>8 DEF DropSubmit, FailSubmit
  <2>5. CoreTypes' /\ Pushed'
    <3>1. submitQ' \in Seq(Ids) /\ Pushed'
      <4>1. submitQ \in Seq(Ids)
        BY <1>1 DEF CoreTypes
      <4>2. CASE submitQ' = Tail(submitQ)
        BY <2>1, <2>2, <4>1, <4>2, HeadTail DEF Pushed
      <4>3. CASE submitQ' = submitQ
        BY <2>1, <4>1, <4>3 DEF Pushed
      <4> QED
        BY <2>4, <4>2, <4>3
    <3> QED
      BY <1>1, <2>1, <2>2, <2>3, <2>4, <3>1 DEF CoreTypes
  <2> QED
    BY <2>1, <2>2, <2>4, <2>5 DEF SubmitInHand, FinishInHand, OutcomeKnown
<1>9. CASE ReleaseDropped
  <2>1. UNCHANGED <<nextId, kind, submitQ, finishQ, submitCur, finishPc, finishCur,
                    gpuPending, gpuValue, gpuLost, frames, recycled, status, timeline,
                    timelines, lastError>>
    BY <1>9 DEF ReleaseDropped, callerVars, finishVars, entryVars
  <2>2. submitCur \in Ids /\ submitPc' = "fetch" /\ released' = released \union {submitCur}
    BY <1>9 DEF ReleaseDropped, SubmitInHand
  <2> QED
    BY <1>1, <2>1, <2>2 DEF CoreTypes, SubmitInHand, FinishInHand, OutcomeKnown, Pushed
<1>10. CASE FetchFinish
  <2>1. UNCHANGED <<nextId, kind, submitQ, finishQ, submitPc, submitCur, gpuPending,
                    gpuValue, gpuLost, released, frames, recycled, status, timeline,
                    timelines, lastError>>
    BY <1>10 DEF FetchFinish, callerVars, submitVars, objectVars, entryVars
  <2>2. \/ UNCHANGED finishVars \/ (finishPc' = "exit" /\ finishCur' = finishCur)
        \/ /\ finishQ # <<>> /\ finishCur' = Head(finishQ)
           /\ finishPc' \in {"loadError", "signalFrame"}
    BY <1>10 DEF FetchFinish, finishVars
  <2>3. finishQ # <<>> => Head(finishQ) \in Ids
    BY <1>1 DEF CoreTypes
  <2> QED
    BY <1>1, <2>1, <2>2, <2>3
    DEF CoreTypes, SubmitInHand, FinishInHand, OutcomeKnown, Pushed, finishVars
<1>11. CASE LoadError \/ WaitSemaphores \/ FailFinish \/ SignalFrame \/ NotifyObjects \/ Recycle
  <2>1. UNCHANGED <<nextId, kind, submitQ, finishQ, submitPc, submitCur, finishCur,
                    gpuPending, gpuValue, gpuLost, status, timeline, timelines>>
    BY <1>11
    DEF LoadError, WaitSemaphores, FailFinish, SignalFrame, NotifyObjects, Recycle,
        Retiring, callerVars, submitVars
  <2>2. \/ /\ finishPc \in {"loadError", "waitSemaphores", "notify", "signalFrame"}
           /\ finishPc' \in {"waitSemaphores", "notify", "pop", "waitForIdle"}
        \/ finishPc = "recycle" /\ finishPc' = "fetch"
    BY <1>11
    DEF LoadError, WaitSemaphores, FailFinish, SignalFrame, NotifyObjects, Recycle, Retiring
  <2>3. lastError' \in {lastError, "DEVICE_LOST", "OUT_OF_MEMORY"}
    BY <1>11
    DEF LoadError, WaitSemaphores, FailFinish, SignalFrame, NotifyObjects, Recycle, objectVars
  <2>4. finishCur \in Ids
    BY <1>1, <2>2 DEF FinishInHand, CoreTypes
  <2>5. /\ released' \subseteq released \union {finishCur}
        /\ frames' \subseteq frames \union {finishCur}
        /\ recycled' \subseteq recycled \union {finishCur}
    BY <1>11
    DEF LoadError, WaitSemaphores, FailFinish, SignalFrame, NotifyObjects, Recycle, objectVars
  <2>6. CoreTypes'
    BY <1>1, <2>1, <2>2, <2>3, <2>4, <2>5 DEF CoreTypes
  <2> QED
    BY <2>1, <2>2, <2>6 DEF SubmitInHand, FinishInHand, OutcomeKnown, Pushed
<1>12. CASE PopFinish
  <2>1. UNCHANGED <<nextId, kind, submitQ, submitPc, submitCur, finishCur, gpuPending,
                    gpuValue, gpuLost, released, frames, recycled, status, timeline,
                    timelines, lastError>>
    BY <1>12 DEF PopFinish, callerVars, submitVars, objectVars, entryVars
  <2>2. /\ finishQ # <<>> /\ finishCur \in Ids
        /\ finishQ' = Tail(finishQ) /\ finishPc' \in {"recycle", "fetch"}
    BY <1>1, <1>12 DEF PopFinish, FinishInHand, CoreTypes
  <2>3. CoreTypes'
    BY <1>1, <2>1, <2>2, HeadTail DEF CoreTypes
  <2> QED
    BY <2>1, <2>2, <2>3 DEF SubmitInHand, FinishInHand, OutcomeKnown, Pushed
<1>13. CASE GpuSignal \/ GpuLose
  <2>1. UNCHANGED <<nextId, kind, submitQ, finishQ, submitPc, submitCur, finishPc,
                    finishCur, released, frames, recycled, status, timeline, timelines,
                    lastError>>
    BY <1>13
    DEF GpuSignal, GpuLose, queueVars, submitVars, finishVars, objectVars, entryVars
  <2>2. gpuPending' \in Seq(Nat) /\ gpuValue' \in Nat /\ gpuLost' \in BOOLEAN
    <3>1. CASE GpuSignal
      BY <1>1, <3>1, HeadTail DEF GpuSignal, CoreTypes
    <3>2. CASE GpuLose
      BY <1>1, <3>2 DEF GpuLose, CoreTypes
    <3> QED
      BY <1>13, <3>1, <3>2
  <2> QED
    BY <1>1, <2>1, <2>2 DEF CoreTypes, SubmitInHand, FinishInHand, OutcomeKnown, Pushed
<1> QED
  BY <1>2, <1>3, <1>4, <1>5, <1>6, <1>7, <1>8, <1>9, <1>10, <1>11, <1>12, <1>13, CoreSteps
  DEF SubmitStep, FinishStep

\* The variables keep their types, whatever the number of clients, the limit
\* of the queue and the errors of the device.
THEOREM TypeCorrect == Spec => []TypeOK
<1>1. Init => TypeInv
  BY InitTypes
<1>2. TypeInv /\ [Next]_vars => TypeInv'
  BY TypeStep
<1>3. TypeInv => TypeOK
  BY DEF TypeInv
<1> QED
  BY <1>1, <1>2, <1>3, PTL DEF Spec

-----------------------------------------------------------------------------
(* Order *)

\* The oldest entry that is still in m_submitQueue, or the next one to come.
First == nextId - Len(submitQ)

\* m_submitQueue holds the entries from First on, without a gap.
SubmitOrder == \A k \in 1..Len(submitQ) : submitQ[k] = First + k - 1

\* m_finishQueue holds entries from before First, the oldest first.
FinishOrder ==
  /\ \A k \in 1..Len(finishQ) : finishQ[k] < First
  /\ \A j, k \in 1..Len(finishQ) : j < k => finishQ[j] < finishQ[k]

\* The entries the threads hold when they are in no queue any more.
DropPast ==
  submitPc = "drop" => submitCur < First /\ \A k \in 1..Len(finishQ) : finishQ[k] # submitCur
RecyclePast ==
  finishPc = "recycle" => finishCur < First /\ \A k \in 1..Len(finishQ) : finishCur < finishQ[k]

OrderInv == TypeInv /\ SubmitOrder /\ FinishOrder /\ DropPast /\ RecyclePast

\* Arithmetic on the queues needs their elements to be numbers.
LEMMA QueueNumbers ==
  ASSUME TypeInv
  PROVE  /\ nextId \in Nat /\ Len(submitQ) \in Nat /\ Len(finishQ) \in Nat
         /\ First \in Int
         /\ Ids \subseteq Nat
         /\ submitQ \in Seq(Ids) /\ finishQ \in Seq(Ids)
         /\ \A k \in 1..Len(submitQ) : submitQ[k] \in Ids /\ submitQ[k] \in Nat
         /\ \A k \in 1..Len(finishQ) : finishQ[k] \in Ids /\ finishQ[k] \in Nat
<1>1. submitQ \in Seq(Ids) /\ finishQ \in Seq(Ids) /\ nextId \in Nat
  BY TypeSplit DEF TypeInv, CoreTypes
<1>2. Ids \subseteq Nat
  BY DEF Ids
<1>3. /\ \A k \in 1..Len(submitQ) : submitQ[k] \in Ids
      /\ \A k \in 1..Len(finishQ) : finishQ[k] \in Ids
  BY <1>1
<1>4. Len(submitQ) \in Nat /\ Len(finishQ) \in Nat
  BY <1>1
<1>5. First \in Int
  BY <1>1, <1>4 DEF First
<1>6. /\ \A k \in 1..Len(submitQ) : submitQ[k] \in Nat
      /\ \A k \in 1..Len(finishQ) : finishQ[k] \in Nat
  BY <1>2, <1>3
<1> QED
  BY <1>1, <1>2, <1>3, <1>4, <1>5, <1>6

\* What a step does to the two queues.
QueuesStay == UNCHANGED <<nextId, submitQ, finishQ>>

QueuePush ==
  /\ nextId \in Ids /\ nextId' = nextId + 1
  /\ submitQ' = Append(submitQ, nextId)
  /\ finishQ' = finishQ
  /\ UNCHANGED <<submitVars, finishVars>>

QueueMove ==
  /\ nextId' = nextId /\ submitQ # <<>>
  /\ submitCur = Head(submitQ) /\ submitQ' = Tail(submitQ)
  /\ finishQ' = Append(finishQ, submitCur)
  /\ submitPc = "retire" /\ submitPc' = "fetch"
  /\ UNCHANGED finishVars

QueueDrop ==
  /\ nextId' = nextId /\ submitQ # <<>>
  /\ submitCur = Head(submitQ) /\ submitQ' = Tail(submitQ)
  /\ finishQ' = finishQ
  /\ submitPc = "retire" /\ submitPc' = "drop"
  /\ UNCHANGED <<submitCur, finishVars>>

QueuePop ==
  /\ UNCHANGED <<nextId, submitQ>> /\ finishQ # <<>>
  /\ finishCur = Head(finishQ) /\ finishQ' = Tail(finishQ)
  /\ finishPc = "pop" /\ finishPc' \in {"recycle", "fetch"}
  /\ UNCHANGED <<finishCur, submitVars>>

LEMMA QueueSteps ==
  ASSUME TypeInv, [Next]_vars
  PROVE  \/ QueuesStay /\ submitPc' # "drop" /\ finishPc' # "recycle"
         \/ QueuesStay /\ UNCHANGED submitVars /\ finishPc' # "recycle"
         \/ QueuesStay /\ UNCHANGED finishVars /\ submitPc' # "drop"
         \/ QueuesStay /\ UNCHANGED <<submitVars, finishVars>>
         \/ QueuePush \/ QueueMove \/ QueueDrop \/ QueuePop
<1>1. CASE UNCHANGED coreVars
  BY <1>1 DEF coreVars, queueVars, QueuesStay
<1>2. ASSUME NEW k \in Kinds, PushStep(k) PROVE QueuePush
  BY <1>2, TypeSplit DEF PushStep, Push, QueuePush, TypeInv, CoreTypes, Ids
<1>3. CASE FetchSubmit \/ CheckError \/ Execute \/ ReleaseDropped \/ FailSubmit
  BY <1>3
  DEF FetchSubmit, CheckError, Execute, ReleaseDropped, FailSubmit, callerVars,
      QueuesStay, submitVars
<1>4. CASE RetireSubmit
  BY <1>4 DEF RetireSubmit, PassOn, callerVars, QueueMove, TypeInv, SubmitInHand
<1>5. CASE DropSubmit
  BY <1>5 DEF DropSubmit, callerVars, QueueDrop, TypeInv, SubmitInHand
<1>6. CASE FetchFinish \/ LoadError \/ WaitSemaphores \/ FailFinish \/ SignalFrame
             \/ NotifyObjects \/ Recycle
  BY <1>6
  DEF FetchFinish, LoadError, WaitSemaphores, FailFinish, SignalFrame, NotifyObjects,
      Recycle, Retiring, callerVars, QueuesStay, finishVars
<1>7. CASE PopFinish
  BY <1>7 DEF PopFinish, callerVars, QueuePop, TypeInv, FinishInHand
<1>8. CASE GpuSignal \/ GpuLose
  BY <1>8 DEF GpuSignal, GpuLose, queueVars, QueuesStay
<1> QED
  BY <1>1, <1>2, <1>3, <1>4, <1>5, <1>6, <1>7, <1>8, CoreSteps DEF SubmitStep, FinishStep

\* A new entry comes after the last one.
LEMMA PushOrder ==
  ASSUME OrderInv, QueuePush
  PROVE  First' = First /\ SubmitOrder' /\ FinishOrder' /\ DropPast' /\ RecyclePast'
<1> USE DEF OrderInv
<1>1. /\ nextId \in Nat /\ Len(submitQ) \in Nat /\ First \in Int
      /\ submitQ \in Seq(Ids)
  BY QueueNumbers
<1>2. /\ Len(submitQ') = Len(submitQ) + 1
      /\ \A k \in 1..Len(submitQ) : submitQ'[k] = submitQ[k]
      /\ submitQ'[Len(submitQ) + 1] = nextId
  BY <1>1, Appended DEF QueuePush
<1>3. First' = First
  BY <1>1, <1>2 DEF First, QueuePush
<1>4. SubmitOrder'
  <2>1. First + Len(submitQ) = nextId
    BY <1>1 DEF First
  <2> SUFFICES ASSUME NEW k \in 1..Len(submitQ') PROVE submitQ'[k] = First' + k - 1
    BY DEF SubmitOrder
  <2>2. CASE k = Len(submitQ) + 1
    BY <1>1, <1>2, <1>3, <2>1, <2>2
  <2>3. CASE k \in 1..Len(submitQ)
    BY <1>2, <1>3, <2>3 DEF SubmitOrder
  <2> QED
    BY <1>1, <1>2, <2>2, <2>3
<1> QED
  BY <1>3, <1>4 DEF QueuePush, FinishOrder, DropPast, RecyclePast, submitVars, finishVars

\* When the first entry leaves m_submitQueue, it is the one before the new First.
LEMMA TailOrder ==
  ASSUME OrderInv, submitQ # <<>>, submitQ' = Tail(submitQ), nextId' = nextId
  PROVE  First' = First + 1 /\ SubmitOrder' /\ Head(submitQ) = First /\ First \in Ids
<1> USE DEF OrderInv
<1>1. /\ nextId \in Nat /\ Len(submitQ) \in Nat /\ First \in Int /\ submitQ \in Seq(Ids)
  BY QueueNumbers
<1>2. /\ Len(submitQ) >= 1 /\ Len(submitQ') = Len(submitQ) - 1
      /\ Head(submitQ) = submitQ[1] /\ Head(submitQ) \in Ids
      /\ \A k \in 1..(Len(submitQ) - 1) : submitQ'[k] = submitQ[k + 1]
  BY <1>1, HeadTail
<1>3. First' = First + 1
  BY <1>1, <1>2 DEF First
<1>4. submitQ[1] = First
  BY <1>1, <1>2 DEF SubmitOrder
<1>5. SubmitOrder'
  BY <1>1, <1>2, <1>3 DEF SubmitOrder
<1> QED
  BY <1>2, <1>3, <1>4, <1>5

\* Every step keeps the order of the queues.
LEMMA OrderStep ==
  ASSUME OrderInv, [Next]_vars
  PROVE  OrderInv'
<1> USE DEF OrderInv
<1>1. TypeInv'
  BY TypeStep
<1>2. /\ Len(finishQ) \in Nat /\ First \in Int /\ finishQ \in Seq(Ids)
      /\ \A k \in 1..Len(finishQ) : finishQ[k] \in Nat
  BY QueueNumbers
<1>3. CASE QueuesStay /\ submitPc' # "drop" /\ finishPc' # "recycle"
  BY <1>1, <1>3 DEF QueuesStay, First, SubmitOrder, FinishOrder, DropPast, RecyclePast
<1>4. CASE QueuesStay /\ UNCHANGED submitVars /\ finishPc' # "recycle"
  BY <1>1, <1>4
  DEF QueuesStay, First, SubmitOrder, FinishOrder, DropPast, RecyclePast, submitVars
<1>5. CASE QueuesStay /\ UNCHANGED finishVars /\ submitPc' # "drop"
  BY <1>1, <1>5
  DEF QueuesStay, First, SubmitOrder, FinishOrder, DropPast, RecyclePast, finishVars
<1>6. CASE QueuesStay /\ UNCHANGED <<submitVars, finishVars>>
  BY <1>1, <1>6
  DEF QueuesStay, First, SubmitOrder, FinishOrder, DropPast, RecyclePast, submitVars,
      finishVars
<1>7. CASE QueuePush
  BY <1>1, <1>7, PushOrder
<1>8. CASE QueueMove
  <2>1. First' = First + 1 /\ SubmitOrder' /\ submitCur = First /\ submitCur \in Ids
    BY <1>8, TailOrder DEF QueueMove
  <2>2. /\ Len(finishQ') = Len(finishQ) + 1
        /\ \A k \in 1..Len(finishQ) : finishQ'[k] = finishQ[k]
        /\ finishQ'[Len(finishQ) + 1] = First
    BY <1>2, <1>8, <2>1, Appended DEF QueueMove
  <2>3. FinishOrder'
    <3>1. \A k \in 1..Len(finishQ') : finishQ'[k] < First'
      BY <1>2, <2>1, <2>2 DEF FinishOrder
    <3>2. ASSUME NEW j \in 1..Len(finishQ'), NEW k \in 1..Len(finishQ'), j < k
          PROVE  finishQ'[j] < finishQ'[k]
      <4>1. j \in 1..Len(finishQ)
        BY <1>2, <2>2, <3>2
      <4>2. CASE k \in 1..Len(finishQ)
        BY <2>2, <3>2, <4>1, <4>2 DEF FinishOrder
      <4>3. CASE k = Len(finishQ) + 1
        BY <2>2, <4>1, <4>3 DEF FinishOrder
      <4> QED
        BY <1>2, <2>2, <4>2, <4>3
    <3> QED
      BY <3>1, <3>2 DEF FinishOrder
  <2>4. RecyclePast'
    <3> SUFFICES ASSUME finishPc' = "recycle"
                 PROVE  finishCur < First' /\ \A k \in 1..Len(finishQ') : finishCur < finishQ'[k]
      BY <1>8 DEF RecyclePast, QueueMove, finishVars
    <3>1. finishPc = "recycle" /\ finishCur \in Nat
      BY <1>2, <1>8, QueueNumbers DEF QueueMove, finishVars, TypeInv, FinishInHand
    <3> QED
      BY <1>2, <2>1, <2>2, <3>1 DEF RecyclePast
  <2> QED
    BY <1>1, <1>8, <2>1, <2>3, <2>4 DEF QueueMove, DropPast
<1>9. CASE QueueDrop
  <2>1. First' = First + 1 /\ SubmitOrder' /\ submitCur = First
    BY <1>9, TailOrder DEF QueueDrop
  <2>2. FinishOrder' /\ DropPast'
    BY <1>2, <1>9, <2>1 DEF QueueDrop, FinishOrder, DropPast
  <2>3. RecyclePast'
    <3>1. finishPc = "recycle" => finishCur \in Nat
      BY QueueNumbers DEF FinishInHand, TypeInv
    <3> QED
      BY <1>2, <1>9, <2>1, <3>1 DEF QueueDrop, RecyclePast, finishVars
  <2> QED
    BY <1>1, <2>1, <2>2, <2>3
<1>10. CASE QueuePop
  <2>1. /\ Len(finishQ) >= 1 /\ Len(finishQ') = Len(finishQ) - 1
        /\ finishCur = finishQ[1]
        /\ \A k \in 1..(Len(finishQ) - 1) : finishQ'[k] = finishQ[k + 1]
    BY <1>2, <1>10, HeadTail DEF QueuePop
  <2>2. First' = First /\ SubmitOrder'
    BY <1>10 DEF QueuePop, First, SubmitOrder
  <2>3. FinishOrder' /\ DropPast' /\ RecyclePast'
    BY <1>2, <1>10, <2>1, <2>2 DEF QueuePop, FinishOrder, DropPast, RecyclePast, submitVars
  <2> QED
    BY <1>1, <2>2, <2>3
<1> QED
  BY <1>3, <1>4, <1>5, <1>6, <1>7, <1>8, <1>9, <1>10, QueueSteps

\* The order of the queues in every reachable state.
LEMMA OrderInvariance == Spec => []OrderInv
<1>1. Init => OrderInv
  <2> SUFFICES ASSUME Init PROVE OrderInv
    OBVIOUS
  <2>1. TypeInv
    BY InitTypes
  <2> QED
    BY <2>1 DEF Init, OrderInv, SubmitOrder, FinishOrder, DropPast, RecyclePast
<1>2. OrderInv /\ [Next]_vars => OrderInv'
  BY OrderStep
<1> QED
  BY <1>1, <1>2, PTL DEF Spec

-----------------------------------------------------------------------------
(* Results *)

\* Entries before First have a result, entries after it have none.
StatusOrder ==
  \A i \in Ids : /\ i < First => status[i] # "NOT_READY"
                 /\ i > First => status[i] = "NOT_READY"

\* An entry is reported as lost, and the queue knows of the loss, only when the
\* device is lost.
LostKnown ==
  /\ lastError = "DEVICE_LOST" => gpuLost
  /\ \A i \in Ids : status[i] = "DEVICE_LOST" => gpuLost

ResultInv == OrderInv /\ StatusOrder /\ LostKnown

\* The entry the submission thread works on is the first one.
LEMMA InHandIsFirst ==
  ASSUME OrderInv, submitPc \in {"checkError", "execute", "retire", "waitForIdle"}
  PROVE  submitCur = First /\ First \in Ids
<1> USE DEF OrderInv
<1>1. submitQ # <<>> /\ submitCur = Head(submitQ)
  BY DEF TypeInv, SubmitInHand
<1>2. /\ nextId \in Nat /\ Len(submitQ) \in Nat /\ First \in Int /\ submitQ \in Seq(Ids)
  BY QueueNumbers
<1>3. Len(submitQ) >= 1 /\ Head(submitQ) = submitQ[1] /\ Head(submitQ) \in Ids
  BY <1>1, <1>2, HeadTail
<1> QED
  BY <1>1, <1>2, <1>3 DEF SubmitOrder

\* What a step does to the results and to the first entry.
LEMMA ResultSteps ==
  ASSUME OrderInv, [Next]_vars
  PROVE  \/ UNCHANGED <<status, kind>> /\ First' = First
         \/ UNCHANGED status /\ First' = First /\ QueuePush /\ UNCHANGED gpuVars
         \/ /\ UNCHANGED kind /\ First' = First /\ First \in Ids
            /\ \E r \in Results \ {"NOT_READY"} : status' = [status EXCEPT ![First] = r]
         \/ /\ UNCHANGED <<status, kind>> /\ First' = First + 1 /\ First \in Ids
            /\ status[First] # "NOT_READY"
<1> USE DEF OrderInv
<1>1. CASE UNCHANGED coreVars
  BY <1>1 DEF coreVars, queueVars, entryVars, First
<1>2. ASSUME NEW k \in Kinds, PushStep(k)
      PROVE  UNCHANGED status /\ First' = First /\ QueuePush /\ UNCHANGED gpuVars
  <2>1. QueuePush
    BY <1>2, TypeSplit DEF PushStep, Push, QueuePush, TypeInv, CoreTypes, Ids
  <2> QED
    BY <1>2, <2>1, PushOrder DEF PushStep, entryVars
<1>3. CASE CheckError \/ Execute
  <2>1. submitCur = First /\ First \in Ids
    BY <1>3, InHandIsFirst DEF CheckError, Execute
  <2>2. UNCHANGED kind /\ First' = First
    BY <1>3 DEF CheckError, Execute, callerVars, First
  <2>3. \/ UNCHANGED status
        \/ \E r \in Results \ {"NOT_READY"} : status' = [status EXCEPT ![submitCur] = r]
    BY <1>3 DEF CheckError, Execute, DriverResult, Results
  <2> QED
    BY <2>1, <2>2, <2>3
<1>4. CASE RetireSubmit \/ DropSubmit
  <2>1. submitCur = First /\ submitQ # <<>> /\ status[submitCur] # "NOT_READY"
    BY <1>4, InHandIsFirst DEF RetireSubmit, DropSubmit, TypeInv, OutcomeKnown, SubmitInHand
  <2>2. First' = First + 1 /\ First \in Ids
    BY <1>4, <2>1, TailOrder DEF RetireSubmit, DropSubmit, callerVars
  <2> QED
    BY <1>4, <2>1, <2>2 DEF RetireSubmit, DropSubmit, callerVars, entryVars
<1>5. CASE FetchSubmit \/ ReleaseDropped \/ FailSubmit
  BY <1>5 DEF FetchSubmit, ReleaseDropped, FailSubmit, callerVars, entryVars, First
<1>6. CASE FinishStep
  BY <1>6
  DEF FinishStep, FetchFinish, LoadError, WaitSemaphores, FailFinish, SignalFrame,
      NotifyObjects, PopFinish, Recycle, Retiring, callerVars, entryVars, First
<1>7. CASE GpuSignal \/ GpuLose
  BY <1>7 DEF GpuSignal, GpuLose, queueVars, entryVars, First
<1> QED
  BY <1>1, <1>2, <1>3, <1>4, <1>5, <1>6, <1>7, CoreSteps DEF SubmitStep

\* A lost device stays lost, and only a lost device makes a step report a loss.
LEMMA LossSteps ==
  ASSUME OrderInv, LostKnown, [Next]_vars
  PROVE  (gpuLost => gpuLost') /\ LostKnown'
<1> USE DEF OrderInv
<1>1. CASE UNCHANGED coreVars
  BY <1>1 DEF coreVars, gpuVars, entryVars, LostKnown
<1>2. ASSUME NEW k \in Kinds, PushStep(k) PROVE (gpuLost => gpuLost') /\ LostKnown'
  BY <1>2 DEF PushStep, gpuVars, entryVars, LostKnown
<1>3. CASE CheckError \/ Execute
  <2>1. UNCHANGED <<gpuLost, lastError>>
    BY <1>3 DEF CheckError, Execute, callerVars
  <2>2. CASE CheckError
    BY <2>1, <2>2, TypeSplit DEF CheckError, LostKnown, TypeInv, CoreTypes
  <2>3. CASE Execute
    <3>1. PICK r \in DriverResult(kind[submitCur]) : status' = [status EXCEPT ![submitCur] = r]
      BY <2>3 DEF Execute
    <3>2. r = "DEVICE_LOST" => gpuLost
      BY <3>1 DEF DriverResult
    <3> QED
      BY <2>1, <3>1, <3>2, TypeSplit DEF LostKnown, TypeInv, CoreTypes
  <2> QED
    BY <1>3, <2>2, <2>3
<1>4. CASE DropSubmit \/ FailSubmit
  <2>1. UNCHANGED <<status, gpuLost>> /\ lastError' = status[submitCur] /\ submitCur \in Ids
    BY <1>4, InHandIsFirst DEF DropSubmit, FailSubmit, callerVars
  <2> QED
    BY <2>1 DEF LostKnown
<1>5. CASE FetchSubmit \/ RetireSubmit \/ ReleaseDropped
  BY <1>5 DEF FetchSubmit, RetireSubmit, ReleaseDropped, callerVars, entryVars, LostKnown
<1>6. CASE FinishStep
  BY <1>6
  DEF FinishStep, FetchFinish, LoadError, WaitSemaphores, FailFinish, SignalFrame,
      NotifyObjects, PopFinish, Recycle, Retiring, callerVars, entryVars, LostKnown
<1>7. CASE GpuSignal \/ GpuLose
  BY <1>7 DEF GpuSignal, GpuLose, entryVars, LostKnown
<1> QED
  BY <1>1, <1>2, <1>3, <1>4, <1>5, <1>6, <1>7, CoreSteps DEF SubmitStep

\* Every step keeps what is known of the results.
LEMMA ResultStep ==
  ASSUME ResultInv, [Next]_vars
  PROVE  ResultInv'
<1> USE DEF ResultInv
<1>1. OrderInv' /\ LostKnown'
  BY OrderStep, LossSteps
<1>2. First \in Int /\ Ids \subseteq Nat /\ status \in [Ids -> Results]
  BY QueueNumbers, TypeSplit DEF OrderInv, TypeInv, CoreTypes
<1>3. StatusOrder'
  <2>1. CASE UNCHANGED status /\ First' = First
    BY <2>1 DEF StatusOrder
  <2>2. ASSUME First' = First, First \in Ids, NEW r \in Results \ {"NOT_READY"},
               status' = [status EXCEPT ![First] = r]
        PROVE  StatusOrder'
    BY <1>2, <2>2 DEF StatusOrder
  <2>3. CASE UNCHANGED status /\ First' = First + 1 /\ First \in Ids /\ status[First] # "NOT_READY"
    BY <1>2, <2>3 DEF StatusOrder
  <2> QED
    BY <2>1, <2>2, <2>3, ResultSteps
<1> QED
  BY <1>1, <1>3

LEMMA ResultInvariance == Spec => []ResultInv
<1>1. Init => ResultInv
  <2> SUFFICES ASSUME Init PROVE ResultInv
    OBVIOUS
  <2>1. OrderInv
    BY InitTypes DEF Init, OrderInv, SubmitOrder, FinishOrder, DropPast, RecyclePast
  <2>2. StatusOrder
    BY DEF Init, StatusOrder, First, Ids
  <2> QED
    BY <2>1, <2>2 DEF Init, ResultInv, LostKnown
<1>2. ResultInv /\ [Next]_vars => ResultInv'
  BY ResultStep
<1> QED
  BY <1>1, <1>2, PTL DEF Spec

\* The results of submissions and presents become available in queue order.
THEOREM ResultsCorrect == Spec => []ResultsInOrder
<1>1. ResultInv => ResultsInOrder
  <2> SUFFICES ASSUME ResultInv, NEW i \in Ids, status[i] # "NOT_READY", NEW j \in 1..i
               PROVE  status[j] # "NOT_READY"
    BY DEF ResultsInOrder
  <2>1. First \in Int /\ i \in Nat /\ j \in Ids
    <3>1. MaxEntries \in Nat /\ First \in Int
      BY SubmissionAssumption, QueueNumbers DEF SubmissionAssumption, ResultInv, OrderInv
    <3> QED
      BY <3>1 DEF Ids
  <2>2. i <= First
    BY <2>1 DEF ResultInv, StatusOrder
  <2> QED
    BY <2>1, <2>2 DEF ResultInv, StatusOrder
<1> QED
  BY <1>1, ResultInvariance, PTL

-----------------------------------------------------------------------------
(* The timeline *)

\* The device signals increasing values, none before it was handed out.
TimelineOrder ==
  /\ gpuValue <= timelines
  /\ \A k \in 1..Len(gpuPending) : gpuValue < gpuPending[k] /\ gpuPending[k] <= timelines
  /\ \A j, k \in 1..Len(gpuPending) : j < k => gpuPending[j] < gpuPending[k]

TimelineInv == ResultInv /\ TimelineOrder

LEMMA TimelineNumbers ==
  ASSUME TypeInv
  PROVE  /\ timelines \in Nat /\ gpuValue \in Nat /\ gpuPending \in Seq(Nat)
         /\ Len(gpuPending) \in Nat
         /\ \A k \in 1..Len(gpuPending) : gpuPending[k] \in Nat
         /\ timeline \in [Ids -> Nat]
<1>1. timelines \in Nat /\ gpuValue \in Nat /\ gpuPending \in Seq(Nat) /\ timeline \in [Ids -> Nat]
  BY TypeSplit DEF TypeInv, CoreTypes
<1> QED
  BY <1>1

\* The timeline never goes back, and only the first entry gets a value.
LEMMA TimelineSteps ==
  ASSUME OrderInv, TimelineOrder, [Next]_vars
  PROVE  /\ TimelineOrder'
         /\ gpuValue <= gpuValue'
         /\ \A i \in Ids : i < First => timeline'[i] = timeline[i]
<1> USE DEF OrderInv
<1>1. /\ timelines \in Nat /\ gpuValue \in Nat /\ gpuPending \in Seq(Nat)
      /\ Len(gpuPending) \in Nat
      /\ \A k \in 1..Len(gpuPending) : gpuPending[k] \in Nat
      /\ timeline \in [Ids -> Nat]
      /\ First \in Int /\ Ids \subseteq Nat
  BY TimelineNumbers, QueueNumbers
<1>2. CASE UNCHANGED <<gpuPending, gpuValue, timelines, timeline>>
  BY <1>1, <1>2 DEF TimelineOrder
<1>3. CASE Execute
  <2>1. submitCur = First /\ UNCHANGED gpuValue
    BY <1>3, InHandIsFirst DEF Execute, callerVars
  <2>2. \A i \in Ids : i < First => timeline'[i] = timeline[i]
    BY <1>1, <1>3, <2>1 DEF Execute
  <2>3. CASE gpuPending' = gpuPending /\ timelines' \in {timelines, timelines + 1}
    BY <1>1, <2>1, <2>2, <2>3 DEF TimelineOrder
  <2>4. CASE gpuPending' = Append(gpuPending, timelines + 1) /\ timelines' = timelines + 1
    <3>1. timelines + 1 \in Nat
      BY <1>1
    <3>2. /\ Len(gpuPending') = Len(gpuPending) + 1
          /\ \A k \in 1..Len(gpuPending) : gpuPending'[k] = gpuPending[k]
          /\ gpuPending'[Len(gpuPending) + 1] = timelines + 1
      BY <1>1, <2>4, <3>1, Appended
    <3>3. \A k \in 1..Len(gpuPending) : gpuPending[k] < timelines + 1
      BY <1>1 DEF TimelineOrder
    <3>4. \A k \in 1..Len(gpuPending') : gpuValue < gpuPending'[k] /\ gpuPending'[k] <= timelines'
      BY <1>1, <2>4, <3>2, <3>3 DEF TimelineOrder
    <3>5. ASSUME NEW j \in 1..Len(gpuPending'), NEW k \in 1..Len(gpuPending'), j < k
          PROVE  gpuPending'[j] < gpuPending'[k]
      <4>1. j \in 1..Len(gpuPending)
        BY <1>1, <3>2, <3>5
      <4>2. CASE k \in 1..Len(gpuPending)
        BY <3>2, <3>5, <4>1, <4>2 DEF TimelineOrder
      <4>3. CASE k = Len(gpuPending) + 1
        BY <3>2, <3>3, <4>1, <4>3
      <4> QED
        BY <1>1, <3>2, <4>2, <4>3
    <3> QED
      BY <1>1, <2>1, <2>2, <2>4, <3>4, <3>5 DEF TimelineOrder
  <2> QED
    BY <1>3, <2>3, <2>4 DEF Execute
<1>4. CASE GpuSignal
  <2>1. UNCHANGED <<timeline, timelines>>
    BY <1>4 DEF GpuSignal, entryVars
  <2>2. /\ Len(gpuPending) >= 1 /\ gpuValue' = gpuPending[1]
        /\ Len(gpuPending') = Len(gpuPending) - 1
        /\ \A k \in 1..(Len(gpuPending) - 1) : gpuPending'[k] = gpuPending[k + 1]
    BY <1>1, <1>4, HeadTail DEF GpuSignal
  <2>3. gpuValue < gpuValue' /\ gpuValue' <= timelines
    BY <1>1, <2>2 DEF TimelineOrder
  <2>4. ASSUME NEW k \in 1..Len(gpuPending')
        PROVE  gpuValue' < gpuPending'[k] /\ gpuPending'[k] <= timelines
    <3>1. /\ gpuPending'[k] = gpuPending[k + 1] /\ k + 1 \in 1..Len(gpuPending)
          /\ 1 \in 1..Len(gpuPending) /\ 1 < k + 1
      BY <1>1, <2>2
    <3>2. gpuPending[1] < gpuPending[k + 1] /\ gpuPending[k + 1] <= timelines
      BY <3>1 DEF TimelineOrder
    <3> QED
      BY <2>2, <3>1, <3>2
  <2>5. ASSUME NEW j \in 1..Len(gpuPending'), NEW k \in 1..Len(gpuPending'), j < k
        PROVE  gpuPending'[j] < gpuPending'[k]
    <3>1. /\ gpuPending'[k] = gpuPending[k + 1] /\ k + 1 \in 1..Len(gpuPending)
          /\ gpuPending'[j] = gpuPending[j + 1] /\ j + 1 \in 1..Len(gpuPending)
          /\ j + 1 < k + 1
      BY <1>1, <2>2, <2>5
    <3>2. gpuPending[j + 1] < gpuPending[k + 1]
      BY <3>1 DEF TimelineOrder
    <3> QED
      BY <3>1, <3>2
  <2> QED
    BY <1>1, <2>1, <2>2, <2>3, <2>4, <2>5 DEF TimelineOrder
<1>5. ASSUME ~Execute, ~GpuSignal
      PROVE  UNCHANGED <<gpuPending, gpuValue, timelines, timeline>>
  <2>1. CASE UNCHANGED coreVars
    BY <2>1 DEF coreVars, gpuVars, entryVars
  <2>2. ASSUME NEW k \in Kinds, PushStep(k)
        PROVE  UNCHANGED <<gpuPending, gpuValue, timelines, timeline>>
    BY <2>2 DEF PushStep, gpuVars, entryVars
  <2>3. CASE SubmitStep
    BY <1>5, <2>3
    DEF SubmitStep, FetchSubmit, CheckError, RetireSubmit, DropSubmit, ReleaseDropped,
        FailSubmit, callerVars, entryVars
  <2>4. CASE FinishStep
    BY <2>4
    DEF FinishStep, FetchFinish, LoadError, WaitSemaphores, FailFinish, SignalFrame,
        NotifyObjects, PopFinish, Recycle, Retiring, callerVars, entryVars
  <2>5. CASE GpuLose
    BY <2>5 DEF GpuLose, entryVars
  <2> QED
    BY <1>5, <2>1, <2>2, <2>3, <2>4, <2>5, CoreSteps
<1> QED
  BY <1>2, <1>3, <1>4, <1>5

\* What is known of an entry that has left m_submitQueue does not change, and
\* once the device is through with it, it stays so.
LEMMA PastStays ==
  ASSUME TimelineInv, [Next]_vars, NEW i \in Ids, i < First
  PROVE  /\ kind'[i] = kind[i] /\ status'[i] = status[i]
         /\ timeline'[i] = timeline[i]
         /\ First <= First'
         /\ GpuDone(i) => GpuDone(i)'
         /\ Forward(i)' <=> Forward(i)
<1> USE DEF TimelineInv, ResultInv, OrderInv
<1>1. /\ First \in Int /\ nextId \in Nat /\ Len(submitQ) \in Nat /\ i \in Nat
      /\ kind \in [Ids -> Kinds] /\ status \in [Ids -> Results]
  BY QueueNumbers, TypeSplit DEF TypeInv, CoreTypes
<1>2. First <= First' /\ status'[i] = status[i]
  BY <1>1, ResultSteps
<1>3. kind'[i] = kind[i]
  <2>1. CASE UNCHANGED kind
    BY <2>1
  <2>2. ASSUME NEW k \in Kinds, PushStep(k) PROVE kind'[i] = kind[i]
    <3>1. i # nextId
      BY <1>1 DEF First
    <3> QED
      BY <1>1, <2>2, <3>1 DEF PushStep, Push
  <2>3. CASE UNCHANGED coreVars \/ SubmitStep \/ FinishStep \/ GpuSignal \/ GpuLose
    BY <2>3
    DEF coreVars, queueVars, SubmitStep, FetchSubmit, CheckError, Execute, RetireSubmit,
        DropSubmit, ReleaseDropped, FailSubmit, FinishStep, FetchFinish, LoadError,
        WaitSemaphores, FailFinish, SignalFrame, NotifyObjects, PopFinish, Recycle,
        Retiring, callerVars, GpuSignal, GpuLose
  <2> QED
    BY <2>2, <2>3, CoreSteps
<1>4. timeline'[i] = timeline[i] /\ gpuValue <= gpuValue'
  BY TimelineSteps
<1>5. gpuLost => gpuLost'
  BY LossSteps
<1>6. GpuDone(i) => GpuDone(i)'
  <2>1. timeline[i] \in Nat /\ gpuValue \in Nat /\ gpuValue' \in Nat
    <3>1. TypeInv'
      BY TypeStep
    <3> QED
      BY <3>1, TimelineNumbers DEF TypeInv, TypeOK
  <2> QED
    BY <1>4, <1>5, <2>1 DEF GpuDone
<1> QED
  BY <1>2, <1>3, <1>4, <1>6 DEF Forward

LEMMA TimelineInvariance == Spec => []TimelineInv
<1>1. Init => ResultInv /\ TimelineOrder
  <2> SUFFICES ASSUME Init PROVE ResultInv /\ TimelineOrder
    OBVIOUS
  <2>1. OrderInv
    BY InitTypes DEF Init, OrderInv, SubmitOrder, FinishOrder, DropPast, RecyclePast
  <2>2. StatusOrder
    BY DEF Init, StatusOrder, First, Ids
  <2> QED
    BY <2>1, <2>2 DEF Init, ResultInv, LostKnown, TimelineOrder
<1>2. TimelineInv /\ [Next]_vars => TimelineInv'
  BY ResultStep, TimelineSteps DEF TimelineInv, ResultInv
<1> QED
  BY <1>1, <1>2, PTL DEF Spec, TimelineInv

-----------------------------------------------------------------------------
(* Release *)

\* An entry that has left both queues.
Gone(i) == i < First /\ \A k \in 1..Len(finishQ) : finishQ[k] # i

\* The queue thread treats command lists and presents differently.
HandKind ==
  /\ finishPc \in {"loadError", "waitSemaphores", "notify", "recycle"} => kind[finishCur] = "cmd"
  /\ finishPc = "signalFrame" => kind[finishCur] = "present"

\* What the threads know of the entry they are about to let go.
Waited ==
  /\ finishPc = "notify" => GpuDone(finishCur)
  /\ finishPc = "pop" /\ kind[finishCur] = "cmd" => GpuDone(finishCur) /\ finishCur \in released
  /\ finishPc = "pop" /\ kind[finishCur] = "present" => finishCur \in frames
  /\ submitPc = "drop" => gpuLost

\* Command lists leave the queues only when the device is through with them.
Settled == \A i \in Ids : Gone(i) /\ kind[i] = "cmd" => GpuDone(i)

ReleasedDone == \A i \in released : i < First /\ GpuDone(i)

FramesDone ==
  \A f \in frames : f < First /\ \A i \in Ids : i < f /\ kind[i] = "cmd" => GpuDone(i)

RecycledDone == \A i \in recycled : Gone(i) /\ GpuDone(i)

\* An entry that went through both queues has been released or signaled.
ForwardedRetired ==
  \A i \in Ids : Gone(i) /\ Forward(i) =>
    IF kind[i] = "cmd" THEN i \in released ELSE i \in frames

ReleaseInv ==
  /\ TimelineInv
  /\ HandKind /\ Waited /\ Settled
  /\ ReleasedDone /\ FramesDone /\ RecycledDone /\ ForwardedRetired

\* The entry the queue thread holds has left m_submitQueue; while it is in
\* m_finishQueue it is the oldest there.
LEMMA HandIsPast ==
  ASSUME OrderInv, finishPc \notin {"fetch", "exit"}
  PROVE  /\ finishCur \in Ids /\ finishCur < First
         /\ finishPc = "recycle" => Gone(finishCur)
         /\ finishPc # "recycle" => /\ finishQ # <<>> /\ finishCur = finishQ[1]
                                    /\ Len(finishQ) >= 1
                                    /\ \A i \in Ids : i < finishCur => Gone(i)
<1> USE DEF OrderInv
<1>1. /\ First \in Int /\ Len(finishQ) \in Nat /\ finishQ \in Seq(Ids) /\ Ids \subseteq Nat
      /\ \A k \in 1..Len(finishQ) : finishQ[k] \in Ids /\ finishQ[k] \in Nat
  BY QueueNumbers
<1>2. CASE finishPc = "recycle"
  BY <1>1, <1>2 DEF RecyclePast, Gone, TypeInv, FinishInHand
<1>3. CASE finishPc # "recycle"
  <2>1. finishQ # <<>> /\ finishCur = Head(finishQ)
    BY <1>3, TypeSplit DEF TypeInv, FinishInHand, CoreTypes
  <2>2. Len(finishQ) >= 1 /\ finishCur = finishQ[1] /\ finishCur \in Ids
    BY <1>1, <2>1, HeadTail
  <2>3. finishCur < First
    BY <1>1, <2>2 DEF FinishOrder
  <2>4. ASSUME NEW i \in Ids, i < finishCur PROVE Gone(i)
    <3>1. \A k \in 1..Len(finishQ) : finishCur <= finishQ[k]
      BY <1>1, <2>2 DEF FinishOrder
    <3> QED
      BY <1>1, <2>2, <2>3, <2>4, <3>1 DEF Gone
  <2> QED
    BY <1>3, <2>1, <2>2, <2>3, <2>4
<1> QED
  BY <1>2, <1>3

\* An entry leaves the queues when it is dropped or popped.
LEMMA GoneSteps ==
  ASSUME TimelineInv, [Next]_vars, NEW i \in Ids
  PROVE  /\ Gone(i) => Gone(i)'
         /\ Gone(i)' => \/ Gone(i)
                        \/ DropSubmit /\ i = submitCur
                        \/ PopFinish /\ i = finishCur
<1> USE DEF TimelineInv, ResultInv, OrderInv
<1>1. /\ First \in Int /\ Len(finishQ) \in Nat /\ finishQ \in Seq(Ids) /\ i \in Nat
  BY QueueNumbers
<1>2. CASE QueuesStay
  BY <1>2 DEF QueuesStay, Gone, First
<1>3. CASE QueuePush
  BY <1>3, PushOrder DEF QueuePush, Gone
<1>4. CASE QueueMove
  <2>1. First' = First + 1 /\ submitCur = First /\ submitCur \in Ids
    BY <1>4, TailOrder DEF QueueMove
  <2>2. /\ Len(finishQ') = Len(finishQ) + 1
        /\ \A k \in 1..Len(finishQ) : finishQ'[k] = finishQ[k]
        /\ finishQ'[Len(finishQ) + 1] = First
    BY <1>1, <1>4, <2>1, Appended DEF QueueMove
  <2> QED
    BY <1>1, <2>1, <2>2 DEF Gone
<1>5. CASE QueueDrop
  <2>1. First' = First + 1 /\ submitCur = First /\ finishQ' = finishQ
    BY <1>5, TailOrder DEF QueueDrop
  <2>2. DropSubmit
    BY <1>5, CoreSteps
    DEF QueueDrop, coreVars, submitVars, PushStep, SubmitStep, FetchSubmit, CheckError,
        Execute, RetireSubmit, ReleaseDropped, FailSubmit, FinishStep, FetchFinish,
        LoadError, WaitSemaphores, FailFinish, SignalFrame, NotifyObjects, PopFinish,
        Recycle, Retiring, GpuSignal, GpuLose
  <2> QED
    BY <1>1, <2>1, <2>2 DEF Gone
<1>6. CASE QueuePop
  <2>1. /\ Len(finishQ) >= 1 /\ Len(finishQ') = Len(finishQ) - 1
        /\ finishCur = finishQ[1]
        /\ \A k \in 1..(Len(finishQ) - 1) : finishQ'[k] = finishQ[k + 1]
    BY <1>1, <1>6, HeadTail DEF QueuePop
  <2>2. First' = First
    BY <1>6 DEF QueuePop, First
  <2>3. PopFinish
    BY <1>6, CoreSteps
    DEF QueuePop, coreVars, finishVars, PushStep, SubmitStep, FetchSubmit, CheckError,
        Execute, RetireSubmit, DropSubmit, ReleaseDropped, FailSubmit, FinishStep,
        FetchFinish, LoadError, WaitSemaphores, FailFinish, SignalFrame, NotifyObjects,
        Recycle, Retiring, GpuSignal, GpuLose
  <2>4. Gone(i) => Gone(i)'
    BY <1>1, <2>1, <2>2 DEF Gone
  <2>5. ASSUME Gone(i)', i # finishCur PROVE Gone(i)
    <3> SUFFICES ASSUME NEW k \in 1..Len(finishQ), k # 1 PROVE finishQ[k] # i
      BY <2>1, <2>2, <2>5 DEF Gone
    <3>1. k - 1 \in 1..Len(finishQ') /\ finishQ'[k - 1] = finishQ[k]
      BY <1>1, <2>1
    <3> QED
      BY <2>5, <3>1 DEF Gone
  <2> QED
    BY <2>3, <2>4, <2>5
<1> QED
  BY <1>2, <1>3, <1>4, <1>5, <1>6, QueueSteps

\* Which steps move the threads' hands and which ones let objects go.
LEMMA ThreadSteps ==
  ASSUME [Next]_vars
  PROVE  /\ UNCHANGED finishVars \/ FinishStep
         /\ UNCHANGED released \/ ReleaseDropped \/ NotifyObjects
         /\ UNCHANGED frames \/ SignalFrame
         /\ UNCHANGED recycled \/ Recycle
         /\ submitPc' = "drop" => submitPc = "drop" \/ DropSubmit
<1>1. CASE UNCHANGED coreVars
  BY <1>1 DEF coreVars, objectVars, submitVars
<1>2. ASSUME NEW k \in Kinds, PushStep(k)
      PROVE  UNCHANGED <<finishVars, objectVars, submitPc>>
  BY <1>2 DEF PushStep, submitVars
<1>3. CASE SubmitStep
  BY <1>3
  DEF SubmitStep, FetchSubmit, CheckError, Execute, RetireSubmit, DropSubmit,
      ReleaseDropped, FailSubmit, objectVars, submitVars
<1>4. CASE FinishStep
  BY <1>4
  DEF FinishStep, FetchFinish, LoadError, WaitSemaphores, FailFinish, SignalFrame,
      NotifyObjects, PopFinish, Recycle, Retiring, objectVars, submitVars
<1>5. CASE GpuSignal \/ GpuLose
  BY <1>5 DEF GpuSignal, GpuLose, objectVars, submitVars
<1> QED
  BY <1>1, <1>2, <1>3, <1>4, <1>5, CoreSteps DEF objectVars

\* Every step keeps what is known of released entries.
LEMMA ReleaseStep ==
  ASSUME ReleaseInv, [Next]_vars
  PROVE  ReleaseInv'
<1> USE DEF ReleaseInv, TimelineInv, ResultInv, OrderInv
<1>1. TimelineInv'
  BY ResultStep, TimelineSteps
<1>2. /\ First \in Int /\ First' \in Int /\ Ids \subseteq Nat
      /\ \A i \in Ids : i \in Nat
      /\ released \subseteq Ids /\ frames \subseteq Ids /\ recycled \subseteq Ids
      /\ kind \in [Ids -> Kinds]
  <2>1. nextId' \in Int /\ Len(submitQ') \in Int
    BY <1>1 DEF TypeInv, TypeOK
  <2> QED
    BY <2>1, QueueNumbers, TypeSplit DEF TypeInv, CoreTypes, First
\* An entry the queue thread holds stays what it is.
<1>3. ASSUME finishPc \notin {"fetch", "exit"}
      PROVE  /\ finishCur \in Ids /\ finishCur < First
             /\ kind'[finishCur] = kind[finishCur]
             /\ GpuDone(finishCur) => gpuValue' >= timeline'[finishCur] \/ gpuLost'
  <2>1. finishCur \in Ids /\ finishCur < First
    BY <1>3, HandIsPast
  <2>2. PICK i \in Ids : i = finishCur
    BY <2>1
  <2> QED
    BY <2>1, <2>2, PastStays DEF GpuDone
<1>4. HandKind'
  <2>1. CASE UNCHANGED finishVars
    BY <1>3, <2>1 DEF HandKind, finishVars
  <2>2. CASE FetchFinish
    <3>1. finishQ # <<>> => Head(finishQ) \in Ids
      BY TypeSplit DEF TypeInv, CoreTypes
    <3> QED
      BY <1>2, <2>2, <3>1 DEF FetchFinish, HandKind, Kinds, finishVars, callerVars
  <2>3. CASE LoadError \/ WaitSemaphores \/ FailFinish \/ SignalFrame \/ NotifyObjects
               \/ PopFinish \/ Recycle
    BY <1>3, <2>3
    DEF LoadError, WaitSemaphores, FailFinish, SignalFrame, NotifyObjects, PopFinish,
        Recycle, Retiring, HandKind
  <2> QED
    BY <2>1, <2>2, <2>3, ThreadSteps DEF FinishStep
<1>5. Waited'
  <2>1. released \subseteq released' /\ frames \subseteq frames'
    BY ThreadSteps DEF ReleaseDropped, NotifyObjects, SignalFrame
  <2>2. submitPc' = "drop" => gpuLost'
    <3>1. gpuLost => gpuLost'
      BY LossSteps
    <3>2. DropSubmit => gpuLost
      BY InHandIsFirst DEF DropSubmit, LostKnown
    <3> QED
      BY <3>1, <3>2, ThreadSteps DEF Waited
  <2>3. CASE UNCHANGED finishVars
    BY <1>3, <2>1, <2>2, <2>3 DEF Waited, finishVars, GpuDone
  <2>4. CASE FetchFinish \/ PopFinish \/ Recycle \/ FailFinish
    BY <2>2, <2>4 DEF FetchFinish, PopFinish, Recycle, FailFinish, Retiring, Waited, finishVars
  <2>5. CASE LoadError \/ WaitSemaphores
    <3>1. /\ finishPc' \in {"notify", "waitSemaphores"} /\ finishCur' = finishCur
          /\ finishPc' = "notify" => GpuDone(finishCur)
      BY <2>5 DEF LoadError, WaitSemaphores, Retiring, LostKnown, Reached, GpuDone
    <3>2. GpuDone(finishCur) => GpuDone(finishCur)'
      BY <1>3, <2>5, <3>1 DEF LoadError, WaitSemaphores, Retiring, GpuDone
    <3> QED
      BY <2>2, <3>1, <3>2 DEF Waited, GpuDone
  <2>6. CASE NotifyObjects
    <3>1. /\ finishPc = "notify" /\ finishPc' = "pop" /\ finishCur' = finishCur
          /\ finishCur \in released' /\ kind[finishCur] = "cmd"
      BY <2>6 DEF NotifyObjects, Retiring, HandKind
    <3>2. GpuDone(finishCur)' /\ kind'[finishCur] = "cmd"
      BY <1>3, <3>1 DEF Waited, GpuDone
    <3> QED
      BY <2>2, <3>1, <3>2 DEF Waited, GpuDone
  <2>7. CASE SignalFrame
    <3>1. /\ finishPc = "signalFrame" /\ finishPc' = "pop" /\ finishCur' = finishCur
          /\ finishCur \in frames' /\ kind[finishCur] = "present"
      BY <2>7 DEF SignalFrame, Retiring, HandKind
    <3>2. kind'[finishCur] = "present"
      BY <1>3, <3>1
    <3> QED
      BY <2>2, <3>1, <3>2 DEF Waited
  <2> QED
    BY <2>3, <2>4, <2>5, <2>6, <2>7, ThreadSteps DEF FinishStep
<1>6. Settled'
  <2> SUFFICES ASSUME NEW i \in Ids, Gone(i)', kind'[i] = "cmd" PROVE GpuDone(i)'
    BY DEF Settled
  <2>1. CASE Gone(i)
    BY <2>1, PastStays DEF Gone, Settled
  <2>2. CASE DropSubmit
    BY <1>5, <2>2 DEF DropSubmit, Waited, GpuDone
  <2>3. CASE PopFinish /\ i = finishCur
    <3>1. kind[finishCur] = "cmd" /\ GpuDone(finishCur)
      BY <1>3, <2>3 DEF PopFinish, Waited
    <3> QED
      BY <1>3, <2>3, <3>1 DEF PopFinish, GpuDone
  <2> QED
    BY <2>1, <2>2, <2>3, GoneSteps
<1>7. ReleasedDone'
  <2> SUFFICES ASSUME NEW i \in released' PROVE i < First' /\ GpuDone(i)'
    BY DEF ReleasedDone
  <2>1. CASE i \in released
    <3>1. i \in Ids /\ i < First /\ GpuDone(i)
      BY <1>2, <2>1 DEF ReleasedDone
    <3>2. First <= First' /\ GpuDone(i)'
      BY <3>1, PastStays
    <3> QED
      BY <1>2, <3>1, <3>2
  <2>2. CASE ReleaseDropped /\ i = submitCur
    <3>1. i \in Ids /\ i < First /\ GpuDone(i)
      BY <2>2 DEF ReleaseDropped, DropPast, Waited, GpuDone, TypeInv, SubmitInHand
    <3>2. First <= First' /\ GpuDone(i)'
      BY <3>1, PastStays
    <3> QED
      BY <1>2, <3>1, <3>2
  <2>3. CASE NotifyObjects /\ i = finishCur
    <3>1. i \in Ids /\ i < First /\ GpuDone(i)
      BY <1>3, <2>3 DEF NotifyObjects, Retiring, Waited
    <3>2. First <= First' /\ GpuDone(i)'
      BY <3>1, PastStays
    <3> QED
      BY <1>2, <3>1, <3>2
  <2> QED
    BY <2>1, <2>2, <2>3, ThreadSteps DEF ReleaseDropped, NotifyObjects
<1>8. FramesDone'
  <2> SUFFICES ASSUME NEW f \in frames'
               PROVE  f < First' /\ \A i \in Ids : i < f /\ kind'[i] = "cmd" => GpuDone(i)'
    BY DEF FramesDone
  <2>1. f \in Ids /\ f < First /\ \A i \in Ids : i < f /\ kind[i] = "cmd" => GpuDone(i)
    <3>1. CASE f \in frames
      BY <1>2, <3>1 DEF FramesDone
    <3>2. CASE SignalFrame /\ f = finishCur
      BY <1>3, <3>2, HandIsPast DEF SignalFrame, Retiring, Settled
    <3> QED
      BY <3>1, <3>2, ThreadSteps DEF SignalFrame
  <2>2. f < First'
    BY <1>2, <2>1, PastStays
  <2>3. ASSUME NEW i \in Ids, i < f, kind'[i] = "cmd" PROVE GpuDone(i)'
    <3>1. i < First
      BY <1>2, <2>1, <2>3
    <3> QED
      BY <2>1, <2>3, <3>1, PastStays
  <2> QED
    BY <2>2, <2>3
<1>9. RecycledDone'
  <2> SUFFICES ASSUME NEW i \in recycled' PROVE Gone(i)' /\ GpuDone(i)'
    BY DEF RecycledDone
  <2>1. i \in Ids /\ Gone(i) /\ GpuDone(i)
    <3>1. CASE i \in recycled
      BY <1>2, <3>1 DEF RecycledDone
    <3>2. CASE Recycle /\ i = finishCur
      BY <1>3, <3>2, HandIsPast DEF Recycle, Retiring, Settled, HandKind
    <3> QED
      BY <3>1, <3>2, ThreadSteps DEF Recycle
  <2> QED
    BY <2>1, GoneSteps, PastStays DEF Gone
<1>10. ForwardedRetired'
  <2> SUFFICES ASSUME NEW i \in Ids, Gone(i)', Forward(i)'
               PROVE  IF kind'[i] = "cmd" THEN i \in released' ELSE i \in frames'
    BY DEF ForwardedRetired
  <2>1. released \subseteq released' /\ frames \subseteq frames'
    BY ThreadSteps DEF ReleaseDropped, NotifyObjects, SignalFrame
  <2>2. CASE Gone(i)
    <3>1. (Forward(i)' <=> Forward(i)) /\ kind'[i] = kind[i]
      BY <2>2, PastStays DEF Gone
    <3> QED
      BY <2>1, <2>2, <3>1 DEF ForwardedRetired
  <2>3. CASE DropSubmit /\ i = submitCur
    BY <2>3 DEF DropSubmit, Forward, callerVars
  <2>4. CASE PopFinish /\ i = finishCur
    <3>1. kind'[i] = kind[i] /\ kind[i] \in Kinds
      BY <1>2, <1>3, <2>4 DEF PopFinish
    <3> QED
      BY <2>1, <2>4, <3>1 DEF PopFinish, Waited, Kinds
  <2> QED
    BY <2>2, <2>3, <2>4, GoneSteps
<1> QED
  BY <1>1, <1>4, <1>5, <1>6, <1>7, <1>8, <1>9, <1>10

LEMMA ReleaseInvariance == Spec => []ReleaseInv
<1>1. Init => HandKind /\ Waited /\ Settled /\ ReleasedDone /\ FramesDone
              /\ RecycledDone /\ ForwardedRetired
  <2> SUFFICES ASSUME Init
               PROVE  HandKind /\ Waited /\ Settled /\ ReleasedDone /\ FramesDone
                      /\ RecycledDone /\ ForwardedRetired
    OBVIOUS
  <2>1. ASSUME NEW i \in Ids PROVE ~Gone(i)
    BY DEF Init, Gone, First, Ids
  <2> QED
    BY <2>1
    DEF Init, HandKind, Waited, Settled, ReleasedDone, FramesDone, RecycledDone,
        ForwardedRetired
<1>2. ReleaseInv /\ [Next]_vars => ReleaseInv'
  BY ReleaseStep
<1> QED
  BY <1>1, <1>2, TimelineInvariance, PTL DEF Spec, ReleaseInv

\* The use count of a resource, which tells the application that it may write
\* or free it, is dropped only when the device is through with the command list.
THEOREM ReleaseCorrect == Spec => []NoEarlyRelease
<1>1. ReleaseInv => NoEarlyRelease
  BY DEF ReleaseInv, ReleasedDone, NoEarlyRelease
<1> QED
  BY <1>1, ReleaseInvariance, PTL

\* A presented frame is signaled after all the command lists queued before it.
THEOREM FramesCorrect == Spec => []FrameAfterItsCommands
<1>1. ReleaseInv => FrameAfterItsCommands
  BY DEF ReleaseInv, FramesDone, FrameAfterItsCommands
<1> QED
  BY <1>1, ReleaseInvariance, PTL

\* A command list is handed out for reuse only when it is in neither queue and
\* the device is through with it.
THEOREM RecycleCorrect == Spec => []RecycleSafe
<1>1. ReleaseInv => RecycleSafe
  <2> SUFFICES ASSUME ReleaseInv, NEW i \in recycled
               PROVE  i \notin Range(submitQ) \union Range(finishQ) /\ GpuDone(i)
    BY DEF RecycleSafe
  <2> USE DEF ReleaseInv, TimelineInv, ResultInv, OrderInv
  <2>1. Gone(i) /\ GpuDone(i)
    BY DEF RecycledDone
  <2>2. /\ submitQ \in Seq(Ids) /\ finishQ \in Seq(Ids) /\ First \in Int /\ i \in Nat
        /\ Len(submitQ) \in Nat
    BY QueueNumbers, TypeSplit DEF TypeInv, CoreTypes
  <2>3. \A k \in 1..Len(submitQ) : submitQ[k] >= First
    BY <2>2 DEF SubmitOrder
  <2> QED
    BY <2>1, <2>2, <2>3, RangeOf DEF Gone
<1> QED
  BY <1>1, ReleaseInvariance, PTL

\* Whatever the queue thread reports or hands back, the device is through with.
THEOREM RetirementCorrect == Spec => []RetiredOnlyWhenDone
<1>1. NoEarlyRelease /\ FrameAfterItsCommands /\ RecycleSafe => RetiredOnlyWhenDone
  BY DEF RetiredOnlyWhenDone
<1> QED
  BY <1>1, ReleaseCorrect, FramesCorrect, RecycleCorrect, PTL

-----------------------------------------------------------------------------
(* Waiting for all of the work *)

\* Where a client has seen m_submitQueue empty, and both queues empty.
SawSubmitted(t) ==
  pc[t] \in {"waitForFinish", "deviceIdle", "deviceWaitIdle", "lockDeviceQueue", "ownsQueue"}
SawFinished(t) == pc[t] \in {"deviceIdle", "deviceWaitIdle"}

\* What it has seen stays true of the entries queued before its call.
SnapshotInv ==
  /\ ReleaseInv
  /\ \A t \in Clients :
       /\ snapshot[t] < nextId
       /\ SawSubmitted(t) => snapshot[t] < First
       /\ SawFinished(t) => \A k \in 1..Len(finishQ) : snapshot[t] < finishQ[k]

\* A step brings a client there only when the queue in question is empty.
LEMMA ClientProgress ==
  ASSUME TypeInv, [Next]_vars, NEW t \in Clients
  PROVE  /\ snapshot'[t] \in {snapshot[t], 0, nextId - 1}
         /\ snapshot'[t] # snapshot[t] => ~SawSubmitted(t)'
         /\ SawSubmitted(t)' => SawSubmitted(t) \/ submitQ = <<>>
         /\ SawFinished(t)' => SawFinished(t) \/ finishQ = <<>>
<1> USE DEF SawSubmitted, SawFinished
<1>7. pc \in [Clients -> {"idle", "submit", "present", "waitForSubmission",
                          "synchronizeSubmission", "waitForResource",
                          "synchronizeUntil", "waitForIdle", "waitForFinish",
                          "deviceIdle", "deviceWaitIdle", "lockSubmission",
                          "lockDeviceQueue", "ownsQueue"}]
      /\ snapshot \in [Clients -> Ids \union {0}]
  BY DEF TypeInv, TypeOK
<1>1. CASE UNCHANGED clientVars
  BY <1>1 DEF clientVars
<1>2. ASSUME NEW u \in Clients, Call(u)
      PROVE  /\ snapshot'[t] \in {snapshot[t], nextId - 1}
             /\ pc'[t] # pc[t] => ~SawSubmitted(t)'
             /\ snapshot'[t] # snapshot[t] => ~SawSubmitted(t)'
  BY <1>7, <1>2 DEF Call, Goto
<1>3. ASSUME NEW u \in Clients, Submit(u) \/ Present(u) \/ UnlockDeviceQueue(u)
      PROVE  /\ snapshot'[t] \in {snapshot[t], 0}
             /\ pc'[t] # pc[t] \/ snapshot'[t] # snapshot[t] => pc'[t] = "idle"
  BY <1>7, <1>3 DEF Submit, Present, UnlockDeviceQueue, Return, Stay, clientVars
<1>4. ASSUME NEW u \in Clients,
             WaitForSubmission(u) \/ SynchronizeSubmission(u) \/ WaitForResource(u)
               \/ SynchronizeUntil(u)
      PROVE  /\ snapshot'[t] \in {snapshot[t], 0}
             /\ snapshot'[t] # snapshot[t] => pc'[t] = "idle"
             /\ pc'[t] # pc[t] => ~SawSubmitted(t)'
  BY <1>7, <1>4
  DEF WaitForSubmission, SynchronizeSubmission, WaitForResource, SynchronizeUntil,
      Goto, Return, Stay, clientVars
<1>5. ASSUME NEW u \in Clients,
             WaitForIdle(u) \/ WaitForFinish(u) \/ LockSubmission(u) \/ LockDeviceQueue(u)
      PROVE  /\ snapshot'[t] = snapshot[t]
             /\ SawSubmitted(t)' => SawSubmitted(t) \/ submitQ = <<>>
             /\ SawFinished(t)' => SawFinished(t) \/ finishQ = <<>>
  BY <1>7, <1>5
  DEF WaitForIdle, WaitForFinish, LockSubmission, LockDeviceQueue, Goto, Stay,
      clientVars, AllSubmitted, AllFinished
<1>6. UNCHANGED clientVars \/ \E u \in Clients : Call(u) \/ ClientStep(u)
  BY DEF Next, vars, Stop, SubmitStep, FetchSubmit, CheckError, Execute, RetireSubmit,
         DropSubmit, ReleaseDropped, FailSubmit, FinishStep, FetchFinish, LoadError,
         WaitSemaphores, FailFinish, SignalFrame, NotifyObjects, PopFinish, Recycle,
         Retiring, callerVars, GpuSignal, GpuLose
<1> QED
  BY <1>1, <1>2, <1>3, <1>4, <1>5, <1>6 DEF ClientStep

\* Every step keeps what the waiting clients have seen.
LEMMA SnapshotStep ==
  ASSUME SnapshotInv, [Next]_vars
  PROVE  SnapshotInv'
<1> USE DEF SnapshotInv, ReleaseInv, TimelineInv, ResultInv, OrderInv
<1>1. ReleaseInv'
  BY ReleaseStep
<1>2. /\ nextId \in Nat /\ nextId >= 1 /\ nextId' \in Nat /\ First \in Int /\ First' \in Int
      /\ Len(submitQ) \in Nat /\ Len(finishQ) \in Nat /\ Len(finishQ') \in Nat
      /\ \A k \in 1..Len(finishQ) : finishQ[k] \in Nat
      /\ finishQ \in Seq(Ids)
  <2>1. nextId' \in Nat /\ Len(submitQ') \in Nat /\ Len(finishQ') \in Nat
    BY <1>1 DEF TypeInv, TypeOK
  <2> QED
    BY <2>1, QueueNumbers, TypeSplit DEF TypeInv, CoreTypes, First
<1>3. nextId <= nextId' /\ First <= First'
  <2>1. nextId <= nextId'
    BY <1>2, QueueSteps DEF QueuesStay, QueuePush, QueueMove, QueueDrop, QueuePop
  <2> QED
    BY <1>2, <2>1, ResultSteps
\* An entry that comes into m_finishQueue is the first one.
<1>4. ASSUME NEW k \in 1..Len(finishQ')
      PROVE  finishQ'[k] = First \/ \E j \in 1..Len(finishQ) : finishQ'[k] = finishQ[j]
  <2>1. CASE QueueMove
    <3>1. submitCur = First /\ submitCur \in Ids
      BY <2>1, TailOrder DEF QueueMove
    <3>2. /\ Len(finishQ') = Len(finishQ) + 1
          /\ \A j \in 1..Len(finishQ) : finishQ'[j] = finishQ[j]
          /\ finishQ'[Len(finishQ) + 1] = First
      BY <1>2, <2>1, <3>1, Appended DEF QueueMove
    <3>3. k \in 1..Len(finishQ) \/ k = Len(finishQ) + 1
      BY <1>2, <3>2
    <3> QED
      BY <3>2, <3>3
  <2>2. CASE QueuePop
    <3>1. /\ Len(finishQ') = Len(finishQ) - 1
          /\ \A j \in 1..(Len(finishQ) - 1) : finishQ'[j] = finishQ[j + 1]
      BY <1>2, <2>2, HeadTail DEF QueuePop
    <3>2. k + 1 \in 1..Len(finishQ) /\ finishQ'[k] = finishQ[k + 1]
      BY <1>2, <3>1
    <3> QED
      BY <3>2
  <2>3. CASE finishQ' = finishQ
    BY <2>3
  <2> QED
    BY <2>1, <2>2, <2>3, QueueSteps DEF QueuesStay, QueuePush, QueueDrop
<1>5. ASSUME NEW t \in Clients
      PROVE  /\ snapshot'[t] < nextId'
             /\ SawSubmitted(t)' => snapshot'[t] < First'
             /\ SawFinished(t)' => \A k \in 1..Len(finishQ') : snapshot'[t] < finishQ'[k]
  <2>1. /\ snapshot'[t] \in {snapshot[t], 0, nextId - 1}
        /\ snapshot'[t] # snapshot[t] => ~SawSubmitted(t)'
        /\ SawSubmitted(t)' => SawSubmitted(t) \/ submitQ = <<>>
        /\ SawFinished(t)' => SawFinished(t) \/ finishQ = <<>>
    BY ClientProgress
  <2>2. snapshot[t] \in Nat /\ snapshot'[t] \in Nat /\ snapshot[t] < nextId
    BY <1>2, <2>1 DEF TypeInv, TypeOK, Ids
  <2>3. snapshot'[t] < nextId'
    BY <1>2, <1>3, <2>1, <2>2
  <2>4. submitQ = <<>> => First = nextId
    BY <1>2 DEF First
  <2>5. SawSubmitted(t)' => snapshot'[t] < First /\ snapshot'[t] = snapshot[t]
    BY <1>2, <2>1, <2>2, <2>4
  <2>6. SawSubmitted(t)' => snapshot'[t] < First'
    BY <1>2, <1>3, <2>2, <2>5
  <2>7. ASSUME SawFinished(t)', NEW k \in 1..Len(finishQ') PROVE snapshot'[t] < finishQ'[k]
    <3>1. SawSubmitted(t)'
      BY <2>7 DEF SawSubmitted, SawFinished
    <3>2. \A j \in 1..Len(finishQ) : snapshot[t] < finishQ[j]
      BY <2>1, <2>7
    <3> QED
      BY <1>4, <2>5, <3>1, <3>2
  <2> QED
    BY <2>3, <2>6, <2>7
<1> QED
  BY <1>1, <1>5

LEMMA SnapshotInvariance == Spec => []SnapshotInv
<1>1. Init => \A t \in Clients : /\ snapshot[t] < nextId
                                 /\ ~SawSubmitted(t) /\ ~SawFinished(t)
  BY DEF Init, SawSubmitted, SawFinished
<1>2. SnapshotInv /\ [Next]_vars => SnapshotInv'
  BY SnapshotStep
<1>3. Init /\ ReleaseInv => SnapshotInv
  BY <1>1 DEF SnapshotInv
<1> QED
  BY <1>2, <1>3, ReleaseInvariance, PTL DEF Spec

\* waitForIdle gives up the lock between its two waits, and producers go on to
\* queue work; it still returns only when all earlier work has been retired.
THEOREM IdleCorrect == Spec => []IdleMeansRetired
<1>1. SnapshotInv => IdleMeansRetired
  <2> SUFFICES ASSUME SnapshotInv, NEW t \in Waiters, pc[t] \in {"deviceIdle", "deviceWaitIdle"},
                      NEW i \in 1..snapshot[t], Forward(i)
               PROVE  IF kind[i] = "cmd" THEN i \in released ELSE i \in frames
    BY DEF IdleMeansRetired
  <2> USE DEF SnapshotInv, ReleaseInv, TimelineInv, ResultInv, OrderInv
  <2>1. t \in Clients /\ SawSubmitted(t) /\ SawFinished(t)
    BY DEF Clients, SawSubmitted, SawFinished
  <2>2. /\ snapshot[t] \in Nat /\ First \in Int /\ i \in Nat /\ i >= 1
        /\ snapshot[t] < nextId /\ nextId \in 1..(MaxEntries + 1) /\ Len(finishQ) \in Nat
        /\ \A k \in 1..Len(finishQ) : finishQ[k] \in Nat
    BY <2>1, QueueNumbers DEF TypeInv, TypeOK, Ids
  <2>3. i \in Ids
    BY <2>2, SubmissionAssumption DEF SubmissionAssumption, Ids
  <2>4. Gone(i)
    BY <2>1, <2>2 DEF Gone
  <2> QED
    BY <2>3, <2>4 DEF ForwardedRetired
<1> QED
  BY <1>1, SnapshotInvariance, PTL

\* A client that holds the Vulkan queue after lockSubmission sees every entry
\* queued before its call with a result.
THEOREM OwnerCorrect == Spec => []OwnerSeesSubmissions
<1>1. SnapshotInv => OwnerSeesSubmissions
  <2> SUFFICES ASSUME SnapshotInv, NEW t \in Waiters, pc[t] = "ownsQueue", NEW i \in 1..snapshot[t]
               PROVE  status[i] # "NOT_READY"
    BY DEF OwnerSeesSubmissions
  <2> USE DEF SnapshotInv, ReleaseInv, TimelineInv, ResultInv, OrderInv
  <2>1. t \in Clients /\ SawSubmitted(t)
    BY DEF Clients, SawSubmitted
  <2>2. /\ snapshot[t] \in Nat /\ First \in Int /\ i \in Nat /\ i >= 1
        /\ snapshot[t] < nextId /\ nextId \in 1..(MaxEntries + 1)
    BY <2>1, QueueNumbers DEF TypeInv, TypeOK, Ids
  <2>3. i \in Ids /\ i < First
    BY <2>1, <2>2, SubmissionAssumption DEF SubmissionAssumption, Ids
  <2> QED
    BY <2>3 DEF StatusOrder
<1> QED
  BY <1>1, SnapshotInvariance, PTL

-----------------------------------------------------------------------------
(* The in-order pipeline *)

\* Only entries that the device accepted are in m_finishQueue.
ForwardInv ==
  /\ ReleaseInv
  /\ \A k \in 1..Len(finishQ) : Forward(finishQ[k])

LEMMA ForwardStep ==
  ASSUME ForwardInv, [Next]_vars
  PROVE  ForwardInv'
<1> USE DEF ForwardInv, ReleaseInv, TimelineInv, ResultInv, OrderInv
<1>1. ReleaseInv'
  BY ReleaseStep
<1>2. /\ Len(finishQ) \in Nat /\ finishQ \in Seq(Ids)
      /\ \A k \in 1..Len(finishQ) : finishQ[k] \in Ids /\ finishQ[k] < First
  BY QueueNumbers DEF FinishOrder
<1>3. ASSUME NEW k \in 1..Len(finishQ) PROVE Forward(finishQ[k]) /\ (\A i \in Ids : i = finishQ[k] => Forward(i)')
  BY <1>2, PastStays
<1>4. ASSUME NEW k \in 1..Len(finishQ') PROVE Forward(finishQ[k])'
  <2>1. CASE RetireSubmit
    <3>1. /\ Forward(submitCur) /\ finishQ' = Append(finishQ, submitCur)
          /\ submitCur \in Ids /\ UNCHANGED <<status, kind>>
      BY <2>1, InHandIsFirst DEF RetireSubmit, PassOn, entryVars, callerVars
    <3>2. /\ Len(finishQ') = Len(finishQ) + 1
          /\ \A j \in 1..Len(finishQ) : finishQ'[j] = finishQ[j]
          /\ finishQ'[Len(finishQ) + 1] = submitCur
      BY <1>2, <3>1, Appended
    <3>3. k \in 1..Len(finishQ) \/ k = Len(finishQ) + 1
      BY <1>2, <3>2
    <3> QED
      BY <1>3, <3>1, <3>2, <3>3 DEF Forward
  <2>2. CASE PopFinish
    <3>1. finishQ # <<>> /\ finishQ' = Tail(finishQ)
      BY <2>2 DEF PopFinish, TypeInv, FinishInHand
    <3>2. /\ Len(finishQ') = Len(finishQ) - 1
          /\ \A j \in 1..(Len(finishQ) - 1) : finishQ'[j] = finishQ[j + 1]
      BY <1>2, <3>1, HeadTail
    <3>3. k + 1 \in 1..Len(finishQ) /\ finishQ'[k] = finishQ[k + 1]
      BY <1>2, <3>2
    <3> QED
      BY <1>2, <1>3, <3>3 DEF Forward
  <2>3. CASE finishQ' = finishQ
    BY <1>2, <1>3, <2>3 DEF Forward
  <2>4. RetireSubmit \/ PopFinish \/ finishQ' = finishQ
    BY CoreSteps
    DEF coreVars, queueVars, PushStep, Push, SubmitStep, FetchSubmit, CheckError, Execute,
        DropSubmit, ReleaseDropped, FailSubmit, FinishStep, FetchFinish, LoadError,
        WaitSemaphores, FailFinish, SignalFrame, NotifyObjects, Recycle, Retiring,
        callerVars, GpuSignal, GpuLose
  <2> QED
    BY <2>1, <2>2, <2>3, <2>4
<1> QED
  BY <1>1, <1>4

LEMMA ForwardInvariance == Spec => []ForwardInv
<1>1. Init => \A k \in 1..Len(finishQ) : Forward(finishQ[k])
  BY DEF Init
<1>2. ForwardInv /\ [Next]_vars => ForwardInv'
  BY ForwardStep
<1>3. Init /\ ReleaseInv => ForwardInv
  BY <1>1 DEF ForwardInv
<1> QED
  BY <1>2, <1>3, ReleaseInvariance, PTL DEF Spec

\* The abstract set of retired entries.
Retired == {i \in Queued : Forward(i)} \ (Range(submitQ) \union Range(finishQ))

LEMMA RetiredIsGone ==
  OrderInv => Retired = {i \in Ids : Gone(i) /\ Forward(i)}
<1> SUFFICES ASSUME OrderInv PROVE Retired = {i \in Ids : Gone(i) /\ Forward(i)}
  OBVIOUS
<1> USE DEF OrderInv
<1>1. /\ nextId \in 1..(MaxEntries + 1) /\ nextId \in Nat /\ First \in Int
      /\ Len(submitQ) \in Nat
      /\ submitQ \in Seq(Ids) /\ finishQ \in Seq(Ids)
  BY QueueNumbers DEF TypeInv, TypeOK
<1>2. /\ \A x : x \in Range(submitQ) <=> \E k \in 1..Len(submitQ) : x = submitQ[k]
      /\ \A x : x \in Range(finishQ) <=> \E k \in 1..Len(finishQ) : x = finishQ[k]
  BY <1>1, RangeOf
<1>3. ASSUME NEW i \in Nat PROVE (i < nextId /\ i \notin Range(submitQ)) <=> i < First
  <2>1. ASSUME i < First PROVE i < nextId /\ i \notin Range(submitQ)
    BY <1>1, <1>2, <2>1 DEF First, SubmitOrder
  <2>2. ASSUME i < nextId, ~(i < First) PROVE i \in Range(submitQ)
    <3>1. i - First + 1 \in 1..Len(submitQ)
      BY <1>1, <2>2 DEF First
    <3>2. submitQ[i - First + 1] = i
      BY <1>1, <3>1 DEF SubmitOrder
    <3> QED
      BY <1>2, <3>1, <3>2
  <2> QED
    BY <2>1, <2>2
<1>4. \A i : i \in Queued <=> i \in Ids /\ i < nextId
  BY <1>1, SubmissionAssumption DEF SubmissionAssumption, Queued, Ids
<1>5. \A i \in Ids : i \in Nat
  BY DEF Ids
<1> QED
  BY <1>2, <1>3, <1>4, <1>5 DEF Retired, Gone

\* Every step of the queue is a step of the pipeline, or leaves it alone.
LEMMA PipelineStep ==
  ASSUME ForwardInv, [Next]_vars, Retired' = {i \in Ids : Gone(i)' /\ Forward(i)'}
  PROVE  Pipeline!PipelineNext \/ UNCHANGED <<nextId, submitQ, finishQ, Retired, gpuLost>>
<1> USE DEF ForwardInv, ReleaseInv, TimelineInv, ResultInv, OrderInv
<1>1. Retired = {i \in Ids : Gone(i) /\ Forward(i)}
  BY RetiredIsGone
<1>2. ASSUME NEW i \in Ids, Gone(i) PROVE Gone(i)' /\ (Forward(i)' <=> Forward(i))
  BY <1>2, GoneSteps, PastStays DEF Gone
\* Unless an entry leaves the queues, the same ones are retired.
<1>3. ASSUME ~DropSubmit, ~PopFinish PROVE Retired' = Retired
  <2>1. \A i \in Ids : Gone(i)' <=> Gone(i)
    BY <1>3, GoneSteps
  <2> QED
    BY <1>1, <1>2, <2>1
<1>4. CASE UNCHANGED <<nextId, submitQ, finishQ, gpuLost>> /\ ~DropSubmit /\ ~PopFinish
  BY <1>3, <1>4
<1>5. ASSUME NEW k \in Kinds, PushStep(k), ~DropSubmit, ~PopFinish PROVE Pipeline!Enqueue
  BY <1>3, <1>5 DEF PushStep, Push, gpuVars, Pipeline!Enqueue, Retired
<1>6. CASE RetireSubmit /\ ~DropSubmit /\ ~PopFinish
  <2>1. submitQ # <<>> /\ submitCur = Head(submitQ)
    BY <1>6 DEF RetireSubmit, TypeInv, SubmitInHand
  <2> QED
    BY <1>3, <1>6, <2>1 DEF RetireSubmit, PassOn, callerVars, Pipeline!HandOver, Retired,
        Pipeline!PipelineNext
<1>7. CASE DropSubmit
  <2>1. submitQ # <<>> /\ submitCur \in Ids /\ gpuLost /\ ~PopFinish
    BY <1>7, InHandIsFirst
    DEF DropSubmit, PopFinish, TypeInv, SubmitInHand, LostKnown, finishVars
  <2>2. ~Forward(submitCur)' /\ submitCur' = submitCur
    BY <1>7 DEF DropSubmit, Forward, callerVars
  <2>3. Retired' = Retired
    <3>1. ASSUME NEW i \in Ids, Gone(i)', Forward(i)' PROVE Gone(i)
      BY <2>1, <2>2, <3>1, GoneSteps DEF Forward
    <3> QED
      BY <1>1, <1>2, <3>1
  <2> QED
    BY <1>7, <2>1, <2>3
    DEF DropSubmit, callerVars, Pipeline!Refuse, Pipeline!PipelineNext, Retired
<1>8. CASE PopFinish
  <2>1. /\ finishQ # <<>> /\ finishCur = Head(finishQ) /\ finishCur = finishQ[1]
        /\ finishCur \in Ids /\ 1 \in 1..Len(finishQ) /\ finishCur < First
        /\ ~DropSubmit
    BY <1>8, HandIsPast, QueueNumbers
    DEF PopFinish, DropSubmit, TypeInv, FinishInHand, submitVars
  <2>2. Forward(finishCur)' /\ finishCur' = finishCur
    BY <1>8, <2>1 DEF PopFinish, Forward, callerVars, entryVars
  <2>3. Gone(finishCur)'
    <3>1. /\ finishQ \in Seq(Ids) /\ Len(finishQ) \in Nat
          /\ \A k \in 1..Len(finishQ) : finishQ[k] \in Nat
      BY QueueNumbers
    <3>2. /\ Len(finishQ') = Len(finishQ) - 1
          /\ \A j \in 1..(Len(finishQ) - 1) : finishQ'[j] = finishQ[j + 1]
      BY <1>8, <2>1, <3>1, HeadTail DEF PopFinish
    <3>3. \A j \in 1..(Len(finishQ) - 1) : finishQ[1] < finishQ[j + 1]
      BY <2>1, <3>1 DEF FinishOrder
    <3>4. First' = First
      BY <1>8 DEF PopFinish, callerVars, First
    <3> QED
      BY <2>1, <2>2, <3>1, <3>2, <3>3, <3>4 DEF Gone
  <2>4. Retired' = Retired \union {finishCur}
    <3>1. ASSUME NEW i \in Ids, Gone(i)' PROVE Gone(i) \/ i = finishCur
      BY <2>1, <3>1, GoneSteps
    <3>2. ASSUME NEW i \in Ids, i = finishCur PROVE Gone(i)' /\ Forward(i)'
      BY <2>2, <2>3, <3>2 DEF Gone, Forward
    <3> QED
      BY <1>1, <1>2, <2>1, <3>1, <3>2
  <2> QED
    BY <1>8, <2>1, <2>4
    DEF PopFinish, callerVars, Pipeline!Retire, Pipeline!PipelineNext, Retired
<1>9. CASE GpuLose /\ ~DropSubmit /\ ~PopFinish
  BY <1>3, <1>9 DEF GpuLose, queueVars, Pipeline!Lose, Pipeline!PipelineNext, Retired
<1>10. CASE UNCHANGED coreVars
  BY <1>10 DEF coreVars, queueVars, gpuVars, entryVars, Retired, Queued, Forward
<1>11. ASSUME SubmitStep \/ FinishStep \/ GpuSignal, ~RetireSubmit, ~DropSubmit, ~PopFinish
       PROVE  UNCHANGED <<nextId, submitQ, finishQ, gpuLost>>
  BY <1>11
  DEF SubmitStep, FetchSubmit, CheckError, Execute, ReleaseDropped, FailSubmit,
      FinishStep, FetchFinish, LoadError, WaitSemaphores, FailFinish, SignalFrame,
      NotifyObjects, Recycle, Retiring, callerVars, GpuSignal, queueVars
<1> QED
  BY <1>4, <1>5, <1>6, <1>7, <1>8, <1>9, <1>10, <1>11, CoreSteps DEF Pipeline!PipelineNext

\* The queue implements the in-order pipeline: entries are handed over or
\* refused in call order, and retired in that order, each of them once.
THEOREM PipelineCorrect == Spec => ImplementsPipeline
<1>1. Init => Pipeline!PipelineInit
  BY DEF Init, Pipeline!PipelineInit, Queued
<1>2. (OrderInv => Retired = {i \in Ids : Gone(i) /\ Forward(i)})'
  BY RetiredIsGone, PTL
<1>3. ForwardInv /\ ForwardInv' /\ [Next]_vars => [Pipeline!PipelineNext]_(Pipeline!pipelineVars)
  <2> SUFFICES ASSUME ForwardInv, ForwardInv', [Next]_vars
               PROVE  [Pipeline!PipelineNext]_(Pipeline!pipelineVars)
    OBVIOUS
  <2>1. Retired' = {i \in Ids : Gone(i)' /\ Forward(i)'}
    BY <1>2 DEF ForwardInv, ReleaseInv, TimelineInv, ResultInv
  <2> QED
    BY <2>1, PipelineStep DEF Pipeline!pipelineVars, Retired
<1> QED
  BY <1>1, <1>3, ForwardInvariance, PTL
  DEF Spec, ImplementsPipeline, Pipeline!PipelineSpec

-----------------------------------------------------------------------------
(* Back-pressure *)

\* A sequence has at most as many elements as it has places.
LEMMA RangeCardinality ==
  ASSUME NEW S, NEW s \in Seq(S)
  PROVE  IsFiniteSet(Range(s)) /\ Cardinality(Range(s)) \in Nat /\ Cardinality(Range(s)) <= Len(s)
<1>1. Len(s) \in Nat /\ DOMAIN s = 1..Len(s)
  OBVIOUS
<1>2. IsFiniteSet(1..Len(s)) /\ Cardinality(1..Len(s)) = Len(s)
  BY <1>1, FS_Interval
<1>3. s \in Surjection(1..Len(s), Range(s))
  <2>1. s \in [1..Len(s) -> Range(s)]
    BY <1>1 DEF Range
  <2>2. \A x \in Range(s) : \E k \in 1..Len(s) : s[k] = x
    BY <1>1 DEF Range
  <2> QED
    BY <2>1, <2>2 DEF Surjection
<1>4. IsFiniteSet(Range(s)) /\ Cardinality(Range(s)) <= Cardinality(1..Len(s))
  BY <1>2, <1>3, FS_Surjection
<1> QED
  BY <1>2, <1>4, FS_CardinalityType

CommandLists == {i \in Range(submitQ) \union Range(finishQ) : kind[i] = "cmd"}

LimitInv == OrderInv /\ BoundedCommandLists

\* A command list is queued only when the queues hold MaxQueued entries or less,
\* and nothing else adds a command list.
LEMMA LimitStep ==
  ASSUME LimitInv, [Next]_vars
  PROVE  LimitInv'
<1> USE DEF LimitInv, OrderInv
<1>1. OrderInv'
  BY OrderStep
<1>2. /\ submitQ \in Seq(Ids) /\ finishQ \in Seq(Ids)
      /\ submitQ' \in Seq(Ids) /\ finishQ' \in Seq(Ids)
      /\ Len(submitQ) \in Nat /\ Len(finishQ) \in Nat
      /\ nextId \in Nat /\ kind \in [Ids -> Kinds] /\ MaxQueued \in Nat
  BY <1>1, QueueNumbers, SubmissionAssumption DEF TypeInv, TypeOK, SubmissionAssumption
<1>3. /\ \A x : x \in Range(submitQ) <=> \E k \in 1..Len(submitQ) : x = submitQ[k]
      /\ \A x : x \in Range(finishQ) <=> \E k \in 1..Len(finishQ) : x = finishQ[k]
      /\ \A x : x \in Range(submitQ') <=> \E k \in 1..Len(submitQ') : x = submitQ'[k]
      /\ \A x : x \in Range(finishQ') <=> \E k \in 1..Len(finishQ') : x = finishQ'[k]
  BY <1>2, RangeOf
<1>4. IsFiniteSet(CommandLists) /\ Cardinality(CommandLists) <= MaxQueued + 1
  <2>1. IsFiniteSet(Range(submitQ)) /\ IsFiniteSet(Range(finishQ))
    BY <1>2, RangeCardinality
  <2>2. IsFiniteSet(Range(submitQ) \union Range(finishQ))
    BY <2>1, FS_Union
  <2>3. CommandLists \in SUBSET (Range(submitQ) \union Range(finishQ))
    BY DEF CommandLists
  <2>4. IsFiniteSet(CommandLists)
    BY <2>2, <2>3, FS_Subset
  <2> QED
    BY <2>4 DEF BoundedCommandLists, CommandLists
<1>5. ASSUME CommandLists' \subseteq CommandLists PROVE BoundedCommandLists'
  <2>1. Cardinality(CommandLists') <= Cardinality(CommandLists) /\ IsFiniteSet(CommandLists')
    BY <1>4, <1>5, FS_Subset
  <2>2. Cardinality(CommandLists) \in Nat /\ Cardinality(CommandLists') \in Nat
    BY <1>4, <2>1, FS_CardinalityType
  <2> QED
    BY <1>2, <1>4, <2>1, <2>2 DEF BoundedCommandLists, CommandLists
<1>6. ASSUME NEW k \in Kinds, PushStep(k) PROVE BoundedCommandLists'
  <2>1. /\ nextId \in Ids /\ submitQ' = Append(submitQ, nextId) /\ finishQ' = finishQ
        /\ kind' = [kind EXCEPT ![nextId] = k]
    BY <1>2, <1>6 DEF PushStep, Push, Ids
  <2>2. /\ Len(submitQ') = Len(submitQ) + 1
        /\ \A j \in 1..Len(submitQ) : submitQ'[j] = submitQ[j]
        /\ submitQ'[Len(submitQ) + 1] = nextId
    BY <1>2, <2>1, Appended
  <2>3. CASE k = "present"
    <3>1. \A x \in Range(submitQ') : x = nextId \/ x \in Range(submitQ)
      <4>1. ASSUME NEW j \in 1..Len(submitQ') PROVE submitQ'[j] = nextId \/ submitQ'[j] \in Range(submitQ)
        <5>1. j \in 1..Len(submitQ) \/ j = Len(submitQ) + 1
          BY <1>2, <2>2
        <5> QED
          BY <1>3, <2>2, <5>1
      <4> QED
        BY <1>3, <4>1
    <3>2. kind'[nextId] = "present" /\ \A i \in Ids : i # nextId => kind'[i] = kind[i]
      BY <1>2, <2>1, <2>3
    <3>3. Range(submitQ) \subseteq Ids /\ Range(finishQ) \subseteq Ids
      BY <1>2, <1>3
    <3>4. CommandLists' \subseteq CommandLists
      BY <2>1, <3>1, <3>2, <3>3 DEF CommandLists
    <3> QED
      BY <1>5, <3>4
  <2>4. CASE k = "cmd"
    <3>1. Len(submitQ') + Len(finishQ') <= MaxQueued + 1
      BY <1>2, <1>6, <2>1, <2>2, <2>4 DEF PushStep, QueueSize
    <3>2. /\ IsFiniteSet(Range(submitQ')) /\ Cardinality(Range(submitQ')) \in Nat
          /\ Cardinality(Range(submitQ')) <= Len(submitQ')
          /\ IsFiniteSet(Range(finishQ')) /\ Cardinality(Range(finishQ')) \in Nat
          /\ Cardinality(Range(finishQ')) <= Len(finishQ')
      BY <1>2, RangeCardinality
    <3> DEFINE all == Range(submitQ') \union Range(finishQ')
    <3> DEFINE both == Range(submitQ') \intersect Range(finishQ')
    <3>3. IsFiniteSet(all) /\ Cardinality(all) = Cardinality(Range(submitQ')) + Cardinality(Range(finishQ')) - Cardinality(both)
      BY <3>2, FS_Union
    <3>4. IsFiniteSet(both)
      BY <3>2, FS_Intersection
    <3>5. Cardinality(both) \in Nat /\ Cardinality(all) \in Nat
      BY <3>3, <3>4, FS_CardinalityType
    <3>6. CommandLists' \in SUBSET all
      BY DEF CommandLists
    <3>7. IsFiniteSet(CommandLists') /\ Cardinality(CommandLists') <= Cardinality(all)
      BY <3>3, <3>6, FS_Subset
    <3>8. Cardinality(CommandLists') \in Nat
      BY <3>7, FS_CardinalityType
    <3>9. Len(submitQ') \in Nat /\ Len(finishQ') \in Nat
      BY <1>2
    <3> HIDE DEF all, both
    <3>10. Cardinality(CommandLists') <= MaxQueued + 1
      BY <1>2, <3>1, <3>2, <3>3, <3>5, <3>7, <3>8, <3>9
    <3> QED
      BY <3>10 DEF BoundedCommandLists, CommandLists
  <2> QED
    BY <2>3, <2>4 DEF Kinds
<1>7. ASSUME \A k \in Kinds : ~PushStep(k) PROVE BoundedCommandLists'
  <2>1. UNCHANGED kind
    BY <1>7, CoreSteps
    DEF coreVars, queueVars, SubmitStep, FetchSubmit, CheckError, Execute, RetireSubmit,
        DropSubmit, ReleaseDropped, FailSubmit, FinishStep, FetchFinish, LoadError,
        WaitSemaphores, FailFinish, SignalFrame, NotifyObjects, PopFinish, Recycle,
        Retiring, callerVars, GpuSignal, GpuLose
  <2>2. Range(submitQ') \union Range(finishQ') \subseteq Range(submitQ) \union Range(finishQ)
    <3>1. CASE UNCHANGED <<submitQ, finishQ>>
      BY <3>1
    <3>2. CASE RetireSubmit \/ DropSubmit
      <4>1. /\ submitQ # <<>> /\ submitCur = Head(submitQ) /\ submitQ' = Tail(submitQ)
            /\ finishQ' \in {finishQ, Append(finishQ, submitCur)}
        BY <3>2 DEF RetireSubmit, DropSubmit, PassOn, TypeInv, SubmitInHand
      <4>2. /\ Len(submitQ') = Len(submitQ) - 1 /\ Len(submitQ) >= 1
            /\ submitCur = submitQ[1] /\ submitCur \in Ids
            /\ \A j \in 1..(Len(submitQ) - 1) : submitQ'[j] = submitQ[j + 1]
        BY <1>2, <4>1, HeadTail
      <4>3. Range(submitQ') \subseteq Range(submitQ)
        <5>1. ASSUME NEW j \in 1..Len(submitQ') PROVE submitQ'[j] \in Range(submitQ)
          <6>1. j + 1 \in 1..Len(submitQ) /\ submitQ'[j] = submitQ[j + 1]
            BY <1>2, <4>2
          <6> QED
            BY <1>3, <6>1
        <5> QED
          BY <1>3, <5>1
      <4>4. submitCur \in Range(submitQ)
        <5>1. 1 \in 1..Len(submitQ)
          BY <1>2, <4>2
        <5> QED
          BY <1>3, <4>2, <5>1
      <4>5. Range(finishQ') \subseteq Range(finishQ) \union {submitCur}
        <5>1. CASE finishQ' = finishQ
          BY <5>1
        <5>2. CASE finishQ' = Append(finishQ, submitCur)
          <6>1. /\ Len(finishQ') = Len(finishQ) + 1
                /\ \A j \in 1..Len(finishQ) : finishQ'[j] = finishQ[j]
                /\ finishQ'[Len(finishQ) + 1] = submitCur
            BY <1>2, <4>2, <5>2, Appended
          <6>2. ASSUME NEW j \in 1..Len(finishQ') PROVE finishQ'[j] \in Range(finishQ) \union {submitCur}
            <7>1. j \in 1..Len(finishQ) \/ j = Len(finishQ) + 1
              BY <1>2, <6>1
            <7> QED
              BY <1>3, <6>1, <7>1
          <6> QED
            BY <1>3, <6>2
        <5> QED
          BY <4>1, <5>1, <5>2
      <4> QED
        BY <4>3, <4>4, <4>5
    <3>3. CASE PopFinish
      <4>1. finishQ # <<>> /\ finishQ' = Tail(finishQ) /\ submitQ' = submitQ
        BY <3>3 DEF PopFinish, TypeInv, FinishInHand
      <4>2. /\ Len(finishQ') = Len(finishQ) - 1
            /\ \A j \in 1..(Len(finishQ) - 1) : finishQ'[j] = finishQ[j + 1]
        BY <1>2, <4>1, HeadTail
      <4>3. ASSUME NEW j \in 1..Len(finishQ') PROVE finishQ'[j] \in Range(finishQ)
        <5>1. j + 1 \in 1..Len(finishQ) /\ finishQ'[j] = finishQ[j + 1]
          BY <1>2, <4>2
        <5> QED
          BY <1>3, <5>1
      <4> QED
        BY <1>3, <4>1, <4>3
    <3>4. UNCHANGED <<submitQ, finishQ>> \/ RetireSubmit \/ DropSubmit \/ PopFinish
      BY <1>7, CoreSteps
      DEF coreVars, queueVars, SubmitStep, FetchSubmit, CheckError, Execute,
          ReleaseDropped, FailSubmit, FinishStep, FetchFinish, LoadError, WaitSemaphores,
          FailFinish, SignalFrame, NotifyObjects, Recycle, Retiring, callerVars, GpuSignal,
          GpuLose
    <3> QED
      BY <3>1, <3>2, <3>3, <3>4
  <2>3. CommandLists' \subseteq CommandLists
    BY <2>1, <2>2 DEF CommandLists
  <2> QED
    BY <1>5, <2>3
<1> QED
  BY <1>1, <1>6, <1>7

\* Back-pressure holds for every number of producers: however their calls
\* interleave, one command list more than the limit is never queued.
THEOREM BackPressureCorrect == Spec => []BoundedCommandLists
<1>1. Init /\ OrderInv => LimitInv
  <2> SUFFICES ASSUME Init, OrderInv PROVE BoundedCommandLists
    BY DEF LimitInv
  <2>1. Range(submitQ) = {} /\ Range(finishQ) = {}
    BY DEF Init, Range
  <2>2. CommandLists = {} /\ Cardinality({}) = 0
    BY <2>1, FS_EmptySet DEF CommandLists
  <2> QED
    BY <2>2, SubmissionAssumption DEF SubmissionAssumption, BoundedCommandLists, CommandLists
<1>2. LimitInv /\ [Next]_vars => LimitInv'
  BY LimitStep
<1>3. LimitInv => BoundedCommandLists
  BY DEF LimitInv
<1> QED
  BY <1>1, <1>2, <1>3, OrderInvariance, PTL DEF Spec
=============================================================================
