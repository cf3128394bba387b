---------------------------- MODULE DeviceProofs ----------------------------
(***************************************************************************)
(* Proofs about the services of MCDevice other than the page allocator,    *)
(* for any values of the constants.                                        *)
(***************************************************************************)
EXTENDS MCDevice, FiniteSetTheorems, WellFoundedInduction, SequenceTheorems, TLAPS

\* What a step of the composition is for one service.
LEMMA ServiceSteps ==
  ASSUME [DeviceNext]_deviceVars
  PROVE  /\ Callback!Next \/ UNCHANGED callbackVars
         /\ PageSource!Next \/ UNCHANGED pageVars
         /\ ItemSource!Next \/ UNCHANGED poolVars
         /\ [Next]_vars
         /\ [SamplerNext]_samplerVars
  BY DEF DeviceNext, deviceVars, FenceRuns, CallbackRuns, SamplersRun, SubmissionRuns, PagesRun,
         PoolsRun, memoryVars, fenceVars

-----------------------------------------------------------------------------
(* GPU fences with events *)

(***************************************************************************)
(* FenceInv is the properties, and what they rest on.  A client that is    *)
(* idle holds no event, no two clients hold the same one, and the worker   *)
(* sleeps only while m_running is set, so that a client that finds         *)
(* m_running unset has no sleeping worker to wake.                         *)
(***************************************************************************)
IdleHoldsNothing == \A t \in Callers : pc[t] = "idle" => item[t] = {}

HeldOnce ==
  \A t, u \in Callers : t # u => item[t] \intersect item[u] = {}

SleepsWhileRunning == asleep => running

FenceInv ==
  /\ TypeOK
  /\ NoEarlyEvent
  /\ EachEventOnce
  /\ NoForgottenEvent
  /\ IdleHoldsNothing
  /\ HeldOnce
  /\ SleepsWhileRunning

\* The initial state satisfies the invariant.
LEMMA FenceInit == Init => FenceInv
<1> SUFFICES ASSUME Init PROVE FenceInv
  OBVIOUS
<1>1. TypeOK
  <2>1. 0 \in 0..MaxValue
    BY FenceAssumption DEF FenceAssumption
  <2> QED
    BY <2>1 DEF Init, TypeOK
<1> QED
  BY <1>1
  DEF Init, FenceInv, NoEarlyEvent, EachEventOnce, NoForgottenEvent, IdleHoldsNothing, HeldOnce,
      SleepsWhileRunning

\* What the worker takes out of the queue has been reached.
LEMMA ReachedIsDue ==
  ASSUME NEW q, NEW v
  PROVE  /\ Reached(q, v) \subseteq q
         /\ \A e \in Reached(q, v) : due[e] <= v
         /\ Reached(q, v) \intersect Left(q, v) = {}
         /\ q = Reached(q, v) \union Left(q, v)
  BY DEF Reached, Left

\* Every step preserves the invariant.
LEMMA FenceStep == FenceInv /\ [Next]_vars => FenceInv'
<1> SUFFICES ASSUME FenceInv, [Next]_vars PROVE FenceInv'
  OBVIOUS
<1> USE FenceAssumption DEF FenceInv, FenceAssumption
<1>1. CASE Signal
  <2>1. TypeOK'
    BY <1>1 DEF TypeOK, Signal, workerVars, callerVars
  <2>2. NoEarlyEvent'
    <3>1. value' \in Nat /\ value' > value
      BY <1>1 DEF TypeOK, Signal
    <3>2. \A e \in fired : due[e] \in Nat /\ value \in Nat
      BY DEF TypeOK
    <3> QED
      BY <1>1, <3>1, <3>2 DEF NoEarlyEvent, Signal
  <2> QED
    BY <1>1, <2>1, <2>2
    DEF Signal, EachEventOnce, NoForgottenEvent, IdleHoldsNothing, HeldOnce,
        SleepsWhileRunning, callerVars
<1>2. ASSUME NEW t \in Callers, EnqueueWait(t) PROVE FenceInv'
  <2> PICK e \in Events \ used, v \in 0..MaxValue :
        /\ used' = used \union {e}
        /\ due' = [due EXCEPT ![e] = v]
        /\ IF v > value
             THEN /\ pc' = [pc EXCEPT ![t] = "enqueue"]
                  /\ item' = [item EXCEPT ![t] = {e}]
                  /\ UNCHANGED fired
             ELSE /\ fired' = fired \union {e}
                  /\ UNCHANGED <<pc, item>>
    BY <1>2 DEF EnqueueWait
  <2>1. UNCHANGED <<value, queue, running, asleep, workerPc, reached, destroyed>> /\ item[t] = {}
    BY <1>2 DEF EnqueueWait, workerVars, IdleHoldsNothing
  <2>2. TypeOK'
    BY <2>1 DEF TypeOK
  <2>3. e \notin fired /\ e \notin queue /\ \A u \in Callers : e \notin item[u]
    BY DEF EachEventOnce
  <2>4. NoEarlyEvent'
    BY <2>1, <2>3 DEF NoEarlyEvent, TypeOK
  <2>5. EachEventOnce'
    <3>1. CASE v > value
      BY <2>1, <2>3, <3>1 DEF EachEventOnce, TypeOK
    <3>2. CASE ~(v > value)
      BY <2>1, <2>3, <3>2 DEF EachEventOnce
    <3> QED
      BY <3>1, <3>2
  <2>6. IdleHoldsNothing' /\ HeldOnce'
    BY <2>1, <2>3 DEF IdleHoldsNothing, HeldOnce, TypeOK
  <2> QED
    BY <2>1, <2>2, <2>4, <2>5, <2>6 DEF NoForgottenEvent, SleepsWhileRunning
<1>3. ASSUME NEW t \in Callers, Enqueue(t) PROVE FenceInv'
  <2>1. /\ queue' = queue \union item[t]
        /\ item' = [item EXCEPT ![t] = {}]
        /\ pc' = [pc EXCEPT ![t] = "idle"]
        /\ UNCHANGED <<value, due, reached, used, fired, destroyed>>
        /\ running' = TRUE
        /\ asleep' = FALSE
        /\ workerPc' \in {workerPc, "lock"}
    BY <1>3 DEF Enqueue, Wake, SleepsWhileRunning, TypeOK
  <2>2. TypeOK'
    BY <2>1 DEF TypeOK
  <2>3. EachEventOnce'
    BY <2>1 DEF EachEventOnce, HeldOnce, TypeOK
  <2>4. IdleHoldsNothing' /\ HeldOnce'
    BY <2>1 DEF IdleHoldsNothing, HeldOnce, TypeOK
  <2> QED
    BY <2>1, <2>2, <2>3, <2>4 DEF NoEarlyEvent, NoForgottenEvent, SleepsWhileRunning
<1>4. CASE Scan
  <2>1. UNCHANGED <<value, due, running, pc, item, used, destroyed>>
    BY <1>4 DEF Scan, CounterValue, callerVars
  <2>2. CASE queue = {} /\ running
    BY <1>4, <2>1, <2>2
    DEF Scan, CounterValue, TypeOK, NoEarlyEvent, EachEventOnce, NoForgottenEvent,
        IdleHoldsNothing, HeldOnce, SleepsWhileRunning, workerVars
  <2>3. CASE ~(queue = {} /\ running)
    <3>1. /\ fired' = fired \union Reached(queue, value)
          /\ queue' = Left(queue, value)
          /\ reached' = value
          /\ workerPc' \in {"exit", "lock", "timedWait"}
          /\ asleep' = FALSE
      BY <1>4, <2>3 DEF Scan, CounterValue, TypeOK
    <3>2. TypeOK'
      <4>1. Left(queue, value) \subseteq queue /\ Reached(queue, value) \subseteq queue
        BY DEF Left, Reached
      <4>2. queue' \subseteq Events /\ fired' \subseteq Events
        BY <3>1, <4>1 DEF TypeOK
      <4> QED
        BY <2>1, <3>1, <4>2 DEF TypeOK
    <3>3. NoEarlyEvent'
      BY <2>1, <3>1, ReachedIsDue DEF NoEarlyEvent
    <3>4. EachEventOnce'
      <4>1. /\ queue = Reached(queue, value) \union queue'
            /\ Reached(queue, value) \intersect queue' = {}
            /\ fired' \union queue' = fired \union queue
        BY <3>1, ReachedIsDue
      <4>2. fired' \intersect queue' = {}
        BY <3>1, <4>1 DEF EachEventOnce
      <4> QED
        BY <2>1, <4>1, <4>2 DEF EachEventOnce
    <3> QED
      BY <2>1, <3>1, <3>2, <3>3, <3>4
      DEF NoForgottenEvent, IdleHoldsNothing, HeldOnce, SleepsWhileRunning
  <2> QED
    BY <2>2, <2>3
<1>5. CASE TimedWait \/ Fail
  BY <1>5
  DEF TimedWait, Fail, callerVars, TypeOK, NoEarlyEvent, EachEventOnce,
      NoForgottenEvent, IdleHoldsNothing, HeldOnce, SleepsWhileRunning
<1>6. CASE Destroy
  BY <1>6
  DEF Destroy, Wake, callerVars, workerVars, TypeOK, NoEarlyEvent, EachEventOnce,
      NoForgottenEvent, IdleHoldsNothing, HeldOnce, SleepsWhileRunning
<1>7. CASE UNCHANGED vars
  BY <1>7
  DEF vars, callerVars, workerVars, TypeOK, NoEarlyEvent, EachEventOnce,
      NoForgottenEvent, IdleHoldsNothing, HeldOnce, SleepsWhileRunning
<1> QED
  BY <1>1, <1>2, <1>3, <1>4, <1>5, <1>6, <1>7 DEF Next, WorkerStep

\* The invariant of the fences holds in every behaviour of the device.
LEMMA FenceInvHolds == DeviceSpec => []FenceInv
<1>1. DeviceInit => FenceInv
  BY FenceInit DEF DeviceInit
<1>2. FenceInv /\ [DeviceNext]_deviceVars => FenceInv'
  BY FenceStep, ServiceSteps
<1> QED
  BY <1>1, <1>2, PTL DEF DeviceSpec

\* SetEventOnCompletion never signals an event before the fence value is reached,
\* every event is called at most once and is not lost, and the worker never sleeps on
\* m_condVar with an event in the queue, though enqueueWait looks at the semaphore
\* before it takes the lock.
THEOREM EventsCorrect == DeviceSpec => []FencePromises
<1>1. FenceInv => FencePromises
  BY DEF FenceInv, FencePromises, FiredOnceWhenReached
<1> QED
  BY <1>1, FenceInvHolds, PTL

-----------------------------------------------------------------------------
(* CPU fences *)

\* A callback is on its way in the hands of at most one thread, which has called
\* setCallback and is about to take the lock, or in the list; and only then.
HandsInv ==
  /\ \A t \in Callers : cbPc[t] # "set" => hand[t] = {}
  /\ \A t \in Callers : \A c, d \in hand[t] : c = d
  /\ \A t \in Callers : \A c \in hand[t] :
       c \in cbUsed /\ c \notin cbList /\ \A u \in Callers : c \in hand[u] => u = t
  /\ cbList \subseteq cbUsed
  /\ \A c \in Callbacks \ cbUsed : called[c] = 0

CallbackInv == Callback!TypeOK /\ HandsInv /\ CalledExactlyWhenReached

LEMMA CallbackInit ==
  ASSUME Callback!Init
  PROVE  CallbackInv
<1> USE DeviceAssumption DEF Callback!CallbackFenceAssumption
<1>1. Callback!TypeOK
  BY DEF Callback!Init, Callback!TypeOK, DeviceAssumption
<1> QED
  BY <1>1 DEF Callback!Init, CallbackInv, HandsInv, CalledExactlyWhenReached,
     Callback!CalledExactlyWhenReached

LEMMA CallbackStep ==
  ASSUME CallbackInv, Callback!Next
  PROVE  CallbackInv'
<1>0. MaxSignal \in Nat /\ Callback!TypeOK
  BY DeviceAssumption DEF DeviceAssumption, Callback!CallbackFenceAssumption, CallbackInv
<1> USE DEF CallbackInv
<1>1. CASE Callback!Signal
  <2>1. PICK v \in (cbValue + 1)..MaxSignal :
          /\ cbValue' = v
          /\ Callback!RunAt({c \in cbList : v >= cbDue[c]}, v)
          /\ cbList' = Callback!Keep(v)
    BY <1>1 DEF Callback!Signal
  <2>2. /\ UNCHANGED <<cbDue, cbPc, target, hand, cbUsed>> /\ cbAsleep' = {}
        /\ cbList' = {c \in cbList : cbDue[c] > v}
        /\ called' = [c \in Callbacks |-> IF c \in cbList /\ v >= cbDue[c] THEN called[c] + 1 ELSE called[c]]
        /\ calledAt' = [c \in Callbacks |-> IF c \in cbList /\ v >= cbDue[c] THEN v ELSE calledAt[c]]
        /\ v \in 0..MaxSignal
    BY <1>0, <1>1, <2>1
    DEF Callback!Signal, Callback!userVars, Callback!Wake, Callback!Keep, Callback!RunAt, Callback!TypeOK
  <2>3. \A c \in cbList : c \in Callbacks /\ c \in cbUsed /\ called[c] = 0 /\ cbDue[c] \in 0..MaxSignal
    BY <1>0
    DEF HandsInv, CalledExactlyWhenReached, Callback!CalledExactlyWhenReached, Callback!TypeOK
  <2>4. Callback!TypeOK'
    BY <1>0, <2>1, <2>2, <2>3 DEF Callback!TypeOK
  <2>5. HandsInv'
    BY <2>2, <2>3 DEF HandsInv
  <2>6. CalledExactlyWhenReached'
    <3>1. ASSUME NEW c \in cbUsed
          PROVE  /\ called'[c] = 1 => calledAt'[c] >= cbDue[c]
                 /\ called'[c] = (IF c \in cbList' \/ \E t \in Callers : c \in hand[t] THEN 0 ELSE 1)
      <4>1. c \in Callbacks /\ cbDue[c] \in 0..MaxSignal
        BY <1>0 DEF Callback!TypeOK
      <4>2. CASE c \in cbList /\ v >= cbDue[c]
        BY <2>2, <2>3, <4>1, <4>2 DEF HandsInv
      <4>3. CASE c \notin cbList
        BY <2>2, <4>1, <4>3 DEF CalledExactlyWhenReached, Callback!CalledExactlyWhenReached
      <4>4. CASE c \in cbList /\ ~(v >= cbDue[c])
        BY <2>2, <2>3, <4>1, <4>4
      <4> QED
        BY <4>2, <4>3, <4>4
    <3> QED
      BY <2>1, <2>2, <3>1 DEF CalledExactlyWhenReached, Callback!CalledExactlyWhenReached
  <2> QED
    BY <2>4, <2>5, <2>6
<1>2. ASSUME NEW t \in Callers, Callback!Wait(t) \/ Callback!WaitLocked(t) PROVE CallbackInv'
  <2>1. /\ UNCHANGED <<cbValue, cbList, cbDue, hand, cbUsed, called, calledAt>>
        /\ cbPc' = [cbPc EXCEPT ![t] = cbPc'[t]] /\ cbPc[t] # "set" /\ cbPc'[t] \in {"idle", "wait"}
        /\ cbAsleep' \subseteq cbAsleep \union {t}
        /\ target' \in [Callers -> 0..MaxSignal]
    BY <1>0, <1>2 DEF Callback!Wait, Callback!WaitLocked, Callback!TypeOK
  <2>2. Callback!TypeOK'
    BY <1>0, <2>1 DEF Callback!TypeOK
  <2>3. HandsInv'
    BY <1>0, <2>1 DEF HandsInv, Callback!TypeOK
  <2> QED
    BY <2>1, <2>2, <2>3 DEF CalledExactlyWhenReached, Callback!CalledExactlyWhenReached
<1>3. ASSUME NEW t \in Callers, Callback!SetCallback(t) PROVE CallbackInv'
  <2>1. PICK c \in Callbacks \ cbUsed, v \in 0..MaxSignal :
          /\ cbUsed' = cbUsed \union {c}
          /\ cbDue' = [cbDue EXCEPT ![c] = v]
          /\ IF v <= cbValue
               THEN Callback!RunAt({c}, cbValue) /\ UNCHANGED <<cbPc, hand>>
               ELSE /\ cbPc' = [cbPc EXCEPT ![t] = "set"]
                    /\ hand' = [hand EXCEPT ![t] = {c}]
                    /\ UNCHANGED <<called, calledAt>>
    BY <1>3 DEF Callback!SetCallback
  <2>2. UNCHANGED <<cbValue, cbList, cbAsleep, target>> /\ cbPc[t] = "idle"
    BY <1>3 DEF Callback!SetCallback
  <2>3. /\ c \notin cbList /\ called[c] = 0 /\ \A u \in Callers : c \notin hand[u]
        /\ hand[t] = {} /\ \A u \in Callers : hand[u] \subseteq cbUsed
    BY <2>2 DEF HandsInv
  <2>4. \A d \in cbUsed : d \in Callbacks /\ d # c /\ cbDue'[d] = cbDue[d]
    BY <1>0, <2>1 DEF Callback!TypeOK
  <2>5. cbDue'[c] = v /\ c \in Callbacks
    BY <1>0, <2>1 DEF Callback!TypeOK
  <2>6. CASE v <= cbValue
    <3>1. /\ called' = [called EXCEPT ![c] = 1] /\ calledAt' = [calledAt EXCEPT ![c] = cbValue]
          /\ UNCHANGED <<cbPc, hand>>
      BY <1>0, <2>1, <2>3, <2>6 DEF Callback!RunAt, Callback!TypeOK
    <3>2. Callback!TypeOK'
      BY <1>0, <2>1, <2>2, <3>1 DEF Callback!TypeOK
    <3>3. HandsInv'
      BY <1>0, <2>1, <2>2, <3>1 DEF HandsInv, Callback!TypeOK
    <3>4. CalledExactlyWhenReached'
      BY <1>0, <2>1, <2>2, <2>3, <2>4, <2>5, <2>6, <3>1
      DEF HandsInv, CalledExactlyWhenReached, Callback!CalledExactlyWhenReached, Callback!TypeOK
    <3> QED
      BY <3>2, <3>3, <3>4
  <2>7. CASE ~(v <= cbValue)
    <3>1. /\ cbPc' = [cbPc EXCEPT ![t] = "set"] /\ hand' = [hand EXCEPT ![t] = {c}]
          /\ UNCHANGED <<called, calledAt>>
      BY <2>1, <2>7
    <3>2. Callback!TypeOK'
      BY <1>0, <2>1, <2>2, <3>1 DEF Callback!TypeOK
    <3>3. HandsInv'
      BY <1>0, <2>1, <2>2, <2>3, <3>1 DEF HandsInv, Callback!TypeOK
    <3>4. CalledExactlyWhenReached'
      BY <1>0, <2>1, <2>2, <2>3, <2>4, <2>5, <2>7, <3>1
      DEF HandsInv, CalledExactlyWhenReached, Callback!CalledExactlyWhenReached, Callback!TypeOK
    <3> QED
      BY <3>2, <3>3, <3>4
  <2> QED
    BY <2>6, <2>7
<1>4. ASSUME NEW t \in Callers, Callback!SetCallbackLocked(t) PROVE CallbackInv'
  <2>1. PICK c \in hand[t] :
          IF Callback!StillAhead(c)
            THEN cbList' = cbList \union {c} /\ UNCHANGED <<called, calledAt>>
            ELSE Callback!RunAt({c}, cbValue) /\ UNCHANGED cbList
    BY <1>4 DEF Callback!SetCallbackLocked
  <2>2. /\ UNCHANGED <<cbValue, cbDue, cbAsleep, target, cbUsed>>
        /\ cbPc' = [cbPc EXCEPT ![t] = "idle"] /\ hand' = [hand EXCEPT ![t] = {}]
    BY <1>4 DEF Callback!SetCallbackLocked
  <2>3. /\ c \in Callbacks /\ c \in cbUsed /\ c \notin cbList /\ hand[t] = {c} /\ called[c] = 0
        /\ \A u \in Callers : u # t => c \notin hand[u]
        /\ cbDue[c] \in 0..MaxSignal /\ cbValue \in 0..MaxSignal
    BY <1>0
    DEF HandsInv, CalledExactlyWhenReached, Callback!CalledExactlyWhenReached, Callback!TypeOK
  <2>4. \A u \in Callers : hand'[u] = (IF u = t THEN {} ELSE hand[u])
    BY <1>0, <2>2 DEF Callback!TypeOK
  <2>5. \A d \in cbUsed \ {c} :
          (\E u \in Callers : d \in hand'[u]) <=> (\E u \in Callers : d \in hand[u])
    BY <2>3, <2>4
  <2>6. CASE Callback!StillAhead(c)
    <3>1. cbList' = cbList \union {c} /\ UNCHANGED <<called, calledAt>> /\ cbDue[c] > cbValue
      BY <2>1, <2>6 DEF Callback!StillAhead
    <3>2. Callback!TypeOK'
      BY <1>0, <2>2, <2>3, <3>1 DEF Callback!TypeOK
    <3>3. HandsInv'
      BY <1>0, <2>2, <2>3, <2>4, <3>1 DEF HandsInv, Callback!TypeOK
    <3>4. CalledExactlyWhenReached'
      BY <2>2, <2>3, <2>4, <2>5, <3>1
      DEF CalledExactlyWhenReached, Callback!CalledExactlyWhenReached
    <3> QED
      BY <3>2, <3>3, <3>4
  <2>7. CASE ~Callback!StillAhead(c)
    <3>1. /\ called' = [called EXCEPT ![c] = 1] /\ calledAt' = [calledAt EXCEPT ![c] = cbValue]
          /\ UNCHANGED cbList /\ cbDue[c] <= cbValue
      BY <1>0, <2>1, <2>3, <2>7 DEF Callback!StillAhead, Callback!RunAt, Callback!TypeOK
    <3>2. Callback!TypeOK'
      BY <1>0, <2>2, <2>3, <3>1 DEF Callback!TypeOK
    <3>3. HandsInv'
      BY <1>0, <2>2, <2>3, <2>4, <3>1 DEF HandsInv, Callback!TypeOK
    <3>4. CalledExactlyWhenReached'
      BY <1>0, <2>2, <2>3, <2>4, <2>5, <3>1
      DEF CalledExactlyWhenReached, Callback!CalledExactlyWhenReached, Callback!TypeOK
    <3> QED
      BY <3>2, <3>3, <3>4
  <2> QED
    BY <2>6, <2>7
<1> QED
  BY <1>1, <1>2, <1>3, <1>4 DEF Callback!Next

\* The invariant of the callbacks holds in every behaviour of the device.
LEMMA CallbackInvHolds == DeviceSpec => []CallbackInv
<1>1. DeviceInit => CallbackInv
  BY CallbackInit DEF DeviceInit
<1>2. CallbackInv /\ [DeviceNext]_deviceVars => CallbackInv'
  <2>1. CallbackInv /\ UNCHANGED callbackVars => CallbackInv'
    BY DEF CallbackInv, callbackVars, Callback!TypeOK, HandsInv, CalledExactlyWhenReached,
       Callback!CalledExactlyWhenReached
  <2> QED
    BY <2>1, CallbackStep, ServiceSteps
<1> QED
  BY <1>1, <1>2, PTL DEF DeviceSpec

\* No callback is called before its value, none twice, and none is left in the list when
\* its value has been reached, in whatever way setCallback and signal interleave.
THEOREM CallbacksCorrect == DeviceSpec => []CalledExactlyWhenReached
<1>1. CallbackInv => CalledExactlyWhenReached
  BY DEF CallbackInv
<1> QED
  BY <1>1, CallbackInvHolds, PTL

-----------------------------------------------------------------------------
(* The sampler pool *)

(***************************************************************************)
(* PoolInv says locally, link by link, that lruPrev and lruNext are        *)
(* inverse to each other and end at lruHead and lruTail, and that a        *)
(* reference count is the number of handles that refer to the slot.  From  *)
(* the first follows what a slot's removal and its insertion do to the set *)
(* of slots on the list (RemoveIsRemoval, AppendIsInsertion), from the     *)
(* second that a slot with a count of zero is in nobody's hands.           *)
(***************************************************************************)
ListType ==
  /\ lruPrev \in [Slots -> Slots \union {None}] /\ lruNext \in [Slots -> Slots \union {None}]
  /\ lruHead \in Slots \union {None} /\ lruTail \in Slots \union {None}

Links ==
  /\ \A s \in Slots : lruNext[s] # None => lruPrev[lruNext[s]] = s /\ InLru(s)
  /\ \A s \in Slots : lruPrev[s] # None => lruNext[lruPrev[s]] = s
  /\ lruHead # None => lruPrev[lruHead] = None
  /\ lruTail # None => lruNext[lruTail] = None /\ InLru(lruTail)
  /\ \A s \in Slots : InLru(s) /\ lruNext[s] = None => s = lruTail
  /\ lruHead = None <=> lruTail = None

\* A count is the number of handles, and the pool's own reference to slot 0.
Holders(s) == {h \in Handles : handlePc[h] = "held" /\ held[h] = s}
RefCounts ==
  \A s \in Slots : refCount[s] = Cardinality(Holders(s)) + (IF s = 0 THEN 1 ELSE 0)

Releasers == {h \in Handles : handlePc[h] = "release"}
Used == {s \in Slots : refCount[s] > 0}

HeldInSlots == \A h \in Handles : handlePc[h] # "null" => held[h] \in Slots

PoolInv ==
  /\ SamplerTypeOK /\ HeldInSlots /\ RefCounts /\ Links
  /\ UsedNotRecycled /\ HeldHasKey /\ LutMatches /\ NoneLost /\ LostUnused /\ LiveCount


\* Removing a slot takes it off the list, if it was on it, and no other.
LEMMA RemoveIsRemoval ==
  ASSUME ListType, Links, NEW s \in Slots, RemoveLru(s)
  PROVE  /\ ListType' /\ Links'
         /\ \A x \in Slots : InLru(x)' <=> InLru(x) /\ x # s
<1> USE PoolAssumption DEF Slots, None
<1>1. ListType'
  BY SMT DEF ListType, RemoveLru
<1>2. \A x \in Slots : InLru(x)' <=> InLru(x) /\ x # s
  BY SMT DEF ListType, Links, RemoveLru, InLru
<1>3. Links'
  <2>1. \A x \in Slots : lruNext'[x] # None => lruPrev'[lruNext'[x]] = x /\ InLru(x)'
    BY <1>2, SMT DEF ListType, Links, RemoveLru, InLru
  <2>2. \A x \in Slots : lruPrev'[x] # None => lruNext'[lruPrev'[x]] = x
    BY SMT DEF ListType, Links, RemoveLru, InLru
  <2>3. lruHead' # None => lruPrev'[lruHead'] = None
    BY SMT DEF ListType, Links, RemoveLru, InLru
  <2>4. lruTail' # None => lruNext'[lruTail'] = None /\ InLru(lruTail)'
    BY <1>2, SMT DEF ListType, Links, RemoveLru, InLru
  <2>5. \A x \in Slots : InLru(x)' /\ lruNext'[x] = None => x = lruTail'
    BY <1>2, SMT DEF ListType, Links, RemoveLru, InLru
  <2>6. lruHead' = None <=> lruTail' = None
    BY SMT DEF ListType, Links, RemoveLru, InLru
  <2> QED BY <2>1, <2>2, <2>3, <2>4, <2>5, <2>6 DEF Links, InLru
<1> QED BY <1>1, <1>2, <1>3

\* Appending a slot that is not on the list puts it there, and no other.
LEMMA AppendIsInsertion ==
  ASSUME ListType, Links, NEW s \in Slots, ~InLru(s), AppendLru(s)
  PROVE  /\ ListType' /\ Links'
         /\ \A x \in Slots : InLru(x)' <=> InLru(x) \/ x = s
<1> USE PoolAssumption DEF Slots, None
<1>1. ListType'
  BY SMT DEF ListType, AppendLru
<1>2. \A x \in Slots : InLru(x)' <=> InLru(x) \/ x = s
  BY SMT DEF ListType, Links, AppendLru, InLru
<1>3. Links'
  <2>1. \A x \in Slots : lruNext'[x] # None => lruPrev'[lruNext'[x]] = x /\ InLru(x)'
    BY <1>2, SMT DEF ListType, Links, AppendLru, InLru
  <2>2. \A x \in Slots : lruPrev'[x] # None => lruNext'[lruPrev'[x]] = x
    BY SMT DEF ListType, Links, AppendLru, InLru
  <2>3. lruHead' # None => lruPrev'[lruHead'] = None
    BY SMT DEF ListType, Links, AppendLru, InLru
  <2>4. lruTail' # None => lruNext'[lruTail'] = None /\ InLru(lruTail)'
    BY <1>2, SMT DEF ListType, Links, AppendLru, InLru
  <2>5. \A x \in Slots : InLru(x)' /\ lruNext'[x] = None => x = lruTail'
    BY <1>2, SMT DEF ListType, Links, AppendLru, InLru
  <2>6. lruHead' = None <=> lruTail' = None
    BY SMT DEF ListType, Links, AppendLru, InLru
  <2> QED BY <2>1, <2>2, <2>3, <2>4, <2>5, <2>6 DEF Links, InLru
<1> QED BY <1>1, <1>2, <1>3

LEMMA SlotsFinite == IsFiniteSet(Slots)
BY PoolAssumption, FS_Interval DEF Slots

LEMMA CountsAreNatural ==
  /\ \A s \in Slots : IsFiniteSet(Holders(s)) /\ Cardinality(Holders(s)) \in Nat
  /\ IsFiniteSet(Used) /\ Cardinality(Used) \in Nat
  /\ IsFiniteSet(Releasers) /\ Cardinality(Releasers) \in Nat
<1>1. \A S \in SUBSET Handles : IsFiniteSet(S) /\ Cardinality(S) \in Nat
  BY PoolAssumption, FS_Subset, FS_CardinalityType
<1>2. \A S \in SUBSET Slots : IsFiniteSet(S) /\ Cardinality(S) \in Nat
  BY SlotsFinite, FS_Subset, FS_CardinalityType
<1> QED BY <1>1, <1>2 DEF Holders, Used, Releasers

HandleType ==
  /\ handlePc \in [Handles -> {"null", "held", "release"}]
  /\ held \in [Handles -> Slots \union {None}]
  /\ asked \in [Handles -> Keys]
  /\ refCount \in [Slots -> Nat]

\* Receiving a reference to s counts one handle more for s, and puts s in use.
LEMMA ReceiveCounts ==
  ASSUME HandleType, HeldInSlots, RefCounts,
         NEW h \in Handles, NEW k \in Keys, NEW s \in Slots,
         NEW others \in [Handles -> Slots \union {None}],
         \A g \in Handles : /\ handlePc[g] = "held" => others[g] = held[g]
                            /\ handlePc[g] = "release" => others[g] \in Slots,
         Receive(h, k, s, others)
  PROVE  /\ HandleType' /\ HeldInSlots' /\ RefCounts'
         /\ Releasers' = Releasers
         /\ Used' = Used \union {s}
<1>1. HandleType' /\ HeldInSlots'
  BY DEF HandleType, HeldInSlots, Receive
<1>2. RefCounts'
  <2> SUFFICES ASSUME NEW x \in Slots
               PROVE  refCount'[x] = Cardinality(Holders(x)') + (IF x = 0 THEN 1 ELSE 0)
    BY DEF RefCounts
  <2>1. CASE x = s
    <3>1. Holders(x)' = Holders(x) \union {h} /\ h \notin Holders(x)
      BY <2>1 DEF Holders, Receive, HandleType
    <3>2. Cardinality(Holders(x)') = Cardinality(Holders(x)) + 1
      BY <3>1, CountsAreNatural, FS_AddElement
    <3>3. refCount'[x] = refCount[x] + 1
      BY <2>1 DEF Receive, HandleType
    <3> QED BY <3>2, <3>3, CountsAreNatural DEF RefCounts
  <2>2. CASE x # s
    <3>1. Holders(x)' = Holders(x)
      BY <2>2 DEF Holders, Receive, HandleType
    <3>2. refCount'[x] = refCount[x]
      BY <2>2 DEF Receive, HandleType
    <3> QED BY <3>1, <3>2 DEF RefCounts
  <2> QED BY <2>1, <2>2
<1>3. Releasers' = Releasers
  BY DEF Releasers, Receive, HandleType
<1>4. Used' = Used \union {s}
  BY DEF Used, Receive, HandleType
<1> QED BY <1>1, <1>2, <1>3, <1>4

\* What the live counter counts grows by one with a sampler that was not in use.
LEMMA LiveGrows ==
  ASSUME SamplerTypeOK, LiveCount, NEW s \in Slots,
         Used' = Used \union {s}, Releasers' = Releasers,
         live' = NewlyLive(s)
  PROVE  LiveCount' /\ live' \in Nat
<1>1. live = Cardinality(Used) + Cardinality(Releasers)
  BY DEF LiveCount, Used, Releasers
<1>2. live' = Cardinality(Used') + Cardinality(Releasers')
  <2>1. CASE refCount[s] = 0
    <3>1. s \notin Used
      BY <2>1 DEF Used
    <3>2. Cardinality(Used') = Cardinality(Used) + 1
      BY <3>1, CountsAreNatural, FS_AddElement
    <3> QED BY <1>1, <2>1, <3>2, CountsAreNatural DEF NewlyLive
  <2>2. CASE refCount[s] # 0
    <3>1. Used' = Used
      BY <2>2 DEF Used, SamplerTypeOK
    <3> QED BY <1>1, <2>2, <3>1 DEF NewlyLive
  <2> QED BY <2>1, <2>2
<1>3. live' \in Nat
  BY DEF SamplerTypeOK, NewlyLive
<1> QED BY <1>2, <1>3 DEF LiveCount, Used, Releasers

\* A slot that a handle refers to is in use, and so is the default sampler's.
LEMMA HeldIsUsed ==
  ASSUME SamplerTypeOK, HeldInSlots, RefCounts
  PROVE  /\ \A h \in Handles : handlePc[h] = "held" => refCount[held[h]] > 0
         /\ refCount[0] > 0
<1>1. ASSUME NEW h \in Handles, handlePc[h] = "held" PROVE refCount[held[h]] > 0
  <2>1. held[h] \in Slots /\ h \in Holders(held[h])
    BY <1>1 DEF HeldInSlots, Holders
  <2>2. Cardinality(Holders(held[h])) # 0
    BY <2>1, CountsAreNatural, FS_EmptySet
  <2> QED BY <2>1, <2>2, CountsAreNatural DEF RefCounts, SamplerTypeOK
<1>2. 0 \in Slots
  BY PoolAssumption DEF Slots
<1>3. refCount[0] > 0
  BY <1>2, CountsAreNatural DEF RefCounts
<1> QED BY <1>1, <1>3

\* What the branches of createSampler and the copy of a reference have in common:
\* slot s is given out, is not on the list afterwards, and has key k, or it is
\* the default sampler's.
LEMMA ReceivePreserves ==
  ASSUME PoolInv,
         NEW h \in Handles, NEW k \in Keys, NEW s \in Slots,
         NEW others \in [Handles -> Slots \union {None}],
         \A g \in Handles : /\ handlePc[g] = "held" => others[g] = held[g]
                            /\ handlePc[g] = "release" =>
                                 others[g] \in Slots /\ (held[g] = others[g] \/ held[g] = s),
         Receive(h, k, s, others),
         ListType', Links', \A x \in Slots : InLru(x)' <=> InLru(x) /\ x # s,
         object' \in [Slots -> Keys \union {NoKey}], lut' \in [Keys -> Slots \union {None}],
         LutMatches',
         \A x \in Slots : object'[x] # object[x] => x = s /\ refCount[s] = 0,
         object'[s] = k \/ s = 0,
         emptied' = emptied \ {s},
         live' = NewlyLive(s)
  PROVE  PoolInv'
<1>1. /\ HandleType' /\ HeldInSlots' /\ RefCounts'
      /\ Releasers' = Releasers /\ Used' = Used \union {s}
  <2>1. HandleType /\ HeldInSlots /\ RefCounts
    BY DEF PoolInv, SamplerTypeOK, HandleType
  <2>2. \A g \in Handles : /\ handlePc[g] = "held" => others[g] = held[g]
                          /\ handlePc[g] = "release" => others[g] \in Slots
    OBVIOUS
  <2> QED BY <2>1, <2>2, ReceiveCounts
<1>2. LiveCount' /\ live' \in Nat
  BY <1>1, LiveGrows DEF PoolInv
<1>3. SamplerTypeOK'
  BY <1>1, <1>2 DEF SamplerTypeOK, HandleType, ListType, PoolInv
<1>4. UsedNotRecycled'
  BY DEF UsedNotRecycled, PoolInv, Receive, SamplerTypeOK
<1>5. HeldHasKey'
  <2> SUFFICES ASSUME NEW g \in Handles, handlePc'[g] = "held"
               PROVE  object'[held'[g]] = asked'[g] \/ held'[g] = 0
    BY DEF HeldHasKey
  <2>1. CASE g = h
    BY <2>1 DEF Receive, PoolInv, SamplerTypeOK
  <2>2. CASE g # h
    <3>1. handlePc[g] = "held" /\ held'[g] = held[g] /\ asked'[g] = asked[g]
      BY <2>2 DEF Receive, PoolInv, SamplerTypeOK
    <3>2. held[g] \in Slots /\ refCount[held[g]] > 0
      BY <3>1, HeldIsUsed DEF PoolInv, HeldInSlots
    <3>3. object'[held[g]] = object[held[g]]
      BY <3>2 DEF PoolInv, SamplerTypeOK
    <3> QED BY <3>1, <3>3 DEF PoolInv, HeldHasKey
  <2> QED BY <2>1, <2>2
<1>6. NoneLost'
  <2> SUFFICES ASSUME NEW x \in Slots \ emptied', refCount'[x] = 0
               PROVE  InLru(x)' \/ \E g \in Handles : handlePc'[g] = "release" /\ held'[g] = x
    BY DEF NoneLost
  <2>1. x # s /\ refCount[x] = 0 /\ x \notin emptied
    BY DEF Receive, PoolInv, SamplerTypeOK
  <2>2. CASE InLru(x)
    BY <2>1, <2>2
  <2>3. CASE ~InLru(x)
    <3>1. PICK g \in Handles : handlePc[g] = "release" /\ held[g] = x
      BY <2>1, <2>3 DEF PoolInv, NoneLost
    <3>2. g # h /\ others[g] = x
      BY <2>1, <3>1 DEF Receive
    <3>3. handlePc'[g] = "release" /\ held'[g] = x
      BY <3>1, <3>2 DEF Receive, PoolInv, SamplerTypeOK
    <3> QED BY <3>3
  <2> QED BY <2>2, <2>3
<1>7. LostUnused'
  BY DEF LostUnused, Receive, PoolInv, SamplerTypeOK
<1> QED BY <1>1, <1>2, <1>3, <1>4, <1>5, <1>6, <1>7 DEF PoolInv

\* The list is the same when nothing of it changes.
LEMMA ListUnchanged ==
  ASSUME UNCHANGED listVars
  PROVE  /\ ListType => ListType'
         /\ Links => Links'
         /\ \A x \in Slots : InLru(x)' <=> InLru(x)
BY DEF listVars, ListType, Links, InLru

LEMMA FindPreserves ==
  ASSUME PoolInv, NEW h \in Handles, NEW k \in Keys, Find(h, k)
  PROVE  PoolInv'
<1> DEFINE s == lut[k]
<1>1. s \in Slots /\ object[s] = k
  BY DEF Find, PoolInv, SamplerTypeOK, LutMatches
<1>2. ListType /\ Links
  BY DEF PoolInv, SamplerTypeOK, ListType
<1>3. ListType' /\ Links' /\ \A x \in Slots : InLru(x)' <=> InLru(x) /\ x # s
  <2>1. CASE refCount[s] = 0
    <3>1. RemoveLru(s)
      BY <2>1 DEF Find
    <3> QED BY <1>1, <1>2, <3>1, RemoveIsRemoval
  <2>2. CASE refCount[s] # 0
    <3>1. ~InLru(s)
      BY <1>1, <2>2 DEF PoolInv, UsedNotRecycled
    <3> QED BY <1>2, <2>2, <3>1, ListUnchanged DEF Find
  <2> QED BY <2>1, <2>2
<1>4. LutMatches' /\ UNCHANGED <<object, lut>>
  BY DEF Find, PoolInv, LutMatches
<1>5. /\ Receive(h, k, s, held) /\ live' = NewlyLive(s)
      /\ held \in [Handles -> Slots \union {None}]
      /\ \A g \in Handles : handlePc[g] = "release" => held[g] \in Slots
  BY DEF Find, PoolInv, SamplerTypeOK, HeldInSlots
<1>6. /\ object' \in [Slots -> Keys \union {NoKey}] /\ lut' \in [Keys -> Slots \union {None}]
      /\ object'[s] = k
  BY <1>1, <1>4 DEF PoolInv, SamplerTypeOK
<1>7. emptied' = emptied \ {s}
  <2>1. s \notin emptied
    BY <1>1, PoolAssumption DEF PoolInv, LostUnused
  <2> QED BY <2>1 DEF Find
<1> HIDE DEF s
<1> QED BY <1>1, <1>3, <1>4, <1>5, <1>6, <1>7, ReceivePreserves

\* A reference to a slot that is in use changes nothing but the counts.
LEMMA SharePreserves ==
  ASSUME PoolInv, NEW h \in Handles, NEW k \in Keys, NEW s \in Slots,
         Receive(h, k, s, held), refCount[s] > 0, object[s] = k \/ s = 0,
         UNCHANGED <<object, lut, emptied, listVars, live>>
  PROVE  PoolInv'
<1>1. ~InLru(s)
  BY DEF PoolInv, UsedNotRecycled
<1>2. ListType /\ Links
  BY DEF PoolInv, SamplerTypeOK, ListType
<1>3. ListType' /\ Links' /\ \A x \in Slots : InLru(x)' <=> InLru(x) /\ x # s
  BY <1>1, <1>2, ListUnchanged
<1>4. LutMatches'
  BY DEF PoolInv, LutMatches
<1>5. live' = NewlyLive(s)
  BY DEF NewlyLive
<1>6. /\ held \in [Handles -> Slots \union {None}]
      /\ \A g \in Handles : handlePc[g] = "release" => held[g] \in Slots
      /\ object' \in [Slots -> Keys \union {NoKey}] /\ lut' \in [Keys -> Slots \union {None}]
      /\ object' = object
  BY DEF PoolInv, SamplerTypeOK, HeldInSlots
<1>7. emptied' = emptied \ {s}
  BY DEF PoolInv, LostUnused
<1> QED BY <1>3, <1>4, <1>5, <1>6, <1>7, ReceivePreserves

LEMMA FallBackPreserves ==
  ASSUME PoolInv, NEW h \in Handles, NEW k \in Keys, FallBack(h, k)
  PROVE  PoolInv'
<1>1. 0 \in Slots /\ refCount[0] > 0
  BY PoolAssumption, HeldIsUsed DEF Slots, PoolInv
<1> QED BY <1>1, SharePreserves DEF FallBack

LEMMA CopyPreserves ==
  ASSUME PoolInv, NEW h \in Handles, NEW g \in Handles, Copy(h, g)
  PROVE  PoolInv'
<1>1. handlePc[g] = "held" /\ Receive(h, asked[g], held[g], held)
  BY DEF Copy
<1>2. held[g] \in Slots /\ asked[g] \in Keys /\ refCount[held[g]] > 0
  BY <1>1, HeldIsUsed DEF PoolInv, SamplerTypeOK, HeldInSlots
<1>3. object[held[g]] = asked[g] \/ held[g] = 0
  BY <1>1 DEF PoolInv, HeldHasKey
<1> QED BY <1>1, <1>2, <1>3, SharePreserves DEF Copy

\* What the construction of a sampler at the head of the list makes of the look-up table,
\* when its old sampler has gone and key k, or none, has taken the slot.
LEMMA HeadForgotten ==
  ASSUME PoolInv, lruHead \in Slots
  PROVE  /\ Forgotten \in [Keys -> Slots \union {None}]
         /\ \A x \in Keys, y \in Slots : Forgotten[x] = y <=> object[y] = x /\ y # lruHead
<1>1. Forgotten \in [Keys -> Slots \union {None}]
  BY DEF Forgotten, PoolInv, SamplerTypeOK
<1>2. ASSUME NEW x \in Keys, NEW y \in Slots
      PROVE  Forgotten[x] = y <=> object[y] = x /\ y # lruHead
  <2>1. y # None
    BY PoolAssumption DEF Slots, None
  <2>2. lut[x] = lruHead <=> object[lruHead] = x
    BY DEF PoolInv, LutMatches
  <2>3. lut[x] = y <=> object[y] = x
    BY DEF PoolInv, LutMatches
  <2> QED BY <2>1, <2>2, <2>3 DEF Forgotten
<1> QED BY <1>1, <1>2

\* The slot at the head of the list is in no use, and only a thread on its way to put
\* it there may take another number for it.
LEMMA HeadIsFree ==
  ASSUME PoolInv, lruHead >= 0
  PROVE  /\ lruHead \in Slots /\ InLru(lruHead) /\ refCount[lruHead] = 0
         /\ \A others \in Raced :
              /\ others \in [Handles -> Slots \union {None}]
              /\ \A g \in Handles :
                   /\ handlePc[g] = "held" => others[g] = held[g]
                   /\ handlePc[g] = "release" =>
                        others[g] \in Slots /\ (held[g] = others[g] \/ held[g] = lruHead)
<1>1. lruHead \in Slots /\ InLru(lruHead) /\ refCount[lruHead] = 0
  BY DEF PoolInv, SamplerTypeOK, None, InLru, UsedNotRecycled
<1>2. 0 \in Slots
  BY PoolAssumption DEF Slots
<1>3. ASSUME NEW others \in Raced
      PROVE  /\ others \in [Handles -> Slots \union {None}]
             /\ \A g \in Handles :
                  /\ handlePc[g] = "held" => others[g] = held[g]
                  /\ handlePc[g] = "release" =>
                       others[g] \in Slots /\ (held[g] = others[g] \/ held[g] = lruHead)
  <2>1. PICK raced \in SUBSET {g \in Handles : RacedBy(g)} :
          others = [g \in Handles |-> IF g \in raced THEN 0 ELSE held[g]]
    BY DEF Raced
  <2> QED BY <1>2, <2>1 DEF RacedBy, PoolInv, SamplerTypeOK, HeldInSlots
<1> QED BY <1>1, <1>3

LEMMA ReplacePreserves ==
  ASSUME PoolInv, NEW h \in Handles, NEW k \in Keys, Replace(h, k)
  PROVE  PoolInv'
<1> DEFINE s == lruHead
<1>1. s \in Slots /\ InLru(s) /\ refCount[s] = 0
  BY HeadIsFree DEF Replace
<1>2. PICK others \in Raced : Receive(h, k, s, others)
  BY DEF Replace
<1>3. /\ others \in [Handles -> Slots \union {None}]
      /\ \A g \in Handles : /\ handlePc[g] = "held" => others[g] = held[g]
                            /\ handlePc[g] = "release" =>
                                 others[g] \in Slots /\ (held[g] = others[g] \/ held[g] = s)
  BY HeadIsFree DEF Replace
<1>4. ListType' /\ Links' /\ \A x \in Slots : InLru(x)' <=> InLru(x) /\ x # s
  <2>1. ListType /\ Links
    BY DEF PoolInv, SamplerTypeOK, ListType
  <2> QED BY <1>1, <2>1, RemoveIsRemoval DEF Replace
<1>5. /\ object' \in [Slots -> Keys \union {NoKey}]
      /\ object'[s] = k
      /\ \A x \in Slots : object'[x] # object[x] => x = s
  BY <1>1 DEF Replace, PoolInv, SamplerTypeOK
<1>6. lut' \in [Keys -> Slots \union {None}] /\ LutMatches'
  <2>1. lut' = [Forgotten EXCEPT ![k] = s]
    BY DEF Replace, Replaced
  <2>2. \A z \in Slots : object[z] # k
    BY PoolAssumption DEF Replace, PoolInv, LutMatches, Slots, None
  <2>3. ASSUME NEW x \in Keys, NEW y \in Slots PROVE lut'[x] = y <=> object'[y] = x
    BY <1>1, <1>5, <2>1, <2>2, HeadForgotten DEF Replace, PoolInv, SamplerTypeOK
  <2> QED BY <1>1, <2>1, <2>3, HeadForgotten DEF LutMatches
<1>7. live' = NewlyLive(s) /\ emptied' = emptied \ {s}
  BY <1>1 DEF Replace, NewlyLive
<1> HIDE DEF s
<1> QED BY <1>1, <1>2, <1>3, <1>4, <1>5, <1>6, <1>7, ReceivePreserves

\* A creation that fails takes the slot from the list, which is in no use then.
LEMMA FailReplacePreserves ==
  ASSUME PoolInv, NEW h \in Handles, NEW k \in Keys, FailReplace(h, k)
  PROVE  PoolInv'
<1> DEFINE s == lruHead
<1>1. s \in Slots /\ InLru(s) /\ refCount[s] = 0
  BY HeadIsFree DEF FailReplace
<1>2. /\ held' \in [Handles -> Slots \union {None}]
      /\ \A g \in Handles : /\ handlePc[g] = "held" => held'[g] = held[g]
                            /\ handlePc[g] = "release" =>
                                 held'[g] \in Slots /\ (held[g] = held'[g] \/ held[g] = s)
  BY HeadIsFree DEF FailReplace
<1>3. ListType' /\ Links' /\ \A x \in Slots : InLru(x)' <=> InLru(x) /\ x # s
  <2>1. ListType /\ Links
    BY DEF PoolInv, SamplerTypeOK, ListType
  <2> QED BY <1>1, <2>1, RemoveIsRemoval DEF FailReplace
<1>4. UNCHANGED <<handlePc, asked, refCount, live>>
  BY DEF FailReplace
<1>5. /\ object' \in [Slots -> Keys \union {NoKey}]
      /\ object' = [object EXCEPT ![s] = NoKey]
      /\ emptied' = emptied \union {s}
      /\ lut' = Forgotten
  BY DEF FailReplace, PoolInv, SamplerTypeOK
<1> HIDE DEF s
<1>6. SamplerTypeOK'
  <2>1. lut' \in [Keys -> Slots \union {None}]
    BY <1>1, <1>5, HeadForgotten DEF s
  <2> QED BY <1>1, <1>2, <1>3, <1>4, <1>5, <2>1 DEF SamplerTypeOK, ListType, PoolInv
<1>7. HeldInSlots'
  BY <1>2, <1>4 DEF HeldInSlots, PoolInv, SamplerTypeOK
<1>8. RefCounts'
  <2>1. \A x \in Slots : Holders(x)' = Holders(x)
    BY <1>2, <1>4 DEF Holders
  <2> QED BY <1>4, <2>1 DEF RefCounts, PoolInv
<1>9. UsedNotRecycled'
  BY <1>3, <1>4 DEF UsedNotRecycled, PoolInv
<1>10. HeldHasKey'
  <2> SUFFICES ASSUME NEW g \in Handles, handlePc[g] = "held"
               PROVE  object'[held[g]] = asked[g] \/ held[g] = 0
    BY <1>2, <1>4 DEF HeldHasKey
  <2>1. held[g] \in Slots /\ held[g] # s
    BY <1>1, HeldIsUsed DEF PoolInv, HeldInSlots
  <2> QED BY <1>5, <2>1 DEF PoolInv, HeldHasKey, SamplerTypeOK
<1>11. LutMatches'
  <2> SUFFICES ASSUME NEW x \in Keys, NEW y \in Slots PROVE lut'[x] = y <=> object'[y] = x
    BY DEF LutMatches
  <2>1. lut'[x] = y <=> object[y] = x /\ y # s
    BY <1>1, <1>5, HeadForgotten DEF s
  <2> QED BY <1>1, <1>5, <2>1, PoolAssumption DEF PoolInv, SamplerTypeOK
<1>12. NoneLost'
  <2> SUFFICES ASSUME NEW x \in Slots \ emptied', refCount'[x] = 0
               PROVE  InLru(x)' \/ \E g \in Handles : handlePc'[g] = "release" /\ held'[g] = x
    BY DEF NoneLost
  <2>1. x # s /\ x \notin emptied /\ refCount[x] = 0
    BY <1>4, <1>5
  <2>2. CASE InLru(x)
    BY <1>3, <2>1, <2>2
  <2>3. CASE ~InLru(x)
    <3>1. PICK g \in Handles : handlePc[g] = "release" /\ held[g] = x
      BY <2>1, <2>3 DEF PoolInv, NoneLost
    <3> QED BY <1>2, <1>4, <2>1, <3>1
  <2> QED BY <2>2, <2>3
<1>13. LostUnused'
  BY <1>1, <1>4, <1>5 DEF LostUnused, PoolInv, SamplerTypeOK
<1>14. LiveCount'
  BY <1>4 DEF LiveCount, PoolInv
<1> QED BY <1>6, <1>7, <1>8, <1>3, <1>9, <1>10, <1>11, <1>12, <1>13, <1>14 DEF PoolInv

\* The last reference to a slot moves its handle from the holders to the releasers.
LEMMA DecRefPreserves ==
  ASSUME PoolInv, NEW h \in Handles, DecRef(h)
  PROVE  PoolInv'
<1> DEFINE s == held[h]
<1>1. s \in Slots /\ handlePc[h] = "held" /\ refCount[s] > 0
  BY HeldIsUsed DEF DecRef, PoolInv, HeldInSlots
<1>2. HandleType' /\ HeldInSlots'
  <2>1. /\ handlePc \in [Handles -> {"null", "held", "release"}]
        /\ held \in [Handles -> Slots \union {None}]
        /\ asked \in [Handles -> Keys]
        /\ refCount \in [Slots -> Nat]
        /\ HeldInSlots
    BY DEF PoolInv, SamplerTypeOK
  <2>2. refCount' \in [Slots -> Nat]
    <3>1. refCount[s] - 1 \in Nat /\ refCount' = [refCount EXCEPT ![s] = @ - 1]
      BY <1>1, <2>1 DEF DecRef
    <3> QED BY <1>1, <2>1, <3>1
  <2>3. asked' \in [Handles -> Keys]
    BY <2>1, PoolAssumption DEF DecRef
  <2>4. CASE refCount[s] = 1
    <3>1. handlePc' = [handlePc EXCEPT ![h] = "release"] /\ held' = held
      BY <2>4 DEF DecRef
    <3> QED BY <1>1, <2>1, <2>2, <2>3, <3>1 DEF HandleType, HeldInSlots
  <2>5. CASE refCount[s] # 1
    <3>1. /\ handlePc' = [handlePc EXCEPT ![h] = "null"]
          /\ held' = [held EXCEPT ![h] = None]
      BY <2>5 DEF DecRef
    <3> QED BY <2>1, <2>2, <2>3, <3>1 DEF HandleType, HeldInSlots
  <2> QED BY <2>4, <2>5
<1>3. /\ ListType' /\ Links'
      /\ \A x \in Slots : InLru(x)' <=> InLru(x)
  BY ListUnchanged DEF DecRef, PoolInv, SamplerTypeOK, ListType
<1>4. RefCounts'
  <2> SUFFICES ASSUME NEW x \in Slots
               PROVE  refCount'[x] = Cardinality(Holders(x)') + (IF x = 0 THEN 1 ELSE 0)
    BY DEF RefCounts
  <2>1. CASE x = s
    <3>1. Holders(x)' = Holders(x) \ {h} /\ h \in Holders(x)
      BY <1>1, <2>1 DEF Holders, DecRef, PoolInv, SamplerTypeOK
    <3>2. Cardinality(Holders(x)') = Cardinality(Holders(x)) - 1
      BY <3>1, CountsAreNatural, FS_RemoveElement
    <3>3. refCount'[x] = refCount[x] - 1
      BY <2>1 DEF DecRef, PoolInv, SamplerTypeOK
    <3>4. refCount[x] = Cardinality(Holders(x)) + (IF x = 0 THEN 1 ELSE 0)
      BY DEF PoolInv, RefCounts
    <3> QED BY <3>2, <3>3, <3>4, CountsAreNatural
  <2>2. CASE x # s
    <3>1. Holders(x)' = Holders(x)
      BY <2>2 DEF Holders, DecRef, PoolInv, SamplerTypeOK
    <3>2. refCount'[x] = refCount[x]
      BY <2>2 DEF DecRef, PoolInv, SamplerTypeOK
    <3> QED BY <3>1, <3>2 DEF PoolInv, RefCounts
  <2> QED BY <2>1, <2>2
<1>5. LiveCount'
  <2>1. CASE refCount[s] = 1
    <3>1. /\ Used' = Used \ {s} /\ s \in Used
          /\ Releasers' = Releasers \union {h} /\ h \notin Releasers
      BY <1>1, <2>1 DEF Used, Releasers, DecRef, PoolInv, SamplerTypeOK
    <3>2. /\ Cardinality(Used') = Cardinality(Used) - 1
          /\ Cardinality(Releasers') = Cardinality(Releasers) + 1
      BY <3>1, CountsAreNatural, FS_AddElement, FS_RemoveElement
    <3>3. live' = live /\ live = Cardinality(Used) + Cardinality(Releasers)
      BY DEF DecRef, PoolInv, LiveCount, Used, Releasers
    <3>4. live' = Cardinality(Used') + Cardinality(Releasers')
      BY <3>2, <3>3, CountsAreNatural
    <3> QED BY <3>4 DEF LiveCount, Used, Releasers
  <2>2. CASE refCount[s] # 1
    <3>1. Used' = Used /\ Releasers' = Releasers /\ live' = live
      BY <1>1, <2>2 DEF Used, Releasers, DecRef, PoolInv, SamplerTypeOK
    <3> QED BY <3>1 DEF PoolInv, LiveCount, Used, Releasers
  <2> QED BY <2>1, <2>2
<1>6. SamplerTypeOK'
  BY <1>2, <1>3 DEF SamplerTypeOK, HandleType, ListType, DecRef, PoolInv
<1>7. UsedNotRecycled' /\ LutMatches'
  <2>1. \A x \in Slots : refCount[x] = 0 => refCount'[x] = 0
    BY <1>1 DEF DecRef, PoolInv, SamplerTypeOK
  <2>2. UNCHANGED <<object, lut>>
    BY DEF DecRef
  <2> QED BY <1>3, <2>1, <2>2 DEF PoolInv, UsedNotRecycled, LutMatches
<1>8. HeldHasKey'
  <2>1. \A g \in Handles : handlePc'[g] = "held" => handlePc[g] = "held" /\ held'[g] = held[g]
    BY DEF DecRef, PoolInv, SamplerTypeOK
  <2>2. object' = object
    BY DEF DecRef
  <2>3. \A g \in Handles : g # h => asked'[g] = asked[g]
    BY DEF DecRef, PoolInv, SamplerTypeOK
  <2>4. handlePc'[h] # "held"
    BY <1>1 DEF DecRef, PoolInv, SamplerTypeOK
  <2> QED BY <2>1, <2>2, <2>3, <2>4 DEF PoolInv, HeldHasKey
<1>9. NoneLost'
  <2> SUFFICES ASSUME NEW x \in Slots \ emptied', refCount'[x] = 0
               PROVE  InLru(x)' \/ \E g \in Handles : handlePc'[g] = "release" /\ held'[g] = x
    BY DEF NoneLost
  <2>1. CASE x = s
    BY <1>1, <2>1 DEF DecRef, PoolInv, SamplerTypeOK
  <2>2. CASE x # s
    <3>1. refCount[x] = 0 /\ x \notin emptied
      BY <2>2 DEF DecRef, PoolInv, SamplerTypeOK
    <3>2. \A g \in Handles : handlePc[g] = "release" => handlePc'[g] = "release" /\ held'[g] = held[g]
      BY <1>1 DEF DecRef, PoolInv, SamplerTypeOK
    <3> QED BY <1>3, <3>1, <3>2 DEF PoolInv, NoneLost
  <2> QED BY <2>1, <2>2
<1>10. LostUnused'
  BY <1>1 DEF DecRef, LostUnused, PoolInv, SamplerTypeOK
<1> QED BY <1>2, <1>4, <1>3, <1>5, <1>6, <1>7, <1>8, <1>9, <1>10 DEF PoolInv

\* A releaser appends its slot if nobody uses it and it is not on the list yet.
LEMMA ReleasePreserves ==
  ASSUME PoolInv, NEW h \in Handles, ReleaseSampler(h)
  PROVE  PoolInv'
<1> DEFINE s == held[h]
<1>1. s \in Slots /\ handlePc[h] = "release"
  BY DEF ReleaseSampler, PoolInv, HeldInSlots
<1>2. HandleType' /\ HeldInSlots'
  BY DEF ReleaseSampler, PoolInv, SamplerTypeOK, HeldInSlots, HandleType
<1>3. /\ ListType' /\ Links'
      /\ \A x \in Slots : InLru(x)' <=> InLru(x) \/ (x = s /\ Unused(s))
  <2>1. ListType /\ Links
    BY DEF PoolInv, SamplerTypeOK, ListType
  <2>2. CASE Unused(s)
    BY <1>1, <2>1, <2>2, AppendIsInsertion DEF ReleaseSampler, Unused
  <2>3. CASE ~Unused(s)
    BY <2>1, <2>3, ListUnchanged DEF ReleaseSampler
  <2> QED BY <2>2, <2>3
<1>4. \A x \in Slots : Holders(x)' = Holders(x)
  BY <1>1 DEF Holders, ReleaseSampler, PoolInv, SamplerTypeOK
<1>5. RefCounts'
  BY <1>4 DEF ReleaseSampler, PoolInv, RefCounts
<1>6. LiveCount' /\ live' \in Nat
  <2>1. /\ Used' = Used /\ Releasers' = Releasers \ {h} /\ h \in Releasers
    BY <1>1 DEF Used, Releasers, ReleaseSampler, PoolInv, SamplerTypeOK
  <2>2. Cardinality(Releasers') = Cardinality(Releasers) - 1 /\ Cardinality(Releasers') \in Nat
    BY <2>1, CountsAreNatural, FS_RemoveElement, FS_CardinalityType
  <2>3. live' = live - 1 /\ live = Cardinality(Used) + Cardinality(Releasers)
    BY DEF ReleaseSampler, StillLive, PoolInv, LiveCount, Used, Releasers
  <2>4. live' = Cardinality(Used') + Cardinality(Releasers') /\ live' \in Nat
    BY <2>1, <2>2, <2>3, CountsAreNatural
  <2> QED BY <2>4 DEF LiveCount, Used, Releasers
<1>7. SamplerTypeOK'
  BY <1>2, <1>3, <1>6 DEF SamplerTypeOK, HandleType, ListType, ReleaseSampler, PoolInv
<1>8. UsedNotRecycled' /\ LutMatches'
  BY <1>3 DEF ReleaseSampler, Unused, PoolInv, UsedNotRecycled, LutMatches
<1>9. HeldHasKey'
  <2>1. \A g \in Handles : handlePc'[g] = "held" => handlePc[g] = "held" /\ held'[g] = held[g]
    BY DEF ReleaseSampler, PoolInv, SamplerTypeOK
  <2> QED BY <2>1 DEF ReleaseSampler, PoolInv, HeldHasKey
<1>10. NoneLost'
  <2> SUFFICES ASSUME NEW x \in Slots \ emptied', refCount'[x] = 0
               PROVE  InLru(x)' \/ \E g \in Handles : handlePc'[g] = "release" /\ held'[g] = x
    BY DEF NoneLost
  <2>1. refCount[x] = 0 /\ x \notin emptied
    BY DEF ReleaseSampler
  <2>2. CASE x = s
    BY <1>3, <2>1, <2>2 DEF Unused
  <2>3. CASE x # s
    <3>1. \A g \in Handles :
            handlePc[g] = "release" /\ held[g] = x => handlePc'[g] = "release" /\ held'[g] = x
      BY <2>3 DEF ReleaseSampler, PoolInv, SamplerTypeOK
    <3> QED BY <1>3, <2>1, <3>1 DEF PoolInv, NoneLost
  <2> QED BY <2>2, <2>3
<1>11. LostUnused'
  BY DEF ReleaseSampler, LostUnused, PoolInv
<1> QED BY <1>2, <1>3, <1>5, <1>6, <1>7, <1>8, <1>9, <1>10, <1>11 DEF PoolInv

LEMMA SamplerPoolInit == SamplerInit => PoolInv
<1> SUFFICES ASSUME SamplerInit PROVE PoolInv
  OBVIOUS
<1> USE PoolAssumption
<1>1. 0 \in Slots
  BY DEF Slots
<1>2. SamplerTypeOK /\ HeldInSlots
  <2>1. /\ handlePc \in [Handles -> {"null", "held", "release"}]
        /\ held \in [Handles -> Slots \union {None}]
        /\ asked \in [Handles -> Keys]
        /\ HeldInSlots
    BY DEF SamplerInit, HeldInSlots
  <2>2. /\ object \in [Slots -> Keys \union {NoKey}]
        /\ refCount \in [Slots -> Nat]
        /\ lut \in [Keys -> Slots \union {None}]
        /\ emptied \subseteq Slots /\ live \in Nat
    BY <1>1 DEF SamplerInit
  <2>3. /\ lruPrev \in [Slots -> Slots \union {None}]
        /\ lruNext \in [Slots -> Slots \union {None}]
        /\ lruHead \in Slots \union {None} /\ lruTail \in Slots \union {None}
    BY DEF SamplerInit, Slots, None
  <2> QED BY <2>1, <2>2, <2>3 DEF SamplerTypeOK
<1>3. RefCounts
  <2>1. \A s \in Slots : Holders(s) = {}
    BY DEF Holders, SamplerInit
  <2>2. Cardinality({}) = 0
    BY FS_EmptySet
  <2>3. \A s \in Slots : Cardinality(Holders(s)) = 0
    BY <2>1, <2>2
  <2>4. \A s \in Slots : refCount[s] = (IF s = 0 THEN 1 ELSE 0)
    BY DEF SamplerInit
  <2>5. ASSUME NEW s \in Slots PROVE refCount[s] = Cardinality(Holders(s)) + (IF s = 0 THEN 1 ELSE 0)
    BY <2>3, <2>4
  <2> QED BY <2>5 DEF RefCounts
<1>4. Links
  <2>1. \A s \in Slots : lruNext[s] # None => lruPrev[lruNext[s]] = s /\ InLru(s)
    BY DEF SamplerInit, InLru, Slots, None
  <2>2. \A s \in Slots : lruPrev[s] # None => lruNext[lruPrev[s]] = s
    BY DEF SamplerInit, Slots, None
  <2>3. /\ lruHead # None => lruPrev[lruHead] = None
        /\ lruTail # None => lruNext[lruTail] = None /\ InLru(lruTail)
        /\ lruHead = None <=> lruTail = None
    BY DEF SamplerInit, InLru, Slots, None
  <2>4. \A s \in Slots : InLru(s) /\ lruNext[s] = None => s = lruTail
    BY DEF SamplerInit, InLru, Slots, None
  <2> QED BY <2>1, <2>2, <2>3, <2>4 DEF Links
<1>5. UsedNotRecycled /\ NoneLost /\ LostUnused
  BY DEF SamplerInit, UsedNotRecycled, NoneLost, LostUnused, InLru, Slots, None
<1>6. HeldHasKey
  BY DEF SamplerInit, HeldHasKey
<1>7. LutMatches
  BY DEF SamplerInit, LutMatches, Slots, None
<1>8. LiveCount
  <2>1. Used = {0} /\ Releasers = {}
    BY <1>1 DEF Used, Releasers, SamplerInit
  <2>2. Cardinality({0}) = 1 /\ Cardinality({}) = 0
    BY FS_Singleton, FS_EmptySet
  <2>3. live = Cardinality(Used) + Cardinality(Releasers)
    BY <2>1, <2>2 DEF SamplerInit
  <2> QED BY <2>3 DEF LiveCount, Used, Releasers
<1> QED BY <1>2, <1>3, <1>4, <1>5, <1>6, <1>7, <1>8 DEF PoolInv

LEMMA SamplerPoolStep == PoolInv /\ [SamplerNext]_samplerVars => PoolInv'
<1> SUFFICES ASSUME PoolInv, [SamplerNext]_samplerVars PROVE PoolInv'
  OBVIOUS
<1>1. ASSUME NEW h \in Handles, NEW k \in Keys, CreateSampler(h, k) PROVE PoolInv'
  BY <1>1, FindPreserves, FallBackPreserves, ReplacePreserves, FailReplacePreserves
     DEF CreateSampler
<1>2. ASSUME NEW h \in Handles, NEW g \in Handles, Copy(h, g) PROVE PoolInv'
  BY <1>2, CopyPreserves
<1>3. ASSUME NEW h \in Handles, DecRef(h) PROVE PoolInv'
  BY <1>3, DecRefPreserves
<1>4. ASSUME NEW h \in Handles, ReleaseSampler(h) PROVE PoolInv'
  BY <1>4, ReleasePreserves
<1>5. CASE UNCHANGED samplerVars
  BY <1>5 DEF samplerVars, handleVars, listVars, PoolInv, SamplerTypeOK, HeldInSlots, RefCounts,
              Holders, Links, InLru, UsedNotRecycled, HeldHasKey, LutMatches, NoneLost, LostUnused,
              LiveCount
<1> QED BY <1>1, <1>2, <1>3, <1>4, <1>5 DEF SamplerNext

LEMMA PoolInvHolds == DeviceSpec => []PoolInv
<1>1. DeviceInit => PoolInv
  BY SamplerPoolInit DEF DeviceInit
<1>2. PoolInv /\ [DeviceNext]_deviceVars => PoolInv'
  BY SamplerPoolStep, ServiceSteps
<1> QED
  BY <1>1, <1>2, PTL DEF DeviceSpec

\* The pool's variables keep their types, and its counters never fall below zero,
\* in every behaviour.
THEOREM SamplerTypesCorrect == DeviceSpec => []SamplerTypeOK
<1>1. PoolInv => SamplerTypeOK
  BY DEF PoolInv
<1> QED
  BY <1>1, PoolInvHolds, PTL

\* createSampler never destroys a sampler that somebody uses, however many threads
\* take and drop references.
THEOREM RecyclingCorrect == DeviceSpec => [](UsedNotRecycled /\ HeldHasKey)
<1>1. PoolInv => UsedNotRecycled /\ HeldHasKey
  BY DEF PoolInv
<1> QED
  BY <1>1, PoolInvHolds, PTL

\* Each unused sampler is on the list or about to be put there, so that the pool never
\* loses a slot to a race, and the look-up table and the live counter agree with the
\* samplers.  A slot whose sampler could not be created may be lost, but it has no key
\* and no user.
THEOREM BooksCorrect == DeviceSpec => []BooksBalance
<1>1. PoolInv => BooksBalance
  BY DEF PoolInv, BooksBalance
<1> QED
  BY <1>1, PoolInvHolds, PTL

-----------------------------------------------------------------------------
(* The submission of command lists *)

(***************************************************************************)
(* Two orders make the device keep the program order.  The calls are made  *)
(* in it, and a batch that must not overtake an earlier one waits for a    *)
(* value that the earlier one, or one that waits for it, signals.  The     *)
(* invariant Inv says, for each kind of batch, which later batch of the    *)
(* other queue holds it up: for sparse bindings and the fence the gate of  *)
(* their submission, for uploads the commands, for commands at a barrier   *)
(* an upload or an empty batch of the transfer queue.  It holds also when  *)
(* a call has failed half way, as nothing is handed over after that.       *)
(***************************************************************************)

\* What a submission carries, and where it stands in the program.
Flags == [sparse : BOOLEAN, sdma : BOOLEAN, syncSdma : BOOLEAN, fence : BOOLEAN,
          wsi : BOOLEAN, last : BOOLEAN]

\* The submission that a call belongs to, and its place in the program.
SubTypes ==
  /\ dedicated \in BOOLEAN /\ fence \in BOOLEAN /\ failed \in BOOLEAN
  /\ timelines \in [Lists!Semaphores -> Nat] /\ semaphore \in [Lists!Semaphores -> Nat]
  /\ list \in 1..(MaxLists + 1) /\ index \in 0..(MaxSubmissions - 1)
  /\ issued \in Seq([list : 1..MaxLists, index : 1..MaxSubmissions, flags : Flags])
  /\ finish \in Seq([Lists!Semaphores -> Nat]) /\ Len(finish) + 1 = list
  /\ retired \in 0..Len(finish)
  /\ \A w \in carried : w = <<"graphics", timelines["graphics"]>> \/ failed
  /\ carried \subseteq {"graphics"} \X Nat

\* All batches but the one that only stalls the transfer queue signal a value.
Signals(b) == b.signal # Lists!NoSignal

BatchFields(b) ==
  /\ b.queue \in Lists!Queues
  /\ b.waits \subseteq {"graphics", "transfer", "fence"} \X Nat
  /\ b.signal \in (Lists!Semaphores \X Nat) \union {Lists!NoSignal}
  /\ b.queue = "sparse" => b.signal[1] = "graphics"
  /\ b.queue = "transfer" => dedicated /\ b.signal[1] # "graphics"
  /\ b.queue = "graphics" => b.signal[1] # "transfer"
\* No two batches are of the same call.
BatchTypes ==
  \A b \in batches :
    /\ b.call \in 1..(Lists!Calls * Len(issued)) /\ BatchFields(b)
    /\ \A d \in batches : b.call = d.call => b = d

\* Values are signaled in the order of the calls, and none is reached before its batch.
SignalsInv ==
  \A b \in batches : Signals(b) =>
    /\ semaphore[b.signal[1]] < b.signal[2] /\ b.signal[2] <= timelines[b.signal[1]]
    /\ \A d \in batches : d.signal[1] = b.signal[1] /\ b.call < d.call => b.signal[2] < d.signal[2]

\* What a batch waits for is reached or to be signaled by an earlier call.
WaitsInv ==
  /\ \A b \in batches : \A w \in b.waits :
       \/ w = <<"fence", 1>>
       \/ w[1] \in Lists!Semaphores /\ w[2] <= semaphore[w[1]]
       \/ w[1] \in Lists!Semaphores /\ \E d \in batches : d.signal = w /\ d.call < b.call
  /\ \A s \in Lists!Semaphores : semaphore[s] <= timelines[s]
  /\ ~failed => \A s \in Lists!Semaphores :
       timelines[s] = semaphore[s] \/ \E d \in batches : d.signal = <<s, timelines[s]>>

\* Batch t waits for the value that b signals, or a later one.
Holds(b, t) == \E w \in t.waits : w[1] = b.signal[1] /\ w[2] >= b.signal[2]
\* The queue that a submission's waits are on.
Gate == IF dedicated THEN "transfer" ELSE "graphics"
\* On queue q there is a batch that waits for b: in front of d, or at all.
Covered(b, q, d) == \E t \in batches : t.queue = q /\ t.call <= d.call /\ Holds(b, t)
Kept(b, q) == \E t \in batches : t.queue = q /\ Holds(b, t)

\* Sparse bindings wait for everything before them.
SparseInv ==
  \A b \in batches, d \in batches :
    d.queue = "sparse" /\ b.call < d.call /\ Signals(b) => Holds(b, d)

\* ... and everything after them for them.
Gates(b, t) == t.queue = Gate /\ Signals(t) /\ Holds(b, t)
SparseStalls ==
  \A b \in batches : b.queue = "sparse" =>
    /\ ~failed => \E t \in batches : Gates(b, t)
    /\ \A d \in batches : d.queue # "sparse" /\ b.call < d.call =>
         \E t \in batches : Gates(b, t) /\ t.call <= d.call

\* The commands after an upload wait for it.
UploadStalls ==
  \A b \in batches : b.queue = "transfer" /\ Signals(b) =>
    /\ ~failed => Kept(b, "graphics")
    /\ \A d \in batches : d.queue = "graphics" /\ b.call < d.call => Covered(b, "graphics", d)

\* At a barrier the transfer queue waits for all commands before it: a batch that does
\* is there, or the next one is going to.
Barriers == {n \in DOMAIN issued : issued[n].flags.syncSdma}
BarrierStalls ==
  dedicated => \A b \in batches : b.queue = "graphics" /\ Signals(b) =>
    \A n \in Barriers : b.call <= Lists!Calls * n =>
      /\ ~failed => Kept(b, "transfer") \/ \E w \in carried : w[2] >= b.signal[2]
      /\ \A d \in batches : d.queue = "transfer" /\ Lists!Calls * n < d.call
           => Covered(b, "transfer", d)

\* After the fence of a submission nothing is executed but its sparse bindings, which
\* the code has not wait for it.
Fences == {n \in DOMAIN issued : issued[n].flags.fence}
FenceGate(t) == t.queue = Gate /\ Signals(t) /\ <<"fence", 1>> \in t.waits
FenceStalls ==
  ~fence => \A n \in Fences :
    /\ ~failed => \E t \in batches : FenceGate(t)
    /\ \A d \in batches : d.call > Lists!Calls * (n - 1) + 1 =>
         \E t \in batches : FenceGate(t) /\ t.call <= d.call

\* Submissions are handed over in the order of the program, and only the first of a list
\* has a fence.
Before(x, y) == x.list < y.list \/ (x.list = y.list /\ x.index < y.index)
IssuedInv ==
  /\ \A m, n \in DOMAIN issued : m < n => Before(issued[m], issued[n])
  /\ \A n \in DOMAIN issued :
       /\ \/ issued[n].list < list
          \/ issued[n].list = list /\ (issued[n].index <= index \/ failed)
       /\ issued[n].flags.fence => issued[n].index = 1

\* The work of a batch is of one submission, and the calls tell which.
Stage(b) == IF b.queue = "sparse" THEN 1 ELSE IF b.queue = "transfer" THEN 2 ELSE 3
WorkInv ==
  \A b \in batches : \A x \in b.work :
    \E n \in DOMAIN issued :
      /\ x \in Lists!WorkOf(issued[n])
      /\ b.call = Lists!Calls * (n - 1) + Stage(b)
      /\ Signals(b)
      /\ x[3] = "sparse" <=> b.queue = "sparse"
      /\ b.queue = "transfer" => x[3] = "sdma"
      /\ b.queue = "graphics" /\ x[3] = "sdma" => ~dedicated

\* Work handed over is executed, or left in a batch, or was given up by a failed call
\* and then comes after all other work.
AllDone ==
  /\ done \subseteq Lists!AllWork
  /\ \A x \in Lists!AllWork :
       \/ x \in done
       \/ \E b \in batches : x \in b.work
       \/ /\ failed /\ x[1] = list
          /\ \A y \in done : ~Lists!Earlier(x, y)
          /\ \A b \in batches : \A y \in b.work : ~Lists!Earlier(x, y)

\* The values that the queue thread waits for cover all work of a list.
FinishInv ==
  \A b \in batches : \A x \in b.work :
    x[1] <= Len(finish) => b.signal[2] <= finish[x[1]][b.signal[1]]

Inv ==
  /\ SubTypes /\ BatchTypes /\ SignalsInv /\ WaitsInv /\ SparseInv /\ SparseStalls
  /\ UploadStalls /\ BarrierStalls /\ FenceStalls /\ IssuedInv /\ WorkInv /\ AllDone /\ FinishInv

-----------------------------------------------------------------------------
(* Batches that wait *)

\* A set of naturals that is not empty has a least member.
LEMMA NatMin ==
  ASSUME NEW T \in SUBSET Nat, T # {}
  PROVE  \E x \in T : \A y \in T : x <= y
<1> DEFINE R == OpToRel(<, Nat)
<1>1. IsWellFoundedOn(R, Nat)
  BY NatLessThanWellFounded, Zenon
<1>2. \A x \in Nat, y \in Nat : ~(<<y, x>> \in R) => x <= y
  BY DEF OpToRel
<1> HIDE DEF R
<1>3. \E x \in T : \A y \in T : ~(<<y, x>> \in R)
  BY <1>1, WFMin
<1> QED
  BY <1>2, <1>3

\* What the constants are.
LEMMA SubmissionConstants == Lists!SubmissionAssumption
  BY DeviceAssumption DEF DeviceAssumption

\* The initial state satisfies the invariant.
LEMMA SubInit ==
  ASSUME Lists!Init
  PROVE  Inv
<1> USE SubmissionConstants DEF Lists!Init, Lists!SubmissionAssumption, Lists!Semaphores
<1>1. SubTypes
  <2>1. /\ timelines \in [Lists!Semaphores -> Nat] /\ semaphore \in [Lists!Semaphores -> Nat]
        /\ 1 \in 1..(MaxLists + 1) /\ 0 \in 0..(MaxSubmissions - 1) /\ dedicated \in BOOLEAN
    OBVIOUS
  <2>2. /\ carried \subseteq {"graphics"} \X Nat /\ \A w \in carried : FALSE
        /\ fence \in BOOLEAN /\ failed \in BOOLEAN
    OBVIOUS
  <2>3. /\ issued \in Seq([list : 1..MaxLists, index : 1..MaxSubmissions, flags : Flags])
        /\ finish \in Seq([Lists!Semaphores -> Nat]) /\ Len(finish) = 0
    BY EmptySeq
  <2>4. list \in 1..(MaxLists + 1) /\ index \in 0..(MaxSubmissions - 1)
        /\ Len(finish) + 1 = list /\ retired \in 0..Len(finish)
    BY <2>1, <2>3
  <2> HIDE DEF Lists!Init, Lists!Semaphores
  <2> QED
    BY <2>1, <2>2, <2>3, <2>4 DEF SubTypes
<1>2. BatchTypes /\ SignalsInv /\ SparseInv /\ SparseStalls /\ UploadStalls /\ BarrierStalls
        /\ WorkInv /\ FinishInv
  BY DEF BatchTypes, BatchFields, SignalsInv, SparseInv, SparseStalls, UploadStalls, BarrierStalls,
     WorkInv, FinishInv
<1>3. WaitsInv
  BY DEF WaitsInv
<1>4. FenceStalls
  BY DEF FenceStalls, Fences
<1>5. IssuedInv
  BY DEF IssuedInv
<1>6. AllDone
  BY DEF AllDone, Lists!AllWork
<1> QED
  BY <1>1, <1>2, <1>3, <1>4, <1>5, <1>6 DEF Inv

\* What is known of a batch that waits.
LEMMA BatchType ==
  ASSUME SubTypes, BatchTypes, SignalsInv, NEW b \in batches
  PROVE  /\ b.call \in Nat /\ b.call <= Lists!Calls * Len(issued) /\ b.call >= 1
         /\ b.queue \in {"graphics", "transfer", "sparse"}
         /\ Signals(b) => /\ b.signal[1] \in {"graphics", "transfer"} /\ b.signal[2] \in Nat
                          /\ b.signal = <<b.signal[1], b.signal[2]>>
                          /\ semaphore[b.signal[1]] < b.signal[2]
                          /\ b.signal[2] <= timelines[b.signal[1]]
                          /\ semaphore[b.signal[1]] \in Nat
         /\ \A w \in b.waits : w = <<w[1], w[2]>> /\ w[2] \in Nat
                               /\ w[1] \in {"graphics", "transfer", "fence"}
<1>1. Lists!Calls * Len(issued) \in Nat /\ semaphore["graphics"] \in Nat
        /\ semaphore["transfer"] \in Nat
  BY LenProperties DEF SubTypes, Lists!Calls, Lists!Semaphores
<1>2. /\ b.call \in 1..(Lists!Calls * Len(issued)) /\ b.queue \in {"graphics", "transfer", "sparse"}
      /\ b.waits \subseteq {"graphics", "transfer", "fence"} \X Nat
      /\ b.signal \in ({"graphics", "transfer"} \X Nat) \union {Lists!NoSignal}
  BY DEF BatchTypes, BatchFields, Lists!Queues, Lists!Semaphores
<1>3. Signals(b) => b.signal \in {"graphics", "transfer"} \X Nat
  BY <1>2 DEF Signals
<1>4. Signals(b) => /\ semaphore[b.signal[1]] < b.signal[2]
                    /\ b.signal[2] <= timelines[b.signal[1]]
  BY DEF SignalsInv
<1> QED
  BY <1>1, <1>2, <1>3, <1>4

\* A batch is not ready while one that holds it is not executed.
LEMMA HeldBack ==
  ASSUME SubTypes, BatchTypes, SignalsInv, NEW b \in batches, NEW t \in batches, Signals(b),
         Holds(b, t)
  PROVE  ~Lists!Ready(t)
<1>1. PICK w \in t.waits : w[1] = b.signal[1] /\ w[2] >= b.signal[2]
  BY DEF Holds
<1>2. w[1] # "fence" /\ semaphore[w[1]] \in Nat /\ w[2] \in Nat /\ b.signal[2] \in Nat
      /\ semaphore[w[1]] < b.signal[2]
  BY <1>1, BatchType
<1>3. ~(semaphore[w[1]] >= w[2])
  BY <1>1, <1>2
<1> QED
  BY <1>1, <1>2, <1>3 DEF Lists!Ready, Lists!Met

\* Nor while one that covers it on its own queue is not.
LEMMA CoveredNotReady ==
  ASSUME SubTypes, BatchTypes, SignalsInv, NEW b \in batches, NEW d \in batches, Signals(b),
         Covered(b, d.queue, d)
  PROVE  ~Lists!Ready(d)
<1>1. PICK t \in batches : t.queue = d.queue /\ t.call <= d.call /\ Holds(b, t)
  BY DEF Covered
<1>2. ASSUME Lists!Ready(d) PROVE FALSE
  <2>1. d.call <= t.call
    BY <1>1, <1>2 DEF Lists!Ready, Lists!First
  <2>2. d.call = t.call
    BY <1>1, <2>1, BatchType
  <2>3. d = t
    BY <2>2 DEF BatchTypes, BatchFields
  <2> QED
    BY <1>1, <1>2, <2>3, HeldBack
<1> QED
  BY <1>2

\* The device never has an earlier batch left when it takes a sparse one, or a sparse or
\* transfer one when it takes one for graphics.
LEMMA StalledByEarlier ==
  ASSUME SubTypes, BatchTypes, SignalsInv, SparseInv, SparseStalls, UploadStalls,
         NEW b \in batches, NEW e \in batches, b.call < e.call, Signals(b), Lists!Ready(e)
  PROVE  b.queue = "graphics" /\ e.queue = "transfer"
<1>1. e.queue # "sparse"
  BY HeldBack DEF SparseInv
<1>2. b.queue # e.queue
  <2>1. ~(e.call <= b.call)
    BY BatchType
  <2> QED
    BY <2>1 DEF Lists!Ready, Lists!First
<1>3. ASSUME b.queue = "transfer", e.queue = "graphics" PROVE FALSE
  BY <1>3, CoveredNotReady DEF UploadStalls
<1>4. ASSUME b.queue = "sparse" PROVE FALSE
  <2>1. PICK t \in batches : t.queue = Gate /\ Signals(t) /\ t.call <= e.call /\ Holds(b, t)
    BY <1>1, <1>4 DEF SparseStalls, Gates
  <2>2. e.queue = Gate => FALSE
    BY <2>1, CoveredNotReady DEF Covered
  <2>3. t.queue = "transfer" /\ e.queue = "graphics" /\ Signals(t)
    <3>1. t.queue \in {"transfer", "graphics"} /\ e.queue \in {"transfer", "graphics"}
      BY <1>1, <2>1, BatchType DEF Gate
    <3>2. e.queue = "transfer" => dedicated
      BY DEF BatchTypes, BatchFields
    <3>3. dedicated
      BY <2>2, <3>1, <3>2 DEF Gate
    <3> QED
      BY <2>1, <2>2, <3>1, <3>3 DEF Gate
  <2>4. t.call < e.call
    <3>1. t.call # e.call
      BY <2>3 DEF BatchTypes, BatchFields
    <3> QED
      BY <2>1, <3>1, BatchType
  <2> QED
    BY <2>3, <2>4, CoveredNotReady DEF UploadStalls
<1> QED
  BY <1>1, <1>2, <1>3, <1>4, BatchType

-----------------------------------------------------------------------------
(* The device executes a batch *)

\* What the execution of a batch changes.
LEMMA Executed ==
  ASSUME Inv, NEW e \in batches, Lists!Execute(e)
  PROVE  /\ Lists!Ready(e) /\ batches' = batches \ {e} /\ done' = done \union e.work
         /\ UNCHANGED <<dedicated, timelines, carried, list, index, issued, finish, failed, fence,
              retired>>
         /\ semaphore' \in [Lists!Semaphores -> Nat]
         /\ \A s \in Lists!Semaphores : semaphore'[s] = (IF e.signal[1] = s THEN e.signal[2]
              ELSE semaphore[s])
         /\ \A s \in Lists!Semaphores : semaphore[s] <= semaphore'[s]
              /\ semaphore'[s] <= timelines[s]
         /\ \A b \in batches' : Signals(b) => semaphore'[b.signal[1]] < b.signal[2]
         /\ \A b \in batches', t \in batches : Signals(b) /\ Holds(b, t) => t \in batches'
<1> USE DEF Inv
<1>1. /\ Lists!Ready(e) /\ batches' = batches \ {e} /\ done' = done \union e.work
      /\ UNCHANGED <<dedicated, timelines, carried, list, index, issued, finish, failed, fence,
           retired>>
      /\ semaphore' = [s \in Lists!Semaphores |-> IF e.signal[1] = s THEN e.signal[2]
           ELSE semaphore[s]]
  BY DEF Lists!Execute, Lists!submitVars
<1>2. \A s \in Lists!Semaphores : s \in {"graphics", "transfer"} /\ semaphore[s] \in Nat
        /\ timelines[s] \in Nat
                            /\ semaphore[s] <= timelines[s]
  BY DEF SubTypes, WaitsInv, Lists!Semaphores
<1>3. \A s \in Lists!Semaphores : e.signal[1] = s =>
        e.signal[2] \in Nat /\ semaphore[s] < e.signal[2] /\ e.signal[2] <= timelines[s]
  <2>1. \A s \in Lists!Semaphores : e.signal[1] = s => Signals(e)
    BY <1>2 DEF Signals, Lists!NoSignal
  <2> QED
    BY <2>1, BatchType
<1>4. \A s \in Lists!Semaphores : semaphore'[s] = (IF e.signal[1] = s THEN e.signal[2]
        ELSE semaphore[s])
  BY <1>1
<1>5. semaphore' \in [Lists!Semaphores -> Nat]
  BY <1>1, <1>2, <1>3
<1>6. \A s \in Lists!Semaphores : semaphore[s] <= semaphore'[s] /\ semaphore'[s] <= timelines[s]
  BY <1>2, <1>3, <1>4
<1>7. ASSUME NEW b \in batches', Signals(b)
      PROVE  semaphore'[b.signal[1]] < b.signal[2]
  <2>1. b \in batches /\ b # e /\ b.call # e.call /\ b.call \in Nat /\ e.call \in Nat
    BY <1>1, BatchType DEF BatchTypes, BatchFields
  <2>2. b.signal[1] \in Lists!Semaphores /\ semaphore[b.signal[1]] < b.signal[2]
    BY <1>7, <2>1, BatchType DEF Lists!Semaphores
  <2>3. CASE e.signal[1] = b.signal[1]
    <3>1. CASE e.call < b.call
      <4>1. Signals(e)
        BY <2>2, <2>3 DEF Signals, Lists!NoSignal, Lists!Semaphores
      <4>2. e.signal[2] < b.signal[2]
        BY <2>1, <2>3, <3>1, <4>1 DEF SignalsInv
      <4> QED
        BY <1>4, <2>2, <2>3, <4>2
    <3>2. CASE b.call < e.call
      <4>1. b.queue = "graphics" /\ e.queue = "transfer"
        BY <1>1, <1>7, <2>1, <3>2, StalledByEarlier
      <4>2. e.signal[1] # "graphics" /\ b.signal[1] # "transfer"
        BY <2>1, <4>1 DEF BatchTypes, BatchFields
      <4> QED
        BY <2>2, <2>3, <4>2 DEF Lists!Semaphores
    <3> QED
      BY <2>1, <3>1, <3>2
  <2>4. CASE e.signal[1] # b.signal[1]
    BY <1>4, <2>2, <2>4
  <2> QED
    BY <2>3, <2>4
<1>8. \A b \in batches', t \in batches : Signals(b) /\ Holds(b, t) => t \in batches'
  BY <1>1, HeldBack
<1> QED
  BY <1>1, <1>4, <1>5, <1>6, <1>7, <1>8

\* The execution of a batch keeps the invariant: a batch that another one holds up is
\* executed before it, so none is left without what stalls those after it.
LEMMA ExecuteInv ==
  ASSUME Inv, NEW e \in batches, Lists!Execute(e)
  PROVE  Inv'
<1>1. /\ Lists!Ready(e) /\ batches' = batches \ {e} /\ done' = done \union e.work
      /\ UNCHANGED <<dedicated, timelines, carried, list, index, issued, finish, failed, fence,
           retired>>
  BY Executed
<1>2. \A s \in Lists!Semaphores : semaphore'[s] = (IF e.signal[1] = s THEN e.signal[2]
        ELSE semaphore[s])
  BY Executed
<1>3. semaphore' \in [Lists!Semaphores -> Nat]
  BY Executed
<1>4. \A s \in Lists!Semaphores : semaphore[s] <= semaphore'[s] /\ semaphore'[s] <= timelines[s]
                            /\ semaphore[s] \in Nat /\ semaphore'[s] \in Nat /\ timelines[s] \in Nat
  <2>1. \A s \in Lists!Semaphores : semaphore[s] \in Nat /\ timelines[s] \in Nat
    BY DEF Inv, SubTypes
  <2> QED
    BY <2>1, <1>3, Executed
<1>5. \A b \in batches' : Signals(b) => semaphore'[b.signal[1]] < b.signal[2]
  BY Executed
<1>6. \A b \in batches', t \in batches : Signals(b) /\ Holds(b, t) => t \in batches'
  BY Executed
<1>7. batches' \subseteq batches
  BY <1>1
<1>8. SubTypes' /\ IssuedInv'
  <2>1. SubTypes /\ IssuedInv
    BY DEF Inv
  <2>2. SubTypes'
    BY <1>1, <1>3, <2>1 DEF SubTypes
  <2>3. IssuedInv'
    BY <1>1, <2>1 DEF IssuedInv
  <2> QED
    BY <2>2, <2>3
<1>9. BatchTypes'
  BY <1>1, <1>7 DEF Inv, BatchTypes, BatchFields
<1>10. SignalsInv'
  <2>1. SignalsInv
    BY DEF Inv
  <2> QED
    BY <1>1, <1>5, <1>7, <2>1 DEF SignalsInv, Signals
<1>11. WaitsInv'
  <2>1. WaitsInv
    BY DEF Inv
  <2>2. ASSUME NEW b \in batches', NEW w \in b.waits
        PROVE  \/ w = <<"fence", 1>>
               \/ w[1] \in Lists!Semaphores /\ w[2] <= semaphore'[w[1]]
               \/ w[1] \in Lists!Semaphores /\ \E d \in batches' : d.signal = w /\ d.call < b.call
    <3>1. w[2] \in Nat
      BY <1>7, BatchType DEF Inv
    <3>2. CASE w = <<"fence", 1>>
      BY <3>2
    <3>3. CASE w[1] \in Lists!Semaphores /\ w[2] <= semaphore[w[1]]
      BY <1>4, <3>1, <3>3
    <3>4. CASE w[1] \in Lists!Semaphores /\ \E d \in batches : d.signal = w /\ d.call < b.call
      <4>1. PICK d \in batches : d.signal = w /\ d.call < b.call
        BY <3>4
      <4>2. CASE d = e
        <5>1. semaphore'[w[1]] = w[2]
          BY <1>2, <3>4, <4>1, <4>2
        <5> QED
          BY <3>1, <3>4, <5>1
      <4> QED
        BY <1>1, <3>4, <4>1, <4>2
    <3> QED
      BY <1>7, <2>1, <3>2, <3>3, <3>4 DEF WaitsInv
  <2>3. ASSUME ~failed, NEW s \in Lists!Semaphores
        PROVE  timelines[s] = semaphore'[s] \/ \E d \in batches' : d.signal = <<s, timelines[s]>>
    <3>1. CASE timelines[s] = semaphore[s]
      BY <1>4, <3>1
    <3>2. CASE \E d \in batches : d.signal = <<s, timelines[s]>>
      <4>1. PICK d \in batches : d.signal = <<s, timelines[s]>>
        BY <3>2
      <4>2. CASE d = e
        BY <1>2, <4>1, <4>2
      <4> QED
        BY <1>1, <4>1, <4>2
    <3> QED
      BY <2>1, <2>3, <3>1, <3>2 DEF WaitsInv
  <2> QED
    BY <1>1, <1>4, <2>2, <2>3 DEF WaitsInv
<1>12. SparseInv'
  BY <1>7 DEF Inv, SparseInv, Signals, Holds
<1>13. SparseStalls'
  <2>1. SparseStalls /\ BatchTypes
    BY DEF Inv
  <2>2. \A b \in batches', t \in batches : b.queue = "sparse" /\ Gates(b, t)
          => t \in batches' /\ Gates(b, t)'
    <3>1. \A b \in batches : b.queue = "sparse" => Signals(b)
      BY <2>1 DEF BatchTypes, BatchFields, Signals, Lists!NoSignal
    <3> QED
      BY <1>1, <1>6, <1>7, <3>1 DEF Gates, Gate, Signals, Holds
  <2> QED
    BY <1>1, <1>7, <2>1, <2>2 DEF SparseStalls
<1>14. UploadStalls'
  <2>1. UploadStalls
    BY DEF Inv
  <2>2. \A b \in batches', d \in batches' :
          Signals(b) /\ Covered(b, "graphics", d) => Covered(b, "graphics", d)'
    BY <1>6 DEF Covered, Holds
  <2>3. \A b \in batches' : Signals(b) /\ Kept(b, "graphics") => Kept(b, "graphics")'
    BY <1>6 DEF Kept, Holds
  <2> QED
    BY <1>1, <1>7, <2>1, <2>2, <2>3 DEF UploadStalls, Signals
<1>15. BarrierStalls'
  <2>1. BarrierStalls
    BY DEF Inv
  <2>2. \A b \in batches', d \in batches' :
          Signals(b) /\ Covered(b, "transfer", d) => Covered(b, "transfer", d)'
    BY <1>6 DEF Covered, Holds
  <2>3. \A b \in batches' : Signals(b) /\ Kept(b, "transfer") => Kept(b, "transfer")'
    BY <1>6 DEF Kept, Holds
  <2> QED
    BY <1>1, <1>7, <2>1, <2>2, <2>3 DEF BarrierStalls, Signals, Barriers
<1>16. FenceStalls'
  <2>1. FenceStalls
    BY DEF Inv
  <2>2. \A t \in batches : ~fence /\ FenceGate(t) => t \in batches' /\ FenceGate(t)'
    <3>1. \A w \in e.waits : Lists!Met(w)
      BY <1>1 DEF Lists!Ready
    <3>2. Lists!Met(<<"fence", 1>>) = fence
      BY DEF Lists!Met
    <3> QED
      BY <1>1, <3>1, <3>2 DEF FenceGate, Gate, Signals
  <2> QED
    BY <1>1, <1>7, <2>1, <2>2 DEF FenceStalls, Fences
<1>17. WorkInv' /\ FinishInv'
  BY <1>1, <1>7 DEF Inv, WorkInv, FinishInv, Signals, Stage, Lists!WorkOf
<1>18. AllDone'
  <2>1. AllDone /\ WorkInv
    BY DEF Inv
  <2>2. Lists!AllWork' = Lists!AllWork
    BY <1>1 DEF Lists!AllWork, Lists!WorkOf
  <2>3. e.work \subseteq Lists!AllWork
    BY <2>1 DEF WorkInv, Lists!AllWork
  <2>4. \A x, y : Lists!Earlier(x, y)' <=> Lists!Earlier(x, y)
    BY DEF Lists!Earlier, Lists!Order
  <2> QED
    BY <1>1, <1>7, <2>1, <2>2, <2>3, <2>4 DEF AllDone
<1> QED
  BY <1>8, <1>9, <1>10, <1>11, <1>12, <1>13, <1>14, <1>15, <1>16, <1>17, <1>18 DEF Inv

\* Where the work of a batch stands in the program, in terms of calls.
LEMMA PlaceOfWork ==
  ASSUME Inv, NEW b \in batches, NEW x \in b.work
  PROVE  \E n \in DOMAIN issued :
           /\ n \in Nat /\ n >= 1 /\ x \in Lists!WorkOf(issued[n])
           /\ x[1] = issued[n].list /\ x[2] = issued[n].index
           /\ b.call = Lists!Calls * (n - 1) + Stage(b)
           /\ Lists!Calls * (n - 1) < b.call /\ b.call < Lists!Calls * n
           /\ x[3] \in {"sparse", "sdma", "exec", "signal"}
           /\ x[3] = "sparse" <=> b.queue = "sparse"
           /\ b.queue = "transfer" => x[3] = "sdma"
           /\ b.queue = "graphics" /\ x[3] = "sdma" => ~dedicated
           /\ Signals(b)
<1>1. PICK n \in DOMAIN issued :
        /\ x \in Lists!WorkOf(issued[n]) /\ b.call = Lists!Calls * (n - 1) + Stage(b) /\ Signals(b)
        /\ x[3] = "sparse" <=> b.queue = "sparse"
        /\ b.queue = "transfer" => x[3] = "sdma"
        /\ b.queue = "graphics" /\ x[3] = "sdma" => ~dedicated
  BY DEF Inv, WorkInv
<1>2. n \in Nat /\ n >= 1
  BY LenProperties DEF Inv, SubTypes
<1>3. /\ x[1] = issued[n].list /\ x[2] = issued[n].index
      /\ x[3] \in {"sparse", "sdma", "exec", "signal"}
  BY <1>1 DEF Lists!WorkOf
<1>4. Lists!Calls * (n - 1) < b.call /\ b.call < Lists!Calls * n
  BY <1>1, <1>2 DEF Lists!Calls, Stage
<1> QED
  BY <1>1, <1>2, <1>3, <1>4

\* Submissions are numbered in the order of the program.
LEMMA EarlierSubmission ==
  ASSUME Inv, NEW m \in DOMAIN issued, NEW n \in DOMAIN issued
  PROVE  /\ m \in Nat /\ n \in Nat
         /\ issued[m].list \in Nat /\ issued[n].list \in Nat
         /\ issued[m].index \in Nat /\ issued[n].index \in Nat /\ issued[n].index >= 1
         /\ Before(issued[m], issued[n]) <=> m < n
         /\ issued[m].list = issued[n].list /\ issued[m].index = issued[n].index => m = n
<1>1. m \in Nat /\ n \in Nat
  <2>1. issued \in Seq([list : 1..MaxLists, index : 1..MaxSubmissions, flags : Flags])
    BY DEF Inv, SubTypes
  <2>2. Len(issued) \in Nat /\ DOMAIN issued = 1..Len(issued)
    BY <2>1, LenProperties
  <2> QED
    BY <2>2
<1>2. /\ issued[m].list \in Nat /\ issued[n].list \in Nat
      /\ issued[m].index \in Nat /\ issued[n].index \in Nat /\ issued[n].index >= 1
  <2>1. /\ issued[m] \in [list : 1..MaxLists, index : 1..MaxSubmissions, flags : Flags]
        /\ issued[n] \in [list : 1..MaxLists, index : 1..MaxSubmissions, flags : Flags]
    BY ElementOfSeq, LenProperties DEF Inv, SubTypes
  <2> QED
    BY <2>1
<1>3. /\ m < n => Before(issued[m], issued[n])
      /\ n < m => Before(issued[n], issued[m])
  BY DEF Inv, IssuedInv
<1>4. ~(Before(issued[n], issued[m]) /\ Before(issued[m], issued[n]))
        /\ ~Before(issued[n], issued[n])
  BY <1>2 DEF Before
<1>5. Before(issued[m], issued[n]) => ~(issued[m].list = issued[n].list
        /\ issued[m].index = issued[n].index)
  BY <1>2 DEF Before
<1>6. Before(issued[n], issued[m]) => ~(issued[m].list = issued[n].list
        /\ issued[m].index = issued[n].index)
  BY <1>2 DEF Before
<1> QED
  BY <1>1, <1>2, <1>3, <1>4, <1>5, <1>6

\* Work that comes earlier in the program is not left over when later work is executed,
\* but for uploads without a barrier.
LEMMA ExecuteInOrder ==
  ASSUME Inv, NEW b \in batches, NEW e \in batches, b # e, Lists!Ready(e),
         NEW x \in b.work, NEW y \in e.work, Lists!Earlier(x, y),
         y[3] = "sdma" /\ x[3] \in {"exec", "signal"} => Lists!Barrier(x, y)
  PROVE  FALSE
<1>1. PICK m \in DOMAIN issued :
        /\ m \in Nat /\ m >= 1 /\ x \in Lists!WorkOf(issued[m])
        /\ x[1] = issued[m].list /\ x[2] = issued[m].index
        /\ b.call = Lists!Calls * (m - 1) + Stage(b)
        /\ Lists!Calls * (m - 1) < b.call /\ b.call < Lists!Calls * m
        /\ x[3] \in {"sparse", "sdma", "exec", "signal"}
        /\ x[3] = "sparse" <=> b.queue = "sparse"
        /\ b.queue = "transfer" => x[3] = "sdma"
        /\ b.queue = "graphics" /\ x[3] = "sdma" => ~dedicated
        /\ Signals(b)
  BY PlaceOfWork
<1>2. PICK n \in DOMAIN issued :
        /\ n \in Nat /\ n >= 1 /\ y \in Lists!WorkOf(issued[n])
        /\ y[1] = issued[n].list /\ y[2] = issued[n].index
        /\ e.call = Lists!Calls * (n - 1) + Stage(e)
        /\ Lists!Calls * (n - 1) < e.call /\ e.call < Lists!Calls * n
        /\ y[3] \in {"sparse", "sdma", "exec", "signal"}
        /\ y[3] = "sparse" <=> e.queue = "sparse"
        /\ e.queue = "transfer" => y[3] = "sdma"
        /\ e.queue = "graphics" /\ y[3] = "sdma" => ~dedicated
        /\ Signals(e)
  BY PlaceOfWork
<1>3. /\ b.call \in Nat /\ e.call \in Nat /\ b.call # e.call
      /\ b.queue \in {"graphics", "transfer", "sparse"} /\ e.queue \in {"graphics", "transfer",
           "sparse"}
  BY BatchType DEF Inv, BatchTypes, BatchFields
<1>4. b.call < e.call
  <2>1. CASE m < n
    <3>1. Lists!Calls * m <= Lists!Calls * (n - 1)
      BY <1>1, <1>2, <2>1 DEF Lists!Calls
    <3> QED
      BY <1>1, <1>2, <1>3, <3>1 DEF Lists!Calls
  <2>2. CASE ~(m < n)
    <3>1. x[1] = y[1] /\ x[2] = y[2] /\ Lists!Order[x[3]] < Lists!Order[y[3]]
      <4>1. ~Before(issued[m], issued[n])
        BY <2>2, EarlierSubmission
      <4> QED
        BY <1>1, <1>2, <4>1 DEF Lists!Earlier, Before
    <3>2. m = n
      BY <1>1, <1>2, <3>1, EarlierSubmission
    <3>3. Stage(b) <= Stage(e)
      <4>1. b.queue = "sparse" \/ e.queue = "graphics" \/ b.queue = e.queue
        BY <1>1, <1>2, <1>3, <3>1 DEF Lists!Order
      <4> QED
        BY <1>3, <4>1 DEF Stage
    <3> QED
      BY <1>1, <1>2, <1>3, <3>2, <3>3 DEF Stage, Lists!Calls
  <2> QED
    BY <2>1, <2>2
<1>5. b.queue = "graphics" /\ e.queue = "transfer"
  BY <1>1, <1>4, StalledByEarlier DEF Inv
<1>6. dedicated /\ y[3] = "sdma" /\ x[3] \in {"exec", "signal"}
  BY <1>1, <1>2, <1>5 DEF Inv, BatchTypes, BatchFields
<1>7. PICK p \in DOMAIN issued :
        /\ issued[p].flags.syncSdma
        /\ Lists!Earlier(x, <<issued[p].list, issued[p].index, "signal">>)
        /\ Lists!Earlier(<<issued[p].list, issued[p].index, "signal">>, y)
  BY <1>6 DEF Lists!Barrier
<1>8. m <= p
  <2>1. ~Before(issued[p], issued[m])
    BY <1>1, <1>7, EarlierSubmission DEF Lists!Earlier, Before
  <2> QED
    BY <2>1, EarlierSubmission
<1>9. p < n
  <2>1. Before(issued[p], issued[n])
    BY <1>2, <1>6, <1>7, EarlierSubmission DEF Lists!Earlier, Before, Lists!Order
  <2> QED
    BY <2>1, EarlierSubmission
<1>10. p \in Barriers /\ p \in Nat /\ b.call <= Lists!Calls * p /\ Lists!Calls * p < e.call
  <2>1. p \in Nat /\ p \in Barriers
    BY <1>7, EarlierSubmission DEF Barriers
  <2>2. Lists!Calls * m <= Lists!Calls * p /\ Lists!Calls * p <= Lists!Calls * (n - 1)
    BY <1>1, <1>2, <1>8, <1>9, <2>1 DEF Lists!Calls
  <2> QED
    BY <1>1, <1>2, <1>3, <2>1, <2>2 DEF Lists!Calls
<1>11. Covered(b, "transfer", e)
  BY <1>1, <1>5, <1>6, <1>10 DEF Inv, BarrierStalls
<1> QED
  BY <1>1, <1>5, <1>11, CoveredNotReady DEF Inv

\* The device executes its batches in program order ...
LEMMA ExecuteProgramOrder ==
  ASSUME Inv, Lists!ProgramOrder, NEW e \in batches, Lists!Execute(e)
  PROVE  Lists!ProgramOrder'
<1>1. /\ Lists!Ready(e) /\ batches' = batches \ {e} /\ done' = done \union e.work
           /\ issued' = issued
  BY Executed
<1>2. Lists!AllWork' = Lists!AllWork /\ \A x, y : (Lists!Earlier(x, y)'
        <=> Lists!Earlier(x, y)) /\ (Lists!Barrier(x, y)' <=> Lists!Barrier(x, y))
  BY <1>1 DEF Lists!AllWork, Lists!WorkOf, Lists!Earlier, Lists!Order, Lists!Barrier
<1>3. SUFFICES ASSUME NEW y \in done', NEW x \in Lists!AllWork, Lists!Earlier(x, y),
                      y[3] = "sdma" /\ x[3] \in {"exec", "signal"} => Lists!Barrier(x, y),
                      x \notin done'
               PROVE  FALSE
  BY <1>2 DEF Lists!ProgramOrder
<1>4. y \notin done
  BY <1>1, <1>3 DEF Lists!ProgramOrder
<1>5. y \in e.work
  BY <1>1, <1>4
<1>6. PICK b \in batches : x \in b.work
  BY <1>1, <1>3, <1>5 DEF Inv, AllDone
<1>7. b # e
  BY <1>1, <1>3, <1>6
<1> QED
  BY <1>1, <1>3, <1>5, <1>6, <1>7, ExecuteInOrder

\* Nothing that a fence stalls is ready before the fence.
LEMMA FenceNotReady ==
  ASSUME Inv, ~fence, NEW n \in Fences, NEW e \in batches, e.call > Lists!Calls * (n - 1) + 1
  PROVE  ~Lists!Ready(e)
<1> USE DEF Inv
<1>1. PICK t \in batches : FenceGate(t) /\ t.call <= e.call
  BY DEF FenceStalls
<1>2. ~Lists!Ready(t)
  BY <1>1 DEF FenceGate, Lists!Ready, Lists!Met
<1>3. t = e \/ t.call < e.call
  <2>1. t.call \in Nat /\ e.call \in Nat /\ (t.call = e.call => t = e)
    BY BatchType DEF BatchTypes, BatchFields
  <2> QED
    BY <1>1, <2>1
<1>4. ASSUME Lists!Ready(e) PROVE FALSE
  <2>1. t.call < e.call
    BY <1>2, <1>3, <1>4
  <2>2. t.queue = "graphics" /\ e.queue = "transfer"
    BY <1>1, <1>4, <2>1, StalledByEarlier DEF FenceGate
  <2>3. dedicated
    BY <2>2 DEF BatchTypes, BatchFields
  <2> QED
    BY <1>1, <2>2, <2>3 DEF FenceGate, Gate
<1> QED
  BY <1>4

\* ... not past a fence ...
LEMMA ExecuteFence ==
  ASSUME Inv, Lists!FenceStallsCommands, NEW e \in batches, Lists!Execute(e)
  PROVE  Lists!FenceStallsCommands'
<1>1. /\ Lists!Ready(e) /\ batches' = batches \ {e} /\ done' = done \union e.work
           /\ issued' = issued /\ fence' = fence
  BY Executed
<1>2. \A w : Lists!Stalled(w)' <=> Lists!Stalled(w)
  BY <1>1 DEF Lists!Stalled
<1>3. SUFFICES ASSUME NEW w \in e.work, Lists!Stalled(w), ~(w[2] = 1 /\ w[3] = "sparse"), ~fence
               PROVE  FALSE
  BY <1>1, <1>2 DEF Lists!FenceStallsCommands
<1>4. PICK n \in DOMAIN issued :
        /\ n \in Nat /\ n >= 1 /\ w \in Lists!WorkOf(issued[n])
        /\ w[1] = issued[n].list /\ w[2] = issued[n].index
        /\ e.call = Lists!Calls * (n - 1) + Stage(e)
        /\ Lists!Calls * (n - 1) < e.call /\ e.call < Lists!Calls * n
        /\ w[3] \in {"sparse", "sdma", "exec", "signal"}
        /\ w[3] = "sparse" <=> e.queue = "sparse"
        /\ e.queue = "transfer" => w[3] = "sdma"
        /\ e.queue = "graphics" /\ w[3] = "sdma" => ~dedicated
        /\ Signals(e)
  BY <1>3, PlaceOfWork
<1>5. PICK p \in DOMAIN issued : issued[p].list = w[1] /\ issued[p].flags.fence
  BY <1>3 DEF Lists!Stalled
<1>6. p \in Fences /\ p \in Nat /\ issued[p].index = 1
  BY <1>5, EarlierSubmission DEF Inv, IssuedInv, Fences
<1>7. e.call > Lists!Calls * (p - 1) + 1
  <2>1. CASE p < n
    <3>1. Lists!Calls * p <= Lists!Calls * (n - 1)
      BY <1>4, <1>6, <2>1 DEF Lists!Calls
    <3> QED
      BY <1>4, <1>6, <3>1 DEF Lists!Calls, Stage
  <2>2. CASE ~(p < n)
    <3>1. ~Before(issued[p], issued[n])
      BY <2>2, EarlierSubmission
    <3>2. issued[n].index = 1
      BY <1>4, <1>5, <1>6, <3>1, EarlierSubmission DEF Before
    <3>3. n = p
      BY <1>4, <1>5, <1>6, <3>2, EarlierSubmission
    <3>4. e.queue # "sparse"
      BY <1>3, <1>4, <3>2
    <3> QED
      BY <1>4, <3>3, <3>4 DEF Stage, Lists!Calls
  <2> QED
    BY <2>1, <2>2
<1> QED
  BY <1>1, <1>3, <1>6, <1>7, FenceNotReady

\* ... and leaves the work of lists that were released as it is, which was done before.
LEMMA ExecuteRetired ==
  ASSUME Inv, Lists!RetiredMeansDone, NEW e \in batches, Lists!Execute(e)
  PROVE  Lists!RetiredMeansDone'
<1>1. done' = done \union e.work /\ issued' = issued /\ retired' = retired
  BY Executed
<1>2. Lists!AllWork' = Lists!AllWork
  BY <1>1 DEF Lists!AllWork, Lists!WorkOf
<1> QED
  BY <1>1, <1>2 DEF Lists!RetiredMeansDone

\* The queue thread waits for values that all work of the list comes before.
LEMMA RetireStep ==
  ASSUME Inv, Lists!ListsInOrder, Lists!Retire
  PROVE  Inv' /\ Lists!ListsInOrder'
<1>1. /\ retired < Len(finish) /\ Lists!Finished(finish[retired + 1]) /\ retired' = retired + 1
      /\ UNCHANGED <<dedicated, timelines, carried, list, index, issued, finish, failed,
                     batches, semaphore, done, fence>>
  BY DEF Lists!Retire, Lists!submitVars, Lists!gpuVars
<1>2. Inv'
  <2>1. SubTypes'
    <3>1. SubTypes /\ retired \in Nat /\ Len(finish) \in Nat
      BY LenProperties DEF Inv, SubTypes
    <3>2. retired' \in 0..Len(finish)
      BY <1>1, <3>1
    <3> QED
      BY <1>1, <3>1, <3>2 DEF SubTypes
  <2>2. /\ BatchTypes' /\ SignalsInv' /\ WaitsInv' /\ SparseInv' /\ SparseStalls' /\ UploadStalls'
        /\ BarrierStalls' /\ FenceStalls'
    <3>1. BatchTypes' /\ SignalsInv' /\ WaitsInv'
      BY <1>1 DEF Inv, BatchTypes, BatchFields, SignalsInv, WaitsInv, Signals
    <3>2. SparseInv' /\ SparseStalls'
      BY <1>1 DEF Inv, SparseInv, SparseStalls, Signals, Holds, Gates, Gate
    <3>3. UploadStalls'
      BY <1>1 DEF Inv, UploadStalls, Signals, Holds, Covered, Kept
    <3>4. BarrierStalls'
      BY <1>1 DEF Inv, BarrierStalls, Signals, Holds, Covered, Kept, Barriers
    <3>5. FenceStalls'
      BY <1>1 DEF Inv, FenceStalls, Fences, FenceGate, Gate, Signals
    <3> QED
      BY <3>1, <3>2, <3>3, <3>4, <3>5
  <2>3. IssuedInv' /\ WorkInv' /\ AllDone' /\ FinishInv'
    BY <1>1 DEF Inv, IssuedInv, WorkInv, AllDone, FinishInv, Lists!WorkOf, Lists!AllWork,
       Lists!Earlier, Lists!Order, Signals, Stage
  <2> QED
    BY <2>1, <2>2, <2>3 DEF Inv
<1>3. Lists!ProgramOrder' /\ Lists!FenceStallsCommands'
  BY <1>1 DEF Lists!ListsInOrder, Lists!ProgramOrder, Lists!FenceStallsCommands, Lists!AllWork,
     Lists!WorkOf, Lists!Earlier, Lists!Order, Lists!Barrier, Lists!Stalled
<1>4. Lists!RetiredMeansDone'
  <2>1. Lists!AllWork' = Lists!AllWork
    BY <1>1 DEF Lists!AllWork, Lists!WorkOf
  <2>2. SUFFICES ASSUME NEW x \in Lists!AllWork, x[1] <= retired + 1, x \notin done
                 PROVE  FALSE
    BY <1>1, <2>1 DEF Lists!RetiredMeansDone
  <2>3. ~(x[1] <= retired)
    BY <2>2 DEF Lists!ListsInOrder, Lists!RetiredMeansDone
  <2>4. /\ retired \in Nat /\ Len(finish) \in Nat /\ Len(finish) + 1 = list /\ x[1] \in Nat
    <3>1. PICK n \in DOMAIN issued : x \in Lists!WorkOf(issued[n])
      BY DEF Lists!AllWork
    <3>2. x[1] = issued[n].list
      BY <3>1 DEF Lists!WorkOf
    <3> QED
      BY <3>2, EarlierSubmission, LenProperties DEF Inv, SubTypes
  <2>5. x[1] = retired + 1 /\ x[1] <= Len(finish) /\ x[1] # list
    BY <1>1, <2>2, <2>3, <2>4
  <2>6. PICK b \in batches : x \in b.work
    BY <2>2, <2>5 DEF Inv, AllDone
  <2>7. Signals(b) /\ b.signal[2] <= finish[x[1]][b.signal[1]]
    BY <2>5, <2>6, PlaceOfWork DEF Inv, FinishInv
  <2>8. /\ b.signal[1] \in Lists!Semaphores /\ semaphore[b.signal[1]] < b.signal[2]
        /\ semaphore[b.signal[1]] \in Nat /\ b.signal[2] \in Nat
    BY <2>7, BatchType DEF Inv, Lists!Semaphores
  <2>9. semaphore[b.signal[1]] >= finish[x[1]][b.signal[1]]
    BY <1>1, <2>5, <2>8 DEF Lists!Finished
  <2>10. finish[x[1]][b.signal[1]] \in Nat
    <3>1. finish \in Seq([Lists!Semaphores -> Nat]) /\ x[1] \in 1..Len(finish)
      BY <2>4, <2>5 DEF Inv, SubTypes
    <3>2. finish[x[1]] \in [Lists!Semaphores -> Nat]
      BY <3>1, ElementOfSeq
    <3> QED
      BY <2>8, <3>2
  <2> QED
    BY <2>7, <2>8, <2>9, <2>10
<1> QED
  BY <1>2, <1>3, <1>4 DEF Lists!ListsInOrder

\* Once the fence is signaled it holds nothing.
LEMMA SignalFenceStep ==
  ASSUME Inv, Lists!ListsInOrder, Lists!SignalFence
  PROVE  Inv' /\ Lists!ListsInOrder'
<1>1. /\ fence' = TRUE
      /\ UNCHANGED <<dedicated, timelines, carried, list, index, issued, finish, failed,
                     batches, semaphore, done, retired>>
  BY DEF Lists!SignalFence, Lists!submitVars, Lists!gpuVars
<1>2. SubTypes'
  BY <1>1 DEF Inv, SubTypes
<1>3. /\ BatchTypes' /\ SignalsInv' /\ WaitsInv' /\ SparseInv' /\ SparseStalls' /\ UploadStalls'
      /\ BarrierStalls' /\ FenceStalls'
  <2>1. BatchTypes' /\ SignalsInv' /\ WaitsInv'
    BY <1>1 DEF Inv, BatchTypes, BatchFields, SignalsInv, WaitsInv, Signals
  <2>2. SparseInv' /\ SparseStalls'
    BY <1>1 DEF Inv, SparseInv, SparseStalls, Signals, Holds, Gates, Gate
  <2>3. UploadStalls'
    BY <1>1 DEF Inv, UploadStalls, Signals, Holds, Covered, Kept
  <2>4. BarrierStalls'
    BY <1>1 DEF Inv, BarrierStalls, Signals, Holds, Covered, Kept, Barriers
  <2>5. FenceStalls'
    BY <1>1 DEF Inv, FenceStalls, Fences, FenceGate, Gate, Signals
  <2> QED
    BY <2>1, <2>2, <2>3, <2>4, <2>5
<1>4. IssuedInv' /\ WorkInv' /\ AllDone' /\ FinishInv'
  BY <1>1 DEF Inv, IssuedInv, WorkInv, AllDone, FinishInv, Lists!WorkOf, Lists!AllWork,
     Lists!Earlier, Lists!Order, Signals, Stage
<1>5. Lists!ListsInOrder'
  BY <1>1 DEF Lists!ListsInOrder, Lists!ProgramOrder, Lists!FenceStallsCommands,
     Lists!RetiredMeansDone, Lists!AllWork, Lists!WorkOf, Lists!Earlier,
     Lists!Order, Lists!Barrier, Lists!Stalled
<1> QED
  BY <1>2, <1>3, <1>4, <1>5 DEF Inv

-----------------------------------------------------------------------------
(* A submission *)

\* The facts about a submission that the steps below use: what its batches are ...
LEMMA NewBatches ==
  ASSUME Inv, NEW c \in Lists!Submissions, ~failed
  PROVE  /\ Len(issued) \in Nat /\ timelines["graphics"] \in Nat /\ timelines["transfer"] \in Nat
         /\ Lists!SparseValue(c) = timelines["graphics"] + (IF c.sparse THEN 1 ELSE 0)
         /\ Lists!ExecValue(c) = Lists!SparseValue(c) + 1
         /\ Lists!LastValue(c) = Lists!ExecValue(c) + (IF c.wsi THEN 1 ELSE 0)
         /\ Lists!UploadValue(c) = timelines["transfer"] + (IF Lists!Uploads(c) THEN 1 ELSE 0)
         /\ Lists!Uploads(c) \in BOOLEAN /\ (Lists!Uploads(c)
              <=> dedicated /\ (Lists!Waits(c) # {} \/ c.sdma))
         /\ Lists!SparseBatch(c) = [call |-> 5 * Len(issued) + 1, queue |-> "sparse",
              waits |-> {<<"graphics", timelines["graphics"]>>, <<"transfer",
                timelines["transfer"]>>},
              work |-> {<<list, index + 1, "sparse">>}, signal |-> <<"graphics",
                Lists!SparseValue(c)>>]
         /\ Lists!Uploads(c) => Lists!UploadBatch(c) =
              [call |-> 5 * Len(issued) + 2, queue |-> "transfer",
               waits |-> Lists!Waits(c), work |-> Lists!Sdma(c), signal |-> <<"transfer",
                 Lists!UploadValue(c)>>]
         /\ Lists!ExecBatch(c) = [call |-> 5 * Len(issued) + 3, queue |-> "graphics",
              waits |-> IF Lists!Uploads(c) THEN {<<"transfer", Lists!UploadValue(c)>>}
                ELSE Lists!Waits(c),
              work |-> {<<list, index + 1, "exec">>}
                         \union (IF c.last THEN {<<list, index + 1, "signal">>} ELSE {})
                         \union (IF Lists!Uploads(c) THEN {} ELSE Lists!Sdma(c)),
              signal |-> <<"graphics", Lists!ExecValue(c)>>]
         /\ Lists!WsiBatch(c) = [call |-> 5 * Len(issued) + 4, queue |-> "graphics", waits |-> {},
              work |-> {},
              signal |-> <<"graphics", Lists!LastValue(c)>>]
         /\ Lists!SyncBatch(c) = [call |-> 5 * Len(issued) + 5,
              queue |-> IF dedicated THEN "transfer" ELSE "graphics",
              waits |-> Lists!SyncWaits(c), work |-> {}, signal |-> Lists!NoSignal]
<1>1. Len(issued) \in Nat /\ timelines["graphics"] \in Nat /\ timelines["transfer"] \in Nat
      /\ dedicated \in BOOLEAN
  BY LenProperties DEF Inv, SubTypes, Lists!Semaphores
<1>2. /\ Lists!SparseValue(c) = timelines["graphics"] + (IF c.sparse THEN 1 ELSE 0)
      /\ Lists!ExecValue(c) = Lists!SparseValue(c) + 1
      /\ Lists!LastValue(c) = Lists!ExecValue(c) + (IF c.wsi THEN 1 ELSE 0)
      /\ Lists!UploadValue(c) = timelines["transfer"] + (IF Lists!Uploads(c) THEN 1 ELSE 0)
      /\ Lists!Uploads(c) \in BOOLEAN
  BY DEF Lists!SparseValue, Lists!ExecValue, Lists!LastValue, Lists!UploadValue, Lists!Uploads
<1>3. Lists!Uploads(c) <=> dedicated /\ (Lists!Waits(c) # {} \/ c.sdma)
  BY DEF Lists!Uploads, Lists!Sdma
<1>4. Lists!SparseWaits = {<<"graphics", timelines["graphics"]>>, <<"transfer",
        timelines["transfer"]>>}
  BY DEF Lists!SparseWaits, Lists!Semaphores
<1>5. Lists!SparseBatch(c) = [call |-> 5 * Len(issued) + 1, queue |-> "sparse",
              waits |-> {<<"graphics", timelines["graphics"]>>, <<"transfer",
                timelines["transfer"]>>},
              work |-> {<<list, index + 1, "sparse">>}, signal |-> <<"graphics",
                Lists!SparseValue(c)>>]
  BY <1>4 DEF Lists!SparseBatch, Lists!Batch, Lists!Calls, Lists!Work
<1>6. Lists!Uploads(c) => Lists!UploadBatch(c) =
              [call |-> 5 * Len(issued) + 2, queue |-> "transfer",
               waits |-> Lists!Waits(c), work |-> Lists!Sdma(c), signal |-> <<"transfer",
                 Lists!UploadValue(c)>>]
  BY <1>3 DEF Lists!UploadBatch, Lists!Batch, Lists!Calls
<1>7. Lists!ExecBatch(c) = [call |-> 5 * Len(issued) + 3, queue |-> "graphics",
              waits |-> IF Lists!Uploads(c) THEN {<<"transfer", Lists!UploadValue(c)>>}
                ELSE Lists!Waits(c),
              work |-> {<<list, index + 1, "exec">>}
                         \union (IF c.last THEN {<<list, index + 1, "signal">>} ELSE {})
                         \union (IF Lists!Uploads(c) THEN {} ELSE Lists!Sdma(c)),
              signal |-> <<"graphics", Lists!ExecValue(c)>>]
  <2> DEFINE exec == {<<list, index + 1, "exec">>} \union (IF c.last THEN {<<list, index + 1,
        "signal">>} ELSE {})
  <2>1. (IF Lists!Uploads(c) THEN exec ELSE Lists!Sdma(c) \union exec) = exec
          \union (IF Lists!Uploads(c) THEN {} ELSE Lists!Sdma(c))
    OBVIOUS
  <2> QED
    BY <2>1 DEF Lists!ExecBatch, Lists!Batch, Lists!Calls, Lists!Work
<1>8. Lists!WsiBatch(c) = [call |-> 5 * Len(issued) + 4, queue |-> "graphics", waits |-> {},
        work |-> {},
              signal |-> <<"graphics", Lists!LastValue(c)>>]
  BY DEF Lists!WsiBatch, Lists!Batch, Lists!Calls
<1>9. Lists!SyncBatch(c) = [call |-> 5 * Len(issued) + 5,
              queue |-> IF dedicated THEN "transfer" ELSE "graphics",
              waits |-> Lists!SyncWaits(c), work |-> {}, signal |-> Lists!NoSignal]
  BY <1>1 DEF Lists!SyncBatch, Lists!Batch, Lists!Calls
<1> QED
  BY <1>1, <1>2, <1>3, <1>5, <1>6, <1>7, <1>8, <1>9

\* ... which values they take ...
LEMMA NewValues ==
  ASSUME Inv, NEW c \in Lists!Submissions, ~failed
  PROVE  /\ timelines["graphics"] \in Nat /\ timelines["transfer"] \in Nat
         /\ Lists!SparseValue(c) \in Nat /\ Lists!ExecValue(c) \in Nat
              /\ Lists!LastValue(c) \in Nat /\ Lists!UploadValue(c) \in Nat
         /\ timelines["graphics"] <= Lists!SparseValue(c)
              /\ Lists!SparseValue(c) < Lists!ExecValue(c)
         /\ Lists!ExecValue(c) <= Lists!LastValue(c)
              /\ timelines["transfer"] <= Lists!UploadValue(c)
         /\ c.sparse => timelines["graphics"] < Lists!SparseValue(c)
         /\ c.wsi => Lists!ExecValue(c) < Lists!LastValue(c)
         /\ ~c.wsi => Lists!ExecValue(c) = Lists!LastValue(c)
         /\ Lists!Uploads(c) => timelines["transfer"] < Lists!UploadValue(c)
         /\ ~Lists!Uploads(c) => timelines["transfer"] = Lists!UploadValue(c)
         /\ Lists!Uploads(c) \in BOOLEAN
         /\ Lists!Uploads(c) => dedicated
<1>1. /\ timelines["graphics"] \in Nat /\ timelines["transfer"] \in Nat
      /\ Lists!SparseValue(c) = timelines["graphics"] + (IF c.sparse THEN 1 ELSE 0)
      /\ Lists!ExecValue(c) = Lists!SparseValue(c) + 1
      /\ Lists!LastValue(c) = Lists!ExecValue(c) + (IF c.wsi THEN 1 ELSE 0)
      /\ Lists!UploadValue(c) = timelines["transfer"] + (IF Lists!Uploads(c) THEN 1 ELSE 0)
  BY NewBatches
<1>2. Lists!Uploads(c) \in BOOLEAN /\ (Lists!Uploads(c) => dedicated)
  BY NewBatches
<1> QED
  BY <1>1, <1>2

\* ... which of them there are, told by their calls ...
LEMMA NewCalls ==
  ASSUME Inv, NEW c \in Lists!Submissions, ~failed, NEW b \in Lists!Iteration(c)
  PROVE  /\ b.call \in Nat /\ b.call >= 5 * Len(issued) + 1 /\ b.call <= 5 * Len(issued) + 5
         /\ \/ c.sparse /\ b = Lists!SparseBatch(c) /\ b.call = 5 * Len(issued) + 1
            \/ Lists!Uploads(c) /\ b = Lists!UploadBatch(c) /\ b.call = 5 * Len(issued) + 2
            \/ b = Lists!ExecBatch(c) /\ b.call = 5 * Len(issued) + 3
            \/ c.wsi /\ b = Lists!WsiBatch(c) /\ b.call = 5 * Len(issued) + 4
            \/ c.syncSdma /\ c.last /\ b = Lists!SyncBatch(c) /\ b.call = 5 * Len(issued) + 5
<1>1. \/ c.sparse /\ b = Lists!SparseBatch(c)
      \/ Lists!Uploads(c) /\ b = Lists!UploadBatch(c)
      \/ b = Lists!ExecBatch(c)
      \/ c.wsi /\ b = Lists!WsiBatch(c)
      \/ c.syncSdma /\ c.last /\ b = Lists!SyncBatch(c)
  BY DEF Lists!Iteration
<1>2. /\ Lists!SparseBatch(c).call = 5 * Len(issued) + 1
      /\ Lists!Uploads(c) => Lists!UploadBatch(c).call = 5 * Len(issued) + 2
      /\ Lists!ExecBatch(c).call = 5 * Len(issued) + 3
      /\ Lists!WsiBatch(c).call = 5 * Len(issued) + 4
      /\ Lists!SyncBatch(c).call = 5 * Len(issued) + 5
  BY NewBatches
<1>3. Len(issued) \in Nat
  BY NewBatches
<1> QED
  BY <1>1, <1>2, <1>3

\* ... and which are sure to be.
LEMMA NewMembers ==
  ASSUME NEW c
  PROVE  /\ Lists!ExecBatch(c) \in Lists!Iteration(c)
         /\ c.sparse => Lists!SparseBatch(c) \in Lists!Iteration(c)
         /\ Lists!Uploads(c) => Lists!UploadBatch(c) \in Lists!Iteration(c)
         /\ c.wsi => Lists!WsiBatch(c) \in Lists!Iteration(c)
         /\ c.syncSdma /\ c.last => Lists!SyncBatch(c) \in Lists!Iteration(c)
  BY DEF Lists!Iteration

\* A submission, whole or broken off: the calls in made, which are the first ones of the
\* iteration, are made.
Takes(c, made) ==
  /\ ~failed /\ list <= MaxLists
  /\ made \subseteq Lists!Iteration(c)
  /\ \A b \in made, d \in Lists!Iteration(c) : d.call < b.call => d \in made
  /\ batches' = batches \union made
  /\ timelines' = [graphics |-> Lists!LastValue(c), transfer |-> Lists!UploadValue(c)]
  /\ issued' = Append(issued, [list |-> list, index |-> index + 1, flags |-> c])
  /\ UNCHANGED <<dedicated, semaphore, fence, done, retired>>
  /\ \/ /\ made = Lists!Iteration(c) /\ ~failed' /\ failed' \in BOOLEAN
        /\ carried' = (IF c.last THEN {} ELSE Lists!SyncWaits(c))
        /\ \/ c.last /\ list' = list + 1 /\ index' = 0 /\ finish' = Append(finish, timelines')
           \/ ~c.last /\ index' = index + 1 /\ UNCHANGED <<list, finish>>
     \/ failed' /\ failed' \in BOOLEAN /\ UNCHANGED <<carried, list, index, finish>>

\* Both outcomes of a submission are of this form.
LEMMA SubmitTakes ==
  ASSUME Inv, NEW c \in Lists!Submissions, Lists!Submit(c) \/ Lists!Fail(c)
  PROVE  \E made : Takes(c, made)
<1>1. CASE Lists!Submit(c)
  <2>1. Takes(c, Lists!Iteration(c))
    BY <1>1 DEF Lists!Submit, Lists!Take, Lists!CanSubmit, Takes, Lists!Submissions, Inv, SubTypes
  <2> QED
    BY <2>1
<1>2. CASE Lists!Fail(c)
  <2>1. PICK failing \in Lists!Iteration(c) :
          batches' = batches \union {b \in Lists!Iteration(c) : b.call < failing.call}
    BY <1>2 DEF Lists!Fail
  <2> DEFINE made == {b \in Lists!Iteration(c) : b.call < failing.call}
  <2>2. \A b \in made, d \in Lists!Iteration(c) : d.call < b.call => d \in made
    <3>1. ~failed
      BY <1>2 DEF Lists!Fail, Lists!Take, Lists!CanSubmit
    <3>2. \A b \in Lists!Iteration(c) : b.call \in Nat
      BY <3>1, NewCalls
    <3> QED
      BY <3>2
  <2>3. Takes(c, made)
    BY <1>2, <2>1, <2>2 DEF Lists!Fail, Lists!Take, Lists!CanSubmit, Takes
  <2> QED
    BY <2>3
<1> QED
  BY <1>1, <1>2

\* The facts in the form in which they are used.
LEMMA TakenFacts ==
  ASSUME Inv, NEW c \in Lists!Submissions, NEW made, Takes(c, made)
  PROVE  /\ \A b \in made : b.call \in Nat /\ b.call > 5 * Len(issued)
         /\ \A b \in batches : b.call \in Nat /\ b.call <= 5 * Len(issued) /\ b.call >= 1
         /\ timelines'["graphics"] = Lists!LastValue(c)
              /\ timelines'["transfer"] = Lists!UploadValue(c)
         /\ Len(issued) \in Nat /\ Len(issued') = Len(issued) + 1
         /\ issued'[Len(issued) + 1] = [list |-> list, index |-> index + 1, flags |-> c]
         /\ \A n \in DOMAIN issued : n \in DOMAIN issued' /\ issued'[n] = issued[n]
              /\ n \in 1..Len(issued)
         /\ \A n \in DOMAIN issued' : n \in DOMAIN issued \/ n = Len(issued) + 1
         /\ Len(issued) + 1 \in DOMAIN issued'
         /\ \A s \in Lists!Semaphores : timelines[s] \in Nat /\ timelines'[s] \in Nat
              /\ timelines[s] <= timelines'[s]
<1>1. ~failed /\ made \subseteq Lists!Iteration(c)
      /\ timelines' = [graphics |-> Lists!LastValue(c), transfer |-> Lists!UploadValue(c)]
      /\ issued' = Append(issued, [list |-> list, index |-> index + 1, flags |-> c])
  BY DEF Takes
<1>2. \A b \in made : b.call \in Nat /\ b.call >= 5 * Len(issued) + 1
  BY <1>1, NewCalls
<1>3. /\ timelines["graphics"] \in Nat /\ timelines["transfer"] \in Nat
      /\ Lists!LastValue(c) \in Nat /\ Lists!UploadValue(c) \in Nat
      /\ timelines["graphics"] < Lists!LastValue(c) /\ timelines["transfer"] <= Lists!UploadValue(c)
      /\ Len(issued) \in Nat
  BY <1>1, NewValues, NewBatches
<1>4. \A b \in made : b.call > 5 * Len(issued)
  BY <1>2, <1>3
<1>5. \A b \in batches : b.call \in Nat /\ b.call <= 5 * Len(issued) /\ b.call >= 1
  BY BatchType DEF Inv, Lists!Calls
<1>6. issued \in Seq([list : 1..MaxLists, index : 1..MaxSubmissions, flags : Flags])
  BY DEF Inv, SubTypes
<1>7. /\ Len(issued') = Len(issued) + 1
      /\ issued'[Len(issued) + 1] = [list |-> list, index |-> index + 1, flags |-> c]
      /\ \A n \in 1..Len(issued) : issued'[n] = issued[n]
      /\ DOMAIN issued = 1..Len(issued) /\ DOMAIN issued' = 1..(Len(issued) + 1)
  <2> DEFINE T == [list : 1..MaxLists, index : 1..MaxSubmissions, flags : Flags]
             x == [list |-> list, index |-> index + 1, flags |-> c]
  <2>1. x \in T
    <3>1. c \in Flags
      BY DEF Lists!Submissions, Flags
    <3>2. list \in 1..MaxLists /\ index + 1 \in 1..MaxSubmissions
      BY SubmissionConstants DEF Inv, SubTypes, Lists!SubmissionAssumption, Takes
    <3> QED
      BY <3>1, <3>2
  <2>2. issued \in Seq(T)
    BY <1>6
  <2>3. issued' = Append(issued, x)
    BY <1>1
  <2> HIDE DEF T, x
  <2>4. /\ Len(issued') = Len(issued) + 1 /\ issued'[Len(issued) + 1] = x
        /\ \A n \in 1..Len(issued) : issued'[n] = issued[n]
        /\ issued' \in Seq(T)
    BY <2>1, <2>2, <2>3, AppendProperties
  <2>5. DOMAIN issued = 1..Len(issued) /\ DOMAIN issued' = 1..Len(issued')
    BY <2>2, <2>4, LenProperties
  <2> QED
    BY <2>4, <2>5 DEF x
<1>8. /\ \A n \in DOMAIN issued : n \in DOMAIN issued' /\ issued'[n] = issued[n]
           /\ n \in 1..Len(issued)
      /\ \A n \in DOMAIN issued' : n \in DOMAIN issued \/ n = Len(issued) + 1
      /\ Len(issued) + 1 \in DOMAIN issued'
  BY <1>3, <1>7
<1>9. \A s \in Lists!Semaphores : timelines[s] \in Nat /\ timelines'[s] \in Nat
        /\ timelines[s] <= timelines'[s]
  BY <1>1, <1>3 DEF Lists!Semaphores
<1> QED
  BY <1>1, <1>2, <1>3, <1>4, <1>5, <1>7, <1>8, <1>9

\* What a submission does to each part of the invariant.
LEMMA TakeTypes ==
  ASSUME Inv, NEW c \in Lists!Submissions, NEW made, Takes(c, made)
  PROVE  SubTypes'
<1>1. SubTypes /\ ~failed /\ list <= MaxLists
  BY DEF Inv, Takes
<1>2. /\ dedicated' \in BOOLEAN /\ fence' \in BOOLEAN /\ failed' \in BOOLEAN
      /\ semaphore' \in [Lists!Semaphores -> Nat]
  BY <1>1 DEF Takes, SubTypes
<1>3. timelines' \in [Lists!Semaphores -> Nat]
  <2>1. timelines' = [graphics |-> Lists!LastValue(c), transfer |-> Lists!UploadValue(c)]
        /\ \A s \in Lists!Semaphores : timelines'[s] \in Nat
    BY TakenFacts DEF Takes
  <2>2. timelines' = [s \in Lists!Semaphores |-> IF s = "graphics" THEN Lists!LastValue(c)
          ELSE Lists!UploadValue(c)]
    BY <2>1 DEF Lists!Semaphores
  <2> QED
    BY <2>1, <2>2
<1>4. /\ c \in Flags /\ (index = MaxSubmissions - 1 => c.last) /\ c.last \in BOOLEAN
  BY DEF Lists!Submissions, Flags
<1>5. /\ list \in 1..MaxLists /\ index \in 0..(MaxSubmissions - 1) /\ MaxLists \in Nat
      /\ MaxSubmissions \in Nat /\ MaxSubmissions >= 1
  BY <1>1, SubmissionConstants DEF SubTypes, Lists!SubmissionAssumption
<1>6. list' \in 1..(MaxLists + 1) /\ index' \in 0..(MaxSubmissions - 1)
  <2>1. CASE list' = list + 1 /\ index' = 0
    BY <1>5, <2>1
  <2>2. CASE ~c.last /\ index' = index + 1 /\ list' = list
    BY <1>4, <1>5, <2>2
  <2>3. CASE list' = list /\ index' = index
    BY <1>5, <2>3
  <2> QED
    BY <2>1, <2>2, <2>3 DEF Takes
<1>7. issued' \in Seq([list : 1..MaxLists, index : 1..MaxSubmissions, flags : Flags])
  <2> DEFINE T == [list : 1..MaxLists, index : 1..MaxSubmissions, flags : Flags]
             x == [list |-> list, index |-> index + 1, flags |-> c]
  <2>1. index + 1 \in 1..MaxSubmissions
    BY <1>5
  <2>2. x \in T
    BY <1>4, <1>5, <2>1
  <2>3. issued \in Seq(T) /\ issued' = Append(issued, x)
    BY <1>1 DEF SubTypes, Takes
  <2> HIDE DEF T, x
  <2>4. issued' \in Seq(T)
    BY <2>2, <2>3, AppendProperties
  <2> QED
    BY <2>4 DEF T
<1>8. /\ finish \in Seq([Lists!Semaphores -> Nat]) /\ Len(finish) + 1 = list /\ Len(finish) \in Nat
      /\ retired \in 0..Len(finish) /\ retired' = retired
  BY <1>1, LenProperties DEF SubTypes, Takes
<1>9. /\ finish' \in Seq([Lists!Semaphores -> Nat]) /\ Len(finish') + 1 = list'
      /\ retired' \in 0..Len(finish')
  <2>1. CASE finish' = Append(finish, timelines') /\ list' = list + 1
    <3>1. finish' \in Seq([Lists!Semaphores -> Nat]) /\ Len(finish') = Len(finish) + 1
      BY <1>3, <1>8, <2>1, AppendProperties
    <3> QED
      BY <1>8, <2>1, <3>1
  <2>2. CASE UNCHANGED <<finish, list>>
    BY <1>8, <2>2
  <2> QED
    BY <2>1, <2>2 DEF Takes
<1>10. /\ carried' \subseteq {"graphics"} \X Nat
       /\ \A w \in carried' : w = <<"graphics", timelines'["graphics"]>> \/ failed'
  <2>1. timelines'["graphics"] = Lists!LastValue(c) /\ Lists!LastValue(c) \in Nat
    BY TakenFacts DEF Lists!Semaphores
  <2>2. CASE carried' = (IF c.last THEN {} ELSE Lists!SyncWaits(c))
    BY <2>1, <2>2 DEF Lists!SyncWaits
  <2>3. CASE failed' /\ carried' = carried
    BY <1>1, <2>3 DEF SubTypes
  <2> QED
    BY <2>2, <2>3 DEF Takes
<1> QED
  BY <1>2, <1>3, <1>6, <1>7, <1>9, <1>10 DEF SubTypes

LEMMA TakeBatchTypes ==
  ASSUME Inv, NEW c \in Lists!Submissions, NEW made, Takes(c, made)
  PROVE  BatchTypes'
<1>1. BatchTypes /\ ~failed /\ made \subseteq Lists!Iteration(c) /\ batches' = batches \union made
      /\ dedicated' = dedicated /\ SubTypes /\ dedicated \in BOOLEAN
  BY DEF Inv, Takes, SubTypes
<1>2. Len(issued) \in Nat /\ Len(issued') = Len(issued) + 1
  BY TakenFacts
<1>3. \A b : BatchFields(b)' <=> BatchFields(b)
  BY <1>1 DEF BatchFields
<1>4. ASSUME NEW b \in batches'
      PROVE  b.call \in 1..(5 * Len(issued'))
  <2>1. CASE b \in batches
    <3>1. b.call \in Nat /\ b.call <= 5 * Len(issued) /\ b.call >= 1
      BY <2>1, TakenFacts
    <3> QED
      BY <1>2, <3>1
  <2>2. CASE b \in made
    <3>1. b.call \in Nat /\ b.call <= 5 * Len(issued) + 5 /\ b.call >= 5 * Len(issued) + 1
      BY <1>1, <2>2, NewCalls
    <3> QED
      BY <1>2, <3>1
  <2> QED
    BY <1>1, <2>1, <2>2
<1>5. ASSUME NEW b \in made
      PROVE  BatchFields(b)
  <2>1. /\ Lists!SparseValue(c) \in Nat /\ Lists!ExecValue(c) \in Nat
             /\ Lists!LastValue(c) \in Nat /\ Lists!UploadValue(c) \in Nat
        /\ timelines["graphics"] \in Nat /\ timelines["transfer"] \in Nat
        /\ Lists!Uploads(c) \in BOOLEAN /\ (Lists!Uploads(c) => dedicated)
    BY <1>1, NewValues
  <2>2. Lists!Waits(c) \subseteq {"graphics", "transfer", "fence"} \X Nat
    <3>1. carried \subseteq {"graphics"} \X Nat
      BY <1>1 DEF SubTypes
    <3> QED
      BY <2>1, <3>1 DEF Lists!Waits
  <2>3. BatchFields(Lists!SparseBatch(c))
    <3>1. /\ Lists!SparseBatch(c).queue = "sparse"
          /\ Lists!SparseBatch(c).signal = <<"graphics", Lists!SparseValue(c)>>
          /\ Lists!SparseBatch(c).waits =
               {<<"graphics", timelines["graphics"]>>, <<"transfer", timelines["transfer"]>>}
      BY <1>1, NewBatches
    <3>2. Lists!SparseBatch(c).waits \subseteq {"graphics", "transfer", "fence"} \X Nat
      BY <2>1, <3>1
    <3> QED
      BY <2>1, <3>1, <3>2 DEF BatchFields, Lists!Queues, Lists!Semaphores
  <2>4. Lists!Uploads(c) => BatchFields(Lists!UploadBatch(c))
    BY <1>1, <2>1, <2>2, NewBatches DEF BatchFields, Lists!Queues, Lists!Semaphores
  <2>5. BatchFields(Lists!ExecBatch(c))
    <3>1. /\ Lists!ExecBatch(c).queue = "graphics" /\ Lists!ExecBatch(c).signal = <<"graphics",
               Lists!ExecValue(c)>>
          /\ Lists!ExecBatch(c).waits = (IF Lists!Uploads(c) THEN {<<"transfer",
               Lists!UploadValue(c)>>} ELSE Lists!Waits(c))
      <4>1. Lists!ExecBatch(c) = [call |-> 5 * Len(issued) + 3, queue |-> "graphics",
              waits |-> IF Lists!Uploads(c) THEN {<<"transfer", Lists!UploadValue(c)>>}
                ELSE Lists!Waits(c),
              work |-> {<<list, index + 1, "exec">>}
                         \union (IF c.last THEN {<<list, index + 1, "signal">>} ELSE {})
                         \union (IF Lists!Uploads(c) THEN {} ELSE Lists!Sdma(c)),
              signal |-> <<"graphics", Lists!ExecValue(c)>>]
        BY <1>1, NewBatches
      <4> QED
        BY <4>1
    <3>2. Lists!ExecBatch(c).waits \subseteq {"graphics", "transfer", "fence"} \X Nat
      BY <2>1, <2>2, <3>1
    <3> QED
      BY <2>1, <3>1, <3>2 DEF BatchFields, Lists!Queues, Lists!Semaphores
  <2>6. BatchFields(Lists!WsiBatch(c))
    BY <1>1, <2>1, NewBatches DEF BatchFields, Lists!Queues, Lists!Semaphores
  <2>7. BatchFields(Lists!SyncBatch(c))
    <3>1. Lists!SyncWaits(c) \subseteq {"graphics", "transfer", "fence"} \X Nat
      BY <2>1 DEF Lists!SyncWaits
    <3> QED
      BY <1>1, <3>1, NewBatches DEF BatchFields, Lists!Queues, Lists!Semaphores, Lists!NoSignal
  <2> QED
    BY <1>1, <2>3, <2>4, <2>5, <2>6, <2>7, NewCalls
<1>6. ASSUME NEW b \in batches', NEW d \in batches', b.call = d.call
      PROVE  b = d
  <2>1. CASE b \in batches /\ d \in batches
    BY <1>1, <1>6, <2>1 DEF BatchTypes
  <2>2. CASE b \in made /\ d \in made
    <3>1. Len(issued) \in Nat
      BY <1>2
    <3> QED
      BY <1>1, <1>6, <2>2, <3>1, NewCalls
  <2>3. \A x \in batches, y \in made : x.call # y.call
    <3>1. \A x \in batches, y \in made :
            x.call \in Nat /\ y.call \in Nat /\ x.call <= 5 * Len(issued)
              /\ y.call > 5 * Len(issued)
      BY TakenFacts
    <3> QED
      BY <1>2, <3>1
  <2> QED
    BY <1>1, <1>6, <2>1, <2>2, <2>3
<1> QED
  BY <1>1, <1>3, <1>4, <1>5, <1>6 DEF BatchTypes, Lists!Calls

\* A call is made only after those before it.
LEMMA EarlierMade ==
  ASSUME Inv, NEW c \in Lists!Submissions, NEW made, Takes(c, made), NEW b \in made,
           NEW d \in Lists!Iteration(c),
         d.call <= b.call
  PROVE  d \in made
<1>1. ~failed /\ b \in Lists!Iteration(c)
  BY DEF Takes
<1>2. b.call \in Nat /\ d.call \in Nat /\ Len(issued) \in Nat
  BY <1>1, NewCalls, NewBatches
<1>3. d.call = b.call => d = b
  BY <1>1, <1>2, NewCalls
<1>4. d.call < b.call \/ d.call = b.call
  BY <1>2
<1> QED
  BY <1>3, <1>4 DEF Takes

\* The batch that has the waits of a submission, and holds up the rest of it.
GateBatch(c) == IF dedicated THEN Lists!UploadBatch(c) ELSE Lists!ExecBatch(c)

LEMMA Gated ==
  ASSUME Inv, NEW c \in Lists!Submissions, ~failed, Lists!Waits(c) # {}
  PROVE  /\ GateBatch(c) \in Lists!Iteration(c) /\ GateBatch(c).queue = Gate
              /\ Signals(GateBatch(c))
         /\ GateBatch(c).waits = Lists!Waits(c)
         /\ \A d \in Lists!Iteration(c) : d.call > 5 * Len(issued) + 1
              => GateBatch(c).call <= d.call
<1>1. dedicated \in BOOLEAN /\ (Lists!Uploads(c) <=> dedicated) /\ Len(issued) \in Nat
  BY NewBatches DEF Inv, SubTypes
<1>2. CASE dedicated
  <2>1. GateBatch(c) = Lists!UploadBatch(c) /\ Lists!Uploads(c) /\ Gate = "transfer"
    BY <1>1, <1>2 DEF GateBatch, Gate
  <2>2. /\ Lists!UploadBatch(c).queue = "transfer" /\ Lists!UploadBatch(c).waits = Lists!Waits(c)
        /\ Lists!UploadBatch(c).signal = <<"transfer", Lists!UploadValue(c)>>
        /\ Lists!UploadBatch(c).call = 5 * Len(issued) + 2
    BY <2>1, NewBatches
  <2>3. \A d \in Lists!Iteration(c) : d.call > 5 * Len(issued) + 1
          => Lists!UploadBatch(c).call <= d.call
    BY <1>1, <2>2, NewCalls
  <2> QED
    BY <2>1, <2>2, <2>3, NewMembers DEF Signals, Lists!NoSignal
<1>3. CASE ~dedicated
  <2>1. GateBatch(c) = Lists!ExecBatch(c) /\ ~Lists!Uploads(c) /\ Gate = "graphics"
    BY <1>1, <1>3 DEF GateBatch, Gate
  <2>2. /\ Lists!ExecBatch(c).queue = "graphics" /\ Lists!ExecBatch(c).waits = Lists!Waits(c)
        /\ Lists!ExecBatch(c).signal = <<"graphics", Lists!ExecValue(c)>>
        /\ Lists!ExecBatch(c).call = 5 * Len(issued) + 3
    BY <2>1, NewBatches
  <2>3. \A d \in Lists!Iteration(c) : d.call > 5 * Len(issued) + 1
          => Lists!ExecBatch(c).call <= d.call
    BY <1>1, <2>1, <2>2, NewCalls
  <2> QED
    BY <2>1, <2>2, <2>3, NewMembers DEF Signals, Lists!NoSignal
<1> QED
  BY <1>1, <1>2, <1>3

\* The values that a submission signals are new, and in the order of its calls.
LEMMA NewSignals ==
  ASSUME Inv, NEW c \in Lists!Submissions, ~failed, NEW b \in Lists!Iteration(c), Signals(b)
  PROVE  /\ b.signal[1] \in Lists!Semaphores /\ b.signal[2] \in Nat
         /\ timelines[b.signal[1]] < b.signal[2]
         /\ b.signal[1] = "graphics" => b.signal[2] <= Lists!LastValue(c)
         /\ b.signal[1] = "transfer" => b.signal[2] <= Lists!UploadValue(c)
         /\ \A d \in Lists!Iteration(c) : d.signal[1] = b.signal[1] /\ b.call < d.call
              => b.signal[2] < d.signal[2]
<1>1. /\ Lists!SparseBatch(c).signal = <<"graphics", Lists!SparseValue(c)>>
      /\ Lists!Uploads(c) => Lists!UploadBatch(c).signal = <<"transfer", Lists!UploadValue(c)>>
      /\ Lists!ExecBatch(c).signal = <<"graphics", Lists!ExecValue(c)>>
      /\ Lists!WsiBatch(c).signal = <<"graphics", Lists!LastValue(c)>>
      /\ Lists!SyncBatch(c).signal = <<"none", 0>>
  BY NewBatches DEF Lists!NoSignal
<1>2. /\ timelines["graphics"] \in Nat /\ timelines["transfer"] \in Nat
      /\ Lists!SparseValue(c) \in Nat /\ Lists!ExecValue(c) \in Nat /\ Lists!LastValue(c) \in Nat
           /\ Lists!UploadValue(c) \in Nat
      /\ timelines["graphics"] <= Lists!SparseValue(c) /\ Lists!SparseValue(c) < Lists!ExecValue(c)
      /\ Lists!ExecValue(c) <= Lists!LastValue(c) /\ timelines["transfer"] <= Lists!UploadValue(c)
      /\ c.sparse => timelines["graphics"] < Lists!SparseValue(c)
      /\ c.wsi => Lists!ExecValue(c) < Lists!LastValue(c)
      /\ Lists!Uploads(c) => timelines["transfer"] < Lists!UploadValue(c)
  BY NewValues
<1>3. Len(issued) \in Nat
  BY NewBatches
<1>4. b.signal[1] \in Lists!Semaphores /\ b.signal[2] \in Nat
        /\ timelines[b.signal[1]] < b.signal[2]
  <2>1. \/ c.sparse /\ b.signal = <<"graphics", Lists!SparseValue(c)>>
        \/ Lists!Uploads(c) /\ b.signal = <<"transfer", Lists!UploadValue(c)>>
        \/ b.signal = <<"graphics", Lists!ExecValue(c)>>
        \/ c.wsi /\ b.signal = <<"graphics", Lists!LastValue(c)>>
    BY <1>1, NewCalls DEF Signals, Lists!NoSignal
  <2> QED
    BY <1>2, <2>1 DEF Lists!Semaphores
<1>5. /\ b.signal[1] = "graphics" => b.signal[2] <= Lists!LastValue(c)
      /\ b.signal[1] = "transfer" => b.signal[2] <= Lists!UploadValue(c)
  BY <1>1, <1>2, NewCalls DEF Signals, Lists!NoSignal
<1>6. ASSUME NEW d \in Lists!Iteration(c), d.signal[1] = b.signal[1], b.call < d.call
      PROVE  b.signal[2] < d.signal[2]
  <2>1. \/ c.sparse /\ b.signal = <<"graphics", Lists!SparseValue(c)>>
             /\ b.call = 5 * Len(issued) + 1
        \/ b.signal = <<"transfer", Lists!UploadValue(c)>> /\ b.call = 5 * Len(issued) + 2
        \/ b.signal = <<"graphics", Lists!ExecValue(c)>> /\ b.call = 5 * Len(issued) + 3
        \/ b.signal = <<"graphics", Lists!LastValue(c)>> /\ b.call = 5 * Len(issued) + 4
    BY <1>1, NewCalls DEF Signals, Lists!NoSignal
  <2>2. \/ d.signal = <<"graphics", Lists!SparseValue(c)>> /\ d.call = 5 * Len(issued) + 1
        \/ d.signal = <<"transfer", Lists!UploadValue(c)>> /\ d.call = 5 * Len(issued) + 2
        \/ d.signal = <<"graphics", Lists!ExecValue(c)>> /\ d.call = 5 * Len(issued) + 3
        \/ c.wsi /\ d.signal = <<"graphics", Lists!LastValue(c)>> /\ d.call = 5 * Len(issued) + 4
        \/ d.signal = <<"none", 0>>
    BY <1>1, NewCalls
  <2>3. b.signal[1] # "none"
    BY <1>4 DEF Lists!Semaphores
  <2> DEFINE K == 5 * Len(issued)
  <2>4. K \in Nat
    BY <1>3
  <2>5. /\ c.sparse => timelines["graphics"] < Lists!SparseValue(c)
        /\ b.call < d.call /\ b.signal[1] = d.signal[1]
    BY <1>2, <1>6
  <2>6. \/ c.sparse /\ b.signal[1] = "graphics" /\ b.signal[2] = Lists!SparseValue(c)
             /\ b.call = K + 1
        \/ b.signal[1] = "transfer" /\ b.call = K + 2
        \/ b.signal[1] = "graphics" /\ b.signal[2] = Lists!ExecValue(c) /\ b.call = K + 3
        \/ b.signal[1] = "graphics" /\ b.call = K + 4
    BY <2>1
  <2>7. \/ d.signal[1] = "graphics" /\ d.call = K + 1
        \/ d.signal[1] = "transfer" /\ d.call = K + 2
        \/ d.signal[1] = "graphics" /\ d.signal[2] = Lists!ExecValue(c) /\ d.call = K + 3
        \/ c.wsi /\ d.signal[1] = "graphics" /\ d.signal[2] = Lists!LastValue(c) /\ d.call = K + 4
        \/ d.signal[1] = "none"
    BY <2>2
  <2> HIDE DEF K
  <2> QED
    BY <1>2, <2>3, <2>4, <2>5, <2>6, <2>7
<1> QED
  BY <1>4, <1>5, <1>6

LEMMA TakeSignals ==
  ASSUME Inv, NEW c \in Lists!Submissions, NEW made, Takes(c, made)
  PROVE  SignalsInv'
<1>1. /\ ~failed /\ made \subseteq Lists!Iteration(c) /\ batches' = batches \union made
           /\ semaphore' = semaphore
      /\ SignalsInv
  BY DEF Inv, Takes
<1>2. /\ timelines'["graphics"] = Lists!LastValue(c)
           /\ timelines'["transfer"] = Lists!UploadValue(c)
      /\ \A s \in Lists!Semaphores : timelines[s] \in Nat /\ timelines'[s] \in Nat
           /\ timelines[s] <= timelines'[s]
      /\ \A b \in made : b.call \in Nat /\ b.call > 5 * Len(issued)
      /\ \A b \in batches : b.call \in Nat /\ b.call <= 5 * Len(issued)
      /\ Len(issued) \in Nat
  BY TakenFacts
<1>3. \A s \in Lists!Semaphores : semaphore[s] \in Nat /\ semaphore[s] <= timelines[s]
  BY DEF Inv, SubTypes, WaitsInv
<1>4. ASSUME NEW b \in batches, Signals(b)
      PROVE  /\ b.signal[1] \in Lists!Semaphores /\ b.signal[2] \in Nat
             /\ b.signal[2] <= timelines[b.signal[1]] /\ semaphore[b.signal[1]] < b.signal[2]
  BY <1>4, BatchType DEF Inv, Lists!Semaphores
<1>5. ASSUME NEW b \in batches', Signals(b)
      PROVE  semaphore'[b.signal[1]] < b.signal[2] /\ b.signal[2] <= timelines'[b.signal[1]]
  <2>1. CASE b \in batches
    BY <1>1, <1>2, <1>4, <1>5, <2>1
  <2>2. CASE b \in made
    <3>1. /\ b.signal[1] \in Lists!Semaphores /\ b.signal[2] \in Nat
               /\ timelines[b.signal[1]] < b.signal[2]
          /\ b.signal[1] = "graphics" => b.signal[2] <= Lists!LastValue(c)
          /\ b.signal[1] = "transfer" => b.signal[2] <= Lists!UploadValue(c)
      BY <1>1, <1>5, <2>2, NewSignals
    <3>2. semaphore'[b.signal[1]] < b.signal[2]
      BY <1>1, <1>2, <1>3, <3>1
    <3> QED
      BY <1>2, <3>1, <3>2 DEF Lists!Semaphores
  <2> QED
    BY <1>1, <2>1, <2>2
<1>6. ASSUME NEW b \in batches', NEW d \in batches', Signals(b), d.signal[1] = b.signal[1],
               b.call < d.call
      PROVE  b.signal[2] < d.signal[2]
  <2>1. CASE b \in batches /\ d \in batches
    BY <1>1, <1>6, <2>1 DEF SignalsInv
  <2>2. CASE b \in batches /\ d \in made
    <3>1. b.signal[1] \in Lists!Semaphores /\ b.signal[2] \in Nat
            /\ b.signal[2] <= timelines[b.signal[1]]
      BY <1>4, <1>6, <2>2
    <3>2. Signals(d)
      BY <1>6, <3>1 DEF Signals, Lists!NoSignal, Lists!Semaphores
    <3>3. d.signal[2] \in Nat /\ timelines[d.signal[1]] < d.signal[2]
      BY <1>1, <2>2, <3>2, NewSignals
    <3> QED
      BY <1>2, <1>6, <3>1, <3>3
  <2>3. CASE b \in made /\ d \in made
    BY <1>1, <1>6, <2>3, NewSignals
  <2>4. ~(b \in made /\ d \in batches)
    BY <1>2, <1>6
  <2> QED
    BY <1>1, <2>1, <2>2, <2>3, <2>4
<1> QED
  BY <1>5, <1>6 DEF SignalsInv, Signals

LEMMA TakeWaits ==
  ASSUME Inv, NEW c \in Lists!Submissions, NEW made, Takes(c, made)
  PROVE  WaitsInv'
<1>1. /\ ~failed /\ made \subseteq Lists!Iteration(c) /\ batches' = batches \union made
           /\ semaphore' = semaphore
      /\ WaitsInv
  BY DEF Inv, Takes
<1>2. /\ timelines'["graphics"] = Lists!LastValue(c)
           /\ timelines'["transfer"] = Lists!UploadValue(c)
      /\ \A s \in Lists!Semaphores : timelines[s] \in Nat /\ timelines'[s] \in Nat
           /\ timelines[s] <= timelines'[s]
      /\ \A b \in made : b.call \in Nat /\ b.call > 5 * Len(issued)
      /\ \A b \in batches : b.call \in Nat /\ b.call <= 5 * Len(issued)
      /\ Len(issued) \in Nat
  BY TakenFacts
<1>3. \A s \in Lists!Semaphores : semaphore[s] \in Nat /\ semaphore[s] <= timelines[s]
  BY DEF Inv, SubTypes, WaitsInv
<1> DEFINE Sound(w, b) ==
             \/ w = <<"fence", 1>>
             \/ w[1] \in Lists!Semaphores /\ w[2] <= semaphore[w[1]]
             \/ w[1] \in Lists!Semaphores /\ \E d \in batches' : d.signal = w /\ d.call < b.call
<1>4. ASSUME NEW b \in made, NEW s \in Lists!Semaphores
      PROVE  Sound(<<s, timelines[s]>>, b)
  <2>1. CASE timelines[s] = semaphore[s]
    BY <1>3, <2>1
  <2>2. CASE \E d \in batches : d.signal = <<s, timelines[s]>>
    <3>1. PICK d \in batches : d.signal = <<s, timelines[s]>>
      BY <2>2
    <3>2. d.call < b.call
      <4>1. d.call <= 5 * Len(issued) /\ b.call > 5 * Len(issued) /\ d.call \in Nat
              /\ b.call \in Nat
        BY <1>2
      <4> QED
        BY <1>2, <4>1
    <3> QED
      BY <1>1, <3>1, <3>2
  <2> QED
    BY <1>1, <2>1, <2>2 DEF WaitsInv
<1>5. ASSUME NEW b \in made, NEW w \in Lists!Waits(c), b.call > 5 * Len(issued) + 1
      PROVE  Sound(w, b)
  <2>1. CASE w \in carried
    <3>1. w = <<"graphics", timelines["graphics"]>>
      BY <1>1, <2>1 DEF Inv, SubTypes
    <3> QED
      BY <1>4, <3>1 DEF Lists!Semaphores
  <2>2. CASE c.sparse /\ w = <<"graphics", Lists!SparseValue(c)>>
    <3>1. Lists!SparseBatch(c) \in Lists!Iteration(c)
            /\ Lists!SparseBatch(c).call = 5 * Len(issued) + 1 /\ Lists!SparseBatch(c).signal = w
      BY <1>1, <2>2, NewMembers, NewBatches
    <3>2. Lists!SparseBatch(c).call < b.call
      BY <1>2, <1>5, <3>1
    <3>3. Lists!SparseBatch(c) \in made
      BY <1>1, <3>1, <3>2 DEF Takes
    <3> QED
      BY <1>1, <2>2, <3>1, <3>2, <3>3 DEF Lists!Semaphores
  <2>3. CASE w = <<"fence", 1>>
    BY <2>3
  <2> QED
    BY <2>1, <2>2, <2>3 DEF Lists!Waits
<1>6. ASSUME NEW b \in made, NEW w \in b.waits
      PROVE  Sound(w, b)
  <2>1. b \in Lists!Iteration(c)
    BY <1>1
  <2>2. CASE b = Lists!SparseBatch(c)
    <3>1. w \in {<<"graphics", timelines["graphics"]>>, <<"transfer", timelines["transfer"]>>}
      BY <1>1, <1>6, <2>2, NewBatches
    <3> QED
      BY <1>4, <3>1 DEF Lists!Semaphores
  <2>3. CASE Lists!Uploads(c) /\ b = Lists!UploadBatch(c)
    <3>1. w \in Lists!Waits(c) /\ b.call = 5 * Len(issued) + 2
      BY <1>1, <1>6, <2>3, NewBatches
    <3> QED
      BY <1>2, <1>5, <3>1
  <2>4. CASE b = Lists!ExecBatch(c)
    <3>1. b.call = 5 * Len(issued) + 3 /\ w \in (IF Lists!Uploads(c) THEN {<<"transfer",
            Lists!UploadValue(c)>>} ELSE Lists!Waits(c))
      BY <1>1, <1>6, <2>4, NewBatches
    <3>2. CASE ~Lists!Uploads(c)
      BY <1>2, <1>5, <3>1, <3>2
    <3>3. CASE Lists!Uploads(c)
      <4>1. Lists!UploadBatch(c) \in Lists!Iteration(c)
              /\ Lists!UploadBatch(c).call = 5 * Len(issued) + 2
            /\ Lists!UploadBatch(c).signal = <<"transfer", Lists!UploadValue(c)>>
                 /\ w = <<"transfer", Lists!UploadValue(c)>>
        BY <1>1, <3>1, <3>3, NewMembers, NewBatches
      <4>2. Lists!UploadBatch(c).call < b.call
        BY <1>2, <3>1, <4>1
      <4>3. Lists!UploadBatch(c) \in made
        BY <4>1, <4>2 DEF Takes
      <4> QED
        BY <1>1, <4>1, <4>2, <4>3 DEF Lists!Semaphores
    <3> QED
      BY <3>2, <3>3
  <2>5. CASE b = Lists!WsiBatch(c)
    BY <1>1, <1>6, <2>5, NewBatches
  <2>6. CASE b = Lists!SyncBatch(c)
    <3>1. w = <<"graphics", Lists!LastValue(c)>> /\ b.call = 5 * Len(issued) + 5
      BY <1>1, <1>6, <2>6, NewBatches DEF Lists!SyncWaits
    <3>2. PICK d \in Lists!Iteration(c) : d.signal = <<"graphics", Lists!LastValue(c)>>
            /\ d.call < b.call
      <4>1. CASE c.wsi
        <5>1. Lists!WsiBatch(c).call = 5 * Len(issued) + 4
                /\ Lists!WsiBatch(c).signal = <<"graphics", Lists!LastValue(c)>>
          BY <1>1, NewBatches
        <5> QED
          BY <1>2, <3>1, <4>1, <5>1, NewMembers
      <4>2. CASE ~c.wsi
        <5>1. Lists!ExecBatch(c).call = 5 * Len(issued) + 3
                /\ Lists!ExecBatch(c).signal = <<"graphics", Lists!ExecValue(c)>>
          BY <1>1, NewBatches
        <5>2. Lists!ExecValue(c) = Lists!LastValue(c)
          BY <1>1, <4>2, NewValues
        <5> QED
          BY <1>2, <3>1, <5>1, <5>2, NewMembers
      <4> QED
        BY <4>1, <4>2
    <3>3. d \in made
      BY <3>2 DEF Takes
    <3> QED
      BY <1>1, <3>1, <3>2, <3>3 DEF Lists!Semaphores
  <2> QED
    BY <1>1, <2>1, <2>2, <2>3, <2>4, <2>5, <2>6, NewCalls
<1>7. ASSUME NEW b \in batches, NEW w \in b.waits
      PROVE  Sound(w, b)
  BY <1>1 DEF WaitsInv
<1>8. ASSUME ~failed', NEW s \in Lists!Semaphores
      PROVE  timelines'[s] = semaphore[s] \/ \E d \in batches' : d.signal = <<s, timelines'[s]>>
  <2>1. made = Lists!Iteration(c)
    BY <1>8 DEF Takes
  <2>2. CASE s = "graphics"
    <3>1. CASE c.wsi
      <4>1. Lists!WsiBatch(c) \in made /\ Lists!WsiBatch(c).signal = <<"graphics",
              Lists!LastValue(c)>>
        BY <1>1, <2>1, <3>1, NewBatches, NewMembers
      <4> QED
        BY <1>1, <1>2, <2>2, <4>1
    <3>2. CASE ~c.wsi
      <4>1. Lists!ExecBatch(c) \in made /\ Lists!ExecBatch(c).signal = <<"graphics",
              Lists!ExecValue(c)>>
        BY <1>1, <2>1, NewBatches, NewMembers
      <4>2. Lists!ExecValue(c) = Lists!LastValue(c)
        BY <1>1, <3>2, NewValues
      <4> QED
        BY <1>1, <1>2, <2>2, <4>1, <4>2
    <3> QED
      BY <3>1, <3>2
  <2>3. CASE s = "transfer"
    <3>1. CASE Lists!Uploads(c)
      <4>1. Lists!UploadBatch(c) \in made /\ Lists!UploadBatch(c).signal = <<"transfer",
              Lists!UploadValue(c)>>
        BY <1>1, <2>1, <3>1, NewBatches, NewMembers
      <4> QED
        BY <1>1, <1>2, <2>3, <4>1
    <3>2. CASE ~Lists!Uploads(c)
      <4>1. timelines'[s] = timelines[s]
        BY <1>1, <1>2, <2>3, <3>2, NewValues
      <4> QED
        BY <1>1, <4>1 DEF WaitsInv
    <3> QED
      BY <3>1, <3>2
  <2> QED
    BY <2>2, <2>3 DEF Lists!Semaphores
<1>9. \A s \in Lists!Semaphores : semaphore'[s] <= timelines'[s]
  BY <1>1, <1>2, <1>3
<1>10. \A b \in batches' : \A w \in b.waits : Sound(w, b)
  BY <1>1, <1>6, <1>7
<1>11. semaphore' = semaphore
  BY <1>1
<1> QED
  BY <1>8, <1>9, <1>10, <1>11 DEF WaitsInv

\* On which queue the batches of a submission are.
LEMMA NewQueues ==
  ASSUME Inv, NEW c \in Lists!Submissions, ~failed, NEW b \in Lists!Iteration(c)
  PROVE  /\ b.queue \in Lists!Queues
         /\ b.queue = "sparse" => c.sparse /\ b = Lists!SparseBatch(c)
         /\ b.queue = "transfer" => dedicated /\ b.call >= 5 * Len(issued) + 2
         /\ b.queue = "transfer" /\ Signals(b) => Lists!Uploads(c) /\ b = Lists!UploadBatch(c)
         /\ b.queue = "graphics" /\ Signals(b) => b.signal[1] = "graphics"
<1>1. dedicated \in BOOLEAN /\ (Lists!Uploads(c) => dedicated) /\ Len(issued) \in Nat
  BY NewBatches DEF Inv, SubTypes
<1>2. /\ Lists!SparseBatch(c).queue = "sparse"
      /\ Lists!Uploads(c) => Lists!UploadBatch(c).queue = "transfer"
           /\ Lists!UploadBatch(c).call = 5 * Len(issued) + 2
      /\ Lists!ExecBatch(c).queue = "graphics" /\ Lists!ExecBatch(c).signal = <<"graphics",
           Lists!ExecValue(c)>>
      /\ Lists!WsiBatch(c).queue = "graphics" /\ Lists!WsiBatch(c).signal = <<"graphics",
           Lists!LastValue(c)>>
      /\ Lists!SyncBatch(c).queue = (IF dedicated THEN "transfer" ELSE "graphics")
      /\ Lists!SyncBatch(c).call = 5 * Len(issued) + 5 /\ Lists!SyncBatch(c).signal = Lists!NoSignal
  BY NewBatches
<1>3. CASE c.sparse /\ b = Lists!SparseBatch(c)
  BY <1>2, <1>3 DEF Lists!Queues
<1>4. CASE Lists!Uploads(c) /\ b = Lists!UploadBatch(c)
  BY <1>1, <1>2, <1>4 DEF Lists!Queues
<1>5. CASE b = Lists!ExecBatch(c) \/ b = Lists!WsiBatch(c)
  BY <1>2, <1>5 DEF Lists!Queues
<1>6. CASE b = Lists!SyncBatch(c)
  <2>1. b.queue \in Lists!Queues /\ b.queue # "sparse" /\ (b.queue = "transfer"
          => dedicated) /\ ~Signals(b)
    BY <1>1, <1>2, <1>6 DEF Signals, Lists!Queues
  <2>2. b.call >= 5 * Len(issued) + 2
    BY <1>1, <1>2, <1>6
  <2> QED
    BY <2>1, <2>2
<1> QED
  BY <1>3, <1>4, <1>5, <1>6, NewCalls

LEMMA TakeSparse ==
  ASSUME Inv, NEW c \in Lists!Submissions, NEW made, Takes(c, made)
  PROVE  SparseInv'
<1>1. /\ ~failed /\ made \subseteq Lists!Iteration(c) /\ batches' = batches \union made
      /\ SparseInv
  BY DEF Inv, Takes
<1>2. /\ \A b \in made : b.call \in Nat /\ b.call > 5 * Len(issued)
      /\ \A b \in batches : b.call \in Nat /\ b.call <= 5 * Len(issued)
      /\ Len(issued) \in Nat
  BY TakenFacts
<1>3. ASSUME NEW b \in batches', NEW d \in batches', d.queue = "sparse", b.call < d.call, Signals(b)
      PROVE  Holds(b, d)
  <2>1. CASE b \in batches /\ d \in batches
    BY <1>1, <1>3, <2>1 DEF SparseInv
  <2>2. CASE d \in made
    <3>1. d = Lists!SparseBatch(c) /\ d.call = 5 * Len(issued) + 1
          /\ d.waits = {<<"graphics", timelines["graphics"]>>, <<"transfer",
               timelines["transfer"]>>}
      BY <1>1, <1>3, <2>2, NewQueues, NewBatches
    <3>2. b \in batches
      BY <1>1, <1>2, <1>3, <3>1
    <3>3. b.signal[1] \in Lists!Semaphores /\ b.signal[2] <= timelines[b.signal[1]]
      BY <1>3, <3>2, BatchType DEF Inv, Lists!Semaphores
    <3>4. <<b.signal[1], timelines[b.signal[1]]>> \in d.waits
      BY <3>1, <3>3 DEF Lists!Semaphores
    <3>5. timelines[b.signal[1]] \in Nat /\ b.signal[2] \in Nat
      BY <1>3, <3>2, <3>3, BatchType DEF Inv, SubTypes
    <3> QED
      BY <3>3, <3>4, <3>5 DEF Holds
  <2>3. ~(b \in made /\ d \in batches)
    BY <1>2, <1>3
  <2> QED
    BY <1>1, <2>1, <2>2, <2>3
<1> QED
  BY <1>3 DEF SparseInv, Signals, Holds

LEMMA TakeSparseStalls ==
  ASSUME Inv, NEW c \in Lists!Submissions, NEW made, Takes(c, made)
  PROVE  SparseStalls'
<1>1. /\ ~failed /\ made \subseteq Lists!Iteration(c) /\ batches' = batches \union made
      /\ dedicated' = dedicated /\ SparseStalls
  BY DEF Inv, Takes
<1>2. /\ \A b \in made : b.call \in Nat /\ b.call > 5 * Len(issued)
      /\ \A b \in batches : b.call \in Nat /\ b.call <= 5 * Len(issued)
      /\ Len(issued) \in Nat
  BY TakenFacts
<1>3. ASSUME NEW b \in made, b.queue = "sparse"
      PROVE  /\ GateBatch(c) \in Lists!Iteration(c) /\ Gates(b, GateBatch(c))
                  /\ b.call = 5 * Len(issued) + 1
             /\ \A d \in Lists!Iteration(c) : d.call > 5 * Len(issued) + 1
                  => GateBatch(c).call <= d.call
  <2>1. c.sparse /\ b = Lists!SparseBatch(c)
    BY <1>1, <1>3, NewQueues
  <2>2. b.signal = <<"graphics", Lists!SparseValue(c)>> /\ b.call = 5 * Len(issued) + 1
    BY <1>1, <2>1, NewBatches
  <2>3. <<"graphics", Lists!SparseValue(c)>> \in Lists!Waits(c) /\ Lists!SparseValue(c) \in Nat
    BY <1>1, <2>1, NewValues DEF Lists!Waits
  <2>4. Holds(b, GateBatch(c))
    BY <1>1, <2>2, <2>3, Gated DEF Holds
  <2> QED
    BY <1>1, <2>2, <2>3, <2>4, Gated DEF Gates
<1>4. ASSUME NEW b \in batches', b.queue = "sparse", ~failed'
      PROVE  \E t \in batches' : Gates(b, t)
  <2>1. CASE b \in batches
    BY <1>1, <1>4, <2>1 DEF SparseStalls
  <2>2. CASE b \in made
    BY <1>1, <1>3, <1>4, <2>2 DEF Takes
  <2> QED
    BY <1>1, <2>1, <2>2
<1>5. ASSUME NEW b \in batches', b.queue = "sparse", NEW d \in batches', d.queue # "sparse",
               b.call < d.call
      PROVE  \E t \in batches' : Gates(b, t) /\ t.call <= d.call
  <2>1. CASE b \in batches /\ d \in batches
    BY <1>1, <1>5, <2>1 DEF SparseStalls
  <2>2. CASE b \in batches /\ d \in made
    <3>1. PICK t \in batches : Gates(b, t)
      BY <1>1, <1>5, <2>2 DEF SparseStalls
    <3>2. t.call <= d.call
      BY <1>2, <2>2
    <3> QED
      BY <1>1, <3>1, <3>2
  <2>3. CASE b \in made /\ d \in made
    <3>1. GateBatch(c) \in Lists!Iteration(c) /\ Gates(b, GateBatch(c))
            /\ GateBatch(c).call <= d.call
      BY <1>1, <1>3, <1>5, <2>3
    <3>2. GateBatch(c) \in made
      BY <2>3, <3>1, EarlierMade
    <3> QED
      BY <1>1, <3>1, <3>2
  <2>4. ~(b \in made /\ d \in batches)
    BY <1>2, <1>5
  <2> QED
    BY <1>1, <2>1, <2>2, <2>3, <2>4
<1> QED
  BY <1>1, <1>4, <1>5 DEF SparseStalls, Gates, Gate, Signals, Holds

LEMMA TakeUploadStalls ==
  ASSUME Inv, NEW c \in Lists!Submissions, NEW made, Takes(c, made)
  PROVE  UploadStalls'
<1>1. /\ ~failed /\ made \subseteq Lists!Iteration(c) /\ batches' = batches \union made
      /\ UploadStalls
  BY DEF Inv, Takes
<1>2. /\ \A b \in made : b.call \in Nat /\ b.call > 5 * Len(issued)
      /\ \A b \in batches : b.call \in Nat /\ b.call <= 5 * Len(issued)
      /\ Len(issued) \in Nat
  BY TakenFacts
<1>3. ASSUME NEW b \in made, b.queue = "transfer", Signals(b)
      PROVE  /\ b.call = 5 * Len(issued) + 2 /\ Holds(b, Lists!ExecBatch(c))
             /\ Lists!ExecBatch(c) \in Lists!Iteration(c) /\ Lists!ExecBatch(c).queue = "graphics"
             /\ Lists!ExecBatch(c).call = 5 * Len(issued) + 3
  <2>1. Lists!Uploads(c) /\ b = Lists!UploadBatch(c)
    BY <1>1, <1>3, NewQueues
  <2>2. b.signal = <<"transfer", Lists!UploadValue(c)>> /\ b.call = 5 * Len(issued) + 2
        /\ Lists!ExecBatch(c).waits = {<<"transfer", Lists!UploadValue(c)>>}
             /\ Lists!ExecBatch(c).queue = "graphics"
        /\ Lists!ExecBatch(c).call = 5 * Len(issued) + 3
    BY <1>1, <2>1, NewBatches
  <2>3. Lists!UploadValue(c) \in Nat
    BY <1>1, NewValues
  <2> QED
    BY <2>2, <2>3, NewMembers DEF Holds
<1>4. ASSUME NEW b \in batches', b.queue = "transfer", Signals(b), ~failed'
      PROVE  \E t \in batches' : t.queue = "graphics" /\ Holds(b, t)
  <2>1. CASE b \in batches
    BY <1>1, <1>4, <2>1 DEF UploadStalls, Kept
  <2>2. CASE b \in made
    BY <1>1, <1>3, <1>4, <2>2 DEF Takes
  <2> QED
    BY <1>1, <2>1, <2>2
<1>5. ASSUME NEW b \in batches', b.queue = "transfer", Signals(b),
             NEW d \in batches', d.queue = "graphics", b.call < d.call
      PROVE  \E t \in batches' : t.queue = "graphics" /\ t.call <= d.call /\ Holds(b, t)
  <2>1. CASE b \in batches /\ d \in batches
    BY <1>1, <1>5, <2>1 DEF UploadStalls, Covered
  <2>2. CASE b \in batches /\ d \in made
    <3>1. PICK t \in batches : t.queue = "graphics" /\ Holds(b, t)
      BY <1>1, <1>5, <2>2 DEF UploadStalls, Kept
    <3>2. t.call <= d.call
      BY <1>2, <2>2
    <3> QED
      BY <1>1, <3>1, <3>2
  <2>3. CASE b \in made /\ d \in made
    <3>1. Lists!ExecBatch(c) \in Lists!Iteration(c) /\ Lists!ExecBatch(c).queue = "graphics"
            /\ Holds(b, Lists!ExecBatch(c))
          /\ Lists!ExecBatch(c).call = 5 * Len(issued) + 3 /\ b.call = 5 * Len(issued) + 2
      BY <1>3, <1>5, <2>3
    <3>2. Lists!ExecBatch(c).call <= d.call
      BY <1>2, <1>5, <2>3, <3>1
    <3>3. Lists!ExecBatch(c) \in made
      BY <2>3, <3>1, <3>2, EarlierMade
    <3> QED
      BY <1>1, <3>1, <3>2, <3>3
  <2>4. ~(b \in made /\ d \in batches)
    BY <1>2, <1>5
  <2> QED
    BY <1>1, <2>1, <2>2, <2>3, <2>4
<1> QED
  BY <1>4, <1>5 DEF UploadStalls, Kept, Covered, Signals, Holds

LEMMA TakeFenceStalls ==
  ASSUME Inv, NEW c \in Lists!Submissions, NEW made, Takes(c, made)
  PROVE  FenceStalls'
<1>1. /\ ~failed /\ made \subseteq Lists!Iteration(c) /\ batches' = batches \union made
      /\ dedicated' = dedicated /\ fence' = fence /\ FenceStalls
  BY DEF Inv, Takes
<1>2. /\ \A b \in made : b.call \in Nat /\ b.call > 5 * Len(issued)
      /\ \A b \in batches : b.call \in Nat /\ b.call <= 5 * Len(issued)
      /\ Len(issued) \in Nat
      /\ \A n \in DOMAIN issued : n \in DOMAIN issued' /\ issued'[n] = issued[n]
           /\ n \in 1..Len(issued)
      /\ \A n \in DOMAIN issued' : n \in DOMAIN issued \/ n = Len(issued) + 1
      /\ issued'[Len(issued) + 1] = [list |-> list, index |-> index + 1, flags |-> c]
  BY TakenFacts
<1>3. ASSUME c.fence
      PROVE  /\ GateBatch(c) \in Lists!Iteration(c) /\ FenceGate(GateBatch(c))
             /\ \A d \in Lists!Iteration(c) : d.call > 5 * Len(issued) + 1
                  => GateBatch(c).call <= d.call
  <2>1. <<"fence", 1>> \in Lists!Waits(c)
    BY <1>3 DEF Lists!Waits
  <2> QED
    BY <1>1, <2>1, Gated DEF FenceGate
<1> SUFFICES ASSUME ~fence, NEW n \in Fences'
             PROVE  /\ ~failed' => \E t \in batches' : FenceGate(t)
                    /\ \A d \in batches' : d.call > 5 * (n - 1) + 1 =>
                         \E t \in batches' : FenceGate(t) /\ t.call <= d.call
  BY <1>1 DEF FenceStalls, FenceGate, Gate, Signals, Lists!Calls
<1>4. CASE n \in DOMAIN issued
  <2>1. n \in Fences
    BY <1>2, <1>4 DEF Fences
  <2>2. PICK t \in batches : FenceGate(t)
    BY <1>1, <2>1 DEF FenceStalls
  <2>3. ASSUME NEW d \in batches', d.call > 5 * (n - 1) + 1
        PROVE  \E u \in batches' : FenceGate(u) /\ u.call <= d.call
    <3>1. CASE d \in batches
      BY <1>1, <2>1, <2>3, <3>1 DEF FenceStalls, Lists!Calls
    <3>2. CASE d \in made
      BY <1>1, <1>2, <2>2, <3>2
    <3> QED
      BY <1>1, <3>1, <3>2
  <2> QED
    BY <1>1, <2>2, <2>3
<1>5. CASE n = Len(issued) + 1
  <2>1. c.fence
    BY <1>2, <1>5 DEF Fences
  <2>2. ASSUME ~failed'
        PROVE  \E t \in batches' : FenceGate(t)
    BY <1>1, <1>3, <2>1, <2>2 DEF Takes
  <2>3. ASSUME NEW d \in batches', d.call > 5 * (n - 1) + 1
        PROVE  \E t \in batches' : FenceGate(t) /\ t.call <= d.call
    <3>1. d \in made /\ d.call > 5 * Len(issued) + 1
      BY <1>1, <1>2, <1>5, <2>3
    <3>2. GateBatch(c) \in Lists!Iteration(c) /\ FenceGate(GateBatch(c))
            /\ GateBatch(c).call <= d.call
      BY <1>1, <1>3, <2>1, <3>1
    <3>3. GateBatch(c) \in made
      BY <3>1, <3>2, EarlierMade
    <3> QED
      BY <1>1, <3>2, <3>3
  <2> QED
    BY <2>2, <2>3
<1> QED
  BY <1>2, <1>4, <1>5 DEF Fences

LEMMA TakeIssued ==
  ASSUME Inv, NEW c \in Lists!Submissions, NEW made, Takes(c, made)
  PROVE  IssuedInv'
<1>1. ~failed /\ IssuedInv /\ index \in Nat /\ list \in Nat
  BY SubmissionConstants DEF Inv, Takes, SubTypes, Lists!SubmissionAssumption
<1>2. /\ Len(issued) \in Nat
      /\ \A n \in DOMAIN issued : n \in DOMAIN issued' /\ issued'[n] = issued[n]
           /\ n \in 1..Len(issued)
      /\ \A n \in DOMAIN issued' : n \in DOMAIN issued \/ n = Len(issued) + 1
      /\ issued'[Len(issued) + 1] = [list |-> list, index |-> index + 1, flags |-> c]
      /\ Len(issued') = Len(issued) + 1
  BY TakenFacts
<1>3. ASSUME NEW n \in DOMAIN issued
      PROVE  /\ issued[n].list \in Nat /\ issued[n].index \in Nat
             /\ issued[n].list < list \/ (issued[n].list = list /\ issued[n].index <= index)
             /\ issued[n].flags.fence => issued[n].index = 1
  <2>1. issued \in Seq([list : 1..MaxLists, index : 1..MaxSubmissions, flags : Flags])
    BY DEF Inv, SubTypes
  <2>2. issued[n] \in [list : 1..MaxLists, index : 1..MaxSubmissions, flags : Flags]
    BY <2>1, ElementOfSeq, LenProperties
  <2>3. issued[n].list \in Nat /\ issued[n].index \in Nat
    BY <2>2, SubmissionConstants DEF Lists!SubmissionAssumption
  <2> QED
    BY <1>1, <2>3 DEF IssuedInv
<1>4. \/ list' = list + 1 /\ index' = 0
      \/ list' = list /\ index' = index + 1
      \/ list' = list /\ index' = index /\ failed'
  BY DEF Takes
<1>5. ASSUME NEW m \in DOMAIN issued', NEW n \in DOMAIN issued', m < n
      PROVE  Before(issued'[m], issued'[n])
  <2>1. CASE m \in DOMAIN issued /\ n \in DOMAIN issued
    BY <1>1, <1>2, <1>5, <2>1 DEF IssuedInv, Before
  <2>2. CASE m \in DOMAIN issued /\ n = Len(issued) + 1
    <3>1. issued'[m] = issued[m] /\ issued'[n].list = list /\ issued'[n].index = index + 1
      BY <1>2, <2>2
    <3> QED
      BY <1>1, <1>3, <2>2, <3>1 DEF Before
  <2>3. m \in DOMAIN issued
    <3>1. m # Len(issued) + 1
      BY <1>2, <1>5
    <3> QED
      BY <1>2, <3>1
  <2> QED
    BY <1>2, <2>1, <2>2, <2>3
<1>6. ASSUME NEW n \in DOMAIN issued'
      PROVE  /\ \/ issued'[n].list < list'
                \/ issued'[n].list = list' /\ (issued'[n].index <= index' \/ failed')
             /\ issued'[n].flags.fence => issued'[n].index = 1
  <2>1. CASE n \in DOMAIN issued
    BY <1>1, <1>2, <1>3, <1>4, <2>1
  <2>2. CASE n = Len(issued) + 1
    <3>1. issued'[n].list = list /\ issued'[n].index = index + 1 /\ issued'[n].flags = c
      BY <1>2, <2>2
    <3>2. c.fence => index = 0
      BY DEF Lists!Submissions
    <3> QED
      BY <1>1, <1>4, <3>1, <3>2
  <2> QED
    BY <1>2, <2>1, <2>2
<1> QED
  BY <1>5, <1>6 DEF IssuedInv, Before

LEMMA TakeBarrierStalls ==
  ASSUME Inv, NEW c \in Lists!Submissions, NEW made, Takes(c, made)
  PROVE  BarrierStalls'
<1>1. /\ ~failed /\ made \subseteq Lists!Iteration(c) /\ batches' = batches \union made
      /\ dedicated' = dedicated /\ BarrierStalls
  BY DEF Inv, Takes
<1>2. /\ \A b \in made : b.call \in Nat /\ b.call > 5 * Len(issued)
      /\ \A b \in batches : b.call \in Nat /\ b.call <= 5 * Len(issued)
      /\ Len(issued) \in Nat
      /\ \A n \in DOMAIN issued : n \in DOMAIN issued' /\ issued'[n] = issued[n]
           /\ n \in 1..Len(issued)
      /\ \A n \in DOMAIN issued' : n \in DOMAIN issued \/ n = Len(issued) + 1
      /\ issued'[Len(issued) + 1] = [list |-> list, index |-> index + 1, flags |-> c]
      /\ timelines'["graphics"] = Lists!LastValue(c)
  BY TakenFacts
<1>3. \A b \in batches' : b.queue = "graphics" /\ Signals(b) =>
        b.signal[1] = "graphics" /\ b.signal[2] <= Lists!LastValue(c)
  <2>1. SignalsInv' /\ BatchTypes'
    BY TakeSignals, TakeBatchTypes
  <2>2. \A b \in batches' : b.queue = "graphics" /\ Signals(b) => b.signal[1] = "graphics"
    BY <2>1 DEF BatchTypes, BatchFields, Signals, Lists!Semaphores
  <2> QED
    BY <1>2, <2>1, <2>2 DEF SignalsInv, Signals
<1> SUFFICES ASSUME dedicated, NEW b \in batches', b.queue = "graphics", Signals(b),
                    NEW n \in Barriers', b.call <= 5 * n
             PROVE  /\ ~failed' => \/ \E t \in batches' : t.queue = "transfer" /\ Holds(b, t)
                                   \/ \E w \in carried' : w[2] >= b.signal[2]
                    /\ \A d \in batches' : d.queue = "transfer" /\ 5 * n < d.call =>
                         \E t \in batches' : t.queue = "transfer" /\ t.call <= d.call /\ Holds(b, t)
  BY <1>1 DEF BarrierStalls, Kept, Covered, Holds, Signals, Lists!Calls
<1>4. CASE n \in DOMAIN issued
  <2>1. n \in Barriers /\ n \in 1..Len(issued)
    BY <1>2, <1>4 DEF Barriers
  <2>2. b \in batches
    BY <1>1, <1>2, <2>1
  <2>3. Kept(b, "transfer") \/ \E w \in carried : w[2] >= b.signal[2]
    BY <1>1, <2>1, <2>2 DEF BarrierStalls, Lists!Calls
  <2>4. ASSUME NEW w \in carried, w[2] >= b.signal[2]
        PROVE  /\ Lists!UploadBatch(c) \in Lists!Iteration(c)
                    /\ Lists!UploadBatch(c).queue = "transfer"
               /\ Lists!UploadBatch(c).call = 5 * Len(issued) + 2 /\ Holds(b, Lists!UploadBatch(c))
    <3>1. w \in Lists!Waits(c) /\ Lists!Uploads(c)
      BY <2>4, <1>1, NewBatches DEF Lists!Waits
    <3>2. Lists!UploadBatch(c).queue = "transfer" /\ Lists!UploadBatch(c).call = 5 * Len(issued) + 2
          /\ Lists!UploadBatch(c).waits = Lists!Waits(c)
      BY <1>1, <3>1, NewBatches
    <3>3. w[1] = b.signal[1]
      BY <1>3, <2>4 DEF Inv, SubTypes
    <3> QED
      BY <2>4, <3>1, <3>2, <3>3, NewMembers DEF Holds
  <2>5. ASSUME ~failed'
        PROVE  \E t \in batches' : t.queue = "transfer" /\ Holds(b, t)
    <3>1. made = Lists!Iteration(c)
      BY <2>5 DEF Takes
    <3> QED
      BY <1>1, <2>3, <2>4, <3>1 DEF Kept
  <2>6. ASSUME NEW d \in batches', d.queue = "transfer", 5 * n < d.call
        PROVE  \E t \in batches' : t.queue = "transfer" /\ t.call <= d.call /\ Holds(b, t)
    <3>1. CASE d \in batches
      BY <1>1, <2>1, <2>2, <2>6, <3>1 DEF BarrierStalls, Covered, Lists!Calls
    <3>2. CASE d \in made
      <4>1. d.call \in Nat /\ d.call >= 5 * Len(issued) + 2
        BY <1>1, <1>2, <2>6, <3>2, NewQueues
      <4>2. CASE Kept(b, "transfer")
        BY <1>1, <1>2, <4>1, <4>2 DEF Kept
      <4>3. CASE \E w \in carried : w[2] >= b.signal[2]
        <5>1. Lists!UploadBatch(c) \in Lists!Iteration(c) /\ Lists!UploadBatch(c).queue = "transfer"
              /\ Lists!UploadBatch(c).call <= d.call /\ Holds(b, Lists!UploadBatch(c))
          BY <2>4, <4>1, <4>3
        <5>2. Lists!UploadBatch(c) \in made
          BY <3>2, <5>1, EarlierMade
        <5> QED
          BY <1>1, <5>1, <5>2
      <4> QED
        BY <2>3, <4>2, <4>3
    <3> QED
      BY <1>1, <3>1, <3>2
  <2> QED
    BY <2>5, <2>6
<1>5. CASE n = Len(issued) + 1
  <2>1. c.syncSdma /\ Lists!SyncWaits(c) = {<<"graphics", Lists!LastValue(c)>>}
    BY <1>2, <1>5 DEF Barriers, Lists!SyncWaits
  <2>2. b.signal[1] = "graphics" /\ b.signal[2] <= Lists!LastValue(c) /\ b.signal[2] \in Nat
          /\ Lists!LastValue(c) \in Nat
    <3>1. BatchTypes'
      BY TakeBatchTypes
    <3>2. b.signal[2] \in Nat
      BY <3>1 DEF BatchTypes, BatchFields, Signals
    <3> QED
      BY <1>1, <1>3, <3>2, NewValues
  <2>3. ASSUME ~failed'
        PROVE  \/ \E t \in batches' : t.queue = "transfer" /\ Holds(b, t)
               \/ \E w \in carried' : w[2] >= b.signal[2]
    <3>1. CASE c.last
      <4>1. Lists!SyncBatch(c) \in batches'
        BY <1>1, <2>1, <2>3, <3>1, NewMembers DEF Takes
      <4>2. Lists!SyncBatch(c).queue = "transfer" /\ Lists!SyncBatch(c).waits = {<<"graphics",
              Lists!LastValue(c)>>}
        BY <1>1, <2>1, NewBatches
      <4>3. Holds(b, Lists!SyncBatch(c))
        <5>1. <<"graphics", Lists!LastValue(c)>> \in Lists!SyncBatch(c).waits
          BY <4>2
        <5> QED
          BY <2>2, <5>1 DEF Holds
      <4> QED
        BY <4>1, <4>2, <4>3
    <3>2. CASE ~c.last
      <4>1. carried' = {<<"graphics", Lists!LastValue(c)>>}
        BY <2>1, <2>3, <3>2 DEF Takes
      <4> QED
        BY <2>2, <4>1
    <3> QED
      BY <3>1, <3>2
  <2>4. ASSUME NEW d \in batches', 5 * n < d.call
        PROVE  FALSE
    <3>1. d.call \in Nat /\ d.call <= 5 * Len(issued) + 5
      BY <1>1, <1>2, NewCalls
    <3> QED
      BY <1>2, <1>5, <2>4, <3>1
  <2> QED
    BY <2>3, <2>4
<1> QED
  BY <1>2, <1>4, <1>5 DEF Barriers

-----------------------------------------------------------------------------
(* The work of a submission *)

\* The work of a submission is what its batches carry.
LEMMA NewWork ==
  ASSUME Inv, NEW c \in Lists!Submissions, NEW made, Takes(c, made)
  PROVE  /\ \A b \in Lists!Iteration(c) : \A x \in b.work :
              /\ x \in Lists!WorkOf(issued'[Len(issued) + 1])
              /\ b.call = 5 * Len(issued) + Stage(b) /\ Signals(b)
              /\ x[3] = "sparse" <=> b.queue = "sparse"
              /\ b.queue = "transfer" => x[3] = "sdma"
              /\ b.queue = "graphics" /\ x[3] = "sdma" => ~dedicated
         /\ \A x \in Lists!WorkOf(issued'[Len(issued) + 1]) :
              /\ x[1] = list /\ x[2] = index + 1 /\ x[3] \in {"sparse", "sdma", "exec", "signal"}
              /\ \E b \in Lists!Iteration(c) : x \in b.work
<1>1. ~failed
  BY DEF Takes
<1>2. issued'[Len(issued) + 1] = [list |-> list, index |-> index + 1, flags |-> c]
  BY TakenFacts
<1>3. Lists!WorkOf(issued'[Len(issued) + 1]) =
        {<<list, index + 1, "exec">>}
          \union (IF c.sparse THEN {<<list, index + 1, "sparse">>} ELSE {})
          \union (IF c.sdma THEN {<<list, index + 1, "sdma">>} ELSE {})
          \union (IF c.last THEN {<<list, index + 1, "signal">>} ELSE {})
  BY <1>2 DEF Lists!WorkOf
<1>4. Lists!Uploads(c) \in BOOLEAN /\ dedicated \in BOOLEAN /\ (c.sdma /\ dedicated
        => Lists!Uploads(c)) /\ (Lists!Uploads(c) => dedicated)
      /\ Lists!Sdma(c) = (IF c.sdma THEN {<<list, index + 1, "sdma">>} ELSE {})
  BY <1>1, NewBatches DEF Inv, SubTypes, Lists!Sdma, Lists!Work
<1>5. /\ Lists!SparseBatch(c).queue = "sparse" /\ Lists!SparseBatch(c).work = {<<list, index + 1,
           "sparse">>}
      /\ Lists!SparseBatch(c).signal = <<"graphics", Lists!SparseValue(c)>>
      /\ Lists!Uploads(c) => Lists!UploadBatch(c).queue = "transfer"
           /\ Lists!UploadBatch(c).work = Lists!Sdma(c)
                       /\ Lists!UploadBatch(c).signal = <<"transfer", Lists!UploadValue(c)>>
      /\ Lists!ExecBatch(c).queue = "graphics" /\ Lists!ExecBatch(c).signal = <<"graphics",
           Lists!ExecValue(c)>>
      /\ Lists!ExecBatch(c).work = {<<list, index + 1, "exec">>}
                         \union (IF c.last THEN {<<list, index + 1, "signal">>} ELSE {})
                         \union (IF Lists!Uploads(c) THEN {} ELSE Lists!Sdma(c))
      /\ Lists!WsiBatch(c).work = {} /\ Lists!SyncBatch(c).work = {}
  BY <1>1, NewBatches
<1>6. ASSUME NEW b \in Lists!Iteration(c), NEW x \in b.work
      PROVE  /\ x \in Lists!WorkOf(issued'[Len(issued) + 1])
             /\ b.call = 5 * Len(issued) + Stage(b) /\ Signals(b)
             /\ x[3] = "sparse" <=> b.queue = "sparse"
             /\ b.queue = "transfer" => x[3] = "sdma"
             /\ b.queue = "graphics" /\ x[3] = "sdma" => ~dedicated
  <2>1. CASE c.sparse /\ b = Lists!SparseBatch(c) /\ b.call = 5 * Len(issued) + 1
    BY <1>3, <1>5, <1>6, <2>1 DEF Stage, Signals, Lists!NoSignal
  <2>2. CASE Lists!Uploads(c) /\ b = Lists!UploadBatch(c) /\ b.call = 5 * Len(issued) + 2
    <3>1. x \in Lists!Sdma(c) /\ b.queue = "transfer"
            /\ b.signal = <<"transfer", Lists!UploadValue(c)>>
      BY <1>5, <1>6, <2>2
    <3>2. c.sdma /\ x = <<list, index + 1, "sdma">>
      BY <1>4, <3>1
    <3> QED
      BY <1>3, <2>2, <3>1, <3>2 DEF Stage, Signals, Lists!NoSignal
  <2>3. CASE b = Lists!ExecBatch(c) /\ b.call = 5 * Len(issued) + 3
    <3>1. b.queue = "graphics" /\ Signals(b) /\ b.call = 5 * Len(issued) + Stage(b)
      BY <1>5, <2>3 DEF Stage, Signals, Lists!NoSignal
    <3>2. \/ x = <<list, index + 1, "exec">>
          \/ c.last /\ x = <<list, index + 1, "signal">>
          \/ ~Lists!Uploads(c) /\ c.sdma /\ x = <<list, index + 1, "sdma">>
      BY <1>4, <1>5, <1>6, <2>3
    <3> QED
      BY <1>3, <1>4, <3>1, <3>2
  <2>4. b.work # {}
    BY <1>6
  <2> QED
    BY <1>1, <1>5, <2>1, <2>2, <2>3, <2>4, NewCalls
<1>7. ASSUME NEW x \in Lists!WorkOf(issued'[Len(issued) + 1])
      PROVE  /\ x[1] = list /\ x[2] = index + 1 /\ x[3] \in {"sparse", "sdma", "exec", "signal"}
             /\ \E b \in Lists!Iteration(c) : x \in b.work
  <2>1. CASE x = <<list, index + 1, "exec">> \/ (c.last /\ x = <<list, index + 1, "signal">>)
    <3>1. x \in Lists!ExecBatch(c).work
      BY <1>5, <2>1
    <3> QED
      BY <2>1, <3>1, NewMembers
  <2>2. CASE c.sparse /\ x = <<list, index + 1, "sparse">>
    BY <1>5, <2>2, NewMembers
  <2>3. CASE c.sdma /\ x = <<list, index + 1, "sdma">>
    <3>1. x \in Lists!Sdma(c)
      BY <1>4, <2>3
    <3>2. CASE Lists!Uploads(c)
      BY <1>5, <2>3, <3>1, <3>2, NewMembers
    <3>3. CASE ~Lists!Uploads(c)
      <4>1. x \in Lists!ExecBatch(c).work
        BY <1>5, <3>1, <3>3
      <4> QED
        BY <2>3, <4>1, NewMembers
    <3> QED
      BY <3>2, <3>3
  <2> QED
    BY <1>3, <1>7, <2>1, <2>2, <2>3
<1> QED
  BY <1>6, <1>7

\* It comes after all that was handed over before.
LEMMA NewAfterOld ==
  ASSUME Inv, NEW c \in Lists!Submissions, NEW made, Takes(c, made),
         NEW x \in Lists!WorkOf(issued'[Len(issued) + 1]), NEW y \in Lists!AllWork
  PROVE  /\ ~Lists!Earlier(x, y) /\ ~Lists!Earlier(<<list, index + 1, "signal">>, y)
         /\ y[1] \in Nat /\ y[1] <= list /\ (y[1] = list
              => y[2] \in Nat /\ 1 <= y[2] /\ y[2] <= index)
<1>1. x[1] = list /\ x[2] = index + 1
  BY NewWork
<1>2. PICK n \in DOMAIN issued : y \in Lists!WorkOf(issued[n])
  BY DEF Lists!AllWork
<1>3. y[1] = issued[n].list /\ y[2] = issued[n].index
  BY <1>2 DEF Lists!WorkOf
<1>4. /\ issued[n].list \in Nat /\ issued[n].index \in Nat /\ issued[n].index >= 1
      /\ issued[n].list < list \/ (issued[n].list = list /\ issued[n].index <= index)
  BY EarlierSubmission DEF Inv, IssuedInv, Takes
<1>5. list \in Nat /\ index \in Nat
  BY SubmissionConstants DEF Inv, SubTypes, Lists!SubmissionAssumption
<1>6. ASSUME NEW z, z[1] = list, z[2] = index + 1
      PROVE  ~Lists!Earlier(z, y)
  BY <1>3, <1>4, <1>5, <1>6 DEF Lists!Earlier
<1>7. ~Lists!Earlier(x, y) /\ ~Lists!Earlier(<<list, index + 1, "signal">>, y)
  BY <1>1, <1>6
<1> QED
  BY <1>3, <1>4, <1>5, <1>7

\* What is handed over then is the work before and that of the submission.
LEMMA AllWorkTaken ==
  ASSUME Inv, NEW c \in Lists!Submissions, NEW made, Takes(c, made)
  PROVE  Lists!AllWork' = Lists!AllWork \union Lists!WorkOf(issued'[Len(issued) + 1])
<1>1. /\ \A n \in DOMAIN issued : n \in DOMAIN issued' /\ issued'[n] = issued[n]
      /\ \A n \in DOMAIN issued' : n \in DOMAIN issued \/ n = Len(issued) + 1
      /\ Len(issued) + 1 \in DOMAIN issued'
  BY TakenFacts
<1>2. Lists!AllWork' = UNION {Lists!WorkOf(issued'[n]) : n \in DOMAIN issued'}
  BY DEF Lists!AllWork, Lists!WorkOf
<1>3. Lists!AllWork = UNION {Lists!WorkOf(issued[n]) : n \in DOMAIN issued}
  BY DEF Lists!AllWork
<1>4. ASSUME NEW x \in Lists!AllWork'
      PROVE  x \in Lists!AllWork \union Lists!WorkOf(issued'[Len(issued) + 1])
  <2>1. PICK n \in DOMAIN issued' : x \in Lists!WorkOf(issued'[n])
    BY <1>2, <1>4
  <2> QED
    BY <1>1, <1>3, <2>1
<1>5. ASSUME NEW x \in Lists!AllWork \union Lists!WorkOf(issued'[Len(issued) + 1])
      PROVE  x \in Lists!AllWork'
  <2>1. CASE x \in Lists!AllWork
    <3>1. PICK n \in DOMAIN issued : x \in Lists!WorkOf(issued[n])
      BY <1>3, <2>1
    <3>2. x \in Lists!WorkOf(issued'[n]) /\ n \in DOMAIN issued'
      BY <1>1, <3>1
    <3> QED
      BY <1>2, <3>2
  <2>2. CASE x \in Lists!WorkOf(issued'[Len(issued) + 1])
    BY <1>1, <1>2, <2>2
  <2> QED
    BY <1>5, <2>1, <2>2
<1> QED
  BY <1>4, <1>5

LEMMA TakeWork ==
  ASSUME Inv, NEW c \in Lists!Submissions, NEW made, Takes(c, made)
  PROVE  WorkInv'
<1>1. made \subseteq Lists!Iteration(c) /\ batches' = batches \union made
        /\ dedicated' = dedicated /\ WorkInv
  BY DEF Inv, Takes
<1>2. /\ \A n \in DOMAIN issued : n \in DOMAIN issued' /\ issued'[n] = issued[n]
      /\ Len(issued) \in Nat /\ Len(issued) + 1 \in DOMAIN issued'
  BY TakenFacts
<1> DEFINE Placed(b, x, n) ==
      /\ x \in Lists!WorkOf(issued'[n])
      /\ b.call = Lists!Calls * (n - 1) + Stage(b)
      /\ Signals(b)
      /\ x[3] = "sparse" <=> b.queue = "sparse"
      /\ b.queue = "transfer" => x[3] = "sdma"
      /\ b.queue = "graphics" /\ x[3] = "sdma" => ~dedicated
<1>3. ASSUME NEW b \in batches, NEW x \in b.work
      PROVE  \E n \in DOMAIN issued' : Placed(b, x, n)
  <2>1. PICK n \in DOMAIN issued :
          /\ x \in Lists!WorkOf(issued[n])
          /\ b.call = Lists!Calls * (n - 1) + Stage(b)
          /\ Signals(b)
          /\ x[3] = "sparse" <=> b.queue = "sparse"
          /\ b.queue = "transfer" => x[3] = "sdma"
          /\ b.queue = "graphics" /\ x[3] = "sdma" => ~dedicated
    BY <1>1 DEF WorkInv
  <2> QED
    BY <1>2, <2>1
<1>4. ASSUME NEW b \in made, NEW x \in b.work
      PROVE  \E n \in DOMAIN issued' : Placed(b, x, n)
  <2>1. Placed(b, x, Len(issued) + 1)
    <3>1. b \in Lists!Iteration(c) /\ Lists!Calls * (Len(issued) + 1 - 1) = 5 * Len(issued)
      BY <1>1, <1>2 DEF Lists!Calls
    <3> QED
      BY <3>1, NewWork
  <2> QED
    BY <1>2, <2>1
<1>5. \A b \in batches' : \A x \in b.work : \E n \in DOMAIN issued' : Placed(b, x, n)
  BY <1>1, <1>3, <1>4
<1> QED
  BY <1>1, <1>5 DEF WorkInv, Stage, Signals, Lists!WorkOf

\* Work that a failed call leaves out is the last of the program.
LEMMA TakeDone ==
  ASSUME Inv, NEW c \in Lists!Submissions, NEW made, Takes(c, made)
  PROVE  AllDone'
<1>1. /\ ~failed /\ made \subseteq Lists!Iteration(c) /\ batches' = batches \union made
      /\ done' = done /\ AllDone /\ WorkInv
  BY DEF Inv, Takes
<1>2. Lists!AllWork' = Lists!AllWork \union Lists!WorkOf(issued'[Len(issued) + 1])
  BY AllWorkTaken
<1>3. ASSUME NEW x \in Lists!WorkOf(issued'[Len(issued) + 1])
      PROVE  \/ \E b \in batches' : x \in b.work
             \/ /\ failed' /\ x[1] = list'
                /\ \A y \in done : ~Lists!Earlier(x, y)
                /\ \A b \in batches' : \A y \in b.work : ~Lists!Earlier(x, y)
  <2>1. PICK b \in Lists!Iteration(c) : x \in b.work
    BY <1>3, NewWork
  <2>2. CASE b \in made
    BY <1>1, <2>1, <2>2
  <2>3. CASE b \notin made
    <3>1. failed' /\ list' = list
      BY <2>3 DEF Takes
    <3>2. x[1] = list /\ x[2] = index + 1 /\ x[3] \in {"sparse", "sdma", "exec", "signal"}
      BY <1>3, NewWork
    <3>3. \A y \in done : ~Lists!Earlier(x, y)
      BY <1>1, <1>3, NewAfterOld DEF AllDone
    <3>4. ASSUME NEW d \in batches, NEW y \in d.work
          PROVE  ~Lists!Earlier(x, y)
      <4>1. y \in Lists!AllWork
        BY <1>1, <3>4 DEF WorkInv, Lists!AllWork
      <4> QED
        BY <1>3, <4>1, NewAfterOld
    <3>5. ASSUME NEW d \in made, NEW y \in d.work
          PROVE  ~Lists!Earlier(x, y)
      <4>1. d \in Lists!Iteration(c) /\ y \in Lists!WorkOf(issued'[Len(issued) + 1])
        BY <1>1, <3>5, NewWork
      <4>2. y[1] = list /\ y[2] = index + 1 /\ y[3] \in {"sparse", "sdma", "exec", "signal"}
        BY <4>1, NewWork
      <4>3. list \in Nat /\ index \in Nat
        BY SubmissionConstants DEF Inv, SubTypes, Lists!SubmissionAssumption
      <4>4. d.call < b.call
        <5>1. ~(b.call <= d.call)
          BY <2>3, <3>5, EarlierMade
        <5> QED
          BY <1>1, <4>1, <5>1, NewCalls
      <4>5. Stage(d) < Stage(b)
        <5>1. b.call = 5 * Len(issued) + Stage(b) /\ d.call = 5 * Len(issued) + Stage(d)
          BY <2>1, <3>5, <4>1, NewWork
        <5>2. Len(issued) \in Nat /\ Stage(b) \in Nat /\ Stage(d) \in Nat
          BY TakenFacts DEF Stage
        <5> QED
          BY <4>4, <5>1, <5>2
      <4>6. /\ x[3] = "sparse" <=> b.queue = "sparse"
            /\ b.queue = "transfer" => x[3] = "sdma"
            /\ b.queue = "graphics" /\ x[3] = "sdma" => ~dedicated
            /\ y[3] = "sparse" <=> d.queue = "sparse"
            /\ d.queue = "transfer" => y[3] = "sdma"
        BY <2>1, <3>5, <4>1, NewWork
      <4>7. d.queue = "transfer" => dedicated
        BY <1>1, <4>1, NewQueues
      <4>8. b.queue \in Lists!Queues /\ d.queue \in Lists!Queues
        BY <1>1, <4>1, NewQueues
      <4>9. Lists!Order[y[3]] <= Lists!Order[x[3]]
        <5>1. CASE d.queue = "sparse"
          BY <3>2, <4>6, <5>1 DEF Lists!Order
        <5>2. CASE d.queue = "transfer"
          <6>1. b.queue = "graphics" /\ x[3] \in {"exec", "signal"}
            BY <3>2, <4>5, <4>6, <4>7, <4>8, <5>2 DEF Stage, Lists!Queues
          <6> QED
            BY <4>6, <5>2, <6>1 DEF Lists!Order
        <5>3. d.queue # "graphics"
          BY <4>5, <4>8 DEF Stage, Lists!Queues
        <5> QED
          BY <4>8, <5>1, <5>2, <5>3 DEF Lists!Queues
      <4>10. Lists!Order[y[3]] \in Nat /\ Lists!Order[x[3]] \in Nat
        BY <3>2, <4>2 DEF Lists!Order
      <4> QED
        BY <3>2, <4>2, <4>3, <4>9, <4>10 DEF Lists!Earlier
    <3> QED
      BY <1>1, <3>1, <3>2, <3>3, <3>4, <3>5
  <2> QED
    BY <2>2, <2>3
<1>4. ASSUME NEW x \in Lists!AllWork
      PROVE  x \in done' \/ \E b \in batches' : x \in b.work
  BY <1>1 DEF AllDone
<1>5. done' \subseteq Lists!AllWork'
  BY <1>1, <1>2 DEF AllDone
<1>6. \A x, y : Lists!Earlier(x, y)' <=> Lists!Earlier(x, y)
  BY DEF Lists!Earlier, Lists!Order
<1> QED
  BY <1>1, <1>2, <1>3, <1>4, <1>5, <1>6 DEF AllDone

\* The values that the queue thread waits for cover all work of the list.
LEMMA TakeFinish ==
  ASSUME Inv, NEW c \in Lists!Submissions, NEW made, Takes(c, made)
  PROVE  FinishInv'
<1>1. /\ made \subseteq Lists!Iteration(c) /\ batches' = batches \union made /\ FinishInv
      /\ finish \in Seq([Lists!Semaphores -> Nat]) /\ Len(finish) + 1 = list /\ Len(finish) \in Nat
  BY LenProperties DEF Inv, Takes, SubTypes
<1>2. \A b \in made : \A x \in b.work : x[1] = list /\ Signals(b)
  BY <1>1, NewWork
<1>3. \A b \in batches : \A x \in b.work : x[1] \in Nat /\ x[1] >= 1 /\ Signals(b)
  <2> TAKE b \in batches
  <2> TAKE x \in b.work
  <2>1. PICK n \in DOMAIN issued : x[1] = issued[n].list /\ Signals(b)
    BY PlaceOfWork
  <2>2. issued[n] \in [list : 1..MaxLists, index : 1..MaxSubmissions, flags : Flags]
    BY ElementOfSeq, LenProperties DEF Inv, SubTypes
  <2> QED
    BY <2>1, <2>2
<1>4. SUFFICES ASSUME NEW b \in batches', NEW x \in b.work, x[1] <= Len(finish')
               PROVE  b.signal[2] <= finish'[x[1]][b.signal[1]]
  BY DEF FinishInv
<1>5. CASE finish' = finish
  <2>1. b \in batches
    BY <1>1, <1>2, <1>4, <1>5
  <2> QED
    BY <1>1, <1>4, <1>5, <2>1 DEF FinishInv
<1>6. CASE finish' = Append(finish, timelines')
  <2>1. timelines' \in [Lists!Semaphores -> Nat]
    BY TakeTypes DEF SubTypes
  <2>2. /\ Len(finish') = Len(finish) + 1 /\ finish'[Len(finish) + 1] = timelines'
        /\ \A i \in 1..Len(finish) : finish'[i] = finish[i]
    BY <1>1, <1>6, <2>1, AppendProperties
  <2>3. CASE x[1] = list
    <3>1. Signals(b)
      BY <1>1, <1>2, <1>3, <1>4
    <3>2. b.signal[2] <= timelines'[b.signal[1]]
      BY <3>1, TakeSignals DEF SignalsInv, Signals
    <3> QED
      BY <1>1, <2>2, <2>3, <3>2
  <2>4. CASE x[1] # list
    <3>1. b \in batches /\ x[1] \in 1..Len(finish)
      BY <1>1, <1>2, <1>3, <1>4, <2>2, <2>4
    <3> QED
      BY <1>1, <1>4, <2>2, <3>1 DEF FinishInv
  <2> QED
    BY <2>3, <2>4
<1> QED
  BY <1>5, <1>6 DEF Takes

\* Nothing that was ordered before is out of order after it.
LEMMA TakeLists ==
  ASSUME Inv, Lists!ListsInOrder, NEW c \in Lists!Submissions, NEW made, Takes(c, made)
  PROVE  Lists!ListsInOrder'
<1>1. /\ done' = done /\ fence' = fence /\ retired' = retired /\ done \subseteq Lists!AllWork
      /\ Len(finish) + 1 = list /\ Len(finish) \in Nat /\ retired \in Nat /\ retired <= Len(finish)
  BY LenProperties DEF Inv, Takes, SubTypes, AllDone
<1>2. Lists!AllWork' = Lists!AllWork \union Lists!WorkOf(issued'[Len(issued) + 1])
  BY AllWorkTaken
<1>3. /\ \A n \in DOMAIN issued : n \in DOMAIN issued' /\ issued'[n] = issued[n]
      /\ \A n \in DOMAIN issued' : n \in DOMAIN issued \/ n = Len(issued) + 1
      /\ issued'[Len(issued) + 1] = [list |-> list, index |-> index + 1, flags |-> c]
  BY TakenFacts
<1>4. PICK z : z \in Lists!WorkOf(issued'[Len(issued) + 1])
  BY DEF Lists!WorkOf
<1>5. \A y \in done : \A x \in Lists!WorkOf(issued'[Len(issued) + 1]) : ~Lists!Earlier(x, y)
  BY <1>1, NewAfterOld
<1>6. \A x, y : Lists!Earlier(x, y)' <=> Lists!Earlier(x, y)
  BY DEF Lists!Earlier, Lists!Order
<1>7. ASSUME NEW y \in done, NEW x, Lists!Barrier(x, y)'
      PROVE  Lists!Barrier(x, y)
  <2>1. PICK n \in DOMAIN issued' :
          /\ issued'[n].flags.syncSdma
          /\ Lists!Earlier(x, <<issued'[n].list, issued'[n].index, "signal">>)
          /\ Lists!Earlier(<<issued'[n].list, issued'[n].index, "signal">>, y)
    BY <1>6, <1>7 DEF Lists!Barrier
  <2>2. n # Len(issued) + 1
    BY <1>1, <1>3, <1>4, <2>1, NewAfterOld
  <2> QED
    BY <1>3, <2>1, <2>2 DEF Lists!Barrier
<1>8. Lists!ProgramOrder'
  <2>1. SUFFICES ASSUME NEW y \in done, NEW x \in Lists!AllWork', Lists!Earlier(x, y),
                        y[3] = "sdma" /\ x[3] \in {"exec", "signal"} => Lists!Barrier(x, y)'
                 PROVE  x \in done
    BY <1>1, <1>6 DEF Lists!ProgramOrder
  <2>2. x \in Lists!AllWork
    BY <1>2, <1>5, <2>1
  <2>3. y[3] = "sdma" /\ x[3] \in {"exec", "signal"} => Lists!Barrier(x, y)
    BY <1>7, <2>1
  <2> QED
    BY <2>1, <2>2, <2>3 DEF Lists!ListsInOrder, Lists!ProgramOrder
<1>9. Lists!FenceStallsCommands'
  <2>1. SUFFICES ASSUME NEW w \in done, Lists!Stalled(w)', ~(w[2] = 1 /\ w[3] = "sparse")
                 PROVE  fence
    BY <1>1 DEF Lists!FenceStallsCommands
  <2>2. PICK n \in DOMAIN issued' : issued'[n].list = w[1] /\ issued'[n].flags.fence
    BY <2>1 DEF Lists!Stalled
  <2>3. n # Len(issued) + 1
    <3>1. ASSUME n = Len(issued) + 1 PROVE FALSE
      <4>1. list = w[1] /\ c.fence
        BY <1>3, <2>2, <3>1
      <4>2. index = 0
        BY <4>1 DEF Lists!Submissions
      <4>3. w[2] \in Nat /\ 1 <= w[2] /\ w[2] <= index
        BY <1>1, <1>4, <4>1, NewAfterOld
      <4> QED
        BY <4>2, <4>3
    <3> QED
      BY <3>1
  <2>4. Lists!Stalled(w)
    BY <1>3, <2>2, <2>3 DEF Lists!Stalled
  <2> QED
    BY <2>1, <2>4 DEF Lists!ListsInOrder, Lists!FenceStallsCommands
<1>10. Lists!RetiredMeansDone'
  <2>1. SUFFICES ASSUME NEW w \in Lists!AllWork', w[1] <= retired
                 PROVE  w \in done
    BY <1>1 DEF Lists!RetiredMeansDone
  <2>2. w \in Lists!AllWork
    <3>1. \A x \in Lists!WorkOf(issued'[Len(issued) + 1]) : x[1] = list
      BY NewWork
    <3>2. ~(list <= retired)
      BY <1>1
    <3> QED
      BY <1>2, <2>1, <3>1, <3>2
  <2> QED
    BY <2>1, <2>2 DEF Lists!ListsInOrder, Lists!RetiredMeansDone
<1> QED
  BY <1>8, <1>9, <1>10 DEF Lists!ListsInOrder

-----------------------------------------------------------------------------
(* The invariant holds *)

\* A submission keeps the invariant and the order.
LEMMA TakeStep ==
  ASSUME Inv, Lists!ListsInOrder, NEW c \in Lists!Submissions, Lists!Submit(c) \/ Lists!Fail(c)
  PROVE  Inv' /\ Lists!ListsInOrder'
<1>1. PICK made : Takes(c, made)
  BY SubmitTakes
<1>2. SubTypes' /\ BatchTypes' /\ SignalsInv' /\ WaitsInv' /\ IssuedInv'
  BY <1>1, TakeTypes, TakeBatchTypes, TakeSignals, TakeWaits, TakeIssued
<1>3. SparseInv' /\ SparseStalls' /\ UploadStalls' /\ BarrierStalls' /\ FenceStalls'
  BY <1>1, TakeSparse, TakeSparseStalls, TakeUploadStalls, TakeBarrierStalls, TakeFenceStalls
<1>4. WorkInv' /\ AllDone' /\ FinishInv'
  BY <1>1, TakeWork, TakeDone, TakeFinish
<1> QED
  BY <1>1, <1>2, <1>3, <1>4, TakeLists DEF Inv

\* So does every step.
LEMMA SubNext ==
  ASSUME Inv, Lists!ListsInOrder, Lists!Next \/ UNCHANGED submissionVars
  PROVE  Inv' /\ Lists!ListsInOrder'
<1>1. CASE \E c \in Lists!Submissions : Lists!Submit(c) \/ Lists!Fail(c)
  BY <1>1, TakeStep
<1>2. CASE \E b \in batches : Lists!Execute(b)
  <2>1. PICK b \in batches : Lists!Execute(b)
    BY <1>2
  <2> QED
    BY <2>1, ExecuteInv, ExecuteProgramOrder, ExecuteFence, ExecuteRetired DEF Lists!ListsInOrder
<1>3. CASE Lists!SignalFence
  BY <1>3, SignalFenceStep
<1>4. CASE Lists!Retire
  BY <1>4, RetireStep
<1>5. CASE UNCHANGED submissionVars
  <2>1. UNCHANGED <<dedicated, timelines, carried, list, index, issued, finish, failed,
                    batches, semaphore, done, fence, retired>>
    BY <1>5 DEF submissionVars
  <2>2. SubTypes' /\ BatchTypes' /\ SignalsInv' /\ WaitsInv'
    BY <2>1 DEF Inv, SubTypes, BatchTypes, BatchFields, SignalsInv, WaitsInv, Signals
  <2>3. SparseInv' /\ SparseStalls' /\ UploadStalls'
    BY <2>1 DEF Inv, SparseInv, SparseStalls, Signals, Holds, Gates, Gate, UploadStalls, Covered,
       Kept
  <2>4. BarrierStalls' /\ FenceStalls'
    BY <2>1 DEF Inv, BarrierStalls, Signals, Holds, Covered, Kept, Barriers, FenceStalls, Fences,
       FenceGate, Gate
  <2>5. IssuedInv' /\ WorkInv' /\ AllDone' /\ FinishInv'
    BY <2>1 DEF Inv, IssuedInv, WorkInv, AllDone, FinishInv, Lists!WorkOf, Lists!AllWork,
       Lists!Earlier, Lists!Order, Signals, Stage
  <2>6. Lists!ListsInOrder'
    BY <2>1 DEF Lists!ListsInOrder, Lists!ProgramOrder, Lists!FenceStallsCommands,
       Lists!RetiredMeansDone, Lists!AllWork, Lists!WorkOf, Lists!Earlier,
       Lists!Order, Lists!Barrier, Lists!Stalled
  <2> QED
    BY <2>2, <2>3, <2>4, <2>5, <2>6 DEF Inv
<1> QED
  BY <1>1, <1>2, <1>3, <1>4, <1>5 DEF Lists!Next

\* Of the batches that are left, the one of the first call waits for nothing but the fence.
LEMMA InvMoves ==
  ASSUME Inv
  PROVE  Lists!QueuesMoveOn
<1>1. ASSUME batches # {}
      PROVE  \E b \in batches : Lists!Ready(b) \/ (~fence /\ Lists!First(b)
               /\ <<"fence", 1>> \in b.waits)
  <2> DEFINE T == {b.call : b \in batches}
  <2>1. T \in SUBSET Nat /\ T # {}
    BY <1>1, BatchType DEF Inv
  <2> HIDE DEF T
  <2>2. PICK k \in T : \A j \in T : k <= j
    BY <2>1, NatMin
  <2>3. PICK b \in batches : b.call = k
    BY <2>2 DEF T
  <2>4. \A d \in batches : b.call <= d.call
    BY <2>2, <2>3 DEF T
  <2>5. Lists!First(b)
    BY <2>4 DEF Lists!First
  <2>6. ASSUME NEW w \in b.waits, w # <<"fence", 1>>
        PROVE  Lists!Met(w)
    <3>1. ~\E d \in batches : d.signal = w /\ d.call < b.call
      <4>1. \A d \in batches : d.call \in Nat /\ b.call \in Nat
        BY BatchType DEF Inv
      <4> QED
        BY <2>4, <4>1
    <3>2. w[1] \in Lists!Semaphores /\ w[2] <= semaphore[w[1]]
      BY <2>6, <3>1 DEF Inv, WaitsInv
    <3>3. semaphore[w[1]] \in Nat /\ w[2] \in Nat /\ w[1] # "fence"
      BY <3>2, BatchType DEF Inv, SubTypes, Lists!Semaphores
    <3> QED
      BY <3>2, <3>3 DEF Lists!Met
  <2>7. CASE ~fence /\ <<"fence", 1>> \in b.waits
    BY <2>5, <2>7
  <2>8. CASE fence \/ <<"fence", 1>> \notin b.waits
    <3>1. \A w \in b.waits : Lists!Met(w)
      BY <2>6, <2>8 DEF Lists!Met
    <3> QED
      BY <2>5, <3>1 DEF Lists!Ready
  <2> QED
    BY <2>7, <2>8
<1>2. \A b \in batches : Lists!Ready(b) /\ b.signal # Lists!NoSignal
        => b.signal[2] > semaphore[b.signal[1]]
  BY BatchType DEF Inv, Signals
<1> QED
  BY <1>1, <1>2 DEF Lists!QueuesMoveOn

LEMMA SubInitLists ==
  ASSUME Lists!Init
  PROVE  Lists!ListsInOrder
  BY DEF Lists!Init, Lists!ListsInOrder, Lists!ProgramOrder, Lists!FenceStallsCommands,
     Lists!RetiredMeansDone, Lists!AllWork

\* What a step of the composition is for the submission of command lists.
LEMMA SubmissionStep ==
  ASSUME [DeviceNext]_deviceVars
  PROVE  Lists!Next \/ UNCHANGED submissionVars
  BY DEF DeviceNext, deviceVars, FenceRuns, CallbackRuns, SamplersRun, SubmissionRuns, PagesRun,
         PoolsRun, memoryVars

LEMMA SubmissionSpec == DeviceSpec => [](Inv /\ Lists!ListsInOrder)
<1>1. DeviceInit => Inv /\ Lists!ListsInOrder
  BY SubInit, SubInitLists DEF DeviceInit
<1>2. Inv /\ Lists!ListsInOrder /\ [DeviceNext]_deviceVars => (Inv /\ Lists!ListsInOrder)'
  <2> SUFFICES ASSUME Inv, Lists!ListsInOrder, [DeviceNext]_deviceVars
               PROVE  Inv' /\ Lists!ListsInOrder'
    OBVIOUS
  <2>1. Lists!Next \/ UNCHANGED submissionVars
    BY SubmissionStep
  <2> QED
    BY <2>1, SubNext
<1> QED
  BY <1>1, <1>2, PTL DEF DeviceSpec

\* The device executes the work of the command lists in program order, not past a fence
\* that a list waits for, and through before the queue thread releases the list
\* (DxvkCommandList::submit and the semaphores it takes values of).
THEOREM SubmissionsCorrect == DeviceSpec => []ListsInOrder
<1>1. Lists!ListsInOrder => ListsInOrder
  BY DEF ListsInOrder
<1> QED
  BY <1>1, SubmissionSpec, PTL

\* Whatever was handed over, whole or up to a failed call, the device goes on with it
\* until nothing is left or the fence is waited for, and no semaphore is signaled to a
\* value that it has reached.
THEOREM QueuesCorrect == DeviceSpec => []QueuesMoveOn
<1>1. Inv => QueuesMoveOn
  BY InvMoves DEF QueuesMoveOn
<1> QED
  BY <1>1, SubmissionSpec, PTL

-----------------------------------------------------------------------------
(* The pool allocator *)

(***************************************************************************)
(* What is said of each page: its objects have one size, it is taken while *)
(* it has any, its masks have the items that nobody has, and it is on the  *)
(* list of its size, and on no other, as long as there is such an item.    *)
(* The masks of a large page are in a PagePool, whose summary masks tell   *)
(* which masks have a free bit, and which are not as they were built.      *)
(***************************************************************************)
Distinct(s) == \A i, j \in 1..Len(s) : s[i] = s[j] => i = j
Members(s) == {s[i] : i \in 1..Len(s)}

Held(p, c) == \E o \in objects : o.page = p /\ o.class = c
Unheld(p, c) ==
  {i \in 0..(ItemSource!Capacity(c) - 1) : \A o \in objects : o.page = p => o.item # i}
Large(p) == \E o \in objects : o.page = p /\ ~ItemSource!OneMask(o.class)
InUse(n) == \E p \in ItemSource!PageIds : Large(p) /\ pagePool[p] = n

MaskCount(c) == ItemSource!Capacity(c) \div MaskBits

PoolHas(pool, c, items) ==
  /\ \A i \in 0..(ItemSource!Capacity(c) - 1) :
       i \in items <=> i % MaskBits \in pool.masks[i \div MaskBits]
  /\ pool.free = {k \in 0..(MaskCount(c) - 1) : pool.masks[k] # {}}
  /\ pool.used = {k \in ItemSource!MaskIds : pool.masks[k] # ItemSource!Bits}
  /\ \A k \in ItemSource!MaskIds : k >= MaskCount(c) => pool.masks[k] = ItemSource!Bits

PageSound(p) ==
  /\ p \in taken <=> \E o \in objects : o.page = p
  /\ p \notin taken => \A d \in ItemSource!Classes : p \notin Members(pageLists[d])
  /\ \A o \in objects : o.page = p =>
       /\ \A u \in objects : u.page = p => u.class = o.class
       /\ o.item < ItemSource!Capacity(o.class)
       /\ \A d \in ItemSource!Classes :
            p \in Members(pageLists[d]) <=> d = o.class /\ Unheld(p, d) # {}
       /\ IF ItemSource!OneMask(o.class) THEN pageMask[p] = Unheld(p, o.class)
          ELSE pagePool[p] # 0 /\ PoolHas(pools[pagePool[p]], o.class, Unheld(p, o.class))

PagePools ==
  [next : Nat, free : SUBSET ItemSource!MaskIds, used : SUBSET ItemSource!MaskIds,
   masks : [ItemSource!MaskIds -> SUBSET ItemSource!Bits]]

ItemTypes ==
  /\ closed \subseteq ItemSource!PageIds /\ taken \subseteq ItemSource!PageIds
  /\ pageMask \in [ItemSource!PageIds -> SUBSET ItemSource!Bits]
  /\ pagePool \in [ItemSource!PageIds -> 0..Len(pools)]
  /\ pools \in Seq(PagePools) /\ \A n \in 1..Len(pools) : pools[n].next \in 0..Len(pools)
  /\ freePool \in 0..Len(pools)
  /\ pageLists \in [ItemSource!Classes -> Seq(ItemSource!PageIds)]
  /\ objects \subseteq [page : ItemSource!PageIds, item : Nat, class : ItemSource!Classes]

(***************************************************************************)
(* No two pages have the same PagePool.  Those that no page has are as     *)
(* they were built, and none of them is twice in the free list.            *)
(***************************************************************************)
FreePools ==
  /\ \A p, q \in ItemSource!PageIds : Large(p) /\ Large(q) /\ pagePool[p] = pagePool[q] => p = q
  /\ ~InUse(freePool)
  /\ \A n \in 1..Len(pools) : ~InUse(n) =>
       /\ \A k \in ItemSource!MaskIds : pools[n].masks[k] = ItemSource!Bits
       /\ ~InUse(pools[n].next)
       /\ pools[n].next = freePool => freePool = 0
       /\ \A m \in 1..Len(pools) :
            ~InUse(m) /\ pools[m].next = pools[n].next => m = n \/ pools[n].next = 0

ItemInv ==
  /\ ItemTypes /\ FreePools
  /\ \A p \in ItemSource!PageIds : PageSound(p)
  /\ \A c \in ItemSource!Classes : Distinct(pageLists[c])

\* A property of 0 that every number hands on to the next holds for all up to n.
LEMMA FirstFailure ==
  ASSUME NEW n \in Nat, NEW F, 0 \notin F, \A k \in 1..n : k \in F => k - 1 \in F
  PROVE  \A k \in 0..n : k \notin F
<1> SUFFICES ASSUME NEW j \in 0..n, j \in F PROVE FALSE
  OBVIOUS
<1> DEFINE T == {k \in 0..n : k \in F}
<1>1. T \in SUBSET Nat /\ T # {}
  OBVIOUS
<1> HIDE DEF T
<1>2. PICK k \in T : \A i \in T : k <= i
  BY <1>1, NatMin
<1> USE DEF T
<1>3. k \in 1..n /\ k \in F
  OBVIOUS
<1>4. k - 1 \in F /\ k - 1 \in 0..n
  BY <1>3
<1>5. k <= k - 1
  BY <1>2, <1>4
<1> QED
  BY <1>3, <1>5

-----------------------------------------------------------------------------
(* Capacities *)

\* T doubles from one argument to the next.
Doubles(T, n) == T \in [0..n -> Nat \ {0, 1}] /\ T[0] = 2 /\ \A k \in 1..n : T[k] = 2 * T[k - 1]

\* The function that Capacity computes with exists.
LEMMA DoublesExist ==
  ASSUME NEW n \in Nat
  PROVE  \E T : Doubles(T, n)
<1> DEFINE F == {k \in 0..n : ~\E T : Doubles(T, k)}
<1>1. 0 \notin F
  <2> DEFINE T == [k \in 0..0 |-> 2]
  <2>1. T \in [0..0 -> Nat \ {0, 1}] /\ T[0] = 2 /\ \A k \in 1..0 : T[k] = 2 * T[k - 1]
    OBVIOUS
  <2> HIDE DEF T
  <2> QED
    BY <2>1 DEF Doubles
<1>2. ASSUME NEW k \in 1..n, NEW T, Doubles(T, k - 1) PROVE \E U : Doubles(U, k)
  <2> DEFINE U == [i \in 0..k |-> IF i = k THEN 2 * T[k - 1] ELSE T[i]]
  <2>1. k \in Nat \ {0} /\ T \in [0..(k - 1) -> Nat \ {0, 1}] /\ T[0] = 2
        /\ \A i \in 1..(k - 1) : T[i] = 2 * T[i - 1]
    BY <1>2 DEF Doubles
  <2>2. U \in [0..k -> Nat \ {0, 1}] /\ U[0] = 2
    BY <2>1
  <2>3. ASSUME NEW i \in 1..k PROVE U[i] = 2 * U[i - 1]
    <3>1. CASE i = k
      BY <2>1, <3>1
    <3>2. CASE i # k
      <4>1. i \in 1..(k - 1) /\ U[i] = T[i] /\ U[i - 1] = T[i - 1]
        BY <2>1, <3>2
      <4> QED
        BY <2>1, <4>1
    <3> QED
      BY <3>1, <3>2
  <2> HIDE DEF U
  <2> QED
    BY <2>2, <2>3 DEF Doubles
<1>3. \A k \in 1..n : k \in F => k - 1 \in F
  BY <1>2
<1> HIDE DEF F
<1>4. \A k \in 0..n : k \notin F
  BY <1>1, <1>3, FirstFailure
<1> QED
  BY <1>4 DEF F

\* A capacity is what the doubling ends with.
LEMMA CapacityOf ==
  ASSUME NEW n \in Nat, NEW T, Doubles(T, n)
  PROVE  ItemSource!Capacity(n) = T[n]
<1> DEFINE Is(f) == f = [k \in 0..n |-> IF k = 0 THEN 2 ELSE 2 * f[k - 1]]
           twice == CHOOSE f : Is(f)
<1>0. T \in [0..n -> Nat \ {0, 1}] /\ T[0] = 2 /\ \A k \in 1..n : T[k] = 2 * T[k - 1]
  BY DEF Doubles
<1>1. Is(T)
  <2>1. T = [k \in 0..n |-> T[k]]
    BY <1>0
  <2>2. \A k \in 0..n : T[k] = IF k = 0 THEN 2 ELSE 2 * T[k - 1]
    BY <1>0
  <2> QED
    BY <2>1, <2>2
<1>2. Is(twice)
  BY <1>1
<1>3. ItemSource!Capacity(n) = twice[n]
  BY DEF ItemSource!Capacity
<1> HIDE DEF twice
<1>4. \A k \in 0..n : twice[k] = IF k = 0 THEN 2 ELSE 2 * twice[k - 1]
  BY <1>2
<1> DEFINE F == {k \in 0..n : twice[k] # T[k]}
<1>5. 0 \notin F
  BY <1>0, <1>4
<1>6. ASSUME NEW k \in 1..n, k \in F PROVE k - 1 \in F
  <2>1. k - 1 \in 0..n /\ k \in 0..n /\ k # 0
    OBVIOUS
  <2>2. twice[k] = 2 * twice[k - 1] /\ T[k] = 2 * T[k - 1]
    BY <1>0, <1>4, <2>1
  <2> QED
    BY <1>6, <2>1, <2>2
<1> HIDE DEF F
<1>7. \A k \in 0..n : k \notin F
  BY <1>5, <1>6, FirstFailure
<1> QED
  BY <1>3, <1>7 DEF F

\* Each size class has twice the capacity of the one before.
LEMMA CapacityDoubles ==
  ASSUME NEW c \in Nat
  PROVE  /\ ItemSource!Capacity(c) \in Nat \ {0, 1}
         /\ ItemSource!Capacity(c + 1) = 2 * ItemSource!Capacity(c)
<1>1. c + 1 \in Nat
  OBVIOUS
<1>2. PICK T : Doubles(T, c + 1)
  BY <1>1, DoublesExist
<1> DEFINE U == [k \in 0..c |-> T[k]]
<1>3. Doubles(U, c) /\ U[c] = T[c] /\ T[c] \in Nat \ {0, 1}
  BY <1>2 DEF Doubles
<1> HIDE DEF U
<1>4. ItemSource!Capacity(c + 1) = T[c + 1] /\ ItemSource!Capacity(c) = U[c]
  BY <1>1, <1>2, <1>3, CapacityOf
<1>5. c + 1 \in 1..(c + 1) /\ (c + 1) - 1 = c
  OBVIOUS
<1>6. T[c + 1] = 2 * T[c]
  BY <1>2, <1>5 DEF Doubles
<1> QED
  BY <1>3, <1>4, <1>6

\* and is thereby a multiple of every smaller one.
LEMMA CapacityMultiple ==
  ASSUME NEW b \in Nat, NEW n \in Nat
  PROVE  \E k \in Nat \ {0} : ItemSource!Capacity(b + n) = k * ItemSource!Capacity(b)
<1> DEFINE m == ItemSource!Capacity(b)
           Good(j) == \E k \in Nat \ {0} : ItemSource!Capacity(b + j) = k * m
           F == {j \in 0..n : ~Good(j)}
<1>1. m \in Nat
  BY CapacityDoubles
<1>2. 0 \notin F
  <2>1. b + 0 = b /\ m = 1 * m
    BY <1>1
  <2> QED
    BY <2>1
<1>3. ASSUME NEW j \in 1..n, Good(j - 1) PROVE Good(j)
  <2>1. PICK k \in Nat \ {0} : ItemSource!Capacity(b + (j - 1)) = k * m
    BY <1>3
  <2>2. b + (j - 1) \in Nat /\ (b + (j - 1)) + 1 = b + j
    OBVIOUS
  <2>3. ItemSource!Capacity(b + j) = 2 * (k * m)
    BY <2>1, <2>2, CapacityDoubles
  <2> HIDE DEF m
  <2>4. 2 * k \in Nat \ {0} /\ 2 * (k * m) = (2 * k) * m
    BY <1>1
  <2> QED
    BY <2>3, <2>4
<1>4. \A j \in 1..n : j \in F => j - 1 \in F
  BY <1>3
<1> HIDE DEF F, Good
<1>5. \A j \in 0..n : j \notin F
  BY <1>2, <1>4, FirstFailure
<1>6. Good(n)
  BY <1>5 DEF F
<1> QED
  BY <1>6 DEF Good

\* Division with remainder.
LEMMA Division ==
  ASSUME NEW m \in Nat \ {0}, NEW i \in Nat
  PROVE  i \div m \in Nat /\ i % m \in 0..(m - 1) /\ i = (i \div m) * m + (i % m)
<1> DEFINE q == i \div m
           r == i % m
<1>1. i = (i \div m) * m + (i % m) /\ i \div m \in Int /\ i % m \in 0..(m - 1)
  BY SMT
<1>2. q \in Int /\ i = q * m + r /\ r \in 0..(m - 1)
  BY <1>1
<1> HIDE DEF q, r
<1>3. q >= 0
  <2> SUFFICES ASSUME q <= -1 PROVE FALSE
    BY <1>2
  <2>1. q * m <= -m /\ q * m \in Int
    BY <1>2
  <2> QED
    BY <1>2, <2>1
<1>4. q \in Nat
  BY <1>2, <1>3
<1> QED
  BY <1>2, <1>4 DEF q, r

\* A mask and a bit of it make an item, which has that mask and that bit.
LEMMA DivisionUnique ==
  ASSUME NEW m \in Nat \ {0}, NEW k \in Nat, NEW j \in 0..(m - 1)
  PROVE  (j + k * m) \div m = k /\ (j + k * m) % m = j
<1> DEFINE i == j + k * m
<1>1. i \in Nat /\ k * m \in Nat
  OBVIOUS
<1>2. i = j + k * m
  OBVIOUS
<1> HIDE DEF i
<1> DEFINE q == i \div m
           r == i % m
<1>3. q \in Nat /\ r \in 0..(m - 1) /\ i = q * m + r
  BY <1>1, Division
<1> HIDE DEF q, r
<1>8. j + k * m = q * m + r
  BY <1>2, <1>3
<1>4. q <= k
  <2> SUFFICES ASSUME q >= k + 1 PROVE FALSE
    BY <1>3
  <2>1. q * m >= (k + 1) * m
    BY <1>3
  <2>2. (k + 1) * m = k * m + m
    OBVIOUS
  <2> QED
    BY <1>1, <1>3, <1>8, <2>1, <2>2
<1>5. q >= k
  <2> SUFFICES ASSUME k >= q + 1 PROVE FALSE
    BY <1>3
  <2>1. k * m >= (q + 1) * m
    BY <1>3
  <2>2. (q + 1) * m = q * m + m
    BY <1>3
  <2>3. q * m \in Nat
    BY <1>3
  <2> QED
    BY <1>1, <1>3, <1>8, <2>1, <2>2, <2>3
<1>6. q = k
  BY <1>3, <1>4, <1>5
<1>7. r = j
  BY <1>1, <1>3, <1>6, <1>8
<1> QED
  BY <1>2, <1>6, <1>7 DEF q, r

-----------------------------------------------------------------------------
(* Lists of pages *)

\* A page that is not on the list is added.
LEMMA DistinctAppend ==
  ASSUME NEW S, NEW s \in Seq(S), NEW x \in S, Distinct(s), x \notin Members(s)
  PROVE  /\ Append(s, x) \in Seq(S) /\ Distinct(Append(s, x))
         /\ Members(Append(s, x)) = Members(s) \union {x}
<1> DEFINE t == Append(s, x)
           n == Len(s)
<1>1. n \in Nat /\ t \in Seq(S) /\ Len(t) = n + 1 /\ t[n + 1] = x /\ \A i \in 1..n : t[i] = s[i]
  BY AppendProperties, LenProperties
<1> HIDE DEF t
<1>2. ASSUME NEW i \in 1..Len(t), NEW j \in 1..Len(t), t[i] = t[j] PROVE i = j
  <2>1. (i \in 1..n \/ i = n + 1) /\ (j \in 1..n \/ j = n + 1)
    BY <1>1
  <2>2. \A k \in 1..n : t[k] # x
    BY <1>1 DEF Members
  <2> QED
    BY <1>1, <1>2, <2>1, <2>2 DEF Distinct
<1>3. Members(t) = Members(s) \union {x}
  <2>1. n + 1 \in 1..Len(t) /\ \A i \in 1..n : i \in 1..Len(t)
    BY <1>1
  <2>2. \A i \in 1..Len(t) : i \in 1..n \/ i = n + 1
    BY <1>1
  <2> QED
    BY <1>1, <2>1, <2>2 DEF Members
<1>4. Distinct(t)
  BY <1>2 DEF Distinct
<1> QED
  BY <1>1, <1>3, <1>4 DEF t

Rotation(s, f) == SubSeq(s, f, Len(s)) \o SubSeq(s, 1, f - 1)
Removal(s, x) == ItemSource!RemoveAt(s, CHOOSE k \in DOMAIN s : s[k] = x)

\* The list is turned until the page at f is its head.
LEMMA DistinctRotate ==
  ASSUME NEW S, NEW s \in Seq(S), Distinct(s), NEW f \in 1..Len(s), NEW t,
         t = Rotation(s, f)
  PROVE  /\ t \in Seq(S) /\ t # <<>> /\ t[1] = s[f]
         /\ Distinct(t) /\ Members(t) = Members(s)
<1> DEFINE n == Len(s)
           a == SubSeq(s, f, n)
           b == SubSeq(s, 1, f - 1)
<1>1. n \in Nat /\ f \in 1..n /\ \A i \in 1..n : s[i] \in S
  BY LenProperties, ElementOfSeq
<1>2. a \in Seq(S) /\ Len(a) = n - f + 1 /\ \A i \in 1..(n - f + 1) : a[i] = s[f + i - 1]
  <2>1. f \in Int /\ n \in Int /\ f <= n /\ \A i \in f..n : s[i] \in S
    BY <1>1
  <2> QED
    BY <2>1, SubSeqProperties
<1>3. b \in Seq(S) /\ Len(b) = f - 1 /\ \A i \in 1..(f - 1) : b[i] = s[i]
  <2>1. 1 \in Int /\ f - 1 \in Int /\ \A i \in 1..(f - 1) : s[i] \in S
    BY <1>1
  <2>2. b \in Seq(S) /\ Len(b) = (IF 1 <= f - 1 THEN (f - 1) - 1 + 1 ELSE 0)
        /\ \A i \in 1..((f - 1) - 1 + 1) : b[i] = s[1 + i - 1]
    BY <2>1, SubSeqProperties
  <2> QED
    BY <1>1, <2>2
<1> HIDE DEF a, b
<1>4. t = a \o b
  BY DEF a, b, Rotation
<1>5. t \in Seq(S) /\ Len(t) = n
      /\ \A i \in 1..n : t[i] = IF i <= n - f + 1 THEN s[f + i - 1] ELSE s[i - (n - f + 1)]
  <2>1. t \in Seq(S) /\ Len(t) = Len(a) + Len(b)
        /\ \A i \in 1..(Len(a) + Len(b)) : t[i] = IF i <= Len(a) THEN a[i] ELSE b[i - Len(a)]
    BY <1>2, <1>3, <1>4, ConcatProperties
  <2>2. Len(a) + Len(b) = n
    BY <1>1, <1>2, <1>3
  <2>3. ASSUME NEW i \in 1..n PROVE t[i] = IF i <= n - f + 1 THEN s[f + i - 1] ELSE s[i - (n - f + 1)]
    <3>1. CASE i <= n - f + 1
      <4>1. i \in 1..(n - f + 1)
        BY <1>1, <3>1
      <4> QED
        BY <1>2, <2>1, <2>2, <3>1, <4>1
    <3>2. CASE ~(i <= n - f + 1)
      <4>1. i - (n - f + 1) \in 1..(f - 1)
        BY <1>1, <3>2
      <4> QED
        BY <1>2, <1>3, <2>1, <2>2, <3>2, <4>1
    <3> QED
      BY <3>1, <3>2
  <2> QED
    BY <2>1, <2>2, <2>3
<1> DEFINE At(i) == IF i <= n - f + 1 THEN f + i - 1 ELSE i - (n - f + 1)
<1>6. \A i \in 1..n : At(i) \in 1..n /\ t[i] = s[At(i)]
  BY <1>1, <1>5
<1>7. \A i, j \in 1..n : At(i) = At(j) => i = j
  BY <1>1
<1>8. \A k \in 1..n : \E i \in 1..n : At(i) = k
  <2> TAKE k \in 1..n
  <2>1. CASE k >= f
    <3>1. k - f + 1 \in 1..n /\ At(k - f + 1) = k
      BY <1>1, <2>1
    <3> QED
      BY <3>1
  <2>2. CASE k < f
    <3>1. k + (n - f + 1) \in 1..n /\ At(k + (n - f + 1)) = k
      BY <1>1, <2>2
    <3> QED
      BY <3>1
  <2> QED
    BY <1>1, <2>1, <2>2
<1>9. At(1) = f /\ 1 \in 1..n
  BY <1>1
<1> HIDE DEF At
<1>13. Len(t) = n
  BY <1>5
<1>10. Distinct(t)
  <2> SUFFICES ASSUME NEW i \in 1..n, NEW j \in 1..n, t[i] = t[j] PROVE i = j
    BY <1>13 DEF Distinct
  <2>1. At(i) \in 1..n /\ At(j) \in 1..n /\ s[At(i)] = s[At(j)]
    BY <1>6
  <2>2. At(i) = At(j)
    BY <2>1 DEF Distinct
  <2> QED
    BY <1>7, <2>2
<1>11. Members(t) = Members(s)
  <2>1. \A k \in 1..n : \E i \in 1..n : t[i] = s[k]
    BY <1>6, <1>8
  <2>2. \A i \in 1..n : \E k \in 1..n : t[i] = s[k]
    BY <1>6
  <2>3. \A x : x \in Members(t) <=> \E i \in 1..n : x = t[i]
    BY <1>13 DEF Members
  <2>4. \A x : x \in Members(s) <=> \E i \in 1..n : x = s[i]
    BY DEF Members
  <2> HIDE DEF n
  <2>5. ASSUME NEW x \in Members(t) PROVE x \in Members(s)
    <3>1. PICK i \in 1..n : x = t[i]
      BY <2>3
    <3>2. PICK k \in 1..n : t[i] = s[k]
      BY <2>2
    <3> QED
      BY <2>4, <3>1, <3>2
  <2>6. ASSUME NEW x \in Members(s) PROVE x \in Members(t)
    <3>1. PICK k \in 1..n : x = s[k]
      BY <2>4
    <3>2. PICK i \in 1..n : t[i] = s[k]
      BY <2>1
    <3> QED
      BY <2>3, <3>1, <3>2
  <2> QED
    BY <2>5, <2>6
<1>12. t # <<>> /\ t[1] = s[f]
  BY <1>1, <1>5, <1>6, <1>9
<1> QED
  BY <1>5, <1>10, <1>11, <1>12

\* The head leaves.
LEMMA DistinctTail ==
  ASSUME NEW S, NEW s \in Seq(S), s # <<>>, Distinct(s)
  PROVE  /\ Tail(s) \in Seq(S) /\ Distinct(Tail(s)) /\ Head(s) = s[1] /\ s[1] \in Members(s)
         /\ Members(Tail(s)) = Members(s) \ {s[1]}
<1> DEFINE n == Len(s)
           t == Tail(s)
<1>1. n \in Nat \ {0} /\ t \in Seq(S) /\ Len(t) = n - 1 /\ \A i \in 1..(n - 1) : t[i] = s[i + 1]
  BY HeadTailProperties, LenProperties, EmptySeq
<1> HIDE DEF t
<1>2. Distinct(t)
  <2> SUFFICES ASSUME NEW i \in 1..Len(t), NEW j \in 1..Len(t), t[i] = t[j] PROVE i = j
    BY DEF Distinct
  <2>1. i + 1 \in 1..n /\ j + 1 \in 1..n /\ s[i + 1] = s[j + 1]
    BY <1>1
  <2> QED
    BY <2>1 DEF Distinct
<1>3. 1 \in 1..n
  BY <1>1
<1>4. ASSUME NEW x \in Members(t) PROVE x \in Members(s) /\ x # s[1]
  <2>1. PICK i \in 1..Len(t) : x = t[i]
    BY DEF Members
  <2>2. i + 1 \in 1..n /\ x = s[i + 1] /\ i + 1 # 1
    BY <1>1, <2>1
  <2> QED
    BY <1>3, <2>2 DEF Members, Distinct
<1>5. ASSUME NEW x \in Members(s), x # s[1] PROVE x \in Members(t)
  <2>1. PICK i \in 1..n : x = s[i]
    BY DEF Members
  <2>2. i - 1 \in 1..Len(t) /\ t[i - 1] = s[i]
    BY <1>1, <1>5, <2>1
  <2> QED
    BY <2>1, <2>2 DEF Members
<1>6. s[1] \in Members(s)
  BY <1>3 DEF Members
<1> QED
  BY <1>1, <1>2, <1>4, <1>5, <1>6 DEF t

\* A page leaves from where it is.
LEMMA DistinctRemove ==
  ASSUME NEW S, NEW s \in Seq(S), Distinct(s), NEW x \in Members(s), NEW t,
         t = Removal(s, x)
  PROVE  t \in Seq(S) /\ Distinct(t) /\ Members(t) = Members(s) \ {x}
<1> DEFINE n == Len(s)
           c == CHOOSE k \in DOMAIN s : s[k] = x
<1>1. n \in Nat /\ DOMAIN s = 1..n /\ \A i \in 1..n : s[i] \in S
  BY LenProperties, ElementOfSeq
<1>2. c \in 1..n /\ s[c] = x
  BY <1>1 DEF Members
<1> HIDE DEF c
<1> DEFINE a == SubSeq(s, 1, c - 1)
           b == SubSeq(s, c + 1, n)
<1>3. t = a \o b
  BY DEF ItemSource!RemoveAt, c, Removal
<1>4. a \in Seq(S) /\ Len(a) = c - 1 /\ \A i \in 1..(c - 1) : a[i] = s[i]
  <2>1. 1 \in Int /\ c - 1 \in Int /\ \A i \in 1..(c - 1) : s[i] \in S
    BY <1>1, <1>2
  <2>2. a \in Seq(S) /\ Len(a) = (IF 1 <= c - 1 THEN (c - 1) - 1 + 1 ELSE 0)
        /\ \A i \in 1..((c - 1) - 1 + 1) : a[i] = s[1 + i - 1]
    BY <2>1, SubSeqProperties
  <2> QED
    BY <1>2, <2>2
<1>5. b \in Seq(S) /\ Len(b) = n - c /\ \A i \in 1..(n - c) : b[i] = s[c + i]
  <2>1. c + 1 \in Int /\ n \in Int /\ \A i \in (c + 1)..n : s[i] \in S
    BY <1>1, <1>2
  <2>2. b \in Seq(S) /\ Len(b) = (IF c + 1 <= n THEN n - (c + 1) + 1 ELSE 0)
        /\ \A i \in 1..(n - (c + 1) + 1) : b[i] = s[(c + 1) + i - 1]
    BY <2>1, SubSeqProperties
  <2>3. ASSUME NEW i \in 1..(n - c) PROVE b[i] = s[c + i]
    <3>1. i \in 1..(n - (c + 1) + 1) /\ (c + 1) + i - 1 = c + i
      BY <1>1, <1>2
    <3> QED
      BY <2>2, <3>1
  <2>4. Len(b) = n - c
    <3>0. n \in Nat /\ c \in 1..n
      BY <1>1, <1>2
    <3> HIDE DEF n
    <3>1. (c + 1 <= n => n - (c + 1) + 1 = n - c) /\ (~(c + 1 <= n) => n - c = 0)
      BY <3>0
    <3> QED
      BY <2>2, <3>1
  <2> QED
    BY <2>2, <2>3, <2>4
<1> HIDE DEF a, b
<1>6. t \in Seq(S) /\ Len(t) = n - 1 /\ \A i \in 1..(n - 1) : t[i] = IF i < c THEN s[i] ELSE s[i + 1]
  <2>1. t \in Seq(S) /\ Len(t) = Len(a) + Len(b)
        /\ \A i \in 1..(Len(a) + Len(b)) : t[i] = IF i <= Len(a) THEN a[i] ELSE b[i - Len(a)]
    <3>1. a \in Seq(S) /\ b \in Seq(S)
      BY <1>4, <1>5
    <3> QED
      BY <1>3, <3>1, ConcatProperties
  <2>2. Len(a) + Len(b) = n - 1
    BY <1>1, <1>2, <1>4, <1>5
  <2>3. ASSUME NEW i \in 1..(n - 1) PROVE t[i] = IF i < c THEN s[i] ELSE s[i + 1]
    <3>1. CASE i < c
      <4>1. i \in 1..(c - 1) /\ i <= Len(a)
        BY <1>2, <1>4, <3>1
      <4> QED
        BY <1>4, <2>1, <2>2, <3>1, <4>1
    <3>2. CASE ~(i < c)
      <4>1. i - Len(a) \in 1..(n - c) /\ ~(i <= Len(a)) /\ c + (i - Len(a)) = i + 1
        BY <1>1, <1>2, <1>4, <3>2
      <4> QED
        BY <1>5, <2>1, <2>2, <3>2, <4>1
    <3> QED
      BY <3>1, <3>2
  <2> QED
    BY <2>1, <2>2, <2>3
<1> DEFINE At(i) == IF i < c THEN i ELSE i + 1
<1>7. \A i \in 1..(n - 1) : At(i) \in 1..n /\ t[i] = s[At(i)] /\ At(i) # c
  BY <1>1, <1>2, <1>6
<1>8. \A i, j \in 1..(n - 1) : At(i) = At(j) => i = j
  BY <1>1, <1>2
<1>9. \A k \in 1..n : k # c => \E i \in 1..(n - 1) : At(i) = k
  <2> TAKE k \in 1..n
  <2>1. CASE k < c
    <3>1. k \in 1..(n - 1) /\ At(k) = k
      BY <1>1, <1>2, <2>1
    <3> QED
      BY <3>1
  <2>2. CASE k > c
    <3>1. k - 1 \in 1..(n - 1) /\ At(k - 1) = k
      BY <1>1, <1>2, <2>2
    <3> QED
      BY <3>1
  <2> QED
    BY <1>2, <2>1, <2>2
<1> HIDE DEF At
<1>10. Distinct(t)
  BY <1>6, <1>7, <1>8 DEF Distinct
<1>11. ASSUME NEW y \in Members(t) PROVE y \in Members(s) /\ y # x
  <2>1. PICK i \in 1..(n - 1) : y = t[i]
    BY <1>6 DEF Members
  <2>2. At(i) \in 1..n /\ y = s[At(i)] /\ At(i) # c
    BY <1>7, <2>1
  <2>3. s[At(i)] # s[c]
    BY <1>2, <2>2 DEF Distinct
  <2> QED
    BY <1>2, <2>2, <2>3 DEF Members
<1>12. ASSUME NEW y \in Members(s), y # x PROVE y \in Members(t)
  <2>1. PICK k \in 1..n : y = s[k]
    BY DEF Members
  <2>2. PICK i \in 1..(n - 1) : At(i) = k
    BY <1>2, <1>9, <1>12, <2>1
  <2> QED
    BY <1>6, <1>7, <2>1, <2>2 DEF Members
<1> QED
  BY <1>6, <1>10, <1>11, <1>12

-----------------------------------------------------------------------------
(* Sizes *)

\* A size needs one mask, or as many as divide it.
LEMMA Sizes ==
  ASSUME NEW c \in ItemSource!Classes
  PROVE  /\ ItemSource!Capacity(c) \in Nat \ {0, 1} /\ MaskBits \in Nat \ {0, 1}
         /\ ItemSource!OneMask(c) => 0..(ItemSource!Capacity(c) - 1) \subseteq ItemSource!Bits
         /\ ~ItemSource!OneMask(c) =>
              /\ MaskCount(c) \in Nat \ {0} /\ ItemSource!Capacity(c) = MaskCount(c) * MaskBits
              /\ 0..(MaskCount(c) - 1) \subseteq ItemSource!MaskIds
<1>1. ItemSource!PoolMasksAssumption
  BY DeviceAssumption
<1>2. SizeClasses \in Nat \ {0} /\ c \in Nat /\ c <= SizeClasses - 1 /\ SizeClasses - 1 \in Nat
  BY <1>1 DEF ItemSource!PoolMasksAssumption, ItemSource!Classes
<1>3. PICK b \in 0..MaskBits : MaskBits = ItemSource!Capacity(b)
  BY <1>1 DEF ItemSource!PoolMasksAssumption
<1>4. b \in Nat
  BY <1>1 DEF ItemSource!PoolMasksAssumption
<1>5. MaskBits \in Nat \ {0, 1} /\ ItemSource!Capacity(c) \in Nat \ {0, 1}
  BY <1>2, <1>3, <1>4, CapacityDoubles
<1>6. ASSUME ItemSource!OneMask(c)
      PROVE  0..(ItemSource!Capacity(c) - 1) \subseteq ItemSource!Bits
  BY <1>5, <1>6 DEF ItemSource!OneMask, ItemSource!Bits
<1>7. ASSUME ~ItemSource!OneMask(c)
      PROVE  /\ MaskCount(c) \in Nat \ {0} /\ ItemSource!Capacity(c) = MaskCount(c) * MaskBits
             /\ 0..(MaskCount(c) - 1) \subseteq ItemSource!MaskIds
  <2>1. c >= b
    <3> SUFFICES ASSUME c < b PROVE FALSE
      BY <1>2, <1>4
    <3>1. b - c \in Nat /\ c + (b - c) = b
      BY <1>2, <1>4
    <3>2. PICK k \in Nat \ {0} : ItemSource!Capacity(b) = k * ItemSource!Capacity(c)
      BY <1>2, <3>1, CapacityMultiple
    <3>3. k * ItemSource!Capacity(c) >= ItemSource!Capacity(c)
      BY <1>5
    <3> QED
      BY <1>3, <1>5, <1>7, <3>2, <3>3 DEF ItemSource!OneMask
  <2>2. c - b \in Nat /\ b + (c - b) = c /\ (SizeClasses - 1) - c \in Nat
        /\ c + ((SizeClasses - 1) - c) = SizeClasses - 1
    BY <1>2, <1>4, <2>1
  <2>3. PICK k \in Nat \ {0} : ItemSource!Capacity(c) = k * MaskBits
    BY <1>3, <1>4, <2>2, CapacityMultiple, ZenonT(40)
  <2>12. \E l \in Nat \ {0} :
           ItemSource!Capacity(c + ((SizeClasses - 1) - c)) = l * ItemSource!Capacity(c)
    BY <1>2, <2>2, CapacityMultiple
  <2>4. PICK l \in Nat \ {0} : ItemSource!Capacity(SizeClasses - 1) = l * ItemSource!Capacity(c)
    BY <2>2, <2>12
  <2>5. 0 \in 0..(MaskBits - 1)
    BY <1>5
  <2>6. (0 + k * MaskBits) \div MaskBits = k
    BY <1>5, <2>5, DivisionUnique
  <2>7. MaskCount(c) = k
    BY <1>5, <2>3, <2>6 DEF MaskCount
  <2>8. ItemSource!Capacity(SizeClasses - 1) = (l * k) * MaskBits /\ l * k \in Nat
    BY <1>5, <2>3, <2>4
  <2>9. (0 + (l * k) * MaskBits) \div MaskBits = l * k
    BY <1>5, <2>5, <2>8, DivisionUnique
  <2>10. ItemSource!MaskIds = 0..(l * k - 1)
    BY <1>5, <2>8, <2>9 DEF ItemSource!MaskIds
  <2>11. k <= l * k
    OBVIOUS
  <2> QED
    BY <2>3, <2>7, <2>8, <2>10, <2>11
<1> QED
  BY <1>5, <1>6, <1>7

\* Bits and masks of an item.
LEMMA ItemBits ==
  ASSUME NEW c \in ItemSource!Classes, ~ItemSource!OneMask(c),
         NEW i \in 0..(ItemSource!Capacity(c) - 1)
  PROVE  /\ i \div MaskBits \in 0..(MaskCount(c) - 1) /\ i % MaskBits \in ItemSource!Bits
         /\ i = (i \div MaskBits) * MaskBits + (i % MaskBits)
<1>1. MaskBits \in Nat \ {0} /\ MaskCount(c) \in Nat \ {0}
      /\ ItemSource!Capacity(c) = MaskCount(c) * MaskBits /\ i \in Nat
  BY Sizes
<1>2. i \div MaskBits \in Nat /\ i % MaskBits \in 0..(MaskBits - 1)
      /\ i = (i \div MaskBits) * MaskBits + (i % MaskBits)
  BY <1>1, Division
<1>3. i \div MaskBits < MaskCount(c)
  <2> SUFFICES ASSUME i \div MaskBits >= MaskCount(c) PROVE FALSE
    BY <1>1, <1>2
  <2>1. (i \div MaskBits) * MaskBits >= MaskCount(c) * MaskBits
    <3>1. \A x, y, z \in Nat : x >= y => x * z >= y * z
      OBVIOUS
    <3> QED
      BY <1>1, <1>2, <3>1
  <2> QED
    BY <1>1, <1>2, <2>1
<1> QED
  BY <1>1, <1>2, <1>3 DEF ItemSource!Bits

\* and the item of a bit of a mask.
LEMMA BitItem ==
  ASSUME NEW c \in ItemSource!Classes, ~ItemSource!OneMask(c),
         NEW k \in 0..(MaskCount(c) - 1), NEW j \in ItemSource!Bits
  PROVE  /\ j + k * MaskBits \in 0..(ItemSource!Capacity(c) - 1)
         /\ (j + k * MaskBits) \div MaskBits = k /\ (j + k * MaskBits) % MaskBits = j
<1>1. MaskBits \in Nat \ {0} /\ MaskCount(c) \in Nat \ {0}
      /\ ItemSource!Capacity(c) = MaskCount(c) * MaskBits /\ k \in Nat /\ j \in 0..(MaskBits - 1)
  BY Sizes DEF ItemSource!Bits
<1>2. (j + k * MaskBits) \div MaskBits = k /\ (j + k * MaskBits) % MaskBits = j
  BY <1>1, DivisionUnique
<1>3. j + k * MaskBits < MaskCount(c) * MaskBits /\ j + k * MaskBits \in Nat
  <2>1. (k + 1) * MaskBits <= MaskCount(c) * MaskBits
    <3>1. \A x, y, z \in Nat : x <= y => x * z <= y * z
      OBVIOUS
    <3> QED
      BY <1>1, <3>1
  <2>2. (k + 1) * MaskBits = k * MaskBits + MaskBits /\ k * MaskBits \in Nat
    BY <1>1
  <2> QED
    BY <1>1, <2>1, <2>2
<1> QED
  BY <1>1, <1>2, <1>3

\* The least of a set of naturals.
LEMMA LeastOf ==
  ASSUME NEW T \in SUBSET Nat, T # {}
  PROVE  ItemSource!Min(T) \in T
  BY NatMin DEF ItemSource!Min

-----------------------------------------------------------------------------
(* Pages that a step does not touch *)

OnList(q, d) == q \in Members(pageLists[d])

\* Page q and what is known of it stay.
SamePage(q) ==
  /\ q \in taken' <=> q \in taken
  /\ pageMask'[q] = pageMask[q] /\ pagePool'[q] = pagePool[q]
  /\ \A d \in ItemSource!Classes : OnList(q, d)' <=> OnList(q, d)
  /\ \A o : o.page = q => (o \in objects' <=> o \in objects)
  /\ Large(q) => pools'[pagePool[q]] = pools[pagePool[q]]

\* What is said of a page stays as long as nothing of it changes.
LEMMA SamePageStays ==
  ASSUME NEW q \in ItemSource!PageIds, SamePage(q)
  PROVE  /\ Large(q)' <=> Large(q)
         /\ \A d : Unheld(q, d)' = Unheld(q, d)
         /\ \A d : Held(q, d)' <=> Held(q, d)
         /\ PageSound(q) => PageSound(q)'
<1>1. \A o : o.page = q => (o \in objects' <=> o \in objects)
  BY DEF SamePage
<1>2. Large(q)' <=> Large(q)
  BY <1>1 DEF Large
<1>3. \A d : Unheld(q, d)' = Unheld(q, d)
  BY <1>1 DEF Unheld
<1>4. \A d : Held(q, d)' <=> Held(q, d)
  BY <1>1 DEF Held
<1>5. ASSUME PageSound(q) PROVE PageSound(q)'
  <2>1. q \in taken' <=> \E o \in objects' : o.page = q
    BY <1>1, <1>5 DEF PageSound, SamePage
  <2>2. q \notin taken' => \A d \in ItemSource!Classes : q \notin Members(pageLists'[d])
    BY <1>5 DEF PageSound, SamePage, OnList
  <2>3. ASSUME NEW o \in objects', o.page = q
        PROVE  /\ \A u \in objects' : u.page = q => u.class = o.class
               /\ o.item < ItemSource!Capacity(o.class)
               /\ \A d \in ItemSource!Classes :
                    q \in Members(pageLists'[d]) <=> d = o.class /\ Unheld(q, d)' # {}
               /\ IF ItemSource!OneMask(o.class) THEN pageMask'[q] = Unheld(q, o.class)'
                  ELSE pagePool'[q] # 0
                       /\ PoolHas(pools'[pagePool'[q]], o.class, Unheld(q, o.class)')
    <3>1. o \in objects
      BY <1>1, <2>3
    <3>2. /\ \A u \in objects : u.page = q => u.class = o.class
          /\ o.item < ItemSource!Capacity(o.class)
          /\ \A d \in ItemSource!Classes :
               q \in Members(pageLists[d]) <=> d = o.class /\ Unheld(q, d) # {}
          /\ IF ItemSource!OneMask(o.class) THEN pageMask[q] = Unheld(q, o.class)
             ELSE pagePool[q] # 0 /\ PoolHas(pools[pagePool[q]], o.class, Unheld(q, o.class))
      BY <1>5, <2>3, <3>1 DEF PageSound
    <3>3. \A u \in objects' : u.page = q => u.class = o.class
      BY <1>1, <3>2
    <3>4. \A d \in ItemSource!Classes :
            q \in Members(pageLists'[d]) <=> d = o.class /\ Unheld(q, d)' # {}
      BY <1>3, <3>2 DEF SamePage, OnList
    <3>5. CASE ItemSource!OneMask(o.class)
      <4>1. pageMask'[q] = Unheld(q, o.class)'
        BY <1>3, <3>2, <3>5 DEF SamePage
      <4> QED
        BY <3>2, <3>3, <3>4, <3>5, <4>1
    <3>6. CASE ~ItemSource!OneMask(o.class)
      <4>1. Large(q)
        BY <2>3, <3>1, <3>6 DEF Large
      <4>2. pagePool'[q] = pagePool[q] /\ pools'[pagePool[q]] = pools[pagePool[q]]
        BY <4>1 DEF SamePage
      <4>3. pagePool'[q] # 0 /\ PoolHas(pools'[pagePool'[q]], o.class, Unheld(q, o.class)')
        BY <1>3, <3>2, <3>6, <4>2
      <4> QED
        BY <3>2, <3>3, <3>4, <3>6, <4>3
    <3> QED
      BY <3>5, <3>6
  <2> QED
    BY <2>1, <2>2, <2>3 DEF PageSound
<1> QED
  BY <1>2, <1>3, <1>4, <1>5

\* The pools stay as they are, and so do the pages that need one.
LEMMA SamePools ==
  ASSUME FreePools, UNCHANGED <<pagePool, pools, freePool>>,
         \A q \in ItemSource!PageIds : Large(q)' <=> Large(q)
  PROVE  FreePools'
<1>1. \A n : InUse(n)' <=> InUse(n)
  BY DEF InUse
<1>2. pagePool' = pagePool /\ pools' = pools /\ freePool' = freePool
  OBVIOUS
<1>3. \A p, q \in ItemSource!PageIds : Large(p)' /\ Large(q)' /\ pagePool'[p] = pagePool'[q] => p = q
  BY <1>2 DEF FreePools
<1>4. ~InUse(freePool)'
  BY <1>1, <1>2 DEF FreePools
<1>5. ASSUME NEW n \in 1..Len(pools'), ~InUse(n)'
      PROVE  /\ \A k \in ItemSource!MaskIds : pools'[n].masks[k] = ItemSource!Bits
             /\ ~InUse(pools[n].next)'
             /\ pools'[n].next = freePool' => freePool' = 0
             /\ \A m \in 1..Len(pools') :
                  ~InUse(m)' /\ pools'[m].next = pools'[n].next => m = n \/ pools'[n].next = 0
  BY <1>1, <1>2, <1>5 DEF FreePools
<1> QED
  BY <1>3, <1>4, <1>5 DEF FreePools

\* The other pages stay as they are.
Others(P) == \A q \in ItemSource!PageIds : q # P => SamePage(q)

-----------------------------------------------------------------------------
(* Page pools *)

\* The summary masks tell whether there is a free item, and whether there is any other.
LEMMA PoolSummary ==
  ASSUME NEW c \in ItemSource!Classes, ~ItemSource!OneMask(c), NEW pool \in PagePools,
         NEW items \in SUBSET (0..(ItemSource!Capacity(c) - 1)), PoolHas(pool, c, items)
  PROVE  /\ pool.free = {} <=> items = {}
         /\ pool.used = {} <=> items = 0..(ItemSource!Capacity(c) - 1)
<1>1. \A i \in 0..(ItemSource!Capacity(c) - 1) : i \in items <=> i % MaskBits \in pool.masks[i \div MaskBits]
  BY DEF PoolHas
<1>2. \A k \in ItemSource!MaskIds : pool.masks[k] \subseteq ItemSource!Bits
  BY DEF PagePools
<1>3. 0..(MaskCount(c) - 1) \subseteq ItemSource!MaskIds
  BY Sizes
<1>4. ASSUME pool.free = {}, NEW i \in items PROVE FALSE
  <2>1. i \div MaskBits \in 0..(MaskCount(c) - 1) /\ i % MaskBits \in pool.masks[i \div MaskBits]
    BY <1>1, ItemBits
  <2> QED
    BY <1>4, <2>1 DEF PoolHas
<1>5. ASSUME items = {}, NEW k \in pool.free PROVE FALSE
  <2>1. k \in 0..(MaskCount(c) - 1) /\ pool.masks[k] # {}
    BY <1>5 DEF PoolHas
  <2>2. PICK j \in ItemSource!Bits : j \in pool.masks[k]
    BY <1>2, <1>3, <2>1
  <2>3. j + k * MaskBits \in 0..(ItemSource!Capacity(c) - 1)
        /\ (j + k * MaskBits) \div MaskBits = k /\ (j + k * MaskBits) % MaskBits = j
    BY <2>1, BitItem
  <2> QED
    BY <1>1, <1>5, <2>2, <2>3
<1>6. ASSUME pool.used = {}, NEW i \in 0..(ItemSource!Capacity(c) - 1) PROVE i \in items
  <2>1. i \div MaskBits \in 0..(MaskCount(c) - 1) /\ i % MaskBits \in ItemSource!Bits
    BY ItemBits
  <2>2. pool.masks[i \div MaskBits] = ItemSource!Bits
    BY <1>3, <1>6, <2>1 DEF PoolHas
  <2> QED
    BY <1>1, <2>1, <2>2
<1>7. ASSUME items = 0..(ItemSource!Capacity(c) - 1), NEW k \in pool.used PROVE FALSE
  <2>1. k \in ItemSource!MaskIds /\ pool.masks[k] # ItemSource!Bits
    BY <1>7 DEF PoolHas
  <2>6. k \in Nat /\ MaskCount(c) \in Nat
    BY <2>1, Sizes DEF ItemSource!MaskIds
  <2>2. ~(k >= MaskCount(c))
    BY <2>1 DEF PoolHas
  <2>3. k \in 0..(MaskCount(c) - 1)
    BY <2>2, <2>6
  <2>4. PICK j \in ItemSource!Bits : j \notin pool.masks[k]
    BY <1>2, <2>1
  <2>5. j + k * MaskBits \in 0..(ItemSource!Capacity(c) - 1)
        /\ (j + k * MaskBits) \div MaskBits = k /\ (j + k * MaskBits) % MaskBits = j
    BY <2>3, BitItem
  <2> QED
    BY <1>1, <1>7, <2>4, <2>5
<1> QED
  BY <1>4, <1>5, <1>6, <1>7

\* A pool as it was built gives its first item away.
LEMMA FirstItem ==
  ASSUME NEW c \in ItemSource!Classes, ~ItemSource!OneMask(c), NEW pool \in PagePools,
         \A k \in ItemSource!MaskIds : pool.masks[k] = ItemSource!Bits,
         NEW new, new = ItemSource!PoolWithFirst(pool, c)
  PROVE  /\ new \in PagePools /\ new.next = pool.next
         /\ PoolHas(new, c, 1..(ItemSource!Capacity(c) - 1))
<1>1. /\ MaskBits \in Nat \ {0, 1} /\ MaskCount(c) \in Nat \ {0}
      /\ 0..(MaskCount(c) - 1) \subseteq ItemSource!MaskIds
      /\ ItemSource!Bits = 0..(MaskBits - 1)
  BY Sizes DEF ItemSource!Bits
<1>2. 0 \in 0..(MaskCount(c) - 1) /\ 0 \in ItemSource!MaskIds
  <2>1. 0 \in 0..(MaskCount(c) - 1)
    BY <1>1
  <2> QED
    BY <1>1, <2>1
<1>3. /\ pool.next \in Nat /\ pool.masks \in [ItemSource!MaskIds -> SUBSET ItemSource!Bits]
      /\ pool = [next |-> pool.next, free |-> pool.free, used |-> pool.used, masks |-> pool.masks]
  BY DEF PagePools
<1>4. new = [next |-> pool.next, free |-> 0..(MaskCount(c) - 1), used |-> {0},
             masks |-> [pool.masks EXCEPT ![0] = ItemSource!Bits \ {0}]]
  BY <1>3 DEF ItemSource!PoolWithFirst, MaskCount
<1>5. /\ new.next = pool.next /\ new.free = 0..(MaskCount(c) - 1) /\ new.used = {0}
      /\ new.masks = [pool.masks EXCEPT ![0] = ItemSource!Bits \ {0}]
  BY <1>4
<1>6. new.masks \in [ItemSource!MaskIds -> SUBSET ItemSource!Bits]
      /\ new.masks[0] = ItemSource!Bits \ {0}
      /\ \A k \in ItemSource!MaskIds : k # 0 => new.masks[k] = ItemSource!Bits
  BY <1>2, <1>3, <1>5
<1>7. new \in PagePools
  BY <1>1, <1>2, <1>3, <1>4, <1>5, <1>6 DEF PagePools
<1>8. 1 \in ItemSource!Bits /\ 0 \in ItemSource!Bits
  BY <1>1
<1>9. ASSUME NEW i \in 0..(ItemSource!Capacity(c) - 1)
      PROVE  i \in 1..(ItemSource!Capacity(c) - 1) <=> i % MaskBits \in new.masks[i \div MaskBits]
  <2>1. i \div MaskBits \in 0..(MaskCount(c) - 1) /\ i % MaskBits \in ItemSource!Bits
        /\ i = (i \div MaskBits) * MaskBits + (i % MaskBits)
    BY ItemBits
  <2>2. i \in 1..(ItemSource!Capacity(c) - 1) <=> i # 0
    BY Sizes
  <2>3. CASE i \div MaskBits = 0
    <3>1. i = i % MaskBits
      BY <1>1, <2>1, <2>3
    <3> QED
      BY <1>6, <2>1, <2>2, <2>3, <3>1
  <2>4. CASE i \div MaskBits # 0
    <3>1. new.masks[i \div MaskBits] = ItemSource!Bits
      BY <1>1, <1>6, <2>1, <2>4
    <3>2. i # 0
      <4>1. (0 + 0 * MaskBits) \div MaskBits = 0
        BY <1>1, <1>8, DivisionUnique
      <4>2. 0 + 0 * MaskBits = 0
        BY <1>1
      <4> QED
        BY <2>4, <4>1, <4>2
    <3> QED
      BY <2>1, <2>2, <3>1, <3>2
  <2> QED
    BY <2>3, <2>4
<1>10. new.free = {k \in 0..(MaskCount(c) - 1) : new.masks[k] # {}}
  <2>1. \A k \in 0..(MaskCount(c) - 1) : new.masks[k] # {}
    BY <1>1, <1>6, <1>8
  <2> QED
    BY <1>5, <2>1
<1>11. new.used = {k \in ItemSource!MaskIds : new.masks[k] # ItemSource!Bits}
  BY <1>2, <1>5, <1>6, <1>8
<1>12. \A k \in ItemSource!MaskIds : k >= MaskCount(c) => new.masks[k] = ItemSource!Bits
  BY <1>1, <1>6
<1> QED
  BY <1>5, <1>7, <1>9, <1>10, <1>11, <1>12 DEF PoolHas

\* A pool gives another item away.
PoolWithout(pool, k, i) ==
  [pool EXCEPT !.used = @ \union {k}, !.masks[k] = @ \ {i},
               !.free = IF pool.masks[k] = {i} THEN @ \ {k} ELSE @]

\* Taking another item of a PagePool takes it out of the free ones and keeps the summary right.
LEMMA NextItem ==
  ASSUME NEW c \in ItemSource!Classes, ~ItemSource!OneMask(c), NEW pool \in PagePools,
         NEW items \in SUBSET (0..(ItemSource!Capacity(c) - 1)), PoolHas(pool, c, items),
         NEW k \in 0..(MaskCount(c) - 1), NEW i \in pool.masks[k],
         NEW new, new = PoolWithout(pool, k, i), NEW x, x = i + k * MaskBits
  PROVE  /\ new \in PagePools /\ new.next = pool.next
         /\ x \in items /\ PoolHas(new, c, items \ {x})
<1>1. /\ MaskBits \in Nat \ {0, 1} /\ MaskCount(c) \in Nat \ {0}
      /\ 0..(MaskCount(c) - 1) \subseteq ItemSource!MaskIds
  BY Sizes
<1>2. k \in ItemSource!MaskIds /\ k \in Nat
  BY <1>1
<1>3. /\ pool.next \in Nat /\ pool.masks \in [ItemSource!MaskIds -> SUBSET ItemSource!Bits]
      /\ pool.free \subseteq ItemSource!MaskIds /\ pool.used \subseteq ItemSource!MaskIds
      /\ pool = [next |-> pool.next, free |-> pool.free, used |-> pool.used, masks |-> pool.masks]
  BY DEF PagePools
<1>4. new = [next |-> pool.next,
             free |-> IF pool.masks[k] = {i} THEN pool.free \ {k} ELSE pool.free,
             used |-> pool.used \union {k},
             masks |-> [pool.masks EXCEPT ![k] = @ \ {i}]]
  BY <1>3 DEF PoolWithout
<1>5. /\ new.next = pool.next
      /\ new.free = IF pool.masks[k] = {i} THEN pool.free \ {k} ELSE pool.free
      /\ new.used = pool.used \union {k}
      /\ new.masks = [pool.masks EXCEPT ![k] = @ \ {i}]
  BY <1>4
<1>6. new.masks \in [ItemSource!MaskIds -> SUBSET ItemSource!Bits]
      /\ new.masks[k] = pool.masks[k] \ {i}
      /\ \A l \in ItemSource!MaskIds : l # k => new.masks[l] = pool.masks[l]
  BY <1>2, <1>3, <1>5
<1>7. new \in PagePools
  BY <1>2, <1>3, <1>4, <1>5, <1>6 DEF PagePools
<1>8. i \in ItemSource!Bits
  BY <1>2, <1>3
<1>9. x \in 0..(ItemSource!Capacity(c) - 1) /\ x \div MaskBits = k /\ x % MaskBits = i
  BY <1>8, BitItem
<1>10. x \in items
  BY <1>9 DEF PoolHas
<1>11. ASSUME NEW y \in 0..(ItemSource!Capacity(c) - 1)
       PROVE  y \in items \ {x} <=> y % MaskBits \in new.masks[y \div MaskBits]
  <2>1. y \div MaskBits \in 0..(MaskCount(c) - 1) /\ y % MaskBits \in ItemSource!Bits
        /\ y = (y \div MaskBits) * MaskBits + (y % MaskBits)
    BY ItemBits
  <2>2. y \in items <=> y % MaskBits \in pool.masks[y \div MaskBits]
    BY DEF PoolHas
  <2>3. CASE y \div MaskBits = k
    <3>2. y = k * MaskBits + (y % MaskBits) /\ x = k * MaskBits + i /\ k * MaskBits \in Nat
      BY <1>1, <1>2, <1>8, <2>1, <2>3 DEF ItemSource!Bits
    <3>3. i \in Nat /\ y % MaskBits \in Nat
      BY <1>1, <1>8, <2>1 DEF ItemSource!Bits
    <3>4. \A a, b, d \in Nat : a + b = a + d => b = d
      OBVIOUS
    <3>1. y = x <=> y % MaskBits = i
      BY <3>2, <3>3, <3>4
    <3> QED
      BY <1>6, <2>2, <2>3, <3>1
  <2>4. CASE y \div MaskBits # k
    <3>1. new.masks[y \div MaskBits] = pool.masks[y \div MaskBits] /\ y # x
      BY <1>1, <1>6, <1>9, <2>1, <2>4
    <3> QED
      BY <2>2, <3>1
  <2> QED
    BY <2>3, <2>4
<1>12. new.free = {l \in 0..(MaskCount(c) - 1) : new.masks[l] # {}}
  <2>1. pool.free = {l \in 0..(MaskCount(c) - 1) : pool.masks[l] # {}}
    BY DEF PoolHas
  <2>2. \A l \in 0..(MaskCount(c) - 1) : l # k => new.masks[l] = pool.masks[l]
    BY <1>1, <1>6
  <2>3. k \in pool.free
    BY <2>1
  <2>4. CASE pool.masks[k] = {i}
    <3>1. new.masks[k] = {} /\ new.free = pool.free \ {k}
      BY <1>5, <1>6, <2>4
    <3> QED
      BY <2>1, <2>2, <3>1
  <2>5. CASE pool.masks[k] # {i}
    <3>1. new.masks[k] # {} /\ new.free = pool.free
      BY <1>5, <1>6, <2>5
    <3> QED
      BY <2>1, <2>2, <2>3, <3>1
  <2> QED
    BY <2>4, <2>5
<1>13. new.used = {l \in ItemSource!MaskIds : new.masks[l] # ItemSource!Bits}
  <2>1. new.masks[k] # ItemSource!Bits
    BY <1>6, <1>8
  <2>2. pool.used = {l \in ItemSource!MaskIds : pool.masks[l] # ItemSource!Bits}
    BY DEF PoolHas
  <2> QED
    BY <1>2, <1>5, <1>6, <2>1, <2>2
<1>14. \A l \in ItemSource!MaskIds : l >= MaskCount(c) => new.masks[l] = ItemSource!Bits
  <2>1. \A l \in ItemSource!MaskIds : l >= MaskCount(c) => l # k
    BY <1>1
  <2> QED
    BY <1>6, <2>1 DEF PoolHas
<1>15. PoolHas(new, c, items \ {x})
  BY <1>11, <1>12, <1>13, <1>14 DEF PoolHas
<1> QED
  BY <1>5, <1>7, <1>10, <1>15

\* A pool gets an item back.
PoolWith(pool, x) ==
  LET k == x \div MaskBits
      marked == [pool EXCEPT !.masks[k] = @ \union {x % MaskBits}, !.free = @ \union {k}]
  IN [marked EXCEPT !.used = ItemSource!StillUsed(marked, k)]

\* Giving an item back to a PagePool adds it to the free ones and keeps the summary right.
LEMMA ItemBack ==
  ASSUME NEW c \in ItemSource!Classes, ~ItemSource!OneMask(c), NEW pool \in PagePools,
         NEW items \in SUBSET (0..(ItemSource!Capacity(c) - 1)), PoolHas(pool, c, items),
         NEW x \in 0..(ItemSource!Capacity(c) - 1), x \notin items,
         NEW new, new = PoolWith(pool, x)
  PROVE  /\ new \in PagePools /\ new.next = pool.next
         /\ PoolHas(new, c, items \union {x})
<1>1. /\ MaskBits \in Nat \ {0, 1} /\ MaskCount(c) \in Nat \ {0}
      /\ 0..(MaskCount(c) - 1) \subseteq ItemSource!MaskIds
  BY Sizes
<1> DEFINE k == x \div MaskBits
           i == x % MaskBits
<1>2. k \in 0..(MaskCount(c) - 1) /\ i \in ItemSource!Bits /\ x = k * MaskBits + i
  BY ItemBits
<1>15. i \notin pool.masks[k]
  BY DEF PoolHas
<1>3. /\ pool.next \in Nat /\ pool.masks \in [ItemSource!MaskIds -> SUBSET ItemSource!Bits]
      /\ pool.free \subseteq ItemSource!MaskIds /\ pool.used \subseteq ItemSource!MaskIds
      /\ pool = [next |-> pool.next, free |-> pool.free, used |-> pool.used, masks |-> pool.masks]
  BY DEF PagePools
<1> DEFINE masks == [pool.masks EXCEPT ![k] = @ \union {i}]
           marks == IF masks[k] = ItemSource!Bits THEN pool.used \ {k} ELSE pool.used
<1>4. new = [next |-> pool.next, free |-> pool.free \union {k}, used |-> marks, masks |-> masks]
  BY <1>3 DEF PoolWith, ItemSource!StillUsed
<1> HIDE DEF k, i
<1>5. k \in ItemSource!MaskIds
  BY <1>1, <1>2
<1>6. masks \in [ItemSource!MaskIds -> SUBSET ItemSource!Bits]
      /\ masks[k] = pool.masks[k] \union {i}
      /\ \A l \in ItemSource!MaskIds : l # k => masks[l] = pool.masks[l]
  BY <1>2, <1>3, <1>5
<1> HIDE DEF masks
<1>7. /\ new.next = pool.next /\ new.free = pool.free \union {k} /\ new.used = marks
      /\ new.masks = masks
  BY <1>4
<1>8. new \in PagePools
  <2>1. marks \subseteq ItemSource!MaskIds
    BY <1>3
  <2> QED
    BY <1>3, <1>4, <1>5, <1>6, <2>1 DEF PagePools
<1>9. ASSUME NEW y \in 0..(ItemSource!Capacity(c) - 1)
       PROVE  y \in items \union {x} <=> y % MaskBits \in masks[y \div MaskBits]
  <2>1. y \div MaskBits \in 0..(MaskCount(c) - 1) /\ y % MaskBits \in ItemSource!Bits
        /\ y = (y \div MaskBits) * MaskBits + (y % MaskBits)
    BY ItemBits
  <2>2. y \in items <=> y % MaskBits \in pool.masks[y \div MaskBits]
    BY DEF PoolHas
  <2>3. CASE y \div MaskBits = k
    <3>1. y = x <=> y % MaskBits = i
      BY <1>1, <1>2, <2>1, <2>3 DEF ItemSource!Bits
    <3> QED
      BY <1>6, <2>2, <2>3, <3>1
  <2>4. CASE y \div MaskBits # k
    <3>1. masks[y \div MaskBits] = pool.masks[y \div MaskBits] /\ y # x
      BY <1>1, <1>6, <2>1, <2>4 DEF k
    <3> QED
      BY <2>2, <3>1
  <2> QED
    BY <2>3, <2>4
<1>10. new.free = {l \in 0..(MaskCount(c) - 1) : masks[l] # {}}
  <2>1. pool.free = {l \in 0..(MaskCount(c) - 1) : pool.masks[l] # {}}
    BY DEF PoolHas
  <2>2. \A l \in 0..(MaskCount(c) - 1) : l # k => masks[l] = pool.masks[l]
    BY <1>1, <1>6
  <2>3. masks[k] # {}
    BY <1>6
  <2> QED
    BY <1>2, <1>7, <2>1, <2>2, <2>3
<1>11. marks = {l \in ItemSource!MaskIds : masks[l] # ItemSource!Bits}
  <2>1. pool.used = {l \in ItemSource!MaskIds : pool.masks[l] # ItemSource!Bits}
    BY DEF PoolHas
  <2>2. pool.masks[k] # ItemSource!Bits
    BY <1>2, <1>15 DEF k, i
  <2>3. CASE masks[k] = ItemSource!Bits
    BY <1>5, <1>6, <2>1, <2>3
  <2>4. CASE masks[k] # ItemSource!Bits
    BY <1>5, <1>6, <2>1, <2>2, <2>4
  <2> QED
    BY <2>3, <2>4
<1>12. \A l \in ItemSource!MaskIds : l >= MaskCount(c) => masks[l] = ItemSource!Bits
  <2>1. \A l \in ItemSource!MaskIds : l >= MaskCount(c) => l # k
    BY <1>1, <1>2
  <2> QED
    BY <1>6, <2>1 DEF PoolHas
<1> QED
  BY <1>7, <1>8, <1>9, <1>10, <1>11, <1>12 DEF PoolHas

-----------------------------------------------------------------------------
(* Steps of the pool allocator *)

\* A page that has objects of size C.
PageHas(P, C) ==
  /\ P \in taken /\ \E o \in objects : o.page = P
  /\ \A o \in objects : o.page = P => o.class = C /\ o.item < ItemSource!Capacity(C)
  /\ \A d \in ItemSource!Classes : OnList(P, d) <=> d = C /\ Unheld(P, C) # {}
  /\ IF ItemSource!OneMask(C) THEN pageMask[P] = Unheld(P, C)
     ELSE pagePool[P] # 0 /\ PoolHas(pools[pagePool[P]], C, Unheld(P, C))

\* A page with an object is one of its class.
LEMMA PageOf ==
  ASSUME NEW P, PageSound(P), NEW o \in objects, o.page = P
  PROVE  PageHas(P, o.class)
  BY DEF PageSound, PageHas, OnList

\* What makes a page of a class a sound one.
LEMMA PageHasAll ==
  ASSUME NEW P, NEW C, PageHas(P, C)
  PROVE  PageSound(P) /\ (Large(P) <=> ~ItemSource!OneMask(C))
<1>1. PageSound(P)
  BY DEF PageSound, PageHas, OnList
<1>2. Large(P) <=> ~ItemSource!OneMask(C)
  BY DEF Large, PageHas
<1> QED
  BY <1>1, <1>2

\* The same of the state after a step.
LEMMA PageHasAllNext ==
  ASSUME NEW P, NEW C, PageHas(P, C)'
  PROVE  PageSound(P)' /\ (Large(P)' <=> ~ItemSource!OneMask(C))
<1>1. PageSound(P)'
  BY DEF PageSound, PageHas, OnList
<1>2. Large(P)' <=> ~ItemSource!OneMask(C)
  BY DEF Large, PageHas
<1> QED
  BY <1>1, <1>2

\* A page on a list has room,
LEMMA Listed ==
  ASSUME ItemInv, NEW C \in ItemSource!Classes, NEW P \in ItemSource!PageIds, OnList(P, C)
  PROVE  PageHas(P, C) /\ Unheld(P, C) # {}
<1>1. PageSound(P)
  BY DEF ItemInv
<1>2. P \in taken
  BY <1>1 DEF PageSound, OnList
<1>3. PICK o \in objects : o.page = P
  BY <1>1, <1>2 DEF PageSound
<1>4. PageHas(P, o.class)
  BY <1>1, <1>3, PageOf
<1>5. C = o.class /\ Unheld(P, C) # {}
  BY <1>4 DEF PageHas
<1> QED
  BY <1>4, <1>5

\* and one that nobody has is on none.
LEMMA Unlisted ==
  ASSUME ItemInv, NEW P \in ItemSource!PageIds, P \notin taken
  PROVE  /\ \A o \in objects : o.page # P
         /\ \A d \in ItemSource!Classes : ~OnList(P, d)
         /\ ~Large(P)
  BY DEF ItemInv, PageSound, OnList, Large

\* The list of size C becomes t, which differs from it in page P at most.
ListBecomes(C, P, t) ==
  /\ pageLists' = [pageLists EXCEPT ![C] = t]
  /\ t \in Seq(ItemSource!PageIds) /\ Distinct(t)
  /\ \A q : q # P => (q \in Members(t) <=> OnList(q, C))

\* When one page is added to or taken from the list of a class, the other pages stay where they are.
LEMMA NewLists ==
  ASSUME ItemInv, NEW C \in ItemSource!Classes, NEW P, NEW t, ListBecomes(C, P, t)
  PROVE  /\ pageLists' \in [ItemSource!Classes -> Seq(ItemSource!PageIds)]
         /\ \A d \in ItemSource!Classes : Distinct(pageLists'[d])
         /\ \A q, d : q # P /\ d \in ItemSource!Classes => (OnList(q, d)' <=> OnList(q, d))
         /\ \A d \in ItemSource!Classes : d # C => (OnList(P, d)' <=> OnList(P, d))
         /\ OnList(P, C)' <=> P \in Members(t)
<1>1. pageLists \in [ItemSource!Classes -> Seq(ItemSource!PageIds)]
  BY DEF ItemInv, ItemTypes
<1>2. pageLists'[C] = t /\ \A d \in ItemSource!Classes : d # C => pageLists'[d] = pageLists[d]
  BY <1>1 DEF ListBecomes
<1>3. \A d \in ItemSource!Classes : Distinct(pageLists[d])
  BY DEF ItemInv
<1>4. pageLists' \in [ItemSource!Classes -> Seq(ItemSource!PageIds)]
  BY <1>1 DEF ListBecomes
<1>5. ASSUME NEW d \in ItemSource!Classes PROVE Distinct(pageLists'[d])
  BY <1>2, <1>3 DEF ListBecomes
<1>6. ASSUME NEW q, NEW d \in ItemSource!Classes, q # P PROVE OnList(q, d)' <=> OnList(q, d)
  <2>1. CASE d = C
    BY <1>2, <1>6, <2>1 DEF ListBecomes, OnList
  <2>2. CASE d # C
    BY <1>2, <2>2 DEF OnList
  <2> QED
    BY <2>1, <2>2
<1>7. ASSUME NEW d \in ItemSource!Classes, d # C PROVE OnList(P, d)' <=> OnList(P, d)
  BY <1>2, <1>7 DEF OnList
<1>8. OnList(P, C)' <=> P \in Members(t)
  BY <1>2 DEF OnList
<1> QED
  BY <1>4, <1>5, <1>6, <1>7, <1>8

\* What a step on one page has to show.
LEMMA StepOnPage ==
  ASSUME ItemInv, NEW P \in ItemSource!PageIds, NEW C \in ItemSource!Classes, NEW t,
         ListBecomes(C, P, t), ItemTypes', Others(P), PageSound(P)', FreePools'
  PROVE  ItemInv'
<1>1. \A q \in ItemSource!PageIds : PageSound(q)'
  <2> SUFFICES ASSUME NEW q \in ItemSource!PageIds, q # P PROVE PageSound(q)'
    OBVIOUS
  <2>1. PageSound(q) /\ SamePage(q)
    BY DEF ItemInv, Others
  <2> QED
    BY <2>1, SamePageStays
<1>2. \A d \in ItemSource!Classes : Distinct(pageLists'[d])
  BY NewLists
<1> QED
  BY <1>1, <1>2 DEF ItemInv

\* The objects of the other pages stay.
LEMMA ObjectGiven ==
  ASSUME ItemInv, NEW P \in ItemSource!PageIds, NEW C \in ItemSource!Classes, NEW i \in Nat,
         objects' = objects \union {ItemSource!Object(P, i, C)}
  PROVE  /\ objects' \subseteq [page : ItemSource!PageIds, item : Nat, class : ItemSource!Classes]
         /\ \A o : o.page # P => (o \in objects' <=> o \in objects)
         /\ Unheld(P, C)' = Unheld(P, C) \ {i}
<1> DEFINE new == ItemSource!Object(P, i, C)
<1>1. /\ new.page = P /\ new.item = i /\ new.class = C
      /\ new \in [page : ItemSource!PageIds, item : Nat, class : ItemSource!Classes]
  BY DEF ItemSource!Object
<1> HIDE DEF new
<1>2. objects' = objects \union {new}
  BY DEF new
<1>3. objects \subseteq [page : ItemSource!PageIds, item : Nat, class : ItemSource!Classes]
  BY DEF ItemInv, ItemTypes
<1>4. Unheld(P, C)' = Unheld(P, C) \ {i}
  <2>1. \A k \in 0..(ItemSource!Capacity(C) - 1) :
          (\A o \in objects' : o.page = P => o.item # k)
            <=> (\A o \in objects : o.page = P => o.item # k) /\ k # i
    BY <1>1, <1>2
  <2> QED
    BY <2>1 DEF Unheld
<1> QED
  BY <1>1, <1>2, <1>3, <1>4

\* What a caller gives back: the other objects stay, and its item was not a free one.
LEMMA ObjectTaken ==
  ASSUME ItemInv, NEW x \in objects, objects' = objects \ {x}
  PROVE  /\ objects' \subseteq [page : ItemSource!PageIds, item : Nat, class : ItemSource!Classes]
         /\ \A o : o.page # x.page => (o \in objects' <=> o \in objects)
         /\ x.page \in ItemSource!PageIds /\ x.class \in ItemSource!Classes
         /\ x.item \in 0..(ItemSource!Capacity(x.class) - 1) /\ x.item \notin Unheld(x.page, x.class)
         /\ PageHas(x.page, x.class)
         /\ Unheld(x.page, x.class)' = Unheld(x.page, x.class) \union {x.item}
<1> DEFINE P == x.page
           C == x.class
<1>1. objects \subseteq [page : ItemSource!PageIds, item : Nat, class : ItemSource!Classes]
  BY DEF ItemInv, ItemTypes
<1>2. P \in ItemSource!PageIds /\ C \in ItemSource!Classes /\ x.item \in Nat
  BY <1>1
<1>3. PageHas(P, C)
  BY <1>2, PageOf DEF ItemInv
<1>4. x.item \in 0..(ItemSource!Capacity(C) - 1)
  BY <1>2, <1>3, Sizes DEF PageHas
<1>5. \A o \in objects : o.page = P /\ o.item = x.item => o = x
  <2> TAKE o \in objects
  <2>1. o.page = P => o.class = C
    BY <1>3 DEF PageHas
  <2>2. /\ o \in [page : ItemSource!PageIds, item : Nat, class : ItemSource!Classes]
        /\ x \in [page : ItemSource!PageIds, item : Nat, class : ItemSource!Classes]
    BY <1>1
  <2>3. o = [page |-> o.page, item |-> o.item, class |-> o.class]
        /\ x = [page |-> x.page, item |-> x.item, class |-> x.class]
    BY <2>2
  <2> QED
    BY <2>1, <2>3
<1>6. x.item \notin Unheld(P, C)
  BY DEF Unheld
<1>7. Unheld(P, C)' = Unheld(P, C) \union {x.item}
  <2>1. \A k \in 0..(ItemSource!Capacity(C) - 1) :
          (\A o \in objects' : o.page = P => o.item # k)
            <=> (\A o \in objects : o.page = P => o.item # k) \/ k = x.item
    BY <1>5
  <2> QED
    BY <1>4, <2>1 DEF Unheld
<1> QED
  BY <1>1, <1>2, <1>3, <1>4, <1>6, <1>7

-----------------------------------------------------------------------------
(* The first object of a page *)

\* A page pool that nobody uses.
LEMMA NewPoolUnused ==
  ASSUME ItemInv
  PROVE  /\ ItemSource!NewPool \in Nat \ {0} /\ ~InUse(ItemSource!NewPool)
         /\ freePool # 0 => ItemSource!NewPool = freePool /\ freePool \in 1..Len(pools)
         /\ freePool = 0 => ItemSource!NewPool = Len(pools) + 1
         /\ Len(pools) \in Nat
         /\ ~InUse(0)
<1>1. /\ freePool \in 0..Len(pools) /\ pagePool \in [ItemSource!PageIds -> 0..Len(pools)]
      /\ Len(pools) \in Nat
  BY LenProperties DEF ItemInv, ItemTypes
<1>2. ~InUse(Len(pools) + 1)
  BY <1>1 DEF InUse
<1>3. ~InUse(0)
  <2> SUFFICES ASSUME NEW p \in ItemSource!PageIds, Large(p), pagePool[p] = 0 PROVE FALSE
    BY DEF InUse
  <2>1. PICK o \in objects : o.page = p /\ ~ItemSource!OneMask(o.class)
    BY DEF Large
  <2>2. PageHas(p, o.class)
    BY <2>1, PageOf DEF ItemInv
  <2> QED
    BY <2>1, <2>2 DEF PageHas
<1>4. ~InUse(freePool)
  BY DEF ItemInv, FreePools
<1> QED
  BY <1>1, <1>2, <1>3, <1>4 DEF ItemSource!NewPool, ItemSource!Nothing

\* A page that nobody has gets its first object.
LEMMA SmallFirst ==
  ASSUME ItemInv, NEW C \in ItemSource!Classes, NEW P \in ItemSource!PageIds, P \notin taken,
         ItemSource!OneMask(C),
         taken' = taken \union {P}, pageLists' = ItemSource!AddPage(P, C),
         pageMask' = [pageMask EXCEPT ![P] = 1..(ItemSource!Capacity(C) - 1)],
         UNCHANGED <<pagePool, pools, freePool>>,
         objects' = objects \union {ItemSource!Object(P, 0, C)}, UNCHANGED closed
  PROVE  ItemInv'
<1>1. ItemTypes /\ FreePools
  BY DEF ItemInv
<1>2. (\A o \in objects : o.page # P) /\ (\A d \in ItemSource!Classes : ~OnList(P, d)) /\ ~Large(P)
  BY Unlisted
<1> DEFINE t == Append(pageLists[C], P)
<1>3. ListBecomes(C, P, t) /\ P \in Members(t)
  <2>1. pageLists[C] \in Seq(ItemSource!PageIds) /\ Distinct(pageLists[C])
        /\ P \notin Members(pageLists[C])
    BY <1>1, <1>2 DEF ItemInv, ItemTypes, OnList
  <2>2. t \in Seq(ItemSource!PageIds) /\ Distinct(t) /\ Members(t) = Members(pageLists[C]) \union {P}
    BY <2>1, DistinctAppend
  <2>3. pageLists' = [pageLists EXCEPT ![C] = t]
    BY DEF ItemSource!AddPage
  <2> HIDE DEF t
  <2> QED
    BY <2>2, <2>3 DEF ListBecomes, OnList
<1> HIDE DEF t
<1>4. /\ pageLists' \in [ItemSource!Classes -> Seq(ItemSource!PageIds)]
      /\ \A q, d : q # P /\ d \in ItemSource!Classes => (OnList(q, d)' <=> OnList(q, d))
      /\ \A d \in ItemSource!Classes : d # C => (OnList(P, d)' <=> OnList(P, d))
      /\ OnList(P, C)'
  BY <1>3, NewLists
<1>5. /\ objects' \subseteq [page : ItemSource!PageIds, item : Nat, class : ItemSource!Classes]
      /\ \A o : o.page # P => (o \in objects' <=> o \in objects)
      /\ Unheld(P, C)' = Unheld(P, C) \ {0}
  BY ObjectGiven
<1>6. /\ ItemSource!Capacity(C) \in Nat \ {0, 1}
      /\ 0..(ItemSource!Capacity(C) - 1) \subseteq ItemSource!Bits
  BY Sizes
<1>7. Unheld(P, C)' = 1..(ItemSource!Capacity(C) - 1)
  <2>1. Unheld(P, C) = 0..(ItemSource!Capacity(C) - 1)
    BY <1>2 DEF Unheld
  <2> QED
    BY <1>5, <1>6, <2>1
<1>8. pageMask' \in [ItemSource!PageIds -> SUBSET ItemSource!Bits]
      /\ pageMask'[P] = 1..(ItemSource!Capacity(C) - 1)
      /\ \A q \in ItemSource!PageIds : q # P => pageMask'[q] = pageMask[q]
  <2>1. 1..(ItemSource!Capacity(C) - 1) \subseteq ItemSource!Bits
    BY <1>6
  <2> QED
    BY <1>1, <2>1 DEF ItemTypes
<1>9. PageHas(P, C)'
  <2>5. ItemSource!Object(P, 0, C).page = P
    BY DEF ItemSource!Object
  <2>1. P \in taken' /\ \E o \in objects' : o.page = P
    BY <2>5
  <2>2. \A o \in objects' : o.page = P => o.class = C /\ o.item < ItemSource!Capacity(C)
    BY <1>2, <1>6 DEF ItemSource!Object
  <2>3. Unheld(P, C)' # {}
    BY <1>6, <1>7
  <2>4. \A d \in ItemSource!Classes : OnList(P, d)' <=> d = C /\ Unheld(P, C)' # {}
    BY <1>2, <1>4, <2>3
  <2> QED
    BY <1>7, <1>8, <2>1, <2>2, <2>4 DEF PageHas
<1>10. PageSound(P)' /\ ~Large(P)'
  BY <1>9, PageHasAllNext
<1>11. Others(P)
  BY <1>4, <1>5, <1>8 DEF Others, SamePage
<1>12. FreePools'
  <2>1. \A q \in ItemSource!PageIds : Large(q)' <=> Large(q)
    BY <1>2, <1>10, <1>11, SamePageStays DEF Others
  <2> QED
    BY <1>1, <2>1, SamePools
<1>13. ItemTypes'
  BY <1>1, <1>4, <1>5, <1>8 DEF ItemTypes
<1> QED
  BY <1>3, <1>10, <1>11, <1>12, <1>13, StepOnPage

\* Page pool N is used for page P.
LEMMA PoolGiven ==
  ASSUME ItemInv, NEW P \in ItemSource!PageIds, ~Large(P), Large(P)',
         \A q \in ItemSource!PageIds : q # P => (Large(q)' <=> Large(q)),
         pagePool' = [pagePool EXCEPT ![P] = ItemSource!NewPool],
         NEW new, new.next \in 0..Len(pools),
         \/ freePool = 0 /\ pools' = Append(pools, new) /\ freePool' = freePool
         \/ freePool # 0 /\ pools' = [pools EXCEPT ![freePool] = new] /\ freePool' = pools[freePool].next,
         new \in PagePools
  PROVE  /\ FreePools' /\ pools' \in Seq(PagePools) /\ pools'[ItemSource!NewPool] = new
         /\ \A n \in 1..Len(pools) : n # ItemSource!NewPool => pools'[n] = pools[n]
         /\ \A n \in 1..Len(pools') : pools'[n].next \in 0..Len(pools')
         /\ pagePool' \in [ItemSource!PageIds -> 0..Len(pools')] /\ freePool' \in 0..Len(pools')
<1>0. PICK N : N = ItemSource!NewPool
  OBVIOUS
<1> DEFINE L == Len(pools)
<1>1. /\ N \in Nat \ {0} /\ ~InUse(N) /\ ~InUse(0) /\ L \in Nat
      /\ freePool # 0 => N = freePool /\ freePool \in 1..L
      /\ freePool = 0 => N = L + 1
  BY <1>0, NewPoolUnused
<1>2. /\ pools \in Seq(PagePools) /\ \A n \in 1..L : pools[n].next \in 0..L
      /\ freePool \in 0..L /\ pagePool \in [ItemSource!PageIds -> 0..L]
  BY DEF ItemInv, ItemTypes
<1> HIDE DEF L
<1>3. /\ pools' \in Seq(PagePools) /\ N \in 1..Len(pools') /\ pools'[N] = new
      /\ Len(pools') \in Nat /\ L <= Len(pools')
      /\ \A n \in 1..Len(pools') : n # N => n \in 1..L
      /\ \A n \in 1..L : n # N => pools'[n] = pools[n]
  <2>1. CASE freePool = 0
    <3>1. pools' = Append(pools, new) /\ N = L + 1
      BY <1>1, <2>1
    <3>2. pools' \in Seq(PagePools) /\ Len(pools') = L + 1 /\ pools'[L + 1] = new
          /\ \A n \in 1..L : pools'[n] = pools[n]
      BY <1>2, <3>1, AppendProperties DEF L
    <3> QED
      BY <1>1, <3>1, <3>2
  <2>2. CASE freePool # 0
    <3>1. pools' = [pools EXCEPT ![N] = new] /\ N \in 1..L
      BY <1>1, <2>2
    <3>2. pools' \in Seq(PagePools) /\ Len(pools') = L /\ pools'[N] = new
          /\ \A n \in 1..L : n # N => pools'[n] = pools[n]
      BY <1>2, <3>1, ExceptSeq DEF L
    <3> QED
      BY <1>1, <3>1, <3>2
  <2> QED
    BY <2>1, <2>2
<1>4. pagePool' \in [ItemSource!PageIds -> 0..Len(pools')] /\ pagePool'[P] = N
      /\ \A q \in ItemSource!PageIds : q # P => pagePool'[q] = pagePool[q]
  BY <1>0, <1>1, <1>2, <1>3
<1>5. \A n \in 1..Len(pools') : pools'[n].next \in 0..Len(pools')
  <2> TAKE n \in 1..Len(pools')
  <2>1. pools'[n].next \in 0..L
    BY <1>2, <1>3 DEF L
  <2> QED
    BY <1>1, <1>3, <2>1
<1>6. freePool' \in 0..Len(pools')
  BY <1>1, <1>2, <1>3
<1>7. \A n : InUse(n)' <=> InUse(n) \/ n = N
  <2> TAKE n
  <2>1. ASSUME InUse(n)' PROVE InUse(n) \/ n = N
    BY <1>4, <2>1 DEF InUse
  <2>2. ASSUME InUse(n) PROVE InUse(n)'
    BY <1>4, <2>2 DEF InUse
  <2>3. InUse(N)'
    BY <1>4 DEF InUse
  <2> QED
    BY <2>1, <2>2, <2>3
<1>8. FreePools
  BY DEF ItemInv
<1>9. ASSUME NEW p \in ItemSource!PageIds, NEW q \in ItemSource!PageIds, Large(p)', Large(q)',
             pagePool'[p] = pagePool'[q]
      PROVE  p = q
  <2>1. \A r \in ItemSource!PageIds : r # P /\ Large(r)' => pagePool'[r] # N
    BY <1>1, <1>4 DEF InUse
  <2>2. CASE p # P /\ q # P
    BY <1>4, <1>8, <1>9, <2>2 DEF FreePools
  <2> QED
    BY <1>4, <1>9, <2>1, <2>2
<1>10. ASSUME freePool # 0 PROVE pools[freePool].next # N /\ freePool' = pools[freePool].next
       /\ ~InUse(pools[freePool].next) /\ N = freePool /\ freePool \in 1..L
  BY <1>1, <1>8, <1>10 DEF FreePools, L
<1>11. ~InUse(freePool)'
  <2>1. ~InUse(freePool')
    BY <1>1, <1>10
  <2>2. freePool' # N
    BY <1>1, <1>10
  <2> QED
    BY <1>7, <2>1, <2>2
<1>12. ASSUME NEW n \in 1..Len(pools'), ~InUse(n)'
       PROVE  /\ \A k \in ItemSource!MaskIds : pools'[n].masks[k] = ItemSource!Bits
              /\ ~InUse(pools[n].next)'
              /\ pools'[n].next = freePool' => freePool' = 0
              /\ \A m \in 1..Len(pools') :
                   ~InUse(m)' /\ pools'[m].next = pools'[n].next => m = n \/ pools'[n].next = 0
  <2>1. \A m \in 1..Len(pools') : ~InUse(m)' => m \in 1..L /\ m # N /\ ~InUse(m) /\ pools'[m] = pools[m]
    BY <1>3, <1>7
  <2>2. n \in 1..L /\ n # N /\ ~InUse(n) /\ pools'[n] = pools[n]
    BY <1>12, <2>1
  <2>3. /\ \A k \in ItemSource!MaskIds : pools[n].masks[k] = ItemSource!Bits
        /\ ~InUse(pools[n].next)
        /\ pools[n].next = freePool => freePool = 0
        /\ \A m \in 1..L :
             ~InUse(m) /\ pools[m].next = pools[n].next => m = n \/ pools[n].next = 0
    BY <1>8, <2>2 DEF FreePools, L
  <2>4. pools[n].next # N
    BY <1>1, <1>2, <2>2, <2>3 DEF L
  <2>5. ~InUse(pools'[n].next) /\ pools'[n].next # N
    BY <2>2, <2>3, <2>4
  <2>6. ~InUse(pools[n].next)'
    BY <1>7, <2>5
  <2>7. pools'[n].next = freePool' => freePool' = 0
    <3>1. CASE freePool = 0
      BY <2>2, <2>3, <3>1
    <3>2. CASE freePool # 0
      BY <1>1, <1>10, <2>2, <2>3, <3>2
    <3> QED
      BY <3>1, <3>2
  <2> QED
    BY <2>1, <2>2, <2>3, <2>6, <2>7
<1>13. FreePools'
  BY <1>9, <1>11, <1>12 DEF FreePools
<1> QED
  BY <1>0, <1>3, <1>4, <1>5, <1>6, <1>13 DEF L

\* The first object of a page with several masks.
LEMMA LargeFirst ==
  ASSUME ItemInv, NEW C \in ItemSource!Classes, NEW P \in ItemSource!PageIds, P \notin taken,
         ~ItemSource!OneMask(C),
         taken' = taken \union {P}, pageLists' = ItemSource!AddPage(P, C), UNCHANGED pageMask,
         pagePool' = [pagePool EXCEPT ![P] = ItemSource!NewPool],
         IF freePool = ItemSource!Nothing
           THEN /\ pools' = Append(pools, ItemSource!PoolWithFirst(ItemSource!FullPool, C))
                /\ UNCHANGED freePool
           ELSE /\ pools' = [pools EXCEPT ![freePool] = ItemSource!PoolWithFirst(@, C)]
                /\ freePool' = pools[freePool].next,
         objects' = objects \union {ItemSource!Object(P, 0, C)}, UNCHANGED closed
  PROVE  ItemInv'
<1>1. ItemTypes /\ FreePools
  BY DEF ItemInv
<1>2. (\A o \in objects : o.page # P) /\ (\A d \in ItemSource!Classes : ~OnList(P, d)) /\ ~Large(P)
  BY Unlisted
<1> DEFINE t == Append(pageLists[C], P)
<1>3. ListBecomes(C, P, t) /\ P \in Members(t)
  <2>1. pageLists[C] \in Seq(ItemSource!PageIds) /\ Distinct(pageLists[C])
        /\ P \notin Members(pageLists[C])
    BY <1>1, <1>2 DEF ItemInv, ItemTypes, OnList
  <2>2. t \in Seq(ItemSource!PageIds) /\ Distinct(t) /\ Members(t) = Members(pageLists[C]) \union {P}
    BY <2>1, DistinctAppend
  <2>3. pageLists' = [pageLists EXCEPT ![C] = t]
    BY DEF ItemSource!AddPage
  <2> HIDE DEF t
  <2> QED
    BY <2>2, <2>3 DEF ListBecomes, OnList
<1> HIDE DEF t
<1>4. /\ pageLists' \in [ItemSource!Classes -> Seq(ItemSource!PageIds)]
      /\ \A q, d : q # P /\ d \in ItemSource!Classes => (OnList(q, d)' <=> OnList(q, d))
      /\ \A d \in ItemSource!Classes : d # C => (OnList(P, d)' <=> OnList(P, d))
      /\ OnList(P, C)'
  BY <1>3, NewLists
<1>5. /\ objects' \subseteq [page : ItemSource!PageIds, item : Nat, class : ItemSource!Classes]
      /\ \A o : o.page # P => (o \in objects' <=> o \in objects)
      /\ Unheld(P, C)' = Unheld(P, C) \ {0}
  BY ObjectGiven
<1>6. ItemSource!Capacity(C) \in Nat \ {0, 1}
  BY Sizes
<1>7. Unheld(P, C)' = 1..(ItemSource!Capacity(C) - 1)
  <2>1. Unheld(P, C) = 0..(ItemSource!Capacity(C) - 1)
    BY <1>2 DEF Unheld
  <2> QED
    BY <1>5, <1>6, <2>1
<1>8. ItemSource!NewPool \in Nat \ {0} /\ ~InUse(ItemSource!NewPool)
      /\ (freePool # 0 => ItemSource!NewPool = freePool /\ freePool \in 1..Len(pools))
      /\ (freePool = 0 => ItemSource!NewPool = Len(pools) + 1)
      /\ Len(pools) \in Nat
  BY NewPoolUnused
<1> DEFINE old == IF freePool = 0 THEN ItemSource!FullPool ELSE pools[freePool]
           new == ItemSource!PoolWithFirst(old, C)
<1>9. old \in PagePools /\ (\A k \in ItemSource!MaskIds : old.masks[k] = ItemSource!Bits)
      /\ old.next \in 0..Len(pools)
  <2>1. CASE freePool = 0
    <3>1. old = [next |-> 0, free |-> {}, used |-> {},
                 masks |-> [k \in ItemSource!MaskIds |-> ItemSource!Bits]]
      BY <2>1 DEF ItemSource!FullPool, ItemSource!Nothing
    <3> HIDE DEF old
    <3> QED
      BY <1>8, <3>1 DEF PagePools
  <2>2. CASE freePool # 0
    <3>1. old = pools[freePool] /\ freePool \in 1..Len(pools) /\ ~InUse(freePool)
      BY <1>8, <2>2
    <3> HIDE DEF old
    <3> QED
      BY <1>1, <3>1, ElementOfSeq DEF FreePools, ItemTypes
  <2> QED
    BY <2>1, <2>2
<1>10. new \in PagePools /\ new.next = old.next /\ PoolHas(new, C, 1..(ItemSource!Capacity(C) - 1))
  <2> HIDE DEF old
  <2> QED
    BY <1>9, FirstItem
<1>11. \/ freePool = 0 /\ pools' = Append(pools, new) /\ freePool' = freePool
       \/ freePool # 0 /\ pools' = [pools EXCEPT ![freePool] = new] /\ freePool' = pools[freePool].next
  BY DEF ItemSource!Nothing
<1>12. new.next \in 0..Len(pools)
  BY <1>9, <1>10
<1> HIDE DEF old, new
<1>13. \A o : o.page # P => (o \in objects' <=> o \in objects)
  BY <1>5
<1>14. \A q \in ItemSource!PageIds : q # P => (Large(q)' <=> Large(q))
  BY <1>13 DEF Large
<1>15. Large(P)'
  <2>1. ItemSource!Object(P, 0, C).page = P /\ ItemSource!Object(P, 0, C).class = C
    BY DEF ItemSource!Object
  <2> QED
    BY <2>1 DEF Large
<1>16. /\ FreePools' /\ pools' \in Seq(PagePools) /\ pools'[ItemSource!NewPool] = new
       /\ \A n \in 1..Len(pools) : n # ItemSource!NewPool => pools'[n] = pools[n]
       /\ \A n \in 1..Len(pools') : pools'[n].next \in 0..Len(pools')
       /\ pagePool' \in [ItemSource!PageIds -> 0..Len(pools')] /\ freePool' \in 0..Len(pools')
  BY <1>2, <1>10, <1>11, <1>12, <1>14, <1>15, PoolGiven
<1>17. pagePool'[P] = ItemSource!NewPool
       /\ \A q \in ItemSource!PageIds : q # P => pagePool'[q] = pagePool[q]
  BY <1>1 DEF ItemTypes
<1>18. PageHas(P, C)'
  <2>5. ItemSource!Object(P, 0, C).page = P
    BY DEF ItemSource!Object
  <2>1. P \in taken' /\ \E o \in objects' : o.page = P
    BY <2>5
  <2>2. \A o \in objects' : o.page = P => o.class = C /\ o.item < ItemSource!Capacity(C)
    BY <1>2, <1>6 DEF ItemSource!Object
  <2>3. Unheld(P, C)' # {}
    BY <1>6, <1>7
  <2>4. \A d \in ItemSource!Classes : OnList(P, d)' <=> d = C /\ Unheld(P, C)' # {}
    BY <1>2, <1>4, <2>3
  <2>6. pagePool'[P] # 0 /\ pools'[pagePool'[P]] = new
    BY <1>8, <1>16, <1>17
  <2>7. PoolHas(pools'[pagePool'[P]], C, Unheld(P, C)')
    BY <1>7, <1>10, <2>6
  <2> QED
    BY <2>1, <2>2, <2>4, <2>6, <2>7 DEF PageHas
<1>19. PageSound(P)'
  BY <1>18, PageHasAllNext
<1>20. Others(P)
  <2> SUFFICES ASSUME NEW q \in ItemSource!PageIds, q # P PROVE SamePage(q)
    BY DEF Others
  <2>1. Large(q) => pools'[pagePool[q]] = pools[pagePool[q]]
    <3> SUFFICES ASSUME Large(q) PROVE pools'[pagePool[q]] = pools[pagePool[q]]
      OBVIOUS
    <3>1. InUse(pagePool[q]) /\ ~InUse(0) /\ pagePool[q] \in 0..Len(pools)
      BY <1>1, NewPoolUnused DEF InUse, ItemTypes
    <3>2. pagePool[q] # 0 /\ pagePool[q] # ItemSource!NewPool
      BY <1>8, <3>1
    <3>3. pagePool[q] \in 1..Len(pools)
      BY <1>8, <3>1, <3>2
    <3> QED
      BY <1>16, <3>2, <3>3
  <2> QED
    BY <1>4, <1>13, <1>17, <2>1 DEF SamePage
<1>21. ItemTypes'
  BY <1>1, <1>4, <1>5, <1>16 DEF ItemTypes
<1> QED
  BY <1>3, <1>16, <1>19, <1>20, <1>21, StepOnPage

\* An allocation that takes a new page keeps the invariant.
LEMMA NewPageStep ==
  ASSUME ItemInv, NEW C \in ItemSource!Classes, ItemSource!AllocInNewPage(C)
  PROVE  ItemInv'
<1>1. PICK P \in (ItemSource!PageIds \ taken) \ closed :
        /\ taken' = taken \union {P}
        /\ pageLists' = ItemSource!AddPage(P, C)
        /\ IF ItemSource!OneMask(C)
             THEN /\ pageMask' = [pageMask EXCEPT ![P] = 1..(ItemSource!Capacity(C) - 1)]
                  /\ UNCHANGED ItemSource!poolVars
             ELSE /\ pagePool' = [pagePool EXCEPT ![P] = ItemSource!NewPool]
                  /\ IF freePool = ItemSource!Nothing
                       THEN /\ pools' = Append(pools, ItemSource!PoolWithFirst(ItemSource!FullPool, C))
                            /\ UNCHANGED freePool
                       ELSE /\ pools' = [pools EXCEPT ![freePool] = ItemSource!PoolWithFirst(@, C)]
                            /\ freePool' = pools[freePool].next
                  /\ UNCHANGED pageMask
        /\ objects' = objects \union {ItemSource!Object(P, 0, C)}
  BY DEF ItemSource!AllocInNewPage
<1>2. UNCHANGED closed
  BY DEF ItemSource!AllocInNewPage
<1>3. CASE ItemSource!OneMask(C)
  BY <1>1, <1>2, <1>3, SmallFirst DEF ItemSource!poolVars
<1>4. CASE ~ItemSource!OneMask(C)
  BY <1>1, <1>2, <1>4, LargeFirst
<1> QED
  BY <1>3, <1>4

-----------------------------------------------------------------------------
(* Another object of a page *)

\* The list is turned until its head can be used.
LEMMA HeadOpen ==
  ASSUME ItemInv, NEW C \in ItemSource!Classes, ItemSource!Open(C) # {},
         NEW t, t = ItemSource!Rotated(C), NEW P, P = Head(t)
  PROVE  /\ P \in ItemSource!PageIds /\ OnList(P, C) /\ P \notin closed
         /\ t \in Seq(ItemSource!PageIds) /\ Distinct(t) /\ Members(t) = Members(pageLists[C])
         /\ Tail(t) \in Seq(ItemSource!PageIds) /\ Distinct(Tail(t))
         /\ Members(Tail(t)) = Members(pageLists[C]) \ {P}
<1> DEFINE s == pageLists[C]
           f == ItemSource!Min(ItemSource!Open(C))
<1>1. s \in Seq(ItemSource!PageIds) /\ Distinct(s)
  BY DEF ItemInv, ItemTypes
<1>2. ItemSource!Open(C) \in SUBSET Nat /\ \A k \in ItemSource!Open(C) : k \in 1..Len(s) /\ s[k] \notin closed
  BY <1>1, LenProperties DEF ItemSource!Open
<1>3. f \in 1..Len(s) /\ s[f] \notin closed
  BY <1>2, LeastOf
<1>4. t = Rotation(s, f)
  BY DEF ItemSource!Rotated, Rotation
<1> HIDE DEF s, f
<1>5. t \in Seq(ItemSource!PageIds) /\ t # <<>> /\ t[1] = s[f] /\ Distinct(t) /\ Members(t) = Members(s)
  BY <1>1, <1>3, <1>4, DistinctRotate
<1>6. /\ Tail(t) \in Seq(ItemSource!PageIds) /\ Distinct(Tail(t)) /\ Head(t) = t[1]
      /\ t[1] \in Members(t) /\ Members(Tail(t)) = Members(t) \ {t[1]}
  BY <1>5, DistinctTail
<1>7. s[f] \in ItemSource!PageIds
  BY <1>1, <1>3, ElementOfSeq
<1> QED
  BY <1>3, <1>5, <1>6, <1>7 DEF OnList, s

\* The list after an object of its head was given: without the page when it is full.
LEMMA ListAfter ==
  ASSUME ItemInv, NEW C \in ItemSource!Classes, ItemSource!Open(C) # {},
         NEW P, P = Head(ItemSource!Rotated(C)), NEW full \in BOOLEAN,
         pageLists' = [pageLists EXCEPT ![C] =
           IF full THEN Tail(ItemSource!Rotated(C)) ELSE ItemSource!Rotated(C)]
  PROVE  \E t : ListBecomes(C, P, t) /\ (P \in Members(t) <=> ~full)
<1>1. PICK r : r = ItemSource!Rotated(C)
  OBVIOUS
<1>2. /\ P \in ItemSource!PageIds /\ OnList(P, C)
      /\ r \in Seq(ItemSource!PageIds) /\ Distinct(r) /\ Members(r) = Members(pageLists[C])
      /\ Tail(r) \in Seq(ItemSource!PageIds) /\ Distinct(Tail(r))
      /\ Members(Tail(r)) = Members(pageLists[C]) \ {P}
  BY <1>1, HeadOpen
<1>3. CASE full
  <2>1. pageLists' = [pageLists EXCEPT ![C] = Tail(r)]
    BY <1>1, <1>3
  <2>2. ListBecomes(C, P, Tail(r)) /\ P \notin Members(Tail(r))
    BY <1>2, <2>1 DEF ListBecomes, OnList
  <2> QED
    BY <1>3, <2>2
<1>4. CASE ~full
  <2>1. pageLists' = [pageLists EXCEPT ![C] = r]
    BY <1>1, <1>4
  <2>2. ListBecomes(C, P, r) /\ P \in Members(r)
    BY <1>2, <2>1 DEF ListBecomes, OnList
  <2> QED
    BY <1>4, <2>2
<1> QED
  BY <1>3, <1>4

\* A further object of page P.
LEMMA GivenOn ==
  ASSUME ItemInv, NEW C \in ItemSource!Classes, NEW P \in ItemSource!PageIds, PageHas(P, C),
         NEW i \in Unheld(P, C), objects' = objects \union {ItemSource!Object(P, i, C)},
         taken' = taken, NEW t, ListBecomes(C, P, t), P \in Members(t) <=> Unheld(P, C)' # {},
         IF ItemSource!OneMask(C) THEN pageMask'[P] = Unheld(P, C)'
         ELSE pagePool'[P] # 0 /\ PoolHas(pools'[pagePool'[P]], C, Unheld(P, C)')
  PROVE  PageHas(P, C)'
<1>1. P \in taken' /\ \E o \in objects' : o.page = P
  BY DEF PageHas
<1>2. i \in 0..(ItemSource!Capacity(C) - 1) /\ ItemSource!Capacity(C) \in Nat
  BY Sizes DEF Unheld
<1>3. \A o \in objects' : o.page = P => o.class = C /\ o.item < ItemSource!Capacity(C)
  BY <1>2 DEF PageHas, ItemSource!Object
<1>4. \A d \in ItemSource!Classes : OnList(P, d)' <=> d = C /\ Unheld(P, C)' # {}
  <2>1. /\ \A d \in ItemSource!Classes : d # C => (OnList(P, d)' <=> OnList(P, d))
        /\ OnList(P, C)' <=> P \in Members(t)
    BY NewLists
  <2>2. \A d \in ItemSource!Classes : d # C => ~OnList(P, d)
    BY DEF PageHas
  <2> QED
    BY <2>1, <2>2
<1> QED
  BY <1>1, <1>3, <1>4 DEF PageHas

\* An allocation from a page with one mask keeps the invariant.
LEMMA MaskStep ==
  ASSUME ItemInv, NEW C \in ItemSource!Classes, ItemSource!AllocInMask(C)
  PROVE  ItemInv'
<1>1. PICK P, i :
        /\ P = Head(ItemSource!Rotated(C)) /\ i = ItemSource!Min(pageMask[P])
        /\ pageMask' = [pageMask EXCEPT ![P] = @ \ {i}]
        /\ pageLists' = [pageLists EXCEPT ![C] =
             IF pageMask'[P] = {} THEN Tail(ItemSource!Rotated(C)) ELSE ItemSource!Rotated(C)]
        /\ objects' = objects \union {ItemSource!Object(P, i, C)}
  BY DEF ItemSource!AllocInMask
<1>2. /\ ItemSource!OneMask(C) /\ ItemSource!Open(C) # {}
      /\ UNCHANGED <<closed, taken, pagePool, pools, freePool>>
  BY DEF ItemSource!AllocInMask, ItemSource!pageVars, ItemSource!poolVars
<1>3. ItemTypes /\ FreePools
  BY DEF ItemInv
<1>4. P \in ItemSource!PageIds /\ OnList(P, C)
  BY <1>1, <1>2, HeadOpen
<1>5. PageHas(P, C) /\ Unheld(P, C) # {}
  BY <1>4, Listed
<1>6. pageMask[P] = Unheld(P, C) /\ Unheld(P, C) \in SUBSET Nat
  BY <1>2, <1>5 DEF PageHas, Unheld
<1>7. i \in Unheld(P, C) /\ i \in Nat
  BY <1>1, <1>5, <1>6, LeastOf
<1>8. /\ objects' \subseteq [page : ItemSource!PageIds, item : Nat, class : ItemSource!Classes]
      /\ \A o : o.page # P => (o \in objects' <=> o \in objects)
      /\ Unheld(P, C)' = Unheld(P, C) \ {i}
  BY <1>1, <1>4, <1>7, ObjectGiven
<1>9. pageMask' \in [ItemSource!PageIds -> SUBSET ItemSource!Bits]
      /\ pageMask'[P] = Unheld(P, C)'
      /\ \A q \in ItemSource!PageIds : q # P => pageMask'[q] = pageMask[q]
  BY <1>1, <1>3, <1>4, <1>6, <1>8 DEF ItemTypes
<1>10. PICK full \in BOOLEAN : full <=> pageMask'[P] = {}
  OBVIOUS
<1>11. pageLists' = [pageLists EXCEPT ![C] =
             IF full THEN Tail(ItemSource!Rotated(C)) ELSE ItemSource!Rotated(C)]
  BY <1>1, <1>10
<1>12. PICK t : ListBecomes(C, P, t) /\ (P \in Members(t) <=> ~full)
  BY <1>1, <1>2, <1>11, ListAfter
<1>13. /\ pageLists' \in [ItemSource!Classes -> Seq(ItemSource!PageIds)]
       /\ \A q, d : q # P /\ d \in ItemSource!Classes => (OnList(q, d)' <=> OnList(q, d))
  BY <1>12, NewLists
<1>14. PageHas(P, C)'
  <2>1. P \in Members(t) <=> Unheld(P, C)' # {}
    BY <1>9, <1>10, <1>12
  <2>2. IF ItemSource!OneMask(C) THEN pageMask'[P] = Unheld(P, C)'
        ELSE pagePool'[P] # 0 /\ PoolHas(pools'[pagePool'[P]], C, Unheld(P, C)')
    BY <1>2, <1>9
  <2> QED
    BY <1>1, <1>2, <1>4, <1>5, <1>7, <1>12, <2>1, <2>2, GivenOn
<1>15. PageSound(P)' /\ ~Large(P)' /\ ~Large(P)
  BY <1>2, <1>5, <1>14, PageHasAll, PageHasAllNext
<1>16. Others(P)
  BY <1>2, <1>8, <1>9, <1>13 DEF Others, SamePage
<1>17. FreePools'
  <2>1. \A q \in ItemSource!PageIds : Large(q)' <=> Large(q)
    BY <1>15, <1>16, SamePageStays DEF Others
  <2> QED
    BY <1>2, <1>3, <2>1, SamePools
<1>18. ItemTypes'
  BY <1>2, <1>3, <1>8, <1>9, <1>13 DEF ItemTypes
<1> QED
  BY <1>4, <1>12, <1>15, <1>16, <1>17, <1>18, StepOnPage

\* The page pool of page P changes, but for its link.
LEMMA PoolChanged ==
  ASSUME ItemInv, NEW P \in ItemSource!PageIds, Large(P), pagePool[P] # 0,
         \A q \in ItemSource!PageIds : Large(q)' <=> Large(q),
         UNCHANGED <<pagePool, freePool>>, NEW new \in PagePools,
         pools' = [pools EXCEPT ![pagePool[P]] = new], new.next = pools[pagePool[P]].next
  PROVE  /\ FreePools' /\ pools' \in Seq(PagePools) /\ pools'[pagePool[P]] = new
         /\ Len(pools') = Len(pools)
         /\ \A n \in 1..Len(pools) : n # pagePool[P] => pools'[n] = pools[n]
         /\ \A n \in 1..Len(pools') : pools'[n].next \in 0..Len(pools')
<1>1. PICK N : N = pagePool[P]
  OBVIOUS
<1>2. /\ pools \in Seq(PagePools) /\ \A n \in 1..Len(pools) : pools[n].next \in 0..Len(pools)
      /\ freePool \in 0..Len(pools) /\ pagePool \in [ItemSource!PageIds -> 0..Len(pools)]
      /\ FreePools /\ Len(pools) \in Nat
  BY LenProperties DEF ItemInv, ItemTypes
<1>3. N \in 1..Len(pools)
  BY <1>1, <1>2
<1>4. pools' \in Seq(PagePools) /\ Len(pools') = Len(pools) /\ pools'[N] = new
      /\ \A n \in 1..Len(pools) : n # N => pools'[n] = pools[n]
  BY <1>1, <1>2, <1>3, ExceptSeq
<1>5. \A n \in 1..Len(pools) : pools'[n].next = pools[n].next
  BY <1>1, <1>4
<1>6. \A n : InUse(n)' <=> InUse(n)
  BY DEF InUse
<1>7. InUse(N)
  BY <1>1 DEF InUse
<1>8. \A p, q \in ItemSource!PageIds : Large(p)' /\ Large(q)' /\ pagePool'[p] = pagePool'[q] => p = q
  BY <1>2 DEF FreePools
<1>9. ~InUse(freePool)'
  BY <1>2, <1>6 DEF FreePools
<1>10. ASSUME NEW n \in 1..Len(pools'), ~InUse(n)'
       PROVE  /\ \A k \in ItemSource!MaskIds : pools'[n].masks[k] = ItemSource!Bits
              /\ ~InUse(pools[n].next)'
              /\ pools'[n].next = freePool' => freePool' = 0
              /\ \A m \in 1..Len(pools') :
                   ~InUse(m)' /\ pools'[m].next = pools'[n].next => m = n \/ pools'[n].next = 0
  <2>1. n \in 1..Len(pools) /\ ~InUse(n) /\ n # N /\ pools'[n] = pools[n]
    BY <1>4, <1>6, <1>7, <1>10
  <2>2. /\ \A k \in ItemSource!MaskIds : pools[n].masks[k] = ItemSource!Bits
        /\ ~InUse(pools[n].next)
        /\ pools[n].next = freePool => freePool = 0
        /\ \A m \in 1..Len(pools) :
             ~InUse(m) /\ pools[m].next = pools[n].next => m = n \/ pools[n].next = 0
    BY <1>2, <2>1 DEF FreePools
  <2>3. ~InUse(pools'[n].next)
    BY <2>1, <2>2
  <2>4. ~InUse(pools[n].next)'
    BY <1>6, <2>3
  <2>5. \A m \in 1..Len(pools') :
          ~InUse(m)' /\ pools'[m].next = pools'[n].next => m = n \/ pools'[n].next = 0
    BY <1>4, <1>5, <1>6, <2>1, <2>2
  <2> QED
    BY <2>1, <2>2, <2>4, <2>5
<1>11. FreePools'
  BY <1>8, <1>9, <1>10 DEF FreePools
<1> QED
  BY <1>1, <1>2, <1>4, <1>5, <1>11

\* The page pools of two pages are two.
LEMMA OtherPool ==
  ASSUME ItemInv, NEW P \in ItemSource!PageIds, NEW q \in ItemSource!PageIds, q # P,
         Large(P), Large(q)
  PROVE  pagePool[q] \in 1..Len(pools) /\ pagePool[q] # pagePool[P]
<1>1. pagePool[q] \in 0..Len(pools) /\ Len(pools) \in Nat
  BY LenProperties DEF ItemInv, ItemTypes
<1>2. pagePool[q] # 0
  BY NewPoolUnused DEF InUse
<1>3. pagePool[q] # pagePool[P]
  BY DEF ItemInv, FreePools
<1> QED
  BY <1>1, <1>2, <1>3

\* An object of a page with several masks.
LEMMA PoolStep ==
  ASSUME ItemInv, NEW C \in ItemSource!Classes, ItemSource!AllocInPool(C)
  PROVE  ItemInv'
<1>1. PICK P, k, i, new :
        /\ P = Head(ItemSource!Rotated(C)) /\ k = ItemSource!Min(pools[pagePool[P]].free)
        /\ i = ItemSource!Min(pools[pagePool[P]].masks[k])
        /\ new = PoolWithout(pools[pagePool[P]], k, i)
        /\ pools' = [pools EXCEPT ![pagePool[P]] = new]
        /\ pageLists' = [pageLists EXCEPT ![C] =
             IF new.free = {} THEN Tail(ItemSource!Rotated(C)) ELSE ItemSource!Rotated(C)]
        /\ objects' = objects \union {ItemSource!Object(P, i + k * MaskBits, C)}
  BY Zenon DEF ItemSource!AllocInPool, PoolWithout
<1>2. /\ ~ItemSource!OneMask(C) /\ ItemSource!Open(C) # {}
      /\ UNCHANGED <<closed, taken, pageMask, pagePool, freePool>>
  BY Zenon DEF ItemSource!AllocInPool, ItemSource!pageVars
<1>3. ItemTypes /\ FreePools
  BY DEF ItemInv
<1>4. P \in ItemSource!PageIds /\ OnList(P, C)
  BY <1>1, <1>2, HeadOpen, Zenon
<1>5. PageHas(P, C) /\ Unheld(P, C) # {}
  BY <1>4, Listed
<1>6. PICK pool : pool = pools[pagePool[P]]
  OBVIOUS
<1>7. /\ pool \in PagePools /\ PoolHas(pool, C, Unheld(P, C)) /\ pagePool[P] # 0
      /\ Unheld(P, C) \in SUBSET (0..(ItemSource!Capacity(C) - 1))
  <2>1. PoolHas(pool, C, Unheld(P, C)) /\ pagePool[P] # 0
    BY <1>2, <1>5, <1>6 DEF PageHas
  <2>2. pagePool[P] \in 1..Len(pools)
    BY <1>3, <1>4, <2>1, LenProperties DEF ItemTypes
  <2>3. pool \in PagePools
    BY <1>3, <1>6, <2>2, ElementOfSeq, Zenon DEF ItemTypes
  <2> QED
    BY <2>1, <2>3 DEF Unheld
<1>8. k \in 0..(MaskCount(C) - 1) /\ i \in pool.masks[k]
  <2>1. pool.free # {}
    BY <1>2, <1>5, <1>7, PoolSummary
  <2>2. pool.free = {l \in 0..(MaskCount(C) - 1) : pool.masks[l] # {}}
    BY <1>7 DEF PoolHas
  <2>3. pool.free \in SUBSET Nat
    BY <2>2, SMTT(30)
  <2>4. k \in pool.free
    BY <1>1, <1>6, <2>1, <2>3, LeastOf, Zenon
  <2>5. pool.masks[k] \in SUBSET Nat
    <3>1. k \in ItemSource!MaskIds
      BY <1>2, <2>2, <2>4, Sizes
    <3>2. pool.masks[k] \subseteq ItemSource!Bits
      BY <1>7, <3>1 DEF PagePools
    <3> QED
      BY <3>2 DEF ItemSource!Bits
  <2> QED
    BY <1>1, <1>6, <2>2, <2>4, <2>5, LeastOf, Zenon
<1>9. PICK x : x = i + k * MaskBits
  OBVIOUS
<1>10. /\ new \in PagePools /\ new.next = pool.next
       /\ x \in Unheld(P, C) /\ PoolHas(new, C, Unheld(P, C) \ {x})
  <2>1. new = PoolWithout(pool, k, i)
    BY <1>1, <1>6, Zenon
  <2>2. PICK U : U = Unheld(P, C)
    OBVIOUS
  <2>3. /\ U \in SUBSET (0..(ItemSource!Capacity(C) - 1)) /\ PoolHas(pool, C, U)
        /\ pool \in PagePools /\ ~ItemSource!OneMask(C)
    BY <1>2, <1>7, <2>2
  <2>4. /\ new \in PagePools /\ new.next = pool.next
        /\ x \in U /\ PoolHas(new, C, U \ {x})
    BY <1>8, <1>9, <2>1, <2>3, NextItem
  <2> QED
    BY <2>2, <2>4, Zenon
<1>11. x \in Nat /\ objects' = objects \union {ItemSource!Object(P, x, C)}
  <2>1. x \in 0..(ItemSource!Capacity(C) - 1) /\ ItemSource!Capacity(C) \in Nat
    BY <1>10, Sizes DEF Unheld
  <2>2. objects' = objects \union {ItemSource!Object(P, x, C)}
    BY <1>1, <1>9, Zenon
  <2> QED
    BY <2>1, <2>2
<1>12. /\ objects' \subseteq [page : ItemSource!PageIds, item : Nat, class : ItemSource!Classes]
       /\ \A o : o.page # P => (o \in objects' <=> o \in objects)
       /\ Unheld(P, C)' = Unheld(P, C) \ {x}
  BY <1>4, <1>11, ObjectGiven
<1>13. PICK full \in BOOLEAN : full <=> new.free = {}
  BY Zenon
<1>14. pageLists' = [pageLists EXCEPT ![C] =
             IF full THEN Tail(ItemSource!Rotated(C)) ELSE ItemSource!Rotated(C)]
  BY <1>1, <1>13, Zenon
<1>15. PICK t : ListBecomes(C, P, t) /\ (P \in Members(t) <=> ~full)
  BY <1>1, <1>2, <1>14, ListAfter, Zenon
<1>16. /\ pageLists' \in [ItemSource!Classes -> Seq(ItemSource!PageIds)]
       /\ \A q, d : q # P /\ d \in ItemSource!Classes => (OnList(q, d)' <=> OnList(q, d))
  BY <1>15, NewLists
<1>17. new.free = {} <=> Unheld(P, C)' = {}
  <2>1. Unheld(P, C)' \in SUBSET (0..(ItemSource!Capacity(C) - 1))
    BY <1>7, <1>12
  <2> QED
    BY <1>2, <1>10, <1>12, <2>1, PoolSummary
<1>18. Large(P)
  BY <1>2, <1>5, PageHasAll
<1>19. \A q \in ItemSource!PageIds : Large(q)' <=> Large(q)
  <2> TAKE q \in ItemSource!PageIds
  <2>1. CASE q = P
    <3>1. Large(P)'
      BY <1>11, <1>18 DEF Large
    <3> QED
      BY <1>18, <2>1, <3>1
  <2>2. CASE q # P
    BY <1>12, <2>2, Zenon DEF Large
  <2> QED
    BY <2>1, <2>2
<1>20. /\ FreePools' /\ pools' \in Seq(PagePools) /\ pools'[pagePool[P]] = new
       /\ Len(pools') = Len(pools)
       /\ \A n \in 1..Len(pools) : n # pagePool[P] => pools'[n] = pools[n]
       /\ \A n \in 1..Len(pools') : pools'[n].next \in 0..Len(pools')
  BY <1>1, <1>2, <1>4, <1>6, <1>7, <1>10, <1>18, <1>19, PoolChanged, ZenonT(40)
<1>21. PageHas(P, C)'
  <2>1. P \in Members(t) <=> Unheld(P, C)' # {}
    BY <1>13, <1>15, <1>17
  <2>2. pagePool'[P] # 0 /\ PoolHas(pools'[pagePool'[P]], C, Unheld(P, C)')
    BY <1>2, <1>7, <1>10, <1>12, <1>20
  <2> QED
    BY <1>2, <1>4, <1>5, <1>10, <1>11, <1>15, <2>1, <2>2, GivenOn
<1>22. PageSound(P)'
  BY <1>21, PageHasAllNext
<1>23. Others(P)
  <2> SUFFICES ASSUME NEW q \in ItemSource!PageIds, q # P PROVE SamePage(q)
    BY DEF Others
  <2>1. Large(q) => pools'[pagePool[q]] = pools[pagePool[q]]
    BY <1>4, <1>18, <1>20, OtherPool
  <2> QED
    BY <1>2, <1>12, <1>16, <2>1 DEF SamePage
<1>24. ItemTypes'
  BY <1>2, <1>3, <1>12, <1>16, <1>20 DEF ItemTypes
<1> QED
  BY <1>4, <1>15, <1>20, <1>22, <1>23, <1>24, StepOnPage

-----------------------------------------------------------------------------
(* An object comes back *)

\* The list after an object came back: without the page if it was the last one, and
\* with it if the page was full.
LEMMA ListBack ==
  ASSUME ItemInv, NEW x \in objects, NEW wasFull, NEW isUnused,
         ItemSource!FreePageOf(x, wasFull, isUnused),
         wasFull <=> Unheld(x.page, x.class) = {},
         isUnused <=> Unheld(x.page, x.class)' = 0..(ItemSource!Capacity(x.class) - 1)
  PROVE  \E t : ListBecomes(x.class, x.page, t) /\ (x.page \in Members(t) <=> ~isUnused)
<1>1. PICK P, C : P = x.page /\ C = x.class
  OBVIOUS
<1>2. objects' = objects \ {x}
  BY DEF ItemSource!FreePageOf
<1>3. /\ P \in ItemSource!PageIds /\ C \in ItemSource!Classes /\ PageHas(P, C)
      /\ x.item \notin Unheld(P, C) /\ Unheld(P, C)' = Unheld(P, C) \union {x.item}
      /\ x.item \in 0..(ItemSource!Capacity(C) - 1)
  BY <1>1, <1>2, ObjectTaken
<1>4. pageLists[C] \in Seq(ItemSource!PageIds) /\ Distinct(pageLists[C])
  BY <1>3 DEF ItemInv, ItemTypes
<1>5. OnList(P, C) <=> ~wasFull
  BY <1>1, <1>3 DEF PageHas
<1>6. CASE isUnused
  <2>1. ~wasFull
    <3> SUFFICES ASSUME wasFull PROVE FALSE
      OBVIOUS
    <3>1. {x.item} = 0..(ItemSource!Capacity(C) - 1)
      BY <1>1, <1>3, <1>6
    <3>2. ItemSource!Capacity(C) \in Nat \ {0, 1}
      BY <1>3, Sizes
    <3>3. 0 \in 0..(ItemSource!Capacity(C) - 1) /\ 1 \in 0..(ItemSource!Capacity(C) - 1)
      BY <3>2
    <3> QED
      BY <3>1, <3>3
  <2>2. PICK t : t = Removal(pageLists[C], P)
    OBVIOUS
  <2>3. pageLists' = [pageLists EXCEPT ![C] = t]
    BY <1>1, <1>6, <2>2 DEF ItemSource!FreePageOf, ItemSource!RemovePage, Removal
  <2>4. t \in Seq(ItemSource!PageIds) /\ Distinct(t) /\ Members(t) = Members(pageLists[C]) \ {P}
    BY <1>4, <1>5, <2>1, <2>2, DistinctRemove DEF OnList
  <2>5. ListBecomes(C, P, t) /\ P \notin Members(t)
    BY <2>3, <2>4 DEF ListBecomes, OnList
  <2> QED
    BY <1>1, <1>6, <2>5
<1>7. CASE ~isUnused /\ wasFull
  <2>2. PICK t : t = Append(pageLists[C], P)
    OBVIOUS
  <2>3. pageLists' = [pageLists EXCEPT ![C] = t]
    BY <1>1, <1>7, <2>2 DEF ItemSource!FreePageOf, ItemSource!AddPage
  <2>4. t \in Seq(ItemSource!PageIds) /\ Distinct(t) /\ Members(t) = Members(pageLists[C]) \union {P}
    BY <1>3, <1>4, <1>5, <1>7, <2>2, DistinctAppend DEF OnList
  <2>5. ListBecomes(C, P, t) /\ P \in Members(t)
    BY <2>3, <2>4 DEF ListBecomes, OnList
  <2> QED
    BY <1>1, <1>7, <2>5
<1>8. CASE ~isUnused /\ ~wasFull
  <2>1. pageLists' = pageLists
    BY <1>8 DEF ItemSource!FreePageOf
  <2>2. pageLists' = [pageLists EXCEPT ![C] = pageLists[C]]
    BY <1>3, <2>1 DEF ItemInv, ItemTypes
  <2>3. ListBecomes(C, P, pageLists[C]) /\ P \in Members(pageLists[C])
    BY <1>4, <1>5, <1>8, <2>2 DEF ListBecomes, OnList
  <2> QED
    BY <1>1, <1>8, <2>3
<1> QED
  BY <1>6, <1>7, <1>8

\* What is known of the page that an object comes back to.
LEMMA BackOn ==
  ASSUME ItemInv, NEW x \in objects, objects' = objects \ {x},
         NEW isUnused, isUnused <=> Unheld(x.page, x.class)' = 0..(ItemSource!Capacity(x.class) - 1),
         taken' = IF isUnused THEN taken \ {x.page} ELSE taken,
         NEW t, ListBecomes(x.class, x.page, t), x.page \in Members(t) <=> ~isUnused,
         ~isUnused =>
           IF ItemSource!OneMask(x.class) THEN pageMask'[x.page] = Unheld(x.page, x.class)'
           ELSE /\ pagePool'[x.page] # 0
                /\ PoolHas(pools'[pagePool'[x.page]], x.class, Unheld(x.page, x.class)')
  PROVE  /\ PageSound(x.page)'
         /\ Large(x.page)' <=> Large(x.page) /\ ~isUnused
         /\ Large(x.page) <=> ~ItemSource!OneMask(x.class)
<1>1. PICK P, C : P = x.page /\ C = x.class
  OBVIOUS
<1>2. /\ P \in ItemSource!PageIds /\ C \in ItemSource!Classes /\ PageHas(P, C)
      /\ Unheld(P, C)' = Unheld(P, C) \union {x.item}
  BY <1>1, ObjectTaken
<1>3. Large(P) <=> ~ItemSource!OneMask(C)
  BY <1>2, PageHasAll
<1>4. /\ \A d \in ItemSource!Classes : d # C => (OnList(P, d)' <=> OnList(P, d))
      /\ OnList(P, C)' <=> ~isUnused
  BY <1>1, <1>2, NewLists
<1>5. \A d \in ItemSource!Classes : d # C => ~OnList(P, d)
  BY <1>2 DEF PageHas
<1>6. \A o \in objects' : o.page = P => o.class = C /\ o.item \in 0..(ItemSource!Capacity(C) - 1)
  <2> TAKE o \in objects'
  <2>1. o.page = P => o.class = C
    BY <1>2 DEF PageHas
  <2>2. o.item \in 0..(ItemSource!Capacity(o.class) - 1)
    <3> SUFFICES ASSUME o \in objects PROVE o.item \in 0..(ItemSource!Capacity(o.class) - 1)
      OBVIOUS
    <3>1. PageHas(o.page, o.class) /\ o.item \in Nat /\ o.class \in ItemSource!Classes
      <4>1. o.page \in ItemSource!PageIds /\ o.item \in Nat /\ o.class \in ItemSource!Classes
        BY DEF ItemInv, ItemTypes
      <4> QED
        BY <4>1, PageOf DEF ItemInv
    <3>2. o.item < ItemSource!Capacity(o.class) /\ ItemSource!Capacity(o.class) \in Nat
      BY <3>1, Sizes DEF PageHas
    <3> QED
      BY <3>1, <3>2
  <2> QED
    BY <2>1, <2>2
<1>7. CASE isUnused
  <2>1. \A o \in objects' : o.page # P
    <3> SUFFICES ASSUME NEW o \in objects', o.page = P PROVE FALSE
      OBVIOUS
    <3>1. o.item \in Unheld(P, C)'
      BY <1>1, <1>6, <1>7
    <3> QED
      BY <3>1 DEF Unheld
  <2>2. \A d \in ItemSource!Classes : ~OnList(P, d)'
    BY <1>4, <1>5, <1>7
  <2>3. P \notin taken'
    BY <1>1, <1>7
  <2>4. PageSound(P)' /\ ~Large(P)'
    BY <2>1, <2>2, <2>3 DEF PageSound, Large, OnList
  <2> QED
    BY <1>1, <1>3, <1>7, <2>4
<1>8. CASE ~isUnused
  <2>1. \E o \in objects' : o.page = P
    <3> SUFFICES ASSUME \A o \in objects' : o.page # P PROVE FALSE
      OBVIOUS
    <3>1. Unheld(P, C)' = 0..(ItemSource!Capacity(C) - 1)
      BY DEF Unheld
    <3> QED
      BY <1>1, <1>8, <3>1
  <2>2. P \in taken'
    BY <1>2, <1>8 DEF PageHas
  <2>3. \A o \in objects' : o.page = P => o.class = C /\ o.item < ItemSource!Capacity(C)
    BY <1>2, <1>6, Sizes
  <2>4. \A d \in ItemSource!Classes : OnList(P, d)' <=> d = C /\ Unheld(P, C)' # {}
    BY <1>2, <1>4, <1>5, <1>8
  <2>5. PageHas(P, C)'
    BY <1>1, <1>8, <2>1, <2>2, <2>3, <2>4 DEF PageHas
  <2> QED
    BY <1>1, <1>3, <1>8, <2>5, PageHasAllNext
<1> QED
  BY <1>7, <1>8

\* Giving back an item of a page with one mask keeps the invariant.
LEMMA MaskBackStep ==
  ASSUME ItemInv, NEW x \in objects, ItemSource!FreeInMask(x)
  PROVE  ItemInv'
<1>1. PICK P, C : P = x.page /\ C = x.class
  OBVIOUS
<1>2. /\ ItemSource!OneMask(C) /\ UNCHANGED <<pagePool, pools, freePool>>
      /\ pageMask' = [pageMask EXCEPT ![P] = @ \union {x.item}]
  BY <1>1 DEF ItemSource!FreeInMask, ItemSource!poolVars
<1>3. PICK wasFull \in BOOLEAN, isUnused \in BOOLEAN :
        /\ wasFull <=> pageMask[P] = {}
        /\ isUnused <=> pageMask'[P] = 0..(ItemSource!Capacity(C) - 1)
  OBVIOUS
<1>4. ItemSource!FreePageOf(x, wasFull, isUnused)
  <2>1. ItemSource!FreePageOf(x, pageMask[P] = {}, pageMask'[P] = 0..(ItemSource!Capacity(C) - 1))
    BY <1>1 DEF ItemSource!FreeInMask
  <2> QED
    BY <1>3, <2>1 DEF ItemSource!FreePageOf
<1>5. /\ objects' = objects \ {x} /\ closed' = closed
      /\ taken' = IF isUnused THEN taken \ {P} ELSE taken
  BY <1>1, <1>4 DEF ItemSource!FreePageOf
<1>6. /\ objects' \subseteq [page : ItemSource!PageIds, item : Nat, class : ItemSource!Classes]
      /\ \A o : o.page # P => (o \in objects' <=> o \in objects)
      /\ P \in ItemSource!PageIds /\ C \in ItemSource!Classes
      /\ x.item \in 0..(ItemSource!Capacity(C) - 1) /\ x.item \notin Unheld(P, C)
      /\ PageHas(P, C) /\ Unheld(P, C)' = Unheld(P, C) \union {x.item}
  BY <1>1, <1>5, ObjectTaken
<1>7. ItemTypes /\ FreePools
  BY DEF ItemInv
<1>8. pageMask[P] = Unheld(P, C)
  BY <1>2, <1>6 DEF PageHas
<1>9. pageMask' \in [ItemSource!PageIds -> SUBSET ItemSource!Bits]
      /\ pageMask'[P] = Unheld(P, C)'
      /\ \A q \in ItemSource!PageIds : q # P => pageMask'[q] = pageMask[q]
  <2>1. x.item \in ItemSource!Bits
    BY <1>2, <1>6, Sizes
  <2> QED
    BY <1>2, <1>6, <1>7, <1>8, <2>1 DEF ItemTypes
<1>10. (wasFull <=> Unheld(P, C) = {}) /\ (isUnused <=> Unheld(P, C)' = 0..(ItemSource!Capacity(C) - 1))
  BY <1>3, <1>8, <1>9
<1>11. PICK t : ListBecomes(C, P, t) /\ (P \in Members(t) <=> ~isUnused)
  BY <1>1, <1>4, <1>10, ListBack
<1>12. /\ pageLists' \in [ItemSource!Classes -> Seq(ItemSource!PageIds)]
       /\ \A q, d : q # P /\ d \in ItemSource!Classes => (OnList(q, d)' <=> OnList(q, d))
  BY <1>6, <1>11, NewLists
<1>13. PageSound(P)' /\ ~Large(P)' /\ ~Large(P)
  <2>1. ~isUnused =>
           IF ItemSource!OneMask(x.class) THEN pageMask'[x.page] = Unheld(x.page, x.class)'
           ELSE /\ pagePool'[x.page] # 0
                /\ PoolHas(pools'[pagePool'[x.page]], x.class, Unheld(x.page, x.class)')
    BY <1>1, <1>2, <1>9
  <2> QED
    BY <1>1, <1>2, <1>5, <1>10, <1>11, <2>1, BackOn
<1>14. Others(P)
  <2>1. \A q : q # P => (q \in taken' <=> q \in taken)
    BY <1>5
  <2> QED
    BY <1>2, <1>6, <1>9, <1>12, <2>1 DEF Others, SamePage
<1>15. FreePools'
  <2>1. \A q \in ItemSource!PageIds : Large(q)' <=> Large(q)
    BY <1>13, <1>14, SamePageStays DEF Others
  <2> QED
    BY <1>2, <1>7, <2>1, SamePools
<1>16. ItemTypes'
  <2>1. taken' \subseteq ItemSource!PageIds
    BY <1>5, <1>7 DEF ItemTypes
  <2> QED
    BY <1>2, <1>5, <1>6, <1>7, <1>9, <1>12, <2>1 DEF ItemTypes
<1> QED
  BY <1>6, <1>11, <1>13, <1>14, <1>15, <1>16, StepOnPage

\* The page pool of page P is of no use any more.
LEMMA PoolReturned ==
  ASSUME ItemInv, NEW P \in ItemSource!PageIds, Large(P), ~Large(P)', pagePool[P] # 0,
         \A q \in ItemSource!PageIds : q # P => (Large(q)' <=> Large(q)),
         UNCHANGED pagePool, freePool' = pagePool[P], NEW new \in PagePools,
         pools' = [pools EXCEPT ![pagePool[P]] = new], new.next = freePool,
         \A k \in ItemSource!MaskIds : new.masks[k] = ItemSource!Bits
  PROVE  /\ FreePools' /\ pools' \in Seq(PagePools)
         /\ Len(pools') = Len(pools) /\ freePool' \in 0..Len(pools)
         /\ \A n \in 1..Len(pools) : n # pagePool[P] => pools'[n] = pools[n]
         /\ \A n \in 1..Len(pools') : pools'[n].next \in 0..Len(pools')
<1>1. PICK N : N = pagePool[P]
  OBVIOUS
<1>2. /\ pools \in Seq(PagePools) /\ \A n \in 1..Len(pools) : pools[n].next \in 0..Len(pools)
      /\ freePool \in 0..Len(pools) /\ pagePool \in [ItemSource!PageIds -> 0..Len(pools)]
      /\ FreePools /\ Len(pools) \in Nat
  BY LenProperties DEF ItemInv, ItemTypes
<1>3. N \in 1..Len(pools) /\ freePool' = N
  BY <1>1, <1>2
<1>4. pools' \in Seq(PagePools) /\ Len(pools') = Len(pools) /\ pools'[N] = new
      /\ \A n \in 1..Len(pools) : n # N => pools'[n] = pools[n]
  BY <1>1, <1>2, <1>3, ExceptSeq
<1>5. \A n \in 1..Len(pools) : pools'[n].next \in 0..Len(pools)
  BY <1>2, <1>4
<1>6. InUse(N)
  BY <1>1 DEF InUse
<1>7. \A n : InUse(n)' <=> InUse(n) /\ n # N
  <2> TAKE n
  <2>1. ASSUME InUse(n)' PROVE InUse(n) /\ n # N
    <3>1. PICK p \in ItemSource!PageIds : Large(p)' /\ pagePool[p] = n
      BY <2>1 DEF InUse
    <3>2. p # P /\ Large(p)
      BY <3>1
    <3>3. n # N
      BY <1>1, <1>2, <3>1, <3>2 DEF FreePools
    <3> QED
      BY <3>1, <3>2, <3>3 DEF InUse
  <2>2. ASSUME InUse(n), n # N PROVE InUse(n)'
    <3>1. PICK p \in ItemSource!PageIds : Large(p) /\ pagePool[p] = n
      BY <2>2 DEF InUse
    <3>2. p # P /\ Large(p)'
      BY <1>1, <2>2, <3>1
    <3> QED
      BY <3>1, <3>2 DEF InUse
  <2> QED
    BY <2>1, <2>2
<1>8. \A p, q \in ItemSource!PageIds : Large(p)' /\ Large(q)' /\ pagePool'[p] = pagePool'[q] => p = q
  <2>1. \A p \in ItemSource!PageIds : Large(p)' => Large(p)
    OBVIOUS
  <2> QED
    BY <1>2, <2>1 DEF FreePools
<1>9. ~InUse(freePool)'
  BY <1>3, <1>7
<1>10. ~InUse(freePool) /\ freePool # N
  BY <1>2, <1>6 DEF FreePools
<1>11. ASSUME NEW n \in 1..Len(pools'), ~InUse(n)'
       PROVE  /\ \A k \in ItemSource!MaskIds : pools'[n].masks[k] = ItemSource!Bits
              /\ ~InUse(pools[n].next)'
              /\ pools'[n].next = freePool' => freePool' = 0
              /\ \A m \in 1..Len(pools') :
                   ~InUse(m)' /\ pools'[m].next = pools'[n].next => m = n \/ pools'[n].next = 0
  <2>1. n \in 1..Len(pools) /\ (n = N \/ ~InUse(n))
    BY <1>4, <1>7, <1>11
  <2>2. \A m \in 1..Len(pools) : m # N /\ ~InUse(m)' =>
          /\ ~InUse(m) /\ pools'[m] = pools[m]
          /\ \A k \in ItemSource!MaskIds : pools[m].masks[k] = ItemSource!Bits
          /\ ~InUse(pools[m].next)
          /\ pools[m].next = freePool => freePool = 0
          /\ \A l \in 1..Len(pools) :
               ~InUse(l) /\ pools[l].next = pools[m].next => l = m \/ pools[m].next = 0
    <3> SUFFICES ASSUME NEW m \in 1..Len(pools), m # N, ~InUse(m)'
                 PROVE  /\ ~InUse(m) /\ pools'[m] = pools[m]
                        /\ \A k \in ItemSource!MaskIds : pools[m].masks[k] = ItemSource!Bits
                        /\ ~InUse(pools[m].next)
                        /\ pools[m].next = freePool => freePool = 0
                        /\ \A l \in 1..Len(pools) :
                             ~InUse(l) /\ pools[l].next = pools[m].next => l = m \/ pools[m].next = 0
      OBVIOUS
    <3>1. ~InUse(m)
      BY <1>7
    <3> QED
      BY <1>2, <1>4, <3>1 DEF FreePools
  <2>3. ~InUse(pools'[n].next) /\ pools'[n].next # N
    <3>1. CASE n = N
      BY <1>4, <1>10, <3>1
    <3>2. CASE n # N
      BY <1>6, <1>11, <2>1, <2>2, <3>2
    <3> QED
      BY <3>1, <3>2
  <2>4. ~InUse(pools[n].next)'
    BY <1>7, <2>3
  <2>5. \A k \in ItemSource!MaskIds : pools'[n].masks[k] = ItemSource!Bits
    BY <1>4, <1>11, <2>1, <2>2
  <2>6. ASSUME NEW m \in 1..Len(pools'), ~InUse(m)', pools'[m].next = pools'[n].next
        PROVE  m = n \/ pools'[n].next = 0
    <3>0. m \in 1..Len(pools) /\ (m # N => ~InUse(m))
      BY <1>4, <1>7, <2>6
    <3>1. CASE n = N /\ m # N
      BY <1>4, <2>2, <2>6, <3>0, <3>1
    <3>2. CASE n # N /\ m = N
      BY <1>4, <1>11, <2>1, <2>2, <2>6, <3>0, <3>2
    <3>3. CASE n # N /\ m # N
      BY <1>11, <2>1, <2>2, <2>6, <3>0, <3>3
    <3> QED
      BY <3>1, <3>2, <3>3
  <2> QED
    BY <1>3, <2>3, <2>4, <2>5, <2>6
<1>12. FreePools'
  BY <1>8, <1>9, <1>11 DEF FreePools
<1> QED
  BY <1>1, <1>2, <1>3, <1>4, <1>5, <1>12

\* Giving back an item of a page with a PagePool keeps the invariant.
LEMMA PoolBackStep ==
  ASSUME ItemInv, NEW x \in objects, ItemSource!FreeInPool(x)
  PROVE  ItemInv'
<1>0. PICK P, C, pool, new :
        P = x.page /\ C = x.class /\ pool = pools[pagePool[P]] /\ new = PoolWith(pool, x.item)
  OBVIOUS
<1>1. PICK last \in BOOLEAN :
        /\ P = x.page /\ C = x.class /\ pool = pools[pagePool[P]] /\ new = PoolWith(pool, x.item)
        /\ last <=> new.used = {}
  BY <1>0, Zenon
<1>2. /\ ~ItemSource!OneMask(C) /\ UNCHANGED <<pageMask, pagePool>>
      /\ pools' = [pools EXCEPT ![pagePool[P]] = IF last THEN [new EXCEPT !.next = freePool] ELSE new]
      /\ freePool' = IF last THEN pagePool[P] ELSE freePool
      /\ ItemSource!FreePageOf(x, pool.free = {}, new.used = {})
  BY <1>1, Zenon DEF ItemSource!FreeInPool, PoolWith
<1>3. PICK wasFull \in BOOLEAN : wasFull <=> pool.free = {}
  OBVIOUS
<1>4. ItemSource!FreePageOf(x, wasFull, last)
  BY <1>1, <1>2, <1>3 DEF ItemSource!FreePageOf
<1>5. /\ objects' = objects \ {x} /\ closed' = closed
      /\ taken' = IF last THEN taken \ {P} ELSE taken
  BY <1>1, <1>4 DEF ItemSource!FreePageOf
<1>6. /\ objects' \subseteq [page : ItemSource!PageIds, item : Nat, class : ItemSource!Classes]
      /\ \A o : o.page # P => (o \in objects' <=> o \in objects)
      /\ P \in ItemSource!PageIds /\ C \in ItemSource!Classes
      /\ x.item \in 0..(ItemSource!Capacity(C) - 1) /\ x.item \notin Unheld(P, C)
      /\ PageHas(P, C) /\ Unheld(P, C)' = Unheld(P, C) \union {x.item}
  BY <1>1, <1>5, ObjectTaken
<1>7. ItemTypes /\ FreePools
  BY DEF ItemInv
<1>8. /\ pool \in PagePools /\ PoolHas(pool, C, Unheld(P, C)) /\ pagePool[P] # 0
      /\ pagePool[P] \in 1..Len(pools) /\ Len(pools) \in Nat
  <2>1. PoolHas(pool, C, Unheld(P, C)) /\ pagePool[P] # 0
    BY <1>1, <1>2, <1>6 DEF PageHas
  <2>2. pagePool[P] \in 1..Len(pools) /\ Len(pools) \in Nat
    BY <1>6, <1>7, <2>1, LenProperties DEF ItemTypes
  <2>3. pool \in PagePools
    BY <1>1, <1>7, <2>2, ElementOfSeq DEF ItemTypes
  <2> QED
    BY <2>1, <2>2, <2>3
<1>9. PICK U, i : U = Unheld(P, C) /\ i = x.item
  OBVIOUS
<1>10. /\ U \in SUBSET (0..(ItemSource!Capacity(C) - 1)) /\ PoolHas(pool, C, U)
       /\ i \in 0..(ItemSource!Capacity(C) - 1) /\ i \notin U
       /\ U \union {i} \in SUBSET (0..(ItemSource!Capacity(C) - 1))
       /\ Unheld(P, C)' = U \union {i} /\ new = PoolWith(pool, i)
  BY <1>1, <1>6, <1>8, <1>9 DEF Unheld
<1>11. new \in PagePools /\ new.next = pool.next /\ PoolHas(new, C, U \union {i})
  <2>1. C \in ItemSource!Classes /\ ~ItemSource!OneMask(C) /\ pool \in PagePools
    BY <1>2, <1>6, <1>8
  <2>2. /\ U \in SUBSET (0..(ItemSource!Capacity(C) - 1)) /\ PoolHas(pool, C, U)
        /\ i \in 0..(ItemSource!Capacity(C) - 1) /\ i \notin U /\ new = PoolWith(pool, i)
    BY <1>10
  <2> QED
    BY <2>1, <2>2, ItemBack
<1>12. /\ pool.free = {} <=> U = {}
       /\ new.used = {} <=> U \union {i} = 0..(ItemSource!Capacity(C) - 1)
  BY <1>2, <1>6, <1>8, <1>10, <1>11, PoolSummary
<1>13. (wasFull <=> Unheld(P, C) = {}) /\ (last <=> Unheld(P, C)' = 0..(ItemSource!Capacity(C) - 1))
  BY <1>1, <1>3, <1>9, <1>10, <1>12
<1>14. PICK t : ListBecomes(C, P, t) /\ (P \in Members(t) <=> ~last)
  BY <1>1, <1>4, <1>13, ListBack
<1>15. /\ pageLists' \in [ItemSource!Classes -> Seq(ItemSource!PageIds)]
       /\ \A q, d : q # P /\ d \in ItemSource!Classes => (OnList(q, d)' <=> OnList(q, d))
  BY <1>6, <1>14, NewLists
<1>16. ~last => pools'[pagePool[P]] = new
  BY <1>2, <1>7, <1>8, ExceptSeq DEF ItemTypes
<1>17. PageSound(P)' /\ (Large(P)' <=> ~last) /\ Large(P)
  <2>1. ~last =>
           IF ItemSource!OneMask(x.class) THEN pageMask'[x.page] = Unheld(x.page, x.class)'
           ELSE /\ pagePool'[x.page] # 0
                /\ PoolHas(pools'[pagePool'[x.page]], x.class, Unheld(x.page, x.class)')
    BY <1>1, <1>2, <1>8, <1>10, <1>11, <1>16
  <2> QED
    BY <1>1, <1>2, <1>5, <1>13, <1>14, <2>1, BackOn
<1>18. \A q \in ItemSource!PageIds : q # P => (Large(q)' <=> Large(q))
  BY <1>6 DEF Large
<1>19. /\ FreePools' /\ pools' \in Seq(PagePools) /\ Len(pools') = Len(pools)
       /\ freePool' \in 0..Len(pools)
       /\ \A n \in 1..Len(pools) : n # pagePool[P] => pools'[n] = pools[n]
       /\ \A n \in 1..Len(pools') : pools'[n].next \in 0..Len(pools')
  <2>1. CASE last
    <3>1. PICK back : back = [new EXCEPT !.next = freePool]
      OBVIOUS
    <3>2. /\ back \in PagePools /\ back.next = freePool /\ back.masks = new.masks
      <4>1. freePool \in Nat
        BY <1>7, <1>8 DEF ItemTypes
      <4> QED
        BY <1>11, <3>1, <4>1 DEF PagePools
    <3>3. \A k \in ItemSource!MaskIds : back.masks[k] = ItemSource!Bits
      <4>1. new.used = {k \in ItemSource!MaskIds : new.masks[k] # ItemSource!Bits}
        BY <1>11 DEF PoolHas
      <4> QED
        BY <1>1, <2>1, <3>2, <4>1
    <3>4. pools' = [pools EXCEPT ![pagePool[P]] = back] /\ freePool' = pagePool[P]
      BY <1>2, <2>1, <3>1
    <3> QED
      <4>1. Large(P) /\ ~Large(P)' /\ P \in ItemSource!PageIds /\ pagePool[P] # 0
        BY <1>6, <1>8, <1>17, <2>1
      <4>2. UNCHANGED pagePool
        BY <1>2
      <4>3. /\ FreePools' /\ pools' \in Seq(PagePools)
            /\ Len(pools') = Len(pools) /\ freePool' \in 0..Len(pools)
            /\ \A n \in 1..Len(pools) : n # pagePool[P] => pools'[n] = pools[n]
            /\ \A n \in 1..Len(pools') : pools'[n].next \in 0..Len(pools')
        BY <1>18, <3>2, <3>3, <3>4, <4>1, <4>2, PoolReturned
      <4> QED
        BY <4>3
  <2>2. CASE ~last
    <3>1. pools' = [pools EXCEPT ![pagePool[P]] = new] /\ freePool' = freePool
      BY <1>2, <2>2
    <3>2. \A q \in ItemSource!PageIds : Large(q)' <=> Large(q)
      BY <1>17, <1>18, <2>2
    <3>3. freePool' \in 0..Len(pools)
      BY <1>7, <3>1 DEF ItemTypes
    <3>4. new.next = pools[pagePool[P]].next
      BY <1>1, <1>11
    <3> QED
      BY <1>2, <1>6, <1>8, <1>11, <1>17, <3>1, <3>2, <3>3, <3>4, PoolChanged, ZenonT(40)
  <2> QED
    BY <2>1, <2>2
<1>20. Others(P)
  <2> SUFFICES ASSUME NEW q \in ItemSource!PageIds, q # P PROVE SamePage(q)
    BY DEF Others
  <2>1. Large(q) => pools'[pagePool[q]] = pools[pagePool[q]]
    BY <1>6, <1>17, <1>19, OtherPool
  <2>2. q \in taken' <=> q \in taken
    BY <1>5
  <2> QED
    BY <1>2, <1>6, <1>15, <2>1, <2>2 DEF SamePage
<1>21. ItemTypes'
  <2>1. taken' \subseteq ItemSource!PageIds
    BY <1>5, <1>7 DEF ItemTypes
  <2> QED
    BY <1>2, <1>5, <1>6, <1>7, <1>15, <1>19, <2>1 DEF ItemTypes
<1> QED
  BY <1>6, <1>14, <1>17, <1>19, <1>20, <1>21, StepOnPage

\* A chunk is closed or opened, or the allocator does nothing.
LEMMA ClosedStep ==
  ASSUME ItemInv, closed' \subseteq ItemSource!PageIds,
         UNCHANGED <<taken, pageMask, pagePool, pools, freePool, pageLists, objects>>
  PROVE  ItemInv'
<1>1. ItemTypes'
  BY DEF ItemInv, ItemTypes
<1>2. \A q \in ItemSource!PageIds : SamePage(q)
  BY DEF SamePage, OnList
<1>3. \A q \in ItemSource!PageIds : PageSound(q)' /\ (Large(q)' <=> Large(q))
  BY <1>2, SamePageStays DEF ItemInv
<1>4. FreePools'
  BY <1>3, SamePools DEF ItemInv
<1> QED
  BY <1>1, <1>3, <1>4 DEF ItemInv

\* The pool allocator is built as the invariant says.
LEMMA ItemInit ==
  ASSUME ItemSource!Init
  PROVE  ItemInv
<1> USE DEF ItemSource!Init
<1>1. Len(<<>>) = 0
  OBVIOUS
<1>2. ItemTypes
  BY <1>1 DEF ItemTypes, ItemSource!Nothing
<1>3. \A d \in ItemSource!Classes : Members(pageLists[d]) = {} /\ Distinct(pageLists[d])
  BY DEF Members, Distinct
<1>4. \A p \in ItemSource!PageIds : PageSound(p)
  BY <1>3 DEF PageSound
<1>5. FreePools
  BY DEF FreePools, InUse, Large
<1> QED
  BY <1>2, <1>3, <1>4, <1>5 DEF ItemInv

\* Every step of the pool allocator, and every step of another service, keeps the invariant.
LEMMA ItemStep ==
  ASSUME ItemInv, ItemSource!Next \/ UNCHANGED poolVars
  PROVE  ItemInv'
<1>1. ASSUME NEW c \in ItemSource!Classes, ItemSource!Alloc(c) PROVE ItemInv'
  BY <1>1, NewPageStep, MaskStep, PoolStep DEF ItemSource!Alloc
<1>2. ASSUME NEW x \in objects, ItemSource!FreeInMask(x) \/ ItemSource!FreeInPool(x) PROVE ItemInv'
  BY <1>2, MaskBackStep, PoolBackStep
<1>3. CASE ItemSource!SetClosed
  <2>1. closed' \subseteq ItemSource!PageIds
    BY <1>3 DEF ItemSource!SetClosed, ItemInv, ItemTypes
  <2> QED
    BY <1>3, <2>1, ClosedStep DEF ItemSource!SetClosed, ItemSource!poolVars
<1>4. CASE UNCHANGED poolVars
  <2>1. closed' \subseteq ItemSource!PageIds
    BY <1>4 DEF poolVars, ItemInv, ItemTypes
  <2> QED
    BY <1>4, <2>1, ClosedStep DEF poolVars
<1> QED
  BY <1>1, <1>2, <1>3, <1>4 DEF ItemSource!Next

-----------------------------------------------------------------------------
(* What the invariant says *)

\* The items that the masks of a page say are free are those that nobody has.
LEMMA FreeItemsAre ==
  ASSUME ItemInv, NEW P \in ItemSource!PageIds, NEW C \in ItemSource!Classes, PageHas(P, C)
  PROVE  ItemSource!FreeItems(P, C) = Unheld(P, C)
<1>1. CASE ItemSource!OneMask(C)
  BY <1>1 DEF PageHas, ItemSource!FreeItems
<1>2. CASE ~ItemSource!OneMask(C)
  <2>1. PoolHas(pools[pagePool[P]], C, Unheld(P, C))
    BY <1>2 DEF PageHas
  <2>2. Unheld(P, C) \subseteq 0..(ItemSource!Capacity(C) - 1)
    BY DEF Unheld
  <2> QED
    BY <1>2, <2>1, <2>2 DEF PoolHas, ItemSource!FreeItems
<1> QED
  BY <1>1, <1>2

\* Every item of a page is in one object or is free.
LEMMA ItemsPartitionedHolds ==
  ASSUME ItemInv
  PROVE  ItemSource!ItemsPartitioned
<1> SUFFICES ASSUME NEW p \in ItemSource!PageIds
             PROVE  /\ p \in taken <=> ItemSource!ItemsOf(p) # {}
                    /\ \A c \in ItemSource!ClassesOf(p) :
                         /\ ItemSource!ClassesOf(p) = {c}
                         /\ ItemSource!FreeItems(p, c) =
                              (0..(ItemSource!Capacity(c) - 1)) \ ItemSource!ItemsOf(p)
  BY DEF ItemSource!ItemsPartitioned
<1>1. PageSound(p)
  BY DEF ItemInv
<1>2. p \in taken <=> ItemSource!ItemsOf(p) # {}
  BY <1>1 DEF PageSound, ItemSource!ItemsOf
<1>3. ASSUME NEW c \in ItemSource!ClassesOf(p)
      PROVE  /\ ItemSource!ClassesOf(p) = {c}
             /\ ItemSource!FreeItems(p, c) =
                  (0..(ItemSource!Capacity(c) - 1)) \ ItemSource!ItemsOf(p)
  <2>1. PICK o \in objects : o.page = p /\ o.class = c
    BY DEF ItemSource!ClassesOf
  <2>2. PageHas(p, c) /\ c \in ItemSource!Classes
    BY <1>1, <2>1, PageOf DEF ItemInv, ItemTypes
  <2>3. ItemSource!ClassesOf(p) = {c}
    BY <2>1, <2>2 DEF PageHas, ItemSource!ClassesOf
  <2>4. Unheld(p, c) = (0..(ItemSource!Capacity(c) - 1)) \ ItemSource!ItemsOf(p)
    BY DEF Unheld, ItemSource!ItemsOf
  <2> QED
    BY <2>2, <2>3, <2>4, FreeItemsAre
<1> QED
  BY <1>2, <1>3

\* The lists have the pages with room, each once, and each on its own list.
LEMMA ListsHaveRoomHolds ==
  ASSUME ItemInv
  PROVE  ItemSource!ListsHaveRoom
<1> SUFFICES ASSUME NEW c \in ItemSource!Classes
             PROVE  /\ ItemSource!IsInjective(pageLists[c])
                    /\ ItemSource!Range(pageLists[c]) =
                         {p \in taken : c \in ItemSource!ClassesOf(p) /\ ItemSource!FreeItems(p, c) # {}}
  BY DEF ItemSource!ListsHaveRoom
<1>1. pageLists[c] \in Seq(ItemSource!PageIds) /\ Distinct(pageLists[c])
      /\ DOMAIN pageLists[c] = 1..Len(pageLists[c])
  BY LenProperties DEF ItemInv, ItemTypes
<1>2. ItemSource!IsInjective(pageLists[c])
  BY <1>1 DEF Distinct, ItemSource!IsInjective
<1>3. ItemSource!Range(pageLists[c]) = Members(pageLists[c])
  BY <1>1 DEF Members, ItemSource!Range
<1>4. Members(pageLists[c]) \subseteq ItemSource!PageIds
  BY <1>1, ElementOfSeq DEF Members
<1>5. ASSUME NEW p \in Members(pageLists[c])
      PROVE  p \in taken /\ c \in ItemSource!ClassesOf(p) /\ ItemSource!FreeItems(p, c) # {}
  <2>1. PageHas(p, c) /\ Unheld(p, c) # {} /\ p \in ItemSource!PageIds
    BY <1>4, Listed DEF OnList
  <2>2. c \in ItemSource!ClassesOf(p) /\ p \in taken
    BY <2>1 DEF PageHas, ItemSource!ClassesOf
  <2> QED
    BY <2>1, <2>2, FreeItemsAre
<1>6. ASSUME NEW p \in taken, c \in ItemSource!ClassesOf(p), ItemSource!FreeItems(p, c) # {}
      PROVE  p \in Members(pageLists[c])
  <2>1. PICK o \in objects : o.page = p /\ o.class = c
    BY <1>6 DEF ItemSource!ClassesOf
  <2>2. p \in ItemSource!PageIds
    BY DEF ItemInv, ItemTypes
  <2>3. PageHas(p, c)
    BY <2>1, <2>2, PageOf DEF ItemInv
  <2> QED
    BY <1>6, <2>2, <2>3, FreeItemsAre DEF PageHas, OnList
<1> QED
  BY <1>2, <1>3, <1>5, <1>6

\* No PagePool is of two pages or of one and free, and a free one is as it was built.
LEMMA PoolsSoundHolds ==
  ASSUME ItemInv
  PROVE  ItemSource!PoolsSound
<1> DEFINE large == {p \in taken : \E c \in ItemSource!ClassesOf(p) : ~ItemSource!OneMask(c)}
           inUse == {pagePool[p] : p \in large}
<1>1. \A p : p \in large <=> p \in ItemSource!PageIds /\ Large(p)
  <2>1. taken \subseteq ItemSource!PageIds
    BY DEF ItemInv, ItemTypes
  <2>2. \A p \in ItemSource!PageIds : Large(p) => p \in taken
    BY DEF ItemInv, PageSound, Large
  <2> QED
    BY <2>1, <2>2 DEF Large, ItemSource!ClassesOf
<1> HIDE DEF large
<1>2. \A n : n \in inUse <=> InUse(n)
  BY <1>1 DEF InUse
<1> HIDE DEF inUse
<1>3. DOMAIN pools = 1..Len(pools) /\ FreePools
  BY LenProperties DEF ItemInv, ItemTypes
<1>4. \A p, q \in large : pagePool[p] = pagePool[q] => p = q
  BY <1>1, <1>3 DEF FreePools
<1>5. freePool \notin inUse
  BY <1>2, <1>3 DEF FreePools
<1>6. \A n \in DOMAIN pools \ inUse :
        pools[n].next \notin inUse /\ \A k \in ItemSource!MaskIds : pools[n].masks[k] = ItemSource!Bits
  BY <1>2, <1>3 DEF FreePools
<1> QED
  BY <1>4, <1>5, <1>6 DEF ItemSource!PoolsSound, large, inUse

\* A page that defragmentation closed is not the first of a list.
LEMMA ClosedNotFilledHolds ==
  ASSUME ItemInv
  PROVE  ItemSource!ClosedNotFilled
  BY HeadOpen DEF ItemSource!ClosedNotFilled

\* The invariant implies what is stated of the pool allocator.
LEMMA ItemsSoundHolds ==
  ASSUME ItemInv
  PROVE  ItemSource!ItemsSound
  BY ItemsPartitionedHolds, ListsHaveRoomHolds, PoolsSoundHolds, ClosedNotFilledHolds
  DEF ItemSource!ItemsSound

\* The invariant implies the types.
LEMMA ItemTypesHold ==
  ASSUME ItemInv
  PROVE  ItemSource!TypeOK
<1>1. ItemTypes
  BY DEF ItemInv
<1>2. DOMAIN pools = 1..Len(pools) /\ \A n \in 1..Len(pools) : pools[n] \in PagePools
  BY <1>1, LenProperties, ElementOfSeq DEF ItemTypes
<1>3. \A n \in DOMAIN pools :
       /\ pools[n].next \in 0..Len(pools)
       /\ pools[n].free \subseteq ItemSource!MaskIds /\ pools[n].used \subseteq ItemSource!MaskIds
       /\ \A k \in ItemSource!MaskIds : pools[n].masks[k] \subseteq ItemSource!Bits
  BY <1>1, <1>2 DEF ItemTypes, PagePools
<1>4. \A c \in ItemSource!Classes : ItemSource!Range(pageLists[c]) \subseteq taken
  BY ListsHaveRoomHolds DEF ItemSource!ListsHaveRoom
<1> QED
  BY <1>1, <1>3, <1>4 DEF ItemTypes, ItemSource!TypeOK

\* The invariant of the pool allocator holds in every behaviour of the device.
LEMMA ItemInvHolds == DeviceSpec => []ItemInv
<1>1. DeviceInit => ItemInv
  BY ItemInit DEF DeviceInit
<1>2. ItemInv /\ [DeviceNext]_deviceVars => ItemInv'
  BY ItemStep, ServiceSteps
<1> QED
  BY <1>1, <1>2, PTL DEF DeviceSpec

=============================================================================
