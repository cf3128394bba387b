----------------------------- MODULE DxvkFence -----------------------------
(***************************************************************************)
(* DxvkFence (src/src/dxvk/dxvk_fence.h, dxvk_fence.cpp): a Vulkan         *)
(* timeline semaphore with events.  D3D11 fences use it for                *)
(* SetEventOnCompletion.                                                   *)
(*                                                                         *)
(* The first event that has to wait starts a worker thread, which polls    *)
(* the semaphore with a timeout and fires what has been reached.  The      *)
(* worker's critical section, from the condition variable to unlock(), is  *)
(* one step: it blocks nowhere inside.                                     *)
(***************************************************************************)
EXTENDS Naturals, FiniteSets

CONSTANTS
  Callers,   \* threads that enqueue events
  Events,    \* the events they enqueue
  MaxValue,  \* bound of the model: largest semaphore value
  MayFail    \* Vulkan calls of the worker may return an error

ASSUME FenceAssumption ==
  /\ MaxValue \in Nat
  /\ MayFail \in BOOLEAN

VARIABLES
  value,      \* counter value of the semaphore
  queue,      \* events in m_queue
  due,        \* value an event was enqueued with
  running,    \* m_running
  asleep,     \* the worker sleeps on m_condVar
  workerPc,   \* where the worker is
  reached,    \* its local value: the counter it has read
  pc, item,   \* the call each client is in, and the event it has yet to enqueue
  used,       \* events passed to enqueueWait
  fired,      \* events that have been called
  destroyed   \* the destructor has run up to its join

callerVars == <<pc, item, used>>
workerVars == <<workerPc, reached>>
vars == <<value, queue, due, running, asleep, workerVars, callerVars, fired, destroyed>>

Init ==
  /\ value = 0
  /\ queue = {} /\ due = [e \in Events |-> 0]
  /\ running = FALSE /\ asleep = FALSE
  /\ workerPc = "none" /\ reached = 0
  /\ pc = [t \in Callers |-> "idle"]
  /\ item = [t \in Callers |-> {}]
  /\ used = {} /\ fired = {}
  /\ destroyed = FALSE

\* The device, or a CPU signal, moves the semaphore forward by any amount.
Signal ==
  /\ \E v \in (value + 1)..MaxValue : value' = v
  /\ UNCHANGED <<queue, due, running, asleep, workerVars, callerVars, fired, destroyed>>

\* enqueueWait compares the value with the semaphore before it takes the lock.
EnqueueWait(t) ==
  /\ pc[t] = "idle" /\ ~destroyed
  /\ \E e \in Events \ used, v \in 0..MaxValue :
       /\ used' = used \union {e}
       /\ due' = [due EXCEPT ![e] = v]
       /\ IF v > value
            THEN /\ pc' = [pc EXCEPT ![t] = "enqueue"]
                 /\ item' = [item EXCEPT ![t] = {e}]
                 /\ UNCHANGED fired
            ELSE /\ fired' = fired \union {e}
                 /\ UNCHANGED <<pc, item>>
  /\ UNCHANGED <<value, queue, running, asleep, workerVars, destroyed>>

Wake == asleep' = FALSE

\* The rest of enqueueWait, with the lock held: start the worker or wake it.
Enqueue(t) ==
  /\ pc[t] = "enqueue"
  /\ queue' = queue \union item[t]
  /\ IF running
       THEN Wake /\ UNCHANGED <<running, workerPc>>
       ELSE running' = TRUE /\ workerPc' = "lock" /\ UNCHANGED asleep
  /\ pc' = [pc EXCEPT ![t] = "idle"]
  /\ item' = [item EXCEPT ![t] = {}]
  /\ UNCHANGED <<value, due, reached, used, fired, destroyed>>

\* The order of std::priority_queue with QueueItem::operator<: the item with
\* the largest value is on top.
OnTopOf(f, e) == due[f] > due[e]

\* The loop pops from the top while the top has been reached.
Reached(q, v) ==
  {e \in q : due[e] <= v /\ \A f \in q : OnTopOf(f, e) => due[f] <= v}

LeftMutant(q, v) == q
Left(q, v) == q \ Reached(q, v)

CounterValueMutant == value + 1
\* vkGetSemaphoreCounterValue, into the worker's local value.
CounterValue == value

Scan ==
  /\ workerPc = "lock" /\ ~asleep
  /\ IF queue = {} /\ running
       THEN asleep' = TRUE /\ UNCHANGED <<queue, fired, workerVars>>
       ELSE /\ reached' = CounterValue
            /\ fired' = fired \union Reached(queue, CounterValue)
            /\ queue' = Left(queue, CounterValue)
            /\ workerPc' = CASE ~running -> "exit"
                             [] running /\ queue' = {} -> "lock"
                             [] OTHER -> "timedWait"
            /\ UNCHANGED asleep
  /\ UNCHANGED <<value, due, running, callerVars, destroyed>>

\* vkWaitSemaphores for the next value: it may time out at any time, so that it
\* ends whether or not the value was reached.
TimedWait ==
  /\ workerPc = "timedWait"
  /\ workerPc' = "lock"
  /\ UNCHANGED <<value, queue, due, running, asleep, reached, callerVars, fired, destroyed>>

\* An error of either Vulkan call ends the thread, and m_running stays set.
Fail ==
  /\ MayFail
  /\ \/ workerPc = "lock" /\ ~asleep /\ ~(queue = {} /\ running)
     \/ workerPc = "timedWait"
  /\ workerPc' = "exit"
  /\ UNCHANGED <<value, queue, due, running, asleep, reached, callerVars, fired, destroyed>>

\* The destructor, when no client holds a reference; with no worker thread there
\* is nothing to join.
Destroy ==
  /\ ~destroyed
  /\ \A t \in Callers : pc[t] = "idle"
  /\ destroyed' = TRUE
  /\ IF workerPc # "none" THEN running' = FALSE /\ Wake
                          ELSE UNCHANGED <<running, asleep>>
  /\ UNCHANGED <<value, queue, due, workerVars, callerVars, fired>>

WorkerStep == Scan \/ TimedWait \/ Fail

Next ==
  \/ Signal
  \/ \E t \in Callers : EnqueueWait(t) \/ Enqueue(t)
  \/ WorkerStep
  \/ Destroy

Spec == Init /\ [][Next]_vars

\* The worker runs and a call goes on; nothing obliges the device to signal.
FairSpec ==
  /\ Spec
  /\ WF_vars(WorkerStep)
  /\ \A t \in Callers : WF_vars(Enqueue(t))

-----------------------------------------------------------------------------
(* Properties *)

\* The values the variables take.
TypeOK ==
  /\ value \in 0..MaxValue /\ reached \in 0..MaxValue
  /\ queue \subseteq Events /\ used \subseteq Events /\ fired \subseteq Events
  /\ due \in [Events -> 0..MaxValue]
  /\ running \in BOOLEAN /\ asleep \in BOOLEAN /\ destroyed \in BOOLEAN
  /\ workerPc \in {"none", "lock", "timedWait", "exit"}
  /\ pc \in [Callers -> {"idle", "enqueue"}]
  /\ item \in [Callers -> SUBSET Events]

\* An event is called only when the semaphore has reached its value, whichever
\* of the client and the worker calls it.
NoEarlyEvent == \A e \in fired : due[e] <= value

\* An event is fired, queued, or still in the hands of the client that enqueues
\* it: it is never lost, and never in two places, or it would be called twice.
EachEventOnce ==
  /\ \A e \in Events :
       e \in used <=> e \in fired \/ e \in queue \/ \E t \in Callers : e \in item[t]
  /\ fired \intersect queue = {}
  /\ \A t \in Callers : item[t] \intersect (fired \union queue) = {}

\* What enqueueWait promises: its event is called once, and not before its value.
FiredOnceWhenReached == NoEarlyEvent /\ EachEventOnce

\* No wakeup is lost: the worker sleeps only when nothing is queued.
NoForgottenEvent == asleep => queue = {}

\* What the fence promises: every event once, not early, and none left to a worker that
\* sleeps.
FencePromises == FiredOnceWhenReached /\ NoForgottenEvent

\* Comment of DxvkFence::run: "Signal all enqueued events whose value is not
\* greater than the current semaphore value".
AllReachedFired == workerPc = "timedWait" => \A e \in queue : due[e] > reached

\* Every event is called in the end when the semaphore reaches the largest value,
\* unless a Vulkan error has ended the worker or the fence is destroyed; and then
\* the worker ends, so that join() returns.
WorkerProgresses ==
  /\ \A e \in Events :
       (e \in queue /\ value = MaxValue) ~> (e \in fired \/ destroyed \/ workerPc = "exit")
  /\ destroyed ~> workerPc \in {"none", "exit"}
=============================================================================
