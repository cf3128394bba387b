--------------------------- MODULE CallbackFence ---------------------------
(***************************************************************************)
(* sync::CallbackFence (src/src/util/sync/sync_signal.h): a CPU-side fence *)
(* that threads wait on and that calls functions when it reaches a value.  *)
(* sync::Fence in the same file is this without the callbacks.             *)
(*                                                                         *)
(* The value is an atomic that wait and setCallback read before they take  *)
(* the lock.  signal() holds the lock while it calls the functions.        *)
(***************************************************************************)
EXTENDS Naturals

CONSTANTS
  Users,      \* threads that wait and set callbacks
  Callbacks,  \* the callbacks they set
  MaxValue    \* bound of the model: largest value signaled

\* What the constants are.
CallbackFenceAssumption == MaxValue \in Nat

VARIABLES
  value,      \* m_value
  list,       \* callbacks in m_callbacks
  due,        \* the value of a callback
  asleep,     \* threads asleep on m_cond
  pc,         \* the call each user is in
  target,     \* the value it waits for
  hand,       \* the callback it sets, or none
  used,       \* callbacks passed to setCallback
  called,     \* how often a callback has been called
  calledAt    \* the value when it was called last

userVars == <<pc, target, hand, used>>
vars == <<value, list, due, asleep, userVars, called, calledAt>>

Init ==
  /\ value = 0
  /\ list = {} /\ due = [c \in Callbacks |-> 0]
  /\ asleep = {}
  /\ pc = [t \in Users |-> "idle"]
  /\ target = [t \in Users |-> 0]
  /\ hand = [t \in Users |-> {}]
  /\ used = {}
  /\ called = [c \in Callbacks |-> 0]
  /\ calledAt = [c \in Callbacks |-> 0]

RunAt(cs, v) ==
  /\ called' = [c \in Callbacks |-> IF c \in cs THEN called[c] + 1 ELSE called[c]]
  /\ calledAt' = [c \in Callbacks |-> IF c \in cs THEN v ELSE calledAt[c]]

Keep(v) == {c \in list : due[c] > v}
WakeMutant == UNCHANGED asleep
Wake == asleep' = {}

\* signal(value); the documentation asks for values that increase.
Signal ==
  /\ \E v \in (value + 1)..MaxValue :
       /\ value' = v
       /\ RunAt({c \in list : v >= due[c]}, v)
       /\ list' = Keep(v)
  /\ Wake
  /\ UNCHANGED <<due, userVars>>

\* wait(value), up to the lock
Wait(t) ==
  /\ pc[t] = "idle"
  /\ \E v \in 1..MaxValue :
       /\ v > value
       /\ target' = [target EXCEPT ![t] = v]
  /\ pc' = [pc EXCEPT ![t] = "wait"]
  /\ UNCHANGED <<value, list, due, asleep, hand, used, called, calledAt>>

WaitLocked(t) ==
  /\ pc[t] = "wait" /\ t \notin asleep
  /\ IF target[t] <= value
       THEN pc' = [pc EXCEPT ![t] = "idle"] /\ UNCHANGED asleep
       ELSE asleep' = asleep \union {t} /\ UNCHANGED pc
  /\ UNCHANGED <<value, list, due, target, hand, used, called, calledAt>>

\* setCallback(value, proc), up to the lock
SetCallback(t) ==
  /\ pc[t] = "idle"
  /\ \E c \in Callbacks \ used, v \in 0..MaxValue :
       /\ used' = used \union {c}
       /\ due' = [due EXCEPT ![c] = v]
       /\ IF v <= value
            THEN RunAt({c}, value) /\ UNCHANGED <<pc, hand>>
            ELSE /\ pc' = [pc EXCEPT ![t] = "set"]
                 /\ hand' = [hand EXCEPT ![t] = {c}]
                 /\ UNCHANGED <<called, calledAt>>
  /\ UNCHANGED <<value, list, asleep, target>>

\* "Verify value is still in the future upon lock."
StillAheadMutant(c) == TRUE
StillAhead(c) == due[c] > value

SetCallbackLocked(t) ==
  /\ pc[t] = "set"
  /\ \E c \in hand[t] :
       IF StillAhead(c)
         THEN list' = list \union {c} /\ UNCHANGED <<called, calledAt>>
         ELSE RunAt({c}, value) /\ UNCHANGED list
  /\ pc' = [pc EXCEPT ![t] = "idle"]
  /\ hand' = [hand EXCEPT ![t] = {}]
  /\ UNCHANGED <<value, due, asleep, target, used>>

Next ==
  \/ Signal
  \/ \E t \in Users :
       Wait(t) \/ WaitLocked(t) \/ SetCallback(t) \/ SetCallbackLocked(t)

Spec == Init /\ [][Next]_vars

\* A call goes on; nothing obliges anyone to signal.
FairSpec ==
  Spec /\ \A t \in Users : WF_vars(WaitLocked(t) \/ SetCallbackLocked(t))

-----------------------------------------------------------------------------
(* Properties *)

\* The values the variables take; a callback is called at most once, so that a
\* counter of calls above one is out of range.
TypeOK ==
  /\ value \in 0..MaxValue
  /\ list \subseteq Callbacks /\ used \subseteq Callbacks
  /\ due \in [Callbacks -> 0..MaxValue]
  /\ asleep \subseteq Users
  /\ pc \in [Users -> {"idle", "wait", "set"}]
  /\ target \in [Users -> 0..MaxValue]
  /\ hand \in [Users -> SUBSET Callbacks]
  /\ called \in [Callbacks -> 0..1]
  /\ calledAt \in [Callbacks -> 0..MaxValue]

\* A callback is called only once its value has been reached, and exactly once when
\* it has left the list and the hands of the thread that sets it; and setCallback's
\* race with signal leaves none in the list whose value has been reached, where only
\* the next signal, if there is one, would find it.
CalledExactlyWhenReached ==
  /\ \A c \in used :
       /\ called[c] = 1 => calledAt[c] >= due[c]
       /\ called[c] = (IF c \in list \/ \E t \in Users : c \in hand[t] THEN 0 ELSE 1)
  /\ \A c \in list : due[c] > value

\* A thread that waits for a value the fence has reached goes on.
WaitsEnd ==
  \A t \in Users : (pc[t] = "wait" /\ target[t] <= value) ~> pc[t] # "wait"
=============================================================================
