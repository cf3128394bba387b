---------------------------- MODULE SamplerCache ----------------------------
(***************************************************************************)
(* What a sampler pool promises: a fixed number of samplers, of which the  *)
(* unused ones are kept, with their keys, in the order in which they were  *)
(* last used, and are replaced in that order when a new key is asked for.  *)
(***************************************************************************)
EXTENDS Integers, Sequences, Functions

CONSTANTS
  Handles,  \* references that callers may hold
  Keys,
  Default,  \* key of the default sampler, which sits in slot 0
  NoKey,
  MaxSlot      \* the slots are 0..MaxSlot

Slots == 0..MaxSlot

VARIABLES
  held,     \* slot that a handle refers to, -1 for none
  object,   \* key of the sampler in a slot
  lru       \* slots without references, least recently used first

vars == <<held, object, lru>>

Used(s) == s = 0 \/ \E h \in Handles : held[h] = s

Init ==
  /\ held = [h \in Handles |-> -1]
  /\ object = [s \in Slots |-> IF s = 0 THEN Default ELSE NoKey]
  /\ lru = [i \in 1..MaxSlot |-> i]

Create(h, k) ==
  /\ held[h] = -1 /\ held'[h] # -1
  /\ \/ \E s \in Slots :
          /\ object[s] = k
          /\ held' = [held EXCEPT ![h] = s]
          /\ LET Other(x) == x # s IN lru' = SelectSeq(lru, Other)
          /\ UNCHANGED object
     \/ /\ \A s \in Slots : object[s] # k
        /\ lru = <<>>
        /\ held' = [held EXCEPT ![h] = 0]
        /\ UNCHANGED <<object, lru>>
     \/ /\ \A s \in Slots : object[s] # k
        /\ lru # <<>>
        /\ held' = [held EXCEPT ![h] = Head(lru)]
        /\ object' = [object EXCEPT ![Head(lru)] = k]
        /\ lru' = Tail(lru)

\* A sampler that is to be replaced, and its key, are lost when the driver fails to make
\* the next one.
Lose(k) ==
  /\ \A s \in Slots : object[s] # k
  /\ lru # <<>>
  /\ object' = [object EXCEPT ![Head(lru)] = NoKey]
  /\ lru' = Tail(lru)
  /\ UNCHANGED held

Copy(h, g) ==
  /\ held[h] = -1 /\ held[g] # -1
  /\ held' = [held EXCEPT ![h] = held[g]]
  /\ UNCHANGED <<object, lru>>

Drop(h) ==
  /\ held[h] # -1
  /\ held' = [held EXCEPT ![h] = -1]
  /\ UNCHANGED <<object, lru>>

\* Some time later an unused sampler joins the list.
Retire(s) ==
  /\ ~Used(s) /\ s \notin Range(lru)
  /\ lru' = Append(lru, s)
  /\ UNCHANGED <<held, object>>

Next ==
  \/ \E h \in Handles : Drop(h) \/ \E k \in Keys : Create(h, k)
  \/ \E h, g \in Handles : Copy(h, g)
  \/ \E k \in Keys : Lose(k)
  \/ \E s \in Slots : Retire(s)

Spec == Init /\ [][Next]_vars
=============================================================================
