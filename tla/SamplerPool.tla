---------------------------- MODULE SamplerPool -----------------------------
(***************************************************************************)
(* DxvkSamplerPool (src/src/dxvk/dxvk_sampler.cpp): samplers are counted   *)
(* by their users without a lock; the pool keeps those nobody uses in a    *)
(* doubly linked LRU list, and hands them out again or replaces them.      *)
(*                                                                         *)
(* A handle is one Rc<DxvkSampler> with the thread that drops it.  What    *)
(* runs under m_mutex, createSampler and releaseSampler, is one step each; *)
(* between the count's reaching zero and releaseSampler anything can       *)
(* happen.  Links are indices as in the code, with -1 for none.            *)
(***************************************************************************)
EXTENDS Integers, FiniteSets

CONSTANTS
  Handles,  \* Rc<DxvkSampler> objects of the program
  Keys,     \* DxvkSamplerKey
  Default,  \* key of m_default
  NoKey,    \* stands for a slot without a sampler
  MaxSlot   \* MaxSamplerCount - 1

ASSUME PoolAssumption ==
  /\ MaxSlot \in Nat
  /\ Default \in Keys /\ NoKey \notin Keys
  /\ IsFiniteSet(Handles)

Slots == 0..MaxSlot
None  == -1

VARIABLES
  handlePc, \* what a handle is: "null", "held", or "release", its count was zero
  held,     \* the slot of a handle that is not null
  asked,    \* the key its createSampler was called with, while it is held
  object,   \* the key of the sampler in a slot
  refCount, \* m_refCount of the sampler in a slot
  lut,      \* m_samplerLut
  emptied,  \* slots without a sampler, as the creation of the last one has failed
  lruPrev, lruNext, lruHead, lruTail,
  live      \* m_samplersLive

handleVars == <<handlePc, held, asked>>
listVars   == <<lruPrev, lruNext, lruHead, lruTail>>
samplerVars == <<handleVars, object, refCount, lut, emptied, listVars, live>>

\* The pool after its constructor, which keeps a reference to the default sampler.
SamplerInit ==
  /\ handlePc = [h \in Handles |-> "null"]
  /\ held = [h \in Handles |-> None]
  /\ asked = [h \in Handles |-> Default]
  /\ object = [s \in Slots |-> IF s = 0 THEN Default ELSE NoKey]
  /\ refCount = [s \in Slots |-> IF s = 0 THEN 1 ELSE 0]
  /\ lut = [k \in Keys |-> IF k = Default THEN 0 ELSE None]
  /\ emptied = {}
  /\ lruPrev = [s \in Slots |-> IF s > 1 THEN s - 1 ELSE None]
  /\ lruNext = [s \in Slots |-> IF s > 0 /\ s < MaxSlot THEN s + 1 ELSE None]
  /\ lruHead = IF MaxSlot > 0 THEN 1 ELSE None
  /\ lruTail = IF MaxSlot > 0 THEN MaxSlot ELSE None
  /\ live = 1

-----------------------------------------------------------------------------
(* The list *)

InLruMutant(s) == lruPrev[s] >= 0
\* samplerIsInLruList
InLru(s) == lruPrev[s] >= 0 \/ lruHead = s

AppendLruMutant(s) ==
  /\ lruPrev' = [lruPrev EXCEPT ![s] = lruTail]
  /\ lruNext' = [x \in Slots |-> IF x = lruTail THEN s ELSE IF x = s THEN None ELSE lruNext[x]]
  /\ lruTail' = s
  /\ UNCHANGED lruHead
AppendLru(s) ==
  /\ lruPrev' = [lruPrev EXCEPT ![s] = lruTail]
  /\ lruNext' = [x \in Slots |-> IF x = lruTail THEN s ELSE IF x = s THEN None ELSE lruNext[x]]
  /\ lruHead' = IF lruTail >= 0 THEN lruHead ELSE s
  /\ lruTail' = s

\* A slot that is not in the list stays as it is.
RemoveLru(s) ==
  /\ lruNext' = [x \in Slots |->
       IF x = s THEN None ELSE IF x = lruPrev[s] THEN lruNext[s] ELSE lruNext[x]]
  /\ lruPrev' = [x \in Slots |->
       IF x = s THEN None ELSE IF x = lruNext[s] THEN lruPrev[s] ELSE lruPrev[x]]
  /\ lruHead' = IF lruPrev[s] < 0 /\ lruHead = s THEN lruNext[s] ELSE lruHead
  /\ lruTail' = IF lruNext[s] < 0 /\ lruTail = s THEN lruPrev[s] ELSE lruTail

-----------------------------------------------------------------------------
(* Acquiring *)

\* The caller receives a counted reference to slot s; others is what held is for
\* the other handles.
Receive(h, k, s, others) ==
  /\ handlePc[h] = "null"
  /\ handlePc' = [handlePc EXCEPT ![h] = "held"]
  /\ held' = [others EXCEPT ![h] = s]
  /\ asked' = [asked EXCEPT ![h] = k]
  /\ refCount' = [refCount EXCEPT ![s] = @ + 1]

NewlyLive(s) == IF refCount[s] = 0 THEN live + 1 ELSE live

FindMutant(h, k) ==
  /\ lut[k] # None
  /\ Receive(h, k, lut[k], held)
  /\ live' = NewlyLive(lut[k])
  /\ UNCHANGED <<object, lut, emptied, listVars>>
\* createSampler, the key is known.
Find(h, k) ==
  /\ lut[k] # None
  /\ Receive(h, k, lut[k], held)
  /\ live' = NewlyLive(lut[k])
  /\ IF refCount[lut[k]] = 0 THEN RemoveLru(lut[k]) ELSE UNCHANGED listVars
  /\ UNCHANGED <<object, lut, emptied>>

\* createSampler, the key is new and every sampler is in use.
FallBack(h, k) ==
  /\ lut[k] = None /\ lruHead < 0
  /\ Receive(h, k, 0, held)
  /\ UNCHANGED <<object, lut, emptied, listVars, live>>

\* The look-up table once the slot at the head of the list has lost its sampler, and
\* once key k has taken it.
Forgotten == [x \in Keys |-> IF x = object[lruHead] THEN None ELSE lut[x]]
Replaced(k) == [Forgotten EXCEPT ![k] = lruHead]

\* What held may become when the slot at the head of the list is used for another sampler.
\* DxvkSampler::release reads the slot's number from the sampler without the lock; where
\* that races with the construction of the next sampler in the slot, it may read 0.
RacedBy(g) == handlePc[g] = "release" /\ held[g] = lruHead
Raced ==
  {[g \in Handles |-> IF g \in raced THEN 0 ELSE held[g]] : raced \in SUBSET {g \in Handles : RacedBy(g)}}

\* createSampler, the key is new and replaces the least recently used sampler.
Replace(h, k) ==
  /\ lut[k] = None /\ lruHead >= 0
  /\ \E others \in Raced : Receive(h, k, lruHead, others)
  /\ object' = [object EXCEPT ![lruHead] = k]
  /\ lut' = Replaced(k)
  /\ emptied' = emptied \ {lruHead}
  /\ RemoveLru(lruHead)
  /\ live' = live + 1

\* The same when vkCreateSampler fails.  The DxvkError leaves createSampler after the old
\* sampler was destroyed and its slot taken off the list, and the caller gets nothing, not
\* even the default sampler.
FailReplace(h, k) ==
  /\ lut[k] = None /\ lruHead >= 0
  /\ handlePc[h] = "null"
  /\ held' \in Raced
  /\ object' = [object EXCEPT ![lruHead] = NoKey]
  /\ lut' = Forgotten
  /\ emptied' = emptied \union {lruHead}
  /\ RemoveLru(lruHead)
  /\ UNCHANGED <<handlePc, asked, refCount, live>>

\* The copy of a reference, incRef.
Copy(h, g) ==
  /\ handlePc[g] = "held"
  /\ Receive(h, asked[g], held[g], held)
  /\ UNCHANGED <<object, lut, emptied, listVars, live>>

-----------------------------------------------------------------------------
(* Releasing *)

\* decRef, which takes no lock; whoever drops the last reference goes on to release.
DecRef(h) ==
  /\ handlePc[h] = "held"
  /\ refCount' = [refCount EXCEPT ![held[h]] = @ - 1]
  /\ IF refCount[held[h]] = 1
       THEN handlePc' = [handlePc EXCEPT ![h] = "release"] /\ UNCHANGED held
       ELSE /\ handlePc' = [handlePc EXCEPT ![h] = "null"]
            /\ held' = [held EXCEPT ![h] = None]
  /\ asked' = [asked EXCEPT ![h] = Default]
  /\ UNCHANGED <<object, lut, emptied, listVars, live>>

\* releaseSampler puts s on the list unless somebody has taken it again, or
\* another releaser was here already.  When the creation of another sampler in s has
\* failed meanwhile, it reads the count through an empty optional; the storage has the
\* zero of the sampler that was destroyed or not completed, and s returns to the list.
Unused(s) == refCount[s] = 0 /\ ~InLru(s)

StillLive(s) == live - 1

ReleaseSampler(h) ==
  /\ handlePc[h] = "release"
  /\ handlePc' = [handlePc EXCEPT ![h] = "null"]
  /\ held' = [held EXCEPT ![h] = None]
  /\ live' = StillLive(held[h])
  /\ IF Unused(held[h]) THEN AppendLru(held[h]) ELSE UNCHANGED listVars
  /\ UNCHANGED <<asked, object, refCount, lut, emptied>>

CreateSampler(h, k) == Find(h, k) \/ FallBack(h, k) \/ Replace(h, k) \/ FailReplace(h, k)

SamplerNext ==
  \E h \in Handles :
    \/ \E k \in Keys : CreateSampler(h, k)
    \/ \E g \in Handles : Copy(h, g)
    \/ DecRef(h) \/ ReleaseSampler(h)

SamplerSpec == SamplerInit /\ [][SamplerNext]_samplerVars

-----------------------------------------------------------------------------
(* Properties *)

\* Every variable stays in its domain.
SamplerTypeOK ==
  /\ handlePc \in [Handles -> {"null", "held", "release"}]
  /\ held \in [Handles -> Slots \union {None}]
  /\ asked \in [Handles -> Keys]
  /\ object \in [Slots -> Keys \union {NoKey}]
  /\ refCount \in [Slots -> Nat]
  /\ lut \in [Keys -> Slots \union {None}]
  /\ emptied \subseteq Slots
  /\ lruPrev \in [Slots -> Slots \union {None}] /\ lruNext \in [Slots -> Slots \union {None}]
  /\ lruHead \in Slots \union {None} /\ lruTail \in Slots \union {None}
  /\ live \in Nat

\* A sampler that is in use is not on the LRU list, from which createSampler
\* takes the one it destroys.
UsedNotRecycled == \A s \in Slots : InLru(s) => refCount[s] = 0

\* A caller's sampler has the key it asked for, as long as it holds it, unless it
\* was given the default sampler.
HeldHasKey ==
  \A h \in Handles : handlePc[h] = "held" => object[held[h]] = asked[h] \/ held[h] = 0

\* No slot is lost to a race: one that is neither in use nor on the list has a thread
\* on its way into releaseSampler.  Only a failed vkCreateSampler loses one.
NoneLost ==
  \A s \in Slots \ emptied :
    refCount[s] = 0 => InLru(s) \/ \E h \in Handles : handlePc[h] = "release" /\ held[h] = s

\* A slot that is lost in this way has no sampler, and nobody is given it.
LostUnused == \A s \in emptied : object[s] = NoKey /\ refCount[s] = 0

\* The look-up table and the samplers agree.
LutMatches == \A k \in Keys, s \in Slots : lut[k] = s <=> object[s] = k

\* The live counter counts the samplers in use and, for each thread in release,
\* one that it is yet to take off.
LiveCount ==
  live = Cardinality({s \in Slots : refCount[s] > 0})
       + Cardinality({h \in Handles : handlePc[h] = "release"})

\* The list, the table and the counter agree on the samplers, also after failures.
BooksBalance == NoneLost /\ LostUnused /\ LutMatches /\ LiveCount

\* The list as a sequence, read from its head along lruNext.
Walk ==
  LET size == Cardinality({s \in Slots : InLru(s)})
      nth[i \in 1..size] == IF i = 1 THEN lruHead ELSE lruNext[nth[i - 1]]
  IN  [i \in 1..size |-> nth[i]]

Cache == INSTANCE SamplerCache WITH
  held <- [h \in Handles |-> IF handlePc[h] = "held" THEN held[h] ELSE None],
  lru <- Walk

\* The pool is a least-recently-used cache of samplers: the links form the
\* sequence of the unused samplers in the order of their release.  A creation that
\* fails takes the least recently used one and its key away.
ImplementsCache == Cache!Spec
=============================================================================
