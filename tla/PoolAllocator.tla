--------------------------- MODULE PoolAllocator ----------------------------
(***************************************************************************)
(* DxvkPoolAllocator (src/src/dxvk/dxvk_allocator.cpp): objects smaller    *)
(* than a page.  A page holds objects of one size; the free ones are the   *)
(* bits of a mask or, when they are more than a machine word has, of       *)
(* several masks in a PagePool.  For each size there is a list of the      *)
(* pages that have room.                                                   *)
(*                                                                         *)
(* The pages come from the page allocator, of which PageAllocator.tla      *)
(* shows that it gives each to one caller at a time, and none of a chunk   *)
(* that is closed for allocations.  A mask is the set of its bits.         *)
(***************************************************************************)
EXTENDS Integers, FiniteSets, SequencesExt

CONSTANTS
  MaskBits,      \* bits of a MaskType
  SizeClasses,   \* number of size classes: MaxCapacityBits
  PageCount,     \* bound of the model: pages
  MaxObjects     \* bound of the model: objects at a time

\* computePoolCapacity
Capacity(c) ==
  LET twice[n \in 0..c] == IF n = 0 THEN 2 ELSE 2 * twice[n - 1] IN twice[c]

\* What the constants are: like every capacity, the bits of a mask are a power of two.
PoolMasksAssumption ==
  /\ MaskBits \in Nat /\ \E c \in 0..MaskBits : MaskBits = Capacity(c)
  /\ SizeClasses \in Nat \ {0}
  /\ PageCount \in Nat
  /\ MaxObjects \in Nat

Bits == 0..(MaskBits - 1)
Classes == 0..(SizeClasses - 1)
PageIds == 1..PageCount
Nothing == 0

VARIABLES
  closed,     \* pages of chunks that are closed for allocations
  taken,      \* pages the page allocator has given away
  pageMask,   \* the free bits of a page that needs one mask
  pagePool,   \* the PagePool of a page that needs more
  pools,      \* m_pagePools
  freePool,   \* m_freePool
  pageLists,  \* m_pageLists: the pages of each size class that have room
  objects     \* what the callers have: page, item, size class

pageVars == <<closed, taken>>
poolVars == <<pagePool, pools, freePool>>
vars == <<pageVars, pageMask, poolVars, pageLists, objects>>

Init ==
  /\ closed = {} /\ taken = {}
  /\ pageMask = [p \in PageIds |-> {}]
  /\ pagePool = [p \in PageIds |-> Nothing]
  /\ pools = <<>> /\ freePool = Nothing
  /\ pageLists = [c \in Classes |-> <<>>]
  /\ objects = {}

OneMask(c) == Capacity(c) <= MaskBits
MaskIds == 0..(Capacity(SizeClasses - 1) \div MaskBits - 1)

Object(p, i, c) == [page |-> p, item |-> i, class |-> c]
AddPage(p, c) == [pageLists EXCEPT ![c] = Append(@, p)]
RemovePage(p, c) ==
  [pageLists EXCEPT ![c] = RemoveAt(@, CHOOSE k \in DOMAIN @ : @[k] = p)]

-----------------------------------------------------------------------------
(* Allocation *)

\* Pages of a closed chunk go to the end of the list until one can be used: the list
\* as alloc leaves it, and its head if that can be used.
Open(c) == {k \in DOMAIN pageLists[c] : pageLists[c][k] \notin closed}
Rotated(c) ==
  LET list == pageLists[c] first == Min(Open(c))
  IN IF Open(c) = {} THEN list
     ELSE SubSeq(list, first, Len(list)) \o SubSeq(list, 1, first - 1)

\* allocPagePool
NewPool == IF freePool = Nothing THEN Len(pools) + 1 ELSE freePool
FullPool == [next |-> Nothing, free |-> {}, used |-> {}, masks |-> [k \in MaskIds |-> Bits]]
PoolWithFirst(pool, c) ==
  [pool EXCEPT !.free = 0..(Capacity(c) \div MaskBits - 1), !.used = {0}, !.masks[0] = Bits \ {0}]

\* The first object of a new page.
AllocInNewPage(c) ==
  /\ Open(c) = {}
  /\ \E p \in (PageIds \ taken) \ closed :
       /\ taken' = taken \union {p}
       /\ pageLists' = AddPage(p, c)
       /\ IF OneMask(c)
            THEN /\ pageMask' = [pageMask EXCEPT ![p] = 1..(Capacity(c) - 1)]
                 /\ UNCHANGED poolVars
            ELSE /\ pagePool' = [pagePool EXCEPT ![p] = NewPool]
                 /\ IF freePool = Nothing
                      THEN /\ pools' = Append(pools, PoolWithFirst(FullPool, c))
                           /\ UNCHANGED freePool
                      ELSE /\ pools' = [pools EXCEPT ![freePool] = PoolWithFirst(@, c)]
                           /\ freePool' = pools[freePool].next
                 /\ UNCHANGED pageMask
       /\ objects' = objects \union {Object(p, 0, c)}
  /\ UNCHANGED closed

\* An object of the page at the head, which leaves the list when it is full.
AllocInMask(c) ==
  /\ OneMask(c) /\ Open(c) # {}
  /\ LET p == Head(Rotated(c))
         i == Min(pageMask[p])
     IN /\ pageMask' = [pageMask EXCEPT ![p] = @ \ {i}]
        /\ pageLists' = [pageLists EXCEPT ![c] =
             IF pageMask'[p] = {} THEN Tail(Rotated(c)) ELSE Rotated(c)]
        /\ objects' = objects \union {Object(p, i, c)}
  /\ UNCHANGED <<pageVars, poolVars>>

AllocInPool(c) ==
  /\ ~OneMask(c) /\ Open(c) # {}
  /\ LET p == Head(Rotated(c))
         k == Min(pools[pagePool[p]].free)
         i == Min(pools[pagePool[p]].masks[k])
         full == pools[pagePool[p]].masks[k] = {i}
         new == [pools[pagePool[p]] EXCEPT !.used = @ \union {k}, !.masks[k] = @ \ {i},
                                           !.free = IF full THEN @ \ {k} ELSE @]
     IN /\ pools' = [pools EXCEPT ![pagePool[p]] = new]
        /\ pageLists' = [pageLists EXCEPT ![c] =
             IF new.free = {} THEN Tail(Rotated(c)) ELSE Rotated(c)]
        /\ objects' = objects \union {Object(p, i + k * MaskBits, c)}
  /\ UNCHANGED <<pageVars, pageMask, pagePool, freePool>>

Alloc(c) ==
  /\ Cardinality(objects) < MaxObjects
  /\ AllocInNewPage(c) \/ AllocInMask(c) \/ AllocInPool(c)

-----------------------------------------------------------------------------
(* Release *)

\* A page that was full has room again; one that is unused goes back.
FreePageOf(o, wasFull, isUnused) ==
  /\ pageLists' = IF isUnused THEN RemovePage(o.page, o.class)
                  ELSE IF wasFull THEN AddPage(o.page, o.class) ELSE pageLists
  /\ taken' = IF isUnused THEN taken \ {o.page} ELSE taken
  /\ objects' = objects \ {o}
  /\ UNCHANGED closed

FreeInMask(o) ==
  /\ OneMask(o.class)
  /\ pageMask' = [pageMask EXCEPT ![o.page] = @ \union {o.item}]
  /\ FreePageOf(o, pageMask[o.page] = {}, pageMask'[o.page] = 0..(Capacity(o.class) - 1))
  /\ UNCHANGED poolVars

\* A mask whose bits are all free again is no longer in use.
StillUsed(pool, k) == IF pool.masks[k] = Bits THEN pool.used \ {k} ELSE pool.used

FreeInPool(o) ==
  /\ ~OneMask(o.class)
  /\ LET n == pagePool[o.page]
         k == o.item \div MaskBits
         marked == [pools[n] EXCEPT !.masks[k] = @ \union {o.item % MaskBits}, !.free = @ \union {k}]
         new == [marked EXCEPT !.used = StillUsed(marked, k)]
         unused == new.used = {}
     IN /\ pools' = [pools EXCEPT ![n] = IF unused THEN [new EXCEPT !.next = freePool] ELSE new]
        /\ freePool' = IF unused THEN n ELSE freePool
        /\ FreePageOf(o, pools[n].free = {}, unused)
  /\ UNCHANGED <<pageMask, pagePool>>

\* Chunks are closed and opened by the page allocator's other user.
SetClosed ==
  /\ \E p \in PageIds : closed' \in {closed \union {p}, closed \ {p}}
  /\ UNCHANGED <<taken, pageMask, poolVars, pageLists, objects>>

Next ==
  \/ \E c \in Classes : Alloc(c)
  \/ \E o \in objects : FreeInMask(o) \/ FreeInPool(o)
  \/ SetClosed

Spec == Init /\ [][Next]_vars

-----------------------------------------------------------------------------
(* Properties *)

\* The values the variables take.
TypeOK ==
  /\ closed \subseteq PageIds /\ taken \subseteq PageIds
  /\ pageMask \in [PageIds -> SUBSET Bits]
  /\ pagePool \in [PageIds -> 0..Len(pools)]
  /\ \A n \in DOMAIN pools :
       /\ pools[n].next \in 0..Len(pools)
       /\ pools[n].free \subseteq MaskIds /\ pools[n].used \subseteq MaskIds
       /\ \A k \in MaskIds : pools[n].masks[k] \subseteq Bits
  /\ freePool \in 0..Len(pools)
  /\ \A c \in Classes : Range(pageLists[c]) \subseteq taken

\* The free items of a page, according to its masks.
FreeItems(p, c) ==
  IF OneMask(c) THEN pageMask[p]
  ELSE {i \in 0..(Capacity(c) - 1) :
          (i % MaskBits) \in pools[pagePool[p]].masks[i \div MaskBits]}

ItemsOf(p) == {o.item : o \in {x \in objects : x.page = p}}
ClassesOf(p) == {o.class : o \in {x \in objects : x.page = p}}

\* The items of a page that nobody has are the free ones of its masks, a page is held
\* while it has an object, and all its objects have one size.
ItemsPartitioned ==
  \A p \in PageIds :
    /\ p \in taken <=> ItemsOf(p) # {}
    /\ \A c \in ClassesOf(p) :
         ClassesOf(p) = {c} /\ FreeItems(p, c) = (0..(Capacity(c) - 1)) \ ItemsOf(p)

\* The list of a size has each page that has room once, and no other.
ListsHaveRoom ==
  \A c \in Classes :
    /\ IsInjective(pageLists[c])
    /\ Range(pageLists[c]) = {p \in taken : c \in ClassesOf(p) /\ FreeItems(p, c) # {}}

\* Two pages never share a PagePool, and one in the free list is not in use and is as
\* allocPagePool expects it: "Everything else is assumed to be in its default
\* initialized state".
PoolsSound ==
  LET large == {p \in taken : \E c \in ClassesOf(p) : ~OneMask(c)}
      inUse == {pagePool[p] : p \in large}
  IN /\ \A p, q \in large : pagePool[p] = pagePool[q] => p = q
     /\ freePool \notin inUse
     /\ \A n \in DOMAIN pools \ inUse :
          pools[n].next \notin inUse /\ \A k \in MaskIds : pools[n].masks[k] = Bits

\* No object is put into a page of a closed chunk, so that the chunk gets empty.
ClosedNotFilled ==
  \A c \in Classes : Open(c) # {} => Head(Rotated(c)) \notin closed

\* Each item is given to one caller at a time, and each page returned in the end.
ItemsSound == ItemsPartitioned /\ ListsHaveRoom /\ PoolsSound /\ ClosedNotFilled
=============================================================================
