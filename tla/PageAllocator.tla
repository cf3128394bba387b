--------------------------- MODULE PageAllocator ----------------------------
(***************************************************************************)
(* DxvkPageAllocator (src/src/dxvk/dxvk_allocator.cpp): pages of memory    *)
(* chunks, with a list of free ranges that is sorted by descending size    *)
(* and a table that finds the range that begins or ends at a page.         *)
(*                                                                         *)
(* DxvkMemoryAllocator calls it under its lock.  List indices count from   *)
(* zero, as in the code, and -1 stands for none; page p belongs to chunk   *)
(* p \div ChunkPages.                                                      *)
(***************************************************************************)
EXTENDS Integers, FiniteSets, SequencesExt

CONSTANTS
  ChunkPages,  \* 2^ChunkPageBits
  MaxChunks,   \* bound of the model: chunks that exist at once
  Alignments   \* alignments of allocations, in pages

\* What the constants are.
PageAssumption ==
  /\ ChunkPages \in Nat \ {0}
  /\ MaxChunks \in Nat \ {0}
  /\ Alignments \subseteq 1..ChunkPages
  /\ \A a \in Alignments : ChunkPages % a = 0

Pages == 0..(MaxChunks * ChunkPages - 1)
Absent == -1

VARIABLES
  freeList,   \* m_freeList
  pageLut,    \* m_freeListLutByPage
  chunks,     \* m_chunks
  freeChunk,  \* m_freeChunk
  allocated   \* the ranges that callers have

listVars == <<freeList, pageLut>>
chunkVars == <<chunks, freeChunk>>
vars == <<listVars, chunkVars, allocated>>

Init ==
  /\ freeList = <<>> /\ pageLut = [p \in Pages |-> Absent]
  /\ chunks = <<>> /\ freeChunk = Absent
  /\ allocated = {}

FreeRange(i, n) == [index |-> i, count |-> n]
Ends(r) == IF r.count = 0 THEN {} ELSE {r.index, r.index + r.count - 1}
ChunkOf(page) == page \div ChunkPages

-----------------------------------------------------------------------------
(* The list of free ranges; s holds the list and its look-up table. *)

\* The position, from one, that a range of n pages takes instead of the range at
\* position k: past the larger ones, or before the smaller ones.
NewPosition(list, k, n) ==
  IF n < list[k].count
    THEN Max({j \in k..Len(list) : \A i \in (k + 1)..j : n < list[i].count})
    ELSE Min({j \in 1..k : \A i \in j..(k - 1) : n > list[i].count})

\* insertFreeRange: the range replaces the one at the index, or is added if there is
\* none; an empty range ends up last and is dropped.
InsertFreeRange(s, range, at) ==
  LET old == IF at = Absent THEN Append(s.list, FreeRange(0, 0)) ELSE s.list
      k == IF at = Absent THEN Len(old) ELSE at + 1
      to == NewPosition(old, k, range.count)
      new == InsertAt(RemoveAt(old, k), to, range)
      shifted == (Min({k, to})..Max({k, to})) \ (IF range.count = 0 THEN {to} ELSE {})
      At(p) == {j \in shifted : p \in Ends(new[j])}
  IN [list |-> IF range.count = 0 THEN Front(new) ELSE new,
      lut |-> [p \in Pages |->
                 IF At(p) # {} THEN Max(At(p)) - 1
                 ELSE IF p \in Ends(old[k]) THEN Absent ELSE s.lut[p]]]

List == [list |-> freeList, lut |-> pageLut]
SetList(s) == freeList' = s.list /\ pageLut' = s.lut

\* searchFreeList: how many ranges have n pages or more, by bisection.
SearchFreeList(n) ==
  LET bisect[lo \in 0..Len(freeList)] ==
        [hi \in 0..Len(freeList) |->
           LET mid == (lo + hi) \div 2
           IN IF lo >= hi THEN lo
              ELSE IF n <= freeList[mid + 1].count THEN bisect[mid + 1][hi] ELSE bisect[lo][mid]]
  IN bisect[0][Len(freeList)]

-----------------------------------------------------------------------------
(* Allocations *)

AlignedMutant(page, alignment) == (page \div alignment) * alignment
Aligned(page, alignment) == ((page + alignment - 1) \div alignment) * alignment

\* The loop of allocPages takes the last, and thereby smallest, range that it can.
Suitable(n, alignment) ==
  {i \in 0..(SearchFreeList(n) - 1) :
     LET r == freeList[i + 1]
     IN /\ ~chunks[ChunkOf(r.index) + 1].disabled
        /\ \/ r.index % alignment = 0
           \/ Aligned(r.index, alignment) + n <= r.index + r.count}

UsePages(chunk, n) == [chunks EXCEPT ![chunk + 1].pagesUsed = @ + n]

\* allocPages, when it does not return -1
AllocPages(n, alignment) ==
  /\ Suitable(n, alignment) # {}
  /\ LET i == Max(Suitable(n, alignment))
         r == freeList[i + 1]
         page == Aligned(r.index, alignment)
         after == FreeRange(page + n, r.index + r.count - (page + n))
         before == InsertFreeRange(List, FreeRange(r.index, page - r.index), i)
     IN /\ SetList(IF r.index % alignment = 0 THEN InsertFreeRange(List, after, i)
                   ELSE IF after.count > 0 THEN InsertFreeRange(before, after, Absent)
                   ELSE before)
        /\ allocated' = allocated \union {FreeRange(page, n)}
        /\ chunks' = UsePages(ChunkOf(r.index), n)
  /\ UNCHANGED freeChunk

\* A range may go on to this page: it does not begin a chunk.
Inside(page) == page % ChunkPages # 0

\* freePages
FreePages(r) ==
  /\ r \in allocated
  /\ LET end == r.index + r.count
         prev == IF Inside(r.index) THEN pageLut[r.index - 1] ELSE Absent
         next == IF Inside(end) THEN pageLut[end] ELSE Absent
         first == IF prev = Absent THEN r.index ELSE freeList[prev + 1].index
         last == IF next = Absent THEN end ELSE freeList[next + 1].index + freeList[next + 1].count
         merged == FreeRange(first, last - first)
     IN SetList(
          IF prev = Absent THEN InsertFreeRange(List, merged, next)
          ELSE IF next = Absent THEN InsertFreeRange(List, merged, prev)
          ELSE InsertFreeRange(InsertFreeRange(List, FreeRange(0, 0), Max({prev, next})),
                               merged, Min({prev, next})))
  /\ allocated' = allocated \ {r}
  /\ chunks' = UsePages(ChunkOf(r.index), -r.count)
  /\ UNCHANGED freeChunk

-----------------------------------------------------------------------------
(* Chunks *)

Used(i) == chunks[i + 1].pageCount > 0
ChunkIds == 0..(Len(chunks) - 1)

AddChunk(n) ==
  /\ freeChunk = Absent => Len(chunks) < MaxChunks
  /\ LET i == IF freeChunk = Absent THEN Len(chunks) ELSE freeChunk
         new == [pageCount |-> n, pagesUsed |-> 0, nextChunk |-> Absent, disabled |-> FALSE]
     IN /\ chunks' = IF freeChunk = Absent THEN Append(chunks, new) ELSE [chunks EXCEPT ![i + 1] = new]
        /\ freeChunk' = IF freeChunk = Absent THEN Absent ELSE chunks[i + 1].nextChunk
        /\ SetList(InsertFreeRange(List, FreeRange(i * ChunkPages, n), Absent))
  /\ UNCHANGED allocated

\* freeEmptyChunksInPool
RemoveChunk(i) ==
  /\ Used(i) /\ chunks[i + 1].pagesUsed = 0
  /\ chunks' = [chunks EXCEPT ![i + 1] =
       [pageCount |-> 0, pagesUsed |-> 0, nextChunk |-> freeChunk, disabled |-> TRUE]]
  /\ freeChunk' = i
  /\ SetList(InsertFreeRange(List, FreeRange(i * ChunkPages, 0), pageLut[i * ChunkPages]))
  /\ UNCHANGED allocated

\* Defragmentation closes a chunk for allocations, and may open it again.
KillChunk(i) ==
  /\ Used(i)
  /\ chunks' = [chunks EXCEPT ![i + 1].disabled = TRUE]
  /\ UNCHANGED <<listVars, freeChunk, allocated>>

ReviveChunk(i) ==
  /\ Used(i)
  /\ chunks' = [chunks EXCEPT ![i + 1].disabled = FALSE]
  /\ UNCHANGED <<listVars, freeChunk, allocated>>

ReviveChunks ==
  /\ chunks' = [i \in DOMAIN chunks |->
       IF Used(i - 1) THEN [chunks[i] EXCEPT !.disabled = FALSE] ELSE chunks[i]]
  /\ UNCHANGED <<listVars, freeChunk, allocated>>

\* The size of an allocation is a multiple of its alignment.
Next ==
  \/ \E n \in 1..ChunkPages, a \in Alignments : n % a = 0 /\ AllocPages(n, a)
  \/ \E r \in allocated : FreePages(r)
  \/ \E n \in 1..ChunkPages : AddChunk(n)
  \/ \E i \in ChunkIds : RemoveChunk(i) \/ KillChunk(i) \/ ReviveChunk(i)
  \/ ReviveChunks

Spec == Init /\ [][Next]_vars

-----------------------------------------------------------------------------
(* Properties *)

\* The values the variables take.
TypeOK ==
  /\ \A i \in DOMAIN freeList : freeList[i].index \in Pages /\ freeList[i].count \in 1..ChunkPages
  /\ pageLut \in [Pages -> {Absent} \union 0..(Len(freeList) - 1)]
  /\ Len(chunks) <= MaxChunks
  /\ \A i \in DOMAIN chunks :
       /\ chunks[i].pageCount \in 0..ChunkPages
       /\ chunks[i].pagesUsed \in 0..chunks[i].pageCount
       /\ chunks[i].nextChunk \in {Absent} \union ChunkIds
       /\ chunks[i].disabled \in BOOLEAN
  /\ freeChunk \in {Absent} \union ChunkIds

PagesOf(r) == r.index..(r.index + r.count - 1)
ChunkPagesOf(i) == (i * ChunkPages)..(i * ChunkPages + chunks[i + 1].pageCount - 1)
FreePagesOf(i) == ChunkPagesOf(i) \ UNION {PagesOf(r) : r \in allocated}

\* Every page of a chunk is in one allocation or in one free range, and neither
\* reaches outside of the chunk.
PagesPartitioned ==
  \A i \in ChunkIds, p \in Pages : ChunkOf(p) = i =>
    LET holders == {r \in allocated : p \in PagesOf(r)}
        ranges == {k \in DOMAIN freeList : p \in PagesOf(freeList[k])}
    IN Cardinality(holders) + Cardinality(ranges) = IF p \in ChunkPagesOf(i) THEN 1 ELSE 0

\* The list is sorted, the table knows the ends of its ranges and nothing else, and no
\* two free ranges of a chunk touch.
ListSound ==
  /\ \A j, k \in DOMAIN freeList :
       /\ j < k => freeList[j].count >= freeList[k].count
       /\ freeList[j].index + freeList[j].count = freeList[k].index => ~Inside(freeList[k].index)
  /\ \A p \in Pages, k \in DOMAIN freeList : pageLut[p] = k - 1 <=> p \in Ends(freeList[k])

\* The chunks count their pages, and those that were removed wait to be used again.
ChunksSound ==
  /\ \A i \in ChunkIds :
       chunks[i + 1].pagesUsed = Cardinality(ChunkPagesOf(i) \ FreePagesOf(i))
  /\ \A i \in ChunkIds :
       ~Used(i) <=> i = freeChunk \/ \E j \in ChunkIds : ~Used(j) /\ chunks[j + 1].nextChunk = i

\* An allocation fails only when no open chunk has room for it: after reviving the
\* chunks and adding one that is large enough, DxvkMemoryAllocator does not look at
\* the result again.
FailsOnlyWhenFull ==
  \A n \in 1..ChunkPages, a \in Alignments : n % a = 0 /\ Suitable(n, a) = {} =>
    \A i \in ChunkIds, p \in Pages :
      ~chunks[i + 1].disabled /\ p % a = 0 => ~(p..(p + n - 1) \subseteq FreePagesOf(i))

\* Memory is given to one caller at a time, and is found as long as there is any.
PagesSound == PagesPartitioned /\ ListSound /\ ChunksSound /\ FailsOnlyWhenFull
=============================================================================
