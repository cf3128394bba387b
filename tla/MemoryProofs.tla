---------------------------- MODULE MemoryProofs ----------------------------
(***************************************************************************)
(* The page allocator of MCDevice, proved right for any number and size of *)
(* chunks, and what follows from it and DeviceProofs for the device.       *)
(***************************************************************************)
EXTENDS DeviceProofs

-----------------------------------------------------------------------------
(* Lists of ranges *)

\* An element is taken out,
LEMMA WithoutAt ==
  ASSUME NEW S, NEW s \in Seq(S), NEW c \in 1..Len(s), NEW t, t = PageSource!RemoveAt(s, c)
  PROVE  /\ t \in Seq(S) /\ Len(t) = Len(s) - 1
         /\ \A i \in 1..(Len(s) - 1) : t[i] = IF i < c THEN s[i] ELSE s[i + 1]
<1> DEFINE n == Len(s)
<1>1. n \in Nat /\ c \in 1..n /\ \A i \in 1..n : s[i] \in S
  BY LenProperties, ElementOfSeq
<1> DEFINE a == SubSeq(s, 1, c - 1)
           b == SubSeq(s, c + 1, n)
<1>3. t = a \o b
  BY DEF PageSource!RemoveAt
<1>4. a \in Seq(S) /\ Len(a) = c - 1 /\ \A i \in 1..(c - 1) : a[i] = s[i]
  <2>1. 1 \in Int /\ c - 1 \in Int /\ \A i \in 1..(c - 1) : s[i] \in S
    BY <1>1
  <2>2. a \in Seq(S) /\ Len(a) = (IF 1 <= c - 1 THEN (c - 1) - 1 + 1 ELSE 0)
        /\ \A i \in 1..((c - 1) - 1 + 1) : a[i] = s[1 + i - 1]
    BY <2>1, SubSeqProperties
  <2> QED
    BY <1>1, <2>2
<1>5. b \in Seq(S) /\ Len(b) = n - c /\ \A i \in 1..(n - c) : b[i] = s[c + i]
  <2>1. c + 1 \in Int /\ n \in Int /\ \A i \in (c + 1)..n : s[i] \in S
    BY <1>1
  <2>2. b \in Seq(S) /\ Len(b) = (IF c + 1 <= n THEN n - (c + 1) + 1 ELSE 0)
        /\ \A i \in 1..(n - (c + 1) + 1) : b[i] = s[(c + 1) + i - 1]
    BY <2>1, SubSeqProperties
  <2>3. ASSUME NEW i \in 1..(n - c) PROVE b[i] = s[c + i]
    <3>1. i \in 1..(n - (c + 1) + 1) /\ (c + 1) + i - 1 = c + i
      BY <1>1
    <3> QED
      BY <2>2, <3>1
  <2>4. Len(b) = n - c
    <3> HIDE DEF n
    <3>1. (c + 1 <= n => n - (c + 1) + 1 = n - c) /\ (~(c + 1 <= n) => n - c = 0)
      BY <1>1
    <3> QED
      BY <2>2, <3>1
  <2> QED
    BY <2>2, <2>3, <2>4
<1> HIDE DEF a, b
<1>6. t \in Seq(S) /\ Len(t) = Len(a) + Len(b)
      /\ \A i \in 1..(Len(a) + Len(b)) : t[i] = IF i <= Len(a) THEN a[i] ELSE b[i - Len(a)]
  <2>1. a \in Seq(S) /\ b \in Seq(S)
    BY <1>4, <1>5
  <2> QED
    BY <1>3, <2>1, ConcatProperties
<1>7. Len(a) + Len(b) = n - 1
  BY <1>1, <1>4, <1>5
<1>8. ASSUME NEW i \in 1..(n - 1) PROVE t[i] = IF i < c THEN s[i] ELSE s[i + 1]
  <2>1. CASE i < c
    <3>1. i \in 1..(c - 1) /\ i <= Len(a)
      BY <1>1, <1>4, <2>1
    <3> QED
      BY <1>4, <1>6, <1>7, <2>1, <3>1
  <2>2. CASE ~(i < c)
    <3>1. i - Len(a) \in 1..(n - c) /\ ~(i <= Len(a)) /\ c + (i - Len(a)) = i + 1
      BY <1>1, <1>4, <2>2
    <3> QED
      BY <1>5, <1>6, <1>7, <2>2, <3>1
  <2> QED
    BY <2>1, <2>2
<1> QED
  BY <1>6, <1>7, <1>8

\* or put in: t, of length l, is s with x at position c.
PutAt(t, s, c, x, l) ==
  /\ Len(t) = l /\ t[c] = x
  /\ \A i \in 1..l : i < c => t[i] = s[i]
  /\ \A i \in 1..l : i > c => t[i] = s[i - 1]

\* What inserting an element does to the positions of a list.
LEMMA WithAt ==
  ASSUME NEW S, NEW s \in Seq(S), NEW l, l = Len(s) + 1, NEW c \in 1..l, NEW x \in S,
         NEW t, t = PageSource!InsertAt(s, c, x)
  PROVE  t \in Seq(S) /\ PutAt(t, s, c, x, l)
<1> DEFINE n == Len(s)
<1>1. n \in Nat /\ c \in 1..(n + 1) /\ \A i \in 1..n : s[i] \in S
  BY LenProperties, ElementOfSeq
<1> DEFINE a == SubSeq(s, 1, c - 1)
           b == SubSeq(s, c, n)
           m == <<x>>
<1>3. t = (a \o m) \o b
  BY DEF PageSource!InsertAt
<1>4. a \in Seq(S) /\ Len(a) = c - 1 /\ \A i \in 1..(c - 1) : a[i] = s[i]
  <2>1. 1 \in Int /\ c - 1 \in Int /\ \A i \in 1..(c - 1) : s[i] \in S
    BY <1>1
  <2>2. a \in Seq(S) /\ Len(a) = (IF 1 <= c - 1 THEN (c - 1) - 1 + 1 ELSE 0)
        /\ \A i \in 1..((c - 1) - 1 + 1) : a[i] = s[1 + i - 1]
    BY <2>1, SubSeqProperties
  <2> QED
    BY <1>1, <2>2
<1>5. b \in Seq(S) /\ Len(b) = n - c + 1 /\ \A i \in 1..(n - c + 1) : b[i] = s[c + i - 1]
  <2>1. c \in Int /\ n \in Int /\ \A i \in c..n : s[i] \in S
    BY <1>1
  <2>2. b \in Seq(S) /\ Len(b) = (IF c <= n THEN n - c + 1 ELSE 0)
        /\ \A i \in 1..(n - c + 1) : b[i] = s[c + i - 1]
    BY <2>1, SubSeqProperties
  <2>4. Len(b) = n - c + 1
    <3> HIDE DEF n
    <3>1. ~(c <= n) => n - c + 1 = 0
      BY <1>1
    <3> QED
      BY <2>2, <3>1
  <2> QED
    BY <2>2, <2>4
<1>6. m \in Seq(S) /\ Len(m) = 1 /\ m[1] = x
  OBVIOUS
<1> HIDE DEF a, b, m
<1>7. PICK am : am = a \o m
  OBVIOUS
<1>8. am \in Seq(S) /\ Len(am) = c /\ am[c] = x /\ \A i \in 1..(c - 1) : am[i] = s[i]
  <2>1. am \in Seq(S) /\ Len(am) = Len(a) + Len(m)
        /\ \A i \in 1..(Len(a) + Len(m)) : am[i] = IF i <= Len(a) THEN a[i] ELSE m[i - Len(a)]
    BY <1>4, <1>6, <1>7, ConcatProperties
  <2>2. Len(am) = c
    BY <1>1, <1>4, <1>6, <2>1
  <2>3. am[c] = x
    <3>1. c \in 1..(Len(a) + Len(m)) /\ ~(c <= Len(a)) /\ c - Len(a) = 1
      BY <1>1, <1>4, <1>6
    <3> QED
      BY <1>6, <2>1, <3>1
  <2>4. ASSUME NEW i \in 1..(c - 1) PROVE am[i] = s[i]
    <3>1. i \in 1..(Len(a) + Len(m)) /\ i <= Len(a)
      BY <1>1, <1>4, <1>6
    <3> QED
      BY <1>4, <2>1, <3>1
  <2> QED
    BY <2>1, <2>2, <2>3, <2>4
<1>9. t \in Seq(S) /\ Len(t) = Len(am) + Len(b)
      /\ \A i \in 1..(Len(am) + Len(b)) : t[i] = IF i <= Len(am) THEN am[i] ELSE b[i - Len(am)]
  <2>1. t = am \o b
    BY <1>3, <1>7
  <2>2. am \in Seq(S) /\ b \in Seq(S)
    BY <1>5, <1>8
  <2> QED
    BY <2>1, <2>2, ConcatProperties
<1>10. Len(am) + Len(b) = n + 1
  BY <1>1, <1>5, <1>8
<1>11. t[c] = x
  BY <1>1, <1>8, <1>9, <1>10
<1>12. ASSUME NEW i \in 1..(n + 1), i < c PROVE t[i] = s[i]
  <2>1. i \in 1..(c - 1) /\ i <= Len(am)
    BY <1>1, <1>8, <1>12
  <2> QED
    BY <1>8, <1>9, <1>10, <2>1
<1>13. ASSUME NEW i \in 1..(n + 1), i > c PROVE t[i] = s[i - 1]
  <2>1. i - Len(am) \in 1..(n - c + 1) /\ ~(i <= Len(am)) /\ c + (i - Len(am)) - 1 = i - 1
    BY <1>1, <1>8, <1>13
  <2> QED
    BY <1>5, <1>9, <1>10, <2>1
<1> QED
  BY <1>9, <1>10, <1>11, <1>12, <1>13 DEF PutAt

\* Where an element is found that was at another position before another moved.
From(j, k, to) == IF k <= j /\ j < to THEN j + 1 ELSE IF to < j /\ j <= k THEN j - 1 ELSE j

Arranged(t, s, k, to, x) ==
  /\ Len(t) = Len(s) /\ t[to] = x
  /\ \A j \in 1..Len(s) : j # to => t[j] = s[From(j, k, to)]

\* What removing an element and inserting another does to the positions of a list.
LEMMA Moved ==
  ASSUME NEW S, NEW s \in Seq(S), NEW k \in 1..Len(s), NEW to \in 1..Len(s), NEW x \in S,
         NEW t, t = PageSource!InsertAt(PageSource!RemoveAt(s, k), to, x)
  PROVE  t \in Seq(S) /\ Arranged(t, s, k, to, x)
<1>1. PICK n : n = Len(s)
  OBVIOUS
<1>2. n \in Nat /\ k \in 1..n /\ to \in 1..n
  BY <1>1, LenProperties
<1>3. PICK r : r = PageSource!RemoveAt(s, k)
  OBVIOUS
<1>4. r \in Seq(S) /\ Len(r) = n - 1 /\ \A i \in 1..(n - 1) : r[i] = IF i < k THEN s[i] ELSE s[i + 1]
  BY <1>1, <1>3, WithoutAt
<1>5. to \in 1..(Len(r) + 1) /\ Len(r) + 1 = n
  BY <1>2, <1>4
<1>6. /\ t \in Seq(S) /\ Len(t) = n /\ t[to] = x
      /\ \A i \in 1..n : i < to => t[i] = r[i]
      /\ \A i \in 1..n : i > to => t[i] = r[i - 1]
  <2>1. t = PageSource!InsertAt(r, to, x)
    BY <1>3
  <2>2. r \in Seq(S) /\ n = Len(r) + 1 /\ to \in 1..n
    BY <1>2, <1>4, <1>5
  <2>3. t \in Seq(S) /\ PutAt(t, r, to, x, n)
    BY <2>1, <2>2, WithAt, Zenon
  <2> QED
    BY <2>3 DEF PutAt
<1>7. ASSUME NEW j \in 1..n, j # to PROVE t[j] = s[From(j, k, to)]
  <2>1. CASE j < to
    <3>1. j \in 1..(n - 1)
      BY <1>2, <2>1
    <3>2. t[j] = IF j < k THEN s[j] ELSE s[j + 1]
      BY <1>4, <1>6, <2>1, <3>1
    <3>3. From(j, k, to) = IF j < k THEN j ELSE j + 1
      BY <1>2, <2>1 DEF From
    <3> QED
      BY <3>2, <3>3
  <2>2. CASE j > to
    <3>1. j - 1 \in 1..(n - 1) /\ (j - 1) + 1 = j
      BY <1>2, <2>2
    <3>2. t[j] = r[j - 1]
      BY <1>6, <2>2
    <3>3. r[j - 1] = IF j - 1 < k THEN s[j - 1] ELSE s[(j - 1) + 1]
      BY <1>4, <3>1
    <3>4. From(j, k, to) = IF j - 1 < k THEN j - 1 ELSE j
      BY <1>2, <2>2 DEF From
    <3> QED
      BY <3>1, <3>2, <3>3, <3>4
  <2> QED
    BY <1>2, <1>7, <2>1, <2>2
<1> QED
  BY <1>1, <1>6, <1>7 DEF Arranged

\* The positions that elements come from: each but the removed one, in their order.
LEMMA FromPositions ==
  ASSUME NEW n \in Nat, NEW k \in 1..n, NEW to \in 1..n
  PROVE  /\ \A j \in 1..n : j # to => From(j, k, to) \in 1..n /\ From(j, k, to) # k
         /\ \A i, j \in 1..n : i # to /\ j # to /\ From(i, k, to) = From(j, k, to) => i = j
         /\ \A i, j \in 1..n : i # to /\ j # to /\ i < j => From(i, k, to) < From(j, k, to)
         /\ \A i \in 1..n : i # k => \E j \in 1..n : j # to /\ From(j, k, to) = i
<1>1. \A j \in 1..n : j # to => From(j, k, to) \in 1..n /\ From(j, k, to) # k
  BY DEF From
<1>2. \A i, j \in 1..n : i # to /\ j # to /\ From(i, k, to) = From(j, k, to) => i = j
  BY DEF From
<1>3. \A i, j \in 1..n : i # to /\ j # to /\ i < j => From(i, k, to) < From(j, k, to)
  BY DEF From
<1>4. ASSUME NEW i \in 1..n, i # k PROVE \E j \in 1..n : j # to /\ From(j, k, to) = i
  <2>1. From(i, to, k) \in 1..n /\ From(i, to, k) # to /\ From(From(i, to, k), k, to) = i
    BY <1>4 DEF From
  <2> QED
    BY <2>1
<1> QED
  BY <1>1, <1>2, <1>3, <1>4

\* The greatest and the least of some positions.
Greatest(m, T) == m \in T /\ \A x \in T : x <= m
Least(m, T) == m \in T /\ \A x \in T : m <= x

\* A set of positions that is not empty has a greatest and a least one.
LEMMA Bounds ==
  ASSUME NEW n \in Nat, NEW T \in SUBSET (1..n), T # {}
  PROVE  Greatest(PageSource!Max(T), T) /\ Least(PageSource!Min(T), T)
<1>1. \E x \in T : \A y \in T : x <= y
  <2>1. T \in SUBSET Nat
    OBVIOUS
  <2> QED
    BY <2>1, NatMin
<1>2. \E x \in T : \A y \in T : x >= y
  <2> DEFINE D == {d \in 0..n : n - d \in T}
  <2>1. D \in SUBSET Nat /\ D # {}
    <3>1. PICK x : x \in T
      OBVIOUS
    <3>2. x \in 1..n
      BY <3>1
    <3>3. n - x \in 0..n /\ n - (n - x) = x
      BY <3>2
    <3>4. n - x \in D
      BY <3>1, <3>3
    <3> QED
      BY <3>4
  <2>2. PICK d \in D : \A e \in D : d <= e
    <3> HIDE DEF D
    <3> QED
      BY <2>1, NatMin
  <2>3. d \in 0..n /\ n - d \in T
    OBVIOUS
  <2>4. ASSUME NEW y \in T PROVE n - d >= y
    <3>1. y \in 1..n
      OBVIOUS
    <3>2. n - y \in 0..n /\ n - (n - y) = y
      BY <3>1
    <3>3. n - y \in D
      BY <3>2
    <3>4. d <= n - y
      BY <2>2, <3>3
    <3> QED
      BY <2>3, <3>1, <3>4
  <2> QED
    BY <2>3, <2>4
<1>3. PageSource!Min(T) \in T /\ \A x \in T : PageSource!Min(T) <= x
  BY <1>1 DEF PageSource!Min
<1>4. PageSource!Max(T) \in T /\ \A x \in T : PageSource!Max(T) >= x
  BY <1>2 DEF PageSource!Max
<1>5. \A x \in T : x <= PageSource!Max(T)
  BY <1>4
<1> QED
  BY <1>3, <1>4, <1>5 DEF Greatest, Least

(***************************************************************************)
(* A list of free ranges and its table: the list is sorted, and the table  *)
(* knows the ends of its ranges and nothing else.                          *)
(***************************************************************************)
Ranges == [index : Nat, count : Nat]

Sorted(seq) == \A j, k \in 1..Len(seq) : j < k => seq[j].count >= seq[k].count

SoundList(seq, table) ==
  /\ seq \in Seq(Ranges) /\ Sorted(seq)
  /\ \A k \in 1..Len(seq) : seq[k].count >= 1 /\ PageSource!Ends(seq[k]) \subseteq PageSource!Pages
  /\ table \in [PageSource!Pages -> -1..(Len(seq) - 1)]
  /\ \A p \in PageSource!Pages, k \in 1..Len(seq) : table[p] = k - 1 <=> p \in PageSource!Ends(seq[k])

\* The position keeps the list sorted.
InOrder(seq, k, n, to) ==
  /\ to \in 1..Len(seq)
  /\ \A j \in 1..Len(seq) : j < to => seq[From(j, k, to)].count >= n
  /\ \A j \in 1..Len(seq) : j > to => seq[From(j, k, to)].count <= n

\* The position that a range is moved to keeps the list sorted.
LEMMA PositionSorted ==
  ASSUME NEW seq \in Seq(Ranges), Sorted(seq), NEW k \in 1..Len(seq), NEW n \in Nat,
         NEW to, to = PageSource!NewPosition(seq, k, n)
  PROVE  InOrder(seq, k, n, to)
<1>1. PICK L : L = Len(seq)
  OBVIOUS
<1>2. L \in Nat /\ k \in 1..L /\ \A j \in 1..L : seq[j].count \in Nat
  <2>1. L \in Nat /\ k \in 1..L
    BY <1>1, LenProperties
  <2>2. \A j \in 1..L : seq[j] \in Ranges
    BY <1>1, ElementOfSeq
  <2> QED
    BY <2>1, <2>2 DEF Ranges
<1>3. \A i, j \in 1..L : i <= j => seq[i].count >= seq[j].count
  BY <1>1, <1>2 DEF Sorted
<1>4. CASE n < seq[k].count
  <2> DEFINE T == {j \in k..L : \A i \in (k + 1)..j : n < seq[i].count}
  <2>1. k \in T /\ T \in SUBSET (1..L)
    BY <1>2
  <2>8. T # {}
    BY <2>1
  <2>2. to = PageSource!Max(T)
    BY <1>1, <1>4 DEF PageSource!NewPosition
  <2> HIDE DEF T
  <2>9. Greatest(to, T)
    BY <1>2, <2>1, <2>2, <2>8, Bounds
  <2>3. to \in T /\ \A x \in T : x <= to
    BY <2>9 DEF Greatest
  <2>4. to \in k..L /\ \A i \in (k + 1)..to : n < seq[i].count
    BY <2>3 DEF T
  <2>5. ASSUME NEW j \in 1..L, j < to PROVE seq[From(j, k, to)].count >= n
    <3>1. CASE j < k
      <4>1. From(j, k, to) = j /\ seq[j].count >= seq[k].count
        BY <1>2, <1>3, <2>4, <3>1 DEF From
      <4> QED
        BY <1>2, <1>4, <4>1
    <3>2. CASE j >= k
      <4>1. From(j, k, to) = j + 1 /\ j + 1 \in (k + 1)..to /\ j + 1 \in 1..L
        BY <1>2, <2>4, <2>5, <3>2 DEF From
      <4> QED
        BY <1>2, <2>4, <4>1
    <3> QED
      BY <1>2, <3>1, <3>2
  <2>6. ASSUME NEW j \in 1..L, j > to PROVE seq[From(j, k, to)].count <= n
    <3>1. From(j, k, to) = j /\ to + 1 \in k..L /\ to + 1 \in 1..L /\ to + 1 <= j
      BY <1>2, <2>4, <2>6 DEF From
    <3>2. to + 1 \notin T
      BY <1>2, <2>3, <2>4
    <3>3. PICK i \in (k + 1)..(to + 1) : ~(n < seq[i].count)
      BY <3>1, <3>2 DEF T
    <3>6. i \notin (k + 1)..to
      BY <2>4, <3>3
    <3>4. i = to + 1
      BY <1>2, <2>4, <3>3, <3>6
    <3>5. seq[to + 1].count <= n /\ seq[j].count <= seq[to + 1].count
      BY <1>2, <1>3, <3>1, <3>3, <3>4
    <3> QED
      BY <1>2, <3>1, <3>5
  <2>7. to \in 1..L
    BY <1>2, <2>4
  <2> QED
    BY <1>1, <2>5, <2>6, <2>7 DEF InOrder
<1>5. CASE ~(n < seq[k].count)
  <2> DEFINE T == {j \in 1..k : \A i \in j..(k - 1) : n > seq[i].count}
  <2>1. k \in T /\ T \in SUBSET (1..L)
    BY <1>2
  <2>8. T # {}
    BY <2>1
  <2>2. to = PageSource!Min(T)
    BY <1>1, <1>5 DEF PageSource!NewPosition
  <2> HIDE DEF T
  <2>9. Least(to, T)
    BY <1>2, <2>1, <2>2, <2>8, Bounds
  <2>3. to \in T /\ \A x \in T : to <= x
    BY <2>9 DEF Least
  <2>4. to \in 1..k /\ \A i \in to..(k - 1) : n > seq[i].count
    BY <2>3 DEF T
  <2>5. ASSUME NEW j \in 1..L, j > to PROVE seq[From(j, k, to)].count <= n
    <3>1. CASE j > k
      <4>1. From(j, k, to) = j /\ seq[j].count <= seq[k].count
        BY <1>2, <1>3, <2>4, <3>1 DEF From
      <4> QED
        BY <1>2, <1>5, <4>1
    <3>2. CASE j <= k
      <4>1. From(j, k, to) = j - 1 /\ j - 1 \in to..(k - 1) /\ j - 1 \in 1..L
        BY <1>2, <2>4, <2>5, <3>2 DEF From
      <4> QED
        BY <1>2, <2>4, <4>1
    <3> QED
      BY <1>2, <3>1, <3>2
  <2>6. ASSUME NEW j \in 1..L, j < to PROVE seq[From(j, k, to)].count >= n
    <3>1. From(j, k, to) = j /\ to - 1 \in 1..k /\ to - 1 \in 1..L /\ j <= to - 1
      BY <1>2, <2>4, <2>6 DEF From
    <3>2. to - 1 \notin T
      BY <1>2, <2>3, <2>4
    <3>3. PICK i \in (to - 1)..(k - 1) : ~(n > seq[i].count)
      BY <3>1, <3>2 DEF T
    <3>4. i = to - 1
      BY <1>2, <2>4, <3>3
    <3>5. seq[to - 1].count >= n /\ seq[j].count >= seq[to - 1].count
      BY <1>2, <1>3, <3>1, <3>3, <3>4
    <3> QED
      BY <1>2, <3>1, <3>5
  <2>7. to \in 1..L
    BY <1>2, <2>4
  <2> QED
    BY <1>1, <2>5, <2>6, <2>7 DEF InOrder
<1> QED
  BY <1>4, <1>5

\* What insertFreeRange does.
RangeSet(seq, range, at) ==
  (Members(seq) \ (IF at = -1 THEN {} ELSE {seq[at + 1]}))
    \union (IF range.count = 0 THEN {} ELSE {range})

Inserted(seq, range, at, res) ==
  /\ SoundList(res.list, res.lut)
  /\ Members(res.list) = RangeSet(seq, range, at)
  /\ range.count = 0 => /\ Len(res.list) = Len(seq) - 1
                        /\ \A j \in 1..at : res.list[j] = seq[j]

\* An end of a free range is not one of another.
LEMMA EndsDistinct ==
  ASSUME NEW seq, NEW table, SoundList(seq, table), NEW i \in 1..Len(seq), NEW j \in 1..Len(seq),
         NEW p, p \in PageSource!Ends(seq[i]), p \in PageSource!Ends(seq[j])
  PROVE  i = j
<1>1. p \in PageSource!Pages
  BY DEF SoundList
<1>2. table[p] = i - 1 /\ table[p] = j - 1
  BY <1>1 DEF SoundList
<1> QED
  BY <1>2

\* The list before the range is moved to its place: with an empty one added if there is
\* none to replace.
OldList(seq, at) == IF at = -1 THEN Append(seq, [index |-> 0, count |-> 0]) ELSE seq
OldPosition(seq, at) == IF at = -1 THEN Len(seq) + 1 ELSE at + 1

\* The list with the empty range that stands for a new one is sorted.
LEMMA OldListSound ==
  ASSUME NEW seq, NEW table, SoundList(seq, table), NEW at \in -1..(Len(seq) - 1),
         NEW old, old = OldList(seq, at), NEW k, k = OldPosition(seq, at)
  PROVE  /\ old \in Seq(Ranges) /\ Sorted(old) /\ k \in 1..Len(old)
         /\ Len(old) = (IF at = -1 THEN Len(seq) + 1 ELSE Len(seq))
         /\ \A j \in 1..Len(old) : j # k => j \in 1..Len(seq) /\ old[j] = seq[j]
         /\ \A j \in 1..Len(seq) : old[j] = seq[j]
         /\ at # -1 => k \in 1..Len(seq) /\ old[k].count >= 1
         /\ at = -1 => k = Len(old) /\ old[k].count = 0
<1>1. PICK n : n = Len(seq)
  OBVIOUS
<1>2. n \in Nat /\ seq \in Seq(Ranges) /\ \A j \in 1..n : seq[j] \in Ranges
  BY <1>1, LenProperties, ElementOfSeq DEF SoundList
<1>3. CASE at = -1
  <2>1. PICK e : e = [index |-> 0, count |-> 0]
    OBVIOUS
  <2>2. e \in Ranges /\ e.count = 0
    BY <2>1 DEF Ranges
  <2>3. old = Append(seq, e) /\ k = n + 1
    BY <1>1, <1>3, <2>1 DEF OldList, OldPosition
  <2>4. old \in Seq(Ranges) /\ Len(old) = n + 1 /\ old[n + 1] = e /\ \A j \in 1..n : old[j] = seq[j]
    BY <1>1, <1>2, <2>2, <2>3, AppendProperties
  <2>5. Sorted(old)
    <3> SUFFICES ASSUME NEW i \in 1..(n + 1), NEW j \in 1..(n + 1), i < j
                 PROVE  old[i].count >= old[j].count
      BY <2>4 DEF Sorted
    <3>1. i \in 1..n
      BY <1>2
    <3>2. CASE j = n + 1
      <4>1. seq[i] \in Ranges /\ seq[i].count \in Nat
        BY <1>2, <3>1 DEF Ranges
      <4> QED
        BY <2>2, <2>4, <3>1, <3>2, <4>1
    <3>3. CASE j # n + 1
      <4>1. j \in 1..n
        BY <1>2, <3>3
      <4>2. seq[i].count >= seq[j].count
        BY <1>1, <3>1, <4>1 DEF SoundList, Sorted
      <4> QED
        BY <2>4, <3>1, <4>1, <4>2
    <3> QED
      BY <3>2, <3>3
  <2> QED
    BY <1>1, <1>2, <1>3, <2>2, <2>3, <2>4, <2>5
<1>4. CASE at # -1
  <2>1. old = seq /\ k = at + 1 /\ at \in 0..(n - 1)
    BY <1>1, <1>2, <1>4 DEF OldList, OldPosition
  <2>2. k \in 1..n /\ seq[k].count >= 1
    <3>1. k \in 1..n
      BY <1>2, <2>1
    <3> QED
      BY <1>1, <3>1 DEF SoundList
  <2> QED
    BY <1>1, <1>2, <1>4, <2>1, <2>2 DEF SoundList
<1> QED
  BY <1>3, <1>4

\* The table after the range has moved.
NewLut(table, old, k, new, shifted) ==
  [p \in PageSource!Pages |->
     IF {j \in shifted : p \in PageSource!Ends(new[j])} # {}
       THEN PageSource!Max({j \in shifted : p \in PageSource!Ends(new[j])}) - 1
       ELSE IF p \in PageSource!Ends(old[k]) THEN -1 ELSE table[p]]

Shifted(k, to, empty) ==
  (PageSource!Min({k, to})..PageSource!Max({k, to})) \ (IF empty THEN {to} ELSE {})

\* insertFreeRange by its parts.
LEMMA InsertParts ==
  ASSUME NEW seq, NEW table, NEW range, NEW at,
         NEW res, res = PageSource!InsertFreeRange([list |-> seq, lut |-> table], range, at),
         NEW old, old = OldList(seq, at), NEW k, k = OldPosition(seq, at),
         Len(Append(seq, [index |-> 0, count |-> 0])) = Len(seq) + 1
  PROVE  \E to, new :
           /\ to = PageSource!NewPosition(old, k, range.count)
           /\ new = PageSource!InsertAt(PageSource!RemoveAt(old, k), to, range)
           /\ res.list = IF range.count = 0 THEN PageSource!Front(new) ELSE new
           /\ res.lut = NewLut(table, old, k, new, Shifted(k, to, range.count = 0))
<1>1. old = IF at = -1 THEN Append(seq, PageSource!FreeRange(0, 0)) ELSE seq
  BY DEF OldList, PageSource!FreeRange
<1>2. k = IF at = -1 THEN Len(old) ELSE at + 1
  BY DEF OldPosition, OldList
<1> DEFINE to == PageSource!NewPosition(old, k, range.count)
           new == PageSource!InsertAt(PageSource!RemoveAt(old, k), to, range)
<1>3. /\ res.list = IF range.count = 0 THEN PageSource!Front(new) ELSE new
      /\ res.lut = NewLut(table, old, k, new, Shifted(k, to, range.count = 0))
  BY <1>1, <1>2 DEF PageSource!InsertFreeRange, PageSource!Absent, NewLut, Shifted
<1> HIDE DEF new, to
<1> QED
  BY <1>3 DEF new, to

\* The positions whose ranges are moved, and those that stay.
LEMMA ShiftedPositions ==
  ASSUME NEW n \in Nat, NEW k \in 1..n, NEW to \in 1..n, NEW empty \in BOOLEAN
  PROVE  /\ Shifted(k, to, empty) \in SUBSET (1..n)
         /\ empty => to \notin Shifted(k, to, empty)
         /\ \A j \in 1..n : j \notin Shifted(k, to, empty) /\ ~(empty /\ j = to)
              => From(j, k, to) = j /\ j # k /\ j # to
<1>1. {k, to} \in SUBSET (1..n) /\ {k, to} # {}
  OBVIOUS
<1>2. PICK lo, hi : lo = PageSource!Min({k, to}) /\ hi = PageSource!Max({k, to})
  OBVIOUS
<1>3. Least(lo, {k, to}) /\ Greatest(hi, {k, to})
  BY <1>1, <1>2, Bounds, Zenon
<1>4. lo \in {k, to} /\ hi \in {k, to} /\ lo <= k /\ lo <= to /\ k <= hi /\ to <= hi
  BY <1>3 DEF Least, Greatest
<1>5. Shifted(k, to, empty) = (lo..hi) \ (IF empty THEN {to} ELSE {})
  BY <1>2 DEF Shifted
<1>6. ASSUME NEW j \in 1..n, j \notin Shifted(k, to, empty), ~(empty /\ j = to)
      PROVE  From(j, k, to) = j /\ j # k /\ j # to
  <2>1. j \notin lo..hi
    BY <1>5, <1>6
  <2>2. j < lo \/ j > hi
    BY <1>4, <2>1
  <2> QED
    BY <1>4, <2>2 DEF From
<1>7. Shifted(k, to, empty) \in SUBSET (1..n)
  BY <1>4, <1>5
<1>8. empty => to \notin Shifted(k, to, empty)
  BY <1>5
<1> QED
  BY <1>6, <1>7, <1>8

\* The range is at its place among the others, whose ends are not its own.
Placed(seq, at, range, old, k, to, new) ==
  /\ old = OldList(seq, at) /\ k = OldPosition(seq, at)
  /\ to = PageSource!NewPosition(old, k, range.count)
  /\ new = PageSource!InsertAt(PageSource!RemoveAt(old, k), to, range)

MayInsert(seq, table, range, at) ==
  /\ SoundList(seq, table) /\ range \in Ranges /\ at \in -1..(Len(seq) - 1)
  /\ at = -1 => range.count >= 1
  /\ PageSource!Ends(range) \subseteq PageSource!Pages
  /\ \A j \in 1..Len(seq) : j # at + 1 =>
       PageSource!Ends(range) \intersect PageSource!Ends(seq[j]) = {}

\* The ranges are in order, those that were moved at their new position.
PlacedSound(range, old, k, to, new, n) ==
  /\ n \in Nat /\ k \in 1..n /\ to \in 1..n
  /\ new \in Seq(Ranges) /\ Len(new) = n /\ new[to] = range
  /\ \A j \in 1..n : j # to => new[j] = old[From(j, k, to)]
  /\ Sorted(new)
  /\ \A i, j \in 1..n : \A p : p \in PageSource!Ends(new[i]) /\ p \in PageSource!Ends(new[j]) => i = j
  /\ \A i, j \in 1..n : \A p : p \in PageSource!Ends(old[i]) /\ p \in PageSource!Ends(old[j]) => i = j
  /\ range.count = 0 => to = n
  /\ \A j \in 1..n : j # to => new[j].count >= 1

\* Where the ranges of a list are after one was placed.
LEMMA PlacedRange ==
  ASSUME NEW seq, NEW table, NEW range, NEW at, MayInsert(seq, table, range, at),
         NEW old, NEW k, NEW to, NEW new, Placed(seq, at, range, old, k, to, new),
         NEW n, n = Len(old)
  PROVE  PlacedSound(range, old, k, to, new, n)
<1>1. /\ old \in Seq(Ranges) /\ Sorted(old) /\ k \in 1..n
      /\ \A j \in 1..n : j # k => j \in 1..Len(seq) /\ old[j] = seq[j]
      /\ at # -1 => k \in 1..Len(seq) /\ old[k].count >= 1
      /\ at = -1 => old[k].count = 0
      /\ \A j \in 1..Len(seq) : old[j] = seq[j]
  BY OldListSound DEF Placed, MayInsert
<1>2. n \in Nat /\ \A j \in 1..n : old[j] \in Ranges
  BY <1>1, LenProperties, ElementOfSeq
<1>3. range \in Ranges /\ range.count \in Nat
  BY DEF MayInsert, Ranges
<1>4. /\ to \in 1..n
      /\ \A j \in 1..n : j < to => old[From(j, k, to)].count >= range.count
      /\ \A j \in 1..n : j > to => old[From(j, k, to)].count <= range.count
  <2>1. k \in 1..Len(old) /\ to = PageSource!NewPosition(old, k, range.count)
    BY <1>1 DEF Placed
  <2>2. InOrder(old, k, range.count, to)
    BY <1>1, <1>3, <2>1, PositionSorted
  <2> QED
    BY <2>2 DEF InOrder
<1>5. /\ new \in Seq(Ranges) /\ Len(new) = n /\ new[to] = range
      /\ \A j \in 1..n : j # to => new[j] = old[From(j, k, to)]
  <2>1. k \in 1..Len(old) /\ to \in 1..Len(old)
        /\ new = PageSource!InsertAt(PageSource!RemoveAt(old, k), to, range)
    BY <1>1, <1>4 DEF Placed
  <2>2. new \in Seq(Ranges) /\ Arranged(new, old, k, to, range)
    BY <1>1, <1>3, <2>1, Moved
  <2> QED
    BY <2>2 DEF Arranged
<1>6. /\ \A j \in 1..n : j # to => From(j, k, to) \in 1..n /\ From(j, k, to) # k
      /\ \A i, j \in 1..n : i # to /\ j # to /\ From(i, k, to) = From(j, k, to) => i = j
      /\ \A i, j \in 1..n : i # to /\ j # to /\ i < j => From(i, k, to) < From(j, k, to)
  BY <1>1, <1>2, <1>4, FromPositions
<1>7. Sorted(new)
  <2> SUFFICES ASSUME NEW i \in 1..n, NEW j \in 1..n, i < j PROVE new[i].count >= new[j].count
    BY <1>5 DEF Sorted
  <2>1. CASE i = to
    <3>1. j # to /\ j > to
      BY <1>2, <1>4, <2>1
    <3>2. new[j].count <= range.count
      BY <1>4, <1>5, <3>1
    <3>3. new[j].count \in Nat
      BY <1>2, <1>5, <1>6, <3>1 DEF Ranges
    <3> QED
      BY <1>3, <1>5, <2>1, <3>2, <3>3
  <2>2. CASE j = to
    <3>1. i # to /\ i < to
      BY <1>2, <1>4, <2>2
    <3> QED
      BY <1>4, <1>5, <2>2, <3>1
  <2>3. CASE i # to /\ j # to
    <3>1. From(i, k, to) \in 1..n /\ From(j, k, to) \in 1..n /\ From(i, k, to) < From(j, k, to)
      BY <1>6, <2>3
    <3>2. new[i] = old[From(i, k, to)] /\ new[j] = old[From(j, k, to)]
      BY <1>5, <2>3
    <3>3. old[From(i, k, to)].count >= old[From(j, k, to)].count
      BY <1>1, <3>1 DEF Sorted
    <3> QED
      BY <3>2, <3>3
  <2> QED
    BY <2>1, <2>2, <2>3
<1>8. \A i, j \in 1..n : \A p : p \in PageSource!Ends(old[i]) /\ p \in PageSource!Ends(old[j]) => i = j
  <2> SUFFICES ASSUME NEW i \in 1..n, NEW j \in 1..n, NEW p, p \in PageSource!Ends(old[i]),
                      p \in PageSource!Ends(old[j])
               PROVE  i = j
    OBVIOUS
  <2>1. ASSUME NEW l \in 1..n, p \in PageSource!Ends(old[l])
        PROVE  l \in 1..Len(seq) /\ old[l] = seq[l]
    <3>1. CASE l # k
      BY <1>1, <3>1
    <3>2. CASE l = k
      <4>1. at # -1
        BY <1>1, <2>1, <3>2 DEF PageSource!Ends
      <4> QED
        BY <1>1, <3>2, <4>1
    <3> QED
      BY <3>1, <3>2
  <2>2. i \in 1..Len(seq) /\ old[i] = seq[i] /\ j \in 1..Len(seq) /\ old[j] = seq[j]
    BY <2>1
  <2>3. SoundList(seq, table)
    BY DEF MayInsert
  <2>4. p \in PageSource!Ends(seq[i]) /\ p \in PageSource!Ends(seq[j])
    BY <2>2
  <2> QED
    BY <2>2, <2>3, <2>4, EndsDistinct
<1>9. \A i, j \in 1..n : \A p : p \in PageSource!Ends(new[i]) /\ p \in PageSource!Ends(new[j]) => i = j
  <2> SUFFICES ASSUME NEW i \in 1..n, NEW j \in 1..n, NEW p, p \in PageSource!Ends(new[i]),
                      p \in PageSource!Ends(new[j])
               PROVE  i = j
    OBVIOUS
  <2>1. ASSUME NEW l \in 1..n, l # to
        PROVE  PageSource!Ends(range) \intersect PageSource!Ends(new[l]) = {}
    <3>1. From(l, k, to) \in 1..n /\ From(l, k, to) # k /\ new[l] = old[From(l, k, to)]
      BY <1>5, <1>6, <2>1
    <3>2. From(l, k, to) \in 1..Len(seq) /\ new[l] = seq[From(l, k, to)]
      BY <1>1, <3>1
    <3>3. From(l, k, to) # at + 1
      <4>1. CASE at = -1
        BY <3>2, <4>1
      <4>2. CASE at # -1
        BY <3>1, <4>2 DEF Placed, OldPosition
      <4> QED
        BY <4>1, <4>2
    <3> QED
      BY <3>2, <3>3 DEF MayInsert
  <2>2. CASE i = to /\ j # to
    BY <1>5, <2>1, <2>2
  <2>3. CASE j = to /\ i # to
    BY <1>5, <2>1, <2>3
  <2>4. CASE i # to /\ j # to
    <3>1. From(i, k, to) \in 1..n /\ From(j, k, to) \in 1..n
          /\ new[i] = old[From(i, k, to)] /\ new[j] = old[From(j, k, to)]
      BY <1>5, <1>6, <2>4
    <3>2. From(i, k, to) = From(j, k, to)
      BY <1>8, <3>1
    <3> QED
      BY <1>6, <2>4, <3>2
  <2> QED
    BY <2>2, <2>3, <2>4
<1>10. \A j \in 1..n : j # to => new[j].count >= 1
  <2> SUFFICES ASSUME NEW j \in 1..n, j # to PROVE new[j].count >= 1
    OBVIOUS
  <2>1. From(j, k, to) \in 1..Len(seq) /\ new[j] = seq[From(j, k, to)]
    BY <1>1, <1>5, <1>6
  <2> QED
    BY <2>1 DEF MayInsert, SoundList
<1>11. range.count = 0 => to = n
  <2> SUFFICES ASSUME range.count = 0, to # n PROVE FALSE
    OBVIOUS
  <2>1. n \in 1..n /\ n > to /\ n # to
    BY <1>2, <1>4
  <2>2. new[n].count <= 0 /\ new[n].count >= 1
    BY <1>4, <1>5, <1>10, <2>1
  <2>3. new[n].count \in Nat
    BY <1>2, <1>5, <1>6, <2>1 DEF Ranges
  <2> QED
    BY <2>2, <2>3
<1> QED
  BY <1>1, <1>2, <1>4, <1>5, <1>7, <1>8, <1>9, <1>10, <1>11 DEF PlacedSound

\* The table tells where the ranges are now.
LEMMA NewLutSound ==
  ASSUME NEW seq, NEW table, NEW range, NEW at, MayInsert(seq, table, range, at),
         NEW old, NEW k, NEW to, NEW new, Placed(seq, at, range, old, k, to, new),
         NEW empty \in BOOLEAN, empty <=> range.count = 0,
         NEW new2, new2 = NewLut(table, old, k, new, Shifted(k, to, empty)),
         NEW p \in PageSource!Pages
  PROVE  /\ \A j \in 1..Len(old) : p \in PageSource!Ends(new[j]) => new2[p] = j - 1
         /\ (\A j \in 1..Len(old) : p \notin PageSource!Ends(new[j])) => new2[p] = -1
<1>1. PICK n : n = Len(old)
  OBVIOUS
<1>2. /\ n \in Nat /\ k \in 1..n /\ to \in 1..n
      /\ new \in Seq(Ranges) /\ Len(new) = n /\ new[to] = range
      /\ \A j \in 1..n : j # to => new[j] = old[From(j, k, to)]
      /\ Sorted(new)
      /\ \A i, j \in 1..n : \A q : q \in PageSource!Ends(new[i]) /\ q \in PageSource!Ends(new[j]) => i = j
      /\ \A i, j \in 1..n : \A q : q \in PageSource!Ends(old[i]) /\ q \in PageSource!Ends(old[j]) => i = j
  <2>1. PlacedSound(range, old, k, to, new, n)
    BY <1>1, PlacedRange, Zenon
  <2> QED
    BY <2>1 DEF PlacedSound
<1>3. /\ \A j \in 1..n : j # k => j \in 1..Len(seq) /\ old[j] = seq[j]
      /\ \A j \in 1..Len(seq) : j \in 1..n /\ old[j] = seq[j]
      /\ at = -1 => old[k].count = 0 /\ k \notin 1..Len(seq)
      /\ Len(seq) \in Nat
  <2>1. SoundList(seq, table) /\ at \in -1..(Len(seq) - 1)
        /\ old = OldList(seq, at) /\ k = OldPosition(seq, at)
    BY DEF MayInsert, Placed
  <2>2. seq \in Seq(Ranges) /\ Len(seq) \in Nat
    BY <2>1, LenProperties DEF SoundList
  <2>3. /\ Len(old) = (IF at = -1 THEN Len(seq) + 1 ELSE Len(seq))
        /\ \A j \in 1..Len(old) : j # k => j \in 1..Len(seq) /\ old[j] = seq[j]
        /\ \A j \in 1..Len(seq) : old[j] = seq[j]
        /\ at = -1 => k = Len(old) /\ old[k].count = 0
    BY <2>1, OldListSound
  <2>4. \A j \in 1..Len(seq) : j \in 1..n
    BY <1>1, <2>2, <2>3
  <2> QED
    BY <1>1, <2>2, <2>3, <2>4
<1>4. PICK shifted : shifted = Shifted(k, to, empty)
  OBVIOUS
<1>5. /\ shifted \in SUBSET (1..n)
      /\ empty => to \notin shifted
      /\ \A j \in 1..n : j \notin shifted /\ ~(empty /\ j = to) => From(j, k, to) = j /\ j # k /\ j # to
  BY <1>2, <1>4, ShiftedPositions
<1>6. PICK At : At = {j \in shifted : p \in PageSource!Ends(new[j])}
  OBVIOUS
<1>61. \A i : i \in At <=> i \in shifted /\ p \in PageSource!Ends(new[i])
  BY <1>6
<1>62. \A i \in At : i \in 1..n /\ p \in PageSource!Ends(new[i])
  <2>1. \A i \in shifted : i \in 1..n
    BY <1>5
  <2> QED
    BY <1>61, <2>1
<1>7. new2[p] = IF At # {} THEN PageSource!Max(At) - 1
                ELSE IF p \in PageSource!Ends(old[k]) THEN -1 ELSE table[p]
  BY <1>4, <1>6 DEF NewLut
<1>8. \A j \in 1..Len(seq) : table[p] = j - 1 <=> p \in PageSource!Ends(seq[j])
  BY DEF MayInsert, SoundList
<1>9. table[p] \in -1..(Len(seq) - 1)
  BY DEF MayInsert, SoundList
<1>10. empty => PageSource!Ends(new[to]) = {}
  BY <1>2 DEF PageSource!Ends
<1>11. ASSUME NEW j \in 1..n, p \in PageSource!Ends(new[j]) PROVE new2[p] = j - 1
  <2>1. \A i \in At : i = j
    BY <1>2, <1>62, <1>11
  <2>2. CASE j \in shifted
    <3>1. j \in At /\ At \in SUBSET (1..n) /\ At # {}
      BY <1>61, <1>62, <1>11, <2>2
    <3>2. Greatest(PageSource!Max(At), At)
      BY <1>2, <3>1, Bounds
    <3>3. PageSource!Max(At) = j
      BY <2>1, <3>2 DEF Greatest
    <3> QED
      BY <1>7, <3>1, <3>3
  <2>3. CASE j \notin shifted
    <3>1. At = {}
      BY <1>6, <2>1, <2>3
    <3>2. ~(empty /\ j = to)
      BY <1>10, <1>11
    <3>3. From(j, k, to) = j /\ j # k /\ j # to
      BY <1>5, <2>3, <3>2
    <3>4. new[j] = old[j] /\ j \in 1..Len(seq) /\ old[j] = seq[j]
      BY <1>2, <1>3, <3>3
    <3>5. p \notin PageSource!Ends(old[k])
      BY <1>2, <1>11, <3>3, <3>4
    <3>6. table[p] = j - 1
      BY <1>8, <1>11, <3>4
    <3> QED
      BY <1>7, <3>1, <3>5, <3>6
  <2> QED
    BY <2>2, <2>3
<1>12. ASSUME \A j \in 1..n : p \notin PageSource!Ends(new[j]) PROVE new2[p] = -1
  <2>1. At = {}
    BY <1>62, <1>12
  <2>2. ASSUME table[p] # -1 PROVE p \in PageSource!Ends(old[k])
    <3>1. PICK i \in 1..Len(seq) : table[p] = i - 1
      <4>1. table[p] + 1 \in 1..Len(seq) /\ table[p] = (table[p] + 1) - 1
        BY <1>3, <1>9, <2>2
      <4> QED
        BY <4>1
    <3>2. p \in PageSource!Ends(old[i]) /\ i \in 1..n
      BY <1>3, <1>8, <3>1
    <3>3. i = k
      <4> SUFFICES ASSUME i # k PROVE FALSE
        OBVIOUS
      <4>1. PICK j \in 1..n : j # to /\ From(j, k, to) = i
        BY <1>2, <3>2, FromPositions
      <4>2. new[j] = old[i]
        BY <1>2, <4>1
      <4> QED
        BY <1>12, <3>2, <4>2
    <3> QED
      BY <3>2, <3>3
  <2> QED
    BY <1>7, <2>1, <2>2
<1> QED
  BY <1>1, <1>11, <1>12

\* insertFreeRange keeps a list sound, and replaces or adds the range.
LEMMA InsertRange ==
  ASSUME NEW seq, NEW table, NEW range, NEW at, MayInsert(seq, table, range, at),
         NEW res, res = PageSource!InsertFreeRange([list |-> seq, lut |-> table], range, at)
  PROVE  Inserted(seq, range, at, res)
<1>1. PICK old, k : old = OldList(seq, at) /\ k = OldPosition(seq, at)
  OBVIOUS
<1>2. SoundList(seq, table) /\ range \in Ranges /\ at \in -1..(Len(seq) - 1) /\ seq \in Seq(Ranges)
      /\ Len(seq) \in Nat
  BY LenProperties DEF MayInsert, SoundList
<1>3. Len(Append(seq, [index |-> 0, count |-> 0])) = Len(seq) + 1
  BY <1>2, AppendProperties DEF Ranges
<1>4. PICK to, new :
           /\ to = PageSource!NewPosition(old, k, range.count)
           /\ new = PageSource!InsertAt(PageSource!RemoveAt(old, k), to, range)
           /\ res.list = IF range.count = 0 THEN PageSource!Front(new) ELSE new
           /\ res.lut = NewLut(table, old, k, new, Shifted(k, to, range.count = 0))
  BY <1>1, <1>3, InsertParts
<1>5. Placed(seq, at, range, old, k, to, new)
  BY <1>1, <1>4 DEF Placed
<1>6. PICK n : n = Len(old)
  OBVIOUS
<1>7. /\ n \in Nat /\ k \in 1..n /\ to \in 1..n
      /\ new \in Seq(Ranges) /\ Len(new) = n /\ new[to] = range
      /\ \A j \in 1..n : j # to => new[j] = old[From(j, k, to)]
      /\ Sorted(new)
      /\ \A i, j \in 1..n : \A p : p \in PageSource!Ends(new[i]) /\ p \in PageSource!Ends(new[j]) => i = j
      /\ range.count = 0 => to = n
      /\ \A j \in 1..n : j # to => new[j].count >= 1
  <2>1. PlacedSound(range, old, k, to, new, n)
    BY <1>5, <1>6, PlacedRange, Zenon
  <2> QED
    BY <2>1 DEF PlacedSound
<1>8. /\ n = (IF at = -1 THEN Len(seq) + 1 ELSE Len(seq))
      /\ \A j \in 1..n : j # k => j \in 1..Len(seq) /\ old[j] = seq[j]
      /\ \A j \in 1..Len(seq) : old[j] = seq[j]
  BY <1>1, <1>2, <1>6, OldListSound
<1>9. PICK empty \in BOOLEAN : empty <=> range.count = 0
  OBVIOUS
<1>10. /\ res.list = IF empty THEN PageSource!Front(new) ELSE new
       /\ res.lut = NewLut(table, old, k, new, Shifted(k, to, empty))
  BY <1>4, <1>9 DEF Shifted
<1>11. PICK m : m = Len(res.list)
  OBVIOUS
<1>12. /\ res.list \in Seq(Ranges) /\ m = IF empty THEN n - 1 ELSE n
       /\ \A j \in 1..m : res.list[j] = new[j]
       /\ \A j \in 1..n : j \in 1..m <=> ~(empty /\ j = to)
       /\ m \in Nat /\ m <= n
  <2>1. CASE empty
    <3>1. res.list = SubSeq(new, 1, n - 1)
      BY <1>7, <1>10, <2>1 DEF PageSource!Front
    <3>2. 1 \in Int /\ n - 1 \in Int /\ n - 1 \in Nat /\ \A i \in 1..(n - 1) : new[i] \in Ranges
      BY <1>7, ElementOfSeq
    <3>3. res.list \in Seq(Ranges) /\ Len(res.list) = (IF 1 <= n - 1 THEN (n - 1) - 1 + 1 ELSE 0)
          /\ \A i \in 1..((n - 1) - 1 + 1) : res.list[i] = new[1 + i - 1]
      BY <1>7, <3>1, <3>2, SubSeqProperties, SMTT(30)
    <3>4. Len(res.list) = n - 1 /\ \A i \in 1..(n - 1) : res.list[i] = new[i]
      BY <3>2, <3>3
    <3>5. \A j \in 1..n : j \in 1..(n - 1) <=> j # to
      BY <1>7, <1>9, <2>1
    <3> QED
      <4>1. m = n - 1 /\ m \in Nat /\ m <= n
        BY <1>7, <1>11, <3>2, <3>4
      <4>2. \A j \in 1..m : res.list[j] = new[j]
        BY <3>4, <4>1
      <4>3. \A j \in 1..n : j \in 1..m <=> ~(empty /\ j = to)
        BY <2>1, <3>5, <4>1
      <4> QED
        BY <2>1, <3>3, <4>1, <4>2, <4>3
  <2>2. CASE ~empty
    BY <1>7, <1>10, <1>11, <2>2
  <2> QED
    BY <2>1, <2>2
<1>13. Sorted(res.list)
  <2> SUFFICES ASSUME NEW i \in 1..m, NEW j \in 1..m, i < j
               PROVE  res.list[i].count >= res.list[j].count
    BY <1>11 DEF Sorted
  <2>1. i \in 1..n /\ j \in 1..n
    BY <1>7, <1>12
  <2>2. new[i].count >= new[j].count
    BY <1>7, <2>1 DEF Sorted
  <2> QED
    BY <1>12, <2>2
<1>14. ASSUME NEW j \in 1..m
       PROVE  res.list[j].count >= 1 /\ PageSource!Ends(res.list[j]) \subseteq PageSource!Pages
  <2>1. j \in 1..n /\ res.list[j] = new[j]
    BY <1>7, <1>12
  <2>2. CASE j = to
    <3>1. ~empty /\ new[j] = range
      BY <1>7, <1>12, <2>1, <2>2
    <3>2. range.count >= 1
      BY <1>2, <1>9, <3>1 DEF Ranges
    <3> QED
      BY <2>1, <3>1, <3>2 DEF MayInsert
  <2>3. CASE j # to
    <3>1. new[j].count >= 1
      BY <1>7, <2>1, <2>3
    <3>2. From(j, k, to) \in 1..n /\ From(j, k, to) # k
      BY <1>7, <2>1, <2>3, FromPositions
    <3>3. From(j, k, to) \in 1..Len(seq) /\ new[j] = seq[From(j, k, to)]
      BY <1>7, <1>8, <2>1, <2>3, <3>2
    <3> QED
      BY <1>2, <2>1, <3>1, <3>3 DEF SoundList
  <2> QED
    BY <2>2, <2>3
<1>15. ASSUME NEW p \in PageSource!Pages
       PROVE  /\ res.lut[p] \in -1..(m - 1)
              /\ \A j \in 1..m : res.lut[p] = j - 1 <=> p \in PageSource!Ends(res.list[j])
  <2>1. /\ \A j \in 1..n : p \in PageSource!Ends(new[j]) => res.lut[p] = j - 1
        /\ (\A j \in 1..n : p \notin PageSource!Ends(new[j])) => res.lut[p] = -1
    BY <1>5, <1>6, <1>9, <1>10, NewLutSound
  <2>2. empty => PageSource!Ends(new[to]) = {}
    BY <1>7, <1>9 DEF PageSource!Ends
  <2>3. \A j \in 1..n : p \in PageSource!Ends(new[j]) => j \in 1..m
    BY <1>12, <2>2
  <2>4. CASE \E j \in 1..n : p \in PageSource!Ends(new[j])
    <3>1. PICK j \in 1..n : p \in PageSource!Ends(new[j])
      BY <2>4
    <3>2. res.lut[p] = j - 1 /\ j \in 1..m
      BY <2>1, <2>3, <3>1
    <3>3. \A i \in 1..m : p \in PageSource!Ends(res.list[i]) <=> i = j
      BY <1>7, <1>12, <3>1, <3>2
    <3> QED
      BY <1>12, <3>2, <3>3
  <2>5. CASE \A j \in 1..n : p \notin PageSource!Ends(new[j])
    <3>1. res.lut[p] = -1
      BY <2>1, <2>5
    <3>2. \A j \in 1..m : p \notin PageSource!Ends(res.list[j]) /\ j - 1 # -1
      BY <1>7, <1>12, <2>5
    <3> QED
      BY <1>12, <3>1, <3>2
  <2> QED
    BY <2>4, <2>5
<1>16. res.lut = [p \in PageSource!Pages |-> res.lut[p]]
  BY <1>10 DEF NewLut
<1>17. SoundList(res.list, res.lut)
  <2>1. res.lut \in [PageSource!Pages -> -1..(m - 1)]
    BY <1>15, <1>16
  <2> QED
    BY <1>11, <1>12, <1>13, <1>14, <1>15, <2>1 DEF SoundList
<1>18. Members(res.list) = RangeSet(seq, range, at)
  <2>1. ASSUME NEW x \in Members(res.list) PROVE x \in RangeSet(seq, range, at)
    <3>1. PICK j \in 1..m : x = res.list[j]
      BY <1>11 DEF Members
    <3>2. j \in 1..n /\ x = new[j]
      BY <1>7, <1>12, <3>1
    <3>3. CASE j = to
      <4>1. x = range /\ range.count # 0
        BY <1>7, <1>9, <1>12, <3>2, <3>3
      <4> QED
        BY <4>1 DEF RangeSet
    <3>4. CASE j # to
      <4>2. From(j, k, to) \in 1..n /\ From(j, k, to) # k
        BY <1>7, <3>2, <3>4, FromPositions
      <4>3. From(j, k, to) \in 1..Len(seq) /\ x = seq[From(j, k, to)]
        BY <1>7, <1>8, <3>2, <3>4, <4>2
      <4>4. ASSUME at # -1 PROVE x # seq[at + 1]
        <5>1. k = at + 1 /\ k \in 1..Len(seq)
          BY <1>1, <1>7, <1>8, <4>4 DEF OldPosition
        <5>2. new[j].count >= 1
          BY <1>7, <3>2, <3>4
        <5>3. x.index \in PageSource!Ends(x)
          BY <3>2, <5>2 DEF PageSource!Ends
        <5> QED
          BY <1>2, <4>2, <4>3, <5>1, <5>3, EndsDistinct
      <4> QED
        BY <4>3, <4>4 DEF RangeSet, Members
    <3> QED
      BY <3>3, <3>4
  <2>2. ASSUME NEW x \in RangeSet(seq, range, at) PROVE x \in Members(res.list)
    <3>1. CASE x = range /\ range.count # 0
      <4>1. to \in 1..m /\ res.list[to] = x
        BY <1>7, <1>9, <1>12, <3>1
      <4> QED
        BY <1>11, <4>1 DEF Members
    <3>2. CASE x \in Members(seq) /\ (at # -1 => x # seq[at + 1])
      <4>1. PICK i \in 1..Len(seq) : x = seq[i]
        BY <3>2 DEF Members
      <4>2. i # k /\ i \in 1..n
        <5>1. CASE at = -1
          BY <1>1, <1>2, <1>8, <5>1 DEF OldPosition
        <5>2. CASE at # -1
          BY <1>1, <1>2, <1>8, <3>2, <4>1, <5>2 DEF OldPosition
        <5> QED
          BY <5>1, <5>2
      <4>5. n \in Nat /\ k \in 1..n /\ to \in 1..n
        BY <1>7
      <4>6. \A l \in 1..n : l # k => \E j \in 1..n : j # to /\ From(j, k, to) = l
        BY <4>5, FromPositions
      <4>3. PICK j \in 1..n : j # to /\ From(j, k, to) = i
        BY <4>2, <4>6
      <4>4. j \in 1..m /\ res.list[j] = x
        BY <1>7, <1>8, <1>12, <4>1, <4>3
      <4> QED
        BY <1>11, <4>4 DEF Members
    <3> QED
      BY <2>2, <3>1, <3>2 DEF RangeSet
  <2> QED
    BY <2>1, <2>2
<1>19. ASSUME range.count = 0
       PROVE  Len(res.list) = Len(seq) - 1 /\ \A j \in 1..at : res.list[j] = seq[j]
  <2>1. at # -1 /\ n = Len(seq) /\ k = at + 1 /\ to = n /\ m = n - 1
    BY <1>1, <1>2, <1>7, <1>8, <1>9, <1>12, <1>19 DEF MayInsert, OldPosition
  <2>2. ASSUME NEW j \in 1..at PROVE res.list[j] = seq[j]
    <3>1. j \in 1..m /\ j \in 1..n /\ j # to /\ From(j, k, to) = j
      BY <1>2, <1>7, <2>1 DEF From
    <3> QED
      <4>1. res.list[j] = new[j] /\ new[j] = old[j]
        BY <1>7, <1>12, <3>1
      <4>2. j \in 1..Len(seq)
        BY <2>1, <3>1
      <4> QED
        BY <1>8, <4>1, <4>2
  <2> QED
    BY <1>11, <2>1, <2>2
<1> QED
  BY <1>17, <1>18, <1>19 DEF Inserted

-----------------------------------------------------------------------------
(* The search for a size *)

\* The first c ranges have n pages or more, and no others do.
CountOf(n, c) ==
  /\ c \in 0..Len(freeList)
  /\ \A j \in 1..Len(freeList) : freeList[j].count >= n <=> j <= c

\* There is such a number, as the list is sorted.
LEMMA CountExists ==
  ASSUME SoundList(freeList, pageLut), NEW n \in Nat
  PROVE  \E c : CountOf(n, c)
<1>1. PICK L : L = Len(freeList)
  OBVIOUS
<1>2. L \in Nat /\ \A j \in 1..L : freeList[j].count \in Nat
  <2>1. freeList \in Seq(Ranges)
    BY DEF SoundList
  <2>2. L \in Nat /\ \A j \in 1..L : freeList[j] \in Ranges
    BY <1>1, <2>1, LenProperties, ElementOfSeq
  <2> QED
    BY <2>2 DEF Ranges
<1> DEFINE T == {j \in 0..L : j = L \/ freeList[j + 1].count < n}
<1>3. T \in SUBSET Nat /\ L \in T
  BY <1>2
<1>4. T # {}
  BY <1>3
<1> HIDE DEF T
<1>5. PICK c \in T : \A j \in T : c <= j
  BY <1>3, <1>4, NatMin
<1>6. c \in 0..L /\ (c = L \/ freeList[c + 1].count < n)
  BY <1>5 DEF T
<1>7. ASSUME NEW j \in 1..L, j <= c PROVE freeList[j].count >= n
  <2>1. j - 1 \in 0..L /\ j - 1 # L /\ ~(c <= j - 1) /\ (j - 1) + 1 = j
    BY <1>2, <1>6, <1>7
  <2>2. j - 1 \notin T
    BY <1>5, <2>1
  <2> QED
    BY <1>2, <2>1, <2>2 DEF T
<1>8. ASSUME NEW j \in 1..L, j > c PROVE freeList[j].count < n
  <2>1. c + 1 \in 1..L /\ c # L /\ freeList[c + 1].count < n
    BY <1>2, <1>6, <1>8
  <2>2. c + 1 = j \/ c + 1 < j
    BY <1>2, <1>6, <1>8
  <2>3. freeList[j].count <= freeList[c + 1].count
    BY <1>1, <1>2, <2>1, <2>2 DEF SoundList, Sorted
  <2> QED
    BY <1>2, <2>1, <2>3
<1>9. \A j \in 1..L : freeList[j].count >= n <=> j <= c
  BY <1>2, <1>6, <1>7, <1>8
<1> QED
  BY <1>1, <1>6, <1>9 DEF CountOf

\* The bisection returns it within its bounds.
Clamped(c, lo, hi) == IF lo >= hi \/ c < lo THEN lo ELSE IF c > hi THEN hi ELSE c

Bisects(f, n) ==
  f = [lo \in 0..Len(freeList) |->
         [hi \in 0..Len(freeList) |->
            IF lo >= hi THEN lo
            ELSE IF n <= freeList[(lo + hi) \div 2 + 1].count THEN f[(lo + hi) \div 2 + 1][hi]
                 ELSE f[lo][(lo + hi) \div 2]]]

\* What one step of the bisection leaves.
Narrowed(c, lo, hi, mid, n, L) ==
  /\ mid \in lo..(hi - 1) /\ mid + 1 \in 0..L /\ mid \in 0..L
  /\ n <= freeList[mid + 1].count => Clamped(c, lo, hi) = Clamped(c, mid + 1, hi)
  /\ ~(n <= freeList[mid + 1].count) => Clamped(c, lo, hi) = Clamped(c, lo, mid)

\* The bisection goes on with the half that the number is in.
LEMMA ClampStep ==
  ASSUME NEW n \in Nat, NEW c, CountOf(n, c), SoundList(freeList, pageLut),
         NEW L, L = Len(freeList), NEW lo \in 0..L, NEW hi \in 0..L, ~(lo >= hi),
         NEW mid, mid = (lo + hi) \div 2
  PROVE  Narrowed(c, lo, hi, mid, n, L)
<1>2. L \in Nat /\ \A j \in 1..L : freeList[j].count \in Nat
  <2>1. freeList \in Seq(Ranges)
    BY DEF SoundList
  <2>2. L \in Nat /\ \A j \in 1..L : freeList[j] \in Ranges
    BY <2>1, LenProperties, ElementOfSeq
  <2> QED
    BY <2>2 DEF Ranges
<1>3. c \in 0..L /\ \A j \in 1..L : freeList[j].count >= n <=> j <= c
  BY DEF CountOf
<1>4. mid \in lo..(hi - 1) /\ mid + 1 \in 0..L /\ mid \in 0..L /\ mid + 1 \in 1..L
  BY <1>2
<1>5. n <= freeList[mid + 1].count <=> mid + 1 <= c
  BY <1>2, <1>3, <1>4
<1>6. mid + 1 <= c => Clamped(c, lo, hi) = Clamped(c, mid + 1, hi)
  BY <1>2, <1>3, <1>4 DEF Clamped
<1>7. ~(mid + 1 <= c) => Clamped(c, lo, hi) = Clamped(c, lo, mid)
  BY <1>2, <1>3, <1>4 DEF Clamped
<1> QED
  BY <1>4, <1>5, <1>6, <1>7 DEF Narrowed

\* The bisection has a solution,
LEMMA ClampBisects ==
  ASSUME NEW n \in Nat, NEW c, CountOf(n, c), SoundList(freeList, pageLut),
         NEW f, f = [lo \in 0..Len(freeList) |-> [hi \in 0..Len(freeList) |-> Clamped(c, lo, hi)]]
  PROVE  Bisects(f, n)
<1>1. PICK L : L = Len(freeList)
  OBVIOUS
<1>2. \A lo, hi \in 0..L : f[lo][hi] = Clamped(c, lo, hi)
  BY <1>1
<1>3. ASSUME NEW lo \in 0..L, NEW hi \in 0..L, NEW mid, mid = (lo + hi) \div 2
      PROVE  Clamped(c, lo, hi) = IF lo >= hi THEN lo
                                  ELSE IF n <= freeList[mid + 1].count THEN f[mid + 1][hi] ELSE f[lo][mid]
  <2>1. CASE lo >= hi
    BY <2>1 DEF Clamped
  <2>2. CASE ~(lo >= hi)
    <3>1. /\ mid \in lo..(hi - 1) /\ mid + 1 \in 0..L /\ mid \in 0..L
          /\ n <= freeList[mid + 1].count => Clamped(c, lo, hi) = Clamped(c, mid + 1, hi)
          /\ ~(n <= freeList[mid + 1].count) => Clamped(c, lo, hi) = Clamped(c, lo, mid)
      <4>1. Narrowed(c, lo, hi, mid, n, L)
        BY <1>1, <1>3, <2>2, ClampStep, Zenon
      <4> QED
        BY <4>1 DEF Narrowed
    <3>2. f[mid + 1][hi] = Clamped(c, mid + 1, hi) /\ f[lo][mid] = Clamped(c, lo, mid)
      BY <1>2, <3>1
    <3> QED
      BY <2>2, <3>1, <3>2
  <2> QED
    BY <2>1, <2>2
<1> DEFINE e(lo, hi) ==
             IF lo >= hi THEN lo
             ELSE IF n <= freeList[(lo + hi) \div 2 + 1].count THEN f[(lo + hi) \div 2 + 1][hi]
                  ELSE f[lo][(lo + hi) \div 2]
<1>4. \A lo, hi \in 0..L : Clamped(c, lo, hi) = e(lo, hi)
  BY <1>3
<1> HIDE DEF e
<1>5. f = [lo \in 0..L |-> [hi \in 0..L |-> e(lo, hi)]]
  <2>1. \A lo \in 0..L : [hi \in 0..L |-> Clamped(c, lo, hi)] = [hi \in 0..L |-> e(lo, hi)]
    BY <1>4
  <2> QED
    BY <1>1, <2>1
<1> QED
  BY <1>1, <1>5 DEF Bisects, e

\* and no other.
LEMMA BisectsClamped ==
  ASSUME NEW n \in Nat, NEW c, CountOf(n, c), SoundList(freeList, pageLut),
         NEW f, Bisects(f, n), NEW L, L = Len(freeList)
  PROVE  \A lo, hi \in 0..L : f[lo][hi] = Clamped(c, lo, hi)
<1>0. L \in Nat
  BY LenProperties DEF SoundList
<1>1. \A lo, hi \in 0..L :
        f[lo][hi] = IF lo >= hi THEN lo
                    ELSE IF n <= freeList[(lo + hi) \div 2 + 1].count THEN f[(lo + hi) \div 2 + 1][hi]
                         ELSE f[lo][(lo + hi) \div 2]
  BY DEF Bisects
<1> DEFINE Wrong(lo, hi) == f[lo][hi] # Clamped(c, lo, hi)
           T == {d \in 0..L : \E lo, hi \in 0..L : d = hi - lo /\ Wrong(lo, hi)}
<1>2. ASSUME NEW lo \in 0..L, NEW hi \in 0..L, lo >= hi PROVE ~Wrong(lo, hi)
  BY <1>1, <1>2 DEF Clamped
<1>3. ASSUME NEW lo \in 0..L, NEW hi \in 0..L, Wrong(lo, hi) PROVE hi - lo \in T /\ lo < hi
  <2>1. lo < hi
    BY <1>2, <1>3
  <2>2. hi - lo \in 0..L
    BY <1>0, <2>1
  <2> QED
    BY <1>3, <2>1, <2>2
<1> SUFFICES ASSUME T # {} PROVE FALSE
  BY <1>3
<1>4. PICK d \in T : \A e \in T : d <= e
  <2>1. T \in SUBSET Nat
    BY <1>0
  <2> HIDE DEF T
  <2> QED
    BY <2>1, NatMin
<1>5. PICK lo \in 0..L, hi \in 0..L : d = hi - lo /\ Wrong(lo, hi)
  OBVIOUS
<1>6. PICK mid : mid = (lo + hi) \div 2
  OBVIOUS
<1>7. ~(lo >= hi)
  BY <1>2, <1>5
<1>8. /\ mid \in lo..(hi - 1) /\ mid + 1 \in 0..L /\ mid \in 0..L
      /\ n <= freeList[mid + 1].count => Clamped(c, lo, hi) = Clamped(c, mid + 1, hi)
      /\ ~(n <= freeList[mid + 1].count) => Clamped(c, lo, hi) = Clamped(c, lo, mid)
  <2>1. Narrowed(c, lo, hi, mid, n, L)
    BY <1>6, <1>7, ClampStep, Zenon
  <2> QED
    BY <2>1 DEF Narrowed
<1>9. f[lo][hi] = IF n <= freeList[mid + 1].count THEN f[mid + 1][hi] ELSE f[lo][mid]
  BY <1>1, <1>6, <1>7
<1>10. Wrong(mid + 1, hi) \/ Wrong(lo, mid)
  BY <1>5, <1>8, <1>9
<1>11. hi - (mid + 1) \in T \/ mid - lo \in T
  BY <1>3, <1>8, <1>10
<1>12. hi - (mid + 1) < d /\ mid - lo < d
  <2>1. mid \in lo..(hi - 1) /\ d = hi - lo /\ lo \in Int /\ hi \in Int
    BY <1>5, <1>8
  <2> QED
    BY <2>1
<1>13. d <= hi - (mid + 1) \/ d <= mid - lo
  BY <1>4, <1>11
<1> QED
  BY <1>5, <1>8, <1>12, <1>13

\* searchFreeList counts the ranges with n pages or more.
LEMMA SearchCounts ==
  ASSUME SoundList(freeList, pageLut), NEW n \in Nat
  PROVE  CountOf(n, PageSource!SearchFreeList(n))
<1>1. PICK c : CountOf(n, c)
  BY CountExists
<1>2. PICK L : L = Len(freeList)
  OBVIOUS
<1> DEFINE f == CHOOSE g : Bisects(g, n)
<1>3. PageSource!SearchFreeList(n) = f[0][L]
  BY <1>2 DEF PageSource!SearchFreeList, Bisects
<1>4. Bisects(f, n)
  <2>1. \E g : Bisects(g, n)
    <3>1. PICK g : g = [lo \in 0..Len(freeList) |-> [hi \in 0..Len(freeList) |-> Clamped(c, lo, hi)]]
      OBVIOUS
    <3>2. Bisects(g, n)
      BY <1>1, <3>1, ClampBisects
    <3> QED
      BY <3>2
  <2> QED
    BY <2>1, Zenon
<1> HIDE DEF f
<1>5. L \in Nat /\ c \in 0..L
  BY <1>1, <1>2, LenProperties DEF CountOf, SoundList
<1>6. f[0][L] = Clamped(c, 0, L)
  BY <1>1, <1>2, <1>4, <1>5, BisectsClamped
<1>7. Clamped(c, 0, L) = c
  BY <1>5 DEF Clamped
<1> QED
  BY <1>1, <1>3, <1>6, <1>7

-----------------------------------------------------------------------------
(* Chunks and their pages *)

\* The first page of a chunk.
Start(i) == i * ChunkPages

\* What the constants are.
LEMMA PageConstants ==
  /\ ChunkPages \in Nat \ {0} /\ MaxChunks \in Nat \ {0}
  /\ Alignments \subseteq 1..ChunkPages
  /\ \A a \in Alignments : ChunkPages % a = 0
<1>1. PageSource!PageAssumption
  BY DeviceAssumption DEF DeviceAssumption
<1> QED
  BY <1>1 DEF PageSource!PageAssumption

\* A page is in the chunk that begins at or below it,
LEMMA ChunkBounds ==
  ASSUME NEW p \in Nat
  PROVE  /\ PageSource!ChunkOf(p) \in Nat /\ Start(PageSource!ChunkOf(p)) \in Nat
         /\ Start(PageSource!ChunkOf(p)) <= p /\ p < Start(PageSource!ChunkOf(p)) + ChunkPages
         /\ PageSource!Inside(p) <=> p # Start(PageSource!ChunkOf(p))
<1>1. ChunkPages \in Nat \ {0}
  BY PageConstants
<1>2. PICK q, r : q = p \div ChunkPages /\ r = p % ChunkPages
  OBVIOUS
<1>3. q \in Nat /\ r \in 0..(ChunkPages - 1) /\ p = ChunkPages * q + r
  BY <1>1, <1>2
<1>4. Start(q) = ChunkPages * q /\ ChunkPages * q \in Nat
  BY <1>1, <1>3 DEF Start
<1>5. PageSource!ChunkOf(p) = q /\ (PageSource!Inside(p) <=> r # 0)
  BY <1>2 DEF PageSource!ChunkOf, PageSource!Inside
<1>6. PICK m : m = ChunkPages * q
  OBVIOUS
<1> QED
  BY <1>1, <1>3, <1>4, <1>5, <1>6

\* and in no other.
LEMMA ChunkUnique ==
  ASSUME NEW i \in Nat, NEW p \in Nat, Start(i) <= p, p < Start(i) + ChunkPages
  PROVE  PageSource!ChunkOf(p) = i
<1>1. ChunkPages \in Nat \ {0}
  BY PageConstants
<1>2. PICK s : s = i * ChunkPages
  OBVIOUS
<1>3. s \in Nat /\ Start(i) = s
  BY <1>1, <1>2 DEF Start
<1>4. p - s \in 0..(ChunkPages - 1) /\ (p - s) + i * ChunkPages = p
  BY <1>1, <1>2, <1>3
<1>5. PICK j \in 0..(ChunkPages - 1) : j + i * ChunkPages = p
  BY <1>4
<1>6. (j + i * ChunkPages) \div ChunkPages = i
  BY <1>1, DivisionUnique
<1> QED
  BY <1>5, <1>6 DEF PageSource!ChunkOf

\* Where chunks begin.
LEMMA Starts ==
  ASSUME NEW i \in Nat
  PROVE  /\ Start(i) \in Nat /\ Start(i + 1) = Start(i) + ChunkPages
         /\ PageSource!ChunkOf(Start(i)) = i /\ ~PageSource!Inside(Start(i))
         /\ i < MaxChunks => Start(i) + ChunkPages <= MaxChunks * ChunkPages
<1>1. ChunkPages \in Nat \ {0} /\ MaxChunks \in Nat \ {0}
  BY PageConstants
<1>2. Start(i) \in Nat /\ Start(i + 1) = Start(i) + ChunkPages
  BY <1>1 DEF Start
<1>3. PageSource!ChunkOf(Start(i)) = i
  BY <1>1, <1>2, ChunkUnique
<1>4. ~PageSource!Inside(Start(i))
  BY <1>2, <1>3, ChunkBounds
<1>5. ASSUME i < MaxChunks PROVE Start(i) + ChunkPages <= MaxChunks * ChunkPages
  <2>1. PICK d \in Nat : MaxChunks = (i + 1) + d
    <3>1. MaxChunks - (i + 1) \in Nat /\ MaxChunks = (i + 1) + (MaxChunks - (i + 1))
      BY <1>1, <1>5
    <3> QED
      BY <3>1
  <2>2. MaxChunks * ChunkPages = (i + 1) * ChunkPages + d * ChunkPages /\ d * ChunkPages >= 0
    BY <1>1, <2>1
  <2> QED
    BY <1>1, <1>2, <2>2 DEF Start
<1> QED
  BY <1>2, <1>3, <1>4, <1>5

-----------------------------------------------------------------------------
(* The ranges of pages *)

\* A range is within its chunk, of which size[i] pages are in use.
Within(r, size) ==
  /\ r \in Ranges /\ r.count >= 1
  /\ PageSource!ChunkOf(r.index) \in DOMAIN size
  /\ r.index + r.count <= Start(PageSource!ChunkOf(r.index)) + size[PageSource!ChunkOf(r.index)]

\* No two ranges share a page,
Disjoint(R) ==
  \A r, s \in R, p \in Nat :
    p \in PageSource!PagesOf(r) /\ p \in PageSource!PagesOf(s) => r = s

\* and every page of a chunk is in one of them.
Covers(R, size) ==
  \A i \in DOMAIN size, p \in Nat :
    Start(i) <= p /\ p < Start(i) + size[i] => \E r \in R : p \in PageSource!PagesOf(r)

Partition(R, size) == (\A r \in R : Within(r, size)) /\ Disjoint(R) /\ Covers(R, size)

\* No two free ranges touch, unless they are of different chunks.
Apart(F) == \A r, s \in F : r.index + r.count = s.index => ~PageSource!Inside(s.index)

\* The pages of a range.
LEMMA PagesAre ==
  ASSUME NEW r \in Ranges
  PROVE  /\ r.index \in Nat /\ r.count \in Nat
         /\ \A p : p \in PageSource!PagesOf(r) <=> p \in Nat /\ r.index <= p /\ p < r.index + r.count
         /\ \A p \in PageSource!Ends(r) : p \in PageSource!PagesOf(r)
         /\ r.count >= 1 => /\ r.index \in PageSource!Ends(r)
                            /\ r.index + r.count - 1 \in PageSource!Ends(r)
<1>1. r.index \in Nat /\ r.count \in Nat
  BY DEF Ranges
<1>2. \A p : p \in PageSource!PagesOf(r) <=> p \in Nat /\ r.index <= p /\ p < r.index + r.count
  BY <1>1 DEF PageSource!PagesOf
<1>3. ASSUME NEW p \in PageSource!Ends(r) PROVE p \in PageSource!PagesOf(r)
  BY <1>1, <1>2, <1>3 DEF PageSource!Ends
<1> QED
  BY <1>1, <1>2, <1>3 DEF PageSource!Ends

\* Ranges may be replaced by others of the same pages.
LEMMA Repartition ==
  ASSUME NEW R, NEW size, Partition(R, size), NEW Old, Old \subseteq R, NEW New,
         \A r \in New : Within(r, size), Disjoint(New),
         \A p \in Nat : (\E r \in Old : p \in PageSource!PagesOf(r))
                          <=> (\E r \in New : p \in PageSource!PagesOf(r))
  PROVE  Partition((R \ Old) \union New, size)
<1> DEFINE U == (R \ Old) \union New
<1>1. \A r \in U : Within(r, size)
  BY DEF Partition
<1>2. Disjoint(U)
  <2> SUFFICES ASSUME NEW r \in U, NEW s \in U, NEW p \in Nat, p \in PageSource!PagesOf(r),
                      p \in PageSource!PagesOf(s)
               PROVE  r = s
    BY DEF Disjoint
  <2>1. CASE r \in R \ Old /\ s \in R \ Old
    BY <2>1 DEF Partition, Disjoint
  <2>2. CASE r \in New /\ s \in New
    BY <2>2 DEF Disjoint
  <2>3. ASSUME NEW x \in R \ Old, NEW y \in New, p \in PageSource!PagesOf(x), p \in PageSource!PagesOf(y)
        PROVE  FALSE
    <3>1. PICK o \in Old : p \in PageSource!PagesOf(o)
      BY <2>3
    <3>2. o = x
      BY <2>3, <3>1 DEF Partition, Disjoint
    <3> QED
      BY <3>2
  <2> QED
    BY <2>1, <2>2, <2>3
<1>3. Covers(U, size)
  <2> SUFFICES ASSUME NEW i \in DOMAIN size, NEW p \in Nat, Start(i) <= p, p < Start(i) + size[i]
               PROVE  \E r \in U : p \in PageSource!PagesOf(r)
    BY DEF Covers
  <2>1. PICK r \in R : p \in PageSource!PagesOf(r)
    BY DEF Partition, Covers
  <2> QED
    BY <2>1
<1> QED
  BY <1>1, <1>2, <1>3 DEF Partition

\* The chunks are at most MaxChunks, of at most ChunkPages pages.
GoodSizes(size) ==
  DOMAIN size \subseteq 0..(MaxChunks - 1) /\ \A i \in DOMAIN size : size[i] \in 0..ChunkPages

\* The pages of a range are of its chunk.
LEMMA RangeChunk ==
  ASSUME NEW size, GoodSizes(size), NEW r, Within(r, size), NEW i, i = PageSource!ChunkOf(r.index)
  PROVE  /\ i \in DOMAIN size /\ i \in Nat /\ i < MaxChunks
         /\ Start(i) \in Nat /\ size[i] \in 0..ChunkPages
         /\ r.index \in Nat /\ r.count \in Nat \ {0}
         /\ Start(i) <= r.index /\ r.index + r.count <= Start(i) + size[i]
         /\ r.index + r.count <= MaxChunks * ChunkPages
<1>1. ChunkPages \in Nat \ {0} /\ MaxChunks \in Nat \ {0}
  BY PageConstants
<1>2. i \in DOMAIN size /\ i \in Nat /\ i < MaxChunks /\ size[i] \in 0..ChunkPages
  BY <1>1 DEF GoodSizes, Within
<1>3. r.index \in Nat /\ r.count \in Nat \ {0}
  BY DEF Within, Ranges
<1>4. Start(i) \in Nat /\ Start(i) <= r.index
  BY <1>3, ChunkBounds
<1>5. r.index + r.count <= Start(i) + size[i]
  BY DEF Within
<1>6. Start(i) + ChunkPages <= MaxChunks * ChunkPages
  BY <1>2, Starts
<1>7. MaxChunks * ChunkPages \in Nat
  BY <1>1
<1>8. PICK m : m = MaxChunks * ChunkPages
  OBVIOUS
<1>9. r.index + r.count <= m
  BY <1>1, <1>2, <1>3, <1>4, <1>5, <1>6, <1>7, <1>8
<1> QED
  BY <1>2, <1>3, <1>4, <1>5, <1>8, <1>9

\* A page of a range is of its chunk.
LEMMA PageChunk ==
  ASSUME NEW size, GoodSizes(size), NEW r, Within(r, size), NEW p \in PageSource!PagesOf(r)
  PROVE  p \in PageSource!Pages /\ PageSource!ChunkOf(p) = PageSource!ChunkOf(r.index)
<1>1. PICK i : i = PageSource!ChunkOf(r.index)
  OBVIOUS
<1>2. /\ i \in DOMAIN size /\ i \in Nat /\ i < MaxChunks
      /\ Start(i) \in Nat /\ size[i] \in 0..ChunkPages
      /\ r.index \in Nat /\ r.count \in Nat \ {0}
      /\ Start(i) <= r.index /\ r.index + r.count <= Start(i) + size[i]
      /\ r.index + r.count <= MaxChunks * ChunkPages
  BY <1>1, RangeChunk
<1>3. p \in Nat /\ r.index <= p /\ p < r.index + r.count
  BY PagesAre DEF Within
<1>4. ChunkPages \in Nat \ {0} /\ MaxChunks * ChunkPages \in Nat
  BY PageConstants
<1>5. Start(i) <= p /\ p < Start(i) + ChunkPages
  BY <1>2, <1>3, <1>4
<1>6. PageSource!ChunkOf(p) = i
  BY <1>2, <1>3, <1>5, ChunkUnique
<1>7. PICK m : m = MaxChunks * ChunkPages
  OBVIOUS
<1>8. p \in 0..(m - 1)
  BY <1>2, <1>3, <1>4, <1>7
<1> QED
  BY <1>1, <1>6, <1>7, <1>8 DEF PageSource!Pages

\* A range that lies in another one is of its chunk as well.
LEMMA PartWithin ==
  ASSUME NEW size, GoodSizes(size), NEW r, Within(r, size), NEW x \in Ranges, x.count >= 1,
         r.index <= x.index, x.index + x.count <= r.index + r.count
  PROVE  Within(x, size) /\ PageSource!ChunkOf(x.index) = PageSource!ChunkOf(r.index)
<1>1. r \in Ranges
  BY DEF Within
<1>2. r.index \in Nat /\ r.count \in Nat /\ x.index \in Nat /\ x.count \in Nat
  BY <1>1 DEF Ranges
<1>3. x.index \in PageSource!PagesOf(r)
  BY <1>1, <1>2, PagesAre
<1>4. PageSource!ChunkOf(x.index) = PageSource!ChunkOf(r.index)
  BY <1>3, PageChunk
<1>5. PICK i : i = PageSource!ChunkOf(r.index)
  OBVIOUS
<1>6. Start(i) \in Nat /\ size[i] \in 0..ChunkPages /\ i \in DOMAIN size
      /\ r.index + r.count <= Start(i) + size[i]
  BY <1>5, RangeChunk
<1>7. ChunkPages \in Nat
  BY PageConstants
<1>8. x.index + x.count <= Start(i) + size[i]
  BY <1>2, <1>6, <1>7
<1> QED
  BY <1>4, <1>5, <1>6, <1>8 DEF Within

\* Where a range ends, and its chunk does not, the next one begins.
LEMMA NextRange ==
  ASSUME NEW size, GoodSizes(size), NEW R, Partition(R, size), NEW r \in R,
         NEW i, i = PageSource!ChunkOf(r.index), r.index + r.count < Start(i) + size[i]
  PROVE  \E s \in R : s.index = r.index + r.count /\ PageSource!Inside(s.index)
<1>1. PICK q : q = r.index + r.count
  OBVIOUS
<1>2. Within(r, size)
  BY DEF Partition
<1>3. /\ i \in DOMAIN size /\ i \in Nat /\ Start(i) \in Nat /\ size[i] \in 0..ChunkPages
      /\ r.index \in Nat /\ r.count \in Nat \ {0} /\ Start(i) <= r.index
  BY <1>2, RangeChunk
<1>4. ChunkPages \in Nat
  BY PageConstants
<1>5. q \in Nat /\ Start(i) < q /\ q < Start(i) + size[i] /\ q < Start(i) + ChunkPages
  BY <1>1, <1>3, <1>4
<1>6. PICK s \in R : q \in PageSource!PagesOf(s)
  <2>1. Start(i) <= q
    BY <1>3, <1>5
  <2> QED
    BY <1>3, <1>5, <2>1 DEF Partition, Covers
<1>7. s \in Ranges /\ r \in Ranges
  BY DEF Partition, Within
<1>8. s.index \in Nat /\ s.index <= q /\ q < s.index + s.count
  BY <1>6, <1>7, PagesAre
<1>9. s.index = q
  <2> SUFFICES ASSUME s.index < q PROVE FALSE
    BY <1>5, <1>8
  <2>1. s.count \in Nat
    BY <1>7, PagesAre
  <2>2. q - 1 \in Nat /\ q - 1 \in PageSource!PagesOf(s) /\ q - 1 \in PageSource!PagesOf(r)
    BY <1>1, <1>3, <1>5, <1>7, <1>8, <2>1, PagesAre
  <2>3. s = r
    BY <2>2 DEF Partition, Disjoint
  <2> QED
    BY <1>1, <1>5, <1>8, <2>3
<1>10. PageSource!ChunkOf(q) = i
  <2>1. Start(i) <= q
    BY <1>3, <1>5
  <2> QED
    BY <1>3, <1>5, <2>1, ChunkUnique
<1>11. PageSource!Inside(q)
  BY <1>3, <1>5, <1>10, ChunkBounds
<1> QED
  BY <1>1, <1>9, <1>11

\* The allocations and the free ranges share the pages of the chunks out.
PageSets(A, F, size) == Partition(A \union F, size) /\ A \intersect F = {} /\ Apart(F)

\* What is left of a range at either side of a part of it.
PartBefore(r, x) == [index |-> r.index, count |-> x.index - r.index]
PartAfter(r, x) == [index |-> x.index + x.count, count |-> r.index + r.count - (x.index + x.count)]
Pieces(r, x) == {y \in {PartBefore(r, x), PartAfter(r, x)} : y.count # 0}

PartOf(x, r) ==
  x \in Ranges /\ x.count >= 1 /\ r.index <= x.index /\ x.index + x.count <= r.index + r.count

\* The pieces are ranges inside of the range,
LEMMA PiecesWithin ==
  ASSUME NEW size, GoodSizes(size), NEW r, Within(r, size), NEW x, PartOf(x, r)
  PROVE  /\ PartBefore(r, x) \in Ranges /\ PartAfter(r, x) \in Ranges
         /\ \A y \in {x} \union Pieces(r, x) : Within(y, size)
<1>1. r.index \in Nat /\ r.count \in Nat /\ x.index \in Nat /\ x.count \in Nat /\ r \in Ranges
  BY DEF Within, PartOf, Ranges
<1>2. PartBefore(r, x) \in Ranges /\ PartAfter(r, x) \in Ranges
  BY <1>1 DEF PartBefore, PartAfter, Ranges, PartOf
<1>3. ASSUME NEW y \in {x} \union Pieces(r, x) PROVE Within(y, size)
  <2>1. /\ y \in Ranges /\ y.count >= 1 /\ r.index <= y.index
        /\ y.index + y.count <= r.index + r.count
    <3>1. CASE y = x
      BY <3>1 DEF PartOf
    <3>2. CASE y = PartBefore(r, x) /\ y.count # 0
      BY <1>1, <1>2, <3>2 DEF PartBefore, PartOf
    <3>3. CASE y = PartAfter(r, x) /\ y.count # 0
      BY <1>1, <1>2, <3>3 DEF PartAfter, PartOf
    <3> QED
      BY <1>3, <3>1, <3>2, <3>3 DEF Pieces
  <2> QED
    BY <2>1, PartWithin
<1> QED
  BY <1>2, <1>3

\* have its pages,
LEMMA PiecesPages ==
  ASSUME NEW r \in Ranges, NEW x, PartOf(x, r), NEW p \in Nat
  PROVE  p \in PageSource!PagesOf(r) <=> \E y \in {x} \union Pieces(r, x) : p \in PageSource!PagesOf(y)
<1>1. r.index \in Nat /\ r.count \in Nat /\ x.index \in Nat /\ x.count \in Nat /\ x \in Ranges
  BY DEF PartOf, Ranges
<1>2. PartBefore(r, x) \in Ranges /\ PartAfter(r, x) \in Ranges
  BY <1>1 DEF PartBefore, PartAfter, Ranges, PartOf
<1>3. p \in PageSource!PagesOf(r) <=> r.index <= p /\ p < r.index + r.count
  BY PagesAre
<1>4. p \in PageSource!PagesOf(x) <=> x.index <= p /\ p < x.index + x.count
  BY <1>1, PagesAre
<1>5. p \in PageSource!PagesOf(PartBefore(r, x)) <=> r.index <= p /\ p < x.index
  <2>1. p \in PageSource!PagesOf(PartBefore(r, x)) <=>
          PartBefore(r, x).index <= p /\ p < PartBefore(r, x).index + PartBefore(r, x).count
    BY <1>2, PagesAre
  <2>2. PartBefore(r, x).index = r.index /\ PartBefore(r, x).index + PartBefore(r, x).count = x.index
    BY <1>1 DEF PartBefore
  <2> QED
    BY <2>1, <2>2
<1>6. p \in PageSource!PagesOf(PartAfter(r, x)) <=> x.index + x.count <= p /\ p < r.index + r.count
  <2>1. p \in PageSource!PagesOf(PartAfter(r, x)) <=>
          PartAfter(r, x).index <= p /\ p < PartAfter(r, x).index + PartAfter(r, x).count
    BY <1>2, PagesAre
  <2>2. /\ PartAfter(r, x).index = x.index + x.count
        /\ PartAfter(r, x).index + PartAfter(r, x).count = r.index + r.count
    BY <1>1 DEF PartAfter
  <2> QED
    BY <2>1, <2>2
<1>7. PartBefore(r, x).count = 0 => ~(r.index <= p /\ p < x.index)
  BY <1>1 DEF PartBefore
<1>8. PartAfter(r, x).count = 0 => ~(x.index + x.count <= p /\ p < r.index + r.count)
  BY <1>1 DEF PartAfter
<1>9. (\E y \in {x} \union Pieces(r, x) : p \in PageSource!PagesOf(y)) <=>
        \/ p \in PageSource!PagesOf(x)
        \/ p \in PageSource!PagesOf(PartBefore(r, x)) \/ p \in PageSource!PagesOf(PartAfter(r, x))
  BY <1>5, <1>6, <1>7, <1>8 DEF Pieces
<1>10. r.index <= x.index /\ x.index + x.count <= r.index + r.count
  BY DEF PartOf
<1> QED
  BY <1>1, <1>3, <1>4, <1>5, <1>6, <1>9, <1>10

\* and are disjoint.
LEMMA PiecesDisjoint ==
  ASSUME NEW r \in Ranges, NEW x, PartOf(x, r)
  PROVE  Disjoint({x} \union Pieces(r, x))
<1>1. r.index \in Nat /\ r.count \in Nat /\ x.index \in Nat /\ x.count \in Nat /\ x \in Ranges
  BY DEF PartOf, Ranges
<1>2. PartBefore(r, x) \in Ranges /\ PartAfter(r, x) \in Ranges
  BY <1>1 DEF PartBefore, PartAfter, Ranges, PartOf
<1> SUFFICES ASSUME NEW y \in {x} \union Pieces(r, x), NEW z \in {x} \union Pieces(r, x),
                    NEW p \in Nat, p \in PageSource!PagesOf(y), p \in PageSource!PagesOf(z)
             PROVE  y = z
  BY DEF Disjoint
<1>3. p \in PageSource!PagesOf(x) => x.index <= p /\ p < x.index + x.count
  BY <1>1, PagesAre
<1>5. p \in PageSource!PagesOf(PartBefore(r, x)) => p < x.index
  <2>1. p \in PageSource!PagesOf(PartBefore(r, x)) => p < PartBefore(r, x).index + PartBefore(r, x).count
    BY <1>2, PagesAre
  <2>2. PartBefore(r, x).index + PartBefore(r, x).count = x.index
    BY <1>1 DEF PartBefore
  <2> QED
    BY <2>1, <2>2
<1>6. p \in PageSource!PagesOf(PartAfter(r, x)) => x.index + x.count <= p
  <2>1. p \in PageSource!PagesOf(PartAfter(r, x)) => PartAfter(r, x).index <= p
    BY <1>2, PagesAre
  <2>2. PartAfter(r, x).index = x.index + x.count
    BY <1>1 DEF PartAfter
  <2> QED
    BY <2>1, <2>2
<1>7. /\ y = x \/ y = PartBefore(r, x) \/ y = PartAfter(r, x)
      /\ z = x \/ z = PartBefore(r, x) \/ z = PartAfter(r, x)
  BY DEF Pieces
<1> QED
  BY <1>1, <1>3, <1>5, <1>6, <1>7

\* Replacing a range by the part of it that a caller gets and the rest.
LEMMA SplitRange ==
  ASSUME NEW size, GoodSizes(size), NEW R, Partition(R, size), NEW r \in R, NEW x, PartOf(x, r)
  PROVE  Partition((R \ {r}) \union ({x} \union Pieces(r, x)), size)
<1>1. Within(r, size) /\ r \in Ranges
  BY DEF Partition, Within
<1>2. PICK New : New = {x} \union Pieces(r, x)
  OBVIOUS
<1>3. \A y \in New : Within(y, size)
  BY <1>1, <1>2, PiecesWithin
<1>4. Disjoint(New)
  BY <1>1, <1>2, PiecesDisjoint
<1>5. \A p \in Nat : (\E o \in {r} : p \in PageSource!PagesOf(o))
                       <=> (\E y \in New : p \in PageSource!PagesOf(y))
  BY <1>1, <1>2, PiecesPages
<1>6. {r} \subseteq R
  OBVIOUS
<1> QED
  BY <1>2, <1>3, <1>4, <1>5, <1>6, Repartition

\* Giving a part of a free range to a caller leaves everything shared out.
LEMMA AllocSets ==
  ASSUME NEW size, GoodSizes(size), NEW A, NEW F, PageSets(A, F, size), NEW r \in F,
         NEW x, PartOf(x, r)
  PROVE  PageSets(A \union {x}, (F \ {r}) \union Pieces(r, x), size)
<1> DEFINE A2 == A \union {x}
           F2 == (F \ {r}) \union Pieces(r, x)
<1>1. Partition(A \union F, size) /\ A \intersect F = {} /\ Apart(F) /\ r \in A \union F /\ r \notin A
  BY DEF PageSets
<1>2. r \in Ranges /\ Within(r, size) /\ \A y \in A \union F : y \in Ranges /\ y.count >= 1
  BY <1>1 DEF Partition, Within
<1>3. r.index \in Nat /\ r.count \in Nat /\ x.index \in Nat /\ x.count \in Nat /\ x \in Ranges
      /\ r.count >= 1 /\ x.count >= 1 /\ r.index <= x.index /\ x.index + x.count <= r.index + r.count
  BY <1>2 DEF PartOf, Ranges
<1>4. PartBefore(r, x) \in Ranges /\ PartAfter(r, x) \in Ranges
      /\ \A y \in {x} \union Pieces(r, x) : Within(y, size)
  BY <1>2, PiecesWithin
<1>5. /\ PartBefore(r, x).index = r.index /\ PartBefore(r, x).index + PartBefore(r, x).count = x.index
      /\ PartAfter(r, x).index = x.index + x.count
      /\ PartAfter(r, x).index + PartAfter(r, x).count = r.index + r.count
  BY <1>3 DEF PartBefore, PartAfter
<1>6. Partition(A2 \union F2, size)
  <2>1. A2 \union F2 = ((A \union F) \ {r}) \union ({x} \union Pieces(r, x))
    BY <1>1
  <2>2. Partition(((A \union F) \ {r}) \union ({x} \union Pieces(r, x)), size)
    BY <1>1, SplitRange
  <2> QED
    BY <2>1, <2>2
<1>7. \A y \in Pieces(r, x) : y.count >= 1 /\ (y = PartBefore(r, x) \/ y = PartAfter(r, x))
  BY <1>4 DEF Pieces, Within
<1>8. ASSUME NEW y \in A \union F, y \in {x} \union Pieces(r, x) PROVE y = r
  <2>1. y \in Ranges /\ y.index \in PageSource!PagesOf(y)
    BY <1>2, PagesAre
  <2>2. y.index \in Nat
    BY <2>1 DEF Ranges
  <2>3. y.index \in PageSource!PagesOf(r)
    BY <1>2, <1>8, <2>1, <2>2, PiecesPages
  <2> QED
    BY <1>1, <2>1, <2>2, <2>3 DEF Partition, Disjoint
<1>9. x \notin F2
  <2>1. x \in F => x = r
    BY <1>8
  <2>2. x # PartBefore(r, x)
    BY <1>3, <1>5
  <2>3. x # PartAfter(r, x)
    BY <1>3, <1>5
  <2> QED
    BY <1>7, <2>1, <2>2, <2>3
<1>10. A2 \intersect F2 = {}
  <2>1. \A y \in A : y \notin F2
    BY <1>1, <1>8
  <2> QED
    BY <1>9, <2>1
<1>11. ASSUME NEW y \in F2, NEW p \in Nat, p \in PageSource!PagesOf(y), p \in PageSource!PagesOf(x)
       PROVE  FALSE
  <2>1. y \in A2 \union F2 /\ x \in A2 \union F2
    OBVIOUS
  <2>2. y = x
    BY <1>6, <1>11, <2>1 DEF Partition, Disjoint
  <2> QED
    BY <1>9, <2>2
<1>12. Apart(F2)
  <2> SUFFICES ASSUME NEW y \in F2, NEW z \in F2, y.index + y.count = z.index
               PROVE  ~PageSource!Inside(z.index)
    BY DEF Apart
  <2>1. Within(y, size) /\ Within(z, size)
    BY <1>6 DEF Partition
  <2>2. /\ y \in Ranges /\ z \in Ranges /\ y.index \in Nat /\ z.index \in Nat
        /\ y.count \in Nat \ {0} /\ z.count \in Nat \ {0}
    BY <2>1 DEF Within, Ranges
  <2>3. z.index # x.index
    <3> SUFFICES ASSUME z.index = x.index PROVE FALSE
      OBVIOUS
    <3>1. z.index \in PageSource!PagesOf(z) /\ z.index \in PageSource!PagesOf(x)
      BY <1>3, <2>2, PagesAre
    <3> QED
      BY <1>11, <2>2, <3>1
  <2>4. z # PartAfter(r, x)
    <3> SUFFICES ASSUME z = PartAfter(r, x) PROVE FALSE
      OBVIOUS
    <3>1. PICK p : p = z.index - 1
      OBVIOUS
    <3>2. p \in Nat /\ y.index <= p /\ p < y.index + y.count /\ x.index <= p /\ p < x.index + x.count
      BY <1>3, <1>5, <2>2, <3>1
    <3>3. p \in PageSource!PagesOf(y) /\ p \in PageSource!PagesOf(x)
      BY <1>3, <2>2, <3>2, PagesAre
    <3> QED
      BY <1>11, <3>2, <3>3
  <2>5. y # PartBefore(r, x)
    BY <1>5, <2>3
  <2>6. (y \in F \ {r} \/ y = PartAfter(r, x)) /\ (z \in F \ {r} \/ z = PartBefore(r, x))
    BY <1>7, <2>4, <2>5
  <2>7. ~(y = PartAfter(r, x) /\ z = PartBefore(r, x))
    BY <1>3, <1>5
  <2>8. CASE y \in F \ {r} /\ z \in F \ {r}
    BY <1>1, <2>8 DEF Apart
  <2>9. CASE y = PartAfter(r, x) /\ z \in F \ {r}
    <3>1. r.index + r.count = z.index
      BY <1>5, <2>9
    <3> QED
      BY <1>1, <2>9, <3>1 DEF Apart
  <2>10. CASE y \in F \ {r} /\ z = PartBefore(r, x)
    <3>1. y.index + y.count = r.index /\ z.index = r.index
      BY <1>5, <2>10
    <3> QED
      BY <1>1, <2>10, <3>1 DEF Apart
  <2> QED
    BY <2>6, <2>7, <2>8, <2>9, <2>10
<1> QED
  BY <1>6, <1>10, <1>12 DEF PageSets

-----------------------------------------------------------------------------
(* Ranges that are given back *)

\* A page that does not begin a chunk follows one of its chunk.
LEMMA PageBefore ==
  ASSUME NEW p \in Nat, PageSource!Inside(p)
  PROVE  p - 1 \in Nat /\ PageSource!ChunkOf(p - 1) = PageSource!ChunkOf(p)
<1>1. PICK i : i = PageSource!ChunkOf(p)
  OBVIOUS
<1>2. ChunkPages \in Nat \ {0}
  BY PageConstants
<1>3. i \in Nat /\ Start(i) \in Nat /\ Start(i) <= p /\ p < Start(i) + ChunkPages /\ p # Start(i)
  BY <1>1, ChunkBounds
<1>4. p - 1 \in Nat /\ Start(i) <= p - 1 /\ p - 1 < Start(i) + ChunkPages
  BY <1>2, <1>3
<1> QED
  BY <1>1, <1>3, <1>4, ChunkUnique

\* The free range to the left of r, if there is one, and where the merged one begins.
FreeLeft(P, F, r, first) ==
  \/ /\ P = {} /\ first = r.index
     /\ \A y \in F : y.index + y.count = r.index => ~PageSource!Inside(r.index)
  \/ \E x \in F : /\ P = {x} /\ first = x.index
                  /\ x.index + x.count = r.index /\ PageSource!Inside(r.index)

\* The one to the right, and where the merged one ends.
FreeRight(N, F, r, last) ==
  \/ /\ N = {} /\ last = r.index + r.count
     /\ \A y \in F : y.index = r.index + r.count => ~PageSource!Inside(y.index)
  \/ \E x \in F : /\ N = {x} /\ last = x.index + x.count
                  /\ x.index = r.index + r.count /\ PageSource!Inside(x.index)

\* What the merged range has of the left one and of the right one.
LeftPart(P, F, r, first) ==
  /\ first \in Nat /\ first <= r.index /\ P \subseteq F
  /\ PageSource!ChunkOf(first) = PageSource!ChunkOf(r.index)
  /\ \A p \in Nat : (\E y \in P : p \in PageSource!PagesOf(y)) <=> first <= p /\ p < r.index

RightPart(N, F, r, last, bound) ==
  /\ last \in Nat /\ r.index + r.count <= last /\ last <= bound /\ N \subseteq F
  /\ \A p \in Nat : (\E y \in N : p \in PageSource!PagesOf(y)) <=> r.index + r.count <= p /\ p < last

Merges(P, N, F, r, first, last, x, size) ==
  /\ first \in Nat /\ last \in Nat /\ first <= r.index /\ r.index + r.count <= last
  /\ Within(x, size) /\ P \subseteq F /\ N \subseteq F
  /\ \A p \in Nat : (\E y \in {r} \union P \union N : p \in PageSource!PagesOf(y))
                      <=> p \in PageSource!PagesOf(x)

\* The merged range is in the chunk and has the pages of the three.
LEMMA MergedRange ==
  ASSUME NEW size, GoodSizes(size), NEW F, NEW r, Within(r, size), \A y \in F : Within(y, size),
         NEW P, NEW N, NEW first, NEW last, FreeLeft(P, F, r, first), FreeRight(N, F, r, last),
         NEW x, x = [index |-> first, count |-> last - first]
  PROVE  Merges(P, N, F, r, first, last, x, size)
<1>1. PICK i : i = PageSource!ChunkOf(r.index)
  OBVIOUS
<1>2. /\ i \in DOMAIN size /\ i \in Nat /\ Start(i) \in Nat /\ size[i] \in 0..ChunkPages
      /\ r.index \in Nat /\ r.count \in Nat \ {0} /\ Start(i) <= r.index
      /\ r.index + r.count <= Start(i) + size[i] /\ r \in Ranges
  BY <1>1, RangeChunk DEF Within
<1>3. ChunkPages \in Nat
  BY PageConstants
<1>9. LeftPart(P, F, r, first)
  <2>1. CASE P = {} /\ first = r.index
    BY <1>1, <1>2, <2>1 DEF LeftPart
  <2>2. ASSUME NEW y \in F, P = {y}, first = y.index, y.index + y.count = r.index,
               PageSource!Inside(r.index)
        PROVE  LeftPart(P, F, r, first)
    <3>1. y \in Ranges /\ y.index \in Nat /\ y.count \in Nat \ {0}
      BY DEF Within, Ranges
    <3>2. r.index - 1 \in Nat /\ y.index <= r.index - 1 /\ r.index - 1 < y.index + y.count
      BY <1>2, <2>2, <3>1
    <3>3. r.index - 1 \in PageSource!PagesOf(y)
      BY <3>1, <3>2, PagesAre
    <3>4. PageSource!ChunkOf(r.index - 1) = PageSource!ChunkOf(y.index)
      BY <3>3, PageChunk
    <3>5. PageSource!ChunkOf(r.index - 1) = i
      BY <1>1, <1>2, <2>2, PageBefore
    <3>6. \A p \in Nat : p \in PageSource!PagesOf(y) <=> first <= p /\ p < r.index
      BY <2>2, <3>1, PagesAre
    <3> QED
      BY <1>1, <1>2, <2>2, <3>1, <3>4, <3>5, <3>6 DEF LeftPart
  <2> QED
    BY <2>1, <2>2 DEF FreeLeft
<1>4. /\ first \in Nat /\ first <= r.index /\ PageSource!ChunkOf(first) = i /\ P \subseteq F
      /\ \A p \in Nat : (\E y \in P : p \in PageSource!PagesOf(y)) <=> first <= p /\ p < r.index
  BY <1>1, <1>9 DEF LeftPart
<1>10. RightPart(N, F, r, last, Start(i) + size[i])
  <2>1. CASE N = {} /\ last = r.index + r.count
    BY <1>2, <2>1 DEF RightPart
  <2>2. ASSUME NEW y \in F, N = {y}, last = y.index + y.count, y.index = r.index + r.count,
               PageSource!Inside(y.index)
        PROVE  RightPart(N, F, r, last, Start(i) + size[i])
    <3>1. y \in Ranges /\ y.index \in Nat /\ y.count \in Nat \ {0}
      BY DEF Within, Ranges
    <3>2. y.index - 1 \in Nat /\ r.index <= y.index - 1 /\ y.index - 1 < r.index + r.count
      BY <1>2, <2>2, <3>1
    <3>3. y.index - 1 \in PageSource!PagesOf(r)
      BY <1>2, <3>2, PagesAre
    <3>4. PageSource!ChunkOf(y.index - 1) = i
      BY <1>1, <3>3, PageChunk
    <3>5. PageSource!ChunkOf(y.index - 1) = PageSource!ChunkOf(y.index)
      BY <2>2, <3>1, PageBefore
    <3>6. y.index + y.count <= Start(i) + size[i]
      BY <3>4, <3>5 DEF Within
    <3>7. \A p \in Nat : p \in PageSource!PagesOf(y) <=> r.index + r.count <= p /\ p < last
      BY <2>2, <3>1, PagesAre
    <3> QED
      BY <1>2, <2>2, <3>1, <3>6, <3>7 DEF RightPart
  <2> QED
    BY <2>1, <2>2 DEF FreeRight
<1>5. /\ last \in Nat /\ r.index + r.count <= last /\ last <= Start(i) + size[i] /\ N \subseteq F
      /\ \A p \in Nat : (\E y \in N : p \in PageSource!PagesOf(y))
                          <=> r.index + r.count <= p /\ p < last
  BY <1>10 DEF RightPart
<1>6. x \in Ranges /\ x.index = first /\ x.count = last - first /\ x.index + x.count = last /\ x.count >= 1
  BY <1>2, <1>4, <1>5 DEF Ranges
<1>7. Within(x, size)
  BY <1>2, <1>4, <1>5, <1>6 DEF Within
<1>8. ASSUME NEW p \in Nat
      PROVE  (\E y \in {r} \union P \union N : p \in PageSource!PagesOf(y))
               <=> p \in PageSource!PagesOf(x)
  <2>1. p \in PageSource!PagesOf(x) <=> first <= p /\ p < last
    BY <1>6, PagesAre
  <2>2. p \in PageSource!PagesOf(r) <=> r.index <= p /\ p < r.index + r.count
    BY <1>2, PagesAre
  <2>3. (\E y \in {r} \union P \union N : p \in PageSource!PagesOf(y)) <=>
          \/ p \in PageSource!PagesOf(r)
          \/ \E y \in P : p \in PageSource!PagesOf(y)
          \/ \E y \in N : p \in PageSource!PagesOf(y)
    OBVIOUS
  <2>4. (\E y \in P : p \in PageSource!PagesOf(y)) <=> first <= p /\ p < r.index
    BY <1>4
  <2>5. (\E y \in N : p \in PageSource!PagesOf(y)) <=> r.index + r.count <= p /\ p < last
    BY <1>5
  <2> QED
    BY <1>2, <1>4, <1>5, <2>1, <2>2, <2>3, <2>4, <2>5
<1> QED
  BY <1>4, <1>5, <1>7, <1>8 DEF Merges

\* Giving an allocation back, with the free ranges at either side, does as well.
LEMMA FreeSets ==
  ASSUME NEW size, GoodSizes(size), NEW A, NEW F, PageSets(A, F, size), NEW r \in A,
         NEW P, NEW N, NEW first, NEW last, FreeLeft(P, F, r, first), FreeRight(N, F, r, last),
         NEW x, x = [index |-> first, count |-> last - first]
  PROVE  PageSets(A \ {r}, (F \ (P \union N)) \union {x}, size)
<1> DEFINE A2 == A \ {r}
           F2 == (F \ (P \union N)) \union {x}
<1>1. /\ Partition(A \union F, size) /\ A \intersect F = {} /\ Apart(F) /\ r \in A \union F
      /\ r \notin F /\ Within(r, size) /\ \A y \in F : Within(y, size)
  BY DEF PageSets, Partition
<1>2. /\ first \in Nat /\ last \in Nat /\ first <= r.index /\ r.index + r.count <= last
      /\ Within(x, size) /\ P \subseteq F /\ N \subseteq F
      /\ \A p \in Nat : (\E y \in {r} \union P \union N : p \in PageSource!PagesOf(y))
                          <=> p \in PageSource!PagesOf(x)
  <2>1. Merges(P, N, F, r, first, last, x, size)
    BY <1>1, MergedRange, Zenon
  <2> QED
    BY <2>1 DEF Merges
<1>3. /\ r.index \in Nat /\ r.count \in Nat \ {0} /\ r \in Ranges /\ x \in Ranges
      /\ x.index = first /\ x.index + x.count = last
      /\ x.count \in Nat \ {0} /\ first \in Nat
  BY <1>1, <1>2 DEF Within, Ranges
<1>4. Partition(A2 \union F2, size)
  <2>1. PICK R, Old, New : R = A \union F /\ Old = {r} \union P \union N /\ New = {x}
    OBVIOUS
  <2>2. A2 \union F2 = (R \ Old) \union New
    BY <1>1, <1>2, <2>1
  <2>3. Old \subseteq R
    BY <1>2, <2>1
  <2>4. (\A y \in New : Within(y, size)) /\ Disjoint(New)
    BY <1>2, <2>1 DEF Disjoint
  <2>5. \A p \in Nat : (\E y \in Old : p \in PageSource!PagesOf(y))
                         <=> (\E y \in New : p \in PageSource!PagesOf(y))
    BY <1>2, <2>1
  <2>6. Partition(R, size)
    BY <1>1, <2>1
  <2> QED
    BY <2>2, <2>3, <2>4, <2>5, <2>6, Repartition
<1>5. A2 \intersect F2 = {}
  <2> SUFFICES ASSUME x \in A2 PROVE FALSE
    BY <1>1
  <2>1. r.index \in PageSource!PagesOf(r) /\ r.index \in PageSource!PagesOf(x)
    BY <1>2, <1>3, PagesAre
  <2>2. x = r
    BY <1>1, <1>3, <2>1 DEF Partition, Disjoint
  <2> QED
    BY <2>2
<1>6. Apart(F2)
  <2> SUFFICES ASSUME NEW y \in F2, NEW z \in F2, y.index + y.count = z.index
               PROVE  ~PageSource!Inside(z.index)
    BY DEF Apart
  <2>1. CASE y \in F /\ z \in F
    BY <1>1, <2>1 DEF Apart
  <2>2. CASE y = x /\ z = x
    BY <1>3, <2>2
  <2>3. CASE y = x /\ z \in F
    <3>1. z.index = last
      BY <1>3, <2>3
    <3> QED
      BY <1>1, <2>3, <3>1 DEF FreeRight, Apart
  <2>4. CASE y \in F /\ z = x
    <3>1. z.index = first /\ y.index + y.count = first
      BY <1>3, <2>4
    <3> QED
      BY <1>1, <2>4, <3>1 DEF FreeLeft, Apart
  <2> QED
    BY <2>1, <2>2, <2>3, <2>4
<1> QED
  BY <1>4, <1>5, <1>6 DEF PageSets

-----------------------------------------------------------------------------
(* The invariant of the page allocator *)

\* The pages of a chunk that are in an allocation of A.
TakenPages(A, i) ==
  {p \in PageSource!Pages :
     PageSource!ChunkOf(p) = i /\ \E r \in A : p \in PageSource!PagesOf(r)}

PageCounts == [i \in PageSource!ChunkIds |-> chunks[i + 1].pageCount]

ChunkRecords ==
  [pageCount : 0..ChunkPages, pagesUsed : Nat, nextChunk : Int, disabled : BOOLEAN]

ChunkTypes ==
  /\ chunks \in Seq(ChunkRecords) /\ Len(chunks) <= MaxChunks
  /\ freeChunk \in -1..(Len(chunks) - 1)
  /\ \A i \in PageSource!ChunkIds : chunks[i + 1].nextChunk \in -1..(Len(chunks) - 1)

(***************************************************************************)
(* The chunks that are not in use are in the list of m_freeChunk, none of  *)
(* them twice, and no other is.                                            *)
(***************************************************************************)
UnusedChunks ==
  /\ \A i \in PageSource!ChunkIds :
       ~PageSource!Used(i) <=>
         i = freeChunk
           \/ \E j \in PageSource!ChunkIds : ~PageSource!Used(j) /\ chunks[j + 1].nextChunk = i
  /\ \A j \in PageSource!ChunkIds : ~PageSource!Used(j) =>
       /\ chunks[j + 1].nextChunk = freeChunk => freeChunk = -1
       /\ \A k \in PageSource!ChunkIds :
            ~PageSource!Used(k) /\ chunks[k + 1].nextChunk = chunks[j + 1].nextChunk
              => k = j \/ chunks[j + 1].nextChunk = -1

UsedPages ==
  \A i \in PageSource!ChunkIds : chunks[i + 1].pagesUsed = Cardinality(TakenPages(allocated, i))

PageInv ==
  /\ ChunkTypes /\ UnusedChunks /\ UsedPages
  /\ SoundList(freeList, pageLut)
  /\ PageSets(allocated, Members(freeList), PageCounts)

\* What the types of the chunks say.
LEMMA ChunkFields ==
  ASSUME ChunkTypes
  PROVE  /\ Len(chunks) \in Nat /\ DOMAIN chunks = 1..Len(chunks)
         /\ \A i \in PageSource!ChunkIds :
              /\ i \in Nat /\ i < MaxChunks /\ i + 1 \in 1..Len(chunks)
              /\ chunks[i + 1] \in ChunkRecords
              /\ chunks[i + 1].pageCount \in 0..ChunkPages /\ chunks[i + 1].pagesUsed \in Nat
              /\ PageCounts[i] = chunks[i + 1].pageCount
         /\ DOMAIN PageCounts = PageSource!ChunkIds
         /\ GoodSizes(PageCounts)
<1>1. Len(chunks) \in Nat /\ DOMAIN chunks = 1..Len(chunks) /\ Len(chunks) <= MaxChunks
      /\ \A k \in 1..Len(chunks) : chunks[k] \in ChunkRecords
  BY LenProperties, ElementOfSeq DEF ChunkTypes
<1>2. PICK n : n = Len(chunks)
  OBVIOUS
<1>3. ChunkPages \in Nat /\ MaxChunks \in Nat
  BY PageConstants
<1>4. PageSource!ChunkIds = 0..(n - 1)
  BY <1>2 DEF PageSource!ChunkIds
<1>5. ASSUME NEW i \in 0..(n - 1)
      PROVE  i \in Nat /\ i < MaxChunks /\ i + 1 \in 1..n
  BY <1>1, <1>2, <1>3
<1>6. ASSUME NEW i \in 0..(n - 1)
      PROVE  /\ chunks[i + 1] \in ChunkRecords
             /\ chunks[i + 1].pageCount \in 0..ChunkPages /\ chunks[i + 1].pagesUsed \in Nat
  <2>1. chunks[i + 1] \in ChunkRecords
    BY <1>1, <1>2, <1>5
  <2> QED
    BY <2>1 DEF ChunkRecords
<1>7. PageCounts = [i \in 0..(n - 1) |-> chunks[i + 1].pageCount]
  BY <1>4 DEF PageCounts
<1>8. DOMAIN PageCounts = 0..(n - 1) /\ \A i \in 0..(n - 1) : PageCounts[i] = chunks[i + 1].pageCount
  BY <1>7
<1>9. GoodSizes(PageCounts)
  <2>1. 0..(n - 1) \subseteq 0..(MaxChunks - 1)
    BY <1>1, <1>2, <1>3
  <2> QED
    BY <1>6, <1>8, <2>1 DEF GoodSizes
<1> QED
  BY <1>1, <1>2, <1>4, <1>5, <1>6, <1>8, <1>9

\* An allocation adds its pages to those of its chunk.
TakesMore(A, x, c) ==
  /\ Cardinality(TakenPages(A \union {x}, c)) = Cardinality(TakenPages(A, c)) + x.count
  /\ \A i : i # c => TakenPages(A \union {x}, i) = TakenPages(A, i)
  /\ \A i : Cardinality(TakenPages(A, i)) \in Nat /\ IsFiniteSet(TakenPages(A, i))

\* They are counted with those that the chunk has already.
LEMMA TakenMore ==
  ASSUME NEW size, GoodSizes(size), NEW A, NEW x, Within(x, size), \A r \in A : Within(r, size),
         \A r \in A, p \in Nat : p \in PageSource!PagesOf(x) => p \notin PageSource!PagesOf(r),
         NEW c, c = PageSource!ChunkOf(x.index)
  PROVE  TakesMore(A, x, c)
<1>1. x \in Ranges /\ x.index \in Nat /\ x.count \in Nat \ {0}
  BY DEF Within, Ranges
<1>2. \A p \in PageSource!PagesOf(x) : p \in PageSource!Pages /\ PageSource!ChunkOf(p) = c
  BY PageChunk
<1>3. IsFiniteSet(PageSource!Pages)
  <2>1. MaxChunks * ChunkPages - 1 \in Int
    BY PageConstants
  <2>2. PICK b \in Int : b = MaxChunks * ChunkPages - 1
    BY <2>1
  <2>3. IsFiniteSet(0..b)
    BY FS_Interval
  <2> QED
    BY <2>2, <2>3 DEF PageSource!Pages
<1>4. ASSUME NEW i PROVE Cardinality(TakenPages(A, i)) \in Nat /\ IsFiniteSet(TakenPages(A, i))
  <2>1. TakenPages(A, i) \in SUBSET PageSource!Pages
    BY DEF TakenPages
  <2>2. IsFiniteSet(TakenPages(A, i))
    BY <1>3, <2>1, FS_Subset
  <2> QED
    BY <2>2, FS_CardinalityType
<1>5. ASSUME NEW i, i # c PROVE TakenPages(A \union {x}, i) = TakenPages(A, i)
  BY <1>2, <1>5 DEF TakenPages
<1>6. TakenPages(A \union {x}, c) = TakenPages(A, c) \union PageSource!PagesOf(x)
  BY <1>2 DEF TakenPages
<1>7. TakenPages(A, c) \intersect PageSource!PagesOf(x) = {}
  <2>1. \A p \in PageSource!PagesOf(x) : p \in Nat
    BY <1>1, PagesAre
  <2> QED
    BY <2>1 DEF TakenPages
<1>8. IsFiniteSet(PageSource!PagesOf(x)) /\ Cardinality(PageSource!PagesOf(x)) = x.count
  <2>1. PICK a \in Int, b \in Int : a = x.index /\ b = x.index + x.count - 1
    BY <1>1
  <2>2. IsFiniteSet(a..b) /\ Cardinality(a..b) = IF a > b THEN 0 ELSE b - a + 1
    BY FS_Interval
  <2>3. a <= b /\ b - a + 1 = x.count
    BY <1>1, <2>1
  <2>4. PageSource!PagesOf(x) = a..b
    BY <2>1 DEF PageSource!PagesOf
  <2> QED
    BY <2>2, <2>3, <2>4
<1>9. Cardinality(TakenPages(A \union {x}, c)) = Cardinality(TakenPages(A, c)) + x.count
  <2>1. PICK S, T : S = TakenPages(A, c) /\ T = PageSource!PagesOf(x)
    OBVIOUS
  <2>2. IsFiniteSet(S) /\ IsFiniteSet(T) /\ S \cap T = {} /\ Cardinality(S) \in Nat
    BY <1>4, <1>7, <1>8, <2>1
  <2>3. Cardinality(S \cup T) = Cardinality(S) + Cardinality(T) - Cardinality(S \cap T)
    BY <2>2, FS_Union
  <2>4. Cardinality(S \cap T) = 0
    BY <2>2, FS_EmptySet
  <2>5. Cardinality(T) = x.count
    BY <1>8, <2>1
  <2>6. Cardinality(S \cup T) = Cardinality(S) + x.count
    BY <1>1, <2>2, <2>3, <2>4, <2>5
  <2> QED
    BY <1>6, <2>1, <2>6
<1> QED
  BY <1>4, <1>5, <1>9 DEF TakesMore

-----------------------------------------------------------------------------
(* Insertions that keep the ranges disjoint *)

\* The range has no page of another one than the one that it replaces.
OnlyReplaces(seq, range, at) ==
  \A s \in Members(seq), p \in PageSource!Pages :
    p \in PageSource!PagesOf(range) /\ p \in PageSource!PagesOf(s) => at # -1 /\ s = seq[at + 1]

\* Then it may be inserted.
LEMMA InsertAllowed ==
  ASSUME NEW seq, NEW table, SoundList(seq, table), NEW range \in Ranges,
         NEW at \in -1..(Len(seq) - 1), at = -1 => range.count >= 1,
         PageSource!Ends(range) \subseteq PageSource!Pages, OnlyReplaces(seq, range, at)
  PROVE  MayInsert(seq, table, range, at)
<1>1. seq \in Seq(Ranges) /\ \A j \in 1..Len(seq) : seq[j] \in Ranges
  BY ElementOfSeq DEF SoundList
<1>2. Len(seq) \in Nat
  BY <1>1, LenProperties
<1>3. ASSUME NEW j \in 1..Len(seq), j # at + 1, NEW p \in PageSource!Ends(range),
             p \in PageSource!Ends(seq[j])
      PROVE  FALSE
  <2>1. seq[j] \in Ranges /\ seq[j] \in Members(seq)
    BY <1>1 DEF Members
  <2>2. p \in PageSource!PagesOf(range) /\ p \in PageSource!PagesOf(seq[j]) /\ p \in PageSource!Pages
    BY <1>3, <2>1, PagesAre
  <2>3. at # -1 /\ seq[j] = seq[at + 1]
    BY <2>1, <2>2 DEF OnlyReplaces
  <2>4. at + 1 \in 1..Len(seq)
    BY <1>2, <2>3
  <2>5. j = at + 1
    BY <1>3, <2>3, <2>4, EndsDistinct
  <2> QED
    BY <1>3, <2>5
<1> QED
  BY <1>3 DEF MayInsert

\* The list and the table that an insertion makes.
LEMMA InsertMakes ==
  ASSUME NEW s, NEW range, NEW at
  PROVE  \E seq, table : PageSource!InsertFreeRange(s, range, at) = [list |-> seq, lut |-> table]
  BY Zenon DEF PageSource!InsertFreeRange

\* A range is at one position only.
LEMMA OnePosition ==
  ASSUME NEW seq, NEW table, SoundList(seq, table), NEW i \in 1..Len(seq), NEW j \in 1..Len(seq),
         seq[i] = seq[j]
  PROVE  i = j
<1>1. seq[i] \in Ranges /\ seq[i].count >= 1
  BY ElementOfSeq DEF SoundList
<1>2. seq[i].index \in PageSource!Ends(seq[i])
  BY <1>1, PagesAre
<1> QED
  BY <1>2, EndsDistinct

\* What the invariant says of the ranges.
LEMMA RangeFacts ==
  ASSUME NEW A, NEW F, NEW size, GoodSizes(size), PageSets(A, F, size)
  PROVE  /\ \A r \in A \union F :
              /\ Within(r, size) /\ r \in Ranges /\ r.index \in Nat /\ r.count \in Nat \ {0}
              /\ \A p \in PageSource!PagesOf(r) :
                   /\ p \in PageSource!Pages /\ p \in Nat
                   /\ PageSource!ChunkOf(p) = PageSource!ChunkOf(r.index)
              /\ PageSource!Ends(r) \subseteq PageSource!Pages
         /\ \A r, s \in A \union F, p \in PageSource!Pages :
              p \in PageSource!PagesOf(r) /\ p \in PageSource!PagesOf(s) => r = s
<1>1. \A r \in A \union F : Within(r, size)
  BY DEF PageSets, Partition
<1>2. \A r \in A \union F : r \in Ranges /\ r.index \in Nat /\ r.count \in Nat \ {0}
  BY <1>1 DEF Within, Ranges
<1>3. ASSUME NEW r \in A \union F, NEW p \in PageSource!PagesOf(r)
      PROVE  p \in PageSource!Pages /\ p \in Nat
             /\ PageSource!ChunkOf(p) = PageSource!ChunkOf(r.index)
  BY <1>1, <1>2, <1>3, PageChunk, PagesAre
<1>4. ASSUME NEW r \in A \union F PROVE PageSource!Ends(r) \subseteq PageSource!Pages
  BY <1>2, <1>3, PagesAre
<1>5. PageSource!Pages \subseteq Nat
  BY DEF PageSource!Pages
<1>6. \A r, s \in A \union F, p \in PageSource!Pages :
        p \in PageSource!PagesOf(r) /\ p \in PageSource!PagesOf(s) => r = s
  BY <1>5 DEF PageSets, Partition, Disjoint
<1> QED
  BY <1>1, <1>2, <1>3, <1>4, <1>6

-----------------------------------------------------------------------------
(* An allocation and the list of free ranges *)

\* What allocPages leaves of the range at position k, its pages before and after x being
\* put back into the list.
PutPieces(r, x, i) ==
  LET before == PageSource!InsertFreeRange(PageSource!List, PartBefore(r, x), i)
  IN IF PartBefore(r, x).count = 0 THEN PageSource!InsertFreeRange(PageSource!List, PartAfter(r, x), i)
     ELSE IF PartAfter(r, x).count > 0 THEN PageSource!InsertFreeRange(before, PartAfter(r, x), -1)
     ELSE before

\* The list is sound and has the pieces instead of the range.
PiecesPut(F, r, x, res) ==
  SoundList(res.list, res.lut) /\ Members(res.list) = (F \ {r}) \union Pieces(r, x)

\* So it is, however many pieces there are.
LEMMA PiecesInList ==
  ASSUME PageInv, GoodSizes(PageCounts), NEW i \in 0..(Len(freeList) - 1),
         NEW r, r = freeList[i + 1], NEW x, PartOf(x, r), NEW res, res = PutPieces(r, x, i)
  PROVE  PiecesPut(Members(freeList), r, x, res)
<1>1. PICK F : F = Members(freeList)
  OBVIOUS
<1> SUFFICES SoundList(res.list, res.lut) /\ Members(res.list) = (F \ {r}) \union Pieces(r, x)
  BY <1>1 DEF PiecesPut
<1>2. SoundList(freeList, pageLut) /\ PageSets(allocated, F, PageCounts)
  BY <1>1 DEF PageInv
<1>3. r \in F /\ freeList \in Seq(Ranges) /\ Len(freeList) \in Nat /\ i # -1 /\ i \in -1..(Len(freeList) - 1)
  <2>1. freeList \in Seq(Ranges) /\ Len(freeList) \in Nat
    BY <1>2, LenProperties DEF SoundList
  <2>2. i + 1 \in 1..Len(freeList)
    BY <2>1
  <2> QED
    BY <1>1, <2>1, <2>2 DEF Members
<1>4. /\ Within(r, PageCounts) /\ r \in Ranges
      /\ \A s \in F, p \in PageSource!Pages :
           p \in PageSource!PagesOf(r) /\ p \in PageSource!PagesOf(s) => s = r
      /\ \A p \in PageSource!PagesOf(r) : p \in PageSource!Pages /\ p \in Nat
  BY <1>2, <1>3, RangeFacts
<1>5. PICK b, a : b = PartBefore(r, x) /\ a = PartAfter(r, x)
  OBVIOUS
<1>6. b \in Ranges /\ a \in Ranges /\ \A y \in {x} \union Pieces(r, x) : Within(y, PageCounts)
  BY <1>4, <1>5, PiecesWithin
<1>7. b.count \in Nat /\ a.count \in Nat
  BY <1>6 DEF Ranges
<1>8. Pieces(r, x) = {y \in {b, a} : y.count # 0}
  BY <1>5 DEF Pieces
<1>9. ASSUME NEW y \in {b, a}
      PROVE  /\ PageSource!Ends(y) \subseteq PageSource!Pages
             /\ \A p \in PageSource!PagesOf(y) : p \in PageSource!PagesOf(r)
  <2>1. \A p \in PageSource!PagesOf(y) : p \in PageSource!PagesOf(r)
    <3>1. ASSUME NEW p \in PageSource!PagesOf(y) PROVE p \in PageSource!PagesOf(r)
      <4>1. y \in Ranges /\ p \in Nat /\ y.index <= p /\ p < y.index + y.count
        BY <1>6, PagesAre
      <4>2. y.count # 0
        BY <1>7, <4>1 DEF Ranges
      <4>3. y \in {x} \union Pieces(r, x)
        BY <1>8, <4>2
      <4> QED
        BY <1>4, <3>1, <4>1, <4>3, PiecesPages
    <3> QED
      BY <3>1
  <2>2. \A p \in PageSource!Ends(y) : p \in PageSource!PagesOf(y)
    BY <1>6, PagesAre
  <2> QED
    BY <1>4, <2>1, <2>2
<1>10. ASSUME NEW y \in {b, a}
       PROVE  MayInsert(freeList, pageLut, y, i)
  <2>1. OnlyReplaces(freeList, y, i)
    BY <1>1, <1>3, <1>4, <1>9 DEF OnlyReplaces
  <2>2. y \in Ranges
    BY <1>6
  <2> QED
    BY <1>2, <1>3, <1>9, <2>1, <2>2, InsertAllowed
<1>11. PageSource!List = [list |-> freeList, lut |-> pageLut]
  BY DEF PageSource!List
<1>12. ASSUME NEW y \in {b, a}, NEW s, s = PageSource!InsertFreeRange(PageSource!List, y, i)
       PROVE  /\ SoundList(s.list, s.lut)
              /\ Members(s.list) = (F \ {r}) \union (IF y.count = 0 THEN {} ELSE {y})
  <2>1. Inserted(freeList, y, i, s)
    BY <1>10, <1>11, <1>12, InsertRange
  <2> QED
    BY <1>1, <1>3, <2>1 DEF Inserted, RangeSet
<1>13. CASE b.count = 0
  <2>1. res = PageSource!InsertFreeRange(PageSource!List, a, i)
    BY <1>5, <1>13 DEF PutPieces
  <2> QED
    BY <1>8, <1>12, <1>13, <2>1
<1>14. CASE b.count # 0 /\ a.count = 0
  <2>1. res = PageSource!InsertFreeRange(PageSource!List, b, i)
    BY <1>5, <1>14 DEF PutPieces
  <2> QED
    <3>1. Pieces(r, x) = {b}
      BY <1>8, <1>14
    <3>2. SoundList(res.list, res.lut) /\ Members(res.list) = (F \ {r}) \union {b}
      BY <1>12, <1>14, <2>1
    <3> QED
      BY <3>1, <3>2
<1>15. CASE b.count # 0 /\ a.count # 0
  <2>1. PICK s : s = PageSource!InsertFreeRange(PageSource!List, b, i)
    OBVIOUS
  <2>2. res = PageSource!InsertFreeRange(s, a, -1)
    BY <1>5, <1>7, <1>15, <2>1 DEF PutPieces
  <2>3. SoundList(s.list, s.lut) /\ Members(s.list) = (F \ {r}) \union {b}
    BY <1>12, <1>15, <2>1
  <2>4. s = [list |-> s.list, lut |-> s.lut]
    BY <2>1, InsertMakes
  <2>5. OnlyReplaces(s.list, a, -1)
    <3> SUFFICES ASSUME NEW y \in Members(s.list), NEW p \in PageSource!Pages,
                        p \in PageSource!PagesOf(a), p \in PageSource!PagesOf(y)
                 PROVE  FALSE
      BY DEF OnlyReplaces
    <3>1. p \in PageSource!PagesOf(r)
      BY <1>9
    <3>2. y = b
      BY <1>4, <2>3, <3>1
    <3>3. p \in Nat /\ a \in {x} \union Pieces(r, x) /\ b \in {x} \union Pieces(r, x)
      BY <1>4, <1>8, <1>15, <3>1
    <3>4. a = b
      BY <1>4, <3>2, <3>3, PiecesDisjoint DEF Disjoint
    <3>5. x.index \in Nat /\ x.count \in Nat /\ x.count >= 1 /\ r.index \in Nat /\ r.index <= x.index
      BY <1>4 DEF PartOf, Ranges
    <3>6. a.index = x.index + x.count /\ b.index = r.index
      BY <1>5 DEF PartBefore, PartAfter
    <3> QED
      BY <3>4, <3>5, <3>6
  <2>6. PICK seq, table : seq = s.list /\ table = s.lut
    OBVIOUS
  <2>7. MayInsert(seq, table, a, -1)
    <3>1. Len(seq) \in Nat
      BY <2>3, <2>6, LenProperties DEF SoundList
    <3>2. -1 \in -1..(Len(seq) - 1) /\ a.count >= 1
      BY <1>7, <1>15, <3>1
    <3> QED
      BY <1>6, <1>9, <2>3, <2>5, <2>6, <3>2, InsertAllowed
  <2>8. Inserted(seq, a, -1, res)
    BY <2>2, <2>4, <2>6, <2>7, InsertRange
  <2>9. SoundList(res.list, res.lut) /\ Members(res.list) = ((F \ {r}) \union {b}) \union {a}
    BY <1>15, <2>3, <2>6, <2>8 DEF Inserted, RangeSet
  <2> QED
    BY <1>8, <1>15, <2>9
<1> QED
  BY <1>13, <1>14, <1>15

-----------------------------------------------------------------------------
(* Chunks that keep their pages *)

\* What is said of the chunks without their counters stays as long as it does.
LEMMA SameShape ==
  ASSUME ChunkTypes, UnusedChunks, chunks' \in Seq(ChunkRecords), Len(chunks') = Len(chunks),
         freeChunk' = freeChunk,
         \A i \in PageSource!ChunkIds :
           /\ chunks'[i + 1].pageCount = chunks[i + 1].pageCount
           /\ chunks'[i + 1].nextChunk = chunks[i + 1].nextChunk
  PROVE  /\ ChunkTypes' /\ UnusedChunks' /\ PageCounts' = PageCounts
         /\ PageSource!ChunkIds' = PageSource!ChunkIds
<1>1. PageSource!ChunkIds' = PageSource!ChunkIds
  BY DEF PageSource!ChunkIds
<1>2. \A i \in PageSource!ChunkIds : PageSource!Used(i)' <=> PageSource!Used(i)
  BY DEF PageSource!Used
<1>3. ChunkTypes'
  BY <1>1 DEF ChunkTypes
<1>4. UnusedChunks'
  BY <1>1, <1>2 DEF UnusedChunks
<1>5. PageCounts' = PageCounts
  BY <1>1 DEF PageCounts
<1> QED
  BY <1>1, <1>3, <1>4, <1>5

\* A chunk's counter follows what callers have of it.
LEMMA PagesCounted ==
  ASSUME ChunkTypes, UnusedChunks, UsedPages, NEW c \in PageSource!ChunkIds, NEW d \in Int,
         chunks' = PageSource!UsePages(c, d), freeChunk' = freeChunk,
         Cardinality(TakenPages(allocated', c)) \in Nat,
         Cardinality(TakenPages(allocated', c)) = Cardinality(TakenPages(allocated, c)) + d,
         \A i : i # c => TakenPages(allocated', i) = TakenPages(allocated, i)
  PROVE  ChunkTypes' /\ UnusedChunks' /\ UsedPages' /\ PageCounts' = PageCounts
<1>1. PICK n : n = Len(chunks)
  OBVIOUS
<1>2. n \in Nat /\ DOMAIN chunks = 1..n /\ PageSource!ChunkIds = 0..(n - 1)
      /\ \A k \in 1..n : chunks[k] \in ChunkRecords
  BY <1>1, LenProperties, ElementOfSeq DEF ChunkTypes, PageSource!ChunkIds
<1>3. c + 1 \in 1..n /\ chunks[c + 1].pagesUsed + d \in Nat
  <2>1. c + 1 \in 1..n
    BY <1>2
  <2> QED
    BY <2>1 DEF UsedPages
<1>4. PICK new : new = [chunks[c + 1] EXCEPT !.pagesUsed = @ + d]
  OBVIOUS
<1>5. /\ new \in ChunkRecords /\ new.pagesUsed = chunks[c + 1].pagesUsed + d
      /\ new.pageCount = chunks[c + 1].pageCount /\ new.nextChunk = chunks[c + 1].nextChunk
  <2>1. chunks[c + 1] \in ChunkRecords
    BY <1>2, <1>3
  <2> QED
    BY <1>3, <1>4, <2>1 DEF ChunkRecords
<1>6. chunks' = [chunks EXCEPT ![c + 1] = new]
  BY <1>4 DEF PageSource!UsePages
<1>7. chunks' \in Seq(ChunkRecords) /\ Len(chunks') = n
  <2>1. chunks \in Seq(ChunkRecords) /\ c + 1 \in 1..Len(chunks)
    BY <1>1, <1>3 DEF ChunkTypes
  <2>2. [chunks EXCEPT ![c + 1] = new] \in Seq(ChunkRecords)
        /\ Len([chunks EXCEPT ![c + 1] = new]) = Len(chunks)
    BY <1>5, <2>1, ExceptSeq
  <2> QED
    BY <1>1, <1>6, <2>2
<1>8. chunks'[c + 1] = new /\ \A k \in 1..n : k # c + 1 => chunks'[k] = chunks[k]
  BY <1>2, <1>3, <1>6
<1>9. ASSUME NEW i \in PageSource!ChunkIds
      PROVE  /\ chunks'[i + 1].pageCount = chunks[i + 1].pageCount
             /\ chunks'[i + 1].nextChunk = chunks[i + 1].nextChunk
             /\ chunks'[i + 1].pagesUsed = Cardinality(TakenPages(allocated', i))
  <2>1. i + 1 \in 1..n /\ chunks[i + 1].pagesUsed = Cardinality(TakenPages(allocated, i))
    BY <1>2 DEF UsedPages
  <2>2. CASE i = c
    BY <1>5, <1>8, <2>1, <2>2
  <2>3. CASE i # c
    <3>1. i + 1 # c + 1
      BY <1>2, <2>3
    <3> QED
      BY <1>8, <2>1, <2>3, <3>1
  <2> QED
    BY <2>2, <2>3
<1>10. /\ ChunkTypes' /\ UnusedChunks' /\ PageCounts' = PageCounts
       /\ PageSource!ChunkIds' = PageSource!ChunkIds
  BY <1>1, <1>7, <1>9, SameShape
<1>11. UsedPages'
  BY <1>9, <1>10 DEF UsedPages
<1> QED
  BY <1>10, <1>11

-----------------------------------------------------------------------------
(* Alignment *)

\* The first page at or after p that is a multiple of the alignment.
LEMMA AlignedFirst ==
  ASSUME NEW p \in Nat, NEW a \in Nat \ {0}, NEW t, t = PageSource!Aligned(p, a)
  PROVE  /\ t \in Nat /\ p <= t
         /\ \A q \in Nat : q % a = 0 /\ p <= q => t <= q
         /\ p % a = 0 <=> t = p
<1>1. PICK k, s : k = (p + a - 1) \div a /\ s = (p + a - 1) % a
  OBVIOUS
<1>2. p + a - 1 \in Nat
  OBVIOUS
<1>3. k \in Nat /\ s \in 0..(a - 1) /\ p + a - 1 = a * k + s
  <2>1. PICK m : m = p + a - 1
    OBVIOUS
  <2>2. m \in Nat /\ k = m \div a /\ s = m % a
    BY <1>1, <1>2, <2>1
  <2>3. k \in Nat /\ s \in 0..(a - 1) /\ m = a * k + s
    BY <2>2
  <2> QED
    BY <2>1, <2>3
<1>4. t = a * k
  <2>1. t = k * a
    BY <1>1 DEF PageSource!Aligned
  <2>2. k * a = a * k
    BY <1>3
  <2> QED
    BY <2>1, <2>2
<1>5. a * k \in Nat
  BY <1>3
<1>6. t \in Nat /\ p <= t /\ t < p + a
  BY <1>3, <1>4, <1>5
<1>7. ASSUME NEW q \in Nat, q % a = 0, p <= q PROVE t <= q
  <2>1. PICK m \in Nat : q = a * m
    <3>1. q \div a \in Nat /\ q = a * (q \div a) + (q % a)
      OBVIOUS
    <3>2. a * (q \div a) \in Nat
      BY <3>1
    <3>3. q = a * (q \div a)
      BY <1>7, <3>1, <3>2
    <3> QED
      BY <3>1, <3>3
  <2>2. k <= m
    <3> SUFFICES ASSUME ~(k <= m) PROVE FALSE
      OBVIOUS
    <3>1. PICK e \in Nat : k = (m + 1) + e
      <4>1. k - (m + 1) \in Nat /\ k = (m + 1) + (k - (m + 1))
        BY <1>3
      <4> QED
        BY <4>1
    <3>2. a * k = a * m + a + a * e /\ a * e \in Nat
      BY <3>1
    <3>3. a * k >= q + a
      BY <2>1, <3>2
    <3> QED
      BY <1>4, <1>6, <1>7, <3>3
  <2>3. PICK e \in Nat : m = k + e
    <3>1. m - k \in Nat /\ m = k + (m - k)
      BY <1>3, <2>2
    <3> QED
      BY <3>1
  <2>4. a * m = a * k + a * e /\ a * e \in Nat
    BY <1>3, <2>3
  <2> QED
    BY <1>4, <1>5, <2>1, <2>4
<1>8. p % a = 0 => t = p
  BY <1>6, <1>7
<1>9. t = p => p % a = 0
  <2> SUFFICES ASSUME a * k = p PROVE p % a = 0
    BY <1>4
  <2>1. (0 + k * a) % a = 0
    <3>1. PICK j \in 0..(a - 1) : j = 0
      OBVIOUS
    <3>2. (j + k * a) % a = j
      BY <1>3, DivisionUnique
    <3> QED
      BY <3>1, <3>2
  <2>2. 0 + k * a = a * k
    BY <1>3
  <2> QED
    BY <2>1, <2>2
<1> QED
  BY <1>6, <1>7, <1>8, <1>9

\* The last of some indices.
LEMMA LastIndex ==
  ASSUME NEW n \in Nat, NEW T \in SUBSET (0..(n - 1)), T # {}
  PROVE  PageSource!Max(T) \in T
<1> DEFINE U == {t + 1 : t \in T}
<1>1. U \in SUBSET (1..n) /\ U # {}
  OBVIOUS
<1> HIDE DEF U
<1>2. Greatest(PageSource!Max(U), U)
  BY <1>1, Bounds
<1>3. PICK t \in T : PageSource!Max(U) = t + 1
  BY <1>2 DEF Greatest, U
<1>4. \A y \in T : y + 1 \in U
  BY DEF U
<1>5. \A y \in T : y + 1 <= t + 1
  BY <1>2, <1>3, <1>4 DEF Greatest
<1>6. \A y \in T : t >= y
  BY <1>5
<1> QED
  BY <1>6 DEF PageSource!Max

-----------------------------------------------------------------------------
(* Steps of the page allocator *)

\* The ranges of the list, by their position from zero.
LEMMA ListRanges ==
  ASSUME PageInv
  PROVE  /\ freeList \in Seq(Ranges) /\ Len(freeList) \in Nat
         /\ \A i \in 0..(Len(freeList) - 1) :
              i + 1 \in 1..Len(freeList) /\ freeList[i + 1] \in Members(freeList)
<1>1. freeList \in Seq(Ranges) /\ Len(freeList) \in Nat
  BY LenProperties DEF PageInv, SoundList
<1>2. \A i \in 0..(Len(freeList) - 1) : i + 1 \in 1..Len(freeList)
  BY <1>1
<1> QED
  BY <1>1, <1>2 DEF Members

\* A range that suits an allocation has room for it.
SuitsAt(i, n, a, r, page) ==
  /\ i \in 0..(Len(freeList) - 1) /\ r = freeList[i + 1]
  /\ r \in Ranges /\ r.index <= page /\ page + n <= r.index + r.count /\ page \in Nat
  /\ r.index % a = 0 <=> page = r.index

\* What the loop of allocPages finds suits.
LEMMA SuitableFits ==
  ASSUME PageInv, NEW n \in 1..ChunkPages, NEW a \in Alignments,
         NEW i \in PageSource!Suitable(n, a), NEW r, r = freeList[i + 1],
         NEW page, page = PageSource!Aligned(r.index, a)
  PROVE  SuitsAt(i, n, a, r, page)
<1>1. n \in Nat /\ a \in Nat \ {0} /\ ChunkPages \in Nat
  BY PageConstants
<1>2. CountOf(n, PageSource!SearchFreeList(n))
  BY <1>1, SearchCounts DEF PageInv
<1>3. PICK c : c = PageSource!SearchFreeList(n)
  OBVIOUS
<1>4. PICK m : m = Len(freeList)
  OBVIOUS
<1>5. /\ c \in 0..m /\ m \in Nat
      /\ \A j \in 1..m : freeList[j].count >= n <=> j <= c
  BY <1>2, <1>3, <1>4, ListRanges DEF CountOf
<1>6. /\ i \in 0..(c - 1)
      /\ r.index % a = 0 \/ page + n <= r.index + r.count
  BY <1>3 DEF PageSource!Suitable
<1>7. i \in 0..(m - 1) /\ i + 1 \in 1..m /\ i + 1 <= c
  BY <1>5, <1>6
<1>8. r.count >= n
  BY <1>5, <1>7
<1>9. r \in Ranges /\ r.index \in Nat /\ r.count \in Nat
  <2>1. r \in Ranges
    BY <1>4, <1>7, ElementOfSeq, ListRanges
  <2> QED
    BY <2>1 DEF Ranges
<1>10. /\ page \in Nat /\ r.index <= page
       /\ r.index % a = 0 <=> page = r.index
  <2>1. PICK p \in Nat : p = r.index
    BY <1>9
  <2>2. page = PageSource!Aligned(p, a)
    BY <2>1
  <2>3. page \in Nat /\ p <= page /\ (p % a = 0 <=> page = p)
    BY <1>1, <2>2, AlignedFirst
  <2> QED
    BY <2>1, <2>3
<1>11. page + n <= r.index + r.count
  BY <1>1, <1>6, <1>8, <1>9, <1>10
<1> QED
  BY <1>4, <1>7, <1>9, <1>10, <1>11 DEF SuitsAt

\* allocPages takes a part of a free range and puts the rest back.
AllocTakes(n, i, r, x, res) ==
  /\ i \in 0..(Len(freeList) - 1) /\ r = freeList[i + 1] /\ PartOf(x, r) /\ x.count = n
  /\ res = PutPieces(r, x, i)
  /\ freeList' = res.list /\ pageLut' = res.lut
  /\ allocated' = allocated \union {x}
  /\ chunks' = PageSource!UsePages(PageSource!ChunkOf(r.index), n)
  /\ freeChunk' = freeChunk

\* So does allocPages, whichever range it finds.
LEMMA AllocParts ==
  ASSUME PageInv, NEW n \in 1..ChunkPages, NEW a \in Alignments, PageSource!AllocPages(n, a)
  PROVE  \E i, r, x, res : AllocTakes(n, i, r, x, res)
<1>1. PICK i : i = PageSource!Max(PageSource!Suitable(n, a))
  OBVIOUS
<1>2. i \in PageSource!Suitable(n, a)
  <2>1. PICK T : T = PageSource!Suitable(n, a)
    OBVIOUS
  <2>2. T # {}
    BY <2>1 DEF PageSource!AllocPages
  <2>3. PICK c : c = PageSource!SearchFreeList(n)
    OBVIOUS
  <2>4. n \in Nat
    BY PageConstants
  <2>5. c \in 0..Len(freeList) /\ Len(freeList) \in Nat
    BY <2>3, <2>4, SearchCounts, ListRanges DEF CountOf, PageInv
  <2>6. c \in Nat /\ T \in SUBSET (0..(c - 1))
    BY <2>1, <2>3, <2>5 DEF PageSource!Suitable
  <2> QED
    BY <1>1, <2>1, <2>2, <2>6, LastIndex
<1>3. PICK r, page : r = freeList[i + 1] /\ page = PageSource!Aligned(r.index, a)
  OBVIOUS
<1>4. SuitsAt(i, n, a, r, page)
  BY <1>2, <1>3, SuitableFits
<1>5. PICK x : x = [index |-> page, count |-> n]
  OBVIOUS
<1>6. n \in Nat /\ n >= 1 /\ page \in Nat /\ r.index \in Nat /\ r.count \in Nat
  BY <1>4, PageConstants DEF SuitsAt, Ranges
<1>7. x \in Ranges /\ x.index = page /\ x.count = n
  BY <1>5, <1>6 DEF Ranges
<1>8. PartOf(x, r)
  BY <1>4, <1>6, <1>7 DEF PartOf, SuitsAt
<1>9. PICK b, e : b = PartBefore(r, x) /\ e = PartAfter(r, x)
  OBVIOUS
<1>10. /\ b = PageSource!FreeRange(r.index, page - r.index)
       /\ e = PageSource!FreeRange(page + n, r.index + r.count - (page + n))
  BY <1>7, <1>9 DEF PartBefore, PartAfter, PageSource!FreeRange
<1>11. b.count = 0 <=> r.index % a = 0
  <2>1. b.count = page - r.index
    BY <1>7, <1>9 DEF PartBefore
  <2> QED
    BY <1>4, <1>6, <2>1 DEF SuitsAt
<1>12. PICK before : before = PageSource!InsertFreeRange(PageSource!List, b, i)
  OBVIOUS
<1>13. PICK res : res = PutPieces(r, x, i)
  OBVIOUS
<1>14. res = IF r.index % a = 0 THEN PageSource!InsertFreeRange(PageSource!List, e, i)
             ELSE IF e.count > 0 THEN PageSource!InsertFreeRange(before, e, -1)
             ELSE before
  BY <1>9, <1>11, <1>12, <1>13 DEF PutPieces
<1>15. /\ PageSource!SetList(IF r.index % a = 0 THEN PageSource!InsertFreeRange(PageSource!List, e, i)
                             ELSE IF e.count > 0 THEN PageSource!InsertFreeRange(before, e, -1)
                             ELSE before)
       /\ allocated' = allocated \union {PageSource!FreeRange(page, n)}
       /\ chunks' = PageSource!UsePages(PageSource!ChunkOf(r.index), n)
       /\ freeChunk' = freeChunk
  BY <1>1, <1>3, <1>10, <1>12 DEF PageSource!AllocPages, PageSource!Absent
<1>16. freeList' = res.list /\ pageLut' = res.lut
  BY <1>14, <1>15 DEF PageSource!SetList
<1>17. allocated' = allocated \union {x}
  BY <1>5, <1>15 DEF PageSource!FreeRange
<1>18. i \in 0..(Len(freeList) - 1)
  BY <1>4 DEF SuitsAt
<1>19. AllocTakes(n, i, r, x, res)
  BY <1>3, <1>7, <1>8, <1>13, <1>15, <1>16, <1>17, <1>18 DEF AllocTakes
<1> QED
  BY <1>19

\* An allocation puts the pieces of the range that it leaves back.
LEMMA TakesPieces ==
  ASSUME PageInv, NEW n, NEW i, NEW r, NEW x, NEW res, AllocTakes(n, i, r, x, res)
  PROVE  PiecesPut(Members(freeList), r, x, res)
<1>1. GoodSizes(PageCounts)
  BY ChunkFields DEF PageInv
<1>2. /\ i \in 0..(Len(freeList) - 1) /\ r = freeList[i + 1] /\ PartOf(x, r)
      /\ res = PutPieces(r, x, i)
  BY DEF AllocTakes
<1> QED
  BY <1>1, <1>2, PiecesInList

\* An allocation keeps the invariant.
LEMMA AllocStep ==
  ASSUME PageInv, NEW n \in 1..ChunkPages, NEW a \in Alignments, PageSource!AllocPages(n, a)
  PROVE  PageInv'
<1>1. PICK i, r, x, res : AllocTakes(n, i, r, x, res)
  BY AllocParts
<1>2. PICK F, size : F = Members(freeList) /\ size = PageCounts
  OBVIOUS
<1>3. GoodSizes(size) /\ PageSets(allocated, F, size)
  BY <1>2, ChunkFields DEF PageInv
<1>4. r \in F /\ PartOf(x, r)
  BY <1>1, <1>2, ListRanges DEF AllocTakes
<1>5. SoundList(res.list, res.lut) /\ Members(res.list) = (F \ {r}) \union Pieces(r, x)
  <2>1. PiecesPut(F, r, x, res)
    BY <1>1, <1>2, TakesPieces
  <2> QED
    BY <2>1 DEF PiecesPut
<1>6. SoundList(freeList, pageLut)'
  BY <1>1, <1>5 DEF AllocTakes
<1>7. Members(freeList') = (F \ {r}) \union Pieces(r, x) /\ allocated' = allocated \union {x}
  BY <1>1, <1>5 DEF AllocTakes
<1>8. PageSets(allocated', Members(freeList'), size)
  BY <1>3, <1>4, <1>7, AllocSets
<1>9. PICK c : c = PageSource!ChunkOf(r.index)
  OBVIOUS
<1>10. Within(r, size) /\ r \in Ranges /\ \A y \in allocated : Within(y, size)
  BY <1>3, <1>4, RangeFacts
<1>11. Within(x, size) /\ PageSource!ChunkOf(x.index) = c /\ c \in DOMAIN size
  BY <1>3, <1>4, <1>9, <1>10, PartWithin DEF PartOf, Within
<1>12. \A y \in allocated, p \in Nat : p \in PageSource!PagesOf(x) => p \notin PageSource!PagesOf(y)
  <2> SUFFICES ASSUME NEW y \in allocated, NEW p \in Nat, p \in PageSource!PagesOf(x),
                      p \in PageSource!PagesOf(y)
               PROVE  FALSE
    OBVIOUS
  <2>1. y \in allocated' \union Members(freeList') /\ x \in allocated' \union Members(freeList')
    BY <1>7
  <2>2. y = x
    BY <1>8, <2>1 DEF PageSets, Partition, Disjoint
  <2>3. p \in PageSource!PagesOf(r)
    BY <1>4, <1>10, PiecesPages
  <2>4. y = r
    BY <1>3, <1>4, <2>3 DEF PageSets, Partition, Disjoint
  <2> QED
    BY <1>3, <1>4, <2>4 DEF PageSets
<1>13. /\ Cardinality(TakenPages(allocated \union {x}, c)) = Cardinality(TakenPages(allocated, c)) + n
       /\ \A k : k # c => TakenPages(allocated \union {x}, k) = TakenPages(allocated, k)
       /\ Cardinality(TakenPages(allocated, c)) \in Nat
  <2>1. x.count = n
    BY <1>1 DEF AllocTakes
  <2>2. /\ Cardinality(TakenPages(allocated \union {x}, c))
             = Cardinality(TakenPages(allocated, c)) + x.count
        /\ \A k : k # c => TakenPages(allocated \union {x}, k) = TakenPages(allocated, k)
        /\ \A k : Cardinality(TakenPages(allocated, k)) \in Nat
    <3>1. c = PageSource!ChunkOf(x.index)
      BY <1>11
    <3>2. TakesMore(allocated, x, c)
      BY <1>3, <1>10, <1>11, <1>12, <3>1, TakenMore
    <3> QED
      BY <3>2 DEF TakesMore
  <2> QED
    BY <2>1, <2>2
<1>14. n \in Nat
  BY PageConstants
<1>15. c \in PageSource!ChunkIds
  BY <1>2, <1>11, ChunkFields DEF PageInv
<1>16. chunks' = PageSource!UsePages(c, n) /\ freeChunk' = freeChunk
  BY <1>1, <1>9 DEF AllocTakes
<1>17. ChunkTypes' /\ UnusedChunks' /\ UsedPages' /\ PageCounts' = PageCounts
  <2>1. Cardinality(TakenPages(allocated', c)) = Cardinality(TakenPages(allocated, c)) + n
        /\ Cardinality(TakenPages(allocated', c)) \in Nat
    BY <1>7, <1>13, <1>14
  <2>2. \A k : k # c => TakenPages(allocated', k) = TakenPages(allocated, k)
    BY <1>7, <1>13
  <2> QED
    BY <1>14, <1>15, <1>16, <2>1, <2>2, PagesCounted DEF PageInv
<1>18. PageSets(allocated, Members(freeList), PageCounts)'
  BY <1>2, <1>8, <1>17
<1> QED
  BY <1>6, <1>17, <1>18 DEF PageInv

-----------------------------------------------------------------------------
(* The free ranges beside an allocation *)

\* The range of the list at an index, if the index is one.
RangeAt(i) == IF i = -1 THEN {} ELSE {freeList[i + 1]}

\* What freePages finds in the table is the free range to the left,
LEMMA LeftNeighbour ==
  ASSUME PageInv, NEW r \in allocated,
         NEW prev, prev = IF PageSource!Inside(r.index) THEN pageLut[r.index - 1] ELSE -1,
         NEW first, first = IF prev = -1 THEN r.index ELSE freeList[prev + 1].index
  PROVE  prev \in -1..(Len(freeList) - 1) /\ FreeLeft(RangeAt(prev), Members(freeList), r, first)
<1>1. PICK F : F = Members(freeList)
  OBVIOUS
<1>2. /\ GoodSizes(PageCounts) /\ PageSets(allocated, F, PageCounts)
      /\ SoundList(freeList, pageLut)
  BY <1>1, ChunkFields DEF PageInv
<1>3. freeList \in Seq(Ranges) /\ Len(freeList) \in Nat
  BY ListRanges
<1>4. /\ r.index \in Nat /\ r.count \in Nat \ {0} /\ r \in Ranges
      /\ r.index \in PageSource!Pages
  <2>1. r.index \in Nat /\ r.count \in Nat \ {0} /\ r \in Ranges
    BY <1>2, RangeFacts
  <2>2. r.index \in PageSource!PagesOf(r)
    BY <2>1, PagesAre
  <2> QED
    BY <1>2, <2>1, <2>2, RangeFacts
<1>5. CASE ~PageSource!Inside(r.index)
  <2>1. prev = -1 /\ first = r.index /\ RangeAt(prev) = {}
    BY <1>5 DEF RangeAt
  <2> QED
    BY <1>3, <1>5, <2>1 DEF FreeLeft
<1>6. CASE PageSource!Inside(r.index)
  <2>1. PICK p : p = r.index - 1
    OBVIOUS
  <2>2. p \in Nat /\ p + 1 = r.index /\ p \in PageSource!Pages
    <3>1. p \in Nat
      BY <1>4, <1>6, <2>1, PageBefore
    <3>2. PICK b : b = MaxChunks * ChunkPages - 1
      OBVIOUS
    <3>3. r.index \in 0..b /\ b \in Int
      BY <1>4, <3>2, PageConstants DEF PageSource!Pages
    <3>4. p \in 0..b
      BY <2>1, <3>1, <3>3
    <3> QED
      BY <1>4, <2>1, <3>1, <3>2, <3>4 DEF PageSource!Pages
  <2>3. prev = pageLut[p] /\ prev \in -1..(Len(freeList) - 1)
    BY <1>2, <1>6, <2>1, <2>2 DEF SoundList
  <2>4. CASE prev = -1
    <3>1. ASSUME NEW y \in F, y.index + y.count = r.index PROVE FALSE
      <4>1. PICK k \in 1..Len(freeList) : y = freeList[k]
        BY <1>1 DEF Members
      <4>2. y.index \in Nat /\ y.count \in Nat \ {0} /\ y \in Ranges
        BY <1>2, RangeFacts
      <4>3. p = y.index + y.count - 1
        BY <1>4, <2>1, <3>1, <4>2, SMTT(30)
      <4>4. p \in PageSource!Ends(y)
        BY <4>2, <4>3, PagesAre
      <4>5. pageLut[p] = k - 1
        BY <1>2, <2>2, <4>1, <4>4 DEF SoundList
      <4>6. k \in Nat /\ k - 1 # -1
        BY <1>3, <4>1
      <4> QED
        BY <2>3, <2>4, <4>5, <4>6
    <3> QED
      BY <1>1, <2>3, <2>4, <3>1 DEF FreeLeft, RangeAt
  <2>5. CASE prev # -1
    <3>1. PICK y : y = freeList[prev + 1]
      OBVIOUS
    <3>2. prev + 1 \in 1..Len(freeList) /\ y \in F
      <4>1. prev + 1 \in 1..Len(freeList)
        BY <1>3, <2>3, <2>5
      <4> QED
        BY <1>1, <3>1, <4>1 DEF Members
    <3>3. y.index \in Nat /\ y.count \in Nat \ {0} /\ y \in Ranges
      BY <1>2, <3>2, RangeFacts
    <3>4. p \in PageSource!Ends(y)
      <4>1. prev = (prev + 1) - 1
        BY <1>3, <2>3
      <4> QED
        BY <1>2, <2>2, <2>3, <3>1, <3>2, <4>1 DEF SoundList
    <3>5. p \in PageSource!PagesOf(y)
      BY <3>3, <3>4, PagesAre
    <3>6. r.index \notin PageSource!PagesOf(y)
      <4>1. r.index \in PageSource!PagesOf(r)
        BY <1>4, PagesAre
      <4>2. r.index \in PageSource!PagesOf(y) => y = r
        BY <1>2, <1>4, <3>2, <4>1, RangeFacts
      <4> QED
        BY <1>2, <3>2, <4>2 DEF PageSets
    <3>7. y.index + y.count = r.index
      <4>1. y.index <= p /\ p < y.index + y.count
        BY <3>3, <3>5, PagesAre
      <4>2. ~(y.index <= r.index /\ r.index < y.index + y.count)
        BY <1>4, <3>3, <3>6, PagesAre
      <4> QED
        BY <1>4, <2>2, <3>3, <4>1, <4>2
    <3> QED
      BY <1>1, <1>6, <2>3, <2>5, <3>1, <3>2, <3>7 DEF FreeLeft, RangeAt
  <2> QED
    BY <2>4, <2>5
<1> QED
  BY <1>5, <1>6

\* and the one to the right.
LEMMA RightNeighbour ==
  ASSUME PageInv, NEW r \in allocated, NEW end, end = r.index + r.count,
         NEW next, next = IF PageSource!Inside(end) THEN pageLut[end] ELSE -1,
         NEW last, last = IF next = -1 THEN end ELSE freeList[next + 1].index + freeList[next + 1].count
  PROVE  next \in -1..(Len(freeList) - 1) /\ FreeRight(RangeAt(next), Members(freeList), r, last)
<1>1. PICK F : F = Members(freeList)
  OBVIOUS
<1>2. /\ GoodSizes(PageCounts) /\ PageSets(allocated, F, PageCounts)
      /\ SoundList(freeList, pageLut)
  BY <1>1, ChunkFields DEF PageInv
<1>3. freeList \in Seq(Ranges) /\ Len(freeList) \in Nat
  BY ListRanges
<1>4. /\ r.index \in Nat /\ r.count \in Nat \ {0} /\ r \in Ranges /\ Within(r, PageCounts)
      /\ end \in Nat
  BY <1>2, RangeFacts
<1>5. CASE ~PageSource!Inside(end)
  <2>1. next = -1 /\ last = r.index + r.count /\ RangeAt(next) = {}
    BY <1>5 DEF RangeAt
  <2> QED
    BY <1>3, <1>5, <2>1 DEF FreeRight
<1>6. CASE PageSource!Inside(end)
  <2>1. end \in PageSource!Pages
    <3>1. PICK b : b = MaxChunks * ChunkPages
      OBVIOUS
    <3>2. b \in Nat
      BY <3>1, PageConstants
    <3>3. end <= b
      BY <1>2, <1>4, <3>1, RangeChunk
    <3>4. end # b
      <4>1. MaxChunks \in Nat
        BY PageConstants
      <4>2. ~PageSource!Inside(Start(MaxChunks))
        BY <4>1, Starts
      <4> QED
        BY <1>6, <3>1, <4>2 DEF Start
    <3>5. end \in 0..(b - 1)
      <4>1. end \in Nat /\ end < b /\ 0 <= end
        BY <1>4, <3>2, <3>3, <3>4
      <4> QED
        BY <3>2, <4>1
    <3> QED
      BY <3>1, <3>5 DEF PageSource!Pages
  <2>2. next = pageLut[end] /\ next \in -1..(Len(freeList) - 1)
    BY <1>2, <1>6, <2>1 DEF SoundList
  <2>3. CASE next = -1
    <3>1. ASSUME NEW y \in F, y.index = end PROVE FALSE
      <4>1. PICK k \in 1..Len(freeList) : y = freeList[k]
        BY <1>1 DEF Members
      <4>2. y.index \in Nat /\ y.count \in Nat \ {0} /\ y \in Ranges
        BY <1>2, RangeFacts
      <4>3. end \in PageSource!Ends(y)
        BY <3>1, <4>2, PagesAre
      <4>4. pageLut[end] = k - 1
        BY <1>2, <2>1, <4>1, <4>3 DEF SoundList
      <4>5. k \in Nat /\ k - 1 # -1
        BY <1>3, <4>1
      <4> QED
        BY <2>2, <2>3, <4>4, <4>5
    <3> QED
      BY <1>1, <2>2, <2>3, <3>1 DEF FreeRight, RangeAt
  <2>4. CASE next # -1
    <3>1. PICK y : y = freeList[next + 1]
      OBVIOUS
    <3>2. next + 1 \in 1..Len(freeList) /\ y \in F
      <4>1. next + 1 \in 1..Len(freeList)
        BY <1>3, <2>2, <2>4
      <4> QED
        BY <1>1, <3>1, <4>1 DEF Members
    <3>3. y.index \in Nat /\ y.count \in Nat \ {0} /\ y \in Ranges
      BY <1>2, <3>2, RangeFacts
    <3>4. end \in PageSource!Ends(y)
      <4>1. next = (next + 1) - 1
        BY <1>3, <2>2
      <4> QED
        BY <1>2, <2>1, <2>2, <3>1, <3>2, <4>1 DEF SoundList
    <3>5. end \in PageSource!PagesOf(y)
      BY <3>3, <3>4, PagesAre
    <3>6. PICK q : q = end - 1
      OBVIOUS
    <3>7. q \in Nat /\ q + 1 = end /\ q \in PageSource!PagesOf(r)
      <4>1. q \in Nat /\ r.index <= q /\ q < r.index + r.count /\ q + 1 = end
        BY <1>4, <3>6
      <4> QED
        BY <1>4, <4>1, PagesAre
    <3>8. q \notin PageSource!PagesOf(y)
      <4>1. q \in PageSource!Pages
        BY <1>2, <3>7, RangeFacts
      <4>2. q \in PageSource!PagesOf(y) => y = r
        BY <1>2, <3>2, <3>7, <4>1, RangeFacts
      <4> QED
        BY <1>2, <3>2, <4>2 DEF PageSets
    <3>9. y.index = end
      <4>1. y.index <= end /\ end < y.index + y.count
        BY <3>3, <3>5, PagesAre
      <4>2. ~(y.index <= q /\ q < y.index + y.count)
        BY <3>3, <3>7, <3>8, PagesAre
      <4> QED
        BY <1>4, <3>3, <3>7, <4>1, <4>2
    <3> QED
      BY <1>1, <1>6, <2>2, <2>4, <3>1, <3>2, <3>9 DEF FreeRight, RangeAt
  <2> QED
    BY <2>3, <2>4
<1> QED
  BY <1>5, <1>6

-----------------------------------------------------------------------------
(* Freeing *)

\* The smaller and the larger of two indices.
LEMMA OfTwo ==
  ASSUME NEW a \in Int, NEW b \in Int
  PROVE  /\ PageSource!Max({a, b}) = IF a >= b THEN a ELSE b
         /\ PageSource!Min({a, b}) = IF a <= b THEN a ELSE b
  BY DEF PageSource!Max, PageSource!Min

\* What freePages makes of the list when the free ranges at prev and next are beside the
\* one that is freed.
Joined(prev, next, x) ==
  IF prev = -1 THEN PageSource!InsertFreeRange(PageSource!List, x, next)
  ELSE IF next = -1 THEN PageSource!InsertFreeRange(PageSource!List, x, prev)
  ELSE PageSource!InsertFreeRange(
         PageSource!InsertFreeRange(PageSource!List, PageSource!FreeRange(0, 0), PageSource!Max({prev, next})),
         x, PageSource!Min({prev, next}))

ListHas(res, R) == SoundList(res.list, res.lut) /\ Members(res.list) = R

\* A range may take the place of one that it has all pages of.
MayReplace(x, P, N) ==
  /\ x \in Ranges /\ x.count >= 1 /\ PageSource!Ends(x) \subseteq PageSource!Pages
  /\ \A y \in Members(freeList), p \in PageSource!Pages :
       p \in PageSource!PagesOf(x) /\ p \in PageSource!PagesOf(y) => y \in P \union N

\* The list with one range replaced by the joined one, or with the joined one added,
LEMMA JoinedOne ==
  ASSUME PageInv, NEW at \in -1..(Len(freeList) - 1), NEW x, MayReplace(x, RangeAt(at), {}),
         NEW res, res = PageSource!InsertFreeRange(PageSource!List, x, at)
  PROVE  ListHas(res, (Members(freeList) \ RangeAt(at)) \union {x})
<1>1. OnlyReplaces(freeList, x, at)
  BY DEF MayReplace, OnlyReplaces, RangeAt
<1>2. MayInsert(freeList, pageLut, x, at)
  BY <1>1, InsertAllowed DEF MayReplace, PageInv
<1>3. PageSource!List = [list |-> freeList, lut |-> pageLut]
  BY DEF PageSource!List
<1>4. Inserted(freeList, x, at, res)
  BY <1>2, <1>3, InsertRange
<1>5. x.count # 0
  BY DEF MayReplace, Ranges
<1> QED
  BY <1>4, <1>5 DEF Inserted, RangeSet, RangeAt, ListHas

\* or with two that it takes the place of.
LEMMA JoinedTwo ==
  ASSUME PageInv, NEW lo \in 0..(Len(freeList) - 1), NEW hi \in 0..(Len(freeList) - 1), lo < hi,
         NEW x, MayReplace(x, RangeAt(lo), RangeAt(hi)),
         NEW s, s = PageSource!InsertFreeRange(PageSource!List, PageSource!FreeRange(0, 0), hi),
         NEW res, res = PageSource!InsertFreeRange(s, x, lo)
  PROVE  ListHas(res, (Members(freeList) \ (RangeAt(lo) \union RangeAt(hi))) \union {x})
<1>1. PICK F, empty : F = Members(freeList) /\ empty = PageSource!FreeRange(0, 0)
  OBVIOUS
<1>2. empty \in Ranges /\ empty.count = 0 /\ empty = [index |-> 0, count |-> 0]
  BY <1>1 DEF Ranges, PageSource!FreeRange
<1>3. SoundList(freeList, pageLut) /\ Len(freeList) \in Nat
  BY ListRanges DEF PageInv
<1>4. hi \in Nat /\ lo \in Nat /\ hi + 1 \in 1..Len(freeList) /\ lo + 1 \in 1..Len(freeList)
      /\ hi # -1 /\ lo # -1 /\ hi \in -1..(Len(freeList) - 1) /\ lo + 1 # hi + 1
      /\ lo + 1 \in 1..hi /\ lo \in -1..(Len(freeList) - 2)
  BY <1>3
<1>5. MayInsert(freeList, pageLut, empty, hi)
  <2>1. PageSource!Ends(empty) = {}
    BY <1>2 DEF PageSource!Ends
  <2> QED
    BY <1>2, <1>3, <1>4, <2>1 DEF MayInsert
<1>6. PageSource!List = [list |-> freeList, lut |-> pageLut]
  BY DEF PageSource!List
<1>7. Inserted(freeList, empty, hi, s)
  BY <1>1, <1>5, <1>6, InsertRange
<1>8. RangeAt(hi) = {freeList[hi + 1]} /\ RangeAt(lo) = {freeList[lo + 1]}
  BY <1>4 DEF RangeAt
<1>9. PICK seq, table : seq = s.list /\ table = s.lut
  OBVIOUS
<1>10. /\ SoundList(seq, table) /\ Members(seq) = F \ RangeAt(hi)
       /\ Len(seq) = Len(freeList) - 1 /\ seq[lo + 1] = freeList[lo + 1]
  <2>1. SoundList(seq, table) /\ Len(seq) = Len(freeList) - 1
        /\ \A j \in 1..hi : seq[j] = freeList[j]
    BY <1>2, <1>7, <1>9 DEF Inserted
  <2>2. Members(seq) = (F \ {freeList[hi + 1]}) \union {}
    BY <1>1, <1>2, <1>4, <1>7, <1>9 DEF Inserted, RangeSet
  <2> QED
    BY <1>4, <1>8, <2>1, <2>2
<1>11. s = [list |-> seq, lut |-> table]
  BY <1>9, InsertMakes
<1>12. OnlyReplaces(seq, x, lo)
  <2> SUFFICES ASSUME NEW y \in Members(seq), NEW p \in PageSource!Pages,
                      p \in PageSource!PagesOf(x), p \in PageSource!PagesOf(y)
               PROVE  lo # -1 /\ y = seq[lo + 1]
    BY DEF OnlyReplaces
  <2>1. y \in F /\ y \notin RangeAt(hi)
    BY <1>10
  <2>2. y \in RangeAt(lo)
    BY <1>1, <2>1 DEF MayReplace
  <2> QED
    BY <1>4, <1>8, <1>10, <2>2
<1>13. lo \in -1..(Len(seq) - 1)
  BY <1>3, <1>4, <1>10
<1>14. MayInsert(seq, table, x, lo)
  BY <1>10, <1>12, <1>13, InsertAllowed DEF MayReplace
<1>15. Inserted(seq, x, lo, res)
  BY <1>11, <1>14, InsertRange
<1>16. x.count # 0
  BY DEF MayReplace, Ranges
<1>17. Members(res.list) = (Members(seq) \ {seq[lo + 1]}) \union {x}
  BY <1>4, <1>15, <1>16 DEF Inserted, RangeSet
<1>18. Members(res.list) = (F \ (RangeAt(lo) \union RangeAt(hi))) \union {x}
  BY <1>8, <1>10, <1>17
<1> QED
  BY <1>1, <1>15, <1>18 DEF Inserted, ListHas

\* Both as freePages does it.
LEMMA JoinedList ==
  ASSUME PageInv, NEW prev \in -1..(Len(freeList) - 1), NEW next \in -1..(Len(freeList) - 1),
         prev = next => prev = -1,
         NEW x, MayReplace(x, RangeAt(prev), RangeAt(next)), NEW res, res = Joined(prev, next, x)
  PROVE  ListHas(res, (Members(freeList) \ (RangeAt(prev) \union RangeAt(next))) \union {x})
<1>1. PICK F : F = Members(freeList)
  OBVIOUS
<1>2. Len(freeList) \in Nat
  BY ListRanges
<1> SUFFICES ListHas(res, (F \ (RangeAt(prev) \union RangeAt(next))) \union {x})
  BY <1>1
<1>3. CASE prev = -1
  <2>1. RangeAt(prev) = {}
    BY <1>3 DEF RangeAt
  <2>2. MayReplace(x, RangeAt(next), {})
    BY <2>1 DEF MayReplace
  <2>3. res = PageSource!InsertFreeRange(PageSource!List, x, next)
    BY <1>3 DEF Joined
  <2>4. ListHas(res, (F \ RangeAt(next)) \union {x})
    BY <1>1, <2>2, <2>3, JoinedOne
  <2>5. RangeAt(prev) \union RangeAt(next) = RangeAt(next)
    BY <2>1
  <2> QED
    BY <2>4, <2>5
<1>4. CASE prev # -1 /\ next = -1
  <2>1. RangeAt(next) = {}
    BY <1>4 DEF RangeAt
  <2>2. MayReplace(x, RangeAt(prev), {})
    BY <2>1 DEF MayReplace
  <2>3. res = PageSource!InsertFreeRange(PageSource!List, x, prev)
    BY <1>4 DEF Joined
  <2>4. ListHas(res, (F \ RangeAt(prev)) \union {x})
    BY <1>1, <2>2, <2>3, JoinedOne
  <2>5. RangeAt(prev) \union RangeAt(next) = RangeAt(prev)
    BY <2>1
  <2> QED
    BY <2>4, <2>5
<1>5. CASE prev # -1 /\ next # -1
  <2>1. prev \in 0..(Len(freeList) - 1) /\ next \in 0..(Len(freeList) - 1) /\ prev # next
    BY <1>2, <1>5
  <2>2. PICK hi, lo : hi = PageSource!Max({prev, next}) /\ lo = PageSource!Min({prev, next})
    OBVIOUS
  <2>3. PICK s : s = PageSource!InsertFreeRange(PageSource!List, PageSource!FreeRange(0, 0), hi)
    OBVIOUS
  <2>4. res = PageSource!InsertFreeRange(s, x, lo)
    BY <1>5, <2>2, <2>3 DEF Joined
  <2>5. prev \in Int /\ next \in Int
    BY <2>1
  <2>6. /\ hi = IF prev >= next THEN prev ELSE next
        /\ lo = IF prev <= next THEN prev ELSE next
    BY <2>2, <2>5, OfTwo
  <2>7. \/ hi = prev /\ lo = next /\ lo < hi
        \/ hi = next /\ lo = prev /\ lo < hi
    BY <2>1, <2>5, <2>6
  <2>8. lo \in 0..(Len(freeList) - 1) /\ hi \in 0..(Len(freeList) - 1) /\ lo < hi
    BY <2>1, <2>7
  <2>9. RangeAt(prev) \union RangeAt(next) = RangeAt(lo) \union RangeAt(hi)
    BY <2>7
  <2>10. MayReplace(x, RangeAt(lo), RangeAt(hi))
    BY <2>9 DEF MayReplace
  <2>11. ListHas(res, (F \ (RangeAt(lo) \union RangeAt(hi))) \union {x})
    BY <1>1, <2>3, <2>4, <2>8, <2>10, JoinedTwo
  <2> QED
    BY <2>9, <2>11
<1> QED
  BY <1>3, <1>4, <1>5

\* freePages joins the range with the free ones beside it.
Frees(r, prev, next, first, last, x, res) ==
  /\ prev = IF PageSource!Inside(r.index) THEN pageLut[r.index - 1] ELSE -1
  /\ next = IF PageSource!Inside(r.index + r.count) THEN pageLut[r.index + r.count] ELSE -1
  /\ first = IF prev = -1 THEN r.index ELSE freeList[prev + 1].index
  /\ last = IF next = -1 THEN r.index + r.count ELSE freeList[next + 1].index + freeList[next + 1].count
  /\ x = [index |-> first, count |-> last - first]
  /\ res = Joined(prev, next, x)

\* What freePages does is that.
LEMMA FreeParts ==
  ASSUME NEW r, PageSource!FreePages(r)
  PROVE  /\ r \in allocated
         /\ \E prev, next, first, last, x, res :
              /\ Frees(r, prev, next, first, last, x, res)
              /\ freeList' = res.list /\ pageLut' = res.lut
         /\ allocated' = allocated \ {r}
         /\ chunks' = PageSource!UsePages(PageSource!ChunkOf(r.index), -r.count)
         /\ freeChunk' = freeChunk
<1>1. PICK prev, next :
        /\ prev = IF PageSource!Inside(r.index) THEN pageLut[r.index - 1] ELSE -1
        /\ next = IF PageSource!Inside(r.index + r.count) THEN pageLut[r.index + r.count] ELSE -1
  OBVIOUS
<1>2. PICK first, last :
        /\ first = IF prev = -1 THEN r.index ELSE freeList[prev + 1].index
        /\ last = IF next = -1 THEN r.index + r.count
                  ELSE freeList[next + 1].index + freeList[next + 1].count
  OBVIOUS
<1>3. PICK x : x = [index |-> first, count |-> last - first]
  OBVIOUS
<1>4. PICK res : res = Joined(prev, next, x)
  OBVIOUS
<1>5. Frees(r, prev, next, first, last, x, res)
  BY <1>1, <1>2, <1>3, <1>4 DEF Frees
<1>6. PageSource!SetList(res)
  BY <1>1, <1>2, <1>3, <1>4, Zenon
     DEF PageSource!FreePages, Joined, PageSource!Absent, PageSource!FreeRange
<1>7. freeList' = res.list /\ pageLut' = res.lut
  BY <1>6 DEF PageSource!SetList
<1>8. /\ r \in allocated /\ allocated' = allocated \ {r}
      /\ chunks' = PageSource!UsePages(PageSource!ChunkOf(r.index), -r.count)
      /\ freeChunk' = freeChunk
  BY DEF PageSource!FreePages
<1> QED
  BY <1>5, <1>7, <1>8

\* The list and the sets of ranges after that.
FreedSets(r, res) ==
  /\ SoundList(res.list, res.lut)
  /\ PageSets(allocated \ {r}, Members(res.list), PageCounts)

\* The list is sound then, and the ranges share the pages out without the freed one.
LEMMA FreedRange ==
  ASSUME PageInv, NEW r \in allocated, NEW prev, NEW next, NEW first, NEW last, NEW x, NEW res,
         Frees(r, prev, next, first, last, x, res)
  PROVE  FreedSets(r, res)
<1>1. PICK F, P, N : F = Members(freeList) /\ P = RangeAt(prev) /\ N = RangeAt(next)
  OBVIOUS
<1>2. GoodSizes(PageCounts) /\ PageSets(allocated, F, PageCounts)
  BY <1>1, ChunkFields DEF PageInv
<1>3. prev \in -1..(Len(freeList) - 1) /\ FreeLeft(P, F, r, first)
  BY <1>1, LeftNeighbour DEF Frees
<1>4. next \in -1..(Len(freeList) - 1) /\ FreeRight(N, F, r, last)
  <2>1. PICK end : end = r.index + r.count
    OBVIOUS
  <2>2. /\ next = IF PageSource!Inside(end) THEN pageLut[end] ELSE -1
        /\ last = IF next = -1 THEN end ELSE freeList[next + 1].index + freeList[next + 1].count
    BY <2>1 DEF Frees
  <2> QED
    BY <1>1, <2>1, <2>2, RightNeighbour
<1>5. x = [index |-> first, count |-> last - first] /\ res = Joined(prev, next, x)
  BY DEF Frees
<1>6. PageSets(allocated \ {r}, (F \ (P \union N)) \union {x}, PageCounts)
  BY <1>2, <1>3, <1>4, <1>5, FreeSets
<1>7. /\ \A y \in allocated \union F : Within(y, PageCounts)
      /\ r \in Ranges /\ r.index \in Nat /\ r.count \in Nat \ {0}
  BY <1>2, RangeFacts
<1>8. Merges(P, N, F, r, first, last, x, PageCounts)
  <2>1. Within(r, PageCounts) /\ \A y \in F : Within(y, PageCounts)
    BY <1>7
  <2> QED
    BY <1>2, <1>3, <1>4, <1>5, <2>1, MergedRange
<1>9. /\ x \in Ranges /\ x.count >= 1 /\ P \subseteq F /\ N \subseteq F
      /\ PageSource!Ends(x) \subseteq PageSource!Pages
  <2>1. x \in Ranges /\ x.count >= 1 /\ P \subseteq F /\ N \subseteq F
    BY <1>8 DEF Merges, Within
  <2>2. x \in {x} \union ((F \ (P \union N)) \union {x})
    OBVIOUS
  <2>3. PageSource!Ends(x) \subseteq PageSource!Pages
    BY <1>2, <1>6, RangeFacts
  <2> QED
    BY <2>1, <2>3
<1>10. MayReplace(x, P, N)
  <2> SUFFICES ASSUME NEW y \in F, NEW p \in PageSource!Pages,
                      p \in PageSource!PagesOf(x), p \in PageSource!PagesOf(y)
               PROVE  y \in P \union N
    BY <1>1, <1>9 DEF MayReplace
  <2>1. p \in Nat
    BY DEF PageSource!Pages
  <2>2. PICK z \in {r} \union P \union N : p \in PageSource!PagesOf(z)
    BY <1>8, <2>1 DEF Merges
  <2>3. y = z
    BY <1>2, <1>9, <2>2, RangeFacts
  <2>4. y # r
    BY <1>2 DEF PageSets
  <2> QED
    BY <2>2, <2>3, <2>4
<1>11. prev = next => prev = -1
  <2> SUFFICES ASSUME prev = next, prev # -1 PROVE FALSE
    OBVIOUS
  <2>1. PICK y : y = freeList[prev + 1]
    OBVIOUS
  <2>2. P = {y} /\ N = {y}
    BY <1>1, <2>1 DEF RangeAt
  <2>3. y.index + y.count = r.index
    BY <1>3, <2>2 DEF FreeLeft
  <2>4. y.index = r.index + r.count
    BY <1>4, <2>2 DEF FreeRight
  <2>5. y \in F
    BY <1>9, <2>2
  <2>6. y.index \in Nat /\ y.count \in Nat
    BY <1>2, <2>5, RangeFacts
  <2> QED
    BY <1>7, <2>3, <2>4, <2>6
<1>12. ListHas(res, (F \ (P \union N)) \union {x})
  <2>1. MayReplace(x, RangeAt(prev), RangeAt(next))
    BY <1>1, <1>10
  <2>2. ListHas(res, (Members(freeList) \ (RangeAt(prev) \union RangeAt(next))) \union {x})
    BY <1>3, <1>4, <1>5, <1>11, <2>1, JoinedList
  <2> QED
    BY <1>1, <2>2
<1> QED
  BY <1>6, <1>12 DEF FreedSets, ListHas

\* Freeing keeps the invariant.
LEMMA FreeStep ==
  ASSUME PageInv, NEW r, PageSource!FreePages(r)
  PROVE  PageInv'
<1>1. PICK prev, next, first, last, x, res :
        Frees(r, prev, next, first, last, x, res) /\ freeList' = res.list /\ pageLut' = res.lut
  BY FreeParts
<1>2. /\ r \in allocated /\ allocated' = allocated \ {r}
      /\ chunks' = PageSource!UsePages(PageSource!ChunkOf(r.index), -r.count)
      /\ freeChunk' = freeChunk
  BY FreeParts
<1>3. FreedSets(r, res)
  BY <1>1, <1>2, FreedRange
<1>4. PICK size, A, c : size = PageCounts /\ A = allocated \ {r} /\ c = PageSource!ChunkOf(r.index)
  OBVIOUS
<1>5. GoodSizes(size) /\ PageSets(allocated, Members(freeList), size)
  BY <1>4, ChunkFields DEF PageInv
<1>6. /\ \A y \in allocated : Within(y, size)
      /\ r \in Ranges /\ r.index \in Nat /\ r.count \in Nat \ {0}
  BY <1>2, <1>5, RangeFacts
<1>7. TakesMore(A, r, c)
  <2>1. Within(r, size) /\ \A y \in A : Within(y, size)
    BY <1>2, <1>4, <1>6
  <2>2. \A y \in A, p \in Nat : p \in PageSource!PagesOf(r) => p \notin PageSource!PagesOf(y)
    BY <1>2, <1>4, <1>5 DEF PageSets, Partition, Disjoint
  <2> QED
    BY <1>4, <1>5, <2>1, <2>2, TakenMore
<1>8. A \union {r} = allocated
  BY <1>2, <1>4
<1>9. c \in PageSource!ChunkIds
  <2>1. c \in DOMAIN size
    BY <1>2, <1>4, <1>6 DEF Within
  <2> QED
    BY <1>4, <2>1, ChunkFields DEF PageInv
<1>10. ChunkTypes' /\ UnusedChunks' /\ UsedPages' /\ PageCounts' = PageCounts
  <2>1. PICK d : d = -r.count
    OBVIOUS
  <2>2. d \in Int /\ d + r.count = 0
    BY <1>6, <2>1
  <2>3. /\ Cardinality(TakenPages(allocated, c)) = Cardinality(TakenPages(A, c)) + r.count
        /\ \A i : i # c => TakenPages(A, i) = TakenPages(allocated, i)
        /\ Cardinality(TakenPages(A, c)) \in Nat
    BY <1>7, <1>8 DEF TakesMore
  <2>4. /\ Cardinality(TakenPages(allocated', c)) \in Nat
        /\ Cardinality(TakenPages(allocated', c)) = Cardinality(TakenPages(allocated, c)) + d
        /\ \A i : i # c => TakenPages(allocated', i) = TakenPages(allocated, i)
    <3>1. allocated' = A
      BY <1>2, <1>4
    <3>2. Cardinality(TakenPages(A, c)) = Cardinality(TakenPages(allocated, c)) + d
      BY <1>6, <2>2, <2>3
    <3> QED
      BY <2>3, <3>1, <3>2
  <2>5. chunks' = PageSource!UsePages(c, d)
    BY <1>2, <1>4, <2>1
  <2> QED
    BY <1>2, <1>9, <2>2, <2>4, <2>5, PagesCounted DEF PageInv
<1>11. SoundList(freeList, pageLut)'
  BY <1>1, <1>3 DEF FreedSets
<1>12. PageSets(allocated, Members(freeList), PageCounts)'
  BY <1>1, <1>2, <1>3, <1>10 DEF FreedSets
<1> QED
  BY <1>10, <1>11, <1>12 DEF PageInv

-----------------------------------------------------------------------------
(* Chunks that come and go *)

\* The range of all pages of a chunk of n pages.
WholeChunk(i, n) == [index |-> Start(i), count |-> n]

\* The sizes differ for one chunk.
OtherSize(size, size2, i, n) ==
  /\ i \in 0..(MaxChunks - 1) /\ n \in 0..ChunkPages
  /\ DOMAIN size2 = DOMAIN size \union {i} /\ size2[i] = n
  /\ \A k \in DOMAIN size : k # i => size2[k] = size[k]

\* No range begins in a chunk without pages.
LEMMA NoRange ==
  ASSUME NEW size, GoodSizes(size), NEW r, Within(r, size), NEW i, i \in DOMAIN size => size[i] = 0
  PROVE  PageSource!ChunkOf(r.index) # i
<1> SUFFICES ASSUME PageSource!ChunkOf(r.index) = i PROVE FALSE
  OBVIOUS
<1>1. PICK b : b = Start(i)
  OBVIOUS
<1>2. /\ i \in DOMAIN size /\ b \in Nat /\ r.index \in Nat /\ r.count \in Nat \ {0}
      /\ b <= r.index /\ r.index + r.count <= b + size[i]
  BY <1>1, RangeChunk
<1>3. size[i] = 0
  BY <1>2
<1> QED
  BY <1>2, <1>3

\* The pages of a whole chunk.
LEMMA WholeChunkPages ==
  ASSUME NEW i \in 0..(MaxChunks - 1), NEW n \in 1..ChunkPages
  PROVE  /\ WholeChunk(i, n) \in Ranges /\ i \in Nat /\ n \in Nat /\ Start(i) \in Nat
         /\ \A p : p \in PageSource!PagesOf(WholeChunk(i, n))
                     <=> p \in Nat /\ Start(i) <= p /\ p < Start(i) + n
         /\ \A p \in PageSource!PagesOf(WholeChunk(i, n)) : PageSource!ChunkOf(p) = i
<1>1. i \in Nat /\ n \in Nat /\ n <= ChunkPages /\ ChunkPages \in Nat
  BY PageConstants
<1>2. Start(i) \in Nat
  BY <1>1, Starts
<1>3. WholeChunk(i, n) \in Ranges
  BY <1>1, <1>2 DEF WholeChunk, Ranges
<1>4. \A p : p \in PageSource!PagesOf(WholeChunk(i, n)) <=> p \in Nat /\ Start(i) <= p /\ p < Start(i) + n
  BY <1>3, PagesAre DEF WholeChunk
<1>5. ASSUME NEW p \in PageSource!PagesOf(WholeChunk(i, n)) PROVE PageSource!ChunkOf(p) = i
  <2>1. p \in Nat /\ Start(i) <= p /\ p < Start(i) + n
    BY <1>4
  <2>2. p < Start(i) + ChunkPages
    BY <1>1, <1>2, <2>1
  <2> QED
    BY <1>1, <2>1, <2>2, ChunkUnique
<1> QED
  BY <1>1, <1>2, <1>3, <1>4, <1>5

\* A chunk that gets pages has them in one free range.
LEMMA AddedSets ==
  ASSUME NEW size, GoodSizes(size), NEW A, NEW F, PageSets(A, F, size), NEW size2, NEW i, NEW n,
         OtherSize(size, size2, i, n), n # 0, i \in DOMAIN size => size[i] = 0
  PROVE  PageSets(A, F \union {WholeChunk(i, n)}, size2)
<1>1. PICK y, R : y = WholeChunk(i, n) /\ R = A \union F
  OBVIOUS
<1>2. i \in 0..(MaxChunks - 1) /\ n \in 1..ChunkPages /\ i \in Nat /\ n \in Nat
  BY PageConstants DEF OtherSize
<1>3. /\ y \in Ranges /\ Start(i) \in Nat /\ y.index = Start(i) /\ y.count = n
      /\ \A p : p \in PageSource!PagesOf(y) <=> p \in Nat /\ Start(i) <= p /\ p < Start(i) + n
      /\ \A p \in PageSource!PagesOf(y) : PageSource!ChunkOf(p) = i
  <2>1. y.index = Start(i) /\ y.count = n
    BY <1>1 DEF WholeChunk
  <2> QED
    BY <1>1, <1>2, <2>1, WholeChunkPages
<1>4. \A r \in R : Within(r, size) /\ PageSource!ChunkOf(r.index) # i
  <2>1. \A r \in R : Within(r, size)
    BY <1>1, RangeFacts
  <2> QED
    BY <2>1, NoRange
<1>5. \A r \in R : Within(r, size2)
  <2>1. \A k \in DOMAIN size : k # i => k \in DOMAIN size2 /\ size2[k] = size[k]
    BY DEF OtherSize
  <2> QED
    BY <1>4, <2>1 DEF Within
<1>6. Within(y, size2)
  <2>1. PageSource!ChunkOf(y.index) = i
    BY <1>2, <1>3, Starts
  <2>2. i \in DOMAIN size2 /\ size2[i] = n
    BY DEF OtherSize
  <2>3. y.count >= 1
    BY <1>2, <1>3
  <2> QED
    BY <1>2, <1>3, <2>1, <2>2, <2>3 DEF Within
<1>7. ASSUME NEW r \in R, NEW p \in PageSource!PagesOf(r)
      PROVE  p \notin PageSource!PagesOf(y)
  <2>1. PageSource!ChunkOf(p) = PageSource!ChunkOf(r.index)
    BY <1>1, RangeFacts
  <2> QED
    BY <1>3, <1>4, <2>1
<1>8. Disjoint(R \union {y})
  <2>1. Disjoint(R)
    BY <1>1 DEF PageSets, Partition
  <2> QED
    BY <1>7, <2>1 DEF Disjoint
<1>9. Covers(R \union {y}, size2)
  <2> SUFFICES ASSUME NEW k \in DOMAIN size2, NEW p \in Nat, Start(k) <= p, p < Start(k) + size2[k]
               PROVE  \E r \in R \union {y} : p \in PageSource!PagesOf(r)
    BY DEF Covers
  <2>1. CASE k = i
    <3>1. size2[k] = n
      BY <2>1 DEF OtherSize
    <3> QED
      BY <1>3, <2>1, <3>1
  <2>2. CASE k # i
    <3>1. k \in DOMAIN size /\ size2[k] = size[k]
      BY <2>2 DEF OtherSize
    <3> QED
      BY <1>1, <3>1 DEF PageSets, Partition, Covers
  <2> QED
    BY <2>1, <2>2
<1>10. Partition(A \union (F \union {y}), size2)
  <2>1. A \union (F \union {y}) = R \union {y}
    BY <1>1
  <2> QED
    BY <1>5, <1>6, <1>8, <1>9, <2>1 DEF Partition
<1>11. y \notin R
  <2>1. PageSource!ChunkOf(y.index) = i
    BY <1>2, <1>3, Starts
  <2> QED
    BY <1>4, <2>1
<1>12. Apart(F \union {y})
  <2> SUFFICES ASSUME NEW r \in F \union {y}, NEW s \in F \union {y}, r.index + r.count = s.index,
                      PageSource!Inside(s.index)
               PROVE  FALSE
    BY DEF Apart
  <2>1. ~PageSource!Inside(y.index)
    BY <1>2, <1>3, Starts
  <2>2. s \in F
    BY <2>1
  <2>3. CASE r \in F
    BY <2>2, <2>3 DEF PageSets, Apart
  <2>4. CASE r = y
    <3>1. s.index = Start(i) + n /\ s.index \in Nat /\ PageSource!ChunkOf(s.index) # i
      BY <1>1, <1>2, <1>3, <1>4, <2>2, <2>4
    <3>2. CASE n = ChunkPages
      <4>1. s.index = Start(i + 1) /\ i + 1 \in Nat
        BY <1>2, <3>1, <3>2, Starts
      <4> QED
        BY <4>1, Starts
    <3>3. CASE n # ChunkPages
      <4>1. s.index < Start(i) + ChunkPages /\ Start(i) <= s.index
        BY <1>2, <1>3, <3>1, <3>3, PageConstants
      <4> QED
        BY <1>2, <3>1, <4>1, ChunkUnique
    <3> QED
      BY <3>2, <3>3
  <2> QED
    BY <2>3, <2>4
<1>13. A \intersect (F \union {y}) = {}
  BY <1>1, <1>11 DEF PageSets
<1> QED
  BY <1>1, <1>10, <1>12, <1>13 DEF PageSets

\* A chunk that no caller has a page of is one free range,
LEMMA EmptyChunkFree ==
  ASSUME NEW size, GoodSizes(size), NEW A, NEW F, PageSets(A, F, size), NEW i \in DOMAIN size,
         size[i] # 0, TakenPages(A, i) = {}
  PROVE  WholeChunk(i, size[i]) \in F
<1>1. PICK R, n, b : R = A \union F /\ n = size[i] /\ b = Start(i)
  OBVIOUS
<1>2. i \in 0..(MaxChunks - 1) /\ n \in 1..ChunkPages /\ i \in Nat /\ n \in Nat
  <2>1. i \in 0..(MaxChunks - 1) /\ n \in 0..ChunkPages
    BY <1>1 DEF GoodSizes
  <2> QED
    BY <1>1, <2>1, PageConstants
<1>3. b \in Nat /\ PageSource!ChunkOf(b) = i
  BY <1>1, <1>2, Starts
<1>4. PICK r \in R : b \in PageSource!PagesOf(r)
  <2>1. b <= b /\ b < b + n
    BY <1>2, <1>3
  <2> QED
    BY <1>1, <1>3, <2>1 DEF PageSets, Partition, Covers
<1>5. ASSUME NEW s \in R, PageSource!ChunkOf(s.index) = i PROVE s \in F
  <2> SUFFICES ASSUME s \in A PROVE FALSE
    BY <1>1
  <2>1. s \in Ranges /\ s.count \in Nat \ {0} /\ s.index \in Nat
    BY <1>1, RangeFacts
  <2>2. s.index \in PageSource!PagesOf(s)
    BY <2>1, PagesAre
  <2>3. s.index \in PageSource!Pages
    BY <1>1, <2>2, RangeFacts
  <2>4. s.index \in TakenPages(A, i)
    BY <1>5, <2>2, <2>3 DEF TakenPages
  <2> QED
    BY <2>4
<1>6. /\ Within(r, size) /\ r \in Ranges /\ r.index \in Nat /\ r.count \in Nat \ {0}
      /\ PageSource!ChunkOf(r.index) = i /\ r \in F
  <2>1. /\ Within(r, size) /\ r \in Ranges /\ r.index \in Nat /\ r.count \in Nat \ {0}
        /\ PageSource!ChunkOf(b) = PageSource!ChunkOf(r.index)
    BY <1>1, <1>4, RangeFacts
  <2> QED
    BY <1>3, <1>5, <2>1
<1>7. b <= r.index /\ r.index + r.count <= b + n
  BY <1>1, <1>6, RangeChunk
<1>8. r.index = b
  <2>1. r.index <= b
    BY <1>4, <1>6, PagesAre
  <2> QED
    BY <1>3, <1>6, <1>7, <2>1
<1>9. r.count = n
  <2> SUFFICES ASSUME r.index + r.count < b + n PROVE FALSE
    BY <1>2, <1>3, <1>6, <1>7, <1>8
  <2>1. PICK s \in R : s.index = r.index + r.count /\ PageSource!Inside(s.index)
    <3>1. Partition(R, size)
      BY <1>1 DEF PageSets
    <3> QED
      BY <1>1, <1>6, <3>1, NextRange
  <2>2. PageSource!ChunkOf(s.index) = i
    <3>1. s.index \in Nat /\ b <= s.index /\ s.index < b + n
      BY <1>1, <1>6, <1>8, <2>1, RangeFacts
    <3>2. s.index < b + ChunkPages
      BY <1>2, <1>3, <3>1, PageConstants
    <3> QED
      BY <1>1, <1>2, <3>1, <3>2, ChunkUnique
  <2>3. s \in F
    BY <1>5, <2>2
  <2> QED
    BY <1>6, <2>1, <2>3 DEF PageSets, Apart
<1>10. r = WholeChunk(i, n)
  <2>1. r = [index |-> r.index, count |-> r.count]
    BY <1>6 DEF Ranges
  <2> QED
    BY <1>1, <1>8, <1>9, <2>1 DEF WholeChunk
<1> QED
  BY <1>1, <1>6, <1>10

\* and it can go with the pages of the chunk.
LEMMA RemovedSets ==
  ASSUME NEW size, GoodSizes(size), NEW A, NEW F, PageSets(A, F, size), NEW i \in DOMAIN size,
         size[i] # 0, WholeChunk(i, size[i]) \in F, NEW size2, OtherSize(size, size2, i, 0)
  PROVE  PageSets(A, F \ {WholeChunk(i, size[i])}, size2)
<1>1. PICK y, R, n : y = WholeChunk(i, size[i]) /\ R = A \union F /\ n = size[i]
  OBVIOUS
<1>2. i \in 0..(MaxChunks - 1) /\ n \in 1..ChunkPages /\ i \in Nat
  <2>1. i \in 0..(MaxChunks - 1) /\ n \in 0..ChunkPages
    BY <1>1 DEF GoodSizes
  <2> QED
    BY <1>1, <2>1, PageConstants
<1>3. /\ \A p : p \in PageSource!PagesOf(y) <=> p \in Nat /\ Start(i) <= p /\ p < Start(i) + n
      /\ \A p \in PageSource!PagesOf(y) : PageSource!ChunkOf(p) = i
  BY <1>1, <1>2, WholeChunkPages
<1>4. y \notin A
  BY <1>1 DEF PageSets
<1>5. ASSUME NEW r \in R \ {y} PROVE PageSource!ChunkOf(r.index) # i
  <2> SUFFICES ASSUME PageSource!ChunkOf(r.index) = i PROVE FALSE
    OBVIOUS
  <2>1. Within(r, size) /\ r \in Ranges /\ r.index \in Nat /\ r.count \in Nat \ {0}
    BY <1>1, RangeFacts
  <2>2. Start(i) <= r.index /\ r.index + r.count <= Start(i) + n /\ Start(i) \in Nat
    BY <1>1, <2>1, RangeChunk
  <2>3. n \in Nat /\ r.index < Start(i) + n
    BY <1>2, <2>1, <2>2, PageConstants
  <2>4. r.index \in PageSource!PagesOf(y)
    BY <1>3, <2>1, <2>2, <2>3
  <2>5. r.index \in PageSource!PagesOf(r)
    BY <2>1, PagesAre
  <2>6. r.index \in PageSource!Pages
    BY <1>1, <2>5, RangeFacts
  <2>7. r = y
    BY <1>1, <2>4, <2>5, <2>6, RangeFacts
  <2> QED
    BY <2>7
<1>6. \A r \in R \ {y} : Within(r, size2)
  <2>1. \A r \in R \ {y} : Within(r, size)
    BY <1>1, RangeFacts
  <2>2. \A k \in DOMAIN size : k # i => k \in DOMAIN size2 /\ size2[k] = size[k]
    BY DEF OtherSize
  <2> QED
    BY <1>5, <2>1, <2>2 DEF Within
<1>7. Disjoint(R \ {y})
  BY <1>1 DEF PageSets, Partition, Disjoint
<1>8. Covers(R \ {y}, size2)
  <2> SUFFICES ASSUME NEW k \in DOMAIN size2, NEW p \in Nat, Start(k) <= p, p < Start(k) + size2[k]
               PROVE  \E r \in R \ {y} : p \in PageSource!PagesOf(r)
    BY DEF Covers
  <2>1. k # i
    <3> SUFFICES ASSUME k = i PROVE FALSE
      OBVIOUS
    <3>1. size2[k] = 0 /\ Start(k) \in Nat
      BY <1>2, Starts DEF OtherSize
    <3> QED
      BY <3>1
  <2>2. k \in DOMAIN size /\ size2[k] = size[k] /\ k \in Nat /\ size[k] \in 0..ChunkPages
    <3>1. k \in DOMAIN size /\ size2[k] = size[k]
      BY <2>1 DEF OtherSize
    <3>2. k \in 0..(MaxChunks - 1) /\ size[k] \in 0..ChunkPages
      BY <3>1 DEF GoodSizes
    <3> QED
      BY <3>1, <3>2
  <2>3. PICK r \in R : p \in PageSource!PagesOf(r)
    BY <1>1, <2>2 DEF PageSets, Partition, Covers
  <2>4. r # y
    <3>1. PageSource!ChunkOf(p) = k
      <4>1. Start(k) \in Nat /\ p < Start(k) + ChunkPages
        BY <2>2, PageConstants, Starts
      <4> QED
        BY <2>2, <4>1, ChunkUnique
    <3> QED
      BY <1>3, <2>1, <2>3, <3>1
  <2> QED
    BY <2>3, <2>4
<1>9. Partition(A \union (F \ {y}), size2)
  <2>1. A \union (F \ {y}) = R \ {y}
    BY <1>1, <1>4
  <2> QED
    BY <1>6, <1>7, <1>8, <2>1 DEF Partition
<1>10. A \intersect (F \ {y}) = {} /\ Apart(F \ {y})
  BY DEF PageSets, Apart
<1> QED
  BY <1>1, <1>9, <1>10 DEF PageSets

-----------------------------------------------------------------------------
(* The records of the chunks *)

\* Chunk i has the record and the others keep theirs.
OneRecord(i, new) ==
  /\ chunks' \in Seq(ChunkRecords) /\ chunks'[i + 1] = new
  /\ PageSource!ChunkIds' = PageSource!ChunkIds \union {i}
  /\ \A k \in PageSource!ChunkIds : k # i => chunks'[k + 1] = chunks[k + 1]

\* A chunk that is there gets another record,
LEMMA RecordReplaced ==
  ASSUME ChunkTypes, NEW i \in PageSource!ChunkIds, NEW new \in ChunkRecords,
         chunks' = [chunks EXCEPT ![i + 1] = new]
  PROVE  OneRecord(i, new) /\ Len(chunks') = Len(chunks)
<1>1. chunks \in Seq(ChunkRecords) /\ Len(chunks) \in Nat /\ i + 1 \in 1..Len(chunks) /\ i \in Nat
      /\ DOMAIN chunks = 1..Len(chunks)
  BY ChunkFields DEF ChunkTypes
<1>2. chunks' \in Seq(ChunkRecords) /\ Len(chunks') = Len(chunks)
  BY <1>1, ExceptSeq
<1>3. chunks'[i + 1] = new
  BY <1>1
<1>4. ASSUME NEW k \in PageSource!ChunkIds, k # i PROVE chunks'[k + 1] = chunks[k + 1]
  <2>1. k + 1 # i + 1 /\ k + 1 \in 1..Len(chunks)
    BY <1>1, <1>4, ChunkFields
  <2> QED
    BY <1>1, <2>1
<1>5. PageSource!ChunkIds' = PageSource!ChunkIds
  BY <1>2 DEF PageSource!ChunkIds
<1> QED
  BY <1>2, <1>3, <1>4, <1>5 DEF OneRecord

\* or a new one is added.
LEMMA RecordAdded ==
  ASSUME ChunkTypes, NEW i, i = Len(chunks), NEW new \in ChunkRecords, chunks' = Append(chunks, new)
  PROVE  OneRecord(i, new) /\ Len(chunks') = Len(chunks) + 1
<1>1. chunks \in Seq(ChunkRecords) /\ Len(chunks) \in Nat
  BY ChunkFields DEF ChunkTypes
<1>2. /\ chunks' \in Seq(ChunkRecords) /\ Len(chunks') = Len(chunks) + 1
      /\ \A k \in 1..Len(chunks) : chunks'[k] = chunks[k]
      /\ chunks'[Len(chunks) + 1] = new
  BY <1>1, AppendProperties
<1>3. \A k \in PageSource!ChunkIds : chunks'[k + 1] = chunks[k + 1]
  BY <1>2, ChunkFields
<1>4. PageSource!ChunkIds' = PageSource!ChunkIds \union {i}
  <2>1. PICK n \in Nat : n = Len(chunks)
    BY <1>1
  <2>2. 0..((n + 1) - 1) = (0..(n - 1)) \union {n}
    OBVIOUS
  <2> QED
    BY <1>2, <2>1, <2>2 DEF PageSource!ChunkIds
<1> QED
  BY <1>2, <1>3, <1>4 DEF OneRecord

\* What it changes of the sizes and of the counters.
LEMMA RecordCounts ==
  ASSUME ChunkTypes, UsedPages, NEW i \in 0..(MaxChunks - 1), NEW new \in ChunkRecords, OneRecord(i, new),
         Len(chunks') \in Nat, new.pagesUsed = Cardinality(TakenPages(allocated, i)),
         allocated' = allocated
  PROVE  /\ OtherSize(PageCounts, PageCounts', i, new.pageCount)
         /\ UsedPages'
<1>1. PICK size, size2, S, S2 : size = PageCounts /\ size2 = PageCounts'
        /\ S = PageSource!ChunkIds /\ S2 = PageSource!ChunkIds'
  OBVIOUS
<1>2. S2 = S \union {i} /\ chunks'[i + 1] = new /\ \A k \in S : k # i => chunks'[k + 1] = chunks[k + 1]
  BY <1>1 DEF OneRecord
<1>3. size = [k \in S |-> chunks[k + 1].pageCount] /\ size2 = [k \in S2 |-> chunks'[k + 1].pageCount]
  BY <1>1 DEF PageCounts
<1>4. new.pageCount \in 0..ChunkPages
  BY DEF ChunkRecords
<1>5. OtherSize(size, size2, i, new.pageCount)
  BY <1>2, <1>3, <1>4 DEF OtherSize
<1>6. ASSUME NEW k \in S2 PROVE chunks'[k + 1].pagesUsed = Cardinality(TakenPages(allocated, k))
  <2>1. CASE k = i
    BY <1>2, <2>1
  <2>2. CASE k # i
    BY <1>1, <1>2, <2>2 DEF UsedPages
  <2> QED
    BY <2>1, <2>2
<1>7. UsedPages'
  BY <1>1, <1>6 DEF UsedPages
<1> QED
  BY <1>1, <1>5, <1>7

\* The chunks are of their types, then.
LEMMA RecordTypes ==
  ASSUME ChunkTypes, NEW i, NEW new \in ChunkRecords, OneRecord(i, new),
         Len(chunks') \in Nat, Len(chunks') <= MaxChunks, Len(chunks) <= Len(chunks'),
         new.nextChunk \in -1..(Len(chunks') - 1), freeChunk' \in -1..(Len(chunks') - 1)
  PROVE  ChunkTypes'
<1>1. Len(chunks) \in Nat
  BY ChunkFields
<1>2. ASSUME NEW k \in PageSource!ChunkIds' PROVE chunks'[k + 1].nextChunk \in -1..(Len(chunks') - 1)
  <2>1. CASE k = i
    BY <2>1 DEF OneRecord
  <2>2. CASE k # i
    <3>1. k \in PageSource!ChunkIds /\ chunks'[k + 1] = chunks[k + 1]
      BY <2>2 DEF OneRecord
    <3>2. chunks[k + 1].nextChunk \in -1..(Len(chunks) - 1)
      BY <3>1 DEF ChunkTypes
    <3> QED
      BY <1>1, <3>1, <3>2
  <2> QED
    BY <2>1, <2>2
<1> QED
  BY <1>2 DEF ChunkTypes, OneRecord

-----------------------------------------------------------------------------
(* Chunks are added and removed *)

\* The first chunk of the list of unused ones gets pages.
LEMMA UnusedTaken ==
  ASSUME ChunkTypes, UnusedChunks, freeChunk # -1, NEW new \in ChunkRecords, new.pageCount # 0,
         OneRecord(freeChunk, new), freeChunk' = chunks[freeChunk + 1].nextChunk
  PROVE  UnusedChunks'
<1>1. PICK f, S : f = freeChunk /\ S = PageSource!ChunkIds
  OBVIOUS
<1>2. f \in S /\ ~PageSource!Used(f)
  <2>1. Len(chunks) \in Nat /\ freeChunk \in -1..(Len(chunks) - 1)
    BY ChunkFields DEF ChunkTypes
  <2>2. f \in 0..(Len(chunks) - 1)
    BY <1>1, <2>1
  <2> QED
    BY <1>1, <2>2 DEF PageSource!ChunkIds, UnusedChunks
<1>3. PageSource!ChunkIds' = S
  BY <1>1, <1>2 DEF OneRecord
<1>4. /\ PageSource!Used(f)'
      /\ \A k \in S : k # f => /\ chunks'[k + 1] = chunks[k + 1]
                               /\ PageSource!Used(k)' <=> PageSource!Used(k)
  <2>1. new.pageCount > 0
    <3>1. new.pageCount \in 0..ChunkPages
      BY DEF ChunkRecords
    <3> QED
      BY <3>1, PageConstants
  <2> QED
    BY <1>1, <2>1 DEF OneRecord, PageSource!Used
<1>5. freeChunk' = chunks[f + 1].nextChunk
  BY <1>1
<1>6. \A j \in S : ~PageSource!Used(j) => chunks[j + 1].nextChunk # f
  BY <1>1 DEF UnusedChunks
<1>7. \A j \in S, k \in S :
        ~PageSource!Used(j) /\ ~PageSource!Used(k) /\ chunks[k + 1].nextChunk = chunks[j + 1].nextChunk
          => k = j \/ chunks[j + 1].nextChunk = -1
  BY <1>1 DEF UnusedChunks
<1>8. \A i \in S : ~PageSource!Used(i) <=>
        i = f \/ \E j \in S : ~PageSource!Used(j) /\ chunks[j + 1].nextChunk = i
  BY <1>1 DEF UnusedChunks
<1>9. ASSUME NEW i \in S
      PROVE  ~PageSource!Used(i)' <=>
               i = freeChunk'
                 \/ \E j \in S : ~PageSource!Used(j)' /\ chunks'[j + 1].nextChunk = i
  <2>1. CASE i = f
    BY <1>2, <1>4, <1>5, <1>6, <2>1
  <2>2. CASE i # f
    BY <1>2, <1>4, <1>5, <1>8, <2>2
  <2> QED
    BY <2>1, <2>2
<1>10. ASSUME NEW j \in S, ~PageSource!Used(j)'
       PROVE  /\ chunks'[j + 1].nextChunk = freeChunk' => freeChunk' = -1
              /\ \A k \in S : ~PageSource!Used(k)' /\ chunks'[k + 1].nextChunk = chunks'[j + 1].nextChunk
                   => k = j \/ chunks'[j + 1].nextChunk = -1
  <2>1. j # f /\ ~PageSource!Used(j) /\ chunks'[j + 1] = chunks[j + 1]
    BY <1>4, <1>10
  <2>2. chunks'[j + 1].nextChunk = freeChunk' => freeChunk' = -1
    BY <1>2, <1>5, <1>7, <2>1
  <2>3. ASSUME NEW k \in S, ~PageSource!Used(k)', chunks'[k + 1].nextChunk = chunks'[j + 1].nextChunk
        PROVE  k = j \/ chunks'[j + 1].nextChunk = -1
    <3>1. k # f /\ ~PageSource!Used(k) /\ chunks'[k + 1] = chunks[k + 1]
      BY <1>4, <2>3
    <3> QED
      BY <1>7, <2>1, <2>3, <3>1
  <2> QED
    BY <2>2, <2>3
<1> QED
  BY <1>3, <1>9, <1>10 DEF UnusedChunks

\* A chunk of its own does not change the list of unused ones, if that is empty.
LEMMA UnusedKept ==
  ASSUME ChunkTypes, UnusedChunks, freeChunk = -1, NEW new \in ChunkRecords, new.pageCount # 0,
         OneRecord(Len(chunks), new), freeChunk' = -1
  PROVE  UnusedChunks'
<1>1. PICK n, S : n = Len(chunks) /\ S = PageSource!ChunkIds
  OBVIOUS
<1>2. n \in Nat /\ S = 0..(n - 1) /\ n \notin S /\ -1 \notin S \union {n}
  <2>1. n \in Nat /\ S = 0..(n - 1)
    BY <1>1, ChunkFields DEF PageSource!ChunkIds
  <2> QED
    BY <2>1
<1>3. PageSource!ChunkIds' = S \union {n}
  BY <1>1 DEF OneRecord
<1>4. /\ PageSource!Used(n)'
      /\ \A k \in S : k # n /\ chunks'[k + 1] = chunks[k + 1] /\ (PageSource!Used(k)' <=> PageSource!Used(k))
  <2>1. new.pageCount > 0
    <3>1. new.pageCount \in 0..ChunkPages
      BY DEF ChunkRecords
    <3> QED
      BY <3>1, PageConstants
  <2> QED
    BY <1>1, <1>2, <2>1 DEF OneRecord, PageSource!Used
<1>5. \A j \in S : chunks[j + 1].nextChunk # n
  <2>1. \A j \in S : chunks[j + 1].nextChunk \in -1..(n - 1)
    BY <1>1 DEF ChunkTypes
  <2> QED
    BY <1>2, <2>1
<1>6. \A j \in S : ~PageSource!Used(j) => \A k \in S :
        ~PageSource!Used(k) /\ chunks[k + 1].nextChunk = chunks[j + 1].nextChunk
          => k = j \/ chunks[j + 1].nextChunk = -1
  BY <1>1 DEF UnusedChunks
<1>7. \A i \in S : ~PageSource!Used(i) <=>
        \E j \in S : ~PageSource!Used(j) /\ chunks[j + 1].nextChunk = i
  BY <1>1, <1>2 DEF UnusedChunks
<1>8. ASSUME NEW i \in S \union {n}
      PROVE  ~PageSource!Used(i)' <=>
               i = freeChunk'
                 \/ \E j \in S \union {n} : ~PageSource!Used(j)' /\ chunks'[j + 1].nextChunk = i
  <2>1. CASE i = n
    BY <1>2, <1>4, <1>5, <2>1
  <2>2. CASE i \in S
    <3>1. i # freeChunk'
      BY <1>2, <2>2
    <3>2. (\E j \in S \union {n} : ~PageSource!Used(j)' /\ chunks'[j + 1].nextChunk = i)
            <=> \E j \in S : ~PageSource!Used(j) /\ chunks[j + 1].nextChunk = i
      <4>1. \A j \in S \union {n} : ~PageSource!Used(j)' => j \in S
        BY <1>4
      <4> QED
        BY <1>4, <4>1
    <3>3. ~PageSource!Used(i)' <=> ~PageSource!Used(i)
      BY <1>4, <2>2
    <3> QED
      BY <1>7, <2>2, <3>1, <3>2, <3>3
  <2> QED
    BY <2>1, <2>2
<1>9. ASSUME NEW j \in S \union {n}, ~PageSource!Used(j)'
      PROVE  \A k \in S \union {n} : ~PageSource!Used(k)' /\ chunks'[k + 1].nextChunk = chunks'[j + 1].nextChunk
                   => k = j \/ chunks'[j + 1].nextChunk = -1
  BY <1>4, <1>6, <1>9
<1> QED
  BY <1>3, <1>8, <1>9 DEF UnusedChunks

\* A removed chunk is the first of the list of unused ones.
LEMMA UnusedMore ==
  ASSUME ChunkTypes, UnusedChunks, NEW i \in PageSource!ChunkIds, PageSource!Used(i),
         NEW new \in ChunkRecords, new.pageCount = 0, new.nextChunk = freeChunk,
         OneRecord(i, new), freeChunk' = i
  PROVE  UnusedChunks'
<1>1. PICK S : S = PageSource!ChunkIds
  OBVIOUS
<1>2. PageSource!ChunkIds' = S
  BY <1>1 DEF OneRecord
<1>3. /\ ~PageSource!Used(i)' /\ chunks'[i + 1].nextChunk = freeChunk
      /\ \A k \in S : k # i => /\ chunks'[k + 1] = chunks[k + 1]
                               /\ PageSource!Used(k)' <=> PageSource!Used(k)
  BY <1>1 DEF OneRecord, PageSource!Used
<1>4. i # freeChunk /\ \A j \in S : ~PageSource!Used(j) => chunks[j + 1].nextChunk # i
  BY <1>1 DEF UnusedChunks
<1>5. \A k \in S : ~PageSource!Used(k) <=>
        k = freeChunk \/ \E j \in S : ~PageSource!Used(j) /\ chunks[j + 1].nextChunk = k
  BY <1>1 DEF UnusedChunks
<1>6. \A j \in S : ~PageSource!Used(j) /\ chunks[j + 1].nextChunk = freeChunk => freeChunk = -1
  BY <1>1 DEF UnusedChunks
<1>7. \A j \in S, k \in S :
        ~PageSource!Used(j) /\ ~PageSource!Used(k) /\ chunks[k + 1].nextChunk = chunks[j + 1].nextChunk
          => k = j \/ chunks[j + 1].nextChunk = -1
  BY <1>1 DEF UnusedChunks
<1>8. i \in S /\ freeChunk' = i
  BY <1>1
<1>9. ASSUME NEW k \in S
      PROVE  ~PageSource!Used(k)' <=>
               k = freeChunk'
                 \/ \E j \in S : ~PageSource!Used(j)' /\ chunks'[j + 1].nextChunk = k
  <2>1. CASE k = i
    BY <1>3, <1>8, <2>1
  <2>2. CASE k # i
    <3>1. \A j \in S : ~PageSource!Used(j) => j # i
      OBVIOUS
    <3> QED
      BY <1>3, <1>5, <1>8, <2>2, <3>1
  <2> QED
    BY <2>1, <2>2
<1>10. ASSUME NEW j \in S, ~PageSource!Used(j)', chunks'[j + 1].nextChunk = freeChunk'
       PROVE  freeChunk' = -1
  BY <1>3, <1>4, <1>8, <1>10
<1>11. ASSUME NEW j \in S, ~PageSource!Used(j)', NEW k \in S, ~PageSource!Used(k)',
              chunks'[k + 1].nextChunk = chunks'[j + 1].nextChunk
       PROVE  k = j \/ chunks'[j + 1].nextChunk = -1
  <2>1. CASE j = i
    BY <1>3, <1>6, <1>11, <2>1
  <2>2. CASE k = i
    BY <1>3, <1>6, <1>11, <2>2
  <2>3. CASE j # i /\ k # i
    BY <1>3, <1>7, <1>11, <2>3
  <2> QED
    BY <2>1, <2>2, <2>3
<1> QED
  BY <1>2, <1>9, <1>10, <1>11 DEF UnusedChunks

\* No caller has a page of a chunk that has none.
LEMMA NothingTaken ==
  ASSUME NEW size, GoodSizes(size), NEW A, NEW F, PageSets(A, F, size),
         NEW i, i \in DOMAIN size => size[i] = 0
  PROVE  TakenPages(A, i) = {} /\ Cardinality(TakenPages(A, i)) = 0
<1>1. ASSUME NEW p \in TakenPages(A, i) PROVE FALSE
  <2>1. PICK r \in A : p \in PageSource!PagesOf(r) /\ PageSource!ChunkOf(p) = i
    BY DEF TakenPages
  <2>2. PageSource!ChunkOf(r.index) = i /\ Within(r, size)
    BY <2>1, RangeFacts
  <2> QED
    BY <2>2, NoRange
<1>2. TakenPages(A, i) = {}
  BY <1>1
<1>3. Cardinality({}) = 0
  BY FS_EmptySet
<1> QED
  BY <1>2, <1>3

\* What is said of the chunk that AddChunk takes.
Adds(i, n, new) ==
  /\ i \in 0..(MaxChunks - 1) /\ OneRecord(i, new) /\ new \in ChunkRecords
  /\ new.pageCount = n /\ new.pagesUsed = 0
  /\ i \in DOMAIN PageCounts => PageCounts[i] = 0
  /\ ChunkTypes' /\ UnusedChunks' /\ allocated' = allocated /\ Len(chunks') \in Nat
  /\ freeList' = PageSource!InsertFreeRange(PageSource!List, WholeChunk(i, n), -1).list
  /\ pageLut' = PageSource!InsertFreeRange(PageSource!List, WholeChunk(i, n), -1).lut

\* AddChunk takes an unused chunk, or a new one.
LEMMA AddParts ==
  ASSUME PageInv, NEW n \in 1..ChunkPages, PageSource!AddChunk(n)
  PROVE  \E i, new : Adds(i, n, new)
<1>1. PICK i : i = IF freeChunk = -1 THEN Len(chunks) ELSE freeChunk
  OBVIOUS
<1>2. PICK new : new = [pageCount |-> n, pagesUsed |-> 0, nextChunk |-> -1, disabled |-> FALSE]
  OBVIOUS
<1>3. /\ freeChunk = -1 => Len(chunks) < MaxChunks
      /\ chunks' = IF freeChunk = -1 THEN Append(chunks, new) ELSE [chunks EXCEPT ![i + 1] = new]
      /\ freeChunk' = IF freeChunk = -1 THEN -1 ELSE chunks[i + 1].nextChunk
      /\ PageSource!SetList(PageSource!InsertFreeRange(PageSource!List,
                              PageSource!FreeRange(i * ChunkPages, n), -1))
      /\ allocated' = allocated
  BY <1>1, <1>2 DEF PageSource!AddChunk, PageSource!Absent
<1>4. /\ new \in ChunkRecords /\ new.pageCount = n /\ new.pagesUsed = 0 /\ new.nextChunk = -1
      /\ n # 0
  <2>1. n \in 0..ChunkPages /\ n # 0 /\ ChunkPages \in Nat
    BY PageConstants
  <2> QED
    BY <1>2, <2>1 DEF ChunkRecords
<1>5. /\ ChunkTypes /\ UnusedChunks /\ Len(chunks) \in Nat /\ Len(chunks) <= MaxChunks
      /\ freeChunk \in -1..(Len(chunks) - 1)
      /\ DOMAIN PageCounts = 0..(Len(chunks) - 1)
  BY ChunkFields DEF PageInv, ChunkTypes, PageSource!ChunkIds
<1>6. MaxChunks \in Nat
  BY PageConstants
<1>7. /\ freeList' = PageSource!InsertFreeRange(PageSource!List, WholeChunk(i, n), -1).list
      /\ pageLut' = PageSource!InsertFreeRange(PageSource!List, WholeChunk(i, n), -1).lut
  <2>1. PageSource!FreeRange(i * ChunkPages, n) = WholeChunk(i, n)
    BY DEF PageSource!FreeRange, WholeChunk, Start
  <2> QED
    BY <1>3, <2>1 DEF PageSource!SetList
<1>8. CASE freeChunk = -1
  <2>1. i = Len(chunks) /\ chunks' = Append(chunks, new) /\ freeChunk' = -1 /\ Len(chunks) < MaxChunks
    BY <1>1, <1>3, <1>8
  <2>2. OneRecord(i, new) /\ Len(chunks') = Len(chunks) + 1
    BY <1>4, <1>5, <2>1, RecordAdded
  <2>3. UnusedChunks'
    BY <1>4, <1>5, <1>8, <2>1, <2>2, UnusedKept
  <2>4. ChunkTypes' /\ Len(chunks') \in Nat
    <3>1. /\ Len(chunks') \in Nat /\ Len(chunks') <= MaxChunks /\ Len(chunks) <= Len(chunks')
          /\ -1 \in -1..(Len(chunks') - 1)
      BY <1>5, <1>6, <2>1, <2>2
    <3> QED
      BY <1>4, <1>5, <2>1, <2>2, <3>1, RecordTypes
  <2>5. i \in 0..(MaxChunks - 1) /\ i \notin DOMAIN PageCounts
    BY <1>5, <1>6, <2>1
  <2> QED
    BY <1>3, <1>4, <1>7, <2>2, <2>3, <2>4, <2>5 DEF Adds
<1>9. CASE freeChunk # -1
  <2>1. i = freeChunk /\ chunks' = [chunks EXCEPT ![i + 1] = new]
        /\ freeChunk' = chunks[freeChunk + 1].nextChunk
    BY <1>1, <1>3, <1>9
  <2>2. i \in 0..(Len(chunks) - 1) /\ i \in 0..(MaxChunks - 1)
    BY <1>5, <1>6, <1>9, <2>1
  <2>3. i \in PageSource!ChunkIds
    BY <2>2 DEF PageSource!ChunkIds
  <2>4. OneRecord(i, new) /\ Len(chunks') = Len(chunks)
    BY <1>4, <1>5, <2>1, <2>3, RecordReplaced
  <2>5. UnusedChunks'
    BY <1>4, <1>5, <1>9, <2>1, <2>4, UnusedTaken
  <2>6. ChunkTypes' /\ Len(chunks') \in Nat
    <3>1. freeChunk' \in -1..(Len(chunks) - 1)
      BY <1>5, <2>1, <2>3 DEF ChunkTypes
    <3>2. -1 \in -1..(Len(chunks) - 1)
      BY <1>5
    <3> QED
      BY <1>4, <1>5, <2>4, <3>1, <3>2, RecordTypes
  <2>7. PageCounts[i] = 0
    <3>1. ~PageSource!Used(i)
      BY <1>5, <2>1, <2>3 DEF UnusedChunks
    <3>2. chunks[i + 1].pageCount \in 0..ChunkPages /\ PageCounts[i] = chunks[i + 1].pageCount
      BY <1>5, <2>3, ChunkFields
    <3>3. ~(chunks[i + 1].pageCount > 0)
      BY <3>1 DEF PageSource!Used
    <3> QED
      BY <3>2, <3>3, PageConstants
  <2> QED
    BY <1>3, <1>4, <1>7, <2>2, <2>4, <2>5, <2>6, <2>7 DEF Adds
<1> QED
  BY <1>8, <1>9

\* Adding a chunk keeps the invariant.
LEMMA AddStep ==
  ASSUME PageInv, NEW n \in 1..ChunkPages, PageSource!AddChunk(n)
  PROVE  PageInv'
<1>1. PICK i, new : Adds(i, n, new)
  BY AddParts
<1>2. PICK F, size, size2, y, res :
        /\ F = Members(freeList) /\ size = PageCounts /\ size2 = PageCounts' /\ y = WholeChunk(i, n)
        /\ res = PageSource!InsertFreeRange(PageSource!List, y, -1)
  OBVIOUS
<1>3. /\ i \in 0..(MaxChunks - 1) /\ OneRecord(i, new) /\ new \in ChunkRecords
      /\ new.pageCount = n /\ new.pagesUsed = 0
      /\ i \in DOMAIN size => size[i] = 0
      /\ ChunkTypes' /\ UnusedChunks' /\ allocated' = allocated /\ Len(chunks') \in Nat
      /\ freeList' = res.list /\ pageLut' = res.lut
  BY <1>1, <1>2 DEF Adds
<1>4. GoodSizes(size) /\ PageSets(allocated, F, size) /\ ChunkTypes /\ UsedPages
  BY <1>2, ChunkFields DEF PageInv
<1>5. Cardinality(TakenPages(allocated, i)) = 0
  BY <1>3, <1>4, NothingTaken
<1>6. OtherSize(size, size2, i, n) /\ UsedPages'
  <2>1. new.pagesUsed = Cardinality(TakenPages(allocated, i))
    BY <1>3, <1>5
  <2>2. OtherSize(PageCounts, PageCounts', i, new.pageCount) /\ UsedPages'
    BY <1>3, <1>4, <2>1, RecordCounts
  <2> QED
    BY <1>2, <1>3, <2>2
<1>7. n # 0 /\ n \in 1..ChunkPages
  BY PageConstants
<1>8. PageSets(allocated, F \union {y}, size2)
  BY <1>2, <1>3, <1>4, <1>6, <1>7, AddedSets
<1>9. GoodSizes(size2)
  BY <1>3, <1>4, <1>6 DEF OtherSize, GoodSizes
<1>10. Within(y, size2) /\ y \in Ranges /\ y.count \in Nat \ {0} /\ PageSource!Ends(y) \subseteq PageSource!Pages
  <2>1. y \in allocated \union (F \union {y})
    OBVIOUS
  <2> QED
    BY <1>8, <1>9, <2>1, RangeFacts
<1>11. y \notin F
  <2>1. PageSource!ChunkOf(y.index) = i
    <3>1. i \in Nat
      BY <1>3, PageConstants
    <3> QED
      BY <1>2, <3>1, Starts DEF WholeChunk
  <2>2. \A r \in F : Within(r, size)
    BY <1>4, RangeFacts
  <2> QED
    BY <1>3, <1>4, <2>1, <2>2, NoRange
<1>12. MayReplace(y, {}, {})
  <2> SUFFICES ASSUME NEW r \in F, NEW p \in PageSource!Pages,
                      p \in PageSource!PagesOf(y), p \in PageSource!PagesOf(r)
               PROVE  FALSE
    BY <1>2, <1>10 DEF MayReplace
  <2>1. r \in allocated \union (F \union {y}) /\ y \in allocated \union (F \union {y})
    OBVIOUS
  <2>2. r = y
    BY <1>8, <1>9, <2>1, RangeFacts
  <2> QED
    BY <1>11, <2>2
<1>13. ListHas(res, F \union {y})
  <2>1. -1 \in -1..(Len(freeList) - 1) /\ RangeAt(-1) = {}
    BY ListRanges DEF RangeAt
  <2>2. MayReplace(y, RangeAt(-1), {})
    BY <1>12, <2>1
  <2>3. ListHas(res, (Members(freeList) \ RangeAt(-1)) \union {y})
    BY <1>2, <2>1, <2>2, JoinedOne
  <2>4. (Members(freeList) \ RangeAt(-1)) \union {y} = F \union {y}
    BY <1>2, <2>1
  <2> QED
    BY <2>3, <2>4
<1>14. SoundList(freeList, pageLut)' /\ Members(freeList') = F \union {y}
  BY <1>3, <1>13 DEF ListHas
<1>15. PageSets(allocated, Members(freeList), PageCounts)'
  BY <1>2, <1>3, <1>8, <1>14
<1> QED
  BY <1>3, <1>6, <1>14, <1>15 DEF PageInv

\* What is said of the chunk that freeEmptyChunksInPool removes.
Removes(i, n, new) ==
  /\ i \in PageSource!ChunkIds /\ i \in 0..(MaxChunks - 1) /\ i \in DOMAIN PageCounts
  /\ OneRecord(i, new) /\ new \in ChunkRecords /\ new.pageCount = 0
  /\ new.pagesUsed = 0 /\ chunks[i + 1].pagesUsed = 0
  /\ PageCounts[i] = n /\ n # 0 /\ n \in 1..ChunkPages
  /\ ChunkTypes' /\ UnusedChunks' /\ allocated' = allocated /\ Len(chunks') \in Nat
  /\ freeList' = PageSource!InsertFreeRange(PageSource!List,
                   PageSource!FreeRange(i * ChunkPages, 0), pageLut[i * ChunkPages]).list
  /\ pageLut' = PageSource!InsertFreeRange(PageSource!List,
                  PageSource!FreeRange(i * ChunkPages, 0), pageLut[i * ChunkPages]).lut

\* freeEmptyChunksInPool takes the pages of a chunk away and keeps its number.
LEMMA RemoveParts ==
  ASSUME PageInv, NEW i \in PageSource!ChunkIds, PageSource!RemoveChunk(i)
  PROVE  \E n, new : Removes(i, n, new)
<1>1. PICK n, new : /\ n = chunks[i + 1].pageCount
                    /\ new = [pageCount |-> 0, pagesUsed |-> 0, nextChunk |-> freeChunk, disabled |-> TRUE]
  OBVIOUS
<1>2. /\ PageSource!Used(i) /\ chunks[i + 1].pagesUsed = 0
      /\ chunks' = [chunks EXCEPT ![i + 1] = new]
      /\ freeChunk' = i /\ allocated' = allocated
      /\ PageSource!SetList(PageSource!InsertFreeRange(PageSource!List,
                   PageSource!FreeRange(i * ChunkPages, 0), pageLut[i * ChunkPages]))
  BY <1>1 DEF PageSource!RemoveChunk
<1>3. /\ ChunkTypes /\ UnusedChunks /\ Len(chunks) \in Nat /\ Len(chunks) <= MaxChunks
      /\ freeChunk \in -1..(Len(chunks) - 1)
      /\ i \in 0..(Len(chunks) - 1) /\ DOMAIN PageCounts = PageSource!ChunkIds
      /\ PageCounts[i] = n /\ n \in 0..ChunkPages /\ i \in Nat /\ i < MaxChunks
  BY <1>1, ChunkFields DEF PageInv, ChunkTypes, PageSource!ChunkIds
<1>4. MaxChunks \in Nat /\ ChunkPages \in Nat
  BY PageConstants
<1>5. /\ new \in ChunkRecords /\ new.pageCount = 0 /\ new.pagesUsed = 0 /\ new.nextChunk = freeChunk
  <2>1. freeChunk \in Int
    BY <1>3
  <2> QED
    BY <1>1, <1>4, <2>1 DEF ChunkRecords
<1>6. OneRecord(i, new) /\ Len(chunks') = Len(chunks)
  BY <1>2, <1>3, <1>5, RecordReplaced
<1>7. UnusedChunks'
  BY <1>2, <1>3, <1>5, <1>6, UnusedMore
<1>8. ChunkTypes' /\ Len(chunks') \in Nat
  <2>1. i \in -1..(Len(chunks') - 1) /\ freeChunk \in -1..(Len(chunks') - 1)
        /\ Len(chunks') <= MaxChunks /\ Len(chunks) <= Len(chunks') /\ Len(chunks') \in Nat
    BY <1>3, <1>6
  <2> QED
    BY <1>2, <1>3, <1>5, <1>6, <2>1, RecordTypes
<1>9. n # 0 /\ n \in 1..ChunkPages
  <2>1. n > 0
    BY <1>1, <1>2 DEF PageSource!Used
  <2> QED
    BY <1>3, <1>4, <2>1
<1>10. i \in 0..(MaxChunks - 1)
  BY <1>3, <1>4
<1>11. /\ freeList' = PageSource!InsertFreeRange(PageSource!List,
                   PageSource!FreeRange(i * ChunkPages, 0), pageLut[i * ChunkPages]).list
       /\ pageLut' = PageSource!InsertFreeRange(PageSource!List,
                  PageSource!FreeRange(i * ChunkPages, 0), pageLut[i * ChunkPages]).lut
  BY <1>2 DEF PageSource!SetList
<1>12. Removes(i, n, new)
  BY <1>2, <1>3, <1>5, <1>6, <1>7, <1>8, <1>9, <1>10, <1>11 DEF Removes
<1> QED
  BY <1>12

\* Its free range goes from the list.
LEMMA RemovedFromList ==
  ASSUME PageInv, NEW i \in 0..(MaxChunks - 1), NEW n \in 1..ChunkPages,
         NEW y, y = WholeChunk(i, n), y \in Members(freeList),
         NEW res, res = PageSource!InsertFreeRange(PageSource!List,
                          PageSource!FreeRange(i * ChunkPages, 0), pageLut[i * ChunkPages])
  PROVE  ListHas(res, Members(freeList) \ {y})
<1>1. PICK p, empty, at :
        p = i * ChunkPages /\ empty = PageSource!FreeRange(p, 0) /\ at = pageLut[p]
  OBVIOUS
<1>2. /\ SoundList(freeList, pageLut) /\ Len(freeList) \in Nat
      /\ GoodSizes(PageCounts) /\ PageSets(allocated, Members(freeList), PageCounts)
  BY ListRanges, ChunkFields DEF PageInv
<1>3. i \in Nat /\ n \in Nat \ {0} /\ p \in Nat /\ p = Start(i)
  <2>1. i \in Nat /\ n \in Nat \ {0} /\ p = Start(i)
    BY <1>1, PageConstants DEF Start
  <2> QED
    BY <2>1, Starts
<1>4. y.index = p /\ y.count = n
  BY <1>3 DEF WholeChunk
<1>5. PICK k \in 1..Len(freeList) : y = freeList[k]
  BY DEF Members
<1>6. p \in PageSource!Ends(y) /\ p \in PageSource!Pages
  <2>1. y \in Ranges /\ PageSource!Ends(y) \subseteq PageSource!Pages
    BY <1>2, RangeFacts
  <2>2. y.count >= 1
    BY <1>3, <1>4
  <2> QED
    BY <1>4, <2>1, <2>2, PagesAre
<1>7. at = k - 1
  BY <1>1, <1>2, <1>5, <1>6 DEF SoundList
<1>8. at + 1 = k /\ at # -1 /\ at \in -1..(Len(freeList) - 1)
  <2>1. k \in 1..Len(freeList)
    BY <1>5
  <2> QED
    BY <1>2, <1>7, <2>1
<1>9. empty \in Ranges /\ empty.count = 0
  BY <1>1, <1>3 DEF Ranges, PageSource!FreeRange
<1>10. MayInsert(freeList, pageLut, empty, at)
  <2>1. PageSource!Ends(empty) = {}
    BY <1>9 DEF PageSource!Ends
  <2> QED
    BY <1>2, <1>8, <1>9, <2>1 DEF MayInsert
<1>11. PageSource!List = [list |-> freeList, lut |-> pageLut]
  BY DEF PageSource!List
<1>12. Inserted(freeList, empty, at, res)
  BY <1>1, <1>10, <1>11, InsertRange
<1>13. Members(res.list) = (Members(freeList) \ {y}) \union {}
  BY <1>5, <1>8, <1>9, <1>12 DEF Inserted, RangeSet
<1> QED
  BY <1>12, <1>13 DEF Inserted, ListHas

\* The pages of a chunk that callers have are finitely many.
LEMMA TakenFinite ==
  ASSUME NEW A, NEW i
  PROVE  IsFiniteSet(TakenPages(A, i))
<1>1. PICK b \in Int : b = MaxChunks * ChunkPages - 1
  BY PageConstants
<1>2. IsFiniteSet(0..b)
  BY FS_Interval
<1>3. TakenPages(A, i) \in SUBSET (0..b)
  BY <1>1 DEF TakenPages, PageSource!Pages
<1> QED
  BY <1>2, <1>3, FS_Subset

\* Removing a chunk keeps the invariant.
LEMMA RemoveStep ==
  ASSUME PageInv, NEW i \in PageSource!ChunkIds, PageSource!RemoveChunk(i)
  PROVE  PageInv'
<1>1. PICK n, new : Removes(i, n, new)
  BY RemoveParts
<1>2. PICK F, size, size2, y, res :
        /\ F = Members(freeList) /\ size = PageCounts /\ size2 = PageCounts' /\ y = WholeChunk(i, n)
        /\ res = PageSource!InsertFreeRange(PageSource!List,
                   PageSource!FreeRange(i * ChunkPages, 0), pageLut[i * ChunkPages])
  OBVIOUS
<1>3. /\ i \in 0..(MaxChunks - 1) /\ OneRecord(i, new) /\ new \in ChunkRecords
      /\ new.pageCount = 0 /\ new.pagesUsed = 0 /\ chunks[i + 1].pagesUsed = 0
      /\ i \in DOMAIN size /\ size[i] = n /\ n # 0 /\ n \in 1..ChunkPages
      /\ ChunkTypes' /\ UnusedChunks' /\ allocated' = allocated /\ Len(chunks') \in Nat
      /\ freeList' = res.list /\ pageLut' = res.lut
  BY <1>1, <1>2 DEF Removes
<1>4. GoodSizes(size) /\ PageSets(allocated, F, size) /\ ChunkTypes /\ UsedPages
  BY <1>2, ChunkFields DEF PageInv
<1>5. Cardinality(TakenPages(allocated, i)) = 0
  BY <1>3, <1>4 DEF UsedPages
<1>6. TakenPages(allocated, i) = {}
  <2>1. IsFiniteSet(TakenPages(allocated, i))
    BY TakenFinite
  <2> QED
    BY <1>5, <2>1, FS_EmptySet
<1>7. y \in F
  BY <1>2, <1>3, <1>4, <1>6, EmptyChunkFree
<1>8. OtherSize(size, size2, i, 0) /\ UsedPages'
  <2>1. new.pagesUsed = Cardinality(TakenPages(allocated, i))
    BY <1>3, <1>5
  <2>2. OtherSize(PageCounts, PageCounts', i, new.pageCount) /\ UsedPages'
    BY <1>3, <1>4, <2>1, RecordCounts
  <2> QED
    BY <1>2, <1>3, <2>2
<1>9. PageSets(allocated, F \ {y}, size2)
  BY <1>2, <1>3, <1>4, <1>7, <1>8, RemovedSets
<1>10. ListHas(res, F \ {y})
  <2>1. y \in Members(freeList)
    BY <1>2, <1>7
  <2>2. ListHas(res, Members(freeList) \ {y})
    BY <1>2, <1>3, <2>1, RemovedFromList
  <2> QED
    BY <1>2, <2>2
<1>11. SoundList(freeList, pageLut)' /\ Members(freeList') = F \ {y}
  BY <1>3, <1>10 DEF ListHas
<1>12. PageSets(allocated, Members(freeList), PageCounts)'
  BY <1>2, <1>3, <1>9, <1>11
<1> QED
  BY <1>3, <1>8, <1>11, <1>12 DEF PageInv

-----------------------------------------------------------------------------
(* Chunks that are closed and opened, and the other steps *)

\* Nothing that the invariant says depends on whether a chunk is closed.
LEMMA FlagStep ==
  ASSUME PageInv, chunks' \in Seq(ChunkRecords), Len(chunks') = Len(chunks),
         freeList' = freeList, pageLut' = pageLut, freeChunk' = freeChunk, allocated' = allocated,
         \A i \in PageSource!ChunkIds :
           /\ chunks'[i + 1].pageCount = chunks[i + 1].pageCount
           /\ chunks'[i + 1].pagesUsed = chunks[i + 1].pagesUsed
           /\ chunks'[i + 1].nextChunk = chunks[i + 1].nextChunk
  PROVE  PageInv'
<1>1. /\ ChunkTypes' /\ UnusedChunks' /\ PageCounts' = PageCounts
      /\ PageSource!ChunkIds' = PageSource!ChunkIds
  BY SameShape DEF PageInv
<1>2. UsedPages'
  BY <1>1 DEF PageInv, UsedPages
<1>3. SoundList(freeList, pageLut)'
  BY DEF PageInv
<1>4. PageSets(allocated, Members(freeList), PageCounts)'
  BY <1>1 DEF PageInv
<1> QED
  BY <1>1, <1>2, <1>3, <1>4 DEF PageInv

\* A chunk is closed or opened,
LEMMA FlagOne ==
  ASSUME PageInv, NEW i \in PageSource!ChunkIds, NEW b \in BOOLEAN,
         chunks' = [chunks EXCEPT ![i + 1].disabled = b],
         freeList' = freeList, pageLut' = pageLut, freeChunk' = freeChunk, allocated' = allocated
  PROVE  PageInv'
<1>1. PICK new : new = [chunks[i + 1] EXCEPT !.disabled = b]
  OBVIOUS
<1>2. ChunkTypes
  BY DEF PageInv
<1>3. /\ new \in ChunkRecords /\ new.pageCount = chunks[i + 1].pageCount
      /\ new.pagesUsed = chunks[i + 1].pagesUsed /\ new.nextChunk = chunks[i + 1].nextChunk
  <2>1. chunks[i + 1] \in ChunkRecords
    BY <1>2, ChunkFields
  <2> QED
    BY <1>1, <2>1 DEF ChunkRecords
<1>4. chunks' = [chunks EXCEPT ![i + 1] = new]
  BY <1>1
<1>5. OneRecord(i, new) /\ Len(chunks') = Len(chunks)
  BY <1>2, <1>3, <1>4, RecordReplaced
<1>6. ASSUME NEW k \in PageSource!ChunkIds
      PROVE  /\ chunks'[k + 1].pageCount = chunks[k + 1].pageCount
             /\ chunks'[k + 1].pagesUsed = chunks[k + 1].pagesUsed
             /\ chunks'[k + 1].nextChunk = chunks[k + 1].nextChunk
  <2>1. CASE k = i
    BY <1>3, <1>5, <2>1 DEF OneRecord
  <2>2. CASE k # i
    BY <1>5, <2>2 DEF OneRecord
  <2> QED
    BY <2>1, <2>2
<1> QED
  BY <1>5, <1>6, FlagStep DEF OneRecord

\* and all of them are opened.
LEMMA FlagAll ==
  ASSUME PageInv, PageSource!ReviveChunks
  PROVE  PageInv'
<1>1. /\ freeList' = freeList /\ pageLut' = pageLut /\ freeChunk' = freeChunk /\ allocated' = allocated
  BY DEF PageSource!ReviveChunks, PageSource!listVars
<1>2. PICK n : n = Len(chunks)
  OBVIOUS
<1>3. /\ n \in Nat /\ DOMAIN chunks = 1..n
      /\ \A k \in 1..n : chunks[k] \in ChunkRecords
  <2>1. chunks \in Seq(ChunkRecords)
    BY DEF PageInv, ChunkTypes
  <2> QED
    BY <1>2, <2>1, LenProperties, ElementOfSeq
<1>4. chunks' = [k \in 1..n |->
        IF PageSource!Used(k - 1) THEN [chunks[k] EXCEPT !.disabled = FALSE] ELSE chunks[k]]
  BY <1>3 DEF PageSource!ReviveChunks
<1>5. ASSUME NEW k \in 1..n
      PROVE  /\ chunks'[k] \in ChunkRecords /\ chunks'[k].pageCount = chunks[k].pageCount
             /\ chunks'[k].pagesUsed = chunks[k].pagesUsed
             /\ chunks'[k].nextChunk = chunks[k].nextChunk
  <2>1. chunks[k] \in ChunkRecords
    BY <1>3
  <2>2. chunks'[k] = chunks[k] \/ chunks'[k] = [chunks[k] EXCEPT !.disabled = FALSE]
    BY <1>4
  <2> QED
    BY <2>1, <2>2 DEF ChunkRecords
<1>6. chunks' \in Seq(ChunkRecords) /\ Len(chunks') = n
  <2>1. DOMAIN chunks' = 1..n
    BY <1>4
  <2>2. chunks' = [k \in 1..n |-> chunks'[k]]
    BY <1>4, <2>1
  <2>3. chunks' \in Seq(ChunkRecords)
    BY <1>3, <1>5, <2>2
  <2> QED
    BY <1>3, <2>1, <2>3, LenProperties
<1>7. \A i \in PageSource!ChunkIds : i + 1 \in 1..n
  BY <1>2, ChunkFields DEF PageInv
<1> QED
  BY <1>1, <1>2, <1>5, <1>6, <1>7, FlagStep

-----------------------------------------------------------------------------
(* The invariant of the page allocator holds *)

\* It holds when there are no chunks yet.
LEMMA PageInit ==
  ASSUME PageSource!Init
  PROVE  PageInv
<1> USE DEF PageSource!Init, PageSource!Absent
<1>1. Len(<<>>) = 0 /\ <<>> \in Seq(ChunkRecords) /\ <<>> \in Seq(Ranges)
  BY EmptySeq
<1>2. PageSource!ChunkIds = {}
  BY <1>1 DEF PageSource!ChunkIds
<1>3. ChunkTypes
  <2>1. MaxChunks \in Nat
    BY PageConstants
  <2> QED
    BY <1>1, <1>2, <2>1 DEF ChunkTypes
<1>4. UnusedChunks /\ UsedPages
  BY <1>2 DEF UnusedChunks, UsedPages
<1>5. SoundList(freeList, pageLut)
  BY <1>1 DEF SoundList, Sorted
<1>6. Members(freeList) = {} /\ DOMAIN PageCounts = {}
  BY <1>1, <1>2 DEF Members, PageCounts
<1>7. PageSets(allocated, Members(freeList), PageCounts)
  BY <1>6 DEF PageSets, Partition, Disjoint, Covers, Apart
<1> QED
  BY <1>3, <1>4, <1>5, <1>7 DEF PageInv

\* Every step of the page allocator, and every step of another service, keeps the invariant.
LEMMA PageStep ==
  ASSUME PageInv, PageSource!Next \/ UNCHANGED pageVars
  PROVE  PageInv'
<1>1. ASSUME NEW n \in 1..ChunkPages, NEW a \in Alignments, PageSource!AllocPages(n, a) PROVE PageInv'
  BY <1>1, AllocStep
<1>2. ASSUME NEW r \in allocated, PageSource!FreePages(r) PROVE PageInv'
  BY <1>2, FreeStep
<1>3. ASSUME NEW n \in 1..ChunkPages, PageSource!AddChunk(n) PROVE PageInv'
  BY <1>3, AddStep
<1>4. ASSUME NEW i \in PageSource!ChunkIds, PageSource!RemoveChunk(i) PROVE PageInv'
  BY <1>4, RemoveStep
<1>5. ASSUME NEW i \in PageSource!ChunkIds, PageSource!KillChunk(i) \/ PageSource!ReviveChunk(i)
      PROVE  PageInv'
  BY <1>5, FlagOne DEF PageSource!KillChunk, PageSource!ReviveChunk, PageSource!listVars
<1>6. CASE PageSource!ReviveChunks
  BY <1>6, FlagAll
<1>7. CASE UNCHANGED pageVars
  <2>1. freeList' = freeList /\ pageLut' = pageLut /\ chunks' = chunks /\ freeChunk' = freeChunk
        /\ allocated' = allocated
    BY <1>7 DEF pageVars
  <2>2. chunks \in Seq(ChunkRecords)
    BY DEF PageInv, ChunkTypes
  <2> QED
    BY <2>1, <2>2, FlagStep
<1> QED
  BY <1>1, <1>2, <1>3, <1>4, <1>5, <1>6, <1>7 DEF PageSource!Next

-----------------------------------------------------------------------------
(* What the invariant says of the pages *)

\* The cardinality that the allocator uses is that of the sets here.
LEMMA SameCardinality ==
  ASSUME NEW S
  PROVE  PageSource!Cardinality(S) = Cardinality(S)
  BY DEF PageSource!Cardinality, Cardinality

\* What PageInv says of its sets.
LEMMA InvSets ==
  ASSUME PageInv, NEW F, F = Members(freeList), NEW size, size = PageCounts
  PROVE  /\ GoodSizes(size) /\ PageSets(allocated, F, size) /\ Partition(allocated \union F, size)
         /\ DOMAIN size = PageSource!ChunkIds
         /\ \A i \in PageSource!ChunkIds :
              /\ i \in Nat /\ Start(i) \in Nat /\ size[i] \in 0..ChunkPages /\ size[i] \in Nat
              /\ size[i] = chunks[i + 1].pageCount
<1>1. /\ GoodSizes(size) /\ PageSets(allocated, F, size) /\ Partition(allocated \union F, size)
      /\ DOMAIN size = PageSource!ChunkIds
  BY ChunkFields DEF PageInv, PageSets
<1>2. ASSUME NEW i \in PageSource!ChunkIds
      PROVE  /\ i \in Nat /\ Start(i) \in Nat /\ size[i] \in 0..ChunkPages /\ size[i] \in Nat
             /\ size[i] = chunks[i + 1].pageCount
  <2>1. i \in Nat /\ size[i] \in 0..ChunkPages /\ size[i] = chunks[i + 1].pageCount
    BY ChunkFields DEF PageInv
  <2> QED
    BY <2>1, Starts, PageConstants
<1> QED
  BY <1>1, <1>2

\* The pages of a chunk are those that its number and its size say.
LEMMA OfChunk ==
  ASSUME PageInv, NEW i \in PageSource!ChunkIds
  PROVE  /\ \A p : p \in PageSource!ChunkPagesOf(i)
                     <=> p \in Nat /\ Start(i) <= p /\ p < Start(i) + PageCounts[i]
         /\ \A p \in PageSource!ChunkPagesOf(i) : PageSource!ChunkOf(p) = i
         /\ \A r \in allocated \union Members(freeList) : \A p \in PageSource!PagesOf(r) :
              PageSource!ChunkOf(p) = i => p \in PageSource!ChunkPagesOf(i)
<1>1. PICK F, size, b, n : F = Members(freeList) /\ size = PageCounts /\ b = Start(i) /\ n = size[i]
  OBVIOUS
<1>2. /\ GoodSizes(size) /\ PageSets(allocated, F, size) /\ i \in Nat /\ b \in Nat
      /\ n \in 0..ChunkPages /\ n \in Nat /\ n = chunks[i + 1].pageCount /\ ChunkPages \in Nat
  BY <1>1, InvSets, PageConstants
<1>3. PageSource!ChunkPagesOf(i) = b..(b + n - 1)
  BY <1>1, <1>2 DEF PageSource!ChunkPagesOf, Start
<1>4. \A p : p \in b..(b + n - 1) <=> p \in Nat /\ b <= p /\ p < b + n
  BY <1>2
<1>5. ASSUME NEW p \in PageSource!ChunkPagesOf(i) PROVE PageSource!ChunkOf(p) = i
  <2>1. p \in Nat /\ Start(i) <= p /\ p < Start(i) + ChunkPages
    BY <1>1, <1>2, <1>3, <1>4, SMTT(30)
  <2> QED
    BY <1>2, <2>1, ChunkUnique
<1>6. ASSUME NEW r \in allocated \union F, NEW p \in PageSource!PagesOf(r), PageSource!ChunkOf(p) = i
      PROVE  p \in PageSource!ChunkPagesOf(i)
  <2>1. Within(r, size) /\ r \in Ranges /\ PageSource!ChunkOf(r.index) = i
    BY <1>2, <1>6, RangeFacts
  <2>2. b <= r.index /\ r.index + r.count <= b + n /\ r.index \in Nat /\ r.count \in Nat
    BY <1>1, <1>2, <2>1, RangeChunk
  <2>3. p \in Nat /\ r.index <= p /\ p < r.index + r.count
    BY <2>1, PagesAre
  <2>4. b <= p /\ p < b + n
    BY <1>2, <2>2, <2>3
  <2> QED
    BY <1>3, <1>4, <2>3, <2>4
<1> QED
  BY <1>1, <1>3, <1>4, <1>5, <1>6

\* Every page of a chunk is in one allocation or in one free range.
LEMMA PagesPartitionedHolds ==
  ASSUME PageInv
  PROVE  PageSource!PagesPartitioned
<1> SUFFICES ASSUME NEW i \in PageSource!ChunkIds, NEW p \in PageSource!Pages,
                    PageSource!ChunkOf(p) = i
             PROVE  Cardinality({r \in allocated : p \in PageSource!PagesOf(r)})
                      + Cardinality({k \in DOMAIN freeList : p \in PageSource!PagesOf(freeList[k])})
                    = IF p \in PageSource!ChunkPagesOf(i) THEN 1 ELSE 0
  BY SameCardinality DEF PageSource!PagesPartitioned
<1> DEFINE H == {r \in allocated : p \in PageSource!PagesOf(r)}
           K == {k \in DOMAIN freeList : p \in PageSource!PagesOf(freeList[k])}
<1>1. PICK F, size : F = Members(freeList) /\ size = PageCounts
  OBVIOUS
<1>2. /\ GoodSizes(size) /\ PageSets(allocated, F, size) /\ Partition(allocated \union F, size)
      /\ SoundList(freeList, pageLut) /\ i \in DOMAIN size
  BY <1>1, InvSets DEF PageInv
<1>3. DOMAIN freeList = 1..Len(freeList) /\ p \in Nat
  BY LenProperties, ListRanges DEF PageSource!Pages
<1>4. \A k \in K : k \in 1..Len(freeList) /\ freeList[k] \in F /\ p \in PageSource!PagesOf(freeList[k])
  BY <1>1, <1>3 DEF Members
<1>5. \A r, s \in allocated \union F :
        p \in PageSource!PagesOf(r) /\ p \in PageSource!PagesOf(s) => r = s
  BY <1>2, RangeFacts
<1>6. \A j, k \in K : j = k
  <2> SUFFICES ASSUME NEW j \in K, NEW k \in K PROVE j = k
    OBVIOUS
  <2>1. freeList[j] = freeList[k] /\ j \in 1..Len(freeList) /\ k \in 1..Len(freeList)
    BY <1>4, <1>5
  <2> QED
    BY <1>2, <2>1, OnePosition
<1>7. /\ Cardinality({}) = 0
      /\ \A x : Cardinality({x}) = 1
  BY FS_EmptySet, FS_Singleton
<1>8. CASE p \in PageSource!ChunkPagesOf(i)
  <2>1. Start(i) <= p /\ p < Start(i) + size[i]
    BY <1>1, <1>8, OfChunk
  <2>2. PICK r \in allocated \union F : p \in PageSource!PagesOf(r)
    BY <1>2, <1>3, <2>1 DEF Partition, Covers
  <2>3. CASE r \in allocated
    <3>1. H = {r}
      BY <1>5, <2>2, <2>3
    <3>2. K = {}
      <4>1. r \notin F
        BY <1>2, <2>3 DEF PageSets
      <4> QED
        BY <1>4, <1>5, <2>2, <4>1
    <3> QED
      <4>1. Cardinality(H) = 1 /\ Cardinality(K) = 0
        BY <1>7, <3>1, <3>2
      <4> QED
        BY <1>8, <4>1
  <2>4. CASE r \in F
    <3>1. H = {}
      <4>1. r \notin allocated
        BY <1>2, <2>4 DEF PageSets
      <4> QED
        BY <1>5, <2>2, <2>4, <4>1
    <3>2. PICK k \in 1..Len(freeList) : r = freeList[k]
      BY <1>1, <2>4 DEF Members
    <3>3. K = {k}
      <4>1. k \in K
        BY <1>3, <2>2, <3>2
      <4> QED
        BY <1>6, <4>1
    <3> QED
      <4>1. Cardinality(H) = 0 /\ Cardinality(K) = 1
        BY <1>7, <3>1, <3>3
      <4> QED
        BY <1>8, <4>1
  <2> QED
    BY <2>2, <2>3, <2>4
<1>9. CASE p \notin PageSource!ChunkPagesOf(i)
  <2>1. \A r \in allocated \union F : p \notin PageSource!PagesOf(r)
    BY <1>1, <1>9, OfChunk
  <2>2. H = {} /\ K = {}
    BY <1>4, <2>1
  <2> QED
    <3>1. Cardinality(H) = 0 /\ Cardinality(K) = 0
      BY <1>7, <2>2
    <3> QED
      BY <1>9, <3>1
<1> QED
  BY <1>8, <1>9

\* The list of free ranges is sorted, its table is right and no two of its ranges touch.
LEMMA ListSoundHolds ==
  ASSUME PageInv
  PROVE  PageSource!ListSound
<1>1. SoundList(freeList, pageLut) /\ DOMAIN freeList = 1..Len(freeList)
  BY ListRanges, LenProperties DEF PageInv
<1>2. ASSUME NEW j \in 1..Len(freeList), NEW k \in 1..Len(freeList)
      PROVE  /\ j < k => freeList[j].count >= freeList[k].count
             /\ freeList[j].index + freeList[j].count = freeList[k].index
                  => ~PageSource!Inside(freeList[k].index)
  <2>1. freeList[j] \in Members(freeList) /\ freeList[k] \in Members(freeList)
    BY DEF Members
  <2>2. Apart(Members(freeList))
    BY DEF PageInv, PageSets
  <2> QED
    BY <1>1, <2>1, <2>2 DEF SoundList, Sorted, Apart
<1>3. \A p \in PageSource!Pages, k \in 1..Len(freeList) :
        pageLut[p] = k - 1 <=> p \in PageSource!Ends(freeList[k])
  BY <1>1 DEF SoundList
<1> QED
  BY <1>1, <1>2, <1>3 DEF PageSource!ListSound

\* The pages of a chunk that callers have are its taken pages.
LEMMA TakenAre ==
  ASSUME PageInv, NEW i \in PageSource!ChunkIds
  PROVE  PageSource!ChunkPagesOf(i) \ PageSource!FreePagesOf(i) = TakenPages(allocated, i)
<1>1. PageSets(allocated, Members(freeList), PageCounts) /\ GoodSizes(PageCounts)
  BY InvSets
<1>2. ASSUME NEW p \in PageSource!ChunkPagesOf(i), p \notin PageSource!FreePagesOf(i)
      PROVE  p \in TakenPages(allocated, i)
  <2>1. PICK r \in allocated : p \in PageSource!PagesOf(r)
    BY <1>2 DEF PageSource!FreePagesOf
  <2>2. p \in PageSource!Pages
    BY <1>1, <2>1, RangeFacts
  <2>3. PageSource!ChunkOf(p) = i
    BY OfChunk
  <2> QED
    BY <2>1, <2>2, <2>3 DEF TakenPages
<1>3. ASSUME NEW p \in TakenPages(allocated, i)
      PROVE  p \in PageSource!ChunkPagesOf(i) /\ p \notin PageSource!FreePagesOf(i)
  <2>1. PICK r \in allocated : p \in PageSource!PagesOf(r) /\ PageSource!ChunkOf(p) = i
    BY DEF TakenPages
  <2>2. p \in PageSource!ChunkPagesOf(i)
    BY <2>1, OfChunk
  <2> QED
    BY <2>1, <2>2 DEF PageSource!FreePagesOf
<1> QED
  BY <1>2, <1>3

\* The chunks count their pages, and the unused ones are in the list.
LEMMA ChunksSoundHolds ==
  ASSUME PageInv
  PROVE  PageSource!ChunksSound
<1>1. \A i \in PageSource!ChunkIds :
        chunks[i + 1].pagesUsed = Cardinality(PageSource!ChunkPagesOf(i) \ PageSource!FreePagesOf(i))
  BY TakenAre DEF PageInv, UsedPages
<1>2. \A i \in PageSource!ChunkIds :
        ~PageSource!Used(i) <=>
          i = freeChunk
            \/ \E j \in PageSource!ChunkIds : ~PageSource!Used(j) /\ chunks[j + 1].nextChunk = i
  BY DEF PageInv, UnusedChunks
<1> QED
  BY <1>1, <1>2, SameCardinality DEF PageSource!ChunksSound

\* Pages that are free one after the other are in one free range.
LEMMA FreePagesRange ==
  ASSUME PageInv, NEW i \in PageSource!ChunkIds, NEW p \in Nat, NEW n \in 1..ChunkPages,
         p..(p + n - 1) \subseteq PageSource!FreePagesOf(i)
  PROVE  \E r \in Members(freeList) :
           /\ PageSource!ChunkOf(r.index) = i /\ r.index <= p /\ p + n <= r.index + r.count
<1>1. PICK F, size, b, R : F = Members(freeList) /\ size = PageCounts /\ b = Start(i) /\ R = allocated \union F
  OBVIOUS
<1>2. /\ GoodSizes(size) /\ PageSets(allocated, F, size) /\ Partition(R, size)
      /\ i \in DOMAIN size /\ i \in Nat /\ b \in Nat /\ size[i] \in Nat
  BY <1>1, InvSets
<1>3. n \in Nat \ {0}
  BY PageConstants
<1>4. ASSUME NEW q \in Nat, p <= q, q < p + n
      PROVE  /\ PageSource!ChunkOf(q) = i /\ b <= q /\ q < b + size[i]
             /\ \A r \in R : q \in PageSource!PagesOf(r) => r \in F
  <2>1. q \in p..(p + n - 1)
    BY <1>3, <1>4
  <2>2. q \in PageSource!ChunkPagesOf(i) /\ \A r \in allocated : q \notin PageSource!PagesOf(r)
    BY <2>1 DEF PageSource!FreePagesOf
  <2>3. PageSource!ChunkOf(q) = i /\ b <= q /\ q < b + size[i]
    BY <1>1, <2>2, OfChunk
  <2> QED
    BY <1>1, <2>2, <2>3
<1>5. PICK r \in R : p \in PageSource!PagesOf(r)
  <2>1. b <= p /\ p < b + size[i]
    BY <1>3, <1>4
  <2> QED
    BY <1>1, <1>2, <2>1 DEF Partition, Covers
<1>6. /\ r \in F /\ r \in Ranges /\ r.index \in Nat /\ r.count \in Nat
      /\ PageSource!ChunkOf(r.index) = i /\ r.index <= p /\ p < r.index + r.count
  <2>1. r \in F /\ PageSource!ChunkOf(p) = i
    BY <1>3, <1>4, <1>5
  <2>2. r \in Ranges /\ r.index \in Nat /\ r.count \in Nat
        /\ PageSource!ChunkOf(p) = PageSource!ChunkOf(r.index)
    BY <1>1, <1>2, <1>5, RangeFacts
  <2> QED
    BY <1>5, <2>1, <2>2, PagesAre
<1>7. p + n <= r.index + r.count
  <2> SUFFICES ASSUME r.index + r.count < p + n PROVE FALSE
    BY <1>3, <1>6
  <2>1. PICK q : q = r.index + r.count
    OBVIOUS
  <2>2. q \in Nat /\ p <= q /\ q < p + n
    BY <1>6, <2>1
  <2>3. q < b + size[i]
    BY <1>4, <2>2
  <2>4. PICK s \in R : s.index = q /\ PageSource!Inside(s.index)
    BY <1>1, <1>2, <1>5, <1>6, <2>1, <2>3, NextRange
  <2>5. q \in PageSource!PagesOf(s)
    <3>1. s \in Ranges /\ s.count \in Nat \ {0}
      BY <1>1, <1>2, RangeFacts
    <3> QED
      BY <2>4, <3>1, PagesAre
  <2>6. s \in F
    BY <1>4, <2>2, <2>5
  <2> QED
    BY <1>2, <1>6, <2>1, <2>4, <2>6 DEF PageSets, Apart
<1> QED
  BY <1>1, <1>6, <1>7

\* allocPages finds a range whenever an open chunk has room for one.
LEMMA FailsOnlyWhenFullHolds ==
  ASSUME PageInv
  PROVE  PageSource!FailsOnlyWhenFull
<1> SUFFICES ASSUME NEW n \in 1..ChunkPages, NEW a \in Alignments, PageSource!Suitable(n, a) = {},
                    NEW i \in PageSource!ChunkIds, NEW p \in PageSource!Pages,
                    ~chunks[i + 1].disabled, p % a = 0,
                    p..(p + n - 1) \subseteq PageSource!FreePagesOf(i)
             PROVE  FALSE
  BY DEF PageSource!FailsOnlyWhenFull
<1>1. p \in Nat /\ n \in Nat /\ a \in Nat \ {0}
  BY PageConstants DEF PageSource!Pages
<1>2. PICK r \in Members(freeList) :
        /\ PageSource!ChunkOf(r.index) = i /\ r.index <= p /\ p + n <= r.index + r.count
  BY <1>1, FreePagesRange
<1>3. PICK k \in 1..Len(freeList) : r = freeList[k]
  BY DEF Members
<1>4. r.index \in Nat /\ r.count \in Nat
  <2>1. PageSets(allocated, Members(freeList), PageCounts) /\ GoodSizes(PageCounts)
    BY InvSets
  <2> QED
    BY <2>1, RangeFacts
<1>5. PICK c : c = PageSource!SearchFreeList(n)
  OBVIOUS
<1>6. /\ c \in 0..Len(freeList) /\ Len(freeList) \in Nat
      /\ \A j \in 1..Len(freeList) : freeList[j].count >= n <=> j <= c
  <2>1. CountOf(n, c)
    BY <1>1, <1>5, SearchCounts DEF PageInv
  <2> QED
    BY <2>1, ListRanges DEF CountOf
<1>7. k <= c
  <2>1. r.count >= n
    BY <1>1, <1>2, <1>4
  <2> QED
    BY <1>3, <1>6, <2>1
<1>8. PICK m : m = k - 1
  OBVIOUS
<1>9. m \in 0..(c - 1) /\ freeList[m + 1] = r
  <2>1. k \in Nat /\ k >= 1 /\ c \in Nat
    BY <1>3, <1>6
  <2>2. m \in 0..(c - 1) /\ m + 1 = k
    BY <1>7, <1>8, <2>1
  <2> QED
    BY <1>3, <2>2
<1>10. PICK t : t = PageSource!Aligned(r.index, a)
  OBVIOUS
<1>11. t \in Nat /\ t <= p
  <2>1. PICK x \in Nat : x = r.index
    BY <1>4
  <2>2. t = PageSource!Aligned(x, a)
    BY <1>10, <2>1
  <2>3. t \in Nat /\ \A q \in Nat : q % a = 0 /\ x <= q => t <= q
    BY <1>1, <2>2, AlignedFirst
  <2> QED
    BY <1>1, <1>2, <2>1, <2>3
<1>12. t + n <= r.index + r.count
  BY <1>1, <1>2, <1>4, <1>11
<1>13. m \in PageSource!Suitable(n, a)
  <2>1. ~chunks[PageSource!ChunkOf(r.index) + 1].disabled
    BY <1>2
  <2> QED
    BY <1>5, <1>9, <1>10, <1>12, <2>1 DEF PageSource!Suitable
<1> QED
  BY <1>13

\* The invariant implies what is stated of the page allocator.
LEMMA PagesSoundHolds ==
  ASSUME PageInv
  PROVE  PageSource!PagesSound
  BY PagesPartitionedHolds, ListSoundHolds, ChunksSoundHolds, FailsOnlyWhenFullHolds
  DEF PageSource!PagesSound

\* The invariant implies the types.
LEMMA PageTypesHold ==
  ASSUME PageInv
  PROVE  PageSource!TypeOK
<1> USE DEF PageSource!Absent
<1>1. PICK F, size : F = Members(freeList) /\ size = PageCounts
  OBVIOUS
<1>2. /\ GoodSizes(size) /\ PageSets(allocated, F, size) /\ SoundList(freeList, pageLut)
      /\ ChunkTypes /\ UsedPages
  BY <1>1, InvSets DEF PageInv
<1>3. DOMAIN freeList = 1..Len(freeList) /\ Len(freeList) \in Nat
  BY ListRanges, LenProperties
<1>4. ASSUME NEW k \in DOMAIN freeList
      PROVE  freeList[k].index \in PageSource!Pages /\ freeList[k].count \in 1..ChunkPages
  <2>1. PICK r : r = freeList[k]
    OBVIOUS
  <2>2. r \in F
    BY <1>1, <1>3, <2>1 DEF Members
  <2>3. Within(r, size) /\ r \in Ranges /\ r.index \in Nat /\ r.count \in Nat \ {0}
    BY <1>2, <2>2, RangeFacts
  <2>4. r.index \in PageSource!Pages
    <3>1. r.index \in PageSource!PagesOf(r)
      BY <2>3, PagesAre
    <3> QED
      BY <1>2, <2>2, <3>1, RangeFacts
  <2>5. r.count \in 1..ChunkPages
    <3>1. PICK i : i = PageSource!ChunkOf(r.index)
      OBVIOUS
    <3>2. /\ Start(i) \in Nat /\ size[i] \in 0..ChunkPages
          /\ Start(i) <= r.index /\ r.index + r.count <= Start(i) + size[i]
      BY <1>2, <2>3, <3>1, RangeChunk
    <3> QED
      BY <2>3, <3>2, PageConstants
  <2> QED
    BY <2>1, <2>4, <2>5
<1>5. pageLut \in [PageSource!Pages -> {-1} \union 0..(Len(freeList) - 1)]
  <2>1. pageLut \in [PageSource!Pages -> -1..(Len(freeList) - 1)]
    BY <1>2 DEF SoundList
  <2>2. -1..(Len(freeList) - 1) \subseteq {-1} \union 0..(Len(freeList) - 1)
    BY <1>3
  <2> QED
    BY <2>1, <2>2
<1>6. Len(chunks) \in Nat /\ DOMAIN chunks = 1..Len(chunks)
  BY <1>2, ChunkFields
<1>7. -1..(Len(chunks) - 1) \subseteq {-1} \union PageSource!ChunkIds
  BY <1>6 DEF PageSource!ChunkIds
<1>8. ASSUME NEW k \in DOMAIN chunks
      PROVE  /\ chunks[k].pageCount \in 0..ChunkPages
             /\ chunks[k].pagesUsed \in 0..chunks[k].pageCount
             /\ chunks[k].nextChunk \in {-1} \union PageSource!ChunkIds
             /\ chunks[k].disabled \in BOOLEAN
  <2>1. PICK i : i = k - 1
    OBVIOUS
  <2>2. i \in PageSource!ChunkIds /\ i + 1 = k
    BY <1>6, <2>1 DEF PageSource!ChunkIds
  <2>3. chunks[k] \in ChunkRecords
    BY <1>2, <2>2, ChunkFields
  <2>4. chunks[k].pageCount \in 0..ChunkPages /\ chunks[k].disabled \in BOOLEAN
        /\ chunks[k].pagesUsed \in Nat
    BY <2>3 DEF ChunkRecords
  <2>5. chunks[k].nextChunk \in {-1} \union PageSource!ChunkIds
    BY <1>2, <1>7, <2>2 DEF ChunkTypes
  <2>6. chunks[k].pagesUsed <= chunks[k].pageCount
    <3>1. PICK b, n : b = Start(i) /\ n = size[i]
      OBVIOUS
    <3>2. b \in Nat /\ n \in Nat /\ n = chunks[k].pageCount
      BY <1>1, <2>2, <3>1, InvSets
    <3>3. IsFiniteSet(b..(b + n - 1)) /\ Cardinality(b..(b + n - 1)) = n
      <4>1. PICK lo \in Int, hi \in Int : lo = b /\ hi = b + n - 1
        BY <3>2
      <4>2. IsFiniteSet(lo..hi) /\ Cardinality(lo..hi) = IF lo > hi THEN 0 ELSE hi - lo + 1
        BY FS_Interval
      <4>3. (IF lo > hi THEN 0 ELSE hi - lo + 1) = n
        BY <3>2, <4>1
      <4> QED
        BY <4>1, <4>2, <4>3
    <3>4. TakenPages(allocated, i) \in SUBSET (b..(b + n - 1))
      <4>1. TakenPages(allocated, i) \subseteq PageSource!ChunkPagesOf(i)
        BY <2>2, TakenAre
      <4>2. \A p \in PageSource!ChunkPagesOf(i) : p \in b..(b + n - 1)
        <5>1. \A p \in PageSource!ChunkPagesOf(i) : p \in Nat /\ b <= p /\ p < b + n
          BY <1>1, <2>2, <3>1, OfChunk
        <5> QED
          BY <3>2, <5>1
      <4> QED
        BY <4>1, <4>2
    <3>5. Cardinality(TakenPages(allocated, i)) <= n
      BY <3>3, <3>4, FS_Subset
    <3> QED
      BY <1>2, <2>2, <3>2, <3>5 DEF UsedPages
  <2> QED
    BY <2>4, <2>5, <2>6
<1>9. Len(chunks) <= MaxChunks /\ freeChunk \in {-1} \union PageSource!ChunkIds
  BY <1>2, <1>7 DEF ChunkTypes
<1> QED
  BY <1>4, <1>5, <1>8, <1>9 DEF PageSource!TypeOK

-----------------------------------------------------------------------------
(* The theorems *)

\* The invariant of the page allocator holds in every behaviour of the device.
LEMMA PageInvHolds == DeviceSpec => []PageInv
<1>1. DeviceInit => PageInv
  BY PageInit DEF DeviceInit
<1>2. PageInv /\ [DeviceNext]_deviceVars => PageInv'
  BY PageStep, ServiceSteps
<1> QED
  BY <1>1, <1>2, PTL DEF DeviceSpec

\* DxvkPageAllocator gives every page of a chunk to one caller or has it in one range of
\* m_freeList, keeps the list sorted and its look-up table right, counts the pages of a
\* chunk, and finds a range whenever an open chunk has room; DxvkPoolAllocator gives every
\* item of a page to one caller or has it free, knows the pages with room, never has a
\* PagePool twice and fills no page of a closed chunk.
THEOREM MemoryCorrect == DeviceSpec => []MemorySound
<1>1. ItemInv /\ PageInv => MemorySound
  BY ItemsSoundHolds, PagesSoundHolds DEF MemorySound
<1> QED
  BY <1>1, ItemInvHolds, PageInvHolds, PTL

\* The variables of a submission take values of their types, and no semaphore is ahead of
\* the last value that was taken of its timeline.
LEMMA SubmissionTypes ==
  ASSUME Inv
  PROVE  Lists!TypeOK
<1>1. SubTypes /\ WaitsInv
  BY DEF Inv
<1>2. \A s \in Lists!Semaphores : semaphore[s] \in Nat /\ semaphore[s] <= timelines[s]
  BY <1>1 DEF SubTypes, WaitsInv
<1>3. done \subseteq (1..MaxLists) \X (1..MaxSubmissions) \X {"sparse", "sdma", "exec", "signal"}
  <2> SUFFICES ASSUME NEW x \in Lists!AllWork
               PROVE  x \in (1..MaxLists) \X (1..MaxSubmissions) \X {"sparse", "sdma", "exec", "signal"}
    BY DEF Inv, AllDone
  <2>1. PICK n \in DOMAIN issued : x \in Lists!WorkOf(issued[n])
    BY DEF Lists!AllWork
  <2>2. issued[n] \in [list : 1..MaxLists, index : 1..MaxSubmissions, flags : Flags]
    <3>1. DOMAIN issued = 1..Len(issued)
      BY <1>1, LenProperties DEF SubTypes
    <3> QED
      BY <1>1, <3>1, ElementOfSeq DEF SubTypes
  <2>3. issued[n].list \in 1..MaxLists /\ issued[n].index \in 1..MaxSubmissions
    BY <2>2
  <2> QED
    BY <2>1, <2>3 DEF Lists!WorkOf
<1>4. \A b \in batches : b.queue \in Lists!Queues /\ (b.queue = "transfer" => dedicated)
  BY DEF Inv, BatchTypes, BatchFields
<1>5. retired \in 0..Len(finish) /\ Len(finish) < list
  <2>1. finish \in Seq([Lists!Semaphores -> Nat]) /\ Len(finish) + 1 = list /\ retired \in 0..Len(finish)
    BY <1>1 DEF SubTypes
  <2>2. Len(finish) \in Nat
    BY <2>1, LenProperties
  <2> QED
    BY <2>1, <2>2
<1> QED
  BY <1>1, <1>2, <1>3, <1>4, <1>5 DEF SubTypes, Lists!TypeOK

\* The variables of every service of the device take values of their types, also those
\* whose range is a matter of the code: the positions in m_freeListLutByPage, the pages
\* that a chunk counts, the pools that are linked, the values that semaphores reach.
THEOREM TypesCorrect == DeviceSpec => []DeviceTypeOK
<1>1. ASSUME FenceInv, CallbackInv, PoolInv, Inv, PageInv, ItemInv
      PROVE  DeviceTypeOK
  <2>1. TypeOK /\ Callback!TypeOK /\ SamplerTypeOK
    BY <1>1 DEF FenceInv, CallbackInv, PoolInv
  <2>2. Lists!TypeOK
    BY <1>1, SubmissionTypes
  <2>3. PageSource!TypeOK /\ ItemSource!TypeOK
    BY <1>1, PageTypesHold, ItemTypesHold
  <2> QED
    BY <2>1, <2>2, <2>3 DEF DeviceTypeOK
<1> QED
  BY <1>1, FenceInvHolds, CallbackInvHolds, PoolInvHolds, SubmissionSpec, PageInvHolds, ItemInvHolds, PTL
=============================================================================
