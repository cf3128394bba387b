--------------------------- MODULE GpuQueryProofs ---------------------------
(***************************************************************************)
(* Proofs about D3D11Query, DxvkQuery and the GPU query manager (GpuQuery),*)
(* for any queries, any number of Vulkan objects, any size of a chunk and  *)
(* any limits: a result that GetData calls available is exact, and every   *)
(* Vulkan object is used once between two resets.                          *)
(*                                                                         *)
(* A call of the application passes through three places before it shows   *)
(* in a result: the context's chunks, the command lists, and the objects   *)
(* whose results are not taken yet.  The invariant (QueryInv) follows it   *)
(* through all three.  The operations that the device has still to execute *)
(* lead from what the objects have now to a state d (Sound); in d, the     *)
(* objects of a virtual query, and what was taken from others before, add  *)
(* up to what is known of the query (Linked); the commands that the CS     *)
(* thread has still to execute lead on from there to what the application  *)
(* expects (Whole, Agrees).  A step of one thread moves an operation or a  *)
(* result from one place to the next one.  GetData can rely on what it     *)
(* finds because no End is pending then (Settled), and because an object   *)
(* that has its result keeps it (DoneKeeps).                               *)
(***************************************************************************)
EXTENDS GpuQuery, TLAPS, WellFoundedInduction, SequenceTheorems, FiniteSetTheorems

-----------------------------------------------------------------------------
(* Paths *)

(***************************************************************************)
(* What is pending is a sequence of steps that are still to be taken, each *)
(* of them a relation between states.  A state is the clock, what the      *)
(* Vulkan objects have, and what is known of each query when all its       *)
(* results are there: whether it is being counted and whether it was       *)
(* ended, its count, and how many ends are still to come.                  *)
(***************************************************************************)
Notes == [on : BOOLEAN, ended : BOOLEAN, count : Nat, resets : Nat]
Results == [state : {"reset", "open", "done"}, value : Nat]
States == [clock : Nat, gpu : [Objects -> Results], notes : [Queries -> Notes]]
Relations == SUBSET (States \X States)

Path(R, s, t) ==
  \E S \in [0..Len(R) -> States] :
    /\ S[0] = s /\ S[Len(R)] = t
    /\ \A k \in 1..Len(R) : <<S[k - 1], S[k]>> \in R[k]

\* A set of naturals that is not empty has a least member.
LEMMA NatMin ==
  ASSUME NEW T \in SUBSET Nat, T # {}
  PROVE  \E x \in T : \A y \in T : x <= y
<1> DEFINE R == OpToRel(<, Nat)
<1>1. IsWellFoundedOn(R, Nat)
  BY NatLessThanWellFounded, Zenon
<1>2. \A x \in Nat, y \in Nat : ~(<<y, x>> \in R) => x <= y
  BY DEF OpToRel
<1> HIDE DEF R
<1>3. \E x \in T : \A y \in T : ~(<<y, x>> \in R)
  BY <1>1, WFMin
<1> QED
  BY <1>2, <1>3

\* A property of 0 that every number hands on to the next holds for all up to n.
LEMMA FirstFailure ==
  ASSUME NEW n \in Nat, NEW F, 0 \notin F, \A k \in 1..n : k \in F => k - 1 \in F
  PROVE  \A k \in 0..n : k \notin F
<1> SUFFICES ASSUME NEW j \in 0..n, j \in F PROVE FALSE
  OBVIOUS
<1> DEFINE T == {k \in 0..n : k \in F}
<1>1. T \in SUBSET Nat /\ T # {}
  OBVIOUS
<1> HIDE DEF T
<1>2. PICK k \in T : \A i \in T : k <= i
  BY <1>1, NatMin
<1> USE DEF T
<1>3. k \in 1..n /\ k \in F
  OBVIOUS
<1>4. k - 1 \in F /\ k - 1 \in 0..n
  BY <1>3
<1>5. k <= k - 1
  BY <1>2, <1>4
<1> QED
  BY <1>3, <1>5

\* Without a step one stays where one is.
LEMMA PathEmpty ==
  ASSUME NEW R \in Seq(Relations), R = <<>>, NEW s \in States, NEW t
  PROVE  Path(R, s, t) <=> s = t
<1>1. Len(R) = 0
  OBVIOUS
<1>2. ASSUME s = t PROVE Path(R, s, t)
  <2> DEFINE S == [k \in 0..0 |-> s]
  <2>1. S \in [0..Len(R) -> States] /\ S[0] = s /\ S[Len(R)] = t
    BY <1>1, <1>2
  <2>2. \A k \in 1..Len(R) : FALSE
    BY <1>1
  <2> HIDE DEF S
  <2> QED
    BY <2>1, <2>2 DEF Path
<1>3. ASSUME Path(R, s, t) PROVE s = t
  BY <1>1, <1>3 DEF Path
<1> QED
  BY <1>2, <1>3

\* A step is added.
LEMMA PathAppend ==
  ASSUME NEW R \in Seq(Relations), NEW s, NEW u, NEW t, Path(R, s, u),
         NEW Q \in Seq(Relations), Len(Q) = Len(R) + 1, <<u, t>> \in Q[Len(Q)],
         \A k \in 1..Len(R) : Q[k] = R[k]
  PROVE  Path(Q, s, t)
<1> DEFINE n == Len(R)
<1>1. PICK S \in [0..n -> States] :
        S[0] = s /\ S[n] = u /\ \A k \in 1..n : <<S[k - 1], S[k]>> \in R[k]
  BY DEF Path
<1> DEFINE T == [k \in 0..(n + 1) |-> IF k = n + 1 THEN t ELSE S[k]]
<1>2. n \in Nat /\ Q[n + 1] \in Relations
  OBVIOUS
<1>3. t \in States
  BY <1>2 DEF Relations
<1>4. T \in [0..(n + 1) -> States] /\ T[0] = s /\ T[n + 1] = t
  BY <1>1, <1>2, <1>3
<1>5. ASSUME NEW k \in 1..(n + 1) PROVE <<T[k - 1], T[k]>> \in Q[k]
  <2>1. k - 1 \in 0..n /\ k \in 0..(n + 1) /\ k - 1 # n + 1
    BY <1>2
  <2>2. T[k - 1] = S[k - 1] /\ T[k] = IF k = n + 1 THEN t ELSE S[k]
    BY <2>1
  <2>3. CASE k = n + 1
    <3>1. k - 1 = n /\ T[k] = t
      BY <1>2, <2>2, <2>3
    <3>2. T[k - 1] = u
      BY <1>1, <2>2, <3>1
    <3> QED
      BY <2>3, <3>1, <3>2
  <2>4. CASE k # n + 1
    <3>1. k \in 1..n
      BY <1>2, <2>4
    <3> QED
      BY <1>1, <2>2, <2>4, <3>1
  <2> QED
    BY <2>3, <2>4
<1> HIDE DEF T, n
<1>6. \E X \in [0..(n + 1) -> States] :
        X[0] = s /\ X[n + 1] = t /\ \A k \in 1..(n + 1) : <<X[k - 1], X[k]>> \in Q[k]
  BY <1>4, <1>5
<1> QED
  BY <1>6 DEF Path, n

\* The first step, and what is left.
LEMMA PathHead ==
  ASSUME NEW R \in Seq(Relations), NEW s, NEW t, Path(R, s, t),
         NEW Q \in Seq(Relations), Len(R) = Len(Q) + 1, \A k \in 1..Len(Q) : Q[k] = R[k + 1]
  PROVE  \E u \in States : <<s, u>> \in R[1] /\ Path(Q, u, t)
<1> DEFINE n == Len(R)
<1>1. PICK S \in [0..n -> States] :
        S[0] = s /\ S[n] = t /\ \A k \in 1..n : <<S[k - 1], S[k]>> \in R[k]
  BY DEF Path
<1>2. n \in Nat \ {0} /\ Len(Q) = n - 1
  OBVIOUS
<1> DEFINE T == [k \in 0..(n - 1) |-> S[k + 1]]
<1>3. T \in [0..(n - 1) -> States] /\ T[0] = S[1] /\ T[n - 1] = t /\ S[1] \in States
  BY <1>1, <1>2
<1>4. ASSUME NEW k \in 1..(n - 1) PROVE <<T[k - 1], T[k]>> \in Q[k]
  <2>1. T[k - 1] = S[k] /\ T[k] = S[k + 1] /\ k + 1 \in 1..n /\ (k + 1) - 1 = k
    BY <1>2
  <2> QED
    BY <1>1, <1>2, <2>1
<1>5. <<s, S[1]>> \in R[1]
  BY <1>1, <1>2
<1> HIDE DEF T
<1> QED
  BY <1>2, <1>3, <1>4, <1>5 DEF Path

\* A step is put in front.
LEMMA PathCons ==
  ASSUME NEW R \in Seq(Relations), NEW s, NEW u, NEW t, Path(R, u, t),
         NEW Q \in Seq(Relations), Len(Q) = Len(R) + 1, <<s, u>> \in Q[1],
         \A k \in 1..Len(R) : Q[k + 1] = R[k]
  PROVE  Path(Q, s, t)
<1> DEFINE n == Len(R)
<1>1. PICK S \in [0..n -> States] :
        S[0] = u /\ S[n] = t /\ \A k \in 1..n : <<S[k - 1], S[k]>> \in R[k]
  BY DEF Path
<1>2. n \in Nat /\ Len(Q) = n + 1 /\ Q[1] \in Relations
  OBVIOUS
<1> DEFINE T == [k \in 0..(n + 1) |-> IF k = 0 THEN s ELSE S[k - 1]]
<1>3. s \in States
  BY <1>2 DEF Relations
<1>4. T \in [0..(n + 1) -> States] /\ T[0] = s /\ T[n + 1] = t
  BY <1>1, <1>2, <1>3
<1>5. ASSUME NEW k \in 1..(n + 1) PROVE <<T[k - 1], T[k]>> \in Q[k]
  <2>1. k - 1 \in 0..(n + 1) /\ k \in 0..(n + 1) /\ k # 0
    BY <1>2
  <2>2. T[k] = S[k - 1] /\ T[k - 1] = IF k = 1 THEN s ELSE S[k - 2]
    BY <2>1
  <2>3. CASE k = 1
    <3>1. T[k - 1] = s /\ k - 1 = 0
      BY <2>2, <2>3
    <3>2. T[k] = u
      BY <1>1, <2>2, <2>3, <3>1
    <3> QED
      BY <2>3, <3>1, <3>2
  <2>4. CASE k # 1
    <3>1. k - 1 \in 1..n /\ (k - 1) - 1 = k - 2
      BY <1>2, <2>4
    <3>2. <<S[k - 2], S[k - 1]>> \in R[k - 1] /\ Q[(k - 1) + 1] = R[k - 1] /\ (k - 1) + 1 = k
      BY <1>1, <3>1
    <3> QED
      BY <2>2, <2>4, <3>2
  <2> QED
    BY <2>3, <2>4
<1> HIDE DEF T
<1> QED
  BY <1>2, <1>4, <1>5 DEF Path

\* The ends of a path.
LEMMA PathEnds ==
  ASSUME NEW R \in Seq(Relations), NEW s, NEW t, Path(R, s, t)
  PROVE  s \in States /\ t \in States
BY DEF Path

\* A step that takes states of D to states of D, and still does after f has changed both.
Allows(r, D, f) ==
  \A a, b \in States : a \in D /\ <<a, b>> \in r => b \in D /\ <<f[a], f[b]>> \in r

\* A change of the states that every step allows, as long as they are in D.
LEMMA PathTransport ==
  ASSUME NEW R \in Seq(Relations), NEW D, NEW f \in [States -> States],
         NEW s \in D, NEW t, Path(R, s, t),
         \A k \in 1..Len(R) : Allows(R[k], D, f)
  PROVE  t \in D /\ Path(R, f[s], f[t])
<1>0. \A k \in 1..Len(R) : \A a, b \in States :
        a \in D /\ <<a, b>> \in R[k] => b \in D /\ <<f[a], f[b]>> \in R[k]
  BY DEF Allows
<1> DEFINE n == Len(R)
<1>1. PICK S \in [0..n -> States] :
        S[0] = s /\ S[n] = t /\ \A k \in 1..n : <<S[k - 1], S[k]>> \in R[k]
  BY DEF Path
<1>2. n \in Nat
  OBVIOUS
<1> DEFINE F == {k \in 0..n : S[k] \notin D}
<1>3. \A k \in 0..n : k \notin F
  <2>1. 0 \notin F
    BY <1>1
  <2>2. ASSUME NEW k \in 1..n, k \in F PROVE k - 1 \in F
    <3>1. k - 1 \in 0..n /\ k \in 0..n /\ S[k - 1] \in States /\ S[k] \in States
      BY <1>1, <1>2
    <3>2. S[k] \notin D /\ <<S[k - 1], S[k]>> \in R[k] /\ k \in 1..Len(R)
      BY <1>1, <2>2
    <3>3. S[k - 1] \notin D
      BY <1>0, <3>1, <3>2
    <3> QED
      BY <3>1, <3>3
  <2> HIDE DEF F
  <2> QED
    BY <1>2, <2>1, <2>2, FirstFailure
<1>4. \A k \in 0..n : S[k] \in D
  BY <1>3
<1> DEFINE T == [k \in 0..n |-> f[S[k]]]
<1>5. T \in [0..n -> States] /\ T[0] = f[s] /\ T[n] = f[t]
  BY <1>1, <1>2
<1>6. ASSUME NEW k \in 1..n PROVE <<T[k - 1], T[k]>> \in R[k]
  <2>1. T[k - 1] = f[S[k - 1]] /\ T[k] = f[S[k]] /\ k - 1 \in 0..n /\ k \in 0..n
    BY <1>2
  <2>2. S[k - 1] \in States /\ S[k] \in States /\ S[k - 1] \in D /\ <<S[k - 1], S[k]>> \in R[k] /\ k \in 1..Len(R)
    BY <1>1, <1>4, <2>1
  <2> HIDE DEF T
  <2>3. <<f[S[k - 1]], f[S[k]]>> \in R[k]
    BY <1>0, <2>2
  <2> QED
    BY <2>1, <2>3
<1>7. t \in D
  BY <1>1, <1>2, <1>4
<1> HIDE DEF T
<1> QED
  BY <1>5, <1>6, <1>7 DEF Path

\* A step is taken in the relation that is the first to be more than the identity.
LEMMA PathReplace ==
  ASSUME NEW R \in Seq(Relations), NEW i \in 1..Len(R), NEW s, NEW t, Path(R, s, t),
         \A k \in 1..(i - 1) : R[k] = {<<a, a>> : a \in States},
         NEW Q \in Seq(Relations), Len(Q) = Len(R), \A k \in 1..Len(R) : k # i => Q[k] = R[k]
  PROVE  \E b \in States :
           <<s, b>> \in R[i] /\ \A x \in States : <<x, b>> \in Q[i] => Path(Q, x, t)
<1> DEFINE n == Len(R)
<1>1. PICK S \in [0..n -> States] :
        S[0] = s /\ S[n] = t /\ \A k \in 1..n : <<S[k - 1], S[k]>> \in R[k]
  BY DEF Path
<1>2. n \in Nat /\ i \in 1..n
  OBVIOUS
<1> DEFINE F == {k \in 0..(i - 1) : S[k] # s}
<1>3. \A k \in 0..(i - 1) : k \notin F
  <2>1. 0 \notin F
    BY <1>1
  <2>2. ASSUME NEW k \in 1..(i - 1), k \in F PROVE k - 1 \in F
    <3>1. k - 1 \in 0..(i - 1) /\ k \in 1..n
      BY <1>2
    <3>2. S[k - 1] = S[k]
      BY <1>1, <3>1
    <3> QED
      BY <2>2, <3>1, <3>2
  <2>3. i - 1 \in Nat
    BY <1>2
  <2> HIDE DEF F
  <2> QED
    BY <2>1, <2>2, <2>3, FirstFailure
<1>4. S[i - 1] = s /\ S[i] \in States
  BY <1>1, <1>2, <1>3
<1>5. <<s, S[i]>> \in R[i]
  BY <1>1, <1>2, <1>4
<1>6. ASSUME NEW x \in States, <<x, S[i]>> \in Q[i]
      PROVE  Path(Q, x, t)
  <2> DEFINE T == [k \in 0..n |-> IF k < i THEN x ELSE S[k]]
  <2>1. Len(Q) = n /\ \A k \in 1..n : k # i => Q[k] = R[k]
    OBVIOUS
  <2>2. T \in [0..n -> States] /\ T[0] = x /\ T[n] = t
    BY <1>1, <1>2
  <2>3. ASSUME NEW k \in 1..n PROVE <<T[k - 1], T[k]>> \in Q[k]
    <3>1. CASE k < i
      <4>1. T[k - 1] = x /\ T[k] = x /\ k \in 1..(i - 1)
        BY <1>2, <3>1
      <4>2. <<x, x>> \in R[k]
        BY <4>1
      <4>3. Q[k] = R[k]
        BY <1>2, <2>1, <3>1
      <4> QED
        BY <4>1, <4>2, <4>3
    <3>2. CASE k = i
      <4>1. T[k - 1] = x /\ T[k] = S[i]
        BY <1>2, <3>2
      <4> QED
        BY <1>6, <2>1, <3>2, <4>1
    <3>3. CASE k > i
      <4>1. T[k - 1] = S[k - 1] /\ T[k] = S[k]
        BY <1>2, <3>3
      <4> QED
        BY <1>1, <1>2, <2>1, <3>3, <4>1
    <3> QED
      BY <1>2, <3>1, <3>2, <3>3
  <2> HIDE DEF T, n
  <2> QED
    BY <2>1, <2>2, <2>3 DEF Path
<1> HIDE DEF n
<1> QED
  BY <1>4, <1>5, <1>6

-----------------------------------------------------------------------------
(* What the immediate context holds *)

Commands(n) ==
  ({"begin"} \X Scoped) \union ({"end"} \X Queries) \union {<<"draw">>, <<"targets">>}
    \union ({"flush"} \X (0..n))

\* What a command does to what is known of a query, at time k.
Noted(c, q, k, a) ==
  IF c[1] = "draw"
    THEN [on |-> a.on, ended |-> a.ended, count |-> IF a.on THEN a.count + 1 ELSE a.count, resets |-> a.resets]
  ELSE IF c[1] = "begin" /\ c[2] = q
    THEN [on |-> TRUE, ended |-> FALSE, count |-> 0, resets |-> a.resets]
  ELSE IF c[1] = "end" /\ c[2] = q
    THEN [on |-> FALSE, ended |-> TRUE, count |-> IF q \in Timestamps THEN k ELSE a.count,
          resets |-> a.resets - 1]
  ELSE a

CommandRel(c) ==
  {p \in States \X States :
     /\ p[2].gpu = p[1].gpu
     /\ p[2].clock = IF c[1] = "draw" THEN p[1].clock + 1 ELSE p[1].clock
     /\ p[2].notes = [q \in Queries |-> Noted(c, q, p[1].clock, p[1].notes[q])]}

\* A command that a query does not notice.
LEMMA FlushNeutral ==
  ASSUME NEW s \in States, NEW c, c[1] \in {"targets", "flush"}
  PROVE  <<s, s>> \in CommandRel(c)
<1>1. s.notes = [q \in Queries |-> s.notes[q]]
  BY DEF States
<1>2. \A q \in Queries : Noted(c, q, s.clock, s.notes[q]) = s.notes[q]
  BY DEF Noted
<1> QED
  BY <1>1, <1>2 DEF CommandRel

ChunkRels(chunk) == [k \in DOMAIN chunk |-> CommandRel(chunk[k])]
ChunkRel(chunk) == {p \in States \X States : Path(ChunkRels(chunk), p[1], p[2])}
StreamRels(stream) == [i \in DOMAIN stream |-> ChunkRel(stream[i])]

\* The commands of the context lead from s to t.
Leads(c, s, t) ==
  \E u \in States : Path(StreamRels(c.stream), s, u) /\ <<u, t>> \in ChunkRel(c.chunk)

Shape(c, n) ==
  c \in [chunk : Seq(Commands(n)), stream : Seq(Seq(Commands(n)) \ {<<>>}), seq : Nat,
         flushSeq : Nat, submission : Nat, missed : 0..4]

Recorded(c, s, t, n) == Shape(c, n) /\ Leads(c, s, t)

\* Commands and chunks are relations between states,
LEMMA RelTypes ==
  /\ \A c : CommandRel(c) \in Relations
  /\ \A chunk : ChunkRel(chunk) \in Relations
BY DEF CommandRel, ChunkRel, Relations

\* and chunks and streams sequences of them.
LEMMA RelSeqs ==
  /\ \A n : \A chunk \in Seq(Commands(n)) :
       /\ ChunkRels(chunk) \in Seq(Relations) /\ Len(ChunkRels(chunk)) = Len(chunk)
       /\ \A k \in 1..Len(chunk) : ChunkRels(chunk)[k] = CommandRel(chunk[k])
  /\ \A n : \A stream \in Seq(Seq(Commands(n))) :
       /\ StreamRels(stream) \in Seq(Relations) /\ Len(StreamRels(stream)) = Len(stream)
       /\ \A k \in 1..Len(stream) : StreamRels(stream)[k] = ChunkRel(stream[k])
<1>1. ASSUME NEW n, NEW chunk \in Seq(Commands(n))
      PROVE  /\ ChunkRels(chunk) \in Seq(Relations) /\ Len(ChunkRels(chunk)) = Len(chunk)
             /\ \A k \in 1..Len(chunk) : ChunkRels(chunk)[k] = CommandRel(chunk[k])
  <2>1. DOMAIN chunk = 1..Len(chunk) /\ Len(chunk) \in Nat
    OBVIOUS
  <2> QED
    BY <2>1, RelTypes DEF ChunkRels
<1>2. ASSUME NEW n, NEW stream \in Seq(Seq(Commands(n)))
      PROVE  /\ StreamRels(stream) \in Seq(Relations) /\ Len(StreamRels(stream)) = Len(stream)
             /\ \A k \in 1..Len(stream) : StreamRels(stream)[k] = ChunkRel(stream[k])
  <2>1. DOMAIN stream = 1..Len(stream) /\ Len(stream) \in Nat
    OBVIOUS
  <2> QED
    BY <2>1, RelTypes DEF StreamRels
<1> QED
  BY <1>1, <1>2

\* An empty chunk leads nowhere else.
LEMMA EmptyChunk ==
  ASSUME NEW s \in States
  PROVE  ChunkRels(<<>>) = <<>> /\ (\A t : <<s, t>> \in ChunkRel(<<>>) <=> t = s)
<1>1. ChunkRels(<<>>) \in Seq(Relations) /\ Len(ChunkRels(<<>>)) = 0
  <2>1. <<>> \in Seq(Commands(0)) /\ Len(<<>>) = 0
    OBVIOUS
  <2> QED
    BY <2>1, RelSeqs
<1>2. ChunkRels(<<>>) = <<>>
  BY <1>1
<1> QED
  BY <1>1, <1>2, PathEmpty DEF ChunkRel

-----------------------------------------------------------------------------
(* What the application adds *)

\* A command is added to the chunk.
LEMMA PushAdds ==
  ASSUME NEW c, NEW s, NEW t, NEW n \in Nat, Recorded(c, s, t, n),
         NEW x \in Commands(n), NEW u, <<t, u>> \in CommandRel(x)
  PROVE  Recorded(Push(c, x), s, u, n)
<1> DEFINE d == Push(c, x)
<1>1. d = [c EXCEPT !.chunk = Append(@, x)]
  BY DEF Push
<1>2. Shape(d, n) /\ d.chunk = Append(c.chunk, x) /\ d.stream = c.stream /\ d.seq = c.seq
  <2>1. Shape(c, n) /\ c.chunk \in Seq(Commands(n))
    BY DEF Recorded, Shape
  <2>2. Append(c.chunk, x) \in Seq(Commands(n))
    BY <2>1
  <2> HIDE DEF Commands
  <2>3. d = [chunk |-> Append(c.chunk, x), stream |-> c.stream, seq |-> c.seq,
             flushSeq |-> c.flushSeq, submission |-> c.submission, missed |-> c.missed]
    BY <1>1, <2>1 DEF Shape
  <2> QED
    BY <2>1, <2>2, <2>3 DEF Shape
<1> HIDE DEF d
<1>3. Leads(d, s, u)
  <2>1. PICK v \in States : Path(StreamRels(c.stream), s, v) /\ <<v, t>> \in ChunkRel(c.chunk)
    BY DEF Recorded, Leads
  <2>2. Path(ChunkRels(c.chunk), v, t) /\ c.chunk \in Seq(Commands(n))
    BY <2>1 DEF ChunkRel, Recorded, Shape
  <2>3. /\ d.chunk \in Seq(Commands(n)) /\ Len(d.chunk) = Len(c.chunk) + 1
        /\ d.chunk[Len(d.chunk)] = x /\ \A k \in 1..Len(c.chunk) : d.chunk[k] = c.chunk[k]
    BY <1>2, <2>2, AppendProperties
  <2> DEFINE R == ChunkRels(c.chunk)
             Q == ChunkRels(d.chunk)
  <2>6. /\ R \in Seq(Relations) /\ Q \in Seq(Relations) /\ Len(Q) = Len(R) + 1
        /\ Q[Len(Q)] = CommandRel(x) /\ \A k \in 1..Len(R) : Q[k] = R[k]
    <3>1. /\ R \in Seq(Relations) /\ Len(R) = Len(c.chunk)
          /\ \A k \in 1..Len(c.chunk) : R[k] = CommandRel(c.chunk[k])
      BY <2>2, RelSeqs
    <3>2. /\ Q \in Seq(Relations) /\ Len(Q) = Len(d.chunk)
          /\ \A k \in 1..Len(d.chunk) : Q[k] = CommandRel(d.chunk[k])
      BY <2>3, RelSeqs
    <3> HIDE DEF R, Q
    <3>3. Len(d.chunk) \in 1..Len(d.chunk) /\ Len(Q) = Len(R) + 1 /\ Len(c.chunk) \in Nat
      BY <2>2, <2>3, <3>1, <3>2
    <3>4. Q[Len(Q)] = CommandRel(x)
      BY <2>3, <3>2, <3>3
    <3>5. ASSUME NEW k \in 1..Len(R) PROVE Q[k] = R[k]
      <4>1. k \in 1..Len(d.chunk) /\ k \in 1..Len(c.chunk)
        BY <2>3, <3>1, <3>3
      <4> QED
        BY <2>3, <3>1, <3>2, <4>1
    <3> QED
      BY <3>1, <3>2, <3>3, <3>4, <3>5
  <2> HIDE DEF R, Q
  <2>7. Path(Q, v, u)
    BY <2>2, <2>6, PathAppend DEF R
  <2>4. Path(ChunkRels(d.chunk), v, u)
    BY <2>7 DEF Q
  <2>5. <<v, u>> \in ChunkRel(d.chunk)
    <3>1. u \in States
      BY DEF CommandRel
    <3> QED
      BY <2>1, <2>4, <3>1 DEF ChunkRel
  <2> QED
    BY <1>2, <2>1, <2>5 DEF Leads
<1>6. Recorded(d, s, u, n)
  BY <1>2, <1>3 DEF Recorded
<1> QED
  BY <1>6 DEF d

\* The chunk is dispatched.
LEMMA FlushChunkKeeps ==
  ASSUME NEW c, NEW s, NEW t, NEW n \in Nat, Recorded(c, s, t, n)
  PROVE  /\ Recorded(FlushChunk(c), s, t, n)
         /\ FlushChunk(c).submission = c.submission
<1> DEFINE d == FlushChunk(c)
<1>1. CASE c.chunk = <<>>
  BY <1>1 DEF FlushChunk
<1>2. CASE c.chunk # <<>>
  <2>1. d = [c EXCEPT !.stream = Append(@, c.chunk), !.seq = @ + 1, !.chunk = <<>>]
    BY <1>2 DEF FlushChunk
  <2>2. c.chunk \in Seq(Commands(n)) \ {<<>>} /\ c.stream \in Seq(Seq(Commands(n)) \ {<<>>}) /\ c.seq \in Nat
    BY <1>2 DEF Recorded, Shape
  <2>3. /\ d.chunk = <<>> /\ d.stream = Append(c.stream, c.chunk) /\ d.seq = c.seq + 1
        /\ d.submission = c.submission /\ d.flushSeq = c.flushSeq /\ d.missed = c.missed
    BY <2>1 DEF Recorded, Shape
  <2>4. Len(d.stream) = Len(c.stream) + 1 /\ d.stream \in Seq(Seq(Commands(n)) \ {<<>>})
    BY <2>2, <2>3
  <2>5. Shape(d, n)
    <3>1. d = [chunk |-> <<>>, stream |-> Append(c.stream, c.chunk), seq |-> c.seq + 1,
               flushSeq |-> c.flushSeq, submission |-> c.submission, missed |-> c.missed]
      BY <2>1 DEF Recorded, Shape
    <3>2. <<>> \in Seq(Commands(n))
      OBVIOUS
    <3> QED
      BY <2>2, <2>3, <2>4, <3>1, <3>2 DEF Recorded, Shape
  <2> HIDE DEF d
  <2>6. Leads(d, s, t)
    <3>1. PICK v \in States : Path(StreamRels(c.stream), s, v) /\ <<v, t>> \in ChunkRel(c.chunk)
      BY DEF Recorded, Leads
    <3>2. c.stream \in Seq(Seq(Commands(n)))
      BY <2>2
    <3> DEFINE R == StreamRels(c.stream)
               Q == StreamRels(d.stream)
    <3>3. /\ d.stream \in Seq(Seq(Commands(n))) /\ Len(d.stream) = Len(c.stream) + 1
          /\ d.stream[Len(d.stream)] = c.chunk
          /\ \A k \in 1..Len(c.stream) : d.stream[k] = c.stream[k]
      BY <2>2, <2>3, <3>2, AppendProperties
    <3>6. /\ R \in Seq(Relations) /\ Q \in Seq(Relations) /\ Len(Q) = Len(R) + 1
          /\ Q[Len(Q)] = ChunkRel(c.chunk) /\ \A k \in 1..Len(R) : Q[k] = R[k]
      <4>1. /\ R \in Seq(Relations) /\ Len(R) = Len(c.stream)
            /\ \A k \in 1..Len(c.stream) : R[k] = ChunkRel(c.stream[k])
        BY <3>2, RelSeqs
      <4>2. /\ Q \in Seq(Relations) /\ Len(Q) = Len(d.stream)
            /\ \A k \in 1..Len(d.stream) : Q[k] = ChunkRel(d.stream[k])
        BY <3>3, RelSeqs
      <4> HIDE DEF R, Q
      <4>3. /\ Len(c.stream) \in Nat /\ Len(Q) = Len(c.stream) + 1 /\ Len(R) = Len(c.stream)
            /\ Len(d.stream) \in 1..Len(d.stream)
        BY <3>2, <3>3, <4>1, <4>2
      <4>4. Q[Len(Q)] = ChunkRel(c.chunk)
        BY <3>3, <4>2, <4>3
      <4>5. ASSUME NEW k \in 1..Len(c.stream) PROVE Q[k] = R[k]
        <5>1. k \in 1..Len(d.stream)
          BY <3>3, <4>3
        <5> QED
          BY <3>3, <4>1, <4>2, <5>1
      <4> QED
        BY <4>1, <4>2, <4>3, <4>4, <4>5
    <3> HIDE DEF R, Q
    <3>7. Path(Q, s, t)
      BY <3>1, <3>6, PathAppend DEF R
    <3>4. Path(StreamRels(d.stream), s, t)
      BY <3>7 DEF Q
    <3>5. t \in States
      BY <3>1 DEF ChunkRel
    <3> QED
      BY <2>3, <3>4, <3>5, EmptyChunk DEF Leads
  <2>9. Recorded(d, s, t, n) /\ d.submission = c.submission
    BY <2>3, <2>5, <2>6 DEF Recorded
  <2> QED
    BY <2>9 DEF d
<1> QED
  BY <1>1, <1>2

\* The other members of the context do not matter, and flushes may be numbered higher.
LEMMA OthersKeep ==
  ASSUME NEW c, NEW s, NEW t, NEW n \in Nat, Recorded(c, s, t, n),
         NEW d, NEW k \in Nat, k >= n,
         d \in [chunk : {c.chunk}, stream : {c.stream}, seq : {c.seq}, flushSeq : Nat,
                submission : Nat, missed : 0..4]
  PROVE  Recorded(d, s, t, k)
<1>1. Commands(n) \subseteq Commands(k)
  BY DEF Commands
<1>2. c.chunk \in Seq(Commands(k)) /\ c.stream \in Seq(Seq(Commands(k)) \ {<<>>})
  <2>1. c.chunk \in Seq(Commands(n)) /\ c.stream \in Seq(Seq(Commands(n)) \ {<<>>})
    BY DEF Recorded, Shape
  <2>2. Seq(Commands(n)) \ {<<>>} \subseteq Seq(Commands(k)) \ {<<>>}
    BY <1>1, SeqMonotonic, Zenon
  <2> QED
    BY <1>1, <2>1, <2>2, SeqMonotonic, Zenon
<1>3. d.chunk = c.chunk /\ d.stream = c.stream /\ d.seq = c.seq
  OBVIOUS
<1>4. Shape(d, k)
  BY <1>2, <1>3 DEF Recorded, Shape
<1> QED
  BY <1>3, <1>4 DEF Recorded, Leads

\* ExecuteFlush, ConsiderFlush, EmitCs and Dispatched, on a context that is as they
\* leave it between two calls.
Whole(c, s, t) == Recorded(c, s, t, c.submission)

\* What the application emits are commands.
LEMMA CommandForms ==
  \A n \in Nat :
    /\ <<"flush", n>> \in Commands(n) /\ <<"draw">> \in Commands(n) /\ <<"targets">> \in Commands(n)
    /\ \A q \in Scoped : <<"begin", q>> \in Commands(n)
    /\ \A q \in Queries : <<"end", q>> \in Commands(n)
BY DEF Commands

\* The members that ExecuteFlush sets.
LEMMA Flushed ==
  ASSUME NEW A, NEW B, NEW n \in Nat, NEW e,
         NEW f \in [chunk : A, stream : B, seq : Nat, flushSeq : Nat, submission : Nat, missed : 0..4],
         e = [f EXCEPT !.submission = n, !.flushSeq = f.seq, !.missed = 4]
  PROVE  e \in [chunk : {f.chunk}, stream : {f.stream}, seq : {f.seq}, flushSeq : Nat,
               submission : Nat, missed : 0..4] /\ e.submission = n
<1> DEFINE g == [f EXCEPT !.submission = n]
           h == [g EXCEPT !.flushSeq = f.seq]
           i == [h EXCEPT !.missed = 4]
<1>0. e = i
  OBVIOUS
<1>1. g \in [chunk : {f.chunk}, stream : {f.stream}, seq : {f.seq}, flushSeq : Nat, submission : {n}, missed : 0..4]
  OBVIOUS
<1> HIDE DEF g
<1>2. h \in [chunk : {f.chunk}, stream : {f.stream}, seq : {f.seq}, flushSeq : {f.seq}, submission : {n}, missed : 0..4]
  BY <1>1
<1> HIDE DEF h
<1>3. i \in [chunk : {f.chunk}, stream : {f.stream}, seq : {f.seq}, flushSeq : {f.seq}, submission : {n}, missed : {4}]
  BY <1>2
<1> QED BY <1>0, <1>3

\* A flush adds its command, which changes nothing.
LEMMA ExecuteFlushKeeps ==
  ASSUME NEW c, NEW s, NEW t, Whole(c, s, t)
  PROVE  /\ Whole(ExecuteFlush(c), s, t)
         /\ ExecuteFlush(c).submission >= c.submission
<1> DEFINE n == c.submission + 1
           b == IF IsFull(c) THEN FlushChunk(c) ELSE c
           p == Push(b, <<"flush", n>>)
           f == FlushChunk(p)
<1>0. c.submission \in Nat /\ n \in Nat /\ n >= c.submission
  BY DEF Whole, Recorded, Shape
<1>1. CASE PendingChunks(c) = 0
  BY <1>0, <1>1 DEF ExecuteFlush
<1>2. CASE PendingChunks(c) # 0
  <2>1. ExecuteFlush(c) = [f EXCEPT !.submission = n, !.flushSeq = f.seq, !.missed = None]
    BY <1>2 DEF ExecuteFlush
  <2>2. Recorded(b, s, t, c.submission) /\ b.submission = c.submission
    BY <1>0, FlushChunkKeeps DEF Whole
  <2> HIDE DEF b
  <2>3. Recorded(b, s, t, n)
    <3>1. b \in [chunk : {b.chunk}, stream : {b.stream}, seq : {b.seq}, flushSeq : Nat,
                 submission : Nat, missed : 0..4]
      BY <2>2 DEF Recorded, Shape
    <3> HIDE DEF n
    <3> QED
      BY <1>0, <2>2, <3>1, OthersKeep
  <2> HIDE DEF n
  <2>4. Recorded(p, s, t, n)
    <3>1. <<"flush", n>> \in Commands(n)
      BY <1>0, CommandForms
    <3>2. t \in States
      BY <2>2 DEF Recorded, Leads, ChunkRel
    <3>3. <<t, t>> \in CommandRel(<<"flush", n>>)
      BY <3>2, FlushNeutral
    <3> QED
      BY <1>0, <2>3, <3>1, <3>3, PushAdds
  <2> HIDE DEF p
  <2>5. Recorded(f, s, t, n)
    BY <1>0, <2>4, FlushChunkKeeps
  <2> DEFINE e == [f EXCEPT !.submission = n, !.flushSeq = f.seq, !.missed = None]
  <2> HIDE DEF f
  <2>6. e \in [chunk : {f.chunk}, stream : {f.stream}, seq : {f.seq}, flushSeq : Nat,
               submission : Nat, missed : 0..4] /\ e.submission = n
    <3>1. /\ f \in [chunk : Seq(Commands(n)), stream : Seq(Seq(Commands(n)) \ {<<>>}), seq : Nat,
                    flushSeq : Nat, submission : Nat, missed : 0..4]
      BY <2>5 DEF Recorded, Shape
    <3>2. e = [f EXCEPT !.submission = n, !.flushSeq = f.seq, !.missed = 4]
      BY DEF None
    <3> HIDE DEF e
    <3> QED
      BY <1>0, <3>1, <3>2, Flushed
  <2> HIDE DEF e
  <2>7. Recorded(e, s, t, n)
    BY <1>0, <2>5, <2>6, OthersKeep
  <2> QED
    BY <1>0, <2>1, <2>6, <2>7 DEF Whole, e
<1> QED
  BY <1>1, <1>2

\* So does the heuristic, if it flushes.
LEMMA ConsiderFlushKeeps ==
  ASSUME NEW c, NEW s, NEW t, Whole(c, s, t), NEW type \in 0..4, NEW done
  PROVE  /\ Whole(ConsiderFlush(c, type, done), s, t)
         /\ ConsiderFlush(c, type, done).submission >= c.submission
<1>0. c.submission \in Nat /\ c.missed \in 0..4
  BY DEF Whole, Recorded, Shape
<1> DEFINE y == Min({type, c.missed})
           noted == IF y = Synchronization THEN c ELSE [c EXCEPT !.missed = y]
<1>1. y \in 0..4
  <2> DEFINE m == IF type <= c.missed THEN type ELSE c.missed
  <2>1. m \in {type, c.missed} /\ \A j \in {type, c.missed} : m <= j
    BY <1>0
  <2>2. y \in {type, c.missed}
    BY <2>1 DEF Min
  <2> QED
    BY <1>0, <2>2
<1> HIDE DEF y
<1>2. Whole(noted, s, t) /\ noted.submission = c.submission
  <2>1. CASE y = Synchronization
    BY <2>1
  <2>2. CASE y # Synchronization
    <3> DEFINE e == [c EXCEPT !.missed = y]
    <3>1. e \in [chunk : {c.chunk}, stream : {c.stream}, seq : {c.seq}, flushSeq : Nat,
                 submission : Nat, missed : 0..4] /\ e.submission = c.submission
      BY <1>1 DEF Whole, Recorded, Shape
    <3> HIDE DEF e
    <3>2. Whole(e, s, t) /\ e.submission = c.submission
      BY <1>0, <3>1, OthersKeep DEF Whole
    <3> QED
      BY <2>2, <3>2 DEF e
  <2> QED
    BY <2>1, <2>2
<1>3. ConsiderFlush(c, type, done) \in {c, noted, ExecuteFlush(noted)}
  BY DEF ConsiderFlush, y
<1> HIDE DEF noted
<1> QED
  BY <1>0, <1>2, <1>3, ExecuteFlushKeeps

\* EmitCs adds its command to a chunk, perhaps a new one.
LEMMA EmitAdds ==
  ASSUME NEW c, NEW s, NEW t, Whole(c, s, t), NEW done,
         NEW x, \A n \in Nat : x \in Commands(n),
         NEW u, <<t, u>> \in CommandRel(x)
  PROVE  /\ Whole(EmitCs(c, x, done), s, u)
         /\ EmitCs(c, x, done).submission >= c.submission
<1> DEFINE f == FlushChunk(c)
           b == IF IsFull(c) THEN ConsiderFlush(f, Weak, done) ELSE c
<1>1. Whole(b, s, t) /\ b.submission >= c.submission
  <2>0. c.submission \in Nat
    BY DEF Whole, Recorded, Shape
  <2>1. Whole(f, s, t) /\ f.submission = c.submission
    BY <2>0, FlushChunkKeeps DEF Whole
  <2> HIDE DEF f
  <2>2. /\ Whole(ConsiderFlush(f, 3, done), s, t)
        /\ ConsiderFlush(f, 3, done).submission >= f.submission
    BY <2>1, ConsiderFlushKeeps
  <2> QED
    BY <2>0, <2>1, <2>2 DEF Weak
<1>2. EmitCs(c, x, done) = Push(b, x)
  BY DEF EmitCs
<1> HIDE DEF b
<1>3. Push(b, x).submission = b.submission /\ b.submission \in Nat /\ x \in Commands(b.submission)
  <2>1. Recorded(b, s, t, b.submission)
    BY <1>1 DEF Whole
  <2>2. b.submission \in Nat /\ x \in Commands(b.submission)
    BY <2>1 DEF Recorded, Shape
  <2>3. Push(b, x) = [b EXCEPT !.chunk = Append(b.chunk, x)]
    BY DEF Push
  <2> QED
    BY <2>1, <2>2, <2>3 DEF Recorded, Shape
<1>5. Recorded(Push(b, x), s, u, b.submission)
  BY <1>1, <1>3, PushAdds DEF Whole
<1> QED
  BY <1>1, <1>2, <1>3, <1>5 DEF Whole

-----------------------------------------------------------------------------
(* What the CS thread takes *)

\* The first step of a chunk, and the rest.
LEMMA HeadOfChunk ==
  ASSUME NEW n, NEW chunk \in Seq(Commands(n)), chunk # <<>>, NEW s, NEW t,
         <<s, t>> \in ChunkRel(chunk)
  PROVE  \E u \in States : <<s, u>> \in CommandRel(Head(chunk)) /\ <<u, t>> \in ChunkRel(Tail(chunk))
<1> DEFINE R == ChunkRels(chunk)
           Q == ChunkRels(Tail(chunk))
<1>1. /\ Len(chunk) \in Nat \ {0} /\ Tail(chunk) \in Seq(Commands(n)) /\ Len(Tail(chunk)) = Len(chunk) - 1
      /\ \A k \in 1..(Len(chunk) - 1) : Tail(chunk)[k] = chunk[k + 1]
      /\ Head(chunk) = chunk[1]
  OBVIOUS
<1>2. /\ R \in Seq(Relations) /\ Len(R) = Len(chunk)
      /\ \A k \in 1..Len(chunk) : R[k] = CommandRel(chunk[k])
  BY RelSeqs
<1>3. /\ Q \in Seq(Relations) /\ Len(Q) = Len(chunk) - 1
      /\ \A k \in 1..(Len(chunk) - 1) : Q[k] = CommandRel(Tail(chunk)[k])
  BY <1>1, RelSeqs
<1>4. Path(R, s, t) /\ s \in States /\ t \in States
  BY DEF ChunkRel
<1> HIDE DEF R, Q
<1>5. Len(R) = Len(Q) + 1 /\ \A k \in 1..Len(Q) : Q[k] = R[k + 1]
  BY <1>1, <1>2, <1>3
<1>6. PICK u \in States : <<s, u>> \in R[1] /\ Path(Q, u, t)
  BY <1>2, <1>3, <1>4, <1>5, PathHead
<1>7. <<s, u>> \in CommandRel(Head(chunk))
  BY <1>1, <1>2, <1>6
<1>8. <<u, t>> \in ChunkRel(Tail(chunk))
  BY <1>4, <1>6 DEF ChunkRel, Q
<1> QED
  BY <1>7, <1>8

\* A command is taken.
LEMMA DropTakes ==
  ASSUME NEW c, NEW s, NEW t, Whole(c, s, t), HasCommand(c)
  PROVE  /\ NextCommand(c) \in Commands(c.submission)
         /\ DropCommand(c).submission = c.submission
         /\ \E u \in States : <<s, u>> \in CommandRel(NextCommand(c)) /\ Whole(DropCommand(c), u, t)
<1> DEFINE n == c.submission
           h == Head(c.stream)
           rest == Tail(c.stream)
           d == DropCommand(c)
           x == NextCommand(c)
<1>1. /\ n \in Nat /\ c.seq \in Nat /\ c.stream \in Seq(Seq(Commands(n)) \ {<<>>}) /\ c.stream # <<>>
      /\ c.chunk \in Seq(Commands(n))
  BY DEF Whole, Recorded, Shape, HasCommand
<1>2. /\ h \in Seq(Commands(n)) /\ h # <<>> /\ h = c.stream[1] /\ Len(c.stream) \in Nat \ {0}
      /\ rest \in Seq(Seq(Commands(n)) \ {<<>>}) /\ Len(rest) = Len(c.stream) - 1
      /\ \A k \in 1..Len(rest) : rest[k] = c.stream[k + 1]
      /\ DOMAIN c.stream = 1..Len(c.stream) /\ DOMAIN rest = 1..Len(rest) /\ 1 \in 1..Len(c.stream)
  BY <1>1
<1>3. x = Head(h) /\ x \in Commands(n)
  BY <1>2 DEF NextCommand
<1> DEFINE new == IF Len(h) = 1 THEN rest ELSE <<Tail(h)>> \o rest
<1>4. /\ d \in [chunk : {c.chunk}, stream : {new}, seq : {c.seq}, flushSeq : Nat,
                submission : {n}, missed : 0..4]
  <2>1. d = [c EXCEPT !.stream = new]
    BY DEF DropCommand
  <2> HIDE DEF new
  <2> QED
    BY <2>1 DEF Whole, Recorded, Shape
<1> HIDE DEF d, x, h, rest, n
<1>5. Tail(h) \in Seq(Commands(n)) /\ Len(Tail(h)) = Len(h) - 1 /\ Len(h) \in Nat \ {0}
  BY <1>2
<1>8. PICK v \in States, w \in States :
        <<s, v>> \in ChunkRel(h) /\ Path(StreamRels(rest), v, w) /\ <<w, t>> \in ChunkRel(c.chunk)
  <2>1. PICK w \in States : Path(StreamRels(c.stream), s, w) /\ <<w, t>> \in ChunkRel(c.chunk)
    BY DEF Whole, Recorded, Leads
  <2> DEFINE R == StreamRels(c.stream)
             Q == StreamRels(rest)
  <2>2. c.stream \in Seq(Seq(Commands(n))) /\ rest \in Seq(Seq(Commands(n)))
    BY <1>1, <1>2
  <2>3. /\ R \in Seq(Relations) /\ Len(R) = Len(c.stream)
        /\ \A k \in 1..Len(c.stream) : R[k] = ChunkRel(c.stream[k])
    BY <2>2, RelSeqs
  <2>4. /\ Q \in Seq(Relations) /\ Len(Q) = Len(rest)
        /\ \A k \in 1..Len(rest) : Q[k] = ChunkRel(rest[k])
    BY <2>2, RelSeqs
  <2> HIDE DEF R, Q
  <2>5. Len(R) = Len(Q) + 1 /\ \A k \in 1..Len(Q) : Q[k] = R[k + 1]
    BY <1>2, <2>3, <2>4
  <2>6. PICK v \in States : <<s, v>> \in R[1] /\ Path(Q, v, w)
    BY <2>1, <2>3, <2>4, <2>5, PathHead DEF R
  <2>7. <<s, v>> \in ChunkRel(h)
    <3>1. R[1] = ChunkRel(c.stream[1])
      BY <1>2, <2>3
    <3> QED
      BY <1>2, <2>6, <3>1
  <2> QED
    BY <2>1, <2>6, <2>7 DEF Q
<1>9. PICK u \in States : <<s, u>> \in CommandRel(x) /\ <<u, v>> \in ChunkRel(Tail(h))
  BY <1>2, <1>3, <1>8, HeadOfChunk
<1>6. CASE Len(h) = 1
  <2>1. d.stream = rest
    BY <1>4, <1>6
  <2>2. Shape(d, n)
    BY <1>1, <1>2, <1>4, <2>1 DEF Shape
  <2>6. u = v
    <3>1. Tail(h) = <<>>
      <4>1. Len(Tail(h)) = 0
        BY <1>5, <1>6
      <4> QED
        BY <1>5, <4>1, EmptySeq
    <3> QED
      BY <1>9, <3>1, EmptyChunk
  <2>7. Leads(d, u, t)
    BY <1>4, <1>8, <2>1, <2>6 DEF Leads
  <2>8. Whole(d, u, t) /\ d.submission = c.submission
    BY <1>4, <2>2, <2>7 DEF Whole, Recorded, n
  <2> QED
    BY <1>3, <1>9, <2>8 DEF d, x, n
<1>7. CASE Len(h) # 1
  <2>0. /\ Tail(h) \in Seq(Commands(n)) \ {<<>>}
        /\ Len(<<Tail(h)>> \o rest) = Len(c.stream)
        /\ <<Tail(h)>> \o rest \in Seq(Seq(Commands(n)) \ {<<>>})
        /\ (<<Tail(h)>> \o rest)[1] = Tail(h)
        /\ \A k \in 1..Len(rest) : (<<Tail(h)>> \o rest)[k + 1] = rest[k]
    <3>1. Tail(h) \in Seq(Commands(n)) \ {<<>>}
      <4>1. Len(Tail(h)) # 0
        BY <1>5, <1>7
      <4>2. Tail(h) # <<>>
        <5>1. Len(<<>>) = 0
          OBVIOUS
        <5> QED
          BY <4>1, <5>1
      <4> QED
        BY <1>5, <4>2
    <3> QED
      BY <1>2, <3>1
  <2>1. /\ d.stream \in Seq(Seq(Commands(n)) \ {<<>>}) /\ Len(d.stream) = Len(c.stream)
        /\ d.stream[1] = Tail(h) /\ \A k \in 1..Len(rest) : d.stream[k + 1] = rest[k]
    BY <1>4, <1>7, <2>0
  <2>2. Shape(d, n)
    BY <1>1, <1>2, <1>4, <2>1 DEF Shape
  <2>4. Path(StreamRels(d.stream), u, w)
    <3> DEFINE R == StreamRels(rest)
               Q == StreamRels(d.stream)
    <3>1. d.stream \in Seq(Seq(Commands(n))) /\ rest \in Seq(Seq(Commands(n)))
      BY <1>2, <2>1
    <3>2. /\ R \in Seq(Relations) /\ Len(R) = Len(rest)
          /\ \A k \in 1..Len(rest) : R[k] = ChunkRel(rest[k])
      BY <3>1, RelSeqs
    <3>3. /\ Q \in Seq(Relations) /\ Len(Q) = Len(d.stream)
          /\ \A k \in 1..Len(d.stream) : Q[k] = ChunkRel(d.stream[k])
      BY <3>1, RelSeqs
    <3> HIDE DEF R, Q
    <3>4. Len(Q) = Len(R) + 1
      BY <1>2, <2>1, <3>2, <3>3
    <3>5. Q[1] = ChunkRel(Tail(h))
      <4>1. 1 \in 1..Len(d.stream)
        BY <1>2, <2>1
      <4>2. Q[1] = ChunkRel(d.stream[1])
        BY <3>3, <4>1
      <4> QED
        BY <2>1, <4>2
    <3>6. \A k \in 1..Len(R) : Q[k + 1] = R[k]
      BY <1>2, <2>1, <3>2, <3>3
    <3>7. Path(R, v, w)
      BY <1>8 DEF R
    <3>8. Path(Q, u, w)
      BY <1>9, <3>2, <3>3, <3>4, <3>5, <3>6, <3>7, PathCons
    <3> QED
      BY <3>8 DEF Q
  <2>5. Leads(d, u, t)
    BY <1>4, <1>8, <2>4 DEF Leads
  <2>6. Whole(d, u, t) /\ d.submission = c.submission
    BY <1>4, <2>2, <2>5 DEF Whole, Recorded, n
  <2> QED
    BY <1>3, <1>9, <2>6 DEF d, x, n
<1> QED
  BY <1>6, <1>7

\* What every command of a chunk allows, the chunk allows,
LEMMA ChunkTransport ==
  ASSUME NEW n, NEW chunk \in Seq(Commands(n)), NEW D, NEW f \in [States -> States],
         \A k \in DOMAIN chunk : Allows(CommandRel(chunk[k]), D, f)
  PROVE  Allows(ChunkRel(chunk), D, f)
<1> SUFFICES ASSUME NEW a \in States, NEW b \in States, a \in D, <<a, b>> \in ChunkRel(chunk)
             PROVE  b \in D /\ <<f[a], f[b]>> \in ChunkRel(chunk)
  BY DEF Allows
<1> DEFINE R == ChunkRels(chunk)
<1>1. /\ R \in Seq(Relations) /\ Len(R) = Len(chunk) /\ DOMAIN chunk = 1..Len(chunk)
      /\ \A k \in 1..Len(chunk) : R[k] = CommandRel(chunk[k])
  BY RelSeqs
<1>2. Path(R, a, b)
  BY DEF ChunkRel
<1> HIDE DEF R
<1>3. \A k \in 1..Len(R) : Allows(R[k], D, f)
  BY <1>1
<1>5. b \in D /\ Path(R, f[a], f[b])
  BY <1>1, <1>2, <1>3, PathTransport
<1> QED
  BY <1>5 DEF ChunkRel, R

\* and what all commands of the context allow, what is pending allows.
LEMMA ContextTransport ==
  ASSUME NEW c, NEW s \in States, NEW t, Whole(c, s, t), NEW D, s \in D,
         NEW f \in [States -> States],
         \A i \in DOMAIN c.stream : \A k \in DOMAIN c.stream[i] : Allows(CommandRel(c.stream[i][k]), D, f),
         \A k \in DOMAIN c.chunk : Allows(CommandRel(c.chunk[k]), D, f)
  PROVE  t \in D /\ t \in States /\ Whole(c, f[s], f[t])
<1> DEFINE n == c.submission
           R == StreamRels(c.stream)
<1>1. c.stream \in Seq(Seq(Commands(n))) /\ c.chunk \in Seq(Commands(n)) /\ DOMAIN c.stream = 1..Len(c.stream)
  BY DEF Whole, Recorded, Shape
<1>2. \A i \in DOMAIN c.stream : c.stream[i] \in Seq(Commands(n))
  BY <1>1
<1>3. PICK u \in States : Path(R, s, u) /\ <<u, t>> \in ChunkRel(c.chunk)
  BY DEF Whole, Recorded, Leads
<1>4. /\ R \in Seq(Relations) /\ Len(R) = Len(c.stream)
      /\ \A k \in 1..Len(c.stream) : R[k] = ChunkRel(c.stream[k])
  BY <1>1, RelSeqs
<1> HIDE DEF R, n
<1>5. ASSUME NEW k \in 1..Len(R) PROVE Allows(R[k], D, f)
  <2>1. k \in DOMAIN c.stream /\ c.stream[k] \in Seq(Commands(n)) /\ R[k] = ChunkRel(c.stream[k])
    BY <1>1, <1>2, <1>4
  <2> QED
    BY <2>1, ChunkTransport
<1>7. u \in D /\ Path(R, f[s], f[u])
  BY <1>3, <1>4, <1>5, PathTransport
<1>8. Allows(ChunkRel(c.chunk), D, f)
  BY <1>1, ChunkTransport
<1>9. t \in States
  BY <1>3 DEF ChunkRel
<1>10. t \in D /\ <<f[u], f[t]>> \in ChunkRel(c.chunk)
  BY <1>3, <1>7, <1>8, <1>9 DEF Allows
<1>11. Leads(c, f[s], f[t])
  BY <1>7, <1>10 DEF Leads, R
<1> QED
  BY <1>9, <1>10, <1>11 DEF Whole, Recorded

-----------------------------------------------------------------------------
(* What the device has to do *)

Ops == ({"begin", "end", "stamp", "set"} \X Objects) \union {<<"draw", NoObject>>}
CommandLists == [ops : Seq(Ops), tracked : SUBSET Objects, id : Nat]

\* What the device does for an operation, see Execute.
OpResult(x, h, s) ==
  IF h = x[2] THEN [state |-> IF x[1] = "begin" THEN "open" ELSE "done",
                    value |-> IF x[1] = "stamp" THEN s.clock ELSE s.gpu[h].value]
  ELSE IF x[1] = "draw" /\ s.gpu[h].state = "open" THEN [s.gpu[h] EXCEPT !.value = @ + 1]
  ELSE s.gpu[h]
Executed(x, s) ==
  [clock |-> IF x[1] = "draw" THEN s.clock + 1 ELSE s.clock,
   gpu |-> [h \in Objects |-> OpResult(x, h, s)],
   notes |-> s.notes]
OpRel(x) == {p \in States \X States : p[2] = Executed(x, p[1])}

OpRels(ops) == [k \in DOMAIN ops |-> OpRel(ops[k])]
ListRel(ops) == {p \in States \X States : Path(OpRels(ops), p[1], p[2])}
QueueRels(ls) == [i \in DOMAIN ls |-> ListRel(ls[i].ops)]

\* The submitted lists, and then the operations of the current one, lead from s to t.
Submitted(ls, ops, s, t) == \E u \in States : Path(QueueRels(ls), s, u) /\ <<u, t>> \in ListRel(ops)

\* Operations and lists are relations between states,
LEMMA OpTypes ==
  /\ \A x : OpRel(x) \in Relations
  /\ \A ops : ListRel(ops) \in Relations
BY DEF OpRel, ListRel, Relations

\* and lists and what is submitted sequences of them.
LEMMA OpSeqs ==
  /\ \A ops \in Seq(Ops) :
       /\ OpRels(ops) \in Seq(Relations) /\ Len(OpRels(ops)) = Len(ops)
       /\ \A k \in 1..Len(ops) : OpRels(ops)[k] = OpRel(ops[k])
  /\ \A ls \in Seq(CommandLists) :
       /\ QueueRels(ls) \in Seq(Relations) /\ Len(QueueRels(ls)) = Len(ls)
       /\ \A k \in 1..Len(ls) : QueueRels(ls)[k] = ListRel(ls[k].ops)
<1>1. ASSUME NEW ops \in Seq(Ops)
      PROVE  /\ OpRels(ops) \in Seq(Relations) /\ Len(OpRels(ops)) = Len(ops)
             /\ \A k \in 1..Len(ops) : OpRels(ops)[k] = OpRel(ops[k])
  <2>1. DOMAIN ops = 1..Len(ops) /\ Len(ops) \in Nat
    OBVIOUS
  <2> QED
    BY <2>1, OpTypes DEF OpRels
<1>2. ASSUME NEW ls \in Seq(CommandLists)
      PROVE  /\ QueueRels(ls) \in Seq(Relations) /\ Len(QueueRels(ls)) = Len(ls)
             /\ \A k \in 1..Len(ls) : QueueRels(ls)[k] = ListRel(ls[k].ops)
  <2>1. DOMAIN ls = 1..Len(ls) /\ Len(ls) \in Nat
    OBVIOUS
  <2> QED
    BY <2>1, OpTypes DEF QueueRels
<1> QED
  BY <1>1, <1>2

\* A list that is through does nothing.
LEMMA EmptyOps ==
  ASSUME NEW s \in States
  PROVE  \A t : <<s, t>> \in ListRel(<<>>) <=> t = s
<1>1. OpRels(<<>>) \in Seq(Relations) /\ Len(OpRels(<<>>)) = 0
  <2>1. <<>> \in Seq(Ops) /\ Len(<<>>) = 0
    OBVIOUS
  <2> QED
    BY <2>1, OpSeqs
<1>2. OpRels(<<>>) = <<>>
  BY <1>1
<1> QED
  BY <1>1, <1>2, PathEmpty DEF ListRel

\* An operation is recorded.
LEMMA RecordAdds ==
  ASSUME NEW ls, NEW ops \in Seq(Ops), NEW s, NEW t, Submitted(ls, ops, s, t),
         NEW x \in Ops, NEW u, <<t, u>> \in OpRel(x)
  PROVE  Submitted(ls, Append(ops, x), s, u)
<1> DEFINE R == OpRels(ops)
           Q == OpRels(Append(ops, x))
<1>1. PICK v \in States : Path(QueueRels(ls), s, v) /\ <<v, t>> \in ListRel(ops)
  BY DEF Submitted
<1>2. /\ Append(ops, x) \in Seq(Ops) /\ Len(Append(ops, x)) = Len(ops) + 1
      /\ Append(ops, x)[Len(ops) + 1] = x /\ \A k \in 1..Len(ops) : Append(ops, x)[k] = ops[k]
  BY AppendProperties
<1>3. /\ R \in Seq(Relations) /\ Len(R) = Len(ops)
      /\ \A k \in 1..Len(ops) : R[k] = OpRel(ops[k])
  BY OpSeqs
<1>4. /\ Q \in Seq(Relations) /\ Len(Q) = Len(Append(ops, x))
      /\ \A k \in 1..Len(Append(ops, x)) : Q[k] = OpRel(Append(ops, x)[k])
  BY <1>2, OpSeqs
<1>5. Path(R, v, t) /\ u \in States
  BY <1>1 DEF ListRel, OpRel
<1> HIDE DEF R, Q
<1>6. Len(ops) \in Nat
  OBVIOUS
<1>7. Len(Q) = Len(R) + 1 /\ Q[Len(Q)] = OpRel(x) /\ \A k \in 1..Len(R) : Q[k] = R[k]
  <2>1. Len(Q) = Len(ops) + 1 /\ Len(R) = Len(ops) /\ Len(ops) + 1 \in 1..Len(Append(ops, x))
    BY <1>2, <1>3, <1>4, <1>6
  <2>2. Q[Len(ops) + 1] = OpRel(x)
    BY <1>2, <1>4, <2>1
  <2>3. ASSUME NEW k \in 1..Len(ops) PROVE Q[k] = R[k]
    <3>1. k \in 1..Len(Append(ops, x))
      BY <1>2, <1>6
    <3> QED
      BY <1>2, <1>3, <1>4, <3>1
  <2> QED
    BY <2>1, <2>2, <2>3
<1>8. Path(Q, v, u)
  BY <1>3, <1>4, <1>5, <1>7, PathAppend
<1>9. <<v, u>> \in ListRel(Append(ops, x))
  BY <1>5, <1>8 DEF ListRel, Q
<1> QED
  BY <1>1, <1>9 DEF Submitted

\* The current list is submitted.
LEMMA SubmitKeeps ==
  ASSUME NEW ls \in Seq(CommandLists), NEW l \in CommandLists, NEW s, NEW t, Submitted(ls, l.ops, s, t)
  PROVE  Submitted(Append(ls, l), <<>>, s, t)
<1> DEFINE R == QueueRels(ls)
           Q == QueueRels(Append(ls, l))
<1>1. PICK v \in States : Path(R, s, v) /\ <<v, t>> \in ListRel(l.ops)
  BY DEF Submitted
<1>2. /\ Append(ls, l) \in Seq(CommandLists) /\ Len(Append(ls, l)) = Len(ls) + 1
      /\ Append(ls, l)[Len(ls) + 1] = l /\ \A k \in 1..Len(ls) : Append(ls, l)[k] = ls[k]
  BY AppendProperties
<1>3. /\ R \in Seq(Relations) /\ Len(R) = Len(ls)
      /\ \A k \in 1..Len(ls) : R[k] = ListRel(ls[k].ops)
  BY OpSeqs
<1>4. /\ Q \in Seq(Relations) /\ Len(Q) = Len(Append(ls, l))
      /\ \A k \in 1..Len(Append(ls, l)) : Q[k] = ListRel(Append(ls, l)[k].ops)
  BY <1>2, OpSeqs
<1> HIDE DEF R, Q
<1>6. Len(ls) \in Nat
  OBVIOUS
<1>7. Len(Q) = Len(R) + 1 /\ Q[Len(Q)] = ListRel(l.ops) /\ \A k \in 1..Len(R) : Q[k] = R[k]
  BY <1>2, <1>3, <1>4, <1>6
<1>8. Path(Q, s, t) /\ t \in States
  BY <1>1, <1>3, <1>4, <1>7, PathAppend DEF ListRel
<1>9. <<t, t>> \in ListRel(<<>>)
  BY <1>8, EmptyOps
<1> QED
  BY <1>8, <1>9 DEF Submitted, Q

\* A list that is through is released.
LEMMA ReleaseKeeps ==
  ASSUME NEW ls \in Seq(CommandLists), ls # <<>>, Head(ls).ops = <<>>, NEW ops, NEW s, NEW t,
         Submitted(ls, ops, s, t)
  PROVE  Submitted(Tail(ls), ops, s, t)
<1> DEFINE R == QueueRels(ls)
           Q == QueueRels(Tail(ls))
<1>1. PICK v \in States : Path(R, s, v) /\ <<v, t>> \in ListRel(ops)
  BY DEF Submitted
<1>2. /\ Tail(ls) \in Seq(CommandLists) /\ Len(Tail(ls)) = Len(ls) - 1 /\ Len(ls) \in Nat \ {0}
      /\ Head(ls) = ls[1] /\ \A k \in 1..Len(Tail(ls)) : Tail(ls)[k] = ls[k + 1]
  OBVIOUS
<1>3. /\ R \in Seq(Relations) /\ Len(R) = Len(ls)
      /\ \A k \in 1..Len(ls) : R[k] = ListRel(ls[k].ops)
  BY OpSeqs
<1>4. /\ Q \in Seq(Relations) /\ Len(Q) = Len(Tail(ls))
      /\ \A k \in 1..Len(Tail(ls)) : Q[k] = ListRel(Tail(ls)[k].ops)
  BY <1>2, OpSeqs
<1> HIDE DEF R, Q
<1>5. Len(R) = Len(Q) + 1 /\ R[1] = ListRel(<<>>)
  BY <1>2, <1>3, <1>4
<1>6. \A k \in 1..Len(Q) : Q[k] = R[k + 1]
  BY <1>2, <1>3, <1>4
<1>7. PICK u \in States : <<s, u>> \in R[1] /\ Path(Q, u, v)
  BY <1>1, <1>3, <1>4, <1>5, <1>6, PathHead
<1>8. s \in States
  BY <1>1, <1>3, PathEnds
<1>9. u = s
  BY <1>5, <1>7, <1>8, EmptyOps
<1> QED
  BY <1>1, <1>7, <1>9 DEF Submitted, Q

\* The device executes the operation that is next.
LEMMA ExecuteTakes ==
  ASSUME NEW ls \in Seq(CommandLists), NEW i \in DOMAIN ls, ls[i].ops # <<>>,
         \A j \in 1..(i - 1) : ls[j].ops = <<>>, NEW ops, NEW s, NEW t, Submitted(ls, ops, s, t)
  PROVE  \E b \in States :
           /\ <<s, b>> \in OpRel(Head(ls[i].ops))
           /\ Submitted([ls EXCEPT ![i].ops = Tail(@)], ops, b, t)
<1> DEFINE x == ls[i].ops
           ms == [ls EXCEPT ![i].ops = Tail(@)]
           R == QueueRels(ls)
           Q == QueueRels(ms)
<1>1. PICK v \in States : Path(R, s, v) /\ <<v, t>> \in ListRel(ops)
  BY DEF Submitted
<1>2. /\ i \in 1..Len(ls) /\ Len(ls) \in Nat /\ ls[i] \in CommandLists /\ x \in Seq(Ops) /\ x # <<>>
      /\ Tail(x) \in Seq(Ops) /\ Len(x) \in Nat \ {0} /\ Len(Tail(x)) = Len(x) - 1 /\ Head(x) = x[1]
      /\ \A k \in 1..Len(Tail(x)) : Tail(x)[k] = x[k + 1]
  <2>1. i \in 1..Len(ls) /\ Len(ls) \in Nat /\ ls[i] \in CommandLists
    OBVIOUS
  <2>2. x \in Seq(Ops) /\ x # <<>>
    BY <2>1 DEF CommandLists
  <2> HIDE DEF x
  <2> QED
    BY <2>1, <2>2
<1>3. /\ ms \in Seq(CommandLists) /\ Len(ms) = Len(ls) /\ ms[i].ops = Tail(x)
      /\ \A k \in 1..Len(ls) : k # i => ms[k] = ls[k]
  <2>1. [ls[i] EXCEPT !.ops = Tail(@)] \in CommandLists
    BY <1>2 DEF CommandLists
  <2>2. ms = [ls EXCEPT ![i] = [ls[i] EXCEPT !.ops = Tail(@)]]
    OBVIOUS
  <2>3. [ls[i] EXCEPT !.ops = Tail(@)].ops = Tail(x)
    BY <1>2 DEF CommandLists
  <2> DEFINE l == [ls[i] EXCEPT !.ops = Tail(@)]
  <2> HIDE DEF l
  <2>4. l \in CommandLists /\ l.ops = Tail(x)
    BY <2>1, <2>3 DEF l
  <2>5. /\ [ls EXCEPT ![i] = l] \in Seq(CommandLists) /\ Len([ls EXCEPT ![i] = l]) = Len(ls)
        /\ \A k \in 1..Len(ls) : [ls EXCEPT ![i] = l][k] = IF k = i THEN l ELSE ls[k]
    BY <1>2, <2>4, ExceptSeq
  <2>6. ms = [ls EXCEPT ![i] = l]
    BY <2>2 DEF l
  <2> QED
    BY <1>2, <2>4, <2>5, <2>6
<1>4. /\ R \in Seq(Relations) /\ Len(R) = Len(ls)
      /\ \A k \in 1..Len(ls) : R[k] = ListRel(ls[k].ops)
  BY OpSeqs
<1>5. /\ Q \in Seq(Relations) /\ Len(Q) = Len(ms)
      /\ \A k \in 1..Len(ms) : Q[k] = ListRel(ms[k].ops)
  BY <1>3, OpSeqs
<1> HIDE DEF R, Q, ms
<1>6. /\ Len(Q) = Len(R) /\ i \in 1..Len(R) /\ R[i] = ListRel(x) /\ Q[i] = ListRel(Tail(x))
      /\ \A k \in 1..Len(R) : k # i => Q[k] = R[k]
  BY <1>2, <1>3, <1>4, <1>5
<1>7. ASSUME NEW k \in 1..(i - 1) PROVE R[k] = {<<a, a>> : a \in States}
  <2>1. R[k] = ListRel(<<>>)
    BY <1>2, <1>4
  <2>2. \A p \in ListRel(<<>>) : p[1] \in States /\ p = <<p[1], p[2]>>
    BY DEF ListRel
  <2> QED
    BY <2>1, <2>2, EmptyOps
<1>8. PICK c \in States : <<s, c>> \in R[i] /\ \A y \in States : <<y, c>> \in Q[i] => Path(Q, y, v)
  BY <1>1, <1>4, <1>5, <1>6, <1>7, PathReplace
<1>9. \E b \in States : <<s, b>> \in OpRel(Head(x)) /\ <<b, c>> \in ListRel(Tail(x))
  <2> HIDE DEF x
  <2> DEFINE A == OpRels(x)
             B == OpRels(Tail(x))
  <2>1. /\ A \in Seq(Relations) /\ Len(A) = Len(x) /\ \A k \in 1..Len(x) : A[k] = OpRel(x[k])
    BY <1>2, OpSeqs
  <2>2. /\ B \in Seq(Relations) /\ Len(B) = Len(Tail(x))
        /\ \A k \in 1..Len(Tail(x)) : B[k] = OpRel(Tail(x)[k])
    BY <1>2, OpSeqs
  <2>3. Path(A, s, c)
    BY <1>6, <1>8 DEF ListRel
  <2> HIDE DEF A, B
  <2>4. Len(A) = Len(B) + 1 /\ A[1] = OpRel(Head(x))
    BY <1>2, <2>1, <2>2
  <2>5. \A k \in 1..Len(B) : B[k] = A[k + 1]
    BY <1>2, <2>1, <2>2
  <2>6. PICK b \in States : <<s, b>> \in A[1] /\ Path(B, b, c)
    BY <2>1, <2>2, <2>3, <2>4, <2>5, PathHead
  <2>7. <<b, c>> \in ListRel(Tail(x))
    BY <2>6 DEF ListRel, B
  <2> QED
    BY <2>4, <2>6, <2>7
<1>10. PICK b \in States : <<s, b>> \in OpRel(Head(x)) /\ <<b, c>> \in ListRel(Tail(x))
  BY <1>9
<1>11. Path(Q, b, v)
  BY <1>6, <1>8, <1>10
<1>12. Submitted(ms, ops, b, t)
  BY <1>1, <1>11 DEF Submitted, Q
<1> QED
  BY <1>10, <1>12 DEF ms

\* What every operation of a list allows, the list allows,
LEMMA ListTransport ==
  ASSUME NEW ops \in Seq(Ops), NEW D, NEW f \in [States -> States],
         \A k \in DOMAIN ops : Allows(OpRel(ops[k]), D, f)
  PROVE  Allows(ListRel(ops), D, f)
<1> SUFFICES ASSUME NEW a \in States, NEW b \in States, a \in D, <<a, b>> \in ListRel(ops)
             PROVE  b \in D /\ <<f[a], f[b]>> \in ListRel(ops)
  BY DEF Allows
<1> DEFINE R == OpRels(ops)
<1>1. /\ R \in Seq(Relations) /\ Len(R) = Len(ops) /\ DOMAIN ops = 1..Len(ops)
      /\ \A k \in 1..Len(ops) : R[k] = OpRel(ops[k])
  BY OpSeqs
<1>2. Path(R, a, b)
  BY DEF ListRel
<1> HIDE DEF R
<1>3. \A k \in 1..Len(R) : Allows(R[k], D, f)
  BY <1>1
<1>5. b \in D /\ Path(R, f[a], f[b])
  BY <1>1, <1>2, <1>3, PathTransport
<1> QED
  BY <1>5 DEF ListRel, R

\* and what all operations allow, all lists allow.
LEMMA SubmittedTransport ==
  ASSUME NEW ls \in Seq(CommandLists), NEW ops \in Seq(Ops), NEW s \in States, NEW t,
         Submitted(ls, ops, s, t), NEW D, s \in D, NEW f \in [States -> States],
         \A i \in DOMAIN ls : \A k \in DOMAIN ls[i].ops : Allows(OpRel(ls[i].ops[k]), D, f),
         \A k \in DOMAIN ops : Allows(OpRel(ops[k]), D, f)
  PROVE  t \in D /\ t \in States /\ Submitted(ls, ops, f[s], f[t])
<1> DEFINE R == QueueRels(ls)
<1>1. PICK u \in States : Path(R, s, u) /\ <<u, t>> \in ListRel(ops)
  BY DEF Submitted
<1>2. /\ R \in Seq(Relations) /\ Len(R) = Len(ls) /\ DOMAIN ls = 1..Len(ls)
      /\ \A k \in 1..Len(ls) : R[k] = ListRel(ls[k].ops)
  BY OpSeqs
<1> HIDE DEF R
<1>3. ASSUME NEW k \in 1..Len(R) PROVE Allows(R[k], D, f)
  <2>1. k \in DOMAIN ls /\ R[k] = ListRel(ls[k].ops)
    BY <1>2
  <2>2. ls[k].ops \in Seq(Ops)
    <3>1. ls[k] \in CommandLists
      BY <2>1
    <3> QED
      BY <3>1 DEF CommandLists
  <2> QED
    BY <2>1, <2>2, ListTransport
<1>5. u \in D /\ Path(R, f[s], f[u])
  BY <1>1, <1>2, <1>3, PathTransport
<1>6. t \in States
  BY <1>1 DEF ListRel
<1>7. t \in D /\ <<f[u], f[t]>> \in ListRel(ops)
  BY <1>1, <1>5, <1>6, ListTransport DEF Allows
<1> QED
  BY <1>5, <1>6, <1>7 DEF Submitted, R

\* The state that an operation leads to.
LEMMA ExecutedType ==
  ASSUME NEW x \in Ops, NEW s \in States
  PROVE  Executed(x, s) \in States /\ <<s, Executed(x, s)>> \in OpRel(x)
<1>1. \A h \in Objects : OpResult(x, h, s) \in Results
  <2> SUFFICES ASSUME NEW h \in Objects PROVE OpResult(x, h, s) \in Results
    OBVIOUS
  <2>1. s.gpu[h] \in Results /\ s.clock \in Nat /\ s.gpu[h].value \in Nat
    BY DEF States, Results
  <2>2. [s.gpu[h] EXCEPT !.value = @ + 1] \in Results
    BY <2>1 DEF Results
  <2> QED
    BY <2>1, <2>2 DEF OpResult, Results
<1>2. Executed(x, s) \in States
  BY <1>1 DEF Executed, States
<1> QED
  BY <1>2 DEF OpRel

\* An operation is recorded.
LEMMA RecordOne ==
  ASSUME NEW ls, NEW ops \in Seq(Ops), NEW s, NEW t, Submitted(ls, ops, s, t), NEW x \in Ops
  PROVE  /\ ops \o <<x>> = Append(ops, x) /\ ops \o <<x>> \in Seq(Ops)
         /\ Executed(x, t) \in States
         /\ Submitted(ls, ops \o <<x>>, s, Executed(x, t))
<1>1. t \in States
  BY DEF Submitted, ListRel
<1>2. ops \o <<x>> = Append(ops, x) /\ Append(ops, x) \in Seq(Ops)
  BY AppendIsConcat, AppendProperties
<1> QED
  BY <1>1, <1>2, ExecutedType, RecordAdds

-----------------------------------------------------------------------------
(* The objects of what the device has to do *)

\* Where an object is used in a list: not at all, once, or to begin and to end.
Unused(ops, g) == \A i \in DOMAIN ops : ops[i][2] # g
Single(ops, g, k) == k \in DOMAIN ops /\ \A i \in DOMAIN ops : ops[i][2] = g <=> i = k
Pair(ops, g, j, k) ==
  /\ j \in DOMAIN ops /\ k \in DOMAIN ops /\ j < k
  /\ \A i \in DOMAIN ops : ops[i][2] = g <=> i = j \/ i = k
  /\ ops[j][1] = "begin" /\ ops[k][1] = "end"

\* The uses that the state of the object, which the device has reached, allows.
Once(ops, g, state) ==
  \/ Unused(ops, g)
  \/ state = "open" /\ \E k \in DOMAIN ops : Single(ops, g, k) /\ ops[k][1] = "end"
  \/ state = "reset" /\ \E k \in DOMAIN ops : Single(ops, g, k) /\ ops[k][1] \in {"stamp", "set"}
  \/ state = "reset" /\ \E j, k \in DOMAIN ops : Pair(ops, g, j, k)

\* Lists refer to what they track, and no two of them track the same.
Refers(l) == \A k \in DOMAIN l.ops : l.ops[k][2] \in l.tracked \union {NoObject}
Apart(l, ls) ==
  \A i \in DOMAIN ls :
    /\ ls[i].tracked \intersect l.tracked = {}
    /\ \A j \in DOMAIN ls : i # j => ls[i].tracked \intersect ls[j].tracked = {}
Tracks(l, ls, o) ==
  /\ Refers(l) /\ \A i \in DOMAIN ls : Refers(ls[i])
  /\ Apart(l, ls)
  /\ o # NoObject => o \in l.tracked

\* An object that begins in the current list has still to end there.
UsedOnce(l, ls, gp, o) ==
  /\ \A i \in DOMAIN ls, g \in Objects : Once(ls[i].ops, g, gp[g].state)
  /\ \A g \in Objects : g # o => Once(l.ops, g, gp[g].state)
  /\ o # NoObject =>
       /\ gp[o].state = "reset"
       /\ \E j \in DOMAIN l.ops : Single(l.ops, o, j) /\ l.ops[j][1] = "begin"
  /\ \A g \in Objects : gp[g].state = "open" => \E i \in DOMAIN ls : ~Unused(ls[i].ops, g)

Blank == [q \in Queries |-> [on |-> FALSE, ended |-> FALSE, count |-> 0, resets |-> 0]]
Start(ck, gp) == [clock |-> ck, gpu |-> gp, notes |-> Blank]

\* The current list l, the submitted lists ls, the objects gp, the time ck and the open
\* object o of the context fit together, and the device will get to d.
Sound(l, ls, gp, ck, o, d) ==
  /\ l \in CommandLists /\ ls \in Seq(CommandLists) /\ gp \in [Objects -> Results]
  /\ ck \in Nat /\ o \in Objects \union {NoObject}
  /\ Tracks(l, ls, o)
  /\ UsedOnce(l, ls, gp, o)
  /\ Submitted(ls, l.ops, Start(ck, gp), d) /\ d \in States
  /\ \A h \in Objects : d.gpu[h].state = "open" <=> h = o

\* There is no object of this name.
LEMMA NoObjectOutside == NoObject \notin Objects
BY DEF NoObject, Objects, Pools

\* States that the device can be in.
LEMMA StartType ==
  ASSUME NEW ck \in Nat, NEW gp \in [Objects -> Results]
  PROVE  Start(ck, gp) \in States
BY DEF Start, States, Blank, Notes

\* Uses after an operation on something else,
LEMMA OnceOther ==
  ASSUME NEW ops \in Seq(Ops), NEW x \in Ops, NEW g, x[2] # g, NEW state, Once(ops, g, state)
  PROVE  Once(ops \o <<x>>, g, state)
<1> DEFINE pps == ops \o <<x>>
<1>1. /\ pps \in Seq(Ops) /\ Len(pps) = Len(ops) + 1 /\ Len(ops) \in Nat
      /\ DOMAIN ops = 1..Len(ops) /\ DOMAIN pps = 1..(Len(ops) + 1)
      /\ pps[Len(ops) + 1] = x /\ \A k \in 1..Len(ops) : pps[k] = ops[k]
  OBVIOUS
<1> HIDE DEF pps
<1>2. ASSUME Unused(ops, g) PROVE Unused(pps, g)
  BY <1>1, <1>2 DEF Unused
<1>3. ASSUME NEW k \in DOMAIN ops, Single(ops, g, k)
      PROVE  Single(pps, g, k) /\ pps[k] = ops[k] /\ k \in DOMAIN pps
  BY <1>1, <1>3 DEF Single
<1>4. ASSUME NEW j \in DOMAIN ops, NEW k \in DOMAIN ops, Pair(ops, g, j, k)
      PROVE  Pair(pps, g, j, k) /\ k \in DOMAIN pps /\ j \in DOMAIN pps
  BY <1>1, <1>4 DEF Pair
<1>5. Once(pps, g, state)
  <2>1. CASE Unused(ops, g)
    BY <1>2, <2>1 DEF Once
  <2>2. CASE state = "open" /\ \E k \in DOMAIN ops : Single(ops, g, k) /\ ops[k][1] = "end"
    BY <1>3, <2>2 DEF Once
  <2>4. CASE state = "reset" /\ \E k \in DOMAIN ops : Single(ops, g, k) /\ ops[k][1] \in {"stamp", "set"}
    BY <1>3, <2>4 DEF Once
  <2>3. CASE state = "reset" /\ \E j, k \in DOMAIN ops : Pair(ops, g, j, k)
    BY <1>4, <2>3 DEF Once
  <2> QED
    BY <2>1, <2>2, <2>3, <2>4, Zenon DEF Once
<1> QED
  BY <1>5 DEF pps

\* of an object that was not used,
LEMMA OnceNew ==
  ASSUME NEW ops \in Seq(Ops), NEW x \in Ops, Unused(ops, x[2])
  PROVE  Len(ops) + 1 \in DOMAIN (ops \o <<x>>) /\ Single(ops \o <<x>>, x[2], Len(ops) + 1)
           /\ (ops \o <<x>>)[Len(ops) + 1] = x
<1> DEFINE pps == ops \o <<x>>
<1>1. /\ pps \in Seq(Ops) /\ Len(pps) = Len(ops) + 1 /\ Len(ops) \in Nat
      /\ DOMAIN ops = 1..Len(ops) /\ DOMAIN pps = 1..(Len(ops) + 1)
      /\ pps[Len(ops) + 1] = x /\ \A k \in 1..Len(ops) : pps[k] = ops[k]
  OBVIOUS
<1> HIDE DEF pps
<1>2. Len(ops) + 1 \in DOMAIN pps /\ Single(pps, x[2], Len(ops) + 1) /\ pps[Len(ops) + 1] = x
  BY <1>1 DEF Single, Unused
<1> QED
  BY <1>2 DEF pps

\* and of one that ends.
LEMMA OnceEnd ==
  ASSUME NEW ops \in Seq(Ops), NEW g \in Objects, NEW j \in DOMAIN ops, Single(ops, g, j), ops[j][1] = "begin"
  PROVE  Once(ops \o <<<<"end", g>>>>, g, "reset")
<1> DEFINE x == <<"end", g>>
           pps == ops \o <<x>>
<1>1. /\ Len(pps) = Len(ops) + 1 /\ Len(ops) \in Nat
      /\ DOMAIN ops = 1..Len(ops) /\ DOMAIN pps = 1..(Len(ops) + 1)
      /\ pps[Len(ops) + 1] = x /\ \A k \in 1..Len(ops) : pps[k] = ops[k]
  OBVIOUS
<1>2. x[1] = "end" /\ x[2] = g
  OBVIOUS
<1> HIDE DEF pps, x
<1>3. Pair(pps, g, j, Len(ops) + 1) /\ Len(ops) + 1 \in DOMAIN pps /\ j \in DOMAIN pps
  BY <1>1, <1>2 DEF Single, Pair
<1>4. Once(pps, g, "reset")
  BY <1>3 DEF Once
<1> QED
  BY <1>4 DEF pps, x

\* An object that no list tracks is not used.
LEMMA Untracked ==
  ASSUME NEW l \in CommandLists, Refers(l), NEW g \in Objects, g \notin l.tracked
  PROVE  Unused(l.ops, g)
BY NoObjectOutside DEF Refers, Unused

\* The operations of the lists.
LEMMA ListMembers ==
  /\ \A l \in CommandLists : l.ops \in Seq(Ops) /\ l.tracked \in SUBSET Objects
  /\ \A ls \in Seq(CommandLists) : \A i \in DOMAIN ls : ls[i] \in CommandLists /\ ls[i].ops \in Seq(Ops)
  /\ \A ops \in Seq(Ops) : \A k \in DOMAIN ops : ops[k] \in Ops
<1>1. \A l \in CommandLists : l.ops \in Seq(Ops) /\ l.tracked \in SUBSET Objects
  BY DEF CommandLists
<1>2. \A ls \in Seq(CommandLists) : \A i \in DOMAIN ls : ls[i] \in CommandLists
  OBVIOUS
<1>3. \A ops \in Seq(Ops) : \A k \in DOMAIN ops : ops[k] \in Ops
  OBVIOUS
<1> QED
  BY <1>1, <1>2, <1>3

-----------------------------------------------------------------------------
(* What the CS thread does to it *)

\* The open object ends.
LEMMA EndOpen ==
  ASSUME NEW l, NEW ls, NEW gp, NEW ck, NEW o, NEW d, Sound(l, ls, gp, ck, o, d), o # NoObject
  PROVE  Sound([l EXCEPT !.ops = @ \o <<<<"end", o>>>>], ls, gp, ck, NoObject, Executed(<<"end", o>>, d))
<1> DEFINE x == <<"end", o>>
           m == [l EXCEPT !.ops = @ \o <<x>>]
           e == Executed(x, d)
<1>1. /\ l \in CommandLists /\ ls \in Seq(CommandLists) /\ o \in Objects /\ gp \in [Objects -> Results]
      /\ l.ops \in Seq(Ops) /\ x \in Ops /\ x[1] = "end" /\ x[2] = o /\ ck \in Nat /\ d \in States
  BY DEF Sound, CommandLists, Ops
<1>2. m.ops = l.ops \o <<x>> /\ m.tracked = l.tracked /\ m \in CommandLists
  <2>1. l.ops \o <<x>> \in Seq(Ops)
    BY <1>1
  <2> DEFINE pps == l.ops \o <<x>>
  <2>2. m = [l EXCEPT !.ops = pps]
    OBVIOUS
  <2> HIDE DEF pps
  <2> QED
    BY <1>1, <2>1, <2>2 DEF CommandLists, pps
<1>3. e \in States /\ Submitted(ls, m.ops, Start(ck, gp), e)
  <2>1. Submitted(ls, l.ops, Start(ck, gp), d)
    BY DEF Sound
  <2> HIDE DEF x
  <2>2. e \in States /\ Submitted(ls, l.ops \o <<x>>, Start(ck, gp), e)
    BY <1>1, <2>1, RecordOne
  <2> HIDE DEF m, e
  <2> QED
    BY <1>2, <2>2
<1>4. \A h \in Objects : e.gpu[h].state = "open" <=> h = NoObject
  BY <1>1, NoObjectOutside DEF Sound, Executed, OpResult
<1>5. DOMAIN m.ops = 1..(Len(l.ops) + 1) /\ m.ops[Len(l.ops) + 1] = x /\ DOMAIN l.ops = 1..Len(l.ops)
      /\ (\A k \in 1..Len(l.ops) : m.ops[k] = l.ops[k]) /\ Len(l.ops) \in Nat
  BY <1>1, <1>2
<1> HIDE DEF m, e, x
<1>6. Tracks(m, ls, NoObject)
  <2>1. Refers(m)
    BY <1>1, <1>2, <1>5 DEF Sound, Tracks, Refers
  <2> QED
    BY <1>2, <2>1 DEF Sound, Tracks, Apart
<1>7. UsedOnce(m, ls, gp, NoObject)
  <2>1. ASSUME NEW g \in Objects PROVE Once(m.ops, g, gp[g].state)
    <3>1. CASE g # o
      <4>1. Once(l.ops, g, gp[g].state)
        BY <3>1 DEF Sound, UsedOnce
      <4> QED
        BY <1>1, <1>2, <3>1, <4>1, OnceOther
    <3>2. CASE g = o
      <4>1. PICK j \in DOMAIN l.ops : Single(l.ops, o, j) /\ l.ops[j][1] = "begin"
        BY <3>2, NoObjectOutside DEF Sound, UsedOnce
      <4>2. Once(m.ops, o, "reset")
        BY <1>1, <1>2, <4>1, OnceEnd DEF x
      <4>3. gp[o].state = "reset"
        BY <1>1, NoObjectOutside DEF Sound, UsedOnce
      <4> QED
        BY <3>2, <4>2, <4>3
    <3> QED
      BY <3>1, <3>2
  <2> QED
    BY <2>1 DEF Sound, UsedOnce
<1>8. Sound(m, ls, gp, ck, NoObject, e)
  BY <1>1, <1>2, <1>3, <1>4, <1>6, <1>7 DEF Sound
<1> QED
  BY <1>8 DEF m, e, x

\* A draw.
LEMMA DrawRecorded ==
  ASSUME NEW l, NEW ls, NEW gp, NEW ck, NEW o, NEW d, Sound(l, ls, gp, ck, o, d)
  PROVE  Sound([l EXCEPT !.ops = @ \o <<<<"draw", NoObject>>>>], ls, gp, ck, o, Executed(<<"draw", NoObject>>, d))
<1> DEFINE x == <<"draw", NoObject>>
           m == [l EXCEPT !.ops = @ \o <<x>>]
           e == Executed(x, d)
<1>1. /\ l \in CommandLists /\ ls \in Seq(CommandLists) /\ o \in Objects \union {NoObject} /\ gp \in [Objects -> Results]
      /\ l.ops \in Seq(Ops) /\ x \in Ops /\ x[1] = "draw" /\ x[2] = NoObject /\ ck \in Nat /\ d \in States
  BY DEF Sound, CommandLists, Ops
<1>2. m.ops = l.ops \o <<x>> /\ m.tracked = l.tracked /\ m \in CommandLists
  <2>1. l.ops \o <<x>> \in Seq(Ops)
    BY <1>1
  <2> DEFINE pps == l.ops \o <<x>>
  <2>2. m = [l EXCEPT !.ops = pps]
    OBVIOUS
  <2> HIDE DEF pps
  <2> QED
    BY <1>1, <2>1, <2>2 DEF CommandLists, pps
<1>3. e \in States /\ Submitted(ls, m.ops, Start(ck, gp), e)
  <2>1. Submitted(ls, l.ops, Start(ck, gp), d)
    BY DEF Sound
  <2> HIDE DEF x
  <2>2. e \in States /\ Submitted(ls, l.ops \o <<x>>, Start(ck, gp), e)
    BY <1>1, <2>1, RecordOne
  <2> HIDE DEF m, e
  <2> QED
    BY <1>2, <2>2
<1>4. \A h \in Objects : e.gpu[h].state = "open" <=> h = o
  <2> SUFFICES ASSUME NEW h \in Objects PROVE e.gpu[h].state = "open" <=> h = o
    OBVIOUS
  <2>1. d.gpu[h] \in Results /\ h # x[2] /\ x[1] = "draw"
    BY <1>1, NoObjectOutside DEF States
  <2>2. e.gpu[h].state = d.gpu[h].state
    BY <2>1 DEF Executed, OpResult, Results
  <2> QED
    BY <2>2 DEF Sound
<1>5. DOMAIN m.ops = 1..(Len(l.ops) + 1) /\ m.ops[Len(l.ops) + 1] = x /\ DOMAIN l.ops = 1..Len(l.ops)
      /\ (\A k \in 1..Len(l.ops) : m.ops[k] = l.ops[k]) /\ Len(l.ops) \in Nat
  BY <1>1, <1>2
<1> HIDE DEF m, e, x
<1>6. Tracks(m, ls, o)
  <2>1. Refers(m)
    BY <1>1, <1>2, <1>5 DEF Sound, Tracks, Refers
  <2> QED
    BY <1>2, <2>1 DEF Sound, Tracks, Apart
<1>7. UsedOnce(m, ls, gp, o)
  <2>1. ASSUME NEW g \in Objects, g # o PROVE Once(m.ops, g, gp[g].state)
    BY <1>1, <1>2, <2>1, OnceOther, NoObjectOutside DEF Sound, UsedOnce
  <2>2. ASSUME o # NoObject PROVE \E j \in DOMAIN m.ops : Single(m.ops, o, j) /\ m.ops[j][1] = "begin"
    <3>1. PICK j \in DOMAIN l.ops : Single(l.ops, o, j) /\ l.ops[j][1] = "begin"
      BY <2>2 DEF Sound, UsedOnce
    <3>2. j \in DOMAIN m.ops /\ m.ops[j] = l.ops[j]
      BY <1>5, <3>1
    <3>3. x[2] # o
      BY <1>1, <2>2
    <3>4. Single(m.ops, o, j)
      <4>1. \A i \in 1..Len(l.ops) : l.ops[i][2] = o <=> i = j
        BY <1>5, <3>1 DEF Single
      <4>2. ASSUME NEW i \in DOMAIN m.ops PROVE m.ops[i][2] = o <=> i = j
        <5>1. CASE i = Len(l.ops) + 1
          BY <1>5, <3>1, <3>3, <5>1
        <5>2. CASE i \in 1..Len(l.ops)
          BY <1>5, <4>1, <5>2
        <5> QED
          BY <1>5, <5>1, <5>2
      <4> QED
        BY <3>2, <4>2 DEF Single
    <3> QED
      BY <3>1, <3>2, <3>4
  <2> QED
    BY <2>1, <2>2 DEF Sound, UsedOnce
<1>8. Sound(m, ls, gp, ck, o, e)
  BY <1>1, <1>2, <1>3, <1>4, <1>6, <1>7 DEF Sound
<1> QED
  BY <1>8 DEF m, e, x

Clear == [state |-> "reset", value |-> 0]
Cleared(s, g) == [s EXCEPT !.gpu = [@ EXCEPT ![g] = Clear]]

\* What is not tracked is not open, and not used.
Fresh(l, ls, g) == g \notin l.tracked /\ \A i \in DOMAIN ls : g \notin ls[i].tracked

\* So the device has nothing to do with it.
LEMMA FreshUnused ==
  ASSUME NEW l, NEW ls, NEW gp, NEW ck, NEW o, NEW d, Sound(l, ls, gp, ck, o, d),
         NEW g \in Objects, Fresh(l, ls, g)
  PROVE  /\ g # o /\ gp[g].state # "open" /\ Unused(l.ops, g)
         /\ \A i \in DOMAIN ls : Unused(ls[i].ops, g)
<1>1. g # o
  BY NoObjectOutside DEF Sound, Tracks, Fresh
<1>2. Unused(l.ops, g)
  BY Untracked DEF Sound, Tracks, Fresh
<1>3. \A i \in DOMAIN ls : Unused(ls[i].ops, g)
  <2> SUFFICES ASSUME NEW i \in DOMAIN ls PROVE Unused(ls[i].ops, g)
    OBVIOUS
  <2>1. ls[i] \in CommandLists /\ Refers(ls[i]) /\ g \notin ls[i].tracked
    BY ListMembers DEF Sound, Tracks, Fresh
  <2> QED
    BY <2>1, Untracked
<1> QED
  BY <1>1, <1>2, <1>3 DEF Sound, UsedOnce

\* The state with an object cleared is a state.
LEMMA ClearedType ==
  ASSUME NEW g \in Objects, NEW s \in States
  PROVE  /\ Cleared(s, g) \in States
         /\ Cleared(s, g).clock = s.clock /\ Cleared(s, g).notes = s.notes
         /\ \A h \in Objects : Cleared(s, g).gpu[h] = IF h = g THEN Clear ELSE s.gpu[h]
<1>1. Clear \in Results
  BY DEF Clear, Results
<1>2. Cleared(s, g) = [clock |-> s.clock, gpu |-> [s.gpu EXCEPT ![g] = Clear], notes |-> s.notes]
  BY DEF Cleared, States
<1>3. s.clock \in Nat /\ s.gpu \in [Objects -> Results] /\ s.notes \in [Queries -> Notes]
  BY DEF States
<1>4. [s.gpu EXCEPT ![g] = Clear] \in [Objects -> Results]
  BY <1>1, <1>3
<1> QED
  BY <1>1, <1>2, <1>3, <1>4 DEF States

\* States are equal if all their parts are.
LEMMA SameState ==
  ASSUME NEW s \in States, NEW t \in States, s.clock = t.clock, s.notes = t.notes,
         \A h \in Objects : s.gpu[h] = t.gpu[h]
  PROVE  s = t
<1>1. s.gpu \in [Objects -> Results] /\ t.gpu \in [Objects -> Results]
  BY DEF States
<1>2. s.gpu = t.gpu
  BY <1>1
<1> QED
  BY <1>2 DEF States

\* An operation on something else does not mind that an object is cleared that it does
\* not count with,
LEMMA ClearAllowed ==
  ASSUME NEW g \in Objects, NEW x \in Ops, x[2] # g
  PROVE  Allows(OpRel(x), {s \in States : s.gpu[g].state # "open"}, [s \in States |-> Cleared(s, g)])
<1> DEFINE D == {s \in States : s.gpu[g].state # "open"}
           f == [s \in States |-> Cleared(s, g)]
<1> SUFFICES ASSUME NEW a \in States, NEW b \in States, a \in D, <<a, b>> \in OpRel(x)
             PROVE  b \in D /\ <<f[a], f[b]>> \in OpRel(x)
  BY DEF Allows
<1>1. b = Executed(x, a)
  BY DEF OpRel
<1>2. b.gpu[g] = a.gpu[g] /\ a.gpu[g].state # "open"
  BY <1>1 DEF Executed, OpResult
<1>3. Cleared(a, g) \in States /\ Cleared(b, g) \in States /\ Executed(x, Cleared(a, g)) \in States
  BY ClearedType, ExecutedType
<1>4. Cleared(b, g) = Executed(x, Cleared(a, g))
  <2>1. Cleared(b, g).clock = Executed(x, Cleared(a, g)).clock
    BY <1>1, ClearedType DEF Executed
  <2>2. Cleared(b, g).notes = Executed(x, Cleared(a, g)).notes
    BY <1>1, ClearedType DEF Executed
  <2>3. ASSUME NEW h \in Objects PROVE Cleared(b, g).gpu[h] = Executed(x, Cleared(a, g)).gpu[h]
    <3>1. CASE h = g
      <4>1. Cleared(b, g).gpu[h] = Clear /\ Cleared(a, g).gpu[h] = Clear
        BY <3>1, ClearedType
      <4>2. Executed(x, Cleared(a, g)).gpu[h] = Clear
        BY <3>1, <4>1 DEF Executed, OpResult, Clear
      <4> QED
        BY <4>1, <4>2
    <3>2. CASE h # g
      <4>1. Cleared(b, g).gpu[h] = b.gpu[h] /\ Cleared(a, g).gpu[h] = a.gpu[h] /\ Cleared(a, g).clock = a.clock
        BY <3>2, ClearedType
      <4>2. b.gpu[h] = OpResult(x, h, a) /\ Executed(x, Cleared(a, g)).gpu[h] = OpResult(x, h, Cleared(a, g))
        BY <1>1 DEF Executed
      <4>3. OpResult(x, h, Cleared(a, g)) = OpResult(x, h, a)
        BY <4>1 DEF OpResult
      <4> QED
        BY <4>1, <4>2, <4>3
    <3> QED
      BY <3>1, <3>2
  <2> QED
    BY <1>3, <2>1, <2>2, <2>3, SameState
<1>5. <<Cleared(a, g), Cleared(b, g)>> \in OpRel(x)
  BY <1>3, <1>4 DEF OpRel
<1> QED
  BY <1>2, <1>5

\* and leaves the object as it is.
LEMMA KeepAllowed ==
  ASSUME NEW g \in Objects, NEW x \in Ops, x[2] # g, NEW r, r.state # "open"
  PROVE  Allows(OpRel(x), {s \in States : s.gpu[g] = r}, [s \in States |-> s])
<1> SUFFICES ASSUME NEW a \in States, NEW b \in States, a.gpu[g] = r, <<a, b>> \in OpRel(x)
             PROVE  b.gpu[g] = r
  BY DEF Allows
<1>1. b = Executed(x, a)
  BY DEF OpRel
<1> QED
  BY <1>1 DEF Executed, OpResult

\* An object that the device has nothing to do with stays as it is.
LEMMA DeviceKeeps ==
  ASSUME NEW l, NEW ls, NEW gp, NEW ck, NEW o, NEW d, Sound(l, ls, gp, ck, o, d),
         NEW g \in Objects, gp[g].state # "open", Unused(l.ops, g),
         \A i \in DOMAIN ls : Unused(ls[i].ops, g)
  PROVE  d.gpu[g] = gp[g]
<1> DEFINE r == gp[g]
           D == {s \in States : s.gpu[g] = r}
           f == [s \in States |-> s]
           s0 == Start(ck, gp)
<1>1. /\ ls \in Seq(CommandLists) /\ l.ops \in Seq(Ops) /\ Submitted(ls, l.ops, s0, d)
  BY ListMembers DEF Sound
<1>2. s0 \in States /\ s0 \in D
  BY StartType DEF Sound, Start
<1>3. f \in [States -> States]
  OBVIOUS
<1>4. \A k \in DOMAIN l.ops : Allows(OpRel(l.ops[k]), D, f)
  BY <1>1, KeepAllowed, ListMembers DEF Unused
<1>5. \A i \in DOMAIN ls : \A k \in DOMAIN ls[i].ops : Allows(OpRel(ls[i].ops[k]), D, f)
  BY <1>1, KeepAllowed, ListMembers DEF Unused
<1> HIDE DEF D, f, s0
<1>6. d \in D
  BY <1>1, <1>2, <1>3, <1>4, <1>5, SubmittedTransport
<1> QED
  BY <1>6 DEF D

\* A fresh object is reset.
LEMMA ResetFresh ==
  ASSUME NEW l, NEW ls, NEW gp, NEW ck, NEW o, NEW d, Sound(l, ls, gp, ck, o, d),
         NEW g \in Objects, Fresh(l, ls, g)
  PROVE  Sound(l, ls, [gp EXCEPT ![g] = Clear], ck, o, Cleared(d, g))
<1> DEFINE D == {s \in States : s.gpu[g].state # "open"}
           f == [s \in States |-> Cleared(s, g)]
           s0 == Start(ck, gp)
           hp == [gp EXCEPT ![g] = Clear]
<1>1. /\ ls \in Seq(CommandLists) /\ l.ops \in Seq(Ops) /\ Submitted(ls, l.ops, s0, d)
      /\ gp \in [Objects -> Results] /\ ck \in Nat /\ d \in States
  BY ListMembers DEF Sound
<1>2. /\ g # o /\ gp[g].state # "open" /\ Unused(l.ops, g)
      /\ \A i \in DOMAIN ls : Unused(ls[i].ops, g)
  BY FreshUnused
<1>3. s0 \in States /\ s0 \in D /\ s0.gpu = gp
  BY <1>1, <1>2, StartType DEF Start
<1>4. f \in [States -> States] /\ f[s0] = Cleared(s0, g) /\ f[d] = Cleared(d, g)
  BY <1>1, <1>3, ClearedType
<1>5. \A k \in DOMAIN l.ops : Allows(OpRel(l.ops[k]), D, f)
  BY <1>1, <1>2, ClearAllowed, ListMembers DEF Unused
<1>6. \A i \in DOMAIN ls : \A k \in DOMAIN ls[i].ops : Allows(OpRel(ls[i].ops[k]), D, f)
  BY <1>1, <1>2, ClearAllowed, ListMembers DEF Unused
<1>7. f[s0] = Start(ck, hp)
  BY <1>4 DEF Cleared, Start
<1>8. hp \in [Objects -> Results] /\ (\A h \in Objects : hp[h] = IF h = g THEN Clear ELSE gp[h])
  BY <1>1 DEF Clear, Results
<1> HIDE DEF D, f, s0, hp
<1>9. Submitted(ls, l.ops, Start(ck, hp), Cleared(d, g))
  BY <1>1, <1>3, <1>4, <1>5, <1>6, <1>7, SubmittedTransport
<1>10. UsedOnce(l, ls, hp, o)
  <2>1. ASSUME NEW i \in DOMAIN ls, NEW h \in Objects PROVE Once(ls[i].ops, h, hp[h].state)
    BY <1>2, <1>8 DEF Sound, UsedOnce, Once
  <2>2. ASSUME NEW h \in Objects, h # o PROVE Once(l.ops, h, hp[h].state)
    BY <1>2, <1>8, <2>2 DEF Sound, UsedOnce, Once
  <2>3. ASSUME o # NoObject
        PROVE  hp[o].state = "reset" /\ \E j \in DOMAIN l.ops : Single(l.ops, o, j) /\ l.ops[j][1] = "begin"
    BY <1>2, <1>8, <2>3 DEF Sound, UsedOnce
  <2>4. ASSUME NEW h \in Objects, hp[h].state = "open" PROVE \E i \in DOMAIN ls : ~Unused(ls[i].ops, h)
    <3>1. gp[h].state = "open"
      BY <1>8, <2>4 DEF Clear
    <3> QED
      BY <3>1 DEF Sound, UsedOnce
  <2> QED
    BY <2>1, <2>2, <2>3, <2>4 DEF UsedOnce
<1>11. /\ Cleared(d, g) \in States
       /\ \A h \in Objects : Cleared(d, g).gpu[h].state = "open" <=> h = o
  <2>1. \A h \in Objects : d.gpu[h].state = "open" <=> h = o
    BY DEF Sound
  <2> QED
    BY <1>1, <1>2, <2>1, ClearedType DEF Clear
<1>12. Sound(l, ls, hp, ck, o, Cleared(d, g))
  BY <1>8, <1>9, <1>10, <1>11 DEF Sound
<1> QED
  BY <1>12 DEF hp

\* What is recorded: an operation, and the object it is for.
With(l, x, g) == [l EXCEPT !.ops = @ \o <<x>>, !.tracked = @ \union {g}]

\* Its members.
LEMMA WithForm ==
  ASSUME NEW l \in CommandLists, NEW x \in Ops, NEW g \in Objects
  PROVE  /\ With(l, x, g) \in CommandLists
         /\ With(l, x, g).ops = l.ops \o <<x>> /\ With(l, x, g).tracked = l.tracked \union {g}
         /\ Len(l.ops) \in Nat /\ DOMAIN l.ops = 1..Len(l.ops) /\ DOMAIN With(l, x, g).ops = 1..(Len(l.ops) + 1)
         /\ With(l, x, g).ops[Len(l.ops) + 1] = x
         /\ \A k \in 1..Len(l.ops) : With(l, x, g).ops[k] = l.ops[k]
<1> DEFINE pps == l.ops \o <<x>>
           tr == l.tracked \union {g}
<1>1. l.ops \in Seq(Ops) /\ l.tracked \in SUBSET Objects
  BY DEF CommandLists
<1>2. /\ pps \in Seq(Ops) /\ Len(l.ops) \in Nat /\ DOMAIN l.ops = 1..Len(l.ops) /\ DOMAIN pps = 1..(Len(l.ops) + 1)
      /\ pps[Len(l.ops) + 1] = x
      /\ \A k \in 1..Len(l.ops) : pps[k] = l.ops[k]
  BY <1>1
<1>3. tr \in SUBSET Objects
  BY <1>1
<1>4. With(l, x, g) = [l EXCEPT !.ops = pps, !.tracked = tr]
  BY DEF With
<1> HIDE DEF pps, tr
<1>5. With(l, x, g) \in CommandLists /\ With(l, x, g).ops = pps /\ With(l, x, g).tracked = tr
  BY <1>2, <1>3, <1>4 DEF CommandLists
<1> QED
  BY <1>2, <1>5 DEF pps, tr

\* An operation on a fresh object is recorded, with what this does not concern.
LEMMA UseFresh ==
  ASSUME NEW l, NEW ls, NEW gp, NEW ck, NEW o, NEW d, Sound(l, ls, gp, ck, o, d),
         NEW g \in Objects, Fresh(l, ls, g), NEW x \in Ops, x[2] = g
  PROVE  LET m == With(l, x, g)
             e == Executed(x, d)
         IN /\ m \in CommandLists /\ e \in States /\ Submitted(ls, m.ops, Start(ck, gp), e)
            /\ Refers(m) /\ Apart(m, ls) /\ g \in m.tracked /\ (o # NoObject => o \in m.tracked)
            /\ \A h \in Objects : h \notin {o, g} => Once(m.ops, h, gp[h].state)
            /\ Len(l.ops) + 1 \in DOMAIN m.ops /\ Single(m.ops, g, Len(l.ops) + 1) /\ m.ops[Len(l.ops) + 1] = x
            /\ \A h \in Objects : h # g => \A k \in DOMAIN l.ops :
                 Single(l.ops, h, k) => k \in DOMAIN m.ops /\ Single(m.ops, h, k) /\ m.ops[k] = l.ops[k]
            /\ \A h \in Objects : e.gpu[h].state = IF h = g THEN (IF x[1] = "begin" THEN "open" ELSE "done") ELSE d.gpu[h].state
<1> DEFINE m == With(l, x, g)
           e == Executed(x, d)
<1>1. /\ l \in CommandLists /\ ls \in Seq(CommandLists) /\ l.ops \in Seq(Ops) /\ d \in States
      /\ Submitted(ls, l.ops, Start(ck, gp), d)
  BY ListMembers DEF Sound
<1>2. /\ m \in CommandLists
      /\ m.ops = l.ops \o <<x>> /\ m.tracked = l.tracked \union {g}
      /\ Len(l.ops) \in Nat /\ DOMAIN l.ops = 1..Len(l.ops) /\ DOMAIN m.ops = 1..(Len(l.ops) + 1)
      /\ m.ops[Len(l.ops) + 1] = x
      /\ \A k \in 1..Len(l.ops) : m.ops[k] = l.ops[k]
  BY <1>1, WithForm
<1>3. /\ g # o /\ gp[g].state # "open" /\ Unused(l.ops, g)
      /\ \A i \in DOMAIN ls : Unused(ls[i].ops, g)
  BY FreshUnused
<1>4. e \in States /\ Submitted(ls, l.ops \o <<x>>, Start(ck, gp), e)
  BY <1>1, RecordOne
<1> HIDE DEF m
<1>5. Submitted(ls, m.ops, Start(ck, gp), e)
  BY <1>2, <1>4
<1>6. Refers(m)
  BY <1>2 DEF Refers, Sound, Tracks
<1>7. Apart(m, ls)
  <2>1. Apart(l, ls) /\ \A i \in DOMAIN ls : g \notin ls[i].tracked
    BY DEF Sound, Tracks, Fresh
  <2> QED
    BY <1>2, <2>1 DEF Apart
<1>8. g \in m.tracked /\ (o # NoObject => o \in m.tracked)
  BY <1>2 DEF Sound, Tracks
<1>9. ASSUME NEW h \in Objects, h \notin {o, g} PROVE Once(m.ops, h, gp[h].state)
  <2>1. Once(l.ops, h, gp[h].state)
    BY <1>9 DEF Sound, UsedOnce
  <2> QED
    BY <1>1, <1>2, <1>9, <2>1, OnceOther
<1>10. Len(l.ops) + 1 \in DOMAIN m.ops /\ Single(m.ops, g, Len(l.ops) + 1) /\ m.ops[Len(l.ops) + 1] = x
  <2>1. x[2] = g /\ Unused(l.ops, x[2])
    BY <1>3
  <2>2. Len(l.ops) + 1 \in DOMAIN (l.ops \o <<x>>) /\ Single(l.ops \o <<x>>, x[2], Len(l.ops) + 1)
          /\ (l.ops \o <<x>>)[Len(l.ops) + 1] = x
    BY <1>1, <2>1, OnceNew
  <2> QED
    BY <1>2, <2>1, <2>2
<1>11. ASSUME NEW h \in Objects, h # g, NEW k \in DOMAIN l.ops, Single(l.ops, h, k)
       PROVE  k \in DOMAIN m.ops /\ Single(m.ops, h, k) /\ m.ops[k] = l.ops[k]
  <2>1. k \in DOMAIN m.ops /\ m.ops[k] = l.ops[k]
    BY <1>2, <1>11
  <2>2. ASSUME NEW i \in DOMAIN m.ops PROVE m.ops[i][2] = h <=> i = k
    <3>1. CASE i = Len(l.ops) + 1
      BY <1>2, <1>11, <3>1
    <3>2. CASE i \in 1..Len(l.ops)
      BY <1>2, <1>11, <3>2 DEF Single
    <3> QED
      BY <1>2, <3>1, <3>2
  <2> QED
    BY <2>1, <2>2 DEF Single
<1>12. ASSUME NEW h \in Objects
       PROVE e.gpu[h].state = IF h = g THEN (IF x[1] = "begin" THEN "open" ELSE "done") ELSE d.gpu[h].state
  <2>1. d.gpu[h] \in Results
    BY <1>1 DEF States
  <2> QED
    BY <2>1 DEF Executed, OpResult, Results
<1> QED
  BY <1>2, <1>4, <1>5, <1>6, <1>7, <1>8, <1>9, <1>10, <1>11, <1>12 DEF m

\* A fresh object begins.
LEMMA BeginFresh ==
  ASSUME NEW l, NEW ls, NEW gp, NEW ck, NEW d, Sound(l, ls, gp, ck, NoObject, d),
         NEW g \in Objects, Fresh(l, ls, g), gp[g].state = "reset"
  PROVE  Sound(With(l, <<"begin", g>>, g), ls, gp, ck, g, Executed(<<"begin", g>>, d))
<1> DEFINE x == <<"begin", g>>
           m == With(l, x, g)
           e == Executed(x, d)
<1>1. x \in Ops /\ x[2] = g /\ x[1] = "begin"
  BY DEF Ops
<1> HIDE DEF x
<1>2. /\ m \in CommandLists /\ e \in States /\ Submitted(ls, m.ops, Start(ck, gp), e)
      /\ Refers(m) /\ Apart(m, ls) /\ g \in m.tracked
      /\ \A h \in Objects : h \notin {NoObject, g} => Once(m.ops, h, gp[h].state)
      /\ Len(l.ops) + 1 \in DOMAIN m.ops /\ Single(m.ops, g, Len(l.ops) + 1) /\ m.ops[Len(l.ops) + 1] = x
      /\ \A h \in Objects : e.gpu[h].state = IF h = g THEN (IF x[1] = "begin" THEN "open" ELSE "done") ELSE d.gpu[h].state
  BY <1>1, UseFresh
<1> HIDE DEF m, e
<1>3. Tracks(m, ls, g)
  BY <1>2 DEF Sound, Tracks
<1>4. UsedOnce(m, ls, gp, g)
  BY <1>1, <1>2, NoObjectOutside DEF Sound, UsedOnce
<1>5. \A h \in Objects : e.gpu[h].state = "open" <=> h = g
  BY <1>1, <1>2, NoObjectOutside DEF Sound
<1>6. Sound(m, ls, gp, ck, g, e)
  BY <1>2, <1>3, <1>4, <1>5 DEF Sound
<1> QED
  BY <1>6 DEF m, e, x

\* A fresh object gets a time, or is set.
LEMMA SetFresh ==
  ASSUME NEW l, NEW ls, NEW gp, NEW ck, NEW o, NEW d, Sound(l, ls, gp, ck, o, d),
         NEW g \in Objects, Fresh(l, ls, g), gp[g].state = "reset", NEW k \in {"stamp", "set"}
  PROVE  Sound(With(l, <<k, g>>, g), ls, gp, ck, o, Executed(<<k, g>>, d))
<1> DEFINE x == <<k, g>>
           m == With(l, x, g)
           e == Executed(x, d)
<1>1. x \in Ops /\ x[2] = g /\ x[1] \in {"stamp", "set"}
  BY DEF Ops
<1> HIDE DEF x
<1>2. /\ m \in CommandLists /\ e \in States /\ Submitted(ls, m.ops, Start(ck, gp), e)
      /\ Refers(m) /\ Apart(m, ls) /\ g \in m.tracked /\ (o # NoObject => o \in m.tracked)
      /\ \A h \in Objects : h \notin {o, g} => Once(m.ops, h, gp[h].state)
      /\ Len(l.ops) + 1 \in DOMAIN m.ops /\ Single(m.ops, g, Len(l.ops) + 1) /\ m.ops[Len(l.ops) + 1] = x
      /\ \A h \in Objects : h # g => \A j \in DOMAIN l.ops :
           Single(l.ops, h, j) => j \in DOMAIN m.ops /\ Single(m.ops, h, j) /\ m.ops[j] = l.ops[j]
      /\ \A h \in Objects : e.gpu[h].state = IF h = g THEN (IF x[1] = "begin" THEN "open" ELSE "done") ELSE d.gpu[h].state
  BY <1>1, UseFresh
<1>7. g # o
  BY FreshUnused
<1> HIDE DEF m, e
<1>3. Tracks(m, ls, o)
  BY <1>2 DEF Sound, Tracks
<1>4. UsedOnce(m, ls, gp, o)
  <2>1. Once(m.ops, g, gp[g].state)
    BY <1>1, <1>2 DEF Once
  <2>2. \A h \in Objects : h # o => Once(m.ops, h, gp[h].state)
    BY <1>2, <2>1
  <2>3. ASSUME o # NoObject PROVE \E j \in DOMAIN m.ops : Single(m.ops, o, j) /\ m.ops[j][1] = "begin"
    <3>1. PICK j \in DOMAIN l.ops : Single(l.ops, o, j) /\ l.ops[j][1] = "begin"
      BY <2>3 DEF Sound, UsedOnce
    <3>2. o \in Objects
      BY <2>3 DEF Sound
    <3> QED
      BY <1>2, <1>7, <3>1, <3>2
  <2> QED
    BY <2>2, <2>3 DEF Sound, UsedOnce
<1>5. \A h \in Objects : e.gpu[h].state = "open" <=> h = o
  BY <1>1, <1>2, <1>7 DEF Sound
<1>6. Sound(m, ls, gp, ck, o, e)
  BY <1>2, <1>3, <1>4, <1>5 DEF Sound
<1> QED
  BY <1>6 DEF m, e, x

\* The current list is submitted, with no object open.
LEMMA SubmitList ==
  ASSUME NEW l, NEW ls, NEW gp, NEW ck, NEW d, Sound(l, ls, gp, ck, NoObject, d), NEW n \in Nat
  PROVE  Sound(EmptyList, Append(ls, [l EXCEPT !.id = n]), gp, ck, NoObject, d)
<1> DEFINE m == [l EXCEPT !.id = n]
           ms == Append(ls, m)
<1>1. /\ m \in CommandLists /\ m.ops = l.ops /\ m.tracked = l.tracked
      /\ ls \in Seq(CommandLists) /\ l \in CommandLists
  BY DEF Sound, CommandLists
<1> HIDE DEF m
<1>2. /\ ms \in Seq(CommandLists) /\ Len(ms) = Len(ls) + 1 /\ Len(ls) \in Nat
      /\ DOMAIN ls = 1..Len(ls) /\ DOMAIN ms = 1..(Len(ls) + 1)
      /\ ms[Len(ls) + 1] = m /\ \A k \in 1..Len(ls) : ms[k] = ls[k]
  BY <1>1
<1> HIDE DEF ms
<1>3. EmptyList \in CommandLists /\ EmptyList.ops = <<>> /\ EmptyList.tracked = {} /\ DOMAIN EmptyList.ops = {}
  BY DEF EmptyList, CommandLists
<1>4. Tracks(EmptyList, ms, NoObject)
  <2>1. Refers(EmptyList) /\ \A i \in DOMAIN ms : Refers(ms[i])
    <3>1. Refers(EmptyList)
      BY <1>3 DEF Refers
    <3>2. Refers(m)
      BY <1>1 DEF Sound, Tracks, Refers
    <3>3. \A i \in DOMAIN ls : Refers(ls[i])
      BY DEF Sound, Tracks
    <3> QED
      BY <1>2, <3>1, <3>2, <3>3
  <2>2. Apart(EmptyList, ms)
    <3>1. Apart(l, ls)
      BY DEF Sound, Tracks
    <3>2. ASSUME NEW i \in DOMAIN ms, NEW j \in DOMAIN ms, i # j
          PROVE  ms[i].tracked \intersect ms[j].tracked = {}
      <4>1. CASE i = Len(ls) + 1
        BY <1>1, <1>2, <3>1, <3>2, <4>1 DEF Apart
      <4>2. CASE j = Len(ls) + 1
        BY <1>1, <1>2, <3>1, <3>2, <4>2 DEF Apart
      <4>3. CASE i # Len(ls) + 1 /\ j # Len(ls) + 1
        BY <1>1, <1>2, <3>1, <3>2, <4>3 DEF Apart
      <4> QED
        BY <4>1, <4>2, <4>3
    <3> QED
      BY <1>3, <3>2 DEF Apart
  <2> QED
    BY <2>1, <2>2 DEF Tracks
<1>5. UsedOnce(EmptyList, ms, gp, NoObject)
  <2>1. \A i \in DOMAIN ms, g \in Objects : Once(ms[i].ops, g, gp[g].state)
    <3>1. \A g \in Objects : Once(m.ops, g, gp[g].state)
      BY <1>1, NoObjectOutside DEF Sound, UsedOnce
    <3>2. \A i \in DOMAIN ls, g \in Objects : Once(ls[i].ops, g, gp[g].state)
      BY DEF Sound, UsedOnce
    <3> QED
      BY <1>2, <3>1, <3>2
  <2>2. \A g \in Objects : Once(EmptyList.ops, g, gp[g].state)
    BY <1>3 DEF Once, Unused
  <2>3. \A g \in Objects : gp[g].state = "open" => \E i \in DOMAIN ms : ~Unused(ms[i].ops, g)
    <3>1. \A g \in Objects : gp[g].state = "open" => \E i \in DOMAIN ls : ~Unused(ls[i].ops, g)
      BY DEF Sound, UsedOnce
    <3> QED
      BY <1>2, <3>1
  <2> QED
    BY <2>1, <2>2, <2>3 DEF UsedOnce
<1>6. Submitted(ms, EmptyList.ops, Start(ck, gp), d)
  <2>1. Submitted(ls, m.ops, Start(ck, gp), d)
    BY <1>1 DEF Sound
  <2> QED
    BY <1>1, <1>3, <2>1, SubmitKeeps DEF ms
<1>7. Sound(EmptyList, ms, gp, ck, NoObject, d)
  BY <1>2, <1>3, <1>4, <1>5, <1>6 DEF Sound
<1> QED
  BY <1>7 DEF ms, m

\* A list that is through is released.
LEMMA ReleaseList ==
  ASSUME NEW l, NEW ls, NEW gp, NEW ck, NEW o, NEW d, Sound(l, ls, gp, ck, o, d),
         ls # <<>>, Head(ls).ops = <<>>
  PROVE  Sound(l, Tail(ls), gp, ck, o, d)
<1> DEFINE ms == Tail(ls)
<1>1. /\ ls \in Seq(CommandLists) /\ ms \in Seq(CommandLists)
      /\ DOMAIN ls = 1..Len(ls) /\ DOMAIN ms = 1..(Len(ls) - 1) /\ Len(ls) \in Nat \ {0}
      /\ Head(ls) = ls[1] /\ \A k \in 1..(Len(ls) - 1) : ms[k] = ls[k + 1] /\ k + 1 \in DOMAIN ls
  <2>1. ls \in Seq(CommandLists)
    BY DEF Sound
  <2> QED
    BY <2>1
<1>2. Submitted(ms, l.ops, Start(ck, gp), d)
  BY <1>1, ReleaseKeeps DEF Sound
<1> HIDE DEF ms
<1>3. Tracks(l, ms, o)
  <2>1. \A i \in DOMAIN ms : Refers(ms[i])
    BY <1>1 DEF Sound, Tracks
  <2>2. Apart(l, ms)
    <3>1. Apart(l, ls)
      BY DEF Sound, Tracks
    <3>2. \A i, j \in DOMAIN ms : i # j => i + 1 # j + 1
      BY <1>1
    <3> QED
      BY <1>1, <3>1, <3>2 DEF Apart
  <2> QED
    BY <2>1, <2>2 DEF Sound, Tracks
<1>4. UsedOnce(l, ms, gp, o)
  <2>1. ASSUME NEW g \in Objects, gp[g].state = "open" PROVE \E i \in DOMAIN ms : ~Unused(ms[i].ops, g)
    <3>1. PICK i \in DOMAIN ls : ~Unused(ls[i].ops, g)
      BY <2>1 DEF Sound, UsedOnce
    <3>2. i # 1
      BY <1>1, <3>1 DEF Unused
    <3>3. i - 1 \in DOMAIN ms /\ ms[i - 1] = ls[i]
      BY <1>1, <3>2
    <3> QED
      BY <3>1, <3>3
  <2> QED
    BY <1>1, <2>1 DEF Sound, UsedOnce
<1>5. Sound(l, ms, gp, ck, o, d)
  BY <1>1, <1>2, <1>3, <1>4 DEF Sound
<1> QED
  BY <1>5 DEF ms

-----------------------------------------------------------------------------
(* What the device does *)

\* The first use of an object is over.
LEMMA OnceTail ==
  ASSUME NEW ops \in Seq(Ops), ops # <<>>, NEW g \in Objects, NEW state, NEW after, Once(ops, g, state),
         after = IF Head(ops)[2] # g THEN state ELSE IF Head(ops)[1] = "begin" THEN "open" ELSE "done"
  PROVE  /\ Once(Tail(ops), g, after)
         /\ after = "open" => ~Unused(Tail(ops), g) \/ (Head(ops)[2] # g /\ state = "open")
         /\ Head(ops)[2] # g => (Unused(Tail(ops), g) <=> Unused(ops, g))
<1> DEFINE pps == Tail(ops)
<1>1. /\ Len(ops) \in Nat \ {0} /\ DOMAIN ops = 1..Len(ops) /\ DOMAIN pps = 1..(Len(ops) - 1)
      /\ Head(ops) = ops[1] /\ \A k \in 1..(Len(ops) - 1) : pps[k] = ops[k + 1]
  OBVIOUS
<1> HIDE DEF pps
<1>2. Head(ops)[2] # g => (Unused(pps, g) <=> Unused(ops, g))
  <2>1. ASSUME Head(ops)[2] # g, Unused(pps, g), NEW i \in DOMAIN ops PROVE ops[i][2] # g
    <3>1. CASE i = 1
      BY <1>1, <2>1, <3>1
    <3>2. CASE i # 1
      <4>1. i - 1 \in DOMAIN pps /\ pps[i - 1] = ops[i]
        BY <1>1, <3>2
      <4> QED
        BY <2>1, <4>1 DEF Unused
    <3> QED
      BY <3>1, <3>2
  <2>2. ASSUME Unused(ops, g), NEW i \in DOMAIN pps PROVE pps[i][2] # g
    BY <1>1, <2>2 DEF Unused
  <2> QED
    BY <2>1, <2>2 DEF Unused
<1>3. ASSUME NEW k \in DOMAIN ops, Single(ops, g, k)
      PROVE  IF Head(ops)[2] = g THEN k = 1 /\ Unused(pps, g)
             ELSE k - 1 \in DOMAIN pps /\ Single(pps, g, k - 1) /\ pps[k - 1] = ops[k]
  <2>1. CASE Head(ops)[2] = g
    <3>1. k = 1
      BY <1>1, <1>3, <2>1 DEF Single
    <3>2. ASSUME NEW i \in DOMAIN pps PROVE pps[i][2] # g
      <4>1. i + 1 \in DOMAIN ops /\ i + 1 # 1 /\ pps[i] = ops[i + 1]
        BY <1>1
      <4> QED
        BY <1>3, <3>1, <4>1 DEF Single
    <3> QED
      BY <2>1, <3>1, <3>2 DEF Unused
  <2>2. CASE Head(ops)[2] # g
    <3>1. k # 1
      BY <1>1, <1>3, <2>2 DEF Single
    <3>2. k - 1 \in DOMAIN pps /\ pps[k - 1] = ops[k]
      BY <1>1, <3>1
    <3>3. ASSUME NEW i \in DOMAIN pps PROVE pps[i][2] = g <=> i = k - 1
      <4>1. i + 1 \in DOMAIN ops /\ (i + 1 = k <=> i = k - 1) /\ pps[i] = ops[i + 1]
        BY <1>1
      <4> QED
        BY <1>3, <4>1 DEF Single
    <3> QED
      BY <2>2, <3>2, <3>3 DEF Single
  <2> QED
    BY <2>1, <2>2
<1>4. ASSUME NEW j \in DOMAIN ops, NEW k \in DOMAIN ops, Pair(ops, g, j, k)
      PROVE  IF Head(ops)[2] = g
               THEN Head(ops)[1] = "begin" /\ k - 1 \in DOMAIN pps /\ Single(pps, g, k - 1) /\ pps[k - 1][1] = "end"
               ELSE j - 1 \in DOMAIN pps /\ k - 1 \in DOMAIN pps /\ Pair(pps, g, j - 1, k - 1)
  <2>0. k # 1 /\ k - 1 \in DOMAIN pps /\ pps[k - 1] = ops[k] /\ ops[k][1] = "end"
    BY <1>1, <1>4 DEF Pair
  <2>1. CASE Head(ops)[2] = g
    <3>1. j = 1
      BY <1>1, <1>4, <2>0, <2>1 DEF Pair
    <3>2. ASSUME NEW i \in DOMAIN pps PROVE pps[i][2] = g <=> i = k - 1
      <4>1. i + 1 \in DOMAIN ops /\ i + 1 # j /\ (i + 1 = k <=> i = k - 1) /\ pps[i] = ops[i + 1]
        BY <1>1, <3>1
      <4> QED
        BY <1>4, <4>1 DEF Pair
    <3>3. Head(ops)[1] = "begin"
      BY <1>1, <1>4, <3>1 DEF Pair
    <3> QED
      BY <2>0, <2>1, <3>2, <3>3 DEF Single
  <2>2. CASE Head(ops)[2] # g
    <3>1. j # 1
      BY <1>1, <1>4, <2>2 DEF Pair
    <3>2. j - 1 \in DOMAIN pps /\ pps[j - 1] = ops[j] /\ j - 1 < k - 1 /\ ops[j][1] = "begin"
      BY <1>1, <1>4, <3>1 DEF Pair
    <3>3. ASSUME NEW i \in DOMAIN pps PROVE pps[i][2] = g <=> i = j - 1 \/ i = k - 1
      <4>1. i + 1 \in DOMAIN ops /\ (i + 1 = k <=> i = k - 1) /\ (i + 1 = j <=> i = j - 1) /\ pps[i] = ops[i + 1]
        BY <1>1
      <4> QED
        BY <1>4, <4>1 DEF Pair
    <3> QED
      BY <2>0, <2>2, <3>2, <3>3 DEF Pair
  <2> QED
    BY <2>1, <2>2
<1>5. CASE Unused(ops, g)
  <2>1. Head(ops)[2] # g
    BY <1>1, <1>5 DEF Unused
  <2> QED
    BY <1>2, <1>5, <2>1 DEF Once, pps
<1>6. CASE state = "open" /\ \E k \in DOMAIN ops : Single(ops, g, k) /\ ops[k][1] = "end"
  <2>1. PICK k \in DOMAIN ops : Single(ops, g, k) /\ ops[k][1] = "end"
    BY <1>6
  <2>2. CASE Head(ops)[2] = g
    <3>1. Unused(pps, g) /\ Head(ops)[1] = "end"
      BY <1>1, <1>3, <2>1, <2>2
    <3> QED
      BY <2>2, <3>1 DEF Once, pps
  <2>3. CASE Head(ops)[2] # g
    <3>1. k - 1 \in DOMAIN pps /\ Single(pps, g, k - 1) /\ pps[k - 1][1] = "end"
      BY <1>3, <2>1, <2>3
    <3> QED
      BY <1>2, <1>6, <2>3, <3>1 DEF Once, pps
  <2> QED
    BY <2>2, <2>3
<1>7. CASE state = "reset" /\ \E k \in DOMAIN ops : Single(ops, g, k) /\ ops[k][1] \in {"stamp", "set"}
  <2>1. PICK k \in DOMAIN ops : Single(ops, g, k) /\ ops[k][1] \in {"stamp", "set"}
    BY <1>7
  <2>2. CASE Head(ops)[2] = g
    <3>1. Unused(pps, g) /\ Head(ops)[1] \in {"stamp", "set"}
      BY <1>1, <1>3, <2>1, <2>2
    <3> QED
      BY <2>2, <3>1 DEF Once, pps
  <2>3. CASE Head(ops)[2] # g
    <3>1. k - 1 \in DOMAIN pps /\ Single(pps, g, k - 1) /\ pps[k - 1][1] \in {"stamp", "set"}
      BY <1>3, <2>1, <2>3
    <3> QED
      BY <1>2, <1>7, <2>3, <3>1 DEF Once, pps
  <2> QED
    BY <2>2, <2>3
<1>8. CASE state = "reset" /\ \E j, k \in DOMAIN ops : Pair(ops, g, j, k)
  <2>1. PICK j \in DOMAIN ops, k \in DOMAIN ops : Pair(ops, g, j, k)
    BY <1>8
  <2>2. CASE Head(ops)[2] = g
    <3>1. Head(ops)[1] = "begin" /\ k - 1 \in DOMAIN pps /\ Single(pps, g, k - 1) /\ pps[k - 1][1] = "end"
      BY <1>4, <2>1, <2>2
    <3>2. ~Unused(pps, g)
      BY <3>1 DEF Single, Unused
    <3> QED
      BY <2>2, <3>1, <3>2 DEF Once, pps
  <2>3. CASE Head(ops)[2] # g
    <3>1. j - 1 \in DOMAIN pps /\ k - 1 \in DOMAIN pps /\ Pair(pps, g, j - 1, k - 1)
      BY <1>4, <2>1, <2>3
    <3> QED
      BY <1>2, <1>8, <2>3, <3>1 DEF Once, pps
  <2> QED
    BY <2>2, <2>3
<1> QED
  BY <1>5, <1>6, <1>7, <1>8 DEF Once

\* The device executes an operation.
LEMMA ExecuteNext ==
  ASSUME NEW l, NEW ls, NEW gp, NEW ck, NEW o, NEW d, Sound(l, ls, gp, ck, o, d),
         NEW i \in DOMAIN ls, ls[i].ops # <<>>, \A j \in 1..(i - 1) : ls[j].ops = <<>>,
         NEW x, x = Head(ls[i].ops), NEW b, b = Executed(x, Start(ck, gp))
  PROVE  x \in Ops /\ b \in States /\ Sound(l, [ls EXCEPT ![i].ops = Tail(@)], b.gpu, b.clock, o, d)
<1> DEFINE s == Start(ck, gp)
           ms == [ls EXCEPT ![i].ops = Tail(@)]
<1>1. /\ ls \in Seq(CommandLists) /\ ls[i] \in CommandLists /\ ls[i].ops \in Seq(Ops) /\ l \in CommandLists
      /\ x \in Ops /\ s \in States /\ s.gpu = gp /\ s.clock = ck /\ s.notes = Blank
  <2>1. ls \in Seq(CommandLists) /\ ls[i] \in CommandLists /\ ls[i].ops \in Seq(Ops) /\ l \in CommandLists
    BY ListMembers DEF Sound
  <2> DEFINE xs == ls[i].ops
  <2> HIDE DEF xs
  <2>2. Head(xs) \in Ops
    BY <2>1 DEF xs
  <2> QED
    BY <2>1, <2>2, StartType DEF Sound, Start, xs
<1>2. b \in States /\ b = Start(b.clock, b.gpu)
  <2>1. b \in States /\ b.notes = Blank
    BY <1>1, ExecutedType DEF Executed
  <2> QED
    BY <2>1 DEF States, Start
<1>3. Submitted(ms, l.ops, Start(b.clock, b.gpu), d)
  <2>1. PICK c \in States : <<s, c>> \in OpRel(x) /\ Submitted(ms, l.ops, c, d)
    BY <1>1, ExecuteTakes DEF Sound
  <2>2. c = b
    BY <2>1 DEF OpRel
  <2> QED
    BY <1>2, <2>1, <2>2
<1>4. /\ ms \in Seq(CommandLists) /\ DOMAIN ms = DOMAIN ls
      /\ ms[i].ops = Tail(ls[i].ops) /\ ms[i].tracked = ls[i].tracked
      /\ \A k \in DOMAIN ls : k # i => ms[k] = ls[k]
  <2> DEFINE xs == ls[i].ops
             ys == Tail(xs)
             m == [ls[i] EXCEPT !.ops = ys]
  <2>1. ys \in Seq(Ops)
    <3> HIDE DEF xs
    <3>1. xs \in Seq(Ops) /\ xs # <<>>
      BY <1>1 DEF xs
    <3> QED
      BY <3>1
  <2>2. ms = [ls EXCEPT ![i] = m]
    OBVIOUS
  <2> HIDE DEF ys
  <2>3. m \in CommandLists /\ m.ops = ys /\ m.tracked = ls[i].tracked
    BY <1>1, <2>1 DEF CommandLists
  <2> HIDE DEF m, ms
  <2>5. /\ [ls EXCEPT ![i] = m] \in Seq(CommandLists) /\ Len([ls EXCEPT ![i] = m]) = Len(ls)
        /\ \A k \in 1..Len(ls) : [ls EXCEPT ![i] = m][k] = IF k = i THEN m ELSE ls[k]
    BY <1>1, <2>3, ExceptSeq
  <2>6. DOMAIN ls = 1..Len(ls) /\ DOMAIN ms = 1..Len(ms)
    BY <1>1, <2>2, <2>5
  <2> QED
    BY <2>2, <2>3, <2>5, <2>6 DEF ys
<1>5. \A h \in Objects : b.gpu[h].state = IF x[2] # h THEN gp[h].state ELSE IF x[1] = "begin" THEN "open" ELSE "done"
  <2> SUFFICES ASSUME NEW h \in Objects
               PROVE b.gpu[h].state = IF x[2] # h THEN gp[h].state ELSE IF x[1] = "begin" THEN "open" ELSE "done"
    OBVIOUS
  <2>1. s.gpu[h] \in Results /\ b = Executed(x, s)
    BY <1>1 DEF States
  <2> HIDE DEF s
  <2>2. b.gpu[h] = OpResult(x, h, s)
    BY <2>1 DEF Executed
  <2>3. [s.gpu[h] EXCEPT !.value = @ + 1].state = s.gpu[h].state
    BY <2>1 DEF Results
  <2>4. OpResult(x, h, s).state = IF x[2] # h THEN s.gpu[h].state ELSE IF x[1] = "begin" THEN "open" ELSE "done"
    BY <2>3 DEF OpResult
  <2> QED
    BY <1>1, <2>2, <2>4
<1> HIDE DEF ms, s
<1>6. Tracks(l, ms, o)
  <2>1. Refers(ms[i])
    <3>1. Refers(ls[i])
      BY DEF Sound, Tracks
    <3> DEFINE xs == ls[i].ops
               ys == Tail(xs)
    <3>2. \A k \in DOMAIN ys : k + 1 \in DOMAIN xs /\ ys[k] = xs[k + 1]
      BY <1>1
    <3> QED
      BY <1>4, <3>1, <3>2 DEF Refers
  <2>2. \A k \in DOMAIN ms : Refers(ms[k]) /\ ms[k].tracked = ls[k].tracked
    BY <1>4, <2>1 DEF Sound, Tracks
  <2> QED
    BY <1>4, <2>2 DEF Sound, Tracks, Apart
<1>7. x[2] \in Objects => /\ x[2] \in ls[i].tracked
                          /\ x[2] # o /\ Unused(l.ops, x[2])
                          /\ \A k \in DOMAIN ls : k # i => Unused(ls[k].ops, x[2])
  <2> SUFFICES ASSUME x[2] \in Objects
               PROVE  /\ x[2] \in ls[i].tracked
                      /\ x[2] # o /\ Unused(l.ops, x[2])
                      /\ \A k \in DOMAIN ls : k # i => Unused(ls[k].ops, x[2])
    OBVIOUS
  <2>1. x[2] \in ls[i].tracked
    <3>1. Refers(ls[i]) /\ 1 \in DOMAIN ls[i].ops /\ x = ls[i].ops[1]
      BY <1>1 DEF Sound, Tracks
    <3> QED
      BY <3>1, NoObjectOutside DEF Refers
  <2>2. x[2] \notin l.tracked /\ \A k \in DOMAIN ls : k # i => x[2] \notin ls[k].tracked
    BY <2>1 DEF Sound, Tracks, Apart
  <2>3. x[2] # o
    BY <2>2, NoObjectOutside DEF Sound, Tracks
  <2>4. Unused(l.ops, x[2])
    BY <1>1, <2>2, Untracked DEF Sound, Tracks
  <2>5. ASSUME NEW k \in DOMAIN ls, k # i PROVE Unused(ls[k].ops, x[2])
    <3>1. ls[k] \in CommandLists /\ Refers(ls[k])
      BY <1>1 DEF Sound, Tracks
    <3> QED
      BY <2>2, <2>5, <3>1, Untracked
  <2> QED
    BY <2>1, <2>3, <2>4, <2>5
<1>8. UsedOnce(l, ms, b.gpu, o)
  <2>0. ASSUME NEW g \in Objects
        PROVE  /\ Once(ms[i].ops, g, b.gpu[g].state)
               /\ b.gpu[g].state = "open" => ~Unused(ms[i].ops, g) \/ (x[2] # g /\ gp[g].state = "open")
               /\ x[2] # g => (Unused(ms[i].ops, g) <=> Unused(ls[i].ops, g))
    <3> DEFINE after == b.gpu[g].state
               xs == ls[i].ops
    <3>1. after = IF x[2] # g THEN gp[g].state ELSE IF x[1] = "begin" THEN "open" ELSE "done"
      BY <1>5
    <3>2. Once(xs, g, gp[g].state) /\ xs \in Seq(Ops) /\ xs # <<>> /\ x = Head(xs)
      BY <1>1 DEF Sound, UsedOnce
    <3> HIDE DEF after, xs
    <3>3. /\ Once(Tail(xs), g, after)
          /\ after = "open" => ~Unused(Tail(xs), g) \/ (Head(xs)[2] # g /\ gp[g].state = "open")
          /\ Head(xs)[2] # g => (Unused(Tail(xs), g) <=> Unused(xs, g))
      BY <3>1, <3>2, OnceTail
    <3> QED
      BY <1>4, <3>2, <3>3 DEF after, xs
  <2>1. ASSUME NEW k \in DOMAIN ms, NEW g \in Objects PROVE Once(ms[k].ops, g, b.gpu[g].state)
    <3>1. CASE k = i
      BY <2>0, <3>1
    <3>2. CASE k # i /\ g = x[2]
      BY <1>4, <1>7, <3>2 DEF Once
    <3>3. CASE k # i /\ g # x[2]
      BY <1>4, <1>5, <3>3 DEF Sound, UsedOnce
    <3> QED
      BY <3>1, <3>2, <3>3
  <2>2. ASSUME NEW g \in Objects, g # o PROVE Once(l.ops, g, b.gpu[g].state)
    <3>2. CASE g = x[2]
      BY <1>7, <3>2 DEF Once
    <3>3. CASE g # x[2]
      BY <1>5, <2>2, <3>3 DEF Sound, UsedOnce
    <3> QED
      BY <3>2, <3>3
  <2>3. ASSUME o # NoObject
        PROVE  b.gpu[o].state = "reset" /\ \E j \in DOMAIN l.ops : Single(l.ops, o, j) /\ l.ops[j][1] = "begin"
    <3>1. o \in Objects /\ x[2] # o
      BY <1>7, <2>3 DEF Sound
    <3> QED
      BY <1>5, <2>3, <3>1 DEF Sound, UsedOnce
  <2>4. ASSUME NEW g \in Objects, b.gpu[g].state = "open" PROVE \E k \in DOMAIN ms : ~Unused(ms[k].ops, g)
    <3>1. CASE ~Unused(ms[i].ops, g)
      BY <1>4, <3>1
    <3>2. CASE Unused(ms[i].ops, g)
      <4>1. x[2] # g /\ gp[g].state = "open"
        BY <2>0, <2>4, <3>2
      <4>2. PICK k \in DOMAIN ls : ~Unused(ls[k].ops, g)
        BY <4>1 DEF Sound, UsedOnce
      <4>3. k # i
        BY <2>0, <3>2, <4>1, <4>2
      <4> QED
        BY <1>4, <4>2, <4>3
    <3> QED
      BY <3>1, <3>2
  <2> QED
    BY <2>1, <2>2, <2>3, <2>4 DEF UsedOnce
<1>9. b.gpu \in [Objects -> Results] /\ b.clock \in Nat
  BY <1>2 DEF States
<1>10. Sound(l, ms, b.gpu, b.clock, o, d)
  BY <1>3, <1>4, <1>6, <1>8, <1>9 DEF Sound
<1> QED
  BY <1>1, <1>2, <1>10 DEF ms

-----------------------------------------------------------------------------
(* The new object *)

\* The least free place of a pool, if there is one, is free.
LEMMA AllocFresh ==
  ASSUME NEW pool \in Pools, Free(pool) # {}
  PROVE  Alloc(pool) \in Objects /\ Alloc(pool) \notin Held
<1>1. Free(pool) \in SUBSET Nat
  BY DEF Free
<1>2. \E x \in Free(pool) : \A y \in Free(pool) : x <= y
  BY <1>1, NatMin
<1> DEFINE n == Min(Free(pool))
<1>3. n \in Free(pool)
  BY <1>2 DEF Min
<1> HIDE DEF n
<1>4. n \in 1..PoolSize /\ <<pool, n>> \notin Held
  BY <1>3 DEF Free
<1> QED
  BY <1>4 DEF Alloc, Objects, n

\* The clock does not go back.
LEMMA DeviceClock ==
  ASSUME NEW l, NEW ls, NEW gp, NEW ck, NEW o, NEW d, Sound(l, ls, gp, ck, o, d)
  PROVE  ck <= d.clock
<1> DEFINE D == {s \in States : ck <= s.clock}
           f == [s \in States |-> s]
           s0 == Start(ck, gp)
<1>1. /\ ls \in Seq(CommandLists) /\ l.ops \in Seq(Ops) /\ Submitted(ls, l.ops, s0, d) /\ ck \in Nat
  BY ListMembers DEF Sound
<1>2. s0 \in States /\ s0 \in D
  BY <1>1, StartType DEF Sound, Start
<1>3. f \in [States -> States]
  OBVIOUS
<1>4. \A x : Allows(OpRel(x), D, f)
  <2> SUFFICES ASSUME NEW x, NEW a \in States, NEW b \in States, a \in D, <<a, b>> \in OpRel(x)
               PROVE  b \in D
    BY DEF Allows
  <2>1. b.clock = IF x[1] = "draw" THEN a.clock + 1 ELSE a.clock
    BY DEF OpRel, Executed
  <2>2. a.clock \in Nat /\ ck <= a.clock
    BY DEF States
  <2> QED
    BY <1>1, <2>1, <2>2
<1> HIDE DEF D, f, s0
<1>6. d \in D
  BY <1>1, <1>2, <1>3, <1>4, SubmittedTransport
<1> QED
  BY <1>6 DEF D

-----------------------------------------------------------------------------
(* Counting *)

\* The results of the objects, on top of data, will be count.
Sums(data, objects, gp, count) ==
  \E T \in [0..Len(objects) -> Nat] :
    /\ T[0] = data /\ T[Len(objects)] = count
    /\ \A k \in 1..Len(objects) : T[k] = T[k - 1] + gp[objects[k]].value

\* T has the sums of the first values, on top of d,
AddsUp(T, d, values, n) ==
  /\ d \in Nat /\ n \in Nat /\ Len(values) = n
  /\ T \in [0..n -> Nat] /\ T[0] = d /\ \A k \in 1..n : T[k] = T[k - 1] + values[k]

\* the last of which is the total.
LEMMA TotalOf ==
  ASSUME NEW d, NEW values, NEW n, NEW T, AddsUp(T, d, values, n)
  PROVE  Total(d, values) = T[n]
<1>0. /\ d \in Nat /\ n \in Nat /\ Len(values) = n
      /\ T \in [0..n -> Nat] /\ T[0] = d /\ \A k \in 1..n : T[k] = T[k - 1] + values[k]
  BY DEF AddsUp
<1>. d \in Nat /\ n \in Nat /\ Len(values) = n
  BY <1>0
<1> DEFINE Is(f) == f = [k \in 0..n |-> IF k = 0 THEN d ELSE f[k - 1] + values[k]]
           total == CHOOSE f : Is(f)
<1>1. Is(T)
  <2>1. T = [k \in 0..n |-> T[k]]
    BY <1>0
  <2>2. \A k \in 0..n : T[k] = IF k = 0 THEN d ELSE T[k - 1] + values[k]
    BY <1>0
  <2> QED
    BY <2>1, <2>2
<1>2. Is(total)
  BY <1>1
<1>3. Total(d, values) = total[n]
  BY DEF Total
<1> HIDE DEF total
<1>4. \A k \in 0..n : total[k] = IF k = 0 THEN d ELSE total[k - 1] + values[k]
  BY <1>2
<1> DEFINE F == {k \in 0..n : total[k] # T[k]}
<1>5. 0 \notin F
  BY <1>0, <1>4
<1>6. ASSUME NEW k \in 1..n, k \in F PROVE k - 1 \in F
  <2>1. k - 1 \in 0..n /\ k \in 0..n /\ k # 0
    OBVIOUS
  <2>2. total[k] = total[k - 1] + values[k] /\ T[k] = T[k - 1] + values[k]
    BY <1>0, <1>4, <2>1
  <2> QED
    BY <1>6, <2>1, <2>2
<1> HIDE DEF F
<1>7. \A k \in 0..n : k \notin F
  BY <1>5, <1>6, FirstFailure
<1> QED
  BY <1>3, <1>7 DEF F

\* Nothing is added.
LEMMA TotalNone ==
  ASSUME NEW d \in Nat, NEW values, Len(values) = 0
  PROVE  Total(d, values) = d
<1> DEFINE T == [k \in 0..0 |-> d]
<1>1. T \in [0..0 -> Nat] /\ T[0] = d /\ \A k \in 1..0 : T[k] = T[k - 1] + values[k]
  OBVIOUS
<1>2. 0 \in Nat
  OBVIOUS
<1> HIDE DEF T
<1>4. AddsUp(T, d, values, 0)
  BY <1>1 DEF AddsUp
<1>3. Total(d, values) = T[0]
  BY <1>4, TotalOf
<1> QED
  BY <1>1, <1>3

\* There is always a count,
LEMMA SumsExist ==
  ASSUME NEW data \in Nat, NEW objects \in Seq(Objects), NEW gp \in [Objects -> Results]
  PROVE  \E c \in Nat : Sums(data, objects, gp, c)
<1> DEFINE n == Len(objects)
           Good(k) == \E T \in [0..k -> Nat] :
                        T[0] = data /\ \A i \in 1..k : T[i] = T[i - 1] + gp[objects[i]].value
           F == {k \in 0..n : ~Good(k)}
<1>1. n \in Nat /\ \A k \in 1..n : objects[k] \in Objects /\ gp[objects[k]].value \in Nat
  BY DEF Results
<1>2. 0 \notin F
  <2> DEFINE T == [k \in 0..0 |-> data]
  <2>1. T \in [0..0 -> Nat] /\ T[0] = data /\ \A i \in 1..0 : T[i] = T[i - 1] + gp[objects[i]].value
    OBVIOUS
  <2> HIDE DEF T
  <2>2. Good(0)
    BY <2>1
  <2> QED
    BY <2>2
<1>3. ASSUME NEW k \in 1..n, Good(k - 1) PROVE Good(k)
  <2>1. PICK T \in [0..(k - 1) -> Nat] :
          T[0] = data /\ \A i \in 1..(k - 1) : T[i] = T[i - 1] + gp[objects[i]].value
    BY <1>3
  <2> DEFINE v == gp[objects[k]].value
             U == [i \in 0..k |-> IF i = k THEN T[k - 1] + v ELSE T[i]]
  <2>2. v \in Nat /\ k \in Nat \ {0}
    BY <1>1
  <2>3. U \in [0..k -> Nat] /\ U[0] = data
    BY <2>1, <2>2
  <2>4. ASSUME NEW i \in 1..k PROVE U[i] = U[i - 1] + gp[objects[i]].value
    <3>1. CASE i = k
      BY <2>2, <3>1
    <3>2. CASE i # k
      <4>1. i \in 1..(k - 1) /\ U[i] = T[i] /\ U[i - 1] = T[i - 1]
        BY <2>2, <3>2
      <4> QED
        BY <2>1, <4>1
    <3> QED
      BY <3>1, <3>2
  <2> HIDE DEF U
  <2> QED
    BY <2>3, <2>4
<1> HIDE DEF Good
<1>4. ASSUME NEW k \in 1..n, k \in F PROVE k - 1 \in F
  BY <1>1, <1>3, <1>4
<1> HIDE DEF F, n
<1>5. \A k \in 0..n : k \notin F
  BY <1>1, <1>2, <1>4, FirstFailure
<1>8. Good(n)
  BY <1>1, <1>5 DEF F
<1>6. PICK T \in [0..n -> Nat] :
        T[0] = data /\ \A i \in 1..n : T[i] = T[i - 1] + gp[objects[i]].value
  BY <1>8 DEF Good
<1>7. Sums(data, objects, gp, T[n]) /\ T[n] \in Nat
  <2>1. T \in [0..Len(objects) -> Nat] /\ T[0] = data /\ T[Len(objects)] = T[n]
        /\ \A i \in 1..Len(objects) : T[i] = T[i - 1] + gp[objects[i]].value
    BY <1>6 DEF n
  <2>2. T[n] \in Nat
    BY <1>1, <1>6
  <2> HIDE DEF n
  <2> QED
    BY <2>1, <2>2, Zenon DEF Sums
<1> QED
  BY <1>7

\* which is the data if there are no objects, and at least that otherwise.
LEMMA SumsBounds ==
  ASSUME NEW data \in Nat, NEW objects \in Seq(Objects), NEW gp \in [Objects -> Results], NEW c, Sums(data, objects, gp, c)
  PROVE  c \in Nat /\ c >= data /\ (objects = <<>> => c = data)
<1> DEFINE n == Len(objects)
<1>1. PICK T \in [0..n -> Nat] :
        T[0] = data /\ T[n] = c /\ \A i \in 1..n : T[i] = T[i - 1] + gp[objects[i]].value
  BY DEF Sums
<1>2. n \in Nat /\ \A k \in 1..n : objects[k] \in Objects /\ gp[objects[k]].value \in Nat
  BY DEF Results
<1> DEFINE F == {k \in 0..n : T[k] < data}
<1>3. 0 \notin F
  BY <1>1
<1>4. ASSUME NEW k \in 1..n, k \in F PROVE k - 1 \in F
  <2>1. k - 1 \in 0..n /\ T[k - 1] \in Nat /\ T[k] = T[k - 1] + gp[objects[k]].value /\ T[k] < data
    BY <1>1, <1>2, <1>4
  <2> QED
    BY <1>2, <2>1
<1> HIDE DEF F, n
<1>5. n \notin F
  <2>1. \A k \in 0..n : k \notin F
    BY <1>2, <1>3, <1>4, FirstFailure
  <2> QED
    BY <1>2, <2>1
<1> QED
  <2>1. ~(T[n] < data) /\ T[n] = c /\ T[0] = data /\ T[n] \in Nat
    BY <1>1, <1>2, <1>5 DEF F
  <2>2. objects = <<>> => n = 0
    BY DEF n
  <2> QED
    BY <2>1, <2>2

\* An object is added,
LEMMA SumsAppend ==
  ASSUME NEW data \in Nat, NEW objects \in Seq(Objects), NEW gp \in [Objects -> Results], NEW c, Sums(data, objects, gp, c),
         NEW g \in Objects
  PROVE  Sums(data, Append(objects, g), gp, c + gp[g].value)
<1> DEFINE n == Len(objects)
           new == Append(objects, g)
           v == gp[g].value
<1>1. PICK T \in [0..n -> Nat] :
        T[0] = data /\ T[n] = c /\ \A i \in 1..n : T[i] = T[i - 1] + gp[objects[i]].value
  BY DEF Sums
<1>2. n \in Nat /\ v \in Nat /\ Len(new) = n + 1 /\ new[n + 1] = g /\ \A k \in 1..n : new[k] = objects[k]
  BY DEF Results
<1> HIDE DEF new, v
<1> DEFINE U == [i \in 0..(n + 1) |-> IF i = n + 1 THEN T[n] + v ELSE T[i]]
<1>3. U \in [0..(n + 1) -> Nat] /\ U[0] = data /\ U[n + 1] = c + v
  BY <1>1, <1>2
<1>4. ASSUME NEW i \in 1..(n + 1) PROVE U[i] = U[i - 1] + gp[new[i]].value
  <2>1. CASE i = n + 1
    BY <1>2, <2>1 DEF v
  <2>2. CASE i # n + 1
    <3>1. i \in 1..n /\ U[i] = T[i] /\ U[i - 1] = T[i - 1]
      BY <1>2, <2>2
    <3> QED
      BY <1>1, <1>2, <3>1
  <2> QED
    BY <2>1, <2>2
<1> HIDE DEF U
<1>5. Sums(data, new, gp, c + v)
  BY <1>2, <1>3, <1>4 DEF Sums
<1> QED
  BY <1>5 DEF new, v

\* the objects are as they were,
LEMMA SumsSame ==
  ASSUME NEW data \in Nat, NEW objects \in Seq(Objects), NEW gp, NEW hp, NEW c, Sums(data, objects, gp, c),
         \A i \in 1..Len(objects) : hp[objects[i]].value = gp[objects[i]].value
  PROVE  Sums(data, objects, hp, c)
BY DEF Sums

\* the last of them has counted,
LEMMA SumsLast ==
  ASSUME NEW data \in Nat, NEW objects \in Seq(Objects), NEW gp \in [Objects -> Results], NEW hp, NEW c,
         Sums(data, objects, gp, c),
         objects # <<>>, hp[objects[Len(objects)]].value = gp[objects[Len(objects)]].value + 1,
         \A i \in 1..(Len(objects) - 1) : hp[objects[i]].value = gp[objects[i]].value
  PROVE  Sums(data, objects, hp, c + 1)
<1> DEFINE n == Len(objects)
<1>1. PICK T \in [0..n -> Nat] :
        T[0] = data /\ T[n] = c /\ \A i \in 1..n : T[i] = T[i - 1] + gp[objects[i]].value
  BY DEF Sums
<1>2. n \in Nat \ {0} /\ \A k \in 1..n : gp[objects[k]].value \in Nat
  BY DEF Results
<1> DEFINE U == [i \in 0..n |-> IF i = n THEN T[n] + 1 ELSE T[i]]
<1>3. U \in [0..n -> Nat] /\ U[0] = data /\ U[n] = c + 1
  BY <1>1, <1>2
<1>4. ASSUME NEW i \in 1..n PROVE U[i] = U[i - 1] + hp[objects[i]].value
  <2>1. CASE i = n
    <3>1. U[i] = T[n] + 1 /\ U[i - 1] = T[n - 1] /\ T[n] = T[n - 1] + gp[objects[n]].value
      BY <1>1, <1>2, <2>1
    <3>4. n - 1 \in 0..n
      BY <1>2
    <3>2. T[n - 1] \in Nat
      BY <1>1, <3>4
    <3> QED
      BY <1>2, <2>1, <3>1, <3>2
  <2>2. CASE i # n
    <3>0. i \in 1..(n - 1) /\ i \in 0..n /\ i - 1 \in 0..n /\ i - 1 # n
      BY <1>2, <2>2
    <3>1. i \in 1..(n - 1) /\ U[i] = T[i] /\ U[i - 1] = T[i - 1]
      BY <2>2, <3>0
    <3> QED
      BY <1>1, <1>2, <3>1
  <2> QED
    BY <2>1, <2>2
<1> HIDE DEF U
<1> QED
  BY <1>2, <1>3, <1>4 DEF Sums

\* and the first of them are taken.
LEMMA SumsTake ==
  ASSUME NEW data \in Nat, NEW objects \in Seq(Objects), NEW gp \in [Objects -> Results], NEW c, Sums(data, objects, gp, c),
         NEW n \in 0..Len(objects), NEW taken, Len(taken) = n,
         \A i \in 1..n : taken[i] = gp[objects[i]].value
  PROVE  Total(data, taken) \in Nat /\ Sums(Total(data, taken), SubSeq(objects, n + 1, Len(objects)), gp, c)
<1> DEFINE m == Len(objects)
           rest == SubSeq(objects, n + 1, m)
<1>1. PICK T \in [0..m -> Nat] :
        T[0] = data /\ T[m] = c /\ \A i \in 1..m : T[i] = T[i - 1] + gp[objects[i]].value
  BY DEF Sums
<1>2. m \in Nat /\ n \in 0..m
  OBVIOUS
<1> DEFINE U == [i \in 0..n |-> T[i]]
<1>3. U \in [0..n -> Nat] /\ U[0] = data /\ \A i \in 1..n : U[i] = U[i - 1] + taken[i]
  BY <1>1, <1>2
<1>4. Total(data, taken) = U[n] /\ U[n] = T[n]
  <2>1. U[n] = T[n]
    BY <1>2
  <2>2. n \in Nat
    BY <1>2
  <2>3. AddsUp(U, data, taken, n)
    BY <1>3, <2>2 DEF AddsUp
  <2> HIDE DEF U, rest, m
  <2>5. PICK W : W = U
    OBVIOUS
  <2>6. AddsUp(W, data, taken, n)
    BY <2>3, <2>5
  <2>7. Total(data, taken) = W[n]
    BY <2>6, TotalOf
  <2> QED
    BY <2>1, <2>5, <2>7
<1>5. Len(rest) = m - n /\ \A i \in 1..(m - n) : rest[i] = objects[n + i]
  BY <1>2
<1> HIDE DEF rest, U
<1> DEFINE V == [i \in 0..(m - n) |-> T[n + i]]
<1>6. V \in [0..(m - n) -> Nat] /\ V[0] = T[n] /\ V[m - n] = c
  BY <1>1, <1>2
<1>7. ASSUME NEW i \in 1..(m - n) PROVE V[i] = V[i - 1] + gp[rest[i]].value
  <2>1. n + i \in 1..m /\ V[i] = T[n + i] /\ V[i - 1] = T[(n + i) - 1]
    BY <1>2
  <2> QED
    BY <1>1, <1>5, <2>1
<1> HIDE DEF V
<1>8. Sums(T[n], rest, gp, c)
  <2>1. /\ V \in [0..Len(rest) -> Nat] /\ V[0] = T[n] /\ V[Len(rest)] = c
        /\ \A i \in 1..Len(rest) : V[i] = V[i - 1] + gp[rest[i]].value
    BY <1>5, <1>6, <1>7
  <2> HIDE DEF m
  <2> QED
    BY <2>1, Zenon DEF Sums
<1> QED
  BY <1>2, <1>4, <1>8 DEF rest

-----------------------------------------------------------------------------
(* Taking results *)

VirtualQueries == [objects : Seq(Objects), data : Nat, ended : BOOLEAN]

\* The longest prefix of objects that are through.
LEMMA AvailableIs ==
  ASSUME NEW objects \in Seq(Objects)
  PROVE  /\ Available(objects) \in 0..Len(objects)
         /\ \A i \in 1..Available(objects) : gpu[objects[i]].state = "done"
         /\ \A n \in 0..Len(objects) : (\A i \in 1..n : gpu[objects[i]].state = "done") => n <= Available(objects)
<1> DEFINE prefixes == {n \in 0..Len(objects) : \A i \in 1..n : gpu[objects[i]].state = "done"}
           T == {Len(objects) - n : n \in prefixes}
<1>1. Len(objects) \in Nat /\ 0 \in prefixes /\ prefixes \in SUBSET Nat
  OBVIOUS
<1>2. T \in SUBSET Nat /\ T # {}
  BY <1>1
<1>3. PICK x \in T : \A y \in T : x <= y
  BY <1>2, NatMin
<1>4. PICK n \in prefixes : x = Len(objects) - n
  BY <1>3
<1>5. ASSUME NEW y \in prefixes PROVE n >= y
  <2>1. Len(objects) - n <= Len(objects) - y
    BY <1>3, <1>4
  <2> QED
    BY <1>1, <2>1
<1> HIDE DEF prefixes
<1> DEFINE a == CHOOSE z \in prefixes : \A y \in prefixes : z >= y
<1>6. a \in prefixes /\ \A y \in prefixes : a >= y
  BY <1>5
<1>7. Available(objects) = a
  BY DEF Available, Max, prefixes
<1> HIDE DEF a
<1>8. a \in 0..Len(objects) /\ \A i \in 1..a : gpu[objects[i]].state = "done"
  BY <1>6 DEF prefixes
<1>9. ASSUME NEW k \in 0..Len(objects), \A i \in 1..k : gpu[objects[i]].state = "done" PROVE k <= a
  <2>1. k \in prefixes
    BY <1>9 DEF prefixes
  <2> QED
    BY <1>1, <1>6, <1>8, <2>1
<1> QED
  BY <1>7, <1>8, <1>9

\* What is left, and what is added to the data.
LEMMA AccumulateIs ==
  ASSUME NEW q, NEW v \in VirtualQueries, gpu \in [Objects -> Results]
  PROVE  LET n == Available(v.objects)
             w == Accumulate(q, v)
         IN /\ w \in VirtualQueries /\ w.objects = SubSeq(v.objects, n + 1, Len(v.objects))
            /\ w.ended = v.ended
            /\ q \notin Timestamps => \A dg \in [Objects -> Results] : \A c :
                 Sums(v.data, v.objects, dg, c) /\ (\A i \in 1..n : dg[v.objects[i]].value = gpu[v.objects[i]].value)
                   => Sums(w.data, w.objects, dg, c)
            /\ q \in Timestamps => w.data = IF n > 0 THEN gpu[v.objects[n]].value ELSE v.data
<1> DEFINE n == Available(v.objects)
           w == Accumulate(q, v)
           rest == SubSeq(v.objects, n + 1, Len(v.objects))
           taken == [i \in 1..n |-> gpu[v.objects[i]].value]
           sum == IF q \in Timestamps /\ n > 0 THEN taken[n] ELSE Total(v.data, taken)
<1>1. v.objects \in Seq(Objects) /\ v.data \in Nat /\ v.ended \in BOOLEAN
  BY DEF VirtualQueries
<1>2. n \in 0..Len(v.objects) /\ n \in Nat
  BY <1>1, AvailableIs
<1>3. w = [v EXCEPT !.objects = rest, !.data = sum]
  BY DEF Accumulate
<1>4. rest \in Seq(Objects)
  BY <1>1, <1>2
<1>5. Len(taken) = n /\ \A i \in 1..n : taken[i] = gpu[v.objects[i]].value
  BY <1>2
<1> HIDE DEF taken, n
<1>6. Total(v.data, taken) \in Nat
  <2>1. PICK c \in Nat : Sums(v.data, v.objects, gpu, c)
    BY <1>1, SumsExist
  <2> QED
    BY <1>1, <1>2, <1>5, <2>1, SumsTake
<1>7. n > 0 => taken[n] = gpu[v.objects[n]].value /\ taken[n] \in Nat
  <2> SUFFICES ASSUME n > 0 PROVE taken[n] = gpu[v.objects[n]].value /\ taken[n] \in Nat
    OBVIOUS
  <2>1. n \in 1..n /\ n \in 1..Len(v.objects)
    BY <1>2
  <2>2. v.objects[n] \in Objects
    BY <1>1, <2>1
  <2> QED
    BY <1>5, <2>1, <2>2 DEF Results
<1>8. sum \in Nat
  BY <1>6, <1>7
<1>9. w \in VirtualQueries /\ w.objects = rest /\ w.data = sum /\ w.ended = v.ended
  <2> HIDE DEF rest, sum
  <2> QED
    BY <1>3, <1>4, <1>8 DEF VirtualQueries, rest, sum
<1>10. ASSUME q \notin Timestamps, NEW dg \in [Objects -> Results], NEW c,
              Sums(v.data, v.objects, dg, c), \A i \in 1..n : dg[v.objects[i]].value = gpu[v.objects[i]].value
       PROVE  Sums(w.data, w.objects, dg, c)
  <2>1. \A i \in 1..n : taken[i] = dg[v.objects[i]].value
    BY <1>5, <1>10
  <2>2. Sums(Total(v.data, taken), rest, dg, c)
    BY <1>1, <1>2, <1>5, <1>10, <2>1, SumsTake
  <2> QED
    BY <1>9, <1>10, <2>2
<1>11. q \in Timestamps => w.data = IF n > 0 THEN gpu[v.objects[n]].value ELSE v.data
  <2> SUFFICES ASSUME q \in Timestamps PROVE w.data = IF n > 0 THEN gpu[v.objects[n]].value ELSE v.data
    OBVIOUS
  <2>1. CASE n > 0
    BY <1>7, <1>9, <2>1
  <2>2. CASE ~(n > 0)
    <3>1. n = 0 /\ Len(taken) = 0
      BY <1>2, <1>5, <2>2
    <3>2. Total(v.data, taken) = v.data
      BY <1>1, <3>1, TotalNone
    <3> QED
      BY <1>9, <2>2, <3>2
  <2> QED
    BY <2>1, <2>2
<1> QED
  BY <1>9, <1>10, <1>11 DEF n, rest

-----------------------------------------------------------------------------
(* The invariant *)

\* writeTimestamp has yet to reset the query's object.
Stamps(q) == stamping # NoObject /\ NextCommand(context) = <<"end", q>>

\* What the application keeps of a query, when there were n draws.
AppQueries(n) ==
  [state : {"initial", "begun", "ended"}, expected : 0..n,
   stalls : SUBSET (0..(StallBits - 1)), stalling : BOOLEAN]

VariableTypes ==
  /\ calls \in 0..MaxCalls /\ draws \in 0..calls
  /\ app \in [Queries -> AppQueries(draws)]
  /\ query \in [Queries -> VirtualQueries]
  /\ resetCtr \in [Queries -> 0..calls]
  /\ active \in [queries : SUBSET Scoped, object : Objects \union {NoObject}]
  /\ inPass \in BOOLEAN /\ stamping \in Objects \union {NoObject}
  /\ active.object # NoObject <=> (inPass /\ active.queries # {})

Bounds ==
  /\ \A g \in Objects : gpu[g].value <= clock
  /\ \A i \in DOMAIN lists : lists[i].id \in 0..context.submission
  /\ completed \in 0..context.submission

\* Who refers to the object that is open, and to the one that is to be reset.
Holds ==
  /\ stamping # NoObject => HasCommand(context) /\ \E q \in Timestamps : NextCommand(context) = <<"end", q>>
  /\ \A q \in Queries : \A i \in DOMAIN query[q].objects :
       /\ query[q].objects[i] = stamping => Stamps(q)
       /\ query[q].objects[i] = active.object => q \in active.queries /\ i = Len(query[q].objects)
  /\ \A q \in Timestamps :
       /\ Len(query[q].objects) <= 1
       /\ Stamps(q) => query[q].objects = <<stamping>> /\ query[q].ended
  /\ active.object # NoObject => \A q \in active.queries :
       query[q].objects # <<>> /\ query[q].objects[Len(query[q].objects)] = active.object
  /\ Fresh(cmd, lists, stamping)

\* What is known of a query once the device has got to d.
Linked(q, d, n) ==
  /\ n.on <=> q \in active.queries
  /\ n.resets = resetCtr[q]
  /\ ~Stamps(q) =>
       /\ n.ended => query[q].ended
       /\ q \in Scoped => Sums(query[q].data, query[q].objects, d.gpu, n.count)
       /\ q \in Timestamps =>
            n.count = IF query[q].objects = <<>> THEN query[q].data ELSE d.gpu[query[q].objects[1]].value

\* What the application expects to be known in the end.
Agrees(q, n) ==
  /\ n.resets = 0
  /\ app[q].state = "begun" => n.on /\ n.count = draws - app[q].expected
  /\ app[q].state = "ended" => n.ended /\ ~n.on /\ (q \notin Events => n.count = app[q].expected)

Idle == [g \in Objects |-> Clear]
Known(ck, b) == [clock |-> ck, gpu |-> Idle, notes |-> b]

\* The device gets to d, the commands that are not executed yet lead on from there, and
\* all queries have then what the application expects.
Leading(d, b, t) ==
  /\ d \in States /\ b \in [Queries -> Notes] /\ t \in States
  /\ Sound(cmd, lists, gpu, clock, active.object, d)
  /\ \A q \in Queries : Linked(q, d, b[q])
  /\ Whole(context, Known(d.clock, b), t)
  /\ t.clock = draws
  /\ \A q \in Queries : Agrees(q, t.notes[q])

QueryInv ==
  /\ VariableTypes /\ Bounds /\ Holds
  /\ \E d, b, t : Leading(d, b, t)

-----------------------------------------------------------------------------
(* What the context keeps *)

\* The types of queries are apart.
LEMMA QueryTypes ==
  ASSUME QueryAssumption
  PROVE  /\ \A q \in Scoped : q \notin Timestamps /\ q \notin Events /\ q \in Queries
         /\ \A q \in Timestamps : q \notin Scoped /\ q \notin Events /\ q \in Queries
         /\ \A q \in Events : q \notin Scoped /\ q \notin Timestamps /\ q \in Queries
BY DEF QueryAssumption, Queries

\* It is a state.
LEMMA KnownType ==
  ASSUME NEW ck \in Nat, NEW b \in [Queries -> Notes]
  PROVE  Known(ck, b) \in States
BY DEF Known, States, Idle, Clear, Results

\* The next command stays the next.
SameNext(c, d) == HasCommand(c) => HasCommand(d) /\ NextCommand(d) = NextCommand(c)

\* It does when the chunk is dispatched,
LEMMA FlushChunkNext ==
  ASSUME NEW c, NEW n, Shape(c, n)
  PROVE  SameNext(c, FlushChunk(c))
<1> DEFINE d == FlushChunk(c)
<1>1. CASE c.chunk = <<>>
  BY <1>1 DEF FlushChunk, SameNext
<1>2. CASE c.chunk # <<>> /\ HasCommand(c)
  <2>1. d.stream = Append(c.stream, c.chunk)
    BY <1>2 DEF FlushChunk, Shape
  <2>2. c.stream \in Seq(Seq(Commands(n))) /\ c.stream # <<>> /\ c.chunk \in Seq(Commands(n))
    BY <1>2 DEF Shape, HasCommand
  <2>3. Append(c.stream, c.chunk) # <<>> /\ Head(Append(c.stream, c.chunk)) = Head(c.stream)
    <3> DEFINE X == Seq(Commands(n))
               st == c.stream
               ch == c.chunk
    <3>1. st \in Seq(X) /\ st # <<>> /\ ch \in X
      BY <2>2
    <3> HIDE DEF X, st, ch
    <3>2. Append(st, ch) \in Seq(X) /\ Len(Append(st, ch)) = Len(st) + 1 /\ Len(st) \in Nat \ {0}
      BY <3>1
    <3>3. Append(st, ch)[1] = st[1] /\ Append(st, ch) # <<>>
      BY <3>1, <3>2
    <3>4. Head(Append(st, ch)) = Append(st, ch)[1] /\ Head(st) = st[1]
      BY <3>1, <3>2, <3>3
    <3> QED
      BY <3>3, <3>4 DEF st, ch
  <2> QED
    BY <2>1, <2>3 DEF SameNext, HasCommand, NextCommand
<1> QED
  BY <1>1, <1>2 DEF SameNext

\* when a command is recorded,
LEMMA PushNext ==
  ASSUME NEW c, NEW n, Shape(c, n), NEW x
  PROVE  SameNext(c, Push(c, x))
BY DEF Push, Shape, SameNext, HasCommand, NextCommand

\* when the context flushes,
LEMMA ExecuteFlushNext ==
  ASSUME NEW c, NEW s, NEW t, Whole(c, s, t)
  PROVE  SameNext(c, ExecuteFlush(c))
<1> DEFINE n == c.submission + 1
           b == IF IsFull(c) THEN FlushChunk(c) ELSE c
           p == Push(b, <<"flush", n>>)
           f == FlushChunk(p)
           e == [f EXCEPT !.submission = n, !.flushSeq = f.seq, !.missed = None]
<1>0. Recorded(c, s, t, c.submission) /\ Shape(c, c.submission) /\ c.submission \in Nat /\ n \in Nat
  BY DEF Whole, Recorded, Shape
<1>1. CASE PendingChunks(c) = 0
  BY <1>0, <1>1 DEF ExecuteFlush, SameNext
<1>2. CASE PendingChunks(c) # 0
  <2>1. ExecuteFlush(c) = e
    BY <1>2 DEF ExecuteFlush
  <2>2. SameNext(c, b) /\ Recorded(b, s, t, c.submission)
    BY <1>0, FlushChunkNext, FlushChunkKeeps DEF SameNext
  <2> HIDE DEF b
  <2>3. Shape(b, c.submission) /\ b \in [chunk : {b.chunk}, stream : {b.stream}, seq : {b.seq}, flushSeq : Nat,
                 submission : Nat, missed : 0..4]
    BY <2>2 DEF Recorded, Shape
  <2>4. Recorded(b, s, t, n)
    BY <1>0, <2>2, <2>3, OthersKeep
  <2> HIDE DEF n
  <2>5. Recorded(p, s, t, n) /\ SameNext(b, p)
    <3>1. <<"flush", n>> \in Commands(n)
      BY <1>0, CommandForms
    <3>2. t \in States
      BY <2>2 DEF Recorded, Leads, ChunkRel
    <3>3. <<t, t>> \in CommandRel(<<"flush", n>>)
      BY <3>2, FlushNeutral
    <3> QED
      BY <1>0, <2>3, <2>4, <3>1, <3>3, PushAdds, PushNext
  <2> HIDE DEF p
  <2>6. SameNext(p, f) /\ Recorded(f, s, t, n)
    BY <1>0, <2>5, FlushChunkNext, FlushChunkKeeps DEF Recorded
  <2> HIDE DEF f
  <2>7. e.stream = f.stream
    BY <2>6 DEF Recorded, Shape
  <2>8. SameNext(f, e)
    BY <2>7 DEF SameNext, HasCommand, NextCommand
  <2> QED
    BY <2>1, <2>2, <2>5, <2>6, <2>8 DEF SameNext
<1> QED
  BY <1>1, <1>2

\* when it considers to,
LEMMA ConsiderFlushNext ==
  ASSUME NEW c, NEW s, NEW t, Whole(c, s, t), NEW type \in 0..4, NEW done
  PROVE  SameNext(c, ConsiderFlush(c, type, done))
<1>0. c.submission \in Nat /\ c.missed \in 0..4
  BY DEF Whole, Recorded, Shape
<1> DEFINE y == Min({type, c.missed})
           e == [c EXCEPT !.missed = y]
           noted == IF y = Synchronization THEN c ELSE e
<1>1. y \in 0..4
  <2> DEFINE m == IF type <= c.missed THEN type ELSE c.missed
  <2>1. m \in {type, c.missed} /\ \A j \in {type, c.missed} : m <= j
    BY <1>0
  <2>2. y \in {type, c.missed}
    BY <2>1 DEF Min
  <2> QED
    BY <1>0, <2>2
<1>3. ConsiderFlush(c, type, done) \in {c, noted, ExecuteFlush(noted)}
  BY DEF ConsiderFlush, y
<1> HIDE DEF y
<1>2. Whole(e, s, t) /\ SameNext(c, e)
  <2>1. e \in [chunk : {c.chunk}, stream : {c.stream}, seq : {c.seq}, flushSeq : Nat,
               submission : Nat, missed : 0..4] /\ e.submission = c.submission
    BY <1>1 DEF Whole, Recorded, Shape
  <2> HIDE DEF e
  <2>2. Whole(e, s, t)
    BY <1>0, <2>1, OthersKeep DEF Whole
  <2> QED
    BY <2>1, <2>2 DEF SameNext, HasCommand, NextCommand
<1> HIDE DEF e
<1>4. Whole(noted, s, t) /\ SameNext(c, noted)
  BY <1>2 DEF SameNext
<1> HIDE DEF noted
<1>5. SameNext(c, ExecuteFlush(noted))
  BY <1>4, ExecuteFlushNext DEF SameNext
<1> QED
  BY <1>3, <1>4, <1>5 DEF SameNext

\* and when a command is emitted.
LEMMA EmitNext ==
  ASSUME NEW c, NEW s, NEW t, Whole(c, s, t), NEW done, NEW x
  PROVE  SameNext(c, EmitCs(c, x, done))
<1> DEFINE f == FlushChunk(c)
           b == IF IsFull(c) THEN ConsiderFlush(f, Weak, done) ELSE c
<1>1. SameNext(c, b) /\ Shape(b, b.submission)
  <2>0. c.submission \in Nat /\ Shape(c, c.submission)
    BY DEF Whole, Recorded, Shape
  <2>1. Whole(f, s, t) /\ SameNext(c, f)
    BY <2>0, FlushChunkKeeps, FlushChunkNext DEF Whole
  <2> HIDE DEF f
  <2>2. SameNext(f, ConsiderFlush(f, 3, done)) /\ Whole(ConsiderFlush(f, 3, done), s, t)
    BY <2>1, ConsiderFlushNext, ConsiderFlushKeeps
  <2>3. Shape(ConsiderFlush(f, 3, done), ConsiderFlush(f, 3, done).submission)
    BY <2>2 DEF Whole, Recorded
  <2> QED
    BY <2>0, <2>1, <2>2, <2>3 DEF Weak, SameNext
<1>2. EmitCs(c, x, done) = Push(b, x)
  BY DEF EmitCs
<1> HIDE DEF b
<1>3. SameNext(b, Push(b, x))
  BY <1>1, PushNext
<1> QED
  BY <1>1, <1>2, <1>3 DEF SameNext

-----------------------------------------------------------------------------
(* What the commands that are not executed yet lead to *)

\* The state after a command.
Noticed(x, s) ==
  [clock |-> IF x[1] = "draw" THEN s.clock + 1 ELSE s.clock, gpu |-> s.gpu,
   notes |-> [q \in Queries |-> Noted(x, q, s.clock, s.notes[q])]]

\* It is one that the command leads to.
LEMMA NoticedType ==
  ASSUME NEW s \in States, NEW x, \A q \in Queries : Noted(x, q, s.clock, s.notes[q]) \in Notes
  PROVE  Noticed(x, s) \in States /\ <<s, Noticed(x, s)>> \in CommandRel(x)
<1>1. Noticed(x, s) \in States
  BY DEF Noticed, States
<1> QED
  BY <1>1 DEF CommandRel, Noticed

\* There is always one, but for an end that is not accounted for.
LEMMA NotedType ==
  ASSUME NEW a \in Notes, NEW k \in Nat, NEW q \in Queries, NEW x, x[1] = "end" /\ x[2] = q => a.resets > 0
  PROVE  Noted(x, q, k, a) \in Notes
<1>1. a.count \in Nat /\ a.resets \in Nat /\ a.on \in BOOLEAN /\ a.ended \in BOOLEAN
  BY DEF Notes
<1>2. CASE x[1] = "draw"
  BY <1>1, <1>2 DEF Noted, Notes
<1>3. CASE x[1] = "begin" /\ x[2] = q
  BY <1>1, <1>3 DEF Noted, Notes
<1>4. CASE x[1] = "end" /\ x[2] = q
  <2>1. a.resets - 1 \in Nat
    BY <1>1, <1>4
  <2> QED
    BY <1>1, <1>4, <2>1 DEF Noted, Notes
<1>5. CASE ~(x[1] = "draw") /\ ~(x[1] = "begin" /\ x[2] = q) /\ ~(x[1] = "end" /\ x[2] = q)
  BY <1>5 DEF Noted
<1> QED
  BY <1>2, <1>3, <1>4, <1>5

\* More ends are accounted for.
Raised(n) == [on |-> n.on, ended |-> n.ended, count |-> n.count, resets |-> n.resets + 1]
Raise(s, q) ==
  [clock |-> s.clock, gpu |-> s.gpu, notes |-> [s.notes EXCEPT ![q] = Raised(s.notes[q])]]

\* Its members.
LEMMA RaiseForm ==
  ASSUME NEW s \in States, NEW q \in Queries
  PROVE  /\ Raise(s, q) \in States /\ Raise(s, q).clock = s.clock /\ Raise(s, q).gpu = s.gpu
         /\ \A r \in Queries : Raise(s, q).notes[r] = IF r = q THEN Raised(s.notes[q]) ELSE s.notes[r]
<1> DEFINE n == Raised(s.notes[q])
<1>1. s.notes \in [Queries -> Notes] /\ s.clock \in Nat /\ s.gpu \in [Objects -> Results]
  BY DEF States
<1>2. n \in Notes
  BY <1>1 DEF Notes, Raised
<1> HIDE DEF n
<1>3. [s.notes EXCEPT ![q] = n] \in [Queries -> Notes]
  BY <1>1, <1>2
<1>4. \A r \in Queries : [s.notes EXCEPT ![q] = n][r] = IF r = q THEN n ELSE s.notes[r]
  BY <1>1
<1> QED
  BY <1>1, <1>3, <1>4 DEF States, Raise, n

\* Every command allows that,
LEMMA RaiseAllowed ==
  ASSUME NEW q \in Queries, NEW x
  PROVE  Allows(CommandRel(x), States, [s \in States |-> Raise(s, q)])
<1> DEFINE f == [s \in States |-> Raise(s, q)]
<1> SUFFICES ASSUME NEW a \in States, NEW b \in States, <<a, b>> \in CommandRel(x)
             PROVE  <<f[a], f[b]>> \in CommandRel(x)
  BY DEF Allows
<1>1. /\ b.gpu = a.gpu /\ b.clock = IF x[1] = "draw" THEN a.clock + 1 ELSE a.clock
      /\ b.notes = [r \in Queries |-> Noted(x, r, a.clock, a.notes[r])]
  BY DEF CommandRel
<1> DEFINE A == Raise(a, q)
           B == Raise(b, q)
<1>2. /\ A \in States /\ A.clock = a.clock /\ A.gpu = a.gpu
      /\ \A r \in Queries : A.notes[r] = IF r = q THEN Raised(a.notes[q]) ELSE a.notes[r]
  BY RaiseForm
<1>3. /\ B \in States /\ B.clock = b.clock /\ B.gpu = b.gpu
      /\ \A r \in Queries : B.notes[r] = IF r = q THEN Raised(b.notes[q]) ELSE b.notes[r]
  BY RaiseForm
<1> HIDE DEF A, B
<1>4. ASSUME NEW r \in Queries PROVE B.notes[r] = Noted(x, r, A.clock, A.notes[r])
  <2>1. b.notes[r] = Noted(x, r, a.clock, a.notes[r]) /\ b.notes[r] \in Notes /\ a.notes[r] \in Notes
    BY <1>1 DEF States
  <2>2. CASE r # q
    BY <1>2, <1>3, <2>1, <2>2
  <2>3. CASE r = q
    <3> DEFINE m == a.notes[r]
    <3>1. m.resets \in Nat
      BY <2>1 DEF Notes
    <3> HIDE DEF m
    <3>3. (m.resets - 1) + 1 = (m.resets + 1) - 1
      BY <3>1
    <3>2. Raised(Noted(x, r, a.clock, m)) = Noted(x, r, a.clock, Raised(m))
      BY <3>3 DEF Noted, Raised
    <3> QED
      BY <1>2, <1>3, <2>1, <2>3, <3>2 DEF m
  <2> QED
    BY <2>2, <2>3
<1>5. B.notes = [r \in Queries |-> Noted(x, r, A.clock, A.notes[r])]
  <2>1. B.notes \in [Queries -> Notes]
    BY <1>3 DEF States
  <2> QED
    BY <1>4, <2>1
<1>6. <<A, B>> \in CommandRel(x)
  BY <1>1, <1>2, <1>3, <1>5 DEF CommandRel
<1> QED
  BY <1>6 DEF A, B

\* and so does all that is pending.
LEMMA RaiseKeeps ==
  ASSUME NEW c, NEW s \in States, NEW t, Whole(c, s, t), NEW q \in Queries
  PROVE  t \in States /\ Whole(c, Raise(s, q), Raise(t, q))
<1> DEFINE f == [r \in States |-> Raise(r, q)]
<1>1. f \in [States -> States] /\ f[s] = Raise(s, q) /\ \A r \in States : f[r] = Raise(r, q)
  BY RaiseForm
<1>2. \A x : Allows(CommandRel(x), States, f)
  BY RaiseAllowed
<1> HIDE DEF f
<1>3. t \in States /\ Whole(c, f[s], f[t])
  BY <1>1, <1>2, ContextTransport
<1> QED
  BY <1>1, <1>3

\* A query that no end is to come for, and that is not counted in the end, is as it
\* will be.
LEMMA Settled ==
  ASSUME NEW c, NEW s \in States, NEW t, Whole(c, s, t), NEW q \in Queries,
         s.notes[q].resets = 0, ~t.notes[q].on
  PROVE  t.notes[q] = s.notes[q]
<1> DEFINE D == {r \in States : r.notes[q].resets = 0 /\ (r.notes[q].on \/ r.notes[q] = s.notes[q])}
           f == [r \in States |-> r]
<1>1. f \in [States -> States] /\ s \in D /\ f[s] = s
  OBVIOUS
<1>2. ASSUME NEW x PROVE Allows(CommandRel(x), D, f)
  <2> SUFFICES ASSUME NEW a \in States, NEW b \in States, a \in D, <<a, b>> \in CommandRel(x)
               PROVE  b \in D
    BY DEF Allows
  <2> DEFINE m == a.notes[q]
             n == b.notes[q]
  <2>1. n = Noted(x, q, a.clock, m) /\ n \in Notes /\ m \in Notes /\ m.resets = 0 /\ (m.on \/ m = s.notes[q])
    BY DEF CommandRel, States
  <2> HIDE DEF m, n
  <2>2. n.resets = 0 /\ (n.on \/ n = s.notes[q])
    <3>1. CASE x[1] = "draw"
      <4>1. n.on = m.on /\ n.resets = m.resets
        BY <2>1, <3>1 DEF Noted
      <4>2. ~m.on => n = [on |-> m.on, ended |-> m.ended, count |-> m.count, resets |-> m.resets]
        BY <2>1, <3>1 DEF Noted
      <4>3. ~m.on => n = m
        BY <2>1, <4>2 DEF Notes
      <4> QED
        BY <2>1, <4>1, <4>3
    <3>2. CASE x[1] = "begin" /\ x[2] = q
      BY <2>1, <3>2 DEF Noted
    <3>3. CASE x[1] = "end" /\ x[2] = q
      <4>1. n.resets = m.resets - 1
        BY <2>1, <3>3 DEF Noted
      <4>2. n.resets \in Nat
        BY <2>1 DEF Notes
      <4> QED
        BY <2>1, <4>1, <4>2
    <3>4. CASE ~(x[1] = "draw") /\ ~(x[1] = "begin" /\ x[2] = q) /\ ~(x[1] = "end" /\ x[2] = q)
      <4>1. n = m
        BY <2>1, <3>4 DEF Noted
      <4> QED
        BY <2>1, <4>1
    <3> QED
      BY <3>1, <3>2, <3>3, <3>4
  <2> QED
    BY <2>2 DEF n
<1> HIDE DEF D, f
<1>3. t \in D
  BY <1>1, <1>2, ContextTransport
<1> QED
  BY <1>3 DEF D

\* The clock does not go back.
LEMMA ContextClock ==
  ASSUME NEW c, NEW s \in States, NEW t, Whole(c, s, t)
  PROVE  s.clock <= t.clock
<1> DEFINE D == {r \in States : s.clock <= r.clock}
           f == [r \in States |-> r]
<1>0. s.clock \in Nat
  BY DEF States
<1>1. f \in [States -> States] /\ s \in D /\ f[s] = s
  BY <1>0
<1>2. ASSUME NEW x PROVE Allows(CommandRel(x), D, f)
  <2> SUFFICES ASSUME NEW a \in States, NEW b \in States, a \in D, <<a, b>> \in CommandRel(x)
               PROVE  b \in D
    BY DEF Allows
  <2>1. b.clock = IF x[1] = "draw" THEN a.clock + 1 ELSE a.clock
    BY DEF CommandRel
  <2>2. a.clock \in Nat /\ s.clock <= a.clock
    BY DEF States
  <2> QED
    BY <1>0, <2>1, <2>2
<1> HIDE DEF D, f
<1>3. t \in D
  BY <1>1, <1>2, ContextTransport
<1> QED
  BY <1>3 DEF D

-----------------------------------------------------------------------------
(* What the application does *)

\* A command is emitted.
LEMMA Emitted ==
  ASSUME NEW c, NEW s, NEW t, Whole(c, s, t), NEW done, NEW x, \A n \in Nat : x \in Commands(n),
         \A q \in Queries : x[1] = "end" /\ x[2] = q => t.notes[q].resets > 0
  PROVE  LET e == EmitCs(c, x, done)
         IN /\ Whole(e, s, Noticed(x, t)) /\ Noticed(x, t) \in States
            /\ e.submission >= c.submission /\ SameNext(c, e)
<1>1. t \in States
  BY DEF Whole, Recorded, Leads, ChunkRel
<1>2. Noticed(x, t) \in States /\ <<t, Noticed(x, t)>> \in CommandRel(x)
  <2>1. \A q \in Queries : t.notes[q] \in Notes /\ t.clock \in Nat
    BY <1>1 DEF States
  <2>2. \A q \in Queries : Noted(x, q, t.clock, t.notes[q]) \in Notes
    BY <2>1, NotedType
  <2> QED
    BY <1>1, <2>2, NoticedType
<1> QED
  BY <1>2, EmitAdds, EmitNext

\* What changes in the context only is kept.
Kept ==
  /\ UNCHANGED <<csVars, lists, deviceVars, completed>>
  /\ SameNext(context, context') /\ context'.submission >= context.submission
  /\ context.submission \in Nat /\ context'.submission \in Nat

\* Then the same query is to be stamped,
LEMMA StampsKept ==
  ASSUME Holds, Kept
  PROVE  \A q \in Queries : Stamps(q)' <=> Stamps(q)
BY DEF Holds, Kept, Stamps, SameNext, csVars

\* the same objects are referred to,
LEMMA HoldsKept ==
  ASSUME Holds, Kept, query' = query
  PROVE  Holds'
<1>1. \A q \in Queries : Stamps(q)' <=> Stamps(q)
  BY StampsKept
<1>2. \A q \in Timestamps : q \in Queries
  BY DEF Queries
<1>3. /\ cmd' = cmd /\ lists' = lists /\ stamping' = stamping /\ active' = active /\ query' = query
  BY DEF Kept, csVars
<1>4. stamping' # NoObject => HasCommand(context)' /\ \E q \in Timestamps : NextCommand(context)' = <<"end", q>>
  BY <1>3 DEF Holds, Kept, SameNext
<1> QED
  BY <1>1, <1>2, <1>3, <1>4 DEF Holds

\* and what is bounded stays so.
LEMMA BoundsKept ==
  ASSUME Bounds, Kept
  PROVE  Bounds'
<1>1. gpu' = gpu /\ clock' = clock /\ lists' = lists /\ completed' = completed
  BY DEF Kept, deviceVars
<1> QED
  BY <1>1 DEF Bounds, Kept

\* The rest of the invariant, when the application has emitted something.
LEMMA LeadingKept ==
  ASSUME NEW d, NEW b, NEW t, Leading(d, b, t), Holds, Kept, query' = query, resetCtr' = resetCtr,
         NEW u \in States, Whole(context', Known(d.clock, b), u), u.clock = draws',
         \A q \in Queries : Agrees(q, u.notes[q])'
  PROVE  Leading(d, b, u)'
<1>1. \A q \in Queries : Stamps(q)' <=> Stamps(q)
  BY StampsKept
<1>2. cmd' = cmd /\ lists' = lists /\ gpu' = gpu /\ clock' = clock /\ active' = active
  BY DEF Kept, csVars, deviceVars
<1>3. \A q \in Queries : Linked(q, d, b[q])'
  BY <1>1, <1>2 DEF Leading, Linked
<1> QED
  BY <1>2, <1>3 DEF Leading

\* Begin
LEMMA BeginKeeps ==
  ASSUME QueryAssumption, QueryInv, NEW q \in Queries, Begin(q)
  PROVE  QueryInv'
<1>1. /\ calls < MaxCalls /\ calls' = calls + 1 /\ q \in Scoped
      /\ app' = [app EXCEPT ![q].state = "begun", ![q].expected = draws]
      /\ context' = EmitCs(context, <<"begin", q>>, completed)
      /\ UNCHANGED <<draws, query, resetCtr, csVars, lists, deviceVars, completed>>
  BY DEF Begin, Call
<1>2. PICK d, b, t : Leading(d, b, t)
  BY DEF QueryInv
<1> DEFINE x == <<"begin", q>>
           u == Noticed(x, t)
<1>3. Whole(context, Known(d.clock, b), t) /\ t \in States /\ t.clock = draws /\ \A r \in Queries : Agrees(r, t.notes[r])
  BY <1>2 DEF Leading
<1>4. x[1] = "begin" /\ x[2] = q /\ \A n \in Nat : x \in Commands(n)
  BY <1>1, CommandForms
<1> HIDE DEF x
<1>5. /\ Whole(context', Known(d.clock, b), u) /\ u \in States
      /\ context'.submission >= context.submission /\ SameNext(context, context')
  BY <1>1, <1>3, <1>4, Emitted DEF x
<1>6. Kept
  BY <1>1, <1>3, <1>5 DEF Kept, Whole, Recorded, Shape
<1>7. u.clock = draws /\ \A r \in Queries : u.notes[r] = Noted(x, r, t.clock, t.notes[r])
  BY <1>3, <1>4 DEF Noticed
<1>8. /\ app \in [Queries -> AppQueries(draws)]
      /\ draws \in Nat /\ draws \in 0..calls /\ calls \in 0..MaxCalls /\ MaxCalls \in Nat
  BY DEF QueryInv, VariableTypes, QueryAssumption
<1> HIDE DEF u
<1>9. ASSUME NEW r \in Queries PROVE Agrees(r, u.notes[r])'
  <2>1. Agrees(r, t.notes[r])
    BY <1>3
  <2>2. CASE r # q
    <3>1. u.notes[r] = t.notes[r] /\ app'[r] = app[r] /\ draws' = draws
      BY <1>1, <1>4, <1>7, <1>8, <2>2 DEF Noted
    <3> QED
      BY <2>1, <3>1 DEF Agrees
  <2>3. CASE r = q
    <3>1. app'[q].state = "begun" /\ app'[q].expected = draws /\ draws' = draws
      BY <1>1, <1>8 DEF AppQueries
    <3>2. u.notes[q].on /\ u.notes[q].count = 0 /\ u.notes[q].resets = t.notes[q].resets
      <4>1. u.notes[q] = Noted(x, q, t.clock, t.notes[q])
        BY <1>7
      <4>2. u.notes[q] = [on |-> TRUE, ended |-> FALSE, count |-> 0, resets |-> t.notes[q].resets]
        BY <1>4, <4>1 DEF Noted
      <4> QED
        BY <4>2
    <3> QED
      BY <1>8, <2>1, <2>3, <3>1, <3>2 DEF Agrees
  <2> QED
    BY <2>2, <2>3
<1>10. Leading(d, b, u)'
  BY <1>1, <1>2, <1>5, <1>6, <1>7, <1>9, LeadingKept DEF QueryInv
<1>11. VariableTypes'
  <2>1. app' \in [Queries -> AppQueries(draws)]
    <3> DEFINE a == [app[q] EXCEPT !.state = "begun", !.expected = draws]
    <3>1. app' = [app EXCEPT ![q] = a]
      BY <1>1
    <3>2. a \in AppQueries(draws)
      <4>1. app[q] \in AppQueries(draws) /\ draws \in 0..draws
        BY <1>8
      <4> QED
        BY <4>1 DEF AppQueries
    <3> HIDE DEF a
    <3> QED
      BY <1>8, <3>1, <3>2
  <2>2. 0..calls \subseteq 0..calls' /\ draws' = draws /\ calls' \in 0..MaxCalls
    BY <1>1, <1>8
  <2>3. resetCtr' \in [Queries -> 0..calls']
    BY <1>1, <2>2 DEF QueryInv, VariableTypes
  <2> QED
    BY <1>1, <1>8, <2>1, <2>2, <2>3 DEF QueryInv, VariableTypes, csVars
<1>12. Holds' /\ Bounds'
  BY <1>1, <1>6, HoldsKept, BoundsKept DEF QueryInv
<1> QED
  BY <1>10, <1>11, <1>12 DEF QueryInv

\* Draw
LEMMA DrawKeeps ==
  ASSUME QueryAssumption, QueryInv, Draw
  PROVE  QueryInv'
<1>1. /\ calls < MaxCalls /\ calls' = calls + 1 /\ draws' = draws + 1
      /\ context' = EmitCs(context, <<"draw">>, completed)
      /\ UNCHANGED <<app, query, resetCtr, csVars, lists, deviceVars, completed>>
  BY DEF Draw, Call
<1>2. PICK d, b, t : Leading(d, b, t)
  BY DEF QueryInv
<1> DEFINE x == <<"draw">>
           u == Noticed(x, t)
<1>3. Whole(context, Known(d.clock, b), t) /\ t \in States /\ t.clock = draws /\ \A r \in Queries : Agrees(r, t.notes[r])
  BY <1>2 DEF Leading
<1>4. x[1] = "draw" /\ \A n \in Nat : x \in Commands(n)
  BY <1>1, CommandForms
<1> HIDE DEF x
<1>5. /\ Whole(context', Known(d.clock, b), u) /\ u \in States
      /\ context'.submission >= context.submission /\ SameNext(context, context')
  BY <1>1, <1>3, <1>4, Emitted DEF x
<1>6. Kept
  BY <1>1, <1>3, <1>5 DEF Kept, Whole, Recorded, Shape
<1>7. u.clock = draws' /\ \A r \in Queries : u.notes[r] = Noted(x, r, t.clock, t.notes[r])
  BY <1>1, <1>3, <1>4 DEF Noticed
<1>8. /\ app \in [Queries -> AppQueries(draws)]
      /\ draws \in Nat /\ draws \in 0..calls /\ calls \in 0..MaxCalls /\ MaxCalls \in Nat
  BY DEF QueryInv, VariableTypes, QueryAssumption
<1> HIDE DEF u
<1>9. ASSUME NEW r \in Queries PROVE Agrees(r, u.notes[r])'
  <2>1. Agrees(r, t.notes[r]) /\ t.notes[r] \in Notes /\ app[r].expected \in 0..draws
    BY <1>3, <1>8 DEF States, AppQueries
  <2>2. u.notes[r].on = t.notes[r].on /\ u.notes[r].ended = t.notes[r].ended /\ u.notes[r].resets = t.notes[r].resets
        /\ u.notes[r].count = IF t.notes[r].on THEN t.notes[r].count + 1 ELSE t.notes[r].count
    <3>1. u.notes[r] = Noted(x, r, t.clock, t.notes[r])
      BY <1>7
    <3>2. u.notes[r] = [on |-> t.notes[r].on, ended |-> t.notes[r].ended,
                        count |-> IF t.notes[r].on THEN t.notes[r].count + 1 ELSE t.notes[r].count,
                        resets |-> t.notes[r].resets]
      BY <1>4, <3>1 DEF Noted
    <3> QED
      BY <3>2
  <2>3. app'[r] = app[r] /\ draws' = draws + 1
    BY <1>1
  <2>4. ASSUME app[r].state = "begun" PROVE u.notes[r].on /\ u.notes[r].count = (draws + 1) - app[r].expected
    <3>1. t.notes[r].on /\ t.notes[r].count = draws - app[r].expected
      BY <2>1, <2>4 DEF Agrees
    <3> QED
      BY <1>8, <2>1, <2>2, <3>1
  <2>5. ASSUME app[r].state = "ended"
        PROVE  u.notes[r].ended /\ ~u.notes[r].on /\ (r \notin Events => u.notes[r].count = app[r].expected)
    BY <2>1, <2>2, <2>5 DEF Agrees
  <2> QED
    BY <2>1, <2>2, <2>3, <2>4, <2>5 DEF Agrees
<1>10. Leading(d, b, u)'
  BY <1>1, <1>2, <1>5, <1>6, <1>7, <1>9, LeadingKept DEF QueryInv
<1>11. VariableTypes'
  <2>1. 0..draws \subseteq 0..draws'
    BY <1>1, <1>8
  <2>4. app' \in [Queries -> AppQueries(draws')]
    BY <1>1, <1>8, <2>1 DEF AppQueries
  <2>2. 0..calls \subseteq 0..calls' /\ draws' \in 0..calls' /\ calls' \in 0..MaxCalls
    BY <1>1, <1>8
  <2>3. resetCtr' \in [Queries -> 0..calls']
    BY <1>1, <2>2 DEF QueryInv, VariableTypes
  <2> QED
    BY <1>1, <1>8, <2>4, <2>2, <2>3 DEF QueryInv, VariableTypes, csVars
<1>12. Holds' /\ Bounds'
  BY <1>1, <1>6, HoldsKept, BoundsKept DEF QueryInv
<1> QED
  BY <1>10, <1>11, <1>12 DEF QueryInv

\* What is left of the invariant when the application asks for a flush.
LEMMA FlushedKeeps ==
  ASSUME QueryAssumption, QueryInv, Call,
         UNCHANGED <<app, draws, query, resetCtr, csVars, lists, deviceVars, completed>>,
         SameNext(context, context'), context'.submission >= context.submission,
         \A d, b, t : Leading(d, b, t) => Whole(context', Known(d.clock, b), t)
  PROVE  QueryInv'
<1>1. calls < MaxCalls /\ calls' = calls + 1
  BY DEF Call
<1>2. PICK d, b, t : Leading(d, b, t)
  BY DEF QueryInv
<1>3. Whole(context, Known(d.clock, b), t) /\ t \in States /\ t.clock = draws /\ \A r \in Queries : Agrees(r, t.notes[r])
  BY <1>2 DEF Leading
<1>5. Whole(context', Known(d.clock, b), t)
  BY <1>2
<1>6. Kept
  BY <1>3, <1>5 DEF Kept, Whole, Recorded, Shape
<1>8. draws \in 0..calls /\ calls \in 0..MaxCalls /\ MaxCalls \in Nat
  BY DEF QueryInv, VariableTypes, QueryAssumption
<1>9. \A r \in Queries : Agrees(r, t.notes[r])'
  BY <1>3 DEF Agrees
<1>10. Leading(d, b, t)'
  BY <1>2, <1>3, <1>5, <1>6, <1>9, LeadingKept DEF QueryInv
<1>11. VariableTypes'
  <2>2. 0..calls \subseteq 0..calls' /\ draws' \in 0..calls' /\ calls' \in 0..MaxCalls
    BY <1>1, <1>8
  <2>3. resetCtr' \in [Queries -> 0..calls']
    BY <1>1, <2>2 DEF QueryInv, VariableTypes
  <2> QED
    BY <1>1, <1>8, <2>2, <2>3 DEF QueryInv, VariableTypes, csVars
<1>12. Holds' /\ Bounds'
  BY <1>6, HoldsKept, BoundsKept DEF QueryInv
<1> QED
  BY <1>10, <1>11, <1>12 DEF QueryInv

\* Flush
LEMMA FlushKeeps ==
  ASSUME QueryAssumption, QueryInv, Flush
  PROVE  QueryInv'
<1>1. context' = ExecuteFlush(context) /\ Call
      /\ UNCHANGED <<app, draws, query, resetCtr, csVars, lists, deviceVars, completed>>
  BY DEF Flush
<1>2. PICK d, b, t : Leading(d, b, t)
  BY DEF QueryInv
<1>3. SameNext(context, context') /\ context'.submission >= context.submission
  BY <1>1, <1>2, ExecuteFlushKeeps, ExecuteFlushNext DEF Leading
<1>4. \A dd, bb, tt : Leading(dd, bb, tt) => Whole(context', Known(dd.clock, bb), tt)
  BY <1>1, ExecuteFlushKeeps DEF Leading
<1> QED
  BY <1>1, <1>3, <1>4, FlushedKeeps

\* NotifyRenderPassBoundary
LEMMA BoundaryKeeps ==
  ASSUME NEW c, NEW s, NEW t, Whole(c, s, t), NEW done
  PROVE  LET e == NotifyRenderPassBoundary(c, done)
         IN Whole(e, s, t) /\ e.submission >= c.submission /\ SameNext(c, e)
<1>1. c.submission \in Nat
  BY DEF Whole, Recorded, Shape
<1>2. NotifyRenderPassBoundary(c, done) \in {c, ConsiderFlush(c, 3, done), ExecuteFlush(c)}
  BY DEF NotifyRenderPassBoundary, Weak
<1>3. /\ Whole(ConsiderFlush(c, 3, done), s, t) /\ SameNext(c, ConsiderFlush(c, 3, done))
      /\ ConsiderFlush(c, 3, done).submission >= c.submission
  BY ConsiderFlushKeeps, ConsiderFlushNext
<1>4. /\ Whole(ExecuteFlush(c), s, t) /\ SameNext(c, ExecuteFlush(c))
      /\ ExecuteFlush(c).submission >= c.submission
  BY ExecuteFlushKeeps, ExecuteFlushNext
<1> QED
  BY <1>1, <1>2, <1>3, <1>4 DEF SameNext

\* SetRenderTargets
LEMMA TargetsKeeps ==
  ASSUME QueryAssumption, QueryInv, SetRenderTargets
  PROVE  QueryInv'
<1> DEFINE x == <<"targets">>
           e == EmitCs(context, x, completed)
<1>1. context' = NotifyRenderPassBoundary(e, completed) /\ Call
      /\ UNCHANGED <<app, draws, query, resetCtr, csVars, lists, deviceVars, completed>>
  BY DEF SetRenderTargets
<1>2. x[1] = "targets" /\ \A n \in Nat : x \in Commands(n)
  BY CommandForms
<1> HIDE DEF x
<1>3. ASSUME NEW d, NEW b, NEW t, Leading(d, b, t)
      PROVE  /\ Whole(context', Known(d.clock, b), t)
             /\ SameNext(context, context') /\ context'.submission >= context.submission
  <2>1. Whole(context, Known(d.clock, b), t) /\ t \in States
    BY <1>3 DEF Leading
  <2>2. /\ Whole(e, Known(d.clock, b), Noticed(x, t)) /\ Noticed(x, t) \in States
        /\ e.submission >= context.submission /\ SameNext(context, e)
    BY <1>2, <2>1, Emitted
  <2>3. Noticed(x, t) = t
    <3>1. \A q \in Queries : Noted(x, q, t.clock, t.notes[q]) = t.notes[q]
      BY <1>2 DEF Noted
    <3> QED
      BY <1>2, <2>1, <3>1 DEF Noticed, States
  <2> HIDE DEF e
  <2>4. /\ Whole(context', Known(d.clock, b), t) /\ context'.submission >= e.submission /\ SameNext(e, context')
    BY <1>1, <2>2, <2>3, BoundaryKeeps
  <2>5. context.submission \in Nat /\ e.submission \in Nat /\ context'.submission \in Nat
    BY <2>1, <2>2, <2>4 DEF Whole, Recorded, Shape
  <2> QED
    BY <2>2, <2>4, <2>5 DEF SameNext
<1>4. PICK d, b, t : Leading(d, b, t)
  BY DEF QueryInv
<1>5. SameNext(context, context') /\ context'.submission >= context.submission
  BY <1>3, <1>4
<1>6. \A dd, bb, tt : Leading(dd, bb, tt) => Whole(context', Known(dd.clock, bb), tt)
  BY <1>3
<1> QED
  BY <1>1, <1>5, <1>6, FlushedKeeps

-----------------------------------------------------------------------------
(* What is taken *)

\* An object that has its result will have it in the end.
LEMMA DoneKeeps ==
  ASSUME NEW l, NEW ls, NEW gp, NEW ck, NEW o, NEW d, Sound(l, ls, gp, ck, o, d),
         NEW g \in Objects, gp[g].state = "done"
  PROVE  g # o /\ d.gpu[g] = gp[g]
<1>1. g # o
  BY NoObjectOutside DEF Sound, UsedOnce
<1>2. Once(l.ops, g, "done") /\ \A i \in DOMAIN ls : Once(ls[i].ops, g, "done")
  BY <1>1 DEF Sound, UsedOnce
<1>3. Unused(l.ops, g) /\ \A i \in DOMAIN ls : Unused(ls[i].ops, g)
  BY <1>2 DEF Once
<1> QED
  BY <1>1, <1>3, DeviceKeeps

\* Whoever is to be stamped has an end to come.
LEMMA StampsEnds ==
  ASSUME NEW d, NEW b, NEW t, Leading(d, b, t), Holds, NEW q \in Queries, Stamps(q)
  PROVE  resetCtr[q] > 0 /\ q \in Timestamps
<1>1. HasCommand(context) /\ q \in Timestamps /\ NextCommand(context) = <<"end", q>>
  <2>1. HasCommand(context) /\ NextCommand(context) = <<"end", q>>
    BY DEF Holds, Stamps
  <2>2. PICK r \in Timestamps : NextCommand(context) = <<"end", r>>
    BY DEF Holds, Stamps
  <2> QED
    BY <2>1, <2>2
<1>2. Whole(context, Known(d.clock, b), t) /\ b[q] \in Notes /\ b[q].resets = resetCtr[q]
  BY DEF Leading, Linked
<1> DEFINE s == Known(d.clock, b)
           x == <<"end", q>>
<1>3. PICK u \in States : <<s, u>> \in CommandRel(x)
  BY <1>1, <1>2, DropTakes
<1>4. u.notes[q] = Noted(x, q, s.clock, s.notes[q]) /\ u.notes[q] \in Notes /\ s.notes[q] = b[q]
  BY <1>3 DEF CommandRel, Known, States
<1>5. u.notes[q].resets = b[q].resets - 1
  BY <1>4 DEF Noted
<1>6. u.notes[q].resets \in Nat /\ b[q].resets \in Nat
  BY <1>2, <1>4 DEF Notes
<1> QED
  BY <1>1, <1>2, <1>5, <1>6

\* Results of v are taken for w: what a query refers to then, and what its results will be.
Taken(q, v, w, o, d) ==
  /\ w \in VirtualQueries /\ w.ended = v.ended
  /\ \A i \in DOMAIN w.objects : \E j \in DOMAIN v.objects :
       w.objects[i] = v.objects[j] /\ (j = Len(v.objects) <=> i = Len(w.objects))
  /\ v.objects # <<>> /\ v.objects[Len(v.objects)] = o
       => w.objects # <<>> /\ w.objects[Len(w.objects)] = o
  /\ Len(w.objects) <= Len(v.objects)
  /\ q \notin Timestamps => \A c : Sums(v.data, v.objects, d.gpu, c) => Sums(w.data, w.objects, d.gpu, c)
  /\ q \in Timestamps /\ Len(v.objects) <= 1 =>
       IF w.objects = <<>>
         THEN w.data = IF v.objects = <<>> THEN v.data ELSE d.gpu[v.objects[1]].value
         ELSE w = v

\* Accumulate takes results.
LEMMA AccumulateKeeps ==
  ASSUME NEW l, NEW ls, NEW ck, NEW o, NEW d, Sound(l, ls, gpu, ck, o, d), NEW q \in Queries, NEW v \in VirtualQueries
  PROVE  Taken(q, v, Accumulate(q, v), o, d)
<1> DEFINE n == Available(v.objects)
           m == Len(v.objects)
           w == Accumulate(q, v)
<1>1. gpu \in [Objects -> Results] /\ d \in States /\ d.gpu \in [Objects -> Results]
  BY DEF Sound, States
<1>2. v.objects \in Seq(Objects) /\ m \in Nat /\ v.data \in Nat /\ v.ended \in BOOLEAN
  BY DEF VirtualQueries
<1>3. n \in 0..m /\ \A i \in 1..n : gpu[v.objects[i]].state = "done"
  BY <1>2, AvailableIs
<1>4. /\ w \in VirtualQueries /\ w.objects = SubSeq(v.objects, n + 1, m)
      /\ w.ended = v.ended
      /\ q \notin Timestamps => \A dg \in [Objects -> Results] : \A c :
           Sums(v.data, v.objects, dg, c) /\ (\A i \in 1..n : dg[v.objects[i]].value = gpu[v.objects[i]].value)
             => Sums(w.data, w.objects, dg, c)
      /\ q \in Timestamps => w.data = IF n > 0 THEN gpu[v.objects[n]].value ELSE v.data
  BY <1>1, AccumulateIs
<1> HIDE DEF n, w
<1>5. Len(w.objects) = m - n /\ \A i \in 1..(m - n) : w.objects[i] = v.objects[n + i]
  BY <1>2, <1>3, <1>4
<1>11. w.objects \in Seq(Objects) /\ DOMAIN w.objects = 1..(m - n) /\ DOMAIN v.objects = 1..m
  <2>1. w.objects \in Seq(Objects)
    BY <1>4 DEF VirtualQueries
  <2>2. DOMAIN w.objects = 1..Len(w.objects) /\ DOMAIN v.objects = 1..m
    BY <1>2, <2>1
  <2> QED
    BY <1>5, <2>1, <2>2
<1>12. n \in Nat /\ n <= m
  BY <1>2, <1>3
<1>13. m > 0 <=> v.objects # <<>>
  BY <1>2
<1>6. \A i \in 1..n : v.objects[i] \in Objects /\ v.objects[i] # o /\ d.gpu[v.objects[i]] = gpu[v.objects[i]]
  <2> SUFFICES ASSUME NEW i \in 1..n PROVE v.objects[i] \in Objects /\ v.objects[i] # o /\ d.gpu[v.objects[i]] = gpu[v.objects[i]]
    OBVIOUS
  <2>1. v.objects[i] \in Objects
    BY <1>2, <1>3
  <2> QED
    BY <1>3, <2>1, DoneKeeps
<1>7. ASSUME NEW i \in DOMAIN w.objects
      PROVE \E j \in DOMAIN v.objects : w.objects[i] = v.objects[j] /\ (j = Len(v.objects) <=> i = Len(w.objects))
  <2>2. i \in 1..(m - n) /\ m \in Nat /\ n \in Nat
    BY <1>2, <1>11, <1>12
  <2>3. n + i \in 1..m /\ (n + i = m <=> i = m - n)
    BY <2>2
  <2>1. n + i \in DOMAIN v.objects /\ w.objects[i] = v.objects[n + i] /\ (n + i = m <=> i = Len(w.objects))
    BY <1>5, <1>11, <2>2, <2>3
  <2> QED
    BY <2>1
<1>8. ASSUME v.objects # <<>>, v.objects[m] = o PROVE w.objects # <<>> /\ w.objects[Len(w.objects)] = o
  <2>1. m \in 1..m
    BY <1>2, <1>8
  <2>2. n # m
    BY <1>6, <1>8, <2>1
  <2>3. m - n \in 1..(m - n) /\ n + (m - n) = m
    BY <1>2, <1>3, <2>2
  <2>4. w.objects[m - n] = v.objects[m]
    BY <1>5, <2>3
  <2> QED
    BY <1>5, <1>8, <1>11, <2>3, <2>4
<1>9. ASSUME q \notin Timestamps, NEW c, Sums(v.data, v.objects, d.gpu, c) PROVE Sums(w.data, w.objects, d.gpu, c)
  BY <1>1, <1>4, <1>6, <1>9
<1>10. ASSUME q \in Timestamps, m <= 1
       PROVE  IF w.objects = <<>>
                THEN w.data = IF v.objects = <<>> THEN v.data ELSE d.gpu[v.objects[1]].value
                ELSE w = v
  <2>1. CASE n = 0
    <3>1. w.objects = v.objects
      BY <1>2, <1>5, <1>11, <2>1
    <3>2. w.data = v.data
      BY <1>4, <1>10, <2>1
    <3>3. w = v
      BY <1>4, <3>1, <3>2 DEF VirtualQueries
    <3> QED
      BY <3>1, <3>2, <3>3
  <2>2. CASE n # 0
    <3>1. n = 1 /\ m = 1
      <4> HIDE DEF m
      <4> QED
        BY <1>2, <1>12, <1>10, <2>2
    <3>2. w.objects = <<>>
      BY <1>5, <1>11, <3>1
    <3>3. w.data = gpu[v.objects[1]].value
      BY <1>4, <1>10, <3>1
    <3>4. d.gpu[v.objects[1]] = gpu[v.objects[1]]
      BY <1>6, <3>1
    <3>5. v.objects # <<>>
      BY <1>13, <3>1
    <3> QED
      BY <3>2, <3>3, <3>4, <3>5
  <2> QED
    BY <2>1, <2>2
<1>14. Len(w.objects) <= Len(v.objects)
  BY <1>2, <1>5, <1>12
<1>15. w \in VirtualQueries /\ w.ended = v.ended
  BY <1>4
<1> QED
  BY <1>7, <1>8, <1>9, <1>10, <1>14, <1>15 DEF w, Taken

\* GetData
LEMMA GetDataKeeps ==
  ASSUME QueryAssumption, QueryInv, NEW q \in Queries, NEW f \in BOOLEAN, GetData(q, f)
  PROVE  QueryInv'
<1> DEFINE stalls == IF f \/ q \in Scoped THEN app[q].stalls ELSE app[q].stalls \union {0}
           w == Accumulate(q, query[q])
<1>1. /\ query' = IF Resets(q) THEN query ELSE [query EXCEPT ![q] = w]
      /\ UNCHANGED <<calls, draws, resetCtr, csVars, lists, deviceVars, completed>>
      /\ \/ UNCHANGED <<context, app>>
         \/ /\ context' = ConsiderFlush(context, 1, completed)
            /\ app' = [app EXCEPT ![q].stalls = stalls,
                                  ![q].stalling = @ \/ Cardinality(stalls) >= StallLimit]
  BY DEF GetData, PollType, Synchronization
<1>2. PICK d, b, t : Leading(d, b, t)
  BY DEF QueryInv
<1>3. /\ Whole(context, Known(d.clock, b), t) /\ t \in States /\ t.clock = draws
      /\ \A r \in Queries : Agrees(r, t.notes[r]) /\ Linked(r, d, b[r])
      /\ Sound(cmd, lists, gpu, clock, active.object, d)
  BY <1>2 DEF Leading
<1>4. /\ Whole(context', Known(d.clock, b), t) /\ SameNext(context, context')
      /\ context'.submission >= context.submission
  <2>1. context.submission \in Nat
    BY <1>3 DEF Whole, Recorded, Shape
  <2>2. /\ Whole(ConsiderFlush(context, 1, completed), Known(d.clock, b), t)
        /\ SameNext(context, ConsiderFlush(context, 1, completed))
        /\ ConsiderFlush(context, 1, completed).submission >= context.submission
    BY <1>3, ConsiderFlushKeeps, ConsiderFlushNext
  <2> QED
    BY <1>1, <1>3, <2>1, <2>2 DEF SameNext
<1>5. Kept
  BY <1>1, <1>3, <1>4 DEF Kept, Whole, Recorded, Shape
<1>6. \A r \in Queries : app'[r].state = app[r].state /\ app'[r].expected = app[r].expected
  <2>0. app \in [Queries -> AppQueries(draws)] /\ app[q] \in AppQueries(draws)
    BY DEF QueryInv, VariableTypes
  <2>1. CASE app' = app
    BY <2>1
  <2>2. CASE app' = [app EXCEPT ![q].stalls = stalls,
                                  ![q].stalling = @ \/ Cardinality(stalls) >= StallLimit]
    <3> DEFINE z == Cardinality(stalls) >= StallLimit
               a == [app[q] EXCEPT !.stalls = stalls, !.stalling = @ \/ z]
    <3>1. app' = [app EXCEPT ![q] = a]
      BY <2>2
    <3> HIDE DEF stalls, z
    <3>2. a.state = app[q].state /\ a.expected = app[q].expected
      BY <2>0 DEF AppQueries
    <3> HIDE DEF a
    <3> QED
      BY <2>0, <3>1, <3>2
  <2> QED
    BY <1>1, <2>1, <2>2
<1>7. app' \in [Queries -> AppQueries(draws)]
  <2>0. app \in [Queries -> AppQueries(draws)] /\ app[q] \in AppQueries(draws)
    BY DEF QueryInv, VariableTypes
  <2>1. CASE app' = app
    BY <2>0, <2>1
  <2>2. CASE app' = [app EXCEPT ![q].stalls = stalls,
                                  ![q].stalling = @ \/ Cardinality(stalls) >= StallLimit]
    <3> DEFINE z == Cardinality(stalls) >= StallLimit
               y == app[q].stalling \/ z
               a == [app[q] EXCEPT !.stalls = stalls, !.stalling = y]
    <3>1. app' = [app EXCEPT ![q] = a]
      BY <2>2
    <3>3. stalls \in SUBSET (0..(StallBits - 1))
      BY <2>0 DEF AppQueries, QueryAssumption
    <3>4. y \in BOOLEAN
      <4>1. app[q].stalling \in BOOLEAN
        BY <2>0 DEF AppQueries
      <4>2. z \in BOOLEAN
        OBVIOUS
      <4> HIDE DEF z
      <4> QED
        BY <4>1, <4>2
    <3> HIDE DEF stalls, y
    <3>2. a \in AppQueries(draws)
      BY <2>0, <3>3, <3>4 DEF AppQueries
    <3> HIDE DEF a
    <3> QED
      BY <2>0, <3>1, <3>2
  <2> QED
    BY <1>1, <2>1, <2>2
<1>8. query \in [Queries -> VirtualQueries] /\ query[q] \in VirtualQueries
  BY DEF QueryInv, VariableTypes
<1>9. \A r \in Queries : Stamps(r)' <=> Stamps(r)
  BY <1>5, StampsKept DEF QueryInv
<1>10. /\ w \in VirtualQueries /\ w.ended = query[q].ended
       /\ \A i \in DOMAIN w.objects : \E j \in DOMAIN query[q].objects :
            w.objects[i] = query[q].objects[j] /\ (j = Len(query[q].objects) <=> i = Len(w.objects))
       /\ query[q].objects # <<>> /\ query[q].objects[Len(query[q].objects)] = active.object
            => w.objects # <<>> /\ w.objects[Len(w.objects)] = active.object
       /\ Len(w.objects) <= Len(query[q].objects)
       /\ q \notin Timestamps => \A c : Sums(query[q].data, query[q].objects, d.gpu, c) => Sums(w.data, w.objects, d.gpu, c)
       /\ q \in Timestamps /\ Len(query[q].objects) <= 1 =>
            IF w.objects = <<>>
              THEN w.data = IF query[q].objects = <<>> THEN query[q].data ELSE d.gpu[query[q].objects[1]].value
              ELSE w = query[q]
  <2>1. Taken(q, query[q], w, active.object, d)
    BY <1>3, <1>8, AccumulateKeeps
  <2> HIDE DEF w
  <2> QED
    BY <2>1 DEF Taken
<1> HIDE DEF stalls, w
<1>11. \/ query' = query
       \/ query' = [query EXCEPT ![q] = w] /\ ~Stamps(q)
  <2>1. Resets(q) <=> resetCtr[q] # 0
    BY DEF Resets
  <2>2. Stamps(q) => resetCtr[q] > 0
    BY <1>2, StampsEnds DEF QueryInv
  <2>3. resetCtr[q] \in Nat
    BY DEF QueryInv, VariableTypes
  <2> QED
    BY <1>1, <2>1, <2>2, <2>3
<1>12. VariableTypes'
  <2>1. query' \in [Queries -> VirtualQueries]
    BY <1>8, <1>10, <1>11
  <2> QED
    BY <1>1, <1>7, <2>1 DEF QueryInv, VariableTypes, csVars
<1>13. Bounds'
  BY <1>5, BoundsKept DEF QueryInv
<1>14. cmd' = cmd /\ lists' = lists /\ stamping' = stamping /\ active' = active /\ gpu' = gpu /\ clock' = clock
  BY <1>1 DEF csVars, deviceVars
<1>15. CASE query' = query
  <2>1. Holds'
    BY <1>5, <1>15, HoldsKept DEF QueryInv
  <2>2. \A r \in Queries : Agrees(r, t.notes[r])'
    BY <1>1, <1>3, <1>6 DEF Agrees
  <2>3. Leading(d, b, t)'
    BY <1>1, <1>2, <1>3, <1>4, <1>5, <1>15, <2>2, LeadingKept DEF QueryInv
  <2> QED
    BY <1>12, <1>13, <2>1, <2>3 DEF QueryInv
<1>16. CASE query' = [query EXCEPT ![q] = w] /\ ~Stamps(q)
  <2>0. Holds
    BY DEF QueryInv
  <2>1. query'[q] = w /\ \A r \in Queries : r # q => query'[r] = query[r]
    BY <1>8, <1>16
  <2>2. Holds'
    <3>1. stamping' # NoObject => HasCommand(context)' /\ \E r \in Timestamps : NextCommand(context)' = <<"end", r>>
      BY <1>5, <1>14, <2>0 DEF Holds, Kept, SameNext
    <3>2. ASSUME NEW r \in Queries, NEW i \in DOMAIN query'[r].objects
          PROVE  /\ query'[r].objects[i] = stamping' => Stamps(r)'
                 /\ query'[r].objects[i] = active'.object => r \in active'.queries /\ i = Len(query'[r].objects)
      <4>1. CASE r # q
        BY <1>9, <1>14, <2>0, <2>1, <3>2, <4>1 DEF Holds
      <4>2. CASE r = q
        <5>1. PICK j \in DOMAIN query[q].objects :
                w.objects[i] = query[q].objects[j] /\ (j = Len(query[q].objects) <=> i = Len(w.objects))
          BY <1>10, <2>1, <3>2, <4>2
        <5> QED
          BY <1>9, <1>14, <2>0, <2>1, <4>2, <5>1 DEF Holds
      <4> QED
        BY <4>1, <4>2
    <3>3. ASSUME NEW r \in Timestamps
          PROVE  /\ Len(query'[r].objects) <= 1
                 /\ Stamps(r)' => query'[r].objects = <<stamping'>> /\ query'[r].ended
      <4>0. r \in Queries
        BY DEF Queries
      <4>1. CASE r # q
        BY <1>9, <1>14, <2>0, <2>1, <4>0, <4>1 DEF Holds
      <4>2. CASE r = q
        <5>1. Len(query[q].objects) <= 1 /\ Len(w.objects) <= Len(query[q].objects)
          BY <1>10, <2>0, <4>2 DEF Holds
        <5>2. Len(w.objects) \in Nat /\ Len(query[q].objects) \in Nat
          BY <1>8, <1>10 DEF VirtualQueries
        <5> QED
          BY <1>9, <1>16, <2>1, <4>2, <5>1, <5>2
      <4> QED
        BY <4>1, <4>2
    <3>4. ASSUME active'.object # NoObject, NEW r \in active'.queries
          PROVE  query'[r].objects # <<>> /\ query'[r].objects[Len(query'[r].objects)] = active'.object
      <4>1. r \in Queries
        BY <1>14 DEF QueryInv, VariableTypes, Queries
      <4>2. query[r].objects # <<>> /\ query[r].objects[Len(query[r].objects)] = active.object
        BY <1>14, <2>0, <3>4 DEF Holds
      <4> QED
        BY <1>10, <1>14, <2>1, <4>1, <4>2
    <3>5. Fresh(cmd, lists, stamping)'
      BY <1>14, <2>0 DEF Holds
    <3> QED
      BY <3>1, <3>2, <3>3, <3>4, <3>5 DEF Holds
  <2>3. ASSUME NEW r \in Queries PROVE Linked(r, d, b[r])'
    <3>1. Linked(r, d, b[r])
      BY <1>3
    <3>2. CASE r # q
      BY <1>1, <1>9, <1>14, <2>1, <3>1, <3>2 DEF Linked
    <3>3. CASE r = q
      <4>1. b[q].ended => w.ended
        BY <1>10, <1>16, <3>1, <3>3 DEF Linked
      <4>2. q \in Scoped => Sums(w.data, w.objects, d.gpu, b[q].count)
        BY <1>10, <1>16, <3>1, <3>3, QueryTypes DEF Linked
      <4>3. ASSUME q \in Timestamps
            PROVE  b[q].count = IF w.objects = <<>> THEN w.data ELSE d.gpu[w.objects[1]].value
        BY <1>10, <1>16, <2>0, <3>1, <3>3, <4>3 DEF Linked, Holds
      <4> QED
        BY <1>1, <1>14, <2>1, <3>1, <3>3, <4>1, <4>2, <4>3 DEF Linked
    <3> QED
      BY <3>2, <3>3
  <2>4. \A r \in Queries : Agrees(r, t.notes[r])'
    BY <1>1, <1>3, <1>6 DEF Agrees
  <2>5. Leading(d, b, t)'
    BY <1>1, <1>2, <1>4, <1>14, <2>3, <2>4 DEF Leading
  <2> QED
    BY <1>12, <1>13, <2>2, <2>5 DEF QueryInv
<1> QED
  BY <1>11, <1>15, <1>16

\* What End tells the application's side of the query.
LEMMA EndNotesType ==
  ASSUME QueryAssumption, VariableTypes, NEW q \in Queries
  PROVE  /\ Expected(q) \in 0..draws
         /\ EndNotes(q) \in AppQueries(draws)
         /\ EndNotes(q).state = "ended" /\ EndNotes(q).expected = Expected(q)
<1>1. app[q] \in AppQueries(draws) /\ draws \in Nat /\ app[q].expected \in 0..draws /\ app[q].stalls \in SUBSET (0..(StallBits - 1))
      /\ app[q].stalling \in BOOLEAN
  BY DEF VariableTypes, AppQueries, QueryAssumption
<1>2. Expected(q) \in 0..draws
  <2>1. CASE q \in Scoped /\ app[q].state = "begun"
    <3>1. Expected(q) = draws - app[q].expected
      BY <2>1, QueryTypes DEF Expected
    <3> QED
      BY <1>1, <3>1
  <2>2. CASE q \in Timestamps
    <3>1. Expected(q) = draws
      BY <2>2, QueryTypes DEF Expected
    <3> QED
      BY <1>1, <3>1
  <2>3. CASE q \notin Timestamps /\ ~(q \in Scoped /\ app[q].state = "begun")
    <3>1. Expected(q) = 0
      BY <2>3 DEF Expected
    <3> QED
      BY <1>1, <3>1
  <2> QED
    BY <2>1, <2>2, <2>3
<1> DEFINE x == Expected(q)
           s == IF q \in Scoped THEN app[q].stalls ELSE Shift(app[q].stalls)
<1>3. EndNotes(q) = [app[q] EXCEPT !.state = "ended", !.expected = x, !.stalls = s]
  BY DEF EndNotes
<1>4. s \in SUBSET (0..(StallBits - 1))
  BY <1>1 DEF Shift
<1> HIDE DEF x, s
<1>5. EndNotes(q) = [state |-> "ended", expected |-> x, stalls |-> s, stalling |-> app[q].stalling]
  BY <1>1, <1>3 DEF AppQueries
<1>6. x \in 0..draws
  BY <1>2 DEF x
<1>7. EndNotes(q) \in AppQueries(draws)
  BY <1>1, <1>4, <1>5, <1>6 DEF AppQueries
<1> QED
  BY <1>5, <1>6, <1>7 DEF x

\* What End may do once it is emitted.
LEMMA EndFlushKeeps ==
  ASSUME NEW q, NEW c, NEW s, NEW t, Whole(c, s, t)
  PROVE  LET e == ConsiderEndFlush(q, c)
         IN Whole(e, s, t) /\ e.submission >= c.submission /\ SameNext(c, e)
<1>1. c.submission \in Nat
  BY DEF Whole, Recorded, Shape
<1>2. ConsiderEndFlush(q, c) \in {c, ConsiderFlush(c, 2, completed), ExecuteFlush(c)}
  BY DEF ConsiderEndFlush, Strong
<1>3. /\ Whole(ConsiderFlush(c, 2, completed), s, t) /\ SameNext(c, ConsiderFlush(c, 2, completed))
      /\ ConsiderFlush(c, 2, completed).submission >= c.submission
  BY ConsiderFlushKeeps, ConsiderFlushNext
<1>4. /\ Whole(ExecuteFlush(c), s, t) /\ SameNext(c, ExecuteFlush(c))
      /\ ExecuteFlush(c).submission >= c.submission
  BY ExecuteFlushKeeps, ExecuteFlushNext
<1> QED
  BY <1>1, <1>2, <1>3, <1>4 DEF SameNext

\* What is known of the query in the end.
LEMMA EndNoted ==
  ASSUME QueryAssumption, VariableTypes, NEW q \in Queries, NEW t \in States, t.clock = draws, Agrees(q, t.notes[q]),
         NEW t2 \in States, NEW t3 \in States,
         t2 = IF q \in Scoped /\ app[q].state # "begun" THEN Noticed(<<"begin", q>>, Raise(t, q)) ELSE Raise(t, q),
         t3 = Noticed(<<"end", q>>, t2)
  PROVE  /\ t2.notes[q].resets > 0 /\ t3.clock = draws
         /\ \A r \in Queries : r # q => t3.notes[r] = t.notes[r]
         /\ t3.notes[q].resets = 0 /\ t3.notes[q].ended /\ ~t3.notes[q].on
         /\ q \notin Events => t3.notes[q].count = Expected(q)
<1> DEFINE t1 == Raise(t, q)
           x == <<"begin", q>>
           y == <<"end", q>>
<1>1. t1.clock = draws /\ \A r \in Queries : t1.notes[r] = IF r = q THEN Raised(t.notes[q]) ELSE t.notes[r]
  BY RaiseForm
<1> HIDE DEF t1
<1>2. t.notes[q] \in Notes /\ t.notes[q].resets = 0 /\ draws \in Nat /\ app[q] \in AppQueries(draws)
  BY DEF States, Agrees, VariableTypes
<1>3. /\ t1.notes[q].resets = 1 /\ t1.notes[q].count = t.notes[q].count
  BY <1>1, <1>2 DEF Raised
<1>4. x[1] = "begin" /\ x[2] = q /\ y[1] = "end" /\ y[2] = q
  OBVIOUS
<1>0. t2 = IF q \in Scoped /\ app[q].state # "begun" THEN Noticed(x, t1) ELSE t1
  BY DEF t1
<1>00. t3 = Noticed(y, t2)
  OBVIOUS
<1> HIDE DEF x, y
<1>5. /\ t2.clock = draws /\ t2.notes[q].resets = 1
      /\ \A r \in Queries : r # q => t2.notes[r] = t.notes[r]
      /\ q \in Scoped => t2.notes[q].count = Expected(q)
  <2>1. CASE q \in Scoped /\ app[q].state # "begun"
    <3>1. t2 = Noticed(x, t1)
      BY <1>0, <2>1
    <3>2. t2.clock = draws /\ \A r \in Queries : t2.notes[r] = Noted(x, r, t1.clock, t1.notes[r])
      BY <1>1, <1>4, <3>1 DEF Noticed
    <3>3. t2.notes[q].resets = 1 /\ t2.notes[q].count = 0
      <4>1. t2.notes[q] = Noted(x, q, t1.clock, t1.notes[q])
        BY <3>2
      <4>2. t2.notes[q] = [on |-> TRUE, ended |-> FALSE, count |-> 0, resets |-> t1.notes[q].resets]
        BY <1>4, <4>1 DEF Noted
      <4> QED
        BY <1>3, <4>2
    <3>4. \A r \in Queries : r # q => t2.notes[r] = t.notes[r]
      BY <1>1, <1>4, <3>2 DEF Noted
    <3>5. Expected(q) = 0
      BY <2>1, QueryTypes DEF Expected
    <3> QED
      BY <3>2, <3>3, <3>4, <3>5
  <2>2. CASE ~(q \in Scoped /\ app[q].state # "begun")
    <3>1. t2 = t1
      BY <1>0, <2>2
    <3>2. ASSUME q \in Scoped PROVE t2.notes[q].count = Expected(q)
      <4>1. Expected(q) = draws - app[q].expected /\ app[q].state = "begun"
        BY <2>2, <3>2, QueryTypes DEF Expected
      <4> QED
        BY <1>3, <3>1, <4>1 DEF Agrees
    <3> QED
      BY <1>1, <1>3, <3>1, <3>2
  <2> QED
    BY <2>1, <2>2
<1>6. t3.clock = draws /\ \A r \in Queries : t3.notes[r] = Noted(y, r, draws, t2.notes[r])
  BY <1>00, <1>4, <1>5 DEF Noticed
<1>7. \A r \in Queries : r # q => t3.notes[r] = t.notes[r]
  BY <1>4, <1>5, <1>6 DEF Noted
<1>8. t3.notes[q] = [on |-> FALSE, ended |-> TRUE, count |-> IF q \in Timestamps THEN draws ELSE t2.notes[q].count,
                     resets |-> t2.notes[q].resets - 1]
  <2>1. t3.notes[q] = Noted(y, q, draws, t2.notes[q])
    BY <1>6
  <2> QED
    BY <1>4, <2>1 DEF Noted
<1>9. ASSUME q \notin Events PROVE t3.notes[q].count = Expected(q)
  <2>1. CASE q \in Scoped
    BY <1>5, <1>8, <2>1, QueryTypes
  <2>2. CASE q \in Timestamps
    BY <1>8, <2>2, QueryTypes DEF Expected
  <2> QED
    BY <1>9, <2>1, <2>2 DEF Queries
<1> QED
  BY <1>5, <1>6, <1>7, <1>8, <1>9

\* End
LEMMA EndKeeps ==
  ASSUME QueryAssumption, QueryInv, NEW q \in Queries, End(q)
  PROVE  QueryInv'
<1> DEFINE first == q \in Scoped /\ app[q].state # "begun"
           x == <<"begin", q>>
           y == <<"end", q>>
           c2 == IF first THEN EmitCs(context, x, completed) ELSE context
           c3 == EmitCs(c2, y, completed)
<1>1. /\ calls < MaxCalls /\ calls' = calls + 1
      /\ app' = [app EXCEPT ![q] = EndNotes(q)]
      /\ resetCtr' = [resetCtr EXCEPT ![q] = @ + 1]
      /\ context' = ConsiderEndFlush(q, c3)
      /\ UNCHANGED <<draws, query, csVars, lists, deviceVars, completed>>
  BY DEF End, Call
<1>2. PICK d, b, t : Leading(d, b, t)
  BY DEF QueryInv
<1> DEFINE t1 == Raise(t, q)
           t2 == IF first THEN Noticed(x, t1) ELSE t1
           t3 == Noticed(y, t2)
           bb == [b EXCEPT ![q] = Raised(b[q])]
           s1 == Known(d.clock, bb)
<1>3. /\ Whole(context, Known(d.clock, b), t) /\ t \in States /\ t.clock = draws /\ \A r \in Queries : Agrees(r, t.notes[r])
      /\ d \in States /\ b \in [Queries -> Notes] /\ d.clock \in Nat
  BY <1>2 DEF Leading, States
<1>4. /\ x[1] = "begin" /\ x[2] = q /\ y[1] = "end" /\ y[2] = q
      /\ q \in Scoped => \A n \in Nat : x \in Commands(n)
      /\ \A n \in Nat : y \in Commands(n)
  BY CommandForms
<1> HIDE DEF x, y
<1>5. Whole(context, s1, t1) /\ s1 \in States
  <2> DEFINE s == Known(d.clock, b)
  <2>1. s \in States
    BY <1>3, KnownType
  <2>2. s.clock = d.clock /\ s.gpu = Idle /\ s.notes = b
    BY DEF Known
  <2>3. s1 = Raise(s, q)
    BY <2>2 DEF Known, Raise
  <2> HIDE DEF s, s1
  <2>4. Whole(context, Raise(s, q), Raise(t, q)) /\ Raise(s, q) \in States
    BY <1>3, <2>1, RaiseKeeps, RaiseForm DEF s
  <2> QED
    BY <2>3, <2>4
<1>6. t1 \in States /\ t1.notes[q] = Raised(t.notes[q])
  BY <1>3, RaiseForm
<1> HIDE DEF t1, s1
<1>7. Whole(c2, s1, t2) /\ t2 \in States /\ c2.submission >= context.submission /\ SameNext(context, c2)
  <2>1. CASE first
    <3>1. \A r \in Queries : ~(x[1] = "end" /\ x[2] = r)
      BY <1>4
    <3>2. LET e == EmitCs(context, x, completed)
          IN /\ Whole(e, s1, Noticed(x, t1)) /\ Noticed(x, t1) \in States
             /\ e.submission >= context.submission /\ SameNext(context, e)
      BY <1>4, <1>5, <2>1, <3>1, Emitted
    <3> QED
      BY <2>1, <3>2
  <2>2. CASE ~first
    <3>1. context.submission \in Nat
      BY <1>3 DEF Whole, Recorded, Shape
    <3> QED
      BY <1>5, <1>6, <2>2, <3>1 DEF SameNext
  <2> QED
    BY <2>1, <2>2
<1>8. t2.notes[q].resets > 0
  <2>1. t.notes[q] \in Notes /\ t1.notes[q] \in Notes
    BY <1>3, <1>6 DEF States
  <2>2. t1.notes[q].resets > 0
    BY <1>6, <2>1 DEF Raised, Notes
  <2>3. first => t2.notes[q].resets = t1.notes[q].resets
    <3>1. first => t2.notes[q] = Noted(x, q, t1.clock, t1.notes[q])
      BY DEF Noticed
    <3> QED
      BY <1>4, <3>1 DEF Noted
  <2> QED
    BY <2>2, <2>3
<1> HIDE DEF t2, c2
<1>9. Whole(c3, s1, t3) /\ t3 \in States /\ c3.submission >= c2.submission /\ SameNext(c2, c3)
  BY <1>4, <1>7, <1>8, Emitted
<1> HIDE DEF c3, t3
<1>10. Whole(context', s1, t3) /\ context'.submission >= c3.submission /\ SameNext(c3, context')
  BY <1>1, <1>9, EndFlushKeeps
<1>11. Kept
  <2>1. /\ context.submission \in Nat /\ c2.submission \in Nat /\ c3.submission \in Nat /\ context'.submission \in Nat
    BY <1>3, <1>7, <1>9, <1>10 DEF Whole, Recorded, Shape
  <2> QED
    BY <1>1, <1>7, <1>9, <1>10, <2>1 DEF Kept, SameNext
<1>12. /\ app \in [Queries -> AppQueries(draws)] /\ resetCtr \in [Queries -> 0..calls]
       /\ draws \in Nat /\ draws \in 0..calls /\ calls \in 0..MaxCalls /\ MaxCalls \in Nat
  BY DEF QueryInv, VariableTypes, QueryAssumption
<1>13. /\ EndNotes(q) \in AppQueries(draws) /\ EndNotes(q).state = "ended" /\ EndNotes(q).expected = Expected(q)
  BY EndNotesType DEF QueryInv
<1>22. PICK u \in States : u = t3
  BY <1>9
<1>14. /\ u.clock = draws /\ Whole(context', s1, u)
       /\ \A r \in Queries : r # q => u.notes[r] = t.notes[r]
       /\ u.notes[q].resets = 0 /\ u.notes[q].ended /\ ~u.notes[q].on
       /\ q \notin Events => u.notes[q].count = Expected(q)
  <2>1. /\ t3.clock = draws
        /\ \A r \in Queries : r # q => t3.notes[r] = t.notes[r]
        /\ t3.notes[q].resets = 0 /\ t3.notes[q].ended /\ ~t3.notes[q].on
        /\ q \notin Events => t3.notes[q].count = Expected(q)
    BY <1>3, <1>7, <1>9, EndNoted DEF QueryInv, t3, t2, t1, x, y
  <2> QED
    BY <1>10, <1>22, <2>1
<1>15. ASSUME NEW r \in Queries PROVE Agrees(r, u.notes[r])'
  <2>1. CASE r # q
    <3>1. app'[r] = app[r] /\ draws' = draws
      BY <1>1, <1>12, <2>1
    <3> QED
      BY <1>3, <1>14, <2>1, <3>1 DEF Agrees
  <2>2. CASE r = q
    <3>1. app'[q] = EndNotes(q) /\ draws' = draws
      BY <1>1, <1>12
    <3> QED
      BY <1>13, <1>14, <2>2, <3>1 DEF Agrees
  <2> QED
    BY <2>1, <2>2
<1>16. /\ bb \in [Queries -> Notes]
       /\ bb[q] = Raised(b[q]) /\ \A r \in Queries : r # q => bb[r] = b[r]
  <2>1. Raised(b[q]) \in Notes
    <3>1. b[q] \in Notes
      BY <1>3
    <3> QED
      BY <3>1 DEF Notes, Raised
  <2> QED
    BY <1>3, <2>1
<1>20. s1 = Known(d.clock, bb)
  BY DEF s1
<1> HIDE DEF bb
<1>17. ASSUME NEW r \in Queries PROVE Linked(r, d, bb[r])'
  <2>1. Linked(r, d, b[r])
    BY <1>2 DEF Leading
  <2>2. Stamps(r)' <=> Stamps(r)
    BY <1>11, StampsKept DEF QueryInv
  <2>3. query' = query /\ active' = active
    BY <1>1 DEF csVars
  <2>4. CASE r # q
    BY <1>1, <1>12, <1>16, <2>1, <2>2, <2>3, <2>4 DEF Linked
  <2>5. CASE r = q
    <3>1. bb[q].on = b[q].on /\ bb[q].ended = b[q].ended /\ bb[q].count = b[q].count /\ bb[q].resets = b[q].resets + 1
      BY <1>16 DEF Raised
    <3>2. resetCtr'[q] = resetCtr[q] + 1
      BY <1>1, <1>12
    <3> QED
      BY <2>1, <2>2, <2>3, <2>5, <3>1, <3>2 DEF Linked
  <2> QED
    BY <2>4, <2>5
<1>18. Leading(d, bb, u)'
  <2>1. cmd' = cmd /\ lists' = lists /\ gpu' = gpu /\ clock' = clock /\ active' = active /\ draws' = draws
    BY <1>1 DEF csVars, deviceVars
  <2> QED
    BY <1>2, <1>3, <1>14, <1>22, <1>15, <1>16, <1>17, <1>20, <2>1 DEF Leading
<1>19. VariableTypes'
  <2>1. app' \in [Queries -> AppQueries(draws)]
    BY <1>1, <1>12, <1>13
  <2>2. 0..calls \subseteq 0..calls' /\ draws' = draws /\ draws \in 0..calls' /\ calls' \in 0..MaxCalls
    BY <1>1, <1>12
  <2>3. resetCtr' \in [Queries -> 0..calls']
    <3>1. resetCtr[q] + 1 \in 0..calls'
      BY <1>1, <1>12
    <3> QED
      BY <1>1, <1>12, <2>2, <3>1
  <2> QED
    BY <1>1, <2>1, <2>2, <2>3 DEF QueryInv, VariableTypes, csVars
<1>21. Holds' /\ Bounds'
  BY <1>1, <1>11, HoldsKept, BoundsKept DEF QueryInv
<1> QED
  BY <1>18, <1>19, <1>21 DEF QueryInv

-----------------------------------------------------------------------------
(* The CS thread *)

\* The next command is executed.
LEMMA Dropped ==
  ASSUME NEW d, NEW b, NEW t, Leading(d, b, t), HasCommand(context)
  PROVE  \E bb \in [Queries -> Notes] :
           /\ \A q \in Queries : bb[q] = Noted(NextCommand(context), q, d.clock, b[q])
           /\ DropCommand(context).submission = context.submission
           /\ Whole(DropCommand(context),
                    Known(IF NextCommand(context)[1] = "draw" THEN d.clock + 1 ELSE d.clock, bb), t)
<1> DEFINE x == NextCommand(context)
           s == Known(d.clock, b)
           c == DropCommand(context)
<1>1. Whole(context, s, t)
  BY DEF Leading
<1> HIDE DEF s
<1>2. PICK u \in States : <<s, u>> \in CommandRel(x) /\ Whole(c, u, t)
  BY <1>1, DropTakes
<1>3. s.clock = d.clock /\ s.gpu = Idle /\ s.notes = b
  BY DEF s, Known
<1> HIDE DEF x, c
<1>4. /\ u.gpu = Idle /\ u.clock = IF x[1] = "draw" THEN d.clock + 1 ELSE d.clock
      /\ u.notes = [q \in Queries |-> Noted(x, q, d.clock, b[q])]
  BY <1>2, <1>3 DEF CommandRel
<1>5. u = [clock |-> u.clock, gpu |-> u.gpu, notes |-> u.notes] /\ u.notes \in [Queries -> Notes]
  BY DEF States
<1>6. u = Known(u.clock, u.notes)
  BY <1>4, <1>5 DEF Known
<1>7. Whole(c, Known(IF x[1] = "draw" THEN d.clock + 1 ELSE d.clock, u.notes), t)
  BY <1>2, <1>4, <1>6
<1>8. \A q \in Queries : u.notes[q] = Noted(x, q, d.clock, b[q])
  BY <1>4
<1>9. c.submission = context.submission
  BY <1>1, DropTakes DEF c
<1> QED
  BY <1>5, <1>7, <1>8, <1>9 DEF x, c

\* The values that objects will have.
SameValues(d, e) == e.clock = d.clock /\ \A h \in Objects : e.gpu[h].value = d.gpu[h].value

\* The current list, once the open object ends,
Closed(l, o) == IF o = NoObject THEN l ELSE [l EXCEPT !.ops = @ \o <<<<"end", o>>>>]

\* its members,
LEMMA ClosedForm ==
  ASSUME NEW l \in CommandLists, NEW o \in Objects \union {NoObject}
  PROVE  /\ Closed(l, o) \in CommandLists /\ Closed(l, o).tracked = l.tracked /\ Closed(l, o).id = l.id
         /\ Closed(l, o).ops = l.ops \o (IF o = NoObject THEN <<>> ELSE <<<<"end", o>>>>)
<1>0. l.ops \in Seq(Ops)
  BY DEF CommandLists
<1>1. CASE o = NoObject
  <2>1. l.ops \o <<>> = l.ops
    BY <1>0
  <2> QED
    BY <1>1, <2>1 DEF Closed
<1>2. CASE o # NoObject
  <2> DEFINE x == <<"end", o>>
             ops == l.ops \o <<x>>
  <2>1. x \in Ops
    BY <1>2 DEF Ops
  <2>2. ops \in Seq(Ops)
    BY <1>0, <2>1
  <2>3. Closed(l, o) = [l EXCEPT !.ops = ops]
    BY <1>2 DEF Closed
  <2> HIDE DEF ops
  <2>4. Closed(l, o) \in CommandLists /\ Closed(l, o).tracked = l.tracked /\ Closed(l, o).id = l.id /\ Closed(l, o).ops = ops
    BY <2>2, <2>3 DEF CommandLists
  <2> QED
    BY <1>2, <2>4 DEF ops
<1> QED
  BY <1>1, <1>2

\* which the device gets to with the same values,
LEMMA CloseOpen ==
  ASSUME NEW l, NEW ls, NEW gp, NEW ck, NEW o, NEW d, Sound(l, ls, gp, ck, o, d)
  PROVE  \E e \in States : Sound(Closed(l, o), ls, gp, ck, NoObject, e) /\ SameValues(d, e)
<1>0. l \in CommandLists /\ l.ops \in Seq(Ops) /\ o \in Objects \union {NoObject} /\ d \in States
  BY DEF Sound, CommandLists
<1>1. CASE o = NoObject
  BY <1>0, <1>1 DEF Closed, SameValues
<1>2. CASE o # NoObject
  <2> DEFINE x == <<"end", o>>
             e == Executed(x, d)
             m == [l EXCEPT !.ops = @ \o <<x>>]
  <2>1. Sound(m, ls, gp, ck, NoObject, e)
    BY <1>2, EndOpen
  <2>2. Closed(l, o) = m
    BY <1>2 DEF Closed
  <2>3. SameValues(d, e)
    <3>1. x[1] = "end" /\ x[2] = o
      OBVIOUS
    <3> HIDE DEF x
    <3>2. e.clock = d.clock
      BY <3>1 DEF Executed
    <3>3. \A h \in Objects : e.gpu[h].value = d.gpu[h].value
      BY <3>1 DEF Executed, OpResult
    <3> QED
      BY <3>2, <3>3 DEF SameValues
  <2>5. e \in States
    BY <2>1 DEF Sound
  <2> HIDE DEF e, m
  <2> QED
    BY <2>1, <2>2, <2>3, <2>5
<1> QED
  BY <1>1, <1>2

\* and when another begins.
LEMMA Reopen ==
  ASSUME NEW l, NEW ls, NEW gp, NEW ck, NEW d, Sound(l, ls, gp, ck, NoObject, d),
         NEW g \in Objects, Fresh(l, ls, g)
  PROVE  \E e \in States :
           /\ Sound(With(l, <<"begin", g>>, g), ls, [gp EXCEPT ![g] = Clear], ck, g, e)
           /\ e.clock = d.clock
           /\ \A h \in Objects : e.gpu[h].value = IF h = g THEN 0 ELSE d.gpu[h].value
<1> DEFINE hp == [gp EXCEPT ![g] = Clear]
           c == Cleared(d, g)
           x == <<"begin", g>>
           e == Executed(x, c)
<1>1. Sound(l, ls, hp, ck, NoObject, c)
  BY ResetFresh
<1>2. hp[g].state = "reset"
  BY DEF Sound, Clear
<1>3. c \in States /\ c.clock = d.clock /\ \A h \in Objects : c.gpu[h] = IF h = g THEN Clear ELSE d.gpu[h]
  BY ClearedType DEF Sound
<1> HIDE DEF hp, c
<1>4. Sound(With(l, x, g), ls, hp, ck, g, e)
  BY <1>1, <1>2, BeginFresh
<1>5. e \in States
  BY <1>4 DEF Sound
<1>6. x[1] = "begin" /\ x[2] = g
  OBVIOUS
<1> HIDE DEF x
<1>7. e.clock = d.clock
  BY <1>3, <1>6 DEF Executed
<1>8. \A h \in Objects : e.gpu[h].value = IF h = g THEN 0 ELSE d.gpu[h].value
  BY <1>3, <1>6 DEF Executed, OpResult, Clear
<1> HIDE DEF e
<1> QED
  BY <1>4, <1>5, <1>7, <1>8 DEF hp, x

\* A draw counts for the object that is open.
Drawn(l) == [l EXCEPT !.ops = @ \o <<<<"draw", NoObject>>>>]

\* The device gets to one more there.
LEMMA DrawCounts ==
  ASSUME NEW l, NEW ls, NEW gp, NEW ck, NEW o, NEW d, Sound(l, ls, gp, ck, o, d)
  PROVE  \E e \in States :
           /\ Sound(Drawn(l), ls, gp, ck, o, e)
           /\ e.clock = d.clock + 1
           /\ \A h \in Objects : e.gpu[h].value = IF h = o THEN d.gpu[h].value + 1 ELSE d.gpu[h].value
<1> DEFINE x == <<"draw", NoObject>>
           e == Executed(x, d)
           m == [l EXCEPT !.ops = @ \o <<x>>]
<1>1. Sound(m, ls, gp, ck, o, e)
  BY DrawRecorded
<1>2. e \in States /\ d \in States
  BY <1>1 DEF Sound
<1>3. x[1] = "draw" /\ x[2] = NoObject
  OBVIOUS
<1> HIDE DEF x
<1>4. e.clock = d.clock + 1
  BY <1>3 DEF Executed
<1>5. ASSUME NEW h \in Objects
      PROVE e.gpu[h].value = IF h = o THEN d.gpu[h].value + 1 ELSE d.gpu[h].value
  <2>1. h # x[2] /\ d.gpu[h] \in Results
    BY <1>2, <1>3, NoObjectOutside DEF States
  <2>2. e.gpu[h] = IF d.gpu[h].state = "open" THEN [d.gpu[h] EXCEPT !.value = @ + 1] ELSE d.gpu[h]
    BY <1>3, <2>1 DEF Executed, OpResult
  <2>3. d.gpu[h].state = "open" <=> h = o
    BY DEF Sound
  <2> QED
    BY <2>1, <2>2, <2>3 DEF Results
<1> HIDE DEF e
<1> QED
  BY <1>1, <1>2, <1>4, <1>5 DEF x, Drawn

\* The members of the list,
LEMMA DrawnForm ==
  ASSUME NEW l \in CommandLists
  PROVE  /\ Drawn(l) \in CommandLists /\ Drawn(l).tracked = l.tracked /\ Drawn(l).id = l.id
         /\ Drawn(l).ops = l.ops \o <<<<"draw", NoObject>>>>
<1> DEFINE x == <<"draw", NoObject>>
           ops == l.ops \o <<x>>
<1>1. x \in Ops /\ l.ops \in Seq(Ops)
  BY DEF Ops, CommandLists
<1>2. ops \in Seq(Ops)
  BY <1>1
<1>3. Drawn(l) = [l EXCEPT !.ops = ops]
  BY DEF Drawn
<1> HIDE DEF ops
<1>4. Drawn(l) \in CommandLists /\ Drawn(l).tracked = l.tracked /\ Drawn(l).id = l.id /\ Drawn(l).ops = ops
  BY <1>2, <1>3 DEF CommandLists
<1> QED
  BY <1>4 DEF ops

\* and the number of the list, which stays.
LEMMA WithId ==
  ASSUME NEW l \in CommandLists, NEW x, NEW g
  PROVE  With(l, x, g).id = l.id
BY DEF With, CommandLists

\* Sequences of operations that follow each other.
Joins(a, b) == a \o b

\* It does not matter which of them are joined first.
LEMMA Joined ==
  ASSUME NEW a \in Seq(Ops), NEW b \in Seq(Ops), NEW c \in Seq(Ops), NEW e \in Seq(Ops)
  PROVE  Joins(Joins(Joins(a, b), c), e) = Joins(a, Joins(Joins(b, c), e))
BY DEF Joins

\* What nobody refers to is apart from all that is referred to.
LEMMA NotHeld ==
  ASSUME NEW g, g \notin Held
  PROVE  /\ g # active.object /\ g # stamping /\ Fresh(cmd, lists, g)
         /\ \A q \in Queries : \A i \in DOMAIN query[q].objects : query[q].objects[i] # g
BY DEF Held, Tracked, Fresh, Range

\* An object g is added to the virtual query v, which is w then.
AddedTo(q, v, w, g, d) ==
  /\ w \in VirtualQueries /\ w.ended = v.ended
  /\ w.objects # <<>> /\ w.objects[Len(w.objects)] = g
  /\ \A i \in DOMAIN w.objects : i # Len(w.objects) => \E j \in DOMAIN v.objects : w.objects[i] = v.objects[j]
  /\ v.objects = <<>> => w.objects = <<g>>
  /\ q \notin Timestamps => \A c, dg :
       /\ dg \in [Objects -> Results] /\ Sums(v.data, v.objects, d.gpu, c)
       /\ \A i \in DOMAIN v.objects : dg[v.objects[i]].value = d.gpu[v.objects[i]].value
       => Sums(w.data, w.objects, dg, c + dg[g].value)

\* AddObject does that.
LEMMA Added ==
  ASSUME NEW d, Sound(cmd, lists, gpu, clock, active.object, d), NEW q \in Queries, NEW v \in VirtualQueries,
         NEW g \in Objects
  PROVE  AddedTo(q, v, AddObject(q, v, g), g, d)
<1> DEFINE o == active.object
           y == IF Len(v.objects) >= EmbeddedCapacity THEN Accumulate(q, v) ELSE v
           w == AddObject(q, v, g)
<1>1. /\ y \in VirtualQueries /\ y.ended = v.ended
      /\ \A i \in DOMAIN y.objects : \E j \in DOMAIN v.objects : y.objects[i] = v.objects[j]
      /\ Len(y.objects) <= Len(v.objects)
      /\ q \notin Timestamps => \A c : Sums(v.data, v.objects, d.gpu, c) => Sums(y.data, y.objects, d.gpu, c)
  <2>1. CASE y = v
    <3>1. Len(v.objects) <= Len(v.objects)
      BY DEF VirtualQueries
    <3> QED
      BY <2>1, <3>1
  <2>2. CASE y = Accumulate(q, v)
    <3>1. Taken(q, v, y, o, d)
      BY <2>2, AccumulateKeeps
    <3> HIDE DEF y
    <3> QED
      BY <3>1 DEF Taken
  <2> QED
    BY <2>1, <2>2
<1>2. w = [y EXCEPT !.objects = Append(@, g)]
  BY DEF AddObject
<1> HIDE DEF y, w
<1> DEFINE s == y.objects
           m == Len(s)
<1>3. s \in Seq(Objects) /\ y.data \in Nat /\ v.objects \in Seq(Objects) /\ m \in Nat
  BY <1>1 DEF VirtualQueries
<1>4. /\ Append(s, g) \in Seq(Objects) /\ Len(Append(s, g)) = m + 1 /\ Append(s, g)[m + 1] = g
      /\ \A i \in 1..m : Append(s, g)[i] = s[i]
      /\ DOMAIN Append(s, g) = 1..(m + 1) /\ DOMAIN s = 1..m
  BY <1>3
<1>5. w = [objects |-> Append(s, g), data |-> y.data, ended |-> y.ended]
  BY <1>1, <1>2 DEF VirtualQueries
<1>6. w.objects = Append(s, g) /\ w.data = y.data /\ w.ended = v.ended /\ w \in VirtualQueries
  BY <1>1, <1>3, <1>4, <1>5 DEF VirtualQueries
<1>7. ASSUME NEW i \in DOMAIN w.objects, i # Len(w.objects)
      PROVE \E j \in DOMAIN v.objects : w.objects[i] = v.objects[j]
  <2>1. i \in 1..m /\ w.objects[i] = s[i] /\ i \in DOMAIN y.objects
    BY <1>3, <1>4, <1>6, <1>7
  <2> QED
    BY <1>1, <2>1
<1>8. ASSUME v.objects = <<>> PROVE w.objects = <<g>>
  <2>1. m = 0
    BY <1>1, <1>3, <1>8
  <2>2. s = <<>>
    BY <1>3, <2>1
  <2> QED
    BY <1>6, <2>2
<1>9. ASSUME q \notin Timestamps, NEW c, NEW dg \in [Objects -> Results], Sums(v.data, v.objects, d.gpu, c),
             \A i \in DOMAIN v.objects : dg[v.objects[i]].value = d.gpu[v.objects[i]].value
      PROVE  Sums(w.data, w.objects, dg, c + dg[g].value)
  <2>1. Sums(y.data, s, d.gpu, c)
    BY <1>1, <1>9
  <2>2. \A i \in 1..m : dg[s[i]].value = d.gpu[s[i]].value
    <3> SUFFICES ASSUME NEW i \in 1..m PROVE dg[s[i]].value = d.gpu[s[i]].value
      OBVIOUS
    <3>1. PICK j \in DOMAIN v.objects : s[i] = v.objects[j]
      BY <1>1, <1>4
    <3> QED
      BY <1>9, <3>1
  <2>3. Sums(y.data, s, dg, c)
    BY <1>3, <2>1, <2>2, SumsSame
  <2>4. Sums(y.data, Append(s, g), dg, c + dg[g].value)
    BY <1>3, <1>9, <2>3, SumsAppend
  <2> QED
    BY <1>6, <2>4
<1>10. w.objects # <<>> /\ w.objects[Len(w.objects)] = g
  BY <1>3, <1>4, <1>6
<1> QED
  BY <1>6, <1>7, <1>8, <1>9, <1>10 DEF w, AddedTo

\* What restartQueries records when n draws come after it.
Follow(n, after) ==
  (n = 0 /\ after = <<>>) \/ (n = 1 /\ after = <<<<"draw", NoObject>>>>)
Restarted(queries, pass, v, n, d) ==
  /\ active'.queries = queries /\ inPass' = pass
  /\ active' = [queries |-> queries, object |-> active'.object]
  /\ active'.object \in Objects \union {NoObject}
  /\ active'.object # NoObject <=> (pass /\ queries # {})
  /\ active'.object # NoObject => active'.object \notin Held
  /\ query' = [q \in Queries |-> IF active'.object # NoObject /\ q \in queries
                                   THEN AddObject(q, v[q], active'.object) ELSE v[q]]
  /\ gpu' = IF active'.object # NoObject THEN [gpu EXCEPT ![active'.object] = Clear] ELSE gpu
  /\ cmd'.tracked = cmd.tracked \union ({active'.object} \ {NoObject})
  /\ \E e \in States :
       /\ Sound(cmd', lists', gpu', clock', active'.object, e) /\ e.clock = d.clock + n
       /\ \A h \in Objects : e.gpu[h].value = IF h = active'.object THEN n ELSE d.gpu[h].value

\* RestartQueries does that.
LEMMA RestartEffect ==
  ASSUME NEW d, Sound(cmd, lists, gpu, clock, active.object, d), lists' = lists, clock' = clock,
         NEW queries, NEW pass \in BOOLEAN, NEW v, NEW after, RestartQueries(queries, pass, v, after),
         NEW n, Follow(n, after)
  PROVE  Restarted(queries, pass, v, n, d)
<1>0. (n = 0 /\ after = <<>>) \/ (n = 1 /\ after = <<<<"draw", NoObject>>>>)
  BY DEF Follow
<1> DEFINE o == active.object
           starts == pass /\ queries # {}
           g == Alloc("occlusion")
           end == IF o = NoObject THEN <<>> ELSE <<<<"end", o>>>>
           begin == IF starts THEN <<<<"begin", g>>>> ELSE <<>>
           track == IF starts THEN {g} ELSE {}
           l1 == Closed(cmd, o)
           l2 == IF starts THEN With(l1, <<"begin", g>>, g) ELSE l1
           l3 == IF n = 1 THEN Drawn(l2) ELSE l2
           p == IF starts THEN g ELSE NoObject
           hp == IF starts THEN [gpu EXCEPT ![g] = Clear] ELSE gpu
<1>1. /\ starts => Free("occlusion") # {}
      /\ active' = [queries |-> queries, object |-> p] /\ inPass' = pass
      /\ query' = [q \in Queries |-> IF starts /\ q \in queries THEN AddObject(q, v[q], g) ELSE v[q]]
      /\ gpu' = hp
      /\ cmd' = Record(end \o begin \o after, track)
  BY DEF RestartQueries, ResetObject, Clear
<1>2. starts => g \in Objects /\ g \notin Held /\ Fresh(cmd, lists, g)
  <2>1. "occlusion" \in Pools
    BY DEF Pools
  <2> QED
    BY <1>1, <2>1, AllocFresh, NotHeld
<1> HIDE DEF g
<1>3. cmd \in CommandLists /\ cmd.ops \in Seq(Ops) /\ o \in Objects \union {NoObject} /\ d \in States
  BY DEF Sound, CommandLists
<1>4. PICK d1 \in States : Sound(l1, lists, gpu, clock, NoObject, d1) /\ SameValues(d, d1)
  BY CloseOpen
<1>5. l1 \in CommandLists /\ l1.tracked = cmd.tracked /\ l1.id = cmd.id /\ l1.ops = cmd.ops \o end
  BY <1>3, ClosedForm
<1> HIDE DEF l1
<1>6. \E d2 \in States : /\ Sound(l2, lists, hp, clock, p, d2) /\ d2.clock = d.clock
                         /\ \A h \in Objects : d2.gpu[h].value = IF h = p THEN 0 ELSE d.gpu[h].value
  <2>1. CASE starts
    <3>1. Fresh(l1, lists, g)
      BY <1>2, <1>5, <2>1 DEF Fresh
    <3>2. PICK d2 \in States :
             /\ Sound(With(l1, <<"begin", g>>, g), lists, [gpu EXCEPT ![g] = Clear], clock, g, d2)
             /\ d2.clock = d1.clock
             /\ \A h \in Objects : d2.gpu[h].value = IF h = g THEN 0 ELSE d1.gpu[h].value
      BY <1>2, <1>4, <2>1, <3>1, Reopen
    <3>3. /\ Sound(l2, lists, hp, clock, p, d2) /\ d2.clock = d.clock
          /\ \A h \in Objects : d2.gpu[h].value = IF h = p THEN 0 ELSE d.gpu[h].value
      BY <1>4, <2>1, <3>2 DEF SameValues
    <3> QED
      BY <3>3
  <2>2. CASE ~starts
    <3>1. p = NoObject /\ l2 = l1 /\ hp = gpu
      BY <2>2
    <3>2. \A h \in Objects : h # p
      BY <3>1, NoObjectOutside
    <3> QED
      BY <1>4, <3>1, <3>2 DEF SameValues
  <2> QED
    BY <2>1, <2>2
<1>7. PICK d2 \in States : /\ Sound(l2, lists, hp, clock, p, d2) /\ d2.clock = d.clock
                           /\ \A h \in Objects : d2.gpu[h].value = IF h = p THEN 0 ELSE d.gpu[h].value
  BY <1>6
<1>8. l2 \in CommandLists /\ l2.tracked = cmd.tracked \union track /\ l2.id = cmd.id /\ l2.ops = l1.ops \o begin
  <2>1. CASE starts
    <3> DEFINE x == <<"begin", g>>
               ops == l1.ops \o <<x>>
    <3>1. x \in Ops /\ l1.ops \in Seq(Ops) /\ g \in Objects
      BY <1>2, <1>5, <2>1 DEF Ops, CommandLists
    <3>2. l2 = With(l1, x, g)
      BY <2>1
    <3> HIDE DEF l2, x, ops
    <3>4. With(l1, x, g).id = l1.id
      BY <1>5, WithId
    <3>5. With(l1, x, g) \in CommandLists /\ With(l1, x, g).ops = l1.ops \o <<x>>
          /\ With(l1, x, g).tracked = l1.tracked \union {g}
      <4>1. PICK m \in CommandLists : m = l1
        BY <1>5
      <4>2. PICK y \in Ops : y = x
        BY <3>1
      <4>3. PICK h \in Objects : h = g
        BY <3>1
      <4>4. With(m, y, h) \in CommandLists /\ With(m, y, h).ops = m.ops \o <<y>> /\ With(m, y, h).tracked = m.tracked \union {h}
        BY <4>1, <4>2, <4>3, WithForm
      <4> QED
        BY <4>1, <4>2, <4>3, <4>4
    <3>3. l2 \in CommandLists /\ l2.ops = l1.ops \o <<x>> /\ l2.tracked = l1.tracked \union {g} /\ l2.id = l1.id
      BY <3>2, <3>4, <3>5
    <3> QED
      BY <1>5, <2>1, <3>3 DEF x
  <2>2. CASE ~starts
    <3>1. l1.ops \o <<>> = l1.ops
      BY <1>5 DEF CommandLists
    <3> QED
      BY <1>5, <2>2, <3>1
  <2> QED
    BY <2>1, <2>2
<1> HIDE DEF l2
<1>9. l3 \in CommandLists /\ l3.tracked = cmd.tracked \union track /\ l3.id = cmd.id /\ l3.ops = l2.ops \o after
  <2>1. CASE n = 1
    <3>1. l3 = Drawn(l2) /\ after = <<<<"draw", NoObject>>>>
      BY <1>0, <2>1
    <3> HIDE DEF l3
    <3>2. /\ Drawn(l2) \in CommandLists /\ Drawn(l2).tracked = l2.tracked /\ Drawn(l2).id = l2.id
          /\ Drawn(l2).ops = l2.ops \o after
      BY <1>8, <3>1, DrawnForm
    <3> QED
      BY <1>8, <3>1, <3>2
  <2>2. CASE n = 0
    <3>1. after = <<>> /\ l2.ops \o <<>> = l2.ops
      BY <1>0, <1>8, <2>2 DEF CommandLists
    <3>2. l3 = l2
      BY <2>2
    <3> QED
      BY <1>8, <3>1, <3>2
  <2> QED
    BY <1>0, <2>1, <2>2
<1>10. \E e \in States : /\ Sound(l3, lists, hp, clock, p, e) /\ e.clock = d.clock + n
                         /\ \A h \in Objects : e.gpu[h].value = IF h = p THEN n ELSE d.gpu[h].value
  <2>0. d.clock \in Nat
    BY <1>3 DEF States
  <2>1. CASE n = 1
    <3> HIDE DEF hp, p
    <3>0. Sound(l2, lists, hp, clock, p, d2)
      BY <1>7
    <3>1. PICK e \in States :
             /\ Sound(Drawn(l2), lists, hp, clock, p, e)
             /\ e.clock = d2.clock + 1
             /\ \A h \in Objects : e.gpu[h].value = IF h = p THEN d2.gpu[h].value + 1 ELSE d2.gpu[h].value
      BY <3>0, DrawCounts
    <3>2. Sound(l3, lists, hp, clock, p, e) /\ e.clock = d.clock + n
      BY <1>7, <2>1, <3>1
    <3>3. \A h \in Objects : e.gpu[h].value = IF h = p THEN n ELSE d.gpu[h].value
      BY <1>7, <2>1, <3>1
    <3> QED
      BY <3>2, <3>3
  <2>2. CASE n = 0
    BY <1>7, <2>0, <2>2
  <2> QED
    BY <1>0, <2>1, <2>2
<1> HIDE DEF l3, hp
<1>11. cmd' = l3
  <2>1. end \in Seq(Ops) /\ begin \in Seq(Ops) /\ after \in Seq(Ops)
    <3>1. <<"draw", NoObject>> \in Ops
      BY DEF Ops
    <3>2. o # NoObject => <<"end", o>> \in Ops
      BY <1>3 DEF Ops
    <3>3. starts => <<"begin", g>> \in Ops
      BY <1>2 DEF Ops
    <3>4. end \in Seq(Ops)
      BY <3>2
    <3>5. begin \in Seq(Ops)
      BY <3>3
    <3>6. after \in Seq(Ops)
      <4>1. \A x \in Ops : <<x>> \in Seq(Ops)
        OBVIOUS
      <4>2. <<>> \in Seq(Ops)
        OBVIOUS
      <4> DEFINE x == <<"draw", NoObject>>
      <4>3. after = <<>> \/ after = <<x>>
        BY <1>0
      <4>4. x \in Ops
        BY <3>1
      <4> HIDE DEF x
      <4> QED
        BY <4>1, <4>2, <4>3, <4>4, Zenon
    <3> QED
      BY <3>4, <3>5, <3>6
  <2> HIDE DEF end, begin
  <2>2. l3.ops = ((cmd.ops \o end) \o begin) \o after
    BY <1>5, <1>8, <1>9
  <2>3. l3.ops = cmd.ops \o (end \o begin \o after)
    <3>1. cmd.ops \in Seq(Ops)
      BY <1>3
    <3>2. ((cmd.ops \o end) \o begin) \o after = cmd.ops \o (end \o begin \o after)
      <4>1. Joins(Joins(Joins(cmd.ops, end), begin), after) = Joins(cmd.ops, Joins(Joins(end, begin), after))
        BY <2>1, <3>1, Joined
      <4> QED
        BY <4>1, Zenon DEF Joins
    <3> QED
      BY <2>2, <3>2
  <2> DEFINE new == end \o begin \o after
  <2>4. cmd' = [cmd EXCEPT !.ops = @ \o new, !.tracked = @ \union track]
    BY <1>1 DEF Record
  <2>5. l3.ops = cmd.ops \o new
    BY <2>3
  <2> HIDE DEF new, track
  <2>6. cmd' = [ops |-> cmd.ops \o new, tracked |-> cmd.tracked \union track, id |-> cmd.id]
    BY <1>3, <2>4 DEF CommandLists
  <2>7. l3 = [ops |-> l3.ops, tracked |-> l3.tracked, id |-> l3.id]
    BY <1>9 DEF CommandLists
  <2> QED
    BY <1>9, <2>5, <2>6, <2>7
<1>12. active'.object = p /\ active'.queries = queries /\ (p # NoObject <=> starts)
  <2>1. starts => g # NoObject
    BY <1>2, NoObjectOutside
  <2> QED
    BY <1>1, <2>1
<1>13. cmd'.tracked = cmd.tracked \union ({p} \ {NoObject})
  BY <1>9, <1>11, <1>12
<1>14. query' = [q \in Queries |-> IF p # NoObject /\ q \in queries THEN AddObject(q, v[q], p) ELSE v[q]]
  BY <1>1, <1>12
<1>15. gpu' = IF p # NoObject THEN [gpu EXCEPT ![p] = Clear] ELSE gpu
  BY <1>1, <1>12 DEF hp
<1>16. p \in Objects \union {NoObject} /\ (p # NoObject => p \notin Held)
  BY <1>2
<1>17. \E e \in States : /\ Sound(cmd', lists', gpu', clock', p, e) /\ e.clock = d.clock + n
                         /\ \A h \in Objects : e.gpu[h].value = IF h = p THEN n ELSE d.gpu[h].value
  BY <1>1, <1>10, <1>11
<1> HIDE DEF p, starts
<1>18. p # NoObject <=> pass /\ queries # {}
  BY <1>12 DEF starts
<1> QED
  BY <1>1, <1>12, <1>13, <1>14, <1>15, <1>16, <1>17, <1>18 DEF Restarted

\* What a command that restarts the queries makes of a virtual query, which is v then,
\* when a draws are recorded after it.
Follows(x, q, queries, v, a, d, b) ==
  LET n == Noted(x, q, d.clock, b[q])
  IN /\ n.on <=> q \in queries
     /\ n.resets = resetCtr'[q]
     /\ n.ended => v.ended
     /\ v.objects = query[q].objects \/ v.objects = <<>>
     /\ q \in Timestamps => v = query[q] /\ n.count = b[q].count
     /\ q \in Scoped => \E c \in Nat :
          Sums(v.data, v.objects, d.gpu, c) /\ n.count = IF q \in queries THEN c + a ELSE c

\* One virtual query afterwards, when o is the open object.
Reached(x, q, queries, o, d, b, e) ==
  /\ query'[q] \in VirtualQueries
  /\ \A i \in DOMAIN query'[q].objects : query'[q].objects[i] = o => q \in queries /\ i = Len(query'[q].objects)
  /\ q \in Timestamps => Len(query'[q].objects) <= 1
  /\ o # NoObject /\ q \in queries => query'[q].objects # <<>> /\ query'[q].objects[Len(query'[q].objects)] = o
  /\ \A n : n = Noted(x, q, d.clock, b[q]) => Linked(q, e, n)'

\* Each virtual query gets there.
LEMMA RestartQuery ==
  ASSUME QueryAssumption, VariableTypes, Holds, stamping = NoObject, stamping' = stamping,
         NEW d \in States, NEW b, NEW e \in States,
         Sound(cmd, lists, gpu, clock, active.object, d),
         \A r \in Queries : Linked(r, d, b[r]),
         NEW x, NEW queries \in SUBSET Scoped, NEW a \in Nat, NEW q \in Queries, NEW v \in VirtualQueries,
         Follows(x, q, queries, v, a, d, b),
         NEW o \in Objects \union {NoObject}, o # NoObject => o \notin Held,
         \A h \in Objects : e.gpu[h].value = IF h = o THEN a ELSE d.gpu[h].value,
         a > 0 /\ q \in queries => o # NoObject,
         active'.queries = queries, active'.object = o,
         query'[q] = IF o # NoObject /\ q \in queries THEN AddObject(q, v, o) ELSE v
  PROVE  Reached(x, q, queries, o, d, b, e)
<1> DEFINE w == query'[q]
           n == Noted(x, q, d.clock, b[q])
<1>1. d.gpu \in [Objects -> Results] /\ e.gpu \in [Objects -> Results] /\ v.objects \in Seq(Objects) /\ v.data \in Nat
  BY DEF States, VirtualQueries
<1>2. \A i \in DOMAIN v.objects : v.objects[i] \in Objects /\ v.objects[i] # o
  <2> SUFFICES ASSUME NEW i \in DOMAIN v.objects PROVE v.objects[i] \in Objects /\ v.objects[i] # o
    OBVIOUS
  <2>1. v.objects[i] \in Objects
    BY <1>1
  <2>2. CASE o = NoObject
    BY <2>1, <2>2, NoObjectOutside
  <2>3. CASE o # NoObject
    <3>1. v.objects = query[q].objects
      <4>1. v.objects = <<>> => FALSE
        BY <1>1
      <4> QED
        BY <4>1 DEF Follows
    <3>2. query[q].objects[i] # o
      BY <2>3, <3>1, NotHeld
    <3> QED
      BY <2>1, <3>1, <3>2
  <2> QED
    BY <2>2, <2>3
<1>3. \A i \in DOMAIN v.objects : e.gpu[v.objects[i]].value = d.gpu[v.objects[i]].value
  BY <1>2
<1>4. q \in queries => q \in Scoped /\ q \notin Timestamps
  BY QueryTypes
<1>5. Len(query[q].objects) <= 1 => Len(v.objects) <= 1
  <2>1. Len(v.objects) = Len(query[q].objects) \/ v.objects = <<>>
    BY DEF Follows
  <2> QED
    BY <1>1, <2>1
<1>6. n.on <=> q \in queries
  BY DEF Follows
<1>7. n.resets = resetCtr'[q] /\ (n.ended => v.ended)
  BY DEF Follows
<1>8. q \in Scoped => \E c \in Nat :
        Sums(v.data, v.objects, d.gpu, c) /\ n.count = IF q \in queries THEN c + a ELSE c
  BY DEF Follows
<1>9. q \in Timestamps => v = query[q] /\ n.count = b[q].count
  BY DEF Follows
<1>10. ~Stamps(q) /\ ~Stamps(q)'
  BY DEF Stamps
<1> HIDE DEF n, w
<1>11. CASE o # NoObject /\ q \in queries
  <2>1. w = AddObject(q, v, o) /\ o \in Objects
    BY <1>11 DEF w
  <2>2. /\ w \in VirtualQueries /\ w.ended = v.ended
        /\ w.objects # <<>> /\ w.objects[Len(w.objects)] = o
        /\ \A i \in DOMAIN w.objects : i # Len(w.objects) => \E j \in DOMAIN v.objects : w.objects[i] = v.objects[j]
        /\ \A c, dg :
             /\ dg \in [Objects -> Results] /\ Sums(v.data, v.objects, d.gpu, c)
             /\ \A i \in DOMAIN v.objects : dg[v.objects[i]].value = d.gpu[v.objects[i]].value
             => Sums(w.data, w.objects, dg, c + dg[o].value)
    <3>1. AddedTo(q, v, w, o, d)
      BY <2>1, Added
    <3> QED
      BY <1>4, <1>11, <3>1 DEF AddedTo
  <2>3. \A i \in DOMAIN w.objects : w.objects[i] = o => i = Len(w.objects)
    BY <1>2, <2>2
  <2>4. n.count \in Nat /\ Sums(w.data, w.objects, e.gpu, n.count)
    <3>1. PICK c \in Nat : Sums(v.data, v.objects, d.gpu, c) /\ n.count = c + a
      BY <1>4, <1>8, <1>11
    <3>2. e.gpu[o].value = a
      BY <2>1
    <3>3. Sums(w.data, w.objects, e.gpu, c + e.gpu[o].value)
      BY <1>1, <1>3, <2>2, <3>1
    <3> QED
      BY <3>1, <3>2, <3>3
  <2>5. \A m : m = n => Linked(q, e, m)'
    BY <1>4, <1>6, <1>7, <1>10, <1>11, <2>2, <2>4 DEF Linked, w
  <2> QED
    BY <1>4, <1>11, <2>2, <2>3, <2>5 DEF w, n, Reached
<1>12. CASE ~(o # NoObject /\ q \in queries)
  <2>1. w = v
    BY <1>12 DEF w
  <2>2. q \in queries => a = 0
    BY <1>12
  <2>3. q \in Scoped => Sums(w.data, w.objects, e.gpu, n.count)
    <3> SUFFICES ASSUME q \in Scoped PROVE Sums(v.data, v.objects, e.gpu, n.count)
      BY <2>1
    <3>1. PICK c \in Nat : Sums(v.data, v.objects, d.gpu, c) /\ n.count = c
      BY <1>8, <2>2
    <3>2. DOMAIN v.objects = 1..Len(v.objects)
      BY <1>1
    <3> QED
      BY <1>1, <1>3, <3>1, <3>2, SumsSame
  <2>4. q \in Timestamps => n.count = IF w.objects = <<>> THEN w.data ELSE e.gpu[w.objects[1]].value
    <3> SUFFICES ASSUME q \in Timestamps PROVE n.count = IF v.objects = <<>> THEN v.data ELSE e.gpu[v.objects[1]].value
      BY <2>1
    <3>1. b[q].count = IF v.objects = <<>> THEN v.data ELSE d.gpu[v.objects[1]].value
      BY <1>9, <1>10 DEF Linked
    <3>2. v.objects # <<>> => 1 \in DOMAIN v.objects
      BY <1>1
    <3> QED
      BY <1>3, <1>9, <3>1, <3>2
  <2>5. \A m : m = n => Linked(q, e, m)'
    BY <1>6, <1>7, <1>10, <2>1, <2>3, <2>4 DEF Linked, w
  <2>6. q \in Timestamps => Len(w.objects) <= 1
    BY <1>5, <2>1 DEF Holds
  <2>7. \A i \in DOMAIN w.objects : w.objects[i] # o
    BY <1>2, <2>1
  <2> QED
    BY <1>12, <2>1, <2>5, <2>6, <2>7 DEF w, n, Reached
<1> QED
  BY <1>11, <1>12

\* A command that restarts the queries keeps the invariant.
LEMMA RestartKeeps ==
  ASSUME QueryAssumption, QueryInv, NEW x, Next1(x), context' = DropCommand(context),
         NEW queries \in SUBSET Scoped, NEW pass \in BOOLEAN, NEW v \in [Queries -> VirtualQueries],
         NEW a, NEW after,
         (a = 0 /\ after = <<>> /\ x[1] # "draw") \/ (a = 1 /\ after = <<<<"draw", NoObject>>>> /\ x[1] = "draw"),
         a = 0 \/ pass,
         RestartQueries(queries, pass, v, after),
         UNCHANGED <<appVars, stamping, lists, clock, completed>>,
         resetCtr' \in [Queries -> 0..calls],
         \A d, b, t : Leading(d, b, t) => \A q \in Queries : Follows(x, q, queries, v[q], a, d, b)
  PROVE  QueryInv'
<1>1. /\ HasCommand(context) /\ NextCommand(context) = x /\ stamping = NoObject /\ stamping' = NoObject
      /\ lists' = lists /\ clock' = clock /\ completed' = completed /\ app' = app /\ calls' = calls /\ draws' = draws
  BY DEF Next1, appVars
<1>2. PICK d, b, t : Leading(d, b, t)
  BY DEF QueryInv
<1>3. /\ Sound(cmd, lists, gpu, clock, active.object, d) /\ d \in States /\ d.clock \in Nat
      /\ \A r \in Queries : Linked(r, d, b[r])
  BY <1>2 DEF Leading, States
<1>4. VariableTypes /\ Bounds /\ Holds
  BY DEF QueryInv
<1>5. /\ active'.queries = queries /\ inPass' = pass
      /\ active' = [queries |-> queries, object |-> active'.object]
      /\ active'.object \in Objects \union {NoObject}
      /\ active'.object # NoObject <=> (pass /\ queries # {})
      /\ active'.object # NoObject => active'.object \notin Held
      /\ query' = [q \in Queries |-> IF active'.object # NoObject /\ q \in queries
                                       THEN AddObject(q, v[q], active'.object) ELSE v[q]]
      /\ gpu' = IF active'.object # NoObject THEN [gpu EXCEPT ![active'.object] = Clear] ELSE gpu
      /\ cmd'.tracked = cmd.tracked \union ({active'.object} \ {NoObject})
      /\ \E e \in States :
           /\ Sound(cmd', lists', gpu', clock', active'.object, e) /\ e.clock = d.clock + a
           /\ \A h \in Objects : e.gpu[h].value = IF h = active'.object THEN a ELSE d.gpu[h].value
  <2>1. Follow(a, after)
    BY DEF Follow
  <2>2. Restarted(queries, pass, v, a, d)
    BY <1>1, <1>3, <2>1, RestartEffect
  <2> QED
    BY <2>2 DEF Restarted
<1>6. PICK e \in States :
        /\ Sound(cmd', lists', gpu', clock', active'.object, e) /\ e.clock = d.clock + a
        /\ \A h \in Objects : e.gpu[h].value = IF h = active'.object THEN a ELSE d.gpu[h].value
  BY <1>5
<1>7. PICK o : o = active'.object
  OBVIOUS
<1>8. a \in Nat /\ (a > 0 => pass)
  OBVIOUS
<1>9. ASSUME NEW q \in Queries
      PROVE  /\ query'[q] \in VirtualQueries
             /\ \A i \in DOMAIN query'[q].objects : query'[q].objects[i] = o => q \in queries /\ i = Len(query'[q].objects)
             /\ q \in Timestamps => Len(query'[q].objects) <= 1
             /\ o # NoObject /\ q \in queries => query'[q].objects # <<>> /\ query'[q].objects[Len(query'[q].objects)] = o
             /\ \A n : n = Noted(x, q, d.clock, b[q]) => Linked(q, e, n)'
  <2>0. PICK w \in VirtualQueries : w = v[q]
    OBVIOUS
  <2>1. Follows(x, q, queries, w, a, d, b)
    BY <1>2, <2>0
  <2>2. query'[q] = IF o # NoObject /\ q \in queries THEN AddObject(q, w, o) ELSE w
    BY <1>5, <1>7, <2>0
  <2>3. /\ o \in Objects \union {NoObject} /\ (o # NoObject => o \notin Held)
        /\ \A h \in Objects : e.gpu[h].value = IF h = o THEN a ELSE d.gpu[h].value
        /\ a > 0 /\ q \in queries => o # NoObject
        /\ active'.queries = queries /\ active'.object = o
    BY <1>5, <1>6, <1>7, <1>8
  <2>4. stamping = NoObject /\ stamping' = stamping
    BY <1>1
  <2>5. d \in States /\ Sound(cmd, lists, gpu, clock, active.object, d) /\ \A r \in Queries : Linked(r, d, b[r])
    BY <1>3
  <2>6. VariableTypes /\ Holds
    BY <1>4
  <2> QED
    <3>1. Reached(x, q, queries, o, d, b, e)
      BY <1>8, <2>1, <2>2, <2>3, <2>4, <2>5, <2>6, RestartQuery
    <3> QED
      BY <3>1 DEF Reached
<1>10. PICK bb \in [Queries -> Notes] :
         /\ \A q \in Queries : bb[q] = Noted(x, q, d.clock, b[q])
         /\ DropCommand(context).submission = context.submission
         /\ Whole(DropCommand(context), Known(IF x[1] = "draw" THEN d.clock + 1 ELSE d.clock, bb), t)
  BY <1>1, <1>2, Dropped
<1>11. Whole(context', Known(e.clock, bb), t) /\ context'.submission = context.submission
  <2>1. e.clock = IF x[1] = "draw" THEN d.clock + 1 ELSE d.clock
    BY <1>3, <1>6
  <2> QED
    BY <1>10, <2>1
<1>12. Leading(e, bb, t)'
  <2>1. \A q \in Queries : Linked(q, e, bb[q])'
    BY <1>9, <1>10
  <2>2. \A q \in Queries : Agrees(q, t.notes[q])'
    BY <1>1, <1>2 DEF Leading, Agrees
  <2>3. t \in States /\ t.clock = draws'
    BY <1>1, <1>2 DEF Leading
  <2> QED
    BY <1>6, <1>10, <1>11, <2>1, <2>2, <2>3 DEF Leading
<1>13. VariableTypes'
  <2>1. query' \in [Queries -> VirtualQueries]
    <3>1. \A q \in Queries : query'[q] \in VirtualQueries
      BY <1>9
    <3> HIDE DEF VirtualQueries
    <3> QED
      BY <1>5, <3>1
  <2>2. active' \in [queries : SUBSET Scoped, object : Objects \union {NoObject}]
    BY <1>5
  <2>3. active'.object # NoObject <=> (inPass' /\ active'.queries # {})
    BY <1>5
  <2> QED
    BY <1>1, <1>4, <1>5, <2>1, <2>2, <2>3 DEF VariableTypes
<1>14. Bounds'
  <2>1. ASSUME NEW g \in Objects PROVE gpu'[g].value <= clock'
    <3>1. gpu \in [Objects -> Results] /\ clock \in Nat
      BY <1>3 DEF Sound
    <3> QED
      BY <1>1, <1>4, <1>5, <3>1 DEF Bounds, Clear
  <2> QED
    BY <1>1, <1>4, <1>11, <2>1 DEF Bounds
<1>15. Holds'
  <2>1. \A q \in Queries : \A i \in DOMAIN query'[q].objects : query'[q].objects[i] # NoObject
    <3> SUFFICES ASSUME NEW q \in Queries, NEW i \in DOMAIN query'[q].objects PROVE query'[q].objects[i] # NoObject
      OBVIOUS
    <3>1. query'[q].objects \in Seq(Objects)
      BY <1>9 DEF VirtualQueries
    <3>2. query'[q].objects[i] \in Objects
      BY <3>1
    <3> QED
      BY <3>2, NoObjectOutside
  <2>2. \A q \in Queries : ~Stamps(q)'
    BY <1>1 DEF Stamps
  <2>3. Fresh(cmd, lists, stamping)'
    <3>1. Fresh(cmd, lists, NoObject)
      BY <1>1, <1>4 DEF Holds
    <3> QED
      BY <1>1, <1>5, <3>1 DEF Fresh
  <2>4. ASSUME NEW q \in Queries, NEW i \in DOMAIN query'[q].objects
        PROVE  /\ query'[q].objects[i] = stamping' => Stamps(q)'
               /\ query'[q].objects[i] = active'.object => q \in active'.queries /\ i = Len(query'[q].objects)
    BY <1>1, <1>5, <1>7, <1>9, <2>1, <2>4
  <2>5. ASSUME NEW q \in Timestamps
        PROVE  /\ Len(query'[q].objects) <= 1
               /\ Stamps(q)' => query'[q].objects = <<stamping'>> /\ query'[q].ended
    <3>1. q \in Queries
      BY DEF Queries
    <3> QED
      BY <1>9, <2>2, <3>1
  <2>6. ASSUME active'.object # NoObject, NEW q \in active'.queries
        PROVE  query'[q].objects # <<>> /\ query'[q].objects[Len(query'[q].objects)] = active'.object
    <3>1. q \in Queries /\ q \in queries
      BY <1>5 DEF Queries
    <3> QED
      BY <1>7, <1>9, <2>6, <3>1
  <2> QED
    BY <1>1, <2>3, <2>4, <2>5, <2>6 DEF Holds
<1> QED
  BY <1>12, <1>13, <1>14, <1>15 DEF QueryInv

\* Whoever ends has been accounted for.
LEMMA EndCounts ==
  ASSUME NEW d, NEW b, NEW t, Leading(d, b, t), HasCommand(context), NEW q \in Queries,
         NextCommand(context) = <<"end", q>>
  PROVE  resetCtr[q] > 0 /\ b[q].resets = resetCtr[q] /\ b[q] \in Notes
<1> DEFINE x == <<"end", q>>
<1>1. x[1] = "end" /\ x[2] = q
  OBVIOUS
<1>2. PICK bb \in [Queries -> Notes] : \A r \in Queries : bb[r] = Noted(x, r, d.clock, b[r])
  BY Dropped
<1> HIDE DEF x
<1>3. bb[q].resets = b[q].resets - 1
  <2>1. bb[q] = Noted(x, q, d.clock, b[q])
    BY <1>2
  <2> QED
    BY <1>1, <2>1 DEF Noted
<1>4. b[q] \in Notes /\ bb[q] \in Notes /\ b[q].resets = resetCtr[q]
  BY <1>2 DEF Leading, Linked
<1>5. b[q].resets \in Nat /\ bb[q].resets \in Nat
  BY <1>4 DEF Notes
<1> QED
  BY <1>3, <1>4, <1>5

\* A query that does not notice the command.
LEMMA FollowsSame ==
  ASSUME QueryAssumption, VariableTypes, stamping = NoObject, NEW d, NEW b, NEW t, Leading(d, b, t),
         NEW r \in Queries, NEW x, Noted(x, r, d.clock, b[r]) = b[r], NEW queries,
         r \in queries <=> r \in active.queries, resetCtr'[r] = resetCtr[r]
  PROVE  Follows(x, r, queries, query[r], 0, d, b)
<1>1. Linked(r, d, b[r]) /\ ~Stamps(r)
  BY DEF Leading, Stamps
<1>2. query[r] \in VirtualQueries /\ d.gpu \in [Objects -> Results]
  BY DEF VariableTypes, Leading, States
<1>3. r \in Scoped => Sums(query[r].data, query[r].objects, d.gpu, b[r].count)
  BY <1>1 DEF Linked
<1>4. r \in Scoped => b[r].count \in Nat
  BY <1>2, <1>3, SumsBounds DEF VirtualQueries
<1>5. r \in Scoped => \E c \in Nat : Sums(query[r].data, query[r].objects, d.gpu, c)
                                      /\ b[r].count = IF r \in queries THEN c + 0 ELSE c
  BY <1>3, <1>4
<1> QED
  BY <1>1, <1>5 DEF Follows, Linked

\* What becomes of a virtual query.
LEMMA VirtualTypes ==
  ASSUME NEW v \in VirtualQueries
  PROVE  /\ Begun(v) \in VirtualQueries /\ Begun(v).objects = <<>> /\ Begun(v).data = 0 /\ ~Begun(v).ended
         /\ Ended(v) \in VirtualQueries /\ Ended(v).objects = v.objects /\ Ended(v).data = v.data /\ Ended(v).ended
<1> DEFINE none == <<>>
<1>1. Begun(v) = [objects |-> <<>>, data |-> 0, ended |-> FALSE]
  <2>1. Begun(v) = [v EXCEPT !.objects = none, !.data = 0, !.ended = FALSE]
    BY DEF Begun
  <2> HIDE DEF none
  <2>2. Begun(v) = [objects |-> none, data |-> 0, ended |-> FALSE]
    BY <2>1 DEF VirtualQueries
  <2> QED
    BY <2>2 DEF none
<1>2. Ended(v) = [objects |-> v.objects, data |-> v.data, ended |-> TRUE]
  <2>1. Ended(v) = [v EXCEPT !.ended = TRUE]
    BY DEF Ended
  <2> QED
    BY <2>1 DEF VirtualQueries
<1>3. <<>> \in Seq(Objects)
  OBVIOUS
<1> QED
  BY <1>1, <1>2, <1>3 DEF VirtualQueries

\* Nothing adds up to nothing.
LEMMA SumsNone ==
  ASSUME NEW gp \in [Objects -> Results]
  PROVE  Sums(0, <<>>, gp, 0)
<1>1. <<>> \in Seq(Objects) /\ 0 \in Nat
  OBVIOUS
<1>2. PICK c \in Nat : Sums(0, <<>>, gp, c)
  BY <1>1, SumsExist
<1> QED
  BY <1>1, <1>2, SumsBounds

\* CsBegin
LEMMA CsBeginKeeps ==
  ASSUME QueryAssumption, QueryInv, NEW q \in Queries, CsBegin(q)
  PROVE  QueryInv'
<1> DEFINE x == <<"begin", q>>
           queries == active.queries \union {q}
           v == [query EXCEPT ![q] = Begun(@)]
<1>1. /\ Next1(x) /\ RestartQueries(queries, inPass, v, <<>>) /\ context' = DropCommand(context)
      /\ UNCHANGED <<appVars, resetCtr, stamping, lists, clock, completed>>
  BY DEF CsBegin
<1>2. x[1] = "begin" /\ x[2] = q
  OBVIOUS
<1>3. HasCommand(context) /\ stamping = NoObject /\ NextCommand(context) = x
  BY <1>1 DEF Next1
<1>4. q \in Scoped
  <2>1. PICK d, b, t : Leading(d, b, t)
    BY DEF QueryInv
  <2>2. x \in Commands(context.submission)
    BY <1>3, <2>1, DropTakes DEF Leading
  <2> QED
    BY <2>2 DEF Commands
<1>5. VariableTypes /\ query \in [Queries -> VirtualQueries] /\ active.queries \in SUBSET Scoped /\ inPass \in BOOLEAN
  BY DEF QueryInv, VariableTypes
<1>6. v \in [Queries -> VirtualQueries] /\ v[q] = Begun(query[q]) /\ \A r \in Queries : r # q => v[r] = query[r]
  BY <1>5, VirtualTypes
<1>7. queries \in SUBSET Scoped
  BY <1>4, <1>5
<1> HIDE DEF x, v
<1>8. ASSUME NEW d, NEW b, NEW t, Leading(d, b, t), NEW r \in Queries
      PROVE  Follows(x, r, queries, v[r], 0, d, b)
  <2>1. CASE r # q
    <3>1. Noted(x, r, d.clock, b[r]) = b[r]
      BY <1>2, <2>1 DEF Noted
    <3>2. r \in queries <=> r \in active.queries
      BY <2>1
    <3>3. resetCtr'[r] = resetCtr[r] /\ v[r] = query[r]
      BY <1>1, <1>6, <2>1
    <3> HIDE DEF queries
    <3> QED
      BY <1>3, <1>5, <1>8, <3>1, <3>2, <3>3, FollowsSame
  <2>2. CASE r = q
    <3> DEFINE n == Noted(x, q, d.clock, b[q])
    <3>1. n = [on |-> TRUE, ended |-> FALSE, count |-> 0, resets |-> b[q].resets]
      BY <1>2 DEF Noted
    <3>2. b[q].resets = resetCtr'[q]
      BY <1>1, <1>8 DEF Leading, Linked
    <3>3. v[q].objects = <<>> /\ v[q].data = 0 /\ q \notin Timestamps
      BY <1>4, <1>5, <1>6, VirtualTypes, QueryTypes
    <3>4. Sums(v[q].data, v[q].objects, d.gpu, 0)
      <4>1. d.gpu \in [Objects -> Results]
        BY <1>8 DEF Leading, States
      <4> QED
        BY <3>3, <4>1, SumsNone
    <3>5. \E c \in Nat : Sums(v[q].data, v[q].objects, d.gpu, c) /\ 0 = IF q \in queries THEN c + 0 ELSE c
      BY <3>4
    <3> QED
      BY <2>2, <3>1, <3>2, <3>3, <3>5 DEF Follows
  <2> QED
    BY <2>1, <2>2
<1>9. resetCtr' \in [Queries -> 0..calls]
  BY <1>1, <1>5 DEF VariableTypes
<1>10. \A d, b, t : Leading(d, b, t) => \A r \in Queries : Follows(x, r, queries, v[r], 0, d, b)
  BY <1>8
<1>11. UNCHANGED <<appVars, stamping, lists, clock, completed>>
  BY <1>1
<1> HIDE DEF queries
<1> QED
  BY <1>1, <1>2, <1>5, <1>6, <1>7, <1>9, <1>10, <1>11, RestartKeeps

\* CsEndScoped
LEMMA CsEndScopedKeeps ==
  ASSUME QueryAssumption, QueryInv, NEW q \in Queries, CsEndScoped(q)
  PROVE  QueryInv'
<1> DEFINE x == <<"end", q>>
           queries == active.queries \ {q}
           v == [query EXCEPT ![q] = Ended(@)]
<1>1. /\ Next1(x) /\ RestartQueries(queries, inPass, v, <<>>) /\ context' = DropCommand(context) /\ q \in Scoped
      /\ UNCHANGED <<appVars, stamping, lists, clock, completed>> /\ resetCtr' = [resetCtr EXCEPT ![q] = @ - 1]
  BY DEF CsEndScoped
<1>2. x[1] = "end" /\ x[2] = q
  OBVIOUS
<1>3. HasCommand(context) /\ stamping = NoObject /\ NextCommand(context) = x
  BY <1>1 DEF Next1
<1>5. VariableTypes /\ query \in [Queries -> VirtualQueries] /\ active.queries \in SUBSET Scoped /\ inPass \in BOOLEAN
      /\ resetCtr \in [Queries -> 0..calls] /\ calls \in Nat
  BY DEF QueryInv, VariableTypes, QueryAssumption
<1>6. v \in [Queries -> VirtualQueries] /\ v[q] = Ended(query[q]) /\ \A r \in Queries : r # q => v[r] = query[r]
  BY <1>5, VirtualTypes
<1>7. queries \in SUBSET Scoped
  BY <1>5
<1>12. \A d, b, t : Leading(d, b, t) => resetCtr[q] > 0 /\ b[q].resets = resetCtr[q]
  BY <1>3, EndCounts
<1>13. resetCtr'[q] = resetCtr[q] - 1 /\ \A r \in Queries : r # q => resetCtr'[r] = resetCtr[r]
  BY <1>1, <1>5
<1> HIDE DEF x, v
<1>8. ASSUME NEW d, NEW b, NEW t, Leading(d, b, t), NEW r \in Queries
      PROVE  Follows(x, r, queries, v[r], 0, d, b)
  <2>1. CASE r # q
    <3>1. Noted(x, r, d.clock, b[r]) = b[r]
      BY <1>2, <2>1 DEF Noted
    <3>2. r \in queries <=> r \in active.queries
      BY <2>1
    <3>3. resetCtr'[r] = resetCtr[r] /\ v[r] = query[r]
      BY <1>6, <1>13, <2>1
    <3> HIDE DEF queries
    <3> QED
      BY <1>3, <1>5, <1>8, <3>1, <3>2, <3>3, FollowsSame
  <2>2. CASE r = q
    <3> DEFINE n == Noted(x, q, d.clock, b[q])
    <3>0. q \notin Timestamps
      BY <1>1, QueryTypes
    <3>1. n = [on |-> FALSE, ended |-> TRUE, count |-> b[q].count, resets |-> b[q].resets - 1]
      BY <1>2, <3>0 DEF Noted
    <3>2. b[q].resets - 1 = resetCtr'[q]
      BY <1>8, <1>12, <1>13
    <3>3. v[q].objects = query[q].objects /\ v[q].data = query[q].data /\ v[q].ended
      BY <1>5, <1>6, VirtualTypes
    <3>4. Sums(query[q].data, query[q].objects, d.gpu, b[q].count)
      BY <1>1, <1>3, <1>8 DEF Leading, Linked, Stamps
    <3>6. b[q].count \in Nat
      BY <1>8 DEF Leading, Notes
    <3>5. \E c \in Nat : Sums(v[q].data, v[q].objects, d.gpu, c) /\ b[q].count = IF q \in queries THEN c + 0 ELSE c
      BY <3>3, <3>4, <3>6
    <3> QED
      BY <2>2, <3>0, <3>1, <3>2, <3>3, <3>5 DEF Follows
  <2> QED
    BY <2>1, <2>2
<1>9. resetCtr' \in [Queries -> 0..calls]
  <2>1. PICK d, b, t : Leading(d, b, t)
    BY DEF QueryInv
  <2>2. resetCtr[q] > 0 /\ resetCtr[q] \in 0..calls
    BY <1>5, <1>12, <2>1
  <2>3. resetCtr[q] - 1 \in 0..calls
    BY <1>5, <2>2
  <2> QED
    BY <1>1, <1>5, <2>3
<1>10. \A d, b, t : Leading(d, b, t) => \A r \in Queries : Follows(x, r, queries, v[r], 0, d, b)
  BY <1>8
<1>11. UNCHANGED <<appVars, stamping, lists, clock, completed>>
  BY <1>1
<1> HIDE DEF queries
<1>14. PICK e : e = <<>>
  OBVIOUS
<1>15. Next1(x) /\ context' = DropCommand(context) /\ RestartQueries(queries, inPass, v, e)
  BY <1>1, <1>14
<1>16. PICK w \in [Queries -> VirtualQueries] : w = v
  BY <1>6
<1>17. RestartQueries(queries, inPass, w, e)
       /\ \A d, b, t : Leading(d, b, t) => \A r \in Queries : Follows(x, r, queries, w[r], 0, d, b)
  BY <1>10, <1>15, <1>16
<1>18. x[1] # "draw" /\ inPass \in BOOLEAN
  BY <1>2, <1>5
<1> QED
  BY <1>7, <1>9, <1>11, <1>14, <1>15, <1>17, <1>18, RestartKeeps

\* CsTargets
LEMMA CsTargetsKeeps ==
  ASSUME QueryAssumption, QueryInv, CsTargets
  PROVE  QueryInv'
<1> DEFINE x == <<"targets">>
<1>1. /\ Next1(x) /\ RestartQueries(active.queries, FALSE, query, <<>>) /\ context' = DropCommand(context)
      /\ UNCHANGED <<appVars, resetCtr, stamping, lists, clock, completed>>
  BY DEF CsTargets
<1>2. x[1] = "targets"
  OBVIOUS
<1>3. stamping = NoObject
  BY <1>1 DEF Next1
<1>5. VariableTypes /\ query \in [Queries -> VirtualQueries] /\ active.queries \in SUBSET Scoped
  BY DEF QueryInv, VariableTypes
<1> HIDE DEF x
<1>8. ASSUME NEW d, NEW b, NEW t, Leading(d, b, t), NEW r \in Queries
      PROVE  Follows(x, r, active.queries, query[r], 0, d, b)
  <2>1. Noted(x, r, d.clock, b[r]) = b[r]
    BY <1>2 DEF Noted
  <2>2. resetCtr'[r] = resetCtr[r]
    BY <1>1
  <2> QED
    BY <1>3, <1>5, <1>8, <2>1, <2>2, FollowsSame
<1>9. resetCtr' \in [Queries -> 0..calls]
  BY <1>1, <1>5 DEF VariableTypes
<1>10. \A d, b, t : Leading(d, b, t) => \A r \in Queries : Follows(x, r, active.queries, query[r], 0, d, b)
  BY <1>8
<1>11. UNCHANGED <<appVars, stamping, lists, clock, completed>> /\ FALSE \in BOOLEAN /\ x[1] # "draw"
  BY <1>1, <1>2
<1>12. PICK p \in BOOLEAN : p = FALSE
  OBVIOUS
<1>13. RestartQueries(active.queries, p, query, <<>>)
  BY <1>1, <1>12
<1>14. PICK e : e = <<>>
  OBVIOUS
<1>15. RestartQueries(active.queries, p, query, e)
  BY <1>13, <1>14
<1> QED
  BY <1>1, <1>5, <1>9, <1>10, <1>11, <1>14, <1>15, RestartKeeps

\* A result is reset, and set.
SetTo(l, ls, gp, ck, o, d, g, k) ==
  \E e \in States :
    /\ Sound(With(l, <<k, g>>, g), ls, [gp EXCEPT ![g] = Clear], ck, o, e)
    /\ e.clock = d.clock
    /\ \A h \in Objects :
         e.gpu[h].value = IF h # g THEN d.gpu[h].value ELSE IF k = "stamp" THEN d.clock ELSE 0

\* The device gets there.
LEMMA SetCounts ==
  ASSUME NEW l, NEW ls, NEW gp, NEW ck, NEW o, NEW d, Sound(l, ls, gp, ck, o, d),
         NEW g \in Objects, Fresh(l, ls, g), NEW k \in {"stamp", "set"}
  PROVE  SetTo(l, ls, gp, ck, o, d, g, k)
<1> DEFINE hp == [gp EXCEPT ![g] = Clear]
           c == Cleared(d, g)
           x == <<k, g>>
           e == Executed(x, c)
<1>1. Sound(l, ls, hp, ck, o, c)
  BY ResetFresh
<1>2. hp[g].state = "reset"
  BY DEF Sound, Clear
<1>3. c \in States /\ c.clock = d.clock /\ \A h \in Objects : c.gpu[h] = IF h = g THEN Clear ELSE d.gpu[h]
  BY ClearedType DEF Sound
<1> HIDE DEF hp, c
<1>4. Sound(With(l, x, g), ls, hp, ck, o, e)
  BY <1>1, <1>2, SetFresh
<1>5. e \in States
  BY <1>4 DEF Sound
<1>6. x[1] = k /\ x[2] = g /\ k # "draw"
  OBVIOUS
<1> HIDE DEF x
<1>7. e.clock = d.clock
  BY <1>3, <1>6 DEF Executed
<1>8. \A h \in Objects : e.gpu[h].value = IF h # g THEN d.gpu[h].value ELSE IF k = "stamp" THEN d.clock ELSE 0
  BY <1>3, <1>6 DEF Executed, OpResult, Clear
<1> HIDE DEF e
<1> QED
  BY <1>4, <1>5, <1>7, <1>8 DEF hp, x, SetTo

\* What is still known of a query that nothing happens to.
LEMMA LinkedSame ==
  ASSUME NEW r \in Queries, NEW d \in States, NEW e \in States, NEW n, Linked(r, d, n),
         VariableTypes, ~Stamps(r),
         query'[r] = query[r], active'.queries = active.queries, resetCtr'[r] = resetCtr[r],
         \A i \in DOMAIN query[r].objects : e.gpu[query[r].objects[i]].value = d.gpu[query[r].objects[i]].value
  PROVE  Linked(r, e, n)'
<1> DEFINE v == query[r]
<1>1. v \in VirtualQueries /\ d.gpu \in [Objects -> Results] /\ e.gpu \in [Objects -> Results]
  BY DEF VariableTypes, States
<1>2. v.objects \in Seq(Objects) /\ v.data \in Nat /\ DOMAIN v.objects = 1..Len(v.objects)
  BY <1>1 DEF VirtualQueries
<1> HIDE DEF v
<1>3. \A i \in 1..Len(v.objects) : e.gpu[v.objects[i]].value = d.gpu[v.objects[i]].value
  BY <1>2 DEF v
<1>4. ASSUME r \in Scoped PROVE Sums(v.data, v.objects, e.gpu, n.count)
  <2>1. Sums(v.data, v.objects, d.gpu, n.count)
    BY <1>4 DEF Linked, v
  <2> QED
    BY <1>1, <1>2, <1>3, <2>1, SumsSame
<1>5. ASSUME r \in Timestamps PROVE n.count = IF v.objects = <<>> THEN v.data ELSE e.gpu[v.objects[1]].value
  <2>1. n.count = IF v.objects = <<>> THEN v.data ELSE d.gpu[v.objects[1]].value
    BY <1>5 DEF Linked, v
  <2>2. v.objects # <<>> => 1 \in 1..Len(v.objects)
    BY <1>2
  <2> QED
    BY <1>3, <2>1, <2>2
<1>6. query'[r] = v
  BY DEF v
<1> QED
  BY <1>4, <1>5, <1>6 DEF Linked, v

\* What a command leaves behind when it is through.
LEMMA CsLeads ==
  ASSUME NEW d, NEW b, NEW t, Leading(d, b, t), NEW x, HasCommand(context), NextCommand(context) = x,
         context' = DropCommand(context), UNCHANGED appVars, x[1] # "draw",
         NEW e \in States, Sound(cmd', lists', gpu', clock', active'.object, e), e.clock = d.clock,
         \A q \in Queries : \A n \in Notes : n = Noted(x, q, d.clock, b[q]) => Linked(q, e, n)'
  PROVE  (\E dd, bb, tt : Leading(dd, bb, tt))' /\ context'.submission = context.submission
<1>1. PICK bb \in [Queries -> Notes] :
        /\ \A q \in Queries : bb[q] = Noted(x, q, d.clock, b[q])
        /\ DropCommand(context).submission = context.submission
        /\ Whole(DropCommand(context), Known(IF x[1] = "draw" THEN d.clock + 1 ELSE d.clock, bb), t)
  BY Dropped
<1>2. Whole(context', Known(e.clock, bb), t) /\ context'.submission = context.submission
  BY <1>1
<1>3. \A q \in Queries : Linked(q, e, bb[q])'
  BY <1>1
<1>4. \A q \in Queries : Agrees(q, t.notes[q])'
  BY DEF Leading, Agrees, appVars
<1>5. t \in States /\ t.clock = draws'
  BY DEF Leading, appVars
<1>6. Leading(e, bb, t)'
  BY <1>1, <1>2, <1>3, <1>4, <1>5 DEF Leading
<1> QED
  BY <1>2, <1>6

\* Nothing tracks what is no object.
LEMMA NoObjectFresh ==
  ASSUME NEW l, NEW ls, NEW gp, NEW ck, NEW o, NEW d, Sound(l, ls, gp, ck, o, d)
  PROVE  Fresh(l, ls, NoObject)
<1>1. l \in CommandLists /\ \A i \in DOMAIN ls : ls[i] \in CommandLists
  BY ListMembers DEF Sound
<1> QED
  BY <1>1, NoObjectOutside DEF Fresh, CommandLists

\* CsFlush
LEMMA CsFlushKeeps ==
  ASSUME QueryAssumption, QueryInv, NEW n \in 1..context.submission, CsFlush(n)
  PROVE  QueryInv'
<1> DEFINE x == <<"flush", n>>
           o == active.object
           end == IF o = NoObject THEN <<>> ELSE <<<<"end", o>>>>
           l == [Record(end, {}) EXCEPT !.id = n]
<1>1. /\ Next1(x) /\ lists' = Append(lists, l) /\ cmd' = EmptyList
      /\ active' = [active EXCEPT !.object = NoObject] /\ inPass' = FALSE
      /\ context' = DropCommand(context)
      /\ UNCHANGED <<appVars, query, resetCtr, stamping, deviceVars, completed>>
  BY DEF CsFlush
<1>2. x[1] = "flush" /\ x[1] # "draw"
  OBVIOUS
<1>3. HasCommand(context) /\ stamping = NoObject /\ NextCommand(context) = x
  BY <1>1 DEF Next1
<1> HIDE DEF x, l
<1>4. PICK d, b, t : Leading(d, b, t)
  BY DEF QueryInv
<1>5. /\ Sound(cmd, lists, gpu, clock, o, d) /\ d \in States /\ context.submission \in Nat
      /\ lists \in Seq(CommandLists) /\ cmd \in CommandLists /\ cmd.ops \in Seq(Ops) /\ cmd.tracked \in SUBSET Objects
      /\ o \in Objects \union {NoObject}
  BY <1>4 DEF Leading, Sound, CommandLists, Whole, Recorded, Shape
<1>6. VariableTypes /\ Bounds /\ Holds
  BY DEF QueryInv
<1>7. PICK e \in States : Sound(Closed(cmd, o), lists, gpu, clock, NoObject, e) /\ SameValues(d, e)
  BY <1>5, CloseOpen
<1>8. l = [Closed(cmd, o) EXCEPT !.id = n] /\ l.id = n
  <2> DEFINE m == Closed(cmd, o)
             ops == cmd.ops \o end
  <2>1. m \in CommandLists /\ m.tracked = cmd.tracked /\ m.id = cmd.id /\ m.ops = ops
    BY <1>5, ClosedForm
  <2>2. Record(end, {}) = [cmd EXCEPT !.ops = ops, !.tracked = @ \union {}]
    BY DEF Record
  <2> HIDE DEF m, ops, end
  <2>3. Record(end, {}) = [ops |-> ops, tracked |-> cmd.tracked, id |-> cmd.id]
    BY <1>5, <2>2 DEF CommandLists
  <2>4. m = [ops |-> ops, tracked |-> cmd.tracked, id |-> cmd.id]
    BY <2>1 DEF CommandLists
  <2>5. l = [m EXCEPT !.id = n]
    BY <2>3, <2>4 DEF l
  <2>6. l.id = n
    BY <2>3 DEF l
  <2> QED
    BY <2>5, <2>6 DEF m
<1>9. n \in Nat
  BY <1>5
<1>10. gpu' = gpu /\ clock' = clock /\ query' = query /\ resetCtr' = resetCtr /\ stamping' = stamping /\ completed' = completed
  BY <1>1 DEF deviceVars
<1>11. /\ active'.object = NoObject /\ active'.queries = active.queries
       /\ active' \in [queries : SUBSET Scoped, object : Objects \union {NoObject}]
  BY <1>1, <1>6 DEF VariableTypes
<1>12. Sound(cmd', lists', gpu', clock', active'.object, e)
  <2>1. Sound(EmptyList, Append(lists, [Closed(cmd, o) EXCEPT !.id = n]), gpu, clock, NoObject, e)
    BY <1>7, <1>9, SubmitList
  <2> QED
    BY <1>1, <1>8, <1>10, <1>11, <2>1
<1>13. \A q \in Queries : ~Stamps(q) /\ ~Stamps(q)'
  BY <1>3, <1>10 DEF Stamps
<1>14. ASSUME NEW q \in Queries, NEW m \in Notes, m = Noted(x, q, d.clock, b[q]) PROVE Linked(q, e, m)'
  <2>1. m = b[q] /\ Linked(q, d, m)
    BY <1>2, <1>4, <1>14 DEF Noted, Leading
  <2>2. \A i \in DOMAIN query[q].objects : query[q].objects[i] \in Objects
    BY <1>6 DEF VariableTypes, VirtualQueries
  <2>3. \A i \in DOMAIN query[q].objects : e.gpu[query[q].objects[i]].value = d.gpu[query[q].objects[i]].value
    BY <1>7, <2>2 DEF SameValues
  <2> QED
    BY <1>5, <1>6, <1>10, <1>11, <1>13, <2>1, <2>3, LinkedSame
<1>15. (\E dd, bb, tt : Leading(dd, bb, tt))' /\ context'.submission = context.submission
  <2>1. e.clock = d.clock /\ UNCHANGED appVars
    BY <1>1, <1>7 DEF SameValues
  <2> QED
    BY <1>1, <1>2, <1>3, <1>4, <1>12, <1>14, <2>1, CsLeads
<1>16. VariableTypes'
  BY <1>1, <1>6, <1>10, <1>11 DEF VariableTypes, appVars
<1>17. Bounds'
  <2>1. ASSUME NEW i \in DOMAIN lists' PROVE lists'[i].id \in 0..context.submission
    <3>1. l \in CommandLists
      <4>1. Closed(cmd, o) \in CommandLists
        BY <1>5, ClosedForm
      <4> QED
        BY <1>8, <1>9, <4>1 DEF CommandLists
    <3>2. /\ DOMAIN lists' = 1..(Len(lists) + 1) /\ DOMAIN lists = 1..Len(lists) /\ Len(lists) \in Nat
          /\ lists'[Len(lists) + 1] = l /\ \A k \in 1..Len(lists) : lists'[k] = lists[k]
      BY <1>1, <1>5, <3>1
    <3>3. CASE i = Len(lists) + 1
      <4>1. n \in 0..context.submission
        BY <1>5
      <4>2. lists'[i] = l
        BY <3>2, <3>3
      <4> QED
        BY <1>8, <4>1, <4>2
    <3>4. CASE i \in 1..Len(lists)
      BY <1>6, <3>2, <3>4 DEF Bounds
    <3> QED
      BY <2>1, <3>2, <3>3, <3>4
  <2> QED
    BY <1>6, <1>10, <1>15, <2>1 DEF Bounds
<1>18. Holds'
  <2>1. Fresh(cmd', lists', NoObject)
    BY <1>12, NoObjectFresh
  <2>2. ASSUME NEW q \in Queries, NEW i \in DOMAIN query[q].objects PROVE query[q].objects[i] # NoObject
    <3>1. query[q].objects[i] \in Objects
      BY <1>6 DEF VariableTypes, VirtualQueries
    <3> QED
      BY <3>1, NoObjectOutside
  <2> QED
    BY <1>3, <1>6, <1>10, <1>11, <1>13, <2>1, <2>2 DEF Holds, Queries
<1> QED
  BY <1>15, <1>16, <1>17, <1>18 DEF QueryInv

\* CsEndTimestamp
LEMMA CsEndTimestampKeeps ==
  ASSUME QueryAssumption, QueryInv, NEW q \in Queries, CsEndTimestamp(q)
  PROVE  QueryInv'
<1> DEFINE x == <<"end", q>>
           w == AddObject(q, Begun(query[q]), Alloc("timestamp"))
<1>1. /\ Next1(x) /\ q \in Timestamps /\ Free("timestamp") # {}
      /\ stamping' = Alloc("timestamp") /\ query' = [query EXCEPT ![q] = Ended(w)]
      /\ UNCHANGED <<context, appVars, resetCtr, active, inPass, cmd, lists, deviceVars, completed>>
  BY DEF CsEndTimestamp
<1>2. HasCommand(context) /\ stamping = NoObject /\ NextCommand(context) = x
  BY <1>1 DEF Next1
<1>3. PICK d, b, t : Leading(d, b, t)
  BY DEF QueryInv
<1>4. VariableTypes /\ Bounds /\ Holds
  BY DEF QueryInv
<1>5. stamping' \in Objects /\ stamping' \notin Held
  <2>1. "timestamp" \in Pools
    BY DEF Pools
  <2> QED
    BY <1>1, <2>1, AllocFresh
<1>6. w \in VirtualQueries /\ w.objects = <<stamping'>>
  <2> DEFINE v == Begun(query[q])
             g == Alloc("timestamp")
  <2>1. query[q] \in VirtualQueries
    BY <1>4 DEF VariableTypes
  <2>2. v \in VirtualQueries /\ v.objects = <<>>
    BY <2>1, VirtualTypes
  <2>3. g \in Objects /\ Sound(cmd, lists, gpu, clock, active.object, d)
    BY <1>1, <1>3, <1>5 DEF Leading
  <2> HIDE DEF v, g
  <2>4. AddedTo(q, v, AddObject(q, v, g), g, d)
    BY <2>2, <2>3, Added
  <2>5. AddObject(q, v, g) \in VirtualQueries /\ AddObject(q, v, g).objects = <<g>>
    BY <2>2, <2>4 DEF AddedTo
  <2> QED
    BY <1>1, <2>5 DEF v, g
<1> HIDE DEF w
<1>7. Ended(w) \in VirtualQueries /\ Ended(w).objects = <<stamping'>> /\ Ended(w).ended
  BY <1>6, VirtualTypes
<1>8. query'[q] = Ended(w) /\ \A r \in Queries : r # q => query'[r] = query[r]
  BY <1>1, <1>4 DEF VariableTypes
<1>9. /\ context' = context /\ app' = app /\ calls' = calls /\ draws' = draws /\ resetCtr' = resetCtr /\ active' = active
      /\ inPass' = inPass /\ cmd' = cmd /\ lists' = lists /\ gpu' = gpu /\ clock' = clock /\ completed' = completed
  BY <1>1 DEF appVars, deviceVars
<1>10. /\ \A r \in Queries : ~Stamps(r) /\ (Stamps(r)' => r = q)
       /\ Stamps(q)'
  <2>1. stamping' # NoObject
    BY <1>5, NoObjectOutside
  <2> QED
    BY <1>2, <1>9, <2>1 DEF Stamps
<1>11. stamping' # active.object /\ Fresh(cmd, lists, stamping')
       /\ \A r \in Queries : \A i \in DOMAIN query[r].objects : query[r].objects[i] # stamping'
  BY <1>5, NotHeld
<1>12. VariableTypes'
  <2>1. query' \in [Queries -> VirtualQueries]
    BY <1>1, <1>4, <1>7 DEF VariableTypes
  <2> QED
    BY <1>4, <1>5, <1>9, <2>1 DEF VariableTypes
<1>13. Bounds'
  BY <1>4, <1>9 DEF Bounds
<1>14. Len(<<stamping'>>) = 1 /\ DOMAIN <<stamping'>> = {1} /\ <<stamping'>>[1] = stamping'
  OBVIOUS
<1>15. Holds'
  <2>1. stamping' # NoObject => HasCommand(context)' /\ \E r \in Timestamps : NextCommand(context)' = <<"end", r>>
    BY <1>1, <1>2, <1>9
  <2>2. ASSUME NEW r \in Queries, NEW i \in DOMAIN query'[r].objects
        PROVE  /\ query'[r].objects[i] = stamping' => Stamps(r)'
               /\ query'[r].objects[i] = active'.object => r \in active'.queries /\ i = Len(query'[r].objects)
    <3>1. CASE r = q
      <4>1. query'[r].objects = <<stamping'>>
        BY <1>7, <1>8, <3>1
      <4>2. i = 1
        BY <1>14, <2>2, <4>1
      <4>3. query'[r].objects[i] = stamping'
        BY <1>14, <4>1, <4>2
      <4> QED
        BY <1>9, <1>10, <1>11, <3>1, <4>3
    <3>2. CASE r # q
      <4>1. query'[r] = query[r]
        BY <1>8, <3>2
      <4> QED
        BY <1>4, <1>9, <1>11, <2>2, <4>1 DEF Holds
    <3> QED
      BY <3>1, <3>2
  <2>3. ASSUME NEW r \in Timestamps
        PROVE  /\ Len(query'[r].objects) <= 1
               /\ Stamps(r)' => query'[r].objects = <<stamping'>> /\ query'[r].ended
    <3>0. r \in Queries
      BY DEF Queries
    <3>1. CASE r = q
      <4>1. query'[r].objects = <<stamping'>> /\ query'[r].ended
        BY <1>7, <1>8, <3>1
      <4>2. Len(query'[r].objects) = 1
        BY <1>14, <4>1
      <4> QED
        BY <4>1, <4>2
    <3>2. CASE r # q
      BY <1>4, <1>8, <1>10, <3>0, <3>2 DEF Holds
    <3> QED
      BY <3>1, <3>2
  <2>4. ASSUME active'.object # NoObject, NEW r \in active'.queries
        PROVE  query'[r].objects # <<>> /\ query'[r].objects[Len(query'[r].objects)] = active'.object
    <3>1. r \in Queries /\ r # q
      BY <1>1, <1>4, <1>9, QueryTypes DEF VariableTypes
    <3> QED
      BY <1>4, <1>8, <1>9, <2>4, <3>1 DEF Holds
  <2> QED
    BY <1>9, <1>11, <2>1, <2>2, <2>3, <2>4 DEF Holds
<1>16. ASSUME NEW r \in Queries PROVE Linked(r, d, b[r])'
  <2>1. Linked(r, d, b[r])
    BY <1>3 DEF Leading
  <2>2. CASE r = q
    BY <1>9, <1>10, <2>1, <2>2 DEF Linked
  <2>3. CASE r # q
    BY <1>8, <1>9, <1>10, <2>1, <2>3 DEF Linked
  <2> QED
    BY <2>2, <2>3
<1>17. Leading(d, b, t)'
  <2>1. \A r \in Queries : Agrees(r, t.notes[r])'
    BY <1>3, <1>9 DEF Leading, Agrees
  <2> QED
    BY <1>3, <1>9, <1>16, <2>1 DEF Leading
<1> QED
  BY <1>12, <1>13, <1>15, <1>17 DEF QueryInv

\* CsStamp
LEMMA CsStampKeeps ==
  ASSUME QueryAssumption, QueryInv, NEW q \in Queries, CsStamp(q)
  PROVE  QueryInv'
<1> DEFINE x == <<"end", q>>
<1>1. /\ stamping # NoObject /\ NextCommand(context) = x
      /\ gpu' = ResetObject(stamping) /\ cmd' = Record(<<<<"stamp", stamping>>>>, {stamping})
      /\ stamping' = NoObject /\ resetCtr' = [resetCtr EXCEPT ![q] = @ - 1]
      /\ context' = DropCommand(context)
      /\ UNCHANGED <<appVars, query, active, inPass, lists, clock, completed>>
  BY DEF CsStamp
<1>2. x[1] = "end" /\ x[2] = q /\ x[1] # "draw"
  OBVIOUS
<1>3. PICK d, b, t : Leading(d, b, t)
  BY DEF QueryInv
<1>4. VariableTypes /\ Bounds /\ Holds /\ Stamps(q)
  BY <1>1 DEF QueryInv, Stamps
<1>5. /\ HasCommand(context) /\ q \in Timestamps /\ q \notin Scoped /\ resetCtr[q] > 0 /\ b[q].resets = resetCtr[q]
      /\ query[q].objects = <<stamping>> /\ query[q].ended
  <2>1. HasCommand(context)
    BY <1>1, <1>4 DEF Holds
  <2>2. q \in Timestamps
    BY <1>3, <1>4, StampsEnds
  <2> QED
    BY <1>1, <1>3, <1>4, <2>1, <2>2, EndCounts, QueryTypes DEF Holds
<1> HIDE DEF x
<1>6. PICK g \in Objects : g = stamping
  BY <1>1, <1>4 DEF VariableTypes
<1>7. /\ Sound(cmd, lists, gpu, clock, active.object, d) /\ d \in States
      /\ Fresh(cmd, lists, g) /\ lists' = lists /\ clock' = clock /\ active' = active
      /\ gpu' = [gpu EXCEPT ![g] = Clear] /\ cmd' = With(cmd, <<"stamp", g>>, g)
  BY <1>1, <1>3, <1>4, <1>6 DEF Leading, Holds, ResetObject, Clear, Record, With
<1>8. PICK e \in States :
        /\ Sound(With(cmd, <<"stamp", g>>, g), lists, [gpu EXCEPT ![g] = Clear], clock, active.object, e)
        /\ e.clock = d.clock
        /\ \A h \in Objects : e.gpu[h].value = IF h # g THEN d.gpu[h].value ELSE d.clock
  <2>1. PICK k \in {"stamp", "set"} : k = "stamp"
    OBVIOUS
  <2>2. Sound(cmd, lists, gpu, clock, active.object, d) /\ Fresh(cmd, lists, g)
    BY <1>7
  <2>3. SetTo(cmd, lists, gpu, clock, active.object, d, g, k)
    BY <2>2, SetCounts
  <2> QED
    BY <2>1, <2>3 DEF SetTo
<1>9. /\ calls \in Nat /\ resetCtr \in [Queries -> 0..calls] /\ UNCHANGED appVars
      /\ resetCtr'[q] = resetCtr[q] - 1 /\ \A r \in Queries : r # q => resetCtr'[r] = resetCtr[r]
  BY <1>1, <1>4 DEF VariableTypes, QueryAssumption
<1>10. \A r \in Queries : r # q => ~Stamps(r)
  <2> SUFFICES ASSUME NEW r \in Queries, r # q, Stamps(r) PROVE FALSE
    OBVIOUS
  <2>1. <<"end", r>> = <<"end", q>>
    BY <1>1 DEF Stamps, x
  <2> QED
    BY <2>1
<1>11. ASSUME NEW r \in Queries, NEW n \in Notes, n = Noted(x, r, d.clock, b[r]) PROVE Linked(r, e, n)'
  <2>1. Linked(r, d, b[r])
    BY <1>3 DEF Leading
  <2>2. CASE r = q
    <3>1. n = [on |-> FALSE, ended |-> TRUE, count |-> d.clock, resets |-> b[q].resets - 1]
      BY <1>2, <1>5, <1>11, <2>2 DEF Noted
    <3>2. q \notin active'.queries
      BY <1>4, <1>5, <1>7 DEF VariableTypes
    <3>3. query'[q] = query[q] /\ query[q].objects # <<>> /\ query[q].objects[1] = g
      BY <1>1, <1>5, <1>6
    <3>4. e.gpu[g].value = d.clock
      BY <1>8
    <3> QED
      BY <1>5, <1>9, <2>2, <3>1, <3>2, <3>3, <3>4 DEF Linked
  <2>3. CASE r # q
    <3>1. n = b[r]
      BY <1>2, <1>11, <2>3 DEF Noted
    <3>2. \A i \in DOMAIN query[r].objects : query[r].objects[i] \in Objects /\ query[r].objects[i] # g
      <4>1. \A i \in DOMAIN query[r].objects : query[r].objects[i] \in Objects
        BY <1>4 DEF VariableTypes, VirtualQueries
      <4> QED
        BY <1>4, <1>6, <1>10, <2>3, <4>1 DEF Holds
    <3>3. \A i \in DOMAIN query[r].objects : e.gpu[query[r].objects[i]].value = d.gpu[query[r].objects[i]].value
      BY <1>8, <3>2
    <3>4. query'[r] = query[r] /\ active'.queries = active.queries /\ resetCtr'[r] = resetCtr[r]
      BY <1>1, <1>7, <1>9, <2>3
    <3> QED
      BY <1>4, <1>7, <1>10, <2>1, <2>3, <3>1, <3>3, <3>4, LinkedSame
  <2> QED
    BY <2>2, <2>3
<1>12. (\E dd, bb, tt : Leading(dd, bb, tt))' /\ context'.submission = context.submission
  <2>1. Sound(cmd', lists', gpu', clock', active'.object, e)
    BY <1>7, <1>8
  <2>2. x[1] # "draw" /\ NextCommand(context) = x /\ e.clock = d.clock /\ context' = DropCommand(context)
    BY <1>1, <1>2, <1>8
  <2>3. HasCommand(context) /\ UNCHANGED appVars
    BY <1>5, <1>9
  <2> QED
    BY <1>3, <1>11, <2>1, <2>2, <2>3, CsLeads
<1>13. VariableTypes'
  <2>1. resetCtr' \in [Queries -> 0..calls]
    <3>1. resetCtr[q] - 1 \in 0..calls
      BY <1>5, <1>9
    <3> QED
      BY <1>1, <1>9, <3>1
  <2> QED
    BY <1>1, <1>4, <2>1 DEF VariableTypes, appVars
<1>14. Bounds'
  <2>1. ASSUME NEW h \in Objects PROVE gpu'[h].value <= clock'
    <3>1. gpu \in [Objects -> Results] /\ clock \in Nat
      BY <1>7 DEF Sound
    <3> QED
      BY <1>4, <1>7, <3>1 DEF Bounds, Clear
  <2> QED
    BY <1>1, <1>4, <1>12, <2>1 DEF Bounds
<1>15. Holds'
  <2>1. Fresh(cmd', lists', NoObject)
    BY <1>7, <1>8, NoObjectFresh
  <2>2. ASSUME NEW r \in Queries, NEW i \in DOMAIN query[r].objects PROVE query[r].objects[i] # NoObject
    <3>1. query[r].objects[i] \in Objects
      BY <1>4 DEF VariableTypes, VirtualQueries
    <3> QED
      BY <3>1, NoObjectOutside
  <2>3. \A r \in Queries : ~Stamps(r)'
    BY <1>1 DEF Stamps
  <2>4. query' = query /\ active' = active /\ stamping' = NoObject
    BY <1>1
  <2>5. \A r \in Timestamps : r \in Queries
    BY DEF Queries
  <2> QED
    BY <1>4, <2>1, <2>2, <2>3, <2>4, <2>5 DEF Holds
<1> QED
  BY <1>12, <1>13, <1>14, <1>15 DEF QueryInv

\* Three sequences of operations.
LEMMA JoinedTwo ==
  ASSUME NEW a \in Seq(Ops), NEW b \in Seq(Ops), NEW c \in Seq(Ops)
  PROVE  Joins(Joins(a, b), c) = Joins(a, Joins(b, c))
BY DEF Joins

\* The open object ends, and a fresh one is set.
LEMMA SetEffect ==
  ASSUME NEW d, Sound(cmd, lists, gpu, clock, active.object, d), NEW g \in Objects, Fresh(cmd, lists, g),
         NEW end, end = IF active.object = NoObject THEN <<>> ELSE <<<<"end", active.object>>>>,
         cmd' = Record(end \o <<<<"set", g>>>>, {g})
  PROVE  \E e \in States :
           /\ Sound(cmd', lists, [gpu EXCEPT ![g] = Clear], clock, NoObject, e) /\ e.clock = d.clock
           /\ \A h \in Objects : h # g => e.gpu[h].value = d.gpu[h].value
<1> DEFINE o == active.object
           l == Closed(cmd, o)
<1>1. cmd \in CommandLists /\ cmd.ops \in Seq(Ops) /\ o \in Objects \union {NoObject} /\ d \in States
  BY DEF Sound, CommandLists
<1>2. PICK c \in States : Sound(l, lists, gpu, clock, NoObject, c) /\ SameValues(d, c)
  BY CloseOpen
<1>3. l \in CommandLists /\ l.tracked = cmd.tracked /\ l.id = cmd.id /\ l.ops = cmd.ops \o end
  BY <1>1, ClosedForm
<1> HIDE DEF l
<1>4. PICK k \in {"stamp", "set"} : k = "set"
  OBVIOUS
<1>5. SetTo(l, lists, gpu, clock, NoObject, c, g, k)
  <2>1. Fresh(l, lists, g)
    BY <1>3 DEF Fresh
  <2> QED
    BY <1>2, <2>1, SetCounts
<1>6. PICK e \in States :
        /\ Sound(With(l, <<k, g>>, g), lists, [gpu EXCEPT ![g] = Clear], clock, NoObject, e) /\ e.clock = c.clock
        /\ \A h \in Objects : h # g => e.gpu[h].value = c.gpu[h].value
  BY <1>5 DEF SetTo
<1>7. PICK x \in Ops : x = <<k, g>>
  BY DEF Ops
<1>8. cmd' = With(l, x, g)
  <2>1. /\ With(l, x, g) \in CommandLists /\ With(l, x, g).ops = l.ops \o <<x>>
        /\ With(l, x, g).tracked = l.tracked \union {g} /\ With(l, x, g).id = l.id
    <3>1. PICK m \in CommandLists : m = l
      BY <1>3
    <3>2. With(m, x, g) \in CommandLists /\ With(m, x, g).ops = m.ops \o <<x>> /\ With(m, x, g).tracked = m.tracked \union {g}
      BY WithForm
    <3>3. With(m, x, g).id = m.id
      BY WithId
    <3> QED
      BY <3>1, <3>2, <3>3
  <2>2. end \in Seq(Ops)
    <3>1. o # NoObject => <<"end", o>> \in Ops
      BY <1>1 DEF Ops
    <3> QED
      BY <3>1
  <2>3. <<x>> \in Seq(Ops) /\ <<x>> = <<<<"set", g>>>>
    BY <1>4, <1>7
  <2>4. (cmd.ops \o end) \o <<x>> = cmd.ops \o (end \o <<x>>)
    <3>1. Joins(Joins(cmd.ops, end), <<x>>) = Joins(cmd.ops, Joins(end, <<x>>))
      BY <1>1, <2>2, <2>3, JoinedTwo
    <3> QED
      BY <3>1, Zenon DEF Joins
  <2> DEFINE new == end \o <<x>>
             m == With(l, x, g)
  <2>5. cmd' = [cmd EXCEPT !.ops = @ \o new, !.tracked = @ \union {g}]
    BY <2>3 DEF Record
  <2>6. m.ops = cmd.ops \o new
    BY <1>3, <2>1, <2>4
  <2>7. m \in CommandLists /\ m.tracked = cmd.tracked \union {g} /\ m.id = cmd.id
    BY <1>3, <2>1
  <2> HIDE DEF new, m
  <2>8. cmd' = [ops |-> cmd.ops \o new, tracked |-> cmd.tracked \union {g}, id |-> cmd.id]
    BY <1>1, <2>5 DEF CommandLists
  <2>9. m = [ops |-> m.ops, tracked |-> m.tracked, id |-> m.id]
    BY <2>7 DEF CommandLists
  <2> QED
    BY <2>6, <2>7, <2>8, <2>9 DEF m
<1> QED
  BY <1>2, <1>6, <1>7, <1>8 DEF SameValues

\* CsEndEvent
LEMMA CsEndEventKeeps ==
  ASSUME QueryAssumption, QueryInv, NEW q \in Queries, CsEndEvent(q)
  PROVE  QueryInv'
<1> DEFINE x == <<"end", q>>
           w == AddObject(q, Begun(query[q]), Alloc("event"))
           end == IF active.object = NoObject THEN <<>> ELSE <<<<"end", active.object>>>>
<1>1. /\ Next1(x) /\ q \in Events /\ Free("event") # {}
      /\ query' = [query EXCEPT ![q] = Ended(w)] /\ gpu' = ResetObject(Alloc("event"))
      /\ cmd' = Record(end \o <<<<"set", Alloc("event")>>>>, {Alloc("event")})
      /\ active' = [active EXCEPT !.object = NoObject] /\ inPass' = FALSE
      /\ resetCtr' = [resetCtr EXCEPT ![q] = @ - 1]
      /\ context' = DropCommand(context)
      /\ UNCHANGED <<appVars, stamping, lists, clock, completed>>
  BY DEF CsEndEvent
<1>2. x[1] = "end" /\ x[2] = q /\ x[1] # "draw"
  OBVIOUS
<1>3. HasCommand(context) /\ stamping = NoObject /\ NextCommand(context) = x /\ stamping' = NoObject
  BY <1>1 DEF Next1
<1>4. PICK d, b, t : Leading(d, b, t)
  BY DEF QueryInv
<1>5. VariableTypes /\ Bounds /\ Holds /\ q \notin Scoped /\ q \notin Timestamps
  BY <1>1, QueryTypes DEF QueryInv
<1>6. PICK g \in Objects : g = Alloc("event") /\ g \notin Held
  <2>1. "event" \in Pools
    BY DEF Pools
  <2> QED
    BY <1>1, <2>1, AllocFresh
<1>7. /\ Sound(cmd, lists, gpu, clock, active.object, d) /\ d \in States
      /\ Fresh(cmd, lists, g) /\ lists' = lists /\ clock' = clock /\ completed' = completed
      /\ gpu' = [gpu EXCEPT ![g] = Clear]
      /\ \A r \in Queries : \A i \in DOMAIN query[r].objects : query[r].objects[i] # g
  BY <1>1, <1>4, <1>6, NotHeld DEF Leading, ResetObject, Clear
<1>8. Ended(w) \in VirtualQueries /\ Ended(w).objects = <<g>> /\ Ended(w).ended
  <2> DEFINE v == Begun(query[q])
             u == AddObject(q, v, g)
  <2>1. v \in VirtualQueries /\ v.objects = <<>>
    BY <1>5, VirtualTypes DEF VariableTypes
  <2> HIDE DEF v
  <2>2. AddedTo(q, v, u, g, d)
    BY <1>7, <2>1, Added
  <2>3. u \in VirtualQueries /\ u.objects = <<g>> /\ w = u
    BY <1>6, <2>1, <2>2 DEF AddedTo, v
  <2> QED
    BY <2>3, VirtualTypes
<1>9. resetCtr[q] > 0 /\ b[q].resets = resetCtr[q]
  BY <1>3, <1>4, EndCounts
<1>10. /\ query'[q] = Ended(w) /\ \A r \in Queries : r # q => query'[r] = query[r]
       /\ calls \in Nat /\ resetCtr \in [Queries -> 0..calls]
       /\ resetCtr'[q] = resetCtr[q] - 1 /\ \A r \in Queries : r # q => resetCtr'[r] = resetCtr[r]
  BY <1>1, <1>5 DEF VariableTypes, QueryAssumption
<1> HIDE DEF w, x
<1>11. /\ active'.object = NoObject /\ active'.queries = active.queries
       /\ active' \in [queries : SUBSET Scoped, object : Objects \union {NoObject}]
  BY <1>1, <1>5 DEF VariableTypes
<1>12. PICK e \in States :
         /\ Sound(cmd', lists', gpu', clock', active'.object, e) /\ e.clock = d.clock
         /\ \A h \in Objects : h # g => e.gpu[h].value = d.gpu[h].value
  <2>1. PICK f : f = end
    OBVIOUS
  <2>2. cmd' = Record(f \o <<<<"set", g>>>>, {g})
    BY <1>1, <1>6, <2>1
  <2>3. PICK e \in States :
           /\ Sound(cmd', lists, [gpu EXCEPT ![g] = Clear], clock, NoObject, e) /\ e.clock = d.clock
           /\ \A h \in Objects : h # g => e.gpu[h].value = d.gpu[h].value
    BY <1>7, <2>1, <2>2, SetEffect
  <2> QED
    BY <1>7, <1>11, <2>3
<1>13. \A r \in Queries : ~Stamps(r) /\ ~Stamps(r)'
  BY <1>3 DEF Stamps
<1>14. ASSUME NEW r \in Queries, NEW n \in Notes, n = Noted(x, r, d.clock, b[r]) PROVE Linked(r, e, n)'
  <2>1. Linked(r, d, b[r])
    BY <1>4 DEF Leading
  <2>2. CASE r = q
    <3>1. n = [on |-> FALSE, ended |-> TRUE, count |-> b[q].count, resets |-> b[q].resets - 1]
      BY <1>2, <1>5, <1>14, <2>2 DEF Noted
    <3>2. q \notin active'.queries
      BY <1>5, <1>11
    <3> QED
      BY <1>5, <1>8, <1>9, <1>10, <2>2, <3>1, <3>2 DEF Linked
  <2>3. CASE r # q
    <3>1. n = b[r]
      BY <1>2, <1>14, <2>3 DEF Noted
    <3>2. \A i \in DOMAIN query[r].objects : query[r].objects[i] \in Objects /\ query[r].objects[i] # g
      BY <1>5, <1>7 DEF VariableTypes, VirtualQueries
    <3>3. \A i \in DOMAIN query[r].objects : e.gpu[query[r].objects[i]].value = d.gpu[query[r].objects[i]].value
      BY <1>12, <3>2
    <3> QED
      BY <1>5, <1>7, <1>10, <1>11, <1>13, <2>1, <2>3, <3>1, <3>3, LinkedSame
  <2> QED
    BY <2>2, <2>3
<1>15. (\E dd, bb, tt : Leading(dd, bb, tt))' /\ context'.submission = context.submission
  <2>1. x[1] # "draw" /\ NextCommand(context) = x /\ e.clock = d.clock /\ context' = DropCommand(context)
    BY <1>1, <1>2, <1>3, <1>12
  <2>2. HasCommand(context) /\ UNCHANGED appVars
    BY <1>1, <1>3
  <2> QED
    BY <1>4, <1>12, <1>14, <2>1, <2>2, CsLeads
<1>16. VariableTypes'
  <2>1. resetCtr' \in [Queries -> 0..calls]
    <3>1. resetCtr[q] - 1 \in 0..calls
      BY <1>9, <1>10
    <3> QED
      BY <1>1, <1>10, <3>1
  <2>2. query' \in [Queries -> VirtualQueries]
    BY <1>1, <1>5, <1>8 DEF VariableTypes
  <2> QED
    BY <1>1, <1>3, <1>5, <1>11, <2>1, <2>2 DEF VariableTypes, appVars
<1>17. Bounds'
  <2>1. ASSUME NEW h \in Objects PROVE gpu'[h].value <= clock'
    <3>1. gpu \in [Objects -> Results] /\ clock \in Nat
      BY <1>7 DEF Sound
    <3> QED
      BY <1>5, <1>7, <3>1 DEF Bounds, Clear
  <2> QED
    BY <1>1, <1>5, <1>7, <1>15, <2>1 DEF Bounds
<1>18. Holds'
  <2>1. Fresh(cmd', lists', NoObject)
    BY <1>12, NoObjectFresh
  <2>2. ASSUME NEW r \in Queries, NEW i \in DOMAIN query'[r].objects PROVE query'[r].objects[i] # NoObject
    <3>1. query'[r].objects[i] \in Objects
      BY <1>16 DEF VariableTypes, VirtualQueries
    <3> QED
      BY <3>1, NoObjectOutside
  <2>3. \A r \in Timestamps : r # q /\ r \in Queries
    BY <1>5 DEF Queries
  <2> QED
    BY <1>3, <1>5, <1>10, <1>11, <1>13, <2>1, <2>2, <2>3 DEF Holds
<1> QED
  BY <1>15, <1>16, <1>17, <1>18 DEF QueryInv

\* What is known of a query after a draw that the open object o counts.
LEMMA LinkedDrawn ==
  ASSUME QueryAssumption, VariableTypes, Holds, stamping = NoObject, NEW q \in Queries,
         NEW d \in States, NEW e \in States, NEW n \in Notes, Linked(q, d, n), inPass,
         UNCHANGED <<query, active, resetCtr>>, ~Stamps(q)',
         \A h \in Objects : e.gpu[h].value = IF h = active.object THEN d.gpu[h].value + 1 ELSE d.gpu[h].value,
         NEW m, m = [on |-> n.on, ended |-> n.ended, count |-> IF n.on THEN n.count + 1 ELSE n.count, resets |-> n.resets]
  PROVE  Linked(q, e, m)'
<1> DEFINE v == query[q]
           o == active.object
<1>1. v \in VirtualQueries /\ d.gpu \in [Objects -> Results] /\ e.gpu \in [Objects -> Results] /\ n.count \in Nat
  BY DEF VariableTypes, States, Notes
<1>2. v.objects \in Seq(Objects) /\ v.data \in Nat /\ DOMAIN v.objects = 1..Len(v.objects) /\ Len(v.objects) \in Nat
  BY <1>1 DEF VirtualQueries
<1>3. \A i \in 1..Len(v.objects) : v.objects[i] \in Objects
  BY <1>2
<1>4. ~Stamps(q)
  BY DEF Stamps
<1>5. n.on <=> q \in active.queries
  BY DEF Linked
<1>6. \A i \in 1..Len(v.objects) : v.objects[i] = o => q \in active.queries /\ i = Len(v.objects)
  BY <1>2 DEF Holds
<1>7. q \in active.queries => q \in Scoped /\ o # NoObject /\ v.objects # <<>> /\ v.objects[Len(v.objects)] = o
  BY DEF Holds, VariableTypes
<1> HIDE DEF v, o
<1>8. \A h \in Objects : e.gpu[h].value = IF h = o THEN d.gpu[h].value + 1 ELSE d.gpu[h].value
  BY DEF o
<1>9. ASSUME ~n.on PROVE \A i \in 1..Len(v.objects) : e.gpu[v.objects[i]].value = d.gpu[v.objects[i]].value
  BY <1>3, <1>5, <1>6, <1>8, <1>9
<1>10. ASSUME q \in Scoped PROVE Sums(v.data, v.objects, e.gpu, m.count)
  <2>1. Sums(v.data, v.objects, d.gpu, n.count)
    BY <1>4, <1>10 DEF Linked, v
  <2>2. CASE ~n.on
    <3>1. m.count = n.count
      BY <2>2
    <3> QED
      BY <1>1, <1>2, <1>9, <2>1, <2>2, <3>1, SumsSame
  <2>3. CASE n.on
    <3>1. m.count = n.count + 1
      BY <2>3
    <3>2. v.objects # <<>> /\ Len(v.objects) \in 1..Len(v.objects) /\ v.objects[Len(v.objects)] = o
      BY <1>2, <1>5, <1>7, <2>3
    <3>3. e.gpu[v.objects[Len(v.objects)]].value = d.gpu[v.objects[Len(v.objects)]].value + 1
      BY <1>3, <1>8, <3>2
    <3>4. \A i \in 1..(Len(v.objects) - 1) : e.gpu[v.objects[i]].value = d.gpu[v.objects[i]].value
      BY <1>2, <1>3, <1>6, <1>8
    <3>5. Sums(v.data, v.objects, e.gpu, n.count + 1)
      <4>1. PICK objects \in Seq(Objects) : objects = v.objects
        BY <1>2
      <4>2. PICK gp \in [Objects -> Results] : gp = d.gpu
        BY <1>1
      <4>3. PICK data \in Nat : data = v.data
        BY <1>2
      <4>4. PICK hp : hp = e.gpu
        OBVIOUS
      <4>5. PICK c : c = n.count
        OBVIOUS
      <4>6. /\ Sums(data, objects, gp, c) /\ objects # <<>>
            /\ hp[objects[Len(objects)]].value = gp[objects[Len(objects)]].value + 1
        BY <2>1, <3>2, <3>3, <4>1, <4>2, <4>3, <4>4, <4>5
      <4>7. \A i \in 1..(Len(objects) - 1) : hp[objects[i]].value = gp[objects[i]].value
        BY <3>4, <4>1, <4>2, <4>4
      <4>8. Sums(data, objects, hp, c + 1)
        BY <4>6, <4>7, SumsLast
      <4> QED
        BY <4>1, <4>3, <4>4, <4>5, <4>8
    <3> QED
      BY <3>1, <3>5
  <2> QED
    BY <2>2, <2>3
<1>11. ASSUME q \in Timestamps PROVE m.count = IF v.objects = <<>> THEN v.data ELSE e.gpu[v.objects[1]].value
  <2>1. ~n.on /\ m.count = n.count
    BY <1>5, <1>7, <1>11, QueryTypes
  <2>2. n.count = IF v.objects = <<>> THEN v.data ELSE d.gpu[v.objects[1]].value
    BY <1>4, <1>11 DEF Linked, v
  <2>3. v.objects # <<>> => 1 \in 1..Len(v.objects)
    BY <1>2
  <2> QED
    BY <1>9, <2>1, <2>2, <2>3
<1>12. query'[q] = v /\ m.on = n.on /\ m.ended = n.ended /\ m.resets = n.resets
  BY DEF v
<1> QED
  BY <1>4, <1>10, <1>11, <1>12 DEF Linked, v

\* CsDraw, in a render pass.
LEMMA CsDrawKeepsPass ==
  ASSUME QueryAssumption, QueryInv, CsDraw, inPass
  PROVE  QueryInv'
<1> DEFINE x == <<"draw">>
<1>1. /\ Next1(x) /\ cmd' = Record(<<<<"draw", NoObject>>>>, {}) /\ context' = DropCommand(context)
      /\ UNCHANGED <<appVars, resetCtr, stamping, lists, clock, completed, active, inPass, query, gpu>>
  BY DEF CsDraw
<1>2. x[1] = "draw"
  OBVIOUS
<1> HIDE DEF x
<1>3. HasCommand(context) /\ stamping = NoObject /\ NextCommand(context) = x /\ stamping' = NoObject
  BY <1>1 DEF Next1
<1>4. PICK d, b, t : Leading(d, b, t)
  BY DEF QueryInv
<1>5. /\ VariableTypes /\ Bounds /\ Holds /\ d \in States /\ d.clock \in Nat
      /\ Sound(cmd, lists, gpu, clock, active.object, d) /\ cmd \in CommandLists /\ b \in [Queries -> Notes]
  BY <1>4 DEF QueryInv, Leading, Sound, States
<1>6. cmd' = Drawn(cmd)
  <2> DEFINE more == <<<<"draw", NoObject>>>>
             ops == cmd.ops \o more
             m == Drawn(cmd)
  <2>1. m \in CommandLists /\ m.tracked = cmd.tracked /\ m.id = cmd.id /\ m.ops = ops
    BY <1>5, DrawnForm
  <2>2. cmd' = [cmd EXCEPT !.ops = ops, !.tracked = @ \union {}]
    BY <1>1 DEF Record
  <2> HIDE DEF m, ops
  <2>3. cmd' = [ops |-> ops, tracked |-> cmd.tracked, id |-> cmd.id]
    BY <1>5, <2>2 DEF CommandLists
  <2>4. m = [ops |-> ops, tracked |-> cmd.tracked, id |-> cmd.id]
    BY <2>1 DEF CommandLists
  <2> QED
    BY <2>3, <2>4 DEF m
<1>7. PICK e \in States :
        /\ Sound(cmd', lists, gpu, clock, active.object, e) /\ e.clock = d.clock + 1
        /\ \A h \in Objects : e.gpu[h].value = IF h = active.object THEN d.gpu[h].value + 1 ELSE d.gpu[h].value
  <2>1. PICK e \in States :
          /\ Sound(Drawn(cmd), lists, gpu, clock, active.object, e) /\ e.clock = d.clock + 1
          /\ \A h \in Objects : e.gpu[h].value = IF h = active.object THEN d.gpu[h].value + 1 ELSE d.gpu[h].value
    BY <1>5, DrawCounts
  <2> QED
    BY <1>6, <2>1
<1>8. PICK bb \in [Queries -> Notes] :
        /\ \A q \in Queries : bb[q] = Noted(x, q, d.clock, b[q])
        /\ DropCommand(context).submission = context.submission
        /\ Whole(DropCommand(context), Known(IF x[1] = "draw" THEN d.clock + 1 ELSE d.clock, bb), t)
  BY <1>3, <1>4, Dropped
<1>9. Whole(context', Known(e.clock, bb), t) /\ context'.submission = context.submission
  BY <1>1, <1>2, <1>7, <1>8
<1>10. \A q \in Queries : ~Stamps(q) /\ ~Stamps(q)'
  BY <1>3 DEF Stamps
<1>11. Leading(e, bb, t)'
  <2>1. ASSUME NEW q \in Queries PROVE Linked(q, e, bb[q])'
    <3>1. bb[q] = [on |-> b[q].on, ended |-> b[q].ended,
                   count |-> IF b[q].on THEN b[q].count + 1 ELSE b[q].count, resets |-> b[q].resets]
      BY <1>2, <1>8 DEF Noted
    <3>2. Linked(q, d, b[q]) /\ b[q] \in Notes
      BY <1>4, <1>5 DEF Leading
    <3>3. UNCHANGED <<query, active, resetCtr>>
      BY <1>1
    <3>4. PICK n \in Notes : n = b[q]
      BY <3>2
    <3>5. Linked(q, d, n)
          /\ bb[q] = [on |-> n.on, ended |-> n.ended, count |-> IF n.on THEN n.count + 1 ELSE n.count, resets |-> n.resets]
      BY <3>1, <3>2, <3>4
    <3> QED
      BY <1>3, <1>5, <1>7, <1>10, <3>3, <3>5, LinkedDrawn
  <2>2. \A q \in Queries : Agrees(q, t.notes[q])'
    BY <1>1, <1>4 DEF Leading, Agrees, appVars
  <2>3. t \in States /\ t.clock = draws'
    BY <1>1, <1>4 DEF Leading, appVars
  <2>4. Sound(cmd', lists', gpu', clock', active'.object, e)
    BY <1>1, <1>7
  <2> QED
    BY <1>7, <1>8, <1>9, <2>1, <2>2, <2>3, <2>4 DEF Leading
<1>12. VariableTypes'
  BY <1>1, <1>5 DEF VariableTypes, appVars
<1>13. Bounds'
  BY <1>1, <1>5, <1>9 DEF Bounds
<1>14. Holds'
  <2>1. Fresh(cmd', lists', stamping')
    <3>1. cmd'.tracked = cmd.tracked
      BY <1>5, <1>6, DrawnForm
    <3> QED
      BY <1>1, <1>5, <3>1 DEF Holds, Fresh
  <2>2. \A q \in Timestamps : q \in Queries
    BY DEF Queries
  <2> QED
    BY <1>1, <1>3, <1>5, <1>10, <2>1, <2>2 DEF Holds
<1> QED
  BY <1>11, <1>12, <1>13, <1>14 DEF QueryInv

\* CsDraw, which begins a render pass.
LEMMA CsDrawKeepsNoPass ==
  ASSUME QueryAssumption, QueryInv, CsDraw, ~inPass
  PROVE  QueryInv'
<1> DEFINE x == <<"draw">>
           after == <<<<"draw", NoObject>>>>
<1>1. /\ Next1(x) /\ RestartQueries(active.queries, TRUE, query, after) /\ context' = DropCommand(context)
      /\ UNCHANGED <<appVars, resetCtr, stamping, lists, clock, completed>>
  BY DEF CsDraw
<1>2. x[1] = "draw"
  OBVIOUS
<1> HIDE DEF x, after
<1>3. stamping = NoObject
  BY <1>1 DEF Next1
<1>5. VariableTypes /\ query \in [Queries -> VirtualQueries] /\ active.queries \in SUBSET Scoped
  BY DEF QueryInv, VariableTypes
<1>8. ASSUME NEW d, NEW b, NEW t, Leading(d, b, t), NEW r \in Queries
      PROVE  Follows(x, r, active.queries, query[r], 1, d, b)
  <2> DEFINE n == Noted(x, r, d.clock, b[r])
  <2>1. n = [on |-> b[r].on, ended |-> b[r].ended, count |-> IF b[r].on THEN b[r].count + 1 ELSE b[r].count,
             resets |-> b[r].resets]
    BY <1>2 DEF Noted
  <2>2. Linked(r, d, b[r]) /\ resetCtr'[r] = resetCtr[r] /\ ~Stamps(r) /\ b[r].count \in Nat
    BY <1>1, <1>3, <1>8 DEF Leading, Stamps, Notes
  <2> HIDE DEF n
  <2>3. n.on = b[r].on /\ n.ended = b[r].ended /\ n.resets = b[r].resets
        /\ n.count = IF b[r].on THEN b[r].count + 1 ELSE b[r].count
    BY <2>1
  <2>4. ASSUME r \in Timestamps PROVE n.count = b[r].count
    BY <1>5, <2>2, <2>3, <2>4, QueryTypes DEF Linked
  <2>5. ASSUME r \in Scoped
        PROVE  \E c \in Nat : Sums(query[r].data, query[r].objects, d.gpu, c)
                              /\ n.count = IF r \in active.queries THEN c + 1 ELSE c
    <3>1. Sums(query[r].data, query[r].objects, d.gpu, b[r].count) /\ (b[r].on <=> r \in active.queries)
      BY <2>2, <2>5 DEF Linked
    <3> QED
      BY <2>2, <2>3, <3>1
  <2> QED
    BY <2>2, <2>3, <2>4, <2>5 DEF Follows, Linked, n
<1>9. resetCtr' \in [Queries -> 0..calls]
  BY <1>1, <1>5 DEF VariableTypes
<1>10. \A d, b, t : Leading(d, b, t) => \A r \in Queries : Follows(x, r, active.queries, query[r], 1, d, b)
  BY <1>8
<1>11. UNCHANGED <<appVars, stamping, lists, clock, completed>>
  BY <1>1
<1>12. PICK p \in BOOLEAN : p = TRUE
  OBVIOUS
<1>13. PICK a : a = 1
  OBVIOUS
<1>14. RestartQueries(active.queries, p, query, after) /\ p /\ after = <<<<"draw", NoObject>>>>
  BY <1>1, <1>12 DEF after
<1>15. \A d, b, t : Leading(d, b, t) => \A r \in Queries : Follows(x, r, active.queries, query[r], a, d, b)
  BY <1>10, <1>13
<1> QED
  BY <1>1, <1>2, <1>5, <1>9, <1>11, <1>13, <1>14, <1>15, RestartKeeps

-----------------------------------------------------------------------------
(* The device and the queue thread *)

\* What the invariant says that the lists do not matter for.
LEMMA ListsKeep ==
  ASSUME QueryInv, UNCHANGED <<context, appVars, query, resetCtr, csVars>>,
         \A d : Sound(cmd, lists, gpu, clock, active.object, d) => Sound(cmd, lists', gpu', clock', active.object, d),
         Bounds', \A g : Fresh(cmd, lists, g) => Fresh(cmd, lists', g)
  PROVE  QueryInv'
<1>1. PICK d, b, t : Leading(d, b, t)
  BY DEF QueryInv
<1>2. VariableTypes /\ Holds
  BY DEF QueryInv
<1>3. /\ context' = context /\ app' = app /\ calls' = calls /\ draws' = draws /\ query' = query /\ resetCtr' = resetCtr
      /\ active' = active /\ inPass' = inPass /\ stamping' = stamping /\ cmd' = cmd
  BY DEF appVars, csVars
<1>4. VariableTypes'
  BY <1>2, <1>3 DEF VariableTypes
<1>5. \A q \in Queries : Stamps(q)' <=> Stamps(q)
  BY <1>3 DEF Stamps
<1>6. Holds'
  <2>1. \A q \in Timestamps : q \in Queries
    BY DEF Queries
  <2>2. Fresh(cmd', lists', stamping')
    BY <1>2, <1>3 DEF Holds
  <2> QED
    BY <1>2, <1>3, <1>5, <2>1, <2>2 DEF Holds
<1>7. Leading(d, b, t)'
  <2>1. \A q \in Queries : Linked(q, d, b[q])'
    BY <1>1, <1>3, <1>5 DEF Leading, Linked
  <2>2. \A q \in Queries : Agrees(q, t.notes[q])'
    BY <1>1, <1>3 DEF Leading, Agrees
  <2>3. Sound(cmd', lists', gpu', clock', active'.object, d)
    BY <1>1, <1>3 DEF Leading
  <2> QED
    BY <1>1, <1>3, <2>1, <2>2, <2>3 DEF Leading
<1> QED
  BY <1>4, <1>6, <1>7 DEF QueryInv

\* Execute
LEMMA ExecuteKeeps ==
  ASSUME QueryAssumption, QueryInv, Execute
  PROVE  QueryInv'
<1> DEFINE Next2(i) == Head(lists[i].ops)
           Counts(x, h) == x[1] = "draw" /\ gpu[h].state = "open"
           After(x, h) ==
             IF h # x[2] THEN [gpu[h] EXCEPT !.value = IF Counts(x, h) THEN @ + 1 ELSE @]
             ELSE [state |-> IF x[1] = "begin" THEN "open" ELSE "done",
                   value |-> IF x[1] = "stamp" THEN clock ELSE gpu[h].value]
<1>1. PICK i \in DOMAIN lists :
        /\ lists[i].ops # <<>> /\ \A j \in 1..(i - 1) : lists[j].ops = <<>>
        /\ gpu' = [h \in Objects |-> After(Next2(i), h)]
        /\ clock' = IF Next2(i)[1] = "draw" THEN clock + 1 ELSE clock
        /\ lists' = [lists EXCEPT ![i].ops = Tail(@)]
        /\ UNCHANGED <<context, appVars, query, resetCtr, csVars, completed>>
  BY DEF Execute
<1>2. PICK x : x = Next2(i)
  OBVIOUS
<1>3. PICK d, b, t : Leading(d, b, t)
  BY DEF QueryInv
<1>4. /\ Sound(cmd, lists, gpu, clock, active.object, d) /\ gpu \in [Objects -> Results] /\ clock \in Nat
      /\ lists \in Seq(CommandLists)
  BY <1>3 DEF Leading, Sound
<1>5. PICK s : s = Executed(x, Start(clock, gpu))
  OBVIOUS
<1>6. gpu' = [h \in Objects |-> After(x, h)] /\ clock' = IF x[1] = "draw" THEN clock + 1 ELSE clock
  BY <1>1, <1>2
<1>7. x \in Ops /\ s \in States /\ \A dd : Sound(cmd, lists, gpu, clock, active.object, dd)
                                             => Sound(cmd, [lists EXCEPT ![i].ops = Tail(@)], s.gpu, s.clock, active.object, dd)
  <2>1. x = Head(lists[i].ops) /\ lists[i].ops # <<>> /\ \A j \in 1..(i - 1) : lists[j].ops = <<>>
    BY <1>1, <1>2
  <2>2. x \in Ops /\ s \in States
    BY <1>4, <1>5, <2>1, ExecuteNext
  <2>3. ASSUME NEW dd, Sound(cmd, lists, gpu, clock, active.object, dd)
        PROVE  Sound(cmd, [lists EXCEPT ![i].ops = Tail(@)], s.gpu, s.clock, active.object, dd)
    BY <1>5, <2>1, <2>3, ExecuteNext
  <2> QED
    BY <2>2, <2>3
<1>8. s.clock = clock' /\ s.gpu = gpu'
  <2>1. /\ s.clock = IF x[1] = "draw" THEN clock + 1 ELSE clock
        /\ s.gpu = [h \in Objects |-> OpResult(x, h, Start(clock, gpu))]
    BY <1>5 DEF Executed, Start
  <2>2. ASSUME NEW h \in Objects PROVE OpResult(x, h, Start(clock, gpu)) = After(x, h)
    <3>1. gpu[h] \in Results
      BY <1>4
    <3> QED
      BY <3>1 DEF OpResult, Start, Results
  <2> QED
    BY <1>6, <2>1, <2>2
<1>9. \A g : Fresh(cmd, lists, g) => Fresh(cmd, lists', g)
  <2>1. DOMAIN lists' = DOMAIN lists /\ \A j \in DOMAIN lists : lists'[j].tracked = lists[j].tracked
    <3>1. \A j \in DOMAIN lists : lists[j] \in CommandLists
      BY <1>4
    <3> QED
      BY <1>1, <1>4, <3>1 DEF CommandLists
  <2> QED
    BY <2>1 DEF Fresh
<1>10. Bounds'
  <2>1. Bounds
    BY DEF QueryInv
  <2>2. ASSUME NEW h \in Objects PROVE gpu'[h].value <= clock'
    <3>1. gpu[h].state \in {"reset", "open", "done"} /\ gpu[h].value \in Nat /\ gpu[h].value <= clock
      BY <1>4, <2>1 DEF Results, Bounds
    <3>2. gpu'[h] = OpResult(x, h, Start(clock, gpu))
      BY <1>5, <1>8 DEF Executed
    <3>3. clock' >= clock /\ (x[1] = "draw" => clock' = clock + 1) /\ clock' \in Nat
      BY <1>4, <1>6
    <3>4. gpu[h] = [state |-> gpu[h].state, value |-> gpu[h].value]
      BY <1>4 DEF Results
    <3>5. OpResult(x, h, Start(clock, gpu)).value \in {clock, gpu[h].value} \union (IF x[1] = "draw" THEN {gpu[h].value + 1} ELSE {})
      BY <3>4 DEF OpResult, Start
    <3> QED
      BY <1>4, <3>1, <3>2, <3>3, <3>5
  <2>3. DOMAIN lists' = DOMAIN lists /\ \A j \in DOMAIN lists : lists'[j].id = lists[j].id
    <3>1. \A j \in DOMAIN lists : lists[j] \in CommandLists
      BY <1>4
    <3> QED
      BY <1>1, <1>4, <3>1 DEF CommandLists
  <2> QED
    BY <1>1, <2>1, <2>2, <2>3 DEF Bounds
<1> QED
  <2>1. \A dd : Sound(cmd, lists, gpu, clock, active.object, dd) => Sound(cmd, lists', gpu', clock', active.object, dd)
    BY <1>1, <1>7, <1>8
  <2>2. UNCHANGED <<context, appVars, query, resetCtr, csVars>>
    BY <1>1
  <2> QED
    BY <1>9, <1>10, <2>1, <2>2, ListsKeep

\* Release
LEMMA ReleaseHolds ==
  ASSUME QueryAssumption, QueryInv, Release
  PROVE  QueryInv'
<1>1. /\ lists # <<>> /\ Head(lists).ops = <<>> /\ completed' = Head(lists).id /\ lists' = Tail(lists)
      /\ UNCHANGED <<context, appVars, query, resetCtr, csVars, deviceVars>>
  BY DEF Release
<1>2. PICK d, b, t : Leading(d, b, t)
  BY DEF QueryInv
<1>3. lists \in Seq(CommandLists) /\ Bounds
  BY <1>2 DEF Leading, Sound, QueryInv
<1>4. /\ 1 \in DOMAIN lists /\ Head(lists) = lists[1]
      /\ \A i \in DOMAIN Tail(lists) : i + 1 \in DOMAIN lists /\ Tail(lists)[i] = lists[i + 1]
  BY <1>1, <1>3
<1>5. \A dd : Sound(cmd, lists, gpu, clock, active.object, dd) => Sound(cmd, lists', gpu', clock', active.object, dd)
  <2> SUFFICES ASSUME NEW dd, Sound(cmd, lists, gpu, clock, active.object, dd)
               PROVE  Sound(cmd, Tail(lists), gpu, clock, active.object, dd)
    BY <1>1 DEF deviceVars
  <2> QED
    BY <1>1, ReleaseList
<1>6. Bounds'
  BY <1>1, <1>3, <1>4 DEF Bounds, deviceVars
<1>7. \A g : Fresh(cmd, lists, g) => Fresh(cmd, lists', g)
  BY <1>1, <1>4 DEF Fresh
<1> QED
  BY <1>1, <1>5, <1>6, <1>7, ListsKeep

-----------------------------------------------------------------------------
(* The invariant holds *)

\* It holds initially.
LEMMA InitLeads ==
  ASSUME QueryAssumption, Init
  PROVE  QueryInv
<1>1. /\ context = NewContext /\ cmd = EmptyList /\ lists = <<>> /\ clock = 0 /\ completed = 0 /\ calls = 0 /\ draws = 0
      /\ app = [q \in Queries |-> [state |-> "initial", expected |-> 0, stalls |-> {}, stalling |-> FALSE]]
      /\ query = [q \in Queries |-> [objects |-> <<>>, data |-> 0, ended |-> FALSE]]
      /\ resetCtr = [q \in Queries |-> 0] /\ active = [queries |-> {}, object |-> NoObject]
      /\ inPass = FALSE /\ stamping = NoObject
      /\ gpu = [g \in Objects |-> [state |-> "reset", value |-> 0]]
  BY DEF Init
<1> DEFINE d == Start(0, gpu)
           k == Known(0, Blank)
<1>2. gpu \in [Objects -> Results]
  BY <1>1 DEF Results
<1>3. d \in States /\ d.clock = 0 /\ d.gpu = gpu
  BY <1>2, StartType DEF Start
<1>4. Blank \in [Queries -> Notes] /\ \A q \in Queries : Blank[q] = [on |-> FALSE, ended |-> FALSE, count |-> 0, resets |-> 0]
  BY DEF Blank, Notes
<1>5. k \in States /\ k.clock = 0 /\ k.notes = Blank
  <2>1. k \in States
    BY <1>4, KnownType
  <2> QED
    BY <2>1 DEF Known
<1> HIDE DEF k
<1>6. VariableTypes
  <2>1. app \in [Queries -> AppQueries(0)]
    BY <1>1 DEF AppQueries
  <2>2. query \in [Queries -> VirtualQueries]
    BY <1>1 DEF VirtualQueries
  <2>3. MaxCalls \in Nat
    BY DEF QueryAssumption
  <2>4. calls \in 0..MaxCalls /\ draws \in 0..calls /\ resetCtr \in [Queries -> 0..calls]
    BY <1>1, <2>3
  <2>5. active \in [queries : SUBSET Scoped, object : Objects \union {NoObject}]
    BY <1>1
  <2>6. app \in [Queries -> AppQueries(draws)] /\ inPass \in BOOLEAN /\ stamping \in Objects \union {NoObject}
    BY <1>1, <2>1
  <2>7. active.object # NoObject <=> (inPass /\ active.queries # {})
    BY <1>1
  <2> QED
    BY <2>2, <2>4, <2>5, <2>6, <2>7 DEF VariableTypes
<1>7. Bounds
  BY <1>1 DEF Bounds, NewContext
<1>8. Holds
  <2>1. \A q \in Timestamps : q \in Queries
    BY DEF Queries
  <2>2. Fresh(cmd, lists, stamping)
    BY <1>1 DEF Fresh, EmptyList
  <2> QED
    BY <1>1, <2>1, <2>2 DEF Holds, Stamps
<1>9. Sound(cmd, lists, gpu, clock, active.object, d)
  <2>1. /\ cmd \in CommandLists /\ lists \in Seq(CommandLists) /\ clock \in Nat /\ active.object = NoObject
        /\ cmd.ops = <<>> /\ cmd.tracked = {}
    BY <1>1 DEF EmptyList, CommandLists
  <2>2. Tracks(cmd, lists, NoObject)
    BY <1>1, <2>1 DEF Tracks, Refers, Apart
  <2>3. UsedOnce(cmd, lists, gpu, NoObject)
    BY <1>1, <2>1 DEF UsedOnce, Once, Unused
  <2>4. Submitted(lists, cmd.ops, d, d)
    <3>1. Path(QueueRels(lists), d, d)
      <4>1. QueueRels(lists) \in Seq(Relations) /\ QueueRels(lists) = <<>>
        <5>1. <<>> \in Seq(CommandLists)
          OBVIOUS
        <5>2. QueueRels(<<>>) \in Seq(Relations) /\ Len(QueueRels(<<>>)) = 0
          BY <5>1, OpSeqs
        <5> QED
          BY <1>1, <5>2
      <4> QED
        BY <1>3, <4>1, PathEmpty
    <3>2. <<d, d>> \in ListRel(cmd.ops)
      BY <1>3, <2>1, EmptyOps
    <3> QED
      BY <1>3, <3>1, <3>2 DEF Submitted
  <2>5. \A h \in Objects : d.gpu[h].state = "open" <=> h = NoObject
    BY <1>1, <1>3, NoObjectOutside
  <2> HIDE DEF d
  <2> QED
    BY <1>1, <1>2, <1>3, <2>1, <2>2, <2>3, <2>4, <2>5 DEF Sound, d
<1> HIDE DEF d
<1>10. Whole(context, k, k)
  <2>1. context.chunk = <<>> /\ context.stream = <<>> /\ context.submission = 0
    BY <1>1 DEF NewContext
  <2>2. Shape(context, 0)
    BY <1>1 DEF NewContext, Shape, None
  <2>3. Path(StreamRels(context.stream), k, k)
    <3>1. StreamRels(context.stream) \in Seq(Relations) /\ StreamRels(context.stream) = <<>>
      <4>1. <<>> \in Seq(Seq(Commands(0)))
        OBVIOUS
      <4>2. StreamRels(<<>>) \in Seq(Relations) /\ Len(StreamRels(<<>>)) = 0
        BY <4>1, RelSeqs
      <4> QED
        BY <2>1, <4>2
    <3> QED
      BY <1>5, <3>1, PathEmpty
  <2>4. <<k, k>> \in ChunkRel(context.chunk)
    BY <1>5, <2>1, EmptyChunk
  <2> QED
    BY <1>5, <2>1, <2>2, <2>3, <2>4 DEF Whole, Recorded, Leads
<1>11. \A q \in Queries : Linked(q, d, Blank[q])
  <2> SUFFICES ASSUME NEW q \in Queries PROVE Linked(q, d, Blank[q])
    OBVIOUS
  <2>1. Sums(query[q].data, query[q].objects, d.gpu, 0)
    BY <1>1, <1>2, <1>3, SumsNone
  <2> QED
    BY <1>1, <1>4, <2>1 DEF Linked
<1>12. \A q \in Queries : Agrees(q, k.notes[q])
  BY <1>1, <1>4, <1>5 DEF Agrees
<1>13. Leading(d, Blank, k)
  <2>1. k = Known(d.clock, Blank)
    BY <1>3 DEF k
  <2> QED
    BY <1>1, <1>3, <1>4, <1>5, <1>9, <1>10, <1>11, <1>12, <2>1 DEF Leading
<1> QED
  BY <1>6, <1>7, <1>8, <1>13 DEF QueryInv

\* No step breaks the invariant.
LEMMA NextLeads ==
  ASSUME QueryAssumption, QueryInv, [Next]_vars
  PROVE  QueryInv'
<1>1. ASSUME UNCHANGED vars PROVE QueryInv'
  <2>1. /\ context' = context /\ app' = app /\ calls' = calls /\ draws' = draws /\ query' = query
        /\ resetCtr' = resetCtr /\ active' = active /\ inPass' = inPass /\ stamping' = stamping /\ cmd' = cmd
        /\ lists' = lists /\ gpu' = gpu /\ clock' = clock /\ completed' = completed
    BY <1>1 DEF vars, appVars, csVars, deviceVars
  <2>2. \A q : Stamps(q)' <=> Stamps(q)
    BY <2>1 DEF Stamps
  <2>3. VariableTypes' /\ Bounds' /\ Holds'
    BY <2>1, <2>2 DEF QueryInv, VariableTypes, Bounds, Holds
  <2>4. PICK d, b, t : Leading(d, b, t)
    BY DEF QueryInv
  <2>5. Leading(d, b, t)'
    BY <2>1, <2>2, <2>4 DEF Leading, Linked, Agrees
  <2> QED
    BY <2>3, <2>5 DEF QueryInv
<1>2. ASSUME NEW q \in Queries, Begin(q) PROVE QueryInv'
  BY <1>2, BeginKeeps
<1>3. ASSUME NEW q \in Queries, End(q) PROVE QueryInv'
  BY <1>3, EndKeeps
<1>4. ASSUME NEW q \in Queries, Poll(q) PROVE QueryInv'
  <2>1. PICK f \in BOOLEAN : GetData(q, f)
    BY <1>4 DEF Poll
  <2> QED
    BY <2>1, GetDataKeeps
<1>5. ASSUME Draw PROVE QueryInv'
  BY <1>5, DrawKeeps
<1>6. ASSUME SetRenderTargets PROVE QueryInv'
  BY <1>6, TargetsKeeps
<1>7. ASSUME Flush PROVE QueryInv'
  BY <1>7, FlushKeeps
<1>8. ASSUME NEW q \in Queries, CsBegin(q) PROVE QueryInv'
  BY <1>8, CsBeginKeeps
<1>9. ASSUME NEW q \in Queries, CsEndScoped(q) PROVE QueryInv'
  BY <1>9, CsEndScopedKeeps
<1>10. ASSUME NEW q \in Queries, CsEndTimestamp(q) PROVE QueryInv'
  BY <1>10, CsEndTimestampKeeps
<1>11. ASSUME NEW q \in Queries, CsStamp(q) PROVE QueryInv'
  BY <1>11, CsStampKeeps
<1>12. ASSUME NEW q \in Queries, CsEndEvent(q) PROVE QueryInv'
  BY <1>12, CsEndEventKeeps
<1>13. ASSUME CsDraw PROVE QueryInv'
  BY <1>13, CsDrawKeepsPass, CsDrawKeepsNoPass
<1>14. ASSUME CsTargets PROVE QueryInv'
  BY <1>14, CsTargetsKeeps
<1>15. ASSUME NEW n \in 1..context.submission, CsFlush(n) PROVE QueryInv'
  BY <1>15, CsFlushKeeps
<1>16. ASSUME Execute PROVE QueryInv'
  BY <1>16, ExecuteKeeps
<1>17. ASSUME Release PROVE QueryInv'
  BY <1>17, ReleaseHolds
<1> QED
  BY <1>1, <1>2, <1>3, <1>4, <1>5, <1>6, <1>7, <1>8, <1>9, <1>10, <1>11, <1>12, <1>13, <1>14, <1>15, <1>16, <1>17
     DEF Next, Background, CsStep

-----------------------------------------------------------------------------
(* What follows from it *)

\* The type invariant.
LEMMA QueryTypeOK ==
  ASSUME QueryAssumption, QueryInv
  PROVE  TypeOK
<1>1. VariableTypes /\ Bounds /\ MaxCalls \in Nat
  BY DEF QueryInv, QueryAssumption
<1>2. PICK d, b, t : Leading(d, b, t)
  BY DEF QueryInv
<1>3. /\ Sound(cmd, lists, gpu, clock, active.object, d) /\ gpu \in [Objects -> Results] /\ clock \in Nat /\ d.clock \in Nat
      /\ Whole(context, Known(d.clock, b), t) /\ b \in [Queries -> Notes] /\ t.clock = draws
  BY <1>2 DEF Leading, Sound, States
<1>4. clock <= d.clock
  BY <1>3, DeviceClock
<1>5. d.clock <= draws
  <2>1. Known(d.clock, b) \in States /\ Known(d.clock, b).clock = d.clock
    BY <1>3, KnownType DEF Known
  <2>2. Known(d.clock, b).clock <= t.clock
    BY <1>3, <2>1, ContextClock
  <2> QED
    BY <1>3, <2>1, <2>2
<1>6. calls \in 0..MaxCalls /\ draws \in 0..calls /\ clock \in 0..draws /\ draws \in 0..MaxCalls /\ clock \in 0..MaxCalls
  BY <1>1, <1>3, <1>4, <1>5 DEF VariableTypes
<1>7. ASSUME NEW q \in Queries
      PROVE  /\ app[q].state \in {"initial", "begun", "ended"} /\ app[q].expected \in 0..MaxCalls
             /\ app[q].stalls \subseteq 0..(StallBits - 1) /\ app[q].stalling \in BOOLEAN
             /\ query[q].objects \in Seq(Objects) /\ query[q].data \in Nat /\ query[q].ended \in BOOLEAN
             /\ resetCtr[q] \in 0..MaxCalls
  <2>1. app[q] \in AppQueries(draws) /\ query[q] \in VirtualQueries /\ resetCtr[q] \in 0..calls
    BY <1>1 DEF VariableTypes
  <2>2. app[q].expected \in 0..draws
    BY <2>1 DEF AppQueries
  <2>3. app[q].expected \in 0..MaxCalls /\ resetCtr[q] \in 0..MaxCalls
    BY <1>1, <1>6, <2>1, <2>2
  <2> QED
    BY <2>1, <2>3 DEF AppQueries, VirtualQueries
<1>8. ASSUME NEW g \in Objects PROVE gpu[g].state \in {"reset", "open", "done"} /\ gpu[g].value \in 0..MaxCalls
  BY <1>1, <1>3, <1>6 DEF Results, Bounds
<1>9. /\ active.queries \subseteq Scoped /\ active.object \in Objects \union {NoObject}
      /\ active.object # NoObject <=> (inPass /\ active.queries # {})
      /\ stamping \in Objects \union {NoObject} /\ completed \in 0..context.submission
  BY <1>1 DEF VariableTypes, Bounds
<1> QED
  BY <1>6, <1>7, <1>8, <1>9 DEF TypeOK

\* What GetData finds.
LEMMA QueryExact ==
  ASSUME QueryAssumption, QueryInv
  PROVE  ResultExact
<1> SUFFICES ASSUME NEW q \in Queries, app[q].state = "ended", ~Resets(q)
             PROVE  /\ Result(q) # "invalid"
                    /\ Result(q) = "available" =>
                         \/ q \in Events
                         \/ q \in Predicates /\ (Value(q) # 0) = (app[q].expected # 0)
                         \/ q \in Occlusion \union Timestamps /\ Value(q) = app[q].expected
  BY DEF ResultExact, Result
<1>1. VariableTypes /\ Holds /\ resetCtr[q] = 0
  BY DEF QueryInv, Resets
<1>2. PICK d, b, t : Leading(d, b, t)
  BY DEF QueryInv
<1>3. /\ Sound(cmd, lists, gpu, clock, active.object, d) /\ d \in States /\ d.clock \in Nat
      /\ Whole(context, Known(d.clock, b), t) /\ b \in [Queries -> Notes]
      /\ Linked(q, d, b[q]) /\ Agrees(q, t.notes[q])
  BY <1>2 DEF Leading, States
<1>4. t.notes[q] = b[q]
  <2>1. Known(d.clock, b) \in States /\ Known(d.clock, b).notes = b
    BY <1>3, KnownType DEF Known
  <2>2. b[q].resets = 0 /\ ~t.notes[q].on
    BY <1>1, <1>3 DEF Linked, Agrees
  <2> QED
    BY <1>3, <2>1, <2>2, Settled
<1>5. ~Stamps(q)
  BY <1>1, <1>2, StampsEnds
<1>6. query[q].ended /\ (q \notin Events => b[q].count = app[q].expected)
  BY <1>3, <1>4, <1>5 DEF Linked, Agrees
<1> DEFINE v == query[q]
           w == Accumulate(q, v)
<1>7. v \in VirtualQueries
  BY <1>1 DEF VariableTypes
<1>8. Taken(q, v, w, active.object, d)
  BY <1>3, <1>7, AccumulateKeeps
<1>9. Result(q) = Status(q, w) /\ Value(q) = w.data
  BY DEF Result, Value
<1>10. (q \in Scoped => Sums(v.data, v.objects, d.gpu, b[q].count))
       /\ (q \in Timestamps => b[q].count = IF v.objects = <<>> THEN v.data ELSE d.gpu[v.objects[1]].value)
  BY <1>3, <1>5 DEF Linked
<1>11. q \in Timestamps => Len(v.objects) <= 1
  BY <1>1 DEF Holds
<1> HIDE DEF v, w
<1>12. w \in VirtualQueries /\ w.ended = v.ended /\ v.ended
  BY <1>6, <1>8 DEF Taken, v
<1>13. Result(q) # "invalid"
  BY <1>9, <1>12 DEF Status
<1>14. ASSUME Result(q) = "available" PROVE w.objects = <<>> \/ (q \in Predicates /\ w.data > 0)
  BY <1>9, <1>12, <1>14 DEF Status
<1>15. ASSUME q \in Scoped, Result(q) = "available"
       PROVE  /\ w.data # 0 <=> app[q].expected # 0
              /\ q \in Occlusion => w.data = app[q].expected
  <2>1. q \notin Timestamps /\ q \notin Events /\ (q \in Occlusion => q \notin Predicates)
    BY <1>15, QueryTypes DEF QueryAssumption
  <2>2. Sums(w.data, w.objects, d.gpu, b[q].count)
    BY <1>8, <1>10, <1>15, <2>1 DEF Taken
  <2>3. w.data \in Nat /\ w.objects \in Seq(Objects) /\ d.gpu \in [Objects -> Results]
    BY <1>3, <1>12 DEF VirtualQueries, States
  <2>4. b[q].count \in Nat /\ b[q].count >= w.data /\ (w.objects = <<>> => b[q].count = w.data)
    BY <2>2, <2>3, SumsBounds
  <2> QED
    BY <1>6, <1>14, <1>15, <2>1, <2>3, <2>4
<1>16. ASSUME q \in Timestamps, Result(q) = "available" PROVE w.data = app[q].expected
  <2>1. q \notin Scoped /\ q \notin Events /\ q \notin Predicates
    BY <1>16, QueryTypes DEF Scoped
  <2>2. w.objects = <<>>
    BY <1>14, <1>16, <2>1
  <2>3. w.data = IF v.objects = <<>> THEN v.data ELSE d.gpu[v.objects[1]].value
    BY <1>8, <1>11, <1>16, <2>2 DEF Taken
  <2> QED
    BY <1>6, <1>10, <1>16, <2>1, <2>3
<1> QED
  BY <1>9, <1>13, <1>15, <1>16 DEF Queries, Scoped

-----------------------------------------------------------------------------
(* The uses of an object *)

\* What is said of a use.
UsedAs(g, u) ==
  IF Kind(u) = "end"
    THEN \/ gpu[g].state = "open" /\ Uses(g) = {u}
         \/ /\ gpu[g].state = "reset"
            /\ \E v \in Uses(g) : Uses(g) = {v, u} /\ Kind(v) = "begin" /\ Precedes(v, u)
    ELSE /\ gpu[g].state = "reset"
         /\ \A v \in Uses(g) \ {u} : Kind(u) = "begin" /\ Kind(v) = "end"

\* It is one of a single list.
LEMMA UsesOf ==
  ASSUME NEW g \in Objects, NEW i \in DOMAIN Pending, NEW ops, ops = Pending[i].ops,
         Uses(g) = {<<i, k>> : k \in {j \in DOMAIN ops : ops[j][2] = g}},
         DOMAIN ops \subseteq Nat,
         \/ Once(ops, g, gpu[g].state)
         \/ gpu[g].state = "reset" /\ \E j \in DOMAIN ops : Single(ops, g, j) /\ ops[j][1] = "begin",
         NEW u \in Uses(g)
  PROVE  UsedAs(g, u)
<1>1. PICK k \in DOMAIN ops : u = <<i, k>> /\ ops[k][2] = g
  OBVIOUS
<1>2. Kind(u) = ops[k][1]
  BY <1>1 DEF Kind
<1>3. ASSUME Single(ops, g, k) PROVE Uses(g) = {u}
  <2>1. {j \in DOMAIN ops : ops[j][2] = g} = {k}
    BY <1>1, <1>3 DEF Single
  <2> QED
    BY <1>1, <2>1
<1>4. \A j \in DOMAIN ops : Single(ops, g, j) => j = k
  BY <1>1 DEF Single
<1>5. CASE gpu[g].state = "open" /\ \E j \in DOMAIN ops : Single(ops, g, j) /\ ops[j][1] = "end"
  BY <1>2, <1>3, <1>4, <1>5 DEF UsedAs
<1>6. CASE gpu[g].state = "reset" /\ \E j \in DOMAIN ops : Single(ops, g, j) /\ ops[j][1] \in {"stamp", "set", "begin"}
  BY <1>2, <1>3, <1>4, <1>6 DEF UsedAs
<1>7. CASE gpu[g].state = "reset" /\ \E j, m \in DOMAIN ops : Pair(ops, g, j, m)
  <2>1. PICK j \in DOMAIN ops, m \in DOMAIN ops : Pair(ops, g, j, m)
    BY <1>7
  <2>2. j < m /\ ops[j][1] = "begin" /\ ops[m][1] = "end" /\ {n \in DOMAIN ops : ops[n][2] = g} = {j, m} /\ j # m
    BY <2>1 DEF Pair
  <2>3. Uses(g) = {<<i, j>>, <<i, m>>}
    BY <2>2
  <2>4. Kind(<<i, j>>) = "begin" /\ Kind(<<i, m>>) = "end" /\ Precedes(<<i, j>>, <<i, m>>)
    BY <2>2 DEF Kind, Precedes
  <2>5. CASE u = <<i, j>>
    BY <1>7, <2>3, <2>4, <2>5 DEF UsedAs
  <2>6. CASE u = <<i, m>>
    BY <1>7, <2>3, <2>4, <2>6 DEF UsedAs
  <2> QED
    BY <2>3, <2>5, <2>6
<1>8. ~Unused(ops, g)
  BY <1>1 DEF Unused
<1> QED
  BY <1>5, <1>6, <1>7, <1>8 DEF Once

\* Every use is as UsedOncePerReset wants it.
LEMMA QueryOnce ==
  ASSUME QueryAssumption, QueryInv
  PROVE  UsedOncePerReset
<1> SUFFICES ASSUME NEW g \in Objects, NEW u \in Uses(g) PROVE UsedAs(g, u)
  BY DEF UsedOncePerReset, UsedAs
<1>1. PICK d, b, t : Leading(d, b, t)
  BY DEF QueryInv
<1> DEFINE o == active.object
<1>2. /\ cmd \in CommandLists /\ lists \in Seq(CommandLists) /\ Tracks(cmd, lists, o) /\ UsedOnce(cmd, lists, gpu, o)
      /\ g # NoObject
  BY <1>1, NoObjectOutside DEF Leading, Sound
<1>3. /\ Len(lists) \in Nat /\ DOMAIN lists = 1..Len(lists) /\ DOMAIN Pending = 1..(Len(lists) + 1)
      /\ Pending[Len(lists) + 1] = cmd /\ \A i \in 1..Len(lists) : Pending[i] = lists[i] /\ lists[i] \in CommandLists
  BY <1>2 DEF Pending
<1>4. \A i \in DOMAIN Pending : Pending[i] \in CommandLists /\ Refers(Pending[i])
  BY <1>2, <1>3 DEF Tracks
<1>5. \A i, j \in DOMAIN Pending : i # j => Pending[i].tracked \intersect Pending[j].tracked = {}
  BY <1>2, <1>3 DEF Tracks, Apart
<1>6. PICK i \in DOMAIN Pending : \E k \in DOMAIN Pending[i].ops : u = <<i, k>> /\ Pending[i].ops[k][2] = g
  BY DEF Uses
<1>7. g \in Pending[i].tracked
  BY <1>2, <1>4, <1>6 DEF Refers
<1>8. \A j \in DOMAIN Pending : j # i => \A m \in DOMAIN Pending[j].ops : Pending[j].ops[m][2] # g
  BY <1>2, <1>4, <1>5, <1>7 DEF Refers
<1>9. Uses(g) = {<<i, m>> : m \in {j \in DOMAIN Pending[i].ops : Pending[i].ops[j][2] = g}}
  BY <1>6, <1>8 DEF Uses
<1>10. DOMAIN Pending[i].ops \subseteq Nat
  BY <1>4 DEF CommandLists
<1>11. \/ Once(Pending[i].ops, g, gpu[g].state)
       \/ gpu[g].state = "reset" /\ \E j \in DOMAIN Pending[i].ops : Single(Pending[i].ops, g, j) /\ Pending[i].ops[j][1] = "begin"
  <2>1. CASE i \in 1..Len(lists)
    BY <1>2, <1>3, <2>1 DEF UsedOnce
  <2>2. CASE i = Len(lists) + 1
    <3>1. Pending[i] = cmd
      BY <1>3, <2>2
    <3>2. CASE g # o
      BY <1>2, <3>1, <3>2 DEF UsedOnce
    <3>3. CASE g = o
      BY <1>2, <3>1, <3>3 DEF UsedOnce
    <3> QED
      BY <3>2, <3>3
  <2> QED
    BY <1>3, <1>6, <2>1, <2>2
<1> QED
  BY <1>9, <1>10, <1>11, UsesOf

-----------------------------------------------------------------------------
(* The theorems *)

\* The invariant holds.
LEMMA QueryInvHolds ==
  ASSUME QueryAssumption
  PROVE  Spec => []QueryInv
<1>1. Init => QueryInv
  BY InitLeads
<1>2. QueryInv /\ [Next]_vars => QueryInv'
  BY NextLeads
<1> QED
  BY <1>1, <1>2, PTL DEF Spec

\* GetData reports a query available only with the draws between its last Begin and End,
\* or the time of its last End, wherever render passes and command lists were split, and
\* never calls a query that was ended invalid.
THEOREM QueriesExact ==
  ASSUME QueryAssumption
  PROVE  Spec => []ResultExact
<1>1. QueryInv => ResultExact
  BY QueryExact
<1> QED
  BY <1>1, QueryInvHolds, PTL

\* No Vulkan query or event is reset while the device has a command left for it, and
\* none is used twice between two resets.
THEOREM ObjectsUsedOnce ==
  ASSUME QueryAssumption
  PROVE  Spec => []UsedOncePerReset
<1>1. QueryInv => UsedOncePerReset
  BY QueryOnce
<1> QED
  BY <1>1, QueryInvHolds, PTL
=============================================================================
