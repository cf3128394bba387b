--------------------------- MODULE ReadbackProofs ---------------------------
(***************************************************************************)
(* Proofs about MapBuffer (ResourceMap, as MCReadback runs it), for any    *)
(* number of slices and calls, any size of a chunk and any limits of the   *)
(* flush heuristic: the buffer behaves as if every call was executed at    *)
(* once.                                                                   *)
(*                                                                         *)
(* Between a call and its effect lie the chunks of the context, the        *)
(* current command list and the submitted ones.  Each of them is a         *)
(* sequence of steps, and the invariant (MapInv) says that what the        *)
(* memory has now is led, by all steps that are pending, through states    *)
(* in which each copy from the buffer finds what it has to find, to a      *)
(* state in which the application's slice has what it wrote last.  So the  *)
(* CS thread and the device only move a step from one sequence to the next *)
(* one, and a call that changes a slice at once must show that every       *)
(* pending step allows that (MapPathTransport): because no step uses the   *)
(* slice any more, or because nobody refers to it.                         *)
(*                                                                         *)
(* The last section has the types of MCReadback, the queries' among them.  *)
(***************************************************************************)
EXTENDS MCReadback, GpuQueryProofs

-----------------------------------------------------------------------------
(* Paths *)

(***************************************************************************)
(* What is pending is a sequence of steps that are still to be taken.  The *)
(* state of the buffer is the slice the CS thread works on and the         *)
(* contents of the slices; a step is a relation between states, which      *)
(* holds for a copy from the buffer only in a state where the slice has    *)
(* what the application had written before.                                *)
(***************************************************************************)
Values == 0..MapCalls
MapStates == [cur : Map!Slices, m : [Map!Slices -> Values]]
MapRelations == SUBSET (MapStates \X MapStates)

MapPath(R, s, t) ==
  \E S \in [0..Len(R) -> MapStates] :
    /\ S[0] = s /\ S[Len(R)] = t
    /\ \A k \in 1..Len(R) : <<S[k - 1], S[k]>> \in R[k]

\* Without a step one stays where one is.
LEMMA MapPathEmpty ==
  ASSUME NEW R \in Seq(MapRelations), R = <<>>, NEW s \in MapStates, NEW t
  PROVE  MapPath(R, s, t) <=> s = t
<1>1. Len(R) = 0
  OBVIOUS
<1>2. ASSUME s = t PROVE MapPath(R, s, t)
  <2> DEFINE S == [k \in 0..0 |-> s]
  <2>1. S \in [0..Len(R) -> MapStates] /\ S[0] = s /\ S[Len(R)] = t
    BY <1>1, <1>2
  <2>2. \A k \in 1..Len(R) : FALSE
    BY <1>1
  <2> HIDE DEF S
  <2> QED
    BY <2>1, <2>2 DEF MapPath
<1>3. ASSUME MapPath(R, s, t) PROVE s = t
  BY <1>1, <1>3 DEF MapPath
<1> QED
  BY <1>2, <1>3

\* A step is added.
LEMMA MapPathAppend ==
  ASSUME NEW R \in Seq(MapRelations), NEW s, NEW u, NEW t, MapPath(R, s, u),
         NEW Q \in Seq(MapRelations), Len(Q) = Len(R) + 1, <<u, t>> \in Q[Len(Q)],
         \A k \in 1..Len(R) : Q[k] = R[k]
  PROVE  MapPath(Q, s, t)
<1> DEFINE n == Len(R)
<1>1. PICK S \in [0..n -> MapStates] :
        S[0] = s /\ S[n] = u /\ \A k \in 1..n : <<S[k - 1], S[k]>> \in R[k]
  BY DEF MapPath
<1> DEFINE T == [k \in 0..(n + 1) |-> IF k = n + 1 THEN t ELSE S[k]]
<1>2. n \in Nat /\ Q[n + 1] \in MapRelations
  OBVIOUS
<1>3. t \in MapStates
  BY <1>2 DEF MapRelations
<1>4. T \in [0..(n + 1) -> MapStates] /\ T[0] = s /\ T[n + 1] = t
  BY <1>1, <1>2, <1>3
<1>5. ASSUME NEW k \in 1..(n + 1) PROVE <<T[k - 1], T[k]>> \in Q[k]
  <2>1. k - 1 \in 0..n /\ k \in 0..(n + 1) /\ k - 1 # n + 1
    BY <1>2
  <2>2. T[k - 1] = S[k - 1] /\ T[k] = IF k = n + 1 THEN t ELSE S[k]
    BY <2>1
  <2>3. CASE k = n + 1
    <3>1. k - 1 = n /\ T[k] = t
      BY <1>2, <2>2, <2>3
    <3>2. T[k - 1] = u
      BY <1>1, <2>2, <3>1
    <3> QED
      BY <2>3, <3>1, <3>2
  <2>4. CASE k # n + 1
    <3>1. k \in 1..n
      BY <1>2, <2>4
    <3> QED
      BY <1>1, <2>2, <2>4, <3>1
  <2> QED
    BY <2>3, <2>4
<1> HIDE DEF T, n
<1>6. \E X \in [0..(n + 1) -> MapStates] :
        X[0] = s /\ X[n + 1] = t /\ \A k \in 1..(n + 1) : <<X[k - 1], X[k]>> \in Q[k]
  BY <1>4, <1>5
<1> QED
  BY <1>6 DEF MapPath, n

\* The first step, and what is left.
LEMMA MapPathHead ==
  ASSUME NEW R \in Seq(MapRelations), NEW s, NEW t, MapPath(R, s, t),
         NEW Q \in Seq(MapRelations), Len(R) = Len(Q) + 1, \A k \in 1..Len(Q) : Q[k] = R[k + 1]
  PROVE  \E u \in MapStates : <<s, u>> \in R[1] /\ MapPath(Q, u, t)
<1> DEFINE n == Len(R)
<1>1. PICK S \in [0..n -> MapStates] :
        S[0] = s /\ S[n] = t /\ \A k \in 1..n : <<S[k - 1], S[k]>> \in R[k]
  BY DEF MapPath
<1>2. n \in Nat \ {0} /\ Len(Q) = n - 1
  OBVIOUS
<1> DEFINE T == [k \in 0..(n - 1) |-> S[k + 1]]
<1>3. T \in [0..(n - 1) -> MapStates] /\ T[0] = S[1] /\ T[n - 1] = t /\ S[1] \in MapStates
  BY <1>1, <1>2
<1>4. ASSUME NEW k \in 1..(n - 1) PROVE <<T[k - 1], T[k]>> \in Q[k]
  <2>1. T[k - 1] = S[k] /\ T[k] = S[k + 1] /\ k + 1 \in 1..n /\ (k + 1) - 1 = k
    BY <1>2
  <2> QED
    BY <1>1, <1>2, <2>1
<1>5. <<s, S[1]>> \in R[1]
  BY <1>1, <1>2
<1> HIDE DEF T
<1> QED
  BY <1>2, <1>3, <1>4, <1>5 DEF MapPath

\* A step is put in front.
LEMMA MapPathCons ==
  ASSUME NEW R \in Seq(MapRelations), NEW s, NEW u, NEW t, MapPath(R, u, t),
         NEW Q \in Seq(MapRelations), Len(Q) = Len(R) + 1, <<s, u>> \in Q[1],
         \A k \in 1..Len(R) : Q[k + 1] = R[k]
  PROVE  MapPath(Q, s, t)
<1> DEFINE n == Len(R)
<1>1. PICK S \in [0..n -> MapStates] :
        S[0] = u /\ S[n] = t /\ \A k \in 1..n : <<S[k - 1], S[k]>> \in R[k]
  BY DEF MapPath
<1>2. n \in Nat /\ Len(Q) = n + 1 /\ Q[1] \in MapRelations
  OBVIOUS
<1> DEFINE T == [k \in 0..(n + 1) |-> IF k = 0 THEN s ELSE S[k - 1]]
<1>3. s \in MapStates
  BY <1>2 DEF MapRelations
<1>4. T \in [0..(n + 1) -> MapStates] /\ T[0] = s /\ T[n + 1] = t
  BY <1>1, <1>2, <1>3
<1>5. ASSUME NEW k \in 1..(n + 1) PROVE <<T[k - 1], T[k]>> \in Q[k]
  <2>1. k - 1 \in 0..(n + 1) /\ k \in 0..(n + 1) /\ k # 0
    BY <1>2
  <2>2. T[k] = S[k - 1] /\ T[k - 1] = IF k = 1 THEN s ELSE S[k - 2]
    BY <2>1
  <2>3. CASE k = 1
    <3>1. T[k - 1] = s /\ k - 1 = 0
      BY <2>2, <2>3
    <3>2. T[k] = u
      BY <1>1, <2>2, <2>3, <3>1
    <3> QED
      BY <2>3, <3>1, <3>2
  <2>4. CASE k # 1
    <3>1. k - 1 \in 1..n /\ (k - 1) - 1 = k - 2
      BY <1>2, <2>4
    <3>2. <<S[k - 2], S[k - 1]>> \in R[k - 1] /\ Q[(k - 1) + 1] = R[k - 1] /\ (k - 1) + 1 = k
      BY <1>1, <3>1
    <3> QED
      BY <2>2, <2>4, <3>2
  <2> QED
    BY <2>3, <2>4
<1> HIDE DEF T
<1> QED
  BY <1>2, <1>4, <1>5 DEF MapPath

\* The ends of a path.
LEMMA MapPathEnds ==
  ASSUME NEW R \in Seq(MapRelations), NEW s, NEW t, MapPath(R, s, t)
  PROVE  s \in MapStates /\ t \in MapStates
BY DEF MapPath

\* A step that takes states of D to states of D, and still does after f has changed both.
MapAllows(r, D, f) ==
  \A a, b \in MapStates : a \in D /\ <<a, b>> \in r => b \in D /\ <<f[a], f[b]>> \in r

\* A change of the states that every step allows, as long as they are in D.
LEMMA MapPathTransport ==
  ASSUME NEW R \in Seq(MapRelations), NEW D, NEW f \in [MapStates -> MapStates],
         NEW s \in D, NEW t, MapPath(R, s, t),
         \A k \in 1..Len(R) : MapAllows(R[k], D, f)
  PROVE  t \in D /\ MapPath(R, f[s], f[t])
<1>0. \A k \in 1..Len(R) : \A a, b \in MapStates :
        a \in D /\ <<a, b>> \in R[k] => b \in D /\ <<f[a], f[b]>> \in R[k]
  BY DEF MapAllows
<1> DEFINE n == Len(R)
<1>1. PICK S \in [0..n -> MapStates] :
        S[0] = s /\ S[n] = t /\ \A k \in 1..n : <<S[k - 1], S[k]>> \in R[k]
  BY DEF MapPath
<1>2. n \in Nat
  OBVIOUS
<1> DEFINE F == {k \in 0..n : S[k] \notin D}
<1>3. \A k \in 0..n : k \notin F
  <2>1. 0 \notin F
    BY <1>1
  <2>2. ASSUME NEW k \in 1..n, k \in F PROVE k - 1 \in F
    <3>1. k - 1 \in 0..n /\ k \in 0..n /\ S[k - 1] \in MapStates /\ S[k] \in MapStates
      BY <1>1, <1>2
    <3>2. S[k] \notin D /\ <<S[k - 1], S[k]>> \in R[k] /\ k \in 1..Len(R)
      BY <1>1, <2>2
    <3>3. S[k - 1] \notin D
      BY <1>0, <3>1, <3>2
    <3> QED
      BY <3>1, <3>3
  <2> HIDE DEF F
  <2> QED
    BY <1>2, <2>1, <2>2, FirstFailure
<1>4. \A k \in 0..n : S[k] \in D
  BY <1>3
<1> DEFINE T == [k \in 0..n |-> f[S[k]]]
<1>5. T \in [0..n -> MapStates] /\ T[0] = f[s] /\ T[n] = f[t]
  BY <1>1, <1>2
<1>6. ASSUME NEW k \in 1..n PROVE <<T[k - 1], T[k]>> \in R[k]
  <2>1. T[k - 1] = f[S[k - 1]] /\ T[k] = f[S[k]] /\ k - 1 \in 0..n /\ k \in 0..n
    BY <1>2
  <2>2. S[k - 1] \in MapStates /\ S[k] \in MapStates /\ S[k - 1] \in D /\ <<S[k - 1], S[k]>> \in R[k] /\ k \in 1..Len(R)
    BY <1>1, <1>4, <2>1
  <2> HIDE DEF T
  <2>3. <<f[S[k - 1]], f[S[k]]>> \in R[k]
    BY <1>0, <2>2
  <2> QED
    BY <2>1, <2>3
<1>7. t \in D
  BY <1>1, <1>2, <1>4
<1> HIDE DEF T
<1> QED
  BY <1>5, <1>6, <1>7 DEF MapPath

\* A step is taken in the relation that is the first to be more than the identity.
LEMMA MapPathReplace ==
  ASSUME NEW R \in Seq(MapRelations), NEW i \in 1..Len(R), NEW s, NEW t, MapPath(R, s, t),
         \A k \in 1..(i - 1) : R[k] = {<<a, a>> : a \in MapStates},
         NEW Q \in Seq(MapRelations), Len(Q) = Len(R), \A k \in 1..Len(R) : k # i => Q[k] = R[k]
  PROVE  \E b \in MapStates :
           <<s, b>> \in R[i] /\ \A x \in MapStates : <<x, b>> \in Q[i] => MapPath(Q, x, t)
<1> DEFINE n == Len(R)
<1>1. PICK S \in [0..n -> MapStates] :
        S[0] = s /\ S[n] = t /\ \A k \in 1..n : <<S[k - 1], S[k]>> \in R[k]
  BY DEF MapPath
<1>2. n \in Nat /\ i \in 1..n
  OBVIOUS
<1> DEFINE F == {k \in 0..(i - 1) : S[k] # s}
<1>3. \A k \in 0..(i - 1) : k \notin F
  <2>1. 0 \notin F
    BY <1>1
  <2>2. ASSUME NEW k \in 1..(i - 1), k \in F PROVE k - 1 \in F
    <3>1. k - 1 \in 0..(i - 1) /\ k \in 1..n
      BY <1>2
    <3>2. S[k - 1] = S[k]
      BY <1>1, <3>1
    <3> QED
      BY <2>2, <3>1, <3>2
  <2>3. i - 1 \in Nat
    BY <1>2
  <2> HIDE DEF F
  <2> QED
    BY <2>1, <2>2, <2>3, FirstFailure
<1>4. S[i - 1] = s /\ S[i] \in MapStates
  BY <1>1, <1>2, <1>3
<1>5. <<s, S[i]>> \in R[i]
  BY <1>1, <1>2, <1>4
<1>6. ASSUME NEW x \in MapStates, <<x, S[i]>> \in Q[i]
      PROVE  MapPath(Q, x, t)
  <2> DEFINE T == [k \in 0..n |-> IF k < i THEN x ELSE S[k]]
  <2>1. Len(Q) = n /\ \A k \in 1..n : k # i => Q[k] = R[k]
    OBVIOUS
  <2>2. T \in [0..n -> MapStates] /\ T[0] = x /\ T[n] = t
    BY <1>1, <1>2
  <2>3. ASSUME NEW k \in 1..n PROVE <<T[k - 1], T[k]>> \in Q[k]
    <3>1. CASE k < i
      <4>1. T[k - 1] = x /\ T[k] = x /\ k \in 1..(i - 1)
        BY <1>2, <3>1
      <4>2. <<x, x>> \in R[k]
        BY <4>1
      <4>3. Q[k] = R[k]
        BY <1>2, <2>1, <3>1
      <4> QED
        BY <4>1, <4>2, <4>3
    <3>2. CASE k = i
      <4>1. T[k - 1] = x /\ T[k] = S[i]
        BY <1>2, <3>2
      <4> QED
        BY <1>6, <2>1, <3>2, <4>1
    <3>3. CASE k > i
      <4>1. T[k - 1] = S[k - 1] /\ T[k] = S[k]
        BY <1>2, <3>3
      <4> QED
        BY <1>1, <1>2, <2>1, <3>3, <4>1
    <3> QED
      BY <1>2, <3>1, <3>2, <3>3
  <2> HIDE DEF T, n
  <2> QED
    BY <2>1, <2>2, <2>3 DEF MapPath
<1> HIDE DEF n
<1> QED
  BY <1>4, <1>5, <1>6

-----------------------------------------------------------------------------
(* What the immediate context holds *)

MapCommands(n) ==
  ({"write", "read"} \X Values) \union ({"invalidate"} \X Map!Slices) \union ({"flush"} \X (0..n))

\* What the CS thread and then the device do for a command.
MapCommandRel(c) ==
  {p \in MapStates \X MapStates :
     \/ /\ c[1] = "write"
        /\ p[2] = [cur |-> p[1].cur, m |-> [p[1].m EXCEPT ![p[1].cur] = c[2]]]
     \/ c[1] = "read" /\ p[1].m[p[1].cur] = c[2] /\ p[2] = p[1]
     \/ c[1] = "invalidate" /\ p[2] = [cur |-> c[2], m |-> p[1].m]
     \/ c[1] = "flush" /\ p[2] = p[1]}

MapChunkRels(chunk) == [k \in DOMAIN chunk |-> MapCommandRel(chunk[k])]
MapChunkRel(chunk) == {p \in MapStates \X MapStates : MapPath(MapChunkRels(chunk), p[1], p[2])}
MapStreamRels(stream) == [i \in DOMAIN stream |-> MapChunkRel(stream[i])]

\* The commands of the context lead from s to t.
MapPending(c, s, t) ==
  \E u \in MapStates : MapPath(MapStreamRels(c.stream), s, u) /\ <<u, t>> \in MapChunkRel(c.chunk)

MapShape(c, n) ==
  /\ c \in [chunk : Seq(MapCommands(n)), stream : Seq(Seq(MapCommands(n)) \ {<<>>}), seq : Nat,
            flushSeq : Nat, submission : Nat, missed : 0..4]
  /\ Len(c.stream) <= c.seq

\* The commands that use the buffer are in chunks up to number q.
UsesBuffer(chunk) == \E k \in DOMAIN chunk : chunk[k][1] \in {"write", "read"}
UsesUpTo(c, q) ==
  /\ \A i \in DOMAIN c.stream : UsesBuffer(c.stream[i]) => c.seq - Len(c.stream) + i <= q
  /\ UsesBuffer(c.chunk) => c.seq + 1 <= q

MapRecorded(c, s, t, q, n) ==
  /\ MapShape(c, n) /\ MapPending(c, s, t)
  /\ q \in 0..Map!CurrentSequence(c)
  /\ usage = "staging" => UsesUpTo(c, q)

\* Commands and chunks are relations between states,
LEMMA MapRelTypes ==
  /\ \A c : MapCommandRel(c) \in MapRelations
  /\ \A chunk : MapChunkRel(chunk) \in MapRelations
BY DEF MapCommandRel, MapChunkRel, MapRelations

\* and chunks and streams sequences of them.
LEMMA MapRelSeqs ==
  /\ \A n : \A chunk \in Seq(MapCommands(n)) :
       /\ MapChunkRels(chunk) \in Seq(MapRelations) /\ Len(MapChunkRels(chunk)) = Len(chunk)
       /\ \A k \in 1..Len(chunk) : MapChunkRels(chunk)[k] = MapCommandRel(chunk[k])
  /\ \A n : \A stream \in Seq(Seq(MapCommands(n))) :
       /\ MapStreamRels(stream) \in Seq(MapRelations) /\ Len(MapStreamRels(stream)) = Len(stream)
       /\ \A k \in 1..Len(stream) : MapStreamRels(stream)[k] = MapChunkRel(stream[k])
<1>1. ASSUME NEW n, NEW chunk \in Seq(MapCommands(n))
      PROVE  /\ MapChunkRels(chunk) \in Seq(MapRelations) /\ Len(MapChunkRels(chunk)) = Len(chunk)
             /\ \A k \in 1..Len(chunk) : MapChunkRels(chunk)[k] = MapCommandRel(chunk[k])
  <2>1. DOMAIN chunk = 1..Len(chunk) /\ Len(chunk) \in Nat
    OBVIOUS
  <2> QED
    BY <2>1, MapRelTypes DEF MapChunkRels
<1>2. ASSUME NEW n, NEW stream \in Seq(Seq(MapCommands(n)))
      PROVE  /\ MapStreamRels(stream) \in Seq(MapRelations) /\ Len(MapStreamRels(stream)) = Len(stream)
             /\ \A k \in 1..Len(stream) : MapStreamRels(stream)[k] = MapChunkRel(stream[k])
  <2>1. DOMAIN stream = 1..Len(stream) /\ Len(stream) \in Nat
    OBVIOUS
  <2> QED
    BY <2>1, MapRelTypes DEF MapStreamRels
<1> QED
  BY <1>1, <1>2

\* An empty chunk leads nowhere else.
LEMMA MapEmptyChunk ==
  ASSUME NEW s \in MapStates
  PROVE  MapChunkRels(<<>>) = <<>> /\ (\A t : <<s, t>> \in MapChunkRel(<<>>) <=> t = s)
<1>1. MapChunkRels(<<>>) \in Seq(MapRelations) /\ Len(MapChunkRels(<<>>)) = 0
  <2>1. <<>> \in Seq(MapCommands(0)) /\ Len(<<>>) = 0
    OBVIOUS
  <2> QED
    BY <2>1, MapRelSeqs
<1>2. MapChunkRels(<<>>) = <<>>
  BY <1>1
<1> QED
  BY <1>1, <1>2, MapPathEmpty DEF MapChunkRel

-----------------------------------------------------------------------------
(* What the application adds *)

\* A command is added to the chunk; p is the new sequence number of the buffer.
LEMMA MapPushAdds ==
  ASSUME NEW c, NEW s, NEW t, NEW q, NEW n \in Nat, MapRecorded(c, s, t, q, n),
         NEW x \in MapCommands(n), NEW u, <<t, u>> \in MapCommandRel(x),
         NEW p \in 0..(c.seq + 1), p >= q, x[1] \in {"write", "read"} /\ usage = "staging" => p = c.seq + 1
  PROVE  MapRecorded(Map!Push(c, x), s, u, p, n)
<1> DEFINE d == Map!Push(c, x)
<1>1. d = [c EXCEPT !.chunk = Append(@, x)]
  BY DEF Map!Push
<1>2. MapShape(d, n) /\ d.chunk = Append(c.chunk, x) /\ d.stream = c.stream /\ d.seq = c.seq
  <2>1. MapShape(c, n) /\ c.chunk \in Seq(MapCommands(n))
    BY DEF MapRecorded, MapShape
  <2>2. Append(c.chunk, x) \in Seq(MapCommands(n))
    BY <2>1
  <2> HIDE DEF MapCommands
  <2>3. d = [chunk |-> Append(c.chunk, x), stream |-> c.stream, seq |-> c.seq,
             flushSeq |-> c.flushSeq, submission |-> c.submission, missed |-> c.missed]
    BY <1>1, <2>1 DEF MapShape
  <2> QED
    BY <2>1, <2>2, <2>3 DEF MapShape
<1> HIDE DEF d
<1>3. MapPending(d, s, u)
  <2>1. PICK v \in MapStates : MapPath(MapStreamRels(c.stream), s, v) /\ <<v, t>> \in MapChunkRel(c.chunk)
    BY DEF MapRecorded, MapPending
  <2>2. MapPath(MapChunkRels(c.chunk), v, t) /\ c.chunk \in Seq(MapCommands(n))
    BY <2>1 DEF MapChunkRel, MapRecorded, MapShape
  <2>3. /\ d.chunk \in Seq(MapCommands(n)) /\ Len(d.chunk) = Len(c.chunk) + 1
        /\ d.chunk[Len(d.chunk)] = x /\ \A k \in 1..Len(c.chunk) : d.chunk[k] = c.chunk[k]
    BY <1>2, <2>2, AppendProperties
  <2> DEFINE R == MapChunkRels(c.chunk)
             Q == MapChunkRels(d.chunk)
  <2>6. /\ R \in Seq(MapRelations) /\ Q \in Seq(MapRelations) /\ Len(Q) = Len(R) + 1
        /\ Q[Len(Q)] = MapCommandRel(x) /\ \A k \in 1..Len(R) : Q[k] = R[k]
    <3>1. /\ R \in Seq(MapRelations) /\ Len(R) = Len(c.chunk)
          /\ \A k \in 1..Len(c.chunk) : R[k] = MapCommandRel(c.chunk[k])
      BY <2>2, MapRelSeqs
    <3>2. /\ Q \in Seq(MapRelations) /\ Len(Q) = Len(d.chunk)
          /\ \A k \in 1..Len(d.chunk) : Q[k] = MapCommandRel(d.chunk[k])
      BY <2>3, MapRelSeqs
    <3> HIDE DEF R, Q
    <3> QED
      BY <2>2, <2>3, <3>1, <3>2
  <2> HIDE DEF R, Q
  <2>7. MapPath(Q, v, u)
    BY <2>2, <2>6, MapPathAppend DEF R
  <2>4. MapPath(MapChunkRels(d.chunk), v, u)
    BY <2>7 DEF Q
  <2>5. <<v, u>> \in MapChunkRel(d.chunk)
    <3>1. u \in MapStates
      BY DEF MapCommandRel
    <3> QED
      BY <2>1, <2>4, <3>1 DEF MapChunkRel
  <2> QED
    BY <1>2, <2>1, <2>5 DEF MapPending
<1>4. d.chunk # <<>> /\ p \in 0..Map!CurrentSequence(d)
  <2>1. d.chunk # <<>>
    <3>1. c.chunk \in Seq(MapCommands(n))
      BY DEF MapRecorded, MapShape
    <3>2. Append(c.chunk, x) # <<>>
      BY <3>1, AppendProperties
    <3> QED
      BY <1>2, <3>2
  <2> QED
    BY <1>2, <2>1 DEF Map!CurrentSequence
<1>5. ASSUME usage = "staging" PROVE UsesUpTo(d, p)
  <2>1. UsesUpTo(c, q) /\ q \in Nat /\ c.seq \in Nat /\ Len(c.stream) \in Nat
    BY <1>5 DEF MapRecorded, MapShape, Map!CurrentSequence
  <2>2. \A i \in DOMAIN d.stream : UsesBuffer(d.stream[i]) => d.seq - Len(d.stream) + i <= p
    BY <1>2, <2>1 DEF UsesUpTo
  <2>3. UsesBuffer(d.chunk) => d.seq + 1 <= p
    <3>1. SUFFICES ASSUME UsesBuffer(d.chunk), p # c.seq + 1 PROVE FALSE
      BY <1>2, <2>1
    <3>2. x[1] \notin {"write", "read"}
      BY <1>5, <3>1
    <3>3. c.chunk \in Seq(MapCommands(n))
      BY DEF MapRecorded, MapShape
    <3>4. UsesBuffer(c.chunk)
      BY <1>2, <3>1, <3>2, <3>3 DEF UsesBuffer
    <3> QED
      BY <2>1, <3>1, <3>4 DEF UsesUpTo
  <2> QED
    BY <2>2, <2>3 DEF UsesUpTo
<1>6. MapRecorded(d, s, u, p, n)
  BY <1>2, <1>3, <1>4, <1>5 DEF MapRecorded
<1> QED
  BY <1>6 DEF d

\* The chunk is dispatched.
LEMMA MapFlushChunkKeeps ==
  ASSUME NEW c, NEW s, NEW t, NEW q, NEW n \in Nat, MapRecorded(c, s, t, q, n)
  PROVE  /\ MapRecorded(Map!FlushChunk(c), s, t, q, n)
         /\ Map!FlushChunk(c).submission = c.submission
         /\ Map!CurrentSequence(Map!FlushChunk(c)) = Map!CurrentSequence(c)
<1> DEFINE d == Map!FlushChunk(c)
<1>1. CASE c.chunk = <<>>
  BY <1>1 DEF Map!FlushChunk
<1>2. CASE c.chunk # <<>>
  <2>1. d = [c EXCEPT !.stream = Append(@, c.chunk), !.seq = @ + 1, !.chunk = <<>>]
    BY <1>2 DEF Map!FlushChunk
  <2>2. c.chunk \in Seq(MapCommands(n)) \ {<<>>} /\ c.stream \in Seq(Seq(MapCommands(n)) \ {<<>>}) /\ c.seq \in Nat
        /\ Len(c.stream) <= c.seq
    BY <1>2 DEF MapRecorded, MapShape
  <2>3. /\ d.chunk = <<>> /\ d.stream = Append(c.stream, c.chunk) /\ d.seq = c.seq + 1
        /\ d.submission = c.submission /\ d.flushSeq = c.flushSeq /\ d.missed = c.missed
    BY <2>1 DEF MapRecorded, MapShape
  <2>4. Len(d.stream) = Len(c.stream) + 1 /\ d.stream \in Seq(Seq(MapCommands(n)) \ {<<>>})
    BY <2>2, <2>3
  <2>5. MapShape(d, n)
    <3>1. d = [chunk |-> <<>>, stream |-> Append(c.stream, c.chunk), seq |-> c.seq + 1,
               flushSeq |-> c.flushSeq, submission |-> c.submission, missed |-> c.missed]
      BY <2>1 DEF MapRecorded, MapShape
    <3>2. <<>> \in Seq(MapCommands(n))
      OBVIOUS
    <3> QED
      BY <2>2, <2>3, <2>4, <3>1, <3>2 DEF MapRecorded, MapShape
  <2> HIDE DEF d
  <2>6. MapPending(d, s, t)
    <3>1. PICK v \in MapStates : MapPath(MapStreamRels(c.stream), s, v) /\ <<v, t>> \in MapChunkRel(c.chunk)
      BY DEF MapRecorded, MapPending
    <3>2. c.stream \in Seq(Seq(MapCommands(n)))
      BY <2>2
    <3> DEFINE R == MapStreamRels(c.stream)
               Q == MapStreamRels(d.stream)
    <3>3. /\ d.stream \in Seq(Seq(MapCommands(n))) /\ Len(d.stream) = Len(c.stream) + 1
          /\ d.stream[Len(d.stream)] = c.chunk
          /\ \A k \in 1..Len(c.stream) : d.stream[k] = c.stream[k]
      BY <2>2, <2>3, <3>2, AppendProperties
    <3>6. /\ R \in Seq(MapRelations) /\ Q \in Seq(MapRelations) /\ Len(Q) = Len(R) + 1
          /\ Q[Len(Q)] = MapChunkRel(c.chunk) /\ \A k \in 1..Len(R) : Q[k] = R[k]
      <4>1. /\ R \in Seq(MapRelations) /\ Len(R) = Len(c.stream)
            /\ \A k \in 1..Len(c.stream) : R[k] = MapChunkRel(c.stream[k])
        BY <3>2, MapRelSeqs
      <4>2. /\ Q \in Seq(MapRelations) /\ Len(Q) = Len(d.stream)
            /\ \A k \in 1..Len(d.stream) : Q[k] = MapChunkRel(d.stream[k])
        BY <3>3, MapRelSeqs
      <4> HIDE DEF R, Q
      <4>3. /\ Len(c.stream) \in Nat /\ Len(Q) = Len(c.stream) + 1 /\ Len(R) = Len(c.stream)
            /\ Len(d.stream) \in 1..Len(d.stream)
        BY <3>2, <3>3, <4>1, <4>2
      <4>4. Q[Len(Q)] = MapChunkRel(c.chunk)
        BY <3>3, <4>2, <4>3
      <4>5. ASSUME NEW k \in 1..Len(c.stream) PROVE Q[k] = R[k]
        <5>1. k \in 1..Len(d.stream)
          BY <3>3, <4>3
        <5> QED
          BY <3>3, <4>1, <4>2, <5>1
      <4> QED
        BY <4>1, <4>2, <4>3, <4>4, <4>5
    <3> HIDE DEF R, Q
    <3>7. MapPath(Q, s, t)
      BY <3>1, <3>6, MapPathAppend DEF R
    <3>4. MapPath(MapStreamRels(d.stream), s, t)
      BY <3>7 DEF Q
    <3>5. t \in MapStates
      BY <3>1 DEF MapChunkRel
    <3> QED
      BY <2>3, <3>4, <3>5, MapEmptyChunk DEF MapPending
  <2>7. Map!CurrentSequence(d) = Map!CurrentSequence(c)
    BY <1>2, <2>3 DEF Map!CurrentSequence
  <2>8. ASSUME usage = "staging" PROVE UsesUpTo(d, q)
    <3>1. UsesUpTo(c, q)
      BY <2>8 DEF MapRecorded
    <3>2. ~UsesBuffer(d.chunk)
      BY <2>3 DEF UsesBuffer
    <3>3. ASSUME NEW i \in DOMAIN d.stream, UsesBuffer(d.stream[i])
          PROVE  d.seq - Len(d.stream) + i <= q
      <4>1. d.seq - Len(d.stream) = c.seq - Len(c.stream) /\ i \in 1..(Len(c.stream) + 1)
        BY <2>2, <2>3, <2>4
      <4>2. CASE i = Len(c.stream) + 1
        <5>1. d.stream[i] = c.chunk
          BY <2>2, <2>3, <4>2
        <5>2. c.seq + 1 <= q
          BY <3>1, <3>3, <5>1 DEF UsesUpTo
        <5> QED
          BY <2>2, <4>1, <4>2, <5>2
      <4>3. CASE i # Len(c.stream) + 1
        <5>1. d.stream[i] = c.stream[i] /\ i \in DOMAIN c.stream
          BY <2>2, <2>3, <4>1, <4>3
        <5> QED
          BY <3>1, <3>3, <4>1, <5>1 DEF UsesUpTo
      <4> QED
        BY <4>2, <4>3
    <3> QED
      BY <3>2, <3>3 DEF UsesUpTo
  <2>9. MapRecorded(d, s, t, q, n) /\ d.submission = c.submission
    BY <2>3, <2>5, <2>6, <2>7, <2>8 DEF MapRecorded
  <2> QED
    BY <2>7, <2>9 DEF d
<1> QED
  BY <1>1, <1>2

\* The other members of the context do not matter, and flushes may be numbered higher.
LEMMA MapOthersKeep ==
  ASSUME NEW c, NEW s, NEW t, NEW q, NEW n \in Nat, MapRecorded(c, s, t, q, n),
         NEW d, NEW k \in Nat, k >= n,
         d \in [chunk : {c.chunk}, stream : {c.stream}, seq : {c.seq}, flushSeq : Nat,
                submission : Nat, missed : 0..4]
  PROVE  MapRecorded(d, s, t, q, k)
<1>1. MapCommands(n) \subseteq MapCommands(k)
  BY DEF MapCommands
<1>2. c.chunk \in Seq(MapCommands(k)) /\ c.stream \in Seq(Seq(MapCommands(k)) \ {<<>>})
  <2>1. c.chunk \in Seq(MapCommands(n)) /\ c.stream \in Seq(Seq(MapCommands(n)) \ {<<>>})
    BY DEF MapRecorded, MapShape
  <2>2. Seq(MapCommands(n)) \ {<<>>} \subseteq Seq(MapCommands(k)) \ {<<>>}
    BY <1>1, SeqMonotonic, Zenon
  <2> QED
    BY <1>1, <2>1, <2>2, SeqMonotonic, Zenon
<1>3. d.chunk = c.chunk /\ d.stream = c.stream /\ d.seq = c.seq
  OBVIOUS
<1>4. MapShape(d, k)
  BY <1>2, <1>3 DEF MapRecorded, MapShape
<1> QED
  BY <1>3, <1>4 DEF MapRecorded, MapPending, UsesUpTo, Map!CurrentSequence

\* ExecuteFlush, ConsiderFlush, EmitCs and Dispatched, on a context that is as they
\* leave it between two calls.
MapWhole(c, s, t, q) == MapRecorded(c, s, t, q, c.submission)

\* What the application emits are commands.
LEMMA MapCommandForms ==
  \A n \in Nat :
    /\ <<"flush", n>> \in MapCommands(n)
    /\ \A v \in Values : <<"write", v>> \in MapCommands(n) /\ <<"read", v>> \in MapCommands(n)
    /\ \A a \in Map!Slices : <<"invalidate", a>> \in MapCommands(n)
BY DEF MapCommands

\* The members that ExecuteFlush sets.
LEMMA MapFlushed ==
  ASSUME NEW A, NEW B, NEW n \in Nat, NEW e,
         NEW f \in [chunk : A, stream : B, seq : Nat, flushSeq : Nat, submission : Nat, missed : 0..4],
         e = [f EXCEPT !.submission = n, !.flushSeq = f.seq, !.missed = 4]
  PROVE  e \in [chunk : {f.chunk}, stream : {f.stream}, seq : {f.seq}, flushSeq : Nat,
               submission : Nat, missed : 0..4] /\ e.submission = n
<1> DEFINE g == [f EXCEPT !.submission = n]
           h == [g EXCEPT !.flushSeq = f.seq]
           i == [h EXCEPT !.missed = 4]
<1>0. e = i
  OBVIOUS
<1>1. g \in [chunk : {f.chunk}, stream : {f.stream}, seq : {f.seq}, flushSeq : Nat, submission : {n}, missed : 0..4]
  OBVIOUS
<1> HIDE DEF g
<1>2. h \in [chunk : {f.chunk}, stream : {f.stream}, seq : {f.seq}, flushSeq : {f.seq}, submission : {n}, missed : 0..4]
  BY <1>1
<1> HIDE DEF h
<1>3. i \in [chunk : {f.chunk}, stream : {f.stream}, seq : {f.seq}, flushSeq : {f.seq}, submission : {n}, missed : {4}]
  BY <1>2
<1> QED BY <1>0, <1>3

\* A flush adds its command, which changes nothing.
LEMMA MapExecuteFlushKeeps ==
  ASSUME NEW c, NEW s, NEW t, NEW q, MapWhole(c, s, t, q)
  PROVE  /\ MapWhole(Map!ExecuteFlush(c), s, t, q)
         /\ Map!ExecuteFlush(c).submission >= c.submission
<1> DEFINE n == c.submission + 1
           b == IF Map!IsFull(c) THEN Map!FlushChunk(c) ELSE c
           p == Map!Push(b, <<"flush", n>>)
           f == Map!FlushChunk(p)
<1>0. c.submission \in Nat /\ n \in Nat /\ n >= c.submission
  BY DEF MapWhole, MapRecorded, MapShape
<1>1. CASE Map!PendingChunks(c) = 0
  BY <1>0, <1>1 DEF Map!ExecuteFlush
<1>2. CASE Map!PendingChunks(c) # 0
  <2>1. Map!ExecuteFlush(c) = [f EXCEPT !.submission = n, !.flushSeq = f.seq, !.missed = Map!None]
    BY <1>2 DEF Map!ExecuteFlush
  <2>2. MapRecorded(b, s, t, q, c.submission) /\ b.submission = c.submission
    BY <1>0, MapFlushChunkKeeps DEF MapWhole
  <2> HIDE DEF b
  <2>3. MapRecorded(b, s, t, q, n)
    <3>1. b \in [chunk : {b.chunk}, stream : {b.stream}, seq : {b.seq}, flushSeq : Nat,
                 submission : Nat, missed : 0..4]
      BY <2>2 DEF MapRecorded, MapShape
    <3> HIDE DEF n
    <3> QED
      BY <1>0, <2>2, <3>1, MapOthersKeep
  <2> HIDE DEF n
  <2>4. MapRecorded(p, s, t, q, n)
    <3>1. <<"flush", n>> \in MapCommands(n)
      BY <1>0, MapCommandForms
    <3>2. t \in MapStates
      BY <2>2 DEF MapRecorded, MapPending, MapChunkRel
    <3>3. <<t, t>> \in MapCommandRel(<<"flush", n>>)
      BY <3>2 DEF MapCommandRel
    <3>4. q \in 0..(b.seq + 1) /\ q >= q
      BY <2>2 DEF MapRecorded, MapShape, Map!CurrentSequence
    <3> QED
      BY <1>0, <2>3, <3>1, <3>3, <3>4, MapPushAdds
  <2> HIDE DEF p
  <2>5. MapRecorded(f, s, t, q, n)
    BY <1>0, <2>4, MapFlushChunkKeeps
  <2> DEFINE e == [f EXCEPT !.submission = n, !.flushSeq = f.seq, !.missed = Map!None]
  <2> HIDE DEF f
  <2>6. e \in [chunk : {f.chunk}, stream : {f.stream}, seq : {f.seq}, flushSeq : Nat,
               submission : Nat, missed : 0..4] /\ e.submission = n
    <3>1. /\ f \in [chunk : Seq(MapCommands(n)), stream : Seq(Seq(MapCommands(n)) \ {<<>>}), seq : Nat,
                    flushSeq : Nat, submission : Nat, missed : 0..4]
      BY <2>5 DEF MapRecorded, MapShape
    <3>2. e = [f EXCEPT !.submission = n, !.flushSeq = f.seq, !.missed = 4]
      BY DEF Map!None
    <3> HIDE DEF e
    <3> QED
      BY <1>0, <3>1, <3>2, MapFlushed
  <2> HIDE DEF e
  <2>7. MapRecorded(e, s, t, q, n)
    BY <1>0, <2>5, <2>6, MapOthersKeep
  <2> QED
    BY <1>0, <2>1, <2>6, <2>7 DEF MapWhole, e
<1> QED
  BY <1>1, <1>2

\* So does the heuristic, if it flushes.
LEMMA MapConsiderFlushKeeps ==
  ASSUME NEW c, NEW s, NEW t, NEW q, MapWhole(c, s, t, q), NEW type \in 0..4, NEW done
  PROVE  /\ MapWhole(Map!ConsiderFlush(c, type, done), s, t, q)
         /\ Map!ConsiderFlush(c, type, done).submission >= c.submission
<1>0. c.submission \in Nat /\ c.missed \in 0..4
  BY DEF MapWhole, MapRecorded, MapShape
<1> DEFINE y == Map!Min({type, c.missed})
           noted == IF y = Map!Synchronization THEN c ELSE [c EXCEPT !.missed = y]
<1>1. y \in 0..4
  <2> DEFINE m == IF type <= c.missed THEN type ELSE c.missed
  <2>1. m \in {type, c.missed} /\ \A j \in {type, c.missed} : m <= j
    BY <1>0
  <2>2. y \in {type, c.missed}
    BY <2>1 DEF Map!Min
  <2> QED
    BY <1>0, <2>2
<1> HIDE DEF y
<1>2. MapWhole(noted, s, t, q) /\ noted.submission = c.submission
  <2>1. CASE y = Map!Synchronization
    BY <2>1
  <2>2. CASE y # Map!Synchronization
    <3> DEFINE e == [c EXCEPT !.missed = y]
    <3>1. e \in [chunk : {c.chunk}, stream : {c.stream}, seq : {c.seq}, flushSeq : Nat,
                 submission : Nat, missed : 0..4] /\ e.submission = c.submission
      BY <1>1 DEF MapWhole, MapRecorded, MapShape
    <3> HIDE DEF e
    <3>2. MapWhole(e, s, t, q) /\ e.submission = c.submission
      BY <1>0, <3>1, MapOthersKeep DEF MapWhole
    <3> QED
      BY <2>2, <3>2 DEF e
  <2> QED
    BY <2>1, <2>2
<1>3. Map!ConsiderFlush(c, type, done) \in {c, noted, Map!ExecuteFlush(noted)}
  BY DEF Map!ConsiderFlush, y
<1> HIDE DEF noted
<1> QED
  BY <1>0, <1>2, <1>3, MapExecuteFlushKeeps

\* EmitCs adds its command to a chunk, perhaps a new one.
LEMMA MapEmitAdds ==
  ASSUME NEW c, NEW s, NEW t, NEW q, MapWhole(c, s, t, q), NEW done,
         NEW x, x[1] # "flush", \A n \in Nat : x \in MapCommands(n),
         NEW u, <<t, u>> \in MapCommandRel(x),
         NEW p, x[1] \in {"write", "read"} /\ usage = "staging" =>
                  p = Map!CurrentSequence(Map!EmitCs(c, x, done)),
         ~(x[1] \in {"write", "read"} /\ usage = "staging") => p = q
  PROVE  /\ MapWhole(Map!EmitCs(c, x, done), s, u, p)
         /\ Map!EmitCs(c, x, done).submission >= c.submission
<1> DEFINE f == Map!FlushChunk(c)
           b == IF Map!IsFull(c) THEN Map!ConsiderFlush(f, Map!Weak, done) ELSE c
<1>1. MapWhole(b, s, t, q) /\ b.submission >= c.submission
  <2>0. c.submission \in Nat
    BY DEF MapWhole, MapRecorded, MapShape
  <2>1. MapWhole(f, s, t, q) /\ f.submission = c.submission
    BY <2>0, MapFlushChunkKeeps DEF MapWhole
  <2> HIDE DEF f
  <2>2. /\ MapWhole(Map!ConsiderFlush(f, 3, done), s, t, q)
        /\ Map!ConsiderFlush(f, 3, done).submission >= f.submission
    BY <2>1, MapConsiderFlushKeeps
  <2> QED
    BY <2>0, <2>1, <2>2 DEF Map!Weak
<1>2. Map!EmitCs(c, x, done) = Map!Push(b, x)
  BY DEF Map!EmitCs
<1> HIDE DEF b
<1>3. /\ Map!Push(b, x).submission = b.submission /\ b.submission \in Nat
      /\ Map!CurrentSequence(Map!Push(b, x)) = b.seq + 1
      /\ q \in 0..(b.seq + 1) /\ b.seq \in Nat
  <2>1. MapRecorded(b, s, t, q, b.submission)
    BY <1>1 DEF MapWhole
  <2>2. b.chunk \in Seq(MapCommands(b.submission)) /\ b.submission \in Nat /\ b.seq \in Nat
        /\ x \in MapCommands(b.submission)
    BY <2>1 DEF MapRecorded, MapShape
  <2>3. Append(b.chunk, x) # <<>>
    BY <2>2
  <2>4. Map!Push(b, x) = [b EXCEPT !.chunk = Append(b.chunk, x)]
    BY DEF Map!Push
  <2>5. /\ Map!Push(b, x).submission = b.submission
        /\ Map!Push(b, x).chunk = Append(b.chunk, x)
        /\ Map!Push(b, x).seq = b.seq
    BY <2>1, <2>4 DEF MapRecorded, MapShape
  <2>6. q \in 0..(b.seq + 1)
    BY <2>1, <2>2 DEF MapRecorded, Map!CurrentSequence
  <2> QED
    BY <2>2, <2>3, <2>5, <2>6 DEF Map!CurrentSequence
<1>4. p \in 0..(b.seq + 1) /\ p >= q /\ (x[1] \in {"write", "read"} /\ usage = "staging" => p = b.seq + 1)
  BY <1>2, <1>3
<1>5. MapRecorded(Map!Push(b, x), s, u, p, b.submission)
  BY <1>1, <1>3, <1>4, MapPushAdds DEF MapWhole
<1> QED
  BY <1>1, <1>2, <1>3, <1>5 DEF MapWhole

\* A synchronization dispatches the chunk, if it has to.
LEMMA DispatchKeeps ==
  ASSUME NEW c, NEW s, NEW t, NEW q, MapWhole(c, s, t, q), NEW n
  PROVE  MapWhole(Map!Dispatched(c, n), s, t, q) /\ Map!Dispatched(c, n).submission = c.submission
<1>1. c.submission \in Nat
  BY DEF MapWhole, MapRecorded, MapShape
<1> QED
  BY <1>1, MapFlushChunkKeeps DEF Map!Dispatched, MapWhole

-----------------------------------------------------------------------------
(* What the CS thread takes *)

\* The first step of a chunk, and the rest.
LEMMA MapHeadOfChunk ==
  ASSUME NEW n, NEW chunk \in Seq(MapCommands(n)), chunk # <<>>, NEW s, NEW t,
         <<s, t>> \in MapChunkRel(chunk)
  PROVE  \E u \in MapStates : <<s, u>> \in MapCommandRel(Head(chunk)) /\ <<u, t>> \in MapChunkRel(Tail(chunk))
<1> DEFINE R == MapChunkRels(chunk)
           Q == MapChunkRels(Tail(chunk))
<1>1. /\ Len(chunk) \in Nat \ {0} /\ Tail(chunk) \in Seq(MapCommands(n)) /\ Len(Tail(chunk)) = Len(chunk) - 1
      /\ \A k \in 1..(Len(chunk) - 1) : Tail(chunk)[k] = chunk[k + 1]
      /\ Head(chunk) = chunk[1]
  OBVIOUS
<1>2. /\ R \in Seq(MapRelations) /\ Len(R) = Len(chunk)
      /\ \A k \in 1..Len(chunk) : R[k] = MapCommandRel(chunk[k])
  BY MapRelSeqs
<1>3. /\ Q \in Seq(MapRelations) /\ Len(Q) = Len(chunk) - 1
      /\ \A k \in 1..(Len(chunk) - 1) : Q[k] = MapCommandRel(Tail(chunk)[k])
  BY <1>1, MapRelSeqs
<1>4. MapPath(R, s, t) /\ s \in MapStates /\ t \in MapStates
  BY DEF MapChunkRel
<1> HIDE DEF R, Q
<1>5. Len(R) = Len(Q) + 1 /\ \A k \in 1..Len(Q) : Q[k] = R[k + 1]
  BY <1>1, <1>2, <1>3
<1>6. PICK u \in MapStates : <<s, u>> \in R[1] /\ MapPath(Q, u, t)
  BY <1>2, <1>3, <1>4, <1>5, MapPathHead
<1>7. <<s, u>> \in MapCommandRel(Head(chunk))
  BY <1>1, <1>2, <1>6
<1>8. <<u, t>> \in MapChunkRel(Tail(chunk))
  BY <1>4, <1>6 DEF MapChunkRel, Q
<1> QED
  BY <1>7, <1>8

\* A command is taken.
LEMMA MapDropTakes ==
  ASSUME NEW c, NEW s, NEW t, NEW q, MapWhole(c, s, t, q), Map!HasCommand(c)
  PROVE  /\ Map!NextCommand(c) \in MapCommands(c.submission)
         /\ Map!DropCommand(c).submission = c.submission
         /\ \E u \in MapStates : <<s, u>> \in MapCommandRel(Map!NextCommand(c)) /\ MapWhole(Map!DropCommand(c), u, t, q)
<1> DEFINE n == c.submission
           h == Head(c.stream)
           rest == Tail(c.stream)
           d == Map!DropCommand(c)
           x == Map!NextCommand(c)
<1>1. /\ n \in Nat /\ c.seq \in Nat /\ c.stream \in Seq(Seq(MapCommands(n)) \ {<<>>}) /\ c.stream # <<>>
      /\ Len(c.stream) <= c.seq /\ c.chunk \in Seq(MapCommands(n))
  BY DEF MapWhole, MapRecorded, MapShape, Map!HasCommand
<1>2. /\ h \in Seq(MapCommands(n)) /\ h # <<>> /\ h = c.stream[1] /\ Len(c.stream) \in Nat \ {0}
      /\ rest \in Seq(Seq(MapCommands(n)) \ {<<>>}) /\ Len(rest) = Len(c.stream) - 1
      /\ \A k \in 1..Len(rest) : rest[k] = c.stream[k + 1]
      /\ DOMAIN c.stream = 1..Len(c.stream) /\ DOMAIN rest = 1..Len(rest) /\ 1 \in 1..Len(c.stream)
  BY <1>1
<1>3. x = Head(h) /\ x \in MapCommands(n)
  BY <1>2 DEF Map!NextCommand
<1> DEFINE new == IF Len(h) = 1 THEN rest ELSE <<Tail(h)>> \o rest
<1>4. /\ d \in [chunk : {c.chunk}, stream : {new}, seq : {c.seq}, flushSeq : Nat,
                submission : {n}, missed : 0..4]
  <2>1. d = [c EXCEPT !.stream = new]
    BY DEF Map!DropCommand
  <2> HIDE DEF new
  <2> QED
    BY <2>1 DEF MapWhole, MapRecorded, MapShape
<1> HIDE DEF d, x, h, rest, n
<1>5. Tail(h) \in Seq(MapCommands(n)) /\ Len(Tail(h)) = Len(h) - 1 /\ Len(h) \in Nat \ {0}
  BY <1>2
<1>8. PICK v \in MapStates, w \in MapStates :
        <<s, v>> \in MapChunkRel(h) /\ MapPath(MapStreamRels(rest), v, w) /\ <<w, t>> \in MapChunkRel(c.chunk)
  <2>1. PICK w \in MapStates : MapPath(MapStreamRels(c.stream), s, w) /\ <<w, t>> \in MapChunkRel(c.chunk)
    BY DEF MapWhole, MapRecorded, MapPending
  <2> DEFINE R == MapStreamRels(c.stream)
             Q == MapStreamRels(rest)
  <2>2. c.stream \in Seq(Seq(MapCommands(n))) /\ rest \in Seq(Seq(MapCommands(n)))
    BY <1>1, <1>2
  <2>3. /\ R \in Seq(MapRelations) /\ Len(R) = Len(c.stream)
        /\ \A k \in 1..Len(c.stream) : R[k] = MapChunkRel(c.stream[k])
    BY <2>2, MapRelSeqs
  <2>4. /\ Q \in Seq(MapRelations) /\ Len(Q) = Len(rest)
        /\ \A k \in 1..Len(rest) : Q[k] = MapChunkRel(rest[k])
    BY <2>2, MapRelSeqs
  <2> HIDE DEF R, Q
  <2>5. Len(R) = Len(Q) + 1 /\ \A k \in 1..Len(Q) : Q[k] = R[k + 1]
    BY <1>2, <2>3, <2>4
  <2>6. PICK v \in MapStates : <<s, v>> \in R[1] /\ MapPath(Q, v, w)
    BY <2>1, <2>3, <2>4, <2>5, MapPathHead DEF R
  <2>7. <<s, v>> \in MapChunkRel(h)
    <3>1. R[1] = MapChunkRel(c.stream[1])
      BY <1>2, <2>3
    <3> QED
      BY <1>2, <2>6, <3>1
  <2> QED
    BY <2>1, <2>6, <2>7 DEF Q
<1>9. PICK u \in MapStates : <<s, u>> \in MapCommandRel(x) /\ <<u, v>> \in MapChunkRel(Tail(h))
  BY <1>2, <1>3, <1>8, MapHeadOfChunk
<1>6. CASE Len(h) = 1
  <2>1. d.stream = rest
    BY <1>4, <1>6
  <2>2. MapShape(d, n)
    BY <1>1, <1>2, <1>4, <2>1 DEF MapShape
  <2>3. ASSUME usage = "staging" PROVE UsesUpTo(d, q)
    <3>1. UsesUpTo(c, q) /\ q \in Nat
      BY <1>1, <2>3 DEF MapWhole, MapRecorded, Map!CurrentSequence
    <3>2. ASSUME NEW i \in DOMAIN d.stream, UsesBuffer(d.stream[i])
          PROVE  d.seq - Len(d.stream) + i <= q
      <4>1. i \in 1..(Len(c.stream) - 1) /\ d.stream[i] = c.stream[i + 1] /\ i + 1 \in DOMAIN c.stream
        <5>1. i \in 1..Len(rest)
          BY <1>2, <2>1, <3>2
        <5>2. d.stream[i] = rest[i] /\ rest[i] = c.stream[i + 1]
          BY <1>2, <2>1, <5>1
        <5>3. i + 1 \in 1..Len(c.stream)
          BY <1>2, <5>1
        <5> QED
          BY <1>2, <5>1, <5>2, <5>3
      <4>2. c.seq - Len(c.stream) + (i + 1) <= q
        BY <3>1, <3>2, <4>1 DEF UsesUpTo
      <4> QED
        <5>1. d.seq = c.seq /\ Len(d.stream) = Len(c.stream) - 1 /\ i \in Int
          BY <1>2, <1>4, <2>1, <4>1
        <5> QED
          BY <1>1, <1>2, <3>1, <4>2, <5>1
    <3> QED
      BY <1>4, <3>1, <3>2 DEF UsesUpTo
  <2>6. u = v
    <3>1. Tail(h) = <<>>
      BY <1>5, <1>6
    <3> QED
      BY <1>9, <3>1, MapEmptyChunk
  <2>7. MapPending(d, u, t)
    BY <1>4, <1>8, <2>1, <2>6 DEF MapPending
  <2>8. MapWhole(d, u, t, q) /\ d.submission = c.submission
    BY <1>4, <2>2, <2>3, <2>7 DEF MapWhole, MapRecorded, Map!CurrentSequence, n
  <2> QED
    BY <1>3, <1>9, <2>8 DEF d, x, n
<1>7. CASE Len(h) # 1
  <2>0. /\ Tail(h) \in Seq(MapCommands(n)) \ {<<>>}
        /\ Len(<<Tail(h)>> \o rest) = Len(c.stream)
        /\ <<Tail(h)>> \o rest \in Seq(Seq(MapCommands(n)) \ {<<>>})
        /\ (<<Tail(h)>> \o rest)[1] = Tail(h)
        /\ \A k \in 1..Len(rest) : (<<Tail(h)>> \o rest)[k + 1] = rest[k]
    <3>1. Tail(h) \in Seq(MapCommands(n)) \ {<<>>}
      <4>1. Len(Tail(h)) # 0
        BY <1>5, <1>7
      <4>2. Tail(h) # <<>>
        <5>1. Len(<<>>) = 0
          OBVIOUS
        <5> QED
          BY <4>1, <5>1
      <4> QED
        BY <1>5, <4>2
    <3> QED
      BY <1>2, <3>1
  <2>1. /\ d.stream \in Seq(Seq(MapCommands(n)) \ {<<>>}) /\ Len(d.stream) = Len(c.stream)
        /\ d.stream[1] = Tail(h) /\ \A k \in 1..Len(rest) : d.stream[k + 1] = rest[k]
    BY <1>4, <1>7, <2>0
  <2>2. MapShape(d, n)
    BY <1>1, <1>2, <1>4, <2>1 DEF MapShape
  <2>3. ASSUME usage = "staging" PROVE UsesUpTo(d, q)
    <3>1. UsesUpTo(c, q) /\ q \in Nat
      BY <1>1, <2>3 DEF MapWhole, MapRecorded, Map!CurrentSequence
    <3>2. ASSUME NEW i \in DOMAIN d.stream, UsesBuffer(d.stream[i])
          PROVE  d.seq - Len(d.stream) + i <= q
      <4>1. i \in 1..Len(c.stream) /\ i \in DOMAIN c.stream
        BY <1>1, <1>2, <2>1
      <4>2. CASE i = 1
        <5>1. UsesBuffer(Tail(h))
          BY <2>1, <3>2, <4>2
        <5>2. UsesBuffer(h)
          <6>1. PICK k \in 1..(Len(h) - 1) : Tail(h)[k][1] \in {"write", "read"}
            BY <1>5, <5>1 DEF UsesBuffer
          <6>2. Tail(h)[k] = h[k + 1] /\ k + 1 \in DOMAIN h
            BY <1>2, <1>5
          <6> QED
            BY <6>1, <6>2 DEF UsesBuffer
        <5>3. c.seq - Len(c.stream) + i <= q
          BY <1>2, <3>1, <4>1, <4>2, <5>2 DEF UsesUpTo
        <5> QED
          BY <1>4, <2>1, <5>3
      <4>3. CASE i # 1
        <5>1. i - 1 \in 1..Len(rest) /\ (i - 1) + 1 = i
          BY <1>2, <4>1, <4>3
        <5>2. d.stream[i] = c.stream[i]
          <6>1. d.stream[(i - 1) + 1] = rest[i - 1] /\ rest[i - 1] = c.stream[(i - 1) + 1]
            BY <1>2, <2>1, <5>1
          <6> QED
            BY <5>1, <6>1
        <5>3. c.seq - Len(c.stream) + i <= q
          BY <3>1, <3>2, <4>1, <5>2 DEF UsesUpTo
        <5> QED
          BY <1>4, <2>1, <5>3
      <4> QED
        BY <4>2, <4>3
    <3> QED
      BY <1>4, <3>1, <3>2 DEF UsesUpTo
  <2>4. MapPath(MapStreamRels(d.stream), u, w)
    <3> DEFINE R == MapStreamRels(rest)
               Q == MapStreamRels(d.stream)
    <3>1. d.stream \in Seq(Seq(MapCommands(n))) /\ rest \in Seq(Seq(MapCommands(n)))
      BY <1>2, <2>1
    <3>2. /\ R \in Seq(MapRelations) /\ Len(R) = Len(rest)
          /\ \A k \in 1..Len(rest) : R[k] = MapChunkRel(rest[k])
      BY <3>1, MapRelSeqs
    <3>3. /\ Q \in Seq(MapRelations) /\ Len(Q) = Len(d.stream)
          /\ \A k \in 1..Len(d.stream) : Q[k] = MapChunkRel(d.stream[k])
      BY <3>1, MapRelSeqs
    <3> HIDE DEF R, Q
    <3>4. Len(Q) = Len(R) + 1
      BY <1>2, <2>1, <3>2, <3>3
    <3>5. Q[1] = MapChunkRel(Tail(h))
      <4>1. 1 \in 1..Len(d.stream)
        BY <1>2, <2>1
      <4>2. Q[1] = MapChunkRel(d.stream[1])
        BY <3>3, <4>1
      <4> QED
        BY <2>1, <4>2
    <3>6. \A k \in 1..Len(R) : Q[k + 1] = R[k]
      BY <1>2, <2>1, <3>2, <3>3
    <3>7. MapPath(R, v, w)
      BY <1>8 DEF R
    <3>8. MapPath(Q, u, w)
      BY <1>9, <3>2, <3>3, <3>4, <3>5, <3>6, <3>7, MapPathCons
    <3> QED
      BY <3>8 DEF Q
  <2>5. MapPending(d, u, t)
    BY <1>4, <1>8, <2>4 DEF MapPending
  <2>6. MapWhole(d, u, t, q) /\ d.submission = c.submission
    BY <1>4, <2>2, <2>3, <2>5 DEF MapWhole, MapRecorded, Map!CurrentSequence, n
  <2> QED
    BY <1>3, <1>9, <2>6 DEF d, x, n
<1> QED
  BY <1>6, <1>7

\* What every command of a chunk allows, the chunk allows,
LEMMA MapChunkTransport ==
  ASSUME NEW n, NEW chunk \in Seq(MapCommands(n)), NEW D, NEW f \in [MapStates -> MapStates],
         \A k \in DOMAIN chunk : MapAllows(MapCommandRel(chunk[k]), D, f)
  PROVE  MapAllows(MapChunkRel(chunk), D, f)
<1> SUFFICES ASSUME NEW a \in MapStates, NEW b \in MapStates, a \in D, <<a, b>> \in MapChunkRel(chunk)
             PROVE  b \in D /\ <<f[a], f[b]>> \in MapChunkRel(chunk)
  BY DEF MapAllows
<1> DEFINE R == MapChunkRels(chunk)
<1>1. /\ R \in Seq(MapRelations) /\ Len(R) = Len(chunk) /\ DOMAIN chunk = 1..Len(chunk)
      /\ \A k \in 1..Len(chunk) : R[k] = MapCommandRel(chunk[k])
  BY MapRelSeqs
<1>2. MapPath(R, a, b)
  BY DEF MapChunkRel
<1> HIDE DEF R
<1>3. \A k \in 1..Len(R) : MapAllows(R[k], D, f)
  BY <1>1
<1>5. b \in D /\ MapPath(R, f[a], f[b])
  BY <1>1, <1>2, <1>3, MapPathTransport
<1> QED
  BY <1>5 DEF MapChunkRel, R

\* and what all commands of the context allow, what is pending allows.
LEMMA MapContextTransport ==
  ASSUME NEW c, NEW s \in MapStates, NEW t, NEW q, MapWhole(c, s, t, q), NEW D, s \in D,
         NEW f \in [MapStates -> MapStates],
         \A i \in DOMAIN c.stream : \A k \in DOMAIN c.stream[i] : MapAllows(MapCommandRel(c.stream[i][k]), D, f),
         \A k \in DOMAIN c.chunk : MapAllows(MapCommandRel(c.chunk[k]), D, f)
  PROVE  t \in D /\ t \in MapStates /\ MapWhole(c, f[s], f[t], q)
<1> DEFINE n == c.submission
           R == MapStreamRels(c.stream)
<1>1. c.stream \in Seq(Seq(MapCommands(n))) /\ c.chunk \in Seq(MapCommands(n)) /\ DOMAIN c.stream = 1..Len(c.stream)
  BY DEF MapWhole, MapRecorded, MapShape
<1>2. \A i \in DOMAIN c.stream : c.stream[i] \in Seq(MapCommands(n))
  BY <1>1
<1>3. PICK u \in MapStates : MapPath(R, s, u) /\ <<u, t>> \in MapChunkRel(c.chunk)
  BY DEF MapWhole, MapRecorded, MapPending
<1>4. /\ R \in Seq(MapRelations) /\ Len(R) = Len(c.stream)
      /\ \A k \in 1..Len(c.stream) : R[k] = MapChunkRel(c.stream[k])
  BY <1>1, MapRelSeqs
<1> HIDE DEF R, n
<1>5. ASSUME NEW k \in 1..Len(R) PROVE MapAllows(R[k], D, f)
  <2>1. k \in DOMAIN c.stream /\ c.stream[k] \in Seq(MapCommands(n)) /\ R[k] = MapChunkRel(c.stream[k])
    BY <1>1, <1>2, <1>4
  <2> QED
    BY <2>1, MapChunkTransport
<1>7. u \in D /\ MapPath(R, f[s], f[u])
  BY <1>3, <1>4, <1>5, MapPathTransport
<1>8. MapAllows(MapChunkRel(c.chunk), D, f)
  BY <1>1, MapChunkTransport
<1>9. t \in MapStates
  BY <1>3 DEF MapChunkRel
<1>10. t \in D /\ <<f[u], f[t]>> \in MapChunkRel(c.chunk)
  BY <1>3, <1>7, <1>8, <1>9 DEF MapAllows
<1>11. MapPending(c, f[s], f[t])
  BY <1>7, <1>10 DEF MapPending, R
<1> QED
  BY <1>9, <1>10, <1>11 DEF MapWhole, MapRecorded

-----------------------------------------------------------------------------
(* What the device has to do *)

MapOps == {"write", "read"} \X Map!Slices \X Values
MapCommandLists == [ops : Seq(MapOps), accesses : SUBSET {"read", "write"}, slices : SUBSET Map!Slices, id : Nat]

MapOpRel(x) ==
  {p \in MapStates \X MapStates :
     \/ x[1] = "write" /\ p[2] = [cur |-> p[1].cur, m |-> [p[1].m EXCEPT ![x[2]] = x[3]]]
     \/ x[1] = "read" /\ p[1].m[x[2]] = x[3] /\ p[2] = p[1]}

MapOpRels(ops) == [k \in DOMAIN ops |-> MapOpRel(ops[k])]
MapListRel(ops) == {p \in MapStates \X MapStates : MapPath(MapOpRels(ops), p[1], p[2])}
MapQueueRels(ls) == [i \in DOMAIN ls |-> MapListRel(ls[i].ops)]

\* The submitted lists, and then the operations of the current one, lead from s to t.
MapSubmitted(ls, ops, s, t) == \E u \in MapStates : MapPath(MapQueueRels(ls), s, u) /\ <<u, t>> \in MapListRel(ops)

\* Operations and lists are relations between states,
LEMMA MapOpTypes ==
  /\ \A x : MapOpRel(x) \in MapRelations
  /\ \A ops : MapListRel(ops) \in MapRelations
BY DEF MapOpRel, MapListRel, MapRelations

\* and lists and what is submitted sequences of them.
LEMMA MapOpSeqs ==
  /\ \A ops \in Seq(MapOps) :
       /\ MapOpRels(ops) \in Seq(MapRelations) /\ Len(MapOpRels(ops)) = Len(ops)
       /\ \A k \in 1..Len(ops) : MapOpRels(ops)[k] = MapOpRel(ops[k])
  /\ \A ls \in Seq(MapCommandLists) :
       /\ MapQueueRels(ls) \in Seq(MapRelations) /\ Len(MapQueueRels(ls)) = Len(ls)
       /\ \A k \in 1..Len(ls) : MapQueueRels(ls)[k] = MapListRel(ls[k].ops)
<1>1. ASSUME NEW ops \in Seq(MapOps)
      PROVE  /\ MapOpRels(ops) \in Seq(MapRelations) /\ Len(MapOpRels(ops)) = Len(ops)
             /\ \A k \in 1..Len(ops) : MapOpRels(ops)[k] = MapOpRel(ops[k])
  <2>1. DOMAIN ops = 1..Len(ops) /\ Len(ops) \in Nat
    OBVIOUS
  <2> QED
    BY <2>1, MapOpTypes DEF MapOpRels
<1>2. ASSUME NEW ls \in Seq(MapCommandLists)
      PROVE  /\ MapQueueRels(ls) \in Seq(MapRelations) /\ Len(MapQueueRels(ls)) = Len(ls)
             /\ \A k \in 1..Len(ls) : MapQueueRels(ls)[k] = MapListRel(ls[k].ops)
  <2>1. DOMAIN ls = 1..Len(ls) /\ Len(ls) \in Nat
    OBVIOUS
  <2> QED
    BY <2>1, MapOpTypes DEF MapQueueRels
<1> QED
  BY <1>1, <1>2

\* A list that is through does nothing.
LEMMA MapEmptyList ==
  ASSUME NEW s \in MapStates
  PROVE  \A t : <<s, t>> \in MapListRel(<<>>) <=> t = s
<1>1. MapOpRels(<<>>) \in Seq(MapRelations) /\ Len(MapOpRels(<<>>)) = 0
  <2>1. <<>> \in Seq(MapOps) /\ Len(<<>>) = 0
    OBVIOUS
  <2> QED
    BY <2>1, MapOpSeqs
<1>2. MapOpRels(<<>>) = <<>>
  BY <1>1
<1> QED
  BY <1>1, <1>2, MapPathEmpty DEF MapListRel

\* An operation is recorded.
LEMMA MapRecordAdds ==
  ASSUME NEW ls, NEW ops \in Seq(MapOps), NEW s, NEW t, MapSubmitted(ls, ops, s, t),
         NEW x \in MapOps, NEW u, <<t, u>> \in MapOpRel(x)
  PROVE  MapSubmitted(ls, Append(ops, x), s, u)
<1> DEFINE R == MapOpRels(ops)
           Q == MapOpRels(Append(ops, x))
<1>1. PICK v \in MapStates : MapPath(MapQueueRels(ls), s, v) /\ <<v, t>> \in MapListRel(ops)
  BY DEF MapSubmitted
<1>2. /\ Append(ops, x) \in Seq(MapOps) /\ Len(Append(ops, x)) = Len(ops) + 1
      /\ Append(ops, x)[Len(ops) + 1] = x /\ \A k \in 1..Len(ops) : Append(ops, x)[k] = ops[k]
  BY AppendProperties
<1>3. /\ R \in Seq(MapRelations) /\ Len(R) = Len(ops)
      /\ \A k \in 1..Len(ops) : R[k] = MapOpRel(ops[k])
  BY MapOpSeqs
<1>4. /\ Q \in Seq(MapRelations) /\ Len(Q) = Len(Append(ops, x))
      /\ \A k \in 1..Len(Append(ops, x)) : Q[k] = MapOpRel(Append(ops, x)[k])
  BY <1>2, MapOpSeqs
<1>5. MapPath(R, v, t) /\ u \in MapStates
  BY <1>1 DEF MapListRel, MapOpRel
<1> HIDE DEF R, Q
<1>6. Len(ops) \in Nat
  OBVIOUS
<1>7. Len(Q) = Len(R) + 1 /\ Q[Len(Q)] = MapOpRel(x) /\ \A k \in 1..Len(R) : Q[k] = R[k]
  <2>1. Len(Q) = Len(ops) + 1 /\ Len(R) = Len(ops) /\ Len(ops) + 1 \in 1..Len(Append(ops, x))
    BY <1>2, <1>3, <1>4, <1>6
  <2>2. Q[Len(ops) + 1] = MapOpRel(x)
    BY <1>2, <1>4, <2>1
  <2>3. ASSUME NEW k \in 1..Len(ops) PROVE Q[k] = R[k]
    <3>1. k \in 1..Len(Append(ops, x))
      BY <1>2, <1>6
    <3> QED
      BY <1>2, <1>3, <1>4, <3>1
  <2> QED
    BY <2>1, <2>2, <2>3
<1>8. MapPath(Q, v, u)
  BY <1>3, <1>4, <1>5, <1>7, MapPathAppend
<1>9. <<v, u>> \in MapListRel(Append(ops, x))
  BY <1>5, <1>8 DEF MapListRel, Q
<1> QED
  BY <1>1, <1>9 DEF MapSubmitted

\* The current list is submitted.
LEMMA MapSubmitKeeps ==
  ASSUME NEW ls \in Seq(MapCommandLists), NEW l \in MapCommandLists, NEW s, NEW t, MapSubmitted(ls, l.ops, s, t)
  PROVE  MapSubmitted(Append(ls, l), <<>>, s, t)
<1> DEFINE R == MapQueueRels(ls)
           Q == MapQueueRels(Append(ls, l))
<1>1. PICK v \in MapStates : MapPath(R, s, v) /\ <<v, t>> \in MapListRel(l.ops)
  BY DEF MapSubmitted
<1>2. /\ Append(ls, l) \in Seq(MapCommandLists) /\ Len(Append(ls, l)) = Len(ls) + 1
      /\ Append(ls, l)[Len(ls) + 1] = l /\ \A k \in 1..Len(ls) : Append(ls, l)[k] = ls[k]
  BY AppendProperties
<1>3. /\ R \in Seq(MapRelations) /\ Len(R) = Len(ls)
      /\ \A k \in 1..Len(ls) : R[k] = MapListRel(ls[k].ops)
  BY MapOpSeqs
<1>4. /\ Q \in Seq(MapRelations) /\ Len(Q) = Len(Append(ls, l))
      /\ \A k \in 1..Len(Append(ls, l)) : Q[k] = MapListRel(Append(ls, l)[k].ops)
  BY <1>2, MapOpSeqs
<1> HIDE DEF R, Q
<1>6. Len(ls) \in Nat
  OBVIOUS
<1>7. Len(Q) = Len(R) + 1 /\ Q[Len(Q)] = MapListRel(l.ops) /\ \A k \in 1..Len(R) : Q[k] = R[k]
  BY <1>2, <1>3, <1>4, <1>6
<1>8. MapPath(Q, s, t) /\ t \in MapStates
  BY <1>1, <1>3, <1>4, <1>7, MapPathAppend DEF MapListRel
<1>9. <<t, t>> \in MapListRel(<<>>)
  BY <1>8, MapEmptyList
<1> QED
  BY <1>8, <1>9 DEF MapSubmitted, Q

\* A list that is through is released.
LEMMA MapReleaseKeeps ==
  ASSUME NEW ls \in Seq(MapCommandLists), ls # <<>>, Head(ls).ops = <<>>, NEW ops, NEW s, NEW t,
         MapSubmitted(ls, ops, s, t)
  PROVE  MapSubmitted(Tail(ls), ops, s, t)
<1> DEFINE R == MapQueueRels(ls)
           Q == MapQueueRels(Tail(ls))
<1>1. PICK v \in MapStates : MapPath(R, s, v) /\ <<v, t>> \in MapListRel(ops)
  BY DEF MapSubmitted
<1>2. /\ Tail(ls) \in Seq(MapCommandLists) /\ Len(Tail(ls)) = Len(ls) - 1 /\ Len(ls) \in Nat \ {0}
      /\ Head(ls) = ls[1] /\ \A k \in 1..Len(Tail(ls)) : Tail(ls)[k] = ls[k + 1]
  OBVIOUS
<1>3. /\ R \in Seq(MapRelations) /\ Len(R) = Len(ls)
      /\ \A k \in 1..Len(ls) : R[k] = MapListRel(ls[k].ops)
  BY MapOpSeqs
<1>4. /\ Q \in Seq(MapRelations) /\ Len(Q) = Len(Tail(ls))
      /\ \A k \in 1..Len(Tail(ls)) : Q[k] = MapListRel(Tail(ls)[k].ops)
  BY <1>2, MapOpSeqs
<1> HIDE DEF R, Q
<1>5. Len(R) = Len(Q) + 1 /\ R[1] = MapListRel(<<>>)
  BY <1>2, <1>3, <1>4
<1>6. \A k \in 1..Len(Q) : Q[k] = R[k + 1]
  BY <1>2, <1>3, <1>4
<1>7. PICK u \in MapStates : <<s, u>> \in R[1] /\ MapPath(Q, u, v)
  BY <1>1, <1>3, <1>4, <1>5, <1>6, MapPathHead
<1>8. s \in MapStates
  BY <1>1, <1>3, MapPathEnds
<1>9. u = s
  BY <1>5, <1>7, <1>8, MapEmptyList
<1> QED
  BY <1>1, <1>7, <1>9 DEF MapSubmitted, Q

\* The device executes the operation that is next.
LEMMA MapExecuteTakes ==
  ASSUME NEW ls \in Seq(MapCommandLists), NEW i \in DOMAIN ls, ls[i].ops # <<>>,
         \A j \in 1..(i - 1) : ls[j].ops = <<>>, NEW ops, NEW s, NEW t, MapSubmitted(ls, ops, s, t)
  PROVE  \E b \in MapStates :
           /\ <<s, b>> \in MapOpRel(Head(ls[i].ops))
           /\ MapSubmitted([ls EXCEPT ![i].ops = Tail(@)], ops, b, t)
<1> DEFINE x == ls[i].ops
           ms == [ls EXCEPT ![i].ops = Tail(@)]
           R == MapQueueRels(ls)
           Q == MapQueueRels(ms)
<1>1. PICK v \in MapStates : MapPath(R, s, v) /\ <<v, t>> \in MapListRel(ops)
  BY DEF MapSubmitted
<1>2. /\ i \in 1..Len(ls) /\ Len(ls) \in Nat /\ ls[i] \in MapCommandLists /\ x \in Seq(MapOps) /\ x # <<>>
      /\ Tail(x) \in Seq(MapOps) /\ Len(x) \in Nat \ {0} /\ Len(Tail(x)) = Len(x) - 1 /\ Head(x) = x[1]
      /\ \A k \in 1..Len(Tail(x)) : Tail(x)[k] = x[k + 1]
  <2>1. i \in 1..Len(ls) /\ Len(ls) \in Nat /\ ls[i] \in MapCommandLists
    OBVIOUS
  <2>2. x \in Seq(MapOps) /\ x # <<>>
    BY <2>1 DEF MapCommandLists
  <2> HIDE DEF x
  <2> QED
    BY <2>1, <2>2
<1>3. /\ ms \in Seq(MapCommandLists) /\ Len(ms) = Len(ls) /\ ms[i].ops = Tail(x)
      /\ \A k \in 1..Len(ls) : k # i => ms[k] = ls[k]
  <2>1. [ls[i] EXCEPT !.ops = Tail(@)] \in MapCommandLists
    BY <1>2 DEF MapCommandLists
  <2>2. ms = [ls EXCEPT ![i] = [ls[i] EXCEPT !.ops = Tail(@)]]
    OBVIOUS
  <2>3. [ls[i] EXCEPT !.ops = Tail(@)].ops = Tail(x)
    BY <1>2 DEF MapCommandLists
  <2> DEFINE l == [ls[i] EXCEPT !.ops = Tail(@)]
  <2> HIDE DEF l
  <2>4. l \in MapCommandLists /\ l.ops = Tail(x)
    BY <2>1, <2>3 DEF l
  <2>5. /\ [ls EXCEPT ![i] = l] \in Seq(MapCommandLists) /\ Len([ls EXCEPT ![i] = l]) = Len(ls)
        /\ \A k \in 1..Len(ls) : [ls EXCEPT ![i] = l][k] = IF k = i THEN l ELSE ls[k]
    BY <1>2, <2>4, ExceptSeq
  <2>6. ms = [ls EXCEPT ![i] = l]
    BY <2>2 DEF l
  <2> QED
    BY <1>2, <2>4, <2>5, <2>6
<1>4. /\ R \in Seq(MapRelations) /\ Len(R) = Len(ls)
      /\ \A k \in 1..Len(ls) : R[k] = MapListRel(ls[k].ops)
  BY MapOpSeqs
<1>5. /\ Q \in Seq(MapRelations) /\ Len(Q) = Len(ms)
      /\ \A k \in 1..Len(ms) : Q[k] = MapListRel(ms[k].ops)
  BY <1>3, MapOpSeqs
<1> HIDE DEF R, Q, ms
<1>6. /\ Len(Q) = Len(R) /\ i \in 1..Len(R) /\ R[i] = MapListRel(x) /\ Q[i] = MapListRel(Tail(x))
      /\ \A k \in 1..Len(R) : k # i => Q[k] = R[k]
  BY <1>2, <1>3, <1>4, <1>5
<1>7. ASSUME NEW k \in 1..(i - 1) PROVE R[k] = {<<a, a>> : a \in MapStates}
  <2>1. R[k] = MapListRel(<<>>)
    BY <1>2, <1>4
  <2>2. \A p \in MapListRel(<<>>) : p[1] \in MapStates /\ p = <<p[1], p[2]>>
    BY DEF MapListRel
  <2> QED
    BY <2>1, <2>2, MapEmptyList
<1>8. PICK c \in MapStates : <<s, c>> \in R[i] /\ \A y \in MapStates : <<y, c>> \in Q[i] => MapPath(Q, y, v)
  BY <1>1, <1>4, <1>5, <1>6, <1>7, MapPathReplace
<1>9. \E b \in MapStates : <<s, b>> \in MapOpRel(Head(x)) /\ <<b, c>> \in MapListRel(Tail(x))
  <2> HIDE DEF x
  <2> DEFINE A == MapOpRels(x)
             B == MapOpRels(Tail(x))
  <2>1. /\ A \in Seq(MapRelations) /\ Len(A) = Len(x) /\ \A k \in 1..Len(x) : A[k] = MapOpRel(x[k])
    BY <1>2, MapOpSeqs
  <2>2. /\ B \in Seq(MapRelations) /\ Len(B) = Len(Tail(x))
        /\ \A k \in 1..Len(Tail(x)) : B[k] = MapOpRel(Tail(x)[k])
    BY <1>2, MapOpSeqs
  <2>3. MapPath(A, s, c)
    BY <1>6, <1>8 DEF MapListRel
  <2> HIDE DEF A, B
  <2>4. Len(A) = Len(B) + 1 /\ A[1] = MapOpRel(Head(x))
    BY <1>2, <2>1, <2>2
  <2>5. \A k \in 1..Len(B) : B[k] = A[k + 1]
    BY <1>2, <2>1, <2>2
  <2>6. PICK b \in MapStates : <<s, b>> \in A[1] /\ MapPath(B, b, c)
    BY <2>1, <2>2, <2>3, <2>4, <2>5, MapPathHead
  <2>7. <<b, c>> \in MapListRel(Tail(x))
    BY <2>6 DEF MapListRel, B
  <2> QED
    BY <2>4, <2>6, <2>7
<1>10. PICK b \in MapStates : <<s, b>> \in MapOpRel(Head(x)) /\ <<b, c>> \in MapListRel(Tail(x))
  BY <1>9
<1>11. MapPath(Q, b, v)
  BY <1>6, <1>8, <1>10
<1>12. MapSubmitted(ms, ops, b, t)
  BY <1>1, <1>11 DEF MapSubmitted, Q
<1> QED
  BY <1>10, <1>12 DEF ms

\* What every operation of a list allows, the list allows,
LEMMA MapListTransport ==
  ASSUME NEW ops \in Seq(MapOps), NEW D, NEW f \in [MapStates -> MapStates],
         \A k \in DOMAIN ops : MapAllows(MapOpRel(ops[k]), D, f)
  PROVE  MapAllows(MapListRel(ops), D, f)
<1> SUFFICES ASSUME NEW a \in MapStates, NEW b \in MapStates, a \in D, <<a, b>> \in MapListRel(ops)
             PROVE  b \in D /\ <<f[a], f[b]>> \in MapListRel(ops)
  BY DEF MapAllows
<1> DEFINE R == MapOpRels(ops)
<1>1. /\ R \in Seq(MapRelations) /\ Len(R) = Len(ops) /\ DOMAIN ops = 1..Len(ops)
      /\ \A k \in 1..Len(ops) : R[k] = MapOpRel(ops[k])
  BY MapOpSeqs
<1>2. MapPath(R, a, b)
  BY DEF MapListRel
<1> HIDE DEF R
<1>3. \A k \in 1..Len(R) : MapAllows(R[k], D, f)
  BY <1>1
<1>5. b \in D /\ MapPath(R, f[a], f[b])
  BY <1>1, <1>2, <1>3, MapPathTransport
<1> QED
  BY <1>5 DEF MapListRel, R

\* and what all operations allow, all lists allow.
LEMMA MapSubmittedTransport ==
  ASSUME NEW ls \in Seq(MapCommandLists), NEW ops \in Seq(MapOps), NEW s \in MapStates, NEW t,
         MapSubmitted(ls, ops, s, t), NEW D, s \in D, NEW f \in [MapStates -> MapStates],
         \A i \in DOMAIN ls : \A k \in DOMAIN ls[i].ops : MapAllows(MapOpRel(ls[i].ops[k]), D, f),
         \A k \in DOMAIN ops : MapAllows(MapOpRel(ops[k]), D, f)
  PROVE  t \in D /\ t \in MapStates /\ MapSubmitted(ls, ops, f[s], f[t])
<1> DEFINE R == MapQueueRels(ls)
<1>1. PICK u \in MapStates : MapPath(R, s, u) /\ <<u, t>> \in MapListRel(ops)
  BY DEF MapSubmitted
<1>2. /\ R \in Seq(MapRelations) /\ Len(R) = Len(ls) /\ DOMAIN ls = 1..Len(ls)
      /\ \A k \in 1..Len(ls) : R[k] = MapListRel(ls[k].ops)
  BY MapOpSeqs
<1> HIDE DEF R
<1>3. ASSUME NEW k \in 1..Len(R) PROVE MapAllows(R[k], D, f)
  <2>1. k \in DOMAIN ls /\ R[k] = MapListRel(ls[k].ops)
    BY <1>2
  <2>2. ls[k].ops \in Seq(MapOps)
    <3>1. ls[k] \in MapCommandLists
      BY <2>1
    <3> QED
      BY <3>1 DEF MapCommandLists
  <2> QED
    BY <2>1, <2>2, MapListTransport
<1>5. u \in D /\ MapPath(R, f[s], f[u])
  BY <1>1, <1>2, <1>3, MapPathTransport
<1>6. t \in MapStates
  BY <1>1 DEF MapListRel
<1>7. t \in D /\ <<f[u], f[t]>> \in MapListRel(ops)
  BY <1>1, <1>5, <1>6, MapListTransport DEF MapAllows
<1> QED
  BY <1>5, <1>6, <1>7 DEF MapSubmitted, R

-----------------------------------------------------------------------------
(* The invariant of the mapped buffer *)

MapTypes ==
  /\ usage \in {"staging", "default", "dynamic"} /\ cached \in BOOLEAN
  /\ mapCalls \in 0..MapCalls /\ value \in 0..mapCalls
  /\ ptr \in Map!Slices /\ storage \in Map!Slices
  /\ pc \in {"idle", "promote", "wait", "recorded", "busy", "drain"}
  /\ map \in [type : {"read", "write"}, doNotWait : BOOLEAN] /\ drawing \in BOOLEAN
  /\ memory \in [Map!Slices -> Values]
  /\ mapLists \in Seq(MapCommandLists) /\ mapCmd \in MapCommandLists
  /\ mapCompleted \in 0..mapContext.submission
  /\ \A i \in DOMAIN mapLists : mapLists[i].id <= mapContext.submission

\* A list tracks the accesses of its operations.
MapTracks(l) == \A k \in DOMAIN l.ops : l.ops[k][1] \in l.accesses
TracksInv == MapTracks(mapCmd) /\ \A i \in DOMAIN mapLists : MapTracks(mapLists[i])

\* A slice that an operation works on is the buffer's, or was when the list was recorded
\* that holds it since then: that list or a later one.
HoldsInv ==
  /\ \A k \in DOMAIN mapCmd.ops : mapCmd.ops[k][2] = storage \/ mapCmd.ops[k][2] \in mapCmd.slices
  /\ \A i \in DOMAIN mapLists : \A k \in DOMAIN mapLists[i].ops :
       LET s == mapLists[i].ops[k][2]
       IN \/ s = storage \/ s \in mapCmd.slices
          \/ \E j \in i..Len(mapLists) : s \in mapLists[j].slices

\* From what the memory has now, what is pending leads to what the application expects.
MapStart == [cur |-> storage, m |-> memory]
Behaves ==
  \E u, t \in MapStates :
    /\ MapSubmitted(mapLists, mapCmd.ops, MapStart, u) /\ MapWhole(mapContext, u, t, seq)
    /\ t.cur = ptr /\ t.m[ptr] = value

MapInv == MapTypes /\ TracksInv /\ HoldsInv /\ Behaves

\* What the constants are.
LEMMA MapConstants == MapCalls \in Nat /\ SliceCount \in Nat \ {0} /\ 1 \in Map!Slices
BY ReadbackAssumption DEF ReadbackAssumption, Map!MapAssumption, Map!Slices

\* All lists are the submitted ones and the current one.
LEMMA AllLists ==
  ASSUME MapTypes, NEW l
  PROVE  l \in Map!Range(Append(mapLists, mapCmd)) <=> l = mapCmd \/ \E i \in DOMAIN mapLists : l = mapLists[i]
<1> DEFINE A == Append(mapLists, mapCmd)
           n == Len(mapLists)
<1>1. /\ n \in Nat /\ DOMAIN mapLists = 1..n /\ DOMAIN A = 1..(n + 1) /\ A[n + 1] = mapCmd
      /\ \A i \in 1..n : A[i] = mapLists[i]
  BY DEF MapTypes
<1>2. \A i \in 1..(n + 1) : i \in 1..n \/ i = n + 1
  BY <1>1
<1>3. n + 1 \in 1..(n + 1) /\ \A i \in 1..n : i \in 1..(n + 1)
  BY <1>1
<1> HIDE DEF A, n
<1>4. l \in Map!Range(A) <=> \E i \in DOMAIN A : l = A[i]
  BY DEF Map!Range
<1> QED
  BY <1>1, <1>2, <1>3, <1>4 DEF A

\* What the memory has is a state.
LEMMA StartIsState == MapTypes => MapStart \in MapStates
BY DEF MapTypes, MapStart, MapStates

-----------------------------------------------------------------------------
(* What the properties rest on *)

\* While the buffer's operations are not executed the CS thread's slice stays.
LEMMA DeviceKeepsStorage ==
  ASSUME MapTypes, NEW u, MapSubmitted(mapLists, mapCmd.ops, MapStart, u)
  PROVE  u \in MapStates /\ u.cur = storage
<1> DEFINE D == {a \in MapStates : a.cur = storage}
           f == [a \in MapStates |-> a]
<1>1. mapLists \in Seq(MapCommandLists) /\ mapCmd.ops \in Seq(MapOps) /\ MapStart \in MapStates
  BY StartIsState DEF MapTypes, MapCommandLists
<1>2. f \in [MapStates -> MapStates] /\ MapStart \in D
  BY <1>1 DEF MapStart
<1>3. \A x : MapAllows(MapOpRel(x), D, f)
  BY DEF MapAllows, MapOpRel
<1> HIDE DEF D, f
<1>4. u \in D /\ u \in MapStates
  BY <1>1, <1>2, <1>3, MapSubmittedTransport
<1> QED
  BY <1>4 DEF D

\* Without writes to come, the slices have what they will have.
LEMMA DeviceKeepsMemory ==
  ASSUME MapTypes, TracksInv, ~Map!InUse("write"), NEW u, MapSubmitted(mapLists, mapCmd.ops, MapStart, u)
  PROVE  u \in MapStates /\ u.m = memory
<1> DEFINE D == {a \in MapStates : a.m = memory}
           f == [a \in MapStates |-> a]
<1>1. mapLists \in Seq(MapCommandLists) /\ mapCmd.ops \in Seq(MapOps) /\ MapStart \in MapStates
  BY StartIsState DEF MapTypes, MapCommandLists
<1>2. f \in [MapStates -> MapStates] /\ MapStart \in D
  BY <1>1 DEF MapStart
<1>3. \A x : x[1] # "write" => MapAllows(MapOpRel(x), D, f)
  BY DEF MapAllows, MapOpRel
<1>4. /\ "write" \notin mapCmd.accesses
      /\ \A i \in DOMAIN mapLists : "write" \notin mapLists[i].accesses
  BY AllLists DEF Map!InUse
<1>5. /\ \A k \in DOMAIN mapCmd.ops : mapCmd.ops[k][1] # "write"
      /\ \A i \in DOMAIN mapLists : \A k \in DOMAIN mapLists[i].ops : mapLists[i].ops[k][1] # "write"
  BY <1>4 DEF TracksInv, MapTracks
<1> HIDE DEF D, f
<1>6. /\ \A k \in DOMAIN mapCmd.ops : MapAllows(MapOpRel(mapCmd.ops[k]), D, f)
      /\ \A i \in DOMAIN mapLists : \A k \in DOMAIN mapLists[i].ops : MapAllows(MapOpRel(mapLists[i].ops[k]), D, f)
  BY <1>3, <1>5
<1>7. u \in D /\ u \in MapStates
  BY <1>1, <1>2, <1>6, MapSubmittedTransport
<1> QED
  BY <1>7 DEF D

\* Once the CS thread has arrived, no command that uses the buffer is left.
LEMMA ArrivedIsThrough ==
  ASSUME NEW u, NEW t, MapWhole(mapContext, u, t, seq), Map!Arrived
  PROVE  ~UsesBuffer(mapContext.chunk) /\ \A i \in DOMAIN mapContext.stream : ~UsesBuffer(mapContext.stream[i])
<1> DEFINE c == mapContext
<1>1. /\ c.seq \in Nat /\ Len(c.stream) \in Nat /\ DOMAIN c.stream = 1..Len(c.stream) /\ seq \in Int
      /\ c.seq - Len(c.stream) >= Map!Target(c)
  BY DEF MapWhole, MapRecorded, MapShape, Map!Arrived, Map!ExecutedChunks, Map!CurrentSequence
<1>2. CASE usage = "staging"
  <2>1. UsesUpTo(c, seq) /\ c.seq - Len(c.stream) >= seq
    BY <1>1, <1>2 DEF MapWhole, MapRecorded, Map!Target, Map!HasSequenceNumber
  <2> QED
    BY <1>1, <2>1 DEF UsesUpTo
<1>3. CASE usage # "staging"
  <2>1. c.seq - Len(c.stream) >= Map!CurrentSequence(c)
    BY <1>1, <1>3 DEF Map!Target, Map!HasSequenceNumber
  <2>2. c.chunk = <<>> /\ Len(c.stream) = 0
    BY <1>1, <2>1 DEF Map!CurrentSequence
  <2> QED
    BY <1>1, <2>2 DEF UsesBuffer
<1> QED
  BY <1>2, <1>3

\* What the context holds are commands.
LEMMA CommandForm ==
  ASSUME NEW c, NEW s, NEW t, NEW q, MapWhole(c, s, t, q)
  PROVE  /\ \A i \in DOMAIN c.stream : \A k \in DOMAIN c.stream[i] : c.stream[i][k] \in MapCommands(c.submission)
         /\ \A k \in DOMAIN c.chunk : c.chunk[k] \in MapCommands(c.submission)
<1>1. c.stream \in Seq(Seq(MapCommands(c.submission))) /\ c.chunk \in Seq(MapCommands(c.submission))
  BY DEF MapWhole, MapRecorded, MapShape
<1>2. \A i \in DOMAIN c.stream : c.stream[i] \in Seq(MapCommands(c.submission))
  BY <1>1
<1> QED
  BY <1>1, <1>2

\* What the application has written last is then in the slice it has.
LEMMA LatestIsThere ==
  ASSUME MapInv, Map!Arrived, ~Map!InUse("write")
  PROVE  memory[ptr] = value
<1>1. PICK u \in MapStates, t \in MapStates :
        /\ MapSubmitted(mapLists, mapCmd.ops, MapStart, u) /\ MapWhole(mapContext, u, t, seq)
        /\ t.cur = ptr /\ t.m[ptr] = value
  BY DEF MapInv, Behaves
<1>2. u.m = memory
  BY <1>1, DeviceKeepsMemory DEF MapInv
<1> DEFINE D == {a \in MapStates : a.m = memory}
           f == [a \in MapStates |-> a]
<1>3. f \in [MapStates -> MapStates] /\ u \in D
  BY <1>2
<1>4. \A x : x[1] \notin {"write", "read"} => MapAllows(MapCommandRel(x), D, f)
  BY DEF MapAllows, MapCommandRel
<1> HIDE DEF D, f
<1>5. /\ \A k \in DOMAIN mapContext.chunk : MapAllows(MapCommandRel(mapContext.chunk[k]), D, f)
      /\ \A i \in DOMAIN mapContext.stream : \A k \in DOMAIN mapContext.stream[i] :
           MapAllows(MapCommandRel(mapContext.stream[i][k]), D, f)
  BY <1>1, <1>4, ArrivedIsThrough DEF UsesBuffer
<1>6. t \in D
  BY <1>1, <1>3, <1>5, MapContextTransport
<1> QED
  BY <1>1, <1>6 DEF D

\* The commands that carry a slice.
LEMMA CarriedSlices ==
  ASSUME NEW u, NEW t, MapWhole(mapContext, u, t, seq)
  PROVE  /\ \A k \in DOMAIN mapContext.chunk :
              mapContext.chunk[k][1] = "invalidate" => mapContext.chunk[k][2] \in Map!Carried
         /\ \A i \in DOMAIN mapContext.stream : \A k \in DOMAIN mapContext.stream[i] :
              mapContext.stream[i][k][1] = "invalidate" => mapContext.stream[i][k][2] \in Map!Carried
<1> DEFINE c == mapContext
           A == Append(c.stream, c.chunk)
           n == Len(c.stream)
<1>1. /\ n \in Nat /\ DOMAIN c.stream = 1..n /\ DOMAIN A = 1..(n + 1) /\ A[n + 1] = c.chunk
      /\ \A i \in 1..n : A[i] = c.stream[i]
  BY DEF MapWhole, MapRecorded, MapShape
<1>2. n + 1 \in 1..(n + 1) /\ \A i \in 1..n : i \in 1..(n + 1)
  BY <1>1
<1> HIDE DEF A, n
<1>3. c.chunk \in Map!Range(A) /\ \A i \in DOMAIN c.stream : c.stream[i] \in Map!Range(A)
  BY <1>1, <1>2 DEF Map!Range
<1>4. /\ \A k \in DOMAIN c.chunk : c.chunk[k] \in Map!Range(c.chunk)
      /\ \A i \in DOMAIN c.stream : \A k \in DOMAIN c.stream[i] : c.stream[i][k] \in Map!Range(c.stream[i])
  BY DEF Map!Range
<1>5. Map!Commands = UNION {Map!Range(chunk) : chunk \in Map!Range(A)}
  BY DEF Map!Commands, A
<1>6. /\ \A k \in DOMAIN c.chunk : c.chunk[k] \in Map!Commands
      /\ \A i \in DOMAIN c.stream : \A k \in DOMAIN c.stream[i] : c.stream[i][k] \in Map!Commands
  BY <1>3, <1>4, <1>5
<1> QED
  BY <1>6 DEF Map!Carried

-----------------------------------------------------------------------------
(* The invariant implies the property *)

\* The slices that an operation works on are held.
LEMMA OpsHeld ==
  ASSUME MapTypes, HoldsInv
  PROVE  /\ \A k \in DOMAIN mapCmd.ops : mapCmd.ops[k][2] \in Map!Held
         /\ \A i \in DOMAIN mapLists : \A k \in DOMAIN mapLists[i].ops : mapLists[i].ops[k][2] \in Map!Held
<1>1. DOMAIN mapLists = 1..Len(mapLists) /\ Len(mapLists) \in Nat
  BY DEF MapTypes
<1>2. ASSUME NEW i \in DOMAIN mapLists, NEW j \in i..Len(mapLists) PROVE mapLists[j].slices \subseteq Map!Held
  <2>1. j \in DOMAIN mapLists
    BY <1>1
  <2> QED
    BY <2>1 DEF Map!Held
<1>3. storage \in Map!Held /\ mapCmd.slices \subseteq Map!Held
  BY DEF Map!Held
<1> QED
  BY <1>2, <1>3 DEF HoldsInv

\* So is the one that the application has.
LEMMA PtrHeld ==
  ASSUME MapTypes, Behaves
  PROVE  ptr \in Map!Held
<1>1. PICK u \in MapStates, t \in MapStates :
        /\ MapSubmitted(mapLists, mapCmd.ops, MapStart, u) /\ MapWhole(mapContext, u, t, seq)
        /\ t.cur = ptr /\ t.m[ptr] = value
  BY DEF Behaves
<1>2. u.cur = storage
  BY <1>1, DeviceKeepsStorage
<1> DEFINE D == {a \in MapStates : a.cur \in Map!Held}
           f == [a \in MapStates |-> a]
<1>3. f \in [MapStates -> MapStates] /\ u \in D
  BY <1>1, <1>2 DEF Map!Held
<1>4. \A x : (x[1] = "invalidate" => x[2] \in Map!Carried) => MapAllows(MapCommandRel(x), D, f)
  BY DEF MapAllows, MapCommandRel, Map!Held
<1> HIDE DEF D, f
<1>5. /\ \A k \in DOMAIN mapContext.chunk : MapAllows(MapCommandRel(mapContext.chunk[k]), D, f)
      /\ \A i \in DOMAIN mapContext.stream : \A k \in DOMAIN mapContext.stream[i] :
           MapAllows(MapCommandRel(mapContext.stream[i][k]), D, f)
  BY <1>1, <1>4, CarriedSlices
<1>6. t \in D
  BY <1>1, <1>3, <1>5, MapContextTransport
<1> QED
  BY <1>1, <1>6 DEF D

\* A copy from the buffer that is next finds what it has to find.
LEMMA DeviceReads ==
  ASSUME MapTypes, Behaves, NEW i \in DOMAIN mapLists, Map!IsNext(i), Head(mapLists[i].ops)[1] = "read"
  PROVE  memory[Head(mapLists[i].ops)[2]] = Head(mapLists[i].ops)[3]
<1>1. PICK u \in MapStates : MapSubmitted(mapLists, mapCmd.ops, MapStart, u)
  BY DEF Behaves
<1>2. mapLists \in Seq(MapCommandLists)
  BY DEF MapTypes
<1>3. mapLists[i].ops # <<>> /\ \A j \in 1..(i - 1) : mapLists[j].ops = <<>>
  BY DEF Map!IsNext
<1>4. PICK b \in MapStates : <<MapStart, b>> \in MapOpRel(Head(mapLists[i].ops))
  BY <1>1, <1>2, <1>3, MapExecuteTakes
<1> QED
  BY <1>4 DEF MapOpRel, MapStart

\* Together: the buffer behaves as if every call was executed at once.
LEMMA InvSequential == MapInv => SequentialMemory
<1> SUFFICES ASSUME MapInv PROVE SequentialMemory
  OBVIOUS
<1>1. Map!DeviceReadsInOrder
  BY DeviceReads DEF Map!DeviceReadsInOrder, MapInv
<1>2. Map!MapReadsLatest
  BY LatestIsThere DEF Map!MapReadsLatest, Map!ReadReturns
<1>3. Map!SlicesAlive
  <2>1. ASSUME NEW l \in Map!Range(Append(mapLists, mapCmd)), NEW k \in DOMAIN l.ops
        PROVE  l.ops[k][2] \in Map!Held
    BY AllLists, OpsHeld DEF MapInv
  <2> QED
    BY <2>1, PtrHeld DEF Map!SlicesAlive, MapInv
<1> QED
  BY <1>1, <1>2, <1>3 DEF SequentialMemory, Map!SequentialMemory

-----------------------------------------------------------------------------
(* The invariant holds at the start *)

\* In a new context nothing is pending,
LEMMA NewIsWhole ==
  ASSUME NEW s \in MapStates
  PROVE  MapWhole(Map!NewContext, s, s, 0)
<1> DEFINE c == Map!NewContext
<1>1. c = [chunk |-> <<>>, stream |-> <<>>, seq |-> 0, flushSeq |-> 0, submission |-> 0, missed |-> 4]
  BY DEF Map!NewContext, Map!None
<1>2. <<>> \in Seq(MapCommands(0)) /\ <<>> \in Seq(Seq(MapCommands(0)) \ {<<>>}) /\ <<>> \in Seq(Seq(MapCommands(0)))
      /\ Len(<<>>) = 0 /\ DOMAIN <<>> = {}
  OBVIOUS
<1> HIDE DEF c
<1>3. MapShape(c, 0)
  BY <1>1, <1>2 DEF MapShape
<1>4. MapStreamRels(<<>>) \in Seq(MapRelations) /\ MapStreamRels(<<>>) = <<>>
  <2>1. MapStreamRels(<<>>) \in Seq(MapRelations) /\ Len(MapStreamRels(<<>>)) = 0
    BY <1>2, MapRelSeqs
  <2> QED
    BY <2>1
<1>5. MapPath(MapStreamRels(<<>>), s, s)
  BY <1>4, MapPathEmpty
<1>6. <<s, s>> \in MapChunkRel(<<>>)
  BY MapEmptyChunk
<1>7. MapPending(c, s, s)
  BY <1>1, <1>5, <1>6 DEF MapPending
<1>8. 0 \in 0..Map!CurrentSequence(c) /\ UsesUpTo(c, 0)
  <2>1. c.chunk = <<>> /\ c.stream = <<>> /\ c.seq = 0
    BY <1>1
  <2>2. ~UsesBuffer(<<>>)
    BY <1>2 DEF UsesBuffer
  <2> QED
    BY <1>2, <2>1, <2>2 DEF Map!CurrentSequence, UsesUpTo
<1>9. c.submission = 0
  BY <1>1
<1> QED
  BY <1>3, <1>7, <1>8, <1>9 DEF MapWhole, MapRecorded, c

\* and without lists nothing is left to execute.
LEMMA NothingSubmitted ==
  ASSUME NEW s \in MapStates
  PROVE  MapSubmitted(<<>>, <<>>, s, s)
<1>1. MapQueueRels(<<>>) \in Seq(MapRelations) /\ Len(MapQueueRels(<<>>)) = 0
  <2>1. <<>> \in Seq(MapCommandLists) /\ Len(<<>>) = 0
    OBVIOUS
  <2> QED
    BY <2>1, MapOpSeqs
<1>2. MapQueueRels(<<>>) = <<>>
  BY <1>1
<1>3. MapPath(MapQueueRels(<<>>), s, s)
  BY <1>1, <1>2, MapPathEmpty
<1> QED
  BY <1>3, MapEmptyList DEF MapSubmitted

\* A list starts empty.
LEMMA EmptyListType ==
  /\ Map!EmptyList \in MapCommandLists
  /\ Map!EmptyList.ops = <<>> /\ DOMAIN Map!EmptyList.ops = {}
  /\ Map!EmptyList.slices = {} /\ Map!EmptyList.accesses = {}
<1>1. Map!EmptyList = [ops |-> <<>>, accesses |-> {}, slices |-> {}, id |-> 0]
  BY DEF Map!EmptyList
<1>2. <<>> \in Seq(MapOps) /\ DOMAIN <<>> = {}
  OBVIOUS
<1> QED
  BY <1>1, <1>2 DEF MapCommandLists

\* The invariant holds when the buffer is created.
LEMMA InitInv == Map!Init => MapInv
<1> SUFFICES ASSUME Map!Init PROVE MapInv
  OBVIOUS
<1>1. /\ mapContext = Map!NewContext /\ usage \in {"staging", "default", "dynamic"} /\ cached \in BOOLEAN
      /\ seq = 0 /\ ptr = 1 /\ storage = 1 /\ value = 0 /\ mapCalls = 0 /\ drawing = FALSE
      /\ pc = "idle" /\ map = [type |-> "read", doNotWait |-> FALSE]
      /\ mapCmd = Map!EmptyList /\ mapLists = <<>> /\ memory = [s \in Map!Slices |-> 0] /\ mapCompleted = 0
  BY DEF Map!Init
<1>2. mapContext.submission = 0
  BY <1>1 DEF Map!NewContext
<1>3. 0 \in Values /\ memory \in [Map!Slices -> Values]
  BY <1>1, MapConstants DEF Values
<1>4. <<>> \in Seq(MapCommandLists) /\ DOMAIN <<>> = {}
  OBVIOUS
<1>5. MapTypes
  <2>1. mapCalls \in 0..MapCalls /\ value \in 0..mapCalls /\ mapCompleted \in 0..mapContext.submission
    BY <1>1, <1>2, MapConstants
  <2>2. map \in [type : {"read", "write"}, doNotWait : BOOLEAN]
    BY <1>1
  <2>3. mapLists \in Seq(MapCommandLists) /\ mapCmd \in MapCommandLists
    BY <1>1, <1>4, EmptyListType
  <2>4. \A i \in DOMAIN mapLists : mapLists[i].id <= mapContext.submission
    BY <1>1, <1>4
  <2> QED
    BY <1>1, <1>3, <2>1, <2>2, <2>3, <2>4, MapConstants DEF MapTypes
<1>6. TracksInv /\ HoldsInv
  BY <1>1, <1>4, EmptyListType DEF TracksInv, MapTracks, HoldsInv
<1>7. Behaves
  <2>1. MapStart \in MapStates
    BY <1>5, StartIsState
  <2>2. MapSubmitted(mapLists, mapCmd.ops, MapStart, MapStart)
    BY <1>1, <2>1, NothingSubmitted, EmptyListType
  <2>3. MapWhole(mapContext, MapStart, MapStart, seq)
    BY <1>1, <2>1, NewIsWhole
  <2>4. MapStart.cur = ptr /\ MapStart.m[ptr] = value
    BY <1>1, MapConstants DEF MapStart
  <2> QED
    BY <2>1, <2>2, <2>3, <2>4 DEF Behaves
<1> QED
  BY <1>5, <1>6, <1>7 DEF MapInv

-----------------------------------------------------------------------------
(* A step of the application *)

\* The states between the device, the CS thread and the application, for the next state.
LEMMA BehavesNext ==
  ASSUME usage' = usage, NEW u \in MapStates, NEW t \in MapStates,
         MapSubmitted(mapLists', mapCmd'.ops, [cur |-> storage', m |-> memory'], u),
         MapWhole(mapContext', u, t, seq'), t.cur = ptr', t.m[ptr'] = value'
  PROVE  Behaves'
BY DEF Behaves, MapStart, MapWhole, MapRecorded

\* What is pending does not use a slice that is not held: whatever it gets, the rest
\* goes on as before, and it can be handed over.
LEMMA FreshSlice ==
  ASSUME MapTypes, HoldsInv, Behaves,
         NEW new \in Map!FreeSlices, NEW content \in Values, NEW done
  PROVE  /\ \E u, t \in MapStates :
              /\ MapSubmitted(mapLists, mapCmd.ops, [cur |-> storage, m |-> [memory EXCEPT ![new] = content]], u)
              /\ MapWhole(Map!EmitCs(mapContext, <<"invalidate", new>>, done), u, t, seq)
              /\ t.cur = new /\ t.m[new] = content
         /\ Map!EmitCs(mapContext, <<"invalidate", new>>, done).submission >= mapContext.submission
<1>1. PICK u \in MapStates, t \in MapStates :
        MapSubmitted(mapLists, mapCmd.ops, MapStart, u) /\ MapWhole(mapContext, u, t, seq)
  BY DEF Behaves
<1>2. mapLists \in Seq(MapCommandLists) /\ mapCmd.ops \in Seq(MapOps) /\ MapStart \in MapStates
  BY StartIsState DEF MapTypes, MapCommandLists
<1>3. new \in Map!Slices /\ new \notin Map!Held
  BY DEF Map!FreeSlices
<1> DEFINE D == {a \in MapStates : a.cur # new}
           f == [a \in MapStates |-> [cur |-> a.cur, m |-> [a.m EXCEPT ![new] = content]]]
<1>4. f \in [MapStates -> MapStates]
  BY <1>3 DEF MapStates
<1>5. MapStart \in D
  BY <1>2, <1>3 DEF MapStart, Map!Held
<1>6. \A x \in MapOps : x[2] # new => MapAllows(MapOpRel(x), D, f)
  <2> SUFFICES ASSUME NEW x \in MapOps, x[2] # new, NEW a \in MapStates, NEW b \in MapStates,
                      a \in D, <<a, b>> \in MapOpRel(x)
               PROVE  b \in D /\ <<f[a], f[b]>> \in MapOpRel(x)
    BY DEF MapAllows
  <2>0. a.m \in [Map!Slices -> Values] /\ f[a].m = [a.m EXCEPT ![new] = content] /\ f[a].cur = a.cur
        /\ f[a] \in MapStates /\ f[b] \in MapStates /\ x[2] \in Map!Slices
    BY <1>4 DEF MapStates, MapOps
  <2>1. CASE x[1] = "write" /\ b = [cur |-> a.cur, m |-> [a.m EXCEPT ![x[2]] = x[3]]]
    <3>1. b.m = [a.m EXCEPT ![x[2]] = x[3]] /\ b.cur = a.cur
      BY <2>1
    <3>2. [[a.m EXCEPT ![x[2]] = x[3]] EXCEPT ![new] = content] = [[a.m EXCEPT ![new] = content] EXCEPT ![x[2]] = x[3]]
      BY <2>0
    <3>3. f[b] = [cur |-> f[a].cur, m |-> [f[a].m EXCEPT ![x[2]] = x[3]]]
      BY <2>0, <3>1, <3>2
    <3> QED
      BY <2>0, <2>1, <3>1, <3>3 DEF MapOpRel
  <2>2. CASE x[1] = "read" /\ a.m[x[2]] = x[3] /\ b = a
    <3>1. f[a].m[x[2]] = x[3]
      BY <1>3, <2>0, <2>2
    <3> QED
      BY <2>0, <2>2, <3>1 DEF MapOpRel
  <2> QED
    BY <2>1, <2>2 DEF MapOpRel
<1>7. \A x : (x[1] = "invalidate" => x[2] # new) => MapAllows(MapCommandRel(x), D, f)
  <2> SUFFICES ASSUME NEW x, x[1] = "invalidate" => x[2] # new, NEW a \in MapStates, NEW b \in MapStates,
                      a \in D, <<a, b>> \in MapCommandRel(x)
               PROVE  b \in D /\ <<f[a], f[b]>> \in MapCommandRel(x)
    BY DEF MapAllows
  <2>0. a.m \in [Map!Slices -> Values] /\ f[a].m = [a.m EXCEPT ![new] = content] /\ f[a].cur = a.cur
        /\ f[a] \in MapStates /\ f[b] \in MapStates /\ a.cur \in Map!Slices /\ a.cur # new
    BY <1>4 DEF MapStates
  <2>1. CASE x[1] = "write" /\ b = [cur |-> a.cur, m |-> [a.m EXCEPT ![a.cur] = x[2]]]
    <3>1. b.m = [a.m EXCEPT ![a.cur] = x[2]] /\ b.cur = a.cur
      BY <2>1
    <3>2. [[a.m EXCEPT ![a.cur] = x[2]] EXCEPT ![new] = content] = [[a.m EXCEPT ![new] = content] EXCEPT ![a.cur] = x[2]]
      BY <2>0
    <3>3. f[b] = [cur |-> f[a].cur, m |-> [f[a].m EXCEPT ![f[a].cur] = x[2]]]
      BY <2>0, <3>1, <3>2
    <3> QED
      BY <2>0, <2>1, <3>1, <3>3 DEF MapCommandRel
  <2>2. CASE x[1] = "read" /\ a.m[a.cur] = x[2] /\ b = a
    <3>1. f[a].m[f[a].cur] = x[2]
      BY <1>3, <2>0, <2>2
    <3> QED
      BY <2>0, <2>2, <3>1 DEF MapCommandRel
  <2>3. CASE x[1] = "invalidate" /\ b = [cur |-> x[2], m |-> a.m]
    <3>1. f[b] = [cur |-> x[2], m |-> f[a].m] /\ b \in D
      BY <2>0, <2>3
    <3> QED
      BY <2>0, <2>3, <3>1 DEF MapCommandRel
  <2>4. CASE x[1] = "flush" /\ b = a
    BY <2>0, <2>4 DEF MapCommandRel
  <2> QED
    BY <2>1, <2>2, <2>3, <2>4 DEF MapCommandRel
<1>8. f[MapStart] = [cur |-> storage, m |-> [memory EXCEPT ![new] = content]]
  BY <1>2 DEF MapStart
<1>9. \A a \in MapStates : f[a].m[new] = content /\ f[a].m \in [Map!Slices -> Values]
  BY <1>3, <1>4 DEF MapStates
<1> HIDE DEF D, f
<1>10. /\ \A k \in DOMAIN mapCmd.ops : MapAllows(MapOpRel(mapCmd.ops[k]), D, f)
       /\ \A i \in DOMAIN mapLists : \A k \in DOMAIN mapLists[i].ops : MapAllows(MapOpRel(mapLists[i].ops[k]), D, f)
  <2>1. \A k \in DOMAIN mapCmd.ops : mapCmd.ops[k] \in MapOps /\ mapCmd.ops[k][2] # new
    BY <1>2, <1>3, OpsHeld
  <2>2. ASSUME NEW i \in DOMAIN mapLists, NEW k \in DOMAIN mapLists[i].ops
        PROVE  mapLists[i].ops[k] \in MapOps /\ mapLists[i].ops[k][2] # new
    <3>1. mapLists[i].ops \in Seq(MapOps)
      <4>1. mapLists[i] \in MapCommandLists
        BY <1>2
      <4> QED
        BY <4>1 DEF MapCommandLists
    <3> QED
      BY <1>3, <3>1, OpsHeld
  <2> QED
    BY <1>6, <2>1, <2>2
<1>11. u \in D /\ MapSubmitted(mapLists, mapCmd.ops, f[MapStart], f[u])
  BY <1>1, <1>2, <1>4, <1>5, <1>10, MapSubmittedTransport
<1>12. /\ \A k \in DOMAIN mapContext.chunk : MapAllows(MapCommandRel(mapContext.chunk[k]), D, f)
       /\ \A i \in DOMAIN mapContext.stream : \A k \in DOMAIN mapContext.stream[i] :
            MapAllows(MapCommandRel(mapContext.stream[i][k]), D, f)
  <2>1. Map!Carried \subseteq Map!Held
    BY DEF Map!Held
  <2> QED
    BY <1>1, <1>3, <1>7, <2>1, CarriedSlices
<1>13. MapWhole(mapContext, f[u], f[t], seq)
  BY <1>1, <1>4, <1>11, <1>12, MapContextTransport
<1> DEFINE x == <<"invalidate", new>>
           v == [cur |-> new, m |-> f[t].m]
<1>14. v \in MapStates /\ <<f[t], v>> \in MapCommandRel(x)
  <2>1. f[t] \in MapStates /\ v \in MapStates
    BY <1>1, <1>3, <1>4, <1>9 DEF MapStates
  <2> QED
    BY <2>1 DEF MapCommandRel
<1>15. v.cur = new /\ v.m[new] = content
  BY <1>1, <1>9
<1>16. x[1] = "invalidate" /\ \A n \in Nat : x \in MapCommands(n)
  BY <1>3, MapCommandForms
<1> HIDE DEF v, x
<1>17. MapWhole(Map!EmitCs(mapContext, x, done), f[u], v, seq)
       /\ Map!EmitCs(mapContext, x, done).submission >= mapContext.submission
  BY <1>13, <1>14, <1>16, MapEmitAdds
<1>18. f[u] \in MapStates
  BY <1>1, <1>4
<1> QED
  BY <1>8, <1>11, <1>14, <1>15, <1>17, <1>18 DEF x

\* A step of the application leaves the lists alone.
LEMMA ApplicationStep ==
  ASSUME MapInv, UNCHANGED <<usage, cached, storage, mapCmd, mapLists, mapCompleted>>,
         mapCalls' \in 0..MapCalls, value' \in 0..mapCalls', ptr' \in Map!Slices,
         pc' \in {"idle", "promote", "wait", "recorded", "busy", "drain"},
         map' \in [type : {"read", "write"}, doNotWait : BOOLEAN], drawing' \in BOOLEAN,
         memory' \in [Map!Slices -> Values], NEW u \in MapStates, NEW t \in MapStates,
         MapSubmitted(mapLists, mapCmd.ops, [cur |-> storage, m |-> memory'], u),
         MapWhole(mapContext', u, t, seq'), mapContext'.submission >= mapContext.submission,
         t.cur = ptr', t.m[ptr'] = value'
  PROVE  MapInv'
<1>1. MapTypes'
  <2>1. mapContext'.submission \in Nat
    BY DEF MapWhole, MapRecorded, MapShape
  <2>2. mapCompleted' \in 0..mapContext'.submission
    <3>1. mapContext.submission \in Nat
      BY DEF MapInv, Behaves, MapWhole, MapRecorded, MapShape
    <3>2. mapCompleted \in 0..mapContext.submission
      BY DEF MapInv, MapTypes
    <3> QED
      BY <2>1, <3>1, <3>2
  <2>3. \A i \in DOMAIN mapLists' : mapLists'[i].id <= mapContext'.submission
    <3> SUFFICES ASSUME NEW i \in DOMAIN mapLists PROVE mapLists[i].id <= mapContext'.submission
      OBVIOUS
    <3>1. mapLists[i] \in MapCommandLists /\ mapLists[i].id <= mapContext.submission
      BY DEF MapInv, MapTypes
    <3>2. mapLists[i].id \in Nat
      BY <3>1 DEF MapCommandLists
    <3>3. mapContext.submission \in Nat
      BY DEF MapInv, Behaves, MapWhole, MapRecorded, MapShape
    <3> QED
      BY <2>1, <3>1, <3>2, <3>3
  <2> QED
    BY <2>2, <2>3 DEF MapInv, MapTypes
<1>2. TracksInv' /\ HoldsInv'
  BY DEF MapInv, TracksInv, MapTracks, HoldsInv
<1>3. Behaves'
  BY BehavesNext
<1> QED
  BY <1>1, <1>2, <1>3 DEF MapInv

\* The number of a call, which is what it writes.
LEMMA CallCounts ==
  ASSUME MapTypes, Map!Call
  PROVE  mapCalls' \in 0..MapCalls /\ mapCalls' \in Values /\ \A v \in 0..mapCalls : v \in 0..mapCalls'
BY MapConstants DEF MapTypes, Map!Call, Values

\* A command that uses the buffer.
LEMMA UseKeeps ==
  ASSUME NEW u, NEW t, MapWhole(mapContext, u, t, seq),
         NEW x, x[1] \in {"write", "read"}, \A n \in Nat : x \in MapCommands(n),
         NEW w, <<t, w>> \in MapCommandRel(x), Map!Use(x)
  PROVE  MapWhole(mapContext', u, w, seq') /\ mapContext'.submission >= mapContext.submission
<1> DEFINE c == Map!EmitCs(mapContext, x, mapCompleted)
<1>0. x[1] # "flush"
  OBVIOUS
<1>1. CASE usage = "staging"
  <2>1. seq' = Map!CurrentSequence(c) /\ mapContext' = Map!ConsiderFlush(c, 2, mapCompleted)
    BY <1>1 DEF Map!Use, Map!HasSequenceNumber, Map!TrackedNumber, Map!Strong
  <2>2. MapWhole(c, u, w, seq') /\ c.submission >= mapContext.submission
    BY <1>0, <1>1, <2>1, MapEmitAdds
  <2> HIDE DEF c
  <2>3. MapWhole(mapContext', u, w, seq') /\ mapContext'.submission >= c.submission
    BY <2>1, <2>2, MapConsiderFlushKeeps
  <2>4. mapContext.submission \in Nat /\ c.submission \in Nat /\ mapContext'.submission \in Nat
    BY <2>2, <2>3 DEF MapWhole, MapRecorded, MapShape
  <2> QED
    BY <2>2, <2>3, <2>4
<1>2. CASE usage # "staging"
  <2>1. seq' = seq /\ mapContext' = c
    BY <1>2 DEF Map!Use, Map!HasSequenceNumber
  <2> QED
    BY <1>0, <1>2, <2>1, MapEmitAdds
<1> QED
  BY <1>1, <1>2

\* A copy to the buffer changes the last state that is pending.
LEMMA CopyToKeeps ==
  ASSUME MapInv, Map!CopyTo
  PROVE  MapInv'
<1>1. PICK u \in MapStates, t \in MapStates :
        /\ MapSubmitted(mapLists, mapCmd.ops, MapStart, u) /\ MapWhole(mapContext, u, t, seq)
        /\ t.cur = ptr /\ t.m[ptr] = value
  BY DEF MapInv, Behaves
<1>2. mapCalls' \in 0..MapCalls /\ mapCalls' \in Values
  BY CallCounts DEF MapInv, Map!CopyTo
<1> DEFINE x == <<"write", mapCalls'>>
           w == [cur |-> t.cur, m |-> [t.m EXCEPT ![t.cur] = mapCalls']]
<1>3. /\ value' = mapCalls' /\ drawing' = FALSE /\ Map!Use(x)
      /\ UNCHANGED <<usage, cached, ptr, pc, map, storage, mapCmd, mapLists, memory, mapCompleted>>
  BY DEF Map!CopyTo, Map!bufferVars, Map!callVars, Map!csVars
<1>4. w \in MapStates /\ <<t, w>> \in MapCommandRel(x)
  BY <1>2 DEF MapStates, MapCommandRel
<1>5. w.cur = ptr /\ w.m[ptr] = mapCalls'
  BY <1>1 DEF MapStates
<1>6. x[1] = "write" /\ \A n \in Nat : x \in MapCommands(n)
  BY <1>2, MapCommandForms
<1> HIDE DEF w, x
<1>7. MapWhole(mapContext', u, w, seq') /\ mapContext'.submission >= mapContext.submission
  BY <1>1, <1>3, <1>4, <1>6, UseKeeps
<1>8. MapSubmitted(mapLists, mapCmd.ops, [cur |-> storage, m |-> memory'], u)
  BY <1>1, <1>3 DEF MapStart
<1>9. MapTypes
  BY DEF MapInv
<1>10. /\ ptr' \in Map!Slices /\ pc' \in {"idle", "promote", "wait", "recorded", "busy", "drain"}
       /\ map' \in [type : {"read", "write"}, doNotWait : BOOLEAN] /\ drawing' \in BOOLEAN
       /\ memory' \in [Map!Slices -> Values]
  BY <1>3, <1>9 DEF MapTypes
<1>11. value' \in 0..mapCalls'
  BY <1>2, <1>3 DEF Values
<1> QED
  BY <1>2, <1>3, <1>4, <1>5, <1>7, <1>8, <1>10, <1>11, ApplicationStep

\* A copy from the buffer expects what that state has.
LEMMA CopyFromKeeps ==
  ASSUME MapInv, Map!CopyFrom
  PROVE  MapInv'
<1>1. PICK u \in MapStates, t \in MapStates :
        /\ MapSubmitted(mapLists, mapCmd.ops, MapStart, u) /\ MapWhole(mapContext, u, t, seq)
        /\ t.cur = ptr /\ t.m[ptr] = value
  BY DEF MapInv, Behaves
<1>9. MapTypes
  BY DEF MapInv
<1>2. mapCalls' \in 0..MapCalls /\ value \in Values /\ value \in 0..mapCalls'
  BY <1>9, CallCounts, MapConstants DEF MapTypes, Map!CopyFrom, Values
<1> DEFINE x == <<"read", value>>
<1>3. /\ drawing' = FALSE /\ Map!Use(x)
      /\ UNCHANGED <<usage, cached, value, ptr, pc, map, storage, mapCmd, mapLists, memory, mapCompleted>>
  BY DEF Map!CopyFrom, Map!bufferVars, Map!callVars, Map!csVars
<1>4. <<t, t>> \in MapCommandRel(x)
  BY <1>1 DEF MapCommandRel
<1>6. x[1] = "read" /\ \A n \in Nat : x \in MapCommands(n)
  BY <1>2, MapCommandForms
<1> HIDE DEF x
<1>7. MapWhole(mapContext', u, t, seq') /\ mapContext'.submission >= mapContext.submission
  BY <1>1, <1>3, <1>4, <1>6, UseKeeps
<1>8. MapSubmitted(mapLists, mapCmd.ops, [cur |-> storage, m |-> memory'], u)
  BY <1>1, <1>3 DEF MapStart
<1>10. /\ ptr' \in Map!Slices /\ pc' \in {"idle", "promote", "wait", "recorded", "busy", "drain"}
       /\ map' \in [type : {"read", "write"}, doNotWait : BOOLEAN] /\ drawing' \in BOOLEAN
       /\ memory' \in [Map!Slices -> Values] /\ value' \in 0..mapCalls'
  BY <1>2, <1>3, <1>9 DEF MapTypes
<1> QED
  BY <1>1, <1>2, <1>3, <1>7, <1>8, <1>10, ApplicationStep

\* A call that changes neither the buffer nor what is recorded for it.
LEMMA ContextStep ==
  ASSUME MapInv, UNCHANGED <<usage, cached, seq, ptr, value, storage, mapCmd, mapLists, memory, mapCompleted>>,
         mapCalls' \in 0..MapCalls, mapCalls' >= mapCalls,
         pc' \in {"idle", "promote", "wait", "recorded", "busy", "drain"},
         map' \in [type : {"read", "write"}, doNotWait : BOOLEAN], drawing' \in BOOLEAN,
         \A u, t : MapWhole(mapContext, u, t, seq) =>
           MapWhole(mapContext', u, t, seq) /\ mapContext'.submission >= mapContext.submission
  PROVE  MapInv'
<1>1. PICK u \in MapStates, t \in MapStates :
        /\ MapSubmitted(mapLists, mapCmd.ops, MapStart, u) /\ MapWhole(mapContext, u, t, seq)
        /\ t.cur = ptr /\ t.m[ptr] = value
  BY DEF MapInv, Behaves
<1>2. MapTypes
  BY DEF MapInv
<1>3. value' \in 0..mapCalls' /\ ptr' \in Map!Slices /\ memory' \in [Map!Slices -> Values]
  BY <1>2 DEF MapTypes
<1>4. MapSubmitted(mapLists, mapCmd.ops, [cur |-> storage, m |-> memory'], u)
  BY <1>1 DEF MapStart
<1>5. MapWhole(mapContext', u, t, seq') /\ mapContext'.submission >= mapContext.submission
  BY <1>1
<1> QED
  BY <1>1, <1>3, <1>4, <1>5, ApplicationStep

\* A context that does not change has as many submissions as before.
LEMMA SubmissionGrows ==
  ASSUME NEW u, NEW t, MapWhole(mapContext, u, t, seq)
  PROVE  mapContext.submission >= mapContext.submission
BY DEF MapWhole, MapRecorded, MapShape

\* The calls and the parts of MapBuffer that do not touch the buffer.
LEMMA MapFlushKeeps ==
  ASSUME MapInv, Map!Flush
  PROVE  MapInv'
<1>1. MapTypes
  BY DEF MapInv
<1>2. /\ drawing' = FALSE /\ mapContext' = Map!ExecuteFlush(mapContext)
      /\ UNCHANGED <<usage, cached, seq, ptr, value, pc, map, storage, mapCmd, mapLists, memory, mapCompleted>>
  BY DEF Map!Flush, Map!bufferVars, Map!callVars, Map!csVars
<1>3. mapCalls' \in 0..MapCalls /\ mapCalls' >= mapCalls
  BY <1>1, MapConstants DEF MapTypes, Map!Flush, Map!Call
<1>4. /\ pc' \in {"idle", "promote", "wait", "recorded", "busy", "drain"}
      /\ map' \in [type : {"read", "write"}, doNotWait : BOOLEAN] /\ drawing' \in BOOLEAN
  BY <1>1, <1>2 DEF MapTypes
<1>5. \A u, t : MapWhole(mapContext, u, t, seq) =>
        MapWhole(mapContext', u, t, seq) /\ mapContext'.submission >= mapContext.submission
  BY <1>2, MapExecuteFlushKeeps
<1> QED
  BY <1>2, <1>3, <1>4, <1>5, ContextStep

LEMMA StartKeeps ==
  ASSUME MapInv, NEW type \in {"read", "write"}, NEW doNotWait \in BOOLEAN, Map!MapStart(type, doNotWait)
  PROVE  MapInv'
<1>1. MapTypes
  BY DEF MapInv
<1>2. UNCHANGED <<usage, cached, seq, ptr, value, drawing, storage, mapCmd, mapLists, memory, mapCompleted>>
  BY DEF Map!MapStart, Map!bufferVars, Map!csVars
<1>3. mapCalls' \in 0..MapCalls /\ mapCalls' >= mapCalls
  <2>1. mapCalls' = mapCalls \/ Map!Call
    BY DEF Map!MapStart
  <2> QED
    BY <1>1, <2>1, MapConstants DEF MapTypes, Map!Call
<1>4. /\ pc' \in {"idle", "promote", "wait", "recorded", "busy", "drain"}
      /\ map' \in [type : {"read", "write"}, doNotWait : BOOLEAN] /\ drawing' \in BOOLEAN
  BY <1>1, <1>2 DEF MapTypes, Map!MapStart
<1>5. mapContext' \in {mapContext, Map!Dispatched(mapContext, Map!Target(mapContext))}
  BY DEF Map!MapStart, Map!Synchronize
<1>6. \A u, t : MapWhole(mapContext, u, t, seq) =>
        MapWhole(mapContext', u, t, seq) /\ mapContext'.submission >= mapContext.submission
  BY <1>5, DispatchKeeps, SubmissionGrows
<1> QED
  BY <1>2, <1>3, <1>4, <1>6, ContextStep

LEMMA WaitKeeps ==
  ASSUME MapInv, Map!MapWait
  PROVE  MapInv'
<1>1. MapTypes
  BY DEF MapInv
<1>2. UNCHANGED <<usage, cached, seq, ptr, value, mapCalls, drawing, map, storage, mapCmd, mapLists, memory,
                  mapCompleted>>
  BY DEF Map!MapWait, Map!bufferVars, Map!csVars, Map!appVars
<1>3. mapCalls' \in 0..MapCalls /\ mapCalls' >= mapCalls
  BY <1>1, <1>2, MapConstants DEF MapTypes
<1>4. /\ pc' \in {"idle", "promote", "wait", "recorded", "busy", "drain"}
      /\ map' \in [type : {"read", "write"}, doNotWait : BOOLEAN] /\ drawing' \in BOOLEAN
  BY <1>1, <1>2 DEF MapTypes, Map!MapWait, Map!WaitForResource
<1>5. mapContext' \in {mapContext, Map!Dispatched(mapContext, Map!Target(mapContext))}
  BY DEF Map!MapWait, Map!WaitForResource, Map!Synchronize
<1>6. \A u, t : MapWhole(mapContext, u, t, seq) =>
        MapWhole(mapContext', u, t, seq) /\ mapContext'.submission >= mapContext.submission
  BY <1>5, DispatchKeeps, SubmissionGrows
<1> QED
  BY <1>2, <1>3, <1>4, <1>6, ContextStep

LEMMA BusyKeeps ==
  ASSUME MapInv, Map!MapBusy
  PROVE  MapInv'
<1>1. MapTypes
  BY DEF MapInv
<1>2. UNCHANGED <<usage, cached, seq, ptr, value, mapCalls, map, storage, mapCmd, mapLists, memory, mapCompleted>>
  BY DEF Map!MapBusy, Map!bufferVars, Map!csVars, Map!Refuse
<1>3. mapCalls' \in 0..MapCalls /\ mapCalls' >= mapCalls
  BY <1>1, <1>2, MapConstants DEF MapTypes
<1>4. /\ pc' \in {"idle", "promote", "wait", "recorded", "busy", "drain"}
      /\ map' \in [type : {"read", "write"}, doNotWait : BOOLEAN] /\ drawing' \in BOOLEAN
  BY <1>1, <1>2 DEF MapTypes, Map!MapBusy, Map!Refuse
<1> DEFINE e == Map!ExecuteFlush(mapContext)
<1>5. mapContext' \in {Map!ConsiderFlush(mapContext, 1, mapCompleted), Map!Dispatched(e, Map!Target(e))}
  BY DEF Map!MapBusy, Map!Synchronize, Map!Synchronization
<1>6. ASSUME NEW u, NEW t, MapWhole(mapContext, u, t, seq)
      PROVE  MapWhole(mapContext', u, t, seq) /\ mapContext'.submission >= mapContext.submission
  <2>1. /\ MapWhole(Map!ConsiderFlush(mapContext, 1, mapCompleted), u, t, seq)
        /\ Map!ConsiderFlush(mapContext, 1, mapCompleted).submission >= mapContext.submission
    BY <1>6, MapConsiderFlushKeeps
  <2>2. MapWhole(e, u, t, seq) /\ e.submission >= mapContext.submission
    BY <1>6, MapExecuteFlushKeeps
  <2> HIDE DEF e
  <2>3. MapWhole(Map!Dispatched(e, Map!Target(e)), u, t, seq) /\ Map!Dispatched(e, Map!Target(e)).submission = e.submission
    BY <2>2, DispatchKeeps
  <2> QED
    BY <1>5, <2>1, <2>2, <2>3
<1> QED
  BY <1>2, <1>3, <1>4, <1>6, ContextStep

\* The slice that a map takes.
LEMMA NewSliceFree ==
  ASSUME Map!FreeSlices # {}
  PROVE  Map!NewSlice \in Map!FreeSlices
<1>1. Map!FreeSlices \in SUBSET Nat
  BY MapConstants DEF Map!FreeSlices, Map!Slices
<1>2. \E x \in Map!FreeSlices : \A y \in Map!FreeSlices : x <= y
  BY <1>1, NatMin
<1> QED
  BY <1>2 DEF Map!NewSlice, Map!Min

\* A map that discards takes a slice that nobody refers to,
LEMMA DiscardKeeps ==
  ASSUME MapInv, Map!MapDiscard
  PROVE  MapInv'
<1> DEFINE new == Map!NewSlice
           e == Map!EmitCs(mapContext, <<"invalidate", new>>, mapCompleted)
<1>1. MapTypes /\ HoldsInv /\ Behaves
  BY DEF MapInv
<1>2. mapCalls' \in 0..MapCalls /\ mapCalls' \in Values
  BY <1>1, CallCounts DEF Map!MapDiscard
<1>3. /\ value' = mapCalls' /\ drawing' = FALSE /\ ptr' = new
      /\ memory' = [memory EXCEPT ![new] = mapCalls'] /\ mapContext' = e
      /\ UNCHANGED <<usage, cached, seq, pc, map, storage, mapCmd, mapLists, mapCompleted>>
  BY DEF Map!MapDiscard, Map!Invalidate, Map!bufferVars, Map!callVars, Map!csVars
<1>4. new \in Map!FreeSlices /\ new \in Map!Slices
  BY NewSliceFree DEF Map!MapDiscard, Map!FreeSlices
<1> HIDE DEF new
<1>5. PICK u \in MapStates, t \in MapStates :
        /\ MapSubmitted(mapLists, mapCmd.ops, [cur |-> storage, m |-> [memory EXCEPT ![new] = mapCalls']], u)
        /\ MapWhole(e, u, t, seq) /\ t.cur = new /\ t.m[new] = mapCalls'
  BY <1>1, <1>2, <1>4, FreshSlice
<1>6. e.submission >= mapContext.submission
  BY <1>1, <1>2, <1>4, FreshSlice
<1> HIDE DEF e
<1>7. /\ ptr' \in Map!Slices /\ pc' \in {"idle", "promote", "wait", "recorded", "busy", "drain"}
      /\ map' \in [type : {"read", "write"}, doNotWait : BOOLEAN] /\ drawing' \in BOOLEAN
      /\ memory' \in [Map!Slices -> Values]
  BY <1>1, <1>2, <1>3, <1>4 DEF MapTypes
<1>8. value' \in 0..mapCalls'
  BY <1>2, <1>3 DEF Values
<1>9. MapSubmitted(mapLists, mapCmd.ops, [cur |-> storage, m |-> memory'], u)
  BY <1>3, <1>5
<1>10. /\ MapWhole(mapContext', u, t, seq') /\ mapContext'.submission >= mapContext.submission
       /\ t.cur = ptr' /\ t.m[ptr'] = value'
  BY <1>3, <1>5, <1>6
<1> QED
  BY <1>2, <1>3, <1>7, <1>8, <1>9, <1>10, ApplicationStep

\* and so does a map that is promoted, which copies what was written last.
LEMMA PromoteKeeps ==
  ASSUME MapInv, Map!MapPromote
  PROVE  MapInv'
<1>1. MapTypes /\ HoldsInv /\ Behaves
  BY DEF MapInv
<1>2. UNCHANGED <<usage, cached, seq, mapCalls, map, storage, mapCmd, mapLists, mapCompleted>>
  BY DEF Map!MapPromote, Map!bufferVars, Map!csVars
<1>3. mapCalls' \in 0..MapCalls /\ mapCalls' >= mapCalls
  BY <1>1, <1>2, MapConstants DEF MapTypes
<1>4. CASE ~Map!Promotes
  <2>1. pc' = "wait" /\ UNCHANGED <<mapContext, memory, ptr, value, drawing>>
    BY <1>4 DEF Map!MapPromote
  <2>2. /\ pc' \in {"idle", "promote", "wait", "recorded", "busy", "drain"}
        /\ map' \in [type : {"read", "write"}, doNotWait : BOOLEAN] /\ drawing' \in BOOLEAN
    BY <1>1, <1>2, <2>1 DEF MapTypes
  <2>3. \A u, t : MapWhole(mapContext, u, t, seq) =>
          MapWhole(mapContext', u, t, seq) /\ mapContext'.submission >= mapContext.submission
    BY <2>1, SubmissionGrows
  <2> QED
    BY <1>2, <1>3, <2>1, <2>2, <2>3, ContextStep
<1>5. CASE Map!Promotes
  <2> DEFINE new == Map!NewSlice
             e == Map!EmitCs(mapContext, <<"invalidate", new>>, mapCompleted)
  <2>1. Map!Return(new, memory[ptr]) /\ mapContext' = e
    BY <1>5 DEF Map!MapPromote, Map!Invalidate
  <2>2. new \in Map!FreeSlices /\ new \in Map!Slices
    BY NewSliceFree DEF Map!MapPromote, Map!FreeSlices
  <2>3. memory[ptr] = value
    BY <1>5, LatestIsThere DEF Map!MapPromote, Map!Promotes
  <2> HIDE DEF new
  <2>4. pc' = "idle" /\ drawing' = FALSE /\ ptr' = new /\ memory' = [memory EXCEPT ![new] = value']
        /\ value' \in 0..mapCalls'
    <3>1. CASE UNCHANGED value /\ memory' = [memory EXCEPT ![new] = memory[ptr]]
      BY <1>1, <1>2, <2>1, <2>3, <3>1 DEF Map!Return, MapTypes
    <3>2. CASE value' = mapCalls /\ memory' = [memory EXCEPT ![new] = mapCalls]
      BY <1>1, <1>2, <2>1, <3>2 DEF Map!Return, MapTypes
    <3> QED
      BY <2>1, <3>1, <3>2 DEF Map!Return
  <2>5. value' \in Values
    BY <1>3, <2>4, MapConstants DEF Values
  <2>6. PICK u \in MapStates, t \in MapStates :
          /\ MapSubmitted(mapLists, mapCmd.ops, [cur |-> storage, m |-> [memory EXCEPT ![new] = value']], u)
          /\ MapWhole(e, u, t, seq) /\ t.cur = new /\ t.m[new] = value'
    BY <1>1, <2>2, <2>5, FreshSlice
  <2>7. e.submission >= mapContext.submission
    BY <1>1, <2>2, <2>5, FreshSlice
  <2> HIDE DEF e
  <2>8. /\ ptr' \in Map!Slices /\ pc' \in {"idle", "promote", "wait", "recorded", "busy", "drain"}
        /\ map' \in [type : {"read", "write"}, doNotWait : BOOLEAN] /\ drawing' \in BOOLEAN
        /\ memory' \in [Map!Slices -> Values]
    BY <1>1, <1>2, <2>2, <2>4, <2>5 DEF MapTypes
  <2>9. MapSubmitted(mapLists, mapCmd.ops, [cur |-> storage, m |-> memory'], u)
    BY <2>4, <2>6
  <2>10. /\ MapWhole(mapContext', u, t, seq') /\ mapContext'.submission >= mapContext.submission
         /\ t.cur = ptr' /\ t.m[ptr'] = value'
    BY <1>2, <2>1, <2>4, <2>6, <2>7
  <2> QED
    BY <1>2, <1>3, <2>4, <2>8, <2>9, <2>10, ApplicationStep
<1> QED
  BY <1>4, <1>5

\* Nothing that is pending uses the buffer: whatever the slice gets, the rest goes on as before.
LEMMA UnusedSlice ==
  ASSUME MapTypes, TracksInv, ~Map!InUse("read"), Map!Arrived,
         NEW u \in MapStates, NEW t \in MapStates,
         MapSubmitted(mapLists, mapCmd.ops, MapStart, u), MapWhole(mapContext, u, t, seq),
         NEW content \in Values
  PROVE  \E v, w \in MapStates :
           /\ MapSubmitted(mapLists, mapCmd.ops, [cur |-> storage, m |-> [memory EXCEPT ![ptr] = content]], v)
           /\ MapWhole(mapContext, v, w, seq)
           /\ w.cur = t.cur /\ w.m[ptr] = content
<1>1. mapLists \in Seq(MapCommandLists) /\ mapCmd.ops \in Seq(MapOps) /\ MapStart \in MapStates /\ ptr \in Map!Slices
  BY StartIsState DEF MapTypes, MapCommandLists
<1> DEFINE f == [a \in MapStates |-> [cur |-> a.cur, m |-> [a.m EXCEPT ![ptr] = content]]]
<1>2. f \in [MapStates -> MapStates]
  BY <1>1 DEF MapStates
<1>3. f[MapStart] = [cur |-> storage, m |-> [memory EXCEPT ![ptr] = content]]
  BY <1>1 DEF MapStart
<1>4. \A a \in MapStates : f[a] \in MapStates /\ f[a].cur = a.cur /\ f[a].m[ptr] = content
  BY <1>1, <1>2 DEF MapStates
<1>5. \A x : x[1] \notin {"write", "read"} => MapAllows(MapCommandRel(x), MapStates, f)
  <2> SUFFICES ASSUME NEW x, x[1] \notin {"write", "read"}, NEW a \in MapStates, NEW b \in MapStates,
                      <<a, b>> \in MapCommandRel(x)
               PROVE  <<f[a], f[b]>> \in MapCommandRel(x)
    BY DEF MapAllows
  <2>1. CASE x[1] = "invalidate" /\ b = [cur |-> x[2], m |-> a.m]
    <3>1. f[b] = [cur |-> x[2], m |-> f[a].m]
      BY <2>1
    <3> QED
      BY <1>4, <2>1, <3>1 DEF MapCommandRel
  <2>2. CASE x[1] = "flush" /\ b = a
    BY <1>4, <2>2 DEF MapCommandRel
  <2> QED
    BY <2>1, <2>2 DEF MapCommandRel
<1> HIDE DEF f
<1>6. /\ mapCmd.accesses \subseteq {"read", "write"} /\ "read" \notin mapCmd.accesses /\ "write" \notin mapCmd.accesses
      /\ \A i \in DOMAIN mapLists : "read" \notin mapLists[i].accesses /\ "write" \notin mapLists[i].accesses
  BY AllLists DEF Map!InUse, MapTypes, MapCommandLists
<1>7. /\ \A k \in DOMAIN mapCmd.ops : FALSE
      /\ \A i \in DOMAIN mapLists : \A k \in DOMAIN mapLists[i].ops : FALSE
  <2>1. \A k \in DOMAIN mapCmd.ops : mapCmd.ops[k] \in MapOps
    BY <1>1
  <2>2. \A i \in DOMAIN mapLists : \A k \in DOMAIN mapLists[i].ops : mapLists[i].ops[k] \in MapOps
    <3>1. ASSUME NEW i \in DOMAIN mapLists PROVE mapLists[i].ops \in Seq(MapOps)
      <4>1. mapLists[i] \in MapCommandLists
        BY <1>1
      <4> QED
        BY <4>1 DEF MapCommandLists
    <3> QED
      BY <3>1
  <2>3. \A x \in MapOps : x[1] \in {"read", "write"}
    BY DEF MapOps
  <2> QED
    BY <1>6, <2>1, <2>2, <2>3 DEF TracksInv, MapTracks
<1>8. MapSubmitted(mapLists, mapCmd.ops, f[MapStart], f[u])
  BY <1>1, <1>2, <1>7, MapSubmittedTransport
<1>9. /\ \A k \in DOMAIN mapContext.chunk : MapAllows(MapCommandRel(mapContext.chunk[k]), MapStates, f)
      /\ \A i \in DOMAIN mapContext.stream : \A k \in DOMAIN mapContext.stream[i] :
           MapAllows(MapCommandRel(mapContext.stream[i][k]), MapStates, f)
  BY <1>5, ArrivedIsThrough DEF UsesBuffer
<1>10. MapWhole(mapContext, f[u], f[t], seq)
  BY <1>2, <1>9, MapContextTransport
<1> QED
  BY <1>3, <1>4, <1>8, <1>10

\* A map that returns its slice does so when nothing that is pending is in the way.
LEMMA DirectKeeps ==
  ASSUME MapInv, Map!MapDirect, Map!Arrived, ~Map!InUse(Map!Access),
         UNCHANGED <<mapContext, usage, cached, seq, mapCalls, map, storage, mapCmd, mapLists, mapCompleted>>
  PROVE  MapInv'
<1>1. PICK u \in MapStates, t \in MapStates :
        /\ MapSubmitted(mapLists, mapCmd.ops, MapStart, u) /\ MapWhole(mapContext, u, t, seq)
        /\ t.cur = ptr /\ t.m[ptr] = value
  BY DEF MapInv, Behaves
<1>2. MapTypes /\ TracksInv
  BY DEF MapInv
<1>3. pc' = "idle" /\ drawing' = FALSE /\ ptr' = ptr
  BY DEF Map!MapDirect, Map!Return
<1>4. mapCalls' \in 0..MapCalls /\ mapCalls' >= mapCalls
  BY <1>2, MapConstants DEF MapTypes
<1>5. /\ pc' \in {"idle", "promote", "wait", "recorded", "busy", "drain"}
      /\ map' \in [type : {"read", "write"}, doNotWait : BOOLEAN] /\ drawing' \in BOOLEAN
      /\ ptr' \in Map!Slices
  BY <1>2, <1>3 DEF MapTypes
<1>6. CASE UNCHANGED value /\ memory' = [memory EXCEPT ![ptr] = memory[ptr]]
  <2>1. memory' = memory
    BY <1>2, <1>6 DEF MapTypes
  <2>2. \A a, b : MapWhole(mapContext, a, b, seq) =>
          MapWhole(mapContext', a, b, seq) /\ mapContext'.submission >= mapContext.submission
    BY SubmissionGrows
  <2> QED
    BY <1>3, <1>4, <1>5, <1>6, <2>1, <2>2, ContextStep
<1>7. CASE map.type = "write" /\ value' = mapCalls /\ memory' = [memory EXCEPT ![ptr] = mapCalls]
  <2>1. ~Map!InUse("read")
    BY <1>7 DEF Map!Access
  <2>2. mapCalls \in Values
    BY <1>2 DEF MapTypes, Values
  <2>3. PICK v \in MapStates, w \in MapStates :
          /\ MapSubmitted(mapLists, mapCmd.ops, [cur |-> storage, m |-> [memory EXCEPT ![ptr] = mapCalls]], v)
          /\ MapWhole(mapContext, v, w, seq) /\ w.cur = t.cur /\ w.m[ptr] = mapCalls
    BY <1>1, <1>2, <2>1, <2>2, UnusedSlice
  <2>4. memory' \in [Map!Slices -> Values] /\ value' \in 0..mapCalls'
    BY <1>2, <1>7, <2>2 DEF MapTypes
  <2>5. mapContext'.submission >= mapContext.submission
    BY <1>1, SubmissionGrows
  <2> QED
    BY <1>1, <1>3, <1>4, <1>5, <1>7, <2>3, <2>4, <2>5, ApplicationStep
<1> QED
  BY <1>6, <1>7 DEF Map!MapDirect, Map!Return

LEMMA RecordedKeeps ==
  ASSUME MapInv, Map!MapRecorded
  PROVE  MapInv'
<1>1. MapTypes
  BY DEF MapInv
<1>2. /\ Map!Arrived
      /\ UNCHANGED <<mapContext, usage, cached, seq, mapCalls, map, storage, mapCmd, mapLists, mapCompleted>>
  BY DEF Map!MapRecorded, Map!bufferVars, Map!csVars
<1>3. CASE Map!InUse(Map!Access)
  <2>1. pc' = "busy" /\ UNCHANGED <<memory, ptr, value, drawing>>
    BY <1>3 DEF Map!MapRecorded
  <2>2. mapCalls' \in 0..MapCalls /\ mapCalls' >= mapCalls
    BY <1>1, <1>2, MapConstants DEF MapTypes
  <2>3. /\ pc' \in {"idle", "promote", "wait", "recorded", "busy", "drain"}
        /\ map' \in [type : {"read", "write"}, doNotWait : BOOLEAN] /\ drawing' \in BOOLEAN
    BY <1>1, <1>2, <2>1 DEF MapTypes
  <2>4. \A u, t : MapWhole(mapContext, u, t, seq) =>
          MapWhole(mapContext', u, t, seq) /\ mapContext'.submission >= mapContext.submission
    BY <1>2, SubmissionGrows
  <2> QED
    BY <1>2, <2>1, <2>2, <2>3, <2>4, ContextStep
<1>4. CASE ~Map!InUse(Map!Access)
  <2>1. Map!MapDirect
    BY <1>4 DEF Map!MapRecorded
  <2> QED
    BY <1>2, <1>4, <2>1, DirectKeeps
<1> QED
  BY <1>3, <1>4

LEMMA DrainedKeeps ==
  ASSUME MapInv, Map!MapDrained
  PROVE  MapInv'
<1>1. /\ Map!Arrived /\ ~Map!InUse(Map!Access) /\ Map!MapDirect
      /\ UNCHANGED <<mapContext, usage, cached, seq, mapCalls, map, storage, mapCmd, mapLists, mapCompleted>>
  BY DEF Map!MapDrained, Map!bufferVars, Map!csVars
<1> QED
  BY <1>1, DirectKeeps

-----------------------------------------------------------------------------
(* A step of the CS thread, the device or the queue thread *)

\* They leave alone what the application has.
LEMMA BackgroundStep ==
  ASSUME MapInv, UNCHANGED <<usage, cached, seq, ptr, value, mapCalls, drawing, pc, map>>,
         storage' \in Map!Slices, memory' \in [Map!Slices -> Values],
         mapLists' \in Seq(MapCommandLists), mapCmd' \in MapCommandLists,
         mapContext'.submission = mapContext.submission,
         mapCompleted' \in 0..mapContext.submission,
         \A i \in DOMAIN mapLists' : mapLists'[i].id <= mapContext.submission,
         TracksInv', HoldsInv',
         \A u, t \in MapStates :
           /\ MapSubmitted(mapLists, mapCmd.ops, MapStart, u) /\ MapWhole(mapContext, u, t, seq)
           /\ t.cur = ptr /\ t.m[ptr] = value
           => \E v, w \in MapStates :
                /\ MapSubmitted(mapLists', mapCmd'.ops, [cur |-> storage', m |-> memory'], v)
                /\ MapWhole(mapContext', v, w, seq)
                /\ w.cur = ptr /\ w.m[ptr] = value
  PROVE  MapInv'
<1>1. MapTypes'
  BY DEF MapInv, MapTypes
<1>2. PICK v \in MapStates, w \in MapStates :
        /\ MapSubmitted(mapLists', mapCmd'.ops, [cur |-> storage', m |-> memory'], v)
        /\ MapWhole(mapContext', v, w, seq)
        /\ w.cur = ptr /\ w.m[ptr] = value
  BY DEF MapInv, Behaves
<1>3. Behaves'
  BY <1>2, BehavesNext
<1> QED
  BY <1>1, <1>3 DEF MapInv

\* What the next command is.
LEMMA NextForm ==
  ASSUME MapInv, NEW name, Map!NextIs(name)
  PROVE  /\ Map!NextCommand(mapContext) \in MapCommands(mapContext.submission)
         /\ Map!NextCommand(mapContext)[1] = name
         /\ Map!DropCommand(mapContext).submission = mapContext.submission
         /\ \A u, t \in MapStates : MapWhole(mapContext, u, t, seq) =>
              \E v \in MapStates :
                <<u, v>> \in MapCommandRel(Map!NextCommand(mapContext)) /\ MapWhole(Map!DropCommand(mapContext), v, t, seq)
<1>1. PICK u \in MapStates, t \in MapStates : MapWhole(mapContext, u, t, seq)
  BY DEF MapInv, Behaves
<1>2. Map!HasCommand(mapContext) /\ Map!NextCommand(mapContext)[1] = name
  BY DEF Map!NextIs
<1> QED
  BY <1>1, <1>2, MapDropTakes

\* The CS thread records a copy: the first step of the context becomes the last of the list.
LEMMA CsCopyKeeps ==
  ASSUME MapInv, NEW access \in {"write", "read"}, Map!CsCopy(access)
  PROVE  MapInv'
<1> DEFINE x == Map!NextCommand(mapContext)
           op == <<access, storage, x[2]>>
<1>1. MapTypes /\ TracksInv /\ HoldsInv
  BY DEF MapInv
<1>2. /\ x \in MapCommands(mapContext.submission) /\ x[1] = access
      /\ Map!DropCommand(mapContext).submission = mapContext.submission
      /\ \A u, t \in MapStates : MapWhole(mapContext, u, t, seq) =>
              \E v \in MapStates : <<u, v>> \in MapCommandRel(x) /\ MapWhole(Map!DropCommand(mapContext), v, t, seq)
  BY NextForm DEF Map!CsCopy
<1>3. /\ mapCmd' = [mapCmd EXCEPT !.ops = Append(@, op), !.accesses = @ \union {access}]
      /\ mapContext' = Map!DropCommand(mapContext)
      /\ UNCHANGED <<usage, cached, seq, ptr, value, mapCalls, drawing, pc, map, storage, mapLists, memory,
                     mapCompleted>>
  BY DEF Map!CsCopy, Map!bufferVars, Map!appVars, Map!callVars
<1>4. op \in MapOps
  <2>1. x[2] \in Values
    BY <1>2 DEF MapCommands
  <2> QED
    BY <1>1, <2>1 DEF MapOps, MapTypes
<1> HIDE DEF x, op
<1>5. mapCmd.ops \in Seq(MapOps) /\ mapCmd.accesses \subseteq {"read", "write"} /\ mapCmd \in MapCommandLists
  BY <1>1 DEF MapTypes, MapCommandLists
<1>6. /\ mapCmd' \in MapCommandLists /\ mapCmd'.ops = Append(mapCmd.ops, op)
      /\ mapCmd'.accesses = mapCmd.accesses \union {access} /\ mapCmd'.slices = mapCmd.slices
  <2>1. Append(mapCmd.ops, op) \in Seq(MapOps)
    BY <1>4, <1>5
  <2>2. mapCmd' = [ops |-> Append(mapCmd.ops, op), accesses |-> mapCmd.accesses \union {access},
                   slices |-> mapCmd.slices, id |-> mapCmd.id]
    BY <1>3, <1>5 DEF MapCommandLists
  <2> QED
    BY <1>5, <2>1, <2>2 DEF MapCommandLists
<1>7. \A k \in DOMAIN mapCmd'.ops :
        \/ k \in DOMAIN mapCmd.ops /\ mapCmd'.ops[k] = mapCmd.ops[k]
        \/ mapCmd'.ops[k] = op
  BY <1>4, <1>5, <1>6, AppendProperties
<1>8. op[1] = access /\ op[2] = storage
  BY DEF op
<1>9. TracksInv'
  BY <1>1, <1>3, <1>6, <1>7, <1>8 DEF TracksInv, MapTracks
<1>10. HoldsInv'
  BY <1>1, <1>3, <1>6, <1>7, <1>8 DEF HoldsInv
<1>11. ASSUME NEW u \in MapStates, NEW t \in MapStates,
              MapSubmitted(mapLists, mapCmd.ops, MapStart, u), MapWhole(mapContext, u, t, seq)
       PROVE  \E v \in MapStates :
                /\ MapSubmitted(mapLists', mapCmd'.ops, [cur |-> storage', m |-> memory'], v)
                /\ MapWhole(mapContext', v, t, seq)
  <2>1. PICK v \in MapStates : <<u, v>> \in MapCommandRel(x) /\ MapWhole(mapContext', v, t, seq)
    BY <1>2, <1>3, <1>11
  <2>2. u.cur = storage
    BY <1>1, <1>11, DeviceKeepsStorage
  <2>3. <<u, v>> \in MapOpRel(op)
    BY <1>2, <2>1, <2>2 DEF MapCommandRel, MapOpRel, op
  <2>4. MapSubmitted(mapLists, Append(mapCmd.ops, op), MapStart, v)
    BY <1>4, <1>5, <1>11, <2>3, MapRecordAdds
  <2> QED
    BY <1>3, <1>6, <2>1, <2>4 DEF MapStart
<1>12. /\ storage' \in Map!Slices /\ memory' \in [Map!Slices -> Values] /\ mapLists' \in Seq(MapCommandLists)
       /\ mapContext'.submission = mapContext.submission /\ mapCompleted' \in 0..mapContext.submission
       /\ \A i \in DOMAIN mapLists' : mapLists'[i].id <= mapContext.submission
  BY <1>1, <1>2, <1>3 DEF MapTypes
<1> QED
  BY <1>3, <1>6, <1>9, <1>10, <1>11, <1>12, BackgroundStep

\* The CS thread gets a slice; the operations before it do not look at which one it has.
LEMMA CsInvalidateKeeps ==
  ASSUME MapInv, Map!CsInvalidate
  PROVE  MapInv'
<1> DEFINE x == Map!NextCommand(mapContext)
<1>1. MapTypes /\ TracksInv /\ HoldsInv
  BY DEF MapInv
<1>2. /\ x \in MapCommands(mapContext.submission) /\ x[1] = "invalidate"
      /\ Map!DropCommand(mapContext).submission = mapContext.submission
      /\ \A u, t \in MapStates : MapWhole(mapContext, u, t, seq) =>
              \E v \in MapStates : <<u, v>> \in MapCommandRel(x) /\ MapWhole(Map!DropCommand(mapContext), v, t, seq)
  BY NextForm DEF Map!CsInvalidate
<1>3. /\ storage' = x[2] /\ mapCmd' = [mapCmd EXCEPT !.slices = @ \union {storage}]
      /\ mapContext' = Map!DropCommand(mapContext)
      /\ UNCHANGED <<usage, cached, seq, ptr, value, mapCalls, drawing, pc, map, mapLists, memory, mapCompleted>>
  BY DEF Map!CsInvalidate, Map!bufferVars, Map!appVars, Map!callVars
<1>4. x[2] \in Map!Slices
  BY <1>2 DEF MapCommands
<1> HIDE DEF x
<1>5. mapCmd.ops \in Seq(MapOps) /\ mapCmd \in MapCommandLists /\ storage \in Map!Slices
  BY <1>1 DEF MapTypes, MapCommandLists
<1>6. /\ mapCmd' \in MapCommandLists /\ mapCmd'.ops = mapCmd.ops
      /\ mapCmd'.accesses = mapCmd.accesses /\ mapCmd'.slices = mapCmd.slices \union {storage}
  BY <1>3, <1>5 DEF MapCommandLists
<1>7. TracksInv'
  BY <1>1, <1>3, <1>6 DEF TracksInv, MapTracks
<1>8. HoldsInv'
  BY <1>1, <1>3, <1>6 DEF HoldsInv
<1>9. ASSUME NEW u \in MapStates, NEW t \in MapStates,
             MapSubmitted(mapLists, mapCmd.ops, MapStart, u), MapWhole(mapContext, u, t, seq)
      PROVE  \E v \in MapStates :
               /\ MapSubmitted(mapLists', mapCmd'.ops, [cur |-> storage', m |-> memory'], v)
               /\ MapWhole(mapContext', v, t, seq)
  <2>1. PICK v \in MapStates : <<u, v>> \in MapCommandRel(x) /\ MapWhole(mapContext', v, t, seq)
    BY <1>2, <1>3, <1>9
  <2>2. v = [cur |-> storage', m |-> u.m]
    BY <1>2, <1>3, <2>1 DEF MapCommandRel
  <2> DEFINE f == [a \in MapStates |-> [cur |-> storage', m |-> a.m]]
  <2>3. f \in [MapStates -> MapStates]
    BY <1>3, <1>4 DEF MapStates
  <2>4. \A y : MapAllows(MapOpRel(y), MapStates, f)
    BY <2>3 DEF MapAllows, MapOpRel
  <2>5. mapLists \in Seq(MapCommandLists) /\ MapStart \in MapStates
    BY <1>1, StartIsState DEF MapTypes
  <2>6. f[MapStart] = [cur |-> storage', m |-> memory'] /\ f[u] = v
    BY <1>3, <2>2, <2>5 DEF MapStart
  <2> HIDE DEF f
  <2>7. MapSubmitted(mapLists, mapCmd.ops, f[MapStart], f[u])
    BY <1>5, <1>9, <2>3, <2>4, <2>5, MapSubmittedTransport
  <2> QED
    BY <1>3, <1>6, <2>1, <2>6, <2>7
<1>10. /\ storage' \in Map!Slices /\ memory' \in [Map!Slices -> Values] /\ mapLists' \in Seq(MapCommandLists)
       /\ mapContext'.submission = mapContext.submission /\ mapCompleted' \in 0..mapContext.submission
       /\ \A i \in DOMAIN mapLists' : mapLists'[i].id <= mapContext.submission
  BY <1>1, <1>2, <1>3, <1>4 DEF MapTypes
<1> QED
  BY <1>3, <1>6, <1>7, <1>8, <1>9, <1>10, BackgroundStep

\* The CS thread ends the list.
LEMMA MapCsFlushKeeps ==
  ASSUME MapInv, Map!CsFlush
  PROVE  MapInv'
<1> DEFINE x == Map!NextCommand(mapContext)
           l == [mapCmd EXCEPT !.id = x[2]]
<1>1. MapTypes /\ TracksInv /\ HoldsInv
  BY DEF MapInv
<1>2. /\ x \in MapCommands(mapContext.submission) /\ x[1] = "flush"
      /\ Map!DropCommand(mapContext).submission = mapContext.submission
      /\ \A u, t \in MapStates : MapWhole(mapContext, u, t, seq) =>
              \E v \in MapStates : <<u, v>> \in MapCommandRel(x) /\ MapWhole(Map!DropCommand(mapContext), v, t, seq)
  BY NextForm DEF Map!CsFlush
<1>3. /\ mapLists' = Append(mapLists, l) /\ mapCmd' = Map!EmptyList
      /\ mapContext' = Map!DropCommand(mapContext)
      /\ UNCHANGED <<usage, cached, seq, ptr, value, mapCalls, drawing, pc, map, storage, memory, mapCompleted>>
  BY DEF Map!CsFlush, Map!bufferVars, Map!appVars, Map!callVars
<1>4. x[2] \in 0..mapContext.submission
  BY <1>2 DEF MapCommands
<1> HIDE DEF x
<1>5. mapCmd \in MapCommandLists /\ mapLists \in Seq(MapCommandLists)
  BY <1>1 DEF MapTypes
<1>6. l \in MapCommandLists /\ l.ops = mapCmd.ops /\ l.accesses = mapCmd.accesses /\ l.slices = mapCmd.slices /\ l.id = x[2]
  <2>1. x[2] \in Nat
    BY <1>4
  <2> QED
    BY <1>5, <2>1 DEF MapCommandLists
<1> HIDE DEF l
<1>7. /\ mapLists' \in Seq(MapCommandLists) /\ Len(mapLists') = Len(mapLists) + 1 /\ Len(mapLists) \in Nat
      /\ DOMAIN mapLists' = 1..(Len(mapLists) + 1) /\ DOMAIN mapLists = 1..Len(mapLists)
      /\ mapLists'[Len(mapLists) + 1] = l /\ \A i \in DOMAIN mapLists : mapLists'[i] = mapLists[i]
  BY <1>3, <1>5, <1>6, AppendProperties
<1>8. \A i \in DOMAIN mapLists' : i \in DOMAIN mapLists \/ i = Len(mapLists) + 1
  BY <1>7
<1>9. TracksInv'
  BY <1>1, <1>3, <1>6, <1>7, <1>8, EmptyListType DEF TracksInv, MapTracks
<1>10. HoldsInv'
  <2> SUFFICES ASSUME NEW i \in DOMAIN mapLists', NEW k \in DOMAIN mapLists'[i].ops
               PROVE  \/ mapLists'[i].ops[k][2] = storage
                      \/ \E j \in i..Len(mapLists') : mapLists'[i].ops[k][2] \in mapLists'[j].slices
    BY <1>3, EmptyListType DEF HoldsInv
  <2> DEFINE s == mapLists'[i].ops[k][2]
  <2>0. Len(mapLists) + 1 \in i..Len(mapLists') /\ mapLists'[Len(mapLists) + 1].slices = mapCmd.slices
    BY <1>6, <1>7
  <2>1. CASE i = Len(mapLists) + 1
    <3>1. s = storage \/ s \in mapCmd.slices
      BY <1>1, <1>6, <1>7, <2>1 DEF HoldsInv
    <3> QED
      BY <2>0, <3>1
  <2>2. CASE i \in DOMAIN mapLists
    <3>1. s = storage \/ s \in mapCmd.slices \/ \E j \in i..Len(mapLists) : s \in mapLists[j].slices
      BY <1>1, <1>7, <2>2 DEF HoldsInv
    <3>2. \A j \in i..Len(mapLists) : j \in i..Len(mapLists') /\ mapLists'[j].slices = mapLists[j].slices
      BY <1>7, <2>2
    <3> QED
      BY <2>0, <3>1, <3>2
  <2> QED
    BY <1>8, <2>1, <2>2
<1>11. ASSUME NEW u \in MapStates, NEW t \in MapStates,
              MapSubmitted(mapLists, mapCmd.ops, MapStart, u), MapWhole(mapContext, u, t, seq)
       PROVE  /\ MapSubmitted(mapLists', mapCmd'.ops, [cur |-> storage', m |-> memory'], u)
              /\ MapWhole(mapContext', u, t, seq)
  <2>1. PICK v \in MapStates : <<u, v>> \in MapCommandRel(x) /\ MapWhole(mapContext', v, t, seq)
    BY <1>2, <1>3, <1>11
  <2>2. v = u
    BY <1>2, <2>1 DEF MapCommandRel
  <2>3. MapSubmitted(mapLists, l.ops, MapStart, u)
    BY <1>6, <1>11
  <2>4. MapSubmitted(Append(mapLists, l), <<>>, MapStart, u)
    BY <1>5, <1>6, <2>3, MapSubmitKeeps
  <2> QED
    BY <1>3, <2>1, <2>2, <2>4, EmptyListType DEF MapStart
<1>12. \A i \in DOMAIN mapLists' : mapLists'[i].id <= mapContext.submission
  BY <1>1, <1>4, <1>6, <1>7, <1>8 DEF MapTypes
<1>13. /\ storage' \in Map!Slices /\ memory' \in [Map!Slices -> Values] /\ mapCmd' \in MapCommandLists
       /\ mapContext'.submission = mapContext.submission /\ mapCompleted' \in 0..mapContext.submission
  BY <1>1, <1>2, <1>3, EmptyListType DEF MapTypes
<1> QED
  BY <1>3, <1>7, <1>9, <1>10, <1>11, <1>12, <1>13, BackgroundStep

\* The device takes the first step.
LEMMA MapExecuteKeeps ==
  ASSUME MapInv, Map!Execute
  PROVE  MapInv'
<1>1. MapTypes /\ TracksInv /\ HoldsInv
  BY DEF MapInv
<1>2. PICK i \in DOMAIN mapLists :
        /\ Map!IsNext(i)
        /\ memory' = IF Head(mapLists[i].ops)[1] = "write"
                       THEN [memory EXCEPT ![Head(mapLists[i].ops)[2]] = Head(mapLists[i].ops)[3]] ELSE memory
        /\ mapLists' = [mapLists EXCEPT ![i].ops = Tail(@)]
        /\ UNCHANGED <<mapContext, usage, cached, seq, ptr, value, mapCalls, drawing, pc, map, storage, mapCmd,
                       mapCompleted>>
  BY DEF Map!Execute, Map!bufferVars, Map!appVars, Map!callVars, Map!csVars
<1> DEFINE x == mapLists[i].ops
           op == Head(x)
<1>3. mapLists \in Seq(MapCommandLists) /\ DOMAIN mapLists = 1..Len(mapLists) /\ Len(mapLists) \in Nat
  BY <1>1 DEF MapTypes
<1>4. mapLists[i] \in MapCommandLists /\ x \in Seq(MapOps) /\ x # <<>> /\ \A j \in 1..(i - 1) : mapLists[j].ops = <<>>
  <2>1. mapLists[i] \in MapCommandLists
    BY <1>3
  <2> QED
    BY <1>2, <2>1 DEF MapCommandLists, Map!IsNext
<1>5. /\ op \in MapOps /\ Tail(x) \in Seq(MapOps)
      /\ \A k \in DOMAIN Tail(x) : k + 1 \in DOMAIN x /\ Tail(x)[k] = x[k + 1]
  <2> HIDE DEF x
  <2> QED
    BY <1>4
<1> DEFINE l == [mapLists[i] EXCEPT !.ops = Tail(@)]
<1>6. /\ l \in MapCommandLists /\ l.ops = Tail(x) /\ l.slices = mapLists[i].slices
      /\ l.accesses = mapLists[i].accesses /\ l.id = mapLists[i].id
  BY <1>4, <1>5 DEF MapCommandLists
<1>7. mapLists' = [mapLists EXCEPT ![i] = l]
  BY <1>2
<1> HIDE DEF l
<1>8. /\ mapLists' \in Seq(MapCommandLists) /\ Len(mapLists') = Len(mapLists) /\ DOMAIN mapLists' = DOMAIN mapLists
      /\ mapLists'[i] = l /\ \A j \in DOMAIN mapLists : j # i => mapLists'[j] = mapLists[j]
  BY <1>3, <1>6, <1>7, ExceptSeq
<1>9. \A j \in DOMAIN mapLists' : /\ mapLists'[j].slices = mapLists[j].slices
                                  /\ mapLists'[j].accesses = mapLists[j].accesses
                                  /\ mapLists'[j].id = mapLists[j].id
  BY <1>6, <1>8
\* What is left in a list was in it.
<1>10. ASSUME NEW j \in DOMAIN mapLists', NEW k \in DOMAIN mapLists'[j].ops
       PROVE  \E n \in DOMAIN mapLists[j].ops : mapLists'[j].ops[k] = mapLists[j].ops[n]
  <2>1. CASE j = i
    <3>1. mapLists'[j].ops = Tail(x)
      BY <1>6, <1>8, <2>1
    <3>2. k + 1 \in DOMAIN x /\ Tail(x)[k] = x[k + 1]
      BY <1>5, <3>1
    <3> QED
      BY <2>1, <3>1, <3>2
  <2>2. CASE j # i
    BY <1>8, <2>2
  <2> QED
    BY <2>1, <2>2
<1>11. TracksInv'
  <2>1. MapTracks(mapCmd)'
    BY <1>1, <1>2 DEF TracksInv, MapTracks
  <2>2. ASSUME NEW j \in DOMAIN mapLists', NEW k \in DOMAIN mapLists'[j].ops
        PROVE  mapLists'[j].ops[k][1] \in mapLists'[j].accesses
    <3>1. PICK n \in DOMAIN mapLists[j].ops : mapLists'[j].ops[k] = mapLists[j].ops[n]
      BY <1>10
    <3> QED
      BY <1>1, <1>8, <1>9, <3>1 DEF TracksInv, MapTracks
  <2> QED
    BY <2>1, <2>2 DEF TracksInv, MapTracks
<1>12. HoldsInv'
  <2> SUFFICES ASSUME NEW j \in DOMAIN mapLists', NEW k \in DOMAIN mapLists'[j].ops
               PROVE  \/ mapLists'[j].ops[k][2] = storage \/ mapLists'[j].ops[k][2] \in mapCmd.slices
                      \/ \E n \in j..Len(mapLists') : mapLists'[j].ops[k][2] \in mapLists'[n].slices
    BY <1>1, <1>2 DEF HoldsInv
  <2>1. PICK n \in DOMAIN mapLists[j].ops : mapLists'[j].ops[k] = mapLists[j].ops[n]
    BY <1>10
  <2> DEFINE s == mapLists'[j].ops[k][2]
  <2>2. s = storage \/ s \in mapCmd.slices \/ \E m \in j..Len(mapLists) : s \in mapLists[m].slices
    BY <1>1, <1>8, <2>1 DEF HoldsInv
  <2>3. \A m \in j..Len(mapLists) : m \in j..Len(mapLists') /\ mapLists'[m].slices = mapLists[m].slices
    BY <1>3, <1>8, <1>9
  <2> QED
    BY <2>2, <2>3
<1> HIDE DEF x, op
<1>13. ASSUME NEW u \in MapStates, NEW t \in MapStates,
              MapSubmitted(mapLists, mapCmd.ops, MapStart, u), MapWhole(mapContext, u, t, seq)
       PROVE  /\ MapSubmitted(mapLists', mapCmd'.ops, [cur |-> storage', m |-> memory'], u)
              /\ MapWhole(mapContext', u, t, seq)
  <2>1. PICK b \in MapStates : /\ <<MapStart, b>> \in MapOpRel(Head(mapLists[i].ops))
                            /\ MapSubmitted([mapLists EXCEPT ![i].ops = Tail(@)], mapCmd.ops, b, u)
    BY <1>3, <1>4, <1>13, MapExecuteTakes DEF x
  <2>2. b = [cur |-> storage, m |-> memory']
    <3>1. CASE Head(mapLists[i].ops)[1] = "write"
      BY <1>2, <2>1, <3>1 DEF MapOpRel, MapStart
    <3>2. CASE Head(mapLists[i].ops)[1] # "write"
      BY <1>2, <2>1, <3>2 DEF MapOpRel, MapStart
    <3> QED
      BY <3>1, <3>2
  <2> QED
    BY <1>2, <1>13, <2>1, <2>2
<1>14. memory' \in [Map!Slices -> Values]
  <2>1. memory \in [Map!Slices -> Values] /\ op[2] \in Map!Slices /\ op[3] \in Values
    BY <1>1, <1>5 DEF MapTypes, MapOps
  <2>2. memory' = IF op[1] = "write" THEN [memory EXCEPT ![op[2]] = op[3]] ELSE memory
    BY <1>2 DEF op, x
  <2> QED
    BY <2>1, <2>2
<1>15. \A j \in DOMAIN mapLists' : mapLists'[j].id <= mapContext.submission
  BY <1>1, <1>8, <1>9 DEF MapTypes
<1>16. /\ storage' \in Map!Slices /\ mapCmd' \in MapCommandLists
       /\ mapContext'.submission = mapContext.submission /\ mapCompleted' \in 0..mapContext.submission
  BY <1>1, <1>2 DEF MapTypes
<1> QED
  BY <1>2, <1>8, <1>11, <1>12, <1>13, <1>14, <1>15, <1>16, BackgroundStep

\* The queue thread releases a list without steps.
LEMMA ReleaseStepKeeps ==
  ASSUME MapInv, Map!Release
  PROVE  MapInv'
<1>1. MapTypes /\ TracksInv /\ HoldsInv
  BY DEF MapInv
<1>2. /\ mapLists # <<>> /\ Head(mapLists).ops = <<>>
      /\ mapCompleted' = Head(mapLists).id /\ mapLists' = Tail(mapLists)
      /\ UNCHANGED <<mapContext, usage, cached, seq, ptr, value, mapCalls, drawing, pc, map, storage, mapCmd, memory>>
  BY DEF Map!Release, Map!bufferVars, Map!appVars, Map!callVars, Map!csVars
<1>3. mapLists \in Seq(MapCommandLists)
  BY <1>1 DEF MapTypes
<1>4. /\ DOMAIN mapLists = 1..Len(mapLists) /\ Len(mapLists) \in Nat \ {0} /\ 1 \in DOMAIN mapLists
      /\ Head(mapLists) = mapLists[1] /\ mapLists[1] \in MapCommandLists
      /\ mapLists' \in Seq(MapCommandLists) /\ Len(mapLists') = Len(mapLists) - 1
      /\ DOMAIN mapLists' = 1..(Len(mapLists) - 1)
      /\ \A i \in 1..(Len(mapLists) - 1) : mapLists'[i] = mapLists[i + 1]
  BY <1>2, <1>3
<1>5. \A i \in DOMAIN mapLists' : i + 1 \in DOMAIN mapLists /\ mapLists'[i] = mapLists[i + 1]
  BY <1>4
<1>6. TracksInv'
  BY <1>1, <1>2, <1>5 DEF TracksInv, MapTracks
<1>7. HoldsInv'
  <2> SUFFICES ASSUME NEW i \in DOMAIN mapLists', NEW k \in DOMAIN mapLists'[i].ops
               PROVE  \/ mapLists'[i].ops[k][2] = storage \/ mapLists'[i].ops[k][2] \in mapCmd.slices
                      \/ \E j \in i..Len(mapLists') : mapLists'[i].ops[k][2] \in mapLists'[j].slices
    BY <1>1, <1>2 DEF HoldsInv
  <2> DEFINE s == mapLists'[i].ops[k][2]
  <2>1. i + 1 \in DOMAIN mapLists /\ mapLists'[i] = mapLists[i + 1]
    BY <1>5
  <2>2. s = storage \/ s \in mapCmd.slices \/ \E j \in (i + 1)..Len(mapLists) : s \in mapLists[j].slices
    BY <1>1, <2>1 DEF HoldsInv
  <2>3. ASSUME NEW j \in (i + 1)..Len(mapLists)
        PROVE  j - 1 \in i..Len(mapLists') /\ mapLists'[j - 1] = mapLists[j]
    <3>1. i \in 1..(Len(mapLists) - 1) /\ j \in Int
      BY <1>4
    <3>2. j - 1 \in 1..(Len(mapLists) - 1) /\ (j - 1) + 1 = j /\ j - 1 \in i..Len(mapLists')
      BY <1>4, <3>1
    <3> QED
      BY <1>4, <3>2
  <2> QED
    BY <2>2, <2>3
<1>8. ASSUME NEW u \in MapStates, NEW t \in MapStates,
             MapSubmitted(mapLists, mapCmd.ops, MapStart, u), MapWhole(mapContext, u, t, seq)
      PROVE  /\ MapSubmitted(mapLists', mapCmd'.ops, [cur |-> storage', m |-> memory'], u)
             /\ MapWhole(mapContext', u, t, seq)
  <2>1. MapSubmitted(Tail(mapLists), mapCmd.ops, MapStart, u)
    BY <1>2, <1>3, <1>8, MapReleaseKeeps
  <2> QED
    BY <1>2, <1>8, <2>1 DEF MapStart
<1>9. mapCompleted' \in 0..mapContext.submission
  <2>1. mapLists[1].id \in Nat /\ mapLists[1].id <= mapContext.submission
    BY <1>1, <1>4 DEF MapTypes, MapCommandLists
  <2>2. mapContext.submission \in Nat
    BY DEF MapInv, Behaves, MapWhole, MapRecorded, MapShape
  <2> QED
    BY <1>2, <1>4, <2>1, <2>2
<1>10. \A i \in DOMAIN mapLists' : mapLists'[i].id <= mapContext.submission
  BY <1>1, <1>5 DEF MapTypes
<1>11. /\ storage' \in Map!Slices /\ mapCmd' \in MapCommandLists /\ memory' \in [Map!Slices -> Values]
       /\ mapContext'.submission = mapContext.submission
  BY <1>1, <1>2 DEF MapTypes
<1> QED
  BY <1>2, <1>4, <1>6, <1>7, <1>8, <1>9, <1>10, <1>11, BackgroundStep

-----------------------------------------------------------------------------
(* The theorem *)

\* Every step keeps the invariant,
LEMMA MapStepKeeps == MapInv /\ Map!Next => MapInv'
<1> SUFFICES ASSUME MapInv, Map!Next PROVE MapInv'
  OBVIOUS
<1>1. CASE Map!CopyTo \/ Map!CopyFrom \/ Map!Flush \/ Map!MapDiscard
  BY <1>1, CopyToKeeps, CopyFromKeeps, MapFlushKeeps, DiscardKeeps
<1>2. ASSUME NEW type \in {"read", "write"}, NEW doNotWait \in BOOLEAN, Map!MapStart(type, doNotWait)
      PROVE  MapInv'
  BY <1>2, StartKeeps
<1>3. CASE Map!MapStep
  BY <1>3, PromoteKeeps, WaitKeeps, RecordedKeeps, BusyKeeps, DrainedKeeps DEF Map!MapStep
<1>4. CASE Map!Background
  BY <1>4, CsCopyKeeps, CsInvalidateKeeps, MapCsFlushKeeps, MapExecuteKeeps, ReleaseStepKeeps
     DEF Map!Background, Map!CsStep
<1> QED
  BY <1>1, <1>2, <1>3, <1>4 DEF Map!Next

\* which therefore always holds.
LEMMA MapInvHolds == ReadbackSpec => []MapInv
<1>1. ReadbackInit => MapInv
  BY InitInv DEF ReadbackInit
<1>2. MapInv /\ [ReadbackNext]_readbackVars => MapInv'
  <2> SUFFICES ASSUME MapInv, [ReadbackNext]_readbackVars PROVE MapInv'
    OBVIOUS
  <2>1. CASE Map!Next
    BY <2>1, MapStepKeeps
  <2>2. CASE UNCHANGED mapVars
    BY <2>2 DEF mapVars, MapInv, MapTypes, TracksInv, MapTracks, HoldsInv, Behaves, MapStart, MapWhole, MapRecorded
  <2> QED
    BY <2>1, <2>2 DEF ReadbackNext, QueriesRun, UsesCounters, UsesTimers, MapRuns, readbackVars
<1> QED
  BY <1>1, <1>2, PTL DEF ReadbackSpec

\* A copy reads what the application had written before it, a map for reading returns
\* what was written last, and no slice that somebody works on is given to somebody else,
\* in whichever order the threads and the device get to their work.
THEOREM MappedMemoryCorrect == ReadbackSpec => []SequentialMemory
BY MapInvHolds, InvSequential, PTL

-----------------------------------------------------------------------------
(* The queries *)

\* The steps of MCReadback are steps of the queries, or leave them alone.
LEMMA QueriesRunAlone == ReadbackSpec => Spec
<1>1. ReadbackInit => Init
  BY DEF ReadbackInit
<1>2. [ReadbackNext]_readbackVars => [Next]_vars
  BY DEF ReadbackNext, QueriesRun, MapRuns, readbackVars, queryVars
<1> QED
  BY <1>1, <1>2, PTL DEF ReadbackSpec, Spec

\* What GpuQueryProofs shows of the queries holds beside the buffer.
LEMMA ReadbackQueryInv == ReadbackSpec => []QueryInv
<1>1. QueryAssumption
  BY ReadbackAssumption
<1> QED
  BY <1>1, QueriesRunAlone, QueryInvHolds, PTL

-----------------------------------------------------------------------------
(* Types *)

\* The members of the buffer.
LEMMA BufferTypes ==
  ASSUME MapInv
  PROVE  Map!TypeOK
<1>1. MapTypes /\ mapContext.submission \in Nat /\ seq \in 0..Map!CurrentSequence(mapContext)
  BY DEF MapInv, Behaves, MapWhole, MapRecorded, MapShape
<1>2. ASSUME NEW l \in Map!Range(Append(mapLists, mapCmd)) PROVE l.accesses \subseteq {"read", "write"}
  <2>1. l = mapCmd \/ \E i \in DOMAIN mapLists : l = mapLists[i]
    BY <1>1, <1>2, AllLists
  <2>2. l \in MapCommandLists
    BY <1>1, <2>1 DEF MapTypes
  <2> QED
    BY <2>2 DEF MapCommandLists
<1> QED
  BY <1>1, <1>2 DEF MapTypes, Values, Map!TypeOK

\* Queries and buffers keep the values that they can have; in particular, the device's
\* clock never passes the draws of the application, the open Vulkan query is the one of
\* the active queries, and the fence never passes what was submitted.
THEOREM ReadbackTypes == ReadbackSpec => []ReadbackTypeOK
<1>1. MapInv /\ QueryInv => ReadbackTypeOK
  BY ReadbackAssumption, BufferTypes, QueryTypeOK DEF ReadbackTypeOK
<1> QED
  BY <1>1, MapInvHolds, ReadbackQueryInv, PTL
=============================================================================
