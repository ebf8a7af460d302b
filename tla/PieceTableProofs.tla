--------------------------- MODULE PieceTableProofs ---------------------------
(***************************************************************************)
(* Machine-checked proofs about PieceTable, for a file of any length and   *)
(* inserts of any length: the struct keeps its documented invariants, its  *)
(* queries answer for the document the pieces describe, and it implements  *)
(* the sequence of cells, in which no cell is ever in two places.          *)
(***************************************************************************)
EXTENDS PieceTable, FiniteSetTheorems, SequenceTheorems, TLAPS

\* The facts about the natural numbers and about recursion that are stated
\* in DocumentProofs, and that need nothing of its constants.
Order == INSTANCE DocumentProofs WITH Radix <- 1, None <- -1

\* A function can be defined by recursion up to n ...
LEMMA Recursion ==
    ASSUME NEW X, NEW base \in X, NEW n \in Nat, NEW step \in [1..n -> [X -> X]]
    PROVE  \E f \in [0..n -> X] : Order!Repeats(f, n, base, step)
BY Order!Recursion

\* ... and what holds up to a number and goes on to the next holds up to n.
LEMMA UpTo ==
    ASSUME NEW n \in Nat, NEW T, 0 \in T, \A i \in 1..n : i - 1 \in T => i \in T
    PROVE  \A i \in 0..n : i \in T
BY Order!UpTo

Ids == [source : Sources, off : Nat]
Pieces == [source : Sources, start : Nat, len : Nat]

(***************************************************************************)
(* Sequences                                                               *)
(***************************************************************************)

\* Sequences with the same elements are the same.
LEMMA SameSequence ==
    ASSUME NEW S, NEW s \in Seq(S), NEW t \in Seq(S), Len(s) = Len(t),
           \A i \in 1..Len(s) : s[i] = t[i]
    PROVE  s = t
  OBVIOUS

\* What two sequences side by side hold.
LEMMA SideBySide ==
    ASSUME NEW S, NEW s \in Seq(S), NEW t \in Seq(S)
    PROVE  /\ s \o t \in Seq(S) /\ Len(s \o t) = Len(s) + Len(t)
           /\ \A i \in 1..Len(s) : (s \o t)[i] = s[i]
           /\ \A i \in 1..Len(t) : (s \o t)[Len(s) + i] = t[i]
  OBVIOUS

\* The same, with their lengths.
LEMMA SideByLength ==
    ASSUME NEW S, NEW s \in Seq(S), NEW t \in Seq(S)
    PROVE  \A a, b : Len(s) = a /\ Len(t) = b =>
              /\ s \o t \in Seq(S) /\ Len(s \o t) = a + b
              /\ \A i \in 1..a : (s \o t)[i] = s[i]
              /\ \A i \in 1..b : (s \o t)[a + i] = t[i]
<1>1. /\ s \o t \in Seq(S) /\ Len(s \o t) = Len(s) + Len(t)
      /\ \A i \in 1..Len(s) : (s \o t)[i] = s[i]
      /\ \A i \in 1..Len(t) : (s \o t)[Len(s) + i] = t[i]
  BY SideBySide
<1> QED BY <1>1, Zenon

\* The position of an element in two sequences side by side.
LEMMA SideAt ==
    ASSUME NEW S, NEW s \in Seq(S), NEW t \in Seq(S), NEW i \in 1..(Len(s) + Len(t))
    PROVE  (s \o t)[i] = IF i <= Len(s) THEN s[i] ELSE t[i - Len(s)]
  OBVIOUS

\* A part of a sequence.
LEMMA PartOf ==
    ASSUME NEW S, NEW s \in Seq(S), NEW a \in Nat, NEW b \in Nat, b <= Len(s), a <= b
    PROVE  /\ SubSeq(s, a + 1, b) \in Seq(S) /\ Len(SubSeq(s, a + 1, b)) = b - a
           /\ \A i \in 1..(b - a) : SubSeq(s, a + 1, b)[i] = s[a + i]
  OBVIOUS

\* Two parts that meet are one.
LEMMA PartsMeet ==
    ASSUME NEW S, NEW s \in Seq(S), NEW a \in Nat, NEW b \in Nat, NEW c \in Nat,
           a <= b, b <= c, c <= Len(s)
    PROVE  SubSeq(s, a + 1, b) \o SubSeq(s, b + 1, c) = SubSeq(s, a + 1, c)
<1> DEFINE u == SubSeq(s, a + 1, b)
           v == SubSeq(s, b + 1, c)
           w == SubSeq(s, a + 1, c)
<1>1. /\ u \in Seq(S) /\ Len(u) = b - a /\ \A i \in 1..(b - a) : u[i] = s[a + i]
      /\ v \in Seq(S) /\ Len(v) = c - b /\ \A i \in 1..(c - b) : v[i] = s[b + i]
      /\ w \in Seq(S) /\ Len(w) = c - a /\ \A i \in 1..(c - a) : w[i] = s[a + i]
  BY PartOf
<1> HIDE DEF u, v, w
<1>2. u \o v \in Seq(S) /\ Len(u \o v) = c - a
  <2>1. u \in Seq(S) /\ v \in Seq(S)
    BY <1>1
  <2>2. u \o v \in Seq(S) /\ Len(u \o v) = Len(u) + Len(v)
    BY <2>1, SideBySide
  <2> QED BY <1>1, <2>2
<1>3. ASSUME NEW i \in 1..(c - a) PROVE (u \o v)[i] = w[i]
  <2>1. (u \o v)[i] = IF i <= b - a THEN u[i] ELSE v[i - (b - a)]
    BY <1>1, SideAt
  <2>2. CASE i <= b - a
    BY <1>1, <2>1, <2>2
  <2>3. CASE ~(i <= b - a)
    <3>1. i - (b - a) \in 1..(c - b) /\ b + (i - (b - a)) = a + i
      BY <2>3
    <3>2. v[i - (b - a)] = s[b + (i - (b - a))]
      BY <1>1, <3>1
    <3> QED BY <1>1, <2>1, <2>3, <3>1, <3>2
  <2> QED BY <2>2, <2>3
<1>4. u \o v = w
  BY <1>1, <1>2, <1>3, SameSequence
<1> QED BY <1>4 DEF u, v, w

\* Side by side is associative, and nothing beside s is s.
LEMMA SidesAssociate ==
    ASSUME NEW S, NEW s \in Seq(S), NEW t \in Seq(S), NEW u \in Seq(S)
    PROVE  (s \o t) \o u = s \o (t \o u)
<1>1. /\ (s \o t) \in Seq(S) /\ (t \o u) \in Seq(S)
      /\ Len(s \o t) = Len(s) + Len(t) /\ Len(t \o u) = Len(t) + Len(u)
  BY SideBySide
<1>2. /\ (s \o t) \o u \in Seq(S) /\ s \o (t \o u) \in Seq(S)
      /\ Len((s \o t) \o u) = Len(s) + Len(t) + Len(u)
      /\ Len(s \o (t \o u)) = Len(s) + Len(t) + Len(u)
  BY <1>1, SideBySide
<1>3. ASSUME NEW i \in 1..(Len(s) + Len(t) + Len(u))
      PROVE  ((s \o t) \o u)[i] = (s \o (t \o u))[i]
  <2>0. Len(s) \in Nat /\ Len(t) \in Nat /\ Len(u) \in Nat
    OBVIOUS
  <2>1. CASE i <= Len(s)
    BY <1>1, <2>0, <2>1, SideAt
  <2>2. CASE Len(s) < i /\ i <= Len(s) + Len(t)
    <3>1. i - Len(s) \in 1..Len(t)
      BY <2>0, <2>2
    <3> QED BY <1>1, <2>0, <2>2, <3>1, SideAt
  <2>3. CASE Len(s) + Len(t) < i
    <3>1. /\ i - Len(s) \in 1..(Len(t) + Len(u)) /\ ~(i - Len(s) <= Len(t))
          /\ (i - Len(s)) - Len(t) = i - (Len(s) + Len(t))
      BY <2>0, <2>3
    <3> QED BY <1>1, <2>0, <2>3, <3>1, SideAt
  <2> QED BY <2>0, <2>1, <2>2, <2>3
<1> QED BY <1>2, <1>3, SameSequence

\* An empty sequence adds nothing to the one beside it.
LEMMA NothingBeside ==
    ASSUME NEW S, NEW s \in Seq(S)
    PROVE  s \o <<>> = s /\ <<>> \o s = s
  OBVIOUS

\* What a piece of a table holds.
LEMMA PieceAt ==
    ASSUME NEW ps \in Seq(Pieces), NEW i \in 1..Len(ps)
    PROVE  /\ ps[i] \in Pieces /\ ps[i].source \in Sources
           /\ ps[i].start \in Nat /\ ps[i].len \in Nat
           /\ ps[i] = Piece(ps[i].source, ps[i].start, ps[i].len)
<1>1. ps[i] \in Pieces
  OBVIOUS
<1> QED BY <1>1 DEF Pieces, Piece

(***************************************************************************)
(* Display offsets                                                         *)
(***************************************************************************)

\* The offset behind a piece is the one before it and its length.
LEMMA EndsAre ==
    ASSUME NEW ps \in Seq(Pieces)
    PROVE  /\ Ends(ps) \in [0..Len(ps) -> Nat]
           /\ Ends(ps)[0] = 0
           /\ \A i \in 1..Len(ps) : Ends(ps)[i] = Ends(ps)[i - 1] + ps[i].len
<1> DEFINE n == Len(ps)
           step == [i \in 1..n |-> [x \in Nat |-> x + ps[i].len]]
           Is(f) == f = [i \in 0..n |-> IF i = 0 THEN 0 ELSE f[i - 1] + ps[i].len]
<1>0. n \in Nat /\ 0 \in Nat /\ \A i \in 1..n : ps[i].len \in Nat
  BY PieceAt
<1>4. Ends(ps) = CHOOSE g : Is(g)
  BY Zenon DEF Ends
<1> HIDE DEF n
<1>1. step \in [1..n -> [Nat -> Nat]]
  BY <1>0
<1> HIDE DEF step
<1>2. PICK f \in [0..n -> Nat] : Order!Repeats(f, n, 0, step)
  BY <1>0, <1>1, Recursion
<1>3. Is(f)
  <2>1. ASSUME NEW i \in 0..n PROVE f[i] = IF i = 0 THEN 0 ELSE f[i - 1] + ps[i].len
    <3>1. CASE i = 0
      BY <1>2, <3>1 DEF Order!Repeats
    <3>2. CASE i # 0
      <4>0. i \in 1..n /\ i - 1 \in 0..n
        BY <1>0, <3>2
      <4>1. f[i] = step[i][f[i - 1]] /\ f[i - 1] \in Nat
        <5>1. f[i - 1] \in Nat
          BY <4>0
        <5> QED BY <1>2, <3>2, <4>0, <5>1 DEF Order!Repeats
      <4> QED BY <3>2, <4>0, <4>1 DEF step
    <3> QED BY <3>1, <3>2
  <2> QED BY <2>1
<1>5. Is(Ends(ps))
  BY <1>3, <1>4
<1> DEFINE e == Ends(ps)
<1>6. e = [i \in 0..n |-> IF i = 0 THEN 0 ELSE e[i - 1] + ps[i].len]
  BY <1>5
<1> HIDE DEF e
<1>7. e[0] = 0 /\ (\A i \in 1..n : e[i] = e[i - 1] + ps[i].len)
  BY <1>0, <1>6
<1>8. \A i \in 0..n : e[i] \in Nat
  <2> DEFINE T == {i \in 0..n : e[i] \in Nat}
  <2>1. 0 \in T
    BY <1>0, <1>7
  <2>2. ASSUME NEW i \in 1..n, i - 1 \in T PROVE i \in T
    <3>1. e[i - 1] \in Nat /\ ps[i].len \in Nat /\ i \in 0..n
      BY <1>0, <2>2
    <3> QED BY <1>7, <3>1
  <2> HIDE DEF T
  <2>3. \A i \in 0..n : i \in T
    BY <1>0, <2>1, <2>2, UpTo
  <2> QED BY <2>3 DEF T
<1>9. e \in [0..n -> Nat]
  BY <1>6, <1>8
<1> QED BY <1>7, <1>9 DEF e, n

(***************************************************************************)
(* The cells of a list of pieces                                           *)
(***************************************************************************)

\* The cells of one piece.
LEMMA CellsOfPiece ==
    ASSUME NEW p \in Pieces
    PROVE  /\ PieceCells(p) \in Seq(Ids) /\ Len(PieceCells(p)) = p.len
           /\ \A i \in 1..p.len : PieceCells(p)[i] = CellId(p.source, p.start + i - 1)
<1>1. p.len \in Nat /\ p.start \in Nat /\ p.source \in Sources
  BY DEF Pieces
<1>2. \A i \in 1..p.len : CellId(p.source, p.start + i - 1) \in Ids
  BY <1>1 DEF Ids, CellId
<1> QED BY <1>1, <1>2 DEF PieceCells

\* The cells of one more piece come behind those of the pieces before it.
LEMMA JoinedAre ==
    ASSUME NEW ps \in Seq(Pieces)
    PROVE  /\ Joined(ps) \in [0..Len(ps) -> Seq(Ids)]
           /\ Joined(ps)[0] = <<>>
           /\ \A i \in 1..Len(ps) : Joined(ps)[i] = Joined(ps)[i - 1] \o PieceCells(ps[i])
<1> DEFINE n == Len(ps)
           step == [i \in 1..n |-> [x \in Seq(Ids) |-> x \o PieceCells(ps[i])]]
           Is(f) == f = [i \in 0..n |-> IF i = 0 THEN <<>> ELSE f[i - 1] \o PieceCells(ps[i])]
<1>0. n \in Nat /\ <<>> \in Seq(Ids) /\ \A i \in 1..n : PieceCells(ps[i]) \in Seq(Ids)
  BY PieceAt, CellsOfPiece
<1>4. Joined(ps) = CHOOSE g : Is(g)
  BY Zenon DEF Joined
<1> HIDE DEF n
<1>1. step \in [1..n -> [Seq(Ids) -> Seq(Ids)]]
  <2>1. ASSUME NEW i \in 1..n, NEW x \in Seq(Ids) PROVE x \o PieceCells(ps[i]) \in Seq(Ids)
    BY <1>0, SideBySide
  <2> QED BY <2>1
<1>a. ASSUME NEW i \in 1..n, NEW x \in Seq(Ids) PROVE step[i][x] = x \o PieceCells(ps[i])
  OBVIOUS
<1> HIDE DEF step
<1>2. PICK f \in [0..n -> Seq(Ids)] : Order!Repeats(f, n, <<>>, step)
  BY <1>0, <1>1, Recursion
<1>3. Is(f)
  <2>1. ASSUME NEW i \in 0..n
        PROVE  f[i] = IF i = 0 THEN <<>> ELSE f[i - 1] \o PieceCells(ps[i])
    <3>1. CASE i = 0
      BY <1>2, <3>1 DEF Order!Repeats
    <3>2. CASE i # 0
      <4>0. i \in 1..n /\ i - 1 \in 0..n
        BY <1>0, <3>2
      <4>1. f[i - 1] \in Seq(Ids)
        BY <4>0
      <4>2. f[i] = step[i][f[i - 1]]
        BY <1>2, <4>0 DEF Order!Repeats
      <4> QED BY <1>a, <3>2, <4>0, <4>1, <4>2
    <3> QED BY <3>1, <3>2
  <2> QED BY <2>1
<1>5. Is(Joined(ps))
  <2> HIDE DEF Is
  <2> QED BY <1>3, <1>4, Zenon
<1> DEFINE e == Joined(ps)
<1>6. e = [i \in 0..n |-> IF i = 0 THEN <<>> ELSE e[i - 1] \o PieceCells(ps[i])]
  BY <1>5
<1> HIDE DEF e
<1>7. e[0] = <<>> /\ (\A i \in 1..n : e[i] = e[i - 1] \o PieceCells(ps[i]))
  <2>1. \A i \in 0..n : e[i] = IF i = 0 THEN <<>> ELSE e[i - 1] \o PieceCells(ps[i])
    BY <1>6, Zenon
  <2>2. 0 \in 0..n /\ \A i \in 1..n : i \in 0..n /\ i # 0
    BY <1>0
  <2> QED BY <2>1, <2>2, Zenon
<1>8. \A i \in 0..n : e[i] \in Seq(Ids)
  <2> DEFINE T == {i \in 0..n : e[i] \in Seq(Ids)}
  <2>1. 0 \in T
    <3>1. 0 \in 0..n /\ e[0] = <<>>
      BY <1>0, <1>7
    <3> QED BY <1>0, <3>1
  <2>2. ASSUME NEW i \in 1..n, i - 1 \in T PROVE i \in T
    <3>1. e[i - 1] \in Seq(Ids) /\ PieceCells(ps[i]) \in Seq(Ids) /\ i \in 0..n
      BY <1>0, <2>2
    <3>2. e[i - 1] \o PieceCells(ps[i]) \in Seq(Ids)
      BY <3>1, SideBySide
    <3> QED BY <1>7, <3>1, <3>2
  <2> HIDE DEF T
  <2>3. \A i \in 0..n : i \in T
    BY <1>0, <2>1, <2>2, UpTo
  <2> QED BY <2>3 DEF T
<1>9. e \in [0..n -> Seq(Ids)]
  BY <1>6, <1>8
<1> QED BY <1>7, <1>9 DEF e, n

\* A piece that is merged into a list leaves a list of pieces.
LEMMA MergeType ==
    ASSUME NEW ps \in Seq(Pieces), NEW p \in Pieces
    PROVE  MergePiece(ps, p) \in Seq(Pieces)
<1>1. CASE p.len = 0
  BY <1>1 DEF MergePiece
<1>2. CASE p.len # 0 /\ Continues(ps, p)
  <2>1. ps # <<>> /\ Len(ps) \in 1..Len(ps)
    BY <1>2 DEF Continues
  <2>2. /\ ps[Len(ps)] \in Pieces
        /\ [ps[Len(ps)] EXCEPT !.len = ps[Len(ps)].len + p.len] \in Pieces
    <3> DEFINE q == ps[Len(ps)]
    <3>1. q \in Pieces
      BY <2>1, PieceAt
    <3> HIDE DEF q
    <3>2. [q EXCEPT !.len = q.len + p.len] \in Pieces
      <4>1. q.len + p.len \in Nat
        BY <3>1 DEF Pieces
      <4> QED BY <3>1, <4>1 DEF Pieces
    <3> QED BY <3>1, <3>2 DEF q
  <2>3. [ps EXCEPT ![Len(ps)] = [ps[Len(ps)] EXCEPT !.len = ps[Len(ps)].len + p.len]]
           \in Seq(Pieces)
    BY <2>1, <2>2
  <2> QED BY <1>2, <2>3 DEF MergePiece
<1>3. CASE p.len # 0 /\ ~Continues(ps, p)
  BY <1>3 DEF MergePiece
<1> QED BY <1>1, <1>2, <1>3

\* The pieces are merged one after the other.
LEMMA MergedAre ==
    ASSUME NEW ps \in Seq(Pieces)
    PROVE  /\ Merged(ps) \in [0..Len(ps) -> Seq(Pieces)]
           /\ Merged(ps)[0] = <<>>
           /\ \A i \in 1..Len(ps) : Merged(ps)[i] = MergePiece(Merged(ps)[i - 1], ps[i])
<1> DEFINE n == Len(ps)
           step == [i \in 1..n |-> [x \in Seq(Pieces) |-> MergePiece(x, ps[i])]]
           Is(f) == f = [i \in 0..n |-> IF i = 0 THEN <<>> ELSE MergePiece(f[i - 1], ps[i])]
<1>0. n \in Nat /\ <<>> \in Seq(Pieces) /\ \A i \in 1..n : ps[i] \in Pieces
  BY PieceAt
<1>4. Merged(ps) = CHOOSE g : Is(g)
  BY Zenon DEF Merged
<1> HIDE DEF n
<1>1. step \in [1..n -> [Seq(Pieces) -> Seq(Pieces)]]
  <2>1. ASSUME NEW i \in 1..n, NEW x \in Seq(Pieces) PROVE MergePiece(x, ps[i]) \in Seq(Pieces)
    BY <1>0, MergeType
  <2> QED BY <2>1
<1>a. ASSUME NEW i \in 1..n, NEW x \in Seq(Pieces) PROVE step[i][x] = MergePiece(x, ps[i])
  OBVIOUS
<1> HIDE DEF step
<1>2. PICK f \in [0..n -> Seq(Pieces)] : Order!Repeats(f, n, <<>>, step)
  BY <1>0, <1>1, Recursion
<1>3. Is(f)
  <2>1. ASSUME NEW i \in 0..n
        PROVE  f[i] = IF i = 0 THEN <<>> ELSE MergePiece(f[i - 1], ps[i])
    <3>1. CASE i = 0
      BY <1>2, <3>1 DEF Order!Repeats
    <3>2. CASE i # 0
      <4>0. i \in 1..n /\ i - 1 \in 0..n
        BY <1>0, <3>2
      <4>1. f[i - 1] \in Seq(Pieces)
        BY <4>0
      <4>2. f[i] = step[i][f[i - 1]]
        BY <1>2, <4>0 DEF Order!Repeats
      <4> QED BY <1>a, <3>2, <4>0, <4>1, <4>2
    <3> QED BY <3>1, <3>2
  <2> QED BY <2>1
<1>5. Is(Merged(ps))
  <2> HIDE DEF Is
  <2> QED BY <1>3, <1>4, Zenon
<1> DEFINE e == Merged(ps)
<1>6. e = [i \in 0..n |-> IF i = 0 THEN <<>> ELSE MergePiece(e[i - 1], ps[i])]
  BY <1>5
<1> HIDE DEF e
<1>7. e[0] = <<>> /\ (\A i \in 1..n : e[i] = MergePiece(e[i - 1], ps[i]))
  <2>1. \A i \in 0..n : e[i] = IF i = 0 THEN <<>> ELSE MergePiece(e[i - 1], ps[i])
    BY <1>6, Zenon
  <2>2. 0 \in 0..n /\ \A i \in 1..n : i \in 0..n /\ i # 0
    BY <1>0
  <2> QED BY <2>1, <2>2, Zenon
<1>8. \A i \in 0..n : e[i] \in Seq(Pieces)
  <2> DEFINE T == {i \in 0..n : e[i] \in Seq(Pieces)}
  <2>1. 0 \in T
    <3>1. 0 \in 0..n /\ e[0] = <<>>
      BY <1>0, <1>7
    <3> QED BY <1>0, <3>1
  <2>2. ASSUME NEW i \in 1..n, i - 1 \in T PROVE i \in T
    <3>1. e[i - 1] \in Seq(Pieces) /\ ps[i] \in Pieces /\ i \in 0..n
      BY <1>0, <2>2
    <3>2. MergePiece(e[i - 1], ps[i]) \in Seq(Pieces)
      BY <3>1, MergeType
    <3> QED BY <1>7, <3>1, <3>2
  <2> HIDE DEF T
  <2>3. \A i \in 0..n : i \in T
    BY <1>0, <2>1, <2>2, UpTo
  <2> QED BY <2>3 DEF T
<1>9. e \in [0..n -> Seq(Pieces)]
  BY <1>6, <1>8
<1> QED BY <1>7, <1>9 DEF e, n

\* The cells of the first pieces end where the last of them does.
LEMMA JoinedLength ==
    ASSUME NEW ps \in Seq(Pieces), NEW i \in 0..Len(ps)
    PROVE  /\ Joined(ps)[i] \in Seq(Ids) /\ Ends(ps)[i] \in Nat
           /\ Len(Joined(ps)[i]) = Ends(ps)[i]
<1> DEFINE n == Len(ps)
           j == Joined(ps)
           e == Ends(ps)
           T == {k \in 0..n : Len(j[k]) = e[k]}
<1>1. /\ n \in Nat /\ j \in [0..n -> Seq(Ids)] /\ e \in [0..n -> Nat]
      /\ j[0] = <<>> /\ e[0] = 0
  BY JoinedAre, EndsAre
<1>2. ASSUME NEW k \in 1..n
      PROVE  /\ j[k] = j[k - 1] \o PieceCells(ps[k]) /\ e[k] = e[k - 1] + ps[k].len
             /\ PieceCells(ps[k]) \in Seq(Ids) /\ Len(PieceCells(ps[k])) = ps[k].len
  BY JoinedAre, EndsAre, PieceAt, CellsOfPiece
<1> HIDE DEF n, j, e
<1>3. 0 \in T
  BY <1>1
<1>4. ASSUME NEW k \in 1..n, k - 1 \in T PROVE k \in T
  <2>1. j[k - 1] \in Seq(Ids) /\ Len(j[k - 1]) = e[k - 1] /\ k \in 0..n
    BY <1>1, <1>4
  <2>2. Len(j[k - 1] \o PieceCells(ps[k])) = Len(j[k - 1]) + Len(PieceCells(ps[k]))
    <3> DEFINE c == PieceCells(ps[k])
               b == j[k - 1]
    <3>1. b \in Seq(Ids) /\ c \in Seq(Ids)
      BY <1>2, <2>1
    <3> HIDE DEF b, c
    <3>2. Len(b \o c) = Len(b) + Len(c)
      BY <3>1, SideBySide
    <3> QED BY <3>2 DEF b, c
  <2>3. Len(j[k]) = e[k]
    BY <1>2, <2>1, <2>2
  <2> QED BY <2>1, <2>3
<1> HIDE DEF T
<1>5. \A k \in 0..n : k \in T
  BY <1>1, <1>3, <1>4, UpTo
<1>6. i \in T /\ j[i] \in Seq(Ids) /\ e[i] \in Nat
  <2>1. i \in 0..n
    BY DEF n
  <2> QED BY <1>1, <1>5, <2>1
<1> QED BY <1>6 DEF T, j, e

\* The cells of a table.
LEMMA CellsOfType ==
    ASSUME NEW ps \in Seq(Pieces)
    PROVE  CellsOf(ps) \in Seq(Ids) /\ Len(CellsOf(ps)) = Ends(ps)[Len(ps)]
<1>1. Len(ps) \in 0..Len(ps)
  OBVIOUS
<1> QED BY <1>1, JoinedLength DEF CellsOf

\* Where two lists start with the same pieces they have the same cells.
LEMMA SameStart ==
    ASSUME NEW ps \in Seq(Pieces), NEW qs \in Seq(Pieces), NEW m \in Nat,
           m <= Len(ps), m <= Len(qs), \A i \in 1..m : ps[i] = qs[i]
    PROVE  \A i \in 0..m : Joined(ps)[i] = Joined(qs)[i] /\ Ends(ps)[i] = Ends(qs)[i]
<1> DEFINE T == {i \in 0..m : Joined(ps)[i] = Joined(qs)[i] /\ Ends(ps)[i] = Ends(qs)[i]}
<1>1. 0 \in T
  <2>1. /\ Joined(ps)[0] = <<>> /\ Joined(qs)[0] = <<>>
        /\ Ends(ps)[0] = 0 /\ Ends(qs)[0] = 0
    BY JoinedAre, EndsAre
  <2> QED BY <2>1
<1>2. ASSUME NEW i \in 1..m, i - 1 \in T PROVE i \in T
  <2>1. i \in 1..Len(ps) /\ i \in 1..Len(qs) /\ i \in 0..m
    OBVIOUS
  <2>2. Joined(ps)[i] = Joined(ps)[i - 1] \o PieceCells(ps[i])
    BY <2>1, JoinedAre
  <2>3. Joined(qs)[i] = Joined(qs)[i - 1] \o PieceCells(qs[i])
    BY <2>1, JoinedAre
  <2>4. Ends(ps)[i] = Ends(ps)[i - 1] + ps[i].len /\ Ends(qs)[i] = Ends(qs)[i - 1] + qs[i].len
    BY <2>1, EndsAre
  <2>5. /\ Joined(ps)[i - 1] = Joined(qs)[i - 1] /\ Ends(ps)[i - 1] = Ends(qs)[i - 1]
        /\ ps[i] = qs[i]
    BY <1>2
  <2> QED BY <2>1, <2>2, <2>3, <2>4, <2>5
<1> HIDE DEF T
<1>3. \A i \in 0..m : i \in T
  BY <1>1, <1>2, UpTo
<1> QED BY <1>3 DEF T

\* The cells of one piece, and of none.
LEMMA CellsOfOne ==
    /\ CellsOf(<<>>) = <<>>
    /\ \A p \in Pieces : CellsOf(<<p>>) = PieceCells(p)
<1>1. <<>> \in Seq(Pieces) /\ Len(<<>>) = 0
  OBVIOUS
<1>2. CellsOf(<<>>) = <<>>
  BY <1>1, JoinedAre DEF CellsOf
<1>3. ASSUME NEW p \in Pieces PROVE CellsOf(<<p>>) = PieceCells(p)
  <2>1. <<p>> \in Seq(Pieces) /\ Len(<<p>>) = 1 /\ <<p>>[1] = p /\ 1 \in 1..1 /\ 1 - 1 = 0
    OBVIOUS
  <2>2. Joined(<<p>>)[1] = Joined(<<p>>)[0] \o PieceCells(p)
    BY <2>1, JoinedAre
  <2>3. Joined(<<p>>)[0] = <<>>
    BY <2>1, JoinedAre
  <2> QED BY <2>1, <2>2, <2>3, CellsOfPiece, NothingBeside DEF CellsOf
<1> QED BY <1>2, <1>3

\* Cells side by side, in any order of putting them there.
LEMMA CellsAssociate ==
    ASSUME NEW s \in Seq(Ids), NEW t \in Seq(Ids), NEW u \in Seq(Ids)
    PROVE  (s \o t) \o u = s \o (t \o u)
  BY SidesAssociate

\* The cells of two lists of pieces side by side.
LEMMA CellsBeside ==
    ASSUME NEW ps \in Seq(Pieces), NEW qs \in Seq(Pieces)
    PROVE  ps \o qs \in Seq(Pieces) /\ CellsOf(ps \o qs) = CellsOf(ps) \o CellsOf(qs)
<1> DEFINE us == ps \o qs
           T == {k \in 0..Len(qs) : Joined(us)[Len(ps) + k] = CellsOf(ps) \o Joined(qs)[k]}
<1>0. Len(ps) \in Nat /\ Len(qs) \in Nat
  OBVIOUS
<1>1. /\ us \in Seq(Pieces) /\ Len(us) = Len(ps) + Len(qs)
      /\ \A i \in 1..Len(ps) : us[i] = ps[i]
      /\ \A i \in 1..Len(qs) : us[Len(ps) + i] = qs[i]
  BY SideBySide
<1> HIDE DEF us
<1>2. 0 \in T
  <2>1. Len(ps) <= Len(us) /\ Len(ps) \in 0..Len(ps) /\ Len(ps) <= Len(ps)
    BY <1>0, <1>1
  <2>2. \A i \in 0..Len(ps) : Joined(us)[i] = Joined(ps)[i]
    BY <1>0, <1>1, <2>1, SameStart
  <2>3. Joined(us)[Len(ps)] = CellsOf(ps) /\ CellsOf(ps) \in Seq(Ids)
    BY <2>1, <2>2, CellsOfType DEF CellsOf
  <2>4. Joined(qs)[0] = <<>>
    BY JoinedAre
  <2>5. CellsOf(ps) \o <<>> = CellsOf(ps)
    BY <2>3, NothingBeside
  <2>6. Len(ps) + 0 = Len(ps) /\ 0 \in 0..Len(qs)
    BY <1>0
  <2> QED BY <2>3, <2>4, <2>5, <2>6
<1>3. ASSUME NEW k \in 1..Len(qs), k - 1 \in T PROVE k \in T
  <2>1. /\ Len(ps) + k \in 1..Len(us) /\ (Len(ps) + k) - 1 = Len(ps) + (k - 1)
        /\ k \in 0..Len(qs) /\ k - 1 \in 0..Len(qs)
    BY <1>0, <1>1
  <2>2. Joined(us)[Len(ps) + k] = Joined(us)[(Len(ps) + k) - 1] \o PieceCells(us[Len(ps) + k])
    BY <1>1, <2>1, JoinedAre
  <2>3. Joined(us)[Len(ps) + (k - 1)] = CellsOf(ps) \o Joined(qs)[k - 1]
    BY <1>3
  <2>4. us[Len(ps) + k] = qs[k]
    BY <1>1
  <2>5. Joined(qs)[k] = Joined(qs)[k - 1] \o PieceCells(qs[k])
    BY JoinedAre
  <2>6. /\ CellsOf(ps) \in Seq(Ids) /\ Joined(qs)[k - 1] \in Seq(Ids)
        /\ PieceCells(qs[k]) \in Seq(Ids)
    BY <2>1, CellsOfType, JoinedLength, PieceAt, CellsOfPiece
  <2>7. (CellsOf(ps) \o Joined(qs)[k - 1]) \o PieceCells(qs[k])
           = CellsOf(ps) \o (Joined(qs)[k - 1] \o PieceCells(qs[k]))
    BY <2>6, CellsAssociate
  <2>8. Joined(us)[Len(ps) + k] = CellsOf(ps) \o Joined(qs)[k]
    BY <2>1, <2>2, <2>3, <2>4, <2>5, <2>7
  <2> QED BY <2>1, <2>8
<1> HIDE DEF T
<1>4. \A k \in 0..Len(qs) : k \in T
  BY <1>0, <1>2, <1>3, UpTo
<1>5. Joined(us)[Len(ps) + Len(qs)] = CellsOf(ps) \o Joined(qs)[Len(qs)]
  <2>1. Len(qs) \in T
    BY <1>0, <1>4
  <2> QED BY <2>1 DEF T
<1> QED BY <1>1, <1>5 DEF us, CellsOf

(***************************************************************************)
(* Merging neighbours                                                      *)
(***************************************************************************)

\* Where a source ends.
Limit(src, add) == IF src = "Add" THEN add ELSE OriginalLen

\* No piece reaches past its source.
Within(ps, add) ==
    \A i \in 1..Len(ps) : ps[i].start + ps[i].len <= Limit(ps[i].source, add)

\* Nor is one empty.
Filled(ps) == \A i \in 1..Len(ps) : ps[i].len > 0

\* q continues p.
Follows(p, q) == p.source = q.source /\ p.start + p.len = q.start

\* No piece continues its neighbour.
Parted(ps) == \A i \in 1..Len(ps) : i > 1 => ~Follows(ps[i - 1], ps[i])

Tidy(ps, add) == Within(ps, add) /\ Filled(ps) /\ Parted(ps)

\* A piece that is cut has the cells of its parts.
LEMMA PieceCut ==
    ASSUME NEW src \in Sources, NEW start \in Nat, NEW a \in Nat, NEW b \in Nat
    PROVE  /\ Piece(src, start, a) \in Pieces /\ Piece(src, start + a, b) \in Pieces
           /\ Piece(src, start, a + b) \in Pieces
           /\ PieceCells(Piece(src, start, a + b)) =
                 PieceCells(Piece(src, start, a)) \o PieceCells(Piece(src, start + a, b))
<1> DEFINE p == Piece(src, start, a)
           q == Piece(src, start + a, b)
           r == Piece(src, start, a + b)
<1>1. /\ p \in Pieces /\ p.len = a /\ p.start = start /\ p.source = src
      /\ q \in Pieces /\ q.len = b /\ q.start = start + a /\ q.source = src
      /\ r \in Pieces /\ r.len = a + b /\ r.start = start /\ r.source = src
  BY DEF Piece, Pieces
<1> HIDE DEF p, q, r
<1>2. /\ PieceCells(p) \in Seq(Ids) /\ Len(PieceCells(p)) = a
      /\ \A i \in 1..a : PieceCells(p)[i] = CellId(src, start + i - 1)
  BY <1>1, CellsOfPiece
<1>3. /\ PieceCells(q) \in Seq(Ids) /\ Len(PieceCells(q)) = b
      /\ \A i \in 1..b : PieceCells(q)[i] = CellId(src, start + a + i - 1)
  BY <1>1, CellsOfPiece
<1>4. /\ PieceCells(r) \in Seq(Ids) /\ Len(PieceCells(r)) = a + b
      /\ \A i \in 1..(a + b) : PieceCells(r)[i] = CellId(src, start + i - 1)
  BY <1>1, CellsOfPiece
<1> DEFINE u == PieceCells(p)
           v == PieceCells(q)
           w == PieceCells(r)
<1> HIDE DEF u, v, w
<1>5. u \o v \in Seq(Ids) /\ Len(u \o v) = a + b
  <2>1. u \in Seq(Ids) /\ v \in Seq(Ids) /\ Len(u) = a /\ Len(v) = b
    BY <1>2, <1>3 DEF u, v
  <2> QED BY <2>1, SideBySide
<1>6. ASSUME NEW i \in 1..(a + b) PROVE (u \o v)[i] = w[i]
  <2>0. u \in Seq(Ids) /\ v \in Seq(Ids) /\ Len(u) = a /\ Len(v) = b
    BY <1>2, <1>3 DEF u, v
  <2>1. (u \o v)[i] = IF i <= a THEN u[i] ELSE v[i - a]
    BY <2>0, SideAt
  <2>2. w[i] = CellId(src, start + i - 1)
    BY <1>4 DEF w
  <2>3. CASE i <= a
    BY <1>2, <2>1, <2>2, <2>3 DEF u
  <2>4. CASE ~(i <= a)
    <3>1. i - a \in 1..b /\ start + a + (i - a) - 1 = start + i - 1
      BY <2>4
    <3>2. v[i - a] = CellId(src, start + a + (i - a) - 1)
      BY <1>3, <3>1 DEF v
    <3> QED BY <2>1, <2>2, <2>4, <3>1, <3>2
  <2> QED BY <2>3, <2>4
<1>7. u \o v = w
  <2>1. w \in Seq(Ids) /\ Len(w) = a + b
    BY <1>4 DEF w
  <2> QED BY <1>5, <1>6, <2>1, SameSequence
<1> QED BY <1>1, <1>7 DEF p, q, r, u, v, w

\* What merging a piece into a list does to its pieces.
LEMMA MergeShape ==
    ASSUME NEW ps \in Seq(Pieces), NEW p \in Pieces
    PROVE  LET qs == MergePiece(ps, p)
               n  == Len(ps)
           IN  \/ p.len = 0 /\ qs = ps
               \/ /\ n \in 1..n /\ Follows(ps[n], p) /\ Len(qs) = n
                  /\ qs \in Seq(Pieces)
                  /\ \A i \in 1..(n - 1) : qs[i] = ps[i]
                  /\ qs[n] = Piece(ps[n].source, ps[n].start, ps[n].len + p.len)
               \/ /\ p.len # 0 /\ Len(qs) = n + 1
                  /\ qs \in Seq(Pieces)
                  /\ \A i \in 1..n : qs[i] = ps[i]
                  /\ qs[n + 1] = p
                  /\ n \in 1..n => ~Follows(ps[n], p)
<1> DEFINE n == Len(ps)
<1>0. n \in Nat /\ p.len \in Nat
  BY DEF Pieces
<1>1. CASE p.len = 0
  BY <1>1 DEF MergePiece
<1>2. CASE p.len # 0 /\ Continues(ps, p)
  <2>1. n \in 1..n /\ Follows(ps[n], p)
    BY <1>2 DEF Continues, Follows, Last
  <2>2. /\ ps[n] = Piece(ps[n].source, ps[n].start, ps[n].len)
        /\ ps[n].source \in Sources /\ ps[n].start \in Nat /\ ps[n].len \in Nat
    BY <2>1, PieceAt
  <2> DEFINE q == Piece(ps[n].source, ps[n].start, ps[n].len + p.len)
  <2>3. [ps[n] EXCEPT !.len = ps[n].len + p.len] = q
    BY <2>2 DEF Piece
  <2>4. q \in Pieces
    BY <1>0, <2>2 DEF Piece, Pieces
  <2>5. MergePiece(ps, p) = [ps EXCEPT ![n] = [ps[n] EXCEPT !.len = ps[n].len + p.len]]
    BY <1>2 DEF MergePiece
  <2> HIDE DEF q
  <2>6. MergePiece(ps, p) = [ps EXCEPT ![n] = q]
    BY <2>3, <2>5
  <2>7. /\ [ps EXCEPT ![n] = q] \in Seq(Pieces) /\ Len([ps EXCEPT ![n] = q]) = n
        /\ [ps EXCEPT ![n] = q][n] = q
        /\ \A i \in 1..(n - 1) : [ps EXCEPT ![n] = q][i] = ps[i]
    BY <2>1, <2>4
  <2> QED BY <2>1, <2>6, <2>7 DEF q
<1>3. CASE p.len # 0 /\ ~Continues(ps, p)
  <2>1. MergePiece(ps, p) = Append(ps, p)
    BY <1>3 DEF MergePiece
  <2>2. /\ Append(ps, p) \in Seq(Pieces) /\ Len(Append(ps, p)) = n + 1
        /\ Append(ps, p)[n + 1] = p /\ \A i \in 1..n : Append(ps, p)[i] = ps[i]
    OBVIOUS
  <2>3. n \in 1..n => ~Follows(ps[n], p)
    BY <1>3 DEF Continues, Follows, Last
  <2> QED BY <1>3, <2>1, <2>2, <2>3
<1> QED BY <1>1, <1>2, <1>3

\* Merging a piece into a list puts its cells behind those of the list.
LEMMA MergeCells ==
    ASSUME NEW ps \in Seq(Pieces), NEW p \in Pieces
    PROVE  CellsOf(MergePiece(ps, p)) = CellsOf(ps) \o PieceCells(p)
<1> DEFINE qs == MergePiece(ps, p)
           n == Len(ps)
<1>0. n \in Nat /\ p.len \in Nat /\ qs \in Seq(Pieces)
  <2>1. qs \in Seq(Pieces)
    BY MergeType
  <2>2. p.len \in Nat
    BY DEF Pieces
  <2> QED BY <2>1, <2>2
<1>1. CellsOf(ps) \in Seq(Ids) /\ PieceCells(p) \in Seq(Ids)
  BY CellsOfType, CellsOfPiece
<1>2. CASE p.len = 0 /\ qs = ps
  <2>1. Len(PieceCells(p)) = 0
    BY <1>2, CellsOfPiece
  <2>2. PieceCells(p) = <<>>
    BY <1>1, <2>1
  <2> QED BY <1>1, <1>2, <2>2, NothingBeside
<1>3. CASE /\ n \in 1..n /\ Follows(ps[n], p) /\ Len(qs) = n
           /\ \A i \in 1..(n - 1) : qs[i] = ps[i]
           /\ qs[n] = Piece(ps[n].source, ps[n].start, ps[n].len + p.len)
  <2> HIDE DEF qs
  <2>1. n - 1 \in Nat /\ n - 1 <= Len(ps) /\ n - 1 <= Len(qs) /\ n - 1 \in 0..(n - 1)
        /\ n - 1 \in 0..Len(ps)
    BY <1>0, <1>3
  <2>2. Joined(ps)[n - 1] = Joined(qs)[n - 1]
    BY <1>0, <1>3, <2>1, SameStart
  <2>3. Joined(qs)[n] = Joined(qs)[n - 1] \o PieceCells(qs[n])
    BY <1>0, <1>3, JoinedAre
  <2>4. Joined(ps)[n] = Joined(ps)[n - 1] \o PieceCells(ps[n])
    BY <1>0, <1>3, JoinedAre
  <2>5. PieceCells(qs[n]) = PieceCells(ps[n]) \o PieceCells(p)
    <3>1. /\ ps[n].source \in Sources /\ ps[n].start \in Nat /\ ps[n].len \in Nat
          /\ ps[n] = Piece(ps[n].source, ps[n].start, ps[n].len)
      BY <1>3, PieceAt
    <3>2. p = Piece(ps[n].source, ps[n].start + ps[n].len, p.len)
      BY <1>3 DEF Follows, Pieces, Piece
    <3> DEFINE src == ps[n].source
               start == ps[n].start
               len == ps[n].len
    <3>3. src \in Sources /\ start \in Nat /\ len \in Nat
      BY <3>1
    <3> HIDE DEF src, start, len
    <3>4. PieceCells(Piece(src, start, len + p.len)) =
             PieceCells(Piece(src, start, len)) \o PieceCells(Piece(src, start + len, p.len))
      BY <1>0, <3>3, PieceCut, ZenonT(40)
    <3> QED BY <1>3, <3>1, <3>2, <3>4 DEF src, start, len
  <2>6. /\ Joined(ps)[n - 1] \in Seq(Ids) /\ PieceCells(ps[n]) \in Seq(Ids)
    BY <1>3, <2>1, JoinedLength, PieceAt, CellsOfPiece
  <2>7. (Joined(ps)[n - 1] \o PieceCells(ps[n])) \o PieceCells(p)
           = Joined(ps)[n - 1] \o (PieceCells(ps[n]) \o PieceCells(p))
    BY <1>1, <2>6, CellsAssociate, ZenonT(40)
  <2>8. CellsOf(qs) = Joined(qs)[n] /\ CellsOf(ps) = Joined(ps)[n]
    BY <1>3 DEF CellsOf
  <2> QED BY <2>2, <2>3, <2>4, <2>5, <2>7, <2>8 DEF qs
<1>4. CASE /\ Len(qs) = n + 1
           /\ \A i \in 1..n : qs[i] = ps[i]
           /\ qs[n + 1] = p
  <2> HIDE DEF qs
  <2>1. n <= Len(ps) /\ n <= Len(qs) /\ n \in 0..n
        /\ n + 1 \in 1..Len(qs) /\ (n + 1) - 1 = n
    BY <1>0, <1>4
  <2>2. Joined(ps)[n] = Joined(qs)[n]
    BY <1>0, <1>4, <2>1, SameStart
  <2>3. Joined(qs)[n + 1] = Joined(qs)[n] \o PieceCells(qs[n + 1])
    BY <1>0, <2>1, JoinedAre
  <2>4. CellsOf(qs) = Joined(qs)[n + 1] /\ CellsOf(ps) = Joined(ps)[n]
    BY <1>4 DEF CellsOf
  <2> QED BY <1>4, <2>2, <2>3, <2>4 DEF qs
<1> QED BY <1>2, <1>3, <1>4, MergeShape

\* A tidy list stays tidy.
LEMMA MergeTidy ==
    ASSUME NEW ps \in Seq(Pieces), NEW p \in Pieces, NEW add \in Nat, OriginalLen \in Nat,
           Tidy(ps, add), p.start + p.len <= Limit(p.source, add)
    PROVE  Tidy(MergePiece(ps, p), add)
<1> DEFINE qs == MergePiece(ps, p)
           n == Len(ps)
<1>0. /\ n \in Nat /\ p.len \in Nat /\ p.start \in Nat /\ qs \in Seq(Pieces)
      /\ Limit(p.source, add) \in Nat
  <2>1. qs \in Seq(Pieces)
    BY MergeType
  <2>2. p.len \in Nat /\ p.start \in Nat
    BY DEF Pieces
  <2>3. Limit(p.source, add) \in Nat
    BY DEF Limit
  <2> QED BY <2>1, <2>2, <2>3
<1>1. /\ \A i \in 1..n : ps[i].start + ps[i].len <= Limit(ps[i].source, add)
      /\ \A i \in 1..n : ps[i].len > 0
      /\ \A i \in 1..n : i > 1 => ~Follows(ps[i - 1], ps[i])
  BY DEF Tidy, Within, Filled, Parted
<1> HIDE DEF qs
<1>2. CASE qs = ps
  BY <1>2 DEF qs
<1>3. CASE /\ n \in 1..n /\ Follows(ps[n], p) /\ Len(qs) = n
           /\ \A i \in 1..(n - 1) : qs[i] = ps[i]
           /\ qs[n] = Piece(ps[n].source, ps[n].start, ps[n].len + p.len)
  <2>0. /\ qs[n].source = ps[n].source /\ qs[n].start = ps[n].start
        /\ qs[n].len = ps[n].len + p.len
    BY <1>3 DEF Piece
  <2>1. ps[n].start \in Nat /\ ps[n].len \in Nat
    BY <1>3, PieceAt
  <2>2. ASSUME NEW i \in 1..n
        PROVE  qs[i].start + qs[i].len <= Limit(qs[i].source, add) /\ qs[i].len > 0
    <3>1. CASE i = n
      <4>1. /\ p.source = ps[n].source /\ ps[n].start + ps[n].len = p.start
            /\ ps[n].len > 0
        BY <1>1, <1>3 DEF Follows
      <4> DEFINE a == ps[n].start
                 b == ps[n].len
                 c == Limit(p.source, add)
                 d == p.start
                 e == p.len
      <4>a. a \in Nat /\ b \in Nat /\ c \in Nat /\ d \in Nat /\ e \in Nat
        BY <1>0, <2>1
      <4>b. a + b = d /\ d + e <= c /\ b > 0
        BY <4>1
      <4> HIDE DEF a, b, c, d, e
      <4>c. a + (b + e) <= c /\ b + e > 0
        BY <4>a, <4>b
      <4>2. ps[n].start + (ps[n].len + p.len) <= Limit(p.source, add)
        BY <4>c DEF a, b, c, e
      <4>3. ps[n].len + p.len > 0
        BY <4>c DEF b, e
      <4> QED BY <2>0, <3>1, <4>1, <4>2, <4>3
    <3>2. CASE i # n
      <4>1. i \in 1..(n - 1)
        BY <1>0, <3>2
      <4> QED BY <1>1, <1>3, <4>1
    <3> QED BY <3>1, <3>2
  <2>3. ASSUME NEW i \in 1..n, i > 1 PROVE ~Follows(qs[i - 1], qs[i])
    <3>1. i - 1 \in 1..(n - 1) /\ qs[i - 1] = ps[i - 1]
      BY <1>0, <1>3, <2>3
    <3>2. qs[i].source = ps[i].source /\ qs[i].start = ps[i].start
      <4>1. CASE i = n
        BY <2>0, <4>1
      <4>2. CASE i # n
        <5>1. i \in 1..(n - 1)
          BY <1>0, <4>2
        <5> QED BY <1>3, <5>1
      <4> QED BY <4>1, <4>2
    <3>3. ~Follows(ps[i - 1], ps[i])
      BY <1>1, <2>3
    <3> QED BY <3>1, <3>2, <3>3 DEF Follows
  <2> QED BY <1>3, <2>2, <2>3 DEF Tidy, Within, Filled, Parted, qs
<1>4. CASE /\ p.len # 0 /\ Len(qs) = n + 1
           /\ \A i \in 1..n : qs[i] = ps[i]
           /\ qs[n + 1] = p
           /\ n \in 1..n => ~Follows(ps[n], p)
  <2>1. ASSUME NEW i \in 1..(n + 1)
        PROVE  qs[i].start + qs[i].len <= Limit(qs[i].source, add) /\ qs[i].len > 0
    <3>1. CASE i = n + 1
      BY <1>0, <1>4, <3>1
    <3>2. CASE i # n + 1
      <4>1. i \in 1..n
        BY <1>0, <3>2
      <4> QED BY <1>1, <1>4, <4>1
    <3> QED BY <3>1, <3>2
  <2>2. ASSUME NEW i \in 1..(n + 1), i > 1 PROVE ~Follows(qs[i - 1], qs[i])
    <3>0. i - 1 \in 1..n
      BY <1>0, <2>2
    <3>1. i - 1 \in 1..n /\ qs[i - 1] = ps[i - 1]
      BY <1>4, <3>0
    <3>2. CASE i = n + 1
      <4>1. i - 1 = n /\ n \in 1..n
        BY <1>0, <3>1, <3>2
      <4> QED BY <1>4, <3>1, <3>2, <4>1
    <3>3. CASE i # n + 1
      <4>1. i \in 1..n
        BY <1>0, <3>3
      <4> QED BY <1>1, <1>4, <2>2, <3>1, <4>1
    <3> QED BY <3>2, <3>3
  <2> QED BY <1>4, <2>1, <2>2 DEF Tidy, Within, Filled, Parted, qs
<1> QED BY <1>2, <1>3, <1>4, MergeShape DEF qs

\* Merging neighbours tidies a list and keeps its cells.
LEMMA CoalesceIs ==
    ASSUME NEW ps \in Seq(Pieces), NEW add \in Nat, OriginalLen \in Nat, Within(ps, add)
    PROVE  /\ Coalesce(ps) \in Seq(Pieces) /\ Tidy(Coalesce(ps), add)
           /\ CellsOf(Coalesce(ps)) = CellsOf(ps)
<1> DEFINE n == Len(ps)
           m == Merged(ps)
           T == {i \in 0..n : Tidy(m[i], add) /\ CellsOf(m[i]) = Joined(ps)[i]}
<1>0. n \in Nat /\ m \in [0..n -> Seq(Pieces)] /\ m[0] = <<>>
  BY MergedAre
<1>1. ASSUME NEW i \in 1..n
      PROVE  /\ m[i] = MergePiece(m[i - 1], ps[i]) /\ ps[i] \in Pieces
             /\ Joined(ps)[i] = Joined(ps)[i - 1] \o PieceCells(ps[i])
             /\ ps[i].start + ps[i].len <= Limit(ps[i].source, add)
  BY MergedAre, PieceAt, JoinedAre DEF Within
<1> HIDE DEF n, m
<1>2. 0 \in T
  <2>1. Tidy(<<>>, add)
    BY DEF Tidy, Within, Filled, Parted
  <2>2. CellsOf(<<>>) = <<>> /\ Joined(ps)[0] = <<>>
    BY CellsOfOne, JoinedAre
  <2> QED BY <1>0, <2>1, <2>2
<1>3. ASSUME NEW i \in 1..n, i - 1 \in T PROVE i \in T
  <2>1. m[i - 1] \in Seq(Pieces) /\ i \in 0..n
    BY <1>0
  <2>2. Tidy(m[i - 1], add) /\ CellsOf(m[i - 1]) = Joined(ps)[i - 1]
    BY <1>3
  <2>3. Tidy(MergePiece(m[i - 1], ps[i]), add)
    BY <1>1, <2>1, <2>2, MergeTidy
  <2>4. CellsOf(MergePiece(m[i - 1], ps[i])) = CellsOf(m[i - 1]) \o PieceCells(ps[i])
    BY <1>1, <2>1, MergeCells
  <2> QED BY <1>1, <2>1, <2>2, <2>3, <2>4
<1> HIDE DEF T
<1>4. \A i \in 0..n : i \in T
  BY <1>0, <1>2, <1>3, UpTo
<1>5. n \in T /\ m[n] \in Seq(Pieces)
  BY <1>0, <1>4
<1> QED BY <1>5 DEF T, m, n, Coalesce, CellsOf

(***************************************************************************)
(* Positions                                                               *)
(***************************************************************************)

\* Later pieces end later.
LEMMA EndsGrow ==
    ASSUME NEW ps \in Seq(Pieces), NEW i \in 0..Len(ps), NEW j \in 0..Len(ps), i <= j
    PROVE  Ends(ps)[i] <= Ends(ps)[j]
<1> DEFINE n == Len(ps)
           e == Ends(ps)
           T == {k \in 0..n : i <= k => e[i] <= e[k]}
<1>1. /\ n \in Nat /\ i \in 0..n /\ j \in 0..n /\ e \in [0..n -> Nat]
  BY EndsAre
<1>2. ASSUME NEW k \in 1..n PROVE e[k] = e[k - 1] + ps[k].len /\ ps[k].len \in Nat
  BY EndsAre, PieceAt
<1> HIDE DEF n, e
<1>3. 0 \in T
  <2>1. CASE i = 0
    <3>1. e[0] \in Nat
      BY <1>1
    <3> QED BY <1>1, <2>1, <3>1
  <2>2. CASE i # 0
    BY <1>1, <2>2
  <2> QED BY <2>1, <2>2
<1>4. ASSUME NEW k \in 1..n, k - 1 \in T PROVE k \in T
  <2>1. k \in 0..n /\ k - 1 \in 0..n /\ e[k] \in Nat /\ e[k - 1] \in Nat /\ e[i] \in Nat
    BY <1>1
  <2>2. CASE i <= k - 1
    <3>1. e[i] <= e[k - 1]
      BY <1>4, <2>2
    <3>2. e[k] = e[k - 1] + ps[k].len /\ ps[k].len \in Nat
      BY <1>2
    <3> DEFINE a == e[i]
               b == e[k - 1]
               c == e[k]
               d == ps[k].len
    <3>a. a \in Nat /\ b \in Nat /\ d \in Nat /\ a <= b /\ c = b + d
      BY <2>1, <3>1, <3>2
    <3> HIDE DEF a, b, c, d
    <3>b. a <= c
      BY <3>a
    <3>3. e[i] <= e[k]
      BY <3>b DEF a, c
    <3> QED BY <2>1, <3>3
  <2>3. CASE i = k
    BY <2>1, <2>3
  <2>4. CASE i > k
    BY <1>1, <2>1, <2>4
  <2> QED BY <1>1, <2>2, <2>3, <2>4
<1> HIDE DEF T
<1>5. j \in T
  BY <1>1, <1>3, <1>4, UpTo
<1> QED BY <1>5 DEF T, e

\* A sequence is what it was put together from.
LEMMA SidesCut ==
    ASSUME NEW u \in Seq(Ids), NEW v \in Seq(Ids)
    PROVE  /\ SubSeq(u \o v, 1, Len(u)) = u
           /\ SubSeq(u \o v, Len(u) + 1, Len(u \o v)) = v
<1> DEFINE s == u \o v
           a == Len(u)
           b == Len(v)
<1>1. /\ s \in Seq(Ids) /\ Len(s) = a + b /\ a \in Nat /\ b \in Nat
      /\ \A i \in 1..a : s[i] = u[i]
      /\ \A i \in 1..b : s[a + i] = v[i]
  BY SideBySide
<1> HIDE DEF s
<1>2. SubSeq(s, 1, a) = u
  <2>1. /\ SubSeq(s, 0 + 1, a) \in Seq(Ids) /\ Len(SubSeq(s, 0 + 1, a)) = a - 0
        /\ \A i \in 1..(a - 0) : SubSeq(s, 0 + 1, a)[i] = s[0 + i]
    BY <1>1, PartOf
  <2>2. /\ SubSeq(s, 1, a) \in Seq(Ids) /\ Len(SubSeq(s, 1, a)) = a
        /\ \A i \in 1..a : SubSeq(s, 1, a)[i] = u[i]
    BY <1>1, <2>1
  <2> QED BY <2>2, SameSequence
<1>3. SubSeq(s, a + 1, a + b) = v
  <2>1. /\ SubSeq(s, a + 1, a + b) \in Seq(Ids) /\ Len(SubSeq(s, a + 1, a + b)) = (a + b) - a
        /\ \A i \in 1..((a + b) - a) : SubSeq(s, a + 1, a + b)[i] = s[a + i]
    BY <1>1, PartOf
  <2>2. (a + b) - a = b
    BY <1>1
  <2>3. /\ SubSeq(s, a + 1, a + b) \in Seq(Ids) /\ Len(SubSeq(s, a + 1, a + b)) = b
        /\ \A i \in 1..b : SubSeq(s, a + 1, a + b)[i] = v[i]
    BY <1>1, <2>1, <2>2
  <2> QED BY <2>3, SameSequence
<1> QED BY <1>1, <1>2, <1>3 DEF s

\* A list that is cut between two pieces is cut where the first part ends.
LEMMA CutAt ==
    ASSUME NEW ps \in Seq(Pieces), NEW k \in 0..Len(ps)
    PROVE  LET front == SubSeq(ps, 1, k)
               back  == SubSeq(ps, k + 1, Len(ps))
               cells == CellsOf(ps)
           IN  /\ front \in Seq(Pieces) /\ back \in Seq(Pieces)
               /\ Len(front) = k /\ Len(back) = Len(ps) - k
               /\ \A i \in 1..k : front[i] = ps[i]
               /\ \A i \in 1..(Len(ps) - k) : back[i] = ps[k + i]
               /\ front \o back = ps
               /\ CellsOf(front) = SubSeq(cells, 1, Ends(ps)[k])
               /\ CellsOf(back) = SubSeq(cells, Ends(ps)[k] + 1, Len(cells))
<1> DEFINE n == Len(ps)
           front == SubSeq(ps, 1, k)
           back == SubSeq(ps, k + 1, n)
<1>0. n \in Nat /\ k \in Nat /\ k <= n
  OBVIOUS
<1>1. /\ front \in Seq(Pieces) /\ Len(front) = k
      /\ \A i \in 1..k : front[i] = ps[i]
  BY <1>0
<1>2. /\ back \in Seq(Pieces) /\ Len(back) = n - k
      /\ \A i \in 1..(n - k) : back[i] = ps[k + i]
  BY <1>0, PartOf
<1>3. front \o back = ps
  <2>1. SubSeq(ps, 0 + 1, k) \o SubSeq(ps, k + 1, n) = SubSeq(ps, 0 + 1, n)
    <3>1. 0 \in Nat /\ 0 <= k /\ n <= Len(ps)
      BY <1>0
    <3> HIDE DEF n
    <3> QED BY <1>0, <3>1, PartsMeet
  <2>2. SubSeq(ps, 1, n) = ps
    OBVIOUS
  <2>3. 0 + 1 = 1
    OBVIOUS
  <2> HIDE DEF n
  <2>4. SubSeq(ps, 1, k) \o SubSeq(ps, k + 1, n) = SubSeq(ps, 1, n)
    BY <2>1, <2>3
  <2> QED BY <2>2, <2>4
<1> HIDE DEF n, front, back
<1>4. CellsOf(ps) = CellsOf(front) \o CellsOf(back)
  BY <1>1, <1>2, <1>3, CellsBeside
<1>5. CellsOf(front) \in Seq(Ids) /\ CellsOf(back) \in Seq(Ids)
  BY <1>1, <1>2, CellsOfType
<1>6. Len(CellsOf(front)) = Ends(ps)[k]
  <2>1. k \in 0..k /\ k <= Len(front) /\ k <= Len(ps)
    BY <1>0, <1>1 DEF n
  <2>2. Ends(front)[k] = Ends(ps)[k]
    BY <1>0, <1>1, <2>1, SameStart
  <2> QED BY <1>1, <2>2, CellsOfType
<1>7. /\ SubSeq(CellsOf(ps), 1, Ends(ps)[k]) = CellsOf(front)
      /\ SubSeq(CellsOf(ps), Ends(ps)[k] + 1, Len(CellsOf(ps))) = CellsOf(back)
  BY <1>4, <1>5, <1>6, SidesCut, SMTT(20)
<1>8. /\ front \in Seq(Pieces) /\ back \in Seq(Pieces)
      /\ Len(front) = k /\ Len(back) = n - k
      /\ \A i \in 1..k : front[i] = ps[i]
      /\ \A i \in 1..(n - k) : back[i] = ps[k + i]
      /\ front \o back = ps
      /\ CellsOf(front) = SubSeq(CellsOf(ps), 1, Ends(ps)[k])
      /\ CellsOf(back) = SubSeq(CellsOf(ps), Ends(ps)[k] + 1, Len(CellsOf(ps)))
  BY <1>1, <1>2, <1>3, <1>7
<1> QED BY <1>8, Zenon DEF n, front, back

\* Where the cells of a piece are.
LEMMA CellAt ==
    ASSUME NEW ps \in Seq(Pieces), NEW k \in 1..Len(ps), NEW j \in 1..ps[k].len
    PROVE  /\ Ends(ps)[k - 1] + j \in 1..Len(CellsOf(ps))
           /\ CellsOf(ps)[Ends(ps)[k - 1] + j] = CellId(ps[k].source, ps[k].start + j - 1)
<1> DEFINE n == Len(ps)
           e == Ends(ps)
           front == SubSeq(ps, 1, k)
           back == SubSeq(ps, k + 1, n)
<1>1. /\ k \in 0..n /\ k - 1 \in 0..n /\ n \in Nat /\ k \in Nat
  OBVIOUS
<1>2. /\ front \in Seq(Pieces) /\ back \in Seq(Pieces) /\ Len(front) = k
      /\ \A i \in 1..k : front[i] = ps[i]
      /\ front \o back = ps
  BY <1>1, CutAt
<1> HIDE DEF front, back
<1>3. CellsOf(ps) = CellsOf(front) \o CellsOf(back)
  BY <1>2, CellsBeside
<1>4. CellsOf(front) = Joined(front)[k - 1] \o PieceCells(ps[k])
  <2>1. k \in 1..k
    BY <1>1
  <2>2. Joined(front)[k] = Joined(front)[k - 1] \o PieceCells(front[k])
    BY <1>2, <2>1, JoinedAre
  <2> QED BY <1>2, <2>1, <2>2 DEF CellsOf
<1> DEFINE a == Joined(front)[k - 1]
           b == PieceCells(ps[k])
           c == CellsOf(back)
<1>5. /\ a \in Seq(Ids) /\ Len(a) = e[k - 1] /\ e[k - 1] \in Nat
  <2>1. k - 1 \in 0..Len(front) /\ k <= Len(front) /\ k <= Len(ps) /\ k - 1 \in 0..k
    BY <1>1, <1>2
  <2>2. Ends(front)[k - 1] = Ends(ps)[k - 1]
    <3>1. \A i \in 0..k : Joined(front)[i] = Joined(ps)[i] /\ Ends(front)[i] = Ends(ps)[i]
      BY <1>1, <1>2, <2>1, SameStart, Zenon
    <3> QED BY <2>1, <3>1, Zenon
  <2> QED BY <1>2, <2>1, <2>2, JoinedLength
<1>6. /\ b \in Seq(Ids) /\ Len(b) = ps[k].len /\ ps[k].len \in Nat
      /\ b[j] = CellId(ps[k].source, ps[k].start + j - 1)
  BY PieceAt, CellsOfPiece
<1>7. c \in Seq(Ids)
  BY <1>2, CellsOfType
<1>8. CellsOf(ps) = (a \o b) \o c
  BY <1>3, <1>4
<1> HIDE DEF a, b, c, e
<1>9. a \o b \in Seq(Ids) /\ Len(a \o b) = Len(a) + Len(b)
  BY <1>5, <1>6, SideBySide
<1>10. e[k - 1] + j \in 1..(Len(a) + Len(b)) /\ e[k - 1] + j \in 1..(Len(a) + Len(b) + Len(c))
  <2> DEFINE x == e[k - 1]
             y == ps[k].len
             z == Len(c)
  <2>1. z \in Nat /\ x \in Nat /\ y \in Nat /\ j \in 1..y
    BY <1>5, <1>6, <1>7
  <2> HIDE DEF x, y, z
  <2>2. x + j \in 1..(x + y) /\ x + j \in 1..(x + y + z)
    BY <2>1
  <2> QED BY <1>5, <1>6, <2>2 DEF x, y, z
<1>11. (a \o b)[e[k - 1] + j] = b[j]
  <2>1. j \in 1..Len(b)
    BY <1>6
  <2>2. \A i \in 1..Len(b) : (a \o b)[Len(a) + i] = b[i]
    <3>1. a \in Seq(Ids) /\ b \in Seq(Ids)
      BY <1>5, <1>6
    <3> QED BY <3>1, SideBySide
  <2> QED BY <1>5, <2>1, <2>2
<1>12. ((a \o b) \o c)[e[k - 1] + j] = (a \o b)[e[k - 1] + j]
  <2>1. e[k - 1] + j \in 1..Len(a \o b)
    BY <1>9, <1>10
  <2> QED BY <1>7, <1>9, <2>1, SideBySide
<1>13. Len((a \o b) \o c) = Len(a) + Len(b) + Len(c)
  BY <1>7, <1>9, SideBySide
<1> QED BY <1>6, <1>8, <1>10, <1>11, <1>12, <1>13 DEF e

(***************************************************************************)
(* The prefix cache and the search in it                                   *)
(***************************************************************************)

TableType ==
    [addLen : Nat, pieces : Seq(Pieces), len : Nat, prefixEnds : Seq(Nat), prefixDirty : BOOLEAN]

\* What holds of a table between any two steps of a call: the length is that
\* of the pieces, none of which is empty or reaches past its source, and a
\* cache that is not stale is right.
Sized(t) ==
    /\ t \in TableType
    /\ t.len = Ends(t.pieces)[Len(t.pieces)]
    /\ Within(t.pieces, t.addLen) /\ Filled(t.pieces)
    /\ ~t.prefixDirty => t.prefixEnds = PrefixSums(t.pieces)

\* The fields of such a table, and the length it gives the document.
LEMMA SizedParts ==
    ASSUME NEW t, Sized(t)
    PROVE  /\ t.addLen \in Nat /\ t.pieces \in Seq(Pieces) /\ t.len \in Nat
           /\ t.prefixEnds \in Seq(Nat) /\ t.prefixDirty \in BOOLEAN
           /\ t.len = Ends(t.pieces)[Len(t.pieces)] /\ t.len = Len(CellsOf(t.pieces))
<1>1. t \in TableType
  BY DEF Sized
<1>2. t.pieces \in Seq(Pieces)
  BY <1>1 DEF TableType
<1>3. t.len = Ends(t.pieces)[Len(t.pieces)]
  BY DEF Sized
<1> QED BY <1>1, <1>2, <1>3, CellsOfType DEF TableType

\* What the cache holds.
LEMMA PrefixSumsAre ==
    ASSUME NEW ps \in Seq(Pieces)
    PROVE  /\ PrefixSums(ps) \in Seq(Nat) /\ Len(PrefixSums(ps)) = Len(ps)
           /\ DOMAIN PrefixSums(ps) = 1..Len(ps)
           /\ \A i \in 1..Len(ps) : PrefixSums(ps)[i] = Ends(ps)[i]
<1>1. \A i \in 1..Len(ps) : Ends(ps)[i] \in Nat
  <2>1. \A i \in 1..Len(ps) : i \in 0..Len(ps)
    OBVIOUS
  <2> QED BY <2>1, EndsAre
<1>2. Len(ps) \in Nat
  OBVIOUS
<1> QED BY <1>1, <1>2 DEF PrefixSums

\* A lookup rebuilds the cache and changes nothing else.
LEMMA EnsureIs ==
    ASSUME NEW t, Sized(t)
    PROVE  LET u == EnsurePrefix(t)
           IN  /\ Sized(u) /\ u.pieces = t.pieces /\ u.len = t.len /\ u.addLen = t.addLen
               /\ u.prefixEnds = PrefixSums(t.pieces)
<1> DEFINE u == EnsurePrefix(t)
<1>1. t \in TableType /\ t.pieces \in Seq(Pieces)
  BY SizedParts DEF Sized
<1>2. CASE t.prefixDirty
  <2>1. u = [t EXCEPT !.prefixEnds = PrefixSums(t.pieces), !.prefixDirty = FALSE]
    BY <1>2 DEF EnsurePrefix
  <2>2. PrefixSums(t.pieces) \in Seq(Nat)
    BY <1>1, PrefixSumsAre
  <2> HIDE DEF u
  <2>3. /\ u \in TableType /\ u.pieces = t.pieces /\ u.len = t.len /\ u.addLen = t.addLen
        /\ u.prefixEnds = PrefixSums(t.pieces)
    BY <1>1, <2>1, <2>2 DEF TableType
  <2>4. Sized(u)
    BY <2>3 DEF Sized
  <2> QED BY <2>3, <2>4 DEF u
<1>3. CASE ~t.prefixDirty
  <2>1. u = t
    BY <1>3 DEF EnsurePrefix
  <2>2. t.prefixEnds = PrefixSums(t.pieces)
    BY <1>3 DEF Sized
  <2> QED BY <2>1, <2>2
<1> QED BY <1>2, <1>3

\* The search finds the piece that has the offset.
LEMMA FindPieceIs ==
    ASSUME NEW t, Sized(t), t.prefixEnds = PrefixSums(t.pieces), NEW off \in Nat, off < t.len
    PROVE  LET k == FindPiece(t, off)
           IN  /\ k \in 1..Len(t.pieces)
               /\ Ends(t.pieces)[k - 1] <= off /\ off < Ends(t.pieces)[k]
               /\ PieceStart(t, k) = Ends(t.pieces)[k - 1]
<1> DEFINE ps == t.pieces
           n == Len(ps)
           e == Ends(ps)
           S == {i \in 1..n : off < e[i]}
<1>1. /\ ps \in Seq(Pieces) /\ n \in Nat /\ e \in [0..n -> Nat] /\ e[0] = 0
      /\ t.len = e[n] /\ t.len \in Nat
  BY SizedParts, EndsAre
<1>2. \A i, j \in 0..n : i <= j => e[i] <= e[j]
  BY <1>1, EndsGrow
<1>3. /\ DOMAIN t.prefixEnds = 1..n /\ \A i \in 1..n : t.prefixEnds[i] = e[i]
  BY <1>1, PrefixSumsAre
<1> HIDE DEF ps, n, e
<1>4. n \in S
  <2>1. n # 0
    BY <1>1
  <2> QED BY <1>1, <2>1
<1>5. PICK k \in S : \A i \in S : k <= i
  <2>1. S \in SUBSET Nat /\ S # {}
    BY <1>4
  <2> HIDE DEF S
  <2> QED BY <2>1, Order!LeastNatural
<1>6. k \in 1..n /\ off < e[k] /\ k - 1 \in 0..n /\ k \in 0..n /\ e[k - 1] \in Nat
  <2>1. k \in 1..n /\ off < e[k]
    OBVIOUS
  <2>2. k - 1 \in 0..n /\ k \in 0..n
    BY <1>1, <2>1
  <2> QED BY <1>1, <2>1, <2>2
<1>7. ASSUME NEW i \in 1..n PROVE e[i] <= off <=> i \in 1..(k - 1)
  <2>0. e[i] \in Nat /\ i \in 0..n /\ e[k] \in Nat
    BY <1>1, <1>6
  <2>1. CASE i \in 1..(k - 1)
    <3>1. ~(k <= i)
      BY <1>6, <2>1
    <3>2. i \notin S
      BY <1>5, <3>1
    <3>3. ~(off < e[i])
      BY <3>2
    <3> QED BY <2>0, <2>1, <3>3
  <2>2. CASE i \notin 1..(k - 1)
    <3>1. k <= i
      BY <1>6, <2>2
    <3>2. e[k] <= e[i]
      BY <1>2, <1>6, <2>0, <3>1
    <3> QED BY <1>6, <2>0, <2>2, <3>2
  <2> QED BY <2>1, <2>2
<1>8. {i \in DOMAIN t.prefixEnds : t.prefixEnds[i] <= off} = 1..(k - 1)
  <2>1. \A i \in 1..(k - 1) : i \in 1..n
    BY <1>1, <1>6
  <2> QED BY <1>3, <1>7, <2>1
<1>9. Cardinality(1..(k - 1)) = k - 1
  <2>1. 1 \in Int /\ k - 1 \in Int
    BY <1>6
  <2>2. Cardinality(1..(k - 1)) = IF 1 > k - 1 THEN 0 ELSE (k - 1) - 1 + 1
    BY <2>1, FS_Interval
  <2> QED BY <1>6, <2>2
<1>10. FindPiece(t, off) = k
  <2>1. Cardinality({i \in DOMAIN t.prefixEnds : t.prefixEnds[i] <= off}) + 1 = k
    <3>1. Cardinality({i \in DOMAIN t.prefixEnds : t.prefixEnds[i] <= off}) = k - 1
      BY <1>8, <1>9, Zenon
    <3>2. (k - 1) + 1 = k
      BY <1>6
    <3> QED BY <3>1, <3>2, Zenon
  <2>2. t.pieces # <<>>
    <3>1. n # 0
      BY <1>6
    <3> QED BY <3>1 DEF n, ps
  <2>3. ~(off >= t.len)
    BY <1>1
  <2>4. ~(k > Len(t.pieces))
    BY <1>1, <1>6 DEF n, ps
  <2> QED BY <2>1, <2>2, <2>3, <2>4, Zenon DEF FindPiece
<1>11. e[k - 1] <= off
  <2>1. CASE k = 1
    BY <1>1, <2>1
  <2>2. CASE k # 1
    <3>1. k - 1 \in 1..n /\ k - 1 \in 1..(k - 1)
      BY <1>1, <1>6, <2>2
    <3> QED BY <1>7, <3>1
  <2> QED BY <2>1, <2>2
<1>12. PieceStart(t, k) = e[k - 1]
  <2>1. CASE k = 1
    BY <1>1, <2>1 DEF PieceStart
  <2>2. CASE k # 1
    <3>1. k - 1 \in 1..n
      BY <1>1, <1>6, <2>2
    <3> QED BY <1>3, <2>2, <3>1 DEF PieceStart
  <2> QED BY <2>1, <2>2
<1>13. /\ k \in 1..Len(t.pieces)
       /\ Ends(t.pieces)[k - 1] <= off /\ off < Ends(t.pieces)[k]
       /\ PieceStart(t, k) = Ends(t.pieces)[k - 1]
  BY <1>6, <1>11, <1>12 DEF e, n, ps
<1> QED BY <1>10, <1>13

\* There is none at or behind the end.
LEMMA FindNothing ==
    ASSUME NEW t, NEW off, off >= t.len PROVE FindPiece(t, off) = 0
  BY DEF FindPiece

(***************************************************************************)
(* Splitting a piece                                                       *)
(***************************************************************************)

\* What a split of t at off may return: a table that describes the same
\* document, and the index of the piece that starts at off.
Splits(t, off, at) ==
    /\ Sized(at.t) /\ at.t.len = t.len /\ at.t.addLen = t.addLen
    /\ CellsOf(at.t.pieces) = CellsOf(t.pieces)
    /\ at.idx \in 1..(Len(at.t.pieces) + 1)
    /\ Ends(at.t.pieces)[at.idx - 1] = off

\* The pieces that end at or before off are those they were.
KeepsBefore(ps, off, qs) ==
    \A k \in 0..Len(ps) : Ends(ps)[k] <= off =>
        k <= Len(qs) /\ \A i \in 1..k : qs[i] = ps[i]

\* t with piece idx cut in two.
Halved(t, idx, cut) ==
    LET p      == t.pieces[idx]
        halves == <<Piece(p.source, p.start, cut),
                    Piece(p.source, p.start + cut, p.len - cut)>>
    IN  [t EXCEPT !.pieces = SubSeq(@, 1, idx - 1) \o halves
                             \o SubSeq(@, idx + 1, Len(@)),
                  !.prefixDirty = TRUE]

\* The pieces behind the two halves are those behind the piece that was cut.
LEMMA BehindCut ==
    ASSUME NEW n \in Nat, NEW idx \in 1..n, NEW i \in 1..(n + 1)
    PROVE  /\ i \in 1..(idx - 1) \/ i = idx \/ i = idx + 1 \/ i > idx + 1
           /\ i > idx + 1 => /\ i - (idx + 1) \in 1..(n - idx)
                             /\ idx + 1 + (i - (idx + 1)) = i
                             /\ idx + (i - (idx + 1)) \in 1..n
  OBVIOUS

\* It describes the same document.
LEMMA HalvedIs ==
    ASSUME NEW t, Sized(t), NEW idx \in 1..Len(t.pieces), NEW cut \in Nat,
           0 < cut, cut < t.pieces[idx].len
    PROVE  LET u == Halved(t, idx, cut)
           IN  /\ Sized(u) /\ u.len = t.len /\ u.addLen = t.addLen
               /\ CellsOf(u.pieces) = CellsOf(t.pieces)
               /\ Len(u.pieces) = Len(t.pieces) + 1
               /\ \A i \in 1..(idx - 1) : u.pieces[i] = t.pieces[i]
               /\ Ends(u.pieces)[idx] = Ends(t.pieces)[idx - 1] + cut
<1> DEFINE ps == t.pieces
           n == Len(ps)
           p == ps[idx]
           l == Piece(p.source, p.start, cut)
           r == Piece(p.source, p.start + cut, p.len - cut)
           halves == <<l, r>>
           front == SubSeq(ps, 1, idx - 1)
           back == SubSeq(ps, idx + 1, n)
           qs == (front \o halves) \o back
           u == Halved(t, idx, cut)
<1>1. /\ ps \in Seq(Pieces) /\ n \in Nat /\ idx \in 1..n /\ t.addLen \in Nat
      /\ t \in TableType
  BY SizedParts DEF Sized
<1>2. /\ p \in Pieces /\ p.source \in Sources /\ p.start \in Nat /\ p.len \in Nat
      /\ p = Piece(p.source, p.start, p.len)
  BY <1>1, PieceAt
<1>3. p.len - cut \in Nat /\ cut + (p.len - cut) = p.len /\ p.len - cut > 0
      /\ cut < p.len
  <2> DEFINE b == p.len
  <2>1. b \in Nat /\ cut < b
    BY <1>2
  <2> HIDE DEF b
  <2>2. b - cut \in Nat /\ cut + (b - cut) = b /\ b - cut > 0
    BY <2>1
  <2> QED BY <2>1, <2>2 DEF b
<1>4. u = [t EXCEPT !.pieces = qs, !.prefixDirty = TRUE]
  BY DEF Halved
<1>5. /\ l \in Pieces /\ l.source = p.source /\ l.start = p.start /\ l.len = cut
      /\ r \in Pieces /\ r.source = p.source /\ r.start = p.start + cut
      /\ r.len = p.len - cut
  BY <1>2, <1>3 DEF Piece, Pieces
<1>6. PieceCells(p) = PieceCells(l) \o PieceCells(r)
  <2> DEFINE src == p.source
             start == p.start
             b == p.len - cut
  <2>1. src \in Sources /\ start \in Nat /\ b \in Nat
    BY <1>2, <1>3
  <2> HIDE DEF src, start, b
  <2>2. PieceCells(Piece(src, start, cut + b)) =
          PieceCells(Piece(src, start, cut)) \o PieceCells(Piece(src, start + cut, b))
    BY <2>1, PieceCut
  <2>3. Piece(src, start, cut + b) = p
    BY <1>2, <1>3 DEF src, start, b
  <2>4. l = Piece(src, start, cut) /\ r = Piece(src, start + cut, b)
    BY DEF src, start, b
  <2> HIDE DEF p, l, r
  <2> QED BY <2>2, <2>3, <2>4
<1>7. /\ front \in Seq(Pieces) /\ Len(front) = idx - 1
      /\ \A i \in 1..(idx - 1) : front[i] = ps[i]
  <2>1. idx - 1 \in 0..n
    BY <1>1
  <2> QED BY <1>1, <2>1, CutAt
<1>8. /\ back \in Seq(Pieces) /\ Len(back) = n - idx
      /\ \A i \in 1..(n - idx) : back[i] = ps[idx + i]
  <2>1. idx \in 0..n
    BY <1>1
  <2> QED BY <1>1, <2>1, CutAt
<1>9. /\ halves \in Seq(Pieces) /\ Len(halves) = 2 /\ halves[1] = l /\ halves[2] = r
  BY <1>5
<1> HIDE DEF ps, n, l, r, halves, front, back, u
<1>10. /\ front \o halves \in Seq(Pieces) /\ Len(front \o halves) = idx + 1
       /\ \A i \in 1..(idx - 1) : (front \o halves)[i] = ps[i]
       /\ (front \o halves)[idx] = l /\ (front \o halves)[idx + 1] = r
  <2>1. /\ front \o halves \in Seq(Pieces) /\ Len(front \o halves) = (idx - 1) + 2
        /\ \A i \in 1..(idx - 1) : (front \o halves)[i] = front[i]
        /\ \A i \in 1..2 : (front \o halves)[(idx - 1) + i] = halves[i]
    <3>1. front \in Seq(Pieces) /\ halves \in Seq(Pieces)
      BY <1>7, <1>9
    <3>2. \A a, b : Len(front) = a /\ Len(halves) = b =>
             /\ front \o halves \in Seq(Pieces) /\ Len(front \o halves) = a + b
             /\ \A i \in 1..a : (front \o halves)[i] = front[i]
             /\ \A i \in 1..b : (front \o halves)[a + i] = halves[i]
      BY <3>1, SideByLength
    <3> QED BY <1>7, <1>9, <3>2, ZenonT(40)
  <2>2. /\ (idx - 1) + 2 = idx + 1 /\ (idx - 1) + 1 = idx /\ 1 \in 1..2 /\ 2 \in 1..2
    BY <1>1
  <2>3. /\ (front \o halves)[(idx - 1) + 1] = l /\ (front \o halves)[(idx - 1) + 2] = r
    BY <1>9, <2>1, <2>2
  <2> QED BY <1>7, <2>1, <2>2, <2>3
<1>11. /\ qs \in Seq(Pieces) /\ Len(qs) = n + 1
       /\ \A i \in 1..(idx - 1) : qs[i] = ps[i]
       /\ qs[idx] = l /\ qs[idx + 1] = r
       /\ \A i \in 1..(n - idx) : qs[idx + 1 + i] = ps[idx + i]
  <2>1. /\ qs \in Seq(Pieces) /\ Len(qs) = (idx + 1) + (n - idx)
        /\ \A i \in 1..(idx + 1) : qs[i] = (front \o halves)[i]
        /\ \A i \in 1..(n - idx) : qs[(idx + 1) + i] = back[i]
    <3> DEFINE g == front \o halves
    <3>1. g \in Seq(Pieces) /\ back \in Seq(Pieces) /\ Len(g) = idx + 1
          /\ Len(back) = n - idx
      BY <1>8, <1>10
    <3> HIDE DEF g
    <3>2. \A a, b : Len(g) = a /\ Len(back) = b =>
             /\ g \o back \in Seq(Pieces) /\ Len(g \o back) = a + b
             /\ \A i \in 1..a : (g \o back)[i] = g[i]
             /\ \A i \in 1..b : (g \o back)[a + i] = back[i]
      BY <3>1, SideByLength
    <3>3. /\ g \o back \in Seq(Pieces) /\ Len(g \o back) = (idx + 1) + (n - idx)
          /\ \A i \in 1..(idx + 1) : (g \o back)[i] = g[i]
          /\ \A i \in 1..(n - idx) : (g \o back)[(idx + 1) + i] = back[i]
      BY <3>1, <3>2, Zenon
    <3> QED BY <3>3 DEF g
  <2>2. /\ (idx + 1) + (n - idx) = n + 1 /\ idx \in 1..(idx + 1) /\ idx + 1 \in 1..(idx + 1)
        /\ \A i \in 1..(idx - 1) : i \in 1..(idx + 1)
    <3>1. idx \in Nat /\ n \in Nat
      BY <1>1
    <3> HIDE DEF p
    <3> QED BY <3>1
  <2> HIDE DEF qs
  <2>3. qs[idx] = l /\ qs[idx + 1] = r
    BY <1>10, <2>1, <2>2
  <2>4. \A i \in 1..(idx - 1) : qs[i] = ps[i]
    BY <1>10, <2>1, <2>2
  <2> QED BY <1>8, <2>1, <2>2, <2>3, <2>4
<1>12. CellsOf(qs) = CellsOf(ps)
  <2>1. CellsOf(qs) = (CellsOf(front) \o CellsOf(halves)) \o CellsOf(back)
    <3>1. CellsOf(qs) = CellsOf(front \o halves) \o CellsOf(back)
      BY <1>8, <1>10, CellsBeside
    <3>2. CellsOf(front \o halves) = CellsOf(front) \o CellsOf(halves)
      BY <1>7, <1>9, CellsBeside
    <3> QED BY <3>1, <3>2, Zenon
  <2>2. CellsOf(halves) = PieceCells(p)
    <3>1. halves = <<l>> \o <<r>> /\ <<l>> \in Seq(Pieces) /\ <<r>> \in Seq(Pieces)
      <4>1. <<l>> \in Seq(Pieces) /\ <<r>> \in Seq(Pieces)
        BY <1>5
      <4>2. halves = <<l>> \o <<r>>
        <5>1. /\ <<l>> \o <<r>> \in Seq(Pieces) /\ Len(<<l>> \o <<r>>) = 2
              /\ (<<l>> \o <<r>>)[1] = l /\ (<<l>> \o <<r>>)[2] = r
          BY <4>1
        <5>2. \A i \in 1..2 : halves[i] = (<<l>> \o <<r>>)[i]
          BY <1>9, <5>1
        <5> QED BY <1>9, <5>1, <5>2, SameSequence
      <4> QED BY <4>1, <4>2
    <3>2. CellsOf(halves) = CellsOf(<<l>>) \o CellsOf(<<r>>)
      BY <3>1, CellsBeside
    <3> QED BY <1>5, <1>6, <3>2, CellsOfOne
  <2>3. CellsOf(ps) = (CellsOf(front) \o PieceCells(p)) \o CellsOf(back)
    <3>1. front \o <<p>> = SubSeq(ps, 1, idx)
      <4>1. /\ 0 \in Nat /\ idx - 1 \in Nat /\ idx \in Nat /\ 0 <= idx - 1 /\ idx - 1 <= idx
            /\ idx <= Len(ps) /\ (idx - 1) + 1 = idx /\ 0 + 1 = 1
        BY <1>1 DEF n
      <4>2. SubSeq(ps, 0 + 1, idx - 1) \o SubSeq(ps, (idx - 1) + 1, idx)
               = SubSeq(ps, 0 + 1, idx)
        <5> DEFINE j == idx - 1
        <5>1. j \in Nat /\ 0 <= j /\ j <= idx
          BY <4>1
        <5> HIDE DEF j
        <5>2. SubSeq(ps, 0 + 1, j) \o SubSeq(ps, j + 1, idx) = SubSeq(ps, 0 + 1, idx)
          <6>1. ps \in Seq(Pieces) /\ 0 \in Nat /\ j \in Nat /\ idx \in Nat
                /\ 0 <= j /\ j <= idx /\ idx <= Len(ps)
            BY <1>1, <4>1, <5>1
          <6> HIDE DEF p
          <6> QED BY <6>1, PartsMeet
        <5> QED BY <5>2 DEF j
      <4>3. SubSeq(ps, idx, idx) = <<p>>
        <5>1. Len(SubSeq(ps, idx, idx)) = 1 /\ SubSeq(ps, idx, idx)[1] = ps[idx]
              /\ SubSeq(ps, idx, idx) \in Seq(Pieces)
          <6> HIDE DEF p
          <6>1. idx \in 1..Len(ps)
            BY <1>1 DEF n
          <6> QED BY <1>1, <6>1
        <5>2. <<p>> \in Seq(Pieces) /\ Len(<<p>>) = 1 /\ <<p>>[1] = ps[idx]
          BY <1>2
        <5>3. \A i \in 1..1 : SubSeq(ps, idx, idx)[i] = <<p>>[i]
          BY <5>1, <5>2
        <5> QED BY <5>1, <5>2, <5>3, SameSequence
      <4> QED BY <4>1, <4>2, <4>3 DEF front
    <3>2. idx \in 0..Len(ps)
      BY <1>1 DEF n
    <3>3. SubSeq(ps, 1, idx) \o back = ps /\ SubSeq(ps, 1, idx) \in Seq(Pieces)
      BY <1>1, <3>2, CutAt DEF back, n
    <3>4. <<p>> \in Seq(Pieces)
      BY <1>2
    <3>5. CellsOf(ps) = CellsOf(front \o <<p>>) \o CellsOf(back)
      BY <1>8, <3>1, <3>3, CellsBeside
    <3>6. CellsOf(front \o <<p>>) = CellsOf(front) \o CellsOf(<<p>>)
      BY <1>7, <3>4, CellsBeside
    <3> QED BY <1>2, <3>5, <3>6, CellsOfOne
  <2> QED BY <2>1, <2>2, <2>3
<1>13. Ends(qs)[idx] = Ends(ps)[idx - 1] + cut
  <2>1. /\ idx - 1 \in Nat /\ idx - 1 <= Len(ps) /\ idx - 1 <= Len(qs) /\ idx \in 1..Len(qs)
        /\ idx - 1 \in 0..(idx - 1)
    <3>1. idx \in Nat /\ n \in Nat /\ Len(ps) = n /\ Len(qs) = n + 1
      BY <1>1, <1>11 DEF n
    <3> HIDE DEF qs, n
    <3> QED BY <1>1, <3>1
  <2> HIDE DEF qs
  <2>2. Ends(qs)[idx - 1] = Ends(ps)[idx - 1]
    BY <1>1, <1>11, <2>1, SameStart
  <2>3. Ends(qs)[idx] = Ends(qs)[idx - 1] + qs[idx].len
    BY <1>11, <2>1, EndsAre
  <2> QED BY <1>5, <1>11, <2>2, <2>3
<1>14. ASSUME NEW i \in 1..(n + 1)
       PROVE  /\ qs[i].start + qs[i].len <= Limit(qs[i].source, t.addLen)
              /\ qs[i].len > 0
  <2> DEFINE lim == Limit(p.source, t.addLen)
  <2>0. /\ \A k \in 1..n : ps[k].start + ps[k].len <= Limit(ps[k].source, t.addLen)
        /\ \A k \in 1..n : ps[k].len > 0
    BY DEF Sized, Within, Filled, ps, n
  <2>a. p.start + p.len <= Limit(p.source, t.addLen)
    BY <1>1, <2>0
  <2>b. Limit(p.source, t.addLen) \in Nat
    <3>1. OriginalLen \in Nat
      BY TableConstants
    <3> QED BY <1>1, <3>1 DEF Limit
  <2> HIDE DEF qs
  <2>1. CASE i \in 1..(idx - 1)
    <3>1. i \in 1..n
      BY <1>1, <2>1
    <3> QED BY <1>11, <2>0, <2>1, <3>1
  <2>2. CASE i = idx
    <3> DEFINE a == p.start
               b == p.len
               c == Limit(p.source, t.addLen)
    <3>1. a \in Nat /\ b \in Nat /\ c \in Nat /\ cut < b /\ a + b <= c
      BY <1>2, <1>3, <2>a, <2>b
    <3> HIDE DEF a, b, c
    <3>2. a + cut <= c /\ cut > 0
      BY <3>1
    <3> QED BY <1>5, <1>11, <2>2, <3>2 DEF a, c
  <2>3. CASE i = idx + 1
    <3> DEFINE a == p.start
               b == p.len
               c == Limit(p.source, t.addLen)
    <3>1. a \in Nat /\ b \in Nat /\ c \in Nat /\ cut < b /\ a + b <= c
      BY <1>2, <1>3, <2>a, <2>b
    <3> HIDE DEF a, b, c
    <3>2. a + cut + (b - cut) <= c /\ b - cut > 0
      BY <3>1
    <3> QED BY <1>5, <1>11, <2>3, <3>2 DEF a, b, c
  <2>4. CASE i > idx + 1
    <3>1. i - (idx + 1) \in 1..(n - idx) /\ idx + 1 + (i - (idx + 1)) = i
          /\ idx + (i - (idx + 1)) \in 1..n
      BY <1>1, <2>4, BehindCut
    <3>2. qs[i] = ps[idx + (i - (idx + 1))]
      BY <1>11, <3>1
    <3> QED BY <2>0, <3>1, <3>2
  <2>5. i \in 1..(idx - 1) \/ i = idx \/ i = idx + 1 \/ i > idx + 1
    BY <1>1, BehindCut
  <2> QED BY <2>1, <2>2, <2>3, <2>4, <2>5
<1> HIDE DEF qs
<1>15. /\ u \in TableType /\ u.pieces = qs /\ u.len = t.len /\ u.addLen = t.addLen
       /\ u.prefixDirty = TRUE
  BY <1>1, <1>4, <1>11 DEF TableType
<1>16. Sized(u)
  <2>1. t.len = Len(CellsOf(ps))
    BY SizedParts DEF ps
  <2>2. u.len = Ends(u.pieces)[Len(u.pieces)]
    <3>1. Len(CellsOf(qs)) = Ends(qs)[Len(qs)]
      BY <1>11, CellsOfType
    <3> QED BY <1>12, <1>15, <2>1, <3>1
  <2>3. Within(u.pieces, u.addLen) /\ Filled(u.pieces)
    <3>1. Within(qs, t.addLen) /\ Filled(qs)
      BY <1>11, <1>14 DEF Within, Filled
    <3> QED BY <1>15, <3>1
  <2> QED BY <1>15, <2>2, <2>3 DEF Sized
<1> QED BY <1>11, <1>12, <1>13, <1>15, <1>16 DEF ps, n, u

\* A table that is not split describes the same document.
LEMMA SplitsNothing ==
    ASSUME NEW t, Sized(t), NEW u, Sized(u), u.pieces = t.pieces, u.len = t.len,
           u.addLen = t.addLen, NEW k \in 1..(Len(t.pieces) + 1), NEW off,
           Ends(t.pieces)[k - 1] = off
    PROVE  Splits(t, off, [t |-> u, idx |-> k]) /\ KeepsBefore(t.pieces, off, u.pieces)
<1>1. Splits(t, off, [t |-> u, idx |-> k])
  BY DEF Splits
<1>2. KeepsBefore(t.pieces, off, u.pieces)
  <2>1. t.pieces \in Seq(Pieces)
    BY SizedParts
  <2>2. Len(t.pieces) \in Nat
    BY <2>1
  <2> QED BY <2>2 DEF KeepsBefore
<1> QED BY <1>1, <1>2

\* split_piece_at.
LEMMA SplitIs ==
    ASSUME NEW t, Sized(t), NEW off \in Nat, off <= t.len
    PROVE  LET at == SplitPieceAt(t, off)
           IN  Splits(t, off, at) /\ KeepsBefore(t.pieces, off, at.t.pieces)
<1> DEFINE at == SplitPieceAt(t, off)
           ps == t.pieces
           n == Len(ps)
           Good(x) == Splits(t, off, x) /\ KeepsBefore(ps, off, x.t.pieces)
<1>1. /\ ps \in Seq(Pieces) /\ n \in Nat /\ t.len \in Nat /\ t.len = Ends(ps)[n]
      /\ Ends(ps)[0] = 0
  BY SizedParts, EndsAre
<1>2. CASE off = 0
  <2>1. at = [t |-> t, idx |-> 1]
    BY <1>2 DEF SplitPieceAt
  <2>2. 1 \in 1..(n + 1) /\ 1 - 1 = 0
    BY <1>1
  <2>3. Good([t |-> t, idx |-> 1])
    BY <1>1, <1>2, <2>2, SplitsNothing
  <2> QED BY <2>1, <2>3
<1>3. CASE off # 0 /\ off >= t.len
  <2>1. at = [t |-> t, idx |-> n + 1]
    BY <1>3 DEF SplitPieceAt
  <2>2. n + 1 \in 1..(n + 1) /\ (n + 1) - 1 = n /\ off = t.len
    BY <1>1, <1>3
  <2>3. Ends(ps)[(n + 1) - 1] = off
    BY <1>1, <2>2
  <2>4. Good([t |-> t, idx |-> n + 1])
    BY <2>2, <2>3, SplitsNothing
  <2> QED BY <2>1, <2>4
<1>4. CASE off # 0 /\ ~(off >= t.len)
  <2> DEFINE u == EnsurePrefix(t)
             k == FindPiece(u, off)
             p == u.pieces[k]
             left == off - PieceStart(u, k)
  <2>1. /\ Sized(u) /\ u.pieces = ps /\ u.len = t.len /\ u.addLen = t.addLen
        /\ u.prefixEnds = PrefixSums(u.pieces)
    BY EnsureIs
  <2>2. off < u.len
    BY <1>1, <1>4, <2>1
  <2> HIDE DEF u
  <2>3. /\ k \in 1..Len(u.pieces) /\ Ends(u.pieces)[k - 1] <= off
        /\ off < Ends(u.pieces)[k] /\ PieceStart(u, k) = Ends(u.pieces)[k - 1]
    BY <2>1, <2>2, FindPieceIs
  <2> HIDE DEF k
  <2>4. k \in 1..n /\ k \in 0..n /\ k - 1 \in 0..n /\ k \in Nat
    BY <1>1, <2>1, <2>3
  <2>5. /\ Ends(ps)[k - 1] \in Nat /\ Ends(ps)[k] = Ends(ps)[k - 1] + p.len
        /\ p.len \in Nat
    BY <1>1, <2>1, <2>4, EndsAre, PieceAt
  <2>6. left \in Nat /\ left < p.len /\ Ends(ps)[k - 1] + left = off
    <3> DEFINE a == Ends(ps)[k - 1]
               b == p.len
    <3>1. a \in Nat /\ b \in Nat /\ a <= off /\ off < a + b /\ left = off - a
      BY <2>1, <2>3, <2>5
    <3> HIDE DEF a, b, left
    <3>2. left \in Nat /\ left < b /\ a + left = off
      BY <3>1
    <3> QED BY <3>2 DEF a, b
  <2>7. CASE left = 0
    <3>1. at = [t |-> u, idx |-> k]
      <4>1. k # 0
        BY <2>4
      <4> QED BY <1>4, <2>7, <4>1, Zenon DEF SplitPieceAt, u, k
    <3>2. Ends(ps)[k - 1] = off
      BY <2>5, <2>6, <2>7
    <3>3. k \in 1..(n + 1)
      BY <2>4
    <3>4. Good([t |-> u, idx |-> k])
      BY <2>1, <3>2, <3>3, SplitsNothing
    <3> QED BY <3>1, <3>4
  <2>8. CASE left # 0
    <3> DEFINE v == Halved(u, k, left)
    <3>1. at = [t |-> v, idx |-> k + 1]
      <4>1. k # 0 /\ left # p.len
        BY <2>4, <2>5, <2>6
      <4> QED BY <1>4, <2>8, <4>1, Zenon DEF SplitPieceAt, Halved, u, k
    <3> HIDE DEF left
    <3>2. /\ Sized(v) /\ v.len = u.len /\ v.addLen = u.addLen
          /\ CellsOf(v.pieces) = CellsOf(u.pieces)
          /\ Len(v.pieces) = Len(u.pieces) + 1
          /\ \A i \in 1..(k - 1) : v.pieces[i] = u.pieces[i]
          /\ Ends(v.pieces)[k] = Ends(u.pieces)[k - 1] + left
      <4>1. 0 < left /\ left < u.pieces[k].len /\ left \in Nat
        BY <2>6, <2>8
      <4> HIDE DEF p
      <4> QED BY <2>1, <2>3, <4>1, HalvedIs
    <3> HIDE DEF v
    <3>3. k + 1 \in 1..(Len(v.pieces) + 1) /\ (k + 1) - 1 = k
      BY <1>1, <2>1, <2>4, <3>2
    <3>4. Ends(v.pieces)[k] = off
      BY <2>1, <2>6, <3>2
    <3>5. Splits(t, off, [t |-> v, idx |-> k + 1])
      BY <2>1, <3>2, <3>3, <3>4 DEF Splits
    <3>6. KeepsBefore(ps, off, v.pieces)
      <4> SUFFICES ASSUME NEW j \in 0..n, Ends(ps)[j] <= off
                   PROVE  j <= Len(v.pieces) /\ \A i \in 1..j : v.pieces[i] = ps[i]
        BY DEF KeepsBefore
      <4>1. ~(k <= j)
        <5>1. ASSUME k <= j PROVE FALSE
          <6>1. Ends(ps)[k] <= Ends(ps)[j]
            BY <1>1, <2>4, <5>1, EndsGrow
          <6>2. Ends(ps)[j] \in Nat /\ Ends(ps)[k] \in Nat /\ off < Ends(ps)[k]
            BY <1>1, <2>1, <2>3, <2>4, EndsAre
          <6> QED BY <6>1, <6>2
        <5> QED BY <5>1
      <4>2. j <= n + 1 /\ \A i \in 1..j : i \in 1..(k - 1)
        BY <1>1, <2>4, <4>1
      <4> QED BY <2>1, <3>2, <4>2
    <3> QED BY <3>1, <3>5, <3>6
  <2> QED BY <2>7, <2>8
<1> QED BY <1>2, <1>3, <1>4

(***************************************************************************)
(* Rebuilding a table                                                      *)
(***************************************************************************)

\* A table between two calls: its neighbours are merged as well.
Settled(t) == Sized(t) /\ Parted(t.pieces)

\* Pieces side by side, and some of them, are within their sources.
LEMMA WithinBeside ==
    ASSUME NEW ps \in Seq(Pieces), NEW qs \in Seq(Pieces), NEW add,
           Within(ps, add), Within(qs, add)
    PROVE  Within(ps \o qs, add)
<1> DEFINE us == ps \o qs
<1>1. /\ us \in Seq(Pieces) /\ Len(us) = Len(ps) + Len(qs)
      /\ \A i \in 1..Len(ps) : us[i] = ps[i]
      /\ \A i \in 1..Len(qs) : us[Len(ps) + i] = qs[i]
  BY SideBySide
<1> HIDE DEF us
<1>2. ASSUME NEW i \in 1..Len(us)
      PROVE  us[i].start + us[i].len <= Limit(us[i].source, add)
  <2>0. Len(ps) \in Nat /\ Len(qs) \in Nat
    OBVIOUS
  <2>1. CASE i <= Len(ps)
    <3>1. i \in 1..Len(ps)
      BY <2>1
    <3> QED BY <1>1, <3>1 DEF Within
  <2>2. CASE ~(i <= Len(ps))
    <3>1. i - Len(ps) \in 1..Len(qs) /\ Len(ps) + (i - Len(ps)) = i
      BY <1>1, <2>0, <2>2
    <3>2. us[i] = qs[i - Len(ps)]
      BY <1>1, <3>1
    <3> QED BY <3>1, <3>2 DEF Within
  <2> QED BY <2>1, <2>2
<1> QED BY <1>2 DEF Within, us

\* Nor does any part of such a list.
LEMMA WithinPart ==
    ASSUME NEW ps \in Seq(Pieces), NEW k \in 0..Len(ps), NEW add, Within(ps, add)
    PROVE  /\ Within(SubSeq(ps, 1, k), add)
           /\ Within(SubSeq(ps, k + 1, Len(ps)), add)
<1> DEFINE front == SubSeq(ps, 1, k)
           back == SubSeq(ps, k + 1, Len(ps))
<1>1. /\ Len(front) = k /\ Len(back) = Len(ps) - k
      /\ \A i \in 1..k : front[i] = ps[i]
      /\ \A i \in 1..(Len(ps) - k) : back[i] = ps[k + i]
  BY CutAt
<1> HIDE DEF front, back
<1>2. Len(ps) \in Nat
  OBVIOUS
<1>3. Within(front, add)
  <2>1. \A i \in 1..k : i \in 1..Len(ps)
    BY <1>2
  <2> QED BY <1>1, <2>1 DEF Within
<1>4. Within(back, add)
  <2>1. \A i \in 1..(Len(ps) - k) : k + i \in 1..Len(ps)
    BY <1>2
  <2> QED BY <1>1, <2>1 DEF Within
<1> QED BY <1>3, <1>4 DEF front, back

\* The last step of a change: neighbours are merged, the length is set and
\* the cache is marked stale.
Rebuilt(t, ws, m) == [t EXCEPT !.pieces = Coalesce(ws), !.len = m, !.prefixDirty = TRUE]

\* Coalescing a list of pieces leaves a table settled, with the same cells.
LEMMA RebuiltIs ==
    ASSUME NEW t, Sized(t), NEW ws \in Seq(Pieces), Within(ws, t.addLen),
           NEW m, m = Len(CellsOf(ws))
    PROVE  LET u == Rebuilt(t, ws, m)
           IN  /\ Settled(u) /\ u.addLen = t.addLen /\ u.len = m
               /\ CellsOf(u.pieces) = CellsOf(ws)
<1> DEFINE u == Rebuilt(t, ws, m)
           qs == Coalesce(ws)
<1>1. t \in TableType /\ t.addLen \in Nat
  BY SizedParts DEF Sized
<1>2. qs \in Seq(Pieces) /\ Tidy(qs, t.addLen) /\ CellsOf(qs) = CellsOf(ws)
  BY <1>1, TableConstants, CoalesceIs
<1>3. CellsOf(qs) \in Seq(Ids) /\ m = Ends(qs)[Len(qs)] /\ m \in Nat
  <2>1. CellsOf(qs) \in Seq(Ids) /\ Len(CellsOf(qs)) = Ends(qs)[Len(qs)]
    BY <1>2, CellsOfType
  <2>2. Len(CellsOf(qs)) \in Nat
    BY <2>1
  <2> QED BY <1>2, <2>1, <2>2
<1> HIDE DEF qs
<1>4. u = [t EXCEPT !.pieces = qs, !.len = m, !.prefixDirty = TRUE]
  BY DEF qs, Rebuilt
<1>5. /\ u \in TableType /\ u.pieces = qs /\ u.len = m /\ u.addLen = t.addLen
      /\ u.prefixDirty = TRUE
  BY <1>1, <1>2, <1>3, <1>4 DEF TableType
<1> HIDE DEF u
<1>6. Settled(u)
  BY <1>2, <1>3, <1>5 DEF Settled, Sized, Tidy
<1> QED BY <1>2, <1>5, <1>6 DEF u

\* Where a list of cells is cut, the lengths of its parts add up.
LEMMA PartLengths ==
    ASSUME NEW s \in Seq(Ids), NEW o \in Nat, o <= Len(s)
    PROVE  /\ SubSeq(s, 1, o) \in Seq(Ids) /\ Len(SubSeq(s, 1, o)) = o
           /\ SubSeq(s, o + 1, Len(s)) \in Seq(Ids)
           /\ Len(SubSeq(s, o + 1, Len(s))) = Len(s) - o
  BY PartOf

\* How long a document is that n cells have been placed in.
LEMMA LengthLeft ==
    ASSUME NEW o \in Nat, NEW n \in Nat, NEW l \in Nat PROVE (o + n) + (l - o) = l + n
  OBVIOUS

\* The document with cells put in at o.
SplicedIn(s, o, t) == (SubSeq(s, 1, o) \o t) \o SubSeq(s, o + 1, Len(s))

\* Pieces are placed at an offset: their cells are, and all others stay.
LEMMA SpliceIs ==
    ASSUME NEW t, Sized(t), NEW off \in Nat, NEW ps \in Seq(Pieces), Within(ps, t.addLen),
           NEW n, n = Len(CellsOf(ps)), NEW o, o = IF off < t.len THEN off ELSE t.len
    PROVE  LET u == SplicePieces(t, off, ps, n)
           IN  /\ Settled(u) /\ u.addLen = t.addLen
               /\ CellsOf(u.pieces) = SplicedIn(CellsOf(t.pieces), o, CellsOf(ps))
<1> DEFINE at == SplitPieceAt(t, o)
           v == at.t
           qs == v.pieces
           k == at.idx - 1
           c == CellsOf(t.pieces)
           front == SubSeq(qs, 1, k)
           back == SubSeq(qs, k + 1, Len(qs))
           ws == (front \o ps) \o back
<1>1. t.len \in Nat /\ t.len = Len(c) /\ c \in Seq(Ids) /\ o \in Nat /\ o <= t.len
  BY SizedParts, CellsOfType
<1>2. Splits(t, o, at)
  BY <1>1, SplitIs
<1> HIDE DEF at
<1>3. /\ Sized(v) /\ v.len = t.len /\ v.addLen = t.addLen /\ CellsOf(qs) = c
      /\ at.idx \in 1..(Len(qs) + 1) /\ Ends(qs)[k] = o
  BY <1>2 DEF Splits
<1> HIDE DEF v
<1>4. qs \in Seq(Pieces) /\ Len(qs) \in Nat /\ Within(qs, t.addLen)
  <2>1. qs \in Seq(Pieces)
    BY <1>3, SizedParts
  <2>2. Within(qs, v.addLen)
    BY <1>3 DEF Sized
  <2>3. Len(qs) \in Nat
    BY <2>1
  <2> QED BY <1>3, <2>1, <2>2, <2>3
<1>5. k \in 0..Len(qs) /\ k + 1 = at.idx
  <2> DEFINE i == at.idx
             l == Len(qs)
  <2>1. i \in 1..(l + 1) /\ l \in Nat
    BY <1>3, <1>4
  <2> HIDE DEF i, l
  <2>2. i - 1 \in 0..l /\ (i - 1) + 1 = i
    BY <2>1
  <2> QED BY <2>2 DEF i, l
<1> HIDE DEF k, qs
<1>6. /\ front \in Seq(Pieces) /\ back \in Seq(Pieces)
      /\ CellsOf(front) = SubSeq(c, 1, o) /\ CellsOf(back) = SubSeq(c, o + 1, Len(c))
  <2>1. /\ front \in Seq(Pieces) /\ back \in Seq(Pieces)
        /\ CellsOf(front) = SubSeq(CellsOf(qs), 1, Ends(qs)[k])
        /\ CellsOf(back) = SubSeq(CellsOf(qs), Ends(qs)[k] + 1, Len(CellsOf(qs)))
    BY <1>4, <1>5, CutAt
  <2> HIDE DEF front, back, c
  <2>2. CellsOf(qs) = c /\ Ends(qs)[k] = o
    BY <1>3 DEF k, c
  <2> QED BY <2>1, <2>2, Zenon
<1>7. Within(front, t.addLen) /\ Within(back, t.addLen)
  BY <1>4, <1>5, WithinPart
<1>8. SplicePieces(t, off, ps, n) =
         [v EXCEPT !.pieces = Coalesce(ws), !.len = v.len + n, !.prefixDirty = TRUE]
  <2>1. at = SplitPieceAt(t, IF off < t.len THEN off ELSE t.len)
    BY DEF at
  <2>2. SubSeq(qs, 1, at.idx - 1) = front /\ SubSeq(qs, at.idx, Len(qs)) = back
    BY <1>5 DEF k
  <2> HIDE DEF front, back, k
  <2> QED BY <2>1, <2>2, Zenon DEF SplicePieces, v, qs
<1> HIDE DEF front, back
<1>9. front \o ps \in Seq(Pieces) /\ CellsOf(front \o ps) = CellsOf(front) \o CellsOf(ps)
  BY <1>6, CellsBeside
<1>10. ws \in Seq(Pieces) /\ CellsOf(ws) = CellsOf(front \o ps) \o CellsOf(back)
  BY <1>6, <1>9, CellsBeside
<1>11. Within(ws, t.addLen)
  <2>1. Within(front \o ps, t.addLen)
    BY <1>6, <1>7, WithinBeside
  <2> QED BY <1>6, <1>7, <1>9, <2>1, WithinBeside
<1>12. CellsOf(ws) = SplicedIn(c, o, CellsOf(ps))
  <2> HIDE DEF c, ws
  <2>1. CellsOf(ws) = (SubSeq(c, 1, o) \o CellsOf(ps)) \o SubSeq(c, o + 1, Len(c))
    BY <1>6, <1>9, <1>10, Zenon
  <2> QED BY <2>1 DEF SplicedIn
<1>13. Len(CellsOf(ws)) = v.len + n
  <2> DEFINE x == CellsOf(front)
             y == CellsOf(ps)
             z == CellsOf(back)
  <2>1. /\ x \in Seq(Ids) /\ Len(x) = o /\ z \in Seq(Ids) /\ Len(z) = Len(c) - o
        /\ y \in Seq(Ids) /\ Len(y) = n
    BY <1>1, <1>6, PartLengths, CellsOfType, SMTT(20)
  <2>2. CellsOf(ws) = (x \o y) \o z
    BY <1>9, <1>10
  <2> HIDE DEF x, y, z
  <2>3. x \o y \in Seq(Ids) /\ Len(x \o y) = Len(x) + Len(y)
    BY <2>1, SideBySide
  <2>4. Len((x \o y) \o z) = Len(x \o y) + Len(z)
    BY <2>1, <2>3, SideBySide
  <2>5. n \in Nat
    BY <2>1
  <2>6. Len((x \o y) \o z) = (o + n) + (v.len - o) /\ v.len \in Nat
    BY <1>1, <1>3, <2>1, <2>3, <2>4
  <2>7. (o + n) + (v.len - o) = v.len + n
    BY <1>1, <2>5, <2>6, LengthLeft
  <2> QED BY <2>2, <2>6, <2>7
<1> HIDE DEF ws
<1> DEFINE m == v.len + n
           u == Rebuilt(v, ws, m)
<1>14. Settled(u) /\ u.addLen = v.addLen /\ CellsOf(u.pieces) = CellsOf(ws)
  <2>1. m = Len(CellsOf(ws)) /\ Within(ws, v.addLen)
    BY <1>3, <1>11, <1>13
  <2> HIDE DEF m
  <2>2. Sized(v) /\ ws \in Seq(Pieces)
    BY <1>3, <1>10
  <2>3. /\ Settled(Rebuilt(v, ws, m)) /\ Rebuilt(v, ws, m).addLen = v.addLen
        /\ CellsOf(Rebuilt(v, ws, m).pieces) = CellsOf(ws)
    BY <2>1, <2>2, RebuiltIs
  <2> QED BY <2>3
<1>15. SplicePieces(t, off, ps, n) = u
  BY <1>8 DEF Rebuilt
<1> HIDE DEF u
<1> QED BY <1>3, <1>12, <1>14, <1>15

\* The document without the cells in [off, end).
CutOut(s, off, end) == SubSeq(s, 1, off) \o SubSeq(s, end + 1, Len(s))

\* The pieces between two offsets are taken out, and their cells with them.
LEMMA DeleteIs ==
    ASSUME NEW t, Sized(t), NEW off \in Nat, NEW n \in Nat, off < t.len,
           NEW end, end = IF off + n < t.len THEN off + n ELSE t.len
    PROVE  LET u == DeletedTable(t, off, n)
           IN  /\ Settled(u) /\ u.addLen = t.addLen
               /\ CellsOf(u.pieces) = CutOut(CellsOf(t.pieces), off, end)
<1> DEFINE t0 == EnsurePrefix(t)
           from == SplitPieceAt(t0, off)
           to == SplitPieceAt(from.t, end)
           v == to.t
           ps == from.t.pieces
           qs == v.pieces
           j == from.idx - 1
           k == to.idx - 1
           c == CellsOf(t.pieces)
           front == SubSeq(qs, 1, j)
           back == SubSeq(qs, k + 1, Len(qs))
           ws == front \o back
           m == v.len - (end - off)
<1>1. t.len \in Nat /\ t.len = Len(c) /\ c \in Seq(Ids)
  BY SizedParts, CellsOfType
<1>2. end \in Nat /\ off <= end /\ end <= t.len
  <2> DEFINE l == t.len
  <2>1. l \in Nat /\ off < l /\ end = IF off + n < l THEN off + n ELSE l
    BY <1>1
  <2> HIDE DEF l
  <2>2. end \in Nat /\ off <= end /\ end <= l
    BY <2>1
  <2> QED BY <2>2 DEF l
<1>3. Sized(t0) /\ t0.pieces = t.pieces /\ t0.len = t.len /\ t0.addLen = t.addLen
  BY EnsureIs
<1> HIDE DEF t0
<1>4. Splits(t0, off, from)
  <2>1. off <= t0.len
    BY <1>1, <1>3
  <2> QED BY <1>3, <2>1, SplitIs
<1> HIDE DEF from
<1>5. /\ Sized(from.t) /\ from.t.len = t.len /\ from.t.addLen = t.addLen
      /\ CellsOf(ps) = c /\ from.idx \in 1..(Len(ps) + 1) /\ Ends(ps)[j] = off
  BY <1>3, <1>4 DEF Splits
<1>6. Splits(from.t, end, to) /\ KeepsBefore(ps, end, qs)
  <2>1. end <= from.t.len
    BY <1>2, <1>5
  <2>2. Sized(from.t)
    BY <1>5
  <2> QED BY <1>2, <2>1, <2>2, SplitIs
<1> HIDE DEF to
<1>7. /\ Sized(v) /\ v.len = t.len /\ v.addLen = t.addLen
      /\ CellsOf(qs) = c /\ to.idx \in 1..(Len(qs) + 1) /\ Ends(qs)[k] = end
  BY <1>5, <1>6 DEF Splits
<1> HIDE DEF v
<1>8. /\ ps \in Seq(Pieces) /\ Len(ps) \in Nat /\ qs \in Seq(Pieces) /\ Len(qs) \in Nat
      /\ Within(qs, t.addLen)
  <2>1. ps \in Seq(Pieces) /\ qs \in Seq(Pieces)
    BY <1>5, <1>7, SizedParts
  <2>2. Within(qs, v.addLen)
    BY <1>7 DEF Sized
  <2>3. Len(qs) \in Nat /\ Len(ps) \in Nat
    BY <2>1
  <2> QED BY <1>7, <2>1, <2>2, <2>3
<1>9. j \in 0..Len(ps) /\ j + 1 = from.idx /\ k \in 0..Len(qs) /\ k + 1 = to.idx
  <2> DEFINE a == from.idx
             b == to.idx
             l == Len(ps)
             o == Len(qs)
  <2>1. a \in 1..(l + 1) /\ b \in 1..(o + 1) /\ l \in Nat /\ o \in Nat
    BY <1>5, <1>7, <1>8
  <2> HIDE DEF a, b, l, o
  <2>2. a - 1 \in 0..l /\ (a - 1) + 1 = a /\ b - 1 \in 0..o /\ (b - 1) + 1 = b
    BY <2>1
  <2> QED BY <2>2 DEF a, b, l, o
<1>a. Ends(ps)[j] = off /\ Ends(qs)[k] = end
  BY <1>5, <1>7
<1>10. DeletedTable(t, off, n) = Rebuilt(v, ws, m)
  <2>1. SubSeq(qs, 1, from.idx - 1) = front /\ SubSeq(qs, to.idx, Len(qs)) = back
    BY <1>9
  <2> HIDE DEF front, back, j, k
  <2> QED BY <2>1, Zenon DEF DeletedTable, Rebuilt, v, from, to, t0
<1> HIDE DEF j, k, ps, qs
<1>11. j \in 0..Len(qs) /\ Ends(qs)[j] = off
  <2>1. j <= Len(qs) /\ \A i \in 1..j : qs[i] = ps[i]
    BY <1>2, <1>6, <1>9, <1>a DEF KeepsBefore
  <2>2. j \in Nat /\ j <= Len(ps) /\ j \in 0..j /\ j \in 0..Len(qs)
    BY <1>8, <1>9, <2>1
  <2>3. \A i \in 0..j : Joined(qs)[i] = Joined(ps)[i] /\ Ends(qs)[i] = Ends(ps)[i]
    BY <1>8, <2>1, <2>2, SameStart
  <2> QED BY <1>a, <2>2, <2>3
<1>12. front \in Seq(Pieces) /\ CellsOf(front) = SubSeq(c, 1, off)
  <2>1. front \in Seq(Pieces) /\ CellsOf(front) = SubSeq(CellsOf(qs), 1, Ends(qs)[j])
    BY <1>8, <1>11, CutAt
  <2> HIDE DEF front, c
  <2>2. CellsOf(qs) = c
    BY <1>7 DEF qs, c
  <2> QED BY <1>11, <2>1, <2>2, Zenon
<1>13. back \in Seq(Pieces) /\ CellsOf(back) = SubSeq(c, end + 1, Len(c))
  <2>1. /\ back \in Seq(Pieces)
        /\ CellsOf(back) = SubSeq(CellsOf(qs), Ends(qs)[k] + 1, Len(CellsOf(qs)))
    BY <1>8, <1>9, CutAt
  <2> HIDE DEF back, c
  <2>2. CellsOf(qs) = c
    BY <1>7 DEF qs, c
  <2> QED BY <1>a, <2>1, <2>2, Zenon
<1>14. Within(front, t.addLen) /\ Within(back, t.addLen)
  BY <1>8, <1>9, <1>11, WithinPart
<1> HIDE DEF front, back
<1>15. ws \in Seq(Pieces) /\ CellsOf(ws) = CellsOf(front) \o CellsOf(back)
  BY <1>12, <1>13, CellsBeside
<1>16. Within(ws, v.addLen)
  <2>1. Within(ws, t.addLen)
    BY <1>12, <1>13, <1>14, WithinBeside
  <2> QED BY <1>7, <2>1
<1> HIDE DEF ws
<1>17. CellsOf(ws) = CutOut(c, off, end)
  BY <1>12, <1>13, <1>15 DEF CutOut
<1>18. m = Len(CellsOf(ws))
  <2> DEFINE x == CellsOf(front)
             z == CellsOf(back)
  <2>1. /\ x \in Seq(Ids) /\ Len(x) = off /\ z \in Seq(Ids) /\ Len(z) = Len(c) - end
    <3>1. off <= Len(c) /\ end <= Len(c)
      BY <1>1, <1>2
    <3> HIDE DEF c
    <3>2. c \in Seq(Ids)
      BY <1>1
    <3>3. /\ SubSeq(c, 1, off) \in Seq(Ids) /\ Len(SubSeq(c, 1, off)) = off
      BY <3>1, <3>2, PartLengths
    <3>4. /\ SubSeq(c, end + 1, Len(c)) \in Seq(Ids)
          /\ Len(SubSeq(c, end + 1, Len(c))) = Len(c) - end
      BY <1>2, <3>1, <3>2, PartLengths
    <3> QED BY <1>12, <1>13, <3>3, <3>4
  <2>2. CellsOf(ws) = x \o z
    BY <1>15
  <2> HIDE DEF x, z
  <2>3. Len(x \o z) = Len(x) + Len(z)
    BY <2>1, SideBySide
  <2>4. v.len = Len(c) /\ Len(c) \in Nat
    BY <1>1, <1>7
  <2>5. off + (Len(c) - end) = Len(c) - (end - off)
    <3> DEFINE l == Len(c)
    <3>1. l \in Nat /\ end \in Nat
      BY <1>2, <2>4
    <3> HIDE DEF l
    <3>2. off + (l - end) = l - (end - off)
      BY <3>1
    <3> QED BY <3>2 DEF l
  <2> QED BY <2>1, <2>2, <2>3, <2>4, <2>5
<1> HIDE DEF m
<1>19. /\ Settled(Rebuilt(v, ws, m)) /\ Rebuilt(v, ws, m).addLen = v.addLen
       /\ CellsOf(Rebuilt(v, ws, m).pieces) = CellsOf(ws)
  <2>1. Sized(v)
    BY <1>7
  <2> QED BY <1>15, <1>16, <1>18, <2>1, RebuiltIs
<1> QED BY <1>7, <1>10, <1>17, <1>19

(***************************************************************************)
(* Putting cells back                                                      *)
(***************************************************************************)

\* A cell of a source that has been handed out.
InReach(s, add) == \A i \in 1..Len(s) : s[i].off < Limit(s[i].source, add)

\* The pieces of a run of cells have those cells.
LEMMA CellsToPiecesIs ==
    ASSUME NEW run \in Seq(Ids), NEW add \in Nat, InReach(run, add)
    PROVE  /\ CellsToPieces(run) \in Seq(Pieces) /\ Within(CellsToPieces(run), add)
           /\ CellsOf(CellsToPieces(run)) = run
<1> DEFINE ps == [i \in 1..Len(run) |-> Piece(run[i].source, run[i].off, 1)]
           n == Len(run)
<1>0. n \in Nat
  OBVIOUS
<1>1. ASSUME NEW i \in 1..n
      PROVE  /\ run[i].source \in Sources /\ run[i].off \in Nat
             /\ run[i] = CellId(run[i].source, run[i].off)
             /\ run[i].off < Limit(run[i].source, add)
  <2>1. run[i] \in Ids
    OBVIOUS
  <2> QED BY <2>1 DEF Ids, CellId, InReach
<1>2. \A i \in 1..n : Piece(run[i].source, run[i].off, 1) \in Pieces
  BY <1>1 DEF Piece, Pieces
<1>3. /\ ps \in Seq(Pieces) /\ Len(ps) = n
      /\ \A i \in 1..n : ps[i] = Piece(run[i].source, run[i].off, 1)
  BY <1>0, <1>2
<1> HIDE DEF ps
<1>4. \A i \in 1..n : /\ ps[i].source = run[i].source /\ ps[i].start = run[i].off
                      /\ ps[i].len = 1
  <2>1. ASSUME NEW src, NEW off
        PROVE  /\ Piece(src, off, 1).source = src /\ Piece(src, off, 1).start = off
               /\ Piece(src, off, 1).len = 1
    BY DEF Piece
  <2> QED BY <1>3, <2>1
<1>5. Within(ps, add)
  <2>1. ASSUME NEW i \in 1..n
        PROVE  ps[i].start + ps[i].len <= Limit(ps[i].source, add)
    <3>1. Limit(run[i].source, add) \in Nat
      BY TableConstants DEF Limit
    <3> DEFINE a == run[i].off
               l == Limit(run[i].source, add)
    <3>2. a \in Nat /\ l \in Nat /\ a < l
      BY <1>1, <3>1
    <3> HIDE DEF a, l
    <3>3. a + 1 <= l
      BY <3>2
    <3> QED BY <1>4, <3>3 DEF a, l
  <2> QED BY <1>3, <2>1 DEF Within
<1>6. \A i \in 0..n : Ends(ps)[i] = i
  <2> DEFINE T == {i \in 0..n : Ends(ps)[i] = i}
  <2>1. 0 \in T
    BY <1>0, <1>3, EndsAre
  <2>2. ASSUME NEW i \in 1..n, i - 1 \in T PROVE i \in T
    <3>1. Ends(ps)[i] = Ends(ps)[i - 1] + ps[i].len
      BY <1>3, EndsAre
    <3>2. Ends(ps)[i - 1] = i - 1 /\ ps[i].len = 1
      BY <1>4, <2>2
    <3>3. (i - 1) + 1 = i /\ i \in 0..n
      OBVIOUS
    <3> QED BY <3>1, <3>2, <3>3
  <2> HIDE DEF T
  <2>3. \A i \in 0..n : i \in T
    BY <1>0, <2>1, <2>2, UpTo
  <2> QED BY <2>3 DEF T
<1>7. CellsOf(ps) \in Seq(Ids) /\ Len(CellsOf(ps)) = n
  BY <1>0, <1>3, <1>6, CellsOfType
<1>8. ASSUME NEW i \in 1..n PROVE CellsOf(ps)[i] = run[i]
  <2>1. i \in 1..Len(ps) /\ 1 \in 1..ps[i].len /\ i - 1 \in 0..n /\ (i - 1) + 1 = i
    BY <1>0, <1>3, <1>4
  <2>2. CellsOf(ps)[Ends(ps)[i - 1] + 1] = CellId(ps[i].source, ps[i].start + 1 - 1)
    BY <1>3, <2>1, CellAt
  <2>3. Ends(ps)[i - 1] = i - 1
    BY <1>6, <2>1
  <2>4. run[i].off + 1 - 1 = run[i].off
    BY <1>1
  <2> QED BY <1>1, <1>4, <2>1, <2>2, <2>3, <2>4
<1>9. CellsOf(ps) = run
  BY <1>7, <1>8, SameSequence
<1>10. /\ Coalesce(ps) \in Seq(Pieces) /\ Tidy(Coalesce(ps), add)
       /\ CellsOf(Coalesce(ps)) = CellsOf(ps)
  BY <1>3, <1>5, TableConstants, CoalesceIs
<1>11. CellsToPieces(run) = Coalesce(ps)
  BY DEF CellsToPieces, ps
<1> QED BY <1>9, <1>10, <1>11 DEF Tidy

(***************************************************************************)
(* The walk of cell_ids_range                                              *)
(***************************************************************************)

Lower(a, b) == IF a < b THEN a ELSE b

Upper(a, b) == IF a > b THEN a ELSE b

\* A part that ends where it starts is empty.
LEMMA NoPart ==
    ASSUME NEW s \in Seq(Ids), NEW a \in Nat, NEW b \in Nat, b <= a
    PROVE  SubSeq(s, a + 1, b) = <<>>
  OBVIOUS

\* A piece's share of a range is that part of the document.
LEMMA OverlapIs ==
    ASSUME NEW ps \in Seq(Pieces), NEW i \in 1..Len(ps), NEW c \in Nat, NEW a \in Nat,
           NEW b \in Nat, b <= Ends(ps)[Len(ps)]
    PROVE  /\ Overlap(ps[i], c + Ends(ps)[i - 1], c + a, c + b) \in Seq(Ids)
           /\ Overlap(ps[i], c + Ends(ps)[i - 1], c + a, c + b) =
                 SubSeq(CellsOf(ps), Upper(a, Ends(ps)[i - 1]) + 1, Lower(b, Ends(ps)[i]))
<1> DEFINE p == ps[i]
           e == Ends(ps)[i - 1]
           f == Ends(ps)[i]
           x == Upper(a, e)
           y == Lower(b, f)
           cells == CellsOf(ps)
           o == Overlap(p, c + e, c + a, c + b)
<1>1. /\ p.source \in Sources /\ p.start \in Nat /\ p.len \in Nat
  BY PieceAt
<1>2. e \in Nat /\ f \in Nat /\ f = e + p.len
  <2>1. i - 1 \in 0..Len(ps) /\ i \in 0..Len(ps)
    OBVIOUS
  <2> QED BY <2>1, EndsAre
<1>3. f <= Ends(ps)[Len(ps)] /\ cells \in Seq(Ids) /\ Len(cells) = Ends(ps)[Len(ps)]
      /\ Len(cells) \in Nat
  <2>1. i \in 0..Len(ps) /\ Len(ps) \in 0..Len(ps) /\ i <= Len(ps)
    OBVIOUS
  <2>2. f <= Ends(ps)[Len(ps)]
    BY <2>1, EndsGrow
  <2>3. cells \in Seq(Ids) /\ Len(cells) = Ends(ps)[Len(ps)]
    BY CellsOfType
  <2>4. Len(cells) \in Nat
    BY <2>3
  <2> QED BY <2>2, <2>3, <2>4
<1>4. \A j \in 1..p.len : /\ e + j \in 1..Len(cells)
                          /\ cells[e + j] = CellId(p.source, p.start + j - 1)
  BY CellAt
<1> HIDE DEF p, e, f, cells
<1>5. x \in Nat /\ y \in Nat /\ y <= Len(cells) /\ e <= x /\ a <= x /\ y <= f /\ y <= b
  BY <1>2, <1>3 DEF Upper, Lower
<1>6. o = IF x < y THEN [k \in 1..(y - x) |-> CellId(p.source, p.start + (x - e) + k - 1)]
          ELSE <<>>
  <2> DEFINE lo == IF c + a > c + e THEN c + a ELSE c + e
             hi == IF c + b < c + e + p.len THEN c + b ELSE c + e + p.len
  <2>1. o = IF lo < hi THEN [k \in 1..(hi - lo) |->
                                CellId(p.source, p.start + (lo - (c + e)) + k - 1)]
            ELSE <<>>
    BY DEF Overlap
  <2> HIDE DEF o
  <2>2. lo = c + x
    BY <1>2 DEF Upper
  <2>3. hi = c + y
    <3>1. c + e + p.len = c + f
      <4> DEFINE l == p.len
      <4>1. l \in Nat /\ e \in Nat /\ f = e + l
        BY <1>1, <1>2
      <4> HIDE DEF l, lo, hi
      <4>2. c + e + l = c + f
        BY <4>1
      <4> QED BY <4>2 DEF l
    <3>2. hi = IF c + b < c + f THEN c + b ELSE c + f
      BY <3>1
    <3> HIDE DEF hi, lo
    <3>3. c + b < c + f <=> b < f
      BY <1>2
    <3>4. hi = c + (IF b < f THEN b ELSE f)
      BY <3>2, <3>3
    <3> QED BY <3>4 DEF Lower
  <2> HIDE DEF lo, hi, x, y
  <2>4. (lo < hi <=> x < y) /\ hi - lo = y - x /\ lo - (c + e) = x - e
    BY <1>2, <1>5, <2>2, <2>3
  <2> QED BY <2>1, <2>4, Zenon
<1> HIDE DEF o, x, y
<1>7. CASE x < y
  <2>1. y - x \in Nat
    BY <1>5, <1>7
  <2>2. ASSUME NEW k \in 1..(y - x)
        PROVE  /\ x + k \in 1..Len(cells)
               /\ cells[x + k] = CellId(p.source, p.start + (x - e) + k - 1)
    <3>1. (x - e) + k \in 1..p.len /\ e + ((x - e) + k) = x + k
      <4> DEFINE l == p.len
      <4>1. l \in Nat /\ f = e + l
        BY <1>1, <1>2
      <4> HIDE DEF l
      <4>2. (x - e) + k \in 1..l /\ e + ((x - e) + k) = x + k
        BY <1>2, <1>5, <1>7, <4>1
      <4> QED BY <4>2 DEF l
    <3>2. /\ e + ((x - e) + k) \in 1..Len(cells)
          /\ cells[e + ((x - e) + k)] = CellId(p.source, p.start + ((x - e) + k) - 1)
      BY <1>4, <3>1
    <3>3. p.start + ((x - e) + k) - 1 = p.start + (x - e) + k - 1
      <4> DEFINE l == p.start
      <4>1. l \in Nat
        BY <1>1
      <4> HIDE DEF l
      <4>2. l + ((x - e) + k) - 1 = l + (x - e) + k - 1
        BY <1>2, <1>5, <1>7, <4>1
      <4> QED BY <4>2 DEF l
    <3> QED BY <3>1, <3>2, <3>3
  <2>3. /\ SubSeq(cells, x + 1, y) \in Seq(Ids) /\ Len(SubSeq(cells, x + 1, y)) = y - x
        /\ \A k \in 1..(y - x) : SubSeq(cells, x + 1, y)[k] = cells[x + k]
    BY <1>3, <1>5, <1>7, PartOf
  <2>4. \A k \in 1..(y - x) : cells[x + k] \in Ids
    BY <1>3, <2>2
  <2>5. /\ o \in Seq(Ids) /\ Len(o) = y - x
        /\ \A k \in 1..(y - x) : o[k] = cells[x + k]
    <3>1. o = [k \in 1..(y - x) |-> cells[x + k]]
      <4>1. o = [k \in 1..(y - x) |-> CellId(p.source, p.start + (x - e) + k - 1)]
        BY <1>6, <1>7
      <4>2. \A k \in 1..(y - x) : CellId(p.source, p.start + (x - e) + k - 1) = cells[x + k]
        BY <2>2
      <4> QED BY <4>1, <4>2
    <3> QED BY <2>1, <2>4, <3>1
  <2>6. o = SubSeq(cells, x + 1, y)
    BY <2>3, <2>5, SameSequence
  <2> QED BY <2>5, <2>6 DEF o, p, e, f, x, y, cells
<1>8. CASE ~(x < y)
  <2>1. o = <<>> /\ o \in Seq(Ids)
    BY <1>6, <1>8
  <2>2. SubSeq(cells, x + 1, y) = <<>>
    BY <1>3, <1>5, <1>8, NoPart
  <2> QED BY <2>1, <2>2 DEF o, p, e, f, x, y, cells
<1> QED BY <1>7, <1>8

\* Whatever the walk has reached, a piece gives cells.
LEMMA OverlapType ==
    ASSUME NEW p \in Pieces, NEW c \in Nat, NEW from \in Nat, NEW to \in Nat
    PROVE  Overlap(p, c, from, to) \in Seq(Ids)
<1> DEFINE lo == IF from > c THEN from ELSE c
           hi == IF to < c + p.len THEN to ELSE c + p.len
<1>1. /\ p.source \in Sources /\ p.start \in Nat /\ p.len \in Nat
  BY DEF Pieces
<1>2. lo \in Nat /\ hi \in Nat /\ c <= lo
  BY <1>1
<1>3. Overlap(p, c, from, to) =
         IF lo < hi THEN [k \in 1..(hi - lo) |-> CellId(p.source, p.start + (lo - c) + k - 1)]
         ELSE <<>>
  BY Zenon DEF Overlap
<1> HIDE DEF lo, hi
<1>4. CASE lo < hi
  <2>1. hi - lo \in Nat
    BY <1>2, <1>4
  <2>2. ASSUME NEW k \in 1..(hi - lo)
        PROVE  CellId(p.source, p.start + (lo - c) + k - 1) \in Ids
    <3>1. p.start + (lo - c) + k - 1 \in Nat
      BY <1>1, <1>2
    <3> QED BY <1>1, <3>1 DEF Ids, CellId
  <2>3. [k \in 1..(hi - lo) |-> CellId(p.source, p.start + (lo - c) + k - 1)] \in Seq(Ids)
    BY <2>1, <2>2
  <2> QED BY <1>3, <1>4, <2>3
<1>5. CASE ~(lo < hi)
  BY <1>3, <1>5
<1> QED BY <1>4, <1>5

Walks == [cursor : Nat, out : Seq(Ids)]

\* w is a walk over ps that starts at c.
Walked(w, ps, c, from, to) ==
    /\ w[0].cursor = c /\ w[0].out = <<>>
    /\ \A i \in 1..Len(ps) :
          /\ w[i].cursor = w[i - 1].cursor + ps[i].len
          /\ w[i].out = w[i - 1].out \o Overlap(ps[i], w[i - 1].cursor, from, to)

\* The walk goes over the pieces one after the other.
LEMMA WalkAre ==
    ASSUME NEW ps \in Seq(Pieces), NEW c \in Nat, NEW from \in Nat, NEW to \in Nat
    PROVE  Walked(Walk(ps, c, from, to), ps, c, from, to)
<1> DEFINE n == Len(ps)
           Next1(x, i) == [cursor |-> x.cursor + ps[i].len,
                           out |-> x.out \o Overlap(ps[i], x.cursor, from, to)]
           base == [cursor |-> c, out |-> <<>>]
           step == [i \in 1..n |-> [x \in Walks |-> Next1(x, i)]]
           Is(f) == f = [i \in 0..n |-> IF i = 0 THEN base ELSE Next1(f[i - 1], i)]
<1>0. n \in Nat /\ base \in Walks
  BY DEF Walks
<1>4. Walk(ps, c, from, to) = CHOOSE g : Is(g)
  BY Zenon DEF Walk
<1>b. ASSUME NEW i \in 1..n, NEW x \in Walks PROVE Next1(x, i) \in Walks
  <2>1. x.cursor \in Nat /\ x.out \in Seq(Ids)
    BY DEF Walks
  <2>2. ps[i] \in Pieces /\ ps[i].len \in Nat
    BY PieceAt
  <2>3. Overlap(ps[i], x.cursor, from, to) \in Seq(Ids)
    BY <2>1, <2>2, OverlapType
  <2>4. x.out \o Overlap(ps[i], x.cursor, from, to) \in Seq(Ids)
    BY <2>1, <2>3, SideBySide
  <2>5. x.cursor + ps[i].len \in Nat
    BY <2>1, <2>2
  <2> QED BY <2>4, <2>5 DEF Walks
<1>c. ASSUME NEW x, NEW i
      PROVE  /\ Next1(x, i).cursor = x.cursor + ps[i].len
             /\ Next1(x, i).out = x.out \o Overlap(ps[i], x.cursor, from, to)
  OBVIOUS
<1>d. base.cursor = c /\ base.out = <<>>
  OBVIOUS
<1> HIDE DEF n, base, Next1
<1>1. step \in [1..n -> [Walks -> Walks]]
  BY <1>b
<1>a. ASSUME NEW i \in 1..n, NEW x \in Walks PROVE step[i][x] = Next1(x, i)
  OBVIOUS
<1> HIDE DEF step
<1>2. PICK f \in [0..n -> Walks] : Order!Repeats(f, n, base, step)
  BY <1>0, <1>1, Recursion
<1>3. Is(f)
  <2>1. ASSUME NEW i \in 0..n
        PROVE  f[i] = IF i = 0 THEN base ELSE Next1(f[i - 1], i)
    <3>1. CASE i = 0
      BY <1>2, <3>1 DEF Order!Repeats
    <3>2. CASE i # 0
      <4>0. i \in 1..n /\ i - 1 \in 0..n
        BY <1>0, <3>2
      <4>1. f[i - 1] \in Walks
        BY <4>0
      <4>2. f[i] = step[i][f[i - 1]]
        BY <1>2, <4>0 DEF Order!Repeats
      <4> QED BY <1>a, <3>2, <4>0, <4>1, <4>2
    <3> QED BY <3>1, <3>2
  <2> QED BY <2>1
<1> DEFINE w == Walk(ps, c, from, to)
<1>5. Is(w)
  <2> HIDE DEF Is
  <2> QED BY <1>3, <1>4, Zenon
<1> HIDE DEF w
<1>6. w[0] = base /\ \A i \in 1..n : w[i] = Next1(w[i - 1], i)
  <2>1. \A i \in 0..n : w[i] = IF i = 0 THEN base ELSE Next1(w[i - 1], i)
    BY <1>5, Zenon
  <2>2. 0 \in 0..n /\ \A i \in 1..n : i \in 0..n /\ i # 0
    BY <1>0
  <2> QED BY <2>1, <2>2, Zenon
<1>7. ASSUME NEW i \in 1..n
      PROVE  /\ w[i].cursor = w[i - 1].cursor + ps[i].len
             /\ w[i].out = w[i - 1].out \o Overlap(ps[i], w[i - 1].cursor, from, to)
  <2>1. w[i] = Next1(w[i - 1], i)
    BY <1>6
  <2> QED BY <1>c, <2>1, Zenon
<1>8. w[0].cursor = c /\ w[0].out = <<>>
  BY <1>d, <1>6, Zenon
<1> QED BY <1>7, <1>8, Zenon DEF Walked, w, n

\* The cells at the offsets from a to before b.
Part(s, a, b) == SubSeq(s, a + 1, b)

\* The part from a to b is known as far as e; going on to f completes it as
\* far as f.
Continued(s, a, b, e, f) ==
    Part(s, a, Lower(b, e)) \o Part(s, Upper(a, e), Lower(b, f)) = Part(s, a, Lower(b, f))

\* Two parts of a document that meet, or of which one is empty, are one.
LEMMA PartsGrow ==
    ASSUME NEW s \in Seq(Ids), NEW a \in Nat, NEW b \in Nat, NEW e \in Nat, NEW f \in Nat,
           e <= f, f <= Len(s), b <= Len(s), a <= b
    PROVE  Continued(s, a, b, e, f)
<1> USE DEF Part, Continued
<1> DEFINE y == Lower(b, f)
<1>0. y \in Nat /\ y <= Len(s) /\ SubSeq(s, a + 1, y) \in Seq(Ids)
  <2>1. y \in Nat /\ y <= Len(s)
    BY DEF Lower
  <2> HIDE DEF y
  <2>2. CASE a <= y
    BY <2>1, <2>2, PartOf
  <2>3. CASE ~(a <= y)
    <3>1. y <= a
      BY <2>1, <2>3
    <3>2. SubSeq(s, a + 1, y) = <<>>
      BY <2>1, <3>1, NoPart
    <3> QED BY <2>1, <3>2
  <2> QED BY <2>1, <2>2, <2>3
<1>1. CASE b <= e
  <2>1. Lower(b, e) = b /\ y = b /\ Upper(a, e) \in Nat /\ b <= Upper(a, e)
    BY <1>1 DEF Lower, Upper
  <2>2. SubSeq(s, Upper(a, e) + 1, b) = <<>>
    BY <2>1, NoPart
  <2>3. SubSeq(s, a + 1, b) \o <<>> = SubSeq(s, a + 1, b)
    BY <1>0, <2>1, NothingBeside
  <2> QED BY <2>1, <2>2, <2>3
<1>2. CASE e < b /\ e <= a
  <2>1. Lower(b, e) = e /\ Upper(a, e) = a
    BY <1>2 DEF Lower, Upper
  <2>2. SubSeq(s, a + 1, e) = <<>>
    BY <1>2, NoPart
  <2>3. <<>> \o SubSeq(s, a + 1, y) = SubSeq(s, a + 1, y)
    BY <1>0, NothingBeside
  <2> QED BY <2>1, <2>2, <2>3
<1>3. CASE e < b /\ a < e
  <2>1. Lower(b, e) = e /\ Upper(a, e) = e /\ e <= y /\ a <= e
    BY <1>3 DEF Lower, Upper
  <2> HIDE DEF y
  <2>2. SubSeq(s, a + 1, e) \o SubSeq(s, e + 1, y) = SubSeq(s, a + 1, y)
    BY <1>0, <2>1, PartsMeet
  <2> QED BY <2>1, <2>2 DEF y
<1>4. b <= e \/ (e < b /\ e <= a) \/ (e < b /\ a < e)
  OBVIOUS
<1> QED BY <1>1, <1>2, <1>3, <1>4, Zenon

\* The walk over ps from c on ends with the part from a to b.
Collects(ps, c, a, b) ==
    Walk(ps, c, c + a, c + b)[Len(ps)].out = SubSeq(CellsOf(ps), a + 1, b)

\* The walk collects the part of the document that the range covers.
LEMMA WalkIs ==
    ASSUME NEW ps \in Seq(Pieces), NEW c \in Nat, NEW a \in Nat, NEW b \in Nat,
           a <= b, b <= Ends(ps)[Len(ps)]
    PROVE  Collects(ps, c, a, b)
<1> DEFINE n == Len(ps)
           e == Ends(ps)
           from == c + a
           to == c + b
           w == Walk(ps, c, from, to)
           cells == CellsOf(ps)
           T == {i \in 0..n : /\ w[i].cursor = c + e[i]
                              /\ w[i].out = SubSeq(cells, a + 1, Lower(b, e[i]))}
<1>0. n \in Nat /\ from \in Nat /\ to \in Nat
  OBVIOUS
<1>1. /\ e \in [0..n -> Nat] /\ e[0] = 0
      /\ cells \in Seq(Ids) /\ Len(cells) = e[n] /\ e[n] \in Nat /\ b <= Len(cells)
  <2>1. n \in 0..n
    BY <1>0
  <2> QED BY <2>1, EndsAre, CellsOfType
<1>2. ASSUME NEW i \in 1..n
      PROVE  /\ e[i] = e[i - 1] + ps[i].len /\ ps[i].len \in Nat
             /\ e[i - 1] \in Nat /\ e[i] \in Nat /\ e[i - 1] <= e[i] /\ e[i] <= Len(cells)
  <2>1. i - 1 \in 0..n /\ i \in 0..n /\ n \in 0..n /\ i - 1 <= i /\ i <= n
    BY <1>0
  <2>2. e[i] = e[i - 1] + ps[i].len /\ ps[i].len \in Nat
    BY EndsAre, PieceAt
  <2>3. e[i - 1] <= e[i] /\ e[i] <= e[n]
    BY <2>1, EndsGrow
  <2> QED BY <1>1, <2>1, <2>2, <2>3
<1>3. /\ w[0].cursor = c /\ w[0].out = <<>>
      /\ \A i \in 1..n :
            /\ w[i].cursor = w[i - 1].cursor + ps[i].len
            /\ w[i].out = w[i - 1].out \o Overlap(ps[i], w[i - 1].cursor, from, to)
  <2> HIDE DEF from, to
  <2>1. Walked(Walk(ps, c, from, to), ps, c, from, to)
    BY <1>0, WalkAre
  <2> QED BY <2>1, Zenon DEF Walked
<1>4. ASSUME NEW i \in 1..n
      PROVE  Overlap(ps[i], c + e[i - 1], from, to) =
                SubSeq(cells, Upper(a, e[i - 1]) + 1, Lower(b, e[i]))
  BY OverlapIs, ZenonT(40)
<1> HIDE DEF n, e, w, cells, from, to
<1>5. 0 \in T
  <2>1. Lower(b, 0) = 0
    BY DEF Lower
  <2>2. SubSeq(cells, a + 1, 0) = <<>>
    BY <1>1, NoPart
  <2>3. w[0].cursor = c + e[0]
    BY <1>1, <1>3
  <2>4. w[0].out = SubSeq(cells, a + 1, Lower(b, e[0]))
    BY <1>1, <1>3, <2>1, <2>2, Zenon
  <2>5. 0 \in 0..n
    BY <1>0
  <2> QED BY <2>3, <2>4, <2>5, Zenon
<1>6. ASSUME NEW i \in 1..n, i - 1 \in T PROVE i \in T
  <2>1. /\ w[i - 1].cursor = c + e[i - 1]
        /\ w[i - 1].out = SubSeq(cells, a + 1, Lower(b, e[i - 1]))
    BY <1>6
  <2>2. w[i].cursor = c + e[i]
    <3>1. w[i].cursor = (c + e[i - 1]) + ps[i].len
      BY <1>3, <2>1
    <3>2. (c + e[i - 1]) + ps[i].len = c + (e[i - 1] + ps[i].len)
      <4> DEFINE x == e[i - 1]
                 y == ps[i].len
      <4>1. x \in Nat /\ y \in Nat
        BY <1>2
      <4> HIDE DEF x, y
      <4>2. (c + x) + y = c + (x + y)
        BY <4>1
      <4> QED BY <4>2 DEF x, y
    <3> QED BY <1>2, <3>1, <3>2
  <2>3. w[i].out = SubSeq(cells, a + 1, Lower(b, e[i - 1])) \o
                      SubSeq(cells, Upper(a, e[i - 1]) + 1, Lower(b, e[i]))
    <3>1. w[i].out = w[i - 1].out \o Overlap(ps[i], w[i - 1].cursor, from, to)
      BY <1>3
    <3> QED BY <1>4, <2>1, <3>1
  <2>4. w[i].out = SubSeq(cells, a + 1, Lower(b, e[i]))
    <3> DEFINE x == e[i - 1]
               y == e[i]
    <3>1. x \in Nat /\ y \in Nat /\ x <= y /\ y <= Len(cells) /\ cells \in Seq(Ids)
          /\ b <= Len(cells)
      BY <1>1, <1>2
    <3> HIDE DEF x, y
    <3>2. Continued(cells, a, b, x, y)
      BY <3>1, PartsGrow
    <3> QED BY <2>3, <3>2, Zenon DEF Continued, Part, x, y
  <2>5. i \in 0..n
    OBVIOUS
  <2> QED BY <2>2, <2>4, <2>5
<1> HIDE DEF T
<1>7. n \in T
  <2>1. \A i \in 0..n : i \in T
    BY <1>0, <1>5, <1>6, UpTo
  <2> QED BY <1>0, <2>1
<1>8. w[n].out = SubSeq(cells, a + 1, Lower(b, e[n]))
  BY <1>7 DEF T
<1>9. Lower(b, e[n]) = b
  BY <1>1 DEF Lower
<1> QED BY <1>8, <1>9 DEF Collects, w, n, cells, from, to

\* A part of a part.
LEMMA PartOfPart ==
    ASSUME NEW s \in Seq(Ids), NEW d \in Nat, NEW a \in Nat, NEW b \in Nat,
           d <= a, a <= b, b <= Len(s)
    PROVE  Part(Part(s, d, Len(s)), a - d, b - d) = Part(s, a, b)
<1> USE DEF Part
<1> DEFINE l == Len(s)
           u == SubSeq(s, d + 1, l)
           v == SubSeq(u, (a - d) + 1, b - d)
<1>0. l \in Nat /\ d <= l /\ a - d \in Nat /\ b - d \in Nat /\ a - d <= b - d
      /\ b - d <= l - d /\ (b - d) - (a - d) = b - a /\ l <= Len(s) /\ b <= l
  OBVIOUS
<1>1. u \in Seq(Ids) /\ Len(u) = l - d /\ \A i \in 1..(l - d) : u[i] = s[d + i]
  BY <1>0, PartOf
<1> HIDE DEF u, l
<1>2. v \in Seq(Ids) /\ Len(v) = b - a /\ \A i \in 1..(b - a) : v[i] = u[(a - d) + i]
  <2> DEFINE x == a - d
             y == b - d
  <2>1. x \in Nat /\ y \in Nat /\ x <= y /\ y <= Len(u) /\ y - x = b - a
    BY <1>0, <1>1
  <2> HIDE DEF x, y
  <2>2. /\ SubSeq(u, x + 1, y) \in Seq(Ids) /\ Len(SubSeq(u, x + 1, y)) = y - x
        /\ \A i \in 1..(y - x) : SubSeq(u, x + 1, y)[i] = u[x + i]
    <3>1. u \in Seq(Ids) /\ y <= Len(u)
      BY <1>1, <2>1
    <3> QED BY <2>1, <3>1, PartOf
  <2>3. /\ SubSeq(u, x + 1, y) \in Seq(Ids) /\ Len(SubSeq(u, x + 1, y)) = b - a
        /\ \A i \in 1..(b - a) : SubSeq(u, x + 1, y)[i] = u[x + i]
    BY <2>1, <2>2
  <2> QED BY <2>3 DEF x, y
<1>3. /\ SubSeq(s, a + 1, b) \in Seq(Ids) /\ Len(SubSeq(s, a + 1, b)) = b - a
      /\ \A i \in 1..(b - a) : SubSeq(s, a + 1, b)[i] = s[a + i]
  BY PartOf
<1> HIDE DEF v
<1>4. ASSUME NEW i \in 1..(b - a) PROVE v[i] = SubSeq(s, a + 1, b)[i]
  <2>1. (a - d) + i \in 1..(l - d) /\ d + ((a - d) + i) = a + i
    BY <1>0
  <2>2. u[(a - d) + i] = s[d + ((a - d) + i)]
    BY <1>1, <2>1
  <2> QED BY <1>2, <1>3, <2>1, <2>2
<1>5. v = SubSeq(s, a + 1, b)
  BY <1>2, <1>3, <1>4, SameSequence
<1> QED BY <1>5 DEF v, u, l

\* Offsets from d on.
LEMMA Shifted ==
    ASSUME NEW d \in Nat, NEW a \in Nat, NEW b \in Nat, NEW l \in Nat, d <= a, a <= b, b <= l
    PROVE  /\ a - d \in Nat /\ b - d \in Nat /\ a - d <= b - d
           /\ d + (a - d) = a /\ d + (b - d) = b /\ b - d <= l - d /\ d <= l
  OBVIOUS

\* cell_ids_range.
LEMMA RangeIs ==
    ASSUME NEW t, Sized(t), NEW off \in Nat, NEW n \in Nat,
           NEW end, end = IF off + n < t.len THEN off + n ELSE t.len
    PROVE  /\ n = 0 \/ off >= t.len => CellIdsRange(t, off, n) = <<>>
           /\ n # 0 /\ off < t.len =>
                 CellIdsRange(t, off, n) = SubSeq(CellsOf(t.pieces), off + 1, end)
<1> DEFINE u == EnsurePrefix(t)
           first == FindPiece(u, off)
           ps == u.pieces
           rest == SubSeq(ps, first, Len(ps))
           d == PieceStart(u, first)
           c == CellsOf(t.pieces)
<1>1. /\ Sized(u) /\ u.pieces = t.pieces /\ u.len = t.len
      /\ u.prefixEnds = PrefixSums(u.pieces)
  BY EnsureIs
<1>2. /\ t.len \in Nat /\ t.len = Len(c) /\ c \in Seq(Ids) /\ t.pieces \in Seq(Pieces)
  BY SizedParts, CellsOfType
<1>3. CASE n = 0 \/ off >= t.len
  <2>1. n = 0 \/ off >= u.len
    BY <1>1, <1>3
  <2>2. CellIdsRange(t, off, n) = <<>>
    BY <2>1, Zenon DEF CellIdsRange
  <2> QED BY <1>2, <1>3, <2>2
<1>4. CASE n # 0 /\ off < t.len
  <2> HIDE DEF u
  <2>1. /\ first \in 1..Len(ps) /\ Ends(ps)[first - 1] <= off
        /\ PieceStart(u, first) = Ends(ps)[first - 1]
    BY <1>1, <1>4, FindPieceIs
  <2>2. end \in Nat /\ off <= end /\ end <= t.len
    <3> DEFINE l == t.len
    <3>1. l \in Nat /\ off < l /\ end = IF off + n < l THEN off + n ELSE l
      BY <1>2, <1>4
    <3> HIDE DEF l
    <3>2. end \in Nat /\ off <= end /\ end <= l
      BY <3>1
    <3> QED BY <3>2 DEF l
  <2>3. CellIdsRange(t, off, n) = Walk(rest, d, off, end)[Len(rest)].out
    <3>1. first # 0 /\ ~(n = 0 \/ off >= u.len \/ first = 0)
      BY <1>1, <1>2, <1>4, <2>1
    <3>2. end = IF off + n < u.len THEN off + n ELSE u.len
      BY <1>1
    <3> QED BY <3>1, <3>2, Zenon DEF CellIdsRange, u
  <2> HIDE DEF first, ps
  <2> DEFINE k == first - 1
             back == SubSeq(ps, k + 1, Len(ps))
  <2>4. /\ ps \in Seq(Pieces) /\ Len(ps) \in Nat /\ CellsOf(ps) = c
        /\ Ends(ps)[Len(ps)] = t.len
    <3>1. ps \in Seq(Pieces) /\ ps = t.pieces
      BY <1>1, <1>2 DEF ps
    <3>2. Len(ps) \in Nat
      BY <3>1
    <3> QED BY <3>1, <3>2, SizedParts
  <2>5. k \in 0..Len(ps) /\ k + 1 = first /\ d = Ends(ps)[k] /\ d <= off
    <3>1. k \in 0..Len(ps) /\ k + 1 = first
      BY <2>1, <2>4
    <3> QED BY <2>1, <3>1
  <2> HIDE DEF k, d
  <2>6. /\ back \in Seq(Pieces)
        /\ CellsOf(back) = SubSeq(CellsOf(ps), Ends(ps)[k] + 1, Len(CellsOf(ps)))
    BY <2>4, <2>5, CutAt
  <2>7. d \in Nat /\ rest = back
    <3>1. d \in Nat
      BY <2>4, <2>5, EndsAre
    <3> QED BY <2>5, <3>1
  <2> HIDE DEF back, rest, c
  <2>8. CellsOf(back) = SubSeq(c, d + 1, Len(c))
    BY <2>4, <2>5, <2>6
  <2> DEFINE a == off - d
             b == end - d
  <2>9. /\ a \in Nat /\ b \in Nat /\ a <= b /\ d + a = off /\ d + b = end
        /\ b <= Len(c) - d /\ d <= Len(c)
    <3> DEFINE l == t.len
    <3>1. l \in Nat /\ Len(c) = l /\ d \in Nat /\ d <= off /\ end \in Nat /\ off <= end
          /\ end <= l
      BY <1>2, <2>2, <2>5, <2>7
    <3> HIDE DEF l
    <3>2. /\ a \in Nat /\ b \in Nat /\ a <= b /\ d + a = off /\ d + b = end
          /\ b <= l - d /\ d <= l
      BY <3>1, Shifted
    <3> QED BY <3>1, <3>2
  <2>10. b <= Ends(back)[Len(back)]
    <3>1. Len(CellsOf(back)) = Len(c) - d
      BY <1>2, <2>7, <2>8, <2>9, PartLengths
    <3>2. Len(CellsOf(back)) = Ends(back)[Len(back)]
      BY <2>6, CellsOfType
    <3> QED BY <2>9, <3>1, <3>2
  <2> HIDE DEF a, b
  <2>11. Collects(back, d, a, b)
    <3>1. back \in Seq(Pieces) /\ d \in Nat /\ a \in Nat /\ b \in Nat /\ a <= b
      BY <2>6, <2>7, <2>9
    <3>2. b <= Ends(back)[Len(back)]
      BY <2>10
    <3> QED BY <3>1, <3>2, WalkIs
  <2>12. SubSeq(SubSeq(c, d + 1, Len(c)), a + 1, b) = SubSeq(c, off + 1, end)
    <3>1. end <= Len(c)
      BY <1>2, <2>2
    <3>2. c \in Seq(Ids) /\ end \in Nat /\ d \in Nat /\ d <= off /\ off <= end
      BY <1>2, <2>2, <2>5, <2>7
    <3>3. Part(Part(c, d, Len(c)), off - d, end - d) = Part(c, off, end)
      BY <3>1, <3>2, PartOfPart
    <3> QED BY <3>3, Zenon DEF Part, a, b
  <2>13. CellIdsRange(t, off, n) = SubSeq(c, off + 1, end)
    BY <2>3, <2>7, <2>8, <2>9, <2>11, <2>12 DEF Collects
  <2>14. ~(n = 0 \/ off >= t.len)
    BY <1>2, <1>4
  <2> QED BY <1>4, <2>13, <2>14, Zenon DEF c
<1> QED BY <1>2, <1>3, <1>4

(***************************************************************************)
(* What the operations do to a table                                       *)
(***************************************************************************)

\* The piece that shows an offset, and the cell it shows there.
LEMMA CellShown ==
    ASSUME NEW t, Sized(t), NEW off \in Nat, off < t.len
    PROVE  \E k \in 1..Len(t.pieces) :
              LET p == t.pieces[k]
                  e == Ends(t.pieces)[k - 1]
              IN  /\ FindPiece(EnsurePrefix(t), off) = k
                  /\ PieceStart(EnsurePrefix(t), k) = e
                  /\ e \in Nat /\ e <= off /\ off - e < p.len
                  /\ CellsOf(t.pieces)[off + 1] = CellId(p.source, p.start + (off - e))
<1> DEFINE u == EnsurePrefix(t)
           ps == t.pieces
           k == FindPiece(u, off)
           p == ps[k]
           e == Ends(ps)[k - 1]
<1>1. /\ Sized(u) /\ u.pieces = ps /\ u.len = t.len
      /\ u.prefixEnds = PrefixSums(u.pieces) /\ ps \in Seq(Pieces)
  BY EnsureIs, SizedParts
<1> HIDE DEF u
<1>2. /\ k \in 1..Len(u.pieces) /\ Ends(u.pieces)[k - 1] <= off
      /\ off < Ends(u.pieces)[k] /\ PieceStart(u, k) = Ends(u.pieces)[k - 1]
  BY <1>1, FindPieceIs
<1> HIDE DEF k, ps
<1>3. k \in 1..Len(ps) /\ e <= off /\ off < Ends(ps)[k] /\ PieceStart(u, k) = e
  BY <1>1, <1>2
<1>4. /\ Ends(ps)[k] = e + p.len /\ p.len \in Nat /\ p.start \in Nat /\ e \in Nat
  <2>1. k - 1 \in 0..Len(ps)
    BY <1>3
  <2> QED BY <1>1, <1>3, <2>1, EndsAre, PieceAt
<1> DEFINE j == off + 1 - e
<1>5. /\ off - e < p.len /\ j \in 1..p.len /\ e + j = off + 1
      /\ p.start + j - 1 = p.start + (off - e)
  <2> DEFINE l == p.len
             s == p.start
  <2>1. l \in Nat /\ s \in Nat /\ e \in Nat /\ e <= off /\ off < e + l
    BY <1>3, <1>4
  <2> HIDE DEF l, s, e
  <2>2. off - e < l /\ j \in 1..l /\ e + j = off + 1 /\ s + j - 1 = s + (off - e)
    BY <2>1
  <2> QED BY <2>2 DEF l, s
<1> HIDE DEF j
<1>6. CellsOf(ps)[e + j] = CellId(p.source, p.start + j - 1)
  BY <1>1, <1>3, <1>5, CellAt
<1>7. CellsOf(ps)[off + 1] = CellId(p.source, p.start + (off - e))
  BY <1>5, <1>6
<1> QED BY <1>3, <1>4, <1>5, <1>7 DEF ps, u, k

\* Every cell that a table shows has been handed out.
LEMMA CellsInReach ==
    ASSUME NEW t, Sized(t) PROVE InReach(CellsOf(t.pieces), t.addLen)
<1> DEFINE c == CellsOf(t.pieces)
           add == t.addLen
<1>1. /\ t.pieces \in Seq(Pieces) /\ t.len = Len(c) /\ t.len \in Nat /\ add \in Nat
      /\ Within(t.pieces, add)
  BY SizedParts DEF Sized
<1>2. ASSUME NEW i \in 1..Len(c) PROVE c[i].off < Limit(c[i].source, add)
  <2> DEFINE off == i - 1
  <2>1. off \in Nat /\ off < t.len /\ off + 1 = i
    BY <1>1
  <2> HIDE DEF off
  <2>2. PICK k \in 1..Len(t.pieces) :
           LET p == t.pieces[k]
               e == Ends(t.pieces)[k - 1]
           IN  /\ e \in Nat /\ e <= off /\ off - e < p.len
               /\ c[off + 1] = CellId(p.source, p.start + (off - e))
    BY <2>1, CellShown
  <2> DEFINE p == t.pieces[k]
             e == Ends(t.pieces)[k - 1]
             s == p.start
             l == p.len
             m == Limit(p.source, add)
  <2>3. s \in Nat /\ l \in Nat /\ m \in Nat /\ s + l <= m
    <3>1. s \in Nat /\ l \in Nat
      BY <1>1, PieceAt
    <3>2. m \in Nat
      BY <1>1, TableConstants DEF Limit
    <3> QED BY <1>1, <3>1, <3>2 DEF Within
  <2>4. e \in Nat /\ e <= off /\ off - e < l
    BY <2>2
  <2>5. c[i].off = s + (off - e) /\ c[i].source = p.source
    <3>1. c[i] = CellId(p.source, s + (off - e))
      BY <2>1, <2>2
    <3> HIDE DEF c, p, s, e
    <3> QED BY <3>1 DEF CellId
  <2>6. s + (off - e) < m
    <3> HIDE DEF s, l, m, e, p
    <3> QED BY <2>1, <2>3, <2>4
  <2> QED BY <2>5, <2>6
<1> QED BY <1>2 DEF InReach

\* What has been handed out stays so.
LEMMA ReachGrows ==
    ASSUME NEW s \in Seq(Ids), NEW a \in Nat, NEW b \in Nat, a <= b, InReach(s, a)
    PROVE  InReach(s, b)
<1>1. ASSUME NEW i \in 1..Len(s) PROVE s[i].off < Limit(s[i].source, b)
  <2>1. s[i] \in Ids /\ s[i].off < Limit(s[i].source, a)
    BY DEF InReach
  <2>2. s[i].off \in Nat
    BY <2>1 DEF Ids
  <2> QED BY <2>1, <2>2 DEF Limit
<1> QED BY <1>1 DEF InReach

\* A table whose add buffer has grown.
LEMMA GrownIs ==
    ASSUME NEW t, Sized(t), NEW n \in Nat
    PROVE  LET u == [t EXCEPT !.addLen = t.addLen + n]
           IN  /\ Sized(u) /\ u.addLen = t.addLen + n
               /\ u.pieces = t.pieces /\ u.len = t.len
<1> DEFINE a == t.addLen
           u == [t EXCEPT !.addLen = a + n]
<1>1. t \in TableType /\ t.pieces \in Seq(Pieces) /\ a \in Nat
  BY SizedParts DEF Sized
<1>2. /\ u \in TableType /\ u.addLen = a + n /\ u.pieces = t.pieces /\ u.len = t.len
      /\ u.prefixEnds = t.prefixEnds /\ u.prefixDirty = t.prefixDirty
  <2>1. a + n \in Nat
    BY <1>1
  <2> HIDE DEF a
  <2> QED BY <1>1, <2>1 DEF TableType
<1> HIDE DEF u
<1>3. Within(t.pieces, a + n)
  <2>1. ASSUME NEW i \in 1..Len(t.pieces)
        PROVE  t.pieces[i].start + t.pieces[i].len <= Limit(t.pieces[i].source, a + n)
    <3> DEFINE p == t.pieces[i]
               x == p.start
               y == p.len
    <3>1. x \in Nat /\ y \in Nat /\ x + y <= Limit(p.source, a)
      BY <1>1, PieceAt DEF Sized, Within
    <3> HIDE DEF p, x, y, a
    <3>2. CASE p.source = "Add"
      <4>1. x + y <= a
        BY <3>1, <3>2 DEF Limit
      <4>2. x + y <= a + n
        BY <1>1, <3>1, <4>1
      <4> QED BY <3>2, <4>2 DEF Limit, p, x, y
    <3>3. CASE p.source # "Add"
      BY <3>1, <3>3 DEF Limit, p, x, y
    <3> QED BY <3>2, <3>3
  <2> QED BY <2>1 DEF Within
<1>4. Sized(u)
  <2>1. /\ t.len = Ends(t.pieces)[Len(t.pieces)] /\ Filled(t.pieces)
        /\ ~t.prefixDirty => t.prefixEnds = PrefixSums(t.pieces)
    BY DEF Sized
  <2> QED BY <1>2, <1>3, <2>1 DEF Sized
<1> QED BY <1>2, <1>4 DEF u

\* insert_bytes.
LEMMA InsertedIs ==
    ASSUME NEW t, Sized(t), NEW off \in Nat, NEW n \in Nat,
           NEW o, o = IF off < t.len THEN off ELSE t.len
    PROVE  LET u == InsertedTable(t, off, n)
           IN  /\ Settled(u) /\ u.addLen = t.addLen + n
               /\ CellsOf(u.pieces) = SplicedIn(CellsOf(t.pieces), o,
                                                PieceCells(Piece("Add", t.addLen, n)))
<1> DEFINE a == t.addLen
           v == [t EXCEPT !.addLen = a + n]
           p == Piece("Add", a, n)
           u == SplicePieces(v, off, <<p>>, n)
<1>1. a \in Nat
  BY SizedParts
<1>2. Sized(v) /\ v.addLen = a + n /\ v.pieces = t.pieces /\ v.len = t.len
  BY GrownIs
<1>3. p \in Pieces /\ p.start = a /\ p.len = n /\ p.source = "Add"
  BY <1>1 DEF Piece, Pieces, Sources
<1>4. InsertedTable(t, off, n) = u
  BY DEF InsertedTable
<1> HIDE DEF v, p, a
<1>5. <<p>> \in Seq(Pieces) /\ Len(<<p>>) = 1 /\ <<p>>[1] = p
  BY <1>3
<1>6. Within(<<p>>, v.addLen)
  BY <1>1, <1>2, <1>3, <1>5 DEF Within, Limit
<1>7. CellsOf(<<p>>) = PieceCells(p) /\ n = Len(CellsOf(<<p>>))
  <2>1. CellsOf(<<p>>) = PieceCells(p)
    BY <1>3, CellsOfOne
  <2> QED BY <1>3, <2>1, CellsOfPiece
<1> DEFINE ps == <<p>>
<1> HIDE DEF ps
<1>8. /\ ps \in Seq(Pieces) /\ Within(ps, v.addLen) /\ n = Len(CellsOf(ps))
      /\ o = IF off < v.len THEN off ELSE v.len
  BY <1>2, <1>5, <1>6, <1>7 DEF ps
<1> DEFINE w == SplicePieces(v, off, ps, n)
<1>9. /\ Settled(w) /\ w.addLen = v.addLen
      /\ CellsOf(w.pieces) = SplicedIn(CellsOf(v.pieces), o, CellsOf(ps))
  BY <1>2, <1>8, SpliceIs
<1>10. w = u
  BY DEF ps
<1> HIDE DEF w, u
<1>11. CellsOf(w.pieces) = SplicedIn(CellsOf(t.pieces), o, PieceCells(p))
  BY <1>2, <1>7, <1>9 DEF ps
<1> QED BY <1>2, <1>4, <1>9, <1>10, <1>11 DEF a, p

\* insert_existing_cells.
LEMMA RestoredIs ==
    ASSUME NEW t, Sized(t), NEW off \in Nat, off <= t.len, NEW run \in Seq(Ids),
           InReach(run, t.addLen)
    PROVE  LET u == RestoredTable(t, off, run)
           IN  /\ Settled(u) /\ u.addLen = t.addLen
               /\ CellsOf(u.pieces) = SplicedIn(CellsOf(t.pieces), off, run)
<1> DEFINE ps == CellsToPieces(run)
           n == Len(run)
<1>1. t.addLen \in Nat /\ t.len \in Nat
  BY SizedParts
<1>2. ps \in Seq(Pieces) /\ Within(ps, t.addLen) /\ CellsOf(ps) = run
  BY <1>1, CellsToPiecesIs
<1>3. RestoredTable(t, off, run) = SplicePieces(t, off, ps, n)
  BY DEF RestoredTable
<1>4. n = Len(CellsOf(ps))
  BY <1>2
<1> HIDE DEF ps, n
<1>5. off = IF off < t.len THEN off ELSE t.len
  BY <1>1
<1>6. /\ Settled(SplicePieces(t, off, ps, n)) /\ SplicePieces(t, off, ps, n).addLen = t.addLen
      /\ CellsOf(SplicePieces(t, off, ps, n).pieces)
            = SplicedIn(CellsOf(t.pieces), off, CellsOf(ps))
  BY <1>2, <1>4, <1>5, SpliceIs
<1> QED BY <1>2, <1>3, <1>6

(***************************************************************************)
(* The invariant of the table and of what its deletions hand out           *)
(***************************************************************************)

TableInv ==
    /\ Settled(table)
    /\ removed \subseteq Seq(Ids)
    /\ \A run \in removed : InReach(run, table.addLen)

\* The table of a file that has just been opened.
LEMMA NewTableIs ==
    /\ Settled(NewTable) /\ NewTable.addLen = 0 /\ NewTable.len = OriginalLen
    /\ CellsOf(NewTable.pieces) = PieceCells(Piece("Original", 0, OriginalLen))
<1> DEFINE p == Piece("Original", 0, OriginalLen)
           ps == NewTable.pieces
<1>1. p \in Pieces /\ p.start = 0 /\ p.len = OriginalLen /\ p.source = "Original"
  BY TableConstants DEF Piece, Pieces, Sources
<1>2. /\ NewTable.addLen = 0 /\ NewTable.len = OriginalLen /\ NewTable.prefixEnds = <<>>
      /\ NewTable.prefixDirty = TRUE
      /\ ps = IF OriginalLen = 0 THEN <<>> ELSE <<p>>
  BY DEF NewTable
<1>3. <<p>> \in Seq(Pieces) /\ Len(<<p>>) = 1 /\ <<p>>[1] = p
  BY <1>1
<1>4. PieceCells(p) \in Seq(Ids) /\ Len(PieceCells(p)) = OriginalLen
  BY <1>1, CellsOfPiece
<1>5. /\ ps \in Seq(Pieces) /\ CellsOf(ps) = PieceCells(p)
      /\ Within(ps, 0) /\ Filled(ps) /\ Parted(ps)
  <2>1. CASE OriginalLen = 0
    <3>1. ps = <<>> /\ Len(ps) = 0 /\ ps \in Seq(Pieces)
      BY <1>2, <2>1
    <3>2. PieceCells(p) = <<>>
      BY <1>4, <2>1
    <3>3. Within(ps, 0) /\ Filled(ps) /\ Parted(ps)
      BY <3>1 DEF Within, Filled, Parted
    <3> QED BY <3>1, <3>2, <3>3, CellsOfOne
  <2>2. CASE OriginalLen # 0
    <3>1. ps = <<p>>
      BY <1>2, <2>2
    <3>2. CellsOf(<<p>>) = PieceCells(p)
      BY <1>1, CellsOfOne
    <3> HIDE DEF p
    <3>3. Within(<<p>>, 0) /\ Filled(<<p>>) /\ Parted(<<p>>)
      BY <1>1, <1>3, <2>2, TableConstants DEF Within, Filled, Parted, Limit
    <3> QED BY <1>3, <3>1, <3>2, <3>3
  <2> QED BY <2>1, <2>2
<1>6. OriginalLen = Ends(ps)[Len(ps)]
  BY <1>4, <1>5, CellsOfType
<1>7. NewTable \in TableType
  <2>1. NewTable = [addLen |-> 0, pieces |-> ps, len |-> OriginalLen,
                    prefixEnds |-> <<>>, prefixDirty |-> TRUE]
    BY DEF NewTable
  <2> HIDE DEF ps
  <2> QED BY <1>5, <2>1, TableConstants DEF TableType
<1> HIDE DEF p
<1>8. Sized(NewTable)
  BY <1>2, <1>5, <1>6, <1>7 DEF Sized
<1> QED BY <1>2, <1>5, <1>8 DEF Settled, p

\* It holds of the table of a file that has just been opened.
LEMMA TableInit == Init => TableInv
  BY NewTableIs DEF Init, TableInv

\* Under the invariant the document is a sequence of cells as long as it says.
LEMMA CellsAre ==
    ASSUME TableInv
    PROVE  /\ Sized(table) /\ table.addLen \in Nat /\ table.len \in Nat
           /\ Cells \in Seq(Ids) /\ Len(Cells) = table.len
<1>1. Sized(table)
  BY DEF TableInv, Settled
<1> QED BY <1>1, SizedParts, CellsOfType DEF Cells

\* What has been handed out stays in reach when the add buffer only grows.
LEMMA RunsStay ==
    ASSUME TableInv, NEW a \in Nat, table.addLen <= a
    PROVE  \A run \in removed : run \in Seq(Ids) /\ InReach(run, a)
<1>1. table.addLen \in Nat
  BY CellsAre
<1>2. ASSUME NEW run \in removed PROVE run \in Seq(Ids) /\ InReach(run, a)
  <2>1. run \in Seq(Ids) /\ InReach(run, table.addLen)
    BY DEF TableInv
  <2> QED BY <1>1, <2>1, ReachGrows
<1> QED BY <1>2

\* insert_bytes, with its offset clamped to the document.
LEMMA InsertStep ==
    ASSUME TableInv, NEW off \in Nat, NEW n \in Nat, InsertBytes(off, n)
    PROVE  TableInv' /\ Abstract!InsertBytes(Lower(off, table.len), n)
<1> DEFINE o == Lower(off, table.len)
           a == table.addLen
<1>1. /\ Sized(table) /\ a \in Nat /\ table.len \in Nat
  BY CellsAre
<1>2. /\ a + n <= MaxAdd /\ table' = InsertedTable(table, off, n) /\ removed' = removed
  BY DEF InsertBytes
<1>3. /\ Settled(table') /\ table'.addLen = a + n
      /\ CellsOf(table'.pieces) = SplicedIn(CellsOf(table.pieces), o,
                                            PieceCells(Piece("Add", a, n)))
  <2>1. o = IF off < table.len THEN off ELSE table.len
    BY DEF Lower
  <2> HIDE DEF o
  <2> QED BY <1>1, <1>2, <2>1, InsertedIs
<1> HIDE DEF o
<1>4. TableInv'
  <2>1. \A run \in removed : run \in Seq(Ids) /\ InReach(run, a + n)
    BY <1>1, RunsStay
  <2>2. /\ Settled(table') /\ removed' \subseteq Seq(Ids)
        /\ \A run \in removed' : InReach(run, table'.addLen)
    BY <1>2, <1>3, <2>1
  <2> QED BY <2>2 DEF TableInv
<1>5. PieceCells(Piece("Add", a, n)) = Abstract!CellRun("Add", a, n)
  BY DEF PieceCells, Piece, CellId, Abstract!CellRun, Abstract!CellId
<1>6. Cells' = Abstract!SpliceIn(Cells, o, Abstract!CellRun("Add", a, n))
  <2>1. Cells' = SplicedIn(Cells, o, Abstract!CellRun("Add", a, n))
    BY <1>3, <1>5 DEF Cells
  <2> QED BY <2>1 DEF SplicedIn, Abstract!SpliceIn
<1> QED BY <1>2, <1>3, <1>4, <1>6 DEF Abstract!InsertBytes, o

\* insert_existing_cells.
LEMMA RestoreStep ==
    ASSUME TableInv, NEW off \in 0..table.len, NEW run \in removed,
           InsertExistingCells(off, run)
    PROVE  TableInv' /\ Abstract!InsertExistingCells(off, run)
<1> DEFINE a == table.addLen
<1>1. Sized(table) /\ a \in Nat /\ table.len \in Nat
  BY CellsAre
<1>2. table' = RestoredTable(table, off, run) /\ removed' = removed \ {run}
  BY DEF InsertExistingCells
<1>3. \A r \in removed : r \in Seq(Ids) /\ InReach(r, a)
  BY DEF TableInv
<1>4. off \in Nat /\ off <= table.len
  BY <1>1
<1>5. /\ Settled(table') /\ table'.addLen = a
      /\ CellsOf(table'.pieces) = SplicedIn(CellsOf(table.pieces), off, run)
  BY <1>1, <1>2, <1>3, <1>4, RestoredIs
<1>6. TableInv'
  <2>1. /\ Settled(table') /\ removed' \subseteq Seq(Ids)
        /\ \A r \in removed' : InReach(r, table'.addLen)
    BY <1>2, <1>3, <1>5
  <2> QED BY <2>1 DEF TableInv
<1>7. Cells' = Abstract!SpliceIn(Cells, off, run)
  <2>1. Cells' = SplicedIn(Cells, off, run)
    BY <1>5 DEF Cells
  <2> QED BY <2>1 DEF SplicedIn, Abstract!SpliceIn
<1> QED BY <1>2, <1>5, <1>6, <1>7 DEF Abstract!InsertExistingCells

\* Every part of a document is a run of cells that have been handed out.
LEMMA ReachOfPart ==
    ASSUME NEW s \in Seq(Ids), NEW add, InReach(s, add), NEW a \in Nat, NEW b \in Nat,
           a <= b, b <= Len(s)
    PROVE  SubSeq(s, a + 1, b) \in Seq(Ids) /\ InReach(SubSeq(s, a + 1, b), add)
<1> DEFINE u == SubSeq(s, a + 1, b)
<1>1. u \in Seq(Ids) /\ Len(u) = b - a /\ \A i \in 1..(b - a) : u[i] = s[a + i]
  BY PartOf
<1> HIDE DEF u
<1>2. ASSUME NEW i \in 1..Len(u) PROVE u[i].off < Limit(u[i].source, add)
  <2>0. Len(s) \in Nat /\ i \in 1..(b - a)
    BY <1>1
  <2>1. a + i \in 1..Len(s) /\ u[i] = s[a + i]
    <3>1. u[i] = s[a + i]
      BY <1>1, <2>0
    <3>2. a + i \in 1..Len(s)
      BY <2>0
    <3> QED BY <3>1, <3>2
  <2> QED BY <2>1 DEF InReach
<1> QED BY <1>1, <1>2 DEF InReach, u

\* delete_range_real, with its length clamped to the document.
LEMMA DeleteStep ==
    ASSUME TableInv, NEW off \in 0..table.len, NEW n \in Nat, DeleteRangeReal(off, n),
           NEW end, end = IF off + n < table.len THEN off + n ELSE table.len
    PROVE  /\ TableInv'
           /\ \/ /\ off \in 0..Len(Cells) /\ end - off \in 1..(Len(Cells) - off)
                 /\ Abstract!DeleteRangeReal(off, end - off)
              \/ UNCHANGED vars
<1> DEFINE a == table.addLen
           run == CellIdsRange(table, off, n)
<1>1. /\ Sized(table) /\ a \in Nat /\ table.len \in Nat
      /\ Cells \in Seq(Ids) /\ Len(Cells) = table.len
  BY CellsAre
<1>2. off \in Nat /\ off <= table.len
  BY <1>1
<1>3. CASE run = <<>>
  <2>1. UNCHANGED vars
    BY <1>3 DEF DeleteRangeReal
  <2>2. table' = table /\ removed' = removed
    BY <2>1 DEF vars
  <2>3. TableInv'
    BY <2>2 DEF TableInv
  <2> QED BY <2>1, <2>3
<1>4. CASE run # <<>>
  <2>1. n # 0 /\ off < table.len /\ run = SubSeq(Cells, off + 1, end)
    <3>1. /\ n = 0 \/ off >= table.len => run = <<>>
          /\ n # 0 /\ off < table.len => run = SubSeq(CellsOf(table.pieces), off + 1, end)
      BY <1>1, <1>2, RangeIs
    <3>2. n # 0 /\ ~(off >= table.len)
      BY <1>4, <3>1
    <3>3. off < table.len
      BY <1>1, <1>2, <3>2
    <3> QED BY <3>1, <3>2, <3>3 DEF Cells
  <2>2. /\ end \in Nat /\ off < end /\ end <= table.len /\ off + (end - off) = end
        /\ end - off \in 1..(Len(Cells) - off) /\ off \in 0..Len(Cells)
    <3> DEFINE l == table.len
    <3>1. l \in Nat /\ off < l /\ n # 0 /\ end = IF off + n < l THEN off + n ELSE l
      BY <1>1, <2>1
    <3> HIDE DEF l
    <3>2. /\ end \in Nat /\ off < end /\ end <= l /\ off + (end - off) = end
          /\ end - off \in 1..(l - off) /\ off \in 0..l
      BY <1>2, <3>1
    <3> QED BY <1>1, <3>2 DEF l
  <2>3. /\ table' = DeletedTable(table, off, n) /\ removed' = removed \cup {run}
    <3> HIDE DEF run
    <3> QED BY <1>4 DEF DeleteRangeReal, run
  <2>4. /\ Settled(table') /\ table'.addLen = a
        /\ CellsOf(table'.pieces) = CutOut(CellsOf(table.pieces), off, end)
    BY <1>1, <1>2, <2>1, <2>3, DeleteIs
  <2> HIDE DEF run
  <2>5. run \in Seq(Ids) /\ InReach(run, a)
    <3>1. InReach(Cells, a)
      BY <1>1, CellsInReach DEF Cells
    <3>2. off <= end /\ end <= Len(Cells)
      BY <1>1, <1>2, <2>2
    <3> QED BY <1>1, <1>2, <2>1, <2>2, <3>1, <3>2, ReachOfPart
  <2>6. TableInv'
    <3>1. \A r \in removed : r \in Seq(Ids) /\ InReach(r, a)
      BY DEF TableInv
    <3>2. /\ Settled(table') /\ removed' \subseteq Seq(Ids)
          /\ \A r \in removed' : InReach(r, table'.addLen)
      BY <2>3, <2>4, <2>5, <3>1
    <3> QED BY <3>2 DEF TableInv
  <2>7. Abstract!DeleteRangeReal(off, end - off)
    <3> DEFINE m == end - off
    <3>1. off + m = end
      BY <2>2
    <3> HIDE DEF m
    <3>2. Cells' = SubSeq(Cells, 1, off) \o SubSeq(Cells, off + m + 1, Len(Cells))
      BY <2>4, <3>1 DEF Cells, CutOut
    <3>3. removed' = removed \cup {SubSeq(Cells, off + 1, off + m)}
      BY <2>1, <2>3, <3>1
    <3>4. table'.addLen = table.addLen
      BY <2>4
    <3>5. Abstract!DeleteRangeReal(off, m)
      BY <3>2, <3>3, <3>4 DEF Abstract!DeleteRangeReal
    <3> QED BY <3>5 DEF m
  <2> QED BY <2>2, <2>6, <2>7
<1> QED BY <1>3, <1>4

\* A lookup leaves the document alone.
LEMMA LookupStep ==
    ASSUME TableInv, NEW off, Lookup(off)
    PROVE  TableInv' /\ UNCHANGED <<Cells, table.addLen, removed>>
<1>1. Sized(table) /\ table' = EnsurePrefix(table) /\ removed' = removed
  BY CellsAre DEF Lookup
<1>2. Sized(table') /\ table'.pieces = table.pieces /\ table'.addLen = table.addLen
  BY <1>1, EnsureIs
<1>3. Settled(table')
  BY <1>2 DEF TableInv, Settled
<1>4. TableInv'
  BY <1>1, <1>2, <1>3 DEF TableInv
<1>5. Cells' = Cells
  BY <1>2 DEF Cells
<1> QED BY <1>1, <1>2, <1>4, <1>5

\* Every step keeps the invariant and is one of the sequence of cells.
LEMMA TableStep ==
    TableInv /\ [Next]_vars => TableInv' /\ [Abstract!Next]_<<Cells, table.addLen, removed>>
<1> SUFFICES ASSUME TableInv, [Next]_vars
             PROVE  TableInv' /\ [Abstract!Next]_<<Cells, table.addLen, removed>>
  OBVIOUS
<1>1. table.len \in Nat /\ Len(Cells) = table.len
  BY CellsAre
<1>2. ASSUME NEW off \in 0..(table.len + 1), NEW n \in 1..MaxInsert, InsertBytes(off, n)
      PROVE  TableInv' /\ [Abstract!Next]_<<Cells, table.addLen, removed>>
  <2>1. off \in Nat /\ n \in Nat
    BY <1>1, TableConstants
  <2>2. TableInv' /\ Abstract!InsertBytes(Lower(off, table.len), n)
    BY <1>2, <2>1, InsertStep
  <2>3. Lower(off, table.len) \in 0..Len(Cells)
    BY <1>1, <2>1 DEF Lower
  <2> QED BY <2>2, <2>3 DEF Abstract!Next
<1>3. ASSUME NEW off \in 0..table.len, NEW run \in removed, InsertExistingCells(off, run)
      PROVE  TableInv' /\ [Abstract!Next]_<<Cells, table.addLen, removed>>
  <2>1. TableInv' /\ Abstract!InsertExistingCells(off, run)
    BY <1>3, RestoreStep
  <2> QED BY <1>1, <2>1 DEF Abstract!Next
<1>4. ASSUME NEW off \in 0..table.len, NEW n \in 0..(table.len + 1), DeleteRangeReal(off, n)
      PROVE  TableInv' /\ [Abstract!Next]_<<Cells, table.addLen, removed>>
  <2> DEFINE end == IF off + n < table.len THEN off + n ELSE table.len
  <2>1. n \in Nat
    BY <1>1
  <2>2. /\ TableInv'
        /\ \/ /\ off \in 0..Len(Cells) /\ end - off \in 1..(Len(Cells) - off)
              /\ Abstract!DeleteRangeReal(off, end - off)
           \/ UNCHANGED vars
    <3> HIDE DEF end
    <3> QED BY <1>4, <2>1, DeleteStep DEF end
  <2> HIDE DEF end
  <2>3. CASE UNCHANGED vars
    <3>1. UNCHANGED <<Cells, table.addLen, removed>>
      BY <2>3 DEF vars, Cells
    <3> QED BY <2>2, <3>1
  <2> QED BY <2>2, <2>3 DEF Abstract!Next
<1>5. ASSUME NEW off \in 0..table.len, Lookup(off)
      PROVE  TableInv' /\ [Abstract!Next]_<<Cells, table.addLen, removed>>
  BY <1>5, LookupStep
<1>6. CASE UNCHANGED vars
  <2>1. table' = table /\ removed' = removed
    BY <1>6 DEF vars
  <2> QED BY <2>1 DEF TableInv, Cells
<1> QED BY <1>2, <1>3, <1>4, <1>5, <1>6 DEF Next

\* The struct's documented invariants follow.
LEMMA InvGivesStructure == TableInv => Structure
<1> SUFFICES ASSUME TableInv PROVE Structure
  OBVIOUS
<1> DEFINE ps == table.pieces
           add == table.addLen
<1>1. /\ Sized(table) /\ Parted(ps) /\ ps \in Seq(Pieces)
      /\ Within(ps, add) /\ Filled(ps) /\ table.len = Len(Cells)
      /\ ~table.prefixDirty => table.prefixEnds = PrefixSums(ps)
  BY CellsAre, SizedParts DEF TableInv, Settled, Sized
<1> HIDE DEF ps, add
<1>2. ASSUME NEW i \in 1..Len(ps)
      PROVE  /\ ps[i].len > 0
             /\ ps[i].start + ps[i].len <= IF ps[i].source = "Add" THEN add ELSE OriginalLen
             /\ i > 1 => ~Continues(SubSeq(ps, 1, i - 1), ps[i])
  <2>1. ps[i].len > 0
    BY <1>1 DEF Filled
  <2>2. ps[i].start + ps[i].len <= Limit(ps[i].source, add)
    BY <1>1 DEF Within
  <2>3. ASSUME i > 1 PROVE ~Continues(SubSeq(ps, 1, i - 1), ps[i])
    <3> DEFINE qs == SubSeq(ps, 1, i - 1)
    <3>1. ~Follows(ps[i - 1], ps[i])
      BY <1>1, <2>3 DEF Parted
    <3>2. Len(qs) = i - 1 /\ qs[i - 1] = ps[i - 1]
      <4>1. i - 1 \in 1..Len(ps) /\ i - 1 <= Len(ps) /\ i - 1 \in Nat
        BY <1>1, <2>3
      <4>2. \A j \in 1..(i - 1) : qs[j] = ps[j]
        BY <1>1, <4>1
      <4>3. Len(qs) = i - 1
        BY <1>1, <4>1
      <4> QED BY <2>3, <4>1, <4>2, <4>3
    <3> HIDE DEF qs
    <3>3. Last(qs) = ps[i - 1]
      BY <3>2, Zenon DEF Last
    <3> QED BY <3>1, <3>3 DEF Continues, Follows, qs
  <2>4. Limit(ps[i].source, add) = IF ps[i].source = "Add" THEN add ELSE OriginalLen
    BY DEF Limit
  <2> QED BY <2>1, <2>2, <2>3, <2>4
<1>3. DOMAIN ps = 1..Len(ps)
  BY <1>1
<1> QED BY <1>1, <1>2, <1>3 DEF Structure, ps, add

\* resolve answers for the document.
LEMMA ResolveIs ==
    ASSUME NEW t, Sized(t), NEW off \in Nat
    PROVE  Resolve(t, off) = IF off < t.len THEN CellsOf(t.pieces)[off + 1] ELSE NoCell
<1> DEFINE u == EnsurePrefix(t)
<1>1. Sized(u) /\ u.pieces = t.pieces /\ u.len = t.len /\ t.len \in Nat
  BY EnsureIs, SizedParts
<1> HIDE DEF u
<1>2. CASE off < t.len
  <2>1. PICK k \in 1..Len(t.pieces) :
           LET p == t.pieces[k]
               e == Ends(t.pieces)[k - 1]
           IN  /\ FindPiece(u, off) = k /\ PieceStart(u, k) = e
               /\ CellsOf(t.pieces)[off + 1] = CellId(p.source, p.start + (off - e))
    BY <1>2, CellShown DEF u
  <2>2. k # 0
    OBVIOUS
  <2>3. Resolve(t, off) = CellId(u.pieces[k].source,
                                 u.pieces[k].start + (off - PieceStart(u, k)))
    BY <2>1, <2>2, Zenon DEF Resolve, u
  <2> QED BY <1>1, <1>2, <2>1, <2>3
<1>3. CASE ~(off < t.len)
  <2>1. FindPiece(u, off) = 0
    <3>1. off >= u.len
      BY <1>1, <1>3
    <3> QED BY <3>1, FindNothing
  <2>2. Resolve(t, off) = NoCell
    BY <2>1, Zenon DEF Resolve, u
  <2> QED BY <1>3, <2>2
<1> QED BY <1>2, <1>3

\* Two pieces in a row show the cells of their sources in a row.
LEMMA CellsInRow ==
    ASSUME NEW ps \in Seq(Pieces), Filled(ps), NEW k \in 1..Len(ps)
    PROVE  /\ Ends(ps)[k - 1] + 1 \in 1..Len(CellsOf(ps))
           /\ CellsOf(ps)[Ends(ps)[k - 1] + 1] = CellId(ps[k].source, ps[k].start)
<1>1. /\ ps[k].len \in Nat /\ ps[k].start \in Nat /\ ps[k].len > 0
  BY PieceAt DEF Filled
<1>2. 1 \in 1..ps[k].len
  BY <1>1
<1>3. /\ Ends(ps)[k - 1] + 1 \in 1..Len(CellsOf(ps))
      /\ CellsOf(ps)[Ends(ps)[k - 1] + 1] = CellId(ps[k].source, ps[k].start + 1 - 1)
  BY <1>2, CellAt
<1>4. ps[k].start + 1 - 1 = ps[k].start
  BY <1>1
<1> QED BY <1>3, <1>4

\* is_identity is right: pieces that show the cells of the file in order, none
\* of them continuing its neighbour, are the one piece the file began with.
LEMMA IdentityIs ==
    ASSUME NEW t, Settled(t)
    PROVE  IsIdentity(t) <=>
              CellsOf(t.pieces) = PieceCells(Piece("Original", 0, OriginalLen))
<1> DEFINE ps == t.pieces
           all == PieceCells(Piece("Original", 0, OriginalLen))
<1>1. /\ Sized(t) /\ ps \in Seq(Pieces) /\ Filled(ps) /\ Parted(ps)
      /\ t.len = Len(CellsOf(ps)) /\ t.len = Ends(ps)[Len(ps)]
  BY SizedParts DEF Settled, Sized
<1>2. /\ all \in Seq(Ids) /\ Len(all) = OriginalLen
      /\ \A i \in 1..OriginalLen : all[i] = CellId("Original", i - 1)
  <2> DEFINE p == Piece("Original", 0, OriginalLen)
  <2>1. p \in Pieces /\ p.start = 0 /\ p.len = OriginalLen /\ p.source = "Original"
    BY TableConstants DEF Piece, Pieces, Sources
  <2> HIDE DEF p
  <2>2. /\ PieceCells(p) \in Seq(Ids) /\ Len(PieceCells(p)) = OriginalLen
        /\ \A i \in 1..OriginalLen : PieceCells(p)[i] = CellId("Original", 0 + i - 1)
    BY <2>1, CellsOfPiece
  <2>3. \A i \in 1..OriginalLen : 0 + i - 1 = i - 1
    BY TableConstants
  <2> QED BY <2>2, <2>3 DEF p
<1> HIDE DEF all
<1>3. ASSUME IsIdentity(t) PROVE CellsOf(ps) = all
  <2>1. ps = NewTable.pieces
    BY <1>3 DEF IsIdentity
  <2> HIDE DEF ps
  <2> QED BY <2>1, NewTableIs DEF all
<1>4. ASSUME CellsOf(ps) = all PROVE IsIdentity(t)
  <2> HIDE DEF ps
  <2>1. t.len = OriginalLen /\ OriginalLen \in Nat
    BY <1>1, <1>2, <1>4, TableConstants
  <2>2. Ends(ps)[0] = 0 /\ \A i \in 0..Len(ps) : Ends(ps)[i] \in Nat
    BY <1>1, EndsAre
  <2>3. Len(ps) \in Nat
    BY <1>1
  <2>4. CASE OriginalLen = 0
    <3>1. Len(ps) = 0
      <4> SUFFICES ASSUME Len(ps) # 0 PROVE FALSE
        BY <2>3
      <4>1. 1 \in 1..Len(ps)
        BY <2>3
      <4>2. Ends(ps)[1 - 1] + 1 \in 1..Len(CellsOf(ps))
        BY <1>1, <4>1, CellsInRow
      <4> QED BY <1>2, <1>4, <2>4, <4>2
    <3>2. ps = <<>>
      BY <1>1, <3>1
    <3>3. NewTable.pieces = <<>>
      BY <2>4 DEF NewTable
    <3> QED BY <2>1, <3>2, <3>3 DEF IsIdentity, ps
  <2>5. CASE OriginalLen # 0
    <3>1. Len(ps) # 0
      BY <1>1, <2>1, <2>2, <2>5
    <3>2. 1 \in 1..Len(ps) /\ 0 \in 0..Len(ps) /\ 1 - 1 = 0
      BY <2>3, <3>1
    <3>3. ps[1].source = "Original" /\ ps[1].start = 0
      <4>1. CellsOf(ps)[Ends(ps)[1 - 1] + 1] = CellId(ps[1].source, ps[1].start)
        BY <1>1, <3>2, CellsInRow
      <4>2. Ends(ps)[1 - 1] + 1 = 1
        BY <2>2, <3>2
      <4>3. all[1] = CellId("Original", 0)
        <5>1. 1 \in 1..OriginalLen
          BY <2>1, <2>5
        <5>2. all[1] = CellId("Original", 1 - 1)
          BY <1>2, <5>1
        <5> QED BY <3>2, <5>2
      <4>4. CellId(ps[1].source, ps[1].start) = CellId("Original", 0)
        BY <1>4, <4>1, <4>2, <4>3
      <4> QED BY <4>4 DEF CellId
    <3>4. Ends(ps)[1] = ps[1].len /\ ps[1].len \in Nat /\ ps[1].start \in Nat
      <4>1. Ends(ps)[1] = Ends(ps)[1 - 1] + ps[1].len /\ ps[1].len \in Nat
            /\ ps[1].start \in Nat
        BY <1>1, <3>2, EndsAre, PieceAt
      <4> QED BY <2>2, <3>2, <4>1
    <3>5. Len(ps) = 1
      <4> SUFFICES ASSUME Len(ps) # 1 PROVE FALSE
        OBVIOUS
      <4> DEFINE l == ps[1].len
      <4>1. 2 \in 1..Len(ps) /\ 2 - 1 = 1 /\ 2 > 1
        <5> DEFINE m == Len(ps)
        <5>1. m \in Nat /\ m # 0 /\ m # 1
          BY <2>3, <3>1
        <5> HIDE DEF m
        <5>2. 2 \in 1..m
          BY <5>1
        <5> QED BY <5>2 DEF m
      <4>2. /\ Ends(ps)[2 - 1] + 1 \in 1..Len(CellsOf(ps))
            /\ CellsOf(ps)[Ends(ps)[2 - 1] + 1] = CellId(ps[2].source, ps[2].start)
        BY <1>1, <4>1, CellsInRow
      <4>3. /\ l + 1 \in 1..OriginalLen
            /\ all[l + 1] = CellId(ps[2].source, ps[2].start)
        BY <1>2, <1>4, <3>4, <4>1, <4>2
      <4>4. all[l + 1] = CellId("Original", (l + 1) - 1)
        BY <1>2, <4>3
      <4>5. (l + 1) - 1 = l
        BY <3>4
      <4>6. CellId(ps[2].source, ps[2].start) = CellId("Original", l)
        BY <4>3, <4>4, <4>5
      <4>7. ps[2].source = "Original" /\ ps[2].start = l
        BY <4>6 DEF CellId
      <4>8. 0 + l = l
        BY <3>4
      <4>9. Follows(ps[1], ps[2])
        BY <3>3, <4>7, <4>8 DEF Follows
      <4>10. ~Follows(ps[2 - 1], ps[2])
        BY <1>1, <4>1 DEF Parted
      <4> QED BY <4>1, <4>9, <4>10
    <3>6. ps[1] = Piece("Original", 0, OriginalLen)
      <4>1. ps[1].len = OriginalLen
        BY <1>1, <2>1, <3>4, <3>5
      <4>2. ps[1] = Piece(ps[1].source, ps[1].start, ps[1].len)
        BY <1>1, <3>2, PieceAt
      <4> QED BY <3>3, <4>1, <4>2
    <3>7. ps = <<ps[1]>>
      <4>1. ps[1] \in Pieces
        BY <1>1, <3>2, PieceAt
      <4> QED BY <1>1, <3>5, <4>1
    <3>8. NewTable.pieces = <<Piece("Original", 0, OriginalLen)>>
      BY <2>5 DEF NewTable
    <3>9. ps = NewTable.pieces
      BY <3>6, <3>7, <3>8
    <3> QED BY <2>1, <3>9 DEF IsIdentity, ps
  <2> QED BY <2>4, <2>5
<1> QED BY <1>3, <1>4 DEF all

\* What the table answers agrees with the document its pieces describe.
LEMMA InvGivesQueries == TableInv => QueriesExact
<1> SUFFICES ASSUME TableInv PROVE QueriesExact
  OBVIOUS
<1>1. /\ Sized(table) /\ table.len \in Nat /\ Cells \in Seq(Ids) /\ Len(Cells) = table.len
  BY CellsAre
<1>2. ASSUME NEW off \in 0..(table.len + 1)
      PROVE  Resolve(table, off) = IF off < Len(Cells) THEN Cells[off + 1] ELSE NoCell
  <2>1. off \in Nat
    BY <1>1
  <2>2. Resolve(table, off)
           = IF off < table.len THEN CellsOf(table.pieces)[off + 1] ELSE NoCell
    BY <1>1, <2>1, ResolveIs
  <2> QED BY <1>1, <2>2 DEF Cells
<1>3. ASSUME NEW off \in 0..table.len, NEW n \in 0..(table.len + 1)
      PROVE  CellIdsRange(table, off, n) =
                SubSeq(Cells, off + 1, IF off + n < Len(Cells) THEN off + n ELSE Len(Cells))
  <2> DEFINE end == IF off + n < table.len THEN off + n ELSE table.len
             run == CellIdsRange(table, off, n)
  <2>1. off \in Nat /\ n \in Nat /\ end \in Nat
    BY <1>1
  <2>2. /\ n = 0 \/ off >= table.len => run = <<>>
        /\ n # 0 /\ off < table.len => run = SubSeq(Cells, off + 1, end)
    <3> HIDE DEF end
    <3>1. /\ n = 0 \/ off >= table.len => run = <<>>
          /\ n # 0 /\ off < table.len => run = SubSeq(CellsOf(table.pieces), off + 1, end)
      BY <1>1, <2>1, RangeIs DEF end
    <3> QED BY <3>1 DEF Cells
  <2>3. n = 0 \/ off >= table.len => end <= off
    BY <1>1, <2>1
  <2>4. n = 0 \/ off >= table.len \/ off < table.len
    BY <1>1, <2>1
  <2> HIDE DEF run, end
  <2>5. run = SubSeq(Cells, off + 1, end)
    <3>1. CASE n # 0 /\ off < table.len
      BY <2>2, <3>1
    <3>2. CASE n = 0 \/ off >= table.len
      <4>1. SubSeq(Cells, off + 1, end) = <<>>
        BY <1>1, <2>1, <2>3, <3>2, NoPart
      <4> QED BY <2>2, <3>2, <4>1
    <3> QED BY <2>4, <3>1, <3>2
  <2> QED BY <1>1, <2>5 DEF run, end
<1>4. IsIdentity(table) <=> Cells = [i \in 1..OriginalLen |-> CellId("Original", i - 1)]
  <2>1. IsIdentity(table) <=> Cells = PieceCells(Piece("Original", 0, OriginalLen))
    BY IdentityIs DEF TableInv, Cells
  <2>2. PieceCells(Piece("Original", 0, OriginalLen))
           = [i \in 1..OriginalLen |-> CellId("Original", i - 1)]
    <3>1. PieceCells(Piece("Original", 0, OriginalLen))
             = [i \in 1..OriginalLen |-> CellId("Original", 0 + i - 1)]
      BY DEF PieceCells, Piece
    <3>2. \A i \in 1..OriginalLen : CellId("Original", 0 + i - 1) = CellId("Original", i - 1)
      <4>1. \A i \in 1..OriginalLen : 0 + i - 1 = i - 1
        BY TableConstants
      <4> QED BY <4>1
    <3> QED BY <3>1, <3>2
  <2> QED BY <2>1, <2>2
<1> QED BY <1>2, <1>3, <1>4 DEF QueriesExact

(***************************************************************************)
(* The theorems                                                            *)
(***************************************************************************)

\* The invariant holds in every state of the table.
THEOREM TableInvariant == Spec => []TableInv
<1>1. TableInv /\ [Next]_vars => TableInv'
  BY TableStep
<1> QED BY TableInit, <1>1, PTL DEF Spec

\* For a file of any length and inserts of any length, the length is that of
\* the pieces, no piece is empty or reaches past its source, neighbours that
\* could be one piece are one, and the prefix cache is stale or right.
THEOREM StructureKept == Spec => []Structure
  BY TableInvariant, InvGivesStructure, PTL

\* resolve and cell_ids_range answer for the document the pieces describe,
\* through the cache and the binary search in it, and is_identity says so
\* exactly when that document is the original file.
THEOREM QueriesAreExact == Spec => []QueriesExact
  BY TableInvariant, InvGivesQueries, PTL

\* Splitting, splicing, coalescing and the cache do to the pieces what the
\* sequence of cells says an edit does to the document.
THEOREM TableRefines == Spec => RefinesCellSequence
<1> HIDE DEF Cells
<1>1. Init => Abstract!Init
  <2> SUFFICES ASSUME Init PROVE Abstract!Init
    OBVIOUS
  <2>1. table = NewTable /\ removed = {} /\ table.addLen = 0
    BY NewTableIs DEF Init
  <2>2. Cells = PieceCells(Piece("Original", 0, OriginalLen))
    BY <2>1, NewTableIs DEF Cells
  <2>3. PieceCells(Piece("Original", 0, OriginalLen))
           = Abstract!CellRun("Original", 0, OriginalLen)
    BY DEF PieceCells, Piece, CellId, Abstract!CellRun, Abstract!CellId
  <2> QED BY <2>1, <2>2, <2>3 DEF Abstract!Init
<1>2. TableInv /\ [Next]_vars => [Abstract!Next]_<<Cells, table.addLen, removed>>
  BY TableStep
<1> QED BY <1>1, <1>2, TableInvariant, PTL DEF Spec, RefinesCellSequence, Abstract!Spec

(***************************************************************************)
(* What the table inherits from the sequence of cells it implements        *)
(***************************************************************************)

CellIds == [source : {"Original", "Add"}, off : Nat]

Injective(s) == \A i, j \in 1..Len(s) : s[i] = s[j] => i = j

Apart(s, t) == \A i \in 1..Len(s), j \in 1..Len(t) : s[i] # t[j]

\* Every inserted cell in s has an identity that has been handed out.
Allocated(s, n) == \A i \in 1..Len(s) : s[i].source = "Add" => s[i].off < n

(***************************************************************************)
(* A cell is shown at one offset at most, and one that a deletion returned *)
(* is in no other run and not in the document: an undo step that puts its  *)
(* cells back (insert_existing_cells) makes no tombstone or replacement    *)
(* show twice.                                                             *)
(***************************************************************************)
CellsDistinct ==
    /\ Injective(Cells)
    /\ \A r \in removed : Injective(r) /\ Apart(r, Cells)
    /\ \A r, s \in removed : r # s => Apart(r, s)

CellsInv ==
    /\ Cells \in Seq(CellIds)
    /\ removed \subseteq Seq(CellIds)
    /\ table.addLen \in Nat
    /\ Allocated(Cells, table.addLen)
    /\ \A r \in removed : Allocated(r, table.addLen)
    /\ CellsDistinct

\* A run of cells of one source lists each of them once.
LEMMA RunOfCells ==
    ASSUME NEW src \in {"Original", "Add"}, NEW start \in Nat, NEW n \in Nat
    PROVE  /\ Abstract!CellRun(src, start, n) \in Seq(CellIds)
           /\ Len(Abstract!CellRun(src, start, n)) = n
           /\ \A i \in 1..n : Abstract!CellRun(src, start, n)[i] =
                                [source |-> src, off |-> start + i - 1]
<1>1. \A i \in 1..n : Abstract!CellId(src, start + i - 1) \in CellIds
  BY DEF Abstract!CellId, CellIds
<1> QED
  BY <1>1 DEF Abstract!CellRun, Abstract!CellId

\* What a splice has at each position.
LEMMA SpliceAt ==
    ASSUME NEW s \in Seq(CellIds), NEW t \in Seq(CellIds), NEW off \in 0..Len(s)
    PROVE  /\ Abstract!SpliceIn(s, off, t) \in Seq(CellIds)
           /\ Len(Abstract!SpliceIn(s, off, t)) = Len(s) + Len(t)
           /\ \A i \in 1..(Len(s) + Len(t)) : Abstract!SpliceIn(s, off, t)[i] =
                IF i <= off THEN s[i]
                ELSE IF i <= off + Len(t) THEN t[i - off]
                ELSE s[i - Len(t)]
<1> DEFINE front == SubSeq(s, 1, off)
           back == SubSeq(s, off + 1, Len(s))
           mid == front \o t
           u == mid \o back
<1>0. Len(s) \in Nat /\ Len(t) \in Nat
  BY LenProperties
<1>1. /\ front \in Seq(CellIds) /\ Len(front) = off
      /\ \A i \in 1..off : front[i] = s[i]
  <2>1. \A i \in 1..off : s[i] \in CellIds
    BY <1>0, ElementOfSeq
  <2> QED
    BY <1>0, <2>1, SubSeqProperties
<1>2. /\ back \in Seq(CellIds) /\ Len(back) = Len(s) - off
      /\ \A i \in 1..(Len(s) - off) : back[i] = s[off + i]
  <2>1. \A i \in (off + 1)..Len(s) : s[i] \in CellIds
    BY <1>0, ElementOfSeq
  <2> QED
    BY <1>0, <2>1, SubSeqProperties
<1>3. Abstract!SpliceIn(s, off, t) = u
  BY DEF Abstract!SpliceIn
<1> HIDE DEF front, back
<1>4. /\ mid \in Seq(CellIds) /\ Len(mid) = off + Len(t)
      /\ \A i \in 1..(off + Len(t)) :
            mid[i] = IF i <= off THEN front[i] ELSE t[i - off]
  BY <1>1, ConcatProperties
<1> HIDE DEF mid
<1>5. /\ u \in Seq(CellIds) /\ Len(u) = Len(mid) + Len(back)
      /\ \A i \in 1..(Len(mid) + Len(back)) :
            u[i] = IF i <= Len(mid) THEN mid[i] ELSE back[i - Len(mid)]
  BY <1>2, <1>4, ConcatProperties
<1> HIDE DEF u
<1>6. Len(u) = Len(s) + Len(t)
  BY <1>0, <1>2, <1>4, <1>5
<1>7. ASSUME NEW i \in 1..(Len(s) + Len(t))
      PROVE  u[i] = IF i <= off THEN s[i]
                    ELSE IF i <= off + Len(t) THEN t[i - off]
                    ELSE s[i - Len(t)]
  <2>0. i \in 1..(Len(mid) + Len(back)) /\ Len(mid) = off + Len(t)
    BY <1>0, <1>2, <1>4
  <2>1. CASE i <= off
    <3>1. u[i] = mid[i] /\ mid[i] = front[i]
      BY <1>0, <1>4, <1>5, <2>0, <2>1
    <3> QED
      BY <1>1, <2>1, <3>1
  <2>2. CASE i > off /\ i <= off + Len(t)
    <3>1. u[i] = mid[i] /\ mid[i] = t[i - off]
      BY <1>0, <1>4, <1>5, <2>0, <2>2
    <3> QED
      BY <2>2, <3>1
  <2>3. CASE i > off + Len(t)
    <3>1. i - (off + Len(t)) \in 1..(Len(s) - off)
      BY <1>0, <2>3
    <3>2. u[i] = back[i - (off + Len(t))]
      BY <1>0, <1>5, <2>0, <2>3
    <3>3. off + (i - (off + Len(t))) = i - Len(t)
      BY <1>0
    <3>4. back[i - (off + Len(t))] = s[off + (i - (off + Len(t)))]
      BY <1>2, <3>1
    <3>5. u[i] = s[i - Len(t)]
      BY <3>2, <3>3, <3>4
    <3>6. ~(i <= off) /\ ~(i <= off + Len(t))
      BY <1>0, <2>3
    <3> QED
      BY <3>5, <3>6
  <2> QED
    BY <1>0, <2>1, <2>2, <2>3
<1> QED
  BY <1>3, <1>5, <1>6, <1>7

\* Splicing in a run of other cells keeps all of them distinct.
LEMMA SpliceDistinct ==
    ASSUME NEW s \in Seq(CellIds), NEW t \in Seq(CellIds), NEW off \in 0..Len(s),
           Injective(s), Injective(t), Apart(t, s)
    PROVE  /\ Injective(Abstract!SpliceIn(s, off, t))
           /\ \A r \in Seq(CellIds) : Apart(r, s) /\ Apart(r, t)
                                         => Apart(r, Abstract!SpliceIn(s, off, t))
           /\ \A n \in Nat : Allocated(s, n) /\ Allocated(t, n)
                                => Allocated(Abstract!SpliceIn(s, off, t), n)
<1> DEFINE u == Abstract!SpliceIn(s, off, t)
           Home(i) == IF i <= off THEN i
                      ELSE IF i <= off + Len(t) THEN i - off ELSE i - Len(t)
           Moved(i) == i > off /\ i <= off + Len(t)
<1>0. Len(s) \in Nat /\ Len(t) \in Nat
  BY LenProperties
<1>1. /\ Len(u) = Len(s) + Len(t)
      /\ \A i \in 1..(Len(s) + Len(t)) : u[i] =
            IF i <= off THEN s[i]
            ELSE IF i <= off + Len(t) THEN t[i - off]
            ELSE s[i - Len(t)]
  BY SpliceAt, Zenon
<1> HIDE DEF u
<1>2. ASSUME NEW i \in 1..Len(u)
      PROVE  /\ Moved(i) => Home(i) \in 1..Len(t) /\ u[i] = t[Home(i)]
             /\ ~Moved(i) => Home(i) \in 1..Len(s) /\ u[i] = s[Home(i)]
  BY <1>0, <1>1
<1> HIDE DEF Home, Moved
<1>3. Injective(u)
  <2> SUFFICES ASSUME NEW i \in 1..Len(u), NEW j \in 1..Len(u), u[i] = u[j]
               PROVE  i = j
    BY DEF Injective
  <2>1. Moved(i) <=> Moved(j)
    BY <1>2 DEF Apart
  <2>2. Home(i) = Home(j)
    <3>1. CASE Moved(i)
      BY <1>2, <2>1, <3>1 DEF Injective
    <3>2. CASE ~Moved(i)
      BY <1>2, <2>1, <3>2 DEF Injective
    <3> QED
      BY <3>1, <3>2
  <2> QED
    BY <1>0, <1>1, <2>1, <2>2 DEF Home, Moved
<1>4. ASSUME NEW r \in Seq(CellIds), Apart(r, s), Apart(r, t) PROVE Apart(r, u)
  <2> SUFFICES ASSUME NEW k \in 1..Len(r), NEW i \in 1..Len(u) PROVE r[k] # u[i]
    BY DEF Apart
  <2>1. CASE Moved(i)
    BY <1>2, <1>4, <2>1 DEF Apart
  <2>2. CASE ~Moved(i)
    BY <1>2, <1>4, <2>2 DEF Apart
  <2> QED
    BY <2>1, <2>2
<1>5. ASSUME NEW n \in Nat, Allocated(s, n), Allocated(t, n) PROVE Allocated(u, n)
  BY <1>2, <1>5 DEF Allocated
<1> QED
  BY <1>3, <1>4, <1>5 DEF u

LEMMA CellsInit ==
    ASSUME OriginalLen \in Nat, Abstract!Init PROVE CellsInv
<1>1. /\ Cells \in Seq(CellIds) /\ Len(Cells) = OriginalLen
      /\ \A i \in 1..OriginalLen :
            Cells[i] = [source |-> "Original", off |-> 0 + i - 1]
  <2>1. /\ Abstract!CellRun("Original", 0, OriginalLen) \in Seq(CellIds)
        /\ Len(Abstract!CellRun("Original", 0, OriginalLen)) = OriginalLen
        /\ \A i \in 1..OriginalLen :
              Abstract!CellRun("Original", 0, OriginalLen)[i]
                = [source |-> "Original", off |-> 0 + i - 1]
    <3>1. "Original" \in {"Original", "Add"} /\ 0 \in Nat
      OBVIOUS
    <3> QED
      BY <3>1, RunOfCells, Zenon
  <2> QED
    BY <2>1, Zenon DEF Abstract!Init
<1>2. Injective(Cells)
  BY <1>1 DEF Injective
<1>3. Allocated(Cells, table.addLen)
  BY <1>1 DEF Allocated
<1> QED
  BY <1>1, <1>2, <1>3 DEF Abstract!Init, CellsInv, CellsDistinct

\* Inserted bytes are new cells, beyond every identity handed out before.
LEMMA CellsInserted ==
    ASSUME MaxInsert \in Nat, CellsInv,
           NEW off \in 0..Len(Cells), NEW n \in 1..MaxInsert, Abstract!InsertBytes(off, n)
    PROVE  CellsInv'
<1> DEFINE new == Abstract!CellRun("Add", table.addLen, n)
<1> USE DEF CellsInv, CellsDistinct
<1>1. /\ new \in Seq(CellIds) /\ Len(new) = n
      /\ \A i \in 1..n : new[i] = [source |-> "Add", off |-> table.addLen + i - 1]
  <2>1. "Add" \in {"Original", "Add"} /\ table.addLen \in Nat /\ n \in Nat
    OBVIOUS
  <2> QED
    BY <2>1, RunOfCells, Zenon
<1>2. /\ Cells' = Abstract!SpliceIn(Cells, off, new)
      /\ table.addLen' = table.addLen + n /\ removed' = removed
  BY DEF Abstract!InsertBytes
<1> HIDE DEF new
<1>3. Injective(new) /\ Allocated(new, table.addLen')
  <2>1. \A i \in 1..n : new[i].source = "Add" /\ new[i].off = table.addLen + i - 1
    BY <1>1
  <2>2. table.addLen \in Nat /\ n \in Nat
    OBVIOUS
  <2>3. Injective(new)
    BY <1>1, <2>1, <2>2 DEF Injective
  <2>4. Allocated(new, table.addLen')
    BY <1>1, <1>2, <2>1, <2>2 DEF Allocated
  <2> QED
    BY <2>3, <2>4
<1>4. ASSUME NEW s \in Seq(CellIds), Allocated(s, table.addLen)
      PROVE  Allocated(s, table.addLen') /\ Apart(new, s) /\ Apart(s, new)
  <2>1. Len(s) \in Nat /\ \A i \in 1..Len(s) : s[i] \in CellIds
    BY LenProperties, ElementOfSeq
  <2>2. Allocated(s, table.addLen')
    BY <1>2, <1>4, <2>1 DEF Allocated, CellIds
  <2>3. ASSUME NEW i \in 1..n, NEW j \in 1..Len(s) PROVE new[i] # s[j]
    <3>1. new[i].source = "Add" /\ new[i].off = table.addLen + i - 1
      BY <1>1
    <3>2. s[j].source = "Add" => s[j].off < table.addLen
      BY <1>4 DEF Allocated
    <3> QED
      BY <3>1, <3>2
  <2> QED
    BY <1>1, <2>2, <2>3 DEF Apart
<1>5. /\ Cells' \in Seq(CellIds) /\ Injective(Cells') /\ Allocated(Cells', table.addLen')
      /\ \A r \in Seq(CellIds) : Apart(r, Cells) /\ Apart(r, new) => Apart(r, Cells')
  <2>1. Cells' \in Seq(CellIds)
    BY <1>1, <1>2, SpliceAt
  <2>2. table.addLen' \in Nat
    BY <1>2
  <2> QED
    BY <1>1, <1>2, <1>3, <1>4, <2>1, <2>2, SpliceDistinct
<1>6. \A r \in removed : Allocated(r, table.addLen') /\ Apart(r, Cells')
  BY <1>4, <1>5
<1> QED
  BY <1>2, <1>5, <1>6

\* A run that is put back leaves the set of runs that can be.
LEMMA CellsPutBack ==
    ASSUME CellsInv, NEW off \in 0..Len(Cells), NEW run \in removed,
           Abstract!InsertExistingCells(off, run)
    PROVE  CellsInv'
<1> USE DEF CellsInv, CellsDistinct
<1>1. /\ Cells' = Abstract!SpliceIn(Cells, off, run) /\ table.addLen' = table.addLen
      /\ removed' = removed \ {run}
  BY DEF Abstract!InsertExistingCells
<1>2. Cells' \in Seq(CellIds)
  BY <1>1, SpliceAt
<1>3. Injective(Cells') /\ Allocated(Cells', table.addLen)
  BY <1>1, SpliceDistinct
<1>4. ASSUME NEW r \in removed' PROVE Apart(r, Cells')
  BY <1>1, SpliceDistinct
<1> QED
  BY <1>1, <1>2, <1>3, <1>4

\* What is deleted and what stays are parts of one sequence of distinct cells.
LEMMA CellsDeleted ==
    ASSUME CellsInv, NEW off \in 0..Len(Cells), NEW n \in 1..(Len(Cells) - off),
           Abstract!DeleteRangeReal(off, n)
    PROVE  CellsInv'
<1> DEFINE front == SubSeq(Cells, 1, off)
           run == SubSeq(Cells, off + 1, off + n)
           back == SubSeq(Cells, off + n + 1, Len(Cells))
           rest == front \o back
           Home(i) == IF i <= off THEN i ELSE i + n
<1>0. /\ Cells \in Seq(CellIds) /\ Injective(Cells) /\ Allocated(Cells, table.addLen)
      /\ \A r \in removed : Apart(r, Cells)
  BY DEF CellsInv, CellsDistinct
<1>1. Len(Cells) \in Nat /\ \A i \in 1..Len(Cells) : Cells[i] \in CellIds
  BY <1>0, LenProperties, ElementOfSeq
<1>2. /\ front \in Seq(CellIds) /\ Len(front) = off
      /\ \A i \in 1..off : front[i] = Cells[i]
  BY <1>1, SubSeqProperties
<1>3. /\ run \in Seq(CellIds) /\ Len(run) = n
      /\ \A i \in 1..n : run[i] = Cells[off + i]
  BY <1>1, SubSeqProperties
<1>4. /\ back \in Seq(CellIds) /\ Len(back) = Len(Cells) - off - n
      /\ \A i \in 1..(Len(Cells) - off - n) : back[i] = Cells[off + n + i]
  BY <1>1, SubSeqProperties
<1>5. Cells' = rest /\ table.addLen' = table.addLen /\ removed' = removed \cup {run}
  BY DEF Abstract!DeleteRangeReal
<1> HIDE DEF front, back, run
<1>6. /\ rest \in Seq(CellIds) /\ Len(rest) = Len(front) + Len(back)
      /\ \A i \in 1..(Len(front) + Len(back)) :
            rest[i] = IF i <= Len(front) THEN front[i] ELSE back[i - Len(front)]
  BY <1>2, <1>4, ConcatProperties
<1> HIDE DEF rest
<1>7. Len(rest) = Len(Cells) - n
  BY <1>1, <1>2, <1>4, <1>6
<1>8. ASSUME NEW i \in 1..Len(rest)
      PROVE  /\ Home(i) \in 1..Len(Cells) /\ rest[i] = Cells[Home(i)]
             /\ Home(i) \notin (off + 1)..(off + n)
  <2>0. i \in 1..(Len(front) + Len(back))
    BY <1>6
  <2>1. CASE i <= off
    <3>1. rest[i] = front[i] /\ front[i] = Cells[i]
      BY <1>1, <1>2, <1>6, <2>0, <2>1
    <3>2. i \in 1..Len(Cells) /\ i \notin (off + 1)..(off + n)
      BY <1>1, <1>7, <2>1
    <3> QED
      BY <2>1, <3>1, <3>2
  <2>2. CASE i > off
    <3>1. i - off \in 1..(Len(Cells) - off - n)
      BY <1>1, <1>7, <2>2
    <3>2. back[i - off] = Cells[off + n + (i - off)]
      BY <1>4, <3>1
    <3>3. rest[i] = back[i - off]
      BY <1>1, <1>2, <1>6, <2>0, <2>2
    <3>4. i + n \in 1..Len(Cells) /\ i + n \notin (off + 1)..(off + n)
      BY <1>1, <1>7, <2>2
    <3>5. off + n + (i - off) = i + n /\ ~(i <= off)
      BY <1>1, <1>7, <2>2
    <3> QED
      BY <3>2, <3>3, <3>4, <3>5
  <2> QED
    BY <1>1, <1>7, <2>1, <2>2
<1>9. Injective(rest)
  <2> SUFFICES ASSUME NEW i \in 1..Len(rest), NEW j \in 1..Len(rest), rest[i] = rest[j]
               PROVE  i = j
    BY DEF Injective
  <2> HIDE DEF Home
  <2>1. /\ Home(i) \in 1..Len(Cells) /\ Home(j) \in 1..Len(Cells)
        /\ Cells[Home(i)] = Cells[Home(j)]
    BY <1>8
  <2>2. Home(i) = Home(j)
    BY <1>0, <2>1 DEF Injective
  <2> QED
    BY <1>1, <1>7, <2>2 DEF Home
<1>10. Injective(run)
  <2> SUFFICES ASSUME NEW i \in 1..n, NEW j \in 1..n, run[i] = run[j]
               PROVE  i = j
    BY <1>3 DEF Injective
  <2>1. off + i \in 1..Len(Cells) /\ off + j \in 1..Len(Cells)
    BY <1>1
  <2>2. off + i = off + j
    BY <1>0, <1>3, <2>1 DEF Injective
  <2> QED
    BY <2>2
<1>11. Apart(run, rest)
  <2> SUFFICES ASSUME NEW i \in 1..n, NEW j \in 1..Len(rest), run[i] = rest[j]
               PROVE  FALSE
    BY <1>3 DEF Apart
  <2> HIDE DEF Home
  <2>1. off + i \in 1..Len(Cells) /\ off + i \in (off + 1)..(off + n)
    BY <1>1
  <2> QED
    BY <1>0, <1>3, <1>8, <2>1 DEF Injective
<1>12. Allocated(rest, table.addLen) /\ Allocated(run, table.addLen)
  <2> HIDE DEF Home
  <2>1. \A i \in 1..n : off + i \in 1..Len(Cells)
    BY <1>1
  <2> QED
    BY <1>0, <1>3, <1>8, <2>1 DEF Allocated
<1>13. ASSUME NEW r \in removed PROVE Apart(r, rest) /\ Apart(r, run) /\ Apart(run, r)
  <2> HIDE DEF Home
  <2>1. \A i \in 1..n : off + i \in 1..Len(Cells)
    BY <1>1
  <2>2. Apart(r, Cells)
    BY <1>0
  <2>3. \A k \in 1..Len(r), i \in 1..Len(Cells) : r[k] # Cells[i]
    BY <2>2 DEF Apart
  <2>4. Apart(r, rest)
    BY <1>8, <2>3 DEF Apart
  <2>5. Apart(r, run) /\ Apart(run, r)
    BY <1>3, <2>1, <2>3 DEF Apart
  <2> QED
    BY <2>4, <2>5
<1> QED
  BY <1>3, <1>5, <1>6, <1>9, <1>10, <1>11, <1>12, <1>13 DEF CellsInv, CellsDistinct

LEMMA CellsStep ==
    ASSUME MaxInsert \in Nat, CellsInv,
           [Abstract!Next]_<<Cells, table.addLen, removed>>
    PROVE  CellsInv'
<1>1. CASE Abstract!Next
  BY <1>1, CellsInserted, CellsPutBack, CellsDeleted DEF Abstract!Next
<1>2. CASE UNCHANGED <<Cells, table.addLen, removed>>
  BY <1>2 DEF CellsInv, CellsDistinct
<1> QED
  BY <1>1, <1>2

(***************************************************************************)
(* However often bytes are inserted, really deleted and put back by undo   *)
(* and redo, no cell is ever in two places: what piece_table.rs hands out  *)
(* as an identity is one.                                                  *)
(***************************************************************************)
THEOREM CellsNeverShared ==
    ASSUME OriginalLen \in Nat, MaxInsert \in Nat PROVE Abstract!Spec => []CellsInv
<1>1. Abstract!Init => CellsInv
  BY CellsInit
<1>2. CellsInv /\ [Abstract!Next]_<<Cells, table.addLen, removed>> => CellsInv'
  BY CellsStep
<1> QED
  BY <1>1, <1>2, PTL DEF Abstract!Spec

\* The invariant of the sequence of cells is what the table's clients need.
LEMMA InvariantGivesUnique == CellsInv => CellsUnique
<1> SUFFICES ASSUME CellsInv PROVE CellsUnique
  OBVIOUS
<1>1. Cells \in Seq(CellIds) /\ removed \subseteq Seq(CellIds)
  BY DEF CellsInv
<1>2. /\ Injective(Cells)
      /\ \A r \in removed : Apart(r, Cells)
  BY DEF CellsInv, CellsDistinct
<1> HIDE DEF Cells
<1>3. IsInjective(Cells)
  BY <1>1, <1>2 DEF Injective, IsInjective
<1>4. ASSUME NEW r \in removed PROVE ToSet(r) \cap ToSet(Cells) = {}
  BY <1>1, <1>2 DEF Apart, ToSet
<1> QED
  BY <1>3, <1>4 DEF CellsUnique

\* No cell is ever in the document twice, and none that a deletion handed out
\* is still in it.
THEOREM CellsStayUnique == Spec => []CellsUnique
<1>1. OriginalLen \in Nat /\ MaxInsert \in Nat
  BY TableConstants
<1>2. Abstract!Spec => []CellsInv
  BY <1>1, CellsNeverShared
<1> QED
  BY <1>2, TableRefines, InvariantGivesUnique, PTL DEF RefinesCellSequence
=============================================================================
