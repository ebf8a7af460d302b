--------------------------- MODULE EventLoopProofs ---------------------------
(***************************************************************************)
(* Machine-checked proofs about EventLoop: what is shown of an analysis,   *)
(* of a hash, of statistics and of a jump to a mismatch is right, for      *)
(* every file, every other side, every step size and any number of edits,  *)
(* jobs and scans.                                                         *)
(***************************************************************************)
EXTENDS EventLoop, FiniteSetTheorems, TLAPS

\* The facts about the natural numbers and about recursion that are stated
\* in DocumentProofs, and that need nothing of its constants.
Order == INSTANCE DocumentProofs WITH Radix <- 1, None <- -1

(***************************************************************************)
(* The k-th of a set of positions                                          *)
(***************************************************************************)

\* A set of positions is finite, and so are the positions up to one of them.
LEMMA RankType ==
    ASSUME NEW n \in Nat, NEW S, \A j \in S : j \in 1 .. n
    PROVE  /\ IsFiniteSet(S) /\ Cardinality(S) \in Nat
           /\ \A i : /\ IsFiniteSet({j \in S : j <= i})
                     /\ Rank(S, i) \in Nat
<1>1. IsFiniteSet(S) /\ Cardinality(S) \in Nat
  <2>1. IsFiniteSet(1 .. n)
    BY FS_Interval
  <2>2. S \in SUBSET (1 .. n)
    OBVIOUS
  <2> QED BY <2>1, <2>2, FS_Subset, FS_CardinalityType
<1>2. \A i : {j \in S : j <= i} \in SUBSET S
  OBVIOUS
<1> QED BY <1>1, <1>2, FS_Subset, FS_CardinalityType DEF Rank

\* The rank grows by one at a position of the set ...
LEMMA RankAt ==
    ASSUME NEW n \in Nat, NEW S, \A j \in S : j \in 1 .. n, NEW i \in Nat, i + 1 \in S
    PROVE  Rank(S, i + 1) = Rank(S, i) + 1
<1> DEFINE U == {j \in S : j <= i}
           V == {j \in S : j <= i + 1}
<1>1. V = U \cup {i + 1} /\ i + 1 \notin U
  OBVIOUS
<1>2. IsFiniteSet(U)
  BY RankType
<1>3. Cardinality(U) \in Nat
  BY <1>2, FS_CardinalityType
<1> HIDE DEF U, V
<1>4. Cardinality(V) = Cardinality(U) + 1
  BY <1>1, <1>2, FS_AddElement
<1> QED BY <1>4 DEF Rank, U, V

\* ... and nowhere else.
LEMMA RankOff ==
    ASSUME NEW n \in Nat, NEW S, \A j \in S : j \in 1 .. n, NEW i \in Nat, i + 1 \notin S
    PROVE  Rank(S, i + 1) = Rank(S, i)
<1>1. {j \in S : j <= i + 1} = {j \in S : j <= i}
  OBVIOUS
<1> QED BY <1>1 DEF Rank

\* The rank starts at 0 and ends at the size of the set.
LEMMA RankEnds ==
    ASSUME NEW n \in Nat, NEW S, \A j \in S : j \in 1 .. n
    PROVE  /\ Rank(S, 0) = 0
           /\ \A i \in Nat : i >= n => Rank(S, i) = Cardinality(S)
<1>1. {j \in S : j <= 0} = {}
  OBVIOUS
<1>2. \A i \in Nat : i >= n => {j \in S : j <= i} = S
  OBVIOUS
<1>3. Rank(S, 0) = 0
  BY <1>1, FS_EmptySet DEF Rank
<1>4. \A i \in Nat : i >= n => Rank(S, i) = Cardinality(S)
  BY <1>2 DEF Rank
<1> QED BY <1>3, <1>4

\* The rank never falls.
LEMMA RankOrder ==
    ASSUME NEW n \in Nat, NEW S, \A j \in S : j \in 1 .. n,
           NEW i \in Nat, NEW k \in Nat, i <= k
    PROVE  Rank(S, i) <= Rank(S, k)
<1>1. {j \in S : j <= i} \in SUBSET {j \in S : j <= k}
  OBVIOUS
<1>2. IsFiniteSet({j \in S : j <= k})
  BY RankType
<1> QED BY <1>1, <1>2, FS_Subset DEF Rank

\* A position of the set is the one its rank stands for.
LEMMA NthIs ==
    ASSUME NEW n \in Nat, NEW S, \A j \in S : j \in 1 .. n, NEW i, i \in S
    PROVE  Nth(S, Rank(S, i)) = i
<1>1. ASSUME NEW a \in S, NEW b \in S, a < b
      PROVE  Rank(S, a) < Rank(S, b)
  <2>1. a \in Nat /\ b - 1 \in Nat /\ a <= b - 1 /\ (b - 1) + 1 = b
    BY <1>1
  <2>2. Rank(S, a) \in Nat /\ Rank(S, b - 1) \in Nat
    BY RankType
  <2>3. Rank(S, a) <= Rank(S, b - 1)
    BY <2>1, RankOrder
  <2>4. Rank(S, (b - 1) + 1) = Rank(S, b - 1) + 1
    <3>1. (b - 1) + 1 \in S
      BY <2>1
    <3> QED BY <2>1, <3>1, RankAt
  <2> QED BY <2>1, <2>2, <2>3, <2>4
<1>2. \A a \in S : a \in Nat /\ Rank(S, a) \in Nat
  <2>1. \A a : Rank(S, a) \in Nat
    BY RankType
  <2> QED BY <2>1
<1>3. \A m \in S : Rank(S, m) = Rank(S, i) => m = i
  BY <1>1, <1>2
<1>4. (CHOOSE m \in S : Rank(S, m) = Rank(S, i)) = i
  BY <1>3
<1> QED BY <1>4 DEF Nth

\* There is a k-th position for every k up to the number of positions.
LEMMA NthIn ==
    ASSUME NEW n \in Nat, NEW S, \A j \in S : j \in 1 .. n, NEW k \in 1 .. Cardinality(S)
    PROVE  Nth(S, k) \in S /\ Rank(S, Nth(S, k)) = k
<1> DEFINE T == {m \in Nat : Rank(S, m) >= k}
<1>1. k \in Nat /\ k >= 1 /\ k <= Cardinality(S) /\ Cardinality(S) \in Nat
  BY RankType
<1>2. T \in SUBSET Nat /\ n \in T
  <2>1. Rank(S, n) = Cardinality(S)
    BY RankEnds
  <2> QED BY <1>1, <2>1
<1> HIDE DEF T
<1>3. PICK m \in T : \A l \in T : m <= l
  BY <1>2, Order!LeastNatural
<1>4. Rank(S, 0) = 0
  BY RankEnds
<1>5. m \in Nat /\ Rank(S, m) >= k /\ m # 0
  BY <1>1, <1>3, <1>4 DEF T
<1>6. m - 1 \in Nat /\ (m - 1) + 1 = m
  BY <1>5
<1>7. Rank(S, m - 1) \in Nat /\ Rank(S, m - 1) < k
  <2>1. m - 1 \notin T
    BY <1>3, <1>6
  <2>2. Rank(S, m - 1) \in Nat
    BY RankType
  <2> QED BY <1>1, <1>6, <2>1, <2>2 DEF T
<1>8. m \in S
  <2>1. (m - 1) + 1 \notin S => Rank(S, (m - 1) + 1) = Rank(S, m - 1)
    BY <1>6, RankOff
  <2> QED BY <1>1, <1>5, <1>6, <1>7, <2>1
<1>9. Rank(S, m) = k
  <2>1. Rank(S, (m - 1) + 1) = Rank(S, m - 1) + 1
    BY <1>6, <1>8, RankAt
  <2> QED BY <1>1, <1>5, <1>6, <1>7, <2>1
<1> QED BY <1>8, <1>9, NthIs

\* Two sequences with the same elements are the same.
LEMMA SameSequence ==
    ASSUME NEW S, NEW s \in Seq(S), NEW t \in Seq(S), Len(s) = Len(t),
           \A i \in 1 .. Len(s) : s[i] = t[i]
    PROVE  s = t
  OBVIOUS

\* What two sequences side by side hold.
LEMMA SideBySide ==
    ASSUME NEW S, NEW s \in Seq(S), NEW t \in Seq(S)
    PROVE  /\ s \o t \in Seq(S) /\ Len(s \o t) = Len(s) + Len(t)
           /\ \A i \in 1 .. Len(s) : (s \o t)[i] = s[i]
           /\ \A i \in 1 .. Len(t) : (s \o t)[Len(s) + i] = t[i]
  OBVIOUS

\* A sequence without its last element.
LEMMA FrontIs ==
    ASSUME NEW S, NEW q \in Seq(S), q # << >>
    PROVE  /\ SubSeq(q, 1, Len(q) - 1) \in Seq(S)
           /\ Len(SubSeq(q, 1, Len(q) - 1)) = Len(q) - 1
           /\ \A i \in 1 .. Len(q) - 1 : SubSeq(q, 1, Len(q) - 1)[i] = q[i]
  OBVIOUS

(***************************************************************************)
(* The live cells of a document                                            *)
(***************************************************************************)

Cells == [id : Nat, byte : Byte \cup {0}, live : BOOLEAN]

\* A document is a sequence of cells.
LEMMA DocumentIs == Documents = Seq(Cells)
  BY DEF Documents, Cells

\* Live keeps some of the positions of a document.
LEMMA LivePositions ==
    ASSUME NEW d \in Seq(Cells)
    PROVE  /\ \A j \in LiveAt(d) : j \in 1 .. Len(d) /\ d[j].live
           /\ Len(d) \in Nat /\ Cardinality(LiveAt(d)) \in Nat
<1>1. DOMAIN d = 1 .. Len(d) /\ Len(d) \in Nat
  OBVIOUS
<1>2. \A j \in LiveAt(d) : j \in 1 .. Len(d) /\ d[j].live
  BY <1>1 DEF LiveAt
<1> QED BY <1>1, <1>2, RankType

\* The live cells of a document are a document, and all of them are live.
LEMMA LiveType ==
    ASSUME NEW d \in Seq(Cells)
    PROVE  /\ Live(d) \in Seq(Cells)
           /\ Len(Live(d)) = Cardinality(LiveAt(d))
           /\ \A k \in 1 .. Len(Live(d)) :
                 /\ Nth(LiveAt(d), k) \in LiveAt(d)
                 /\ Nth(LiveAt(d), k) \in 1 .. Len(d)
                 /\ Live(d)[k] = d[Nth(LiveAt(d), k)]
                 /\ Live(d)[k].live
<1> DEFINE N == Cardinality(LiveAt(d))
<1>1. /\ \A j \in LiveAt(d) : j \in 1 .. Len(d)
      /\ \A j \in LiveAt(d) : d[j].live
      /\ Len(d) \in Nat /\ N \in Nat
  BY LivePositions
<1>2. \A k \in 1 .. N : Nth(LiveAt(d), k) \in LiveAt(d)
  BY <1>1, NthIn
<1>3. \A k \in 1 .. N : Nth(LiveAt(d), k) \in 1 .. Len(d)
  BY <1>1, <1>2
<1>4. \A j \in 1 .. Len(d) : d[j] \in Cells
  OBVIOUS
<1>5. Live(d) = [k \in 1 .. N |-> d[Nth(LiveAt(d), k)]]
  BY DEF Live
<1> HIDE DEF N
<1>6. Live(d) \in [1 .. N -> Cells]
  BY <1>3, <1>4, <1>5
<1>7. Live(d) \in Seq(Cells) /\ Len(Live(d)) = N
  BY <1>1, <1>6
<1>8. \A k \in 1 .. N : Live(d)[k] = d[Nth(LiveAt(d), k)]
  BY <1>5
<1> QED BY <1>1, <1>2, <1>3, <1>7, <1>8 DEF N

\* A document without tombstones is its own live cells.
LEMMA LiveWhole ==
    ASSUME NEW d \in Seq(Cells), \A i \in 1 .. Len(d) : d[i].live
    PROVE  Live(d) = d
<1> DEFINE n == Len(d)
<1>1. n \in Nat /\ LiveAt(d) = 1 .. n /\ Cardinality(1 .. n) = n
  <2>1. DOMAIN d = 1 .. Len(d) /\ Len(d) \in Nat
    OBVIOUS
  <2>2. Cardinality(1 .. n) = n
    <3>1. n \in Int /\ 1 \in Int /\ ~ (1 > n) => n - 1 + 1 = n
      BY <2>1
    <3>2. Cardinality(1 .. n) = IF 1 > n THEN 0 ELSE n - 1 + 1
      BY <2>1, FS_Interval
    <3> QED BY <2>1, <3>2
  <2> QED BY <2>1, <2>2 DEF LiveAt
<1>2. ASSUME NEW k \in 1 .. n
      PROVE  Nth(1 .. n, k) = k
  <2>1. Rank(1 .. n, k) = k
    <3>1. {j \in 1 .. n : j <= k} = 1 .. k
      BY <1>1
    <3>2. Cardinality(1 .. k) = IF 1 > k THEN 0 ELSE k - 1 + 1
      BY FS_Interval
    <3>3. k \in Nat /\ k >= 1 /\ k - 1 + 1 = k
      BY <1>1
    <3>4. Cardinality(1 .. k) = k
      BY <3>2, <3>3
    <3> QED BY <3>1, <3>4 DEF Rank
  <2>2. Nth(1 .. n, Rank(1 .. n, k)) = k
    BY <1>1, NthIs
  <2> QED BY <2>1, <2>2
<1>3. Live(d) = [k \in 1 .. n |-> d[Nth(1 .. n, k)]]
  BY <1>1 DEF Live
<1>4. Live(d) = [k \in 1 .. n |-> d[k]]
  BY <1>2, <1>3
<1> QED BY <1>4

\* Taking the live cells twice is taking them once.
LEMMA LiveTwice ==
    ASSUME NEW d \in Seq(Cells)
    PROVE  Live(Live(d)) = Live(d)
  BY LiveType, LiveWhole

\* Two documents with the same cells in the same states, whatever their
\* bytes, have the same cells among the live ones.
LEMMA LiveIds ==
    ASSUME NEW d \in Seq(Cells), NEW e \in Seq(Cells), Len(e) = Len(d),
           \A i \in 1 .. Len(d) : e[i].id = d[i].id /\ e[i].live = d[i].live
    PROVE  IdsOf(Live(e)) = IdsOf(Live(d))
<1>1. LiveAt(e) = LiveAt(d)
  <2>1. DOMAIN d = 1 .. Len(d) /\ DOMAIN e = 1 .. Len(d)
    OBVIOUS
  <2> QED BY <2>1 DEF LiveAt
<1>2. Len(Live(e)) = Len(Live(d)) /\ Len(Live(d)) \in Nat
  BY <1>1, LiveType
<1>3. ASSUME NEW k \in 1 .. Len(Live(d))
      PROVE  Live(e)[k].id = Live(d)[k].id
  <2>1. /\ Nth(LiveAt(d), k) \in 1 .. Len(d)
        /\ Live(d)[k] = d[Nth(LiveAt(d), k)]
    BY LiveType
  <2>2. Live(e)[k] = e[Nth(LiveAt(e), k)]
    BY <1>2, LiveType
  <2> QED BY <1>1, <2>1, <2>2
<1> QED BY <1>2, <1>3 DEF IdsOf

\* The live positions of two documents side by side: those of the first, and
\* those of the second behind it.
LEMMA LiveAtConcat ==
    ASSUME NEW d \in Seq(Cells), NEW e \in Seq(Cells)
    PROVE  LET f == d \o e
               a == Cardinality(LiveAt(d))
           IN  /\ Cardinality(LiveAt(f)) = a + Cardinality(LiveAt(e))
               /\ \A i \in LiveAt(d) : i \in LiveAt(f) /\ Rank(LiveAt(f), i) = Rank(LiveAt(d), i)
               /\ \A i \in LiveAt(e) : /\ Len(d) + i \in LiveAt(f)
                                       /\ Rank(LiveAt(f), Len(d) + i) = a + Rank(LiveAt(e), i)
<1> DEFINE f == d \o e
           D == LiveAt(d)
           E == LiveAt(e)
           F == LiveAt(f)
           n == Len(d)
           Shift(X) == {n + i : i \in X}
<1>1. /\ f \in Seq(Cells) /\ n \in Nat /\ Len(e) \in Nat /\ Len(f) = n + Len(e)
      /\ \A i \in 1 .. n : f[i] = d[i]
      /\ \A i \in 1 .. Len(e) : f[n + i] = e[i]
  OBVIOUS
<1>2. /\ \A j \in D : j \in 1 .. n
      /\ \A j \in E : j \in 1 .. Len(e)
      /\ \A j \in F : j \in 1 .. Len(f)
  BY <1>1, LivePositions
<1>3. /\ \A i \in 1 .. n : i \in D <=> d[i].live
      /\ \A i \in 1 .. Len(e) : i \in E <=> e[i].live
      /\ \A i \in 1 .. Len(f) : i \in F <=> f[i].live
  <2>1. DOMAIN d = 1 .. n /\ DOMAIN e = 1 .. Len(e) /\ DOMAIN f = 1 .. Len(f)
    BY <1>1
  <2> HIDE DEF f, n
  <2> QED BY <2>1 DEF LiveAt
<1> HIDE DEF f, D, E, F, n
<1>4. /\ \A i \in D : i \in F
      /\ \A i \in E : n + i \in F
      /\ \A j \in F : j \in D \/ (j - n \in E /\ j = n + (j - n) /\ j > n)
  <2>1. \A i \in D : i \in F
    BY <1>1, <1>2, <1>3
  <2>2. ASSUME NEW i \in E
        PROVE  n + i \in F
    <3>1. i \in 1 .. Len(e) /\ n + i \in 1 .. Len(f)
      BY <1>1, <1>2
    <3> QED BY <1>1, <1>3, <3>1
  <2>3. ASSUME NEW j \in F, j \notin D
        PROVE  j - n \in E /\ j = n + (j - n) /\ j > n
    <3>1. j \in 1 .. Len(f) /\ f[j].live
      BY <1>2, <1>3
    <3>2. j > n /\ j \in Nat
      BY <1>1, <1>3, <2>3, <3>1
    <3>3. j - n \in 1 .. Len(e) /\ n + (j - n) = j
      BY <1>1, <3>1, <3>2
    <3>4. f[n + (j - n)] = e[j - n]
      BY <1>1, <3>3
    <3> QED BY <1>3, <3>1, <3>2, <3>3, <3>4
  <2> QED BY <2>1, <2>2, <2>3
<1>5. ASSUME NEW X, \A x \in X : x \in 1 .. Len(e)
      PROVE  /\ IsFiniteSet(Shift(X)) /\ Cardinality(Shift(X)) = Cardinality(X)
             /\ IsFiniteSet(X) /\ Cardinality(X) \in Nat
  <2>1. IsFiniteSet(X) /\ Cardinality(X) \in Nat
    BY <1>1, <1>5, RankType
  <2> DEFINE g == [x \in X |-> n + x]
  <2>2. g \in Bijection(X, Shift(X))
    <3>1. g \in [X -> Shift(X)]
      OBVIOUS
    <3>2. \A x, y \in X : g[x] = g[y] => x = y
      BY <1>1, <1>5
    <3>3. \A y \in Shift(X) : \E x \in X : g[x] = y
      OBVIOUS
    <3> QED BY <3>1, <3>2, <3>3 DEF Bijection, Injection, Surjection, IsInjective
  <2>3. ExistsBijection(X, Shift(X))
    BY <2>2 DEF ExistsBijection
  <2> QED BY <2>1, <2>3, FS_Bijection
<1>6. ASSUME NEW X, \A x \in X : x \in 1 .. Len(e)
      PROVE  Cardinality(D \cup Shift(X)) = Cardinality(D) + Cardinality(X)
  <2>1. D \cap Shift(X) = {}
    BY <1>1, <1>2, <1>6
  <2>2. IsFiniteSet(D) /\ Cardinality(D) \in Nat
    BY <1>1, <1>2, RankType
  <2>3. Cardinality(D \cup Shift(X))
           = Cardinality(D) + Cardinality(Shift(X)) - Cardinality(D \cap Shift(X))
    BY <1>5, <1>6, <2>2, FS_Union
  <2> HIDE DEF Shift
  <2> QED BY <1>5, <1>6, <2>1, <2>2, <2>3, FS_EmptySet
<1>7. Cardinality(F) = Cardinality(D) + Cardinality(E)
  <2>1. F = D \cup Shift(E)
    BY <1>4
  <2> QED BY <1>2, <1>6, <2>1
<1>8. ASSUME NEW i \in D
      PROVE  i \in F /\ Rank(F, i) = Rank(D, i)
  <2>1. {j \in F : j <= i} = {j \in D : j <= i}
    BY <1>1, <1>2, <1>4
  <2> QED BY <1>4, <2>1 DEF Rank
<1>9. ASSUME NEW i \in E
      PROVE  n + i \in F /\ Rank(F, n + i) = Cardinality(D) + Rank(E, i)
  <2> DEFINE X == {j \in E : j <= i}
  <2>1. {j \in F : j <= n + i} = D \cup Shift(X)
    <3>1. ASSUME NEW j \in F, j <= n + i
          PROVE  j \in D \cup Shift(X)
      <4>1. CASE j \in D
        BY <4>1
      <4>2. CASE j - n \in E /\ j = n + (j - n)
        <5>1. j - n <= i
          BY <1>1, <1>2, <3>1
        <5> QED BY <4>2, <5>1
      <4> QED BY <1>4, <4>1, <4>2
    <3>2. ASSUME NEW j \in D
          PROVE  j \in F /\ j <= n + i
      BY <1>1, <1>2, <1>4
    <3>3. ASSUME NEW x \in X
          PROVE  n + x \in F /\ n + x <= n + i
      BY <1>1, <1>2, <1>4
    <3> QED BY <3>1, <3>2, <3>3
  <2>2. \A x \in X : x \in 1 .. Len(e)
    BY <1>2
  <2>3. Cardinality(D \cup Shift(X)) = Cardinality(D) + Cardinality(X)
    BY <1>6, <2>2
  <2>4. Rank(F, n + i) = Cardinality(D \cup Shift(X)) /\ Rank(E, i) = Cardinality(X)
    BY <2>1 DEF Rank
  <2> QED BY <1>4, <2>3, <2>4
<1> QED BY <1>7, <1>8, <1>9 DEF f, D, E, F, n

\* The live cells of two documents side by side.
LEMMA LiveConcat ==
    ASSUME NEW d \in Seq(Cells), NEW e \in Seq(Cells)
    PROVE  Live(d \o e) = Live(d) \o Live(e)
<1> DEFINE f == d \o e
           a == Cardinality(LiveAt(d))
           b == Cardinality(LiveAt(e))
<1>1. /\ f \in Seq(Cells) /\ Len(d) \in Nat /\ Len(f) = Len(d) + Len(e)
      /\ \A i \in 1 .. Len(d) : f[i] = d[i]
      /\ \A i \in 1 .. Len(e) : f[Len(d) + i] = e[i]
  OBVIOUS
<1>2. /\ Live(d) \in Seq(Cells) /\ Len(Live(d)) = a /\ a \in Nat
      /\ Live(e) \in Seq(Cells) /\ Len(Live(e)) = b /\ b \in Nat
      /\ Live(f) \in Seq(Cells) /\ Len(Live(f)) = Cardinality(LiveAt(f))
  BY <1>1, LiveType, LivePositions
<1>3. Len(Live(f)) = a + b
  BY <1>2, LiveAtConcat
<1>4. \A j \in LiveAt(f) : j \in 1 .. Len(f)
  BY <1>1, LivePositions
<1>5. ASSUME NEW k \in 1 .. a
      PROVE  Live(f)[k] = Live(d)[k]
  <2> DEFINE i == Nth(LiveAt(d), k)
  <2>1. i \in LiveAt(d) /\ i \in 1 .. Len(d) /\ Live(d)[k] = d[i]
    BY <1>2, LiveType
  <2>2. Rank(LiveAt(d), i) = k
    BY LivePositions, NthIn
  <2> HIDE DEF i
  <2>3. i \in LiveAt(f) /\ Rank(LiveAt(f), i) = k
    BY <2>1, <2>2, LiveAtConcat
  <2>4. Nth(LiveAt(f), k) = i
    BY <1>1, <1>4, <2>3, NthIs
  <2>5. k \in 1 .. Len(Live(f))
    BY <1>2, <1>3
  <2>6. Live(f)[k] = f[i]
    BY <1>1, <2>4, <2>5, LiveType
  <2> QED BY <1>1, <2>1, <2>6
<1>6. ASSUME NEW k \in 1 .. b
      PROVE  Live(f)[a + k] = Live(e)[k]
  <2> DEFINE i == Nth(LiveAt(e), k)
  <2>1. i \in LiveAt(e) /\ i \in 1 .. Len(e) /\ Live(e)[k] = e[i]
    BY <1>2, LiveType
  <2>2. Rank(LiveAt(e), i) = k
    BY LivePositions, NthIn
  <2> HIDE DEF i
  <2>3. Len(d) + i \in LiveAt(f) /\ Rank(LiveAt(f), Len(d) + i) = a + k
    BY <2>1, <2>2, LiveAtConcat
  <2>4. Nth(LiveAt(f), a + k) = Len(d) + i
    BY <1>1, <1>4, <2>3, NthIs
  <2>5. a + k \in 1 .. Len(Live(f))
    BY <1>2, <1>3
  <2>6. Live(f)[a + k] = f[Len(d) + i]
    BY <1>1, <2>4, <2>5, LiveType
  <2> QED BY <1>1, <2>1, <2>6
<1> HIDE DEF f, a, b
<1>7. Live(f) = Live(d) \o Live(e)
  <2> DEFINE g == Live(d) \o Live(e)
  <2>1. /\ g \in Seq(Cells) /\ Len(g) = a + b
        /\ \A k \in 1 .. a : g[k] = Live(d)[k]
        /\ \A k \in 1 .. b : g[a + k] = Live(e)[k]
    <3>1. Live(d) \in Seq(Cells) /\ Live(e) \in Seq(Cells)
      BY <1>2
    <3>2. /\ g \in Seq(Cells) /\ Len(g) = Len(Live(d)) + Len(Live(e))
          /\ \A k \in 1 .. Len(Live(d)) : g[k] = Live(d)[k]
          /\ \A k \in 1 .. Len(Live(e)) : g[Len(Live(d)) + k] = Live(e)[k]
      BY <3>1, SideBySide
    <3> QED BY <1>2, <3>2
  <2> HIDE DEF g
  <2>2. ASSUME NEW k \in 1 .. (a + b)
        PROVE  Live(f)[k] = g[k]
    <3>1. CASE k \in 1 .. a
      BY <1>5, <2>1, <3>1
    <3>2. CASE k \notin 1 .. a
      <4>1. k - a \in 1 .. b /\ a + (k - a) = k
        BY <1>2, <3>2
      <4>2. Live(f)[a + (k - a)] = Live(e)[k - a] /\ g[a + (k - a)] = Live(e)[k - a]
        BY <1>6, <2>1, <4>1
      <4> QED BY <4>1, <4>2
    <3> QED BY <3>1, <3>2
  <2>3. Live(f) = g
    BY <1>2, <1>3, <2>1, <2>2, SameSequence
  <2> QED BY <2>3 DEF g
<1> QED BY <1>7 DEF f

\* The bytes of two sequences of cells side by side.
LEMMA BytesConcat ==
    ASSUME NEW d \in Seq(Cells), NEW e \in Seq(Cells)
    PROVE  BytesOf(d \o e) = BytesOf(d) \o BytesOf(e)
<1> DEFINE f == d \o e
           n == Len(d)
           m == Len(e)
           B == {c.byte : c \in Cells}
<1>1. /\ n \in Nat /\ m \in Nat /\ Len(f) = n + m
      /\ \A i \in 1 .. n : f[i] = d[i] /\ d[i] \in Cells
      /\ \A i \in 1 .. m : f[n + i] = e[i] /\ e[i] \in Cells
      /\ \A i \in 1 .. (n + m) : f[i] \in Cells
  OBVIOUS
<1> HIDE DEF f, n, m
<1>2. /\ BytesOf(d) \in Seq(B) /\ Len(BytesOf(d)) = n
      /\ \A i \in 1 .. n : BytesOf(d)[i] = d[i].byte
  BY <1>1 DEF BytesOf, n
<1>3. /\ BytesOf(e) \in Seq(B) /\ Len(BytesOf(e)) = m
      /\ \A i \in 1 .. m : BytesOf(e)[i] = e[i].byte
  BY <1>1 DEF BytesOf, m
<1>4. /\ BytesOf(f) \in Seq(B) /\ Len(BytesOf(f)) = n + m
      /\ \A i \in 1 .. (n + m) : BytesOf(f)[i] = f[i].byte
  BY <1>1 DEF BytesOf
<1> HIDE DEF B
<1> DEFINE g == BytesOf(d) \o BytesOf(e)
<1>5. /\ g \in Seq(B) /\ Len(g) = n + m
      /\ \A i \in 1 .. n : g[i] = BytesOf(d)[i]
      /\ \A i \in 1 .. m : g[n + i] = BytesOf(e)[i]
  <2>1. BytesOf(d) \in Seq(B) /\ BytesOf(e) \in Seq(B)
    BY <1>2, <1>3
  <2>2. /\ g \in Seq(B) /\ Len(g) = Len(BytesOf(d)) + Len(BytesOf(e))
        /\ \A i \in 1 .. Len(BytesOf(d)) : g[i] = BytesOf(d)[i]
        /\ \A i \in 1 .. Len(BytesOf(e)) : g[Len(BytesOf(d)) + i] = BytesOf(e)[i]
    BY <2>1, SideBySide
  <2> QED BY <1>2, <1>3, <2>2
<1> HIDE DEF g
<1>6. ASSUME NEW k \in 1 .. (n + m)
      PROVE  BytesOf(f)[k] = g[k]
  <2>1. CASE k \in 1 .. n
    <3>1. BytesOf(f)[k] = f[k].byte /\ f[k] = d[k] /\ g[k] = d[k].byte
      BY <1>1, <1>2, <1>4, <1>5, <2>1
    <3> QED BY <3>1
  <2>2. CASE k \notin 1 .. n
    <3>1. k - n \in 1 .. m /\ n + (k - n) = k
      BY <1>1, <2>2
    <3>2. f[n + (k - n)] = e[k - n] /\ g[n + (k - n)] = e[k - n].byte
      BY <1>1, <1>3, <1>5, <3>1
    <3>3. BytesOf(f)[k] = f[k].byte
      BY <1>4
    <3> QED BY <3>1, <3>2, <3>3
  <2> QED BY <2>1, <2>2
<1>7. BytesOf(f) = g
  BY <1>4, <1>5, <1>6, SameSequence
<1> QED BY <1>7 DEF f, g

\* A range of display offsets of a document is a piece of it.
LEMMA PieceType ==
    ASSUME NEW d \in Seq(Cells), NEW a \in Nat, NEW b \in Nat, b <= Len(d)
    PROVE  SubSeq(d, a + 1, b) \in Seq(Cells)
  OBVIOUS

\* Cutting a piece in two and putting the parts side by side gives it back.
LEMMA PieceConcat ==
    ASSUME NEW d \in Seq(Cells), NEW a \in Nat, NEW b \in Nat, NEW c \in Nat,
           a <= b, b <= c, c <= Len(d)
    PROVE  SubSeq(d, a + 1, b) \o SubSeq(d, b + 1, c) = SubSeq(d, a + 1, c)
<1> DEFINE s == SubSeq(d, a + 1, b)
           t == SubSeq(d, b + 1, c)
           u == SubSeq(d, a + 1, c)
<1>1. /\ s \in Seq(Cells) /\ Len(s) = b - a
      /\ \A i \in 1 .. (b - a) : s[i] = d[a + i]
  OBVIOUS
<1>2. /\ t \in Seq(Cells) /\ Len(t) = c - b
      /\ \A i \in 1 .. (c - b) : t[i] = d[b + i]
  OBVIOUS
<1>3. /\ u \in Seq(Cells) /\ Len(u) = c - a
      /\ \A i \in 1 .. (c - a) : u[i] = d[a + i]
  OBVIOUS
<1> HIDE DEF s, t, u
<1> DEFINE g == s \o t
<1>4. /\ g \in Seq(Cells) /\ Len(g) = c - a
      /\ \A i \in 1 .. (b - a) : g[i] = s[i]
      /\ \A i \in 1 .. (c - b) : g[(b - a) + i] = t[i]
  <2>1. (b - a) + (c - b) = c - a
    OBVIOUS
  <2>2. s \in Seq(Cells) /\ t \in Seq(Cells)
    BY <1>1, <1>2
  <2>3. /\ g \in Seq(Cells) /\ Len(g) = Len(s) + Len(t)
        /\ \A i \in 1 .. Len(s) : g[i] = s[i]
        /\ \A i \in 1 .. Len(t) : g[Len(s) + i] = t[i]
    BY <2>2, SideBySide
  <2> QED BY <1>1, <1>2, <2>1, <2>3
<1> HIDE DEF g
<1>5. ASSUME NEW k \in 1 .. (c - a)
      PROVE  g[k] = u[k]
  <2>1. CASE k <= b - a
    BY <1>1, <1>3, <1>4, <2>1
  <2>2. CASE ~ (k <= b - a)
    <3>1. k - (b - a) \in 1 .. (c - b) /\ (b - a) + (k - (b - a)) = k
          /\ b + (k - (b - a)) = a + k
      BY <2>2
    <3>2. g[(b - a) + (k - (b - a))] = d[b + (k - (b - a))]
      BY <1>2, <1>4, <3>1
    <3> QED BY <1>3, <3>1, <3>2
  <2> QED BY <2>1, <2>2
<1>6. g = u
  BY <1>3, <1>4, <1>5, SameSequence
<1> QED BY <1>6 DEF g, s, t, u

\* No display offset has no logical bytes.
LEMMA BytesOfNothing ==
    ASSUME NEW d \in Seq(Cells), NEW a \in Nat
    PROVE  LogicalBytes(d, a, a - 1) = << >>
<1> DEFINE s == SubSeq(d, a + 1, (a - 1) + 1)
<1>1. s \in Seq(Cells) /\ Len(s) = 0
  OBVIOUS
<1> HIDE DEF s
<1>2. Live(s) = s
  <2>1. \A i \in 1 .. Len(s) : s[i].live
    BY <1>1
  <2> QED BY <1>1, <2>1, LiveWhole
<1>3. s = << >>
  BY <1>1
<1>4. BytesOf(<< >>) = << >>
  BY DEF BytesOf
<1> QED BY <1>2, <1>3, <1>4 DEF LogicalBytes, s

\* The logical bytes of a range that is read in two parts.
LEMMA BytesOfParts ==
    ASSUME NEW d \in Seq(Cells), NEW a \in Nat, NEW b \in Nat, NEW c \in Nat,
           a <= b, b - 1 <= c, c < Len(d)
    PROVE  LogicalBytes(d, a, b - 1) \o LogicalBytes(d, b, c) = LogicalBytes(d, a, c)
<1> DEFINE s == SubSeq(d, a + 1, b)
           t == SubSeq(d, b + 1, c + 1)
<1>1. Len(d) \in Nat /\ b <= Len(d) /\ c + 1 \in Nat /\ c + 1 <= Len(d) /\ b <= c + 1
  OBVIOUS
<1>2. s \in Seq(Cells) /\ t \in Seq(Cells)
  BY <1>1, PieceType
<1>3. s \o t = SubSeq(d, a + 1, c + 1)
  BY <1>1, PieceConcat
<1> HIDE DEF s, t
<1>4. Live(s \o t) = Live(s) \o Live(t) /\ Live(s) \in Seq(Cells) /\ Live(t) \in Seq(Cells)
  BY <1>2, LiveConcat, LiveType
<1>5. BytesOf(Live(s \o t)) = BytesOf(Live(s)) \o BytesOf(Live(t))
  BY <1>4, BytesConcat
<1>6. (b - 1) + 1 = b
  OBVIOUS
<1> QED BY <1>3, <1>5, <1>6 DEF LogicalBytes, s, t

\* Taking out what was put in restores a document.
LEMMA InsertedRemoved ==
    ASSUME NEW d \in Seq(Cells), NEW p \in 1 .. Len(d) + 1, NEW c \in Cells
    PROVE  /\ InsertAt(d, p, c) \in Seq(Cells)
           /\ Len(InsertAt(d, p, c)) = Len(d) + 1
           /\ RemoveAt(InsertAt(d, p, c), p) = d
<1> DEFINE e == InsertAt(d, p, c)
           n == Len(d)
           s == SubSeq(d, 1, p - 1)
           t == SubSeq(d, p, n)
<1>1. n \in Nat /\ p \in Nat /\ p >= 1 /\ p <= n + 1
  OBVIOUS
<1>2. /\ s \in Seq(Cells) /\ Len(s) = p - 1
      /\ \A i \in 1 .. (p - 1) : s[i] = d[i]
  BY <1>1
<1>3. /\ t \in Seq(Cells) /\ Len(t) = n + 1 - p
      /\ \A i \in 1 .. (n + 1 - p) : t[i] = d[p - 1 + i]
  BY <1>1
<1> HIDE DEF s, t
<1>4. e = (s \o <<c>>) \o t
  BY DEF InsertAt, s, t
<1>5. /\ e \in Seq(Cells) /\ Len(e) = n + 1
      /\ \A i \in 1 .. (p - 1) : e[i] = s[i]
      /\ \A i \in 1 .. (n + 1 - p) : e[p + i] = t[i]
  BY <1>1, <1>2, <1>3, <1>4
<1> HIDE DEF e
<1> DEFINE u == SubSeq(e, 1, p - 1)
           v == SubSeq(e, p + 1, Len(e))
           g == u \o v
<1>6. /\ u \in Seq(Cells) /\ Len(u) = p - 1
      /\ \A i \in 1 .. (p - 1) : u[i] = e[i]
  BY <1>1, <1>5
<1>7. /\ v \in Seq(Cells) /\ Len(v) = n + 1 - p
      /\ \A i \in 1 .. (n + 1 - p) : v[i] = e[p + i]
  BY <1>1, <1>5
<1> HIDE DEF u, v
<1>8. /\ g \in Seq(Cells) /\ Len(g) = n
      /\ \A i \in 1 .. (p - 1) : g[i] = u[i]
      /\ \A i \in 1 .. (n + 1 - p) : g[p - 1 + i] = v[i]
  BY <1>1, <1>6, <1>7
<1> HIDE DEF g
<1>9. ASSUME NEW k \in 1 .. n
      PROVE  g[k] = d[k]
  <2>1. CASE k <= p - 1
    BY <1>1, <1>2, <1>5, <1>6, <1>8, <2>1
  <2>2. CASE ~ (k <= p - 1)
    <3>1. k - (p - 1) \in 1 .. (n + 1 - p) /\ p - 1 + (k - (p - 1)) = k
      BY <1>1, <2>2
    <3>2. g[p - 1 + (k - (p - 1))] = t[k - (p - 1)]
      BY <1>5, <1>7, <1>8, <3>1
    <3>3. t[k - (p - 1)] = d[p - 1 + (k - (p - 1))]
      BY <1>3, <3>1
    <3> QED BY <3>1, <3>2, <3>3
  <2> QED BY <2>1, <2>2
<1>10. g = d
  BY <1>8, <1>9, SameSequence
<1>11. RemoveAt(e, p) = g
  BY DEF RemoveAt, g, u, v
<1> QED BY <1>5, <1>10, <1>11 DEF e

\* Taking a cell out of a document leaves a document.
LEMMA RemovedType ==
    ASSUME NEW d \in Seq(Cells), NEW p \in 1 .. Len(d)
    PROVE  RemoveAt(d, p) \in Seq(Cells)
<1>1. SubSeq(d, 1, p - 1) \in Seq(Cells) /\ SubSeq(d, p + 1, Len(d)) \in Seq(Cells)
  OBVIOUS
<1> QED BY <1>1 DEF RemoveAt

(***************************************************************************)
(* The inductive invariant                                                 *)
(***************************************************************************)

\* The document, and the byte an insert has typed half of.
DocInv ==
    /\ doc \in Documents
    /\ fresh \in Nat /\ revision \in Nat
    /\ pending = 0 \/ pending \in 1 .. Len(doc)

\* The document without a half-typed byte: what the history leads to.
Settled == IF pending = 0 THEN doc ELSE RemoveAt(doc, pending)

\* A step that has kept the layout has kept the live cells.
Steps ==
    {s \in [kind : {"bytes", "layout"}, before : Documents, after : Documents] :
        s.kind = "bytes" => IdsOf(Live(s.before)) = IdsOf(Live(s.after))}

\* The undo steps lead up to the document one after the other, and the redo
\* steps, from the last on, away from it.
HistoryInv ==
    /\ undo \in Seq(Steps) /\ redo \in Seq(Steps)
    /\ \A i \in 1 .. Len(undo) - 1 : undo[i].after = undo[i + 1].before
    /\ undo # << >> => undo[Len(undo)].after = Settled
    /\ \A i \in 1 .. Len(redo) - 1 : redo[i].before = redo[i + 1].after
    /\ redo # << >> => redo[Len(redo)].before = Settled

\* What a validity promises of an analysis of the live cells of, when the
\* document is d.
Faithful(validity, of, d) ==
    /\ validity = "current" => of = Live(d)
    /\ validity # "layout" => IdsOf(of) = IdsOf(Live(d))

Answers == [id : Nat, revision : Nat, ok : BOOLEAN, of : Documents]

\* A job that has not been handled is of a number given out and of a document
\* not newer than this one; the newest has the state of the analysis to
\* itself, and the validity there is true of what it was given.
JobOk(m, d, rev, job, a) ==
    /\ m.id \in Nat /\ m.revision \in Nat /\ m.of \in Documents
    /\ m.id <= job /\ m.revision <= rev
    /\ m.revision = rev => m.of = Live(d)
    /\ m.id = job => a # None /\ Faithful(a.validity, m.of, d)

JobsInv ==
    /\ jobId \in Nat
    /\ \A w \in workers : JobOk(w, doc, revision, jobId, analysis)
    /\ channel \in Seq(Answers)
    /\ \A i \in 1 .. Len(channel) : JobOk(channel[i], doc, revision, jobId, analysis)

\* Every job answers once.
OnceInv ==
    /\ \A v, w \in workers : v.id = w.id => v = w
    /\ \A i, j \in 1 .. Len(channel) : channel[i].id = channel[j].id => i = j
    /\ \A w \in workers, i \in 1 .. Len(channel) : w.id # channel[i].id

AnalysisInv ==
    analysis # None =>
        /\ analysis \in AnalysisStates
        /\ analysis.status = "failed" => analysis.of = None
        /\ analysis.status = "ready" =>
              symbols = analysis.of /\ Faithful(analysis.validity, analysis.of, doc)

\* A scan has read its range up to its cursor, of the document there is now.
HashScan(s, d) ==
    /\ s \in [kind : {"hash"}, of : Documents, from : Nat, to : Nat,
              cursor : Nat, bytes : Seq(Byte \cup {0})]
    /\ s.of = d
    /\ s.from <= s.cursor /\ s.cursor <= s.to /\ s.to < Len(d)
    /\ s.bytes = LogicalBytes(d, s.from, s.cursor - 1)

StatsScan(s, d, rev) ==
    /\ s \in [kind : {"stats"}, from : Nat, to : Nat, cursor : Nat,
              bytes : Seq(Byte \cup {0}), revision : Nat]
    /\ s.revision = rev
    /\ s.from <= s.cursor /\ s.cursor <= s.to /\ s.to < Len(d)
    /\ s.bytes = LogicalBytes(d, s.from, s.cursor - 1)

\* No offset from first to last is a mismatch.
Agree(d, first, last) == \A p \in first .. last : ~ Differs(d, p)

\* A mismatch scan is in one of four places: before or behind the end (the
\* start) of the document, going forwards or backwards, and has found nothing
\* where it has been.
DiffScan(s, d) ==
    LET last == Len(d) - 1
        turn == Min2(s.origin, last)
    IN /\ s \in DiffScans
       /\ s.of = d /\ d # << >> /\ s.origin <= Len(d)
       /\ s.lo <= s.cursor /\ s.cursor <= s.hi
       /\ \/ /\ s.dir = "next" /\ ~ s.wrapped
             /\ s.lo = s.origin + 1 /\ s.hi = last
             /\ Agree(d, s.origin + 1, s.cursor - 1)
          \/ /\ s.dir = "next" /\ s.wrapped
             /\ s.lo = 0 /\ s.hi = turn
             /\ Agree(d, s.origin + 1, last) /\ Agree(d, 0, s.cursor - 1)
          \/ /\ s.dir = "prev" /\ ~ s.wrapped /\ s.origin > 0
             /\ s.lo = 0 /\ s.hi = s.origin - 1
             /\ Agree(d, s.cursor + 1, s.origin - 1)
          \/ /\ s.dir = "prev" /\ ~ s.wrapped /\ s.origin = 0
             /\ s.lo = 0 /\ s.hi = 0
          \/ /\ s.dir = "prev" /\ s.wrapped
             /\ s.lo = turn /\ s.hi = last
             /\ Agree(d, 0, s.origin - 1) /\ Agree(d, s.cursor + 1, last)
             /\ s.origin = 0 => ~ Differs(d, 0)

ScanInv == scan # None => 
    \/ HashScan(scan, doc) \/ StatsScan(scan, doc, revision) \/ DiffScan(scan, doc)

PanelInv ==
    panel # None =>
        /\ panel \in [from : Nat, to : Nat, bytes : Seq(Byte \cup {0}), revision : Nat]
        /\ panel.from <= panel.to /\ panel.revision <= revision
        /\ panel.revision = revision =>
              panel.bytes = LogicalBytes(doc, panel.from, panel.to)

ReportInv ==
    /\ report # None /\ report.kind = "hash" =>
           report.bytes = LogicalBytes(report.of, report.from, report.to)
    /\ NearestMismatch

LoopInv ==
    /\ DocInv /\ HistoryInv
    /\ JobsInv /\ OnceInv /\ AnalysisInv
    /\ ScanInv /\ PanelInv /\ ReportInv

\* The loop starts in a state the invariant holds in.
LEMMA LoopInit == Init => LoopInv
<1> SUFFICES ASSUME Init PROVE LoopInv
  OBVIOUS
<1>1. DocInv
  <2>1. Len(Original) \in Nat /\ \A i \in 1 .. Len(Original) : Original[i] \in Byte
    BY FileAssumption
  <2>2. \A i \in 1 .. Len(Original) : Cell(i, Original[i]) \in Cells
    BY <2>1 DEF Cell, Cells
  <2>3. doc \in Seq(Cells)
    BY <2>1, <2>2 DEF Init
  <2> QED BY <2>1, <2>3, DocumentIs DEF Init, DocInv
<1>2. HistoryInv
  BY DEF Init, HistoryInv
<1>3. JobsInv /\ OnceInv /\ AnalysisInv
  BY DEF Init, JobsInv, OnceInv, AnalysisInv
<1>4. ScanInv /\ PanelInv /\ ReportInv
  BY DEF Init, ScanInv, PanelInv, ReportInv, NearestMismatch
<1> QED BY <1>1, <1>2, <1>3, <1>4 DEF LoopInv

(***************************************************************************)
(* Changes of the document                                                 *)
(***************************************************************************)

\* What a change of the document leaves of the validity is still faithful.
LEMMA WorseFaithful ==
    ASSUME NEW d, NEW e, NEW of, NEW kind \in {"bytes", "layout"},
           kind = "bytes" => IdsOf(Live(e)) = IdsOf(Live(d)),
           NEW v \in {"current", "bytes", "layout"}, Faithful(v, of, d)
    PROVE  Faithful(Worse(v, kind), of, e) /\ Worse(v, kind) \in {"bytes", "layout"}
<1>1. CASE "layout" \in {v, kind}
  <2>1. Worse(v, kind) = "layout"
    BY <1>1 DEF Worse
  <2> QED BY <2>1 DEF Faithful
<1>2. CASE "layout" \notin {v, kind}
  <2>1. kind = "bytes" /\ v # "layout" /\ Worse(v, kind) = "bytes"
    BY <1>2 DEF Worse
  <2> QED BY <2>1 DEF Faithful
<1> QED BY <1>1, <1>2

\* A change that marks the analysis keeps what is known of the jobs.
LEMMA MarkedJobs ==
    ASSUME DocInv, JobsInv, OnceInv, AnalysisInv, doc' \in Documents,
           revision' = revision + 1,
           NEW kind \in {"bytes", "layout"}, analysis' = Marked(kind),
           kind = "bytes" => IdsOf(Live(doc')) = IdsOf(Live(doc)),
           UNCHANGED <<jobId, workers, channel, symbols>>
    PROVE  JobsInv' /\ OnceInv' /\ AnalysisInv'
<1>0. revision \in Nat
  BY DEF DocInv
<1>1. ASSUME analysis # None
      PROVE  /\ analysis' # None /\ analysis' \in AnalysisStates
             /\ analysis'.status = analysis.status /\ analysis'.of = analysis.of
             /\ \A of : Faithful(analysis.validity, of, doc) =>
                           Faithful(analysis'.validity, of, doc')
  <2>1. analysis \in AnalysisStates
    BY <1>1 DEF AnalysisInv
  <2>2. analysis' = [analysis EXCEPT !.validity = Worse(analysis.validity, kind)]
    BY <1>1 DEF Marked
  <2>3. /\ analysis.validity \in {"current", "bytes", "layout"}
        /\ Worse(analysis.validity, kind) \in {"current", "bytes", "layout"}
    BY <2>1 DEF AnalysisStates, Worse
  <2>4. analysis' \in AnalysisStates /\ analysis'.validity = Worse(analysis.validity, kind)
        /\ analysis'.status = analysis.status /\ analysis'.of = analysis.of
    BY <2>1, <2>2, <2>3 DEF AnalysisStates
  <2>5. analysis' # None
    BY <2>4, NoneAssumption
  <2> QED BY <2>3, <2>4, <2>5, WorseFaithful
<1>2. ASSUME NEW m, JobOk(m, doc, revision, jobId, analysis)
      PROVE  JobOk(m, doc', revision', jobId', analysis')
  <2>1. m.id \in Nat /\ m.revision \in Nat /\ m.of \in Documents /\ m.id <= jobId'
    BY <1>2 DEF JobOk
  <2>2. m.revision <= revision' /\ m.revision # revision'
    BY <1>0, <1>2 DEF JobOk
  <2>3. m.id = jobId' => analysis' # None /\ Faithful(analysis'.validity, m.of, doc')
    BY <1>1, <1>2 DEF JobOk
  <2> QED BY <2>1, <2>2, <2>3 DEF JobOk
<1>3. JobsInv'
  BY <1>2 DEF JobsInv
<1>4. OnceInv'
  BY DEF OnceInv
<1>5. AnalysisInv'
  <2>1. CASE analysis = None
    BY <2>1 DEF Marked, AnalysisInv
  <2>2. CASE analysis # None
    BY <1>1, <2>2 DEF AnalysisInv
  <2> QED BY <2>1, <2>2
<1> QED BY <1>3, <1>4, <1>5

\* A change of the document comes when no scan is pending, and puts the
\* statistics on display out of date.
LEMMA ChangedScans ==
    ASSUME DocInv, PanelInv, ReportInv, Accepts, revision' = revision + 1,
           UNCHANGED scanVars
    PROVE  ScanInv' /\ PanelInv' /\ ReportInv'
<1>1. ScanInv'
  BY DEF Accepts, scanVars, ScanInv
<1>2. PanelInv'
  BY DEF DocInv, scanVars, PanelInv
<1>3. ReportInv'
  BY DEF scanVars, ReportInv, NearestMismatch
<1> QED BY <1>1, <1>2, <1>3

\* A step that leads from the document of the history to the new one can be
\* put behind the others.
LEMMA StepPushed ==
    ASSUME HistoryInv, NEW s \in Steps, s.before = Settled, s.after = Settled',
           undo' = Append(undo, s), redo' = << >>
    PROVE  HistoryInv'
<1> DEFINE n == Len(undo)
           u == Append(undo, s)
<1>1. undo \in Seq(Steps) /\ n \in Nat
  BY DEF HistoryInv
<1>2. /\ u \in Seq(Steps) /\ Len(u) = n + 1 /\ u[n + 1] = s
      /\ \A i \in 1 .. n : u[i] = undo[i]
  BY <1>1
<1>3. /\ \A i \in 1 .. n - 1 : undo[i].after = undo[i + 1].before
      /\ n # 0 => undo[n].after = Settled
  BY <1>1 DEF HistoryInv
<1> HIDE DEF u, n
<1>4. ASSUME NEW i \in 1 .. Len(u) - 1
      PROVE  u[i].after = u[i + 1].before
  <2>1. CASE i = n
    BY <1>1, <1>2, <1>3, <1>4, <2>1
  <2>2. CASE i # n
    <3>1. i \in 1 .. n - 1 /\ i \in 1 .. n /\ i + 1 \in 1 .. n
      BY <1>1, <1>2, <1>4, <2>2
    <3> QED BY <1>2, <1>3, <3>1
  <2> QED BY <2>1, <2>2
<1>5. u[Len(u)].after = Settled'
  BY <1>2
<1>6. undo' = u
  BY DEF u
<1> QED BY <1>2, <1>4, <1>5, <1>6 DEF HistoryInv

\* An edit with a step of its own: it starts from the document the history
\* leads to.
LEMMA EditKeeps ==
    ASSUME LoopInv, Accepts, NEW kind \in {"bytes", "layout"},
           NEW before \in Documents, NEW d \in Documents, before = Settled,
           kind = "bytes" => before = doc /\ IdsOf(Live(d)) = IdsOf(Live(doc)),
           Edit(kind, before, d), fresh' = fresh, pending' = 0
    PROVE  LoopInv'
<1> USE DEF LoopInv
<1>1. /\ doc' = d /\ revision' = revision + 1 /\ analysis' = Marked(kind)
      /\ UNCHANGED <<jobId, workers, channel, symbols>> /\ UNCHANGED scanVars
  BY DEF Edit
<1>2. DocInv'
  BY <1>1 DEF DocInv
<1>3. HistoryInv'
  <2> DEFINE s == [kind |-> kind, before |-> before, after |-> d]
  <2>1. s \in Steps
    BY DEF Steps
  <2>2. Settled' = d
    BY <1>1 DEF Settled
  <2>3. undo' = Append(undo, s) /\ redo' = << >>
    BY DEF Edit
  <2>4. s.before = Settled /\ s.after = Settled'
    BY <2>2
  <2> HIDE DEF s
  <2> QED BY <2>1, <2>3, <2>4, StepPushed
<1>4. JobsInv' /\ OnceInv' /\ AnalysisInv'
  BY <1>1, MarkedJobs
<1>5. ScanInv' /\ PanelInv' /\ ReportInv'
  BY <1>1, ChangedScans
<1> QED BY <1>2, <1>3, <1>4, <1>5

\* Writing a byte into a cell.
LEMMA CellChanged ==
    ASSUME NEW c \in Cells, NEW b \in Byte
    PROVE  /\ [c EXCEPT !.byte = b] \in Cells
           /\ [c EXCEPT !.byte = b].id = c.id /\ [c EXCEPT !.byte = b].live = c.live
  BY DEF Cells

\* A byte is overwritten: the live cells stay where they are.
LEMMA OverwriteKeeps == LoopInv /\ Overwrite => LoopInv'
<1> SUFFICES ASSUME LoopInv, Overwrite PROVE LoopInv'
  OBVIOUS
<1>1. Accepts /\ pending = 0 /\ fresh' = fresh /\ pending' = 0
  BY DEF Overwrite, AcceptsCommand
<1>2. PICK p \in 1 .. Len(doc), b \in Byte :
         Edit("bytes", doc, [doc EXCEPT ![p].byte = b])
  BY DEF Overwrite
<1> DEFINE d == [doc EXCEPT ![p].byte = b]
<1>3. doc \in Seq(Cells)
  BY DocumentIs DEF LoopInv, DocInv
<1>4. /\ d \in Seq(Cells) /\ Len(d) = Len(doc)
      /\ \A i \in 1 .. Len(doc) : d[i].id = doc[i].id /\ d[i].live = doc[i].live
  <2>1. doc[p] \in Cells /\ [doc[p] EXCEPT !.byte = b] \in Cells
        /\ [doc[p] EXCEPT !.byte = b].id = doc[p].id
        /\ [doc[p] EXCEPT !.byte = b].live = doc[p].live
    <3>1. doc[p] \in Cells /\ b \in Byte
      BY <1>2, <1>3
    <3> QED BY <3>1, CellChanged
  <2>2. d = [doc EXCEPT ![p] = [doc[p] EXCEPT !.byte = b]]
    OBVIOUS
  <2> QED BY <1>3, <2>1, <2>2
<1> HIDE DEF d
<1>5. IdsOf(Live(d)) = IdsOf(Live(doc))
  BY <1>3, <1>4, LiveIds
<1>6. doc \in Documents /\ d \in Documents /\ doc = Settled
  BY <1>1, <1>3, <1>4, DocumentIs DEF Settled
<1>7. Edit("bytes", doc, d)
  BY <1>2 DEF d
<1> QED BY <1>1, <1>5, <1>6, <1>7, EditKeeps

\* A cell is deleted, as a tombstone or for good.
LEMMA DeletesKeep == LoopInv /\ (TombstoneDelete \/ RealDelete) => LoopInv'
<1> SUFFICES ASSUME LoopInv, TombstoneDelete \/ RealDelete PROVE LoopInv'
  OBVIOUS
<1>1. Accepts /\ pending = 0 /\ fresh' = fresh /\ pending' = 0
  BY DEF TombstoneDelete, RealDelete, AcceptsCommand
<1>2. doc \in Seq(Cells) /\ doc \in Documents /\ doc = Settled
  BY <1>1, DocumentIs DEF LoopInv, DocInv, Settled
<1>3. CASE TombstoneDelete
  <2>1. PICK p \in 1 .. Len(doc) : Edit("layout", doc, [doc EXCEPT ![p].live = FALSE])
    BY <1>3 DEF TombstoneDelete
  <2> DEFINE d == [doc EXCEPT ![p].live = FALSE]
  <2>2. d \in Documents
    <3>1. doc[p] \in Cells /\ [doc[p] EXCEPT !.live = FALSE] \in Cells
      <4>1. doc[p] \in Cells
        BY <1>2
      <4>2. [doc[p] EXCEPT !.live = FALSE] \in Cells
        BY <4>1 DEF Cells
      <4> QED BY <4>1, <4>2
    <3>2. d = [doc EXCEPT ![p] = [doc[p] EXCEPT !.live = FALSE]]
      OBVIOUS
    <3>3. d \in Seq(Cells)
      BY <1>2, <3>1, <3>2
    <3> QED BY <3>3, DocumentIs
  <2> QED BY <1>1, <1>2, <2>1, <2>2, EditKeeps
<1>4. CASE RealDelete
  <2>1. PICK p \in 1 .. Len(doc) : Edit("layout", doc, RemoveAt(doc, p))
    BY <1>4 DEF RealDelete
  <2>2. RemoveAt(doc, p) \in Documents
    BY <1>2, RemovedType, DocumentIs
  <2> QED BY <1>1, <1>2, <2>1, <2>2, EditKeeps
<1> QED BY <1>3, <1>4

\* The document without its half-typed byte is a document.
LEMMA SettledType == DocInv => Settled \in Documents
<1> SUFFICES ASSUME DocInv PROVE Settled \in Documents
  OBVIOUS
<1>1. doc \in Seq(Cells) /\ (pending = 0 \/ pending \in 1 .. Len(doc))
  BY DocumentIs DEF DocInv
<1>2. pending # 0 => RemoveAt(doc, pending) \in Seq(Cells)
  BY <1>1, RemovedType
<1> QED BY <1>1, <1>2, DocumentIs DEF Settled

\* The second half of an inserted byte: the step leads from the document
\* without it.
LEMMA CommitInsertKeeps == LoopInv /\ CommitInsert => LoopInv'
<1> SUFFICES ASSUME LoopInv, CommitInsert PROVE LoopInv'
  OBVIOUS
<1>1. Accepts /\ pending # 0 /\ fresh' = fresh /\ pending' = 0
  BY DEF CommitInsert
<1>2. PICK b \in Byte :
         Edit("layout", RemoveAt(doc, pending), [doc EXCEPT ![pending].byte = b])
  BY DEF CommitInsert
<1>3. doc \in Seq(Cells) /\ pending \in 1 .. Len(doc)
  BY <1>1, DocumentIs DEF LoopInv, DocInv
<1> DEFINE d == [doc EXCEPT ![pending].byte = b]
<1>4. d \in Documents
  <2>1. doc[pending] \in Cells /\ [doc[pending] EXCEPT !.byte = b] \in Cells
    <3>1. doc[pending] \in Cells
      BY <1>3
    <3> QED BY <3>1, CellChanged
  <2>2. d = [doc EXCEPT ![pending] = [doc[pending] EXCEPT !.byte = b]]
    OBVIOUS
  <2>3. d \in Seq(Cells)
    BY <1>3, <2>1, <2>2
  <2> QED BY <2>3, DocumentIs
<1>5. RemoveAt(doc, pending) = Settled /\ RemoveAt(doc, pending) \in Documents
  BY <1>1, <1>3, RemovedType, DocumentIs DEF Settled
<1> QED BY <1>1, <1>2, <1>4, <1>5, EditKeeps

\* The first half leaves no step, and what the history leads to is the same.
LEMMA InsertHighKeeps == LoopInv /\ InsertHigh => LoopInv'
<1> SUFFICES ASSUME LoopInv, InsertHigh PROVE LoopInv'
  OBVIOUS
<1> USE DEF LoopInv
<1>1. /\ Accepts /\ pending = 0 /\ revision' = revision + 1 /\ fresh' = fresh + 1
      /\ redo' = << >> /\ undo' = undo /\ analysis' = Marked("layout")
      /\ UNCHANGED <<jobId, workers, channel, symbols>> /\ UNCHANGED scanVars
  BY DEF InsertHigh, AcceptsCommand
<1>2. PICK p \in 1 .. Len(doc) + 1 :
         pending' = p /\ doc' = InsertAt(doc, p, Cell(fresh, 0))
  BY DEF InsertHigh
<1>3. doc \in Seq(Cells) /\ fresh \in Nat /\ revision \in Nat /\ Cell(fresh, 0) \in Cells
  BY DocumentIs DEF DocInv, Cell, Cells
<1>4. doc' \in Seq(Cells) /\ Len(doc') = Len(doc) + 1 /\ RemoveAt(doc', p) = doc
  BY <1>2, <1>3, InsertedRemoved
<1>5. DocInv'
  BY <1>1, <1>2, <1>3, <1>4, DocumentIs DEF DocInv
<1>6. HistoryInv'
  <2>1. Settled' = Settled
    BY <1>1, <1>2, <1>4 DEF Settled
  <2> QED BY <1>1, <2>1 DEF HistoryInv
<1>7. JobsInv' /\ OnceInv' /\ AnalysisInv'
  BY <1>1, <1>5, MarkedJobs DEF DocInv
<1>8. ScanInv' /\ PanelInv' /\ ReportInv'
  BY <1>1, ChangedScans
<1> QED BY <1>5, <1>6, <1>7, <1>8

\* A half-typed byte is taken back.
LEMMA DropInsertKeeps == LoopInv /\ DropInsert => LoopInv'
<1> SUFFICES ASSUME LoopInv, DropInsert PROVE LoopInv'
  OBVIOUS
<1> USE DEF LoopInv
<1>1. /\ Accepts /\ pending # 0 /\ revision' = revision + 1 /\ fresh' = fresh
      /\ redo' = redo /\ undo' = undo /\ analysis' = Marked("layout")
      /\ UNCHANGED <<jobId, workers, channel, symbols>> /\ UNCHANGED scanVars
      /\ doc' = RemoveAt(doc, pending) /\ pending' = 0
  BY DEF DropInsert
<1>2. doc' = Settled /\ doc' \in Documents
  BY <1>1, SettledType DEF Settled
<1>3. DocInv'
  BY <1>1, <1>2 DEF DocInv
<1>4. HistoryInv'
  <2>1. Settled' = Settled
    BY <1>1, <1>2 DEF Settled
  <2> QED BY <1>1, <2>1 DEF HistoryInv
<1>5. JobsInv' /\ OnceInv' /\ AnalysisInv'
  BY <1>1, <1>2, MarkedJobs
<1>6. ScanInv' /\ PanelInv' /\ ReportInv'
  BY <1>1, ChangedScans
<1> QED BY <1>3, <1>4, <1>5, <1>6

\* The last undo step leads to the document: it moves to the redo stack.
LEMMA UndoKeeps == LoopInv /\ Undo => LoopInv'
<1> SUFFICES ASSUME LoopInv, Undo PROVE LoopInv'
  OBVIOUS
<1> USE DEF LoopInv
<1> DEFINE n == Len(undo)
           m == Len(redo)
           s == undo[n]
<1>1. /\ Accepts /\ pending = 0 /\ pending' = 0 /\ revision' = revision + 1 /\ fresh' = fresh
      /\ UNCHANGED <<jobId, workers, channel, symbols>> /\ UNCHANGED scanVars
      /\ undo # << >> /\ doc' = s.before /\ analysis' = Marked(s.kind)
      /\ redo' = Append(redo, s) /\ undo' = SubSeq(undo, 1, n - 1)
  BY DEF Undo, AcceptsCommand, Last, Front
<1>2. /\ undo \in Seq(Steps) /\ redo \in Seq(Steps) /\ m \in Nat
      /\ n \in Nat /\ n >= 1 /\ \A i \in 1 .. n : undo[i] \in Steps
  BY <1>1 DEF HistoryInv
<1>3. s \in Steps
  BY <1>2
<1> HIDE DEF s
<1>4. /\ s.kind \in {"bytes", "layout"} /\ s.before \in Documents /\ s.after \in Documents
      /\ s.kind = "bytes" => IdsOf(Live(s.before)) = IdsOf(Live(s.after))
  BY <1>3 DEF Steps
<1>5. s.after = doc
  BY <1>1 DEF HistoryInv, Settled, s
<1>6. DocInv'
  BY <1>1, <1>4 DEF DocInv
<1>7. HistoryInv'
  <2>1. Settled' = s.before /\ Settled = doc
    BY <1>1 DEF Settled
  <2>2. /\ \A i \in 1 .. n - 1 : undo[i].after = undo[i + 1].before
        /\ \A i \in 1 .. m - 1 : redo[i].before = redo[i + 1].after
        /\ m # 0 => redo[m].before = doc
    BY <1>2, <2>1 DEF HistoryInv
  <2>3. /\ undo' \in Seq(Steps) /\ Len(undo') = n - 1
        /\ \A i \in 1 .. n - 1 : undo'[i] = undo[i]
    BY <1>1, <1>2, FrontIs
  <2>4. /\ redo' \in Seq(Steps) /\ Len(redo') = m + 1 /\ redo'[m + 1] = s
        /\ \A i \in 1 .. m : redo'[i] = redo[i]
    BY <1>1, <1>2, <1>3
  <2> HIDE DEF n, m
  <2>5. \A i \in 1 .. Len(undo') - 1 : undo'[i].after = undo'[i + 1].before
    <3>1. ASSUME NEW i \in 1 .. Len(undo') - 1
          PROVE  undo'[i].after = undo'[i + 1].before
      <4>1. i \in 1 .. n - 1 /\ i + 1 \in 1 .. n - 1
        BY <1>2, <2>3
      <4> QED BY <2>2, <2>3, <4>1
    <3> QED BY <3>1
  <2>6. undo' # << >> => undo'[Len(undo')].after = s.before
    <3>1. ASSUME undo' # << >>
          PROVE  undo'[Len(undo')].after = s.before
      <4>1. n - 1 \in 1 .. n - 1 /\ (n - 1) + 1 = n
        BY <1>2, <2>3, <3>1
      <4>2. undo'[n - 1] = undo[n - 1] /\ undo[n - 1].after = undo[(n - 1) + 1].before
        BY <2>2, <2>3, <4>1
      <4> QED BY <2>3, <4>1, <4>2 DEF s
    <3> QED BY <3>1
  <2>7. \A i \in 1 .. Len(redo') - 1 : redo'[i].before = redo'[i + 1].after
    <3>1. ASSUME NEW i \in 1 .. Len(redo') - 1
          PROVE  redo'[i].before = redo'[i + 1].after
      <4>1. i \in 1 .. m
        BY <1>2, <2>4
      <4>2. CASE i = m
        <5>1. redo'[i].before = doc /\ redo'[i + 1] = s
          BY <1>2, <2>2, <2>4, <4>1, <4>2
        <5> QED BY <1>5, <5>1
      <4>3. CASE i # m
        <5>1. i \in 1 .. m - 1 /\ i + 1 \in 1 .. m
          BY <1>2, <4>1, <4>3
        <5> QED BY <2>2, <2>4, <4>1, <5>1
      <4> QED BY <4>2, <4>3
    <3> QED BY <3>1
  <2>8. redo'[Len(redo')].before = s.before
    BY <2>4
  <2> QED BY <2>1, <2>3, <2>4, <2>5, <2>6, <2>7, <2>8 DEF HistoryInv
<1>8. JobsInv' /\ OnceInv' /\ AnalysisInv'
  BY <1>1, <1>4, <1>5, MarkedJobs
<1>9. ScanInv' /\ PanelInv' /\ ReportInv'
  BY <1>1, ChangedScans
<1> QED BY <1>6, <1>7, <1>8, <1>9

\* The last redo step starts at the document: it moves to the undo stack.
LEMMA RedoKeeps == LoopInv /\ Redo => LoopInv'
<1> SUFFICES ASSUME LoopInv, Redo PROVE LoopInv'
  OBVIOUS
<1> USE DEF LoopInv
<1> DEFINE n == Len(redo)
           m == Len(undo)
           s == redo[n]
<1>1. /\ Accepts /\ pending = 0 /\ pending' = 0 /\ revision' = revision + 1 /\ fresh' = fresh
      /\ UNCHANGED <<jobId, workers, channel, symbols>> /\ UNCHANGED scanVars
      /\ redo # << >> /\ doc' = s.after /\ analysis' = Marked(s.kind)
      /\ undo' = Append(undo, s) /\ redo' = SubSeq(redo, 1, n - 1)
  BY DEF Redo, AcceptsCommand, Last, Front
<1>2. /\ undo \in Seq(Steps) /\ redo \in Seq(Steps) /\ m \in Nat
      /\ n \in Nat /\ n >= 1 /\ \A i \in 1 .. n : redo[i] \in Steps
  BY <1>1 DEF HistoryInv
<1>3. s \in Steps
  BY <1>2
<1> HIDE DEF s
<1>4. /\ s.kind \in {"bytes", "layout"} /\ s.before \in Documents /\ s.after \in Documents
      /\ s.kind = "bytes" => IdsOf(Live(s.before)) = IdsOf(Live(s.after))
  BY <1>3 DEF Steps
<1>5. s.before = doc
  BY <1>1 DEF HistoryInv, Settled, s
<1>6. DocInv'
  BY <1>1, <1>4 DEF DocInv
<1>7. HistoryInv'
  <2>1. Settled' = s.after /\ Settled = doc
    BY <1>1 DEF Settled
  <2>2. /\ \A i \in 1 .. n - 1 : redo[i].before = redo[i + 1].after
        /\ \A i \in 1 .. m - 1 : undo[i].after = undo[i + 1].before
        /\ m # 0 => undo[m].after = doc
    BY <1>2, <2>1 DEF HistoryInv
  <2>3. /\ redo' \in Seq(Steps) /\ Len(redo') = n - 1
        /\ \A i \in 1 .. n - 1 : redo'[i] = redo[i]
    BY <1>1, <1>2, FrontIs
  <2>4. /\ undo' \in Seq(Steps) /\ Len(undo') = m + 1 /\ undo'[m + 1] = s
        /\ \A i \in 1 .. m : undo'[i] = undo[i]
    BY <1>1, <1>2, <1>3
  <2> HIDE DEF n, m
  <2>5. \A i \in 1 .. Len(redo') - 1 : redo'[i].before = redo'[i + 1].after
    <3>1. ASSUME NEW i \in 1 .. Len(redo') - 1
          PROVE  redo'[i].before = redo'[i + 1].after
      <4>1. i \in 1 .. n - 1 /\ i + 1 \in 1 .. n - 1
        BY <1>2, <2>3
      <4> QED BY <2>2, <2>3, <4>1
    <3> QED BY <3>1
  <2>6. redo' # << >> => redo'[Len(redo')].before = s.after
    <3>1. ASSUME redo' # << >>
          PROVE  redo'[Len(redo')].before = s.after
      <4>1. n - 1 \in 1 .. n - 1 /\ (n - 1) + 1 = n
        BY <1>2, <2>3, <3>1
      <4>2. redo'[n - 1] = redo[n - 1] /\ redo[n - 1].before = redo[(n - 1) + 1].after
        BY <2>2, <2>3, <4>1
      <4> QED BY <2>3, <4>1, <4>2 DEF s
    <3> QED BY <3>1
  <2>7. \A i \in 1 .. Len(undo') - 1 : undo'[i].after = undo'[i + 1].before
    <3>1. ASSUME NEW i \in 1 .. Len(undo') - 1
          PROVE  undo'[i].after = undo'[i + 1].before
      <4>1. i \in 1 .. m
        BY <1>2, <2>4
      <4>2. CASE i = m
        <5>1. undo'[i].after = doc /\ undo'[i + 1] = s
          BY <1>2, <2>2, <2>4, <4>1, <4>2
        <5> QED BY <1>5, <5>1
      <4>3. CASE i # m
        <5>1. i \in 1 .. m - 1 /\ i + 1 \in 1 .. m
          BY <1>2, <4>1, <4>3
        <5> QED BY <2>2, <2>4, <4>1, <5>1
      <4> QED BY <4>2, <4>3
    <3> QED BY <3>1
  <2>8. undo'[Len(undo')].after = s.after
    BY <2>4
  <2> QED BY <2>1, <2>3, <2>4, <2>5, <2>6, <2>7, <2>8 DEF HistoryInv
<1>8. JobsInv' /\ OnceInv' /\ AnalysisInv'
  BY <1>1, <1>4, <1>5, MarkedJobs
<1>9. ScanInv' /\ PanelInv' /\ ReportInv'
  BY <1>1, ChangedScans
<1> QED BY <1>6, <1>7, <1>8, <1>9

\* A save keeps the live cells in order and forgets the history.
LEMMA WriteKeeps == LoopInv /\ Write => LoopInv'
<1> SUFFICES ASSUME LoopInv, Write PROVE LoopInv'
  OBVIOUS
<1> USE DEF LoopInv
<1>1. /\ Accepts /\ pending = 0 /\ pending' = 0 /\ revision' = revision + 1 /\ fresh' = fresh
      /\ UNCHANGED jobVars /\ UNCHANGED scanVars
      /\ doc' = Live(doc) /\ undo' = << >> /\ redo' = << >>
  BY DEF Write, AcceptsCommand
<1>2. doc \in Seq(Cells) /\ revision \in Nat
  BY DocumentIs DEF DocInv
<1>3. doc' \in Documents /\ Live(doc') = Live(doc)
  BY <1>1, <1>2, LiveType, LiveTwice, DocumentIs
<1>4. DocInv'
  BY <1>1, <1>3 DEF DocInv
<1>5. HistoryInv'
  BY <1>1 DEF HistoryInv
<1>6. \A v, of : Faithful(v, of, doc) => Faithful(v, of, doc')
  BY <1>3 DEF Faithful
<1>7. JobsInv'
  <2>1. ASSUME NEW m, JobOk(m, doc, revision, jobId, analysis)
        PROVE  JobOk(m, doc', revision', jobId, analysis)
    <3>1. /\ m.id \in Nat /\ m.revision \in Nat /\ m.of \in Documents
          /\ m.id <= jobId /\ m.revision <= revision + 1
          /\ m.revision # revision + 1
      BY <1>2, <2>1 DEF JobOk
    <3>2. m.id = jobId => analysis # None /\ Faithful(analysis.validity, m.of, doc')
      BY <1>6, <2>1 DEF JobOk
    <3> QED BY <1>1, <3>1, <3>2 DEF JobOk
  <2> QED BY <1>1, <2>1 DEF jobVars, JobsInv
<1>8. OnceInv' /\ AnalysisInv'
  BY <1>1, <1>6 DEF jobVars, OnceInv, AnalysisInv
<1>9. ScanInv' /\ PanelInv' /\ ReportInv'
  BY <1>1, ChangedScans
<1> QED BY <1>4, <1>5, <1>7, <1>8, <1>9

(***************************************************************************)
(* Jobs                                                                    *)
(***************************************************************************)

\* Steps that leave the document alone keep what is known of it.
LEMMA DocumentKept ==
    ASSUME DocInv, HistoryInv, UNCHANGED docVars
    PROVE  DocInv' /\ HistoryInv'
  BY DEF docVars, DocInv, HistoryInv, Settled

\* Steps that leave the document and the scans alone keep what is known of
\* the scans ...
LEMMA ScansKept ==
    ASSUME ScanInv, PanelInv, ReportInv, UNCHANGED docVars, UNCHANGED scanVars
    PROVE  ScanInv' /\ PanelInv' /\ ReportInv'
<1>1. /\ doc' = doc /\ revision' = revision /\ scan' = scan
      /\ panel' = panel /\ report' = report
  BY DEF docVars, scanVars
<1>2. ScanInv'
  BY <1>1 DEF ScanInv
<1>3. PanelInv' /\ ReportInv'
  BY <1>1 DEF PanelInv, ReportInv, NearestMismatch
<1> QED BY <1>2, <1>3

\* ... and steps that leave the analysis alone what is known of the jobs.
LEMMA JobsKept ==
    ASSUME JobsInv, OnceInv, AnalysisInv, UNCHANGED docVars, UNCHANGED jobVars
    PROVE  JobsInv' /\ OnceInv' /\ AnalysisInv'
<1>1. /\ doc' = doc /\ revision' = revision
      /\ UNCHANGED <<jobId, analysis, workers, channel, symbols>>
  BY DEF docVars, jobVars
<1> QED BY <1>1 DEF JobsInv, OnceInv, AnalysisInv

\* A worker answers with what it was given.
LEMMA WorkerAnswersKeeps == LoopInv /\ WorkerAnswers => LoopInv'
<1> SUFFICES ASSUME LoopInv, WorkerAnswers PROVE LoopInv'
  OBVIOUS
<1> USE DEF LoopInv
<1>1. PICK w \in workers, ok \in BOOLEAN :
         /\ workers' = workers \ {w}
         /\ channel' = Append(channel, [id |-> w.id, revision |-> w.revision,
                                        ok |-> ok, of |-> w.of])
         /\ UNCHANGED <<pc, docVars, jobId, analysis, symbols, scanVars>>
  BY DEF WorkerAnswers
<1> DEFINE n == Len(channel)
           r == [id |-> w.id, revision |-> w.revision, ok |-> ok, of |-> w.of]
<1>2. JobOk(w, doc, revision, jobId, analysis) /\ channel \in Seq(Answers) /\ n \in Nat
      /\ \A i \in 1 .. n : JobOk(channel[i], doc, revision, jobId, analysis)
  BY DEF JobsInv, Answers
<1>3. r \in Answers /\ JobOk(r, doc, revision, jobId, analysis) /\ r.id = w.id
  BY <1>2 DEF JobOk, Answers
<1> HIDE DEF r
<1>4. /\ channel' \in Seq(Answers) /\ Len(channel') = n + 1 /\ channel'[n + 1] = r
      /\ \A i \in 1 .. n : channel'[i] = channel[i]
  BY <1>1, <1>2, <1>3 DEF r
<1> HIDE DEF n
<1>5. /\ doc' = doc /\ revision' = revision /\ jobId' = jobId /\ analysis' = analysis
      /\ symbols' = symbols /\ UNCHANGED docVars /\ UNCHANGED scanVars
  BY <1>1 DEF docVars
<1>6. \A m : JobOk(m, doc, revision, jobId, analysis) => JobOk(m, doc', revision', jobId', analysis')
  BY <1>5 DEF JobOk
<1>7. \A i \in 1 .. n + 1 : i \in 1 .. n \/ i = n + 1
  BY <1>2
<1>8. JobsInv'
  <2>1. \A v \in workers' : JobOk(v, doc', revision', jobId', analysis')
    BY <1>1, <1>6 DEF JobsInv
  <2>2. \A i \in 1 .. Len(channel') : JobOk(channel'[i], doc', revision', jobId', analysis')
    <3>1. ASSUME NEW i \in 1 .. n + 1
          PROVE  JobOk(channel'[i], doc, revision, jobId, analysis)
      BY <1>2, <1>3, <1>4, <1>7
    <3> QED BY <1>4, <1>6, <3>1
  <2> QED BY <1>4, <1>5, <2>1, <2>2 DEF JobsInv
<1>9. OnceInv'
  <2>1. /\ \A v, u \in workers : v.id = u.id => v = u
        /\ \A i, j \in 1 .. n : channel[i].id = channel[j].id => i = j
        /\ \A v \in workers, i \in 1 .. n : v.id # channel[i].id
    BY DEF OnceInv, n
  <2>2. \A v, u \in workers' : v.id = u.id => v = u
    BY <1>1, <2>1
  <2>3. ASSUME NEW i \in 1 .. Len(channel'), NEW j \in 1 .. Len(channel'),
               channel'[i].id = channel'[j].id
        PROVE  i = j
    BY <1>3, <1>4, <1>7, <2>1, <2>3
  <2>4. ASSUME NEW v \in workers', NEW i \in 1 .. Len(channel')
        PROVE  v.id # channel'[i].id
    BY <1>1, <1>3, <1>4, <1>7, <2>1
  <2> QED BY <2>2, <2>3, <2>4 DEF OnceInv
<1>10. AnalysisInv'
  BY <1>5 DEF AnalysisInv
<1> QED BY <1>5, <1>8, <1>9, <1>10, DocumentKept, ScansKept

\* An answer is handled: the newest job's is true of the document, an older
\* one changes nothing.
LEMMA DrainOneKeeps == LoopInv /\ DrainOne => LoopInv'
<1> SUFFICES ASSUME LoopInv, DrainOne PROVE LoopInv'
  OBVIOUS
<1> USE DEF LoopInv
<1> DEFINE r == Head(channel)
           n == Len(channel)
<1>1. /\ channel # << >> /\ channel' = Tail(channel) /\ HandleResult(r)
      /\ UNCHANGED docVars /\ UNCHANGED scanVars
      /\ jobId' = jobId /\ workers' = workers /\ doc' = doc /\ revision' = revision
  BY DEF DrainOne, docVars
<1>2. channel \in Seq(Answers) /\ n \in Nat /\ \A i \in 1 .. n : JobOk(channel[i], doc, revision, jobId, analysis)
  BY DEF JobsInv, Answers
<1>3. /\ r = channel[1] /\ 1 \in 1 .. n /\ r \in Answers
      /\ channel' \in Seq(Answers) /\ Len(channel') = n - 1
      /\ \A i \in 1 .. n - 1 : channel'[i] = channel[i + 1] /\ i + 1 \in 1 .. n /\ i + 1 # 1
  BY <1>1, <1>2
<1>4. JobOk(r, doc, revision, jobId, analysis)
  BY <1>2, <1>3
<1> HIDE DEF r, n
<1>5. OnceInv'
  <2>1. /\ \A v, u \in workers : v.id = u.id => v = u
        /\ \A i, j \in 1 .. n : channel[i].id = channel[j].id => i = j
        /\ \A v \in workers, i \in 1 .. n : v.id # channel[i].id
    BY DEF OnceInv, n
  <2>2. ASSUME NEW i \in 1 .. Len(channel'), NEW j \in 1 .. Len(channel'),
               channel'[i].id = channel'[j].id
        PROVE  i = j
    <3>1. i \in 1 .. n - 1 /\ j \in 1 .. n - 1
      BY <1>3
    <3>2. /\ channel'[i] = channel[i + 1] /\ i + 1 \in 1 .. n
          /\ channel'[j] = channel[j + 1] /\ j + 1 \in 1 .. n
      BY <1>3, <3>1
    <3>3. channel[i + 1].id = channel[j + 1].id
      BY <2>2, <3>2
    <3>4. i + 1 = j + 1
      BY <2>1, <3>2, <3>3
    <3> QED BY <1>2, <3>1, <3>4
  <2>3. ASSUME NEW v \in workers', NEW i \in 1 .. Len(channel')
        PROVE  v.id # channel'[i].id
    <3>1. channel'[i] = channel[i + 1] /\ i + 1 \in 1 .. n
      BY <1>3
    <3>2. v \in workers
      BY <1>1
    <3> QED BY <2>1, <3>1, <3>2
  <2> QED BY <1>1, <2>1, <2>2, <2>3 DEF OnceInv
<1>6. /\ \A w \in workers : w.id # r.id
      /\ \A i \in 1 .. n - 1 : channel'[i].id # r.id
  BY <1>3 DEF OnceInv, n
<1>7. CASE r.id # jobId
  <2>1. analysis' = analysis /\ symbols' = symbols
    BY <1>1, <1>7 DEF HandleResult
  <2>2. \A m : JobOk(m, doc, revision, jobId, analysis) => JobOk(m, doc', revision', jobId', analysis')
    BY <1>1, <2>1 DEF JobOk
  <2>3. JobsInv'
    <3>1. \A w \in workers' : JobOk(w, doc', revision', jobId', analysis')
      BY <1>1, <2>2 DEF JobsInv
    <3>2. \A i \in 1 .. Len(channel') : JobOk(channel'[i], doc', revision', jobId', analysis')
      BY <1>2, <1>3, <2>2
    <3> QED BY <1>1, <1>3, <3>1, <3>2 DEF JobsInv
  <2>4. AnalysisInv'
    BY <1>1, <2>1 DEF AnalysisInv
  <2> QED BY <1>1, <1>5, <2>3, <2>4, DocumentKept, ScansKept
<1>8. CASE r.id = jobId
  <2>1. analysis # None /\ Faithful(analysis.validity, r.of, doc) /\ analysis \in AnalysisStates
    BY <1>4, <1>8 DEF JobOk, AnalysisInv
  <2> DEFINE v == IF ~ r.ok \/ r.revision = revision THEN "current" ELSE analysis.validity
             a == [status |-> IF r.ok THEN "ready" ELSE "failed", validity |-> v,
                   revision |-> r.revision, of |-> IF r.ok THEN r.of ELSE None]
  <2>2. analysis' = a /\ symbols' = IF r.ok THEN r.of ELSE symbols
    BY <1>1, <1>8, <2>1 DEF HandleResult
  <2>3. r.ok \in BOOLEAN /\ r.of \in Documents /\ r.revision \in Nat
    BY <1>3 DEF Answers
  <2>4. v \in {"current", "bytes", "layout"}
    BY <2>1 DEF AnalysisStates
  <2>5. a \in AnalysisStates
    BY <2>3, <2>4 DEF AnalysisStates
  <2>6. r.ok => Faithful(v, r.of, doc)
    <3>1. r.revision = revision => r.of = Live(doc)
      BY <1>4 DEF JobOk
    <3> QED BY <2>1, <3>1 DEF Faithful
  <2>7. AnalysisInv'
    BY <1>1, <2>2, <2>3, <2>5, <2>6 DEF AnalysisInv
  <2>8. ASSUME NEW m, JobOk(m, doc, revision, jobId, analysis), m.id # r.id
        PROVE  JobOk(m, doc', revision', jobId', analysis')
    BY <1>1, <1>8, <2>8 DEF JobOk
  <2>9. JobsInv'
    <3>1. \A w \in workers' : JobOk(w, doc', revision', jobId', analysis')
      BY <1>1, <1>6, <2>8 DEF JobsInv
    <3>2. \A i \in 1 .. Len(channel') : JobOk(channel'[i], doc', revision', jobId', analysis')
      BY <1>2, <1>3, <1>6, <2>8
    <3> QED BY <1>1, <1>3, <3>1, <3>2 DEF JobsInv
  <2> QED BY <1>1, <1>5, <2>7, <2>9, DocumentKept, ScansKept
<1> QED BY <1>7, <1>8

\* A new job has a number of its own and the document of this moment.
LEMMA AnalyzeKeeps == LoopInv /\ Analyze => LoopInv'
<1> SUFFICES ASSUME LoopInv, Analyze PROVE LoopInv'
  OBVIOUS
<1> USE DEF LoopInv
<1> DEFINE a == [status |-> "running", validity |-> "current",
                 revision |-> revision, of |-> None]
           w == [id |-> jobId + 1, revision |-> revision, of |-> Live(doc)]
<1>1. /\ jobId' = jobId + 1 /\ analysis' = a /\ workers' = workers \cup {w}
      /\ channel' = channel /\ symbols' = symbols
      /\ UNCHANGED docVars /\ UNCHANGED scanVars /\ doc' = doc /\ revision' = revision
  BY DEF Analyze, docVars
<1>2. jobId \in Nat /\ revision \in Nat /\ doc \in Seq(Cells)
  BY DocumentIs DEF JobsInv, DocInv
<1>3. a \in AnalysisStates /\ a # None
  BY <1>2, NoneAssumption DEF AnalysisStates
<1>4. Live(doc) \in Documents
  BY <1>2, LiveType, DocumentIs
<1>5. ASSUME NEW m, JobOk(m, doc, revision, jobId, analysis)
      PROVE  JobOk(m, doc', revision', jobId', analysis') /\ m.id # jobId + 1
    BY <1>1, <1>2, <1>5 DEF JobOk
<1>6. JobOk(w, doc', revision', jobId', analysis')
  BY <1>1, <1>2, <1>3, <1>4 DEF JobOk, Faithful
<1>7. w.id = jobId + 1
  OBVIOUS
<1> HIDE DEF a, w
<1>8. JobsInv'
  <2>1. \A v \in workers' : JobOk(v, doc', revision', jobId', analysis')
    BY <1>1, <1>5, <1>6 DEF JobsInv
  <2>2. \A i \in 1 .. Len(channel') : JobOk(channel'[i], doc', revision', jobId', analysis')
    BY <1>1, <1>5 DEF JobsInv
  <2> QED BY <1>1, <1>2, <2>1, <2>2 DEF JobsInv
<1>9. OnceInv'
  <2>1. \A v \in workers : v.id # jobId + 1
    BY <1>5 DEF JobsInv
  <2>2. \A i \in 1 .. Len(channel) : channel[i].id # jobId + 1
    BY <1>5 DEF JobsInv
  <2> QED BY <1>1, <1>7, <2>1, <2>2 DEF OnceInv
<1>10. AnalysisInv'
  BY <1>1, <1>3 DEF AnalysisInv, a
<1> QED BY <1>1, <1>8, <1>9, <1>10, DocumentKept, ScansKept

\* A job that is turned off is no longer the newest.
LEMMA AnalyzeOffKeeps == LoopInv /\ AnalyzeOff => LoopInv'
<1> SUFFICES ASSUME LoopInv, AnalyzeOff PROVE LoopInv'
  OBVIOUS
<1> USE DEF LoopInv
<1>1. /\ jobId' = jobId + 1 /\ analysis' = None /\ workers' = workers
      /\ channel' = channel
      /\ UNCHANGED docVars /\ UNCHANGED scanVars /\ doc' = doc /\ revision' = revision
  BY DEF AnalyzeOff, docVars
<1>2. jobId \in Nat
  BY DEF JobsInv
<1>3. ASSUME NEW m, JobOk(m, doc, revision, jobId, analysis)
      PROVE  JobOk(m, doc', revision', jobId', analysis')
  BY <1>1, <1>2, <1>3 DEF JobOk
<1>4. JobsInv'
  <2>1. \A v \in workers' : JobOk(v, doc', revision', jobId', analysis')
    BY <1>1, <1>3 DEF JobsInv
  <2>2. \A i \in 1 .. Len(channel') : JobOk(channel'[i], doc', revision', jobId', analysis')
    BY <1>1, <1>3 DEF JobsInv
  <2> QED BY <1>1, <1>2, <2>1, <2>2 DEF JobsInv
<1>5. OnceInv' /\ AnalysisInv'
  BY <1>1 DEF OnceInv, AnalysisInv
<1> QED BY <1>1, <1>4, <1>5, DocumentKept, ScansKept

\* The end of a turn, of a scan and of the loop.
LEMMA TurnsKeep ==
    LoopInv /\ (Drained \/ NoEvent \/ EscCancelsScan \/ Quit \/ UNCHANGED vars) => LoopInv'
<1> SUFFICES ASSUME LoopInv, Drained \/ NoEvent \/ EscCancelsScan \/ Quit \/ UNCHANGED vars
             PROVE  LoopInv'
  OBVIOUS
<1> USE DEF LoopInv
<1>1. UNCHANGED docVars /\ UNCHANGED jobVars /\ panel' = panel
      /\ (scan' = scan \/ scan' = None) /\ (report' = report \/ report' = None)
  BY DEF Drained, NoEvent, EscCancelsScan, Quit, vars, docVars, jobVars, scanVars
<1>2. doc' = doc /\ revision' = revision
  BY <1>1 DEF docVars
<1>3. ScanInv'
  <2>1. CASE scan' = None
    BY <2>1 DEF ScanInv
  <2>2. CASE scan' = scan
    BY <1>2, <2>2 DEF ScanInv
  <2> QED BY <1>1, <2>1, <2>2
<1>4. PanelInv'
  BY <1>1, <1>2 DEF PanelInv
<1>5. ReportInv'
  BY <1>1 DEF ReportInv, NearestMismatch
<1> QED BY <1>1, <1>3, <1>4, <1>5, DocumentKept, JobsKept

(***************************************************************************)
(* Scans                                                                   *)
(***************************************************************************)

\* The steps of a scan are not empty.
LEMMA StepsAre ==
    /\ HashStep \in Nat /\ HashStep >= 1 /\ DiffStep \in Nat /\ DiffStep >= 1
    /\ \A c : c \in 1 .. StatsStep \div StatsChunk =>
          c * StatsChunk \in Nat /\ c * StatsChunk >= 1
<1>1. \A x \in {HashStep, StatsStep, StatsChunk, DiffStep} : x \in Nat /\ x >= 1
  BY StepAssumption
<1>2. ASSUME NEW c \in Int, c >= 1
      PROVE  c * StatsChunk \in Nat /\ c * StatsChunk >= 1
  BY <1>1, <1>2
<1>3. ASSUME NEW c, c \in 1 .. StatsStep \div StatsChunk
      PROVE  c \in Int /\ c >= 1
  BY <1>3
<1> QED BY <1>1, <1>2, <1>3

\* The smaller of two is one of them.
LEMMA MinOfTwo ==
    ASSUME NEW a \in Int, NEW b \in Int
    PROVE  /\ Min2(a, b) \in {a, b} /\ Min2(a, b) \in Int
           /\ Min2(a, b) <= a /\ Min2(a, b) <= b
  BY DEF Min2

\* The logical bytes of a range are bytes.
LEMMA BytesType ==
    ASSUME NEW d \in Seq(Cells), NEW a \in Nat, NEW b \in Nat, b < Len(d)
    PROVE  LogicalBytes(d, a, b) \in Seq(Byte \cup {0})
<1> DEFINE s == SubSeq(d, a + 1, b + 1)
           l == Live(s)
<1>1. s \in Seq(Cells)
  OBVIOUS
<1> HIDE DEF s
<1>2. l \in Seq(Cells)
  BY <1>1, LiveType
<1> HIDE DEF l
<1>3. Len(l) \in Nat /\ \A i \in 1 .. Len(l) : l[i].byte \in Byte \cup {0}
  <2>1. Len(l) \in Nat /\ \A i \in 1 .. Len(l) : l[i] \in Cells
    BY <1>2
  <2>2. \A c \in Cells : c.byte \in Byte \cup {0}
    BY DEF Cells
  <2> QED BY <2>1, <2>2
<1> QED BY <1>3 DEF LogicalBytes, BytesOf, l, s

\* A step of a byte scan: what it has read and what the step reads are the
\* logical bytes up to the end of the step.
LEMMA ScanStep ==
    ASSUME NEW d \in Seq(Cells), NEW from \in Nat, NEW cursor \in Nat, NEW to \in Nat,
           from <= cursor, cursor <= to, to < Len(d), NEW step \in Nat, step >= 1
    PROVE  LET stop == Min2(cursor + step - 1, to)
           IN  /\ stop \in Nat /\ cursor <= stop /\ stop <= to
               /\ LogicalBytes(d, from, cursor - 1) \o LogicalBytes(d, cursor, stop)
                     = LogicalBytes(d, from, stop)
               /\ LogicalBytes(d, from, stop) \in Seq(Byte \cup {0})
<1> DEFINE stop == Min2(cursor + step - 1, to)
<1>1. stop \in Nat /\ cursor <= stop /\ stop <= to
  BY DEF Min2
<1> HIDE DEF stop
<1>2. cursor - 1 <= stop /\ stop < Len(d)
  BY <1>1
<1>3. LogicalBytes(d, from, cursor - 1) \o LogicalBytes(d, cursor, stop)
         = LogicalBytes(d, from, stop)
  BY <1>1, <1>2, BytesOfParts
<1>4. LogicalBytes(d, from, stop) \in Seq(Byte \cup {0})
  BY <1>1, <1>2, BytesType
<1> QED BY <1>1, <1>3, <1>4 DEF stop

\* A step of a hash scan.
LEMMA HashContinues ==
    ASSUME LoopInv, HashScan(scan, doc), ContinueHash, UNCHANGED docVars
    PROVE  ScanInv' /\ PanelInv' /\ ReportInv'
<1> USE DEF LoopInv
<1> DEFINE step == HashStep
<1>step. step \in Nat /\ step >= 1
  BY StepsAre
<1> HIDE DEF step
<1> DEFINE stop == Min2(scan.cursor + step - 1, scan.to)
           hashed == scan.bytes \o LogicalBytes(doc, scan.cursor, stop)
<1>1. /\ doc \in Seq(Cells) /\ doc \in Documents /\ doc' = doc /\ revision' = revision
      /\ panel' = panel
  BY DocumentIs DEF DocInv, docVars, ContinueHash
<1>2. /\ scan.from \in Nat /\ scan.cursor \in Nat /\ scan.to \in Nat
      /\ scan.from <= scan.cursor /\ scan.cursor <= scan.to /\ scan.to < Len(doc)
      /\ scan.bytes = LogicalBytes(doc, scan.from, scan.cursor - 1)
      /\ scan.of = doc
  BY DEF HashScan
<1>3. /\ stop \in Nat /\ scan.cursor <= stop /\ stop <= scan.to
      /\ hashed = LogicalBytes(doc, scan.from, stop)
      /\ hashed \in Seq(Byte \cup {0})
  <2>1. /\ stop \in Nat /\ scan.cursor <= stop /\ stop <= scan.to
        /\ LogicalBytes(doc, scan.from, scan.cursor - 1) \o LogicalBytes(doc, scan.cursor, stop)
              = LogicalBytes(doc, scan.from, stop)
        /\ LogicalBytes(doc, scan.from, stop) \in Seq(Byte \cup {0})
    <3>1. doc \in Seq(Cells)
      BY <1>1
    <3>2. /\ scan.from \in Nat /\ scan.cursor \in Nat /\ scan.to \in Nat
          /\ scan.from <= scan.cursor /\ scan.cursor <= scan.to /\ scan.to < Len(doc)
      BY <1>2
    <3> QED BY <1>step, <3>1, <3>2, ScanStep
  <2> HIDE DEF stop
  <2> QED BY <1>2, <2>1
<1> DEFINE next == [scan EXCEPT !.cursor = stop + 1, !.bytes = hashed]
<1>4. IF stop >= scan.to
      THEN scan' = None /\ report' = HashReport(scan.of, scan.from, scan.to, hashed)
      ELSE scan' = next /\ report' = report
  BY DEF ContinueHash, step
<1>5. PanelInv'
  BY <1>1 DEF PanelInv
<1> HIDE DEF stop, hashed
<1>6. CASE stop >= scan.to
  <2>1. stop = scan.to
    BY <1>2, <1>3, <1>6
  <2>2. report' = HashReport(doc, scan.from, scan.to, LogicalBytes(doc, scan.from, scan.to))
    BY <1>2, <1>3, <1>4, <1>6, <2>1
  <2>3. ReportInv'
    BY <2>2 DEF ReportInv, NearestMismatch, HashReport
  <2>4. ScanInv'
    BY <1>4, <1>6 DEF ScanInv
  <2> QED BY <1>5, <2>3, <2>4
<1>7. CASE ~ (stop >= scan.to)
  <2>1. /\ stop + 1 \in Nat /\ scan.from <= stop + 1 /\ stop + 1 <= scan.to
        /\ (stop + 1) - 1 = stop
    BY <1>2, <1>3, <1>7
  <2>2. /\ next \in [kind : {"hash"}, of : Documents, from : Nat, to : Nat,
                     cursor : Nat, bytes : Seq(Byte \cup {0})]
        /\ next.of = doc /\ next.from = scan.from /\ next.to = scan.to
        /\ next.cursor = stop + 1 /\ next.bytes = hashed
    BY <1>2, <1>3, <2>1 DEF HashScan
  <2> HIDE DEF next
  <2>3. HashScan(next, doc)
    BY <1>2, <1>3, <2>1, <2>2 DEF HashScan
  <2>4. ScanInv'
    BY <1>1, <1>4, <1>7, <2>3 DEF ScanInv
  <2>5. ReportInv'
    BY <1>4, <1>7 DEF ReportInv, NearestMismatch
  <2> QED BY <1>5, <2>4, <2>5
<1> QED BY <1>6, <1>7

\* A step of a statistics scan, of as many chunks as the time allows.
LEMMA StatsContinue ==
    ASSUME LoopInv, StatsScan(scan, doc, revision), ContinueStats, UNCHANGED docVars
    PROVE  ScanInv' /\ PanelInv' /\ ReportInv'
<1> USE DEF LoopInv
<1>0. PICK chunks \in 1 .. StatsStep \div StatsChunk :
        LET stop == Min2(scan.cursor + chunks * StatsChunk - 1, scan.to)
            counted == scan.bytes \o LogicalBytes(doc, scan.cursor, stop)
        IN /\ IF stop >= scan.to
              THEN /\ scan' = None
                   /\ panel' = [from |-> scan.from, to |-> scan.to,
                                bytes |-> counted, revision |-> scan.revision]
              ELSE /\ scan' = [scan EXCEPT !.cursor = stop + 1, !.bytes = counted]
                   /\ UNCHANGED panel
           /\ UNCHANGED report
  BY DEF ContinueStats
<1> DEFINE step == chunks * StatsChunk
<1>step. step \in Nat /\ step >= 1
  BY StepsAre
<1> HIDE DEF step
<1> DEFINE stop == Min2(scan.cursor + step - 1, scan.to)
           counted == scan.bytes \o LogicalBytes(doc, scan.cursor, stop)
           next == [scan EXCEPT !.cursor = stop + 1, !.bytes = counted]
           shown == [from |-> scan.from, to |-> scan.to,
                     bytes |-> counted, revision |-> scan.revision]
<1>1. /\ doc \in Seq(Cells) /\ doc' = doc /\ revision' = revision /\ revision \in Nat
  BY DocumentIs DEF DocInv, docVars
<1>2. /\ scan.from \in Nat /\ scan.cursor \in Nat /\ scan.to \in Nat
      /\ scan.from <= scan.cursor /\ scan.cursor <= scan.to /\ scan.to < Len(doc)
      /\ scan.bytes = LogicalBytes(doc, scan.from, scan.cursor - 1)
      /\ scan.revision = revision
  BY DEF StatsScan
<1>3. /\ stop \in Nat /\ scan.cursor <= stop /\ stop <= scan.to
      /\ counted = LogicalBytes(doc, scan.from, stop)
      /\ counted \in Seq(Byte \cup {0})
  <2>1. /\ stop \in Nat /\ scan.cursor <= stop /\ stop <= scan.to
        /\ LogicalBytes(doc, scan.from, scan.cursor - 1) \o LogicalBytes(doc, scan.cursor, stop)
              = LogicalBytes(doc, scan.from, stop)
        /\ LogicalBytes(doc, scan.from, stop) \in Seq(Byte \cup {0})
    BY <1>step, <1>1, <1>2, ScanStep
  <2> HIDE DEF stop
  <2> QED BY <1>2, <2>1
<1>4. /\ report' = report
      /\ IF stop >= scan.to THEN scan' = None /\ panel' = shown
         ELSE scan' = next /\ panel' = panel
  BY <1>0 DEF step
<1>5. ReportInv'
  BY <1>4 DEF ReportInv, NearestMismatch
<1> HIDE DEF stop, counted
<1>6. CASE stop >= scan.to
  <2>1. stop = scan.to
    BY <1>2, <1>3, <1>6
  <2>2. PanelInv'
    BY <1>1, <1>2, <1>3, <1>4, <1>6, <2>1 DEF PanelInv
  <2>3. ScanInv'
    BY <1>4, <1>6 DEF ScanInv
  <2> QED BY <1>5, <2>2, <2>3
<1>7. CASE ~ (stop >= scan.to)
  <2>1. /\ stop + 1 \in Nat /\ scan.from <= stop + 1 /\ stop + 1 <= scan.to
        /\ (stop + 1) - 1 = stop
    BY <1>2, <1>3, <1>7
  <2>2. /\ next \in [kind : {"stats"}, from : Nat, to : Nat, cursor : Nat,
                     bytes : Seq(Byte \cup {0}), revision : Nat]
        /\ next.revision = revision /\ next.from = scan.from /\ next.to = scan.to
        /\ next.cursor = stop + 1 /\ next.bytes = counted
    BY <1>2, <1>3, <2>1 DEF StatsScan
  <2> HIDE DEF next
  <2>3. StatsScan(next, doc, revision)
    BY <1>2, <1>3, <2>1, <2>2 DEF StatsScan
  <2>4. ScanInv'
    BY <1>1, <1>4, <1>7, <2>3 DEF ScanInv
  <2>5. PanelInv'
    BY <1>1, <1>4, <1>7 DEF PanelInv
  <2> QED BY <1>5, <2>4, <2>5
<1> QED BY <1>6, <1>7

\* :hash and :stats, whatever they read at once and whatever they leave to a
\* scan.
LEMMA HashKeeps == LoopInv /\ Hash => LoopInv'
<1> SUFFICES ASSUME LoopInv, Hash PROVE LoopInv'
  OBVIOUS
<1> USE DEF LoopInv
<1>1. /\ scan = None /\ UNCHANGED docVars /\ UNCHANGED jobVars /\ panel' = panel
      /\ doc' = doc /\ revision' = revision
  BY DEF Hash, StartsScan, AcceptsCommand, Accepts, docVars
<1>2. PICK r \in Ranges :
         IF r[2] - r[1] + 1 > HashStep
         THEN /\ scan' = [kind |-> "hash", of |-> doc, from |-> r[1], to |-> r[2],
                          cursor |-> r[1], bytes |-> << >>]
              /\ report' = report
         ELSE /\ report' = HashReport(doc, r[1], r[2], LogicalBytes(doc, r[1], r[2]))
              /\ scan' = scan
  BY DEF Hash
<1>3. doc \in Documents /\ doc \in Seq(Cells)
  BY DocumentIs DEF DocInv
<1> DEFINE a == r[1]
           b == r[2]
           s == [kind |-> "hash", of |-> doc, from |-> a, to |-> b,
                 cursor |-> a, bytes |-> << >>]
<1>4. a \in Nat /\ b \in Nat /\ a <= b /\ b < Len(doc)
  <2>1. r \in (0 .. Len(doc) - 1) \X (0 .. Len(doc) - 1) /\ r[1] <= r[2]
    BY DEF Ranges
  <2>2. Len(doc) \in Nat
    BY <1>3
  <2> QED BY <2>1, <2>2
<1>5. IF b - a + 1 > HashStep THEN scan' = s /\ report' = report
      ELSE scan' = scan /\ report' = HashReport(doc, a, b, LogicalBytes(doc, a, b))
  BY <1>2
<1> HIDE DEF a, b
<1>6. PanelInv'
  BY <1>1 DEF PanelInv
<1>7. ScanInv'
  <2>1. LogicalBytes(doc, a, a - 1) = << >>
    BY <1>3, <1>4, BytesOfNothing
  <2>2. HashScan(s, doc)
    BY <1>3, <1>4, <2>1 DEF HashScan
  <2> HIDE DEF s
  <2> QED BY <1>1, <1>5, <2>2 DEF ScanInv
<1>8. ReportInv'
  <2>1. CASE report' = report
    BY <2>1 DEF ReportInv, NearestMismatch
  <2>2. CASE report' = HashReport(doc, a, b, LogicalBytes(doc, a, b))
    BY <2>2 DEF ReportInv, NearestMismatch, HashReport
  <2> QED BY <1>5, <2>1, <2>2
<1> QED BY <1>1, <1>6, <1>7, <1>8, DocumentKept, JobsKept

\* Statistics of a range, counted at once or by a scan from its first offset.
LEMMA OpenStatsKeeps ==
    ASSUME LoopInv, NEW from \in Nat, NEW to \in Nat, from <= to, to < Len(doc),
           OpenStats(from, to), scan = None, UNCHANGED docVars, report' = report
    PROVE  ScanInv' /\ PanelInv' /\ ReportInv'
<1> USE DEF LoopInv
<1> DEFINE s == [kind |-> "stats", from |-> from, to |-> to, cursor |-> from,
                 bytes |-> << >>, revision |-> revision]
           shown == [from |-> from, to |-> to, revision |-> revision,
                     bytes |-> LogicalBytes(doc, from, to)]
<1>1. /\ doc \in Seq(Cells) /\ doc' = doc /\ revision' = revision /\ revision \in Nat
  BY DocumentIs DEF DocInv, docVars
<1>2. \/ scan' = s /\ panel' = None
      \/ scan' = scan /\ panel' = shown
  BY DEF OpenStats
<1>3. ReportInv'
  BY DEF ReportInv, NearestMismatch
<1>4. CASE scan' = s /\ panel' = None
  <2>1. LogicalBytes(doc, from, from - 1) = << >>
    BY <1>1, BytesOfNothing
  <2>2. StatsScan(s, doc, revision)
    BY <1>1, <2>1 DEF StatsScan
  <2> HIDE DEF s
  <2>3. ScanInv' /\ PanelInv'
    BY <1>1, <1>4, <2>2 DEF ScanInv, PanelInv
  <2> QED BY <1>3, <2>3
<1>5. CASE scan' = scan /\ panel' = shown
  <2>1. LogicalBytes(doc, from, to) \in Seq(Byte \cup {0})
    BY <1>1, BytesType
  <2>2. PanelInv'
    BY <1>1, <1>5, <2>1 DEF PanelInv
  <2>3. ScanInv'
    BY <1>5 DEF ScanInv
  <2> QED BY <1>3, <2>2, <2>3
<1> QED BY <1>2, <1>4, <1>5

\* :stats and :stats refresh.
LEMMA StatsKeeps == LoopInv /\ (Stats \/ RefreshStats) => LoopInv'
<1> SUFFICES ASSUME LoopInv, Stats \/ RefreshStats PROVE LoopInv'
  OBVIOUS
<1> USE DEF LoopInv
<1>1. /\ scan = None /\ UNCHANGED docVars /\ UNCHANGED jobVars /\ report' = report
  BY DEF Stats, RefreshStats, StartsScan, AcceptsCommand, Accepts
<1>2. doc \in Seq(Cells) /\ Len(doc) \in Nat
  BY DocumentIs DEF DocInv
<1>3. CASE panel' = None /\ scan' = scan
  <2>1. ScanInv' /\ PanelInv' /\ ReportInv'
    BY <1>1, <1>3 DEF ScanInv, PanelInv, ReportInv, NearestMismatch
  <2> QED BY <1>1, <2>1, DocumentKept, JobsKept
<1>4. CASE \E r \in Ranges : OpenStats(r[1], r[2])
  <2>1. PICK r \in Ranges : OpenStats(r[1], r[2])
    BY <1>4
  <2>2. r[1] \in Nat /\ r[2] \in Nat /\ r[1] <= r[2] /\ r[2] < Len(doc)
    <3>1. r \in (0 .. Len(doc) - 1) \X (0 .. Len(doc) - 1) /\ r[1] <= r[2]
      BY DEF Ranges
    <3> QED BY <1>2, <3>1
  <2>3. ScanInv' /\ PanelInv' /\ ReportInv'
    BY <1>1, <2>1, <2>2, OpenStatsKeeps
  <2> QED BY <1>1, <2>3, DocumentKept, JobsKept
<1>5. CASE panel # None /\ doc # << >> /\ OpenStats(Min2(panel.from, Len(doc) - 1), Min2(panel.to, Len(doc) - 1))
  <2> DEFINE a == Min2(panel.from, Len(doc) - 1)
             b == Min2(panel.to, Len(doc) - 1)
  <2>1. panel.from \in Nat /\ panel.to \in Nat /\ panel.from <= panel.to
    BY <1>5 DEF PanelInv
  <2>2. Len(doc) >= 1
    BY <1>2, <1>5
  <2>3. a \in Nat /\ b \in Nat /\ a <= b /\ b < Len(doc)
    BY <1>2, <2>1, <2>2 DEF Min2
  <2>4. ScanInv' /\ PanelInv' /\ ReportInv'
    <3>1. OpenStats(a, b)
      BY <1>5
    <3> HIDE DEF a, b
    <3> QED BY <1>1, <2>3, <3>1, OpenStatsKeeps
  <2> QED BY <1>1, <2>4, DocumentKept, JobsKept
<1>6. \/ panel' = None /\ scan' = scan
      \/ \E r \in Ranges : OpenStats(r[1], r[2])
      \/ panel # None /\ doc # << >> /\ OpenStats(Min2(panel.from, Len(doc) - 1), Min2(panel.to, Len(doc) - 1))
  BY DEF Stats, RefreshStats
<1> QED BY <1>3, <1>4, <1>5, <1>6

(***************************************************************************)
(* Jumps to a mismatch                                                     *)
(***************************************************************************)

\* Min is the least of a set of naturals ...
LEMMA LeastOf ==
    ASSUME NEW S \in SUBSET Nat, S # {}
    PROVE  Min(S) \in S /\ \A k \in S : Min(S) <= k
<1>1. \E m \in S : \A k \in S : m <= k
  BY Order!LeastNatural
<1> QED BY <1>1 DEF Min

\* ... and Max the greatest, when there is one.
LEMMA GreatestOf ==
    ASSUME NEW n \in Nat, NEW S \in SUBSET Nat, \A k \in S : k <= n, S # {}
    PROVE  Max(S) \in S /\ \A k \in S : k <= Max(S)
<1> DEFINE T == {n - k : k \in S}
<1>0. \A k \in S : k \in Nat
  OBVIOUS
<1>1. \A k \in S : n - k \in Nat
  BY <1>0
<1>2. T \in SUBSET Nat /\ T # {}
  BY <1>1
<1>3. PICK t \in T : \A k \in T : t <= k
  <2> HIDE DEF T
  <2> QED BY <1>2, Order!LeastNatural
<1>4. PICK m \in S : t = n - m
  OBVIOUS
<1>5. ASSUME NEW k \in S
      PROVE  m >= k
  <2>1. n - m <= n - k
    BY <1>3, <1>4
  <2> QED BY <1>0, <2>1
<1>6. (Max(S) \in S) /\ (\A k \in S : Max(S) >= k)
  BY <1>5 DEF Max
<1> QED BY <1>0, <1>6

\* The greater of two, spelt out.
LEMMA GreaterOfTwo ==
    ASSUME NEW a \in Int, NEW b \in Int
    PROVE  Max({a, b}) = IF a >= b THEN a ELSE b
<1> DEFINE m == IF a >= b THEN a ELSE b
<1>1. m \in {a, b} /\ \A k \in {a, b} : m >= k
  OBVIOUS
<1>2. \A x \in {a, b} : (\A k \in {a, b} : x >= k) => x = m
  OBVIOUS
<1> HIDE DEF m
<1>3. (CHOOSE x \in {a, b} : \A k \in {a, b} : x >= k) = m
  BY <1>1, <1>2
<1> QED BY <1>3 DEF Max, m

\* One step forwards: the nearest mismatch at or behind the cursor, or where
\* the next step starts with none in between, or none up to the end.
LEMMA ForwardIs ==
    ASSUME NEW s, s.cursor \in Nat, s.hi \in Nat, s.cursor <= s.hi
    PROVE  LET f == ForwardStep(s)
           IN  \/ /\ f.found \in Nat /\ f.found # None
                  /\ s.cursor <= f.found /\ f.found <= s.hi
                  /\ Differs(doc, f.found) /\ Agree(doc, s.cursor, f.found - 1)
               \/ /\ f.found = None
                  /\ f.next \in Nat /\ f.next # None
                  /\ s.cursor <= f.next /\ f.next <= s.hi
                  /\ Agree(doc, s.cursor, f.next - 1)
               \/ f.found = None /\ f.next = None /\ Agree(doc, s.cursor, s.hi)
<1> DEFINE stop == Min2(s.cursor + DiffStep - 1, s.hi)
           hits == {p \in s.cursor .. stop : Differs(doc, p)}
           f == ForwardStep(s)
<1>0. stop \in Nat /\ s.cursor <= stop /\ stop <= s.hi
  BY StepsAre DEF Min2
<1> HIDE DEF stop
<1>1. f.found = (IF hits = {} THEN None ELSE Min(hits))
      /\ f.next = (IF hits = {} /\ stop < s.hi THEN stop + 1 ELSE None)
  BY DEF ForwardStep, stop
<1> HIDE DEF f
<1>2. CASE hits # {}
  <2>1. hits \in SUBSET Nat
    BY <1>0
  <2>2. Min(hits) \in hits /\ \A k \in hits : Min(hits) <= k
    BY <1>2, <2>1, LeastOf
  <2>3. f.found = Min(hits)
    BY <1>1, <1>2
  <2>4. f.found \in Nat /\ s.cursor <= f.found /\ f.found <= s.hi /\ Differs(doc, f.found)
    BY <1>0, <2>2, <2>3
  <2>5. ASSUME NEW p \in s.cursor .. (f.found - 1)
        PROVE  ~ Differs(doc, p)
    <3>1. p \in s.cursor .. stop /\ ~ (f.found <= p)
      BY <1>0, <2>2, <2>3, <2>4
    <3> QED BY <2>2, <2>3, <3>1
  <2>6. f.found # None
    BY <2>4, NoneAssumption
  <2> QED BY <2>4, <2>5, <2>6 DEF Agree, f
<1>3. CASE hits = {} /\ stop < s.hi
  <2>1. f.found = None /\ f.next = stop + 1
    BY <1>1, <1>3
  <2>2. f.next \in Nat /\ s.cursor <= f.next /\ f.next <= s.hi /\ f.next - 1 = stop
    BY <1>0, <1>3, <2>1
  <2>3. f.next # None
    BY <2>2, NoneAssumption
  <2>4. Agree(doc, s.cursor, f.next - 1)
    BY <1>3, <2>2 DEF Agree
  <2> QED BY <2>1, <2>2, <2>3, <2>4 DEF f
<1>4. CASE hits = {} /\ ~ (stop < s.hi)
  <2>1. f.found = None /\ f.next = None /\ stop = s.hi
    BY <1>0, <1>1, <1>4
  <2>2. Agree(doc, s.cursor, s.hi)
    BY <1>4, <2>1 DEF Agree
  <2> QED BY <2>1, <2>2 DEF f
<1> QED BY <1>2, <1>3, <1>4

\* One step backwards, the same at or before the cursor.
LEMMA BackwardIs ==
    ASSUME NEW s, s.cursor \in Nat, s.lo \in Nat, s.lo <= s.cursor
    PROVE  LET f == BackwardStep(s)
           IN  \/ /\ f.found \in Nat /\ f.found # None
                  /\ s.lo <= f.found /\ f.found <= s.cursor
                  /\ Differs(doc, f.found) /\ Agree(doc, f.found + 1, s.cursor)
               \/ /\ f.found = None
                  /\ f.next \in Nat /\ f.next # None
                  /\ s.lo <= f.next /\ f.next <= s.cursor
                  /\ Agree(doc, f.next + 1, s.cursor)
               \/ f.found = None /\ f.next = None /\ Agree(doc, s.lo, s.cursor)
<1> DEFINE start == Max({s.cursor - DiffStep + 1, s.lo})
           hits == {p \in start .. s.cursor : Differs(doc, p)}
           f == BackwardStep(s)
<1>0. start \in Nat /\ s.lo <= start /\ start <= s.cursor
  <2>1. s.cursor - DiffStep + 1 \in Int /\ s.cursor - DiffStep + 1 <= s.cursor
    BY StepsAre
  <2>2. start = IF s.cursor - DiffStep + 1 >= s.lo THEN s.cursor - DiffStep + 1 ELSE s.lo
    BY <2>1, GreaterOfTwo
  <2> QED BY <2>1, <2>2
<1> HIDE DEF start
<1>1. f.found = (IF hits = {} THEN None ELSE Max(hits))
      /\ f.next = (IF hits = {} /\ start > s.lo THEN start - 1 ELSE None)
  BY DEF BackwardStep, start
<1> HIDE DEF f
<1>2. CASE hits # {}
  <2>1. hits \in SUBSET Nat /\ \A k \in hits : k <= s.cursor
    BY <1>0
  <2>2. Max(hits) \in hits /\ \A k \in hits : k <= Max(hits)
    BY <1>2, <2>1, GreatestOf
  <2>3. f.found = Max(hits)
    BY <1>1, <1>2
  <2>4. f.found \in Nat /\ s.lo <= f.found /\ f.found <= s.cursor /\ Differs(doc, f.found)
        /\ start <= f.found
    BY <1>0, <2>2, <2>3
  <2>5. ASSUME NEW p \in (f.found + 1) .. s.cursor
        PROVE  ~ Differs(doc, p)
    <3>1. p \in start .. s.cursor /\ ~ (p <= f.found)
      BY <1>0, <2>2, <2>3, <2>4
    <3> QED BY <2>2, <2>3, <3>1
  <2>6. f.found # None
    BY <2>4, NoneAssumption
  <2> QED BY <2>4, <2>5, <2>6 DEF Agree, f
<1>3. CASE hits = {} /\ start > s.lo
  <2>1. f.found = None /\ f.next = start - 1
    BY <1>1, <1>3
  <2>2. f.next \in Nat /\ s.lo <= f.next /\ f.next <= s.cursor /\ f.next + 1 = start
    BY <1>0, <1>3, <2>1
  <2>3. f.next # None
    BY <2>2, NoneAssumption
  <2>4. Agree(doc, f.next + 1, s.cursor)
    BY <1>3, <2>2 DEF Agree
  <2> QED BY <2>1, <2>2, <2>3, <2>4 DEF f
<1>4. CASE hits = {} /\ ~ (start > s.lo)
  <2>1. f.found = None /\ f.next = None /\ start = s.lo
    BY <1>0, <1>1, <1>4
  <2>2. Agree(doc, s.lo, s.cursor)
    BY <1>4, <2>1 DEF Agree
  <2> QED BY <2>1, <2>2 DEF f
<1> QED BY <1>2, <1>3, <1>4

\* The offsets in visiting order, spelt out.
LEMMA SmallModulo ==
    ASSUME NEW n \in Nat, n # 0, NEW x \in Nat
    PROVE  /\ x < n => x % n = x
           /\ n <= x /\ x < 2 * n => x % n = x - n
  OBVIOUS

\* A forward jump visits origin + 1, origin + 2 and so on, and wraps ...
LEMMA VisitsNext ==
    ASSUME NEW dir, dir = "next", NEW origin \in Nat, NEW len \in Nat, len # 0,
           origin <= len, NEW o, o = Min2(origin, len - 1)
    PROVE  /\ DOMAIN VisitOrder(dir, origin, len) = 1 .. len
           /\ \A i \in 1 .. len :
                 VisitOrder(dir, origin, len)[i] = IF o + i < len THEN o + i ELSE o + i - len
<1> DEFINE order == VisitOrder(dir, origin, len)
<1>1. o \in Nat /\ o < len
  BY DEF Min2
<1>2. DOMAIN order = 1 .. len /\ \A i \in 1 .. len : order[i] = (o + i) % len
  BY DEF VisitOrder
<1> HIDE DEF order
<1>3. ASSUME NEW i \in 1 .. len
      PROVE  order[i] = IF o + i < len THEN o + i ELSE o + i - len
  <2> DEFINE x == o + i
  <2>1. x \in Nat /\ x < 2 * len
    BY <1>1
  <2>2. order[i] = x % len
    BY <1>2
  <2> HIDE DEF x
  <2>3. (x < len => x % len = x) /\ (len <= x => x % len = x - len)
    BY <2>1, SmallModulo
  <2>4. order[i] = IF x < len THEN x ELSE x - len
    BY <2>1, <2>2, <2>3
  <2> QED BY <1>1, <2>4 DEF x
<1> QED BY <1>2, <1>3 DEF order

\* ... a backward jump origin - 1, origin - 2 and so on ...
LEMMA VisitsPrev ==
    ASSUME NEW dir, dir = "prev", NEW origin \in Nat, NEW len \in Nat, len # 0,
           origin <= len, origin > 0
    PROVE  /\ DOMAIN VisitOrder(dir, origin, len) = 1 .. len
           /\ \A i \in 1 .. len :
                 VisitOrder(dir, origin, len)[i] =
                     IF i <= origin THEN origin - i ELSE origin + len - i
<1> DEFINE order == VisitOrder(dir, origin, len)
<1>1. DOMAIN order = 1 .. len /\ \A i \in 1 .. len : order[i] = (origin + len - i) % len
  BY DEF VisitOrder
<1> HIDE DEF order
<1>2. ASSUME NEW i \in 1 .. len
      PROVE  order[i] = IF i <= origin THEN origin - i ELSE origin + len - i
  <2> DEFINE x == origin + len - i
  <2>1. x \in Nat /\ x < 2 * len
        /\ (i <= origin => len <= x /\ x - len = origin - i)
        /\ (~ (i <= origin) => x < len)
    OBVIOUS
  <2>2. order[i] = x % len
    BY <1>1
  <2> HIDE DEF x
  <2>3. (x < len => x % len = x) /\ (len <= x => x % len = x - len)
    BY <2>1, SmallModulo
  <2>4. order[i] = IF i <= origin THEN origin - i ELSE x
    BY <2>1, <2>2, <2>3
  <2> QED BY <2>4 DEF x
<1> QED BY <1>1, <1>2 DEF order

\* ... and one from the first byte that byte and then the last ones.
LEMMA VisitsPrevStart ==
    ASSUME NEW dir, dir = "prev", NEW origin, origin = 0, NEW len \in Nat, len # 0
    PROVE  /\ DOMAIN VisitOrder(dir, origin, len) = 1 .. len
           /\ \A i \in 1 .. len :
                 VisitOrder(dir, origin, len)[i] = IF i = 1 THEN 0 ELSE len + 1 - i
<1> DEFINE order == VisitOrder(dir, origin, len)
<1>1. DOMAIN order = 1 .. len /\ \A i \in 1 .. len : order[i] = (len + 1 - i) % len
  BY DEF VisitOrder
<1> HIDE DEF order
<1>2. ASSUME NEW i \in 1 .. len
      PROVE  order[i] = IF i = 1 THEN 0 ELSE len + 1 - i
  <2> DEFINE x == len + 1 - i
  <2>1. x \in Nat /\ x < 2 * len
        /\ (i = 1 => len <= x /\ x - len = 0)
        /\ (i # 1 => x < len)
    OBVIOUS
  <2>2. order[i] = x % len
    BY <1>1
  <2> HIDE DEF x
  <2>3. (x < len => x % len = x) /\ (len <= x => x % len = x - len)
    BY <2>1, SmallModulo
  <2>4. order[i] = IF i = 1 THEN 0 ELSE x
    BY <2>1, <2>2, <2>3
  <2> QED BY <2>4 DEF x
<1> QED BY <1>1, <1>2 DEF order

\* A report of the first mismatch in visiting order, or of none when there is
\* none, is right.
LEMMA FirstReported ==
    ASSUME NEW s, NEW len \in Nat, len = Len(s.of),
           DOMAIN VisitOrder(s.dir, s.origin, len) = 1 .. len,
           NEW k \in 1 .. len,
           Differs(s.of, VisitOrder(s.dir, s.origin, len)[k]),
           \A j \in 1 .. len : j < k => ~ Differs(s.of, VisitOrder(s.dir, s.origin, len)[j]),
           report' = DiffReport(s, VisitOrder(s.dir, s.origin, len)[k])
    PROVE  ReportInv'
<1> DEFINE order == VisitOrder(s.dir, s.origin, len)
           hits == {i \in DOMAIN order : Differs(s.of, order[i])}
<1> HIDE DEF order
<1>1. k \in hits /\ \A j \in hits : k <= j
  BY DEF order
<1>2. hits \in SUBSET Nat
  BY DEF order
<1> HIDE DEF hits
<1>3. Min(hits) = k
  <2>1. Min(hits) \in hits /\ Min(hits) <= k /\ k <= Min(hits)
    BY <1>1, <1>2, LeastOf
  <2>2. Min(hits) \in Nat /\ k \in Nat
    BY <1>1, <1>2, <2>1
  <2> QED BY <2>1, <2>2
<1>4. hits # {}
  BY <1>1
<1>5. FirstMismatch(s.of, s.dir, s.origin) = order[k]
  <2>1. FirstMismatch(s.of, s.dir, s.origin) = IF hits = {} THEN None ELSE order[Min(hits)]
    BY DEF FirstMismatch, hits, order
  <2> QED BY <1>3, <1>4, <2>1
<1>6. /\ report'.kind = "diff" /\ report'.of = s.of /\ report'.dir = s.dir
      /\ report'.origin = s.origin /\ report'.found = order[k]
  BY DEF DiffReport, order
<1>7. NearestMismatch'
  BY <1>5, <1>6 DEF NearestMismatch
<1> QED BY <1>6, <1>7 DEF ReportInv

\* A report of no mismatch is right when no offset visited is one.
LEMMA NoneReported ==
    ASSUME NEW s, NEW len \in Nat, len = Len(s.of),
           DOMAIN VisitOrder(s.dir, s.origin, len) = 1 .. len,
           \A j \in 1 .. len : ~ Differs(s.of, VisitOrder(s.dir, s.origin, len)[j]),
           report' = DiffReport(s, None)
    PROVE  ReportInv'
<1>1. /\ report'.kind = "diff" /\ report'.of = s.of /\ report'.dir = s.dir
      /\ report'.origin = s.origin /\ report'.found = None
  BY DEF DiffReport
<1>2. FirstMismatch(s.of, s.dir, s.origin) = None
  <2>1. {i \in DOMAIN VisitOrder(s.dir, s.origin, len) :
            Differs(s.of, VisitOrder(s.dir, s.origin, len)[i])} = {}
    OBVIOUS
  <2> QED BY <2>1 DEF FirstMismatch
<1>3. NearestMismatch'
  BY <1>1, <1>2 DEF NearestMismatch
<1> QED BY <1>1, <1>3 DEF ReportInv

\* What DiffScan says of its fields, for the lemmas below.
LEMMA JumpFields ==
    ASSUME NEW d \in Seq(Cells), NEW s, DiffScan(s, d)
    PROVE  /\ Len(d) \in Nat /\ Len(d) # 0
           /\ s \in DiffScans /\ s.of = d
           /\ s.dir \in {"next", "prev"} /\ s.wrapped \in BOOLEAN
           /\ s.origin \in Nat /\ s.lo \in Nat /\ s.hi \in Nat /\ s.cursor \in Nat
           /\ s.origin <= Len(d) /\ s.lo <= s.cursor /\ s.cursor <= s.hi
           /\ Min2(s.origin, Len(d) - 1) =
                 IF s.origin < Len(d) - 1 THEN s.origin ELSE Len(d) - 1
<1>1. s \in DiffScans /\ s.of = d /\ d # << >>
      /\ s.origin <= Len(d) /\ s.lo <= s.cursor /\ s.cursor <= s.hi
  BY DEF DiffScan
<1>2. Len(d) \in Nat /\ Len(d) # 0
  BY <1>1
<1>3. /\ s.dir \in {"next", "prev"} /\ s.wrapped \in BOOLEAN
      /\ s.origin \in Nat /\ s.lo \in Nat /\ s.hi \in Nat /\ s.cursor \in Nat
  BY <1>1 DEF DiffScans
<1> QED BY <1>1, <1>2, <1>3 DEF Min2

\* Where a jump looks at p, when it has looked only at offsets of seen before.
VisitedAfter(dir, origin, len, p, seen) ==
    LET order == VisitOrder(dir, origin, len)
    IN  \E k \in 1 .. len :
            order[k] = p /\ \A j \in 1 .. len : j < k => order[j] \in seen

\* A forward jump looks at the offsets behind its origin from there on.
LEMMA NextAhead ==
    ASSUME NEW dir, dir = "next", NEW origin \in Nat, NEW len \in Nat, len # 0,
           NEW p \in Nat, origin < p, p < len
    PROVE  VisitedAfter(dir, origin, len, p, (origin + 1) .. (p - 1))
<1> DEFINE order == VisitOrder(dir, origin, len)
           k == p - origin
<1>1. origin = Min2(origin, len - 1) /\ origin <= len
  BY DEF Min2
<1>2. \A i \in 1 .. len : order[i] = IF origin + i < len THEN origin + i ELSE origin + i - len
  BY <1>1, VisitsNext
<1> HIDE DEF order
<1>3. k \in 1 .. len /\ order[k] = p
  BY <1>2
<1>4. \A j \in 1 .. len : j < k => order[j] \in (origin + 1) .. (p - 1)
  BY <1>2
<1> HIDE DEF k
<1> QED BY <1>3, <1>4 DEF VisitedAfter, order

\* ... and once it has wrapped at those from the start on.
LEMMA NextAround ==
    ASSUME NEW dir, dir = "next", NEW origin \in Nat, NEW len \in Nat, len # 0,
           origin <= len, NEW p \in Nat, p <= Min2(origin, len - 1)
    PROVE  VisitedAfter(dir, origin, len, p, ((origin + 1) .. (len - 1)) \cup (0 .. (p - 1)))
<1> DEFINE order == VisitOrder(dir, origin, len)
           o == Min2(origin, len - 1)
           k == len - o + p
<1>1. o \in Nat /\ o < len /\ o <= origin /\ (o < origin => o = len - 1)
  BY DEF Min2
<1>2. \A i \in 1 .. len : order[i] = IF o + i < len THEN o + i ELSE o + i - len
  BY VisitsNext
<1>3. p <= o
  OBVIOUS
<1> HIDE DEF order, o
<1>4. k \in 1 .. len /\ order[k] = p
  BY <1>1, <1>2, <1>3
<1>5. ASSUME NEW j \in 1 .. len, j < k
      PROVE  order[j] \in ((origin + 1) .. (len - 1)) \cup (0 .. (p - 1))
  <2>1. CASE o + j < len
    <3>1. order[j] = o + j
      BY <1>2, <2>1
    <3>2. o + j \in (origin + 1) .. (len - 1)
      BY <1>1, <2>1
    <3> QED BY <3>1, <3>2
  <2>2. CASE ~ (o + j < len)
    <3>1. order[j] = o + j - len
      BY <1>2, <2>2
    <3>2. o + j - len \in 0 .. (p - 1)
      BY <1>1, <1>5, <2>2
    <3> QED BY <3>1, <3>2
  <2> QED BY <2>1, <2>2
<1> HIDE DEF k
<1> QED BY <1>4, <1>5 DEF VisitedAfter, order

\* A backward jump looks at the offsets before its origin from there back.
LEMMA PrevAhead ==
    ASSUME NEW dir, dir = "prev", NEW origin \in Nat, NEW len \in Nat, len # 0,
           origin <= len, NEW p \in Nat, p < origin
    PROVE  VisitedAfter(dir, origin, len, p, (p + 1) .. (origin - 1))
<1> DEFINE order == VisitOrder(dir, origin, len)
           k == origin - p
<1>1. \A i \in 1 .. len : order[i] = IF i <= origin THEN origin - i ELSE origin + len - i
  BY VisitsPrev
<1> HIDE DEF order
<1>2. k \in 1 .. len /\ order[k] = p
  BY <1>1
<1>3. \A j \in 1 .. len : j < k => order[j] \in (p + 1) .. (origin - 1)
  BY <1>1
<1> HIDE DEF k
<1> QED BY <1>2, <1>3 DEF VisitedAfter, order

\* ... and once it has wrapped at those from the end back.
LEMMA PrevAround ==
    ASSUME NEW dir, dir = "prev", NEW origin \in Nat, NEW len \in Nat, len # 0,
           origin <= len, origin > 0, NEW p \in Nat, origin <= p, p < len
    PROVE  VisitedAfter(dir, origin, len, p, (0 .. (origin - 1)) \cup ((p + 1) .. (len - 1)))
<1> DEFINE order == VisitOrder(dir, origin, len)
           k == origin + len - p
<1>1. \A i \in 1 .. len : order[i] = IF i <= origin THEN origin - i ELSE origin + len - i
  BY VisitsPrev
<1> HIDE DEF order
<1>2. k \in 1 .. len /\ order[k] = p
  BY <1>1
<1>3. \A j \in 1 .. len :
          j < k => order[j] \in (0 .. (origin - 1)) \cup ((p + 1) .. (len - 1))
  BY <1>1
<1> HIDE DEF k
<1> QED BY <1>2, <1>3 DEF VisitedAfter, order

\* A backward jump from the first byte looks at that one first.
LEMMA PrevFromStart ==
    ASSUME NEW dir, dir = "prev", NEW origin, origin = 0, NEW len \in Nat, len # 0
    PROVE  VisitedAfter(dir, origin, len, 0, {})
<1>1. \A i \in 1 .. len : VisitOrder(dir, origin, len)[i] = IF i = 1 THEN 0 ELSE len + 1 - i
  BY VisitsPrevStart
<1>2. 1 \in 1 .. len /\ \A j \in 1 .. len : ~ (j < 1)
  OBVIOUS
<1>3. VisitOrder(dir, origin, len)[1] = 0
  BY <1>1, <1>2
<1> QED BY <1>2, <1>3 DEF VisitedAfter

\* ... and then at those from the end back.
LEMMA PrevStartAround ==
    ASSUME NEW dir, dir = "prev", NEW origin, origin = 0, NEW len \in Nat, len # 0,
           NEW p \in Nat, 1 <= p, p < len
    PROVE  VisitedAfter(dir, origin, len, p, {0} \cup ((p + 1) .. (len - 1)))
<1> DEFINE order == VisitOrder(dir, origin, len)
           k == len + 1 - p
<1>1. \A i \in 1 .. len : order[i] = IF i = 1 THEN 0 ELSE len + 1 - i
  BY VisitsPrevStart
<1> HIDE DEF order
<1>2. k \in 1 .. len /\ order[k] = p
  BY <1>1
<1>3. \A j \in 1 .. len : j < k => order[j] \in {0} \cup ((p + 1) .. (len - 1))
  BY <1>1
<1> HIDE DEF k
<1> QED BY <1>2, <1>3 DEF VisitedAfter, order

\* A jump looks at nothing but the document.
LEMMA VisitsWithin ==
    ASSUME NEW dir \in {"next", "prev"}, NEW origin \in Nat, NEW len \in Nat, len # 0,
           origin <= len
    PROVE  /\ DOMAIN VisitOrder(dir, origin, len) = 1 .. len
           /\ \A i \in 1 .. len : VisitOrder(dir, origin, len)[i] \in 0 .. (len - 1)
<1> DEFINE order == VisitOrder(dir, origin, len)
           o == Min2(origin, len - 1)
<1>1. o \in Nat /\ o < len
  BY DEF Min2
<1>2. CASE dir = "next"
  <2>1. DOMAIN order = 1 .. len
        /\ \A i \in 1 .. len : order[i] = IF o + i < len THEN o + i ELSE o + i - len
    BY <1>2, VisitsNext
  <2> HIDE DEF order, o
  <2> QED BY <1>1, <2>1 DEF order
<1>3. CASE dir = "prev" /\ origin > 0
  <2>1. DOMAIN order = 1 .. len
        /\ \A i \in 1 .. len : order[i] = IF i <= origin THEN origin - i ELSE origin + len - i
    BY <1>3, VisitsPrev
  <2> HIDE DEF order
  <2> QED BY <2>1 DEF order
<1>4. CASE dir = "prev" /\ origin = 0
  <2>1. DOMAIN order = 1 .. len
        /\ \A i \in 1 .. len : order[i] = IF i = 1 THEN 0 ELSE len + 1 - i
    BY <1>4, VisitsPrevStart
  <2> HIDE DEF order
  <2> QED BY <2>1 DEF order
<1> QED BY <1>2, <1>3, <1>4

\* A mismatch with none before it in visiting order is what to report.
LEMMA JumpReported ==
    ASSUME NEW s, NEW d, s.of = d, s.dir \in {"next", "prev"},
           s.origin \in Nat, Len(d) \in Nat, Len(d) # 0, s.origin <= Len(d),
           NEW p, NEW seen, VisitedAfter(s.dir, s.origin, Len(d), p, seen),
           \A q \in seen : ~ Differs(d, q), Differs(d, p),
           report' = DiffReport(s, p)
    PROVE  ReportInv'
<1>1. PICK k \in 1 .. Len(d) :
          /\ VisitOrder(s.dir, s.origin, Len(d))[k] = p
          /\ \A j \in 1 .. Len(d) :
                j < k => VisitOrder(s.dir, s.origin, Len(d))[j] \in seen
  BY DEF VisitedAfter
<1>2. DOMAIN VisitOrder(s.dir, s.origin, Len(d)) = 1 .. Len(d)
  BY VisitsWithin
<1>3. \A j \in 1 .. Len(d) :
          j < k => ~ Differs(s.of, VisitOrder(s.dir, s.origin, Len(d))[j])
  BY <1>1
<1>4. Differs(s.of, VisitOrder(s.dir, s.origin, Len(d))[k])
  BY <1>1
<1>5. report' = DiffReport(s, VisitOrder(s.dir, s.origin, Len(d))[k])
  BY <1>1
<1>6. Len(d) = Len(s.of)
  OBVIOUS
<1> QED BY <1>2, <1>3, <1>4, <1>5, <1>6, FirstReported

\* Two ranges without a mismatch that meet are one.
LEMMA AgreeOn ==
    ASSUME NEW d, NEW a \in Int, NEW b \in Int, NEW c \in Int,
           Agree(d, a, b - 1), Agree(d, b, c)
    PROVE  Agree(d, a, c)
<1>1. \A p \in a .. c : p \in a .. (b - 1) \/ p \in b .. c
  OBVIOUS
<1> QED BY <1>1 DEF Agree

\* The same with the first range's last offset named.
LEMMA AgreeBack ==
    ASSUME NEW d, NEW a \in Int, NEW b \in Int, NEW c \in Int,
           Agree(d, a, b), Agree(d, b + 1, c)
    PROVE  Agree(d, a, c)
<1>1. \A p \in a .. c : p \in a .. b \/ p \in (b + 1) .. c
  OBVIOUS
<1> QED BY <1>1 DEF Agree

\* The mismatch a step finds is the first in visiting order.
LEMMA JumpFound ==
    ASSUME NEW d \in Seq(Cells), NEW s, DiffScan(s, d),
           NEW p \in Nat, s.lo <= p, p <= s.hi, Differs(d, p),
           s.dir = "next" => s.cursor <= p /\ Agree(d, s.cursor, p - 1),
           s.dir = "prev" => p <= s.cursor /\ Agree(d, p + 1, s.cursor),
           report' = DiffReport(s, p)
    PROVE  ReportInv'
<1> DEFINE n == Len(d)
           o == Min2(s.origin, n - 1)
<1>1. /\ n \in Nat /\ n # 0 /\ s.of = d /\ s.dir \in {"next", "prev"}
      /\ s.wrapped \in BOOLEAN
      /\ s.origin \in Nat /\ s.lo \in Nat /\ s.hi \in Nat /\ s.cursor \in Nat
      /\ s.origin <= n /\ s.lo <= s.cursor /\ s.cursor <= s.hi
      /\ o = IF s.origin < n - 1 THEN s.origin ELSE n - 1
  BY JumpFields
<1>2. ASSUME NEW seen, VisitedAfter(s.dir, s.origin, n, p, seen),
             \A q \in seen : ~ Differs(d, q)
      PROVE  ReportInv'
  BY <1>1, <1>2, JumpReported
<1>3. CASE s.dir = "next"
  <2>1. s.cursor <= p /\ Agree(d, s.cursor, p - 1)
    BY <1>3
  <2>2. CASE ~ s.wrapped
    <3>1. s.lo = s.origin + 1 /\ s.hi = n - 1 /\ Agree(d, s.origin + 1, s.cursor - 1)
      BY <1>3, <2>2 DEF DiffScan
    <3>2. Agree(d, s.origin + 1, p - 1)
      BY <1>1, <2>1, <3>1, AgreeOn
    <3>3. s.origin < p /\ p < n
      BY <1>1, <3>1
    <3>4. VisitedAfter(s.dir, s.origin, n, p, (s.origin + 1) .. (p - 1))
      BY <1>1, <1>3, <3>3, NextAhead
    <3> QED BY <1>2, <3>2, <3>4 DEF Agree
  <2>3. CASE s.wrapped
    <3>1. s.lo = 0 /\ s.hi = o /\ Agree(d, s.origin + 1, n - 1) /\ Agree(d, 0, s.cursor - 1)
      BY <1>3, <2>3 DEF DiffScan
    <3>2. Agree(d, 0, p - 1)
      BY <1>1, <2>1, <3>1, AgreeOn
    <3>3. VisitedAfter(s.dir, s.origin, n, p, ((s.origin + 1) .. (n - 1)) \cup (0 .. (p - 1)))
      <4>1. p <= Min2(s.origin, n - 1)
        BY <3>1
      <4> QED BY <1>1, <1>3, <4>1, NextAround
    <3> QED BY <1>2, <3>1, <3>2, <3>3 DEF Agree
  <2> QED BY <2>2, <2>3
<1>4. CASE s.dir = "prev"
  <2>1. p <= s.cursor /\ Agree(d, p + 1, s.cursor)
    BY <1>4
  <2>2. CASE ~ s.wrapped /\ s.origin > 0
    <3>1. s.lo = 0 /\ s.hi = s.origin - 1 /\ Agree(d, s.cursor + 1, s.origin - 1)
      BY <1>1, <1>4, <2>2 DEF DiffScan
    <3>2. Agree(d, p + 1, s.origin - 1)
      BY <1>1, <2>1, <3>1, AgreeBack
    <3>3. p < s.origin
      BY <1>1, <3>1
    <3>4. VisitedAfter(s.dir, s.origin, n, p, (p + 1) .. (s.origin - 1))
      BY <1>1, <1>4, <3>3, PrevAhead
    <3> QED BY <1>2, <3>2, <3>4 DEF Agree
  <2>3. CASE ~ s.wrapped /\ s.origin = 0
    <3>1. s.lo = 0 /\ s.hi = 0
      BY <1>1, <1>4, <2>3 DEF DiffScan
    <3>2. p = 0
      BY <1>1, <3>1
    <3>3. VisitedAfter(s.dir, s.origin, n, p, {})
      BY <1>1, <1>4, <2>3, <3>2, PrevFromStart
    <3> QED BY <1>2, <3>3
  <2>4. CASE s.wrapped
    <3>1. /\ s.lo = o /\ s.hi = n - 1
          /\ Agree(d, 0, s.origin - 1) /\ Agree(d, s.cursor + 1, n - 1)
          /\ s.origin = 0 => ~ Differs(d, 0)
      BY <1>4, <2>4 DEF DiffScan
    <3>2. Agree(d, p + 1, n - 1)
      BY <1>1, <2>1, <3>1, AgreeBack
    <3>3. CASE s.origin > 0
      <4>1. s.origin <= p /\ p < n
        <5>1. ~ (p \in 0 .. (s.origin - 1))
          BY <3>1 DEF Agree
        <5> QED BY <1>1, <3>1, <5>1
      <4>2. VisitedAfter(s.dir, s.origin, n, p, (0 .. (s.origin - 1)) \cup ((p + 1) .. (n - 1)))
        BY <1>1, <1>4, <3>3, <4>1, PrevAround
      <4> QED BY <1>2, <3>1, <3>2, <4>2 DEF Agree
    <3>4. CASE s.origin = 0
      <4>1. p # 0
        BY <3>1, <3>4
      <4>2. 1 <= p /\ p < n
        BY <1>1, <3>1, <4>1
      <4>3. VisitedAfter(s.dir, s.origin, n, p, {0} \cup ((p + 1) .. (n - 1)))
        BY <1>1, <1>4, <3>4, <4>2, PrevStartAround
      <4> QED BY <1>2, <3>1, <3>2, <3>4, <4>3 DEF Agree
    <3> QED BY <1>1, <3>3, <3>4
  <2> QED BY <1>1, <2>2, <2>3, <2>4
<1> QED BY <1>1, <1>3, <1>4

\* A scan that has come round without a hit has seen every offset.
LEMMA JumpEnds ==
    ASSUME NEW d \in Seq(Cells), NEW s, DiffScan(s, d), s.wrapped,
           s.dir = "next" => Agree(d, s.cursor, s.hi),
           s.dir = "prev" => Agree(d, s.lo, s.cursor),
           report' = DiffReport(s, None)
    PROVE  ReportInv'
<1> DEFINE n == Len(d)
           o == Min2(s.origin, n - 1)
<1>1. /\ n \in Nat /\ n # 0 /\ s.of = d /\ s.dir \in {"next", "prev"}
      /\ s.origin \in Nat /\ s.lo \in Nat /\ s.hi \in Nat /\ s.cursor \in Nat
      /\ s.origin <= n /\ s.lo <= s.cursor /\ s.cursor <= s.hi
      /\ o = IF s.origin < n - 1 THEN s.origin ELSE n - 1
  BY JumpFields
<1>2. Agree(d, 0, n - 1)
  <2>1. CASE s.dir = "next"
    <3>1. s.hi = o /\ Agree(d, s.origin + 1, n - 1) /\ Agree(d, 0, s.cursor - 1)
      BY <2>1 DEF DiffScan
    <3>2. Agree(d, 0, o)
      BY <1>1, <2>1, <3>1, AgreeOn
    <3>3. CASE o = n - 1
      BY <3>2, <3>3
    <3>4. CASE o = s.origin
      BY <1>1, <3>1, <3>2, <3>4, AgreeBack
    <3> QED BY <1>1, <3>3, <3>4
  <2>2. CASE s.dir = "prev"
    <3>1. s.lo = o /\ Agree(d, 0, s.origin - 1) /\ Agree(d, s.cursor + 1, n - 1)
      BY <2>2 DEF DiffScan
    <3>2. Agree(d, o, n - 1)
      BY <1>1, <2>2, <3>1, AgreeBack
    <3>3. CASE o = s.origin
      BY <1>1, <3>1, <3>2, <3>3, AgreeOn
    <3>4. CASE o = n - 1 /\ s.origin = n
      BY <1>1, <3>1, <3>4
    <3> QED BY <1>1, <3>3, <3>4
  <2> QED BY <1>1, <2>1, <2>2
<1> HIDE DEF o
<1>3. /\ DOMAIN VisitOrder(s.dir, s.origin, n) = 1 .. n
      /\ \A i \in 1 .. n : VisitOrder(s.dir, s.origin, n)[i] \in 0 .. (n - 1)
  <2>1. s.dir \in {"next", "prev"} /\ s.origin \in Nat /\ s.origin <= n
    BY <1>1
  <2>2. n \in Nat /\ n # 0
    BY <1>1
  <2> HIDE DEF n
  <2>3. DOMAIN VisitOrder(s.dir, s.origin, n) = 1 .. n
    BY <2>1, <2>2, VisitsWithin
  <2>4. \A i \in 1 .. n : VisitOrder(s.dir, s.origin, n)[i] \in 0 .. (n - 1)
    BY <2>1, <2>2, VisitsWithin
  <2> QED BY <2>3, <2>4
<1>4. \A i \in 1 .. n : ~ Differs(s.of, VisitOrder(s.dir, s.origin, n)[i])
  BY <1>1, <1>2, <1>3 DEF Agree
<1>5. n = Len(s.of)
  BY <1>1
<1> QED BY <1>1, <1>3, <1>4, <1>5, NoneReported

\* A step without a hit moves the cursor.
LEMMA JumpContinues ==
    ASSUME NEW d \in Seq(Cells), NEW s, DiffScan(s, d),
           NEW c \in Nat, s.lo <= c, c <= s.hi,
           s.dir = "next" => s.cursor <= c /\ Agree(d, s.cursor, c - 1),
           s.dir = "prev" => c <= s.cursor /\ Agree(d, c + 1, s.cursor)
    PROVE  DiffScan([s EXCEPT !.cursor = c], d)
<1> DEFINE t == [s EXCEPT !.cursor = c]
           n == Len(d)
           o == Min2(s.origin, n - 1)
<1>1. /\ Len(d) \in Nat /\ s \in DiffScans /\ s.dir \in {"next", "prev"}
      /\ s.wrapped \in BOOLEAN
      /\ s.origin \in Nat /\ s.lo \in Nat /\ s.hi \in Nat /\ s.cursor \in Nat
  BY JumpFields
<1>2. /\ t \in DiffScans /\ t.of = s.of /\ t.dir = s.dir /\ t.origin = s.origin
      /\ t.lo = s.lo /\ t.hi = s.hi /\ t.wrapped = s.wrapped /\ t.cursor = c
  BY <1>1 DEF DiffScans
<1> SUFFICES DiffScan(t, d)
  OBVIOUS
<1> HIDE DEF t
<1>8. /\ t \in DiffScans /\ t.of = d /\ d # << >> /\ t.origin <= Len(d)
      /\ t.lo <= t.cursor /\ t.cursor <= t.hi
  BY <1>2 DEF DiffScan
<1>3. CASE s.dir = "next" /\ ~ s.wrapped
  <2>1. s.lo = s.origin + 1 /\ s.hi = n - 1 /\ Agree(d, s.origin + 1, s.cursor - 1)
    BY <1>3 DEF DiffScan
  <2>2. Agree(d, s.origin + 1, c - 1)
    BY <1>1, <1>3, <2>1, AgreeOn
  <2>3. /\ t.dir = "next" /\ ~ t.wrapped
        /\ t.lo = t.origin + 1 /\ t.hi = Len(d) - 1
        /\ Agree(d, t.origin + 1, t.cursor - 1)
    BY <1>2, <1>3, <2>1, <2>2
  <2> QED BY <1>8, <2>3 DEF DiffScan
<1>4. CASE s.dir = "next" /\ s.wrapped
  <2>1. s.lo = 0 /\ s.hi = o /\ Agree(d, s.origin + 1, n - 1) /\ Agree(d, 0, s.cursor - 1)
    BY <1>4 DEF DiffScan
  <2>2. Agree(d, 0, c - 1)
    BY <1>1, <1>4, <2>1, AgreeOn
  <2>3. /\ t.dir = "next" /\ t.wrapped
        /\ t.lo = 0 /\ t.hi = Min2(t.origin, Len(d) - 1)
        /\ Agree(d, t.origin + 1, Len(d) - 1) /\ Agree(d, 0, t.cursor - 1)
    BY <1>2, <1>4, <2>1, <2>2
  <2> QED BY <1>8, <2>3 DEF DiffScan
<1>5. CASE s.dir = "prev" /\ ~ s.wrapped /\ s.origin > 0
  <2>1. s.lo = 0 /\ s.hi = s.origin - 1 /\ Agree(d, s.cursor + 1, s.origin - 1)
    BY <1>1, <1>5 DEF DiffScan
  <2>2. Agree(d, c + 1, s.origin - 1)
    BY <1>1, <1>5, <2>1, AgreeBack
  <2>3. /\ t.dir = "prev" /\ ~ t.wrapped /\ t.origin > 0
        /\ t.lo = 0 /\ t.hi = t.origin - 1
        /\ Agree(d, t.cursor + 1, t.origin - 1)
    BY <1>2, <1>5, <2>1, <2>2
  <2> QED BY <1>8, <2>3 DEF DiffScan
<1>6. CASE s.dir = "prev" /\ ~ s.wrapped /\ s.origin = 0
  <2>1. s.lo = 0 /\ s.hi = 0
    BY <1>1, <1>6 DEF DiffScan
  <2>3. t.dir = "prev" /\ ~ t.wrapped /\ t.origin = 0 /\ t.lo = 0 /\ t.hi = 0
    BY <1>2, <1>6, <2>1
  <2> QED BY <1>8, <2>3 DEF DiffScan
<1>7. CASE s.dir = "prev" /\ s.wrapped
  <2>1. /\ s.lo = o /\ s.hi = n - 1
        /\ Agree(d, 0, s.origin - 1) /\ Agree(d, s.cursor + 1, n - 1)
        /\ s.origin = 0 => ~ Differs(d, 0)
    BY <1>7 DEF DiffScan
  <2>2. Agree(d, c + 1, n - 1)
    BY <1>1, <1>7, <2>1, AgreeBack
  <2>3. /\ t.dir = "prev" /\ t.wrapped
        /\ t.lo = Min2(t.origin, Len(d) - 1) /\ t.hi = Len(d) - 1
        /\ Agree(d, 0, t.origin - 1) /\ Agree(d, t.cursor + 1, Len(d) - 1)
        /\ t.origin = 0 => ~ Differs(d, 0)
    BY <1>2, <1>7, <2>1, <2>2
  <2> QED BY <1>8, <2>3 DEF DiffScan
<1> HIDE DEF n, o
<1> QED BY <1>1, <1>3, <1>4, <1>5, <1>6, <1>7

\* A scan that has reached the end of the document goes on at the other.
LEMMA JumpWraps ==
    ASSUME NEW d \in Seq(Cells), NEW s, DiffScan(s, d), ~ s.wrapped,
           s.dir = "next" => Agree(d, s.cursor, s.hi),
           s.dir = "prev" => Agree(d, s.lo, s.cursor)
    PROVE  DiffScan(Wrapped(s, Len(d)), d)
<1> DEFINE n == Len(d)
           o == Min2(s.origin, n - 1)
           t == Wrapped(s, n)
<1>1. /\ n \in Nat /\ n # 0 /\ s \in DiffScans /\ s.of = d /\ s.dir \in {"next", "prev"}
      /\ s.origin \in Nat /\ s.lo \in Nat /\ s.hi \in Nat /\ s.cursor \in Nat
      /\ s.origin <= n /\ s.lo <= s.cursor /\ s.cursor <= s.hi
      /\ o = IF s.origin < n - 1 THEN s.origin ELSE n - 1
  BY JumpFields
<1>2. o \in Nat /\ o <= n - 1 /\ n - 1 \in Nat
  BY <1>1
<1>3. d # << >>
  BY DEF DiffScan
<1>4. CASE s.dir = "next"
  <2>1. t = [s EXCEPT !.wrapped = TRUE, !.lo = 0, !.hi = o, !.cursor = 0]
    BY <1>4 DEF Wrapped
  <2> HIDE DEF n, o, t
  <2>2. /\ t \in DiffScans /\ t.of = d /\ t.dir = "next" /\ t.origin = s.origin
        /\ t.lo = 0 /\ t.hi = o /\ t.wrapped = TRUE /\ t.cursor = 0
    BY <1>1, <1>2, <1>4, <2>1 DEF DiffScans
  <2>3. Agree(d, s.origin + 1, n - 1)
    <3>1. s.hi = n - 1 /\ Agree(d, s.origin + 1, s.cursor - 1)
      BY <1>4 DEF DiffScan, n
    <3> QED BY <1>1, <1>4, <3>1 DEF Agree
  <2>4. Agree(d, 0, 0 - 1)
    BY DEF Agree
  <2> QED BY <1>1, <1>2, <1>3, <2>2, <2>3, <2>4 DEF DiffScan, n, o, t
<1>5. CASE s.dir = "prev"
  <2>1. t = [s EXCEPT !.wrapped = TRUE, !.lo = o, !.hi = n - 1, !.cursor = n - 1]
    BY <1>5 DEF Wrapped
  <2> HIDE DEF n, o, t
  <2>2. /\ t \in DiffScans /\ t.of = d /\ t.dir = "prev" /\ t.origin = s.origin
        /\ t.lo = o /\ t.hi = n - 1 /\ t.wrapped = TRUE /\ t.cursor = n - 1
    BY <1>1, <1>2, <1>5, <2>1 DEF DiffScans
  <2>3. Agree(d, 0, s.origin - 1) /\ (s.origin = 0 => ~ Differs(d, 0))
    <3>1. CASE s.origin > 0
      <4>1. s.lo = 0 /\ Agree(d, s.cursor + 1, s.origin - 1)
        BY <1>1, <1>5, <3>1 DEF DiffScan
      <4> QED BY <1>1, <1>5, <3>1, <4>1 DEF Agree
    <3>2. CASE s.origin = 0
      <4>1. s.lo = 0 /\ s.hi = 0
        BY <1>1, <1>5, <3>2 DEF DiffScan
      <4> QED BY <1>1, <1>5, <3>2, <4>1 DEF Agree
    <3> QED BY <1>1, <3>1, <3>2
  <2>4. Agree(d, (n - 1) + 1, n - 1)
    BY <1>1 DEF Agree
  <2> QED BY <1>1, <1>2, <1>3, <2>2, <2>3, <2>4 DEF DiffScan, n, o, t
<1> QED BY <1>1, <1>4, <1>5

\* One step of a jump: it has found the first mismatch, goes on, or has looked
\* everywhere.
LEMMA JumpAdvances ==
    ASSUME LoopInv, NEW s, DiffScan(s, doc), AdvanceDiff(s), UNCHANGED docVars,
           panel' = panel
    PROVE  ScanInv' /\ PanelInv' /\ ReportInv'
<1> USE DEF LoopInv
<1>1. /\ doc \in Seq(Cells) /\ doc' = doc /\ revision' = revision
  BY DocumentIs DEF DocInv, docVars
<1>2. /\ s.dir \in {"next", "prev"} /\ s.wrapped \in BOOLEAN
      /\ s.lo \in Nat /\ s.hi \in Nat /\ s.cursor \in Nat
      /\ s.lo <= s.cursor /\ s.cursor <= s.hi
  BY <1>1, JumpFields
<1> DEFINE step == IF s.dir = "next" THEN ForwardStep(s) ELSE BackwardStep(s)
           moved == [s EXCEPT !.cursor = step.next]
           next == IF step.next # None THEN moved ELSE Wrapped(s, Len(doc))
<1>3. IF step.found = None /\ next # None
      THEN scan' = next /\ report' = report
      ELSE scan' = None /\ report' = DiffReport(s, step.found)
  BY DEF AdvanceDiff
<1>4. PanelInv'
  BY <1>1 DEF PanelInv
<1>5. CASE scan' = None /\ ReportInv'
  BY <1>4, <1>5 DEF ScanInv
<1>6. ASSUME NEW t, DiffScan(t, doc), scan' = t, report' = report
      PROVE  ScanInv' /\ ReportInv'
  <2>1. ScanInv'
    BY <1>1, <1>6 DEF ScanInv
  <2>2. ReportInv'
    BY <1>6 DEF ReportInv, NearestMismatch
  <2> QED BY <2>1, <2>2
<1>7. ASSUME NEW t, DiffScan(t, doc)
      PROVE  t # None
  BY <1>7, NoneAssumption DEF DiffScan
<1>8. \/ /\ step.found \in Nat /\ step.found # None
         /\ s.lo <= step.found /\ step.found <= s.hi /\ Differs(doc, step.found)
         /\ s.dir = "next" => s.cursor <= step.found /\ Agree(doc, s.cursor, step.found - 1)
         /\ s.dir = "prev" => step.found <= s.cursor /\ Agree(doc, step.found + 1, s.cursor)
      \/ /\ step.found = None /\ step.next \in Nat /\ step.next # None
         /\ s.lo <= step.next /\ step.next <= s.hi
         /\ s.dir = "next" => s.cursor <= step.next /\ Agree(doc, s.cursor, step.next - 1)
         /\ s.dir = "prev" => step.next <= s.cursor /\ Agree(doc, step.next + 1, s.cursor)
      \/ /\ step.found = None /\ step.next = None
         /\ s.dir = "next" => Agree(doc, s.cursor, s.hi)
         /\ s.dir = "prev" => Agree(doc, s.lo, s.cursor)
  <2>1. CASE s.dir = "next"
    <3> DEFINE f == ForwardStep(s)
    <3>1. step = f
      BY <2>1
    <3>2. \/ /\ f.found \in Nat /\ f.found # None
             /\ s.cursor <= f.found /\ f.found <= s.hi
             /\ Differs(doc, f.found) /\ Agree(doc, s.cursor, f.found - 1)
          \/ /\ f.found = None
             /\ f.next \in Nat /\ f.next # None
             /\ s.cursor <= f.next /\ f.next <= s.hi
             /\ Agree(doc, s.cursor, f.next - 1)
          \/ f.found = None /\ f.next = None /\ Agree(doc, s.cursor, s.hi)
      BY <1>2, ForwardIs
    <3> HIDE DEF f, step
    <3>3. f.found \in Nat /\ s.cursor <= f.found => s.lo <= f.found
      BY <1>2
    <3>4. f.next \in Nat /\ s.cursor <= f.next => s.lo <= f.next
      BY <1>2
    <3>5. s.dir # "prev"
      BY <2>1
    <3> QED BY <3>1, <3>2, <3>3, <3>4, <3>5
  <2>2. CASE s.dir = "prev"
    <3> DEFINE f == BackwardStep(s)
    <3>1. step = f
      BY <2>2
    <3>2. \/ /\ f.found \in Nat /\ f.found # None
             /\ s.lo <= f.found /\ f.found <= s.cursor
             /\ Differs(doc, f.found) /\ Agree(doc, f.found + 1, s.cursor)
          \/ /\ f.found = None
             /\ f.next \in Nat /\ f.next # None
             /\ s.lo <= f.next /\ f.next <= s.cursor
             /\ Agree(doc, f.next + 1, s.cursor)
          \/ f.found = None /\ f.next = None /\ Agree(doc, s.lo, s.cursor)
      BY <1>2, BackwardIs
    <3> HIDE DEF f, step
    <3>3. f.found \in Nat /\ f.found <= s.cursor => f.found <= s.hi
      BY <1>2
    <3>4. f.next \in Nat /\ f.next <= s.cursor => f.next <= s.hi
      BY <1>2
    <3>5. s.dir # "next"
      BY <2>2
    <3> QED BY <3>1, <3>2, <3>3, <3>4, <3>5
  <2> QED BY <1>2, <2>1, <2>2
<1> HIDE DEF step
<1>9. CASE /\ step.found \in Nat /\ step.found # None
           /\ s.lo <= step.found /\ step.found <= s.hi /\ Differs(doc, step.found)
           /\ s.dir = "next" => s.cursor <= step.found /\ Agree(doc, s.cursor, step.found - 1)
           /\ s.dir = "prev" => step.found <= s.cursor /\ Agree(doc, step.found + 1, s.cursor)
  <2>1. scan' = None /\ report' = DiffReport(s, step.found)
    BY <1>3, <1>9
  <2> DEFINE p == step.found
  <2> HIDE DEF p
  <2>2. /\ p \in Nat /\ s.lo <= p /\ p <= s.hi /\ Differs(doc, p)
        /\ s.dir = "next" => s.cursor <= p /\ Agree(doc, s.cursor, p - 1)
        /\ s.dir = "prev" => p <= s.cursor /\ Agree(doc, p + 1, s.cursor)
        /\ report' = DiffReport(s, p)
    BY <1>9, <2>1 DEF p
  <2>3. ReportInv'
    BY <1>1, <2>2, JumpFound
  <2> QED BY <1>5, <2>1, <2>3
<1>10. CASE /\ step.found = None /\ step.next \in Nat /\ step.next # None
            /\ s.lo <= step.next /\ step.next <= s.hi
            /\ s.dir = "next" => s.cursor <= step.next /\ Agree(doc, s.cursor, step.next - 1)
            /\ s.dir = "prev" => step.next <= s.cursor /\ Agree(doc, step.next + 1, s.cursor)
  <2> DEFINE c == step.next
  <2>1. next = [s EXCEPT !.cursor = c]
    BY <1>10
  <2> HIDE DEF c, next
  <2>2. /\ c \in Nat /\ s.lo <= c /\ c <= s.hi
        /\ s.dir = "next" => s.cursor <= c /\ Agree(doc, s.cursor, c - 1)
        /\ s.dir = "prev" => c <= s.cursor /\ Agree(doc, c + 1, s.cursor)
    BY <1>10 DEF c
  <2>3. DiffScan([s EXCEPT !.cursor = c], doc)
    BY <1>1, <2>2, JumpContinues
  <2>4. DiffScan(next, doc)
    BY <2>1, <2>3
  <2>5. scan' = next /\ report' = report
    BY <1>3, <1>7, <1>10, <2>4
  <2> QED BY <1>4, <1>6, <2>4, <2>5
<1>11. CASE /\ step.found = None /\ step.next = None
            /\ s.dir = "next" => Agree(doc, s.cursor, s.hi)
            /\ s.dir = "prev" => Agree(doc, s.lo, s.cursor)
  <2>1. next = Wrapped(s, Len(doc))
    BY <1>11
  <2> HIDE DEF next
  <2>2. CASE s.wrapped
    <3>1. next = None
      BY <2>1, <2>2 DEF Wrapped
    <3>2. scan' = None /\ report' = DiffReport(s, None)
      BY <1>3, <1>11, <3>1
    <3>3. ReportInv'
      BY <1>1, <1>11, <2>2, <3>2, JumpEnds
    <3> QED BY <1>5, <3>2, <3>3
  <2>3. CASE ~ s.wrapped
    <3>1. DiffScan(Wrapped(s, Len(doc)), doc)
      BY <1>1, <1>11, <2>3, JumpWraps
    <3>2. DiffScan(next, doc)
      BY <2>1, <3>1
    <3>3. scan' = next /\ report' = report
      BY <1>3, <1>7, <1>11, <3>2
    <3> QED BY <1>4, <1>6, <3>2, <3>3
  <2> QED BY <1>2, <2>2, <2>3
<1> QED BY <1>8, <1>9, <1>10, <1>11

\* A jump begins where nothing has been looked at.
LEMMA JumpStarts ==
    ASSUME LoopInv, doc # << >>, NEW dir \in {"next", "prev"}, NEW origin \in 0 .. Len(doc)
    PROVE  DiffScan(NewDiffScan(dir, origin, Len(doc)), doc)
<1> USE DEF LoopInv
<1> DEFINE n == Len(doc)
           t == NewDiffScan(dir, origin, n)
<1>1. doc \in Seq(Cells) /\ doc \in Documents
  BY DocumentIs DEF DocInv
<1>2. n \in Nat /\ n # 0 /\ origin \in Nat /\ origin <= n /\ n - 1 \in Nat
  BY <1>1
<1>3. \A a, b \in Int : b < a => Agree(doc, a, b)
  BY DEF Agree
<1> SUFFICES DiffScan(t, doc)
  OBVIOUS
<1>4. ASSUME NEW lo \in Nat, NEW hi \in Nat, NEW w \in BOOLEAN, NEW c \in Nat,
             t = [kind |-> "diff", dir |-> dir, of |-> doc, origin |-> origin,
                  lo |-> lo, hi |-> hi, wrapped |-> w, cursor |-> c]
      PROVE  /\ t \in DiffScans /\ t.of = doc /\ t.dir = dir /\ t.origin = origin
             /\ t.lo = lo /\ t.hi = hi /\ t.wrapped = w /\ t.cursor = c
  <2> HIDE DEF t
  <2> QED BY <1>1, <1>2, <1>4 DEF DiffScans
<1>5. CASE dir = "next" /\ origin + 1 <= n - 1
  <2>1. t = [kind |-> "diff", dir |-> dir, of |-> doc, origin |-> origin,
             lo |-> origin + 1, hi |-> n - 1, wrapped |-> FALSE, cursor |-> origin + 1]
    <3>1. ~ (origin + 1 > n - 1)
      BY <1>2, <1>5
    <3> QED BY <1>2, <1>5, <3>1 DEF NewDiffScan
  <2> HIDE DEF t, n
  <2>2. /\ t \in DiffScans /\ t.of = doc /\ t.dir = dir /\ t.origin = origin
        /\ t.lo = origin + 1 /\ t.hi = n - 1 /\ t.wrapped = FALSE /\ t.cursor = origin + 1
    <3>1. origin + 1 \in Nat
      BY <1>2
    <3> QED BY <1>1, <1>2, <2>1, <3>1 DEF DiffScans
  <2>3. Agree(doc, origin + 1, (origin + 1) - 1)
    BY <1>2, <1>3
  <2> QED BY <1>1, <1>2, <1>5, <2>2, <2>3 DEF DiffScan, n
<1>6. CASE dir = "next" /\ origin + 1 > n - 1
  <2>1. t = [kind |-> "diff", dir |-> dir, of |-> doc, origin |-> origin,
             lo |-> 0, hi |-> n - 1, wrapped |-> TRUE, cursor |-> 0]
    BY <1>2, <1>6 DEF NewDiffScan
  <2> HIDE DEF t, n
  <2>2. /\ t \in DiffScans /\ t.of = doc /\ t.dir = dir /\ t.origin = origin
        /\ t.lo = 0 /\ t.hi = n - 1 /\ t.wrapped = TRUE /\ t.cursor = 0
    BY <1>2, <1>4, <2>1
  <2>3. Agree(doc, origin + 1, n - 1) /\ Agree(doc, 0, 0 - 1)
    BY <1>2, <1>3, <1>6
  <2>4. n - 1 = Min2(origin, n - 1)
    BY <1>2, <1>6 DEF Min2
  <2> QED BY <1>1, <1>2, <1>6, <2>2, <2>3, <2>4 DEF DiffScan, n
<1>7. CASE dir = "prev" /\ origin > 0
  <2>1. t = [kind |-> "diff", dir |-> dir, of |-> doc, origin |-> origin,
             lo |-> 0, hi |-> origin - 1, wrapped |-> FALSE, cursor |-> origin - 1]
    BY <1>2, <1>7 DEF NewDiffScan
  <2> HIDE DEF t, n
  <2>2. /\ t \in DiffScans /\ t.of = doc /\ t.dir = dir /\ t.origin = origin
        /\ t.lo = 0 /\ t.hi = origin - 1 /\ t.wrapped = FALSE /\ t.cursor = origin - 1
    <3>1. origin - 1 \in Nat
      BY <1>2, <1>7
    <3> QED BY <1>1, <1>2, <2>1, <3>1 DEF DiffScans
  <2>3. Agree(doc, (origin - 1) + 1, origin - 1)
    BY <1>2, <1>3
  <2> QED BY <1>1, <1>2, <1>7, <2>2, <2>3 DEF DiffScan, n
<1>8. CASE dir = "prev" /\ origin = 0
  <2>1. t = [kind |-> "diff", dir |-> dir, of |-> doc, origin |-> origin,
             lo |-> 0, hi |-> 0, wrapped |-> FALSE, cursor |-> 0]
    BY <1>2, <1>8 DEF NewDiffScan
  <2> HIDE DEF t, n
  <2>2. /\ t \in DiffScans /\ t.of = doc /\ t.dir = dir /\ t.origin = origin
        /\ t.lo = 0 /\ t.hi = 0 /\ t.wrapped = FALSE /\ t.cursor = 0
    BY <1>2, <1>4, <2>1
  <2> QED BY <1>1, <1>2, <1>8, <2>2 DEF DiffScan, n
<1> QED BY <1>2, <1>5, <1>6, <1>7, <1>8

\* :diff next and :diff prev.
LEMMA JumpKeeps == LoopInv /\ JumpToMismatch => LoopInv'
<1> SUFFICES ASSUME LoopInv, JumpToMismatch PROVE LoopInv'
  OBVIOUS
<1>1. UNCHANGED docVars /\ UNCHANGED jobVars /\ panel' = panel /\ doc # << >>
  BY DEF JumpToMismatch, StartsScan
<1>2. PICK dir \in {"next", "prev"}, origin \in 0 .. Len(doc) :
          AdvanceDiff(NewDiffScan(dir, origin, Len(doc)))
  BY DEF JumpToMismatch
<1>3. DiffScan(NewDiffScan(dir, origin, Len(doc)), doc)
  BY <1>1, JumpStarts
<1>4. ScanInv' /\ PanelInv' /\ ReportInv'
  BY <1>1, <1>2, <1>3, JumpAdvances
<1> QED BY <1>1, <1>4, DocumentKept, JobsKept DEF LoopInv

\* One turn of the pending scan.
LEMMA ScanTurnKeeps == LoopInv /\ ScanTurn => LoopInv'
<1> SUFFICES ASSUME LoopInv, ScanTurn PROVE LoopInv'
  OBVIOUS
<1>1. UNCHANGED docVars /\ UNCHANGED jobVars
  BY DEF ScanTurn
<1> SUFFICES ScanInv' /\ PanelInv' /\ ReportInv'
  BY <1>1, DocumentKept, JobsKept DEF LoopInv
<1>2. doc' = doc /\ revision' = revision
  BY <1>1 DEF docVars
<1>3. \/ scan = None /\ UNCHANGED <<scan, panel, report>>
      \/ scan # None /\ (ContinueHash \/ ContinueStats \/ ContinueDiff)
      \/ scan # None /\ scan' = None /\ UNCHANGED <<panel, report>>
  BY DEF ScanTurn
<1>4. CASE (scan' = scan \/ scan' = None) /\ UNCHANGED <<panel, report>>
  <2>1. scan' = None \/ scan' = scan
    BY <1>4
  <2>2. ScanInv'
    BY <1>2, <2>1 DEF LoopInv, ScanInv
  <2>3. PanelInv'
    BY <1>2, <1>4 DEF LoopInv, PanelInv
  <2>4. ReportInv'
    BY <1>4 DEF LoopInv, ReportInv, NearestMismatch
  <2> QED BY <2>2, <2>3, <2>4
<1>5. CASE scan # None /\ (ContinueHash \/ ContinueStats \/ ContinueDiff)
  <2>1. HashScan(scan, doc) \/ StatsScan(scan, doc, revision) \/ DiffScan(scan, doc)
    BY <1>5 DEF LoopInv, ScanInv
  <2>2. CASE HashScan(scan, doc)
    <3>1. scan.kind = "hash"
      BY <2>2 DEF HashScan
    <3>2. ContinueHash
      BY <1>5, <3>1 DEF ContinueStats, ContinueDiff
    <3> QED BY <1>1, <2>2, <3>2, HashContinues
  <2>3. CASE StatsScan(scan, doc, revision)
    <3>1. scan.kind = "stats"
      BY <2>3 DEF StatsScan
    <3>2. ContinueStats
      BY <1>5, <3>1 DEF ContinueHash, ContinueDiff
    <3> QED BY <1>1, <2>3, <3>2, StatsContinue
  <2>4. CASE DiffScan(scan, doc)
    <3>1. scan.kind = "diff"
      BY <2>4 DEF DiffScan, DiffScans
    <3>2. ContinueDiff
      BY <1>5, <3>1 DEF ContinueHash, ContinueStats
    <3>3. AdvanceDiff(scan) /\ panel' = panel
      BY <3>2 DEF ContinueDiff
    <3> QED BY <1>1, <2>4, <3>3, JumpAdvances
  <2> QED BY <2>1, <2>2, <2>3, <2>4
<1> QED BY <1>3, <1>4, <1>5

\* The invariant is inductive.
LEMMA LoopStep == LoopInv /\ [Next]_vars => LoopInv'
<1>1. LoopInv /\ Event => LoopInv'
  BY TurnsKeep, OverwriteKeeps, DeletesKeep, InsertHighKeeps, CommitInsertKeeps,
     DropInsertKeeps, UndoKeeps, RedoKeeps, WriteKeeps, AnalyzeKeeps, AnalyzeOffKeeps,
     HashKeeps, StatsKeeps, JumpKeeps DEF Event
<1>2. LoopInv /\ Loop => LoopInv'
  BY <1>1, DrainOneKeeps, TurnsKeep, ScanTurnKeeps DEF Loop
<1>3. LoopInv /\ Stopped => LoopInv'
  BY TurnsKeep DEF Stopped
<1>4. LoopInv /\ UNCHANGED vars => LoopInv'
  BY TurnsKeep
<1> QED BY <1>2, <1>3, <1>4, WorkerAnswersKeeps DEF Next

\* It holds of every reachable state: the run loop and its worker keep it in
\* every interleaving (run_loop, drain_background_results).
THEOREM LoopInvariant == Spec => []LoopInv
<1>1. Init => LoopInv
  BY LoopInit
<1>2. LoopInv /\ [Next]_vars => LoopInv'
  BY LoopStep
<1> QED BY <1>1, <1>2, PTL DEF Spec

\* A snapshot shown as current was computed from the bytes the document has
\* now, and one whose offsets are still used from a document with the same
\* cells, however edits, undos, saves, restarts and late answers interleave
\* (handle_sagitta_result, mark_sagitta_validity).
THEOREM AnalysisIsHonest == Spec => []AnalysisHonest
<1>1. LoopInv => AnalysisHonest
  BY DEF LoopInv, AnalysisInv, Faithful, AnalysisHonest
<1> QED BY <1>1, LoopInvariant, PTL

\* A hash or statistics scan that is cut into steps reports what one pass over
\* its range would (continue_hash_scan, continue_stats_scan).
THEOREM ScansAreExact == Spec => []ScansExact
<1>1. LoopInv => ScansExact
  BY DEF LoopInv, ReportInv, PanelInv, ScansExact
<1> QED BY <1>1, LoopInvariant, PTL

\* :diff next and :diff prev report the first mismatch in visiting order, or
\* none only when there is none (continue_diff_mismatch_scan).
THEOREM JumpsAreNearest == Spec => []NearestMismatch
<1>1. LoopInv => NearestMismatch
  BY DEF LoopInv, ReportInv
<1> QED BY <1>1, LoopInvariant, PTL

=============================================================================
