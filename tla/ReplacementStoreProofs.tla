------------------------ MODULE ReplacementStoreProofs ------------------------
(***************************************************************************)
(* Proofs about the replacement store, for every length of the sources,    *)
(* every pattern, run and key.  Its ranges never overlap and fit their     *)
(* source and their bytes; and clears, fills, pastes and xors change the   *)
(* cells of their run as they should and no other cell, whatever the store *)
(* held there before; an undo patch brings back what its run showed; and   *)
(* the counts and queries agree with the lookups.                          *)
(*                                                                         *)
(* The argument has three layers.  The lookup by the last range that       *)
(* starts before a cell finds the one range that covers it, as ranges are  *)
(* apart.  Every update of ranges clears a run, which cuts the ranges it   *)
(* meets, and lays new ranges into it.  The xors over runs that hold edits *)
(* walk along the run, one maximal stretch after another.                  *)
(***************************************************************************)
EXTENDS ReplacementStore, FiniteSetTheorems, TLAPS

\* The facts about the natural numbers and about recursion that are stated
\* in DocumentProofs, and that need nothing of its constants.
Order == INSTANCE DocumentProofs WITH Radix <- 1, None <- -1

\* A function can be defined by recursion up to n ...
LEMMA Recursion ==
    ASSUME NEW X, NEW base \in X, NEW n \in Nat, NEW step \in [1..n -> [X -> X]]
    PROVE  \E f \in [0..n -> X] : Order!Repeats(f, n, base, step)
BY Order!Recursion

\* ... and what holds up to a number and goes on to the next holds up to n.
LEMMA UpTo ==
    ASSUME NEW n \in Nat, NEW T, 0 \in T, \A i \in 1..n : i - 1 \in T => i \in T
    PROVE  \A i \in 0..n : i \in T
BY Order!UpTo

(***************************************************************************)
(* Definitions                                                             *)
(***************************************************************************)

Partial(S, V) == UNION {[D -> V] : D \in SUBSET S}

Held == [len : Nat \ {0}, value : Values]

Stores == [sparse : Partial(Cells, Byte \cup {None}), ranges : Partial(Cells, Held)]

\* The value has a byte for each of n cells, and is no xor with nothing.
Fits(value, n) ==
    /\ value \in Values
    /\ value # XorWith({})
    /\ value.kind = "Pattern" => value.bytes # <<>>
    /\ value.kind = "Bytes" => value.phase + n <= Len(value.bytes)

Placed(st) ==
    \A k \in DOMAIN st.ranges :
        /\ k[2] + st.ranges[k].len <= Length[k[1]]
        /\ Fits(st.ranges[k].value, st.ranges[k].len)

Apart(st) ==
    \A j, k \in DOMAIN st.ranges :
        j # k => Covered(st, j) \cap Covered(st, k) = {}

Anchored(st) ==
    \A c \in DOMAIN st.sparse :
        st.sparse[c] = None => \E k \in DOMAIN st.ranges : c \in Covered(st, k)

(* The inductive invariant, of any store. *)
Sound(st) == st \in Stores /\ Placed(st) /\ Apart(st) /\ Anchored(st)

(* What range k shows in cell c, and what a cell shows without its edit. *)
Shown(st, k, c) == ValueAt(st.ranges[k].value, c[2] - k[2], Base[c])

Under(st, c) ==
    LET ks == {k \in DOMAIN st.ranges : c \in Covered(st, k)}
    IN  IF ks = {} THEN None ELSE Shown(st, CHOOSE k \in ks : TRUE, c)

(***************************************************************************)
(* Cells and runs                                                          *)
(***************************************************************************)

LEMMA CellIs ==
    ASSUME NEW c \in Cells
    PROVE  /\ c[1] \in Sources /\ c[2] \in Nat /\ c[2] < Length[c[1]]
           /\ Length[c[1]] \in Nat /\ c = <<c[1], c[2]>>
<1>1. PICK s \in Sources : c \in {s} \X (0..(Length[s] - 1))
  BY DEF Cells
<1>2. Length[s] \in Nat
  BY StoreConstants
<1> QED BY <1>1, <1>2

LEMMA IsCell ==
    ASSUME NEW s \in Sources, NEW n \in Nat, n < Length[s]
    PROVE  <<s, n>> \in Cells
<1>1. Length[s] \in Nat
  BY StoreConstants
<1> QED BY <1>1 DEF Cells

LEMMA RunIs ==
    ASSUME NEW run \in AllRuns
    PROVE  /\ run.source \in Sources /\ run.start \in Nat /\ run.end \in Nat
           /\ run.start < run.end /\ run.end <= Length[run.source]
           /\ Length[run.source] \in Nat
           /\ run = Run(run.source, run.start, run.end)
<1>1. PICK s \in Sources : run \in RunsOf(s)
  BY DEF AllRuns, Sources
<1>2. Length[s] \in Nat
  BY StoreConstants
<1>3. PICK r \in (0..Length[s]) \X (0..Length[s]) :
          r[1] < r[2] /\ run = Run(s, r[1], r[2])
  BY <1>1 DEF RunsOf
<1>4. run.source = s /\ run.start = r[1] /\ run.end = r[2]
  BY <1>3 DEF Run
<1> QED BY <1>2, <1>3, <1>4

LEMMA IsRun ==
    ASSUME NEW s \in Sources, NEW a \in Nat, NEW b \in Nat, a < b, b <= Length[s]
    PROVE  /\ Run(s, a, b) \in AllRuns
           /\ Run(s, a, b).source = s /\ Run(s, a, b).start = a /\ Run(s, a, b).end = b
<1>1. Length[s] \in Nat
  BY StoreConstants
<1>2. <<a, b>> \in {p \in (0..Length[s]) \X (0..Length[s]) : p[1] < p[2]}
  BY <1>1
<1>3. Run(s, a, b) \in RunsOf(s)
  BY <1>2 DEF RunsOf
<1>4. Run(s, a, b) \in AllRuns
  BY <1>3 DEF AllRuns, Sources
<1> QED BY <1>4 DEF Run

LEMMA InRun ==
    ASSUME NEW run \in AllRuns
    PROVE  /\ Within(run) \subseteq Cells
           /\ \A c \in Cells : c \in Within(run) <=>
                  c[1] = run.source /\ run.start <= c[2] /\ c[2] < run.end
<1>1. /\ run.source \in Sources /\ run.start \in Nat /\ run.end \in Nat
      /\ run.start < run.end /\ run.end <= Length[run.source]
      /\ Length[run.source] \in Nat
  BY RunIs
<1>2. ASSUME NEW c \in Within(run) PROVE c \in Cells
  <2>1. PICK n \in run.start..(run.end - 1) : c = <<run.source, n>>
    BY DEF Within
  <2>2. n \in Nat /\ n < Length[run.source]
    BY <1>1
  <2> QED BY <1>1, <2>1, <2>2, IsCell
<1>3. ASSUME NEW c \in Cells
      PROVE  c \in Within(run) <=>
                  c[1] = run.source /\ run.start <= c[2] /\ c[2] < run.end
  <2>1. c[2] \in Nat /\ c = <<c[1], c[2]>>
    BY CellIs
  <2>2. c \in Within(run) <=> c[1] = run.source /\ c[2] \in run.start..(run.end - 1)
    BY <2>1 DEF Within
  <2> QED BY <1>1, <2>1, <2>2
<1> QED BY <1>2, <1>3

(***************************************************************************)
(* Lookups                                                                 *)
(***************************************************************************)

LEMMA StoreIs ==
    ASSUME NEW st \in Stores
    PROVE  /\ DOMAIN st.sparse \subseteq Cells /\ DOMAIN st.ranges \subseteq Cells
           /\ \A c \in DOMAIN st.sparse : st.sparse[c] \in Byte \cup {None}
           /\ \A k \in DOMAIN st.ranges : st.ranges[k] \in Held
           /\ st = [sparse |-> st.sparse, ranges |-> st.ranges]
           /\ st.sparse \in [DOMAIN st.sparse -> Byte \cup {None}]
           /\ st.ranges \in [DOMAIN st.ranges -> Held]
<1>1. /\ st.sparse \in Partial(Cells, Byte \cup {None})
      /\ st.ranges \in Partial(Cells, Held)
      /\ st = [sparse |-> st.sparse, ranges |-> st.ranges]
  BY DEF Stores
<1>2. PICK D \in SUBSET Cells : st.sparse \in [D -> Byte \cup {None}]
  BY <1>1 DEF Partial
<1>3. PICK E \in SUBSET Cells : st.ranges \in [E -> Held]
  BY <1>1 DEF Partial
<1> QED BY <1>1, <1>2, <1>3

LEMMA IsStore ==
    ASSUME NEW sparse, NEW ranges,
           DOMAIN sparse \subseteq Cells, DOMAIN ranges \subseteq Cells,
           sparse \in [DOMAIN sparse -> Byte \cup {None}],
           ranges \in [DOMAIN ranges -> Held]
    PROVE  [sparse |-> sparse, ranges |-> ranges] \in Stores
<1>1. sparse \in Partial(Cells, Byte \cup {None})
  BY DEF Partial
<1>2. ranges \in Partial(Cells, Held)
  BY DEF Partial
<1> QED BY <1>1, <1>2 DEF Stores

LEMMA RangeIs ==
    ASSUME NEW st \in Stores, Placed(st), NEW k \in DOMAIN st.ranges
    PROVE  /\ k \in Cells /\ k[1] \in Sources /\ k[2] \in Nat
           /\ st.ranges[k].len \in Nat \ {0} /\ st.ranges[k].value \in Values
           /\ EndOf(st, k) = k[2] + st.ranges[k].len
           /\ EndOf(st, k) \in Nat /\ k[2] < EndOf(st, k)
           /\ EndOf(st, k) <= Length[k[1]]
           /\ Fits(st.ranges[k].value, st.ranges[k].len)
           /\ Run(k[1], k[2], EndOf(st, k)) \in AllRuns
           /\ Covered(st, k) \subseteq Cells /\ k \in Covered(st, k)
           /\ \A c \in Cells : c \in Covered(st, k) <=>
                  c[1] = k[1] /\ k[2] <= c[2] /\ c[2] < EndOf(st, k)
<1>1. k \in Cells /\ st.ranges[k] \in Held
  BY StoreIs
<1>2. k[1] \in Sources /\ k[2] \in Nat /\ Length[k[1]] \in Nat
  BY <1>1, CellIs
<1>3. st.ranges[k].len \in Nat \ {0} /\ st.ranges[k].value \in Values
  BY <1>1 DEF Held
<1>4. /\ k[2] + st.ranges[k].len <= Length[k[1]]
      /\ Fits(st.ranges[k].value, st.ranges[k].len)
  BY DEF Placed
<1>5. /\ EndOf(st, k) = k[2] + st.ranges[k].len /\ EndOf(st, k) \in Nat
      /\ k[2] < EndOf(st, k) /\ EndOf(st, k) <= Length[k[1]]
  BY <1>2, <1>3, <1>4 DEF EndOf
<1> DEFINE e == EndOf(st, k)
           r == Run(k[1], k[2], e)
<1>6. /\ r \in AllRuns /\ r.source = k[1] /\ r.start = k[2] /\ r.end = e
  <2> HIDE DEF r, e
  <2>1. e \in Nat /\ k[2] < e /\ e <= Length[k[1]]
    BY <1>5 DEF e
  <2> QED BY <1>2, <2>1, IsRun DEF r
<1>7. Covered(st, k) = Within(r)
  BY DEF Covered
<1>8. /\ Within(r) \subseteq Cells
      /\ \A c \in Cells : c \in Within(r) <=>
             c[1] = k[1] /\ k[2] <= c[2] /\ c[2] < e
  <2> HIDE DEF r, e
  <2> QED BY <1>6, InRun
<1>9. k \in Covered(st, k)
  BY <1>1, <1>2, <1>5, <1>7, <1>8
<1> QED BY <1>1, <1>2, <1>3, <1>4, <1>5, <1>6, <1>7, <1>8, <1>9

\* No two ranges cover the same cell.
LEMMA OneRange ==
    ASSUME NEW st, Apart(st), NEW j \in DOMAIN st.ranges, NEW k \in DOMAIN st.ranges,
           NEW c, c \in Covered(st, j), c \in Covered(st, k)
    PROVE  j = k
BY DEF Apart

\* The last range that starts by a cell is the one that covers it, if any does.
LEMMA ContainingIs ==
    ASSUME NEW st, Sound(st), NEW c \in Cells
    PROVE  RangeContaining(st, c) = {k \in DOMAIN st.ranges : c \in Covered(st, k)}
<1>0. st \in Stores /\ Placed(st) /\ Apart(st)
  BY DEF Sound
<1>1. ASSUME NEW k \in DOMAIN st.ranges, c \in Covered(st, k)
      PROVE  k \in LastBy(st, c)
  <2>1. /\ k \in Cells /\ k[1] \in Sources /\ k[2] \in Nat /\ c[1] = k[1]
        /\ k[2] <= c[2] /\ c[2] < EndOf(st, k) /\ EndOf(st, k) \in Nat
    BY <1>0, <1>1, RangeIs
  <2>2. Leq(k, c)
    BY <2>1 DEF Leq
  <2>3. ASSUME NEW j \in DOMAIN st.ranges, Leq(j, c) PROVE Leq(j, k)
    <3>1. /\ j \in Cells /\ j[1] \in Sources /\ j[2] \in Nat /\ j \in Covered(st, j)
      BY <1>0, RangeIs
    <3>0. c[1] \in Sources /\ c[2] \in Nat
      BY CellIs
    <3>2. SUFFICES ASSUME ~ Leq(j, k) PROVE FALSE
      OBVIOUS
    <3>3. j[1] = k[1] /\ k[2] < j[2] /\ j[2] < EndOf(st, k)
      BY <2>1, <2>3, <3>0, <3>1, <3>2 DEF Leq, Sources, Original, Add
    <3>4. j \in Covered(st, k)
      <4>1. k[2] <= j[2]
        BY <2>1, <3>1, <3>3
      <4> QED BY <1>0, <3>1, <3>3, <4>1, RangeIs
    <3>5. j = k
      BY <1>0, <3>1, <3>4, OneRange
    <3> QED BY <2>1, <3>3, <3>5
  <2> QED BY <2>2, <2>3 DEF LastBy
<1> QED BY <1>1 DEF RangeContaining, LastBy

\* The ranges found for a run are those that overlap it.
LEMMA OverlappingIs ==
    ASSUME NEW st, Sound(st), NEW run \in AllRuns
    PROVE  OverlappingKeys(st, run) = {k \in DOMAIN st.ranges : Overlaps(st, k, run)}
<1>0. st \in Stores /\ Placed(st) /\ Apart(st)
  BY DEF Sound
<1> DEFINE first == <<run.source, run.start>>
<1>1. /\ run.source \in Sources /\ run.start \in Nat /\ run.end \in Nat
      /\ run.start < run.end /\ run.end <= Length[run.source]
      /\ Length[run.source] \in Nat
  BY RunIs
<1>2. first \in Cells /\ first[1] = run.source /\ first[2] = run.start
  <2>1. run.start < Length[run.source]
    BY <1>1
  <2> QED BY <1>1, <2>1, IsCell
<1>3. ASSUME NEW k \in DOMAIN st.ranges, Overlaps(st, k, run), ~ (run.start <= k[2])
      PROVE  k \in LastBy(st, first)
  <2>1. k[2] \in Nat /\ EndOf(st, k) \in Nat
    BY <1>0, RangeIs
  <2>2. k[1] = run.source /\ k[2] <= run.start /\ run.start < EndOf(st, k)
    BY <1>1, <1>3, <2>1 DEF Overlaps
  <2> HIDE DEF first
  <2>3. first \in Covered(st, k)
    BY <1>0, <1>2, <2>2, RangeIs
  <2>4. k \in RangeContaining(st, first)
    BY <1>2, <2>3, ContainingIs
  <2> QED BY <2>4 DEF RangeContaining
<1> QED BY <1>3 DEF OverlappingKeys, LastBy

\* What lies under a cell's own edit is what the one range over it shows.
LEMMA UnderRange ==
    ASSUME NEW st, Apart(st), NEW k \in DOMAIN st.ranges, NEW c, c \in Covered(st, k)
    PROVE  Under(st, c) = Shown(st, k, c)
<1> DEFINE ks == {j \in DOMAIN st.ranges : c \in Covered(st, j)}
<1>1. k \in ks /\ \A j \in ks : j = k
  BY OneRange
<1>2. (CHOOSE j \in ks : TRUE) = k
  <2> HIDE DEF ks
  <2> QED BY <1>1
<1>3. ks # {}
  BY <1>1
<1>4. Under(st, c) = IF ks = {} THEN None ELSE Shown(st, CHOOSE j \in ks : TRUE, c)
  BY Zenon DEF Under
<1> HIDE DEF ks
<1> QED BY <1>2, <1>3, <1>4

LEMMA UnderNone ==
    ASSUME NEW st, NEW c, \A k \in DOMAIN st.ranges : c \notin Covered(st, k)
    PROVE  Under(st, c) = None
<1>1. {k \in DOMAIN st.ranges : c \in Covered(st, k)} = {}
  OBVIOUS
<1> QED BY <1>1, Zenon DEF Under

LEMMA GetIs ==
    ASSUME NEW st, Sound(st), NEW c \in Cells
    PROVE  Get(st, c) = IF c \in DOMAIN st.sparse THEN st.sparse[c] ELSE Under(st, c)
<1> DEFINE ks == {k \in DOMAIN st.ranges : c \in Covered(st, k)}
           under == RangeContaining(st, c)
           Top(u, below) == IF c \in DOMAIN st.sparse THEN st.sparse[c]
                            ELSE IF u = {} THEN None ELSE below
<1>1. under = ks
  BY ContainingIs
<1>2. Get(st, c) = Top(under, Shown(st, CHOOSE k \in under : TRUE, c))
  BY Zenon DEF Get, Shown
<1>3. Under(st, c) = IF ks = {} THEN None ELSE Shown(st, CHOOSE k \in ks : TRUE, c)
  BY Zenon DEF Under
<1> HIDE DEF ks, under
<1>4. Get(st, c) = Top(ks, Shown(st, CHOOSE k \in ks : TRUE, c))
  BY <1>1, <1>2, Zenon
<1> QED BY <1>3, <1>4, Zenon

(***************************************************************************)
(* Remainders                                                              *)
(***************************************************************************)

LEMMA ModHas ==
    ASSUME NEW n \in Nat \ {0}, NEW a \in Nat
    PROVE  a % n \in 0..(n - 1) /\ a \div n \in Nat /\ a = n * (a \div n) + (a % n)
BY SMTT(30)

LEMMA Mul ==
    ASSUME NEW n \in Nat \ {0}, NEW p \in Int, NEW q \in Int, p < q
    PROVE  n * p + n <= n * q
<1>1. q - p \in Nat /\ q - p >= 1 
  OBVIOUS
<1>2. n * (q - p) >= n
  BY <1>1, SMTT(30)
<1>3. n * (q - p) = n * q - n * p
  BY SMTT(30)
<1> QED BY <1>2, <1>3

\* A number has only one remainder.
LEMMA ModIs ==
    ASSUME NEW n \in Nat \ {0}, NEW a \in Nat, NEW q \in Int, NEW r \in 0..(n - 1),
           a = n * q + r
    PROVE  a % n = r
<1> DEFINE d == a \div n
           m == a % n
<1>1. d \in Nat /\ m \in 0..(n - 1) /\ a = n * d + m
  BY ModHas
<1> HIDE DEF d, m
<1>2. d = q
  <2>1. CASE d < q
    <3>1. n * d + n <= n * q
      BY <1>1, <2>1, Mul
    <3> DEFINE x == n * d
               y == n * q
    <3>2. x \in Int /\ y \in Int
      BY <1>1
    <3>3. x + n <= y /\ a = x + m /\ a = y + r
      BY <1>1, <3>1
    <3> HIDE DEF x, y
    <3> QED BY <1>1, <3>2, <3>3
  <2>2. CASE q < d
    <3>1. n * q + n <= n * d
      BY <1>1, <2>2, Mul
    <3> DEFINE x == n * d
               y == n * q
    <3>2. x \in Int /\ y \in Int
      BY <1>1
    <3>3. y + n <= x /\ a = x + m /\ a = y + r
      BY <1>1, <3>1
    <3> HIDE DEF x, y
    <3> QED BY <1>1, <3>2, <3>3
  <2> QED BY <1>1, <2>1, <2>2
<1> DEFINE x == n * d
<1>3. x \in Int /\ a = x + m /\ a = x + r
  BY <1>1, <1>2
<1> HIDE DEF x
<1> QED BY <1>1, <1>3 DEF m

\* A shift may be taken modulo the period.
LEMMA ModAdd ==
    ASSUME NEW n \in Nat \ {0}, NEW a \in Nat, NEW b \in Nat
    PROVE  ((a % n) + b) % n = (a + b) % n
<1> DEFINE d == a \div n
           m == a % n
           c == m + b
           e == c \div n
           r == c % n
<1>1. d \in Nat /\ m \in 0..(n - 1) /\ a = n * d + m
  BY ModHas
<1>2. c \in Nat
  BY <1>1
<1> HIDE DEF d, m, c
<1>3. e \in Nat /\ r \in 0..(n - 1) /\ c = n * e + r
  BY <1>2, ModHas
<1> HIDE DEF e, r
<1>4. a + b = n * (d + e) + r
  <2> DEFINE x == n * d
             y == n * e
  <2>1. x \in Int /\ y \in Int /\ n * (d + e) = x + y
    BY <1>1, <1>3
  <2>2. a = x + m /\ c = y + r /\ c = m + b
    BY <1>1, <1>3 DEF c
  <2> HIDE DEF x, y
  <2> QED BY <1>1, <1>2, <1>3, <2>1, <2>2
<1>5. (a + b) % n = r
  <2>1. d + e \in Int /\ a + b \in Nat
    BY <1>1, <1>3
  <2> QED BY <1>3, <1>4, <2>1, ModIs
<1> QED BY <1>5 DEF r, c, m

(***************************************************************************)
(* Values of ranges                                                        *)
(***************************************************************************)

Repeated == [kind : {"Pattern"}, bytes : Seq(Byte), phase : Nat]
Written == [kind : {"Bytes"}, bytes : Seq(Byte), phase : Nat]
Keyed == [kind : {"Xor"}, key : Byte]

LEMMA KindIs ==
    ASSUME NEW value \in Values
    PROVE  \/ value \in Repeated /\ value.kind = "Pattern"
           \/ value \in Written /\ value.kind = "Bytes"
           \/ value \in Keyed /\ value.kind = "Xor"
BY DEF Values, Repeated, Written, Keyed

\* Only a xor with the empty key is the value that ranges do not hold.
LEMMA NotNull ==
    ASSUME NEW value, value.kind # "Xor" \/ value.key # {}
    PROVE  value # XorWith({})
BY DEF XorWith

LEMMA XorIsByte ==
    ASSUME NEW a \in Byte, NEW b \in Byte
    PROVE  Xor(a, b) \in Byte
BY DEF Byte, Xor

LEMMA XorTwice ==
    ASSUME NEW a \in Byte, NEW b \in Byte, NEW c \in Byte
    PROVE  Xor(a, Xor(b, c)) = Xor(Xor(a, b), c)
BY DEF Byte, Xor

LEMMA XorNone ==
    ASSUME NEW a \in Byte
    PROVE  Xor(a, {}) = a
BY DEF Byte, Xor

LEMMA AtPattern ==
    ASSUME NEW value \in Repeated, value.bytes # <<>>, NEW i \in Nat, NEW b
    PROVE  /\ Len(value.bytes) \in Nat \ {0}
           /\ (value.phase + i) % Len(value.bytes) \in 0..(Len(value.bytes) - 1)
           /\ ValueAt(value, i, b)
                = value.bytes[((value.phase + i) % Len(value.bytes)) + 1]
           /\ ValueAt(value, i, b) \in Byte
<1>1. value.kind = "Pattern" /\ value.bytes \in Seq(Byte) /\ value.phase \in Nat
  BY DEF Repeated
<1>2. Len(value.bytes) \in Nat \ {0}
  BY <1>1
<1>3. ValueAt(value, i, b) = value.bytes[((value.phase + i) % Len(value.bytes)) + 1]
  BY <1>1 DEF ValueAt
<1> DEFINE n == Len(value.bytes)
           m == (value.phase + i) % n
<1>4. m \in 0..(n - 1)
  <2>1. value.phase + i \in Nat
    BY <1>1
  <2> HIDE DEF n
  <2> QED BY <1>2, <2>1, ModHas DEF n
<1>5. value.bytes[m + 1] \in Byte
  <2> HIDE DEF m
  <2>1. m + 1 \in 1..n
    BY <1>2, <1>4
  <2> QED BY <1>1, <2>1
<1> QED BY <1>2, <1>3, <1>4, <1>5

LEMMA AtBytes ==
    ASSUME NEW value \in Written, NEW i \in Nat, NEW b,
           value.phase + i < Len(value.bytes)
    PROVE  /\ ValueAt(value, i, b) = value.bytes[value.phase + i + 1]
           /\ ValueAt(value, i, b) \in Byte
<1>1. value.kind = "Bytes" /\ value.bytes \in Seq(Byte) /\ value.phase \in Nat
  BY DEF Written
<1>2. ValueAt(value, i, b) = value.bytes[value.phase + i + 1]
  BY <1>1 DEF ValueAt
<1> QED BY <1>1, <1>2

LEMMA AtXor ==
    ASSUME NEW value \in Keyed, NEW i, NEW b
    PROVE  ValueAt(value, i, b) = Xor(b, value.key)
BY DEF ValueAt, Keyed

LEMMA FitsLess ==
    ASSUME NEW value, NEW n \in Nat, NEW m \in Nat, m <= n, Fits(value, n)
    PROVE  Fits(value, m)
<1>1. value.kind = "Bytes" => value.phase \in Nat /\ Len(value.bytes) \in Nat
  BY KindIs DEF Fits, Written, Values
<1> QED BY <1>1 DEF Fits

LEMMA ValueIsByte ==
    ASSUME NEW value, NEW n \in Nat, Fits(value, n), NEW i \in Nat, i < n, NEW b \in Byte
    PROVE  ValueAt(value, i, b) \in Byte
<1>1. value \in Values
  BY DEF Fits
<1>2. CASE value \in Repeated /\ value.kind = "Pattern"
  BY <1>2, AtPattern DEF Fits
<1>3. CASE value \in Written /\ value.kind = "Bytes"
  <2>1. value.phase \in Nat /\ Len(value.bytes) \in Nat
    BY <1>3 DEF Written
  <2>2. value.phase + i < Len(value.bytes)
    BY <1>3, <2>1 DEF Fits
  <2> QED BY <1>3, <2>2, AtBytes
<1>4. CASE value \in Keyed /\ value.kind = "Xor"
  <2>1. value.key \in Byte
    BY <1>4 DEF Keyed
  <2> QED BY <1>4, <2>1, AtXor, XorIsByte
<1> QED BY <1>1, <1>2, <1>3, <1>4, KindIs

\* What is left of a range, from delta on, shows the bytes it showed.
LEMMA ShiftedFits ==
    ASSUME NEW value, NEW n \in Nat, Fits(value, n),
           NEW delta \in Nat, NEW m \in Nat, delta + m <= n
    PROVE  /\ Fits(Shifted(value, delta), m)
           /\ \A i \in Nat : \A b : i < m =>
                  ValueAt(Shifted(value, delta), i, b) = ValueAt(value, delta + i, b)
<1> DEFINE new == Shifted(value, delta)
<1>1. value \in Values
  BY DEF Fits
<1>2. CASE value \in Repeated /\ value.kind = "Pattern"
  <2> DEFINE l == Len(value.bytes)
  <2>1. /\ value.bytes \in Seq(Byte) /\ value.bytes # <<>> /\ value.phase \in Nat
        /\ l \in Nat \ {0}
    BY <1>2 DEF Fits, Repeated
  <2>2. new = [value EXCEPT !.phase = (value.phase + delta) % l]
    BY <1>2 DEF Shifted
  <2> DEFINE ph == (value.phase + delta) % l
  <2>3. ph \in Nat
    <3> HIDE DEF l
    <3>1. value.phase + delta \in Nat
      BY <2>1
    <3>2. (value.phase + delta) % l \in 0..(l - 1)
      BY <2>1, <3>1, ModHas
    <3> QED BY <2>1, <3>2
  <2>4. /\ new \in Repeated /\ new.bytes = value.bytes /\ new.phase = ph
        /\ new.kind = "Pattern"
    <3> HIDE DEF ph, l, new
    <3> QED BY <1>2, <2>1, <2>2, <2>3 DEF Repeated, ph
  <2>5. new \in Values
    BY <2>4 DEF Repeated, Values
  <2>6. ASSUME NEW i \in Nat, NEW b
        PROVE  ValueAt(new, i, b) = ValueAt(value, delta + i, b)
    <3> HIDE DEF new
    <3>1. ValueAt(new, i, b) = value.bytes[((ph + i) % l) + 1]
      BY <2>1, <2>4, AtPattern
    <3>2. delta + i \in Nat
      OBVIOUS
    <3>3. ValueAt(value, delta + i, b) = value.bytes[((value.phase + (delta + i)) % l) + 1]
      BY <1>2, <2>1, <3>2, AtPattern
    <3>4. (ph + i) % l = ((value.phase + delta) + i) % l
      <4>1. value.phase + delta \in Nat
        BY <2>1
      <4> HIDE DEF l
      <4> QED BY <2>1, <4>1, ModAdd
    <3>5. (value.phase + delta) + i = value.phase + (delta + i)
      BY <2>1
    <3> HIDE DEF l, ph
    <3> QED BY <3>1, <3>3, <3>4, <3>5
  <2>7. Fits(new, m)
    <3> HIDE DEF new
    <3> QED BY <2>1, <2>4, <2>5, NotNull DEF Fits
  <2> HIDE DEF ph, l
  <2> QED BY <2>6, <2>7 DEF new
<1>3. CASE value \in Written /\ value.kind = "Bytes"
  <2>1. /\ value.phase \in Nat /\ value.bytes \in Seq(Byte) /\ Len(value.bytes) \in Nat
        /\ value.phase + n <= Len(value.bytes)
    BY <1>3 DEF Written, Fits
  <2>2. new = [value EXCEPT !.phase = value.phase + delta]
    BY <1>3 DEF Shifted
  <2>3. /\ new \in Written /\ new.bytes = value.bytes
        /\ new.phase = value.phase + delta /\ new.kind = "Bytes"
    <3> HIDE DEF new
    <3> QED BY <1>3, <2>1, <2>2 DEF Written
  <2> HIDE DEF new
  <2>4. new \in Values
    BY <2>3 DEF Written, Values
  <2>5. ASSUME NEW i \in Nat, NEW b, i < m
        PROVE  ValueAt(new, i, b) = ValueAt(value, delta + i, b)
    <3>1. new.phase + i < Len(new.bytes)
      BY <2>1, <2>3, <2>5
    <3>2. ValueAt(new, i, b) = value.bytes[value.phase + delta + i + 1]
      BY <2>3, <3>1, AtBytes
    <3>3. delta + i \in Nat /\ value.phase + (delta + i) < Len(value.bytes)
      BY <2>1, <2>5
    <3>4. ValueAt(value, delta + i, b) = value.bytes[value.phase + (delta + i) + 1]
      BY <1>3, <3>3, AtBytes
    <3>5. value.phase + delta + i + 1 = value.phase + (delta + i) + 1
      BY <2>1
    <3> QED BY <3>2, <3>4, <3>5
  <2>6. Fits(new, m)
    <3>1. new.phase + m <= Len(new.bytes)
      BY <2>1, <2>3
    <3> QED BY <2>3, <2>4, <3>1, NotNull DEF Fits
  <2> QED BY <2>5, <2>6 DEF new
<1>4. CASE value \in Keyed /\ value.kind = "Xor"
  <2>1. new = value
    BY <1>4 DEF Shifted
  <2>2. \A i, b : ValueAt(value, i, b) = Xor(b, value.key)
    BY <1>4, AtXor
  <2>3. Fits(value, m)
    BY <1>4, <1>1 DEF Fits
  <2> QED BY <2>1, <2>2, <2>3
<1> QED BY <1>1, <1>2, <1>3, <1>4, KindIs

LEMMA ShiftedAt ==
    ASSUME NEW value, NEW n \in Nat, Fits(value, n),
           NEW delta \in Nat, NEW i \in Nat, delta + i < n, NEW b
    PROVE  ValueAt(Shifted(value, delta), i, b) = ValueAt(value, delta + i, b)
<1> DEFINE m == n - delta
<1>1. m \in Nat /\ delta + m <= n /\ i < m
  OBVIOUS
<1> HIDE DEF m
<1> QED BY <1>1, ShiftedFits

LEMMA SubSeqIs ==
    ASSUME NEW s \in Seq(Byte), NEW a \in Nat, NEW m \in Nat, a + m <= Len(s)
    PROVE  /\ SubSeq(s, a + 1, a + m) \in Seq(Byte)
           /\ Len(SubSeq(s, a + 1, a + m)) = m
           /\ \A i \in 1..m : SubSeq(s, a + 1, a + m)[i] = s[a + i]
<1>1. Len(s) \in Nat /\ (a + m) - (a + 1) + 1 = m
  OBVIOUS
<1>2. \A i \in (a + 1)..(a + m) : i \in 1..Len(s) /\ s[i] \in Byte
  BY <1>1
<1>3. SubSeq(s, a + 1, a + m) = [i \in 1..m |-> s[a + i]]
  <2>1. SubSeq(s, a + 1, a + m)
          = [i \in 1..((a + m) - (a + 1) + 1) |-> s[(a + 1) + i - 1]]
    BY <1>1
  <2>2. \A i \in 1..m : (a + 1) + i - 1 = a + i
    OBVIOUS
  <2> QED BY <1>1, <2>1, <2>2
<1>4. \A i \in 1..m : s[a + i] \in Byte
  BY <1>2
<1> QED BY <1>3, <1>4

LEMMA XorEachIs ==
    ASSUME NEW bytes \in Seq(Byte), NEW key \in Byte
    PROVE  /\ XorEach(bytes, key) \in Seq(Byte)
           /\ Len(XorEach(bytes, key)) = Len(bytes)
           /\ \A i \in 1..Len(bytes) : XorEach(bytes, key)[i] = Xor(bytes[i], key)
<1>1. DOMAIN bytes = 1..Len(bytes) /\ Len(bytes) \in Nat
  OBVIOUS
<1>2. \A i \in 1..Len(bytes) : Xor(bytes[i], key) \in Byte
  BY XorIsByte
<1>3. XorEach(bytes, key) = [i \in 1..Len(bytes) |-> Xor(bytes[i], key)]
  BY <1>1 DEF XorEach
<1> QED BY <1>1, <1>2, <1>3

\* A range that is xored shows its bytes xored.
LEMMA ComposedFits ==
    ASSUME NEW value, NEW n \in Nat, Fits(value, n), NEW key \in Byte,
           NEW delta \in Nat, NEW m \in Nat, delta + m <= n
    PROVE  /\ Composed(value, delta, m, key) # XorWith({}) =>
                  Fits(Composed(value, delta, m, key), m)
           /\ \A i \in Nat, b \in Byte : i < m =>
                  ValueAt(Composed(value, delta, m, key), i, b)
                    = Xor(ValueAt(value, delta + i, b), key)
<1> DEFINE new == Composed(value, delta, m, key)
<1>1. value \in Values
  BY DEF Fits
<1>2. CASE value \in Repeated /\ value.kind = "Pattern"
  <2> DEFINE l == Len(value.bytes)
             flip == [value EXCEPT !.bytes = XorEach(value.bytes, key)]
  <2>1. /\ value.bytes \in Seq(Byte) /\ value.bytes # <<>> /\ value.phase \in Nat
        /\ l \in Nat \ {0}
    BY <1>2 DEF Fits, Repeated
  <2>2. new = Shifted(flip, delta)
    BY <1>2 DEF Composed
  <2>3. /\ XorEach(value.bytes, key) \in Seq(Byte) /\ Len(XorEach(value.bytes, key)) = l
        /\ \A i \in 1..l : XorEach(value.bytes, key)[i] = Xor(value.bytes[i], key)
    BY <2>1, XorEachIs
  <2>4. /\ flip \in Repeated /\ flip.kind = "Pattern" /\ flip.phase = value.phase
        /\ flip.bytes = XorEach(value.bytes, key)
    BY <1>2, <2>3 DEF Repeated
  <2> HIDE DEF flip, l
  <2>5. flip.bytes # <<>>
    <3>1. Len(flip.bytes) # 0
      BY <2>1, <2>3, <2>4
    <3> QED BY <3>1
  <2>6. Fits(flip, n)
    <3>1. flip \in Values
      BY <2>4 DEF Repeated, Values
    <3> QED BY <2>4, <2>5, <3>1, NotNull DEF Fits
  <2>7. ASSUME NEW j \in Nat, NEW b
        PROVE  ValueAt(flip, j, b) = Xor(ValueAt(value, j, b), key)
    <3> DEFINE r == (value.phase + j) % l
    <3>1. ValueAt(value, j, b) = value.bytes[r + 1] /\ r \in 0..(l - 1)
      BY <1>2, <2>1, AtPattern DEF l
    <3>2. ValueAt(flip, j, b) = flip.bytes[r + 1]
      BY <2>3, <2>4, <2>5, AtPattern DEF l
    <3> HIDE DEF r
    <3>3. r + 1 \in 1..l
      BY <2>1, <3>1
    <3> QED BY <2>3, <2>4, <3>1, <3>2, <3>3
  <2>8. /\ Fits(new, m)
        /\ \A i \in Nat : \A b : i < m => ValueAt(new, i, b) = ValueAt(flip, delta + i, b)
    <3> HIDE DEF new
    <3> QED BY <2>2, <2>6, ShiftedFits
  <2> HIDE DEF new
  <2>9. \A i \in Nat : delta + i \in Nat
    OBVIOUS
  <2> QED BY <2>7, <2>8, <2>9 DEF new
<1>3. CASE value \in Written /\ value.kind = "Bytes"
  <2> DEFINE from == value.phase + delta + 1
             to == value.phase + delta + m
             part == SubSeq(value.bytes, from, to)
  <2>1. /\ value.phase \in Nat /\ value.bytes \in Seq(Byte) /\ Len(value.bytes) \in Nat
        /\ value.phase + n <= Len(value.bytes)
    BY <1>3 DEF Written, Fits
  <2>2. new = Bytes(XorEach(part, key), 0)
    BY <1>3 DEF Composed
  <2>3. /\ part \in Seq(Byte) /\ Len(part) = m
        /\ \A i \in 1..m : part[i] = value.bytes[value.phase + delta + i]
    <3> DEFINE a == value.phase + delta
    <3>1. a \in Nat /\ a + m <= Len(value.bytes)
      <4> HIDE DEF part
      <4> QED BY <2>1
    <3>2. part = SubSeq(value.bytes, a + 1, a + m)
      OBVIOUS
    <3> HIDE DEF part, a
    <3>3. /\ part \in Seq(Byte) /\ Len(part) = m
          /\ \A i \in 1..m : part[i] = value.bytes[a + i]
      BY <2>1, <3>1, <3>2, SubSeqIs
    <3> QED BY <3>3 DEF a
  <2>4. /\ XorEach(part, key) \in Seq(Byte) /\ Len(XorEach(part, key)) = m
        /\ \A i \in 1..m : XorEach(part, key)[i] = Xor(part[i], key)
    <3> HIDE DEF part
    <3> QED BY <2>3, XorEachIs
  <2>5. /\ new \in Written /\ new.kind = "Bytes" /\ new.phase = 0
        /\ new.bytes = XorEach(part, key)
    BY <2>2, <2>4 DEF Bytes, Written
  <2> HIDE DEF new, part, from, to
  <2>6. Fits(new, m)
    <3>1. new \in Values
      BY <2>5 DEF Written, Values
    <3> QED BY <2>4, <2>5, <3>1, NotNull DEF Fits
  <2>7. ASSUME NEW i \in Nat, NEW b \in Byte, i < m
        PROVE  ValueAt(new, i, b) = Xor(ValueAt(value, delta + i, b), key)
    <3>1. ValueAt(new, i, b) = XorEach(part, key)[i + 1]
      BY <2>4, <2>5, <2>7, AtBytes
    <3>2. i + 1 \in 1..m
      BY <2>7
    <3>3. ValueAt(new, i, b) = Xor(value.bytes[value.phase + delta + (i + 1)], key)
      BY <2>3, <2>4, <3>1, <3>2
    <3>4. delta + i \in Nat /\ value.phase + (delta + i) < Len(value.bytes)
      BY <2>1, <2>7
    <3>5. ValueAt(value, delta + i, b) = value.bytes[value.phase + (delta + i) + 1]
      BY <1>3, <3>4, AtBytes
    <3>6. value.phase + delta + (i + 1) = value.phase + (delta + i) + 1
      BY <2>1
    <3> QED BY <3>3, <3>5, <3>6, Zenon
  <2> QED BY <2>6, <2>7 DEF new
<1>4. CASE value \in Keyed /\ value.kind = "Xor"
  <2>1. value.key \in Byte
    BY <1>4 DEF Keyed
  <2>2. new = XorWith(Xor(value.key, key))
    BY <1>4 DEF Composed
  <2>3. /\ new \in Keyed /\ new.kind = "Xor" /\ new.key = Xor(value.key, key)
    BY <2>1, <2>2, XorIsByte DEF Keyed, XorWith
  <2> HIDE DEF new
  <2>4. new # XorWith({}) => Fits(new, m)
    BY <2>3 DEF Fits, Values, Keyed
  <2>5. ASSUME NEW i \in Nat, NEW b \in Byte
        PROVE  ValueAt(new, i, b) = Xor(ValueAt(value, delta + i, b), key)
    <3>1. ValueAt(new, i, b) = Xor(b, Xor(value.key, key))
      BY <2>3, AtXor
    <3>2. ValueAt(value, delta + i, b) = Xor(b, value.key)
      BY <1>4, AtXor
    <3> QED BY <2>1, <3>1, <3>2, XorTwice
  <2> QED BY <2>4, <2>5 DEF new
<1> QED BY <1>1, <1>2, <1>3, <1>4, KindIs

(***************************************************************************)
(* Clearing a run                                                          *)
(***************************************************************************)

(* The ranges that clearing a run leaves alone, cuts on the right, and cuts *)
(* on the left, which then start after the run.                            *)
Kept(st, run) == {k \in DOMAIN st.ranges : ~ Overlaps(st, k, run)}
Lefts(st, run) == {k \in DOMAIN st.ranges : Overlaps(st, k, run) /\ k[2] < run.start}
Tails(st, run) ==
    {k \in DOMAIN st.ranges : Overlaps(st, k, run) /\ run.end < EndOf(st, k)}
After(run) == <<run.source, run.end>>

TailOf(st, run, k) ==
    [len |-> EndOf(st, k) - run.end,
     value |-> Shifted(st.ranges[k].value, run.end - k[2])]

\* Range j of store new is a part of range k of store st.
CutFrom(st, k, new, j) ==
    /\ k \in DOMAIN st.ranges
    /\ j[1] = k[1] /\ k[2] <= j[2] /\ EndOf(new, j) <= EndOf(st, k)
    /\ \A c \in Covered(new, j) : Shown(new, j, c) = Shown(st, k, c)

\* A range that reaches past a run covers the cell after it.
LEMMA TailIs ==
    ASSUME NEW st, Sound(st), NEW run \in AllRuns, NEW k \in Tails(st, run)
    PROVE  /\ After(run) \in Cells /\ After(run)[1] = run.source
           /\ After(run)[2] = run.end /\ k[1] = run.source
           /\ k[2] < run.end /\ run.end < EndOf(st, k)
           /\ After(run) \in Covered(st, k)
           /\ \A j \in Tails(st, run) : j = k
           /\ After(run) \notin Kept(st, run) \cup Lefts(st, run)
<1>0. st \in Stores /\ Placed(st) /\ Apart(st)
  BY DEF Sound
<1>1. /\ run.source \in Sources /\ run.start \in Nat /\ run.end \in Nat
      /\ run.start < run.end /\ Length[run.source] \in Nat
  BY RunIs
<1>2. ASSUME NEW j \in Tails(st, run)
      PROVE  /\ j \in DOMAIN st.ranges /\ j[1] = run.source /\ j[2] \in Nat
             /\ j[2] < run.end /\ run.end < EndOf(st, j)
             /\ EndOf(st, j) \in Nat /\ EndOf(st, j) <= Length[run.source]
  <2>1. j \in DOMAIN st.ranges /\ Overlaps(st, j, run) /\ run.end < EndOf(st, j)
    BY DEF Tails
  <2> QED BY <1>0, <2>1, RangeIs DEF Overlaps
<1>3. After(run) \in Cells /\ After(run)[1] = run.source /\ After(run)[2] = run.end
  <2>1. run.end < Length[run.source]
    BY <1>1, <1>2
  <2> QED BY <1>1, <2>1, IsCell DEF After
<1> DEFINE a == After(run)
<1> HIDE DEF a
<1>4. ASSUME NEW j \in Tails(st, run) PROVE a \in Covered(st, j)
  <2>1. j[2] <= a[2] /\ a[2] < EndOf(st, j) /\ a[1] = j[1] /\ a \in Cells
    BY <1>1, <1>2, <1>3 DEF a
  <2> QED BY <1>0, <1>2, <2>1, RangeIs
<1>5. \A j \in Tails(st, run) : j = k
  BY <1>0, <1>2, <1>4, OneRange
<1>6. ASSUME a \in DOMAIN st.ranges PROVE a = k
  <2>1. a \in Covered(st, a)
    BY <1>0, <1>6, RangeIs
  <2> QED BY <1>0, <1>2, <1>4, <1>6, <2>1, OneRange
<1>7. a # k
  BY <1>1, <1>2, <1>3 DEF a
<1>8. a \notin Kept(st, run) \cup Lefts(st, run)
  BY <1>6, <1>7 DEF Kept, Lefts
<1> QED BY <1>2, <1>3, <1>4, <1>5, <1>8 DEF a

\* What clearing a run makes of the ranges.
LEMMA ClearIs ==
    ASSUME NEW st, Sound(st), NEW run \in AllRuns
    PROVE  LET new == ClearSourceRange(st, run)
           IN  /\ new = [sparse |-> Without(st.sparse, Within(run)), ranges |-> new.ranges]
               /\ new.ranges = [k \in DOMAIN new.ranges |-> new.ranges[k]]
               /\ DOMAIN new.ranges = (Kept(st, run) \cup Lefts(st, run))
                                        \cup {After(run) : k \in Tails(st, run)}
               /\ \A k \in Kept(st, run) : new.ranges[k] = st.ranges[k]
               /\ \A k \in Lefts(st, run) :
                    new.ranges[k] = [len |-> run.start - k[2], value |-> st.ranges[k].value]
               /\ \A k \in Tails(st, run) : new.ranges[After(run)] = TailOf(st, run, k)
<1>0. st \in Stores
  BY DEF Sound
<1> DEFINE D == DOMAIN st.ranges
           keys == OverlappingKeys(st, run)
           left == {k \in keys : k[2] < run.start}
           tails == {k \in keys : run.end < EndOf(st, k)}
           stay == [k \in (D \ keys) \cup left |->
                      IF k \in left THEN [st.ranges[k] EXCEPT !.len = run.start - k[2]]
                      ELSE st.ranges[k]]
           last == [t \in {After(run) : k \in tails} |->
                      LET k == CHOOSE k \in tails : TRUE IN TailOf(st, run, k)]
           new == ClearSourceRange(st, run)
<1>1. new = [sparse |-> Without(st.sparse, Within(run)), ranges |-> Over(stay, last)]
  BY Zenon DEF ClearSourceRange, TailOf, After
<1>2. keys = {k \in D : Overlaps(st, k, run)}
  BY OverlappingIs
<1>3. D \ keys = Kept(st, run) /\ left = Lefts(st, run) /\ tails = Tails(st, run)
  <2> HIDE DEF keys
  <2> QED BY <1>2 DEF Kept, Lefts, Tails
<1> HIDE DEF keys, left, tails, new
<1>4. DOMAIN stay = Kept(st, run) \cup Lefts(st, run)
  BY <1>3
<1>5. DOMAIN last = {After(run) : k \in Tails(st, run)}
  BY <1>3
<1>6. /\ DOMAIN Over(stay, last) = DOMAIN stay \cup DOMAIN last
      /\ \A k \in DOMAIN stay : k \notin DOMAIN last => Over(stay, last)[k] = stay[k]
      /\ \A k \in DOMAIN last : Over(stay, last)[k] = last[k]
  <2> HIDE DEF stay, last
  <2> QED BY DEF Over
<1>7. \A k \in DOMAIN stay : k \notin DOMAIN last
  BY <1>4, <1>5, TailIs
<1>8. ASSUME NEW k \in Kept(st, run) PROVE stay[k] = st.ranges[k]
  BY <1>3 DEF left, Kept, Lefts
<1>9. ASSUME NEW k \in Lefts(st, run)
      PROVE  stay[k] = [len |-> run.start - k[2], value |-> st.ranges[k].value]
  <2>1. st.ranges[k] \in Held
    BY <1>0, StoreIs DEF Lefts
  <2>2. stay[k] = [st.ranges[k] EXCEPT !.len = run.start - k[2]]
    BY <1>3
  <2> HIDE DEF stay
  <2> QED BY <2>1, <2>2 DEF Held
<1>10. ASSUME NEW k \in Tails(st, run) PROVE last[After(run)] = TailOf(st, run, k)
  <2>1. (CHOOSE j \in tails : TRUE) = k
    <3>1. k \in tails /\ \A j \in tails : j = k
      BY <1>3, TailIs
    <3> QED BY <3>1
  <2>2. After(run) \in {After(run) : j \in tails}
    BY <1>3
  <2>3. last[After(run)] = TailOf(st, run, CHOOSE j \in tails : TRUE)
    BY <2>2
  <2> HIDE DEF last
  <2> QED BY <2>1, <2>3
<1>11. new.ranges = Over(stay, last)
  BY <1>1
<1>12. new = [sparse |-> Without(st.sparse, Within(run)), ranges |-> new.ranges]
  BY <1>1, <1>11
<1> HIDE DEF stay, last
<1>17. new.ranges = [k \in DOMAIN new.ranges |-> new.ranges[k]]
  BY <1>11 DEF Over
<1>13. DOMAIN new.ranges = (Kept(st, run) \cup Lefts(st, run))
                                        \cup {After(run) : k \in Tails(st, run)}
  BY <1>4, <1>5, <1>6, <1>11
<1>14. \A k \in Kept(st, run) : new.ranges[k] = st.ranges[k]
  BY <1>4, <1>6, <1>7, <1>8, <1>11
<1>15. \A k \in Lefts(st, run) :
          new.ranges[k] = [len |-> run.start - k[2], value |-> st.ranges[k].value]
  BY <1>4, <1>6, <1>7, <1>9, <1>11
<1>16. \A k \in Tails(st, run) : new.ranges[After(run)] = TailOf(st, run, k)
  BY <1>5, <1>6, <1>10, <1>11
<1> QED BY <1>12, <1>13, <1>14, <1>15, <1>16, <1>17, Zenon DEF new

\* Every range that a clear leaves is a part of a range that was there.
LEMMA ClearPlaces ==
    ASSUME NEW st, Sound(st), NEW run \in AllRuns
    PROVE  LET new == ClearSourceRange(st, run)
           IN  \A j \in DOMAIN new.ranges :
                  /\ j \in Cells /\ new.ranges[j] \in Held
                  /\ j[2] + new.ranges[j].len <= Length[j[1]]
                  /\ Fits(new.ranges[j].value, new.ranges[j].len)
<1> DEFINE new == ClearSourceRange(st, run)
<1>0. st \in Stores /\ Placed(st) /\ Apart(st)
  BY DEF Sound
<1>1. /\ run.source \in Sources /\ run.start \in Nat /\ run.end \in Nat
      /\ run.start < run.end
  BY RunIs
<1>2. /\ DOMAIN new.ranges = (Kept(st, run) \cup Lefts(st, run))
                               \cup {After(run) : k \in Tails(st, run)}
      /\ \A k \in Kept(st, run) : new.ranges[k] = st.ranges[k]
      /\ \A k \in Lefts(st, run) :
            new.ranges[k] = [len |-> run.start - k[2], value |-> st.ranges[k].value]
      /\ \A k \in Tails(st, run) : new.ranges[After(run)] = TailOf(st, run, k)
  BY ClearIs, Zenon
<1> HIDE DEF new
<1> SUFFICES ASSUME NEW j \in DOMAIN new.ranges
             PROVE  /\ j \in Cells /\ new.ranges[j] \in Held
                    /\ j[2] + new.ranges[j].len <= Length[j[1]]
                    /\ Fits(new.ranges[j].value, new.ranges[j].len)
  BY Zenon DEF new
<1>3. CASE j \in Kept(st, run)
  <2>1. j \in DOMAIN st.ranges /\ new.ranges[j] = st.ranges[j]
    BY <1>2, <1>3 DEF Kept
  <2>2. j \in Cells /\ st.ranges[j] \in Held
    BY <1>0, <2>1, StoreIs
  <2>3. /\ j[2] + st.ranges[j].len <= Length[j[1]]
        /\ Fits(st.ranges[j].value, st.ranges[j].len)
    BY <1>0, <2>1 DEF Placed
  <2> QED BY <2>1, <2>2, <2>3
<1>4. CASE j \in Lefts(st, run)
  <2> DEFINE old == st.ranges[j]
             l == run.start - j[2]
  <2>1. j \in DOMAIN st.ranges /\ Overlaps(st, j, run) /\ j[2] < run.start
    BY <1>4 DEF Lefts
  <2>2. /\ j \in Cells /\ j[1] \in Sources /\ j[2] \in Nat /\ EndOf(st, j) = j[2] + old.len
        /\ EndOf(st, j) <= Length[j[1]] /\ old.len \in Nat /\ Fits(old.value, old.len)
        /\ Length[j[1]] \in Nat /\ old.value \in Values
    BY <1>0, <2>1, RangeIs, CellIs
  <2>3. run.start < EndOf(st, j)
    BY <2>1 DEF Overlaps
  <2>4. new.ranges[j] = [len |-> l, value |-> old.value]
    BY <1>2, <1>4
  <2>5. l \in Nat \ {0} /\ l <= old.len /\ j[2] + l <= Length[j[1]]
    <3> HIDE DEF old
    <3> QED BY <1>1, <2>1, <2>2, <2>3
  <2> HIDE DEF l, old
  <2>6. Fits(old.value, l)
    BY <2>2, <2>5, FitsLess
  <2>7. [len |-> l, value |-> old.value] \in Held
    BY <2>2, <2>5 DEF Held
  <2> QED BY <2>2, <2>4, <2>5, <2>6, <2>7
<1>5. CASE j \in {After(run) : k \in Tails(st, run)}
  <2>1. PICK k \in Tails(st, run) : j = After(run)
    BY <1>5
  <2> DEFINE old == st.ranges[k]
             l == EndOf(st, k) - run.end
             delta == run.end - k[2]
             rest == Shifted(old.value, delta)
  <2>2. k \in DOMAIN st.ranges
    BY DEF Tails
  <2>3. /\ j \in Cells /\ j[1] = run.source /\ j[2] = run.end /\ k[1] = run.source
        /\ k[2] < run.end /\ run.end < EndOf(st, k)
    BY <2>1, TailIs
  <2>4. /\ k[2] \in Nat /\ EndOf(st, k) = k[2] + old.len
        /\ EndOf(st, k) <= Length[k[1]] /\ EndOf(st, k) \in Nat
        /\ old.len \in Nat /\ Fits(old.value, old.len) /\ Length[j[1]] \in Nat
    BY <1>0, <2>2, <2>3, RangeIs, CellIs
  <2>5. new.ranges[j] = [len |-> l, value |-> rest]
    BY <1>2, <2>1 DEF TailOf
  <2>6. l \in Nat \ {0} /\ delta \in Nat /\ delta + l = old.len /\ j[2] + l <= Length[j[1]]
    <3> HIDE DEF old
    <3> QED BY <1>1, <2>3, <2>4
  <2> HIDE DEF l, delta, old
  <2>7. Fits(rest, l)
    BY <2>4, <2>6, ShiftedFits
  <2> HIDE DEF rest
  <2>8. [len |-> l, value |-> rest] \in Held
    BY <2>6, <2>7 DEF Held, Fits
  <2> QED BY <2>3, <2>5, <2>6, <2>7, <2>8
<1> QED BY <1>2, <1>3, <1>4, <1>5

LEMMA ClearStores ==
    ASSUME NEW st, Sound(st), NEW run \in AllRuns
    PROVE  ClearSourceRange(st, run) \in Stores /\ Placed(ClearSourceRange(st, run))
<1> DEFINE new == ClearSourceRange(st, run)
           sparse == Without(st.sparse, Within(run))
           ranges == new.ranges
<1>0. st \in Stores
  BY DEF Sound
<1>1. /\ new = [sparse |-> sparse, ranges |-> ranges]
      /\ ranges = [k \in DOMAIN ranges |-> ranges[k]]
  BY ClearIs, Zenon
<1>2. \A j \in DOMAIN ranges :
          /\ j \in Cells /\ ranges[j] \in Held
          /\ j[2] + ranges[j].len <= Length[j[1]]
          /\ Fits(ranges[j].value, ranges[j].len)
  BY ClearPlaces, Zenon
<1>3. /\ DOMAIN sparse \subseteq Cells /\ sparse \in [DOMAIN sparse -> Byte \cup {None}]
  BY <1>0, StoreIs DEF Without
<1> HIDE DEF new, sparse
<1>4. DOMAIN ranges \subseteq Cells /\ ranges \in [DOMAIN ranges -> Held]
  BY <1>1, <1>2
<1>5. new \in Stores
  BY <1>1, <1>3, <1>4, IsStore
<1>6. Placed(new)
  BY <1>2 DEF Placed
<1> QED BY <1>5, <1>6 DEF new

\* Which range each range that a clear leaves comes from.
LEMMA ClearCuts ==
    ASSUME NEW st, Sound(st), NEW run \in AllRuns
    PROVE  LET new == ClearSourceRange(st, run)
           IN  \A j \in DOMAIN new.ranges :
                  /\ Covered(new, j) \cap Within(run) = {}
                  /\ \E k \in DOMAIN st.ranges :
                        /\ CutFrom(st, k, new, j)
                        /\ \/ j = k
                           \/ j = After(run) /\ k \in Tails(st, run)
<1> DEFINE new == ClearSourceRange(st, run)
<1>0. st \in Stores /\ Placed(st) /\ Apart(st)
  BY DEF Sound
<1>a. new \in Stores /\ Placed(new)
  BY ClearStores
<1>1. /\ run.source \in Sources /\ run.start \in Nat /\ run.end \in Nat
      /\ run.start < run.end
  BY RunIs
<1>2. /\ DOMAIN new.ranges = (Kept(st, run) \cup Lefts(st, run))
                               \cup {After(run) : k \in Tails(st, run)}
      /\ \A k \in Kept(st, run) : new.ranges[k] = st.ranges[k]
      /\ \A k \in Lefts(st, run) :
            new.ranges[k] = [len |-> run.start - k[2], value |-> st.ranges[k].value]
      /\ \A k \in Tails(st, run) : new.ranges[After(run)] = TailOf(st, run, k)
  BY ClearIs, Zenon
<1>3. Within(run) \subseteq Cells
  BY InRun
<1> HIDE DEF new
<1> SUFFICES ASSUME NEW j \in DOMAIN new.ranges
             PROVE  /\ Covered(new, j) \cap Within(run) = {}
                    /\ \E k \in DOMAIN st.ranges :
                          /\ CutFrom(st, k, new, j)
                          /\ \/ j = k
                             \/ j = After(run) /\ k \in Tails(st, run)
  BY Zenon DEF new
<1>4. /\ EndOf(new, j) = j[2] + new.ranges[j].len /\ Covered(new, j) \subseteq Cells
      /\ j[2] \in Nat /\ EndOf(new, j) \in Nat
      /\ \A c \in Cells : c \in Covered(new, j) <=>
             c[1] = j[1] /\ j[2] <= c[2] /\ c[2] < EndOf(new, j)
  BY <1>a, RangeIs
<1>5. CASE j \in Kept(st, run)
  <2>1. j \in DOMAIN st.ranges /\ new.ranges[j] = st.ranges[j] /\ ~ Overlaps(st, j, run)
    BY <1>2, <1>5 DEF Kept
  <2>2. EndOf(new, j) = EndOf(st, j)
    BY <2>1 DEF EndOf
  <2>3. \A c : Shown(new, j, c) = Shown(st, j, c)
    BY <2>1 DEF Shown
  <2>4. CutFrom(st, j, new, j)
    BY <1>4, <2>1, <2>2, <2>3 DEF CutFrom
  <2>5. ASSUME NEW c \in Covered(new, j), c \in Within(run) PROVE FALSE
    <3>1. c[2] \in Nat
      BY <1>3, <2>5, CellIs
    <3>2. c[1] = run.source /\ run.start <= c[2] /\ c[2] < run.end
      BY <1>3, <2>5, InRun
    <3>3. c[1] = j[1] /\ j[2] <= c[2] /\ c[2] < EndOf(st, j)
      BY <1>3, <1>4, <2>2, <2>5
    <3> QED BY <1>1, <1>4, <2>1, <2>2, <3>1, <3>2, <3>3 DEF Overlaps
  <2> QED BY <2>1, <2>4, <2>5
<1>6. CASE j \in Lefts(st, run)
  <2>1. j \in DOMAIN st.ranges /\ Overlaps(st, j, run) /\ j[2] < run.start
    BY <1>6 DEF Lefts
  <2>2. EndOf(st, j) \in Nat /\ run.start < EndOf(st, j)
    BY <1>0, <2>1, RangeIs DEF Overlaps
  <2>3. new.ranges[j] = [len |-> run.start - j[2], value |-> st.ranges[j].value]
    BY <1>2, <1>6
  <2>4. EndOf(new, j) = run.start
    BY <1>1, <1>4, <2>3
  <2>5. \A c : Shown(new, j, c) = Shown(st, j, c)
    BY <2>3 DEF Shown
  <2>6. CutFrom(st, j, new, j)
    BY <1>1, <1>4, <2>1, <2>2, <2>4, <2>5 DEF CutFrom
  <2>7. ASSUME NEW c \in Covered(new, j), c \in Within(run) PROVE FALSE
    <3>1. c[2] \in Nat
      BY <1>3, <2>7, CellIs
    <3>2. run.start <= c[2]
      BY <1>3, <2>7, InRun
    <3>3. c[2] < run.start
      BY <1>3, <1>4, <2>4, <2>7
    <3> QED BY <1>1, <3>1, <3>2, <3>3
  <2> QED BY <2>1, <2>6, <2>7
<1>7. CASE j \in {After(run) : k \in Tails(st, run)}
  <2>1. PICK k \in Tails(st, run) : j = After(run)
    BY <1>7
  <2> DEFINE old == st.ranges[k]
             l == EndOf(st, k) - run.end
             delta == run.end - k[2]
             rest == Shifted(old.value, delta)
  <2>2. k \in DOMAIN st.ranges
    BY DEF Tails
  <2>3. /\ j \in Cells /\ j[1] = run.source /\ j[2] = run.end /\ k[1] = run.source
        /\ k[2] < run.end /\ run.end < EndOf(st, k)
    BY <2>1, TailIs
  <2>4. /\ k[2] \in Nat /\ EndOf(st, k) = k[2] + old.len
        /\ EndOf(st, k) \in Nat /\ old.len \in Nat /\ Fits(old.value, old.len)
    BY <1>0, <2>2, RangeIs
  <2>5. new.ranges[j] = [len |-> l, value |-> rest]
    BY <1>2, <2>1 DEF TailOf
  <2>6. l \in Nat \ {0} /\ delta \in Nat /\ delta + l = old.len
    <3> HIDE DEF old
    <3> QED BY <1>1, <2>3, <2>4
  <2>7. EndOf(new, j) = EndOf(st, k)
    <3>1. EndOf(new, j) = run.end + l
      BY <1>4, <2>3, <2>5
    <3> QED BY <1>1, <2>4, <3>1
  <2>8. ASSUME NEW c \in Covered(new, j) PROVE Shown(new, j, c) = Shown(st, k, c)
    <3>1. c[2] \in Nat /\ j[2] <= c[2] /\ c[2] < EndOf(new, j)
      BY <1>4, <2>8, CellIs
    <3> DEFINE i == c[2] - j[2]
    <3>2. i \in Nat /\ i < l /\ delta + i = c[2] - k[2]
      <4> HIDE DEF old
      <4> QED BY <1>1, <2>3, <2>4, <2>7, <3>1
    <3> HIDE DEF i, l, delta, old
    <3>3. ValueAt(rest, i, Base[c]) = ValueAt(old.value, delta + i, Base[c])
      <4>1. delta + i < old.len /\ old.len \in Nat
        BY <2>4, <2>6, <3>2
      <4> QED BY <2>4, <2>6, <3>2, <4>1, ShiftedAt DEF rest
    <3> HIDE DEF rest
    <3>4. Shown(new, j, c) = ValueAt(rest, i, Base[c])
      BY <2>5 DEF Shown, i
    <3>5. Shown(st, k, c) = ValueAt(old.value, c[2] - k[2], Base[c])
      BY Zenon DEF Shown, old
    <3> QED BY <3>2, <3>3, <3>4, <3>5
  <2>9. CutFrom(st, k, new, j)
    <3> HIDE DEF old, l, delta, rest
    <3> QED BY <1>1, <2>2, <2>3, <2>4, <2>7, <2>8 DEF CutFrom
  <2>10. ASSUME NEW c \in Covered(new, j), c \in Within(run) PROVE FALSE
    <3>1. c[2] \in Nat
      BY <1>3, <2>10, CellIs
    <3>2. c[2] < run.end
      BY <1>3, <2>10, InRun
    <3>3. run.end <= c[2]
      BY <1>3, <1>4, <2>3, <2>10
    <3> QED BY <1>1, <3>1, <3>2, <3>3
  <2> QED BY <2>1, <2>2, <2>9, <2>10
<1> QED BY <1>2, <1>5, <1>6, <1>7

LEMMA CutWithin ==
    ASSUME NEW st \in Stores, Placed(st), NEW new \in Stores, Placed(new),
           NEW j \in DOMAIN new.ranges, NEW k, CutFrom(st, k, new, j)
    PROVE  Covered(new, j) \subseteq Covered(st, k)
<1>1. /\ k \in DOMAIN st.ranges /\ j[1] = k[1] /\ k[2] <= j[2]
      /\ EndOf(new, j) <= EndOf(st, k)
  BY DEF CutFrom
<1>2. k[2] \in Nat /\ EndOf(st, k) \in Nat
  BY <1>1, RangeIs
<1>3. j[2] \in Nat /\ EndOf(new, j) \in Nat /\ Covered(new, j) \subseteq Cells
  BY RangeIs
<1> SUFFICES ASSUME NEW c \in Covered(new, j) PROVE c \in Covered(st, k)
  OBVIOUS
<1>4. c \in Cells /\ c[2] \in Nat
  BY <1>3, CellIs
<1>5. c[1] = j[1] /\ j[2] <= c[2] /\ c[2] < EndOf(new, j)
  BY <1>4, RangeIs
<1>6. c[1] = k[1] /\ k[2] <= c[2] /\ c[2] < EndOf(st, k)
  BY <1>1, <1>2, <1>3, <1>4, <1>5
<1> QED BY <1>1, <1>4, <1>6, RangeIs

\* The ranges that a clear leaves do not overlap, the two ends of a range
\* that is cut in two included.
LEMMA ClearApart ==
    ASSUME NEW st, Sound(st), NEW run \in AllRuns
    PROVE  Apart(ClearSourceRange(st, run))
<1> DEFINE new == ClearSourceRange(st, run)
<1>0. st \in Stores /\ Placed(st) /\ Apart(st)
  BY DEF Sound
<1>a. new \in Stores /\ Placed(new)
  BY ClearStores
<1>1. /\ run.source \in Sources /\ run.start \in Nat /\ run.end \in Nat
      /\ run.start < run.end /\ run.end <= Length[run.source]
      /\ Length[run.source] \in Nat
  BY RunIs
<1>2. \A j \in DOMAIN new.ranges :
          /\ Covered(new, j) \cap Within(run) = {}
          /\ \E k \in DOMAIN st.ranges :
                /\ CutFrom(st, k, new, j)
                /\ \/ j = k
                   \/ j = After(run) /\ k \in Tails(st, run)
  BY ClearCuts, Zenon
<1> HIDE DEF new
<1>3. ASSUME NEW k \in DOMAIN new.ranges, k \in Tails(st, run),
             After(run) \in DOMAIN new.ranges
      PROVE  Covered(new, k) \cap Covered(new, After(run)) = {}
  <2> DEFINE a == After(run)
             first == <<run.source, run.start>>
  <2>1. a[1] = run.source /\ a[2] = run.end /\ k[1] = run.source /\ k[2] < run.end
    BY <1>3, TailIs
  <2>2. /\ k \in Cells /\ k[2] \in Nat /\ EndOf(new, k) \in Nat /\ k \in Covered(new, k)
    BY <1>a, RangeIs
  <2>3. first \in Cells /\ first[1] = run.source /\ first[2] = run.start
    <3>1. run.start < Length[run.source]
      BY <1>1
    <3> QED BY <1>1, <3>1, IsCell
  <2>4. first \in Within(run)
    <3> HIDE DEF first
    <3> QED BY <1>1, <2>3, InRun
  <2>5. k[2] < run.start
    <3>1. SUFFICES ASSUME run.start <= k[2] PROVE FALSE
      BY <1>1, <2>2
    <3>2. k \in Within(run)
      BY <2>1, <2>2, <3>1, InRun
    <3> QED BY <1>2, <2>2, <3>2
  <2>6. EndOf(new, k) <= run.start
    <3>1. SUFFICES ASSUME run.start < EndOf(new, k) PROVE FALSE
      BY <1>1, <2>2
    <3> HIDE DEF first
    <3>2. k[2] <= first[2]
      BY <1>1, <2>2, <2>3, <2>5
    <3>3. first \in Covered(new, k)
      BY <1>a, <2>1, <2>3, <3>1, <3>2, RangeIs
    <3> QED BY <1>2, <2>4, <3>3
  <2> HIDE DEF a
  <2>7. ASSUME NEW c \in Covered(new, k), c \in Covered(new, a) PROVE FALSE
    <3>1. c \in Cells /\ c[2] \in Nat
      BY <1>a, RangeIs, CellIs
    <3>2. c[2] < EndOf(new, k)
      BY <1>a, <3>1, RangeIs
    <3>3. a[2] <= c[2]
      BY <1>3, <1>a, <2>7, <3>1, RangeIs DEF a
    <3> QED BY <1>1, <2>1, <2>2, <2>6, <3>1, <3>2, <3>3
  <2> QED BY <2>7 DEF a
<1>4. ASSUME NEW i \in DOMAIN new.ranges, NEW j \in DOMAIN new.ranges, i # j,
             NEW c, c \in Covered(new, i), c \in Covered(new, j)
      PROVE  FALSE
  <2>1. PICK k \in DOMAIN st.ranges :
            /\ CutFrom(st, k, new, i)
            /\ i = k \/ (i = After(run) /\ k \in Tails(st, run))
    BY <1>2
  <2>2. PICK l \in DOMAIN st.ranges :
            /\ CutFrom(st, l, new, j)
            /\ j = l \/ (j = After(run) /\ l \in Tails(st, run))
    BY <1>2
  <2>3. c \in Covered(st, k) /\ c \in Covered(st, l)
    BY <1>0, <1>a, <1>4, <2>1, <2>2, CutWithin
  <2>4. k = l
    BY <1>0, <2>3, OneRange
  <2> QED BY <1>3, <1>4, <2>1, <2>2, <2>4
<1> QED BY <1>4 DEF Apart, new

\* Clearing a run uncovers no cell outside it.
LEMMA ClearKeeps ==
    ASSUME NEW st, Sound(st), NEW run \in AllRuns,
           NEW k \in DOMAIN st.ranges, NEW c \in Covered(st, k), c \notin Within(run)
    PROVE  LET new == ClearSourceRange(st, run)
           IN  \E j \in DOMAIN new.ranges : c \in Covered(new, j)
<1> DEFINE new == ClearSourceRange(st, run)
<1>0. st \in Stores /\ Placed(st) /\ Apart(st)
  BY DEF Sound
<1>a. new \in Stores /\ Placed(new)
  BY ClearStores
<1>1. /\ run.source \in Sources /\ run.start \in Nat /\ run.end \in Nat
      /\ run.start < run.end
  BY RunIs
<1>2. /\ DOMAIN new.ranges = (Kept(st, run) \cup Lefts(st, run))
                               \cup {After(run) : i \in Tails(st, run)}
      /\ \A i \in Kept(st, run) : new.ranges[i] = st.ranges[i]
      /\ \A i \in Lefts(st, run) :
            new.ranges[i] = [len |-> run.start - i[2], value |-> st.ranges[i].value]
      /\ \A i \in Tails(st, run) : new.ranges[After(run)] = TailOf(st, run, i)
  BY ClearIs, Zenon
<1> HIDE DEF new
<1> SUFFICES \E j \in DOMAIN new.ranges : c \in Covered(new, j)
  BY Zenon DEF new
<1>3. /\ c \in Cells /\ c[2] \in Nat
  BY <1>0, RangeIs, CellIs
<1>4. /\ c[1] = k[1] /\ k[2] <= c[2] /\ c[2] < EndOf(st, k)
      /\ k[2] \in Nat /\ EndOf(st, k) \in Nat
  BY <1>0, <1>3, RangeIs
<1>5. CASE ~ Overlaps(st, k, run)
  <2>1. k \in Kept(st, run)
    BY <1>5 DEF Kept
  <2>2. k \in DOMAIN new.ranges /\ new.ranges[k] = st.ranges[k]
    BY <1>2, <2>1
  <2>3. EndOf(new, k) = EndOf(st, k)
    BY <2>2 DEF EndOf
  <2> QED BY <1>a, <1>3, <1>4, <2>2, <2>3, RangeIs
<1>6. CASE Overlaps(st, k, run)
  <2>1. k[1] = run.source /\ (c[2] < run.start \/ run.end <= c[2])
    BY <1>1, <1>3, <1>4, <1>6, InRun DEF Overlaps
  <2>2. CASE c[2] < run.start
    <3>1. k[2] < run.start
      BY <1>1, <1>3, <1>4, <2>2
    <3>2. k \in Lefts(st, run)
      BY <1>6, <3>1 DEF Lefts
    <3>3. /\ k \in DOMAIN new.ranges
          /\ new.ranges[k] = [len |-> run.start - k[2], value |-> st.ranges[k].value]
      BY <1>2, <3>2
    <3>4. EndOf(new, k) = run.start
      BY <1>1, <1>4, <3>3 DEF EndOf
    <3> QED BY <1>a, <1>3, <1>4, <2>2, <3>3, <3>4, RangeIs
  <2>3. CASE run.end <= c[2]
    <3> DEFINE a == After(run)
    <3>1. run.end < EndOf(st, k)
      BY <1>1, <1>3, <1>4, <2>3
    <3>2. k \in Tails(st, run)
      BY <1>6, <3>1 DEF Tails
    <3>3. a \in DOMAIN new.ranges /\ new.ranges[a] = TailOf(st, run, k)
      BY <1>2, <3>2
    <3>4. a[1] = run.source /\ a[2] = run.end
      BY <3>2, TailIs
    <3> HIDE DEF a
    <3>5. EndOf(new, a) = EndOf(st, k)
      <4>1. new.ranges[a].len = EndOf(st, k) - run.end
        BY <3>3 DEF TailOf
      <4>2. EndOf(new, a) = a[2] + new.ranges[a].len
        BY DEF EndOf
      <4> QED BY <1>1, <1>4, <3>4, <4>1, <4>2
    <3>6. c[1] = a[1] /\ a[2] <= c[2] /\ c[2] < EndOf(new, a)
      BY <1>4, <2>1, <2>3, <3>4, <3>5
    <3> QED BY <1>a, <1>3, <3>3, <3>6, RangeIs
  <2> QED BY <2>1, <2>2, <2>3
<1> QED BY <1>5, <1>6

LEMMA ClearUnder ==
    ASSUME NEW st, Sound(st), NEW run \in AllRuns, NEW c \in Cells
    PROVE  Under(ClearSourceRange(st, run), c)
              = IF c \in Within(run) THEN None ELSE Under(st, c)
<1> DEFINE new == ClearSourceRange(st, run)
<1>0. st \in Stores /\ Placed(st) /\ Apart(st)
  BY DEF Sound
<1>a. new \in Stores /\ Placed(new) /\ Apart(new)
  BY ClearStores, ClearApart
<1>1. \A j \in DOMAIN new.ranges :
          /\ Covered(new, j) \cap Within(run) = {}
          /\ \E k \in DOMAIN st.ranges : CutFrom(st, k, new, j)
  BY ClearCuts, Zenon
<1>2. \A k \in DOMAIN st.ranges :
          c \in Covered(st, k) /\ c \notin Within(run) =>
              \E j \in DOMAIN new.ranges : c \in Covered(new, j)
  BY ClearKeeps, Zenon
<1> HIDE DEF new
<1>3. CASE c \in Within(run)
  <2>1. \A j \in DOMAIN new.ranges : c \notin Covered(new, j)
    BY <1>1, <1>3
  <2> QED BY <1>3, <2>1, UnderNone DEF new
<1>4. CASE c \notin Within(run) /\ \E j \in DOMAIN new.ranges : c \in Covered(new, j)
  <2>1. PICK j \in DOMAIN new.ranges : c \in Covered(new, j)
    BY <1>4
  <2>2. PICK k \in DOMAIN st.ranges : CutFrom(st, k, new, j)
    BY <1>1
  <2>3. c \in Covered(st, k)
    BY <1>0, <1>a, <2>1, <2>2, CutWithin
  <2>4. Under(new, c) = Shown(new, j, c) /\ Under(st, c) = Shown(st, k, c)
    BY <1>0, <1>a, <2>1, <2>3, UnderRange
  <2>5. Shown(new, j, c) = Shown(st, k, c)
    BY <2>1, <2>2 DEF CutFrom
  <2> QED BY <1>4, <2>4, <2>5 DEF new
<1>5. CASE c \notin Within(run) /\ ~ \E j \in DOMAIN new.ranges : c \in Covered(new, j)
  <2>1. Under(new, c) = None /\ Under(st, c) = None
    BY <1>2, <1>5, UnderNone
  <2> QED BY <1>5, <2>1 DEF new
<1> QED BY <1>3, <1>4, <1>5

\* Clearing a run keeps the store sound.
LEMMA ClearSound ==
    ASSUME NEW st, Sound(st), NEW run \in AllRuns
    PROVE  /\ Sound(ClearSourceRange(st, run))
           /\ ClearSourceRange(st, run).sparse = Without(st.sparse, Within(run))
           /\ \A j \in DOMAIN ClearSourceRange(st, run).ranges :
                  Covered(ClearSourceRange(st, run), j) \cap Within(run) = {}
<1> DEFINE new == ClearSourceRange(st, run)
<1>a. new \in Stores /\ Placed(new) /\ Apart(new)
  BY ClearStores, ClearApart
<1>1. new.sparse = Without(st.sparse, Within(run))
  BY DEF ClearSourceRange
<1>2. \A j \in DOMAIN new.ranges : Covered(new, j) \cap Within(run) = {}
  BY ClearCuts, Zenon
<1>3. \A k \in DOMAIN st.ranges : \A c \in Covered(st, k) :
          c \notin Within(run) => \E j \in DOMAIN new.ranges : c \in Covered(new, j)
  BY ClearKeeps, Zenon
<1> HIDE DEF new
<1>4. ASSUME NEW c \in DOMAIN new.sparse, new.sparse[c] = None
      PROVE  \E j \in DOMAIN new.ranges : c \in Covered(new, j)
  <2>1. c \in DOMAIN st.sparse /\ c \notin Within(run) /\ st.sparse[c] = None
    BY <1>1, <1>4 DEF Without
  <2>2. PICK k \in DOMAIN st.ranges : c \in Covered(st, k)
    BY <2>1 DEF Sound, Anchored
  <2> QED BY <1>3, <2>1, <2>2
<1>5. Sound(new)
  BY <1>a, <1>4 DEF Sound, Anchored
<1> QED BY <1>1, <1>2, <1>5 DEF new

\* Clearing a run shows the base bytes there and changes no other cell.
LEMMA ClearGet ==
    ASSUME NEW st, Sound(st), NEW run \in AllRuns, NEW c \in Cells
    PROVE  Get(ClearSourceRange(st, run), c)
              = IF c \in Within(run) THEN None ELSE Get(st, c)
<1> DEFINE new == ClearSourceRange(st, run)
<1>1. Sound(new) /\ new.sparse = Without(st.sparse, Within(run))
  BY ClearSound
<1>2. Under(new, c) = IF c \in Within(run) THEN None ELSE Under(st, c)
  BY ClearUnder
<1> HIDE DEF new
<1>3. Get(new, c) = IF c \in DOMAIN new.sparse THEN new.sparse[c] ELSE Under(new, c)
  BY <1>1, GetIs
<1>4. Get(st, c) = IF c \in DOMAIN st.sparse THEN st.sparse[c] ELSE Under(st, c)
  BY GetIs
<1>5. CASE c \in Within(run)
  BY <1>1, <1>2, <1>3, <1>5 DEF Without, new
<1>6. CASE c \notin Within(run)
  BY <1>1, <1>2, <1>3, <1>4, <1>6 DEF Without, new
<1> QED BY <1>5, <1>6

(***************************************************************************)
(* Laying ranges                                                           *)
(***************************************************************************)

(* Values for runs that are apart from each other and from every range. *)
Layable(st, segments) ==
    /\ \A s \in segments :
        s.run \in AllRuns /\ Fits(s.value, s.run.end - s.run.start)
    /\ \A s, t \in segments : s # t => Within(s.run) \cap Within(t.run) = {}
    /\ \A s \in segments : \A k \in DOMAIN st.ranges :
        Within(s.run) \cap Covered(st, k) = {}

First(s) == <<s.run.source, s.run.start>>

LEMMA FirstIs ==
    ASSUME NEW s, s.run \in AllRuns
    PROVE  /\ First(s) \in Cells /\ First(s)[1] = s.run.source
           /\ First(s)[2] = s.run.start /\ First(s) \in Within(s.run)
<1> DEFINE run == s.run
<1>1. /\ run.source \in Sources /\ run.start \in Nat /\ run.end \in Nat
      /\ run.start < run.end /\ run.end <= Length[run.source]
      /\ Length[run.source] \in Nat
  BY RunIs
<1>2. run.start < Length[run.source]
  BY <1>1
<1>3. First(s) \in Cells /\ First(s)[1] = run.source /\ First(s)[2] = run.start
  BY <1>1, <1>2, IsCell DEF First
<1>4. First(s) \in Within(run)
  BY <1>1, <1>3, InRun
<1> QED BY <1>3, <1>4

(* Store new has the ranges of st and one for each segment. *)
Inserts(st, segments, new) ==
    /\ new = [sparse |-> st.sparse, ranges |-> new.ranges]
    /\ new.ranges = [k \in DOMAIN new.ranges |-> new.ranges[k]]
    /\ DOMAIN new.ranges = DOMAIN st.ranges \cup {First(s) : s \in segments}
    /\ \A k \in DOMAIN st.ranges : new.ranges[k] = st.ranges[k]
    /\ \A s \in segments :
        /\ First(s) \notin DOMAIN st.ranges
        /\ new.ranges[First(s)] = [len |-> s.run.end - s.run.start, value |-> s.value]

(* The ranges of new cover and show what those of st and the segments do. *)
Lays(st, segments, new) ==
    /\ new \in Stores /\ Placed(new) /\ new.sparse = st.sparse
    /\ DOMAIN new.ranges = DOMAIN st.ranges \cup {First(s) : s \in segments}
    /\ \A k \in DOMAIN st.ranges :
        /\ Covered(new, k) = Covered(st, k)
        /\ \A c : Shown(new, k, c) = Shown(st, k, c)
    /\ \A s \in segments :
        /\ First(s) \notin DOMAIN st.ranges
        /\ Covered(new, First(s)) = Within(s.run)
        /\ \A c : Shown(new, First(s), c) = ValueAt(s.value, c[2] - s.run.start, Base[c])

LEMMA InsertIs ==
    ASSUME NEW st, Sound(st), NEW segments, Layable(st, segments)
    PROVE  Inserts(st, segments, InsertRanges(st, segments))
<1>0. st \in Stores /\ Placed(st)
  BY DEF Sound
<1> DEFINE At(c) == CHOOSE s \in segments : First(s) = c
           Laid(s) == [len |-> s.run.end - s.run.start, value |-> s.value]
           more == [c \in {First(s) : s \in segments} |-> Laid(At(c))]
           new == InsertRanges(st, segments)
<1>1. new = [st EXCEPT !.ranges = Over(st.ranges, more)]
  BY Zenon DEF InsertRanges, First
<1>2. ASSUME NEW s \in segments PROVE First(s) \notin DOMAIN st.ranges
  <2>1. First(s) \in Within(s.run)
    BY FirstIs DEF Layable
  <2>2. SUFFICES ASSUME First(s) \in DOMAIN st.ranges PROVE FALSE
    OBVIOUS
  <2>3. First(s) \in Covered(st, First(s))
    BY <1>0, <2>2, RangeIs
  <2> QED BY <2>1, <2>2, <2>3 DEF Layable
<1>3. ASSUME NEW s \in segments PROVE At(First(s)) = s
  <2>1. ASSUME NEW t \in segments, First(t) = First(s) PROVE t = s
    <3>1. First(s) \in Within(s.run) /\ First(t) \in Within(t.run)
      BY FirstIs DEF Layable
    <3> QED BY <2>1, <3>1 DEF Layable
  <2> QED BY <2>1
<1> HIDE DEF At, Laid
<1>4. /\ DOMAIN more = {First(s) : s \in segments}
      /\ \A s \in segments : more[First(s)] = Laid(s)
  BY <1>3
<1> HIDE DEF more
<1> DEFINE both == Over(st.ranges, more)
<1>5. /\ both = [k \in DOMAIN both |-> both[k]]
      /\ DOMAIN both = DOMAIN st.ranges \cup DOMAIN more
      /\ \A k \in DOMAIN st.ranges : k \notin DOMAIN more => both[k] = st.ranges[k]
      /\ \A k \in DOMAIN more : both[k] = more[k]
  BY DEF Over
<1> HIDE DEF both, new
<1>6. new = [sparse |-> st.sparse, ranges |-> both]
  <2>1. st = [sparse |-> st.sparse, ranges |-> st.ranges]
    BY <1>0, StoreIs
  <2> QED BY <1>1, <2>1 DEF both
<1>7. new.ranges = both
  BY <1>6
<1>8. new = [sparse |-> st.sparse, ranges |-> new.ranges]
  BY <1>6, <1>7
<1>9. DOMAIN new.ranges = DOMAIN st.ranges \cup {First(s) : s \in segments}
  BY <1>4, <1>5, <1>7
<1>10. \A k \in DOMAIN st.ranges : new.ranges[k] = st.ranges[k]
  BY <1>2, <1>4, <1>5, <1>7
<1>11. \A s \in segments : new.ranges[First(s)] = Laid(s)
  BY <1>4, <1>5, <1>7
<1>12. new.ranges = [k \in DOMAIN new.ranges |-> new.ranges[k]]
  BY <1>5, <1>7
<1> QED BY <1>2, <1>8, <1>9, <1>10, <1>11, <1>12, Zenon DEF Inserts, new, Laid

LEMMA InsertCovers ==
    ASSUME NEW st, Sound(st), NEW segments, Layable(st, segments)
    PROVE  Lays(st, segments, InsertRanges(st, segments))
<1>0. st \in Stores /\ Placed(st)
  BY DEF Sound
<1> DEFINE new == InsertRanges(st, segments)
           ranges == new.ranges
<1>b. Inserts(st, segments, new)
  BY InsertIs
<1> HIDE DEF new
<1>1. /\ new = [sparse |-> st.sparse, ranges |-> ranges]
      /\ ranges = [k \in DOMAIN ranges |-> ranges[k]]
      /\ DOMAIN ranges = DOMAIN st.ranges \cup {First(s) : s \in segments}
      /\ \A k \in DOMAIN st.ranges : ranges[k] = st.ranges[k]
      /\ \A s \in segments : /\ First(s) \notin DOMAIN st.ranges
                             /\ ranges[First(s)] = [len |-> s.run.end - s.run.start,
                                                    value |-> s.value]
  BY <1>b, Zenon DEF Inserts
<1>2. ASSUME NEW s \in segments
      PROVE  /\ First(s) \in Cells /\ First(s)[1] = s.run.source
             /\ First(s)[2] = s.run.start
             /\ ranges[First(s)].len = s.run.end - s.run.start
             /\ ranges[First(s)].value = s.value
             /\ ranges[First(s)] \in Held
             /\ First(s)[2] + ranges[First(s)].len = s.run.end
             /\ s.run.end <= Length[First(s)[1]]
             /\ Fits(ranges[First(s)].value, ranges[First(s)].len)
  <2> DEFINE l == s.run.end - s.run.start
  <2>1. s.run \in AllRuns /\ Fits(s.value, l)
    BY DEF Layable
  <2>2. First(s) \in Cells /\ First(s)[1] = s.run.source /\ First(s)[2] = s.run.start
    BY <2>1, FirstIs
  <2>3. /\ s.run.start \in Nat /\ s.run.end \in Nat /\ s.run.start < s.run.end
        /\ s.run.end <= Length[s.run.source]
    BY <2>1, RunIs
  <2>4. ranges[First(s)] = [len |-> l, value |-> s.value]
    BY <1>1
  <2>5. l \in Nat \ {0} /\ s.run.start + l = s.run.end
    BY <2>3
  <2>6. s.value \in Values
    BY <2>1 DEF Fits
  <2>7. [len |-> l, value |-> s.value] \in Held
    BY <2>5, <2>6 DEF Held
  <2> HIDE DEF ranges
  <2>8. ranges[First(s)].len = l /\ ranges[First(s)].value = s.value
    BY <2>4
  <2> QED BY <2>1, <2>2, <2>3, <2>4, <2>5, <2>7, <2>8
<1>3. ASSUME NEW k \in DOMAIN st.ranges
      PROVE  /\ k \in Cells /\ ranges[k] = st.ranges[k] /\ ranges[k] \in Held
             /\ k[2] + ranges[k].len <= Length[k[1]]
             /\ Fits(ranges[k].value, ranges[k].len)
  BY <1>0, <1>1, StoreIs DEF Placed
<1> HIDE DEF ranges
<1>4. DOMAIN ranges \subseteq Cells /\ ranges \in [DOMAIN ranges -> Held]
  BY <1>1, <1>2, <1>3
<1>5. new \in Stores /\ new.sparse = st.sparse
  <2>1. DOMAIN st.sparse \subseteq Cells /\ st.sparse \in [DOMAIN st.sparse -> Byte \cup {None}]
    BY <1>0, StoreIs
  <2>2. [sparse |-> st.sparse, ranges |-> ranges] \in Stores
    BY <1>4, <2>1, IsStore
  <2> QED BY <1>1, <2>2
<1>6. Placed(new)
  BY <1>1, <1>2, <1>3 DEF Placed, ranges
<1>7. ASSUME NEW k \in DOMAIN st.ranges
      PROVE  /\ Covered(new, k) = Covered(st, k)
             /\ \A c : Shown(new, k, c) = Shown(st, k, c)
  BY <1>3 DEF Covered, EndOf, Shown, ranges
<1>8. ASSUME NEW s \in segments
      PROVE  /\ Covered(new, First(s)) = Within(s.run)
             /\ \A c : Shown(new, First(s), c)
                         = ValueAt(s.value, c[2] - s.run.start, Base[c])
  <2>1. EndOf(new, First(s)) = s.run.end
    BY <1>2 DEF EndOf, ranges
  <2>2. s.run = Run(s.run.source, s.run.start, s.run.end)
    BY RunIs DEF Layable
  <2>3. Covered(new, First(s)) = Within(s.run)
    BY <1>2, <2>1, <2>2 DEF Covered
  <2>4. \A c : Shown(new, First(s), c) = ValueAt(s.value, c[2] - s.run.start, Base[c])
    BY <1>2 DEF Shown, ranges
  <2> QED BY <2>3, <2>4
<1>9. DOMAIN new.ranges = DOMAIN st.ranges \cup {First(s) : s \in segments}
  BY <1>1 DEF ranges
<1>10. \A s \in segments : First(s) \notin DOMAIN st.ranges
  BY <1>1
<1> QED BY <1>5, <1>6, <1>7, <1>8, <1>9, <1>10, Zenon DEF Lays, new

\* Laying ranges keeps the store sound, shows their values and changes
\* no other cell.
LEMMA InsertSound ==
    ASSUME NEW st, Sound(st), NEW segments, Layable(st, segments)
    PROVE  Sound(InsertRanges(st, segments)) /\ InsertRanges(st, segments).sparse = st.sparse
<1> DEFINE new == InsertRanges(st, segments)
<1>b. Lays(st, segments, new)
  BY InsertCovers
<1> HIDE DEF new
<1>1. /\ new \in Stores /\ Placed(new) /\ new.sparse = st.sparse
      /\ DOMAIN new.ranges = DOMAIN st.ranges \cup {First(s) : s \in segments}
      /\ \A k \in DOMAIN st.ranges : Covered(new, k) = Covered(st, k)
      /\ \A s \in segments : Covered(new, First(s)) = Within(s.run)
  BY <1>b, Zenon DEF Lays
<1>2. ASSUME NEW j \in DOMAIN new.ranges, NEW k \in DOMAIN new.ranges, j # k
      PROVE  Covered(new, j) \cap Covered(new, k) = {}
  <2>1. CASE j \in DOMAIN st.ranges /\ k \in DOMAIN st.ranges
    BY <1>1, <1>2, <2>1 DEF Sound, Apart
  <2>2. CASE j \in DOMAIN st.ranges /\ k \in {First(s) : s \in segments}
    <3>1. PICK s \in segments : k = First(s)
      BY <2>2
    <3> QED BY <1>1, <2>2, <3>1 DEF Layable
  <2>3. CASE k \in DOMAIN st.ranges /\ j \in {First(s) : s \in segments}
    <3>1. PICK s \in segments : j = First(s)
      BY <2>3
    <3> QED BY <1>1, <2>3, <3>1 DEF Layable
  <2>4. CASE j \in {First(s) : s \in segments} /\ k \in {First(s) : s \in segments}
    <3>1. PICK s \in segments : j = First(s)
      BY <2>4
    <3>2. PICK t \in segments : k = First(t)
      BY <2>4
    <3>3. s # t
      BY <1>2, <3>1, <3>2
    <3> QED BY <1>1, <3>1, <3>2, <3>3 DEF Layable
  <2> QED BY <1>1, <2>1, <2>2, <2>3, <2>4
<1>3. Anchored(new)
  BY <1>1 DEF Sound, Anchored
<1> QED BY <1>1, <1>2, <1>3 DEF Sound, Apart, new

LEMMA InsertUnder ==
    ASSUME NEW st, Sound(st), NEW segments, Layable(st, segments), NEW c \in Cells
    PROVE  /\ \A s \in segments : c \in Within(s.run) =>
                  Under(InsertRanges(st, segments), c)
                    = ValueAt(s.value, c[2] - s.run.start, Base[c])
           /\ (\A s \in segments : c \notin Within(s.run)) =>
                  Under(InsertRanges(st, segments), c) = Under(st, c)
<1> DEFINE new == InsertRanges(st, segments)
<1>b. Lays(st, segments, new)
  BY InsertCovers
<1> HIDE DEF new
<1>1. /\ DOMAIN new.ranges = DOMAIN st.ranges \cup {First(s) : s \in segments}
      /\ \A k \in DOMAIN st.ranges : /\ Covered(new, k) = Covered(st, k)
                                     /\ \A d : Shown(new, k, d) = Shown(st, k, d)
      /\ \A s \in segments :
            /\ Covered(new, First(s)) = Within(s.run)
            /\ \A d : Shown(new, First(s), d)
                        = ValueAt(s.value, d[2] - s.run.start, Base[d])
  BY <1>b, Zenon DEF Lays
<1>2. Apart(new) /\ Apart(st)
  BY InsertSound DEF Sound, new
<1>3. ASSUME NEW s \in segments, c \in Within(s.run)
      PROVE  Under(new, c) = ValueAt(s.value, c[2] - s.run.start, Base[c])
  <2>1. First(s) \in DOMAIN new.ranges /\ c \in Covered(new, First(s))
    BY <1>1, <1>3
  <2>2. Under(new, c) = Shown(new, First(s), c)
    BY <1>2, <2>1, UnderRange
  <2> QED BY <1>1, <2>2
<1>4. ASSUME \A s \in segments : c \notin Within(s.run)
      PROVE  Under(new, c) = Under(st, c)
  <2>1. CASE \E k \in DOMAIN st.ranges : c \in Covered(st, k)
    <3>1. PICK k \in DOMAIN st.ranges : c \in Covered(st, k)
      BY <2>1
    <3>2. k \in DOMAIN new.ranges /\ c \in Covered(new, k)
      BY <1>1, <3>1
    <3>3. Under(new, c) = Shown(new, k, c) /\ Under(st, c) = Shown(st, k, c)
      BY <1>2, <3>1, <3>2, UnderRange
    <3> QED BY <1>1, <3>3
  <2>2. CASE \A k \in DOMAIN st.ranges : c \notin Covered(st, k)
    <3>1. \A k \in DOMAIN new.ranges : c \notin Covered(new, k)
      BY <1>1, <1>4, <2>2
    <3> QED BY <2>2, <3>1, UnderNone
  <2> QED BY <2>1, <2>2
<1> QED BY <1>3, <1>4 DEF new

(***************************************************************************)
(* Overwriting a run                                                       *)
(***************************************************************************)

\* Setting the range of a run shows its value there and changes no other cell.
LEMMA SetIs ==
    ASSUME NEW st, Sound(st), NEW run \in AllRuns, NEW value,
           Fits(value, run.end - run.start)
    PROVE  /\ Sound(SetRange(st, run, value))
           /\ SetRange(st, run, value).sparse = Without(st.sparse, Within(run))
           /\ \A c \in Cells :
                Get(SetRange(st, run, value), c)
                  = IF c \in Within(run) THEN ValueAt(value, c[2] - run.start, Base[c])
                    ELSE Get(st, c)
<1> DEFINE mid == ClearSourceRange(st, run)
           seg == [run |-> run, value |-> value]
           new == InsertRanges(mid, {seg})
<1>1. new = SetRange(st, run, value)
  BY DEF SetRange
<1>2. /\ Sound(mid) /\ mid.sparse = Without(st.sparse, Within(run))
      /\ \A j \in DOMAIN mid.ranges : Covered(mid, j) \cap Within(run) = {}
  BY ClearSound
<1>3. \A c \in Cells : Get(mid, c) = IF c \in Within(run) THEN None ELSE Get(st, c)
  BY ClearGet
<1> HIDE DEF mid
<1>4. Layable(mid, {seg})
  BY <1>2 DEF Layable
<1>5. Sound(new) /\ new.sparse = mid.sparse
  BY <1>2, <1>4, InsertSound
<1>6. ASSUME NEW c \in Cells
      PROVE  /\ c \in Within(run) => Under(new, c) = ValueAt(value, c[2] - run.start, Base[c])
             /\ c \notin Within(run) => Under(new, c) = Under(mid, c)
  <2>1. /\ \A s \in {seg} : c \in Within(s.run) =>
              Under(new, c) = ValueAt(s.value, c[2] - s.run.start, Base[c])
        /\ (\A s \in {seg} : c \notin Within(s.run)) => Under(new, c) = Under(mid, c)
    <3> HIDE DEF seg
    <3> QED BY <1>2, <1>4, InsertUnder
  <2>2. seg.run = run /\ seg.value = value
    OBVIOUS
  <2> HIDE DEF seg, new
  <2> QED BY <2>1, <2>2
<1> HIDE DEF seg, new
<1>7. ASSUME NEW c \in Cells
      PROVE  Get(new, c) = IF c \in Within(run) THEN ValueAt(value, c[2] - run.start, Base[c])
                           ELSE Get(st, c)
  <2>1. Get(new, c) = IF c \in DOMAIN new.sparse THEN new.sparse[c] ELSE Under(new, c)
    BY <1>5, GetIs
  <2>2. CASE c \in Within(run)
    <3>1. c \notin DOMAIN new.sparse
      BY <1>2, <1>5, <2>2 DEF Without
    <3> QED BY <1>6, <2>1, <2>2, <3>1
  <2>3. CASE c \notin Within(run)
    <3>1. Get(mid, c) = IF c \in DOMAIN mid.sparse THEN mid.sparse[c] ELSE Under(mid, c)
      BY <1>2, GetIs
    <3> QED BY <1>3, <1>5, <1>6, <2>1, <2>3, <3>1
  <2> QED BY <2>2, <2>3
<1> QED BY <1>1, <1>2, <1>5, <1>7

(***************************************************************************)
(* Maximal runs                                                            *)
(***************************************************************************)

\* Maximal runs of a set that meet are the same.
LEMMA MaximalApart ==
    ASSUME NEW S, NEW g \in MaximalRuns(S), NEW h \in MaximalRuns(S),
           NEW c, c \in Within(g), c \in Within(h)
    PROVE  g = h
<1>1. ASSUME NEW r \in MaximalRuns(S), c \in Within(r)
      PROVE  /\ r \in AllRuns /\ r.source \in Sources /\ r.start \in Nat /\ r.end \in Nat
             /\ r.end <= Length[r.source] /\ Length[r.source] \in Nat
             /\ r = Run(r.source, r.start, r.end)
             /\ c \in Cells /\ c[2] \in Nat /\ c[1] = r.source
             /\ r.start <= c[2] /\ c[2] < r.end
             /\ Within(r) \subseteq S
             /\ <<r.source, r.start - 1>> \notin S /\ <<r.source, r.end>> \notin S
  <2>1. /\ r \in AllRuns /\ Within(r) \subseteq S
        /\ <<r.source, r.start - 1>> \notin S /\ <<r.source, r.end>> \notin S
    BY DEF MaximalRuns
  <2>2. c \in Cells /\ c[1] = r.source /\ r.start <= c[2] /\ c[2] < r.end
    BY <1>1, <2>1, InRun
  <2> QED BY <2>1, <2>2, RunIs, CellIs
<1>2. ASSUME NEW r \in MaximalRuns(S), NEW q \in MaximalRuns(S),
             c \in Within(r), c \in Within(q)
      PROVE  ~ (r.start < q.start) /\ ~ (r.end < q.end)
  <2>1. /\ r \in AllRuns /\ r.source \in Sources /\ r.start \in Nat /\ r.end \in Nat
        /\ r.end <= Length[r.source] /\ Length[r.source] \in Nat
        /\ c[2] \in Nat /\ c[1] = r.source /\ r.start <= c[2] /\ c[2] < r.end
        /\ Within(r) \subseteq S /\ <<r.source, r.end>> \notin S
    BY <1>1, <1>2
  <2>2. /\ q \in AllRuns /\ q.start \in Nat /\ q.end \in Nat
        /\ q.end <= Length[r.source]
        /\ c[1] = q.source /\ q.start <= c[2] /\ c[2] < q.end
        /\ Within(q) \subseteq S /\ <<q.source, q.start - 1>> \notin S
    BY <1>1, <1>2, <2>1
  <2>3. ASSUME r.start < q.start PROVE FALSE
    <3> DEFINE d == <<q.source, q.start - 1>>
    <3>1. /\ q.start - 1 \in Nat /\ q.start - 1 < Length[r.source]
          /\ r.start <= q.start - 1 /\ q.start - 1 < r.end
      BY <2>1, <2>2, <2>3
    <3>2. d \in Cells /\ d[1] = r.source /\ d[2] = q.start - 1
      BY <2>1, <2>2, <3>1, IsCell
    <3> HIDE DEF d
    <3>3. d \in Within(r)
      BY <2>1, <3>1, <3>2, InRun
    <3> QED BY <2>1, <2>2, <3>3 DEF d
  <2>4. ASSUME r.end < q.end PROVE FALSE
    <3> DEFINE d == <<r.source, r.end>>
    <3>1. r.end < Length[r.source] /\ q.start <= r.end
      BY <2>1, <2>2, <2>4
    <3>2. d \in Cells /\ d[1] = q.source /\ d[2] = r.end
      BY <2>1, <2>2, <3>1, IsCell
    <3> HIDE DEF d
    <3>3. d \in Within(q)
      BY <2>2, <2>4, <3>1, <3>2, InRun
    <3> QED BY <2>1, <2>2, <3>3 DEF d
  <2> QED BY <2>3, <2>4
<1>3. g.start \in Nat /\ g.end \in Nat /\ h.start \in Nat /\ h.end \in Nat
  BY <1>1
<1>4. g.start = h.start /\ g.end = h.end
  BY <1>2, <1>3
<1>5. g.source = h.source
  <2>1. c[1] = g.source
    BY <1>1
  <2>2. c[1] = h.source
    BY <1>1
  <2> QED BY <2>1, <2>2
<1> QED BY <1>1, <1>4, <1>5

\* Every cell of a set lies in one of its maximal runs.
LEMMA MaximalCovers ==
    ASSUME NEW S \in SUBSET Cells, NEW c \in S
    PROVE  \E g \in MaximalRuns(S) : c \in Within(g)
<1> DEFINE s == c[1]
           n == c[2]
           E == {i \in Nat : n < i /\ <<s, i>> \notin S}
           B == {d \in Nat : <<s, n - d - 1>> \notin S}
<1>1. s \in Sources /\ n \in Nat /\ n < Length[s] /\ Length[s] \in Nat /\ c = <<s, n>>
  BY CellIs
<1> HIDE DEF s, n
<1>2. ASSUME NEW i \in Int, <<s, i>> \in S PROVE i \in Nat /\ i < Length[s]
  <2>1. <<s, i>> \in Cells
    BY <1>2
  <2> DEFINE d == <<s, i>>
  <2>2. d[1] = s /\ d[2] = i
    OBVIOUS
  <2> HIDE DEF d
  <2>3. d[2] \in Nat /\ d[2] < Length[d[1]]
    BY <2>1, CellIs DEF d
  <2> QED BY <2>2, <2>3
<1>3. Length[s] \in E
  BY <1>1, <1>2
<1>4. PICK e \in E : \A i \in E : e <= i
  <2>1. E \in SUBSET Nat
    OBVIOUS
  <2> HIDE DEF E
  <2> QED BY <1>3, <2>1, Order!LeastNatural
<1>5. n \in B
  <2>1. n - n - 1 = -1 /\ -1 \in Int
    BY <1>1
  <2>2. <<s, -1>> \notin S
    BY <1>2
  <2> QED BY <1>1, <2>1, <2>2
<1>6. PICK b \in B : \A i \in B : b <= i
  <2>1. B \in SUBSET Nat
    OBVIOUS
  <2> HIDE DEF B
  <2> QED BY <1>5, <2>1, Order!LeastNatural
<1> DEFINE f == n - b
<1>7. /\ e \in Nat /\ n < e /\ e <= Length[s] /\ <<s, e>> \notin S
      /\ b \in Nat /\ b <= n /\ f \in Nat /\ f <= n /\ <<s, f - 1>> \notin S
  BY <1>1, <1>3, <1>4, <1>5, <1>6
<1>8. ASSUME NEW i \in Nat, f <= i, i < e PROVE <<s, i>> \in S
  <2>1. CASE n < i
    <3>1. i \notin E
      BY <1>4, <1>7, <1>8
    <3> QED BY <2>1, <3>1
  <2>2. CASE i = n
    BY <1>1, <2>2
  <2>3. CASE i < n
    <3> DEFINE d == n - i - 1
    <3>1. d \in Nat /\ d < b /\ n - d - 1 = i
      BY <1>1, <1>7, <1>8, <2>3
    <3>2. d \notin B
      BY <1>6, <1>7, <3>1
    <3> HIDE DEF d
    <3> QED BY <3>1, <3>2
  <2> QED BY <1>1, <2>1, <2>2, <2>3
<1> DEFINE g == Run(s, f, e)
<1> HIDE DEF E, B, f
<1>9. g \in AllRuns /\ g.source = s /\ g.start = f /\ g.end = e
  <2>1. f < e
    BY <1>1, <1>7
  <2> QED BY <1>1, <1>7, <2>1, IsRun
<1> HIDE DEF g
<1>10. ASSUME NEW d \in Within(g) PROVE d \in S
  <2>1. d \in Cells
    BY <1>9, InRun
  <2>2. d[2] \in Nat /\ d = <<d[1], d[2]>>
    BY <2>1, CellIs
  <2>3. d[1] = s /\ f <= d[2] /\ d[2] < e
    BY <1>9, <2>1, InRun
  <2> QED BY <1>8, <2>2, <2>3
<1>11. c \in Within(g)
  <2>1. c \in Cells /\ c[1] = s /\ c[2] = n
    BY DEF s, n
  <2> QED BY <1>7, <1>9, <2>1, InRun
<1>12. g \in MaximalRuns(S)
  BY <1>7, <1>9, <1>10 DEF MaximalRuns
<1> QED BY <1>11, <1>12

(***************************************************************************)
(* Xor over ranges                                                         *)
(***************************************************************************)

\* The part of an overlapping range in a run holds the cells of both.
LEMMA ClippedIs ==
    ASSUME NEW st, Sound(st), NEW run \in AllRuns,
           NEW k \in DOMAIN st.ranges, Overlaps(st, k, run)
    PROVE  LET part == Clipped(st, k, run)
           IN  /\ part \in AllRuns /\ part.start \in Nat /\ part.end \in Nat
               /\ k[2] <= part.start /\ part.end <= EndOf(st, k)
               /\ part.start < part.end
               /\ Within(part) = Covered(st, k) \cap Within(run)
<1> DEFINE a == IF k[2] < run.start THEN run.start ELSE k[2]
           b == IF EndOf(st, k) < run.end THEN EndOf(st, k) ELSE run.end
           part == Clipped(st, k, run)
<1>0. st \in Stores /\ Placed(st)
  BY DEF Sound
<1>1. /\ run.source \in Sources /\ run.start \in Nat /\ run.end \in Nat
      /\ run.start < run.end /\ run.end <= Length[run.source]
      /\ Length[run.source] \in Nat
  BY RunIs
<1>2. /\ k[2] \in Nat /\ EndOf(st, k) \in Nat /\ k[2] < EndOf(st, k)
      /\ Covered(st, k) \subseteq Cells
      /\ \A c \in Cells : c \in Covered(st, k) <=>
             c[1] = k[1] /\ k[2] <= c[2] /\ c[2] < EndOf(st, k)
  BY <1>0, RangeIs
<1>3. k[1] = run.source /\ k[2] < run.end /\ run.start < EndOf(st, k)
  BY DEF Overlaps
<1>4. /\ a \in Nat /\ b \in Nat /\ a < b /\ k[2] <= a /\ b <= EndOf(st, k)
      /\ run.start <= a /\ b <= run.end /\ b <= Length[run.source]
      /\ \A n \in Nat : (a <= n /\ n < b) <=>
            (k[2] <= n /\ n < EndOf(st, k) /\ run.start <= n /\ n < run.end)
  BY <1>1, <1>2, <1>3
<1>5. part = Run(run.source, a, b)
  BY DEF Clipped
<1> HIDE DEF a, b, part
<1>6. part \in AllRuns /\ part.source = run.source /\ part.start = a /\ part.end = b
  BY <1>1, <1>4, <1>5, IsRun
<1>7. Within(part) = Covered(st, k) \cap Within(run)
  <2>1. Within(part) \subseteq Cells /\ Within(run) \subseteq Cells
    BY <1>6, InRun
  <2>2. ASSUME NEW c \in Cells
        PROVE  c \in Within(part) <=> c \in Covered(st, k) /\ c \in Within(run)
    <3>1. c[2] \in Nat
      BY CellIs
    <3>2. c \in Within(part) <=> c[1] = run.source /\ a <= c[2] /\ c[2] < b
      BY <1>6, InRun
    <3>3. c \in Within(run) <=> c[1] = run.source /\ run.start <= c[2] /\ c[2] < run.end
      BY InRun
    <3> QED BY <1>2, <1>3, <1>4, <3>1, <3>2, <3>3
  <2> QED BY <1>2, <2>1, <2>2
<1> QED BY <1>4, <1>6, <1>7 DEF part

(* The segments that a xor lays: one for every range it meets, unless that *)
(* shows the base bytes again, and one for every gap between them.         *)
SegmentOf(st, k, run, key) ==
    LET part == Clipped(st, k, run)
    IN  [run |-> part,
         value |-> Composed(st.ranges[k].value, part.start - k[2],
                            part.end - part.start, key)]

GapCells(st, run) ==
    Within(run) \ UNION {Within(Clipped(st, k, run)) : k \in OverlappingKeys(st, run)}

XorSegments(st, run, key) ==
    {[run |-> g, value |-> XorWith(key)] : g \in MaximalRuns(GapCells(st, run))}
    \cup {SegmentOf(st, k, run, key) :
            k \in {k \in OverlappingKeys(st, run) :
                     SegmentOf(st, k, run, key).value # XorWith({})}}

LEMMA XorComposedIs ==
    ASSUME NEW st, NEW run, NEW key
    PROVE  XorSourceRangeComposed(st, run, key)
              = IF key = {} THEN st
                ELSE InsertRanges(ClearSourceRange(st, run), XorSegments(st, run, key))
BY Zenon DEF XorSourceRangeComposed, XorSegments, SegmentOf, GapCells

(* The segment shows the cells of range k in the run, xored. *)
XorsPart(st, k, run, key, seg) ==
    /\ seg.run \in AllRuns
    /\ seg.value # XorWith({}) => Fits(seg.value, seg.run.end - seg.run.start)
    /\ Within(seg.run) = Covered(st, k) \cap Within(run)
    /\ \A c \in Within(seg.run) :
        ValueAt(seg.value, c[2] - seg.run.start, Base[c]) = Xor(Shown(st, k, c), key)

LEMMA SegmentIs ==
    ASSUME NEW st, Sound(st), NEW run \in AllRuns, NEW key \in Byte,
           NEW k \in DOMAIN st.ranges, Overlaps(st, k, run)
    PROVE  XorsPart(st, k, run, key, SegmentOf(st, k, run, key))
<1> DEFINE part == Clipped(st, k, run)
           old == st.ranges[k].value
           len == st.ranges[k].len
           delta == part.start - k[2]
           m == part.end - part.start
           value == Composed(old, delta, m, key)
           seg == SegmentOf(st, k, run, key)
<1>0. st \in Stores /\ Placed(st)
  BY DEF Sound
<1>1. /\ part \in AllRuns /\ part.start \in Nat /\ part.end \in Nat
      /\ k[2] <= part.start /\ part.end <= EndOf(st, k) /\ part.start < part.end
      /\ Within(part) = Covered(st, k) \cap Within(run)
  BY ClippedIs, Zenon
<1>2. /\ k[2] \in Nat /\ len \in Nat /\ EndOf(st, k) = k[2] + len /\ Fits(old, len)
  BY <1>0, RangeIs
<1>3. seg = [run |-> part, value |-> value]
  BY Zenon DEF SegmentOf
<1> HIDE DEF seg, part, old, len
<1>4. delta \in Nat /\ m \in Nat /\ delta + m <= len
  BY <1>1, <1>2
<1> HIDE DEF delta, m
<1>5. /\ value # XorWith({}) => Fits(value, m)
      /\ \A i \in Nat, b \in Byte : i < m =>
            ValueAt(value, i, b) = Xor(ValueAt(old, delta + i, b), key)
  <2>1. value # XorWith({}) => Fits(value, m)
    BY <1>2, <1>4, ComposedFits
  <2>2. \A i \in Nat, b \in Byte : i < m =>
            ValueAt(value, i, b) = Xor(ValueAt(old, delta + i, b), key)
    BY <1>2, <1>4, ComposedFits
  <2> QED BY <2>1, <2>2
<1> HIDE DEF value
<1>6. seg.run = part /\ seg.value = value
  BY <1>3
<1>7. ASSUME NEW c \in Within(part)
      PROVE  ValueAt(value, c[2] - part.start, Base[c]) = Xor(Shown(st, k, c), key)
  <2>1. c \in Cells
    BY <1>1, InRun
  <2>2. c[2] \in Nat /\ Base[c] \in Byte
    BY <2>1, CellIs, StoreConstants
  <2>3. part.start <= c[2] /\ c[2] < part.end
    BY <1>1, <2>1, InRun
  <2> DEFINE i == c[2] - part.start
  <2>4. i \in Nat /\ i < m /\ delta + i = c[2] - k[2]
    BY <1>1, <1>2, <2>2, <2>3 DEF m, delta
  <2> HIDE DEF i
  <2>5. ValueAt(value, i, Base[c]) = Xor(ValueAt(old, delta + i, Base[c]), key)
    BY <1>5, <2>2, <2>4
  <2>6. Shown(st, k, c) = ValueAt(old, c[2] - k[2], Base[c])
    BY Zenon DEF Shown, old
  <2> QED BY <2>4, <2>5, <2>6 DEF i
<1>8. seg.value # XorWith({}) => Fits(seg.value, seg.run.end - seg.run.start)
  BY <1>5, <1>6 DEF m
<1> QED BY <1>1, <1>6, <1>7, <1>8, Zenon DEF XorsPart, seg

LEMMA GapIs ==
    ASSUME NEW st, Sound(st), NEW run \in AllRuns
    PROVE  /\ GapCells(st, run) \subseteq Within(run)
           /\ \A c \in Within(run) : c \in GapCells(st, run) <=>
                  \A k \in DOMAIN st.ranges : c \notin Covered(st, k)
<1> DEFINE keys == OverlappingKeys(st, run)
<1>0. st \in Stores /\ Placed(st)
  BY DEF Sound
<1>1. keys = {k \in DOMAIN st.ranges : Overlaps(st, k, run)}
  BY OverlappingIs
<1>2. ASSUME NEW k \in keys
      PROVE  Within(Clipped(st, k, run)) = Covered(st, k) \cap Within(run)
  <2>1. k \in DOMAIN st.ranges /\ Overlaps(st, k, run)
    BY <1>1
  <2> QED BY <2>1, ClippedIs, Zenon
<1>3. ASSUME NEW c \in Within(run), NEW k \in DOMAIN st.ranges, c \in Covered(st, k)
      PROVE  k \in keys
  <2>1. /\ run.start \in Nat /\ run.end \in Nat
    BY RunIs
  <2>2. c \in Cells
    BY InRun
  <2>3. c[2] \in Nat
    BY <2>2, CellIs
  <2>4. c[1] = run.source /\ run.start <= c[2] /\ c[2] < run.end
    BY <2>2, InRun
  <2>5. /\ c[1] = k[1] /\ k[2] <= c[2] /\ c[2] < EndOf(st, k)
        /\ k[2] \in Nat /\ EndOf(st, k) \in Nat
    BY <1>0, <1>3, <2>2, RangeIs
  <2>6. Overlaps(st, k, run)
    BY <2>1, <2>3, <2>4, <2>5 DEF Overlaps
  <2> HIDE DEF keys
  <2> QED BY <1>1, <2>6
<1>4. GapCells(st, run) = Within(run) \ UNION {Within(Clipped(st, k, run)) : k \in keys}
  BY DEF GapCells
<1>5. \A k \in keys : k \in DOMAIN st.ranges
  BY <1>1
<1> HIDE DEF keys
<1> QED BY <1>2, <1>3, <1>4, <1>5

(* Where a segment of a xor comes from. *)
FromGap(st, run, key, s) ==
    s.value = XorWith(key) /\ s.run \in MaximalRuns(GapCells(st, run))
FromRange(st, run, key, s) ==
    \E k \in DOMAIN st.ranges :
        Overlaps(st, k, run) /\ s = SegmentOf(st, k, run, key) /\ s.value # XorWith({})

LEMMA XorSegmentsAre ==
    ASSUME NEW st, Sound(st), NEW run \in AllRuns, NEW key,
           NEW s \in XorSegments(st, run, key)
    PROVE  FromGap(st, run, key, s) \/ FromRange(st, run, key, s)
<1>1. CASE s \in {[run |-> g, value |-> XorWith(key)] : g \in MaximalRuns(GapCells(st, run))}
  BY <1>1 DEF FromGap
<1>2. CASE s \in {SegmentOf(st, k, run, key) :
            k \in {k \in OverlappingKeys(st, run) :
                     SegmentOf(st, k, run, key).value # XorWith({})}}
  <2>1. PICK k \in OverlappingKeys(st, run) :
            /\ SegmentOf(st, k, run, key).value # XorWith({})
            /\ s = SegmentOf(st, k, run, key)
    BY <1>2
  <2>2. k \in DOMAIN st.ranges /\ Overlaps(st, k, run)
    BY OverlappingIs
  <2> QED BY <2>1, <2>2 DEF FromRange
<1> QED BY <1>1, <1>2 DEF XorSegments

LEMMA FromGapIs ==
    ASSUME NEW st, Sound(st), NEW run \in AllRuns, NEW key \in Byte, key # {}, NEW s,
           FromGap(st, run, key, s)
    PROVE  /\ s.run \in AllRuns /\ Fits(s.value, s.run.end - s.run.start)
           /\ Within(s.run) \subseteq GapCells(st, run)
<1>1. s.value = XorWith(key) /\ s.run \in MaximalRuns(GapCells(st, run))
  BY DEF FromGap
<1>2. s.run \in AllRuns /\ Within(s.run) \subseteq GapCells(st, run)
  BY <1>1 DEF MaximalRuns
<1>3. XorWith(key) \in Values /\ XorWith(key).kind = "Xor" /\ XorWith(key).key = key
  BY DEF XorWith, Values
<1> QED BY <1>1, <1>2, <1>3, NotNull DEF Fits

LEMMA FromRangeIs ==
    ASSUME NEW st, Sound(st), NEW run \in AllRuns, NEW key \in Byte, NEW s,
           FromRange(st, run, key, s)
    PROVE  /\ s.run \in AllRuns /\ Fits(s.value, s.run.end - s.run.start)
           /\ \E k \in DOMAIN st.ranges :
                /\ Within(s.run) = Covered(st, k) \cap Within(run)
                /\ s = SegmentOf(st, k, run, key) /\ s.value # XorWith({})
<1>1. PICK k \in DOMAIN st.ranges :
          Overlaps(st, k, run) /\ s = SegmentOf(st, k, run, key) /\ s.value # XorWith({})
  BY DEF FromRange
<1> DEFINE seg == SegmentOf(st, k, run, key)
<1>2. /\ seg.run \in AllRuns
      /\ seg.value # XorWith({}) => Fits(seg.value, seg.run.end - seg.run.start)
      /\ Within(seg.run) = Covered(st, k) \cap Within(run)
  BY <1>1, SegmentIs DEF XorsPart
<1> QED BY <1>1, <1>2

\* The segments of a xor may be laid where the run is cleared.
LEMMA XorLayable ==
    ASSUME NEW st, Sound(st), NEW run \in AllRuns, NEW key \in Byte, key # {}
    PROVE  /\ Layable(ClearSourceRange(st, run), XorSegments(st, run, key))
           /\ \A s \in XorSegments(st, run, key) : Within(s.run) \subseteq Within(run)
<1> DEFINE segments == XorSegments(st, run, key)
           mid == ClearSourceRange(st, run)
<1>1. \A j \in DOMAIN mid.ranges : Covered(mid, j) \cap Within(run) = {}
  BY ClearSound
<1>2. \A s \in segments : FromGap(st, run, key, s) \/ FromRange(st, run, key, s)
  BY XorSegmentsAre
<1>3. /\ GapCells(st, run) \subseteq Within(run)
      /\ \A k \in DOMAIN st.ranges : GapCells(st, run) \cap Covered(st, k) = {}
  BY GapIs
<1> HIDE DEF segments, mid
<1>4. ASSUME NEW s \in segments
      PROVE  /\ s.run \in AllRuns /\ Fits(s.value, s.run.end - s.run.start)
             /\ Within(s.run) \subseteq Within(run)
  <2>1. CASE FromGap(st, run, key, s)
    BY <1>3, <2>1, FromGapIs
  <2>2. CASE FromRange(st, run, key, s)
    BY <2>2, FromRangeIs
  <2> QED BY <1>2, <2>1, <2>2
<1>5. ASSUME NEW s \in segments, NEW t \in segments, s # t,
             NEW c, c \in Within(s.run), c \in Within(t.run)
      PROVE  FALSE
  <2>1. CASE FromGap(st, run, key, s) /\ FromGap(st, run, key, t)
    <3>1. s.run = t.run /\ s.value = t.value
      BY <1>5, <2>1, MaximalApart DEF FromGap
    <3>2. s = [run |-> s.run, value |-> s.value] /\ t = [run |-> t.run, value |-> t.value]
      BY DEF segments, XorSegments, SegmentOf
    <3> QED BY <1>5, <3>1, <3>2
  <2>2. CASE FromGap(st, run, key, s) /\ FromRange(st, run, key, t)
    <3>1. c \in GapCells(st, run)
      BY <1>5, <2>2, FromGapIs
    <3>2. \E k \in DOMAIN st.ranges : c \in Covered(st, k)
      BY <1>5, <2>2, FromRangeIs
    <3> QED BY <1>3, <3>1, <3>2
  <2>3. CASE FromRange(st, run, key, s) /\ FromGap(st, run, key, t)
    <3>1. c \in GapCells(st, run)
      BY <1>5, <2>3, FromGapIs
    <3>2. \E k \in DOMAIN st.ranges : c \in Covered(st, k)
      BY <1>5, <2>3, FromRangeIs
    <3> QED BY <1>3, <3>1, <3>2
  <2>4. CASE FromRange(st, run, key, s) /\ FromRange(st, run, key, t)
    <3>1. PICK j \in DOMAIN st.ranges :
              /\ Within(s.run) = Covered(st, j) \cap Within(run)
              /\ s = SegmentOf(st, j, run, key)
      BY <2>4, FromRangeIs
    <3>2. PICK k \in DOMAIN st.ranges :
              /\ Within(t.run) = Covered(st, k) \cap Within(run)
              /\ t = SegmentOf(st, k, run, key)
      BY <2>4, FromRangeIs
    <3>3. j = k
      BY <1>5, <3>1, <3>2, OneRange DEF Sound
    <3> QED BY <1>5, <3>1, <3>2, <3>3
  <2> QED BY <1>2, <2>1, <2>2, <2>3, <2>4
<1>6. Layable(mid, segments)
  BY <1>1, <1>4, <1>5 DEF Layable
<1> QED BY <1>4, <1>6 DEF mid, segments

LEMMA UnderIs ==
    ASSUME NEW st, Sound(st), NEW c \in Cells
    PROVE  /\ Base[c] \in Byte
           /\ Under(st, c) \in Byte \cup {None}
           /\ Get(st, c) \in Byte \cup {None}
           /\ Seen(st, c) \in Byte
<1>0. st \in Stores /\ Placed(st) /\ Apart(st)
  BY DEF Sound
<1>1. Base[c] \in Byte
  BY StoreConstants
<1>2. Under(st, c) \in Byte \cup {None}
  <2>1. CASE \E k \in DOMAIN st.ranges : c \in Covered(st, k)
    <3>1. PICK k \in DOMAIN st.ranges : c \in Covered(st, k)
      BY <2>1
    <3> DEFINE len == st.ranges[k].len
               value == st.ranges[k].value
               i == c[2] - k[2]
    <3>2. /\ c[2] \in Nat /\ k[2] \in Nat /\ len \in Nat /\ EndOf(st, k) = k[2] + len
          /\ Fits(value, len) /\ k[2] <= c[2] /\ c[2] < EndOf(st, k)
      BY <1>0, <3>1, RangeIs, CellIs
    <3>3. i \in Nat /\ i < len
      <4> HIDE DEF len, value
      <4> QED BY <3>2
    <3> HIDE DEF len, value, i
    <3>4. ValueAt(value, i, Base[c]) \in Byte
      BY <1>1, <3>2, <3>3, ValueIsByte
    <3>5. Under(st, c) = Shown(st, k, c)
      BY <1>0, <3>1, UnderRange
    <3>6. Shown(st, k, c) = ValueAt(value, i, Base[c])
      BY Zenon DEF Shown, value, i
    <3> QED BY <3>4, <3>5, <3>6
  <2>2. CASE \A k \in DOMAIN st.ranges : c \notin Covered(st, k)
    BY <2>2, UnderNone
  <2> QED BY <2>1, <2>2
<1>3. Get(st, c) \in Byte \cup {None}
  <2>1. Get(st, c) = IF c \in DOMAIN st.sparse THEN st.sparse[c] ELSE Under(st, c)
    BY GetIs
  <2>2. c \in DOMAIN st.sparse => st.sparse[c] \in Byte \cup {None}
    BY <1>0, StoreIs
  <2> QED BY <1>2, <2>1, <2>2
<1>4. Seen(st, c) \in Byte
  BY <1>1, <1>3 DEF Seen
<1> QED BY <1>1, <1>2, <1>3, <1>4

(* Store s shows the cells of done as st does, xored, and others as st does. *)
Xored(st, s, done, key) ==
    \A c \in Cells : /\ c \in done => Seen(s, c) = Xor(Seen(st, c), key)
                     /\ c \notin done => Get(s, c) = Get(st, c)

\* A xor over a run without single edits changes every byte of it by the key
\* and no other cell.
LEMMA XorIs ==
    ASSUME NEW st, Sound(st), NEW run \in AllRuns, NEW key \in Byte,
           DOMAIN st.sparse \cap Within(run) = {}
    PROVE  /\ Sound(XorSourceRangeComposed(st, run, key))
           /\ DOMAIN XorSourceRangeComposed(st, run, key).sparse \subseteq DOMAIN st.sparse
           /\ Xored(st, XorSourceRangeComposed(st, run, key), Within(run), key)
<1> DEFINE new == XorSourceRangeComposed(st, run, key)
<1> SUFFICES /\ Sound(new) /\ DOMAIN new.sparse \subseteq DOMAIN st.sparse
             /\ \A c \in Cells :
                  /\ c \in Within(run) => Seen(new, c) = Xor(Seen(st, c), key)
                  /\ c \notin Within(run) => Get(new, c) = Get(st, c)
  BY Zenon DEF Xored
<1>1. CASE key = {}
  <2>1. new = st
    BY <1>1, XorComposedIs
  <2>2. \A c \in Cells : Xor(Seen(st, c), key) = Seen(st, c)
    BY <1>1, UnderIs, XorNone
  <2> QED BY <2>1, <2>2
<1>2. CASE key # {}
  <2> DEFINE mid == ClearSourceRange(st, run)
             segments == XorSegments(st, run, key)
  <2>1. new = InsertRanges(mid, segments)
    BY <1>2, XorComposedIs
  <2>2. Sound(mid) /\ mid.sparse = Without(st.sparse, Within(run))
    BY ClearSound
  <2>3. \A c \in Cells : /\ Get(mid, c) = IF c \in Within(run) THEN None ELSE Get(st, c)
                         /\ Under(mid, c) = IF c \in Within(run) THEN None ELSE Under(st, c)
    BY ClearGet, ClearUnder
  <2>4. Layable(mid, segments) /\ \A s \in segments : Within(s.run) \subseteq Within(run)
    BY <1>2, XorLayable
  <2> HIDE DEF mid, segments, new
  <2>5. Sound(new) /\ new.sparse = mid.sparse
    BY <2>1, <2>2, <2>4, InsertSound
  <2>6. \A c \in Cells :
            /\ \A s \in segments : c \in Within(s.run) =>
                  Under(new, c) = ValueAt(s.value, c[2] - s.run.start, Base[c])
            /\ (\A s \in segments : c \notin Within(s.run)) => Under(new, c) = Under(mid, c)
    BY <2>1, <2>2, <2>4, InsertUnder
  <2>7. DOMAIN new.sparse = DOMAIN st.sparse \ Within(run)
    BY <2>2, <2>5 DEF Without
  <2>8. ASSUME NEW c \in Cells, c \notin Within(run)
        PROVE  Get(new, c) = Get(st, c)
    <3>1. Under(new, c) = Under(mid, c)
      BY <2>4, <2>6, <2>8
    <3>2. Get(new, c) = IF c \in DOMAIN new.sparse THEN new.sparse[c] ELSE Under(new, c)
      BY <2>5, GetIs
    <3>3. Get(mid, c) = IF c \in DOMAIN mid.sparse THEN mid.sparse[c] ELSE Under(mid, c)
      BY <2>2, GetIs
    <3> QED BY <2>3, <2>5, <2>8, <3>1, <3>2, <3>3
  <2>9. ASSUME NEW c \in Cells, c \in Within(run)
        PROVE  Seen(new, c) = Xor(Seen(st, c), key)
    <3>1. Get(new, c) = Under(new, c) /\ Get(st, c) = Under(st, c)
      <4>1. c \notin DOMAIN new.sparse /\ c \notin DOMAIN st.sparse
        BY <2>7, <2>9
      <4> QED BY <2>5, <4>1, GetIs
    <3>2. Base[c] \in Byte /\ Under(st, c) \in Byte \cup {None} /\ Seen(st, c) \in Byte
      BY UnderIs
    <3>3. None \notin Byte
      BY StoreConstants
    <3>4. CASE \E k \in DOMAIN st.ranges : c \in Covered(st, k)
      <4>1. PICK k \in DOMAIN st.ranges : c \in Covered(st, k)
        BY <3>4
      <4>2. Overlaps(st, k, run)
        <5>1. k \in DOMAIN st.ranges /\ c \in Covered(st, k) /\ st \in Stores /\ Placed(st)
          BY <4>1 DEF Sound
        <5>2. /\ c[1] = k[1] /\ k[2] <= c[2] /\ c[2] < EndOf(st, k)
              /\ k[2] \in Nat /\ EndOf(st, k) \in Nat
          BY <5>1, RangeIs
        <5>3. c[1] = run.source /\ run.start <= c[2] /\ c[2] < run.end /\ c[2] \in Nat
          BY <2>9, InRun, CellIs
        <5>4. run.start \in Nat /\ run.end \in Nat
          BY RunIs
        <5> QED BY <5>2, <5>3, <5>4 DEF Overlaps
      <4> DEFINE seg == SegmentOf(st, k, run, key)
      <4>3. /\ Within(seg.run) = Covered(st, k) \cap Within(run)
            /\ \A d \in Within(seg.run) :
                  ValueAt(seg.value, d[2] - seg.run.start, Base[d])
                    = Xor(Shown(st, k, d), key)
        <5> HIDE DEF seg
        <5>1. XorsPart(st, k, run, key, seg)
          BY <4>2, SegmentIs DEF seg
        <5> QED BY <5>1 DEF XorsPart
      <4>4. /\ Under(st, c) = Shown(st, k, c) /\ Shown(st, k, c) \in Byte
            /\ Seen(st, c) = Shown(st, k, c)
        <5>1. Under(st, c) = Shown(st, k, c)
          BY <4>1, UnderRange DEF Sound
        <5>2. Shown(st, k, c) \in Byte
          <6> DEFINE value == st.ranges[k].value
                     len == st.ranges[k].len
                     i == c[2] - k[2]
          <6>1. /\ c[2] \in Nat /\ k[2] \in Nat /\ len \in Nat /\ EndOf(st, k) = k[2] + len
                /\ Fits(value, len) /\ k[2] <= c[2] /\ c[2] < EndOf(st, k)
            BY <4>1, RangeIs, CellIs DEF Sound
          <6>2. i \in Nat /\ i < len
            <7> HIDE DEF len, value
            <7> QED BY <6>1
          <6> HIDE DEF len, value, i
          <6>3. ValueAt(value, i, Base[c]) \in Byte
            BY <3>2, <6>1, <6>2, ValueIsByte
          <6> QED BY <6>3, Zenon DEF Shown, value, i
        <5>3. Get(st, c) # None
          BY <3>1, <3>3, <5>1, <5>2
        <5> QED BY <3>1, <5>1, <5>2, <5>3 DEF Seen
      <4>5. /\ c \in Within(seg.run)
            /\ ValueAt(seg.value, c[2] - seg.run.start, Base[c]) = Xor(Shown(st, k, c), key)
        BY <2>9, <4>1, <4>3
      <4>6. CASE seg.value # XorWith({})
        <5>1. seg \in segments
          <6>1. k \in OverlappingKeys(st, run)
            BY <4>2, OverlappingIs
          <6> QED BY <4>6, <6>1 DEF segments, XorSegments
        <5> HIDE DEF seg
        <5>2. Under(new, c) = Xor(Shown(st, k, c), key)
          BY <2>6, <4>5, <5>1
        <5>3. Xor(Shown(st, k, c), key) \in Byte
          BY <4>4, XorIsByte
        <5> QED BY <3>1, <3>3, <4>4, <5>2, <5>3 DEF Seen
      <4>7. CASE seg.value = XorWith({})
        <5>1. \A s \in segments : c \notin Within(s.run)
          <6> SUFFICES ASSUME NEW s \in segments, c \in Within(s.run) PROVE FALSE
            OBVIOUS
          <6>1. FromGap(st, run, key, s) \/ FromRange(st, run, key, s)
            BY XorSegmentsAre DEF segments
          <6>2. CASE FromGap(st, run, key, s)
            BY <1>2, <2>9, <4>1, <6>2, FromGapIs, GapIs
          <6>3. CASE FromRange(st, run, key, s)
            <7>1. PICK j \in DOMAIN st.ranges :
                      /\ Within(s.run) = Covered(st, j) \cap Within(run)
                      /\ s = SegmentOf(st, j, run, key) /\ s.value # XorWith({})
              BY <6>3, FromRangeIs
            <7>2. c \in Covered(st, j)
              BY <7>1
            <7>3. j = k
              BY <4>1, <7>2, OneRange DEF Sound
            <7> QED BY <4>7, <7>1, <7>3
          <6> QED BY <6>1, <6>2, <6>3
        <5>2. Under(new, c) = None
          BY <2>3, <2>6, <2>9, <5>1
        <5>3. Seen(new, c) = Base[c]
          BY <3>1, <5>2 DEF Seen
        <5>4. XorWith({}) \in Keyed /\ XorWith({}).key = {}
          BY DEF XorWith, Keyed, Byte
        <5>5. ValueAt(XorWith({}), c[2] - seg.run.start, Base[c]) = Xor(Base[c], {})
          <6> HIDE DEF seg
          <6> QED BY <5>4, AtXor
        <5> HIDE DEF seg
        <5> QED BY <3>2, <4>4, <4>5, <4>7, <5>3, <5>5, XorNone
      <4> HIDE DEF seg
      <4> QED BY <4>6, <4>7
    <3>5. CASE \A k \in DOMAIN st.ranges : c \notin Covered(st, k)
      <4>1. c \in GapCells(st, run) /\ GapCells(st, run) \in SUBSET Cells
        BY <2>9, <3>5, GapIs, InRun
      <4>2. PICK g \in MaximalRuns(GapCells(st, run)) : c \in Within(g)
        BY <4>1, MaximalCovers
      <4> DEFINE seg == [run |-> g, value |-> XorWith(key)]
      <4>3. seg \in segments
        BY DEF segments, XorSegments
      <4>4. seg.run = g /\ seg.value = XorWith(key)
        OBVIOUS
      <4> HIDE DEF seg
      <4>5. Under(new, c) = ValueAt(XorWith(key), c[2] - g.start, Base[c])
        BY <2>6, <4>2, <4>3, <4>4
      <4>6. XorWith(key) \in Keyed /\ XorWith(key).key = key
        BY DEF XorWith, Keyed
      <4>7. Under(new, c) = Xor(Base[c], key)
        BY <4>5, <4>6, AtXor
      <4>8. Under(st, c) = None
        BY <3>5, UnderNone
      <4>9. Xor(Base[c], key) \in Byte
        BY <3>2, XorIsByte
      <4> QED BY <3>1, <3>3, <4>7, <4>8, <4>9 DEF Seen
    <3> QED BY <3>4, <3>5
  <2> QED BY <2>5, <2>7, <2>8, <2>9
<1> QED BY <1>1, <1>2

(***************************************************************************)
(* Single cells                                                            *)
(***************************************************************************)

(* Store new shows v in cell c, and what st shows in every other cell. *)
CellEdited(st, c, v, new) ==
    /\ Sound(new)
    /\ DOMAIN new.sparse \subseteq DOMAIN st.sparse \cup {c}
    /\ Get(new, c) = v
    /\ \A d \in Cells : d # c => Get(new, d) = Get(st, d)

\* Single edits leave the ranges alone.
LEMMA SameRanges ==
    ASSUME NEW st, Sound(st), NEW sparse,
           DOMAIN sparse \subseteq Cells,
           sparse \in [DOMAIN sparse -> Byte \cup {None}],
           \A c \in DOMAIN sparse :
              sparse[c] = None => \E k \in DOMAIN st.ranges : c \in Covered(st, k),
           NEW new, new = [sparse |-> sparse, ranges |-> st.ranges]
    PROVE  /\ Sound(new)
           /\ \A c \in Cells : Under(new, c) = Under(st, c)
<1>0. st \in Stores /\ Placed(st) /\ Apart(st)
  BY DEF Sound
<1>1. new.ranges = st.ranges /\ new.sparse = sparse
  OBVIOUS
<1>2. new \in Stores
  <2>1. DOMAIN st.ranges \subseteq Cells /\ st.ranges \in [DOMAIN st.ranges -> Held]
    BY <1>0, StoreIs
  <2> QED BY <2>1, IsStore
<1>3. \A k : Covered(new, k) = Covered(st, k)
  BY <1>1 DEF Covered, EndOf
<1>4. \A k, c : Shown(new, k, c) = Shown(st, k, c)
  BY <1>1 DEF Shown
<1>5. Placed(new) /\ Apart(new)
  BY <1>0, <1>1, <1>3 DEF Placed, Apart
<1>6. Anchored(new)
  BY <1>1, <1>3 DEF Anchored
<1>7. ASSUME NEW c \in Cells PROVE Under(new, c) = Under(st, c)
  <2>1. CASE \E k \in DOMAIN st.ranges : c \in Covered(st, k)
    <3>1. PICK k \in DOMAIN st.ranges : c \in Covered(st, k)
      BY <2>1
    <3>2. Under(new, c) = Shown(new, k, c) /\ Under(st, c) = Shown(st, k, c)
      BY <1>0, <1>1, <1>3, <1>5, <3>1, UnderRange
    <3> QED BY <1>4, <3>2
  <2>2. CASE \A k \in DOMAIN st.ranges : c \notin Covered(st, k)
    <3>1. \A k \in DOMAIN new.ranges : c \notin Covered(new, k)
      BY <1>1, <1>3, <2>2
    <3> QED BY <2>2, <3>1, UnderNone
  <2> QED BY <2>1, <2>2
<1> QED BY <1>2, <1>5, <1>6, <1>7 DEF Sound

LEMMA SetCellIs ==
    ASSUME NEW st, Sound(st), NEW c \in Cells, NEW v \in Byte \cup {None},
           v = None => \E k \in DOMAIN st.ranges : c \in Covered(st, k)
    PROVE  CellEdited(st, c, v, SetCell(st, c, v))
<1> DEFINE sparse == Over(st.sparse, [x \in {c} |-> v])
           new == SetCell(st, c, v)
<1>0. st \in Stores /\ Anchored(st)
  BY DEF Sound
<1>1. /\ DOMAIN st.sparse \subseteq Cells
      /\ st = [sparse |-> st.sparse, ranges |-> st.ranges]
      /\ \A d \in DOMAIN st.sparse : st.sparse[d] \in Byte \cup {None}
  BY <1>0, StoreIs
<1>2. /\ DOMAIN sparse = DOMAIN st.sparse \cup {c}
      /\ sparse = [d \in DOMAIN sparse |-> sparse[d]]
      /\ sparse[c] = v
      /\ \A d \in DOMAIN st.sparse : d # c => sparse[d] = st.sparse[d]
  BY DEF Over
<1>3. new = [st EXCEPT !.sparse = sparse]
  BY DEF SetCell
<1> HIDE DEF sparse, new
<1>4. new = [sparse |-> sparse, ranges |-> st.ranges]
  BY <1>1, <1>3
<1>5. DOMAIN sparse \subseteq Cells /\ sparse \in [DOMAIN sparse -> Byte \cup {None}]
  BY <1>1, <1>2
<1>6. \A d \in DOMAIN sparse :
          sparse[d] = None => \E k \in DOMAIN st.ranges : d \in Covered(st, k)
  BY <1>0, <1>2 DEF Anchored
<1>7. Sound(new) /\ \A d \in Cells : Under(new, d) = Under(st, d)
  BY <1>4, <1>5, <1>6, SameRanges
<1>8. new.sparse = sparse
  BY <1>4
<1>9. Get(new, c) = v
  BY <1>2, <1>7, <1>8, GetIs
<1>10. ASSUME NEW d \in Cells, d # c PROVE Get(new, d) = Get(st, d)
  <2>1. Get(new, d) = IF d \in DOMAIN new.sparse THEN new.sparse[d] ELSE Under(new, d)
    BY <1>7, GetIs
  <2>2. Get(st, d) = IF d \in DOMAIN st.sparse THEN st.sparse[d] ELSE Under(st, d)
    BY GetIs
  <2> QED BY <1>2, <1>7, <1>8, <1>10, <2>1, <2>2
<1> QED BY <1>2, <1>7, <1>8, <1>9, <1>10 DEF CellEdited, new

LEMMA ClearCellIs ==
    ASSUME NEW st, Sound(st), NEW c \in Cells
    PROVE  CellEdited(st, c, None, ClearCell(st, c))
<1>1. RangeContaining(st, c) = {k \in DOMAIN st.ranges : c \in Covered(st, k)}
  BY ContainingIs
<1>2. CASE RangeContaining(st, c) # {}
  <2>1. ClearCell(st, c) = SetCell(st, c, None)
    BY <1>2 DEF ClearCell
  <2>2. \E k \in DOMAIN st.ranges : c \in Covered(st, k)
    BY <1>1, <1>2
  <2> QED BY <2>1, <2>2, SetCellIs
<1>3. CASE RangeContaining(st, c) = {}
  <2> DEFINE sparse == Without(st.sparse, {c})
             new == ClearCell(st, c)
  <2>0. st \in Stores /\ Anchored(st)
    BY DEF Sound
  <2>1. /\ DOMAIN st.sparse \subseteq Cells
        /\ st = [sparse |-> st.sparse, ranges |-> st.ranges]
        /\ \A d \in DOMAIN st.sparse : st.sparse[d] \in Byte \cup {None}
    BY <2>0, StoreIs
  <2>2. /\ DOMAIN sparse = DOMAIN st.sparse \ {c}
        /\ sparse = [d \in DOMAIN sparse |-> sparse[d]]
        /\ \A d \in DOMAIN sparse : sparse[d] = st.sparse[d]
    BY DEF Without
  <2>3. new = [st EXCEPT !.sparse = sparse]
    BY <1>3 DEF ClearCell
  <2> HIDE DEF sparse, new
  <2>4. new = [sparse |-> sparse, ranges |-> st.ranges]
    BY <2>1, <2>3
  <2>5. DOMAIN sparse \subseteq Cells /\ sparse \in [DOMAIN sparse -> Byte \cup {None}]
    BY <2>1, <2>2
  <2>6. \A d \in DOMAIN sparse :
            sparse[d] = None => \E k \in DOMAIN st.ranges : d \in Covered(st, k)
    BY <2>0, <2>2 DEF Anchored
  <2>7. Sound(new) /\ \A d \in Cells : Under(new, d) = Under(st, d)
    BY <2>4, <2>5, <2>6, SameRanges
  <2>8. new.sparse = sparse
    BY <2>4
  <2>9. Get(new, c) = None
    <3>1. Under(st, c) = None
      BY <1>1, <1>3, UnderNone
    <3> QED BY <2>2, <2>7, <2>8, <3>1, GetIs
  <2>10. ASSUME NEW d \in Cells, d # c PROVE Get(new, d) = Get(st, d)
    <3>1. Get(new, d) = IF d \in DOMAIN new.sparse THEN new.sparse[d] ELSE Under(new, d)
      BY <2>7, GetIs
    <3>2. Get(st, d) = IF d \in DOMAIN st.sparse THEN st.sparse[d] ELSE Under(st, d)
      BY GetIs
    <3> QED BY <2>2, <2>7, <2>8, <2>10, <3>1, <3>2
  <2> QED BY <2>2, <2>7, <2>8, <2>9, <2>10 DEF CellEdited, new
<1> QED BY <1>2, <1>3

\* An undo of one cell brings back what it showed.
LEMMA RestoreIs ==
    ASSUME NEW st, Sound(st), NEW c \in Cells, NEW v \in Byte \cup {None}
    PROVE  CellEdited(st, c, v, RestoreReplacement(st, c, v))
BY ClearCellIs, SetCellIs DEF RestoreReplacement

\* A byte that is set is shown, as a replacement or as the base byte.
LEMMA DisplayIs ==
    ASSUME NEW st, Sound(st), NEW c \in Cells, NEW v \in Byte
    PROVE  /\ CellEdited(st, c, IF v = Base[c] THEN None ELSE v, SetDisplayByte(st, c, v))
           /\ Seen(SetDisplayByte(st, c, v), c) = v
<1>1. v # None
  BY StoreConstants
<1>2. CellEdited(st, c, IF v = Base[c] THEN None ELSE v, SetDisplayByte(st, c, v))
  BY <1>1, ClearCellIs, SetCellIs DEF SetDisplayByte
<1>3. Get(SetDisplayByte(st, c, v), c) = IF v = Base[c] THEN None ELSE v
  BY <1>2 DEF CellEdited
<1> QED BY <1>1, <1>2, <1>3 DEF Seen

(***************************************************************************)
(* Walks along a run                                                       *)
(***************************************************************************)

(* The stretches of a run without dead cells and without the cells E, and  *)
(* the cells that a walk has xored after n cells: those of E it passed,    *)
(* and those of every stretch it came to.                                  *)
Spans(run, dead, E) == MaximalRuns(Within(run) \ (dead \cup E))
CellAt(run, n) == <<run.source, run.start + n - 1>>
StartsAt(g, c) == <<g.source, g.start>> = c
Done(run, dead, E, n) ==
    {c \in E \ dead : c[2] < run.start + n}
    \cup UNION {Within(g) : g \in {g \in Spans(run, dead, E) : g.start < run.start + n}}

LEMMA SpanHas ==
    ASSUME NEW run \in AllRuns, NEW dead, NEW E, NEW g \in Spans(run, dead, E)
    PROVE  /\ g \in AllRuns /\ g.source = run.source
           /\ g.start \in Nat /\ g.end \in Nat /\ g.start < g.end
           /\ run.start <= g.start /\ g.end <= run.end
           /\ Within(g) \subseteq Within(run)
           /\ Within(g) \cap (dead \cup E) = {}
           /\ <<g.source, g.start>> \in Within(g)
           /\ <<g.source, g.start>> \in Cells
<1>1. g \in AllRuns /\ Within(g) \subseteq Within(run) \ (dead \cup E)
  BY DEF Spans, MaximalRuns
<1>2. /\ g.source \in Sources /\ g.start \in Nat /\ g.end \in Nat
      /\ g.start < g.end /\ g.end <= Length[g.source] /\ Length[g.source] \in Nat
  BY <1>1, RunIs
<1>3. run.start \in Nat /\ run.end \in Nat
  BY RunIs
<1> DEFINE a == <<g.source, g.start>>
           b == <<g.source, g.end - 1>>
<1>4. a \in Cells /\ a[1] = g.source /\ a[2] = g.start
  <2>1. g.start < Length[g.source]
    BY <1>2
  <2> QED BY <1>2, <2>1, IsCell
<1>5. b \in Cells /\ b[1] = g.source /\ b[2] = g.end - 1
  <2>1. g.end - 1 \in Nat /\ g.end - 1 < Length[g.source]
    BY <1>2
  <2> QED BY <1>2, <2>1, IsCell
<1> HIDE DEF a, b
<1>6. a \in Within(g) /\ b \in Within(g)
  <2>1. g.start <= b[2] /\ b[2] < g.end
    BY <1>2, <1>5
  <2> QED BY <1>1, <1>2, <1>4, <1>5, <2>1, InRun
<1>7. a \in Within(run) /\ b \in Within(run)
  BY <1>1, <1>6
<1>8. a[1] = run.source /\ run.start <= a[2] /\ b[2] < run.end
  BY <1>4, <1>5, <1>7, InRun
<1>9. g.end <= run.end
  BY <1>2, <1>3, <1>5, <1>8
<1> QED BY <1>1, <1>2, <1>4, <1>6, <1>8, <1>9 DEF a

LEMMA SpanIs ==
    ASSUME NEW run \in AllRuns, NEW dead, NEW E, NEW g \in Spans(run, dead, E)
    PROVE  /\ g \in AllRuns /\ g.source = run.source
           /\ g.start \in Nat /\ g.end \in Nat /\ g.start < g.end
           /\ run.start <= g.start /\ g.end <= run.end
           /\ <<g.source, g.start>> \in Cells
BY SpanHas

LEMMA SpanCells ==
    ASSUME NEW run \in AllRuns, NEW dead, NEW E, NEW g \in Spans(run, dead, E)
    PROVE  /\ Within(g) \subseteq Within(run)
           /\ <<g.source, g.start>> \in Within(g)
           /\ \A c \in Within(g) : c \notin dead /\ c \notin E
BY SpanHas

LEMMA DoneStart ==
    ASSUME NEW run \in AllRuns, NEW dead, NEW E \in SUBSET Within(run)
    PROVE  Done(run, dead, E, 0) = {}
<1>1. run.start \in Nat
  BY RunIs
<1>2. ASSUME NEW c \in E, c[2] < run.start + 0 PROVE FALSE
  <2>1. c \in Cells /\ c \in Within(run)
    BY InRun
  <2>2. c[2] \in Nat /\ run.start <= c[2]
    BY <2>1, CellIs, InRun
  <2> QED BY <1>1, <1>2, <2>2
<1>3. ASSUME NEW g \in Spans(run, dead, E), g.start < run.start + 0 PROVE FALSE
  <2>1. g.start \in Nat /\ run.start <= g.start
    BY SpanIs
  <2> QED BY <1>1, <1>3, <2>1
<1> QED BY <1>2, <1>3 DEF Done

LEMMA DoneEnd ==
    ASSUME NEW run \in AllRuns, NEW dead, NEW E \in SUBSET Within(run)
    PROVE  Done(run, dead, E, run.end - run.start) = Within(run) \ dead
<1> DEFINE n == run.end - run.start
<1>1. run.start \in Nat /\ run.end \in Nat /\ run.start + n = run.end
  BY RunIs
<1>2. ASSUME NEW c \in Within(run) \ dead PROVE c \in Done(run, dead, E, n)
  <2>1. c \in Cells
    BY InRun
  <2>2. c[2] < run.end
    BY <2>1, InRun
  <2>3. CASE c \in E
    BY <1>1, <1>2, <2>2, <2>3 DEF Done
  <2>4. CASE c \notin E
    <3> DEFINE S == Within(run) \ (dead \cup E)
    <3>1. c \in S /\ S \in SUBSET Cells
      BY <1>2, <2>4, InRun
    <3> HIDE DEF S
    <3>2. PICK g \in MaximalRuns(S) : c \in Within(g)
      BY <3>1, MaximalCovers
    <3>3. g \in Spans(run, dead, E)
      BY <3>2 DEF Spans, S
    <3>4. g.start < run.start + n
      <4>1. g.start \in Nat /\ g.end \in Nat /\ g.start < g.end /\ g.end <= run.end
        BY <3>3, SpanIs
      <4> HIDE DEF n
      <4> QED BY <1>1, <4>1
    <3> QED BY <3>2, <3>3, <3>4 DEF Done
  <2> QED BY <2>3, <2>4
<1>3. ASSUME NEW c \in Done(run, dead, E, n) PROVE c \in Within(run) \ dead
  <2>1. CASE c \in E \ dead
    BY <2>1
  <2>2. CASE c \notin E \ dead
    <3>1. PICK g \in Spans(run, dead, E) : c \in Within(g)
      BY <1>3, <2>2 DEF Done
    <3> QED BY <3>1, SpanCells
  <2> QED BY <2>1, <2>2
<1> QED BY <1>2, <1>3

\* The cells that the walk adds at its n-th cell.
LEMMA DoneNext ==
    ASSUME NEW run \in AllRuns, NEW dead, NEW E \in SUBSET Within(run),
           NEW n \in 1..(run.end - run.start)
    PROVE  /\ CellAt(run, n) \in Cells /\ CellAt(run, n) \in Within(run)
           /\ Done(run, dead, E, n) =
                Done(run, dead, E, n - 1)
                \cup ({CellAt(run, n)} \cap (E \ dead))
                \cup UNION {Within(g) : g \in {g \in Spans(run, dead, E) :
                                                StartsAt(g, CellAt(run, n))}}
           /\ CellAt(run, n) \in E => CellAt(run, n) \notin Done(run, dead, E, n - 1)
           /\ \A g \in Spans(run, dead, E) : StartsAt(g, CellAt(run, n)) =>
                Within(g) \cap Done(run, dead, E, n - 1) = {}
<1> DEFINE c == CellAt(run, n)
           at == run.start + n - 1
           spans == Spans(run, dead, E)
<1>1. /\ run.source \in Sources /\ run.start \in Nat /\ run.end \in Nat
      /\ run.start < run.end /\ run.end <= Length[run.source]
      /\ Length[run.source] \in Nat
  BY RunIs
<1>2. /\ at \in Nat /\ at < Length[run.source] /\ run.start <= at /\ at < run.end
      /\ run.start + n = at + 1 /\ run.start + (n - 1) = at
  BY <1>1
<1>3. c \in Cells /\ c[1] = run.source /\ c[2] = at
  BY <1>1, <1>2, IsCell DEF CellAt
<1> HIDE DEF c, at
<1>4. c \in Within(run)
  BY <1>2, <1>3, InRun
<1>5. ASSUME NEW e \in E PROVE (e[2] < at + 1) <=> (e[2] < at \/ e = c)
  <2>1. e \in Cells
    BY InRun
  <2>2. e[2] \in Nat /\ e[1] = run.source /\ e = <<e[1], e[2]>> /\ c = <<c[1], c[2]>>
    BY <1>3, <2>1, InRun, CellIs
  <2> QED BY <1>2, <1>3, <2>2
<1>6. ASSUME NEW g \in spans
      PROVE  (g.start < at + 1) <=> (g.start < at \/ StartsAt(g, c))
  <2>1. g.start \in Nat /\ g.source = run.source /\ <<g.source, g.start>> \in Cells
    BY SpanIs
  <2>2. c = <<c[1], c[2]>>
    BY <1>3, CellIs
  <2> QED BY <1>2, <1>3, <2>1, <2>2 DEF StartsAt
<1>7. /\ Done(run, dead, E, n) =
            {e \in E \ dead : e[2] < at + 1}
            \cup UNION {Within(g) : g \in {g \in spans : g.start < at + 1}}
      /\ Done(run, dead, E, n - 1) =
            {e \in E \ dead : e[2] < at}
            \cup UNION {Within(g) : g \in {g \in spans : g.start < at}}
  BY <1>2 DEF Done
<1> HIDE DEF spans
<1>8. Done(run, dead, E, n) =
                Done(run, dead, E, n - 1)
                \cup ({c} \cap (E \ dead))
                \cup UNION {Within(g) : g \in {g \in spans : StartsAt(g, c)}}
  BY <1>5, <1>6, <1>7
<1>9. ASSUME c \in E, c \in Done(run, dead, E, n - 1) PROVE FALSE
  <2>1. ~ (c[2] < at)
    BY <1>2, <1>3
  <2>2. PICK g \in spans : c \in Within(g)
    BY <1>7, <1>9, <2>1
  <2>3. \A d \in Within(g) : d \notin E
    BY <2>2, SpanCells, Zenon DEF spans
  <2> QED BY <1>9, <2>2, <2>3, Zenon
<1>10. ASSUME NEW g \in spans, StartsAt(g, c),
              NEW d, d \in Within(g), d \in Done(run, dead, E, n - 1)
       PROVE  FALSE
  <2>1. d \notin E
    BY <1>10, SpanCells DEF spans
  <2>2. PICK h \in spans : d \in Within(h) /\ h.start < at
    BY <1>7, <1>10, <2>1
  <2>3. g = h
    BY <1>10, <2>2, MaximalApart DEF spans, Spans
  <2>4. g.start \in Nat /\ g.start = c[2]
    BY <1>10, SpanIs DEF spans, StartsAt
  <2> QED BY <1>2, <1>3, <2>2, <2>3, <2>4
<1> QED BY <1>3, <1>4, <1>8, <1>9, <1>10 DEF c, spans

(* Store new shows the cells of more as s does, xored, and others as s does. *)
LEMMA XoredMore ==
    ASSUME NEW st, NEW s, NEW done, NEW key, Xored(st, s, done, key),
           NEW new, NEW more, more \cap done = {}, Xored(s, new, more, key)
    PROVE  Xored(st, new, done \cup more, key)
<1> SUFFICES ASSUME NEW c \in Cells
             PROVE  /\ c \in done \cup more => Seen(new, c) = Xor(Seen(st, c), key)
                    /\ c \notin done \cup more => Get(new, c) = Get(st, c)
  BY DEF Xored
<1>1. /\ c \in done => Seen(s, c) = Xor(Seen(st, c), key)
      /\ c \notin done => Get(s, c) = Get(st, c)
  BY DEF Xored
<1>2. /\ c \in more => Seen(new, c) = Xor(Seen(s, c), key)
      /\ c \notin more => Get(new, c) = Get(s, c)
  BY DEF Xored
<1>3. c \notin done => Seen(s, c) = Seen(st, c)
  BY <1>1 DEF Seen
<1>4. c \notin more => Seen(new, c) = Seen(s, c)
  BY <1>2 DEF Seen
<1> QED BY <1>1, <1>2, <1>3, <1>4

(* The edits of a run, and the stores that a walk over them comes through. *)
EditsIn(st, run) == {c \in DOMAIN st.sparse \cap Within(run) : st.sparse[c] # None}
Walking(st, run) ==
    {s \in Stores : Sound(s) /\ DOMAIN s.sparse \cap Within(run) \subseteq EditsIn(st, run)}

\* One cell of the walk over edits.
LEMMA SparseStep ==
    ASSUME NEW st, Sound(st), NEW run \in AllRuns, NEW dead, NEW key \in Byte,
           NEW n \in 1..(run.end - run.start), NEW s \in Walking(st, run),
           NEW new,
           new = XorSparseAt(s, st, CellAt(run, n), dead, EditsIn(st, run),
                             Spans(run, dead, EditsIn(st, run)), key)
    PROVE  /\ new \in Walking(st, run)
           /\ Xored(st, s, Done(run, dead, EditsIn(st, run), n - 1), key) =>
                  Xored(st, new, Done(run, dead, EditsIn(st, run), n), key)
<1> DEFINE E == EditsIn(st, run)
           c == CellAt(run, n)
           before == Done(run, dead, E, n - 1)
           after == Done(run, dead, E, n)
           starting == {g \in Spans(run, dead, E) : StartsAt(g, c)}
<1>1. E \in SUBSET Within(run)
  BY DEF EditsIn
<1>2. Sound(s) /\ s \in Stores /\ DOMAIN s.sparse \cap Within(run) \subseteq E
  BY DEF Walking
<1>3. \A r : Sound(r) /\ DOMAIN r.sparse \cap Within(run) \subseteq E => r \in Walking(st, run)
  BY DEF Walking, Sound
<1>4. /\ c \in Cells /\ c \in Within(run)
      /\ after = before \cup ({c} \cap (E \ dead)) \cup UNION {Within(g) : g \in starting}
      /\ c \in E => c \notin before
      /\ \A g \in starting : Within(g) \cap before = {}
  <2> HIDE DEF E
  <2> QED BY <1>1, DoneNext
<1>5. new = IF starting # {}
            THEN XorSourceRangeComposed(s, CHOOSE g \in starting : TRUE, key)
            ELSE IF c \in E \ dead
            THEN SetDisplayByte(s, c, Xor(st.sparse[c], key))
            ELSE s
  BY Zenon DEF XorSparseAt, StartsAt
<1> HIDE DEF before, after
<1>6. CASE starting # {}
  <2>1. PICK g \in starting : new = XorSourceRangeComposed(s, g, key)
    BY <1>5, <1>6
  <2>2. g \in Spans(run, dead, E) /\ StartsAt(g, c)
    OBVIOUS
  <2> HIDE DEF E
  <2>3. \A h \in starting : h = g
    <3> SUFFICES ASSUME NEW h \in starting PROVE h = g
      OBVIOUS
    <3>1. h \in Spans(run, dead, E) /\ StartsAt(h, c)
      OBVIOUS
    <3>2. c \in Within(h) /\ c \in Within(g)
      BY <2>2, <3>1, SpanCells DEF StartsAt
    <3> QED BY <2>2, <3>1, <3>2, MaximalApart DEF Spans
  <2>4. /\ g \in AllRuns /\ Within(g) \subseteq Within(run)
        /\ c \in Within(g) /\ \A d \in Within(g) : d \notin E
    BY <2>2, SpanIs, SpanCells DEF StartsAt
  <2> HIDE DEF starting, c
  <2>5. DOMAIN s.sparse \cap Within(g) = {}
    BY <1>2, <2>4
  <2>6. /\ Sound(new) /\ DOMAIN new.sparse \subseteq DOMAIN s.sparse
        /\ Xored(s, new, Within(g), key)
    BY <1>2, <2>1, <2>4, <2>5, XorIs
  <2>7. new \in Walking(st, run)
    BY <1>2, <1>3, <2>6
  <2>8. after = before \cup Within(g)
    BY <1>4, <2>1, <2>3, <2>4
  <2>10. Within(g) \cap before = {}
    BY <1>4, <2>1
  <2>11. Xored(st, s, before, key) => Xored(st, new, after, key)
    BY <2>6, <2>8, <2>10, XoredMore
  <2> QED BY <2>7, <2>11 DEF after, before, E
<1>7. CASE starting = {} /\ c \in E \ dead
  <2> DEFINE v == Xor(st.sparse[c], key)
  <2>1. new = SetDisplayByte(s, c, v)
    BY <1>5, <1>7
  <2>2. c \in DOMAIN st.sparse /\ st.sparse[c] # None /\ st.sparse[c] \in Byte
    BY <1>7, StoreIs DEF EditsIn, Sound
  <2>3. v \in Byte
    BY <2>2, XorIsByte
  <2> HIDE DEF v, c, E, starting
  <2>4. CellEdited(s, c, IF v = Base[c] THEN None ELSE v, new) /\ Seen(new, c) = v
    BY <1>2, <1>4, <2>1, <2>3, DisplayIs
  <2>5. new \in Walking(st, run)
    BY <1>2, <1>3, <1>7, <2>4 DEF CellEdited
  <2>6. after = before \cup {c}
    BY <1>4, <1>7
  <2>7. {c} \cap before = {}
    BY <1>4, <1>7
  <2>8. ASSUME Xored(st, s, before, key) PROVE Xored(st, new, after, key)
    <3>1. Get(s, c) = Get(st, c)
      BY <1>4, <2>7, <2>8 DEF Xored
    <3>2. Get(st, c) = st.sparse[c]
      BY <1>4, <2>2, GetIs
    <3>3. Seen(s, c) = st.sparse[c]
      BY <2>2, <3>1, <3>2 DEF Seen
    <3>4. Xored(s, new, {c}, key)
      BY <2>4, <3>3 DEF Xored, CellEdited, v
    <3> QED BY <2>6, <2>7, <2>8, <3>4, XoredMore
  <2> QED BY <2>5, <2>8 DEF after, before, E
<1>8. CASE starting = {} /\ c \notin E \ dead
  <2>1. new = s
    BY <1>5, <1>8
  <2>2. after = before
    <3> HIDE DEF starting
    <3>1. UNION {Within(g) : g \in starting} = {} /\ {c} \cap (E \ dead) = {}
      BY <1>8
    <3> QED BY <1>4, <3>1
  <2> QED BY <2>1, <2>2 DEF after, before
<1> HIDE DEF starting, c, E
<1> QED BY <1>6, <1>7, <1>8 DEF E

\* One cell of the walk that writes the bytes a run shows.
LEMMA BytesStep ==
    ASSUME NEW st, Sound(st), NEW run \in AllRuns, NEW dead, NEW key \in Byte,
           NEW n \in 1..(run.end - run.start), NEW s, Sound(s),
           NEW new,
           new = XorBytesAt(s, st, CellAt(run, n), Spans(run, dead, {}), key)
    PROVE  /\ Sound(new)
           /\ Xored(st, s, Done(run, dead, {}, n - 1), key) =>
                  Xored(st, new, Done(run, dead, {}, n), key)
<1> DEFINE c == CellAt(run, n)
           before == Done(run, dead, {}, n - 1)
           after == Done(run, dead, {}, n)
           starting == {g \in Spans(run, dead, {}) : StartsAt(g, c)}
           XoredBytes(g) == [i \in 1..(g.end - g.start) |->
                                Xor(Seen(st, <<g.source, g.start + i - 1>>), key)]
<1>1. /\ c \in Cells /\ c \in Within(run)
      /\ after = before \cup ({c} \cap ({} \ dead)) \cup UNION {Within(g) : g \in starting}
      /\ \A g \in starting : Within(g) \cap before = {}
  <2>1. {} \in SUBSET Within(run)
    OBVIOUS
  <2> QED BY <2>1, DoneNext
<1>2. new = IF starting # {}
            THEN SetBytesRange(s, CHOOSE g \in starting : TRUE,
                               XoredBytes(CHOOSE g \in starting : TRUE), 0)
            ELSE s
  BY Zenon DEF XorBytesAt, StartsAt
<1> HIDE DEF before, after
<1>3. CASE starting # {}
  <2>1. PICK g \in starting : new = SetBytesRange(s, g, XoredBytes(g), 0)
    BY <1>2, <1>3
  <2>2. g \in Spans(run, dead, {}) /\ StartsAt(g, c)
    OBVIOUS
  <2>3. \A h \in starting : h = g
    <3> SUFFICES ASSUME NEW h \in starting PROVE h = g
      OBVIOUS
    <3>1. h \in Spans(run, dead, {}) /\ StartsAt(h, c)
      OBVIOUS
    <3>2. c \in Within(h) /\ c \in Within(g)
      BY <2>2, <3>1, SpanCells DEF StartsAt
    <3> QED BY <2>2, <3>1, <3>2, MaximalApart DEF Spans
  <2>4. g \in AllRuns
    BY <2>2, SpanIs
  <2> HIDE DEF starting, c
  <2> DEFINE m == g.end - g.start
             bytes == XoredBytes(g)
             value == Bytes(bytes, 0)
  <2>5. /\ g.start \in Nat /\ g.end \in Nat /\ m \in Nat /\ g.start < g.end
        /\ Within(g) \subseteq Cells
        /\ \A d \in Cells : d \in Within(g) <=>
               d[1] = g.source /\ g.start <= d[2] /\ d[2] < g.end
    BY <2>4, RunIs, InRun
  <2>6. ASSUME NEW i \in 1..m
        PROVE  <<g.source, g.start + i - 1>> \in Cells
    <3>1. /\ g.source \in Sources /\ g.end <= Length[g.source]
          /\ Length[g.source] \in Nat
      BY <2>4, RunIs
    <3>2. g.start + i - 1 \in Nat /\ g.start + i - 1 < Length[g.source]
      BY <2>5, <3>1
    <3> QED BY <3>1, <3>2, IsCell
  <2>7. \A i \in 1..m : Xor(Seen(st, <<g.source, g.start + i - 1>>), key) \in Byte
    BY <2>6, UnderIs, XorIsByte
  <2>8. /\ bytes \in Seq(Byte) /\ Len(bytes) = m
        /\ \A i \in 1..m : bytes[i] = Xor(Seen(st, <<g.source, g.start + i - 1>>), key)
    <3>1. bytes = [i \in 1..m |-> Xor(Seen(st, <<g.source, g.start + i - 1>>), key)]
      OBVIOUS
    <3> HIDE DEF bytes, m
    <3> QED BY <2>5, <2>7, <3>1
  <2> HIDE DEF bytes, XoredBytes
  <2>9. value \in Written /\ value.kind = "Bytes" /\ value.phase = 0 /\ value.bytes = bytes
    BY <2>8 DEF Bytes, Written
  <2>10. new = SetRange(s, g, value)
    BY <2>1 DEF SetBytesRange, bytes
  <2> HIDE DEF value
  <2>11. Fits(value, m)
    <3>1. value \in Values
      BY <2>9 DEF Written, Values
    <3> HIDE DEF m
    <3> QED BY <2>5, <2>8, <2>9, <3>1, NotNull DEF Fits
  <2>12. /\ Sound(new)
         /\ \A d \in Cells :
              Get(new, d) = IF d \in Within(g) THEN ValueAt(value, d[2] - g.start, Base[d])
                            ELSE Get(s, d)
    BY <2>4, <2>10, <2>11, SetIs
  <2>13. ASSUME NEW d \in Within(g) PROVE Seen(new, d) = Xor(Seen(st, d), key)
    <3> DEFINE i == d[2] - g.start
    <3>1. /\ d \in Cells /\ d[2] \in Nat /\ d = <<d[1], d[2]>> /\ d[1] = g.source
          /\ g.start <= d[2] /\ d[2] < g.end
      BY <2>5, CellIs
    <3>2. i \in Nat /\ i < m /\ i + 1 \in 1..m /\ g.start + (i + 1) - 1 = d[2]
      BY <2>5, <3>1
    <3> HIDE DEF i, m
    <3>3. ValueAt(value, i, Base[d]) = bytes[i + 1]
      BY <2>8, <2>9, <3>2, AtBytes
    <3>4. bytes[i + 1] = Xor(Seen(st, <<g.source, g.start + (i + 1) - 1>>), key)
      BY <2>8, <3>2
    <3>5. bytes[i + 1] = Xor(Seen(st, d), key)
      BY <3>1, <3>2, <3>4
    <3>6. Xor(Seen(st, d), key) \in Byte
      BY <3>1, UnderIs, XorIsByte
    <3>7. Get(new, d) = Xor(Seen(st, d), key)
      BY <2>12, <3>1, <3>3, <3>5 DEF i
    <3> QED BY <3>6, <3>7, StoreConstants DEF Seen
  <2>14. after = before \cup Within(g)
    BY <1>1, <2>1, <2>3
  <2>15. Within(g) \cap before = {}
    BY <1>1, <2>1
  <2>16. ASSUME Xored(st, s, before, key) PROVE Xored(st, new, after, key)
    <3>1. \A d \in Within(g) : Seen(s, d) = Seen(st, d)
      BY <2>5, <2>15, <2>16 DEF Xored, Seen
    <3>2. Xored(s, new, Within(g), key)
      BY <2>12, <2>13, <3>1 DEF Xored
    <3> QED BY <2>14, <2>15, <2>16, <3>2, XoredMore
  <2> QED BY <2>12, <2>16 DEF after, before
<1>4. CASE starting = {}
  <2>1. new = s
    BY <1>2, <1>4
  <2>2. after = before
    <3> HIDE DEF starting
    <3>1. UNION {Within(g) : g \in starting} = {}
      BY <1>4
    <3> QED BY <1>1, <3>1
  <2> QED BY <2>1, <2>2 DEF after, before
<1> HIDE DEF starting, c
<1> QED BY <1>3, <1>4

(* The two walks, by recursion along the run. *)

\* The walk over a run with edits xors every visible byte of it.
LEMMA SparseWalk ==
    ASSUME NEW st, Sound(st), NEW run \in AllRuns, NEW dead, NEW key \in Byte,
           DOMAIN st.sparse \cap Within(run) \subseteq EditsIn(st, run)
    PROVE  /\ Sound(XorSparseUpTo(st, run, dead, key)[run.end - run.start])
           /\ Xored(st, XorSparseUpTo(st, run, dead, key)[run.end - run.start],
                    Within(run) \ dead, key)
<1> DEFINE n == run.end - run.start
           E == EditsIn(st, run)
           X == Walking(st, run)
           At(x, i) == XorSparseAt(x, st, CellAt(run, i), dead, E, Spans(run, dead, E), key)
           step == [i \in 1..n |-> [x \in X |-> At(x, i)]]
           walk == XorSparseUpTo(st, run, dead, key)
           Is(f) == f = [i \in 0..n |-> IF i = 0 THEN st ELSE At(f[i - 1], i)]
<1>0. n \in Nat /\ E \in SUBSET Within(run)
  BY RunIs DEF EditsIn
<1>1. st \in X /\ \A x \in X : Sound(x)
  BY DEF Walking, Sound
<1>2. ASSUME NEW i \in 1..n, NEW x \in X
      PROVE  /\ At(x, i) \in X
             /\ Xored(st, x, Done(run, dead, E, i - 1), key) =>
                    Xored(st, At(x, i), Done(run, dead, E, i), key)
  <2> DEFINE new == At(x, i)
  <2> HIDE DEF X, E
  <2>1. new = XorSparseAt(x, st, CellAt(run, i), dead, EditsIn(st, run),
                          Spans(run, dead, EditsIn(st, run)), key)
    BY DEF E
  <2> HIDE DEF new
  <2> QED BY <2>1, SparseStep DEF X, E, new
<1>3. walk = CHOOSE f : Is(f)
  BY Zenon DEF XorSparseUpTo, EditsIn, Spans, CellAt
<1> HIDE DEF n, At, X, E, walk
<1>4. step \in [1..n -> [X -> X]] /\ \A i \in 1..n : \A x \in X : step[i][x] = At(x, i)
  BY <1>2
<1> HIDE DEF step
<1>5. PICK f \in [0..n -> X] : Order!Repeats(f, n, st, step)
  BY <1>0, <1>1, <1>4, Recursion
<1>6. Is(f)
  <2>1. ASSUME NEW i \in 0..n
        PROVE  f[i] = IF i = 0 THEN st ELSE At(f[i - 1], i)
    <3>1. CASE i = 0
      BY <1>5, <3>1 DEF Order!Repeats
    <3>2. CASE i # 0
      <4>0. i \in 1..n /\ i - 1 \in 0..n
        BY <1>0, <3>2
      <4>1. f[i - 1] \in X
        BY <4>0
      <4>2. f[i] = step[i][f[i - 1]]
        BY <1>5, <4>0 DEF Order!Repeats
      <4> QED BY <1>4, <3>2, <4>0, <4>1, <4>2
    <3> QED BY <3>1, <3>2
  <2> QED BY <2>1
<1>7. Is(walk)
  <2> HIDE DEF Is
  <2> QED BY <1>3, <1>6, Zenon
<1>8. walk[0] = st /\ \A i \in 1..n : walk[i] = At(walk[i - 1], i)
  <2>1. \A i \in 0..n : walk[i] = IF i = 0 THEN st ELSE At(walk[i - 1], i)
    BY <1>7, Zenon
  <2>2. 0 \in 0..n /\ \A i \in 1..n : i \in 0..n /\ i # 0
    BY <1>0
  <2> QED BY <2>1, <2>2, Zenon
<1>9. \A i \in 0..n : walk[i] \in X /\ Xored(st, walk[i], Done(run, dead, E, i), key)
  <2> DEFINE T == {i \in 0..n : walk[i] \in X
                                /\ Xored(st, walk[i], Done(run, dead, E, i), key)}
  <2>1. 0 \in T
    <3>1. Xored(st, st, {}, key)
      BY DEF Xored
    <3>2. Done(run, dead, E, 0) = {}
      BY <1>0, DoneStart
    <3>3. walk[0] \in X /\ Xored(st, walk[0], Done(run, dead, E, 0), key)
      BY <1>1, <1>8, <3>1, <3>2, Zenon
    <3>4. 0 \in 0..n
      BY <1>0
    <3> QED BY <3>3, <3>4, Zenon
  <2>2. ASSUME NEW i \in 1..n, i - 1 \in T PROVE i \in T
    <3>1. i \in 0..n /\ walk[i - 1] \in X
          /\ Xored(st, walk[i - 1], Done(run, dead, E, i - 1), key)
      BY <1>0, <2>2
    <3> QED BY <1>2, <1>8, <3>1
  <2> HIDE DEF T
  <2>3. \A i \in 0..n : i \in T
    BY <1>0, <2>1, <2>2, UpTo
  <2> QED BY <2>3 DEF T
<1>10. n \in 0..n
  BY <1>0
<1>11. Done(run, dead, E, n) = Within(run) \ dead
  BY <1>0, DoneEnd DEF n
<1> QED BY <1>1, <1>9, <1>10, <1>11 DEF walk, n

\* The walk that writes the bytes a run shows xors every visible byte of it.
LEMMA BytesWalk ==
    ASSUME NEW st, Sound(st), NEW run \in AllRuns, NEW dead, NEW key \in Byte
    PROVE  /\ Sound(XorBytesUpTo(st, run, dead, key)[run.end - run.start])
           /\ Xored(st, XorBytesUpTo(st, run, dead, key)[run.end - run.start],
                    Within(run) \ dead, key)
<1> DEFINE n == run.end - run.start
           E == {}
           X == {x \in Stores : Sound(x)}
           At(x, i) == XorBytesAt(x, st, CellAt(run, i), Spans(run, dead, E), key)
           step == [i \in 1..n |-> [x \in X |-> At(x, i)]]
           walk == XorBytesUpTo(st, run, dead, key)
           Is(f) == f = [i \in 0..n |-> IF i = 0 THEN st ELSE At(f[i - 1], i)]
<1>0. n \in Nat /\ E \in SUBSET Within(run)
  BY RunIs
<1>1. st \in X /\ \A x \in X : Sound(x)
  BY DEF Sound
<1>2. ASSUME NEW i \in 1..n, NEW x \in X
      PROVE  /\ At(x, i) \in X
             /\ Xored(st, x, Done(run, dead, E, i - 1), key) =>
                    Xored(st, At(x, i), Done(run, dead, E, i), key)
  <2> DEFINE new == At(x, i)
  <2>1. new = XorBytesAt(x, st, CellAt(run, i), Spans(run, dead, {}), key) /\ Sound(x)
    OBVIOUS
  <2> HIDE DEF new
  <2>2. /\ Sound(new)
        /\ Xored(st, x, Done(run, dead, {}, i - 1), key) =>
              Xored(st, new, Done(run, dead, {}, i), key)
    BY <2>1, BytesStep
  <2>3. new \in X
    BY <2>2 DEF Sound
  <2> QED BY <2>2, <2>3 DEF new
<1>3. walk = CHOOSE f : Is(f)
  <2> DEFINE spans == MaximalRuns(Within(run) \ dead)
  <2>1. Spans(run, dead, E) = spans
    <3>1. Within(run) \ (dead \cup {}) = Within(run) \ dead
      OBVIOUS
    <3> QED BY <3>1 DEF Spans
  <2>2. walk = CHOOSE f : f = [i \in 0..n |-> IF i = 0 THEN st
                                ELSE XorBytesAt(f[i - 1], st, CellAt(run, i), spans, key)]
    BY Zenon DEF XorBytesUpTo, CellAt
  <2> HIDE DEF spans
  <2> QED BY <2>1, <2>2
<1> HIDE DEF n, At, X, E, walk
<1>4. step \in [1..n -> [X -> X]] /\ \A i \in 1..n : \A x \in X : step[i][x] = At(x, i)
  BY <1>2
<1> HIDE DEF step
<1>5. PICK f \in [0..n -> X] : Order!Repeats(f, n, st, step)
  BY <1>0, <1>1, <1>4, Recursion
<1>6. Is(f)
  <2>1. ASSUME NEW i \in 0..n
        PROVE  f[i] = IF i = 0 THEN st ELSE At(f[i - 1], i)
    <3>1. CASE i = 0
      BY <1>5, <3>1 DEF Order!Repeats
    <3>2. CASE i # 0
      <4>0. i \in 1..n /\ i - 1 \in 0..n
        BY <1>0, <3>2
      <4>1. f[i - 1] \in X
        BY <4>0
      <4>2. f[i] = step[i][f[i - 1]]
        BY <1>5, <4>0 DEF Order!Repeats
      <4> QED BY <1>4, <3>2, <4>0, <4>1, <4>2
    <3> QED BY <3>1, <3>2
  <2> QED BY <2>1
<1>7. Is(walk)
  <2> HIDE DEF Is
  <2> QED BY <1>3, <1>6, Zenon
<1>8. walk[0] = st /\ \A i \in 1..n : walk[i] = At(walk[i - 1], i)
  <2>1. \A i \in 0..n : walk[i] = IF i = 0 THEN st ELSE At(walk[i - 1], i)
    BY <1>7, Zenon
  <2>2. 0 \in 0..n /\ \A i \in 1..n : i \in 0..n /\ i # 0
    BY <1>0
  <2> QED BY <2>1, <2>2, Zenon
<1>9. \A i \in 0..n : walk[i] \in X /\ Xored(st, walk[i], Done(run, dead, E, i), key)
  <2> DEFINE T == {i \in 0..n : walk[i] \in X
                                /\ Xored(st, walk[i], Done(run, dead, E, i), key)}
  <2>1. 0 \in T
    <3>1. Xored(st, st, {}, key)
      BY DEF Xored
    <3>2. Done(run, dead, E, 0) = {}
      BY <1>0, DoneStart
    <3>3. walk[0] \in X /\ Xored(st, walk[0], Done(run, dead, E, 0), key)
      BY <1>1, <1>8, <3>1, <3>2, Zenon
    <3>4. 0 \in 0..n
      BY <1>0
    <3> QED BY <3>3, <3>4, Zenon
  <2>2. ASSUME NEW i \in 1..n, i - 1 \in T PROVE i \in T
    <3>1. i \in 0..n /\ walk[i - 1] \in X
          /\ Xored(st, walk[i - 1], Done(run, dead, E, i - 1), key)
      BY <1>0, <2>2
    <3> QED BY <1>2, <1>8, <3>1
  <2> HIDE DEF T
  <2>3. \A i \in 0..n : i \in T
    BY <1>0, <2>1, <2>2, UpTo
  <2> QED BY <2>3 DEF T
<1>10. n \in 0..n
  BY <1>0
<1>11. Done(run, dead, E, n) = Within(run) \ dead
  BY <1>0, DoneEnd DEF n
<1> QED BY <1>1, <1>9, <1>10, <1>11 DEF walk, n

\* A xor with tombstones and over whatever the run holds changes every visible
\* byte of it by the key and no other cell.
LEMMA MixedIs ==
    ASSUME NEW st, Sound(st), NEW run \in AllRuns, NEW dead \in SUBSET Within(run),
           NEW key \in Byte
    PROVE  /\ Sound(XorMixedOverlay(st, run, dead, key))
           /\ Xored(st, XorMixedOverlay(st, run, dead, key), Within(run) \ dead, key)
<1> DEFINE new == XorMixedOverlay(st, run, dead, key)
           held == (dead \cup DOMAIN st.sparse) \cap Within(run)
           keys == OverlappingKeys(st, run)
<1>1. ASSUME key = {} PROVE Xored(st, st, Within(run) \ dead, key)
  <2>1. \A c \in Cells : Xor(Seen(st, c), key) = Seen(st, c)
    BY <1>1, UnderIs, XorNone
  <2> QED BY <2>1 DEF Xored
<1>2. /\ held = {} => new = XorSourceRangeComposed(st, run, key)
      /\ held # {} /\ keys = {} => new = XorSparseOverlay(st, run, dead, key)
      /\ held # {} /\ keys # {} => new = XorBytesOverlay(st, run, dead, key)
  BY DEF XorMixedOverlay
<1>3. CASE held = {}
  <2>1. DOMAIN st.sparse \cap Within(run) = {} /\ Within(run) \ dead = Within(run)
    BY <1>3
  <2>2. new = XorSourceRangeComposed(st, run, key)
    BY <1>2, <1>3
  <2> HIDE DEF new, held
  <2>3. DOMAIN st.sparse \cap Within(run) = {}
    BY <2>1
  <2>4. Sound(new) /\ Xored(st, new, Within(run), key)
    BY <2>2, <2>3, XorIs
  <2>5. Xored(st, new, Within(run) \ dead, key)
    BY <2>1, <2>4
  <2> QED BY <2>4, <2>5, Zenon DEF new
<1>4. CASE held # {} /\ keys = {}
  <2>1. new = IF key = {} THEN st
              ELSE XorSparseUpTo(st, run, dead, key)[run.end - run.start]
    BY <1>2, <1>4 DEF XorSparseOverlay
  <2>2. DOMAIN st.sparse \cap Within(run) \subseteq EditsIn(st, run)
    <3>1. GapCells(st, run) = Within(run)
      BY <1>4 DEF GapCells
    <3>2. \A c \in Within(run) : \A k \in DOMAIN st.ranges : c \notin Covered(st, k)
      BY <3>1, GapIs
    <3> QED BY <3>2 DEF EditsIn, Sound, Anchored
  <2> HIDE DEF new, held, keys
  <2> QED BY <1>1, <2>1, <2>2, SparseWalk DEF new
<1>5. CASE held # {} /\ keys # {}
  <2>1. new = IF key = {} THEN st
              ELSE XorBytesUpTo(st, run, dead, key)[run.end - run.start]
    BY <1>2, <1>5 DEF XorBytesOverlay
  <2> HIDE DEF new, held, keys
  <2> QED BY <1>1, <2>1, BytesWalk DEF new
<1> HIDE DEF new, held, keys
<1> QED BY <1>3, <1>4, <1>5 DEF new

(***************************************************************************)
(* The invariant                                                           *)
(***************************************************************************)

(* The store is well formed, with the types of its entries. *)
StoreInv == Sound(store)

LEMMA EmptySound == Sound(Empty)
<1>1. <<>> = [c \in {} |-> None] /\ DOMAIN <<>> = {}
  OBVIOUS
<1> DEFINE f == <<>>
<1>2. DOMAIN f = {} /\ f \in [DOMAIN f -> Byte \cup {None}] /\ f \in [DOMAIN f -> Held]
  BY <1>1
<1> HIDE DEF f
<1>3. [sparse |-> f, ranges |-> f] \in Stores
  BY <1>2, IsStore
<1>4. Empty = [sparse |-> f, ranges |-> f]
  BY DEF Empty, f
<1>5. DOMAIN Empty.sparse = {} /\ DOMAIN Empty.ranges = {} /\ Empty \in Stores
  BY <1>2, <1>3, <1>4
<1> QED BY <1>5 DEF Sound, Placed, Apart, Anchored

LEMMA PatternFits ==
    ASSUME NEW pattern \in Patterns, NEW phase \in 0..(Len(pattern) - 1), NEW n
    PROVE  /\ Pattern(pattern, phase) \in Repeated
           /\ Pattern(pattern, phase).bytes = pattern
           /\ Pattern(pattern, phase).phase = phase
           /\ pattern # <<>> /\ Len(pattern) \in Nat /\ phase \in Nat
           /\ Fits(Pattern(pattern, phase), n)
<1>1. pattern \in Seq(Byte) /\ pattern # <<>>
  BY StoreConstants
<1>2. Len(pattern) \in Nat /\ phase \in Nat
  BY <1>1
<1>3. Pattern(pattern, phase) # XorWith({})
  BY NotNull DEF Pattern
<1> QED BY <1>1, <1>2, <1>3 DEF Pattern, Repeated, Fits, Values

LEMMA BytesFit ==
    ASSUME NEW bytes \in Runs, NEW n \in Nat, NEW phase \in 0..(Len(bytes) - n)
    PROVE  /\ Bytes(bytes, phase) \in Written
           /\ Bytes(bytes, phase).bytes = bytes /\ Bytes(bytes, phase).phase = phase
           /\ Len(bytes) \in Nat /\ phase \in Nat /\ phase + n <= Len(bytes)
           /\ Fits(Bytes(bytes, phase), n)
<1>1. bytes \in Seq(Byte)
  BY StoreConstants
<1>2. Len(bytes) \in Nat /\ phase \in Nat /\ phase + n <= Len(bytes)
  BY <1>1
<1>3. Bytes(bytes, phase) # XorWith({})
  BY NotNull DEF Bytes
<1> QED BY <1>1, <1>2, <1>3 DEF Bytes, Written, Fits, Values

LEMMA RunLength ==
    ASSUME NEW run \in AllRuns
    PROVE  run.end - run.start \in Nat
BY RunIs

LEMMA XorFits ==
    ASSUME NEW key \in Byte, key # {}, NEW n
    PROVE  Fits(XorWith(key), n)
<1>1. XorWith(key) \in Values /\ XorWith(key).kind = "Xor" /\ XorWith(key).key = key
  BY DEF XorWith, Values
<1> QED BY <1>1, NotNull DEF Fits

LEMMA XorRangeSound ==
    ASSUME NEW st, Sound(st), NEW run \in AllRuns, NEW key \in Byte
    PROVE  /\ Sound(SetXorRange(st, run, key))
           /\ \A c \in Cells : c \notin Within(run) =>
                  Get(SetXorRange(st, run, key), c) = Get(st, c)
<1>1. CASE key = {}
  BY <1>1 DEF SetXorRange
<1>2. CASE key # {}
  <2>1. SetXorRange(st, run, key) = SetRange(st, run, XorWith(key))
    BY <1>2 DEF SetXorRange
  <2> QED BY <1>2, <2>1, XorFits, SetIs
<1> QED BY <1>1, <1>2

LEMMA StoreInvInit == Init => StoreInv
BY EmptySound DEF Init, StoreInv

\* Every operation keeps the store sound.
LEMMA StoreInvStep == StoreInv /\ [Next]_store => StoreInv'
<1> SUFFICES ASSUME Sound(store), [Next]_store PROVE Sound(store')
  BY DEF StoreInv
<1>1. CASE Restore
  <2>1. PICK c \in Cells :
            \/ \E v \in Byte : store' = SetDisplayByte(store, c, v)
            \/ \E v \in Byte \cup {None} : store' = RestoreReplacement(store, c, v)
    BY <1>1 DEF Restore
  <2>2. ASSUME NEW v \in Byte, store' = SetDisplayByte(store, c, v) PROVE Sound(store')
    BY <2>2, DisplayIs DEF CellEdited
  <2>3. ASSUME NEW v \in Byte \cup {None}, store' = RestoreReplacement(store, c, v)
        PROVE  Sound(store')
    BY <2>3, RestoreIs DEF CellEdited
  <2> QED BY <2>1, <2>2, <2>3
<1>2. CASE Clear
  BY <1>2, ClearSound DEF Clear
<1>3. CASE Fill
  <2>1. PICK run \in AllRuns, pattern \in Patterns : \E phase \in 0..(Len(pattern) - 1) :
            store' = SetPatternRange(store, run, pattern, phase)
    BY <1>3 DEF Fill
  <2>2. PICK phase \in 0..(Len(pattern) - 1) :
            store' = SetRange(store, run, Pattern(pattern, phase))
    BY <2>1 DEF SetPatternRange
  <2> QED BY <2>2, PatternFits, SetIs
<1>4. CASE Paste
  <2>1. PICK run \in AllRuns, bytes \in Runs :
            \E phase \in 0..(Len(bytes) - (run.end - run.start)) :
                store' = SetBytesRange(store, run, bytes, phase)
    BY <1>4 DEF Paste
  <2>2. PICK phase \in 0..(Len(bytes) - (run.end - run.start)) :
            store' = SetRange(store, run, Bytes(bytes, phase))
    BY <2>1 DEF SetBytesRange
  <2> QED BY <2>2, RunLength, BytesFit, SetIs
<1>5. CASE XorPristine
  <2>1. PICK run \in AllRuns, key \in Keys : store' = SetXorRange(store, run, key)
    BY <1>5 DEF XorPristine
  <2>2. key \in Byte
    BY StoreConstants
  <2> QED BY <2>1, <2>2, XorRangeSound
<1>6. CASE XorAgain
  <2>1. PICK run \in AllRuns, key \in Keys : \E dead \in Tombstones(run) :
            store' = XorMixedOverlay(store, run, dead, key)
    BY <1>6 DEF XorAgain
  <2>2. PICK dead \in Tombstones(run) : store' = XorMixedOverlay(store, run, dead, key)
    BY <2>1
  <2>3. dead \in SUBSET Within(run) /\ key \in Byte
    BY StoreConstants DEF Tombstones
  <2> QED BY <2>2, <2>3, MixedIs
<1>7. CASE Reset
  BY <1>7, EmptySound DEF Reset
<1>8. CASE UNCHANGED store
  BY <1>8
<1> QED BY <1>1, <1>2, <1>3, <1>4, <1>5, <1>6, <1>7, <1>8 DEF Next

\* The type of the store and its structure are an invariant: ranges are apart
\* and fit their source and their bytes, and markers of cells that are not
\* replaced lie on ranges, however the operations of replacements.rs and
\* transform.rs follow each other.
THEOREM StoreInvariant == Spec => []StoreInv
BY StoreInvInit, StoreInvStep, PTL DEF Spec

LEMMA SoundIsWellFormed == StoreInv => WellFormed
<1> SUFFICES ASSUME Sound(store) PROVE WellFormed
  BY DEF StoreInv
<1>0. store \in Stores /\ Placed(store) /\ Apart(store) /\ Anchored(store)
  BY DEF Sound
<1>1. DOMAIN store.ranges \subseteq Cells /\ DOMAIN store.sparse \subseteq Cells
  BY <1>0, StoreIs
<1>2. ASSUME NEW k \in DOMAIN store.ranges
      PROVE  LET range == store.ranges[k]
             IN  /\ range.len \in 1..(Length[k[1]] - k[2])
                 /\ range.value \in Values
                 /\ range.value.kind = "Pattern" => range.value.bytes # <<>>
                 /\ range.value.kind = "Bytes" =>
                        range.value.phase + range.len <= Len(range.value.bytes)
  <2> DEFINE range == store.ranges[k]
  <2>1. /\ k[2] \in Nat /\ range.len \in Nat \ {0} /\ EndOf(store, k) = k[2] + range.len
        /\ EndOf(store, k) <= Length[k[1]] /\ Fits(range.value, range.len)
        /\ Length[k[1]] \in Nat
    BY <1>0, <1>1, RangeIs, CellIs
  <2> HIDE DEF range
  <2>2. range.len \in 1..(Length[k[1]] - k[2])
    BY <2>1
  <2>3. /\ range.value \in Values
        /\ range.value.kind = "Pattern" => range.value.bytes # <<>>
        /\ range.value.kind = "Bytes" =>
               range.value.phase + range.len <= Len(range.value.bytes)
    BY <2>1 DEF Fits
  <2> QED BY <2>2, <2>3, Zenon DEF range
<1>3. ASSUME NEW c \in DOMAIN store.sparse
      PROVE  /\ store.sparse[c] \in {None} \cup Byte
             /\ store.sparse[c] = None => RangeContaining(store, c) # {}
  <2>1. store.sparse[c] \in Byte \cup {None}
    BY <1>0, StoreIs
  <2>2. ASSUME store.sparse[c] = None PROVE RangeContaining(store, c) # {}
    <3>1. PICK k \in DOMAIN store.ranges : c \in Covered(store, k)
      BY <1>0, <2>2 DEF Anchored
    <3> QED BY <1>1, <3>1, ContainingIs
  <2> QED BY <2>1, <2>2
<1> QED BY <1>0, <1>1, <1>2, <1>3 DEF WellFormed, Apart

\* WellFormed, for all lengths, patterns, runs and keys: ranges never overlap,
\* run past their source or past their bytes (the debug assertion of
\* set_bytes_range), and clear_cell's marker lies on a range.
THEOREM StoreIsWellFormed == Spec => []WellFormed
BY StoreInvariant, SoundIsWellFormed, PTL

(***************************************************************************)
(* Edits                                                                   *)
(***************************************************************************)

LEMMA ClearsAreExact ==
    ASSUME Sound(store)
    PROVE  ClearsExactly
BY ClearGet DEF ClearsExactly, Becomes

LEMMA FillIsExact ==
    ASSUME Sound(store), NEW run \in AllRuns, NEW pattern \in Patterns,
           NEW phase \in 0..(Len(pattern) - 1), NEW c \in Cells
    PROVE  Get(SetPatternRange(store, run, pattern, phase), c)
              = IF c \in Within(run)
                THEN pattern[((phase + c[2] - run.start) % Len(pattern)) + 1]
                ELSE Get(store, c)
<1> DEFINE value == Pattern(pattern, phase)
           i == c[2] - run.start
           new == SetPatternRange(store, run, pattern, phase)
<1>1. /\ value \in Repeated /\ value.bytes = pattern /\ value.phase = phase
      /\ pattern # <<>> /\ Len(pattern) \in Nat /\ phase \in Nat
      /\ Fits(value, run.end - run.start)
  BY PatternFits
<1>2. new = SetRange(store, run, value)
  BY DEF SetPatternRange
<1> HIDE DEF value, new
<1>3. Get(new, c) = IF c \in Within(run) THEN ValueAt(value, i, Base[c]) ELSE Get(store, c)
  BY <1>1, <1>2, SetIs
<1>4. CASE c \in Within(run)
  <2>1. c[2] \in Nat /\ run.start \in Nat /\ run.start <= c[2]
    BY <1>4, CellIs, RunIs, InRun
  <2>2. i \in Nat /\ phase + i = phase + c[2] - run.start
    BY <1>1, <2>1
  <2> HIDE DEF i
  <2>3. ValueAt(value, i, Base[c]) = pattern[((phase + i) % Len(pattern)) + 1]
    BY <1>1, <2>2, AtPattern
  <2> QED BY <1>3, <1>4, <2>2, <2>3 DEF new
<1>5. CASE c \notin Within(run)
  BY <1>3, <1>5 DEF new
<1> QED BY <1>4, <1>5

LEMMA PasteIsExact ==
    ASSUME Sound(store), NEW run \in AllRuns, NEW bytes \in Runs,
           NEW phase \in 0..(Len(bytes) - (run.end - run.start)), NEW c \in Cells
    PROVE  Get(SetBytesRange(store, run, bytes, phase), c)
              = IF c \in Within(run) THEN bytes[phase + c[2] - run.start + 1]
                ELSE Get(store, c)
<1> DEFINE value == Bytes(bytes, phase)
           i == c[2] - run.start
           m == run.end - run.start
           new == SetBytesRange(store, run, bytes, phase)
<1>0. m \in Nat
  BY RunLength
<1>1. /\ value \in Written /\ value.bytes = bytes /\ value.phase = phase
      /\ Len(bytes) \in Nat /\ phase \in Nat /\ phase + m <= Len(bytes)
      /\ Fits(value, m)
  <2> HIDE DEF value
  <2> QED BY <1>0, BytesFit DEF value
<1>2. new = SetRange(store, run, value)
  BY DEF SetBytesRange
<1> HIDE DEF value, new
<1>3. Get(new, c) = IF c \in Within(run) THEN ValueAt(value, i, Base[c]) ELSE Get(store, c)
  BY <1>1, <1>2, SetIs
<1>4. CASE c \in Within(run)
  <2>1. /\ c[2] \in Nat /\ run.start \in Nat /\ run.end \in Nat
        /\ run.start <= c[2] /\ c[2] < run.end
    BY <1>4, CellIs, RunIs, InRun
  <2>2. i \in Nat /\ i < m /\ phase + i + 1 = phase + c[2] - run.start + 1
    BY <1>1, <2>1
  <2>3. phase + i < Len(bytes)
    <3> HIDE DEF i, m
    <3> QED BY <1>0, <1>1, <2>2
  <2> HIDE DEF i, m
  <2>4. ValueAt(value, i, Base[c]) = bytes[phase + i + 1]
    BY <1>1, <2>2, <2>3, AtBytes
  <2> QED BY <1>3, <1>4, <2>2, <2>4 DEF new
<1>5. CASE c \notin Within(run)
  BY <1>3, <1>5 DEF new
<1> QED BY <1>4, <1>5

LEMMA OverlaysAreExact ==
    ASSUME Sound(store)
    PROVE  OverlaysExactly
<1> SUFFICES ASSUME NEW run \in AllRuns
             PROVE  /\ \A pattern \in Patterns : \A phase \in 0..(Len(pattern) - 1) :
                        Becomes(SetPatternRange(store, run, pattern, phase), Within(run),
                                LAMBDA c : pattern[((phase + c[2] - run.start)
                                                        % Len(pattern)) + 1])
                    /\ \A bytes \in Runs :
                        \A phase \in 0..(Len(bytes) - (run.end - run.start)) :
                            Becomes(SetBytesRange(store, run, bytes, phase), Within(run),
                                    LAMBDA c : bytes[phase + c[2] - run.start + 1])
  BY DEF OverlaysExactly
<1>1. ASSUME NEW pattern \in Patterns, NEW phase \in 0..(Len(pattern) - 1)
      PROVE  Becomes(SetPatternRange(store, run, pattern, phase), Within(run),
                     LAMBDA c : pattern[((phase + c[2] - run.start) % Len(pattern)) + 1])
  BY FillIsExact DEF Becomes
<1>2. ASSUME NEW bytes \in Runs, NEW phase \in 0..(Len(bytes) - (run.end - run.start))
      PROVE  Becomes(SetBytesRange(store, run, bytes, phase), Within(run),
                     LAMBDA c : bytes[phase + c[2] - run.start + 1])
  BY PasteIsExact DEF Becomes
<1> QED BY <1>1, <1>2

LEMMA XorsAreExact ==
    ASSUME Sound(store)
    PROVE  XorsExactly
<1> SUFFICES ASSUME NEW run \in AllRuns, NEW key \in Keys, NEW dead \in Tombstones(run)
             PROVE  LET after == XorMixedOverlay(store, run, dead, key)
                    IN  \A c \in Cells :
                            IF c \in Within(run) \ dead
                            THEN Seen(after, c) = Xor(Seen(store, c), key)
                            ELSE Get(after, c) = Get(store, c)
  BY DEF XorsExactly
<1>1. dead \in SUBSET Within(run) /\ key \in Byte
  BY StoreConstants DEF Tombstones
<1>2. Xored(store, XorMixedOverlay(store, run, dead, key), Within(run) \ dead, key)
  BY <1>1, MixedIs
<1> QED BY <1>2 DEF Xored

LEMMA SoundEdits == StoreInv => EditsExact
BY ClearsAreExact, OverlaysAreExact, XorsAreExact DEF StoreInv, EditsExact

\* EditsExact, for all lengths, patterns, runs and keys: in every state of the
\* store, a clear, a fill, a paste and a xor of any run change its cells as
\* they should, and no cell around it.
THEOREM EditsAreExact == Spec => []EditsExact
BY StoreInvariant, SoundEdits, PTL

\* A range that covers a cell of a run overlaps it.
LEMMA CoversOverlaps ==
    ASSUME NEW st \in Stores, Placed(st), NEW run \in AllRuns,
           NEW k \in DOMAIN st.ranges, NEW c, c \in Covered(st, k), c \in Within(run)
    PROVE  Overlaps(st, k, run)
<1>1. /\ run.start \in Nat /\ run.end \in Nat
  BY RunIs
<1>2. c \in Cells
  BY InRun
<1>3. c[2] \in Nat
  BY <1>2, CellIs
<1>4. c[1] = run.source /\ run.start <= c[2] /\ c[2] < run.end
  BY <1>2, InRun
<1>5. /\ c[1] = k[1] /\ k[2] <= c[2] /\ c[2] < EndOf(st, k)
      /\ k[2] \in Nat /\ EndOf(st, k) \in Nat
  BY <1>2, RangeIs
<1> QED BY <1>1, <1>3, <1>4, <1>5 DEF Overlaps

(***************************************************************************)
(* Patches                                                                 *)
(***************************************************************************)

(* What a patch of a run keeps of range k. *)
PartOf(st, k, run) ==
    LET part == Clipped(st, k, run)
    IN  [run |-> part, value |-> Shifted(st.ranges[k].value, part.start - k[2])]

Parts(st, run) == {PartOf(st, k, run) : k \in OverlappingKeys(st, run)}

(* Part p shows what range k shows in the run. *)
Keeps(st, k, run, p) ==
    /\ p.run \in AllRuns
    /\ Fits(p.value, p.run.end - p.run.start)
    /\ Within(p.run) = Covered(st, k) \cap Within(run)
    /\ \A c \in Within(p.run) :
        ValueAt(p.value, c[2] - p.run.start, Base[c]) = Shown(st, k, c)

LEMMA PatchIs ==
    ASSUME NEW st, NEW run
    PROVE  /\ PatchForSourceRange(st, run).ranges = Parts(st, run)
           /\ PatchForSourceRange(st, run).sparse
                = [c \in DOMAIN st.sparse \cap Within(run) |-> st.sparse[c]]
<1> DEFINE parts == Parts(st, run)
           sparse == [c \in DOMAIN st.sparse \cap Within(run) |-> st.sparse[c]]
<1>1. PatchForSourceRange(st, run) = [ranges |-> parts, sparse |-> sparse]
  BY Zenon DEF PatchForSourceRange, Parts, PartOf
<1> HIDE DEF parts, sparse
<1>2. /\ PatchForSourceRange(st, run).ranges = parts
      /\ PatchForSourceRange(st, run).sparse = sparse
  BY <1>1
<1> QED BY <1>2 DEF parts, sparse

LEMMA PartIs ==
    ASSUME NEW st, Sound(st), NEW run \in AllRuns,
           NEW k \in DOMAIN st.ranges, Overlaps(st, k, run)
    PROVE  Keeps(st, k, run, PartOf(st, k, run))
<1> DEFINE part == Clipped(st, k, run)
           old == st.ranges[k].value
           len == st.ranges[k].len
           delta == part.start - k[2]
           m == part.end - part.start
           value == Shifted(old, delta)
           p == PartOf(st, k, run)
<1>0. st \in Stores /\ Placed(st)
  BY DEF Sound
<1>1. /\ part \in AllRuns /\ part.start \in Nat /\ part.end \in Nat
      /\ k[2] <= part.start /\ part.end <= EndOf(st, k) /\ part.start < part.end
      /\ Within(part) = Covered(st, k) \cap Within(run)
  BY ClippedIs, Zenon
<1>2. /\ k[2] \in Nat /\ len \in Nat /\ EndOf(st, k) = k[2] + len /\ Fits(old, len)
  BY <1>0, RangeIs
<1>3. p = [run |-> part, value |-> value]
  BY Zenon DEF PartOf
<1> HIDE DEF p, part, old, len
<1>4. delta \in Nat /\ m \in Nat /\ delta + m <= len
  BY <1>1, <1>2
<1> HIDE DEF delta, m
<1>5. /\ Fits(value, m)
      /\ \A i \in Nat : \A b : i < m => ValueAt(value, i, b) = ValueAt(old, delta + i, b)
  <2>1. Fits(value, m)
    BY <1>2, <1>4, ShiftedFits
  <2>2. ASSUME NEW i \in Nat, NEW b, i < m
        PROVE  ValueAt(value, i, b) = ValueAt(old, delta + i, b)
    <3>1. delta + i < len
      BY <1>2, <1>4, <2>2
    <3> QED BY <1>2, <1>4, <3>1, ShiftedAt
  <2> QED BY <2>1, <2>2
<1> HIDE DEF value
<1>6. p.run = part /\ p.value = value
  BY <1>3
<1>7. ASSUME NEW c \in Within(part)
      PROVE  ValueAt(value, c[2] - part.start, Base[c]) = Shown(st, k, c)
  <2>1. c \in Cells
    BY <1>1, InRun
  <2>2. c[2] \in Nat
    BY <2>1, CellIs
  <2>3. part.start <= c[2] /\ c[2] < part.end
    BY <1>1, <2>1, InRun
  <2> DEFINE i == c[2] - part.start
  <2>4. i \in Nat /\ i < m /\ delta + i = c[2] - k[2]
    BY <1>1, <1>2, <2>2, <2>3 DEF m, delta
  <2> HIDE DEF i
  <2>5. ValueAt(value, i, Base[c]) = ValueAt(old, delta + i, Base[c])
    BY <1>5, <2>4
  <2>6. Shown(st, k, c) = ValueAt(old, c[2] - k[2], Base[c])
    BY Zenon DEF Shown, old
  <2> QED BY <2>4, <2>5, <2>6 DEF i
<1>8. Fits(p.value, p.run.end - p.run.start)
  BY <1>5, <1>6 DEF m
<1> QED BY <1>1, <1>6, <1>7, <1>8, Zenon DEF Keeps, p

\* Each part lies in the run and has a range of its own.
LEMMA PartsAre ==
    ASSUME NEW st, Sound(st), NEW run \in AllRuns
    PROVE  /\ \A p \in Parts(st, run) :
                /\ \E k \in DOMAIN st.ranges : Keeps(st, k, run, p)
                /\ p.run \in AllRuns /\ p.run.source = run.source
                /\ p.run.start \in Nat /\ run.start <= p.run.start
                /\ p.run.start < run.end /\ Within(p.run) \subseteq Within(run)
                /\ <<p.run.source, p.run.start>> \in Within(p.run)
           /\ \A p, q \in Parts(st, run) :
                Within(p.run) \cap Within(q.run) # {} => p = q
           /\ \A k \in DOMAIN st.ranges : Covered(st, k) \cap Within(run) # {} =>
                \E p \in Parts(st, run) : Within(p.run) = Covered(st, k) \cap Within(run)
<1>0. Apart(st) /\ st \in Stores /\ Placed(st)
  BY DEF Sound
<1>1. OverlappingKeys(st, run) = {k \in DOMAIN st.ranges : Overlaps(st, k, run)}
  BY OverlappingIs
<1>2. ASSUME NEW p \in Parts(st, run)
      PROVE  \E k \in DOMAIN st.ranges : Keeps(st, k, run, p) /\ p = PartOf(st, k, run)
  <2>1. PICK k \in OverlappingKeys(st, run) : p = PartOf(st, k, run)
    BY DEF Parts
  <2>2. k \in DOMAIN st.ranges /\ Overlaps(st, k, run)
    BY <1>1
  <2> QED BY <2>1, <2>2, PartIs
<1>3. ASSUME NEW p \in Parts(st, run)
      PROVE  /\ p.run \in AllRuns /\ p.run.source = run.source
             /\ p.run.start \in Nat /\ run.start <= p.run.start
             /\ p.run.start < run.end /\ Within(p.run) \subseteq Within(run)
             /\ <<p.run.source, p.run.start>> \in Within(p.run)
  <2>1. PICK k \in DOMAIN st.ranges : Keeps(st, k, run, p)
    BY <1>2
  <2>2. p.run \in AllRuns /\ Within(p.run) \subseteq Within(run)
    BY <2>1 DEF Keeps
  <2> DEFINE c == <<p.run.source, p.run.start>>
  <2>3. /\ p.run.source \in Sources /\ p.run.start \in Nat /\ p.run.end \in Nat
        /\ p.run.start < p.run.end /\ p.run.end <= Length[p.run.source]
        /\ Length[p.run.source] \in Nat
    BY <2>2, RunIs
  <2>4. c \in Cells /\ c[1] = p.run.source /\ c[2] = p.run.start
    <3>1. p.run.start < Length[p.run.source]
      BY <2>3
    <3> QED BY <2>3, <3>1, IsCell
  <2> HIDE DEF c
  <2>5. c \in Within(p.run)
    BY <2>2, <2>3, <2>4, InRun
  <2>6. c[1] = run.source /\ run.start <= c[2] /\ c[2] < run.end
    BY <2>2, <2>4, <2>5, InRun
  <2> QED BY <2>2, <2>3, <2>4, <2>5, <2>6 DEF c
<1>4. ASSUME NEW p \in Parts(st, run), NEW q \in Parts(st, run),
             NEW c, c \in Within(p.run), c \in Within(q.run)
      PROVE  p = q
  <2>1. PICK j \in DOMAIN st.ranges : Keeps(st, j, run, p) /\ p = PartOf(st, j, run)
    BY <1>2
  <2>2. PICK k \in DOMAIN st.ranges : Keeps(st, k, run, q) /\ q = PartOf(st, k, run)
    BY <1>2
  <2>3. c \in Covered(st, j) /\ c \in Covered(st, k)
    BY <1>4, <2>1, <2>2 DEF Keeps
  <2> QED BY <1>0, <2>1, <2>2, <2>3, OneRange
<1>5. ASSUME NEW k \in DOMAIN st.ranges, NEW c, c \in Covered(st, k), c \in Within(run)
      PROVE  \E p \in Parts(st, run) : Within(p.run) = Covered(st, k) \cap Within(run)
  <2>1. Overlaps(st, k, run)
    BY <1>0, <1>5, CoversOverlaps
  <2>2. PartOf(st, k, run) \in Parts(st, run)
    BY <1>1, <2>1 DEF Parts
  <2> QED BY <2>1, <2>2, PartIs DEF Keeps
<1> QED BY <1>2, <1>3, <1>4, <1>5

(* The cells of the parts that start in the first n cells of the run. *)
Laid(st, run, n) ==
    UNION {Within(p.run) : p \in {p \in Parts(st, run) : p.run.start < run.start + n}}

(* Store s shows in them what st shows there without its single edits, and *)
(* what base shows everywhere else.                                        *)
LaysParts(st, run, n, base, s) ==
    \A c \in Cells :
        Get(s, c) = IF c \in Laid(st, run, n) THEN Under(st, c) ELSE Get(base, c)

SoundStores == {s \in Stores : Sound(s)}

LEMMA LayStep ==
    ASSUME NEW st, Sound(st), NEW run \in AllRuns, NEW base,
           NEW n \in 1..(run.end - run.start), NEW s, Sound(s),
           NEW patch, patch.ranges = Parts(st, run),
           NEW new, new = LayAt(s, CellAt(run, n), patch)
    PROVE  /\ Sound(new)
           /\ LaysParts(st, run, n - 1, base, s) => LaysParts(st, run, n, base, new)
<1> DEFINE c == CellAt(run, n)
           parts == Parts(st, run)
           starting == {p \in parts : <<p.run.source, p.run.start>> = c}
           first == CHOOSE p \in starting : TRUE
<1>0. run.start \in Nat /\ run.end \in Nat /\ n \in Nat /\ n >= 1
  BY RunIs
<1>1. new = IF starting # {} THEN SetValue(s, first.run, first.value) ELSE s
  <2> DEFINE Starting(R) == {p \in R : <<p.run.source, p.run.start>> = c}
             Begin(R) == CHOOSE p \in Starting(R) : TRUE
             Laying(R) == IF Starting(R) # {}
                          THEN SetValue(s, Begin(R).run, Begin(R).value) ELSE s
  <2>1. new = Laying(patch.ranges)
    BY Zenon DEF LayAt
  <2>2. starting = Starting(parts) /\ first = Begin(parts)
    OBVIOUS
  <2> HIDE DEF Starting, Begin, starting, first, c, parts
  <2>3. patch.ranges = parts
    BY DEF parts
  <2> QED BY <2>1, <2>2, <2>3
<1>2. \A p \in parts : p.run.source = run.source /\ p.run.start \in Nat
  BY PartsAre
<1>3. ASSUME NEW p \in parts
      PROVE  p.run.start < run.start + n
                <=> p.run.start < run.start + (n - 1) \/ p \in starting
  <2>1. p.run.source = run.source /\ p.run.start \in Nat
    BY <1>2
  <2>2. p \in starting <=> p.run.start = run.start + n - 1
    BY <2>1 DEF CellAt
  <2> QED BY <1>0, <2>1, <2>2
<1> HIDE DEF starting, first
<1>4. \A p \in starting : p \in parts
  BY DEF starting
<1>5. \A d : d \in Laid(st, run, n) <=>
            d \in Laid(st, run, n - 1) \/ \E p \in starting : d \in Within(p.run)
  <2> HIDE DEF c
  <2> QED BY <1>3, <1>4 DEF Laid
<1>6. CASE starting = {}
  BY <1>1, <1>5, <1>6 DEF LaysParts
<1>7. CASE starting # {}
  <2> DEFINE p == first
  <2>1. p \in starting /\ p \in parts
    BY <1>4, <1>7 DEF first
  <2>2. \A q \in starting : q = p
    <3> SUFFICES ASSUME NEW q \in starting PROVE q = p
      OBVIOUS
    <3>1. <<q.run.source, q.run.start>> = c /\ <<p.run.source, p.run.start>> = c
      BY <2>1 DEF starting
    <3>2. c \in Within(q.run) /\ c \in Within(p.run)
      <4> HIDE DEF c, p
      <4> QED BY <1>4, <2>1, <3>1, PartsAre
    <3> HIDE DEF c, p
    <3>3. q \in parts
      BY <1>4
    <3> QED BY <2>1, <3>2, <3>3, PartsAre
  <2> HIDE DEF p, c
  <2>3. PICK k \in DOMAIN st.ranges : Keeps(st, k, run, p)
    BY <2>1, PartsAre
  <2>4. p.run \in AllRuns /\ Fits(p.value, p.run.end - p.run.start)
    BY <2>3 DEF Keeps
  <2>5. new = SetRange(s, p.run, p.value)
    BY <1>1, <1>7, <2>4 DEF p, SetValue, Fits
  <2>6. /\ Sound(new)
        /\ \A d \in Cells :
              Get(new, d) = IF d \in Within(p.run)
                            THEN ValueAt(p.value, d[2] - p.run.start, Base[d])
                            ELSE Get(s, d)
    BY <2>4, <2>5, SetIs
  <2>7. ASSUME NEW d \in Within(p.run)
        PROVE  ValueAt(p.value, d[2] - p.run.start, Base[d]) = Under(st, d)
    <3>1. d \in Covered(st, k)
      BY <2>3 DEF Keeps
    <3>2. Under(st, d) = Shown(st, k, d)
      BY <3>1, UnderRange DEF Sound
    <3> QED BY <2>3, <3>2, Zenon DEF Keeps
  <2>8. \A d : d \in Laid(st, run, n) <=> d \in Laid(st, run, n - 1) \/ d \in Within(p.run)
    BY <1>5, <2>1, <2>2
  <2> QED BY <2>6, <2>7, <2>8 DEF LaysParts
<1> QED BY <1>6, <1>7

\* Once its ranges are laid, a patch shows what lay under the single edits.
LEMMA LaidIs ==
    ASSUME NEW st, Sound(st), NEW run \in AllRuns
    PROVE  /\ Laid(st, run, 0) = {}
           /\ \A c \in Cells : c \in Laid(st, run, run.end - run.start) <=>
                /\ c \in Within(run)
                /\ \E k \in DOMAIN st.ranges : c \in Covered(st, k)
<1> DEFINE n == run.end - run.start
<1>0. /\ run.start \in Nat /\ run.end \in Nat /\ run.start + n = run.end
      /\ run.start + 0 = run.start
  BY RunIs
<1>1. \A p \in Parts(st, run) :
        /\ p.run.start \in Nat /\ run.start <= p.run.start /\ p.run.start < run.end
        /\ Within(p.run) \subseteq Within(run)
        /\ \E k \in DOMAIN st.ranges : Within(p.run) \subseteq Covered(st, k)
  BY PartsAre DEF Keeps
<1>2. \A k \in DOMAIN st.ranges : Covered(st, k) \cap Within(run) # {} =>
        \E p \in Parts(st, run) : Within(p.run) = Covered(st, k) \cap Within(run)
  BY PartsAre
<1> HIDE DEF n
<1>3. Laid(st, run, 0) = {}
  <2>1. \A p \in Parts(st, run) : ~ (p.run.start < run.start + 0)
    BY <1>0, <1>1
  <2> QED BY <2>1 DEF Laid
<1>4. \A c : c \in Laid(st, run, n) <=> \E p \in Parts(st, run) : c \in Within(p.run)
  <2>1. \A p \in Parts(st, run) : p.run.start < run.start + n
    BY <1>0, <1>1
  <2> QED BY <2>1 DEF Laid
<1> QED BY <1>1, <1>2, <1>3, <1>4 DEF n

LEMMA LayWalk ==
    ASSUME NEW st, Sound(st), NEW run \in AllRuns, NEW base, Sound(base),
           NEW patch, patch.ranges = Parts(st, run)
    PROVE  /\ Sound(LaidUpTo(base, run, patch)[run.end - run.start])
           /\ LaysParts(st, run, run.end - run.start, base,
                   LaidUpTo(base, run, patch)[run.end - run.start])
<1> DEFINE n == run.end - run.start
           X == SoundStores
           At(x, i) == LayAt(x, CellAt(run, i), patch)
           step == [i \in 1..n |-> [x \in X |-> At(x, i)]]
           walk == LaidUpTo(base, run, patch)
           Is(f) == f = [i \in 0..n |-> IF i = 0 THEN base ELSE At(f[i - 1], i)]
<1>0. n \in Nat
  BY RunIs
<1>1. base \in X /\ \A x \in X : Sound(x)
  BY DEF SoundStores, Sound
<1>2. ASSUME NEW i \in 1..n, NEW x \in X
      PROVE  /\ At(x, i) \in X
             /\ LaysParts(st, run, i - 1, base, x) => LaysParts(st, run, i, base, At(x, i))
  <2> DEFINE new == At(x, i)
  <2>1. new = LayAt(x, CellAt(run, i), patch)
    OBVIOUS
  <2> HIDE DEF X, new
  <2>2. Sound(new) /\ (LaysParts(st, run, i - 1, base, x) => LaysParts(st, run, i, base, new))
    BY <1>1, <2>1, LayStep
  <2>3. new \in X
    BY <2>2 DEF X, SoundStores, Sound
  <2> QED BY <2>2, <2>3 DEF new
<1>3. walk = CHOOSE f : Is(f)
  BY Zenon DEF LaidUpTo, CellAt
<1> HIDE DEF n, At, X, walk
<1>4. step \in [1..n -> [X -> X]] /\ \A i \in 1..n : \A x \in X : step[i][x] = At(x, i)
  BY <1>2
<1> HIDE DEF step
<1>5. PICK f \in [0..n -> X] : Order!Repeats(f, n, base, step)
  BY <1>0, <1>1, <1>4, Recursion
<1>6. Is(f)
  <2>1. ASSUME NEW i \in 0..n
        PROVE  f[i] = IF i = 0 THEN base ELSE At(f[i - 1], i)
    <3>1. CASE i = 0
      BY <1>5, <3>1 DEF Order!Repeats
    <3>2. CASE i # 0
      <4>0. i \in 1..n /\ i - 1 \in 0..n
        BY <1>0, <3>2
      <4>1. f[i - 1] \in X
        BY <4>0
      <4>2. f[i] = step[i][f[i - 1]]
        BY <1>5, <4>0 DEF Order!Repeats
      <4> QED BY <1>4, <3>2, <4>0, <4>1, <4>2
    <3> QED BY <3>1, <3>2
  <2> QED BY <2>1
<1>7. Is(walk)
  <2> HIDE DEF Is
  <2> QED BY <1>3, <1>6, Zenon
<1>8. walk[0] = base /\ \A i \in 1..n : walk[i] = At(walk[i - 1], i)
  <2>1. \A i \in 0..n : walk[i] = IF i = 0 THEN base ELSE At(walk[i - 1], i)
    BY <1>7, Zenon
  <2>2. 0 \in 0..n /\ \A i \in 1..n : i \in 0..n /\ i # 0
    BY <1>0
  <2> QED BY <2>1, <2>2, Zenon
<1>9. \A i \in 0..n : walk[i] \in X /\ LaysParts(st, run, i, base, walk[i])
  <2> DEFINE T == {i \in 0..n : walk[i] \in X /\ LaysParts(st, run, i, base, walk[i])}
  <2>1. 0 \in T
    <3>1. LaysParts(st, run, 0, base, base)
      BY LaidIs DEF LaysParts
    <3>2. walk[0] \in X /\ LaysParts(st, run, 0, base, walk[0])
      BY <1>1, <1>8, <3>1, Zenon
    <3>3. 0 \in 0..n
      BY <1>0
    <3> QED BY <3>2, <3>3, Zenon
  <2>2. ASSUME NEW i \in 1..n, i - 1 \in T PROVE i \in T
    <3>1. i \in 0..n /\ walk[i - 1] \in X /\ LaysParts(st, run, i - 1, base, walk[i - 1])
      BY <1>0, <2>2
    <3> QED BY <1>2, <1>8, <3>1
  <2> HIDE DEF T
  <2>3. \A i \in 0..n : i \in T
    BY <1>0, <2>1, <2>2, UpTo
  <2> QED BY <2>3 DEF T
<1>10. n \in 0..n
  BY <1>0
<1> QED BY <1>1, <1>9, <1>10 DEF walk, n

(* Store s shows the single edits of st in the first n cells of the run,   *)
(* and what base shows everywhere else.                                    *)
Restores(st, run, n, base, s) ==
    \A c \in Cells :
        Get(s, c) = IF c \in DOMAIN st.sparse \cap Within(run) /\ c[2] < run.start + n
                    THEN st.sparse[c] ELSE Get(base, c)

LEMMA RestoreStep ==
    ASSUME NEW st, Sound(st), NEW run \in AllRuns, NEW base,
           NEW n \in 1..(run.end - run.start), NEW s, Sound(s), NEW patch,
           patch.sparse = [c \in DOMAIN st.sparse \cap Within(run) |-> st.sparse[c]],
           NEW new, new = RestoreAt(s, CellAt(run, n), patch)
    PROVE  /\ Sound(new)
           /\ Restores(st, run, n - 1, base, s) => Restores(st, run, n, base, new)
<1> DEFINE c == CellAt(run, n)
           D == DOMAIN st.sparse \cap Within(run)
<1>0. /\ run.start \in Nat /\ run.end \in Nat /\ n \in Nat /\ n >= 1
      /\ run.start + n - 1 < run.start + n
  BY RunIs
<1>1. c \in Cells /\ c[2] = run.start + n - 1
  <2>1. run.start + n - 1 \in Nat /\ run.start + n - 1 < Length[run.source]
    BY <1>0, RunIs
  <2> QED BY <2>1, RunIs, IsCell DEF CellAt
<1>2. new = IF c \in D THEN RestoreReplacement(s, c, st.sparse[c]) ELSE s
  <2>1. DOMAIN patch.sparse = D /\ \A d \in D : patch.sparse[d] = st.sparse[d]
    OBVIOUS
  <2> HIDE DEF c, D
  <2> QED BY <2>1, Zenon DEF RestoreAt, c
<1>3. \A d \in Cells : d \in D /\ d[2] < run.start + n
            <=> (d \in D /\ d[2] < run.start + (n - 1)) \/ (d \in D /\ d = c)
  <2> SUFFICES ASSUME NEW d \in Cells, d \in D
               PROVE  d[2] < run.start + n <=> d[2] < run.start + (n - 1) \/ d = c
    BY <1>0, <1>1
  <2>1. d[2] \in Nat /\ d = <<d[1], d[2]>>
    BY CellIs
  <2>2. d[1] = run.source
    BY InRun
  <2>3. d = c <=> d[2] = run.start + n - 1
    BY <2>1, <2>2, <1>1 DEF CellAt
  <2> QED BY <1>0, <2>1, <2>3
<1>4. CASE c \notin D
  <2> HIDE DEF c, D
  <2>1. new = s
    BY <1>2, <1>4
  <2>2. \A d \in Cells : d \in D /\ d[2] < run.start + n
                <=> d \in D /\ d[2] < run.start + (n - 1)
    BY <1>3, <1>4
  <2> QED BY <2>1, <2>2 DEF Restores, D
<1>5. CASE c \in D
  <2>1. st.sparse[c] \in Byte \cup {None}
    BY <1>5, StoreIs DEF Sound
  <2> DEFINE v == st.sparse[c]
  <2> HIDE DEF c, D
  <2>2. new = RestoreReplacement(s, c, v)
    BY <1>2, <1>5
  <2>3. CellEdited(s, c, v, new)
    BY <1>1, <2>1, <2>2, RestoreIs
  <2>4. Sound(new) /\ Get(new, c) = v /\ \A d \in Cells : d # c => Get(new, d) = Get(s, d)
    BY <2>3 DEF CellEdited
  <2> HIDE DEF v
  <2>5. ASSUME Restores(st, run, n - 1, base, s), NEW d \in Cells
        PROVE  Get(new, d) = IF d \in D /\ d[2] < run.start + n
                             THEN st.sparse[d] ELSE Get(base, d)
    <3>1. Get(s, d) = IF d \in D /\ d[2] < run.start + (n - 1)
                      THEN st.sparse[d] ELSE Get(base, d)
      BY <2>5 DEF Restores, D
    <3>2. CASE d = c
      BY <1>3, <1>5, <2>4, <3>2 DEF v
    <3>3. CASE d # c
      BY <1>3, <2>4, <3>1, <3>3
    <3> QED BY <3>2, <3>3
  <2> QED BY <2>4, <2>5 DEF Restores, D
<1> QED BY <1>4, <1>5

LEMMA RestoreWalk ==
    ASSUME NEW st, Sound(st), NEW run \in AllRuns, NEW base, Sound(base), NEW patch,
           patch.sparse = [c \in DOMAIN st.sparse \cap Within(run) |-> st.sparse[c]]
    PROVE  /\ Sound(RestoredUpTo(base, run, patch)[run.end - run.start])
           /\ Restores(st, run, run.end - run.start, base,
                       RestoredUpTo(base, run, patch)[run.end - run.start])
<1> DEFINE n == run.end - run.start
           X == SoundStores
           At(x, i) == RestoreAt(x, CellAt(run, i), patch)
           step == [i \in 1..n |-> [x \in X |-> At(x, i)]]
           walk == RestoredUpTo(base, run, patch)
           Is(f) == f = [i \in 0..n |-> IF i = 0 THEN base ELSE At(f[i - 1], i)]
<1>0. n \in Nat
  BY RunIs
<1>1. base \in X /\ \A x \in X : Sound(x)
  BY DEF SoundStores, Sound
<1>2. ASSUME NEW i \in 1..n, NEW x \in X
      PROVE  /\ At(x, i) \in X
             /\ Restores(st, run, i - 1, base, x) => Restores(st, run, i, base, At(x, i))
  <2> DEFINE new == At(x, i)
  <2>1. new = RestoreAt(x, CellAt(run, i), patch)
    OBVIOUS
  <2> HIDE DEF X, new
  <2>2. Sound(new) /\ (Restores(st, run, i - 1, base, x) => Restores(st, run, i, base, new))
    BY <1>1, <2>1, RestoreStep
  <2>3. new \in X
    BY <2>2 DEF X, SoundStores, Sound
  <2> QED BY <2>2, <2>3 DEF new
<1>3. walk = CHOOSE f : Is(f)
  BY Zenon DEF RestoredUpTo, CellAt
<1> HIDE DEF n, At, X, walk
<1>4. step \in [1..n -> [X -> X]] /\ \A i \in 1..n : \A x \in X : step[i][x] = At(x, i)
  BY <1>2
<1> HIDE DEF step
<1>5. PICK f \in [0..n -> X] : Order!Repeats(f, n, base, step)
  BY <1>0, <1>1, <1>4, Recursion
<1>6. Is(f)
  <2>1. ASSUME NEW i \in 0..n
        PROVE  f[i] = IF i = 0 THEN base ELSE At(f[i - 1], i)
    <3>1. CASE i = 0
      BY <1>5, <3>1 DEF Order!Repeats
    <3>2. CASE i # 0
      <4>0. i \in 1..n /\ i - 1 \in 0..n
        BY <1>0, <3>2
      <4>1. f[i - 1] \in X
        BY <4>0
      <4>2. f[i] = step[i][f[i - 1]]
        BY <1>5, <4>0 DEF Order!Repeats
      <4> QED BY <1>4, <3>2, <4>0, <4>1, <4>2
    <3> QED BY <3>1, <3>2
  <2> QED BY <2>1
<1>7. Is(walk)
  <2> HIDE DEF Is
  <2> QED BY <1>3, <1>6, Zenon
<1>8. walk[0] = base /\ \A i \in 1..n : walk[i] = At(walk[i - 1], i)
  <2>1. \A i \in 0..n : walk[i] = IF i = 0 THEN base ELSE At(walk[i - 1], i)
    BY <1>7, Zenon
  <2>2. 0 \in 0..n /\ \A i \in 1..n : i \in 0..n /\ i # 0
    BY <1>0
  <2> QED BY <2>1, <2>2, Zenon
<1>9. \A i \in 0..n : walk[i] \in X /\ Restores(st, run, i, base, walk[i])
  <2> DEFINE T == {i \in 0..n : walk[i] \in X /\ Restores(st, run, i, base, walk[i])}
  <2>1. 0 \in T
    <3>1. Restores(st, run, 0, base, base)
      <4>1. \A c \in Cells : c \in Within(run) => ~ (c[2] < run.start + 0)
        BY InRun, CellIs, RunIs
      <4> QED BY <4>1 DEF Restores
    <3>2. walk[0] \in X /\ Restores(st, run, 0, base, walk[0])
      BY <1>1, <1>8, <3>1, Zenon
    <3>3. 0 \in 0..n
      BY <1>0
    <3> QED BY <3>2, <3>3, Zenon
  <2>2. ASSUME NEW i \in 1..n, i - 1 \in T PROVE i \in T
    <3>1. i \in 0..n /\ walk[i - 1] \in X /\ Restores(st, run, i - 1, base, walk[i - 1])
      BY <1>0, <2>2
    <3> QED BY <1>2, <1>8, <3>1
  <2> HIDE DEF T
  <2>3. \A i \in 0..n : i \in T
    BY <1>0, <2>1, <2>2, UpTo
  <2> QED BY <2>3 DEF T
<1>10. n \in 0..n
  BY <1>0
<1> QED BY <1>1, <1>9, <1>10 DEF walk, n

\* The patch of a run brings back all the store showed, whatever the run holds
\* by then, if no other cell has changed.
LEMMA PatchBrings ==
    ASSUME NEW st, Sound(st), NEW run \in AllRuns, NEW between, Sound(between),
           \A c \in Cells : c \notin Within(run) => Get(between, c) = Get(st, c),
           NEW c \in Cells
    PROVE  Get(RestorePatch(between, run, PatchForSourceRange(st, run)), c) = Get(st, c)
<1> DEFINE n == run.end - run.start
           patch == PatchForSourceRange(st, run)
           mid == ClearSourceRange(between, run)
           laid == LaidUpTo(mid, run, patch)[n]
           last == RestoredUpTo(laid, run, patch)[n]
<1>0. n \in Nat
  BY RunIs
<1>1. RestorePatch(between, run, patch) = last
  BY Zenon DEF RestorePatch, ApplyPatch
<1>2. /\ patch.ranges = Parts(st, run)
      /\ patch.sparse = [d \in DOMAIN st.sparse \cap Within(run) |-> st.sparse[d]]
  BY PatchIs
<1>3. Sound(mid) /\ Get(mid, c) = IF c \in Within(run) THEN None ELSE Get(st, c)
  BY ClearSound, ClearGet
<1> HIDE DEF mid, patch
<1>4. Sound(laid) /\ LaysParts(st, run, n, mid, laid)
  BY <1>2, <1>3, LayWalk
<1> HIDE DEF laid
<1>5. Restores(st, run, n, laid, last)
  BY <1>2, <1>4, RestoreWalk
<1> HIDE DEF last
<1>6. c \in Within(run) => c[2] < run.start + n
  BY InRun, RunIs, CellIs
<1>7. Get(last, c) = IF c \in DOMAIN st.sparse \cap Within(run)
                     THEN st.sparse[c] ELSE Get(laid, c)
  BY <1>5, <1>6 DEF Restores
<1>8. Get(laid, c) = IF c \in Within(run) THEN Under(st, c) ELSE Get(st, c)
  <2>1. Get(laid, c) = IF c \in Laid(st, run, n) THEN Under(st, c) ELSE Get(mid, c)
    BY <1>4 DEF LaysParts
  <2>2. c \in Laid(st, run, n)
            <=> c \in Within(run) /\ \E k \in DOMAIN st.ranges : c \in Covered(st, k)
    BY LaidIs
  <2>3. (\A k \in DOMAIN st.ranges : c \notin Covered(st, k)) => Under(st, c) = None
    BY UnderNone
  <2> HIDE DEF n
  <2> QED BY <1>3, <2>1, <2>2, <2>3
<1>9. Get(st, c) = IF c \in DOMAIN st.sparse THEN st.sparse[c] ELSE Under(st, c)
  BY GetIs
<1> QED BY <1>1, <1>7, <1>8, <1>9 DEF patch

LEMMA SoundPatches == StoreInv => PatchRestores
<1> SUFFICES ASSUME Sound(store), NEW run \in AllRuns,
                    NEW between \in {store, SetXorRange(store, run, Bits)},
                    NEW c \in Cells
             PROVE  Get(RestorePatch(between, run, PatchForSourceRange(store, run)), c)
                      = Get(store, c)
  BY DEF StoreInv, PatchRestores, Becomes
<1>1. Bits \in Byte
  BY DEF Byte
<1>2. /\ Sound(between)
      /\ \A d \in Cells : d \notin Within(run) => Get(between, d) = Get(store, d)
  BY <1>1, XorRangeSound
<1> QED BY <1>2, PatchBrings

\* PatchRestores, for all lengths, patterns, runs and keys: the record an undo
\* step keeps of a run brings every byte of it back, the cells marked as not
\* replaced included.
THEOREM PatchesRestore == Spec => []PatchRestores
BY StoreInvariant, SoundPatches, PTL

(***************************************************************************)
(* Summaries                                                               *)
(***************************************************************************)

\* The range query of a run finds something exactly when a range covers a cell
\* of it.
LEMMA QueryIs ==
    ASSUME NEW st, Sound(st), NEW run \in AllRuns
    PROVE  OverlappingKeys(st, run) # {}
             <=> \E c \in Within(run), k \in DOMAIN st.ranges : c \in Covered(st, k)
<1>0. st \in Stores /\ Placed(st)
  BY DEF Sound
<1>1. OverlappingKeys(st, run) = {k \in DOMAIN st.ranges : Overlaps(st, k, run)}
  BY OverlappingIs
<1>2. ASSUME OverlappingKeys(st, run) # {}
      PROVE  \E c \in Within(run), k \in DOMAIN st.ranges : c \in Covered(st, k)
  <2>1. PICK p \in Parts(st, run) : TRUE
    BY <1>2 DEF Parts
  <2>2. PICK c \in Within(p.run) : TRUE
    BY PartsAre
  <2>3. PICK k \in DOMAIN st.ranges : Keeps(st, k, run, p)
    BY PartsAre
  <2>4. c \in Within(run) /\ c \in Covered(st, k)
    BY <2>3 DEF Keeps
  <2> QED BY <2>4
<1>3. ASSUME NEW c \in Within(run), NEW k \in DOMAIN st.ranges, c \in Covered(st, k)
      PROVE  OverlappingKeys(st, run) # {}
  BY <1>0, <1>1, <1>3, CoversOverlaps
<1> QED BY <1>2, <1>3

\* has_in_range looks at the cells from lo to hi, in one source or in both.
LEMMA RunBetween ==
    ASSUME NEW lo \in Cells, NEW hi \in Cells, Leq(lo, hi)
    PROVE  /\ lo[1] = hi[1] =>
                /\ Run(lo[1], lo[2], hi[2] + 1) \in AllRuns
                /\ \A c \in Cells : c \in Within(Run(lo[1], lo[2], hi[2] + 1))
                                        <=> Leq(lo, c) /\ Leq(c, hi)
           /\ lo[1] # hi[1] =>
                /\ Run(lo[1], lo[2], Length[lo[1]]) \in AllRuns
                /\ Run(hi[1], 0, hi[2] + 1) \in AllRuns
                /\ \A c \in Cells : Leq(lo, c) /\ Leq(c, hi)
                        <=> \/ c \in Within(Run(lo[1], lo[2], Length[lo[1]]))
                            \/ c \in Within(Run(hi[1], 0, hi[2] + 1))
<1>1. /\ lo[1] \in Sources /\ lo[2] \in Nat /\ lo[2] < Length[lo[1]]
      /\ hi[1] \in Sources /\ hi[2] \in Nat /\ hi[2] < Length[hi[1]]
      /\ Length[lo[1]] \in Nat /\ Length[hi[1]] \in Nat
  BY CellIs
<1>2. \A c \in Cells : c[1] \in Sources /\ c[2] \in Nat /\ c[2] < Length[c[1]]
                       /\ Length[c[1]] \in Nat
  BY CellIs
<1>3. hi[2] + 1 \in Nat /\ hi[2] + 1 <= Length[hi[1]] /\ 0 < hi[2] + 1
  BY <1>1
<1>4. ASSUME lo[1] = hi[1]
      PROVE  /\ Run(lo[1], lo[2], hi[2] + 1) \in AllRuns
             /\ \A c \in Cells : c \in Within(Run(lo[1], lo[2], hi[2] + 1))
                                        <=> Leq(lo, c) /\ Leq(c, hi)
  <2> DEFINE r == Run(lo[1], lo[2], hi[2] + 1)
  <2>1. lo[2] < hi[2] + 1
    BY <1>1, <1>4 DEF Leq, Sources, Original, Add
  <2>2. r \in AllRuns /\ r.source = lo[1] /\ r.start = lo[2] /\ r.end = hi[2] + 1
    BY <1>1, <1>3, <1>4, <2>1, IsRun
  <2> HIDE DEF r
  <2>3. \A c \in Cells : c \in Within(r) <=> c[1] = lo[1] /\ lo[2] <= c[2] /\ c[2] < hi[2] + 1
    BY <2>2, InRun
  <2>4. ASSUME NEW c \in Cells PROVE c \in Within(r) <=> Leq(lo, c) /\ Leq(c, hi)
    <3>1. c[1] \in Sources /\ c[2] \in Nat
      BY <1>2
    <3> QED BY <1>1, <1>4, <2>3, <3>1 DEF Leq, Sources, Original, Add
  <2> QED BY <2>2, <2>4 DEF r
<1>5. ASSUME lo[1] # hi[1]
      PROVE  /\ Run(lo[1], lo[2], Length[lo[1]]) \in AllRuns
             /\ Run(hi[1], 0, hi[2] + 1) \in AllRuns
             /\ \A c \in Cells : Leq(lo, c) /\ Leq(c, hi)
                        <=> \/ c \in Within(Run(lo[1], lo[2], Length[lo[1]]))
                            \/ c \in Within(Run(hi[1], 0, hi[2] + 1))
  <2> DEFINE r == Run(lo[1], lo[2], Length[lo[1]])
             q == Run(hi[1], 0, hi[2] + 1)
  <2>1. lo[1] = 0 /\ hi[1] = 1
    BY <1>1, <1>5 DEF Leq, Sources, Original, Add
  <2>2. r \in AllRuns /\ r.source = lo[1] /\ r.start = lo[2] /\ r.end = Length[lo[1]]
    BY <1>1, IsRun
  <2>3. q \in AllRuns /\ q.source = hi[1] /\ q.start = 0 /\ q.end = hi[2] + 1
    BY <1>1, <1>3, IsRun
  <2> HIDE DEF r, q
  <2>4. \A c \in Cells : c \in Within(r)
                            <=> c[1] = lo[1] /\ lo[2] <= c[2] /\ c[2] < Length[lo[1]]
    BY <2>2, InRun
  <2>5. \A c \in Cells : c \in Within(q) <=> c[1] = hi[1] /\ 0 <= c[2] /\ c[2] < hi[2] + 1
    BY <2>3, InRun
  <2>6. ASSUME NEW c \in Cells
        PROVE  Leq(lo, c) /\ Leq(c, hi) <=> c \in Within(r) \/ c \in Within(q)
    <3>1. c[1] \in Sources /\ c[2] \in Nat /\ c[2] < Length[c[1]] /\ Length[c[1]] \in Nat
      BY <1>2
    <3> QED BY <1>1, <2>1, <2>4, <2>5, <3>1 DEF Leq, Sources, Original, Add
  <2> QED BY <2>2, <2>3, <2>6 DEF r, q
<1> QED BY <1>4, <1>5

LEMMA HasInRangeIs ==
    ASSUME NEW st, Sound(st), NEW lo \in Cells, NEW hi \in Cells, Leq(lo, hi)
    PROVE  HasInRange(st, lo, hi) <=>
             \E c \in Cells : /\ Leq(lo, c) /\ Leq(c, hi)
                              /\ \/ c \in DOMAIN st.sparse
                                 \/ RangeContaining(st, c) # {}
<1>1. DOMAIN st.sparse \subseteq Cells
  BY StoreIs DEF Sound
<1>2. \A c \in Cells : RangeContaining(st, c) # {}
            <=> \E k \in DOMAIN st.ranges : c \in Covered(st, k)
  BY ContainingIs
<1> DEFINE Query == IF lo[1] = hi[1]
                    THEN OverlappingKeys(st, Run(lo[1], lo[2], hi[2] + 1)) # {}
                    ELSE \/ OverlappingKeys(st, Run(lo[1], lo[2], Length[lo[1]])) # {}
                         \/ OverlappingKeys(st, Run(hi[1], 0, hi[2] + 1)) # {}
<1>3. Query <=> \E c \in Cells, k \in DOMAIN st.ranges :
                    Leq(lo, c) /\ Leq(c, hi) /\ c \in Covered(st, k)
  <2>1. CASE lo[1] = hi[1]
    <3> DEFINE r == Run(lo[1], lo[2], hi[2] + 1)
    <3>1. r \in AllRuns /\ \A c \in Cells : c \in Within(r) <=> Leq(lo, c) /\ Leq(c, hi)
      BY <2>1, RunBetween
    <3>2. Query <=> OverlappingKeys(st, r) # {}
      BY <2>1
    <3> HIDE DEF r, Query
    <3>3. Within(r) \subseteq Cells
      BY <3>1, InRun
    <3>4. OverlappingKeys(st, r) # {}
            <=> \E c \in Within(r), k \in DOMAIN st.ranges : c \in Covered(st, k)
      BY <3>1, QueryIs
    <3> QED BY <3>1, <3>2, <3>3, <3>4
  <2>2. CASE lo[1] # hi[1]
    <3> DEFINE r == Run(lo[1], lo[2], Length[lo[1]])
               q == Run(hi[1], 0, hi[2] + 1)
    <3>1. /\ r \in AllRuns /\ q \in AllRuns
          /\ \A c \in Cells : Leq(lo, c) /\ Leq(c, hi) <=> c \in Within(r) \/ c \in Within(q)
      BY <2>2, RunBetween
    <3>2. Query <=> OverlappingKeys(st, r) # {} \/ OverlappingKeys(st, q) # {}
      BY <2>2
    <3> HIDE DEF r, q, Query
    <3>3. Within(r) \subseteq Cells /\ Within(q) \subseteq Cells
      BY <3>1, InRun
    <3>4. OverlappingKeys(st, r) # {}
            <=> \E c \in Within(r), k \in DOMAIN st.ranges : c \in Covered(st, k)
      BY <3>1, QueryIs
    <3>5. OverlappingKeys(st, q) # {}
            <=> \E c \in Within(q), k \in DOMAIN st.ranges : c \in Covered(st, k)
      BY <3>1, QueryIs
    <3> QED BY <3>1, <3>2, <3>3, <3>4, <3>5
  <2> QED BY <2>1, <2>2
<1>4. HasInRange(st, lo, hi) <=>
        (\E c \in DOMAIN st.sparse : Leq(lo, c) /\ Leq(c, hi)) \/ Query
  BY Zenon DEF HasInRange
<1> HIDE DEF Query
<1> QED BY <1>1, <1>2, <1>3, <1>4

\* The places number the cells, each once.
LEMMA PlaceIs ==
    /\ CellCount \in Nat
    /\ \A n \in 1..CellCount : CellNo(n) \in Cells
    /\ \A m, n \in 1..CellCount : CellNo(m) = CellNo(n) => m = n
    /\ \A c \in Cells : \E n \in 1..CellCount : CellNo(n) = c
<1> DEFINE a == Length[Original]
           b == Length[Add]
<1>1. a \in Nat /\ b \in Nat /\ CellCount = a + b /\ Original \in Sources /\ Add \in Sources
  BY StoreConstants DEF CellCount, Sources, Original, Add
<1>2. ASSUME NEW n \in 1..CellCount
      PROVE  /\ CellNo(n) \in Cells
             /\ n <= a => CellNo(n)[1] = Original /\ CellNo(n)[2] = n - 1
             /\ ~ (n <= a) => CellNo(n)[1] = Add /\ CellNo(n)[2] = n - 1 - a
  <2>1. CASE n <= a
    <3>1. CellNo(n) = <<Original, n - 1>>
      BY <2>1 DEF CellNo
    <3>2. n - 1 \in Nat /\ n - 1 < a
      BY <1>1, <2>1
    <3> QED BY <1>1, <2>1, <3>1, <3>2, IsCell
  <2>2. CASE ~ (n <= a)
    <3>1. CellNo(n) = <<Add, n - 1 - a>>
      BY <2>2 DEF CellNo
    <3>2. n - 1 - a \in Nat /\ n - 1 - a < b
      BY <1>1, <2>2
    <3> QED BY <1>1, <2>2, <3>1, <3>2, IsCell
  <2> QED BY <2>1, <2>2
<1>3. ASSUME NEW m \in 1..CellCount, NEW n \in 1..CellCount, CellNo(m) = CellNo(n)
      PROVE  m = n
  BY <1>1, <1>2, <1>3 DEF Original, Add
<1>4. ASSUME NEW c \in Cells
      PROVE  \E n \in 1..CellCount : CellNo(n) = c
  <2>1. /\ c[1] \in Sources /\ c[2] \in Nat /\ c[2] < Length[c[1]] /\ c = <<c[1], c[2]>>
    BY CellIs
  <2>2. CASE c[1] = Original
    <3> DEFINE n == c[2] + 1
    <3>1. n \in 1..CellCount /\ n <= a /\ n - 1 = c[2]
      BY <1>1, <2>1, <2>2
    <3> HIDE DEF n
    <3>2. CellNo(n) = <<Original, n - 1>>
      BY <3>1 DEF CellNo
    <3> QED BY <2>1, <2>2, <3>1, <3>2
  <2>3. CASE c[1] = Add
    <3> DEFINE n == a + c[2] + 1
    <3>1. n \in 1..CellCount /\ ~ (n <= a) /\ n - 1 - a = c[2]
      BY <1>1, <2>1, <2>3
    <3>2. CellNo(n) = <<Add, n - 1 - a>>
      <4> HIDE DEF n
      <4> QED BY <3>1 DEF CellNo
    <3> HIDE DEF n
    <3> QED BY <2>1, <2>3, <3>1, <3>2
  <2> QED BY <2>1, <2>2, <2>3 DEF Sources
<1> QED BY <1>1, <1>2, <1>3, <1>4

LEMMA CellsFinite == IsFiniteSet(Cells)
<1> DEFINE f == [n \in 1..CellCount |-> CellNo(n)]
<1>1. f \in Surjection(1..CellCount, Cells)
  BY PlaceIs DEF Surjection
<1>2. IsFiniteSet(1..CellCount)
  BY PlaceIs, FS_Interval
<1> QED BY <1>1, <1>2, FS_Surjection

\* A range covers as many cells as it is long.
LEMMA CoverCount ==
    ASSUME NEW st \in Stores, Placed(st), NEW k \in DOMAIN st.ranges
    PROVE  IsFiniteSet(Covered(st, k)) /\ Cardinality(Covered(st, k)) = st.ranges[k].len
<1> DEFINE a == k[2]
           l == st.ranges[k].len
           S == a..(EndOf(st, k) - 1)
<1>1. /\ a \in Nat /\ l \in Nat \ {0} /\ EndOf(st, k) = a + l
      /\ Covered(st, k) \subseteq Cells
  BY RangeIs
<1>2. Covered(st, k) = {k[1]} \X S
  BY DEF Covered, Within, Run
<1>3. IsFiniteSet(S) /\ Cardinality(S) = l
  <2>1. a + l - 1 \in Int /\ ~ (a > a + l - 1) /\ a + l - 1 - a + 1 = l /\ a \in Int
    BY <1>1
  <2> HIDE DEF a, l
  <2> QED BY <1>1, <2>1, FS_Interval DEF S
<1>4. IsFiniteSet({k[1]}) /\ Cardinality({k[1]}) = 1
  BY FS_Singleton
<1> HIDE DEF S, l
<1>5. IsFiniteSet({k[1]} \X S) /\ Cardinality({k[1]} \X S) = 1 * Cardinality(S)
  BY <1>3, <1>4, FS_Product
<1> QED BY <1>1, <1>2, <1>3, <1>5 DEF l

(* The first n cells, and the cells of the ranges that start in them. *)
FirstCells(n) == {CellNo(i) : i \in 1..n}

CoveredBy(st, n) ==
    UNION {Covered(st, k) : k \in DOMAIN st.ranges \cap FirstCells(n)}

LEMMA FirstCellsIs ==
    /\ FirstCells(0) = {}
    /\ FirstCells(CellCount) = Cells
    /\ \A n \in 1..CellCount :
        /\ FirstCells(n) = FirstCells(n - 1) \cup {CellNo(n)}
        /\ CellNo(n) \notin FirstCells(n - 1)
<1>0. CellCount \in Nat
  BY PlaceIs
<1>1. FirstCells(0) = {}
  BY DEF FirstCells
<1>2. FirstCells(CellCount) = Cells
  BY PlaceIs DEF FirstCells
<1>3. ASSUME NEW n \in 1..CellCount
      PROVE  /\ FirstCells(n) = FirstCells(n - 1) \cup {CellNo(n)}
             /\ CellNo(n) \notin FirstCells(n - 1)
  <2>1. /\ \A i : i \in 1..n <=> i \in 1..(n - 1) \/ i = n
        /\ \A i \in 1..(n - 1) : i \in 1..CellCount /\ i # n
    BY <1>0
  <2>2. \A i \in 1..(n - 1) : CellNo(i) # CellNo(n)
    BY <2>1, PlaceIs
  <2>3. FirstCells(n) = FirstCells(n - 1) \cup {CellNo(n)}
    BY <2>1 DEF FirstCells
  <2> QED BY <2>2, <2>3 DEF FirstCells
<1> QED BY <1>1, <1>2, <1>3

\* The sum of the lengths of the ranges is the number of cells they cover.
LEMMA RangeBytesStep ==
    ASSUME NEW st, Sound(st), NEW n \in 1..CellCount
    PROVE  /\ IsFiniteSet(CoveredBy(st, n)) /\ IsFiniteSet(CoveredBy(st, n - 1))
           /\ Cardinality(CoveredBy(st, n))
                = Cardinality(CoveredBy(st, n - 1))
                    + (IF CellNo(n) \in DOMAIN st.ranges
                       THEN st.ranges[CellNo(n)].len ELSE 0)
<1> DEFINE k == CellNo(n)
           old == CoveredBy(st, n - 1)
           new == CoveredBy(st, n)
<1>0. st \in Stores /\ Placed(st) /\ Apart(st)
  BY DEF Sound
<1>1. FirstCells(n) = FirstCells(n - 1) \cup {k} /\ k \notin FirstCells(n - 1)
  BY FirstCellsIs
<1>2. \A j \in DOMAIN st.ranges : Covered(st, j) \subseteq Cells
  BY <1>0, RangeIs
<1>3. new \subseteq Cells /\ old \subseteq Cells
  BY <1>2 DEF CoveredBy
<1>4. IsFiniteSet(new) /\ IsFiniteSet(old) /\ Cardinality(old) \in Nat
  BY <1>3, CellsFinite, FS_Subset, FS_CardinalityType
<1>5. CASE k \notin DOMAIN st.ranges
  <2> HIDE DEF k
  <2>1. new = old
    BY <1>1, <1>5 DEF CoveredBy
  <2> HIDE DEF new, old
  <2> QED BY <1>4, <1>5, <2>1 DEF k, new, old
<1>6. CASE k \in DOMAIN st.ranges
  <2> HIDE DEF k
  <2>1. new = old \cup Covered(st, k)
    BY <1>1, <1>6 DEF CoveredBy
  <2>2. old \cap Covered(st, k) = {}
    <3> SUFFICES ASSUME NEW j \in DOMAIN st.ranges \cap FirstCells(n - 1),
                        NEW c, c \in Covered(st, j), c \in Covered(st, k)
                 PROVE  FALSE
      BY DEF CoveredBy
    <3> QED BY <1>0, <1>1, <1>6, OneRange
  <2>3. IsFiniteSet(Covered(st, k)) /\ Cardinality(Covered(st, k)) = st.ranges[k].len
        /\ st.ranges[k].len \in Nat
    BY <1>0, <1>6, CoverCount, RangeIs
  <2> HIDE DEF new, old
  <2>4. Cardinality(new) = Cardinality(old) + Cardinality(Covered(st, k)) - Cardinality({})
    BY <1>4, <2>1, <2>2, <2>3, FS_Union
  <2>5. Cardinality({}) = 0
    BY FS_EmptySet
  <2>6. Cardinality(new) = Cardinality(old) + st.ranges[k].len
    BY <1>4, <2>3, <2>4, <2>5
  <2> QED BY <1>4, <1>6, <2>6 DEF k, new, old
<1> QED BY <1>5, <1>6

LEMMA RangeBytesAre ==
    ASSUME NEW st, Sound(st)
    PROVE  RangeBytesUpTo(st)[CellCount] = Cardinality(CoveredBy(st, CellCount))
<1> DEFINE n == CellCount
           X == Nat
           At(x, i) == x + (IF CellNo(i) \in DOMAIN st.ranges
                            THEN st.ranges[CellNo(i)].len ELSE 0)
           step == [i \in 1..n |-> [x \in X |-> At(x, i)]]
           walk == RangeBytesUpTo(st)
           Is(f) == f = [i \in 0..n |-> IF i = 0 THEN 0 ELSE At(f[i - 1], i)]
<1>0. n \in Nat
  BY PlaceIs
<1>1. 0 \in X
  OBVIOUS
<1>2. ASSUME NEW i \in 1..n, NEW x \in X
      PROVE  At(x, i) \in X
  BY RangeIs DEF Sound
<1>3. walk = CHOOSE f : Is(f)
  BY Zenon DEF RangeBytesUpTo
<1> HIDE DEF n, At, X, walk
<1>4. step \in [1..n -> [X -> X]] /\ \A i \in 1..n : \A x \in X : step[i][x] = At(x, i)
  BY <1>2
<1> HIDE DEF step
<1>5. PICK f \in [0..n -> X] : Order!Repeats(f, n, 0, step)
  BY <1>0, <1>1, <1>4, Recursion
<1>6. Is(f)
  <2>1. ASSUME NEW i \in 0..n
        PROVE  f[i] = IF i = 0 THEN 0 ELSE At(f[i - 1], i)
    <3>1. CASE i = 0
      BY <1>5, <3>1 DEF Order!Repeats
    <3>2. CASE i # 0
      <4>0. i \in 1..n /\ i - 1 \in 0..n
        BY <1>0, <3>2
      <4>1. f[i - 1] \in X
        BY <4>0
      <4>2. f[i] = step[i][f[i - 1]]
        BY <1>5, <4>0 DEF Order!Repeats
      <4> QED BY <1>4, <3>2, <4>0, <4>1, <4>2
    <3> QED BY <3>1, <3>2
  <2> QED BY <2>1
<1>7. Is(walk)
  <2> HIDE DEF Is
  <2> QED BY <1>3, <1>6, Zenon
<1>8. walk[0] = 0 /\ \A i \in 1..n : walk[i] = At(walk[i - 1], i)
  <2>1. \A i \in 0..n : walk[i] = IF i = 0 THEN 0 ELSE At(walk[i - 1], i)
    BY <1>7, Zenon
  <2>2. 0 \in 0..n /\ \A i \in 1..n : i \in 0..n /\ i # 0
    BY <1>0
  <2> QED BY <2>1, <2>2, Zenon
<1>9. \A i \in 0..n : walk[i] = Cardinality(CoveredBy(st, i))
  <2> DEFINE T == {i \in 0..n : walk[i] = Cardinality(CoveredBy(st, i))}
  <2>1. 0 \in T
    <3>1. CoveredBy(st, 0) = {}
      BY FirstCellsIs DEF CoveredBy
    <3>2. walk[0] = Cardinality(CoveredBy(st, 0))
      BY <1>8, <3>1, FS_EmptySet
    <3>3. 0 \in 0..n
      BY <1>0
    <3> QED BY <3>2, <3>3, Zenon
  <2>2. ASSUME NEW i \in 1..n, i - 1 \in T PROVE i \in T
    <3>1. i \in 0..n /\ walk[i - 1] = Cardinality(CoveredBy(st, i - 1))
      BY <1>0, <2>2
    <3>2. Cardinality(CoveredBy(st, i)) = At(walk[i - 1], i)
      BY <3>1, RangeBytesStep DEF n, At
    <3> QED BY <1>8, <3>1, <3>2
  <2> HIDE DEF T
  <2>3. \A i \in 0..n : i \in T
    BY <1>0, <2>1, <2>2, UpTo
  <2> QED BY <2>3 DEF T
<1>10. n \in 0..n
  BY <1>0
<1> QED BY <1>9, <1>10 DEF walk, n

(* The cells that count as replaced once the single edits of the first n   *)
(* cells have been counted: before, a cell counts if a range covers it.    *)
DirtyBy(st, n) ==
    {c \in Cells : IF c \in FirstCells(n) THEN Get(st, c) # None
                   ELSE \E k \in DOMAIN st.ranges : c \in Covered(st, k)}

LEMMA CoveredIsByte ==
    ASSUME NEW st, Sound(st), NEW c \in Cells, NEW k \in DOMAIN st.ranges,
           c \in Covered(st, k)
    PROVE  Under(st, c) \in Byte
<1>1. Under(st, c) = Shown(st, k, c)
  BY UnderRange DEF Sound
<1> DEFINE value == st.ranges[k].value
           len == st.ranges[k].len
           i == c[2] - k[2]
<1>2. /\ Fits(value, len) /\ len \in Nat /\ k[2] \in Nat
      /\ k[2] <= c[2] /\ c[2] < EndOf(st, k) /\ EndOf(st, k) = k[2] + len
  BY RangeIs DEF Sound
<1>3. c[2] \in Nat /\ Base[c] \in Byte
  BY CellIs, StoreConstants
<1>4. Shown(st, k, c) = ValueAt(value, i, Base[c])
  BY Zenon DEF Shown
<1>5. i \in Nat /\ i < len
  <2> HIDE DEF len
  <2> QED BY <1>2, <1>3
<1> HIDE DEF value, len, i
<1> QED BY <1>1, <1>2, <1>3, <1>4, <1>5, ValueIsByte

LEMMA DirtyStep ==
    ASSUME NEW st, Sound(st), NEW n \in 1..CellCount
    PROVE  /\ IsFiniteSet(DirtyBy(st, n - 1))
           /\ Cardinality(DirtyBy(st, n))
                = DirtyAt(Cardinality(DirtyBy(st, n - 1)), st, CellNo(n))
<1> DEFINE c == CellNo(n)
           old == DirtyBy(st, n - 1)
           new == DirtyBy(st, n)
           Lies(d) == \E k \in DOMAIN st.ranges : d \in Covered(st, k)
           total == Cardinality(old)
<1>1. FirstCells(n) = FirstCells(n - 1) \cup {c} /\ c \notin FirstCells(n - 1)
      /\ c \in Cells
  BY FirstCellsIs, PlaceIs
<1>2. IsFiniteSet(old) /\ IsFiniteSet(new) /\ total \in Nat
  <2>1. old \subseteq Cells /\ new \subseteq Cells
    BY DEF DirtyBy
  <2> HIDE DEF old, new
  <2> QED BY <2>1, CellsFinite, FS_Subset, FS_CardinalityType
<1> HIDE DEF c
<1>3. /\ c \in old <=> Lies(c)
      /\ c \in new <=> Get(st, c) # None
      /\ \A d : d # c => (d \in new <=> d \in old)
  BY <1>1 DEF DirtyBy
<1>4. RangeContaining(st, c) # {} <=> Lies(c)
  BY <1>1, ContainingIs
<1>5. Get(st, c) = IF c \in DOMAIN st.sparse THEN st.sparse[c] ELSE Under(st, c)
  BY <1>1, GetIs
<1>6. /\ Lies(c) => Under(st, c) \in Byte
      /\ ~ Lies(c) => Under(st, c) = None
      /\ None \notin Byte
  BY <1>1, CoveredIsByte, UnderNone, StoreConstants
<1>7. c \in DOMAIN st.sparse /\ st.sparse[c] = None => Lies(c)
  BY DEF Sound, Anchored
<1> HIDE DEF Lies, old, new, total
<1>8. CASE c \in DOMAIN st.sparse /\ Lies(c) /\ st.sparse[c] = None
  <2>1. new = old \ {c} /\ c \in old
    BY <1>3, <1>5, <1>8
  <2>2. Cardinality(new) = total - 1
    BY <1>2, <2>1, FS_RemoveElement DEF total
  <2>3. Cardinality(new) \in Nat
    BY <1>2, FS_CardinalityType
  <2>4. DirtyAt(total, st, c) = IF total = 0 THEN 0 ELSE total - 1
    BY <1>4, <1>8 DEF DirtyAt
  <2> QED BY <1>2, <2>2, <2>3, <2>4 DEF total, old, new, c
<1>9. CASE c \in DOMAIN st.sparse /\ ~ Lies(c) /\ st.sparse[c] # None
  <2>1. new = old \cup {c} /\ c \notin old
    BY <1>3, <1>5, <1>9
  <2>2. Cardinality(new) = total + 1
    BY <1>2, <2>1, FS_AddElement DEF total
  <2>3. DirtyAt(total, st, c) = total + 1
    BY <1>4, <1>9 DEF DirtyAt
  <2> QED BY <1>2, <2>2, <2>3 DEF total, old, new, c
<1>10. CASE ~ (c \in DOMAIN st.sparse /\ (Lies(c) <=> st.sparse[c] = None))
  <2>1. new = old
    BY <1>3, <1>5, <1>6, <1>7, <1>10
  <2>2. DirtyAt(total, st, c) = total
    BY <1>4, <1>10 DEF DirtyAt
  <2> QED BY <1>2, <2>1, <2>2 DEF total, old, new, c
<1> QED BY <1>8, <1>9, <1>10

\* The count of replaced bytes is the number of cells that are replaced.
LEMMA DirtyBytesAre ==
    ASSUME NEW st, Sound(st)
    PROVE  DirtyBytes(st) = Cardinality({c \in Cells : Get(st, c) # None})
<1> DEFINE n == CellCount
           X == Nat
           start == RangeBytesUpTo(st)[CellCount]
           At(x, i) == DirtyAt(x, st, CellNo(i))
           step == [i \in 1..n |-> [x \in X |-> At(x, i)]]
           walk == DirtyUpTo(st)
           Is(f) == f = [i \in 0..n |-> IF i = 0 THEN start ELSE At(f[i - 1], i)]
<1>0. n \in Nat
  BY PlaceIs
<1>1. start = Cardinality(DirtyBy(st, 0)) /\ start \in Nat
  <2>1. CoveredBy(st, CellCount) = DirtyBy(st, 0)
    <3>1. /\ DOMAIN st.ranges \subseteq Cells
          /\ \A k \in DOMAIN st.ranges : Covered(st, k) \subseteq Cells
      BY StoreIs, RangeIs DEF Sound
    <3>2. FirstCells(0) = {} /\ FirstCells(CellCount) = Cells
      BY FirstCellsIs
    <3> QED BY <3>1, <3>2 DEF CoveredBy, DirtyBy
  <2>2. IsFiniteSet(DirtyBy(st, 0))
    <3>1. DirtyBy(st, 0) \subseteq Cells
      BY DEF DirtyBy
    <3> QED BY <3>1, CellsFinite, FS_Subset
  <2> QED BY <2>1, <2>2, RangeBytesAre, FS_CardinalityType
<1>2. ASSUME NEW i \in 1..n, NEW x \in X
      PROVE  At(x, i) \in X
  BY DEF DirtyAt
<1>3. walk = CHOOSE f : Is(f)
  BY Zenon DEF DirtyUpTo
<1> HIDE DEF n, At, X, walk, start
<1>4. step \in [1..n -> [X -> X]] /\ \A i \in 1..n : \A x \in X : step[i][x] = At(x, i)
  BY <1>2
<1> HIDE DEF step
<1>5. PICK f \in [0..n -> X] : Order!Repeats(f, n, start, step)
  BY <1>0, <1>1, <1>4, Recursion DEF X
<1>6. Is(f)
  <2>1. ASSUME NEW i \in 0..n
        PROVE  f[i] = IF i = 0 THEN start ELSE At(f[i - 1], i)
    <3>1. CASE i = 0
      BY <1>5, <3>1 DEF Order!Repeats
    <3>2. CASE i # 0
      <4>0. i \in 1..n /\ i - 1 \in 0..n
        BY <1>0, <3>2
      <4>1. f[i - 1] \in X
        BY <4>0
      <4>2. f[i] = step[i][f[i - 1]]
        BY <1>5, <4>0 DEF Order!Repeats
      <4> QED BY <1>4, <3>2, <4>0, <4>1, <4>2
    <3> QED BY <3>1, <3>2
  <2> QED BY <2>1
<1>7. Is(walk)
  <2> HIDE DEF Is
  <2> QED BY <1>3, <1>6, Zenon
<1>8. walk[0] = start /\ \A i \in 1..n : walk[i] = At(walk[i - 1], i)
  <2>1. \A i \in 0..n : walk[i] = IF i = 0 THEN start ELSE At(walk[i - 1], i)
    BY <1>7, Zenon
  <2>2. 0 \in 0..n /\ \A i \in 1..n : i \in 0..n /\ i # 0
    BY <1>0
  <2> QED BY <2>1, <2>2, Zenon
<1>9. \A i \in 0..n : walk[i] = Cardinality(DirtyBy(st, i))
  <2> DEFINE T == {i \in 0..n : walk[i] = Cardinality(DirtyBy(st, i))}
  <2>1. 0 \in T
    <3>1. 0 \in 0..n
      BY <1>0
    <3> QED BY <1>1, <1>8, <3>1, Zenon
  <2>2. ASSUME NEW i \in 1..n, i - 1 \in T PROVE i \in T
    <3>1. i \in 0..n /\ walk[i - 1] = Cardinality(DirtyBy(st, i - 1))
      BY <1>0, <2>2
    <3>2. Cardinality(DirtyBy(st, i)) = At(walk[i - 1], i)
      BY <3>1, DirtyStep DEF n, At
    <3> QED BY <1>8, <3>1, <3>2
  <2> HIDE DEF T
  <2>3. \A i \in 0..n : i \in T
    BY <1>0, <2>1, <2>2, UpTo
  <2> QED BY <2>3 DEF T
<1>10. n \in 0..n
  BY <1>0
<1>11. walk[n] = Cardinality(DirtyBy(st, n))
  BY <1>9, <1>10
<1>12. DirtyBy(st, n) = {c \in Cells : Get(st, c) # None}
  BY FirstCellsIs DEF DirtyBy, n
<1>13. DirtyBytes(st) = walk[n]
  BY DEF DirtyBytes, walk, n
<1> QED BY <1>11, <1>12, <1>13

LEMMA SoundSummaries == StoreInv => SummariesExact
BY DirtyBytesAre, HasInRangeIs DEF StoreInv, SummariesExact

\* SummariesExact, for all lengths, patterns, runs and keys: the count of
\* replaced bytes and the range query agree with the lookup cell by cell.
THEOREM SummariesAreExact == Spec => []SummariesExact
BY StoreInvariant, SoundSummaries, PTL

=============================================================================
