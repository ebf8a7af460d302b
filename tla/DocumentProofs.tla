---------------------------- MODULE DocumentProofs ----------------------------
(***************************************************************************)
(* Facts about documents and the operations on them, for documents of any  *)
(* length, that the proofs about the editing session and about batches     *)
(* share: every edit leads from one document to the next, and back,        *)
(* exactly, by the operations that it records; and the undo and the redo   *)
(* stack lie on one line of documents.                                     *)
(*                                                                         *)
(* The first sections are about numbers and recursion only, and the other  *)
(* proofs cite them too.                                                   *)
(***************************************************************************)
EXTENDS DocumentEdits, FiniteSetTheorems, WellFoundedInduction, TLAPS

(***************************************************************************)
(* The order of the natural numbers                                        *)
(***************************************************************************)

\* The least element of a set of naturals.
LEMMA LeastNatural ==
    ASSUME NEW S \in SUBSET Nat, S # {}
    PROVE  \E m \in S : \A k \in S : m <= k
<1> DEFINE R == OpToRel(<, Nat)
<1>1. IsWellFoundedOn(R, Nat)
  BY NatLessThanWellFounded
<1>2. \A x, y \in Nat : x < y => <<x, y>> \in R
  BY DEF OpToRel
<1> HIDE DEF R
<1>3. PICK m \in S : \A k \in S : ~ (<<k, m>> \in R)
  BY <1>1, WFMin
<1>4. ASSUME NEW k \in S
      PROVE  m <= k
  <2>1. m \in Nat /\ k \in Nat
    OBVIOUS
  <2>2. ~ (k < m)
    BY <1>2, <1>3, <2>1
  <2> QED BY <2>1, <2>2
<1> QED BY <1>4

\* Induction over the naturals, with the numbers it holds for as a set.
LEMMA AllNaturals ==
    ASSUME NEW T \in SUBSET Nat, 0 \in T, \A n \in T : n + 1 \in T
    PROVE  T = Nat
<1> SUFFICES ASSUME Nat \ T # {}
             PROVE  FALSE
  OBVIOUS
<1>1. PICK m \in Nat \ T : \A k \in Nat \ T : m <= k
  BY LeastNatural
<1>2. m # 0 /\ m - 1 \in Nat
  OBVIOUS
<1>3. m - 1 \in T
  BY <1>1, <1>2
<1>4. (m - 1) + 1 = m
  BY <1>2
<1> QED BY <1>1, <1>3, <1>4

(***************************************************************************)
(* Recursion                                                               *)
(***************************************************************************)

\* f starts from base and goes on by step, up to n.
Repeats(f, n, base, step) ==
    f[0] = base /\ \A i \in 1..n : f[i] = step[i][f[i - 1]]

\* A function can be defined by recursion up to n.
LEMMA Recursion ==
    ASSUME NEW X, NEW base \in X, NEW n \in Nat, NEW step \in [1..n -> [X -> X]]
    PROVE  \E f \in [0..n -> X] : Repeats(f, n, base, step)
<1> DEFINE Good(m, f) == f[0] = base /\ \A i \in 1..m : f[i] = step[i][f[i - 1]]
           Ready(m) == \E f \in [0..m -> X] : Good(m, f)
           T == {m \in Nat : m <= n => Ready(m)}
<1>1. 0 \in T
  <2> DEFINE f == [i \in 0..0 |-> base]
  <2>1. f \in [0..0 -> X] /\ Good(0, f)
    OBVIOUS
  <2> QED BY <2>1
<1>2. ASSUME NEW m \in T PROVE m + 1 \in T
  <2> HIDE DEF Ready
  <2> SUFFICES ASSUME m + 1 <= n
               PROVE  Ready(m + 1)
    OBVIOUS
  <2>0. m \in Nat /\ Ready(m)
    OBVIOUS
  <2>1. PICK g \in [0..m -> X] : Good(m, g)
    BY <2>0 DEF Ready
  <2> DEFINE f == [i \in 0..(m + 1) |-> IF i = m + 1 THEN step[m + 1][g[m]] ELSE g[i]]
  <2>2. step[m + 1][g[m]] \in X
    <3>1. m + 1 \in 1..n /\ m \in 0..m
      BY <2>0
    <3> QED BY <3>1
  <2>3. f \in [0..(m + 1) -> X]
    BY <2>0, <2>2
  <2>4. f[0] = base
    BY <2>0, <2>1
  <2>5. ASSUME NEW i \in 1..(m + 1) PROVE f[i] = step[i][f[i - 1]]
    <3>1. CASE i = m + 1
      <4>1. f[m + 1] = step[m + 1][g[m]]
        BY <2>0
      <4>2. f[(m + 1) - 1] = g[m]
        BY <2>0
      <4> QED BY <3>1, <4>1, <4>2
    <3>2. CASE i # m + 1
      <4>1. i \in 1..m /\ i - 1 \in 0..m
        BY <3>2
      <4>2. f[i] = g[i] /\ f[i - 1] = g[i - 1]
        BY <4>1
      <4> QED BY <2>1, <4>1, <4>2
    <3> QED BY <3>1, <3>2
  <2> HIDE DEF f
  <2> QED BY <2>3, <2>4, <2>5 DEF Ready
<1> HIDE DEF T
<1>3. T = Nat
  <2>1. T \in SUBSET Nat
    BY DEF T
  <2> QED BY <1>1, <1>2, <2>1, AllNaturals
<1>4. PICK f \in [0..n -> X] : Good(n, f)
  BY <1>3 DEF T
<1> QED BY <1>4 DEF Repeats

\* Induction up to n.
LEMMA UpTo ==
    ASSUME NEW n \in Nat, NEW T, 0 \in T, \A i \in 1..n : i - 1 \in T => i \in T
    PROVE  \A i \in 0..n : i \in T
<1> DEFINE U == {i \in Nat : i <= n => i \in T}
<1>1. 0 \in U
  OBVIOUS
<1>2. ASSUME NEW i \in U PROVE i + 1 \in U
  <2> SUFFICES ASSUME i + 1 <= n PROVE i + 1 \in T
    OBVIOUS
  <2>1. i \in T /\ i + 1 \in 1..n /\ (i + 1) - 1 = i
    OBVIOUS
  <2> QED BY <2>1
<1> HIDE DEF U
<1>3. U = Nat
  <2>1. U \in SUBSET Nat
    BY DEF U
  <2> QED BY <1>1, <1>2, <2>1, AllNaturals
<1> QED BY <1>3 DEF U

(***************************************************************************)
(* Definitions                                                             *)
(***************************************************************************)

Partial(S, V) == UNION {[D -> V] : D \in SUBSET S}

\* Documents and operations that name the cells 1..n only.
Docs(n) ==
    {d \in [base : Seq(Byte), cells : Seq(1..n), tomb : SUBSET (1..n),
            repl : Partial(1..n, Byte)] :
        n \in Nat /\ n <= Len(d.base)}

CellOps(n) == [kind : {"Insert", "RealDelete"}, off : Nat, cells : Seq(1..n)]

TombOps(n) == [kind : {"Tombstone"}, ids : SUBSET (1..n)]

ReplaceOps(n) == [kind : {"ReplaceBytes"}, ids : SUBSET (1..n),
                  before : Partial(1..n, Byte), after : Partial(1..n, Byte)]

BulkOps == [kind : {"BulkBytes"}, off : Nat, n : Nat, bytes : Seq(Byte)]

XorOps == [kind : {"BulkXor"}, off : Nat, n : Nat]

PatchOps(n) == [kind : {"ReplacePatch"}, off : Nat, n : Nat,
                before : Partial(1..n, Byte), after : Partial(1..n, Byte)]

SlotOps(n) ==
    TombOps(n) \cup ReplaceOps(n) \cup BulkOps \cup XorOps \cup PatchOps(n)

Ops(n) == CellOps(n) \cup SlotOps(n)

\* A step inserts or deletes cells by one operation, or by none.
OpLists(n) ==
    {ops \in Seq(Ops(n)) : Len(ops) = 1 \/ ops \in Seq(SlotOps(n))}

Injective(s) == \A i, j \in DOMAIN s : s[i] = s[j] => i = j

\* The operations lead from document d to document e and back.
Leads(d, ops, e) == ApplyOps(d, ops) = Unfailed(e) /\ UndoOps(e, ops) = Unfailed(d)

\* The document as it was opened or last saved, with len bytes.
Original(len, d) ==
    /\ len <= Len(d.base)
    /\ d.cells = [i \in 1..len |-> i] /\ d.tomb = {}
    /\ DOMAIN d.repl \cap 1..len = {}

\* The step between documents k - 1 and k of the line of undo stack u and
\* redo stack r.
StepOf(u, r, k) == IF k <= Len(u) THEN u[k] ELSE r[Len(r) - (k - Len(u)) + 1]

Stop(E, n, base, k) == E[k] \in Docs(n) /\ E[k].base = base /\ Injective(E[k].cells)

Linked(E, step, k) == Leads(E[k - 1], step.ops, E[k]) /\ step.shown = Display(E[k - 1])

\* The line of documents E, which start from len bytes and name n cells.
Line(E, len, u, r, n, d) ==
    /\ \A k \in 0..(Len(u) + Len(r)) : Stop(E, n, d.base, k)
    /\ \A k \in 1..(Len(u) + Len(r)) : Linked(E, StepOf(u, r, k), k)
    /\ Original(len, E[0]) /\ E[Len(u)] = d

History(len, u, r, n, d) == \E E : Line(E, len, u, r, n, d)

(***************************************************************************)
(* Functions on some of a set                                              *)
(***************************************************************************)

LEMMA PartialIs ==
    ASSUME NEW S, NEW V, NEW f \in Partial(S, V)
    PROVE  /\ DOMAIN f \subseteq S /\ f \in [DOMAIN f -> V]
           /\ \A x \in DOMAIN f : x \in S /\ f[x] \in V
<1>1. PICK D \in SUBSET S : f \in [D -> V]
  BY DEF Partial
<1>2. DOMAIN f = D
  BY <1>1
<1> QED BY <1>1, <1>2

LEMMA IsPartial ==
    ASSUME NEW S, NEW V, NEW D \in SUBSET S, NEW f \in [D -> V]
    PROVE  f \in Partial(S, V)
BY DEF Partial

LEMMA SamePartial ==
    ASSUME NEW S, NEW V, NEW f \in Partial(S, V), NEW g \in Partial(S, V),
           DOMAIN f = DOMAIN g, \A x \in DOMAIN f : f[x] = g[x]
    PROVE  f = g
<1>1. f \in [DOMAIN f -> V] /\ g \in [DOMAIN f -> V]
  BY PartialIs
<1> HIDE DEF Partial
<1> QED BY <1>1

\* w is f on some of its domain, or f where g has no value.
SameOn(w, f, D) == DOMAIN w = D /\ \A x \in D : w[x] = f[x]

Overlaid(w, f, g) ==
    /\ DOMAIN w = DOMAIN f \cup DOMAIN g
    /\ \A x \in DOMAIN w : w[x] = IF x \in DOMAIN g THEN g[x] ELSE f[x]

LEMMA WithoutIs ==
    ASSUME NEW S, NEW V, NEW f \in Partial(S, V), NEW ids
    PROVE  Without(f, ids) \in Partial(S, V) /\ SameOn(Without(f, ids), f, DOMAIN f \ ids)
<1>1. DOMAIN f \subseteq S /\ \A x \in DOMAIN f : f[x] \in V
  BY PartialIs
<1>2. Without(f, ids) \in [DOMAIN f \ ids -> V]
  BY <1>1 DEF Without
<1>3. Without(f, ids) \in Partial(S, V)
  BY <1>1, <1>2, IsPartial
<1> QED BY <1>3 DEF Without, SameOn

LEMMA OnlyIs ==
    ASSUME NEW S, NEW V, NEW f \in Partial(S, V), NEW ids
    PROVE  Only(f, ids) \in Partial(S, V) /\ SameOn(Only(f, ids), f, DOMAIN f \cap ids)
<1>1. DOMAIN f \subseteq S /\ \A x \in DOMAIN f : f[x] \in V
  BY PartialIs
<1>2. Only(f, ids) \in [DOMAIN f \cap ids -> V]
  BY <1>1 DEF Only
<1>3. Only(f, ids) \in Partial(S, V)
  BY <1>1, <1>2, IsPartial
<1> QED BY <1>3 DEF Only, SameOn

LEMMA OverIs ==
    ASSUME NEW S, NEW V, NEW f \in Partial(S, V), NEW g \in Partial(S, V)
    PROVE  Over(f, g) \in Partial(S, V) /\ Overlaid(Over(f, g), f, g)
<1>1. /\ DOMAIN f \subseteq S /\ \A x \in DOMAIN f : f[x] \in V
      /\ DOMAIN g \subseteq S /\ \A x \in DOMAIN g : g[x] \in V
  BY PartialIs
<1>2. Over(f, g) \in [DOMAIN f \cup DOMAIN g -> V]
  BY <1>1 DEF Over
<1>3. Over(f, g) \in Partial(S, V)
  BY <1>1, <1>2, IsPartial
<1> QED BY <1>3 DEF Over, Overlaid

(***************************************************************************)
(* Sequences                                                               *)
(***************************************************************************)

LEMMA SameSeq ==
    ASSUME NEW S, NEW s \in Seq(S), NEW t \in Seq(S), Len(s) = Len(t),
           \A i \in 1..Len(s) : s[i] = t[i]
    PROVE  s = t
OBVIOUS

LEMMA SubSeqIs ==
    ASSUME NEW S, NEW s \in Seq(S), NEW a \in Nat, NEW m \in Nat, a + m <= Len(s)
    PROVE  /\ SubSeq(s, a + 1, a + m) \in Seq(S)
           /\ Len(SubSeq(s, a + 1, a + m)) = m
           /\ \A i \in 1..m : SubSeq(s, a + 1, a + m)[i] = s[a + i]
<1>1. Len(s) \in Nat /\ a + 1 \in Int /\ a + m \in Int
  OBVIOUS
<1>2. \A i \in (a + 1)..(a + m) : s[i] \in S
  OBVIOUS
<1>3. SubSeq(s, a + 1, a + m) \in Seq(S)
  BY <1>1, <1>2
<1> QED BY <1>1, <1>3

\* The parts of a sequence around n places from a.
LEMMA PrefixIs ==
    ASSUME NEW S, NEW s \in Seq(S), NEW a \in Nat, a <= Len(s)
    PROVE  /\ SubSeq(s, 1, a) \in Seq(S) /\ Len(SubSeq(s, 1, a)) = a
           /\ \A i \in 1..a : SubSeq(s, 1, a)[i] = s[i]
<1>1. 0 + a <= Len(s) /\ 0 + 1 = 1 /\ 0 + a = a /\ \A i \in 1..a : 0 + i = i
  OBVIOUS
<1>2. /\ SubSeq(s, 0 + 1, 0 + a) \in Seq(S) /\ Len(SubSeq(s, 0 + 1, 0 + a)) = a
      /\ \A i \in 1..a : SubSeq(s, 0 + 1, 0 + a)[i] = s[0 + i]
  BY <1>1, SubSeqIs
<1> QED BY <1>1, <1>2

LEMMA SuffixIs ==
    ASSUME NEW S, NEW s \in Seq(S), NEW a \in Nat
    PROVE  LET t == SubSeq(s, a + 1, Len(s))
           IN  /\ t \in Seq(S) /\ Len(t) = IF a <= Len(s) THEN Len(s) - a ELSE 0
               /\ \A i \in 1..Len(t) : t[i] = s[a + i]
<1> DEFINE t == SubSeq(s, a + 1, Len(s))
<1>1. CASE a <= Len(s)
  <2> DEFINE m == Len(s) - a
  <2>1. m \in Nat /\ a + m = Len(s)
    BY <1>1
  <2>2. /\ SubSeq(s, a + 1, a + m) \in Seq(S) /\ Len(SubSeq(s, a + 1, a + m)) = m
        /\ \A i \in 1..m : SubSeq(s, a + 1, a + m)[i] = s[a + i]
    <3> HIDE DEF m
    <3> QED BY <2>1, SubSeqIs
  <2> QED BY <1>1, <2>1, <2>2
<1>2. CASE ~ (a <= Len(s))
  <2>1. t = <<>>
    BY <1>2
  <2> HIDE DEF t
  <2> QED BY <1>2, <2>1 DEF t
<1> QED BY <1>1, <1>2

\* t is the part of s that has m places from a.
TakenFrom(t, s, a, m) == Len(t) = m /\ \A i \in 1..m : t[i] = s[a + i]

LEMMA TakeIs ==
    ASSUME NEW S, NEW s \in Seq(S), NEW a \in Nat, NEW m \in Nat, a + m <= Len(s)
    PROVE  /\ SubSeq(s, a + 1, a + m) \in Seq(S)
           /\ TakenFrom(SubSeq(s, a + 1, a + m), s, a, m)
BY SubSeqIs DEF TakenFrom

SpliceSeq(s, off, t) == SubSeq(s, 1, off) \o t \o SubSeq(s, off + 1, Len(s))

CutSeq(s, off, m) == SubSeq(s, 1, off) \o SubSeq(s, off + m + 1, Len(s))

\* u is s with t spliced in at off.
SplicedAs(u, s, off, t) ==
    /\ Len(u) = Len(s) + Len(t)
    /\ \A i \in 1..(Len(s) + Len(t)) :
        u[i] = IF i <= off THEN s[i]
               ELSE IF i <= off + Len(t) THEN t[i - off] ELSE s[i - Len(t)]

\* u is s without m places at off.
CutAs(u, s, off, m) ==
    /\ Len(u) = IF off + m <= Len(s) THEN Len(s) - m ELSE off
    /\ \A i \in 1..Len(u) : u[i] = IF i <= off THEN s[i] ELSE s[i + m]

LEMMA JoinIs ==
    ASSUME NEW S, NEW s \in Seq(S), NEW t \in Seq(S)
    PROVE  /\ s \o t \in Seq(S) /\ Len(s) \in Nat /\ Len(t) \in Nat
           /\ Len(s \o t) = Len(s) + Len(t)
           /\ \A i \in 1..Len(s) : (s \o t)[i] = s[i]
           /\ \A i \in (Len(s) + 1)..(Len(s) + Len(t)) : (s \o t)[i] = t[i - Len(s)]
OBVIOUS

LEMMA SpliceSeqIs ==
    ASSUME NEW S, NEW s \in Seq(S), NEW off \in Nat, off <= Len(s), NEW t \in Seq(S)
    PROVE  SpliceSeq(s, off, t) \in Seq(S) /\ SplicedAs(SpliceSeq(s, off, t), s, off, t)
<1> DEFINE a == SubSeq(s, 1, off)
           b == SubSeq(s, off + 1, Len(s))
<1>1. a \in Seq(S) /\ Len(a) = off /\ \A i \in 1..off : a[i] = s[i]
  BY PrefixIs
<1>2. b \in Seq(S) /\ Len(b) = Len(s) - off /\ \A i \in 1..Len(b) : b[i] = s[off + i]
  BY SuffixIs
<1>3. SpliceSeq(s, off, t) = a \o t \o b
  BY DEF SpliceSeq
<1> HIDE DEF a, b
<1> DEFINE p == a \o t
<1>4. /\ p \in Seq(S) /\ Len(p) = off + Len(t) /\ Len(t) \in Nat /\ Len(s) \in Nat
      /\ \A i \in 1..off : p[i] = a[i]
      /\ \A i \in (off + 1)..(off + Len(t)) : p[i] = t[i - off]
  BY <1>1, JoinIs
<1> HIDE DEF p
<1>5. /\ p \o b \in Seq(S) /\ Len(p \o b) = Len(p) + Len(b)
      /\ \A i \in 1..Len(p) : (p \o b)[i] = p[i]
      /\ \A i \in (Len(p) + 1)..(Len(p) + Len(b)) : (p \o b)[i] = b[i - Len(p)]
  <2>1. p \in Seq(S) /\ b \in Seq(S)
    BY <1>2, <1>4
  <2> QED BY <2>1, JoinIs, Zenon
<1>6. Len(p) + Len(b) = Len(s) + Len(t)
  BY <1>2, <1>4
<1>7. ASSUME NEW i \in 1..(Len(s) + Len(t))
      PROVE  (p \o b)[i] = IF i <= off THEN s[i]
                           ELSE IF i <= off + Len(t) THEN t[i - off] ELSE s[i - Len(t)]
  <2>1. CASE i <= off
    <3>1. i \in 1..off /\ i \in 1..Len(p)
      BY <1>4, <2>1
    <3> QED BY <1>1, <1>4, <1>5, <2>1, <3>1
  <2>2. CASE ~ (i <= off) /\ i <= off + Len(t)
    <3>1. i \in (off + 1)..(off + Len(t)) /\ i \in 1..Len(p)
      BY <1>4, <2>2
    <3> QED BY <1>4, <1>5, <2>2, <3>1
  <2>3. CASE ~ (i <= off + Len(t))
    <3>0. Len(p) = off + Len(t) /\ Len(b) = Len(s) - off /\ Len(t) \in Nat /\ Len(s) \in Nat
      BY <1>2, <1>4
    <3>1. /\ i \in (Len(p) + 1)..(Len(p) + Len(b)) /\ i - Len(p) \in 1..Len(b)
          /\ off + (i - Len(p)) = i - Len(t) /\ ~ (i <= off)
      BY <2>3, <3>0
    <3> QED BY <1>2, <1>5, <2>3, <3>1
  <2> QED BY <2>1, <2>2, <2>3
<1> QED BY <1>3, <1>5, <1>6, <1>7 DEF p, SplicedAs

LEMMA CutSeqIs ==
    ASSUME NEW S, NEW s \in Seq(S), NEW off \in Nat, off <= Len(s), NEW m \in Nat
    PROVE  CutSeq(s, off, m) \in Seq(S) /\ CutAs(CutSeq(s, off, m), s, off, m)
<1> DEFINE a == SubSeq(s, 1, off)
           c == off + m
           b == SubSeq(s, c + 1, Len(s))
<1>1. a \in Seq(S) /\ Len(a) = off /\ \A i \in 1..off : a[i] = s[i]
  BY PrefixIs
<1>2. /\ b \in Seq(S) /\ Len(b) = IF c <= Len(s) THEN Len(s) - c ELSE 0
      /\ \A i \in 1..Len(b) : b[i] = s[c + i]
  <2>1. c \in Nat
    OBVIOUS
  <2> HIDE DEF c
  <2> QED BY <2>1, SuffixIs
<1>3. CutSeq(s, off, m) = a \o b
  BY DEF CutSeq
<1> HIDE DEF a, b
<1>4. /\ a \o b \in Seq(S) /\ Len(a \o b) = off + Len(b)
      /\ \A i \in 1..off : (a \o b)[i] = a[i]
      /\ \A i \in (off + 1)..(off + Len(b)) : (a \o b)[i] = b[i - off]
  <2>1. a \in Seq(S) /\ b \in Seq(S) /\ Len(a) = off
    BY <1>1, <1>2
  <2>2. /\ a \o b \in Seq(S) /\ Len(a \o b) = Len(a) + Len(b)
        /\ \A i \in 1..Len(a) : (a \o b)[i] = a[i]
        /\ \A i \in (Len(a) + 1)..(Len(a) + Len(b)) : (a \o b)[i] = b[i - Len(a)]
    BY <2>1, JoinIs, Zenon
  <2> QED BY <2>1, <2>2
<1>5. off + Len(b) = IF off + m <= Len(s) THEN Len(s) - m ELSE off
  BY <1>2
<1>6. ASSUME NEW i \in 1..(off + Len(b)) PROVE (a \o b)[i] = IF i <= off THEN s[i] ELSE s[i + m]
  <2>1. CASE i <= off
    <3>1. i \in 1..off
      BY <2>1
    <3> QED BY <1>1, <1>4, <2>1, <3>1
  <2>2. CASE ~ (i <= off)
    <3>1. /\ i - off \in 1..Len(b) /\ c + (i - off) = i + m
          /\ i \in (off + 1)..(off + Len(b))
      BY <1>2, <2>2
    <3> QED BY <1>2, <1>4, <2>2, <3>1
  <2> QED BY <2>1, <2>2
<1> HIDE DEF c
<1> QED BY <1>3, <1>4, <1>5, <1>6 DEF CutAs

\* What is spliced in can be cut out again.
LEMMA CutSpliced ==
    ASSUME NEW S, NEW s \in Seq(S), NEW off \in Nat, off <= Len(s), NEW t \in Seq(S)
    PROVE  CutSeq(SpliceSeq(s, off, t), off, Len(t)) = s
<1> DEFINE u == SpliceSeq(s, off, t)
           v == CutSeq(u, off, Len(t))
<1>1. /\ u \in Seq(S) /\ Len(u) = Len(s) + Len(t)
      /\ \A i \in 1..(Len(s) + Len(t)) :
            u[i] = IF i <= off THEN s[i]
                   ELSE IF i <= off + Len(t) THEN t[i - off] ELSE s[i - Len(t)]
  <2>1. u \in Seq(S) /\ SplicedAs(u, s, off, t)
    BY SpliceSeqIs, Zenon
  <2> HIDE DEF u
  <2> QED BY <2>1 DEF SplicedAs
<1> HIDE DEF u
<1>2. off <= Len(u) /\ Len(t) \in Nat /\ off + Len(t) <= Len(u)
  BY <1>1
<1>3. /\ v \in Seq(S) /\ Len(v) = Len(u) - Len(t)
      /\ \A i \in 1..Len(v) : v[i] = IF i <= off THEN u[i] ELSE u[i + Len(t)]
  <2>1. v \in Seq(S) /\ CutAs(v, u, off, Len(t))
    BY <1>1, <1>2, CutSeqIs
  <2> QED BY <1>2, <2>1 DEF CutAs
<1> HIDE DEF v
<1>4. Len(v) = Len(s)
  BY <1>1, <1>3
<1>5. ASSUME NEW i \in 1..Len(v) PROVE v[i] = s[i]
  <2>1. CASE i <= off
    <3>1. i \in 1..(Len(s) + Len(t))
      BY <1>4
    <3> QED BY <1>1, <1>3, <2>1, <3>1
  <2>2. CASE ~ (i <= off)
    <3>1. /\ i + Len(t) \in 1..(Len(s) + Len(t)) /\ ~ (i + Len(t) <= off)
          /\ ~ (i + Len(t) <= off + Len(t)) /\ (i + Len(t)) - Len(t) = i
      BY <1>4, <2>2
    <3> QED BY <1>1, <1>3, <2>2, <3>1
  <2> QED BY <2>1, <2>2
<1> QED BY <1>3, <1>4, <1>5, SameSeq DEF v, u

\* What is cut out can be spliced in again.
LEMMA SplicedCut ==
    ASSUME NEW S, NEW s \in Seq(S), NEW off \in Nat, NEW t \in Seq(S),
           off + Len(t) <= Len(s), \A i \in 1..Len(t) : t[i] = s[off + i]
    PROVE  SpliceSeq(CutSeq(s, off, Len(t)), off, t) = s
<1> DEFINE u == CutSeq(s, off, Len(t))
           v == SpliceSeq(u, off, t)
<1>0. off <= Len(s) /\ Len(t) \in Nat
  OBVIOUS
<1>1. /\ u \in Seq(S) /\ Len(u) = Len(s) - Len(t)
      /\ \A i \in 1..Len(u) : u[i] = IF i <= off THEN s[i] ELSE s[i + Len(t)]
  <2>1. u \in Seq(S) /\ CutAs(u, s, off, Len(t))
    BY <1>0, CutSeqIs
  <2> QED BY <1>0, <2>1 DEF CutAs
<1> HIDE DEF u
<1>2. off <= Len(u)
  BY <1>1
<1>3. /\ v \in Seq(S) /\ Len(v) = Len(u) + Len(t)
      /\ \A i \in 1..(Len(u) + Len(t)) :
            v[i] = IF i <= off THEN u[i]
                   ELSE IF i <= off + Len(t) THEN t[i - off] ELSE u[i - Len(t)]
  <2>1. v \in Seq(S) /\ SplicedAs(v, u, off, t)
    BY <1>1, <1>2, SpliceSeqIs
  <2> QED BY <2>1 DEF SplicedAs
<1> HIDE DEF v
<1>4. Len(v) = Len(s) /\ Len(u) + Len(t) = Len(s)
  BY <1>1, <1>3
<1>5. ASSUME NEW i \in 1..Len(s) PROVE v[i] = s[i]
  <2>1. CASE i <= off
    <3>1. i \in 1..Len(u)
      BY <1>2, <2>1
    <3> QED BY <1>1, <1>3, <1>4, <2>1, <3>1
  <2>2. CASE ~ (i <= off) /\ i <= off + Len(t)
    <3>1. i - off \in 1..Len(t) /\ off + (i - off) = i
      BY <2>2
    <3>2. v[i] = t[i - off]
      BY <1>3, <1>4, <2>2
    <3> QED BY <3>1, <3>2
  <2>3. CASE ~ (i <= off + Len(t))
    <3>1. /\ i - Len(t) \in 1..Len(u) /\ ~ (i - Len(t) <= off) /\ ~ (i <= off)
          /\ (i - Len(t)) + Len(t) = i
      BY <1>1, <2>3
    <3>2. v[i] = u[i - Len(t)]
      BY <1>3, <1>4, <2>3, <3>1
    <3> QED BY <1>1, <3>1, <3>2
  <2> QED BY <2>1, <2>2, <2>3
<1> QED BY <1>3, <1>4, <1>5, SameSeq DEF v, u

(***************************************************************************)
(* Documents                                                               *)
(***************************************************************************)

LEMMA DocIs ==
    ASSUME NEW n, NEW d \in Docs(n)
    PROVE  /\ n \in Nat /\ n <= Len(d.base) /\ d.base \in Seq(Byte) /\ d.cells \in Seq(1..n)
           /\ d.tomb \in SUBSET (1..n) /\ d.repl \in Partial(1..n, Byte)
           /\ DocLen(d) = Len(d.cells) /\ DocLen(d) \in Nat
           /\ d = [base |-> d.base, cells |-> d.cells, tomb |-> d.tomb, repl |-> d.repl]
<1> HIDE DEF Partial
<1> QED BY DEF Docs, DocLen

LEMMA IsDoc ==
    ASSUME NEW n \in Nat, NEW base \in Seq(Byte), n <= Len(base), NEW cells \in Seq(1..n),
           NEW tomb \in SUBSET (1..n), NEW repl \in Partial(1..n, Byte)
    PROVE  [base |-> base, cells |-> cells, tomb |-> tomb, repl |-> repl] \in Docs(n)
<1> HIDE DEF Partial
<1> QED BY DEF Docs

LEMMA CellsDoc ==
    ASSUME NEW n, NEW d \in Docs(n), NEW cells \in Seq(1..n)
    PROVE  /\ [d EXCEPT !.cells = cells] \in Docs(n)
           /\ [d EXCEPT !.cells = cells] =
                [base |-> d.base, cells |-> cells, tomb |-> d.tomb, repl |-> d.repl]
<1>1. [d EXCEPT !.cells = cells] =
        [base |-> d.base, cells |-> cells, tomb |-> d.tomb, repl |-> d.repl]
  BY DocIs
<1>2. /\ n \in Nat /\ n <= Len(d.base) /\ d.base \in Seq(Byte) /\ d.cells \in Seq(1..n)
      /\ d.tomb \in SUBSET (1..n) /\ d.repl \in Partial(1..n, Byte)
  BY DocIs
<1>3. [base |-> d.base, cells |-> cells, tomb |-> d.tomb, repl |-> d.repl] \in Docs(n)
  BY <1>2, IsDoc
<1> QED BY <1>1, <1>3

LEMMA TombDoc ==
    ASSUME NEW n, NEW d \in Docs(n), NEW tomb \in SUBSET (1..n)
    PROVE  /\ [d EXCEPT !.tomb = tomb] \in Docs(n)
           /\ [d EXCEPT !.tomb = tomb] =
                [base |-> d.base, cells |-> d.cells, tomb |-> tomb, repl |-> d.repl]
<1>1. [d EXCEPT !.tomb = tomb] =
        [base |-> d.base, cells |-> d.cells, tomb |-> tomb, repl |-> d.repl]
  BY DocIs
<1>2. /\ n \in Nat /\ n <= Len(d.base) /\ d.base \in Seq(Byte) /\ d.cells \in Seq(1..n)
      /\ d.tomb \in SUBSET (1..n) /\ d.repl \in Partial(1..n, Byte)
  BY DocIs
<1>3. [base |-> d.base, cells |-> d.cells, tomb |-> tomb, repl |-> d.repl] \in Docs(n)
  BY <1>2, IsDoc
<1> QED BY <1>1, <1>3

LEMMA ReplDoc ==
    ASSUME NEW n, NEW d \in Docs(n), NEW repl \in Partial(1..n, Byte)
    PROVE  /\ [d EXCEPT !.repl = repl] \in Docs(n)
           /\ [d EXCEPT !.repl = repl] =
                [base |-> d.base, cells |-> d.cells, tomb |-> d.tomb, repl |-> repl]
<1>1. [d EXCEPT !.repl = repl] =
        [base |-> d.base, cells |-> d.cells, tomb |-> d.tomb, repl |-> repl]
  BY DocIs
<1>2. /\ n \in Nat /\ n <= Len(d.base) /\ d.base \in Seq(Byte) /\ d.cells \in Seq(1..n)
      /\ d.tomb \in SUBSET (1..n) /\ d.repl \in Partial(1..n, Byte)
  BY DocIs
<1>3. [base |-> d.base, cells |-> d.cells, tomb |-> d.tomb, repl |-> repl] \in Docs(n)
  BY <1>2, IsDoc
<1> QED BY <1>1, <1>3

LEMMA SameDoc ==
    ASSUME NEW n, NEW d \in Docs(n), NEW m, NEW e \in Docs(m),
           d.base = e.base, d.cells = e.cells, d.tomb = e.tomb, d.repl = e.repl
    PROVE  d = e
BY DocIs

LEMMA LeastIs ==
    ASSUME NEW a \in Int, NEW b \in Int
    PROVE  /\ Least(a, b) \in Int /\ Least(a, b) <= a /\ Least(a, b) <= b
           /\ Least(a, b) = a \/ Least(a, b) = b
BY DEF Least

LEMMA CellsAtIs ==
    ASSUME NEW n, NEW d \in Docs(n), NEW off \in Nat, NEW m \in Nat
    PROVE  /\ CellsAt(d, off, m) \in Seq(1..n) /\ Len(CellsAt(d, off, m)) <= m
           /\ Len(CellsAt(d, off, m)) \in Nat
           /\ off <= DocLen(d) => Len(CellsAt(d, off, m)) = Least(off + m, DocLen(d)) - off
           /\ \A i \in 1..Len(CellsAt(d, off, m)) :
                off + i <= DocLen(d) /\ CellsAt(d, off, m)[i] = d.cells[off + i]
<1> DEFINE s == d.cells
           top == Least(off + m, Len(s))
           c == SubSeq(s, off + 1, top)
<1>1. s \in Seq(1..n) /\ Len(s) \in Nat /\ DocLen(d) = Len(s)
  BY DocIs
<1>2. CellsAt(d, off, m) = c
  BY <1>1 DEF CellsAt
<1> HIDE DEF s
<1>3. CASE off <= Len(s)
  <2> DEFINE k == top - off
  <2>1. k \in Nat /\ k <= m /\ off + k = top /\ off + k <= Len(s)
    BY <1>1, <1>3 DEF Least
  <2>2. /\ SubSeq(s, off + 1, off + k) \in Seq(1..n) /\ Len(SubSeq(s, off + 1, off + k)) = k
        /\ \A i \in 1..k : SubSeq(s, off + 1, off + k)[i] = s[off + i]
    <3> HIDE DEF k, top, c
    <3>1. SubSeq(s, off + 1, off + k) \in Seq(1..n) /\ TakenFrom(SubSeq(s, off + 1, off + k), s, off, k)
      BY <1>1, <2>1, TakeIs
    <3> QED BY <3>1 DEF TakenFrom
  <2>3. c \in Seq(1..n) /\ Len(c) = k /\ \A i \in 1..k : c[i] = s[off + i]
    <3> HIDE DEF k, top
    <3> QED BY <2>1, <2>2
  <2>4. \A i \in 1..k : off + i <= Len(s)
    <3> HIDE DEF k, top, c
    <3> QED BY <1>1, <2>1
  <2>5. Len(c) <= m /\ Len(c) \in Nat /\ Len(c) = top - off
    <3> HIDE DEF top, c
    <3> QED BY <2>1, <2>3
  <2> HIDE DEF c, top, k
  <2> QED BY <1>1, <1>2, <2>3, <2>4, <2>5 DEF s, top, k
<1>4. CASE ~ (off <= Len(s))
  <2>1. top = Len(s)
    BY <1>1, <1>4 DEF Least
  <2>2. c \in Seq(1..n) /\ Len(c) = 0
    BY <1>1, <1>4, <2>1, SuffixIs
  <2> HIDE DEF c, top
  <2> QED BY <1>1, <1>2, <1>4, <2>2
<1> QED BY <1>3, <1>4

LEMMA IdsAtIs ==
    ASSUME NEW n, NEW d \in Docs(n), NEW off \in Nat, NEW m \in Nat
    PROVE  /\ IdsAt(d, off, m) \subseteq 1..n
           /\ IdsAt(d, off, m) = {CellsAt(d, off, m)[i] : i \in 1..Len(CellsAt(d, off, m))}
<1>1. CellsAt(d, off, m) \in Seq(1..n)
  BY CellsAtIs
<1> DEFINE c == CellsAt(d, off, m)
<1>2. DOMAIN c = 1..Len(c) /\ \A i \in 1..Len(c) : c[i] \in 1..n
  BY <1>1, DocIs
<1>3. IdsAt(d, off, m) = {c[i] : i \in DOMAIN c}
  BY DEF IdsAt, ToSet
<1> HIDE DEF c
<1> QED BY <1>2, <1>3 DEF c

LEMMA CutIs ==
    ASSUME NEW n, NEW d \in Docs(n), NEW off \in Nat, off <= DocLen(d), NEW m \in Nat
    PROVE  /\ Cut(d, off, m) \in Docs(n)
           /\ Cut(d, off, m) = [base |-> d.base, cells |-> CutSeq(d.cells, off, m),
                                tomb |-> d.tomb, repl |-> d.repl]
<1>1. CutSeq(d.cells, off, m) \in Seq(1..n)
  BY DocIs, CutSeqIs
<1>2. Cut(d, off, m) = [d EXCEPT !.cells = CutSeq(d.cells, off, m)]
  BY DEF Cut, CutSeq
<1> QED BY <1>1, <1>2, CellsDoc

LEMMA SpliceIs ==
    ASSUME NEW n, NEW d \in Docs(n), NEW off \in Nat, off <= DocLen(d), NEW t \in Seq(1..n)
    PROVE  /\ Splice(d, off, t) \in Docs(n)
           /\ Splice(d, off, t) = [base |-> d.base, cells |-> SpliceSeq(d.cells, off, t),
                                   tomb |-> d.tomb, repl |-> d.repl]
<1>1. SpliceSeq(d.cells, off, t) \in Seq(1..n)
  BY DocIs, SpliceSeqIs
<1>2. Splice(d, off, t) = [d EXCEPT !.cells = SpliceSeq(d.cells, off, t)]
  BY DEF Splice, SpliceSeq
<1> QED BY <1>1, <1>2, CellsDoc

(***************************************************************************)
(* Operations                                                              *)
(***************************************************************************)

LEMMA OpIs ==
    ASSUME NEW n, NEW op \in Ops(n)
    PROVE  \/ op \in CellOps(n) /\ op.kind = "Insert"
           \/ op \in CellOps(n) /\ op.kind = "RealDelete"
           \/ op \in SlotOps(n) /\ op \in TombOps(n) /\ op.kind = "Tombstone"
           \/ op \in SlotOps(n) /\ op \in ReplaceOps(n) /\ op.kind = "ReplaceBytes"
           \/ op \in SlotOps(n) /\ op \in BulkOps /\ op.kind = "BulkBytes"
           \/ op \in SlotOps(n) /\ op \in XorOps /\ op.kind = "BulkXor"
           \/ op \in SlotOps(n) /\ op \in PatchOps(n) /\ op.kind = "ReplacePatch"
<1>1. CASE op \in CellOps(n)
  BY <1>1 DEF CellOps
<1>2. CASE op \in TombOps(n)
  <2>1. op.kind = "Tombstone"
    BY <1>2 DEF TombOps
  <2> QED BY <1>2, <2>1, Zenon DEF SlotOps
<1>3. CASE op \in ReplaceOps(n)
  <2>1. op.kind = "ReplaceBytes"
    BY <1>3 DEF ReplaceOps
  <2> QED BY <1>3, <2>1, Zenon DEF SlotOps
<1>4. CASE op \in BulkOps
  <2>1. op.kind = "BulkBytes"
    BY <1>4 DEF BulkOps
  <2> QED BY <1>4, <2>1, Zenon DEF SlotOps
<1>5. CASE op \in XorOps
  <2>1. op.kind = "BulkXor"
    BY <1>5 DEF XorOps
  <2> QED BY <1>5, <2>1, Zenon DEF SlotOps
<1>6. CASE op \in PatchOps(n)
  <2>1. op.kind = "ReplacePatch"
    BY <1>6 DEF PatchOps
  <2> QED BY <1>6, <2>1, Zenon DEF SlotOps
<1> QED BY <1>1, <1>2, <1>3, <1>4, <1>5, <1>6, Zenon DEF Ops, SlotOps

LEMMA SlotKind ==
    ASSUME NEW n, NEW op \in SlotOps(n)
    PROVE  op \in Ops(n) /\ op.kind # "Insert" /\ op.kind # "RealDelete"
<1>1. op \in Ops(n)
  BY DEF Ops
<1>2. op \in TombOps(n) => op.kind = "Tombstone"
  BY DEF TombOps
<1>3. op \in ReplaceOps(n) => op.kind = "ReplaceBytes"
  BY DEF ReplaceOps
<1>4. op \in BulkOps => op.kind = "BulkBytes"
  BY DEF BulkOps
<1>5. op \in XorOps => op.kind = "BulkXor"
  BY DEF XorOps
<1>6. op \in PatchOps(n) => op.kind = "ReplacePatch"
  BY DEF PatchOps
<1> QED BY <1>1, <1>2, <1>3, <1>4, <1>5, <1>6 DEF SlotOps

\* The replacements that an operation on slots leaves, and its deletions.
UndoneRepl(d, op) ==
    CASE op.kind = "ReplaceBytes" -> Over(Without(d.repl, op.ids), op.before)
      [] op.kind \in {"BulkBytes", "BulkXor"} -> Without(d.repl, IdsAt(d, op.off, op.n))
      [] op.kind = "ReplacePatch" ->
            Over(Without(d.repl, IdsAt(d, op.off, op.n)), op.before)
      [] OTHER -> d.repl

LaidRun(d, off, bytes) ==
    LET ids == CellsAt(d, off, Len(bytes))
    IN  [x \in ToSet(ids) |-> bytes[CHOOSE i \in DOMAIN ids : ids[i] = x]]

FlippedRun(d, ids) == [x \in ids |-> Flipped(d.base[x])]

AppliedRepl(d, op) ==
    CASE op.kind = "ReplaceBytes" -> Over(Without(d.repl, op.ids), op.after)
      [] op.kind = "BulkBytes" -> Over(d.repl, LaidRun(d, op.off, op.bytes))
      [] op.kind = "BulkXor" -> Over(d.repl, FlippedRun(d, IdsAt(d, op.off, op.n)))
      [] op.kind = "ReplacePatch" ->
            Over(Without(d.repl, IdsAt(d, op.off, op.n)), op.after)
      [] OTHER -> d.repl

UndoneTomb(d, op) == IF op.kind = "Tombstone" THEN d.tomb \ op.ids ELSE d.tomb

AppliedTomb(d, op) == IF op.kind = "Tombstone" THEN d.tomb \cup op.ids ELSE d.tomb

LEMMA LaidIs ==
    ASSUME NEW n, NEW d \in Docs(n), NEW off \in Nat, NEW bytes \in Seq(Byte)
    PROVE  /\ LaidRun(d, off, bytes) \in Partial(1..n, Byte)
           /\ DOMAIN LaidRun(d, off, bytes) = IdsAt(d, off, Len(bytes))
<1> DEFINE ids == CellsAt(d, off, Len(bytes))
           At(x) == CHOOSE i \in DOMAIN ids : ids[i] = x
<1>1. /\ Len(bytes) \in Nat /\ \A i \in 1..Len(bytes) : bytes[i] \in Byte
  OBVIOUS
<1>2. ids \in Seq(1..n) /\ Len(ids) <= Len(bytes) /\ Len(ids) \in Nat
  BY <1>1, CellsAtIs
<1>3. IdsAt(d, off, Len(bytes)) \subseteq 1..n
  BY <1>1, IdsAtIs
<1>4. ToSet(ids) = IdsAt(d, off, Len(bytes)) /\ ToSet(ids) = {ids[i] : i \in DOMAIN ids}
  BY DEF IdsAt, ToSet
<1> HIDE DEF ids
<1>5. ASSUME NEW x \in ToSet(ids) PROVE bytes[At(x)] \in Byte
  <2>1. \E i \in DOMAIN ids : ids[i] = x
    BY <1>4
  <2>2. At(x) \in DOMAIN ids
    BY <2>1
  <2>3. At(x) \in 1..Len(bytes)
    BY <1>1, <1>2, <2>2
  <2> QED BY <1>1, <2>3
<1>6. LaidRun(d, off, bytes) = [x \in ToSet(ids) |-> bytes[At(x)]]
  BY DEF LaidRun, ids
<1> HIDE DEF At
<1>7. [x \in ToSet(ids) |-> bytes[At(x)]] \in [ToSet(ids) -> Byte]
  BY <1>5
<1> QED BY <1>3, <1>4, <1>6, <1>7, IsPartial

LEMMA FlippedIs ==
    ASSUME NEW b \in Byte
    PROVE  Flipped(b) \in Byte
<1> DEFINE m == Radix * Radix
<1>1. m \in Int /\ b \in 0..(m - 1)
  BY DocumentConstants DEF Byte
<1>2. Flipped(b) = m - 1 - b
  BY DEF Flipped
<1> HIDE DEF m
<1>3. m - 1 - b \in 0..(m - 1)
  BY <1>1
<1> QED BY <1>2, <1>3 DEF Byte, m

LEMMA FlippedRunIs ==
    ASSUME NEW n, NEW d \in Docs(n), NEW ids \in SUBSET (1..n)
    PROVE  /\ FlippedRun(d, ids) \in Partial(1..n, Byte)
           /\ DOMAIN FlippedRun(d, ids) = ids
<1>1. ASSUME NEW x \in ids PROVE Flipped(d.base[x]) \in Byte
  <2>1. d.base \in Seq(Byte) /\ n \in Nat /\ n <= Len(d.base)
    BY DocIs
  <2>2. d.base[x] \in Byte
    BY <2>1
  <2> QED BY <2>2, FlippedIs
<1>2. FlippedRun(d, ids) \in [ids -> Byte]
  BY <1>1 DEF FlippedRun
<1> QED BY <1>2, IsPartial DEF FlippedRun

LEMMA SlotRepl ==
    ASSUME NEW n, NEW d \in Docs(n), NEW op \in SlotOps(n)
    PROVE  /\ UndoneRepl(d, op) \in Partial(1..n, Byte) /\ UndoneTomb(d, op) \in SUBSET (1..n)
           /\ AppliedRepl(d, op) \in Partial(1..n, Byte) /\ AppliedTomb(d, op) \in SUBSET (1..n)
<1>0. d.repl \in Partial(1..n, Byte) /\ d.tomb \in SUBSET (1..n)
  BY DocIs
<1>1. op \in Ops(n) /\ op.kind # "Insert" /\ op.kind # "RealDelete"
  BY SlotKind
<1>2. CASE op \in TombOps(n) /\ op.kind = "Tombstone"
  <2>1. op.ids \in SUBSET (1..n)
    BY <1>2 DEF TombOps
  <2> QED BY <1>0, <1>2, <2>1 DEF UndoneRepl, UndoneTomb, AppliedRepl, AppliedTomb
<1>3. ASSUME op.kind # "Tombstone"
      PROVE  UndoneTomb(d, op) \in SUBSET (1..n) /\ AppliedTomb(d, op) \in SUBSET (1..n)
  BY <1>0, <1>3 DEF UndoneTomb, AppliedTomb
<1>4. CASE op \in ReplaceOps(n) /\ op.kind = "ReplaceBytes"
  <2>1. op.before \in Partial(1..n, Byte) /\ op.after \in Partial(1..n, Byte)
    BY <1>4 DEF ReplaceOps
  <2>2. Without(d.repl, op.ids) \in Partial(1..n, Byte)
    BY <1>0, WithoutIs
  <2>3. /\ Over(Without(d.repl, op.ids), op.before) \in Partial(1..n, Byte)
        /\ Over(Without(d.repl, op.ids), op.after) \in Partial(1..n, Byte)
    BY <2>1, <2>2, OverIs
  <2> QED BY <1>3, <1>4, <2>3 DEF UndoneRepl, AppliedRepl
<1>5. CASE op \in BulkOps /\ op.kind = "BulkBytes"
  <2>1. op.off \in Nat /\ op.n \in Nat /\ op.bytes \in Seq(Byte)
    BY <1>5 DEF BulkOps
  <2>2. /\ Without(d.repl, IdsAt(d, op.off, op.n)) \in Partial(1..n, Byte)
        /\ Over(d.repl, LaidRun(d, op.off, op.bytes)) \in Partial(1..n, Byte)
    BY <1>0, <2>1, WithoutIs, LaidIs, OverIs
  <2> QED BY <1>3, <1>5, <2>2 DEF UndoneRepl, AppliedRepl
<1>6. CASE op \in XorOps /\ op.kind = "BulkXor"
  <2>1. op.off \in Nat /\ op.n \in Nat
    BY <1>6 DEF XorOps
  <2> DEFINE ids == IdsAt(d, op.off, op.n)
  <2>2. ids \in SUBSET (1..n)
    BY <2>1, IdsAtIs
  <2> HIDE DEF ids
  <2>3. Without(d.repl, ids) \in Partial(1..n, Byte)
    BY <1>0, WithoutIs
  <2>4. FlippedRun(d, ids) \in Partial(1..n, Byte)
    BY <2>2, FlippedRunIs
  <2>5. Over(d.repl, FlippedRun(d, ids)) \in Partial(1..n, Byte)
    BY <1>0, <2>4, OverIs
  <2> QED BY <1>3, <1>6, <2>3, <2>5 DEF UndoneRepl, AppliedRepl, ids
<1>7. CASE op \in PatchOps(n) /\ op.kind = "ReplacePatch"
  <2>1. op.before \in Partial(1..n, Byte) /\ op.after \in Partial(1..n, Byte)
    BY <1>7 DEF PatchOps
  <2>2. Without(d.repl, IdsAt(d, op.off, op.n)) \in Partial(1..n, Byte)
    BY <1>0, WithoutIs
  <2>3. /\ Over(Without(d.repl, IdsAt(d, op.off, op.n)), op.before) \in Partial(1..n, Byte)
        /\ Over(Without(d.repl, IdsAt(d, op.off, op.n)), op.after) \in Partial(1..n, Byte)
    BY <2>1, <2>2, OverIs
  <2> QED BY <1>3, <1>7, <2>3 DEF UndoneRepl, AppliedRepl
<1> QED BY <1>1, <1>2, <1>4, <1>5, <1>6, <1>7, OpIs, Zenon

\* What an operation on slots does to a document.
LEMMA SlotUndo ==
    ASSUME NEW n, NEW d \in Docs(n), NEW op \in SlotOps(n)
    PROVE  /\ UndoEditOp(d, op) \in Docs(n)
           /\ UndoEditOp(d, op) = [base |-> d.base, cells |-> d.cells,
                                   tomb |-> UndoneTomb(d, op), repl |-> UndoneRepl(d, op)]
<1> DEFINE e == [base |-> d.base, cells |-> d.cells,
                 tomb |-> UndoneTomb(d, op), repl |-> UndoneRepl(d, op)]
<1>0. /\ d = [base |-> d.base, cells |-> d.cells, tomb |-> d.tomb, repl |-> d.repl]
      /\ n \in Nat /\ n <= Len(d.base) /\ d.base \in Seq(Byte) /\ d.cells \in Seq(1..n)
  BY DocIs
<1>1. e \in Docs(n)
  BY <1>0, SlotRepl, IsDoc
<1>2. op \in Ops(n) /\ op.kind # "Insert" /\ op.kind # "RealDelete"
  BY SlotKind
<1>3. \/ op.kind = "Tombstone" \/ op.kind = "ReplaceBytes" \/ op.kind = "BulkBytes"
      \/ op.kind = "BulkXor" \/ op.kind = "ReplacePatch"
  BY <1>2, OpIs, Zenon
<1>4. ASSUME op.kind = "Tombstone" PROVE UndoEditOp(d, op) = e
  BY <1>0, <1>4 DEF UndoEditOp, UndoneTomb, UndoneRepl
<1>5. ASSUME op.kind = "ReplaceBytes" PROVE UndoEditOp(d, op) = e
  BY <1>0, <1>5 DEF UndoEditOp, UndoneTomb, UndoneRepl
<1>6. ASSUME op.kind = "BulkBytes" \/ op.kind = "BulkXor" PROVE UndoEditOp(d, op) = e
  BY <1>0, <1>6 DEF UndoEditOp, UndoneTomb, UndoneRepl, ClearRange
<1>7. ASSUME op.kind = "ReplacePatch" PROVE UndoEditOp(d, op) = e
  BY <1>0, <1>7 DEF UndoEditOp, UndoneTomb, UndoneRepl, ClearRange
<1> HIDE DEF e
<1>8. UndoEditOp(d, op) = e
  BY <1>3, <1>4, <1>5, <1>6, <1>7 DEF e
<1> QED BY <1>1, <1>8 DEF e

LEMMA SlotApply ==
    ASSUME NEW n, NEW d \in Docs(n), NEW op \in SlotOps(n)
    PROVE  /\ ApplyEditOp(d, op) \in Docs(n)
           /\ ApplyEditOp(d, op) = [base |-> d.base, cells |-> d.cells,
                                    tomb |-> AppliedTomb(d, op), repl |-> AppliedRepl(d, op)]
<1> DEFINE e == [base |-> d.base, cells |-> d.cells,
                 tomb |-> AppliedTomb(d, op), repl |-> AppliedRepl(d, op)]
<1>0. /\ d = [base |-> d.base, cells |-> d.cells, tomb |-> d.tomb, repl |-> d.repl]
      /\ n \in Nat /\ n <= Len(d.base) /\ d.base \in Seq(Byte) /\ d.cells \in Seq(1..n)
  BY DocIs
<1>1. e \in Docs(n)
  BY <1>0, SlotRepl, IsDoc
<1>2. op \in Ops(n) /\ op.kind # "Insert" /\ op.kind # "RealDelete"
  BY SlotKind
<1>3. \/ op.kind = "Tombstone" \/ op.kind = "ReplaceBytes" \/ op.kind = "BulkBytes"
      \/ op.kind = "BulkXor" \/ op.kind = "ReplacePatch"
  BY <1>2, OpIs, Zenon
<1>4. ASSUME op.kind = "Tombstone" PROVE ApplyEditOp(d, op) = e
  BY <1>0, <1>4 DEF ApplyEditOp, AppliedTomb, AppliedRepl
<1>5. ASSUME op.kind = "ReplaceBytes" PROVE ApplyEditOp(d, op) = e
  BY <1>0, <1>5 DEF ApplyEditOp, AppliedTomb, AppliedRepl
<1>6. ASSUME op.kind = "BulkBytes" PROVE ApplyEditOp(d, op) = e
  BY <1>0, <1>6 DEF ApplyEditOp, AppliedTomb, AppliedRepl, OverlayRun, LaidRun
<1>7. ASSUME op.kind = "BulkXor" PROVE ApplyEditOp(d, op) = e
  BY <1>0, <1>7 DEF ApplyEditOp, AppliedTomb, AppliedRepl, OverlayXor, FlippedRun
<1>8. ASSUME op.kind = "ReplacePatch" PROVE ApplyEditOp(d, op) = e
  BY <1>0, <1>8 DEF ApplyEditOp, AppliedTomb, AppliedRepl, ClearRange
<1> HIDE DEF e
<1>9. ApplyEditOp(d, op) = e
  BY <1>3, <1>4, <1>5, <1>6, <1>7, <1>8 DEF e
<1> QED BY <1>1, <1>9 DEF e

\* An operation on cells cuts or splices.
LEMMA CellUndo ==
    ASSUME NEW n, NEW d \in Docs(n), NEW op \in CellOps(n), UndoPossible(d, op)
    PROVE  /\ op.off \in Nat /\ op.off <= DocLen(d) /\ op.cells \in Seq(1..n)
           /\ Len(op.cells) \in Nat /\ UndoEditOp(d, op) \in Docs(n)
           /\ op.kind = "Insert" => UndoEditOp(d, op) = Cut(d, op.off, Len(op.cells))
           /\ op.kind = "RealDelete" => UndoEditOp(d, op) = Splice(d, op.off, op.cells)
<1>1. /\ op.off \in Nat /\ op.cells \in Seq(1..n) /\ Len(op.cells) \in Nat
      /\ (op.kind = "Insert" \/ op.kind = "RealDelete")
  BY DEF CellOps
<1>2. DocLen(d) \in Nat
  BY DocIs
<1>3. op.off <= DocLen(d)
  <2>1. CASE op.kind = "Insert"
    <3>1. op.off < DocLen(d)
      BY <2>1 DEF UndoPossible, RangeKinds, Removable
    <3> QED BY <1>1, <1>2, <3>1
  <2>2. CASE op.kind = "RealDelete"
    BY <2>2 DEF UndoPossible, RangeKinds, Insertable
  <2> QED BY <1>1, <2>1, <2>2
<1>4. /\ op.kind = "Insert" => UndoEditOp(d, op) = Cut(d, op.off, Len(op.cells))
      /\ op.kind = "RealDelete" => UndoEditOp(d, op) = Splice(d, op.off, op.cells)
  BY DEF UndoEditOp
<1>5. Cut(d, op.off, Len(op.cells)) \in Docs(n) /\ Splice(d, op.off, op.cells) \in Docs(n)
  BY <1>1, <1>3, CutIs, SpliceIs
<1> QED BY <1>1, <1>3, <1>4, <1>5

LEMMA CellApply ==
    ASSUME NEW n, NEW d \in Docs(n), NEW op \in CellOps(n), ApplyPossible(d, op)
    PROVE  /\ op.off \in Nat /\ op.off <= DocLen(d) /\ op.cells \in Seq(1..n)
           /\ Len(op.cells) \in Nat /\ ApplyEditOp(d, op) \in Docs(n)
           /\ op.kind = "Insert" => ApplyEditOp(d, op) = Splice(d, op.off, op.cells)
           /\ op.kind = "RealDelete" => ApplyEditOp(d, op) = Cut(d, op.off, Len(op.cells))
<1>1. /\ op.off \in Nat /\ op.cells \in Seq(1..n) /\ Len(op.cells) \in Nat
      /\ (op.kind = "Insert" \/ op.kind = "RealDelete")
  BY DEF CellOps
<1>2. DocLen(d) \in Nat
  BY DocIs
<1>3. op.off <= DocLen(d)
  <2>1. CASE op.kind = "Insert"
    BY <2>1 DEF ApplyPossible, RangeKinds, Insertable
  <2>2. CASE op.kind = "RealDelete"
    <3>1. op.off < DocLen(d)
      BY <2>2 DEF ApplyPossible, RangeKinds, Removable
    <3> QED BY <1>1, <1>2, <3>1
  <2> QED BY <1>1, <2>1, <2>2
<1>4. /\ op.kind = "Insert" => ApplyEditOp(d, op) = Splice(d, op.off, op.cells)
      /\ op.kind = "RealDelete" => ApplyEditOp(d, op) = Cut(d, op.off, Len(op.cells))
  BY DEF ApplyEditOp
<1>5. Cut(d, op.off, Len(op.cells)) \in Docs(n) /\ Splice(d, op.off, op.cells) \in Docs(n)
  BY <1>1, <1>3, CutIs, SpliceIs
<1> QED BY <1>1, <1>3, <1>4, <1>5

\* An operation that is possible leaves a document.
LEMMA UndoOne ==
    ASSUME NEW n, NEW d \in Docs(n), NEW op \in Ops(n), UndoPossible(d, op)
    PROVE  /\ UndoEditOp(d, op) \in Docs(n) /\ UndoEditOp(d, op).base = d.base
           /\ op \in SlotOps(n) => UndoEditOp(d, op).cells = d.cells
<1>1. CASE op \in SlotOps(n)
  BY <1>1, SlotUndo
<1>2. CASE op \in CellOps(n) /\ op \notin SlotOps(n)
  <2>1. /\ op.off \in Nat /\ op.off <= DocLen(d) /\ op.cells \in Seq(1..n)
        /\ Len(op.cells) \in Nat /\ UndoEditOp(d, op) \in Docs(n)
        /\ op.kind = "Insert" => UndoEditOp(d, op) = Cut(d, op.off, Len(op.cells))
        /\ op.kind = "RealDelete" => UndoEditOp(d, op) = Splice(d, op.off, op.cells)
    BY <1>2, CellUndo
  <2>2. Cut(d, op.off, Len(op.cells)).base = d.base /\ Splice(d, op.off, op.cells).base = d.base
    BY <2>1, CutIs, SpliceIs
  <2>3. op.kind = "Insert" \/ op.kind = "RealDelete"
    BY <1>2 DEF CellOps
  <2> QED BY <1>2, <2>1, <2>2, <2>3
<1> QED BY <1>1, <1>2 DEF Ops

LEMMA ApplyOne ==
    ASSUME NEW n, NEW d \in Docs(n), NEW op \in Ops(n), ApplyPossible(d, op)
    PROVE  /\ ApplyEditOp(d, op) \in Docs(n) /\ ApplyEditOp(d, op).base = d.base
           /\ op \in SlotOps(n) => ApplyEditOp(d, op).cells = d.cells
<1>1. CASE op \in SlotOps(n)
  BY <1>1, SlotApply
<1>2. CASE op \in CellOps(n) /\ op \notin SlotOps(n)
  <2>1. /\ op.off \in Nat /\ op.off <= DocLen(d) /\ op.cells \in Seq(1..n)
        /\ Len(op.cells) \in Nat /\ ApplyEditOp(d, op) \in Docs(n)
        /\ op.kind = "Insert" => ApplyEditOp(d, op) = Splice(d, op.off, op.cells)
        /\ op.kind = "RealDelete" => ApplyEditOp(d, op) = Cut(d, op.off, Len(op.cells))
    BY <1>2, CellApply
  <2>2. Cut(d, op.off, Len(op.cells)).base = d.base /\ Splice(d, op.off, op.cells).base = d.base
    BY <2>1, CutIs, SpliceIs
  <2>3. op.kind = "Insert" \/ op.kind = "RealDelete"
    BY <1>2 DEF CellOps
  <2> QED BY <1>2, <2>1, <2>2, <2>3
<1> QED BY <1>1, <1>2 DEF Ops

(***************************************************************************)
(* Lists of operations and of steps                                        *)
(***************************************************************************)

Replays(n) == [doc : Docs(n), ok : BOOLEAN]

Halted(d) == [doc |-> d, ok |-> FALSE]

LEMMA OutcomeIs ==
    ASSUME NEW n, NEW r \in Replays(n)
    PROVE  r.doc \in Docs(n) /\ ((r = Unfailed(r.doc) /\ r.ok) \/ (r = Halted(r.doc) /\ ~ r.ok))
BY DEF Replays, Unfailed, Halted

LEMMA IsOutcome ==
    ASSUME NEW n, NEW d \in Docs(n)
    PROVE  /\ Unfailed(d) \in Replays(n) /\ Unfailed(d).doc = d /\ Unfailed(d).ok
           /\ Halted(d) \in Replays(n) /\ Halted(d).doc = d /\ ~ Halted(d).ok
BY DEF Replays, Unfailed, Halted

LEMMA UndoIntoIs ==
    ASSUME NEW n, NEW r \in Replays(n), NEW op \in Ops(n)
    PROVE  /\ UndoInto(op, r) \in Replays(n) /\ UndoInto(op, r).doc.base = r.doc.base
           /\ r.ok /\ UndoPossible(r.doc, op) =>
                UndoInto(op, r) = Unfailed(UndoEditOp(r.doc, op))
           /\ ~ (r.ok /\ UndoPossible(r.doc, op)) => UndoInto(op, r) = Halted(r.doc)
           /\ op \in SlotOps(n) => UndoInto(op, r).doc.cells = r.doc.cells
<1> DEFINE d == r.doc
           e == UndoEditOp(d, op)
<1>1. d \in Docs(n) /\ r = [doc |-> d, ok |-> r.ok] /\ r.ok \in BOOLEAN
  BY DEF Replays
<1>2. CASE r.ok /\ UndoPossible(d, op)
  <2>1. UndoInto(op, r) = Unfailed(e)
    BY <1>1, <1>2 DEF UndoInto, Unfailed
  <2>2. e \in Docs(n) /\ e.base = d.base /\ (op \in SlotOps(n) => e.cells = d.cells)
    BY <1>1, <1>2, UndoOne
  <2> HIDE DEF e, d
  <2> QED BY <1>2, <2>1, <2>2, IsOutcome DEF e, d
<1>3. CASE ~ (r.ok /\ UndoPossible(d, op))
  <2>1. UndoInto(op, r) = Halted(d)
    BY <1>1, <1>3 DEF UndoInto, Halted
  <2> HIDE DEF d
  <2> QED BY <1>1, <1>3, <2>1, IsOutcome DEF d
<1> QED BY <1>2, <1>3

LEMMA ApplyIntoIs ==
    ASSUME NEW n, NEW r \in Replays(n), NEW op \in Ops(n)
    PROVE  /\ ApplyInto(r, op) \in Replays(n) /\ ApplyInto(r, op).doc.base = r.doc.base
           /\ r.ok /\ ApplyPossible(r.doc, op) =>
                ApplyInto(r, op) = Unfailed(ApplyEditOp(r.doc, op))
           /\ ~ (r.ok /\ ApplyPossible(r.doc, op)) => ApplyInto(r, op) = Halted(r.doc)
           /\ op \in SlotOps(n) => ApplyInto(r, op).doc.cells = r.doc.cells
<1> DEFINE d == r.doc
           e == ApplyEditOp(d, op)
<1>1. d \in Docs(n) /\ r = [doc |-> d, ok |-> r.ok] /\ r.ok \in BOOLEAN
  BY DEF Replays
<1>2. CASE r.ok /\ ApplyPossible(d, op)
  <2>1. ApplyInto(r, op) = Unfailed(e)
    BY <1>1, <1>2 DEF ApplyInto, Unfailed
  <2>2. e \in Docs(n) /\ e.base = d.base /\ (op \in SlotOps(n) => e.cells = d.cells)
    BY <1>1, <1>2, ApplyOne
  <2> HIDE DEF e, d
  <2> QED BY <1>2, <2>1, <2>2, IsOutcome DEF e, d
<1>3. CASE ~ (r.ok /\ ApplyPossible(d, op))
  <2>1. ApplyInto(r, op) = Halted(d)
    BY <1>1, <1>3 DEF ApplyInto, Halted
  <2> HIDE DEF d
  <2> QED BY <1>1, <1>3, <2>1, IsOutcome DEF d
<1> QED BY <1>2, <1>3

\* Two functions that go on alike are the same up to n.
GoOnAlike(n, f, g) ==
    /\ g = [i \in 0..n |-> g[i]] /\ f[0] = g[0]
    /\ \A i \in 1..n : f[i - 1] = g[i - 1] => f[i] = g[i]

LEMMA SameWalk ==
    ASSUME NEW n \in Nat, NEW X, NEW f \in [0..n -> X], NEW g, GoOnAlike(n, f, g)
    PROVE  g = f
<1> DEFINE T == {i \in 0..n : f[i] = g[i]}
<1>0. /\ g = [i \in 0..n |-> g[i]] /\ f[0] = g[0]
      /\ \A i \in 1..n : f[i - 1] = g[i - 1] => f[i] = g[i]
  BY DEF GoOnAlike
<1>1. 0 \in T
  BY <1>0
<1>2. ASSUME NEW i \in 1..n, i - 1 \in T PROVE i \in T
  <2>1. f[i - 1] = g[i - 1] /\ i \in 0..n
    BY <1>2
  <2> QED BY <1>0, <2>1
<1> HIDE DEF T
<1>3. \A i \in 0..n : i \in T
  BY <1>1, <1>2, UpTo
<1>4. \A i \in 0..n : f[i] = g[i]
  BY <1>3 DEF T
<1>5. f = [i \in 0..n |-> f[i]]
  OBVIOUS
<1> QED BY <1>0, <1>4, <1>5

LEMMA UndoWalk ==
    ASSUME NEW n, NEW d \in Docs(n), NEW ops \in Seq(Ops(n))
    PROVE  /\ UndoOpsUpTo(d, ops) \in [0..Len(ops) -> Replays(n)]
           /\ UndoOpsUpTo(d, ops)[0] = Unfailed(d)
           /\ \A i \in 1..Len(ops) :
                UndoOpsUpTo(d, ops)[i] =
                    UndoInto(ops[Len(ops) - i + 1], UndoOpsUpTo(d, ops)[i - 1])
<1> DEFINE m == Len(ops)
           Op(i) == ops[m - i + 1]
           X == Replays(n)
           step == [i \in 1..m |-> [x \in X |-> UndoInto(Op(i), x)]]
           Is(f) == f = [i \in 0..m |->
                            IF i = 0 THEN Unfailed(d) ELSE UndoInto(Op(i), f[i - 1])]
           w == UndoOpsUpTo(d, ops)
<1>0. m \in Nat /\ Unfailed(d) \in X
  BY IsOutcome
<1>1. ASSUME NEW i \in 1..m PROVE Op(i) \in Ops(n)
  <2>1. m - i + 1 \in 1..m
    BY <1>0
  <2> QED BY <2>1
<1>2. w = CHOOSE g : Is(g)
  BY Zenon DEF UndoOpsUpTo
<1> HIDE DEF m, Op, X, w
<1>3. ASSUME NEW i \in 1..m, NEW x \in X PROVE UndoInto(Op(i), x) \in X
  BY <1>1, UndoIntoIs DEF X
<1>4. step \in [1..m -> [X -> X]]
  BY <1>3
<1>5. ASSUME NEW i \in 1..m, NEW x \in X PROVE step[i][x] = UndoInto(Op(i), x)
  OBVIOUS
<1> HIDE DEF step
<1>6. PICK f \in [0..m -> X] : Repeats(f, m, Unfailed(d), step)
  BY <1>0, <1>4, Recursion
<1>7. /\ f[0] = Unfailed(d)
      /\ \A i \in 1..m : f[i] = UndoInto(Op(i), f[i - 1])
  <2>1. ASSUME NEW i \in 1..m PROVE f[i] = UndoInto(Op(i), f[i - 1])
    <3>1. f[i - 1] \in X
      BY <1>0
    <3> QED BY <1>5, <1>6, <3>1 DEF Repeats
  <2> QED BY <1>6, <2>1 DEF Repeats
<1>8. Is(f)
  <2>1. \A i \in 0..m : i # 0 => i \in 1..m
    BY <1>0
  <2> QED BY <1>7, <2>1
<1>9. Is(w)
  <2> HIDE DEF Is
  <2> QED BY <1>2, <1>8, Zenon
<1>10. /\ w = [i \in 0..m |-> w[i]] /\ w[0] = Unfailed(d)
       /\ \A i \in 1..m : w[i] = UndoInto(Op(i), w[i - 1])
  <2>1. 0 \in 0..m /\ \A i \in 1..m : i \in 0..m /\ i # 0
    BY <1>0
  <2> QED BY <1>9, <2>1
<1> HIDE DEF Is
<1>11. w = f
  <2>1. \A i \in 1..m : f[i - 1] = w[i - 1] => f[i] = w[i]
    BY <1>7, <1>10
  <2>2. GoOnAlike(m, f, w)
    BY <1>7, <1>10, <2>1 DEF GoOnAlike
  <2> QED BY <1>0, <2>2, SameWalk
<1> QED BY <1>10, <1>11 DEF m, Op, X, w

LEMMA ApplyWalk ==
    ASSUME NEW n, NEW d \in Docs(n), NEW ops \in Seq(Ops(n))
    PROVE  /\ ApplyOpsUpTo(d, ops) \in [0..Len(ops) -> Replays(n)]
           /\ ApplyOpsUpTo(d, ops)[0] = Unfailed(d)
           /\ \A i \in 1..Len(ops) : ApplyOpsUpTo(d, ops)[i] = ApplyInto(ApplyOpsUpTo(d, ops)[i - 1], ops[i])
<1> DEFINE m == Len(ops)
           Op(i) == ops[i]
           X == Replays(n)
           step == [i \in 1..m |-> [x \in X |-> ApplyInto(x, Op(i))]]
           Is(f) == f = [i \in 0..m |->
                            IF i = 0 THEN Unfailed(d) ELSE ApplyInto(f[i - 1], Op(i))]
           w == ApplyOpsUpTo(d, ops)
<1>0. m \in Nat /\ Unfailed(d) \in X
  BY IsOutcome
<1>1. \A i \in 1..m : Op(i) \in Ops(n)
  BY <1>0
<1>2. w = CHOOSE g : Is(g)
  BY Zenon DEF ApplyOpsUpTo
<1> HIDE DEF m, Op, X, w
<1>3. ASSUME NEW i \in 1..m, NEW x \in X PROVE ApplyInto(x, Op(i)) \in X
  BY <1>1, ApplyIntoIs DEF X
<1>4. step \in [1..m -> [X -> X]]
  BY <1>3
<1>5. ASSUME NEW i \in 1..m, NEW x \in X PROVE step[i][x] = ApplyInto(x, Op(i))
  OBVIOUS
<1> HIDE DEF step
<1>6. PICK f \in [0..m -> X] : Repeats(f, m, Unfailed(d), step)
  BY <1>0, <1>4, Recursion
<1>7. f[0] = Unfailed(d) /\ \A i \in 1..m : f[i] = ApplyInto(f[i - 1], Op(i))
  <2>1. ASSUME NEW i \in 1..m PROVE f[i] = ApplyInto(f[i - 1], Op(i))
    <3>1. f[i - 1] \in X
      BY <1>0
    <3> QED BY <1>5, <1>6, <3>1 DEF Repeats
  <2> QED BY <1>6, <2>1 DEF Repeats
<1>8. Is(f)
  <2>1. \A i \in 0..m : i # 0 => i \in 1..m
    BY <1>0
  <2> QED BY <1>7, <2>1
<1>9. Is(w)
  <2> HIDE DEF Is
  <2> QED BY <1>2, <1>8, Zenon
<1>10. /\ w = [i \in 0..m |-> w[i]] /\ w[0] = Unfailed(d)
       /\ \A i \in 1..m : w[i] = ApplyInto(w[i - 1], Op(i))
  <2>1. 0 \in 0..m /\ \A i \in 1..m : i \in 0..m /\ i # 0
    BY <1>0
  <2> QED BY <1>9, <2>1
<1> HIDE DEF Is
<1>11. w = f
  <2>1. \A i \in 1..m : f[i - 1] = w[i - 1] => f[i] = w[i]
    BY <1>7, <1>10
  <2>2. GoOnAlike(m, f, w)
    BY <1>7, <1>10, <2>1 DEF GoOnAlike
  <2> QED BY <1>0, <2>2, SameWalk
<1> QED BY <1>10, <1>11 DEF m, Op, X, w

LEMMA UndoOpsIs ==
    ASSUME NEW n, NEW d \in Docs(n), NEW ops \in Seq(Ops(n))
    PROVE  /\ UndoOps(d, ops) \in Replays(n) /\ UndoOps(d, ops).doc.base = d.base
           /\ Len(ops) = 0 => UndoOps(d, ops) = Unfailed(d)
           /\ Len(ops) = 1 => UndoOps(d, ops) = UndoInto(ops[1], Unfailed(d))
           /\ ops \in Seq(SlotOps(n)) => UndoOps(d, ops).doc.cells = d.cells
<1> DEFINE w == UndoOpsUpTo(d, ops)
           m == Len(ops)
           Same == {i \in 0..m : w[i].doc.base = d.base}
           Kept == {i \in 0..m : w[i].doc.cells = d.cells}
<1>0. m \in Nat /\ Unfailed(d).doc = d
  BY IsOutcome
<1>1. /\ w \in [0..m -> Replays(n)] /\ w[0] = Unfailed(d)
      /\ \A i \in 1..m : w[i] = UndoInto(ops[m - i + 1], w[i - 1])
  BY UndoWalk
<1>2. UndoOps(d, ops) = w[m]
  BY DEF UndoOps
<1> HIDE DEF w
<1>3. ASSUME NEW i \in 1..m
      PROVE  /\ m - i + 1 \in 1..m /\ ops[m - i + 1] \in Ops(n) /\ i \in 0..m
             /\ w[i - 1] \in Replays(n)
  <2>1. m - i + 1 \in 1..m /\ i - 1 \in 0..m /\ i \in 0..m
    BY <1>0
  <2> QED BY <1>1, <2>1
<1>4. \A i \in 0..m : i \in Same
  <2>1. 0 \in Same
    BY <1>0, <1>1
  <2>2. ASSUME NEW i \in 1..m, i - 1 \in Same PROVE i \in Same
    <3>1. UndoInto(ops[m - i + 1], w[i - 1]).doc.base = w[i - 1].doc.base
      BY <1>3, UndoIntoIs
    <3> QED BY <1>1, <1>3, <2>2, <3>1
  <2> HIDE DEF Same, m
  <2> QED BY <1>0, <2>1, <2>2, UpTo
<1>5. ASSUME ops \in Seq(SlotOps(n)) PROVE \A i \in 0..m : i \in Kept
  <2>1. 0 \in Kept
    BY <1>0, <1>1
  <2>2. ASSUME NEW i \in 1..m, i - 1 \in Kept PROVE i \in Kept
    <3>0. ops[m - i + 1] \in SlotOps(n)
      BY <1>3, <1>5
    <3>1. UndoInto(ops[m - i + 1], w[i - 1]).doc.cells = w[i - 1].doc.cells
      BY <1>3, <3>0, UndoIntoIs
    <3> QED BY <1>1, <1>3, <2>2, <3>1
  <2> HIDE DEF Kept, m
  <2> QED BY <1>0, <2>1, <2>2, UpTo
<1>6. m = 1 => w[1] = UndoInto(ops[1], Unfailed(d))
  <2> SUFFICES ASSUME m = 1 PROVE w[1] = UndoInto(ops[1], Unfailed(d))
    OBVIOUS
  <2>1. 1 \in 1..m /\ m - 1 + 1 = 1 /\ 1 - 1 = 0
    OBVIOUS
  <2> QED BY <1>1, <2>1
<1>7. m \in 0..m
  BY <1>0
<1> HIDE DEF Same, Kept, m
<1>8. w[m].doc.base = d.base /\ (ops \in Seq(SlotOps(n)) => w[m].doc.cells = d.cells)
  BY <1>4, <1>5, <1>7 DEF Same, Kept
<1> QED BY <1>1, <1>2, <1>6, <1>7, <1>8 DEF m

LEMMA ApplyOpsIs ==
    ASSUME NEW n, NEW d \in Docs(n), NEW ops \in Seq(Ops(n))
    PROVE  /\ ApplyOps(d, ops) \in Replays(n) /\ ApplyOps(d, ops).doc.base = d.base
           /\ Len(ops) = 0 => ApplyOps(d, ops) = Unfailed(d)
           /\ Len(ops) = 1 => ApplyOps(d, ops) = ApplyInto(Unfailed(d), ops[1])
           /\ ops \in Seq(SlotOps(n)) => ApplyOps(d, ops).doc.cells = d.cells
<1> DEFINE w == ApplyOpsUpTo(d, ops)
           m == Len(ops)
           Same == {i \in 0..m : w[i].doc.base = d.base}
           Kept == {i \in 0..m : w[i].doc.cells = d.cells}
<1>0. m \in Nat /\ Unfailed(d).doc = d
  BY IsOutcome
<1>1. /\ w \in [0..m -> Replays(n)] /\ w[0] = Unfailed(d)
      /\ \A i \in 1..m : w[i] = ApplyInto(w[i - 1], ops[i])
  BY ApplyWalk
<1>2. ApplyOps(d, ops) = w[m]
  BY DEF ApplyOps
<1> HIDE DEF w
<1>3. ASSUME NEW i \in 1..m
      PROVE  ops[i] \in Ops(n) /\ i \in 0..m /\ w[i - 1] \in Replays(n)
  <2>1. i - 1 \in 0..m /\ i \in 0..m
    BY <1>0
  <2> QED BY <1>1, <2>1
<1>4. \A i \in 0..m : i \in Same
  <2>1. 0 \in Same
    BY <1>0, <1>1
  <2>2. ASSUME NEW i \in 1..m, i - 1 \in Same PROVE i \in Same
    <3>1. ApplyInto(w[i - 1], ops[i]).doc.base = w[i - 1].doc.base
      BY <1>3, ApplyIntoIs
    <3> QED BY <1>1, <1>3, <2>2, <3>1
  <2> HIDE DEF Same, m
  <2> QED BY <1>0, <2>1, <2>2, UpTo
<1>5. ASSUME ops \in Seq(SlotOps(n)) PROVE \A i \in 0..m : i \in Kept
  <2>1. 0 \in Kept
    BY <1>0, <1>1
  <2>2. ASSUME NEW i \in 1..m, i - 1 \in Kept PROVE i \in Kept
    <3>0. ops[i] \in SlotOps(n)
      BY <1>3, <1>5
    <3>1. ApplyInto(w[i - 1], ops[i]).doc.cells = w[i - 1].doc.cells
      BY <1>3, <3>0, ApplyIntoIs
    <3> QED BY <1>1, <1>3, <2>2, <3>1
  <2> HIDE DEF Kept, m
  <2> QED BY <1>0, <2>1, <2>2, UpTo
<1>6. m = 1 => w[1] = ApplyInto(Unfailed(d), ops[1])
  <2> SUFFICES ASSUME m = 1 PROVE w[1] = ApplyInto(Unfailed(d), ops[1])
    OBVIOUS
  <2>1. 1 \in 1..m /\ 1 - 1 = 0
    OBVIOUS
  <2> QED BY <1>1, <2>1
<1>7. m \in 0..m
  BY <1>0
<1> HIDE DEF Same, Kept, m
<1>8. w[m].doc.base = d.base /\ (ops \in Seq(SlotOps(n)) => w[m].doc.cells = d.cells)
  BY <1>4, <1>5, <1>7 DEF Same, Kept
<1> QED BY <1>1, <1>2, <1>6, <1>7, <1>8 DEF m

\* Undo records of whatever else is in S, with operations on the cells 1..n.
Records(S, n) == \A step \in S : step.ops \in Seq(Ops(n))

LEMMA RewoundWalk ==
    ASSUME NEW n, NEW S, Records(S, n), NEW d \in Docs(n), NEW steps \in Seq(S)
    PROVE  /\ RewoundUpTo(d, steps) \in [0..Len(steps) -> Replays(n)]
           /\ RewoundUpTo(d, steps)[0] = Unfailed(d)
           /\ \A i \in 1..Len(steps) : RewoundUpTo(d, steps)[i] = IF RewoundUpTo(d, steps)[i - 1].ok
                THEN UndoOps(RewoundUpTo(d, steps)[i - 1].doc,
                             steps[Len(steps) - i + 1].ops)
                ELSE RewoundUpTo(d, steps)[i - 1]
<1> DEFINE m == Len(steps)
           Op(i) == steps[m - i + 1].ops
           X == Replays(n)
           step == [i \in 1..m |-> [x \in X |-> IF x.ok THEN UndoOps(x.doc, Op(i)) ELSE x]]
           Is(f) == f = [i \in 0..m |->
                            IF i = 0 THEN Unfailed(d) ELSE IF f[i - 1].ok THEN UndoOps(f[i - 1].doc, Op(i)) ELSE f[i - 1]]
           w == RewoundUpTo(d, steps)
<1>0. m \in Nat /\ Unfailed(d) \in X
  BY IsOutcome
<1>1. ASSUME NEW i \in 1..m PROVE Op(i) \in Seq(Ops(n))
  <2>1. m - i + 1 \in 1..m
    BY <1>0
  <2>2. steps[m - i + 1] \in S
    BY <2>1
  <2> QED BY <2>2 DEF Records
<1>2. w = CHOOSE g : Is(g)
  BY Zenon DEF RewoundUpTo
<1> HIDE DEF m, Op, X, w
<1>3. ASSUME NEW i \in 1..m, NEW x \in X PROVE (IF x.ok THEN UndoOps(x.doc, Op(i)) ELSE x) \in X
  <2>1. x.doc \in Docs(n) /\ Op(i) \in Seq(Ops(n))
    BY <1>1, OutcomeIs DEF X
  <2>2. UndoOps(x.doc, Op(i)) \in X
    BY <2>1, UndoOpsIs DEF X
  <2> QED BY <2>2
<1>4. step \in [1..m -> [X -> X]]
  BY <1>3
<1>5. ASSUME NEW i \in 1..m, NEW x \in X PROVE step[i][x] = IF x.ok THEN UndoOps(x.doc, Op(i)) ELSE x
  OBVIOUS
<1> HIDE DEF step
<1>6. PICK f \in [0..m -> X] : Repeats(f, m, Unfailed(d), step)
  BY <1>0, <1>4, Recursion
<1>7. f[0] = Unfailed(d) /\ \A i \in 1..m : f[i] = IF f[i - 1].ok THEN UndoOps(f[i - 1].doc, Op(i)) ELSE f[i - 1]
  <2>1. ASSUME NEW i \in 1..m PROVE f[i] = IF f[i - 1].ok THEN UndoOps(f[i - 1].doc, Op(i)) ELSE f[i - 1]
    <3>1. f[i - 1] \in X
      BY <1>0
    <3> QED BY <1>5, <1>6, <3>1 DEF Repeats
  <2> QED BY <1>6, <2>1 DEF Repeats
<1>8. Is(f)
  <2>1. \A i \in 0..m : i # 0 => i \in 1..m
    BY <1>0
  <2> QED BY <1>7, <2>1
<1>9. Is(w)
  <2> HIDE DEF Is
  <2> QED BY <1>2, <1>8, Zenon
<1>10. /\ w = [i \in 0..m |-> w[i]] /\ w[0] = Unfailed(d)
       /\ \A i \in 1..m : w[i] = IF w[i - 1].ok THEN UndoOps(w[i - 1].doc, Op(i)) ELSE w[i - 1]
  <2>1. 0 \in 0..m /\ \A i \in 1..m : i \in 0..m /\ i # 0
    BY <1>0
  <2> QED BY <1>9, <2>1
<1> HIDE DEF Is
<1>11. w = f
  <2>1. \A i \in 1..m : f[i - 1] = w[i - 1] => f[i] = w[i]
    BY <1>7, <1>10
  <2>2. GoOnAlike(m, f, w)
    BY <1>7, <1>10, <2>1 DEF GoOnAlike
  <2> QED BY <1>0, <2>2, SameWalk
<1> QED BY <1>10, <1>11 DEF m, Op, X, w

LEMMA RedoneWalk ==
    ASSUME NEW n, NEW S, Records(S, n), NEW d \in Docs(n), NEW steps \in Seq(S)
    PROVE  /\ RedoneUpTo(d, steps) \in [0..Len(steps) -> Replays(n)]
           /\ RedoneUpTo(d, steps)[0] = Unfailed(d)
           /\ \A i \in 1..Len(steps) : RedoneUpTo(d, steps)[i] = IF RedoneUpTo(d, steps)[i - 1].ok
                THEN ApplyOps(RedoneUpTo(d, steps)[i - 1].doc,
                             steps[Len(steps) - i + 1].ops)
                ELSE RedoneUpTo(d, steps)[i - 1]
<1> DEFINE m == Len(steps)
           Op(i) == steps[m - i + 1].ops
           X == Replays(n)
           step == [i \in 1..m |-> [x \in X |-> IF x.ok THEN ApplyOps(x.doc, Op(i)) ELSE x]]
           Is(f) == f = [i \in 0..m |->
                            IF i = 0 THEN Unfailed(d) ELSE IF f[i - 1].ok THEN ApplyOps(f[i - 1].doc, Op(i)) ELSE f[i - 1]]
           w == RedoneUpTo(d, steps)
<1>0. m \in Nat /\ Unfailed(d) \in X
  BY IsOutcome
<1>1. ASSUME NEW i \in 1..m PROVE Op(i) \in Seq(Ops(n))
  <2>1. m - i + 1 \in 1..m
    BY <1>0
  <2>2. steps[m - i + 1] \in S
    BY <2>1
  <2> QED BY <2>2 DEF Records
<1>2. w = CHOOSE g : Is(g)
  BY Zenon DEF RedoneUpTo
<1> HIDE DEF m, Op, X, w
<1>3. ASSUME NEW i \in 1..m, NEW x \in X PROVE (IF x.ok THEN ApplyOps(x.doc, Op(i)) ELSE x) \in X
  <2>1. x.doc \in Docs(n) /\ Op(i) \in Seq(Ops(n))
    BY <1>1, OutcomeIs DEF X
  <2>2. ApplyOps(x.doc, Op(i)) \in X
    BY <2>1, ApplyOpsIs DEF X
  <2> QED BY <2>2
<1>4. step \in [1..m -> [X -> X]]
  BY <1>3
<1>5. ASSUME NEW i \in 1..m, NEW x \in X PROVE step[i][x] = IF x.ok THEN ApplyOps(x.doc, Op(i)) ELSE x
  OBVIOUS
<1> HIDE DEF step
<1>6. PICK f \in [0..m -> X] : Repeats(f, m, Unfailed(d), step)
  BY <1>0, <1>4, Recursion
<1>7. f[0] = Unfailed(d) /\ \A i \in 1..m : f[i] = IF f[i - 1].ok THEN ApplyOps(f[i - 1].doc, Op(i)) ELSE f[i - 1]
  <2>1. ASSUME NEW i \in 1..m PROVE f[i] = IF f[i - 1].ok THEN ApplyOps(f[i - 1].doc, Op(i)) ELSE f[i - 1]
    <3>1. f[i - 1] \in X
      BY <1>0
    <3> QED BY <1>5, <1>6, <3>1 DEF Repeats
  <2> QED BY <1>6, <2>1 DEF Repeats
<1>8. Is(f)
  <2>1. \A i \in 0..m : i # 0 => i \in 1..m
    BY <1>0
  <2> QED BY <1>7, <2>1
<1>9. Is(w)
  <2> HIDE DEF Is
  <2> QED BY <1>2, <1>8, Zenon
<1>10. /\ w = [i \in 0..m |-> w[i]] /\ w[0] = Unfailed(d)
       /\ \A i \in 1..m : w[i] = IF w[i - 1].ok THEN ApplyOps(w[i - 1].doc, Op(i)) ELSE w[i - 1]
  <2>1. 0 \in 0..m /\ \A i \in 1..m : i \in 0..m /\ i # 0
    BY <1>0
  <2> QED BY <1>9, <2>1
<1> HIDE DEF Is
<1>11. w = f
  <2>1. \A i \in 1..m : f[i - 1] = w[i - 1] => f[i] = w[i]
    BY <1>7, <1>10
  <2>2. GoOnAlike(m, f, w)
    BY <1>7, <1>10, <2>1 DEF GoOnAlike
  <2> QED BY <1>0, <2>2, SameWalk
<1> QED BY <1>10, <1>11 DEF m, Op, X, w

(***************************************************************************)
(* Edits that can be undone exactly                                        *)
(***************************************************************************)

\* The operations lead from document d to e and back, and share no cell out twice.
Reaches(n, d, ops, e) ==
    /\ d \in Docs(n) /\ e \in Docs(n) /\ e.base = d.base /\ ops \in Seq(Ops(n))
    /\ Leads(d, ops, e)
    /\ Injective(d.cells) => Injective(e.cells)

\* An edit of d that leaves e, as one undo record of the session describes it.
Edits(n, d, ops, e) ==
    /\ d \in Docs(n) /\ e \in Docs(n) /\ e.base = d.base /\ ops \in OpLists(n)
    /\ Leads(d, ops, e)
    /\ e = d \/ \E i \in DOMAIN ops : HasEffect(ops[i])
    /\ Injective(d.cells) => Injective(e.cells)

LEMMA EditReaches ==
    ASSUME NEW n, NEW d, NEW ops, NEW e, Edits(n, d, ops, e)
    PROVE  Reaches(n, d, ops, e)
BY DEF Edits, Reaches, OpLists

LEMMA OneOp ==
    ASSUME NEW n, NEW d \in Docs(n), NEW e \in Docs(n), NEW op \in Ops(n),
           ApplyPossible(d, op), ApplyEditOp(d, op) = e,
           UndoPossible(e, op), UndoEditOp(e, op) = d
    PROVE  <<op>> \in OpLists(n) /\ Leads(d, <<op>>, e) /\ e.base = d.base
<1> DEFINE ops == <<op>>
<1>1. ops \in Seq(Ops(n)) /\ Len(ops) = 1 /\ ops[1] = op
  OBVIOUS
<1>2. ops \in OpLists(n)
  BY <1>1 DEF OpLists
<1> HIDE DEF ops
<1>3. UndoOps(e, ops) = UndoInto(op, Unfailed(e)) /\ ApplyOps(d, ops) = ApplyInto(Unfailed(d), op)
  BY <1>1, UndoOpsIs, ApplyOpsIs
<1>4. UndoInto(op, Unfailed(e)) = Unfailed(d)
  BY IsOutcome, UndoIntoIs
<1>5. ApplyInto(Unfailed(d), op) = Unfailed(e)
  BY IsOutcome, ApplyIntoIs
<1>6. e.base = d.base
  BY ApplyOne
<1> QED BY <1>2, <1>3, <1>4, <1>5, <1>6 DEF Leads, ops

LEMMA OneEdit ==
    ASSUME NEW n, NEW d \in Docs(n), NEW e \in Docs(n), NEW op \in Ops(n),
           ApplyPossible(d, op), ApplyEditOp(d, op) = e,
           UndoPossible(e, op), UndoEditOp(e, op) = d,
           e = d \/ HasEffect(op), Injective(d.cells) => Injective(e.cells)
    PROVE  Edits(n, d, <<op>>, e)
<1>1. <<op>> \in OpLists(n) /\ Leads(d, <<op>>, e) /\ e.base = d.base
  BY OneOp
<1>2. 1 \in DOMAIN <<op>> /\ <<op>>[1] = op
  OBVIOUS
<1>3. e = d \/ \E i \in DOMAIN <<op>> : HasEffect(<<op>>[i])
  BY <1>2
<1> QED BY <1>1, <1>3, Zenon DEF Edits

\* Two functions that are the same outside ids.
AgreeOff(f, g, ids) ==
    DOMAIN f \ ids = DOMAIN g \ ids /\ \A x \in DOMAIN f \ ids : f[x] = g[x]

LEMMA Patched ==
    ASSUME NEW S, NEW V, NEW f \in Partial(S, V), NEW g \in Partial(S, V), NEW ids,
           AgreeOff(f, g, ids)
    PROVE  Over(Without(f, ids), Only(g, ids)) = g
<1> DEFINE w == Without(f, ids)
           o == Only(g, ids)
           h == Over(w, o)
<1>1. w \in Partial(S, V) /\ SameOn(w, f, DOMAIN f \ ids)
  BY WithoutIs
<1>2. o \in Partial(S, V) /\ SameOn(o, g, DOMAIN g \cap ids)
  BY OnlyIs
<1> HIDE DEF w, o
<1>3. h \in Partial(S, V) /\ Overlaid(h, w, o)
  BY <1>1, <1>2, OverIs
<1> HIDE DEF h
<1>4. DOMAIN h = DOMAIN g /\ \A x \in DOMAIN h : h[x] = g[x]
  BY <1>1, <1>2, <1>3 DEF AgreeOff, SameOn, Overlaid
<1> QED BY <1>3, <1>4, SamePartial DEF h, w, o

\* Cells spliced in, where none of them was.
LEMMA SpliceInjective ==
    ASSUME NEW S, NEW s \in Seq(S), NEW off \in Nat, off <= Len(s), NEW t \in Seq(S),
           Injective(s), Injective(t), \A i \in 1..Len(s), j \in 1..Len(t) : s[i] # t[j]
    PROVE  Injective(SpliceSeq(s, off, t))
<1> DEFINE u == SpliceSeq(s, off, t)
<1>0. u \in Seq(S) /\ SplicedAs(u, s, off, t) /\ Len(s) \in Nat /\ Len(t) \in Nat
  BY SpliceSeqIs
<1>1. /\ u \in Seq(S) /\ Len(u) = Len(s) + Len(t) /\ Len(s) \in Nat /\ Len(t) \in Nat
      /\ \A i \in 1..(Len(s) + Len(t)) :
            u[i] = IF i <= off THEN s[i]
                   ELSE IF i <= off + Len(t) THEN t[i - off] ELSE s[i - Len(t)]
  <2> HIDE DEF u
  <2> QED BY <1>0 DEF SplicedAs
<1> HIDE DEF u
<1> DEFINE Mine(i) == i > off /\ i <= off + Len(t)
           Place(i) == IF i <= off THEN i ELSE i - Len(t)
<1>2. ASSUME NEW i \in 1..Len(u)
      PROVE  /\ Mine(i) => i - off \in 1..Len(t) /\ u[i] = t[i - off]
             /\ ~ Mine(i) => Place(i) \in 1..Len(s) /\ u[i] = s[Place(i)]
  BY <1>1
<1>3. DOMAIN u = 1..Len(u) /\ DOMAIN s = 1..Len(s) /\ DOMAIN t = 1..Len(t)
  BY <1>1
<1>4. ASSUME NEW i \in 1..Len(u), NEW j \in 1..Len(u), u[i] = u[j] PROVE i = j
  <2>1. CASE Mine(i) /\ Mine(j)
    <3> DEFINE a == i - off
               b == j - off
    <3>1. a \in 1..Len(t) /\ b \in 1..Len(t) /\ t[a] = t[b]
      <4> HIDE DEF Mine
      <4> QED BY <1>2, <1>4, <2>1
    <3>2. a = b
      <4> HIDE DEF a, b
      <4> QED BY <1>3, <3>1 DEF Injective
    <3> QED BY <3>2
  <2>2. CASE ~ Mine(i) /\ ~ Mine(j)
    <3>1. Place(i) = Place(j)
      <4> HIDE DEF Mine, Place
      <4> QED BY <1>2, <1>3, <1>4, <2>2 DEF Injective
    <3> QED BY <1>1, <2>2, <3>1
  <2>3. ~ (Mine(i) /\ ~ Mine(j)) /\ ~ (Mine(j) /\ ~ Mine(i))
    <3> HIDE DEF Mine, Place
    <3>1. ASSUME NEW x \in 1..Len(u), NEW y \in 1..Len(u), Mine(x), ~ Mine(y)
          PROVE  u[x] # u[y]
      BY <1>2, <3>1
    <3> QED BY <1>4, <3>1
  <2> HIDE DEF Mine, Place
  <2> QED BY <2>1, <2>2, <2>3
<1> QED BY <1>3, <1>4 DEF Injective, u

LEMMA CutInjective ==
    ASSUME NEW S, NEW s \in Seq(S), NEW off \in Nat, off <= Len(s), NEW m \in Nat,
           Injective(s)
    PROVE  Injective(CutSeq(s, off, m))
<1> DEFINE u == CutSeq(s, off, m)
           Place(i) == IF i <= off THEN i ELSE i + m
<1>1. /\ u \in Seq(S) /\ Len(u) = (IF off + m <= Len(s) THEN Len(s) - m ELSE off)
      /\ \A i \in 1..Len(u) : u[i] = IF i <= off THEN s[i] ELSE s[i + m]
  BY CutSeqIs DEF CutAs
<1> HIDE DEF u
<1>2. ASSUME NEW i \in 1..Len(u) PROVE Place(i) \in 1..Len(s) /\ u[i] = s[Place(i)]
  BY <1>1
<1>3. DOMAIN u = 1..Len(u) /\ DOMAIN s = 1..Len(s)
  BY <1>1
<1>4. ASSUME NEW i \in 1..Len(u), NEW j \in 1..Len(u), u[i] = u[j] PROVE i = j
  <2>1. Place(i) = Place(j)
    <3> HIDE DEF Place
    <3> QED BY <1>2, <1>3, <1>4 DEF Injective
  <2> QED BY <2>1
<1> QED BY <1>3, <1>4 DEF Injective, u

\* Inserting cells that are new, and deleting some.
LEMMA InsertEdits ==
    ASSUME NEW n, NEW d \in Docs(n), NEW off \in Nat, off <= DocLen(d),
           NEW t \in Seq(1..n), t # <<>>, Injective(t),
           \A i \in 1..Len(d.cells), j \in 1..Len(t) : d.cells[i] # t[j]
    PROVE  Edits(n, d, <<InsertOp(off, t)>>, Splice(d, off, t))
<1> DEFINE op == InsertOp(off, t)
           e == Splice(d, off, t)
<1>0. DocLen(d) = Len(d.cells) /\ d.cells \in Seq(1..n) /\ Len(t) \in Nat \ {0}
  BY DocIs
<1>1. /\ e \in Docs(n) /\ e = [base |-> d.base, cells |-> SpliceSeq(d.cells, off, t),
                               tomb |-> d.tomb, repl |-> d.repl]
  BY SpliceIs
<1>2. DocLen(e) = DocLen(d) + Len(t)
  <2>1. Len(SpliceSeq(d.cells, off, t)) = Len(d.cells) + Len(t)
    <3>1. SplicedAs(SpliceSeq(d.cells, off, t), d.cells, off, t)
      BY <1>0, SpliceSeqIs
    <3> QED BY <3>1 DEF SplicedAs
  <2> QED BY <1>0, <1>1, <2>1 DEF DocLen
<1>3. op.kind = "Insert" /\ op.off = off /\ op.cells = t /\ op \in Ops(n)
  BY DEF InsertOp, Ops, CellOps
<1> HIDE DEF e
<1>4. ApplyPossible(d, op) /\ ApplyEditOp(d, op) = e
  BY <1>3 DEF ApplyPossible, RangeKinds, Insertable, ApplyEditOp, e
<1>5. off <= DocLen(e) /\ off < DocLen(e) /\ DocLen(d) \in Nat
  BY <1>0, <1>2
<1>6. UndoPossible(e, op)
  BY <1>3, <1>5 DEF UndoPossible, RangeKinds, Removable
<1>7. UndoEditOp(e, op) = d
  <2>1. UndoEditOp(e, op) = Cut(e, off, Len(t))
    BY <1>3 DEF UndoEditOp
  <2>2. Cut(e, off, Len(t)) = [base |-> e.base, cells |-> CutSeq(e.cells, off, Len(t)),
                               tomb |-> e.tomb, repl |-> e.repl]
    BY <1>0, <1>1, <1>5, CutIs
  <2>3. CutSeq(e.cells, off, Len(t)) = d.cells
    BY <1>0, <1>1, CutSpliced
  <2>4. d = [base |-> d.base, cells |-> d.cells, tomb |-> d.tomb, repl |-> d.repl]
    BY DocIs
  <2> QED BY <1>1, <2>1, <2>2, <2>3, <2>4
<1>8. HasEffect(op)
  BY <1>3 DEF HasEffect
<1>9. Injective(d.cells) => Injective(e.cells)
  BY <1>0, <1>1, SpliceInjective
<1> HIDE DEF op
<1>10. Edits(n, d, <<op>>, e)
  BY <1>1, <1>3, <1>4, <1>6, <1>7, <1>8, <1>9, OneEdit
<1> QED BY <1>10 DEF op, e

LEMMA DeleteEdits ==
    ASSUME NEW n, NEW d \in Docs(n), NEW off \in Nat, NEW m \in Nat \ {0},
           off + m <= DocLen(d)
    PROVE  Edits(n, d, <<DeleteOp(off, CellsAt(d, off, m))>>, Cut(d, off, m))
<1> DEFINE t == CellsAt(d, off, m)
           op == DeleteOp(off, t)
           e == Cut(d, off, m)
<1>0. DocLen(d) = Len(d.cells) /\ d.cells \in Seq(1..n) /\ DocLen(d) \in Nat
  BY DocIs
<1>a. off <= DocLen(d) /\ off < DocLen(d)
  BY <1>0
<1>1. t \in Seq(1..n) /\ Len(t) = m /\ \A i \in 1..Len(t) : t[i] = d.cells[off + i]
  BY <1>0, <1>a, CellsAtIs DEF Least
<1>2. /\ e \in Docs(n) /\ e = [base |-> d.base, cells |-> CutSeq(d.cells, off, m),
                               tomb |-> d.tomb, repl |-> d.repl]
  BY <1>a, CutIs
<1>3. DocLen(e) = DocLen(d) - m
  <2>1. CutAs(CutSeq(d.cells, off, m), d.cells, off, m)
    BY <1>0, <1>a, CutSeqIs
  <2> QED BY <1>0, <1>2, <2>1 DEF DocLen, CutAs
<1> HIDE DEF t
<1>4. op.kind = "RealDelete" /\ op.off = off /\ op.cells = t /\ op \in Ops(n)
  BY <1>1 DEF DeleteOp, Ops, CellOps
<1> HIDE DEF e
<1>5. ApplyPossible(d, op) /\ ApplyEditOp(d, op) = e
  BY <1>a, <1>1, <1>4 DEF ApplyPossible, RangeKinds, Removable, ApplyEditOp, e
<1>6. off <= DocLen(e)
  BY <1>0, <1>3
<1>7. UndoPossible(e, op)
  BY <1>4, <1>6 DEF UndoPossible, RangeKinds, Insertable
<1>8. UndoEditOp(e, op) = d
  <2>1. UndoEditOp(e, op) = Splice(e, off, t)
    BY <1>4 DEF UndoEditOp
  <2>2. Splice(e, off, t) = [base |-> e.base, cells |-> SpliceSeq(e.cells, off, t),
                             tomb |-> e.tomb, repl |-> e.repl]
    BY <1>1, <1>2, <1>6, SpliceIs
  <2>3. SpliceSeq(e.cells, off, t) = d.cells
    <3>1. SpliceSeq(CutSeq(d.cells, off, Len(t)), off, t) = d.cells
      BY <1>0, <1>1, SplicedCut
    <3> QED BY <1>1, <1>2, <3>1
  <2>4. d = [base |-> d.base, cells |-> d.cells, tomb |-> d.tomb, repl |-> d.repl]
    BY DocIs
  <2> QED BY <1>2, <2>1, <2>2, <2>3, <2>4
<1>9. HasEffect(op)
  BY <1>1, <1>4 DEF HasEffect
<1>10. Injective(d.cells) => Injective(e.cells)
  BY <1>0, <1>a, <1>2, CutInjective
<1> HIDE DEF op
<1>11. Edits(n, d, <<op>>, e)
  BY <1>2, <1>4, <1>5, <1>7, <1>8, <1>9, <1>10, OneEdit
<1> QED BY <1>11 DEF op, e, t

\* Edits of the slots: the cells stay, the deletions or the replacements change.
Slots(d, tomb, repl) == [base |-> d.base, cells |-> d.cells, tomb |-> tomb, repl |-> repl]

LEMMA SlotsIs ==
    ASSUME NEW n, NEW d \in Docs(n), NEW tomb \in SUBSET (1..n),
           NEW repl \in Partial(1..n, Byte)
    PROVE  Slots(d, tomb, repl) \in Docs(n)
<1>0. n \in Nat /\ n <= Len(d.base) /\ d.base \in Seq(Byte) /\ d.cells \in Seq(1..n)
  BY DocIs
<1> QED BY <1>0, IsDoc DEF Slots

LEMMA SlotsShow ==
    ASSUME NEW d, NEW tomb, NEW repl, NEW off, NEW m
    PROVE  /\ Slots(d, tomb, repl).base = d.base /\ Slots(d, tomb, repl).cells = d.cells
           /\ Slots(d, tomb, repl).tomb = tomb /\ Slots(d, tomb, repl).repl = repl
           /\ DocLen(Slots(d, tomb, repl)) = DocLen(d)
           /\ CellsAt(Slots(d, tomb, repl), off, m) = CellsAt(d, off, m)
           /\ IdsAt(Slots(d, tomb, repl), off, m) = IdsAt(d, off, m)
<1>1. /\ Slots(d, tomb, repl).base = d.base /\ Slots(d, tomb, repl).cells = d.cells
      /\ Slots(d, tomb, repl).tomb = tomb /\ Slots(d, tomb, repl).repl = repl
  BY DEF Slots
<1> QED BY <1>1 DEF CellsAt, IdsAt, DocLen

LEMMA SlotEdits ==
    ASSUME NEW n, NEW d \in Docs(n), NEW op \in SlotOps(n), NEW tomb \in SUBSET (1..n),
           NEW repl \in Partial(1..n, Byte),
           ApplyPossible(d, op), UndoPossible(Slots(d, tomb, repl), op),
           AppliedTomb(d, op) = tomb, AppliedRepl(d, op) = repl,
           UndoneTomb(Slots(d, tomb, repl), op) = d.tomb,
           UndoneRepl(Slots(d, tomb, repl), op) = d.repl,
           HasEffect(op) \/ (tomb = d.tomb /\ repl = d.repl)
    PROVE  Edits(n, d, <<op>>, Slots(d, tomb, repl))
<1> DEFINE e == Slots(d, tomb, repl)
<1>0. d = [base |-> d.base, cells |-> d.cells, tomb |-> d.tomb, repl |-> d.repl]
  BY DocIs
<1>1. e \in Docs(n) /\ e.base = d.base /\ e.cells = d.cells
  <2>1. e \in Docs(n)
    BY SlotsIs
  <2> QED BY <2>1 DEF Slots
<1>2. ApplyEditOp(d, op) = e
  BY SlotApply DEF Slots
<1>3. UndoEditOp(e, op) = d
  <2> HIDE DEF e
  <2>1. UndoEditOp(e, op) = [base |-> e.base, cells |-> e.cells,
                             tomb |-> UndoneTomb(e, op), repl |-> UndoneRepl(e, op)]
    BY <1>1, SlotUndo
  <2> QED BY <1>0, <1>1, <2>1 DEF e
<1>4. e = d \/ HasEffect(op)
  BY <1>0 DEF Slots
<1>5. op \in Ops(n)
  BY SlotKind
<1> HIDE DEF e
<1> QED BY <1>1, <1>2, <1>3, <1>4, <1>5, OneEdit DEF e

LEMMA TombEdits ==
    ASSUME NEW n, NEW d \in Docs(n), NEW new \in SUBSET (1..n), new \cap d.tomb = {}
    PROVE  /\ Edits(n, d, <<TombOp(new)>>, [d EXCEPT !.tomb = @ \cup new])
           /\ [d EXCEPT !.tomb = @ \cup new].base = d.base
<1> DEFINE op == TombOp(new)
           tomb == d.tomb \cup new
           e == Slots(d, tomb, d.repl)
<1>0. /\ d.tomb \in SUBSET (1..n) /\ d.repl \in Partial(1..n, Byte)
      /\ d = [base |-> d.base, cells |-> d.cells, tomb |-> d.tomb, repl |-> d.repl]
  BY DocIs
<1>1. [d EXCEPT !.tomb = @ \cup new] = e
  <2>1. tomb \in SUBSET (1..n)
    BY <1>0
  <2> HIDE DEF tomb
  <2>2. [d EXCEPT !.tomb = tomb] = e
    BY <2>1, TombDoc DEF Slots
  <2> QED BY <2>2 DEF tomb
<1>2. op.kind = "Tombstone" /\ op.ids = new /\ op \in TombOps(n)
  BY DEF TombOp, TombOps
<1>3. op \in SlotOps(n)
  BY <1>2, Zenon DEF SlotOps
<1>4. tomb \in SUBSET (1..n)
  BY <1>0
<1>5. e.tomb = tomb /\ e.repl = d.repl /\ e.base = d.base
  BY DEF Slots
<1> HIDE DEF op, e
<1>6. ApplyPossible(d, op) /\ UndoPossible(e, op)
  BY <1>2 DEF ApplyPossible, UndoPossible, RangeKinds
<1>7. AppliedTomb(d, op) = tomb /\ UndoneTomb(e, op) = d.tomb
  BY <1>2, <1>5 DEF AppliedTomb, UndoneTomb
<1>8. AppliedRepl(d, op) = d.repl /\ UndoneRepl(e, op) = d.repl
  BY <1>2, <1>5 DEF AppliedRepl, UndoneRepl
<1>9. HasEffect(op) \/ (tomb = d.tomb /\ d.repl = d.repl)
  <2>1. new # {} => HasEffect(op)
    BY <1>2 DEF HasEffect
  <2> QED BY <2>1
<1> HIDE DEF tomb
<1>10. Edits(n, d, <<op>>, e)
  BY <1>0, <1>3, <1>4, <1>6, <1>7, <1>8, <1>9, SlotEdits DEF e
<1> QED BY <1>1, <1>5, <1>10 DEF op

\* An edit that records the replacements of some cells before and after.
LEMMA ReplaceEdits ==
    ASSUME NEW n, NEW d \in Docs(n), NEW repl \in Partial(1..n, Byte),
           NEW ids \in SUBSET (1..n), AgreeOff(d.repl, repl, ids), AgreeOff(repl, d.repl, ids)
    PROVE  Edits(n, d, <<ReplaceOp(ids, Only(d.repl, ids), Only(repl, ids))>>,
                 Slots(d, d.tomb, repl))
<1> DEFINE op == ReplaceOp(ids, Only(d.repl, ids), Only(repl, ids))
           e == Slots(d, d.tomb, repl)
<1>0. d.tomb \in SUBSET (1..n) /\ d.repl \in Partial(1..n, Byte)
  BY DocIs
<1>1. Only(d.repl, ids) \in Partial(1..n, Byte) /\ Only(repl, ids) \in Partial(1..n, Byte)
  BY <1>0, OnlyIs
<1>2. /\ op.kind = "ReplaceBytes" /\ op.ids = ids /\ op.before = Only(d.repl, ids)
      /\ op.after = Only(repl, ids) /\ op \in ReplaceOps(n)
  BY <1>1 DEF ReplaceOp, ReplaceOps
<1>3. op \in SlotOps(n)
  BY <1>2, Zenon DEF SlotOps
<1>4. e.tomb = d.tomb /\ e.repl = repl
  BY DEF Slots
<1> HIDE DEF op, e
<1>5. /\ Over(Without(d.repl, ids), Only(repl, ids)) = repl
      /\ Over(Without(repl, ids), Only(d.repl, ids)) = d.repl
  BY <1>0, Patched
<1>6. ApplyPossible(d, op) /\ UndoPossible(e, op)
  BY <1>2 DEF ApplyPossible, UndoPossible, RangeKinds
<1>7. AppliedTomb(d, op) = d.tomb /\ UndoneTomb(e, op) = d.tomb
  BY <1>2, <1>4 DEF AppliedTomb, UndoneTomb
<1>8. AppliedRepl(d, op) = repl /\ UndoneRepl(e, op) = d.repl
  BY <1>2, <1>4, <1>5 DEF AppliedRepl, UndoneRepl
<1>9. HasEffect(op) \/ (d.tomb = d.tomb /\ repl = d.repl)
  <2>1. CASE op.before = op.after
    <3>1. Without(d.repl, ids) = Without(repl, ids)
      BY DEF Without, AgreeOff
    <3> QED BY <1>2, <1>5, <2>1, <3>1
  <2>2. CASE op.before # op.after
    BY <1>2, <2>2 DEF HasEffect
  <2> QED BY <2>1, <2>2
<1>10. Edits(n, d, <<op>>, e)
  BY <1>0, <1>3, <1>6, <1>7, <1>8, <1>9, SlotEdits DEF e
<1> QED BY <1>10 DEF op, e

LEMMA PatchEdits ==
    ASSUME NEW n, NEW d \in Docs(n), NEW repl \in Partial(1..n, Byte),
           NEW off \in Nat, NEW m \in Nat, off + m <= DocLen(d),
           AgreeOff(d.repl, repl, IdsAt(d, off, m)), AgreeOff(repl, d.repl, IdsAt(d, off, m))
    PROVE  Edits(n, d, PatchOver(d, Slots(d, d.tomb, repl), off, m), Slots(d, d.tomb, repl))
<1> DEFINE ids == IdsAt(d, off, m)
           op == PatchOp(off, m, Only(d.repl, ids), Only(repl, ids))
           e == Slots(d, d.tomb, repl)
<1>0. d.tomb \in SUBSET (1..n) /\ d.repl \in Partial(1..n, Byte)
  BY DocIs
<1>1. Only(d.repl, ids) \in Partial(1..n, Byte) /\ Only(repl, ids) \in Partial(1..n, Byte)
  BY <1>0, OnlyIs
<1> HIDE DEF ids
<1>2. /\ op.kind = "ReplacePatch" /\ op.off = off /\ op.n = m /\ op.before = Only(d.repl, ids)
      /\ op.after = Only(repl, ids) /\ op \in PatchOps(n)
  BY <1>1 DEF PatchOp, PatchOps
<1>3. op \in SlotOps(n)
  BY <1>2, Zenon DEF SlotOps
<1>4. e.tomb = d.tomb /\ e.repl = repl /\ DocLen(e) = DocLen(d) /\ IdsAt(e, off, m) = ids
  BY SlotsShow DEF ids
<1>a. PatchOver(d, e, off, m) = <<op>>
  BY <1>4 DEF PatchOver, ids
<1> HIDE DEF op, e
<1>5. /\ Over(Without(d.repl, ids), Only(repl, ids)) = repl
      /\ Over(Without(repl, ids), Only(d.repl, ids)) = d.repl
  BY <1>0, Patched DEF ids
<1>6. ApplyPossible(d, op) /\ UndoPossible(e, op)
  BY <1>2, <1>4 DEF ApplyPossible, UndoPossible, RangeKinds, Covered
<1>7. AppliedTomb(d, op) = d.tomb /\ UndoneTomb(e, op) = d.tomb
  BY <1>2, <1>4 DEF AppliedTomb, UndoneTomb
<1>8. AppliedRepl(d, op) = repl /\ UndoneRepl(e, op) = d.repl
  BY <1>2, <1>4, <1>5 DEF AppliedRepl, UndoneRepl, ids
<1>9. HasEffect(op) \/ (d.tomb = d.tomb /\ repl = d.repl)
  <2>1. CASE op.before = op.after
    <3>1. Without(d.repl, ids) = Without(repl, ids)
      BY DEF Without, AgreeOff, ids
    <3> QED BY <1>2, <1>5, <2>1, <3>1
  <2>2. CASE op.before # op.after
    BY <1>2, <2>2 DEF HasEffect
  <2> QED BY <2>1, <2>2
<1>10. Edits(n, d, <<op>>, e)
  BY <1>0, <1>3, <1>6, <1>7, <1>8, <1>9, SlotEdits DEF e
<1> QED BY <1>10, <1>a DEF e

\* What is laid over f can be taken off again.
LEMMA LaidOff ==
    ASSUME NEW S, NEW V, NEW f \in Partial(S, V), NEW g \in Partial(S, V),
           DOMAIN f \cap DOMAIN g = {}
    PROVE  Without(Over(f, g), DOMAIN g) = f
<1> DEFINE h == Over(f, g)
           w == Without(h, DOMAIN g)
<1>1. h \in Partial(S, V) /\ Overlaid(h, f, g)
  BY OverIs
<1> HIDE DEF h
<1>2. w \in Partial(S, V) /\ SameOn(w, h, DOMAIN h \ DOMAIN g)
  BY <1>1, WithoutIs
<1> HIDE DEF w
<1>3. DOMAIN w = DOMAIN f /\ \A x \in DOMAIN w : w[x] = f[x]
  BY <1>1, <1>2 DEF SameOn, Overlaid
<1> QED BY <1>2, <1>3, SamePartial DEF w, h

LEMMA OverNothing ==
    ASSUME NEW S, NEW V, NEW f \in Partial(S, V), NEW g \in Partial(S, V), DOMAIN g = {}
    PROVE  Over(f, g) = f
<1> DEFINE h == Over(f, g)
<1>1. h \in Partial(S, V) /\ Overlaid(h, f, g)
  BY OverIs
<1> HIDE DEF h
<1>2. DOMAIN h = DOMAIN f /\ \A x \in DOMAIN h : h[x] = f[x]
  BY <1>1 DEF Overlaid
<1> QED BY <1>1, <1>2, SamePartial DEF h

\* A range of m slots that lies in the document has m cells.
RangeIds(d, off, m) == {d.cells[off + i] : i \in 1..m}

LEMMA RangeIs ==
    ASSUME NEW n, NEW d \in Docs(n), NEW off \in Nat, NEW m \in Nat, off + m <= DocLen(d)
    PROVE  /\ Len(CellsAt(d, off, m)) = m /\ CellsAt(d, off, m) \in Seq(1..n)
           /\ IdsAt(d, off, m) = RangeIds(d, off, m)
           /\ IdsAt(d, off, m) \in SUBSET (1..n)
<1> DEFINE c == CellsAt(d, off, m)
<1>1. DocLen(d) \in Nat /\ off <= DocLen(d)
  BY DocIs
<1>2. c \in Seq(1..n) /\ Len(c) = m /\ \A i \in 1..Len(c) : c[i] = d.cells[off + i]
  <2>1. /\ c \in Seq(1..n) /\ Len(c) = Least(off + m, DocLen(d)) - off
        /\ \A i \in 1..Len(c) : off + i <= DocLen(d) /\ c[i] = d.cells[off + i]
    BY <1>1, CellsAtIs
  <2>2. Len(c) = m
    <3> HIDE DEF c
    <3> QED BY <1>1, <2>1 DEF Least
  <2> HIDE DEF c
  <2> QED BY <2>1, <2>2
<1>3. IdsAt(d, off, m) = {c[i] : i \in 1..Len(c)} /\ IdsAt(d, off, m) \in SUBSET (1..n)
  BY IdsAtIs
<1> HIDE DEF c
<1>4. {c[i] : i \in 1..Len(c)} = RangeIds(d, off, m)
  BY <1>2 DEF RangeIds
<1> QED BY <1>2, <1>3, <1>4 DEF c

LEMMA BulkEdits ==
    ASSUME NEW n, NEW d \in Docs(n), NEW off \in Nat, NEW bytes \in Seq(Byte),
           off + Len(bytes) <= DocLen(d),
           DOMAIN d.repl \cap IdsAt(d, off, Len(bytes)) = {}
    PROVE  Edits(n, d, <<BulkOp(off, bytes)>>,
                 Slots(d, d.tomb, Over(d.repl, LaidRun(d, off, bytes))))
<1> DEFINE op == BulkOp(off, bytes)
           m == Len(bytes)
           ids == IdsAt(d, off, m)
           g == LaidRun(d, off, bytes)
           repl == Over(d.repl, g)
           e == Slots(d, d.tomb, repl)
<1>0. d.tomb \in SUBSET (1..n) /\ d.repl \in Partial(1..n, Byte) /\ m \in Nat
  BY DocIs
<1>1. g \in Partial(1..n, Byte) /\ DOMAIN g = ids
  BY LaidIs
<1>2. op.kind = "BulkBytes" /\ op.off = off /\ op.n = m /\ op.bytes = bytes /\ op \in BulkOps
  BY <1>0 DEF BulkOp, BulkOps
<1>3. op \in SlotOps(n)
  BY <1>2, Zenon DEF SlotOps
<1>a. ids = RangeIds(d, off, m)
  BY <1>0, RangeIs
<1> HIDE DEF op, g
<1>4. repl \in Partial(1..n, Byte) /\ Without(repl, ids) = d.repl
  BY <1>0, <1>1, OverIs, LaidOff
<1>b. m = 0 => repl = d.repl
  <2>1. m = 0 => DOMAIN g = {}
    BY <1>1, <1>a DEF RangeIds
  <2> QED BY <1>0, <1>1, <2>1, OverNothing
<1> HIDE DEF ids, m, repl
<1>5. e.tomb = d.tomb /\ e.repl = repl /\ DocLen(e) = DocLen(d) /\ IdsAt(e, off, m) = ids
  BY SlotsShow DEF ids
<1> HIDE DEF e
<1>6. ApplyPossible(d, op) /\ UndoPossible(e, op)
  BY <1>2, <1>5 DEF ApplyPossible, UndoPossible, RangeKinds, Covered, m
<1>7. AppliedTomb(d, op) = d.tomb /\ UndoneTomb(e, op) = d.tomb
  BY <1>2, <1>5 DEF AppliedTomb, UndoneTomb
<1>8. AppliedRepl(d, op) = repl /\ UndoneRepl(e, op) = d.repl
  BY <1>2, <1>4, <1>5 DEF AppliedRepl, UndoneRepl, repl, g
<1>9. HasEffect(op) \/ (d.tomb = d.tomb /\ repl = d.repl)
  <2>1. m > 0 => HasEffect(op)
    BY <1>2 DEF HasEffect
  <2> QED BY <1>0, <1>b, <2>1
<1>10. Edits(n, d, <<op>>, e)
  BY <1>0, <1>3, <1>4, <1>6, <1>7, <1>8, <1>9, SlotEdits DEF e
<1> QED BY <1>10 DEF op, e, repl, g

LEMMA XorEdits ==
    ASSUME NEW n, NEW d \in Docs(n), NEW off \in Nat, NEW m \in Nat, off + m <= DocLen(d),
           DOMAIN d.repl \cap IdsAt(d, off, m) = {}
    PROVE  Edits(n, d, <<XorOp(off, m)>>,
                 Slots(d, d.tomb, Over(d.repl, FlippedRun(d, IdsAt(d, off, m)))))
<1> DEFINE op == XorOp(off, m)
           ids == IdsAt(d, off, m)
           g == FlippedRun(d, ids)
           repl == Over(d.repl, g)
           e == Slots(d, d.tomb, repl)
<1>0. d.tomb \in SUBSET (1..n) /\ d.repl \in Partial(1..n, Byte)
  BY DocIs
<1>a. ids = RangeIds(d, off, m) /\ ids \in SUBSET (1..n)
  BY RangeIs
<1>1. g \in Partial(1..n, Byte) /\ DOMAIN g = ids
  <2> HIDE DEF ids
  <2> QED BY <1>a, FlippedRunIs
<1>2. op.kind = "BulkXor" /\ op.off = off /\ op.n = m /\ op \in XorOps
  BY DEF XorOp, XorOps
<1>3. op \in SlotOps(n)
  BY <1>2, Zenon DEF SlotOps
<1> HIDE DEF op, g
<1>4. repl \in Partial(1..n, Byte) /\ Without(repl, ids) = d.repl
  BY <1>0, <1>1, OverIs, LaidOff
<1>b. m = 0 => repl = d.repl
  <2>1. m = 0 => DOMAIN g = {}
    BY <1>1, <1>a DEF RangeIds
  <2> QED BY <1>0, <1>1, <2>1, OverNothing
<1> HIDE DEF ids, repl
<1>5. e.tomb = d.tomb /\ e.repl = repl /\ DocLen(e) = DocLen(d) /\ IdsAt(e, off, m) = ids
  BY SlotsShow DEF ids
<1> HIDE DEF e
<1>6. ApplyPossible(d, op) /\ UndoPossible(e, op)
  BY <1>2, <1>5 DEF ApplyPossible, UndoPossible, RangeKinds, Covered
<1>7. AppliedTomb(d, op) = d.tomb /\ UndoneTomb(e, op) = d.tomb
  BY <1>2, <1>5 DEF AppliedTomb, UndoneTomb
<1>8. AppliedRepl(d, op) = repl /\ UndoneRepl(e, op) = d.repl
  BY <1>2, <1>4, <1>5 DEF AppliedRepl, UndoneRepl, repl, g, ids
<1>9. HasEffect(op) \/ (d.tomb = d.tomb /\ repl = d.repl)
  <2>1. m > 0 => HasEffect(op)
    BY <1>2 DEF HasEffect
  <2> QED BY <1>b, <2>1
<1>10. Edits(n, d, <<op>>, e)
  BY <1>0, <1>3, <1>4, <1>6, <1>7, <1>8, <1>9, SlotEdits DEF e
<1> QED BY <1>10 DEF op, e, repl, g, ids

\* No two slots show the same cell, so that a range has as many cells as slots.
LEMMA CellCount ==
    ASSUME NEW n, NEW d \in Docs(n), NEW off \in Nat, NEW m \in Nat, off + m <= DocLen(d),
           Injective(d.cells)
    PROVE  Cardinality(IdsAt(d, off, m)) = m
<1> DEFINE f == [i \in 1..m |-> d.cells[off + i]]
           ids == IdsAt(d, off, m)
<1>1. ids = RangeIds(d, off, m)
  BY RangeIs
<1>2. \A i \in 1..m : off + i \in DOMAIN d.cells
  <2>1. d.cells \in Seq(1..n) /\ DocLen(d) = Len(d.cells)
    BY DocIs
  <2> QED BY <2>1
<1>3. f \in [1..m -> ids] /\ \A x \in ids : \E i \in 1..m : f[i] = x
  BY <1>1 DEF RangeIds
<1>4. \A i, j \in DOMAIN f : f[i] = f[j] => i = j
  <2> SUFFICES ASSUME NEW i \in 1..m, NEW j \in 1..m, d.cells[off + i] = d.cells[off + j]
               PROVE  i = j
    OBVIOUS
  <2> DEFINE a == off + i
             b == off + j
  <2>1. a \in DOMAIN d.cells /\ b \in DOMAIN d.cells /\ d.cells[a] = d.cells[b]
    BY <1>2
  <2>2. a = b
    <3> HIDE DEF a, b
    <3> QED BY <2>1 DEF Injective
  <2> QED BY <2>2
<1> HIDE DEF f, ids
<1>5. f \in Surjection(1..m, ids) /\ f \in Injection(1..m, ids)
  BY <1>3, <1>4 DEF Surjection, Injection, IsInjective
<1>6. IsFiniteSet(1..m) /\ Cardinality(1..m) = m
  BY FS_Interval
<1>7. Cardinality(ids) = Cardinality(1..m)
  BY <1>5, <1>6, FS_Surjection
<1> QED BY <1>6, <1>7 DEF ids

(***************************************************************************)
(* Runs of changed bytes                                                   *)
(***************************************************************************)

\* Runs that lie within m slots from off.
Inner(off, m) ==
    {op \in BulkOps : /\ op.n = Len(op.bytes) /\ op.n > 0
                      /\ off <= op.off /\ op.off + op.n <= off + m}

\* e is d with other replacements on some of ids.
OnRun(n, d, ids, D, e) ==
    \E repl \in Partial(1..n, Byte) :
        /\ e = Slots(d, d.tomb, repl)
        /\ AgreeOff(d.repl, repl, ids) /\ AgreeOff(repl, d.repl, ids)
        /\ DOMAIN repl \cap ids \subseteq D

LEMMA InnerIs ==
    ASSUME NEW n, NEW d \in Docs(n), NEW off \in Nat, NEW m \in Nat, off + m <= DocLen(d),
           NEW op \in Inner(off, m)
    PROVE  /\ op \in SlotOps(n) /\ op.kind = "BulkBytes" /\ op.off \in Nat /\ op.n \in Nat
           /\ op.bytes \in Seq(Byte) /\ op.n = Len(op.bytes) /\ op.off + op.n <= DocLen(d)
           /\ IdsAt(d, op.off, op.n) \subseteq IdsAt(d, off, m)
           /\ HasEffect(op)
<1>1. /\ op \in BulkOps /\ op.kind = "BulkBytes" /\ op.off \in Nat /\ op.n \in Nat
      /\ op.bytes \in Seq(Byte) /\ op.n = Len(op.bytes) /\ op.n > 0
      /\ off <= op.off /\ op.off + op.n <= off + m
  BY DEF Inner, BulkOps
<1>2. op \in SlotOps(n)
  BY <1>1, Zenon DEF SlotOps
<1>3. DocLen(d) \in Nat
  BY DocIs
<1>4. op.off + op.n <= DocLen(d)
  BY <1>1, <1>3
<1>5. IdsAt(d, op.off, op.n) = RangeIds(d, op.off, op.n) /\ IdsAt(d, off, m) = RangeIds(d, off, m)
  BY <1>1, <1>4, RangeIs
<1>6. RangeIds(d, op.off, op.n) \subseteq RangeIds(d, off, m)
  <2> SUFFICES ASSUME NEW i \in 1..op.n
               PROVE  \E j \in 1..m : d.cells[op.off + i] = d.cells[off + j]
    BY DEF RangeIds
  <2>1. (op.off + i) - off \in 1..m /\ off + ((op.off + i) - off) = op.off + i
    BY <1>1
  <2> QED BY <2>1
<1>7. HasEffect(op)
  BY <1>1 DEF HasEffect
<1> QED BY <1>1, <1>2, <1>4, <1>5, <1>6, <1>7

LEMMA RunApply ==
    ASSUME NEW n, NEW d \in Docs(n), NEW off \in Nat, NEW m \in Nat, off + m <= DocLen(d),
           NEW op \in Inner(off, m), NEW D, NEW e \in Docs(n),
           OnRun(n, d, IdsAt(d, off, m), D, e)
    PROVE  /\ ApplyPossible(e, op)
           /\ OnRun(n, d, IdsAt(d, off, m), D \cup IdsAt(d, op.off, op.n), ApplyEditOp(e, op))
<1> DEFINE ids == IdsAt(d, off, m)
           mine == IdsAt(d, op.off, op.n)
<1>1. /\ op \in SlotOps(n) /\ op.kind = "BulkBytes" /\ op.off \in Nat /\ op.n \in Nat
      /\ op.bytes \in Seq(Byte) /\ op.n = Len(op.bytes) /\ op.off + op.n <= DocLen(d)
      /\ mine \subseteq ids
  BY InnerIs
<1>2. PICK repl \in Partial(1..n, Byte) :
        /\ e = Slots(d, d.tomb, repl)
        /\ AgreeOff(d.repl, repl, ids) /\ AgreeOff(repl, d.repl, ids)
        /\ DOMAIN repl \cap ids \subseteq D
  BY DEF OnRun
<1> HIDE DEF ids
<1>3. /\ e.cells = d.cells /\ e.tomb = d.tomb /\ e.repl = repl /\ DocLen(e) = DocLen(d)
      /\ e.base = d.base /\ IdsAt(e, op.off, op.n) = mine
  BY <1>2, SlotsShow
<1> HIDE DEF mine
<1>4. ApplyPossible(e, op)
  BY <1>1, <1>3 DEF ApplyPossible, RangeKinds, Covered
<1> DEFINE g == LaidRun(e, op.off, op.bytes)
           new == Over(repl, g)
<1>5. g \in Partial(1..n, Byte) /\ DOMAIN g = mine
  BY <1>1, <1>3, LaidIs
<1>6. AppliedRepl(e, op) = new /\ AppliedTomb(e, op) = d.tomb
  BY <1>1, <1>3 DEF AppliedRepl, AppliedTomb
<1> HIDE DEF g
<1>7. new \in Partial(1..n, Byte) /\ Overlaid(new, repl, g)
  BY <1>5, OverIs
<1> HIDE DEF new
<1>8. ApplyEditOp(e, op) = Slots(d, d.tomb, new)
  BY <1>1, <1>3, <1>6, SlotApply DEF Slots
<1>9. /\ AgreeOff(d.repl, new, ids) /\ AgreeOff(new, d.repl, ids)
      /\ DOMAIN new \cap ids \subseteq D \cup mine
  BY <1>1, <1>2, <1>5, <1>7 DEF AgreeOff, Overlaid
<1> QED BY <1>4, <1>7, <1>8, <1>9 DEF OnRun, ids, mine

LEMMA RunUndo ==
    ASSUME NEW n, NEW d \in Docs(n), NEW off \in Nat, NEW m \in Nat, off + m <= DocLen(d),
           NEW op \in Inner(off, m), NEW D, NEW e \in Docs(n),
           OnRun(n, d, IdsAt(d, off, m), D \cup IdsAt(d, op.off, op.n), e)
    PROVE  /\ UndoPossible(e, op)
           /\ OnRun(n, d, IdsAt(d, off, m), D, UndoEditOp(e, op))
<1> DEFINE ids == IdsAt(d, off, m)
           mine == IdsAt(d, op.off, op.n)
<1>1. /\ op \in SlotOps(n) /\ op.kind = "BulkBytes" /\ op.off \in Nat /\ op.n \in Nat
      /\ op.bytes \in Seq(Byte) /\ op.n = Len(op.bytes) /\ op.off + op.n <= DocLen(d)
      /\ mine \subseteq ids
  BY InnerIs
<1>2. PICK repl \in Partial(1..n, Byte) :
        /\ e = Slots(d, d.tomb, repl)
        /\ AgreeOff(d.repl, repl, ids) /\ AgreeOff(repl, d.repl, ids)
        /\ DOMAIN repl \cap ids \subseteq D \cup mine
  BY DEF OnRun
<1> HIDE DEF ids
<1>3. /\ e.cells = d.cells /\ e.tomb = d.tomb /\ e.repl = repl /\ DocLen(e) = DocLen(d)
      /\ e.base = d.base /\ IdsAt(e, op.off, op.n) = mine
  BY <1>2, SlotsShow
<1> HIDE DEF mine
<1>4. UndoPossible(e, op)
  BY <1>1, <1>3 DEF UndoPossible, RangeKinds, Covered
<1> DEFINE new == Without(repl, mine)
<1>6. UndoneRepl(e, op) = new /\ UndoneTomb(e, op) = d.tomb
  BY <1>1, <1>3 DEF UndoneRepl, UndoneTomb
<1>7. new \in Partial(1..n, Byte) /\ SameOn(new, repl, DOMAIN repl \ mine)
  BY WithoutIs
<1> HIDE DEF new
<1>8. UndoEditOp(e, op) = Slots(d, d.tomb, new)
  BY <1>1, <1>3, <1>6, SlotUndo DEF Slots
<1>9. /\ AgreeOff(d.repl, new, ids) /\ AgreeOff(new, d.repl, ids)
      /\ DOMAIN new \cap ids \subseteq D
  BY <1>1, <1>2, <1>7 DEF AgreeOff, SameOn
<1> QED BY <1>4, <1>7, <1>8, <1>9 DEF OnRun, ids, mine

LEMMA OnRunDoc ==
    ASSUME NEW n, NEW d \in Docs(n), NEW ids, NEW D, NEW e, OnRun(n, d, ids, D, e)
    PROVE  e \in Docs(n)
<1>1. PICK repl \in Partial(1..n, Byte) : e = Slots(d, d.tomb, repl)
  BY DEF OnRun
<1>2. d.tomb \in SUBSET (1..n)
  BY DocIs
<1> QED BY <1>1, <1>2, SlotsIs

LEMMA OnRunSelf ==
    ASSUME NEW n, NEW d \in Docs(n), NEW ids, NEW D, DOMAIN d.repl \cap ids \subseteq D
    PROVE  OnRun(n, d, ids, D, d)
<1>1. /\ d.repl \in Partial(1..n, Byte)
      /\ d = [base |-> d.base, cells |-> d.cells, tomb |-> d.tomb, repl |-> d.repl]
  BY DocIs
<1>2. AgreeOff(d.repl, d.repl, ids)
  BY DEF AgreeOff
<1> QED BY <1>1, <1>2 DEF OnRun, Slots

LEMMA OnRunBack ==
    ASSUME NEW n, NEW d \in Docs(n), NEW ids, NEW e, OnRun(n, d, ids, {}, e),
           DOMAIN d.repl \cap ids = {}
    PROVE  e = d
<1>1. PICK repl \in Partial(1..n, Byte) :
        e = Slots(d, d.tomb, repl) /\ AgreeOff(repl, d.repl, ids) /\ DOMAIN repl \cap ids = {}
  BY DEF OnRun
<1>2. /\ d.repl \in Partial(1..n, Byte)
      /\ d = [base |-> d.base, cells |-> d.cells, tomb |-> d.tomb, repl |-> d.repl]
  BY DocIs
<1>3. repl = d.repl
  <2>1. DOMAIN repl = DOMAIN d.repl /\ \A x \in DOMAIN repl : repl[x] = d.repl[x]
    BY <1>1 DEF AgreeOff
  <2> QED BY <1>2, <2>1, SamePartial
<1> QED BY <1>1, <1>2, <1>3 DEF Slots

\* The cells of the first i runs.
RunIds(d, runs, i) == UNION {IdsAt(d, runs[j].off, runs[j].n) : j \in 1..i}

LEMMA RunIdsAre ==
    ASSUME NEW d, NEW runs, NEW i \in Nat \ {0}
    PROVE  /\ RunIds(d, runs, 0) = {}
           /\ RunIds(d, runs, i) = RunIds(d, runs, i - 1) \cup IdsAt(d, runs[i].off, runs[i].n)
<1> DEFINE A(j) == IdsAt(d, runs[j].off, runs[j].n)
<1>1. 1..0 = {} /\ 1..i = (1..(i - 1)) \cup {i}
  OBVIOUS
<1> HIDE DEF A
<1>2. UNION {A(j) : j \in 1..i} = (UNION {A(j) : j \in 1..(i - 1)}) \cup A(i)
  BY <1>1
<1> QED BY <1>1, <1>2 DEF RunIds, A

LEMMA RunsType ==
    ASSUME NEW n, NEW d \in Docs(n), NEW off \in Nat, NEW m \in Nat, off + m <= DocLen(d),
           NEW runs \in Seq(Inner(off, m))
    PROVE  /\ runs \in Seq(Ops(n)) /\ runs \in Seq(SlotOps(n)) /\ runs \in OpLists(n)
           /\ Len(runs) \in Nat /\ \A i \in 1..Len(runs) : runs[i] \in Inner(off, m)
<1>1. Len(runs) \in Nat /\ \A i \in 1..Len(runs) : runs[i] \in Inner(off, m)
  OBVIOUS
<1>2. \A i \in 1..Len(runs) : runs[i] \in SlotOps(n)
  BY <1>1, InnerIs
<1>3. runs \in Seq(SlotOps(n))
  BY <1>1, <1>2
<1>4. \A i \in 1..Len(runs) : runs[i] \in Ops(n)
  BY <1>2, SlotKind
<1>5. runs \in Seq(Ops(n))
  BY <1>1, <1>4
<1> QED BY <1>1, <1>3, <1>5 DEF OpLists

LEMMA RunsApplied ==
    ASSUME NEW n, NEW d \in Docs(n), NEW off \in Nat, NEW m \in Nat, off + m <= DocLen(d),
           NEW runs \in Seq(Inner(off, m)), NEW D, DOMAIN d.repl \cap IdsAt(d, off, m) \subseteq D
    PROVE  /\ ApplyOps(d, runs) = Unfailed(ApplyOps(d, runs).doc)
           /\ OnRun(n, d, IdsAt(d, off, m), D \cup RunIds(d, runs, Len(runs)),
                    ApplyOps(d, runs).doc)
<1> DEFINE ids == IdsAt(d, off, m)
           k == Len(runs)
           w == ApplyOpsUpTo(d, runs)
           U(i) == D \cup RunIds(d, runs, i)
           Good(i) == w[i] = Unfailed(w[i].doc) /\ OnRun(n, d, ids, U(i), w[i].doc)
           T == {i \in 0..k : Good(i)}
<1>0. /\ runs \in Seq(Ops(n)) /\ k \in Nat /\ \A i \in 1..k : runs[i] \in Inner(off, m)
  BY RunsType
<1>1. /\ w[0] = Unfailed(d) /\ \A i \in 1..k : w[i] = ApplyInto(w[i - 1], runs[i])
  BY <1>0, ApplyWalk
<1>2. ApplyOps(d, runs) = w[k]
  BY DEF ApplyOps
<1> HIDE DEF w, k
<1>3. 0 \in T
  <2>1. w[0].doc = d
    BY <1>1, IsOutcome
  <2>2. OnRun(n, d, ids, U(0), d)
    <3> DEFINE u == U(0)
    <3>1. DOMAIN d.repl \cap ids \subseteq u
      OBVIOUS
    <3> HIDE DEF u, ids
    <3>2. OnRun(n, d, ids, u, d)
      BY <3>1, OnRunSelf
    <3> QED BY <3>2 DEF u
  <2> HIDE DEF U, ids
  <2> QED BY <1>0, <1>1, <2>1, <2>2
<1>4. ASSUME NEW i \in 1..k, i - 1 \in T PROVE i \in T
  <2>0. Good(i - 1)
    BY <1>4
  <2> DEFINE d1 == w[i - 1].doc
             mine == IdsAt(d, runs[i].off, runs[i].n)
             old == U(i - 1)
  <2>1. w[i - 1] = Unfailed(d1) /\ OnRun(n, d, ids, old, d1)
    BY <2>0
  <2>2. U(i) = old \cup mine
    BY <1>0, RunIdsAre
  <2> HIDE DEF d1, old
  <2>3. d1 \in Docs(n)
    BY <2>1, OnRunDoc
  <2>4. ApplyPossible(d1, runs[i]) /\ OnRun(n, d, ids, old \cup mine, ApplyEditOp(d1, runs[i]))
    BY <1>0, <2>1, <2>3, RunApply
  <2>5. runs[i] \in Ops(n)
    BY <1>0 DEF k
  <2>6. ApplyInto(Unfailed(d1), runs[i]) = Unfailed(ApplyEditOp(d1, runs[i]))
    BY <2>3, <2>4, <2>5, IsOutcome, ApplyIntoIs
  <2>7. w[i] = Unfailed(ApplyEditOp(d1, runs[i])) /\ w[i].doc = ApplyEditOp(d1, runs[i])
    BY <1>1, <2>1, <2>6 DEF Unfailed
  <2> HIDE DEF U, ids, mine
  <2>8. Good(i)
    BY <2>2, <2>4, <2>7
  <2> QED BY <1>0, <2>8
<1> HIDE DEF T, Good
<1>5. \A i \in 0..k : i \in T
  BY <1>0, <1>3, <1>4, UpTo
<1>6. k \in T
  BY <1>0, <1>5
<1> HIDE DEF U
<1>7. Good(k)
  BY <1>6 DEF T
<1> QED BY <1>2, <1>7 DEF Good, U, ids, k

LEMMA RunsEdit ==
    ASSUME NEW n, NEW d \in Docs(n), NEW off \in Nat, NEW m \in Nat, off + m <= DocLen(d),
           NEW runs \in Seq(Inner(off, m)), DOMAIN d.repl \cap IdsAt(d, off, m) = {}
    PROVE  Edits(n, d, runs, ApplyOps(d, runs).doc)
<1> DEFINE ids == IdsAt(d, off, m)
           k == Len(runs)
           e == ApplyOps(d, runs).doc
           w == UndoOpsUpTo(e, runs)
           U(i) == RunIds(d, runs, k - i)
           Good(i) == w[i] = Unfailed(w[i].doc) /\ OnRun(n, d, ids, U(i), w[i].doc)
           T == {i \in 0..k : Good(i)}
<1>0. /\ runs \in Seq(Ops(n)) /\ k \in Nat /\ \A i \in 1..k : runs[i] \in Inner(off, m)
      /\ runs \in Seq(SlotOps(n)) /\ runs \in OpLists(n)
  BY RunsType
<1>a. ApplyOps(d, runs) = Unfailed(e) /\ OnRun(n, d, ids, RunIds(d, runs, k), e)
  <2> DEFINE D == {}
             u == RunIds(d, runs, k)
  <2>1. D \cup u = u /\ DOMAIN d.repl \cap ids \subseteq D
    OBVIOUS
  <2>2. ApplyOps(d, runs) = Unfailed(e) /\ OnRun(n, d, ids, D \cup u, e)
    <3> HIDE DEF D
    <3> QED BY <2>1, RunsApplied
  <2> HIDE DEF ids, e, u, D
  <2> QED BY <2>1, <2>2 DEF u
<1>b. e \in Docs(n) /\ e.base = d.base /\ e.cells = d.cells
  <2>1. e \in Docs(n)
    BY <1>a, OnRunDoc
  <2>2. e.base = d.base /\ e.cells = d.cells
    BY <1>0, ApplyOpsIs
  <2> QED BY <2>1, <2>2
<1> HIDE DEF e
<1>1. /\ w[0] = Unfailed(e) /\ \A i \in 1..k : w[i] = UndoInto(runs[k - i + 1], w[i - 1])
  BY <1>0, <1>b, UndoWalk
<1>2. UndoOps(e, runs) = w[k]
  BY DEF UndoOps
<1> HIDE DEF w, k
<1>3. 0 \in T
  <2>1. w[0].doc = e
    BY <1>1, <1>b, IsOutcome
  <2>2. U(0) = RunIds(d, runs, k)
    BY <1>0
  <2> HIDE DEF U, ids
  <2> QED BY <1>0, <1>1, <1>a, <2>1, <2>2
<1>4. ASSUME NEW i \in 1..k, i - 1 \in T PROVE i \in T
  <2>0. Good(i - 1)
    BY <1>4
  <2> DEFINE d1 == w[i - 1].doc
             op == runs[k - i + 1]
             mine == IdsAt(d, op.off, op.n)
             new == U(i)
  <2>1. w[i - 1] = Unfailed(d1) /\ OnRun(n, d, ids, U(i - 1), d1)
    BY <2>0
  <2>2. U(i - 1) = new \cup mine
    <3>1. k - (i - 1) \in Nat \ {0} /\ k - (i - 1) = k - i + 1 /\ (k - (i - 1)) - 1 = k - i
      BY <1>0
    <3>2. RunIds(d, runs, k - (i - 1)) =
            RunIds(d, runs, (k - (i - 1)) - 1)
                \cup IdsAt(d, runs[k - (i - 1)].off, runs[k - (i - 1)].n)
      BY <3>1, RunIdsAre
    <3> QED BY <3>1, <3>2
  <2>a. op \in Inner(off, m) /\ op \in Ops(n)
    <3>1. k - i + 1 \in 1..k
      BY <1>0
    <3> QED BY <1>0, <3>1 DEF k
  <2> HIDE DEF d1, new, op, ids
  <2>3. d1 \in Docs(n)
    BY <2>1, OnRunDoc
  <2>4. UndoPossible(d1, op) /\ OnRun(n, d, ids, new, UndoEditOp(d1, op))
    <3>1. OnRun(n, d, ids, new \cup mine, d1)
      BY <2>1, <2>2
    <3> QED BY <2>a, <3>1, <2>3, RunUndo DEF ids
  <2>6. UndoInto(op, Unfailed(d1)) = Unfailed(UndoEditOp(d1, op))
    BY <2>3, <2>4, <2>a, IsOutcome, UndoIntoIs
  <2>7. w[i] = Unfailed(UndoEditOp(d1, op)) /\ w[i].doc = UndoEditOp(d1, op)
    BY <1>1, <2>1, <2>6 DEF Unfailed, op
  <2> HIDE DEF U, mine
  <2>8. Good(i)
    BY <2>4, <2>7 DEF new
  <2> QED BY <1>0, <2>8
<1> HIDE DEF T, Good
<1>5. \A i \in 0..k : i \in T
  BY <1>0, <1>3, <1>4, UpTo
<1>6. k \in T
  BY <1>0, <1>5
<1>7. Good(k)
  BY <1>6 DEF T
<1>8. U(k) = {}
  <2>1. k - k = 0 /\ 1 \in Nat \ {0}
    BY <1>0
  <2> QED BY <2>1, RunIdsAre
<1> HIDE DEF U
<1>9. UndoOps(e, runs) = Unfailed(d)
  <2>1. w[k] = Unfailed(w[k].doc) /\ OnRun(n, d, ids, {}, w[k].doc)
    BY <1>7, <1>8 DEF Good
  <2>2. w[k].doc = d
    BY <2>1, OnRunBack
  <2> QED BY <1>2, <2>1, <2>2
<1>10. e = d \/ \E i \in DOMAIN runs : HasEffect(runs[i])
  <2>1. CASE k = 0
    <3>1. ApplyOps(d, runs) = Unfailed(d)
      BY <1>0, <2>1, ApplyOpsIs DEF k
    <3> QED BY <1>a, <3>1 DEF Unfailed
  <2>2. CASE k # 0
    <3>1. 1 \in 1..k /\ 1 \in DOMAIN runs
      BY <1>0, <2>2 DEF k
    <3>2. HasEffect(runs[1])
      BY <1>0, <3>1, InnerIs
    <3> QED BY <3>1, <3>2
  <2> QED BY <2>1, <2>2
<1>11. Injective(d.cells) => Injective(e.cells)
  BY <1>b
<1>12. Edits(n, d, runs, e)
  BY <1>0, <1>a, <1>b, <1>9, <1>10, <1>11, Zenon DEF Edits, Leads
<1> QED BY <1>12 DEF e

\* The bytes that lie before the end of the document.
LEMMA AppliedIs ==
    ASSUME NEW n, NEW d \in Docs(n), NEW off \in Nat, off <= DocLen(d), NEW bytes \in Seq(Byte)
    PROVE  /\ Applied(d, off, bytes) \in Seq(Byte)
           /\ Len(Applied(d, off, bytes)) = Len(CellsAt(d, off, Len(bytes)))
           /\ off + Len(Applied(d, off, bytes)) <= DocLen(d)
           /\ Len(Applied(d, off, bytes)) <= Len(bytes)
           /\ \A i \in 1..Len(Applied(d, off, bytes)) : Applied(d, off, bytes)[i] = bytes[i]
           /\ CellsAt(d, off, Len(Applied(d, off, bytes))) = CellsAt(d, off, Len(bytes))
<1> DEFINE k == Len(bytes)
           c == CellsAt(d, off, k)
           m == Len(c)
           a == Applied(d, off, bytes)
<1>0. k \in Nat /\ DocLen(d) \in Nat
  BY DocIs
<1>1. m \in Nat /\ m <= k /\ m = Least(off + k, DocLen(d)) - off
  BY <1>0, CellsAtIs
<1>2. a = SubSeq(bytes, 1, m)
  BY DEF Applied
<1> HIDE DEF c, a, m
<1>3. a \in Seq(Byte) /\ Len(a) = m /\ \A i \in 1..m : a[i] = bytes[i]
  BY <1>1, <1>2, PrefixIs
<1> HIDE DEF k
<1>4. off + m <= DocLen(d) /\ Least(off + m, DocLen(d)) = Least(off + k, DocLen(d))
  BY <1>0, <1>1 DEF Least
<1>5. CellsAt(d, off, m) = c
  BY <1>4 DEF CellsAt, c
<1> QED BY <1>1, <1>3, <1>4, <1>5 DEF c, m, k, a

LEMMA ChangedWalk ==
    ASSUME NEW n, NEW d \in Docs(n), NEW off \in Nat, off <= DocLen(d), NEW bytes \in Seq(Byte)
    PROVE  /\ ChangedUpTo(d, off, bytes) \in [0..Len(CellsAt(d, off, Len(bytes))) -> Seq(Inner(off, Len(CellsAt(d, off, Len(bytes)))))]
<1> DEFINE m == Len(CellsAt(d, off, Len(bytes)))
           ids == CellsAt(d, off, Len(bytes))
           diff == {i \in DOMAIN ids : Shown(d, ids[i]) # bytes[i]}
           Start(i) == Min({j \in 1..i : j..i \subseteq diff})
           Run(i) == BulkOp(off + Start(i) - 1, SubSeq(bytes, Start(i), i))
           Ends(i) == i \in diff /\ i + 1 \notin diff
           X == Seq(Inner(off, Len(CellsAt(d, off, Len(bytes)))))
           step == [i \in 1..m |-> [x \in X |-> IF Ends(i) THEN Append(x, Run(i)) ELSE x]]
           Is(f) == f = [i \in 0..m |->
                            IF i = 0 THEN <<>> ELSE IF Ends(i) THEN Append(f[i - 1], Run(i)) ELSE f[i - 1]]
           w == ChangedUpTo(d, off, bytes)
<1>0. m \in Nat /\ <<>> \in X
  BY DocIs, CellsAtIs
<1>a. m <= Len(bytes) /\ diff \subseteq 1..m
  BY <1>0, DocIs, CellsAtIs
<1>1. ASSUME NEW i \in 1..m, i \in diff PROVE Run(i) \in Inner(off, m)
  <2> DEFINE J == {j \in 1..i : j..i \subseteq diff}
             s == Start(i)
             r == SubSeq(bytes, s, i)
             op == Run(i)
  <2> HIDE DEF diff
  <2>1. i \in J
    BY <1>1
  <2>2. PICK l \in J : \A j \in J : l <= j
    <3>0. i \in Nat
      BY <1>0
    <3>1. \A j \in J : j \in Nat
      BY <3>0
    <3> HIDE DEF J
    <3>2. J \in SUBSET Nat /\ J # {}
      BY <2>1, <3>1
    <3> QED BY <3>2, LeastNatural
  <2>3. s \in J
    <3>1. s = CHOOSE x \in J : \A y \in J : x <= y
      BY DEF Min
    <3> HIDE DEF J, s
    <3> QED BY <2>2, <3>1
  <2> HIDE DEF s, m, Start
  <2>4. s \in 1..i /\ s - 1 \in Nat /\ i - (s - 1) \in Nat /\ i - (s - 1) > 0
        /\ (s - 1) + (i - (s - 1)) = i /\ (s - 1) + 1 = s /\ i <= Len(bytes)
    BY <1>0, <1>a, <2>3
  <2>5. SubSeq(bytes, (s - 1) + 1, (s - 1) + (i - (s - 1))) \in Seq(Byte)
        /\ TakenFrom(SubSeq(bytes, (s - 1) + 1, (s - 1) + (i - (s - 1))), bytes, s - 1, i - (s - 1))
    <3> DEFINE a == s - 1
               k == i - (s - 1)
    <3>1. a \in Nat /\ k \in Nat /\ a + k <= Len(bytes)
      BY <2>4
    <3> HIDE DEF a, k
    <3>2. SubSeq(bytes, a + 1, a + k) \in Seq(Byte) /\ TakenFrom(SubSeq(bytes, a + 1, a + k), bytes, a, k)
      BY <3>1, TakeIs
    <3> QED BY <3>2 DEF a, k
  <2>6. r \in Seq(Byte) /\ Len(r) = i - (s - 1)
    BY <2>4, <2>5 DEF TakenFrom
  <2>7. /\ op.kind = "BulkBytes" /\ op.off = off + s - 1 /\ op.n = Len(r) /\ op.bytes = r
        /\ op = [kind |-> "BulkBytes", off |-> off + s - 1, n |-> Len(r), bytes |-> r]
    BY DEF BulkOp, s
  <2> HIDE DEF op, r
  <2>8. op \in BulkOps
    BY <2>4, <2>6, <2>7 DEF BulkOps
  <2>9. op.n > 0 /\ off <= op.off /\ op.off + op.n <= off + m
    <3>1. i <= m /\ m \in Nat /\ off \in Nat /\ s \in Nat /\ i \in Nat
      BY <1>0, <2>4
    <3> QED BY <2>4, <2>6, <2>7, <3>1
  <2>10. op.n = Len(op.bytes)
    BY <2>7
  <2>11. op \in Inner(off, m)
    BY <2>8, <2>9, <2>10 DEF Inner
  <2> QED BY <2>11 DEF op, r, s
<1>2. w = CHOOSE g : Is(g)
  BY Zenon DEF ChangedUpTo
<1> HIDE DEF m, ids, diff, Start, Run, Ends, X, w
<1>3. ASSUME NEW i \in 1..m, NEW x \in X PROVE (IF Ends(i) THEN Append(x, Run(i)) ELSE x) \in X
  <2>1. ASSUME Ends(i) PROVE Append(x, Run(i)) \in X
    <3>1. Run(i) \in Inner(off, m)
      BY <1>1, <2>1 DEF Ends
    <3>2. x \in Seq(Inner(off, m))
      BY DEF X, m
    <3> QED BY <3>1, <3>2 DEF X, m
  <2> QED BY <2>1
<1>4. step \in [1..m -> [X -> X]]
  BY <1>3
<1>5. ASSUME NEW i \in 1..m, NEW x \in X PROVE step[i][x] = IF Ends(i) THEN Append(x, Run(i)) ELSE x
  OBVIOUS
<1> HIDE DEF step
<1>6. PICK f \in [0..m -> X] : Repeats(f, m, <<>>, step)
  BY <1>0, <1>4, Recursion
<1>7. f[0] = <<>> /\ \A i \in 1..m : f[i] = IF Ends(i) THEN Append(f[i - 1], Run(i)) ELSE f[i - 1]
  <2>1. ASSUME NEW i \in 1..m PROVE f[i] = IF Ends(i) THEN Append(f[i - 1], Run(i)) ELSE f[i - 1]
    <3>1. f[i - 1] \in X
      BY <1>0
    <3> QED BY <1>5, <1>6, <3>1 DEF Repeats
  <2> QED BY <1>6, <2>1 DEF Repeats
<1>8. Is(f)
  <2>1. \A i \in 0..m : i # 0 => i \in 1..m
    BY <1>0
  <2> QED BY <1>7, <2>1
<1>9. Is(w)
  <2> HIDE DEF Is
  <2> QED BY <1>2, <1>8, Zenon
<1>10. /\ w = [i \in 0..m |-> w[i]] /\ w[0] = <<>>
       /\ \A i \in 1..m : w[i] = IF Ends(i) THEN Append(w[i - 1], Run(i)) ELSE w[i - 1]
  <2>1. 0 \in 0..m /\ \A i \in 1..m : i \in 0..m /\ i # 0
    BY <1>0
  <2> QED BY <1>9, <2>1
<1> HIDE DEF Is
<1>11. w = f
  <2>1. \A i \in 1..m : f[i - 1] = w[i - 1] => f[i] = w[i]
    BY <1>7, <1>10
  <2>2. GoOnAlike(m, f, w)
    BY <1>7, <1>10, <2>1 DEF GoOnAlike
  <2> QED BY <1>0, <2>2, SameWalk
<1> QED BY <1>10, <1>11 DEF m, ids, diff, Start, Run, Ends, X, w

LEMMA ChangedAre ==
    ASSUME NEW n, NEW d \in Docs(n), NEW off \in Nat, off <= DocLen(d), NEW bytes \in Seq(Byte)
    PROVE  ChangedRuns(d, off, bytes) \in Seq(Inner(off, Len(Applied(d, off, bytes))))
<1> DEFINE m == Len(CellsAt(d, off, Len(bytes)))
<1>1. m = Len(Applied(d, off, bytes))
  BY AppliedIs
<1>2. ChangedUpTo(d, off, bytes) \in [0..m -> Seq(Inner(off, m))]
  BY ChangedWalk
<1>3. m \in 0..m
  BY DocIs, CellsAtIs
<1>4. ChangedRuns(d, off, bytes) = ChangedUpTo(d, off, bytes)[m]
  BY DEF ChangedRuns
<1> HIDE DEF m
<1> QED BY <1>1, <1>2, <1>3, <1>4

(***************************************************************************)
(* The edits of the execution layer                                        *)
(***************************************************************************)

LEMMA ShownIs ==
    ASSUME NEW n, NEW d \in Docs(n), NEW x \in 1..n
    PROVE  Shown(d, x) \in Byte /\ d.base[x] \in Byte
<1>1. d.base \in Seq(Byte) /\ n \in Nat /\ n <= Len(d.base) /\ d.repl \in Partial(1..n, Byte)
  BY DocIs
<1>2. d.base[x] \in Byte
  BY <1>1
<1>3. \A y \in DOMAIN d.repl : d.repl[y] \in Byte
  BY <1>1, PartialIs
<1> QED BY <1>2, <1>3 DEF Shown

LEMMA AgreeOver ==
    ASSUME NEW S, NEW V, NEW f \in Partial(S, V), NEW g \in Partial(S, V), NEW ids,
           DOMAIN g \subseteq ids
    PROVE  AgreeOff(f, Over(f, g), ids) /\ AgreeOff(Over(f, g), f, ids)
<1> DEFINE h == Over(f, g)
<1>1. Overlaid(h, f, g)
  BY OverIs
<1> HIDE DEF h
<1> QED BY <1>1 DEF Overlaid, AgreeOff, h

LEMMA ReplSlots ==
    ASSUME NEW n, NEW d \in Docs(n), NEW repl \in Partial(1..n, Byte)
    PROVE  [d EXCEPT !.repl = repl] = Slots(d, d.tomb, repl)
BY ReplDoc DEF Slots

LEMMA OverwriteEdits ==
    ASSUME NEW n, NEW d \in Docs(n), NEW off \in Nat, off <= DocLen(d), NEW bytes \in Seq(Byte),
           OverwriteBytes(d, off, bytes).ok
    PROVE  /\ Edits(n, d, OverwriteBytes(d, off, bytes).ops, OverwriteBytes(d, off, bytes).doc)
           /\ OverwriteBytes(d, off, bytes).n \in Nat
<1> DEFINE m == Len(Applied(d, off, bytes))
           ids == IdsAt(d, off, m)
           runs == ChangedRuns(d, off, bytes)
           after == ApplyOps(d, runs).doc
           ops == IF Pristine(d, ids) THEN runs ELSE PatchOver(d, after, off, m)
<1>0. m \in Nat /\ off + m <= DocLen(d)
  BY AppliedIs
<1>1. runs \in Seq(Inner(off, m))
  BY ChangedAre
<1>2. OverwriteBytes(d, off, bytes) =
        IF ids \cap d.tomb # {} THEN Refused(d) ELSE Edited(after, ops, m)
  BY DEF OverwriteBytes
<1>3. OverwriteBytes(d, off, bytes) = Edited(after, ops, m)
  <2> HIDE DEF ids, after, ops, m
  <2> QED BY <1>2 DEF Refused
<1>4. /\ OverwriteBytes(d, off, bytes).ops = ops /\ OverwriteBytes(d, off, bytes).doc = after
      /\ OverwriteBytes(d, off, bytes).n = m
  <2> HIDE DEF after, ops, m
  <2> QED BY <1>3 DEF Edited
<1> HIDE DEF m, runs
<1>5. CASE Pristine(d, ids)
  <2>1. DOMAIN d.repl \cap IdsAt(d, off, m) = {}
    BY <1>5 DEF Pristine
  <2>2. Edits(n, d, runs, after)
    BY <1>0, <1>1, <2>1, RunsEdit
  <2> HIDE DEF after, ids
  <2> QED BY <1>0, <1>4, <1>5, <2>2
<1>6. CASE ~ Pristine(d, ids)
  <2> DEFINE D == ids \cup RunIds(d, runs, Len(runs))
  <2>1. OnRun(n, d, ids, D, after)
    BY <1>0, <1>1, RunsApplied
  <2> HIDE DEF D, after, ids
  <2>2. PICK repl \in Partial(1..n, Byte) :
            /\ after = Slots(d, d.tomb, repl)
            /\ AgreeOff(d.repl, repl, ids) /\ AgreeOff(repl, d.repl, ids)
    BY <2>1 DEF OnRun
  <2>3. Edits(n, d, PatchOver(d, after, off, m), after)
    BY <1>0, <2>2, PatchEdits DEF ids
  <2> QED BY <1>0, <1>4, <1>6, <2>3
<1> QED BY <1>5, <1>6

LEMMA FillEdits ==
    ASSUME NEW n, NEW d \in Docs(n), NEW off \in Nat, off <= DocLen(d), NEW bytes \in Seq(Byte),
           FillOverwrite(d, off, bytes).ok
    PROVE  /\ Edits(n, d, FillOverwrite(d, off, bytes).ops, FillOverwrite(d, off, bytes).doc)
           /\ FillOverwrite(d, off, bytes).n \in Nat
<1> DEFINE a == Applied(d, off, bytes)
           m == Len(a)
           ids == IdsAt(d, off, m)
           g == LaidRun(d, off, bytes)
           after == Slots(d, d.tomb, Over(d.repl, g))
           ops == IF Pristine(d, ids) THEN <<BulkOp(off, a)>> ELSE PatchOver(d, after, off, m)
<1>0. /\ m \in Nat /\ off + m <= DocLen(d) /\ a \in Seq(Byte)
      /\ m = Len(CellsAt(d, off, Len(bytes))) /\ \A i \in 1..m : a[i] = bytes[i]
      /\ CellsAt(d, off, m) = CellsAt(d, off, Len(bytes))
  BY AppliedIs
<1>a. d.repl \in Partial(1..n, Byte)
  BY DocIs
<1>b. g \in Partial(1..n, Byte) /\ DOMAIN g = ids
  <2>1. g \in Partial(1..n, Byte) /\ DOMAIN g = IdsAt(d, off, Len(bytes))
    BY LaidIs
  <2> HIDE DEF g
  <2> QED BY <1>0, <2>1 DEF IdsAt
<1>c. Over(d.repl, g) \in Partial(1..n, Byte)
  <2> HIDE DEF g
  <2> QED BY <1>a, <1>b, OverIs
<1>d. LaidRun(d, off, a) = g
  <2> DEFINE c == CellsAt(d, off, m)
             At(x) == CHOOSE i \in DOMAIN c : c[i] = x
  <2>1. c \in Seq(1..n)
    BY <1>0, CellsAtIs
  <2>2. LaidRun(d, off, a) = [x \in ToSet(c) |-> a[At(x)]] /\ g = [x \in ToSet(c) |-> bytes[At(x)]]
    BY <1>0 DEF LaidRun
  <2> HIDE DEF c, a, m
  <2>3. ASSUME NEW x \in ToSet(c) PROVE a[At(x)] = bytes[At(x)]
    <3>1. \E i \in DOMAIN c : c[i] = x
      BY DEF ToSet
    <3>2. At(x) \in DOMAIN c
      BY <3>1
    <3>3. At(x) \in 1..m
      BY <1>0, <2>1, <3>2 DEF c
    <3> QED BY <1>0, <3>3
  <2> HIDE DEF At
  <2> QED BY <2>2, <2>3
<1>1. OverlayRun(d, off, bytes) = after
  <2>1. OverlayRun(d, off, bytes) = [d EXCEPT !.repl = Over(d.repl, g)]
    BY DEF OverlayRun, LaidRun
  <2> DEFINE new == Over(d.repl, g)
  <2> HIDE DEF new
  <2>2. new \in Partial(1..n, Byte)
    BY <1>c DEF new
  <2>3. [d EXCEPT !.repl = new] = Slots(d, d.tomb, new)
    BY <2>2, ReplSlots
  <2> QED BY <2>1, <2>3 DEF new
<1>2. FillOverwrite(d, off, bytes) =
        IF ids \cap d.tomb # {} THEN Refused(d) ELSE Edited(after, ops, m)
  <2>1. FillOverwrite(d, off, bytes) =
            IF ids \cap d.tomb # {} THEN Refused(d)
            ELSE Edited(OverlayRun(d, off, bytes),
                        IF Pristine(d, ids) THEN <<BulkOp(off, a)>>
                        ELSE PatchOver(d, OverlayRun(d, off, bytes), off, m), m)
    BY DEF FillOverwrite
  <2> HIDE DEF ids, after, m, a
  <2> QED BY <1>1, <2>1
<1> HIDE DEF g
<1>3. FillOverwrite(d, off, bytes) = Edited(after, ops, m)
  <2> HIDE DEF ids, after, ops, m
  <2> QED BY <1>2 DEF Refused
<1>4. /\ FillOverwrite(d, off, bytes).ops = ops /\ FillOverwrite(d, off, bytes).doc = after
      /\ FillOverwrite(d, off, bytes).n = m
  <2> HIDE DEF after, ops, m
  <2> QED BY <1>3 DEF Edited
<1> HIDE DEF a
<1>5. CASE Pristine(d, ids)
  <2>1. DOMAIN d.repl \cap IdsAt(d, off, m) = {}
    BY <1>5 DEF Pristine
  <2>2. Edits(n, d, <<BulkOp(off, a)>>, after)
    BY <1>0, <1>d, <2>1, BulkEdits
  <2> HIDE DEF after, ids, m
  <2> QED BY <1>0, <1>4, <1>5, <2>2
<1>6. CASE ~ Pristine(d, ids)
  <2> DEFINE new == Over(d.repl, g)
  <2>1. AgreeOff(d.repl, new, ids) /\ AgreeOff(new, d.repl, ids)
    BY <1>a, <1>b, AgreeOver
  <2> HIDE DEF new, m
  <2>2. new \in Partial(1..n, Byte)
    BY <1>c DEF new
  <2>3. Edits(n, d, PatchOver(d, Slots(d, d.tomb, new), off, m), Slots(d, d.tomb, new))
    BY <1>0, <2>1, <2>2, PatchEdits
  <2> HIDE DEF ids
  <2> QED BY <1>0, <1>4, <1>6, <2>3 DEF new
<1> QED BY <1>5, <1>6

\* A range that is cut at the end of the document.
LEMMA TrimIs ==
    ASSUME NEW n, NEW d \in Docs(n), NEW off \in Nat, off <= DocLen(d), NEW k \in Nat
    PROVE  /\ Len(CellsAt(d, off, k)) \in Nat /\ off + Len(CellsAt(d, off, k)) <= DocLen(d)
           /\ CellsAt(d, off, Len(CellsAt(d, off, k))) = CellsAt(d, off, k)
           /\ IdsAt(d, off, Len(CellsAt(d, off, k))) = IdsAt(d, off, k)
<1> DEFINE c == CellsAt(d, off, k)
           m == Len(c)
<1>0. DocLen(d) \in Nat
  BY DocIs
<1>1. m \in Nat /\ m <= k /\ m = Least(off + k, DocLen(d)) - off
  BY <1>0, CellsAtIs
<1> HIDE DEF c, m
<1>2. off + m <= DocLen(d) /\ Least(off + m, DocLen(d)) = Least(off + k, DocLen(d))
  BY <1>0, <1>1 DEF Least
<1>3. CellsAt(d, off, m) = c
  BY <1>2 DEF CellsAt, c
<1>4. IdsAt(d, off, m) = IdsAt(d, off, k)
  BY <1>3 DEF IdsAt, c
<1> QED BY <1>1, <1>2, <1>3, <1>4 DEF c, m

XorDoc(d, ids) ==
    Slots(d, d.tomb, Over(d.repl, [x \in ids \ d.tomb |-> Flipped(Shown(d, x))]))

\* Slots of ids are flipped, and no other.
Xored(n, d, ids, e) ==
    \E repl \in Partial(1..n, Byte) :
        /\ e = Slots(d, d.tomb, repl)
        /\ AgreeOff(d.repl, repl, ids) /\ AgreeOff(repl, d.repl, ids)

LEMMA XorDocIs ==
    ASSUME NEW n, NEW d \in Docs(n), NEW ids \in SUBSET (1..n)
    PROVE  /\ Xored(n, d, ids, XorDoc(d, ids))
           /\ [d EXCEPT !.repl = Over(@, [x \in ids \ d.tomb |-> Flipped(Shown(d, x))])]
                = XorDoc(d, ids)
<1> DEFINE g == [x \in ids \ d.tomb |-> Flipped(Shown(d, x))]
           new == Over(d.repl, g)
<1>0. d.repl \in Partial(1..n, Byte) /\ ids \ d.tomb \in SUBSET (1..n)
  BY DocIs
<1>1. \A x \in ids \ d.tomb : Flipped(Shown(d, x)) \in Byte
  BY <1>0, ShownIs, FlippedIs
<1>2. g \in [ids \ d.tomb -> Byte]
  BY <1>1
<1>3. g \in Partial(1..n, Byte) /\ DOMAIN g \subseteq ids
  BY <1>0, <1>2, IsPartial
<1>4. XorDoc(d, ids) = Slots(d, d.tomb, new)
  BY DEF XorDoc
<1>5. [d EXCEPT !.repl = Over(@, [x \in ids \ d.tomb |-> Flipped(Shown(d, x))])]
        = [d EXCEPT !.repl = new]
  OBVIOUS
<1> HIDE DEF g
<1>6. new \in Partial(1..n, Byte)
  BY <1>0, <1>3, OverIs
<1>7. AgreeOff(d.repl, new, ids) /\ AgreeOff(new, d.repl, ids)
  BY <1>0, <1>3, AgreeOver
<1> HIDE DEF new
<1>8. [d EXCEPT !.repl = new] = Slots(d, d.tomb, new)
  BY <1>6, ReplSlots
<1>9. Xored(n, d, ids, Slots(d, d.tomb, new))
  BY <1>6, <1>7 DEF Xored
<1> QED BY <1>4, <1>5, <1>8, <1>9

XorRecord(d, off, m) ==
    IF Pristine(d, IdsAt(d, off, m)) THEN <<XorOp(off, Cardinality(IdsAt(d, off, m)))>>
    ELSE PatchOver(d, XorDoc(d, IdsAt(d, off, m)), off, m)

XorCount(d, off, m) ==
    IF Pristine(d, IdsAt(d, off, m)) THEN Cardinality(IdsAt(d, off, m))
    ELSE Cardinality(IdsAt(d, off, m) \ d.tomb)

LEMMA XorRangeIs ==
    ASSUME NEW n, NEW d \in Docs(n), NEW off \in Nat, NEW m \in Nat, XorRange(d, off, m).ok
    PROVE  /\ XorRange(d, off, m).doc = XorDoc(d, IdsAt(d, off, m))
           /\ XorRange(d, off, m).ops = XorRecord(d, off, m)
           /\ XorRange(d, off, m).n = XorCount(d, off, m)
           /\ Pristine(d, IdsAt(d, off, m)) \/ off + m <= DocLen(d)
<1> DEFINE ids == IdsAt(d, off, m)
           after == XorDoc(d, ids)
           x == XorRange(d, off, m)
<1>1. ids \in SUBSET (1..n)
  BY IdsAtIs
<1>2. [d EXCEPT !.repl = Over(@, [y \in ids \ d.tomb |-> Flipped(Shown(d, y))])] = after
  <2> HIDE DEF ids, after
  <2>1. [d EXCEPT !.repl = Over(@, [y \in ids \ d.tomb |-> Flipped(Shown(d, y))])]
          = XorDoc(d, ids)
    BY <1>1, XorDocIs
  <2> QED BY <2>1 DEF after
<1>3. x = IF Pristine(d, ids)
          THEN Edited(after, <<XorOp(off, Cardinality(ids))>>, Cardinality(ids))
          ELSE IF off + m > DocLen(d) THEN Refused(d)
          ELSE Edited(after, PatchOver(d, after, off, m), Cardinality(ids \ d.tomb))
  <2>1. x = IF Pristine(d, ids)
            THEN Edited([d EXCEPT !.repl =
                            Over(@, [y \in ids \ d.tomb |-> Flipped(Shown(d, y))])],
                        <<XorOp(off, Cardinality(ids))>>, Cardinality(ids))
            ELSE IF off + m > DocLen(d) THEN Refused(d)
            ELSE Edited([d EXCEPT !.repl =
                            Over(@, [y \in ids \ d.tomb |-> Flipped(Shown(d, y))])],
                        PatchOver(d, [d EXCEPT !.repl =
                            Over(@, [y \in ids \ d.tomb |-> Flipped(Shown(d, y))])], off, m),
                        Cardinality(ids \ d.tomb))
    BY Zenon DEF XorRange
  <2> HIDE DEF ids, after, x
  <2> QED BY <1>2, <2>1
<1>4. x.ok
  OBVIOUS
<1> HIDE DEF ids, after, x
<1>5. DocLen(d) \in Nat
  BY DocIs
<1>6. CASE Pristine(d, ids)
  <2>1. x = Edited(after, <<XorOp(off, Cardinality(ids))>>, Cardinality(ids))
    BY <1>3, <1>6
  <2>2. x.doc = after /\ x.ops = <<XorOp(off, Cardinality(ids))>> /\ x.n = Cardinality(ids)
    BY <2>1 DEF Edited
  <2> QED BY <1>6, <2>2 DEF ids, after, x, XorRecord, XorCount
<1>7. CASE ~ Pristine(d, ids)
  <2>1. ~ (off + m > DocLen(d))
    BY <1>3, <1>4, <1>7 DEF Refused
  <2>2. x = Edited(after, PatchOver(d, after, off, m), Cardinality(ids \ d.tomb))
    BY <1>3, <1>7, <2>1
  <2>3. x.doc = after /\ x.ops = PatchOver(d, after, off, m) /\ x.n = Cardinality(ids \ d.tomb)
    BY <2>2 DEF Edited
  <2>4. off + m <= DocLen(d)
    BY <1>5, <2>1
  <2> QED BY <1>7, <2>3, <2>4 DEF ids, after, x, XorRecord, XorCount
<1> QED BY <1>6, <1>7

LEMMA XorRangeType ==
    ASSUME NEW n, NEW d \in Docs(n), NEW off \in Nat, off <= DocLen(d), NEW m \in Nat,
           XorRange(d, off, m).ok
    PROVE  /\ XorRange(d, off, m).doc \in Docs(n) /\ XorRange(d, off, m).ops \in OpLists(n)
           /\ XorRange(d, off, m).doc.base = d.base /\ XorRange(d, off, m).doc.cells = d.cells
           /\ XorRange(d, off, m).n \in Nat
<1> DEFINE ids == IdsAt(d, off, m)
           after == XorDoc(d, ids)
<1>0. /\ XorRange(d, off, m).doc = after /\ XorRange(d, off, m).ops = XorRecord(d, off, m)
      /\ XorRange(d, off, m).n = XorCount(d, off, m)
      /\ Pristine(d, ids) \/ off + m <= DocLen(d)
  BY XorRangeIs
<1>1. ids \in SUBSET (1..n) /\ IsFiniteSet(ids) /\ IsFiniteSet(ids \ d.tomb)
  <2>1. ids \in SUBSET (1..n)
    BY IdsAtIs
  <2>2. IsFiniteSet(1..n)
    <3>1. n \in Int /\ 1 \in Int
      BY DocIs
    <3> QED BY <3>1, FS_Interval
  <2> HIDE DEF ids
  <2> QED BY <2>1, <2>2, FS_Subset
<1>2. Cardinality(ids) \in Nat /\ Cardinality(ids \ d.tomb) \in Nat
  <2> HIDE DEF ids
  <2> QED BY <1>1, FS_CardinalityType
<1>3. PICK repl \in Partial(1..n, Byte) :
        after = Slots(d, d.tomb, repl) /\ AgreeOff(d.repl, repl, ids) /\ AgreeOff(repl, d.repl, ids)
  <2> HIDE DEF ids, after
  <2>1. Xored(n, d, ids, XorDoc(d, ids))
    BY <1>1, XorDocIs
  <2> QED BY <2>1 DEF after, Xored
<1>4. after \in Docs(n) /\ after.base = d.base /\ after.cells = d.cells
  <2>1. after \in Docs(n)
    <3> HIDE DEF after
    <3> QED BY <1>3, DocIs, SlotsIs
  <2> HIDE DEF after
  <2> QED BY <1>3, <2>1 DEF Slots
<1>5. XorRecord(d, off, m) \in OpLists(n)
  <2>1. CASE Pristine(d, ids)
    <3> DEFINE op == XorOp(off, Cardinality(ids))
    <3>1. op \in XorOps
      <4> HIDE DEF ids
      <4> QED BY <1>2 DEF XorOp, XorOps
    <3>2. op \in Ops(n)
      <4> HIDE DEF op
      <4>1. op \in SlotOps(n)
        BY <3>1, Zenon DEF SlotOps
      <4> QED BY <4>1, SlotKind
    <3>3. XorRecord(d, off, m) = <<op>>
      BY <2>1 DEF XorRecord
    <3> HIDE DEF op
    <3>4. <<op>> \in Seq(Ops(n)) /\ Len(<<op>>) = 1
      BY <3>2
    <3> QED BY <3>3, <3>4 DEF OpLists
  <2>2. CASE ~ Pristine(d, ids)
    <3>1. Edits(n, d, PatchOver(d, after, off, m), after)
      <4> HIDE DEF after
      <4> QED BY <1>0, <1>3, <2>2, PatchEdits DEF ids
    <3> QED BY <2>2, <3>1 DEF XorRecord, Edits
  <2> QED BY <2>1, <2>2
<1> HIDE DEF after
<1> QED BY <1>0, <1>2, <1>4, <1>5 DEF XorCount, ids

LEMMA XorRangeEdits ==
    ASSUME NEW n, NEW d \in Docs(n), NEW off \in Nat, off <= DocLen(d), NEW m \in Nat,
           XorRange(d, off, m).ok, Injective(d.cells)
    PROVE  Edits(n, d, XorRange(d, off, m).ops, XorRange(d, off, m).doc)
<1> DEFINE ids == IdsAt(d, off, m)
           after == XorDoc(d, ids)
<1>0. /\ XorRange(d, off, m).doc = after /\ XorRange(d, off, m).ops = XorRecord(d, off, m)
      /\ Pristine(d, ids) \/ off + m <= DocLen(d)
  BY XorRangeIs
<1>1. ids \in SUBSET (1..n)
  BY IdsAtIs
<1>2. PICK repl \in Partial(1..n, Byte) :
        after = Slots(d, d.tomb, repl) /\ AgreeOff(d.repl, repl, ids) /\ AgreeOff(repl, d.repl, ids)
  <2> HIDE DEF ids, after
  <2>1. Xored(n, d, ids, XorDoc(d, ids))
    BY <1>1, XorDocIs
  <2> QED BY <2>1 DEF after, Xored
<1>3. CASE Pristine(d, ids)
  <2> DEFINE k == Len(CellsAt(d, off, m))
  <2>1. k \in Nat /\ off + k <= DocLen(d) /\ IdsAt(d, off, k) = ids
    BY TrimIs
  <2> HIDE DEF k
  <2>2. Cardinality(ids) = k
    BY <2>1, CellCount
  <2>3. DOMAIN d.repl \cap IdsAt(d, off, k) = {} /\ ids \cap d.tomb = {}
    BY <1>3, <2>1 DEF Pristine
  <2>4. Edits(n, d, <<XorOp(off, k)>>,
              Slots(d, d.tomb, Over(d.repl, FlippedRun(d, IdsAt(d, off, k)))))
    BY <2>1, <2>3, XorEdits
  <2>5. Slots(d, d.tomb, Over(d.repl, FlippedRun(d, IdsAt(d, off, k)))) = after
    <3> HIDE DEF ids
    <3>1. ids \ d.tomb = ids /\ \A x \in ids : Shown(d, x) = d.base[x]
      BY <1>3 DEF Pristine, Shown
    <3>2. [x \in ids \ d.tomb |-> Flipped(Shown(d, x))] = FlippedRun(d, ids)
      BY <3>1 DEF FlippedRun
    <3> QED BY <2>1, <3>2 DEF XorDoc
  <2>6. XorRecord(d, off, m) = <<XorOp(off, k)>>
    BY <1>3, <2>2 DEF XorRecord
  <2> HIDE DEF after, ids
  <2> QED BY <1>0, <2>4, <2>5, <2>6
<1>4. CASE ~ Pristine(d, ids)
  <2>1. Edits(n, d, PatchOver(d, after, off, m), after)
    <3> HIDE DEF after
    <3> QED BY <1>0, <1>2, <1>4, PatchEdits DEF ids
  <2>2. XorRecord(d, off, m) = PatchOver(d, after, off, m)
    BY <1>4 DEF XorRecord
  <2> HIDE DEF after, ids
  <2> QED BY <1>0, <2>1, <2>2
<1> QED BY <1>3, <1>4

(***************************************************************************)
(* A longer add buffer                                                     *)
(*                                                                         *)
(* The documents before an insertion do not name the cell it allocates, so *)
(* they can be given the buffer, and the replacement, that it brings.      *)
(***************************************************************************)

Extended(d, base, f) ==
    [base |-> base, cells |-> d.cells, tomb |-> d.tomb, repl |-> Over(d.repl, f)]

\* base goes on from that of d, and f is about cells after the first n.
Extension(n, d, k, base, f) ==
    /\ k \in Nat /\ n \in Nat /\ n <= k /\ base \in Seq(Byte) /\ k <= Len(base)
    /\ \A x \in 1..n : base[x] = d.base[x]
    /\ f \in Partial(1..k, Byte) /\ DOMAIN f \cap 1..n = {}

LEMMA PartialGrows ==
    ASSUME NEW n \in Nat, NEW k \in Nat, n <= k, NEW V, NEW f \in Partial(1..n, V)
    PROVE  f \in Partial(1..k, V)
<1>1. f \in [DOMAIN f -> V] /\ DOMAIN f \subseteq 1..n
  BY PartialIs
<1>2. DOMAIN f \in SUBSET (1..k)
  BY <1>1
<1> QED BY <1>1, <1>2, IsPartial

LEMMA CellsGrow ==
    ASSUME NEW n \in Nat, NEW k \in Nat, n <= k, NEW s \in Seq(1..n)
    PROVE  s \in Seq(1..k)
<1>1. 1..n \subseteq 1..k
  OBVIOUS
<1>2. Len(s) \in Nat /\ \A i \in 1..Len(s) : s[i] \in 1..k
  BY <1>1
<1> QED BY <1>2

LEMMA ExtendedIs ==
    ASSUME NEW n, NEW d \in Docs(n), NEW k, NEW base, NEW f, Extension(n, d, k, base, f)
    PROVE  /\ Extended(d, base, f) \in Docs(k)
           /\ Overlaid(Extended(d, base, f).repl, d.repl, f)
<1>0. /\ n \in Nat /\ d.cells \in Seq(1..n) /\ d.tomb \in SUBSET (1..n)
      /\ d.repl \in Partial(1..n, Byte)
  BY DocIs
<1>1. k \in Nat /\ n <= k /\ base \in Seq(Byte) /\ k <= Len(base) /\ f \in Partial(1..k, Byte)
  BY DEF Extension
<1>2. d.cells \in Seq(1..k) /\ d.tomb \in SUBSET (1..k)
  BY <1>0, <1>1, CellsGrow
<1>3. d.repl \in Partial(1..k, Byte)
  BY <1>0, <1>1, PartialGrows
<1>4. Over(d.repl, f) \in Partial(1..k, Byte) /\ Overlaid(Over(d.repl, f), d.repl, f)
  BY <1>1, <1>3, OverIs
<1>5. Extended(d, base, f) \in Docs(k)
  BY <1>1, <1>2, <1>4, IsDoc DEF Extended
<1> QED BY <1>4, <1>5 DEF Extended

LEMMA ExtendedShows ==
    ASSUME NEW d, NEW base, NEW f, NEW off, NEW m
    PROVE  /\ Extended(d, base, f).base = base /\ Extended(d, base, f).cells = d.cells
           /\ Extended(d, base, f).tomb = d.tomb
           /\ Extended(d, base, f).repl = Over(d.repl, f)
           /\ DocLen(Extended(d, base, f)) = DocLen(d)
           /\ CellsAt(Extended(d, base, f), off, m) = CellsAt(d, off, m)
           /\ IdsAt(Extended(d, base, f), off, m) = IdsAt(d, off, m)
<1>1. /\ Extended(d, base, f).base = base /\ Extended(d, base, f).cells = d.cells
      /\ Extended(d, base, f).tomb = d.tomb /\ Extended(d, base, f).repl = Over(d.repl, f)
  BY DEF Extended
<1> QED BY <1>1 DEF CellsAt, IdsAt, DocLen

\* Replacements of the first cells and of the later ones do not meet.
LEMMA WithoutOver ==
    ASSUME NEW n, NEW k, NEW d, NEW base, NEW f, Extension(n, d, k, base, f),
           NEW r \in Partial(1..n, Byte), NEW ids \in SUBSET (1..n)
    PROVE  Without(Over(r, f), ids) = Over(Without(r, ids), f)
<1> DEFINE h == Over(r, f)
           w == Without(r, ids)
           a == Without(h, ids)
           b == Over(w, f)
<1>0. /\ n \in Nat /\ k \in Nat /\ n <= k /\ f \in Partial(1..k, Byte) /\ DOMAIN f \cap 1..n = {}
  BY DEF Extension
<1>1. r \in Partial(1..k, Byte)
  BY <1>0, PartialGrows
<1>2. h \in Partial(1..k, Byte) /\ Overlaid(h, r, f)
  BY <1>0, <1>1, OverIs
<1>3. w \in Partial(1..k, Byte) /\ SameOn(w, r, DOMAIN r \ ids)
  BY <1>1, WithoutIs
<1> HIDE DEF h, w
<1>4. a \in Partial(1..k, Byte) /\ SameOn(a, h, DOMAIN h \ ids)
  BY <1>2, WithoutIs
<1>5. b \in Partial(1..k, Byte) /\ Overlaid(b, w, f)
  BY <1>0, <1>3, OverIs
<1> HIDE DEF a, b
<1>6. DOMAIN a = DOMAIN b /\ \A x \in DOMAIN a : a[x] = b[x]
  BY <1>0, <1>2, <1>3, <1>4, <1>5 DEF SameOn, Overlaid
<1> QED BY <1>4, <1>5, <1>6, SamePartial DEF a, b, h, w

LEMMA OverOver ==
    ASSUME NEW n, NEW k, NEW d, NEW base, NEW f, Extension(n, d, k, base, f),
           NEW r \in Partial(1..n, Byte), NEW g \in Partial(1..n, Byte)
    PROVE  Over(Over(r, f), g) = Over(Over(r, g), f)
<1> DEFINE h == Over(r, f)
           w == Over(r, g)
           a == Over(h, g)
           b == Over(w, f)
<1>0. /\ n \in Nat /\ k \in Nat /\ n <= k /\ f \in Partial(1..k, Byte) /\ DOMAIN f \cap 1..n = {}
  BY DEF Extension
<1>1. r \in Partial(1..k, Byte) /\ g \in Partial(1..k, Byte)
  BY <1>0, PartialGrows
<1>a. DOMAIN f \cap DOMAIN g = {}
  BY <1>0, PartialIs
<1>2. h \in Partial(1..k, Byte) /\ Overlaid(h, r, f)
  BY <1>0, <1>1, OverIs
<1>3. w \in Partial(1..k, Byte) /\ Overlaid(w, r, g)
  BY <1>1, OverIs
<1> HIDE DEF h, w
<1>4. a \in Partial(1..k, Byte) /\ Overlaid(a, h, g)
  BY <1>1, <1>2, OverIs
<1>5. b \in Partial(1..k, Byte) /\ Overlaid(b, w, f)
  BY <1>0, <1>3, OverIs
<1> HIDE DEF a, b
<1>6. DOMAIN a = DOMAIN b
  BY <1>2, <1>3, <1>4, <1>5 DEF Overlaid
<1>7. \A x \in DOMAIN a : a[x] = b[x]
  BY <1>a, <1>2, <1>3, <1>4, <1>5, <1>6 DEF Overlaid
<1> QED BY <1>4, <1>5, <1>6, <1>7, SamePartial DEF a, b, h, w

\* What an operation on slots does, it does to the extended document.
SlotsFollow(d, x, f, op) ==
    /\ UndoneRepl(x, op) = Over(UndoneRepl(d, op), f)
    /\ AppliedRepl(x, op) = Over(AppliedRepl(d, op), f)
    /\ UndoneTomb(x, op) = UndoneTomb(d, op) /\ AppliedTomb(x, op) = AppliedTomb(d, op)

LEMMA ExtendedRepl ==
    ASSUME NEW n, NEW d \in Docs(n), NEW k, NEW base, NEW f, Extension(n, d, k, base, f),
           NEW op \in SlotOps(n)
    PROVE  SlotsFollow(d, Extended(d, base, f), f, op)
<1> DEFINE x == Extended(d, base, f)
           Same == UndoneRepl(x, op) = Over(UndoneRepl(d, op), f)
                   /\ AppliedRepl(x, op) = Over(AppliedRepl(d, op), f)
<1>0. d.repl \in Partial(1..n, Byte) /\ d.base \in Seq(Byte) /\ n \in Nat /\ n <= Len(d.base)
  BY DocIs
<1>1. op \in Ops(n) /\ op.kind # "Insert" /\ op.kind # "RealDelete"
  BY SlotKind
<1>2. x.tomb = d.tomb /\ x.repl = Over(d.repl, f) /\ x.base = base /\ x.cells = d.cells
  BY ExtendedShows
<1>a. \A off, m : CellsAt(x, off, m) = CellsAt(d, off, m) /\ IdsAt(x, off, m) = IdsAt(d, off, m)
  BY ExtendedShows
<1> HIDE DEF x
<1>3. UndoneTomb(x, op) = UndoneTomb(d, op) /\ AppliedTomb(x, op) = AppliedTomb(d, op)
  BY <1>2 DEF UndoneTomb, AppliedTomb
<1>4. ASSUME op \in TombOps(n), op.kind = "Tombstone" PROVE Same
  BY <1>2, <1>4 DEF UndoneRepl, AppliedRepl
<1>5. ASSUME op \in ReplaceOps(n), op.kind = "ReplaceBytes" PROVE Same
  <2>1. /\ op.before \in Partial(1..n, Byte) /\ op.after \in Partial(1..n, Byte)
        /\ op.ids \in SUBSET (1..n)
    BY <1>5 DEF ReplaceOps
  <2> DEFINE w == Without(d.repl, op.ids)
  <2>2. w \in Partial(1..n, Byte)
    BY <1>0, WithoutIs
  <2>3. Without(x.repl, op.ids) = Over(w, f)
    BY <1>0, <1>2, <2>1, WithoutOver
  <2> HIDE DEF w
  <2>4. Over(Over(w, f), op.before) = Over(Over(w, op.before), f)
        /\ Over(Over(w, f), op.after) = Over(Over(w, op.after), f)
    BY <2>1, <2>2, OverOver
  <2> QED BY <1>5, <2>3, <2>4 DEF UndoneRepl, AppliedRepl, w
<1>6. ASSUME op \in BulkOps, op.kind = "BulkBytes" PROVE Same
  <2>1. op.off \in Nat /\ op.n \in Nat /\ op.bytes \in Seq(Byte)
    BY <1>6 DEF BulkOps
  <2> DEFINE ids == IdsAt(d, op.off, op.n)
             g == LaidRun(d, op.off, op.bytes)
  <2>2. ids \in SUBSET (1..n)
    BY <2>1, IdsAtIs
  <2>3. g \in Partial(1..n, Byte)
    BY <2>1, LaidIs
  <2>a. IdsAt(x, op.off, op.n) = ids
    BY <1>a
  <2>b. CellsAt(x, op.off, Len(op.bytes)) = CellsAt(d, op.off, Len(op.bytes))
    BY <1>a
  <2>c. LaidRun(x, op.off, op.bytes) = g
    BY <2>b DEF LaidRun
  <2> HIDE DEF ids, g
  <2>5. Without(x.repl, ids) = Over(Without(d.repl, ids), f)
    BY <1>0, <1>2, <2>2, WithoutOver
  <2>6. Over(x.repl, g) = Over(Over(d.repl, g), f)
    BY <1>0, <1>2, <2>3, OverOver
  <2> QED BY <1>6, <2>a, <2>c, <2>5, <2>6 DEF UndoneRepl, AppliedRepl, ids, g
<1>7. ASSUME op \in XorOps, op.kind = "BulkXor" PROVE Same
  <2>1. op.off \in Nat /\ op.n \in Nat
    BY <1>7 DEF XorOps
  <2> DEFINE ids == IdsAt(d, op.off, op.n)
             g == FlippedRun(d, ids)
  <2>2. ids \in SUBSET (1..n)
    BY <2>1, IdsAtIs
  <2>3. IdsAt(x, op.off, op.n) = ids
    BY <1>a
  <2> HIDE DEF ids
  <2>4. g \in Partial(1..n, Byte)
    BY <2>2, FlippedRunIs
  <2>5. FlippedRun(x, ids) = g
    <3>1. \A y \in ids : x.base[y] = d.base[y]
      BY <1>2, <2>2 DEF Extension
    <3> QED BY <3>1 DEF FlippedRun
  <2> HIDE DEF g
  <2>6. Without(x.repl, ids) = Over(Without(d.repl, ids), f)
    BY <1>0, <1>2, <2>2, WithoutOver
  <2>7. Over(x.repl, g) = Over(Over(d.repl, g), f)
    BY <1>0, <1>2, <2>4, OverOver
  <2> QED BY <1>7, <2>3, <2>5, <2>6, <2>7 DEF UndoneRepl, AppliedRepl, ids, g
<1>8. ASSUME op \in PatchOps(n), op.kind = "ReplacePatch" PROVE Same
  <2>1. /\ op.before \in Partial(1..n, Byte) /\ op.after \in Partial(1..n, Byte)
        /\ op.off \in Nat /\ op.n \in Nat
    BY <1>8 DEF PatchOps
  <2> DEFINE ids == IdsAt(d, op.off, op.n)
             w == Without(d.repl, ids)
  <2>2. ids \in SUBSET (1..n)
    BY <2>1, IdsAtIs
  <2>a. IdsAt(x, op.off, op.n) = ids
    BY <1>a
  <2> HIDE DEF ids
  <2>3. w \in Partial(1..n, Byte)
    BY <1>0, WithoutIs
  <2>b. Without(x.repl, ids) = Over(w, f)
    BY <1>0, <1>2, <2>2, WithoutOver
  <2> HIDE DEF w
  <2>4. Over(Over(w, f), op.before) = Over(Over(w, op.before), f)
        /\ Over(Over(w, f), op.after) = Over(Over(w, op.after), f)
    BY <2>1, <2>3, OverOver
  <2> QED BY <1>8, <2>a, <2>b, <2>4 DEF UndoneRepl, AppliedRepl, w, ids
<1> HIDE DEF Same
<1>9. Same
  BY <1>1, <1>4, <1>5, <1>6, <1>7, <1>8, OpIs, Zenon
<1> QED BY <1>3, <1>9 DEF Same, SlotsFollow, x

LEMMA OpsGrow ==
    ASSUME NEW n \in Nat, NEW k \in Nat, n <= k
    PROVE  /\ \A op \in Ops(n) : op \in Ops(k)
           /\ \A op \in SlotOps(n) : op \in SlotOps(k)
<1>1. 1..n \subseteq 1..k /\ SUBSET (1..n) \subseteq SUBSET (1..k)
  OBVIOUS
<1>2. Seq(1..n) \subseteq Seq(1..k) /\ Partial(1..n, Byte) \subseteq Partial(1..k, Byte)
  BY CellsGrow, PartialGrows
<1>3. ASSUME NEW op \in SlotOps(n) PROVE op \in SlotOps(k)
  <2>1. op \in TombOps(n) => op \in TombOps(k)
    BY <1>1 DEF TombOps
  <2>2. op \in ReplaceOps(n) => op \in ReplaceOps(k)
    BY <1>1, <1>2 DEF ReplaceOps
  <2>3. op \in PatchOps(n) => op \in PatchOps(k)
    BY <1>1, <1>2 DEF PatchOps
  <2> QED BY <2>1, <2>2, <2>3 DEF SlotOps
<1>4. ASSUME NEW op \in CellOps(n) PROVE op \in CellOps(k)
  BY <1>2 DEF CellOps
<1> QED BY <1>3, <1>4 DEF Ops

LEMMA DocsGrow ==
    ASSUME NEW n, NEW d \in Docs(n), NEW k \in Nat, n <= k, k <= Len(d.base)
    PROVE  d \in Docs(k)
<1>1. /\ n \in Nat /\ d.base \in Seq(Byte) /\ d.cells \in Seq(1..n) /\ d.tomb \in SUBSET (1..n)
      /\ d.repl \in Partial(1..n, Byte)
      /\ d = [base |-> d.base, cells |-> d.cells, tomb |-> d.tomb, repl |-> d.repl]
  BY DocIs
<1>2. d.cells \in Seq(1..k)
  BY <1>1, CellsGrow
<1>3. d.repl \in Partial(1..k, Byte)
  BY <1>1, PartialGrows
<1>4. d.tomb \in SUBSET (1..k)
  BY <1>1
<1> QED BY <1>1, <1>2, <1>3, <1>4, IsDoc

\* Nothing of the longer buffer shows.
LEMMA ExtendedDisplay ==
    ASSUME NEW n, NEW d \in Docs(n), NEW k, NEW base, NEW f, Extension(n, d, k, base, f)
    PROVE  Display(Extended(d, base, f)) = Display(d)
<1> DEFINE x == Extended(d, base, f)
<1>1. n \in Nat /\ d.cells \in Seq(1..n)
  BY DocIs
<1>2. /\ x.cells = d.cells /\ x.tomb = d.tomb /\ x.base = base
      /\ Overlaid(x.repl, d.repl, f)
  BY ExtendedIs, ExtendedShows
<1>3. (\A y \in 1..n : base[y] = d.base[y]) /\ DOMAIN f \cap 1..n = {}
  BY DEF Extension
<1> HIDE DEF x
<1>4. ASSUME NEW y \in 1..n PROVE Shown(x, y) = Shown(d, y)
  BY <1>2, <1>3 DEF Shown, Overlaid
<1>5. \A i \in DOMAIN d.cells : Shown(x, d.cells[i]) = Shown(d, d.cells[i])
  BY <1>1, <1>4
<1>6. Display(x) = Display(d)
  BY <1>2, <1>5 DEF Display
<1> QED BY <1>6 DEF x

\* Every operation does to the extended document what it does to this one.
LEMMA ExtendedUndo ==
    ASSUME NEW n, NEW d \in Docs(n), NEW k, NEW base, NEW f, Extension(n, d, k, base, f),
           NEW op \in Ops(n)
    PROVE  /\ UndoPossible(Extended(d, base, f), op) <=> UndoPossible(d, op)
           /\ UndoPossible(d, op) =>
                UndoEditOp(Extended(d, base, f), op) = Extended(UndoEditOp(d, op), base, f)
<1> DEFINE x == Extended(d, base, f)
<1>1. /\ x.cells = d.cells /\ x.tomb = d.tomb /\ x.base = base
      /\ x.repl = Over(d.repl, f) /\ DocLen(x) = DocLen(d)
  BY ExtendedShows
<1>2. x \in Docs(k) /\ k \in Nat /\ n \in Nat /\ n <= k
  BY ExtendedIs DEF Extension
<1>3. op \in Ops(k) /\ (op \in SlotOps(n) => op \in SlotOps(k))
  BY <1>2, OpsGrow
<1> HIDE DEF x
<1>4. UndoPossible(x, op) <=> UndoPossible(d, op)
  BY <1>1 DEF UndoPossible, Removable, Insertable, Covered, RangeKinds
<1>5. ASSUME op \in SlotOps(n) PROVE UndoEditOp(x, op) = Extended(UndoEditOp(d, op), base, f)
  <2>1. UndoEditOp(x, op) = [base |-> x.base, cells |-> x.cells,
                             tomb |-> UndoneTomb(x, op), repl |-> UndoneRepl(x, op)]
    BY <1>2, <1>3, <1>5, SlotUndo
  <2>2. UndoEditOp(d, op) = [base |-> d.base, cells |-> d.cells,
                             tomb |-> UndoneTomb(d, op), repl |-> UndoneRepl(d, op)]
    BY <1>5, SlotUndo
  <2>a. SlotsFollow(d, x, f, op)
    BY <1>5, ExtendedRepl DEF x
  <2>3. UndoneTomb(x, op) = UndoneTomb(d, op) /\ UndoneRepl(x, op) = Over(UndoneRepl(d, op), f)
    BY <2>a DEF SlotsFollow
  <2> QED BY <1>1, <2>1, <2>2, <2>3 DEF Extended
<1>6. ASSUME op \notin SlotOps(n), UndoPossible(d, op)
      PROVE  UndoEditOp(x, op) = Extended(UndoEditOp(d, op), base, f)
  <2>0. op \in CellOps(n) /\ op \in CellOps(k) /\ (op.kind = "Insert" \/ op.kind = "RealDelete")
    <3>1. op \in CellOps(n)
      BY <1>6 DEF Ops
    <3>2. op \in CellOps(k)
      BY <1>2, <3>1, CellsGrow DEF CellOps
    <3> QED BY <3>1, <3>2 DEF CellOps
  <2>1. /\ op.off \in Nat /\ op.off <= DocLen(d) /\ op.cells \in Seq(1..n)
        /\ Len(op.cells) \in Nat
        /\ op.kind = "Insert" => UndoEditOp(d, op) = Cut(d, op.off, Len(op.cells))
        /\ op.kind = "RealDelete" => UndoEditOp(d, op) = Splice(d, op.off, op.cells)
    BY <1>6, <2>0, CellUndo
  <2>2. /\ op.cells \in Seq(1..k)
        /\ op.kind = "Insert" => UndoEditOp(x, op) = Cut(x, op.off, Len(op.cells))
        /\ op.kind = "RealDelete" => UndoEditOp(x, op) = Splice(x, op.off, op.cells)
    BY <1>2, <1>4, <1>6, <2>0, CellUndo
  <2>3. Cut(x, op.off, Len(op.cells)) = Extended(Cut(d, op.off, Len(op.cells)), base, f)
    BY <1>1, <1>2, <2>1, CutIs DEF Extended
  <2>4. Splice(x, op.off, op.cells) = Extended(Splice(d, op.off, op.cells), base, f)
    BY <1>1, <1>2, <2>1, <2>2, SpliceIs DEF Extended
  <2> QED BY <2>0, <2>1, <2>2, <2>3, <2>4
<1>7. UndoPossible(d, op) => UndoEditOp(x, op) = Extended(UndoEditOp(d, op), base, f)
  BY <1>5, <1>6
<1> QED BY <1>4, <1>7 DEF x

LEMMA ExtendedApply ==
    ASSUME NEW n, NEW d \in Docs(n), NEW k, NEW base, NEW f, Extension(n, d, k, base, f),
           NEW op \in Ops(n)
    PROVE  /\ ApplyPossible(Extended(d, base, f), op) <=> ApplyPossible(d, op)
           /\ ApplyPossible(d, op) =>
                ApplyEditOp(Extended(d, base, f), op) = Extended(ApplyEditOp(d, op), base, f)
<1> DEFINE x == Extended(d, base, f)
<1>1. /\ x.cells = d.cells /\ x.tomb = d.tomb /\ x.base = base
      /\ x.repl = Over(d.repl, f) /\ DocLen(x) = DocLen(d)
  BY ExtendedShows
<1>2. x \in Docs(k) /\ k \in Nat /\ n \in Nat /\ n <= k
  BY ExtendedIs DEF Extension
<1>3. op \in Ops(k) /\ (op \in SlotOps(n) => op \in SlotOps(k))
  BY <1>2, OpsGrow
<1> HIDE DEF x
<1>4. ApplyPossible(x, op) <=> ApplyPossible(d, op)
  BY <1>1 DEF ApplyPossible, Removable, Insertable, Covered, RangeKinds
<1>5. ASSUME op \in SlotOps(n) PROVE ApplyEditOp(x, op) = Extended(ApplyEditOp(d, op), base, f)
  <2>1. ApplyEditOp(x, op) = [base |-> x.base, cells |-> x.cells,
                              tomb |-> AppliedTomb(x, op), repl |-> AppliedRepl(x, op)]
    BY <1>2, <1>3, <1>5, SlotApply
  <2>2. ApplyEditOp(d, op) = [base |-> d.base, cells |-> d.cells,
                              tomb |-> AppliedTomb(d, op), repl |-> AppliedRepl(d, op)]
    BY <1>5, SlotApply
  <2>a. SlotsFollow(d, x, f, op)
    BY <1>5, ExtendedRepl DEF x
  <2>3. AppliedTomb(x, op) = AppliedTomb(d, op) /\ AppliedRepl(x, op) = Over(AppliedRepl(d, op), f)
    BY <2>a DEF SlotsFollow
  <2> QED BY <1>1, <2>1, <2>2, <2>3 DEF Extended
<1>6. ASSUME op \notin SlotOps(n), ApplyPossible(d, op)
      PROVE  ApplyEditOp(x, op) = Extended(ApplyEditOp(d, op), base, f)
  <2>0. op \in CellOps(n) /\ op \in CellOps(k) /\ (op.kind = "Insert" \/ op.kind = "RealDelete")
    <3>1. op \in CellOps(n)
      BY <1>6 DEF Ops
    <3>2. op \in CellOps(k)
      BY <1>2, <3>1, CellsGrow DEF CellOps
    <3> QED BY <3>1, <3>2 DEF CellOps
  <2>1. /\ op.off \in Nat /\ op.off <= DocLen(d) /\ op.cells \in Seq(1..n)
        /\ Len(op.cells) \in Nat
        /\ op.kind = "Insert" => ApplyEditOp(d, op) = Splice(d, op.off, op.cells)
        /\ op.kind = "RealDelete" => ApplyEditOp(d, op) = Cut(d, op.off, Len(op.cells))
    BY <1>6, <2>0, CellApply
  <2>2. /\ op.cells \in Seq(1..k)
        /\ op.kind = "Insert" => ApplyEditOp(x, op) = Splice(x, op.off, op.cells)
        /\ op.kind = "RealDelete" => ApplyEditOp(x, op) = Cut(x, op.off, Len(op.cells))
    BY <1>2, <1>4, <1>6, <2>0, CellApply
  <2>3. Cut(x, op.off, Len(op.cells)) = Extended(Cut(d, op.off, Len(op.cells)), base, f)
    BY <1>1, <1>2, <2>1, CutIs DEF Extended
  <2>4. Splice(x, op.off, op.cells) = Extended(Splice(d, op.off, op.cells), base, f)
    BY <1>1, <1>2, <2>1, <2>2, SpliceIs DEF Extended
  <2> QED BY <2>0, <2>1, <2>2, <2>3, <2>4
<1>7. ApplyPossible(d, op) => ApplyEditOp(x, op) = Extended(ApplyEditOp(d, op), base, f)
  BY <1>5, <1>6
<1> QED BY <1>4, <1>7 DEF x

\* The outcome r, in the longer buffer.
Elsewhere(r, base, f) == [doc |-> Extended(r.doc, base, f), ok |-> r.ok]

LEMMA ElsewhereUndo ==
    ASSUME NEW n, NEW a, NEW k, NEW base, NEW f, Extension(n, a, k, base, f),
           NEW r \in Replays(n), r.doc.base = a.base, NEW op \in Ops(n)
    PROVE  UndoInto(op, Elsewhere(r, base, f)) = Elsewhere(UndoInto(op, r), base, f)
<1> DEFINE d == r.doc
           x == Extended(d, base, f)
<1>1. d \in Docs(n) /\ r = [doc |-> d, ok |-> r.ok] /\ r.ok \in BOOLEAN
  BY DEF Replays
<1>2. /\ UndoPossible(x, op) <=> UndoPossible(d, op)
      /\ UndoPossible(d, op) => UndoEditOp(x, op) = Extended(UndoEditOp(d, op), base, f)
  <2>1. Extension(n, d, k, base, f)
    BY DEF Extension
  <2> QED BY <1>1, <2>1, ExtendedUndo
<1>3. Elsewhere(r, base, f) = [doc |-> x, ok |-> r.ok]
  BY DEF Elsewhere
<1> HIDE DEF x
<1>4. CASE r.ok /\ UndoPossible(d, op)
  BY <1>1, <1>2, <1>3, <1>4 DEF UndoInto, Elsewhere
<1>5. CASE ~ (r.ok /\ UndoPossible(d, op))
  BY <1>1, <1>2, <1>3, <1>5 DEF UndoInto, Elsewhere, x
<1> QED BY <1>4, <1>5

LEMMA ElsewhereApply ==
    ASSUME NEW n, NEW a, NEW k, NEW base, NEW f, Extension(n, a, k, base, f),
           NEW r \in Replays(n), r.doc.base = a.base, NEW op \in Ops(n)
    PROVE  ApplyInto(Elsewhere(r, base, f), op) = Elsewhere(ApplyInto(r, op), base, f)
<1> DEFINE d == r.doc
           x == Extended(d, base, f)
<1>1. d \in Docs(n) /\ r = [doc |-> d, ok |-> r.ok] /\ r.ok \in BOOLEAN
  BY DEF Replays
<1>2. /\ ApplyPossible(x, op) <=> ApplyPossible(d, op)
      /\ ApplyPossible(d, op) => ApplyEditOp(x, op) = Extended(ApplyEditOp(d, op), base, f)
  <2>1. Extension(n, d, k, base, f)
    BY DEF Extension
  <2> QED BY <1>1, <2>1, ExtendedApply
<1>3. Elsewhere(r, base, f) = [doc |-> x, ok |-> r.ok]
  BY DEF Elsewhere
<1> HIDE DEF x
<1>4. CASE r.ok /\ ApplyPossible(d, op)
  BY <1>1, <1>2, <1>3, <1>4 DEF ApplyInto, Elsewhere
<1>5. CASE ~ (r.ok /\ ApplyPossible(d, op))
  BY <1>1, <1>2, <1>3, <1>5 DEF ApplyInto, Elsewhere, x
<1> QED BY <1>4, <1>5

LEMMA ExtendedUndoOps ==
    ASSUME NEW n, NEW d \in Docs(n), NEW k, NEW base, NEW f, Extension(n, d, k, base, f),
           NEW ops \in Seq(Ops(n))
    PROVE  UndoOps(Extended(d, base, f), ops) = Elsewhere(UndoOps(d, ops), base, f)
<1> DEFINE x == Extended(d, base, f)
           m == Len(ops)
           u == UndoOpsUpTo(d, ops)
           v == UndoOpsUpTo(x, ops)
           Good(i) == u[i].doc.base = d.base /\ v[i] = Elsewhere(u[i], base, f)
           T == {i \in 0..m : Good(i)}
<1>0. /\ m \in Nat /\ n \in Nat /\ k \in Nat /\ n <= k /\ x \in Docs(k)
      /\ Unfailed(d).doc = d /\ Unfailed(d).ok
  BY ExtendedIs, IsOutcome DEF Extension
<1>1. ops \in Seq(Ops(k))
  <2>1. \A i \in 1..m : ops[i] \in Ops(k)
    BY <1>0, OpsGrow
  <2> QED BY <1>0, <2>1
<1>2. /\ u \in [0..m -> Replays(n)] /\ u[0] = Unfailed(d)
      /\ \A i \in 1..m : u[i] = UndoInto(ops[m - i + 1], u[i - 1])
  BY UndoWalk
<1> HIDE DEF x
<1>3. /\ v[0] = Unfailed(x)
      /\ \A i \in 1..m : v[i] = UndoInto(ops[m - i + 1], v[i - 1])
  BY <1>0, <1>1, UndoWalk
<1>4. UndoOps(x, ops) = v[m] /\ UndoOps(d, ops) = u[m]
  BY DEF UndoOps
<1>5. \A i \in 1..m : ops[m - i + 1] \in Ops(n) /\ i \in 0..m /\ i - 1 \in 0..m
  <2>1. \A i \in 1..m : m - i + 1 \in 1..m /\ i \in 0..m /\ i - 1 \in 0..m
    BY <1>0
  <2> QED BY <2>1
<1> HIDE DEF u, v, m
<1>6. 0 \in T
  <2>1. Unfailed(x) = Elsewhere(Unfailed(d), base, f)
    BY <1>0 DEF Unfailed, Elsewhere, x
  <2> QED BY <1>0, <1>2, <1>3, <2>1
<1>7. ASSUME NEW i \in 1..m, i - 1 \in T PROVE i \in T
  <2> DEFINE r == u[i - 1]
             op == ops[m - i + 1]
  <2>1. r \in Replays(n) /\ op \in Ops(n) /\ i \in 0..m
    BY <1>2, <1>5
  <2>2. r.doc.base = d.base /\ v[i - 1] = Elsewhere(r, base, f)
    BY <1>7
  <2>3. u[i] = UndoInto(op, r) /\ v[i] = UndoInto(op, Elsewhere(r, base, f))
    BY <1>2, <1>3, <2>2
  <2> HIDE DEF r, op
  <2>4. UndoInto(op, r).doc.base = r.doc.base
    BY <2>1, UndoIntoIs
  <2>5. UndoInto(op, Elsewhere(r, base, f)) = Elsewhere(UndoInto(op, r), base, f)
    BY <2>1, <2>2, ElsewhereUndo
  <2>6. Good(i)
    BY <2>2, <2>3, <2>4, <2>5
  <2> QED BY <2>1, <2>6
<1> HIDE DEF T
<1>8. \A i \in 0..m : i \in T
  BY <1>0, <1>6, <1>7, UpTo
<1>9. m \in T
  BY <1>0, <1>8
<1>10. v[m] = Elsewhere(u[m], base, f)
  BY <1>9 DEF T
<1> QED BY <1>4, <1>10 DEF x

LEMMA ExtendedApplyOps ==
    ASSUME NEW n, NEW d \in Docs(n), NEW k, NEW base, NEW f, Extension(n, d, k, base, f),
           NEW ops \in Seq(Ops(n))
    PROVE  ApplyOps(Extended(d, base, f), ops) = Elsewhere(ApplyOps(d, ops), base, f)
<1> DEFINE x == Extended(d, base, f)
           m == Len(ops)
           u == ApplyOpsUpTo(d, ops)
           v == ApplyOpsUpTo(x, ops)
           Good(i) == u[i].doc.base = d.base /\ v[i] = Elsewhere(u[i], base, f)
           T == {i \in 0..m : Good(i)}
<1>0. /\ m \in Nat /\ n \in Nat /\ k \in Nat /\ n <= k /\ x \in Docs(k)
      /\ Unfailed(d).doc = d /\ Unfailed(d).ok
  BY ExtendedIs, IsOutcome DEF Extension
<1>1. ops \in Seq(Ops(k))
  <2>1. \A i \in 1..m : ops[i] \in Ops(k)
    BY <1>0, OpsGrow
  <2> QED BY <1>0, <2>1
<1>2. /\ u \in [0..m -> Replays(n)] /\ u[0] = Unfailed(d)
      /\ \A i \in 1..m : u[i] = ApplyInto(u[i - 1], ops[i])
  BY ApplyWalk
<1> HIDE DEF x
<1>3. /\ v[0] = Unfailed(x)
      /\ \A i \in 1..m : v[i] = ApplyInto(v[i - 1], ops[i])
  BY <1>0, <1>1, ApplyWalk
<1>4. ApplyOps(x, ops) = v[m] /\ ApplyOps(d, ops) = u[m]
  BY DEF ApplyOps
<1>5. \A i \in 1..m : ops[i] \in Ops(n) /\ i \in 0..m /\ i - 1 \in 0..m
  <2>1. \A i \in 1..m : i \in 1..m /\ i \in 0..m /\ i - 1 \in 0..m
    BY <1>0
  <2> QED BY <2>1
<1> HIDE DEF u, v, m
<1>6. 0 \in T
  <2>1. Unfailed(x) = Elsewhere(Unfailed(d), base, f)
    BY <1>0 DEF Unfailed, Elsewhere, x
  <2> QED BY <1>0, <1>2, <1>3, <2>1
<1>7. ASSUME NEW i \in 1..m, i - 1 \in T PROVE i \in T
  <2> DEFINE r == u[i - 1]
             op == ops[i]
  <2>1. r \in Replays(n) /\ op \in Ops(n) /\ i \in 0..m
    BY <1>2, <1>5
  <2>2. r.doc.base = d.base /\ v[i - 1] = Elsewhere(r, base, f)
    BY <1>7
  <2>3. u[i] = ApplyInto(r, op) /\ v[i] = ApplyInto(Elsewhere(r, base, f), op)
    BY <1>2, <1>3, <2>2
  <2> HIDE DEF r, op
  <2>4. ApplyInto(r, op).doc.base = r.doc.base
    BY <2>1, ApplyIntoIs
  <2>5. ApplyInto(Elsewhere(r, base, f), op) = Elsewhere(ApplyInto(r, op), base, f)
    BY <2>1, <2>2, ElsewhereApply
  <2>6. Good(i)
    BY <2>2, <2>3, <2>4, <2>5
  <2> QED BY <2>1, <2>6
<1> HIDE DEF T
<1>8. \A i \in 0..m : i \in T
  BY <1>0, <1>6, <1>7, UpTo
<1>9. m \in T
  BY <1>0, <1>8
<1>10. v[m] = Elsewhere(u[m], base, f)
  BY <1>9 DEF T
<1> QED BY <1>4, <1>10 DEF x

LEMMA ExtendedLeads ==
    ASSUME NEW n, NEW d \in Docs(n), NEW k, NEW base, NEW f, Extension(n, d, k, base, f),
           NEW e \in Docs(n), e.base = d.base, NEW ops \in Seq(Ops(n)), Leads(d, ops, e)
    PROVE  Leads(Extended(d, base, f), ops, Extended(e, base, f))
<1>1. ApplyOps(d, ops) = Unfailed(e) /\ UndoOps(e, ops) = Unfailed(d)
  BY DEF Leads
<1>2. ApplyOps(Extended(d, base, f), ops) = Elsewhere(Unfailed(e), base, f)
  BY <1>1, ExtendedApplyOps
<1>3. Extension(n, e, k, base, f)
  BY DEF Extension
<1>4. UndoOps(Extended(e, base, f), ops) = Elsewhere(Unfailed(d), base, f)
  BY <1>1, <1>3, ExtendedUndoOps
<1>5. \A y : Elsewhere(Unfailed(y), base, f) = Unfailed(Extended(y, base, f))
  BY DEF Elsewhere, Unfailed
<1> QED BY <1>2, <1>4, <1>5 DEF Leads

(***************************************************************************)
(* The line of documents                                                   *)
(***************************************************************************)

LEMMA StepOfIs ==
    ASSUME NEW S, NEW u \in Seq(S), NEW r \in Seq(S), NEW k \in 1..(Len(u) + Len(r))
    PROVE  /\ StepOf(u, r, k) \in S /\ Len(u) \in Nat /\ Len(r) \in Nat /\ k \in Nat
           /\ k - 1 \in 0..(Len(u) + Len(r)) /\ k \in 0..(Len(u) + Len(r))
<1>1. CASE k <= Len(u)
  BY <1>1 DEF StepOf
<1>2. CASE ~ k <= Len(u)
  <2>1. Len(r) - (k - Len(u)) + 1 \in 1..Len(r)
    BY <1>2
  <2> QED BY <1>2, <2>1 DEF StepOf
<1> QED BY <1>1, <1>2

LEMMA LineIs ==
    ASSUME NEW E, NEW len, NEW u, NEW r, NEW n, NEW d, Line(E, len, u, r, n, d)
    PROVE  /\ \A k \in 0..(Len(u) + Len(r)) : Stop(E, n, d.base, k)
           /\ \A k \in 1..(Len(u) + Len(r)) : Linked(E, StepOf(u, r, k), k)
           /\ Original(len, E[0]) /\ E[Len(u)] = d
BY DEF Line

\* The stacks name no cell that is allocated later.
LEMMA HistoryExtends ==
    ASSUME NEW len \in Nat, NEW n, NEW S, Records(S, n),
           NEW u \in Seq(S), NEW r \in Seq(S), NEW d, History(len, u, r, n, d),
           NEW k, NEW base, NEW f, Extension(n, d, k, base, f)
    PROVE  History(len, u, r, k, Extended(d, base, f))
<1> DEFINE m == Len(u) + Len(r)
           X(y) == Extended(y, base, f)
<1>0. m \in Nat /\ Len(u) \in 0..m /\ Len(u) \in Nat /\ Len(r) \in Nat
  OBVIOUS
<1>1. PICK E : Line(E, len, u, r, n, d)
  BY DEF History
<1>2. /\ \A j \in 0..m : Stop(E, n, d.base, j)
      /\ \A j \in 1..m : Linked(E, StepOf(u, r, j), j)
      /\ Original(len, E[0]) /\ E[Len(u)] = d
  BY <1>1, LineIs
<1>3. \A j \in 1..m : StepOf(u, r, j) \in S /\ j \in 0..m /\ j - 1 \in 0..m
  BY StepOfIs
<1> HIDE DEF m
<1> DEFINE F == [j \in 0..m |-> X(E[j])]
<1>4. \A j \in 0..m : F[j] = X(E[j])
  OBVIOUS
<1>x. \A y : X(y).base = base /\ X(y).cells = y.cells /\ X(y).tomb = y.tomb
  BY DEF Extended
<1> HIDE DEF F, X
<1>5. ASSUME NEW j \in 0..m
      PROVE  E[j] \in Docs(n) /\ E[j].base = d.base /\ Extension(n, E[j], k, base, f)
  <2>1. E[j] \in Docs(n) /\ E[j].base = d.base
    BY <1>2, <1>5 DEF Stop
  <2> QED BY <2>1 DEF Extension
<1>6. ASSUME NEW j \in 0..m PROVE Stop(F, k, base, j)
  <2>1. Injective(E[j].cells)
    BY <1>2 DEF Stop
  <2> DEFINE y == E[j]
  <2>a. y \in Docs(n) /\ Extension(n, y, k, base, f)
    BY <1>5
  <2> HIDE DEF y
  <2>b. X(y) \in Docs(k)
    BY <2>a, ExtendedIs DEF X
  <2>2. X(E[j]) \in Docs(k) /\ X(E[j]).base = base /\ X(E[j]).cells = E[j].cells
    BY <1>x, <2>b DEF y
  <2> QED BY <1>4, <2>1, <2>2 DEF Stop
<1>7. ASSUME NEW j \in 1..m PROVE Linked(F, StepOf(u, r, j), j)
  <2> DEFINE ops == StepOf(u, r, j).ops
             a == E[j - 1]
             b == E[j]
  <2>1. ops \in Seq(Ops(n))
    BY <1>3 DEF Records
  <2>2. /\ a \in Docs(n) /\ Extension(n, a, k, base, f) /\ b \in Docs(n)
        /\ b.base = a.base
    BY <1>3, <1>5
  <2>3. Leads(a, ops, b) /\ StepOf(u, r, j).shown = Display(a)
    BY <1>2 DEF Linked
  <2>4. F[j - 1] = X(a) /\ F[j] = X(b)
    BY <1>3, <1>4
  <2> HIDE DEF ops, a, b
  <2>5. Leads(X(a), ops, X(b))
    BY <2>1, <2>2, <2>3, ExtendedLeads DEF X
  <2>6. Display(X(a)) = Display(a)
    BY <2>2, ExtendedDisplay DEF X
  <2> QED BY <2>3, <2>4, <2>5, <2>6 DEF Linked, ops
<1>8. Original(len, F[0])
  <2>0. 0 \in 0..m
    BY <1>0
  <2> DEFINE a == E[0]
  <2>1. a \in Docs(n) /\ Extension(n, a, k, base, f) /\ F[0] = X(a) /\ Original(len, a)
    BY <1>2, <1>4, <1>5, <2>0
  <2> HIDE DEF a
  <2>2. /\ X(a).base = base /\ X(a).cells = a.cells /\ X(a).tomb = a.tomb
        /\ Overlaid(X(a).repl, a.repl, f)
    <3>1. Overlaid(X(a).repl, a.repl, f)
      BY <2>1, ExtendedIs DEF X
    <3> QED BY <1>x, <3>1
  <2>3. a.cells = [i \in 1..len |-> i] /\ a.cells \in Seq(1..n) /\ n \in Nat
    BY <2>1, DocIs DEF Original
  <2>4. len <= n
    <3>1. CASE len = 0
      BY <2>3, <3>1
    <3>2. CASE len # 0
      <4>1. len \in 1..len /\ Len(a.cells) = len
        BY <2>3, <3>2
      <4>2. a.cells[len] = len /\ a.cells[len] \in 1..n
        BY <2>3, <4>1
      <4> QED BY <4>2
    <3> QED BY <3>1, <3>2
  <2>5. n <= k /\ k \in Nat /\ k <= Len(base) /\ Len(base) \in Nat /\ DOMAIN f \cap 1..n = {}
    BY DEF Extension
  <2>6. len <= Len(base) /\ 1..len \subseteq 1..n
    BY <2>3, <2>4, <2>5
  <2>7. DOMAIN X(a).repl \cap 1..len = {}
    BY <2>1, <2>2, <2>5, <2>6 DEF Original, Overlaid
  <2> QED BY <2>1, <2>2, <2>3, <2>6, <2>7 DEF Original
<1>9. F[Len(u)] = X(d) /\ X(d).base = base
  BY <1>0, <1>2, <1>4, <1>x
<1>10. Line(F, len, u, r, k, X(d))
  BY <1>6, <1>7, <1>8, <1>9 DEF Line, m
<1> QED BY <1>10 DEF History, X

\* A new edit cuts the line at the document that it changes.
LEMMA HistoryPushes ==
    ASSUME NEW len, NEW n, NEW S, NEW u \in Seq(S), NEW r \in Seq(S), NEW d,
           History(len, u, r, n, d), NEW step \in S, NEW e,
           Reaches(n, d, step.ops, e), step.shown = Display(d)
    PROVE  History(len, Append(u, step), <<>>, n, e)
<1> DEFINE m == Len(u)
           w == Append(u, step)
           F(E) == [j \in 0..(m + 1) |-> IF j = m + 1 THEN e ELSE E[j]]
<1>0. m \in Nat /\ Len(w) = m + 1 /\ w[m + 1] = step /\ \A j \in 1..m : w[j] = u[j]
  OBVIOUS
<1>1. PICK E : Line(E, len, u, r, n, d)
  BY DEF History
<1>2. /\ \A j \in 0..m : Stop(E, n, d.base, j)
      /\ \A j \in 1..m : Linked(E, u[j], j)
      /\ Original(len, E[0]) /\ E[m] = d
  <2>1. /\ \A j \in 0..(m + Len(r)) : Stop(E, n, d.base, j)
        /\ \A j \in 1..(m + Len(r)) : Linked(E, StepOf(u, r, j), j)
        /\ Original(len, E[0]) /\ E[m] = d
    BY <1>1, LineIs
  <2>2. Len(r) \in Nat
    OBVIOUS
  <2>3. \A j \in 1..m : StepOf(u, r, j) = u[j] /\ j \in 1..(m + Len(r))
    BY <1>0, <2>2 DEF StepOf
  <2> QED BY <1>0, <2>1, <2>2, <2>3
<1>3. /\ e \in Docs(n) /\ e.base = d.base /\ Leads(d, step.ops, e)
      /\ Injective(d.cells) => Injective(e.cells)
  BY DEF Reaches
<1> DEFINE G == F(E)
<1>4. G[m + 1] = e /\ \A j \in 0..m : G[j] = E[j]
  BY <1>0
<1> HIDE DEF G, F, w, m
<1>5. ASSUME NEW j \in 0..(m + 1) PROVE Stop(G, n, e.base, j)
  <2>1. CASE j = m + 1
    <3>1. Injective(d.cells)
      BY <1>0, <1>2 DEF Stop
    <3> QED BY <1>3, <1>4, <2>1, <3>1 DEF Stop
  <2>2. CASE j # m + 1
    <3>1. j \in 0..m
      BY <1>0, <2>2
    <3> QED BY <1>2, <1>3, <1>4, <3>1 DEF Stop
  <2> QED BY <2>1, <2>2
<1>6. ASSUME NEW j \in 1..(m + 1) PROVE Linked(G, w[j], j)
  <2>1. CASE j = m + 1
    <3>1. G[j - 1] = d /\ G[j] = e /\ w[j] = step
      BY <1>0, <1>2, <1>4, <2>1
    <3> QED BY <1>3, <3>1 DEF Linked
  <2>2. CASE j # m + 1
    <3>1. j \in 1..m /\ j \in 0..m /\ j - 1 \in 0..m
      BY <1>0, <2>2
    <3>2. G[j - 1] = E[j - 1] /\ G[j] = E[j] /\ w[j] = u[j]
      BY <1>0, <1>4, <3>1
    <3> QED BY <1>2, <3>1, <3>2 DEF Linked
  <2> QED BY <2>1, <2>2
<1>7. G[0] = E[0]
  BY <1>0, <1>4
<1>8. Len(<<>>) = 0 /\ Len(w) + 0 = m + 1
  BY <1>0
<1>9. \A j \in 1..(m + 1) : StepOf(w, <<>>, j) = w[j]
  BY <1>0 DEF StepOf
<1>10. Line(G, len, w, <<>>, n, e)
  <2>1. \A j \in 1..(m + 1) : Linked(G, StepOf(w, <<>>, j), j)
    BY <1>6, <1>9
  <2> QED BY <1>0, <1>2, <1>4, <1>5, <1>7, <1>8, <2>1 DEF Line
<1> QED BY <1>10 DEF History, w

LEMMA HistoryCut ==
    ASSUME NEW len, NEW n, NEW S, NEW u \in Seq(S), NEW r \in Seq(S), NEW d,
           History(len, u, r, n, d)
    PROVE  History(len, u, <<>>, n, d)
<1>1. PICK E : Line(E, len, u, r, n, d)
  BY DEF History
<1>2. /\ \A k \in 0..(Len(u) + Len(r)) : Stop(E, n, d.base, k)
      /\ \A k \in 1..(Len(u) + Len(r)) : Linked(E, StepOf(u, r, k), k)
      /\ Original(len, E[0]) /\ E[Len(u)] = d
  BY <1>1, LineIs
<1>3. Len(u) \in Nat /\ Len(r) \in Nat /\ Len(<<>>) = 0 /\ Len(u) + Len(<<>>) = Len(u)
  OBVIOUS
<1>4. /\ \A k \in 0..Len(u) : k \in 0..(Len(u) + Len(r))
      /\ \A k \in 1..Len(u) : k \in 1..(Len(u) + Len(r)) /\ StepOf(u, <<>>, k) = StepOf(u, r, k)
  BY <1>3 DEF StepOf
<1>5. /\ \A k \in 0..Len(u) : Stop(E, n, d.base, k)
      /\ \A k \in 1..Len(u) : Linked(E, StepOf(u, <<>>, k), k)
  BY <1>2, <1>4
<1>6. Line(E, len, u, <<>>, n, d)
  BY <1>2, <1>3, <1>5 DEF Line
<1> QED BY <1>6 DEF History

\* Undo goes back one document, redo goes on to the next one.
LEMMA HistoryBack ==
    ASSUME NEW len, NEW n, NEW S, NEW u \in Seq(S), NEW r \in Seq(S), NEW d,
           History(len, u, r, n, d), u # <<>>
    PROVE  \E e \in Docs(n) :
                /\ UndoOps(d, Last(u).ops) = Unfailed(e)
                /\ e.base = d.base
                /\ History(len, Front(u), Append(r, Last(u)), n, e)
<1> DEFINE m == Len(u) + Len(r)
           a == Len(u) - 1
           step == Last(u)
           v == Front(u)
           w == Append(r, step)
<1>0. /\ Len(u) \in Nat /\ Len(r) \in Nat /\ a \in Nat /\ Len(u) = a + 1 /\ m \in Nat
      /\ m = a + 1 + Len(r) /\ a \in 0..m /\ Len(u) \in 1..m
  OBVIOUS
<1>1. step = u[a + 1] /\ step \in S
  BY <1>0 DEF Last
<1>2. v \in Seq(S) /\ Len(v) = a /\ \A i \in 1..a : v[i] = u[i]
  BY <1>0, PrefixIs DEF Front
<1>3. Len(w) = Len(r) + 1 /\ w[Len(r) + 1] = step /\ \A i \in 1..Len(r) : w[i] = r[i]
  BY <1>1
<1>4. PICK E : Line(E, len, u, r, n, d)
  BY DEF History
<1>5. /\ \A k \in 0..m : Stop(E, n, d.base, k)
      /\ \A k \in 1..m : Linked(E, StepOf(u, r, k), k)
      /\ Original(len, E[0]) /\ E[a + 1] = d
  BY <1>0, <1>4, LineIs
<1> HIDE DEF step, v, w
<1>6. ASSUME NEW k \in 1..m PROVE StepOf(v, w, k) = StepOf(u, r, k)
  <2>0. k \in Nat
    BY <1>0
  <2>1. CASE k <= a
    BY <1>0, <1>2, <2>1 DEF StepOf
  <2>2. CASE k = a + 1
    BY <1>0, <1>1, <1>2, <1>3, <2>2 DEF StepOf
  <2>3. CASE k > a + 1
    <3> DEFINE i == Len(r) - (k - (a + 1)) + 1
    <3>1. i \in 1..Len(r) /\ Len(w) - (k - Len(v)) + 1 = i
      BY <1>0, <1>2, <1>3, <2>3
    <3> HIDE DEF i
    <3>2. StepOf(v, w, k) = w[i]
      BY <1>0, <1>2, <2>3, <3>1 DEF StepOf
    <3>3. StepOf(u, r, k) = r[i]
      BY <1>0, <2>3 DEF StepOf, i
    <3> QED BY <1>3, <3>1, <3>2, <3>3
  <2> HIDE DEF a
  <2> QED BY <1>0, <2>0, <2>1, <2>2, <2>3
<1>7. Len(v) + Len(w) = m
  BY <1>0, <1>2, <1>3
<1> DEFINE e == E[a]
<1>8. e \in Docs(n) /\ e.base = d.base
  BY <1>0, <1>5 DEF Stop
<1>9. UndoOps(d, step.ops) = Unfailed(e)
  <2>1. StepOf(u, r, a + 1) = step
    BY <1>0, <1>1 DEF StepOf
  <2>2. Linked(E, step, a + 1) /\ a + 1 - 1 = a
    BY <1>0, <1>5, <2>1
  <2> QED BY <1>5, <2>2 DEF Linked, Leads
<1>10. Line(E, len, v, w, n, e)
  <2>1. \A k \in 0..m : Stop(E, n, e.base, k)
    BY <1>5, <1>8
  <2>2. \A k \in 1..m : Linked(E, StepOf(v, w, k), k)
    BY <1>5, <1>6
  <2>3. E[Len(v)] = e
    BY <1>2
  <2> QED BY <1>5, <1>7, <2>1, <2>2, <2>3 DEF Line
<1> QED BY <1>8, <1>9, <1>10 DEF History, step, v, w

LEMMA HistoryOn ==
    ASSUME NEW len, NEW n, NEW S, NEW u \in Seq(S), NEW r \in Seq(S), NEW d,
           History(len, u, r, n, d), r # <<>>
    PROVE  \E e \in Docs(n) :
                /\ ApplyOps(d, Last(r).ops) = Unfailed(e)
                /\ e.base = d.base
                /\ History(len, Append(u, Last(r)), Front(r), n, e)
<1> DEFINE m == Len(u) + Len(r)
           a == Len(u)
           b == Len(r) - 1
           step == Last(r)
           v == Append(u, step)
           w == Front(r)
<1>0. /\ a \in Nat /\ Len(r) \in Nat /\ b \in Nat /\ Len(r) = b + 1 /\ m \in Nat
      /\ m = a + b + 1 /\ a + 1 \in 1..m /\ a + 1 \in 0..m /\ a + 1 - 1 = a
  OBVIOUS
<1>1. step = r[b + 1] /\ step \in S
  BY <1>0 DEF Last
<1>2. w \in Seq(S) /\ Len(w) = b /\ \A i \in 1..b : w[i] = r[i]
  BY <1>0, PrefixIs DEF Front
<1>3. Len(v) = a + 1 /\ v[a + 1] = step /\ \A i \in 1..a : v[i] = u[i]
  BY <1>1
<1>4. PICK E : Line(E, len, u, r, n, d)
  BY DEF History
<1>5. /\ \A k \in 0..m : Stop(E, n, d.base, k)
      /\ \A k \in 1..m : Linked(E, StepOf(u, r, k), k)
      /\ Original(len, E[0]) /\ E[a] = d
  BY <1>4, LineIs
<1> HIDE DEF step, v, w, a, m
<1>6. ASSUME NEW k \in 1..m PROVE StepOf(v, w, k) = StepOf(u, r, k)
  <2>1. CASE k <= a
    BY <1>0, <1>3, <2>1 DEF StepOf, a
  <2>2. CASE k = a + 1
    <3>1. StepOf(v, w, k) = step
      BY <1>0, <1>3, <2>2 DEF StepOf
    <3>2. Len(r) - (k - Len(u)) + 1 = b + 1 /\ ~ k <= Len(u)
      BY <1>0, <2>2 DEF a
    <3> QED BY <1>1, <3>1, <3>2 DEF StepOf
  <2>3. CASE k > a + 1
    <3> DEFINE i == Len(r) - (k - a) + 1
    <3>1. i \in 1..b /\ Len(w) - (k - Len(v)) + 1 = i
      BY <1>0, <1>2, <1>3, <2>3
    <3> HIDE DEF i
    <3>2. StepOf(v, w, k) = w[i]
      BY <1>0, <1>3, <2>3, <3>1 DEF StepOf
    <3>3. StepOf(u, r, k) = r[i]
      BY <1>0, <2>3 DEF StepOf, i, a
    <3> QED BY <1>2, <3>1, <3>2, <3>3
  <2> QED BY <1>0, <2>1, <2>2, <2>3
<1>7. Len(v) + Len(w) = m
  BY <1>0, <1>2, <1>3
<1> DEFINE e == E[a + 1]
<1>8. e \in Docs(n) /\ e.base = d.base
  BY <1>0, <1>5 DEF Stop
<1>9. ApplyOps(d, step.ops) = Unfailed(e)
  <2> DEFINE k == a + 1
  <2>1. Len(r) - (k - Len(u)) + 1 = b + 1 /\ ~ k <= Len(u)
    BY <1>0 DEF a
  <2> HIDE DEF k
  <2>a. StepOf(u, r, k) = step
    BY <1>1, <2>1 DEF StepOf
  <2>2. StepOf(u, r, a + 1) = step
    BY <2>a DEF k
  <2>3. Linked(E, step, a + 1)
    BY <1>0, <1>5, <2>2
  <2> QED BY <1>0, <1>5, <2>3 DEF Linked, Leads
<1>10. Line(E, len, v, w, n, e)
  <2>1. \A k \in 0..m : Stop(E, n, e.base, k)
    BY <1>5, <1>8
  <2>2. \A k \in 1..m : Linked(E, StepOf(v, w, k), k)
    BY <1>5, <1>6
  <2>3. E[Len(v)] = e
    BY <1>3
  <2> QED BY <1>5, <1>7, <2>1, <2>2, <2>3 DEF Line
<1> QED BY <1>8, <1>9, <1>10 DEF History, step, v, w, a

\* The documents F, which undoing the steps, or redoing them, goes through.
GoesBack(F, n, steps) ==
    /\ \A i \in 0..Len(steps) : F[i] \in Docs(n)
    /\ \A i \in 1..Len(steps) :
        UndoOps(F[i - 1], steps[Len(steps) - i + 1].ops) = Unfailed(F[i])

GoesOn(F, n, steps) ==
    /\ \A i \in 0..Len(steps) : F[i] \in Docs(n)
    /\ \A i \in 1..Len(steps) :
        ApplyOps(F[i - 1], steps[Len(steps) - i + 1].ops) = Unfailed(F[i])

LEMMA RewoundFollows ==
    ASSUME NEW n, NEW S, Records(S, n), NEW steps \in Seq(S), NEW F, GoesBack(F, n, steps)
    PROVE  Rewound(F[0], steps) = Unfailed(F[Len(steps)])
<1> DEFINE m == Len(steps)
           w == RewoundUpTo(F[0], steps)
           T == {i \in 0..m : w[i] = Unfailed(F[i])}
<1>0. m \in Nat /\ 0 \in 0..m /\ m \in 0..m
  OBVIOUS
<1>1. /\ \A i \in 0..m : F[i] \in Docs(n)
      /\ \A i \in 1..m : UndoOps(F[i - 1], steps[m - i + 1].ops) = Unfailed(F[i])
  BY DEF GoesBack
<1>2. /\ w[0] = Unfailed(F[0])
      /\ \A i \in 1..m : w[i] = IF w[i - 1].ok
                                THEN UndoOps(w[i - 1].doc, steps[m - i + 1].ops)
                                ELSE w[i - 1]
  BY <1>0, <1>1, RewoundWalk
<1>3. Rewound(F[0], steps) = w[m]
  BY DEF Rewound
<1> HIDE DEF w, m
<1>4. 0 \in T
  BY <1>0, <1>2
<1>5. ASSUME NEW i \in 1..m, i - 1 \in T PROVE i \in T
  <2>1. w[i - 1].ok /\ w[i - 1].doc = F[i - 1]
    BY <1>5 DEF Unfailed
  <2>2. i \in 0..m
    BY <1>0
  <2> QED BY <1>1, <1>2, <2>1, <2>2
<1> HIDE DEF T
<1>6. m \in T
  BY <1>0, <1>4, <1>5, UpTo
<1> QED BY <1>3, <1>6 DEF T, m

LEMMA RedoneFollows ==
    ASSUME NEW n, NEW S, Records(S, n), NEW steps \in Seq(S), NEW F, GoesOn(F, n, steps)
    PROVE  Redone(F[0], steps) = Unfailed(F[Len(steps)])
<1> DEFINE m == Len(steps)
           w == RedoneUpTo(F[0], steps)
           T == {i \in 0..m : w[i] = Unfailed(F[i])}
<1>0. m \in Nat /\ 0 \in 0..m /\ m \in 0..m
  OBVIOUS
<1>1. /\ \A i \in 0..m : F[i] \in Docs(n)
      /\ \A i \in 1..m : ApplyOps(F[i - 1], steps[m - i + 1].ops) = Unfailed(F[i])
  BY DEF GoesOn
<1>2. /\ w[0] = Unfailed(F[0])
      /\ \A i \in 1..m : w[i] = IF w[i - 1].ok
                                THEN ApplyOps(w[i - 1].doc, steps[m - i + 1].ops)
                                ELSE w[i - 1]
  BY <1>0, <1>1, RedoneWalk
<1>3. Redone(F[0], steps) = w[m]
  BY DEF Redone
<1> HIDE DEF w, m
<1>4. 0 \in T
  BY <1>0, <1>2
<1>5. ASSUME NEW i \in 1..m, i - 1 \in T PROVE i \in T
  <2>1. w[i - 1].ok /\ w[i - 1].doc = F[i - 1]
    BY <1>5 DEF Unfailed
  <2>2. i \in 0..m
    BY <1>0
  <2> QED BY <1>1, <1>2, <2>1, <2>2
<1> HIDE DEF T
<1>6. m \in T
  BY <1>0, <1>4, <1>5, UpTo
<1> QED BY <1>3, <1>6 DEF T, m

\* Undoing back to step k shows what was shown before it.
Unwinds(len, n, u, d, k) ==
    \E e \in Docs(n) :
        /\ Rewound(d, SubSeq(u, k, Len(u))) = Unfailed(e)
        /\ e.base = d.base /\ u[k].shown = Display(e)
        /\ k = 1 => Original(len, e)

LEMMA HistoryRewinds ==
    ASSUME NEW len, NEW n, NEW S, Records(S, n), NEW u \in Seq(S), NEW r \in Seq(S),
           NEW d, History(len, u, r, n, d), NEW k \in 1..Len(u)
    PROVE  Unwinds(len, n, u, d, k)
<1> DEFINE m == Len(u)
           q == m - k + 1
           steps == SubSeq(u, k, m)
<1>0. m \in Nat /\ k \in 1..m /\ q \in Nat /\ m = k - 1 + q /\ k - 1 \in Nat
  OBVIOUS
<1>1. steps \in Seq(S) /\ Len(steps) = q /\ \A i \in 1..q : steps[i] = u[k - 1 + i]
  <2> DEFINE a == k - 1
  <2>1. a \in Nat /\ a + q <= Len(u) /\ a + 1 = k /\ a + q = m
    BY <1>0
  <2> HIDE DEF a, q, m
  <2>2. SubSeq(u, a + 1, a + q) \in Seq(S) /\ TakenFrom(SubSeq(u, a + 1, a + q), u, a, q)
    BY <1>0, <2>1, TakeIs, Zenon
  <2> QED BY <2>1, <2>2 DEF TakenFrom, a
<1>2. PICK E : Line(E, len, u, r, n, d)
  BY DEF History
<1>3. /\ \A i \in 0..m : E[i] \in Docs(n) /\ E[i].base = d.base
      /\ \A i \in 1..m : Linked(E, u[i], i)
      /\ Original(len, E[0]) /\ E[m] = d
  <2>1. /\ \A i \in 0..(m + Len(r)) : Stop(E, n, d.base, i)
        /\ \A i \in 1..(m + Len(r)) : Linked(E, StepOf(u, r, i), i)
        /\ Original(len, E[0]) /\ E[m] = d
    BY <1>2, LineIs
  <2>2. Len(r) \in Nat
    OBVIOUS
  <2>3. \A i \in 1..m : StepOf(u, r, i) = u[i] /\ i \in 1..(m + Len(r))
    BY <1>0, <2>2 DEF StepOf
  <2>4. \A i \in 0..m : i \in 0..(m + Len(r))
    BY <1>0, <2>2
  <2> QED BY <2>1, <2>3, <2>4 DEF Stop
<1> HIDE DEF m, q, steps
<1> DEFINE F == [i \in 0..q |-> E[m - i]]
<1>4. ASSUME NEW i \in 0..q PROVE F[i] \in Docs(n)
  <2>1. m - i \in 0..m
    BY <1>0
  <2> QED BY <1>3, <2>1
<1>5. ASSUME NEW i \in 1..q PROVE UndoOps(F[i - 1], steps[q - i + 1].ops) = Unfailed(F[i])
  <2> DEFINE j == m - i + 1
  <2>1. j \in 1..m /\ k - 1 + (q - i + 1) = j /\ q - i + 1 \in 1..q /\ j - 1 = m - i
        /\ i - 1 \in 0..q /\ i \in 0..q /\ m - (i - 1) = j
    BY <1>0
  <2> HIDE DEF j
  <2>2. F[i - 1] = E[j] /\ F[i] = E[j - 1] /\ steps[q - i + 1] = u[j]
    BY <1>1, <2>1
  <2> QED BY <1>3, <2>1, <2>2 DEF Linked, Leads
<1>6. F[0] = d /\ F[q] = E[k - 1]
  <2>1. m - 0 = m /\ m - q = k - 1 /\ 0 \in 0..q /\ q \in 0..q
    BY <1>0
  <2> QED BY <1>3, <2>1
<1> HIDE DEF F
<1>7. GoesBack(F, n, steps)
  BY <1>1, <1>4, <1>5 DEF GoesBack
<1>8. Rewound(d, steps) = Unfailed(E[k - 1])
  BY <1>1, <1>6, <1>7, RewoundFollows
<1>9. k - 1 \in 0..m
  BY <1>0
<1>10. u[k].shown = Display(E[k - 1])
  BY <1>0, <1>3 DEF Linked
<1> QED BY <1>3, <1>8, <1>9, <1>10 DEF steps, m, Unwinds

LEMMA HistoryReplayed ==
    ASSUME NEW len, NEW n, NEW S, Records(S, n), NEW u \in Seq(S), NEW r \in Seq(S),
           NEW d, History(len, u, r, n, d)
    PROVE  \E e \in Docs(n) :
                Redone(d, r) = Unfailed(e) /\ Rewound(e, Reverse(r)) = Unfailed(d)
<1> DEFINE a == Len(u)
           b == Len(r)
           m == a + b
           back == Reverse(r)
<1>0. a \in Nat /\ b \in Nat /\ m = a + b /\ m \in Nat
  OBVIOUS
<1>1. back \in Seq(S) /\ Len(back) = b /\ \A i \in 1..b : back[i] = r[b - i + 1]
  <2>1. \A i \in 1..b : b - i + 1 \in 1..b
    BY <1>0
  <2>2. \A i \in 1..b : r[b - i + 1] \in S
    BY <2>1
  <2>3. back = [i \in 1..b |-> r[b - i + 1]]
    BY DEF Reverse
  <2> QED BY <1>0, <2>2, <2>3
<1>2. PICK E : Line(E, len, u, r, n, d)
  BY DEF History
<1>3. /\ \A i \in 0..m : E[i] \in Docs(n)
      /\ \A i \in 1..m : Leads(E[i - 1], StepOf(u, r, i).ops, E[i])
      /\ E[a] = d
  BY <1>2, LineIs DEF Stop, Linked
<1> HIDE DEF a, m, b, back
<1>4. ASSUME NEW i \in 1..b PROVE Leads(E[(a + i) - 1], r[b - i + 1].ops, E[a + i])
  <2> DEFINE k == a + i
  <2>1. k \in 1..m /\ b - (k - a) + 1 = b - i + 1 /\ ~ k <= a
    BY <1>0
  <2> HIDE DEF k
  <2>2. StepOf(u, r, k) = r[b - i + 1]
    BY <2>1 DEF StepOf, a, b
  <2>3. Leads(E[k - 1], r[b - i + 1].ops, E[k])
    BY <1>3, <2>1, <2>2
  <2> QED BY <2>3 DEF k
<1> DEFINE F == [i \in 0..b |-> E[a + i]]
           G == [i \in 0..b |-> E[m - i]]
<1>5. GoesOn(F, n, r)
  <2>1. \A i \in 0..b : F[i] \in Docs(n)
    <3>1. \A i \in 0..b : a + i \in 0..m
      BY <1>0
    <3> QED BY <1>3, <3>1
  <2>2. ASSUME NEW i \in 1..b PROVE ApplyOps(F[i - 1], r[b - i + 1].ops) = Unfailed(F[i])
    <3>1. i - 1 \in 0..b /\ i \in 0..b /\ a + (i - 1) = (a + i) - 1
      BY <1>0
    <3>2. F[i - 1] = E[(a + i) - 1] /\ F[i] = E[a + i]
      BY <3>1
    <3> QED BY <1>4, <3>2 DEF Leads
  <2> HIDE DEF F
  <2> QED BY <2>1, <2>2 DEF GoesOn, b
<1>6. GoesBack(G, n, back)
  <2>1. \A i \in 0..b : G[i] \in Docs(n)
    <3>1. \A i \in 0..b : m - i \in 0..m
      BY <1>0
    <3> QED BY <1>3, <3>1
  <2>2. ASSUME NEW i \in 1..b PROVE UndoOps(G[i - 1], back[b - i + 1].ops) = Unfailed(G[i])
    <3> DEFINE j == b - i + 1
    <3>1. /\ j \in 1..b /\ b - j + 1 = i /\ i - 1 \in 0..b /\ i \in 0..b
          /\ m - (i - 1) = a + j /\ m - i = (a + j) - 1
      BY <1>0
    <3> HIDE DEF j
    <3>2. G[i - 1] = E[a + j] /\ G[i] = E[(a + j) - 1]
      BY <3>1
    <3>3. back[j] = r[b - j + 1]
      BY <1>1, <3>1
    <3>4. UndoOps(G[i - 1], back[j].ops) = Unfailed(G[i])
      BY <1>4, <3>1, <3>2, <3>3 DEF Leads
    <3> QED BY <3>4 DEF j
  <2> HIDE DEF G
  <2> QED BY <1>1, <2>1, <2>2 DEF GoesBack
<1>7. /\ F[0] = d /\ F[b] = E[m] /\ G[0] = E[m] /\ G[b] = d
  <2>1. a + 0 = a /\ a + b = m /\ m - 0 = m /\ m - b = a /\ 0 \in 0..b /\ b \in 0..b
    BY <1>0
  <2> QED BY <1>3, <2>1
<1> HIDE DEF F, G
<1>8. Redone(d, r) = Unfailed(E[m])
  BY <1>5, <1>7, RedoneFollows DEF b
<1>9. Rewound(E[m], back) = Unfailed(d)
  BY <1>1, <1>6, <1>7, RewoundFollows
<1>10. E[m] \in Docs(n)
  BY <1>0, <1>3
<1> QED BY <1>8, <1>9, <1>10 DEF back

LEMMA HistoryDoc ==
    ASSUME NEW len, NEW n, NEW S, NEW u \in Seq(S), NEW r \in Seq(S), NEW d,
           History(len, u, r, n, d)
    PROVE  d \in Docs(n) /\ Injective(d.cells)
<1>1. PICK E : Line(E, len, u, r, n, d)
  BY DEF History
<1>2. Len(u) \in 0..(Len(u) + Len(r))
  OBVIOUS
<1> QED BY <1>1, <1>2, LineIs DEF Stop

LEMMA DisplayIs ==
    ASSUME NEW n, NEW d \in Docs(n)
    PROVE  Display(d) \in Seq(Byte \cup {None})
<1>1. d.cells \in Seq(1..n) /\ n \in Nat
  BY DocIs
<1>2. ASSUME NEW i \in 1..Len(d.cells)
      PROVE  (IF d.cells[i] \in d.tomb THEN None ELSE Shown(d, d.cells[i])) \in Byte \cup {None}
  <2>1. d.cells[i] \in 1..n
    BY <1>1
  <2> QED BY <2>1, ShownIs
<1>3. Display(d) = [i \in 1..Len(d.cells) |->
                      IF d.cells[i] \in d.tomb THEN None ELSE Shown(d, d.cells[i])]
  BY <1>1 DEF Display
<1> QED BY <1>1, <1>2, <1>3

(***************************************************************************)
(* New cells                                                               *)
(***************************************************************************)

Nowhere == [x \in {} |-> None]

Longer(d, bytes) == d.base \o bytes

\* Document d with bytes in the add buffer, where nothing shows them yet.
Grown(d, bytes) == Extended(d, Longer(d, bytes), Nowhere)

LEMMA NowhereIs ==
    ASSUME NEW S, NEW V, NEW f \in Partial(S, V)
    PROVE  Nowhere \in Partial(S, V) /\ DOMAIN Nowhere = {} /\ Over(f, Nowhere) = f
<1>1. DOMAIN Nowhere = {} /\ Nowhere \in [{} -> V] /\ {} \in SUBSET S
  BY DEF Nowhere
<1>2. Nowhere \in Partial(S, V)
  BY <1>1, IsPartial
<1> QED BY <1>1, <1>2, OverNothing

\* What growing d from n to k cells does.
Grows(d, n, bytes, k) ==
    /\ n \in Nat /\ n <= k /\ k \in Nat /\ Len(Longer(d, bytes)) = n + Len(bytes)
    /\ Extension(n, d, k, Longer(d, bytes), Nowhere)
    /\ Grown(d, bytes) \in Docs(k)
    /\ Grown(d, bytes) = [base |-> Longer(d, bytes), cells |-> d.cells,
                          tomb |-> d.tomb, repl |-> d.repl]
    /\ Display(Grown(d, bytes)) = Display(d)

LEMMA GrownIs ==
    ASSUME NEW n, NEW d \in Docs(n), n = Len(d.base), NEW bytes \in Seq(Byte),
           NEW k, k \in n..(n + Len(bytes))
    PROVE  Grows(d, n, bytes, k)
<1> DEFINE base == Longer(d, bytes)
<1>1. /\ n \in Nat /\ k \in Nat /\ n <= k /\ k <= n + Len(bytes)
      /\ d.base \in Seq(Byte) /\ d.repl \in Partial(1..n, Byte)
  BY DocIs
<1>2. /\ base \in Seq(Byte) /\ Len(base) = n + Len(bytes)
      /\ \A i \in 1..n : base[i] = d.base[i]
  BY <1>1, JoinIs DEF Longer
<1>3. Nowhere \in Partial(1..k, Byte) /\ DOMAIN Nowhere = {} /\ Over(d.repl, Nowhere) = d.repl
  BY <1>1, NowhereIs, PartialGrows
<1> HIDE DEF base
<1>4. Extension(n, d, k, base, Nowhere)
  BY <1>1, <1>2, <1>3 DEF Extension
<1>5. Extended(d, base, Nowhere) \in Docs(k)
  BY <1>4, ExtendedIs
<1>6. Display(Extended(d, base, Nowhere)) = Display(d)
  BY <1>4, ExtendedDisplay
<1>7. Extended(d, base, Nowhere) = [base |-> base, cells |-> d.cells, tomb |-> d.tomb,
                                    repl |-> d.repl]
  BY <1>3 DEF Extended
<1> QED BY <1>1, <1>2, <1>4, <1>5, <1>6, <1>7 DEF Grown, Grows, base

\* An insertion is a longer buffer, and the new cells spliced in.
Inserted(d, n, off, bytes, k) ==
    /\ k \in Nat /\ n < k
    /\ Grows(d, n, bytes, k)
    /\ InsertBytes(d, off, bytes) = Splice(Grown(d, bytes), off, InsertedCells(d, bytes))
    /\ InsertBytes(d, off, bytes) \in Docs(k)
    /\ Edits(k, Grown(d, bytes), <<InsertOp(off, InsertedCells(d, bytes))>>,
             InsertBytes(d, off, bytes))
    /\ DocLen(InsertBytes(d, off, bytes)) = DocLen(d) + Len(bytes)
    /\ InsertBytes(d, off, bytes).cells = SpliceSeq(d.cells, off, InsertedCells(d, bytes))
    /\ InsertBytes(d, off, bytes).base = Longer(d, bytes)

\* The cells t that are allocated for the bytes are none of those before.
Fresher(d, n, bytes, k, t) ==
    /\ k \in n..(n + Len(bytes)) /\ k \in Nat /\ n < k /\ n \in Nat
    /\ t \in Seq(1..k) /\ t # <<>> /\ Len(t) = Len(bytes)
    /\ \A i \in 1..Len(bytes) : t[i] = n + i
    /\ Injective(t)
    /\ \A i \in 1..Len(d.cells), j \in 1..Len(t) : d.cells[i] # t[j]

LEMMA NewCells ==
    ASSUME NEW n, NEW d \in Docs(n), n = Len(d.base), NEW bytes \in Seq(Byte), bytes # <<>>,
           NEW k, k = n + Len(bytes)
    PROVE  Fresher(d, n, bytes, k, InsertedCells(d, bytes))
<1> DEFINE t == InsertedCells(d, bytes)
           m == Len(bytes)
<1>0. n \in Nat /\ m \in Nat /\ m > 0 /\ k = n + m
  BY DocIs
<1>1. k \in n..(n + m) /\ k \in Nat /\ n < k
  BY <1>0
<1>2. t \in Seq(1..k) /\ Len(t) = m /\ \A i \in 1..m : t[i] = n + i
  <2>1. t = [i \in 1..m |-> n + i]
    BY DEF InsertedCells
  <2> QED BY <1>0, <2>1
<1> HIDE DEF t, m
<1>3. Injective(t) /\ t # <<>>
  <2>1. DOMAIN t = 1..m
    BY <1>2
  <2>2. Injective(t)
    BY <1>0, <1>2, <2>1 DEF Injective
  <2> QED BY <1>0, <1>2, <2>2
<1>4. \A i \in 1..Len(d.cells), j \in 1..Len(t) : d.cells[i] # t[j]
  <2>1. \A i \in 1..Len(d.cells) : d.cells[i] \in 1..n
    <3>1. d.cells \in Seq(1..n)
      BY DocIs
    <3> QED BY <3>1
  <2>2. ASSUME NEW j \in 1..Len(t) PROVE t[j] > n /\ t[j] \in Nat
    <3>1. j \in 1..m /\ t[j] = n + j
      BY <1>2
    <3> QED BY <1>0, <3>1
  <2>3. ASSUME NEW i \in 1..Len(d.cells), NEW j \in 1..Len(t) PROVE d.cells[i] # t[j]
    <3>1. d.cells[i] <= n /\ d.cells[i] \in Nat /\ t[j] > n /\ t[j] \in Nat
      BY <1>0, <2>1, <2>2
    <3> QED BY <1>0, <3>1
  <2> QED BY <2>3
<1>5. Fresher(d, n, bytes, k, t)
  BY <1>0, <1>1, <1>2, <1>3, <1>4 DEF Fresher, m
<1> QED BY <1>5 DEF t

LEMMA InsertIs ==
    ASSUME NEW n, NEW d \in Docs(n), n = Len(d.base), NEW bytes \in Seq(Byte), bytes # <<>>,
           NEW off \in Nat, off <= DocLen(d), NEW k, k = n + Len(bytes)
    PROVE  Inserted(d, n, off, bytes, k)
<1> DEFINE t == InsertedCells(d, bytes)
           x == Grown(d, bytes)
           base == Longer(d, bytes)
<1>1. /\ k \in n..(n + Len(bytes)) /\ k \in Nat /\ n < k /\ n \in Nat
      /\ t \in Seq(1..k) /\ t # <<>> /\ Len(t) = Len(bytes) /\ Injective(t)
      /\ \A i \in 1..Len(d.cells), j \in 1..Len(t) : d.cells[i] # t[j]
  <2>1. Fresher(d, n, bytes, k, t)
    BY NewCells
  <2> HIDE DEF t
  <2> QED BY <2>1 DEF Fresher
<1>2. Grows(d, n, bytes, k)
  BY <1>1, GrownIs
<1>3. /\ x \in Docs(k)
      /\ x = [base |-> base, cells |-> d.cells, tomb |-> d.tomb, repl |-> d.repl]
  BY <1>2 DEF Grows
<1>4. d.cells \in Seq(1..n) /\ DocLen(d) = Len(d.cells) /\ DocLen(d) \in Nat
      /\ d = [base |-> d.base, cells |-> d.cells, tomb |-> d.tomb, repl |-> d.repl]
  BY DocIs
<1>5. [d EXCEPT !.base = @ \o bytes] = [d EXCEPT !.base = base]
  BY DEF Longer
<1> HIDE DEF x, t, base
<1>6. [d EXCEPT !.base = base] = x
  <2>1. [d EXCEPT !.base = base] =
            [base |-> base, cells |-> d.cells, tomb |-> d.tomb, repl |-> d.repl]
    BY DocIs
  <2> QED BY <1>3, <2>1
<1>7. InsertBytes(d, off, bytes) = Splice(x, off, t)
  BY <1>5, <1>6 DEF InsertBytes, t
<1>8. x.cells = d.cells /\ DocLen(x) = DocLen(d) /\ x.base = base
  BY <1>3 DEF DocLen
<1>9. Edits(k, x, <<InsertOp(off, t)>>, Splice(x, off, t))
  BY <1>1, <1>3, <1>8, InsertEdits
<1>10. /\ Splice(x, off, t) \in Docs(k) /\ Splice(x, off, t).cells = SpliceSeq(d.cells, off, t)
       /\ Splice(x, off, t).base = base
  BY <1>1, <1>3, <1>8, SpliceIs
<1>11. Len(SpliceSeq(d.cells, off, t)) = Len(d.cells) + Len(bytes)
  <2>1. d.cells \in Seq(1..k)
    BY <1>1, <1>4, CellsGrow
  <2>2. SplicedAs(SpliceSeq(d.cells, off, t), d.cells, off, t)
    BY <1>1, <1>4, <2>1, SpliceSeqIs
  <2> QED BY <1>1, <2>2 DEF SplicedAs
<1>12. DocLen(Splice(x, off, t)) = DocLen(d) + Len(bytes)
  BY <1>4, <1>10, <1>11 DEF DocLen
<1>13. /\ Edits(k, x, <<InsertOp(off, t)>>, InsertBytes(d, off, bytes))
       /\ InsertBytes(d, off, bytes) \in Docs(k)
       /\ DocLen(InsertBytes(d, off, bytes)) = DocLen(d) + Len(bytes)
       /\ InsertBytes(d, off, bytes).cells = SpliceSeq(d.cells, off, t)
       /\ InsertBytes(d, off, bytes).base = base
  BY <1>7, <1>9, <1>10, <1>12
<1> QED BY <1>1, <1>2, <1>7, <1>13 DEF Inserted, t, x, base

\* The last step of a stack, and the rest.
LEMMA LastIs ==
    ASSUME NEW S, NEW s \in Seq(S), s # <<>>
    PROVE  Last(s) \in S /\ Front(s) \in Seq(S)
<1>1. Len(s) \in Nat /\ Len(s) # 0 /\ Len(s) \in 1..Len(s) /\ Len(s) - 1 \in Nat
  OBVIOUS
<1>2. Last(s) = s[Len(s)] /\ Front(s) = SubSeq(s, 1, Len(s) - 1)
  BY DEF Last, Front
<1>3. Front(s) \in Seq(S)
  BY <1>1, <1>2, PrefixIs
<1> QED BY <1>1, <1>2, <1>3

(***************************************************************************)
(* What a document shows, and where it starts                              *)
(***************************************************************************)

LEMMA LogicalWalk ==
    ASSUME NEW n, NEW d \in Docs(n)
    PROVE  /\ LogicalUpTo(d) \in [0..DocLen(d) -> Seq(Byte)]
<1> DEFINE m == DocLen(d)
           Gone(i) == d.cells[i] \in d.tomb
           Show(i) == Shown(d, d.cells[i])
           X == Seq(Byte)
           step == [i \in 1..m |-> [x \in X |-> IF Gone(i) THEN x ELSE Append(x, Show(i))]]
           Is(f) == f = [i \in 0..m |->
                            IF i = 0 THEN <<>> ELSE IF Gone(i) THEN f[i - 1] ELSE Append(f[i - 1], Show(i))]
           w == LogicalUpTo(d)
<1>0. m \in Nat /\ <<>> \in X
  BY DocIs
<1>1. ASSUME NEW i \in 1..m PROVE Show(i) \in Byte
  <2>1. d.cells[i] \in 1..n
    BY DocIs
  <2> QED BY <2>1, ShownIs
<1>2. w = CHOOSE g : Is(g)
  BY Zenon DEF LogicalUpTo
<1> HIDE DEF m, Gone, Show, X, w
<1>3. ASSUME NEW i \in 1..m, NEW x \in X PROVE (IF Gone(i) THEN x ELSE Append(x, Show(i))) \in X
  BY <1>1 DEF X
<1>4. step \in [1..m -> [X -> X]]
  BY <1>3
<1>5. ASSUME NEW i \in 1..m, NEW x \in X PROVE step[i][x] = IF Gone(i) THEN x ELSE Append(x, Show(i))
  OBVIOUS
<1> HIDE DEF step
<1>6. PICK f \in [0..m -> X] : Repeats(f, m, <<>>, step)
  BY <1>0, <1>4, Recursion
<1>7. f[0] = <<>> /\ \A i \in 1..m : f[i] = IF Gone(i) THEN f[i - 1] ELSE Append(f[i - 1], Show(i))
  <2>1. ASSUME NEW i \in 1..m PROVE f[i] = IF Gone(i) THEN f[i - 1] ELSE Append(f[i - 1], Show(i))
    <3>1. f[i - 1] \in X
      BY <1>0
    <3> QED BY <1>5, <1>6, <3>1 DEF Repeats
  <2> QED BY <1>6, <2>1 DEF Repeats
<1>8. Is(f)
  <2>1. \A i \in 0..m : i # 0 => i \in 1..m
    BY <1>0
  <2> QED BY <1>7, <2>1
<1>9. Is(w)
  <2> HIDE DEF Is
  <2> QED BY <1>2, <1>8, Zenon
<1>10. /\ w = [i \in 0..m |-> w[i]] /\ w[0] = <<>>
       /\ \A i \in 1..m : w[i] = IF Gone(i) THEN w[i - 1] ELSE Append(w[i - 1], Show(i))
  <2>1. 0 \in 0..m /\ \A i \in 1..m : i \in 0..m /\ i # 0
    BY <1>0
  <2> QED BY <1>9, <2>1
<1> HIDE DEF Is
<1>11. w = f
  <2>1. \A i \in 1..m : f[i - 1] = w[i - 1] => f[i] = w[i]
    BY <1>7, <1>10
  <2>2. GoOnAlike(m, f, w)
    BY <1>7, <1>10, <2>1 DEF GoOnAlike
  <2> QED BY <1>0, <2>2, SameWalk
<1> QED BY <1>10, <1>11 DEF m, Gone, Show, X, w

LEMMA LogicalIs ==
    ASSUME NEW n, NEW d \in Docs(n)
    PROVE  LogicalBytes(d) \in Seq(Byte)
<1>1. DocLen(d) \in 0..DocLen(d)
  BY DocIs
<1>2. LogicalUpTo(d) \in [0..DocLen(d) -> Seq(Byte)]
  BY LogicalWalk
<1> QED BY <1>1, <1>2 DEF LogicalBytes

\* A document that starts over has no history.
LEMMA FreshDoc ==
    ASSUME NEW bytes \in Seq(Byte)
    PROVE  /\ History(Len(bytes), <<>>, <<>>, Len(bytes), DocOf(bytes))
           /\ DocOf(bytes) \in Docs(Len(bytes)) /\ Injective(DocOf(bytes).cells)
           /\ DocOf(bytes).base = bytes /\ DocOf(bytes).tomb = {}
           /\ DocLen(DocOf(bytes)) = Len(bytes)
<1> DEFINE n == Len(bytes)
           cells == [i \in 1..n |-> i]
           d == DocOf(bytes)
           E == [k \in {0} |-> d]
<1>1. n \in Nat /\ cells \in Seq(1..n) /\ Len(cells) = n
  OBVIOUS
<1>2. d = [base |-> bytes, cells |-> cells, tomb |-> {}, repl |-> <<>>]
  BY DEF DocOf
<1>3. <<>> \in Partial(1..n, Byte) /\ DOMAIN <<>> = {}
  <2>1. <<>> \in [{} -> Byte] /\ DOMAIN <<>> = {}
    OBVIOUS
  <2> QED BY <2>1, IsPartial
<1>4. Injective(cells)
  BY DEF Injective
<1> HIDE DEF cells, d
<1>5. d \in Docs(n)
  <2>1. {} \in SUBSET (1..n) /\ n <= Len(bytes)
    BY <1>1
  <2> QED BY <1>1, <1>2, <1>3, <2>1, IsDoc
<1>6. d.base = bytes /\ d.cells = cells /\ d.tomb = {} /\ d.repl = <<>> /\ DocLen(d) = n
  BY <1>1, <1>2 DEF DocLen
<1>7. E[0] = d
  OBVIOUS
<1>8. Stop(E, n, d.base, 0) /\ Original(n, E[0])
  <2> HIDE DEF E
  <2>1. DOMAIN d.repl \cap 1..n = {} /\ n <= Len(d.base)
    BY <1>1, <1>3, <1>6
  <2> QED BY <1>4, <1>5, <1>6, <1>7, <2>1 DEF Stop, Original, cells
<1>9. History(n, <<>>, <<>>, n, d)
  <2> HIDE DEF E
  <2>1. Len(<<>>) = 0 /\ 0..(0 + 0) = {0} /\ 1..(0 + 0) = {}
    OBVIOUS
  <2>2. Line(E, n, <<>>, <<>>, n, d)
    BY <1>7, <1>8, <2>1 DEF Line
  <2> QED BY <2>2 DEF History
<1> QED BY <1>4, <1>5, <1>6, <1>9 DEF d

\* The document of this moment is the last one when nothing was undone.
LEMMA NothingUndone ==
    ASSUME NEW n, NEW d \in Docs(n)
    PROVE  Rewound(d, <<>>) = Unfailed(d) /\ Redone(d, <<>>) = Unfailed(d)
<1> DEFINE s == <<>>
           F == [i \in {0} |-> d]
<1>1. /\ s \in Seq({}) /\ Len(s) = 0 /\ 0..0 = {0} /\ 1..0 = {}
      /\ Records({}, n)
  BY DEF Records
<1> HIDE DEF s
<1>2. F[0] = d /\ \A i \in {0} : F[i] \in Docs(n)
  OBVIOUS
<1> HIDE DEF F
<1>3. GoesBack(F, n, s) /\ GoesOn(F, n, s)
  BY <1>1, <1>2 DEF GoesBack, GoesOn
<1>4. Rewound(F[0], s) = Unfailed(F[Len(s)]) /\ Redone(F[0], s) = Unfailed(F[Len(s)])
  BY <1>1, <1>3, RewoundFollows, RedoneFollows
<1> QED BY <1>1, <1>2, <1>4 DEF s

\* The original document shows the bytes the file had.
LEMMA OriginalShows ==
    ASSUME NEW n, NEW d \in Docs(n), NEW len \in Nat, Original(len, d)
    PROVE  Display(d) = SubSeq(d.base, 1, len)
<1>1. /\ len <= Len(d.base) /\ d.cells = [i \in 1..len |-> i] /\ d.tomb = {}
      /\ DOMAIN d.repl \cap 1..len = {}
  BY DEF Original
<1>2. d.base \in Seq(Byte)
  BY DocIs
<1>3. Display(d) = [i \in 1..len |-> d.base[i]]
  <2>1. DOMAIN d.cells = 1..len /\ \A i \in 1..len : d.cells[i] = i
    BY <1>1
  <2>2. \A i \in 1..len : d.cells[i] \notin d.tomb /\ Shown(d, d.cells[i]) = d.base[i]
    BY <1>1, <2>1 DEF Shown
  <2> QED BY <2>1, <2>2 DEF Display
<1> DEFINE t == d.base
<1>4. SubSeq(t, 1, len) \in Seq(Byte) /\ TakenFrom(SubSeq(t, 1, len), t, 0, len)
  <2>1. t \in Seq(Byte) /\ 0 \in Nat /\ 0 + len <= Len(t) /\ 0 + 1 = 1 /\ 0 + len = len
    BY <1>1, <1>2
  <2> HIDE DEF t
  <2>2. SubSeq(t, 0 + 1, 0 + len) \in Seq(Byte)
        /\ TakenFrom(SubSeq(t, 0 + 1, 0 + len), t, 0, len)
    BY <2>1, TakeIs, Zenon
  <2> QED BY <2>1, <2>2
<1> HIDE DEF t
<1>5. SubSeq(t, 1, len) = [i \in 1..len |-> t[i]]
  <2> DEFINE s == SubSeq(t, 1, len)
  <2>1. s \in Seq(Byte) /\ Len(s) = len /\ \A i \in 1..len : s[i] = t[0 + i]
    BY <1>4 DEF TakenFrom
  <2>2. \A i \in 1..len : 0 + i = i
    OBVIOUS
  <2> HIDE DEF s
  <2>3. s = [i \in 1..len |-> s[i]]
    BY <2>1
  <2>4. s = [i \in 1..len |-> t[i]]
    BY <2>1, <2>2, <2>3
  <2> QED BY <2>4 DEF s
<1> QED BY <1>3, <1>5 DEF t

\* A history with no steps is the original document.
LEMMA HistoryStarts ==
    ASSUME NEW len, NEW n, NEW S, Records(S, n), NEW u \in Seq(S), NEW r \in Seq(S),
           NEW d, History(len, u, r, n, d)
    PROVE  \E e \in Docs(n) :
                /\ Rewound(d, SubSeq(u, 1, Len(u))) = Unfailed(e)
                /\ e.base = d.base /\ Original(len, e)
<1>1. CASE Len(u) = 0
  <2>1. u = <<>> /\ SubSeq(u, 1, Len(u)) = <<>>
    BY <1>1
  <2>2. PICK E : Line(E, len, u, r, n, d)
    BY DEF History
  <2>3. Original(len, d)
    BY <1>1, <2>2, LineIs
  <2>4. d \in Docs(n)
    BY HistoryDoc
  <2> QED BY <2>1, <2>3, <2>4, NothingUndone
<1>2. CASE Len(u) # 0
  <2> DEFINE k == 1
  <2>1. k \in 1..Len(u) /\ k = 1
    BY <1>2
  <2> HIDE DEF k
  <2>2. PICK e \in Docs(n) :
            /\ Rewound(d, SubSeq(u, k, Len(u))) = Unfailed(e)
            /\ e.base = d.base /\ u[k].shown = Display(e)
            /\ k = 1 => Original(len, e)
    <3>1. Unwinds(len, n, u, d, k)
      BY <2>1, HistoryRewinds
    <3> QED BY <3>1 DEF Unwinds
  <2> QED BY <2>1, <2>2
<1> QED BY <1>1, <1>2

(***************************************************************************)
(* What is kept of a list of operations                                    *)
(***************************************************************************)

LEMMA EffectiveWalk ==
    ASSUME NEW S, NEW ops \in Seq(S)
    PROVE  /\ EffectiveUpTo(ops) \in [0..Len(ops) -> Seq(S)]
           /\ EffectiveUpTo(ops)[0] = <<>>
           /\ \A i \in 1..Len(ops) :
                EffectiveUpTo(ops)[i] = IF HasEffect(ops[i])
                    THEN Append(EffectiveUpTo(ops)[i - 1], ops[i])
                    ELSE EffectiveUpTo(ops)[i - 1]
<1> DEFINE m == Len(ops)
           Op(i) == ops[i]
           Counts(i) == HasEffect(ops[i])
           X == Seq(S)
           step == [i \in 1..m |-> [x \in X |-> (IF Counts(i) THEN Append(x, Op(i)) ELSE x)]]
           Is(f) == f = [i \in 0..m |->
                            IF i = 0 THEN <<>> ELSE (IF Counts(i) THEN Append(f[i - 1], Op(i)) ELSE f[i - 1])]
           w == EffectiveUpTo(ops)
<1>0. m \in Nat /\ <<>> \in X
  OBVIOUS
<1>1. \A i \in 1..m : Op(i) \in S
  OBVIOUS
<1>2. w = CHOOSE g : Is(g)
  BY Zenon DEF EffectiveUpTo
<1> HIDE DEF m, Op, Counts, X, w
<1>3. ASSUME NEW i \in 1..m, NEW x \in X PROVE (IF Counts(i) THEN Append(x, Op(i)) ELSE x) \in X
  BY <1>1, <1>3 DEF X
<1>4. step \in [1..m -> [X -> X]]
  BY <1>3
<1>5. ASSUME NEW i \in 1..m, NEW x \in X PROVE step[i][x] = (IF Counts(i) THEN Append(x, Op(i)) ELSE x)
  OBVIOUS
<1> HIDE DEF step
<1>6. PICK f \in [0..m -> X] : Repeats(f, m, <<>>, step)
  BY <1>0, <1>4, Recursion
<1>7. f[0] = <<>> /\ \A i \in 1..m : f[i] = (IF Counts(i) THEN Append(f[i - 1], Op(i)) ELSE f[i - 1])
  <2>1. ASSUME NEW i \in 1..m PROVE f[i] = (IF Counts(i) THEN Append(f[i - 1], Op(i)) ELSE f[i - 1])
    <3>1. f[i - 1] \in X
      BY <1>0
    <3> QED BY <1>5, <1>6, <3>1 DEF Repeats
  <2> QED BY <1>6, <2>1 DEF Repeats
<1>8. Is(f)
  <2>1. \A i \in 0..m : i # 0 => i \in 1..m
    BY <1>0
  <2> QED BY <1>7, <2>1
<1>9. Is(w)
  <2> HIDE DEF Is
  <2> QED BY <1>2, <1>8, Zenon
<1>10. /\ w = [i \in 0..m |-> w[i]] /\ w[0] = <<>>
       /\ \A i \in 1..m : w[i] = (IF Counts(i) THEN Append(w[i - 1], Op(i)) ELSE w[i - 1])
  <2>1. 0 \in 0..m /\ \A i \in 1..m : i \in 0..m /\ i # 0
    BY <1>0
  <2> QED BY <1>9, <2>1
<1> HIDE DEF Is
<1>11. w = f
  <2>1. \A i \in 1..m : f[i - 1] = w[i - 1] => f[i] = w[i]
    BY <1>7, <1>10
  <2>2. GoOnAlike(m, f, w)
    BY <1>7, <1>10, <2>1 DEF GoOnAlike
  <2> QED BY <1>0, <2>2, SameWalk
<1> QED BY <1>10, <1>11 DEF m, Op, Counts, X, w

LEMMA EffectiveIs ==
    ASSUME NEW S, NEW ops \in Seq(S)
    PROVE  /\ Effective(ops) \in Seq(S)
           /\ ops = <<>> => Effective(ops) = <<>>
           /\ Len(ops) = 1 => Effective(ops) = IF HasEffect(ops[1]) THEN ops ELSE <<>>
<1> DEFINE w == EffectiveUpTo(ops)
<1>0. Len(ops) \in Nat /\ Len(ops) \in 0..Len(ops)
  OBVIOUS
<1>1. /\ w \in [0..Len(ops) -> Seq(S)] /\ w[0] = <<>>
      /\ \A i \in 1..Len(ops) :
            w[i] = IF HasEffect(ops[i]) THEN Append(w[i - 1], ops[i]) ELSE w[i - 1]
  BY EffectiveWalk
<1> HIDE DEF w
<1>2. Effective(ops) = w[Len(ops)]
  BY DEF Effective, w
<1>3. ASSUME Len(ops) = 1 PROVE Effective(ops) = IF HasEffect(ops[1]) THEN ops ELSE <<>>
  <2>1. w[1] = IF HasEffect(ops[1]) THEN Append(w[1 - 1], ops[1]) ELSE w[1 - 1]
    BY <1>1, <1>3
  <2>2. w[1 - 1] = <<>>
    BY <1>1
  <2>3. Append(<<>>, ops[1]) = ops
    BY <1>3
  <2> QED BY <1>2, <1>3, <2>1, <2>2, <2>3
<1> QED BY <1>0, <1>1, <1>2, <1>3

\* The operations of a list that all have an effect are all kept.
LEMMA AllEffective ==
    ASSUME NEW S, NEW ops \in Seq(S), \A i \in 1..Len(ops) : HasEffect(ops[i])
    PROVE  Effective(ops) = ops
<1> DEFINE w == EffectiveUpTo(ops)
           m == Len(ops)
           Pre(i) == SubSeq(ops, 1, i)
           T == {i \in 0..m : w[i] = Pre(i)}
<1>0. m \in Nat
  OBVIOUS
<1>1. /\ w[0] = <<>>
      /\ \A i \in 1..m : w[i] = Append(w[i - 1], ops[i])
  BY EffectiveWalk
<1> HIDE DEF w, m
<1>2. 0 \in T
  <2>1. Pre(0) = <<>>
    OBVIOUS
  <2> HIDE DEF Pre
  <2> QED BY <1>0, <1>1, <2>1
<1>3. ASSUME NEW i \in 1..m, i - 1 \in T PROVE i \in T
  <2>1. Pre(i) = Append(Pre(i - 1), ops[i])
    <3> DEFINE s == SubSeq(ops, 1, i)
               p == SubSeq(ops, 1, i - 1)
    <3>1. s \in Seq(S) /\ Len(s) = i /\ \A j \in 1..i : s[j] = ops[j]
      <4>1. i \in Nat /\ i <= Len(ops)
        BY <1>0 DEF m
      <4> QED BY <4>1, PrefixIs
    <3>2. p \in Seq(S) /\ Len(p) = i - 1 /\ \A j \in 1..(i - 1) : p[j] = ops[j]
      <4>1. i - 1 \in Nat /\ i - 1 <= Len(ops)
        BY <1>0 DEF m
      <4> QED BY <4>1, PrefixIs
    <3>3. ops[i] \in S
      BY <1>0 DEF m
    <3> HIDE DEF s, p
    <3>4. Append(p, ops[i]) \in Seq(S) /\ Len(Append(p, ops[i])) = i
      BY <3>2, <3>3
    <3>5. \A j \in 1..i : Append(p, ops[i])[j] = s[j]
      BY <3>1, <3>2, <3>3
    <3> QED BY <3>1, <3>4, <3>5, SameSeq DEF s, p
  <2>2. i \in 0..m /\ i - 1 \in 0..m
    BY <1>0
  <2> HIDE DEF Pre
  <2> QED BY <1>1, <1>3, <2>1, <2>2
<1>4. \A i \in 0..m : i \in T
  <2> HIDE DEF T
  <2> QED BY <1>0, <1>2, <1>3, UpTo
<1>5. w[m] = Pre(m)
  BY <1>0, <1>4
<1>6. Pre(m) = ops
  BY DEF m
<1> QED BY <1>5, <1>6 DEF Effective, w, m

LEMMA AppendJoin ==
    ASSUME NEW S, NEW s \in Seq(S), NEW t \in Seq(S), NEW x \in S
    PROVE  s \o Append(t, x) = Append(s \o t, x)
<1>1. s \o Append(t, x) \in Seq(S) /\ Append(s \o t, x) \in Seq(S)
  OBVIOUS
<1>2. Len(s \o Append(t, x)) = Len(Append(s \o t, x))
  OBVIOUS
<1>3. \A i \in 1..Len(s \o Append(t, x)) : (s \o Append(t, x))[i] = Append(s \o t, x)[i]
  OBVIOUS
<1> QED BY <1>1, <1>2, <1>3, SameSeq

\* What is kept of two lists is what is kept of each.
LEMMA EffectiveJoin ==
    ASSUME NEW S, NEW a \in Seq(S), NEW b \in Seq(S)
    PROVE  Effective(a \o b) = Effective(a) \o Effective(b)
<1> DEFINE v == EffectiveUpTo(a)
           w == EffectiveUpTo(b)
           u == EffectiveUpTo(a \o b)
           m == Len(a)
           n == Len(b)
           T == {i \in 0..m : u[i] = v[i]}
           R == {i \in 0..n : u[m + i] = v[m] \o w[i]}
<1>0. /\ a \o b \in Seq(S) /\ m \in Nat /\ n \in Nat /\ Len(a \o b) = m + n
      /\ \A i \in 1..m : (a \o b)[i] = a[i]
      /\ \A i \in 1..n : (a \o b)[m + i] = b[i]
  <2>1. \A i \in 1..n : m + i \in (m + 1)..(m + n) /\ (m + i) - m = i
    OBVIOUS
  <2> QED BY <2>1, JoinIs
<1>1. /\ v \in [0..m -> Seq(S)] /\ v[0] = <<>>
      /\ \A i \in 1..m : v[i] = IF HasEffect(a[i]) THEN Append(v[i - 1], a[i]) ELSE v[i - 1]
  BY EffectiveWalk
<1>2. /\ w \in [0..n -> Seq(S)] /\ w[0] = <<>>
      /\ \A i \in 1..n : w[i] = IF HasEffect(b[i]) THEN Append(w[i - 1], b[i]) ELSE w[i - 1]
  BY EffectiveWalk
<1>3. /\ u[0] = <<>>
      /\ \A i \in 1..(m + n) :
            u[i] = IF HasEffect((a \o b)[i]) THEN Append(u[i - 1], (a \o b)[i]) ELSE u[i - 1]
  BY <1>0, EffectiveWalk
<1>b. \A i \in 1..n : b[i] \in S
  OBVIOUS
<1> HIDE DEF u, v, w, m, n
<1>4. u[m] = v[m]
  <2>1. 0 \in T
    BY <1>0, <1>1, <1>3
  <2>2. ASSUME NEW i \in 1..m, i - 1 \in T PROVE i \in T
    <3>1. i \in 1..(m + n) /\ i \in 0..m /\ (a \o b)[i] = a[i]
      BY <1>0
    <3> QED BY <1>1, <1>3, <2>2, <3>1
  <2>3. \A i \in 0..m : i \in T
    <3> HIDE DEF T
    <3> QED BY <1>0, <2>1, <2>2, UpTo
  <2> QED BY <1>0, <2>3
<1>5. u[m + n] = v[m] \o w[n]
  <2>0. v[m] \in Seq(S)
    BY <1>0, <1>1
  <2>1. 0 \in R
    <3>1. m + 0 = m /\ 0 \in 0..n
      BY <1>0
    <3>2. v[m] \o <<>> = v[m]
      BY <2>0
    <3> QED BY <1>2, <1>4, <3>1, <3>2
  <2>2. ASSUME NEW i \in 1..n, i - 1 \in R PROVE i \in R
    <3>a. m + i \in 1..(m + n) /\ i \in 0..n /\ (m + i) - 1 = m + (i - 1) /\ i - 1 \in 0..n
      BY <1>0
    <3>b. w[i - 1] \in Seq(S)
      BY <1>2, <3>a
    <3>1. m + i \in 1..(m + n) /\ i \in 0..n /\ (a \o b)[m + i] = b[i] /\ b[i] \in S
          /\ (m + i) - 1 = m + (i - 1) /\ w[i - 1] \in Seq(S)
      BY <1>0, <1>b, <3>a, <3>b
    <3>2. u[(m + i) - 1] = v[m] \o w[i - 1]
      BY <2>2, <3>1
    <3>3. v[m] \o Append(w[i - 1], b[i]) = Append(v[m] \o w[i - 1], b[i])
      <4>1. w[i - 1] \in Seq(S) /\ b[i] \in S
        BY <3>1
      <4> DEFINE p == v[m]
                 q == w[i - 1]
                 x == b[i]
      <4>2. p \in Seq(S) /\ q \in Seq(S) /\ x \in S
        BY <2>0, <4>1
      <4> HIDE DEF p, q, x
      <4>3. p \o Append(q, x) = Append(p \o q, x)
        BY <4>2, AppendJoin
      <4> QED BY <4>3 DEF p, q, x
    <3>4. u[m + i] = IF HasEffect(b[i]) THEN Append(v[m] \o w[i - 1], b[i])
                     ELSE v[m] \o w[i - 1]
      BY <1>3, <3>1, <3>2
    <3>5. w[i] = IF HasEffect(b[i]) THEN Append(w[i - 1], b[i]) ELSE w[i - 1]
      BY <1>2
    <3> QED BY <3>1, <3>3, <3>4, <3>5
  <2>3. \A i \in 0..n : i \in R
    <3> HIDE DEF R
    <3> QED BY <1>0, <2>1, <2>2, UpTo
  <2>4. n \in 0..n
    BY <1>0
  <2> QED BY <2>3, <2>4
<1> QED BY <1>0, <1>5 DEF Effective, u, v, w, m, n

\* One list of operations after another.
LEMMA LeadsJoin ==
    ASSUME NEW n, NEW d \in Docs(n), NEW e \in Docs(n), NEW g \in Docs(n),
           NEW a \in Seq(Ops(n)), NEW b \in Seq(Ops(n)), Leads(d, a, e), Leads(e, b, g)
    PROVE  Leads(d, a \o b, g)
<1> DEFINE m == Len(a)
           k == Len(b)
           c == a \o b
<1>0. /\ c \in Seq(Ops(n)) /\ m \in Nat /\ k \in Nat /\ Len(c) = m + k
      /\ \A i \in 1..m : c[i] = a[i]
      /\ \A i \in 1..k : c[m + i] = b[i]
  <2>1. \A i \in 1..k : m + i \in (m + 1)..(m + k) /\ (m + i) - m = i
    OBVIOUS
  <2> QED BY <2>1, JoinIs
<1> HIDE DEF c
<1>1. ApplyOps(d, c) = Unfailed(g)
  <2> DEFINE u == ApplyOpsUpTo(d, c)
             v == ApplyOpsUpTo(d, a)
             w == ApplyOpsUpTo(e, b)
             T == {i \in 0..m : u[i] = v[i]}
             R == {i \in 0..k : u[m + i] = w[i]}
  <2>0. k \in 0..k /\ m \in 0..m /\ 0 \in 0..m /\ 0 \in 0..k /\ m + 0 = m
    BY <1>0
  <2>1. v[0] = Unfailed(d) /\ \A i \in 1..m : v[i] = ApplyInto(v[i - 1], a[i])
    BY ApplyWalk
  <2>2. w[0] = Unfailed(e) /\ \A i \in 1..k : w[i] = ApplyInto(w[i - 1], b[i])
    BY ApplyWalk
  <2>3. u[0] = Unfailed(d) /\ \A i \in 1..(m + k) : u[i] = ApplyInto(u[i - 1], c[i])
    <3>1. u[0] = Unfailed(d) /\ \A i \in 1..Len(c) : u[i] = ApplyInto(u[i - 1], c[i])
      <4>1. c \in Seq(Ops(n))
        BY <1>0
      <4> QED BY <4>1, ApplyWalk
    <3> HIDE DEF u
    <3> QED BY <1>0, <3>1
  <2>4. v[m] = Unfailed(e) /\ w[k] = Unfailed(g)
    BY Zenon DEF Leads, ApplyOps
  <2> HIDE DEF u, v, w, m, k
  <2>5. 0 \in T
    BY <1>0, <2>1, <2>3
  <2>6. ASSUME NEW i \in 1..m, i - 1 \in T PROVE i \in T
    BY <1>0, <2>1, <2>3, <2>6
  <2>7. \A i \in 0..m : i \in T
    <3> HIDE DEF T
    <3> QED BY <1>0, <2>5, <2>6, UpTo
  <2>8. 0 \in R
    BY <2>0, <2>2, <2>4, <2>7
  <2>9. ASSUME NEW i \in 1..k, i - 1 \in R PROVE i \in R
    <3>1. m + i \in 1..(m + k) /\ (m + i) - 1 = m + (i - 1) /\ i \in 0..k
      BY <1>0
    <3> QED BY <1>0, <2>2, <2>3, <2>9, <3>1
  <2>10. \A i \in 0..k : i \in R
    <3> HIDE DEF R
    <3> QED BY <1>0, <2>8, <2>9, UpTo
  <2>11. u[m + k] = Unfailed(g)
    BY <2>0, <2>4, <2>10
  <2> QED BY <1>0, <2>11 DEF ApplyOps, u, m, k
<1>2. UndoOps(g, c) = Unfailed(d)
  <2> DEFINE u == UndoOpsUpTo(g, c)
             v == UndoOpsUpTo(e, a)
             w == UndoOpsUpTo(g, b)
             T == {i \in 0..k : u[i] = w[i]}
             R == {i \in 0..m : u[k + i] = v[i]}
  <2>0. k \in 0..k /\ m \in 0..m /\ 0 \in 0..m /\ 0 \in 0..k /\ k + 0 = k
    BY <1>0
  <2>1. v[0] = Unfailed(e) /\ \A i \in 1..m : v[i] = UndoInto(a[m - i + 1], v[i - 1])
    BY UndoWalk
  <2>2. w[0] = Unfailed(g) /\ \A i \in 1..k : w[i] = UndoInto(b[k - i + 1], w[i - 1])
    BY UndoWalk
  <2>3. /\ u[0] = Unfailed(g)
        /\ \A i \in 1..(m + k) : u[i] = UndoInto(c[(m + k) - i + 1], u[i - 1])
    <3>1. /\ u[0] = Unfailed(g)
          /\ \A i \in 1..Len(c) : u[i] = UndoInto(c[Len(c) - i + 1], u[i - 1])
      <4>1. c \in Seq(Ops(n))
        BY <1>0
      <4> QED BY <4>1, UndoWalk
    <3> HIDE DEF u
    <3> QED BY <1>0, <3>1
  <2>4. v[m] = Unfailed(d) /\ w[k] = Unfailed(e)
    BY DEF Leads, UndoOps
  <2> HIDE DEF u, v, w, m, k
  <2>5. 0 \in T
    BY <2>0, <2>2, <2>3
  <2>6. ASSUME NEW i \in 1..k, i - 1 \in T PROVE i \in T
    <3>1. i \in 1..(m + k) /\ k - i + 1 \in 1..k /\ (m + k) - i + 1 = m + (k - i + 1)
      BY <1>0
    <3>2. c[(m + k) - i + 1] = b[k - i + 1]
      BY <1>0, <3>1
    <3> QED BY <1>0, <2>2, <2>3, <2>6, <3>1, <3>2
  <2>7. \A i \in 0..k : i \in T
    <3> HIDE DEF T
    <3> QED BY <1>0, <2>5, <2>6, UpTo
  <2>8. 0 \in R
    BY <2>0, <2>1, <2>4, <2>7
  <2>9. ASSUME NEW i \in 1..m, i - 1 \in R PROVE i \in R
    <3>1. /\ k + i \in 1..(m + k) /\ (k + i) - 1 = k + (i - 1) /\ i \in 0..m
          /\ (m + k) - (k + i) + 1 = m - i + 1 /\ m - i + 1 \in 1..m
      BY <1>0
    <3>2. c[(m + k) - (k + i) + 1] = a[m - i + 1]
      BY <1>0, <3>1
    <3>3. u[k + i] = UndoInto(a[m - i + 1], u[k + (i - 1)])
      BY <2>3, <3>1, <3>2
    <3> QED BY <2>1, <2>9, <3>1, <3>3
  <2>10. \A i \in 0..m : i \in R
    <3> HIDE DEF R
    <3> QED BY <1>0, <2>8, <2>9, UpTo
  <2>11. u[k + m] = Unfailed(d)
    BY <2>0, <2>4, <2>10
  <2>12. k + m = m + k
    BY <1>0
  <2> QED BY <1>0, <2>11, <2>12 DEF UndoOps, u, m, k
<1> QED BY <1>1, <1>2 DEF Leads, c

(***************************************************************************)
(* What edits make of a document                                           *)
(***************************************************************************)

\* A document names the cells of its buffer only, and each of them once.
Sane(d) == d \in Docs(Len(d.base)) /\ Injective(d.cells)

\* The operations make e of d, whose buffer may have grown on the way.
Becomes(d, ops, e) ==
    /\ Sane(d) /\ Sane(e)
    /\ Extension(Len(d.base), d, Len(e.base), e.base, Nowhere)
    /\ Reaches(Len(e.base), Extended(d, e.base, Nowhere), ops, e)

LEMMA OwnExtension ==
    ASSUME NEW d, d \in Docs(Len(d.base))
    PROVE  /\ Extension(Len(d.base), d, Len(d.base), d.base, Nowhere)
           /\ Extended(d, d.base, Nowhere) = d
<1> DEFINE n == Len(d.base)
<1>0. /\ n \in Nat /\ d.base \in Seq(Byte) /\ d.repl \in Partial(1..n, Byte)
      /\ d = [base |-> d.base, cells |-> d.cells, tomb |-> d.tomb, repl |-> d.repl]
  BY DocIs
<1>1. Nowhere \in Partial(1..n, Byte) /\ DOMAIN Nowhere = {} /\ Over(d.repl, Nowhere) = d.repl
  BY <1>0, NowhereIs
<1>2. Extension(n, d, n, d.base, Nowhere)
  BY <1>0, <1>1 DEF Extension
<1>3. Extended(d, d.base, Nowhere) = d
  BY <1>0, <1>1 DEF Extended
<1> QED BY <1>2, <1>3

\* A buffer that grows twice has grown.
LEMMA ExtensionJoin ==
    ASSUME NEW n, NEW d \in Docs(n), NEW k, NEW b, Extension(n, d, k, b, Nowhere),
           NEW e, e.base = b, NEW m, NEW c, Extension(k, e, m, c, Nowhere)
    PROVE  /\ Extension(n, d, m, c, Nowhere)
           /\ Extension(k, Extended(d, b, Nowhere), m, c, Nowhere)
           /\ Extended(Extended(d, b, Nowhere), c, Nowhere) = Extended(d, c, Nowhere)
<1>0. /\ n \in Nat /\ k \in Nat /\ m \in Nat /\ n <= k /\ k <= m /\ m <= Len(c)
      /\ c \in Seq(Byte) /\ (\A x \in 1..n : b[x] = d.base[x]) /\ (\A x \in 1..k : c[x] = e.base[x])
  BY DEF Extension
<1>1. d.repl \in Partial(1..n, Byte)
  BY DocIs
<1>2. Nowhere \in Partial(1..m, Byte) /\ DOMAIN Nowhere = {} /\ Over(d.repl, Nowhere) = d.repl
  BY <1>0, <1>1, NowhereIs, PartialGrows
<1>3. \A x \in 1..n : x \in 1..k
  BY <1>0
<1>4. Extension(n, d, m, c, Nowhere)
  <2>1. n <= m /\ \A x \in 1..n : c[x] = d.base[x]
    BY <1>0, <1>3
  <2> QED BY <1>0, <1>2, <2>1 DEF Extension
<1>5. Extended(d, b, Nowhere).base = b
  BY DEF Extended
<1>6. Extension(k, Extended(d, b, Nowhere), m, c, Nowhere)
  BY <1>0, <1>2, <1>5 DEF Extension
<1>7. Extended(Extended(d, b, Nowhere), c, Nowhere) = Extended(d, c, Nowhere)
  BY <1>2 DEF Extended
<1> QED BY <1>4, <1>6, <1>7

\* Operations in the same buffer.
LEMMA ReachesBecomes ==
    ASSUME NEW d, Sane(d), NEW ops, NEW e, Reaches(Len(d.base), d, ops, e)
    PROVE  Becomes(d, ops, e)
<1>1. Extended(d, d.base, Nowhere) = d /\ Extension(Len(d.base), d, Len(d.base), d.base, Nowhere)
  BY OwnExtension DEF Sane
<1>2. e.base = d.base /\ Sane(e)
  BY DEF Reaches, Sane
<1> QED BY <1>1, <1>2 DEF Becomes

\* d0 is the document in the buffer of e, which is longer or the same.
LEMMA BecomesReaches ==
    ASSUME NEW d, NEW ops, NEW e, Becomes(d, ops, e)
    PROVE  LET d0 == Extended(d, e.base, Nowhere)
           IN  /\ Sane(d0) /\ d0.base = e.base /\ d0.cells = d.cells /\ d0.tomb = d.tomb
               /\ Display(d0) = Display(d) /\ DocLen(d0) = DocLen(d)
               /\ Reaches(Len(e.base), d0, ops, e) /\ Becomes(d0, ops, e)
<1> DEFINE d0 == Extended(d, e.base, Nowhere)
           n == Len(d.base)
           k == Len(e.base)
<1>1. d \in Docs(n) /\ Extension(n, d, k, e.base, Nowhere) /\ Reaches(k, d0, ops, e)
      /\ Injective(d.cells)
  BY DEF Becomes, Sane
<1>2. d0 \in Docs(k)
  BY <1>1, ExtendedIs
<1>3. /\ d0.base = e.base /\ d0.cells = d.cells /\ d0.tomb = d.tomb
      /\ DocLen(d0) = DocLen(d)
  BY ExtendedShows
<1>4. Display(d0) = Display(d)
  BY <1>1, ExtendedDisplay
<1>5. Sane(d0)
  BY <1>1, <1>2, <1>3 DEF Sane
<1> HIDE DEF d0
<1>6. Becomes(d0, ops, e)
  BY <1>1, <1>3, <1>5, ReachesBecomes
<1> QED BY <1>1, <1>3, <1>4, <1>5, <1>6 DEF d0

LEMMA BecomesJoin ==
    ASSUME NEW d, NEW a, NEW e, Becomes(d, a, e), NEW b, NEW g, Becomes(e, b, g)
    PROVE  Becomes(d, a \o b, g)
<1> DEFINE n == Len(d.base)
           k == Len(e.base)
           m == Len(g.base)
           d1 == Extended(d, e.base, Nowhere)
           d2 == Extended(d, g.base, Nowhere)
           e2 == Extended(e, g.base, Nowhere)
<1>1. /\ d \in Docs(n) /\ e \in Docs(k) /\ g \in Docs(m) /\ Sane(d) /\ Sane(g)
      /\ Extension(n, d, k, e.base, Nowhere) /\ Extension(k, e, m, g.base, Nowhere)
      /\ Reaches(k, d1, a, e) /\ Reaches(m, e2, b, g)
  BY DEF Becomes, Sane
<1>2. /\ Extension(n, d, m, g.base, Nowhere) /\ Extension(k, d1, m, g.base, Nowhere)
      /\ Extended(d1, g.base, Nowhere) = d2
  BY <1>1, ExtensionJoin
<1>3. d1 \in Docs(k) /\ a \in Seq(Ops(k)) /\ e.base = d1.base /\ Leads(d1, a, e)
  BY <1>1 DEF Reaches
<1> HIDE DEF d1
<1>4. Leads(d2, a, e2)
  BY <1>1, <1>2, <1>3, ExtendedLeads
<1>5. d2 \in Docs(m) /\ e2 \in Docs(m) /\ d2.base = g.base
  <2>1. d2.base = g.base
    BY DEF Extended
  <2> QED BY <1>1, <1>2, <2>1, ExtendedIs
<1>6. a \in Seq(Ops(m))
  <2>1. \A op \in Ops(k) : op \in Ops(m)
    BY <1>2, OpsGrow DEF Extension
  <2> QED BY <1>3, <2>1
<1>7. b \in Seq(Ops(m)) /\ Leads(e2, b, g)
  BY <1>1 DEF Reaches
<1> HIDE DEF d2, e2
<1>8. Leads(d2, a \o b, g)
  BY <1>1, <1>4, <1>5, <1>6, <1>7, LeadsJoin
<1>9. a \o b \in Seq(Ops(m))
  BY <1>6, <1>7
<1>10. Reaches(m, d2, a \o b, g)
  BY <1>1, <1>5, <1>8, <1>9 DEF Reaches, Sane
<1> QED BY <1>1, <1>2, <1>10 DEF Becomes, d2

\* The stacks under a document, and an undo record pushed for what becomes of it.
LEMMA HistoryBecomes ==
    ASSUME NEW len \in Nat, NEW d, NEW S, Records(S, Len(d.base)),
           NEW u \in Seq(S), NEW r \in Seq(S), History(len, u, r, Len(d.base), d),
           NEW ops, NEW e, Becomes(d, ops, e)
    PROVE  /\ History(len, u, r, Len(e.base), Extended(d, e.base, Nowhere))
           /\ \A step : step.ops = ops /\ step.shown = Display(d)
                => History(len, Append(u, step), <<>>, Len(e.base), e)
<1> DEFINE d0 == Extended(d, e.base, Nowhere)
           n == Len(d.base)
           k == Len(e.base)
<1>1. Extension(n, d, k, e.base, Nowhere)
  BY DEF Becomes
<1>2. History(len, u, r, k, d0)
  BY <1>1, HistoryExtends
<1>3. Reaches(k, d0, ops, e) /\ Display(d0) = Display(d)
  BY BecomesReaches
<1> HIDE DEF d0
<1>4. ASSUME NEW step, step.ops = ops, step.shown = Display(d)
      PROVE  History(len, Append(u, step), <<>>, k, e)
  <2> DEFINE T == S \cup {step}
  <2>1. Reaches(k, d0, step.ops, e) /\ step.shown = Display(d0)
    BY <1>3, <1>4
  <2>2. u \in Seq(T) /\ r \in Seq(T) /\ step \in T
    OBVIOUS
  <2> HIDE DEF k, n, T
  <2> QED BY <1>2, <2>1, <2>2, HistoryPushes
<1> QED BY <1>2, <1>4 DEF d0

\* r is an edit of d whose undo record, without what has no effect, is exact.
Made(d, r) ==
    /\ Becomes(d, Effective(r.ops), r.doc)
    /\ r.ops \in Seq(Ops(Len(r.doc.base))) /\ r.n \in Nat

LEMMA NothingReaches ==
    ASSUME NEW n, NEW d \in Docs(n)
    PROVE  Reaches(n, d, <<>>, d)
<1>1. <<>> \in Seq(Ops(n)) /\ Len(<<>>) = 0
  OBVIOUS
<1>2. UndoOps(d, <<>>) = Unfailed(d) /\ ApplyOps(d, <<>>) = Unfailed(d)
  BY <1>1, UndoOpsIs, ApplyOpsIs
<1> QED BY <1>1, <1>2 DEF Reaches, Leads

LEMMA MadeNothing ==
    ASSUME NEW d, Sane(d)
    PROVE  Made(d, Edited(d, <<>>, 0)) /\ Edited(d, <<>>, 0).ok
<1> DEFINE r == Edited(d, <<>>, 0)
<1>1. r.doc = d /\ r.ops = <<>> /\ r.n = 0 /\ r.ok
  BY DEF Edited
<1> HIDE DEF r
<1>2. r.ops \in Seq(Ops(Len(d.base)))
  BY <1>1
<1>3. Effective(r.ops) = <<>>
  BY <1>1, <1>2, EffectiveIs
<1>4. Reaches(Len(d.base), d, <<>>, d)
  BY NothingReaches DEF Sane
<1>5. Becomes(d, Effective(r.ops), r.doc)
  BY <1>1, <1>3, <1>4, ReachesBecomes
<1> QED BY <1>1, <1>2, <1>5 DEF Made, r

\* An edit by one operation, or by several that all have an effect.
LEMMA MadeOne ==
    ASSUME NEW d, Sane(d), NEW op, NEW e, Edits(Len(d.base), d, <<op>>, e)
    PROVE  Becomes(d, Effective(<<op>>), e) /\ <<op>> \in Seq(Ops(Len(e.base)))
<1> DEFINE n == Len(d.base)
           ops == <<op>>
<1>0. /\ ops \in Seq(Ops(n)) /\ Len(ops) = 1 /\ ops[1] = op /\ d \in Docs(n)
      /\ e.base = d.base
  BY DEF Edits, OpLists
<1>1. Effective(ops) = IF HasEffect(op) THEN ops ELSE <<>>
  BY <1>0, EffectiveIs
<1>2. CASE HasEffect(op)
  <2>1. Reaches(n, d, ops, e)
    BY EditReaches
  <2> QED BY <1>0, <1>1, <1>2, <2>1, ReachesBecomes
<1>3. CASE ~ HasEffect(op)
  <2>1. DOMAIN ops = {1}
    BY <1>0
  <2>2. e = d
    BY <1>0, <1>3, <2>1 DEF Edits
  <2>3. Reaches(n, d, <<>>, d)
    BY <1>0, NothingReaches
  <2> QED BY <1>0, <1>1, <1>3, <2>2, <2>3, ReachesBecomes
<1> QED BY <1>2, <1>3

LEMMA MadeAll ==
    ASSUME NEW d, Sane(d), NEW ops, NEW e, Edits(Len(d.base), d, ops, e),
           \A i \in 1..Len(ops) : HasEffect(ops[i])
    PROVE  Becomes(d, Effective(ops), e) /\ ops \in Seq(Ops(Len(e.base)))
<1>1. ops \in Seq(Ops(Len(d.base))) /\ e.base = d.base
  BY DEF Edits, OpLists
<1>2. Effective(ops) = ops
  BY <1>1, AllEffective
<1>3. Reaches(Len(d.base), d, ops, e)
  BY EditReaches
<1> QED BY <1>1, <1>2, <1>3, ReachesBecomes

LEMMA MadeThen ==
    ASSUME NEW d, NEW r, Made(d, r), NEW s, Made(r.doc, s)
    PROVE  Made(d, Then(r, s))
<1> DEFINE t == Then(r, s)
           k == Len(r.doc.base)
           m == Len(s.doc.base)
<1>1. t.doc = s.doc /\ t.ops = r.ops \o s.ops /\ t.n = r.n + s.n
  BY DEF Then
<1>2. /\ r.ops \in Seq(Ops(k)) /\ s.ops \in Seq(Ops(m)) /\ r.n \in Nat /\ s.n \in Nat
      /\ Becomes(d, Effective(r.ops), r.doc) /\ Becomes(r.doc, Effective(s.ops), s.doc)
  BY DEF Made
<1>3. r.ops \in Seq(Ops(m))
  <2>1. \A op \in Ops(k) : op \in Ops(m)
    BY <1>2, OpsGrow DEF Becomes, Extension
  <2> QED BY <1>2, <2>1
<1> HIDE DEF t
<1>4. Effective(t.ops) = Effective(r.ops) \o Effective(s.ops)
  BY <1>1, <1>2, <1>3, EffectiveJoin
<1>5. Becomes(d, Effective(t.ops), t.doc)
  BY <1>1, <1>2, <1>4, BecomesJoin
<1>6. t.ops \in Seq(Ops(m)) /\ t.n \in Nat
  BY <1>1, <1>2, <1>3
<1> QED BY <1>1, <1>5, <1>6 DEF Made, t

\* The slots and what is deleted of them are the same.
SameSlots(d, e) == e.base = d.base /\ e.cells = d.cells /\ e.tomb = d.tomb

\* Nothing is shown beyond the end.
LEMMA BeyondEnd ==
    ASSUME NEW n, NEW d \in Docs(n), NEW off \in Nat, off > DocLen(d), NEW m \in Nat
    PROVE  CellsAt(d, off, m) = <<>> /\ IdsAt(d, off, m) = {}
<1> DEFINE c == CellsAt(d, off, m)
<1>1. /\ c \in Seq(1..n) /\ Len(c) \in Nat /\ DocLen(d) \in Nat
      /\ \A i \in 1..Len(c) : off + i <= DocLen(d)
  BY CellsAtIs, DocIs
<1> HIDE DEF c
<1>2. c = <<>>
  BY <1>1
<1>3. ToSet(<<>>) = {}
  BY DEF ToSet
<1> QED BY <1>2, <1>3 DEF c, IdsAt

LEMMA NoneChanged ==
    ASSUME NEW d, NEW off, NEW bytes, CellsAt(d, off, Len(bytes)) = <<>>
    PROVE  ChangedRuns(d, off, bytes) = <<>>
<1> DEFINE ids == CellsAt(d, off, Len(bytes))
           diff == {i \in DOMAIN ids : Shown(d, ids[i]) # bytes[i]}
           Start(i) == Min({j \in 1..i : j..i \subseteq diff})
           Is(f) == f = [i \in 0..Len(ids) |->
                            IF i = 0 THEN <<>>
                            ELSE IF i \in diff /\ i + 1 \notin diff
                            THEN Append(f[i - 1], BulkOp(off + Start(i) - 1,
                                                         SubSeq(bytes, Start(i), i)))
                            ELSE f[i - 1]]
           w == ChangedUpTo(d, off, bytes)
           f == [i \in {0} |-> <<>>]
<1>1. w = CHOOSE g : Is(g)
  BY Zenon DEF ChangedUpTo
<1>2. Len(ids) = 0 /\ 0..0 = {0}
  OBVIOUS
<1>3. ChangedRuns(d, off, bytes) = w[0]
  BY <1>2 DEF ChangedRuns
<1> HIDE DEF ids, diff, Start, w
<1>4. Is(f)
  <2>1. \A i \in {0} : i = 0
    OBVIOUS
  <2> QED BY <1>2, <2>1
<1>5. Is(w)
  <2> HIDE DEF Is, f
  <2> QED BY <1>1, <1>4, Zenon
<1>6. w[0] = <<>>
  BY <1>2, <1>5
<1> QED BY <1>3, <1>6

\* Overwriting, for any offset.
LEMMA OverwriteMade ==
    ASSUME NEW d, Sane(d), NEW off \in Nat, NEW bytes \in Seq(Byte),
           OverwriteBytes(d, off, bytes).ok
    PROVE  /\ Made(d, OverwriteBytes(d, off, bytes))
           /\ SameSlots(d, OverwriteBytes(d, off, bytes).doc)
<1> DEFINE m == Len(Applied(d, off, bytes))
           ids == IdsAt(d, off, m)
           runs == ChangedRuns(d, off, bytes)
           after == ApplyOps(d, runs).doc
           ops == IF Pristine(d, ids) THEN runs ELSE PatchOver(d, after, off, m)
           n == Len(d.base)
           e == OverwriteBytes(d, off, bytes)
<1>0. d \in Docs(n) /\ DocLen(d) \in Nat
  BY DocIs DEF Sane
<1>1. e = Edited(after, ops, m)
  <2>1. e = IF ids \cap d.tomb # {} THEN Refused(d) ELSE Edited(after, ops, m)
    BY DEF OverwriteBytes
  <2> HIDE DEF ids, after, ops, m
  <2> QED BY <2>1 DEF Refused
<1>2. e.ops = ops /\ e.doc = after /\ e.n = m
  <2> HIDE DEF after, ops, m, e
  <2> QED BY <1>1 DEF Edited
<1>3. CASE off > DocLen(d)
  <2>1. CellsAt(d, off, Len(bytes)) = <<>>
    BY <1>0, <1>3, BeyondEnd
  <2>2. runs = <<>>
    BY <2>1, NoneChanged
  <2>3. Applied(d, off, bytes) = <<>>
    BY <2>1 DEF Applied
  <2>4. m = 0
    BY <2>3
  <2> HIDE DEF runs, m, e
  <2>5. after = d
    <3>1. runs \in Seq(Ops(n)) /\ Len(runs) = 0
      BY <2>2
    <3>2. ApplyOps(d, runs) = Unfailed(d)
      BY <1>0, <3>1, ApplyOpsIs
    <3> QED BY <3>2 DEF Unfailed
  <2>6. ids = {}
    BY <1>0, <1>3, <2>4, BeyondEnd
  <2> HIDE DEF after, ids
  <2>7. ops = <<>>
    BY <2>2, <2>6 DEF Pristine
  <2>8. e = Edited(d, <<>>, 0)
    BY <1>1, <2>4, <2>5, <2>7
  <2>9. Made(d, e)
    BY <2>8, MadeNothing
  <2> QED BY <1>2, <2>5, <2>9 DEF SameSlots, e
<1>4. CASE off <= DocLen(d)
  <2>0. m \in Nat /\ off + m <= DocLen(d)
    BY <1>0, <1>4, AppliedIs
  <2>1. runs \in Seq(Inner(off, m))
    BY <1>0, <1>4, ChangedAre
  <2>2. Edits(n, d, e.ops, e.doc)
    BY <1>0, <1>4, OverwriteEdits
  <2> HIDE DEF m, runs, e
  <2>3. SameSlots(d, after)
    <3> DEFINE D == ids \cup RunIds(d, runs, Len(runs))
    <3>1. OnRun(n, d, ids, D, after)
      BY <1>0, <2>0, <2>1, RunsApplied
    <3> HIDE DEF D, after, ids
    <3>2. PICK repl : after = Slots(d, d.tomb, repl)
      BY <3>1 DEF OnRun
    <3> QED BY <3>2 DEF Slots, SameSlots
  <2>4. CASE Pristine(d, ids)
    <3> HIDE DEF after, ids, n
    <3>1. e.ops = runs
      BY <1>2, <2>4
    <3>2. \A i \in 1..Len(runs) : HasEffect(runs[i])
      <4>1. ASSUME NEW i \in 1..Len(runs) PROVE HasEffect(runs[i])
        <5>1. runs[i] \in Inner(off, m)
          BY <2>1
        <5> QED BY <1>0, <2>0, <5>1, InnerIs
      <4> QED BY <4>1
    <3>3. Becomes(d, Effective(runs), e.doc) /\ runs \in Seq(Ops(Len(e.doc.base)))
      BY <2>2, <3>1, <3>2, MadeAll DEF n
    <3> QED BY <1>2, <2>0, <2>3, <3>1, <3>3 DEF Made, e
  <2>5. CASE ~ Pristine(d, ids)
    <3> DEFINE op == PatchOp(off, m, Only(d.repl, ids), Only(after.repl, ids))
    <3>1. e.ops = <<op>>
      BY <1>2, <2>5 DEF PatchOver
    <3> HIDE DEF op, after, n
    <3>2. Becomes(d, Effective(e.ops), e.doc) /\ e.ops \in Seq(Ops(Len(e.doc.base)))
      BY <2>2, <3>1, MadeOne DEF n
    <3> QED BY <1>2, <2>0, <2>3, <3>2 DEF Made, e
  <2> QED BY <2>4, <2>5
<1> QED BY <1>0, <1>3, <1>4

\* Filling, for any offset.
LEMMA FillMade ==
    ASSUME NEW d, Sane(d), NEW off \in Nat, NEW bytes \in Seq(Byte),
           FillOverwrite(d, off, bytes).ok
    PROVE  /\ Made(d, FillOverwrite(d, off, bytes))
           /\ SameSlots(d, FillOverwrite(d, off, bytes).doc)
<1> DEFINE a == Applied(d, off, bytes)
           m == Len(a)
           ids == IdsAt(d, off, m)
           g == LaidRun(d, off, bytes)
           after == OverlayRun(d, off, bytes)
           op == IF Pristine(d, ids) THEN BulkOp(off, a)
                 ELSE PatchOp(off, m, Only(d.repl, ids), Only(after.repl, ids))
           n == Len(d.base)
           e == FillOverwrite(d, off, bytes)
<1>0. /\ d \in Docs(n) /\ DocLen(d) \in Nat /\ d.repl \in Partial(1..n, Byte)
      /\ d = [base |-> d.base, cells |-> d.cells, tomb |-> d.tomb, repl |-> d.repl]
  BY DocIs DEF Sane
<1>1. e = Edited(after, <<op>>, m)
  <2>1. e = IF ids \cap d.tomb # {} THEN Refused(d) ELSE Edited(after, <<op>>, m)
    BY DEF FillOverwrite, PatchOver
  <2> HIDE DEF ids, after, op, m
  <2> QED BY <2>1 DEF Refused
<1>2. e.ops = <<op>> /\ e.doc = after /\ e.n = m
  <2> HIDE DEF after, op, m, e
  <2> QED BY <1>1 DEF Edited
<1>3. g \in Partial(1..n, Byte) /\ DOMAIN g = IdsAt(d, off, Len(bytes))
  BY <1>0, LaidIs
<1>4. /\ Over(d.repl, g) \in Partial(1..n, Byte)
      /\ after = Slots(d, d.tomb, Over(d.repl, g))
  <2> DEFINE new == Over(d.repl, g)
  <2>1. after = [d EXCEPT !.repl = new]
    BY DEF OverlayRun, LaidRun
  <2> HIDE DEF g, after
  <2>2. new \in Partial(1..n, Byte)
    BY <1>0, <1>3, OverIs
  <2> HIDE DEF new
  <2>3. [d EXCEPT !.repl = new] = Slots(d, d.tomb, new)
    BY <1>0, <2>2, ReplSlots
  <2> QED BY <2>1, <2>2, <2>3 DEF new
<1>5. SameSlots(d, after)
  <2> HIDE DEF after, g
  <2> QED BY <1>4 DEF Slots, SameSlots
<1>6. CASE off > DocLen(d)
  <2>1. CellsAt(d, off, Len(bytes)) = <<>> /\ IdsAt(d, off, Len(bytes)) = {}
    BY <1>0, <1>6, BeyondEnd
  <2>2. a = <<>>
    BY <2>1 DEF Applied
  <2>3. m = 0
    BY <2>2
  <2>4. ids = {}
    BY <1>0, <1>6, <2>3, BeyondEnd
  <2>5. op = BulkOp(off, <<>>)
    <3> HIDE DEF ids, a, after
    <3> QED BY <2>2, <2>4 DEF Pristine
  <2> HIDE DEF g, after, op, e, m
  <2>6. Over(d.repl, g) = d.repl
    BY <1>0, <1>3, <2>1, OverNothing
  <2>7. after = d
    BY <1>0, <1>4, <2>6 DEF Slots
  <2>8. op \in BulkOps /\ ~ HasEffect(op)
    BY <2>5 DEF BulkOp, BulkOps, HasEffect
  <2>9. <<op>> \in Seq(Ops(n)) /\ Len(<<op>>) = 1
    <3>1. op \in SlotOps(n)
      BY <2>8 DEF SlotOps
    <3>2. op \in Ops(n)
      BY <3>1, SlotKind
    <3> QED BY <3>2
  <2>10. Effective(<<op>>) = <<>>
    BY <2>8, <2>9, EffectiveIs
  <2>11. Becomes(d, <<>>, d)
    BY <1>0, NothingReaches, ReachesBecomes
  <2> QED BY <1>2, <1>5, <2>3, <2>7, <2>9, <2>10, <2>11 DEF Made, e
<1>7. CASE off <= DocLen(d)
  <2>0. m \in Nat
    BY <1>0, <1>7, AppliedIs
  <2>1. Edits(n, d, e.ops, e.doc)
    BY <1>0, <1>7, FillEdits
  <2> HIDE DEF e, op, after, n, m
  <2>2. Becomes(d, Effective(e.ops), e.doc) /\ e.ops \in Seq(Ops(Len(e.doc.base)))
    BY <1>2, <2>1, MadeOne DEF n
  <2> QED BY <1>2, <1>5, <2>0, <2>2 DEF Made, e
<1> QED BY <1>0, <1>6, <1>7

LEMMA XorMade ==
    ASSUME NEW d, Sane(d), NEW off \in Nat, off <= DocLen(d), NEW m \in Nat,
           XorRange(d, off, m).ok
    PROVE  Made(d, XorRange(d, off, m)) /\ SameSlots(d, XorRange(d, off, m).doc)
<1> DEFINE e == XorRange(d, off, m)
           ids == IdsAt(d, off, m)
           n == Len(d.base)
           after == XorDoc(d, ids)
           op == IF Pristine(d, ids) THEN XorOp(off, Cardinality(ids))
                 ELSE PatchOp(off, m, Only(d.repl, ids), Only(after.repl, ids))
<1>0. d \in Docs(n) /\ Injective(d.cells)
  BY DEF Sane
<1>1. e.doc = after /\ e.ops = XorRecord(d, off, m)
  BY <1>0, XorRangeIs
<1>2. e.ops = <<op>>
  BY <1>1 DEF XorRecord, PatchOver
<1>3. Edits(n, d, e.ops, e.doc) /\ e.n \in Nat
  BY <1>0, XorRangeEdits, XorRangeType
<1>4. SameSlots(d, e.doc)
  BY <1>1 DEF XorDoc, Slots, SameSlots
<1> HIDE DEF e, op, n
<1>5. Becomes(d, Effective(e.ops), e.doc) /\ e.ops \in Seq(Ops(Len(e.doc.base)))
  BY <1>2, <1>3, MadeOne DEF n
<1> QED BY <1>3, <1>4, <1>5 DEF Made, e

LEMMA InsertMade ==
    ASSUME NEW d, Sane(d), NEW off \in Nat, NEW bytes \in Seq(Byte),
           InsertRun(d, off, bytes).ok
    PROVE  /\ Made(d, InsertRun(d, off, bytes))
           /\ InsertRun(d, off, bytes).n = 0 => InsertRun(d, off, bytes).doc = d
<1> DEFINE e == InsertRun(d, off, bytes)
           n == Len(d.base)
           k == n + Len(bytes)
           t == InsertedCells(d, bytes)
           op == InsertOp(off, t)
           after == InsertBytes(d, off, bytes)
<1>0. d \in Docs(n) /\ Injective(d.cells) /\ n \in Nat /\ DocLen(d) \in Nat /\ d.base \in Seq(Byte)
  BY DocIs DEF Sane
<1>1. CASE bytes = <<>>
  <2>1. e = Edited(d, <<>>, 0)
    BY <1>1 DEF InsertRun
  <2>2. e.n = 0 /\ e.doc = d
    BY <2>1 DEF Edited
  <2> QED BY <2>1, <2>2, MadeNothing
<1>2. CASE bytes # <<>>
  <2>1. off <= DocLen(d) /\ e = Edited(after, <<op>>, Len(bytes))
    <3>1. e = IF off > DocLen(d) THEN Refused(d) ELSE Edited(after, <<op>>, Len(bytes))
      BY <1>2 DEF InsertRun
    <3> HIDE DEF op, after, e
    <3>2. ~ (off > DocLen(d))
      BY <3>1 DEF Refused, e
    <3> QED BY <1>0, <3>1, <3>2
  <2>2. e.ops = <<op>> /\ e.doc = after /\ e.n = Len(bytes)
    <3> HIDE DEF op, after, e
    <3> QED BY <2>1 DEF Edited
  <2>3. Len(bytes) \in Nat /\ Len(bytes) # 0
    BY <1>2
  <2>4. Inserted(d, n, off, bytes, k) /\ Fresher(d, n, bytes, k, t)
    BY <1>0, <1>2, <2>1, InsertIs, NewCells
  <2> HIDE DEF e, n, k, after
  <2>5. /\ after.base = Longer(d, bytes) /\ Len(Longer(d, bytes)) = k /\ k \in Nat
        /\ Extension(n, d, k, Longer(d, bytes), Nowhere)
        /\ Edits(k, Extended(d, Longer(d, bytes), Nowhere), <<op>>, after)
    BY <2>4 DEF Inserted, Grows, Grown, after, k
  <2>6. Injective(after.cells) /\ after \in Docs(k)
    BY <1>0, <2>5, ExtendedShows DEF Edits
  <2>7. Reaches(k, Extended(d, Longer(d, bytes), Nowhere), <<op>>, after)
    BY <2>5, EditReaches
  <2>8. Effective(<<op>>) = <<op>> /\ <<op>> \in Seq(Ops(k))
    <3>1. <<op>> \in Seq(Ops(k)) /\ Len(<<op>>) = 1
      BY <2>7 DEF Reaches
    <3>2. op.kind = "Insert" /\ op.cells = t /\ t # <<>>
      BY <2>4 DEF InsertOp, Fresher
    <3>3. HasEffect(op)
      BY <3>2 DEF HasEffect
    <3> DEFINE ops == <<op>>
    <3>4. ops \in Seq(Ops(k)) /\ Len(ops) = 1 /\ ops[1] = op
      BY <3>1
    <3> HIDE DEF op, ops
    <3>5. Effective(ops) = ops
      BY <3>3, <3>4, EffectiveIs
    <3> QED BY <3>1, <3>5 DEF ops
  <2>9. Sane(after) /\ Len(after.base) = k
    BY <2>5, <2>6 DEF Sane
  <2>10. Becomes(d, <<op>>, after)
    BY <2>5, <2>7, <2>9 DEF Becomes, n
  <2> HIDE DEF op
  <2> QED BY <2>2, <2>3, <2>8, <2>9, <2>10 DEF Made, e
<1> QED BY <1>1, <1>2

LEMMA TombMade ==
    ASSUME NEW d, Sane(d), NEW off \in Nat, NEW m \in Nat
    PROVE  /\ Made(d, TombstoneDelete(d, off, m)) /\ TombstoneDelete(d, off, m).ok
           /\ TombstoneDelete(d, off, m).doc.cells = d.cells
<1> DEFINE e == TombstoneDelete(d, off, m)
           n == Len(d.base)
           new == IdsAt(d, off, m) \ d.tomb
           after == [d EXCEPT !.tomb = @ \cup new]
           op == TombOp(new)
<1>0. /\ d \in Docs(n) /\ n \in Nat
      /\ d = [base |-> d.base, cells |-> d.cells, tomb |-> d.tomb, repl |-> d.repl]
  BY DocIs DEF Sane
<1>1. e.ops = <<op>> /\ e.doc = after /\ e.n = Cardinality(new) /\ e.ok
  <2>1. e = Edited(after, <<op>>, Cardinality(new))
    BY DEF TombstoneDelete
  <2> HIDE DEF e, after, op, new
  <2> QED BY <2>1 DEF Edited
<1>2. new \in SUBSET (1..n) /\ new \cap d.tomb = {}
  <2> DEFINE ids == IdsAt(d, off, m)
  <2>1. ids \subseteq 1..n
    BY <1>0, IdsAtIs
  <2> HIDE DEF ids
  <2>2. (ids \ d.tomb) \in SUBSET (1..n) /\ (ids \ d.tomb) \cap d.tomb = {}
    BY <2>1
  <2> QED BY <2>2 DEF ids
<1>3. Cardinality(new) \in Nat
  <2>1. IsFiniteSet(1..n)
    <3>1. n \in Nat
      BY <1>0
    <3> HIDE DEF n
    <3> QED BY <3>1, FS_Interval
  <2> HIDE DEF new
  <2> QED BY <1>2, <2>1, FS_Subset, FS_CardinalityType
<1>4. after.cells = d.cells
  <2> HIDE DEF new
  <2> QED BY <1>0
<1> HIDE DEF new
<1>5. Edits(n, d, <<op>>, after)
  BY <1>0, <1>2, TombEdits
<1> HIDE DEF e, op, after
<1>6. Becomes(d, Effective(<<op>>), after) /\ <<op>> \in Seq(Ops(Len(after.base)))
  BY <1>5, MadeOne
<1> QED BY <1>1, <1>3, <1>4, <1>6 DEF Made, e

\* A cut that reaches the end cuts what there is.
LEMMA CutTrimmed ==
    ASSUME NEW n, NEW d \in Docs(n), NEW off \in Nat, off <= DocLen(d), NEW m \in Nat
    PROVE  Cut(d, off, Len(CellsAt(d, off, m))) = Cut(d, off, m)
<1> DEFINE k == Len(CellsAt(d, off, m))
           s == d.cells
<1>0. /\ s \in Seq(1..n) /\ Len(s) \in Nat /\ DocLen(d) = Len(s)
      /\ k \in Nat /\ k = Least(off + m, DocLen(d)) - off
  BY DocIs, CellsAtIs
<1> HIDE DEF k
<1>1. CASE off + m <= Len(s)
  <2>1. k = m
    BY <1>0, <1>1 DEF Least
  <2> QED BY <2>1 DEF k
<1>2. CASE off + m > Len(s)
  <2>1. k = Len(s) - off
    BY <1>0, <1>2 DEF Least
  <2>2. CutSeq(s, off, m) \in Seq(1..n) /\ CutAs(CutSeq(s, off, m), s, off, m)
    BY <1>0, CutSeqIs
  <2>3. CutSeq(s, off, k) \in Seq(1..n) /\ CutAs(CutSeq(s, off, k), s, off, k)
    BY <1>0, CutSeqIs
  <2>4. Len(CutSeq(s, off, m)) = off /\ \A i \in 1..off : CutSeq(s, off, m)[i] = s[i]
    BY <1>0, <1>2, <2>2 DEF CutAs
  <2>5. Len(CutSeq(s, off, k)) = off /\ \A i \in 1..off : CutSeq(s, off, k)[i] = s[i]
    <3>1. off + k = Len(s) /\ Len(s) - k = off
      BY <1>0, <2>1
    <3>2. off + k <= Len(s)
      BY <1>0, <3>1
    <3> DEFINE u == CutSeq(s, off, k)
    <3>3. /\ Len(u) = IF off + k <= Len(s) THEN Len(s) - k ELSE off
          /\ \A i \in 1..Len(u) : u[i] = IF i <= off THEN s[i] ELSE s[i + k]
      BY <2>3 DEF CutAs
    <3> HIDE DEF u
    <3>4. Len(u) = off
      BY <3>1, <3>2, <3>3
    <3>5. ASSUME NEW i \in 1..off PROVE u[i] = s[i]
      BY <3>3, <3>4
    <3> QED BY <3>4, <3>5 DEF u
  <2>6. CutSeq(s, off, k) = CutSeq(s, off, m)
    BY <2>2, <2>3, <2>4, <2>5, SameSeq
  <2>7. Cut(d, off, k) = [base |-> d.base, cells |-> CutSeq(s, off, k),
                          tomb |-> d.tomb, repl |-> d.repl]
    BY <1>0, CutIs
  <2>8. Cut(d, off, m) = [base |-> d.base, cells |-> CutSeq(s, off, m),
                          tomb |-> d.tomb, repl |-> d.repl]
    BY CutIs
  <2> QED BY <2>6, <2>7, <2>8 DEF k
<1> QED BY <1>0, <1>1, <1>2

LEMMA DeleteMade ==
    ASSUME NEW d, Sane(d), NEW off \in Nat, NEW m \in Nat \ {0}, RealDelete(d, off, m).ok
    PROVE  Made(d, RealDelete(d, off, m))
<1> DEFINE e == RealDelete(d, off, m)
           n == Len(d.base)
           cells == CellsAt(d, off, m)
           k == Len(cells)
           op == DeleteOp(off, cells)
           after == Cut(d, off, m)
<1>0. d \in Docs(n) /\ DocLen(d) \in Nat
  BY DocIs DEF Sane
<1>1. off < DocLen(d) /\ e = Edited(after, <<op>>, k)
  <2>1. e = IF off >= DocLen(d) THEN Refused(d) ELSE Edited(after, <<op>>, k)
    BY DEF RealDelete
  <2> HIDE DEF op, after, k, e
  <2>2. ~ (off >= DocLen(d))
    BY <2>1 DEF Refused, e
  <2> QED BY <1>0, <2>1, <2>2
<1>2. e.ops = <<op>> /\ e.doc = after /\ e.n = k
  <2> HIDE DEF op, after, k, e
  <2> QED BY <1>1 DEF Edited
<1>3. k \in Nat /\ off + k <= DocLen(d) /\ CellsAt(d, off, k) = cells
  BY <1>0, <1>1, TrimIs
<1>4. k # 0
  <2>1. k = Least(off + m, DocLen(d)) - off
    BY <1>0, <1>1, CellsAtIs
  <2> HIDE DEF k
  <2> QED BY <1>0, <1>1, <2>1 DEF Least
<1>5. Cut(d, off, k) = after
  BY <1>0, <1>1, CutTrimmed
<1> HIDE DEF k
<1>6. Edits(n, d, <<DeleteOp(off, CellsAt(d, off, k))>>, Cut(d, off, k))
  BY <1>0, <1>3, <1>4, DeleteEdits
<1>7. Edits(n, d, <<op>>, after)
  BY <1>3, <1>5, <1>6
<1> HIDE DEF e, op, after
<1>8. Becomes(d, Effective(<<op>>), after) /\ <<op>> \in Seq(Ops(Len(after.base)))
  BY <1>7, MadeOne
<1> QED BY <1>2, <1>3, <1>8 DEF Made, e

(***************************************************************************)
(* Edits that may fail, and one after the other                            *)
(***************************************************************************)

AnyDoc == UNION {Docs(n) : n \in Nat}
AnyOp == UNION {Ops(n) : n \in Nat}
Results == [ok : BOOLEAN, doc : AnyDoc, ops : Seq(AnyOp), n : Nat]

\* What an edit of d may return, a failure included.
Tries(d) == {r \in Results : Sane(r.doc) /\ (r.ok => Made(d, r))}

\* What an edit that leaves every cell in its slot may return.
TriesInPlace(d) == {r \in Tries(d) : SameSlots(d, r.doc)}

LEMMA IsResult ==
    ASSUME NEW d, Sane(d), NEW k \in Nat, NEW ops \in Seq(Ops(k)), NEW n \in Nat,
           NEW ok \in BOOLEAN
    PROVE  [ok |-> ok, doc |-> d, ops |-> ops, n |-> n] \in Results
<1>1. d \in AnyDoc
  <2> DEFINE m == Len(d.base)
  <2>1. d \in Docs(m) /\ m \in Nat
    BY DocIs DEF Sane
  <2> HIDE DEF m
  <2> QED BY <2>1 DEF AnyDoc
<1>2. ops \in Seq(AnyOp)
  <2>1. \A op \in Ops(k) : op \in AnyOp
    BY DEF AnyOp
  <2> QED BY <2>1
<1> QED BY <1>1, <1>2 DEF Results

LEMMA TryThen ==
    ASSUME NEW d, NEW r \in Tries(d), NEW s \in Tries(r.doc)
    PROVE  /\ Then(r, s) \in Tries(d) /\ Then(r, s).doc = s.doc
           /\ Then(r, s).ok <=> r.ok /\ s.ok
<1> DEFINE t == Then(r, s)
<1>1. /\ t = [ok |-> r.ok /\ s.ok, doc |-> s.doc, ops |-> r.ops \o s.ops, n |-> r.n + s.n]
      /\ t.doc = s.doc /\ t.ops = r.ops \o s.ops /\ t.n = r.n + s.n
      /\ t.ok = (r.ok /\ s.ok)
  BY DEF Then
<1>2. /\ r.ok \in BOOLEAN /\ r.ops \in Seq(AnyOp) /\ r.n \in Nat /\ (r.ok => Made(d, r))
      /\ s.ok \in BOOLEAN /\ s.ops \in Seq(AnyOp) /\ s.n \in Nat /\ (s.ok => Made(r.doc, s))
      /\ Sane(s.doc) /\ s.doc \in AnyDoc
  BY DEF Tries, Results
<1>3. r.ok /\ s.ok => Made(d, t)
  BY <1>2, MadeThen
<1>4. r.ops \o s.ops \in Seq(AnyOp) /\ r.n + s.n \in Nat /\ (r.ok /\ s.ok) \in BOOLEAN
  BY <1>2
<1>5. t \in Results
  BY <1>1, <1>2, <1>4 DEF Results
<1> QED BY <1>1, <1>2, <1>3, <1>5 DEF Tries

LEMMA TryInPlaceThen ==
    ASSUME NEW d, NEW r \in TriesInPlace(d), NEW s \in TriesInPlace(r.doc)
    PROVE  Then(r, s) \in TriesInPlace(d)
<1>1. r \in Tries(d) /\ s \in Tries(r.doc) /\ SameSlots(d, r.doc) /\ SameSlots(r.doc, s.doc)
  BY DEF TriesInPlace
<1>2. Then(r, s) \in Tries(d) /\ Then(r, s).doc = s.doc
  BY <1>1, TryThen
<1> QED BY <1>1, <1>2 DEF TriesInPlace, SameSlots

LEMMA RefusedTry ==
    ASSUME NEW d, Sane(d)
    PROVE  Refused(d) \in TriesInPlace(d) /\ ~ Refused(d).ok
<1> DEFINE r == Refused(d)
<1>1. /\ r = [ok |-> FALSE, doc |-> d, ops |-> <<>>, n |-> 0] /\ r.ok = FALSE /\ r.doc = d
      /\ r.ops = <<>> /\ r.n = 0
  BY DEF Refused
<1>2. <<>> \in Seq(Ops(0)) /\ 0 \in Nat /\ FALSE \in BOOLEAN
  OBVIOUS
<1> HIDE DEF r
<1>3. r \in Results
  BY <1>1, <1>2, IsResult
<1>4. r \in Tries(d)
  BY <1>1, <1>3 DEF Tries
<1> QED BY <1>1, <1>4 DEF TriesInPlace, SameSlots, r

LEMMA NothingTry ==
    ASSUME NEW d, Sane(d)
    PROVE  Edited(d, <<>>, 0) \in TriesInPlace(d)
<1> DEFINE r == Edited(d, <<>>, 0)
<1>1. /\ r = [ok |-> TRUE, doc |-> d, ops |-> <<>>, n |-> 0] /\ r.ok = TRUE /\ r.doc = d
      /\ r.ops = <<>> /\ r.n = 0
  BY DEF Edited
<1>2. <<>> \in Seq(Ops(0)) /\ 0 \in Nat /\ TRUE \in BOOLEAN
  OBVIOUS
<1>3. Made(d, r)
  BY MadeNothing
<1> HIDE DEF r
<1>4. r \in Results
  BY <1>1, <1>2, IsResult
<1>5. r \in Tries(d)
  BY <1>1, <1>3, <1>4 DEF Tries
<1> QED BY <1>1, <1>5 DEF TriesInPlace, SameSlots, r

\* An edit either returns what it made, or is refused.
LEMMA EditTry ==
    ASSUME NEW d, Sane(d), NEW r, r = Refused(d) \/ r = Edited(r.doc, r.ops, r.n),
           r.ok => Made(d, r)
    PROVE  r \in Tries(d) /\ (r.ok => Sane(r.doc)) /\ (~ r.ok => r = Refused(d))
<1>1. CASE r = Refused(d)
  BY <1>1, RefusedTry DEF TriesInPlace, Tries
<1>2. CASE r = Edited(r.doc, r.ops, r.n)
  <2>1. r = [ok |-> TRUE, doc |-> r.doc, ops |-> r.ops, n |-> r.n]
    BY <1>2 DEF Edited
  <2>2. r.ok = TRUE
    BY <2>1
  <2>3. Made(d, r)
    BY <2>2
  <2>4. Sane(r.doc) /\ r.ops \in Seq(Ops(Len(r.doc.base))) /\ r.n \in Nat
    BY <2>3 DEF Made, Becomes
  <2>5. Len(r.doc.base) \in Nat
    BY <2>4, DocIs DEF Sane
  <2>6. TRUE \in BOOLEAN
    OBVIOUS
  <2>7. r \in Results
    BY <2>1, <2>4, <2>5, <2>6, IsResult
  <2> QED BY <2>2, <2>3, <2>4, <2>7 DEF Tries
<1> QED BY <1>1, <1>2

LEMMA FillTry ==
    ASSUME NEW d, Sane(d), NEW off \in Nat, NEW bytes \in Seq(Byte)
    PROVE  FillOverwrite(d, off, bytes) \in TriesInPlace(d)
<1> DEFINE r == FillOverwrite(d, off, bytes)
<1>1. r = Refused(d) \/ r = Edited(r.doc, r.ops, r.n)
  <2> DEFINE m == Len(Applied(d, off, bytes))
             ids == IdsAt(d, off, m)
             after == OverlayRun(d, off, bytes)
             ops == IF Pristine(d, ids) THEN <<BulkOp(off, Applied(d, off, bytes))>>
                    ELSE PatchOver(d, after, off, m)
  <2>1. r = IF ids \cap d.tomb # {} THEN Refused(d) ELSE Edited(after, ops, m)
    BY DEF FillOverwrite
  <2> HIDE DEF r, ops, after, ids, m
  <2>2. CASE r = Edited(after, ops, m)
    BY <2>2 DEF Edited
  <2> QED BY <2>1, <2>2
<1> HIDE DEF r
<1>2. r.ok => Made(d, r) /\ SameSlots(d, r.doc)
  BY FillMade DEF r
<1>3. r \in Tries(d) /\ (~ r.ok => r = Refused(d))
  BY <1>1, <1>2, EditTry
<1>4. CASE r.ok
  BY <1>2, <1>3, <1>4 DEF TriesInPlace, r
<1>5. CASE ~ r.ok
  BY <1>3, <1>5, RefusedTry DEF r
<1> QED BY <1>4, <1>5

LEMMA DeleteTry ==
    ASSUME NEW d, Sane(d), NEW off \in Nat, NEW m \in Nat \ {0}
    PROVE  RealDelete(d, off, m) \in Tries(d)
<1> DEFINE r == RealDelete(d, off, m)
           after == Cut(d, off, m)
           ops == <<DeleteOp(off, CellsAt(d, off, m))>>
           k == Len(CellsAt(d, off, m))
<1>1. r = IF off >= DocLen(d) THEN Refused(d) ELSE Edited(after, ops, k)
  BY DEF RealDelete
<1> HIDE DEF r, after, ops, k
<1>2. r = Refused(d) \/ r = Edited(r.doc, r.ops, r.n)
  <2>1. CASE r = Edited(after, ops, k)
    BY <2>1 DEF Edited
  <2> QED BY <1>1, <2>1
<1>3. r.ok => Made(d, r)
  BY DeleteMade DEF r
<1> QED BY <1>2, <1>3, EditTry DEF r

LEMMA InsertTry ==
    ASSUME NEW d, Sane(d), NEW off \in Nat, NEW bytes \in Seq(Byte)
    PROVE  InsertRun(d, off, bytes) \in Tries(d)
<1> DEFINE r == InsertRun(d, off, bytes)
           after == InsertBytes(d, off, bytes)
           ops == <<InsertOp(off, InsertedCells(d, bytes))>>
           k == Len(bytes)
<1>1. r = IF bytes = <<>> THEN Edited(d, <<>>, 0)
          ELSE IF off > DocLen(d) THEN Refused(d) ELSE Edited(after, ops, k)
  BY DEF InsertRun
<1> HIDE DEF r, after, ops, k
<1>2. r = Refused(d) \/ r = Edited(r.doc, r.ops, r.n)
  <2>1. CASE r = Edited(after, ops, k)
    BY <2>1 DEF Edited
  <2>2. CASE r = Edited(d, <<>>, 0)
    BY <2>2 DEF Edited
  <2> QED BY <1>1, <2>1, <2>2
<1>3. r.ok => Made(d, r)
  BY InsertMade DEF r
<1> QED BY <1>2, <1>3, EditTry DEF r

(***************************************************************************)
(* Matches, and their replacement                                          *)
(***************************************************************************)

LEMMA MatchesWalk ==
    ASSUME NEW d, NEW start \in Nat, NEW end \in Nat, start <= end, NEW needle \in Seq(Byte)
    PROVE  MatchesUpTo(d, start, end, needle)
                \in [0..(end - start + 1) -> Seq(start..end)]
<1> DEFINE m == end - start + 1
           Fits(x, i) == /\ MatchAt(d, start + i - 1, needle) /\ start + i - 1 + Len(needle) - 1 <= end
                         /\ (x = <<>> \/ start + i - 1 >= Last(x) + Len(needle))
           At(i) == start + i - 1
           X == Seq(start..end)
           step == [i \in 1..m |-> [x \in X |-> (IF Fits(x, i) THEN Append(x, At(i)) ELSE x)]]
           Is(f) == f = [i \in 0..m |->
                            IF i = 0 THEN <<>> ELSE (IF Fits(f[i - 1], i) THEN Append(f[i - 1], At(i)) ELSE f[i - 1])]
           w == MatchesUpTo(d, start, end, needle)
<1>0. m \in Nat /\ <<>> \in X
  OBVIOUS
<1>1. \A i \in 1..m : At(i) \in start..end
  OBVIOUS
<1>2. w = CHOOSE g : Is(g)
  BY Zenon DEF MatchesUpTo
<1> HIDE DEF m, Fits, At, X, w
<1>3. ASSUME NEW i \in 1..m, NEW x \in X PROVE (IF Fits(x, i) THEN Append(x, At(i)) ELSE x) \in X
  <2> DEFINE S == start..end
  <2>1. At(i) \in S /\ x \in Seq(S)
    BY <1>1 DEF X
  <2> HIDE DEF S
  <2>2. Append(x, At(i)) \in Seq(S)
    BY <2>1
  <2> QED BY <2>1, <2>2 DEF X, S
<1>4. step \in [1..m -> [X -> X]]
  BY <1>3
<1>5. ASSUME NEW i \in 1..m, NEW x \in X PROVE step[i][x] = (IF Fits(x, i) THEN Append(x, At(i)) ELSE x)
  OBVIOUS
<1> HIDE DEF step
<1>6. PICK f \in [0..m -> X] : Repeats(f, m, <<>>, step)
  BY <1>0, <1>4, Recursion
<1>7. f[0] = <<>> /\ \A i \in 1..m : f[i] = (IF Fits(f[i - 1], i) THEN Append(f[i - 1], At(i)) ELSE f[i - 1])
  <2>1. ASSUME NEW i \in 1..m PROVE f[i] = (IF Fits(f[i - 1], i) THEN Append(f[i - 1], At(i)) ELSE f[i - 1])
    <3>1. f[i - 1] \in X
      BY <1>0
    <3> QED BY <1>5, <1>6, <3>1 DEF Repeats
  <2> QED BY <1>6, <2>1 DEF Repeats
<1>8. Is(f)
  <2>1. \A i \in 0..m : i # 0 => i \in 1..m
    BY <1>0
  <2> QED BY <1>7, <2>1
<1>9. Is(w)
  <2> HIDE DEF Is
  <2> QED BY <1>2, <1>8, Zenon
<1>10. /\ w = [i \in 0..m |-> w[i]] /\ w[0] = <<>>
       /\ \A i \in 1..m : w[i] = (IF Fits(w[i - 1], i) THEN Append(w[i - 1], At(i)) ELSE w[i - 1])
  <2>1. 0 \in 0..m /\ \A i \in 1..m : i \in 0..m /\ i # 0
    BY <1>0
  <2> QED BY <1>9, <2>1
<1> HIDE DEF Is
<1>11. w = f
  <2>1. \A i \in 1..m : f[i - 1] = w[i - 1] => f[i] = w[i]
    BY <1>7, <1>10
  <2>2. GoOnAlike(m, f, w)
    BY <1>7, <1>10, <2>1 DEF GoOnAlike
  <2> QED BY <1>0, <2>2, SameWalk
<1> QED BY <1>10, <1>11 DEF m, Fits, At, X, w

LEMMA MatchesAre ==
    ASSUME NEW d, NEW start \in Nat, NEW end \in Nat, start <= end, NEW needle \in Seq(Byte)
    PROVE  MatchesIn(d, start, end, needle) \in Seq(start..end)
<1> DEFINE m == end - start + 1
<1>1. m \in 0..m
  OBVIOUS
<1> HIDE DEF m
<1> QED BY <1>1, MatchesWalk DEF MatchesIn, m

LEMMA StartIs ==
    ASSUME NEW matches, NEW k, NEW i \in Nat \ {0}
    PROVE  RunStart(matches, k, i) \in 1..i
<1> DEFINE J == {j \in 1..i : \A l \in j..(i - 1) : ~RunEnds(matches, k, l)}
           s == RunStart(matches, k, i)
<1>1. J \in SUBSET Nat /\ J \subseteq 1..i
  OBVIOUS
<1>2. i \in J
  OBVIOUS
<1>3. s = CHOOSE x \in J : \A y \in J : x <= y
  BY DEF RunStart, Min
<1> HIDE DEF J, s
<1>4. \E x \in J : \A y \in J : x <= y
  BY <1>1, <1>2, LeastNatural
<1>5. s \in J
  BY <1>3, <1>4
<1> QED BY <1>1, <1>5 DEF s

LEMMA RepeatedIs ==
    ASSUME NEW bytes \in Seq(Byte), bytes # <<>>, NEW count \in Nat
    PROVE  Repeated(bytes, count) \in Seq(Byte)
<1> DEFINE k == Len(bytes)
           m == count * k
<1>1. k \in Nat /\ k > 0
  OBVIOUS
<1>2. m \in Nat
  BY <1>1
<1>3. ASSUME NEW i \in 1..m PROVE ((i - 1) % k) + 1 \in 1..k
  <2>1. i - 1 \in Nat
    BY <1>2
  <2>2. (i - 1) % k \in 0..(k - 1)
    BY <1>1, <2>1
  <2> QED BY <1>1, <2>2
<1>4. ASSUME NEW i \in 1..m PROVE bytes[((i - 1) % k) + 1] \in Byte
  BY <1>3
<1>5. Repeated(bytes, count) = [i \in 1..m |-> bytes[((i - 1) % k) + 1]]
  BY DEF Repeated
<1> HIDE DEF m, k
<1> QED BY <1>2, <1>4, <1>5

LEMMA SameSizeWalk ==
    ASSUME NEW d, Sane(d), NEW matches \in Seq(Nat),
           NEW bytes \in Seq(Byte), bytes # <<>>
    PROVE  SameSizeUpTo(d, matches, bytes) \in [0..Len(matches) -> TriesInPlace(d)]
<1> DEFINE m == Len(matches)
           From(i) == RunStart(matches, Len(bytes), i)
           At(i) == matches[From(i)]
           Laid(i) == Repeated(bytes, i - From(i) + 1)
           Ends(i) == RunEnds(matches, Len(bytes), i)
           X == TriesInPlace(d)
           step == [i \in 1..m |-> [x \in X |-> (IF Ends(i) THEN Then(x, FillOverwrite(x.doc, At(i), Laid(i))) ELSE x)]]
           Is(f) == f = [i \in 0..m |->
                            IF i = 0 THEN Edited(d, <<>>, 0) ELSE (IF Ends(i) THEN Then(f[i - 1], FillOverwrite(f[i - 1].doc, At(i), Laid(i))) ELSE f[i - 1])]
           w == SameSizeUpTo(d, matches, bytes)
<1>0. m \in Nat /\ Edited(d, <<>>, 0) \in X
  BY NothingTry
<1>1. ASSUME NEW i \in 1..m PROVE At(i) \in Nat /\ Laid(i) \in Seq(Byte)
  <2>1. i \in Nat \ {0}
    OBVIOUS
  <2>2. From(i) \in 1..i
    BY <2>1, StartIs
  <2> HIDE DEF From
  <2>3. At(i) \in Nat /\ i - From(i) + 1 \in Nat
    BY <2>2
  <2> QED BY <2>3, RepeatedIs
<1>2. w = CHOOSE g : Is(g)
  BY Zenon DEF SameSizeUpTo
<1> HIDE DEF m, From, At, Laid, Ends, X, w
<1>3. ASSUME NEW i \in 1..m, NEW x \in X PROVE (IF Ends(i) THEN Then(x, FillOverwrite(x.doc, At(i), Laid(i))) ELSE x) \in X
  <2>1. Sane(x.doc)
    BY DEF X, TriesInPlace, Tries
  <2>2. FillOverwrite(x.doc, At(i), Laid(i)) \in TriesInPlace(x.doc)
    BY <1>1, <2>1, FillTry
  <2>3. Then(x, FillOverwrite(x.doc, At(i), Laid(i))) \in TriesInPlace(d)
    BY <2>2, TryInPlaceThen DEF X
  <2> QED BY <2>3 DEF X
<1>4. step \in [1..m -> [X -> X]]
  BY <1>3
<1>5. ASSUME NEW i \in 1..m, NEW x \in X PROVE step[i][x] = (IF Ends(i) THEN Then(x, FillOverwrite(x.doc, At(i), Laid(i))) ELSE x)
  OBVIOUS
<1> HIDE DEF step
<1>6. PICK f \in [0..m -> X] : Repeats(f, m, Edited(d, <<>>, 0), step)
  BY <1>0, <1>4, Recursion
<1>7. f[0] = Edited(d, <<>>, 0) /\ \A i \in 1..m : f[i] = (IF Ends(i) THEN Then(f[i - 1], FillOverwrite(f[i - 1].doc, At(i), Laid(i))) ELSE f[i - 1])
  <2>1. ASSUME NEW i \in 1..m PROVE f[i] = (IF Ends(i) THEN Then(f[i - 1], FillOverwrite(f[i - 1].doc, At(i), Laid(i))) ELSE f[i - 1])
    <3>1. f[i - 1] \in X
      BY <1>0
    <3> QED BY <1>5, <1>6, <3>1 DEF Repeats
  <2> QED BY <1>6, <2>1 DEF Repeats
<1>8. Is(f)
  <2>1. \A i \in 0..m : i # 0 => i \in 1..m
    BY <1>0
  <2> QED BY <1>7, <2>1
<1>9. Is(w)
  <2> HIDE DEF Is
  <2> QED BY <1>2, <1>8, Zenon
<1>10. /\ w = [i \in 0..m |-> w[i]] /\ w[0] = Edited(d, <<>>, 0)
       /\ \A i \in 1..m : w[i] = (IF Ends(i) THEN Then(w[i - 1], FillOverwrite(w[i - 1].doc, At(i), Laid(i))) ELSE w[i - 1])
  <2>1. 0 \in 0..m /\ \A i \in 1..m : i \in 0..m /\ i # 0
    BY <1>0
  <2> QED BY <1>9, <2>1
<1> HIDE DEF Is
<1>11. w = f
  <2>1. \A i \in 1..m : f[i - 1] = w[i - 1] => f[i] = w[i]
    BY <1>7, <1>10
  <2>2. GoOnAlike(m, f, w)
    BY <1>7, <1>10, <2>1 DEF GoOnAlike
  <2> QED BY <1>0, <2>2, SameWalk
<1> QED BY <1>10, <1>11 DEF m, From, At, Laid, Ends, X, w

LEMMA ResizedWalk ==
    ASSUME NEW d, Sane(d), NEW matches \in Seq(Nat),
           NEW needle \in Seq(Byte), needle # <<>>, NEW bytes \in Seq(Byte)
    PROVE  ResizedUpTo(d, matches, needle, bytes) \in [0..Len(matches) -> Tries(d)]
<1> DEFINE m == Len(matches)
           At(i) == matches[Len(matches) - i + 1]
           Less(x, i) == Then(x, RealDelete(x.doc, At(i), Len(needle)))
           X == Tries(d)
           step == [i \in 1..m |-> [x \in X |-> Then(Less(x, i), InsertRun(Less(x, i).doc, At(i), bytes))]]
           Is(f) == f = [i \in 0..m |->
                            IF i = 0 THEN Edited(d, <<>>, 0) ELSE Then(Less(f[i - 1], i), InsertRun(Less(f[i - 1], i).doc, At(i), bytes))]
           w == ResizedUpTo(d, matches, needle, bytes)
<1>0. m \in Nat /\ Edited(d, <<>>, 0) \in X
  BY NothingTry DEF TriesInPlace
<1>1. ASSUME NEW i \in 1..m PROVE At(i) \in Nat
  <2>1. Len(matches) - i + 1 \in 1..Len(matches)
    OBVIOUS
  <2> QED BY <2>1
<1>1a. Len(needle) \in Nat \ {0}
  OBVIOUS
<1>1b. ASSUME NEW i \in 1..m, NEW x \in X PROVE Less(x, i) \in X
  <2> HIDE DEF At, m
  <2>1. Sane(x.doc)
    BY DEF Tries
  <2>2. RealDelete(x.doc, At(i), Len(needle)) \in Tries(x.doc)
    BY <1>1, <1>1a, <2>1, DeleteTry
  <2> QED BY <2>2, TryThen
<1>2. w = CHOOSE g : Is(g)
  BY Zenon DEF ResizedUpTo
<1> HIDE DEF m, At, Less, X, w
<1>3. ASSUME NEW i \in 1..m, NEW x \in X PROVE Then(Less(x, i), InsertRun(Less(x, i).doc, At(i), bytes)) \in X
  <2>1. Less(x, i) \in Tries(d)
    BY <1>1b DEF X
  <2>2. Sane(Less(x, i).doc)
    BY <2>1 DEF Tries
  <2>3. InsertRun(Less(x, i).doc, At(i), bytes) \in Tries(Less(x, i).doc)
    BY <1>1, <2>2, InsertTry
  <2> QED BY <2>1, <2>3, TryThen DEF X
<1>4. step \in [1..m -> [X -> X]]
  BY <1>3
<1>5. ASSUME NEW i \in 1..m, NEW x \in X PROVE step[i][x] = Then(Less(x, i), InsertRun(Less(x, i).doc, At(i), bytes))
  OBVIOUS
<1> HIDE DEF step
<1>6. PICK f \in [0..m -> X] : Repeats(f, m, Edited(d, <<>>, 0), step)
  BY <1>0, <1>4, Recursion
<1>7. f[0] = Edited(d, <<>>, 0) /\ \A i \in 1..m : f[i] = Then(Less(f[i - 1], i), InsertRun(Less(f[i - 1], i).doc, At(i), bytes))
  <2>1. ASSUME NEW i \in 1..m PROVE f[i] = Then(Less(f[i - 1], i), InsertRun(Less(f[i - 1], i).doc, At(i), bytes))
    <3>1. f[i - 1] \in X
      BY <1>0
    <3> QED BY <1>5, <1>6, <3>1 DEF Repeats
  <2> QED BY <1>6, <2>1 DEF Repeats
<1>8. Is(f)
  <2>1. \A i \in 0..m : i # 0 => i \in 1..m
    BY <1>0
  <2> QED BY <1>7, <2>1
<1>9. Is(w)
  <2> HIDE DEF Is
  <2> QED BY <1>2, <1>8, Zenon
<1>10. /\ w = [i \in 0..m |-> w[i]] /\ w[0] = Edited(d, <<>>, 0)
       /\ \A i \in 1..m : w[i] = Then(Less(w[i - 1], i), InsertRun(Less(w[i - 1], i).doc, At(i), bytes))
  <2>1. 0 \in 0..m /\ \A i \in 1..m : i \in 0..m /\ i # 0
    BY <1>0
  <2> QED BY <1>9, <2>1
<1> HIDE DEF Is
<1>11. w = f
  <2>1. \A i \in 1..m : f[i - 1] = w[i - 1] => f[i] = w[i]
    BY <1>7, <1>10
  <2>2. GoOnAlike(m, f, w)
    BY <1>7, <1>10, <2>1 DEF GoOnAlike
  <2> QED BY <1>0, <2>2, SameWalk
<1> QED BY <1>10, <1>11 DEF m, At, Less, X, w

LEMMA ReplaceMade ==
    ASSUME NEW d, Sane(d), NEW start \in Nat, NEW end \in Nat, start <= end,
           NEW needle \in Seq(Byte), NEW bytes \in Seq(Byte), NEW resize, NEW force, NEW limit,
           ReplaceRange(d, start, end, needle, bytes, resize, force, limit).ok
    PROVE  LET e == ReplaceRange(d, start, end, needle, bytes, resize, force, limit)
           IN  Made(d, e) /\ (Len(needle) = Len(bytes) => SameSlots(d, e.doc))
<1> DEFINE e == ReplaceRange(d, start, end, needle, bytes, resize, force, limit)
           matches == MatchesIn(d, start, end, needle)
           bad == \/ needle = <<>> \/ (~resize /\ Len(needle) # Len(bytes))
                  \/ (~force /\ Len(matches) > limit)
           same == ReplaceSameSize(d, matches, needle, bytes)
           other == ReplaceResizing(d, matches, needle, bytes)
<1>1. e = IF bad THEN Refused(d)
          ELSE IF matches = <<>> THEN Edited(d, <<>>, 0)
          ELSE IF Len(needle) = Len(bytes) THEN same ELSE other
  BY DEF ReplaceRange
<1>2. needle = <<>> => bad
  OBVIOUS
<1>3. matches \in Seq(Nat) /\ Len(matches) \in 0..Len(matches)
  <2>1. matches \in Seq(start..end)
    BY MatchesAre
  <2> HIDE DEF matches
  <2>2. \A x \in start..end : x \in Nat
    OBVIOUS
  <2> QED BY <2>1, <2>2
<1> HIDE DEF bad, matches
<1>4. e.ok
  OBVIOUS
<1> HIDE DEF e
<1>5. ASSUME e \in TriesInPlace(d) PROVE Made(d, e) /\ SameSlots(d, e.doc)
  BY <1>4, <1>5 DEF TriesInPlace, Tries
<1>6. ~ bad
  <2>1. e # Refused(d)
    BY <1>4, RefusedTry
  <2> QED BY <1>1, <2>1
<1>7. CASE matches = <<>>
  <2>1. e = Edited(d, <<>>, 0)
    BY <1>1, <1>6, <1>7
  <2> QED BY <1>5, <2>1, NothingTry DEF e
<1>8. CASE matches # <<>> /\ Len(needle) = Len(bytes)
  <2>1. e = same
    BY <1>1, <1>6, <1>8
  <2>2. CASE needle = bytes
    <3>1. same = Edited(d, <<>>, 0)
      BY <2>2 DEF ReplaceSameSize
    <3> QED BY <1>5, <2>1, <3>1, NothingTry DEF e
  <2>3. CASE needle # bytes
    <3>1. same = SameSizeUpTo(d, matches, bytes)[Len(matches)]
      BY <2>3 DEF ReplaceSameSize
    <3>2. bytes # <<>>
      BY <1>2, <1>6, <1>8
    <3>3. SameSizeUpTo(d, matches, bytes) \in [0..Len(matches) -> TriesInPlace(d)]
      BY <1>3, <3>2, SameSizeWalk
    <3>4. e \in TriesInPlace(d)
      BY <1>3, <2>1, <3>1, <3>3
    <3> QED BY <1>5, <3>4 DEF e
  <2> QED BY <2>2, <2>3
<1>9. CASE matches # <<>> /\ Len(needle) # Len(bytes)
  <2>1. e = other
    BY <1>1, <1>6, <1>9
  <2>2. other = ResizedUpTo(d, matches, needle, bytes)[Len(matches)]
    BY DEF ReplaceResizing
  <2>3. ResizedUpTo(d, matches, needle, bytes) \in [0..Len(matches) -> Tries(d)]
    BY <1>2, <1>3, <1>6, ResizedWalk
  <2>4. e \in Tries(d)
    BY <1>3, <2>1, <2>2, <2>3
  <2> QED BY <1>4, <1>9, <2>4 DEF Tries, e
<1> QED BY <1>7, <1>8, <1>9

(***************************************************************************)
(* The visible bytes, and where a search stops                             *)
(***************************************************************************)

LEMMA VisibleWalk ==
    ASSUME NEW n, NEW d \in Docs(n)
    PROVE  /\ VisibleUpTo(d) \in [0..DocLen(d) -> Seq(0..(DocLen(d) - 1))]
           /\ VisibleUpTo(d)[0] = <<>>
           /\ \A i \in 1..DocLen(d) :
                VisibleUpTo(d)[i] = IF VisibleAt(d, i - 1)
                    THEN Append(VisibleUpTo(d)[i - 1], i - 1)
                    ELSE VisibleUpTo(d)[i - 1]
<1> DEFINE m == DocLen(d)
           Seen(i) == VisibleAt(d, i - 1)
           At(i) == i - 1
           X == Seq(0..(DocLen(d) - 1))
           step == [i \in 1..m |-> [x \in X |-> (IF Seen(i) THEN Append(x, At(i)) ELSE x)]]
           Is(f) == f = [i \in 0..m |->
                            IF i = 0 THEN <<>> ELSE (IF Seen(i) THEN Append(f[i - 1], At(i)) ELSE f[i - 1])]
           w == VisibleUpTo(d)
<1>0. m \in Nat /\ <<>> \in X
  BY DocIs
<1>1. \A i \in 1..m : At(i) \in 0..(DocLen(d) - 1)
  BY <1>0
<1>2. w = CHOOSE g : Is(g)
  BY Zenon DEF VisibleUpTo
<1> HIDE DEF m, Seen, At, X, w
<1>3. ASSUME NEW i \in 1..m, NEW x \in X PROVE (IF Seen(i) THEN Append(x, At(i)) ELSE x) \in X
  <2> DEFINE S == 0..(DocLen(d) - 1)
  <2>1. At(i) \in S /\ x \in Seq(S)
    BY <1>1 DEF X
  <2> HIDE DEF S
  <2>2. Append(x, At(i)) \in Seq(S)
    BY <2>1
  <2> QED BY <2>1, <2>2 DEF X, S
<1>4. step \in [1..m -> [X -> X]]
  BY <1>3
<1>5. ASSUME NEW i \in 1..m, NEW x \in X PROVE step[i][x] = (IF Seen(i) THEN Append(x, At(i)) ELSE x)
  OBVIOUS
<1> HIDE DEF step
<1>6. PICK f \in [0..m -> X] : Repeats(f, m, <<>>, step)
  BY <1>0, <1>4, Recursion
<1>7. f[0] = <<>> /\ \A i \in 1..m : f[i] = (IF Seen(i) THEN Append(f[i - 1], At(i)) ELSE f[i - 1])
  <2>1. ASSUME NEW i \in 1..m PROVE f[i] = (IF Seen(i) THEN Append(f[i - 1], At(i)) ELSE f[i - 1])
    <3>1. f[i - 1] \in X
      BY <1>0
    <3> QED BY <1>5, <1>6, <3>1 DEF Repeats
  <2> QED BY <1>6, <2>1 DEF Repeats
<1>8. Is(f)
  <2>1. \A i \in 0..m : i # 0 => i \in 1..m
    BY <1>0
  <2> QED BY <1>7, <2>1
<1>9. Is(w)
  <2> HIDE DEF Is
  <2> QED BY <1>2, <1>8, Zenon
<1>10. /\ w = [i \in 0..m |-> w[i]] /\ w[0] = <<>>
       /\ \A i \in 1..m : w[i] = (IF Seen(i) THEN Append(w[i - 1], At(i)) ELSE w[i - 1])
  <2>1. 0 \in 0..m /\ \A i \in 1..m : i \in 0..m /\ i # 0
    BY <1>0
  <2> QED BY <1>9, <2>1
<1> HIDE DEF Is
<1>11. w = f
  <2>1. \A i \in 1..m : f[i - 1] = w[i - 1] => f[i] = w[i]
    BY <1>7, <1>10
  <2>2. GoOnAlike(m, f, w)
    BY <1>7, <1>10, <2>1 DEF GoOnAlike
  <2> QED BY <1>0, <2>2, SameWalk
<1> QED BY <1>10, <1>11 DEF m, Seen, At, X, w

\* Numbers in ascending order, none of them k or more.
Rises(s, k) ==
    /\ \A a \in 1..Len(s) : s[a] < k
    /\ \A a, b \in 1..Len(s) : a < b => s[a] < s[b]

LEMMA VisibleIs ==
    ASSUME NEW n, NEW d \in Docs(n)
    PROVE  /\ VisibleOffsets(d) \in Seq(0..(DocLen(d) - 1))
           /\ Len(VisibleOffsets(d)) \in Nat
           /\ \A a \in 1..Len(VisibleOffsets(d)) :
                VisibleOffsets(d)[a] \in Nat /\ VisibleOffsets(d)[a] < DocLen(d)
           /\ Rises(VisibleOffsets(d), DocLen(d))
<1> DEFINE m == DocLen(d)
           S == 0..(m - 1)
           w == VisibleUpTo(d)
           Seen(i) == VisibleAt(d, i - 1)
           T == {i \in 0..m : Rises(w[i], i)}
<1>0. m \in Nat /\ m \in 0..m /\ S \subseteq Nat
  BY DocIs
<1>1. /\ w \in [0..m -> Seq(S)] /\ w[0] = <<>>
      /\ \A i \in 1..m : w[i] = IF Seen(i) THEN Append(w[i - 1], i - 1) ELSE w[i - 1]
  BY VisibleWalk
<1>2. \A s \in S : s \in Nat /\ s < m
  BY <1>0
<1> HIDE DEF w, Seen, S, m
<1>3. 0 \in T
  BY <1>0, <1>1 DEF Rises
<1>4. ASSUME NEW i \in 1..m, i - 1 \in T PROVE i \in T
  <2> DEFINE p == w[i - 1]
             q == w[i]
  <2>1. p \in Seq(S) /\ Rises(p, i - 1) /\ i \in 0..m /\ i \in Nat
    BY <1>0, <1>1, <1>4
  <2>2. q = IF Seen(i) THEN Append(p, i - 1) ELSE p
    BY <1>1
  <2> HIDE DEF p, q
  <2>3. Len(p) \in Nat /\ \A a \in 1..Len(p) : p[a] \in Nat
    <3>1. Len(p) \in Nat /\ \A a \in 1..Len(p) : p[a] \in S
      BY <2>1
    <3> QED BY <1>0, <3>1
  <2>4. CASE Seen(i)
    <3>1. q = Append(p, i - 1)
      BY <2>2, <2>4
    <3>2. Len(q) = Len(p) + 1 /\ q[Len(p) + 1] = i - 1 /\ \A a \in 1..Len(p) : q[a] = p[a]
      BY <2>1, <2>3, <3>1
    <3>3. \A a \in 1..Len(p) : p[a] < i - 1
      BY <2>1 DEF Rises
    <3>4. \A a, b \in 1..Len(p) : a < b => p[a] < p[b]
      BY <2>1 DEF Rises
    <3>5. ASSUME NEW a \in 1..Len(q) PROVE q[a] < i
      BY <2>1, <2>3, <3>2, <3>3
    <3>6. ASSUME NEW a \in 1..Len(q), NEW b \in 1..Len(q), a < b PROVE q[a] < q[b]
      <4>1. a \in 1..Len(p)
        BY <2>3, <3>2, <3>6
      <4>2. CASE b \in 1..Len(p)
        BY <3>2, <3>4, <3>6, <4>1, <4>2
      <4>3. CASE b = Len(p) + 1
        BY <3>2, <3>3, <4>1, <4>3
      <4> QED BY <2>3, <3>2, <4>2, <4>3
    <3>7. Rises(q, i)
      BY <3>5, <3>6 DEF Rises
    <3> QED BY <2>1, <3>7 DEF q
  <2>5. CASE ~ Seen(i)
    <3>1. q = p
      BY <2>2, <2>5
    <3>2. Rises(p, i)
      BY <2>1, <2>3 DEF Rises
    <3> QED BY <2>1, <3>1, <3>2 DEF q
  <2> QED BY <2>4, <2>5
<1> HIDE DEF T
<1>5. m \in T
  <2>1. \A i \in 0..m : i \in T
    BY <1>0, <1>3, <1>4, UpTo
  <2> QED BY <1>0, <2>1
<1>6. Rises(w[m], m) /\ w[m] \in Seq(S)
  BY <1>0, <1>1, <1>5 DEF T
<1>7. VisibleOffsets(d) = w[m]
  BY DEF VisibleOffsets, w, m
<1>8. Len(w[m]) \in Nat /\ \A a \in 1..Len(w[m]) : w[m][a] \in S
  BY <1>6
<1> QED BY <1>2, <1>6, <1>7, <1>8 DEF S, m

\* The visible bytes are counted from the cells and the tombstones alone.
LEMMA SameVisible ==
    ASSUME NEW d, NEW e, d.cells = e.cells, d.tomb = e.tomb
    PROVE  VisibleOffsets(d) = VisibleOffsets(e)
<1> DEFINE G(cells, tomb) ==
            LET walk[i \in 0..Len(cells)] ==
                    IF i = 0 THEN <<>>
                    ELSE IF i - 1 < Len(cells) /\ cells[i - 1 + 1] \notin tomb
                    THEN Append(walk[i - 1], i - 1)
                    ELSE walk[i - 1]
            IN  walk
<1>1. VisibleUpTo(d) = G(d.cells, d.tomb)
  BY Zenon DEF VisibleUpTo, VisibleAt, DocLen
<1>2. VisibleUpTo(e) = G(e.cells, e.tomb)
  BY Zenon DEF VisibleUpTo, VisibleAt, DocLen
<1> HIDE DEF G
<1> QED BY <1>1, <1>2 DEF VisibleOffsets, DocLen

LEMMA MaxIs ==
    ASSUME NEW S \in SUBSET Nat, S # {}, NEW n \in Nat, \A x \in S : x <= n
    PROVE  Max(S) \in S
<1> DEFINE R == {n - x : x \in S}
<1>1. R \in SUBSET Nat /\ R # {}
  <2>1. \A x \in S : n - x \in Nat
    OBVIOUS
  <2>2. R # {}
    OBVIOUS
  <2>3. \A y \in R : y \in Nat
    BY <2>1
  <2> QED BY <2>2, <2>3
<1>2. PICK m \in R : \A k \in R : m <= k
  BY <1>1, LeastNatural
<1>3. PICK x \in S : m = n - x
  BY <1>2
<1>4. \A y \in S : n - x <= n - y
  BY <1>2, <1>3
<1>5. \A y \in S : x >= y
  BY <1>4
<1>6. Max(S) = CHOOSE z \in S : \A y \in S : z >= y
  BY DEF Max
<1> QED BY <1>5, <1>6

\* A hit of a search forward lies in the document, and one of a search
\* backward no further than where it started.
LEMMA ForwardIs ==
    ASSUME NEW n, NEW d \in Docs(n), NEW from \in Nat, NEW pattern,
           SearchForward(d, from, pattern) # None
    PROVE  /\ SearchForward(d, from, pattern) \in Nat
           /\ SearchForward(d, from, pattern) < DocLen(d)
<1> DEFINE hits == {off \in from..(DocLen(d) - 1) : MatchAt(d, off, pattern)}
           r == SearchForward(d, from, pattern)
<1>0. DocLen(d) \in Nat
  BY DocIs
<1>1. r = IF hits = {} THEN None ELSE Min(hits)
  BY DEF SearchForward
<1>2. hits \in SUBSET Nat /\ \A x \in hits : x \in Nat /\ x < DocLen(d)
  BY <1>0
<1> HIDE DEF hits, r
<1>3. hits # {} /\ r = Min(hits)
  BY <1>1 DEF r
<1>4. Min(hits) = CHOOSE x \in hits : \A y \in hits : x <= y
  BY DEF Min
<1>5. Min(hits) \in hits
  BY <1>2, <1>3, <1>4, LeastNatural
<1> QED BY <1>2, <1>3, <1>5 DEF r

LEMMA BackwardIs ==
    ASSUME NEW d, NEW to \in Nat, NEW pattern \in Seq(Byte), pattern # <<>>,
           SearchBackward(d, to, pattern) # None
    PROVE  /\ SearchBackward(d, to, pattern) \in Nat
           /\ SearchBackward(d, to, pattern) < to
<1> DEFINE hits == {off \in 0..(to - Len(pattern)) : MatchAt(d, off, pattern)}
           r == SearchBackward(d, to, pattern)
<1>0. Len(pattern) \in Nat /\ Len(pattern) > 0
  OBVIOUS
<1>1. r = IF hits = {} THEN None ELSE Max(hits)
  BY DEF SearchBackward
<1>2. hits \in SUBSET Nat /\ \A x \in hits : x \in Nat /\ x < to /\ x <= to
  BY <1>0
<1> HIDE DEF hits, r
<1>3. hits # {} /\ r = Max(hits)
  BY <1>1 DEF r
<1>4. Max(hits) \in hits
  BY <1>2, <1>3, MaxIs
<1> QED BY <1>2, <1>3, <1>4 DEF r
=============================================================================
