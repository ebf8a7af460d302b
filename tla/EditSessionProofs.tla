--------------------------- MODULE EditSessionProofs ---------------------------
(***************************************************************************)
(* Proofs about the editing session, for every file, every input and any   *)
(* number of steps: undo and redo always show what was shown before.       *)
(*                                                                         *)
(* The undo and the redo stack lie on one line of documents.  Each step    *)
(* leads from one document to the next, and back, exactly: the same cells, *)
(* deletions and replacements.  An edit cuts the line at the document of   *)
(* this moment and adds one; undo and redo only move along it.  A new cell *)
(* is no part of the documents before it, so these can be given its byte.  *)
(***************************************************************************)
EXTENDS EditSession, DocumentProofs

Steps(n) ==
    [ops : OpLists(n), cursorBefore : Nat, modeBefore : Modes,
     cursorAfter : Nat, modeAfter : Modes,
     shown : Seq(Byte \cup {None}) \cup {None}]

(***************************************************************************)
(* The invariant                                                           *)
(***************************************************************************)

\* The cells that were allocated before the half-typed byte.
Allocated(d, p) == IF p = None THEN Len(d.base) ELSE Len(d.base) - 1

HistoryInv == dropped \/ History(fileLen, undo, redo, Allocated(doc, pending), Settled)

StacksInv ==
    /\ fileLen \in Nat
    /\ doc \in Docs(Len(doc.base))
    /\ undo \in Seq(Steps(Allocated(doc, pending)))
    /\ redo \in Seq(Steps(Allocated(doc, pending)))

PendingInv ==
    pending # None =>
        /\ pending \in [off : Nat, high : Typed]
        /\ mode = "Insert" /\ redo = <<>>
        /\ pending.off < DocLen(doc) /\ doc.cells[pending.off + 1] = Len(doc.base)

InputInv ==
    /\ profile \in Profiles
    /\ mode \in Modes /\ returnMode \in Modes \cup {None}
    /\ anchor \in Nat \cup {None} /\ grabbed \in Nat \cup {None}
    /\ cursor \in 0..DocLen(doc)
    /\ dropped \in BOOLEAN

SessionInv == StacksInv /\ PendingInv /\ InputInv /\ HistoryInv

(***************************************************************************)
(* Undo records                                                            *)
(***************************************************************************)

LEMMA StepIs ==
    ASSUME NEW n, NEW step \in Steps(n)
    PROVE  /\ step.ops \in Seq(Ops(n)) /\ step.ops \in OpLists(n)
           /\ step.cursorBefore \in Nat /\ step.cursorAfter \in Nat
           /\ step.modeBefore \in Modes /\ step.modeAfter \in Modes
           /\ step.shown \in Seq(Byte \cup {None}) \cup {None}
<1>1. step.ops \in OpLists(n)
  BY DEF Steps
<1>2. step.ops \in Seq(Ops(n))
  BY <1>1 DEF OpLists
<1> QED BY <1>1, <1>2 DEF Steps

LEMMA StepsRecorded ==
    ASSUME NEW n
    PROVE  Records(Steps(n), n)
BY StepIs DEF Records

(***************************************************************************)
(* A byte that is typed                                                    *)
(***************************************************************************)

\* One byte, written over.
LEMMA ByteSet ==
    ASSUME NEW n, NEW d \in Docs(n), NEW id \in 1..n, NEW v \in Byte
    PROVE  \E repl \in Partial(1..n, Byte) :
                /\ SetByte(d, id, v) = Slots(d, d.tomb, repl)
                /\ AgreeOff(d.repl, repl, {id}) /\ AgreeOff(repl, d.repl, {id})
<1>0. d.repl \in Partial(1..n, Byte)
  BY DocIs
<1>1. CASE v = d.base[id]
  <2> DEFINE new == Without(d.repl, {id})
  <2>1. new \in Partial(1..n, Byte) /\ SameOn(new, d.repl, DOMAIN d.repl \ {id})
    BY <1>0, WithoutIs
  <2>2. SetByte(d, id, v) = [d EXCEPT !.repl = new]
    BY <1>1 DEF SetByte
  <2> HIDE DEF new
  <2>3. AgreeOff(d.repl, new, {id}) /\ AgreeOff(new, d.repl, {id})
    BY <2>1 DEF AgreeOff, SameOn
  <2> QED BY <2>1, <2>2, <2>3, ReplSlots
<1>2. CASE v # d.base[id]
  <2> DEFINE g == [x \in {id} |-> v]
             new == Over(d.repl, g)
  <2>1. g \in Partial(1..n, Byte) /\ DOMAIN g \subseteq {id}
    <3>1. g \in [{id} -> Byte]
      OBVIOUS
    <3>2. {id} \in SUBSET (1..n)
      OBVIOUS
    <3> QED BY <3>1, <3>2, IsPartial
  <2>2. SetByte(d, id, v) = [d EXCEPT !.repl = new]
    BY <1>2 DEF SetByte
  <2> HIDE DEF g
  <2>3. new \in Partial(1..n, Byte) /\ AgreeOff(d.repl, new, {id}) /\ AgreeOff(new, d.repl, {id})
    BY <1>0, <2>1, OverIs, AgreeOver
  <2> HIDE DEF new
  <2> QED BY <2>2, <2>3, ReplSlots
<1> QED BY <1>1, <1>2

LEMMA NibbleEdits ==
    ASSUME NEW n, NEW d \in Docs(n), NEW id \in 1..n, NEW v \in Byte
    PROVE  Edits(n, d, <<ReplaceOp({id}, Only(d.repl, {id}), Only(SetByte(d, id, v).repl, {id}))>>,
                 SetByte(d, id, v))
<1>1. PICK repl \in Partial(1..n, Byte) :
        /\ SetByte(d, id, v) = Slots(d, d.tomb, repl)
        /\ AgreeOff(d.repl, repl, {id}) /\ AgreeOff(repl, d.repl, {id})
  BY ByteSet
<1>2. SetByte(d, id, v).repl = repl
  BY <1>1 DEF Slots
<1> DEFINE ids == {id}
<1>3. ids \in SUBSET (1..n)
  OBVIOUS
<1> HIDE DEF ids
<1>4. AgreeOff(d.repl, repl, ids) /\ AgreeOff(repl, d.repl, ids)
  BY <1>1 DEF ids
<1>5. Edits(n, d, <<ReplaceOp(ids, Only(d.repl, ids), Only(repl, ids))>>, Slots(d, d.tomb, repl))
  BY <1>3, <1>4, ReplaceEdits
<1> QED BY <1>1, <1>2, <1>5 DEF ids

LEMMA DigitsIs ==
    ASSUME NEW x \in 0..(Radix - 1), NEW y \in 0..(Radix - 1)
    PROVE  x * Radix + y \in Byte /\ x * Radix \in Byte
<1> DEFINE sq == Radix * Radix
<1>0. Radix \in Nat /\ Radix > 0 /\ sq \in Nat
  BY DocumentConstants
<1>1. x * Radix <= (Radix - 1) * Radix /\ x * Radix >= 0 /\ x * Radix \in Int
  BY <1>0
<1>2. (Radix - 1) * Radix = sq - Radix
  BY <1>0
<1> QED BY <1>0, <1>1, <1>2 DEF Byte

LEMMA NibbleIs ==
    ASSUME NEW b \in Byte, NEW v \in 0..(Radix - 1), NEW m
    PROVE  WithNibble(b, m, v) \in Byte
<1> DEFINE q == b \div Radix
           r == b % Radix
           sq == Radix * Radix
<1>0. Radix \in Nat /\ Radix > 0 /\ b \in Nat /\ b < sq /\ sq \in Nat
  BY DocumentConstants DEF Byte
<1>1. q \in Nat /\ r \in 0..(Radix - 1) /\ b = Radix * q + r
  BY <1>0
<1>2. q <= Radix - 1
  <2> SUFFICES ASSUME q >= Radix PROVE FALSE
    BY <1>0, <1>1
  <2>1. Radix * q >= Radix * Radix
    <3> HIDE DEF q
    <3> QED BY <1>0, <1>1
  <2> HIDE DEF q, r
  <2> QED BY <1>0, <1>1, <2>1
<1>4. q \in 0..(Radix - 1)
  <2> HIDE DEF q, r
  <2> QED BY <1>0, <1>1, <1>2
<1> HIDE DEF q, r, sq
<1>5. v * Radix + r \in Byte /\ q * Radix + v \in Byte
  BY <1>1, <1>4, DigitsIs
<1> QED BY <1>5 DEF WithNibble, q, r

LEMMA StepsGrow ==
    ASSUME NEW n \in Nat, NEW k \in Nat, n <= k
    PROVE  /\ \A ops \in OpLists(n) : ops \in OpLists(k)
           /\ \A step \in Steps(n) : step \in Steps(k)
           /\ \A steps \in Seq(Steps(n)) : steps \in Seq(Steps(k))
<1>1. Ops(n) \subseteq Ops(k) /\ SlotOps(n) \subseteq SlotOps(k)
  BY OpsGrow
<1>2. ASSUME NEW S, NEW T, S \subseteq T, NEW s \in Seq(S) PROVE s \in Seq(T)
  <2>1. Len(s) \in Nat /\ \A i \in 1..Len(s) : s[i] \in T
    BY <1>2
  <2> QED BY <2>1
<1>3. ASSUME NEW ops \in OpLists(n) PROVE ops \in OpLists(k)
  <2>1. ops \in Seq(Ops(n)) /\ (Len(ops) = 1 \/ ops \in Seq(SlotOps(n)))
    BY <1>3 DEF OpLists
  <2> QED BY <1>1, <1>2, <2>1 DEF OpLists
<1>4. ASSUME NEW step \in Steps(n) PROVE step \in Steps(k)
  BY <1>3, <1>4 DEF Steps
<1> QED BY <1>2, <1>3, <1>4

(***************************************************************************)
(* Steps                                                                   *)
(***************************************************************************)

\* What the stacks have to be for document d, when no byte is half typed.
Sound(len, u, r, d, lost) ==
    /\ len \in Nat /\ d \in Docs(Len(d.base))
    /\ u \in Seq(Steps(Len(d.base))) /\ r \in Seq(Steps(Len(d.base)))
    /\ lost \/ History(len, u, r, Len(d.base), d)

LEMMA SoundIs ==
    ASSUME StacksInv, HistoryInv, pending = None
    PROVE  Sound(fileLen, undo, redo, doc, dropped)
BY DEF StacksInv, HistoryInv, Sound, Allocated, Settled

LEMMA IsSound ==
    ASSUME pending' = None, Sound(fileLen', undo', redo', doc', dropped')
    PROVE  StacksInv' /\ HistoryInv'
BY DEF StacksInv, HistoryInv, Sound, Allocated, Settled

LEMMA StepType ==
    ASSUME NEW n, NEW ops \in OpLists(n), NEW cb \in Nat, NEW mb \in Modes,
           NEW ca \in Nat, NEW ma \in Modes,
           dropped \/ Display(Settled) \in Seq(Byte \cup {None})
    PROVE  /\ Step(ops, cb, mb, ca, ma) \in Steps(n)
           /\ Step(ops, cb, mb, ca, ma).ops = ops
           /\ ~ dropped => Step(ops, cb, mb, ca, ma).shown = Display(Settled)
<1> DEFINE s == IF dropped THEN None ELSE Display(Settled)
<1>1. s \in Seq(Byte \cup {None}) \cup {None}
  OBVIOUS
<1>2. Step(ops, cb, mb, ca, ma) = [ops |-> ops, cursorBefore |-> cb, modeBefore |-> mb,
                                   cursorAfter |-> ca, modeAfter |-> ma, shown |-> s]
  BY DEF Step
<1> QED BY <1>1, <1>2 DEF Steps

\* A step is on the undo stack, and ends the redo stack, if it has an effect.
LEMMA PushType ==
    ASSUME NEW n, undo \in Seq(Steps(n)), redo \in Seq(Steps(n)),
           NEW ops \in OpLists(n), NEW cb \in Nat, NEW mb \in Modes,
           NEW ca \in Nat, NEW ma \in Modes,
           dropped \/ Display(Settled) \in Seq(Byte \cup {None}),
           PushUndoStep(ops, cb, mb, ca, ma)
    PROVE  undo' \in Seq(Steps(n)) /\ redo' \in Seq(Steps(n))
<1> DEFINE step == Step(ops, cb, mb, ca, ma)
<1>1. step \in Steps(n)
  BY StepType
<1> HIDE DEF step
<1>2. CASE \E i \in DOMAIN ops : HasEffect(ops[i])
  <2>1. undo' = Append(undo, step) /\ redo' = <<>>
    BY <1>2 DEF PushUndoStep, step
  <2> QED BY <1>1, <2>1
<1>3. CASE ~ \E i \in DOMAIN ops : HasEffect(ops[i])
  BY <1>3 DEF PushUndoStep
<1> QED BY <1>2, <1>3

LEMMA PushHistory ==
    ASSUME NEW n, undo \in Seq(Steps(n)), redo \in Seq(Steps(n)),
           NEW ops, NEW cb \in Nat, NEW mb \in Modes, NEW ca \in Nat, NEW ma \in Modes,
           NEW len, NEW d, History(len, undo, redo, n, d), ~ dropped,
           Display(Settled) = Display(d),
           NEW e, Edits(n, d, ops, e), PushUndoStep(ops, cb, mb, ca, ma)
    PROVE  History(len, undo', redo', n, e)
<1> DEFINE step == Step(ops, cb, mb, ca, ma)
<1>1. d \in Docs(n) /\ ops \in OpLists(n)
  BY DEF Edits
<1>2. step \in Steps(n) /\ step.ops = ops /\ step.shown = Display(d)
  BY <1>1, DisplayIs, StepType
<1> HIDE DEF step
<1>3. CASE \E i \in DOMAIN ops : HasEffect(ops[i])
  <2>1. undo' = Append(undo, step) /\ redo' = <<>>
    BY <1>3 DEF PushUndoStep, step
  <2>2. Edits(n, d, step.ops, e)
    BY <1>2
  <2>3. History(len, Append(undo, step), <<>>, n, e)
    BY <1>2, <2>2, EditReaches, HistoryPushes
  <2> QED BY <2>1, <2>3
<1>4. CASE ~ \E i \in DOMAIN ops : HasEffect(ops[i])
  <2>1. e = d
    BY <1>4 DEF Edits
  <2>2. undo' = undo /\ redo' = redo
    BY <1>4 DEF PushUndoStep
  <2> QED BY <2>1, <2>2
<1> QED BY <1>3, <1>4

\* An edit of the document while no byte is half typed.
LEMMA PushSound ==
    ASSUME Sound(fileLen, undo, redo, doc, dropped), pending = None,
           NEW ops, NEW cb \in Nat, NEW mb \in Modes, NEW ca \in Nat, NEW ma \in Modes,
           NEW e, Edits(Len(doc.base), doc, ops, e), PushUndoStep(ops, cb, mb, ca, ma)
    PROVE  Sound(fileLen, undo', redo', e, dropped)
<1> DEFINE n == Len(doc.base)
<1>1. /\ fileLen \in Nat /\ doc \in Docs(n)
      /\ undo \in Seq(Steps(n)) /\ redo \in Seq(Steps(n))
      /\ dropped \/ History(fileLen, undo, redo, n, doc)
  BY DEF Sound
<1>2. Settled = doc
  BY DEF Settled
<1> HIDE DEF n
<1>3. Edits(n, doc, ops, e) /\ e.base = doc.base /\ e \in Docs(n) /\ ops \in OpLists(n)
  BY DEF Edits, n
<1>4. undo' \in Seq(Steps(n)) /\ redo' \in Seq(Steps(n))
  BY <1>1, <1>2, <1>3, DisplayIs, PushType
<1>5. dropped \/ History(fileLen, undo', redo', n, e)
  BY <1>1, <1>2, <1>3, PushHistory
<1> QED BY <1>1, <1>3, <1>4, <1>5 DEF Sound, n

\* The half-typed byte, and the document before it.
LEMMA PendingIs ==
    ASSUME StacksInv, PendingInv, pending # None
    PROVE  /\ Len(doc.base) - 1 \in Nat /\ Len(doc.base) \in Nat /\ doc \in Docs(Len(doc.base))
           /\ pending.off \in Nat /\ pending.off < DocLen(doc) /\ DocLen(doc) \in Nat
           /\ pending.high \in Typed /\ mode = "Insert" /\ redo = <<>>
           /\ CellsAt(doc, pending.off, 1) = <<Len(doc.base)>>
           /\ Settled = Cut(doc, pending.off, 1) /\ Settled \in Docs(Len(doc.base))
           /\ Settled = [base |-> doc.base, cells |-> CutSeq(doc.cells, pending.off, 1),
                         tomb |-> doc.tomb, repl |-> doc.repl]
           /\ Allocated(doc, pending) = Len(doc.base) - 1
           /\ undo \in Seq(Steps(Len(doc.base))) /\ redo \in Seq(Steps(Len(doc.base)))
<1> DEFINE m == Len(doc.base)
           off == pending.off
<1>1. /\ doc \in Docs(m) /\ pending \in [off : Nat, high : Typed] /\ mode = "Insert"
      /\ redo = <<>> /\ off < DocLen(doc) /\ doc.cells[off + 1] = m
      /\ undo \in Seq(Steps(Allocated(doc, pending)))
  BY DEF StacksInv, PendingInv
<1>2. off \in Nat /\ pending.high \in Typed
  BY <1>1
<1>3. m \in Nat /\ doc.cells \in Seq(1..m) /\ DocLen(doc) = Len(doc.cells) /\ DocLen(doc) \in Nat
  BY <1>1, DocIs
<1> HIDE DEF m, off
<1>4. off + 1 \in 1..Len(doc.cells) /\ off + 1 <= DocLen(doc) /\ off <= DocLen(doc)
  BY <1>1, <1>2, <1>3
<1>5. m \in 1..m
  BY <1>1, <1>3, <1>4
<1>6. m - 1 \in Nat /\ m - 1 <= m
  BY <1>3, <1>5
<1>7. CellsAt(doc, off, 1) = <<m>>
  <2> DEFINE c == CellsAt(doc, off, 1)
  <2>1. Len(c) = 1 /\ c \in Seq(1..m)
    <3>1. doc \in Docs(m) /\ off \in Nat /\ 1 \in Nat /\ off + 1 <= DocLen(doc)
      BY <1>1, <1>2, <1>4
    <3> QED BY <3>1, RangeIs, Zenon
  <2>2. \A i \in 1..Len(c) : c[i] = doc.cells[off + i]
    <3>1. doc \in Docs(m) /\ off \in Nat /\ 1 \in Nat
      BY <1>1, <1>2
    <3> QED BY <3>1, CellsAtIs, Zenon
  <2> HIDE DEF c
  <2>3. c[1] = m
    BY <1>1, <2>1, <2>2
  <2> QED BY <2>1, <2>3 DEF c
<1>8. Settled = Cut(doc, off, 1) /\ Allocated(doc, pending) = m - 1
  BY DEF Settled, Allocated, off, m
<1>9. /\ Cut(doc, off, 1) \in Docs(m)
      /\ Cut(doc, off, 1) = [base |-> doc.base, cells |-> CutSeq(doc.cells, off, 1),
                             tomb |-> doc.tomb, repl |-> doc.repl]
  BY <1>1, <1>2, <1>4, CutIs
<1>10. undo \in Seq(Steps(m)) /\ redo \in Seq(Steps(m))
  <2>1. undo \in Seq(Steps(m))
    BY <1>1, <1>3, <1>6, <1>8, StepsGrow
  <2> QED BY <1>1, <2>1
<1> QED BY <1>1, <1>2, <1>3, <1>6, <1>7, <1>8, <1>9, <1>10 DEF m, off

LEMMA CommitNone ==
    ASSUME StacksInv, HistoryInv, pending = None, NEW off, CommitPendingInsert(doc, off)
    PROVE  pending' = None /\ Sound(fileLen, undo', redo', doc, dropped)
<1>1. pending' = pending /\ undo' = undo /\ redo' = redo
  BY DEF CommitPendingInsert
<1> QED BY <1>1, SoundIs

\* Until now only the byte of the cell allocated last may have changed.
LEMMA CommitSome ==
    ASSUME StacksInv, HistoryInv, PendingInv, pending # None,
           NEW d \in Docs(Len(doc.base)), d.base = doc.base, d.cells = doc.cells,
           d.tomb = doc.tomb, AgreeOff(doc.repl, d.repl, {Len(doc.base)}),
           NEW off \in Nat, CommitPendingInsert(d, off)
    PROVE  pending' = None /\ Sound(fileLen, undo', redo', d, dropped)
<1> DEFINE m == Len(doc.base)
           at == pending.off
           ops == <<InsertOp(at, <<m>>)>>
           s == Settled
           f == Only(d.repl, {m})
           x == Extended(s, doc.base, f)
<1>1. /\ m - 1 \in Nat /\ m \in Nat /\ doc \in Docs(m) /\ d \in Docs(m)
      /\ at \in Nat /\ at < DocLen(doc) /\ DocLen(doc) \in Nat
      /\ CellsAt(doc, at, 1) = <<m>> /\ s \in Docs(m)
      /\ s = [base |-> doc.base, cells |-> CutSeq(doc.cells, at, 1),
              tomb |-> doc.tomb, repl |-> doc.repl]
      /\ Allocated(doc, pending) = m - 1
      /\ undo \in Seq(Steps(m)) /\ redo \in Seq(Steps(m)) /\ fileLen \in Nat
  BY PendingIs DEF StacksInv
<1>2. CellsAt(d, at, 1) = <<m>>
  BY <1>1 DEF CellsAt, DocLen
<1>3. pending' = None /\ PushUndoStep(ops, at, "Insert", off, "Insert")
  BY <1>2 DEF CommitPendingInsert
<1>4. "Insert" \in Modes
  BY DEF Modes, EofModes
<1>5. m \in 1..m /\ m \notin 1..(m - 1)
  BY <1>1
<1>6. ops \in OpLists(m)
  <2>1. InsertOp(at, <<m>>) \in Ops(m)
    BY <1>1, <1>5 DEF InsertOp, Ops, CellOps
  <2> QED BY <2>1 DEF OpLists
<1>7. s.base = doc.base /\ s.tomb = doc.tomb /\ s.repl = doc.repl
      /\ s.cells = CutSeq(doc.cells, at, 1)
  BY <1>1
<1> HIDE DEF m, at, ops, s
<1>8. undo' \in Seq(Steps(m)) /\ redo' \in Seq(Steps(m))
  <2>1. Display(Settled) \in Seq(Byte \cup {None})
    BY <1>1, DisplayIs DEF s
  <2> QED BY <1>1, <1>3, <1>4, <1>6, <2>1, PushType
<1>9. ASSUME ~ dropped PROVE History(fileLen, undo', redo', m, d)
  <2>1. /\ History(fileLen, undo, redo, m - 1, s)
        /\ undo \in Seq(Steps(m - 1)) /\ redo \in Seq(Steps(m - 1))
    BY <1>1, <1>9 DEF HistoryInv, StacksInv, s
  <2>2. s \in Docs(m - 1)
    BY <2>1, HistoryDoc
  <2>3. doc.base \in Seq(Byte) /\ m <= Len(doc.base) /\ d.repl \in Partial(1..m, Byte)
    BY <1>1, DocIs
  <2>4. f \in Partial(1..m, Byte) /\ DOMAIN f \subseteq {m}
    <3> DEFINE g == d.repl
    <3>1. g \in Partial(1..m, Byte)
      BY <2>3
    <3> HIDE DEF g
    <3>2. Only(g, {m}) \in Partial(1..m, Byte) /\ SameOn(Only(g, {m}), g, DOMAIN g \cap {m})
      BY <3>1, OnlyIs, Zenon
    <3> QED BY <3>2 DEF SameOn, g
  <2> HIDE DEF f
  <2>5. Extension(m - 1, s, m, doc.base, f)
    BY <1>1, <1>5, <1>7, <2>3, <2>4 DEF Extension
  <2>6. x \in Docs(m)
    BY <2>2, <2>5, ExtendedIs
  <2>7. x = [base |-> doc.base, cells |-> s.cells, tomb |-> s.tomb, repl |-> Over(s.repl, f)]
    BY DEF Extended
  <2>8. Display(x) = Display(s)
    BY <2>2, <2>5, ExtendedDisplay
  <2>9. History(fileLen, undo, redo, m, x)
    BY StepsRecorded, <1>1, <2>1, <2>5, HistoryExtends
  <2> HIDE DEF x
  <2>10. /\ s.cells \in Seq(1..(m - 1)) /\ s.repl \in Partial(1..(m - 1), Byte)
         /\ s.repl \in Partial(1..m, Byte) /\ doc.cells \in Seq(1..m)
         /\ DocLen(doc) = Len(doc.cells)
    BY <1>1, <2>2, DocIs
  <2>11. x.cells = s.cells /\ DocLen(x) = Len(s.cells)
    BY <2>7 DEF DocLen
  <2>12. SpliceSeq(s.cells, at, <<m>>) = doc.cells
    <3> DEFINE t == <<m>>
    <3>1. t \in Seq(1..m) /\ Len(t) = 1 /\ \A i \in 1..Len(t) : t[i] = doc.cells[at + i]
      <4>1. \A i \in 1..Len(CellsAt(doc, at, 1)) : CellsAt(doc, at, 1)[i] = doc.cells[at + i]
        BY <1>1, CellsAtIs
      <4>2. CellsAt(doc, at, 1) = t
        BY <1>1
      <4>3. t \in Seq(1..m) /\ Len(t) = 1
        BY <1>5
      <4> HIDE DEF t
      <4> QED BY <4>1, <4>2, <4>3
    <3>2. at + Len(t) <= Len(doc.cells)
      BY <1>1, <2>10, <3>1
    <3> HIDE DEF t
    <3>3. SpliceSeq(CutSeq(doc.cells, at, Len(t)), at, t) = doc.cells
      <4>1. doc.cells \in Seq(1..m) /\ at \in Nat /\ t \in Seq(1..m)
        BY <1>1, <2>10, <3>1
      <4>2. \A i \in 1..Len(t) : t[i] = doc.cells[at + i]
        BY <3>1
      <4> QED BY <3>2, <4>1, <4>2, SplicedCut, Zenon
    <3> QED BY <1>7, <3>1, <3>3 DEF t
  <2>13. at <= DocLen(x)
    <3>1. Len(s.cells) = Len(doc.cells) - 1
      <4> DEFINE c == doc.cells
                 y == CutSeq(c, at, 1)
      <4>1. c \in Seq(1..m) /\ at <= Len(c) /\ at + 1 <= Len(c)
        BY <1>1, <2>10
      <4> HIDE DEF c
      <4>2. CutAs(y, c, at, 1)
        BY <1>1, <4>1, CutSeqIs
      <4> HIDE DEF y
      <4>3. Len(y) = Len(c) - 1
        BY <4>1, <4>2 DEF CutAs
      <4> QED BY <1>7, <4>3 DEF y, c
    <3> QED BY <1>1, <2>10, <2>11, <3>1
  <2>14. Edits(m, x, ops, Splice(x, at, <<m>>))
    <3> DEFINE t == <<m>>
    <3>1. t \in Seq(1..m) /\ t # <<>> /\ Injective(t)
      BY <1>5 DEF Injective
    <3>2. \A i \in 1..Len(x.cells), j \in 1..Len(t) : x.cells[i] # t[j]
      <4>1. \A i \in 1..Len(s.cells) : s.cells[i] \in 1..(m - 1)
        <5> DEFINE K == 1..(m - 1)
                   c == s.cells
        <5>1. c \in Seq(K)
          BY <2>10
        <5> HIDE DEF K, c
        <5>2. \A i \in 1..Len(c) : c[i] \in K
          BY <5>1
        <5> QED BY <5>2 DEF K, c
      <4> QED BY <1>5, <2>11, <4>1
    <3> HIDE DEF t
    <3>3. Edits(m, x, <<InsertOp(at, t)>>, Splice(x, at, t))
      BY <1>1, <2>6, <2>13, <3>1, <3>2, InsertEdits
    <3> QED BY <3>3 DEF ops, t
  <2>15. Splice(x, at, <<m>>) = d
    <3> DEFINE t == <<m>>
    <3>1. t \in Seq(1..m)
      BY <1>5
    <3> HIDE DEF t
    <3>2. Splice(x, at, t) \in Docs(m)
          /\ Splice(x, at, t) = [base |-> x.base, cells |-> SpliceSeq(x.cells, at, t),
                                 tomb |-> x.tomb, repl |-> x.repl]
      BY <1>1, <2>6, <2>13, <3>1, SpliceIs
    <3>3. Over(s.repl, f) = d.repl
      <4>1. DOMAIN s.repl \subseteq 1..(m - 1)
        <5> DEFINE K == 1..(m - 1)
        <5>1. s.repl \in Partial(K, Byte)
          BY <2>10
        <5> HIDE DEF K
        <5>2. DOMAIN s.repl \subseteq K
          BY <5>1, PartialIs
        <5> QED BY <5>2 DEF K
      <4>2. Without(s.repl, {m}) = s.repl
        <5>1. DOMAIN s.repl \ {m} = DOMAIN s.repl
          BY <1>5, <4>1
        <5>2. s.repl = [y \in DOMAIN s.repl |-> s.repl[y]]
          BY <2>10, PartialIs
        <5> QED BY <5>1, <5>2 DEF Without
      <4>3. AgreeOff(s.repl, d.repl, {m})
        BY <1>7 DEF m
      <4>4. Over(Without(s.repl, {m}), Only(d.repl, {m})) = d.repl
        BY <2>3, <2>10, <4>3, Patched
      <4> QED BY <4>2, <4>4 DEF f
    <3>4. x.base = d.base /\ x.tomb = d.tomb /\ x.repl = d.repl
      BY <1>7, <2>7, <3>3
    <3>5. SpliceSeq(x.cells, at, t) = d.cells
      BY <2>11, <2>12 DEF t
    <3> QED BY <1>1, <3>2, <3>4, <3>5, SameDoc DEF t
  <2>16. Edits(m, x, ops, d)
    BY <2>14, <2>15
  <2>17. Display(Settled) = Display(x)
    BY <2>8 DEF s
  <2> QED BY <1>1, <1>3, <1>4, <1>9, <2>9, <2>16, <2>17, PushHistory
<1> QED BY <1>1, <1>3, <1>8, <1>9 DEF Sound, m

(***************************************************************************)
(* New cells                                                               *)
(***************************************************************************)

\* Bytes inserted in one step.
LEMMA InsertSound ==
    ASSUME Sound(fileLen, undo, redo, doc, dropped), pending = None,
           NEW bytes \in Seq(Byte), bytes # <<>>, NEW off \in Nat, off <= DocLen(doc),
           NEW ops, ops = <<InsertOp(off, InsertedCells(doc, bytes))>>,
           NEW cb \in Nat, NEW mb \in Modes, NEW ca \in Nat, NEW ma \in Modes,
           PushUndoStep(ops, cb, mb, ca, ma)
    PROVE  /\ Sound(fileLen, undo', redo', InsertBytes(doc, off, bytes), dropped)
           /\ DocLen(InsertBytes(doc, off, bytes)) = DocLen(doc) + Len(bytes)
<1> DEFINE n == Len(doc.base)
           k == n + Len(bytes)
           x == Grown(doc, bytes)
           base == Longer(doc, bytes)
           e == InsertBytes(doc, off, bytes)
<1>1. /\ fileLen \in Nat /\ doc \in Docs(n)
      /\ undo \in Seq(Steps(n)) /\ redo \in Seq(Steps(n))
      /\ dropped \/ History(fileLen, undo, redo, n, doc)
  BY DEF Sound
<1>2. Inserted(doc, n, off, bytes, k)
  BY <1>1, InsertIs
<1>3. Settled = doc
  BY DEF Settled
<1>4. n \in Nat /\ n < k /\ k \in Nat /\ n <= k
  <2>1. k \in Nat /\ n < k
    BY <1>2 DEF Inserted
  <2>2. n \in Nat
    BY <1>1, DocIs
  <2> QED BY <2>1, <2>2
<1>5. /\ Grows(doc, n, bytes, k) /\ Edits(k, x, ops, e) /\ e \in Docs(k) /\ e.base = base
      /\ DocLen(e) = DocLen(doc) + Len(bytes)
  BY <1>2 DEF Inserted
<1>6. Len(base) = k /\ Extension(n, doc, k, base, Nowhere) /\ Display(x) = Display(doc)
  BY <1>5 DEF Grows
<1>7. x = Extended(doc, base, Nowhere)
  BY DEF Grown
<1> HIDE DEF n, k, e, x, base
<1>8. undo \in Seq(Steps(k)) /\ redo \in Seq(Steps(k))
  BY <1>1, <1>4, StepsGrow
<1>9. ops \in OpLists(k)
  BY <1>5 DEF Edits
<1>10. undo' \in Seq(Steps(k)) /\ redo' \in Seq(Steps(k))
  <2>1. Display(Settled) \in Seq(Byte \cup {None})
    BY <1>1, <1>3, DisplayIs
  <2> QED BY <1>8, <1>9, <2>1, PushType
<1>11. ASSUME ~ dropped PROVE History(fileLen, undo', redo', k, e)
  <2>1. History(fileLen, undo, redo, k, x)
    BY StepsRecorded, <1>1, <1>6, <1>7, <1>11, HistoryExtends
  <2> QED BY <1>3, <1>5, <1>6, <1>8, <1>11, <2>1, PushHistory
<1>12. Len(e.base) = k
  BY <1>5, <1>6
<1>13. Sound(fileLen, undo', redo', e, dropped)
  BY <1>1, <1>5, <1>10, <1>11, <1>12 DEF Sound
<1> QED BY <1>5, <1>13 DEF e

(***************************************************************************)
(* The byte that is half typed                                             *)
(***************************************************************************)

LEMMA Settles ==
    ASSUME pending' = None, Sound(fileLen', undo', redo', doc', dropped'), InputInv'
    PROVE  SessionInv'
<1>1. StacksInv' /\ HistoryInv'
  BY IsSound
<1>2. PendingInv'
  BY DEF PendingInv
<1> QED BY <1>1, <1>2 DEF SessionInv

\* What leaves the document and the stacks alone leaves the half-typed byte.
LEMMA Kept ==
    ASSUME SessionInv, UNCHANGED <<doc, fileLen, pending, undo, redo, dropped>>,
           pending # None => mode' = "Insert", InputInv'
    PROVE  SessionInv'
<1>1. StacksInv'
  BY DEF SessionInv, StacksInv, Allocated
<1>2. HistoryInv'
  <2>1. Settled' = Settled /\ Allocated(doc', pending') = Allocated(doc, pending)
    BY DEF Settled, Allocated
  <2> QED BY <2>1 DEF SessionInv, HistoryInv
<1>3. PendingInv'
  BY DEF SessionInv, PendingInv, DocLen
<1> QED BY <1>1, <1>2, <1>3 DEF SessionInv

LEMMA Committed ==
    ASSUME SessionInv, NEW off \in Nat, CommitPendingInsert(doc, off)
    PROVE  pending' = None /\ Sound(fileLen, undo', redo', doc, dropped)
<1>1. CASE pending = None
  BY <1>1, CommitNone DEF SessionInv
<1>2. CASE pending # None
  <2>1. doc \in Docs(Len(doc.base))
    BY DEF SessionInv, StacksInv
  <2>2. AgreeOff(doc.repl, doc.repl, {Len(doc.base)})
    BY DEF AgreeOff
  <2> QED BY <1>2, <2>1, <2>2, CommitSome DEF SessionInv
<1> QED BY <1>1, <1>2

LEMMA HighNibbleSafe ==
    ASSUME SessionInv, NEW v \in Typed, InsertHighNibble(v), UNCHANGED profile
    PROVE  SessionInv'
<1> DEFINE n == Len(doc.base)
           k == n + 1
           bytes == <<v * Radix>>
           base == Longer(doc, bytes)
           t == InsertedCells(doc, bytes)
           e == InsertBytes(doc, cursor, bytes)
           x == Grown(doc, bytes)
<1>1. /\ pending = None /\ redo' = <<>> /\ doc' = e /\ pending' = [off |-> cursor, high |-> v]
      /\ fileLen' = fileLen /\ cursor' = cursor /\ mode = "Insert" /\ mode' = "Insert"
      /\ undo' = undo /\ dropped' = dropped
      /\ UNCHANGED <<anchor, grabbed, returnMode>>
  BY DEF InsertHighNibble
<1>2. /\ fileLen \in Nat /\ doc \in Docs(n) /\ undo \in Seq(Steps(n)) /\ redo \in Seq(Steps(n))
      /\ dropped \/ History(fileLen, undo, redo, n, doc)
  BY <1>1, SoundIs DEF SessionInv, Sound
<1>3. cursor \in Nat /\ cursor <= DocLen(doc) /\ DocLen(doc) \in Nat /\ n \in Nat
      /\ DocLen(doc) = Len(doc.cells) /\ doc.cells \in Seq(1..n)
  BY <1>2, DocIs DEF SessionInv, InputInv
<1>4. bytes \in Seq(Byte) /\ bytes # <<>> /\ Len(bytes) = 1
  <2>1. v * Radix \in Byte
    <3>1. v \in 0..(Radix - 1) /\ 0 \in 0..(Radix - 1)
      BY SessionConstants, DocumentConstants
    <3> QED BY <3>1, DigitsIs
  <2> QED BY <2>1
<1>5. k = n + Len(bytes) /\ k \in Nat /\ k - 1 = n /\ n \in n..(n + Len(bytes))
      /\ k \in n..(n + Len(bytes))
  BY <1>3, <1>4
<1> HIDE DEF n, bytes, k
<1>6. Inserted(doc, n, cursor, bytes, k)
  BY <1>2, <1>3, <1>4, <1>5, InsertIs DEF n
<1>7. /\ e \in Docs(k) /\ DocLen(e) = DocLen(doc) + 1 /\ e.cells = SpliceSeq(doc.cells, cursor, t)
      /\ e.base = base
  BY <1>4, <1>6 DEF Inserted
<1>8. Grows(doc, n, bytes, n) /\ Grows(doc, n, bytes, k)
  BY <1>2, <1>4, <1>5, GrownIs DEF n
<1>9. /\ Len(base) = k /\ Extension(n, doc, n, base, Nowhere) /\ x \in Docs(n)
      /\ x = [base |-> base, cells |-> doc.cells, tomb |-> doc.tomb, repl |-> doc.repl]
  BY <1>5, <1>8 DEF Grows
<1>10. x = Extended(doc, base, Nowhere)
  BY DEF Grown
<1>11. /\ t \in Seq(1..k) /\ Len(t) = 1 /\ t[1] = k /\ doc.cells \in Seq(1..k)
  <2>1. /\ t \in Seq(1..k) /\ Len(t) = Len(bytes)
        /\ \A i \in 1..Len(bytes) : t[i] = n + i
    <3>1. Fresher(doc, n, bytes, k, t)
      BY <1>2, <1>4, <1>5, NewCells DEF n
    <3> HIDE DEF t
    <3> QED BY <3>1 DEF Fresher
  <2>2. doc.cells \in Seq(1..k)
    BY <1>3, <1>5, CellsGrow
  <2> QED BY <1>4, <1>5, <2>1, <2>2 DEF k
<1> HIDE DEF base, t, e, x
<1>12. e.cells[cursor + 1] = k /\ cursor < DocLen(e)
  <2>1. SplicedAs(e.cells, doc.cells, cursor, t)
    BY <1>3, <1>7, <1>11, SpliceSeqIs
  <2>2. cursor + 1 \in 1..(Len(doc.cells) + 1)
    BY <1>3
  <2> QED BY <1>3, <1>7, <1>11, <2>1, <2>2 DEF SplicedAs
<1>13. pending' # None /\ pending' \in [off : Nat, high : Typed]
  BY <1>1, <1>3, SessionConstants
<1>14. Allocated(doc', pending') = n
  BY <1>1, <1>5, <1>7, <1>9, <1>13 DEF Allocated
<1>15. Settled' = x
  <2>1. Settled' = Cut(e, cursor, 1)
    BY <1>1, <1>13 DEF Settled
  <2>2. CutSeq(e.cells, cursor, 1) = doc.cells
    <3>1. cursor \in Nat /\ cursor <= Len(doc.cells)
      BY <1>3
    <3>2. doc.cells \in Seq(1..k) /\ t \in Seq(1..k)
      BY <1>11
    <3>3. CutSeq(SpliceSeq(doc.cells, cursor, t), cursor, Len(t)) = doc.cells
      BY <3>1, <3>2, CutSpliced, Zenon
    <3> QED BY <1>7, <1>11, <3>3, Zenon
  <2>3. e = [base |-> base, cells |-> e.cells, tomb |-> doc.tomb, repl |-> doc.repl]
    <3>1. e = Splice(x, cursor, t)
      BY <1>6 DEF Inserted, e, x, t
    <3>2. x \in Docs(k) /\ cursor <= DocLen(x)
      BY <1>3, <1>8, <1>9 DEF Grows, DocLen, x
    <3>3. e = [base |-> x.base, cells |-> SpliceSeq(x.cells, cursor, t), tomb |-> x.tomb,
               repl |-> x.repl]
      BY <1>3, <1>11, <3>1, <3>2, SpliceIs
    <3> QED BY <1>7, <1>9, <3>3
  <2>4. Cut(e, cursor, 1) = [base |-> e.base, cells |-> CutSeq(e.cells, cursor, 1),
                             tomb |-> e.tomb, repl |-> e.repl]
    <3>1. e \in Docs(k) /\ cursor \in Nat /\ cursor <= DocLen(e) /\ 1 \in Nat
      BY <1>3, <1>7, <1>12, DocIs
    <3> QED BY <3>1, CutIs, Zenon
  <2> QED BY <1>9, <2>1, <2>2, <2>3, <2>4
<1>16. StacksInv'
  <2>1. e \in Docs(Len(e.base))
    BY <1>7, <1>9
  <2>2. redo' \in Seq(Steps(n))
    BY <1>1
  <2> QED BY <1>1, <1>2, <1>14, <2>1, <2>2 DEF StacksInv
<1>17. HistoryInv'
  <2>1. ASSUME ~ dropped PROVE History(fileLen, undo, <<>>, n, x)
    <3>1. History(fileLen, undo, <<>>, n, doc)
      BY <1>2, <2>1, HistoryCut
    <3>2. <<>> \in Seq(Steps(n))
      OBVIOUS
    <3> QED BY StepsRecorded, <1>2, <1>9, <1>10, <3>1, <3>2, HistoryExtends
  <2> QED BY <1>1, <1>14, <1>15, <2>1 DEF HistoryInv
<1>18. PendingInv'
  BY <1>1, <1>7, <1>9, <1>12, <1>13 DEF PendingInv
<1>19. InputInv'
  <2>1. cursor' \in 0..DocLen(doc')
    BY <1>1, <1>3, <1>7
  <2> QED BY <1>1, <2>1 DEF SessionInv, InputInv
<1> QED BY <1>16, <1>17, <1>18, <1>19 DEF SessionInv

\* The half-typed byte is no part of the document any more.
LEMMA TakenBack ==
    ASSUME SessionInv, pending # None
    PROVE  /\ Sound(fileLen, undo, <<>>, Settled, dropped)
           /\ pending.off \in 0..DocLen(Settled)
<1> DEFINE n == Len(doc.base)
           s == Settled
<1>1. /\ n - 1 \in Nat /\ n \in Nat /\ doc \in Docs(n) /\ s \in Docs(n)
      /\ pending.off \in Nat /\ pending.off < DocLen(doc) /\ DocLen(doc) \in Nat
      /\ redo = <<>> /\ Allocated(doc, pending) = n - 1
      /\ s = [base |-> doc.base, cells |-> CutSeq(doc.cells, pending.off, 1),
              tomb |-> doc.tomb, repl |-> doc.repl]
      /\ undo \in Seq(Steps(n)) /\ redo \in Seq(Steps(n))
  BY PendingIs DEF SessionInv
<1>2. s.base = doc.base /\ s.cells = CutSeq(doc.cells, pending.off, 1)
  BY <1>1
<1>3. fileLen \in Nat /\ undo \in Seq(Steps(n - 1)) /\ redo \in Seq(Steps(n - 1))
  BY <1>1 DEF SessionInv, StacksInv
<1>4. s.base \in Seq(Byte) /\ n = Len(s.base)
  BY <1>1, <1>2, DocIs
<1> HIDE DEF n, s
<1>5. ASSUME ~ dropped PROVE History(fileLen, undo, <<>>, n, s)
  <2> DEFINE a == n - 1
             b == s.base
             x == Extended(s, b, Nowhere)
  <2>1. History(fileLen, undo, redo, a, s)
    BY <1>1, <1>5 DEF SessionInv, HistoryInv, s
  <2> a \in Nat /\ a <= n /\ undo \in Seq(Steps(a)) /\ redo \in Seq(Steps(a))
    BY <1>1, <1>3
  <2> HIDE DEF a
  <2>2. s \in Docs(a) /\ s.repl \in Partial(1..a, Byte)
    BY <2>1, HistoryDoc, DocIs
  <2>3. Nowhere \in Partial(1..n, Byte) /\ DOMAIN Nowhere = {} /\ Over(s.repl, Nowhere) = s.repl
    BY <1>1, <2>2, NowhereIs, PartialGrows
  <2>4. Extension(a, s, n, b, Nowhere)
    BY <1>1, <1>4, <2>3 DEF Extension
  <2>5. x = s
    <3>1. x = [base |-> s.base, cells |-> s.cells, tomb |-> s.tomb, repl |-> s.repl]
      BY <2>3 DEF Extended
    <3> QED BY <1>1, <3>1, DocIs
  <2> HIDE DEF b
  <2>6. History(fileLen, undo, redo, n, x)
    BY StepsRecorded, <1>3, <2>1, <2>4, HistoryExtends
  <2> QED BY <1>1, <2>5, <2>6
<1>6. Sound(fileLen, undo, <<>>, s, dropped)
  <2>1. <<>> \in Seq(Steps(n))
    OBVIOUS
  <2> QED BY <1>1, <1>3, <1>4, <1>5, <2>1 DEF Sound
<1>7. pending.off \in 0..DocLen(s)
  <2> DEFINE c == CutSeq(doc.cells, pending.off, 1)
  <2>1. doc.cells \in Seq(1..n) /\ DocLen(doc) = Len(doc.cells)
    BY <1>1, DocIs
  <2>2. CutAs(c, doc.cells, pending.off, 1)
    <3>1. pending.off \in Nat /\ pending.off <= Len(doc.cells) /\ 1 \in Nat
      BY <1>1, <2>1
    <3> QED BY <2>1, <3>1, CutSeqIs, Zenon
  <2> HIDE DEF c
  <2>3. Len(c) = DocLen(doc) - 1
    BY <1>1, <2>1, <2>2 DEF CutAs
  <2> QED BY <1>1, <1>2, <2>3 DEF DocLen, c
<1> QED BY <1>6, <1>7 DEF s

LEMMA TakeBackSafe ==
    ASSUME SessionInv, BackspacePending \/ UndoPendingInsert, UNCHANGED profile
    PROVE  SessionInv'
<1>1. /\ pending # None /\ pending' = None /\ doc' = Cut(doc, pending.off, 1)
      /\ cursor' = pending.off /\ redo' \in {redo, <<>>}
      /\ UNCHANGED <<fileLen, mode, anchor, grabbed, returnMode, undo, dropped>>
  BY DEF BackspacePending, UndoPendingInsert, TakeBackPending
<1>2. doc' = Settled
  BY <1>1 DEF Settled
<1>3. redo' = <<>>
  BY <1>1 DEF SessionInv, PendingInv
<1>4. Sound(fileLen', undo', redo', doc', dropped') /\ cursor' \in 0..DocLen(doc')
  BY <1>1, <1>2, <1>3, TakenBack
<1>5. InputInv'
  BY <1>1, <1>4 DEF SessionInv, InputInv
<1> QED BY <1>1, <1>4, <1>5, Settles

LEMMA LowNibbleSafe ==
    ASSUME SessionInv, NEW v \in Typed, InsertLowNibble(v), UNCHANGED profile
    PROVE  SessionInv'
<1> DEFINE n == Len(doc.base)
           b == pending.high * Radix + v
<1>1. /\ pending # None /\ doc' = SetByte(doc, doc.cells[pending.off + 1], b)
      /\ cursor' = pending.off + 1 /\ CommitPendingInsert(doc', cursor')
      /\ UNCHANGED <<fileLen, mode, anchor, grabbed, returnMode, dropped>>
  BY DEF InsertLowNibble
<1>2. /\ n - 1 \in Nat /\ n \in Nat /\ doc \in Docs(n) /\ DocLen(doc) \in Nat
      /\ pending.off \in Nat /\ pending.off < DocLen(doc) /\ pending.high \in Typed
  BY <1>1, PendingIs DEF SessionInv
<1>3. doc.cells[pending.off + 1] = n
  BY <1>1 DEF SessionInv, PendingInv
<1>4. b \in Byte
  <2>1. pending.high \in 0..(Radix - 1) /\ v \in 0..(Radix - 1)
    BY <1>2, SessionConstants
  <2> QED BY <2>1, DigitsIs
<1>5. n \in 1..n
  BY <1>2
<1> HIDE DEF n, b
<1>6. PICK repl \in Partial(1..n, Byte) :
          SetByte(doc, n, b) = Slots(doc, doc.tomb, repl) /\ AgreeOff(doc.repl, repl, {n})
  BY <1>2, <1>4, <1>5, ByteSet
<1>7. /\ doc' = Slots(doc, doc.tomb, repl) /\ doc'.base = doc.base /\ doc'.cells = doc.cells
      /\ doc'.tomb = doc.tomb /\ doc'.repl = repl /\ DocLen(doc') = DocLen(doc)
  <2>1. doc' = Slots(doc, doc.tomb, repl)
    BY <1>1, <1>3, <1>6
  <2> QED BY <2>1, SlotsShow
<1>8. doc' \in Docs(n)
  <2>1. doc.tomb \in SUBSET (1..n)
    BY <1>2, DocIs
  <2> QED BY <1>2, <1>7, <2>1, SlotsIs
<1>9. cursor' \in Nat /\ cursor' \in 0..DocLen(doc')
  BY <1>1, <1>2, <1>7
<1>10. pending' = None /\ Sound(fileLen, undo', redo', doc', dropped)
  <2> DEFINE e == doc'
             off == cursor'
  <2>1. /\ e \in Docs(Len(doc.base)) /\ e.base = doc.base /\ e.cells = doc.cells
        /\ e.tomb = doc.tomb /\ AgreeOff(doc.repl, e.repl, {Len(doc.base)})
        /\ off \in Nat /\ CommitPendingInsert(e, off)
    BY <1>1, <1>6, <1>7, <1>8, <1>9 DEF n
  <2> QED BY <1>1, <2>1, CommitSome DEF SessionInv
<1>11. InputInv'
  BY <1>1, <1>9 DEF SessionInv, InputInv
<1> QED BY <1>1, <1>10, <1>11, Settles

\* A drag leaves the byte where it is, but no step says that it was inserted.
LEMMA DragSafe ==
    ASSUME SessionInv, NEW off \in Nat, MouseDrag(off), UNCHANGED profile
    PROVE  SessionInv'
<1>1. /\ off < DocLen(doc) \/ off = 0
      /\ anchor' = IF grabbed = None THEN off ELSE grabbed
      /\ cursor' = off /\ mode' = "Visual" /\ pending' = None
      /\ dropped' = (dropped \/ pending # None)
      /\ UNCHANGED <<doc, fileLen, grabbed, returnMode, undo, redo>>
  BY DEF MouseDrag
<1>2. doc \in Docs(Len(doc.base)) /\ DocLen(doc) \in Nat
  BY DocIs DEF SessionInv, StacksInv
<1>3. InputInv'
  <2>1. cursor' \in 0..DocLen(doc')
    BY <1>1, <1>2
  <2>2. anchor' \in Nat \cup {None} /\ dropped' \in BOOLEAN
    BY <1>1 DEF SessionInv, InputInv
  <2>3. mode' \in Modes
    BY <1>1 DEF Modes
  <2> QED BY <1>1, <2>1, <2>2, <2>3 DEF SessionInv, InputInv
<1>4. Sound(fileLen, undo, redo, doc, dropped')
  <2>1. CASE pending = None
    <3>1. dropped' = dropped
      BY <1>1, <2>1 DEF SessionInv, InputInv
    <3> QED BY <2>1, <3>1, SoundIs DEF SessionInv
  <2>2. CASE pending # None
    <3>1. dropped'
      BY <1>1, <2>2
    <3>2. /\ undo \in Seq(Steps(Len(doc.base))) /\ redo \in Seq(Steps(Len(doc.base)))
          /\ fileLen \in Nat
      BY <2>2, PendingIs DEF SessionInv, StacksInv
    <3> QED BY <1>2, <3>1, <3>2 DEF Sound
  <2> QED BY <2>1, <2>2
<1> QED BY <1>1, <1>3, <1>4, Settles

(***************************************************************************)
(* Undo and redo                                                           *)
(***************************************************************************)

LEMMA ClampIs ==
    ASSUME NEW n, NEW d \in Docs(n), NEW off \in Nat, NEW m
    PROVE  Clamp(d, off, m) \in Nat /\ Clamp(d, off, m) <= DocLen(d)
<1>1. DocLen(d) \in Nat
  BY DocIs
<1> DEFINE l == DocLen(d)
<1> HIDE DEF l
<1>2. ASSUME NEW b \in Nat, b <= l PROVE Least(off, b) \in Nat /\ Least(off, b) <= l
  BY <1>1, <1>2 DEF Least, l
<1>3. CASE l = 0
  BY <1>3 DEF Clamp, l
<1>4. CASE l # 0
  <2>1. Clamp(d, off, m) = Least(off, IF m \in EofModes THEN l ELSE l - 1)
    BY <1>4 DEF Clamp, l
  <2>2. l \in Nat /\ l - 1 \in Nat /\ l - 1 <= l
    BY <1>1, <1>4 DEF l
  <2>3. CASE m \in EofModes
    BY <1>2, <2>1, <2>2, <2>3 DEF l
  <2>4. CASE m \notin EofModes
    BY <1>2, <2>1, <2>2, <2>4 DEF l
  <2> QED BY <2>3, <2>4
<1> QED BY <1>3, <1>4

\* Where undo and redo may be, over the n cells of this moment.
Journeys(n) ==
    {t \in [doc : Docs(n), undo : Seq(Steps(n)), redo : Seq(Steps(n)), cursor : Nat,
            mode : Modes, ok : BOOLEAN] :
        /\ Len(t.doc.base) = n /\ t.cursor <= DocLen(t.doc)
        /\ dropped \/ History(fileLen, t.undo, t.redo, n, t.doc)}

LEMMA JourneyIs ==
    ASSUME NEW n, NEW t \in Journeys(n)
    PROVE  /\ t.doc \in Docs(n) /\ t.undo \in Seq(Steps(n)) /\ t.redo \in Seq(Steps(n))
           /\ t.cursor \in Nat /\ t.cursor <= DocLen(t.doc) /\ t.mode \in Modes
           /\ t.ok \in BOOLEAN /\ Len(t.doc.base) = n
           /\ dropped \/ History(fileLen, t.undo, t.redo, n, t.doc)
           /\ t = [doc |-> t.doc, undo |-> t.undo, redo |-> t.redo, cursor |-> t.cursor,
                  mode |-> t.mode, ok |-> t.ok]
BY DEF Journeys

LEMMA IsJourney ==
    ASSUME NEW n, NEW d \in Docs(n), Len(d.base) = n, NEW u \in Seq(Steps(n)),
           NEW r \in Seq(Steps(n)), NEW c \in Nat, c <= DocLen(d), NEW m \in Modes,
           NEW ok \in BOOLEAN, dropped \/ History(fileLen, u, r, n, d)
    PROVE  [doc |-> d, undo |-> u, redo |-> r, cursor |-> c, mode |-> m, ok |-> ok]
                \in Journeys(n)
BY DEF Journeys

\* An undo that fails half way leaves as many slots as there were.
LEMMA UndoFailed ==
    ASSUME NEW n, NEW d \in Docs(n), NEW ops \in OpLists(n), ~ UndoOps(d, ops).ok
    PROVE  DocLen(UndoOps(d, ops).doc) = DocLen(d)
<1>1. ops \in Seq(Ops(n)) /\ (Len(ops) = 1 \/ ops \in Seq(SlotOps(n)))
  BY DEF OpLists
<1>2. CASE ops \in Seq(SlotOps(n))
  BY <1>1, <1>2, UndoOpsIs DEF DocLen
<1>3. CASE Len(ops) = 1
  <2>1. UndoOps(d, ops) = UndoInto(ops[1], Unfailed(d))
    BY <1>1, <1>3, UndoOpsIs
  <2>2. ops[1] \in Ops(n)
    BY <1>1, <1>3
  <2>3. Unfailed(d) \in Replays(n) /\ Unfailed(d).doc = d /\ Unfailed(d).ok
    BY IsOutcome
  <2>4. UndoInto(ops[1], Unfailed(d)) = Halted(d)
    <3>1. CASE UndoPossible(d, ops[1])
      <4>1. UndoInto(ops[1], Unfailed(d)) = Unfailed(UndoEditOp(d, ops[1]))
        BY <2>2, <2>3, <3>1, UndoIntoIs
      <4>2. Unfailed(UndoEditOp(d, ops[1])).ok
        BY DEF Unfailed
      <4> QED BY <2>1, <4>1, <4>2
    <3>2. CASE ~ UndoPossible(d, ops[1])
      BY <2>2, <2>3, <3>2, UndoIntoIs
    <3> QED BY <3>1, <3>2
  <2> QED BY <2>1, <2>4 DEF Halted
<1> QED BY <1>1, <1>2, <1>3

LEMMA OneUndoneIs ==
    ASSUME fileLen \in Nat, NEW n, NEW t \in Journeys(n)
    PROVE  OneUndone(t) \in Journeys(n)
<1>1. /\ t.doc \in Docs(n) /\ t.undo \in Seq(Steps(n)) /\ t.redo \in Seq(Steps(n))
      /\ t.cursor \in Nat /\ t.cursor <= DocLen(t.doc) /\ t.mode \in Modes
      /\ t.ok \in BOOLEAN /\ Len(t.doc.base) = n
      /\ dropped \/ History(fileLen, t.undo, t.redo, n, t.doc)
      /\ t = [doc |-> t.doc, undo |-> t.undo, redo |-> t.redo, cursor |-> t.cursor,
             mode |-> t.mode, ok |-> t.ok]
  BY JourneyIs
<1>2. CASE ~ t.ok \/ t.undo = <<>>
  BY <1>2 DEF OneUndone
<1>3. CASE t.ok /\ t.undo # <<>>
  <2> DEFINE step == Last(t.undo)
             rest == Front(t.undo)
             more == Append(t.redo, step)
             there == UndoOps(t.doc, step.ops)
             d == there.doc
             c == Clamp(d, step.cursorBefore, step.modeBefore)
  <2>1. step \in Steps(n) /\ rest \in Seq(Steps(n))
    BY <1>1, <1>3, LastIs
  <2>2. /\ step.ops \in Seq(Ops(n)) /\ step.ops \in OpLists(n)
        /\ step.cursorBefore \in Nat /\ step.modeBefore \in Modes
    BY <2>1, StepIs
  <2>3. there \in Replays(n) /\ d.base = t.doc.base
    BY <1>1, <2>2, UndoOpsIs
  <2>4. d \in Docs(n) /\ there.ok \in BOOLEAN
    BY <2>3, OutcomeIs DEF Replays
  <2>5. Len(d.base) = n
    BY <1>1, <2>3
  <2>6. more \in Seq(Steps(n))
    BY <1>1, <2>1
  <2>7. OneUndone(t) = IF there.ok
                     THEN [doc |-> d, undo |-> rest, redo |-> more, cursor |-> c,
                           mode |-> step.modeBefore, ok |-> TRUE]
                     ELSE [t EXCEPT !.doc = d, !.undo = rest, !.ok = FALSE]
    BY <1>3 DEF OneUndone
  <2>8. ~ dropped =>
            /\ there.ok
            /\ History(fileLen, rest, more, n, d)
    <3> SUFFICES ASSUME ~ dropped
                 PROVE  there.ok /\ History(fileLen, rest, more, n, d)
      OBVIOUS
    <3>1. PICK e \in Docs(n) :
             /\ there = Unfailed(e)
             /\ History(fileLen, rest, more, n, e)
      BY <1>1, <1>3, HistoryBack
    <3>2. there.ok /\ d = e
      BY <3>1 DEF Unfailed
    <3> QED BY <3>1, <3>2
  <2>9. CASE there.ok
    <3>1. c \in Nat /\ c <= DocLen(d)
      BY <2>2, <2>4, ClampIs
    <3> HIDE DEF d, c, rest, more, step
    <3>2. [doc |-> d, undo |-> rest, redo |-> more, cursor |-> c, mode |-> step.modeBefore,
          ok |-> TRUE] \in Journeys(n)
      BY <2>1, <2>2, <2>4, <2>5, <2>6, <2>8, <3>1, IsJourney
    <3> QED BY <2>7, <2>9, <3>2 DEF c
  <2>10. CASE ~ there.ok
    <3>1. DocLen(d) = DocLen(t.doc) /\ dropped
      BY <1>1, <2>2, <2>8, <2>10, UndoFailed
    <3> DEFINE x == [t EXCEPT !.doc = d, !.undo = rest, !.ok = FALSE]
               T == [doc : Docs(n), undo : Seq(Steps(n)), redo : Seq(Steps(n)),
                     cursor : Nat, mode : Modes, ok : BOOLEAN]
    <3>2. t \in T
      BY DEF Journeys
    <3> HIDE DEF d, rest
    <3>3. x \in T
      BY <2>1, <2>4, <3>2
    <3>4. x.doc = d /\ x.redo = t.redo /\ x.undo = rest /\ x.cursor = t.cursor
      BY <3>2
    <3> HIDE DEF x
    <3>5. x \in Journeys(n)
      BY <1>1, <2>5, <3>1, <3>3, <3>4 DEF Journeys
    <3> QED BY <2>7, <2>10, <3>5 DEF x
  <2> QED BY <2>9, <2>10
<1> QED BY <1>1, <1>2, <1>3

\* A redo that fails half way leaves as many slots as there were.
LEMMA RedoFailed ==
    ASSUME NEW n, NEW d \in Docs(n), NEW ops \in OpLists(n), ~ ApplyOps(d, ops).ok
    PROVE  DocLen(ApplyOps(d, ops).doc) = DocLen(d)
<1>1. ops \in Seq(Ops(n)) /\ (Len(ops) = 1 \/ ops \in Seq(SlotOps(n)))
  BY DEF OpLists
<1>2. CASE ops \in Seq(SlotOps(n))
  BY <1>1, <1>2, ApplyOpsIs DEF DocLen
<1>3. CASE Len(ops) = 1
  <2>1. ApplyOps(d, ops) = ApplyInto(Unfailed(d), ops[1])
    BY <1>1, <1>3, ApplyOpsIs
  <2>2. ops[1] \in Ops(n)
    BY <1>1, <1>3
  <2>3. Unfailed(d) \in Replays(n) /\ Unfailed(d).doc = d /\ Unfailed(d).ok
    BY IsOutcome
  <2>4. ApplyInto(Unfailed(d), ops[1]) = Halted(d)
    <3>1. CASE ApplyPossible(d, ops[1])
      <4>1. ApplyInto(Unfailed(d), ops[1]) = Unfailed(ApplyEditOp(d, ops[1]))
        BY <2>2, <2>3, <3>1, ApplyIntoIs
      <4>2. Unfailed(ApplyEditOp(d, ops[1])).ok
        BY DEF Unfailed
      <4> QED BY <2>1, <4>1, <4>2
    <3>2. CASE ~ ApplyPossible(d, ops[1])
      BY <2>2, <2>3, <3>2, ApplyIntoIs
    <3> QED BY <3>1, <3>2
  <2> QED BY <2>1, <2>4 DEF Halted
<1> QED BY <1>1, <1>2, <1>3

LEMMA OneRedoneIs ==
    ASSUME fileLen \in Nat, NEW n, NEW t \in Journeys(n)
    PROVE  OneRedone(t) \in Journeys(n)
<1>1. /\ t.doc \in Docs(n) /\ t.undo \in Seq(Steps(n)) /\ t.redo \in Seq(Steps(n))
      /\ t.cursor \in Nat /\ t.cursor <= DocLen(t.doc) /\ t.mode \in Modes
      /\ t.ok \in BOOLEAN /\ Len(t.doc.base) = n
      /\ dropped \/ History(fileLen, t.undo, t.redo, n, t.doc)
      /\ t = [doc |-> t.doc, undo |-> t.undo, redo |-> t.redo, cursor |-> t.cursor,
             mode |-> t.mode, ok |-> t.ok]
  BY JourneyIs
<1>2. CASE ~ t.ok \/ t.redo = <<>>
  BY <1>2 DEF OneRedone
<1>3. CASE t.ok /\ t.redo # <<>>
  <2> DEFINE step == Last(t.redo)
             rest == Front(t.redo)
             more == Append(t.undo, step)
             there == ApplyOps(t.doc, step.ops)
             d == there.doc
             c == Clamp(d, step.cursorAfter, step.modeAfter)
  <2>1. step \in Steps(n) /\ rest \in Seq(Steps(n))
    BY <1>1, <1>3, LastIs
  <2>2. /\ step.ops \in Seq(Ops(n)) /\ step.ops \in OpLists(n)
        /\ step.cursorAfter \in Nat /\ step.modeAfter \in Modes
    BY <2>1, StepIs
  <2>3. there \in Replays(n) /\ d.base = t.doc.base
    BY <1>1, <2>2, ApplyOpsIs
  <2>4. d \in Docs(n) /\ there.ok \in BOOLEAN
    BY <2>3, OutcomeIs DEF Replays
  <2>5. Len(d.base) = n
    BY <1>1, <2>3
  <2>6. more \in Seq(Steps(n))
    BY <1>1, <2>1
  <2>7. OneRedone(t) = IF there.ok
                     THEN [doc |-> d, undo |-> more, redo |-> rest, cursor |-> c,
                           mode |-> step.modeAfter, ok |-> TRUE]
                     ELSE [t EXCEPT !.doc = d, !.redo = rest, !.ok = FALSE]
    BY <1>3 DEF OneRedone
  <2>8. ~ dropped =>
            /\ there.ok
            /\ History(fileLen, more, rest, n, d)
    <3> SUFFICES ASSUME ~ dropped
                 PROVE  there.ok /\ History(fileLen, more, rest, n, d)
      OBVIOUS
    <3>1. PICK e \in Docs(n) :
             /\ there = Unfailed(e)
             /\ History(fileLen, more, rest, n, e)
      BY <1>1, <1>3, HistoryOn
    <3>2. there.ok /\ d = e
      BY <3>1 DEF Unfailed
    <3> QED BY <3>1, <3>2
  <2>9. CASE there.ok
    <3>1. c \in Nat /\ c <= DocLen(d)
      BY <2>2, <2>4, ClampIs
    <3> HIDE DEF d, c, rest, more, step
    <3>2. [doc |-> d, undo |-> more, redo |-> rest, cursor |-> c, mode |-> step.modeAfter,
          ok |-> TRUE] \in Journeys(n)
      BY <2>1, <2>2, <2>4, <2>5, <2>6, <2>8, <3>1, IsJourney
    <3> QED BY <2>7, <2>9, <3>2 DEF c
  <2>10. CASE ~ there.ok
    <3>1. DocLen(d) = DocLen(t.doc) /\ dropped
      BY <1>1, <2>2, <2>8, <2>10, RedoFailed
    <3> DEFINE x == [t EXCEPT !.doc = d, !.redo = rest, !.ok = FALSE]
               T == [doc : Docs(n), undo : Seq(Steps(n)), redo : Seq(Steps(n)),
                     cursor : Nat, mode : Modes, ok : BOOLEAN]
    <3>2. t \in T
      BY DEF Journeys
    <3> HIDE DEF d, rest
    <3>3. x \in T
      BY <2>1, <2>4, <3>2
    <3>4. x.doc = d /\ x.undo = t.undo /\ x.redo = rest /\ x.cursor = t.cursor
      BY <3>2
    <3> HIDE DEF x
    <3>5. x \in Journeys(n)
      BY <1>1, <2>5, <3>1, <3>3, <3>4 DEF Journeys
    <3> QED BY <2>7, <2>10, <3>5 DEF x
  <2> QED BY <2>9, <2>10
<1> QED BY <1>1, <1>2, <1>3

LEMMA UndoTurnsWalk ==
    ASSUME fileLen \in Nat, NEW n, Travelling \in Journeys(n), NEW k \in Nat
    PROVE  /\ UndoTurns(k) \in [0..k -> Journeys(n)]
<1> DEFINE m == k
           X == Journeys(n)
           step == [i \in 1..m |-> [x \in X |-> OneUndone(x)]]
           Is(f) == f = [i \in 0..m |->
                            IF i = 0 THEN Travelling ELSE OneUndone(f[i - 1])]
           w == UndoTurns(k)
<1>0. m \in Nat /\ Travelling \in X
  OBVIOUS
<1>2. w = CHOOSE g : Is(g)
  BY Zenon DEF UndoTurns
<1> HIDE DEF m, X, w
<1>3. ASSUME NEW i \in 1..m, NEW x \in X PROVE OneUndone(x) \in X
  BY OneUndoneIs DEF X
<1>4. step \in [1..m -> [X -> X]]
  BY <1>3
<1>5. ASSUME NEW i \in 1..m, NEW x \in X PROVE step[i][x] = OneUndone(x)
  OBVIOUS
<1> HIDE DEF step
<1>6. PICK f \in [0..m -> X] : Repeats(f, m, Travelling, step)
  BY <1>0, <1>4, Recursion
<1>7. f[0] = Travelling /\ \A i \in 1..m : f[i] = OneUndone(f[i - 1])
  <2>1. ASSUME NEW i \in 1..m PROVE f[i] = OneUndone(f[i - 1])
    <3>1. f[i - 1] \in X
      BY <1>0
    <3> QED BY <1>5, <1>6, <3>1 DEF Repeats
  <2> QED BY <1>6, <2>1 DEF Repeats
<1>8. Is(f)
  <2>1. \A i \in 0..m : i # 0 => i \in 1..m
    BY <1>0
  <2> QED BY <1>7, <2>1
<1>9. Is(w)
  <2> HIDE DEF Is
  <2> QED BY <1>2, <1>8, Zenon
<1>10. /\ w = [i \in 0..m |-> w[i]] /\ w[0] = Travelling
       /\ \A i \in 1..m : w[i] = OneUndone(w[i - 1])
  <2>1. 0 \in 0..m /\ \A i \in 1..m : i \in 0..m /\ i # 0
    BY <1>0
  <2> QED BY <1>9, <2>1
<1> HIDE DEF Is
<1>11. w = f
  <2>1. \A i \in 1..m : f[i - 1] = w[i - 1] => f[i] = w[i]
    BY <1>7, <1>10
  <2>2. GoOnAlike(m, f, w)
    BY <1>7, <1>10, <2>1 DEF GoOnAlike
  <2> QED BY <1>0, <2>2, SameWalk
<1> QED BY <1>10, <1>11 DEF m, X, w

LEMMA RedoTurnsWalk ==
    ASSUME fileLen \in Nat, NEW n, Travelling \in Journeys(n), NEW k \in Nat
    PROVE  /\ RedoTurns(k) \in [0..k -> Journeys(n)]
<1> DEFINE m == k
           X == Journeys(n)
           step == [i \in 1..m |-> [x \in X |-> OneRedone(x)]]
           Is(f) == f = [i \in 0..m |->
                            IF i = 0 THEN Travelling ELSE OneRedone(f[i - 1])]
           w == RedoTurns(k)
<1>0. m \in Nat /\ Travelling \in X
  OBVIOUS
<1>2. w = CHOOSE g : Is(g)
  BY Zenon DEF RedoTurns
<1> HIDE DEF m, X, w
<1>3. ASSUME NEW i \in 1..m, NEW x \in X PROVE OneRedone(x) \in X
  BY OneRedoneIs DEF X
<1>4. step \in [1..m -> [X -> X]]
  BY <1>3
<1>5. ASSUME NEW i \in 1..m, NEW x \in X PROVE step[i][x] = OneRedone(x)
  OBVIOUS
<1> HIDE DEF step
<1>6. PICK f \in [0..m -> X] : Repeats(f, m, Travelling, step)
  BY <1>0, <1>4, Recursion
<1>7. f[0] = Travelling /\ \A i \in 1..m : f[i] = OneRedone(f[i - 1])
  <2>1. ASSUME NEW i \in 1..m PROVE f[i] = OneRedone(f[i - 1])
    <3>1. f[i - 1] \in X
      BY <1>0
    <3> QED BY <1>5, <1>6, <3>1 DEF Repeats
  <2> QED BY <1>6, <2>1 DEF Repeats
<1>8. Is(f)
  <2>1. \A i \in 0..m : i # 0 => i \in 1..m
    BY <1>0
  <2> QED BY <1>7, <2>1
<1>9. Is(w)
  <2> HIDE DEF Is
  <2> QED BY <1>2, <1>8, Zenon
<1>10. /\ w = [i \in 0..m |-> w[i]] /\ w[0] = Travelling
       /\ \A i \in 1..m : w[i] = OneRedone(w[i - 1])
  <2>1. 0 \in 0..m /\ \A i \in 1..m : i \in 0..m /\ i # 0
    BY <1>0
  <2> QED BY <1>9, <2>1
<1> HIDE DEF Is
<1>11. w = f
  <2>1. \A i \in 1..m : f[i - 1] = w[i - 1] => f[i] = w[i]
    BY <1>7, <1>10
  <2>2. GoOnAlike(m, f, w)
    BY <1>7, <1>10, <2>1 DEF GoOnAlike
  <2> QED BY <1>0, <2>2, SameWalk
<1> QED BY <1>10, <1>11 DEF m, X, w

LEMMA Departs ==
    ASSUME SessionInv, pending = None
    PROVE  Travelling \in Journeys(Len(doc.base)) /\ fileLen \in Nat
<1> DEFINE n == Len(doc.base)
<1>1. /\ fileLen \in Nat /\ doc \in Docs(n) /\ undo \in Seq(Steps(n)) /\ redo \in Seq(Steps(n))
      /\ dropped \/ History(fileLen, undo, redo, n, doc)
  BY SoundIs DEF SessionInv, Sound
<1>2. cursor \in Nat /\ cursor <= DocLen(doc) /\ mode \in Modes
  BY <1>1, DocIs DEF SessionInv, InputInv
<1>3. TRUE \in BOOLEAN
  OBVIOUS
<1>4. n = Len(doc.base)
  OBVIOUS
<1> HIDE DEF n
<1>5. Travelling \in Journeys(n)
  BY <1>1, <1>2, <1>3, <1>4, IsJourney DEF Travelling
<1> QED BY <1>1, <1>5 DEF n

LEMMA Arrives ==
    ASSUME SessionInv, pending = None, NEW t \in Journeys(Len(doc.base)),
           doc' = t.doc, undo' = t.undo, redo' = t.redo,
           cursor' \in Nat, cursor' <= DocLen(doc'), mode' \in Modes,
           returnMode' \in Modes \cup {None},
           UNCHANGED <<profile, fileLen, pending, anchor, grabbed, dropped>>
    PROVE  SessionInv'
<1> DEFINE n == Len(doc.base)
<1>1. /\ doc' \in Docs(n) /\ undo' \in Seq(Steps(n)) /\ redo' \in Seq(Steps(n))
      /\ Len(doc'.base) = n
      /\ dropped \/ History(fileLen, undo', redo', n, doc')
  BY JourneyIs
<1> HIDE DEF n
<1>2. fileLen \in Nat
  BY DEF SessionInv, StacksInv
<1>3. Sound(fileLen', undo', redo', doc', dropped')
  BY <1>1, <1>2 DEF Sound
<1>4. InputInv'
  <2>1. cursor' \in 0..DocLen(doc')
    BY <1>1, DocIs
  <2> QED BY <2>1 DEF SessionInv, InputInv
<1> QED BY <1>3, <1>4, Settles

LEMMA TravelByKeySafe ==
    ASSUME SessionInv, UndoKey \/ RedoKey, UNCHANGED profile
    PROVE  SessionInv'
<1>1. pending = None
  BY DEF UndoKey, RedoKey, SessionInv, PendingInv
<1>2. PICK t \in Journeys(Len(doc.base)) : TravelByKey(t)
  <2>1. Travelling \in Journeys(Len(doc.base)) /\ fileLen \in Nat
    BY <1>1, Departs
  <2>2. /\ OneUndone(Travelling) \in Journeys(Len(doc.base))
        /\ OneRedone(Travelling) \in Journeys(Len(doc.base))
    BY <2>1, OneUndoneIs, OneRedoneIs
  <2> QED BY <2>2 DEF UndoKey, RedoKey
<1>3. /\ doc' = t.doc /\ undo' = t.undo /\ redo' = t.redo /\ cursor' = t.cursor
      /\ mode' = t.mode /\ UNCHANGED <<fileLen, pending, anchor, grabbed, returnMode, dropped>>
  BY <1>2 DEF TravelByKey
<1>4. t.cursor \in Nat /\ t.cursor <= DocLen(t.doc) /\ t.mode \in Modes
  BY JourneyIs
<1>5. returnMode' \in Modes \cup {None}
  BY <1>3 DEF SessionInv, InputInv
<1> QED BY <1>1, <1>3, <1>4, <1>5, Arrives

LEMMA TravelByCommandSafe ==
    ASSUME SessionInv, NEW n \in 1..MaxSteps, UndoCommand(n) \/ RedoCommand(n),
           UNCHANGED profile
    PROVE  SessionInv'
<1>1. mode = "Command"
  BY DEF UndoCommand, RedoCommand, TravelByCommand
<1>2. pending = None
  BY <1>1 DEF SessionInv, PendingInv
<1>3. n \in Nat /\ n \in 0..n
  BY SessionConstants DEF SessionInv, InputInv, MaxSteps
<1>4. PICK t \in Journeys(Len(doc.base)) : TravelByCommand(t)
  <2>1. Travelling \in Journeys(Len(doc.base)) /\ fileLen \in Nat
    BY <1>2, Departs
  <2>2. /\ UndoTurns(n) \in [0..n -> Journeys(Len(doc.base))]
        /\ RedoTurns(n) \in [0..n -> Journeys(Len(doc.base))]
    BY <1>3, <2>1, UndoTurnsWalk, RedoTurnsWalk
  <2>3. /\ UndoTurns(n)[n] \in Journeys(Len(doc.base))
        /\ RedoTurns(n)[n] \in Journeys(Len(doc.base))
    BY <1>3, <2>2
  <2> QED BY <2>3 DEF UndoCommand, RedoCommand
<1>5. /\ doc' = t.doc /\ undo' = t.undo /\ redo' = t.redo
      /\ cursor' = IF t.ok THEN Clamp(t.doc, t.cursor, "Normal") ELSE t.cursor
      /\ mode' = IF t.ok THEN "Normal" ELSE mode
      /\ returnMode' = IF t.ok THEN None ELSE returnMode
      /\ UNCHANGED <<fileLen, pending, anchor, grabbed, dropped>>
  BY <1>4 DEF TravelByCommand
<1>6. t.doc \in Docs(Len(doc.base)) /\ t.cursor \in Nat /\ t.cursor <= DocLen(t.doc)
  BY JourneyIs
<1>7. /\ Clamp(t.doc, t.cursor, "Normal") \in Nat
      /\ Clamp(t.doc, t.cursor, "Normal") <= DocLen(t.doc)
  BY <1>6, ClampIs
<1>8. cursor' \in Nat /\ cursor' <= DocLen(doc')
  BY <1>5, <1>6, <1>7
<1>9. mode' \in Modes /\ returnMode' \in Modes \cup {None}
  BY <1>5 DEF SessionInv, InputInv, Modes
<1> QED BY <1>2, <1>5, <1>8, <1>9, Arrives

(***************************************************************************)
(* Moving and switching the mode                                           *)
(***************************************************************************)

\* What stays when the cursor or the mode changes: numbers and modes.
LEMMA InputIs ==
    ASSUME SessionInv
    PROVE  /\ doc \in Docs(Len(doc.base)) /\ DocLen(doc) \in Nat
           /\ cursor \in Nat /\ cursor <= DocLen(doc)
           /\ mode \in Modes /\ Returned \in Modes
           /\ anchor \in Nat \cup {None} /\ BytesPerLine \in Nat \ {0}
<1>1. doc \in Docs(Len(doc.base))
  BY DEF SessionInv, StacksInv
<1>2. cursor \in 0..DocLen(doc) /\ mode \in Modes /\ anchor \in Nat \cup {None}
  BY DEF SessionInv, InputInv
<1>3. Returned \in Modes
  BY DEF SessionInv, InputInv, Returned, Modes
<1>4. DocLen(doc) \in Nat
  BY <1>1, DocIs
<1> QED BY <1>1, <1>2, <1>3, <1>4, SessionConstants

LEMMA ShiftedIs ==
    ASSUME SessionInv, NEW delta \in Int
    PROVE  Shifted(cursor, delta) \in Nat /\ Shifted(cursor, delta) <= DocLen(doc)
<1> DEFINE off == IF cursor + delta < 0 THEN 0 ELSE cursor + delta
<1>1. off \in Nat /\ doc \in Docs(Len(doc.base)) /\ DocLen(doc) \in Nat
  BY InputIs
<1>2. CASE DocLen(doc) = 0
  BY <1>2 DEF Shifted
<1>3. CASE DocLen(doc) # 0
  <2>1. Shifted(cursor, delta) = Clamp(doc, off, mode)
    BY <1>3 DEF Shifted
  <2> HIDE DEF off
  <2> QED BY <1>1, <2>1, ClampIs
<1> QED BY <1>2, <1>3

LEMMA RowStartIs ==
    ASSUME SessionInv
    PROVE  RowStart(cursor) \in Nat
<1>1. cursor \in Nat /\ BytesPerLine \in Nat \ {0}
  BY InputIs
<1> DEFINE q == cursor \div BytesPerLine
<1>2. q \in Nat
  BY <1>1
<1> HIDE DEF q
<1>3. q * BytesPerLine \in Nat
  BY <1>1, <1>2
<1> QED BY <1>3 DEF RowStart, q

\* The byte is committed, and the cursor and the mode go on from there.
LEMMA CommitsSafe ==
    ASSUME SessionInv, CommitPendingInsert(doc, cursor), cursor' \in Nat,
           cursor' <= DocLen(doc), mode' \in Modes, returnMode' \in Modes \cup {None},
           anchor' \in Nat \cup {None}, grabbed' \in Nat \cup {None},
           UNCHANGED <<profile, doc, fileLen, dropped>>
    PROVE  SessionInv'
<1>1. cursor \in Nat /\ DocLen(doc) \in Nat
  BY InputIs
<1>2. pending' = None /\ Sound(fileLen', undo', redo', doc', dropped')
  BY <1>1, Committed
<1>3. InputInv'
  <2>1. cursor' \in 0..DocLen(doc')
    BY <1>1
  <2> QED BY <2>1 DEF SessionInv, InputInv
<1> QED BY <1>2, <1>3, Settles

\* The byte is left as it is.
LEMMA KeepsSafe ==
    ASSUME SessionInv, cursor' \in Nat, cursor' <= DocLen(doc), mode' \in Modes,
           pending # None => mode' = "Insert", returnMode' \in Modes \cup {None},
           anchor' \in Nat \cup {None}, grabbed' \in Nat \cup {None},
           UNCHANGED <<profile, doc, fileLen, pending, undo, redo, dropped>>
    PROVE  SessionInv'
<1>1. InputInv'
  <2>1. cursor' \in 0..DocLen(doc')
    BY InputIs
  <2> QED BY <2>1 DEF SessionInv, InputInv
<1> QED BY <1>1, Kept

LEMMA Insertion ==
    ASSUME SessionInv, pending # None
    PROVE  mode = "Insert"
BY DEF SessionInv, PendingInv

LEMMA NavigateSafe ==
    ASSUME SessionInv, Navigate, UNCHANGED profile
    PROVE  SessionInv'
<1>0. /\ returnMode \in Modes \cup {None} /\ anchor \in Nat \cup {None}
      /\ grabbed \in Nat \cup {None} /\ mode \in Modes
  BY DEF SessionInv, InputInv
<1>1. ASSUME NEW delta \in {-1, 1, -BytesPerLine, BytesPerLine}, MoveBy(delta)
      PROVE  SessionInv'
  <2>1. delta \in Int
    BY SessionConstants
  <2>2. cursor' \in Nat /\ cursor' <= DocLen(doc)
    BY <1>1, <2>1, ShiftedIs DEF MoveBy
  <2>3. mode' \in Modes
    BY <1>0, <1>1 DEF MoveBy, PhaseReset, Modes, EofModes, EditModes
  <2> QED BY <1>0, <1>1, <2>2, <2>3, CommitsSafe DEF MoveBy
<1>2. ASSUME NEW end \in BOOLEAN, MoveRowEdge(end) PROVE SessionInv'
  <2> DEFINE off == RowStart(cursor) + (IF end THEN BytesPerLine - 1 ELSE 0)
  <2>1. off \in Nat
    BY RowStartIs, SessionConstants
  <2>2. cursor' = Clamp(doc, off, mode)
    BY <1>2 DEF MoveRowEdge
  <2> HIDE DEF off
  <2>3. cursor' \in Nat /\ cursor' <= DocLen(doc)
    BY <2>1, <2>2, InputIs, ClampIs
  <2> QED BY <1>0, <1>2, <2>3, CommitsSafe DEF MoveRowEdge
<1>3. ASSUME NEW top \in 0..MaxCells, ScrollViewport(top) PROVE SessionInv'
  <2>1. top \in Nat /\ top < DocLen(doc) /\ DocLen(doc) \in Nat /\ cursor \in Nat
        /\ BytesPerLine \in Nat \ {0}
    BY <1>3, InputIs, SessionConstants DEF ScrollViewport, SessionInv, InputInv, MaxCells
  <2>2. IntoView(top) \in Nat /\ IntoView(top) <= DocLen(doc)
    BY <2>1 DEF IntoView, Least
  <2> QED BY <1>0, <1>3, <2>2, KeepsSafe, Insertion DEF ScrollViewport
<1>4. ASSUME NEW off \in 0..MaxCells, RunSearch(off) PROVE SessionInv'
  <2>1. off \in Nat /\ off < DocLen(doc) /\ DocLen(doc) \in Nat
    BY <1>4, InputIs DEF RunSearch
  <2> QED BY <1>0, <1>4, <2>1, KeepsSafe, Insertion DEF RunSearch
<1> QED BY <1>1, <1>2, <1>3, <1>4 DEF Navigate

LEMMA SwitchModeSafe ==
    ASSUME SessionInv, SwitchMode, UNCHANGED profile
    PROVE  SessionInv'
<1>0. /\ returnMode \in Modes \cup {None} /\ anchor \in Nat \cup {None}
      /\ grabbed \in Nat \cup {None} /\ mode \in Modes
  BY DEF SessionInv, InputInv
<1>1. cursor \in Nat /\ cursor <= DocLen(doc) /\ Returned \in Modes
  BY InputIs
<1>2. "Insert" \in Modes /\ "EditHigh" \in Modes /\ "Normal" \in Modes /\ "Visual" \in Modes
      /\ "Command" \in Modes
  BY DEF Modes, EofModes, EditModes
<1>3. ASSUME NEW m \in Modes, EnterHexMode(m) PROVE SessionInv'
  BY <1>0, <1>1, <1>3, KeepsSafe, Insertion DEF EnterHexMode
<1>4. ASSUME ToggleVisual PROVE SessionInv'
  BY <1>0, <1>1, <1>2, <1>4, KeepsSafe, Insertion DEF ToggleVisual
<1>5. ASSUME LeaveMode PROVE SessionInv'
  BY <1>0, <1>1, <1>2, <1>5, CommitsSafe DEF LeaveMode
<1>6. ASSUME EnterCommandMode PROVE SessionInv'
  BY <1>0, <1>1, <1>2, <1>6, KeepsSafe, Insertion DEF EnterCommandMode
<1> QED BY <1>2, <1>3, <1>4, <1>5, <1>6 DEF SwitchMode

LEMMA UseMouseSafe ==
    ASSUME SessionInv, UseMouse, UNCHANGED profile
    PROVE  SessionInv'
<1>0. /\ returnMode \in Modes \cup {None} /\ anchor \in Nat \cup {None}
      /\ grabbed \in Nat \cup {None} /\ mode \in Modes
  BY DEF SessionInv, InputInv
<1>1. ASSUME NEW off \in 0..MaxCells, NEW phase \in EditModes, MouseDown(off, phase)
      PROVE  SessionInv'
  <2>1. off \in Nat /\ off <= DocLen(doc) /\ Returned \in Modes
    BY <1>1, InputIs DEF MouseDown
  <2>2. mode' \in Modes
    <3>1. mode' = CASE mode \in EditModes -> phase
                    [] mode = "Command" -> Returned
                    [] OTHER -> "Normal"
      BY <1>1 DEF MouseDown
    <3>2. phase \in Modes /\ "Normal" \in Modes
      BY DEF Modes, EofModes
    <3>3. mode \in EditModes => mode # "Command"
      BY DEF EditModes
    <3> QED BY <2>1, <3>1, <3>2, <3>3
  <2>3. anchor' \in Nat \cup {None} /\ returnMode' \in Modes \cup {None}
    BY <1>0, <1>1 DEF MouseDown
  <2> QED BY <1>1, <2>1, <2>2, <2>3, CommitsSafe DEF MouseDown
<1>2. ASSUME NEW off \in 0..MaxCells, MouseDrag(off) PROVE SessionInv'
  <2>1. off \in Nat
    OBVIOUS
  <2> QED BY <1>2, <2>1, DragSafe
<1>3. ASSUME MouseUp PROVE SessionInv'
  BY <1>0, <1>3, InputIs, KeepsSafe, Insertion DEF MouseUp
<1> QED BY <1>1, <1>2, <1>3 DEF UseMouse

(***************************************************************************)
(* Edits                                                                   *)
(***************************************************************************)

\* The state after an edit that is a step, when no byte is half typed.
LEMMA Pushed ==
    ASSUME SessionInv, pending = None, Sound(fileLen, undo', redo', doc', dropped),
           cursor' \in Nat, cursor' <= DocLen(doc'), mode' \in Modes,
           returnMode' \in Modes \cup {None}, anchor' \in Nat \cup {None},
           UNCHANGED <<profile, fileLen, pending, grabbed, dropped>>
    PROVE  SessionInv'
<1>1. Sound(fileLen', undo', redo', doc', dropped')
  OBVIOUS
<1>2. InputInv'
  <2>1. doc' \in Docs(Len(doc'.base))
    BY DEF Sound
  <2>2. cursor' \in 0..DocLen(doc')
    BY <2>1, DocIs
  <2> QED BY <2>2 DEF SessionInv, InputInv
<1> QED BY <1>1, <1>2, Settles

LEMMA ModesAre ==
    /\ "Insert" \in Modes /\ "EditHigh" \in Modes /\ "EditLow" \in Modes
    /\ "Normal" \in Modes /\ "Visual" \in Modes /\ "Command" \in Modes
BY DEF Modes, EofModes, EditModes

\* Slots that are deleted.
LEMMA TombSound ==
    ASSUME SessionInv, pending = None, NEW off \in Nat, NEW m \in Nat,
           NEW new, new = IdsAt(doc, off, m) \ doc.tomb,
           doc' = [doc EXCEPT !.tomb = @ \cup new],
           NEW cb \in Nat, NEW mb \in Modes, NEW ca \in Nat, NEW ma \in Modes,
           PushUndoStep(<<TombOp(new)>>, cb, mb, ca, ma)
    PROVE  Sound(fileLen, undo', redo', doc', dropped) /\ DocLen(doc') = DocLen(doc)
<1> DEFINE n == Len(doc.base)
<1>1. doc \in Docs(n) /\ doc.tomb \in SUBSET (1..n)
  BY InputIs, DocIs
<1>2. new \in SUBSET (1..n) /\ new \cap doc.tomb = {}
  BY <1>1, IdsAtIs
<1>3. Edits(n, doc, <<TombOp(new)>>, doc')
  BY <1>1, <1>2, TombEdits
<1>4. Sound(fileLen, undo, redo, doc, dropped)
  BY SoundIs DEF SessionInv
<1>5. DocLen(doc') = DocLen(doc)
  <2> DEFINE tomb == doc.tomb \cup new
  <2>1. doc' = [doc EXCEPT !.tomb = tomb] /\ tomb \in SUBSET (1..n)
    BY <1>1, <1>2
  <2> HIDE DEF tomb
  <2>2. doc' = [base |-> doc.base, cells |-> doc.cells, tomb |-> tomb, repl |-> doc.repl]
    BY <1>1, <2>1, TombDoc
  <2> QED BY <2>2 DEF DocLen
<1>6. Sound(fileLen, undo', redo', doc', dropped)
  <2> DEFINE ops == <<TombOp(new)>>
             e == doc'
  <2>1. Edits(n, doc, ops, e) /\ PushUndoStep(ops, cb, mb, ca, ma)
    BY <1>3
  <2> HIDE DEF ops, e
  <2>2. Sound(fileLen, undo', redo', e, dropped)
    BY <1>4, <2>1, PushSound
  <2> QED BY <2>2 DEF e
<1> QED BY <1>5, <1>6

LEMMA DeleteSafe ==
    ASSUME SessionInv, DeleteCurrent \/ DeleteSelection, UNCHANGED profile
    PROVE  SessionInv'
<1>1. /\ doc \in Docs(Len(doc.base)) /\ DocLen(doc) \in Nat
      /\ cursor \in Nat /\ cursor <= DocLen(doc) /\ mode \in Modes
      /\ anchor \in Nat \cup {None}
  BY InputIs
<1>2. returnMode \in Modes \cup {None}
  BY DEF SessionInv, InputInv
<1>3. pending = None
  BY Insertion DEF DeleteCurrent, DeleteSelection
<1>4. ASSUME DeleteCurrent PROVE SessionInv'
  <2> DEFINE new == IdsAt(doc, cursor, 1) \ doc.tomb
  <2>1. /\ doc' = [doc EXCEPT !.tomb = @ \cup new]
        /\ PushUndoStep(<<TombOp(new)>>, cursor, mode, cursor, mode)
        /\ UNCHANGED <<fileLen, cursor, mode, pending, anchor, grabbed, returnMode, dropped>>
    BY <1>4 DEF DeleteCurrent
  <2> HIDE DEF new
  <2>2. Sound(fileLen, undo', redo', doc', dropped) /\ DocLen(doc') = DocLen(doc)
    <3>1. 1 \in Nat
      OBVIOUS
    <3> QED BY <1>1, <1>3, <2>1, <3>1, TombSound DEF new
  <2> QED BY <1>1, <1>2, <1>3, <2>1, <2>2, Pushed
<1>5. ASSUME DeleteSelection PROVE SessionInv'
  <2> DEFINE off == SelectionStart
             m == SelectionLen
             new == IdsAt(doc, off, m) \ doc.tomb
             c == Clamp(doc, off, "Normal")
  <2>1. /\ anchor # None /\ doc' = [doc EXCEPT !.tomb = @ \cup new]
        /\ cursor' = c
        /\ PushUndoStep(<<TombOp(new)>>, off, "Visual", cursor', "Normal")
        /\ mode' = "Normal" /\ anchor' = None
        /\ UNCHANGED <<fileLen, pending, grabbed, returnMode, dropped>>
    BY <1>5 DEF DeleteSelection
  <2>2. off \in Nat /\ m \in Nat
    BY <1>1, <2>1 DEF SelectionStart, SelectionLen, Least
  <2> HIDE DEF new, off, m
  <2>3. c \in Nat /\ c <= DocLen(doc)
    BY <1>1, <2>2, ClampIs
  <2> HIDE DEF c
  <2>4. PushUndoStep(<<TombOp(new)>>, off, "Visual", c, "Normal")
    BY <2>1
  <2>5. Sound(fileLen, undo', redo', doc', dropped) /\ DocLen(doc') = DocLen(doc)
    BY <1>1, <1>3, <2>1, <2>2, <2>3, <2>4, ModesAre, TombSound DEF new
  <2>6. anchor' \in Nat \cup {None}
    BY <2>1
  <2> QED BY <1>2, <1>3, <2>1, <2>3, <2>5, <2>6, ModesAre, Pushed
<1> QED BY <1>4, <1>5

LEMMA AppendNibbleSafe ==
    ASSUME SessionInv, NEW v \in Typed, AppendNibble(v), UNCHANGED profile
    PROVE  SessionInv'
<1> DEFINE bytes == <<v * Radix>>
           ops == <<InsertOp(cursor, InsertedCells(doc, bytes))>>
<1>1. /\ doc \in Docs(Len(doc.base)) /\ DocLen(doc) \in Nat
      /\ cursor \in Nat /\ cursor <= DocLen(doc) /\ mode \in Modes
      /\ anchor \in Nat \cup {None} /\ returnMode \in Modes \cup {None}
  BY InputIs DEF SessionInv, InputInv
<1>2. pending = None
  BY Insertion DEF AppendNibble
<1>3. InsertedCells(doc, <<v>>) = InsertedCells(doc, bytes)
  BY DEF InsertedCells
<1>4. /\ doc' = InsertBytes(doc, cursor, bytes) /\ mode' = "EditLow"
      /\ PushUndoStep(ops, cursor, mode, cursor, mode')
      /\ UNCHANGED <<fileLen, cursor, pending, anchor, grabbed, returnMode, dropped>>
  BY <1>3 DEF AppendNibble
<1>5. bytes \in Seq(Byte) /\ bytes # <<>> /\ Len(bytes) = 1
  <2>1. v * Radix \in Byte
    <3>1. v \in 0..(Radix - 1) /\ 0 \in 0..(Radix - 1)
      BY SessionConstants, DocumentConstants
    <3> QED BY <3>1, DigitsIs
  <2> QED BY <2>1
<1>6. PushUndoStep(ops, cursor, mode, cursor, "EditLow")
  BY <1>4
<1>7. ops = <<InsertOp(cursor, InsertedCells(doc, bytes))>>
  OBVIOUS
<1> HIDE DEF ops, bytes
<1>8. Sound(fileLen, undo, redo, doc, dropped)
  BY <1>2, SoundIs DEF SessionInv
<1>9. Sound(fileLen, undo', redo', doc', dropped) /\ DocLen(doc') = DocLen(doc) + 1
  BY <1>1, <1>2, <1>4, <1>5, <1>6, <1>7, <1>8, ModesAre, InsertSound
<1>10. cursor' \in Nat /\ cursor' <= DocLen(doc')
  BY <1>1, <1>4, <1>9
<1> QED BY <1>1, <1>2, <1>4, <1>9, <1>10, ModesAre, Pushed

LEMMA EditNibbleSafe ==
    ASSUME SessionInv, NEW v \in Typed, EditNibble(v), UNCHANGED profile
    PROVE  SessionInv'
<1> DEFINE n == Len(doc.base)
           id == doc.cells[cursor + 1]
           b == WithNibble(Shown(doc, id), mode, v)
           e == SetByte(doc, id, b)
           ops == <<ReplaceOp({id}, Only(doc.repl, {id}), Only(e.repl, {id}))>>
<1>1. /\ doc \in Docs(n) /\ DocLen(doc) \in Nat
      /\ cursor \in Nat /\ cursor <= DocLen(doc) /\ mode \in Modes
      /\ anchor \in Nat \cup {None} /\ returnMode \in Modes \cup {None}
  BY InputIs DEF SessionInv, InputInv
<1>2. pending = None
  BY Insertion DEF EditNibble, EditModes
<1>3. /\ cursor < DocLen(doc) /\ doc' = e
      /\ mode' = IF mode = "EditHigh" THEN "EditLow" ELSE "EditHigh"
      /\ cursor' = IF mode = "EditHigh" THEN cursor ELSE cursor + 1
      /\ PushUndoStep(ops, cursor, mode, cursor', mode')
      /\ UNCHANGED <<fileLen, pending, anchor, grabbed, returnMode, dropped>>
  BY DEF EditNibble
<1>4. id \in 1..n
  <2>1. doc.cells \in Seq(1..n) /\ DocLen(doc) = Len(doc.cells)
    BY <1>1, DocIs
  <2>2. cursor + 1 \in 1..Len(doc.cells)
    BY <1>1, <1>3, <2>1
  <2> QED BY <2>1, <2>2
<1>5. b \in Byte /\ doc.tomb \in SUBSET (1..n)
  <2>1. v \in 0..(Radix - 1)
    BY SessionConstants
  <2>2. Shown(doc, id) \in Byte
    BY <1>1, <1>4, ShownIs
  <2> QED BY <1>1, <2>1, <2>2, NibbleIs, DocIs
<1> HIDE DEF id, b
<1>6. Edits(n, doc, ops, e)
  BY <1>1, <1>4, <1>5, NibbleEdits
<1>7. DocLen(e) = DocLen(doc)
  <2> HIDE DEF n
  <2>1. PICK repl \in Partial(1..n, Byte) :
            e = Slots(doc, doc.tomb, repl) /\ AgreeOff(doc.repl, repl, {id})
    BY <1>1, <1>4, <1>5, ByteSet
  <2> HIDE DEF e
  <2> QED BY <2>1, SlotsShow
<1>8. cursor' \in Nat /\ cursor' <= DocLen(doc) /\ mode' \in Modes
  BY <1>1, <1>3, ModesAre
<1>9. Sound(fileLen, undo', redo', e, dropped)
  <2> DEFINE ca == cursor'
             ma == mode'
  <2>1. ca \in Nat /\ ma \in Modes /\ PushUndoStep(ops, cursor, mode, ca, ma)
    BY <1>3, <1>8
  <2>2. Sound(fileLen, undo, redo, doc, dropped)
    BY <1>2, SoundIs DEF SessionInv
  <2> HIDE DEF ops, e, ca, ma
  <2> QED BY <1>1, <1>2, <1>6, <2>1, <2>2, PushSound
<1> HIDE DEF e
<1> QED BY <1>1, <1>2, <1>3, <1>7, <1>8, <1>9, Pushed

LEMMA BackspaceSafe ==
    ASSUME SessionInv, EditBackspace, UNCHANGED profile
    PROVE  SessionInv'
<1> DEFINE n == Len(doc.base)
           off == cursor - 1
           ops == <<DeleteOp(off, CellsAt(doc, off, 1))>>
           e == Cut(doc, off, 1)
<1>1. /\ doc \in Docs(n) /\ DocLen(doc) \in Nat
      /\ cursor \in Nat /\ cursor <= DocLen(doc) /\ mode \in Modes
      /\ anchor \in Nat \cup {None} /\ returnMode \in Modes \cup {None}
  BY InputIs DEF SessionInv, InputInv
<1>2. /\ pending = None /\ cursor > 0 /\ doc' = e /\ cursor' = off
      /\ PushUndoStep(ops, cursor, "Insert", off, "Insert")
      /\ UNCHANGED <<fileLen, mode, pending, anchor, grabbed, returnMode, dropped>>
  BY DEF EditBackspace
<1>3. off \in Nat /\ off + 1 <= DocLen(doc) /\ off <= DocLen(doc) /\ 1 \in Nat \ {0} /\ 1 \in Nat
  BY <1>1, <1>2
<1> HIDE DEF off
<1>4. Edits(n, doc, ops, e)
  BY <1>1, <1>3, DeleteEdits
<1>5. DocLen(e) = DocLen(doc) - 1
  <2> DEFINE c == CutSeq(doc.cells, off, 1)
  <2>1. doc.cells \in Seq(1..n) /\ DocLen(doc) = Len(doc.cells)
    BY <1>1, DocIs
  <2>2. off <= Len(doc.cells)
    BY <1>3, <2>1
  <2>3. CutAs(c, doc.cells, off, 1)
    BY <1>3, <2>1, <2>2, CutSeqIs, Zenon
  <2>4. e = [base |-> doc.base, cells |-> c, tomb |-> doc.tomb, repl |-> doc.repl]
    BY <1>1, <1>3, CutIs
  <2> HIDE DEF c, e
  <2>5. Len(c) = Len(doc.cells) - 1
    BY <1>3, <2>1, <2>3 DEF CutAs
  <2> QED BY <2>1, <2>4, <2>5 DEF DocLen
<1>6. Sound(fileLen, undo', redo', e, dropped)
  <2>1. Sound(fileLen, undo, redo, doc, dropped)
    BY <1>2, SoundIs DEF SessionInv
  <2> HIDE DEF ops, e
  <2> QED BY <1>1, <1>2, <1>3, <1>4, <2>1, ModesAre, PushSound
<1> HIDE DEF e
<1>7. cursor' \in Nat /\ cursor' <= DocLen(doc')
  BY <1>1, <1>2, <1>3, <1>5
<1> QED BY <1>1, <1>2, <1>6, <1>7, Pushed

LEMMA EditSafe ==
    ASSUME SessionInv, Edit, UNCHANGED profile
    PROVE  SessionInv'
<1>1. ASSUME NEW v \in Typed, AppendNibble(v) \/ EditNibble(v) PROVE SessionInv'
  BY <1>1, AppendNibbleSafe, EditNibbleSafe
<1>2. ASSUME NEW v \in Typed, InsertHighNibble(v) \/ InsertLowNibble(v) PROVE SessionInv'
  BY <1>2, HighNibbleSafe, LowNibbleSafe
<1> QED BY <1>1, <1>2, DeleteSafe, TakeBackSafe, BackspaceSafe, TravelByKeySafe DEF Edit

(***************************************************************************)
(* Commands                                                                *)
(***************************************************************************)

\* Overwriting leaves as many slots as there were.
LEMMA OverwriteKeeps ==
    ASSUME NEW n, NEW d \in Docs(n), NEW off \in Nat, off <= DocLen(d), NEW bytes \in Seq(Byte)
    PROVE  /\ DocLen(OverwriteBytes(d, off, bytes).doc) = DocLen(d)
           /\ DocLen(FillOverwrite(d, off, bytes).doc) = DocLen(d)
<1>1. DocLen(OverwriteBytes(d, off, bytes).doc) = DocLen(d)
  <2> DEFINE m == Len(Applied(d, off, bytes))
             runs == ChangedRuns(d, off, bytes)
             after == ApplyOps(d, runs).doc
  <2>0. m \in Nat /\ off + m <= DocLen(d)
    BY AppliedIs
  <2>1. runs \in Seq(Inner(off, m))
    BY ChangedAre
  <2>2. OverwriteBytes(d, off, bytes).doc = d \/ OverwriteBytes(d, off, bytes).doc = after
    <3>1. OverwriteBytes(d, off, bytes) =
             IF IdsAt(d, off, m) \cap d.tomb # {} THEN Refused(d)
             ELSE Edited(after, IF Pristine(d, IdsAt(d, off, m)) THEN runs
                                ELSE PatchOver(d, after, off, m), m)
      BY DEF OverwriteBytes
    <3> HIDE DEF after, runs, m
    <3> QED BY <3>1 DEF Refused, Edited
  <2> HIDE DEF m, runs
  <2>3. after.cells = d.cells
    <3>1. runs \in Seq(Ops(n)) /\ runs \in Seq(SlotOps(n))
      BY <2>0, <2>1, RunsType
    <3> QED BY <3>1, ApplyOpsIs
  <2> HIDE DEF after
  <2> QED BY <2>2, <2>3 DEF DocLen
<1>2. DocLen(FillOverwrite(d, off, bytes).doc) = DocLen(d)
  <2> DEFINE after == OverlayRun(d, off, bytes)
             m == Len(Applied(d, off, bytes))
             ids == IdsAt(d, off, m)
             ops == IF Pristine(d, ids) THEN <<BulkOp(off, Applied(d, off, bytes))>>
                    ELSE PatchOver(d, after, off, m)
  <2>1. FillOverwrite(d, off, bytes) =
            IF ids \cap d.tomb # {} THEN Refused(d) ELSE Edited(after, ops, m)
    BY DEF FillOverwrite
  <2>2. after.cells = d.cells
    <3> DEFINE new == Over(d.repl, LaidRun(d, off, bytes))
    <3>1. after = [d EXCEPT !.repl = new]
      BY DEF OverlayRun, LaidRun
    <3>2. new \in Partial(1..n, Byte)
      BY LaidIs, DocIs, OverIs
    <3> HIDE DEF new, after
    <3>3. [d EXCEPT !.repl = new] = Slots(d, d.tomb, new)
      BY <3>2, ReplSlots
    <3> QED BY <3>1, <3>3 DEF Slots
  <2> HIDE DEF after, ops, m, ids
  <2>3. FillOverwrite(d, off, bytes).doc = d \/ FillOverwrite(d, off, bytes).doc = after
    BY <2>1 DEF Refused, Edited
  <2> QED BY <2>2, <2>3 DEF DocLen
<1> QED BY <1>1, <1>2

LEMMA CommandIs ==
    ASSUME SessionInv, NEW m \in Modes, Submitted(m)
    PROVE  /\ mode = "Command" /\ pending = None /\ mode' \in Modes
           /\ returnMode' \in Modes \cup {None}
<1>1. mode = "Command" /\ mode' = (IF m = "Command" THEN Returned ELSE m) /\ returnMode' = None
  BY DEF Submitted
<1>2. pending = None
  BY <1>1, Insertion
<1> QED BY <1>1, <1>2, InputIs

LEMMA CursorAfterIs ==
    ASSUME SessionInv, NEW n \in Nat
    PROVE  CursorAfter(n) \in Nat /\ CursorAfter(n) <= DocLen(doc)
<1> DEFINE off == cursor + (IF n = 0 THEN 0 ELSE n - 1)
<1>1. off \in Nat /\ doc \in Docs(Len(doc.base))
  BY InputIs
<1>2. CursorAfter(n) = Clamp(doc, off, "Command")
  BY DEF CursorAfter
<1> HIDE DEF off
<1> QED BY <1>1, <1>2, ClampIs

LEMMA OverwrittenSafe ==
    ASSUME SessionInv, NEW e, NEW target \in Nat, target <= DocLen(doc), Overwritten(e, target),
           Edits(Len(doc.base), doc, e.ops, e.doc), DocLen(e.doc) = DocLen(doc),
           UNCHANGED profile
    PROVE  SessionInv'
<1>1. /\ doc' = e.doc /\ cursor' = target /\ Submitted("Command")
      /\ PushUndoStep(e.ops, cursor, mode, cursor', mode)
      /\ UNCHANGED <<fileLen, pending, anchor, grabbed, dropped>>
  BY DEF Overwritten
<1>2. /\ mode = "Command" /\ pending = None /\ mode' \in Modes
      /\ returnMode' \in Modes \cup {None}
  BY <1>1, CommandIs, ModesAre
<1>3. cursor \in Nat /\ anchor \in Nat \cup {None}
  BY InputIs
<1>4. Sound(fileLen, undo', redo', e.doc, dropped)
  <2> DEFINE ops == e.ops
             d == e.doc
  <2>1. Edits(Len(doc.base), doc, ops, d) /\ PushUndoStep(ops, cursor, mode, target, mode)
    BY <1>1
  <2>2. Sound(fileLen, undo, redo, doc, dropped)
    BY <1>2, SoundIs DEF SessionInv
  <2> HIDE DEF ops, d
  <2>3. Sound(fileLen, undo', redo', d, dropped)
    BY <1>2, <1>3, <2>1, <2>2, ModesAre, PushSound
  <2> QED BY <2>3 DEF d
<1> QED BY <1>1, <1>2, <1>3, <1>4, Pushed

LEMMA OverwriteSafe ==
    ASSUME SessionInv, NEW bytes \in Seq(Byte), PasteOverwrite(bytes) \/ Fill(bytes),
           UNCHANGED profile
    PROVE  SessionInv'
<1>1. doc \in Docs(Len(doc.base)) /\ cursor \in Nat /\ cursor <= DocLen(doc)
  BY InputIs
<1>2. ASSUME PasteOverwrite(bytes) PROVE SessionInv'
  <2> DEFINE e == OverwriteBytes(doc, cursor, bytes)
             target == CursorAfter(e.n)
  <2>1. Overwritten(e, target)
    BY <1>2 DEF PasteOverwrite
  <2>2. e.ok
    BY <2>1 DEF Overwritten
  <2>3. Edits(Len(doc.base), doc, e.ops, e.doc) /\ e.n \in Nat
    BY <1>1, <2>2, OverwriteEdits
  <2>4. DocLen(e.doc) = DocLen(doc)
    BY <1>1, OverwriteKeeps
  <2>5. target \in Nat /\ target <= DocLen(doc)
    <3> HIDE DEF e
    <3> QED BY <2>3, CursorAfterIs
  <2> HIDE DEF e, target
  <2> QED BY <2>1, <2>3, <2>4, <2>5, OverwrittenSafe
<1>3. ASSUME Fill(bytes) PROVE SessionInv'
  <2> DEFINE e == FillOverwrite(doc, cursor, bytes)
             target == IF e.n = 0 THEN cursor ELSE CursorAfter(e.n)
  <2>1. Overwritten(e, target)
    BY <1>3 DEF Fill
  <2>2. e.ok
    BY <2>1 DEF Overwritten
  <2>3. Edits(Len(doc.base), doc, e.ops, e.doc) /\ e.n \in Nat
    BY <1>1, <2>2, FillEdits
  <2>4. DocLen(e.doc) = DocLen(doc)
    BY <1>1, OverwriteKeeps
  <2>5. target \in Nat /\ target <= DocLen(doc)
    <3> HIDE DEF e
    <3> QED BY <1>1, <2>3, CursorAfterIs
  <2> HIDE DEF e, target
  <2> QED BY <2>1, <2>3, <2>4, <2>5, OverwrittenSafe
<1> QED BY <1>2, <1>3

LEMMA PasteInsertSafe ==
    ASSUME SessionInv, NEW bytes \in Seq(Byte), bytes # <<>>, PasteInsert(bytes),
           UNCHANGED profile
    PROVE  SessionInv'
<1> DEFINE e == InsertRun(doc, cursor, bytes)
           ops == <<InsertOp(cursor, InsertedCells(doc, bytes))>>
           off == cursor + Len(bytes) - 1
           x == InsertBytes(doc, cursor, bytes)
           c == Clamp(x, off, "Command")
<1>1. /\ doc \in Docs(Len(doc.base)) /\ cursor \in Nat /\ cursor <= DocLen(doc)
      /\ DocLen(doc) \in Nat /\ anchor \in Nat \cup {None}
  BY InputIs
<1>2. e = Edited(x, ops, Len(bytes))
  <2>1. ~ (cursor > DocLen(doc))
    BY <1>1
  <2> HIDE DEF x, ops
  <2> QED BY <2>1 DEF InsertRun, x, ops
<1>3. e.doc = x /\ e.ops = ops
  <2> HIDE DEF x, ops, e
  <2> QED BY <1>2 DEF Edited
<1>4. /\ Submitted("Command") /\ doc' = x /\ cursor' = c
      /\ PushUndoStep(ops, cursor, mode, c, mode)
      /\ UNCHANGED <<fileLen, pending, anchor, grabbed, dropped>>
  <2> HIDE DEF x, ops
  <2> QED BY <1>3 DEF PasteInsert
<1>5. /\ mode = "Command" /\ pending = None /\ mode' \in Modes
      /\ returnMode' \in Modes \cup {None}
  BY <1>4, CommandIs, ModesAre
<1>6. Sound(fileLen, undo, redo, doc, dropped)
  BY <1>5, SoundIs DEF SessionInv
<1>7. x \in Docs(Len(doc.base) + Len(bytes)) /\ off \in Nat
  <2>1. Inserted(doc, Len(doc.base), cursor, bytes, Len(doc.base) + Len(bytes))
    BY <1>1, InsertIs
  <2>2. off \in Nat
    BY <1>1
  <2> QED BY <2>1, <2>2 DEF Inserted
<1> HIDE DEF off
<1>8. c \in Nat /\ c <= DocLen(x)
  <2> HIDE DEF x
  <2> QED BY <1>7, ClampIs
<1> HIDE DEF c
<1>9. Sound(fileLen, undo', redo', x, dropped)
  <2>1. ops = <<InsertOp(cursor, InsertedCells(doc, bytes))>>
    OBVIOUS
  <2> HIDE DEF ops
  <2> QED BY <1>1, <1>4, <1>5, <1>6, <1>8, <2>1, ModesAre, InsertSound
<1> HIDE DEF x
<1> QED BY <1>1, <1>4, <1>5, <1>8, <1>9, Pushed

\* XOR over a selection.  When an insertion is lost from the history, the
\* cells need not be distinct any more, and only the types are left.
LEMMA XorSound ==
    ASSUME SessionInv, pending = None, NEW off \in Nat, off <= DocLen(doc), NEW m \in Nat,
           NEW e, e = XorRange(doc, off, m), e.ok,
           NEW cb \in Nat, NEW mb \in Modes, NEW ca \in Nat, NEW ma \in Modes,
           PushUndoStep(e.ops, cb, mb, ca, ma)
    PROVE  Sound(fileLen, undo', redo', e.doc, dropped) /\ DocLen(e.doc) = DocLen(doc)
<1> DEFINE n == Len(doc.base)
           ops == e.ops
           d == e.doc
<1>1. doc \in Docs(n)
  BY InputIs
<1>2. /\ d \in Docs(n) /\ ops \in OpLists(n) /\ d.base = doc.base /\ d.cells = doc.cells
  BY <1>1, XorRangeType
<1>3. /\ fileLen \in Nat /\ undo \in Seq(Steps(n)) /\ redo \in Seq(Steps(n))
      /\ dropped \/ History(fileLen, undo, redo, n, doc)
  BY SoundIs DEF SessionInv, Sound
<1>4. CASE ~ dropped
  <2>1. Injective(doc.cells)
    BY <1>3, <1>4, HistoryDoc
  <2>2. Edits(n, doc, ops, d)
    BY <1>1, <2>1, XorRangeEdits
  <2>3. Sound(fileLen, undo, redo, doc, dropped)
    BY SoundIs DEF SessionInv
  <2>4. PushUndoStep(ops, cb, mb, ca, ma)
    OBVIOUS
  <2> HIDE DEF ops, d
  <2>5. Sound(fileLen, undo', redo', d, dropped)
    BY <2>2, <2>3, <2>4, PushSound
  <2> QED BY <1>2, <2>5 DEF DocLen, d
<1>5. CASE dropped
  <2>1. PushUndoStep(ops, cb, mb, ca, ma)
    OBVIOUS
  <2> HIDE DEF n, ops, d
  <2>2. undo' \in Seq(Steps(n)) /\ redo' \in Seq(Steps(n))
    BY <1>2, <1>3, <1>5, <2>1, PushType
  <2>3. Sound(fileLen, undo', redo', d, dropped)
    BY <1>2, <1>3, <1>5, <2>2 DEF Sound, n
  <2> QED BY <1>2, <2>3 DEF DocLen, d
<1> QED BY <1>4, <1>5

LEMMA XorSafe ==
    ASSUME SessionInv, XorInPlace, UNCHANGED profile
    PROVE  SessionInv'
<1> DEFINE off == SelectionStart
           m == SelectionLen
           e == XorRange(doc, off, m)
           c == Clamp(doc, off, "Normal")
<1>1. /\ doc \in Docs(Len(doc.base)) /\ cursor \in Nat /\ cursor <= DocLen(doc)
      /\ DocLen(doc) \in Nat /\ anchor \in Nat \cup {None}
  BY InputIs
<1>2. anchor # None /\ e.ok /\ UNCHANGED <<fileLen, pending, grabbed, dropped>>
  BY DEF XorInPlace
<1>3. \/ Submitted("Command") /\ UNCHANGED <<doc, cursor, anchor, undo, redo>>
      \/ /\ Submitted("Normal") /\ doc' = e.doc /\ anchor' = None /\ cursor' = c
         /\ PushUndoStep(e.ops, off, mode, cursor', "Normal")
  BY DEF XorInPlace
<1>4. off \in Nat /\ off <= DocLen(doc) /\ m \in Nat
  BY <1>1, <1>2 DEF SelectionStart, SelectionLen, Least
<1>5. CASE Submitted("Command") /\ UNCHANGED <<doc, cursor, anchor, undo, redo>>
  <2>1. pending = None /\ mode' \in Modes /\ returnMode' \in Modes \cup {None}
    BY <1>5, CommandIs, ModesAre
  <2>2. anchor' \in Nat \cup {None} /\ grabbed' \in Nat \cup {None}
    BY <1>2, <1>5 DEF SessionInv, InputInv
  <2> HIDE DEF e
  <2> QED BY <1>1, <1>2, <1>5, <2>1, <2>2, KeepsSafe
<1>6. CASE /\ Submitted("Normal") /\ doc' = e.doc /\ anchor' = None /\ cursor' = c
           /\ PushUndoStep(e.ops, off, mode, cursor', "Normal")
  <2>1. /\ mode = "Command" /\ pending = None /\ mode' \in Modes
        /\ returnMode' \in Modes \cup {None}
    BY <1>6, CommandIs, ModesAre
  <2> HIDE DEF off, m
  <2>2. c \in Nat /\ c <= DocLen(doc)
    BY <1>1, <1>4, ClampIs
  <2>3. e = XorRange(doc, off, m)
    OBVIOUS
  <2> HIDE DEF e, c
  <2>4. PushUndoStep(e.ops, off, mode, c, "Normal")
    BY <1>6
  <2>5. Sound(fileLen, undo', redo', e.doc, dropped) /\ DocLen(e.doc) = DocLen(doc)
    BY <1>2, <1>4, <2>1, <2>2, <2>3, <2>4, ModesAre, XorSound
  <2>6. anchor' \in Nat \cup {None}
    BY <1>6
  <2> QED BY <1>2, <1>6, <2>1, <2>2, <2>5, <2>6, Pushed
<1> QED BY <1>3, <1>5, <1>6

\* A document that starts over has no history.
LEMMA Fresh ==
    ASSUME NEW bytes \in Seq(Byte)
    PROVE  /\ Sound(Len(bytes), <<>>, <<>>, DocOf(bytes), FALSE)
           /\ DocLen(DocOf(bytes)) = Len(bytes)
<1>1. <<>> \in Seq(Steps(Len(bytes))) /\ Len(bytes) \in Nat
  OBVIOUS
<1> QED BY <1>1, FreshDoc DEF Sound

LEMMA WriteSafe ==
    ASSUME SessionInv, Write, UNCHANGED profile
    PROVE  SessionInv'
<1> DEFINE bytes == LogicalBytes(doc)
           d == DocOf(bytes)
           c == Clamp(d, cursor, "Normal")
<1>1. doc \in Docs(Len(doc.base)) /\ cursor \in Nat
  BY InputIs
<1>2. /\ Submitted("Command") /\ doc' = d /\ fileLen' = DocLen(d) /\ cursor' = c
      /\ undo' = <<>> /\ redo' = <<>> /\ dropped' = FALSE
      /\ UNCHANGED <<pending, anchor, grabbed>>
  BY DEF Write
<1>3. pending = None /\ mode' \in Modes /\ returnMode' \in Modes \cup {None}
  BY <1>2, CommandIs, ModesAre
<1>4. bytes \in Seq(Byte)
  BY <1>1, LogicalIs
<1> HIDE DEF bytes
<1>5. Sound(Len(bytes), <<>>, <<>>, d, FALSE) /\ DocLen(d) = Len(bytes)
  BY <1>4, Fresh
<1> HIDE DEF d
<1>6. d \in Docs(Len(d.base))
  BY <1>5 DEF Sound
<1>7. c \in Nat /\ c <= DocLen(d) /\ DocLen(d) \in Nat
  BY <1>1, <1>6, ClampIs, DocIs
<1>8. Sound(fileLen', undo', redo', doc', dropped')
  BY <1>2, <1>5
<1>9. InputInv'
  <2>1. cursor' \in 0..DocLen(doc')
    BY <1>2, <1>7
  <2> QED BY <1>2, <1>3, <2>1 DEF SessionInv, InputInv
<1> QED BY <1>2, <1>3, <1>8, <1>9, Settles

LEMMA SubmitSafe ==
    ASSUME SessionInv, SubmitCommand, UNCHANGED profile
    PROVE  SessionInv'
<1>1. ASSUME NEW off \in 0..MaxCells, Goto(off) PROVE SessionInv'
  <2>1. off \in Nat /\ off <= DocLen(doc)
    BY <1>1, InputIs DEF Goto
  <2>2. pending = None /\ mode' \in Modes /\ returnMode' \in Modes \cup {None}
    BY <1>1, CommandIs, ModesAre DEF Goto
  <2>3. anchor' \in Nat \cup {None} /\ grabbed' \in Nat \cup {None}
    BY <1>1 DEF Goto, SessionInv, InputInv
  <2> QED BY <1>1, <2>1, <2>2, <2>3, KeepsSafe DEF Goto
<1>2. ASSUME NEW b \in Clips, PasteOverwrite(b) \/ PasteInsert(b) PROVE SessionInv'
  <2>1. b \in Seq(Byte) /\ b # <<>>
    BY SessionConstants
  <2> QED BY <1>2, <2>1, OverwriteSafe, PasteInsertSafe
<1>3. ASSUME NEW b \in Fills, Fill(b) PROVE SessionInv'
  <2>1. b \in Seq(Byte)
    BY SessionConstants
  <2> QED BY <1>3, <2>1, OverwriteSafe
<1>4. ASSUME NEW n \in 1..MaxSteps, UndoCommand(n) \/ RedoCommand(n) PROVE SessionInv'
  BY <1>4, TravelByCommandSafe
<1> QED BY <1>1, <1>2, <1>3, <1>4, XorSafe, WriteSafe DEF SubmitCommand

(***************************************************************************)
(* Theorems                                                                *)
(***************************************************************************)

LEMMA InitSafe == Init => SessionInv
<1> SUFFICES ASSUME Init PROVE SessionInv
  OBVIOUS
<1>1. /\ profile \in Profiles /\ doc = DocOf(Content) /\ fileLen = Len(Content)
      /\ cursor \in 0..Len(Content)
      /\ mode = "Normal" /\ pending = None /\ anchor = None /\ grabbed = None
      /\ returnMode = None /\ undo = <<>> /\ redo = <<>> /\ dropped = FALSE
  BY DEF Init
<1>2. Content \in Seq(Byte)
  BY <1>1, SessionConstants DEF Content
<1>3. Sound(fileLen, undo, redo, doc, dropped) /\ DocLen(doc) = Len(Content)
  <2> DEFINE bytes == Content
  <2>1. bytes \in Seq(Byte)
    BY <1>2
  <2>2. doc = DocOf(bytes) /\ fileLen = Len(bytes)
    BY <1>1
  <2> HIDE DEF bytes
  <2>3. Sound(Len(bytes), <<>>, <<>>, DocOf(bytes), FALSE) /\ DocLen(DocOf(bytes)) = Len(bytes)
    BY <2>1, Fresh
  <2> QED BY <1>1, <2>2, <2>3 DEF bytes
<1>4. StacksInv /\ HistoryInv
  BY <1>1, <1>3 DEF StacksInv, HistoryInv, Sound, Allocated, Settled
<1>5. PendingInv
  BY <1>1 DEF PendingInv
<1>6. InputInv
  BY <1>1, <1>3, ModesAre DEF InputInv
<1> QED BY <1>4, <1>5, <1>6 DEF SessionInv

LEMMA NextSafe == SessionInv /\ [Next]_vars => SessionInv'
<1> SUFFICES ASSUME SessionInv, [Next]_vars PROVE SessionInv'
  OBVIOUS
<1>1. CASE UNCHANGED vars
  <2>1. /\ cursor' \in Nat /\ cursor' <= DocLen(doc) /\ mode' \in Modes
        /\ anchor' \in Nat \cup {None}
    BY <1>1, InputIs DEF vars
  <2>2. returnMode' \in Modes \cup {None} /\ grabbed' \in Nat \cup {None}
    BY <1>1 DEF vars, SessionInv, InputInv
  <2> QED BY <1>1, <2>1, <2>2, KeepsSafe, Insertion DEF vars
<1>2. CASE Next
  BY <1>2, NavigateSafe, SwitchModeSafe, EditSafe, UseMouseSafe, SubmitSafe DEF Next
<1> QED BY <1>1, <1>2

\* The undo and the redo stack lie on one line of documents, whatever was
\* typed, pasted, filled, xored, deleted, undone, redone or saved.
THEOREM SessionInvariant == Spec => []SessionInv
<1> QED BY InitSafe, NextSafe, PTL DEF Spec

\* Every cell, deletion and replacement names a byte the document has, and the
\* cursor never points past the end of file slot.
THEOREM StateIsTyped == Spec => []TypeOK
<1>1. SessionInv => TypeOK
  <2> SUFFICES ASSUME SessionInv PROVE TypeOK
    OBVIOUS
  <2> DEFINE n == Len(doc.base)
  <2>1. doc \in Docs(n) /\ InputInv
    BY DEF SessionInv, StacksInv
  <2>2. /\ n \in Nat /\ doc.base \in Seq(Byte) /\ doc.cells \in Seq(1..n)
        /\ doc.tomb \in SUBSET (1..n) /\ doc.repl \in Partial(1..n, Byte)
    BY <2>1, DocIs
  <2>3. DOMAIN doc.base = 1..n
    BY <2>2
  <2>4. ToSet(doc.cells) \subseteq 1..n
    BY <2>2 DEF ToSet
  <2>5. DOMAIN doc.repl \subseteq 1..n /\ \A id \in DOMAIN doc.repl : doc.repl[id] \in Byte
    <3> HIDE DEF n
    <3> QED BY <2>2, PartialIs
  <2>6. pending # None => pending \in [off : Nat, high : Typed]
    BY DEF SessionInv, PendingInv
  <2> HIDE DEF n
  <2> QED BY <2>1, <2>2, <2>3, <2>4, <2>5, <2>6 DEF InputInv, TypeOK
<1> QED BY <1>1, SessionInvariant, PTL

\* The half-typed byte is the cell allocated last and sits where its offset
\* says, so the second key, backspace, undo and commit all hit that byte.
THEOREM PendingStaysNewest == Spec => []PendingIsNewest
<1>1. SessionInv => PendingIsNewest
  BY PendingIs DEF SessionInv, PendingIsNewest
<1> QED BY <1>1, SessionInvariant, PTL

LEMMA SettledIs ==
    ASSUME SessionInv, ~ dropped
    PROVE  /\ fileLen \in Nat /\ undo \in Seq(Steps(Allocated(doc, pending)))
           /\ redo \in Seq(Steps(Allocated(doc, pending)))
           /\ History(fileLen, undo, redo, Allocated(doc, pending), Settled)
           /\ Settled.base = doc.base
<1>1. /\ fileLen \in Nat /\ undo \in Seq(Steps(Allocated(doc, pending)))
      /\ redo \in Seq(Steps(Allocated(doc, pending)))
      /\ History(fileLen, undo, redo, Allocated(doc, pending), Settled)
  BY DEF SessionInv, StacksInv, HistoryInv
<1>2. Settled.base = doc.base
  <2>1. CASE pending = None
    BY <2>1 DEF Settled
  <2>2. CASE pending # None
    BY <2>2, PendingIs DEF SessionInv
  <2> QED BY <2>1, <2>2
<1> QED BY <1>1, <1>2

\* Undoing any number of steps succeeds and shows what was shown before them,
\* down to the file as it was opened or last saved.
THEOREM UndoIsExact == Spec => []HistoryUnwinds
<1>1. SessionInv => HistoryUnwinds
  <2> SUFFICES ASSUME SessionInv, ~ dropped PROVE HistoryUnwinds
    BY DEF HistoryUnwinds
  <2> DEFINE n == Allocated(doc, pending)
             d == Settled
  <2>1. /\ fileLen \in Nat /\ undo \in Seq(Steps(n)) /\ redo \in Seq(Steps(n))
        /\ History(fileLen, undo, redo, n, d) /\ d.base = doc.base
    BY SettledIs
  <2> HIDE DEF n, d
  <2>2. ASSUME NEW k \in DOMAIN undo
        PROVE  LET b == Rewound(d, SubSeq(undo, k, Len(undo)))
               IN  b.ok /\ Display(b.doc) = undo[k].shown
    <3>1. k \in 1..Len(undo)
      BY <2>1
    <3>2. PICK e \in Docs(n) :
                /\ Rewound(d, SubSeq(undo, k, Len(undo))) = Unfailed(e)
                /\ e.base = d.base /\ undo[k].shown = Display(e)
                /\ k = 1 => Original(fileLen, e)
      <4>1. Unwinds(fileLen, n, undo, d, k)
        BY StepsRecorded, <2>1, <3>1, HistoryRewinds
      <4> QED BY <4>1 DEF Unwinds
    <3> QED BY <3>2 DEF Unfailed
  <2>3. PICK e \in Docs(n) :
            /\ Rewound(d, SubSeq(undo, 1, Len(undo))) = Unfailed(e)
            /\ e.base = d.base /\ Original(fileLen, e)
    BY StepsRecorded, <2>1, HistoryStarts
  <2> DEFINE b == Rewound(d, SubSeq(undo, 1, Len(undo)))
  <2>4. b.doc = e
    BY <2>3 DEF Unfailed
  <2> HIDE DEF b
  <2>5. Display(e) = SubSeq(doc.base, 1, fileLen)
    BY <2>1, <2>3, OriginalShows
  <2>6. e.cells = [i \in 1..fileLen |-> i] /\ e.tomb = {}
    BY <2>3 DEF Original
  <2>7. /\ b.doc.cells = [i \in 1..fileLen |-> i] /\ b.doc.tomb = {}
        /\ Display(b.doc) = SubSeq(doc.base, 1, fileLen)
    BY <2>4, <2>5, <2>6
  <2> QED BY <2>2, <2>7 DEF HistoryUnwinds, b, d
<1> QED BY <1>1, SessionInvariant, PTL

\* Redoing all that was undone succeeds, and undoing it again shows the same
\* bytes as before.
THEOREM RedoIsExact == Spec => []HistoryReplays
<1>1. SessionInv => HistoryReplays
  <2> SUFFICES ASSUME SessionInv, ~ dropped PROVE HistoryReplays
    BY DEF HistoryReplays
  <2>1. \E e : Redone(doc, redo) = Unfailed(e) /\ Rewound(e, Reverse(redo)) = Unfailed(doc)
    <3>1. CASE pending = None
      <4> DEFINE n == Allocated(doc, pending)
      <4>1. /\ fileLen \in Nat /\ undo \in Seq(Steps(n)) /\ redo \in Seq(Steps(n))
            /\ History(fileLen, undo, redo, n, doc)
        BY <3>1, SettledIs DEF Settled
      <4> HIDE DEF n
      <4> QED BY StepsRecorded, <4>1, HistoryReplayed
    <3>2. CASE pending # None
      <4>1. doc \in Docs(Len(doc.base)) /\ redo = <<>>
        BY <3>2, PendingIs DEF SessionInv
      <4>2. Reverse(<<>>) = <<>>
        BY DEF Reverse
      <4> QED BY <4>1, <4>2, NothingUndone
    <3> QED BY <3>1, <3>2
  <2>2. PICK e : Redone(doc, redo) = Unfailed(e) /\ Rewound(e, Reverse(redo)) = Unfailed(doc)
    BY <2>1
  <2>3. Redone(doc, redo).ok /\ Redone(doc, redo).doc = e
    BY <2>2 DEF Unfailed
  <2>4. Rewound(e, Reverse(redo)).ok /\ Rewound(e, Reverse(redo)).doc = doc
    BY <2>2 DEF Unfailed
  <2> QED BY <2>3, <2>4 DEF HistoryReplays
<1> QED BY <1>1, SessionInvariant, PTL
================================================================================
