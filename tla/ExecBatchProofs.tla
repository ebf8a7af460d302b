--------------------------- MODULE ExecBatchProofs ---------------------------
(***************************************************************************)
(* Proofs about batches of commands: whatever runs, fails or is saved on   *)
(* the way, the undo steps lead back to the file as opened or last saved,  *)
(* a rollback restores what was there, a selection names the bytes it was  *)
(* made for, and a file goes on holding what was saved in it.              *)
(***************************************************************************)
EXTENDS ExecBatch, DocumentProofs

(***************************************************************************)
(* Commands                                                                *)
(***************************************************************************)

\* A command whose bytes are known, with what its handler takes of it.
Usable(c) ==
    /\ c.op \in {"goto", "overwrite", "insert", "fill"} => c.at \in Places
    /\ c.op = "select" => c.range \in Ranges
    /\ c.op \in {"read", "hash", "export", "xor", "delete", "replace"} => c.scope \in Scopes
    /\ HasBytes(c) => c.bytes \in Seq(Byte)
    /\ c.op = "replace" => c.needle \in Seq(Byte)
    /\ c.op = "save" => c.name \in Names \cup {None}

\* What a command is before its bytes are known.
Unresolved(c) ==
    /\ c.op \in {"goto", "overwrite", "insert", "fill"} => c.at \in Places
    /\ c.op = "select" => c.range \in Ranges
    /\ c.op \in {"read", "hash", "export", "xor", "delete", "replace"} => c.scope \in Scopes
    /\ HasBytes(c) => c.bytes \in Runs
    /\ c.op = "replace" => c.needle \in Seq(Byte)
    /\ c.op = "save" => c.name \in Names \cup {None}

Known == {"goto", "select", "clear", "read", "hash", "export", "search", "overwrite",
          "insert", "delete", "fill", "xor", "replace", "save"}

LEMMA CommandIs ==
    ASSUME NEW c \in Commands
    PROVE  Unresolved(c) /\ c.op \in Known
<1>1. CASE c \in [op : {"goto"}, at : Places]
  BY <1>1 DEF Unresolved, HasBytes, Known
<1>2. CASE c \in [op : {"select"}, range : Ranges]
  BY <1>2 DEF Unresolved, HasBytes, Known
<1>3. CASE c \in [op : {"clear"}]
  BY <1>3 DEF Unresolved, HasBytes, Known
<1>4. CASE c \in [op : {"read", "hash", "export", "xor"}, scope : Scopes]
  BY <1>4 DEF Unresolved, HasBytes, Known
<1>5. CASE c \in [op : {"delete"}, scope : Scopes, real : BOOLEAN]
  BY <1>5 DEF Unresolved, HasBytes, Known
<1>6. CASE c \in [op : {"search"}, bytes : Runs, forward : BOOLEAN, select : BOOLEAN]
  BY <1>6 DEF Unresolved, HasBytes, Known
<1>7. CASE c \in [op : {"overwrite", "insert", "fill"}, at : Places, bytes : Runs]
  BY <1>7 DEF Unresolved, HasBytes, Known
<1>8. CASE c \in [op : {"replace"}, scope : Scopes, needle : Seq(Byte), bytes : Runs,
                  resize : BOOLEAN, force : BOOLEAN]
  BY <1>8 DEF Unresolved, HasBytes, Known
<1>9. CASE c \in [op : {"save"}, name : Names \cup {None}]
  BY <1>9 DEF Unresolved, HasBytes, Known
<1> QED BY <1>1, <1>2, <1>3, <1>4, <1>5, <1>6, <1>7, <1>8, <1>9 DEF Commands

\* What a command is is not changed by what its bytes or its scope become.
LEMMA CommandBytes ==
    ASSUME NEW c \in Commands, HasBytes(c), NEW bytes \in Seq(Byte)
    PROVE  Usable([c EXCEPT !.bytes = bytes]) /\ [c EXCEPT !.bytes = bytes].op = c.op
<1> DEFINE e == [c EXCEPT !.bytes = bytes]
<1>1. CASE c \in [op : {"search"}, bytes : Runs, forward : BOOLEAN, select : BOOLEAN]
  <2>1. e.op = "search" /\ e.bytes = bytes /\ c.op = "search"
    BY <1>1
  <2> HIDE DEF e
  <2> QED BY <2>1 DEF Usable, HasBytes, e
<1>2. CASE c \in [op : {"overwrite", "insert", "fill"}, at : Places, bytes : Runs]
  <2>1. e.op = c.op /\ e.bytes = bytes /\ c.op \in {"overwrite", "insert", "fill"}
        /\ e.at \in Places
    BY <1>2
  <2> HIDE DEF e
  <2> QED BY <2>1 DEF Usable, HasBytes, e
<1>3. CASE c \in [op : {"replace"}, scope : Scopes, needle : Seq(Byte), bytes : Runs,
                  resize : BOOLEAN, force : BOOLEAN]
  <2>1. e.op = c.op /\ e.bytes = bytes /\ c.op = "replace" /\ e.scope \in Scopes
        /\ e.needle \in Seq(Byte)
    BY <1>3
  <2> HIDE DEF e
  <2> QED BY <2>1 DEF Usable, HasBytes, e
<1> QED BY <1>1, <1>2, <1>3 DEF Commands, HasBytes

LEMMA ResolvedIs ==
    ASSUME NEW c \in Commands, ~ Unbound(c), batch.bound \in Seq(Byte) \cup {None}
    PROVE  Usable(Resolved(c)) /\ Resolved(c).op \in Known
<1>0. Unresolved(c) /\ c.op \in Known
  BY CommandIs
<1>1. CASE HasBytes(c) /\ c.bytes = Bound
  <2>1. batch.bound \in Seq(Byte)
    BY <1>1 DEF Unbound
  <2>2. Resolved(c) = [c EXCEPT !.bytes = batch.bound]
    BY <1>1 DEF Resolved
  <2> QED BY <1>0, <1>1, <2>1, <2>2, CommandBytes
<1>2. CASE ~ (HasBytes(c) /\ c.bytes = Bound)
  <2>1. Resolved(c) = c
    BY <1>2 DEF Resolved
  <2>2. HasBytes(c) => c.bytes \in Seq(Byte)
    BY <1>0, <1>2 DEF Unresolved, Runs
  <2> QED BY <1>0, <2>1, <2>2 DEF Unresolved, Usable
<1> QED BY <1>1, <1>2

LEMMA ScopeOrAllIs ==
    ASSUME NEW c \in Commands, ~ (HasBytes(c) /\ c.bytes = Bound)
    PROVE  Usable(ScopeOrAll(c)) /\ ScopeOrAll(c).op \in Known
<1> DEFINE all == [of |-> "all"]
           e == [c EXCEPT !.scope = all]
<1>0. Unresolved(c) /\ c.op \in Known
  BY CommandIs
<1>1. all \in Scopes
  BY DEF Scopes
<1> HIDE DEF all
<1>2. HasBytes(c) => c.bytes \in Seq(Byte)
  BY <1>0 DEF Unresolved, Runs
<1>3. Usable(c)
  BY <1>0, <1>2 DEF Unresolved, Usable
<1>4. CASE c.op \in {"hash", "export"}
  <2>1. c \in [op : {"read", "hash", "export", "xor"}, scope : Scopes]
    BY <1>4 DEF Commands
  <2>2. e.op = c.op /\ e.scope = all
    BY <2>1
  <2> HIDE DEF e
  <2>3. Usable(e)
    BY <1>1, <1>4, <2>2 DEF Usable, HasBytes
  <2>4. ScopeOrAll(c) = c \/ ScopeOrAll(c) = e
    BY DEF ScopeOrAll, e, all
  <2> QED BY <1>0, <1>3, <2>2, <2>3, <2>4
<1>5. CASE c.op = "replace"
  <2>1. c \in [op : {"replace"}, scope : Scopes, needle : Seq(Byte), bytes : Runs,
               resize : BOOLEAN, force : BOOLEAN]
    BY <1>5 DEF Commands
  <2>2. e.op = c.op /\ e.scope = all /\ e.needle = c.needle /\ e.bytes = c.bytes
        /\ c.needle \in Seq(Byte)
    BY <2>1
  <2> HIDE DEF e
  <2>3. c.bytes \in Seq(Byte)
    BY <1>2, <1>5 DEF HasBytes
  <2>4. Usable(e)
    BY <1>1, <1>5, <2>2, <2>3 DEF Usable, HasBytes
  <2>5. ScopeOrAll(c) = c \/ ScopeOrAll(c) = e
    BY DEF ScopeOrAll, e, all
  <2> QED BY <1>0, <1>3, <2>2, <2>4, <2>5
<1>6. CASE c.op \notin {"hash", "export", "replace"}
  <2>1. ScopeOrAll(c) = c
    BY <1>6 DEF ScopeOrAll
  <2> QED BY <1>0, <1>3, <2>1
<1> QED BY <1>4, <1>5, <1>6

(***************************************************************************)
(* What a cursor and a selection name                                      *)
(***************************************************************************)

LEMMA ClampedIs ==
    ASSUME NEW n, NEW d \in Docs(n), NEW off \in Nat
    PROVE  /\ Clamped(d, off) \in Nat /\ Clamped(d, off) <= Clamped(d, DocLen(d))
           /\ off < DocLen(d) => Clamped(d, off) = off
           /\ DocLen(d) > 0 => Clamped(d, off) < DocLen(d)
<1>1. DocLen(d) \in Nat
  BY DocIs
<1> QED BY <1>1 DEF Clamped, Least

\* A cursor on a byte of the document, or at its end when it is empty.
Fits(d, k) == k \in Nat /\ k <= Clamped(d, DocLen(d))

\* A selection that, as far as it names bytes, names those it was made for.
NamesSame(d, s) ==
    /\ s = [space |-> s.space, start |-> s.start, len |-> s.len, cells |-> s.cells]
    /\ s.space \in {"display", "logical"} /\ s.start \in Nat /\ s.len \in Nat
    /\ s.cells # <<>> => InBounds(d, s) /\ Selection(d, s).cells = s.cells

Named(d, x) ==
    /\ x = [cursor |-> x.cursor, sel |-> x.sel]
    /\ Fits(d, x.cursor)
    /\ x.sel = None \/ NamesSame(d, x.sel)

LEMMA ClampedFits ==
    ASSUME NEW d, Sane(d), NEW off \in Nat
    PROVE  Fits(d, Clamped(d, off))
BY ClampedIs DEF Fits, Sane

\* Only the cells and the tombstones count.
LEMMA SameNames ==
    ASSUME NEW d, NEW e, d.cells = e.cells, NEW s,
           d.tomb = e.tomb \/ s.space = "display", NamesSame(d, s)
    PROVE  NamesSame(e, s)
<1>1. DocLen(d) = DocLen(e)
  BY DEF DocLen
<1>2. \A off, m : CellsAt(d, off, m) = CellsAt(e, off, m)
  BY <1>1 DEF CellsAt
<1>3. s.space # "display" => VisibleOffsets(d) = VisibleOffsets(e)
  BY SameVisible
<1>4. SlotCount(d, s.space) = SlotCount(e, s.space)
  BY <1>1, <1>3 DEF SlotCount
<1>5. \A k : Slot(d, s, k) = Slot(e, s, k)
  BY <1>3 DEF Slot
<1>6. InBounds(d, s) <=> InBounds(e, s)
  BY <1>1, <1>4 DEF InBounds, Nothing
<1>7. Nothing(d, s) <=> Nothing(e, s)
  BY <1>1 DEF Nothing
<1>8. From(d, s) = From(e, s) /\ To(d, s) = To(e, s)
  BY <1>5 DEF From, To
<1>9. Selection(d, s) = Selection(e, s)
  BY <1>2, <1>6, <1>7, <1>8 DEF Selection
<1> QED BY <1>6, <1>9 DEF NamesSame

LEMMA SameNamed ==
    ASSUME NEW d, NEW e, d.cells = e.cells, d.tomb = e.tomb, NEW x, Named(d, x)
    PROVE  Named(e, x)
<1>1. DocLen(d) = DocLen(e) /\ Clamped(d, DocLen(d)) = Clamped(e, DocLen(e))
  BY DEF DocLen, Clamped
<1>2. x.sel = None \/ NamesSame(e, x.sel)
  BY SameNames DEF Named
<1> QED BY <1>1, <1>2 DEF Named, Fits

\* A selection names what it was made for when it is made.
LEMMA SelectionNames ==
    ASSUME NEW d, NEW r, r.space \in {"display", "logical"}, r.start \in Nat, r.len \in Nat
    PROVE  NamesSame(d, Selection(d, r))
<1> DEFINE s == Selection(d, r)
           cells == IF Nothing(d, r) \/ ~InBounds(d, r) THEN <<>>
                    ELSE CellsAt(d, From(d, r), To(d, r) - From(d, r) + 1)
<1>1. s = [space |-> r.space, start |-> r.start, len |-> r.len, cells |-> cells]
  BY DEF Selection
<1>2. s.space = r.space /\ s.start = r.start /\ s.len = r.len /\ s.cells = cells
  BY <1>1
<1> HIDE DEF s, cells
<1>3. /\ Nothing(d, s) <=> Nothing(d, r)
      /\ InBounds(d, s) <=> InBounds(d, r)
  BY <1>2 DEF Nothing, InBounds
<1>4. \A k : Slot(d, s, k) = Slot(d, r, k)
  BY <1>2 DEF Slot
<1>5. From(d, s) = From(d, r) /\ To(d, s) = To(d, r)
  BY <1>2, <1>4 DEF From, To
<1>6. Selection(d, s) = [space |-> r.space, start |-> r.start, len |-> r.len, cells |-> cells]
  BY <1>2, <1>3, <1>5 DEF Selection, cells
<1>7. Selection(d, s).cells = cells
  BY <1>6
<1>8. cells # <<>> => InBounds(d, r)
  BY DEF cells
<1> QED BY <1>1, <1>2, <1>3, <1>7, <1>8 DEF NamesSame, s

\* The slots a range names lie in the document, the last not before the first.
LEMMA RangeSlots ==
    ASSUME NEW n, NEW d \in Docs(n), NEW r, r.space \in {"display", "logical"},
           r.start \in Nat, r.len \in Nat, InBounds(d, r), ~ Nothing(d, r)
    PROVE  /\ From(d, r) \in Nat /\ To(d, r) \in Nat /\ From(d, r) <= To(d, r)
           /\ To(d, r) < DocLen(d)
<1>0. DocLen(d) \in Nat /\ r.len > 0
  BY DocIs DEF Nothing
<1>1. r.start + r.len <= SlotCount(d, r.space)
  BY DEF InBounds
<1>2. CASE r.space = "display"
  <2>1. r.start + r.len <= DocLen(d)
    BY <1>1, <1>2 DEF SlotCount
  <2>2. From(d, r) = r.start + 0 /\ To(d, r) = r.start + (r.len - 1)
    BY <1>2 DEF From, To, Slot
  <2> QED BY <1>0, <2>1, <2>2
<1>3. CASE r.space = "logical"
  <2> DEFINE v == VisibleOffsets(d)
             a == r.start + 0 + 1
             b == r.start + (r.len - 1) + 1
  <2>1. /\ Len(v) \in Nat /\ \A x \in 1..Len(v) : v[x] \in Nat /\ v[x] < DocLen(d)
        /\ \A x, y \in 1..Len(v) : x < y => v[x] < v[y]
    BY VisibleIs DEF Rises
  <2>2. r.start + r.len <= Len(v)
    BY <1>1, <1>3 DEF SlotCount
  <2>3. From(d, r) = v[a] /\ To(d, r) = v[b]
    BY <1>3 DEF From, To, Slot
  <2> HIDE DEF v
  <2>4. a \in 1..Len(v) /\ b \in 1..Len(v) /\ (a = b \/ a < b)
    BY <1>0, <2>1, <2>2
  <2> HIDE DEF a, b
  <2> QED BY <2>1, <2>3, <2>4
<1> QED BY <1>2, <1>3

(***************************************************************************)
(* What a command answers                                                  *)
(***************************************************************************)

\* The outcome of a command that succeeds without a save.
Works(r) ==
    /\ r.ok /\ ~ r.saved /\ r.files = files
    /\ Becomes(doc, Effective(r.ops), r.doc)
    /\ Named(r.doc, r.exec) /\ r.value \in Seq(Byte)

Answers(r) == r = Failed \/ Works(r)

\* Where commands start from.
Ready == Sane(doc) /\ Named(doc, exec)

LEMMA FailedIs ==
    /\ Failed.ok = FALSE /\ Failed.saved = FALSE /\ Failed.doc = doc /\ Failed.files = files
    /\ Failed.exec = exec /\ Failed.ops = <<>> /\ Failed.value = <<>>
    /\ Failed = [ok |-> FALSE, saved |-> FALSE, doc |-> doc, files |-> files,
                 exec |-> exec, ops |-> <<>>, value |-> <<>>]
BY DEF Failed

LEMMA BecameWorks ==
    ASSUME NEW e, Made(doc, e), NEW cur, Fits(e.doc, cur), NEW sel,
           sel = None \/ NamesSame(e.doc, sel), NEW value \in Seq(Byte)
    PROVE  Works(Became(e.doc, cur, sel, e.ops, value))
<1> DEFINE r == Became(e.doc, cur, sel, e.ops, value)
           x == [cursor |-> cur, sel |-> sel]
<1>1. /\ r.ok = TRUE /\ r.saved = FALSE /\ r.doc = e.doc /\ r.files = files /\ r.exec = x
      /\ r.ops = e.ops /\ r.value = value
  BY DEF Became
<1>2. x = [cursor |-> x.cursor, sel |-> x.sel] /\ x.cursor = cur /\ x.sel = sel
  OBVIOUS
<1> HIDE DEF r, x
<1>3. Named(e.doc, x)
  BY <1>2 DEF Named
<1>4. Becomes(doc, Effective(e.ops), e.doc)
  BY DEF Made
<1> QED BY <1>1, <1>3, <1>4 DEF Works, r

\* A command that edits nothing.
LEMMA StayedWorks ==
    ASSUME Sane(doc), NEW cur, Fits(doc, cur), NEW sel, sel = None \/ NamesSame(doc, sel),
           NEW value \in Seq(Byte)
    PROVE  Works(Became(doc, cur, sel, <<>>, value))
<1> DEFINE e == Edited(doc, <<>>, 0)
<1>1. Made(doc, e) /\ e.doc = doc /\ e.ops = <<>>
  BY MadeNothing DEF Edited
<1> HIDE DEF e
<1> QED BY <1>1, BecameWorks

LEMMA UnchangedWorks ==
    ASSUME Ready, NEW value \in Seq(Byte)
    PROVE  Works(Unchanged(value))
BY StayedWorks DEF Unchanged, Ready, Named

LEMMA EmptyValue == <<>> \in Seq(Byte)
OBVIOUS

LEMMA DocLenIs ==
    ASSUME NEW d, Sane(d)
    PROVE  d \in Docs(Len(d.base)) /\ DocLen(d) \in Nat
BY DocIs DEF Sane

LEMMA OffsetIs ==
    ASSUME Ready, NEW at \in Places
    PROVE  Offset(doc, at) \in Int
<1>1. exec.cursor \in Nat
  BY DEF Ready, Named, Fits
<1>2. CASE at \in [base : {"start", "cursor"}, delta : Int]
  BY <1>1, <1>2 DEF Offset
<1>3. CASE at \in [base : {"end"}, delta : {0}]
  <2>1. Clamped(doc, DocLen(doc)) \in Nat
    BY DocLenIs, ClampedIs DEF Ready
  <2>2. Offset(doc, at) = Clamped(doc, DocLen(doc))
    BY <1>3 DEF Offset
  <2> QED BY <2>1, <2>2
<1> QED BY <1>2, <1>3 DEF Places

LEMMA GotoWorks ==
    ASSUME Ready, NEW c, c.at \in Places
    PROVE  Answers(Goto(c))
<1> DEFINE off == Offset(doc, c.at)
<1>1. off \in Int
  BY OffsetIs
<1>2. Goto(c) = IF off < 0 \/ (off >= DocLen(doc) /\ DocLen(doc) > 0) THEN Failed
                ELSE Became(doc, Clamped(doc, off), exec.sel, <<>>, <<>>)
  BY DEF Goto
<1> HIDE DEF off
<1>3. CASE off < 0
  BY <1>2, <1>3 DEF Answers
<1>4. CASE ~ (off < 0)
  <2>1. Fits(doc, Clamped(doc, off))
    BY <1>1, <1>4, ClampedFits DEF Ready
  <2>2. Works(Became(doc, Clamped(doc, off), exec.sel, <<>>, <<>>))
    BY <2>1, StayedWorks, EmptyValue DEF Ready, Named
  <2> QED BY <1>2, <2>2 DEF Answers
<1> QED BY <1>3, <1>4

LEMMA SelectWorks ==
    ASSUME Ready, NEW c, c.range \in Ranges
    PROVE  Answers(Select(c))
<1>1. /\ c.range.space \in {"display", "logical"} /\ c.range.start \in Nat
      /\ c.range.len \in Nat
  BY DEF Ranges
<1>2. NamesSame(doc, Selection(doc, c.range))
  BY <1>1, SelectionNames
<1>3. Works(Became(doc, exec.cursor, Selection(doc, c.range), <<>>, <<>>))
  BY <1>2, StayedWorks, EmptyValue DEF Ready, Named
<1> QED BY <1>3 DEF Select, Answers

LEMMA ClearWorks ==
    ASSUME Ready, NEW c
    PROVE  Answers(ClearSelection(c))
<1>1. Works(Became(doc, exec.cursor, None, <<>>, <<>>))
  BY StayedWorks, EmptyValue DEF Ready, Named
<1> QED BY <1>1 DEF ClearSelection, Answers

\* The slots of a scope that names any.
ScopeSlots(start, end) ==
    /\ start \in Nat /\ end \in Nat /\ start <= end /\ end < DocLen(doc)

LEMMA ScopeIs ==
    ASSUME Ready, NEW scope \in Scopes, ScopeKnown(scope)
    PROVE  LET r == ScopeRange(doc, scope)
           IN  InBounds(doc, r) /\ ~ Nothing(doc, r) => ScopeSlots(From(doc, r), To(doc, r))
<1> DEFINE r == ScopeRange(doc, scope)
<1>0. doc \in Docs(Len(doc.base)) /\ DocLen(doc) \in Nat
  BY DocLenIs DEF Ready
<1>1. r.space \in {"display", "logical"} /\ r.start \in Nat /\ r.len \in Nat
  <2>1. CASE scope \in [of : {"selection"}]
    <3>1. scope.of = "selection"
      BY <2>1
    <3>2. r = exec.sel
      BY <3>1 DEF ScopeRange
    <3>3. NamesSame(doc, exec.sel)
      BY <3>1 DEF Ready, Named, ScopeKnown
    <3> QED BY <3>2, <3>3 DEF NamesSame
  <2>2. CASE scope \in [of : {"all"}]
    <3>1. r = DisplayRange(0, DocLen(doc))
      BY <2>2 DEF ScopeRange
    <3> QED BY <1>0, <3>1 DEF DisplayRange
  <2>3. CASE scope \in [of : {"range"}, range : Ranges]
    <3>1. r = scope.range /\ scope.range \in Ranges
      BY <2>3 DEF ScopeRange
    <3> QED BY <3>1 DEF Ranges
  <2> QED BY <2>1, <2>2, <2>3 DEF Scopes
<1> HIDE DEF r
<1>2. ASSUME InBounds(doc, r), ~ Nothing(doc, r) PROVE ScopeSlots(From(doc, r), To(doc, r))
  BY <1>0, <1>1, <1>2, RangeSlots DEF ScopeSlots
<1> QED BY <1>2 DEF r

\* A command over a scope answers, when what it does with the slots does.
LEMMA ScopeWorks ==
    ASSUME Ready, NEW c, c.scope \in Scopes, NEW r,
           NEW there, there <=> ScopeKnown(c.scope),
           NEW out, NEW start, NEW end,
           start = From(doc, ScopeRange(doc, c.scope)),
           end = To(doc, ScopeRange(doc, c.scope)),
           r = IF ~ there THEN Failed
               ELSE IF ~ InBounds(doc, ScopeRange(doc, c.scope)) THEN Failed
               ELSE IF Nothing(doc, ScopeRange(doc, c.scope)) THEN Unchanged(<<>>)
               ELSE out,
           ScopeSlots(start, end) => Answers(out)
    PROVE  Answers(r)
<1>1. Answers(Failed) /\ Answers(Unchanged(<<>>))
  BY UnchangedWorks, EmptyValue DEF Answers
<1>2. ASSUME there, InBounds(doc, ScopeRange(doc, c.scope)),
             ~ Nothing(doc, ScopeRange(doc, c.scope))
      PROVE  Answers(out)
  BY <1>2, ScopeIs
<1> QED BY <1>1, <1>2

LEMMA BytesInIs ==
    ASSUME Ready, NEW start, NEW end, ScopeSlots(start, end)
    PROVE  BytesIn(doc, start, end) \in Seq(Byte)
<1> DEFINE n == Len(doc.base)
           m == end - start + 1
           cells == CellsAt(doc, start, m)
           d == [doc EXCEPT !.cells = cells]
<1>0. doc \in Docs(n) /\ m \in Nat
  BY DocLenIs DEF Ready, ScopeSlots
<1> HIDE DEF n, m
<1>1. cells \in Seq(1..n)
  BY <1>0, CellsAtIs DEF ScopeSlots
<1> HIDE DEF cells
<1>2. d \in Docs(n)
  BY <1>0, <1>1, CellsDoc
<1> HIDE DEF d
<1>3. LogicalBytes(d) \in Seq(Byte)
  BY <1>2, LogicalIs
<1> QED BY <1>3 DEF BytesIn, d, cells, m

LEMMA ReadWorks ==
    ASSUME Ready, NEW c, c.scope \in Scopes
    PROVE  Answers(Read(c))
<1> DEFINE r == ScopeRange(doc, c.scope)
           start == From(doc, r)
           end == To(doc, r)
           out == Unchanged(BytesIn(doc, start, end))
           there == ScopeKnown(c.scope)
           rest == IF ~ there THEN Failed
                   ELSE IF ~ InBounds(doc, r) THEN Failed
                   ELSE IF Nothing(doc, r) THEN Unchanged(<<>>)
                   ELSE out
<1>1. Read(c) = IF c.scope.of = "all" THEN Failed ELSE rest
  BY DEF Read, OverScope
<1>2. ScopeSlots(start, end) => Answers(out)
  BY BytesInIs, UnchangedWorks DEF Answers
<1>3. Answers(rest)
  <2>1. there <=> ScopeKnown(c.scope)
    OBVIOUS
  <2> HIDE DEF out, there
  <2> QED BY <1>2, <2>1, ScopeWorks
<1> HIDE DEF rest
<1> QED BY <1>1, <1>3 DEF Answers

LEMMA InspectWorks ==
    ASSUME Ready, NEW c, c.scope \in Scopes
    PROVE  Answers(Inspect(c))
<1> DEFINE r == ScopeRange(doc, c.scope)
           start == From(doc, r)
           end == To(doc, r)
           out == Unchanged(<<>>)
           there == ScopeKnown(c.scope)
           rest == IF ~ there THEN Failed
                   ELSE IF ~ InBounds(doc, r) THEN Failed
                   ELSE IF Nothing(doc, r) THEN Unchanged(<<>>)
                   ELSE out
<1>1. Inspect(c) = rest
  BY DEF Inspect, OverScope
<1>2. ScopeSlots(start, end) => Answers(out)
  BY UnchangedWorks, EmptyValue DEF Answers
<1>3. Answers(rest)
  <2>1. there <=> ScopeKnown(c.scope)
    OBVIOUS
  <2> HIDE DEF there
  <2> QED BY <1>2, <2>1, ScopeWorks
<1> QED BY <1>1, <1>3

\* A hit is a cursor that lies in the document.
LEMMA SearchWorks ==
    ASSUME Ready, NEW c, c.bytes \in Seq(Byte)
    PROVE  Answers(Search(c))
<1> DEFINE hit == IF c.forward THEN SearchForward(doc, exec.cursor, c.bytes)
                  ELSE SearchBackward(doc, exec.cursor, c.bytes)
           named == DisplayRange(hit, Len(c.bytes))
           sel == IF c.select THEN Selection(doc, named) ELSE exec.sel
           out == Became(doc, hit, sel, <<>>, c.bytes)
<1>0. /\ doc \in Docs(Len(doc.base)) /\ DocLen(doc) \in Nat /\ exec.cursor \in Nat
      /\ exec.cursor <= Clamped(doc, DocLen(doc))
  BY DocLenIs DEF Ready, Named, Fits
<1>1. Search(c) = IF c.bytes = <<>> THEN Failed
                  ELSE IF hit = None THEN Unchanged(<<>>) ELSE out
  BY DEF Search
<1>2. CASE c.bytes # <<>> /\ hit # None
  <2>1. hit \in Nat /\ hit <= Clamped(doc, DocLen(doc))
    <3>1. CASE c.forward
      <4>1. hit = SearchForward(doc, exec.cursor, c.bytes)
        BY <3>1
      <4> HIDE DEF hit
      <4>2. hit \in Nat /\ hit < DocLen(doc)
        BY <1>0, <1>2, <4>1, ForwardIs
      <4>3. Clamped(doc, hit) = hit
        BY <1>0, <4>2, ClampedIs
      <4> QED BY <1>0, <4>2, <4>3, ClampedIs
    <3>2. CASE ~ c.forward
      <4>1. hit = SearchBackward(doc, exec.cursor, c.bytes)
        BY <3>2
      <4> HIDE DEF hit
      <4>2. hit \in Nat /\ hit < exec.cursor
        BY <1>0, <1>2, <4>1, BackwardIs
      <4>3. Clamped(doc, DocLen(doc)) \in Nat
        BY <1>0, ClampedIs
      <4> QED BY <1>0, <4>2, <4>3
    <3> QED BY <3>1, <3>2
  <2> HIDE DEF hit
  <2>2. Fits(doc, hit)
    BY <2>1 DEF Fits
  <2>3. named.space = "display" /\ named.start = hit /\ named.len = Len(c.bytes)
    BY DEF DisplayRange
  <2>4. named.space \in {"display", "logical"} /\ named.start \in Nat /\ named.len \in Nat
    BY <2>1, <2>3
  <2> HIDE DEF named
  <2>5. NamesSame(doc, Selection(doc, named))
    BY <2>4, SelectionNames
  <2>6. sel = None \/ NamesSame(doc, sel)
    BY <2>5 DEF Ready, Named
  <2> HIDE DEF sel
  <2>7. Works(out)
    BY <2>2, <2>6, StayedWorks DEF Ready
  <2> HIDE DEF out
  <2> QED BY <1>1, <1>2, <2>7 DEF Answers, hit
<1>3. CASE c.bytes = <<>> \/ hit = None
  <2>1. Works(Unchanged(<<>>))
    BY UnchangedWorks, EmptyValue
  <2> HIDE DEF hit, out
  <2> QED BY <1>1, <1>3, <2>1 DEF Answers
<1> QED BY <1>2, <1>3

\* The cursor goes to the last byte written, the selection to sel.
LEMMA WrittenWorks ==
    ASSUME Ready, NEW off \in Int, NEW e, NEW sel,
           off \in Nat /\ e.ok => /\ Made(doc, e) /\ (sel = None \/ NamesSame(e.doc, sel))
                                  /\ e.n = 0 => DocLen(e.doc) = DocLen(doc)
    PROVE  Answers(Written(off, e, sel))
<1> DEFINE cur == IF e.n > 0 THEN Clamped(e.doc, off + e.n - 1) ELSE exec.cursor
           out == Became(e.doc, cur, sel, e.ops, <<>>)
<1>1. Written(off, e, sel) = IF off < 0 \/ ~e.ok THEN Failed ELSE out
  BY DEF Written
<1>2. CASE off \in Nat /\ e.ok
  <2>1. Made(doc, e) /\ (sel = None \/ NamesSame(e.doc, sel)) /\ e.n \in Nat /\ Sane(e.doc)
    BY <1>2 DEF Made, Becomes
  <2>2. Fits(e.doc, cur)
    <3>1. CASE e.n > 0
      <4>1. off + e.n - 1 \in Nat
        BY <1>2, <2>1, <3>1
      <4> QED BY <2>1, <3>1, <4>1, ClampedFits
    <3>2. CASE ~ (e.n > 0)
      <4>1. e.n = 0
        BY <2>1, <3>2
      <4>2. DocLen(e.doc) = DocLen(doc)
        BY <1>2, <4>1
      <4>3. Fits(doc, exec.cursor)
        BY DEF Ready, Named
      <4> QED BY <3>2, <4>2, <4>3 DEF Fits, Clamped
    <3> QED BY <3>1, <3>2
  <2> HIDE DEF cur
  <2>3. Works(out)
    BY <2>1, <2>2, BecameWorks, EmptyValue
  <2> QED BY <1>1, <1>2, <2>3 DEF Answers
<1>3. CASE ~ (off \in Nat /\ e.ok)
  BY <1>1, <1>3 DEF Answers
<1> QED BY <1>2, <1>3

\* What an edit that leaves every cell in its slot leaves selected.
LEMMA InPlaceNames ==
    ASSUME Ready, NEW d, SameSlots(doc, d)
    PROVE  /\ exec.sel = None \/ NamesSame(d, exec.sel)
           /\ DocLen(d) = DocLen(doc)
<1>1. doc.cells = d.cells /\ doc.tomb = d.tomb
  BY DEF SameSlots
<1>2. exec.sel = None \/ NamesSame(doc, exec.sel)
  BY DEF Ready, Named
<1>3. NamesSame(doc, exec.sel) => NamesSame(d, exec.sel)
  BY <1>1, SameNames
<1> QED BY <1>1, <1>2, <1>3 DEF DocLen

LEMMA OverwriteWorks ==
    ASSUME Ready, NEW c, c.at \in Places, c.bytes \in Seq(Byte)
    PROVE  Answers(Overwrite(c))
<1> DEFINE off == Offset(doc, c.at)
           e == OverwriteBytes(doc, off, c.bytes)
<1>1. off \in Int
  BY OffsetIs
<1> HIDE DEF off
<1>2. ASSUME off \in Nat, e.ok PROVE Made(doc, e) /\ SameSlots(doc, e.doc)
  BY <1>2, OverwriteMade DEF Ready
<1> HIDE DEF e
<1>3. off \in Nat /\ e.ok => /\ Made(doc, e) /\ (exec.sel = None \/ NamesSame(e.doc, exec.sel))
                             /\ DocLen(e.doc) = DocLen(doc)
  BY <1>2, InPlaceNames
<1>4. Answers(Written(off, e, exec.sel))
  BY <1>1, <1>3, WrittenWorks
<1> QED BY <1>4 DEF Overwrite, off, e

LEMMA FillPatternWorks ==
    ASSUME Ready, NEW c, c.at \in Places, c.bytes \in Seq(Byte)
    PROVE  Answers(FillPattern(c))
<1> DEFINE off == Offset(doc, c.at)
           e == FillOverwrite(doc, off, c.bytes)
<1>1. off \in Int
  BY OffsetIs
<1> HIDE DEF off
<1>2. ASSUME off \in Nat, e.ok PROVE Made(doc, e) /\ SameSlots(doc, e.doc)
  BY <1>2, FillMade DEF Ready
<1> HIDE DEF e
<1>3. off \in Nat /\ e.ok => /\ Made(doc, e) /\ (exec.sel = None \/ NamesSame(e.doc, exec.sel))
                             /\ DocLen(e.doc) = DocLen(doc)
  BY <1>2, InPlaceNames
<1>4. Answers(Written(off, e, exec.sel))
  BY <1>1, <1>3, WrittenWorks
<1> QED BY <1>4 DEF FillPattern, off, e

LEMMA InsertWorks ==
    ASSUME Ready, NEW c, c.at \in Places, c.bytes \in Seq(Byte)
    PROVE  Answers(Insert(c))
<1> DEFINE off == Offset(doc, c.at)
           e == InsertRun(doc, off, c.bytes)
<1>1. off \in Int
  BY OffsetIs
<1> HIDE DEF off
<1>2. ASSUME off \in Nat, e.ok PROVE Made(doc, e) /\ (e.n = 0 => e.doc = doc)
  BY <1>2, InsertMade DEF Ready
<1> HIDE DEF e
<1>3. Answers(Written(off, e, None))
  BY <1>1, <1>2, WrittenWorks
<1> QED BY <1>3 DEF Insert, off, e

LEMMA DeleteWorks ==
    ASSUME Ready, NEW c, c.scope \in Scopes
    PROVE  Answers(Delete(c))
<1> DEFINE r == ScopeRange(doc, c.scope)
           start == From(doc, r)
           end == To(doc, r)
           m == end - start + 1
           e == IF c.real THEN RealDelete(doc, start, m) ELSE TombstoneDelete(doc, start, m)
           gone == c.real \/ (exec.sel # None /\ exec.sel.space = "logical")
           sel == IF gone THEN None ELSE exec.sel
           out == Became(e.doc, Clamped(e.doc, start), sel, e.ops, <<>>)
           there == ScopeKnown(c.scope)
<1>1. Delete(c) = IF ~ there THEN Failed
                  ELSE IF ~ InBounds(doc, r) THEN Failed
                  ELSE IF Nothing(doc, r) THEN Unchanged(<<>>)
                  ELSE out
  BY DEF Delete, OverScope
<1>2. ASSUME ScopeSlots(start, end) PROVE Answers(out)
  <2> HIDE DEF start, end
  <2>1. start \in Nat /\ m \in Nat \ {0} /\ start < DocLen(doc)
    BY <1>2, DocLenIs DEF ScopeSlots, Ready
  <2> HIDE DEF m
  <2>2. Made(doc, e) /\ (~ c.real => e.doc.cells = doc.cells)
    <3>1. CASE c.real
      <4>1. e = RealDelete(doc, start, m)
        BY <3>1
      <4>2. RealDelete(doc, start, m).ok
        <5>1. ~ (start >= DocLen(doc))
          BY <2>1, DocLenIs DEF Ready
        <5>2. RealDelete(doc, start, m) =
                Edited(Cut(doc, start, m), <<DeleteOp(start, CellsAt(doc, start, m))>>,
                       Len(CellsAt(doc, start, m)))
          BY <5>1 DEF RealDelete
        <5> QED BY <5>2 DEF Edited
      <4>3. Made(doc, RealDelete(doc, start, m))
        BY <2>1, <4>2, DeleteMade DEF Ready
      <4> QED BY <3>1, <4>1, <4>3
    <3>2. CASE ~ c.real
      <4>1. e = TombstoneDelete(doc, start, m)
        BY <3>2
      <4> HIDE DEF e
      <4> QED BY <2>1, <4>1, TombMade DEF Ready
    <3> QED BY <3>1, <3>2
  <2> HIDE DEF e
  <2>3. sel = None \/ NamesSame(e.doc, sel)
    <3>1. CASE gone
      BY <3>1
    <3>2. CASE ~ gone
      <4>1. sel = exec.sel /\ e.doc.cells = doc.cells
        BY <2>2, <3>2
      <4>2. CASE exec.sel = None
        BY <4>1, <4>2
      <4>3. CASE exec.sel # None
        <5>1. NamesSame(doc, exec.sel)
          BY <4>3 DEF Ready, Named
        <5>2. exec.sel.space = "display"
          BY <3>2, <4>3, <5>1 DEF NamesSame
        <5>3. NamesSame(e.doc, exec.sel)
          BY <4>1, <5>1, <5>2, SameNames
        <5> QED BY <4>1, <5>3
      <4> QED BY <4>2, <4>3
    <3> QED BY <3>1, <3>2
  <2>4. Fits(e.doc, Clamped(e.doc, start))
    <3>1. Sane(e.doc)
      BY <2>2 DEF Made, Becomes
    <3> QED BY <2>1, <3>1, ClampedFits
  <2> HIDE DEF sel
  <2>5. Works(out)
    BY <2>2, <2>3, <2>4, BecameWorks, EmptyValue
  <2> HIDE DEF out
  <2> QED BY <2>5 DEF Answers
<1>3. there <=> ScopeKnown(c.scope)
  OBVIOUS
<1> HIDE DEF out, there
<1> QED BY <1>1, <1>2, <1>3, ScopeWorks

LEMMA XorWorks ==
    ASSUME Ready, NEW c, c.scope \in Scopes
    PROVE  Answers(Xor(c))
<1> DEFINE r == ScopeRange(doc, c.scope)
           start == From(doc, r)
           end == To(doc, r)
           m == end - start + 1
           e == XorRange(doc, start, m)
           done == Became(e.doc, Clamped(e.doc, start), exec.sel, e.ops, <<>>)
           out == IF e.ok THEN done ELSE Failed
           there == ScopeKnown(c.scope)
<1>1. Xor(c) = IF ~ there THEN Failed
               ELSE IF ~ InBounds(doc, r) THEN Failed
               ELSE IF Nothing(doc, r) THEN Unchanged(<<>>)
               ELSE out
  BY DEF Xor, OverScope
<1>2. ASSUME ScopeSlots(start, end) PROVE Answers(out)
  <2> HIDE DEF start, end
  <2>1. start \in Nat /\ m \in Nat /\ start <= DocLen(doc)
    BY <1>2, DocLenIs DEF ScopeSlots, Ready
  <2> HIDE DEF m
  <2>2. CASE e.ok
    <3>1. Made(doc, e) /\ SameSlots(doc, e.doc)
      BY <2>1, <2>2, XorMade DEF Ready
    <3> HIDE DEF e
    <3>2. Sane(e.doc)
      BY <3>1 DEF Made, Becomes
    <3>3. Fits(e.doc, Clamped(e.doc, start))
      BY <2>1, <3>2, ClampedFits
    <3>4. exec.sel = None \/ NamesSame(e.doc, exec.sel)
      BY <3>1, InPlaceNames
    <3>5. Works(done)
      BY <3>1, <3>3, <3>4, BecameWorks, EmptyValue
    <3> QED BY <2>2, <3>5 DEF Answers
  <2>3. CASE ~ e.ok
    BY <2>3 DEF Answers
  <2> QED BY <2>2, <2>3
<1>3. there <=> ScopeKnown(c.scope)
  OBVIOUS
<1> HIDE DEF out, there
<1> QED BY <1>1, <1>2, <1>3, ScopeWorks

LEMMA ReplaceWorks ==
    ASSUME Ready, NEW c, c.scope \in Scopes, c.needle \in Seq(Byte), c.bytes \in Seq(Byte)
    PROVE  Answers(Replace(c))
<1> DEFINE r == ScopeRange(doc, c.scope)
           start == From(doc, r)
           end == To(doc, r)
           matches == MatchesIn(doc, start, end, c.needle)
           e == ReplaceRange(doc, start, end, c.needle, c.bytes, c.resize, c.force,
                             ReplaceLimit)
           sel == IF Len(c.needle) = Len(c.bytes) THEN exec.sel ELSE None
           done == Became(e.doc, Clamped(e.doc, Head(matches)), sel, e.ops, <<>>)
           out == IF ~e.ok THEN Failed
                  ELSE IF matches = <<>> THEN Unchanged(<<>>) ELSE done
           there == ScopeKnown(c.scope)
<1>1. Replace(c) = IF ~ there THEN Failed
                   ELSE IF ~ InBounds(doc, r) THEN Failed
                   ELSE IF Nothing(doc, r) THEN Unchanged(<<>>)
                   ELSE out
  BY DEF Replace, OverScope
<1>2. ASSUME ScopeSlots(start, end) PROVE Answers(out)
  <2> HIDE DEF start, end
  <2>1. start \in Nat /\ end \in Nat /\ start <= end
    BY <1>2 DEF ScopeSlots
  <2>2. matches \in Seq(start..end)
    BY <2>1, MatchesAre
  <2>3. CASE e.ok /\ matches # <<>>
    <3>1. Made(doc, e) /\ (Len(c.needle) = Len(c.bytes) => SameSlots(doc, e.doc))
      BY <2>1, <2>3, ReplaceMade DEF Ready
    <3> HIDE DEF e, matches
    <3>2. Sane(e.doc)
      BY <3>1 DEF Made, Becomes
    <3>3. Head(matches) \in Nat
      <4> DEFINE S == start..end
      <4>1. matches \in Seq(S) /\ matches # <<>>
        BY <2>2, <2>3
      <4> HIDE DEF S
      <4>2. Head(matches) \in S
        BY <4>1
      <4> QED BY <2>1, <4>2 DEF S
    <3>4. Fits(e.doc, Clamped(e.doc, Head(matches)))
      BY <3>2, <3>3, ClampedFits
    <3>5. sel = None \/ NamesSame(e.doc, sel)
      BY <3>1, InPlaceNames
    <3> HIDE DEF sel
    <3>6. Works(done)
      BY <3>1, <3>4, <3>5, BecameWorks, EmptyValue
    <3> QED BY <2>3, <3>6 DEF Answers
  <2>4. CASE ~ (e.ok /\ matches # <<>>)
    <3>1. Works(Unchanged(<<>>))
      BY UnchangedWorks, EmptyValue
    <3> HIDE DEF e, matches, done
    <3> QED BY <2>4, <3>1 DEF Answers
  <2> QED BY <2>3, <2>4
<1>3. there <=> ScopeKnown(c.scope)
  OBVIOUS
<1> HIDE DEF out, there
<1> QED BY <1>1, <1>2, <1>3, ScopeWorks

\* Every command but a save either fails and changes nothing, or its undo
\* record leads back, and what is selected is what was, or nothing.
LEMMA CommandWorks ==
    ASSUME Ready, NEW c, Usable(c), c.op \in Known \ {"save"}
    PROVE  Answers(ExecuteOne(c))
<1>1. Answers(CommandOutcome(c))
  <2>1. CASE c.op = "goto"
    BY <2>1, GotoWorks DEF CommandOutcome, Usable
  <2>2. CASE c.op = "select"
    BY <2>2, SelectWorks DEF CommandOutcome, Usable
  <2>3. CASE c.op = "clear"
    BY <2>3, ClearWorks DEF CommandOutcome, Usable
  <2>4. CASE c.op = "read"
    BY <2>4, ReadWorks DEF CommandOutcome, Usable
  <2>5. CASE c.op \in {"hash", "export"}
    BY <2>5, InspectWorks DEF CommandOutcome, Usable
  <2>6. CASE c.op = "search"
    BY <2>6, SearchWorks DEF CommandOutcome, Usable, HasBytes
  <2>7. CASE c.op = "overwrite"
    BY <2>7, OverwriteWorks DEF CommandOutcome, Usable, HasBytes
  <2>8. CASE c.op = "insert"
    BY <2>8, InsertWorks DEF CommandOutcome, Usable, HasBytes
  <2>9. CASE c.op = "delete"
    BY <2>9, DeleteWorks DEF CommandOutcome, Usable
  <2>10. CASE c.op = "fill"
    BY <2>10, FillPatternWorks DEF CommandOutcome, Usable, HasBytes
  <2>11. CASE c.op = "xor"
    BY <2>11, XorWorks DEF CommandOutcome, Usable
  <2>12. CASE c.op = "replace"
    BY <2>12, ReplaceWorks DEF CommandOutcome, Usable, HasBytes
  <2> QED BY <2>1, <2>2, <2>3, <2>4, <2>5, <2>6, <2>7, <2>8, <2>9, <2>10, <2>11, <2>12
      DEF Known
<1> QED BY <1>1 DEF ExecuteOne, Answers

(***************************************************************************)
(* Saving                                                                  *)
(***************************************************************************)

\* What the disk holds, and what of it the document still shows: the first
\* cells of a buffer of n.
FilesOf(disk, meant, path, view, len) ==
    [disk |-> disk, meant |-> meant, path |-> path, view |-> view, len |-> len]
WithDisk(f, x) == [f EXCEPT !.disk = x]
WithMeant(f, x) == [f EXCEPT !.meant = x]
WithPath(f, x) == [f EXCEPT !.path = x]
WithView(f, x) == [f EXCEPT !.view = x]
WithLen(f, x) == [f EXCEPT !.len = x]

FilesOk(f, n) ==
    /\ f = FilesOf(f.disk, f.meant, f.path, f.view, f.len)
    /\ f.len \in Nat /\ f.len <= n
    /\ f.disk \in [Entries -> Seq(Byte) \cup {None}]
    /\ f.disk[EntryOf[Opened]] \in Seq(Byte)
    /\ DOMAIN f.meant = Entries
    /\ f.path \in Names

\* A save that ended: a new document, with nothing to undo.
Saves(r) ==
    /\ r.ok /\ r.saved /\ r.ops = <<>> /\ r.value = <<>>
    /\ Sane(r.doc) /\ Named(r.doc, r.exec)
    /\ FilesOk(r.files, Len(r.doc.base))
    /\ History(r.files.len, <<>>, <<>>, Len(r.doc.base), r.doc)

\* A save that failed, perhaps with its file written or the path taken on.
Fails(r) ==
    /\ ~ r.ok /\ ~ r.saved /\ r.ops = <<>> /\ r.doc = doc /\ r.exec = exec
    /\ FilesOk(r.files, Len(doc.base)) /\ r.files.len = files.len

Storing == Ready /\ FilesOk(files, Len(doc.base))

LEMMA EntriesAre ==
    ASSUME NEW target \in Names
    PROVE  EntryOf[target] \in Entries /\ EntryOf[Opened] \in Entries
BY BatchConstants DEF Entries

LEMMA FailedFails ==
    ASSUME Storing
    PROVE  Fails(Failed)
BY FailedIs DEF Fails, Storing

\* One field of the files at a time.
LEMMA FilesBut ==
    ASSUME NEW a, NEW b, NEW p, NEW v, NEW l, NEW x
    PROVE  /\ WithDisk(FilesOf(a, b, p, v, l), x) = FilesOf(x, b, p, v, l)
           /\ WithMeant(FilesOf(a, b, p, v, l), x) = FilesOf(a, x, p, v, l)
           /\ WithPath(FilesOf(a, b, p, v, l), x) = FilesOf(a, b, x, v, l)
           /\ WithView(FilesOf(a, b, p, v, l), x) = FilesOf(a, b, p, x, l)
           /\ WithLen(FilesOf(a, b, p, v, l), x) = FilesOf(a, b, p, v, x)
BY DEF FilesOf, WithDisk, WithMeant, WithPath, WithView, WithLen

LEMMA FilesOfIs ==
    ASSUME NEW a, NEW b, NEW p, NEW v, NEW l, NEW f, f = FilesOf(a, b, p, v, l)
    PROVE  f.disk = a /\ f.meant = b /\ f.path = p /\ f.view = v /\ f.len = l
BY DEF FilesOf

\* The files with another content of one of them.
LEMMA FilesWith ==
    ASSUME NEW f, NEW n, FilesOk(f, n), NEW e \in Entries, NEW bytes \in Seq(Byte),
           NEW meant, DOMAIN meant = Entries, NEW g,
           g = WithMeant(WithDisk(f, [f.disk EXCEPT ![e] = bytes]), meant)
    PROVE  FilesOk(g, n) /\ g.len = f.len /\ g.disk[e] = bytes
<1> DEFINE disk == [f.disk EXCEPT ![e] = bytes]
<1>0. EntryOf[Opened] \in Entries
  BY BatchConstants DEF Entries
<1>1. f = FilesOf(f.disk, f.meant, f.path, f.view, f.len)
  BY DEF FilesOk
<1>2. /\ disk \in [Entries -> Seq(Byte) \cup {None}] /\ disk[e] = bytes
      /\ disk[EntryOf[Opened]] \in Seq(Byte)
  BY <1>0 DEF FilesOk
<1>3. g = WithMeant(WithDisk(f, disk), meant)
  OBVIOUS
<1> HIDE DEF disk
<1>4. g = FilesOf(disk, meant, f.path, f.view, f.len)
  <2>1. WithDisk(f, disk) = FilesOf(disk, f.meant, f.path, f.view, f.len)
    BY <1>1, FilesBut
  <2>2. WithMeant(FilesOf(disk, f.meant, f.path, f.view, f.len), meant)
        = FilesOf(disk, meant, f.path, f.view, f.len)
    BY FilesBut
  <2> QED BY <1>3, <2>1, <2>2
<1>5. /\ g.disk = disk /\ g.meant = meant /\ g.path = f.path /\ g.view = f.view
      /\ g.len = f.len
  BY <1>4, FilesOfIs
<1> QED BY <1>2, <1>4, <1>5 DEF FilesOk

LEMMA ReloadedSaves ==
    ASSUME Storing, NEW target \in Names, NEW f, FilesOk(f, Len(doc.base)),
           f.disk[EntryOf[target]] \in Seq(Byte)
    PROVE  Saves(Reloaded(f, target))
<1> DEFINE e == EntryOf[target]
           bytes == f.disk[e]
           d == DocOf(bytes)
           g == [f EXCEPT !.path = target, !.view = e, !.len = DocLen(d)]
           sel == IF exec.sel = None \/ ~InBounds(d, exec.sel) THEN None
                  ELSE [exec.sel EXCEPT !.cells = <<>>]
           x == [cursor |-> Clamped(d, exec.cursor), sel |-> sel]
           r == Reloaded(f, target)
<1>1. r = [ok |-> TRUE, saved |-> TRUE, doc |-> d, ops |-> <<>>, value |-> <<>>,
           files |-> g, exec |-> x]
  BY DEF Reloaded
<1>2. /\ History(Len(bytes), <<>>, <<>>, Len(bytes), d) /\ d \in Docs(Len(bytes))
      /\ Injective(d.cells) /\ d.base = bytes /\ DocLen(d) = Len(bytes)
  BY FreshDoc
<1>3. Len(bytes) \in Nat
  OBVIOUS
<1> HIDE DEF bytes, d, e
<1>4. Sane(d) /\ d.base = bytes
  BY <1>2 DEF Sane
<1>5. /\ g = FilesOf(f.disk, f.meant, target, e, DocLen(d))
      /\ g.disk = f.disk /\ g.meant = f.meant /\ g.path = target /\ g.view = e
      /\ g.len = DocLen(d)
  <2>1. f = FilesOf(f.disk, f.meant, f.path, f.view, f.len)
    BY DEF FilesOk
  <2>2. g = WithLen(WithView(WithPath(f, target), e), DocLen(d))
    BY DEF WithPath, WithView, WithLen
  <2> HIDE DEF g
  <2>3. WithPath(f, target) = FilesOf(f.disk, f.meant, target, f.view, f.len)
    BY <2>1, FilesBut
  <2>4. g = FilesOf(f.disk, f.meant, target, e, DocLen(d))
    BY <2>2, <2>3, FilesBut
  <2> QED BY <2>4, FilesOfIs
<1> HIDE DEF g
<1>6. FilesOk(g, Len(d.base))
  <2>1. g = FilesOf(g.disk, g.meant, g.path, g.view, g.len)
    BY <1>5
  <2> QED BY <1>2, <1>3, <1>5, <2>1 DEF FilesOk
<1>7. sel = None \/ NamesSame(d, sel)
  <2>1. CASE exec.sel # None
    <3> DEFINE s == exec.sel
               t == [s EXCEPT !.cells = <<>>]
    <3>1. NamesSame(doc, s)
      BY <2>1 DEF Storing, Ready, Named
    <3> HIDE DEF s
    <3>2. t = [space |-> s.space, start |-> s.start, len |-> s.len, cells |-> <<>>]
      BY <3>1 DEF NamesSame
    <3>3. t.space = s.space /\ t.start = s.start /\ t.len = s.len /\ t.cells = <<>>
      BY <3>2
    <3> HIDE DEF t
    <3>4. NamesSame(d, t)
      BY <3>1, <3>2, <3>3 DEF NamesSame
    <3> QED BY <3>4 DEF s, t
  <2> QED BY <2>1
<1> HIDE DEF sel
<1>8. Named(d, x)
  <2>1. exec.cursor \in Nat
    BY DEF Storing, Ready, Named, Fits
  <2>2. Fits(d, Clamped(d, exec.cursor))
    BY <1>4, <2>1, ClampedFits
  <2> QED BY <1>7, <2>2 DEF Named
<1>9. /\ r.ok = TRUE /\ r.saved = TRUE /\ r.doc = d /\ r.ops = <<>> /\ r.value = <<>>
      /\ r.files = g /\ r.exec = x
  BY <1>1
<1> HIDE DEF r, x
<1>10. g.len = Len(bytes) /\ Len(d.base) = Len(bytes)
  BY <1>2, <1>4, <1>5
<1>11. History(g.len, <<>>, <<>>, Len(d.base), d)
  BY <1>2, <1>10
<1> QED BY <1>4, <1>6, <1>8, <1>9, <1>11 DEF Saves, r

LEMMA NotReloadedFails ==
    ASSUME Storing, NEW target \in Names, NEW f, FilesOk(f, Len(doc.base)),
           f.len = files.len, NEW view
    PROVE  Fails(NotReloaded(f, target, view))
<1> DEFINE g == [f EXCEPT !.path = target, !.view = view]
           r == NotReloaded(f, target, view)
<1>1. r = [ok |-> FALSE, saved |-> FALSE, doc |-> doc, files |-> g,
           exec |-> exec, ops |-> <<>>, value |-> <<>>]
  <2>1. r = [Failed EXCEPT !.files = g]
    BY DEF NotReloaded
  <2> HIDE DEF g, r
  <2> QED BY <2>1, FailedIs
<1>2. /\ g = FilesOf(f.disk, f.meant, target, view, f.len)
      /\ g.disk = f.disk /\ g.meant = f.meant /\ g.path = target /\ g.view = view
      /\ g.len = f.len
  <2>1. f = FilesOf(f.disk, f.meant, f.path, f.view, f.len)
    BY DEF FilesOk
  <2>2. g = WithView(WithPath(f, target), view)
    BY DEF WithPath, WithView
  <2> HIDE DEF g
  <2>3. WithPath(f, target) = FilesOf(f.disk, f.meant, target, f.view, f.len)
    BY <2>1, FilesBut
  <2>4. g = FilesOf(f.disk, f.meant, target, view, f.len)
    BY <2>2, <2>3, FilesBut
  <2> QED BY <2>4, FilesOfIs
<1> HIDE DEF g
<1>3. FilesOk(g, Len(doc.base))
  <2>1. g = FilesOf(g.disk, g.meant, g.path, g.view, g.len)
    BY <1>2
  <2> QED BY <1>2, <2>1 DEF FilesOk
<1>4. /\ r.ok = FALSE /\ r.saved = FALSE /\ r.doc = doc /\ r.files = g /\ r.exec = exec
      /\ r.ops = <<>>
  BY <1>1
<1> HIDE DEF r
<1> QED BY <1>2, <1>3, <1>4 DEF Fails, r

\* What is written is a content: all of the bytes, or those that are left.
LEMMA ContentIs ==
    ASSUME Storing
    PROVE  LogicalBytes(doc) \in Seq(Byte) /\ AddedBytes(doc) \in Seq(Byte)
<1> DEFINE n == Len(doc.base)
           d == [doc EXCEPT !.tomb = @ \cup 1..files.len]
           tomb == doc.tomb \cup 1..files.len
<1>0. doc \in Docs(n) /\ n \in Nat /\ doc.tomb \in SUBSET (1..n)
  BY DocIs DEF Storing, Ready, Sane
<1>1. tomb \in SUBSET (1..n)
  <2>1. files.len \in Nat /\ files.len <= n
    BY DEF Storing, FilesOk
  <2> HIDE DEF n
  <2> QED BY <1>0, <2>1
<1>2. d = [doc EXCEPT !.tomb = tomb]
  OBVIOUS
<1> HIDE DEF n, tomb, d
<1>3. d \in Docs(n)
  BY <1>0, <1>1, <1>2, TombDoc
<1>4. LogicalBytes(doc) \in Seq(Byte) /\ LogicalBytes(d) \in Seq(Byte)
  BY <1>0, <1>3, LogicalIs
<1> QED BY <1>4 DEF AddedBytes, d

LEMMA PutIs ==
    ASSUME Storing, NEW target \in Names, NEW bytes \in Seq(Byte)
    PROVE  LET f == Put(EntryOf[target], bytes)
           IN  /\ FilesOk(f, Len(doc.base)) /\ f.len = files.len
               /\ f.disk[EntryOf[target]] \in Seq(Byte)
<1> DEFINE e == EntryOf[target]
           meant == [files.meant EXCEPT ![e] = LogicalBytes(doc)]
           f == Put(e, bytes)
<1>0. e \in Entries
  BY EntriesAre
<1>1. f = WithMeant(WithDisk(files, [files.disk EXCEPT ![e] = bytes]), meant)
  BY Zenon DEF Put, WithMeant, WithDisk
<1>2. DOMAIN meant = Entries
  BY DEF Storing, FilesOk
<1> HIDE DEF e, meant, f
<1>3. FilesOk(f, Len(doc.base)) /\ f.len = files.len /\ f.disk[e] = bytes
  BY <1>0, <1>1, <1>2, FilesWith DEF Storing
<1> QED BY <1>3 DEF e, f

\* What the disk is when the save of a file is cut short.
TornFiles(e, bytes) == [files EXCEPT !.disk[e] = bytes]

LEMMA TornIs ==
    ASSUME Storing, NEW e \in Entries, NEW bytes \in Seq(Byte)
    PROVE  LET f == TornFiles(e, bytes)
           IN  /\ FilesOk(f, Len(doc.base)) /\ f.len = files.len /\ f.path = files.path
               /\ f.disk = [files.disk EXCEPT ![e] = bytes] /\ f.meant = files.meant
<1> DEFINE disk == [files.disk EXCEPT ![e] = bytes]
           f == TornFiles(e, bytes)
<1>0. /\ files = FilesOf(files.disk, files.meant, files.path, files.view, files.len)
      /\ DOMAIN files.meant = Entries
  BY DEF Storing, FilesOk
<1>1. f = WithDisk(files, disk)
  BY Zenon DEF TornFiles, WithDisk
<1>2. f = FilesOf(disk, files.meant, files.path, files.view, files.len)
  <2> HIDE DEF f, disk
  <2> QED BY <1>0, <1>1, FilesBut
<1>3. f = WithMeant(WithDisk(files, disk), files.meant)
  <2> HIDE DEF f, disk
  <2> QED BY <1>1, <1>2, FilesBut
<1> HIDE DEF f
<1>4. f.disk = disk /\ f.meant = files.meant /\ f.path = files.path
  <2> HIDE DEF disk
  <2> QED BY <1>2, FilesOfIs
<1>5. FilesOk(f, Len(doc.base)) /\ f.len = files.len
  BY <1>0, <1>1, <1>3, FilesWith DEF Storing
<1> QED BY <1>4, <1>5 DEF f

LEMMA TornFails ==
    ASSUME Storing, NEW e \in Entries, NEW bytes \in Seq(Byte)
    PROVE  Fails([Failed EXCEPT !.files = TornFiles(e, bytes)])
<1> DEFINE f == TornFiles(e, bytes)
           r == [Failed EXCEPT !.files = f]
<1>1. FilesOk(f, Len(doc.base)) /\ f.len = files.len
  BY TornIs
<1> HIDE DEF f
<1>2. /\ r.ok = FALSE /\ r.saved = FALSE /\ r.doc = doc /\ r.files = f /\ r.exec = exec
      /\ r.ops = <<>>
  BY FailedIs
<1> HIDE DEF r
<1> QED BY <1>1, <1>2 DEF Fails, r, f

\* What was written by then is a content as well.
LEMMA ShortIs ==
    ASSUME NEW bytes \in Seq(Byte), NEW short \in Prefixes(bytes)
    PROVE  short \in Seq(Byte)
<1>1. PICK n \in 0..Len(bytes) : short = SubSeq(bytes, 1, n)
  BY DEF Prefixes
<1>2. n \in Nat /\ n <= Len(bytes)
  BY <1>1
<1> QED BY <1>1, <1>2, PrefixIs

\* A save ends or fails; it never leaves the document half way.
LEMMA SaveWorks ==
    ASSUME Storing, NEW c, Usable(c), c.op = "save", NEW r \in Save(c)
    PROVE  Saves(r) \/ Fails(r)
<1> DEFINE target == IF c.name = None THEN files.path ELSE c.name
           e == EntryOf[target]
           all == LogicalBytes(doc)
<1>0. target \in Names
  BY DEF Usable, Storing, FilesOk
<1>1. all \in Seq(Byte) /\ AddedBytes(doc) \in Seq(Byte) /\ e \in Entries /\ Fails(Failed)
  BY <1>0, ContentIs, EntriesAre, FailedFails
<1>2. r \in SaveOver(target) \/ r = Failed \/ r \in SaveInPlace(target)
  BY DEF Save
<1> HIDE DEF target
<1>3. CASE r \in SaveInPlace(target)
  <2> DEFINE f == Put(e, all)
  <2>1. FilesOk(f, Len(doc.base)) /\ f.len = files.len /\ f.disk[e] \in Seq(Byte)
    BY <1>0, <1>1, PutIs
  <2>2. r = Failed \/ r = Reloaded(f, target) \/ r = NotReloaded(f, target, None)
    BY <1>3 DEF SaveInPlace
  <2> HIDE DEF f, all
  <2>3. Saves(Reloaded(f, target))
    BY <1>0, <2>1, ReloadedSaves
  <2>4. Fails(NotReloaded(f, target, None))
    BY <1>0, <2>1, NotReloadedFails
  <2> QED BY <1>1, <2>2, <2>3, <2>4
<1>4. CASE r \in SaveOver(target)
  <2> DEFINE kept == IF e = files.view THEN {all, AddedBytes(doc)} ELSE {all}
             torn == UNION {Prefixes(bytes) \ {bytes} : bytes \in kept}
  <2>1. \A bytes \in kept : bytes \in Seq(Byte)
    BY <1>1
  <2>2. \/ r = Failed
        \/ \E bytes \in torn : r = [Failed EXCEPT !.files = TornFiles(e, bytes)]
        \/ \E bytes \in kept : r = Reloaded(Put(e, bytes), target)
        \/ \E bytes \in kept : r = NotReloaded(Put(e, bytes), target, files.view)
    BY <1>4 DEF SaveOver, TornFiles
  <2> HIDE DEF kept
  <2>3. \A bytes \in torn : bytes \in Seq(Byte)
    BY <2>1, ShortIs
  <2> HIDE DEF torn, e
  <2>4. \A bytes \in torn : Fails([Failed EXCEPT !.files = TornFiles(e, bytes)])
    BY <1>1, <2>3, TornFails
  <2> USE DEF e
  <2>5. ASSUME NEW bytes \in kept
        PROVE  /\ Saves(Reloaded(Put(e, bytes), target))
               /\ Fails(NotReloaded(Put(e, bytes), target, files.view))
    <3> DEFINE f == Put(e, bytes)
    <3>1. FilesOk(f, Len(doc.base)) /\ f.len = files.len /\ f.disk[e] \in Seq(Byte)
      BY <1>0, <2>1, <2>5, PutIs
    <3> HIDE DEF f
    <3>2. Saves(Reloaded(f, target)) /\ Fails(NotReloaded(f, target, files.view))
      BY <1>0, <3>1, ReloadedSaves, NotReloadedFails
    <3> QED BY <3>2 DEF f
  <2> QED BY <1>1, <2>2, <2>4, <2>5
<1> QED BY <1>1, <1>2, <1>3, <1>4

\* Every outcome of a command, with all that a batch makes of it.
LEMMA OutcomeWorks ==
    ASSUME Storing, NEW c, Usable(c), c.op \in Known, NEW r \in Outcomes(c)
    PROVE  Works(r) \/ Saves(r) \/ Fails(r)
<1>1. CASE c.op = "save"
  BY <1>1, SaveWorks DEF Outcomes
<1>2. CASE c.op # "save"
  <2>1. r = ExecuteOne(c)
    BY <1>2 DEF Outcomes
  <2>2. Answers(r)
    BY <1>2, <2>1, CommandWorks DEF Storing
  <2> QED BY <2>2, FailedFails DEF Answers
<1> QED BY <1>1, <1>2

(***************************************************************************)
(* Undo steps                                                              *)
(***************************************************************************)

\* The undo steps of batches, with operations on the cells 1..n.
Kept(n) == [ops : Seq(Ops(n)), from : Nat, to : Nat, shown : Seq(Byte \cup {None})]

LEMMA KeptIs ==
    ASSUME NEW n
    PROVE  /\ Records(Kept(n), n)
           /\ \A ops \in Seq(Ops(n)), from \in Nat, to \in Nat, shown \in Seq(Byte \cup {None}) :
                /\ Step(ops, from, to, shown) \in Kept(n)
                /\ Step(ops, from, to, shown).ops = ops /\ Step(ops, from, to, shown).from = from
                /\ Step(ops, from, to, shown).to = to /\ Step(ops, from, to, shown).shown = shown
BY DEF Records, Kept, Step

LEMMA KeptGrows ==
    ASSUME NEW n \in Nat, NEW k \in Nat, n <= k, NEW steps \in Seq(Kept(n))
    PROVE  steps \in Seq(Kept(k))
<1>1. \A op \in Ops(n) : op \in Ops(k)
  BY OpsGrow
<1>2. ASSUME NEW ops \in Seq(Ops(n)) PROVE ops \in Seq(Ops(k))
  BY <1>1
<1>3. ASSUME NEW s \in Kept(n) PROVE s \in Kept(k)
  BY <1>2 DEF Kept
<1> DEFINE A == Kept(n)
           B == Kept(k)
<1>4. steps \in Seq(A) /\ \A s \in A : s \in B
  BY <1>3
<1> HIDE DEF A, B
<1>5. steps \in Seq(B)
  BY <1>4
<1> QED BY <1>5 DEF B

LEMMA OpsWalk ==
    ASSUME NEW n, NEW S, Records(S, n), NEW steps \in Seq(S)
    PROVE  /\ OpsUpTo(steps) \in [0..Len(steps) -> Seq(Ops(n))]
           /\ OpsUpTo(steps)[0] = <<>>
           /\ \A i \in 1..Len(steps) : OpsUpTo(steps)[i] = OpsUpTo(steps)[i - 1] \o steps[i].ops
<1> DEFINE m == Len(steps)
           Of(i) == steps[i].ops
           X == Seq(Ops(n))
           step == [i \in 1..m |-> [x \in X |-> x \o Of(i)]]
           Is(f) == f = [i \in 0..m |->
                            IF i = 0 THEN <<>> ELSE f[i - 1] \o Of(i)]
           w == OpsUpTo(steps)
<1>0. m \in Nat /\ <<>> \in X
  OBVIOUS
<1>1. \A i \in 1..m : Of(i) \in X
  BY DEF Records
<1>2. w = CHOOSE g : Is(g)
  BY Zenon DEF OpsUpTo
<1> HIDE DEF m, Of, X, w
<1>3. ASSUME NEW i \in 1..m, NEW x \in X PROVE x \o Of(i) \in X
  BY <1>1, <1>3 DEF X
<1>4. step \in [1..m -> [X -> X]]
  BY <1>3
<1>5. ASSUME NEW i \in 1..m, NEW x \in X PROVE step[i][x] = x \o Of(i)
  OBVIOUS
<1> HIDE DEF step
<1>6. PICK f \in [0..m -> X] : Repeats(f, m, <<>>, step)
  BY <1>0, <1>4, Recursion
<1>7. f[0] = <<>> /\ \A i \in 1..m : f[i] = f[i - 1] \o Of(i)
  <2>1. ASSUME NEW i \in 1..m PROVE f[i] = f[i - 1] \o Of(i)
    <3>1. f[i - 1] \in X
      BY <1>0
    <3> QED BY <1>5, <1>6, <3>1 DEF Repeats
  <2> QED BY <1>6, <2>1 DEF Repeats
<1>8. Is(f)
  <2>1. \A i \in 0..m : i # 0 => i \in 1..m
    BY <1>0
  <2> QED BY <1>7, <2>1
<1>9. Is(w)
  <2> HIDE DEF Is
  <2> QED BY <1>2, <1>8, Zenon
<1>10. /\ w = [i \in 0..m |-> w[i]] /\ w[0] = <<>>
       /\ \A i \in 1..m : w[i] = w[i - 1] \o Of(i)
  <2>1. 0 \in 0..m /\ \A i \in 1..m : i \in 0..m /\ i # 0
    BY <1>0
  <2> QED BY <1>9, <2>1
<1> HIDE DEF Is
<1>11. w = f
  <2>1. \A i \in 1..m : f[i - 1] = w[i - 1] => f[i] = w[i]
    BY <1>7, <1>10
  <2>2. GoOnAlike(m, f, w)
    BY <1>7, <1>10, <2>1 DEF GoOnAlike
  <2> QED BY <1>0, <2>2, SameWalk
<1> QED BY <1>10, <1>11 DEF m, Of, X, w

LEMMA NoOps == OpsUpTo(<<>>)[0] = <<>>
<1>1. Records({}, 0) /\ <<>> \in Seq({}) /\ Len(<<>>) = 0
  BY DEF Records
<1> QED BY <1>1, OpsWalk

\* The operations of one step more.
LEMMA OpsOfOneMore ==
    ASSUME NEW n, NEW steps \in Seq(Kept(n)), NEW s \in Kept(n)
    PROVE  OpsUpTo(Append(steps, s))[Len(Append(steps, s))]
           = OpsUpTo(steps)[Len(steps)] \o s.ops
<1> DEFINE m == Len(steps)
           t == Append(steps, s)
           A == Kept(n)
           u == OpsUpTo(steps)
           v == OpsUpTo(t)
           T == {i \in 0..m : v[i] = u[i]}
<1>0. /\ m \in Nat /\ Len(t) = m + 1 /\ t[m + 1] = s /\ t \in Seq(A) /\ steps \in Seq(A)
      /\ Len(steps) = m /\ \A i \in 1..m : t[i] = steps[i]
  OBVIOUS
<1>1. Records(A, n)
  BY KeptIs
<1> HIDE DEF A, t, m
<1>2. /\ u[0] = <<>> /\ \A i \in 1..m : u[i] = u[i - 1] \o steps[i].ops
  BY <1>0, <1>1, OpsWalk
<1>3. /\ v[0] = <<>> /\ \A i \in 1..(m + 1) : v[i] = v[i - 1] \o t[i].ops
  BY <1>0, <1>1, OpsWalk
<1> HIDE DEF u, v
<1>4. 0 \in T
  BY <1>0, <1>2, <1>3
<1>5. ASSUME NEW i \in 1..m, i - 1 \in T PROVE i \in T
  <2>1. i \in 1..(m + 1) /\ i \in 0..m
    BY <1>0
  <2>2. v[i - 1] = u[i - 1]
    BY <1>5
  <2>3. v[i] = v[i - 1] \o t[i].ops /\ u[i] = u[i - 1] \o steps[i].ops /\ t[i] = steps[i]
    BY <1>0, <1>2, <1>3, <2>1
  <2> QED BY <2>1, <2>2, <2>3
<1> HIDE DEF T
<1>6. m \in T
  BY <1>0, <1>4, <1>5, UpTo
<1>7. v[m] = u[m]
  BY <1>6 DEF T
<1>8. v[m + 1] = v[m] \o t[m + 1].ops
  <2>1. PICK j \in 1..(m + 1) : j = m + 1 /\ j - 1 = m
    BY <1>0
  <2>2. v[j] = v[j - 1] \o t[j].ops
    BY <1>3
  <2> QED BY <2>1, <2>2
<1>9. v[m + 1] = u[m] \o s.ops
  BY <1>0, <1>7, <1>8
<1> QED BY <1>0, <1>9 DEF t, u, v, m

(***************************************************************************)
(* The batch that runs                                                     *)
(***************************************************************************)

Fields == {"kind", "group", "rollback", "initial", "groupFrom", "groupOps", "applied",
           "steps", "saved", "failed", "undone", "count", "bound", "before"}

\* What a batch is from its start on.
Shape(b, app) ==
    /\ DOMAIN b = Fields
    /\ b.kind \in {"macro", "script", "command"}
    /\ b.group \in BOOLEAN /\ b.rollback \in BOOLEAN /\ b.saved \in BOOLEAN
    /\ b.failed \in BOOLEAN
    /\ b.bound \in Seq(Byte) \cup {None}
    /\ b.rollback => b.kind = "macro" /\ ~ b.saved
    /\ b.kind = "script" => ~ b.group
    /\ app => b.kind # "command"

\* The document from which, and back to which, the edits of the batch lead: the
\* one it began with, in today's add buffer, or the one its last save left.
Began(b, d0, d) ==
    /\ Sane(d0) /\ Reaches(Len(d.base), d0, b.applied, d)
    /\ ~ b.saved => Display(d0) = b.before /\ Named(d0, b.initial)

\* What the batch has recorded of these edits.
Recording(b, d0, n) ==
    /\ b.group => /\ b.steps = <<>> /\ b.groupOps = b.applied
                  /\ b.groupOps # <<>> => /\ b.groupFrom.cursor \in Nat
                                          /\ b.groupFrom.shown = Display(d0)
    /\ ~ b.group => /\ b.groupOps = <<>> /\ b.steps \in Seq(Kept(n))
                    /\ b.applied = OpsUpTo(b.steps)[Len(b.steps)]
                    /\ b.steps # <<>> => Head(b.steps).shown = Display(d0)

\* The part of a stack that the batch goes on from.
Below(b, stack) == IF b.saved THEN <<>> ELSE stack

\* What is left to redo once steps have been pushed.
Ahead(steps, r) == IF steps = <<>> THEN r ELSE <<>>

\* The App's stacks u and r lead to d0, and with the steps of the batch to d.
Stacked(b, d0, d, u, r, len) ==
    /\ Below(b, u) \in Seq(Kept(Len(d.base))) /\ Below(b, r) \in Seq(Kept(Len(d.base)))
    /\ History(len, Below(b, u), Below(b, r), Len(d.base), d0)
    /\ ~ b.group => History(len, Below(b, u) \o b.steps, Ahead(b.steps, Below(b, r)),
                            Len(d.base), d)

RolledBack(b, d, x) ==
    /\ b.undone /\ Display(d) = b.before /\ x = b.initial
    /\ b.applied = <<>> /\ b.steps = <<>> /\ b.groupOps = <<>>

From0(b, d0, d, u, r, len, app) ==
    /\ Began(b, d0, d) /\ Recording(b, d0, Len(d.base))
    /\ app => Stacked(b, d0, d, u, r, len)

BatchOk(b, d, x, u, r, len, app) ==
    /\ Shape(b, app)
    /\ \E d0 : From0(b, d0, d, u, r, len, app)
    /\ b.failed /\ b.rollback => RolledBack(b, d, x)

\* The batch has gone on, or failed, but is the same.
Continues(b, g) ==
    /\ DOMAIN g = Fields /\ g.kind = b.kind /\ g.group = b.group /\ g.rollback = b.rollback
    /\ g.initial = b.initial /\ g.before = b.before

\* It has recorded the operations ops, of a command that began with the document
\* d and the cursor at from and left it at to.
Adds(b, g, ops, d, from, to) ==
    /\ g.applied = b.applied \o ops
    /\ ops = <<>> => /\ g.groupOps = b.groupOps /\ g.groupFrom = b.groupFrom
                     /\ g.steps = b.steps
    /\ ops # <<>> /\ b.group =>
            /\ g.groupOps = b.groupOps \o ops /\ g.steps = b.steps
            /\ g.groupFrom = IF b.groupOps = <<>>
                             THEN [cursor |-> from, shown |-> Display(d)]
                             ELSE b.groupFrom
    /\ ops # <<>> /\ ~ b.group =>
            /\ g.groupOps = b.groupOps
            /\ g.steps = Append(b.steps, Step(ops, from, to, Display(d)))

\* Operations that are none lead nowhere.
LEMMA NothingLeads ==
    ASSUME NEW n, NEW d, NEW e, Reaches(n, d, <<>>, e)
    PROVE  e = d
<1>1. d \in Docs(n) /\ e \in Docs(n) /\ UndoOps(e, <<>>) = Unfailed(d)
  BY DEF Reaches, Leads
<1>2. UndoOps(e, <<>>) = Unfailed(e)
  BY <1>1, NothingReaches DEF Reaches, Leads
<1> QED BY <1>1, <1>2 DEF Unfailed

\* A command that succeeds without a save.
LEMMA WorkedOk ==
    ASSUME Ready, NEW len \in Nat, NEW u, NEW r, NEW app, NEW b,
           BatchOk(b, doc, exec, u, r, len, app), ~ b.failed,
           NEW ops, NEW e, Becomes(doc, ops, e), NEW x, Named(e, x),
           NEW g, Continues(b, g), Adds(b, g, ops, doc, exec.cursor, x.cursor),
           g.saved = b.saved, g.failed = b.failed, g.bound \in Seq(Byte) \cup {None}
    PROVE  BatchOk(g, e, x, u, r, len, app)
<1> DEFINE n == Len(doc.base)
           k == Len(e.base)
           A == Below(b, u)
           Z == Below(b, r)
<1>0. /\ Shape(b, app) /\ Sane(doc) /\ doc \in Docs(n)
  BY DEF BatchOk, Ready, Sane
<1>1. PICK d0 : From0(b, d0, doc, u, r, len, app)
  BY DEF BatchOk
<1> DEFINE d1 == Extended(d0, e.base, Nowhere)
           d2 == Extended(doc, e.base, Nowhere)
<1>2. /\ Sane(d0) /\ Reaches(n, d0, b.applied, doc) /\ d0.base = doc.base
      /\ ~ b.saved => Display(d0) = b.before /\ Named(d0, b.initial)
  BY <1>1 DEF From0, Began, Reaches
<1>3. Becomes(d0, b.applied, doc)
  BY <1>2, ReachesBecomes
<1>4. Becomes(d0, b.applied \o ops, e)
  BY <1>3, BecomesJoin
<1>5. /\ Sane(d1) /\ d1.base = e.base /\ d1.cells = d0.cells /\ d1.tomb = d0.tomb
      /\ Display(d1) = Display(d0) /\ Reaches(k, d1, b.applied \o ops, e)
  BY <1>4, BecomesReaches
<1>6. /\ Reaches(k, d2, ops, e) /\ Display(d2) = Display(doc) /\ d2.base = e.base
  BY BecomesReaches
<1>7. n \in Nat /\ k \in Nat /\ n <= k
  BY DEF Becomes, Extension
<1>8. /\ ops \in Seq(Ops(k)) /\ exec.cursor \in Nat /\ x.cursor \in Nat
      /\ Display(doc) \in Seq(Byte \cup {None})
  BY <1>0, <1>6, DisplayIs DEF Reaches, Ready, Named, Fits
<1>9. b.applied = <<>> => doc = d0
  BY <1>2, NothingLeads
<1>10. Shape(g, app)
  BY <1>0 DEF Shape, Continues
<1>11. Began(g, d1, e)
  <2>1. ~ g.saved => Display(d1) = g.before /\ Named(d1, g.initial)
    BY <1>2, <1>5, SameNamed DEF Continues
  <2> QED BY <1>5, <2>1 DEF Began, Adds
<1> HIDE DEF d1, d2, n, k
<1>12. Recording(b, d0, n)
  BY <1>1 DEF From0, n
<1> DEFINE s == Step(ops, exec.cursor, x.cursor, Display(doc))
<1>13. s \in Kept(k) /\ s.ops = ops /\ s.shown = Display(doc)
  BY <1>8, KeptIs
<1> HIDE DEF s
<1>14. Recording(g, d1, k)
  <2>1. CASE b.group
    <3>1. b.steps = <<>> /\ b.groupOps = b.applied /\ g.group
      BY <1>12, <2>1 DEF Recording, Continues
    <3>2. b.groupOps # <<>> => b.groupFrom.cursor \in Nat /\ b.groupFrom.shown = Display(d0)
      BY <1>12, <2>1 DEF Recording
    <3>3. CASE ops = <<>>
      <4>1. g.applied = b.applied /\ g.groupOps = b.groupOps /\ g.groupFrom = b.groupFrom
            /\ g.steps = <<>>
        <5>1. b.applied \o <<>> = b.applied
          BY <1>2 DEF Reaches
        <5> QED BY <3>1, <3>3, <5>1 DEF Adds
      <4> QED BY <1>5, <3>1, <3>2, <4>1 DEF Recording
    <3>4. CASE ops # <<>>
      <4>1. g.applied = g.groupOps /\ g.steps = <<>>
        BY <2>1, <3>1, <3>4 DEF Adds
      <4>2. g.groupFrom = IF b.groupOps = <<>>
                          THEN [cursor |-> exec.cursor, shown |-> Display(doc)]
                          ELSE b.groupFrom
        BY <2>1, <3>4 DEF Adds
      <4>3. g.groupFrom.cursor \in Nat /\ g.groupFrom.shown = Display(d1)
        BY <1>5, <1>8, <1>9, <3>1, <3>2, <4>2
      <4> QED BY <3>1, <4>1, <4>3 DEF Recording
    <3> QED BY <3>3, <3>4
  <2>2. CASE ~ b.group
    <3>1. /\ b.groupOps = <<>> /\ b.steps \in Seq(Kept(n)) /\ ~ g.group
          /\ b.applied = OpsUpTo(b.steps)[Len(b.steps)]
          /\ b.steps # <<>> => Head(b.steps).shown = Display(d0)
      BY <1>12, <2>2 DEF Recording, Continues
    <3>2. b.steps \in Seq(Kept(k))
      BY <1>7, <3>1, KeptGrows
    <3>3. CASE ops = <<>>
      <4>1. g.applied = b.applied /\ g.groupOps = <<>> /\ g.steps = b.steps
        <5>1. b.applied \o <<>> = b.applied
          BY <1>2 DEF Reaches
        <5> QED BY <3>1, <3>3, <5>1 DEF Adds
      <4> QED BY <1>5, <3>1, <3>2, <4>1 DEF Recording
    <3>4. CASE ops # <<>>
      <4>1. g.groupOps = <<>> /\ g.steps = Append(b.steps, s) /\ g.applied = b.applied \o ops
        BY <2>2, <3>1, <3>4 DEF Adds, s
      <4>2. g.applied = OpsUpTo(g.steps)[Len(g.steps)]
        BY <1>13, <3>1, <3>2, <4>1, OpsOfOneMore
      <4>3. g.steps \in Seq(Kept(k))
        BY <1>13, <3>2, <4>1
      <4>4. Head(g.steps).shown = Display(d1)
        <5>1. CASE b.steps = <<>>
          <6>1. b.applied = <<>>
            BY <3>1, <5>1, NoOps
          <6>2. Head(g.steps) = s
            BY <1>13, <4>1, <5>1
          <6> QED BY <1>5, <1>9, <1>13, <6>1, <6>2
        <5>2. CASE b.steps # <<>>
          <6> DEFINE K == Kept(k)
          <6>1. b.steps \in Seq(K) /\ s \in K
            BY <1>13, <3>2
          <6> HIDE DEF K
          <6>2. Head(g.steps) = Head(b.steps)
            BY <4>1, <5>2, <6>1
          <6> QED BY <1>5, <3>1, <5>2, <6>2
        <5> QED BY <5>1, <5>2
      <4> QED BY <3>1, <4>1, <4>2, <4>3, <4>4 DEF Recording
    <3> QED BY <3>3, <3>4
  <2> QED BY <2>1, <2>2
<1>15. ASSUME app PROVE Stacked(g, d1, e, u, r, len)
  <2>1. /\ A \in Seq(Kept(n)) /\ Z \in Seq(Kept(n)) /\ History(len, A, Z, n, d0)
        /\ ~ b.group => History(len, A \o b.steps, Ahead(b.steps, Z), n, doc)
    BY <1>1, <1>15 DEF From0, Stacked, n
  <2>2. Below(g, u) = A /\ Below(g, r) = Z
    BY DEF Below
  <2> HIDE DEF A, Z
  <2>3. A \in Seq(Kept(k)) /\ Z \in Seq(Kept(k))
    BY <1>7, <2>1, KeptGrows
  <2>4. History(len, A, Z, k, d1)
    <3>1. Records(Kept(n), n) /\ n = Len(d0.base)
      BY <1>2, KeptIs DEF n
    <3> QED BY <1>4, <2>1, <3>1, HistoryBecomes DEF d1, k
  <2>5. ASSUME ~ b.group PROVE History(len, A \o g.steps, Ahead(g.steps, Z), k, e)
    <3> DEFINE B == A \o b.steps
               Y == Ahead(b.steps, Z)
               S == Kept(n)
    <3>1. b.steps \in Seq(S) /\ A \in Seq(S) /\ Z \in Seq(S)
      BY <1>12, <2>1, <2>5 DEF Recording
    <3>2. Records(S, n)
      BY KeptIs
    <3> HIDE DEF S
    <3>3. B \in Seq(S) /\ Y \in Seq(S)
      BY <3>1 DEF Ahead
    <3>4. History(len, B, Y, n, doc)
      BY <2>1, <2>5
    <3>5. /\ History(len, B, Y, k, d2)
          /\ \A step : step.ops = ops /\ step.shown = Display(doc)
                => History(len, Append(B, step), <<>>, k, e)
      <4> HIDE DEF B, Y
      <4> QED BY <3>2, <3>3, <3>4, HistoryBecomes DEF n, k, d2
    <3>6. CASE ops = <<>>
      <4>1. e = d2
        BY <1>6, <3>6, NothingLeads
      <4>2. g.steps = b.steps
        BY <3>6 DEF Adds
      <4> QED BY <3>5, <4>1, <4>2
    <3>7. CASE ops # <<>>
      <4>1. g.steps = Append(b.steps, s)
        BY <2>5, <3>7 DEF Adds, s
      <4>2. Append(B, s) = A \o g.steps
        <5> DEFINE K == Kept(k)
        <5>1. A \in Seq(K) /\ b.steps \in Seq(K) /\ s \in K
          <6>1. b.steps \in Seq(Kept(n))
            BY <1>12, <2>5 DEF Recording
          <6>2. b.steps \in Seq(Kept(k))
            BY <1>7, <6>1, KeptGrows
          <6> QED BY <1>13, <2>3, <6>2
        <5> DEFINE t == b.steps
        <5>2. t \in Seq(K)
          BY <5>1
        <5> HIDE DEF K, t
        <5>3. A \o Append(t, s) = Append(A \o t, s)
          BY <5>1, <5>2, AppendJoin
        <5>4. g.steps = Append(t, s)
          BY <4>1 DEF t
        <5> QED BY <5>3, <5>4 DEF t
      <4>3. g.steps # <<>>
        BY <3>1, <4>1
      <4> HIDE DEF B
      <4> QED BY <1>13, <3>5, <4>2, <4>3 DEF Ahead
    <3> QED BY <3>6, <3>7
  <2> QED BY <2>2, <2>3, <2>4, <2>5 DEF Stacked, Continues, k
<1>16. g.failed = FALSE
  BY <1>0 DEF Shape
<1>17. From0(g, d1, e, u, r, len, app)
  BY <1>11, <1>14, <1>15 DEF From0, k
<1> QED BY <1>10, <1>16, <1>17 DEF BatchOk

\* A save starts anew: with a document that has nothing to undo.
LEMMA SavedOk ==
    ASSUME NEW len \in Nat, NEW u, NEW r, NEW app, NEW b, Shape(b, app), ~ b.rollback,
           NEW d, Sane(d), NEW x, History(len, <<>>, <<>>, Len(d.base), d),
           NEW g, Continues(b, g), g.saved = TRUE, g.failed \in BOOLEAN,
           g.bound \in Seq(Byte) \cup {None},
           g.applied = <<>>, g.groupOps = <<>>, g.steps = <<>>
    PROVE  BatchOk(g, d, x, u, r, len, app)
<1> DEFINE k == Len(d.base)
<1>1. d \in Docs(k) /\ Reaches(k, d, <<>>, d)
  BY NothingReaches DEF Sane
<1>2. Shape(g, app)
  BY DEF Shape, Continues
<1>3. Began(g, d, d)
  BY <1>1 DEF Began
<1> HIDE DEF k
<1>4. <<>> \in Seq(Kept(k)) /\ Len(<<>>) = 0
  OBVIOUS
<1>5. Recording(g, d, k)
  BY <1>4, NoOps DEF Recording
<1>6. Stacked(g, d, d, u, r, len)
  <2>1. Below(g, u) = <<>> /\ Below(g, r) = <<>> /\ <<>> \o g.steps = <<>>
        /\ Ahead(g.steps, <<>>) = <<>>
    BY DEF Below, Ahead
  <2>2. History(len, <<>>, <<>>, k, d)
    BY DEF k
  <2> QED BY <1>4, <2>1, <2>2 DEF Stacked, k
<1>7. From0(g, d, d, u, r, len, app)
  BY <1>3, <1>5, <1>6 DEF From0, k
<1>8. g.rollback = FALSE
  BY DEF Continues, Shape
<1> QED BY <1>2, <1>7, <1>8 DEF BatchOk

\* A command that fails where nothing is rolled back.
LEMMA FailedOk ==
    ASSUME NEW len, NEW u, NEW r, NEW app, NEW d, NEW x, NEW b,
           BatchOk(b, d, x, u, r, len, app), ~ b.rollback,
           NEW g, Continues(b, g), g.saved = b.saved, g.failed \in BOOLEAN,
           g.bound = b.bound, g.applied = b.applied, g.groupOps = b.groupOps,
           g.groupFrom = b.groupFrom, g.steps = b.steps
    PROVE  BatchOk(g, d, x, u, r, len, app)
<1>1. Shape(b, app)
  BY DEF BatchOk
<1>2. PICK d0 : From0(b, d0, d, u, r, len, app)
  BY DEF BatchOk
<1>3. Shape(g, app) /\ ~ g.rollback
  BY <1>1 DEF Shape, Continues
<1>4. Began(g, d0, d)
  BY <1>2 DEF From0, Began, Continues
<1>5. Recording(g, d0, Len(d.base))
  BY <1>2 DEF From0, Recording, Continues
<1>6. Below(g, u) = Below(b, u) /\ Below(g, r) = Below(b, r)
  BY DEF Below
<1>7. app => Stacked(g, d0, d, u, r, len)
  BY <1>2, <1>6 DEF From0, Stacked, Continues
<1>8. From0(g, d0, d, u, r, len, app)
  BY <1>4, <1>5, <1>7 DEF From0
<1> QED BY <1>3, <1>8 DEF BatchOk

\* A macro that fails and rolls back is at the document it began with.
LEMMA RolledBackOk ==
    ASSUME NEW len, NEW u, NEW r, NEW app, NEW d, NEW x, NEW b,
           BatchOk(b, d, x, u, r, len, app), b.rollback
    PROVE  LET back == UndoOps(d, b.applied)
           IN  /\ Sane(back.doc) /\ back.doc.base = d.base /\ Named(back.doc, b.initial)
               /\ \A g : /\ Continues(b, g) /\ g.saved = b.saved /\ g.failed \in BOOLEAN
                         /\ g.bound = b.bound /\ g.undone = back.ok
                         /\ g.applied = <<>> /\ g.groupOps = <<>> /\ g.steps = <<>>
                    => BatchOk(g, back.doc, b.initial, u, r, len, app)
<1> DEFINE back == UndoOps(d, b.applied)
           k == Len(d.base)
<1>1. Shape(b, app)
  BY DEF BatchOk
<1>2. PICK d0 : From0(b, d0, d, u, r, len, app)
  BY DEF BatchOk
<1>3. b.saved = FALSE
  BY <1>1 DEF Shape
<1>4. /\ Sane(d0) /\ Reaches(k, d0, b.applied, d) /\ d0.base = d.base
      /\ Display(d0) = b.before /\ Named(d0, b.initial)
  BY <1>2, <1>3 DEF From0, Began, Reaches
<1>5. back.doc = d0 /\ back.ok = TRUE
  BY <1>4 DEF Reaches, Leads, Unfailed
<1> HIDE DEF back
<1>6. ASSUME NEW g, Continues(b, g), g.saved = b.saved, g.failed \in BOOLEAN,
             g.bound = b.bound, g.undone = back.ok,
             g.applied = <<>>, g.groupOps = <<>>, g.steps = <<>>
      PROVE  BatchOk(g, d0, b.initial, u, r, len, app)
  <2>1. Shape(g, app)
    BY <1>1, <1>6 DEF Shape, Continues
  <2>2. Reaches(k, d0, <<>>, d0)
    BY <1>4, NothingReaches DEF Reaches
  <2>3. Began(g, d0, d0)
    BY <1>4, <1>6, <2>2 DEF Began, Continues
  <2>4. <<>> \in Seq(Kept(k)) /\ Len(<<>>) = 0
    OBVIOUS
  <2> HIDE DEF k
  <2>5. Recording(g, d0, k)
    BY <1>6, <2>4, NoOps DEF Recording
  <2>6. ASSUME app PROVE Stacked(g, d0, d0, u, r, len)
    <3> DEFINE A == Below(b, u)
               Z == Below(b, r)
    <3>1. A \in Seq(Kept(k)) /\ Z \in Seq(Kept(k)) /\ History(len, A, Z, k, d0)
      BY <1>2, <2>6 DEF From0, Stacked, k
    <3>2. Below(g, u) = A /\ Below(g, r) = Z
      BY <1>6 DEF Below
    <3> HIDE DEF A, Z
    <3>3. A \o g.steps = A /\ Ahead(g.steps, Z) = Z
      BY <1>6, <3>1 DEF Ahead
    <3>4. History(len, A \o g.steps, Ahead(g.steps, Z), k, d0)
      BY <3>1, <3>3
    <3>5. k = Len(d0.base)
      BY <1>4 DEF k
    <3> QED BY <3>1, <3>2, <3>4, <3>5 DEF Stacked
  <2>7. From0(g, d0, d0, u, r, len, app)
    <3>1. k = Len(d0.base)
      BY <1>4 DEF k
    <3> QED BY <2>3, <2>5, <2>6, <3>1 DEF From0
  <2>8. RolledBack(g, d0, b.initial)
    BY <1>4, <1>5, <1>6 DEF RolledBack, Continues
  <2> QED BY <2>1, <2>7, <2>8 DEF BatchOk
<1> QED BY <1>4, <1>5, <1>6 DEF back

\* A batch that has just begun.
LEMMA BegunOk ==
    ASSUME Sane(doc), NEW x, Named(doc, x), NEW len, NEW u, NEW r, NEW app,
           app => /\ u \in Seq(Kept(Len(doc.base))) /\ r \in Seq(Kept(Len(doc.base)))
                  /\ History(len, u, r, Len(doc.base), doc),
           NEW kind \in {"macro", "script", "command"}, NEW group \in BOOLEAN,
           NEW rollback \in BOOLEAN, rollback => kind = "macro",
           kind = "script" => ~ group, app => kind # "command"
    PROVE  BatchOk(NewBatch(kind, group, rollback, x), doc, x, u, r, len, app)
<1> DEFINE k == Len(doc.base)
           g == NewBatch(kind, group, rollback, x)
<1>1. doc \in Docs(k) /\ Reaches(k, doc, <<>>, doc)
  BY NothingReaches DEF Sane
<1>2. /\ DOMAIN g = Fields /\ g.kind = kind /\ g.group = group /\ g.rollback = rollback
      /\ g.initial = x /\ g.groupOps = <<>> /\ g.applied = <<>> /\ g.steps = <<>>
      /\ g.saved = FALSE /\ g.failed = FALSE /\ g.bound = None /\ g.before = Display(doc)
  BY DEF NewBatch, Fields
<1> HIDE DEF g
<1>3. Shape(g, app)
  BY <1>2 DEF Shape
<1>4. Began(g, doc, doc)
  BY <1>1, <1>2 DEF Began
<1> HIDE DEF k
<1>5. <<>> \in Seq(Kept(k)) /\ Len(<<>>) = 0
  OBVIOUS
<1>6. Recording(g, doc, k)
  BY <1>2, <1>5, NoOps DEF Recording
<1>7. ASSUME app PROVE Stacked(g, doc, doc, u, r, len)
  <2>1. u \in Seq(Kept(k)) /\ r \in Seq(Kept(k)) /\ History(len, u, r, k, doc)
    BY <1>7 DEF k
  <2>2. Below(g, u) = u /\ Below(g, r) = r
    BY <1>2 DEF Below
  <2>3. u \o g.steps = u /\ Ahead(g.steps, r) = r
    BY <1>2, <2>1 DEF Ahead
  <2>4. History(len, u \o g.steps, Ahead(g.steps, r), k, doc)
    BY <2>1, <2>3
  <2> QED BY <2>1, <2>2, <2>4 DEF Stacked, k
<1>8. From0(g, doc, doc, u, r, len, app)
  BY <1>4, <1>6, <1>7 DEF From0, k
<1> QED BY <1>2, <1>3, <1>8 DEF BatchOk, g

(***************************************************************************)
(* What a batch reports                                                    *)
(***************************************************************************)

\* A step pushed for all that the batch has done.
LEMMA WholePushed ==
    ASSUME NEW d, NEW u, NEW r, NEW len, NEW b, NEW d0, Sane(d),
           Began(b, d0, d), Stacked(b, d0, d, u, r, len),
           NEW from \in Nat, NEW to \in Nat
    PROVE  LET s == Step(b.applied, from, to, Display(d0))
           IN  /\ <<s>> \in Seq(Kept(Len(d.base)))
               /\ History(len, Below(b, u) \o <<s>>, <<>>, Len(d.base), d)
<1> DEFINE k == Len(d.base)
           s == Step(b.applied, from, to, Display(d0))
           A == Below(b, u)
           Z == Below(b, r)
           S == Kept(k)
<1>1. /\ Reaches(k, d0, b.applied, d) /\ b.applied \in Seq(Ops(k)) /\ d0 \in Docs(k)
  BY DEF Began, Reaches
<1>2. A \in Seq(S) /\ Z \in Seq(S) /\ History(len, A, Z, k, d0)
  BY DEF Stacked
<1> HIDE DEF k
<1>3. s \in S /\ s.ops = b.applied /\ s.shown = Display(d0)
  <2>1. Display(d0) \in Seq(Byte \cup {None})
    BY <1>1, DisplayIs
  <2> QED BY <1>1, <2>1, KeptIs
<1> HIDE DEF A, Z, S, s
<1>4. History(len, Append(A, s), <<>>, k, d)
  BY <1>1, <1>2, <1>3, HistoryPushes
<1>5. Append(A, s) = A \o <<s>> /\ <<s>> \in Seq(S)
  BY <1>2, <1>3
<1>6. /\ <<s>> \in Seq(S) /\ History(len, A \o <<s>>, <<>>, k, d)
  BY <1>4, <1>5
<1> QED BY <1>6 DEF k, s, A, S

\* The stacks with these steps pushed.
Pushed(b, steps, d, u, r, len) ==
    /\ steps \in Seq(Kept(Len(d.base)))
    /\ Below(b, u) \in Seq(Kept(Len(d.base))) /\ Below(b, r) \in Seq(Kept(Len(d.base)))
    /\ History(len, Below(b, u) \o steps, Ahead(steps, Below(b, r)), Len(d.base), d)

LEMMA ReportOk ==
    ASSUME NEW d, Sane(d), NEW x, NEW u, NEW r, NEW len, NEW b,
           BatchOk(b, d, x, u, r, len, TRUE), NEW to \in Nat
    PROVE  Pushed(b, Report(b, to), d, u, r, len)
<1> DEFINE k == Len(d.base)
           A == Below(b, u)
           Z == Below(b, r)
<1>1. PICK d0 : From0(b, d0, d, u, r, len, TRUE)
  BY DEF BatchOk
<1>2. Began(b, d0, d) /\ Recording(b, d0, k) /\ Stacked(b, d0, d, u, r, len)
  BY <1>1 DEF From0
<1>3. A \in Seq(Kept(k)) /\ Z \in Seq(Kept(k)) /\ History(len, A, Z, k, d0)
  BY <1>2 DEF Stacked
<1>4. CASE ~ b.group
  <2>1. b.groupOps = <<>> /\ b.steps \in Seq(Kept(k))
    BY <1>2, <1>4 DEF Recording
  <2>2. Report(b, to) = b.steps
    BY <2>1 DEF Report
  <2>3. History(len, A \o b.steps, Ahead(b.steps, Z), k, d)
    BY <1>2, <1>4 DEF Stacked
  <2> QED BY <1>3, <2>1, <2>2, <2>3 DEF Pushed
<1>5. CASE b.group
  <2>1. /\ b.steps = <<>> /\ b.groupOps = b.applied
        /\ b.groupOps # <<>> => b.groupFrom.cursor \in Nat /\ b.groupFrom.shown = Display(d0)
    BY <1>2, <1>5 DEF Recording
  <2>2. CASE b.groupOps = <<>>
    <3>1. Report(b, to) = <<>>
      BY <2>1, <2>2 DEF Report
    <3>2. d = d0
      BY <1>2, <2>1, <2>2, NothingLeads DEF Began
    <3> HIDE DEF A, Z, k
    <3>3. <<>> \in Seq(Kept(k)) /\ A \o <<>> = A /\ Ahead(<<>>, Z) = Z
      BY <1>3 DEF Ahead
    <3>4. History(len, A \o <<>>, Ahead(<<>>, Z), k, d)
      BY <1>3, <3>2, <3>3
    <3> QED BY <1>3, <3>1, <3>3, <3>4 DEF Pushed, A, Z, k
  <2>3. CASE b.groupOps # <<>>
    <3> DEFINE from == b.groupFrom.cursor
               s == Step(b.applied, from, to, Display(d0))
    <3>1. from \in Nat /\ b.groupFrom.shown = Display(d0)
      BY <2>1, <2>3
    <3>2. Report(b, to) = <<s>>
      <4>1. Report(b, to) = Append(<<>>, s)
        BY <2>1, <2>3, <3>1 DEF Report
      <4> HIDE DEF s
      <4> QED BY <4>1
    <3> HIDE DEF from
    <3>3. <<s>> \in Seq(Kept(k)) /\ History(len, A \o <<s>>, <<>>, k, d)
      BY <1>2, <3>1, WholePushed
    <3> HIDE DEF s
    <3>4. Ahead(<<s>>, Z) = <<>>
      BY DEF Ahead
    <3> QED BY <1>3, <3>2, <3>3, <3>4 DEF Pushed
  <2> QED BY <2>2, <2>3
<1>6. b.group \in BOOLEAN
  BY DEF BatchOk, Shape
<1> QED BY <1>4, <1>5, <1>6

\* The steps of a script become one.
LEMMA MergedOk ==
    ASSUME NEW d, Sane(d), NEW x, NEW u, NEW r, NEW len, NEW b,
           BatchOk(b, d, x, u, r, len, TRUE), b.kind = "script", NEW to \in Nat
    PROVE  Pushed(b, Merged(Report(b, to)), d, u, r, len)
<1> DEFINE k == Len(d.base)
           A == Below(b, u)
           Z == Below(b, r)
           steps == b.steps
<1>1. PICK d0 : From0(b, d0, d, u, r, len, TRUE)
  BY DEF BatchOk
<1>2. Began(b, d0, d) /\ Recording(b, d0, k) /\ Stacked(b, d0, d, u, r, len)
  BY <1>1 DEF From0
<1>3. ~ b.group
  BY DEF BatchOk, Shape
<1>4. /\ b.groupOps = <<>> /\ steps \in Seq(Kept(k))
      /\ b.applied = OpsUpTo(steps)[Len(steps)]
      /\ steps # <<>> => Head(steps).shown = Display(d0)
  BY <1>2, <1>3 DEF Recording
<1>5. Report(b, to) = steps
  BY <1>4 DEF Report
<1>6. CASE steps = <<>>
  <2>1. Merged(Report(b, to)) = Report(b, to)
    BY <1>5, <1>6 DEF Merged
  <2> QED BY <2>1, ReportOk
<1>7. CASE steps # <<>>
  <2> DEFINE from == Head(steps).from
             last == Last(steps).to
             s == Step(b.applied, from, last, Display(d0))
  <2>1. Merged(Report(b, to)) = <<s>>
    <3> HIDE DEF from, last, steps
    <3> QED BY <1>4, <1>5, <1>7 DEF Merged, from, last
  <2>2. from \in Nat /\ last \in Nat
    <3> HIDE DEF steps
    <3>1. Len(steps) \in 1..Len(steps) /\ 1 \in 1..Len(steps)
      BY <1>4, <1>7
    <3>2. steps[1] \in Kept(k) /\ steps[Len(steps)] \in Kept(k)
      BY <1>4, <3>1
    <3>3. steps[1].from \in Nat /\ steps[Len(steps)].to \in Nat
      BY <3>2 DEF Kept
    <3>4. Head(steps) = steps[1] /\ Last(steps) = steps[Len(steps)]
      BY <1>4, <1>7 DEF Last
    <3> QED BY <3>3, <3>4
  <2> HIDE DEF from, last
  <2>3. <<s>> \in Seq(Kept(k)) /\ History(len, A \o <<s>>, <<>>, k, d)
    BY <1>2, <2>2, WholePushed
  <2> HIDE DEF s
  <2>4. Ahead(<<s>>, Z) = <<>>
    BY DEF Ahead
  <2>5. A \in Seq(Kept(k)) /\ Z \in Seq(Kept(k))
    BY <1>2 DEF Stacked
  <2> QED BY <2>1, <2>3, <2>4, <2>5 DEF Pushed
<1> QED BY <1>6, <1>7

(***************************************************************************)
(* The inductive invariant                                                 *)
(***************************************************************************)

InApp == profile.front = "app"

StacksOk ==
    /\ Fits(doc, cursor)
    /\ undo \in Seq(Kept(Len(doc.base))) /\ redo \in Seq(Kept(Len(doc.base)))
    /\ History(files.len, undo, redo, Len(doc.base), doc)

BatchesInv ==
    /\ profile \in Profiles /\ Sane(doc) /\ FilesOk(files, Len(doc.base))
    /\ anchor \in Nat \cup {None}
    /\ ~ InApp => undo = <<>> /\ redo = <<>>
    /\ ~ InApp \/ batch # NoBatch => Named(doc, exec)
    /\ InApp /\ batch = NoBatch => StacksOk
    /\ batch # NoBatch => BatchOk(batch, doc, exec, undo, redo, files.len, InApp)

LEMMA ProfileIs ==
    ASSUME NEW p \in Profiles
    PROVE  /\ p.front \in {"app", "headless"} /\ p.content \in Seq(Byte)
           /\ \A c \in p.commands : c \in Commands
           /\ \A m \in p.macros : m.group \in BOOLEAN /\ m.rollback \in BOOLEAN
BY BatchConstants DEF Policies

\* What the App hands over names what its cursor and its anchor span.
LEMMA HandedOverNames ==
    ASSUME BatchesInv, batch = NoBatch
    PROVE  Named(doc, HandedOver)
<1>1. CASE InApp
  <2> DEFINE sel == ActiveSelection
             x == [cursor |-> cursor, sel |-> sel]
  <2>1. HandedOver = x /\ cursor \in Nat /\ Fits(doc, cursor)
    BY <1>1 DEF HandedOver, InApp, BatchesInv, StacksOk, Fits
  <2>2. sel = None \/ NamesSame(doc, sel)
    <3>1. CASE anchor # None
      <4> DEFINE start == Least(anchor, cursor)
                 len == anchor + cursor - 2 * start + 1
                 range == DisplayRange(start, len)
      <4>1. anchor \in Nat
        BY <3>1 DEF BatchesInv
      <4>2. start \in Nat /\ len \in Nat
        BY <2>1, <4>1 DEF Least
      <4>3. sel = Selection(doc, range)
        BY <3>1 DEF ActiveSelection
      <4> HIDE DEF start, len, sel
      <4>4. range.space = "display" /\ range.start = start /\ range.len = len
        BY DEF DisplayRange
      <4> HIDE DEF range
      <4> QED BY <4>2, <4>3, <4>4, SelectionNames
    <3>2. CASE anchor = None
      BY <3>2 DEF ActiveSelection
    <3> QED BY <3>1, <3>2
  <2> HIDE DEF sel
  <2>3. x = [cursor |-> x.cursor, sel |-> x.sel] /\ x.cursor = cursor /\ x.sel = sel
    OBVIOUS
  <2> HIDE DEF x
  <2> QED BY <2>1, <2>2, <2>3 DEF Named
<1>2. CASE ~ InApp
  <2>1. HandedOver = exec
    BY <1>2 DEF HandedOver, InApp
  <2> QED BY <1>2, <2>1 DEF BatchesInv
<1> QED BY <1>1, <1>2

\* A batch of any kind begins.
LEMMA StartsSafe ==
    ASSUME BatchesInv, batch = NoBatch, NEW kind \in {"macro", "script", "command"},
           NEW group \in BOOLEAN, NEW rollback \in BOOLEAN, rollback => kind = "macro",
           kind = "script" => ~ group, InApp => kind # "command",
           Named(doc, exec'), batch' = NewBatch(kind, group, rollback, exec'),
           UNCHANGED <<profile, doc, files, App>>
    PROVE  BatchesInv'
<1>1. BatchOk(batch', doc, exec', undo, redo, files.len, InApp)
  <2>1. /\ Sane(doc)
        /\ InApp => /\ undo \in Seq(Kept(Len(doc.base))) /\ redo \in Seq(Kept(Len(doc.base)))
                    /\ History(files.len, undo, redo, Len(doc.base), doc)
    BY DEF BatchesInv, StacksOk
  <2> DEFINE x == exec'
             len == files.len
             app == InApp
  <2>2. Named(doc, x) /\ batch' = NewBatch(kind, group, rollback, x)
    OBVIOUS
  <2> HIDE DEF x, len, app
  <2>3. app => /\ undo \in Seq(Kept(Len(doc.base))) /\ redo \in Seq(Kept(Len(doc.base)))
               /\ History(len, undo, redo, Len(doc.base), doc)
    BY <2>1 DEF app, len
  <2>4. app => kind # "command"
    BY DEF app
  <2>5. BatchOk(NewBatch(kind, group, rollback, x), doc, x, undo, redo, len, app)
    BY <2>1, <2>2, <2>3, <2>4, BegunOk
  <2> QED BY <2>2, <2>5 DEF x, len, app
<1>2. batch' # NoBatch
  <2>1. batch'.kind = kind
    BY DEF NewBatch
  <2> QED BY <2>1 DEF NoBatch
<1>3. /\ profile' = profile /\ doc' = doc /\ files' = files /\ anchor' = anchor
      /\ undo' = undo /\ redo' = redo
  BY DEF App
<1>4. InApp' <=> InApp
  BY <1>3 DEF InApp
<1> QED BY <1>1, <1>2, <1>3, <1>4 DEF BatchesInv

LEMMA MacroStarts ==
    ASSUME BatchesInv, NEW m \in profile.macros, UNCHANGED profile,
           StartMacro(m.selection, m.group, m.rollback)
    PROVE  BatchesInv'
<1>1. m.group \in BOOLEAN /\ m.rollback \in BOOLEAN
  BY ProfileIs DEF BatchesInv
<1>2. batch = NoBatch /\ UNCHANGED <<doc, files, App>>
      /\ batch' = NewBatch("macro", m.group, m.rollback, exec')
      /\ exec' = IF m.selection = "clear" THEN [HandedOver EXCEPT !.sel = None] ELSE HandedOver
  BY DEF StartMacro
<1> DEFINE x == HandedOver
           y == [x EXCEPT !.sel = None]
<1>3. Named(doc, x)
  BY <1>2, HandedOverNames
<1> HIDE DEF x
<1>4. Named(doc, y)
  <2>1. PICK a, b : x = [cursor |-> a, sel |-> b]
    BY <1>3 DEF Named
  <2>2. y = [cursor |-> a, sel |-> None]
    BY <2>1
  <2>3. y.cursor = a /\ y.sel = None /\ x.cursor = a
    BY <2>1, <2>2
  <2> HIDE DEF y
  <2> QED BY <1>3, <2>2, <2>3 DEF Named
<1>5. exec' = y \/ exec' = x
  BY <1>2 DEF x
<1>6. Named(doc, exec')
  <2> HIDE DEF y
  <2> QED BY <1>3, <1>4, <1>5
<1> QED BY <1>1, <1>2, <1>6, StartsSafe

LEMMA ScriptStarts ==
    ASSUME BatchesInv, UNCHANGED profile, StartScript
    PROVE  BatchesInv'
<1>1. batch = NoBatch /\ UNCHANGED <<doc, files, App>> /\ exec' = HandedOver
      /\ batch' = NewBatch("script", FALSE, FALSE, exec')
  BY DEF StartScript
<1>2. Named(doc, exec')
  BY <1>1, HandedOverNames
<1> QED BY <1>1, <1>2, StartsSafe

LEMMA CommandStarts ==
    ASSUME BatchesInv, UNCHANGED profile, StartCommand
    PROVE  BatchesInv'
<1>1. batch = NoBatch /\ UNCHANGED <<doc, files, exec, App>> /\ ~ InApp
      /\ batch' = NewBatch("command", TRUE, FALSE, exec)
  BY DEF StartCommand, InApp
<1>2. exec' = exec /\ batch' = NewBatch("command", TRUE, FALSE, exec')
  BY <1>1
<1>3. Named(doc, exec')
  BY <1>1, <1>2 DEF BatchesInv
<1> QED BY <1>1, <1>2, <1>3, StartsSafe

(***************************************************************************)
(* Steps of a batch                                                        *)
(***************************************************************************)

LEMMA RunningIs ==
    ASSUME BatchesInv, batch # NoBatch
    PROVE  /\ Storing /\ Shape(batch, InApp) /\ files.len \in Nat
           /\ BatchOk(batch, doc, exec, undo, redo, files.len, InApp)
BY DEF BatchesInv, Storing, Ready, BatchOk, FilesOk

\* The batch goes on.
LEMMA GoesOnSafe ==
    ASSUME BatchesInv, batch # NoBatch, UNCHANGED profile, UNCHANGED App,
           Sane(doc'), FilesOk(files', Len(doc'.base)), Named(doc', exec'),
           BatchOk(batch', doc', exec', undo, redo, files'.len, InApp)
    PROVE  BatchesInv'
<1>1. profile' = profile /\ anchor' = anchor /\ undo' = undo /\ redo' = redo
  BY DEF App
<1>2. InApp' <=> InApp
  BY <1>1 DEF InApp
<1>3. batch' # NoBatch
  <2>1. batch'.kind \in {"macro", "script", "command"}
    BY DEF BatchOk, Shape
  <2> QED BY <2>1 DEF NoBatch
<1> QED BY <1>1, <1>2, <1>3 DEF BatchesInv

Counted(b, count, value) == [b EXCEPT !.count = count, !.bound = value]

\* What a batch is once a command has succeeded, field by field.
Succeeds(b, r, ops, value, g) ==
    /\ Continues(b, g) /\ g.failed = b.failed /\ g.bound = value
    /\ Recorded(b, r).bound = b.bound
    /\ ~ r.saved => /\ g.saved = b.saved
                    /\ Adds(b, g, ops, doc, exec.cursor, r.exec.cursor)
    /\ r.saved => /\ g.saved = TRUE /\ g.applied = <<>>
                  /\ g.groupOps = <<>> /\ g.steps = <<>>

LEMMA RecordedIs ==
    ASSUME NEW b, DOMAIN b = Fields, NEW r, NEW ops, ops = Effective(r.ops),
           r.saved => ops = <<>>,
           NEW more, NEW value, NEW S, b.applied \in Seq(S),
           NEW g, g = Counted(Recorded(b, r), more, value)
    PROVE  Succeeds(b, r, ops, value, g)
<1> DEFINE h == Recorded(b, r)
           s == Step(ops, exec.cursor, r.exec.cursor, Display(doc))
           from == [cursor |-> exec.cursor, shown |-> Display(doc)]
<1>0. g = [h EXCEPT !.count = more, !.bound = value]
  BY DEF Counted
<1>1. ASSUME DOMAIN h = Fields
      PROVE  /\ DOMAIN g = Fields /\ g.bound = value /\ g.kind = h.kind /\ g.group = h.group
             /\ g.rollback = h.rollback /\ g.initial = h.initial /\ g.before = h.before
             /\ g.failed = h.failed /\ g.saved = h.saved /\ g.applied = h.applied
             /\ g.groupOps = h.groupOps /\ g.groupFrom = h.groupFrom /\ g.steps = h.steps
  <2> HIDE DEF h
  <2> QED BY <1>0, <1>1 DEF Fields
<1>2. CASE ~ r.saved
  <2>0. h = IF ops = <<>> THEN b
            ELSE IF b.group
            THEN [b EXCEPT !.applied = @ \o ops, !.groupOps = @ \o ops,
                           !.groupFrom = IF b.groupOps = <<>> THEN from ELSE @]
            ELSE [b EXCEPT !.applied = @ \o ops, !.steps = Append(@, s)]
    <3>1. s.shown = Display(doc)
      BY DEF Step
    <3> QED BY <1>2, <3>1, Zenon DEF Recorded
  <2> HIDE DEF h, s, from
  <2>1. CASE ops = <<>>
    <3>1. h = b
      BY <2>0, <2>1
    <3>2. b.applied \o ops = b.applied
      BY <2>1
    <3> QED BY <1>1, <1>2, <2>1, <3>1, <3>2 DEF Continues, Adds, Succeeds, h
  <2>2. CASE ops # <<>> /\ b.group
    <3> DEFINE first == IF b.groupOps = <<>> THEN from ELSE b.groupFrom
               a == b.applied \o ops
               c == b.groupOps \o ops
    <3>1. h = [b EXCEPT !.applied = a, !.groupOps = c, !.groupFrom = first]
      BY <2>0, <2>2
    <3> HIDE DEF first, a, c
    <3>2. /\ DOMAIN h = Fields /\ h.kind = b.kind /\ h.group = b.group
          /\ h.rollback = b.rollback /\ h.initial = b.initial /\ h.before = b.before
          /\ h.failed = b.failed /\ h.bound = b.bound /\ h.saved = b.saved /\ h.applied = a
          /\ h.groupOps = c /\ h.groupFrom = first /\ h.steps = b.steps
      BY <3>1 DEF Fields
    <3>3. /\ DOMAIN g = Fields /\ g.bound = value /\ g.kind = b.kind /\ g.group = b.group
          /\ g.rollback = b.rollback /\ g.initial = b.initial /\ g.before = b.before
          /\ g.failed = b.failed /\ g.saved = b.saved /\ g.applied = a
          /\ g.groupOps = c /\ g.groupFrom = first /\ g.steps = b.steps
      BY <1>1, <3>2
    <3>4. Adds(b, g, ops, doc, exec.cursor, r.exec.cursor)
      BY <2>2, <3>3 DEF Adds, first, a, c, from
    <3> QED BY <1>2, <3>2, <3>3, <3>4 DEF Continues, Succeeds, h
  <2>3. CASE ops # <<>> /\ ~ b.group
    <3> DEFINE t == Append(b.steps, s)
               a == b.applied \o ops
    <3>1. h = [b EXCEPT !.applied = a, !.steps = t]
      BY <2>0, <2>3
    <3> HIDE DEF t, a
    <3>2. /\ DOMAIN h = Fields /\ h.kind = b.kind /\ h.group = b.group
          /\ h.rollback = b.rollback /\ h.initial = b.initial /\ h.before = b.before
          /\ h.failed = b.failed /\ h.bound = b.bound /\ h.saved = b.saved /\ h.applied = a
          /\ h.groupOps = b.groupOps /\ h.steps = t
      BY <3>1 DEF Fields
    <3>3. /\ DOMAIN g = Fields /\ g.bound = value /\ g.kind = b.kind /\ g.group = b.group
          /\ g.rollback = b.rollback /\ g.initial = b.initial /\ g.before = b.before
          /\ g.failed = b.failed /\ g.saved = b.saved /\ g.applied = a
          /\ g.groupOps = b.groupOps /\ g.steps = t
      BY <1>1, <3>2
    <3>4. Adds(b, g, ops, doc, exec.cursor, r.exec.cursor)
      BY <2>3, <3>3 DEF Adds, t, a, s
    <3> QED BY <1>2, <3>2, <3>3, <3>4 DEF Continues, Succeeds, h
  <2> QED BY <2>1, <2>2, <2>3
<1>3. CASE r.saved /\ ops = <<>>
  <2>1. h = [b EXCEPT !.groupOps = <<>>, !.applied = <<>>, !.steps = <<>>, !.saved = TRUE]
    BY <1>3, Zenon DEF Recorded
  <2> HIDE DEF h
  <2>2. /\ DOMAIN h = Fields /\ h.kind = b.kind /\ h.group = b.group
        /\ h.rollback = b.rollback /\ h.initial = b.initial /\ h.before = b.before
        /\ h.failed = b.failed /\ h.bound = b.bound /\ h.saved = TRUE /\ h.applied = <<>>
        /\ h.groupOps = <<>> /\ h.steps = <<>>
    BY <2>1 DEF Fields
  <2> QED BY <1>1, <1>3, <2>2 DEF Continues, Succeeds, h
<1> QED BY <1>2, <1>3

\* A command of a batch that succeeds.
LEMMA SucceededSafe ==
    ASSUME BatchesInv, batch # NoBatch, ~ batch.failed, UNCHANGED profile, UNCHANGED App,
           NEW c, NEW r, Works(r) \/ (Saves(r) /\ ~ batch.rollback), Succeeded(c, r)
    PROVE  BatchesInv'
<1> DEFINE ops == Effective(r.ops)
           n == Len(doc.base)
           value == IF c.op \in {"read", "search"} THEN r.value ELSE Recorded(batch, r).bound
           more == Recorded(batch, r).count + 1
           b == batch
           g == batch'
           x == r.exec
           d == r.doc
           len == files.len
           app == InApp
<1>1. /\ Storing /\ Shape(b, app) /\ len \in Nat
      /\ BatchOk(b, doc, exec, undo, redo, len, app)
  BY RunningIs
<1>2. /\ doc' = d /\ files' = r.files /\ exec' = x
      /\ g = Counted(Recorded(b, r), more, value)
  BY Zenon DEF Succeeded, Counted
<1>3. b.applied \in Seq(Ops(n)) /\ DOMAIN b = Fields
  BY <1>1 DEF BatchOk, From0, Began, Reaches, Shape
<1>4. r.saved => ops = <<>>
  <2>1. r.saved => r.ops = <<>>
    BY DEF Works, Saves
  <2>2. Effective(<<>>) = <<>>
    <3>1. <<>> \in Seq({})
      OBVIOUS
    <3> QED BY <3>1, EffectiveIs
  <2> QED BY <2>1, <2>2
<1> HIDE DEF value, more, g, b
<1>5. /\ Continues(b, g) /\ g.failed = b.failed /\ g.bound = value
      /\ Recorded(b, r).bound = b.bound
      /\ ~ r.saved => /\ g.saved = b.saved
                      /\ Adds(b, g, ops, doc, exec.cursor, x.cursor)
      /\ r.saved => /\ g.saved = TRUE /\ g.applied = <<>>
                    /\ g.groupOps = <<>> /\ g.steps = <<>>
  <2> DEFINE S == Ops(n)
  <2>1. b.applied \in Seq(S) /\ ops = Effective(r.ops)
    BY <1>3
  <2> HIDE DEF S, ops
  <2>2. Succeeds(b, r, ops, value, g)
    BY <1>2, <1>3, <1>4, <2>1, RecordedIs
  <2> QED BY <2>2 DEF Succeeds
<1>6. value \in Seq(Byte) \cup {None}
  <2>1. r.value \in Seq(Byte) /\ b.bound \in Seq(Byte) \cup {None}
    BY <1>1, EmptyValue DEF Works, Saves, Shape
  <2> QED BY <1>5, <2>1 DEF value, b
<1>7. CASE Works(r)
  <2>1. ~ r.saved /\ r.files = files /\ Becomes(doc, ops, d) /\ Named(d, x)
    BY <1>7 DEF Works
  <2> HIDE DEF ops, d, x, len, app
  <2>2. BatchOk(g, d, x, undo, redo, len, app)
    <3>1. Ready /\ ~ b.failed
      BY <1>1 DEF Storing, b
    <3> QED BY <1>1, <1>5, <1>6, <2>1, <3>1, WorkedOk
  <2>3. Sane(d) /\ FilesOk(files, Len(d.base))
    <3>1. Sane(d) /\ n \in Nat /\ Len(d.base) \in Nat /\ n <= Len(d.base)
      BY <2>1 DEF Becomes, Extension
    <3>2. FilesOk(files, n)
      BY <1>1 DEF Storing
    <3> HIDE DEF n
    <3> QED BY <3>1, <3>2 DEF FilesOk
  <2>4. /\ Sane(doc') /\ FilesOk(files', Len(doc'.base)) /\ Named(doc', exec')
        /\ BatchOk(batch', doc', exec', undo, redo, files'.len, InApp)
    <3>1. doc' = d /\ exec' = x /\ files' = files
      BY <1>2, <2>1
    <3> QED BY <2>1, <2>2, <2>3, <3>1 DEF g, len, app
  <2> QED BY <2>4, GoesOnSafe
<1>8. CASE Saves(r) /\ ~ batch.rollback
  <2> DEFINE len1 == r.files.len
  <2>1. /\ r.saved /\ Sane(d) /\ Named(d, x) /\ FilesOk(r.files, Len(d.base))
        /\ History(len1, <<>>, <<>>, Len(d.base), d) /\ len1 \in Nat
    BY <1>8 DEF Saves, FilesOk
  <2>2. g.failed \in BOOLEAN /\ ~ b.rollback
    BY <1>1, <1>5, <1>8 DEF Shape, b
  <2> HIDE DEF ops, d, x, len, app, len1
  <2>3. BatchOk(g, d, x, undo, redo, len1, app)
    BY <1>1, <1>5, <1>6, <2>1, <2>2, SavedOk
  <2>4. /\ Sane(doc') /\ FilesOk(files', Len(doc'.base)) /\ Named(doc', exec')
        /\ BatchOk(batch', doc', exec', undo, redo, files'.len, InApp)
    <3>1. doc' = d /\ exec' = x /\ files' = r.files
      BY <1>2
    <3> QED BY <2>1, <2>3, <3>1 DEF g, len1, app
  <2> QED BY <2>4, GoesOnSafe
<1> QED BY <1>7, <1>8

\* A command that fails where nothing is rolled back: its files may have changed.
LEMMA StoppedSafe ==
    ASSUME BatchesInv, batch # NoBatch, ~ batch.rollback, UNCHANGED profile, UNCHANGED App,
           NEW r, Fails(r), doc' = r.doc, files' = r.files, exec' = r.exec,
           NEW failed \in BOOLEAN, NEW count,
           batch' = [batch EXCEPT !.count = count, !.failed = failed]
    PROVE  BatchesInv'
<1> DEFINE b == batch
           g == batch'
           x == exec
           d == doc
           len == files.len
           app == InApp
<1>1. /\ Storing /\ Shape(b, app) /\ len \in Nat
      /\ BatchOk(b, d, x, undo, redo, len, app)
  BY RunningIs
<1>2. DOMAIN b = Fields
  BY <1>1 DEF Shape
<1>3. /\ doc' = d /\ exec' = x /\ files'.len = len /\ FilesOk(files', Len(d.base))
  BY DEF Fails
<1>4. ~ b.rollback /\ g = [b EXCEPT !.count = count, !.failed = failed]
  OBVIOUS
<1> HIDE DEF b, g, x, d, len, app
<1>5. /\ Continues(b, g) /\ g.saved = b.saved /\ g.failed = failed
      /\ g.bound = b.bound /\ g.applied = b.applied /\ g.groupOps = b.groupOps
      /\ g.groupFrom = b.groupFrom /\ g.steps = b.steps
  <2>1. /\ DOMAIN g = Fields /\ g.kind = b.kind /\ g.group = b.group
        /\ g.rollback = b.rollback /\ g.initial = b.initial /\ g.before = b.before
        /\ g.saved = b.saved /\ g.failed = failed
        /\ g.bound = b.bound /\ g.applied = b.applied /\ g.groupOps = b.groupOps
        /\ g.groupFrom = b.groupFrom /\ g.steps = b.steps
    BY <1>2, <1>4 DEF Fields
  <2> QED BY <2>1 DEF Continues
<1>6. BatchOk(g, d, x, undo, redo, len, app)
  BY <1>1, <1>4, <1>5, FailedOk
<1>7. /\ Sane(doc') /\ FilesOk(files', Len(doc'.base)) /\ Named(doc', exec')
      /\ BatchOk(batch', doc', exec', undo, redo, files'.len, InApp)
  <2>1. Sane(d) /\ Named(d, x)
    BY <1>1 DEF Storing, Ready, d, x
  <2> QED BY <1>3, <1>6, <2>1 DEF g, app
<1> QED BY <1>7, GoesOnSafe

\* A macro that fails.
LEMMA MacroErrorSafe ==
    ASSUME BatchesInv, batch # NoBatch, UNCHANGED profile, UNCHANGED App,
           NEW r, Fails(r), MacroError(r)
    PROVE  BatchesInv'
<1>1. CASE ~ batch.rollback
  <2>1. /\ doc' = r.doc /\ files' = r.files /\ exec' = r.exec
        /\ batch' = [batch EXCEPT !.failed = TRUE]
    BY <1>1 DEF MacroError
  <2>2. batch' = [batch EXCEPT !.count = batch.count, !.failed = TRUE]
    <3>1. DOMAIN batch = Fields
      BY RunningIs DEF Shape
    <3> QED BY <2>1, <3>1 DEF Fields
  <2> QED BY <1>1, <2>1, <2>2, StoppedSafe
<1>2. CASE batch.rollback
  <2> DEFINE b == batch
             g == batch'
             d == doc
             len == files.len
             app == InApp
             back == UndoOps(d, b.applied)
  <2>1. /\ Storing /\ Shape(b, app) /\ len \in Nat
        /\ BatchOk(b, d, exec, undo, redo, len, app)
    BY RunningIs
  <2>2. DOMAIN b = Fields
    BY <2>1 DEF Shape
  <2>3. /\ files' = r.files /\ doc' = back.doc /\ exec' = b.initial
        /\ g = [b EXCEPT !.failed = TRUE, !.undone = back.ok, !.groupOps = <<>>,
                         !.applied = <<>>, !.steps = <<>>]
    BY <1>2 DEF MacroError
  <2>4. files'.len = len /\ FilesOk(files', Len(d.base))
    BY <2>3 DEF Fails
  <2>5. b.rollback
    BY <1>2
  <2> HIDE DEF b, g, d, len, app
  <2>6. /\ Sane(back.doc) /\ back.doc.base = d.base /\ Named(back.doc, b.initial)
        /\ \A h : /\ Continues(b, h) /\ h.saved = b.saved /\ h.failed \in BOOLEAN
                  /\ h.bound = b.bound /\ h.undone = back.ok
                  /\ h.applied = <<>> /\ h.groupOps = <<>> /\ h.steps = <<>>
             => BatchOk(h, back.doc, b.initial, undo, redo, len, app)
    BY <2>1, <2>5, RolledBackOk
  <2> HIDE DEF back
  <2>7. /\ Continues(b, g) /\ g.saved = b.saved /\ g.failed = TRUE
        /\ g.bound = b.bound /\ g.undone = back.ok
        /\ g.applied = <<>> /\ g.groupOps = <<>> /\ g.steps = <<>>
    <3>1. /\ DOMAIN g = Fields /\ g.kind = b.kind /\ g.group = b.group
          /\ g.rollback = b.rollback /\ g.initial = b.initial /\ g.before = b.before
          /\ g.saved = b.saved /\ g.failed = TRUE
          /\ g.bound = b.bound /\ g.undone = back.ok
          /\ g.applied = <<>> /\ g.groupOps = <<>> /\ g.steps = <<>>
      BY <2>2, <2>3 DEF Fields
    <3> QED BY <3>1 DEF Continues
  <2>8. BatchOk(g, back.doc, b.initial, undo, redo, len, app)
    BY <2>6, <2>7
  <2>9. /\ Sane(doc') /\ FilesOk(files', Len(doc'.base)) /\ Named(doc', exec')
        /\ BatchOk(batch', doc', exec', undo, redo, files'.len, InApp)
    BY <2>3, <2>4, <2>6, <2>8 DEF g, app
  <2> QED BY <2>9, GoesOnSafe
<1> QED BY <1>1, <1>2

LEMMA MacroStepSafe ==
    ASSUME BatchesInv, UNCHANGED profile, NEW c \in profile.commands, MacroStep(c)
    PROVE  BatchesInv'
<1>1. /\ batch # NoBatch /\ ~ batch.failed /\ UNCHANGED App
      /\ IF Unbound(c) \/ (batch.rollback /\ c.op \in {"save", "export"})
         THEN MacroError(Failed)
         ELSE \E r \in Outcomes(Resolved(c)) :
                  IF r.ok THEN Succeeded(c, r) ELSE MacroError(r)
  BY DEF MacroStep, Running
<1>2. Storing /\ batch.bound \in Seq(Byte) \cup {None} /\ c \in Commands
  BY <1>1, RunningIs, ProfileIs DEF Shape, BatchesInv
<1>3. CASE MacroError(Failed)
  BY <1>1, <1>2, <1>3, FailedFails, MacroErrorSafe
<1>4. CASE ~ Unbound(c) /\ ~ (batch.rollback /\ c.op \in {"save", "export"})
  <2> DEFINE t == Resolved(c)
  <2>1. Usable(t) /\ t.op \in Known /\ (t.op = "save" => c.op = "save")
    <3>1. t.op = c.op
      <4>1. CASE HasBytes(c) /\ c.bytes = Bound
        <5>1. batch.bound \in Seq(Byte)
          BY <1>2, <1>4, <4>1 DEF Unbound
        <5> QED BY <1>2, <4>1, <5>1, CommandBytes DEF Resolved
      <4>2. CASE ~ (HasBytes(c) /\ c.bytes = Bound)
        BY <4>2 DEF Resolved
      <4> QED BY <4>1, <4>2
    <3> QED BY <1>2, <1>4, <3>1, ResolvedIs
  <2> HIDE DEF t
  <2>2. PICK r \in Outcomes(t) : IF r.ok THEN Succeeded(c, r) ELSE MacroError(r)
    BY <1>1, <1>4 DEF t
  <2>3. Works(r) \/ Saves(r) \/ Fails(r)
    BY <1>2, <2>1, OutcomeWorks
  <2>4. Saves(r) => ~ batch.rollback
    <3>1. t.op # "save" => Answers(r)
      <4>1. ASSUME t.op # "save" PROVE r = ExecuteOne(t)
        BY <2>2, <4>1 DEF Outcomes
      <4> QED BY <1>2, <2>1, <4>1, CommandWorks DEF Storing
    <3>2. Saves(r) => t.op = "save"
      BY <3>1, FailedIs DEF Answers, Works, Saves
    <3> QED BY <1>4, <2>1, <3>2
  <2>5. CASE Works(r) \/ Saves(r)
    <3>1. r.ok
      BY <2>5 DEF Works, Saves
    <3> QED BY <1>1, <2>2, <2>4, <2>5, <3>1, SucceededSafe
  <2>6. CASE Fails(r)
    <3>1. ~ r.ok
      BY <2>6 DEF Fails
    <3> QED BY <1>1, <2>2, <2>6, <3>1, MacroErrorSafe
  <2> QED BY <2>3, <2>5, <2>6
<1> QED BY <1>1, <1>3, <1>4

LEMMA ScriptCallSafe ==
    ASSUME BatchesInv, UNCHANGED profile, NEW c \in profile.commands, ScriptCall(c)
    PROVE  BatchesInv'
<1>1. /\ batch # NoBatch /\ ~ batch.failed /\ batch.kind = "script" /\ UNCHANGED App
      /\ ~ Unbound(c)
      /\ \E r \in Outcomes(Resolved(c)) :
            IF r.ok THEN Succeeded(c, r)
            ELSE \E caught \in BOOLEAN :
                    /\ doc' = r.doc /\ files' = r.files /\ exec' = r.exec
                    /\ batch' = [batch EXCEPT !.count = @ + 1, !.failed = ~caught]
  BY DEF ScriptCall, Running
<1>2. /\ Storing /\ batch.bound \in Seq(Byte) \cup {None} /\ c \in Commands
      /\ ~ batch.rollback
  BY <1>1, RunningIs, ProfileIs DEF Shape, BatchesInv
<1> DEFINE t == Resolved(c)
<1>3. Usable(t) /\ t.op \in Known
  BY <1>1, <1>2, ResolvedIs
<1> HIDE DEF t
<1>4. PICK r \in Outcomes(t) :
            IF r.ok THEN Succeeded(c, r)
            ELSE \E caught \in BOOLEAN :
                    /\ doc' = r.doc /\ files' = r.files /\ exec' = r.exec
                    /\ batch' = [batch EXCEPT !.count = @ + 1, !.failed = ~caught]
  BY <1>1 DEF t
<1>5. Works(r) \/ Saves(r) \/ Fails(r)
  BY <1>2, <1>3, OutcomeWorks
<1>6. CASE Works(r) \/ Saves(r)
  <2>1. r.ok
    BY <1>6 DEF Works, Saves
  <2> QED BY <1>1, <1>2, <1>4, <1>6, <2>1, SucceededSafe
<1>7. CASE Fails(r)
  <2>1. ~ r.ok
    BY <1>7 DEF Fails
  <2>2. PICK caught \in BOOLEAN :
            /\ doc' = r.doc /\ files' = r.files /\ exec' = r.exec
            /\ batch' = [batch EXCEPT !.count = batch.count + 1, !.failed = ~caught]
    BY <1>4, <2>1
  <2>3. (~ caught) \in BOOLEAN
    OBVIOUS
  <2> QED BY <1>1, <1>2, <1>7, <2>2, <2>3, StoppedSafe
<1> QED BY <1>5, <1>6, <1>7

LEMMA RunCommandSafe ==
    ASSUME BatchesInv, UNCHANGED profile, NEW c \in profile.commands, RunCommand(c)
    PROVE  BatchesInv'
<1>1. /\ batch # NoBatch /\ ~ batch.failed /\ batch.kind = "command" /\ UNCHANGED App
      /\ ~ (HasBytes(c) /\ c.bytes = Bound)
      /\ \E r \in Outcomes(ScopeOrAll(c)) :
            IF r.ok THEN Succeeded(c, r)
            ELSE /\ doc' = r.doc /\ files' = r.files /\ exec' = r.exec
                 /\ batch' = [batch EXCEPT !.failed = TRUE]
  BY DEF RunCommand
<1>2. Storing /\ c \in Commands /\ ~ batch.rollback /\ DOMAIN batch = Fields
  BY <1>1, RunningIs, ProfileIs DEF Shape, BatchesInv
<1> DEFINE t == ScopeOrAll(c)
<1>3. Usable(t) /\ t.op \in Known
  BY <1>1, <1>2, ScopeOrAllIs
<1> HIDE DEF t
<1>4. PICK r \in Outcomes(t) :
            IF r.ok THEN Succeeded(c, r)
            ELSE /\ doc' = r.doc /\ files' = r.files /\ exec' = r.exec
                 /\ batch' = [batch EXCEPT !.failed = TRUE]
  BY <1>1 DEF t
<1>5. Works(r) \/ Saves(r) \/ Fails(r)
  BY <1>2, <1>3, OutcomeWorks
<1>6. CASE Works(r) \/ Saves(r)
  <2>1. r.ok
    BY <1>6 DEF Works, Saves
  <2> QED BY <1>1, <1>2, <1>4, <1>6, <2>1, SucceededSafe
<1>7. CASE Fails(r)
  <2>1. ~ r.ok
    BY <1>7 DEF Fails
  <2>2. /\ doc' = r.doc /\ files' = r.files /\ exec' = r.exec
        /\ batch' = [batch EXCEPT !.failed = TRUE]
    BY <1>4, <2>1
  <2>3. batch' = [batch EXCEPT !.count = batch.count, !.failed = TRUE]
    BY <1>2, <2>2 DEF Fields
  <2> QED BY <1>1, <1>2, <1>7, <2>2, <2>3, StoppedSafe
<1> QED BY <1>5, <1>6, <1>7

(***************************************************************************)
(* The end of a batch, and between batches                                 *)
(***************************************************************************)

\* The stacks as they are between two batches of the App.
LEMMA SettledSafe ==
    ASSUME BatchesInv, InApp, UNCHANGED profile, batch' = NoBatch,
           FilesOk(files', Len(doc'.base)), Sane(doc'),
           anchor' \in Nat \cup {None}, Fits(doc', cursor'),
           undo' \in Seq(Kept(Len(doc'.base))), redo' \in Seq(Kept(Len(doc'.base))),
           History(files'.len, undo', redo', Len(doc'.base), doc')
    PROVE  BatchesInv'
<1>1. InApp' <=> InApp
  BY DEF InApp
<1>2. profile' = profile
  OBVIOUS
<1>3. StacksOk'
  BY DEF StacksOk
<1> QED BY <1>1, <1>2, <1>3 DEF BatchesInv

\* Where the App's cursor and anchor are once it has taken the state of a batch.
LEMMA TakenIs ==
    ASSUME Sane(doc), Named(doc, exec),
           \/ anchor' = None /\ cursor' = Clamped(doc, exec.cursor)
           \/ TakeState
    PROVE  anchor' \in Nat \cup {None} /\ Fits(doc, cursor')
<1>1. exec.cursor \in Nat
  BY DEF Named, Fits
<1>2. Fits(doc, Clamped(doc, exec.cursor))
  BY <1>1, ClampedFits
<1>3. CASE /\ exec.sel # None /\ exec.sel.space = "display"
           /\ exec.sel.start + exec.sel.len > 0
           /\ cursor' = Clamped(doc, exec.sel.start)
           /\ anchor' = Clamped(doc, exec.sel.start + exec.sel.len - 1)
  <2> DEFINE start == exec.sel.start
             last == exec.sel.start + exec.sel.len - 1
  <2>1. start \in Nat /\ last \in Nat
    <3>1. exec.sel.start \in Nat /\ exec.sel.len \in Nat
      BY <1>3 DEF Named, NamesSame
    <3> QED BY <1>3, <3>1
  <2>2. cursor' = Clamped(doc, start) /\ anchor' = Clamped(doc, last)
    BY <1>3
  <2> HIDE DEF start, last
  <2>3. Fits(doc, Clamped(doc, start)) /\ Fits(doc, Clamped(doc, last))
    BY <2>1, ClampedFits
  <2> QED BY <2>2, <2>3 DEF Fits
<1> QED BY <1>2, <1>3 DEF TakeState

LEMMA FinishedSafe ==
    ASSUME BatchesInv, UNCHANGED profile, FinishInApp
    PROVE  BatchesInv'
<1> DEFINE n == Len(doc.base)
           to == exec.cursor
           b == batch
           steps == Report(b, to)
           pushed == IF b.kind = "script" THEN Merged(steps) ELSE steps
           len == files.len
<1>1. /\ batch # NoBatch /\ InApp
      /\ undo' = (IF b.saved THEN <<>> ELSE undo) \o pushed
      /\ redo' = IF pushed = <<>> /\ ~ b.saved THEN redo ELSE <<>>
      /\ IF b.failed THEN anchor' = None /\ cursor' = Clamped(doc, exec.cursor)
         ELSE TakeState
      /\ batch' = NoBatch /\ UNCHANGED <<doc, files, exec>>
  BY DEF FinishInApp, InApp
<1>2. /\ Storing /\ BatchOk(b, doc, exec, undo, redo, len, InApp)
  BY <1>1, RunningIs
<1>3. BatchOk(b, doc, exec, undo, redo, len, TRUE)
  <2>1. InApp = TRUE
    BY <1>1 DEF InApp
  <2> QED BY <1>2, <2>1
<1>4. Sane(doc) /\ to \in Nat
  BY <1>2 DEF Storing, Ready, Named, Fits
<1> HIDE DEF to, len, b
<1>5. Pushed(b, pushed, doc, undo, redo, len)
  <2>1. Pushed(b, steps, doc, undo, redo, len)
    BY <1>3, <1>4, ReportOk
  <2>2. b.kind = "script" => Pushed(b, Merged(steps), doc, undo, redo, len)
    BY <1>3, <1>4, MergedOk
  <2> HIDE DEF steps
  <2> QED BY <2>1, <2>2
<1> HIDE DEF pushed
<1>6. undo' = Below(b, undo) \o pushed /\ redo' = Ahead(pushed, Below(b, redo))
  BY <1>1 DEF Below, Ahead
<1>7. /\ undo' \in Seq(Kept(n)) /\ redo' \in Seq(Kept(n))
      /\ History(len, undo', redo', n, doc)
  <2> DEFINE S == Kept(n)
             A == Below(b, undo)
             Z == Below(b, redo)
  <2>1. pushed \in Seq(S) /\ A \in Seq(S) /\ Z \in Seq(S)
        /\ History(len, A \o pushed, Ahead(pushed, Z), n, doc)
    BY <1>5 DEF Pushed
  <2>2. undo' = A \o pushed /\ redo' = Ahead(pushed, Z)
    BY <1>6
  <2> HIDE DEF S, A, Z, n
  <2>3. A \o pushed \in Seq(S) /\ Ahead(pushed, Z) \in Seq(S)
    BY <2>1 DEF Ahead
  <2> QED BY <2>1, <2>2, <2>3 DEF S
<1>8. anchor' \in Nat \cup {None} /\ Fits(doc, cursor')
  BY <1>1, <1>2, TakenIs DEF Storing, Ready
<1>9. doc' = doc /\ files' = files /\ files'.len = len /\ FilesOk(files, n)
  BY <1>1, <1>2 DEF Storing, len
<1> QED BY <1>1, <1>4, <1>7, <1>8, <1>9, SettledSafe

LEMMA HeadlessSafe ==
    ASSUME BatchesInv, UNCHANGED profile, FinishHeadless
    PROVE  BatchesInv'
<1>1. /\ batch # NoBatch /\ ~ InApp /\ batch' = NoBatch
      /\ UNCHANGED <<doc, files, exec, App>>
  BY DEF FinishHeadless, InApp
<1>2. /\ profile' = profile /\ doc' = doc /\ files' = files /\ exec' = exec
      /\ anchor' = anchor /\ undo' = undo /\ redo' = redo
  BY <1>1 DEF App
<1>3. InApp' <=> InApp
  BY <1>2 DEF InApp
<1> QED BY <1>1, <1>2, <1>3 DEF BatchesInv

\* A step taken back, or done again, between batches.
LEMMA TravelSafe ==
    ASSUME BatchesInv, UNCHANGED profile, AppUndo \/ AppRedo
    PROVE  BatchesInv'
<1> DEFINE n == Len(doc.base)
           S == Kept(n)
<1>0. batch = NoBatch /\ batch' = NoBatch /\ UNCHANGED <<files, anchor, exec>>
  BY DEF AppUndo, AppRedo
<1>1. InApp
  BY DEF AppUndo, AppRedo, BatchesInv
<1>2. /\ undo \in Seq(S) /\ redo \in Seq(S) /\ History(files.len, undo, redo, n, doc)
      /\ FilesOk(files, n) /\ anchor \in Nat \cup {None}
  BY <1>0, <1>1 DEF BatchesInv, StacksOk
<1> SUFFICES ASSUME TRUE
             PROVE  /\ Sane(doc') /\ doc'.base = doc.base /\ Fits(doc', cursor')
                    /\ undo' \in Seq(S) /\ redo' \in Seq(S)
                    /\ History(files.len, undo', redo', n, doc')
  BY <1>0, <1>1, <1>2, SettledSafe
<1>3. CASE AppUndo
  <2> DEFINE s == Last(undo)
             len == files.len
             u == undo
             r == redo
  <2>1. /\ u # <<>> /\ doc' = UndoOps(doc, s.ops).doc /\ cursor' = Clamped(doc', s.from)
        /\ undo' = Front(u) /\ redo' = Append(r, s)
    BY <1>3 DEF AppUndo
  <2> HIDE DEF S, n, len, u, r
  <2>2. u \in Seq(S) /\ r \in Seq(S) /\ History(len, u, r, n, doc)
    BY <1>2 DEF u, r, len
  <2>3. PICK e \in Docs(n) :
            /\ UndoOps(doc, Last(u).ops) = Unfailed(e) /\ e.base = doc.base
            /\ History(len, Front(u), Append(r, Last(u)), n, e)
    BY <2>1, <2>2, HistoryBack
  <2>4. doc' = e
    BY <2>1, <2>3 DEF Unfailed, u
  <2>5. s \in S /\ Front(u) \in Seq(S) /\ Append(r, s) \in Seq(S) /\ s = Last(u)
    BY <2>1, <2>2 DEF Last, Front, u
  <2>6. Injective(e.cells)
    <3> DEFINE f == Front(u)
               t == Append(r, s)
    <3>1. f \in Seq(S) /\ t \in Seq(S) /\ History(len, f, t, n, e)
      BY <2>3, <2>5
    <3> HIDE DEF f, t
    <3> QED BY <3>1, HistoryDoc
  <2>7. Sane(e)
    BY <2>3, <2>6 DEF Sane, n
  <2>8. s.from \in Nat
    BY <2>5 DEF S, Kept
  <2>9. Fits(e, Clamped(e, s.from))
    BY <2>7, <2>8, ClampedFits
  <2> HIDE DEF s
  <2> QED BY <2>1, <2>3, <2>4, <2>5, <2>7, <2>9 DEF u, r, len, s
<1>4. CASE AppRedo
  <2> DEFINE s == Last(redo)
             len == files.len
             u == undo
             r == redo
  <2>1. /\ r # <<>> /\ doc' = ApplyOps(doc, s.ops).doc /\ cursor' = Clamped(doc', s.to)
        /\ redo' = Front(r) /\ undo' = Append(u, s)
    BY <1>4 DEF AppRedo
  <2> HIDE DEF S, n, len, u, r
  <2>2. u \in Seq(S) /\ r \in Seq(S) /\ History(len, u, r, n, doc)
    BY <1>2 DEF u, r, len
  <2>3. PICK e \in Docs(n) :
            /\ ApplyOps(doc, Last(r).ops) = Unfailed(e) /\ e.base = doc.base
            /\ History(len, Append(u, Last(r)), Front(r), n, e)
    BY <2>1, <2>2, HistoryOn
  <2>4. doc' = e
    BY <2>1, <2>3 DEF Unfailed, r
  <2>5. s \in S /\ Front(r) \in Seq(S) /\ Append(u, s) \in Seq(S) /\ s = Last(r)
    BY <2>1, <2>2 DEF Last, Front, r
  <2>6. Injective(e.cells)
    <3> DEFINE f == Front(r)
               t == Append(u, s)
    <3>1. f \in Seq(S) /\ t \in Seq(S) /\ History(len, t, f, n, e)
      BY <2>3, <2>5
    <3> HIDE DEF f, t
    <3> QED BY <3>1, HistoryDoc
  <2>7. Sane(e)
    BY <2>3, <2>6 DEF Sane, n
  <2>8. s.to \in Nat
    BY <2>5 DEF S, Kept
  <2>9. Fits(e, Clamped(e, s.to))
    BY <2>7, <2>8, ClampedFits
  <2> HIDE DEF s
  <2> QED BY <2>1, <2>3, <2>4, <2>5, <2>7, <2>9 DEF u, r, len, s
<1> QED BY <1>3, <1>4

(***************************************************************************)
(* Start and restart                                                       *)
(***************************************************************************)

LEMMA OpeningOk ==
    ASSUME NEW disk \in [Entries -> Seq(Byte) \cup {None}], NEW bytes \in Seq(Byte),
           disk[EntryOf[Opened]] = bytes, NEW meant, DOMAIN meant = Entries
    PROVE  /\ FilesOk(Opening(disk, meant), Len(bytes)) /\ Opening(disk, meant).len = Len(bytes)
           /\ Sane(DocOf(bytes)) /\ DocOf(bytes).base = bytes
           /\ Named(DocOf(bytes), [cursor |-> 0, sel |-> None]) /\ Fits(DocOf(bytes), 0)
           /\ History(Len(bytes), <<>>, <<>>, Len(bytes), DocOf(bytes))
<1> DEFINE d == DocOf(bytes)
           f == Opening(disk, meant)
           x == [cursor |-> 0, sel |-> None]
<1>1. /\ History(Len(bytes), <<>>, <<>>, Len(bytes), d) /\ d \in Docs(Len(bytes))
      /\ Injective(d.cells) /\ d.base = bytes
  BY FreshDoc
<1>2. Opened \in Names /\ Len(bytes) \in Nat
  BY BatchConstants
<1> HIDE DEF d
<1>3. Sane(d)
  BY <1>1 DEF Sane
<1>4. f = FilesOf(disk, meant, Opened, EntryOf[Opened], Len(bytes))
  BY DEF Opening, FilesOf
<1> HIDE DEF f
<1>5. f.disk = disk /\ f.meant = meant /\ f.path = Opened /\ f.view = EntryOf[Opened]
      /\ f.len = Len(bytes)
  BY <1>4, FilesOfIs
<1>6. FilesOk(f, Len(bytes))
  BY <1>2, <1>4, <1>5 DEF FilesOk
<1>7. Fits(d, 0)
  <2>1. DocLen(d) \in Nat /\ d \in Docs(Len(d.base))
    BY <1>3, DocLenIs
  <2>2. Clamped(d, DocLen(d)) \in Nat
    BY <2>1, ClampedIs
  <2> QED BY <2>2 DEF Fits
<1>8. Named(d, x)
  <2>1. x = [cursor |-> x.cursor, sel |-> x.sel] /\ x.cursor = 0 /\ x.sel = None
    OBVIOUS
  <2> HIDE DEF x
  <2> QED BY <1>7, <2>1 DEF Named
<1> QED BY <1>1, <1>3, <1>5, <1>6, <1>7, <1>8 DEF f, d

LEMMA RestartSafe ==
    ASSUME BatchesInv, UNCHANGED profile, Restart
    PROVE  BatchesInv'
<1> DEFINE disk == files.disk
           meant == files.meant
           bytes == disk[EntryOf[Opened]]
<1>1. disk \in [Entries -> Seq(Byte) \cup {None}] /\ bytes \in Seq(Byte)
      /\ DOMAIN meant = Entries
  BY DEF BatchesInv, FilesOk
<1>2. /\ files' = Opening(disk, meant) /\ doc' = DocOf(bytes)
      /\ cursor' = 0 /\ anchor' = None /\ undo' = <<>> /\ redo' = <<>>
      /\ exec' = [cursor |-> 0, sel |-> None] /\ batch' = NoBatch
  BY DEF Restart
<1>3. bytes = disk[EntryOf[Opened]]
  OBVIOUS
<1> HIDE DEF disk, meant, bytes
<1>4. /\ FilesOk(Opening(disk, meant), Len(bytes)) /\ Opening(disk, meant).len = Len(bytes)
      /\ Sane(DocOf(bytes)) /\ DocOf(bytes).base = bytes
      /\ Named(DocOf(bytes), [cursor |-> 0, sel |-> None]) /\ Fits(DocOf(bytes), 0)
      /\ History(Len(bytes), <<>>, <<>>, Len(bytes), DocOf(bytes))
  BY <1>1, <1>3, OpeningOk
<1>5. <<>> \in Seq(Kept(Len(bytes)))
  OBVIOUS
<1>6. StacksOk'
  BY <1>2, <1>4, <1>5 DEF StacksOk
<1>7. profile' \in Profiles
  BY DEF BatchesInv
<1> QED BY <1>2, <1>4, <1>6, <1>7 DEF BatchesInv

LEMMA InitSafe == Init => BatchesInv
<1> SUFFICES ASSUME Init PROVE BatchesInv
  OBVIOUS
<1> DEFINE bytes == profile.content
           disk == [e \in Entries |-> IF e = EntryOf[Opened] THEN bytes ELSE None]
<1>1. profile \in Profiles /\ bytes \in Seq(Byte) /\ EntryOf[Opened] \in Entries
  BY ProfileIs, BatchConstants DEF Init, Entries
<1>2. /\ files = Opening(disk, disk) /\ doc = DocOf(bytes)
      /\ cursor = 0 /\ anchor = None /\ undo = <<>> /\ redo = <<>>
      /\ exec = [cursor |-> 0, sel |-> None] /\ batch = NoBatch
  BY DEF Init
<1> HIDE DEF bytes
<1>3. disk \in [Entries -> Seq(Byte) \cup {None}] /\ disk[EntryOf[Opened]] = bytes
      /\ DOMAIN disk = Entries
  BY <1>1
<1> HIDE DEF disk
<1>4. /\ FilesOk(Opening(disk, disk), Len(bytes)) /\ Opening(disk, disk).len = Len(bytes)
      /\ Sane(DocOf(bytes)) /\ DocOf(bytes).base = bytes
      /\ Named(DocOf(bytes), [cursor |-> 0, sel |-> None]) /\ Fits(DocOf(bytes), 0)
      /\ History(Len(bytes), <<>>, <<>>, Len(bytes), DocOf(bytes))
  BY <1>1, <1>3, OpeningOk
<1>5. <<>> \in Seq(Kept(Len(bytes)))
  OBVIOUS
<1>6. StacksOk
  BY <1>2, <1>4, <1>5 DEF StacksOk
<1> QED BY <1>1, <1>2, <1>4, <1>6 DEF BatchesInv

LEMMA NextSafe == BatchesInv /\ [Next]_vars => BatchesInv'
<1> SUFFICES ASSUME BatchesInv, [Next]_vars PROVE BatchesInv'
  OBVIOUS
<1>1. CASE UNCHANGED vars
  <2>1. /\ profile' = profile /\ doc' = doc /\ files' = files /\ cursor' = cursor
        /\ anchor' = anchor /\ undo' = undo /\ redo' = redo /\ exec' = exec
        /\ batch' = batch
    BY <1>1 DEF vars
  <2> QED BY <2>1 DEF BatchesInv, InApp, StacksOk
<1>2. CASE Next
  BY <1>2, MacroStarts, ScriptStarts, CommandStarts, MacroStepSafe, ScriptCallSafe,
     RunCommandSafe, FinishedSafe, HeadlessSafe, TravelSafe, RestartSafe DEF Next
<1> QED BY <1>1, <1>2

(***************************************************************************)
(* Theorems                                                                *)
(***************************************************************************)

\* The document, the files, the stacks and the batch that runs fit together,
\* whatever a program of commands does, wherever it fails, saves or is undone.
THEOREM BatchesInvariant == Spec => []BatchesInv
<1> QED BY InitSafe, NextSafe, PTL DEF Spec

\* The stacks, with what a batch in progress would push, lead to the document.
LEMMA StepsLead ==
    ASSUME BatchesInv, InApp
    PROVE  LET n == Len(doc.base)
           IN  /\ AllSteps \in Seq(Kept(n)) /\ files.len \in Nat
               /\ \E r \in Seq(Kept(n)) : History(files.len, AllSteps, r, n, doc)
<1> DEFINE n == Len(doc.base)
<1>0. files.len \in Nat /\ Sane(doc)
  BY DEF BatchesInv, FilesOk
<1>1. CASE batch = NoBatch
  <2>1. AllSteps = undo /\ StacksOk
    BY <1>1 DEF AllSteps, BatchesInv
  <2> QED BY <1>0, <2>1 DEF StacksOk
<1>2. CASE batch # NoBatch
  <2> DEFINE b == batch
             to == exec.cursor
             steps == Report(b, to)
             S == Kept(n)
             A == Below(b, undo)
             R == Ahead(steps, Below(b, redo))
  <2>1. BatchOk(b, doc, exec, undo, redo, files.len, TRUE)
    <3>1. InApp = TRUE
      BY DEF InApp
    <3> QED BY <1>2, <3>1, RunningIs
  <2>2. to \in Nat
    BY <1>2 DEF BatchesInv, Named, Fits
  <2>3. AllSteps = A \o steps
    BY <1>2 DEF AllSteps, PendingSteps, Below
  <2> HIDE DEF b, to
  <2>4. Pushed(b, steps, doc, undo, redo, files.len)
    BY <1>0, <2>1, <2>2, ReportOk
  <2> HIDE DEF steps
  <2>5. /\ steps \in Seq(S) /\ A \in Seq(S) /\ Below(b, redo) \in Seq(S)
        /\ History(files.len, A \o steps, R, n, doc)
    BY <2>4 DEF Pushed
  <2> HIDE DEF S, A, n
  <2>6. A \o steps \in Seq(S) /\ R \in Seq(S)
    BY <2>5 DEF Ahead
  <2> HIDE DEF R
  <2> QED BY <1>0, <2>3, <2>5, <2>6 DEF S, n
<1> QED BY <1>1, <1>2

\* Undoing any of the steps a batch has recorded, or the App holds, succeeds and
\* shows what was shown before them, down to the file as opened or last saved.
THEOREM BatchesAreUndone == Spec => []BatchesUnwind
<1>1. BatchesInv => BatchesUnwind
  <2> SUFFICES ASSUME BatchesInv, InApp PROVE BatchesUnwind
    BY DEF BatchesUnwind, InApp
  <2> DEFINE n == Len(doc.base)
             steps == AllSteps
             len == files.len
             Back(k) == Rewound(doc, SubSeq(steps, k, Len(steps)))
  <2>1. /\ steps \in Seq(Kept(n)) /\ len \in Nat
        /\ \E r \in Seq(Kept(n)) : History(len, steps, r, n, doc)
    BY StepsLead
  <2>2. Records(Kept(n), n)
    BY KeptIs
  <2> HIDE DEF n, steps, len
  <2>3. PICK r \in Seq(Kept(n)) : History(len, steps, r, n, doc)
    BY <2>1
  <2>4. ASSUME NEW k \in DOMAIN steps
        PROVE  Back(k).ok /\ Display(Back(k).doc) = steps[k].shown
    <3>1. k \in 1..Len(steps)
      BY <2>1
    <3>2. Unwinds(len, n, steps, doc, k)
      BY <2>1, <2>2, <2>3, <3>1, HistoryRewinds
    <3>3. PICK e \in Docs(n) : Back(k) = Unfailed(e) /\ steps[k].shown = Display(e)
      BY <3>2 DEF Unwinds
    <3> QED BY <3>3 DEF Unfailed
  <2>5. PICK e \in Docs(n) :
            /\ Rewound(doc, SubSeq(steps, 1, Len(steps))) = Unfailed(e)
            /\ e.base = doc.base /\ Original(len, e)
    BY <2>1, <2>2, <2>3, HistoryStarts
  <2>6. Back(1).doc = e
    BY <2>5 DEF Unfailed
  <2>7. Display(e) = SubSeq(doc.base, 1, len) /\ e.cells = [i \in 1..len |-> i]
    BY <2>1, <2>5, OriginalShows DEF Original
  <2> HIDE DEF Back
  <2>8. /\ Back(1).doc.cells = [i \in 1..len |-> i]
        /\ Display(Back(1).doc) = SubSeq(doc.base, 1, len)
    BY <2>6, <2>7
  <2> QED BY <2>4, <2>8 DEF BatchesUnwind, Back, steps, len
<1> QED BY <1>1, BatchesInvariant, PTL

\* A macro that fails with on_error = "rollback" leaves what was there before
\* its first step, and no undo step; nothing it undoes on the way fails.
THEOREM MacrosRollBack == Spec => []RollbackRestores
<1>1. BatchesInv => RollbackRestores
  <2> SUFFICES ASSUME BatchesInv, batch # NoBatch, batch.failed, batch.rollback
               PROVE  RollbackRestores
    BY DEF RollbackRestores
  <2>1. RolledBack(batch, doc, exec)
    BY RunningIs DEF BatchOk
  <2>2. PendingSteps = <<>>
    BY <2>1 DEF RolledBack, PendingSteps, Report
  <2> QED BY <2>1, <2>2 DEF RolledBack, RollbackRestores
<1> QED BY <1>1, BatchesInvariant, PTL

\* A selection names the very bytes it was made for until it is dropped or a
\* save renumbers the slots, and the cursor stays in the document.
THEOREM SelectionsHold == Spec => []SelectionNamesCells
<1>1. BatchesInv => SelectionNamesCells
  <2> SUFFICES ASSUME BatchesInv, batch # NoBatch PROVE SelectionNamesCells
    BY DEF SelectionNamesCells
  <2>1. Named(doc, exec)
    BY DEF BatchesInv
  <2>2. exec.cursor <= Clamped(doc, DocLen(doc))
    BY <2>1 DEF Named, Fits
  <2>3. exec.sel # None /\ exec.sel.cells # <<>>
        => InBounds(doc, exec.sel) /\ Selection(doc, exec.sel).cells = exec.sel.cells
    BY <2>1 DEF Named, NamesSame
  <2> QED BY <2>2, <2>3 DEF SelectionNamesCells
<1> QED BY <1>1, BatchesInvariant, PTL

(***************************************************************************)
(* What the disk holds                                                     *)
(***************************************************************************)

\* No file but those of out is left with less in f than it should hold.
ExactBut(f, out) == \A e \in Entries : Exact(files, e) => Exact(f, e) \/ e \in out

\* One file is written: with what it should hold, or with anything else.
LEMMA WrittenExact ==
    ASSUME NEW e \in Entries, NEW g,
           \A x \in Entries \ {e} :
                g.disk[x] = files.disk[x] /\ g.meant[x] = files.meant[x]
    PROVE  ExactBut(g, {e}) /\ (Exact(g, e) => ExactBut(g, {}))
BY DEF Exact, ExactBut

\* A file is written, whole or not, and the view opens again or does not.
LEMMA PutExact ==
    ASSUME Storing, NEW target \in Names, NEW view, NEW bytes, NEW g,
           LET f == Put(EntryOf[target], bytes)
           IN  g \in {Reloaded(f, target).files, NotReloaded(f, target, view).files}
    PROVE  /\ ExactBut(g, {EntryOf[target]})
           /\ bytes = LogicalBytes(doc) => ExactBut(g, {})
<1> DEFINE e == EntryOf[target]
           all == LogicalBytes(doc)
           disk == [files.disk EXCEPT ![e] = bytes]
           meant == [files.meant EXCEPT ![e] = all]
           f == Put(e, bytes)
           k == Reloaded(f, target).files
           h == NotReloaded(f, target, view).files
           d == DocOf(f.disk[e])
<1>0. e \in Entries
  BY EntriesAre
<1>1. f = FilesOf(disk, meant, files.path, files.view, files.len)
  <2>1. files = FilesOf(files.disk, files.meant, files.path, files.view, files.len)
    BY DEF Storing, FilesOk
  <2>2. f = WithMeant(WithDisk(files, disk), meant)
    BY Zenon DEF Put, WithMeant, WithDisk
  <2> HIDE DEF f, disk, meant
  <2>3. WithDisk(files, disk)
        = FilesOf(disk, files.meant, files.path, files.view, files.len)
    BY <2>1, FilesBut
  <2> QED BY <2>2, <2>3, FilesBut
<1>2. k = WithLen(WithView(WithPath(f, target), e), DocLen(d))
  <2> HIDE DEF f, d
  <2>1. k = [f EXCEPT !.path = target, !.view = e, !.len = DocLen(DocOf(f.disk[e]))]
    BY DEF Reloaded
  <2> HIDE DEF k
  <2> QED BY <2>1 DEF WithPath, WithView, WithLen, d
<1>3. h = WithView(WithPath(f, target), view)
  <2> HIDE DEF f
  <2>1. h = [Failed EXCEPT !.files = [f EXCEPT !.path = target, !.view = view]].files
    BY DEF NotReloaded
  <2>2. h = [f EXCEPT !.path = target, !.view = view]
    BY <2>1, FailedIs
  <2> HIDE DEF h
  <2> QED BY <2>2 DEF WithPath, WithView
<1> HIDE DEF f, k, h, d, disk, meant
<1>4. WithPath(f, target) = FilesOf(disk, meant, target, files.view, files.len)
  BY <1>1, FilesBut
<1>5. k.disk = disk /\ k.meant = meant
  <2>1. WithView(WithPath(f, target), e) = FilesOf(disk, meant, target, e, files.len)
    BY <1>4, FilesBut
  <2>2. k = FilesOf(disk, meant, target, e, DocLen(d))
    BY <1>2, <2>1, FilesBut
  <2> QED BY <2>2, FilesOfIs
<1>6. h.disk = disk /\ h.meant = meant
  <2>1. h = FilesOf(disk, meant, target, view, files.len)
    BY <1>3, <1>4, FilesBut
  <2> QED BY <2>1, FilesOfIs
<1>7. g \in {k, h}
  BY DEF f, k, h, e
<1>8. g.disk = disk /\ g.meant = meant
  BY <1>5, <1>6, <1>7
<1> HIDE DEF e, all
<1>9. /\ \A x \in Entries \ {e} :
            g.disk[x] = files.disk[x] /\ g.meant[x] = files.meant[x]
      /\ g.disk[e] = bytes /\ g.meant[e] = all
  <2>1. DOMAIN files.disk = Entries /\ DOMAIN files.meant = Entries
    BY DEF Storing, FilesOk
  <2> QED BY <1>0, <1>8, <2>1 DEF disk, meant
<1>10. ExactBut(g, {e}) /\ (all = bytes => ExactBut(g, {}))
  BY <1>0, <1>9, WrittenExact DEF Exact
<1> QED BY <1>10 DEF e, all

\* A save that is cut short leaves the document's path, and one file short.
LEMMA TornExact ==
    ASSUME Storing, NEW e \in Entries, NEW bytes \in Seq(Byte)
    PROVE  LET f == TornFiles(e, bytes)
           IN  ExactBut(f, {e}) /\ f.path = files.path
<1> DEFINE f == TornFiles(e, bytes)
<1>1. /\ f.disk = [files.disk EXCEPT ![e] = bytes] /\ f.meant = files.meant
      /\ f.path = files.path
  BY TornIs
<1> HIDE DEF f
<1>2. DOMAIN files.disk = Entries
  BY DEF Storing, FilesOk
<1>3. ExactBut(f, {e})
  BY <1>1, <1>2, WrittenExact
<1> QED BY <1>1, <1>3 DEF f

\* A save under another name into e: of the very file the document reads from,
\* or one that leaves the path as it was.
Loses(c, f, e) ==
    /\ c.op = "save" /\ c.name \notin {None, files.path} /\ EntryOf[c.name] = e
    /\ e = files.view \/ f.path = files.path

\* What a command may do to the files.
Keeps(c, f) == \A e \in Entries : Exact(files, e) => Exact(f, e) \/ Loses(c, f, e)

LEMMA SaveExact ==
    ASSUME Storing, NEW c, Usable(c), c.op = "save", NEW r \in Save(c)
    PROVE  Keeps(c, r.files)
<1> DEFINE target == IF c.name = None THEN files.path ELSE c.name
           e == EntryOf[target]
           all == LogicalBytes(doc)
           g == r.files
<1>0. target \in Names
  BY DEF Usable, Storing, FilesOk
<1>1. /\ e \in Entries /\ all \in Seq(Byte) /\ AddedBytes(doc) \in Seq(Byte)
      /\ r = Failed => ExactBut(g, {})
  BY <1>0, EntriesAre, ContentIs, FailedIs DEF ExactBut
<1>2. \/ target # files.path /\ r \in SaveOver(target)
      \/ r = Failed \/ r \in SaveInPlace(target)
  BY DEF Save
<1>3. target # files.path => c.name \notin {None, files.path} /\ EntryOf[c.name] = e
  OBVIOUS
<1> HIDE DEF target, e, g
<1>4. CASE r = Failed \/ r \in SaveInPlace(target)
  <2> DEFINE f == Put(EntryOf[target], all)
  <2>1. r = Failed \/ r = Reloaded(f, target) \/ r = NotReloaded(f, target, None)
    BY <1>4 DEF SaveInPlace
  <2> HIDE DEF f, all
  <2>2. r # Failed
        => g \in {Reloaded(f, target).files, NotReloaded(f, target, None).files}
    BY <2>1 DEF g
  <2>3. r # Failed => ExactBut(g, {})
    BY <1>0, <2>2, PutExact DEF f, all
  <2> QED BY <1>1, <2>3 DEF ExactBut, Keeps, g
<1>5. CASE target # files.path /\ r \in SaveOver(target)
  <2> DEFINE kept == IF e = files.view THEN {all, AddedBytes(doc)} ELSE {all}
             torn == UNION {Prefixes(bytes) \ {bytes} : bytes \in kept}
  <2>1. \/ r = Failed
        \/ \E bytes \in torn : r = [Failed EXCEPT !.files = TornFiles(e, bytes)]
        \/ \E bytes \in kept : r = Reloaded(Put(e, bytes), target)
        \/ \E bytes \in kept : r = NotReloaded(Put(e, bytes), target, files.view)
    BY <1>5 DEF SaveOver, TornFiles, e
  <2>2. ASSUME ExactBut(g, {e}), e = files.view \/ g.path = files.path
        PROVE  Keeps(c, g)
    BY <1>3, <1>5, <2>2 DEF ExactBut, Keeps, Loses
  <2>3. ExactBut(g, {}) => Keeps(c, g)
    BY DEF ExactBut, Keeps
  <2>4. \A bytes \in kept : bytes \in Seq(Byte) /\ (e = files.view \/ bytes = all)
    BY <1>1
  <2> HIDE DEF kept
  <2>5. \A bytes \in torn : bytes \in Seq(Byte)
    BY <2>4, ShortIs
  <2> HIDE DEF torn, all
  <2>6. ASSUME NEW bytes \in torn, r = [Failed EXCEPT !.files = TornFiles(e, bytes)]
        PROVE  Keeps(c, g)
    <3>1. g = TornFiles(e, bytes)
      BY <2>6, FailedIs DEF g
    <3>2. ExactBut(g, {e}) /\ g.path = files.path
      BY <1>1, <2>5, <2>6, <3>1, TornExact
    <3> QED BY <2>2, <3>2
  <2>7. ASSUME NEW bytes \in kept,
               \/ r = Reloaded(Put(e, bytes), target)
               \/ r = NotReloaded(Put(e, bytes), target, files.view)
        PROVE  Keeps(c, g)
    <3> DEFINE f == Put(EntryOf[target], bytes)
               view == files.view
    <3>1. g \in {Reloaded(f, target).files, NotReloaded(f, target, view).files}
      BY <2>7 DEF g, e
    <3> HIDE DEF f, view
    <3>2. ExactBut(g, {EntryOf[target]}) /\ (bytes = LogicalBytes(doc) => ExactBut(g, {}))
      BY <1>0, <3>1, PutExact DEF f
    <3> QED BY <2>2, <2>3, <2>4, <3>2 DEF e, all
  <2> QED BY <1>1, <2>1, <2>3, <2>6, <2>7 DEF g
<1> QED BY <1>2, <1>4, <1>5 DEF g

LEMMA OutcomeExact ==
    ASSUME Storing, NEW c, Usable(c), c.op \in Known, NEW r \in Outcomes(c)
    PROVE  Keeps(c, r.files)
<1>1. CASE c.op = "save"
  BY <1>1, SaveExact DEF Outcomes
<1>2. CASE c.op # "save"
  <2>1. r = ExecuteOne(c)
    BY <1>2 DEF Outcomes
  <2>2. r = Failed \/ Works(r)
    BY <1>2, <2>1, CommandWorks DEF Storing, Answers
  <2>3. r.files = files
    BY <2>2, FailedIs DEF Works
  <2> QED BY <2>3 DEF Keeps
<1> QED BY <1>1, <1>2

\* What a batch makes of a command is still that command.
LEMMA SameSave ==
    ASSUME NEW c, c.op = "save"
    PROVE  Resolved(c) = c /\ ScopeOrAll(c) = c
BY DEF Resolved, ScopeOrAll, HasBytes

\* A step of a batch, whichever way it ends, keeps what the command keeps.
LEMMA StepExact ==
    ASSUME BatchesInv, batch # NoBatch, NEW c \in profile.commands, NEW t,
           Usable(t), t.op \in Known, t.op = "save" => c.op = "save",
           c.op = "save" => t = c, NEW r \in Outcomes(t), files' = r.files
    PROVE  Keeps(c, files')
<1>1. Keeps(t, files')
  BY RunningIs, OutcomeExact
<1> QED BY <1>1 DEF Keeps, Loses

LEMMA MacroStepExact ==
    ASSUME BatchesInv, NEW c \in profile.commands, MacroStep(c)
    PROVE  Keeps(c, files')
<1>1. /\ batch # NoBatch
      /\ IF Unbound(c) \/ (batch.rollback /\ c.op \in {"save", "export"})
         THEN MacroError(Failed)
         ELSE \E r \in Outcomes(Resolved(c)) :
                  IF r.ok THEN Succeeded(c, r) ELSE MacroError(r)
  BY DEF MacroStep, Running
<1>2. Storing /\ batch.bound \in Seq(Byte) \cup {None} /\ c \in Commands
  BY <1>1, RunningIs, ProfileIs DEF Shape, BatchesInv
<1>3. CASE MacroError(Failed)
  BY <1>3, FailedIs DEF MacroError, Keeps
<1>4. CASE ~ Unbound(c) /\ ~ (batch.rollback /\ c.op \in {"save", "export"})
  <2> DEFINE t == Resolved(c)
  <2>1. Usable(t) /\ t.op \in Known /\ (t.op = "save" => c.op = "save")
    <3>1. t.op = c.op
      <4>1. CASE HasBytes(c) /\ c.bytes = Bound
        <5>1. batch.bound \in Seq(Byte)
          BY <1>2, <1>4, <4>1 DEF Unbound
        <5> QED BY <1>2, <4>1, <5>1, CommandBytes DEF Resolved
      <4>2. CASE ~ (HasBytes(c) /\ c.bytes = Bound)
        BY <4>2 DEF Resolved
      <4> QED BY <4>1, <4>2
    <3> QED BY <1>2, <1>4, <3>1, ResolvedIs
  <2>2. c.op = "save" => t = c
    BY SameSave
  <2> HIDE DEF t
  <2>3. PICK r \in Outcomes(t) : IF r.ok THEN Succeeded(c, r) ELSE MacroError(r)
    BY <1>1, <1>4 DEF t
  <2>4. files' = r.files
    BY <2>3 DEF Succeeded, MacroError
  <2> QED BY <1>1, <2>1, <2>2, <2>4, StepExact
<1> QED BY <1>1, <1>3, <1>4

LEMMA ScriptCallExact ==
    ASSUME BatchesInv, NEW c \in profile.commands, ScriptCall(c)
    PROVE  Keeps(c, files')
<1> DEFINE t == Resolved(c)
<1>1. /\ batch # NoBatch /\ ~ Unbound(c)
      /\ \E r \in Outcomes(t) :
            IF r.ok THEN Succeeded(c, r)
            ELSE \E caught \in BOOLEAN :
                    /\ doc' = r.doc /\ files' = r.files /\ exec' = r.exec
                    /\ batch' = [batch EXCEPT !.count = @ + 1, !.failed = ~caught]
  BY DEF ScriptCall, Running
<1>2. batch.bound \in Seq(Byte) \cup {None} /\ c \in Commands
  BY <1>1, RunningIs, ProfileIs DEF Shape, BatchesInv
<1>3. Usable(t) /\ t.op \in Known
  BY <1>1, <1>2, ResolvedIs
<1>4. t.op = "save" => c.op = "save"
  <2>1. CASE HasBytes(c) /\ c.bytes = Bound
    <3>1. batch.bound \in Seq(Byte)
      BY <1>1, <1>2, <2>1 DEF Unbound
    <3> QED BY <1>2, <2>1, <3>1, CommandBytes DEF Resolved
  <2>2. CASE ~ (HasBytes(c) /\ c.bytes = Bound)
    BY <2>2 DEF Resolved
  <2> QED BY <2>1, <2>2
<1>5. c.op = "save" => t = c
  BY SameSave
<1> HIDE DEF t
<1>6. PICK r \in Outcomes(t) : files' = r.files
  BY <1>1 DEF Succeeded
<1> QED BY <1>1, <1>3, <1>4, <1>5, <1>6, StepExact

LEMMA RunCommandExact ==
    ASSUME BatchesInv, NEW c \in profile.commands, RunCommand(c)
    PROVE  Keeps(c, files')
<1> DEFINE t == ScopeOrAll(c)
<1>1. /\ batch # NoBatch /\ ~ (HasBytes(c) /\ c.bytes = Bound)
      /\ \E r \in Outcomes(t) :
            IF r.ok THEN Succeeded(c, r)
            ELSE /\ doc' = r.doc /\ files' = r.files /\ exec' = r.exec
                 /\ batch' = [batch EXCEPT !.failed = TRUE]
  BY DEF RunCommand
<1>2. c \in Commands
  BY <1>1, ProfileIs DEF BatchesInv
<1>3. Usable(t) /\ t.op \in Known
  BY <1>1, <1>2, ScopeOrAllIs
<1>4. t.op = "save" => c.op = "save"
  <2>1. CASE c.op \in {"hash", "export", "replace"} /\ exec.sel = None
    <3>1. t = [c EXCEPT !.scope = [of |-> "all"]]
      BY <2>1 DEF ScopeOrAll
    <3> HIDE DEF t
    <3>2. t.op = c.op
      BY <1>2, <2>1, <3>1, CommandIs
    <3> QED BY <3>2
  <2>2. CASE ~ (c.op \in {"hash", "export", "replace"} /\ exec.sel = None)
    BY <2>2 DEF ScopeOrAll
  <2> QED BY <2>1, <2>2
<1>5. c.op = "save" => t = c
  BY SameSave
<1> HIDE DEF t
<1>6. PICK r \in Outcomes(t) : files' = r.files
  BY <1>1 DEF Succeeded
<1> QED BY <1>1, <1>3, <1>4, <1>5, <1>6, StepExact

LEMMA NextExact ==
    ASSUME BatchesInv, Next
    PROVE  \A e \in Entries : Exact(files, e) => Exact(files', e) \/ SavesOver(e)
<1>1. ASSUME NEW c \in profile.commands, MacroStep(c) \/ ScriptCall(c) \/ RunCommand(c)
      PROVE  \A e \in Entries : Exact(files, e) => Exact(files', e) \/ SavesOver(e)
  <2>1. Keeps(c, files')
    BY <1>1, MacroStepExact, ScriptCallExact, RunCommandExact
  <2>2. \A e \in Entries : Loses(c, files', e) => SavesOver(e)
    BY <1>1 DEF Loses, SavesOver, SavesInto
  <2> QED BY <2>1, <2>2 DEF Keeps
<1>2. ASSUME Restart PROVE files'.disk = files.disk /\ files'.meant = files.meant
  BY <1>2 DEF Restart, Opening
<1>3. \/ files' = files \/ Restart
      \/ \E c \in profile.commands : MacroStep(c) \/ ScriptCall(c) \/ RunCommand(c)
  BY DEF Next, StartMacro, StartScript, StartCommand, FinishInApp, FinishHeadless,
         AppUndo, AppRedo
<1> QED BY <1>1, <1>2, <1>3 DEF Exact

\* A file that holds all of what the last save put there goes on holding it,
\* whatever fails, is rolled back, undone or started again: only a save under
\* another name may leave it with less, and only when the document reads from
\* that very file, or when the save fails.
THEOREM SavesStayExact == Spec => SavesAreExact
<1>1. BatchesInv /\ [Next]_vars
      => [\A e \in Entries : Exact(files, e) => Exact(files', e) \/ SavesOver(e)]_vars
  BY NextExact
<1> QED BY <1>1, BatchesInvariant, PTL DEF Spec, SavesAreExact
=============================================================================
