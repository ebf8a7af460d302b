------------------------------ MODULE FormatFile ------------------------------
(***************************************************************************)
(* What the format definitions of format/defs read and build.              *)
(*                                                                         *)
(* A file is its length and the values a reader of its format may look at: *)
(* word[o] is the number, tag[o] the fixed text or magic and text[o] the   *)
(* length of the NUL-terminated string (the NUL included, 0 when there is  *)
(* none up to the end of the file) that begins at offset o.  Every other   *)
(* byte is zero.                                                           *)
(***************************************************************************)
EXTENDS Integers, Sequences, SequencesExt, FiniteSetsExt

CONSTANT MaxSteps       \* bound: turns of a loop; no file of a run needs more

ASSUME MaxStepsAssumption == MaxSteps \in Nat

Least(a, b) == IF a < b THEN a ELSE b
Greatest(a, b) == IF a > b THEN a ELSE b
AtLeastZero(n) == Greatest(n, 0)
When(condition, items) == IF condition THEN items ELSE <<>>
Bit(value, k) == (value \div 2 ^ k) % 2 = 1
RoundUp(n, unit) == ((n + unit - 1) \div unit) * unit

(* read_bytes_raw: all the bytes or nothing. *)
Holds(f, at, n) == at + n <= f.len
Word(f, at) == IF at \in DOMAIN f.word THEN f.word[at] ELSE 0
Tag(f, at) == IF at \in DOMAIN f.tag THEN f.tag[at] ELSE ""
TextLen(f, at) == IF at \in DOMAIN f.text THEN f.text[at]
                  ELSE IF at < f.len THEN 1 ELSE 0

(* FieldDef: an offset from the base of its structure. *)
Field(at, size, edit) == [at |-> at, size |-> size, edit |-> edit, range |-> FALSE]
Editable(at, size) == Field(at, size, TRUE)
ReadOnly(at, size) == Field(at, size, FALSE)
DataRange(at, len) == [at |-> at, size |-> len, edit |-> FALSE, range |-> TRUE]
DataRangeOf(at, len) == When(len > 0, <<DataRange(at, len)>>)

(* Fields one after the other, from their sizes. *)
Fields(at, sizes, edit) ==
    [i \in DOMAIN sizes |->
        Field(at + FoldLeft(LAMBDA a, b : a + b, 0, SubSeq(sizes, 1, i - 1)),
              sizes[i], edit)]

(* StructDef.  A name is its wording, the text of the file it quotes, the   *)
(* numbers it prints and whether it says "(truncated)".                    *)
Name(kind, tag, n, cut) == [kind |-> kind, tag |-> tag, n |-> n, cut |-> cut]
Plain(kind) == Name(kind, "", <<>>, FALSE)
Nest(name, at, fields, children) ==
    [name |-> name, at |-> at, fields |-> fields, children |-> children]
Node(name, at, fields) == Nest(name, at, fields, <<>>)

(* The structure that says that entries are left; the word it begins with   *)
(* is what has_pending_more_marker looks for.                              *)
Ellipsis == "(U+2026) more"
ThreeDots == "... more"
Markers == {Ellipsis, ThreeDots}
Marker(word, tag, n, at) == Node(Name(word, tag, <<n>>, FALSE), at, <<>>)

(* A loop: Step as long as the state says on. *)
Loop(Step(_), s) ==
    FoldLeft(LAMBDA t, i : IF t.on THEN Step(t) ELSE t, s,
             [i \in 1..MaxSteps |-> i])

(* A walk over entries: room for one more, the cap, the entry.  An entry    *)
(* gives its structure, the offset after it, and whether it ends the walk. *)
EntryWalk(start, Room(_), cap, Entry(_, _)) ==
    Loop(LAMBDA s :
            IF ~Room(s.at) THEN [s EXCEPT !.on = FALSE]
            ELSE IF s.n >= cap THEN [s EXCEPT !.on = FALSE, !.more = TRUE]
            ELSE LET e == Entry(s.at, s.n)
                 IN  [at |-> e.next, n |-> s.n + 1, out |-> s.out \o e.found,
                      more |-> FALSE, on |-> ~e.last],
         [at |-> start, n |-> 0, out |-> <<>>, more |-> FALSE, on |-> TRUE])

Entry(found, next, last) == [found |-> found, next |-> next, last |-> last]

===============================================================================
