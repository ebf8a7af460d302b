---------------------------- MODULE DocumentEdits ----------------------------
(***************************************************************************)
(* A document as its readers see it, and every way the program edits it:    *)
(* the reversible operations the undo records are made of (exec/edit.rs)    *)
(* and the edits of the execution layer (exec/transform.rs, delete.rs,      *)
(* replace.rs), which the editing session and the macros share.             *)
(*                                                                         *)
(* The document is writable and not of fixed size.  A cell is a number: an *)
(* index into base, where the bytes of the file come first and the add     *)
(* buffer follows (the piece table behind it is module PieceTable).  A     *)
(* byte is two digits of radix Radix, 16 in the code.                      *)
(***************************************************************************)
EXTENDS Integers, Sequences, FiniteSets, SequencesExt

CONSTANTS
    Radix,          \* values of a nibble
    None            \* Option::None

ASSUME DocumentConstants == Radix \in Nat \ {0} /\ None \notin Nat

Byte == 0..(Radix * Radix - 1)

-----------------------------------------------------------------------------
(* The document. *)

DocOf(bytes) ==
    [base |-> bytes, cells |-> [i \in 1..Len(bytes) |-> i],
     tomb |-> {}, repl |-> <<>>]

DocLen(d) == Len(d.cells)

Least(a, b) == IF a < b THEN a ELSE b

(* cell_ids_range: the cells shown at n offsets from off, cut at the end. *)
CellsAt(d, off, n) == SubSeq(d.cells, off + 1, Least(off + n, DocLen(d)))

IdsAt(d, off, n) == ToSet(CellsAt(d, off, n))

Shown(d, id) == IF id \in DOMAIN d.repl THEN d.repl[id] ELSE d.base[id]

Without(f, ids) == [x \in DOMAIN f \ ids |-> f[x]]
Only(f, ids) == [x \in DOMAIN f \cap ids |-> f[x]]
Over(f, g) ==
    [x \in DOMAIN f \cup DOMAIN g |-> IF x \in DOMAIN g THEN g[x] ELSE f[x]]

(* set_display_byte_by_id: the base byte needs no replacement. *)
SetByte(d, id, v) ==
    [d EXCEPT !.repl = IF v = d.base[id]
                       THEN Without(@, {id})
                       ELSE Over(@, [x \in {id} |-> v])]

Splice(d, off, cells) ==
    [d EXCEPT !.cells = SubSeq(@, 1, off) \o cells
                            \o SubSeq(@, off + 1, Len(@))]

Cut(d, off, n) ==
    [d EXCEPT !.cells = SubSeq(@, 1, off) \o SubSeq(@, off + n + 1, Len(@))]

InsertedCells(d, bytes) == [i \in 1..Len(bytes) |-> Len(d.base) + i]

InsertBytes(d, off, bytes) ==
    Splice([d EXCEPT !.base = @ \o bytes], off, InsertedCells(d, bytes))

ClearRange(d, off, n) == [d EXCEPT !.repl = Without(@, IdsAt(d, off, n))]

(* overwrite_run_bytes_overlay and the pattern overlay, cut at the end. *)
OverlayRun(d, off, bytes) ==
    LET ids == CellsAt(d, off, Len(bytes))
    IN  [d EXCEPT !.repl =
            Over(@, [x \in ToSet(ids) |->
                        bytes[CHOOSE i \in DOMAIN ids : ids[i] = x]])]

(* XOR with the key of all one bits. *)
Flipped(b) == Radix * Radix - 1 - b

(* xor_visible_range_overlay: over the base bytes, whatever was there. *)
OverlayXor(d, ids) ==
    [d EXCEPT !.repl = Over(@, [x \in ids |-> Flipped(d.base[x])])]

Pristine(d, ids) == ids \cap (d.tomb \cup DOMAIN d.repl) = {}

-----------------------------------------------------------------------------
(* Reversible operations: apply_edit_op and undo_edit_op, which may fail. *)

InsertOp(off, cells) == [kind |-> "Insert", off |-> off, cells |-> cells]
DeleteOp(off, cells) == [kind |-> "RealDelete", off |-> off, cells |-> cells]
TombOp(ids) == [kind |-> "Tombstone", ids |-> ids]
ReplaceOp(ids, before, after) ==
    [kind |-> "ReplaceBytes", ids |-> ids, before |-> before, after |-> after]
(* ReplaceBulk from Clear to Bytes or Pattern, and from Clear to Xor. *)
BulkOp(off, bytes) ==
    [kind |-> "BulkBytes", off |-> off, n |-> Len(bytes), bytes |-> bytes]
XorOp(off, n) == [kind |-> "BulkXor", off |-> off, n |-> n]
PatchOp(off, n, before, after) ==
    [kind |-> "ReplacePatch", off |-> off, n |-> n, before |-> before,
     after |-> after]

(* Whether the document accepts the insertion or removal of an undo. *)
Removable(d, op) == op.off < DocLen(d)
Insertable(d, op) == op.off <= DocLen(d)
Covered(d, op) == op.off + op.n <= DocLen(d)

RangeKinds == {"BulkBytes", "BulkXor", "ReplacePatch"}

UndoPossible(d, op) ==
    CASE op.kind = "Insert" -> Removable(d, op)
      [] op.kind = "RealDelete" -> Insertable(d, op)
      [] op.kind \in RangeKinds -> Covered(d, op)
      [] OTHER -> TRUE

ApplyPossible(d, op) ==
    CASE op.kind = "Insert" -> Insertable(d, op)
      [] op.kind = "RealDelete" -> Removable(d, op)
      [] op.kind \in RangeKinds -> Covered(d, op)
      [] OTHER -> TRUE

UndoEditOp(d, op) ==
    CASE op.kind = "Insert" -> Cut(d, op.off, Len(op.cells))
      [] op.kind = "RealDelete" -> Splice(d, op.off, op.cells)
      [] op.kind = "Tombstone" -> [d EXCEPT !.tomb = @ \ op.ids]
      [] op.kind = "ReplaceBytes" ->
            [d EXCEPT !.repl = Over(Without(@, op.ids), op.before)]
      [] op.kind \in {"BulkBytes", "BulkXor"} -> ClearRange(d, op.off, op.n)
      [] op.kind = "ReplacePatch" ->
            [ClearRange(d, op.off, op.n) EXCEPT !.repl = Over(@, op.before)]

ApplyEditOp(d, op) ==
    CASE op.kind = "Insert" -> Splice(d, op.off, op.cells)
      [] op.kind = "RealDelete" -> Cut(d, op.off, Len(op.cells))
      [] op.kind = "Tombstone" -> [d EXCEPT !.tomb = @ \cup op.ids]
      [] op.kind = "ReplaceBytes" ->
            [d EXCEPT !.repl = Over(Without(@, op.ids), op.after)]
      [] op.kind = "BulkBytes" -> OverlayRun(d, op.off, op.bytes)
      [] op.kind = "BulkXor" -> OverlayXor(d, IdsAt(d, op.off, op.n))
      [] op.kind = "ReplacePatch" ->
            [ClearRange(d, op.off, op.n) EXCEPT !.repl = Over(@, op.after)]

(* The ops of a step are replayed in order, or undone in reverse order; the *)
(* first that fails ends the replay and leaves what was done before it.     *)
Unfailed(d) == [doc |-> d, ok |-> TRUE]

UndoInto(op, r) ==
    IF r.ok /\ UndoPossible(r.doc, op)
    THEN [r EXCEPT !.doc = UndoEditOp(@, op)]
    ELSE [r EXCEPT !.ok = FALSE]

ApplyInto(r, op) ==
    IF r.ok /\ ApplyPossible(r.doc, op)
    THEN [r EXCEPT !.doc = ApplyEditOp(@, op)]
    ELSE [r EXCEPT !.ok = FALSE]

UndoOpsUpTo(d, ops) ==
    LET walk[i \in 0..Len(ops)] ==
            IF i = 0 THEN Unfailed(d)
            ELSE UndoInto(ops[Len(ops) - i + 1], walk[i - 1])
    IN  walk

ApplyOpsUpTo(d, ops) ==
    LET walk[i \in 0..Len(ops)] ==
            IF i = 0 THEN Unfailed(d) ELSE ApplyInto(walk[i - 1], ops[i])
    IN  walk

UndoOps(d, ops) == UndoOpsUpTo(d, ops)[Len(ops)]
ApplyOps(d, ops) == ApplyOpsUpTo(d, ops)[Len(ops)]

(* Steps are undone, or redone, from the last one in the list. *)
RewoundUpTo(d, steps) ==
    LET walk[i \in 0..Len(steps)] ==
            IF i = 0 THEN Unfailed(d)
            ELSE IF walk[i - 1].ok
            THEN UndoOps(walk[i - 1].doc, steps[Len(steps) - i + 1].ops)
            ELSE walk[i - 1]
    IN  walk

RedoneUpTo(d, steps) ==
    LET walk[i \in 0..Len(steps)] ==
            IF i = 0 THEN Unfailed(d)
            ELSE IF walk[i - 1].ok
            THEN ApplyOps(walk[i - 1].doc, steps[Len(steps) - i + 1].ops)
            ELSE walk[i - 1]
    IN  walk

Rewound(d, steps) == RewoundUpTo(d, steps)[Len(steps)]
Redone(d, steps) == RedoneUpTo(d, steps)[Len(steps)]

-----------------------------------------------------------------------------
(* What is read, and what is undone. *)

(* What is shown: the display slots, each with its byte or deleted. *)
Display(d) ==
    [i \in DOMAIN d.cells |->
        IF d.cells[i] \in d.tomb THEN None ELSE Shown(d, d.cells[i])]

LogicalUpTo(d) ==
    LET walk[i \in 0..DocLen(d)] ==
            IF i = 0 THEN <<>>
            ELSE IF d.cells[i] \in d.tomb THEN walk[i - 1]
            ELSE Append(walk[i - 1], Shown(d, d.cells[i]))
    IN  walk

LogicalBytes(d) == LogicalUpTo(d)[DocLen(d)]

(* edit_op_has_effect *)
HasEffect(op) ==
    CASE op.kind \in {"Insert", "RealDelete"} -> op.cells # <<>>
      [] op.kind = "Tombstone" -> op.ids # {}
      [] op.kind \in {"BulkBytes", "BulkXor"} -> op.n > 0
      [] op.kind \in {"ReplaceBytes", "ReplacePatch"} -> op.before # op.after

(* What of the ops is kept in an undo record. *)
EffectiveUpTo(ops) ==
    LET walk[i \in 0..Len(ops)] ==
            IF i = 0 THEN <<>>
            ELSE IF HasEffect(ops[i]) THEN Append(walk[i - 1], ops[i])
            ELSE walk[i - 1]
    IN  walk

Effective(ops) == EffectiveUpTo(ops)[Len(ops)]

VisibleAt(d, off) == off < DocLen(d) /\ d.cells[off + 1] \notin d.tomb

(* The display offsets of the bytes that are not deleted, in order. *)
VisibleUpTo(d) ==
    LET walk[i \in 0..DocLen(d)] ==
            IF i = 0 THEN <<>>
            ELSE IF VisibleAt(d, i - 1) THEN Append(walk[i - 1], i - 1)
            ELSE walk[i - 1]
    IN  walk

VisibleOffsets(d) == VisibleUpTo(d)[DocLen(d)]

(* A match covers adjacent slots, none of them deleted. *)
MatchAt(d, off, pattern) ==
    \A i \in DOMAIN pattern :
        VisibleAt(d, off + i - 1) /\ Shown(d, d.cells[off + i]) = pattern[i]

SearchForward(d, from, pattern) ==
    LET hits == {off \in from..(DocLen(d) - 1) : MatchAt(d, off, pattern)}
    IN  IF hits = {} THEN None ELSE Min(hits)

SearchBackward(d, to, pattern) ==
    LET hits == {off \in 0..(to - Len(pattern)) : MatchAt(d, off, pattern)}
    IN  IF hits = {} THEN None ELSE Max(hits)

-----------------------------------------------------------------------------
(* The edits.  Each fails, or returns the document it leaves, the ops that  *)
(* undo it and how many bytes it wrote.                                    *)

Refused(d) == [ok |-> FALSE, doc |-> d, ops |-> <<>>, n |-> 0]
Edited(d, ops, n) == [ok |-> TRUE, doc |-> d, ops |-> ops, n |-> n]

(* Two edits one after the other, s of the document that r leaves. *)
Then(r, s) ==
    [ok |-> r.ok /\ s.ok, doc |-> s.doc, ops |-> r.ops \o s.ops, n |-> r.n + s.n]

(* replacement_patch_for_display_range before and after an edit. *)
PatchOver(before, after, off, n) ==
    LET ids == IdsAt(before, off, n)
    IN  <<PatchOp(off, n, Only(before.repl, ids), Only(after.repl, ids))>>

(* overwrite_run_bytes_overlay_changed: one op per run of changed cells. *)
ChangedUpTo(d, off, bytes) ==
    LET ids == CellsAt(d, off, Len(bytes))
        diff == {i \in DOMAIN ids : Shown(d, ids[i]) # bytes[i]}
        Start(i) == Min({j \in 1..i : j..i \subseteq diff})
        walk[i \in 0..Len(ids)] ==
            IF i = 0 THEN <<>>
            ELSE IF i \in diff /\ i + 1 \notin diff
            THEN Append(walk[i - 1], BulkOp(off + Start(i) - 1,
                                            SubSeq(bytes, Start(i), i)))
            ELSE walk[i - 1]
    IN  walk

ChangedRuns(d, off, bytes) ==
    ChangedUpTo(d, off, bytes)[Len(CellsAt(d, off, Len(bytes)))]

(* What of the bytes lies before the end of the document. *)
Applied(d, off, bytes) ==
    SubSeq(bytes, 1, Len(CellsAt(d, off, Len(bytes))))

OverwriteBytes(d, off, bytes) ==
    LET n == Len(Applied(d, off, bytes))
        ids == IdsAt(d, off, n)
        runs == ChangedRuns(d, off, bytes)
        after == ApplyOps(d, runs).doc
    IN  IF ids \cap d.tomb # {} THEN Refused(d)
        ELSE Edited(after,
                    IF Pristine(d, ids) THEN runs ELSE PatchOver(d, after, off, n), n)

(* fill_overwrite marks every cell it covers, changed or not. *)
FillOverwrite(d, off, bytes) ==
    LET n == Len(Applied(d, off, bytes))
        ids == IdsAt(d, off, n)
        after == OverlayRun(d, off, bytes)
    IN  IF ids \cap d.tomb # {} THEN Refused(d)
        ELSE Edited(after,
                    IF Pristine(d, ids) THEN <<BulkOp(off, Applied(d, off, bytes))>>
                    ELSE PatchOver(d, after, off, n), n)

(* xor_in_place over n slots.  A byte that is xored back to its base byte   *)
(* keeps its replacement here; the code drops some of those, which shows in *)
(* no byte.                                                                *)
XorRange(d, off, n) ==
    LET ids == IdsAt(d, off, n)
        visible == ids \ d.tomb
        after == [d EXCEPT !.repl =
                    Over(@, [x \in visible |-> Flipped(Shown(d, x))])]
    IN  IF Pristine(d, ids) THEN Edited(after, <<XorOp(off, Cardinality(ids))>>,
                                        Cardinality(ids))
        ELSE IF off + n > DocLen(d) THEN Refused(d)
        ELSE Edited(after, PatchOver(d, after, off, n), Cardinality(visible))

InsertRun(d, off, bytes) ==
    IF bytes = <<>> THEN Edited(d, <<>>, 0)
    ELSE IF off > DocLen(d) THEN Refused(d)
    ELSE Edited(InsertBytes(d, off, bytes),
                <<InsertOp(off, InsertedCells(d, bytes))>>, Len(bytes))

(* Slots that are deleted already are no part of the undo record. *)
TombstoneDelete(d, off, n) ==
    LET new == IdsAt(d, off, n) \ d.tomb
    IN  Edited([d EXCEPT !.tomb = @ \cup new], <<TombOp(new)>>, Cardinality(new))

RealDelete(d, off, n) ==
    IF off >= DocLen(d) THEN Refused(d)
    ELSE Edited(Cut(d, off, n), <<DeleteOp(off, CellsAt(d, off, n))>>,
                Len(CellsAt(d, off, n)))

-----------------------------------------------------------------------------
(* Replacing a needle. *)

(* Leftmost matches first, none overlapping the one before it. *)
MatchesUpTo(d, start, end, needle) ==
    LET k == Len(needle)
        walk[i \in 0..(end - start + 1)] ==
            IF i = 0 THEN <<>>
            ELSE LET off == start + i - 1
                     found == walk[i - 1]
                 IN  IF /\ MatchAt(d, off, needle) /\ off + k - 1 <= end
                        /\ (found = <<>> \/ off >= Last(found) + k)
                     THEN Append(found, off) ELSE found
    IN  walk

MatchesIn(d, start, end, needle) ==
    MatchesUpTo(d, start, end, needle)[end - start + 1]

(* Matches that touch are overwritten together, one undo record for all.   *)
RunEnds(matches, k, i) == i = Len(matches) \/ matches[i + 1] # matches[i] + k

RunStart(matches, k, i) ==
    Min({j \in 1..i : \A l \in j..(i - 1) : ~RunEnds(matches, k, l)})

Repeated(bytes, count) ==
    [i \in 1..(count * Len(bytes)) |-> bytes[((i - 1) % Len(bytes)) + 1]]

SameSizeUpTo(d, matches, bytes) ==
    LET Fill(r, i) ==
            LET first == RunStart(matches, Len(bytes), i)
            IN  Then(r, FillOverwrite(r.doc, matches[first],
                                      Repeated(bytes, i - first + 1)))
        walk[i \in 0..Len(matches)] ==
            IF i = 0 THEN Edited(d, <<>>, 0)
            ELSE IF RunEnds(matches, Len(bytes), i) THEN Fill(walk[i - 1], i)
            ELSE walk[i - 1]
    IN  walk

ReplaceSameSize(d, matches, needle, replacement) ==
    IF needle = replacement THEN Edited(d, <<>>, 0)
    ELSE SameSizeUpTo(d, matches, replacement)[Len(matches)]

(* From the last match to the first, so that no offset shifts under it. *)
ResizedUpTo(d, matches, needle, replacement) ==
    LET walk[i \in 0..Len(matches)] ==
            IF i = 0 THEN Edited(d, <<>>, 0)
            ELSE LET off == matches[Len(matches) - i + 1]
                     r == walk[i - 1]
                     cut == Then(r, RealDelete(r.doc, off, Len(needle)))
                 IN  Then(cut, InsertRun(cut.doc, off, replacement))
    IN  walk

ReplaceResizing(d, matches, needle, replacement) ==
    ResizedUpTo(d, matches, needle, replacement)[Len(matches)]

(* replace_range: nothing to replace is a success that edits nothing. *)
ReplaceRange(d, start, end, needle, replacement, resize, force, limit) ==
    LET matches == MatchesIn(d, start, end, needle)
    IN  IF needle = <<>> \/ (~resize /\ Len(needle) # Len(replacement))
           \/ (~force /\ Len(matches) > limit)
        THEN Refused(d)
        ELSE IF matches = <<>> THEN Edited(d, <<>>, 0)
        ELSE IF Len(needle) = Len(replacement)
        THEN ReplaceSameSize(d, matches, needle, replacement)
        ELSE ReplaceResizing(d, matches, needle, replacement)
=============================================================================
