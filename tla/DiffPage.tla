------------------------------ MODULE DiffPage ------------------------------
(***************************************************************************)
(* The :diff page: what is drawn of the document next to another file.      *)
(* The bytes around the rows on screen and the part of the file opposite   *)
(* them go through the diff engine (diff/engine.rs), which cuts both into  *)
(* equal runs and hunks; the hunks are laid out as cells that face each    *)
(* other and the page is cut out of those (app/render/diff_projection.rs). *)
(*                                                                         *)
(* Everything here is a function of the document of DocumentReads, the     *)
(* other file, the first row and the shift: the page keeps nothing from    *)
(* one frame to the next.                                                  *)
(***************************************************************************)
EXTENDS DocumentReads

CONSTANTS
    Others,         \* files a document is compared with
    MaxShifts,      \* DiffOptions.max_shift, set by :diff
    AnchorLen, VerifyLen, HunkCap,  \* the other DiffOptions
    DiffBlock,      \* DEFAULT_CHUNK_SIZE, the least unresolved block
    TieSample,      \* TIE_FOLLOWING_SAMPLE
    SameGrams,      \* CANDIDATES_PER_HASH_CAP
    RenderShift,    \* DIFF_RENDER_MAX_SHIFT
    ExtraContext,   \* DIFF_RENDER_EXTRA_CONTEXT
    ReadLen,        \* max_contiguous_read_len
    BytesPerLine, ViewRows

ASSUME DiffConstants ==
    /\ Others \subseteq Seq(Byte) /\ MaxShifts \subseteq Nat
    /\ {VerifyLen, TieSample, ExtraContext} \subseteq Nat
    /\ {AnchorLen, HunkCap, DiffBlock, SameGrams, RenderShift, ReadLen, BytesPerLine,
      ViewRows}
            \subseteq Nat \ {0}

-----------------------------------------------------------------------------
(* The engine over two streams l and r, of which i and j bytes are consumed. *)
(* A hunk stands for n bytes of l and m of r.                               *)

Both(l, r, i, j) == 0..Least(Len(l) - i, Len(r) - j)

(* consume_equal_run *)
EqualRun(l, r, i, j) ==
    Max({n \in Both(l, r, i, j) : \A k \in 1..n : l[i + k] = r[j + k]})

DifferingRun(l, r, i, j) ==
    Max({n \in Both(l, r, i, j) : \A k \in 1..n : l[i + k] # r[j + k]})

KindOf(n, m) ==
    IF m = 0 THEN "OnlyCurrent" ELSE IF n = 0 THEN "OnlyOther" ELSE "Replace"

(* push_hunk *)
Hunk(kind, i, n, j, m) == [kind |-> kind, at |-> i, n |-> n, other |-> j, m |-> m]

Hunks == [kind: {"OnlyCurrent", "OnlyOther", "Replace", "Unresolved"},
          at: Nat, n: Nat, other: Nat, m: Nat]

(* How far both streams are consumed after the first k of the hunks. *)
After(hunks, k) ==
    IF k = 0 THEN [i |-> 0, j |-> 0]
    ELSE [i |-> hunks[k].at + hunks[k].n, j |-> hunks[k].other + hunks[k].m]

(* Without shifts: up to the next equal byte, and one byte of what goes on  *)
(* when the other stream ends.                                             *)
StrictMismatch(l, r, i, j) ==
    LET run == DifferingRun(l, r, i, j)
        left == Len(l) - i - run
        right == Len(r) - j - run
        n == run + (IF left > 0 /\ right = 0 THEN 1 ELSE 0)
        m == run + (IF left = 0 /\ right > 0 THEN 1 ELSE 0)
    IN  Hunk(KindOf(n, m), i, n, j, m)

(* The bytes find_anchor looks at, and the runs of AnchorLen in them that   *)
(* hold two different bytes.                                               *)
Lookahead(bytes, from, shift) ==
    SubSeq(bytes, from + 1,
           Least(Len(bytes), from + shift + AnchorLen + VerifyLen + TieSample))

Gram(w, p) == SubSeq(w, p + 1, p + AnchorLen)

GramPlaces(w, shift) ==
    {p \in 0..Least(shift, Len(w) - AnchorLen) : Cardinality(ToSet(Gram(w, p))) > 1}

(* Of the places with one gram, the first few are remembered. *)
Remembered(w, shift) ==
    {p \in GramPlaces(w, shift) :
        Cardinality({q \in GramPlaces(w, shift) : q < p /\ Gram(w, q) = Gram(w, p)})
            < SameGrams}

Distance(p, q) == IF p > q THEN p - q ELSE q - p

(* better_than: the least skipped, then the most even, then the most equal  *)
(* bytes behind the anchor; of equals the one found first.                 *)
Better(a, b) ==
    LET sumA == a.n + a.m
        sumB == b.n + b.m
        farA == Distance(a.n, a.m)
        farB == Distance(b.n, b.m)
    IN  \/ sumA < sumB
        \/ sumA = sumB /\ farA < farB
        \/ sumA = sumB /\ farA = farB /\ a.following > b.following
        \/ sumA = sumB /\ farA = farB /\ a.following = b.following /\ a.n < b.n

(* How many bytes agree behind the anchor, of the few that are compared. *)
Following(lw, rw, p, q) ==
    Least(VerifyLen + TieSample, EqualRun(lw, rw, p + AnchorLen, q + AnchorLen))

Skips == [n: Nat, m: Nat, following: Nat]

(* find_anchor: how far to skip in either window to where both agree again. *)
Anchors[lw \in Seq(Byte), rw \in Seq(Byte), shift \in Nat] ==
    {[n |-> p, m |-> q, following |-> Following(lw, rw, p, q)] :
        <<p, q>> \in {pq \in GramPlaces(lw, shift) \X Remembered(rw, shift) :
                        /\ pq # <<0, 0>>
                        /\ Gram(lw, pq[1]) = Gram(rw, pq[2])
                        /\ Following(lw, rw, pq[1], pq[2]) >= VerifyLen}}

Best[anchors \in SUBSET Skips] ==
    CHOOSE a \in anchors : \A b \in anchors \ {a} : Better(a, b)

(* emit_unresolved_block *)
Unresolved(l, r, i, j, shift) ==
    LET block == Greatest(DiffBlock, 4 * shift)
    IN  Hunk("Unresolved", i, Least(block, Len(l) - i), j, Least(block, Len(r) - j))

(* The hunk at a byte that differs, or the rest when a stream has ended. *)
Mismatch[l \in Seq(Byte), r \in Seq(Byte), i \in Nat, j \in Nat, shift \in Nat] ==
    LET anchors == Anchors[Lookahead(l, i, shift), Lookahead(r, j, shift), shift]
        To[a \in Skips] == Hunk(KindOf(a.n, a.m), i, a.n, j, a.m)
    IN  IF Len(l) = i \/ Len(r) = j
        THEN Hunk(KindOf(Len(l) - i, Len(r) - j), i, Len(l) - i, j, Len(r) - j)
        ELSE IF shift = 0 THEN StrictMismatch(l, r, i, j)
        ELSE IF anchors = {} THEN Unresolved(l, r, i, j, shift)
        ELSE To[Best[anchors]]

(* Engine.run over two streams, by the hunks found so far.  A hunk beyond   *)
(* the cap is lost, and so is all behind it.                               *)
DiffSources[l \in Seq(Byte), r \in Seq(Byte), shift \in Nat, cap \in Nat] ==
    LET run[hunks \in Seq(Hunks)] ==
            LET end == After(hunks, Len(hunks))
                equal == EqualRun(l, r, end.i, end.j)
                i == end.i + equal
                j == end.j + equal
            IN  IF i = Len(l) /\ j = Len(r) THEN [hunks |-> hunks, truncated |-> FALSE]
                ELSE IF Len(hunks) = cap THEN [hunks |-> hunks, truncated |-> TRUE]
                ELSE run[Append(hunks, Mismatch[l, r, i, j, shift])]
    IN  run[<<>>]

-----------------------------------------------------------------------------
(* The cells: a byte of the document, shown at display offset `at', a byte  *)
(* of the other file, at offset `from', or one of each that face each      *)
(* other.  w and o are the windows: the document's bytes with their        *)
(* display offsets, and those of the file from offset o.start on.          *)

Nothing == [at |-> None, byte |-> None]
Blank == [kind |-> "Gap", at |-> None, byte |-> None, from |-> None, other |-> None,
          anchor |-> None]

Cells == [kind: {"OnlyCurrent", "OnlyOther", "Equal", "Replace", "Gap"},
          at: Nat \cup {None}, byte: Byte \cup {None}, from: Nat \cup {None},
          other: Byte \cup {None}, anchor: Nat \cup {None}]

CellOf(cur, from, byte, anchor) ==
    [kind |-> CASE byte = None -> "OnlyCurrent"
                [] byte # None /\ cur.byte = None -> "OnlyOther"
                [] OTHER -> IF cur.byte = byte THEN "Equal" ELSE "Replace",
     at |-> cur.at, byte |-> cur.byte, from |-> from, other |-> byte, anchor |-> anchor]

(* map_equal_alignment and map_replace_alignment: n cells of the document   *)
(* and what the file has at the same distance, if anything.                *)
Facing(w, o, i, j, n) ==
    [k \in 1..n |->
        LET inside == j + k <= Len(o.bytes)
        IN  CellOf(w[i + k], IF inside THEN o.start + j + k - 1 ELSE None,
                   IF inside THEN o.bytes[j + k] ELSE None, w[i + k].at)]

(* map_only_current_alignment *)
CurrentOnly(w, i, n) ==
    [k \in 1..n |-> CellOf(w[i + k], None, None, w[i + k].at)]

(* anchor_display_for_current: the byte in front of which the cells go, or  *)
(* the slot behind the last one.                                           *)
AnchorDisplay(w, i) == IF i < Len(w) THEN w[i + 1].at ELSE w[Len(w)].at + 1

(* map_only_other_alignment *)
OtherOnly(w, o, i, j, m) ==
    [k \in 1..m |-> CellOf(Nothing, o.start + j + k - 1, o.bytes[j + k],
                           AnchorDisplay(w, i))]

HunkCells(w, o, h) ==
    LET shared == Least(h.n, h.m)
    IN  Facing(w, o, h.at, h.other, shared)
        \o CurrentOnly(w, h.at + shared, h.n - shared)
        \o OtherOnly(w, o, h.at + shared, h.other + shared, h.m - shared)

(* The equal run in front of hunk k, or behind the last one. *)
EqualCells(w, o, hunks, k) ==
    LET end == After(hunks, k - 1)
    IN  Facing(w, o, end.i, end.j, (IF k > Len(hunks) THEN Len(w) ELSE hunks[k].at) - end.i)

(* Mutant: the hunks are faced in front of the equal runs before them. *)
AlignmentHunksFirst(w, o, hunks) ==
    FlattenSeq([k \in DOMAIN hunks |->
                    HunkCells(w, o, hunks[k]) \o EqualCells(w, o, hunks, k)])
    \o EqualCells(w, o, hunks, Len(hunks) + 1)

(* build_diff_alignment *)
Alignment(w, o, hunks) ==
    FlattenSeq([k \in DOMAIN hunks |->
                    EqualCells(w, o, hunks, k) \o HunkCells(w, o, hunks[k])])
    \o EqualCells(w, o, hunks, Len(hunks) + 1)

-----------------------------------------------------------------------------
(* The windows around the rows on screen, which begin at slot top.          *)

Room == BytesPerLine * ViewRows

Context(shift) == shift + AnchorLen + VerifyLen + ExtraContext

Chunks == [source: {"Original", "Add"}, from: Nat, at: Nat, len: Nat]

Windows == Seq([at: Nat, byte: Byte])

FileWindows == [start: Nat, bytes: Seq(Byte)]

(* collect_diff_window_bytes: through the walk, without deleted slots.      *)
WindowOf[chunks \in Seq(Chunks)] ==
    SelectSeq(FlattenSeq([k \in DOMAIN chunks |->
                    [i \in 1..chunks[k].len |->
                        [at |-> chunks[k].at + i - 1, byte |-> VisibleCells(chunks[k])[i]]]]),
              LAMBDA b : b.byte # None)

(* The logical offset of its first byte is its slot if none is deleted.     *)
FirstLogical(w, start) == IF tomb = {} THEN start ELSE LogicalOffset(w[1].at)

(* collect_other_diff_window_bytes, over both ends. *)
OtherWindow(other, first, last) ==
    [start |-> first, bytes |-> Slice(other, first, last - first + 1)]

(* The cells of two windows that are not empty. *)
AlignedCells[w \in Windows, o \in FileWindows, hunks \in Seq(Hunks)] ==
    Alignment(w, o, hunks)

(* diff_alignment_for_visible, with what is on screen of the document; it   *)
(* finds nothing to face when the file ends in front of the window.        *)
AlignmentFor[w \in Windows, other \in Seq(Byte), start \in Nat, shift \in Nat] ==
    LET first == FirstLogical(w, start)
        o == OtherWindow(other, Greatest(0, first - shift),
                         first + Len(w) - 1 + Context(shift) + shift)
        bytes == [k \in DOMAIN w |-> w[k].byte]
        cap == Greatest(HunkCap, 4 * ViewRows)
    IN  IF w = <<>> THEN [cells |-> <<>>, facing |-> TRUE]
        ELSE IF o.bytes = <<>> THEN [cells |-> <<>>, facing |-> FALSE]
        ELSE [cells |-> AlignedCells[w, o, DiffSources[bytes, o.bytes, shift, cap].hunks],
              facing |-> TRUE]

VisibleAlignment(other, top, max_shift, limit) ==
    LET shift == Least(max_shift, RenderShift)
        start == Greatest(0, top - Context(shift))
        end == Least(DocEnd, top + Room + Context(shift))
    IN  AlignmentFor[WindowOf[Walk(start, end, limit)], other, start, shift]

-----------------------------------------------------------------------------
(* The page *)

(* projected_visible_diff_page: from the first cell that is not in front of *)
(* the first row.                                                          *)
ProjectedPage(cells, top) ==
    LET from == {k \in DOMAIN cells : cells[k].anchor >= top}
        shown == IF from = {} THEN <<>> ELSE SubSeq(cells, Min(from), Len(cells))
    IN  [k \in 1..Room |-> IF k <= Len(shown) THEN shown[k] ELSE Blank]

(* diff_cell_for_slot: what the file has at the same logical offset, or,    *)
(* behind the end of the document, at the same slot.                       *)
SlotCell(other, off, byte, facing) ==
    LET from == IF off >= DocEnd THEN off ELSE LogicalOffset(off)
        there == /\ from # None /\ from < Len(other)
                 /\ facing \/ off >= DocEnd
        opposite == IF there THEN other[from + 1] ELSE None
        cell == CellOf([at |-> IF byte = None THEN None ELSE off, byte |-> byte],
                       IF there THEN from ELSE None, opposite, off)
    IN  IF byte = None /\ opposite = None THEN Blank ELSE cell

(* row_bytes, for each row. *)
Slots(top) ==
    FlattenSeq([row \in 1..ViewRows |->
        LET off == top + (row - 1) * BytesPerLine
        IN  WalkCells(off, Least(DocEnd, off + BytesPerLine), BytesPerLine)])

SlotPage(other, top, facing) ==
    LET slots == Slots(top)
    IN  [k \in 1..Room |->
            SlotCell(other, top + k - 1, IF k <= Len(slots) THEN slots[k] ELSE None,
                     facing)]

Alignments == [cells: Seq(Cells), facing: BOOLEAN]

(* visible_diff_page; without shifts there is no alignment. *)
PageOf[alignment \in Alignments, other \in Seq(Byte), top \in Nat] ==
    IF alignment.cells # <<>> THEN ProjectedPage(alignment.cells, top)
    ELSE SlotPage(other, top, alignment.facing)

VisibleDiffPage(other, top, max_shift, limit) ==
    PageOf[IF max_shift = 0 THEN [cells |-> <<>>, facing |-> TRUE]
           ELSE VisibleAlignment(other, top, max_shift, limit), other, top]

-----------------------------------------------------------------------------
(* Properties *)

(* Between the hunks both streams agree byte for byte, and hunks and equal  *)
(* runs cover both: with its bytes in the places of the hunks, l becomes r. *)
HunksTile(l, r, d) ==
    LET hunks == d.hunks
        end(k) == After(hunks, k)
        Same(i, j, n) == SubSeq(l, i + 1, i + n) = SubSeq(r, j + 1, j + n)
    IN  /\ \A k \in DOMAIN hunks :
              LET h == hunks[k]
                  n == h.at - end(k - 1).i
              IN  /\ n >= 0 /\ h.other - end(k - 1).j = n
                  /\ Same(end(k - 1).i, end(k - 1).j, n)
                  /\ h.n + h.m > 0
                  /\ h.kind # "Unresolved" => h.kind = KindOf(h.n, h.m)
                  /\ end(k).i <= Len(l) /\ end(k).j <= Len(r)
        /\ ~d.truncated =>
              LET n == Len(l) - end(Len(hunks)).i
              IN  /\ n = Len(r) - end(Len(hunks)).j
                  /\ Same(end(Len(hunks)).i, end(Len(hunks)).j, n)

(* A page of what begins at top, on either side nothing out of order,       *)
(* nothing twice and, unless a page without shifts has holes where slots    *)
(* are deleted, nothing left out.  It ends only where the document ends     *)
(* (deleted slots can leave its window too short).                          *)
PageHonest(page, other, top, shift, shown) ==
    LET cur == SelectSeq(page, LAMBDA c : c.at # None)
        oth == SelectSeq(page, LAMBDA c : c.from # None)
        visible == {off \in top..(DocEnd - 1) : shown[off + 1] # None}
    IN  /\ {cur[k].at : k \in DOMAIN cur}
              = {off \in visible : cur # <<>> /\ off <= cur[Len(cur)].at}
        /\ \A k \in DOMAIN cur : cur[k].byte = shown[cur[k].at + 1]
        /\ \A k \in 2..Len(cur) : cur[k].at > cur[k - 1].at
        /\ \A k \in DOMAIN oth : oth[k].other = other[oth[k].from + 1]
        /\ \A k \in 2..Len(oth) :
              IF tomb = {} \/ shift # 0 THEN oth[k].from = oth[k - 1].from + 1
              ELSE oth[k].from > oth[k - 1].from
        /\ tomb = {} /\ Blank \in ToSet(page) => Len(cur) = Cardinality(visible)

Tops == {row * BytesPerLine : row \in 0..(DocEnd \div BytesPerLine)}

(* Whatever shift the diff engine settles for, with whatever cap on hunks,  *)
(* its hunks and the equal runs between them account for both streams; and *)
(* the page, cut out of windows that begin at different places, shows the  *)
(* document from the first row on in order next to one piece of the file   *)
(* in order, byte for byte (diff/engine.rs, app/render/diff_projection.rs). *)
DiffExact ==
    \A other \in Others, shift \in MaxShifts, shown \in {Display(AsDocument)} :
        /\ \A cap \in {1, HunkCap}, logical \in {SelectSeq(shown, LAMBDA b : b # None)} :
              \A d \in {DiffSources[logical, other, shift, cap]} :
                  HunksTile(logical, other, d)
        /\ DocEnd > 0 => \A top \in Tops :
              \A page \in {VisibleDiffPage(other, top, shift, ReadLen)} :
                  PageHonest(page, other, top, shift, shown)
=============================================================================
