------------------------------ MODULE PieceTable ------------------------------
(***************************************************************************)
(* core/piece_table.rs: the ordered list of pieces that describes the      *)
(* document, the append-only add buffer and the lazily rebuilt prefix-sum  *)
(* cache that offset lookup relies on.                                     *)
(*                                                                         *)
(* Byte values are abstracted away: a cell's identity determines its base  *)
(* byte, so the add buffer is represented by its length.  Offsets are      *)
(* 0-based as in the code, piece indices 1-based as in TLA+.               *)
(***************************************************************************)
EXTENDS Naturals, Sequences, SequencesExt, FiniteSets

CONSTANTS
    OriginalLen,    \* bytes in the file that was opened
    MaxAdd,         \* bound: bytes ever inserted
    MaxInsert,      \* bound: bytes inserted by one call
    MaxRemoved      \* bound: deletions whose cells have not been put back

ASSUME TableConstants ==
    /\ OriginalLen \in Nat /\ MaxAdd \in Nat
    /\ MaxInsert \in Nat \ {0} /\ MaxRemoved \in Nat

VARIABLES
    table,      \* the PieceTable struct
    removed     \* cell runs handed to the caller by delete_range_real; undo
                \* and redo put them back through insert_existing_cells

vars == <<table, removed>>

Sources == {"Original", "Add"}

CellId(src, off) == [source |-> src, off |-> off]

Piece(src, start, len) == [source |-> src, start |-> start, len |-> len]

NewTable ==
    [addLen      |-> 0,
     pieces      |-> IF OriginalLen = 0 THEN <<>>
                     ELSE <<Piece("Original", 0, OriginalLen)>>,
     len         |-> OriginalLen,
     prefixEnds  |-> <<>>,
     prefixDirty |-> TRUE]

IsIdentity(t) ==
    /\ t.len = OriginalLen
    /\ t.pieces = NewTable.pieces

(***************************************************************************)
(* Offset lookup                                                           *)
(***************************************************************************)

\* The display offset behind each piece, and 0 before the first.
Ends(ps) ==
    LET end[i \in 0..Len(ps)] == IF i = 0 THEN 0 ELSE end[i - 1] + ps[i].len
    IN  end

PrefixSums(ps) == [i \in 1..Len(ps) |-> Ends(ps)[i]]

EnsurePrefix(t) ==
    IF t.prefixDirty
    THEN [t EXCEPT !.prefixEnds = PrefixSums(t.pieces), !.prefixDirty = FALSE]
    ELSE t

\* Mutant: the search lands one piece early on a piece boundary.
FindPieceStrict(t, off) ==
    LET idx == Cardinality({i \in DOMAIN t.prefixEnds : t.prefixEnds[i] < off}) + 1
    IN  IF off >= t.len \/ t.pieces = <<>> \/ idx > Len(t.pieces) THEN 0 ELSE idx

\* The cache t.prefixEnds must have been ensured.  partition_point counts the
\* ends that are <= off; 0 stands for None.
FindPiece(t, off) ==
    LET idx == Cardinality({i \in DOMAIN t.prefixEnds : t.prefixEnds[i] <= off}) + 1
    IN  IF off >= t.len \/ t.pieces = <<>> \/ idx > Len(t.pieces) THEN 0 ELSE idx

\* Display offset at which piece idx starts, as the cache has it.
PieceStart(t, idx) == IF idx = 1 THEN 0 ELSE t.prefixEnds[idx - 1]

NoCell == CellId("None", 0)

Resolve(t0, off) ==
    LET t   == EnsurePrefix(t0)
        idx == FindPiece(t, off)
    IN  IF idx = 0 THEN NoCell
        ELSE CellId(t.pieces[idx].source,
                    t.pieces[idx].start + (off - PieceStart(t, idx)))

\* The cells of the part of piece p, which starts at display offset cursor,
\* that lies in [from, to).
Overlap(p, cursor, from, to) ==
    LET lo == IF from > cursor THEN from ELSE cursor
        hi == IF to < cursor + p.len THEN to ELSE cursor + p.len
    IN  IF lo < hi THEN [i \in 1..(hi - lo) |->
                            CellId(p.source, p.start + (lo - cursor) + i - 1)]
        ELSE <<>>

\* The cells of the pieces ps in [from, to), when the first starts at cursor.
Walk(ps, cursor, from, to) ==
    LET walk[i \in 0..Len(ps)] ==
            IF i = 0 THEN [cursor |-> cursor, out |-> <<>>]
            ELSE LET acc == walk[i - 1]
                 IN  [cursor |-> acc.cursor + ps[i].len,
                      out |-> acc.out \o Overlap(ps[i], acc.cursor, from, to)]
    IN  walk

CellIdsRange(t0, off, n) ==
    LET t     == EnsurePrefix(t0)
        end   == IF off + n < t.len THEN off + n ELSE t.len
        first == FindPiece(t, off)
        rest  == SubSeq(t.pieces, first, Len(t.pieces))
    IN  IF n = 0 \/ off >= t.len \/ first = 0 THEN <<>>
        ELSE Walk(rest, PieceStart(t, first), off, end)[Len(rest)].out

(***************************************************************************)
(* Mutation                                                                *)
(***************************************************************************)

\* Mutant: the split leaves the cache it was found through in place.
SplitKeepsCache(t0, off) ==
    LET t       == EnsurePrefix(t0)
        idx     == FindPiece(t, off)
        p       == t.pieces[idx]
        leftLen == off - PieceStart(t, idx)
        halves  == <<Piece(p.source, p.start, leftLen),
                     Piece(p.source, p.start + leftLen, p.len - leftLen)>>
    IN  IF off = 0 THEN [t |-> t0, idx |-> 1]
        ELSE IF off >= t0.len THEN [t |-> t0, idx |-> Len(t0.pieces) + 1]
        ELSE IF leftLen = 0 THEN [t |-> t, idx |-> idx]
        ELSE [t   |-> [t EXCEPT !.pieces = SubSeq(@, 1, idx - 1) \o halves
                                           \o SubSeq(@, idx + 1, Len(@))],
              idx |-> idx + 1]

\* Splits the piece that spans off.  Returns the table and the index at which
\* a new piece has to be inserted.
SplitPieceAt(t0, off) ==
    LET t       == EnsurePrefix(t0)
        idx     == FindPiece(t, off)
        p       == t.pieces[idx]
        leftLen == off - PieceStart(t, idx)
        halves  == <<Piece(p.source, p.start, leftLen),
                     Piece(p.source, p.start + leftLen, p.len - leftLen)>>
    IN  IF off = 0 THEN [t |-> t0, idx |-> 1]
        ELSE IF off >= t0.len THEN [t |-> t0, idx |-> Len(t0.pieces) + 1]
        ELSE IF idx = 0 THEN [t |-> t, idx |-> Len(t.pieces) + 1]
        ELSE IF leftLen = 0 THEN [t |-> t, idx |-> idx]
        ELSE IF leftLen = p.len THEN [t |-> t, idx |-> idx + 1]
        ELSE [t   |-> [t EXCEPT !.pieces = SubSeq(@, 1, idx - 1) \o halves
                                           \o SubSeq(@, idx + 1, Len(@)),
                                !.prefixDirty = TRUE],
              idx |-> idx + 1]

\* p continues the last piece of ps.
Continues(ps, p) ==
    /\ ps # <<>>
    /\ Last(ps).source = p.source
    /\ Last(ps).start + Last(ps).len = p.start

\* Appends p, merging it into the last piece when it continues it.
MergePiece(ps, p) ==
    IF p.len = 0 THEN ps
    ELSE IF Continues(ps, p) THEN [ps EXCEPT ![Len(ps)].len = @ + p.len]
    ELSE Append(ps, p)

\* Mutant: only empty pieces are dropped.
CoalesceEmptyOnly(ps) == SelectSeq(ps, LAMBDA p : p.len > 0)

\* What is left of the first pieces of ps when neighbours are merged.
Merged(ps) ==
    LET merged[i \in 0..Len(ps)] ==
            IF i = 0 THEN <<>> ELSE MergePiece(merged[i - 1], ps[i])
    IN  merged

Coalesce(ps) == Merged(ps)[Len(ps)]

CellsToPieces(run) ==
    Coalesce([i \in 1..Len(run) |-> Piece(run[i].source, run[i].off, 1)])

\* Places the pieces ps, n bytes long, at off; then coalesce and invalidate.
SplicePieces(t, off, ps, n) ==
    LET at == SplitPieceAt(t, IF off < t.len THEN off ELSE t.len)
    IN  [at.t EXCEPT
            !.pieces = Coalesce(SubSeq(@, 1, at.idx - 1) \o ps
                                \o SubSeq(@, at.idx, Len(@))),
            !.len = @ + n,
            !.prefixDirty = TRUE]

\* Mutant: the new piece is laid over the tail of the add buffer.
InsertOverTail(t, off, n) ==
    SplicePieces([t EXCEPT !.addLen = IF @ > n THEN @ ELSE n], off,
                 <<Piece("Add", 0, n)>>, n)

InsertedTable(t, off, n) ==
    SplicePieces([t EXCEPT !.addLen = @ + n], off,
                 <<Piece("Add", t.addLen, n)>>, n)

RestoredTable(t, off, run) == SplicePieces(t, off, CellsToPieces(run), Len(run))

DeletedTable(t, off, n) ==
    LET end  == IF off + n < t.len THEN off + n ELSE t.len
        from == SplitPieceAt(EnsurePrefix(t), off)
        to   == SplitPieceAt(from.t, end)
    IN  [to.t EXCEPT
            !.pieces = Coalesce(SubSeq(@, 1, from.idx - 1) \o SubSeq(@, to.idx, Len(@))),
            !.len = @ - (end - off),
            !.prefixDirty = TRUE]

(***************************************************************************)
(* The operations, as the document calls them                              *)
(***************************************************************************)

InsertBytes(off, n) ==
    /\ table.addLen + n <= MaxAdd
    /\ table' = InsertedTable(table, off, n)
    /\ UNCHANGED removed

InsertExistingCells(off, run) ==
    /\ table' = RestoredTable(table, off, run)
    /\ removed' = removed \ {run}

\* The second disjunct is the early return: len = 0, past the end.
DeleteRangeReal(off, n) ==
    LET run == CellIdsRange(table, off, n)
    IN  \/ /\ run # <<>>
           /\ Cardinality(removed) < MaxRemoved
           /\ table' = DeletedTable(table, off, n)
           /\ removed' = removed \cup {run}
        \/ /\ run = <<>>
           /\ UNCHANGED vars

\* Any read through resolve or cell_ids_range rebuilds a stale cache.
Lookup(off) ==
    /\ off < table.len
    /\ table' = EnsurePrefix(table)
    /\ UNCHANGED removed

Init == table = NewTable /\ removed = {}

Next ==
    \/ \E off \in 0..(table.len + 1), n \in 1..MaxInsert : InsertBytes(off, n)
    \/ \E off \in 0..table.len, run \in removed : InsertExistingCells(off, run)
    \/ \E off \in 0..table.len, n \in 0..(table.len + 1) : DeleteRangeReal(off, n)
    \/ \E off \in 0..table.len : Lookup(off)

Spec == Init /\ [][Next]_vars

(***************************************************************************)
(* Properties                                                              *)
(***************************************************************************)

PieceCells(p) == [i \in 1..p.len |-> CellId(p.source, p.start + i - 1)]

\* The cells of the first pieces of ps, one piece after the other.
Joined(ps) ==
    LET joined[i \in 0..Len(ps)] ==
            IF i = 0 THEN <<>> ELSE joined[i - 1] \o PieceCells(ps[i])
    IN  joined

CellsOf(ps) == Joined(ps)[Len(ps)]

\* The document the pieces describe, by definition.
Cells == CellsOf(table.pieces)

(***************************************************************************)
(* The struct's documented invariants: len is the sum of the piece         *)
(* lengths, no piece is empty or reaches past its source, neighbours that  *)
(* could be merged are merged, and a cache that is not marked stale is the *)
(* prefix sum of the pieces.                                               *)
(***************************************************************************)
Structure ==
    /\ table.len = Len(Cells)
    /\ \A i \in DOMAIN table.pieces :
          LET p == table.pieces[i]
          IN  /\ p.len > 0
              /\ p.start + p.len <= IF p.source = "Add" THEN table.addLen
                                    ELSE OriginalLen
              /\ i > 1 => ~Continues(SubSeq(table.pieces, 1, i - 1), p)
    /\ ~table.prefixDirty => table.prefixEnds = PrefixSums(table.pieces)

(***************************************************************************)
(* No cell is in the document twice, and none that a deletion handed out   *)
(* is still in it: otherwise one tombstone or replacement would show at    *)
(* two offsets.                                                            *)
(***************************************************************************)
CellsUnique ==
    /\ IsInjective(Cells)
    /\ \A run \in removed : ToSet(run) \cap ToSet(Cells) = {}

(***************************************************************************)
(* What the table answers agrees with the document the pieces describe:    *)
(* resolve and cell_ids_range, which go through the prefix cache and its   *)
(* binary search, and is_identity, which is_dirty trusts: true exactly     *)
(* when the document is the original file cell for cell, so that           *)
(* coalescing always finds the way back after every edit has been undone.  *)
(***************************************************************************)
QueriesExact ==
    /\ \A off \in 0..(table.len + 1) :
          Resolve(table, off) = IF off < Len(Cells) THEN Cells[off + 1] ELSE NoCell
    /\ \A off \in 0..table.len, n \in 0..(table.len + 1) :
          CellIdsRange(table, off, n) =
             SubSeq(Cells, off + 1, IF off + n < Len(Cells) THEN off + n ELSE Len(Cells))
    /\ IsIdentity(table) <=>
          Cells = [i \in 1..OriginalLen |-> CellId("Original", i - 1)]

\* The piece table implements the sequence of cells.
Abstract == INSTANCE CellSequence
                WITH cells <- Cells, added <- table.addLen, removed <- removed

RefinesCellSequence == Abstract!Spec
===============================================================================
