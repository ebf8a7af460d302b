----------------------------- MODULE CellSequence -----------------------------
(***************************************************************************)
(* What the piece table promises its clients: a document is a sequence of  *)
(* cells.  A cell is one byte of the original file or one byte ever        *)
(* inserted; it keeps its identity wherever it moves, which is what lets   *)
(* tombstones and replacements be keyed by cell.  Nothing here mentions    *)
(* pieces, splitting, coalescing or the prefix-sum cache.                  *)
(***************************************************************************)
EXTENDS Naturals, Sequences

CONSTANTS
    OriginalLen,    \* bytes in the file that was opened
    MaxAdd,         \* bound: bytes ever inserted
    MaxInsert       \* bound: bytes inserted by one call

VARIABLES
    cells,      \* the document, one cell per display offset
    added,      \* how many bytes have ever been inserted
    removed     \* what earlier deletions returned and has not been put back

CellId(src, off) == [source |-> src, off |-> off]

\* The n cells of one source that start at offset start.
CellRun(src, start, n) == [i \in 1..n |-> CellId(src, start + i - 1)]

Init ==
    /\ cells = CellRun("Original", 0, OriginalLen)
    /\ added = 0
    /\ removed = {}

\* s with the sequence t placed so that its first element has offset off.
SpliceIn(s, off, t) == SubSeq(s, 1, off) \o t \o SubSeq(s, off + 1, Len(s))

InsertBytes(off, n) ==
    /\ added + n <= MaxAdd
    /\ cells' = SpliceIn(cells, off, CellRun("Add", added, n))
    /\ added' = added + n
    /\ UNCHANGED removed

InsertExistingCells(off, run) ==
    /\ cells' = SpliceIn(cells, off, run)
    /\ removed' = removed \ {run}
    /\ UNCHANGED added

DeleteRangeReal(off, n) ==
    /\ cells' = SubSeq(cells, 1, off) \o SubSeq(cells, off + n + 1, Len(cells))
    /\ removed' = removed \cup {SubSeq(cells, off + 1, off + n)}
    /\ UNCHANGED added

Next ==
    \/ \E off \in 0..Len(cells), n \in 1..MaxInsert : InsertBytes(off, n)
    \/ \E off \in 0..Len(cells), run \in removed : InsertExistingCells(off, run)
    \/ \E off \in 0..Len(cells) : \E n \in 1..(Len(cells) - off) :
          DeleteRangeReal(off, n)

Spec == Init /\ [][Next]_<<cells, added, removed>>
===============================================================================
