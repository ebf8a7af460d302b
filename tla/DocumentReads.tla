---------------------------- MODULE DocumentReads ----------------------------
(***************************************************************************)
(* How the bytes of a document are read (core/document/walk.rs, read.rs,    *)
(* search.rs, core/page_cache.rs) and how matches are collected            *)
(* (exec/replace.rs).  Readers never see the whole document: they walk the *)
(* pieces in chunks, take another path through every chunk according to    *)
(* what overlays it, and carry what they need from one chunk to the next.  *)
(*                                                                         *)
(* Original offset i is cell i + 1 and the add buffer follows, so that     *)
(* AsDocument is the document of module DocumentEdits, the reference here. *)
(***************************************************************************)
EXTENDS DocumentEdits

CONSTANTS
    Original,       \* the file
    Used,           \* the bytes that are written into it
    Inserted,       \* what may have been inserted in its middle to begin with
    MaxAdd,         \* bound: bytes ever inserted
    MaxEdits,       \* bound: edits
    Limits,         \* chunk limits, after walk_chunk_limit
    Patterns,       \* what is searched for
    PageSize, PageCount,    \* PageCache: page_size and capacity
    MaxReads        \* bound: reads through the page cache

ASSUME ReaderConstants ==
    /\ {Original, Inserted} \subseteq Seq(Byte) /\ Used \subseteq Byte
    /\ {MaxAdd, MaxEdits, MaxReads} \subseteq Nat
    /\ Limits \subseteq Nat \ {0} /\ Patterns \subseteq Seq(Byte)
    /\ PageSize \in Nat \ {0} /\ PageCount \in Nat \ {0}

VARIABLES
    table,      \* Document.pieces
    add,        \* the add buffer
    tomb,       \* Document.tombstones
    repl,       \* the byte that replaces a cell
    ranged,     \* the cells a range replacement covers, not a sparse one
    pages,      \* PageCache.entries, by page
    generation, \* PageCache.generation
    got,        \* the last read through the cache and what it returned
    edits, reads    \* counters of the bounds

vars == <<table, add, tomb, repl, ranged, pages, generation, got, edits, reads>>

PT == INSTANCE PieceTable WITH
    OriginalLen <- Len(Original), MaxAdd <- MaxAdd, MaxInsert <- MaxAdd + 1,
    MaxRemoved <- 0, table <- table, removed <- <<>>

Source(source) == IF source = "Original" THEN Original ELSE add

Cell(source, off) == off + 1 + (IF source = "Original" THEN 0 ELSE Len(Original))

DocEnd == table.len

AsDocument ==
    LET ids == PT!CellIdsRange(table, 0, DocEnd)
    IN  [base |-> Original \o add,
         cells |-> [i \in DOMAIN ids |-> Cell(ids[i].source, ids[i].off)],
         tomb |-> tomb, repl |-> repl]

Dirty == tomb # {} \/ DOMAIN repl # {}

-----------------------------------------------------------------------------
(* The chunks of a walk over [start, end): never across two pieces, never   *)
(* longer than the limit.                                                  *)

Chunk(p, at, lo, n) ==
    [source |-> p.source, from |-> p.start + (lo - at), at |-> lo, len |-> n]

Greatest(a, b) == IF a > b THEN a ELSE b
Pieces(n, limit) == (n + limit - 1) \div limit

ChunksUp(p, at, lo, hi, limit) ==
    [k \in 1..Pieces(hi - lo, limit) |->
        LET from == lo + (k - 1) * limit
        IN  Chunk(p, at, from, Least(limit, hi - from))]

ChunksDown(p, at, lo, hi, limit) ==
    [k \in 1..Pieces(hi - lo, limit) |->
        LET to == hi - (k - 1) * limit
            from == Greatest(lo, to - limit)
        IN  Chunk(p, at, from, to - from)]

(* The pieces with their display offsets, and the part of each in range. *)
WalkPieces(start, end, Carve(_, _, _, _)) ==
    FoldLeft(LAMBDA acc, p :
                LET lo == Greatest(start, acc.at)
                    hi == Least(end, acc.at + p.len)
                IN  [at |-> acc.at + p.len,
                     out |-> IF lo < hi THEN Append(acc.out, Carve(p, acc.at, lo, hi))
                             ELSE acc.out],
             [at |-> 0, out |-> <<>>], table.pieces).out

Walk(start, end, limit) ==
    FlattenSeq(WalkPieces(start, end, LAMBDA p, at, lo, hi :
                                        ChunksUp(p, at, lo, hi, limit)))

WalkReverse(start, end, limit) ==
    FlattenSeq(Reverse(WalkPieces(start, end, LAMBDA p, at, lo, hi :
                                                ChunksDown(p, at, lo, hi, limit))))

Raw(c) == SubSeq(Source(c.source), c.from + 1, c.from + c.len)
IdAt(c, i) == Cell(c.source, c.from + i - 1)
IdsIn(c) == {IdAt(c, i) : i \in 1..c.len}

(* overlay_flags *)
NeedTombs(c) == tomb # {} /\ IdsIn(c) \cap tomb # {}
NeedRepl(c) == DOMAIN repl # {} /\ IdsIn(c) \cap DOMAIN repl # {}
Fast(c) == ~NeedTombs(c) /\ ~NeedRepl(c)
HasRange(c) == NeedRepl(c) /\ IdsIn(c) \cap ranged # {}

Deleted(c, i) == NeedTombs(c) /\ IdAt(c, i) \in tomb
ByteAt(c, i) ==
    IF NeedRepl(c) /\ IdAt(c, i) \in DOMAIN repl THEN repl[IdAt(c, i)] ELSE Raw(c)[i]

(* 1-based places of a chunk, in order: its sparse replacements, and those  *)
(* and its tombstones.                                                     *)
SparsePlaces(c) ==
    SelectSeq([i \in 1..c.len |-> i],
              LAMBDA i : IdAt(c, i) \in DOMAIN repl \ ranged)
DirtyPlaces(c) ==
    SelectSeq([i \in 1..c.len |-> i],
              LAMBDA i : Deleted(c, i) \/ IdAt(c, i) \in DOMAIN repl \ ranged)

-----------------------------------------------------------------------------
(* walk_logical_chunks: tombstones are skipped, replacements applied. *)

(* Mutant: the byte under a sparse replacement is kept next to it. *)
SparsePatchedTwice(c) ==
    LET last == FoldLeft(LAMBDA acc, i :
                    [out |-> acc.out \o SubSeq(Raw(c), acc.cursor, i - 1)
                                     \o <<repl[IdAt(c, i)]>>,
                     cursor |-> i],
                 [out |-> <<>>, cursor |-> 1], SparsePlaces(c))
    IN  last.out \o SubSeq(Raw(c), last.cursor, c.len)

(* Raw runs between the sparse replacements. *)
SparsePatched(c) ==
    LET last == FoldLeft(LAMBDA acc, i :
                    [out |-> acc.out \o SubSeq(Raw(c), acc.cursor, i - 1)
                                     \o <<repl[IdAt(c, i)]>>,
                     cursor |-> i + 1],
                 [out |-> <<>>, cursor |-> 1], SparsePlaces(c))
    IN  last.out \o SubSeq(Raw(c), last.cursor, c.len)

CellByCell(c) ==
    LET kept == SelectSeq([i \in 1..c.len |-> i], LAMBDA i : ~Deleted(c, i))
    IN  [k \in DOMAIN kept |-> ByteAt(c, kept[k])]

LogicalChunk(c) ==
    IF Fast(c) THEN Raw(c)
    ELSE IF NeedRepl(c) /\ ~NeedTombs(c) /\ ~HasRange(c) THEN SparsePatched(c)
    ELSE CellByCell(c)

WalkLogical(start, end, limit) ==
    LET chunks == Walk(start, end, limit)
    IN  FlattenSeq([k \in DOMAIN chunks |-> LogicalChunk(chunks[k])])

(* walk_visible_cells: deleted cells stay in their places. *)
VisibleCells(c) ==
    [i \in 1..c.len |-> IF Deleted(c, i) THEN None ELSE ByteAt(c, i)]

WalkCells(start, end, limit) ==
    LET chunks == Walk(start, end, limit)
    IN  FlattenSeq([k \in DOMAIN chunks |-> VisibleCells(chunks[k])])

(* Chunks from the last to the first, cells in each in display order. *)
WalkCellsReverse(start, end, limit) ==
    LET chunks == WalkReverse(start, end, limit)
    IN  FlattenSeq([k \in DOMAIN chunks |-> Reverse(VisibleCells(chunks[k]))])

-----------------------------------------------------------------------------
(* Display offsets and logical offsets, by counting tombstones per piece.   *)

PieceChunk(p) == Chunk(p, 0, 0, p.len)

(* tombstone_count_in_piece_prefix: over the first n slots of the piece. *)
TombsInPrefix(p, n) == Cardinality(IdsIn([PieceChunk(p) EXCEPT !.len = n]) \cap tomb)

VisibleIn(p) == p.len - TombsInPrefix(p, p.len)

(* The pieces that end before the wanted place are passed over whole: what *)
(* is left is its piece, and what was counted in front of it.              *)
Passed(Stays(_, _)) ==
    FoldLeft(LAMBDA acc, p :
                IF acc.piece # None \/ Stays(acc, p)
                THEN [acc EXCEPT !.piece = IF @ = None THEN <<p>> ELSE @]
                ELSE [acc EXCEPT !.display = @ + p.len, !.logical = @ + VisibleIn(p)],
             [piece |-> None, display |-> 0, logical |-> 0], table.pieces)

LogicalOffset(off) ==
    IF off >= DocEnd \/ AsDocument.cells[off + 1] \in tomb THEN None
    ELSE LET at == Passed(LAMBDA acc, p : acc.display + p.len > off)
             n == off - at.display
         IN  at.logical + n - TombsInPrefix(at.piece[1], n)

(* From the n-th visible byte of the piece to its slot: one further for     *)
(* each tombstone up to it.                                                *)
StepOver(p, n) ==
    FoldLeft(LAMBDA local, i : IF IdAt(PieceChunk(p), i) \in tomb /\ i - 1 <= local
                               THEN local + 1 ELSE local,
             n, [i \in 1..p.len |-> i])

VisibleLen == FoldLeft(LAMBDA sum, p : sum + VisibleIn(p), 0, table.pieces)

DisplayOffset(off) ==
    IF off >= VisibleLen THEN None
    ELSE LET at == Passed(LAMBDA acc, p : acc.logical + VisibleIn(p) > off)
             local == StepOver(at.piece[1], off - at.logical)
         IN  IF local < at.piece[1].len THEN at.display + local ELSE None

-----------------------------------------------------------------------------
(* walk_visible_byte_segments: a tombstone ends a segment. *)

Segment(at, bytes) == [at |-> at, bytes |-> bytes]
OrNothing(at, bytes) == IF bytes = <<>> THEN <<>> ELSE <<Segment(at, bytes)>>

(* A chunk with a range replacement, cell by cell. *)
RangedSegments(c) ==
    LET last == FoldLeft(LAMBDA acc, i :
                    IF Deleted(c, i)
                    THEN [acc EXCEPT !.out = @ \o OrNothing(acc.at, acc.scratch),
                                     !.scratch = <<>>]
                    ELSE [acc EXCEPT !.at = IF acc.scratch = <<>> THEN c.at + i - 1 ELSE @,
                                     !.scratch = Append(@, ByteAt(c, i))],
                 [out |-> <<>>, at |-> c.at, scratch |-> <<>>], [i \in 1..c.len |-> i])
    IN  last.out \o OrNothing(last.at, last.scratch)

(* Raw runs between the dirty cells, each replaced byte on its own. *)
SparseSegments(c) ==
    LET Between(from, to) == OrNothing(c.at + from - 1, SubSeq(Raw(c), from, to))
        last == FoldLeft(LAMBDA acc, i :
                    [out |-> acc.out \o Between(acc.cursor, i - 1)
                             \o (IF Deleted(c, i) THEN <<>>
                                 ELSE <<Segment(c.at + i - 1, <<repl[IdAt(c, i)]>>)>>),
                     cursor |-> i + 1],
                 [out |-> <<>>, cursor |-> 1], DirtyPlaces(c))
    IN  last.out \o Between(last.cursor, c.len)

Segments(c) ==
    IF Fast(c) THEN <<Segment(c.at, Raw(c))>>
    ELSE IF HasRange(c) THEN RangedSegments(c)
    ELSE SparseSegments(c)

WalkSegments(start, end, limit) ==
    LET chunks == Walk(start, end, limit)
    IN  FlattenSeq([k \in DOMAIN chunks |-> Segments(chunks[k])])

-----------------------------------------------------------------------------
(* memmem, and searching what comes segment by segment. *)

Places(bytes, pattern, from) ==
    {i \in from..(Len(bytes) - Len(pattern) + 1) :
        SubSeq(bytes, i, i + Len(pattern) - 1) = pattern}

Find(bytes, pattern, from) ==
    LET at == Places(bytes, pattern, from) IN IF at = {} THEN None ELSE Min(at)
FindLast(bytes, pattern) ==
    LET at == Places(bytes, pattern, 1) IN IF at = {} THEN None ELSE Max(at)

Suffix(bytes, n) == SubSeq(bytes, Len(bytes) - Least(n, Len(bytes)) + 1, Len(bytes))
Prefix(bytes, n) == SubSeq(bytes, 1, Least(n, Len(bytes)))

(* Mutant: what was carried over is kept when a gap follows. *)
ScanSegmentAcrossGap(pattern, acc, s) ==
    LET base == s.at - Len(acc.overlap)
        searchable == acc.overlap \o s.bytes
        pos == Find(searchable, pattern, 1)
    IN  IF acc.found # None THEN acc
        ELSE [found |-> IF pos = None THEN None ELSE base + pos - 1,
              next |-> s.at + Len(s.bytes),
              overlap |-> Suffix(searchable, Len(pattern) - 1)]

(* The last bytes of a segment are carried into the next one it touches. *)
ScanSegment(pattern, acc, s) ==
    LET overlap == IF s.at # acc.next THEN <<>> ELSE acc.overlap
        base == s.at - Len(overlap)
        searchable == overlap \o s.bytes
        pos == Find(searchable, pattern, 1)
    IN  IF acc.found # None THEN acc
        ELSE [found |-> IF pos = None THEN None ELSE base + pos - 1,
              next |-> s.at + Len(s.bytes),
              overlap |-> Suffix(searchable, Len(pattern) - 1)]

ForwardOver(start, pattern, segments) ==
    FoldLeft(LAMBDA acc, s : ScanSegment(pattern, acc, s),
             [found |-> None, next |-> start, overlap |-> <<>>], segments).found

(* search_forward; the walk comes in as what WalkSegments makes of it. *)
Forward(start, pattern, segments) ==
    IF start >= DocEnd THEN None ELSE ForwardOver(start, pattern, segments)

(* The chunks of a clean document, straight from the file.  *)
RemoteForward(start, pattern, chunk) ==
    ForwardOver(start, pattern,
        [k \in 1..Pieces(Greatest(0, DocEnd - start), chunk) |->
            LET at == start + (k - 1) * chunk
            IN  Segment(at, WalkCells(at, Least(DocEnd, at + chunk), chunk))])

(* Mutant: a chunk carries one byte less to the chunk before it. *)
ScanBeforeShort(end, pattern, acc, s) ==
    LET searchable == s.bytes \o acc.overlap
        pos == FindLast(searchable, pattern)
        hit == s.at + pos - 1
    IN  IF acc.found # None THEN acc
        ELSE [found |-> IF pos # None /\ hit + Len(pattern) <= end THEN hit ELSE None,
              overlap |-> Prefix(searchable, Len(pattern) - 2)]

ScanBefore(end, pattern, acc, s) ==
    LET searchable == s.bytes \o acc.overlap
        pos == FindLast(searchable, pattern)
        hit == s.at + pos - 1
    IN  IF acc.found # None THEN acc
        ELSE [found |-> IF pos # None /\ hit + Len(pattern) <= end THEN hit ELSE None,
              overlap |-> Prefix(searchable, Len(pattern) - 1)]

(* search_clean_backward, and the same over a remote file. *)
CleanBackward(end, pattern, limit) ==
    LET chunk == Greatest(limit, Len(pattern))
        chunks == [k \in 1..Pieces(end, chunk) |->
                    LET to == end - (k - 1) * chunk
                        from == Greatest(0, to - chunk)
                    IN  Segment(from, WalkCells(from, to, limit))]
    IN  IF end < Len(pattern) THEN None
        ELSE FoldLeft(LAMBDA acc, s : ScanBefore(end, pattern, acc, s),
                      [found |-> None, overlap |-> <<>>], chunks).found

(* KmpMatcher.feed: m is how much of the pattern the bytes fed so far end   *)
(* with; after a hit, its longest border.                                  *)
LongestBorder(fed, pattern, most) ==
    Max({k \in 0..most : k <= Len(fed) /\ Suffix(fed, k) = Prefix(pattern, k)})

Feed(pattern, m, b) ==
    LET fed == Append(Prefix(pattern, m), b)
        all == LongestBorder(fed, pattern, Len(pattern))
    IN  [hit |-> all = Len(pattern),
         m |-> IF all = Len(pattern)
               THEN LongestBorder(pattern, pattern, Len(pattern) - 1) ELSE all]

(* Bytes fed one by one, the last one first, up to a hit. *)
FeedDown(pattern, m, bytes, at, lo) ==
    FoldLeft(LAMBDA acc, i :
                IF acc.found # None THEN acc
                ELSE IF bytes[i] = None THEN [acc EXCEPT !.m = 0]
                ELSE LET fed == Feed(pattern, acc.m, bytes[i])
                     IN  [found |-> IF fed.hit THEN at + i - 1 ELSE None, m |-> fed.m],
             [found |-> None, m |-> m],
             Reverse([i \in 1..(Len(bytes) - lo + 1) |-> lo + i - 1]))

(* scan_clean_chunk_backward, with a matcher of the reversed pattern: the   *)
(* last bytes complete a match that began in the chunk after; then the     *)
(* chunk itself; its first bytes are fed again to a matcher that is reset. *)
ScanCleanChunk(pattern, reversed, m, bytes, at) ==
    LET p == Len(pattern)
        n == Len(bytes)
        straddling == FeedDown(reversed, m, bytes, at, n - Least(p - 1, n) + 1)
        pos == FindLast(bytes, pattern)
        again == FeedDown(reversed, 0, Prefix(bytes, p - 1), at, 1)
    IN  IF straddling.found # None THEN straddling
        ELSE IF pos # None THEN [found |-> at + pos - 1, m |-> straddling.m]
        ELSE [found |-> None, m |-> again.m]

DirtyBackward(end, pattern, limit) ==
    LET reversed == Reverse(pattern)
    IN  FoldLeft(LAMBDA acc, c :
                    IF acc.found # None THEN acc
                    ELSE IF Fast(c)
                    THEN ScanCleanChunk(pattern, reversed, acc.m, Raw(c), c.at)
                    ELSE FeedDown(reversed, acc.m, VisibleCells(c), c.at, 1),
                 [found |-> None, m |-> 0], WalkReverse(0, end, limit)).found

Backward(end, pattern, limit) ==
    IF Least(end, DocEnd) = 0 THEN None
    ELSE IF ~Dirty THEN CleanBackward(Least(end, DocEnd), pattern, limit)
    ELSE DirtyBackward(Least(end, DocEnd), pattern, limit)

-----------------------------------------------------------------------------
(* ReplaceMatchCollector: matches that do not overlap, a batch at a time. *)

(* All matches from scan on, each starting where the one before ended.      *)
TakeMatches(searchable, pattern, acc, base, most) ==
    FoldLeft(LAMBDA r, i :
                IF Len(r.matches) < most /\ base + i - 1 >= r.next
                THEN [matches |-> Append(r.matches, base + i - 1),
                      next |-> base + i - 1 + Len(pattern)]
                ELSE r,
             [matches |-> acc.matches, next |-> acc.next],
             SetToSortSeq(Places(searchable, pattern, 1), <))

(* MatchCollector: the tail carried over begins after the last match.        *)
FeedSegment(pattern, most, acc, s) ==
    LET touches == acc.tail # <<>> /\ acc.tailStart + Len(acc.tail) = s.at
        tail == IF touches THEN acc.tail ELSE <<>>
        base == s.at - Len(tail)
        searchable == tail \o s.bytes
        r == TakeMatches(searchable, pattern, acc, base, most)
        from == Greatest(Least(Greatest(0, r.next - base), Len(searchable)),
                         Greatest(0, Len(searchable) - (Len(pattern) - 1)))
    IN  IF s.bytes = <<>> \/ Len(acc.matches) >= most THEN acc
        ELSE [matches |-> r.matches, next |-> r.next,
              tail |-> SubSeq(searchable, from + 1, Len(searchable)),
              tailStart |-> base + from]

(* One batch from start: its matches, and where the next one begins. *)
MatchBatch(start, end, pattern, most, limit) ==
    FoldLeft(LAMBDA acc, s : FeedSegment(pattern, most, acc, s),
             [matches |-> <<>>, next |-> start, tail |-> <<>>, tailStart |-> start],
             WalkSegments(start, end, limit))

(* The batches of apply_replace_same_size_streaming; a document of n slots *)
(* has at most n matches.                                                  *)
AllMatches(start, end, pattern, most, limit) ==
    FoldLeft(LAMBDA acc, k :
                IF acc.ended \/ acc.next + Len(pattern) > end THEN acc
                ELSE LET batch == MatchBatch(acc.next, end, pattern, most, limit)
                     IN  [matches |-> acc.matches \o batch.matches, next |-> batch.next,
                          ended |-> batch.matches = <<>>],
             [matches |-> <<>>, next |-> start, ended |-> FALSE],
             [k \in 1..DocEnd |-> k]).matches

-----------------------------------------------------------------------------
(* PageCache.read_range *)

Slice(bytes, off, n) == SubSeq(bytes, off + 1, Least(off + n, Len(bytes)))

(* Mutant: the page used last is the one that goes. *)
EvictNewest(cache) ==
    IF Cardinality(DOMAIN cache) <= PageCount THEN cache
    ELSE Without(cache, {CHOOSE q \in DOMAIN cache :
                            \A r \in DOMAIN cache : cache[q].used >= cache[r].used})

(* Over the capacity by one page at most, as one is loaded at a time. *)
EvictIfNeeded(cache) ==
    IF Cardinality(DOMAIN cache) <= PageCount THEN cache
    ELSE Without(cache, {CHOOSE q \in DOMAIN cache :
                            \A r \in DOMAIN cache : cache[q].used <= cache[r].used})

(* A hit renews the page; a miss loads it, whatever is left of the file. *)
EnsureLoaded(acc, q) ==
    LET data == IF q \in DOMAIN acc.pages THEN acc.pages[q].data
                ELSE Slice(Original, q * PageSize, PageSize)
        now == acc.generation + 1
    IN  [acc EXCEPT !.generation = now,
                    !.pages = EvictIfNeeded(
                        Over(@, [x \in {q} |-> [data |-> data, used |-> now]]))]

ReadPage(off, n, acc, q) ==
    LET loaded == EnsureLoaded(acc, q)
        data == loaded.pages[q].data
        from == Greatest(off, q * PageSize) - q * PageSize
        to == Least(off + n, q * PageSize + Len(data)) - q * PageSize
    IN  IF q \notin DOMAIN loaded.pages THEN loaded
        ELSE [loaded EXCEPT !.out = @ \o SubSeq(data, from + 1, to)]

ReadRange(off, n) ==
    LET first == off \div PageSize
        last == (off + n - 1) \div PageSize
    IN  IF n = 0 THEN [pages |-> pages, generation |-> generation, out |-> <<>>]
        ELSE FoldLeft(LAMBDA acc, q : ReadPage(off, n, acc, q),
                      [pages |-> pages, generation |-> generation, out |-> <<>>],
                      [k \in 1..(last - first + 1) |-> first + k - 1])

Read(off, n) ==
    /\ edits = 0 /\ reads < MaxReads
    /\ LET r == ReadRange(off, n)
       IN  /\ pages' = r.pages /\ generation' = r.generation
           /\ got' = [off |-> off, len |-> n, bytes |-> r.out]
    /\ reads' = reads + 1
    /\ UNCHANGED <<table, add, tomb, repl, ranged, edits>>

(* clear_cache, when the file is opened again. *)
ClearCache ==
    /\ reads > 0
    /\ pages' = <<>> /\ generation' = 0
    /\ UNCHANGED <<table, add, tomb, repl, ranged, got, edits, reads>>

-----------------------------------------------------------------------------
(* The edits that make a document what the readers walk. *)

Editing ==
    /\ reads = 0 /\ edits < MaxEdits
    /\ edits' = edits + 1
    /\ UNCHANGED <<pages, generation, got, reads>>

Insert(off, bytes) ==
    /\ Editing
    /\ Len(add) + Len(bytes) <= MaxAdd
    /\ table' = PT!InsertedTable(table, off, Len(bytes))
    /\ add' = add \o bytes
    /\ UNCHANGED <<tomb, repl, ranged>>

RealDeletion(off, n) ==
    /\ Editing /\ off < DocEnd
    /\ table' = PT!DeletedTable(table, off, n)
    /\ UNCHANGED <<add, tomb, repl, ranged>>

Tombstone(id) ==
    /\ Editing /\ tomb' = tomb \cup {id}
    /\ UNCHANGED <<table, add, repl, ranged>>

ReplaceByte(id, b) ==
    /\ Editing
    /\ repl' = Over(repl, [x \in {id} |-> b]) /\ ranged' = ranged \ {id}
    /\ UNCHANGED <<table, add, tomb>>

(* A fill over the slots from off on. *)
ReplaceRun(off, n, b) ==
    /\ Editing
    /\ LET ids == IdsAt(AsDocument, off, n)
       IN  repl' = Over(repl, [x \in ids |-> b]) /\ ranged' = ranged \cup ids
    /\ UNCHANGED <<table, add, tomb>>

Init ==
    /\ add \in {<<>>, Inserted}
    /\ table = IF add = <<>> THEN PT!NewTable
               ELSE PT!InsertedTable(PT!NewTable, Len(Original) \div 2, Len(add))
    /\ tomb = {} /\ repl = <<>> /\ ranged = {}
    /\ pages = <<>> /\ generation = 0
    /\ got = [off |-> 0, len |-> 0, bytes |-> <<>>]
    /\ edits = 0 /\ reads = 0

Next ==
    \/ \E off \in 0..DocEnd, bytes \in UNION {[1..n -> Used] : n \in 1..2} :
            Insert(off, bytes)
    \/ \E off \in 0..DocEnd, n \in 1..2 : RealDeletion(off, n)
    \/ \E id \in ToSet(AsDocument.cells) :
            Tombstone(id) \/ \E b \in Used : ReplaceByte(id, b)
    \/ \E off \in 0..(DocEnd - 2), b \in Used : ReplaceRun(off, 2, b)
    \/ \E off \in 0..Len(Original), n \in 0..(Len(Original) + 1) : Read(off, n)
    \/ ClearCache

Spec == Init /\ [][Next]_vars

-----------------------------------------------------------------------------
(* Properties *)

(* Whatever the pieces, the overlays and the chunk limit are, each walk      *)
(* shows the display it was asked for: bytes copied, hashed and saved, the *)
(* cells drawn, the segments searched (walk.rs: fast, sparse, ranged and   *)
(* cell-by-cell paths agree).  A display offset and the logical offset it  *)
(* maps to name the same byte, both ways, and only the deleted slots have  *)
(* no logical offset (what :goto, the diff and the analysis rely on).      *)
WalksExact ==
    LET d == AsDocument
        shown == Display(d)
        visible == VisibleOffsets(d)
    IN  /\ VisibleLen = Len(visible)
        /\ \A k \in DOMAIN visible :
                LogicalOffset(visible[k]) = k - 1 /\ DisplayOffset(k - 1) = visible[k]
        /\ \A off \in (0..DocEnd) \ ToSet(visible) : LogicalOffset(off) = None
        /\ \A start \in 0..DocEnd, limit \in Limits : \A end \in start..DocEnd :
            LET cells == SubSeq(shown, start + 1, end)
                kept == SelectSeq(cells, LAMBDA b : b # None)
                segments == WalkSegments(start, end, limit)
            IN  /\ WalkCells(start, end, limit) = cells
                /\ WalkCellsReverse(start, end, limit) = Reverse(cells)
                /\ WalkLogical(start, end, limit) = kept
                /\ FlattenSeq([k \in DOMAIN segments |-> segments[k].bytes]) = kept
                /\ \A k \in DOMAIN segments : \A i \in DOMAIN segments[k].bytes :
                        shown[segments[k].at + i] = segments[k].bytes[i]

(* A forward search finds the first match at or after its start: matches    *)
(* across chunks and pieces count, matches across a deleted slot do not;   *)
(* over a clean remote file, read in chunks of its own, it finds the same. *)
(* A backward search never reports what is no match, and in a document     *)
(* without tombstones and replacements it finds the last one; in an edited *)
(* one it may miss it (scan_clean_chunk_backward).  The matches a           *)
(* replacement is applied to are the leftmost ones that do not overlap,    *)
(* whatever the batches and the chunks (exec/replace.rs); two starts are   *)
(* enough, as every batch after the first begins in the middle.            *)
SearchesExact ==
    LET d == AsDocument
    IN  \A from \in 0..DocEnd :
            LET segments == [limit \in Limits |-> WalkSegments(from, DocEnd, limit)]
            IN  \A pattern \in Patterns :
                    LET first == SearchForward(d, from, pattern)
                        last == SearchBackward(d, from, pattern)
                        all == MatchesIn(d, from, DocEnd - 1, pattern)
                    IN  \A limit \in Limits :
                            LET hit == Backward(from, pattern, limit)
                            IN  /\ Forward(from, pattern, segments[limit]) = first
                                /\ ~Dirty => /\ RemoteForward(from, pattern, limit) = first
                                             /\ hit = last
                                /\ hit # None => MatchAt(d, hit, pattern)
                                                 /\ hit + Len(pattern) <= from
                                /\ from < Least(2, DocEnd) => \A most \in {1, 2} :
                                       AllMatches(from, DocEnd, pattern, most, limit) = all

(* A read through the page cache returns what the file holds there, also    *)
(* when it spans more pages than the cache keeps, and the cache stays      *)
(* within its capacity (core/page_cache.rs).                               *)
PagesExact ==
    /\ got.bytes = Slice(Original, got.off, got.len)
    /\ Cardinality(DOMAIN pages) <= PageCount
    /\ \A q \in DOMAIN pages : pages[q].data = Slice(Original, q * PageSize, PageSize)
=============================================================================
