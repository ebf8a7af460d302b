--------------------------- MODULE ReplacementStore ---------------------------
(***************************************************************************)
(* The replacement store: which byte a cell shows instead of its base      *)
(* byte.  Single edits are sparse entries; fills, pastes and xors over     *)
(* long runs are ranges, one entry for a whole run.  A sparse entry wins   *)
(* over the range below it, and may say that the cell is not replaced.     *)
(*                                                                         *)
(* A cell is <<source, offset>>; a byte is the set of its one bits, so     *)
(* that xor is the symmetric difference.                                   *)
(***************************************************************************)
EXTENDS Integers, Sequences, FiniteSets

CONSTANTS
    Length,     \* bytes of the original file and of the add buffer
    Bits,       \* the bits of a byte
    Base,       \* the unmodified byte of each cell
    Patterns,   \* byte runs that fills repeat
    Runs,       \* byte runs that pastes write
    Keys,       \* xor keys
    MaxSparse,  \* bound: sparse entries
    MaxEntries, \* bound: ranges and sparse entries
    MaxDead,    \* bound: tombstones in a run that is xored
    None        \* Option::None; also SparseReplacement::Clear

(* PieceSource; CellId orders every original cell before every added one. *)
Original == 0
Add == 1
Sources == {Original, Add}

Byte == SUBSET Bits
Xor(a, b) == (a \ b) \cup (b \ a)

Cells == UNION {{s} \X (0..(Length[s] - 1)) : s \in Sources}

(* A run of cells of one source, which is never empty. *)
Run(source, start, end) == [source |-> source, start |-> start, end |-> end]

RunsOf(source) ==
    {Run(source, r[1], r[2]) :
        r \in {p \in (0..Length[source]) \X (0..Length[source]) : p[1] < p[2]}}

AllRuns == RunsOf(Original) \cup RunsOf(Add)

ASSUME StoreConstants ==
    /\ Length \in [Sources -> Nat]
    /\ Base \in [Cells -> Byte]
    /\ Patterns \cup Runs \subseteq Seq(Byte) \ {<<>>}
    /\ Keys \subseteq Byte
    /\ {MaxSparse, MaxEntries, MaxDead} \subseteq Nat
    /\ \A b \in Byte : b # None

VARIABLE store      \* sparse: cell -> byte or None; ranges: cell -> len, value

-----------------------------------------------------------------------------
(* Lookups. *)

Empty == [sparse |-> <<>>, ranges |-> <<>>]

Leq(c, d) == c[1] < d[1] \/ (c[1] = d[1] /\ c[2] <= d[2])

Within(run) == {run.source} \X (run.start..(run.end - 1))

EndOf(st, k) == k[2] + st.ranges[k].len

Covered(st, k) == Within(Run(k[1], k[2], EndOf(st, k)))

Overlaps(st, k, run) ==
    k[1] = run.source /\ k[2] < run.end /\ run.start < EndOf(st, k)

(* BTreeMap::range(..=c).next_back(): the last range that starts by c. *)
LastBy(st, c) ==
    {k \in DOMAIN st.ranges :
        Leq(k, c) /\ \A j \in DOMAIN st.ranges : Leq(j, c) => Leq(j, k)}

RangeContaining(st, c) == {k \in LastBy(st, c) : c \in Covered(st, k)}

OverlappingKeys(st, run) ==
    {k \in LastBy(st, <<run.source, run.start>>) : Overlaps(st, k, run)}
    \cup {k \in DOMAIN st.ranges : run.start <= k[2] /\ Overlaps(st, k, run)}

(* The part of range k that lies in the run. *)
Clipped(st, k, run) ==
    Run(run.source,
        IF k[2] < run.start THEN run.start ELSE k[2],
        IF EndOf(st, k) < run.end THEN EndOf(st, k) ELSE run.end)

ValueAt(value, local, base) ==
    CASE value.kind = "Pattern" ->
            value.bytes[((value.phase + local) % Len(value.bytes)) + 1]
      [] value.kind = "Xor" -> Xor(base, value.key)
      [] value.kind = "Bytes" ->
            IF value.phase + local < Len(value.bytes)
            THEN value.bytes[value.phase + local + 1]
            ELSE base

Get(st, c) ==
    LET under == RangeContaining(st, c)
        k == CHOOSE k \in under : TRUE
    IN  IF c \in DOMAIN st.sparse THEN st.sparse[c]
        ELSE IF under = {} THEN None
        ELSE ValueAt(st.ranges[k].value, c[2] - k[2], Base[c])

(* The byte the document shows. *)
Seen(st, c) == LET v == Get(st, c) IN IF v = None THEN Base[c] ELSE v

(* Every cell by its place in the order of the cells, from 1. *)
CellCount == Length[Original] + Length[Add]

CellNo(n) ==
    IF n <= Length[Original] THEN <<Original, n - 1>>
    ELSE <<Add, n - 1 - Length[Original]>>

RangeBytesUpTo(st) ==
    LET walk[n \in 0..CellCount] ==
            IF n = 0 THEN 0
            ELSE walk[n - 1] + (IF CellNo(n) \in DOMAIN st.ranges
                                THEN st.ranges[CellNo(n)].len ELSE 0)
    IN  walk

(* A sparse entry, counted on top of the range below it if there is one. *)
DirtyAt(total, st, c) ==
    LET held == RangeContaining(st, c) # {}
    IN  CASE c \in DOMAIN st.sparse /\ held /\ st.sparse[c] = None ->
                IF total = 0 THEN 0 ELSE total - 1
          [] c \in DOMAIN st.sparse /\ ~held /\ st.sparse[c] # None ->
                total + 1
          [] OTHER -> total

DirtyUpTo(st) ==
    LET walk[n \in 0..CellCount] ==
            IF n = 0 THEN RangeBytesUpTo(st)[CellCount]
            ELSE DirtyAt(walk[n - 1], st, CellNo(n))
    IN  walk

(* The byte count the memory view shows per region. *)
DirtyBytes(st) == DirtyUpTo(st)[CellCount]

(* Mutant: of two sources only the first is looked at. *)
HasInRangeOfFirst(st, lo, hi) ==
    \/ \E c \in DOMAIN st.sparse : Leq(lo, c) /\ Leq(c, hi)
    \/ IF lo[1] = hi[1]
       THEN OverlappingKeys(st, Run(lo[1], lo[2], hi[2] + 1)) # {}
       ELSE OverlappingKeys(st, Run(lo[1], lo[2], Length[lo[1]])) # {}

(* has_in_range, over cells lo to hi, which may lie in different sources. *)
HasInRange(st, lo, hi) ==
    \/ \E c \in DOMAIN st.sparse : Leq(lo, c) /\ Leq(c, hi)
    \/ IF lo[1] = hi[1]
       THEN OverlappingKeys(st, Run(lo[1], lo[2], hi[2] + 1)) # {}
       ELSE \/ OverlappingKeys(st, Run(lo[1], lo[2], Length[lo[1]])) # {}
            \/ OverlappingKeys(st, Run(hi[1], 0, hi[2] + 1)) # {}

-----------------------------------------------------------------------------
(* Updates, as functions from a store to a store. *)

Over(f, g) ==
    [x \in DOMAIN f \cup DOMAIN g |-> IF x \in DOMAIN g THEN g[x] ELSE f[x]]
Without(f, S) == [x \in DOMAIN f \ S |-> f[x]]

SetCell(st, c, v) ==
    [st EXCEPT !.sparse = Over(@, [x \in {c} |-> v])]

ClearCell(st, c) ==
    IF RangeContaining(st, c) # {} THEN SetCell(st, c, None)
    ELSE [st EXCEPT !.sparse = Without(@, {c})]

(* restore_replacement, and set_display_byte_by_id. *)
RestoreReplacement(st, c, v) ==
    IF v = None THEN ClearCell(st, c) ELSE SetCell(st, c, v)

SetDisplayByte(st, c, v) ==
    IF v = Base[c] THEN ClearCell(st, c) ELSE SetCell(st, c, v)

(* Mutant: the right part of a split range starts with its first byte. *)
ShiftedNot(value, delta) == value

(* The value of what is left of a range when its first delta cells go. *)
Shifted(value, delta) ==
    CASE value.kind = "Pattern" ->
            [value EXCEPT !.phase = (@ + delta) % Len(value.bytes)]
      [] value.kind = "Xor" -> value
      [] value.kind = "Bytes" -> [value EXCEPT !.phase = @ + delta]

(* Mutant: clearing a run leaves the sparse entries in it. *)
ClearSourceRangeOnly(st, run) ==
    LET keys == OverlappingKeys(st, run)
        left == {k \in keys : k[2] < run.start}
        tails == {k \in keys : run.end < EndOf(st, k)}
    IN  [st EXCEPT
          !.ranges =
            Over([k \in (DOMAIN @ \ keys) \cup left |->
                    IF k \in left THEN [@[k] EXCEPT !.len = run.start - k[2]]
                                  ELSE @[k]],
                 [t \in {<<run.source, run.end>> : k \in tails} |->
                    LET k == CHOOSE k \in tails : TRUE
                    IN  [len |-> EndOf(st, k) - run.end,
                         value |-> Shifted(@[k].value, run.end - k[2])]])]

ClearSourceRange(st, run) ==
    LET keys == OverlappingKeys(st, run)
        left == {k \in keys : k[2] < run.start}
        tails == {k \in keys : run.end < EndOf(st, k)}
    IN  [sparse |-> Without(st.sparse, Within(run)),
         ranges |->
            Over([k \in (DOMAIN st.ranges \ keys) \cup left |->
                    IF k \in left
                    THEN [st.ranges[k] EXCEPT !.len = run.start - k[2]]
                    ELSE st.ranges[k]],
                 [t \in {<<run.source, run.end>> : k \in tails} |->
                    LET k == CHOOSE k \in tails : TRUE
                    IN  [len |-> EndOf(st, k) - run.end,
                         value |-> Shifted(st.ranges[k].value, run.end - k[2])]])]

(* Entries for runs that hold none: a set of runs with their values. *)
InsertRanges(st, segments) ==
    [st EXCEPT !.ranges =
        Over(@, [c \in {<<s.run.source, s.run.start>> : s \in segments} |->
                    LET s == CHOOSE s \in segments :
                                <<s.run.source, s.run.start>> = c
                    IN  [len |-> s.run.end - s.run.start, value |-> s.value]])]

SetRange(st, run, value) ==
    InsertRanges(ClearSourceRange(st, run), {[run |-> run, value |-> value]})

Pattern(bytes, phase) == [kind |-> "Pattern", bytes |-> bytes, phase |-> phase]
XorWith(key) == [kind |-> "Xor", key |-> key]
Bytes(bytes, phase) == [kind |-> "Bytes", bytes |-> bytes, phase |-> phase]

SetPatternRange(st, run, pattern, phase) ==
    SetRange(st, run, Pattern(pattern, phase))

SetXorRange(st, run, key) ==
    IF key = {} THEN st ELSE SetRange(st, run, XorWith(key))

SetBytesRange(st, run, bytes, phase) == SetRange(st, run, Bytes(bytes, phase))

(* The runs that make up a set of cells, each as long as possible. *)
MaximalRuns(S) ==
    {r \in AllRuns : /\ Within(r) \subseteq S
                     /\ <<r.source, r.start - 1>> \notin S
                     /\ <<r.source, r.end>> \notin S}

XorEach(bytes, key) == [i \in DOMAIN bytes |-> Xor(bytes[i], key)]

(* RangeReplacement::xor_composed: a value, xored, from delta for len cells. *)
Composed(value, delta, len, key) ==
    CASE value.kind = "Pattern" ->
            Shifted([value EXCEPT !.bytes = XorEach(@, key)], delta)
      [] value.kind = "Xor" -> XorWith(Xor(value.key, key))
      [] value.kind = "Bytes" ->
            Bytes(XorEach(SubSeq(value.bytes, value.phase + delta + 1,
                                 value.phase + delta + len), key), 0)

XorSourceRangeComposed(st, run, key) ==
    LET keys == OverlappingKeys(st, run)
        covered == UNION {Within(Clipped(st, k, run)) : k \in keys}
        gaps == {[run |-> g, value |-> XorWith(key)] :
                    g \in MaximalRuns(Within(run) \ covered)}
        Segment(k) ==
            LET part == Clipped(st, k, run)
            IN  [run |-> part,
                 value |-> Composed(st.ranges[k].value, part.start - k[2],
                                    part.end - part.start, key)]
        kept == {k \in keys : Segment(k).value # XorWith({})}
    IN  IF key = {} THEN st
        ELSE InsertRanges(ClearSourceRange(st, run),
                          gaps \cup {Segment(k) : k \in kept})

(* xor_visible_range_sparse_overlay: no range lies in the run.  Cell by    *)
(* cell, but the stretches without tombstones and edits as a whole.        *)
XorSparseAt(s, st, c, dead, values, spans, key) ==
    LET starting == {g \in spans : <<g.source, g.start>> = c}
    IN  IF starting # {}
        THEN XorSourceRangeComposed(s, CHOOSE g \in starting : TRUE, key)
        ELSE IF c \in values \ dead
        THEN SetDisplayByte(s, c, Xor(st.sparse[c], key))
        ELSE s

XorSparseUpTo(st, run, dead, key) ==
    LET values == {c \in DOMAIN st.sparse \cap Within(run) :
                        st.sparse[c] # None}
        spans == MaximalRuns(Within(run) \ (dead \cup values))
        walk[n \in 0..(run.end - run.start)] ==
            IF n = 0 THEN st
            ELSE XorSparseAt(walk[n - 1], st, <<run.source, run.start + n - 1>>,
                             dead, values, spans, key)
    IN  walk

XorSparseOverlay(st, run, dead, key) ==
    IF key = {} THEN st
    ELSE XorSparseUpTo(st, run, dead, key)[run.end - run.start]

(* xor_visible_range_bytes_overlay_changed: each stretch without tombstones *)
(* is written as the bytes it shows, xored.                                *)
XorBytesAt(s, st, c, spans, key) ==
    LET starting == {g \in spans : <<g.source, g.start>> = c}
        g == CHOOSE g \in starting : TRUE
        xored == [i \in 1..(g.end - g.start) |->
                    Xor(Seen(st, <<g.source, g.start + i - 1>>), key)]
    IN  IF starting # {} THEN SetBytesRange(s, g, xored, 0) ELSE s

XorBytesUpTo(st, run, dead, key) ==
    LET spans == MaximalRuns(Within(run) \ dead)
        walk[n \in 0..(run.end - run.start)] ==
            IF n = 0 THEN st
            ELSE XorBytesAt(walk[n - 1], st, <<run.source, run.start + n - 1>>,
                            spans, key)
    IN  walk

XorBytesOverlay(st, run, dead, key) ==
    IF key = {} THEN st
    ELSE XorBytesUpTo(st, run, dead, key)[run.end - run.start]

(* xor_visible_range_mixed_overlay, with the tombstoned cells dead. *)
XorMixedOverlay(st, run, dead, key) ==
    CASE (dead \cup DOMAIN st.sparse) \cap Within(run) = {} ->
            XorSourceRangeComposed(st, run, key)
      [] /\ (dead \cup DOMAIN st.sparse) \cap Within(run) # {}
         /\ OverlappingKeys(st, run) = {} ->
            XorSparseOverlay(st, run, dead, key)
      [] OTHER -> XorBytesOverlay(st, run, dead, key)

(* Mutant: a patch does not record which cells are not replaced. *)
PatchOfValues(st, run) ==
    [ranges |-> {LET part == Clipped(st, k, run)
                 IN  [run |-> part,
                      value |-> Shifted(st.ranges[k].value,
                                        part.start - k[2])] :
                    k \in OverlappingKeys(st, run)},
     sparse |-> [c \in {c \in DOMAIN st.sparse \cap Within(run) :
                            st.sparse[c] # None} |-> st.sparse[c]]]

(* What an undo record keeps of a run, and its restoration. *)
PatchForSourceRange(st, run) ==
    [ranges |-> {LET part == Clipped(st, k, run)
                 IN  [run |-> part,
                      value |-> Shifted(st.ranges[k].value,
                                        part.start - k[2])] :
                    k \in OverlappingKeys(st, run)},
     sparse |-> [c \in DOMAIN st.sparse \cap Within(run) |-> st.sparse[c]]]

(* A range of a patch is set again by its kind; a xor with nothing is none. *)
SetValue(st, run, value) ==
    IF value = XorWith({}) THEN st ELSE SetRange(st, run, value)

LayAt(st, c, patch) ==
    LET starting == {p \in patch.ranges : <<p.run.source, p.run.start>> = c}
        p == CHOOSE p \in starting : TRUE
    IN  IF starting # {} THEN SetValue(st, p.run, p.value) ELSE st

LaidUpTo(st, run, patch) ==
    LET walk[n \in 0..(run.end - run.start)] ==
            IF n = 0 THEN st
            ELSE LayAt(walk[n - 1], <<run.source, run.start + n - 1>>, patch)
    IN  walk

RestoreAt(st, c, patch) ==
    IF c \in DOMAIN patch.sparse
    THEN RestoreReplacement(st, c, patch.sparse[c]) ELSE st

RestoredUpTo(st, run, patch) ==
    LET walk[n \in 0..(run.end - run.start)] ==
            IF n = 0 THEN st
            ELSE RestoreAt(walk[n - 1], <<run.source, run.start + n - 1>>,
                           patch)
    IN  walk

(* apply_patch, of the patch of a run: its ranges, then its single cells,  *)
(* both in the order of their cells.                                       *)
ApplyPatch(st, run, patch) ==
    LET len == run.end - run.start
        laid == LaidUpTo(st, run, patch)[len]
    IN  RestoredUpTo(laid, run, patch)[len]

RestorePatch(st, run, patch) ==
    ApplyPatch(ClearSourceRange(st, run), run, patch)

-----------------------------------------------------------------------------
Init == store = Empty

(* One cell, by a key or by undo. *)
Restore ==
    \E c \in Cells :
        /\ Cardinality(DOMAIN store.sparse \cup {c}) <= MaxSparse
        /\ \/ \E v \in Byte : store' = SetDisplayByte(store, c, v)
           \/ \E v \in Byte \cup {None} :
                    store' = RestoreReplacement(store, c, v)

Clear == \E run \in AllRuns : store' = ClearSourceRange(store, run)

Fill ==
    \E run \in AllRuns, pattern \in Patterns :
        \E phase \in 0..(Len(pattern) - 1) :
            store' = SetPatternRange(store, run, pattern, phase)

Paste ==
    \E run \in AllRuns, bytes \in Runs :
        \E phase \in 0..(Len(bytes) - (run.end - run.start)) :
            store' = SetBytesRange(store, run, bytes, phase)

(* xor_visible_range_overlay: the callers check that the run is pristine. *)
XorPristine ==
    \E run \in AllRuns, key \in Keys :
        /\ ~HasInRange(store, <<run.source, run.start>>,
                       <<run.source, run.end - 1>>)
        /\ store' = SetXorRange(store, run, key)

(* Which cells of the run a delete has hidden. *)
Tombstones(run) == {dead \in SUBSET Within(run) : Cardinality(dead) <= MaxDead}

XorAgain ==
    \E run \in AllRuns, key \in Keys :
        \E dead \in Tombstones(run) :
            store' = XorMixedOverlay(store, run, dead, key)

(* A save or a new memory region drops every replacement. *)
Reset == store' = Empty

Next ==
    /\ Restore \/ Clear \/ Fill \/ Paste \/ XorPristine \/ XorAgain \/ Reset
    /\ Cardinality(DOMAIN store'.ranges) + Cardinality(DOMAIN store'.sparse)
            <= MaxEntries

Spec == Init /\ [][Next]_store

-----------------------------------------------------------------------------
(* Properties *)

Values ==
    [kind : {"Pattern", "Bytes"}, bytes : Seq(Byte), phase : Nat]
    \cup [kind : {"Xor"}, key : Byte]

(* The store's structure: ranges never overlap, run past their source or   *)
(* past their bytes (the debug assertion of set_bytes_range), and a cell   *)
(* is marked as not replaced only inside a range (clear_cell).             *)
WellFormed ==
    /\ DOMAIN store.ranges \subseteq Cells
    /\ \A k \in DOMAIN store.ranges :
        LET range == store.ranges[k]
        IN  /\ range.len \in 1..(Length[k[1]] - k[2])
            /\ range.value \in Values
            /\ range.value.kind = "Pattern" => range.value.bytes # <<>>
            /\ range.value.kind = "Bytes" =>
                    range.value.phase + range.len <= Len(range.value.bytes)
    /\ \A j, k \in DOMAIN store.ranges :
        j # k => Covered(store, j) \cap Covered(store, k) = {}
    /\ DOMAIN store.sparse \subseteq Cells
    /\ \A c \in DOMAIN store.sparse :
        /\ store.sparse[c] \in {None} \cup Byte
        /\ store.sparse[c] = None => RangeContaining(store, c) # {}

(* The cells of S show what F says and no other cell changes. *)
Becomes(st, S, F(_)) ==
    \A c \in Cells : Get(st, c) = IF c \in S THEN F(c) ELSE Get(store, c)

(* Clearing a run shows the base bytes there and disturbs no other cell:   *)
(* what remains of a range that is cut in two keeps its bytes in place.    *)
ClearsExactly ==
    \A run \in AllRuns :
        Becomes(ClearSourceRange(store, run), Within(run), LAMBDA c : None)

(* A fill repeats its pattern from its phase and a paste writes its bytes  *)
(* from its phase, over whatever the run held, and change no other cell.   *)
OverlaysExactly ==
    \A run \in AllRuns :
        /\ \A pattern \in Patterns : \A phase \in 0..(Len(pattern) - 1) :
            Becomes(SetPatternRange(store, run, pattern, phase), Within(run),
                    LAMBDA c : pattern[((phase + c[2] - run.start)
                                            % Len(pattern)) + 1])
        /\ \A bytes \in Runs :
            \A phase \in 0..(Len(bytes) - (run.end - run.start)) :
                Becomes(SetBytesRange(store, run, bytes, phase), Within(run),
                        LAMBDA c : bytes[phase + c[2] - run.start + 1])

(* xor over a run that already mixes edits, fills, pastes, xors and        *)
(* tombstones changes every visible byte by the key, and nothing else.     *)
XorsExactly ==
    \A run \in AllRuns, key \in Keys : \A dead \in Tombstones(run) :
        LET after == XorMixedOverlay(store, run, dead, key)
        IN  \A c \in Cells :
                IF c \in Within(run) \ dead
                THEN Seen(after, c) = Xor(Seen(store, c), key)
                ELSE Get(after, c) = Get(store, c)

(* Every operation on a run changes the cells it should, as it should, and *)
(* no cell around it, whatever ranges, single edits and not-replaced       *)
(* markers the run already held: clears, fills and pastes, and xors.       *)
EditsExact == ClearsExactly /\ OverlaysExactly /\ XorsExactly

(* The record an undo step keeps of a run brings back every byte of it,    *)
(* cells marked as not replaced included, whatever was there meanwhile.    *)
PatchRestores ==
    \A run \in AllRuns :
        LET patch == PatchForSourceRange(store, run)
        IN  \A between \in {store, SetXorRange(store, run, Bits)} :
                Becomes(RestorePatch(between, run, patch), {}, LAMBDA c : None)

(* The two summaries other code decides by agree with the cell by cell     *)
(* lookup: the count of replaced bytes (does a region hold edits?) is the  *)
(* number of cells that are replaced; the range query behind the fast      *)
(* paths of reads, saves and undo records finds an entry exactly when one  *)
(* of the cells has one, across sources too.                               *)
SummariesExact ==
    /\ DirtyBytes(store) = Cardinality({c \in Cells : Get(store, c) # None})
    /\ \A lo, hi \in Cells : Leq(lo, hi) =>
        (HasInRange(store, lo, hi) <=>
            \E c \in Cells : /\ Leq(lo, c) /\ Leq(c, hi)
                             /\ \/ c \in DOMAIN store.sparse
                                \/ RangeContaining(store, c) # {})
=============================================================================
