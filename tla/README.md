# hxedit: TLA+ models and proofs

hxedit is a terminal hex editor written in Rust. A file is opened read-only
behind a page cache, every edit is an overlay on it, and nothing reaches the
disk (or the remote server, or the memory of another process) until the user
saves. The specifications in this directory model the parts where that promise
could break, and the parts that tell the user what the bytes are.

## 1. The system

| Part | Source | State it keeps | Operations |
|---|---|---|---|
| Piece table | `src/core/piece_table.rs` | pieces, add buffer, length, lazy prefix-sum cache | `insert_bytes`, `delete_range_real`, `insert_existing_cells`, `resolve`, `cell_ids_range` |
| Document | `src/core/document/*` | piece table, tombstones, replacement store, original length, file view | nibble and byte overwrite, tombstones, real insert and delete, save, walk, search |
| Replacement store | `src/core/document/replacement_store.rs` | sparse per-cell overrides plus disjoint pattern / xor / bytes ranges | set and clear cells or ranges, xor composition, patches for undo |
| Page cache, file view | `src/core/page_cache.rs`, `file_view.rs` | pages with last-use stamps, the storage behind them | `read_range`, reload, clear |
| Local save | `src/core/save.rs` | a temporary file | rewrite to a temporary file and rename; save-as writes the target directly |
| Remote source | `src/remote/*` | the fingerprint last seen, a read handle (SFTP) or a path (FTP) | open, read, `begin_save`, `finish`, `complete_save`, `reload` |
| Execution layer | `src/exec/*` | cursor and selection of a batch, a report of reversible `EditOp`s | transforms, replace, search, batches with rollback |
| Editing session | `src/app/editing_state.rs`, `undo.rs`, `mode_state.rs`, `mouse.rs`, `navigation/*` | cursor, mode, nibble phase, selection anchors, a pending half-typed insert, undo and redo stacks | keys, mouse, commands |
| Memory session | `src/memory/*`, `src/app/memory_state.rs` | region list, opened region, stashed edits per region, freeze depth | switch region, commit, commit-all, refresh, freeze, attach |
| Run loop and background work | `src/app.rs`, `src/app/analysis_state.rs`, `hash_state.rs`, `stats_state.rs`, `diff_state.rs` | a job on another thread, a stepper, the document revision each started from | start, step, cancel, finish, drain the channel |
| Inspector | `src/app/inspector_state.rs`, `src/app/commands/inspector.rs`, `src/format/*` | parsed structures, rows, selection, collapsed nodes, an open field edit, the entry cap | detect, parse, flatten, edit a field, raise the cap, force a format |
| Diff page | `src/diff/*`, `src/app/render/diff_projection.rs` | none: computed for each frame from the document, the other file and the rows on screen | align two byte windows, lay out the hunks, cut out the page |
| Executables, disassembly | `src/executable/*`, `src/disasm/*` | decode caches | decode, assemble, symbols |
| Views | `src/view/*`, `src/app/render/*` | what is shown | projection of the document |
| Front ends | `src/input/*`, `src/commands/*`, `src/automation/*`, `src/scripting.rs`, `src/headless.rs` | key and command parsing, macros, scripts | turn input into the operations above |

How they interact. The session owns the document and calls it synchronously;
each edit returns cell identities (`CellId`) that go into the undo step. The
document owns the piece table, which owns cell identity, and keys tombstones
and replacements by it. Reads of original bytes go through the file view and
its page cache to the disk, a remote backend or a process; a save walks the
document, so it reads through the same cache while it writes. Macros, scripts
and headless commands run the execution layer over the same document and hand
their report to the session, which turns it into undo steps. The inspector
parses the document again after every change and keeps a selection and an open
edit that name rows of the tree before. One thread runs the editor. It shares
its turns between key events, one step of a hash, statistics or diff scan, and
the answers that arrive over a channel from the Sagitta analysis, which runs on
a thread of its own over a snapshot.

### What is hard

- **Protocol of user events.** The first key of an inserted byte changes the
  document before any undo step exists; tombstones, in-place replacements and
  real inserts and deletes have different undo records, and some of these name
  a display range rather than cells. Every event that can come next, keyboard,
  mouse or command, has to keep the document and both stacks in step.
- **Partial failure.** A batch fails in the middle and is rolled back, or not; a
  remote save fails after its rename, a local one between its steps; a commit
  to a process writes some spans; a region switch fails when the edits have
  been put away.
- **Time of check.** A remote save compares fingerprints twice, and other
  programs write the file before, between and after.
- **State named by position.** Selections, stashes of edits, the opened region,
  inspector rows and display ranges in undo records are offsets or indexes, and
  the thing they count changes under them.
- **Late answers.** An analysis ends after edits, an undo, a save or a second
  start; a scan is cut into steps with events between them.
- **Structure behind the bytes.** Offsets on piece boundaries, pattern ranges
  that are cut in the middle, markers that hide a byte of a range, a prefix
  cache that is stale for half of an operation, four paths through every chunk
  of a walk, matches that straddle two chunks.
- **Untrusted structure.** Formats are parsed from files that are cut short or
  still being edited, under a cap on entries.

What each part has to guarantee:

| Part | Properties |
|---|---|
| Piece table | an offset names the same cell before and after any split or merge; a cell is shown once; a document without edits is recognised as one |
| Replacement store | an overlay, an xor or a clear changes the cells of its run and no other; a patch brings back every byte; counts and queries agree with lookups |
| Editing session | undo and redo restore what was shown, from any mix of modes; a half-typed byte is never lost between events |
| Reads | every path through a chunk shows the same bytes; a search finds the first match; a replacement takes the leftmost matches; a page read is what the file holds |
| Diff page | every byte of both sides is accounted for, shown once and in order, whatever alignment is chosen |
| Batches | undo records unwind to what was shown; a failed batch with rollback leaves no trace; a selection names the bytes it was made for |
| Local save | a file holds all of what the last save that ended put there |
| Remote save | no edit is lost or stored twice; no foreign change is overwritten unseen |
| Memory session | a region's edits and their history survive a switch; a commit writes where the user edited; nothing pending is dropped by quitting; freezes balance |
| Run loop | a result is shown as current only for the bytes it was computed from; a scan in steps reports what one pass would; every analysis and scan ends |
| Inspector | tree and rows are those of the document as it is; an edit writes the field it was opened on; a cap hides entries and says so |

`PROJECT.json` has the full list of hazards, at the lines where they bite, each
with the properties that would catch it going wrong.

## 2. The plan

Done, in this order:

1. `CellSequence`, `PieceTable` and their proofs: cell identity, on which
   everything rests, with proofs of all that its run checks.
2. `EditSession`: the undo history under every input of the editor, and
   `EditSessionProofs`, that it is exact.
3. `ReplacementStore`: how replacements are stored, and
   `ReplacementStoreProofs`, proofs of all that its run checks.
4. `RemoteSave`, `RemoteSaveProofs`: saving to a server, with proofs.
5. `DocumentEdits`: the document at the level of cells, taken out of
   `EditSession` so that batches and reads are stated over the same one.
6. `MemoryRegions`, `MemoryRegionsProofs`: regions, stashes, commits, freezes,
   with proofs of all that its run checks.
7. `ExecBatch`: batches with rollback, composed with local saves and names of
   files, and `ExecBatchProofs`, the proofs of all that its run checks, over
   the lemmas about documents of `DocumentProofs`.
8. `EventLoop`: the analysis thread and the stepped scans, with liveness, and
   `EventLoopProofs`, the proofs of all its invariants.
9. `DocumentReads`: walks, searches and page reads, composed with `PieceTable`;
   `DiffPage`, what the `:diff` page draws of such a document.
10. `FormatFile`, the six format modules, `FormatTree` and `Inspector`.

Left, in this order:

1. The other side panels (symbols, bookmarks) as further modes of
   `Inspector`, and the inspector composed with the hex view of `EditSession`.
2. The second reader of executables, for the disassembly view.

## 3. The modules

Each `MC` module gives a configuration the values that a `.cfg` file cannot
write, and nothing else.

### `PieceTable` and `CellSequence`

`table` is the `PieceTable` struct: pieces, add-buffer length, document length,
`prefixEnds` with its dirty flag. The byte values are left out (the identity of
a cell determines its base byte). `FindPiece` counts the prefix ends that are
not beyond the offset, as `partition_point` does, over whatever the cache holds
at that moment; `SplitPieceAt`, `SplicePieces` and the coalescing after each mutation
are the code's, in its order. `removed` holds the cell runs that
`delete_range_real` gave to its callers, the undo steps; `insert_existing_cells`
puts one of them back at any offset. `CellSequence` is what the
table promises: a sequence of distinct cells with insert, remove and put back.

### `DocumentEdits`

The document at the level of cells: the base byte of every cell allocated so
far, the cells in order, tombstones and replacements. Below it the piece table
is taken as the cell sequence that `PieceTable` refines, and the replacement
store as the map from cells to bytes that `ReplacementStore` shows it to be.
It holds every operation of `exec/edit.rs`, the seven kinds of `EditOp` with
their undo and redo, and the edits of the execution layer: transforms, deletes,
the same-size and the resizing replacement. It has no variables; three modules
are written over it. Its loops over operations, steps, cells, offsets and matches
are recursive functions on `0..n`, one value for each turn, so that the proofs can
follow them. `Then` puts one edit behind another, for the resizing replacement,
which deletes and inserts at each match, and for the runs of adjacent matches
(`RunStart`, `RunEnds`) that the same-size one fills at once.

### `EditSession`

One variable per field of `App` that a key can reach: `doc`, `cursor`, `mode`,
`pending` (the half-typed insert), `anchor` (the selection), `grabbed` (the
mouse button is down), `returnMode` (the mode under the command line), `undo`
and `redo`. An undo step is the code's: a list of operations, the cursor and mode
to restore, and, for the properties only, the bytes that were shown before it
(`shown`). Each handler is one action; undo and redo of `n` steps are `n` turns of
the code's loop (`OneUndone`), which pops a step before it undoes it and so loses
one that fails. A profile selects the groups of
handlers, the content and the bounds of a behaviour. A byte is two digits of base
`Radix`. `dropped` is a history variable: a drag has lost a half-typed byte
(section 6), after which the history is off by a cell until the next save; the
history properties claim nothing there, and `RemovesRecordedCells` shows why.

### `ReplacementStore`

The two maps of the store: sparse overrides, a byte or the mark that the cell is
not replaced, and disjoint ranges by their first cell, with a length and a
payload (a pattern and its phase, an xor key, explicit bytes and their phase).
`Restore` is an edit or an undo of one cell; `Clear`, `Fill`, `Paste`,
`XorPristine` and `XorAgain` are the run operations of `document/edit`, the last
with its paths for sparse entries, ranges and tombstones (`dead`); `Reset` is a
save. The patch that an undo step keeps and puts back is a pair of operators,
checked in every state. A byte is a set of bits and xor the symmetric
difference, so that the model needs no bitwise operators. The two xors over runs
that hold edits walk along the run as the code does, `restore_patch` lays the
ranges of a patch one after the other, and the dirty count passes over the cells
once; they are recursive functions, so that the proofs can follow them.

### `ExecBatch`

`exec` is the cursor and selection of the execution context, `batch` the macro,
script or command in progress with its policies and the steps it has recorded,
`files` what each entry of the file system holds and which names stand for it.
One command is one action, with every way it can fail before or after changing
something; `FinishInApp` is what the interactive program makes of a report
(grouping into one step, dropping the history a save made obsolete, taking over
cursor and selection), `FinishHeadless` ends one headless run and leaves the
context to the next one. A failing macro with `rollback` undoes its steps in
the reverse order inside the step that failed. What a profile does not list is
what it leaves out: `Macros`, `Binding`, `Files`, `Copies`, `Back`, `Headless` and
`ReadOnly` (in `MCExecBatch`) divide commands, policies and saves between them.
`Commands` and `Policies` are what a program may consist of; the theorems are
about all of it, a profile is a few. `meant` is history: what the last save that
ended put into each file, and it stays so whatever a later save does to the file
before it fails, and over a restart. `SavedExactly`, that every file holds it, is
what `docs/editing-model.md` leads one to expect. It fails in two ways, both saves
under another name: over the file the document reads from (finding 1, where
even all saves report success: `SavedAsReported`), and over any other file when the
save fails after it has truncated that file (section 6). `SavesAreExact` says that
these two (`SavesOver`) are the only steps that take from any file what was saved
there. A save that fails part-way leaves a prefix of what it writes (`SaveOver`).

### `DocumentReads`

The document here is a piece table of module `PieceTable` with replacements and
tombstones over it; the readers are operators that translate the walks of
`walk.rs` with their fast, sparse, ranged and cell-by-cell paths, the two offset
mappings, the forward and backward searches with the tail they carry between
chunks, the search of a clean remote file, and the batches of `exec/replace.rs`.
The reference for all of them is `AsDocument`, the document of `DocumentEdits`.
`Read` is a read through the page cache, whose pages and stamps are a variable.

### `DiffPage`

Extends `DocumentReads`: the `:diff` page keeps nothing from one frame to the
next, so it is a function of the document, the other file, the first row and
`max_shift`. `DiffSources` is the engine of `diff/engine.rs`, by the hunks found so far; its
buffers are the positions `i` and `j` in two sequences, and its hash of a run of bytes is the run
itself, with `SameGrams` for the cap on entries of one hash. `VisibleAlignment`
takes the two windows that `diff_projection.rs` reads around the screen, and
`Alignment` lays the hunks out as cells that face each other; stream offsets are
counted from the start of each window. `ProjectedPage` and `SlotPage` are the two
ways a page is cut: with shifts, and slot by slot without.

### `RemoteSave` and `RemoteSaveProofs`

`Document::save` for a remote document, cut where the server or the connection
can act: begin (stat, compare, create the temporary file), stream, check again,
rename, stat and adopt the fingerprint, reload in one step (FTP) or two (SFTP).
Any request may fail, and the reply to the rename may be lost. Foreign programs
write the target in place or replace it, in any state, with or without a change
of fingerprint. `ReadsByPath` chooses the backend. A content is a count of how
often each change has been applied to it, which is what "lost" and "stored
twice" are about. Known simplifications: the file fits in one page; a foreign
program changes the file, it does not delete it.

### `MemoryRegions` and `MemoryRegionsProofs`

`mem` is the target's memory and `mapped` its regions as they are; `list` the
regions as the session last read them, `opened` and `selected` indexes into it,
`base` and `repl` the document of the opened region, `owner` the region it was
made from, `stash` the edits put away, by index as in the code. A region switch,
a commit and a commit-all are one action each, with a failure at every span
that can fail; `finish_commit_all` and the undo history it keeps follow
the code's order. The target exits or remaps a region between any two actions
while it is not suspended. `owner`, `strayed`, `unread` and `stuck` are history
variables: the region the edits were meant for, a span written to another one, a
rereading after a commit and a thaw that failed.

### `EventLoop`

`pc` is where the run loop is: draining the channel, then one turn of the
running scan, else one event. `WorkerAnswers` is the Sagitta thread. An analysis
has a number, the revision it started from and a validity; `analysis.of` and the
like remember, for the properties, the document a result was computed from. A
scan has the fields of its Rust state and advances by the code's step sizes;
while it runs, events other than cancelling are refused. Undo and redo exchange
documents, because `HistoryUnwinds` of `EditSession` is about exactly that.
`Live` keeps the cells of a document that no tombstone hides by their rank among
the live positions (`Rank`, `Nth`), a form the proofs can reason about; the CASEs
of the module have guards of which at most one holds, so that a definition
means what the code's first match does.

### Formats and the inspector

`FormatFile` says what a format definition reads: a file is its length and the
words, tags and texts at the offsets a parser looks at, so that an ELF file is
a dozen entries and not a kilobyte. The definitions read it by the code's
helpers (`read_bytes_raw` gives all the bytes or none) and return structures
with fields, sizes and children. `EntryWalk` and `Loop` are the bounded loops of
the parsers; their recursion is a fold, `MaxSteps` their bound. `MediaFormats`
has PNG, WAV, GIF, JPEG and BMP; `ArchiveFormats` GZIP, TAR and ZIP;
`CaptureFormats` PCAP and PCAPNG; `DatabaseFormat` SQLite; `ExecutableFormats`
PE and Mach-O; `ElfFormat` ELF with its symbol, relocation, dynamic, note, hash
and version tables. Names and descriptions are kept as far as they quote the
file or tell two nodes apart.

`FormatTree` is detection in the order of `BUILTIN_FORMATS`, the parse under a
cap, paths of nodes, and the rows the panel lists. `Inspector` is the panel:
`app` has the document as such a file with its undo stack, the mode, the cursor,
the cap, the forced format and the panel's state; an action is a key, a click, a
command or a resize. A written field changes one word of the file, and
everything is parsed again. `Detect` is a constant, so that a configuration can
say which of the detectors it uses; the run uses all of them (`Detected`).

## 4. The runs

| Run | Shows | Instance |
|---|---|---|
| `piece_table` | The table implements `CellSequence` step by step; pieces are maximal and the cache is right whenever it is not marked dirty; lookups agree with the sequence at every offset; only an unedited document is the identity, and one that was edited and restored is again | 3 original bytes, 2 added, two deletions outstanding: pieces of three bytes can be cut on both sides and their parts put back in another order |
| `edit` | The undo and redo history is exact and a pending byte is always the newest cell, under every sequence of keys; of pastes, fills, xors and deletes over anything; of clicks, drags and scrolling in the middle of an insert | three profiles: one byte growing to 3 cells, two bytes growing to 4 with clips of two bytes, one byte growing to 2 under the mouse; 2 undo steps |
| `store` | The store keeps its structure, an operation changes the cells it should as it should and no other, undo patches restore every byte, counts and queries agree with lookups | three original cells, so that a range can be cut in the middle, and an added one, so that runs cross sources; two entries of which one may be single |
| `exec_batch` | Undo records of batches unwind, a rollback leaves no trace, a selection names the bytes it was made for, and no step leaves a file with less than the last save put there but two saves under another name: over the file that is read, or failing once the target is truncated | seven profiles of 2 or 3 steps over 2 or 3 bytes, at most 5 cells |
| `save_alias` | Finding 1 | the opened file has a second name |
| `remote_sftp` | Over SFTP no failure, lost reply, retry or foreign write loses an edit, overwrites a detectable foreign change or stores an edit twice | 2 edits, 2 foreign changes, 3 fingerprints: a save, a retry and a foreign change on either side of each |
| `remote_ftp_retry` | Finding 2 | the same over FTP |
| `memory` | Switching regions keeps every edit and its history, commits write where the user edited and in order of addresses, a view is current, no pending byte of any region is lost on the way, freezes balance | two regions of two places, one change of permissions, one undo step per region, two nested freezes |
| `memory_refresh` | Finding 3 | a region is mapped below the opened one |
| `jobs` | What is shown as current is current, a scan reports what one pass would, a mismatch jump finds the nearest, every analysis and every scan ends | three bytes against two; 3 analyses, 2 scans, 3 changes of the document, 4 starts in all |
| `readers` | Walks, offset mappings, searches and replacement batches agree with their definitions, reads through the page cache with the file, and the diff engine and page account for both sides | a file of four bytes, two edits, chunks of two bytes and one chunk for all, six patterns up to a length of 3; one page of two bytes; five other files, shifts of 0, 1 and 2, caps of one hunk and of three, anchors of two bytes, a screen of one row of two |
| `inspector` | Tree, rows and an open field edit stay those of the document through edits, undo, commands, clicks and a narrow terminal, and a cap only hides entries behind a marker | for every format a file that has all its parser knows and one that is cut short, opened and given more entries; five small files that are worked on by two to five actions |

Why the bounds are enough. All the operations of the piece table and of the
store are local to the two ends of one run, so three cells, which give a left
neighbour, an inside and a right neighbour, produce every relation of a run to
a piece or a range. Two undo steps let one step lie under another, which is
what a wrong record needs in order to do damage. `Radix` 2 keeps both halves
of a byte independent. In a batch, three steps are one that makes something, one
that moves it and one that relies on it. Two regions are the opened one and one
that is not, and two places in a region let a commit fail half way. Three
analyses and an event between each are a late answer, its replacement and the
next start; four starts in all are enough for two kinds of work to overlap. For
reads, a chunk limit of two over four bytes gives chunks with a neighbour on
each side, and patterns of three span two boundaries. For the diff
page, six slots and a context of three let a window begin behind the start of
the document, and hunks of all four kinds and a truncated result occur. An entry
cap of 1 is exceeded by every list of two, and can be raised until it is not.

The bounds by name. `MaxAdd`, `MaxInsert`, `MaxRemoved` (piece table, reads);
`MaxEdits`, `MaxReads` (reads); `MaxSparse`, `MaxEntries`, `MaxDead` (store);
`MaxClock`, the fingerprints; `MaxRemaps`, `MaxSteps`, `MaxDepth` (memory);
`MaxRevision`, `MaxJobs`, `MaxScans`, `MaxWork` (loop); `MaxSteps`, the turns of
a parser's loop, and `Whole` (formats); and in a profile `cells`, the cells ever
allocated, `steps`, the depth of the undo stack or the length of a batch, `undo`,
`acts` and `caps`. At a bound, the action that would exceed it is not taken.

Fairness. Only `EventLoop` states it: `WF_vars(Loop) /\ WF_vars(WorkerAnswers)`.
The loop's body never blocks for longer than the poll timeout of `app.rs` (a
quarter of a second at most), so the thread takes its next step whatever the
user does, and a Sagitta thread, which reads a snapshot and waits for nothing,
ends and sends its answer. No fairness is assumed of the user: `ScanEnds` and
`AnalysisEnds` hold when no key is ever pressed. Elsewhere nothing has to happen
eventually, because nothing retries by itself.

Deadlock is checked in `edit`, `store`, `exec_batch`, `remote_sftp` and `jobs`.
It is not in `piece_table` and `readers`, where it is a real end (with the add
buffer full and nothing left to remove or put back, no call is possible), in
the runs of `MemoryRegions`, where the program has quit, and in `inspector`,
where a profile's actions are counted.

## 5. The proofs

**Cell identity.** `PieceTableProofs` begins with `CellsNeverShared`: in every
behaviour of `CellSequence`, for a file and for inserts of any length, no cell is
at two offsets, and none that a deletion handed out is in the document or in
another run. The invariant `IInv` adds to this (`CellsDistinct`) the types and
that every inserted cell has an identity below `added` (`Allocated`): without
that, the next insert could hand out an identity again. The lemmas
`SpliceAt` and `SpliceDistinct` say what a splice has at each position;
`InsertStep`, `PutBackStep` and `DeleteStep` treat one operation each.

**The piece table.** `PieceTableProofs` proves the four properties of the run
`piece_table` for a file and for inserts of any length, any size of the add
buffer and any number of deletions, from `TableConstants` (they are naturals).

- `TableInvariant`, `Spec => []TableInv`. `TableInv` says that the table is
  `Settled` and that every run a deletion handed out consists of cells below the
  end of their source (`InReach`): without that, putting a run back could make a
  piece that reaches past the add buffer. `Settled` is `Sized`, which also holds
  between the two splits of a deletion (the length is the sum of the pieces,
  none is empty or past its source, the cache is stale or right), and `Parted`,
  which coalescing restores (no piece continues its neighbour).
- `StructureKept` (`Structure`) and `QueriesAreExact` (`QueriesExact`) follow from
  it. The second needs that the binary search finds the piece that has an offset
  (`FindPieceIs`), that a walk collects exactly a range of the document
  (`WalkIs`, `RangeIs`), and, for `is_identity`, that pieces which show the cells
  of the file in order and of which none continues its neighbour are one piece
  (`IdentityIs`): so `Parted` is what makes an undone document clean again.
- `TableRefines`, `Spec => RefinesCellSequence`. Each operation has a lemma that
  says what it does to the document: `InsertedIs`, `RestoredIs`, `DeleteIs`. They
  rest on `SplitIs` (a split leaves the cells alone and puts a piece boundary at
  the offset), `CoalesceIs` (merging leaves the cells alone) and `CellsBeside`
  (the cells of two lists of pieces side by side are side by side). `TableStep`
  maps an insert to one at the offset clamped to the document, a deletion to one
  whose length is clamped, a lookup to a stutter.
- `CellsStayUnique` (`CellsUnique`) follows from `TableRefines` and
  `CellsNeverShared`.

The loops over the pieces (`ensure_prefix`, `cell_ids_range`, `coalesce`) are
recursive functions on `0..Len(pieces)`. `Recursion` (in `DocumentProofs`) proves,
from the naturals' well-foundedness, that a function with given first value and step exists, so the
definition by CHOOSE behind it satisfies its equations (`EndsAre`, `JoinedAre`,
`MergedAre`, `WalkAre`); `UpTo` is the induction over the positions, with the set of
those where the claim holds.

**Remote save.** `RemoteSaveProofs` holds for any sets of edits and foreign
changes, any bound on fingerprints and any choice of `Fresh`, from
`RemoteConstants` (edits and foreign changes are disjoint, the absent content
is no content):

- `TypeCorrect`, `Spec => []TypeOK`. The type invariant is not inductive by
  itself: the rename copies `temp` to the target, so it needs `Streamed`, that
  a save which has streamed the document still owns its temporary file, and has
  the page it was made from in the cache.
- `EditsSafe`, `Spec => []EditsNeverLost`. `EditsInv` adds that an edit which is no
  longer pending is also in every copy that a later save may be made from (the
  page, an unlinked handle), that a streamed temporary file has every edit, and
  that after the rename the target has.
- `ForeignSafe`, `Spec => []NoSilentLoss`. `ForeignInv` relates fingerprints to
  contents: while the server's fingerprint is the known one, every foreign
  change that is not excused is in the copies a save can be made from, and the
  streamed file has the foreign changes of the page and no others.
- `RetrySafe`, with a read handle (`~ReadsByPath`), `Spec => []AppliedOnce`.
  `OnceInv` adds that a pending edit is in nothing the editor can still read:
  after the rename the handle goes on naming the old file until a reload
  succeeds. Finding 2 shows that the assumption is needed.

**Memory of a process.** `MemoryRegionsProofs` proves all seven properties of the
run `memory`, for any number of regions and of places in them, any bytes, depth
of freezes and length of histories, from `MemoryConstants` (addresses and offsets are
finitely many naturals; one region can be read at first).

- `FreezesBalance`, `Spec => []FreezeBalanced`. `FreezeInv` adds that a session
  dies only with its target and that a target which has exited is not stopped:
  a dead session refuses to thaw, which is right only because nothing is
  stopped then.
- `CommitsGoHome` (`CommitsWhereEdited`) and `ViewsAreCurrent` (`ViewIsCurrent`).
  Both follow from `RegionInv`, for a target that changes permissions but neither
  maps nor unmaps a region (`"map" \notin Remaps`). It says that the list has all
  the regions, in address order, once each (`WellListed`); that the document and
  every stash stand at the index of the region they were made in (`EditsAtHome`);
  and that every page snapshot is what the region holds (`Current`). The last is why
  a view read through the cache is current: a commit patches the snapshots by
  address. With `"map"` the second part fails at the first refresh, which is
  finding 3, so the assumption cannot be dropped.
- `SwitchesKeepEdits` (`SwitchKeepsEdits`). From `RegionInv` before and after the
  step the edits of a region are found at its own index (`EditsFound`), and
  a switch moves the entries of two indexes only.
- `NothingLost` (`EditsAreKept`). It is about every pending byte wherever it is, the
  stash of the opened index included (`EditsOf`), and every action. A commit
  forgets a region only after all its spans are written (`DoneWritten`); a stash
  moves only between the index of its region and the document (`RegionInv`); and
  the guard of `:q` and of attaching, which passes over the stash of the opened
  index, sees every edit because under `RegionInv` that stash is never another
  region's (`NothingPending`). With `"map"` this last step fails (section 6, a
  stash of the opened index). An attempt to enter a region that cannot be read is
  the one exception that the user did not ask for.
- `CommitsByAddress` (`CommitsInOrder`). `CommitAllParts` says what a commit-all
  has written wherever it stopped: regions that are an initial part of the order
  by address, and some spans of one more.
- `MemoryTypes` (`TypeOK`), from `RegionInv`, `Held` (the types of what is in a
  stash, where a document's edits come from) and `Listed`.

**Run loop.** `EventLoopProofs` proves the three invariants of the run `jobs`
for every file and other side, every step, chunk and limit of the scans, and any
number of edits, jobs and scans, from `StepAssumption` (the steps are positive,
a statistics step is whole chunks), `FileAssumption` (the file is bytes) and
`NoneAssumption` (`None` is no state). All follow from one inductive invariant,
`LoopInv`, which TLC also finds true on the run's instance:

- `HistoryInv`: the undo steps lead up to the document one after the other and
  the redo steps away from it, and a step that marks only bytes has kept the live
  cells in place. Without it an undo could bring any document under a snapshot
  that it marks `OutdatedBytes`.
- `JobsInv`, `OnceInv`: a worker or an answer that has the newest number was given
  a document of which the validity in the panel is true (`JobOk`), and no job can
  answer twice. A second answer of the newest job would make its snapshot
  current after edits that were marked on the first one.
- `AnalysisInv` is `AnalysisIsHonest`'s goal with the types it needs.
- `ScanInv`: what a pending scan has collected is one pass from its first offset to
  its cursor (`HashScan`, `StatsScan`), or agrees with the other side wherever it
  has looked (`DiffScan`, one disjunct for each direction and side of the wrap).
  `LiveConcat` and `BytesOfParts` join the bytes of two adjacent ranges; the
  `Visits...` lemmas give the place of an offset in visiting order, and
  `JumpFound`, `JumpContinues`, `JumpWraps` and `JumpEnds` are the four ways in which
  a step can come out.

The first attempt at `NearestMismatch` failed for a reason in the model: the
guards of some CASEs overlapped. TLC takes the first true guard, TLA+ does not say
which, so the theorem did not follow; the guards are disjoint now.

**Editing session.** `EditSessionProofs` proves the four invariants of the run
`edit` for any file, any clips and fills, any number of cells and of steps, any
nibbles and every input at once, from `SessionConstants` and
`DocumentConstants` (a byte is two digits of `Radix`, clips and fills are bytes and not
empty, `None` is no number and no half-typed byte).

- `SessionInvariant`, `Spec => []SessionInv`. The heart is `History`: there is a line
  of documents that begins with the file as it was opened or last saved
  (`Original`); the steps of the undo stack, then those of the redo stack from its
  top, are the links between neighbours on it, and the document of this moment
  is where the two stacks meet. A link is a step that `Leads` from one document to
  the next and back, exactly: the same cells in the same order, the same
  deletions, the same replacements. `HistoryUnwinds` alone is not inductive. It
  says that bytes are shown again, and of two documents that show the same a
  redo can make different ones; and it says nothing of the redo stack.
- Undo and redo move along the line (`HistoryBack`, `HistoryOn`) and never fail. An
  edit cuts the line at the document of this moment and adds one (`HistoryPushes`),
  so each edit needs that its operations lead there and back (`Edits`).
  `InsertEdits` and `DeleteEdits` need that what is cut out again is what was put in;
  `ReplaceEdits` and `PatchEdits` that a record of the cells of a range restores
  them; `BulkEdits` and `XorEdits`, whose records name a range and no cells, that no
  cell of the range had a replacement (`Pristine`) or is shown twice (`Injective`,
  a part of each document on the line); `RunsEdit` that the runs of
  `overwrite_run_bytes_overlay_changed` follow one another on such a range.
- New cells: an insert enlarges `base` under all documents of the line. No step
  names the new cells, so each document can be given them without a difference to
  what the steps do or to what is shown (`Extended`, `HistoryExtends`).
- The half-typed byte: `Settled` is the document without it, and while it is
  pending the line ends there, over the cells that were allocated before it
  (`Allocated`). Only that byte's replacement may change until it is committed,
  when the document it was typed into becomes the next one (`CommitSome`); taken
  back, the line is as it was, with a cell more below it (`TakeBackSafe`).
- After a drag has dropped a half-typed byte (`dropped`), the invariant promises
  only types. They still hold: an undo can fail then, and `UndoFailed` says what a
  failed step leaves.
- `UndoIsExact` (`HistoryUnwinds`), `RedoIsExact` (`HistoryReplays`),
  `PendingStaysNewest` (`PendingIsNewest`) and `StateIsTyped` (`TypeOK`) follow from it.

The line is no part of the state, so TLC does not check `History` itself; it
checks the four properties that follow from it. The lemmas about documents,
edits and the line are in `DocumentProofs`, which has nothing of the session, so
that the proofs about batches stand on the same ones.

**Batches.** `ExecBatchProofs` proves the four properties of the run `exec_batch`
for any file, any names, any programs of macros, scripts and headless commands
and any number of steps, from `BatchConstants` (commands and policies are those of
the code, the opened path is a name, `Bound` is no bytes) and
`DocumentConstants`.

- `BatchesInvariant`, `Spec => []BatchesInv`. Between batches of the interactive
  program it is the line of documents of the editing session (`StacksOk`). While
  a batch runs, the stacks are frozen, and the invariant is about a document that
  is nowhere in the state: the one from which what was applied leads to the
  document of this moment and back (`Began`). Without a save it is the document
  the batch began with, and shows `before`; after one, it is what the save left.
  The stacks meet there (`Stacked`), and what a group or the single steps have
  recorded are exactly the operations applied (`Recording`). `BatchesUnwind`
  alone is not inductive: it speaks of what is shown, and of the steps as they
  would be reported, and the records of a group have no step until the end.
- Every command is shown to fail or to lead to its document by the operations it
  reports, of which those without effect may be left out (`Becomes`, `Works`), as
  `execute_batch` filters them. A replacement is a chain of fills, or of deletions
  and insertions, of which each is recorded exactly and starts where the one
  before it ended (`Then`); so it is undone exactly whatever it has matched. That
  it replaces the leftmost matches is what `SearchesExact` checks.
- `BatchesAreUndone` (`BatchesUnwind`): at the end, and at each moment before it,
  the report lies behind the undo stack on the line (`ReportOk`), the steps of a
  script after they have become one as well (`MergedOk`).
- `MacrosRollBack` (`RollbackRestores`): undoing what was applied reaches the
  document of `Began`, so no undo on the way fails. It needs that a macro with
  rollback has not saved (`Shape`): the code refuses such a step before it runs.
- `SelectionsHold` (`SelectionNamesCells`): each command that moves cells drops the
  selection or leaves the cells of its range in their slots (`Named`). After a
  save the slots are numbered anew and the selection claims nothing.
- `SavesStayExact` (`SavesAreExact`): a save writes one file, and every way it can
  end leaves that file with the whole document or untouched (`SaveExact`), unless
  the save is under another name and the target is the file the document reads
  from, or the save fails after it has truncated the target. What was saved
  counts in both cases (`meant` keeps it), so these are steps that break
  `SavedExactly`, and the theorem says that there are no others.

**Replacement store.** `ReplacementStoreProofs` proves all four properties of the
run `store` for sources of any length, and any bytes, patterns, runs and xor
keys, from `StoreConstants` (patterns and runs are bytes and not empty; the mark
`None` is no byte).

- `StoreInvariant`, `Spec => []StoreInv`. The store is `Sound`: with the types of
  its entries (`Stores`), every range lies inside its source and has the bytes it
  needs (`Placed`), ranges do not overlap (`Apart`), and a cell marked as not
  replaced lies on a range (`Anchored`). No range is a xor with nothing: two xors
  with one key cancel, and the code drops the range then. `PatchesRestore` needs
  it, because a patch drops such a range as well, while the lookup of one would
  call its cells replaced. Phases are not bounded by `WellFormed`,
  so the types say more than it does: a range that is cut takes its phase modulo
  the pattern's length, and `ModAdd` shows that the bytes stay the same. TLC also
  finds `StoreInv` true on the run's instance.
- `StoreIsWellFormed` (`WellFormed`) follows from it.
- `EditsAreExact` (`EditsExact`) needs what each operation does to each cell. A
  lookup takes the last range that starts by the cell; as ranges are apart, that
  is the one that covers it (`ContainingIs`), and the search of a run finds the
  ranges that overlap it (`OverlappingIs`). All updates of ranges are two steps:
  `ClearIs`, `ClearSound` and `ClearGet` say that a clear cuts the ranges it
  meets, and that their ends show the bytes they showed (`ShiftedFits`);
  `InsertSound` that ranges laid where nothing is show their values. A pattern
  and a paste lay one range (`SetIs`), a xor lays the overlapping parts, composed
  with the key, and the gaps (`XorLayable`, `ComposedFits`, `XorIs`).
- The xors over runs with edits or tombstones are walks. `SparseWalk` and
  `BytesWalk` follow them with the set of the cells done so far (`Done`): each
  cell adds itself or the maximal stretch that starts there, and stretches that
  meet are the same (`MaximalApart`), so nothing is xored twice. `MixedIs` joins
  the three ways.
- `PatchesRestore` (`PatchRestores`). A patch keeps the parts of the ranges that
  overlap its run (`Parts`) and the entries of its cells. `PatchIs` says that these
  are enough: what a cell of the run showed is determined by its entry and by the
  part that covers it, at the phase the part was cut at (`PartIs`). A restore
  clears the run and lays the parts in order; `LayWalk` follows it with the parts
  laid so far, which stay apart from the one that is next, and `RestoreWalk` does
  the same with the entries, each of which finds the part it marks.
- `SummariesAreExact` (`SummariesExact`). `HasInRangeIs` treats the three forms of
  the range query. `DirtyBytesAre` is a count, by two inductions over the cells in
  the order of the sources: the lengths of the ranges add up to the number of
  cells they cover, as they are apart (`RangeBytesStep`, `RangeBytesAre`), and each
  entry corrects that as the code does, up for a byte outside of all ranges and
  down for a mark inside of one (`DirtyStep`).

Region lists and commit orders are sorted, so the proofs need that a finite set
can be listed by a key. `MemoryRegionsProofs` proves it (`Sortable`) from the
well-foundedness of the naturals. `DocumentProofs` begins with what all the proofs
need of it: `LeastNatural`, induction with the set of the numbers for which the
claim holds (`AllNaturals`), which needs no theorem with an operator as a
parameter, and `Recursion` and `UpTo`, for the loops of the piece table, of the
xors, of undo and redo and of the batches. Modules that are not about documents
cite these through an instance (`Order`).

Each proof has the same layout: the invariant, a lemma for the initial states,
a lemma with one step per action, and a temporal step.

Only model-checked: everything else. Liveness (`AnalysisEnds`, `ScanEnds`) needs
fairness and so ENABLED, which is beyond the installed provers. What the folds
of the readers, of the diff engine and of the format parsers compute for inputs of
any length is a fact about operators that take an operator, of which the provers
see no definition: so `WalksExact`, `SearchesExact`, `PagesExact` and `DiffExact`
stay with TLC. `FormatTree` and `Inspector` above it declare recursive operators and
can hold no theorem.

## 6. Findings

With a run:

1. *Saving under another name of the opened file* (`save_alias`). `save_rewrite`
   goes through a temporary file when the target equals the opened path as a
   path. A link to the same file, or a relative against an absolute path, is
   truncated while the document still reads from it; the save reports success.
   It needs no second name: when the document is saved under another name and
   opening that file again fails, `Document::save` has set the path
   (`core/document/mod.rs:223`) but still reads the old file, and a save back to
   the old name truncates it.
2. *A retried FTP save stores insertions twice* (`remote_ftp_retry`). The save
   renames and adopts the new fingerprint, then reload fails: the edits stay
   pending over a base that, read by path, has them already. The retry passes
   the fingerprint check and applies them again.
3. *A refreshed region list shifts under the opened region* (`memory_refresh`).
   `:mem refresh` replaces the list and clamps the opened index. When the target
   has mapped a region below, the index names another region and the next commit
   writes the edits to its addresses.

Met while modelling, where the code differs from a document or from another part
of the code. In each case the model does what the code does, and the properties
leave the case out by name or do not speak of it:

- *Backward search.* `scan_clean_chunk_backward`
  (`src/core/document/search.rs:339`) resets the matcher at each chunk, so a match
  that lies over a clean piece shorter than the pattern is missed
  (`docs/modules.md:82`). `SearchesExact` asks for the last match only of a
  document without tombstones and replacements.
- *A drag loses a half-typed byte.* `src/app/mouse.rs:317` sets Visual without
  finishing the pending insert: its byte enters no undo step, and the next undo
  removes other cells than it recorded, which the debug assertion in
  `src/exec/edit.rs:101` rules out.
- *A failed save under another name destroys its target.* Only a save to the opened
  path goes through a temporary file and a rename, which `docs/editing-model.md:78-80`
  gives as the save path. Any other target is opened with `truncate` and streamed
  into (`src/core/save.rs:56`, `61-65`), so a failure midway leaves an existing file,
  say the copy saved a moment ago, with a part of the document. The model counts
  it as a loss; `SavesAreExact` excepts it by name (`SavesOver`), `SavedExactly` fails.
- *A failed region switch loses history and edits.* `open_memory_region_at` moves the
  undo history of the opened region into its stash and takes the stash of the
  target before it reads the target (`memory_state.rs:607`). When the read fails,
  neither is put back; `docs/user-guide.md:464` promises replacements, undo and redo
  across switches. `SwitchKeepsEdits` excepts these two regions of a switch that
  fails, and `EditsAreKept` the one that could not be entered.
- *A stash of the opened index is not seen by `:q`.* When the target has unmapped
  the opened region, `:mem refresh` clamps the opened index, perhaps to a region
  that has edits in the stash; `memory_dirty_summary` (`memory_state.rs:1039`) passes
  over the stash of the opened index, so `:q` and attaching drop them, although
  `docs/user-guide.md:464` says that `:q` refuses to while any region is dirty.
  `EditsAreKept` fails there, so the run `memory` maps and unmaps nothing.
- *Normal mode on the end-of-file slot.* Esc after moving right past the last
  byte of an insert (`mode_state.rs:41`; `docs/editing-model.md:49`).
- *`:u` keeps the selection* (`undo.rs:32`; `docs/architecture.md:24`), and a step
  recorded by a command, restored by a key, opens the command line (`undo.rs:26`).
  An undo also keeps an anchor beyond the new end, which the next macro takes
  as its selection.
- *A conflict with oneself.* The reply to a remote rename or the stat after it
  is lost: the known fingerprint stays the old one and every retry reports a
  foreign change (`russh_sftp.rs:226`; `error.rs:63`). `EditsNeverLost` says that the
  edits survive these retries, not that one of them succeeds: none does.
- *The symbol panel* is only marked stale by some edits
  (`analysis_state.rs:225`; `docs/sagitta-integration-design.md:338`), and a region
  switch changes the document's revision without touching the analysis.
- *`:diff prev` from offset 0* visits offset 0 before it wraps around.
- *The diff page of two equal files* can show differences
  (`docs/architecture.md:57`): the window of the file begins `max_shift` bytes
  before that of the document (`diff_projection.rs:553`), and the engine has to
  find its way back by an anchor at exactly that shift. If the window begins in
  a run of one value, which is no anchor, a whole page is unresolved or faces the
  wrong bytes. `DiffExact` asks that nothing is lost, not that the shift is the
  best one.
- *The diff page with deleted slots.* Behind the end of the document the page
  without shifts reads the file at the display offset (`diff_projection.rs:678`),
  so it passes over as many bytes as slots are deleted; a click on a cell that
  only the file has takes its display offset for a logical one (`mouse.rs:151`);
  and a window with many deleted slots leaves rows blank although the document
  goes on.
- *Macros.* Undoing one does not restore the selection before it
  (`docs/macro-design.md`, 6.2); a save in the middle keeps a selection although
  dropping tombstones moves the offsets; an empty display selection past the
  start becomes one of two bytes in the interactive program.
- *Entry caps.* `:insp more` can take structures away: an ELF table disappears
  when the larger cap reaches an entry that cannot be read, a ZIP file with
  an unreadable central entry goes back to its local headers (`zip.rs:77`), one
  without an end record disappears (`zip.rs:137`; `docs/user-guide.md:209`). PCAP,
  PCAPNG and SQLite write markers that `has_pending_more_marker` does not
  recognise, so "all entries loaded" is reported with some hidden; PE and
  Mach-O lists, JPEG segments and SQLite pointers are cut without a marker.
- *Fields.* The section data range of PE and Mach-O is placed at the header's
  field; `ImageBase` of PE32+ overlaps its neighbours; the limit on `verneed`
  entries is cut to 16 bits; a GZIP name that is edited loses its NUL; the
  `align` of a Mach-O section is shifted as a 32-bit number.
- *Field edits.* `:` leaves an edit open under the command line, and it is drawn
  at the selected row while submitting writes the row it was opened on
  (`view/inspector.rs:131`); an undo restores the mode of a field edit with no
  edit open; a terminal that becomes narrow during a command leaves an edit
  open in Normal mode; `:format` with an unknown name resets the cap without
  parsing again.

## 7. What is not modelled

- Documents of fixed size in `EditSession` (read-only ones are a profile of
  `ExecBatch`): the guards that refuse edits stand at the entry of each handler.
- A crash in the middle of a local write: the code neither syncs nor recovers,
  so nothing is promised.
- Transport, authentication and target parsing of remote files; the system calls
  behind the memory backends, of which the session relies only on what fails.
- What the Sagitta library recovers from a binary, and the engine that runs scripts.
- Files that shrink while they are open: a read that comes back short ends a
  piece early.
- The typing and encoding of a field value (a value fits the field or it does
  not), and an I/O error while the inspector parses.
- Of the diff page, the colours, previews and profiles, and what a click on one of
  its cells selects; that its shift is the best one is promised nowhere.
- Bookmarks, copy, export and clipboard, start-up and configuration: state that
  nothing else reads, or none.
- Executables and symbols, disassembly and assembly: a second reader of formats
  that are modelled, and decoders that are libraries; the row cache is dropped
  as a whole by every edit.
- Views, key tables and the command parser: text in, text out, well covered by
  unit tests.
- In `ReplacementStore`, the decomposition of a display range into runs of
  cells (that is `cell_ids_range` of `PieceTable`) and the chunk size of long
  byte runs, which bounds memory and not behaviour.

## 8. Running

    tlc -workers 2 -config Edit.cfg MCEditSession
    tlc -workers 2 -config Inspector.cfg MCInspector
    tlapm DocumentProofs.tla
    tlapm PieceTableProofs.tla
    tlapm RemoteSaveProofs.tla
    tlapm MemoryRegionsProofs.tla
    tlapm EventLoopProofs.tla
    tlapm ReplacementStoreProofs.tla
    tlapm EditSessionProofs.tla
    tlapm ExecBatchProofs.tla

`PROJECT.json` names the module and the configuration of every run. A run takes
from seconds to about four minutes, the proofs of a module up to about ten.
