----------------------------- MODULE MemoryRegions -----------------------------
(***************************************************************************)
(* Editing the memory of a running process: the session with its region    *)
(* list and page snapshots, the document of the opened region, the edits   *)
(* stashed for the other regions, and the commits that write them.         *)
(*                                                                         *)
(* A region is named by its start address and keeps its bounds; it has     *)
(* Slots, places so far apart that each replaced one is a span of its own. *)
(* A region is one page of the snapshot cache.  The target may exit, and   *)
(* remap its regions while it is not suspended; its own writes to the      *)
(* slots are not modelled.                                                 *)
(***************************************************************************)
EXTENDS Integers, Sequences, FiniteSets, SequencesExt

CONSTANTS
    Regions,    \* start addresses of the regions the target can have
    Slots,      \* places in a region, by offset
    Typed,      \* bytes the user types; a slot holds 0 when it is mapped
    Initial,    \* the regions mapped at first, with their permissions
    Remaps,     \* which remappings the target does: "protect", "map"
    Perms,      \* the permissions it gives: "rw", "ro", "none"
    MaxRemaps,  \* bound: remappings
    MaxSteps,   \* bound: undo and redo steps of a region
    MaxDepth,   \* bound: nested freezes
    None        \* Option::None

ASSUME MemoryConstants ==
    /\ Regions \subseteq Nat /\ IsFiniteSet(Regions)
    /\ Slots \subseteq Nat /\ IsFiniteSet(Slots)
    /\ Typed \subseteq Nat /\ None \notin Nat
    /\ Perms \subseteq {"rw", "ro", "none"}
    /\ DOMAIN Initial \subseteq Regions
    /\ \A r \in DOMAIN Initial : Initial[r] \in Perms
    /\ \E r \in DOMAIN Initial : Initial[r] # "none"
    /\ Remaps \subseteq {"protect", "map"}
    /\ {MaxRemaps, MaxSteps, MaxDepth} \subseteq Nat

Values == Typed \cup {0}

VARIABLES
    mapped,     \* the target's regions and their permissions
    mem,        \* the target's bytes
    exited,     \* the target has exited
    suspended,  \* the target is stopped
    remaps,     \* remappings so far
    list,       \* MemorySession.regions
    pages,      \* MemorySession.pages, by region fingerprint
    depth,      \* freeze depth; 0 is MemorySessionState::Alive
    dead,       \* MemorySessionState::Dead
    opened,     \* MemoryRuntime.opened_region, an index
    selected,   \* MemoryRuntime.selected_region, an index
    stash,      \* MemoryRuntime.region_edits, by index
    base,       \* what the document was read as
    repl,       \* the document's replacements
    undo, redo, \* App.undo_stack and App.redo_stack
    quit,       \* "no", or how the program ended: "clean", "forced"
    owner,      \* history: the region the document's edits were made in
    strayed,    \* history: a commit wrote edits of one region into another
    unread,     \* history: a commit could not read its region again
    stuck       \* history: a session ended and could not thaw

targetVars == <<mapped, mem, exited, suspended, remaps>>
sessionVars == <<list, pages, depth, dead>>
docVars == <<owner, base, repl, undo, redo>>
historyVars == <<strayed, unread, stuck>>
vars == <<targetVars, sessionVars, opened, selected, stash, docVars, quit,
          historyVars>>

-----------------------------------------------------------------------------
(* Helpers. *)

Empty == <<>>
Blank == [s \in Slots |-> 0]
With(f, x, v) == [y \in DOMAIN f \cup {x} |-> IF y = x THEN v ELSE f[y]]
Without(f, x) == [y \in DOMAIN f \ {x} |-> f[y]]
Least(a, b) == IF a < b THEN a ELSE b

(* The elements of S one after the other: sort_by_key, or a map's order. *)
InOrder(S, Before(_, _)) ==
    CHOOSE s \in [1..Cardinality(S) -> S] :
        \A i, j \in DOMAIN s : i < j => Before(s[i], s[j])

ById(S) == InOrder(S, <)

(* MemorySession::open and refresh_regions read the maps in address order. *)
Fresh(r) == [id |-> r, perm |-> mapped[r], dirty |-> FALSE, stale |-> FALSE]
MappedList ==
    LET ids == ById(DOMAIN mapped) IN [i \in DOMAIN ids |-> Fresh(ids[i])]

(* open_memory_cli_target *)
FirstReadable(regions) ==
    CHOOSE i \in DOMAIN regions :
        /\ regions[i].perm # "none"
        /\ \A j \in DOMAIN regions : j < i => regions[j].perm = "none"

Fingerprint(entry) == <<entry.id, entry.perm>>

(* set_display_byte: the base byte needs no replacement. *)
Replaced(b, r, s, v) == IF v = b[s] THEN Without(r, s) ELSE With(r, s, v)

(* apply_replacement_spans over what was read. *)
Applied(b, spans) ==
    LET changed == {s \in DOMAIN spans : spans[s] # b[s]}
    IN  [s \in changed |-> spans[s]]

Running == quit = "no"
Alive == ~dead /\ ~exited

(* ensure_alive fails: the pid names another process, which kills the      *)
(* session, or the fingerprint cannot be read.                             *)
NotAlive == ~Alive /\ (dead' = dead \/ (exited /\ dead' = TRUE))

-----------------------------------------------------------------------------
(* Reading a region through the page cache: document_for_region. *)

Cached(i) == Fingerprint(list[i]) \in DOMAIN pages

CanRead(i) ==
    /\ list[i].perm # "none" /\ Alive
    /\ \/ Cached(i)
       \/ list[i].id \in DOMAIN mapped /\ mapped[list[i].id] # "none"

ReadBytes(i, held) ==
    IF Cached(i) THEN held[Fingerprint(list[i])] ELSE mem'[list[i].id]

(* The snapshot stays in the cache; held is the cache after a commit's     *)
(* own writes.                                                             *)
ReadRegion(i, held) ==
    /\ CanRead(i)
    /\ pages' = With(held, Fingerprint(list[i]), ReadBytes(i, held))
    /\ dead' = dead

(* The permissions, the target's state, or the backend forbid the read. *)
CannotRead(i, held) ==
    /\ ~(list[i].perm # "none" /\ Alive /\ Cached(i))
    /\ pages' = held
    /\ IF list[i].perm = "none" \/ Alive THEN dead' = dead ELSE NotAlive

(* A document as it was read, with the edits given. *)
ShowRegion(i, held, edits) ==
    /\ owner' = edits.of
    /\ base' = ReadBytes(i, held)
    /\ repl' = Applied(base', edits.spans)
    /\ undo' = edits.undo /\ redo' = edits.redo

NoEdits(r) == [of |-> r, spans |-> Empty, undo |-> <<>>, redo |-> <<>>]

-----------------------------------------------------------------------------
(* Editing the opened region; the document keeps its length. *)

Shown(s) == IF s \in DOMAIN repl THEN repl[s] ELSE base[s]

(* replacement_state and restore_replacement. *)
Replacement(r, s) == IF s \in DOMAIN r THEN r[s] ELSE None
Restored(r, s, v) == IF v = None THEN Without(r, s) ELSE With(r, s, v)

Edit(s, v) ==
    /\ Running /\ v # Shown(s) /\ Len(undo) < MaxSteps
    /\ repl' = Replaced(base, repl, s, v)
    /\ undo' = Append(undo, [slot |-> s, before |-> Replacement(repl, s),
                             after |-> Replacement(repl', s)])
    /\ redo' = <<>>
    /\ UNCHANGED <<targetVars, sessionVars, opened, selected, stash, owner, base,
                   quit, historyVars>>

Undo ==
    /\ Running /\ undo # <<>>
    /\ LET step == Last(undo)
       IN  /\ repl' = Restored(repl, step.slot, step.before)
           /\ redo' = Append(redo, step)
    /\ undo' = Front(undo)
    /\ UNCHANGED <<targetVars, sessionVars, opened, selected, stash, owner, base,
                   quit, historyVars>>

Redo ==
    /\ Running /\ redo # <<>>
    /\ LET step == Last(redo)
       IN  /\ repl' = Restored(repl, step.slot, step.after)
           /\ undo' = Append(undo, step)
    /\ redo' = Front(redo)
    /\ UNCHANGED <<targetVars, sessionVars, opened, selected, stash, owner, base,
                   quit, historyVars>>

-----------------------------------------------------------------------------
(* Opening another region: open_memory_region_at. *)

(* Arrow keys and clicks in the maps panel. *)
Select(i) ==
    /\ Running /\ i \in DOMAIN list
    /\ selected' = i
    /\ UNCHANGED <<targetVars, sessionVars, opened, stash, docVars, quit,
                   historyVars>>

(* Mutant: the redo stack of the region that is left is dropped. *)
StashedWithoutRedo ==
    IF repl = Empty /\ undo = <<>>
    THEN Without(stash, opened)
    ELSE With(stash, opened, [of |-> owner, spans |-> repl,
                             undo |-> undo, redo |-> <<>>])

(* Mutant: the edits go under the selected region. *)
StashedUnderSelected ==
    IF repl = Empty /\ undo = <<>> /\ redo = <<>>
    THEN Without(stash, selected)
    ELSE With(stash, selected, [of |-> owner, spans |-> repl,
                               undo |-> undo, redo |-> redo])

(* Mutant: a region without edits leaves an entry. *)
StashedAlways ==
    With(stash, opened, [of |-> owner, spans |-> repl,
                         undo |-> undo, redo |-> redo])

(* stash_opened_region_edits *)
Stashed ==
    IF repl = Empty /\ undo = <<>> /\ redo = <<>>
    THEN Without(stash, opened)
    ELSE With(stash, opened, [of |-> owner, spans |-> repl,
                             undo |-> undo, redo |-> redo])

Saved(i) == IF i \in DOMAIN Stashed THEN Stashed[i] ELSE NoEdits(list[i].id)

(* The region is already open: only the cursor moves. *)
StayInRegion(i) ==
    /\ i = opened /\ selected' = i
    /\ UNCHANGED <<sessionVars, opened, stash, docVars>>

EnterRegion(i) ==
    /\ i # opened
    /\ ReadRegion(i, pages)
    /\ ShowRegion(i, pages, Saved(i))
    /\ stash' = Without(Stashed, i)
    /\ opened' = i /\ selected' = i
    /\ UNCHANGED <<list, depth>>

(* The edits of both regions are taken out before the read that fails. *)
FailToEnter(i) ==
    /\ i # opened
    /\ CannotRead(i, pages)
    /\ stash' = Without(Stashed, i)
    /\ undo' = <<>> /\ redo' = <<>>
    /\ UNCHANGED <<list, depth, opened, selected, owner, base, repl>>

(* Enter in the maps panel, or a search over the regions that hits one;    *)
(* ensure_alive comes first in a search.                                   *)
OpenRegion(i) ==
    /\ Running /\ i \in DOMAIN list
    /\ UNCHANGED <<targetVars, quit, historyVars>>
    /\ StayInRegion(i) \/ EnterRegion(i) \/ FailToEnter(i)

-----------------------------------------------------------------------------
(* Committing. *)

(* The spans of each region with pending bytes; the opened region's own    *)
(* are the document's, whatever is stashed under its index.                *)
Pending ==
    [i \in {j \in DOMAIN stash \ {opened} : stash[j].spans # Empty}
            \cup (IF repl = Empty THEN {} ELSE {opened})
        |-> IF i = opened THEN repl ELSE stash[i].spans]

Owner(i) == IF i = opened THEN owner ELSE stash[i].of

(* Spans are written in the order of their offsets. *)
FirstSlots(i, n) ==
    LET order == ById(DOMAIN Pending[i]) IN {order[k] : k \in 1..n}

Spans(i) == Cardinality(DOMAIN Pending[i])

(* written: for each region index the slots that write_at reached.         *)
Overwritten(bytes, r, written) ==
    [s \in Slots |->
        LET by == {i \in DOMAIN written : list[i].id = r /\ s \in written[i]}
        IN  IF by = {} THEN bytes[s] ELSE Pending[CHOOSE i \in by : TRUE][s]]

MemWith(written) == [r \in Regions |-> Overwritten(mem[r], r, written)]

(* patch_cached_pages goes by address, whatever the fingerprint. *)
PagesWith(written) ==
    [f \in DOMAIN pages |-> Overwritten(pages[f], f[1], written)]

(* Mutant: a region is taken for clean although a later span failed. *)
ListClean(written, done) ==
    [i \in DOMAIN list |->
        IF i \in DOMAIN written
        THEN [list[i] EXCEPT !.dirty = FALSE, !.stale = FALSE] ELSE list[i]]

(* write_at counts what it wrote until clear_region_dirty. *)
ListWith(written, done) ==
    [i \in DOMAIN list |->
        IF i \in done THEN [list[i] EXCEPT !.dirty = FALSE, !.stale = FALSE]
        ELSE IF i \in DOMAIN written /\ written[i] # {}
        THEN [list[i] EXCEPT !.dirty = TRUE]
        ELSE list[i]]

CanWrite(i) == /\ Alive /\ list[i].perm = "rw" /\ list[i].id \in DOMAIN mapped

WriteSpans(written, done) ==
    /\ \A i \in DOMAIN written : written[i] # {} => CanWrite(i)
    /\ mem' = MemWith(written)
    /\ list' = ListWith(written, done)
    /\ strayed' = (strayed \/ \E i \in DOMAIN written :
                        written[i] # {} /\ Owner(i) # list[i].id)

(* The document of the committed region is read again; when that fails it  *)
(* stays as it was, with edits that the target already holds.              *)
Reopen(held) ==
    \/ /\ ReadRegion(opened, held)
       /\ ShowRegion(opened, held, NoEdits(list[opened].id))
       /\ unread' = FALSE
    \/ /\ CannotRead(opened, held)
       /\ unread' = TRUE
       /\ UNCHANGED docVars

(* A span that cannot be written ends the commit: those before it stay     *)
(* written, and the document stays as it was.                              *)
StopWriting(written) ==
    /\ pages' = PagesWith(written)
    /\ IF Alive THEN dead' = dead ELSE NotAlive
    /\ UNCHANGED <<docVars, unread>>

(* :mem commit and :w; :wq is this, then Quit. *)
Commit ==
    /\ Running /\ repl # Empty
    /\ opened \in DOMAIN list /\ list[opened].perm = "rw"
    /\ \E n \in 0..Spans(opened) :
        LET written == [i \in {opened} |-> FirstSlots(opened, n)]
        IN  \/ /\ n < Spans(opened)
               /\ WriteSpans(written, {}) /\ StopWriting(written)
               /\ stash' = stash
            \/ /\ n = Spans(opened)
               /\ WriteSpans(written, {opened}) /\ Reopen(PagesWith(written))
               /\ stash' = Without(stash, opened)
    /\ UNCHANGED <<mapped, exited, suspended, remaps, depth, opened, selected,
                   quit, stuck>>

(* Mutant: the sort key is reversed. *)
CommitOrderReversed ==
    InOrder(DOMAIN Pending \cap DOMAIN list,
            LAMBDA i, j : list[i].id > list[j].id)

(* sort_by_key on the start address; an index without a region is skipped. *)
CommitOrder ==
    InOrder(DOMAIN Pending \cap DOMAIN list,
            LAMBDA i, j : list[i].id < list[j].id)

(* commit_all_memory_regions: done regions are written as a whole, then n  *)
(* spans of the next one, which cannot be written any further.             *)
CommitAll ==
    /\ Running /\ DOMAIN Pending # {}
    /\ \E k \in 0..Len(CommitOrder) :
        \E n \in IF k = Len(CommitOrder) THEN {0}
                 ELSE 0..(Spans(CommitOrder[k + 1]) - 1) :
            LET done == {CommitOrder[j] : j \in 1..k}
                next == {CommitOrder[j] : j \in {k + 1} \cap DOMAIN CommitOrder}
                written == [i \in done \cup next |->
                                FirstSlots(i, IF i \in done THEN Spans(i) ELSE n)]
            IN  /\ WriteSpans(written, done)
                /\ stash' = [i \in DOMAIN stash \ (done \ {opened}) |-> stash[i]]
                /\ IF opened \in done THEN Reopen(PagesWith(written))
                   ELSE StopWriting(written)
    /\ UNCHANGED <<mapped, exited, suspended, remaps, depth, opened, selected,
                   quit, stuck>>

-----------------------------------------------------------------------------
(* The region list, freezing, attaching and quitting. *)

Entry(r) ==
    LET old == {i \in DOMAIN list : list[i].id = r}
        previous == list[CHOOSE i \in old : TRUE]
    IN  IF old # {} /\ previous.perm = mapped[r] THEN previous
        ELSE IF old # {} /\ previous.dirty THEN [previous EXCEPT !.stale = TRUE]
        ELSE Fresh(r)

Refreshed ==
    LET ids == ById(DOMAIN mapped)
        gone == ById({i \in DOMAIN list :
                        list[i].dirty /\ list[i].id \notin DOMAIN mapped})
    IN  [i \in DOMAIN ids |-> Entry(ids[i])]
            \o [i \in DOMAIN gone |-> [list[gone[i]] EXCEPT !.stale = TRUE]]

(* The fingerprints whose snapshots survive: regions as they were, and     *)
(* those kept although they changed or are gone.                           *)
KeptFingerprints ==
    {Fingerprint(e) : e \in {x \in ToSet(Refreshed) : x \in ToSet(list)
                                                     \/ x.stale}}

Clamped(i) == Least(i, Len(list'))

(* :mem refresh; stashed edits and the document keep the index they had.   *)
Refresh ==
    /\ Running
    /\ \/ /\ Alive /\ DOMAIN mapped # {}
          /\ list' = Refreshed
          /\ pages' = [f \in DOMAIN pages \cap KeptFingerprints |-> pages[f]]
          /\ opened' = Clamped(opened) /\ selected' = Clamped(selected)
          /\ dead' = dead
       \/ /\ NotAlive
          /\ UNCHANGED <<list, pages, opened, selected>>
    /\ UNCHANGED <<targetVars, depth, stash, docVars, quit, historyVars>>

(* :mem freeze; the pid is neither 1 nor the editor's own. *)
Freeze ==
    /\ Running
    /\ \/ /\ Alive
          /\ depth > 0 => depth < MaxDepth
          /\ depth' = depth + 1 /\ suspended' = TRUE /\ dead' = dead
       \/ NotAlive /\ UNCHANGED <<depth, suspended>>
    /\ UNCHANGED <<mapped, mem, exited, remaps, list, pages, opened, selected,
                   stash, docVars, quit, historyVars>>

(* Mutant: a thaw resumes the target whatever the depth. *)
ThawAtOnce ==
    /\ Running /\ ~dead /\ depth > 0
    /\ depth' = depth - 1 /\ suspended' = FALSE
    /\ UNCHANGED <<mapped, mem, exited, remaps, list, pages, dead, opened,
                   selected, stash, docVars, quit, historyVars>>

(* :mem thaw; it does not look whether the process is still the same. The  *)
(* last one may fail and leave the session frozen.                         *)
Thaw ==
    /\ Running /\ ~dead /\ depth > 0
    /\ depth' = depth - 1
    /\ suspended' = IF depth = 1 THEN FALSE ELSE suspended
    /\ UNCHANGED <<mapped, mem, exited, remaps, list, pages, dead, opened,
                   selected, stash, docVars, quit, historyVars>>

(* Drop for MemorySession: the result of the thaw is ignored. *)
DropSession ==
    IF depth > 0 /\ ~dead
    THEN \/ suspended' = FALSE /\ stuck' = stuck
         \/ suspended' = suspended /\ stuck' = TRUE
    ELSE UNCHANGED <<suspended, stuck>>

(* Mutant: the summary looks at the opened region only. *)
NothingDirtyHere == repl = Empty

(* memory_dirty_summary is None. *)
NothingDirty == DOMAIN Pending = {}

(* Attaching to the process again from the process list: a new session on  *)
(* the first readable region, then the old one is dropped.                 *)
Attach ==
    /\ Running /\ NothingDirty /\ ~exited
    /\ \E r \in DOMAIN mapped : mapped[r] # "none"
    /\ list' = MappedList
    /\ opened' = FirstReadable(list') /\ selected' = opened'
    /\ owner' = list'[opened'].id /\ base' = mem[owner']
    /\ pages' = With(Empty, Fingerprint(list'[opened']), base')
    /\ repl' = Empty /\ undo' = <<>> /\ redo' = <<>> /\ stash' = Empty
    /\ depth' = 0 /\ dead' = FALSE /\ unread' = FALSE
    /\ DropSession
    /\ UNCHANGED <<mapped, mem, exited, remaps, quit, strayed>>

(* :q and :q!; the session is dropped and nothing of the editor remains.   *)
Quit(force) ==
    /\ Running /\ (force \/ NothingDirty)
    /\ quit' = IF force THEN "forced" ELSE "clean"
    /\ DropSession
    /\ list' = <<>> /\ pages' = Empty /\ depth' = 0 /\ dead' = FALSE
    /\ opened' = 0 /\ selected' = 0 /\ stash' = Empty
    /\ owner' = 0 /\ base' = Blank /\ repl' = Empty
    /\ undo' = <<>> /\ redo' = <<>> /\ unread' = FALSE
    /\ UNCHANGED <<mapped, mem, exited, remaps, strayed>>

-----------------------------------------------------------------------------
(* The target. *)

Exit ==
    /\ Running /\ ~exited
    /\ exited' = TRUE /\ suspended' = FALSE
    /\ UNCHANGED <<mapped, mem, remaps, sessionVars, opened, selected, stash,
                   docVars, quit, historyVars>>

(* mprotect, mmap or munmap by the target. *)
Remap(r) ==
    /\ Running /\ ~exited /\ ~suspended /\ remaps < MaxRemaps
    /\ remaps' = remaps + 1
    /\ \/ /\ "protect" \in Remaps /\ r \in DOMAIN mapped
          /\ \E p \in Perms : mapped' = [mapped EXCEPT ![r] = p]
          /\ mem' = mem
       \/ /\ "map" \in Remaps
          /\ mapped' = IF r \in DOMAIN mapped THEN Without(mapped, r)
                       ELSE With(mapped, r, "rw")
          /\ mem' = [mem EXCEPT ![r] = Blank]
    /\ UNCHANGED <<exited, suspended, sessionVars, opened, selected, stash,
                   docVars, quit, historyVars>>

-----------------------------------------------------------------------------
Init ==
    /\ mapped = Initial /\ mem = [r \in Regions |-> Blank]
    /\ exited = FALSE /\ suspended = FALSE /\ remaps = 0
    /\ list = MappedList /\ depth = 0 /\ dead = FALSE
    /\ opened = FirstReadable(list) /\ selected = opened
    /\ owner = list[opened].id /\ base = mem[owner]
    /\ pages = With(Empty, Fingerprint(list[opened]), base)
    /\ stash = Empty /\ repl = Empty /\ undo = <<>> /\ redo = <<>>
    /\ quit = "no" /\ strayed = FALSE /\ unread = FALSE /\ stuck = FALSE

Next ==
    \/ \E s \in Slots, v \in Typed : Edit(s, v)
    \/ Undo \/ Redo
    \/ \E i \in DOMAIN list : Select(i) \/ OpenRegion(i)
    \/ Commit \/ CommitAll
    \/ Refresh \/ Freeze \/ Thaw \/ Attach
    \/ \E force \in BOOLEAN : Quit(force)
    \/ Exit \/ \E r \in Regions : Remap(r)

Spec == Init /\ [][Next]_vars

-----------------------------------------------------------------------------
(* Properties *)

Step == [slot : Slots, before : Values \cup {None}, after : Values \cup {None}]

TypeOK ==
    /\ DOMAIN mapped \subseteq Regions /\ mem \in [Regions -> [Slots -> Values]]
    /\ Running => /\ opened \in DOMAIN list /\ selected \in DOMAIN list
                  /\ owner \in Regions
    /\ \A i, j \in DOMAIN list : list[i].id = list[j].id => i = j
    /\ base \in [Slots -> Values]
    /\ DOMAIN repl \subseteq Slots /\ \A s \in DOMAIN repl : repl[s] \in Values
    /\ undo \in Seq(Step) /\ redo \in Seq(Step)
    /\ \A i \in DOMAIN stash :
        stash[i].of \in Regions /\ stash[i] # NoEdits(stash[i].of)
    /\ depth \in Nat /\ quit \in {"no", "clean", "forced"}

(* A commit writes where the user edited, and nowhere else in the target.  *)
CommitsWhereEdited == ~strayed

(* The target is stopped exactly while the session counts a freeze, and    *)
(* never after the session has ended, unless the last thaw failed.         *)
FreezeBalanced ==
    ~stuck => (suspended <=> depth > 0 /\ ~exited)

(* A document shows its region as it is, unless an unfinished commit left  *)
(* the region marked dirty or its rereading failed.                        *)
ViewIsCurrent ==
    Running /\ Alive /\ ~unread /\ owner = list[opened].id /\ ~list[opened].dirty =>
        base = mem[owner]

(* The edits of region r: its pending bytes and its undo and redo steps.   *)
EditsOf(r) ==
    IF owner = r THEN [of |-> r, spans |-> repl, undo |-> undo, redo |-> redo]
    ELSE LET at == {i \in DOMAIN stash : stash[i].of = r}
         IN  IF at = {} THEN NoEdits(r) ELSE stash[CHOOSE i \in at : TRUE]

(* The byte pending at slot s of r is pending afterwards, or in the target. *)
ByteKept(r, s) ==
    LET v == EditsOf(r).spans[s]
    IN  \/ s \in DOMAIN EditsOf(r)'.spans /\ EditsOf(r)'.spans[s] = v
        \/ mem'[r][s] = v

(* What the user may do to slot s of the open region. *)
Retyped(s) ==
    \/ \E v \in Typed : Edit(s, v)
    \/ Undo /\ Last(undo).slot = s
    \/ Redo /\ Last(redo).slot = s

(* An attempt to enter region r that could not read it.                    *)
FailedSwitch(r) ==
    \E i \in DOMAIN list : list[i].id = r /\ OpenRegion(i) /\ FailToEnter(i)

(* No pending byte of any region is lost on the way, by a commit that stops *)
(* anywhere, a switch, a refresh, attaching to a process, :q or the target: *)
(* it stays pending or has reached the target.  The exceptions: the user    *)
(* edits the slot or takes a step back or forth there, discards it by :q!,  *)
(* or goes to the region and it cannot be read.                             *)
EditsAreKept ==
    [][ \A r \in Regions : \A s \in DOMAIN EditsOf(r).spans :
            \/ ByteKept(r, s)
            \/ owner = r /\ Retyped(s)
            \/ quit' = "forced"
            \/ FailedSwitch(r) ]_vars

KeepsEdits(r) ==
    /\ EditsOf(r)'.undo = EditsOf(r).undo
    /\ EditsOf(r)'.redo = EditsOf(r).redo
    /\ \A s \in DOMAIN EditsOf(r).spans : ByteKept(r, s)

(* Going to a region takes no edit away: every region keeps its pending     *)
(* bytes, but those the target holds already, and its undo and redo steps   *)
(* (docs/user-guide.md: kept per region across switches).  When the region  *)
(* cannot be read, this is all that holds: the two regions of the switch    *)
(* are excepted, as the code has moved their edits before it reads.  Of     *)
(* these EditsAreKept says that the pending bytes of the open one remain.   *)
SwitchKeepsEdits ==
    [][ \A i \in DOMAIN list : OpenRegion(i) =>
            \A r \in Regions :
                KeepsEdits(r) \/ (FailToEnter(i) /\ r \in {owner, list[i].id}) ]_vars

(* :mem commit-all goes through the regions by address: it leaves no       *)
(* region pending below one that it has committed.                         *)
CommitsInOrder ==
    [][ mem' # mem /\ CommitAll =>
        \A i, j \in DOMAIN Pending \cap DOMAIN list :
            list[i].id < list[j].id /\ j \notin DOMAIN Pending'
                => i \notin DOMAIN Pending' \/ unread' ]_vars
=============================================================================
