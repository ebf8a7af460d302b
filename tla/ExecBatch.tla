------------------------------ MODULE ExecBatch ------------------------------
(***************************************************************************)
(* Batches of commands: macros, scripts and headless commands over one      *)
(* document (exec/command.rs, automation, scripting.rs, headless.rs), and   *)
(* how the interactive program takes their outcome into its cursor, its    *)
(* selection and its undo stack (app/commands/automation.rs).               *)
(*                                                                         *)
(* A program is any sequence of the profile's commands: which one comes    *)
(* next is decided step by step.  Saving goes through the file system: an  *)
(* entry is what a name stands for, and several names may stand for one.   *)
(***************************************************************************)
EXTENDS DocumentEdits

CONSTANTS
    Names,          \* paths a document is opened from and saved to
    Opened,         \* the path on the command line
    EntryOf,        \* the file each name stands for
    Bound,          \* MacroBytes::From: the value a step before has bound
    ReplaceLimit,   \* REPLACE_CONFIRM_LIMIT
    Profiles        \* bounds: front, content, commands, options, steps, ...

(* The commands of a macro step (ExecCommand), with what they take. *)
Ranges == [space : {"display", "logical"}, start : Nat, len : Nat]
Scopes == [of : {"selection", "all"}] \cup [of : {"range"}, range : Ranges]
Places == [base : {"start", "cursor"}, delta : Int] \cup [base : {"end"}, delta : {0}]
Runs == Seq(Byte) \cup {Bound}

Commands ==
    [op : {"goto"}, at : Places]
    \cup [op : {"select"}, range : Ranges] \cup [op : {"clear"}]
    \cup [op : {"read", "hash", "export", "xor"}, scope : Scopes]
    \cup [op : {"delete"}, scope : Scopes, real : BOOLEAN]
    \cup [op : {"search"}, bytes : Runs, forward : BOOLEAN, select : BOOLEAN]
    \cup [op : {"overwrite", "insert", "fill"}, at : Places, bytes : Runs]
    \cup [op : {"replace"}, scope : Scopes, needle : Seq(Byte), bytes : Runs,
          resize : BOOLEAN, force : BOOLEAN]
    \cup [op : {"save"}, name : Names \cup {None}]

Policies == [selection : {"inherit", "clear", "require"},
           group : BOOLEAN, rollback : BOOLEAN]

ASSUME BatchConstants ==
    /\ Opened \in Names /\ None \notin Names
    /\ DOMAIN EntryOf = Names
    /\ Bound \notin Seq(Byte)
    /\ ReplaceLimit \in Nat
    /\ \A p \in Profiles :
        /\ p.front \in {"app", "headless"} /\ p.content \in Seq(Byte)
        /\ p.commands \subseteq Commands /\ p.macros \subseteq Policies
        /\ p.scripts \in BOOLEAN /\ p.readonly \in BOOLEAN
        /\ p.steps \in Nat /\ p.cells \in Nat /\ p.undo \in Nat

VARIABLES
    profile,    \* the member of Profiles this behaviour is bounded by
    doc,        \* Document: base, cells in display order, tomb, repl
    files,      \* the disk, and what the document knows of it (see Opening)
    cursor,     \* App.cursor
    anchor,     \* App.selection_anchor
    undo, redo, \* App.undo_stack, App.redo_stack
    exec,       \* ExecState: cursor and selection
    batch       \* the batch that runs, or NoBatch

vars == <<profile, doc, files, cursor, anchor, undo, redo, exec, batch>>

Entries == {EntryOf[n] : n \in Names}

Clamped(d, off) == IF DocLen(d) = 0 THEN 0 ELSE Least(off, DocLen(d) - 1)

-----------------------------------------------------------------------------
(* Ranges of display slots or of visible bytes, and what names them. *)

SlotCount(d, space) ==
    IF space = "display" THEN DocLen(d) ELSE Len(VisibleOffsets(d))

Slot(d, r, k) ==
    IF r.space = "display" THEN r.start + k ELSE VisibleOffsets(d)[r.start + k + 1]

(* display_bounds: an error, no range at all, or a first and a last slot. *)
Nothing(d, r) == r.len = 0 \/ DocLen(d) = 0
InBounds(d, r) == Nothing(d, r) \/ r.start + r.len <= SlotCount(d, r.space)
From(d, r) == Slot(d, r, 0)
To(d, r) == Slot(d, r, r.len - 1)

(* cells is history: what the selection named when it was made.  An undo     *)
(* keeps the anchor, so the App may hand over a range beyond the end: it    *)
(* names nothing.                                                          *)
Selection(d, r) ==
    [space |-> r.space, start |-> r.start, len |-> r.len,
     cells |-> IF Nothing(d, r) \/ ~InBounds(d, r) THEN <<>>
               ELSE CellsAt(d, From(d, r), To(d, r) - From(d, r) + 1)]

DisplayRange(start, len) == [space |-> "display", start |-> start, len |-> len]

ScopeKnown(scope) == scope.of = "selection" => exec.sel # None

ScopeRange(d, scope) ==
    CASE scope.of = "selection" -> exec.sel
      [] scope.of = "all" -> DisplayRange(0, DocLen(d))
      [] scope.of = "range" -> scope.range

Offset(d, at) ==
    CASE at.base = "start" -> at.delta
      [] at.base = "cursor" -> exec.cursor + at.delta
      [] at.base = "end" -> Clamped(d, DocLen(d))

-----------------------------------------------------------------------------
(* execute_one, for every command but a save: what it makes of the document *)
(* and of exec, or Failed.  value is what a macro step may bind.            *)

Failed == [ok |-> FALSE, saved |-> FALSE, doc |-> doc, files |-> files,
           exec |-> exec, ops |-> <<>>, value |-> <<>>]

Became(d, cur, sel, ops, value) ==
    [ok |-> TRUE, saved |-> FALSE, doc |-> d, files |-> files,
     exec |-> [cursor |-> cur, sel |-> sel], ops |-> ops, value |-> value]

Unchanged(value) == Became(doc, exec.cursor, exec.sel, <<>>, value)

Goto(c) ==
    LET off == Offset(doc, c.at)
    IN  IF off < 0 \/ (off >= DocLen(doc) /\ DocLen(doc) > 0) THEN Failed
        ELSE Became(doc, Clamped(doc, off), exec.sel, <<>>, <<>>)

Select(c) ==
    IF InBounds(doc, c.range)
    THEN Became(doc, exec.cursor, Selection(doc, c.range), <<>>, <<>>)
    ELSE Failed

ClearSelection(c) == Became(doc, exec.cursor, None, <<>>, <<>>)

(* A command over a scope; a scope without bytes makes it succeed at once. *)
OverScope(c, Do(_, _)) ==
    IF ~ScopeKnown(c.scope) THEN Failed
    ELSE LET r == ScopeRange(doc, c.scope)
         IN  IF ~InBounds(doc, r) THEN Failed
             ELSE IF Nothing(doc, r) THEN Unchanged(<<>>)
             ELSE Do(From(doc, r), To(doc, r))

(* The visible bytes of the slots start to end. *)
BytesIn(d, start, end) ==
    LogicalBytes([d EXCEPT !.cells = CellsAt(d, start, end - start + 1)])

Read(c) ==
    IF c.scope.of = "all" THEN Failed
    ELSE OverScope(c, LAMBDA start, end : Unchanged(BytesIn(doc, start, end)))

(* Hash, and export to a file that no name of the document stands for. *)
Inspect(c) == OverScope(c, LAMBDA start, end : Unchanged(<<>>))

Search(c) ==
    LET hit == IF c.forward THEN SearchForward(doc, exec.cursor, c.bytes)
               ELSE SearchBackward(doc, exec.cursor, c.bytes)
        named == DisplayRange(hit, Len(c.bytes))
    IN  IF c.bytes = <<>> THEN Failed
        ELSE IF hit = None THEN Unchanged(<<>>)
        ELSE Became(doc, hit, IF c.select THEN Selection(doc, named) ELSE exec.sel,
                    <<>>, c.bytes)

(* The cursor goes to the last byte written. *)
Written(off, e, sel) ==
    IF off < 0 \/ ~e.ok THEN Failed
    ELSE Became(e.doc, IF e.n > 0 THEN Clamped(e.doc, off + e.n - 1) ELSE exec.cursor,
                sel, e.ops, <<>>)

Overwrite(c) ==
    LET off == Offset(doc, c.at)
    IN  Written(off, OverwriteBytes(doc, off, c.bytes), exec.sel)

FillPattern(c) ==
    LET off == Offset(doc, c.at)
    IN  Written(off, FillOverwrite(doc, off, c.bytes), exec.sel)

(* Mutant: an insertion leaves the selection where it was. *)
InsertKeepsSelection(c) ==
    LET off == Offset(doc, c.at)
    IN  Written(off, InsertRun(doc, off, c.bytes), exec.sel)

Insert(c) ==
    LET off == Offset(doc, c.at)
    IN  Written(off, InsertRun(doc, off, c.bytes), None)

(* A tombstone moves no display slot, only the bytes counted from it. *)
Delete(c) ==
    OverScope(c, LAMBDA start, end :
        LET n == end - start + 1
            e == IF c.real THEN RealDelete(doc, start, n)
                 ELSE TombstoneDelete(doc, start, n)
            gone == c.real \/ (exec.sel # None /\ exec.sel.space = "logical")
        IN  Became(e.doc, Clamped(e.doc, start), IF gone THEN None ELSE exec.sel,
                   e.ops, <<>>))

Xor(c) ==
    OverScope(c, LAMBDA start, end :
        LET e == XorRange(doc, start, end - start + 1)
        IN  IF e.ok
            THEN Became(e.doc, Clamped(e.doc, start), exec.sel, e.ops, <<>>)
            ELSE Failed)

Replace(c) ==
    OverScope(c, LAMBDA start, end :
        LET matches == MatchesIn(doc, start, end, c.needle)
            e == ReplaceRange(doc, start, end, c.needle, c.bytes, c.resize, c.force,
                              ReplaceLimit)
        IN  IF ~e.ok THEN Failed
            ELSE IF matches = <<>> THEN Unchanged(<<>>)
            ELSE Became(e.doc, Clamped(e.doc, Head(matches)),
                        IF Len(c.needle) = Len(c.bytes) THEN exec.sel ELSE None,
                        e.ops, <<>>))

CommandOutcome(c) ==
    CASE c.op = "goto" -> Goto(c)
      [] c.op = "select" -> Select(c)
      [] c.op = "clear" -> ClearSelection(c)
      [] c.op = "read" -> Read(c)
      [] c.op \in {"hash", "export"} -> Inspect(c)
      [] c.op = "search" -> Search(c)
      [] c.op = "overwrite" -> Overwrite(c)
      [] c.op = "insert" -> Insert(c)
      [] c.op = "delete" -> Delete(c)
      [] c.op = "fill" -> FillPattern(c)
      [] c.op = "xor" -> Xor(c)
      [] c.op = "replace" -> Replace(c)

(* Where the edits look at Document.readonly. *)
Forbidden(c, r) ==
    profile.readonly /\
        CASE c.op \in {"overwrite", "insert", "fill"} -> TRUE
          [] c.op = "xor" -> r.ops # <<>>
          [] OTHER -> \E i \in DOMAIN r.ops : HasEffect(r.ops[i])

ExecuteOne(c) ==
    LET r == CommandOutcome(c) IN IF Forbidden(c, r) THEN Failed ELSE r

-----------------------------------------------------------------------------
(* Saving.  disk holds what is in each file, None where there is none, and  *)
(* meant, which is history, what it should hold: what the last save that    *)
(* ended put there.  view is the file the document still reads from.        *)

Opening(disk, meant) ==
    [disk |-> disk, meant |-> meant, path |-> Opened, view |-> EntryOf[Opened],
     len |-> Len(disk[EntryOf[Opened]])]

(* The bytes of the document whose originals are gone. *)
AddedBytes(d) == LogicalBytes([d EXCEPT !.tomb = @ \cup 1..files.len])

Put(e, bytes) ==
    [files EXCEPT !.disk[e] = bytes, !.meant[e] = LogicalBytes(doc)]

(* Document.path changes before the view is opened again, which may fail.  *)
NotReloaded(f, target, view) ==
    [Failed EXCEPT !.files = [f EXCEPT !.path = target, !.view = view]]

Reloaded(f, target) ==
    LET e == EntryOf[target]
        d == DocOf(f.disk[e])
    IN  [ok |-> TRUE, saved |-> TRUE, doc |-> d, ops |-> <<>>, value |-> <<>>,
         files |-> [f EXCEPT !.path = target, !.view = e, !.len = DocLen(d)],
         exec |-> [cursor |-> Clamped(d, exec.cursor),
                   sel |-> IF exec.sel = None \/ ~InBounds(d, exec.sel) THEN None
                           ELSE [exec.sel EXCEPT !.cells = <<>>]]]

(* Mutant: the document's own path is written like any other. *)
SaveInPlaceDirectly(target) ==
    LET e == EntryOf[target]
        torn == [files EXCEPT !.disk[e] = <<>>]
    IN  {Failed, [Failed EXCEPT !.files = torn],
         Reloaded(Put(e, LogicalBytes(doc)), target)}

(* Over its own path: a temporary file that a rename puts in its place. *)
SaveInPlace(target) ==
    LET f == Put(EntryOf[target], LogicalBytes(doc))
    IN  {Failed, Reloaded(f, target), NotReloaded(f, target, None)}

(* Under another name: the file is truncated and written, and whatever fails *)
(* on the way leaves it with the bytes that got there.  When it is the one   *)
(* the document reads from, the bytes that are not in the page cache are     *)
(* gone by the time they are read.                                           *)
SaveOver(target) ==
    LET e == EntryOf[target]
        all == LogicalBytes(doc)
        kept == IF e = files.view THEN {all, AddedBytes(doc)} ELSE {all}
        torn == UNION {Prefixes(bytes) \ {bytes} : bytes \in kept}
    IN  {Failed}
        \cup {[Failed EXCEPT !.files = [files EXCEPT !.disk[e] = bytes]] : bytes \in torn}
        \cup {Reloaded(Put(e, bytes), target) : bytes \in kept}
        \cup {NotReloaded(Put(e, bytes), target, files.view) : bytes \in kept}

Save(c) ==
    LET target == IF c.name = None THEN files.path ELSE c.name
    IN  IF target # files.path THEN SaveOver(target)
        ELSE IF profile.readonly THEN {Failed}
        ELSE SaveInPlace(target)

Outcomes(c) == IF c.op = "save" THEN Save(c) ELSE {ExecuteOne(c)}

-----------------------------------------------------------------------------
(* A batch.  start, shown and before are history: what the document and     *)
(* exec were, and what was shown, when it began.                            *)

NoBatch == [kind |-> "none"]

NewBatch(kind, group, rollback, state) ==
    [kind |-> kind, group |-> group, rollback |-> rollback, initial |-> state,
     groupFrom |-> None, groupOps |-> <<>>, applied |-> <<>>, steps |-> <<>>,
     saved |-> FALSE, failed |-> FALSE, undone |-> TRUE, count |-> 0,
     bound |-> None, before |-> Display(doc)]

(* An undo step of a batch; shown is history. *)
Step(ops, from, to, shown) ==
    [ops |-> ops, from |-> from, to |-> to, shown |-> shown]

(* What an exec state is when a batch starts: the App hands over its own.   *)
ActiveSelection ==
    IF anchor = None THEN None
    ELSE LET start == Least(anchor, cursor)
         IN  Selection(doc, DisplayRange(start, anchor + cursor - 2 * start + 1))

HandedOver ==
    IF profile.front = "app" THEN [cursor |-> cursor, sel |-> ActiveSelection]
    ELSE exec

App == <<cursor, anchor, undo, redo>>

StartMacro(selection, group, rollback) ==
    /\ batch = NoBatch /\ Len(undo) + Len(redo) < profile.undo
    /\ selection = "require" => HandedOver.sel # None
    /\ exec' = IF selection = "clear" THEN [HandedOver EXCEPT !.sel = None]
               ELSE HandedOver
    /\ batch' = NewBatch("macro", group, rollback, exec')
    /\ UNCHANGED <<doc, files, App>>

(* Every call of a script is a batch of one command. *)
StartScript ==
    /\ batch = NoBatch /\ Len(undo) + Len(redo) < profile.undo
    /\ exec' = HandedOver
    /\ batch' = NewBatch("script", FALSE, FALSE, exec')
    /\ UNCHANGED <<doc, files, App>>

(* A command without a selection works on the whole document; xor! wants one. *)
ScopeOrAll(c) ==
    IF c.op \in {"hash", "export", "replace"} /\ exec.sel = None
    THEN [c EXCEPT !.scope = [of |-> "all"]] ELSE c

StartCommand ==
    /\ batch = NoBatch /\ profile.front = "headless"
    /\ batch' = NewBatch("command", TRUE, FALSE, exec)
    /\ UNCHANGED <<doc, files, exec, App>>

(* The step's undo record joins the group, or is one of its own. *)
Recorded(b, r) ==
    LET ops == Effective(r.ops)
        kept == IF r.saved
                THEN [b EXCEPT !.groupOps = <<>>, !.applied = <<>>, !.steps = <<>>,
                               !.saved = TRUE]
                ELSE b
        step == Step(ops, exec.cursor, r.exec.cursor, Display(doc))
    IN  IF ops = <<>> THEN kept
        ELSE IF b.group
        THEN [kept EXCEPT !.applied = @ \o ops, !.groupOps = @ \o ops,
                          !.groupFrom =
                              IF kept.groupOps = <<>>
                              THEN [cursor |-> exec.cursor, shown |-> step.shown]
                              ELSE @]
        ELSE [kept EXCEPT !.applied = @ \o ops, !.steps = Append(@, step)]

(* Mutant: a failed macro puts the cursor and the selection back, and drops *)
(* the undo records, but leaves the edits of the steps before.              *)
ErrorForgetsEdits(r) ==
    /\ files' = r.files
    /\ IF batch.rollback
       THEN /\ UNCHANGED doc /\ exec' = batch.initial
            /\ batch' = [batch EXCEPT !.failed = TRUE, !.groupOps = <<>>,
                                      !.applied = <<>>, !.steps = <<>>]
       ELSE /\ doc' = r.doc /\ exec' = r.exec
            /\ batch' = [batch EXCEPT !.failed = TRUE]

(* handle_macro_error: with rollback the steps before are undone. *)
MacroError(r) ==
    /\ files' = r.files
    /\ IF batch.rollback
       THEN LET back == UndoOps(doc, batch.applied)
            IN  /\ doc' = back.doc /\ exec' = batch.initial
                /\ batch' = [batch EXCEPT !.failed = TRUE, !.undone = back.ok,
                                          !.groupOps = <<>>, !.applied = <<>>,
                                          !.steps = <<>>]
       ELSE /\ doc' = r.doc /\ exec' = r.exec
            /\ batch' = [batch EXCEPT !.failed = TRUE]

Succeeded(c, r) ==
    /\ doc' = r.doc /\ files' = r.files /\ exec' = r.exec
    /\ batch' = [Recorded(batch, r) EXCEPT
                    !.count = @ + 1,
                    !.bound = IF c.op \in {"read", "search"} THEN r.value ELSE @]

Running == batch # NoBatch /\ ~batch.failed /\ batch.count < profile.steps

(* Literal bytes, or those a step before has bound: an unknown name fails.  *)
HasBytes(c) == c.op \in {"search", "overwrite", "insert", "fill", "replace"}
Unbound(c) == HasBytes(c) /\ c.bytes = Bound /\ batch.bound = None
Resolved(c) ==
    IF HasBytes(c) /\ c.bytes = Bound THEN [c EXCEPT !.bytes = batch.bound] ELSE c

MacroStep(c) ==
    /\ Running /\ batch.kind = "macro"
    /\ IF Unbound(c) \/ (batch.rollback /\ c.op \in {"save", "export"})
       THEN MacroError(Failed)
       ELSE \E r \in Outcomes(Resolved(c)) :
                IF r.ok THEN Succeeded(c, r) ELSE MacroError(r)
    /\ UNCHANGED App

(* A script may catch the error of a call, which leaves its state alone.   *)
ScriptCall(c) ==
    /\ Running /\ batch.kind = "script"
    /\ ~Unbound(c)
    /\ \E r \in Outcomes(Resolved(c)) :
        IF r.ok THEN Succeeded(c, r)
        ELSE \E caught \in BOOLEAN :
                /\ doc' = r.doc /\ files' = r.files /\ exec' = r.exec
                /\ batch' = [batch EXCEPT !.count = @ + 1, !.failed = ~caught]
    /\ UNCHANGED App

RunCommand(c) ==
    /\ batch # NoBatch /\ batch.kind = "command" /\ batch.count = 0 /\ ~batch.failed
    /\ ~(HasBytes(c) /\ c.bytes = Bound)
    /\ \E r \in Outcomes(ScopeOrAll(c)) :
        IF r.ok THEN Succeeded(c, r)
        ELSE /\ doc' = r.doc /\ files' = r.files /\ exec' = r.exec
             /\ batch' = [batch EXCEPT !.failed = TRUE]
    /\ UNCHANGED App

-----------------------------------------------------------------------------
(* The end of a batch. *)

(* The undo steps of the report, the group's own at its end. *)
Report(b, to) ==
    IF b.groupOps = <<>> THEN b.steps
    ELSE Append(b.steps, Step(b.groupOps, b.groupFrom.cursor, to, b.groupFrom.shown))

(* The steps of a script become one. *)
OpsUpTo(steps) ==
    LET walk[i \in 0..Len(steps)] ==
            IF i = 0 THEN <<>> ELSE walk[i - 1] \o steps[i].ops
    IN  walk

Merged(steps) ==
    IF steps = <<>> THEN <<>>
    ELSE <<Step(OpsUpTo(steps)[Len(steps)],
                Head(steps).from, Last(steps).to, Head(steps).shown)>>

(* apply_exec_state_after_automation *)
TakeState ==
    IF exec.sel # None /\ exec.sel.space = "display" /\ exec.sel.start + exec.sel.len > 0
    THEN /\ cursor' = Clamped(doc, exec.sel.start)
         /\ anchor' = Clamped(doc, exec.sel.start + exec.sel.len - 1)
    ELSE /\ cursor' = Clamped(doc, exec.cursor)
         /\ anchor' = None

(* Mutant: what was on the stack before a save in the batch stays there. *)
FinishKeepsHistory ==
    /\ batch # NoBatch /\ profile.front = "app"
    /\ LET steps == Report(batch, exec.cursor)
           pushed == IF batch.kind = "script" THEN Merged(steps) ELSE steps
       IN  /\ undo' = undo \o pushed
           /\ redo' = IF pushed = <<>> /\ ~batch.saved THEN redo ELSE <<>>
    /\ IF batch.failed THEN anchor' = None /\ cursor' = Clamped(doc, exec.cursor)
       ELSE TakeState
    /\ batch' = NoBatch
    /\ UNCHANGED <<doc, files, exec>>

(* The App: a save in the batch empties the stacks, then its steps go on.   *)
FinishInApp ==
    /\ batch # NoBatch /\ profile.front = "app"
    /\ LET steps == Report(batch, exec.cursor)
           pushed == IF batch.kind = "script" THEN Merged(steps) ELSE steps
           below == IF batch.saved THEN <<>> ELSE undo
       IN  /\ undo' = below \o pushed
           /\ redo' = IF pushed = <<>> /\ ~batch.saved THEN redo ELSE <<>>
    /\ IF batch.failed THEN anchor' = None /\ cursor' = Clamped(doc, exec.cursor)
       ELSE TakeState
    /\ batch' = NoBatch
    /\ UNCHANGED <<doc, files, exec>>

(* Headless: the next batch goes on from this state; an error ends the run. *)
FinishHeadless ==
    /\ batch # NoBatch /\ profile.front = "headless" /\ ~batch.failed
    /\ batch' = NoBatch
    /\ UNCHANGED <<doc, files, exec, App>>

-----------------------------------------------------------------------------
(* Between batches. *)

AppUndo ==
    /\ batch = NoBatch /\ undo # <<>>
    /\ LET back == UndoOps(doc, Last(undo).ops)
       IN  /\ back.ok
           /\ doc' = back.doc
           /\ cursor' = Clamped(doc', Last(undo).from)
    /\ undo' = Front(undo) /\ redo' = Append(redo, Last(undo))
    /\ UNCHANGED <<files, anchor, exec, batch>>

AppRedo ==
    /\ batch = NoBatch /\ redo # <<>>
    /\ LET ahead == ApplyOps(doc, Last(redo).ops)
       IN  /\ ahead.ok
           /\ doc' = ahead.doc
           /\ cursor' = Clamped(doc', Last(redo).to)
    /\ redo' = Front(redo) /\ undo' = Append(undo, Last(redo))
    /\ UNCHANGED <<files, anchor, exec, batch>>

(* The program ends, with whatever is unsaved, and is started again.  What  *)
(* the files should hold is no memory of the program's.                    *)
Restart ==
    /\ batch # NoBatch => profile.front = "headless" /\ batch.failed
    /\ files' = Opening(files.disk, files.meant)
    /\ doc' = DocOf(files.disk[EntryOf[Opened]])
    /\ cursor' = 0 /\ anchor' = None /\ undo' = <<>> /\ redo' = <<>>
    /\ exec' = [cursor |-> 0, sel |-> None]
    /\ batch' = NoBatch

Init ==
    /\ profile \in Profiles
    /\ LET disk == [e \in Entries |-> IF e = EntryOf[Opened] THEN profile.content
                                     ELSE None]
       IN  files = Opening(disk, disk)
    /\ doc = DocOf(profile.content)
    /\ cursor = 0 /\ anchor = None /\ undo = <<>> /\ redo = <<>>
    /\ exec = [cursor |-> 0, sel |-> None]
    /\ batch = NoBatch

Next ==
    /\ \/ \E m \in profile.macros : StartMacro(m.selection, m.group, m.rollback)
       \/ profile.scripts /\ StartScript
       \/ StartCommand
       \/ \E c \in profile.commands : MacroStep(c) \/ ScriptCall(c) \/ RunCommand(c)
       \/ FinishInApp \/ FinishHeadless
       \/ AppUndo \/ AppRedo \/ Restart
    /\ Len(doc'.base) <= profile.cells
    /\ UNCHANGED profile

Spec == Init /\ [][Next]_vars

-----------------------------------------------------------------------------
(* Properties *)

(* Whatever batches ran, failed or saved on the way, undoing the steps of   *)
(* the batch in progress and then the stack shows what was shown before     *)
(* each of them, down to the file as opened or last saved (the steps a      *)
(* report carries, and what a save in the middle has to drop).              *)
PendingSteps == IF batch = NoBatch THEN <<>> ELSE Report(batch, exec.cursor)

AllSteps ==
    IF batch = NoBatch THEN undo
    ELSE (IF batch.saved THEN <<>> ELSE undo) \o PendingSteps

BatchesUnwind ==
    profile.front = "app" =>
        LET Back(k) == Rewound(doc, SubSeq(AllSteps, k, Len(AllSteps)))
        IN  /\ \A k \in DOMAIN AllSteps :
                Back(k).ok /\ Display(Back(k).doc) = AllSteps[k].shown
            /\ Back(1).doc.cells = [i \in 1..files.len |-> i]
            /\ Display(Back(1).doc) = SubSeq(doc.base, 1, files.len)

(* A macro with on_error = "rollback" that fails leaves the document, the   *)
(* cursor and the selection as they were before its first step, with no     *)
(* undo step; no undo on the way fails (handle_macro_error).                *)
RollbackRestores ==
    batch # NoBatch /\ batch.failed /\ batch.rollback =>
        /\ batch.undone /\ Display(doc) = batch.before
        /\ exec = batch.initial /\ PendingSteps = <<>>

(* Until a save renumbers the slots, a selection still names the very bytes *)
(* it named when it was made, or has been dropped: no command of a macro    *)
(* goes on with a range that has shifted under it, nor from a cursor that   *)
(* the bytes before it have taken along past the end.                       *)
SelectionNamesCells ==
    batch # NoBatch =>
        /\ exec.cursor <= Clamped(doc, DocLen(doc))
        /\ exec.sel # None /\ exec.sel.cells # <<>> =>
                /\ InBounds(doc, exec.sel)
                /\ Selection(doc, exec.sel).cells = exec.sel.cells

(* What the last save that ended put in a file is in it, all of it. *)
Exact(f, e) == f.meant[e] # None => f.disk[e] = f.meant[e]

(* Every file is exact, however saves, failures and restarts interleave     *)
(* (docs/editing-model.md: a save rewrites into a temporary file and        *)
(* renames it to the target).                                              *)
SavedExactly == \A e \in Entries : Exact(files, e)

(* So they are while every save of a batch has been reported a success. *)
SavedAsReported ==
    batch # NoBatch /\ batch.saved /\ ~batch.failed => SavedExactly

(* A save under a name that is not the document's, into the file e. *)
SavesInto(e) ==
    \E c \in profile.commands :
        /\ c.op = "save" /\ c.name \notin {None, files.path} /\ EntryOf[c.name] = e
        /\ MacroStep(c) \/ ScriptCall(c) \/ RunCommand(c)

(* The two saves that save_rewrite does not protect, both under another     *)
(* name: into the file that the document reads from, and one that fails     *)
(* after it has truncated its target (it leaves the document's path).       *)
SavesOver(e) ==
    SavesInto(e) /\ (e = files.view \/ files'.path = files.path)

(* Nothing else leaves a file with less than what was last saved in it: no  *)
(* save of the document under its own name, failed or not, no save under    *)
(* another that ends, no save into another file, no edit, rollback, undo or *)
(* restart (core/save.rs, Document::save).                                  *)
SavesAreExact ==
    [][\A e \in Entries : Exact(files, e) => Exact(files', e) \/ SavesOver(e)]_vars
=============================================================================
