----------------------------- MODULE EditSession -----------------------------
(***************************************************************************)
(* The editing session in the hex view: the document's three overlays, the *)
(* cursor and its modes, the selection, the byte an insert has half typed, *)
(* and the undo and redo stacks, driven by keys, the mouse and commands.   *)
(*                                                                         *)
(* The document and its edits are module DocumentEdits; the side panel and *)
(* the disassembly view, which have modes of their own, are not here.      *)
(***************************************************************************)
EXTENDS DocumentEdits

CONSTANTS
    Typed,          \* the nibbles the user types
    Clips,          \* byte runs the clipboard may hold
    Fills,          \* byte runs :fill may produce
    Profiles,       \* bounds: content, inputs used, cells, steps (see below)
    BytesPerLine    \* config.bytes_per_line; one row of the view is visible

(* Moving the cursor, Esc, undo and redo are always used. *)
AllInputs == {"overwrite", "insert", "delete", "visual", "jump", "mouse",
              "paste", "fill", "xor", "save"}

ASSUME SessionConstants ==
    /\ Typed \subseteq 0..(Radix - 1) /\ None \notin [off : Nat, high : Typed]
    /\ Clips \cup Fills \subseteq Seq(Byte) \ {<<>>}
    /\ BytesPerLine \in Nat \ {0}
    /\ \A p \in Profiles :
        /\ p.content \in Seq(Byte) /\ p.inputs \subseteq AllInputs
        /\ p.cells \in Nat /\ p.steps \in Nat

VARIABLES
    profile,    \* the member of Profiles this behaviour is bounded by
    doc,        \* Document: base, cells in display order, tomb, repl
    fileLen,    \* Document.original_len
    cursor,     \* App.cursor, a display offset
    mode,       \* App.mode; the nibble phase of EditHex is in its name
    pending,    \* the payload of Mode::InsertHex
    anchor,     \* App.selection_anchor
    grabbed,    \* App.mouse_selection_anchor
    returnMode, \* App.command_return_mode
    undo,       \* App.undo_stack
    redo,       \* App.redo_stack
    dropped     \* history: an inserted byte escaped the undo stack

vars == <<profile, doc, fileLen, cursor, mode, pending, anchor, grabbed, returnMode,
          undo, redo, dropped>>

Content == profile.content      \* the file's bytes when it is opened
Inputs == profile.inputs        \* which of AllInputs the user uses
MaxCells == profile.cells       \* bytes of the file and of the add buffer
MaxSteps == profile.steps       \* steps on the undo stack

EditModes == {"EditHigh", "EditLow"}
EofModes == EditModes \cup {"Insert"}
Modes == EofModes \cup {"Normal", "Visual", "Command"}

-----------------------------------------------------------------------------
(* Cursor arithmetic. *)

Clamp(d, off, m) ==
    IF DocLen(d) = 0 THEN 0
    ELSE Least(off, IF m \in EofModes THEN DocLen(d) ELSE DocLen(d) - 1)

Shifted(off, delta) ==
    IF DocLen(doc) = 0 THEN 0
    ELSE Clamp(doc, IF off + delta < 0 THEN 0 ELSE off + delta, mode)

RowStart(off) == (off \div BytesPerLine) * BytesPerLine

-----------------------------------------------------------------------------
(* The undo stack. *)

(* The document without the byte that is half typed. *)
Settled == IF pending = None THEN doc ELSE Cut(doc, pending.off, 1)

(* shown is history: what the step's undo has to show again. *)
Step(ops, cb, mb, ca, ma) ==
    [ops |-> ops, cursorBefore |-> cb, modeBefore |-> mb,
     cursorAfter |-> ca, modeAfter |-> ma,
     shown |-> IF dropped THEN None ELSE Display(Settled)]

(* Mutant: a new edit leaves the redo stack alone. *)
PushKeepsRedo(ops, cb, mb, ca, ma) ==
    IF \E i \in DOMAIN ops : HasEffect(ops[i])
    THEN /\ Len(undo) < MaxSteps
         /\ undo' = Append(undo, Step(ops, cb, mb, ca, ma))
         /\ UNCHANGED redo
    ELSE UNCHANGED <<undo, redo>>

PushUndoStep(ops, cb, mb, ca, ma) ==
    IF \E i \in DOMAIN ops : HasEffect(ops[i])
    THEN /\ Len(undo) < MaxSteps
         /\ undo' = Append(undo, Step(ops, cb, mb, ca, ma))
         /\ redo' = <<>>
    ELSE UNCHANGED <<undo, redo>>

(* commit_pending_insert with the cursor at off when it is called. *)
CommitPendingInsert(d, off) ==
    IF pending = None
    THEN UNCHANGED <<pending, undo, redo>>
    ELSE /\ PushUndoStep(<<InsertOp(pending.off, CellsAt(d, pending.off, 1))>>,
                         pending.off, "Insert", off, "Insert")
         /\ pending' = None

-----------------------------------------------------------------------------
(* Keys that move the cursor. *)

KeyModes == Modes \ {"Command"}

PhaseReset == mode' = IF mode \in EditModes THEN "EditHigh" ELSE mode

(* move_horizontal and, by whole rows, move_vertical. *)
MoveBy(delta) ==
    /\ mode \in KeyModes
    /\ CommitPendingInsert(doc, cursor)
    /\ cursor' = Shifted(cursor, delta)
    /\ PhaseReset
    /\ UNCHANGED <<doc, fileLen, anchor, grabbed, returnMode, dropped>>

MoveRowEdge(end) ==
    /\ mode \in KeyModes
    /\ CommitPendingInsert(doc, cursor)
    /\ cursor' = Clamp(doc, RowStart(cursor)
                             + (IF end THEN BytesPerLine - 1 ELSE 0), mode)
    /\ UNCHANGED <<doc, fileLen, mode, anchor, grabbed, returnMode, dropped>>

(* scroll_viewport and clamp_cursor_into_view: the rows move, the cursor   *)
(* follows, and no pending byte is committed.                              *)
IntoView(top) ==
    LET last == Least(top + BytesPerLine, DocLen(doc)) - 1
        off == Least(cursor, DocLen(doc) - 1)
    IN  IF off < top THEN top ELSE Least(off, last)

ScrollViewport(top) ==
    /\ top < DocLen(doc) /\ RowStart(top) = top
    /\ ~ (/\ mode \in EofModes
          /\ cursor = DocLen(doc)
          /\ IntoView(top) = DocLen(doc) - 1)
    /\ cursor' = IntoView(top)
    /\ UNCHANGED <<doc, fileLen, mode, pending, anchor, grabbed, returnMode,
                   undo, redo, dropped>>

(* repeat_search and the search commands: an unspecified pattern is found. *)
RunSearch(off) ==
    /\ mode \in {"Normal", "Visual"}
    /\ off < DocLen(doc) /\ doc.cells[off + 1] \notin doc.tomb
    /\ cursor' = off
    /\ UNCHANGED <<doc, fileLen, mode, pending, anchor, grabbed, returnMode,
                   undo, redo, dropped>>

-----------------------------------------------------------------------------
(* Keys that change the mode. *)

EnterHexMode(m) ==
    /\ mode = "Normal"
    /\ mode' = m
    /\ UNCHANGED <<doc, fileLen, cursor, pending, anchor, grabbed, returnMode,
                   undo, redo, dropped>>

ToggleVisual ==
    /\ \/ mode = "Normal" /\ mode' = "Visual" /\ anchor' = cursor
       \/ mode = "Visual" /\ mode' = "Normal" /\ anchor' = None
    /\ UNCHANGED <<doc, fileLen, cursor, pending, grabbed, returnMode, undo,
                   redo, dropped>>

(* The return mode, or Normal: command_return_mode.take().unwrap_or(Normal) *)
Returned == IF returnMode = None THEN "Normal" ELSE returnMode

(* leave_mode, and cancel_command_input for the command line. *)
LeaveMode ==
    /\ CommitPendingInsert(doc, cursor)
    /\ mode' = IF mode = "Command" THEN Returned ELSE "Normal"
    /\ anchor' = IF mode = "Visual" THEN None ELSE anchor
    /\ returnMode' = IF mode = "Command" THEN None ELSE returnMode
    /\ UNCHANGED <<doc, fileLen, cursor, grabbed, dropped>>

EnterCommandMode ==
    /\ mode \in {"Normal", "Visual"}
    /\ mode' = "Command"
    /\ returnMode' = mode
    /\ UNCHANGED <<doc, fileLen, cursor, pending, anchor, grabbed, undo, redo,
                   dropped>>

-----------------------------------------------------------------------------
(* Keys that edit. *)

(* delete_current: a slot that is already deleted is left alone. *)
DeleteCurrent ==
    /\ mode \in {"Normal", "Visual"}
    /\ mode = "Visual" => anchor = None
    /\ cursor < DocLen(doc)
    /\ LET new == IdsAt(doc, cursor, 1) \ doc.tomb
       IN  /\ new # {}
           /\ doc' = [doc EXCEPT !.tomb = @ \cup new]
           /\ PushUndoStep(<<TombOp(new)>>, cursor, mode, cursor, mode)
    /\ UNCHANGED <<fileLen, cursor, mode, pending, anchor, grabbed, returnMode,
                   dropped>>

SelectionStart == Least(anchor, cursor)
SelectionLen == anchor + cursor - 2 * SelectionStart + 1

DeleteSelection ==
    /\ mode = "Visual" /\ anchor # None
    /\ LET new == IdsAt(doc, SelectionStart, SelectionLen) \ doc.tomb
       IN  /\ doc' = [doc EXCEPT !.tomb = @ \cup new]
           /\ cursor' = Clamp(doc, SelectionStart, "Normal")
           /\ PushUndoStep(<<TombOp(new)>>, SelectionStart, "Visual", cursor',
                           "Normal")
    /\ mode' = "Normal" /\ anchor' = None
    /\ UNCHANGED <<fileLen, pending, grabbed, returnMode, dropped>>

(* edit_nibble at the end of the document appends a byte. *)
AppendNibble(v) ==
    /\ mode = "EditHigh" /\ cursor = DocLen(doc)
    /\ Len(doc.base) < MaxCells
    /\ doc' = InsertBytes(doc, cursor, <<v * Radix>>)
    /\ mode' = "EditLow"
    /\ PushUndoStep(<<InsertOp(cursor, InsertedCells(doc, <<v>>))>>,
                    cursor, mode, cursor, mode')
    /\ UNCHANGED <<fileLen, cursor, pending, anchor, grabbed, returnMode,
                   dropped>>

WithNibble(b, m, v) ==
    IF m = "EditHigh" THEN v * Radix + (b % Radix)
                      ELSE (b \div Radix) * Radix + v

(* edit_nibble on a byte that is shown; elsewhere it fails. *)
EditNibble(v) ==
    /\ mode \in EditModes /\ cursor < DocLen(doc)
    /\ LET id == doc.cells[cursor + 1]
       IN  /\ id \notin doc.tomb
           /\ doc' = SetByte(doc, id, WithNibble(Shown(doc, id), mode, v))
           /\ mode' = IF mode = "EditHigh" THEN "EditLow" ELSE "EditHigh"
           /\ cursor' = IF mode = "EditHigh" THEN cursor ELSE cursor + 1
           /\ PushUndoStep(
                <<ReplaceOp({id}, Only(doc.repl, {id}), Only(doc'.repl, {id}))>>,
                cursor, mode, cursor', mode')
    /\ UNCHANGED <<fileLen, pending, anchor, grabbed, returnMode, dropped>>

(* Mutant: the redo stack survives the first key of an insert. *)
InsertKeepsRedo(v) ==
    /\ mode = "Insert" /\ pending = None
    /\ Len(doc.base) < MaxCells /\ Len(undo) < MaxSteps
    /\ cursor <= DocLen(doc)
    /\ doc' = InsertBytes(doc, cursor, <<v * Radix>>)
    /\ pending' = [off |-> cursor, high |-> v]
    /\ UNCHANGED <<fileLen, cursor, mode, anchor, grabbed, returnMode, undo,
                   redo, dropped>>

(* insert_nibble, first key: the byte is in the document, not in the undo  *)
(* stack.                                                                  *)
InsertHighNibble(v) ==
    /\ mode = "Insert" /\ pending = None
    /\ Len(doc.base) < MaxCells /\ Len(undo) < MaxSteps
    /\ redo' = <<>>
    /\ cursor <= DocLen(doc)
    /\ doc' = InsertBytes(doc, cursor, <<v * Radix>>)
    /\ pending' = [off |-> cursor, high |-> v]
    /\ UNCHANGED <<fileLen, cursor, mode, anchor, grabbed, returnMode, undo,
                   dropped>>

(* insert_nibble, second key. *)
InsertLowNibble(v) ==
    /\ mode = "Insert" /\ pending # None
    /\ pending.off < DocLen(doc)
    /\ LET id == doc.cells[pending.off + 1]
       IN  /\ id \notin doc.tomb
           /\ doc' = SetByte(doc, id, pending.high * Radix + v)
    /\ cursor' = pending.off + 1
    /\ CommitPendingInsert(doc', cursor')
    /\ UNCHANGED <<fileLen, mode, anchor, grabbed, returnMode, dropped>>

(* A pending byte is taken back with no trace in the undo stack. *)
TakeBackPending ==
    /\ mode = "Insert" /\ pending # None
    /\ pending.off < DocLen(doc)
    /\ doc' = Cut(doc, pending.off, 1)
    /\ cursor' = pending.off
    /\ pending' = None
    /\ UNCHANGED <<fileLen, mode, anchor, grabbed, returnMode, undo, dropped>>

BackspacePending == TakeBackPending /\ redo' = <<>>

UndoPendingInsert == TakeBackPending /\ UNCHANGED redo

(* Mutant: the undo step names the offset of the cursor, not of the byte. *)
BackspaceRecordsCursor ==
    /\ mode = "Insert" /\ pending = None
    /\ cursor > 0
    /\ cursor - 1 < DocLen(doc)
    /\ doc' = Cut(doc, cursor - 1, 1)
    /\ cursor' = cursor - 1
    /\ PushUndoStep(<<DeleteOp(cursor, CellsAt(doc, cursor - 1, 1))>>,
                    cursor, "Insert", cursor - 1, "Insert")
    /\ UNCHANGED <<fileLen, mode, pending, anchor, grabbed, returnMode,
                   dropped>>

EditBackspace ==
    /\ mode = "Insert" /\ pending = None
    /\ cursor > 0
    /\ cursor - 1 < DocLen(doc)
    /\ doc' = Cut(doc, cursor - 1, 1)
    /\ cursor' = cursor - 1
    /\ PushUndoStep(<<DeleteOp(cursor - 1, CellsAt(doc, cursor - 1, 1))>>,
                    cursor, "Insert", cursor - 1, "Insert")
    /\ UNCHANGED <<fileLen, mode, pending, anchor, grabbed, returnMode,
                   dropped>>

-----------------------------------------------------------------------------
(* Undo and redo of up to n steps.  A step that fails is off its stack and *)
(* on no other, and ends the loop.                                         *)

Travelling ==
    [doc |-> doc, undo |-> undo, redo |-> redo, cursor |-> cursor, mode |-> mode,
     ok |-> TRUE]

(* One turn of undo's loop. *)
OneUndone(t) ==
    IF ~ t.ok \/ t.undo = <<>> THEN t
    ELSE LET step == Last(t.undo)
             back == UndoOps(t.doc, step.ops)
         IN  IF back.ok
             THEN [doc |-> back.doc,
                   undo |-> Front(t.undo), redo |-> Append(t.redo, step),
                   cursor |-> Clamp(back.doc, step.cursorBefore, step.modeBefore),
                   mode |-> step.modeBefore, ok |-> TRUE]
             ELSE [t EXCEPT !.doc = back.doc, !.undo = Front(@), !.ok = FALSE]

OneRedone(t) ==
    IF ~ t.ok \/ t.redo = <<>> THEN t
    ELSE LET step == Last(t.redo)
             ahead == ApplyOps(t.doc, step.ops)
         IN  IF ahead.ok
             THEN [doc |-> ahead.doc,
                   undo |-> Append(t.undo, step), redo |-> Front(t.redo),
                   cursor |-> Clamp(ahead.doc, step.cursorAfter, step.modeAfter),
                   mode |-> step.modeAfter, ok |-> TRUE]
             ELSE [t EXCEPT !.doc = ahead.doc, !.redo = Front(@), !.ok = FALSE]

UndoTurns(n) ==
    LET walk[i \in 0..n] == IF i = 0 THEN Travelling ELSE OneUndone(walk[i - 1])
    IN  walk

RedoTurns(n) ==
    LET walk[i \in 0..n] == IF i = 0 THEN Travelling ELSE OneRedone(walk[i - 1])
    IN  walk

(* The keys restore the mode of the step, whatever mode that is. *)
TravelByKey(t) ==
    /\ doc' = t.doc /\ undo' = t.undo /\ redo' = t.redo
    /\ cursor' = t.cursor /\ mode' = t.mode
    /\ UNCHANGED <<fileLen, pending, anchor, grabbed, returnMode, dropped>>

UndoKey ==
    /\ mode \in EofModes /\ pending = None /\ undo # <<>>
    /\ TravelByKey(OneUndone(Travelling))

RedoKey ==
    /\ mode \in KeyModes /\ redo # <<>>
    /\ TravelByKey(OneRedone(Travelling))

(* :u and :redo end in Normal mode, unless a step fails. *)
TravelByCommand(t) ==
    /\ mode = "Command"
    /\ doc' = t.doc /\ undo' = t.undo /\ redo' = t.redo
    /\ cursor' = IF t.ok THEN Clamp(t.doc, t.cursor, "Normal") ELSE t.cursor
    /\ mode' = IF t.ok THEN "Normal" ELSE mode
    /\ returnMode' = IF t.ok THEN None ELSE returnMode
    /\ UNCHANGED <<fileLen, pending, anchor, grabbed, dropped>>

UndoCommand(n) == TravelByCommand(UndoTurns(n)[n])

RedoCommand(n) == TravelByCommand(RedoTurns(n)[n])

-----------------------------------------------------------------------------
(* The mouse over the hex view. *)

MouseDown(off, phase) ==
    /\ off < DocLen(doc)
    /\ CommitPendingInsert(doc, cursor)
    /\ grabbed' = off /\ cursor' = off
    /\ mode' = CASE mode \in EditModes -> phase
                 [] mode = "Command" -> Returned
                 [] OTHER -> "Normal"
    /\ anchor' = IF mode = "Visual" THEN None ELSE anchor
    /\ returnMode' = IF mode = "Command" THEN None ELSE returnMode
    /\ UNCHANGED <<doc, fileLen, dropped>>

(* A drag selects from any mode; over the side panel it reports offset 0.  *)
MouseDrag(off) ==
    /\ (off < DocLen(doc) \/ off = 0)
    /\ anchor' = IF grabbed = None THEN off ELSE grabbed
    /\ cursor' = off
    /\ mode' = "Visual"
    /\ pending' = None
    /\ dropped' = (dropped \/ pending # None)
    /\ UNCHANGED <<doc, fileLen, grabbed, returnMode, undo, redo>>

MouseUp ==
    /\ grabbed # None
    /\ grabbed' = None
    /\ UNCHANGED <<doc, fileLen, cursor, mode, pending, anchor, returnMode,
                   undo, redo, dropped>>

-----------------------------------------------------------------------------
(* Commands.  While one runs the mode is Command, and that is the mode its  *)
(* undo step records; one that fails changes nothing and stays open.        *)

Submitted(m) ==
    /\ mode = "Command"
    /\ mode' = IF m = "Command" THEN Returned ELSE m
    /\ returnMode' = None

(* execute_goto_command and the search commands. *)
Goto(off) ==
    /\ Submitted("Command")
    /\ off < DocLen(doc) \/ (off = 0 /\ DocLen(doc) = 0)
    /\ cursor' = off
    /\ UNCHANGED <<doc, fileLen, pending, anchor, grabbed, undo, redo, dropped>>

CursorAfter(n) == Clamp(doc, cursor + (IF n = 0 THEN 0 ELSE n - 1), "Command")

(* A command that overwrites at the cursor. *)
Overwritten(e, target) ==
    /\ e.ok
    /\ Submitted("Command")
    /\ doc' = e.doc
    /\ cursor' = target
    /\ PushUndoStep(e.ops, cursor, mode, cursor', mode)
    /\ UNCHANGED <<fileLen, pending, anchor, grabbed, dropped>>

PasteOverwrite(bytes) ==
    LET e == OverwriteBytes(doc, cursor, bytes)
    IN  Overwritten(e, CursorAfter(e.n))

Fill(bytes) ==
    LET e == FillOverwrite(doc, cursor, bytes)
    IN  Overwritten(e, IF e.n = 0 THEN cursor ELSE CursorAfter(e.n))

PasteInsert(bytes) ==
    LET e == InsertRun(doc, cursor, bytes)
    IN  /\ e.ok
        /\ Submitted("Command")
        /\ Len(doc.base) + Len(bytes) <= MaxCells
        /\ doc' = e.doc
        /\ cursor' = Clamp(doc', cursor + Len(bytes) - 1, "Command")
        /\ PushUndoStep(e.ops, cursor, mode, cursor', mode)
        /\ UNCHANGED <<fileLen, pending, anchor, grabbed, dropped>>

(* xor! over the active selection, which is any anchor that is still set.  *)
XorInPlace ==
    /\ anchor # None
    /\ LET e == XorRange(doc, SelectionStart, SelectionLen)
       IN  /\ e.ok
           /\ IF e.n = 0
              THEN /\ Submitted("Command")
                   /\ UNCHANGED <<doc, cursor, anchor, undo, redo>>
              ELSE /\ Submitted("Normal")
                   /\ doc' = e.doc
                   /\ anchor' = None
                   /\ cursor' = Clamp(doc, SelectionStart, "Normal")
                   /\ PushUndoStep(e.ops, SelectionStart, mode, cursor', "Normal")
    /\ UNCHANGED <<fileLen, pending, grabbed, dropped>>

(* Mutant: saving leaves the cursor where it was. *)
WriteKeepsCursor ==
    /\ Submitted("Command")
    /\ doc' = DocOf(LogicalBytes(doc))
    /\ fileLen' = DocLen(doc')
    /\ undo' = <<>> /\ redo' = <<>> /\ dropped' = FALSE
    /\ UNCHANGED <<cursor, pending, anchor, grabbed>>

(* :w that succeeds: the document starts over from the bytes it wrote. *)
Write ==
    /\ Submitted("Command")
    /\ doc' = DocOf(LogicalBytes(doc))
    /\ fileLen' = DocLen(doc')
    /\ cursor' = Clamp(doc', cursor, "Normal")
    /\ undo' = <<>> /\ redo' = <<>> /\ dropped' = FALSE
    /\ UNCHANGED <<pending, anchor, grabbed>>

-----------------------------------------------------------------------------
Init ==
    /\ profile \in Profiles
    /\ doc = DocOf(Content) /\ fileLen = Len(Content)
    /\ cursor \in {off \in 0..Len(Content) : off = Clamp(doc, off, "Normal")}
    /\ mode = "Normal"
    /\ pending = None /\ anchor = None /\ grabbed = None /\ returnMode = None
    /\ undo = <<>> /\ redo = <<>> /\ dropped = FALSE

Uses(input) == input \in Inputs

Navigate ==
    \/ \E delta \in {-1, 1, -BytesPerLine, BytesPerLine} : MoveBy(delta)
    \/ \E end \in BOOLEAN : MoveRowEdge(end)
    \/ Uses("mouse") /\ \E top \in 0..MaxCells : ScrollViewport(top)
    \/ Uses("jump") /\ \E off \in 0..MaxCells : RunSearch(off)

SwitchMode ==
    \/ Uses("insert") /\ EnterHexMode("Insert")
    \/ Uses("overwrite") /\ EnterHexMode("EditHigh")
    \/ Uses("visual") /\ ToggleVisual
    \/ LeaveMode
    \/ EnterCommandMode

Edit ==
    \/ Uses("delete") /\ (DeleteCurrent \/ DeleteSelection)
    \/ \E v \in Typed : \/ AppendNibble(v) \/ EditNibble(v)
                        \/ InsertHighNibble(v) \/ InsertLowNibble(v)
    \/ BackspacePending \/ UndoPendingInsert \/ EditBackspace
    \/ UndoKey \/ RedoKey

UseMouse ==
    /\ Uses("mouse")
    /\ \/ \E off \in 0..MaxCells, phase \in EditModes : MouseDown(off, phase)
       \/ \E off \in 0..MaxCells : MouseDrag(off)
       \/ MouseUp

SubmitCommand ==
    \/ Uses("jump") /\ \E off \in 0..MaxCells : Goto(off)
    \/ Uses("paste") /\ \E b \in Clips : PasteOverwrite(b) \/ PasteInsert(b)
    \/ Uses("fill") /\ \E b \in Fills : Fill(b)
    \/ Uses("xor") /\ XorInPlace
    \/ Uses("save") /\ Write
    \/ \E n \in 1..MaxSteps : UndoCommand(n) \/ RedoCommand(n)

Next ==
    /\ Navigate \/ SwitchMode \/ Edit \/ UseMouse \/ SubmitCommand
    /\ UNCHANGED profile

Spec == Init /\ [][Next]_vars

-----------------------------------------------------------------------------
(* Properties *)

(* The state is well formed, and the cursor never points past the end of    *)
(* file slot, in any mode and after any undo or save: every insert at the  *)
(* cursor (insert_bytes fails beyond the length) succeeds.                 *)
TypeOK ==
    /\ doc.base \in Seq(Byte) /\ ToSet(doc.cells) \subseteq DOMAIN doc.base
    /\ doc.tomb \subseteq DOMAIN doc.base
    /\ DOMAIN doc.repl \subseteq DOMAIN doc.base
    /\ \A id \in DOMAIN doc.repl : doc.repl[id] \in Byte
    /\ mode \in Modes /\ returnMode \in Modes \cup {None}
    /\ anchor \in Nat \cup {None} /\ grabbed \in Nat \cup {None}
    /\ cursor \in 0..DocLen(doc)
    /\ pending # None => pending \in [off : Nat, high : Typed]
    /\ dropped \in BOOLEAN

(* Undoing any number of steps shows what was shown before them, down to   *)
(* the file as it was opened or last saved: whatever was typed, pasted,    *)
(* filled, xored or deleted, in whatever modes, and however far undo and   *)
(* redo went before (undo.rs and the steps every editing path pushes).     *)
HistoryUnwinds ==
    dropped \/
        LET Back(k) == Rewound(Settled, SubSeq(undo, k, Len(undo)))
        IN  /\ \A k \in DOMAIN undo :
                Back(k).ok /\ Display(Back(k).doc) = undo[k].shown
            /\ Back(1).doc.cells = [i \in 1..fileLen |-> i]
            /\ Back(1).doc.tomb = {}
            /\ Display(Back(1).doc) = SubSeq(doc.base, 1, fileLen)

(* Redoing all that was undone succeeds, and undoing it again shows the    *)
(* same bytes as before: no step on the redo stack has become stale.       *)
HistoryReplays ==
    dropped \/ LET ahead == Redone(doc, redo)
                   back == Rewound(ahead.doc, Reverse(redo))
               IN  ahead.ok /\ back.ok /\ Display(back.doc) = Display(doc)

(* A half-typed byte is the cell allocated last, sits where its offset     *)
(* says, and nothing can be redone on top of it; so that the second key,   *)
(* backspace, undo and commit (editing_state.rs) all hit that byte.        *)
PendingIsNewest ==
    pending # None =>
        /\ mode = "Insert" /\ redo = <<>>
        /\ CellsAt(doc, pending.off, 1) = <<Len(doc.base)>>
=============================================================================
