------------------------------- MODULE Inspector -------------------------------
(***************************************************************************)
(* The inspector panel (app/inspector_state.rs, app/commands/inspector.rs,   *)
(* app/events/inspector_edit.rs): a tree parsed from the document, its rows, *)
(* the selection that follows the cursor and leads it, the edit of a field   *)
(* and its undo, and the commands that parse the tree again.               *)
(*                                                                         *)
(* A profile is a file and what may be done with it.  The panel is the       *)
(* inspector throughout; the view is as wide as the panel needs or not.      *)
(***************************************************************************)
EXTENDS FormatTree

CONSTANTS Profiles,     \* [file, acts, caps, typed, fills, offsets, forced]
          EntryCap,     \* DEFAULT_ENTRY_CAP
          Depth,        \* inspector_depth
          Whole,        \* a cap that no file of a run reaches
          Detect(_, _, _)   \* detect_format_with_cap: Detected, or a part of it

ASSUME InspectorAssumption ==
    /\ EntryCap \in Nat \ {0} /\ Depth \in Nat /\ Whole \in Nat
    /\ \A p \in Profiles : p.acts \in Nat /\ p.caps \in Nat

VARIABLES profile,      \* what may be done; never changes
          app,          \* the application
          acts,         \* how much was done
          opened        \* the field that the open edit was started on

vars == <<profile, app, acts, opened>>

Panels == {"SidePanel", "InspectorEdit"}
NoInspector == [on |-> FALSE]
NoField == [at |-> 0, declared |-> 0]

Rows == IF app.inspector.on THEN app.inspector.rows ELSE <<>>
Editing(a) == a.inspector.on /\ a.inspector.editing # 0

(* parse_format of what is detected. *)
Parsed(f, override, cap) == ParsedStructs(f, Detect(f, override, cap).structs)

FirstOf(indexes, default) == IF indexes = {} THEN default ELSE Min(indexes)

(* is_selectable, first_selectable_row, find_row_covering_offset; 0 for None. *)
Selectable(rows) == {i \in DOMAIN rows : rows[i].full}
FirstSelectable(rows) == FirstOf(Selectable(rows), 1)
Covering(rows, o) ==
    FirstOf({i \in DOMAIN rows : ~rows[i].header /\ o \in rows[i].at..(rows[i].at + rows[i].size - 1)}, 0)

NearestSelectable(rows, row) ==
    FirstOf({i \in Selectable(rows) : i >= row}, IF Selectable(rows) = {} THEN row
                                                 ELSE Max(Selectable(rows)))

CloseEdit(a) == IF a.inspector.on THEN [a EXCEPT !.inspector.editing = 0] ELSE a

-----------------------------------------------------------------------------
(* Parsing again. *)

(* Mutant: an open edit survives parsing again. *)
NewInspectorEditing(a, structs) ==
    LET old == a.inspector
        closed == IF old.on THEN old.closed ELSE InitiallyClosed(structs, <<>>, Depth)
        rows == Flatten(structs, closed)
        here == Covering(rows, a.cursor)
    IN  [on |-> TRUE, structs |-> structs, rows |-> rows, closed |-> closed,
         editing |-> IF old.on THEN old.editing ELSE 0,
         selected |-> IF here # 0 THEN here ELSE FirstSelectable(rows)]

(* rebuild_inspector_state: what was collapsed stays so; the selection goes  *)
(* to the field at the offset of the selected one, else to the cursor's.     *)
NewInspector(a, structs) ==
    LET old == a.inspector
        closed == IF old.on THEN old.closed ELSE InitiallyClosed(structs, <<>>, Depth)
        rows == Flatten(structs, closed)
        kept == IF old.on /\ old.selected \in DOMAIN old.rows /\ ~old.rows[old.selected].header
                THEN Covering(rows, old.rows[old.selected].at) ELSE 0
        here == IF kept # 0 THEN kept ELSE Covering(rows, a.cursor)
    IN  [on |-> TRUE, structs |-> structs, rows |-> rows, editing |-> 0, closed |-> closed,
         selected |-> IF here # 0 THEN here ELSE FirstSelectable(rows)]

(* A format that is lost takes the focus away when the panel is shown. *)
Rebuild(a, surface) ==
    LET structs == Parsed(a.file, a.override, a.cap)
    IN  IF structs # <<>> THEN [a EXCEPT !.inspector = NewInspector(a, structs)]
        ELSE [a EXCEPT !.inspector = NoInspector,
                       !.mode = IF surface /\ @ \in Panels THEN "Normal" ELSE @]

(* refresh_inspector and should_refresh_inspector *)
Refresh(a) ==
    IF a.inspector.on \/ a.shown \/ a.override # Auto THEN Rebuild(a, a.shown) ELSE a

(* ensure_inspector_page_state *)
Ensured(a) == IF a.inspector.on THEN a ELSE Rebuild(a, TRUE)

(* sync_inspector_to_cursor *)
Synced(a) ==
    LET row == IF a.inspector.on THEN Covering(a.inspector.rows, a.cursor) ELSE 0
    IN  IF a.mode \in Panels \/ row = 0 THEN a ELSE [a EXCEPT !.inspector.selected = row]

(* sync_cursor_to_inspector: a header leads to where its structure begins. *)
CursorFollows(a) ==
    LET row == a.inspector.rows[a.inspector.selected]
        to == IF ~row.header THEN <<row.at>>
              ELSE IF row.full THEN BaseOffsets(a.inspector.structs, <<>>, row.path) ELSE <<>>
    IN  IF a.inspector.selected \in DOMAIN a.inspector.rows /\ to # <<>>
        THEN [a EXCEPT !.cursor = to[1]] ELSE a

(* focus_inspector_page_or_warn *)
Focused(a) ==
    IF ~a.wide THEN [CloseEdit(a) EXCEPT !.mode = "Normal"]
    ELSE [a EXCEPT !.mode = IF a.inspector.on THEN "SidePanel" ELSE "Normal"]

(* toggle_side_panel and hide_side_panel_from_toggle *)
Toggled(a) ==
    IF a.shown THEN [CloseEdit(a) EXCEPT !.mode = "Normal", !.shown = FALSE]
    ELSE Focused(Ensured([a EXCEPT !.shown = TRUE]))

(* toggle_inspector_collapse of the selected header *)
Collapsed(a) ==
    LET path == a.inspector.rows[a.inspector.selected].path
        closed == IF path \in a.inspector.closed THEN a.inspector.closed \ {path}
                  ELSE a.inspector.closed \cup {path}
        rows == Flatten(a.inspector.structs, closed)
        here == {i \in DOMAIN rows : rows[i].header /\ rows[i].path = path}
    IN  CursorFollows([a EXCEPT !.inspector =
            [@ EXCEPT !.closed = closed, !.rows = rows, !.editing = 0,
                      !.selected = FirstOf(here, FirstSelectable(rows))]])

-----------------------------------------------------------------------------
(* Changing the document. *)

(* The value typed replaces every one that begins in the field; a NUL typed  *)
(* into a text ends it there.                                              *)
Written(f, at, size, value) ==
    LET Outside(values) == Restrict(values, {o \in DOMAIN values : o \notin at..(at + size - 1)})
    IN  IF at \in DOMAIN f.text THEN [f EXCEPT !.text[at] = 1]
        ELSE [f EXCEPT !.tag = Outside(@), !.text = Outside(@),
                       !.word = [o \in {at} |-> value] @@ Outside(@)]

(* push_undo_step: the bytes before and after, with the cursor and mode.     *)
Recorded(a, before, cursor, mode) ==
    IF a.file = before THEN a
    ELSE [a EXCEPT !.redo = <<>>,
                   !.undo = Append(@, [before |-> before, after |-> a.file,
                                       cursor_before |-> cursor, mode_before |-> mode,
                                       cursor_after |-> a.cursor, mode_after |-> a.mode])]

Clamped(a, o) == Least(o, a.file.len - 1)

(* Neither undo nor redo finds a step; a command still leaves to normal mode. *)
Nothing(a, restore) ==
    IF restore THEN a ELSE [a EXCEPT !.mode = "Normal", !.cursor = Clamped(a, @)]

(* Mutant: an undo forgets to parse again. *)
UndoneStale(a, restore) ==
    LET step == Last(a.undo)
        mode == IF restore THEN step.mode_before ELSE "Normal"
    IN  IF a.undo = <<>> THEN Nothing(a, restore)
        ELSE [a EXCEPT !.file = step.before, !.cursor = Clamped(a, step.cursor_before),
                       !.mode = mode, !.undo = Front(@), !.redo = Append(@, step)]

(* undo and redo of one step; a command leaves to normal mode, a key to the   *)
(* mode of the step.                                                       *)
Undone(a, restore) ==
    LET step == Last(a.undo)
        mode == IF restore THEN step.mode_before ELSE "Normal"
    IN  IF a.undo = <<>> THEN Refresh(Nothing(a, restore))
        ELSE Refresh([a EXCEPT !.file = step.before, !.cursor = Clamped(a, step.cursor_before),
                               !.mode = mode, !.undo = Front(@), !.redo = Append(@, step)])

Redone(a, restore) ==
    LET step == Last(a.redo)
        mode == IF restore THEN step.mode_after ELSE "Normal"
    IN  IF a.redo = <<>> THEN Refresh(Nothing(a, restore))
        ELSE Refresh([a EXCEPT !.file = step.after, !.cursor = Clamped(a, step.cursor_after),
                               !.mode = mode, !.redo = Front(@), !.undo = Append(@, step)])

(* submit_inspector_edit: the edit is over whether or not what was typed     *)
(* encodes to a value of the size of the row (good); the mode only if so.    *)
Submitted(a, good, value) ==
    LET row == a.inspector.rows[a.inspector.editing]
        field == FieldDefs(a.inspector.structs)[row.index + 1]
        taken == CloseEdit(a)
        done == Refresh([taken EXCEPT !.file = Written(@, row.at, field.declared, value)])
        shown == IF done.inspector.on THEN CursorFollows([done EXCEPT !.mode = "SidePanel"])
                 ELSE done
    IN  IF good /\ field.declared = row.size
        THEN Synced(Recorded(shown, a.file, a.cursor, a.mode)) ELSE taken

(* execute_fill_command: n bytes of zero from the cursor on. *)
Filled(a, n) ==
    LET filled == [a EXCEPT !.file = Written(@, a.cursor, n, 0),
                            !.cursor = Clamped(a, @ + n - 1)]
    IN  Refresh(Recorded(filled, a.file, a.cursor, a.mode))

-----------------------------------------------------------------------------
(* Commands. *)

(* normalize_mode *)
Normalized(a, mode) ==
    IF mode \in Panels /\ (~a.shown \/ ~a.wide) THEN "Normal"
    ELSE IF mode = "InspectorEdit" /\ ~Editing(a) THEN "SidePanel" ELSE mode

(* submit_command: a command that did not choose a mode goes back to the one *)
(* it was entered from.                                                    *)
Submit(a) ==
    [a EXCEPT !.mode = IF @ = "Command" THEN Normalized(a, a.back) ELSE @, !.back = "Normal"]

(* execute_inspector_command *)
ExecInsp(a) ==
    IF a.shown /\ a.back \in Panels THEN [a EXCEPT !.mode = "Normal", !.shown = FALSE]
    ELSE Focused(Ensured([a EXCEPT !.shown = TRUE]))

(* execute_inspector_more_command *)
MoreCounts(a) == a.shown /\ a.inspector.on
ExecMore(a) == IF MoreCounts(a) THEN Refresh([a EXCEPT !.cap = @ + EntryCap]) ELSE a

(* execute_format_command: a name that does not match leaves the tree, but   *)
(* the cap is the default again.                                           *)
ExecFormat(a, name) ==
    LET open == [a EXCEPT !.shown = TRUE, !.cap = EntryCap]
        forced == Refresh([open EXCEPT !.override = name, !.inspector = NoInspector])
    IN  IF name # Auto /\ Detect(a.file, name, EntryCap).structs = <<>> THEN open
        ELSE Focused(forced)

-----------------------------------------------------------------------------
StartOf(p, shown) ==
    LET a == [file |-> p.file, cap |-> EntryCap, override |-> Auto, inspector |-> NoInspector,
              mode |-> "Normal", back |-> "Normal", shown |-> shown, wide |-> TRUE,
              cursor |-> 0, undo |-> <<>>, redo |-> <<>>]
    IN  Synced(IF shown THEN Refresh(a) ELSE a)

Init ==
    /\ profile \in Profiles
    /\ \E shown \in BOOLEAN : app = StartOf(profile, shown)
    /\ acts = 0 /\ opened = NoField

Busy == acts < profile.acts
In(modes) == Busy /\ app.mode \in modes

(* finish_action: the selection follows a cursor that is not led by it. *)
Becomes(a) ==
    /\ app' = a
    /\ acts' = acts + 1
    /\ opened' = IF Editing(a) THEN opened ELSE NoField
    /\ UNCHANGED profile

Up ==
    /\ In(Panels) /\ app.inspector.on /\ ~Editing(app)
    /\ LET above == {i \in Selectable(Rows) : i < app.inspector.selected}
       IN  Becomes(CursorFollows([app EXCEPT !.inspector.selected =
                                     IF above = {} THEN @ ELSE Max(above)]))

Down ==
    /\ In(Panels) /\ app.inspector.on /\ ~Editing(app)
    /\ LET below == {i \in Selectable(Rows) : i > app.inspector.selected}
       IN  Becomes(CursorFollows([app EXCEPT !.inspector.selected = FirstOf(below, @)]))

Selected == Rows[app.inspector.selected]

(* Enter on a field that may be edited. *)
OpenField ==
    /\ In(Panels) /\ app.inspector.on /\ ~Editing(app)
    /\ ~Selected.header /\ Selected.edit
    /\ app' = [app EXCEPT !.inspector.editing = app.inspector.selected, !.mode = "InspectorEdit"]
    /\ opened' = [at |-> Selected.at, declared |-> Selected.size]
    /\ acts' = acts + 1 /\ UNCHANGED profile

(* Enter or space on a header. *)
ToggleRow ==
    /\ In(Panels) /\ app.inspector.on /\ ~Editing(app)
    /\ Selected.header /\ Selected.full
    /\ Becomes(Collapsed(app))

(* Enter in an open edit. *)
SubmitField ==
    /\ In(Panels) /\ Editing(app)
    /\ \E value \in profile.typed, good \in BOOLEAN : Becomes(Submitted(app, good, value))

(* Esc *)
LeaveMode ==
    /\ In(Panels)
    /\ Becomes(Synced([CloseEdit(app) EXCEPT
                          !.mode = IF @ = "InspectorEdit" THEN "SidePanel" ELSE "Normal"]))

(* Tab *)
ToggleSidePanel == In(Panels \cup {"Normal"}) /\ Becomes(Synced(Toggled(app)))

(* A click into the panel gives it the focus, and ends a command; one on a    *)
(* row selects it.                                                         *)
Clicked == [app EXCEPT !.mode = "SidePanel", !.back = IF app.mode = "Command" THEN "Normal" ELSE @]

ClickPanel == Busy /\ app.shown /\ app.wide /\ Becomes(Clicked)

ClickRow(row) ==
    /\ Busy /\ app.shown /\ app.wide
    /\ LET a == [Clicked EXCEPT !.inspector.editing = 0,
                                !.inspector.selected = NearestSelectable(Rows, row)]
       IN  Becomes(IF Rows[row].header /\ Rows[row].full THEN Collapsed(a) ELSE CursorFollows(a))

(* The keys of normal mode. *)
MoveCursor ==
    /\ In({"Normal"})
    /\ \E o \in profile.offsets : Becomes(Synced([app EXCEPT !.cursor = o]))
UndoKey == In({"Normal"}) /\ Becomes(Synced(Undone(app, TRUE)))
RedoKey == In({"Normal"}) /\ Becomes(Synced(Redone(app, TRUE)))

EnterCommand ==
    /\ In(Panels \cup {"Normal"})
    /\ Becomes(Synced([app EXCEPT !.mode = "Command", !.back = app.mode]))

Runs(a) == In({"Command"}) /\ Becomes(Synced(Submit(a)))

CancelCommand == Runs(app)
Goto == \E o \in profile.offsets : Runs([app EXCEPT !.cursor = o])
InspCommand == Runs(ExecInsp(app))
FormatCommand == \E name \in profile.forced \cup {Auto} : Runs(ExecFormat(app, name))
UndoCommand == Runs(Undone(app, FALSE))
RedoCommand == Runs(Redone(app, FALSE))
Fill == \E n \in {m \in 1..8 : <<app.cursor, m>> \in profile.fills} : Runs(Filled(app, n))

(* :insp more, from anywhere a command may be entered; the cap is bounded.   *)
InspMore ==
    /\ app.mode \in Panels \cup {"Normal"} /\ app.cap < profile.caps * EntryCap
    /\ LET a == Submit(ExecMore([app EXCEPT !.mode = "Command", !.back = app.mode]))
       IN  /\ app' = Synced(a)
           /\ opened' = (IF Editing(a) THEN opened ELSE NoField)
           /\ UNCHANGED <<profile, acts>>

(* The terminal gets wider or narrower and the view is drawn again. *)
Resize ==
    /\ Busy
    /\ LET a == [app EXCEPT !.wide = ~@]
       IN  Becomes(IF a.mode \in Panels /\ ~a.wide
                   THEN [CloseEdit(a) EXCEPT !.mode = "Normal"] ELSE a)

Next ==
    \/ Up \/ Down \/ OpenField \/ ToggleRow \/ SubmitField \/ LeaveMode \/ ToggleSidePanel
    \/ ClickPanel \/ \E row \in DOMAIN Rows : ClickRow(row)
    \/ MoveCursor \/ UndoKey \/ RedoKey
    \/ EnterCommand \/ CancelCommand \/ Goto \/ InspCommand \/ FormatCommand
    \/ UndoCommand \/ RedoCommand \/ Fill \/ InspMore \/ Resize

Spec == Init /\ [][Next]_vars

-----------------------------------------------------------------------------
(* Whatever changed the document, the override or the cap, the tree and the  *)
(* rows shown are those of the document as it is now (rebuild_inspector_state *)
(* after every edit, undo and redo); the cap may be that of an earlier       *)
(* :insp more when :format failed.                                         *)
TreeCurrent ==
    app.inspector.on =>
        /\ \E k \in 1..profile.caps :
               /\ k * EntryCap >= app.cap
               /\ app.inspector.structs = Parsed(app.file, app.override, k * EntryCap)
        /\ Rows = Flatten(app.inspector.structs, app.inspector.closed)
        /\ app.inspector.selected \in Selectable(Rows)

(* A row shows the field that an edit started on it would write: the index   *)
(* of a field row is its place among all the fields, also of those that      *)
(* collapsed structures hide, and a path leads to one structure only.        *)
RowsExact ==
    app.inspector.on =>
        LET fields == FieldDefs(app.inspector.structs)
            headers == {i \in DOMAIN Rows : Rows[i].header}
        IN  /\ \A i \in DOMAIN Rows \ headers :
                   LET field == fields[Rows[i].index + 1]
                   IN  /\ field.at = Rows[i].at /\ field.size = Rows[i].size
                       /\ field.edit = Rows[i].edit
            /\ \A i \in headers : Len(BaseOffsets(app.inspector.structs, <<>>, Rows[i].path)) = 1
            /\ Cardinality({Rows[i].path : i \in headers}) = Cardinality(headers)

(* An open edit is one of the field it was opened on, whatever the user does  *)
(* before submitting it: collapses, more entries, another format, a command, *)
(* a narrow terminal.                                                      *)
EditTargetsField ==
    Editing(app) =>
        LET row == Rows[app.inspector.editing]
        IN  /\ app.inspector.editing \in DOMAIN Rows /\ ~row.header /\ row.edit
            /\ row.at = opened.at /\ row.size = opened.declared

(* What a cap shows is part of what there is, at the same offsets and with   *)
(* the same fields, so that :insp more only adds; and without a marker it is *)
(* all there is, so that the reader of the panel does not take the part for  *)
(* the whole.  Left out (FormatTree): SQLite, an ELF file with a table and a *)
(* ZIP file with a central entry that cannot be read whole (Comparable); the *)
(* second part also leaves out the formats that cut a list without a marker *)
(* or with one the panel does not know: it is about those in Announcing.    *)
CapsExact ==
    app.inspector.on =>
        LET whole == Detect(app.file, app.override, Whole)
            parsed == ParsedStructs(app.file, whole.structs)
            shown == app.inspector.structs
        IN  Comparable(app.file, whole.name, Whole) =>
                /\ PartOf(shown, parsed)
                /\ ~HasMarker(shown, Markers) /\ whole.name \in Announcing => shown = parsed

===============================================================================
