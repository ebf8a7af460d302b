----------------------------- MODULE MCExecBatch -----------------------------
(* Nibbles are single bits, a byte has four values. *)
EXTENDS ExecBatch

MCEntryOf == [file |-> "inode1", copy |-> "inode2"]
Aliases == [file |-> "inode1", copy |-> "inode1"]

Here == [base |-> "cursor", delta |-> 0]
At(n) == [base |-> "start", delta |-> n]
End == [base |-> "end", delta |-> 0]
Selected == [of |-> "selection"]
Whole == [of |-> "all"]
Slots(space, start, len) == [space |-> space, start |-> start, len |-> len]
Only1(space, start, len) == [of |-> "range", range |-> Slots(space, start, len)]

Bytes(op, at, bytes) == [op |-> op, at |-> at, bytes |-> bytes]
Replacing(scope, needle, bytes, resize, force) ==
    [op |-> "replace", scope |-> scope, needle |-> needle, bytes |-> bytes,
     resize |-> resize, force |-> force]
Finding(bytes, forward, select) ==
    [op |-> "search", bytes |-> bytes, forward |-> forward, select |-> select]
Over1(op, scope) == [op |-> op, scope |-> scope]
Deleting(scope, real) == [op |-> "delete", scope |-> scope, real |-> real]
Selecting(space, start, len) == [op |-> "select", range |-> Slots(space, start, len)]
Saving(name) == [op |-> "save", name |-> name]

Macro(selection, group, rollback) ==
    [selection |-> selection, group |-> group, rollback |-> rollback]

Bounded(front, content, commands, macros, scripts, steps, undoDepth, cells) ==
    [front |-> front, content |-> content, commands |-> commands,
     macros |-> macros, scripts |-> scripts, readonly |-> FALSE, steps |-> steps,
     undo |-> undoDepth, cells |-> cells]

Changing == {
    Bytes("overwrite", Here, <<3, 3>>), Bytes("insert", At(1), <<2>>),
    Bytes("fill", At(1), <<0, 0>>), Over1("xor", Selected),
    Deleting(Only1("display", 0, 1), FALSE), Deleting(Selected, TRUE),
    Replacing(Whole, <<1>>, <<3, 2>>, TRUE, TRUE),
    Replacing(Whole, <<1>>, <<2>>, FALSE, FALSE)}

Asking == {
    [op |-> "goto", at |-> At(2)], [op |-> "clear"],
    Selecting("logical", 1, 1), Selecting("display", 1, 2),
    Finding(<<1, 2>>, TRUE, TRUE), Finding(<<1>>, FALSE, FALSE)}

(* Edits of every kind, the selection under them, grouped or not. *)
Macros ==
    Bounded("app", <<1, 2, 1>>, Changing \cup Asking,
            {Macro("inherit", TRUE, TRUE), Macro("clear", FALSE, FALSE)},
            FALSE, 3, 1, 5)

(* Values bound by one step and used by another. *)
Binding ==
    Bounded("app", <<1, 2>>,
            {Over1("read", Selected), Over1("read", Only1("logical", 0, 1)),
             Over1("hash", Whole), Over1("export", Whole), Finding(<<2>>, TRUE, TRUE),
             Finding(Bound, TRUE, FALSE), Bytes("insert", End, Bound),
             Bytes("overwrite", End, Bound), Replacing(Whole, <<1>>, Bound, FALSE, FALSE)},
            {Macro("inherit", TRUE, TRUE), Macro("require", FALSE, FALSE)},
            FALSE, 3, 1, 4)

(* Saves in the middle, failing anywhere; undo and redo around them. *)
Files ==
    Bounded("app", <<1, 2>>,
            {Saving(None), Bytes("overwrite", Here, <<3>>),
             Deleting(Only1("display", 0, 1), FALSE), Bytes("insert", At(0), <<2>>)},
            {Macro("inherit", TRUE, FALSE), Macro("inherit", TRUE, TRUE)},
            TRUE, 3, 2, 3)

(* Saves under the other name as well. *)
Copies ==
    Bounded("app", <<1, 2>>,
            {Saving(None), Saving("copy"), Bytes("overwrite", Here, <<3>>),
             Bytes("insert", At(0), <<2>>)},
            {Macro("inherit", TRUE, FALSE)}, TRUE, 3, 1, 4)

(* A save back over the file that is still read: its copy did not open. *)
Back ==
    Bounded("app", <<1, 2>>,
            {Saving("copy"), Saving("file"), Bytes("insert", At(0), <<2>>)},
            {Macro("inherit", TRUE, FALSE)}, FALSE, 2, 1, 3)

(* Commands, macros and scripts one after the other over one exec state. *)
Headless ==
    Bounded("headless", <<1, 2>>,
            {Saving("copy"), Bytes("fill", Here, <<3, 3>>),
             Over1("export", Selected), Over1("xor", Selected),
             Selecting("display", 0, 1), Replacing(Selected, <<2>>, <<3, 1>>, TRUE, TRUE)},
            {Macro("inherit", FALSE, FALSE)}, TRUE, 2, 1, 3)

ReadOnly ==
    [Bounded("app", <<1, 2>>,
             {Saving(None), Saving("copy"), Bytes("fill", Here, <<3, 3>>),
              Over1("xor", Whole), Deleting(Whole, FALSE),
              Replacing(Whole, <<3>>, <<1>>, FALSE, FALSE)},
             {Macro("inherit", TRUE, FALSE)}, FALSE, 2, 1, 4)
     EXCEPT !.readonly = TRUE]

MCProfiles == {Macros, Binding, Files, Copies, Back, Headless, ReadOnly}

Other == [Copies EXCEPT !.macros = {}]
AliasProfiles == {Other}
=============================================================================
