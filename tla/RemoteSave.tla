------------------------------ MODULE RemoteSave ------------------------------
(***************************************************************************)
(* Saving a remote document: Document::save with the RemoteSource and the  *)
(* SFTP or FTP backend behind it, against a server whose file other        *)
(* programs change and a connection on which any request can fail or lose  *)
(* its reply.                                                              *)
(*                                                                         *)
(* A content is what distinguishes two versions of the file: how often     *)
(* each change, the user's or a foreign one, is in it (2 stands for "more  *)
(* than once").  The file fits in one page of the cache; fingerprints are  *)
(* numbers.  Whether the removal of a temporary file succeeded is not      *)
(* recorded: its name is unique and nobody ever reads it again.            *)
(***************************************************************************)
EXTENDS Naturals

CONSTANTS
    Edits,          \* the changes the user can make
    Foreign,        \* the changes other programs can make
    ReadsByPath,    \* TRUE: FTP, every read names the path; FALSE: SFTP,
                    \* reads go through a handle opened once
    Fresh,          \* whether a store gives the target another fingerprint:
                    \* {TRUE} always, {TRUE, FALSE} when mtime is too coarse
    MaxClock,       \* bound: fingerprints the server hands out
    NoContent       \* the absence of a page or of a temporary file

Marks == Edits \cup Foreign

Contents == [Marks -> 0..2]

ASSUME RemoteConstants ==
    /\ Edits \cap Foreign = {}
    /\ ReadsByPath \in BOOLEAN
    /\ Fresh \subseteq BOOLEAN
    /\ MaxClock \in Nat
    /\ NoContent \notin Contents

VARIABLES
    file,       \* the target on the server: its content and fingerprint
    clock,      \* the last fingerprint handed out
    handle,     \* the backend's read handle: "current", "unlinked", "closed"
    unlinked,   \* what an unlinked handle still reads
    temp,       \* the temporary file of the running save
    page,       \* the page cache
    known,      \* RemoteSource.stat.fingerprint
    statted,    \* what the stat inside reload returned
    edits,      \* the document's unsaved edits (is_dirty)
    phase,      \* where the running save is
    result,     \* what the last save reported
    made,       \* history: every edit the user made
    written,    \* history: every foreign change
    excused,    \* history: foreign changes no fingerprint check can see
    lost        \* history: foreign changes that a save overwrote

serverVars == <<file, clock>>
sourceVars == <<handle, unlinked, known, statted>>
vars == <<file, clock, handle, unlinked, temp, page, known, statted, edits,
          phase, result, made, written, excused, lost>>

Phases == {"idle", "writing", "written", "checked", "renamed", "completing",
           "reopening"}

Empty == [m \in Marks |-> 0]

Init ==
    /\ file = [content |-> Empty, fp |-> 0]
    /\ clock = 0
    /\ handle = "current"
    /\ unlinked = Empty
    /\ temp = NoContent
    /\ page = NoContent
    /\ known = 0
    /\ statted = 0
    /\ edits = {}
    /\ phase = "idle"
    /\ result = "none"
    /\ made = {}
    /\ written = {}
    /\ excused = {}
    /\ lost = {}

(***************************************************************************)
(* The document between saves                                              *)
(***************************************************************************)

Edit(e) ==
    /\ phase = "idle"
    /\ e \notin made
    /\ edits' = edits \cup {e}
    /\ made' = made \cup {e}
    /\ UNCHANGED <<serverVars, sourceVars, temp, page, phase, result, written,
                   excused, lost>>

\* The writer's walk over the document: the edits laid over what it reads.
Apply(es, base) ==
    [m \in Marks |-> IF m \notin es THEN base[m]
                     ELSE IF base[m] = 0 THEN 1 ELSE 2]

CanRead == ReadsByPath \/ handle # "closed"

ReadContent == IF handle = "unlinked" THEN unlinked ELSE file.content

\* What a read of the page returns: the cache comes first.
PageOrRead == IF page # NoContent THEN page ELSE ReadContent

ReadPage ==
    /\ phase = "idle"
    /\ CanRead
    /\ page' = PageOrRead
    /\ UNCHANGED <<serverVars, sourceVars, temp, edits, phase, result, made,
                   written, excused, lost>>

EvictPage ==
    /\ phase = "idle"
    /\ page' = NoContent
    /\ UNCHANGED <<serverVars, sourceVars, temp, edits, phase, result, made,
                   written, excused, lost>>

(***************************************************************************)
(* The server                                                              *)
(***************************************************************************)

\* The target gets content c.  Its fingerprint changes if fresh; it does not
\* when length and modification time come out the same.
StoreTarget(c, fresh) ==
    /\ fresh => clock < MaxClock
    /\ clock' = IF fresh THEN clock + 1 ELSE clock
    /\ file' = [content |-> c, fp |-> IF fresh THEN clock + 1 ELSE file.fp]

\* The path now names another file: an open handle keeps the old one.
UnlinkTarget ==
    IF handle = "current" /\ ~ReadsByPath
    THEN handle' = "unlinked" /\ unlinked' = file.content
    ELSE UNCHANGED <<handle, unlinked>>

\* Another program adds change m, in place or by replacing the file.  The
\* fingerprint does not protect a change that leaves it as it was, nor one
\* between the last check and the stat that adopts the new fingerprint.
ForeignWrite(m, inPlace, fresh) ==
    /\ m \notin written
    /\ StoreTarget([file.content EXCEPT ![m] = 1], fresh)
    /\ IF inPlace THEN UNCHANGED <<handle, unlinked>> ELSE UnlinkTarget
    /\ written' = written \cup {m}
    /\ excused' = IF ~fresh \/ phase \in {"checked", "renamed"}
                  THEN excused \cup {m} ELSE excused
    /\ UNCHANGED <<known, statted, temp, page, edits, phase, result, made, lost>>

(***************************************************************************)
(* The save                                                                *)
(***************************************************************************)

\* The save returns to the user with outcome r.  Dropping the writer removes
\* the temporary file unless the rename was confirmed.
Return(r) ==
    /\ phase' = "idle"
    /\ result' = r
    /\ temp' = NoContent

Fail(from) ==
    /\ phase = from
    /\ Return("failed")
    /\ UNCHANGED <<serverVars, sourceVars, page, edits, made, written, excused,
                   lost>>

Conflict(from) ==
    /\ phase = from
    /\ file.fp # known
    /\ Return("conflict")
    /\ UNCHANGED <<serverVars, sourceVars, page, edits, made, written, excused,
                   lost>>

\* begin_save: a new connection, stat, compare, create the temporary file.
BeginSave ==
    /\ phase = "idle"
    /\ file.fp = known
    /\ temp' = Empty
    /\ phase' = "writing"
    /\ UNCHANGED <<serverVars, sourceVars, page, edits, result, made, written,
                   excused, lost>>

\* write_pieces_to_writer streams the document into the temporary file.
WriteTemp ==
    /\ phase = "writing"
    /\ page # NoContent \/ CanRead
    /\ page' = PageOrRead
    /\ temp' = Apply(edits, PageOrRead)
    /\ phase' = "written"
    /\ UNCHANGED <<serverVars, sourceVars, edits, result, made, written,
                   excused, lost>>

\* Mutant: finish renames without looking at the target again.
FinishUnchecked ==
    /\ phase = "written"
    /\ phase' = "checked"
    /\ UNCHANGED <<serverVars, sourceVars, temp, page, edits, result, made,
                   written, excused, lost>>

\* finish compares the fingerprint once more.
CheckFingerprint ==
    /\ phase = "written"
    /\ file.fp = known
    /\ phase' = "checked"
    /\ UNCHANGED <<serverVars, sourceVars, temp, page, edits, result, made,
                   written, excused, lost>>

\* Mutant: the temporary file is removed before it is renamed.
ReplaceAfterCleanup(fresh) ==
    /\ StoreTarget(NoContent, fresh)
    /\ UnlinkTarget
    /\ UNCHANGED lost

\* The server renames the temporary file over the target.
ReplaceTarget(fresh) ==
    /\ StoreTarget(temp, fresh)
    /\ UnlinkTarget
    /\ lost' = lost \cup {m \in Foreign : file.content[m] > 0 /\ temp[m] = 0}

\* confirmed: the client learns that the rename happened.
Rename(fresh, confirmed) ==
    /\ phase = "checked"
    /\ ReplaceTarget(fresh)
    /\ IF confirmed
       THEN phase' = "renamed" /\ temp' = NoContent /\ UNCHANGED result
       ELSE Return("failed")
    /\ UNCHANGED <<known, statted, page, edits, made, written, excused>>

\* finish's last stat; complete_save adopts the fingerprint.
CompleteSave ==
    /\ phase = "renamed"
    /\ known' = file.fp
    /\ phase' = "completing"
    /\ UNCHANGED <<serverVars, handle, unlinked, statted, temp, page, edits,
                   result, made, written, excused, lost>>

\* Mutant: the pages of the file as it was survive the reload.
ReloadedKeepsPages(fp) ==
    /\ known' = fp
    /\ edits' = {}
    /\ Return("saved")
    /\ UNCHANGED page

\* Mutant: the edits stay in place over the file that already has them.
ReloadedKeepsEdits(fp) ==
    /\ known' = fp
    /\ page' = NoContent
    /\ Return("saved")
    /\ UNCHANGED edits

\* reload adopts fp, the cache is cleared and the edits are reset.
Reloaded(fp) ==
    /\ known' = fp
    /\ page' = NoContent
    /\ edits' = {}
    /\ Return("saved")

\* RusshSftpBackend::reload stats, then closes and reopens its handle;
\* FtpBackend::reload only stats.
ReloadStat ==
    /\ phase = "completing"
    /\ IF ReadsByPath
       THEN Reloaded(file.fp) /\ UNCHANGED <<handle, statted>>
       ELSE /\ statted' = file.fp
            /\ handle' = "closed"
            /\ phase' = "reopening"
            /\ UNCHANGED <<known, page, edits, result, temp>>
    /\ UNCHANGED <<serverVars, unlinked, made, written, excused, lost>>

ReloadOpen ==
    /\ phase = "reopening"
    /\ handle' = "current"
    /\ Reloaded(statted)
    /\ UNCHANGED <<serverVars, unlinked, statted, made, written, excused, lost>>

Next ==
    \/ \E e \in Edits : Edit(e)
    \/ ReadPage
    \/ EvictPage
    \/ \E m \in Foreign, inPlace \in BOOLEAN, fresh \in Fresh :
          ForeignWrite(m, inPlace, fresh)
    \/ \E from \in Phases : Fail(from)
    \/ \E from \in {"idle", "written"} : Conflict(from)
    \/ BeginSave
    \/ WriteTemp
    \/ CheckFingerprint
    \/ \E fresh \in Fresh, confirmed \in BOOLEAN : Rename(fresh, confirmed)
    \/ CompleteSave
    \/ ReloadStat
    \/ ReloadOpen

Spec == Init /\ [][Next]_vars

(***************************************************************************)
(* Properties                                                              *)
(***************************************************************************)

TypeOK ==
    /\ file \in [content : Contents, fp : Nat]
    /\ clock \in Nat
    /\ handle \in {"current", "unlinked", "closed"}
    /\ unlinked \in Contents
    /\ temp \in Contents \cup {NoContent}
    /\ page \in Contents \cup {NoContent}
    /\ known \in Nat
    /\ statted \in Nat
    /\ edits \subseteq Edits
    /\ phase \in Phases
    /\ result \in {"none", "failed", "conflict", "saved"}
    /\ made \subseteq Edits
    /\ written \subseteq Foreign
    /\ excused \subseteq Foreign
    /\ lost \subseteq Foreign

(***************************************************************************)
(* Whatever fails, and however often the user retries, every edit is still *)
(* pending or is in the file: the editor never forgets an edit on a save   *)
(* that did not store it, and no later save takes a stored edit away.      *)
(***************************************************************************)
EditsNeverLost == \A e \in made : e \in edits \/ file.content[e] > 0

(***************************************************************************)
(* A save overwrites no foreign change that gave the file another          *)
(* fingerprint, except one made between the last check and the stat after  *)
(* the rename.                                                             *)
(***************************************************************************)
NoSilentLoss == lost \subseteq excused

(***************************************************************************)
(* No edit is applied twice: what a save stores is the edited document,    *)
(* also when it retries a save that failed after its rename.               *)
(***************************************************************************)
AppliedOnce == \A e \in Edits : file.content[e] <= 1
=============================================================================
