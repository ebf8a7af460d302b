------------------------------ MODULE EventLoop ------------------------------
(***************************************************************************)
(* The run loop of app.rs and the work it shares its thread with: the      *)
(* Sagitta analysis that runs on a thread of its own and answers through a *)
(* channel, and the hash, statistics and diff scans, which the loop        *)
(* advances by one step per turn while it refuses every other input.       *)
(*                                                                         *)
(* A document is a sequence of cells; a cell keeps its identity through    *)
(* edits, and a tombstone is a cell that is no longer live.  What an edit  *)
(* writes into the undo history is the pair of documents around it: that   *)
(* undoing restores the first is EditSession's HistoryUnwinds.             *)
(***************************************************************************)
EXTENDS Integers, FiniteSets, SequencesExt

CONSTANTS
    Byte,          \* byte values
    Original,      \* bytes of the opened file
    Other,         \* bytes of the file on the other side of :diff
    Magic,         \* the first byte of an executable Sagitta supports
    HashStep,      \* HASH_PROGRESS_STEP_BYTES
    StatsLimit,    \* STATS_SYNC_LIMIT_BYTES
    StatsStep,     \* STATS_PROGRESS_STEP_BYTES
    StatsChunk,    \* STATS_LOGICAL_CHUNK_BYTES
    DiffStep,      \* DIFF_MISMATCH_STEP_BYTES
    MaxRevision,   \* bound: changes of the document
    MaxJobs,       \* bound: analyses started
    MaxScans,      \* bound: hash, statistics and diff commands
    MaxWork,       \* bound: all three together
    None

ASSUME StepAssumption ==
    /\ {HashStep, StatsStep, StatsChunk, DiffStep} \subseteq Nat \ {0}
    /\ StatsStep % StatsChunk = 0

ASSUME FileAssumption == Original \in Seq(Byte)

(* Documents, and the states of an analysis and of a mismatch scan. *)
Documents == Seq([id : Nat, byte : Byte \cup {0}, live : BOOLEAN])

AnalysisStates ==
    [status : {"running", "ready", "failed"},
     validity : {"current", "bytes", "layout"},
     revision : Nat, of : Documents \cup {None}]

DiffScans ==
    [kind : {"diff"}, dir : {"next", "prev"}, of : Documents, origin : Nat,
     lo : Nat, hi : Nat, wrapped : BOOLEAN, cursor : Nat]

(* Option::None is no value. *)
ASSUME NoneAssumption == None \notin Nat \cup AnalysisStates \cup DiffScans

VARIABLES
    pc,        \* where the loop is: "drain", "scan", "event" or "quit"
    doc,       \* the cells of the document
    fresh,     \* the next cell identity
    undo, redo,
    pending,   \* position of the byte an insert has typed half of, or 0
    revision,  \* document_revision
    jobId,     \* analysis_job_id
    analysis,  \* analysis_state
    workers,   \* analyses whose thread has not answered
    channel,   \* background_rx
    symbols,   \* what the Sagitta symbol panel lists, or None
    scan,      \* the pending hash, statistics or diff scan, or None
    panel,     \* stats_state: the statistics on display, or None
    report,    \* history: what a hash or diff has said this turn, of what
    scans      \* history: scans started

docVars == <<doc, fresh, undo, redo, pending, revision>>
jobVars == <<jobId, analysis, workers, channel, symbols>>
scanVars == <<scan, panel, report, scans>>
vars == <<pc, docVars, jobVars, scanVars>>

-----------------------------------------------------------------------------
(* Documents *)

Cell(id, b) == [id |-> id, byte |-> b, live |-> TRUE]

(* The positions of the live cells; of a set of positions, how many are up  *)
(* to i, and the k-th.                                                      *)
LiveAt(d) == {i \in DOMAIN d : d[i].live}
Rank(S, i) == Cardinality({j \in S : j <= i})
Nth(S, k) == CHOOSE i \in S : Rank(S, i) = k

Live(d) == [k \in 1 .. Cardinality(LiveAt(d)) |-> d[Nth(LiveAt(d), k)]]
BytesOf(d) == [i \in 1 .. Len(d) |-> d[i].byte]
IdsOf(d) == [i \in 1 .. Len(d) |-> d[i].id]

(* The live bytes of display offsets first .. last: what                   *)
(* walk_logical_chunks hands to its visitor over that range.               *)
LogicalBytes(d, first, last) == BytesOf(Live(SubSeq(d, first + 1, last + 1)))

(* The validity an edit leaves: OutdatedBytes over Current, and            *)
(* InvalidLayout for good.                                                 *)
Worse(old, new) ==
    IF "layout" \in {old, new} THEN "layout"
    ELSE IF new = "bytes" THEN "bytes" ELSE old

Marked(kind) ==
    IF analysis = None THEN None
    ELSE [analysis EXCEPT !.validity = Worse(@, kind)]

-----------------------------------------------------------------------------
Init ==
    /\ pc = "drain"
    /\ doc = [i \in 1 .. Len(Original) |-> Cell(i, Original[i])]
    /\ fresh = Len(Original) + 1
    /\ undo = << >> /\ redo = << >> /\ pending = 0 /\ revision = 0
    /\ jobId = 0 /\ analysis = None /\ workers = {} /\ channel = << >>
    /\ symbols = None
    /\ scan = None /\ panel = None /\ report = None /\ scans = 0

-----------------------------------------------------------------------------
(* The analysis thread *)

(* The thread sends its answer: recovered functions or, when Sagitta       *)
(* refuses the bytes or panics, an error.                                  *)
WorkerAnswers ==
    \E w \in workers, ok \in BOOLEAN :
        /\ workers' = workers \ {w}
        /\ channel' = Append(channel, [id |-> w.id, revision |-> w.revision,
                                       ok |-> ok, of |-> w.of])
        /\ UNCHANGED <<pc, docVars, jobId, analysis, symbols, scanVars>>

(* Mutant: the number of the job is not compared. *)
HandleResultAnyJob(r) ==
    /\ analysis' =
         [status |-> IF r.ok THEN "ready" ELSE "failed",
          validity |->
            IF ~r.ok \/ r.revision = revision THEN "current"
            ELSE IF analysis = None THEN "bytes" ELSE analysis.validity,
          revision |-> r.revision,
          of |-> IF r.ok THEN r.of ELSE None]
    /\ symbols' = IF r.ok THEN r.of ELSE symbols

(* A result of an older job is dropped.  One of the newest is Current only *)
(* when the document has not changed since; else it has the validity the   *)
(* edits in between have left.                                             *)
HandleResult(r) ==
    IF r.id # jobId THEN UNCHANGED <<analysis, symbols>>
    ELSE /\ analysis' =
              [status |-> IF r.ok THEN "ready" ELSE "failed",
               validity |->
                 IF ~r.ok \/ r.revision = revision THEN "current"
                 ELSE IF analysis = None THEN "bytes" ELSE analysis.validity,
               revision |-> r.revision,
               of |-> IF r.ok THEN r.of ELSE None]
         /\ symbols' = IF r.ok THEN r.of ELSE symbols

DrainOne ==
    /\ pc = "drain" /\ channel # << >>
    /\ HandleResult(Head(channel))
    /\ channel' = Tail(channel)
    /\ UNCHANGED <<pc, docVars, jobId, workers, scanVars>>

Drained ==
    /\ pc = "drain" /\ channel = << >>
    /\ pc' = "scan" /\ report' = None
    /\ UNCHANGED <<docVars, jobVars, scan, panel, scans>>

-----------------------------------------------------------------------------
(* Scans *)

Min2(a, b) == IF a < b THEN a ELSE b

HashReport(d, from, to, bytes) ==
    [kind |-> "hash", of |-> d, from |-> from, to |-> to, bytes |-> bytes]

(* Mutant: the next step starts on the last byte of this one. *)
ContinueHashOverlapping ==
    LET stepEnd == Min2(scan.cursor + HashStep - 1, scan.to)
        hashed == scan.bytes \o LogicalBytes(doc, scan.cursor, stepEnd)
    IN /\ scan.kind = "hash"
       /\ IF stepEnd >= scan.to
          THEN /\ scan' = None
               /\ report' = HashReport(scan.of, scan.from, scan.to, hashed)
          ELSE /\ scan' = [scan EXCEPT !.cursor = stepEnd, !.bytes = hashed]
               /\ UNCHANGED report
       /\ UNCHANGED panel

ContinueHash ==
    LET stepEnd == Min2(scan.cursor + HashStep - 1, scan.to)
        hashed == scan.bytes \o LogicalBytes(doc, scan.cursor, stepEnd)
    IN /\ scan.kind = "hash"
       /\ IF stepEnd >= scan.to
          THEN /\ scan' = None
               /\ report' = HashReport(scan.of, scan.from, scan.to, hashed)
          ELSE /\ scan' = [scan EXCEPT !.cursor = stepEnd + 1, !.bytes = hashed]
               /\ UNCHANGED report
       /\ UNCHANGED panel

(* One turn reads chunks until the step or the time budget is used up; at  *)
(* least one is read.                                                      *)
ContinueStats ==
    \E chunks \in 1 .. StatsStep \div StatsChunk :
        LET stop == Min2(scan.cursor + chunks * StatsChunk - 1, scan.to)
            counted == scan.bytes \o LogicalBytes(doc, scan.cursor, stop)
        IN /\ scan.kind = "stats"
           /\ IF stop >= scan.to
              THEN /\ scan' = None
                   /\ panel' = [from |-> scan.from, to |-> scan.to,
                                bytes |-> counted, revision |-> scan.revision]
              ELSE /\ scan' = [scan EXCEPT !.cursor = stop + 1, !.bytes = counted]
                   /\ UNCHANGED panel
           /\ UNCHANGED report

(* The byte at display offset p of the current side is not the one the     *)
(* other file has at the same logical offset.                              *)
Differs(d, p) ==
    LET logical == Len(Live(SubSeq(d, 1, p + 1)))
    IN d[p + 1].live /\ (logical > Len(Other) \/ Other[logical] # d[p + 1].byte)

(* find_mismatch_forward_step and find_mismatch_backward_step: the nearest *)
(* mismatch of the step, else where the next step starts, if there is one. *)
ForwardStep(s) ==
    LET stop == Min2(s.cursor + DiffStep - 1, s.hi)
        hits == {p \in s.cursor .. stop : Differs(doc, p)}
    IN [found |-> IF hits = {} THEN None ELSE Min(hits),
        next |-> IF hits = {} /\ stop < s.hi THEN stop + 1 ELSE None]

BackwardStep(s) ==
    LET start == Max({s.cursor - DiffStep + 1, s.lo})
        hits == {p \in start .. s.cursor : Differs(doc, p)}
    IN [found |-> IF hits = {} THEN None ELSE Max(hits),
        next |-> IF hits = {} /\ start > s.lo THEN start - 1 ELSE None]

(* DiffMismatchScan::new *)
NewDiffScan(dir, origin, len) ==
    LET last == len - 1
        range == CASE dir = "next" /\ origin + 1 <= last -> <<origin + 1, last, FALSE>>
                   [] dir = "next" /\ origin + 1 > last  -> <<0, last, TRUE>>
                   [] dir = "prev" /\ origin > 0         -> <<0, origin - 1, FALSE>>
                   [] OTHER                              -> <<0, 0, FALSE>>
    IN [kind |-> "diff", dir |-> dir, of |-> doc, origin |-> origin,
        lo |-> range[1], hi |-> range[2], wrapped |-> range[3],
        cursor |-> IF dir = "next" THEN range[1] ELSE range[2]]

(* Mutant: a scan that has wrapped wraps again. *)
WrappedAgain(s, len) ==
    LET origin == Min2(s.origin, len - 1)
    IN IF s.dir = "next"
       THEN [s EXCEPT !.wrapped = TRUE, !.lo = 0, !.hi = origin, !.cursor = 0]
       ELSE [s EXCEPT !.wrapped = TRUE, !.lo = origin, !.hi = len - 1,
                      !.cursor = len - 1]

(* Mutant: the wrapped part goes the wrong way around the origin. *)
WrappedBehind(s, len) ==
    LET origin == Min2(s.origin, len - 1)
    IN IF s.wrapped THEN None
       ELSE IF s.dir = "next"
       THEN [s EXCEPT !.wrapped = TRUE, !.lo = 0, !.hi = origin, !.cursor = 0]
       ELSE [s EXCEPT !.wrapped = TRUE, !.lo = 0, !.hi = origin,
                      !.cursor = origin]

(* advance_to_wrap *)
Wrapped(s, len) ==
    LET origin == Min2(s.origin, len - 1)
    IN IF s.wrapped THEN None
       ELSE IF s.dir = "next"
       THEN [s EXCEPT !.wrapped = TRUE, !.lo = 0, !.hi = origin, !.cursor = 0]
       ELSE [s EXCEPT !.wrapped = TRUE, !.lo = origin, !.hi = len - 1,
                      !.cursor = len - 1]

DiffReport(s, found) ==
    [kind |-> "diff", of |-> s.of, dir |-> s.dir, origin |-> s.origin,
     found |-> found]

(* continue_diff_mismatch_scan on the scan s *)
AdvanceDiff(s) ==
    LET step == IF s.dir = "next" THEN ForwardStep(s) ELSE BackwardStep(s)
        next == IF step.next # None THEN [s EXCEPT !.cursor = step.next]
                ELSE Wrapped(s, Len(doc))
    IN IF step.found = None /\ next # None
       THEN scan' = next /\ UNCHANGED report
       ELSE scan' = None /\ report' = DiffReport(s, step.found)

ContinueDiff ==
    /\ scan.kind = "diff"
    /\ AdvanceDiff(scan)
    /\ UNCHANGED panel

(* One turn of the loop advances the pending scan by one step; a scan that *)
(* cannot read the file is cancelled.                                      *)
ScanTurn ==
    /\ pc = "scan"
    /\ pc' = "event"
    /\ \/ scan = None /\ UNCHANGED <<scan, panel, report>>
       \/ scan # None /\ (ContinueHash \/ ContinueStats \/ ContinueDiff)
       \/ scan # None /\ scan' = None /\ UNCHANGED <<panel, report>>
    /\ UNCHANGED <<docVars, jobVars, scans>>

-----------------------------------------------------------------------------
(* Events.  Each ends the turn; the loop drains the channel next. *)

(* Mutant: the channel is drained only when an event was handled. *)
NoEventNoDrain ==
    /\ pc = "event" /\ pc' = "scan"
    /\ UNCHANGED <<docVars, jobVars, scanVars>>

NoEvent ==
    /\ pc = "event" /\ pc' = "drain"
    /\ UNCHANGED <<docVars, jobVars, scanVars>>

(* While a scan is pending Esc cancels it and any other key or mouse event *)
(* only shows its progress.                                                *)
EscCancelsScan ==
    /\ pc = "event" /\ pc' = "drain"
    /\ scan # None /\ scan' = None
    /\ UNCHANGED <<docVars, jobVars, panel, report, scans>>

Accepts == pc = "event" /\ scan = None

(* A command is typed in command mode, and entering that commits a         *)
(* half-typed byte first.                                                  *)
AcceptsCommand == Accepts /\ pending = 0

HasWork == revision + jobId + scans < MaxWork
CanChange == revision < MaxRevision /\ HasWork

(* push_undo_step and the callers' change of the document from before *)
Edit(kind, before, d) ==
    /\ pc' = "drain"
    /\ CanChange
    /\ revision' = revision + 1
    /\ undo' = Append(undo, [kind |-> kind, before |-> before, after |-> d])
    /\ redo' = << >>
    /\ doc' = d
    /\ analysis' = Marked(kind)
    /\ UNCHANGED <<jobId, workers, channel, symbols, scanVars>>

Overwrite ==
    /\ AcceptsCommand
    /\ \E p \in 1 .. Len(doc) : \E b \in Byte \ {doc[p].byte} :
        doc[p].live /\ Edit("bytes", doc, [doc EXCEPT ![p].byte = b])
    /\ UNCHANGED <<fresh, pending>>

TombstoneDelete ==
    /\ AcceptsCommand
    /\ \E p \in 1 .. Len(doc) :
        doc[p].live /\ Edit("layout", doc, [doc EXCEPT ![p].live = FALSE])
    /\ UNCHANGED <<fresh, pending>>

RealDelete ==
    /\ AcceptsCommand
    /\ \E p \in 1 .. Len(doc) : Edit("layout", doc, RemoveAt(doc, p))
    /\ UNCHANGED <<fresh, pending>>

(* The first key of an insert changes the document but leaves no step ... *)
InsertHigh ==
    /\ AcceptsCommand /\ pc' = "drain"
    /\ CanChange /\ revision' = revision + 1
    /\ \E p \in 1 .. Len(doc) + 1 :
        pending' = p /\ doc' = InsertAt(doc, p, Cell(fresh, 0))
    /\ fresh' = fresh + 1
    /\ redo' = << >>
    /\ analysis' = Marked("layout")
    /\ UNCHANGED <<undo, jobId, workers, channel, symbols, scanVars>>

(* ... the second, or any key that leaves the byte as it is, does. *)
CommitInsert ==
    /\ Accepts /\ pending # 0
    /\ \E b \in Byte :
        Edit("layout", RemoveAt(doc, pending), [doc EXCEPT ![pending].byte = b])
    /\ pending' = 0
    /\ UNCHANGED fresh

(* Backspace or undo takes a half-typed byte back. *)
DropInsert ==
    /\ Accepts /\ pending # 0 /\ pc' = "drain"
    /\ CanChange /\ revision' = revision + 1
    /\ doc' = RemoveAt(doc, pending)
    /\ pending' = 0
    /\ analysis' = Marked("layout")
    /\ UNCHANGED <<fresh, undo, redo, jobId, workers, channel, symbols, scanVars>>

(* undo and redo: the step moves to the other stack and marks the analysis *)
(* as the edit did.                                                        *)
Undo ==
    /\ AcceptsCommand /\ pc' = "drain"
    /\ undo # << >> /\ CanChange
    /\ LET step == Last(undo)
       IN /\ doc' = step.before
          /\ analysis' = Marked(step.kind)
          /\ redo' = Append(redo, step)
    /\ undo' = Front(undo)
    /\ revision' = revision + 1
    /\ UNCHANGED <<fresh, pending, jobId, workers, channel, symbols, scanVars>>

Redo ==
    /\ AcceptsCommand /\ pc' = "drain"
    /\ redo # << >> /\ CanChange
    /\ LET step == Last(redo)
       IN /\ doc' = step.after
          /\ analysis' = Marked(step.kind)
          /\ undo' = Append(undo, step)
    /\ redo' = Front(redo)
    /\ revision' = revision + 1
    /\ UNCHANGED <<fresh, pending, jobId, workers, channel, symbols, scanVars>>

(* :w drops the tombstones and forgets the history; the logical bytes stay, *)
(* so the analysis is not marked.                                           *)
Write ==
    /\ AcceptsCommand /\ pc' = "drain"
    /\ CanChange /\ revision' = revision + 1
    /\ doc' = Live(doc)
    /\ undo' = << >> /\ redo' = << >>
    /\ UNCHANGED <<fresh, pending, jobVars, scanVars>>

(* :ana while one runs is ignored, and so are bytes Sagitta does not       *)
(* support; else the logical bytes go to a new thread.                     *)
Analyze ==
    /\ AcceptsCommand /\ pc' = "drain"
    /\ jobId < MaxJobs /\ HasWork
    /\ analysis # None => analysis.status # "running"
    /\ Live(doc) # << >> /\ Live(doc)[1].byte = Magic
    /\ jobId' = jobId + 1
    /\ analysis' = [status |-> "running", validity |-> "current",
                    revision |-> revision, of |-> None]
    /\ workers' = workers \cup {[id |-> jobId', revision |-> revision,
                                 of |-> Live(doc)]}
    /\ UNCHANGED <<docVars, channel, symbols, scanVars>>

(* :ana off disowns a running job by taking its number away. *)
AnalyzeOff ==
    /\ AcceptsCommand /\ pc' = "drain"
    /\ jobId < MaxJobs /\ HasWork
    /\ jobId' = jobId + 1
    /\ analysis' = None /\ symbols' = None
    /\ UNCHANGED <<docVars, workers, channel, scanVars>>

(* A range of display offsets: the selection, or the whole document. *)
Ranges == {r \in (0 .. Len(doc) - 1) \X (0 .. Len(doc) - 1) : r[1] <= r[2]}

StartsScan ==
    /\ AcceptsCommand /\ pc' = "drain"
    /\ scans < MaxScans /\ HasWork /\ scans' = scans + 1
    /\ UNCHANGED <<docVars, jobVars>>

(* :hash hashes a short range at once and starts a scan of a longer one. *)
Hash ==
    /\ StartsScan
    /\ \E r \in Ranges :
        IF r[2] - r[1] + 1 > HashStep
        THEN /\ scan' = [kind |-> "hash", of |-> doc, from |-> r[1], to |-> r[2],
                         cursor |-> r[1], bytes |-> << >>]
             /\ UNCHANGED report
        ELSE /\ report' = HashReport(doc, r[1], r[2], LogicalBytes(doc, r[1], r[2]))
             /\ UNCHANGED scan
    /\ UNCHANGED panel

(* open_stats_range: the panel is emptied, then filled at once or by a     *)
(* scan.                                                                   *)
OpenStats(from, to) ==
    IF to - from + 1 > StatsLimit
    THEN /\ scan' = [kind |-> "stats", from |-> from, to |-> to, cursor |-> from,
                     bytes |-> << >>, revision |-> revision]
         /\ panel' = None
    ELSE /\ panel' = [from |-> from, to |-> to, revision |-> revision,
                      bytes |-> LogicalBytes(doc, from, to)]
         /\ UNCHANGED scan

Stats ==
    /\ StartsScan
    /\ IF doc = << >> THEN panel' = None /\ UNCHANGED scan
       ELSE \E r \in Ranges : OpenStats(r[1], r[2])
    /\ UNCHANGED report

(* :stats refresh counts the range of the panel again, cut to the document *)
(* as it is now.                                                           *)
RefreshStats ==
    /\ StartsScan
    /\ panel # None
    /\ IF doc = << >> THEN panel' = None /\ UNCHANGED scan
       ELSE OpenStats(Min2(panel.from, Len(doc) - 1), Min2(panel.to, Len(doc) - 1))
    /\ UNCHANGED report

(* :diff next and :diff prev from the cursor; the first step is made at    *)
(* once.  The cursor may be on the slot after the last byte.               *)
JumpToMismatch ==
    /\ StartsScan
    /\ doc # << >>
    /\ \E dir \in {"next", "prev"}, origin \in 0 .. Len(doc) :
        AdvanceDiff(NewDiffScan(dir, origin, Len(doc)))
    /\ UNCHANGED panel

Quit ==
    /\ AcceptsCommand /\ pc' = "quit"
    /\ UNCHANGED <<docVars, jobVars, scanVars>>

Event ==
    \/ NoEvent \/ EscCancelsScan
    \/ Overwrite \/ TombstoneDelete \/ RealDelete
    \/ InsertHigh \/ CommitInsert \/ DropInsert
    \/ Undo \/ Redo \/ Write
    \/ Analyze \/ AnalyzeOff
    \/ Hash \/ Stats \/ RefreshStats \/ JumpToMismatch
    \/ Quit

Loop == DrainOne \/ Drained \/ ScanTurn \/ Event

(* run_loop returns. *)
Stopped == pc = "quit" /\ UNCHANGED vars

Next == Loop \/ WorkerAnswers \/ Stopped

(* The loop's thread keeps running until it quits (its body never blocks   *)
(* for longer than the poll timeout), and Sagitta's analysis ends.         *)
Fairness == WF_vars(Loop) /\ WF_vars(WorkerAnswers)

Spec == Init /\ [][Next]_vars /\ Fairness

-----------------------------------------------------------------------------
(* Properties *)

(* A snapshot that is shown as current was computed from the bytes the     *)
(* document has now, and one whose offsets are still used from a document  *)
(* with the same cells in the same places: whatever edits, undos, saves,   *)
(* restarts and late answers came in between (analysis_state.rs:398).  The *)
(* symbol panel lists that snapshot's functions.                           *)
AnalysisHonest ==
    analysis # None =>
        /\ analysis.status = "failed" => analysis.of = None
        /\ analysis.status = "ready" =>
                /\ analysis.validity = "current" => analysis.of = Live(doc)
                /\ analysis.validity # "layout" => IdsOf(analysis.of) = IdsOf(Live(doc))
                /\ symbols = analysis.of

(* A scan that is cut into steps, with events between them, reports what    *)
(* one pass would: the digest of a range covers each of its logical bytes  *)
(* once and in order (hash_state.rs:125), and statistics without the stale *)
(* marker count exactly the bytes their range has in the document now.     *)
ScansExact ==
    /\ report # None /\ report.kind = "hash" =>
           report.bytes = LogicalBytes(report.of, report.from, report.to)
    /\ panel # None /\ panel.revision = revision =>
           panel.bytes = LogicalBytes(doc, panel.from, panel.to)

(* The offsets in the order a jump from the origin should visit them: all  *)
(* of them once, starting behind (before) the origin and wrapping.  A      *)
(* backward jump from the first byte looks at that byte first.             *)
VisitOrder(dir, origin, len) ==
    [i \in 1 .. len |->
        CASE dir = "next"                -> (Min2(origin, len - 1) + i) % len
          [] dir = "prev" /\ origin = 0 -> (len + 1 - i) % len
          [] dir = "prev" /\ origin > 0 -> (origin + len - i) % len]

FirstMismatch(of, dir, origin) ==
    LET order == VisitOrder(dir, origin, Len(of))
        hits == {i \in DOMAIN order : Differs(of, order[i])}
    IN IF hits = {} THEN None ELSE order[Min(hits)]

(* A jump reports the first mismatch in that order, or none only when the  *)
(* two sides agree, whatever steps the scan was cut into                   *)
(* (diff_state.rs:41, diff_state.rs:68).                                   *)
NearestMismatch ==
    report # None /\ report.kind = "diff" =>
        report.found = FirstMismatch(report.of, report.dir, report.origin)

(* Every analysis that was started comes to an end the user can see:       *)
(* ready, failed or turned off.                                            *)
AnalysisEnds ==
    (analysis # None /\ analysis.status = "running")
        ~> (analysis = None \/ analysis.status # "running" \/ pc = "quit")

(* Every scan ends, so input is never refused for good. *)
ScanEnds == scan # None ~> scan = None

=============================================================================
