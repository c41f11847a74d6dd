-------------------------------- MODULE Review --------------------------------
(***************************************************************************)
(* Reviewing the result of one job: the results page, the two handlers     *)
(* that waive violations and recompute the score (UpdateViolation,         *)
(* BulkIgnoreLayerViolations), and the runs of ProcessJob that may still   *)
(* be writing the same rows.                                               *)
(*                                                                         *)
(* A violation is a pair <<run, defect>>: every run inserts fresh rows for *)
(* the defects of the board.  A score is the set of the violations it was  *)
(* computed from.  A visit is one mounting of the results page;  *)
(* the score it shows is that of the row or of its last answer, and is left *)
(* out.                                                                    *)
(*                                                                         *)
(* Faults: "save" ends a run, "s3" loses its violations.json, "api" ends a *)
(* handler before its reply, "lost" loses a reply; "read" and "score" are  *)
(* the unchecked errors of a handler's Find and of its update of the score. *)
(***************************************************************************)
EXTENDS Naturals, FiniteSets

CONSTANTS
    MaxRuns,     \* bound: runs of ProcessJob for the job
    Defects,     \* what the rules find on the board
    Errors,      \* the defects of severity ERROR
    LayerOf,     \* the layer of a defect
    Visits,      \* bound: openings of the results page
    NoVisit,
    MaxActors,   \* bound: runs and visits together
    MaxCalls,    \* bound: clicks on ignore or restore
    FaultKinds,  \* the faults this instance admits
    MaxFaults    \* bound: faults, each of another kind

ASSUME ReviewAssumption ==
    /\ MaxRuns \in Nat
    /\ MaxActors \in Nat
    /\ MaxCalls \in Nat
    /\ MaxFaults \in Nat
    /\ Errors \subseteq Defects
    /\ NoVisit \notin Visits
    /\ DOMAIN LayerOf = Defects

VARIABLES
    row,      \* the AnalysisJob row; key: ViolationsKey is set
    rows,     \* Violation rows
    waived,   \* those with ignored = true
    blob,     \* the violations in violations.json
    run,      \* the runs: next step and private copy of the job row
    page,     \* the visits
    call,     \* the PATCH requests
    faults,   \* the kinds of fault that occurred
    asked,    \* history: violations somebody asked to waive
    trusted,  \* history: trusted[p], violations of p nothing else interfered with
    orderly   \* history: one run, and never two calls at a time

reviewVars == <<row, rows, waived, blob, run, page, call, faults,
                asked, trusted, orderly>>
serverVars == <<row, rows, waived, blob>>
history == <<asked, trusted, orderly>>

Runs == 1 .. MaxRuns
Calls == 1 .. MaxCalls
Violations == Runs \X Defects
Found(r) == {r} \X Defects

Status == {"PENDING", "PROCESSING", "DONE", "FAILED"}
Row == [status : Status, score : SUBSET Violations, key : BOOLEAN]

RunState == [pc : {"fetch", "claim", "meta", "insert", "blob", "final", "end"},
             copy : Row]
PageState == [pc : {"closed", "opening", "open"}, url : BOOLEAN,
              list : SUBSET Violations, waived : SUBSET Violations]
CallState == [pc : {"unused", "update", "read", "write", "reply", "refused", "end"},
              waiting : BOOLEAN, page : Visits \cup {NoVisit}, flag : BOOLEAN,
              sel : SUBSET Violations, previous : SUBSET Violations,
              active : SUBSET Violations]

ReviewTypeOK ==
    /\ row \in Row
    /\ rows \subseteq Violations
    /\ waived \subseteq rows
    /\ blob \subseteq Violations
    /\ run \in [Runs -> RunState]
    /\ page \in [Visits -> PageState]
    /\ call \in [Calls -> CallState]
    /\ faults \subseteq FaultKinds
    /\ asked \subseteq Violations
    /\ trusted \in [Visits -> SUBSET Violations]
    /\ orderly \in BOOLEAN

NewRow == [status |-> "PENDING", score |-> {}, key |-> FALSE]

Unused == [pc |-> "unused", waiting |-> FALSE, page |-> NoVisit, flag |-> FALSE,
           sel |-> {}, previous |-> {}, active |-> {}]

ReviewInit ==
    /\ row = NewRow
    /\ rows = {} /\ waived = {} /\ blob = {}
    /\ run = [r \in Runs |-> [pc |-> "fetch", copy |-> NewRow]]
    /\ page = [p \in Visits |-> [pc |-> "closed", url |-> FALSE, list |-> {},
                                 waived |-> {}]]
    /\ call = [c \in Calls |-> Unused]
    /\ faults = {}
    /\ asked = {}
    /\ trusted = [p \in Visits |-> {}]
    /\ orderly = TRUE

Fault(kind) ==
    /\ kind \in FaultKinds \ faults
    /\ Cardinality(faults) < MaxFaults
    /\ faults' = faults \cup {kind}

NoFault == UNCHANGED faults

-----------------------------------------------------------------------------
(* ProcessJob, as far as the page and the waivers see it (module Worker has  *)
(* the rest).  A crash is a run that takes no further step.                  *)

RunTo(r, from, to, copy) ==
    /\ run[r].pc = from
    /\ run' = [run EXCEPT ![r] = [pc |-> to, copy |-> copy]]

OneMoreActor ==
    Cardinality({r \in Runs : run[r].pc # "fetch"})
        + Cardinality({p \in Visits : page[p].pc # "closed"}) < MaxActors

(* Another delivery of the message may start a run at any time. *)
FetchJob(r) ==
    /\ OneMoreActor
    /\ r > 1 => run[r - 1].pc # "fetch"
    /\ RunTo(r, "fetch", "claim", row)
    /\ orderly' = (orderly /\ r = 1)
    /\ UNCHANGED <<serverVars, page, call, faults, asked, trusted>>

ClaimJob(r) ==
    LET claimed == [run[r].copy EXCEPT !.status = "PROCESSING"] IN
    /\ RunTo(r, "claim", "meta", claimed)
    /\ row' = claimed
    /\ UNCHANGED <<rows, waived, blob, page, call, faults, history>>

(* Save the keys of the board; the score of this run goes into the copy. *)
ScoreKept(r) ==                                                     \* mutant
    /\ RunTo(r, "meta", "insert", run[r].copy)
    /\ row' = run[r].copy
    /\ UNCHANGED <<rows, waived, blob, page, call, faults, history>>
ScoreBoard(r) ==
    /\ RunTo(r, "meta", "insert", [run[r].copy EXCEPT !.score = Found(r)])
    /\ row' = run[r].copy
    /\ UNCHANGED <<rows, waived, blob, page, call, faults, history>>

InsertRows(r) ==
    /\ RunTo(r, "insert", "blob", run[r].copy)
    /\ rows' = rows \cup Found(r)
    /\ UNCHANGED <<row, waived, blob, page, call, faults, history>>

StoreBlob(r) ==
    /\ \/ /\ RunTo(r, "blob", "final", [run[r].copy EXCEPT !.key = TRUE])
          /\ blob' = Found(r)
          /\ NoFault
       \/ /\ RunTo(r, "blob", "final", run[r].copy)
          /\ Fault("s3")
          /\ UNCHANGED blob
    /\ UNCHANGED <<row, rows, waived, page, call, history>>

FinalizeJob(r) ==
    LET done == [run[r].copy EXCEPT !.status = "DONE"] IN
    /\ RunTo(r, "final", "end", NewRow)
    /\ row' = done
    /\ UNCHANGED <<rows, waived, blob, page, call, faults, history>>

(* An error of ProcessJob; markJobFailed updates the status only. *)
FailJob(r) ==
    /\ run[r].pc \in {"claim", "meta", "insert", "final"}
    /\ RunTo(r, run[r].pc, "end", NewRow)
    /\ row' = [row EXCEPT !.status = "FAILED"]
    /\ Fault("save")
    /\ UNCHANGED <<rows, waived, blob, page, call, history>>

RunStep(r) ==
    \/ FetchJob(r) \/ ClaimJob(r) \/ ScoreBoard(r) \/ InsertRows(r)
    \/ StoreBlob(r) \/ FinalizeJob(r) \/ FailJob(r)

-----------------------------------------------------------------------------
(* The results page: load, loadResults, handleIgnore, handleIgnoreLayer.     *)

(* GetJob inlines the URL of violations.json; GetViolations answers with it, or,
   for a job without one, with the table. *)
UrlInlined == row.status = "DONE" /\ row.key
FromS3(p) == page[p].url \/ row.key

(* GetJob answers DONE, at once or to the poll. *)
OpenJob(p) ==
    /\ OneMoreActor
    /\ page[p].pc = "closed"
    /\ row.status = "DONE"
    /\ page' = [page EXCEPT ![p].pc = "opening", ![p].url = UrlInlined]
    /\ UNCHANGED <<serverVars, run, call, faults, history>>

Outstanding(c) == call[c].waiting \/ call[c].pc \in {"update", "read", "write"}
InUse == {v \in Violations : \E c \in Calls : Outstanding(c) /\ v \in call[c].sel}

(* The object in S3 holds the violations as the run made them: none waived. *)
OpenList(p) ==
    LET list == IF FromS3(p) THEN blob ELSE rows
        ign  == IF FromS3(p) THEN {} ELSE waived
    IN  /\ page[p].pc = "opening"
        /\ page' = [page EXCEPT ![p] = [pc |-> "open", url |-> FALSE, list |-> list,
                                            waived |-> ign]]
        /\ trusted' = [trusted EXCEPT ![p] =
                         {v \in list : v \in ign <=> v \in waived} \ InUse]
        /\ UNCHANGED <<serverVars, run, call, faults, asked, orderly>>

(* The optimistic change of the page, and the request that goes with it. *)
Click(p, c, sel, flag) ==
    /\ page[p].pc = "open"
    /\ call[c].pc = "unused"
    /\ c > 1 => call[c - 1].pc # "unused"
    /\ page' = [page EXCEPT ![p].waived =
                  IF flag THEN @ \cup (sel \cap page[p].list) ELSE @ \ sel]
    /\ call' = [call EXCEPT ![c] =
                  [pc |-> "update", waiting |-> TRUE, page |-> p, flag |-> flag,
                   sel |-> sel, previous |-> sel \cap page[p].waived, active |-> {}]]
    /\ asked' = IF flag THEN asked \cup sel ELSE asked
    /\ trusted' = [q \in Visits |-> IF q = p THEN trusted[q] \ (sel \cap InUse)
                                             ELSE trusted[q] \ sel]
    /\ orderly' = (orderly /\ \A d \in Calls : ~ Outstanding(d))
    /\ UNCHANGED <<serverVars, run, faults>>

(* The ignore or restore button of a violation. *)
ClickOne(p, c) ==
    \E v \in page[p].list : Click(p, c, {v}, v \notin page[p].waived)

(* The menu of a layer, shown while one of its violations is not waived.  The
   handler selects by layer and, for Ignore errors or warnings, severity. *)
OnLayer(l) == {v \in Violations : LayerOf[v[2]] = l}

ClickLayer(p, c) ==
    \E v \in page[p].list \ page[p].waived :
        LET all == OnLayer(LayerOf[v[2]])
            err == {u \in all : u[2] \in Errors}
        IN  \/ \E flag \in BOOLEAN : Click(p, c, all, flag)
            \/ \E sel \in {err, all \ err} : Click(p, c, sel, TRUE)

Answered(c) == call' = [call EXCEPT ![c] = [Unused EXCEPT !.pc = "end"]]

Reply(c) ==
    /\ call[c].pc = "reply"
    /\ call[c].waiting
    /\ Answered(c)
    /\ UNCHANGED <<serverVars, run, page, faults, history>>

FlipBack(c) ==                                                      \* mutant
    [page EXCEPT ![call[c].page].waived =
       IF call[c].flag THEN @ \ call[c].sel
                       ELSE @ \cup (call[c].sel \cap page[call[c].page].list)]
RestorePrevious(c) ==
    [page EXCEPT ![call[c].page].waived = (@ \ call[c].sel) \cup call[c].previous]

(* The call failed, or its answer is lost while the handler goes on: the page
   restores the flags it had before. *)
Revert(c) ==
    /\ call[c].waiting
    /\ page' = RestorePrevious(c)
    /\ \/ /\ call[c].pc = "refused"
          /\ Answered(c)
          /\ NoFault
          /\ UNCHANGED trusted
       \/ /\ Fault("lost")
          /\ call' = [call EXCEPT ![c].waiting = FALSE]
          /\ trusted' = [q \in Visits |-> trusted[q] \ call[c].sel]
    /\ UNCHANGED <<serverVars, run, asked, orderly>>

-----------------------------------------------------------------------------
(* UpdateViolation and BulkIgnoreLayerViolations.                            *)

CallTo(c, from, to) ==
    /\ call[c].pc = from
    /\ call' = [call EXCEPT ![c].pc = to]

ScoreBeforeUpdate(c) ==                                             \* mutant
    /\ call[c].pc = "update"
    /\ call' = [call EXCEPT ![c].pc = "write", ![c].active = rows \ waived]
    /\ waived' = IF call[c].flag THEN waived \cup (rows \cap call[c].sel)
                                 ELSE waived \ call[c].sel
    /\ UNCHANGED <<row, rows, blob, run, page, faults, history>>
AnySeverity(c) ==                                                   \* mutant
    /\ CallTo(c, "update", "read")
    /\ waived' = LET all == UNION {OnLayer(LayerOf[v[2]]) : v \in call[c].sel}
                 IN  IF call[c].flag THEN waived \cup (rows \cap all) ELSE waived \ all
    /\ UNCHANGED <<row, rows, blob, run, page, faults, history>>
UpdateIgnored(c) ==
    /\ CallTo(c, "update", "read")
    /\ waived' = IF call[c].flag THEN waived \cup (rows \cap call[c].sel)
                                 ELSE waived \ call[c].sel
    /\ UNCHANGED <<row, rows, blob, run, page, faults, history>>

(* The error of this Find is not looked at: no violations, a perfect score. *)
ReadActive(c) ==
    /\ call[c].pc = "read"
    /\ \/ /\ call' = [call EXCEPT ![c].pc = "write", ![c].active = rows \ waived]
          /\ NoFault
       \/ /\ call' = [call EXCEPT ![c].pc = "write", ![c].active = {}]
          /\ Fault("read")
    /\ UNCHANGED <<serverVars, run, page, history>>

(* Nor are the errors of First and of Updates: the row keeps its score and the
   answer is that of a success. *)
WriteScore(c) ==
    /\ CallTo(c, "write", "reply")
    /\ \/ row' = [row EXCEPT !.score = call[c].active] /\ NoFault
       \/ Fault("score") /\ UNCHANGED row
    /\ UNCHANGED <<rows, waived, blob, run, page, history>>

(* An error before the update, or the end of the process at any point. *)
RefuseCall(c) ==
    /\ call[c].pc \in {"update", "read", "write"}
    /\ CallTo(c, call[c].pc, "refused")
    /\ Fault("api")
    /\ trusted' = IF call[c].pc = "update" THEN trusted
                  ELSE [q \in Visits |-> trusted[q] \ call[c].sel]
    /\ UNCHANGED <<serverVars, run, page, asked, orderly>>

-----------------------------------------------------------------------------
VisitStep(p) ==
    \/ OpenJob(p)
    \/ OpenList(p)
    \/ \E c \in Calls : ClickOne(p, c) \/ ClickLayer(p, c)

CallStep(c) ==
    \/ UpdateIgnored(c) \/ ReadActive(c) \/ WriteScore(c)
    \/ RefuseCall(c) \/ Reply(c) \/ Revert(c)

ReviewNext ==
    \/ \E r \in Runs : RunStep(r)
    \/ \E p \in Visits : VisitStep(p)
    \/ \E c \in Calls : CallStep(c)

ReviewSpec == ReviewInit /\ [][ReviewNext]_reviewVars

-----------------------------------------------------------------------------
(* A defect that nobody ever asked to waive counts in the score of a finished
   analysis, however waivers, restores and late runs interleave, as long as no
   Find of a handler fails unnoticed (jobs.go:133-149 against Save in
   ProcessJob). *)
Untouched == {d \in Defects : \A r \in Runs : <<r, d>> \notin asked}
Counts(score, d) == \E r \in Runs : <<r, d>> \in score

UnwaivedCounts ==
    row.status = "DONE" /\ "read" \notin faults =>
        \A d \in Untouched : Counts(row.score, d)

(* Why UnwaivedCounts holds: rows come before DONE, before any page and before
   any call; whatever a handler is about to write was read after them, and a
   row is waived only when that was asked for. *)
Covers(score) == \A d \in Untouched : Counts(score, d)
Inserted == \E r \in Runs : Found(r) \subseteq rows

RunsSound ==
    \A r \in Runs :
        /\ run[r].pc \in {"meta", "insert", "blob", "final"}
              => run[r].copy.status = "PROCESSING"
        /\ run[r].pc \in {"insert", "blob", "final"} => run[r].copy.score = Found(r)
        /\ run[r].pc \in {"blob", "final"} => Found(r) \subseteq rows

WaiversAsked ==
    /\ waived \subseteq asked
    /\ \A c \in Calls : call[c].flag => call[c].sel \subseteq asked

RowsFirst ==
    /\ row.status = "DONE" => Inserted
    /\ \A p \in Visits : page[p].pc # "closed" => Inserted
    /\ \A c \in Calls : call[c].waiting \/ call[c].pc # "unused" => Inserted

ScoresCover ==
    "read" \notin faults =>
        /\ row.status = "DONE" => Covers(row.score)
        /\ \A c \in Calls : call[c].pc = "write" => Covers(call[c].active)

CoverInv ==
    ReviewTypeOK /\ RunsSound /\ WaiversAsked /\ RowsFirst /\ ScoresCover

(* The faults that leave a score that was not computed from the table. *)
ScoreFaults == {"read", "score", "api"}

(* With one run and one call at a time the score of the row is computed from
   exactly the violations that are not waived, once the last call is over and
   whatever else failed (jobs.go:133 "Recompute score from remaining non-ignored
   violations").  After an unchecked error of a handler (jobs.go:135, 139, 149, 204)
   it need not be, though the page was told of a success. *)
ScoreExact ==
    row.status = "DONE" /\ orderly /\ faults \cap ScoreFaults = {}
        /\ (\A c \in Calls : ~ Outstanding(c))
    => row.score = rows \ waived

(* When no call is under way, the page shows a violation as waived exactly
   when the table has it so, refused calls and mixed selections included
   (page.tsx:65-91, the snapshot of the flags), for the violations it loaded
   right and on which no other call interfered and no answer was lost. *)
PageSettles ==
    \A p \in Visits : \A v \in trusted[p] \ InUse :
        v \in page[p].waived <=> v \in waived

(* Why ScoreExact holds.  As long as there is one run and one call at a time, the
   run is over before anything is shown, clicked or waived, and rows are its own;
   what a handler has read is not out of date when it writes. *)
Reviewed ==
    \/ row.status = "DONE"
    \/ \E p \in Visits : page[p].pc # "closed"
    \/ \E c \in Calls : call[c].pc # "unused"

OneRun ==
    /\ \A r \in Runs \ {1} : run[r].pc = "fetch"
    /\ \A r \in Runs : r = 1 /\ Reviewed => run[r].pc = "end"
    /\ rows \subseteq Found(1)
    /\ waived # {} => \E c \in Calls : call[c].pc # "unused"

OneCall == \A c, d \in Calls : Outstanding(c) /\ Outstanding(d) => c = d

ScoreCurrent ==
    /\ \A c \in Calls : call[c].pc = "write" => call[c].active = rows \ waived
    /\ row.status = "DONE" /\ (\A c \in Calls : call[c].pc \notin {"read", "write"})
         => row.score = rows \ waived

ScoreInv ==
    orderly => /\ OneRun /\ OneCall
               /\ faults \cap ScoreFaults = {} => ScoreCurrent

(* Why PageSettles holds.  Every violation that is shown is in the table.  The one
   call that is under way on a trusted violation came from its page, which has
   already the flag asked for; the table has the flag before the update, the new one
   after it, and the old one if the call was refused. *)
Uses(c, v) == Outstanding(c) /\ v \in call[c].sel

Shown ==
    /\ blob \subseteq rows
    /\ \A p \in Visits : trusted[p] \subseteq page[p].list /\ page[p].list \subseteq rows
    /\ \A c \in Calls : /\ call[c].previous \subseteq call[c].sel
                        /\ call[c].pc \in {"unused", "end"} => ~ call[c].waiting

Foretold(p, v, c) ==
    /\ call[c].page = p /\ call[c].waiting
    /\ \A d \in Calls : Uses(d, v) => d = c
    /\ v \in page[p].waived <=> call[c].flag
    /\ IF call[c].pc \in {"update", "refused"}
       THEN v \in waived <=> v \in call[c].previous
       ELSE v \in waived <=> call[c].flag

PagesForetell ==
    \A p \in Visits : \A v \in trusted[p] : \A c \in Calls :
        Uses(c, v) => Foretold(p, v, c)

(* The inductive invariant of ReviewProofs (jobs.go:111-214, page.tsx:65-91 and
   ProcessJob). *)
ReviewInv == CoverInv /\ ScoreInv /\ Shown /\ PagesForetell /\ PageSettles

(* The list a page loads shows what was waived before, no call being under way
   (technical/page.tsx:887 "The violations table itself is retained only for
   ignore/waive mutations", jobs.go:111 "UpdateViolation"). *)
WaiverShown ==
    [][\A p \in Visits : page[p].pc = "opening" /\ page'[p].pc = "open"
          /\ (\A c \in Calls : ~ Outstanding(c))
          => page'[p].waived = waived \cap page'[p].list]_reviewVars

=============================================================================
