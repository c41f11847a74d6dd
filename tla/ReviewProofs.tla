------------------------------ MODULE ReviewProofs ------------------------------
(***************************************************************************)
(* Proofs about the review of results, for any number of runs, visits,     *)
(* calls, defects and layers.  CoverInv is inductive by itself and gives   *)
(* UnwaivedCounts.  On top of it, ScoreInv says why an undisturbed score   *)
(* is exact, and PagesForetell why a page ends with the flags of the       *)
(* table; together they are ReviewInv.                                     *)
(***************************************************************************)
EXTENDS Review, TLAPS

(* The initial state satisfies the invariant: nothing is stored, shown or
   asked for before the first run. *)
LEMMA ReviewInitInv == ReviewInit => CoverInv
<1> SUFFICES ASSUME ReviewInit PROVE CoverInv
  OBVIOUS
<1>1. ReviewTypeOK
  BY DEF ReviewInit, ReviewTypeOK, RunState, PageState, CallState, Row, NewRow, Status,
         Unused
<1>2. RunsSound
  BY DEF ReviewInit, RunsSound
<1>3. WaiversAsked
  BY DEF ReviewInit, WaiversAsked, Unused
<1>4. RowsFirst
  BY DEF ReviewInit, RowsFirst, NewRow, Unused
<1>5. ScoresCover
  BY DEF ReviewInit, ScoresCover, NewRow, Unused
<1> QED
  BY <1>1, <1>2, <1>3, <1>4, <1>5 DEF CoverInv

-----------------------------------------------------------------------------
(* Type correctness (the types of rows, pages and calls in page.tsx, jobs.go
   and models.go), one lemma for each actor. *)

(* What the private copy of a run may become. *)
LEMMA FoundViolations == ASSUME NEW r \in Runs PROVE Found(r) \subseteq Violations
BY DEF Found, Violations

LEMMA RunTypes ==
  ASSUME ReviewTypeOK, NEW r \in Runs, RunStep(r)
  PROVE  ReviewTypeOK'
<1> DEFINE copy == run[r].copy
<1>1. copy \in Row
  BY DEF ReviewTypeOK, RunState
<1>2. ASSUME NEW from, NEW to \in {"claim", "meta", "insert", "blob", "final", "end"},
             NEW new \in Row, RunTo(r, from, to, new)
      PROVE  run' \in [Runs -> RunState]
  <2>1. [pc |-> to, copy |-> new] \in RunState
    BY DEF RunState
  <2> QED
    BY <1>2, <2>1 DEF RunTo, ReviewTypeOK
<1>3. /\ [copy EXCEPT !.status = "PROCESSING"] \in Row
      /\ [copy EXCEPT !.status = "DONE"] \in Row
      /\ [copy EXCEPT !.score = Found(r)] \in Row
      /\ [copy EXCEPT !.key = TRUE] \in Row
      /\ NewRow \in Row
      /\ [row EXCEPT !.status = "FAILED"] \in Row
  BY <1>1, FoundViolations DEF ReviewTypeOK, Row, Status, NewRow
<1> HIDE DEF copy
<1>4. CASE FetchJob(r)
  <2>1. run' \in [Runs -> RunState]
    BY <1>4, <1>2 DEF FetchJob, ReviewTypeOK
  <2> QED
    BY <1>4, <2>1 DEF FetchJob, ReviewTypeOK, serverVars
<1>5. CASE ClaimJob(r)
  <2>1. run' \in [Runs -> RunState]
    BY <1>5, <1>2, <1>3 DEF ClaimJob, copy
  <2> QED
    BY <1>5, <1>3, <2>1 DEF ClaimJob, ReviewTypeOK, history, copy
<1>6. CASE ScoreBoard(r)
  <2>1. run' \in [Runs -> RunState]
    BY <1>6, <1>2, <1>3 DEF ScoreBoard, copy
  <2> QED
    BY <1>6, <1>1, <2>1 DEF ScoreBoard, ReviewTypeOK, history, copy
<1>7. CASE InsertRows(r)
  <2>1. run' \in [Runs -> RunState]
    BY <1>7, <1>1, <1>2 DEF InsertRows, copy
  <2> QED
    BY <1>7, <2>1, FoundViolations DEF InsertRows, ReviewTypeOK, history
<1>8. CASE StoreBlob(r)
  <2>1. run' \in [Runs -> RunState]
    BY <1>8, <1>1, <1>2, <1>3 DEF StoreBlob, copy
  <2>2. blob' \subseteq Violations /\ faults' \subseteq FaultKinds
    BY <1>8, FoundViolations DEF StoreBlob, ReviewTypeOK, Fault, NoFault
  <2> QED
    BY <1>8, <2>1, <2>2 DEF StoreBlob, ReviewTypeOK, history
<1>9. CASE FinalizeJob(r)
  <2>1. run' \in [Runs -> RunState]
    BY <1>9, <1>2, <1>3 DEF FinalizeJob
  <2> QED
    BY <1>9, <1>3, <2>1 DEF FinalizeJob, ReviewTypeOK, history, copy
<1>10. CASE FailJob(r)
  <2>1. run' \in [Runs -> RunState]
    BY <1>10, <1>2, <1>3 DEF FailJob
  <2> QED
    BY <1>10, <1>3, <2>1 DEF FailJob, ReviewTypeOK, Fault, history
<1> QED
  BY <1>4, <1>5, <1>6, <1>7, <1>8, <1>9, <1>10 DEF RunStep

(* Every click, on a violation or on a layer, is a Click on some violations. *)
LEMMA Clicks ==
  ASSUME ReviewTypeOK, NEW p \in Visits, NEW c \in Calls,
         ClickOne(p, c) \/ ClickLayer(p, c)
  PROVE  \E sel \in SUBSET Violations : \E flag \in BOOLEAN : Click(p, c, sel, flag)
<1>1. CASE ClickOne(p, c)
  <2>1. PICK v \in page[p].list : Click(p, c, {v}, v \notin page[p].waived)
    BY <1>1 DEF ClickOne
  <2>2. v \in Violations
    <3>1. page[p] \in PageState
      BY DEF ReviewTypeOK
    <3> QED
      BY <2>1, <3>1 DEF PageState
  <2> QED
    BY <2>1, <2>2
<1>2. CASE ClickLayer(p, c)
  <2>1. PICK v \in page[p].list \ page[p].waived :
          LET all == OnLayer(LayerOf[v[2]])
              err == {u \in all : u[2] \in Errors}
          IN  \/ \E flag \in BOOLEAN : Click(p, c, all, flag)
              \/ \E sel \in {err, all \ err} : Click(p, c, sel, TRUE)
    BY <1>2 DEF ClickLayer
  <2> DEFINE all == OnLayer(LayerOf[v[2]])
             err == {u \in all : u[2] \in Errors}
  <2>2. all \subseteq Violations
    BY DEF OnLayer
  <2>3. err \in SUBSET Violations /\ all \ err \in SUBSET Violations
    BY <2>2
  <2>4. \/ \E flag \in BOOLEAN : Click(p, c, all, flag)
        \/ \E sel \in {err, all \ err} : Click(p, c, sel, TRUE)
    BY <2>1
  <2> HIDE DEF all, err
  <2>5. CASE \E flag \in BOOLEAN : Click(p, c, all, flag)
    BY <2>2, <2>5
  <2>6. CASE \E sel \in {err, all \ err} : Click(p, c, sel, TRUE)
    BY <2>3, <2>6
  <2> QED
    BY <2>4, <2>5, <2>6
<1> QED
  BY <1>1, <1>2

LEMMA VisitTypes ==
  ASSUME ReviewTypeOK, NEW p \in Visits, VisitStep(p)
  PROVE  ReviewTypeOK'
<1>1. CASE OpenJob(p)
  <2> DEFINE new == [page[p] EXCEPT !.pc = "opening", !.url = UrlInlined]
  <2>1. page[p] \in PageState /\ UrlInlined \in BOOLEAN
    BY DEF ReviewTypeOK, UrlInlined
  <2>2. new \in PageState
    BY <2>1 DEF PageState
  <2>3. page' = [page EXCEPT ![p] = new]
    BY <1>1, <2>1 DEF OpenJob, ReviewTypeOK
  <2> HIDE DEF new
  <2>4. page' \in [Visits -> PageState]
    BY <2>2, <2>3 DEF ReviewTypeOK
  <2> QED
    BY <1>1, <2>4 DEF OpenJob, ReviewTypeOK, serverVars, history
<1>2. CASE OpenList(p)
  <2> DEFINE list == IF FromS3(p) THEN blob ELSE rows
             ign  == IF FromS3(p) THEN {} ELSE waived
             new  == [pc |-> "open", url |-> FALSE, list |-> list, waived |-> ign]
             same == {v \in list : v \in ign <=> v \in waived} \ InUse
  <2>1. list \subseteq Violations /\ ign \subseteq Violations
    BY DEF ReviewTypeOK
  <2>2. new \in PageState /\ same \in SUBSET Violations
    BY <2>1 DEF PageState
  <2>3. page' = [page EXCEPT ![p] = new] /\ trusted' = [trusted EXCEPT ![p] = same]
    BY <1>2 DEF OpenList
  <2> HIDE DEF new, same
  <2>4. page' \in [Visits -> PageState] /\ trusted' \in [Visits -> SUBSET Violations]
    BY <2>2, <2>3 DEF ReviewTypeOK
  <2> QED
    BY <1>2, <2>4 DEF OpenList, ReviewTypeOK, serverVars
<1>3. ASSUME NEW c \in Calls, ClickOne(p, c) \/ ClickLayer(p, c)
      PROVE  ReviewTypeOK'
  <2>1. PICK sel \in SUBSET Violations, flag \in BOOLEAN : Click(p, c, sel, flag)
    BY <1>3, Clicks
  <2> DEFINE new == [pc |-> "update", waiting |-> TRUE, page |-> p, flag |-> flag,
                     sel |-> sel, previous |-> sel \cap page[p].waived, active |-> {}]
  <2>2. page' \in [Visits -> PageState]
    BY ZenonT(30), <2>1 DEF Click, ReviewTypeOK, PageState
  <2>3. call' = [call EXCEPT ![c] = new]
    BY <2>1 DEF Click
  <2>4. new \in CallState
    BY DEF CallState
  <2> HIDE DEF new
  <2>5. call' \in [Calls -> CallState]
    BY <2>3, <2>4 DEF ReviewTypeOK
  <2>6. trusted' \in [Visits -> SUBSET Violations]
    <3>1. trusted' = [q \in Visits |-> IF q = p THEN trusted[q] \ (sel \cap InUse)
                                                ELSE trusted[q] \ sel]
      BY <2>1 DEF Click
    <3> QED
      BY <3>1 DEF ReviewTypeOK
  <2>7. asked' \subseteq Violations /\ orderly' \in BOOLEAN
    BY <2>1 DEF Click, ReviewTypeOK
  <2> QED
    BY <2>1, <2>2, <2>5, <2>6, <2>7 DEF Click, ReviewTypeOK, serverVars
<1> QED
  BY <1>1, <1>2, <1>3 DEF VisitStep

(* Steps that only move a call on, or end it. *)
LEMMA CallToTypes ==
  ASSUME ReviewTypeOK, NEW c \in Calls, NEW from,
         NEW to \in {"read", "write", "reply", "refused"}, CallTo(c, from, to)
  PROVE  call' \in [Calls -> CallState]
BY DEF CallTo, ReviewTypeOK, CallState

LEMMA CallTypes ==
  ASSUME ReviewTypeOK, NEW c \in Calls, CallStep(c)
  PROVE  ReviewTypeOK'
<1>0. Answered(c) => call' \in [Calls -> CallState]
  <2>1. [Unused EXCEPT !.pc = "end"] \in CallState
    BY DEF Unused, CallState
  <2> QED
    BY <2>1 DEF Answered, ReviewTypeOK
<1>1. CASE UpdateIgnored(c)
  <2>1. call' \in [Calls -> CallState]
    BY <1>1, CallToTypes DEF UpdateIgnored
  <2> QED
    BY <1>1, <2>1 DEF UpdateIgnored, ReviewTypeOK, history
<1>2. CASE ReadActive(c)
  <2>1. rows \ waived \subseteq Violations
    BY DEF ReviewTypeOK
  <2>2. call' \in [Calls -> CallState]
    BY <1>2, <2>1 DEF ReadActive, ReviewTypeOK, CallState
  <2> QED
    BY <1>2, <2>2 DEF ReadActive, ReviewTypeOK, Fault, NoFault, serverVars, history
<1>3. CASE WriteScore(c)
  <2>1. call' \in [Calls -> CallState]
    BY <1>3, CallToTypes DEF WriteScore
  <2>2. row' \in Row
    BY <1>3 DEF WriteScore, ReviewTypeOK, Row, CallState
  <2> QED
    BY <1>3, <2>1, <2>2 DEF WriteScore, ReviewTypeOK, Fault, NoFault, history
<1>4. CASE RefuseCall(c)
  <2>1. call' \in [Calls -> CallState]
    BY <1>4, CallToTypes DEF RefuseCall
  <2>2. trusted' \in [Visits -> SUBSET Violations] /\ faults' \subseteq FaultKinds
    BY <1>4 DEF RefuseCall, ReviewTypeOK, Fault
  <2> QED
    BY <1>4, <2>1, <2>2 DEF RefuseCall, ReviewTypeOK, serverVars
<1>5. CASE Reply(c)
  BY <1>0, <1>5 DEF Reply, ReviewTypeOK, serverVars, history
<1>6. CASE Revert(c)
  <2>1. page' \in [Visits -> PageState]
    <3> DEFINE q == call[c].page
               new == [page[q] EXCEPT !.waived = (@ \ call[c].sel) \cup call[c].previous]
    <3>1. call[c] \in CallState
      BY DEF ReviewTypeOK
    <3>2. call[c].previous \subseteq Violations
      BY <3>1 DEF CallState
    <3>3. page' = [page EXCEPT ![q] = new]
      BY <1>6 DEF Revert, RestorePrevious
    <3>4. page[q] \in PageState => new \in PageState
      BY <3>2 DEF PageState
    <3> HIDE DEF q, new
    <3> QED
      BY <3>3, <3>4 DEF ReviewTypeOK
  <2>2. call' \in [Calls -> CallState]
    <3>1. CASE Answered(c)
      BY <1>0, <3>1
    <3>2. CASE call' = [call EXCEPT ![c].waiting = FALSE]
      <4>1. call[c] \in CallState
        BY DEF ReviewTypeOK
      <4>2. [call[c] EXCEPT !.waiting = FALSE] \in CallState
        BY <4>1 DEF CallState
      <4>3. call' = [call EXCEPT ![c] = [call[c] EXCEPT !.waiting = FALSE]]
        BY <3>2
      <4> QED
        BY <4>2, <4>3 DEF ReviewTypeOK
    <3> QED
      BY <1>6, <3>1, <3>2 DEF Revert
  <2>3. trusted' \in [Visits -> SUBSET Violations] /\ faults' \subseteq FaultKinds
    BY <1>6 DEF Revert, ReviewTypeOK, Fault, NoFault
  <2> QED
    BY <1>6, <2>1, <2>2, <2>3 DEF Revert, ReviewTypeOK, serverVars
<1> QED
  BY <1>1, <1>2, <1>3, <1>4, <1>5, <1>6 DEF CallStep

-----------------------------------------------------------------------------
(* What covers the untouched defects: the violations of one whole run, the
   rows that are not waived once a run has inserted its rows, and whatever
   covered them before somebody asked to waive more. *)
LEMMA FoundCovers == ASSUME NEW r \in Runs PROVE Covers(Found(r))
BY DEF Covers, Counts, Found, Untouched

LEMMA ActiveCovers ==
  ASSUME WaiversAsked, Inserted
  PROVE  Covers(rows \ waived)
<1>1. PICK r \in Runs : Found(r) \subseteq rows
  BY DEF Inserted
<1> SUFFICES ASSUME NEW d \in Untouched PROVE Counts(rows \ waived, d)
  BY DEF Covers
<1>2. <<r, d>> \in rows
  BY <1>1 DEF Found, Untouched
<1>3. <<r, d>> \notin waived
  BY DEF WaiversAsked, Untouched
<1> QED
  BY <1>2, <1>3 DEF Counts

LEMMA CoversStays ==
  ASSUME asked \subseteq asked', NEW score, Covers(score)
  PROVE  \A d \in Untouched' : Counts(score, d)
BY DEF Covers, Untouched, Counts

LEMMA InsertedStays ==
  ASSUME rows \subseteq rows', Inserted
  PROVE  Inserted'
BY DEF Inserted

(* A step of a run that leaves waivers, pages and calls alone. *)
LEMMA RunFrame ==
  ASSUME CoverInv, UNCHANGED <<waived, page, call, asked>>, rows \subseteq rows',
         row'.status = "DONE" => Inserted',
         row'.status = "DONE" =>
            (row'.score = row.score /\ row.status = "DONE") \/ Covers(row'.score),
         "read" \in faults => "read" \in faults'
  PROVE  WaiversAsked' /\ RowsFirst' /\ ScoresCover'
<1>1. WaiversAsked'
  BY DEF CoverInv, WaiversAsked
<1>2. RowsFirst'
  BY InsertedStays DEF CoverInv, RowsFirst
<1>3. ScoresCover'
  <2>1. Untouched' = Untouched
    BY DEF Untouched
  <2> QED
    BY <2>1 DEF CoverInv, ScoresCover, Covers, Counts
<1> QED
  BY <1>1, <1>2, <1>3

(* Steps of ProcessJob. *)
LEMMA RunStepInv ==
  ASSUME CoverInv, NEW r \in Runs, RunStep(r)
  PROVE  CoverInv'
<1>0. ReviewTypeOK'
  BY RunTypes DEF CoverInv
<1> DEFINE Others == \A q \in Runs : q # r => run'[q] = run[q]
<1>1. \A from, to, copy : RunTo(r, from, to, copy) =>
         Others /\ run[r].pc = from /\ run'[r] = [pc |-> to, copy |-> copy]
  BY DEF CoverInv, ReviewTypeOK, RunTo
<1>2. run[r].copy \in Row
  BY DEF CoverInv, ReviewTypeOK, RunState
<1> SUFFICES RunsSound' /\ WaiversAsked' /\ RowsFirst' /\ ScoresCover'
  BY <1>0 DEF CoverInv
<1> HIDE DEF Others
<1>3. ASSUME Others, rows \subseteq rows',
             run'[r].pc \in {"meta", "insert", "blob", "final"}
               => run'[r].copy.status = "PROCESSING",
             run'[r].pc \in {"insert", "blob", "final"} => run'[r].copy.score = Found(r),
             run'[r].pc \in {"blob", "final"} => Found(r) \subseteq rows'
      PROVE  RunsSound'
  BY <1>3 DEF CoverInv, RunsSound, Others
<1>4. CASE FetchJob(r)
  <2>1. RunTo(r, "fetch", "claim", row) /\ rows' = rows
    BY <1>4 DEF FetchJob, serverVars
  <2>2. Others /\ run'[r] = [pc |-> "claim", copy |-> row]
    BY <1>1, <2>1
  <2>3. RunsSound'
    BY <1>3, <2>1, <2>2
  <2> QED
    BY <1>4, <2>3, RunFrame, InsertedStays DEF FetchJob, serverVars, CoverInv, RowsFirst
<1>5. CASE ClaimJob(r)
  <2> DEFINE claimed == [run[r].copy EXCEPT !.status = "PROCESSING"]
  <2>1. RunTo(r, "claim", "meta", claimed) /\ row' = claimed
    BY <1>5 DEF ClaimJob
  <2>2. claimed.status = "PROCESSING"
    BY <1>2 DEF Row
  <2> HIDE DEF claimed
  <2>3. Others /\ run'[r] = [pc |-> "meta", copy |-> claimed]
    BY <1>1, <2>1
  <2>4. RunsSound'
    BY <1>3, <1>5, <2>2, <2>3 DEF ClaimJob
  <2> QED
    BY <1>5, <2>1, <2>2, <2>4, RunFrame DEF ClaimJob, history
<1>6. CASE ScoreBoard(r)
  <2>1. run[r].copy.status = "PROCESSING" /\ row'.status = "PROCESSING"
    BY <1>6, <1>1 DEF ScoreBoard, CoverInv, RunsSound
  <2>2. Others /\ run'[r] = [pc |-> "insert", copy |-> [run[r].copy EXCEPT !.score = Found(r)]]
    BY <1>6, <1>1 DEF ScoreBoard
  <2>3. run'[r].pc = "insert" /\ run'[r].copy.status = "PROCESSING"
        /\ run'[r].copy.score = Found(r)
    BY <1>2, <2>1, <2>2 DEF Row
  <2>4. RunsSound'
    BY <1>6, <1>3, <2>2, <2>3 DEF ScoreBoard, history
  <2> QED
    BY <1>6, <2>1, <2>4, RunFrame DEF ScoreBoard, history
<1>7. CASE InsertRows(r)
  <2>1. Others /\ run[r].pc = "insert" /\ run'[r] = [pc |-> "blob", copy |-> run[r].copy]
    BY <1>7, <1>1 DEF InsertRows
  <2>2. rows \subseteq rows' /\ Found(r) \subseteq rows'
    BY <1>7 DEF InsertRows
  <2>3. RunsSound'
    BY <1>3, <2>1, <2>2 DEF CoverInv, RunsSound
  <2> QED
    BY <1>7, <2>2, <2>3, RunFrame, InsertedStays
    DEF InsertRows, history, CoverInv, RowsFirst
<1>8. CASE StoreBlob(r)
  <2>1. PICK copy \in {run[r].copy, [run[r].copy EXCEPT !.key = TRUE]} :
            RunTo(r, "blob", "final", copy)
    BY <1>8 DEF StoreBlob
  <2>2. copy.status = run[r].copy.status /\ copy.score = run[r].copy.score
    BY <1>2, <2>1 DEF Row
  <2>3. Others /\ run[r].pc = "blob" /\ run'[r] = [pc |-> "final", copy |-> copy]
    BY <1>1, <2>1
  <2>4. UNCHANGED <<row, rows, waived, page, call, asked>> /\ faults \subseteq faults'
    BY <1>8 DEF StoreBlob, Fault, NoFault, history
  <2>5. RunsSound'
    BY <1>3, <2>2, <2>3, <2>4 DEF CoverInv, RunsSound
  <2> QED
    BY <2>4, <2>5, RunFrame, InsertedStays DEF CoverInv, RowsFirst
<1>9. CASE FinalizeJob(r)
  <2>1. Others /\ run[r].pc = "final" /\ run'[r].pc = "end"
    <3>1. RunTo(r, "final", "end", NewRow)
      BY <1>9 DEF FinalizeJob
    <3>2. Others /\ run[r].pc = "final" /\ run'[r] = [pc |-> "end", copy |-> NewRow]
      BY <1>1, <3>1, Zenon
    <3> QED
      BY <3>2
  <2>2. Found(r) \subseteq rows /\ run[r].copy.score = Found(r)
    BY <2>1 DEF CoverInv, RunsSound
  <2>3. row'.score = Found(r)
    BY <1>9, <1>2, <2>2 DEF FinalizeJob, Row
  <2>4. rows' = rows /\ Inserted'
    BY <1>9, <2>2, InsertedStays DEF FinalizeJob, Inserted
  <2>5. RunsSound'
    BY <1>3, <2>1, <2>4
  <2> QED
    BY <1>9, <2>3, <2>4, <2>5, FoundCovers, RunFrame DEF FinalizeJob, history
<1>10. CASE FailJob(r)
  <2>1. Others /\ run'[r].pc = "end"
    <3>1. RunTo(r, run[r].pc, "end", NewRow)
      BY <1>10 DEF FailJob
    <3>2. Others /\ run[r].pc = run[r].pc /\ run'[r] = [pc |-> "end", copy |-> NewRow]
      BY <1>1, <3>1, Zenon
    <3> QED
      BY <3>2
  <2>2. row'.status = "FAILED"
    BY <1>10 DEF FailJob, CoverInv, ReviewTypeOK, Row
  <2>3. RunsSound'
    BY <1>10, <1>3, <2>1 DEF FailJob
  <2> QED
    BY <1>10, <2>2, <2>3, RunFrame DEF FailJob, history, Fault
<1> QED
  BY <1>4, <1>5, <1>6, <1>7, <1>8, <1>9, <1>10 DEF RunStep

-----------------------------------------------------------------------------
(* Steps of the results page. *)
LEMMA VisitStepInv ==
  ASSUME CoverInv, NEW p \in Visits, VisitStep(p)
  PROVE  CoverInv'
<1>0. ReviewTypeOK'
  BY VisitTypes DEF CoverInv
<1> SUFFICES RunsSound' /\ WaiversAsked' /\ RowsFirst' /\ ScoresCover'
  BY <1>0 DEF CoverInv
<1>1. ASSUME UNCHANGED <<serverVars, run, call, faults, asked>>,
             \A q \in Visits : page'[q].pc # "closed" =>
                page[q].pc # "closed" \/ row.status = "DONE"
      PROVE  RunsSound' /\ WaiversAsked' /\ RowsFirst' /\ ScoresCover'
  <2>1. RunsSound' /\ WaiversAsked'
    BY <1>1 DEF serverVars, CoverInv, RunsSound, WaiversAsked
  <2>2. RowsFirst'
    BY <1>1, InsertedStays DEF serverVars, CoverInv, RowsFirst
  <2>3. ScoresCover'
    <3>1. Untouched' = Untouched
      BY <1>1 DEF Untouched
    <3> QED
      BY <1>1, <3>1 DEF serverVars, CoverInv, ScoresCover, Covers, Counts
  <2> QED
    BY <2>1, <2>2, <2>3
<1>2. CASE OpenJob(p)
  <2>1. \A q \in Visits : q # p => page'[q] = page[q]
    BY <1>2 DEF OpenJob, CoverInv, ReviewTypeOK
  <2> QED
    BY <1>1, <1>2, <2>1 DEF OpenJob, history
<1>3. CASE OpenList(p)
  <2>1. \A q \in Visits : q # p => page'[q] = page[q]
    BY <1>3 DEF OpenList, CoverInv, ReviewTypeOK
  <2>2. page[p].pc = "opening"
    BY <1>3 DEF OpenList
  <2> QED
    BY <1>1, <1>3, <2>1, <2>2 DEF OpenList
<1>4. ASSUME NEW c \in Calls, ClickOne(p, c) \/ ClickLayer(p, c)
      PROVE  RunsSound' /\ WaiversAsked' /\ RowsFirst' /\ ScoresCover'
  <2>1. PICK sel \in SUBSET Violations, flag \in BOOLEAN : Click(p, c, sel, flag)
    BY <1>4, Clicks DEF CoverInv
  <2>2. UNCHANGED <<row, rows, waived, run, faults>> /\ asked \subseteq asked'
    BY <2>1 DEF Click, serverVars
  <2>3. /\ \A d \in Calls : d # c => call'[d] = call[d]
        /\ call'[c].pc = "update" /\ call'[c].flag = flag /\ call'[c].sel = sel
    BY <2>1 DEF Click, CoverInv, ReviewTypeOK
  <2>4. page[p].pc = "open" /\ \A q \in Visits : page'[q].pc = page[q].pc
    <3>1. page[p] \in PageState
      BY DEF CoverInv, ReviewTypeOK
    <3> QED
      BY <2>1, <3>1 DEF Click, CoverInv, ReviewTypeOK, PageState
  <2>5. flag => sel \subseteq asked'
    BY <2>1 DEF Click
  <2>6. RunsSound'
    BY <2>2 DEF CoverInv, RunsSound
  <2>7. WaiversAsked'
    BY <2>2, <2>3, <2>5 DEF CoverInv, WaiversAsked
  <2>8. RowsFirst'
    BY <2>2, <2>3, <2>4, InsertedStays DEF CoverInv, RowsFirst
  <2>9. ScoresCover'
    <3> SUFFICES ASSUME "read" \notin faults
                 PROVE  /\ row.status = "DONE" => \A d \in Untouched' : Counts(row.score, d)
                        /\ \A b \in Calls : call'[b].pc = "write" =>
                              \A d \in Untouched' : Counts(call'[b].active, d)
      BY <2>2 DEF ScoresCover, Covers, Counts
    <3>1. row.status = "DONE" => \A d \in Untouched' : Counts(row.score, d)
      BY <2>2, CoversStays DEF CoverInv, ScoresCover
    <3>2. ASSUME NEW b \in Calls, call'[b].pc = "write"
          PROVE  \A d \in Untouched' : Counts(call'[b].active, d)
      <4>1. call'[b] = call[b] /\ Covers(call[b].active)
        BY <2>3, <3>2 DEF CoverInv, ScoresCover
      <4> QED
        BY <2>2, <4>1, CoversStays
    <3> QED
      BY <3>1, <3>2
  <2> QED
    BY <2>6, <2>7, <2>8, <2>9
<1> QED
  BY <1>2, <1>3, <1>4 DEF VisitStep

(* A step of a handler, or of the page that hears of it, asks for nothing new
   and starts no call. *)
LEMMA CallFrame ==
  ASSUME CoverInv, NEW c \in Calls, UNCHANGED <<rows, run, asked>>,
         waived' \subseteq asked, faults \subseteq faults', row'.status = row.status,
         \A q \in Visits : page'[q].pc = page[q].pc,
         \A d \in Calls : d # c => call'[d] = call[d],
         call[c].waiting \/ call[c].pc # "unused",
         call'[c].flag => call[c].flag /\ call'[c].sel = call[c].sel,
         "read" \notin faults' => row'.score = row.score \/ Covers(row'.score),
         "read" \notin faults' /\ call'[c].pc = "write" => Covers(call'[c].active)
  PROVE  RunsSound' /\ WaiversAsked' /\ RowsFirst' /\ ScoresCover'
<1>1. RunsSound'
  BY DEF CoverInv, RunsSound
<1>2. WaiversAsked'
  BY DEF CoverInv, WaiversAsked
<1>3. RowsFirst'
  BY InsertedStays DEF CoverInv, RowsFirst
<1>4. ScoresCover'
  <2>1. Untouched' = Untouched
    BY DEF Untouched
  <2> SUFFICES ASSUME "read" \notin faults'
               PROVE  /\ row.status = "DONE" => Covers(row'.score)
                      /\ \A b \in Calls : call'[b].pc = "write" => Covers(call'[b].active)
    BY <2>1 DEF ScoresCover, Covers, Counts
  <2> QED
    BY DEF CoverInv, ScoresCover
<1> QED
  BY <1>1, <1>2, <1>3, <1>4

(* Steps of UpdateViolation and BulkIgnoreLayerViolations, and their answers. *)
LEMMA CallStepInv ==
  ASSUME CoverInv, NEW c \in Calls, CallStep(c)
  PROVE  CoverInv'
<1>0. ReviewTypeOK'
  BY CallTypes DEF CoverInv
<1> SUFFICES RunsSound' /\ WaiversAsked' /\ RowsFirst' /\ ScoresCover'
  BY <1>0 DEF CoverInv
<1>1. call[c] \in CallState /\ waived \subseteq asked /\ row \in Row
  BY DEF CoverInv, ReviewTypeOK, WaiversAsked
<1>2. ASSUME NEW from, NEW to, CallTo(c, from, to)
      PROVE  /\ \A d \in Calls : d # c => call'[d] = call[d]
             /\ call[c].pc = from
             /\ call'[c].pc = to
             /\ call'[c].flag = call[c].flag /\ call'[c].sel = call[c].sel
  BY <1>1, <1>2 DEF CallTo, CoverInv, ReviewTypeOK, CallState
<1>3. CASE UpdateIgnored(c)
  <2>1. CallTo(c, "update", "read") /\ UNCHANGED <<row, rows, run, page, faults, asked>>
    BY <1>3 DEF UpdateIgnored, history
  <2>2. waived' \subseteq asked
    BY <1>1, <1>3 DEF UpdateIgnored, CoverInv, WaiversAsked
  <2>3. /\ \A d \in Calls : d # c => call'[d] = call[d]
        /\ call[c].pc = "update" /\ call'[c].pc = "read"
        /\ call'[c].flag = call[c].flag /\ call'[c].sel = call[c].sel
    BY <1>2, <2>1
  <2> QED
    BY <2>1, <2>2, <2>3, CallFrame
<1>4. CASE ReadActive(c)
  <2>1. UNCHANGED <<row, rows, waived, run, page, asked>>
    BY <1>4 DEF ReadActive, serverVars, history
  <2>2. PICK active \in {rows \ waived, {}} :
          /\ call' = [call EXCEPT ![c].pc = "write", ![c].active = active]
          /\ faults \subseteq faults'
          /\ "read" \in faults' \/ active = rows \ waived
    BY <1>4 DEF ReadActive, Fault, NoFault
  <2>3. /\ \A d \in Calls : d # c => call'[d] = call[d]
        /\ call'[c].active = active
        /\ call'[c].flag = call[c].flag /\ call'[c].sel = call[c].sel
    BY <1>1, <2>2 DEF CoverInv, ReviewTypeOK, CallState
  <2>4. call[c].pc = "read"
    BY <1>4 DEF ReadActive
  <2>5. Covers(rows \ waived)
    BY <2>4, ActiveCovers DEF CoverInv, RowsFirst
  <2> QED
    BY <1>1, <2>1, <2>2, <2>3, <2>4, <2>5, CallFrame
<1>5. CASE WriteScore(c)
  <2>1. /\ CallTo(c, "write", "reply") /\ faults \subseteq faults'
        /\ UNCHANGED <<rows, waived, run, page, asked>>
    BY <1>5 DEF WriteScore, Fault, NoFault, history
  <2>2. row'.status = row.status /\ row'.score \in {row.score, call[c].active}
    BY <1>1, <1>5 DEF WriteScore, Row
  <2>3. /\ \A d \in Calls : d # c => call'[d] = call[d]
        /\ call[c].pc = "write" /\ call'[c].pc = "reply"
        /\ call'[c].flag = call[c].flag /\ call'[c].sel = call[c].sel
    BY <1>2, <2>1
  <2>4. "read" \notin faults => row'.score = row.score \/ Covers(row'.score)
    BY <2>2, <2>3 DEF CoverInv, ScoresCover
  <2> QED
    BY <1>1, <2>1, <2>2, <2>3, <2>4, CallFrame
<1>6. CASE RefuseCall(c)
  <2>1. /\ CallTo(c, call[c].pc, "refused") /\ call[c].pc \in {"update", "read", "write"}
        /\ UNCHANGED <<row, rows, waived, run, page, asked>> /\ faults \subseteq faults'
    BY <1>6 DEF RefuseCall, Fault, serverVars
  <2>2. /\ \A d \in Calls : d # c => call'[d] = call[d]
        /\ call'[c].pc = "refused"
        /\ call'[c].flag = call[c].flag /\ call'[c].sel = call[c].sel
    BY <1>2, <2>1
  <2> QED
    BY <1>1, <2>1, <2>2, CallFrame
<1>7. Answered(c) => /\ \A d \in Calls : d # c => call'[d] = call[d]
                     /\ call'[c].pc = "end" /\ ~ call'[c].flag
  BY DEF Answered, Unused, CoverInv, ReviewTypeOK
<1>8. CASE Reply(c)
  <2>1. /\ Answered(c) /\ call[c].pc = "reply"
        /\ UNCHANGED <<row, rows, waived, run, page, faults, asked>>
    BY <1>8 DEF Reply, serverVars, history
  <2> QED
    BY <1>1, <1>7, <2>1, CallFrame
<1>9. CASE Revert(c)
  <2>1. UNCHANGED <<row, rows, waived, run, asked>> /\ faults \subseteq faults'
    BY <1>9 DEF Revert, serverVars, Fault, NoFault
  <2>2. \A q \in Visits : page'[q].pc = page[q].pc
    <3>1. page \in [Visits -> PageState]
      BY DEF CoverInv, ReviewTypeOK
    <3> QED
      BY <1>9, <3>1 DEF Revert, RestorePrevious, PageState
  <2>3. call[c].waiting
    BY <1>9 DEF Revert
  <2>4. CASE Answered(c)
    BY <1>1, <1>7, <2>1, <2>2, <2>3, <2>4, CallFrame
  <2>5. CASE call' = [call EXCEPT ![c].waiting = FALSE]
    <3>1. /\ \A d \in Calls : d # c => call'[d] = call[d]
          /\ call'[c].pc = call[c].pc /\ call'[c].active = call[c].active
          /\ call'[c].flag = call[c].flag /\ call'[c].sel = call[c].sel
      BY <1>1, <2>5 DEF CoverInv, ReviewTypeOK, CallState
    <3>2. "read" \notin faults' /\ call'[c].pc = "write" => Covers(call'[c].active)
      BY <2>1, <3>1 DEF CoverInv, ScoresCover
    <3> QED
      BY <1>1, <2>1, <2>2, <2>3, <3>1, <3>2, CallFrame
  <2> QED
    BY <1>9, <2>4, <2>5 DEF Revert
<1> QED
  BY <1>3, <1>4, <1>5, <1>6, <1>8, <1>9 DEF CallStep

-----------------------------------------------------------------------------
(* No run, waiver or visit gets ahead of the rows, and every score written without a
   failed read covers what nobody asked to waive (jobs.go:111-214, page.tsx:65-91 and
   ProcessJob together). *)
THEOREM ReviewInvariance == ReviewSpec => []CoverInv
<1>1. ReviewInit => CoverInv
  BY ReviewInitInv
<1>2. CoverInv /\ [ReviewNext]_reviewVars => CoverInv'
  <2> SUFFICES ASSUME CoverInv, [ReviewNext]_reviewVars PROVE CoverInv'
    OBVIOUS
  <2>1. CASE ReviewNext
    BY <2>1, RunStepInv, VisitStepInv, CallStepInv DEF ReviewNext
  <2>2. CASE UNCHANGED reviewVars
    BY <2>2 DEF reviewVars, CoverInv, ReviewTypeOK, RunsSound, WaiversAsked, RowsFirst,
                Inserted, ScoresCover, Covers, Counts, Untouched
  <2> QED
    BY <2>1, <2>2
<1> QED
  BY <1>1, <1>2, PTL DEF ReviewSpec

(* A defect nobody asked to waive counts in the score of a finished analysis,
   for any number of overlapping waivers and runs (jobs.go:133-149 against the
   whole-row Save of ProcessJob). *)
THEOREM UnwaivedDefectsCount == ReviewSpec => []UnwaivedCounts
<1>1. CoverInv => UnwaivedCounts
  BY DEF CoverInv, ScoresCover, Covers, UnwaivedCounts
<1> QED
  BY <1>1, ReviewInvariance, PTL

-----------------------------------------------------------------------------
(* One run and one call at a time.                                           *)

(* What a run does to the rest: the row is DONE when it is over, with the score of
   its violations, which are stored. *)
LEMMA RunEffect ==
  ASSUME CoverInv, NEW r \in Runs, RunStep(r)
  PROVE  /\ run[r].pc # "end"
         /\ \A q \in Runs : q # r => run'[q] = run[q]
         /\ UNCHANGED <<waived, page, call, trusted, asked>>
         /\ rows' \in {rows, rows \cup Found(r)}
         /\ blob' = blob \/ (blob' = Found(r) /\ Found(r) \subseteq rows)
         /\ orderly' => orderly
         /\ run[r].pc = "fetch" /\ orderly' => r = 1
         /\ faults \subseteq faults'
         /\ row'.status = "DONE" =>
              \/ row' = row
              \/ /\ run'[r].pc = "end" /\ row'.score = Found(r)
                 /\ Found(r) \subseteq rows /\ rows' = rows
<1> DEFINE Others == \A q \in Runs : q # r => run'[q] = run[q]
<1>1. ASSUME NEW from, NEW to, NEW copy, RunTo(r, from, to, copy)
      PROVE  Others /\ run[r].pc = from /\ run'[r] = [pc |-> to, copy |-> copy]
  BY <1>1 DEF RunTo, CoverInv, ReviewTypeOK
<1>2. run[r].copy \in Row /\ row \in Row
  BY DEF CoverInv, ReviewTypeOK, RunState
<1> HIDE DEF Others
<1>3. CASE FetchJob(r)
  <2>1. Others /\ run[r].pc = "fetch"
    <3>1. RunTo(r, "fetch", "claim", row)
      BY <1>3 DEF FetchJob
    <3> QED BY <1>1, <3>1
  <2> QED BY <1>3, <2>1 DEF FetchJob, serverVars, Others
<1>4. CASE ClaimJob(r)
  <2>1. Others /\ run[r].pc = "claim"
    <3>1. RunTo(r, "claim", "meta", [run[r].copy EXCEPT !.status = "PROCESSING"])
      BY <1>4 DEF ClaimJob
    <3> QED BY <1>1, <3>1
  <2>2. row'.status = "PROCESSING"
    BY <1>2, <1>4 DEF ClaimJob, Row
  <2> QED BY <1>4, <2>1, <2>2 DEF ClaimJob, history, Others
<1>5. CASE ScoreBoard(r)
  <2>1. Others /\ run[r].pc = "meta"
    <3>1. RunTo(r, "meta", "insert", [run[r].copy EXCEPT !.score = Found(r)])
      BY <1>5 DEF ScoreBoard
    <3> QED BY <1>1, <3>1
  <2>2. row'.status = "PROCESSING"
    BY <1>5, <2>1 DEF ScoreBoard, CoverInv, RunsSound
  <2> QED BY <1>5, <2>1, <2>2 DEF ScoreBoard, history, Others
<1>6. CASE InsertRows(r)
  <2>1. Others /\ run[r].pc = "insert"
    BY <1>1, <1>6 DEF InsertRows
  <2> QED BY <1>6, <2>1 DEF InsertRows, history, Others
<1>7. CASE StoreBlob(r)
  <2>1. Others /\ run[r].pc = "blob"
    BY <1>1, <1>7 DEF StoreBlob
  <2>2. Found(r) \subseteq rows
    BY <2>1 DEF CoverInv, RunsSound
  <2> QED BY <1>7, <2>1, <2>2 DEF StoreBlob, history, Others, Fault, NoFault
<1>8. CASE FinalizeJob(r)
  <2>1. Others /\ run[r].pc = "final" /\ run'[r].pc = "end"
    <3>1. RunTo(r, "final", "end", NewRow)
      BY <1>8 DEF FinalizeJob
    <3>2. Others /\ run[r].pc = "final" /\ run'[r] = [pc |-> "end", copy |-> NewRow]
      BY <1>1, <3>1, Zenon
    <3> QED BY <3>2
  <2>2. run[r].copy.score = Found(r) /\ Found(r) \subseteq rows
    BY <2>1 DEF CoverInv, RunsSound
  <2>3. row'.score = Found(r)
    BY <1>2, <1>8, <2>2 DEF FinalizeJob, Row
  <2> QED BY <1>8, <2>1, <2>2, <2>3 DEF FinalizeJob, history, Others
<1>9. CASE FailJob(r)
  <2>1. Others
    <3>1. RunTo(r, run[r].pc, "end", NewRow)
      BY <1>9 DEF FailJob
    <3>2. Others /\ run[r].pc = run[r].pc /\ run'[r] = [pc |-> "end", copy |-> NewRow]
      BY <1>1, <3>1, Zenon
    <3> QED BY <3>2
  <2>2. row'.status = "FAILED"
    BY <1>2, <1>9 DEF FailJob, Row
  <2> QED BY <1>9, <2>1, <2>2 DEF FailJob, history, Others, Fault
<1> QED BY <1>3, <1>4, <1>5, <1>6, <1>7, <1>8, <1>9 DEF RunStep

LEMMA ScoreInvInit == ReviewInit => ScoreInv
<1> SUFFICES ASSUME ReviewInit PROVE ScoreInv
  OBVIOUS
<1>1. OneRun
  BY DEF ReviewInit, OneRun, Reviewed, NewRow, Unused
<1>2. OneCall
  BY DEF ReviewInit, OneCall, Outstanding, Unused
<1>3. ScoreCurrent
  BY DEF ReviewInit, ScoreCurrent, NewRow, Unused
<1> QED BY <1>1, <1>2, <1>3 DEF ScoreInv

(* While the only run goes on, nothing is shown or called. *)
LEMMA RunKeepsScore ==
  ASSUME CoverInv, ScoreInv, NEW r \in Runs, RunStep(r)
  PROVE  ScoreInv'
<1> SUFFICES ASSUME orderly' PROVE OneRun' /\ OneCall' /\ ScoreCurrent'
  BY DEF ScoreInv
<1>1. OneRun /\ OneCall
  BY RunEffect DEF ScoreInv
<1>2. r = 1
  BY <1>1, RunEffect DEF OneRun
<1>3. ~ Reviewed
  BY <1>1, <1>2, RunEffect DEF OneRun
<1>4. UNCHANGED <<waived, page, call>> /\ waived = {}
        /\ \A c \in Calls : call[c].pc = "unused"
  BY <1>1, <1>3, RunEffect DEF OneRun, Reviewed
<1>5. row'.status = "DONE" => /\ run'[r].pc = "end" /\ row'.score = Found(r)
                              /\ Found(r) \subseteq rows /\ rows' = rows
  BY <1>3, RunEffect DEF Reviewed
<1>6. OneRun'
  <2>1. \A q \in Runs \ {1} : run'[q].pc = "fetch"
    BY <1>1, <1>2, RunEffect DEF OneRun
  <2>2. \A q \in Runs : q = 1 /\ Reviewed' => run'[q].pc = "end"
    BY <1>2, <1>3, <1>4, <1>5 DEF Reviewed
  <2>3. rows' \subseteq Found(1)
    BY <1>1, <1>2, RunEffect DEF OneRun
  <2> QED BY <1>4, <2>1, <2>2, <2>3 DEF OneRun, Found
<1>7. OneCall'
  BY <1>1, <1>4 DEF OneCall, Outstanding
<1>8. ScoreCurrent'
  <2>1. row'.status = "DONE" => rows' = Found(1)
    BY <1>1, <1>2, <1>5 DEF OneRun
  <2> QED BY <1>2, <1>4, <1>5, <2>1 DEF ScoreCurrent
<1> QED BY <1>6, <1>7, <1>8

(* A page that is opened shows the result of the run that is over, and a click of
   an orderly user is made when no call is under way. *)
LEMMA VisitKeepsScore ==
  ASSUME CoverInv, ScoreInv, NEW p \in Visits, VisitStep(p)
  PROVE  ScoreInv'
<1>1. ASSUME UNCHANGED <<row, rows, waived, run, call, faults, orderly>>,
             Reviewed' => Reviewed
      PROVE  ScoreInv'
  <2>1. OneRun => OneRun'
    BY <1>1 DEF OneRun, Found
  <2> QED BY <1>1, <2>1 DEF ScoreInv, OneCall, Outstanding, ScoreCurrent
<1>2. CASE OpenJob(p)
  BY <1>1, <1>2 DEF OpenJob, Reviewed, serverVars, history
<1>3. CASE OpenList(p)
  BY <1>1, <1>3 DEF OpenList, Reviewed, serverVars
<1>4. ASSUME NEW c \in Calls, ClickOne(p, c) \/ ClickLayer(p, c)
      PROVE  ScoreInv'
  <2> SUFFICES ASSUME orderly'
               PROVE  OneRun' /\ OneCall' /\ (faults' \cap ScoreFaults = {} => ScoreCurrent')
    BY DEF ScoreInv
  <2>1. PICK sel \in SUBSET Violations, flag \in BOOLEAN : Click(p, c, sel, flag)
    BY <1>4, Clicks DEF CoverInv
  <2>2. UNCHANGED <<row, rows, waived, run, faults>> /\ orderly
          /\ \A d \in Calls : ~ Outstanding(d)
    BY <2>1 DEF Click, serverVars
  <2>3. Reviewed /\ OneRun /\ OneCall /\ (faults' \cap ScoreFaults = {} => ScoreCurrent)
    BY <2>1, <2>2 DEF ScoreInv, Reviewed, Click
  <2>4. /\ \A d \in Calls : d # c => call'[d] = call[d]
        /\ call[c].pc = "unused" /\ call'[c].pc = "update"
    BY <2>1 DEF Click, CoverInv, ReviewTypeOK
  <2>5. OneRun'
    BY <2>2, <2>3, <2>4 DEF OneRun, Found
  <2>6. OneCall'
    BY <2>2, <2>4 DEF OneCall, Outstanding
  <2>7. ScoreCurrent => ScoreCurrent'
    BY <2>2, <2>4 DEF ScoreCurrent
  <2> QED BY <2>2, <2>3, <2>5, <2>6, <2>7
<1> QED BY <1>2, <1>3, <1>4 DEF VisitStep

-----------------------------------------------------------------------------
(* What a step of a handler, or of the page that hears of it, does to the rest. *)
LEMMA CallEffect ==
  ASSUME CoverInv, Shown, NEW c \in Calls, CallStep(c)
  PROVE  /\ \A d \in Calls : d # c => call'[d] = call[d]
         /\ Outstanding(c) /\ call[c].pc # "unused"
         /\ call'[c].pc # "unused"
         /\ call'[c].waiting => call[c].waiting /\ call'[c].pc # "end"
         /\ \A p \in Visits : page'[p].pc = page[p].pc /\ page'[p].list = page[p].list
         /\ UNCHANGED <<rows, blob, run, asked, orderly>>
         /\ row'.status = row.status
         /\ faults \subseteq faults'
<1>1. call[c] \in CallState /\ call \in [Calls -> CallState]
        /\ page \in [Visits -> PageState] /\ row \in Row
  BY DEF CoverInv, ReviewTypeOK
<1>2. ASSUME NEW from, NEW to, CallTo(c, from, to)
      PROVE  /\ \A d \in Calls : d # c => call'[d] = call[d]
             /\ call[c].pc = from /\ call'[c].pc = to
             /\ call'[c].waiting = call[c].waiting
  BY <1>1, <1>2 DEF CallTo, CallState
<1>3. Answered(c) => /\ \A d \in Calls : d # c => call'[d] = call[d]
                     /\ call'[c].pc = "end" /\ ~ call'[c].waiting
  BY <1>1 DEF Answered, Unused
<1>4. CASE UpdateIgnored(c)
  <2>1. CallTo(c, "update", "read")
    BY <1>4 DEF UpdateIgnored
  <2> QED BY <1>2, <1>4, <2>1 DEF UpdateIgnored, Outstanding, history
<1>5. CASE ReadActive(c)
  <2>1. /\ \A d \in Calls : d # c => call'[d] = call[d]
        /\ call'[c].pc = "write" /\ call'[c].waiting = call[c].waiting
    BY <1>1, <1>5 DEF ReadActive, CallState
  <2> QED BY <1>5, <2>1 DEF ReadActive, Outstanding, history, serverVars, Fault, NoFault
<1>6. CASE WriteScore(c)
  <2>1. CallTo(c, "write", "reply")
    BY <1>6 DEF WriteScore
  <2>2. row'.status = row.status
    BY <1>1, <1>6 DEF WriteScore, Row
  <2> QED BY <1>2, <1>6, <2>1, <2>2 DEF WriteScore, Outstanding, history, Fault, NoFault
<1>7. CASE RefuseCall(c)
  <2>1. CallTo(c, call[c].pc, "refused") /\ call[c].pc \in {"update", "read", "write"}
    BY <1>7 DEF RefuseCall
  <2>2. /\ \A d \in Calls : d # c => call'[d] = call[d]
        /\ call'[c].pc = "refused" /\ call'[c].waiting = call[c].waiting
    BY <1>2, <2>1
  <2> QED BY <1>7, <2>1, <2>2 DEF RefuseCall, Outstanding, serverVars, Fault
<1>8. CASE Reply(c)
  BY <1>3, <1>8 DEF Reply, Outstanding, serverVars, history
<1>9. CASE Revert(c)
  <2>1. \A p \in Visits : page'[p].pc = page[p].pc /\ page'[p].list = page[p].list
    BY <1>1, <1>9 DEF Revert, RestorePrevious, PageState
  <2>2. call[c].waiting /\ call[c].pc # "unused"
    BY <1>9 DEF Revert, Shown
  <2>3. /\ \A d \in Calls : d # c => call'[d] = call[d]
        /\ call'[c].pc \in {"end", call[c].pc} /\ ~ call'[c].waiting
    <3>1. CASE call' = [call EXCEPT ![c].waiting = FALSE]
      BY <1>1, <3>1 DEF CallState
    <3> QED BY <1>3, <1>9, <3>1 DEF Revert
  <2> QED BY <1>9, <2>1, <2>2, <2>3 DEF Revert, Outstanding, serverVars, Fault, NoFault
<1> QED BY <1>4, <1>5, <1>6, <1>7, <1>8, <1>9 DEF CallStep

(* The one handler under way writes what it has read, and nothing came in between. *)
LEMMA CallKeepsScore ==
  ASSUME CoverInv, Shown, ScoreInv, NEW c \in Calls, CallStep(c)
  PROVE  ScoreInv'
<1> SUFFICES ASSUME orderly'
             PROVE  OneRun' /\ OneCall' /\ (faults' \cap ScoreFaults = {} => ScoreCurrent')
  BY DEF ScoreInv
<1>1. OneRun /\ OneCall /\ (faults' \cap ScoreFaults = {} => ScoreCurrent)
  BY CallEffect DEF ScoreInv
<1>2. call[c] \in CallState /\ call \in [Calls -> CallState] /\ row \in Row
  BY DEF CoverInv, ReviewTypeOK
<1>3. OneCall'
  BY ZenonT(30), <1>1, CallEffect DEF OneCall, Outstanding
<1>4. Reviewed' => Reviewed
  BY CallEffect DEF Reviewed
<1>5. OneRun'
  BY ZenonT(30), <1>1, <1>4, CallEffect DEF OneRun, Found
<1>6. \A d \in Calls : d # c => call'[d] = call[d] /\ call[d].pc \notin {"update", "read", "write"}
  BY <1>1, CallEffect DEF OneCall, Outstanding
<1>7. ASSUME faults' \cap ScoreFaults = {} PROVE ScoreCurrent'
  <2>1. ScoreCurrent /\ UNCHANGED rows
    BY <1>1, <1>7, CallEffect
  <2>2. CASE UpdateIgnored(c)
    <3>1. call'[c].pc = "read"
      BY <1>2, <2>2 DEF UpdateIgnored, CallTo
    <3> QED BY <1>6, <3>1 DEF ScoreCurrent
  <2>3. CASE ReadActive(c)
    <3>1. call'[c].pc = "write" /\ call'[c].active = rows \ waived /\ waived' = waived
      BY <1>2, <1>7, <2>3 DEF ReadActive, CallState, Fault, ScoreFaults, serverVars
    <3> QED BY <1>6, <2>1, <3>1 DEF ScoreCurrent
  <2>4. CASE WriteScore(c)
    <3>1. call[c].pc = "write" /\ call'[c].pc = "reply" /\ waived' = waived
            /\ row'.score = call[c].active
      BY <1>2, <1>7, <2>4 DEF WriteScore, CallTo, Row, CallState, Fault, ScoreFaults
    <3> QED BY <1>6, <2>1, <3>1 DEF ScoreCurrent
  <2>5. CASE RefuseCall(c)
    BY <1>7, <2>5 DEF RefuseCall, Fault, ScoreFaults
  <2>6. CASE Reply(c) \/ Revert(c)
    <3>1. UNCHANGED <<row, rows, waived>>
      BY <2>6 DEF Reply, Revert, serverVars
    <3>2. /\ call'[c].pc = "write" => call[c].pc = "write" /\ call'[c].active = call[c].active
          /\ call'[c].pc \notin {"read", "write"} => call[c].pc \notin {"read", "write"}
      <4>1. CASE call' = [call EXCEPT ![c].waiting = FALSE]
        BY <1>2, <4>1 DEF CallState
      <4>2. CASE Answered(c) /\ call[c].pc \in {"reply", "refused"}
        BY <1>2, <4>2 DEF Answered, Unused
      <4> QED BY <2>6, <4>1, <4>2 DEF Reply, Revert
    <3> QED BY <1>6, <2>1, <3>1, <3>2 DEF ScoreCurrent
  <2> QED BY <2>2, <2>3, <2>4, <2>5, <2>6 DEF CallStep
<1> QED BY <1>3, <1>5, <1>7

-----------------------------------------------------------------------------
(* What is shown is stored.                                                  *)
LEMMA ShownInit == ReviewInit => Shown
BY DEF ReviewInit, Shown, Unused

LEMMA RunKeepsShown ==
  ASSUME CoverInv, Shown, NEW r \in Runs, RunStep(r)
  PROVE  Shown'
<1>1. /\ UNCHANGED <<page, call, trusted>> /\ rows \subseteq rows'
      /\ blob' = blob \/ (blob' = Found(r) /\ Found(r) \subseteq rows)
  BY RunEffect
<1> QED BY <1>1 DEF Shown

LEMMA VisitKeepsShown ==
  ASSUME CoverInv, Shown, NEW p \in Visits, VisitStep(p)
  PROVE  Shown'
<1>1. page \in [Visits -> PageState] /\ call \in [Calls -> CallState]
        /\ trusted \in [Visits -> SUBSET Violations]
  BY DEF CoverInv, ReviewTypeOK
<1>2. CASE OpenJob(p)
  <2>1. \A q \in Visits : page'[q].list = page[q].list
    BY <1>1, <1>2 DEF OpenJob, PageState
  <2> QED BY <1>2, <2>1 DEF OpenJob, Shown, serverVars, history
<1>3. CASE OpenList(p)
  <2> DEFINE list == IF FromS3(p) THEN blob ELSE rows
             ign  == IF FromS3(p) THEN {} ELSE waived
             same == {v \in list : v \in ign <=> v \in waived} \ InUse
  <2>1. page'[p].list = list /\ trusted'[p] = same
    BY <1>1, <1>3 DEF OpenList
  <2>2. \A q \in Visits : q # p => page'[q] = page[q] /\ trusted'[q] = trusted[q]
    BY <1>1, <1>3 DEF OpenList
  <2>3. list \subseteq rows /\ same \subseteq list
    BY DEF Shown
  <2> HIDE DEF list, same
  <2> QED BY <1>3, <2>1, <2>2, <2>3 DEF OpenList, Shown, serverVars
<1>4. ASSUME NEW c \in Calls, ClickOne(p, c) \/ ClickLayer(p, c)
      PROVE  Shown'
  <2>1. PICK sel \in SUBSET Violations, flag \in BOOLEAN : Click(p, c, sel, flag)
    BY <1>4, Clicks DEF CoverInv
  <2>2. UNCHANGED <<rows, blob>> /\ \A q \in Visits : page'[q].list = page[q].list
    BY <1>1, <2>1 DEF Click, serverVars, PageState
  <2>3. \A q \in Visits : trusted'[q] \subseteq trusted[q]
    BY <2>1 DEF Click
  <2>4. /\ \A d \in Calls : d # c => call'[d] = call[d]
        /\ call'[c].pc = "update" /\ call'[c].sel = sel
        /\ call'[c].previous = sel \cap page[p].waived
    BY <1>1, <2>1 DEF Click
  <2> QED BY <2>2, <2>3, <2>4 DEF Shown
<1> QED BY <1>2, <1>3, <1>4 DEF VisitStep

LEMMA TrustShrinks ==
  ASSUME CoverInv, NEW c \in Calls, CallStep(c)
  PROVE  \A q \in Visits : trusted'[q] \subseteq trusted[q]
BY DEF CallStep, UpdateIgnored, ReadActive, WriteScore, RefuseCall, Reply, Revert, history,
       CoverInv, ReviewTypeOK

LEMMA CallKeepsShown ==
  ASSUME CoverInv, Shown, NEW c \in Calls, CallStep(c)
  PROVE  Shown'
<1>1. call \in [Calls -> CallState]
  BY DEF CoverInv, ReviewTypeOK
<1>2. call'[c].previous \subseteq call'[c].sel
  <2>1. CASE call'[c].previous = call[c].previous /\ call'[c].sel = call[c].sel
    BY <2>1 DEF Shown
  <2>2. CASE Answered(c)
    BY <1>1, <2>2 DEF Answered, Unused
  <2>3. ASSUME NEW from, NEW to, CallTo(c, from, to)
        PROVE  call'[c].previous = call[c].previous /\ call'[c].sel = call[c].sel
    BY <1>1, <2>3 DEF CallTo, CallState
  <2>4. CASE UpdateIgnored(c) \/ WriteScore(c) \/ RefuseCall(c)
    BY <2>1, <2>3, <2>4 DEF UpdateIgnored, WriteScore, RefuseCall
  <2>5. CASE ReadActive(c)
    BY <1>1, <2>1, <2>5 DEF ReadActive, CallState
  <2>6. CASE Reply(c)
    BY <2>2, <2>6 DEF Reply
  <2>7. CASE Revert(c)
    <3>1. CASE call' = [call EXCEPT ![c].waiting = FALSE]
      BY <1>1, <2>1, <3>1 DEF CallState
    <3> QED BY <2>2, <2>7, <3>1 DEF Revert
  <2> QED BY <2>4, <2>5, <2>6, <2>7 DEF CallStep
<1>3. call'[c].pc \in {"unused", "end"} => ~ call'[c].waiting
  BY CallEffect
<1>4. \A d \in Calls : /\ call'[d].previous \subseteq call'[d].sel
                       /\ call'[d].pc \in {"unused", "end"} => ~ call'[d].waiting
  <2> SUFFICES ASSUME NEW d \in Calls
               PROVE  /\ call'[d].previous \subseteq call'[d].sel
                      /\ call'[d].pc \in {"unused", "end"} => ~ call'[d].waiting
    OBVIOUS
  <2>1. CASE d = c
    BY <1>2, <1>3, <2>1
  <2>2. CASE d # c
    BY <2>2, CallEffect DEF Shown
  <2> QED BY <2>1, <2>2
<1> QED BY <1>4, CallEffect, TrustShrinks DEF Shown

-----------------------------------------------------------------------------
(* What the pages foretell.                                                  *)

Agreed(p, v) == (\A d \in Calls : ~ Uses(d, v)) => (v \in page[p].waived <=> v \in waived)

LEMMA SettlesMeans ==
  ASSUME ReviewTypeOK
  PROVE  PageSettles <=> \A p \in Visits : \A v \in trusted[p] : Agreed(p, v)
<1>1. \A p \in Visits : \A v \in trusted[p] : v \in Violations
  BY DEF ReviewTypeOK
<1>2. \A v \in Violations : v \in InUse <=> \E d \in Calls : Uses(d, v)
  BY DEF InUse, Uses
<1> QED BY <1>1, <1>2 DEF PageSettles, Agreed

LEMMA SettlesNext ==
  ASSUME ReviewTypeOK', \A p \in Visits : \A v \in trusted'[p] : Agreed(p, v)'
  PROVE  PageSettles'
<1>1. \A p \in Visits : \A v \in trusted'[p] : v \in Violations
  BY DEF ReviewTypeOK
<1>2. \A v \in Violations : v \in InUse' <=> \E d \in Calls : Uses(d, v)'
  BY DEF InUse, Uses, Outstanding
<1> QED BY <1>1, <1>2 DEF PageSettles, Agreed, Uses, Outstanding

LEMMA PagesInit == ReviewInit => PagesForetell /\ PageSettles
BY DEF ReviewInit, PagesForetell, PageSettles

(* A step that leaves a violation, its flags and the calls on it alone. *)
LEMMA LeftAlone ==
  ASSUME NEW p \in Visits, NEW v,
         v \in waived' <=> v \in waived,
         v \in page'[p].waived <=> v \in page[p].waived,
         \A d \in Calls : call'[d] = call[d] \/ (~ Uses(d, v) /\ ~ Uses(d, v)')
  PROVE  /\ Agreed(p, v) => Agreed(p, v)'
         /\ (\A c \in Calls : Uses(c, v) => Foretold(p, v, c))
              => \A c \in Calls : Uses(c, v)' => Foretold(p, v, c)'
<1>1. \A d \in Calls : /\ Uses(d, v)' <=> Uses(d, v)
                       /\ Uses(d, v) => call'[d] = call[d]
  BY DEF Uses, Outstanding
<1>2. Agreed(p, v) => Agreed(p, v)'
  BY <1>1 DEF Agreed
<1>3. \A c \in Calls : Uses(c, v) /\ Foretold(p, v, c) => Foretold(p, v, c)'
  BY <1>1 DEF Foretold
<1> QED BY <1>1, <1>2, <1>3

LEMMA RunKeepsPages ==
  ASSUME CoverInv, CoverInv', PagesForetell, PageSettles, NEW r \in Runs, RunStep(r)
  PROVE  PagesForetell' /\ PageSettles'
<1>1. UNCHANGED <<waived, page, call, trusted>>
  BY RunEffect
<1> QED BY <1>1 DEF PagesForetell, Foretold, PageSettles, Uses, Outstanding, InUse

(* The click that takes a violation finds it settled. *)
LEMMA ClickKeepsPages ==
  ASSUME CoverInv, CoverInv', Shown, PagesForetell, PageSettles, NEW p \in Visits,
         NEW c \in Calls, NEW sel \in SUBSET Violations, NEW flag \in BOOLEAN,
         Click(p, c, sel, flag)
  PROVE  PagesForetell' /\ PageSettles'
<1>1. page \in [Visits -> PageState] /\ call \in [Calls -> CallState]
        /\ trusted \in [Visits -> SUBSET Violations]
  BY DEF CoverInv, ReviewTypeOK
<1>2. /\ \A d \in Calls : d # c => call'[d] = call[d]
      /\ call'[c] = [pc |-> "update", waiting |-> TRUE, page |-> p, flag |-> flag,
                     sel |-> sel, previous |-> sel \cap page[p].waived, active |-> {}]
      /\ ~ Outstanding(c)
  BY <1>1 DEF Click, Shown, Outstanding
<1>3. waived' = waived
  BY DEF Click, serverVars
<1>4. /\ \A q \in Visits : q # p => page'[q] = page[q]
      /\ page'[p].waived = IF flag THEN page[p].waived \cup (sel \cap page[p].list)
                                   ELSE page[p].waived \ sel
  BY <1>1 DEF Click, PageState
<1>5. \A q \in Visits : trusted'[q] = IF q = p THEN trusted[q] \ (sel \cap InUse)
                                              ELSE trusted[q] \ sel
  BY DEF Click
<1>6. \A q \in Visits : \A v \in trusted[q] :
         Agreed(q, v) /\ \A d \in Calls : Uses(d, v) => Foretold(q, v, d)
  BY SettlesMeans DEF CoverInv, PagesForetell
<1>7. ASSUME NEW q \in Visits, NEW v \in trusted'[q]
      PROVE  Agreed(q, v)' /\ \A d \in Calls : Uses(d, v)' => Foretold(q, v, d)'
  <2>1. v \in trusted[q]
    BY <1>5
  <2>2. CASE v \notin sel
    <3>1. v \in page'[q].waived <=> v \in page[q].waived
      BY <1>4, <2>2
    <3>2. ~ Uses(c, v) /\ ~ Uses(c, v)'
      BY <1>2, <2>2 DEF Uses
    <3> QED BY <1>2, <1>3, <1>6, <2>1, <3>1, <3>2, LeftAlone
  <2>3. CASE v \in sel
    <3>1. q = p /\ v \notin InUse
      BY <1>5, <2>3
    <3>2. \A d \in Calls : ~ Uses(d, v)
      BY <2>3, <3>1 DEF InUse, Uses
    <3>3. v \in page[p].waived <=> v \in waived
      BY <1>6, <2>1, <3>1, <3>2 DEF Agreed
    <3>4. v \in page[p].list
      BY <2>1, <3>1 DEF Shown
    <3>5. \A d \in Calls : Uses(d, v)' <=> d = c
      BY <1>2, <2>3, <3>2 DEF Uses, Outstanding
    <3>6. Foretold(p, v, c)'
      <4>1. v \in page'[p].waived <=> flag
        BY <1>4, <2>3, <3>4
      <4>2. v \in waived' <=> v \in sel \cap page[p].waived
        BY <1>3, <2>3, <3>3
      <4> QED BY <1>2, <3>5, <4>1, <4>2 DEF Foretold
    <3> QED BY <3>1, <3>5, <3>6 DEF Agreed
  <2> QED BY <2>2, <2>3
<1>8. PagesForetell'
  BY <1>7 DEF PagesForetell
<1> QED BY <1>7, <1>8, SettlesNext DEF CoverInv

LEMMA VisitKeepsPages ==
  ASSUME CoverInv, CoverInv', Shown, PagesForetell, PageSettles, NEW p \in Visits,
         VisitStep(p)
  PROVE  PagesForetell' /\ PageSettles'
<1>1. page \in [Visits -> PageState] /\ trusted \in [Visits -> SUBSET Violations]
  BY DEF CoverInv, ReviewTypeOK
<1>2. CASE OpenJob(p)
  <2>1. \A q \in Visits : page'[q].waived = page[q].waived
    BY <1>1, <1>2 DEF OpenJob, PageState
  <2>2. UNCHANGED <<waived, call, trusted>>
    BY <1>2 DEF OpenJob, serverVars, history
  <2> QED BY <2>1, <2>2 DEF PagesForetell, Foretold, PageSettles, Uses, Outstanding, InUse
<1>3. CASE OpenList(p)
  <2> DEFINE list == IF FromS3(p) THEN blob ELSE rows
             ign  == IF FromS3(p) THEN {} ELSE waived
             same == {v \in list : v \in ign <=> v \in waived} \ InUse
  <2>1. page'[p].waived = ign /\ trusted'[p] = same
    BY <1>1, <1>3 DEF OpenList
  <2>2. \A q \in Visits : q # p => page'[q] = page[q] /\ trusted'[q] = trusted[q]
    BY <1>1, <1>3 DEF OpenList
  <2>3. UNCHANGED <<waived, call>>
    BY <1>3 DEF OpenList, serverVars
  <2>4. InUse' = InUse
    BY <2>3 DEF InUse, Uses, Outstanding
  <2>5. \A v \in same : /\ v \notin InUse /\ v \in Violations
                        /\ v \in ign <=> v \in waived
    BY DEF CoverInv, ReviewTypeOK
  <2>6. \A v \in same : \A c \in Calls : ~ Uses(c, v)'
    BY <2>3, <2>5 DEF InUse, Uses, Outstanding
  <2> HIDE DEF ign, same
  <2>7. PageSettles'
    BY <2>1, <2>2, <2>3, <2>4, <2>5 DEF PageSettles
  <2>8. PagesForetell'
    <3>1. ASSUME NEW q \in Visits, q # p, NEW v \in trusted[q], NEW c \in Calls, Uses(c, v)'
          PROVE  Foretold(q, v, c)'
      BY <2>2, <2>3, <3>1 DEF PagesForetell, Foretold, Uses, Outstanding
    <3> QED BY <2>1, <2>2, <2>6, <3>1 DEF PagesForetell
  <2> QED BY <2>7, <2>8
<1>4. ASSUME NEW c \in Calls, ClickOne(p, c) \/ ClickLayer(p, c)
      PROVE  PagesForetell' /\ PageSettles'
  <2>1. PICK sel \in SUBSET Violations, flag \in BOOLEAN : Click(p, c, sel, flag)
    BY <1>4, Clicks DEF CoverInv
  <2> QED BY <2>1, ClickKeepsPages
<1> QED BY <1>2, <1>3, <1>4 DEF VisitStep

(* A violation a call is about: what becomes of its flags and of the call. *)
LEMMA UsedBy ==
  ASSUME CoverInv, CoverInv', Shown, NEW c \in Calls, CallStep(c),
         NEW q \in Visits, NEW v \in trusted'[q], v \in call[c].sel,
         Uses(c, v) => Foretold(q, v, c)
  PROVE  Agreed(q, v)' /\ \A d \in Calls : Uses(d, v)' => Foretold(q, v, d)'
<1>1. page \in [Visits -> PageState] /\ call \in [Calls -> CallState]
        /\ trusted \in [Visits -> SUBSET Violations]
  BY DEF CoverInv, ReviewTypeOK
<1>2. Outstanding(c) /\ \A d \in Calls : d # c => call'[d] = call[d]
  BY CallEffect
<1>3. Foretold(q, v, c)
  BY <1>2 DEF Uses
<1>4. \A d \in Calls : d # c => ~ Uses(d, v) /\ ~ Uses(d, v)'
  BY <1>2, <1>3 DEF Foretold, Uses, Outstanding
<1>5. v \in rows
  BY TrustShrinks DEF Shown
<1>6. ASSUME call'[c].page = call[c].page, call'[c].waiting, call'[c].sel = call[c].sel,
             call'[c].flag = call[c].flag, call'[c].previous = call[c].previous,
             page' = page,
             IF call'[c].pc \in {"update", "refused"}
             THEN v \in waived' <=> v \in call[c].previous
             ELSE v \in waived' <=> call[c].flag
      PROVE  Agreed(q, v)' /\ \A d \in Calls : Uses(d, v)' => Foretold(q, v, d)'
  <2>1. Uses(c, v)' => Foretold(q, v, c)'
    BY <1>3, <1>4, <1>6 DEF Foretold
  <2>2. Agreed(q, v)'
    BY <1>3, <1>6 DEF Agreed, Foretold, Uses, Outstanding
  <2> QED BY <1>4, <2>1, <2>2
<1>7. ASSUME ~ Uses(c, v)', v \in page'[q].waived <=> v \in waived'
      PROVE  Agreed(q, v)' /\ \A d \in Calls : Uses(d, v)' => Foretold(q, v, d)'
  BY <1>4, <1>7 DEF Agreed
<1>8. call[c] \in CallState
  BY <1>1
<1>9. CASE UpdateIgnored(c)
  <2>1. /\ call[c].pc = "update"
        /\ call'[c] = [call[c] EXCEPT !.pc = "read"]
    BY <1>1, <1>9 DEF UpdateIgnored, CallTo
  <2>2. v \in waived' <=> call[c].flag
    BY <1>5, <1>9 DEF UpdateIgnored
  <2>3. page' = page
    BY <1>9 DEF UpdateIgnored
  <2> QED BY <1>3, <1>6, <1>8, <2>1, <2>2, <2>3 DEF Foretold, CallState
<1>10. CASE ReadActive(c)
  <2>1. call[c].pc = "read"
    BY <1>10 DEF ReadActive
  <2>2. /\ call'[c].page = call[c].page /\ call'[c].waiting = call[c].waiting
        /\ call'[c].flag = call[c].flag /\ call'[c].previous = call[c].previous
        /\ call'[c].sel = call[c].sel /\ call'[c].pc = "write"
    BY <1>1, <1>10 DEF ReadActive, CallState
  <2>3. page' = page /\ waived' = waived
    BY <1>10 DEF ReadActive, serverVars
  <2> QED BY <1>3, <1>6, <2>1, <2>2, <2>3 DEF Foretold
<1>11. CASE WriteScore(c)
  <2>1. call[c].pc = "write" /\ call'[c] = [call[c] EXCEPT !.pc = "reply"]
    BY <1>1, <1>11 DEF WriteScore, CallTo
  <2>2. page' = page /\ waived' = waived
    BY <1>11 DEF WriteScore
  <2> QED BY <1>3, <1>6, <1>8, <2>1, <2>2 DEF Foretold, CallState
<1>12. CASE RefuseCall(c)
  <2>1. call[c].pc = "update"
    BY <1>1, <1>12 DEF RefuseCall
  <2>2. call'[c] = [call[c] EXCEPT !.pc = "refused"]
    BY <1>1, <1>12 DEF RefuseCall, CallTo
  <2>3. page' = page /\ waived' = waived
    BY <1>12 DEF RefuseCall, serverVars
  <2> QED BY <1>3, <1>6, <1>8, <2>1, <2>2, <2>3 DEF Foretold, CallState
<1>13. CASE Reply(c)
  <2>1. call[c].pc = "reply" /\ page' = page /\ waived' = waived
    BY <1>13 DEF Reply, serverVars
  <2>2. ~ Uses(c, v)'
    BY <1>1, <1>13 DEF Reply, Answered, Unused, Uses, Outstanding
  <2> QED BY <1>3, <1>7, <2>1, <2>2 DEF Foretold
<1>14. CASE Revert(c)
  <2>1. call[c].pc = "refused" /\ Answered(c)
    BY <1>1, <1>14 DEF Revert
  <2>2. ~ Uses(c, v)'
    BY <1>1, <2>1 DEF Answered, Unused, Uses, Outstanding
  <2>3. page'[q].waived = (page[q].waived \ call[c].sel) \cup call[c].previous
    BY <1>1, <1>3, <1>14 DEF Revert, RestorePrevious, Foretold, PageState
  <2>4. waived' = waived
    BY <1>14 DEF Revert, serverVars
  <2> QED BY <1>3, <1>7, <2>1, <2>2, <2>3, <2>4 DEF Foretold
<1> QED BY <1>9, <1>10, <1>11, <1>12, <1>13, <1>14 DEF CallStep

LEMMA CallKeepsPages ==
  ASSUME CoverInv, CoverInv', Shown, PagesForetell, PageSettles, NEW c \in Calls,
         CallStep(c)
  PROVE  PagesForetell' /\ PageSettles'
<1>1. page \in [Visits -> PageState] /\ call \in [Calls -> CallState]
        /\ trusted \in [Visits -> SUBSET Violations]
  BY DEF CoverInv, ReviewTypeOK
<1>2. \A d \in Calls : d # c => call'[d] = call[d]
  BY CallEffect
<1>3. \A q \in Visits : \A v \in trusted[q] :
         Agreed(q, v) /\ \A d \in Calls : Uses(d, v) => Foretold(q, v, d)
  BY SettlesMeans DEF CoverInv, PagesForetell
<1>4. ASSUME NEW q \in Visits, NEW v \in trusted'[q]
      PROVE  Agreed(q, v)' /\ \A d \in Calls : Uses(d, v)' => Foretold(q, v, d)'
  <2>1. v \in trusted[q]
    BY TrustShrinks
  <2>2. CASE v \in call[c].sel
    BY <1>3, <2>1, <2>2, UsedBy
  <2>3. CASE v \notin call[c].sel
    <3>1. v \notin call'[c].sel
      <4>1. CASE Answered(c)
        BY <1>1, <4>1 DEF Answered, Unused
      <4>2. CASE call'[c].sel = call[c].sel
        BY <2>3, <4>2
      <4>3. CASE UpdateIgnored(c) \/ ReadActive(c) \/ WriteScore(c) \/ RefuseCall(c)
        BY <1>1, <4>2, <4>3 DEF UpdateIgnored, ReadActive, WriteScore, RefuseCall, CallTo,
           CallState
      <4>4. CASE Reply(c) \/ Revert(c)
        BY <1>1, <4>1, <4>2, <4>4 DEF Reply, Revert, CallState
      <4> QED BY <4>3, <4>4 DEF CallStep
    <3>2. v \in waived' <=> v \in waived
      BY <2>3 DEF CallStep, UpdateIgnored, ReadActive, WriteScore, RefuseCall, Reply, Revert,
         serverVars
    <3>3. v \in page'[q].waived <=> v \in page[q].waived
      <4>1. CASE Revert(c)
        <5>1. call[c].previous \subseteq call[c].sel
          BY DEF Shown
        <5> QED BY <1>1, <2>3, <4>1, <5>1 DEF Revert, RestorePrevious, PageState
      <4>2. CASE page' = page
        BY <4>2
      <4> QED BY <4>1, <4>2 DEF CallStep, UpdateIgnored, ReadActive, WriteScore, RefuseCall,
             Reply
    <3>4. ~ Uses(c, v) /\ ~ Uses(c, v)'
      BY <2>3, <3>1 DEF Uses
    <3> QED BY <1>2, <1>3, <2>1, <3>2, <3>3, <3>4, LeftAlone
  <2> QED BY <2>2, <2>3
<1>5. PagesForetell'
  BY <1>4 DEF PagesForetell
<1> QED BY <1>4, <1>5, SettlesNext DEF CoverInv

-----------------------------------------------------------------------------
(* The whole invariant: besides CoverInv, what an undisturbed score and the flags of
   a page rest on (jobs.go:111-214, page.tsx:65-91, ProcessJob). *)
THEOREM ReviewHolds == ReviewSpec => []ReviewInv
<1>1. ReviewInit => ReviewInv
  BY ReviewInitInv, ScoreInvInit, ShownInit, PagesInit DEF ReviewInv
<1>2. ReviewInv /\ CoverInv' /\ [ReviewNext]_reviewVars => ReviewInv'
  <2> SUFFICES ASSUME ReviewInv, CoverInv', [ReviewNext]_reviewVars PROVE ReviewInv'
    OBVIOUS
  <2>1. CoverInv /\ ScoreInv /\ Shown /\ PagesForetell /\ PageSettles
    BY DEF ReviewInv
  <2>2. ASSUME NEW r \in Runs, RunStep(r) PROVE ReviewInv'
    BY <2>1, <2>2, RunKeepsScore, RunKeepsShown, RunKeepsPages DEF ReviewInv
  <2>3. ASSUME NEW p \in Visits, VisitStep(p) PROVE ReviewInv'
    BY <2>1, <2>3, VisitKeepsScore, VisitKeepsShown, VisitKeepsPages DEF ReviewInv
  <2>4. ASSUME NEW c \in Calls, CallStep(c) PROVE ReviewInv'
    BY <2>1, <2>4, CallKeepsScore, CallKeepsShown, CallKeepsPages DEF ReviewInv
  <2>5. CASE UNCHANGED reviewVars
    <3>1. ScoreInv'
      BY <2>1, <2>5 DEF reviewVars, ScoreInv, OneRun, OneCall, ScoreCurrent, Reviewed,
         Outstanding, Found
    <3>2. Shown'
      BY <2>1, <2>5 DEF reviewVars, Shown
    <3>3. PagesForetell' /\ PageSettles'
      BY <2>1, <2>5 DEF reviewVars, PagesForetell, Foretold, PageSettles, Uses, Outstanding,
         InUse
    <3> QED BY <3>1, <3>2, <3>3 DEF ReviewInv
  <2> QED BY <2>2, <2>3, <2>4, <2>5 DEF ReviewNext
<1> QED
  BY <1>1, <1>2, ReviewInvariance, PTL DEF ReviewSpec

(* One run and one call at a time: the score is that of exactly the violations that
   are not waived (jobs.go:133-149, 183-214). *)
THEOREM ScoresExact == ReviewSpec => []ScoreExact
<1>1. ReviewInv => ScoreExact
  BY DEF ReviewInv, ScoreInv, ScoreCurrent, ScoreExact, Outstanding
<1> QED BY <1>1, ReviewHolds, PTL

(* Refused calls and mixed selections included, the flags of a page end as those of
   the table (page.tsx:65-91). *)
THEOREM PagesSettle == ReviewSpec => []PageSettles
<1>1. ReviewInv => PageSettles
  BY DEF ReviewInv
<1> QED BY <1>1, ReviewHolds, PTL
=============================================================================
