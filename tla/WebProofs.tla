------------------------------ MODULE WebProofs ------------------------------
(***************************************************************************)
(* Proofs about what the pages of the browser show: that it is of the job   *)
(* selected on the share page (SharePage), that the dashboard asks for the  *)
(* counts of a submission once at a time (SubmissionList), that a verdict   *)
(* is the batch's (BatchPage) and that the editors show one row (Admin);    *)
(* then that every page keeps its invariant (MCWeb).                       *)
(***************************************************************************)
EXTENDS MCWeb, SessionProofs, UploadProofs, ViewerProofs, TLAPS

(***************************************************************************)
(* SharePage                                                               *)
(***************************************************************************)
LEMMA NoLoadIsLoad == NoLoad \in Load
BY DEF NoLoad, Load

LEMMA SharePageInitInv == SharePageInit => SharePageInv
<1> SUFFICES ASSUME SharePageInit PROVE SharePageInv
  OBVIOUS
<1>1. SharePageTypeOK
  BY NoLoadIsLoad DEF SharePageInit, SharePageTypeOK
<1>2. LoadsOfSelected
  BY DEF SharePageInit, LoadsOfSelected, NoLoad
<1> QED BY <1>1, <1>2 DEF SharePageInv

(* A load that is started is of its job, and the others stay what they are. *)
LEMMA StartLoadTypes ==
  ASSUME SharePageTypeOK, NEW j \in SharedJobs, StartLoad(j)
  PROVE  /\ loads' \in [Loads -> Load]
         /\ \A l \in Loads : loads'[l].job \in {loads[l].job, j}
<1>1. PICK l \in Loads : loads' = [loads EXCEPT ![l] = [job |-> j, asks |-> {"job"}]]
  BY DEF StartLoad
<1>2. [job |-> j, asks |-> {"job"}] \in Load
  BY DEF Load
<1> QED BY <1>1, <1>2 DEF SharePageTypeOK

(* An answer leaves a load with its job, or ends it. *)
LEMMA AnsweredTypes ==
  ASSUME SharePageTypeOK, NEW l \in Loads, NEW ask \in loads[l].asks,
         NEW more \in SUBSET {"job", "violations", "board"}, Answered(l, ask, more)
  PROVE  /\ loads' \in [Loads -> Load]
         /\ \A k \in Loads : loads'[k].job \in {loads[k].job, NoJob}
         /\ loads[l].job \in SharedJobs
<1> DEFINE rest == (loads[l].asks \ {ask}) \cup more
<1>1. loads[l] \in Load /\ loads[l] # NoLoad
  BY DEF SharePageTypeOK, NoLoad
<1>2. loads[l].job \in SharedJobs /\ loads[l].asks \in SUBSET {"job", "violations", "board"}
        /\ loads[l] = [job |-> loads[l].job, asks |-> loads[l].asks]
  BY <1>1 DEF Load
<1>3. [loads[l] EXCEPT !.asks = rest] \in Load
        /\ [loads[l] EXCEPT !.asks = rest].job = loads[l].job
  BY <1>2 DEF Load
<1>4. loads' = [loads EXCEPT ![l] = IF rest = {} THEN NoLoad
                                    ELSE [loads[l] EXCEPT !.asks = rest]]
  BY DEF Answered
<1>5. NoLoad \in Load /\ NoLoad.job = NoJob
  BY NoLoadIsLoad DEF NoLoad
<1> HIDE DEF rest
<1> QED BY <1>2, <1>3, <1>4, <1>5 DEF SharePageTypeOK

-----------------------------------------------------------------------------
LEMMA LinkKeeps == ASSUME SharePageInv, ShareAnswered PROVE SharePageInv'
<1>1. loads' \in [Loads -> Load]
  BY StartLoadTypes DEF ShareAnswered, SharePageInv, SharePageTypeOK
<1>2. SharePageTypeOK'
  BY <1>1 DEF ShareAnswered, SharePageInv, SharePageTypeOK, shownVars, uploadState
<1>3. LoadsOfSelected'
  BY DEF ShareAnswered, SharePageInv, LoadsOfSelected, shownVars, uploadState
<1> QED BY <1>2, <1>3 DEF SharePageInv

(* With no job selected there are only the loads that were left. *)
LEMMA SelectKeeps ==
  ASSUME SharePageInv, NEW j \in SharedJobs, SelectJob(j) PROVE SharePageInv'
<1>1. /\ loads' \in [Loads -> Load]
      /\ \A l \in Loads : loads'[l].job \in {loads[l].job, j}
  BY StartLoadTypes DEF SelectJob, SharePageInv
<1>2. SharePageTypeOK'
  BY <1>1 DEF SelectJob, SharePageInv, SharePageTypeOK, shownVars, uploadState
<1>3. selectedJob = NoJob
  BY DEF SelectJob, InJobView
<1>4. LoadsOfSelected'
  BY <1>1, <1>3 DEF SelectJob, SharePageInv, LoadsOfSelected, shownVars, uploadState
<1> QED BY <1>2, <1>4 DEF SharePageInv

LEMMA AnswerKeeps ==
  ASSUME SharePageInv, NEW l \in Loads, LoadAnswered(l) PROVE SharePageInv'
<1>1. /\ loads' \in [Loads -> Load]
      /\ \A k \in Loads : loads'[k].job \in {loads[k].job, NoJob}
      /\ loads[l].job \in SharedJobs
  <2>1. CASE "job" \in loads[l].asks /\ Answered(l, "job", {"violations", "board"})
    BY <2>1, AnsweredTypes DEF SharePageInv
  <2>2. CASE "violations" \in loads[l].asks /\ Answered(l, "violations", {})
    BY <2>2, AnsweredTypes DEF SharePageInv
  <2>3. CASE "board" \in loads[l].asks /\ Answered(l, "board", {})
    BY <2>3, AnsweredTypes DEF SharePageInv
  <2> QED BY <2>1, <2>2, <2>3 DEF LoadAnswered
<1>2. {shownJob', shownViolations', shownBoard'}
        \subseteq {shownJob, shownViolations, shownBoard, loads[l].job}
  BY DEF LoadAnswered
<1>3. SharePageTypeOK'
  BY <1>1, <1>2 DEF LoadAnswered, SharePageInv, SharePageTypeOK, uploadState
<1>4. LoadsOfSelected'
  BY <1>1, <1>2 DEF LoadAnswered, SharePageInv, LoadsOfSelected, uploadState
<1> QED BY <1>3, <1>4 DEF SharePageInv

LEMMA FailureKeeps ==
  ASSUME SharePageInv, NEW l \in Loads, LoadFailed(l) PROVE SharePageInv'
<1>1. /\ loads' \in [Loads -> Load]
      /\ \A k \in Loads : loads'[k].job \in {loads[k].job, NoJob}
  BY AnsweredTypes DEF LoadFailed, SharePageInv
<1> QED BY <1>1 DEF LoadFailed, SharePageInv, SharePageTypeOK, LoadsOfSelected, shownVars,
     uploadState

(* "Back" forgets what is shown, and leaves the jobs that are being loaded behind. *)
LEMMA BackKeeps == ASSUME SharePageInv, Back PROVE SharePageInv'
<1>1. \A l \in Loads : loads[l] # NoLoad => loads[l].job \in SharedJobs
  BY DEF SharePageInv, SharePageTypeOK, Load
<1>2. UnderWay \subseteq SharedJobs
  BY <1>1 DEF UnderWay
<1>3. \A l \in Loads : loads[l].job \in {NoJob} \cup UnderWay
  BY DEF UnderWay, NoLoad
<1> QED BY <1>2, <1>3 DEF Back, SharePageInv, SharePageTypeOK, LoadsOfSelected, uploadState

(* The uploads have no part in it. *)
LEMMA UploadsKeep ==
  ASSUME SharePageInv,
         \/ UploadAnother
         \/ \E u \in Uploads : \/ UploadRevision(u) \/ RevisionAnswered(u)
                               \/ RevisionAnalyzing(u) \/ RevisionFailed(u)
  PROVE  SharePageInv'
<1>1. UNCHANGED <<shareType, selectedJob, shownVars, loads, leftLoading>>
  BY DEF UploadAnother, UploadRevision, RevisionAnswered, RevisionAnalyzing, RevisionFailed,
     shownVars
<1>2. uploads' \in [Uploads -> {"over", "create", "put", "analyze"}]
  BY DEF UploadAnother, UploadRevision, RevisionAnswered, RevisionAnalyzing, RevisionFailed,
     SharePageInv, SharePageTypeOK
<1>3. sharedRows' \subseteq SharedJobs /\ shareFailed' \in BOOLEAN /\ uploading' \in BOOLEAN
        /\ uploadSuccess' \in BOOLEAN
  BY DEF UploadAnother, UploadRevision, RevisionAnswered, RevisionAnalyzing, RevisionFailed,
     SharePageInv, SharePageTypeOK
<1> QED BY <1>1, <1>2, <1>3 DEF SharePageInv, SharePageTypeOK, LoadsOfSelected, shownVars

LEMMA SharePageStepInv == SharePageInv /\ [SharePageNext]_shareVars => SharePageInv'
<1>1. ASSUME SharePageInv, UNCHANGED shareVars PROVE SharePageInv'
  BY <1>1 DEF shareVars, shownVars, uploadState, SharePageInv, SharePageTypeOK,
     LoadsOfSelected
<1> QED BY <1>1, LinkKeeps, SelectKeeps, AnswerKeeps, FailureKeeps, BackKeeps, UploadsKeep
     DEF SharePageNext

(* What the page of a project link shows is of the selected job or of one that was
   still being loaded at the last "Back", however the answers of the loads of either
   interleave (share/[token]/page.tsx:122-142, 451-460). *)
THEOREM SharedIsSelected == SharePageSpec => []SharedMatches
<1>1. SharePageInv => SharedMatches
  BY DEF SharePageInv, LoadsOfSelected, SharedMatches
<1> QED BY <1>1, SharePageInitInv, SharePageStepInv, PTL DEF SharePageSpec

(***************************************************************************)
(* SubmissionList                                                          *)
(***************************************************************************)
LEMMA ListInitInv == ListInit => ListInv
<1> SUFFICES ASSUME ListInit PROVE ListInv
  OBVIOUS
<1>1. fetches \in [Slots -> Fetch]
  BY DEF ListInit, Fetch, Unsent, ListRow
<1>2. overview \in Overview /\ Absent \in ListRow
  BY ListAssumption DEF ListInit, Overview, Uncounted, ListRow
<1>3. counting \in [CountSlots -> 0 .. MaxJobs] /\ \A c \in CountSlots : counting[c] = 0
  BY ListAssumption DEF ListInit
<1>4. retryOn \in 0 .. MaxFetches
  BY ListAssumption DEF ListInit
<1>5. ListTypeOK
  BY <1>1, <1>2, <1>3, <1>4 DEF ListInit, ListTypeOK
<1> QED BY <1>3, <1>5 DEF ListInv, OneOverview

LEMMA SendTypes ==
  ASSUME ListTypeOK, NEW s \in Slots, Send(s) PROVE fetches' \in [Slots -> Fetch]
BY DEF Send, ListTypeOK, Fetch

(* A row that the API has, or would have after a start. *)
LEMMA NextJobTypes ==
  ASSUME ListTypeOK, actual # Absent, actual.job < MaxJobs PROVE NextJob \in ListRow
<1>1. actual.job \in 0 .. MaxJobs
  BY ListAssumption DEF ListTypeOK, ListRow, Jobs, Absent
<1>2. actual.job + 1 \in Jobs
  BY <1>1, ListAssumption DEF Jobs
<1> QED BY <1>2 DEF NextJob, ListRow

(* The effect of the panel asks only when no entry says "loading". *)
LEMMA PanelKeeps ==
  ASSUME ListInv, NEW row \in ListRow, NEW open, NEW entry,
         entry = overview \/ (entry = Uncounted /\ overview.state = "error"),
         PanelEffect(open, row, entry, counting)
  PROVE  /\ overview' \in Overview /\ counting' \in [CountSlots -> 0 .. MaxJobs]
         /\ OneOverview'
         /\ (\E c \in CountSlots : counting'[c] # 0) => overview'.state = "loading"
<1>1. Uncounted \in Overview /\ Uncounted.state = "none"
  BY ListAssumption DEF Uncounted, Overview
<1>2. ASSUME overview.state # "loading" PROVE \A c \in CountSlots : counting[c] = 0
  BY <1>2 DEF ListInv
<1>3. CASE overview' = entry /\ counting' = counting
  BY <1>1, <1>2, <1>3 DEF ListInv, ListTypeOK, OneOverview
<1>4. CASE ~ (overview' = entry /\ counting' = counting)
  <2>1. /\ entry = Uncounted /\ row.status = "DONE"
        /\ overview' = [state |-> "loading", job |-> row.job]
        /\ \E c \in CountSlots : counting' = [counting EXCEPT ![c] = row.job]
    BY <1>4 DEF PanelEffect
  <2>2. PICK c \in CountSlots : counting' = [counting EXCEPT ![c] = row.job]
    BY <2>1
  <2>3. row.job \in 0 .. MaxJobs
    BY ListAssumption DEF ListRow, Jobs, Absent
  <2>4. \A d \in CountSlots : counting[d] = 0
    BY <1>1, <1>2, <2>1
  <2>5. counting' \in [CountSlots -> 0 .. MaxJobs]
          /\ \A d \in CountSlots : d # c => counting'[d] = 0
    BY <2>2, <2>3, <2>4 DEF ListInv, ListTypeOK
  <2>6. overview' \in Overview /\ overview'.state = "loading"
    BY <2>1, <2>3 DEF Overview
  <2> QED BY <2>5, <2>6 DEF OneOverview
<1> QED BY <1>3, <1>4

-----------------------------------------------------------------------------
(* Where the panel is as it was, types are all there is to show. *)
LEMMA RowsKeep ==
  ASSUME ListInv, ListTypeOK', UNCHANGED panelVars PROVE ListInv'
BY DEF ListInv, OneOverview, panelVars

LEMMA FetchesKeep ==
  ASSUME ListInv, NEW s \in Slots,
         IntervalFetch(s) \/ AskAgain(s) \/ ServeFetch(s) \/ FailFetch(s)
  PROVE  ListInv'
<1>1. fetches' \in [Slots -> Fetch]
  <2>1. CASE Send(s)
    BY <2>1, SendTypes DEF ListInv
  <2>2. CASE ServeFetch(s)
    BY <2>2 DEF ServeFetch, ListInv, ListTypeOK, Fetch
  <2>3. CASE FailFetch(s)
    BY <2>3 DEF FailFetch, ListInv, ListTypeOK, Fetch
  <2> QED BY <2>1, <2>2, <2>3 DEF IntervalFetch, AskAgain
<1>2. UNCHANGED <<listPage, actual, listed, listError, listLoaded, retryVars, removing,
                  panelVars>>
  BY DEF IntervalFetch, AskAgain, ServeFetch, FailFetch
<1> QED BY <1>1, <1>2, RowsKeep DEF ListInv, ListTypeOK, retryVars, panelVars

LEMMA TakeKeeps ==
  ASSUME ListInv, NEW s \in Slots, TakeFetch(s) PROVE ListInv'
<1>1. fetches[s] \in Fetch /\ fetches[s].row \in ListRow
  BY DEF ListInv, ListTypeOK, Fetch
<1>2. listed' \in ListRow
  BY <1>1 DEF TakeFetch, ListInv, ListTypeOK
<1>3. Unsent \in Fetch
  BY DEF Unsent, Fetch, ListRow
<1>4. fetches' \in [Slots -> Fetch]
  BY <1>3 DEF TakeFetch, ListInv, ListTypeOK
<1>5. /\ overview' \in Overview /\ counting' \in [CountSlots -> 0 .. MaxJobs]
      /\ OneOverview'
      /\ (\E c \in CountSlots : counting'[c] # 0) => overview'.state = "loading"
  BY <1>2, PanelKeeps DEF TakeFetch
<1>6. retryOn' \in 0 .. MaxFetches
  BY ListAssumption DEF TakeFetch, ListInv, ListTypeOK
<1>7. listError' \in BOOLEAN
  <2>1. listError' = (fetches[s].pc = "failed")
    BY DEF TakeFetch
  <2> QED BY <2>1, Zenon
<1>8. listLoaded' \in BOOLEAN
  BY Zenon DEF TakeFetch
<1>9. UNCHANGED <<listPage, actual, starting, removing, panel>>
  BY DEF TakeFetch
<1>10. ListTypeOK'
  BY <1>2, <1>4, <1>5, <1>6, <1>7, <1>8, <1>9 DEF ListInv, ListTypeOK
<1> QED BY <1>5, <1>10 DEF ListInv

LEMMA RetriesKeep ==
  ASSUME ListInv, Retry \/ \E s \in Slots : RetryAnswered(s) PROVE ListInv'
<1>1. CASE Retry
  <2>1. starting' \in BOOLEAN
    BY <1>1, Zenon DEF Retry
  <2> QED BY <1>1, <2>1, RowsKeep DEF Retry, ListInv, ListTypeOK, panelVars
<1>2. ASSUME NEW s \in Slots, RetryAnswered(s) PROVE ListInv'
  <2>1. starting' \in BOOLEAN
    BY <1>2, Zenon DEF RetryAnswered
  <2>2. actual' \in ListRow
    BY <1>2, NextJobTypes DEF RetryAnswered, ListInv, ListTypeOK
  <2>3. fetches' \in [Slots -> Fetch] /\ retryOn' \in 0 .. MaxFetches
    BY <1>2, SendTypes, ListAssumption DEF RetryAnswered, ListInv, Slots
  <2>4. UNCHANGED <<listPage, listed, listError, listLoaded, removing, panelVars>>
    BY <1>2 DEF RetryAnswered
  <2> QED BY <2>1, <2>2, <2>3, <2>4, RowsKeep DEF ListInv, ListTypeOK, panelVars
<1> QED BY <1>1, <1>2

LEMMA RemovalKeeps ==
  ASSUME ListInv, RemoveRow \/ RemoveAnswered PROVE ListInv'
<1>1. removing' \in BOOLEAN
  BY Zenon DEF RemoveRow, RemoveAnswered
<1>2. actual' \in ListRow /\ listed' \in ListRow
  BY DEF RemoveRow, RemoveAnswered, ListInv, ListTypeOK, ListRow
<1>3. listError' \in BOOLEAN
  <2>1. listError' = listError \/ listError' = TRUE
    BY DEF RemoveRow, RemoveAnswered
  <2>2. listError \in BOOLEAN
    BY DEF ListInv, ListTypeOK
  <2> QED BY <2>1, <2>2, Zenon
<1>4. UNCHANGED <<listPage, listLoaded, fetches, retryVars, panelVars>>
  BY DEF RemoveRow, RemoveAnswered
<1> QED BY <1>1, <1>2, <1>3, <1>4, RowsKeep DEF ListInv, ListTypeOK, retryVars, panelVars

LEMMA PanelOpens ==
  ASSUME ListInv, OpenPanel \/ ClosePanel PROVE ListInv'
<1>1. panel' \in BOOLEAN
  BY Zenon DEF OpenPanel, ClosePanel
<1>2. UNCHANGED <<listPage, actual, listed, listError, listLoaded, fetches, retryVars,
                  removing>>
  BY DEF OpenPanel, ClosePanel
<1>3. /\ overview' \in Overview /\ counting' \in [CountSlots -> 0 .. MaxJobs]
      /\ OneOverview'
      /\ (\E c \in CountSlots : counting'[c] # 0) => overview'.state = "loading"
  <2>1. CASE OpenPanel
    <3> DEFINE entry == IF overview.state = "error" THEN Uncounted ELSE overview
    <3>1. PanelEffect(TRUE, listed, entry, counting)
      BY <2>1 DEF OpenPanel
    <3>2. entry = overview \/ (entry = Uncounted /\ overview.state = "error")
      OBVIOUS
    <3>3. listed \in ListRow
      BY DEF ListInv, ListTypeOK
    <3> HIDE DEF entry
    <3> QED BY <3>1, <3>2, <3>3, PanelKeeps
  <2>2. CASE ClosePanel
    BY <2>2 DEF ClosePanel, ListInv, ListTypeOK, OneOverview
  <2> QED BY <2>1, <2>2
<1>4. ListTypeOK'
  BY <1>1, <1>2, <1>3 DEF ListInv, ListTypeOK, retryVars
<1> QED BY <1>3, <1>4 DEF ListInv

(* An answer ends the only request there is. *)
LEMMA CountKeeps ==
  ASSUME ListInv, NEW c \in CountSlots, CountAnswered(c) PROVE ListInv'
<1>1. counting' = [counting EXCEPT ![c] = 0] /\ counting[c] # 0
        /\ counting[c] \in 0 .. MaxJobs
  BY DEF CountAnswered, ListInv, ListTypeOK
<1>2. counting' \in [CountSlots -> 0 .. MaxJobs]
  BY <1>1, ListAssumption DEF ListInv, ListTypeOK
<1>3. \A d \in CountSlots : counting'[d] = 0
  BY <1>1 DEF ListInv, ListTypeOK, OneOverview
<1>4. overview' \in Overview
  BY <1>1 DEF CountAnswered, Overview
<1>5. UNCHANGED <<listPage, actual, listed, listError, listLoaded, fetches, retryVars,
                  removing, panel>>
  BY DEF CountAnswered
<1>6. ListTypeOK'
  BY <1>2, <1>4, <1>5 DEF ListInv, ListTypeOK, retryVars
<1> QED BY <1>3, <1>6 DEF ListInv, OneOverview

LEMMA StartsKeep ==
  ASSUME ListInv, StartedElsewhere \/ JobOver PROVE ListInv'
<1>1. actual' \in ListRow
  <2>1. CASE StartedElsewhere
    BY <2>1, NextJobTypes DEF StartedElsewhere, ListInv
  <2>2. CASE JobOver
    <3>1. actual.job \in Jobs
      BY <2>2 DEF JobOver, ListInv, ListTypeOK, ListRow, Absent
    <3> QED BY <2>2, <3>1 DEF JobOver, ListRow
  <2> QED BY <2>1, <2>2
<1>2. UNCHANGED <<listPage, listed, listError, listLoaded, fetches, retryVars, removing,
                  panelVars>>
  BY DEF StartedElsewhere, JobOver
<1> QED BY <1>1, <1>2, RowsKeep DEF ListInv, ListTypeOK, retryVars, panelVars

LEMMA ListStepInv == ListInv /\ [ListNext]_listVars => ListInv'
<1>1. ASSUME ListInv, UNCHANGED listVars PROVE ListInv'
  BY <1>1 DEF listVars, retryVars, panelVars, ListInv, ListTypeOK, OneOverview
<1> QED BY <1>1, FetchesKeep, TakeKeeps, RetriesKeep, RemovalKeeps, PanelOpens, CountKeeps,
     StartsKeep DEF ListNext

(* For any number of overlapping fetches and of jobs, the counts of the panel are asked
   for once at a time (dashboard/page.tsx:119-143). *)
THEOREM CountedOnce == ListSpec => []OneOverview
<1>1. ListInv => OneOverview
  BY DEF ListInv
<1> QED BY <1>1, ListInitInv, ListStepInv, PTL DEF ListSpec

(***************************************************************************)
(* BatchPage                                                               *)
(***************************************************************************)
LEMMA BatchPageInitInv == BatchPageInit => BatchPageInv
BY BatchPageAssumption DEF BatchPageInit, BatchPageInv, BatchPageTypeOK, OneAsker,
   AnswersHold, VerdictShown, Active, Verdicts, Answers

LEMMA ShownTypes ==
  ASSUME BatchPageTypeOK, NEW answer \in Answers, Shown(answer)
  PROVE  data' \in Answers /\ batchError' \in BOOLEAN
<1>1. batchError' \in BOOLEAN
  <2>1. batchError' = (batchError \/ answer = NoBatch)
    BY DEF Shown
  <2> QED BY <2>1, Zenon
<1> QED BY <1>1 DEF Shown, BatchPageTypeOK

(* The poll shows an answer only while no retry is under way. *)
LEMMA PollKeepsVerdict ==
  ASSUME BatchPageInv, PollServed \/ PollTaken \/ PollAgain \/ FiveMinutes
  PROVE  BatchPageInv'
<1> USE DEF BatchPageInv, OneAsker, AnswersHold, VerdictShown, pageRetry
<1>1. CASE PollServed
  <2>1. BatchPageTypeOK'
    BY <1>1 DEF PollServed, BatchPageTypeOK, Answers
  <2>2. retryPc = "idle" /\ data \notin Verdicts
    BY <1>1 DEF PollServed, BatchPageTypeOK
  <2> QED BY <1>1, <2>1, <2>2, BatchPageAssumption DEF PollServed
<1>2. CASE PollTaken
  <2>1. data' \in Answers /\ batchError' \in BOOLEAN
    BY <1>2, ShownTypes DEF PollTaken, BatchPageTypeOK
  <2>2. BatchPageTypeOK'
    BY <1>2, <2>1 DEF PollTaken, BatchPageTypeOK, Answers
  <2>3. retryPc = "idle" /\ data \notin Verdicts
    BY <1>2 DEF PollTaken, BatchPageTypeOK
  <2>4. data' \in Verdicts => data' = pollAnswer /\ pollAnswer \notin Active
    BY <1>2, <2>3 DEF PollTaken, Shown, Active, Verdicts
  <2>5. data' \in Verdicts => pollPc' = "stopped" /\ data' = batch'
    BY <1>2, <2>4 DEF PollTaken
  <2> QED BY <1>2, <2>2, <2>3, <2>5 DEF PollTaken
<1>3. CASE PollAgain
  BY <1>3 DEF PollAgain, BatchPageTypeOK
<1>4. CASE FiveMinutes
  BY <1>4 DEF FiveMinutes, BatchPageTypeOK
<1> QED BY <1>1, <1>2, <1>3, <1>4

LEMMA RetryKeepsVerdict ==
  ASSUME BatchPageInv, RetryFailed \/ RetryStarted \/ RetryServed \/ RetryTaken
  PROVE  BatchPageInv'
<1> USE DEF BatchPageInv, OneAsker, AnswersHold, VerdictShown, pagePoll
<1>1. CASE RetryFailed
  BY <1>1 DEF RetryFailed, RetryOffered, BatchPageTypeOK, Verdicts
<1>2. CASE RetryStarted
  <2>1. batch' \in Active \cup Verdicts /\ batchError' \in BOOLEAN
    BY <1>2 DEF RetryStarted, BatchPageTypeOK, Active
  <2>2. BatchPageTypeOK'
    BY <1>2, <2>1 DEF RetryStarted, BatchPageTypeOK
  <2>3. pollPc = "stopped" /\ UNCHANGED <<data, pollPc>>
    BY <1>2 DEF RetryStarted
  <2> QED BY <1>2, <2>2, <2>3 DEF RetryStarted
<1>3. CASE RetryServed
  <2>1. BatchPageTypeOK'
    BY <1>3 DEF RetryServed, BatchPageTypeOK, Answers
  <2> QED BY <1>3, <2>1, BatchPageAssumption DEF RetryServed
<1>4. CASE RetryTaken
  <2>1. data' \in Answers /\ batchError' \in BOOLEAN
    BY <1>4, ShownTypes DEF RetryTaken, BatchPageTypeOK
  <2>2. BatchPageTypeOK'
    BY <1>4, <2>1 DEF RetryTaken, BatchPageTypeOK, Answers
  <2>3. ~ batchError' => data' = retryAnswer
    BY <1>4 DEF RetryTaken, Shown
  <2>4. pollPc' = "stopped"
    BY <1>4 DEF RetryTaken
  <2> QED BY <1>4, <2>2, <2>3, <2>4 DEF RetryTaken
<1> QED BY <1>1, <1>2, <1>3, <1>4

LEMMA BatchPageStepInv == BatchPageInv /\ [BatchPageNext]_batchVars => BatchPageInv'
<1>1. ASSUME BatchPageInv, UNCHANGED batchVars PROVE BatchPageInv'
  BY <1>1 DEF batchVars, BatchPageInv, BatchPageTypeOK, OneAsker, AnswersHold, VerdictShown
<1>2. ASSUME BatchPageInv, BatchMoves PROVE BatchPageInv'
  <2>1. batch \in Active /\ batch' \in Active \cup Verdicts /\ batch \notin Verdicts
    BY <1>2 DEF BatchMoves, Active, Verdicts
  <2> QED BY <1>2, <2>1 DEF BatchMoves, BatchPageInv, BatchPageTypeOK, OneAsker, AnswersHold,
       VerdictShown, pagePoll, pageRetry
<1> QED BY <1>1, <1>2, PollKeepsVerdict, RetryKeepsVerdict DEF BatchPageNext

(* However the poll, the retry and the worker interleave, no late answer of the poll
   replaces a newer one: a verdict the page shows is the batch's, until a retry was
   accepted or a request failed (batches/[id]/page.tsx:65-97). *)
THEOREM VerdictsHold == BatchPageSpec => [](VerdictShown /\ OneAsker)
<1>1. BatchPageInv => VerdictShown /\ OneAsker
  BY DEF BatchPageInv
<1> QED BY <1>1, BatchPageInitInv, BatchPageStepInv, PTL DEF BatchPageSpec

(***************************************************************************)
(* Admin                                                                   *)
(***************************************************************************)
LEMMA AdminInitInv == AdminInit => AdminInv
BY DEF AdminInit, AdminInv, Running, Bound

(* A row that is selected is in the fields from then on, and the answers that are
   awaited about another one are what `crossed` is about. *)
LEMMA SelectRowKeeps ==
  ASSUME AdminInv, NEW o, NEW left \in SUBSET calls, selectRow(o, left), adminPage' = adminPage
  PROVE  AdminInv'
<1>1. selected' = o /\ form' = o /\ members' = members
        /\ crossed' = (crossed \/ \E c \in left : c.kind \in Bound /\ c.about # o)
  BY DEF selectRow
<1>2. CASE adminPage = "orgs"
  <2>1. calls' = left \cup {NewCall(1, "stats", o), NewCall(2, "users", o)} /\ statsOf' = NoRow
    BY <1>2 DEF selectRow
  <2>2. NewCall(2, "users", o) \in calls' /\ NewCall(2, "users", o).kind = "users"
    BY <2>1 DEF NewCall
  <2>3. ASSUME ~ crossed', NEW c \in calls', c.kind \in Bound PROVE c.about = o
    <3>1. ~ (\E d \in left : d.kind \in Bound /\ d.about # o)
      BY <1>1, <2>3
    <3> QED BY <2>1, <2>3, <3>1 DEF NewCall
  <2> QED BY <1>1, <1>2, <2>1, <2>2, <2>3 DEF AdminInv, Running
<1>3. CASE adminPage = "profiles"
  <2>1. calls' = left /\ statsOf' = statsOf
    BY <1>3 DEF selectRow
  <2>2. ASSUME ~ crossed', NEW c \in calls', c.kind \in Bound PROVE c.about = o
    <3>1. ~ (\E d \in left : d.kind \in Bound /\ d.about # o)
      BY <1>1, <2>2
    <3> QED BY <2>1, <2>2, <3>1
  <2> QED BY <1>1, <1>3, <2>1, <2>2 DEF AdminInv, Running
<1> QED BY <1>2, <1>3 DEF AdminInv

(* A request that is over without being about what is shown changes nothing. *)
LEMMA KeepViewKeeps ==
  ASSUME AdminInv, NEW c \in calls, c.kind # "users", KeepView(calls \ {c}),
         adminPage' = adminPage
  PROVE  AdminInv'
<1>1. calls' = calls \ {c} /\ UNCHANGED <<selected, form, members, statsOf, crossed>>
  BY DEF KeepView, adminView
<1>2. Running({"users"}) => Running({"users"})'
  BY <1>1 DEF Running
<1> QED BY <1>1, <1>2 DEF AdminInv, Running

LEMMA IssueKeeps ==
  ASSUME AdminInv, NEW kind, NEW about, Issue(kind, about),
         ~ crossed /\ kind \in Bound => about = form,
         adminPage = "profiles" => kind \notin {"users", "stats", "member"}
  PROVE  AdminInv'
<1>1. /\ calls' = calls \cup {NewCall(1, kind, about)}
      /\ UNCHANGED <<adminPage, selected, form, members, statsOf, crossed>>
  BY DEF Issue, adminView
<1>2. NewCall(1, kind, about).kind = kind /\ NewCall(1, kind, about).about = about
  BY DEF NewCall
<1>3. Running({"users"}) => Running({"users"})'
  BY <1>1 DEF Running
<1> QED BY <1>1, <1>2, <1>3 DEF AdminInv, Running

LEMMA ControlsKeep ==
  ASSUME AdminInv, RowClicked \/ handleSave \/ handleCreate \/ ChangeMember \/ handleDelete
  PROVE  AdminInv'
<1>1. CASE RowClicked
  BY <1>1, SelectRowKeeps DEF RowClicked
<1>2. CASE handleSave
  BY <1>2, IssueKeeps DEF handleSave, OffersSave, AdminInv
<1>3. CASE handleCreate
  BY <1>3, IssueKeeps DEF handleCreate, Bound
<1>4. CASE ChangeMember
  BY <1>4, IssueKeeps DEF ChangeMember, OffersMembers, AdminInv
<1>5. CASE handleDelete
  BY <1>5, IssueKeeps DEF handleDelete, Bound
<1> QED BY <1>1, <1>2, <1>3, <1>4, <1>5

LEMMA ListsKeep ==
  ASSUME AdminInv, ListAnswered \/ ListFailed PROVE AdminInv'
<1>1. PICK c \in calls :
        /\ c.kind \in Lists
        /\ adminPage' = adminPage
        /\ (\E o : selectRow(o, calls \ {c})) \/ KeepView(calls \ {c})
  BY DEF ListAnswered, ListFailed
<1>2. c.kind # "users"
  BY <1>1 DEF Lists
<1> QED BY <1>1, <1>2, SelectRowKeeps, KeepViewKeeps

(* What an answer shows is about the row in the fields. *)
LEMMA DetailsKeep ==
  ASSUME AdminInv, UsersAnswered \/ StatsAnswered PROVE AdminInv'
<1>1. ASSUME NEW c \in calls, c.kind = "users", calls' = calls \ {c},
             members' \in {c.about, NoRow},
             UNCHANGED <<adminPage, selected, form, statsOf, crossed>>
      PROVE  AdminInv'
  <2>1. adminPage # "profiles"
    BY <1>1 DEF AdminInv, Running
  <2>2. ~ crossed => c.about = form
    BY <1>1 DEF AdminInv, Bound
  <2> QED BY <1>1, <2>1, <2>2 DEF AdminInv, Running
<1>2. ASSUME NEW c \in calls, c.kind = "stats", calls' = calls \ {c},
             statsOf' \in {c.about, NoRow},
             UNCHANGED <<adminPage, selected, form, members, crossed>>
      PROVE  AdminInv'
  <2>1. adminPage # "profiles"
    BY <1>2 DEF AdminInv, Running
  <2>2. ~ crossed => c.about = form
    BY <1>2 DEF AdminInv, Bound
  <2>3. Running({"users"}) => Running({"users"})'
    BY <1>2 DEF Running
  <2> QED BY <1>2, <2>1, <2>2, <2>3 DEF AdminInv, Running
<1>3. ASSUME UsersAnswered PROVE AdminInv'
  BY <1>1, <1>3 DEF UsersAnswered
<1>4. ASSUME StatsAnswered PROVE AdminInv'
  BY <1>2, <1>4 DEF StatsAnswered
<1> QED BY <1>3, <1>4

(* A handler that goes on: to the list after a save or a create, to the users after a
   change of one of them. *)
LEMMA ContinuedKeeps ==
  ASSUME AdminInv, NEW c \in calls, NEW kind \in {"saveList", "createList", "users"}, NEW about,
         c.kind # "users", kind = "users" => c.kind = "member" /\ about = c.about,
         calls' = (calls \ {c}) \cup {Continue(c, kind, about)},
         selected' = selected \/ (c.kind \in Bound /\ selected' = c.about),
         UNCHANGED <<adminPage, form, members, statsOf, crossed>>
  PROVE  AdminInv'
<1> DEFINE d == Continue(c, kind, about)
<1>1. d.kind = kind /\ d.about = about
  BY DEF Continue
<1> HIDE DEF d
<1>2. Running({"users"}) => Running({"users"})'
  BY DEF Running
<1>3. ~ crossed /\ c.kind \in Bound => c.about = form
  BY DEF AdminInv
<1>4. kind \in Bound => kind = "users" /\ c.kind \in Bound
  BY DEF Bound
<1>5. kind = "users" => adminPage # "profiles"
  BY DEF AdminInv, Running
<1>6. calls' = (calls \ {c}) \cup {d}
  BY DEF d
<1>7. adminPage' = "profiles" => ~ Running({"users", "stats", "member"})'
  BY <1>1, <1>5, <1>6 DEF AdminInv, Running
<1>8. ~ crossed' => \A e \in calls' : e.kind \in Bound => e.about = form'
  BY <1>1, <1>3, <1>4, <1>6 DEF AdminInv
<1>9. ~ crossed' => selected' \in {NoRow, form'}
  BY <1>3 DEF AdminInv
<1> QED BY <1>2, <1>7, <1>8, <1>9 DEF AdminInv

LEMMA GoingOnKeeps ==
  ASSUME AdminInv, SaveAnswered \/ RowCreated \/ MemberAnswered PROVE AdminInv'
<1>1. CASE SaveAnswered
  BY <1>1, ContinuedKeeps DEF SaveAnswered, Bound
<1>2. CASE RowCreated
  BY <1>2, ContinuedKeeps DEF RowCreated, adminView
<1>3. CASE MemberAnswered
  BY <1>3, ContinuedKeeps DEF MemberAnswered, adminView
<1> QED BY <1>1, <1>2, <1>3

LEMMA DeletedKeeps == ASSUME AdminInv, DeleteAnswered PROVE AdminInv'
<1>1. PICK c \in calls :
        /\ c.kind = "delete" /\ adminPage' = adminPage
        /\ \/ KeepView(calls \ {c})
           \/ \E o : selectRow(o, calls \ {c})
           \/ /\ selected' = NoRow /\ calls' = calls \ {c}
              /\ UNCHANGED <<form, members, statsOf, crossed>>
  BY DEF DeleteAnswered
<1>2. ASSUME selected' = NoRow, calls' = calls \ {c},
             UNCHANGED <<form, members, statsOf, crossed>>
      PROVE  AdminInv'
  <2>1. Running({"users"}) => Running({"users"})'
    BY <1>1, <1>2 DEF Running
  <2> QED BY <1>1, <1>2, <2>1 DEF AdminInv, Running
<1> QED BY <1>1, <1>2, SelectRowKeeps, KeepViewKeeps

LEMMA RefusedKeeps == ASSUME AdminInv, CallRefused PROVE AdminInv'
BY KeepViewKeeps DEF CallRefused

LEMMA AdminStepInv == AdminInv /\ [AdminNext]_adminVars => AdminInv'
<1>1. ASSUME AdminInv, UNCHANGED adminVars PROVE AdminInv'
  BY <1>1 DEF adminVars, AdminInv, Running
<1> QED BY <1>1, ControlsKeep, ListsKeep, DetailsKeep, GoingOnKeeps, DeletedKeeps, RefusedKeeps
     DEF AdminNext

-----------------------------------------------------------------------------
(* Types of the editors. *)
LEMMA NoRowOrRow == NoRow \in RowOrNone /\ EditRows \subseteq RowOrNone
BY DEF RowOrNone

LEMMA AdminInitTyped == AdminInit => AdminTypeOK
<1> SUFFICES ASSUME AdminInit PROVE AdminTypeOK
  OBVIOUS
<1>1. rows \in Seq(EditRows) /\ listedRows \in Seq(EditRows)
  <2>1. PICK n \in 0 .. 2 : rows \in [1 .. n -> EditRows]
    BY DEF AdminInit
  <2>2. <<>> \in Seq(EditRows)
    OBVIOUS
  <2> QED BY <2>1, <2>2 DEF AdminInit
<1>2. calls \subseteq AdminCall
  <2>1. <<>> \in Seq(EditRows)
    OBVIOUS
  <2>2. [id |-> 1, kind |-> "mount", about |-> NoRow, seen |-> NoRow, had |-> <<>>] \in AdminCall
    BY <2>1, NoRowOrRow DEF AdminCall, CallKinds, Lists
  <2> QED BY <2>2 DEF AdminInit
<1> QED BY <1>1, <1>2, NoRowOrRow DEF AdminInit, AdminTypeOK

LEMMA WithoutTypes ==
  ASSUME NEW s \in Seq(EditRows), NEW o PROVE Without(s, o) \in Seq(EditRows)
<1> DEFINE i == CHOOSE i \in DOMAIN s : s[i] = o
<1>1. CASE o \notin Range(s)
  BY <1>1 DEF Without
<1>2. CASE o \in Range(s)
  <2>1. i \in DOMAIN s /\ s[i] = o
    BY <1>2 DEF Range
  <2> HIDE DEF i
  <2>2. i \in 1 .. Len(s) /\ Len(s) \in Nat
    BY <2>1
  <2>3. SubSeq(s, 1, i - 1) \in Seq(EditRows) /\ SubSeq(s, i + 1, Len(s)) \in Seq(EditRows)
    BY <2>2
  <2>4. Without(s, o) = SubSeq(s, 1, i - 1) \o SubSeq(s, i + 1, Len(s))
    BY <1>2 DEF Without, RemoveAt, i
  <2> QED BY <2>3, <2>4
<1> QED BY <1>1, <1>2

LEMMA CallsTyped ==
  ASSUME AdminTypeOK, NEW about \in RowOrNone, NEW kind \in CallKinds, NEW n \in Nat
  PROVE  /\ NewCall(n, kind, about) \in AdminCall
         /\ \A c \in calls : Continue(c, kind, about) \in AdminCall
BY DEF AdminTypeOK, NewCall, Continue, AdminCall

LEMMA SelectRowTypes ==
  ASSUME AdminTypeOK, NEW o \in RowOrNone, NEW left \in SUBSET calls, selectRow(o, left),
         adminPage' = adminPage, rows' \in Seq(EditRows), listedRows' \in Seq(EditRows)
  PROVE  AdminTypeOK'
<1>1. {NewCall(1, "stats", o), NewCall(2, "users", o)} \subseteq AdminCall
  BY CallsTyped DEF CallKinds, Bound
<1>2. calls' \subseteq AdminCall /\ issued' \in Nat /\ statsOf' \in RowOrNone
  BY <1>1, NoRowOrRow DEF selectRow, AdminTypeOK
<1>3. crossed' \in BOOLEAN
  <2>1. crossed' = (crossed \/ \E c \in left : c.kind \in Bound /\ c.about # o)
    BY DEF selectRow
  <2> QED BY <2>1, Zenon
<1>4. selected' = o /\ form' = o /\ members' = members
  BY DEF selectRow
<1> QED BY <1>2, <1>3, <1>4 DEF AdminTypeOK

(* A step that leaves the fields, or takes them from a row. *)
LEMMA ViewTypes ==
  ASSUME AdminTypeOK, adminPage' = adminPage, rows' \in Seq(EditRows),
         listedRows' \in Seq(EditRows), calls' \subseteq AdminCall, issued' \in Nat,
         {selected', form', members', statsOf'} \subseteq RowOrNone, crossed' = crossed
  PROVE  AdminTypeOK'
BY DEF AdminTypeOK

LEMMA KeepViewTypes ==
  ASSUME AdminTypeOK, NEW left \in SUBSET calls, KeepView(left), adminPage' = adminPage,
         rows' \in Seq(EditRows), listedRows' \in Seq(EditRows)
  PROVE  AdminTypeOK'
BY ViewTypes DEF KeepView, adminView, AdminTypeOK

LEMMA IssueTypes ==
  ASSUME AdminTypeOK, NEW kind \in CallKinds, NEW about \in RowOrNone, Issue(kind, about)
  PROVE  AdminTypeOK'
<1>1. NewCall(1, kind, about) \in AdminCall
  BY CallsTyped
<1> QED BY <1>1, ViewTypes DEF Issue, adminView, AdminTypeOK

LEMMA AdminControlsTyped ==
  ASSUME AdminTypeOK, RowClicked \/ handleSave \/ handleCreate \/ ChangeMember \/ handleDelete
  PROVE  AdminTypeOK'
<1>0. \A i \in DOMAIN listedRows : listedRows[i] \in RowOrNone
  BY NoRowOrRow DEF AdminTypeOK
<1>1. CASE RowClicked
  BY <1>0, <1>1, SelectRowTypes DEF RowClicked, AdminTypeOK
<1>2. CASE handleSave
  BY <1>2, IssueTypes DEF handleSave, CallKinds, Bound, AdminTypeOK
<1>3. CASE handleCreate
  BY <1>3, IssueTypes, NoRowOrRow DEF handleCreate, CallKinds
<1>4. CASE ChangeMember
  BY <1>4, IssueTypes DEF ChangeMember, CallKinds, Bound, AdminTypeOK
<1>5. CASE handleDelete
  BY <1>0, <1>5, IssueTypes DEF handleDelete, CallKinds
<1> QED BY <1>1, <1>2, <1>3, <1>4, <1>5

LEMMA AdminAnswersTyped ==
  ASSUME AdminTypeOK,
         \/ ListAnswered \/ ListFailed \/ UsersAnswered \/ StatsAnswered \/ SaveAnswered
         \/ RowCreated \/ MemberAnswered \/ DeleteAnswered \/ CallRefused
  PROVE  AdminTypeOK'
<1>0. \A c \in calls : /\ c.about \in RowOrNone /\ c.seen \in RowOrNone
                        /\ c.had \in Seq(EditRows)
  BY DEF AdminTypeOK, AdminCall
<1>1. CASE ListAnswered
  <2>1. PICK c \in calls :
          /\ listedRows' = rows
          /\ LET target == IF c.kind = "createList" THEN c.about
                           ELSE IF c.seen = NoRow /\ rows # <<>> THEN rows[1] ELSE NoRow
             IN IF target # NoRow THEN selectRow(target, calls \ {c}) ELSE KeepView(calls \ {c})
          /\ UNCHANGED <<adminPage, rows>>
    BY <1>1 DEF ListAnswered
  <2>2. rows # <<>> => rows[1] \in RowOrNone
    <3>1. rows # <<>> => rows[1] \in EditRows
      BY DEF AdminTypeOK
    <3> QED BY <3>1, NoRowOrRow
  <2>3. (\E o \in RowOrNone : selectRow(o, calls \ {c})) \/ KeepView(calls \ {c})
    BY <1>0, <2>1, <2>2, NoRowOrRow
  <2> QED BY <2>1, <2>3, SelectRowTypes, KeepViewTypes DEF AdminTypeOK
<1>2. CASE ListFailed
  BY <1>0, <1>2, SelectRowTypes, KeepViewTypes DEF ListFailed, AdminTypeOK
<1>3. CASE UsersAnswered
  BY <1>0, <1>3, NoRowOrRow DEF UsersAnswered, AdminTypeOK
<1>4. CASE StatsAnswered
  BY <1>0, <1>4, NoRowOrRow DEF StatsAnswered, AdminTypeOK
<1>5. CASE SaveAnswered
  <2>1. PICK c \in calls :
          /\ selected' = c.about
          /\ calls' = (calls \ {c}) \cup {Continue(c, "saveList", c.about)}
          /\ UNCHANGED <<adminPage, rows, listedRows, form, members, statsOf, issued, crossed>>
    BY <1>5 DEF SaveAnswered
  <2>2. Continue(c, "saveList", c.about) \in AdminCall
    BY <1>0, CallsTyped DEF CallKinds, Lists
  <2> QED BY <1>0, <2>1, <2>2 DEF AdminTypeOK
<1>6. CASE RowCreated
  <2>1. PICK c \in calls, o \in EditRows :
          /\ rows' = <<o>> \o rows \/ rows' = Append(rows, o)
          /\ calls' = (calls \ {c}) \cup {Continue(c, "createList", o)}
          /\ UNCHANGED <<adminPage, listedRows, adminView, issued>>
    BY <1>6 DEF RowCreated
  <2>2. Continue(c, "createList", o) \in AdminCall
    BY NoRowOrRow, CallsTyped DEF CallKinds, Lists
  <2>3. rows' \in Seq(EditRows)
    <3>1. rows \in Seq(EditRows) /\ <<o>> \in Seq(EditRows)
      BY DEF AdminTypeOK
    <3>2. CASE rows' = <<o>> \o rows
      BY <3>1, <3>2
    <3>3. CASE rows' = Append(rows, o)
      BY <3>1, <3>3
    <3> QED BY <2>1, <3>2, <3>3
  <2> QED BY <2>1, <2>2, <2>3 DEF AdminTypeOK, adminView
<1>7. CASE MemberAnswered
  <2>1. PICK c \in calls :
          /\ calls' = (calls \ {c}) \cup {Continue(c, "users", c.about)}
          /\ UNCHANGED <<adminPage, rows, listedRows, adminView, issued>>
    BY <1>7 DEF MemberAnswered
  <2>2. Continue(c, "users", c.about) \in AdminCall
    BY <1>0, CallsTyped DEF CallKinds, Bound
  <2> QED BY <2>1, <2>2 DEF AdminTypeOK, adminView
<1>8. CASE DeleteAnswered
  <2>1. PICK c \in calls :
          /\ rows' = Without(rows, c.about) /\ listedRows' = Without(c.had, c.about)
          /\ \/ KeepView(calls \ {c})
             \/ Without(c.had, c.about) # <<>>
                  /\ selectRow(Without(c.had, c.about)[1], calls \ {c})
             \/ /\ selected' = NoRow /\ calls' = calls \ {c}
                /\ UNCHANGED <<form, members, statsOf, issued, crossed>>
          /\ adminPage' = adminPage
    BY <1>8 DEF DeleteAnswered
  <2>2. rows' \in Seq(EditRows) /\ listedRows' \in Seq(EditRows)
    BY <1>0, <2>1, WithoutTypes DEF AdminTypeOK
  <2>3. listedRows' # <<>> => listedRows'[1] \in RowOrNone
    <3>1. listedRows' # <<>> => listedRows'[1] \in EditRows
      BY <2>2
    <3> QED BY <3>1, NoRowOrRow
  <2>4. CASE selected' = NoRow /\ calls' = calls \ {c}
             /\ UNCHANGED <<form, members, statsOf, issued, crossed>>
    BY <2>1, <2>2, <2>4, NoRowOrRow, ViewTypes DEF AdminTypeOK
  <2> QED BY <2>1, <2>2, <2>3, <2>4, SelectRowTypes, KeepViewTypes
<1>9. CASE CallRefused
  BY <1>9, KeepViewTypes DEF CallRefused, AdminTypeOK
<1> QED BY <1>1, <1>2, <1>3, <1>4, <1>5, <1>6, <1>7, <1>8, <1>9

LEMMA AdminStepTyped == AdminTypeOK /\ [AdminNext]_adminVars => AdminTypeOK'
<1>1. ASSUME AdminTypeOK, UNCHANGED adminVars PROVE AdminTypeOK'
  BY <1>1 DEF adminVars, AdminTypeOK
<1> QED BY <1>1, AdminControlsTyped, AdminAnswersTyped DEF AdminNext

(* On a page with any rows, however many requests overlap and in whatever order they are
   answered: until a row is selected while an answer about another is awaited, what is
   shown and what a save would send are of one row (organizations/page.tsx:71-118,
   profile/page.tsx). *)
THEOREM OneRowShown == AdminSpec => []FormMatches
<1>1. AdminInv => FormMatches
  BY DEF AdminInv, FormMatches
<1> QED BY <1>1, AdminInitInv, AdminStepInv, PTL DEF AdminSpec

(***************************************************************************)
(* Composition: a behaviour stays on the route it starts on, and there it is *)
(* a behaviour of that page.                                               *)
(***************************************************************************)
LEMMA WebInit == MCInit => WebTypeOK
<1> SUFFICES ASSUME MCInit PROVE WebTypeOK
  OBVIOUS
<1>1. route = "list" => ListInit
  BY DEF MCInit
<1>2. route = "batch" => BatchPageInit
  BY DEF MCInit
<1>3. /\ route \in Routes
      /\ SessionInit /\ UploadInit /\ TarballInit /\ SharePageInit /\ FocusInit
      /\ GestureInit /\ CompareInit /\ PainterInit /\ AdminInit
  BY DEF MCInit
<1> QED
  BY <1>1, <1>2, <1>3, SessionStarts, UploadInitInv, TarballInitInv, ListInitInv,
     BatchPageInitInv, SharePageInitInv, FocusInitInv, GestureInitInv, CompareInitInv,
     PainterInitTyped, AdminInitTyped, AdminInitInv DEF WebTypeOK

(* A step on a page is a step of that page, or leaves it as it is. *)
LEMMA WebStep == WebTypeOK /\ [MCNext]_webVars => WebTypeOK'
<1> SUFFICES ASSUME WebTypeOK, [MCNext]_webVars PROVE WebTypeOK'
  OBVIOUS
<1>0. route' = route /\ route \in Routes
  BY DEF MCNext, webVars, WebTypeOK
<1>1. CASE route = "session"
  <2>1. [SessionNext]_sessionVars
    BY <1>1 DEF MCNext, webVars
  <2> QED BY <1>0, <1>1, <2>1, SessionStep DEF WebTypeOK
<1>2. CASE route = "upload"
  <2>1. [UploadNext]_uploadVars
    BY <1>2 DEF MCNext, webVars
  <2> QED BY <1>0, <1>2, <2>1, UploadStepInv DEF WebTypeOK
<1>3. CASE route = "tarball"
  <2>1. [TarballNext]_tarballVars
    BY <1>3 DEF MCNext, webVars
  <2> QED BY <1>0, <1>3, <2>1, TarballStepInv DEF WebTypeOK
<1>4. CASE route = "list"
  <2>1. [ListNext]_listVars
    BY <1>4 DEF MCNext, webVars
  <2> QED BY <1>0, <1>4, <2>1, ListStepInv DEF WebTypeOK
<1>5. CASE route = "batch"
  <2>1. [BatchPageNext]_batchVars
    BY <1>5 DEF MCNext, webVars
  <2> QED BY <1>0, <1>5, <2>1, BatchPageStepInv DEF WebTypeOK
<1>6. CASE route = "share"
  <2>1. [SharePageNext]_shareVars
    BY <1>6 DEF MCNext, webVars
  <2> QED BY <1>0, <1>6, <2>1, SharePageStepInv DEF WebTypeOK
<1>7. CASE route = "focus"
  <2>1. [FocusNext]_focusVars
    BY <1>7 DEF MCNext, webVars
  <2> QED BY <1>0, <1>7, <2>1, FocusStepInv DEF WebTypeOK
<1>8. CASE route = "gestures"
  <2>1. [GestureNext]_gestureVars
    BY <1>8 DEF MCNext, webVars
  <2> QED BY <1>0, <1>8, <2>1, GestureStepInv DEF WebTypeOK
<1>9. CASE route = "compare"
  <2>1. [CompareNext]_compareVars
    BY <1>9 DEF MCNext, webVars
  <2> QED BY <1>0, <1>9, <2>1, CompareStepInv DEF WebTypeOK
<1>10. CASE route = "painter"
  <2>1. [PainterNext]_paintVars
    BY <1>10 DEF MCNext, webVars
  <2> QED BY <1>0, <1>10, <2>1, PainterStepTyped DEF WebTypeOK
<1>11. CASE route = "admin"
  <2>1. [AdminNext]_adminVars
    BY <1>11 DEF MCNext, webVars
  <2> QED BY <1>0, <1>11, <2>1, AdminStepTyped, AdminStepInv DEF WebTypeOK
<1> QED
  BY <1>0, <1>1, <1>2, <1>3, <1>4, <1>5, <1>6, <1>7, <1>8, <1>9, <1>10, <1>11,
     RoutesAssumption

(* On every page, for any tabs, files, folders, lists, boards, violations and rows: the
   state of the page has its type, and what the proofs about it rest on holds of it. *)
THEOREM EveryPageKeeps == MCSpec => []WebTypeOK
BY WebInit, WebStep, PTL DEF MCSpec
=============================================================================
