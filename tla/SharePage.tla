------------------------------- MODULE SharePage -------------------------------
(***************************************************************************)
(* The public page of a share link.  A job link shows one job; a project   *)
(* link lists the submissions, shows the job that is selected, and goes     *)
(* back.  A load asks for the job, then for its board and its violations    *)
(* side by side; nothing cancels it.  Where the link allows it, files are   *)
(* uploaded and analyzed.                                                   *)
(*                                                                         *)
(* External: the API and S3.                                               *)
(***************************************************************************)
EXTENDS Naturals, FiniteSets

CONSTANTS
    SharedJobs,   \* the jobs of the share
    NoJob,
    MaxLoads,     \* bound: loads at a time
    MaxUploads    \* bound: uploads at a time

ASSUME ShareAssumption == NoJob \notin SharedJobs /\ MaxLoads \in Nat /\ MaxUploads \in Nat

VARIABLES
    shareType,    \* "none" until the link is known
    shareFailed,  \* error is set: the page shows nothing else
    sharedRows,   \* the submissions listed that are done
    selectedJob,  \* selectedJobId
    shownJob, shownViolations, shownBoard,  \* whose job, violations, board are shown
    loads,        \* the loads: the job and what is asked of the API
    uploads,      \* handleFileUpload
    uploading, uploadSuccess,
    leftLoading   \* history: the jobs whose loads were under way at the last "Back"

shareVars == <<shareType, shareFailed, sharedRows, selectedJob, shownJob, shownViolations,
               shownBoard, loads, uploads, uploading, uploadSuccess, leftLoading>>
shownVars == <<shownJob, shownViolations, shownBoard>>
uploadState == <<uploads, uploading, uploadSuccess>>

Loads == 1 .. MaxLoads
Uploads == 1 .. MaxUploads

NoLoad == [job |-> NoJob, asks |-> {}]
Load == [job : SharedJobs, asks : SUBSET {"job", "violations", "board"}] \cup {NoLoad}

SharePageTypeOK ==
    /\ shareType \in {"none", "job", "project"}
    /\ shareFailed \in BOOLEAN
    /\ sharedRows \subseteq SharedJobs
    /\ {selectedJob, shownJob, shownViolations, shownBoard} \subseteq SharedJobs \cup {NoJob}
    /\ loads \in [Loads -> Load]
    /\ uploads \in [Uploads -> {"over", "create", "put", "analyze"}]
    /\ uploading \in BOOLEAN /\ uploadSuccess \in BOOLEAN
    /\ leftLoading \subseteq SharedJobs

SharePageInit ==
    /\ shareType = "none" /\ shareFailed = FALSE /\ sharedRows = {}
    /\ selectedJob = NoJob
    /\ shownJob = NoJob /\ shownViolations = NoJob /\ shownBoard = NoJob
    /\ loads = [l \in Loads |-> NoLoad]
    /\ uploads = [u \in Uploads |-> "over"]
    /\ uploading = FALSE /\ uploadSuccess = FALSE
    /\ leftLoading = {}

StartLoad(j) ==
    \E l \in Loads :
        /\ loads[l] = NoLoad /\ \A k \in 1 .. l - 1 : loads[k] # NoLoad
        /\ loads' = [loads EXCEPT ![l] = [job |-> j, asks |-> {"job"}]]

(* The job view of a share: the selected one, or the only one of a job link. *)
InJobView == shareType = "job" \/ selectedJob # NoJob

-----------------------------------------------------------------------------
(* The link is looked up; an error is shown in place of the page. *)
ShareAnswered ==
    /\ shareType = "none" /\ ~ shareFailed
    /\ \/ shareType' = "job" /\ (\E j \in SharedJobs : StartLoad(j))
          /\ UNCHANGED <<sharedRows, shareFailed>>
       \/ shareType' = "project" /\ sharedRows' \in SUBSET SharedJobs
          /\ UNCHANGED <<loads, shareFailed>>
       \/ shareFailed' = TRUE /\ UNCHANGED <<shareType, sharedRows, loads>>
    /\ UNCHANGED <<selectedJob, shownVars, uploadState, leftLoading>>

(* The effect on selectedJobId loads the job. *)
SelectJob(j) ==
    /\ shareType = "project" /\ ~ InJobView /\ ~ shareFailed
    /\ j \in sharedRows
    /\ selectedJob' = j
    /\ StartLoad(j)
    /\ UNCHANGED <<shareType, shareFailed, sharedRows, shownVars, uploadState, leftLoading>>

Answered(l, ask, more) ==
    LET rest == (loads[l].asks \ {ask}) \cup more IN
    loads' = [loads EXCEPT ![l] = IF rest = {} THEN NoLoad ELSE [@ EXCEPT !.asks = rest]]

(* The board is asked for and not awaited: its failure is ignored, the others' are
   not. *)
LoadAnswered(l) ==
    /\ \/ /\ "job" \in loads[l].asks
          /\ Answered(l, "job", {"violations", "board"})
          /\ shownJob' = loads[l].job
          /\ UNCHANGED <<shownViolations, shownBoard>>
       \/ /\ "violations" \in loads[l].asks
          /\ Answered(l, "violations", {})
          /\ shownViolations' = loads[l].job
          /\ UNCHANGED <<shownJob, shownBoard>>
       \/ /\ "board" \in loads[l].asks
          /\ Answered(l, "board", {})
          /\ shownBoard' \in {loads[l].job, shownBoard}
          /\ UNCHANGED <<shownJob, shownViolations>>
    /\ UNCHANGED <<shareType, shareFailed, sharedRows, selectedJob, uploadState, leftLoading>>

LoadFailed(l) ==
    /\ \E ask \in loads[l].asks \ {"board"} : Answered(l, ask, {})
    /\ shareFailed' = TRUE
    /\ UNCHANGED <<shareType, sharedRows, selectedJob, shownVars, uploadState, leftLoading>>

(* The jobs that are being loaded. *)
UnderWay == {loads[l].job : l \in {k \in Loads : loads[k] # NoLoad}}

KeepViolations ==                                                   \* mutant
    /\ shareType = "project" /\ InJobView /\ ~ shareFailed
    /\ selectedJob' = NoJob /\ shownJob' = NoJob /\ shownBoard' = NoJob
    /\ leftLoading' = UnderWay
    /\ UNCHANGED <<shareType, shareFailed, sharedRows, shownViolations, loads, uploadState>>
Back ==
    /\ shareType = "project" /\ InJobView /\ ~ shareFailed
    /\ selectedJob' = NoJob
    /\ shownJob' = NoJob /\ shownViolations' = NoJob /\ shownBoard' = NoJob
    /\ leftLoading' = UnderWay
    /\ UNCHANGED <<shareType, shareFailed, sharedRows, loads, uploadState>>

-----------------------------------------------------------------------------
(* handleFileUpload.  The list offers a drop zone, which is not disabled while an
   upload runs, unless the success message takes its place; the job view offers a
   file input, which is. *)
ListOffersDrop == shareType = "project" /\ ~ InJobView /\ ~ uploadSuccess
BarOffersFile == InJobView /\ ~ uploading

UploadRevision(u) ==
    /\ ~ shareFailed
    /\ ListOffersDrop \/ BarOffersFile
    /\ uploads[u] = "over" /\ \A w \in 1 .. u - 1 : uploads[w] # "over"
    /\ uploads' = [uploads EXCEPT ![u] = "create"]
    /\ uploading' = TRUE /\ uploadSuccess' = FALSE
    /\ UNCHANGED <<shareType, shareFailed, sharedRows, selectedJob, shownVars, loads, leftLoading>>

RevisionAnswered(u) ==
    /\ uploads[u] \in {"create", "put"}
    /\ uploads' = [uploads EXCEPT ![u] = IF @ = "create" THEN "put" ELSE "analyze"]
    /\ UNCHANGED <<shareType, shareFailed, sharedRows, selectedJob, shownVars, loads,
                   uploading, uploadSuccess, leftLoading>>

(* The list is asked for again, once: an upload is hardly analyzed by then. *)
RevisionAnalyzing(u) ==
    /\ uploads[u] = "analyze"
    /\ uploads' = [uploads EXCEPT ![u] = "over"]
    /\ uploading' = FALSE /\ uploadSuccess' = TRUE
    /\ sharedRows' \in {sharedRows} \cup {r \in SUBSET SharedJobs : sharedRows \subseteq r}
    /\ UNCHANGED <<shareType, shareFailed, selectedJob, shownVars, loads, leftLoading>>

RevisionFailed(u) ==
    /\ uploads[u] # "over"
    /\ uploads' = [uploads EXCEPT ![u] = "over"]
    /\ uploading' = FALSE /\ shareFailed' = TRUE
    /\ UNCHANGED <<shareType, sharedRows, selectedJob, shownVars, loads, uploadSuccess,
                   leftLoading>>

UploadAnother ==
    /\ uploadSuccess /\ ~ InJobView /\ ~ shareFailed
    /\ uploadSuccess' = FALSE
    /\ UNCHANGED <<shareType, shareFailed, sharedRows, selectedJob, shownVars, loads, uploads,
                   uploading, leftLoading>>

-----------------------------------------------------------------------------
SharePageNext ==
    \/ ShareAnswered \/ Back \/ UploadAnother
    \/ \E j \in SharedJobs : SelectJob(j)
    \/ \E l \in Loads : LoadAnswered(l) \/ LoadFailed(l)
    \/ \E u \in Uploads : \/ UploadRevision(u) \/ RevisionAnswered(u)
                          \/ RevisionAnalyzing(u) \/ RevisionFailed(u)

SharePageSpec == SharePageInit /\ [][SharePageNext]_shareVars

-----------------------------------------------------------------------------
(* Whatever loads overlap, what a project link shows is of the selected job, or of a job
   that was still being loaded when "Back" was last pressed: the loads are not
   cancelled, so these may come late (share/[token]/page.tsx:122-142 and 451-460). *)
SharedMatches ==
    shareType = "project" =>
        {shownJob, shownViolations, shownBoard} \subseteq {selectedJob, NoJob} \cup leftLoading

(* The inductive invariant of its proof: the loads are of these jobs too. *)
LoadsOfSelected ==
    shareType # "job" =>
        /\ \A l \in Loads : loads[l].job \in {selectedJob, NoJob} \cup leftLoading
        /\ {shownJob, shownViolations, shownBoard}
             \subseteq {selectedJob, NoJob} \cup leftLoading

SharePageInv == SharePageTypeOK /\ LoadsOfSelected
=============================================================================
