-------------------------------- MODULE Upload --------------------------------
(***************************************************************************)
(* The upload page: selecting files or a folder, uploading one board or a  *)
(* batch to S3, starting the analysis and polling it (lib/poll.ts).        *)
(*                                                                         *)
(* task is the async handler that runs: the request it awaits.  Files are  *)
(* numbered; a single file is file 1.  A batch is a list of more than one. *)
(* Leaving the page forgets its state: a handler that goes on then changes *)
(* nothing any more.                                                       *)
(*                                                                         *)
(* External: S3 and the API, whose requests may fail or lose their answer. *)
(***************************************************************************)
EXTENDS Naturals, FiniteSets

CONSTANTS
    MaxFiles,    \* bound: files of a selection (maxBatchFiles)
    MaxRetries   \* MAX_FETCH_RETRIES

ASSUME UploadAssumption == MaxFiles \in Nat \ {0} /\ MaxRetries \in Nat

VARIABLES
    step,      \* the step shown
    task,      \* the handler
    file,      \* file is not null
    files,     \* the length of files
    put,       \* the status of each upload
    uploaded,  \* uploadedSubmissionId is set
    resumed,   \* it came with ?submissionId=
    misses,    \* attempts of fetchWithRetry that failed
    late,      \* the poll is past its timeout
    inS3,      \* external: the files that are in S3
    jobOf      \* external: the newest job of each file

uploadVars == <<step, task, file, files, put, uploaded, resumed, misses, late, inS3, jobOf>>
pollVars == <<misses, late>>
server == <<inS3, jobOf>>
selection == <<file, files>>

Files == 1 .. MaxFiles
Steps == {"select", "resume", "packaging", "uploading", "analyzing", "partial",
          "timeout", "done", "error"}
Requests == {"create", "put", "start", "poll", "createBatch", "puts", "analyzeBatch",
             "pollBatch"}

UploadTypeOK ==
    /\ step \in Steps
    /\ task \in {"idle", "load", "pack"} \cup Requests
    /\ file \in BOOLEAN /\ files \in 0 .. MaxFiles
    /\ put \in [Files -> {"pending", "uploading", "uploaded", "failed"}]
    /\ uploaded \in BOOLEAN /\ resumed \in BOOLEAN
    /\ misses \in 0 .. MaxRetries /\ late \in BOOLEAN
    /\ inS3 \subseteq Files
    /\ jobOf \in [Files -> {"none", "running", "done", "failed"}]

Reset ==
    /\ file' = FALSE /\ files' = 0
    /\ put' = [i \in Files |-> "pending"]
    /\ uploaded' = FALSE /\ resumed' = FALSE
    /\ misses' = 0 /\ late' = FALSE
    /\ inS3' = {} /\ jobOf' = [i \in Files |-> "none"]

(* With ?submissionId= the page loads a submission first.  The dashboard links
   here for every submission that was created, its file being in S3 or not. *)
UploadInit ==
    /\ \/ step = "select" /\ task = "idle" /\ resumed = FALSE /\ inS3 = {}
       \/ step = "resume" /\ task = "load" /\ resumed = TRUE /\ inS3 \in {{}, {1}}
    /\ file = FALSE /\ files = 0
    /\ put = [i \in Files |-> "pending"]
    /\ uploaded = FALSE
    /\ misses = 0 /\ late = FALSE
    /\ jobOf = [i \in Files |-> "none"]

isBatch == files > 1
hasFiles == file \/ files > 0
Boards == IF isBatch THEN 1 .. files ELSE {1}
Busy == task \in Requests

-----------------------------------------------------------------------------
(* The controls each step shows; the steps not named show none that changes the
   page.                                                                     *)

ResumeControls == IF task = "load" THEN {} ELSE {"analyze", "reset"}
SelectControls ==
    {"pick", "folder"} \cup (IF hasFiles THEN {"clear", "upload"} ELSE {})
                      \cup (IF isBatch THEN {"remove"} ELSE {})
PartialControls == {"continue", "cancel"}
ErrorControls == {"reset"} \cup (IF uploaded /\ ~ isBatch THEN {"analyze"} ELSE {})
Spinning == step \in {"packaging", "uploading", "analyzing"}

(* A handler under the guard is not started while another runs. *)
Offers(control) ==
    /\ control \in CASE step = "resume" -> ResumeControls
                      [] step = "select" -> SelectControls
                      [] step = "partial" -> PartialControls
                      [] step = "error" -> ErrorControls
                      [] OTHER -> {}
    /\ ~ Busy

To(s, t) == step' = s /\ task' = t
Fails == To("error", "idle")

-----------------------------------------------------------------------------
(* Resuming: a submission that is running or done leads to its results.      *)

ResumeAnswered ==
    /\ task = "load"
    /\ \/ To("resume", "idle") /\ uploaded' = TRUE /\ UNCHANGED resumed
       \/ To("select", "idle") /\ resumed' = FALSE /\ UNCHANGED uploaded
    /\ UNCHANGED <<selection, put, pollVars, server>>

(* "Upload a different file instead", and "Try again". *)
ResetToSelect ==
    /\ Offers("reset")
    /\ To("select", "idle")
    /\ Reset

-----------------------------------------------------------------------------
(* Selecting.  A selection that is too big leaves the old one, but for a list
   the single file is dropped first.                                         *)

PickOne ==
    /\ Offers("pick")
    /\ file' = TRUE /\ files' = 0
    /\ UNCHANGED <<step, task, put, uploaded, resumed, pollVars, server>>

PickMany ==
    /\ Offers("pick")
    /\ file' = FALSE
    /\ files' \in (2 .. MaxFiles) \cup {files}
    /\ put' = IF files' = files THEN put ELSE [i \in Files |-> "pending"]
    /\ UNCHANGED <<step, task, uploaded, resumed, pollVars, server>>

(* The list and its remove buttons are shown for a batch only. *)
RemoveFile ==
    /\ Offers("remove")
    /\ files' = files - 1
    /\ UNCHANGED <<step, task, file, put, uploaded, resumed, pollVars, server>>

ClearAll ==
    /\ Offers("clear")
    /\ file' = FALSE /\ files' = 0
    /\ UNCHANGED <<step, task, put, uploaded, resumed, pollVars, server>>

(* A folder, dropped or chosen, is read and packed; whatever goes wrong leaves the
   selection as it was. *)
PickFolder ==
    /\ Offers("folder")
    /\ To("packaging", "pack")
    /\ UNCHANGED <<selection, put, uploaded, resumed, pollVars, server>>

FolderPacked ==
    /\ task = "pack"
    /\ To("select", "idle")
    /\ \/ file' = TRUE /\ files' = 0
       \/ UNCHANGED selection
    /\ UNCHANGED <<put, uploaded, resumed, pollVars, server>>

-----------------------------------------------------------------------------
(* One board: handleSingleUpload, handleRetryAnalysis, runAnalysis.          *)

SingleUpload ==
    /\ Offers("upload") /\ ~ isBatch /\ file
    /\ To("uploading", "create")
    /\ uploaded' = FALSE /\ resumed' = FALSE
    /\ inS3' = {} /\ jobOf' = [i \in Files |-> "none"]
    /\ UNCHANGED <<selection, put, pollVars>>

CreateAnswered ==
    /\ task = "create"
    /\ To("uploading", "put") \/ Fails
    /\ UNCHANGED <<selection, put, uploaded, resumed, pollVars, server>>

(* The file may have arrived although the request failed. *)
RememberFirst ==                                                    \* mutant
    /\ task = "put"
    /\ \/ To("analyzing", "start") /\ inS3' = {1}
       \/ Fails /\ inS3' \in {{}, {1}}
    /\ uploaded' = TRUE
    /\ UNCHANGED <<selection, put, resumed, pollVars, jobOf>>
PutAnswered ==
    /\ task = "put"
    /\ \/ To("analyzing", "start") /\ inS3' = {1} /\ uploaded' = TRUE
       \/ Fails /\ inS3' \in {{}, {1}} /\ UNCHANGED uploaded
    /\ UNCHANGED <<selection, put, resumed, pollVars, jobOf>>

(* "Start analysis", "Re-run analysis" and "Retry analysis". *)
RetryAnalysis ==
    /\ Offers("analyze")
    /\ To("analyzing", "start")
    /\ UNCHANGED <<selection, put, uploaded, resumed, pollVars, server>>

StartAnswered ==
    /\ task = "start"
    /\ \/ To("analyzing", "poll") /\ jobOf' = [jobOf EXCEPT ![1] = "running"]
       \/ Fails /\ UNCHANGED jobOf
       \/ Fails /\ jobOf' = [jobOf EXCEPT ![1] = "running"]
    /\ misses' = 0 /\ late' = FALSE
    /\ UNCHANGED <<selection, put, uploaded, resumed, inS3>>

-----------------------------------------------------------------------------
(* A batch: handleBatchUpload, continueBatchAfterPartial, runBatchAnalysis.  *)

BatchUpload ==
    /\ Offers("upload") /\ isBatch
    /\ To("uploading", "createBatch")
    /\ inS3' = {} /\ jobOf' = [i \in Files |-> "none"]
    /\ UNCHANGED <<selection, put, uploaded, resumed, pollVars>>

CreateBatchAnswered ==
    /\ task = "createBatch"
    /\ \/ To("uploading", "puts")
          /\ put' = [i \in Files |-> IF i \in Boards THEN "uploading" ELSE "pending"]
       \/ Fails /\ UNCHANGED put
    /\ UNCHANGED <<selection, uploaded, resumed, pollVars, server>>

OnePutAnswered(i) ==
    /\ task = "puts" /\ put[i] = "uploading"
    /\ \/ put' = [put EXCEPT ![i] = "uploaded"] /\ inS3' = inS3 \cup {i}
       \/ put' = [put EXCEPT ![i] = "failed"] /\ inS3' \in {inS3, inS3 \cup {i}}
    /\ UNCHANGED <<step, task, selection, uploaded, resumed, pollVars, jobOf>>

Failures == {i \in Boards : put[i] = "failed"}

ProceedSilently ==                                                  \* mutant
    /\ task = "puts" /\ \A i \in Boards : put[i] # "uploading"
    /\ IF Failures = Boards THEN Fails ELSE To("uploading", "analyzeBatch")
    /\ UNCHANGED <<selection, put, uploaded, resumed, pollVars, server>>
AllPutsOver ==
    /\ task = "puts" /\ \A i \in Boards : put[i] # "uploading"
    /\ CASE Failures = Boards -> Fails
         [] Failures = {} -> To("analyzing", "analyzeBatch")
         [] OTHER -> To("partial", "idle")
    /\ UNCHANGED <<selection, put, uploaded, resumed, pollVars, server>>

ContinueBatch ==
    /\ Offers("continue")
    /\ To("analyzing", "analyzeBatch")
    /\ UNCHANGED <<selection, put, uploaded, resumed, pollVars, server>>

CancelBatch ==
    /\ Offers("cancel")
    /\ To("select", "idle")
    /\ put' = [i \in Files |-> "pending"]
    /\ UNCHANGED <<selection, uploaded, resumed, pollVars, server>>

(* The API starts a job for every submission of the batch, the ones whose upload
   failed included. *)
AnalyzeBatchAnswered ==
    /\ task = "analyzeBatch"
    /\ \/ To("analyzing", "pollBatch")
          /\ jobOf' = [i \in Files |-> IF i \in Boards THEN "running" ELSE "none"]
       \/ Fails /\ UNCHANGED jobOf
    /\ misses' = 0 /\ late' = FALSE
    /\ UNCHANGED <<selection, put, uploaded, resumed, inS3>>

-----------------------------------------------------------------------------
(* pollJobUntilDone, pollBatchUntilDone and fetchWithRetry.                  *)

Polling == task \in {"poll", "pollBatch"}
Finished == \A i \in Boards : jobOf[i] \in {"done", "failed"}

(* One job ends as FAILED: an error.  A batch is done however its jobs ended. *)
DoneAnyway == To("done", "idle")                                    \* mutant
PollEnds ==
    IF task = "poll" /\ jobOf[1] = "failed" THEN Fails ELSE To("done", "idle")

PollForever ==                                                      \* mutant
    /\ Polling
    /\ misses' = 0
    /\ IF Finished THEN PollEnds ELSE UNCHANGED <<step, task>>
    /\ UNCHANGED <<selection, put, uploaded, resumed, late, server>>
PollAnswered ==
    /\ Polling
    /\ misses' = 0
    /\ CASE Finished -> PollEnds
         [] late /\ ~ Finished -> To("timeout", "idle")
         [] OTHER -> UNCHANGED <<step, task>>
    /\ UNCHANGED <<selection, put, uploaded, resumed, late, server>>

(* No answer or a 5xx is tried again, a few times; a 4xx is not. *)
EndlessRetry ==                                                     \* mutant
    /\ Polling
    /\ \/ misses' = misses + 1 /\ UNCHANGED <<step, task>>
       \/ Fails /\ UNCHANGED misses
    /\ UNCHANGED <<selection, put, uploaded, resumed, late, server>>
PollMissed ==
    /\ Polling
    /\ \/ misses < MaxRetries /\ misses' = misses + 1 /\ UNCHANGED <<step, task>>
       \/ Fails /\ UNCHANGED misses
    /\ UNCHANGED <<selection, put, uploaded, resumed, late, server>>

PollTimesOut ==
    /\ Polling /\ ~ late
    /\ late' = TRUE
    /\ UNCHANGED <<step, task, selection, put, uploaded, resumed, misses, server>>

(* The worker: without a file it fails. *)
JobEnds(i) ==
    /\ jobOf[i] = "running"
    /\ \/ i \in inS3 /\ jobOf' = [jobOf EXCEPT ![i] = "done"]
       \/ jobOf' = [jobOf EXCEPT ![i] = "failed"]
    /\ UNCHANGED <<step, task, selection, put, uploaded, resumed, pollVars, inS3>>

(* The page is left, by its links or by a redirect, and opened again. *)
Reopen ==
    /\ ~ (step = "select" /\ task = "idle")
    /\ Reset
    /\ To("select", "idle")

-----------------------------------------------------------------------------
Handler ==
    \/ ResumeAnswered \/ FolderPacked \/ CreateAnswered \/ PutAnswered \/ StartAnswered
    \/ CreateBatchAnswered \/ (\E i \in Files : OnePutAnswered(i)) \/ AllPutsOver
    \/ AnalyzeBatchAnswered

UploadNext ==
    \/ Handler
    \/ ResetToSelect \/ PickOne \/ PickMany \/ RemoveFile \/ ClearAll \/ PickFolder
    \/ SingleUpload \/ RetryAnalysis \/ BatchUpload \/ ContinueBatch \/ CancelBatch
    \/ PollAnswered \/ PollMissed \/ PollTimesOut
    \/ \E i \in Files : JobEnds(i)
    \/ Reopen

(* Requests are answered or fail, a poll asks again, and time passes.  Nothing is
   assumed of the worker. *)
UploadFairness ==
    /\ WF_uploadVars(Handler)
    /\ SF_uploadVars(PollAnswered)
    /\ WF_uploadVars(PollTimesOut)

UploadSpec == UploadInit /\ [][UploadNext]_uploadVars

-----------------------------------------------------------------------------
(* "lets the error screen offer Retry analysis without re-uploading"
   (page.tsx:92-94): what is retried is in S3, over any sequence of selections,
   failures and retries. *)
RetryHasFile == uploaded /\ ~ resumed => 1 \in inS3

(* The success message is shown only when every board it speaks of was uploaded
   and analyzed (page.tsx:803-811). *)
AllAnalyzed ==
    step = "done" /\ (isBatch => Failures = {} /\ \A i \in Boards : jobOf[i] # "failed")

SuccessIsTrue ==
    AllAnalyzed => \A i \in Boards : i \in inS3 /\ jobOf[i] = "done"

(* Once files were known not to be uploaded, the analysis starts only after the
   user was asked (page.tsx:400 "Don't proceed silently past upload failures"). *)
AsksFirst ==
    [][Failures # {} /\ task # "analyzeBatch" /\ task' = "analyzeBatch"
          => step = "partial"]_uploadVars

(* "instead of spinning the UI forever" (poll.ts:61-62). *)
SpinnerStops == Spinning ~> ~ Spinning

-----------------------------------------------------------------------------
(* The inductive invariant of the proofs.  A handler is of one board or of a batch, as
   the selection is, which none changes while it runs; uploadedSubmissionId is of one
   board, and is not set when the page selects or uploads; a job that is done had its
   file; and the page is done only when every job is over. *)
SingleTasks == {"create", "put", "start", "poll"}
BatchTasks == {"createBatch", "puts", "analyzeBatch", "pollBatch"}

TaskOfSelection ==
    /\ task = "load" => resumed /\ step = "resume"
    /\ step = "resume" => files = 0
    /\ task \in SingleTasks => ~ isBatch
    /\ task \in BatchTasks \/ step = "partial" => isBatch
    /\ step = "done" => task = "idle"

UploadedLast ==
    \/ step \in {"select", "packaging", "partial"}
    \/ task \in {"load", "pack", "create", "put"} \cup BatchTasks
    => ~ uploaded

JobsHaveFiles ==
    /\ task \in {"create", "put"} => \A i \in Files : jobOf[i] = "none"
    /\ \A i \in Files : jobOf[i] = "done" => i \in inS3

DoneIsOver == step = "done" => Finished /\ (~ isBatch => jobOf[1] = "done")

UploadInv ==
    /\ UploadTypeOK /\ TaskOfSelection /\ UploadedLast /\ RetryHasFile
    /\ JobsHaveFiles /\ DoneIsOver
=============================================================================
