------------------------------- MODULE BatchPage -------------------------------
(***************************************************************************)
(* The page of a batch: it polls every 3 s while the batch is PENDING or   *)
(* PROCESSING, until a request fails or five minutes have passed.  "Retry  *)
(* Failed" asks once for the new state and does not poll again.            *)
(*                                                                         *)
(* External: the API and the worker, who change the batch.                 *)
(***************************************************************************)
CONSTANTS
    NoBatch     \* nothing loaded

Active == {"PENDING", "PROCESSING"}
Verdicts == {"DONE", "PARTIAL_FAIL", "FAILED"}

ASSUME BatchPageAssumption == NoBatch \notin Active \cup Verdicts

VARIABLES
    batch,       \* external: the status of the batch
    data,        \* the status the page shows
    batchError,  \* error is set; nothing ever clears it
    pollPc,      \* the poll: it awaits an answer or its timer, or has stopped
    pollAnswer,  \* what the API answered it
    pollLate,    \* five minutes have passed
    retryPc,     \* handleRetry
    retryAnswer,
    batchRetried \* history: handleRetry was called

batchVars == <<batch, data, batchError, pollPc, pollAnswer, pollLate, retryPc,
               retryAnswer, batchRetried>>
pagePoll == <<pollPc, pollAnswer, pollLate>>
pageRetry == <<retryPc, retryAnswer, batchRetried>>

Answers == Active \cup Verdicts \cup {NoBatch}

BatchPageTypeOK ==
    /\ batch \in Active \cup Verdicts
    /\ data \in Answers /\ batchError \in BOOLEAN
    /\ pollPc \in {"asked", "answered", "timer", "stopped"} /\ pollAnswer \in Answers
    /\ pollLate \in BOOLEAN
    /\ retryPc \in {"idle", "starting", "asked", "answered"} /\ retryAnswer \in Answers
    /\ batchRetried \in BOOLEAN

BatchPageInit ==
    /\ batch \in Active \cup Verdicts
    /\ data = NoBatch /\ batchError = FALSE
    /\ pollPc = "asked" /\ pollAnswer = NoBatch /\ pollLate = FALSE
    /\ retryPc = "idle" /\ retryAnswer = NoBatch /\ batchRetried = FALSE

-----------------------------------------------------------------------------
(* fetchBatch: the API answers with the status it reads, or the request fails. *)
PollServed ==
    /\ pollPc = "asked"
    /\ pollPc' = "answered"
    /\ pollAnswer' \in {batch, NoBatch}
    /\ UNCHANGED <<batch, data, batchError, pollLate, pageRetry>>

Shown(answer) ==
    /\ data' = IF answer = NoBatch THEN data ELSE answer
    /\ batchError' = (batchError \/ answer = NoBatch)

OnlyProcessing ==                                                   \* mutant
    /\ pollPc = "answered"
    /\ Shown(pollAnswer)
    /\ pollPc' = IF pollAnswer = "PROCESSING" /\ ~ pollLate THEN "timer" ELSE "stopped"
    /\ pollAnswer' = NoBatch
    /\ UNCHANGED <<batch, pollLate, pageRetry>>
PollTaken ==
    /\ pollPc = "answered"
    /\ Shown(pollAnswer)
    /\ pollPc' = IF pollAnswer \in Active /\ ~ pollLate THEN "timer" ELSE "stopped"
    /\ pollAnswer' = NoBatch
    /\ UNCHANGED <<batch, pollLate, pageRetry>>

PollAgain ==
    /\ pollPc = "timer"
    /\ pollPc' = "asked"
    /\ UNCHANGED <<batch, data, batchError, pollAnswer, pollLate, pageRetry>>

FiveMinutes ==
    /\ ~ pollLate
    /\ pollLate' = TRUE
    /\ UNCHANGED <<batch, data, batchError, pollPc, pollAnswer, pageRetry>>

-----------------------------------------------------------------------------
(* handleRetry.  The button is there when jobs failed and the batch is over. *)
RetryOffered == data \in {"PARTIAL_FAIL", "FAILED"} /\ retryPc = "idle"

RetryFailed ==
    /\ RetryOffered
    /\ retryPc' = "starting" /\ batchRetried' = TRUE
    /\ UNCHANGED <<batch, data, batchError, pagePoll, retryAnswer>>

RetryStarted ==
    /\ retryPc = "starting"
    /\ \/ /\ retryPc' = "asked" /\ UNCHANGED batchError
          /\ batch' = IF batch \in {"PARTIAL_FAIL", "FAILED"} THEN "PROCESSING" ELSE batch
       \/ /\ retryPc' = "idle" /\ batchError' = TRUE
          /\ batch' \in {batch} \cup (IF batch \in {"PARTIAL_FAIL", "FAILED"}
                                      THEN {"PROCESSING"} ELSE {})
    /\ UNCHANGED <<data, pagePoll, retryAnswer, batchRetried>>

RetryServed ==
    /\ retryPc = "asked"
    /\ retryPc' = "answered"
    /\ retryAnswer' \in {batch, NoBatch}
    /\ UNCHANGED <<batch, data, batchError, pagePoll, batchRetried>>

RetryTaken ==
    /\ retryPc = "answered"
    /\ Shown(retryAnswer)
    /\ retryPc' = "idle" /\ retryAnswer' = NoBatch
    /\ UNCHANGED <<batch, pagePoll, batchRetried>>

-----------------------------------------------------------------------------
(* What the page renders: the spinner until the first answer, the progress while the
   batch is active, and the rows of its submissions. *)
BatchView ==
    CASE data = NoBatch /\ ~ batchError -> "spinner"
      [] data = NoBatch /\ batchError -> "error"
      [] data \in Active -> "progress"
      [] OTHER -> "results"

(* The API and the worker. *)
BatchMoves ==
    /\ \/ batch = "PENDING" /\ batch' = "PROCESSING"
       \/ batch = "PROCESSING" /\ batch' \in Verdicts
    /\ UNCHANGED <<data, batchError, pagePoll, pageRetry>>

BatchPageNext ==
    \/ PollServed \/ PollTaken \/ PollAgain \/ FiveMinutes
    \/ RetryFailed \/ RetryStarted \/ RetryServed \/ RetryTaken
    \/ BatchMoves

(* Requests end and timers fire. *)
BatchPageFairness ==
    /\ WF_batchVars(PollServed \/ PollTaken \/ PollAgain)
    /\ WF_batchVars(RetryStarted \/ RetryServed \/ RetryTaken)

BatchPageSpec == BatchPageInit /\ [][BatchPageNext]_batchVars

-----------------------------------------------------------------------------
(* While a retry is under way the poll has stopped, so no answer of it replaces the
   newer one. *)
OneAsker == data \in Verdicts \/ retryPc # "idle" => pollPc = "stopped"

(* An answer that is a verdict still is the batch's when it arrives. *)
AnswersHold ==
    /\ pollPc = "answered" /\ pollAnswer \in Verdicts => batch = pollAnswer
    /\ retryPc = "answered" /\ retryAnswer \in Verdicts => batch = retryAnswer

(* The verdict that is shown is the batch's until a retry is accepted, unless a request
   failed (batches/[id]/page.tsx:65-97). *)
VerdictShown ==
    data \in Verdicts /\ retryPc \in {"idle", "starting"} /\ ~ batchError => batch = data

BatchPageInv == BatchPageTypeOK /\ OneAsker /\ AnswersHold /\ VerdictShown

(* A page left open follows its batch to the verdict, unless a request failed, the
   five minutes are over or the batch was retried (batches/[id]/page.tsx:65-83). *)
BatchFollows ==
    BatchView = "progress"
        ~> (BatchView = "results" \/ batch \in Active \/ batchError \/ pollLate \/ batchRetried)
=============================================================================
