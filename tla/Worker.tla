-------------------------------- MODULE Worker --------------------------------
(***************************************************************************)
(* The goroutine pool of the worker process: sqsWorker, ProcessJob,        *)
(* updateBatchProgress and markJobFailedWithBatch, one action per access   *)
(* to the database, to S3 or to SQS.  Between First and the last Save,     *)
(* ProcessJob keeps a private copy of the job row, and every Save writes   *)
(* that whole copy back.                                                   *)
(*                                                                         *)
(* Faults: "save" is an error that ProcessJob returns, "swallowed" one     *)
(* that is only logged or ignored, "s3" a failed PutObject, "ack" a failed *)
(* DeleteMessage, "expire" a visibility timeout that runs out on a         *)
(* delivery still being worked on, "crash" the end of the process.         *)
(***************************************************************************)
EXTENDS Poller

CONSTANT Workers  \* the goroutines of the pool (workerPoolSize = 5)

VARIABLES
    pc,        \* pc[w]: the next step of goroutine w
    delivery,  \* delivery[w]: the message it works on
    copy,      \* copy[w]: its private copy of the job row
    run,       \* run[w]: the number of its run, once it has one
    runs       \* the number of runs so far

workerVars == <<pc, delivery, copy, run, runs>>
locals == <<delivery, copy, run, runs>>

(* A goroutine at completed or failed is about to increment this counter of
   the batch, one at DONE or PARTIAL_FAIL to write this status. *)
Steps == {"idle", "fetch", "claim", "board", "meta", "insert", "finalize",
          "subDone", "mark", "subFailed", "completed", "failed", "check",
          "DONE", "PARTIAL_FAIL", "ack"}

WorkerTypeOK ==
    /\ pc \in [Workers -> Steps]
    /\ delivery \in [Workers -> Delivery \cup {None}]
    /\ copy \in [Workers -> JobRow]
    /\ run \in [Workers -> RunOrNone]
    /\ runs \in RunOrNone

WorkerInit ==
    /\ pc = [w \in Workers |-> "idle"]
    /\ delivery = [w \in Workers |-> None]
    /\ copy = [w \in Workers |-> NoJob]
    /\ run = [w \in Workers |-> 0]
    /\ runs = 0

JobOf(w) == delivery[w].job
Parent(w) == job[JobOf(w)].sub
BatchOfJob(w) == BatchOf[Parent(w)]

Goto(w, from, to) ==
    /\ pc[w] = from
    /\ pc' = [pc EXCEPT ![w] = to]

(* db.Save(&job): the whole private copy overwrites the row. *)
Save(w, row) ==
    /\ copy' = [copy EXCEPT ![w] = row]
    /\ job' = [job EXCEPT ![JobOf(w)] = row]

(* Back to the channel, the locals gone. *)
Forget(w) ==
    /\ delivery' = [delivery EXCEPT ![w] = None]
    /\ copy' = [copy EXCEPT ![w] = NoJob]
    /\ run' = [run EXCEPT ![w] = 0]

-----------------------------------------------------------------------------
(* ProcessJob *)

TakeAndDelete(w) ==                                                \* mutant
    /\ Goto(w, "idle", "fetch")
    /\ channel # << >>
    /\ delivery' = [delivery EXCEPT ![w] = Head(channel)]
    /\ channel' = Tail(channel)
    /\ DeleteMessage(Head(channel))
    /\ UNCHANGED <<rowVars, faults, out, stuck, old, copy, run, runs>>

Take(w) ==
    /\ Goto(w, "idle", "fetch")
    /\ channel # << >>
    /\ delivery' = [delivery EXCEPT ![w] = Head(channel)]
    /\ channel' = Tail(channel)
    /\ UNCHANGED <<rowVars, faults, queue, out, stuck, old, copy, run, runs>>

(* 1. Fetch the job.  Its status is not looked at. *)
Fetch(w) ==
    /\ \/ /\ Goto(w, "fetch", "claim")
          /\ copy' = [copy EXCEPT ![w] = job[JobOf(w)]]
          /\ NoFault
       \/ /\ Goto(w, "fetch", "mark")
          /\ Fault("save")
          /\ UNCHANGED copy
    /\ UNCHANGED <<rowVars, queue, pollerVars, delivery, run, runs>>

(* 2. Mark it PROCESSING. *)
Claim(w) ==
    /\ \/ /\ Goto(w, "claim", "board")
          /\ Save(w, [copy[w] EXCEPT !.status = "PROCESSING"])
          /\ NoFault
       \/ /\ Goto(w, "claim", "mark")
          /\ Fault("save")
          /\ UNCHANGED <<job, copy>>
    /\ UNCHANGED <<sub, batch, violations, s3, billed, queue, pollerVars,
                   delivery, run, runs>>

(* 3.-5.5 Read submission and profile, have the sidecar parse the archive and
   store the board.  The run that gets there is numbered. *)
StoreBoard(w) ==
    /\ Goto(w, "board", "meta")
    /\ runs < MaxRuns
    /\ runs' = runs + 1
    /\ run' = [run EXCEPT ![w] = runs + 1]
    /\ copy' = [copy EXCEPT ![w].boardKey = TRUE]
    /\ s3' = [s3 EXCEPT ![JobOf(w)].board = runs + 1]
    /\ UNCHANGED <<job, sub, batch, violations, billed, faults, queue, pollerVars,
                   delivery>>

(* Missing profile, sidecar error, bad board data, failed upload. *)
AnalysisFails(w) ==
    /\ Goto(w, "board", "mark")
    /\ UNCHANGED <<rowVars, faults, queue, pollerVars, locals>>

ScoreBeforeSave(w) ==                                              \* mutant
    /\ Goto(w, "meta", "insert")
    /\ Save(w, [copy[w] EXCEPT !.score = run[w]])
    /\ UNCHANGED <<sub, batch, violations, s3, billed, faults, queue, pollerVars,
                   delivery, run, runs>>

(* Persist the keys, a failure being only logged; then 6. run the rules and
   compute the score in the private copy. *)
SaveMeta(w) ==
    /\ Goto(w, "meta", "insert")
    /\ copy' = [copy EXCEPT ![w].score = run[w]]
    /\ \/ job' = [job EXCEPT ![JobOf(w)] = copy[w]] /\ NoFault
       \/ Fault("swallowed") /\ UNCHANGED job
    /\ UNCHANGED <<sub, batch, violations, s3, billed, queue, pollerVars,
                   delivery, run, runs>>

(* The loop over the violations of the run is not done. *)
BlobFirst(w) == FALSE                                              \* mutant
InsertOnceMore(w) == violations[run[w]].inserts <= NumInserts      \* mutant
SkipLastInsert(w) == violations[run[w]].inserts < NumInserts - 1   \* mutant
MoreToInsert(w) == violations[run[w]].inserts < NumInserts

(* 7. One bulk insert of violations. *)
InsertViolations(w) ==
    /\ pc[w] = "insert"
    /\ MoreToInsert(w)
    /\ \/ /\ pc' = pc
          /\ violations' = [violations EXCEPT ![run[w]] =
                              [job |-> JobOf(w), inserts |-> @.inserts + 1]]
          /\ NoFault
       \/ /\ Goto(w, "insert", "mark")
          /\ Fault("save")
          /\ UNCHANGED violations
    /\ UNCHANGED <<job, sub, batch, s3, billed, queue, pollerVars, locals>>

(* 7.5 Upload violations.json; without it the old ViolationsKey stays. *)
StoreBlob(w) ==
    /\ Goto(w, "insert", "finalize")
    /\ ~ MoreToInsert(w)
    /\ \/ /\ s3' = [s3 EXCEPT ![JobOf(w)].viol = run[w]]
          /\ copy' = [copy EXCEPT ![w].violKey = TRUE]
          /\ NoFault
       \/ /\ Fault("s3")
          /\ UNCHANGED <<s3, copy>>
    /\ UNCHANGED <<job, sub, batch, violations, billed, queue, pollerVars,
                   delivery, run, runs>>

(* 8. Mark the job DONE. *)
Finalize(w) ==
    /\ \/ /\ Goto(w, "finalize", "subDone")
          /\ Save(w, [copy[w] EXCEPT !.status = "DONE"])
          /\ NoFault
       \/ /\ Goto(w, "finalize", "mark")
          /\ Fault("save")
          /\ UNCHANGED <<job, copy>>
    /\ UNCHANGED <<sub, batch, violations, s3, billed, queue, pollerVars,
                   delivery, run, runs>>

SubmissionDone(w) ==
    /\ Goto(w, "subDone", "completed")
    /\ \/ sub' = [sub EXCEPT ![Parent(w)] = "DONE"] /\ NoFault
       \/ Fault("swallowed") /\ UNCHANGED sub
    /\ UNCHANGED <<job, batch, violations, s3, billed, queue, pollerVars, locals>>

-----------------------------------------------------------------------------
(* markJobFailedWithBatch *)

MarkJobOnly(w) ==                                                  \* mutant
    /\ Goto(w, "mark", "ack")
    /\ job' = [job EXCEPT ![JobOf(w)].status = "FAILED"]
    /\ UNCHANGED <<sub, batch, violations, s3, billed, faults, queue, pollerVars, locals>>

MarkFailed(w) ==
    /\ Goto(w, "mark", "subFailed")
    /\ \/ job' = [job EXCEPT ![JobOf(w)].status = "FAILED"] /\ NoFault
       \/ Fault("swallowed") /\ UNCHANGED job
    /\ UNCHANGED <<sub, batch, violations, s3, billed, queue, pollerVars, locals>>

(* Any of its three database calls may fail: the two reads end the function,
   a failed update of the submission is ignored. *)
SubmissionFailed(w) ==
    /\ pc[w] = "subFailed"
    /\ \/ /\ sub' = [sub EXCEPT ![Parent(w)] = "FAILED"]
          /\ Goto(w, "subFailed", "failed")
          /\ NoFault
       \/ /\ Fault("swallowed")
          /\ \/ sub' = [sub EXCEPT ![Parent(w)] = "FAILED"] /\ Goto(w, "subFailed", "ack")
             \/ UNCHANGED sub /\ Goto(w, "subFailed", "failed")
             \/ UNCHANGED sub /\ Goto(w, "subFailed", "ack")
    /\ UNCHANGED <<job, batch, violations, s3, billed, queue, pollerVars, locals>>

-----------------------------------------------------------------------------
(* updateBatchProgress *)

CountedTwice(row, field) ==                                        \* mutant
    [row EXCEPT !.completed = @ + 1, !.failed = IF field = "failed" THEN @ + 1 ELSE @]
Counted(row, field) ==
    IF field = "completed" THEN [row EXCEPT !.completed = row.completed + 1]
                           ELSE [row EXCEPT !.failed = row.failed + 1]

Count(w) ==
    LET b == BatchOfJob(w) IN
    /\ pc[w] \in {"completed", "failed"}
    /\ \/ /\ b = None
          /\ Goto(w, pc[w], "ack")
          /\ NoFault
          /\ UNCHANGED batch
       \/ /\ b # None
          /\ Goto(w, pc[w], "check")
          /\ batch' = [batch EXCEPT ![b] = Counted(batch[b], pc[w])]
          /\ NoFault
       \/ /\ b # None
          /\ Goto(w, pc[w], "ack")
          /\ Fault("swallowed")
          /\ UNCHANGED batch
    /\ UNCHANGED <<job, sub, violations, s3, billed, queue, pollerVars, locals>>

AllButOne(row) == row.completed + row.failed + 1 >= row.total      \* mutant
MoreThanAll(row) == row.completed + row.failed > row.total         \* mutant
AllProcessed(row) == row.completed + row.failed >= row.total

VerdictAnyDone(row) == IF row.completed = 0 THEN "PARTIAL_FAIL" ELSE "DONE" \* mutant
Verdict(row) == IF row.failed > 0 THEN "PARTIAL_FAIL" ELSE "DONE"

(* Read the counters back and decide on the final status. *)
Check(w) ==
    LET row == batch[BatchOfJob(w)] IN
    /\ pc[w] = "check"
    /\ \/ /\ AllProcessed(row)
          /\ Goto(w, "check", Verdict(row))
          /\ NoFault
       \/ /\ ~ AllProcessed(row)
          /\ Goto(w, "check", "ack")
          /\ NoFault
       \/ /\ Goto(w, "check", "ack")
          /\ Fault("swallowed")
    /\ UNCHANGED <<rowVars, queue, pollerVars, locals>>

Settle(w) ==
    /\ pc[w] \in {"DONE", "PARTIAL_FAIL"}
    /\ Goto(w, pc[w], "ack")
    /\ \/ batch' = [batch EXCEPT ![BatchOfJob(w)].status = pc[w]] /\ NoFault
       \/ Fault("swallowed") /\ UNCHANGED batch
    /\ UNCHANGED <<job, sub, violations, s3, billed, queue, pollerVars, locals>>

-----------------------------------------------------------------------------
(* sqsWorker deletes the message after success and after failure alike; a
   failed delete is logged. *)
Ack(w) ==
    /\ Goto(w, "ack", "idle")
    /\ Forget(w)
    /\ \/ DeleteMessage(delivery[w]) /\ NoFault
       \/ Superseded(delivery[w]) /\ UNCHANGED queue /\ NoFault
       \/ Fault("ack") /\ UNCHANGED queue
    /\ UNCHANGED <<rowVars, pollerVars, runs>>

(* The process is killed and restarted: everything in memory is lost. *)
Crash ==
    /\ Fault("crash")
    /\ pc' = [w \in Workers |-> "idle"]
    /\ delivery' = [w \in Workers |-> None]
    /\ copy' = [w \in Workers |-> NoJob]
    /\ run' = [w \in Workers |-> 0]
    /\ out' = {}
    /\ channel' = << >>
    /\ stuck' = {}
    /\ UNCHANGED <<rowVars, queue, old, runs>>

(* Messages somewhere in the worker process. *)
Held ==
    {d.msg : d \in out \cup {channel[i] : i \in DOMAIN channel}
                      \cup {delivery[w] : w \in {v \in Workers : pc[v] # "idle"}}}

VisibilityTimeout ==
    /\ \E m \in Inflight :
        /\ Expire(m)
        /\ IF m \in Held THEN Fault("expire") ELSE NoFault
    /\ UNCHANGED <<rowVars, pollerVars, workerVars>>

-----------------------------------------------------------------------------

Step(w) ==
    \/ Fetch(w) \/ Claim(w) \/ StoreBoard(w) \/ AnalysisFails(w) \/ SaveMeta(w)
    \/ InsertViolations(w) \/ StoreBlob(w) \/ Finalize(w) \/ SubmissionDone(w)
    \/ MarkFailed(w) \/ SubmissionFailed(w)
    \/ Count(w) \/ Check(w) \/ Settle(w) \/ Ack(w)

PollerNext == Receive \/ Dispatch \/ SweepRead \/ SweepSend

WorkerNext ==
    \/ \E w \in Workers : Take(w) \/ Step(w)
    \/ PollerNext /\ UNCHANGED workerVars
    \/ VisibilityTimeout
    \/ Crash

=============================================================================
