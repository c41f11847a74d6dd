------------------------------ MODULE Pipeline ------------------------------
(***************************************************************************)
(* The analysis pipeline: the API handlers and the worker process, which   *)
(* meet only in the database rows, the S3 objects and the queue.           *)
(***************************************************************************)
EXTENDS Worker, AnalysisApi

vars == <<rowVars, faults, queue, pollerVars, workerVars, request>>

TypeOK ==
    /\ RowsTypeOK
    /\ QueueTypeOK
    /\ PollerTypeOK
    /\ WorkerTypeOK
    /\ ApiTypeOK

Init ==
    /\ RowsInit
    /\ QueueInit
    /\ PollerInit
    /\ WorkerInit
    /\ ApiInit

(* Five minutes pass since job j was created.  When its message is still in
   the queue, in the worker, or not yet sent by the handler, that takes a
   backlog, an admitted fault. *)
Age(j) ==
    /\ job[j].status = "PENDING"
    /\ j \notin old
    /\ old' = old \cup {j}
    /\ IF \/ Outstanding(j) # {}
          \/ \E h \in Requests : request[h].job = j /\ request[h].pc \in {"mark", "send"}
       THEN Fault("backlog")
       ELSE NoFault
    /\ UNCHANGED <<rowVars, queue, out, channel, stuck, workerVars, request>>

Next ==
    \/ WorkerNext /\ UNCHANGED request
    \/ ApiNext /\ UNCHANGED <<pollerVars, workerVars>>
    \/ \E j \in Jobs : Age(j)

Spec == Init /\ [][Next]_vars

(* The goroutines of the worker are scheduled, the sweep's ticker fires, SQS
   returns unacknowledged messages, an accepted request runs to its end, time
   passes.  Nothing is assumed of clients or of faults. *)
Fairness ==
    /\ WF_vars(PollerNext /\ UNCHANGED <<workerVars, request>>)
    /\ WF_vars(SweepRead /\ UNCHANGED <<workerVars, request>>)
    /\ WF_vars(Receive /\ UNCHANGED <<workerVars, request>>)
    /\ WF_vars(VisibilityTimeout /\ UNCHANGED request)
    /\ \A w \in Workers : WF_vars((Take(w) \/ Step(w)) /\ UNCHANGED request)
    /\ \A h \in Requests : WF_vars(ApiStep(h) /\ UNCHANGED <<pollerVars, workerVars>>)
    /\ \A j \in Jobs : WF_vars(Age(j))

FairSpec == Spec /\ Fairness

-----------------------------------------------------------------------------
(* Safety *)

(* A job that is DONE has everything its page shows: the board key, a stored
   board object, a score, and in the violation table every violation that
   went into this score; a violations key points to a stored object.  This
   has to survive runs that fail half way, duplicate runs of the same job,
   and their whole-row Saves of stale copies. *)
DoneIsComplete ==
    \A j \in Jobs : job[j].status = "DONE" =>
        /\ job[j].boardKey
        /\ s3[j].board # 0
        /\ job[j].score # 0
        /\ Stored(job[j].score, j)
        /\ job[j].violKey => s3[j].viol # 0

(* Every violation that GetViolations serves from violations.json has its row
   in the database, under the same job: UpdateViolation finds it. *)
BlobIdsExist ==
    \A j \in Jobs : s3[j].viol # 0 => Stored(s3[j].viol, j)

(* The pipeline implements the life cycle of a job.  A run is stored for a
   job when the last of its violations is in the table. *)
Lifecycle == INSTANCE JobLifecycle WITH
    status <- [j \in Jobs |-> job[j].status],
    stored <- [j \in Jobs |-> {r \in Runs : Stored(r, j)}],
    shown <- [j \in Jobs |-> {job[j].score} \ {0}]

ImplementsLifecycle == Lifecycle!Spec

-----------------------------------------------------------------------------
(* Batches *)

Finalised(b) == batch[b].status \in {"DONE", "PARTIAL_FAIL"}

MembersIn(b, status) == {s \in Members(b) : sub[s] = status}

(* Nothing is under way and nothing is left to be delivered. *)
Quiet ==
    /\ \A h \in Requests : request[h].pc \in {"new", "done"}
    /\ \A w \in Workers : pc[w] = "idle"
    /\ \A j \in Jobs : job[j].status # "PENDING"
    /\ Visible \cup Inflight = {}
    /\ stuck = {}

(* updateBatchProgress "finalises the batch status when all submissions have
   been processed": no batch is final before. *)
FinalWhenProcessed ==
    \A b \in Batches : Finalised(b) =>
        Members(b) = MembersIn(b, "DONE") \cup MembersIn(b, "FAILED")

(* The counters are exact once everything has come to rest: each submission
   is counted once, under its final status, however workers interleave. *)
CountersExact ==
    Quiet => \A b \in Batches :
        /\ batch[b].completed = Cardinality(MembersIn(b, "DONE"))
        /\ batch[b].failed = Cardinality(MembersIn(b, "FAILED"))

(* The final status of a batch tells whether a submission failed. *)
VerdictExact ==
    Quiet => \A b \in Batches :
        batch[b].status = "DONE" <=> Members(b) = MembersIn(b, "DONE")

-----------------------------------------------------------------------------
(* Action properties and liveness *)

(* "Polls a job until it reaches a terminal state (DONE or FAILED)": what the
   poller saw as terminal stays so. *)
TerminalIsFinal ==
    [][\A j \in Jobs : job[j].status \in {"DONE", "FAILED"} =>
                        job'[j].status = job[j].status]_vars

(* A job that was created is picked up, even when its message was never sent
   or the worker died with it. *)
PendingIsPickedUp ==
    \A j \in Jobs : job[j].status = "PENDING" ~> job[j].status # "PENDING"

(* A job that a worker has claimed ends, even when this worker dies. *)
ProcessingEnds ==
    \A j \in Jobs :
        job[j].status = "PROCESSING" ~> job[j].status \in {"DONE", "FAILED"}

(* A submission does not stay ANALYZING. *)
AnalyzingEnds ==
    \A s \in Subs : sub[s] = "ANALYZING" ~> sub[s] \in {"DONE", "FAILED"}

(* A batch that is being processed gets its final status: of two goroutines
   that finish its last submissions together, one sees both counts. *)
BatchFinalises ==
    \A b \in Batches : batch[b].status = "PROCESSING" ~> Finalised(b)

=============================================================================
