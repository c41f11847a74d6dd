----------------------------- MODULE AnalysisApi -----------------------------
(***************************************************************************)
(* The API handlers that start analyses: StartAnalysis of one submission,  *)
(* SharedAnalyze of one that came in over a share link, AnalyzeBatch and   *)
(* RetryBatch.  They share one loop body: create a job row, mark the       *)
(* submission ANALYZING, enqueue the job.  Each request runs in a          *)
(* goroutine of its own; one step is one access to the database or to SQS. *)
(***************************************************************************)
EXTENDS Queue

CONSTANTS
    Requests,  \* bound: the requests of one behaviour, one goroutine each
    Calls      \* Calls[h]: the endpoints the client of request h may call

Endpoints == {"start", "shared", "analyze", "retry"}

ASSUME CallsAssumption == Calls \in [Requests -> SUBSET Endpoints]

VARIABLE request  \* request[h]: the locals of the goroutine serving request h

(* call: the endpoint; todo: submissions of the loop still to do; job: the
   row of the current iteration; of: its submission. *)
Request == [call : Endpoints \cup {"none"},
            pc : {"new", "reset", "create", "mark", "send", "done"},
            todo : SUBSET Subs, of : Subs \cup {None}, job : Jobs \cup {None}]

NewRequest == [call |-> "none", pc |-> "new", todo |-> {}, of |-> None, job |-> None]

ApiTypeOK == request \in [Requests -> Request]
ApiInit == request = [h \in Requests |-> NewRequest]

ReadyIn(b, status) == {s \in Members(b) : sub[s] = status}

(* Request h is accepted, with the submissions of S to work on. *)
Accept(h, call, step, S) ==
    /\ request[h].pc = "new"
    /\ call \in Calls[h]
    /\ S # {}
    /\ request' = [request EXCEPT ![h] =
                     [NewRequest EXCEPT !.call = call, !.pc = step, !.todo = S]]
    /\ UNCHANGED <<rowVars, faults, queue>>

(* The status of the submission is not looked at. *)
StartAnalysis(h, s) == Accept(h, "start", "create", {s})

SharedAnalyze(h, s) ==
    /\ sub[s] = "UPLOADED"
    /\ Accept(h, "shared", "create", {s})

AnalyzeBatch(h, b) == Accept(h, "analyze", "reset", ReadyIn(b, "UPLOADED"))

RetryBatch(h, b) == Accept(h, "retry", "reset", ReadyIn(b, "FAILED"))

(* The batch of a batch request, found again through its submissions. *)
BatchOfRequest(h) == BatchOf[CHOOSE s \in request[h].todo : TRUE]

NothingRetried(h) == 0                                             \* mutant
Retried(h) == IF request[h].call = "retry" THEN Cardinality(request[h].todo) ELSE 0

(* Set the batch PROCESSING and, on a retry, take the retried submissions
   back out of the failed counter. *)
ResetBatch(h) ==
    LET b == BatchOfRequest(h) IN
    /\ request[h].pc = "reset"
    /\ request' = [request EXCEPT ![h].pc = "create"]
    /\ \/ /\ batch' = [batch EXCEPT ![b].status = "PROCESSING",
                                    ![b].failed = @ - Retried(h)]
          /\ NoFault
       \/ Fault("swallowed") /\ UNCHANGED batch
    /\ UNCHANGED <<job, sub, violations, s3, billed, queue>>

(* Continue the loop with the submissions of S; return when there are none. *)
Loop(h, S) == IF S = {} THEN "done" ELSE "create"

(* AnalyzeBatch bills an analysis right after its row is created; retries and
   shared analyses are not billed. *)
CreateJob(h, s) ==
    LET rest == request[h].todo \ {s} IN
    /\ request[h].pc = "create"
    /\ s \in request[h].todo
    /\ \/ \E j \in Jobs :
            /\ job[j].status = "NONE"
            /\ job' = [job EXCEPT ![j] = NewJob(s)]
            /\ billed' = IF request[h].call = "analyze" THEN billed \cup {j} ELSE billed
            /\ request' = [request EXCEPT ![h] =
                             [request[h] EXCEPT !.pc = "mark", !.todo = rest,
                                                !.of = s, !.job = j]]
            /\ NoFault
       \/ /\ Fault("create")
          /\ request' = [request EXCEPT ![h] =
                           [request[h] EXCEPT !.pc = Loop(h, rest), !.todo = rest]]
          /\ UNCHANGED <<job, billed>>
    /\ UNCHANGED <<sub, batch, violations, s3, queue>>

MarkAnalyzing(h) ==
    /\ request[h].pc = "mark"
    /\ request' = [request EXCEPT ![h].pc = "send"]
    /\ \/ sub' = [sub EXCEPT ![request[h].of] = "ANALYZING"] /\ NoFault
       \/ Fault("swallowed") /\ UNCHANGED sub
    /\ UNCHANGED <<job, batch, violations, s3, billed, queue>>

(* EnqueueJob; a failure is only logged.  StartAnalysis bills afterwards. *)
Enqueue(h) ==
    LET j == request[h].job IN
    /\ request[h].pc = "send"
    /\ request' = [request EXCEPT ![h].pc = Loop(h, request[h].todo)]
    /\ billed' = IF request[h].call = "start" THEN billed \cup {j} ELSE billed
    /\ \/ SendMessage(j) /\ NoFault
       \/ Fault("send") /\ UNCHANGED queue
    /\ UNCHANGED <<job, sub, batch, violations, s3>>

(* The API process dies in the middle of a request. *)
ApiCrash(h) ==
    /\ request[h].pc \notin {"new", "done"}
    /\ Fault("apiCrash")
    /\ request' = [request EXCEPT ![h].pc = "done"]
    /\ UNCHANGED <<rowVars, queue>>

ApiStep(h) ==
    \/ ResetBatch(h)
    \/ \E s \in Subs : CreateJob(h, s)
    \/ MarkAnalyzing(h)
    \/ Enqueue(h)

ApiNext ==
    \E h \in Requests :
        \/ \E s \in Subs : StartAnalysis(h, s) \/ SharedAnalyze(h, s)
        \/ \E b \in Batches : AnalyzeBatch(h, b) \/ RetryBatch(h, b)
        \/ ApiStep(h)
        \/ ApiCrash(h)

=============================================================================
