---------------------------- MODULE PipelineProofs ----------------------------
(***************************************************************************)
(* TLAPS proofs about Pipeline.                                            *)
(***************************************************************************)
EXTENDS PipelineInv, FiniteSetTheorems, SequenceTheorems, TLAPS

USE DEF vars, rowVars, pollerVars, workerVars, locals, NoFault

-----------------------------------------------------------------------------
(* Type correctness *)

(* Every Fault leaves the fault counter within its bound. *)
LEMMA FaultType ==
    ASSUME faults \in 0 .. MaxFaults, NEW k, Fault(k) \/ NoFault
    PROVE  faults' \in 0 .. MaxFaults
  BY RowsAssumption DEF Fault

LEMMA RowsTypeInit == Init => RowsTypeOK
  <1>1. \A b \in Batches : Cardinality(Members(b)) \in Nat
    BY RowsAssumption, FS_Subset, FS_CardinalityType DEF Members
  <1>2. QED
    BY <1>1, RowsAssumption
    DEF Init, RowsInit, RowsTypeOK, JobRow, NoJob, JobStatus, SubStatus, BatchRow,
        BatchStatus, Runs, RunOrNone

LEMMA TypeInit == Init => TypeOK
  <1>1. Init => WorkerTypeOK
    BY RowsAssumption DEF Init, WorkerInit, WorkerTypeOK, Steps, NoJob, JobRow,
       JobStatus, RunOrNone
  <1>2. Init => ApiTypeOK
    BY DEF Init, ApiInit, ApiTypeOK, Request, NewRequest, Endpoints
  <1>3. Init => QueueTypeOK /\ PollerTypeOK
    BY DEF Init, QueueInit, QueueTypeOK, PollerInit, PollerTypeOK
  <1>4. QED
    BY <1>1, <1>2, <1>3, RowsTypeInit DEF TypeOK

LEMMA StatusType ==
    ASSUME NEW row \in JobRow, NEW st \in JobStatus
    PROVE  [row EXCEPT !.status = st] \in JobRow
  BY DEF JobRow

LEMMA NoJobType == NoJob \in JobRow /\ 0 \in RunOrNone
  BY RowsAssumption DEF NoJob, JobRow, JobStatus, RunOrNone

(* A goroutine's step keeps its locals typed. *)
LEMMA WorkerTypeStep ==
    ASSUME RowsTypeOK, PollerTypeOK, WorkerTypeOK, CreatedOnly,
           NEW w \in Workers, Take(w) \/ Step(w)
    PROVE  WorkerTypeOK'
  <1>d. pc[w] # "idle" => JobOf(w) \in Jobs
    BY DEF CreatedOnly, Exists
  <1>1. CASE Take(w)
    BY <1>1 DEF Take, Goto, WorkerTypeOK, Steps, PollerTypeOK
  <1>2. CASE Fetch(w)
    <2>1. pc[w] = "fetch" => job[JobOf(w)] \in JobRow
      BY <1>d DEF RowsTypeOK
    <2>2. QED
      BY <1>2, <2>1 DEF Fetch, Goto, WorkerTypeOK, Steps
  <1>3. CASE Claim(w)
    <2>1. [copy[w] EXCEPT !.status = "PROCESSING"] \in JobRow
      BY StatusType DEF WorkerTypeOK, JobStatus
    <2>2. QED
      BY <1>3, <2>1 DEF Claim, Save, Goto, WorkerTypeOK, Steps
  <1>4. CASE StoreBoard(w)
    <2>1. copy' \in [Workers -> JobRow]
      BY <1>4 DEF StoreBoard, WorkerTypeOK, JobRow
    <2>2. runs' \in RunOrNone
      BY <1>4, RowsAssumption DEF StoreBoard, WorkerTypeOK, RunOrNone
    <2>3. QED
      BY <1>4, <2>1, <2>2 DEF StoreBoard, Goto, WorkerTypeOK, Steps
  <1>5. CASE SaveMeta(w)
    <2>1. copy' \in [Workers -> JobRow]
      BY <1>5 DEF SaveMeta, WorkerTypeOK, JobRow
    <2>2. QED
      BY <1>5, <2>1 DEF SaveMeta, Goto, WorkerTypeOK, Steps
  <1>6. CASE StoreBlob(w)
    <2>1. copy' \in [Workers -> JobRow]
      BY ZenonT(30), <1>6 DEF StoreBlob, WorkerTypeOK, JobRow
    <2>2. QED
      BY <1>6, <2>1 DEF StoreBlob, Goto, WorkerTypeOK, Steps
  <1>7. CASE Finalize(w)
    <2>1. [copy[w] EXCEPT !.status = "DONE"] \in JobRow
      BY StatusType DEF WorkerTypeOK, JobStatus
    <2>2. QED
      BY <1>7, <2>1 DEF Finalize, Save, Goto, WorkerTypeOK, Steps
  <1>8. CASE \/ AnalysisFails(w) \/ InsertViolations(w) \/ SubmissionDone(w) \/ MarkFailed(w)
             \/ SubmissionFailed(w) \/ Count(w) \/ Check(w) \/ Settle(w)
    <2>1. /\ UNCHANGED locals
          /\ \E st \in Steps : pc' = [pc EXCEPT ![w] = st] \/ pc' = pc
      BY <1>8 DEF AnalysisFails, InsertViolations, SubmissionDone, MarkFailed,
         SubmissionFailed, Count, Check, Verdict, Settle, Goto, Steps
    <2>2. QED
      BY <2>1 DEF WorkerTypeOK
  <1>9. CASE Ack(w)
    BY <1>9, NoJobType DEF Ack, Forget, Goto, WorkerTypeOK, Steps
  <1>10. QED
    BY <1>1, <1>2, <1>3, <1>4, <1>5, <1>6, <1>7, <1>8, <1>9 DEF Step

(* It keeps the rows, the objects and the fault counter typed. *)
LEMMA StepFaults ==
    ASSUME RowsTypeOK, NEW w \in Workers, Take(w) \/ Step(w)
    PROVE  faults' \in 0 .. MaxFaults
  <1>1. \A k : Fault(k) \/ NoFault => faults' \in 0 .. MaxFaults
    BY FaultType DEF RowsTypeOK
  <1>2. NoFault \/ \E k : Fault(k)
    BY DEF Step, Take, Fetch, Claim, StoreBoard, AnalysisFails, SaveMeta, InsertViolations,
       StoreBlob, Finalize, SubmissionDone, MarkFailed, SubmissionFailed, Count, Check,
       Settle, Ack
  <1>3. QED
    BY <1>1, <1>2

LEMMA CountedType ==
    ASSUME NEW row \in BatchRow, NEW field
    PROVE  Counted(row, field) \in BatchRow
  <1>1. row.completed + 1 \in Int /\ row.failed + 1 \in Int
    BY DEF BatchRow
  <1>2. \A n \in Int : [row EXCEPT !.completed = n] \in BatchRow
                     /\ [row EXCEPT !.failed = n] \in BatchRow
    BY DEF BatchRow
  <1>3. QED
    BY <1>1, <1>2 DEF Counted

LEMMA RowsTypeStep ==
    ASSUME RowsTypeOK, WorkerTypeOK, CreatedOnly,
           NEW w \in Workers, Take(w) \/ Step(w)
    PROVE  RowsTypeOK'
  <1>d. pc[w] # "idle" => JobOf(w) \in Jobs
    BY DEF CreatedOnly, Exists
  <1>f. faults' \in 0 .. MaxFaults
    BY StepFaults
  <1>1. CASE UNCHANGED rowVars
    BY <1>1, <1>f DEF RowsTypeOK
  <1>2. CASE Claim(w) \/ Finalize(w)
    <2>1. \A st \in {"PROCESSING", "DONE"} : [copy[w] EXCEPT !.status = st] \in JobRow
      BY StatusType DEF WorkerTypeOK, JobStatus
    <2>2. job' \in [Jobs -> JobRow]
      BY <1>2, <2>1 DEF Claim, Finalize, Save, RowsTypeOK
    <2>3. QED
      BY <1>2, <1>f, <2>2 DEF Claim, Finalize, RowsTypeOK
  <1>3. CASE StoreBoard(w)
    <2>1. runs + 1 \in RunOrNone
      BY <1>3, RowsAssumption DEF StoreBoard, WorkerTypeOK, RunOrNone
    <2>2. s3' \in [Jobs -> [board : RunOrNone, viol : RunOrNone]]
      BY <1>3, <2>1 DEF StoreBoard, RowsTypeOK
    <2>3. QED
      BY <1>3, <1>f, <2>2 DEF StoreBoard, RowsTypeOK
  <1>4. CASE SaveMeta(w)
    <2>1. job' \in [Jobs -> JobRow]
      BY <1>4 DEF SaveMeta, RowsTypeOK, WorkerTypeOK
    <2>2. QED
      BY <1>4, <1>f, <2>1 DEF SaveMeta, RowsTypeOK
  <1>5. CASE StoreBlob(w)
    <2>1. s3' \in [Jobs -> [board : RunOrNone, viol : RunOrNone]]
      BY <1>5 DEF StoreBlob, RowsTypeOK, WorkerTypeOK
    <2>2. QED
      BY <1>5, <1>f, <2>1 DEF StoreBlob, RowsTypeOK
  <1>6. CASE InsertViolations(w)
    <2>1. violations' \in [Runs -> [job : Jobs \cup {None}, inserts : 0 .. NumInserts]]
      <3>1. CASE UNCHANGED violations
        BY <3>1 DEF RowsTypeOK
      <3>2. CASE ~ UNCHANGED violations
        <4>1. violations' = [violations EXCEPT ![run[w]] =
                  [job |-> JobOf(w), inserts |-> violations[run[w]].inserts + 1]]
          BY <1>6, <3>2 DEF InsertViolations
        <4>2. CASE run[w] \in Runs
          <5>1. violations[run[w]].inserts + 1 \in 0 .. NumInserts
            BY <1>6, <4>2, RowsAssumption DEF InsertViolations, MoreToInsert, RowsTypeOK
          <5>2. JobOf(w) \in Jobs
            BY <1>6, <1>d DEF InsertViolations
          <5>3. QED
            BY <4>1, <5>1, <5>2 DEF RowsTypeOK
        <4>3. CASE run[w] \notin Runs
          BY <4>1, <4>3 DEF RowsTypeOK
        <4>4. QED
          BY <4>2, <4>3
      <3>3. QED
        BY <3>1, <3>2
    <2>2. QED
      BY <1>6, <1>f, <2>1 DEF InsertViolations, RowsTypeOK
  <1>7. CASE SubmissionDone(w) \/ SubmissionFailed(w)
    <2>1. sub' \in [Subs -> SubStatus]
      BY <1>7 DEF SubmissionDone, SubmissionFailed, RowsTypeOK, SubStatus
    <2>2. QED
      BY <1>7, <1>f, <2>1 DEF SubmissionDone, SubmissionFailed, RowsTypeOK
  <1>8. CASE MarkFailed(w)
    <2>1. \A j \in Jobs : [job[j] EXCEPT !.status = "FAILED"] \in JobRow
      BY StatusType DEF RowsTypeOK, JobStatus
    <2>2. job' \in [Jobs -> JobRow]
      BY <1>8, <2>1 DEF MarkFailed, RowsTypeOK
    <2>3. QED
      BY <1>8, <1>f, <2>2 DEF MarkFailed, RowsTypeOK
  <1>9. CASE Count(w)
    <2>1. \A b \in Batches, field \in Steps : Counted(batch[b], field) \in BatchRow
      BY CountedType DEF RowsTypeOK
    <2>2. \/ UNCHANGED batch
          \/ \E b : batch' = [batch EXCEPT ![b] = Counted(batch[b], pc[w])]
      BY <1>9 DEF Count
    <2>3. batch' \in [Batches -> BatchRow]
      BY <2>1, <2>2 DEF RowsTypeOK, WorkerTypeOK
    <2>4. QED
      BY <1>9, <1>f, <2>3 DEF Count, RowsTypeOK
  <1>10. CASE Settle(w)
    <2>1. batch' \in [Batches -> BatchRow]
      BY <1>10 DEF Settle, RowsTypeOK, BatchRow, BatchStatus
    <2>2. QED
      BY <1>10, <1>f, <2>1 DEF Settle, RowsTypeOK
  <1>11. QED
    BY <1>1, <1>2, <1>3, <1>4, <1>5, <1>6, <1>7, <1>8, <1>9, <1>10
    DEF Step, Take, Fetch, AnalysisFails, Check, Ack


(* An update of one message keeps the queue typed. *)
LEMMA MessageType ==
    ASSUME QueueTypeOK, NEW m, NEW st \in {"visible", "inflight", "deleted"}
    PROVE  [queue EXCEPT ![m].state = st] \in Seq(Message)
  <1>0. queue \in Seq(Message) /\ DOMAIN queue = 1 .. Len(queue) /\ Len(queue) \in Nat
    BY LenProperties DEF QueueTypeOK
  <1>1. CASE m \in DOMAIN queue
    <2>1. queue[m] \in Message
      BY <1>0, <1>1, ElementOfSeq
    <2>2. [queue[m] EXCEPT !.state = st] \in Message
      BY <2>1 DEF Message
    <2>3. [queue EXCEPT ![m] = [queue[m] EXCEPT !.state = st]] \in Seq(Message)
      BY <1>0, <1>1, <2>2, ExceptSeq
    <2>4. QED
      BY <2>3
  <1>2. CASE m \notin DOMAIN queue
    <2>1. queue = [x \in DOMAIN queue |-> queue[x]]
      BY <1>0, LenProperties
    <2>2. [queue EXCEPT ![m].state = st] = [x \in DOMAIN queue |-> queue[x]]
      BY <1>2
    <2>3. QED
      BY <1>0, <2>1, <2>2
  <1>3. QED
    BY <1>1, <1>2

LEMMA SendType ==
    ASSUME QueueTypeOK, NEW j \in Jobs, SendMessage(j)
    PROVE  QueueTypeOK'
  BY DEF SendMessage, QueueTypeOK, Message

LEMMA ReceiptType ==
    ASSUME NEW msg \in Message, NEW n \in Nat
    PROVE  [msg EXCEPT !.state = "inflight", !.receipt = n] \in Message
  BY DEF Message

LEMMA ReceiveType ==
    ASSUME QueueTypeOK, NEW M, M \in SUBSET DOMAIN queue, ReceiveMessage(M)
    PROVE  /\ QueueTypeOK'
           /\ \A m \in M : DeliveryOf(m) \in Delivery
  <1>0. queue \in Seq(Message) /\ DOMAIN queue = 1 .. Len(queue) /\ Len(queue) \in Nat
    BY LenProperties DEF QueueTypeOK
  <1>1. \A m \in DOMAIN queue : queue[m] \in Message
    BY <1>0, ElementOfSeq
  <1>2. ASSUME NEW m \in DOMAIN queue
        PROVE  [queue[m] EXCEPT !.state = "inflight", !.receipt = queue[m].receipt + 1]
                 \in Message
    <2>1. queue[m] \in Message /\ queue[m].receipt + 1 \in Nat
      BY <1>1 DEF Message
    <2>2. QED
      BY <2>1, ReceiptType
  <1>3. queue' \in [1 .. Len(queue) -> Message]
    BY <1>0, <1>1, <1>2 DEF ReceiveMessage
  <1>4. queue' \in Seq(Message)
    BY <1>0, <1>3
  <1>5. \A m \in M : DeliveryOf(m) \in Delivery
    BY <1>0, <1>1 DEF DeliveryOf, Delivery, Message
  <1>6. QED
    BY <1>4, <1>5 DEF QueueTypeOK

(* A step around the pool keeps everything typed. *)
LEMMA PollerTypeStep ==
    ASSUME TypeOK, PollerNext
    PROVE  QueueTypeOK' /\ PollerTypeOK' /\ UNCHANGED rowVars /\ faults' \in 0 .. MaxFaults
  <1>f. faults \in 0 .. MaxFaults
    BY DEF TypeOK, RowsTypeOK
  <1>q. QueueTypeOK /\ PollerTypeOK
    BY DEF TypeOK
  <1>1. CASE Receive
    <2>1. PICK M \in SUBSET Visible : ReceiveMessage(M) /\ out' = {DeliveryOf(m) : m \in M}
      BY <1>1 DEF Receive
    <2>2. M \in SUBSET DOMAIN queue
      BY <2>1 DEF Visible
    <2>3. QueueTypeOK' /\ out' \in SUBSET Delivery
      BY <1>q, <2>1, <2>2, ReceiveType
    <2>4. QED
      BY <1>1, <1>f, <1>q, <2>3 DEF Receive, PollerTypeOK
  <1>2. CASE Dispatch
    <2>1. PICK d \in out : out' = out \ {d} /\ channel' = Append(channel, d)
      BY <1>2 DEF Dispatch
    <2>2. QED
      BY <1>2, <1>f, <1>q, <2>1 DEF Dispatch, PollerTypeOK, QueueTypeOK
  <1>3. CASE SweepRead
    BY <1>3, <1>f, <1>q DEF SweepRead, StuckJobs, PollerTypeOK, QueueTypeOK
  <1>4. CASE SweepSend
    <2>1. PICK j \in stuck : /\ stuck' = stuck \ {j}
                             /\ \/ SendMessage(j) /\ NoFault
                                \/ Fault("send") /\ UNCHANGED queue
                             /\ UNCHANGED <<rowVars, out, channel, old>>
      BY <1>4 DEF SweepSend
    <2>2. QueueTypeOK'
      <3>1. j \in Jobs
        BY <1>q DEF PollerTypeOK
      <3>2. CASE SendMessage(j)
        BY <1>q, <3>1, <3>2, SendType
      <3>3. CASE UNCHANGED queue
        BY <1>q, <3>3 DEF QueueTypeOK
      <3>4. QED
        BY <2>1, <3>2, <3>3
    <2>3. faults' \in 0 .. MaxFaults
      BY <1>f, <2>1, FaultType
    <2>4. QED
      BY <1>q, <2>1, <2>2, <2>3 DEF PollerTypeOK
  <1>5. QED
    BY <1>1, <1>2, <1>3, <1>4 DEF PollerNext

(* A goroutine's step touches the queue in Ack and the channel in Take. *)
LEMMA QueueTypeStep ==
    ASSUME QueueTypeOK, PollerTypeOK, NEW w \in Workers, Take(w) \/ Step(w)
    PROVE  QueueTypeOK' /\ PollerTypeOK'
  <1>1. CASE Ack(w)
    <2>1. CASE DeleteMessage(delivery[w])
      BY <1>1, <2>1, MessageType DEF Ack, DeleteMessage, QueueTypeOK, PollerTypeOK
    <2>2. CASE UNCHANGED queue
      BY <1>1, <2>2 DEF Ack, QueueTypeOK, PollerTypeOK
    <2>3. QED
      BY <1>1, <2>1, <2>2 DEF Ack
  <1>2. CASE Take(w)
    <2>1. channel \in Seq(Delivery) /\ channel # << >>
      BY <1>2 DEF Take, PollerTypeOK
    <2>2. Tail(channel) \in Seq(Delivery)
      BY <2>1, HeadTailProperties
    <2>3. QED
      BY <1>2, <2>2 DEF Take, QueueTypeOK, PollerTypeOK
  <1>3. CASE UNCHANGED <<queue, pollerVars>>
    BY <1>3 DEF QueueTypeOK, PollerTypeOK
  <1>4. QED
    BY <1>1, <1>2, <1>3
    DEF Step, Fetch, Claim, StoreBoard, AnalysisFails, SaveMeta, InsertViolations,
        StoreBlob, Finalize, SubmissionDone, MarkFailed, SubmissionFailed, Count, Check,
        Settle

(* The handlers' steps. *)
LEMMA RequestType ==
    ASSUME NEW r \in Request, NEW p \in {"reset", "create", "mark", "send", "done"},
           NEW S \in SUBSET Subs
    PROVE  /\ [r EXCEPT !.pc = p] \in Request
           /\ [r EXCEPT !.pc = p, !.todo = S] \in Request
           /\ \A s \in Subs, j \in Jobs :
                [r EXCEPT !.pc = p, !.todo = S, !.of = s, !.job = j] \in Request
           /\ \A c \in Endpoints :
                [NewRequest EXCEPT !.call = c, !.pc = p, !.todo = S] \in Request
  BY DEF Request, NewRequest

LEMMA NewJobType == \A s \in Subs : NewJob(s) \in JobRow
  BY NoJobType DEF NewJob, JobRow, JobStatus, NoJob

LEMMA ResetType ==
    ASSUME NEW row \in BatchRow, NEW n \in Int
    PROVE  [row EXCEPT !.status = "PROCESSING", !.failed = n] \in BatchRow
  BY DEF BatchRow, BatchStatus

LEMMA ApiTypeStep ==
    ASSUME TypeOK, CreatedOnly, ApiNext
    PROVE  RowsTypeOK' /\ QueueTypeOK' /\ ApiTypeOK'
  <1>r. RowsTypeOK /\ QueueTypeOK /\ ApiTypeOK
    BY DEF TypeOK
  <1>f. \A k : Fault(k) \/ NoFault => faults' \in 0 .. MaxFaults
    BY <1>r, FaultType DEF RowsTypeOK
  <1>h. \A h \in Requests : request[h] \in Request
    BY <1>r DEF ApiTypeOK
  <1>1. ASSUME NEW h \in Requests, NEW s \in Subs,
               StartAnalysis(h, s) \/ SharedAnalyze(h, s)
        PROVE  RowsTypeOK' /\ QueueTypeOK' /\ ApiTypeOK'
    <2>1. \A c \in Endpoints :
            [NewRequest EXCEPT !.call = c, !.pc = "create", !.todo = {s}] \in Request
      BY RequestType, <1>h
    <2>2. \E r \in Request : request' = [request EXCEPT ![h] = r]
      <3>1. CASE StartAnalysis(h, s)
        BY <3>1, <2>1 DEF StartAnalysis, Accept, Endpoints
      <3>2. CASE SharedAnalyze(h, s)
        BY <3>2, <2>1 DEF SharedAnalyze, Accept, Endpoints
      <3>3. QED
        BY <1>1, <3>1, <3>2
    <2>3. ApiTypeOK'
      BY <1>r, <2>2 DEF ApiTypeOK
    <2>4. QED
      BY <1>1, <1>r, <2>3 DEF StartAnalysis, SharedAnalyze, Accept, RowsTypeOK, QueueTypeOK
  <1>2. ASSUME NEW h \in Requests, NEW b \in Batches, AnalyzeBatch(h, b) \/ RetryBatch(h, b)
        PROVE  RowsTypeOK' /\ QueueTypeOK' /\ ApiTypeOK'
    <2>1. \A st : ReadyIn(b, st) \in SUBSET Subs
      BY DEF ReadyIn, Members
    <2>2. \A st : \A c \in Endpoints :
            [NewRequest EXCEPT !.call = c, !.pc = "reset", !.todo = ReadyIn(b, st)] \in Request
      BY <2>1, RequestType, <1>h
    <2>3. \E r \in Request : request' = [request EXCEPT ![h] = r]
      <3>1. CASE AnalyzeBatch(h, b)
        BY <3>1, <2>2 DEF AnalyzeBatch, Accept, Endpoints
      <3>2. CASE RetryBatch(h, b)
        BY <3>2, <2>2 DEF RetryBatch, Accept, Endpoints
      <3>3. QED
        BY <1>2, <3>1, <3>2
    <2>4. ApiTypeOK'
      BY <1>r, <2>3 DEF ApiTypeOK
    <2>5. QED
      BY <1>2, <1>r, <2>4 DEF AnalyzeBatch, RetryBatch, Accept, RowsTypeOK, QueueTypeOK
  <1>3. ASSUME NEW h \in Requests, ResetBatch(h)
        PROVE  RowsTypeOK' /\ QueueTypeOK' /\ ApiTypeOK'
    <2>1. [request[h] EXCEPT !.pc = "create"] \in Request
      BY RequestType, <1>h
    <2>2. ApiTypeOK'
      BY <1>3, <1>r, <2>1 DEF ResetBatch, ApiTypeOK
    <2>3. Retried(h) \in Int
      <3>1. request[h].todo \subseteq Subs
        BY <1>h DEF Request
      <3>2. QED
        BY <3>1, RowsAssumption, FS_Subset, FS_CardinalityType DEF Retried
    <2>4. batch' \in [Batches -> BatchRow]
      <3> DEFINE b == BatchOfRequest(h)
                 row == [batch[b] EXCEPT !.status = "PROCESSING",
                                         !.failed = batch[b].failed - Retried(h)]
      <3>1. UNCHANGED batch \/ batch' = [batch EXCEPT ![b] = row]
        BY <1>3 DEF ResetBatch
      <3> HIDE DEF b
      <3>2. b \in Batches => row \in BatchRow
        <4>1. b \in Batches => batch[b] \in BatchRow /\ batch[b].failed - Retried(h) \in Int
          BY <1>r, <2>3 DEF RowsTypeOK, BatchRow
        <4>2. QED
          BY <4>1, ResetType
      <3> HIDE DEF row
      <3>3. QED
        BY <1>r, <3>1, <3>2 DEF RowsTypeOK
    <2>5. QED
      BY <1>3, <1>r, <1>f, <2>2, <2>4 DEF ResetBatch, RowsTypeOK, QueueTypeOK
  <1>4. ASSUME NEW h \in Requests, NEW s \in Subs, CreateJob(h, s)
        PROVE  RowsTypeOK' /\ QueueTypeOK' /\ ApiTypeOK'
    <2> DEFINE rest == request[h].todo \ {s}
    <2>1. rest \in SUBSET Subs
      BY <1>h DEF Request
    <2>2. \/ \E j \in Jobs : /\ job' = [job EXCEPT ![j] = NewJob(s)]
                             /\ billed' \in {billed, billed \cup {j}}
                             /\ request' = [request EXCEPT ![h] =
                                  [request[h] EXCEPT !.pc = "mark", !.todo = rest,
                                                     !.of = s, !.job = j]]
                             /\ NoFault
          \/ /\ Fault("create")
             /\ request' = [request EXCEPT ![h] =
                  [request[h] EXCEPT !.pc = Loop(h, rest), !.todo = rest]]
             /\ UNCHANGED <<job, billed>>
      BY <1>4 DEF CreateJob
    <2>3. \A j \in Jobs : [request[h] EXCEPT !.pc = "mark", !.todo = rest, !.of = s, !.job = j]
            \in Request
      BY <1>h, <2>1, RequestType
    <2>4. [request[h] EXCEPT !.pc = Loop(h, rest), !.todo = rest] \in Request
      BY <1>h, <2>1, RequestType DEF Loop
    <2>5. ApiTypeOK'
      BY <1>r, <2>2, <2>3, <2>4 DEF ApiTypeOK
    <2>6. job' \in [Jobs -> JobRow] /\ billed' \in SUBSET Jobs
      BY <1>r, <2>2, NewJobType DEF RowsTypeOK
    <2>7. faults' \in 0 .. MaxFaults
      BY <1>f, <2>2
    <2>8. QED
      BY <1>4, <1>r, <2>5, <2>6, <2>7 DEF CreateJob, RowsTypeOK, QueueTypeOK
  <1>5. ASSUME NEW h \in Requests, MarkAnalyzing(h)
        PROVE  RowsTypeOK' /\ QueueTypeOK' /\ ApiTypeOK'
    <2>1. [request[h] EXCEPT !.pc = "send"] \in Request
      BY RequestType, <1>h
    <2>2. ApiTypeOK'
      BY <1>5, <1>r, <2>1 DEF MarkAnalyzing, ApiTypeOK
    <2>3. sub' \in [Subs -> SubStatus]
      BY <1>5, <1>r DEF MarkAnalyzing, RowsTypeOK, SubStatus
    <2>4. QED
      BY <1>5, <1>r, <1>f, <2>2, <2>3 DEF MarkAnalyzing, RowsTypeOK, QueueTypeOK
  <1>6. ASSUME NEW h \in Requests, Enqueue(h)
        PROVE  RowsTypeOK' /\ QueueTypeOK' /\ ApiTypeOK'
    <2>1. [request[h] EXCEPT !.pc = Loop(h, request[h].todo)] \in Request
      BY RequestType, <1>h DEF Loop
    <2>2. ApiTypeOK'
      BY <1>6, <1>r, <2>1 DEF Enqueue, ApiTypeOK
    <2>3. request[h].job \in Jobs
      BY <1>6 DEF Enqueue, CreatedOnly, Exists
    <2>4. QueueTypeOK'
      BY <1>6, <1>r, <2>3, SendType DEF Enqueue, QueueTypeOK
    <2>5. billed' \in SUBSET Jobs
      BY <1>6, <1>r, <2>3 DEF Enqueue, RowsTypeOK
    <2>6. QED
      BY <1>6, <1>r, <1>f, <2>2, <2>4, <2>5 DEF Enqueue, RowsTypeOK
  <1>7. ASSUME NEW h \in Requests, ApiCrash(h)
        PROVE  RowsTypeOK' /\ QueueTypeOK' /\ ApiTypeOK'
    <2>1. [request[h] EXCEPT !.pc = "done"] \in Request
      BY RequestType, <1>h
    <2>2. ApiTypeOK'
      BY <1>7, <1>r, <2>1 DEF ApiCrash, ApiTypeOK
    <2>3. QED
      BY <1>7, <1>r, <1>f, <2>2 DEF ApiCrash, RowsTypeOK, QueueTypeOK
  <1>8. QED
    BY <1>1, <1>2, <1>3, <1>4, <1>5, <1>6, <1>7 DEF ApiNext, ApiStep

LEMMA TypeStep == TypeOK /\ CreatedOnly /\ [Next]_vars => TypeOK'
  <1> SUFFICES ASSUME TypeOK, CreatedOnly, [Next]_vars
               PROVE  TypeOK'
    OBVIOUS
  <1>r. RowsTypeOK /\ QueueTypeOK /\ PollerTypeOK /\ WorkerTypeOK /\ ApiTypeOK
    BY DEF TypeOK
  <1>f. \A k : Fault(k) \/ NoFault => faults' \in 0 .. MaxFaults
    BY <1>r, FaultType DEF RowsTypeOK
  <1>1. ASSUME NEW w \in Workers, Take(w) \/ Step(w), UNCHANGED request
        PROVE  TypeOK'
    BY <1>1, <1>r, WorkerTypeStep, RowsTypeStep, QueueTypeStep DEF TypeOK, ApiTypeOK
  <1>2. CASE PollerNext /\ UNCHANGED workerVars /\ UNCHANGED request
    BY <1>2, <1>r, PollerTypeStep DEF TypeOK, RowsTypeOK, WorkerTypeOK, ApiTypeOK
  <1>3. CASE VisibilityTimeout /\ UNCHANGED request
    <2>1. faults' \in 0 .. MaxFaults
      BY <1>3, <1>f DEF VisibilityTimeout
    <2>2. QueueTypeOK'
      BY <1>3, <1>r, MessageType DEF VisibilityTimeout, Expire, QueueTypeOK
    <2>3. QED
      BY <1>3, <1>r, <2>1, <2>2
      DEF VisibilityTimeout, TypeOK, RowsTypeOK, PollerTypeOK, WorkerTypeOK, ApiTypeOK
  <1>4. CASE Crash /\ UNCHANGED request
    <2>1. faults' \in 0 .. MaxFaults
      BY <1>4, <1>f DEF Crash
    <2>2. WorkerTypeOK'
      BY <1>4, <1>r, NoJobType DEF Crash, WorkerTypeOK, Steps
    <2>3. PollerTypeOK'
      BY <1>4, <1>r DEF Crash, PollerTypeOK
    <2>4. QED
      BY <1>4, <1>r, <2>1, <2>2, <2>3 DEF Crash, TypeOK, RowsTypeOK, QueueTypeOK, ApiTypeOK
  <1>5. CASE ApiNext /\ UNCHANGED <<pollerVars, workerVars>>
    BY <1>5, <1>r, ApiTypeStep DEF TypeOK, PollerTypeOK, WorkerTypeOK
  <1>6. ASSUME NEW j \in Jobs, Age(j)
        PROVE  TypeOK'
    <2>1. faults' \in 0 .. MaxFaults
      BY <1>6, <1>f DEF Age
    <2>2. PollerTypeOK'
      BY <1>6, <1>r DEF Age, PollerTypeOK
    <2>3. QED
      BY <1>6, <1>r, <2>1, <2>2 DEF Age, TypeOK, RowsTypeOK, QueueTypeOK, WorkerTypeOK, ApiTypeOK
  <1>7. CASE UNCHANGED vars
    BY <1>7, <1>r
    DEF TypeOK, RowsTypeOK, QueueTypeOK, PollerTypeOK, WorkerTypeOK, ApiTypeOK
  <1>8. QED
    BY <1>1, <1>2, <1>3, <1>4, <1>5, <1>6, <1>7 DEF Next, WorkerNext

-----------------------------------------------------------------------------
(* What steps leave alone *)

(* A goroutine's step leaves the locals of the others alone. *)
LEMMA Frame ==
    ASSUME WorkerTypeOK, NEW w \in Workers, Take(w) \/ Step(w), NEW v \in Workers, v # w
    PROVE  /\ pc'[v] = pc[v] /\ delivery'[v] = delivery[v]
           /\ copy'[v] = copy[v] /\ run'[v] = run[v]
  <1> USE DEF WorkerTypeOK, Goto
  <1>1. CASE Take(w)
    BY <1>1 DEF Take
  <1>2. CASE Fetch(w)
    BY <1>2 DEF Fetch
  <1>3. CASE Claim(w) \/ Finalize(w)
    BY <1>3 DEF Claim, Finalize, Save
  <1>4. CASE StoreBoard(w)
    BY <1>4 DEF StoreBoard
  <1>5. CASE SaveMeta(w)
    BY <1>5 DEF SaveMeta
  <1>6. CASE StoreBlob(w)
    BY <1>6 DEF StoreBlob
  <1>7. CASE \/ AnalysisFails(w) \/ InsertViolations(w) \/ SubmissionDone(w) \/ MarkFailed(w)
             \/ SubmissionFailed(w) \/ Count(w) \/ Check(w) \/ Settle(w)
    <2>1. /\ UNCHANGED locals
          /\ \E st : pc' = [pc EXCEPT ![w] = st] \/ pc' = pc
      BY <1>7 DEF AnalysisFails, InsertViolations, SubmissionDone, MarkFailed,
         SubmissionFailed, Count, Check, Settle
    <2>2. QED
      BY <2>1
  <1>8. CASE Ack(w)
    BY <1>8 DEF Ack, Forget
  <1>9. QED
    BY <1>1, <1>2, <1>3, <1>4, <1>5, <1>6, <1>7, <1>8 DEF Step

(* Only a goroutine's step writes violations, objects or the row of an
   existing job. *)
LEMMA OtherSteps ==
    ASSUME [Next]_vars
    PROVE  \/ \E w \in Workers : (Take(w) \/ Step(w)) /\ UNCHANGED request
           \/ /\ UNCHANGED <<violations, s3, runs>>
              /\ \/ UNCHANGED workerVars
                 \/ Crash
              /\ \/ UNCHANGED job
                 \/ \E j \in Jobs, s \in Subs : /\ job[j].status = "NONE"
                                                /\ job' = [job EXCEPT ![j] = NewJob(s)]
  <1>1. CASE PollerNext /\ UNCHANGED workerVars
    BY <1>1 DEF PollerNext, Receive, Dispatch, SweepRead, SweepSend
  <1>2. CASE VisibilityTimeout
    BY <1>2 DEF VisibilityTimeout
  <1>3. CASE Crash
    BY <1>3 DEF Crash
  <1>4. CASE ApiNext /\ UNCHANGED workerVars
    BY ZenonT(30), <1>4
       DEF ApiNext, ApiStep, Accept, StartAnalysis, SharedAnalyze, AnalyzeBatch, RetryBatch,
       ResetBatch, CreateJob, MarkAnalyzing, Enqueue, ApiCrash
  <1>5. CASE \E j \in Jobs : Age(j)
    BY <1>5 DEF Age
  <1>6. CASE UNCHANGED vars
    BY <1>6
  <1>7. QED
    BY <1>1, <1>2, <1>3, <1>4, <1>5, <1>6 DEF Next, WorkerNext

(* What a goroutine's step writes. *)
LEMMA JobWrites ==
    ASSUME TypeOK, CreatedOnly, CopiesSound, NEW w \in Workers, Take(w) \/ Step(w)
    PROVE  \/ UNCHANGED job
           \/ /\ JobOf(w) \in Jobs /\ job[JobOf(w)].status # "NONE"
              /\ \E row \in JobRow : /\ row.status \in {"PROCESSING", "DONE", "FAILED"}
                                     /\ job' = [job EXCEPT ![JobOf(w)] = row]
  <1>t. WorkerTypeOK /\ RowsTypeOK
    BY DEF TypeOK
  <1>d. pc[w] # "idle" => JobOf(w) \in Jobs /\ job[JobOf(w)].status # "NONE"
    BY DEF CreatedOnly, Exists
  <1>s. \A row \in JobRow, st \in {"PROCESSING", "DONE", "FAILED"} :
          [row EXCEPT !.status = st] \in JobRow /\ [row EXCEPT !.status = st].status = st
    BY DEF JobRow, JobStatus
  <1>1. CASE Claim(w)
    <2>1. [copy[w] EXCEPT !.status = "PROCESSING"] \in JobRow
          /\ [copy[w] EXCEPT !.status = "PROCESSING"].status = "PROCESSING"
      BY <1>t, <1>s DEF WorkerTypeOK
    <2>2. QED
      BY <1>1, <1>d, <2>1 DEF Claim, Save, Goto
  <1>2. CASE Finalize(w)
    <2>1. [copy[w] EXCEPT !.status = "DONE"] \in JobRow
          /\ [copy[w] EXCEPT !.status = "DONE"].status = "DONE"
      BY <1>t, <1>s DEF WorkerTypeOK
    <2>2. QED
      BY <1>2, <1>d, <2>1 DEF Finalize, Save, Goto
  <1>3. CASE SaveMeta(w)
    <2>1. copy[w] \in JobRow /\ pc[w] = "meta"
      BY <1>3, <1>t DEF WorkerTypeOK, SaveMeta, Goto
    <2>2. copy[w].status = "PROCESSING"
      BY <2>1 DEF CopiesSound, CopySound, Claimed, Holding
    <2>3. QED
      BY <1>3, <1>d, <2>1, <2>2 DEF SaveMeta, Goto
  <1>4. CASE MarkFailed(w)
    <2>1. pc[w] = "mark" /\ job[JobOf(w)] \in JobRow
      BY <1>4, <1>d, <1>t DEF MarkFailed, Goto, RowsTypeOK
    <2> DEFINE row == [job[JobOf(w)] EXCEPT !.status = "FAILED"]
    <2>2. row \in JobRow /\ row.status = "FAILED"
      BY <2>1, <1>s
    <2>3. UNCHANGED job \/ job' = [job EXCEPT ![JobOf(w)] = row]
      BY <1>4 DEF MarkFailed
    <2> HIDE DEF row
    <2>4. QED
      BY <2>1, <2>2, <2>3, <1>d
  <1>5. CASE UNCHANGED job
    BY <1>5
  <1>6. QED
    BY <1>1, <1>2, <1>3, <1>4, <1>5
    DEF Step, Take, Fetch, StoreBoard, AnalysisFails, InsertViolations, StoreBlob,
        SubmissionDone, SubmissionFailed, Count, Check, Settle, Ack

LEMMA ViolationWrites ==
    ASSUME TypeOK, CreatedOnly, RunsOwned, NEW w \in Workers, Take(w) \/ Step(w)
    PROVE  \/ UNCHANGED violations
           \/ /\ pc[w] = "insert" /\ JobOf(w) \in Jobs /\ run[w] \in Runs
              /\ violations[run[w]].inserts < NumInserts
              /\ violations' = [violations EXCEPT ![run[w]] =
                   [job |-> JobOf(w), inserts |-> violations[run[w]].inserts + 1]]
  <1>1. CASE InsertViolations(w)
    <2>1. pc[w] = "insert" /\ JobOf(w) \in Jobs
      BY <1>1 DEF InsertViolations, CreatedOnly, Exists
    <2>2. run[w] \in Runs
      BY <2>1, RowsAssumption
      DEF RunsOwned, RunOwned, Numbered, Claimed, Holding, TypeOK, WorkerTypeOK, Runs, RunOrNone
    <2>3. QED
      BY <1>1, <2>1, <2>2 DEF InsertViolations, MoreToInsert
  <1>2. CASE UNCHANGED violations
    BY <1>2
  <1>3. QED
    BY <1>1, <1>2
    DEF Step, Take, Fetch, Claim, StoreBoard, AnalysisFails, SaveMeta, StoreBlob, Finalize,
        SubmissionDone, MarkFailed, SubmissionFailed, Count, Check, Settle, Ack

LEMMA AllInserted ==
    ASSUME RowsTypeOK, NEW w \in Workers, run[w] \in Runs, ~ MoreToInsert(w)
    PROVE  violations[run[w]].inserts = NumInserts
  <1>1. violations[run[w]].inserts \in 0 .. NumInserts
    BY DEF RowsTypeOK
  <1>2. QED
    BY <1>1, RowsAssumption DEF MoreToInsert

LEMMA ObjectWrites ==
    ASSUME TypeOK, CreatedOnly, RunsOwned, NEW w \in Workers, Take(w) \/ Step(w)
    PROVE  \/ UNCHANGED s3
           \/ /\ pc[w] = "board" /\ runs + 1 \in Runs /\ runs' = runs + 1
              /\ run' = [run EXCEPT ![w] = runs + 1]
              /\ s3' = [s3 EXCEPT ![JobOf(w)] = [s3[JobOf(w)] EXCEPT !.board = runs + 1]]
           \/ /\ pc[w] = "insert" /\ run[w] \in Runs
              /\ violations[run[w]].inserts = NumInserts
              /\ s3' = [s3 EXCEPT ![JobOf(w)] = [s3[JobOf(w)] EXCEPT !.viol = run[w]]]
  <1>1. CASE StoreBoard(w)
    <2>1. runs + 1 \in Runs
      BY <1>1, RowsAssumption DEF StoreBoard, TypeOK, WorkerTypeOK, Runs, RunOrNone
    <2>2. QED
      BY <1>1, <2>1 DEF StoreBoard, Goto
  <1>2. CASE StoreBlob(w)
    <2>1. pc[w] = "insert"
      BY <1>2 DEF StoreBlob, Goto
    <2>2. run[w] \in Runs
      BY <2>1, RowsAssumption
      DEF RunsOwned, RunOwned, Numbered, Claimed, Holding, TypeOK, WorkerTypeOK, Runs, RunOrNone
    <2>3. violations[run[w]].inserts = NumInserts
      BY <1>2, <2>2, AllInserted DEF StoreBlob, TypeOK
    <2>4. QED
      BY <1>2, <2>1, <2>2, <2>3 DEF StoreBlob
  <1>3. CASE UNCHANGED s3
    BY <1>3
  <1>4. QED
    BY <1>1, <1>2, <1>3
    DEF Step, Take, Fetch, Claim, AnalysisFails, SaveMeta, InsertViolations, Finalize,
        SubmissionDone, MarkFailed, SubmissionFailed, Count, Check, Settle, Ack

-----------------------------------------------------------------------------
(* What no step takes back *)

(* A complete set of violations stays stored; a stored object stays stored; a
   row stays; a job that was started is never PENDING again. *)
StillStored == \A r \in Runs, j \in Jobs : Stored(r, j) => Stored(r, j)'

StillThere ==
    \A j \in Jobs : /\ s3[j].board # 0 => s3'[j].board # 0
                    /\ s3[j].viol # 0 => s3'[j].viol # 0

StillExists ==
    \A j \in Jobs : /\ Exists(j) => Exists(j)'
                    /\ Exists(j) /\ job[j].status # "PENDING" => job'[j].status # "PENDING"

LEMMA ViolationsStay ==
    ASSUME TypeOK, CreatedOnly, RunsOwned, [Next]_vars
    PROVE  StillStored
  <1>1. CASE UNCHANGED violations
    BY <1>1 DEF StillStored, Stored
  <1>2. ASSUME NEW w \in Workers, run[w] \in Runs, violations[run[w]].inserts < NumInserts,
               violations' = [violations EXCEPT ![run[w]] =
                   [job |-> JobOf(w), inserts |-> violations[run[w]].inserts + 1]]
        PROVE  StillStored
    <2>1. \A r \in Runs \ {run[w]} : violations'[r] = violations[r]
      BY <1>2 DEF TypeOK, RowsTypeOK
    <2>2. \A j \in Jobs : ~ Stored(run[w], j)
      BY <1>2, RowsAssumption DEF Stored, TypeOK, RowsTypeOK
    <2>3. QED
      BY <2>1, <2>2 DEF StillStored, Stored
  <1>3. QED
    BY <1>1, <1>2, OtherSteps, ViolationWrites

LEMMA ObjectsStay ==
    ASSUME TypeOK, CreatedOnly, RunsOwned, [Next]_vars
    PROVE  StillThere
  <1>t. \A j \in Jobs : s3[j] \in [board : RunOrNone, viol : RunOrNone]
    BY DEF TypeOK, RowsTypeOK
  <1>d. DOMAIN s3 = Jobs
    BY DEF TypeOK, RowsTypeOK
  <1>n. \A n \in Runs : n # 0
    BY RowsAssumption DEF Runs
  <1>1. CASE UNCHANGED s3
    BY <1>1 DEF StillThere
  <1>2. ASSUME NEW i, NEW n \in Runs, s3' = [s3 EXCEPT ![i] = [s3[i] EXCEPT !.board = n]]
        PROVE  StillThere
    BY <1>2, <1>t, <1>d, <1>n DEF StillThere
  <1>3. ASSUME NEW i, NEW n \in Runs, s3' = [s3 EXCEPT ![i] = [s3[i] EXCEPT !.viol = n]]
        PROVE  StillThere
    BY <1>3, <1>t, <1>d, <1>n DEF StillThere
  <1>4. ASSUME NEW w \in Workers, Take(w) \/ Step(w)
        PROVE  StillThere
    <2>1. CASE /\ runs + 1 \in Runs
               /\ s3' = [s3 EXCEPT ![JobOf(w)] = [s3[JobOf(w)] EXCEPT !.board = runs + 1]]
      BY <1>2, <2>1
    <2>2. CASE /\ run[w] \in Runs
               /\ s3' = [s3 EXCEPT ![JobOf(w)] = [s3[JobOf(w)] EXCEPT !.viol = run[w]]]
      BY <1>3, <2>2
    <2>3. QED
      BY <1>1, <1>4, <2>1, <2>2, ObjectWrites
  <1>5. QED
    BY <1>1, <1>4, OtherSteps

LEMMA JobsStay ==
    ASSUME TypeOK, CreatedOnly, CopiesSound, [Next]_vars
    PROVE  StillExists
  <1>d. DOMAIN job = Jobs
    BY DEF TypeOK, RowsTypeOK
  <1>1. CASE UNCHANGED job
    BY <1>1 DEF StillExists, Exists
  <1>2. ASSUME NEW i \in Jobs, NEW row, job' = [job EXCEPT ![i] = row],
               row.status \in {"PROCESSING", "DONE", "FAILED"}
        PROVE  StillExists
    BY <1>2, <1>d DEF StillExists, Exists
  <1>3. ASSUME NEW i \in Jobs, NEW s \in Subs, job[i].status = "NONE",
               job' = [job EXCEPT ![i] = NewJob(s)]
        PROVE  StillExists
    <2>1. NewJob(s).status = "PENDING"
      BY DEF NewJob, NoJob
    <2>2. QED
      BY <1>3, <1>d, <2>1 DEF StillExists, Exists
  <1>4. QED
    BY <1>1, <1>2, <1>3, OtherSteps, JobWrites

-----------------------------------------------------------------------------
(* The parts of the invariant, one lemma each *)

(* A run that uploads its violations has them all in the table. *)
LEMMA BlobIsStored ==
    ASSUME TypeOK, RunsOwned, NEW w \in Workers, pc[w] = "insert", run[w] \in Runs,
           violations[run[w]].inserts = NumInserts
    PROVE  Stored(run[w], JobOf(w))
  <1>1. violations[run[w]] \in [job : Jobs \cup {None}, inserts : 0 .. NumInserts]
    BY DEF TypeOK, RowsTypeOK
  <1>2. violations[run[w]].job = JobOf(w)
    BY RowsAssumption DEF RunsOwned, RunOwned
  <1>3. QED
    BY <1>1, <1>2 DEF Stored

LEMMA BlobStep ==
    ASSUME TypeOK, CreatedOnly, RunsOwned, BlobIdsExist, [Next]_vars
    PROVE  BlobIdsExist'
  <1>s. StillStored
    BY ViolationsStay
  <1>t. \A j \in Jobs : s3[j] \in [board : RunOrNone, viol : RunOrNone]
    BY DEF TypeOK, RowsTypeOK
  <1>d. DOMAIN s3 = Jobs
    BY DEF TypeOK, RowsTypeOK
  <1>v. \A j \in Jobs : s3[j].viol # 0 => s3[j].viol \in Runs
    BY <1>t, RowsAssumption DEF RunOrNone, Runs
  <1>1. ASSUME NEW j \in Jobs, s3'[j].viol = s3[j].viol
        PROVE  s3'[j].viol # 0 => Stored(s3[j].viol, j)'
    BY <1>1, <1>s, <1>v DEF BlobIdsExist, StillStored
  <1>2. CASE \A j \in Jobs : s3'[j].viol = s3[j].viol
    BY <1>1, <1>2 DEF BlobIdsExist, Stored
  <1>3. ASSUME NEW w \in Workers, pc[w] = "insert", run[w] \in Runs,
               violations[run[w]].inserts = NumInserts,
               s3' = [s3 EXCEPT ![JobOf(w)] = [s3[JobOf(w)] EXCEPT !.viol = run[w]]]
        PROVE  BlobIdsExist'
    <2>1. Stored(run[w], JobOf(w)) /\ JobOf(w) \in Jobs
      BY <1>3, BlobIsStored DEF CreatedOnly, Exists
    <2>3. violations'[run[w]] = [job |-> JobOf(w), inserts |-> NumInserts]
      BY <1>3, <1>s, <2>1 DEF StillStored, Stored
    <2>4. s3'[JobOf(w)].viol = run[w]
      BY <1>3, <1>t, <1>d, <2>1
    <2>5. \A j \in Jobs : j # JobOf(w) => s3'[j].viol = s3[j].viol
      BY <1>3, <1>d
    <2>6. QED
      BY <1>1, <2>3, <2>4, <2>5 DEF BlobIdsExist, Stored
  <1>4. ASSUME NEW w \in Workers, Take(w) \/ Step(w)
        PROVE  BlobIdsExist'
    <2>1. CASE s3' = [s3 EXCEPT ![JobOf(w)] = [s3[JobOf(w)] EXCEPT !.board = runs + 1]]
      <3>1. \A j \in Jobs : s3'[j].viol = s3[j].viol
        BY <2>1, <1>t, <1>d
      <3>2. QED
        BY <3>1, <1>2
    <2>2. CASE UNCHANGED s3
      BY <1>2, <2>2
    <2>3. QED
      BY <1>3, <1>4, <2>1, <2>2, ObjectWrites
  <1>5. QED
    BY <1>2, <1>4, OtherSteps

(* The rows. *)
LEMMA RowKept ==
    ASSUME TypeOK, StillStored, StillThere, NEW j \in Jobs, RowSound(j), job'[j] = job[j]
    PROVE  RowSound(j)'
  <1>1. job[j] \in JobRow
    BY DEF TypeOK, RowsTypeOK
  <1>2. job[j].score # 0 => job[j].score \in Runs
    BY <1>1, RowsAssumption DEF JobRow, RunOrNone, Runs
  <1>3. QED
    BY <1>2 DEF RowSound, StillStored, StillThere, Stored

(* A row written by a goroutine is sound when its parts are. *)
LEMMA RowWritten ==
    ASSUME TypeOK, StillStored, StillThere, NEW i \in Jobs, NEW row \in JobRow,
           job' = [job EXCEPT ![i] = row],
           \A j \in Jobs : RowSound(j),
           row.status # "NONE",
           row.score # 0 => Stored(row.score, i),
           row.violKey => s3[i].viol # 0,
           row.status = "DONE" => row.boardKey /\ s3[i].board # 0 /\ row.score # 0
    PROVE  RowsSound'
  <1>1. DOMAIN job = Jobs
    BY DEF TypeOK, RowsTypeOK
  <1>2. row.score # 0 => row.score \in Runs
    BY RowsAssumption DEF JobRow, RunOrNone, Runs
  <1>3. job'[i] = row
    BY <1>1
  <1>4. RowSound(i)'
    BY <1>2, <1>3 DEF RowSound, StillStored, StillThere, Stored
  <1>5. \A j \in Jobs \ {i} : RowSound(j)'
    BY RowKept
  <1>6. QED
    BY <1>4, <1>5 DEF RowsSound

LEMMA RowsStep ==
    ASSUME TypeOK, CreatedOnly, RunsOwned, CopiesSound, RowsSound, [Next]_vars
    PROVE  RowsSound'
  <1>s. StillStored /\ StillThere
    BY ViolationsStay, ObjectsStay
  <1>r. \A j \in Jobs : RowSound(j)
    BY DEF RowsSound
  <1>1. CASE UNCHANGED job
    BY <1>1, <1>s, <1>r, RowKept DEF RowsSound
  <1>2. ASSUME NEW i \in Jobs, NEW s \in Subs, job' = [job EXCEPT ![i] = NewJob(s)]
        PROVE  RowsSound'
    <2>1. /\ NewJob(s).score = 0 /\ NewJob(s).violKey = FALSE
          /\ NewJob(s).status = "PENDING"
      BY DEF NewJob, NoJob
    <2>2. NewJob(s) \in JobRow
      BY NewJobType
    <2>3. QED
      BY <1>2, <1>s, <1>r, <2>1, <2>2, RowWritten
  <1>3. ASSUME NEW w \in Workers, Take(w) \/ Step(w)
        PROVE  RowsSound'
    <2>d. pc[w] # "idle" => JobOf(w) \in Jobs
      BY DEF CreatedOnly, Exists
    <2>c. CopySound(w) /\ RunOwned(w) /\ copy[w] \in JobRow
      BY DEF CopiesSound, RunsOwned, TypeOK, WorkerTypeOK
    <2>1. CASE Claim(w) /\ ~ UNCHANGED job
      <3> DEFINE row == [copy[w] EXCEPT !.status = "PROCESSING"]
      <3>1. pc[w] = "claim" /\ job' = [job EXCEPT ![JobOf(w)] = row]
        BY <2>1 DEF Claim, Goto, Save
      <3>2. /\ row \in JobRow /\ row.status = "PROCESSING"
            /\ row.score = copy[w].score /\ row.violKey = copy[w].violKey
        BY <2>c DEF JobRow, JobStatus
      <3>3. /\ copy[w].score # 0 => Stored(copy[w].score, JobOf(w))
            /\ copy[w].violKey => s3[JobOf(w)].viol # 0
        BY <2>c, <3>1 DEF CopySound, Scored, Numbered, Claimed, Holding
      <3> HIDE DEF row
      <3>4. QED
        BY <1>s, <1>r, <2>d, <3>1, <3>2, <3>3, RowWritten
    <2>2. CASE SaveMeta(w) /\ ~ UNCHANGED job
      <3>1. pc[w] = "meta" /\ job' = [job EXCEPT ![JobOf(w)] = copy[w]]
        BY <2>2 DEF SaveMeta, Goto
      <3>2. /\ copy[w].score # 0 => Stored(copy[w].score, JobOf(w))
            /\ copy[w].violKey => s3[JobOf(w)].viol # 0
            /\ copy[w].status = "PROCESSING"
        BY <2>c, <3>1 DEF CopySound, Scored, Numbered, Claimed, Holding
      <3>3. QED
        BY <1>s, <1>r, <2>c, <2>d, <3>1, <3>2, RowWritten
    <2>3. CASE Finalize(w) /\ ~ UNCHANGED job
      <3> DEFINE row == [copy[w] EXCEPT !.status = "DONE"]
      <3>1. pc[w] = "finalize" /\ job' = [job EXCEPT ![JobOf(w)] = row]
        BY <2>3 DEF Finalize, Goto, Save
      <3>2. /\ row \in JobRow /\ row.status = "DONE" /\ row.boardKey = copy[w].boardKey
            /\ row.score = copy[w].score /\ row.violKey = copy[w].violKey
        BY <2>c DEF JobRow, JobStatus
      <3>3. /\ copy[w].score = run[w] /\ run[w] # 0
            /\ copy[w].violKey => s3[JobOf(w)].viol # 0
            /\ copy[w].boardKey /\ s3[JobOf(w)].board # 0
            /\ Stored(run[w], JobOf(w))
        BY <2>c, <3>1 DEF CopySound, RunOwned, Scored, Numbered, Claimed, Holding
      <3> HIDE DEF row
      <3>4. QED
        BY <1>s, <1>r, <2>d, <3>1, <3>2, <3>3, RowWritten
    <2>4. CASE MarkFailed(w) /\ ~ UNCHANGED job
      <3> DEFINE row == [job[JobOf(w)] EXCEPT !.status = "FAILED"]
      <3>1. JobOf(w) \in Jobs /\ job' = [job EXCEPT ![JobOf(w)] = row]
        BY <2>4, <2>d DEF MarkFailed, Goto
      <3>2. job[JobOf(w)] \in JobRow /\ RowSound(JobOf(w))
        BY <1>r, <3>1 DEF TypeOK, RowsTypeOK
      <3>3. /\ row \in JobRow /\ row.status = "FAILED"
            /\ row.score = job[JobOf(w)].score /\ row.violKey = job[JobOf(w)].violKey
        BY <3>2 DEF JobRow, JobStatus
      <3> HIDE DEF row
      <3>4. QED
        BY <1>s, <1>r, <3>1, <3>2, <3>3, RowWritten DEF RowSound
    <2>5. QED
      BY <1>1, <1>3, <2>1, <2>2, <2>3, <2>4
      DEF Step, Take, Fetch, StoreBoard, AnalysisFails, InsertViolations, StoreBlob,
          SubmissionDone, SubmissionFailed, Count, Check, Settle, Ack
  <1>4. QED
    BY <1>1, <1>2, <1>3, OtherSteps

(* The private copies. *)
LEMMA CopyKept ==
    ASSUME TypeOK, CreatedOnly, StillStored, StillThere, StillExists,
           NEW v \in Workers, CopySound(v),
           pc'[v] = pc[v], delivery'[v] = delivery[v], copy'[v] = copy[v], run'[v] = run[v]
    PROVE  CopySound(v)'
  <1>1. pc[v] # "idle" => Exists(JobOf(v)) /\ JobOf(v) \in Jobs
    BY DEF CreatedOnly, Exists
  <1>2. copy[v].score # 0 => copy[v].score \in Runs
    BY RowsAssumption DEF TypeOK, WorkerTypeOK, JobRow, RunOrNone, Runs
  <1>3. JobOf(v)' = JobOf(v)
    BY DEF JobOf
  <1>4. pc[v] \in Claimed => job'[JobOf(v)].status # "PENDING"
    BY <1>1 DEF StillExists, CopySound, Claimed, Holding
  <1>5. pc[v] \in Holding => (copy[v].violKey => s3'[JobOf(v)].viol # 0)
    BY <1>1 DEF StillThere, CopySound, Holding
  <1>6. pc[v] \in Numbered => s3'[JobOf(v)].board # 0
    BY <1>1 DEF StillThere, CopySound, Numbered, Claimed, Holding
  <1>7. pc[v] \in Holding \ Scored =>
          (copy[v].score # 0 => violations'[copy[v].score] =
             [job |-> JobOf(v), inserts |-> NumInserts])
    BY <1>1, <1>2 DEF StillStored, Stored, CopySound, Holding
  <1>8. QED
    BY <1>3, <1>4, <1>5, <1>6, <1>7 DEF CopySound, Stored

LEMMA CopyIdle ==
    ASSUME NEW v \in Workers, pc'[v] \notin Holding
    PROVE  CopySound(v)'
  BY DEF CopySound, Holding, Claimed, Numbered, Scored

LEMMA CopiesStep ==
    ASSUME TypeOK, CreatedOnly, RunsOwned, CopiesSound, RowsSound, [Next]_vars
    PROVE  CopiesSound'
  <1>s. StillStored /\ StillThere /\ StillExists
    BY ViolationsStay, ObjectsStay, JobsStay
  <1>c. \A v \in Workers : CopySound(v)
    BY DEF CopiesSound
  <1>t. WorkerTypeOK
    BY DEF TypeOK
  <1>1. CASE UNCHANGED workerVars
    BY <1>1, <1>s, <1>c, CopyKept DEF CopiesSound
  <1>2. CASE Crash
    BY <1>2, CopyIdle DEF Crash, CopiesSound, Holding
  <1>3. ASSUME NEW w \in Workers, Take(w) \/ Step(w)
        PROVE  CopiesSound'
    <2>1. \A v \in Workers \ {w} : CopySound(v)'
      BY <1>3, <1>s, <1>c, <1>t, Frame, CopyKept
    <2>d. pc[w] # "idle" => JobOf(w) \in Jobs /\ Exists(JobOf(w))
      BY DEF CreatedOnly, Exists
    <2>c. CopySound(w) /\ RunOwned(w) /\ copy[w] \in JobRow
      BY <1>t DEF CopiesSound, RunsOwned, WorkerTypeOK
    <2>2. CopySound(w)'
      <3>1. CASE pc'[w] \notin Holding
        BY <3>1, CopyIdle
      <3>2. CASE Fetch(w) /\ pc'[w] \in Holding
        <4>1. /\ pc[w] = "fetch" /\ pc'[w] = "claim" /\ copy'[w] = job[JobOf(w)]
              /\ UNCHANGED <<delivery, violations, s3>>
          BY <3>2, <1>t DEF Fetch, Goto, Holding, WorkerTypeOK
        <4>2. RowSound(JobOf(w))
          BY <2>d, <4>1 DEF RowsSound
        <4>3. QED
          BY <4>1, <4>2
          DEF CopySound, RowSound, Stored, JobOf, Holding, Claimed, Numbered, Scored
      <3>3. CASE Claim(w) /\ pc'[w] \in Holding
        <4> DEFINE row == [copy[w] EXCEPT !.status = "PROCESSING"]
        <4>1. /\ pc[w] = "claim" /\ pc'[w] = "board" /\ copy'[w] = row
              /\ job' = [job EXCEPT ![JobOf(w)] = row]
              /\ UNCHANGED <<delivery, violations, s3>>
          BY <3>3, <1>t DEF Claim, Save, Goto, Holding, WorkerTypeOK
        <4>2. /\ row.status = "PROCESSING"
              /\ row.score = copy[w].score /\ row.violKey = copy[w].violKey
          BY <2>c DEF JobRow, JobStatus
        <4> HIDE DEF row
        <4>3. job'[JobOf(w)] = row
          BY <4>1, <2>d DEF TypeOK, RowsTypeOK
        <4>4. QED
          BY <2>c, <4>1, <4>2, <4>3
          DEF CopySound, Stored, JobOf, Holding, Claimed, Numbered, Scored
      <3>4. CASE StoreBoard(w)
        <4> DEFINE row == [copy[w] EXCEPT !.boardKey = TRUE]
        <4>1. /\ pc[w] = "board" /\ pc'[w] = "meta" /\ copy'[w] = row
              /\ UNCHANGED <<job, delivery, violations>>
          BY <3>4, <1>t DEF StoreBoard, Goto, WorkerTypeOK
        <4>2. /\ row.status = copy[w].status /\ row.boardKey
              /\ row.score = copy[w].score /\ row.violKey = copy[w].violKey
          BY <2>c DEF JobRow
        <4> HIDE DEF row
        <4>3. s3'[JobOf(w)].board = runs + 1 /\ runs + 1 # 0
          BY <3>4, <2>d, <4>1, RowsAssumption
          DEF StoreBoard, TypeOK, RowsTypeOK, WorkerTypeOK, RunOrNone
        <4>4. s3[JobOf(w)].viol # 0 => s3'[JobOf(w)].viol # 0
          BY <1>s, <2>d, <4>1 DEF StillThere
        <4>5. QED
          BY <2>c, <4>1, <4>2, <4>3, <4>4
          DEF CopySound, Stored, JobOf, Holding, Claimed, Numbered, Scored
      <3>5. CASE SaveMeta(w)
        <4> DEFINE row == [copy[w] EXCEPT !.score = run[w]]
        <4>1. /\ pc[w] = "meta" /\ pc'[w] = "insert" /\ copy'[w] = row
              /\ UNCHANGED <<delivery, violations, s3, run>>
          BY <3>5, <1>t DEF SaveMeta, Goto, WorkerTypeOK
        <4>2. /\ row.status = copy[w].status /\ row.boardKey = copy[w].boardKey
              /\ row.score = run[w] /\ row.violKey = copy[w].violKey
          BY <2>c DEF JobRow
        <4> HIDE DEF row
        <4>3. job'[JobOf(w)].status # "PENDING"
          BY <1>s, <2>c, <2>d, <4>1 DEF StillExists, CopySound, Claimed, Holding
        <4>4. QED
          BY <2>c, <4>1, <4>2, <4>3
          DEF CopySound, JobOf, Holding, Claimed, Numbered, Scored
      <3>6. CASE InsertViolations(w) /\ pc'[w] \in Holding
        <4>1. pc'[w] = pc[w]
          BY <3>6, <1>t DEF InsertViolations, Goto, Holding, WorkerTypeOK
        <4>2. QED
          BY <3>6, <1>s, <1>c, <4>1, CopyKept DEF InsertViolations
      <3>7. CASE StoreBlob(w)
        <4>1. /\ pc[w] = "insert" /\ pc'[w] = "finalize"
              /\ UNCHANGED <<job, delivery, run>>
          BY <3>7, <1>t DEF StoreBlob, Goto, WorkerTypeOK
        <4>2. /\ copy'[w].status = copy[w].status /\ copy'[w].boardKey = copy[w].boardKey
              /\ copy'[w].score = copy[w].score
          BY <3>7, <2>c, <1>t DEF StoreBlob, WorkerTypeOK, JobRow
        <4>3. s3'[JobOf(w)].board # 0
          BY <1>s, <2>c, <2>d, <4>1
          DEF StillThere, CopySound, Numbered, Claimed, Holding
        <4>4. copy'[w].violKey => s3'[JobOf(w)].viol # 0
          <5>1. CASE UNCHANGED <<s3, copy>>
            BY <5>1, <2>c, <4>1 DEF CopySound, Holding
          <5>2. CASE s3' = [s3 EXCEPT ![JobOf(w)].viol = run[w]]
            BY <5>2, <2>c, <2>d, <4>1
            DEF RunOwned, TypeOK, RowsTypeOK, Numbered, Claimed, Holding
          <5>3. QED
            BY <3>7, <5>1, <5>2 DEF StoreBlob
        <4>5. QED
          BY <2>c, <4>1, <4>2, <4>3, <4>4
          DEF CopySound, JobOf, Holding, Claimed, Numbered, Scored
      <3>8. CASE \/ Take(w) \/ AnalysisFails(w) \/ Finalize(w) \/ SubmissionDone(w)
                 \/ MarkFailed(w) \/ SubmissionFailed(w) \/ Count(w) \/ Check(w)
                 \/ Settle(w) \/ Ack(w)
        <4>1. \E st \in {"fetch", "mark", "subDone", "completed", "subFailed", "failed",
                         "check", "DONE", "PARTIAL_FAIL", "ack", "idle"} :
                pc' = [pc EXCEPT ![w] = st]
          BY <3>8 DEF Take, AnalysisFails, Finalize, SubmissionDone, MarkFailed,
             SubmissionFailed, Count, Check, Verdict, Settle, Ack, Goto
        <4>2. pc'[w] \notin Holding
          BY <4>1, <1>t DEF WorkerTypeOK, Holding
        <4>3. QED
          BY <4>2, CopyIdle
      <3>9. QED
        BY <1>3, <3>1, <3>2, <3>3, <3>4, <3>5, <3>6, <3>7, <3>8 DEF Step
    <2>3. QED
      BY <2>1, <2>2 DEF CopiesSound
  <1>4. QED
    BY <1>1, <1>2, <1>3, OtherSteps

(* The runs. *)
LEMMA RunWrites ==
    ASSUME TypeOK, NEW w \in Workers, Take(w) \/ Step(w)
    PROVE  \/ UNCHANGED <<run, runs>>
           \/ Ack(w) /\ run' = [run EXCEPT ![w] = 0] /\ UNCHANGED runs
           \/ StoreBoard(w) /\ run' = [run EXCEPT ![w] = runs + 1] /\ runs' = runs + 1
  BY DEF Step, Take, Fetch, Claim, StoreBoard, AnalysisFails, SaveMeta, InsertViolations,
     StoreBlob, Finalize, SubmissionDone, MarkFailed, SubmissionFailed, Count, Check, Settle,
     Ack, Forget

LEMMA RunsUnique ==
    ASSUME TypeOK, RunsOwned, NEW w \in Workers, Take(w) \/ Step(w)
    PROVE  /\ \A u, v \in Workers : u # v /\ run'[v] # 0 => run'[u] # run'[v]
           /\ \A v \in Workers : run'[v] <= runs'
           /\ \A v \in Workers \ {w} : run'[v] = run[v]
           /\ runs <= runs'
  <1>t. run \in [Workers -> RunOrNone] /\ runs \in Nat /\ \A v \in Workers : run[v] \in Nat
    BY RowsAssumption DEF TypeOK, WorkerTypeOK, RunOrNone
  <1>1. /\ \A u, v \in Workers : u # v /\ run[v] # 0 => run[u] # run[v]
        /\ \A v \in Workers : run[v] <= runs
    BY DEF RunsOwned, RunOwned
  <1>2. CASE UNCHANGED <<run, runs>>
    BY <1>1, <1>2, <1>t
  <1>3. CASE run' = [run EXCEPT ![w] = 0] /\ UNCHANGED runs
    BY <1>1, <1>3, <1>t
  <1>4. CASE run' = [run EXCEPT ![w] = runs + 1] /\ runs' = runs + 1
    <2>1. /\ run'[w] = runs + 1
          /\ \A v \in Workers \ {w} : run'[v] = run[v]
      BY <1>4, <1>t
    <2>2. \A v \in Workers : run[v] # runs + 1 /\ run[v] <= runs + 1
      BY <1>1, <1>t
    <2>3. QED
      BY <1>1, <1>4, <1>t, <2>1, <2>2
  <1>5. QED
    BY <1>2, <1>3, <1>4, RunWrites

LEMMA RunKept ==
    ASSUME TypeOK, NEW v \in Workers, RunOwned(v), run'[v] <= runs',
           pc'[v] = pc[v], delivery'[v] = delivery[v], run'[v] = run[v],
           run[v] # 0 => violations'[run[v]] = violations[run[v]]
    PROVE  RunOwned(v)'
  <1>1. JobOf(v)' = JobOf(v)
    BY DEF JobOf
  <1>2. pc[v] \in Numbered => run[v] # 0
    BY DEF RunOwned
  <1>3. QED
    BY <1>1, <1>2 DEF RunOwned, Stored, Numbered, Claimed, Holding

LEMMA RunIdle ==
    ASSUME NEW v \in Workers, run'[v] <= runs', pc'[v] \notin Numbered
    PROVE  RunOwned(v)'
  BY DEF RunOwned, Holding, Claimed, Numbered

LEMMA RunsStep ==
    ASSUME TypeOK, CreatedOnly, RunsOwned, [Next]_vars
    PROVE  RunsOwned'
  <1>t. WorkerTypeOK /\ RowsTypeOK
    BY DEF TypeOK
  <1>n. \A v \in Workers : run[v] # 0 => run[v] \in Runs
    BY <1>t, RowsAssumption DEF WorkerTypeOK, RunOrNone, Runs
  <1>i. runs \in Nat /\ \A v \in Workers : run[v] \in Nat
    BY <1>t, RowsAssumption DEF WorkerTypeOK, RunOrNone
  <1>1. CASE UNCHANGED <<workerVars, violations>>
    BY <1>1 DEF RunsOwned, RunOwned, Stored, JobOf
  <1>2. CASE Crash
    <2>1. \A v \in Workers : run'[v] = 0 /\ pc'[v] = "idle"
      BY <1>2 DEF Crash
    <2>2. \A v \in Workers : RunOwned(v)'
      BY <1>2, <1>i, <2>1 DEF Crash, RunOwned, Numbered, Claimed, Holding
    <2>3. QED
      BY <1>2, <2>1, <2>2 DEF Crash, RunsOwned
  <1>3. ASSUME NEW w \in Workers, Take(w) \/ Step(w)
        PROVE  RunsOwned'
    <2>u. /\ \A u, v \in Workers : u # v /\ run'[v] # 0 => run'[u] # run'[v]
          /\ \A v \in Workers : run'[v] <= runs'
          /\ \A v \in Workers \ {w} : run'[v] = run[v]
          /\ runs <= runs'
      BY <1>3, RunsUnique
    <2>c. RunOwned(w)
      BY DEF RunsOwned
    <2>v. \A r \in Runs : r # run[w] => violations'[r] = violations[r]
      <3>1. CASE UNCHANGED violations
        BY <3>1
      <3>2. CASE violations' = [violations EXCEPT ![run[w]] =
                   [job |-> JobOf(w), inserts |-> violations[run[w]].inserts + 1]]
        BY <3>2, <1>t DEF RowsTypeOK
      <3>3. QED
        BY <1>3, <3>1, <3>2, ViolationWrites
    <2>1. ASSUME NEW v \in Workers \ {w}
          PROVE  RunOwned(v)'
      <3>1. /\ pc'[v] = pc[v] /\ delivery'[v] = delivery[v] /\ run'[v] = run[v]
        BY <1>3, <1>t, Frame
      <3>2. run[v] # 0 => violations'[run[v]] = violations[run[v]]
        BY <1>n, <2>v DEF RunsOwned
      <3>3. QED
        BY <2>u, <3>1, <3>2, RunKept DEF RunsOwned
    <2>2. RunOwned(w)'
      <3>1. CASE StoreBoard(w)
        <4>1. pc'[w] = "meta" /\ run'[w] = runs + 1 /\ runs' = runs + 1 /\ UNCHANGED violations
          BY <3>1, <1>t DEF StoreBoard, Goto, WorkerTypeOK
        <4>2. runs + 1 \in Runs
          BY <3>1, <1>i, RowsAssumption DEF StoreBoard, Runs
        <4>3. violations[runs + 1].inserts = 0
          BY <4>2, <1>i DEF RunsOwned
        <4>4. QED
          BY <4>1, <4>3, <1>i DEF RunOwned
      <3>2. CASE SaveMeta(w)
        <4>1. pc[w] = "meta" /\ pc'[w] = "insert" /\ UNCHANGED <<violations, run, runs>>
          BY <3>2, <1>t DEF SaveMeta, Goto, WorkerTypeOK
        <4>2. QED
          BY <4>1, <2>c DEF RunOwned, Numbered, Claimed, Holding
      <3>3. CASE InsertViolations(w) /\ pc'[w] \in Numbered
        <4>1. pc[w] = "insert" /\ pc'[w] = "insert" /\ UNCHANGED <<run, runs, delivery>>
          BY <3>3, <1>t DEF InsertViolations, Goto, WorkerTypeOK, Numbered, Claimed, Holding
        <4>2. violations'[run[w]].inserts # 0 => violations'[run[w]].job = JobOf(w)
          <5>1. CASE UNCHANGED violations
            BY <5>1, <4>1, <2>c DEF RunOwned
          <5>2. CASE /\ run[w] \in Runs
                     /\ violations' = [violations EXCEPT ![run[w]] =
                          [job |-> JobOf(w), inserts |-> violations[run[w]].inserts + 1]]
            <6>1. violations'[run[w]] =
                    [job |-> JobOf(w), inserts |-> violations[run[w]].inserts + 1]
              BY <5>2, <1>t DEF RowsTypeOK
            <6>2. QED
              BY <6>1
          <5>3. QED
            BY <1>3, <5>1, <5>2, ViolationWrites
        <4>3. QED
          BY <4>1, <4>2, <2>c DEF RunOwned, JobOf, Numbered, Claimed, Holding
      <3>4. CASE StoreBlob(w)
        <4>1. /\ pc[w] = "insert" /\ pc'[w] = "finalize"
              /\ UNCHANGED <<violations, run, runs, delivery>>
              /\ ~ MoreToInsert(w)
          BY <3>4, <1>t DEF StoreBlob, Goto, WorkerTypeOK
        <4>2. run[w] # 0 /\ run[w] \in Runs
          BY <4>1, <2>c, <1>n DEF RunOwned, Numbered, Claimed, Holding
        <4>3. Stored(run[w], JobOf(w))
          <5>1. violations[run[w]].inserts = NumInserts
            BY <4>1, <4>2, <1>t, AllInserted
          <5>2. QED
            BY <4>1, <4>2, <5>1, BlobIsStored
        <4>4. QED
          BY <4>1, <4>2, <4>3, <2>c DEF RunOwned, Stored, JobOf
      <3>5. CASE pc'[w] \notin Numbered
        BY <3>5, <2>u, RunIdle
      <3>6. CASE \/ Take(w) \/ Fetch(w) \/ Claim(w) \/ AnalysisFails(w) \/ Finalize(w)
                 \/ SubmissionDone(w) \/ MarkFailed(w) \/ SubmissionFailed(w)
                 \/ Count(w) \/ Check(w) \/ Settle(w) \/ Ack(w)
        <4>1. \E st \in {"fetch", "claim", "board", "mark", "subDone", "completed",
                         "subFailed", "failed", "check", "DONE", "PARTIAL_FAIL", "ack", "idle"} :
                pc' = [pc EXCEPT ![w] = st]
          BY <3>6 DEF Take, Fetch, Claim, AnalysisFails, Finalize, SubmissionDone, MarkFailed,
             SubmissionFailed, Count, Check, Verdict, Settle, Ack, Goto
        <4>2. pc'[w] \notin Numbered
          BY <4>1, <1>t DEF WorkerTypeOK, Numbered, Claimed, Holding
        <4>3. QED
          BY <4>2, <3>5
      <3>7. QED
        BY <1>3, <3>1, <3>2, <3>3, <3>4, <3>5, <3>6 DEF Step
    <2>3. \A r \in Runs : r > runs' => violations'[r].inserts = 0
      <3>1. \A r \in Runs : r > runs' => r > runs
        BY <2>u, <1>i, <1>3, RunWrites, RowsAssumption DEF Runs
      <3>2. \A r \in Runs : r > runs => r # run[w]
        BY <2>c, <1>i DEF RunOwned, Runs
      <3>3. QED
        BY <3>1, <3>2, <2>v DEF RunsOwned
    <2>4. QED
      BY <2>1, <2>2, <2>3, <2>u DEF RunsOwned
  <1>4. QED
    BY <1>1, <1>2, <1>3, OtherSteps

(* Ids in flight. *)
QueueCreated == \A m \in DOMAIN queue : Exists(queue[m].job)
OutCreated == \A d \in out : Exists(d.job)
ChannelCreated == \A i \in DOMAIN channel : Exists(channel[i].job)
StuckCreated == \A j \in stuck : Exists(j)
DeliveryCreated ==
    \A w \in Workers : pc[w] # "idle" => delivery[w] \in Delivery /\ Exists(JobOf(w))
RequestCreated ==
    \A h \in Requests : request[h].pc \in {"mark", "send"} => Exists(request[h].job)

LEMMA CreatedParts ==
    CreatedOnly <=> /\ QueueCreated /\ OutCreated /\ ChannelCreated
                    /\ StuckCreated /\ DeliveryCreated /\ RequestCreated
  BY DEF CreatedOnly, QueueCreated, OutCreated, ChannelCreated, StuckCreated,
     DeliveryCreated, RequestCreated

(* Existing jobs stay, so what is left alone stays sound. *)
LEMMA CreatedKept ==
    ASSUME CreatedOnly, StillExists
    PROVE  /\ UNCHANGED queue => QueueCreated'
           /\ out' \subseteq out => OutCreated'
           /\ UNCHANGED channel => ChannelCreated'
           /\ stuck' \subseteq stuck => StuckCreated'
           /\ UNCHANGED <<pc, delivery>> => DeliveryCreated'
           /\ UNCHANGED request => RequestCreated'
  <1>1. \A j : Exists(j) => Exists(j)'
    BY DEF StillExists, Exists
  <1>2. QED
    BY <1>1, CreatedParts
    DEF QueueCreated, OutCreated, ChannelCreated, StuckCreated, DeliveryCreated,
        RequestCreated, JobOf

LEMMA TailElements ==
    ASSUME NEW S, NEW c \in Seq(S), c # << >>
    PROVE  \A i \in DOMAIN Tail(c) : i + 1 \in DOMAIN c /\ Tail(c)[i] = c[i + 1]
  <1>1. /\ Tail(c) \in Seq(S) /\ Len(Tail(c)) = Len(c) - 1
        /\ \A i \in 1 .. Len(Tail(c)) : Tail(c)[i] = c[i + 1]
    BY HeadTailProperties
  <1>2. /\ DOMAIN Tail(c) = 1 .. Len(c) - 1
        /\ DOMAIN c = 1 .. Len(c) /\ Len(c) \in Nat
    BY <1>1, LenProperties
  <1>3. QED
    BY <1>1, <1>2

LEMMA AppendElements ==
    ASSUME NEW S, NEW c \in Seq(S), NEW d \in S
    PROVE  \A i \in DOMAIN Append(c, d) :
               \/ i \in DOMAIN c /\ Append(c, d)[i] = c[i]
               \/ Append(c, d)[i] = d
  <1>1. /\ Append(c, d) \in Seq(S) /\ Len(Append(c, d)) = Len(c) + 1
        /\ \A i \in 1 .. Len(c) : Append(c, d)[i] = c[i]
        /\ Append(c, d)[Len(c) + 1] = d
    BY AppendProperties
  <1>2. /\ DOMAIN Append(c, d) = 1 .. Len(c) + 1
        /\ DOMAIN c = 1 .. Len(c) /\ Len(c) \in Nat
    BY <1>1, LenProperties
  <1>3. QED
    BY <1>1, <1>2

LEMMA SendCreated ==
    ASSUME QueueTypeOK, CreatedOnly, StillExists, NEW j, Exists(j), SendMessage(j)
    PROVE  QueueCreated'
  <1>1. \A i : Exists(i) => Exists(i)'
    BY DEF StillExists, Exists
  <1>2. queue \in Seq(Message)
    BY DEF QueueTypeOK
  <1>3. /\ DOMAIN queue' = 1 .. Len(queue) + 1
        /\ \A m \in 1 .. Len(queue) : queue'[m] = queue[m]
        /\ queue'[Len(queue) + 1] = [job |-> j, state |-> "visible", receipt |-> 0]
        /\ DOMAIN queue = 1 .. Len(queue) /\ Len(queue) \in Nat
    BY <1>2, LenProperties DEF SendMessage
  <1>4. \A m \in DOMAIN queue' : m \in DOMAIN queue \/ m = Len(queue) + 1
    BY <1>3
  <1>5. QED
    BY <1>1, <1>3, <1>4 DEF CreatedOnly, QueueCreated

LEMMA StateCreated ==
    ASSUME QueueTypeOK, CreatedOnly, StillExists, NEW m, NEW st,
           queue' = [queue EXCEPT ![m].state = st]
    PROVE  QueueCreated'
  <1>1. \A i : Exists(i) => Exists(i)'
    BY DEF StillExists, Exists
  <1>2. DOMAIN queue' = DOMAIN queue
    OBVIOUS
  <1>3. \A k \in DOMAIN queue : queue[k] \in Message
    BY LenProperties, ElementOfSeq DEF QueueTypeOK
  <1>4. \A k \in DOMAIN queue : queue'[k].job = queue[k].job
    BY <1>3 DEF Message
  <1>5. QED
    BY <1>1, <1>2, <1>4 DEF CreatedOnly, QueueCreated

LEMMA ReceiveCreated ==
    ASSUME QueueTypeOK, CreatedOnly, StillExists, NEW M, M \subseteq DOMAIN queue,
           ReceiveMessage(M), out' = {DeliveryOf(m) : m \in M}
    PROVE  QueueCreated' /\ OutCreated'
  <1>1. \A i : Exists(i) => Exists(i)'
    BY DEF StillExists, Exists
  <1>2. \A k \in DOMAIN queue : queue[k] \in Message
    BY LenProperties, ElementOfSeq DEF QueueTypeOK
  <1>3. /\ DOMAIN queue' = DOMAIN queue
        /\ \A k \in DOMAIN queue : queue'[k].job = queue[k].job
    BY <1>2 DEF ReceiveMessage, Message
  <1>4. QueueCreated'
    BY <1>1, <1>3 DEF CreatedOnly, QueueCreated
  <1>5. \A m \in M : DeliveryOf(m).job = queue[m].job
    BY DEF DeliveryOf
  <1>6. OutCreated'
    BY <1>1, <1>5 DEF CreatedOnly, OutCreated
  <1>7. QED
    BY <1>4, <1>6

LEMMA CreatedStep ==
    ASSUME TypeOK, CreatedOnly, CopiesSound, [Next]_vars
    PROVE  CreatedOnly'
  <1>x. StillExists
    BY JobsStay
  <1>e. \A j : Exists(j) => Exists(j)'
    BY <1>x DEF StillExists, Exists
  <1>t. QueueTypeOK /\ PollerTypeOK /\ WorkerTypeOK /\ ApiTypeOK
    BY DEF TypeOK
  <1>c. /\ channel \in Seq(Delivery)
        /\ DOMAIN channel = 1 .. Len(channel) /\ Len(channel) \in Nat
    BY <1>t, LenProperties DEF PollerTypeOK
  <1>p. CreatedOnly' <=> /\ QueueCreated' /\ OutCreated' /\ ChannelCreated'
                         /\ StuckCreated' /\ DeliveryCreated' /\ RequestCreated'
    BY DEF CreatedOnly, QueueCreated, OutCreated, ChannelCreated, StuckCreated,
       DeliveryCreated, RequestCreated
  <1>1. ASSUME NEW w \in Workers, Take(w) \/ Step(w), UNCHANGED request
        PROVE  CreatedOnly'
    <2>1. CASE Take(w)
      <3>1. /\ UNCHANGED <<queue, out, stuck>> /\ channel # << >>
            /\ delivery' = [delivery EXCEPT ![w] = Head(channel)]
            /\ pc' = [pc EXCEPT ![w] = "fetch"]
            /\ channel' = Tail(channel)
        BY <2>1 DEF Take, Goto
      <3>2. Head(channel) = channel[1] /\ 1 \in DOMAIN channel
        <4>1. Len(channel) \in Nat \ {0}
          BY <1>c, <3>1, EmptySeq
        <4>2. QED
          BY <1>c, <4>1
      <3>3. Head(channel) \in Delivery /\ Exists(Head(channel).job)
        BY <1>c, <3>1, <3>2, HeadTailProperties DEF CreatedOnly
      <3>4. DeliveryCreated'
        <4>1. delivery'[w] = Head(channel) /\ JobOf(w)' = Head(channel).job
          BY <3>1, <1>t DEF JobOf, WorkerTypeOK
        <4>2. \A v \in Workers \ {w} : pc'[v] = pc[v] /\ delivery'[v] = delivery[v]
          BY <3>1, <1>t DEF WorkerTypeOK
        <4>3. QED
          BY <1>e, <3>3, <4>1, <4>2 DEF CreatedOnly, DeliveryCreated, JobOf
      <3>5. ChannelCreated'
        <4>1. \A i \in DOMAIN channel' : i + 1 \in DOMAIN channel /\ channel'[i] = channel[i + 1]
          BY <1>c, <3>1, TailElements
        <4>2. QED
          BY <1>e, <4>1 DEF CreatedOnly, ChannelCreated
      <3>6. QED
        BY <1>1, <1>p, <1>x, <3>1, <3>4, <3>5, CreatedKept
    <2>2. CASE Ack(w)
      <3>1. /\ UNCHANGED <<out, channel, stuck>>
            /\ pc' = [pc EXCEPT ![w] = "idle"] /\ delivery' = [delivery EXCEPT ![w] = None]
        BY <2>2 DEF Ack, Goto, Forget
      <3>2. QueueCreated'
        <4>1. CASE UNCHANGED queue
          BY <4>1, <1>x, CreatedKept
        <4>2. CASE DeleteMessage(delivery[w])
          BY <4>2, <1>t, <1>x, StateCreated DEF DeleteMessage
        <4>3. QED
          BY <2>2, <4>1, <4>2 DEF Ack
      <3>3. DeliveryCreated'
        <4>1. pc'[w] = "idle"
          BY <3>1, <1>t DEF WorkerTypeOK
        <4>2. \A v \in Workers \ {w} : pc'[v] = pc[v] /\ delivery'[v] = delivery[v]
          BY <3>1, <1>t DEF WorkerTypeOK
        <4>3. QED
          BY <1>e, <4>1, <4>2 DEF CreatedOnly, DeliveryCreated, JobOf
      <3>4. QED
        BY <1>1, <1>p, <1>x, <3>1, <3>2, <3>3, CreatedKept
    <2>3. CASE Step(w) /\ ~ Ack(w)
      <3>1. UNCHANGED <<queue, out, channel, stuck, delivery>> /\ pc[w] # "idle"
        BY <2>3 DEF Step, Fetch, Claim, StoreBoard, AnalysisFails, SaveMeta, InsertViolations,
           StoreBlob, Finalize, SubmissionDone, MarkFailed, SubmissionFailed, Count, Check,
           Settle, Goto
      <3>2. \A v \in Workers \ {w} : pc'[v] = pc[v]
        BY <1>1, <1>t, Frame
      <3>3. DeliveryCreated'
        BY <1>e, <3>1, <3>2 DEF CreatedOnly, DeliveryCreated, JobOf
      <3>4. QED
        BY <1>1, <1>p, <1>x, <3>1, <3>3, CreatedKept
    <2>4. QED
      BY <1>1, <2>1, <2>2, <2>3
  <1>2. CASE PollerNext /\ UNCHANGED workerVars /\ UNCHANGED request
    <2>1. CASE Receive
      <3>1. PICK M \in SUBSET Visible : ReceiveMessage(M) /\ out' = {DeliveryOf(m) : m \in M}
        BY <2>1 DEF Receive
      <3>2. M \subseteq DOMAIN queue
        BY DEF Visible
      <3>3. QueueCreated' /\ OutCreated'
        BY <1>t, <1>x, <3>1, <3>2, ReceiveCreated
      <3>4. QED
        BY <1>2, <1>p, <1>x, <2>1, <3>3, CreatedKept DEF Receive
    <2>2. CASE Dispatch
      <3>1. PICK d \in out : out' = out \ {d} /\ channel' = Append(channel, d)
        BY <2>2 DEF Dispatch
      <3>2. ChannelCreated'
        <4>1. \A i \in DOMAIN channel' :
                \/ i \in DOMAIN channel /\ channel'[i] = channel[i]
                \/ channel'[i] = d
          <5>1. d \in Delivery
            BY <1>t DEF PollerTypeOK
          <5>2. QED
            BY <1>c, <3>1, <5>1, AppendElements
        <4>2. QED
          BY <1>e, <4>1 DEF CreatedOnly, ChannelCreated
      <3>3. QED
        BY <1>2, <1>p, <1>x, <2>2, <3>1, <3>2, CreatedKept DEF Dispatch
    <2>3. CASE SweepRead
      <3>1. StuckCreated'
        BY <2>3, <1>e, <1>t DEF SweepRead, StuckJobs, StuckCreated, Exists, PollerTypeOK
      <3>2. QED
        BY <1>2, <1>p, <1>x, <2>3, <3>1, CreatedKept DEF SweepRead
    <2>4. CASE SweepSend
      <3>1. PICK j \in stuck : stuck' = stuck \ {j} /\ (SendMessage(j) \/ UNCHANGED queue)
        BY <2>4 DEF SweepSend
      <3>2. QueueCreated'
        BY <1>t, <1>x, <3>1, SendCreated, CreatedKept DEF CreatedOnly
      <3>3. QED
        BY <1>2, <1>p, <1>x, <2>4, <3>1, <3>2, CreatedKept DEF SweepSend
    <2>5. QED
      BY <1>2, <2>1, <2>2, <2>3, <2>4 DEF PollerNext
  <1>3. CASE VisibilityTimeout /\ UNCHANGED request
    <2>1. QueueCreated'
      BY <1>3, <1>t, <1>x, StateCreated DEF VisibilityTimeout, Expire
    <2>2. QED
      BY <1>3, <1>p, <1>x, <2>1, CreatedKept DEF VisibilityTimeout
  <1>4. CASE Crash /\ UNCHANGED request
    <2>1. ChannelCreated' /\ DeliveryCreated' /\ UNCHANGED queue /\ out' = {} /\ stuck' = {}
      BY <1>4 DEF Crash, ChannelCreated, DeliveryCreated
    <2>2. QED
      BY <1>4, <1>p, <1>x, <2>1, CreatedKept
  <1>5. CASE ApiNext /\ UNCHANGED <<pollerVars, workerVars>>
    <2>r. \A h \in Requests : request[h] \in Request
      BY <1>t DEF ApiTypeOK
    <2>d. DOMAIN request = Requests
      BY <1>t DEF ApiTypeOK
    <2>1. PICK h \in Requests :
            \/ \E s \in Subs : StartAnalysis(h, s) \/ SharedAnalyze(h, s)
            \/ \E b \in Batches : AnalyzeBatch(h, b) \/ RetryBatch(h, b)
            \/ ApiStep(h)
            \/ ApiCrash(h)
      BY <1>5 DEF ApiNext
    <2>2. \A g \in Requests \ {h} : request'[g] = request[g]
      BY <2>1, <2>d DEF ApiStep, Accept, StartAnalysis, SharedAnalyze, AnalyzeBatch, RetryBatch,
         ResetBatch, CreateJob, MarkAnalyzing, Enqueue, ApiCrash
    <2>3. (request[h].pc \in {"mark", "send"} => Exists(request[h].job))'
      <3>1. CASE \E s \in Subs : StartAnalysis(h, s) \/ SharedAnalyze(h, s)
        BY <3>1, <2>d DEF StartAnalysis, SharedAnalyze, Accept, NewRequest
      <3>2. CASE \E b \in Batches : AnalyzeBatch(h, b) \/ RetryBatch(h, b)
        BY <3>2, <2>d DEF AnalyzeBatch, RetryBatch, Accept, NewRequest
      <3>3. CASE ResetBatch(h) \/ ApiCrash(h)
        BY <3>3, <2>r, <2>d DEF ResetBatch, ApiCrash, Request
      <3>4. CASE \E s \in Subs : CreateJob(h, s)
        <4>1. PICK s \in Subs : CreateJob(h, s)
          BY <3>4
        <4> DEFINE rest == request[h].todo \ {s}
        <4>2. CASE \E j \in Jobs :
                     /\ job' = [job EXCEPT ![j] = NewJob(s)]
                     /\ request' = [request EXCEPT ![h] =
                          [request[h] EXCEPT !.pc = "mark", !.todo = rest,
                                             !.of = s, !.job = j]]
          <5>1. PICK j \in Jobs :
                     /\ job' = [job EXCEPT ![j] = NewJob(s)]
                     /\ request' = [request EXCEPT ![h] =
                          [request[h] EXCEPT !.pc = "mark", !.todo = rest,
                                             !.of = s, !.job = j]]
            BY <4>2
          <5>2. request'[h].job = j
            BY <5>1, <2>r, <2>d DEF Request
          <5>3. job'[j].status = "PENDING"
            BY <5>1 DEF TypeOK, RowsTypeOK, NewJob, NoJob
          <5>4. QED
            BY <5>2, <5>3 DEF Exists
        <4>3. CASE request' = [request EXCEPT ![h] =
                     [request[h] EXCEPT !.pc = Loop(h, rest), !.todo = rest]]
          <5>1. request'[h].pc = Loop(h, rest)
            BY <4>3, <2>r, <2>d DEF Request
          <5>2. QED
            BY <5>1 DEF Loop
        <4>4. QED
          BY <4>1, <4>2, <4>3 DEF CreateJob
      <3>5. CASE MarkAnalyzing(h)
        <4>1. request[h].pc = "mark" /\ request'[h].job = request[h].job
          BY <3>5, <2>r, <2>d DEF MarkAnalyzing, Request
        <4>2. QED
          BY <1>e, <4>1 DEF CreatedOnly, Exists
      <3>6. CASE Enqueue(h)
        <4>1. request'[h].pc = Loop(h, request[h].todo)
          BY <3>6, <2>r, <2>d DEF Enqueue, Request
        <4>2. QED
          BY <4>1 DEF Loop
      <3>7. QED
        BY <2>1, <3>1, <3>2, <3>3, <3>4, <3>5, <3>6 DEF ApiStep
    <2>4. RequestCreated'
      BY <1>e, <2>2, <2>3 DEF CreatedOnly, RequestCreated, Exists
    <2>5. QueueCreated'
      <3>1. CASE Enqueue(h)
        <4>1. Exists(request[h].job)
          BY <3>1 DEF Enqueue, CreatedOnly
        <4>2. SendMessage(request[h].job) \/ UNCHANGED queue
          BY <3>1 DEF Enqueue
        <4>3. QED
          BY <1>t, <1>x, <4>1, <4>2, SendCreated, CreatedKept
      <3>2. CASE UNCHANGED queue
        BY <3>2, <1>x, CreatedKept
      <3>3. QED
        BY <2>1, <3>1, <3>2 DEF ApiStep, Accept, StartAnalysis, SharedAnalyze, AnalyzeBatch,
           RetryBatch, ResetBatch, CreateJob, MarkAnalyzing, ApiCrash
    <2>6. QED
      BY <1>5, <1>p, <1>x, <2>4, <2>5, CreatedKept
  <1>6. ASSUME NEW j \in Jobs, Age(j)
        PROVE  CreatedOnly'
    BY <1>6, <1>p, <1>x, CreatedKept DEF Age
  <1>7. CASE UNCHANGED vars
    BY <1>7, <1>p, <1>x, CreatedKept
  <1>8. QED
    BY <1>1, <1>2, <1>3, <1>4, <1>5, <1>6, <1>7 DEF Next, WorkerNext

-----------------------------------------------------------------------------
(* The theorems *)

LEMMA InvInit == Init => IInv
  <1> SUFFICES ASSUME Init
               PROVE  IInv
    OBVIOUS
  <1>1. TypeOK
    BY TypeInit
  <1>2. CreatedOnly
    BY DEF Init, QueueInit, PollerInit, WorkerInit, ApiInit, NewRequest, CreatedOnly
  <1>3. \A w \in Workers : pc[w] = "idle" /\ run[w] = 0 /\ runs = 0
    BY DEF Init, WorkerInit
  <1>4. RunsOwned
    <2>1. \A w \in Workers : RunOwned(w)
      BY <1>3 DEF RunOwned, Numbered, Claimed, Holding
    <2>2. \A r \in Runs : violations[r].inserts = 0
      BY DEF Init, RowsInit
    <2>3. QED
      BY <1>3, <2>1, <2>2 DEF RunsOwned
  <1>5. CopiesSound
    BY <1>3 DEF CopiesSound, CopySound, Scored, Numbered, Claimed, Holding
  <1>6. \A j \in Jobs : job[j] = NoJob /\ s3[j].viol = 0
    BY DEF Init, RowsInit
  <1>7. RowsSound /\ BlobIdsExist
    BY <1>6 DEF RowsSound, RowSound, BlobIdsExist, NoJob
  <1>8. QED
    BY <1>1, <1>2, <1>4, <1>5, <1>7 DEF IInv

LEMMA InvStep == IInv /\ [Next]_vars => IInv'
  BY TypeStep, CreatedStep, RunsStep, CopiesStep, RowsStep, BlobStep DEF IInv

(* IInv is an invariant of the pipeline. *)
THEOREM Invariance == Spec => []IInv
  <1>1. Init => IInv
    BY InvInit
  <1>2. IInv /\ [Next]_vars => IInv'
    BY InvStep
  <1>3. QED
    BY <1>1, <1>2, PTL DEF Spec

(* Every variable of the pipeline keeps its type: rows, objects, messages and
   locals of handlers and goroutines, in every interleaving and under faults. *)
THEOREM TypeCorrect == Spec => []TypeOK
  <1>1. IInv => TypeOK
    BY DEF IInv
  <1>2. QED
    BY <1>1, Invariance, PTL

(* ProcessJob: however many runs of a job overlap, fail half way or save stale
   copies of its row, a job that reads DONE is complete. *)
THEOREM DoneComplete == Spec => []DoneIsComplete
  <1>1. IInv => DoneIsComplete
    BY DEF IInv, RowsSound, RowSound, DoneIsComplete
  <1>2. QED
    BY <1>1, Invariance, PTL

(* ProcessJob stores violations.json after the last insert: every violation
   GetViolations serves from it has its row. *)
THEOREM BlobBacked == Spec => []BlobIdsExist
  <1>1. IInv => BlobIdsExist
    BY DEF IInv
  <1>2. QED
    BY <1>1, Invariance, PTL

=============================================================================
