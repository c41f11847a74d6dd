---------------------------- MODULE LifecycleProofs ----------------------------
(***************************************************************************)
(* The pipeline implements JobLifecycle: the refinement mapping of         *)
(* Pipeline takes initial states to initial states, and every step to a    *)
(* step of one job or to a stutter.                                        *)
(***************************************************************************)
EXTENDS PipelineProofs

USE DEF vars, rowVars, pollerVars, workerVars, locals, NoFault

StatusBar == [j \in Jobs |-> job[j].status]
StoredBar == [j \in Jobs |-> {r \in Runs : Stored(r, j)}]
ShownBar == [j \in Jobs |-> {job[j].score} \ {0}]

LEMMA LifecycleInit == Init => Lifecycle!Init
  <1> SUFFICES ASSUME Init
               PROVE  Lifecycle!Init
    OBVIOUS
  <1>1. \A j \in Jobs : job[j].status = "NONE" /\ {job[j].score} \ {0} = {}
    BY DEF Init, RowsInit, NoJob
  <1>2. \A r \in Runs, j \in Jobs : ~ Stored(r, j)
    BY RowsAssumption DEF Init, RowsInit, Stored
  <1>3. QED
    BY <1>1, <1>2 DEF Lifecycle!Init

(* A write of one row is an update of one job in the mapping. *)
LEMMA RowMapped ==
    ASSUME TypeOK, NEW i \in Jobs, NEW row \in JobRow, job' = [job EXCEPT ![i] = row]
    PROVE  /\ StatusBar' = [StatusBar EXCEPT ![i] = row.status]
           /\ ShownBar' = [ShownBar EXCEPT ![i] = {row.score} \ {0}]
  <1>1. DOMAIN job = Jobs
    BY DEF TypeOK, RowsTypeOK
  <1>2. \A j \in Jobs : job'[j] = IF j = i THEN row ELSE job[j]
    BY <1>1
  <1>3. StatusBar' = [StatusBar EXCEPT ![i] = row.status]
    <2>1. StatusBar' = [j \in Jobs |-> IF j = i THEN row.status ELSE job[j].status]
      BY <1>2 DEF StatusBar
    <2>2. QED
      BY <2>1 DEF StatusBar
  <1>4. ShownBar' = [ShownBar EXCEPT ![i] = {row.score} \ {0}]
    <2>1. ShownBar' = [j \in Jobs |-> IF j = i THEN {row.score} \ {0} ELSE {job[j].score} \ {0}]
      BY <1>2 DEF ShownBar
    <2>2. QED
      BY <2>1 DEF ShownBar
  <1>5. QED
    BY <1>3, <1>4

LEMMA RowsSame == UNCHANGED job => UNCHANGED <<StatusBar, ShownBar>>
  BY DEF StatusBar, ShownBar

LEMMA StoredSame == UNCHANGED violations => UNCHANGED StoredBar
  BY DEF StoredBar, Stored

(* The steps of the abstract specification, in terms of the mapping. *)
LEMMA CreateMapped ==
    ASSUME NEW j \in Jobs, StatusBar[j] = "NONE",
           StatusBar' = [StatusBar EXCEPT ![j] = "PENDING"],
           UNCHANGED <<StoredBar, ShownBar>>
    PROVE  Lifecycle!Next
  BY DEF StatusBar, StoredBar, ShownBar, Lifecycle!Next, Lifecycle!Create

LEMMA StartMapped ==
    ASSUME NEW j \in Jobs, StatusBar[j] # "NONE",
           StatusBar' = [StatusBar EXCEPT ![j] = "PROCESSING"],
           NEW S \in SUBSET StoredBar[j], ShownBar' = [ShownBar EXCEPT ![j] = S],
           UNCHANGED StoredBar
    PROVE  Lifecycle!Next
  BY DEF StatusBar, StoredBar, ShownBar, Lifecycle!Next, Lifecycle!Start

LEMMA StoreMapped ==
    ASSUME NEW j \in Jobs, NEW r \in Runs, StatusBar[j] \notin {"NONE", "PENDING"},
           StoredBar' = [StoredBar EXCEPT ![j] = StoredBar[j] \cup {r}],
           UNCHANGED <<StatusBar, ShownBar>>
    PROVE  Lifecycle!Next
  BY DEF StatusBar, StoredBar, ShownBar, Lifecycle!Next, Lifecycle!Store

LEMMA CompleteMapped ==
    ASSUME NEW j \in Jobs, NEW r \in Runs, StatusBar[j] \notin {"NONE", "PENDING"},
           r \in StoredBar[j],
           StatusBar' = [StatusBar EXCEPT ![j] = "DONE"],
           ShownBar' = [ShownBar EXCEPT ![j] = {r}],
           UNCHANGED StoredBar
    PROVE  Lifecycle!Next
  BY DEF StatusBar, StoredBar, ShownBar, Lifecycle!Next, Lifecycle!Complete

LEMMA FailMapped ==
    ASSUME NEW j \in Jobs, StatusBar[j] # "NONE",
           StatusBar' = [StatusBar EXCEPT ![j] = "FAILED"],
           UNCHANGED <<StoredBar, ShownBar>>
    PROVE  Lifecycle!Next
  BY DEF StatusBar, StoredBar, ShownBar, Lifecycle!Next, Lifecycle!Fail

LEMMA StutterMapped ==
    UNCHANGED <<StatusBar, StoredBar, ShownBar>> => [Lifecycle!Next]_(Lifecycle!lifecycleVars)
  BY DEF Lifecycle!lifecycleVars, StatusBar, StoredBar, ShownBar

-----------------------------------------------------------------------------
(* One insert stores the last violations of its run, or changes nothing. *)
LEMMA InsertMapped ==
    ASSUME TypeOK, NEW j \in Jobs, NEW r \in Runs,
           violations[r].inserts < NumInserts,
           violations' = [violations EXCEPT ![r] =
               [job |-> j, inserts |-> violations[r].inserts + 1]]
    PROVE  \/ UNCHANGED StoredBar
           \/ StoredBar' = [StoredBar EXCEPT ![j] = StoredBar[j] \cup {r}]
  <1>1. /\ violations'[r] = [job |-> j, inserts |-> violations[r].inserts + 1]
        /\ \A q \in Runs \ {r} : violations'[q] = violations[q]
    BY DEF TypeOK, RowsTypeOK
  <1>2. \A i \in Jobs : ~ Stored(r, i)
    BY RowsAssumption DEF Stored, TypeOK, RowsTypeOK
  <1>3. \A q \in Runs \ {r}, i \in Jobs : Stored(q, i)' <=> Stored(q, i)
    BY <1>1 DEF Stored
  <1>4. \A i \in Jobs \ {j} : ~ (Stored(r, i)')
    BY <1>1 DEF Stored
  <1>5. CASE Stored(r, j)'
    <2>1. \A i \in Jobs : StoredBar'[i] = IF i = j THEN StoredBar[i] \cup {r} ELSE StoredBar[i]
      BY <1>2, <1>3, <1>4, <1>5 DEF StoredBar
    <2>2. StoredBar' = [i \in Jobs |-> StoredBar'[i]]
      BY DEF StoredBar
    <2>3. [StoredBar EXCEPT ![j] = StoredBar[j] \cup {r}]
            = [i \in Jobs |-> IF i = j THEN StoredBar[i] \cup {r} ELSE StoredBar[i]]
      BY DEF StoredBar
    <2>4. QED
      BY <2>1, <2>2, <2>3
  <1>6. CASE ~ (Stored(r, j)')
    <2>1. \A q \in Runs, i \in Jobs : Stored(q, i)' <=> Stored(q, i)
      BY <1>2, <1>3, <1>4, <1>6
    <2>2. QED
      BY <2>1 DEF StoredBar
  <1>7. QED
    BY <1>5, <1>6

LEMMA JobWriters ==
    ASSUME NEW w \in Workers, Take(w) \/ Step(w)
    PROVE  UNCHANGED job \/ Claim(w) \/ SaveMeta(w) \/ Finalize(w) \/ MarkFailed(w)
  BY DEF Step, Take, Fetch, StoreBoard, AnalysisFails, InsertViolations, StoreBlob,
     SubmissionDone, SubmissionFailed, Count, Check, Settle, Ack

LEMMA LifecycleStep ==
    ASSUME IInv, [Next]_vars
    PROVE  [Lifecycle!Next]_(Lifecycle!lifecycleVars)
  <1>i. TypeOK /\ CreatedOnly /\ RunsOwned /\ CopiesSound /\ RowsSound
    BY DEF IInv
  <1>b. \A j \in Jobs : /\ StatusBar[j] = job[j].status
                        /\ \A r \in Runs : r \in StoredBar[j] <=> Stored(r, j)
                        /\ ShownBar[j] = {job[j].score} \ {0}
    BY DEF StatusBar, StoredBar, ShownBar
  <1>1. CASE UNCHANGED <<job, violations>>
    BY <1>1, RowsSame, StoredSame, StutterMapped
  <1>2. ASSUME NEW j \in Jobs, NEW s \in Subs, job[j].status = "NONE",
               job' = [job EXCEPT ![j] = NewJob(s)], UNCHANGED violations
        PROVE  Lifecycle!Next
    <2>1. job[j].score = 0
      BY <1>2, <1>i DEF RowsSound, RowSound
    <2>2. NewJob(s).status = "PENDING" /\ NewJob(s).score = 0
      BY DEF NewJob, NoJob
    <2>3. /\ StatusBar' = [StatusBar EXCEPT ![j] = "PENDING"]
          /\ ShownBar' = [ShownBar EXCEPT ![j] = {0} \ {0}]
      <3>1. /\ StatusBar' = [StatusBar EXCEPT ![j] = NewJob(s).status]
            /\ ShownBar' = [ShownBar EXCEPT ![j] = {NewJob(s).score} \ {0}]
        BY <1>2, <1>i, NewJobType, RowMapped
      <3>2. QED
        BY <2>2, <3>1
    <2>4. UNCHANGED ShownBar
      BY <1>b, <2>1, <2>3 DEF ShownBar
    <2>5. QED
      BY <1>2, <1>b, <2>3, <2>4, StoredSame, CreateMapped
  <1>3. ASSUME NEW w \in Workers, Take(w) \/ Step(w)
        PROVE  [Lifecycle!Next]_(Lifecycle!lifecycleVars)
    <2>d. pc[w] # "idle" => JobOf(w) \in Jobs /\ job[JobOf(w)].status # "NONE"
      BY <1>i DEF CreatedOnly, Exists
    <2>c. CopySound(w) /\ RunOwned(w) /\ copy[w] \in JobRow /\ run[w] \in RunOrNone
      BY <1>i DEF CopiesSound, RunsOwned, TypeOK, WorkerTypeOK
    <2>r. \A n \in RunOrNone : n # 0 => n \in Runs
      BY RowsAssumption DEF RunOrNone, Runs
    <2>1. ASSUME NEW row \in JobRow, row.status = "PROCESSING", row.score = copy[w].score,
                 pc[w] \in {"claim", "meta"},
                 job' = [job EXCEPT ![JobOf(w)] = row], UNCHANGED violations
          PROVE  Lifecycle!Next
      <3>1. copy[w].score # 0 => Stored(copy[w].score, JobOf(w)) /\ copy[w].score \in Runs
        BY <2>1, <2>c, <2>r DEF CopySound, Scored, Numbered, Claimed, Holding, JobRow
      <3>2. /\ StatusBar' = [StatusBar EXCEPT ![JobOf(w)] = "PROCESSING"]
            /\ ShownBar' = [ShownBar EXCEPT ![JobOf(w)] = {copy[w].score} \ {0}]
        <4>1. /\ StatusBar' = [StatusBar EXCEPT ![JobOf(w)] = row.status]
              /\ ShownBar' = [ShownBar EXCEPT ![JobOf(w)] = {row.score} \ {0}]
          BY <1>i, <2>1, <2>d, RowMapped
        <4>2. QED
          BY <2>1, <4>1
      <3>3. {copy[w].score} \ {0} \in SUBSET StoredBar[JobOf(w)]
        BY <1>b, <2>1, <2>d, <3>1
      <3>4. QED
        BY <1>b, <2>1, <2>d, <3>2, <3>3, StoredSame, StartMapped
    <2>2. CASE Claim(w) /\ ~ UNCHANGED job
      <3> DEFINE row == [copy[w] EXCEPT !.status = "PROCESSING"]
      <3>1. /\ pc[w] = "claim" /\ job' = [job EXCEPT ![JobOf(w)] = row]
            /\ UNCHANGED violations
        BY <2>2 DEF Claim, Goto, Save
      <3>2. row \in JobRow /\ row.status = "PROCESSING" /\ row.score = copy[w].score
        BY <2>c DEF JobRow, JobStatus
      <3> HIDE DEF row
      <3>3. QED
        BY <2>1, <3>1, <3>2
    <2>3. CASE SaveMeta(w) /\ ~ UNCHANGED job
      <3>1. /\ pc[w] = "meta" /\ job' = [job EXCEPT ![JobOf(w)] = copy[w]]
            /\ UNCHANGED violations
        BY <2>3 DEF SaveMeta, Goto
      <3>2. copy[w].status = "PROCESSING"
        BY <2>c, <3>1 DEF CopySound, Claimed, Holding
      <3>3. QED
        BY <2>1, <2>c, <3>1, <3>2
    <2>4. CASE Finalize(w) /\ ~ UNCHANGED job
      <3> DEFINE row == [copy[w] EXCEPT !.status = "DONE"]
      <3>1. /\ pc[w] = "finalize" /\ job' = [job EXCEPT ![JobOf(w)] = row]
            /\ UNCHANGED violations
        BY <2>4 DEF Finalize, Goto, Save
      <3>2. row \in JobRow /\ row.status = "DONE" /\ row.score = copy[w].score
        BY <2>c DEF JobRow, JobStatus
      <3> HIDE DEF row
      <3>3. /\ copy[w].score = run[w] /\ run[w] \in Runs
            /\ Stored(run[w], JobOf(w)) /\ job[JobOf(w)].status # "PENDING"
        BY <2>c, <2>r, <3>1 DEF CopySound, RunOwned, Scored, Numbered, Claimed, Holding
      <3>4. /\ StatusBar' = [StatusBar EXCEPT ![JobOf(w)] = "DONE"]
            /\ ShownBar' = [ShownBar EXCEPT ![JobOf(w)] = {run[w]} \ {0}]
        <4>1. /\ StatusBar' = [StatusBar EXCEPT ![JobOf(w)] = row.status]
              /\ ShownBar' = [ShownBar EXCEPT ![JobOf(w)] = {row.score} \ {0}]
          BY <1>i, <2>d, <3>1, <3>2, RowMapped
        <4>2. QED
          BY <3>2, <3>3, <4>1
      <3>5. {run[w]} \ {0} = {run[w]}
        BY <3>3, RowsAssumption DEF Runs
      <3>6. QED
        BY <1>b, <2>d, <3>1, <3>3, <3>4, <3>5, StoredSame, CompleteMapped
    <2>5. CASE MarkFailed(w) /\ ~ UNCHANGED job
      <3> DEFINE row == [job[JobOf(w)] EXCEPT !.status = "FAILED"]
      <3>1. /\ JobOf(w) \in Jobs /\ job' = [job EXCEPT ![JobOf(w)] = row]
            /\ UNCHANGED violations /\ job[JobOf(w)].status # "NONE"
        BY <2>5, <2>d DEF MarkFailed, Goto
      <3>2. row \in JobRow /\ row.status = "FAILED" /\ row.score = job[JobOf(w)].score
        BY <1>i, <3>1 DEF TypeOK, RowsTypeOK, JobRow, JobStatus
      <3> HIDE DEF row
      <3>3. /\ StatusBar' = [StatusBar EXCEPT ![JobOf(w)] = "FAILED"]
            /\ ShownBar' = [ShownBar EXCEPT ![JobOf(w)] = {job[JobOf(w)].score} \ {0}]
        <4>1. /\ StatusBar' = [StatusBar EXCEPT ![JobOf(w)] = row.status]
              /\ ShownBar' = [ShownBar EXCEPT ![JobOf(w)] = {row.score} \ {0}]
          BY <1>i, <3>1, <3>2, RowMapped
        <4>2. QED
          BY <3>2, <4>1
      <3>4. UNCHANGED ShownBar
        BY <1>b, <3>1, <3>3 DEF ShownBar
      <3>5. QED
        BY <1>b, <3>1, <3>3, <3>4, StoredSame, FailMapped
    <2>6. CASE ~ UNCHANGED violations
      <3>1. /\ pc[w] = "insert" /\ JobOf(w) \in Jobs /\ run[w] \in Runs
            /\ violations[run[w]].inserts < NumInserts
            /\ violations' = [violations EXCEPT ![run[w]] =
                 [job |-> JobOf(w), inserts |-> violations[run[w]].inserts + 1]]
        BY <1>3, <1>i, <2>6, ViolationWrites
      <3>2. UNCHANGED job
        BY <1>3, <2>6, <3>1 DEF Goto, Step, Take, Fetch, Claim, StoreBoard, AnalysisFails, SaveMeta,
           InsertViolations, StoreBlob, Finalize, SubmissionDone, MarkFailed,
           SubmissionFailed, Count, Check, Settle, Ack
      <3>3. job[JobOf(w)].status # "PENDING"
        BY <2>c, <3>1 DEF CopySound, Claimed, Holding
      <3>4. UNCHANGED <<StatusBar, ShownBar>>
        BY <3>2, RowsSame
      <3>5. CASE UNCHANGED StoredBar
        BY <3>4, <3>5, StutterMapped
      <3>6. CASE StoredBar' = [StoredBar EXCEPT ![JobOf(w)] = StoredBar[JobOf(w)] \cup {run[w]}]
        BY <1>b, <2>d, <3>1, <3>3, <3>4, <3>6, StoreMapped
      <3>7. QED
        BY <1>i, <3>1, <3>5, <3>6, InsertMapped
    <2>7. CASE ~ UNCHANGED job
      <3>1. Claim(w) \/ SaveMeta(w) \/ Finalize(w) \/ MarkFailed(w)
        BY <1>3, <2>7, JobWriters
      <3>2. QED
        BY <2>2, <2>3, <2>4, <2>5, <2>7, <3>1
    <2>8. QED
      BY <1>1, <2>6, <2>7
  <1>4. QED
    BY <1>1, <1>2, <1>3, OtherSteps

(* Whatever faults and interleavings, what the API and the worker do to a job
   is a behaviour of its life cycle: created once, DONE only through a run
   whose violations are all stored, never PENDING again. *)
THEOREM Refinement == Spec => ImplementsLifecycle
  <1>1. Init => Lifecycle!Init
    BY LifecycleInit
  <1>2. IInv /\ [Next]_vars => [Lifecycle!Next]_(Lifecycle!lifecycleVars)
    BY LifecycleStep
  <1>3. QED
    BY <1>1, <1>2, Invariance, PTL DEF Spec, Lifecycle!Spec, ImplementsLifecycle

=============================================================================
