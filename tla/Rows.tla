-------------------------------- MODULE Rows --------------------------------
(***************************************************************************)
(* The state that the API and the worker share: the rows of the Postgres   *)
(* tables AnalysisJob, Submission, Batch, Violation and UsageEvent, and    *)
(* the two S3 objects of a job, results/<job>/board.json and               *)
(* results/<job>/violations.json.                                          *)
(*                                                                         *)
(* Payloads are replaced by the run that produced them.  Every execution   *)
(* of ProcessJob that gets as far as storing a board is a "run"; a score,  *)
(* a board object or a violations object is the number of its run, 0 when  *)
(* nothing was ever stored.                                                *)
(***************************************************************************)
EXTENDS Integers, FiniteSets

CONSTANTS
    Jobs,        \* ids of AnalysisJob rows (fresh uuids)
    Subs,        \* ids of Submission rows
    Batches,     \* ids of Batch rows
    BatchOf,     \* Submission.BatchID: a batch, or None when nil
    None,        \* no row, no delivery
    MaxRuns,     \* bound: runs that get as far as storing a board
    NumInserts,  \* bulk inserts (2000 violations each) a run needs
    MaxFaults,   \* bound: infrastructure faults in one behaviour
    FaultKinds   \* the kinds of fault this instance admits

ASSUME RowsAssumption ==
    /\ BatchOf \in [Subs -> Batches \cup {None}]
    /\ None \notin Jobs \cup Subs \cup Batches
    /\ MaxRuns \in Nat
    /\ NumInserts \in Nat \ {0}
    /\ MaxFaults \in Nat
    /\ IsFiniteSet(Subs)

VARIABLES
    job,       \* AnalysisJob rows, status NONE while the row does not exist
    sub,       \* Submission.Status
    batch,     \* Batch rows
    violations, \* violations[r]: the Violation rows of run r, in bulk inserts
    s3,        \* s3[j]: the runs whose board and violations objects are stored
    billed,    \* jobs that have a UsageEvent
    faults     \* faults so far

rowVars == <<job, sub, batch, violations, s3, billed>>

Runs == 1 .. MaxRuns
RunOrNone == 0 .. MaxRuns

JobStatus == {"NONE", "PENDING", "PROCESSING", "DONE", "FAILED"}
SubStatus == {"UPLOADED", "ANALYZING", "DONE", "FAILED"}
BatchStatus == {"PENDING", "PROCESSING", "DONE", "PARTIAL_FAIL"}

(* boardKey: BoardDataKey and BoardOutline are set; violKey: ViolationsKey is
   set; score: MfgScore and MfgGrade come from this run. *)
JobRow == [sub : Subs \cup {None}, status : JobStatus,
           boardKey : BOOLEAN, violKey : BOOLEAN, score : RunOrNone]

BatchRow == [status : BatchStatus, total : Nat, completed : Int, failed : Int]

NoJob == [sub |-> None, status |-> "NONE",
          boardKey |-> FALSE, violKey |-> FALSE, score |-> 0]

NewJob(s) == [NoJob EXCEPT !.sub = s, !.status = "PENDING"]

Members(b) == {s \in Subs : BatchOf[s] = b}

RowsTypeOK ==
    /\ job \in [Jobs -> JobRow]
    /\ sub \in [Subs -> SubStatus]
    /\ batch \in [Batches -> BatchRow]
    /\ violations \in [Runs -> [job : Jobs \cup {None}, inserts : 0 .. NumInserts]]
    /\ s3 \in [Jobs -> [board : RunOrNone, viol : RunOrNone]]
    /\ billed \in SUBSET Jobs
    /\ faults \in 0 .. MaxFaults

(* CreateSubmission and CreateBatch have run: the files are UPLOADED and the
   batch counts its members in total. *)
RowsInit ==
    /\ job = [j \in Jobs |-> NoJob]
    /\ sub = [s \in Subs |-> "UPLOADED"]
    /\ batch = [b \in Batches |->
                  [status |-> "PENDING", total |-> Cardinality(Members(b)),
                   completed |-> 0, failed |-> 0]]
    /\ violations = [r \in Runs |-> [job |-> None, inserts |-> 0]]
    /\ s3 = [j \in Jobs |-> [board |-> 0, viol |-> 0]]
    /\ billed = {}
    /\ faults = 0

(* All violations of run r are stored, under job j. *)
Stored(r, j) == violations[r] = [job |-> j, inserts |-> NumInserts]

(* One admitted fault happens in this step. *)
Fault(kind) ==
    /\ kind \in FaultKinds
    /\ faults < MaxFaults
    /\ faults' = faults + 1

NoFault == UNCHANGED faults

=============================================================================
