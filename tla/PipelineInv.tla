----------------------------- MODULE PipelineInv -----------------------------
(***************************************************************************)
(* The inductive invariant of Pipeline.  TLC checks it on small instances, *)
(* PipelineProofs proves it.                                               *)
(***************************************************************************)
EXTENDS Pipeline

Holding == {"claim", "board", "meta", "insert", "finalize"}
Claimed == Holding \ {"claim"}
Numbered == Claimed \ {"board"}
Scored == Numbered \ {"meta"}

(* Goroutines and handlers in the middle of a job have a job, and every id
   in flight names a row that exists. *)
Exists(j) == j \in Jobs /\ job[j].status # "NONE"

CreatedOnly ==
    /\ \A m \in DOMAIN queue : Exists(queue[m].job)
    /\ \A d \in out : Exists(d.job)
    /\ \A i \in DOMAIN channel : Exists(channel[i].job)
    /\ \A j \in stuck : Exists(j)
    /\ \A w \in Workers : pc[w] # "idle" =>
           delivery[w] \in Delivery /\ Exists(JobOf(w))
    /\ \A h \in Requests : request[h].pc \in {"mark", "send"} => Exists(request[h].job)

(* Run numbers are unique, and a run's violations are all under its job. *)
RunOwned(w) ==
    /\ run[w] <= runs
    /\ pc[w] \in Numbered => run[w] # 0
    /\ pc[w] = "meta" => violations[run[w]].inserts = 0
    /\ pc[w] = "insert" /\ violations[run[w]].inserts # 0 =>
           violations[run[w]].job = JobOf(w)
    /\ pc[w] = "finalize" => Stored(run[w], JobOf(w))

RunsOwned ==
    /\ \A w \in Workers : RunOwned(w)
    /\ \A v, w \in Workers : v # w /\ run[w] # 0 => run[v] # run[w]
    /\ \A r \in Runs : r > runs => violations[r].inserts = 0

(* What a stale private copy may still say. *)
CopySound(w) ==
    /\ pc[w] \in Claimed =>
           /\ copy[w].status = "PROCESSING"
           /\ job[JobOf(w)].status # "PENDING"
    /\ pc[w] \in Holding => (copy[w].violKey => s3[JobOf(w)].viol # 0)
    /\ pc[w] \in Numbered => copy[w].boardKey /\ s3[JobOf(w)].board # 0
    /\ pc[w] \in Holding \ Scored =>
           (copy[w].score # 0 => Stored(copy[w].score, JobOf(w)))
    /\ pc[w] \in Scored => copy[w].score = run[w]

CopiesSound == \A w \in Workers : CopySound(w)

(* What a row says is backed by violations and objects, whatever its status. *)
RowSound(j) ==
    /\ job[j].status = "NONE" => job[j].score = 0
    /\ job[j].score # 0 => Stored(job[j].score, j)
    /\ job[j].violKey => s3[j].viol # 0
    /\ job[j].status = "DONE" => job[j].boardKey /\ s3[j].board # 0 /\ job[j].score # 0

RowsSound == \A j \in Jobs : RowSound(j)

IInv ==
    /\ TypeOK
    /\ CreatedOnly
    /\ RunsOwned
    /\ CopiesSound
    /\ RowsSound
    /\ BlobIdsExist

=============================================================================
