-------------------------------- MODULE Poller --------------------------------
(***************************************************************************)
(* The worker process around its goroutine pool (poller.go): sqsPollLoop   *)
(* receives messages and feeds the buffered channel, doRecovery re-enqueues*)
(* jobs that have been PENDING for too long.                               *)
(***************************************************************************)
EXTENDS Queue

CONSTANTS
    MaxReceive,  \* MaxNumberOfMessages of ReceiveMessage (10)
    ChanCap,     \* capacity of the jobs channel (2 * workerPoolSize)
    MaxCopies    \* bound: outstanding messages of one job beyond which the
                 \* model does not sweep it again

ASSUME PollerAssumption ==
    /\ MaxReceive \in Nat \ {0}
    /\ ChanCap \in Nat \ {0}
    /\ MaxCopies \in Nat \ {0}

VARIABLES
    out,      \* out.Messages still to be dispatched by sqsPollLoop
    channel,  \* the jobs channel
    stuck,    \* rows doRecovery has read and not yet re-enqueued
    old       \* jobs created more than five minutes ago

pollerVars == <<out, channel, stuck, old>>

PollerTypeOK ==
    /\ out \in SUBSET Delivery
    /\ channel \in Seq(Delivery)
    /\ stuck \in SUBSET Jobs
    /\ old \in SUBSET Jobs

PollerInit ==
    /\ out = {}
    /\ channel = << >>
    /\ stuck = {}
    /\ old = {}

-----------------------------------------------------------------------------

(* sqsPollLoop asks SQS for messages only once the last batch is dispatched. *)
Receive ==
    /\ out = {}
    /\ \E M \in SUBSET Visible :
        /\ M # {}
        /\ Cardinality(M) <= MaxReceive
        /\ ReceiveMessage(M)
        /\ out' = {DeliveryOf(m) : m \in M}
    /\ UNCHANGED <<rowVars, faults, channel, stuck, old>>

(* jobs <- j blocks while the channel is full. *)
Dispatch ==
    /\ Len(channel) < ChanCap
    /\ \E d \in out :
        /\ out' = out \ {d}
        /\ channel' = Append(channel, d)
    /\ UNCHANGED <<rowVars, faults, queue, stuck, old>>

(* PENDING jobs older than five minutes, whether or not their messages are
   still outstanding. *)
FailedJobs == {j \in old : job[j].status = "FAILED"}               \* mutant
StuckJobs == {j \in old : /\ job[j].status = "PENDING"
                          /\ Cardinality(Outstanding(j)) < MaxCopies}

SweepRead ==
    /\ stuck = {}
    /\ stuck' = StuckJobs
    /\ UNCHANGED <<rowVars, faults, queue, out, channel, old>>

(* One SendMessage of doRecovery; a failure is logged and the loop goes on. *)
SweepSend ==
    \E j \in stuck :
        /\ stuck' = stuck \ {j}
        /\ \/ SendMessage(j) /\ NoFault
           \/ Fault("send") /\ UNCHANGED queue
        /\ UNCHANGED <<rowVars, out, channel, old>>

=============================================================================
