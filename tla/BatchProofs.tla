------------------------------ MODULE BatchProofs ------------------------------
(***************************************************************************)
(* BatchInv is inductive for an undisturbed service whose requests keep    *)
(* apart, and so the counters of a batch are exact.                        *)
(***************************************************************************)
EXTENDS BatchInv, PipelineProofs

USE DEF vars, rowVars, pollerVars, workerVars, locals, NoFault

-----------------------------------------------------------------------------
(* What the state says *)

LEMMA Types ==
    ASSUME IInv
    PROVE  /\ job \in [Jobs -> JobRow] /\ sub \in [Subs -> SubStatus]
           /\ batch \in [Batches -> BatchRow]
           /\ pc \in [Workers -> Steps] /\ delivery \in [Workers -> Delivery \cup {None}]
           /\ copy \in [Workers -> JobRow]
           /\ request \in [Requests -> Request]
           /\ QueueTypeOK /\ out \subseteq Delivery /\ channel \in Seq(Delivery)
           /\ CreatedOnly /\ CopiesSound
  BY DEF IInv, TypeOK, RowsTypeOK, WorkerTypeOK, ApiTypeOK, PollerTypeOK

(* The faults that Undisturbed leaves out. *)
LEMMA NoSuchFault ==
    ASSUME Undisturbed,
           NEW k \in {"swallowed", "ack", "expire", "crash", "apiCrash", "backlog"}
    PROVE  ~ Fault(k)
  BY DEF Undisturbed, Fault

(* The message of a goroutine is the only one of its job, no handler is about to
   send another, and no other goroutine works on it. *)
LEMMA OneMessage ==
    ASSUME IInv, SentOnce, AllHanded, HeldOnce, NEW w \in Workers, pc[w] # "idle"
    PROVE  /\ JobOf(w) \in Jobs /\ job[JobOf(w)].status # "NONE"
           /\ delivery[w].msg \in DOMAIN queue /\ queue[delivery[w].msg].state = "inflight"
           /\ queue[delivery[w].msg].job = JobOf(w)
           /\ queue[delivery[w].msg].receipt = delivery[w].receipt
           /\ \A m \in DOMAIN queue : queue[m].job = JobOf(w) => m = delivery[w].msg
           /\ \A v \in Workers : pc[v] # "idle" /\ JobOf(v) = JobOf(w) => v = w
           /\ \A h \in Requests : request[h].pc \in {"mark", "send"} =>
                request[h].job # JobOf(w)
  <1>1. Handed(delivery[w]) /\ JobOf(w) = delivery[w].job
    BY DEF AllHanded, Busy, JobOf
  <1>2. /\ delivery[w].msg \in DOMAIN queue /\ queue[delivery[w].msg].state = "inflight"
        /\ queue[delivery[w].msg].job = JobOf(w)
        /\ queue[delivery[w].msg].receipt = delivery[w].receipt
    BY <1>1 DEF Handed
  <1>3. \A m \in DOMAIN queue : queue[m].job = JobOf(w) => m = delivery[w].msg
    BY <1>2 DEF SentOnce
  <1>4. ASSUME NEW v \in Workers, pc[v] # "idle", JobOf(v) = JobOf(w)
        PROVE  v = w
    <2>1. Handed(delivery[v]) /\ JobOf(v) = delivery[v].job
      BY <1>4 DEF AllHanded, Busy, JobOf
    <2>2. delivery[v].msg = delivery[w].msg
      BY <1>3, <1>4, <2>1 DEF Handed
    <2>3. QED
      BY <1>4, <2>2 DEF HeldOnce, Busy
  <1>5. \A h \in Requests : request[h].pc \in {"mark", "send"} => request[h].job # JobOf(w)
    BY <1>2 DEF SentOnce, Unsent
  <1>6. JobOf(w) \in Jobs /\ job[JobOf(w)].status # "NONE"
    BY DEF IInv, CreatedOnly, Exists
  <1>7. QED
    BY <1>2, <1>3, <1>4, <1>5, <1>6

(* Until its goroutine has updated the submission, a job is live and the submission
   ANALYZING. *)
LEMMA WorkedOn ==
    ASSUME IInv, Submitted, SentOnce, AllHanded, HeldOnce, LiveOnce,
           NEW w \in Workers, pc[w] # "idle", pc[w] \notin Counting
    PROVE  Live(JobOf(w)) /\ Parent(w) \in Subs /\ sub[Parent(w)] = "ANALYZING"
  <1>1. Live(JobOf(w)) /\ JobOf(w) \in Jobs
    BY OneMessage DEF Live, Over, Counting
  <1>2. ~ Starting(JobOf(w))
    BY OneMessage DEF Starting
  <1>3. QED
    BY <1>1, <1>2 DEF LiveOnce, Parent, Submitted, Live

(* Where the message numbers of Held come from. *)
LEMMA HeldIs ==
    \A m : m \in Held <=> \/ \E d \in out : m = d.msg
                          \/ \E i \in DOMAIN channel : m = channel[i].msg
                          \/ \E w \in Busy : m = delivery[w].msg
  BY DEF Held, Busy

LEMMA HeldWas ==
    \A m : m \in Held' <=> \/ \E d \in out' : m = d.msg
                           \/ \E i \in DOMAIN channel' : m = channel'[i].msg
                           \/ \E w \in Busy' : m = delivery'[w].msg
  BY DEF Held, Busy

Balances == \A b \in Batches : Balanced(b)

(* What a part of the invariant depends on. *)
LEMMA Kept ==
    /\ Submitted /\ UNCHANGED <<job, pc, copy, delivery>> => Submitted'
    /\ SentOnce /\ UNCHANGED <<queue, stuck, old, job, request>> => SentOnce'
    /\ AllHanded /\ UNCHANGED <<queue, out, channel, pc, delivery>> => AllHanded'
    /\ HeldOnce /\ UNCHANGED <<out, channel, pc, delivery>> => HeldOnce'
    /\ DeletedLast /\ UNCHANGED <<queue, job, pc, delivery>> => DeletedLast'
    /\ LiveOnce /\ UNCHANGED <<queue, job, pc, delivery, request, sub>> => LiveOnce'
    /\ RequestsSound /\ UNCHANGED <<request, job, sub>> => RequestsSound'
    /\ Balances /\ UNCHANGED <<batch, pc, delivery, job, request, sub>> => Balances'
  <1>1. Submitted /\ UNCHANGED <<job, pc, copy, delivery>> => Submitted'
    BY DEF Submitted, Parent, JobOf
  <1>2. SentOnce /\ UNCHANGED <<queue, stuck, old, job, request>> => SentOnce'
    BY DEF SentOnce, Unsent, Exists
  <1>3. AllHanded /\ UNCHANGED <<queue, out, channel, pc, delivery>> => AllHanded'
    BY DEF AllHanded, Handed, Busy, Held, Inflight
  <1>4. HeldOnce /\ UNCHANGED <<out, channel, pc, delivery>> => HeldOnce'
    BY DEF HeldOnce, Busy
  <1>5. DeletedLast /\ UNCHANGED <<queue, job, pc, delivery>> => DeletedLast'
    BY DEF DeletedLast, Ended, JobOf
  <1>6. LiveOnce /\ UNCHANGED <<queue, job, pc, delivery, request, sub>> => LiveOnce'
    BY DEF LiveOnce, Live, Over, Starting, JobOf
  <1>7. RequestsSound /\ UNCHANGED <<request, job, sub>> => RequestsSound'
    BY DEF RequestsSound, RequestSound, Working
  <1>8. Balances /\ UNCHANGED <<batch, pc, delivery, job, request, sub>> => Balances'
    <2> SUFFICES ASSUME Balances, UNCHANGED <<batch, pc, delivery, job, request, sub>>
                 PROVE  Balances'
      OBVIOUS
    <2>1. \A b, x : At(b, x)' = At(b, x) /\ MembersIn(b, x)' = MembersIn(b, x)
      BY DEF At, MembersIn, BatchOfJob, Parent, JobOf
    <2>2. \A b : Taken(b)' = Taken(b)
      BY DEF Taken, Working
    <2>3. QED
      BY <2>1, <2>2 DEF Balances, Balanced
  <1>9. QED
    BY <1>1, <1>2, <1>3, <1>4, <1>5, <1>6, <1>7, <1>8

LEMMA Parts ==
    /\ BatchInv <=> /\ Submitted /\ SentOnce /\ AllHanded /\ HeldOnce /\ DeletedLast
                    /\ LiveOnce /\ RequestsSound /\ Balances
    /\ BatchInv' <=> /\ Submitted' /\ SentOnce' /\ AllHanded' /\ HeldOnce' /\ DeletedLast'
                     /\ LiveOnce' /\ RequestsSound' /\ Balances'
  BY DEF BatchInv, Balances

-----------------------------------------------------------------------------
(* What the operations of the queue do to its messages *)

Sent(j) ==
    \E n : /\ n \notin DOMAIN queue
           /\ DOMAIN queue' = DOMAIN queue \cup {n}
           /\ \A m \in DOMAIN queue : queue'[m] = queue[m]
           /\ queue'[n].job = j /\ queue'[n].state = "visible"

Moved(S) ==
    /\ DOMAIN queue' = DOMAIN queue
    /\ \A m \in DOMAIN queue : queue'[m].job = queue[m].job
    /\ \A m \in DOMAIN queue \ S : queue'[m] = queue[m]

LEMMA SendShape ==
    ASSUME QueueTypeOK, NEW j, SendMessage(j)
    PROVE  Sent(j)
  <1>1. queue \in Seq(Message)
    BY DEF QueueTypeOK
  <1>2. /\ DOMAIN queue' = 1 .. Len(queue) + 1
        /\ \A m \in 1 .. Len(queue) : queue'[m] = queue[m]
        /\ queue'[Len(queue) + 1] = [job |-> j, state |-> "visible", receipt |-> 0]
        /\ DOMAIN queue = 1 .. Len(queue) /\ Len(queue) \in Nat
    BY <1>1, LenProperties DEF SendMessage
  <1>3. DOMAIN queue' = DOMAIN queue \cup {Len(queue) + 1}
    BY <1>2
  <1>4. QED
    BY <1>2, <1>3 DEF Sent

LEMMA Messages == ASSUME QueueTypeOK PROVE \A k \in DOMAIN queue : queue[k] \in Message
  BY LenProperties, ElementOfSeq DEF QueueTypeOK

LEMMA ReceiveShape ==
    ASSUME QueueTypeOK, NEW M \in SUBSET Visible, ReceiveMessage(M)
    PROVE  /\ Moved(M)
           /\ \A m \in M : /\ m \in DOMAIN queue /\ queue'[m].state = "inflight"
                           /\ DeliveryOf(m).msg = m
                           /\ DeliveryOf(m).job = queue[m].job
                           /\ DeliveryOf(m).receipt = queue'[m].receipt
  <1>1. \A k \in DOMAIN queue : queue[k] \in Message
    BY Messages
  <1>2. M \subseteq DOMAIN queue
    BY DEF Visible
  <1>3. \A k \in M : /\ queue'[k].job = queue[k].job
                     /\ queue'[k].state = "inflight"
                     /\ queue'[k].receipt = queue[k].receipt + 1
    BY <1>1, <1>2 DEF ReceiveMessage, Message
  <1>4. DOMAIN queue' = DOMAIN queue /\ \A k \in DOMAIN queue \ M : queue'[k] = queue[k]
    BY DEF ReceiveMessage
  <1>5. QED
    BY <1>2, <1>3, <1>4 DEF Moved, DeliveryOf

LEMMA DeleteShape ==
    ASSUME QueueTypeOK, NEW d, d.msg \in DOMAIN queue, DeleteMessage(d)
    PROVE  Moved({d.msg}) /\ queue'[d.msg].state = "deleted"
  <1>1. \A k \in DOMAIN queue : queue[k] \in Message
    BY Messages
  <1>2. /\ queue'[d.msg].job = queue[d.msg].job
        /\ queue'[d.msg].state = "deleted"
    BY <1>1 DEF DeleteMessage, Message
  <1>3. DOMAIN queue' = DOMAIN queue /\ \A k \in DOMAIN queue \ {d.msg} : queue'[k] = queue[k]
    BY DEF DeleteMessage
  <1>4. QED
    BY <1>2, <1>3 DEF Moved

HandedNext(d) ==
    /\ d.msg \in DOMAIN queue'
    /\ queue'[d.msg].state = "inflight"
    /\ queue'[d.msg].job = d.job
    /\ queue'[d.msg].receipt = d.receipt

LEMMA AllHandedNext ==
    AllHanded' <=> /\ \A d \in out' : HandedNext(d)
                   /\ \A i \in DOMAIN channel' : HandedNext(channel'[i])
                   /\ \A w \in Busy' : HandedNext(delivery'[w])
                   /\ Inflight' \subseteq Held'
  BY DEF AllHanded, Handed, HandedNext

LEMMA HandedKept ==
    ASSUME NEW d, Handed(d),
           UNCHANGED queue \/ (\E j : Sent(j)) \/ (\E S : Moved(S) /\ d.msg \notin S)
    PROVE  HandedNext(d)
  BY DEF Handed, HandedNext, Sent, Moved

(* A job is over before a step when it is after, as long as no goroutine counts and
   no message is deleted. *)
LEMMA OverKept ==
    ASSUME UNCHANGED <<pc, delivery>>,
           \/ UNCHANGED queue
           \/ \E j : Sent(j)
           \/ \E S \in SUBSET Visible : Moved(S) /\ \A m \in S : queue'[m].state = "inflight"
    PROVE  \A j : Over(j)' <=> Over(j)
  <1>1. \A j : (\E m \in DOMAIN queue : queue[m].job = j /\ queue[m].state = "deleted")
               <=> (\E m \in DOMAIN queue' : queue'[m].job = j /\ queue'[m].state = "deleted")
    <2>1. CASE UNCHANGED queue
      BY <2>1
    <2>2. CASE \E j : Sent(j)
      BY <2>2 DEF Sent
    <2>3. CASE \E S \in SUBSET Visible : Moved(S) /\ \A m \in S : queue'[m].state = "inflight"
      BY <2>3 DEF Moved, Visible
    <2>4. QED
      BY <2>1, <2>2, <2>3
  <1>2. QED
    BY <1>1 DEF Over, JobOf

(* What goes with Over. *)
LEMMA LiveKept ==
    ASSUME LiveOnce, \A j : Over(j)' <=> Over(j), UNCHANGED <<job, request, sub>>
    PROVE  LiveOnce'
  BY DEF LiveOnce, Live, Starting

-----------------------------------------------------------------------------
(* The poll loop and the sweep *)

LEMMA ReceiveStep ==
    ASSUME IInv, BatchInv, Receive, UNCHANGED <<workerVars, request>>
    PROVE  BatchInv'
  <1>p. /\ Submitted /\ SentOnce /\ AllHanded /\ HeldOnce /\ DeletedLast
        /\ LiveOnce /\ RequestsSound /\ Balances
    BY Parts
  <1>u. UNCHANGED <<job, sub, batch, pc, copy, delivery, request, channel, stuck, old>>
        /\ out = {}
    BY DEF Receive
  <1>1. PICK M \in SUBSET Visible : ReceiveMessage(M) /\ out' = {DeliveryOf(m) : m \in M}
    BY DEF Receive
  <1>2. /\ Moved(M)
        /\ \A m \in M : /\ m \in DOMAIN queue /\ queue'[m].state = "inflight"
                        /\ DeliveryOf(m).msg = m
                        /\ DeliveryOf(m).job = queue[m].job
                        /\ DeliveryOf(m).receipt = queue'[m].receipt
    BY <1>1, Types, ReceiveShape
  <1>3. \A d \in out' : /\ d.msg \in M /\ HandedNext(d) /\ d = DeliveryOf(d.msg)
    BY <1>1, <1>2 DEF HandedNext, Moved
  <1>4. SentOnce'
    BY <1>p, <1>u, <1>2 DEF SentOnce, Unsent, Exists, Moved
  <1>5. \A d : Handed(d) => HandedNext(d) /\ d.msg \notin M
    <2>1. \A d : Handed(d) => d.msg \notin M
      BY DEF Handed, Visible
    <2>2. QED
      BY <2>1, <1>2, HandedKept
  <1>6. Inflight' \subseteq Held'
    <2>1. \A m \in Inflight' : m \in Inflight \/ m \in M
      BY <1>2 DEF Inflight, Moved
    <2>2. \A m \in M : m \in Held'
      BY <1>1, <1>2, HeldWas
    <2>3. \A m \in Inflight : m \in Held'
      BY <1>p, <1>u, HeldIs, HeldWas DEF AllHanded, Busy
    <2>4. QED
      BY <2>1, <2>2, <2>3
  <1>7. AllHanded'
    BY <1>p, <1>u, <1>3, <1>5, <1>6, AllHandedNext DEF AllHanded, Busy
  <1>8. HeldOnce'
    <2>1. /\ \A i \in DOMAIN channel : channel[i].msg \notin M
          /\ \A w \in Busy : delivery[w].msg \notin M
      BY <1>p, <1>5 DEF AllHanded
    <2>2. QED
      BY <1>p, <1>u, <1>3, <2>1 DEF HeldOnce, Busy
  <1>9. DeletedLast'
    BY <1>p, <1>u, <1>2 DEF DeletedLast, Moved, JobOf, Ended
  <1>10. LiveOnce'
    BY <1>p, <1>u, <1>2, OverKept, LiveKept
  <1>11. QED
    BY <1>p, <1>u, <1>4, <1>7, <1>8, <1>9, <1>10, Kept, Parts

LEMMA DispatchStep ==
    ASSUME IInv, BatchInv, Dispatch, UNCHANGED <<workerVars, request>>
    PROVE  BatchInv'
  <1>p. /\ Submitted /\ SentOnce /\ AllHanded /\ HeldOnce /\ DeletedLast
        /\ LiveOnce /\ RequestsSound /\ Balances
    BY Parts
  <1>u. UNCHANGED <<job, sub, batch, queue, pc, copy, delivery, request, stuck, old>>
    BY DEF Dispatch
  <1>1. PICK d \in out : out' = out \ {d} /\ channel' = Append(channel, d)
    BY DEF Dispatch
  <1>2. channel \in Seq(Delivery) /\ d \in Delivery
    BY Types
  <1>3. DOMAIN channel = 1 .. Len(channel) /\ Len(channel) \in Nat
    BY <1>2, LenProperties
  <1>4. /\ DOMAIN channel' = DOMAIN channel \cup {Len(channel) + 1}
        /\ Len(channel) + 1 \notin DOMAIN channel
        /\ \A i \in DOMAIN channel : channel'[i] = channel[i]
        /\ channel'[Len(channel) + 1] = d
    <2>1. /\ channel' \in Seq(Delivery) /\ Len(channel') = Len(channel) + 1
          /\ \A i \in 1 .. Len(channel) : channel'[i] = channel[i]
          /\ channel'[Len(channel) + 1] = d
      BY <1>1, <1>2, AppendProperties
    <2>2. DOMAIN channel' = 1 .. Len(channel) + 1
      BY <2>1, LenProperties
    <2>3. QED
      BY <1>3, <2>1, <2>2
  <1>5. \A e : Handed(e) => HandedNext(e)
    BY <1>u, HandedKept
  <1>6. Inflight' \subseteq Held'
    <2>1. \A m : m \in Held => m \in Held'
      <3>1. \A e \in out : e \in out' \/ e = d
        BY <1>1
      <3>2. QED
        BY <1>u, <1>4, <3>1, HeldIs, HeldWas DEF Busy
    <2>2. QED
      BY <1>p, <1>u, <2>1 DEF AllHanded, Inflight
  <1>7. AllHanded'
    BY <1>p, <1>u, <1>1, <1>4, <1>5, <1>6, AllHandedNext DEF AllHanded, Busy
  <1>8. HeldOnce'
    BY <1>p, <1>u, <1>1, <1>4 DEF HeldOnce, Busy
  <1>9. QED
    BY <1>p, <1>u, <1>7, <1>8, Kept, Parts

LEMMA SweepReadStep ==
    ASSUME IInv, Undisturbed, BatchInv, SweepRead, UNCHANGED <<workerVars, request>>
    PROVE  BatchInv'
  <1>p. /\ Submitted /\ SentOnce /\ AllHanded /\ HeldOnce /\ DeletedLast
        /\ LiveOnce /\ RequestsSound /\ Balances
    BY Parts
  <1>u. UNCHANGED <<job, sub, batch, queue, pc, copy, delivery, request, out, channel, old>>
    BY DEF SweepRead
  <1>1. ASSUME NEW j \in stuck'
        PROVE  j \in old /\ Unsent(j)
    <2>1. /\ j \in old /\ job[j].status = "PENDING"
          /\ Cardinality(Outstanding(j)) < 1
      BY <1>1 DEF SweepRead, StuckJobs, Undisturbed
    <2>2. Outstanding(j) = {}
      <3>1. queue \in Seq(Message)
        BY Types DEF QueueTypeOK
      <3>2. DOMAIN queue = 1 .. Len(queue) /\ Len(queue) \in Nat
        BY <3>1, LenProperties
      <3>3. IsFiniteSet(DOMAIN queue)
        BY <3>2, FS_Interval
      <3>4. IsFiniteSet(Outstanding(j))
        BY <3>3, FS_Subset DEF Outstanding, Visible, Inflight
      <3>5. Cardinality(Outstanding(j)) = 0
        BY <2>1, <3>4, FS_CardinalityType
      <3>6. QED
        BY <3>4, <3>5, FS_EmptySet
    <2>3. ASSUME NEW m \in DOMAIN queue, queue[m].job = j
          PROVE  FALSE
      <3>1. queue[m].state = "deleted"
        BY <2>2, <2>3, Types, Messages DEF Outstanding, Visible, Inflight, Message
      <3>2. QED
        BY <1>p, <2>1, <2>3, <3>1 DEF DeletedLast, Ended
    <2>4. QED
      BY <2>1, <2>3 DEF Unsent
  <1>2. SentOnce'
    BY <1>p, <1>u, <1>1 DEF SentOnce, Unsent, Exists
  <1>3. QED
    BY <1>p, <1>u, <1>2, Kept, Parts

LEMMA SweepSendStep ==
    ASSUME IInv, BatchInv, SweepSend, UNCHANGED <<workerVars, request>>
    PROVE  BatchInv'
  <1>p. /\ Submitted /\ SentOnce /\ AllHanded /\ HeldOnce /\ DeletedLast
        /\ LiveOnce /\ RequestsSound /\ Balances
    BY Parts
  <1>u. UNCHANGED <<job, sub, batch, pc, copy, delivery, request, out, channel, old>>
    BY DEF SweepSend
  <1>1. PICK j \in stuck : stuck' = stuck \ {j} /\ (SendMessage(j) \/ UNCHANGED queue)
    BY DEF SweepSend
  <1>2. UNCHANGED queue \/ Sent(j)
    BY <1>1, Types, SendShape
  <1>3. SentOnce'
    <2>1. CASE UNCHANGED queue
      BY <1>p, <1>u, <1>1, <2>1 DEF SentOnce, Unsent, Exists
    <2>2. CASE Sent(j)
      <3>1. Unsent(j) /\ j \in old
        BY <1>p DEF SentOnce
      <3>2. \A m, n \in DOMAIN queue' : queue'[m].job = queue'[n].job => m = n
        BY <1>p, <2>2, <3>1 DEF SentOnce, Unsent, Sent
      <3>3. \A i : i # j /\ Unsent(i) => Unsent(i)'
        BY <2>2 DEF Unsent, Sent
      <3>4. QED
        BY <1>p, <1>u, <1>1, <3>1, <3>2, <3>3 DEF SentOnce, Exists
    <2>3. QED
      BY <1>2, <2>1, <2>2
  <1>4. AllHanded'
    <2>1. \A d : Handed(d) => HandedNext(d)
      BY <1>2, HandedKept
    <2>2. Inflight' \subseteq Inflight
      BY <1>2 DEF Inflight, Sent
    <2>3. Held' = Held
      BY <1>u DEF Held
    <2>4. QED
      BY <1>p, <1>u, <2>1, <2>2, <2>3, AllHandedNext DEF AllHanded, Busy
  <1>5. DeletedLast'
    BY <1>p, <1>u, <1>2 DEF DeletedLast, Sent, JobOf, Ended
  <1>6. LiveOnce'
    BY <1>p, <1>u, <1>2, OverKept, LiveKept
  <1>7. QED
    BY <1>p, <1>u, <1>3, <1>4, <1>5, <1>6, Kept, Parts

-----------------------------------------------------------------------------
(* What the steps of a goroutine write *)

Moves(w) ==
    /\ UNCHANGED <<queue, pollerVars, delivery>>
    /\ pc[w] \notin {"idle", "ack"} /\ pc'[w] # "idle"
    /\ \A v \in Workers \ {w} : pc'[v] = pc[v]

(* Up to the end of its job it writes the row of this job, and keeps the
   submission that the row names. *)
Processes(w) ==
    /\ pc[w] \in Holding \cup {"fetch", "mark"}
    /\ pc'[w] \in Holding \cup {"mark", "subDone", "subFailed"}
    /\ UNCHANGED <<sub, batch>>
    /\ \A j \in Jobs \ {JobOf(w)} : job'[j] = job[j]
    /\ job'[JobOf(w)].sub = Parent(w)
    /\ job'[JobOf(w)].status # "NONE"
    /\ pc'[w] \in {"subDone", "subFailed"} => job'[JobOf(w)].status \in {"DONE", "FAILED"}
    /\ \A v \in Workers \ {w} : copy'[v] = copy[v]
    /\ pc'[w] \in Holding => copy'[w].sub = Parent(w)

Updates(w, from, to, status) ==
    /\ pc[w] = from /\ pc'[w] = to
    /\ UNCHANGED <<job, batch, copy>>
    /\ sub' = [sub EXCEPT ![Parent(w)] = status]

Counts(w) ==
    /\ pc[w] \in {"completed", "failed"}
    /\ UNCHANGED <<job, sub, copy>>
    /\ \/ BatchOfJob(w) = None /\ pc'[w] = "ack" /\ UNCHANGED batch
       \/ /\ BatchOfJob(w) # None /\ pc'[w] = "check"
          /\ batch' = [batch EXCEPT ![BatchOfJob(w)] =
                                       Counted(batch[BatchOfJob(w)], pc[w])]

Checks(w) ==
    /\ pc[w] = "check"
    /\ UNCHANGED <<job, sub, copy, batch>>
    /\ pc'[w] = IF AllProcessed(batch[BatchOfJob(w)])
                THEN Verdict(batch[BatchOfJob(w)])
                ELSE "ack"

Settles(w) ==
    /\ pc[w] \in {"DONE", "PARTIAL_FAIL"} /\ pc'[w] = "ack"
    /\ UNCHANGED <<job, sub, copy>>
    /\ batch' = [batch EXCEPT ![BatchOfJob(w)].status = pc[w]]

LEMMA StatusOnly ==
    ASSUME NEW row \in JobRow, NEW st \in JobStatus
    PROVE  [row EXCEPT !.status = st].sub = row.sub /\ [row EXCEPT !.status = st].status = st
  BY DEF JobRow

LEMMA ProcessEffects ==
    ASSUME IInv, Undisturbed, Submitted, NEW w \in Workers,
           \/ Fetch(w) \/ Claim(w) \/ StoreBoard(w) \/ AnalysisFails(w) \/ SaveMeta(w)
           \/ InsertViolations(w) \/ StoreBlob(w) \/ Finalize(w) \/ MarkFailed(w)
    PROVE  Moves(w) /\ Processes(w)
  <1>t. /\ job \in [Jobs -> JobRow] /\ pc \in [Workers -> Steps]
        /\ copy \in [Workers -> JobRow] /\ CopiesSound
    BY Types
  <1>j. pc[w] # "idle" =>
          /\ JobOf(w) \in Jobs /\ job[JobOf(w)] \in JobRow
          /\ job[JobOf(w)].status # "NONE"
    BY <1>t DEF IInv, CreatedOnly, Exists
  <1>s. /\ pc[w] \in Holding => copy[w].sub = Parent(w)
        /\ pc[w] \in Claimed => copy[w].status = "PROCESSING"
    BY <1>t DEF Submitted, CopiesSound, CopySound
  <1>f. ~ Fault("swallowed")
    BY NoSuchFault
  <1>p. ASSUME pc[w] # "idle", Parent(w) = job[JobOf(w)].sub,
               \/ UNCHANGED job
               \/ \E row \in JobRow : /\ job' = [job EXCEPT ![JobOf(w)] = row]
                                      /\ row.sub = Parent(w) /\ row.status # "NONE"
        PROVE  /\ \A j \in Jobs \ {JobOf(w)} : job'[j] = job[j]
               /\ job'[JobOf(w)].sub = Parent(w)
               /\ job'[JobOf(w)].status # "NONE"
    BY <1>t, <1>j, <1>p
  <1>q. Parent(w) = job[JobOf(w)].sub
    BY DEF Parent
  <1>1. CASE Fetch(w)
    <2>1. Moves(w) /\ pc[w] = "fetch" /\ pc'[w] \in {"claim", "mark"}
      BY <1>1, <1>t DEF Fetch, Goto, Moves
    <2>2. UNCHANGED <<sub, batch, job>> /\ \A v \in Workers \ {w} : copy'[v] = copy[v]
      BY <1>1, <1>t DEF Fetch
    <2>3. pc'[w] \in Holding => copy'[w].sub = Parent(w)
      BY <1>1, <1>t, <1>q, <2>1 DEF Fetch, Goto, Holding
    <2>4. QED
      BY <2>1, <2>2, <2>3, <1>p, <1>q DEF Processes, Holding
  <1>2. CASE Claim(w)
    <2>1. Moves(w) /\ pc[w] = "claim" /\ pc'[w] \in {"board", "mark"}
      BY <1>2, <1>t DEF Claim, Goto, Moves
    <2> DEFINE row == [copy[w] EXCEPT !.status = "PROCESSING"]
    <2>2. row \in JobRow /\ row.sub = Parent(w) /\ row.status = "PROCESSING"
      BY <2>1, <1>t, <1>s, StatusType, StatusOnly DEF Holding, JobStatus
    <2>3. /\ UNCHANGED <<sub, batch>>
          /\ \/ job' = [job EXCEPT ![JobOf(w)] = row] /\ copy' = [copy EXCEPT ![w] = row]
             \/ UNCHANGED <<job, copy>>
      BY <1>2 DEF Claim, Save
    <2> HIDE DEF row
    <2>4. QED
      BY <2>1, <2>2, <2>3, <1>p, <1>q, <1>s, <1>t DEF Processes, Holding
  <1>3. CASE StoreBoard(w)
    <2>1. Moves(w) /\ pc[w] = "board" /\ pc'[w] = "meta"
      BY <1>3, <1>t DEF StoreBoard, Goto, Moves
    <2>2. /\ UNCHANGED <<sub, batch, job>> /\ \A v \in Workers \ {w} : copy'[v] = copy[v]
          /\ copy'[w].sub = copy[w].sub
      BY <1>3, <1>t DEF StoreBoard, JobRow
    <2>3. QED
      BY <2>1, <2>2, <1>p, <1>q, <1>s DEF Processes, Holding
  <1>4. CASE AnalysisFails(w)
    <2>1. Moves(w) /\ pc[w] = "board" /\ pc'[w] = "mark"
      BY <1>4, <1>t DEF AnalysisFails, Goto, Moves
    <2>2. UNCHANGED <<sub, batch, job, copy>>
      BY <1>4 DEF AnalysisFails
    <2>3. QED
      BY <2>1, <2>2, <1>p, <1>q, <1>s DEF Processes, Holding
  <1>5. CASE SaveMeta(w)
    <2>1. Moves(w) /\ pc[w] = "meta" /\ pc'[w] = "insert"
      BY <1>5, <1>t DEF SaveMeta, Goto, Moves
    <2>2. /\ UNCHANGED <<sub, batch>> /\ \A v \in Workers \ {w} : copy'[v] = copy[v]
          /\ copy'[w].sub = copy[w].sub /\ job' = [job EXCEPT ![JobOf(w)] = copy[w]]
      BY <1>5, <1>t, <1>f DEF SaveMeta, JobRow
    <2>3. copy[w] \in JobRow /\ copy[w].status # "NONE" /\ copy[w].sub = Parent(w)
      BY <2>1, <1>s, <1>t DEF Claimed, Holding
    <2>4. QED
      BY <2>1, <2>2, <2>3, <1>p, <1>q DEF Processes, Holding
  <1>6. CASE InsertViolations(w)
    <2>1. Moves(w) /\ pc[w] = "insert" /\ pc'[w] \in {"insert", "mark"}
      BY <1>6, <1>t DEF InsertViolations, Goto, Moves
    <2>2. UNCHANGED <<sub, batch, job, copy>>
      BY <1>6 DEF InsertViolations
    <2>3. QED
      BY <2>1, <2>2, <1>p, <1>q, <1>s DEF Processes, Holding
  <1>7. CASE StoreBlob(w)
    <2>1. Moves(w) /\ pc[w] = "insert" /\ pc'[w] = "finalize"
      BY <1>7, <1>t DEF StoreBlob, Goto, Moves
    <2>2. /\ UNCHANGED <<sub, batch, job>> /\ \A v \in Workers \ {w} : copy'[v] = copy[v]
          /\ copy'[w].sub = copy[w].sub
      BY <1>7, <1>t DEF StoreBlob, JobRow
    <2>3. QED
      BY <2>1, <2>2, <1>p, <1>q, <1>s DEF Processes, Holding
  <1>8. CASE Finalize(w)
    <2>1. /\ Moves(w) /\ pc[w] = "finalize" /\ pc'[w] \in {"subDone", "mark"}
      BY <1>8, <1>t DEF Finalize, Goto, Moves
    <2> DEFINE row == [copy[w] EXCEPT !.status = "DONE"]
    <2>2. row \in JobRow /\ row.sub = Parent(w) /\ row.status = "DONE"
      BY <2>1, <1>t, <1>s, StatusType, StatusOnly DEF Holding, JobStatus
    <2>3. /\ UNCHANGED <<sub, batch>>
          /\ \/ job' = [job EXCEPT ![JobOf(w)] = row] /\ copy' = [copy EXCEPT ![w] = row]
             \/ UNCHANGED <<job, copy>> /\ pc'[w] = "mark"
      BY <1>8, <1>t DEF Finalize, Save, Goto
    <2> HIDE DEF row
    <2>4. QED
      BY <2>1, <2>2, <2>3, <1>p, <1>q, <1>t, <1>j DEF Processes, Holding
  <1>9. CASE MarkFailed(w)
    <2>1. Moves(w) /\ pc[w] = "mark" /\ pc'[w] = "subFailed"
      BY <1>9, <1>t DEF MarkFailed, Goto, Moves
    <2> DEFINE row == [job[JobOf(w)] EXCEPT !.status = "FAILED"]
    <2>2. row \in JobRow /\ row.sub = Parent(w) /\ row.status = "FAILED"
      BY <2>1, <1>j, <1>q, StatusType, StatusOnly DEF JobStatus
    <2>3. UNCHANGED <<sub, batch, copy>> /\ job' = [job EXCEPT ![JobOf(w)] = row]
      BY <1>9, <1>f DEF MarkFailed
    <2> HIDE DEF row
    <2>4. QED
      BY <2>1, <2>2, <2>3, <1>p, <1>q, <1>t, <1>j DEF Processes, Holding
  <1>10. QED
    BY <1>1, <1>2, <1>3, <1>4, <1>5, <1>6, <1>7, <1>8, <1>9

LEMMA BatchEffects ==
    ASSUME IInv, Undisturbed, NEW w \in Workers,
           SubmissionDone(w) \/ SubmissionFailed(w) \/ Count(w) \/ Check(w) \/ Settle(w)
    PROVE  /\ Moves(w)
           /\ \/ Updates(w, "subDone", "completed", "DONE")
              \/ Updates(w, "subFailed", "failed", "FAILED")
              \/ Counts(w) \/ Checks(w) \/ Settles(w)
  <1>t. pc \in [Workers -> Steps] /\ ~ Fault("swallowed")
    BY Types, NoSuchFault
  <1>1. CASE SubmissionDone(w)
    BY <1>1, <1>t DEF SubmissionDone, Goto, Moves, Updates
  <1>2. CASE SubmissionFailed(w)
    BY <1>2, <1>t DEF SubmissionFailed, Goto, Moves, Updates
  <1>3. CASE Count(w)
    BY <1>3, <1>t DEF Count, Goto, Moves, Counts
  <1>4. CASE Check(w)
    BY <1>4, <1>t DEF Check, Goto, Moves, Checks, Verdict
  <1>5. CASE Settle(w)
    BY <1>5, <1>t DEF Settle, Goto, Moves, Settles
  <1>6. QED
    BY <1>1, <1>2, <1>3, <1>4, <1>5

LEMMA Effects ==
    ASSUME IInv, Undisturbed, Submitted, NEW w \in Workers, Step(w), ~ Ack(w)
    PROVE  /\ Moves(w)
           /\ \/ Processes(w)
              \/ Updates(w, "subDone", "completed", "DONE")
              \/ Updates(w, "subFailed", "failed", "FAILED")
              \/ Counts(w) \/ Checks(w) \/ Settles(w)
  BY ProcessEffects, BatchEffects DEF Step

-----------------------------------------------------------------------------
(* Counting sets *)

LEMMA Finite ==
    ASSUME Undisturbed, NEW b, NEW x
    PROVE  /\ IsFiniteSet(At(b, x)) /\ Cardinality(At(b, x)) \in Nat
           /\ IsFiniteSet(MembersIn(b, x)) /\ Cardinality(MembersIn(b, x)) \in Nat
           /\ IsFiniteSet(Taken(b)) /\ Cardinality(Taken(b)) \in Nat
  <1>1. IsFiniteSet(Workers) /\ IsFiniteSet(Subs)
    BY RowsAssumption DEF Undisturbed
  <1>2. At(b, x) \subseteq Workers /\ MembersIn(b, x) \subseteq Subs /\ Taken(b) \subseteq Subs
    BY DEF At, MembersIn, Taken, Members
  <1>3. QED
    BY <1>1, <1>2, FS_Subset, FS_CardinalityType

LEMMA OneMore ==
    ASSUME NEW S, NEW T, NEW x, IsFiniteSet(S), x \notin S, T = S \cup {x}
    PROVE  Cardinality(T) = Cardinality(S) + 1
  BY FS_AddElement

LEMMA OneLess ==
    ASSUME NEW S, NEW T, NEW x, IsFiniteSet(S), x \in S, T = S \ {x}
    PROVE  Cardinality(T) = Cardinality(S) - 1
  BY FS_RemoveElement

(* What a goroutine counts where. *)
SubsStay == \A j \in Jobs : job'[j].sub = job[j].sub

LEMMA AtMoved ==
    ASSUME IInv, NEW w \in Workers, Moves(w), SubsStay, NEW b, NEW x,
           x \in {"completed", "failed"}
    PROVE  /\ pc[w] # x /\ pc'[w] # x => At(b, x)' = At(b, x)
           /\ pc[w] = x /\ pc'[w] # x => At(b, x)' = At(b, x) \ {w}
           /\ pc[w] # x /\ pc'[w] = x /\ BatchOfJob(w) = b => At(b, x)' = At(b, x) \cup {w}
           /\ BatchOfJob(w) # b => At(b, x)' = At(b, x)
  <1>1. \A v \in Workers : pc[v] # "idle" => BatchOfJob(v)' = BatchOfJob(v)
    BY Types DEF SubsStay, BatchOfJob, Parent, JobOf, Moves, CreatedOnly, Exists
  <1>2. \A v \in Workers : pc'[v] # "idle" => pc[v] # "idle"
    BY DEF Moves
  <1>3. \A v \in Workers :
          v \in At(b, x)' <=> /\ (IF v = w THEN pc'[w] = x ELSE pc[v] = x)
                              /\ BatchOfJob(v) = b
    BY <1>1, <1>2 DEF At, Moves
  <1>4. At(b, x) \subseteq Workers /\ At(b, x)' \subseteq Workers
    BY DEF At
  <1>5. \A v \in Workers : v \in At(b, x) <=> pc[v] = x /\ BatchOfJob(v) = b
    BY DEF At
  <1>6. QED
    BY <1>3, <1>4, <1>5

LEMMA TakenKept ==
    ASSUME UNCHANGED request
    PROVE  \A b : Taken(b)' = Taken(b)
  BY DEF Taken, Working

LEMMA WorkingSubs ==
    ASSUME IInv, Submitted, RequestsSound
    PROVE  \A h \in Requests : Working(h) \subseteq Subs
  BY Types DEF Working, RequestsSound, RequestSound, Request, Submitted, CreatedOnly, Exists

-----------------------------------------------------------------------------
(* The steps of a goroutine *)

LEMMA MoveKeeps ==
    ASSUME NEW w \in Workers, Moves(w), AllHanded, HeldOnce
    PROVE  AllHanded' /\ HeldOnce'
  <1>1. Busy' = Busy
    BY DEF Busy, Moves
  <1>2. /\ UNCHANGED <<queue, out, channel, delivery>>
    BY DEF Moves
  <1>3. Held' = Held
    BY <1>1, <1>2 DEF Held, Busy
  <1>4. AllHanded'
    BY <1>1, <1>2, <1>3 DEF AllHanded, Handed, Inflight
  <1>5. HeldOnce'
    BY <1>1, <1>2 DEF HeldOnce
  <1>6. QED
    BY <1>4, <1>5

LEMMA ProcessStep ==
    ASSUME IInv, Undisturbed, BatchInv, NEW w \in Workers, Moves(w), Processes(w),
           UNCHANGED request
    PROVE  BatchInv'
  <1>p. /\ Submitted /\ SentOnce /\ AllHanded /\ HeldOnce /\ DeletedLast
        /\ LiveOnce /\ RequestsSound /\ Balances
    BY Parts
  <1>u. UNCHANGED <<sub, batch, queue, out, channel, stuck, old, delivery, request>>
    BY DEF Moves, Processes
  <1>1. /\ JobOf(w) \in Jobs /\ job[JobOf(w)].status # "NONE"
        /\ \A m \in DOMAIN queue : queue[m].job = JobOf(w) => queue[m].state = "inflight"
        /\ \A v \in Workers : pc[v] # "idle" /\ JobOf(v) = JobOf(w) => v = w
    BY <1>p, OneMessage DEF Moves
  <1>2. SubsStay /\ \A j \in Jobs : job'[j].status = "NONE" <=> job[j].status = "NONE"
    BY <1>1 DEF Processes, SubsStay, Parent
  <1>3. \A v \in Workers : pc[v] # "idle" => JobOf(v) \in Jobs
    BY DEF IInv, CreatedOnly, Exists
  <1>4. \A v \in Workers : JobOf(v)' = JobOf(v)
    BY <1>u DEF JobOf
  <1>5. Submitted'
    <2>1. \A j \in Jobs : job'[j].status # "NONE" => job'[j].sub \in Subs
      BY <1>p, <1>2 DEF Submitted, SubsStay
    <2>2. \A v \in Workers : pc'[v] # "idle" => Parent(v)' = Parent(v)
      BY <1>2, <1>3, <1>4 DEF Parent, SubsStay, Moves
    <2>3. \A v \in Workers : pc'[v] \in Holding => copy'[v].sub = Parent(v)
      BY <1>p DEF Submitted, Moves, Processes
    <2>4. QED
      BY <2>1, <2>2, <2>3 DEF Submitted, Holding
  <1>6. SentOnce'
    BY <1>p, <1>u, <1>2 DEF SentOnce, Unsent, Exists
  <1>7. DeletedLast'
    <2>1. ASSUME NEW j \in Jobs, Ended(j), j # JobOf(w)
          PROVE  Ended(j)'
      BY <2>1 DEF Ended, Processes
    <2>2. (\A m \in DOMAIN queue : queue[m].state = "deleted" => Ended(queue[m].job))'
      <3>1. \A m \in DOMAIN queue : queue[m].job \in Jobs
        BY Types, Messages DEF Message
      <3>2. QED
        BY <1>p, <1>u, <1>1, <2>1, <3>1 DEF DeletedLast, Ended
    <2>3. ASSUME NEW v \in Workers \ {w}, pc'[v] \in {"subDone", "subFailed"} \cup Counting
          PROVE  Ended(JobOf(v))'
      <3>1. pc[v] \in {"subDone", "subFailed"} \cup Counting /\ pc[v] # "idle"
        BY <2>3 DEF Moves, Counting
      <3>2. QED
        BY <1>p, <1>1, <1>3, <1>4, <2>1, <3>1 DEF DeletedLast, Ended
    <2>4. ASSUME pc'[w] \in {"subDone", "subFailed"} \cup Counting
          PROVE  Ended(JobOf(w))'
      <3>1. pc'[w] \in {"subDone", "subFailed"}
        BY <2>4 DEF Processes, Counting, Holding
      <3>2. QED
        BY <1>4, <3>1 DEF Ended, Processes
    <2>5. QED
      BY <2>2, <2>3, <2>4 DEF DeletedLast
  <1>8. LiveOnce'
    <2>1. pc[w] \notin Counting /\ pc'[w] \notin Counting
      BY DEF Processes, Holding, Counting
    <2>2. \A j : Over(j)' <=> Over(j)
      BY <1>u, <1>4, <2>1 DEF Over, Moves
    <2>3. \A j \in Jobs : Live(j)' <=> Live(j)
      BY <1>2, <2>2 DEF Live
    <2>4. \A j : Starting(j)' <=> Starting(j)
      BY <1>u DEF Starting
    <2>5. QED
      BY <1>p, <1>u, <1>2, <2>3, <2>4 DEF LiveOnce, SubsStay
  <1>9. RequestsSound'
    <2>1. \A h \in Requests : request[h].pc = "mark" =>
                                job'[request[h].job].sub = job[request[h].job].sub
      BY <1>2 DEF SubsStay, IInv, CreatedOnly, Exists
    <2>2. QED
      BY <1>p, <1>u, <2>1 DEF RequestsSound, RequestSound, Working
  <1>10. Balances'
    <2>1. \A b, x : x \in {"completed", "failed"} => At(b, x)' = At(b, x)
      <3>1. pc[w] \notin {"completed", "failed"} /\ pc'[w] \notin {"completed", "failed"}
        BY DEF Processes, Holding
      <3>2. QED
        BY <1>2, <3>1, AtMoved
    <2>2. \A b, x : MembersIn(b, x)' = MembersIn(b, x)
      BY <1>u DEF MembersIn
    <2>3. QED
      BY <1>p, <1>u, <2>1, <2>2, TakenKept DEF Balances, Balanced
  <1>11. QED
    BY <1>p, <1>5, <1>6, <1>7, <1>8, <1>9, <1>10, MoveKeeps, Parts

LEMMA UpdateStep ==
    ASSUME IInv, Undisturbed, BatchInv, NEW w \in Workers, Moves(w), UNCHANGED request,
           NEW from, NEW to, NEW status,
           \/ from = "subDone" /\ to = "completed" /\ status = "DONE"
           \/ from = "subFailed" /\ to = "failed" /\ status = "FAILED",
           Updates(w, from, to, status)
    PROVE  BatchInv'
  <1>p. /\ Submitted /\ SentOnce /\ AllHanded /\ HeldOnce /\ DeletedLast
        /\ LiveOnce /\ RequestsSound /\ Balances
    BY Parts
  <1>u. UNCHANGED <<job, batch, copy, queue, out, channel, stuck, old, delivery, request>>
    BY DEF Moves, Updates
  <1>v. /\ pc[w] = from /\ pc'[w] = to /\ sub' = [sub EXCEPT ![Parent(w)] = status]
    BY DEF Updates
  <1>1. /\ Live(JobOf(w)) /\ Parent(w) \in Subs /\ sub[Parent(w)] = "ANALYZING"
        /\ JobOf(w) \in Jobs
    BY <1>p, <1>v, WorkedOn, OneMessage DEF Counting
  <1>2. \A v \in Workers : JobOf(v)' = JobOf(v) /\ Parent(v)' = Parent(v)
    BY <1>u DEF JobOf, Parent
  <1>3. \A s \in Subs : sub'[s] = IF s = Parent(w) THEN status ELSE sub[s]
    BY <1>1, <1>v, Types
  <1>4. Submitted'
    BY <1>p, <1>u, <1>v, <1>2 DEF Submitted, Moves, Holding
  <1>5. DeletedLast'
    <2>1. \A j : Ended(j)' <=> Ended(j)
      BY <1>u DEF Ended
    <2>2. Ended(JobOf(w))
      BY <1>p, <1>v DEF DeletedLast
    <2>3. QED
      BY <1>p, <1>u, <1>2, <2>1, <2>2 DEF DeletedLast, Moves
  <1>6. LiveOnce'
    <2>1. \A j : Over(j)' <=> Over(j) \/ j = JobOf(w)
      BY <1>u, <1>v, <1>2 DEF Over, Moves, Counting
    <2>2. \A j \in Jobs : Live(j)' => Live(j) /\ job[j].sub # Parent(w)
      BY <1>p, <1>u, <1>1, <2>1 DEF Live, LiveOnce, Parent
    <2>3. \A j : Starting(j)' <=> Starting(j)
      BY <1>u DEF Starting
    <2>4. \A j \in Jobs : Live(j) => job[j].sub \in Subs
      BY <1>p DEF Live, Submitted
    <2>5. QED
      BY <1>p, <1>u, <1>3, <2>2, <2>3, <2>4 DEF LiveOnce
  <1>7. RequestsSound'
    <2>1. \A h \in Requests : \A s \in Working(h) :
            request[h].call \in {"analyze", "retry"} => s # Parent(w)
      BY <1>p, <1>1 DEF RequestsSound, RequestSound
    <2>2. \A h \in Requests : \A s \in Working(h) :
            request[h].call \in {"analyze", "retry"} => sub'[s] = sub[s]
      BY <1>p, <1>3, <2>1, WorkingSubs
    <2>3. \A h : Working(h)' = Working(h)
      BY <1>u DEF Working
    <2>4. QED
      BY <1>p, <1>u, <2>2, <2>3 DEF RequestsSound, RequestSound
  <1>8. Balances'
    <2>1. \A b, x : MembersIn(b, x)' = IF BatchOf[Parent(w)] = b /\ x = status
                                       THEN MembersIn(b, x) \cup {Parent(w)}
                                       ELSE IF x = "ANALYZING" THEN MembersIn(b, x)'
                                       ELSE MembersIn(b, x)
      BY <1>1, <1>3 DEF MembersIn, Members
    <2>2. SubsStay
      BY <1>u DEF SubsStay
    <2>3. \A b : /\ BatchOfJob(w) = b => At(b, to)' = At(b, to) \cup {w}
                 /\ BatchOfJob(w) # b => At(b, to)' = At(b, to)
                 /\ \A x \in {"completed", "failed"} \ {to} : At(b, x)' = At(b, x)
      BY <1>v, <2>2, AtMoved
    <2>4. \A b : w \notin At(b, to) /\ Parent(w) \notin MembersIn(b, status)
      BY <1>1, <1>v DEF At, MembersIn
    <2>5. BatchOfJob(w) = BatchOf[Parent(w)]
      BY DEF BatchOfJob
    <2>6. ASSUME NEW b \in Batches, BatchOfJob(w) = b
          PROVE  /\ Cardinality(At(b, to)') = Cardinality(At(b, to)) + 1
                 /\ Cardinality(MembersIn(b, status)') = Cardinality(MembersIn(b, status)) + 1
      BY <2>1, <2>3, <2>4, <2>5, <2>6, Finite, OneMore
    <2>7. \A b \in Batches : batch[b].completed \in Int /\ batch[b].failed \in Int
      BY Types DEF BatchRow
    <2>8. ASSUME NEW b \in Batches
          PROVE  Balanced(b)'
      <3>1. Balanced(b) /\ batch'[b] = batch[b] /\ Taken(b)' = Taken(b)
        BY <1>p, <1>u, TakenKept DEF Balances
      <3>2. \A x : /\ Cardinality(At(b, x)) \in Nat /\ Cardinality(MembersIn(b, x)) \in Nat
                   /\ Cardinality(Taken(b)) \in Nat
        BY Finite
      <3>3. CASE BatchOfJob(w) = b
        <4>0. /\ Cardinality(At(b, to)') = Cardinality(At(b, to)) + 1
              /\ Cardinality(MembersIn(b, status)') = Cardinality(MembersIn(b, status)) + 1
          BY <2>6, <3>3
        <4>1. CASE to = "completed" /\ status = "DONE"
          <5>1. /\ MembersIn(b, "FAILED")' = MembersIn(b, "FAILED")
                /\ At(b, "failed")' = At(b, "failed")
            BY <2>1, <2>3, <4>1
          <5>2. /\ Cardinality(At(b, "completed")') = Cardinality(At(b, "completed")) + 1
                /\ Cardinality(MembersIn(b, "DONE")') = Cardinality(MembersIn(b, "DONE")) + 1
            BY <4>0, <4>1
          <5>3. QED
            BY <3>1, <3>2, <2>7, <5>1, <5>2 DEF Balanced
        <4>2. CASE to = "failed" /\ status = "FAILED"
          <5>1. /\ MembersIn(b, "DONE")' = MembersIn(b, "DONE")
                /\ At(b, "completed")' = At(b, "completed")
            BY <2>1, <2>3, <4>2
          <5>2. QED
            BY <3>1, <3>2, <2>7, <4>0, <4>2, <5>1 DEF Balanced
        <4>3. QED
          BY <4>1, <4>2
      <3>4. CASE BatchOfJob(w) # b
        <4>1. /\ MembersIn(b, "DONE")' = MembersIn(b, "DONE")
              /\ MembersIn(b, "FAILED")' = MembersIn(b, "FAILED")
          BY <2>1, <2>5, <3>4
        <4>2. /\ At(b, "completed")' = At(b, "completed")
              /\ At(b, "failed")' = At(b, "failed")
          BY <2>3, <3>4
        <4>3. QED
          BY <3>1, <4>1, <4>2 DEF Balanced
      <3>5. QED
        BY <3>3, <3>4
    <2>9. QED
      BY <2>8 DEF Balances
  <1>9. QED
    BY <1>p, <1>u, <1>4, <1>5, <1>6, <1>7, <1>8, MoveKeeps, Kept, Parts

(* Between the update of the submission and the delete of the message only the
   counters of its batch change. *)
LEMMA AfterUpdate ==
    ASSUME IInv, Undisturbed, BatchInv, NEW w \in Workers, Moves(w), UNCHANGED request,
           pc[w] \in Counting, pc'[w] \in Counting, UNCHANGED <<job, sub, copy>>
    PROVE  /\ Submitted' /\ SentOnce' /\ AllHanded' /\ HeldOnce' /\ DeletedLast'
           /\ LiveOnce' /\ RequestsSound' /\ SubsStay
           /\ \A b, x : MembersIn(b, x)' = MembersIn(b, x) /\ Taken(b)' = Taken(b)
  <1>p. /\ Submitted /\ SentOnce /\ AllHanded /\ HeldOnce /\ DeletedLast
        /\ LiveOnce /\ RequestsSound
    BY Parts
  <1>u. UNCHANGED <<queue, out, channel, stuck, old, delivery>>
    BY DEF Moves
  <1>1. \A v \in Workers : JobOf(v)' = JobOf(v) /\ Parent(v)' = Parent(v)
    BY <1>u DEF JobOf, Parent
  <1>2. Submitted'
    BY <1>p, <1>u, <1>1 DEF Submitted, Moves, Holding, Counting
  <1>3. \A j : Ended(j)' <=> Ended(j)
    BY DEF Ended
  <1>4. DeletedLast'
    BY <1>p, <1>u, <1>1, <1>3 DEF DeletedLast, Moves
  <1>5. \A j : Over(j)' <=> Over(j)
    BY <1>u, <1>1 DEF Over, Moves
  <1>6. SubsStay /\ \A b, x : MembersIn(b, x)' = MembersIn(b, x)
    BY DEF SubsStay, MembersIn
  <1>7. QED
    BY <1>p, <1>u, <1>2, <1>4, <1>5, <1>6, LiveKept, MoveKeeps, TakenKept, Kept

LEMMA CountedFields ==
    ASSUME NEW row \in BatchRow
    PROVE  /\ \A x : Counted(row, x).total = row.total /\ Counted(row, x).status = row.status
           /\ Counted(row, "completed").completed = row.completed + 1
           /\ Counted(row, "completed").failed = row.failed
           /\ Counted(row, "failed").completed = row.completed
           /\ Counted(row, "failed").failed = row.failed + 1
  BY DEF Counted, BatchRow

LEMMA InBatch ==
    ASSUME IInv, Submitted, NEW w \in Workers, pc[w] # "idle"
    PROVE  Parent(w) \in Subs /\ BatchOfJob(w) \in Batches \cup {None}
  BY RowsAssumption DEF Submitted, IInv, CreatedOnly, Exists, Parent, BatchOfJob

LEMMA CountStep ==
    ASSUME IInv, Undisturbed, BatchInv, NEW w \in Workers, Moves(w), Counts(w),
           UNCHANGED request
    PROVE  BatchInv'
  <1>v. /\ pc[w] \in Counting /\ pc'[w] \in Counting /\ pc[w] # "idle"
        /\ pc[w] \in {"completed", "failed"} /\ pc'[w] \in {"ack", "check"}
    BY DEF Counts, Counting
  <1>k. /\ Submitted' /\ SentOnce' /\ AllHanded' /\ HeldOnce' /\ DeletedLast'
        /\ LiveOnce' /\ RequestsSound' /\ SubsStay
        /\ \A b, x : MembersIn(b, x)' = MembersIn(b, x) /\ Taken(b)' = Taken(b)
    BY <1>v, AfterUpdate DEF Counts
  <1>x. PICK x \in {"completed", "failed"} : pc[w] = x
    BY <1>v
  <1>1. \A b : /\ BatchOfJob(w) = b => At(b, x)' = At(b, x) \ {w}
               /\ BatchOfJob(w) # b => At(b, x)' = At(b, x)
               /\ \A y \in {"completed", "failed"} \ {x} : At(b, y)' = At(b, y)
    <2>1. pc'[w] \notin {"completed", "failed"}
      BY <1>v
    <2>2. QED
      BY <1>x, <1>k, <2>1, AtMoved
  <1>2. \A b \in Batches : BatchOfJob(w) # b => batch'[b] = batch[b]
    BY Types DEF Counts
  <1>3. ASSUME NEW b \in Batches
        PROVE  Balanced(b)'
    <2>1. Balanced(b) /\ Taken(b)' = Taken(b)
      BY <1>k, Parts DEF Balances
    <2>2. CASE BatchOfJob(w) # b
      <3>1. /\ batch'[b] = batch[b]
            /\ At(b, "completed")' = At(b, "completed") /\ At(b, "failed")' = At(b, "failed")
        BY <1>1, <1>2, <1>x, <2>2
      <3>2. QED
        BY <2>1, <1>k, <3>1 DEF Balanced
    <2>3. CASE BatchOfJob(w) = b
      <3>1. b # None /\ batch \in [Batches -> BatchRow]
        BY RowsAssumption, Types
      <3>2. batch'[b] = Counted(batch[b], x) /\ batch[b] \in BatchRow
        BY <1>x, <2>3, <3>1 DEF Counts
      <3>3. w \in At(b, x)
        BY <1>x, <2>3 DEF At
      <3>4. Cardinality(At(b, x)') = Cardinality(At(b, x)) - 1
        BY <1>1, <2>3, <3>3, Finite, OneLess
      <3>5. /\ \A y : Cardinality(At(b, y)) \in Nat
            /\ Cardinality(Taken(b)) \in Nat
            /\ batch[b].completed \in Int /\ batch[b].failed \in Int
        BY <3>2, Finite DEF BatchRow
      <3>6. CASE x = "completed"
        <4>1. /\ batch'[b].completed = batch[b].completed + 1
              /\ batch'[b].failed = batch[b].failed /\ batch'[b].total = batch[b].total
          BY <3>2, <3>6, CountedFields
        <4>2. /\ At(b, "failed")' = At(b, "failed")
              /\ Cardinality(At(b, "completed")') = Cardinality(At(b, "completed")) - 1
          BY <1>1, <3>4, <3>6
        <4>3. QED
          BY <1>k, <2>1, <3>5, <4>1, <4>2 DEF Balanced
      <3>7. CASE x = "failed"
        <4>1. /\ batch'[b].failed = batch[b].failed + 1
              /\ batch'[b].completed = batch[b].completed /\ batch'[b].total = batch[b].total
          BY <3>2, <3>7, CountedFields
        <4>2. /\ At(b, "completed")' = At(b, "completed")
              /\ Cardinality(At(b, "failed")') = Cardinality(At(b, "failed")) - 1
          BY <1>1, <3>4, <3>7
        <4>3. QED
          BY <1>k, <2>1, <3>5, <4>1, <4>2 DEF Balanced
      <3>8. QED
        BY <3>6, <3>7
    <2>4. QED
      BY <2>2, <2>3
  <1>4. QED
    BY <1>k, <1>3, Parts DEF Balances

LEMMA DecideStep ==
    ASSUME IInv, Undisturbed, BatchInv, NEW w \in Workers, Moves(w), Checks(w) \/ Settles(w),
           UNCHANGED request
    PROVE  BatchInv'
  <1>v. /\ pc[w] \in {"check", "DONE", "PARTIAL_FAIL"}
        /\ pc'[w] \in {"DONE", "PARTIAL_FAIL", "ack"}
        /\ UNCHANGED <<job, sub, copy>>
    BY DEF Checks, Settles, Verdict
  <1>k. /\ Submitted' /\ SentOnce' /\ AllHanded' /\ HeldOnce' /\ DeletedLast'
        /\ LiveOnce' /\ RequestsSound' /\ SubsStay
        /\ \A b, x : MembersIn(b, x)' = MembersIn(b, x) /\ Taken(b)' = Taken(b)
    BY <1>v, AfterUpdate DEF Counting
  <1>1. \A b : At(b, "completed")' = At(b, "completed") /\ At(b, "failed")' = At(b, "failed")
    BY <1>v, <1>k, AtMoved
  <1>2. \A b \in Batches : /\ batch'[b].total = batch[b].total
                           /\ batch'[b].completed = batch[b].completed
                           /\ batch'[b].failed = batch[b].failed
    <2>1. \A b \in Batches : \/ batch'[b] = batch[b]
                             \/ batch'[b] = [batch[b] EXCEPT !.status = pc[w]]
      BY Types DEF Checks, Settles
    <2>2. \A row \in BatchRow : /\ [row EXCEPT !.status = pc[w]].total = row.total
                               /\ [row EXCEPT !.status = pc[w]].completed = row.completed
                               /\ [row EXCEPT !.status = pc[w]].failed = row.failed
      BY DEF BatchRow
    <2>3. \A b \in Batches : batch[b] \in BatchRow
      BY Types
    <2>4. QED
      BY <2>1, <2>2, <2>3
  <1>3. \A b \in Batches : Balanced(b)'
    BY <1>k, <1>1, <1>2, Parts DEF Balances, Balanced
  <1>4. QED
    BY <1>k, <1>3, Parts DEF Balances

LEMMA TakeStep ==
    ASSUME IInv, Undisturbed, BatchInv, NEW w \in Workers, Take(w), UNCHANGED request
    PROVE  BatchInv'
  <1>p. /\ Submitted /\ SentOnce /\ AllHanded /\ HeldOnce /\ DeletedLast
        /\ LiveOnce /\ RequestsSound /\ Balances
    BY Parts
  <1>u. UNCHANGED <<job, sub, batch, queue, copy, request, out, stuck, old>>
    BY DEF Take
  <1>v. /\ pc[w] = "idle" /\ pc'[w] = "fetch" /\ delivery'[w] = Head(channel)
        /\ \A v \in Workers \ {w} : pc'[v] = pc[v] /\ delivery'[v] = delivery[v]
        /\ channel # << >> /\ channel' = Tail(channel)
    BY Types DEF Take, Goto
  <1>1. /\ channel \in Seq(Delivery)
        /\ DOMAIN channel = 1 .. Len(channel) /\ Len(channel) \in Nat \ {0}
    BY <1>v, Types, LenProperties, EmptySeq
  <1>2. /\ 1 \in DOMAIN channel /\ delivery'[w] = channel[1]
        /\ DOMAIN channel' = 1 .. Len(channel) - 1
        /\ \A i \in DOMAIN channel' : i + 1 \in DOMAIN channel /\ channel'[i] = channel[i + 1]
    <2>1. Head(channel) = channel[1] /\ 1 \in DOMAIN channel
      BY <1>1, <1>v, HeadTailProperties
    <2>2. Tail(channel) \in Seq(Delivery) /\ Len(Tail(channel)) = Len(channel) - 1
      BY <1>1, <1>v, HeadTailProperties
    <2>3. DOMAIN channel' = 1 .. Len(channel) - 1
      BY <1>v, <2>2, LenProperties
    <2>4. QED
      BY <1>1, <1>v, <2>1, <2>3, TailElements
  <1>3. \A v \in Workers : pc[v] # "idle" \/ pc'[v] \notin {"idle", "fetch"} =>
          JobOf(v)' = JobOf(v) /\ pc'[v] = pc[v] /\ Parent(v)' = Parent(v)
    BY <1>u, <1>v DEF JobOf, Parent
  <1>b. Busy' = Busy \cup {w} /\ w \notin Busy /\ Busy \subseteq Workers
    BY <1>v DEF Busy
  <1>4. Submitted'
    BY <1>p, <1>u, <1>3 DEF Submitted, Holding
  <1>5. AllHanded'
    <2>1. \A d : Handed(d) => HandedNext(d)
      BY <1>u, HandedKept
    <2>2. \A m : m \in Held => m \in Held'
      <3>1. ASSUME NEW i \in DOMAIN channel
            PROVE  \/ channel[i] = delivery'[w]
                   \/ \E k \in DOMAIN channel' : channel[i] = channel'[k]
        <4>1. CASE i = 1
          BY <1>2, <4>1
        <4>2. CASE i # 1
          <5>1. i - 1 \in DOMAIN channel' /\ channel'[i - 1] = channel[i]
            BY <1>1, <1>2, <4>2
          <5>2. QED
            BY <5>1
        <4>3. QED
          BY <4>1, <4>2
      <3>2. \A v \in Busy : v \in Busy' /\ delivery'[v] = delivery[v]
        BY <1>b, <1>v
      <3>3. QED
        BY <1>u, <1>b, <3>1, <3>2, HeldIs, HeldWas
    <2>3. Inflight' \subseteq Held'
      BY <1>p, <1>u, <2>2 DEF AllHanded, Inflight
    <2>4. \A v \in Busy' : HandedNext(delivery'[v])
      BY <1>p, <1>b, <1>v, <1>2, <2>1 DEF AllHanded
    <2>5. QED
      BY <1>p, <1>u, <1>2, <2>1, <2>3, <2>4, AllHandedNext DEF AllHanded
  <1>6. HeldOnce'
    <2>1. \A i, k \in DOMAIN channel' : channel'[i].msg = channel'[k].msg => i = k
      BY <1>p, <1>1, <1>2 DEF HeldOnce
    <2>2. \A i \in DOMAIN channel' : delivery'[w].msg # channel'[i].msg
      BY <1>p, <1>1, <1>2 DEF HeldOnce
    <2>3. QED
      BY <1>p, <1>u, <1>b, <1>v, <1>2, <2>1, <2>2 DEF HeldOnce
  <1>7. DeletedLast'
    <2>1. \A j : Ended(j)' <=> Ended(j)
      BY <1>u DEF Ended
    <2>2. QED
      BY <1>p, <1>u, <1>3, <2>1 DEF DeletedLast, Counting
  <1>8. LiveOnce'
    <2>1. \A j : Over(j)' <=> Over(j)
      BY <1>u, <1>v, <1>3 DEF Over, Counting
    <2>2. QED
      BY <1>p, <1>u, <2>1, LiveKept
  <1>9. Balances'
    <2>1. \A b, x : x \in {"completed", "failed"} => At(b, x)' = At(b, x)
      BY <1>u, <1>v, <1>3 DEF At, BatchOfJob
    <2>2. \A b, x : MembersIn(b, x)' = MembersIn(b, x)
      BY <1>u DEF MembersIn
    <2>3. QED
      BY <1>p, <1>u, <2>1, <2>2, TakenKept DEF Balances, Balanced
  <1>10. QED
    BY <1>p, <1>u, <1>4, <1>5, <1>6, <1>7, <1>8, <1>9, Kept, Parts

LEMMA AckStep ==
    ASSUME IInv, Undisturbed, BatchInv, NEW w \in Workers, Ack(w), UNCHANGED request
    PROVE  BatchInv'
  <1>p. /\ Submitted /\ SentOnce /\ AllHanded /\ HeldOnce /\ DeletedLast
        /\ LiveOnce /\ RequestsSound /\ Balances
    BY Parts
  <1>u. UNCHANGED <<job, sub, batch, request, out, channel, stuck, old>>
    BY DEF Ack
  <1>v. /\ pc[w] = "ack" /\ pc'[w] = "idle"
        /\ \A v \in Workers \ {w} : /\ pc'[v] = pc[v] /\ delivery'[v] = delivery[v]
                                    /\ copy'[v] = copy[v]
    BY Types DEF Ack, Goto, Forget
  <1>o. /\ JobOf(w) \in Jobs /\ delivery[w].msg \in DOMAIN queue
        /\ queue[delivery[w].msg].state = "inflight"
        /\ queue[delivery[w].msg].job = JobOf(w)
        /\ queue[delivery[w].msg].receipt = delivery[w].receipt
        /\ \A v \in Workers : pc[v] # "idle" /\ JobOf(v) = JobOf(w) => v = w
    BY <1>p, <1>v, OneMessage
  <1>1. DeleteMessage(delivery[w])
    BY <1>o, NoSuchFault DEF Ack, Superseded
  <1>2. Moved({delivery[w].msg}) /\ queue'[delivery[w].msg].state = "deleted"
    BY <1>o, <1>1, Types, DeleteShape
  <1>3. \A v \in Workers \ {w} : JobOf(v)' = JobOf(v) /\ Parent(v)' = Parent(v)
    BY <1>u, <1>v DEF JobOf, Parent
  <1>b. Busy' = Busy \ {w} /\ w \in Busy /\ Busy \subseteq Workers
    BY <1>v DEF Busy
  <1>4. Submitted'
    BY <1>p, <1>u, <1>v, <1>3 DEF Submitted, Holding
  <1>5. SentOnce'
    BY <1>p, <1>u, <1>2 DEF SentOnce, Unsent, Exists, Moved
  <1>6. AllHanded'
    <2>1. \A d : Handed(d) /\ d.msg # delivery[w].msg => HandedNext(d)
      BY <1>2, HandedKept
    <2>2. /\ \A d \in out' : d.msg # delivery[w].msg
          /\ \A i \in DOMAIN channel' : channel'[i].msg # delivery[w].msg
          /\ \A v \in Busy' : delivery'[v].msg # delivery[w].msg /\ delivery'[v] = delivery[v]
      BY <1>p, <1>u, <1>b, <1>v DEF HeldOnce
    <2>3. ASSUME NEW m \in Inflight'
          PROVE  m \in Held'
      <3>1. m \in Inflight /\ m # delivery[w].msg
        BY <1>2 DEF Inflight, Moved
      <3>2. m \in Held
        BY <1>p, <3>1 DEF AllHanded
      <3>3. QED
        BY <1>u, <1>b, <1>v, <3>1, <3>2, HeldIs, HeldWas
    <2>4. QED
      BY <1>p, <1>u, <1>b, <2>1, <2>2, <2>3, AllHandedNext DEF AllHanded
  <1>7. HeldOnce'
    BY <1>p, <1>u, <1>b, <1>v DEF HeldOnce
  <1>8. DeletedLast'
    <2>1. \A j : Ended(j)' <=> Ended(j)
      BY <1>u DEF Ended
    <2>2. Ended(JobOf(w))
      BY <1>p, <1>v DEF DeletedLast, Counting
    <2>3. (\A m \in DOMAIN queue : queue[m].state = "deleted" => Ended(queue[m].job))'
      BY <1>p, <1>o, <1>2, <2>1, <2>2 DEF DeletedLast, Moved, Ended
    <2>4. QED
      BY <1>p, <1>v, <1>3, <2>1, <2>3 DEF DeletedLast, Counting
  <1>9. LiveOnce'
    <2>1. \A j : Over(j)' <=> Over(j)
      <3>1. \A j : (\E m \in DOMAIN queue' : queue'[m].job = j /\ queue'[m].state = "deleted")
              <=> \/ \E m \in DOMAIN queue : queue[m].job = j /\ queue[m].state = "deleted"
                  \/ j = JobOf(w)
        BY <1>o, <1>2 DEF Moved
      <3>2. \A j : (\E v \in Workers : pc[v] \in Counting /\ JobOf(v) = j)
              <=> \/ \E v \in Workers : pc'[v] \in Counting /\ JobOf(v)' = j
                  \/ j = JobOf(w)
        BY <1>v, <1>3 DEF Counting
      <3>3. QED
        BY <3>1, <3>2 DEF Over
    <2>2. QED
      BY <1>p, <1>u, <2>1, LiveKept
  <1>10. Balances'
    <2>1. \A b, x : x \in {"completed", "failed"} => At(b, x)' = At(b, x)
      BY <1>u, <1>v, <1>3 DEF At, BatchOfJob
    <2>2. \A b, x : MembersIn(b, x)' = MembersIn(b, x)
      BY <1>u DEF MembersIn
    <2>3. QED
      BY <1>p, <1>u, <2>1, <2>2, TakenKept DEF Balances, Balanced
  <1>11. QED
    BY <1>p, <1>u, <1>4, <1>5, <1>6, <1>7, <1>8, <1>9, <1>10, Kept, Parts

-----------------------------------------------------------------------------
(* The requests *)

(* A step of one request. *)
Serves(h) ==
    /\ UNCHANGED <<pollerVars, workerVars>>
    /\ \A g \in Requests \ {h} : request'[g] = request[g]

LEMMA CallsKnown ==
    ASSUME Undisturbed, RequestsSound, NEW h \in Requests
    PROVE  request[h].call \in {"none", "analyze", "retry"}
  BY DEF Undisturbed, RequestsSound, RequestSound

LEMMA OtherSound ==
    ASSUME NEW g \in Requests, RequestSound(g), request'[g] = request[g],
           request[g].pc = "mark" => job'[request[g].job].sub = job[request[g].job].sub,
           \A s \in Working(g) : sub'[s] = sub[s]
    PROVE  RequestSound(g)'
  <1>1. Working(g)' = Working(g)
    BY DEF Working
  <1>2. QED
    BY <1>1 DEF RequestSound

LEMMA LiveStill ==
    ASSUME LiveOnce, \A j : Over(j)' <=> Over(j), \A j : Starting(j) => Starting(j)',
           UNCHANGED <<job, sub>>
    PROVE  LiveOnce'
  BY DEF LiveOnce, Live

(* The part of the counters that one request has taken out. *)
TakenBy(g) ==
    {s \in Working(g) : request[g].call = "retry" /\ request[g].pc \in {"create", "mark", "send"}}

LEMMA TakenIs ==
    ASSUME NEW h \in Requests, Serves(h), NEW b
    PROVE  \A s : /\ s \in Taken(b) <=> /\ s \in Members(b)
                                        /\ \/ s \in TakenBy(h)
                                           \/ \E g \in Requests \ {h} : s \in TakenBy(g)
                  /\ s \in Taken(b)' <=> /\ s \in Members(b)
                                         /\ \/ s \in TakenBy(h)'
                                            \/ \E g \in Requests \ {h} : s \in TakenBy(g)
  <1>1. \A g \in Requests \ {h} : TakenBy(g)' = TakenBy(g)
    BY DEF Serves, TakenBy, Working
  <1>2. \A s : s \in Taken(b) <=> s \in Members(b) /\ \E g \in Requests : s \in TakenBy(g)
    BY DEF Taken, TakenBy
  <1>3. \A s : s \in Taken(b)' <=> s \in Members(b) /\ \E g \in Requests : s \in TakenBy(g)'
    BY DEF Taken, TakenBy
  <1>4. QED
    BY <1>1, <1>2, <1>3

LEMMA TakenSame ==
    ASSUME NEW h \in Requests, Serves(h), TakenBy(h)' = TakenBy(h), NEW b
    PROVE  Taken(b)' = Taken(b)
  <1>1. \A s : s \in Taken(b)' <=> s \in Taken(b)
    BY TakenIs
  <1>2. QED
    BY <1>1

(* What goes on counting when the rows and the goroutines stay. *)
LEMMA AtSame ==
    ASSUME IInv, UNCHANGED <<pc, delivery>>, NEW b, NEW x, x # "idle",
           \A j \in Jobs : job[j].status # "NONE" => job'[j].sub = job[j].sub
    PROVE  At(b, x)' = At(b, x)
  <1>1. \A w \in Workers : pc[w] # "idle" => BatchOfJob(w)' = BatchOfJob(w)
    BY Types DEF CreatedOnly, Exists, BatchOfJob, Parent, JobOf
  <1>2. QED
    BY <1>1 DEF At

LEMMA AcceptStep ==
    ASSUME IInv, Undisturbed, BatchInv, NEW h \in Requests, NEW call, NEW S, NEW b \in Batches,
           \/ call = "analyze" /\ S = ReadyIn(b, "UPLOADED")
           \/ call = "retry" /\ S = ReadyIn(b, "FAILED"),
           Accept(h, call, "reset", S), UNCHANGED <<pollerVars, workerVars>>
    PROVE  BatchInv'
  <1>p. /\ Submitted /\ SentOnce /\ AllHanded /\ HeldOnce /\ DeletedLast
        /\ LiveOnce /\ RequestsSound /\ Balances
    BY Parts
  <1>u. UNCHANGED <<job, sub, batch, queue, out, channel, stuck, old, pc, copy, delivery>>
    BY DEF Accept
  <1>1. /\ request'[h].call = call /\ request'[h].pc = "reset" /\ request'[h].todo = S
        /\ S # {} /\ call \in Calls[h] /\ request[h].pc = "new"
    BY Types DEF Accept, NewRequest
  <1>2. Serves(h)
    BY Types DEF Accept, Serves
  <1>3. SentOnce'
    <2>1. request'[h].pc \notin {"mark", "send"}
      BY <1>1
    <2>2. QED
      BY <1>p, <1>u, <1>2, <2>1 DEF SentOnce, Unsent, Exists, Serves
  <1>4. LiveOnce'
    <2>1. \A j : Starting(j) => Starting(j)'
      BY <1>1, <1>2 DEF Starting, Serves
    <2>2. QED
      BY <1>p, <1>u, <2>1, OverKept, LiveStill
  <1>5. RequestsSound'
    <2>1. Working(h)' = S
      BY <1>1 DEF Working
    <2>2. /\ S \subseteq Members(b) /\ call \in {"analyze", "retry"}
          /\ call = "analyze" => \A s \in S : sub[s] = "UPLOADED"
          /\ call = "retry" => \A s \in S : sub[s] = "FAILED"
      BY DEF ReadyIn
    <2>3. RequestSound(h)'
      BY <1>u, <1>1, <2>1, <2>2 DEF RequestSound
    <2>4. \A g \in Requests \ {h} : RequestSound(g)'
      BY <1>p, <1>u, <1>2, OtherSound DEF RequestsSound, Serves
    <2>5. QED
      BY <2>3, <2>4 DEF RequestsSound
  <1>6. Balances'
    <2>1. TakenBy(h)' = TakenBy(h)
      BY <1>1 DEF TakenBy
    <2>2. \A c : Taken(c)' = Taken(c)
      BY <1>2, <2>1, TakenSame
    <2>3. \A c, x : At(c, x)' = At(c, x) /\ MembersIn(c, x)' = MembersIn(c, x)
      BY <1>u DEF At, MembersIn, BatchOfJob, Parent, JobOf
    <2>4. QED
      BY <1>p, <1>u, <2>2, <2>3 DEF Balances, Balanced
  <1>7. QED
    BY <1>p, <1>u, <1>3, <1>4, <1>5, <1>6, Kept, Parts

LEMMA ResetFields ==
    ASSUME NEW row \in BatchRow, NEW n
    PROVE  /\ [row EXCEPT !.status = "PROCESSING", !.failed = n].total = row.total
           /\ [row EXCEPT !.status = "PROCESSING", !.failed = n].completed = row.completed
           /\ [row EXCEPT !.status = "PROCESSING", !.failed = n].failed = n
  BY DEF BatchRow

LEMMA ResetEffects ==
    ASSUME IInv, Undisturbed, RequestsSound, NEW h \in Requests, ResetBatch(h)
    PROVE  \E b \in Batches :
             /\ request[h].todo \subseteq Members(b)
             /\ batch'[b].total = batch[b].total /\ batch'[b].completed = batch[b].completed
             /\ batch'[b].failed = batch[b].failed - Retried(h)
             /\ \A c \in Batches \ {b} : batch'[c] = batch[c]
  <1>1. /\ request[h].pc = "reset" /\ request[h].todo # {}
        /\ \E b \in Batches : request[h].todo \subseteq Members(b)
    BY DEF ResetBatch, RequestsSound, RequestSound
  <1>2. PICK b \in Batches : request[h].todo \subseteq Members(b)
    BY <1>1
  <1>3. BatchOfRequest(h) = b
    BY <1>1, <1>2 DEF BatchOfRequest, Members
  <1>4. batch' = [batch EXCEPT ![b].status = "PROCESSING", ![b].failed = @ - Retried(h)]
    BY <1>3, NoSuchFault DEF ResetBatch
  <1>5. batch \in [Batches -> BatchRow] /\ batch[b] \in BatchRow
    BY Types
  <1>6. /\ batch'[b] = [batch[b] EXCEPT !.status = "PROCESSING",
                                        !.failed = batch[b].failed - Retried(h)]
        /\ \A c \in Batches \ {b} : batch'[c] = batch[c]
    <2>1. [batch[b] EXCEPT !.status = "PROCESSING"].failed = batch[b].failed
      BY <1>5 DEF BatchRow
    <2>2. QED
      BY <1>4, <1>5, <2>1
  <1>7. /\ batch'[b].total = batch[b].total /\ batch'[b].completed = batch[b].completed
        /\ batch'[b].failed = batch[b].failed - Retried(h)
    <2>1. PICK n : n = batch[b].failed - Retried(h)
      OBVIOUS
    <2>2. batch'[b] = [batch[b] EXCEPT !.status = "PROCESSING", !.failed = n]
      BY <1>6, <2>1
    <2>3. /\ [batch[b] EXCEPT !.status = "PROCESSING", !.failed = n].total = batch[b].total
          /\ [batch[b] EXCEPT !.status = "PROCESSING", !.failed = n].completed
               = batch[b].completed
          /\ [batch[b] EXCEPT !.status = "PROCESSING", !.failed = n].failed = n
      BY <1>5, ResetFields
    <2>4. QED
      BY <2>1, <2>2, <2>3
  <1>8. QED
    BY <1>2, <1>6, <1>7

LEMMA ResetStep ==
    ASSUME IInv, Undisturbed, Apart, BatchInv, NEW h \in Requests, ResetBatch(h),
           UNCHANGED <<pollerVars, workerVars>>
    PROVE  BatchInv'
  <1>p. /\ Submitted /\ SentOnce /\ AllHanded /\ HeldOnce /\ DeletedLast
        /\ LiveOnce /\ RequestsSound /\ Balances
    BY Parts
  <1>u. UNCHANGED <<job, sub, queue, out, channel, stuck, old, pc, copy, delivery>>
    BY DEF ResetBatch
  <1>1. /\ request[h].pc = "reset" /\ request'[h].pc = "create"
        /\ request'[h].todo = request[h].todo /\ request'[h].call = request[h].call
    BY Types DEF ResetBatch, Request
  <1>2. Serves(h)
    BY Types DEF ResetBatch, Serves
  <1>w. Working(h) = request[h].todo /\ Working(h)' = request[h].todo
    BY <1>1 DEF Working
  <1>3. SentOnce'
    <2>1. request'[h].pc \notin {"mark", "send"}
      BY <1>1
    <2>2. QED
      BY <1>p, <1>u, <1>2, <2>1 DEF SentOnce, Unsent, Exists, Serves
  <1>4. LiveOnce'
    <2>1. \A j : Starting(j) => Starting(j)'
      BY <1>1, <1>2 DEF Starting, Serves
    <2>2. QED
      BY <1>p, <1>u, <2>1, OverKept, LiveStill
  <1>5. RequestsSound'
    <2>1. RequestSound(h)'
      BY <1>p, <1>u, <1>1, <1>w DEF RequestsSound, RequestSound
    <2>2. \A g \in Requests \ {h} : RequestSound(g)'
      BY <1>p, <1>u, <1>2, OtherSound DEF RequestsSound, Serves
    <2>3. QED
      BY <2>1, <2>2 DEF RequestsSound
  <1>6. Balances'
    <2> DEFINE T == request[h].todo
    <2>1. PICK b \in Batches :
             /\ T \subseteq Members(b)
             /\ batch'[b].total = batch[b].total /\ batch'[b].completed = batch[b].completed
             /\ batch'[b].failed = batch[b].failed - Retried(h)
             /\ \A c \in Batches \ {b} : batch'[c] = batch[c]
      BY <1>p, ResetEffects
    <2>2. /\ TakenBy(h) = {}
          /\ TakenBy(h)' = IF request[h].call = "retry" THEN T ELSE {}
      BY <1>1, <1>w DEF TakenBy
    <2>3. \A c, x : At(c, x)' = At(c, x) /\ MembersIn(c, x)' = MembersIn(c, x)
      BY <1>u DEF At, MembersIn, BatchOfJob, Parent, JobOf
    <2>4. /\ \A c \in Batches \ {b} : Taken(c)' = Taken(c)
          /\ Taken(b)' = Taken(b) \cup (IF request[h].call = "retry" THEN T ELSE {})
      <3>1. \A c \in Batches \ {b} : Members(c) \cap T = {}
        BY <2>1 DEF Members
      <3>2. ASSUME NEW c \in Batches \ {b}
            PROVE  Taken(c)' = Taken(c)
        <4>1. \A s : s \in Taken(c)' <=> s \in Taken(c)
          BY <1>2, <2>2, <3>1, TakenIs
        <4>2. QED
          BY <4>1
      <3>3. \A s : s \in Taken(b)' <=> \/ s \in Taken(b)
                                       \/ request[h].call = "retry" /\ s \in T
        BY <1>2, <2>1, <2>2, TakenIs
      <3>4. QED
        BY <3>2, <3>3
    <2>5. Taken(b) \cap T = {}
      <3>1. \A g \in Requests \ {h} : TakenBy(g) \cap T = {}
        BY <1>w DEF Apart, TakenBy
      <3>2. QED
        BY <1>2, <2>2, <3>1, TakenIs
    <2>6. IsFiniteSet(T) /\ Cardinality(T) \in Nat
      BY <2>1, RowsAssumption, FS_Subset, FS_CardinalityType DEF Members
    <2>7. Cardinality(Taken(b)') = Cardinality(Taken(b)) + Retried(h)
      <3>1. CASE request[h].call = "retry"
        <4>1. Cardinality(Taken(b) \cup T) = Cardinality(Taken(b)) + Cardinality(T)
          <5> HIDE DEF T
          <5>1. IsFiniteSet(Taken(b)) /\ Cardinality(Taken(b)) \in Nat
            BY Finite
          <5>2. Cardinality(Taken(b) \cap T) = 0
            BY <2>5, FS_EmptySet
          <5>3. Cardinality(Taken(b) \cup T) =
                  Cardinality(Taken(b)) + Cardinality(T) - Cardinality(Taken(b) \cap T)
            BY <2>6, <5>1, FS_Union
          <5>4. QED
            BY <2>6, <5>1, <5>2, <5>3
        <4>2. QED
          BY <2>4, <3>1, <4>1 DEF Retried
      <3>2. CASE request[h].call # "retry"
        <4>1. Taken(b)' = Taken(b) /\ Retried(h) = 0
          BY <2>4, <3>2 DEF Retried
        <4>2. QED
          BY <4>1, Finite
      <3>3. QED
        BY <3>1, <3>2
    <2>8. Balanced(b)'
      <3>1. /\ Retried(h) \in Int /\ batch[b].failed \in Int
            /\ Cardinality(At(b, "failed")) \in Nat /\ Cardinality(Taken(b)) \in Nat
            /\ Balanced(b)
        BY <1>p, <2>6, Types, Finite DEF Retried, BatchRow, Balances
      <3>2. QED
        BY <2>1, <2>3, <2>7, <3>1 DEF Balanced
    <2>9. \A c \in Batches \ {b} : Balanced(c)'
      BY <1>p, <2>1, <2>3, <2>4 DEF Balances, Balanced
    <2>10. QED
      BY <2>8, <2>9 DEF Balances
  <1>7. QED
    BY <1>p, <1>u, <1>3, <1>4, <1>5, <1>6, Kept, Parts

Creates(h, s, j) ==
    /\ job[j].status = "NONE" /\ job'[j].sub = s /\ job'[j].status = "PENDING"
    /\ \A i \in Jobs \ {j} : job'[i] = job[i]
    /\ request'[h].pc = "mark" /\ request'[h].call = request[h].call
    /\ request'[h].todo = request[h].todo \ {s}
    /\ request'[h].of = s /\ request'[h].job = j

Skips(h, s) ==
    /\ "create" \in FaultKinds
    /\ UNCHANGED job
    /\ request'[h].pc = Loop(h, request[h].todo \ {s})
    /\ request'[h].call = request[h].call
    /\ request'[h].todo = request[h].todo \ {s}

LEMMA CreateEffects ==
    ASSUME IInv, NEW h \in Requests, NEW s \in Subs, CreateJob(h, s),
           UNCHANGED <<pollerVars, workerVars>>
    PROVE  /\ request[h].pc = "create" /\ s \in request[h].todo /\ Serves(h)
           /\ UNCHANGED <<sub, batch, queue>>
           /\ Skips(h, s) \/ \E j \in Jobs : Creates(h, s, j)
  <1>t. /\ request \in [Requests -> Request] /\ request[h] \in Request
        /\ job \in [Jobs -> JobRow]
    BY Types
  <1> DEFINE rest == request[h].todo \ {s}
  <1>1. /\ request[h].pc = "create" /\ s \in request[h].todo /\ Serves(h)
        /\ UNCHANGED <<sub, batch, queue>>
    BY <1>t DEF CreateJob, Serves
  <1>2. ASSUME NEW j \in Jobs, job[j].status = "NONE",
               job' = [job EXCEPT ![j] = NewJob(s)],
               request' = [request EXCEPT ![h] =
                             [request[h] EXCEPT !.pc = "mark", !.todo = rest,
                                                !.of = s, !.job = j]]
        PROVE  Creates(h, s, j)
    <2>1. job'[j].sub = s /\ job'[j].status = "PENDING"
      BY <1>t, <1>2 DEF NewJob, NoJob
    <2>2. \A i \in Jobs \ {j} : job'[i] = job[i]
      BY <1>t, <1>2
    <2>3. /\ request'[h].pc = "mark" /\ request'[h].call = request[h].call
          /\ request'[h].todo = rest /\ request'[h].of = s /\ request'[h].job = j
      BY <1>t, <1>2 DEF Request
    <2>4. QED
      BY <1>2, <2>1, <2>2, <2>3 DEF Creates
  <1>3. ASSUME Fault("create"), UNCHANGED job,
               request' = [request EXCEPT ![h] =
                             [request[h] EXCEPT !.pc = Loop(h, rest), !.todo = rest]]
        PROVE  Skips(h, s)
    <2>1. /\ request'[h].pc = Loop(h, rest) /\ request'[h].call = request[h].call
          /\ request'[h].todo = rest
      BY <1>t, <1>3 DEF Request
    <2>2. QED
      BY <1>3, <2>1 DEF Skips, Fault
  <1>4. QED
    BY <1>1, <1>2, <1>3 DEF CreateJob

LEMMA SkipStep ==
    ASSUME IInv, Undisturbed, BatchInv, NEW h \in Requests, NEW s \in Subs,
           request[h].pc = "create", s \in request[h].todo, Serves(h), Skips(h, s),
           UNCHANGED <<sub, batch, queue>>
    PROVE  BatchInv'
  <1>p. /\ Submitted /\ SentOnce /\ AllHanded /\ HeldOnce /\ DeletedLast
        /\ LiveOnce /\ RequestsSound /\ Balances
    BY Parts
  <1>u. UNCHANGED <<job, sub, batch, queue, out, channel, stuck, old, pc, copy, delivery>>
    BY DEF Serves, Skips
  <1>1. /\ request'[h].pc \in {"create", "done"} /\ request'[h].call = request[h].call
        /\ request'[h].todo = request[h].todo \ {s}
        /\ request'[h].pc = "create" <=> request'[h].todo # {}
    BY DEF Skips, Loop
  <1>w. Working(h) = request[h].todo /\ Working(h)' = request[h].todo \ {s}
    BY <1>1 DEF Working
  <1>c. request[h].call # "retry"
    BY <1>p DEF RequestsSound, RequestSound, Undisturbed, Skips
  <1>3. SentOnce'
    <2>1. request'[h].pc \notin {"mark", "send"}
      BY <1>1
    <2>2. QED
      BY <1>p, <1>u, <2>1 DEF SentOnce, Unsent, Exists, Serves
  <1>4. LiveOnce'
    <2>1. \A j : Starting(j) => Starting(j)'
      BY <1>1 DEF Starting, Serves
    <2>2. QED
      BY <1>p, <1>u, <2>1, OverKept, LiveStill
  <1>5. RequestsSound'
    <2>1. RequestSound(h)'
      BY <1>p, <1>u, <1>1, <1>w DEF RequestsSound, RequestSound
    <2>2. \A g \in Requests \ {h} : RequestSound(g)'
      BY <1>p, <1>u, OtherSound DEF RequestsSound, Serves
    <2>3. QED
      BY <2>1, <2>2 DEF RequestsSound
  <1>6. Balances'
    <2>1. TakenBy(h)' = TakenBy(h)
      BY <1>1, <1>c DEF TakenBy
    <2>2. \A c : Taken(c)' = Taken(c)
      BY <2>1, TakenSame
    <2>3. \A c, x : At(c, x)' = At(c, x) /\ MembersIn(c, x)' = MembersIn(c, x)
      BY <1>u DEF At, MembersIn, BatchOfJob, Parent, JobOf
    <2>4. QED
      BY <1>p, <1>u, <2>2, <2>3 DEF Balances, Balanced
  <1>7. QED
    BY <1>p, <1>u, <1>3, <1>4, <1>5, <1>6, Kept, Parts

LEMMA CreateStep ==
    ASSUME IInv, Undisturbed, Apart, BatchInv, NEW h \in Requests, NEW s \in Subs,
           NEW j \in Jobs, request[h].pc = "create", s \in request[h].todo, Serves(h),
           Creates(h, s, j), UNCHANGED <<sub, batch, queue>>
    PROVE  BatchInv'
  <1>p. /\ Submitted /\ SentOnce /\ AllHanded /\ HeldOnce /\ DeletedLast
        /\ LiveOnce /\ RequestsSound /\ Balances
    BY Parts
  <1>u. UNCHANGED <<sub, batch, queue, out, channel, stuck, old, pc, copy, delivery>>
    BY DEF Serves
  <1>1. /\ job[j].status = "NONE" /\ job'[j].sub = s /\ job'[j].status = "PENDING"
        /\ \A i \in Jobs \ {j} : job'[i] = job[i]
    BY DEF Creates
  <1>2. /\ request'[h].pc = "mark" /\ request'[h].call = request[h].call
        /\ request'[h].todo = request[h].todo \ {s}
        /\ request'[h].of = s /\ request'[h].job = j
    BY DEF Creates
  <1>w. Working(h)' = Working(h) /\ Working(h) = request[h].todo
    BY <1>2 DEF Working
  <1>e. \A i : Exists(i) => i \in Jobs \ {j} /\ job'[i] = job[i]
    BY <1>1 DEF Exists
  <1>c. CreatedOnly
    BY Types
  <1>v. \A v \in Workers : pc[v] # "idle" =>
          /\ JobOf(v) \in Jobs \ {j} /\ job'[JobOf(v)] = job[JobOf(v)]
          /\ JobOf(v)' = JobOf(v) /\ Parent(v)' = Parent(v)
    BY <1>u, <1>c, <1>e DEF CreatedOnly, JobOf, Parent
  <1>3. Submitted'
    BY <1>p, <1>u, <1>1, <1>v DEF Submitted, Holding
  <1>4. SentOnce'
    <2>1. Unsent(j) /\ j \notin old
      BY <1>p, <1>c, <1>1 DEF SentOnce, Unsent, CreatedOnly, Exists
    <2>2. \A g \in Requests : request[g].pc \in {"mark", "send"} => request[g].job # j
      BY <1>c, <1>1 DEF CreatedOnly, Exists
    <2>3. \A i \in old : Exists(i)'
      BY <1>p, <1>e DEF SentOnce, Exists
    <2>4. QED
      BY <1>p, <1>u, <1>2, <2>1, <2>2, <2>3 DEF SentOnce, Unsent, Serves
  <1>5. DeletedLast'
    <2>1. \A i \in Jobs \ {j} : Ended(i)' <=> Ended(i)
      BY <1>1 DEF Ended
    <2>2. \A m \in DOMAIN queue : queue[m].job \in Jobs \ {j}
      BY <1>c, <1>e DEF CreatedOnly
    <2>3. (\A m \in DOMAIN queue : queue[m].state = "deleted" => Ended(queue[m].job))'
      BY <1>p, <1>u, <2>1, <2>2 DEF DeletedLast, Ended
    <2>4. \A v \in Workers : (pc[v] \in {"subDone", "subFailed"} \cup Counting =>
                                Ended(JobOf(v)))'
      BY <1>p, <1>u, <1>v DEF DeletedLast, Ended, Counting
    <2>5. QED
      BY <2>3, <2>4 DEF DeletedLast
  <1>6. LiveOnce'
    <2>1. \A i : Over(i)' <=> Over(i)
      BY <1>u, OverKept
    <2>2. \A i \in Jobs \ {j} : (Live(i)' <=> Live(i)) /\ job'[i].sub = job[i].sub
      BY <1>1, <2>1 DEF Live
    <2>3. \A i : Starting(i) => Starting(i)'
      BY DEF Starting, Serves
    <2>4. Starting(j)'
      BY <1>2 DEF Starting
    <2>5. ASSUME NEW i \in Jobs \ {j}, Live(i), job[i].sub = s
          PROVE  FALSE
      <3>1. sub[s] \in {"UPLOADED", "FAILED"}
        BY <1>p, <1>w, CallsKnown DEF RequestsSound, RequestSound
      <3>2. Starting(i)
        BY <1>p, <2>5, <3>1 DEF LiveOnce
      <3>3. PICK g \in Requests : request[g].pc = "mark" /\ request[g].job = i
        BY <3>2 DEF Starting
      <3>4. g # h /\ s \in Working(g)
        BY <1>p, <2>5, <3>3 DEF RequestsSound, RequestSound, Working
      <3>5. QED
        BY <1>w, <3>4 DEF Apart
    <2>6. QED
      BY <1>p, <1>u, <1>1, <2>2, <2>3, <2>4, <2>5 DEF LiveOnce
  <1>7. RequestsSound'
    <2>1. RequestSound(h)'
      BY <1>p, <1>u, <1>1, <1>2, <1>w DEF RequestsSound, RequestSound
    <2>2. \A g \in Requests : request[g].pc = "mark" =>
                                job'[request[g].job].sub = job[request[g].job].sub
      BY <1>c, <1>e DEF CreatedOnly
    <2>3. \A g \in Requests \ {h} : RequestSound(g)'
      BY <1>p, <1>u, <2>2, OtherSound DEF RequestsSound, Serves
    <2>4. QED
      BY <2>1, <2>3 DEF RequestsSound
  <1>8. Balances'
    <2>1. TakenBy(h)' = TakenBy(h)
      BY <1>2, <1>w DEF TakenBy
    <2>2. \A c : Taken(c)' = Taken(c)
      BY <2>1, TakenSame
    <2>3. \A c, x : MembersIn(c, x)' = MembersIn(c, x)
      BY <1>u DEF MembersIn
    <2>4. \A c : At(c, "completed")' = At(c, "completed") /\ At(c, "failed")' = At(c, "failed")
      BY <1>u, <1>1, AtSame
    <2>5. QED
      BY <1>p, <1>u, <2>2, <2>3, <2>4 DEF Balances, Balanced
  <1>9. QED
    BY <1>p, <1>u, <1>3, <1>4, <1>5, <1>6, <1>7, <1>8, Kept, Parts

LEMMA MarkStep ==
    ASSUME IInv, Undisturbed, Apart, BatchInv, NEW h \in Requests, MarkAnalyzing(h),
           UNCHANGED <<pollerVars, workerVars>>
    PROVE  BatchInv'
  <1>p. /\ Submitted /\ SentOnce /\ AllHanded /\ HeldOnce /\ DeletedLast
        /\ LiveOnce /\ RequestsSound /\ Balances
    BY Parts
  <1>u. UNCHANGED <<job, batch, queue, out, channel, stuck, old, pc, copy, delivery>>
    BY DEF MarkAnalyzing
  <1>1. /\ request[h].pc = "mark" /\ request'[h].pc = "send"
        /\ request'[h].todo = request[h].todo /\ request'[h].call = request[h].call
        /\ request'[h].job = request[h].job
    BY Types DEF MarkAnalyzing, Request
  <1>2. Serves(h)
    BY Types DEF MarkAnalyzing, Serves
  <1> DEFINE s == request[h].of
  <1>3. /\ s \in Subs /\ s \in Working(h) /\ s \notin request[h].todo
        /\ Working(h)' = Working(h) \ {s} /\ job[request[h].job].sub = s
    <2>1. /\ s \notin request[h].todo /\ job[request[h].job].sub = s
          /\ Exists(request[h].job)
      BY <1>p, <1>1, Types DEF RequestsSound, RequestSound, CreatedOnly
    <2>2. s \in Subs
      BY <1>p, <2>1 DEF Submitted, Exists
    <2>3. QED
      BY <1>1, <2>1, <2>2 DEF Working
  <1> HIDE DEF s
  <1>4. \A i \in Subs : sub'[i] = IF i = s THEN "ANALYZING" ELSE sub[i]
    BY <1>3, Types, NoSuchFault DEF MarkAnalyzing, s
  <1>5. SentOnce'
    BY <1>p, <1>u, <1>1, <1>2 DEF SentOnce, Unsent, Exists, Serves
  <1>6. LiveOnce'
    <2>1. \A i \in Jobs : Live(i)' <=> Live(i)
      BY <1>u, OverKept DEF Live
    <2>2. \A i \in Jobs : Starting(i) => Starting(i)' \/ job[i].sub = s
      BY <1>2, <1>3 DEF Starting, Serves
    <2>3. \A i \in Jobs : Live(i) => job[i].sub \in Subs
      BY <1>p DEF Live, Submitted
    <2>4. QED
      BY <1>p, <1>u, <1>4, <2>1, <2>2, <2>3 DEF LiveOnce
  <1>7. RequestsSound'
    <2>1. \A g \in Requests \ {h} : \A i \in Working(g) : i \in Subs /\ sub'[i] = sub[i]
      BY <1>p, <1>3, <1>4, WorkingSubs DEF Apart
    <2>2. \A g \in Requests \ {h} : RequestSound(g)'
      BY <1>p, <1>u, <1>2, <2>1, OtherSound DEF RequestsSound, Serves
    <2>3. \A i \in Working(h) \ {s} : sub'[i] = sub[i]
      BY <1>p, <1>4, WorkingSubs
    <2>4. RequestSound(h)'
      BY <1>p, <1>1, <1>3, <2>3 DEF RequestsSound, RequestSound
    <2>5. QED
      BY <2>2, <2>4 DEF RequestsSound
  <1>8. Balances'
    <2>1. /\ request[h].call = "retry" => sub[s] = "FAILED"
          /\ request[h].call # "retry" => sub[s] = "UPLOADED"
      BY <1>p, <1>1, <1>3, CallsKnown DEF RequestsSound, RequestSound
    <2>2. \A b, x : At(b, x)' = At(b, x)
      BY <1>u DEF At, BatchOfJob, Parent, JobOf
    <2>3. \A b : MembersIn(b, "DONE")' = MembersIn(b, "DONE")
      BY <1>3, <1>4, <2>1 DEF MembersIn, Members
    <2>4. \A b : MembersIn(b, "FAILED")' = MembersIn(b, "FAILED") \ {s}
      BY <1>3, <1>4 DEF MembersIn, Members
    <2>5. CASE request[h].call # "retry"
      <3>1. TakenBy(h)' = TakenBy(h)
        BY <1>1, <2>5 DEF TakenBy
      <3>2. \A b : Taken(b)' = Taken(b)
        BY <1>2, <3>1, TakenSame
      <3>3. \A b : MembersIn(b, "FAILED")' = MembersIn(b, "FAILED")
        BY <2>1, <2>4, <2>5 DEF MembersIn
      <3>4. QED
        BY <1>p, <1>u, <2>2, <2>3, <3>2, <3>3 DEF Balances, Balanced
    <2>6. CASE request[h].call = "retry"
      <3>1. TakenBy(h) = Working(h) /\ TakenBy(h)' = Working(h) \ {s}
        BY <1>1, <1>3, <2>6 DEF TakenBy
      <3>2. \A g \in Requests \ {h} : s \notin TakenBy(g)
        BY <1>3 DEF Apart, TakenBy
      <3>3. ASSUME NEW b
            PROVE  Taken(b)' = Taken(b) \ {s}
        <4>1. \A i : i \in Taken(b)' <=> i \in Taken(b) /\ i # s
          BY <1>2, <3>1, <3>2, TakenIs
        <4>2. QED
          BY <4>1
      <3>4. ASSUME NEW b \in Batches
            PROVE  Balanced(b)'
        <4>1. Balanced(b) /\ batch'[b] = batch[b]
          BY <1>p, <1>u DEF Balances
        <4>2. CASE s \in Members(b)
          <5>1. s \in MembersIn(b, "FAILED") /\ s \in Taken(b)
            BY <1>2, <1>3, <2>1, <2>6, <3>1, <4>2, TakenIs DEF MembersIn
          <5>2. /\ Cardinality(MembersIn(b, "FAILED")') = Cardinality(MembersIn(b, "FAILED")) - 1
                /\ Cardinality(Taken(b)') = Cardinality(Taken(b)) - 1
            BY <2>4, <3>3, <5>1, Finite, OneLess
          <5>3. /\ Cardinality(MembersIn(b, "FAILED")) \in Nat /\ Cardinality(Taken(b)) \in Nat
                /\ Cardinality(At(b, "failed")) \in Nat /\ batch[b].failed \in Int
            BY Finite, Types DEF BatchRow
          <5>4. QED
            BY <2>2, <2>3, <4>1, <5>2, <5>3 DEF Balanced
        <4>3. CASE s \notin Members(b)
          <5>1. Taken(b)' = Taken(b) /\ MembersIn(b, "FAILED")' = MembersIn(b, "FAILED")
            BY <2>4, <3>3, <4>3 DEF MembersIn, Taken
          <5>2. QED
            BY <2>2, <2>3, <4>1, <5>1 DEF Balanced
        <4>4. QED
          BY <4>2, <4>3
      <3>5. QED
        BY <3>4 DEF Balances
    <2>7. QED
      BY <2>5, <2>6
  <1>9. QED
    BY <1>p, <1>u, <1>5, <1>6, <1>7, <1>8, Kept, Parts

LEMMA EnqueueStep ==
    ASSUME IInv, Undisturbed, BatchInv, NEW h \in Requests, Enqueue(h),
           UNCHANGED <<pollerVars, workerVars>>
    PROVE  BatchInv'
  <1>p. /\ Submitted /\ SentOnce /\ AllHanded /\ HeldOnce /\ DeletedLast
        /\ LiveOnce /\ RequestsSound /\ Balances
    BY Parts
  <1>u. UNCHANGED <<job, sub, batch, out, channel, stuck, old, pc, copy, delivery>>
    BY DEF Enqueue
  <1>1. /\ request[h].pc = "send" /\ request'[h].pc \in {"create", "done"}
        /\ request'[h].pc = "create" <=> request[h].todo # {}
        /\ request'[h].todo = request[h].todo /\ request'[h].call = request[h].call
    BY Types DEF Enqueue, Request, Loop
  <1>2. Serves(h)
    BY Types DEF Enqueue, Serves
  <1>w. Working(h) = request[h].todo /\ Working(h)' = request[h].todo
    BY <1>1 DEF Working
  <1>j. PICK j : j = request[h].job
    OBVIOUS
  <1>3. UNCHANGED queue \/ Sent(j)
    BY <1>j, Types, SendShape DEF Enqueue
  <1>4. /\ Unsent(j) /\ j \notin old
        /\ \A g \in Requests \ {h} : request[g].pc \in {"mark", "send"} => request[g].job # j
    BY <1>p, <1>1, <1>j DEF SentOnce
  <1>5. SentOnce'
    <2>0. request'[h].pc \notin {"mark", "send"}
      BY <1>1
    <2>1. CASE UNCHANGED queue
      BY <1>p, <1>u, <1>2, <2>0, <2>1 DEF SentOnce, Unsent, Exists, Serves
    <2>2. CASE Sent(j)
      <3>1. \A m, n \in DOMAIN queue' : queue'[m].job = queue'[n].job => m = n
        BY <1>4, <1>p, <2>2 DEF SentOnce, Unsent, Sent
      <3>2. \A i : i # j /\ Unsent(i) => Unsent(i)'
        BY <2>2 DEF Unsent, Sent
      <3>3. \A i \in stuck : i # j
        BY <1>p, <1>4 DEF SentOnce
      <3>4. QED
        BY <1>p, <1>u, <1>2, <1>4, <2>0, <3>1, <3>2, <3>3 DEF SentOnce, Exists, Serves
    <2>3. QED
      BY <1>3, <2>1, <2>2
  <1>6. AllHanded'
    <2>1. \A d : Handed(d) => HandedNext(d)
      BY <1>3, HandedKept
    <2>2. Inflight' \subseteq Inflight
      BY <1>3 DEF Inflight, Sent
    <2>3. Held' = Held
      BY <1>u DEF Held
    <2>4. QED
      BY <1>p, <1>u, <2>1, <2>2, <2>3, AllHandedNext DEF AllHanded, Busy
  <1>7. DeletedLast'
    BY <1>p, <1>u, <1>3 DEF DeletedLast, Sent, JobOf, Ended
  <1>8. LiveOnce'
    <2>1. \A i : Starting(i) => Starting(i)'
      BY <1>1, <1>2 DEF Starting, Serves
    <2>2. \A i : Over(i)' <=> Over(i)
      BY <1>u, <1>3, OverKept
    <2>3. QED
      BY <1>p, <1>u, <2>1, <2>2, LiveStill
  <1>9. RequestsSound'
    <2>1. RequestSound(h)'
      BY <1>p, <1>u, <1>1, <1>w DEF RequestsSound, RequestSound
    <2>2. \A g \in Requests \ {h} : RequestSound(g)'
      BY <1>p, <1>u, <1>2, OtherSound DEF RequestsSound, Serves
    <2>3. QED
      BY <2>1, <2>2 DEF RequestsSound
  <1>10. Balances'
    <2>1. TakenBy(h)' = TakenBy(h)
      BY <1>1, <1>w DEF TakenBy
    <2>2. \A c : Taken(c)' = Taken(c)
      BY <1>2, <2>1, TakenSame
    <2>3. \A c, x : At(c, x)' = At(c, x) /\ MembersIn(c, x)' = MembersIn(c, x)
      BY <1>u DEF At, MembersIn, BatchOfJob, Parent, JobOf
    <2>4. QED
      BY <1>p, <1>u, <2>2, <2>3 DEF Balances, Balanced
  <1>11. QED
    BY <1>p, <1>u, <1>5, <1>6, <1>7, <1>8, <1>9, <1>10, Kept, Parts

LEMMA AgeStep ==
    ASSUME IInv, Undisturbed, BatchInv, NEW j \in Jobs, Age(j)
    PROVE  BatchInv'
  <1>p. /\ Submitted /\ SentOnce /\ AllHanded /\ HeldOnce /\ DeletedLast
        /\ LiveOnce /\ RequestsSound /\ Balances
    BY Parts
  <1>u. UNCHANGED <<job, sub, batch, queue, out, channel, stuck, pc, copy, delivery, request>>
    BY DEF Age
  <1>1. /\ Exists(j) /\ old' = old \cup {j}
        /\ \A h \in Requests : request[h].pc \in {"mark", "send"} => request[h].job # j
    BY NoSuchFault DEF Age, Exists
  <1>2. SentOnce'
    BY <1>p, <1>u, <1>1 DEF SentOnce, Unsent, Exists
  <1>3. QED
    BY <1>p, <1>u, <1>2, Kept, Parts

-----------------------------------------------------------------------------
(* The invariant *)

LEMMA BatchInvInit == Init /\ Undisturbed => BatchInv
  <1> SUFFICES ASSUME Init, Undisturbed
               PROVE  BatchInv
    OBVIOUS
  <1>1. /\ queue = << >> /\ out = {} /\ channel = << >> /\ stuck = {} /\ old = {}
        /\ DOMAIN queue = {} /\ DOMAIN channel = {}
        /\ \A w \in Workers : pc[w] = "idle"
        /\ \A j \in Jobs : job[j].status = "NONE"
        /\ \A s \in Subs : sub[s] = "UPLOADED"
        /\ \A h \in Requests : request[h] = NewRequest
    BY DEF Init, QueueInit, PollerInit, WorkerInit, ApiInit, RowsInit, NoJob
  <1>2. Submitted /\ SentOnce /\ HeldOnce /\ DeletedLast /\ AllHanded
    BY <1>1 DEF Submitted, SentOnce, Unsent, HeldOnce, DeletedLast, AllHanded, Busy, Inflight,
       Holding, Counting, NewRequest
  <1>3. LiveOnce
    BY <1>1 DEF LiveOnce, Live
  <1>4. RequestsSound
    BY <1>1 DEF RequestsSound, RequestSound, NewRequest, Working
  <1>5. ASSUME NEW b \in Batches
        PROVE  Balanced(b)
    <2>1. /\ batch[b].total = Cardinality(Members(b))
          /\ batch[b].completed = 0 /\ batch[b].failed = 0
      BY DEF Init, RowsInit
    <2>2. /\ At(b, "completed") = {} /\ At(b, "failed") = {} /\ Taken(b) = {}
          /\ MembersIn(b, "DONE") = {} /\ MembersIn(b, "FAILED") = {}
      BY <1>1 DEF At, Taken, MembersIn, Members, NewRequest
    <2>3. QED
      BY <2>1, <2>2, FS_EmptySet DEF Balanced
  <1>6. QED
    BY <1>2, <1>3, <1>4, <1>5 DEF BatchInv

LEMMA NextBatchInv ==
    ASSUME IInv, Undisturbed, Apart, BatchInv, [Next]_vars
    PROVE  BatchInv'
  <1>p. Submitted /\ RequestsSound /\ AllHanded
    BY Parts
  <1>1. ASSUME NEW w \in Workers, Take(w) \/ Step(w), UNCHANGED request
        PROVE  BatchInv'
    <2>1. CASE Take(w)
      BY <1>1, <2>1, TakeStep
    <2>2. CASE Ack(w)
      BY <1>1, <2>2, AckStep
    <2>3. CASE Step(w) /\ ~ Ack(w)
      BY <1>1, <1>p, <2>3, Effects, ProcessStep, UpdateStep, CountStep, DecideStep
    <2>4. QED
      BY <1>1, <2>1, <2>2, <2>3
  <1>2. CASE PollerNext /\ UNCHANGED <<workerVars, request>>
    BY <1>2, ReceiveStep, DispatchStep, SweepReadStep, SweepSendStep DEF PollerNext
  <1>3. CASE VisibilityTimeout
    BY <1>3, <1>p, NoSuchFault DEF VisibilityTimeout, AllHanded
  <1>4. CASE Crash
    BY <1>4, NoSuchFault DEF Crash
  <1>5. ASSUME NEW h \in Requests, UNCHANGED <<pollerVars, workerVars>>,
               \/ \E s \in Subs : StartAnalysis(h, s) \/ SharedAnalyze(h, s)
               \/ \E b \in Batches : AnalyzeBatch(h, b) \/ RetryBatch(h, b)
               \/ ApiStep(h)
               \/ ApiCrash(h)
        PROVE  BatchInv'
    <2>1. CASE \E s \in Subs : StartAnalysis(h, s) \/ SharedAnalyze(h, s)
      BY <2>1 DEF StartAnalysis, SharedAnalyze, Accept, Undisturbed
    <2>2. CASE \E b \in Batches : AnalyzeBatch(h, b) \/ RetryBatch(h, b)
      BY <1>5, <2>2, AcceptStep DEF AnalyzeBatch, RetryBatch
    <2>3. CASE ResetBatch(h)
      BY <1>5, <2>3, ResetStep
    <2>4. CASE \E s \in Subs : CreateJob(h, s)
      <3>1. PICK s \in Subs : CreateJob(h, s)
        BY <2>4
      <3>2. /\ request[h].pc = "create" /\ s \in request[h].todo /\ Serves(h)
            /\ UNCHANGED <<sub, batch, queue>>
            /\ Skips(h, s) \/ \E j \in Jobs : Creates(h, s, j)
        BY <1>5, <3>1, CreateEffects
      <3>3. QED
        BY <3>2, SkipStep, CreateStep
    <2>5. CASE MarkAnalyzing(h)
      BY <1>5, <2>5, MarkStep
    <2>6. CASE Enqueue(h)
      BY <1>5, <2>6, EnqueueStep
    <2>7. CASE ApiCrash(h)
      BY <2>7, NoSuchFault DEF ApiCrash
    <2>8. QED
      BY <1>5, <2>1, <2>2, <2>3, <2>4, <2>5, <2>6, <2>7 DEF ApiStep
  <1>6. ASSUME NEW j \in Jobs, Age(j)
        PROVE  BatchInv'
    BY <1>6, AgeStep
  <1>7. CASE UNCHANGED vars
    BY <1>7, Kept, Parts
  <1>8. QED
    BY <1>1, <1>2, <1>3, <1>4, <1>5, <1>6, <1>7 DEF Next, WorkerNext, ApiNext

LEMMA BatchInvStep ==
    ASSUME Undisturbed
    PROVE  IInv /\ Apart /\ BatchInv /\ [Next]_vars => BatchInv'
  BY NextBatchInv

(* Two requests that are not the same kind of work never work on one submission:
   the one takes files that are UPLOADED, the other files that are FAILED. *)
LEMMA OneOfEachApart ==
    ASSUME Undisturbed, OneOfEach
    PROVE  BatchInv => Apart
  <1> SUFFICES ASSUME RequestsSound, NEW g \in Requests, NEW h \in Requests, g # h,
                      NEW s \in Working(g), s \in Working(h)
               PROVE  FALSE
    BY DEF Apart, BatchInv
  <1>1. request[g].call # "none" /\ request[h].call # "none"
    BY DEF RequestsSound, RequestSound, Working
  <1>2. request[g].call \in Calls[g] /\ request[h].call \in Calls[h]
    BY <1>1 DEF RequestsSound, RequestSound
  <1>3. request[g].call # request[h].call
    BY <1>2 DEF OneOfEach
  <1>4. QED
    BY <1>1, <1>3, CallsKnown DEF RequestsSound, RequestSound

(* At rest nothing is on its way, so the balance is the count. *)
LEMMA RestCounts ==
    ASSUME IInv, BatchInv
    PROVE  CountersExact
  <1> SUFFICES ASSUME Quiet, NEW b \in Batches
               PROVE  /\ batch[b].completed = Cardinality(MembersIn(b, "DONE"))
                      /\ batch[b].failed = Cardinality(MembersIn(b, "FAILED"))
    BY DEF CountersExact
  <1>1. Balanced(b) /\ batch[b].completed \in Int /\ batch[b].failed \in Int
    BY Types DEF BatchInv, BatchRow
  <1>2. At(b, "completed") = {} /\ At(b, "failed") = {} /\ Taken(b) = {}
    BY DEF Quiet, At, Taken
  <1>3. QED
    BY <1>1, <1>2, FS_EmptySet DEF Balanced

-----------------------------------------------------------------------------
(* The verdict, when no submission is analysed again *)

Verdicts == {"check", "DONE", "PARTIAL_FAIL"}

LEMMA NothingTaken ==
    ASSUME Undisturbed, AnalyzeOnly, RequestsSound
    PROVE  \A b : Taken(b) = {}
  BY DEF Taken, RequestsSound, RequestSound, AnalyzeOnly

LEMMA Squeezed ==
    ASSUME NEW c \in Int, NEW f \in Int, NEW a \in Nat, NEW z \in Nat, NEW d \in Nat,
           NEW e \in Nat, NEW m \in Nat, c + a = d, f + z = e, c + f >= m, d + e <= m
    PROVE  d + e = m /\ f = e
  OBVIOUS

(* The counters never run ahead: a batch whose counters add up is processed, and its
   failed counter tells whether a submission failed. *)
LEMMA AddUp ==
    ASSUME IInv, Undisturbed, AnalyzeOnly, BatchInv, NEW b \in Batches, AllProcessed(batch[b])
    PROVE  Processed(b) /\ RightVerdict(b, Verdict(batch[b]))
  <1> DEFINE D == MembersIn(b, "DONE")
             F == MembersIn(b, "FAILED")
  <1>1. /\ batch[b].completed \in Int /\ batch[b].failed \in Int
        /\ batch[b].total = Cardinality(Members(b))
        /\ batch[b].completed + Cardinality(At(b, "completed")) = Cardinality(D)
        /\ batch[b].failed + Cardinality(At(b, "failed")) = Cardinality(F)
        /\ Cardinality(At(b, "completed")) \in Nat /\ Cardinality(At(b, "failed")) \in Nat
    <2>1. Balanced(b) /\ Taken(b) = {} /\ Cardinality(Taken(b)) = 0
      BY NothingTaken, FS_EmptySet DEF BatchInv
    <2>2. /\ Cardinality(At(b, "completed")) \in Nat /\ Cardinality(At(b, "failed")) \in Nat
          /\ batch[b].completed \in Int /\ batch[b].failed \in Int
      BY Finite, Types DEF BatchRow
    <2>3. QED
      BY <2>1, <2>2 DEF Balanced
  <1>2. /\ IsFiniteSet(D) /\ IsFiniteSet(F) /\ D \cap F = {}
        /\ Cardinality(D) \in Nat /\ Cardinality(F) \in Nat
        /\ D \cup F \subseteq Members(b) /\ IsFiniteSet(Members(b))
    <2>1. Members(b) \subseteq Subs /\ D \cup F \subseteq Members(b) /\ D \cap F = {}
      BY DEF Members, MembersIn
    <2>2. QED
      BY <2>1, Finite, RowsAssumption, FS_Subset
  <1> HIDE DEF D, F
  <1>3. Cardinality(D \cup F) = Cardinality(D) + Cardinality(F)
    <2>1. Cardinality(D \cap F) = 0
      BY <1>2, FS_EmptySet
    <2>2. Cardinality(D \cup F) = Cardinality(D) + Cardinality(F) - Cardinality(D \cap F)
      BY <1>2, FS_Union
    <2>3. QED
      BY <1>2, <2>1, <2>2
  <1>4. batch[b].completed + batch[b].failed >= Cardinality(Members(b))
    BY <1>1 DEF AllProcessed
  <1>5. Cardinality(Members(b)) \in Nat /\ Cardinality(D \cup F) <= Cardinality(Members(b))
    BY <1>2, FS_Subset, FS_CardinalityType
  <1>6. /\ Cardinality(D \cup F) = Cardinality(Members(b))
        /\ batch[b].failed = Cardinality(F)
    <2>1. Cardinality(D) + Cardinality(F) <= Cardinality(Members(b))
      BY <1>3, <1>5
    <2>2. /\ Cardinality(D) + Cardinality(F) = Cardinality(Members(b))
          /\ batch[b].failed = Cardinality(F)
      BY <1>1, <1>2, <1>4, <1>5, <2>1, Squeezed
    <2>3. QED
      BY <1>3, <2>2
  <1>7. D \cup F = Members(b)
    BY <1>2, <1>6, FS_Subset
  <1>8. F = {} <=> D = Members(b)
    BY <1>2, <1>7
  <1>9. batch[b].failed > 0 <=> F # {}
    BY <1>2, <1>6, FS_EmptySet
  <1>10. QED
    BY <1>7, <1>8, <1>9 DEF Processed, RightVerdict, Verdict, D, F

(* A submission that is DONE or FAILED stays so. *)
SubsFinal == \A s \in Subs : sub[s] \in {"DONE", "FAILED"} => sub'[s] = sub[s]

RightNext(b, v) ==
    /\ Members(b) = {s \in Members(b) : sub'[s] \in {"DONE", "FAILED"}}
    /\ v = "DONE" <=> Members(b) = {s \in Members(b) : sub'[s] = "DONE"}

LEMMA VerdictStays ==
    ASSUME SubsFinal
    PROVE  \A b, v : RightVerdict(b, v) => RightNext(b, v)
  <1> SUFFICES ASSUME NEW b, NEW v, RightVerdict(b, v)
               PROVE  RightNext(b, v)
    OBVIOUS
  <1>1. \A s \in Members(b) : s \in Subs /\ sub[s] \in {"DONE", "FAILED"} /\ sub'[s] = sub[s]
    BY DEF RightVerdict, Processed, MembersIn, Members, SubsFinal
  <1>2. QED
    BY <1>1 DEF RightVerdict, RightNext, MembersIn

(* The four conjuncts of VerdictInv, before a step and after it. *)
LEMMA VerdictParts ==
    VerdictInv <=>
      /\ \A w \in Workers : pc[w] \in Verdicts => BatchOfJob(w) \in Batches
      /\ \A w \in Workers :
           pc[w] \in {"DONE", "PARTIAL_FAIL"} => RightVerdict(BatchOfJob(w), pc[w])
      /\ \A b \in Batches : Finalised(b) => RightVerdict(b, batch[b].status)
      /\ \A b \in Batches : AllProcessed(batch[b]) =>
           Finalised(b) \/ \E w \in Workers : pc[w] \in Verdicts /\ BatchOfJob(w) = b
  <1>1. \A b : (\E w \in Workers : pc[w] \in Verdicts /\ BatchOfJob(w) = b)
               <=> At(b, "check") \cup At(b, "DONE") \cup At(b, "PARTIAL_FAIL") # {}
    BY DEF At, Verdicts
  <1>2. QED
    BY <1>1 DEF VerdictInv, Verdicts

LEMMA VerdictPartsNext ==
    VerdictInv' <=>
      /\ \A w \in Workers : pc'[w] \in Verdicts => BatchOfJob(w)' \in Batches
      /\ \A w \in Workers :
           pc'[w] \in {"DONE", "PARTIAL_FAIL"} => RightNext(BatchOfJob(w)', pc'[w])
      /\ \A b \in Batches : Finalised(b)' => RightNext(b, batch'[b].status)
      /\ \A b \in Batches : AllProcessed(batch'[b]) =>
           Finalised(b)' \/ \E w \in Workers : pc'[w] \in Verdicts /\ BatchOfJob(w)' = b
  <1>1. \A b : (\E w \in Workers : pc'[w] \in Verdicts /\ BatchOfJob(w)' = b)
               <=> (At(b, "check") \cup At(b, "DONE") \cup At(b, "PARTIAL_FAIL") # {})'
    BY DEF At, Verdicts
  <1>2. (\A w \in Workers : pc[w] \in {"DONE", "PARTIAL_FAIL"} =>
           RightVerdict(BatchOfJob(w), pc[w]))'
        <=> \A w \in Workers : pc'[w] \in {"DONE", "PARTIAL_FAIL"} =>
              RightNext(BatchOfJob(w)', pc'[w])
    BY DEF RightVerdict, RightNext, Processed, MembersIn, Members
  <1>3. (\A b \in Batches : Finalised(b) => RightVerdict(b, batch[b].status))'
        <=> \A b \in Batches : Finalised(b)' => RightNext(b, batch'[b].status)
    BY DEF RightVerdict, RightNext, Processed, MembersIn, Members
  <1>4. VerdictInv' <=>
          /\ (\A w \in Workers : pc[w] \in Verdicts => BatchOfJob(w) \in Batches)'
          /\ (\A w \in Workers : pc[w] \in {"DONE", "PARTIAL_FAIL"} =>
                RightVerdict(BatchOfJob(w), pc[w]))'
          /\ (\A b \in Batches : Finalised(b) => RightVerdict(b, batch[b].status))'
          /\ \A b \in Batches : AllProcessed(batch'[b]) =>
                Finalised(b)' \/ (At(b, "check") \cup At(b, "DONE")
                                    \cup At(b, "PARTIAL_FAIL") # {})'
    BY DEF VerdictInv, Verdicts
  <1>5. QED
    BY <1>1, <1>2, <1>3, <1>4

(* Steps that take no goroutine to or from a verdict. *)
LEMMA VerdictKept ==
    ASSUME VerdictInv, SubsFinal,
           \A w \in Workers : pc[w] \in Verdicts \/ pc'[w] \in Verdicts =>
              pc'[w] = pc[w] /\ BatchOfJob(w)' = BatchOfJob(w),
           \A b \in Batches : \/ batch'[b] = batch[b]
                              \/ ~ Finalised(b)' /\ ~ AllProcessed(batch'[b])
    PROVE  VerdictInv'
  <1>1. /\ \A w \in Workers : pc[w] \in Verdicts => BatchOfJob(w) \in Batches
        /\ \A w \in Workers :
             pc[w] \in {"DONE", "PARTIAL_FAIL"} => RightVerdict(BatchOfJob(w), pc[w])
        /\ \A b \in Batches : Finalised(b) => RightVerdict(b, batch[b].status)
        /\ \A b \in Batches : AllProcessed(batch[b]) =>
             Finalised(b) \/ \E w \in Workers : pc[w] \in Verdicts /\ BatchOfJob(w) = b
    BY VerdictParts
  <1>2. \A w \in Workers : pc'[w] \in Verdicts => BatchOfJob(w)' \in Batches
    BY <1>1
  <1>3. \A w \in Workers :
          pc'[w] \in {"DONE", "PARTIAL_FAIL"} => RightNext(BatchOfJob(w)', pc'[w])
    <2>1. \A w \in Workers : pc'[w] \in {"DONE", "PARTIAL_FAIL"} =>
            /\ pc[w] \in {"DONE", "PARTIAL_FAIL"} /\ pc'[w] = pc[w]
            /\ BatchOfJob(w)' = BatchOfJob(w)
      BY DEF Verdicts
    <2>2. QED
      BY <1>1, <2>1, VerdictStays
  <1>4. \A b \in Batches : Finalised(b)' => batch'[b] = batch[b] /\ Finalised(b)
    BY DEF Finalised
  <1>5. \A b \in Batches : Finalised(b)' => RightNext(b, batch'[b].status)
    BY <1>1, <1>4, VerdictStays
  <1>6. ASSUME NEW b \in Batches, AllProcessed(batch'[b])
        PROVE  Finalised(b)' \/ \E w \in Workers : pc'[w] \in Verdicts /\ BatchOfJob(w)' = b
    <2>1. batch'[b] = batch[b]
      BY <1>6
    <2>2. CASE Finalised(b)
      BY <2>1, <2>2 DEF Finalised
    <2>3. CASE \E w \in Workers : pc[w] \in Verdicts /\ BatchOfJob(w) = b
      BY <2>3
    <2>4. QED
      BY <1>1, <1>6, <2>1, <2>2, <2>3
  <1>7. QED
    BY <1>2, <1>3, <1>5, <1>6, VerdictPartsNext

(* Only an ANALYZING submission gets its result, and only an UPLOADED one becomes
   ANALYZING. *)
LEMMA SubsFinalStep ==
    ASSUME IInv, Undisturbed, AnalyzeOnly, BatchInv, [Next]_vars
    PROVE  SubsFinal
  <1>p. /\ Submitted /\ SentOnce /\ AllHanded /\ HeldOnce /\ DeletedLast
        /\ LiveOnce /\ RequestsSound /\ Balances
    BY Parts
  <1>u. UNCHANGED sub => SubsFinal
    BY DEF SubsFinal
  <1>1. ASSUME NEW w \in Workers, Step(w)
        PROVE  SubsFinal
    <2>1. CASE Ack(w)
      BY <1>u, <2>1 DEF Ack
    <2>2. CASE ~ Ack(w)
      <3>1. \/ UNCHANGED sub
            \/ /\ pc[w] \in {"subDone", "subFailed"}
               /\ \E st : sub' = [sub EXCEPT ![Parent(w)] = st]
        BY <1>1, <1>p, <2>2, Effects DEF Processes, Updates, Counts, Checks, Settles
      <3>2. CASE UNCHANGED sub
        BY <1>u, <3>2
      <3>3. CASE /\ pc[w] \in {"subDone", "subFailed"}
                 /\ \E st : sub' = [sub EXCEPT ![Parent(w)] = st]
        <4>1. sub[Parent(w)] = "ANALYZING"
          BY <1>p, <3>3, WorkedOn DEF Counting
        <4>2. QED
          BY <3>3, <4>1, Types DEF SubsFinal
      <3>4. QED
        BY <3>1, <3>2, <3>3
    <2>3. QED
      BY <2>1, <2>2
  <1>2. ASSUME NEW h \in Requests, MarkAnalyzing(h)
        PROVE  SubsFinal
    <2>1. request[h].pc = "mark" /\ request[h].call = "analyze"
      BY <1>2, <1>p DEF MarkAnalyzing, RequestsSound, RequestSound, AnalyzeOnly
    <2>2. sub[request[h].of] = "UPLOADED"
      BY <1>p, <2>1 DEF RequestsSound, RequestSound, Working
    <2>3. QED
      BY <1>2, <2>2, Types, NoSuchFault DEF MarkAnalyzing, SubsFinal
  <1>3. QED
    BY <1>u, <1>1, <1>2
    DEF Next, WorkerNext, Take, PollerNext, Receive, Dispatch, SweepRead, SweepSend,
        VisibilityTimeout, Crash, ApiNext, ApiStep, StartAnalysis, SharedAnalyze,
        AnalyzeBatch, RetryBatch, Accept, ResetBatch, CreateJob, Enqueue, ApiCrash, Age

(* The steps that decide: count, read back, write the verdict. *)
LEMMA VerdictStep ==
    ASSUME IInv, Undisturbed, AnalyzeOnly, BatchInv, VerdictInv, SubsFinal,
           NEW w \in Workers, Moves(w), Counts(w) \/ Checks(w) \/ Settles(w)
    PROVE  VerdictInv'
  <1>p. /\ Submitted /\ SentOnce /\ AllHanded /\ HeldOnce /\ DeletedLast
        /\ LiveOnce /\ RequestsSound /\ Balances
    BY Parts
  <1>i. /\ \A v \in Workers : pc[v] \in Verdicts => BatchOfJob(v) \in Batches
        /\ \A v \in Workers :
             pc[v] \in {"DONE", "PARTIAL_FAIL"} => RightVerdict(BatchOfJob(v), pc[v])
        /\ \A b \in Batches : Finalised(b) => RightVerdict(b, batch[b].status)
        /\ \A b \in Batches : AllProcessed(batch[b]) =>
             Finalised(b) \/ \E v \in Workers : pc[v] \in Verdicts /\ BatchOfJob(v) = b
    BY VerdictParts
  <1>v. /\ \A v \in Workers \ {w} : pc'[v] = pc[v]
        /\ \A v \in Workers : BatchOfJob(v)' = BatchOfJob(v)
        /\ pc[w] # "idle"
    BY DEF Moves, Counts, Checks, Settles, BatchOfJob, Parent, JobOf
  <1>n. \A b, v : RightVerdict(b, v) => RightNext(b, v)
    BY VerdictStays
  <1> DEFINE B == BatchOfJob(w)
  <1>t. /\ batch \in [Batches -> BatchRow]
        /\ \A b \in Batches : batch[b] \in BatchRow
    BY Types
  <1> HIDE DEF B
  <1>1. CASE Counts(w)
    <2>1. /\ pc[w] \in {"completed", "failed"} /\ pc'[w] \in {"ack", "check"}
          /\ pc[w] \notin Verdicts /\ pc'[w] \notin {"DONE", "PARTIAL_FAIL"}
      BY <1>1 DEF Counts, Verdicts
    <2>2. \/ pc'[w] = "ack" /\ UNCHANGED batch
          \/ /\ pc'[w] = "check" /\ B \in Batches
             /\ batch' = [batch EXCEPT ![B] = Counted(batch[B], pc[w])]
      BY <1>1, <1>p, <1>v, InBatch DEF Counts, B
    <2>3. \A b \in Batches : batch'[b].status = batch[b].status
      BY <1>t, <2>2, CountedFields
    <2>4. \A b \in Batches : Finalised(b)' <=> Finalised(b)
      BY <2>3 DEF Finalised
    <2>5. \A v \in Workers : pc'[v] \in Verdicts => BatchOfJob(v)' \in Batches
      BY <1>i, <1>v, <2>1, <2>2 DEF Verdicts, B
    <2>6. \A v \in Workers :
            pc'[v] \in {"DONE", "PARTIAL_FAIL"} => RightNext(BatchOfJob(v)', pc'[v])
      BY <1>i, <1>v, <1>n, <2>1
    <2>7. \A b \in Batches : Finalised(b)' => RightNext(b, batch'[b].status)
      BY <1>i, <1>n, <2>3, <2>4
    <2>8. ASSUME NEW b \in Batches, AllProcessed(batch'[b])
          PROVE  Finalised(b)' \/ \E v \in Workers : pc'[v] \in Verdicts /\ BatchOfJob(v)' = b
      <3>1. CASE pc'[w] = "check" /\ b = B
        BY <1>v, <3>1 DEF Verdicts, B
      <3>2. CASE batch'[b] = batch[b]
        <4>1. Finalised(b) \/ \E v \in Workers : pc[v] \in Verdicts /\ BatchOfJob(v) = b
          BY <1>i, <2>8, <3>2
        <4>2. QED
          BY <1>v, <2>1, <2>4, <4>1
      <3>3. QED
        BY <1>t, <2>2, <3>1, <3>2
    <2>9. QED
      BY <2>5, <2>6, <2>7, <2>8, VerdictPartsNext
  <1>2. CASE Checks(w)
    <2>1. /\ pc[w] = "check" /\ UNCHANGED batch /\ B \in Batches
          /\ pc'[w] = IF AllProcessed(batch[B]) THEN Verdict(batch[B]) ELSE "ack"
      BY <1>2, <1>i DEF Checks, Verdicts, B
    <2>2. AllProcessed(batch[B]) => RightVerdict(B, Verdict(batch[B]))
      BY <2>1, AddUp
    <2>3. /\ pc'[w] \in {"DONE", "PARTIAL_FAIL", "ack"}
          /\ pc'[w] # "ack" => RightVerdict(B, pc'[w])
      BY <2>1, <2>2 DEF Verdict
    <2>4. \A v \in Workers : pc'[v] \in Verdicts => BatchOfJob(v)' \in Batches
      BY <1>i, <1>v, <2>1 DEF B
    <2>5. \A v \in Workers :
            pc'[v] \in {"DONE", "PARTIAL_FAIL"} => RightNext(BatchOfJob(v)', pc'[v])
      BY <1>i, <1>v, <1>n, <2>3 DEF B
    <2>6. \A b \in Batches : Finalised(b)' => RightNext(b, batch'[b].status)
      BY <1>i, <1>n, <2>1 DEF Finalised
    <2>7. ASSUME NEW b \in Batches, AllProcessed(batch'[b])
          PROVE  Finalised(b)' \/ \E v \in Workers : pc'[v] \in Verdicts /\ BatchOfJob(v)' = b
      <3>1. AllProcessed(batch[b])
        BY <2>1, <2>7
      <3>2. CASE Finalised(b)
        BY <2>1, <3>2 DEF Finalised
      <3>3. CASE b = B
        <4>1. pc'[w] \in Verdicts
          BY <2>1, <3>1, <3>3 DEF Verdict, Verdicts
        <4>2. QED
          BY <1>v, <3>3, <4>1 DEF B
      <3>4. CASE ~ Finalised(b) /\ b # B
        <4>1. PICK v \in Workers : pc[v] \in Verdicts /\ BatchOfJob(v) = b
          BY <1>i, <3>1, <3>4
        <4>2. v # w
          BY <3>4, <4>1 DEF B
        <4>3. QED
          BY <1>v, <4>1, <4>2
      <3>5. QED
        BY <3>2, <3>3, <3>4
    <2>8. QED
      BY <2>4, <2>5, <2>6, <2>7, VerdictPartsNext
  <1>3. CASE Settles(w)
    <2>1. /\ pc[w] \in {"DONE", "PARTIAL_FAIL"} /\ pc[w] \in Verdicts
          /\ pc'[w] \notin Verdicts /\ B \in Batches
          /\ batch' = [batch EXCEPT ![B].status = pc[w]]
          /\ RightVerdict(B, pc[w])
      BY <1>3, <1>i DEF Settles, Verdicts, B
    <2>2. /\ batch'[B].status = pc[w]
          /\ batch'[B].total = batch[B].total
          /\ \A b \in Batches \ {B} : batch'[b] = batch[b]
      BY <1>t, <2>1 DEF BatchRow
    <2>3. batch'[B].status \in {"DONE", "PARTIAL_FAIL"}
      BY <2>1, <2>2
    <2>4. \A v \in Workers : pc'[v] \in Verdicts => BatchOfJob(v)' \in Batches
      BY <1>i, <1>v, <2>1
    <2>5. \A v \in Workers :
            pc'[v] \in {"DONE", "PARTIAL_FAIL"} => RightNext(BatchOfJob(v)', pc'[v])
      <3>1. \A v \in Workers : pc'[v] \in {"DONE", "PARTIAL_FAIL"} => v # w /\ pc'[v] = pc[v]
        BY <1>v, <2>1 DEF Verdicts
      <3>2. QED
        BY <1>i, <1>v, <1>n, <3>1
    <2>6. ASSUME NEW b \in Batches, Finalised(b)'
          PROVE  RightNext(b, batch'[b].status)
      <3>1. CASE b = B
        BY <1>n, <2>1, <2>2, <3>1
      <3>2. CASE b # B
        BY <1>i, <1>n, <2>2, <2>6, <3>2 DEF Finalised
      <3>3. QED
        BY <3>1, <3>2
    <2>7. ASSUME NEW b \in Batches, AllProcessed(batch'[b])
          PROVE  Finalised(b)' \/ \E v \in Workers : pc'[v] \in Verdicts /\ BatchOfJob(v)' = b
      <3>1. CASE b = B
        BY <2>3, <3>1 DEF Finalised
      <3>2. CASE b # B
        <4>1. batch'[b] = batch[b] /\ (Finalised(b) => Finalised(b)')
          BY <2>2, <3>2 DEF Finalised
        <4>2. \/ Finalised(b)
              \/ \E v \in Workers : pc[v] \in Verdicts /\ BatchOfJob(v) = b
          BY <1>i, <2>7, <4>1
        <4>3. \A v \in Workers : BatchOfJob(v) = b => v # w
          BY <3>2 DEF B
        <4>4. QED
          BY <1>v, <4>1, <4>2, <4>3
      <3>3. QED
        BY <3>1, <3>2
    <2>8. QED
      BY <2>4, <2>5, <2>6, <2>7, VerdictPartsNext
  <1>4. QED
    BY <1>1, <1>2, <1>3

(* A batch that is reset has submissions which are still UPLOADED. *)
LEMMA ResetOpen ==
    ASSUME IInv, Undisturbed, AnalyzeOnly, BatchInv, NEW h \in Requests, ResetBatch(h)
    PROVE  \A b \in Batches : \/ batch'[b] = batch[b]
                              \/ ~ Finalised(b)' /\ ~ AllProcessed(batch'[b])
  <1>p. RequestsSound
    BY Parts
  <1>1. PICK b \in Batches :
             /\ request[h].todo \subseteq Members(b)
             /\ batch'[b].total = batch[b].total /\ batch'[b].completed = batch[b].completed
             /\ batch'[b].failed = batch[b].failed - Retried(h)
             /\ \A c \in Batches \ {b} : batch'[c] = batch[c]
    BY <1>p, ResetEffects
  <1>2. /\ request[h].call = "analyze" /\ request[h].pc = "reset" /\ request[h].todo # {}
        /\ \A s \in request[h].todo : sub[s] = "UPLOADED"
    BY <1>p DEF ResetBatch, RequestsSound, RequestSound, AnalyzeOnly, Working
  <1>3. ~ Processed(b)
    BY <1>1, <1>2 DEF Processed, MembersIn
  <1>4. ~ AllProcessed(batch[b])
    BY <1>3, AddUp
  <1>5. batch'[b].failed = batch[b].failed
    BY <1>1, <1>2, Types DEF Retried, BatchRow
  <1>6. ~ AllProcessed(batch'[b])
    BY <1>1, <1>4, <1>5 DEF AllProcessed
  <1>7. batch'[b].status = "PROCESSING"
    <2>1. BatchOfRequest(h) = b
      BY <1>1, <1>2 DEF BatchOfRequest, Members
    <2>2. batch' = [batch EXCEPT ![b].status = "PROCESSING", ![b].failed = @ - Retried(h)]
      BY <2>1, NoSuchFault DEF ResetBatch
    <2>3. QED
      BY <2>2, Types DEF BatchRow
  <1>8. QED
    BY <1>1, <1>6, <1>7 DEF Finalised

LEMMA NextVerdictInv ==
    ASSUME IInv, Undisturbed, AnalyzeOnly, BatchInv, VerdictInv, [Next]_vars
    PROVE  VerdictInv'
  <1>p. Submitted /\ AllHanded
    BY Parts
  <1>f. SubsFinal
    BY SubsFinalStep
  <1>k. ASSUME UNCHANGED <<pc, delivery>>,
               \A b \in Batches : \/ batch'[b] = batch[b]
                                  \/ ~ Finalised(b)' /\ ~ AllProcessed(batch'[b]),
               \A j \in Jobs : job[j].status # "NONE" => job'[j].sub = job[j].sub
        PROVE  VerdictInv'
    <2>1. \A w \in Workers : pc[w] # "idle" => BatchOfJob(w)' = BatchOfJob(w)
      BY <1>k, Types DEF CreatedOnly, Exists, BatchOfJob, Parent, JobOf
    <2>2. QED
      BY <1>f, <1>k, <2>1, VerdictKept DEF Verdicts
  <1>1. ASSUME NEW w \in Workers, Take(w) \/ Step(w)
        PROVE  VerdictInv'
    <2>1. CASE Take(w) \/ Ack(w)
      <3>1. /\ pc[w] \notin Verdicts /\ pc'[w] \notin Verdicts
            /\ \A v \in Workers \ {w} : pc'[v] = pc[v] /\ delivery'[v] = delivery[v]
            /\ UNCHANGED <<job, batch>>
        BY <2>1, Types DEF Take, Ack, Goto, Forget, Verdicts
      <3>2. \A v \in Workers \ {w} : BatchOfJob(v)' = BatchOfJob(v)
        BY <3>1 DEF BatchOfJob, Parent, JobOf
      <3>3. QED
        BY <1>f, <3>1, <3>2, VerdictKept
    <2>2. CASE Step(w) /\ ~ Ack(w)
      <3>0. /\ Moves(w)
            /\ \/ Processes(w)
               \/ Updates(w, "subDone", "completed", "DONE")
               \/ Updates(w, "subFailed", "failed", "FAILED")
               \/ Counts(w) \/ Checks(w) \/ Settles(w)
        BY <1>p, <2>2, Effects
      <3>1. CASE \/ Processes(w)
                 \/ Updates(w, "subDone", "completed", "DONE")
                 \/ Updates(w, "subFailed", "failed", "FAILED")
        <4>1. /\ pc[w] \notin Verdicts /\ pc'[w] \notin Verdicts
              /\ \A v \in Workers \ {w} : pc'[v] = pc[v]
              /\ UNCHANGED batch
          BY <3>0, <3>1 DEF Moves, Processes, Updates, Verdicts, Holding
        <4>2. /\ \A j \in Jobs : job'[j].sub = job[j].sub
              /\ UNCHANGED delivery
          BY <3>0, <3>1 DEF Moves, Processes, Updates, Parent
        <4>3. \A v \in Workers : pc[v] # "idle" => BatchOfJob(v)' = BatchOfJob(v)
          BY <4>2, Types DEF CreatedOnly, Exists, BatchOfJob, Parent, JobOf
        <4>4. QED
          BY <1>f, <4>1, <4>3, VerdictKept DEF Verdicts
      <3>2. CASE Counts(w) \/ Checks(w) \/ Settles(w)
        BY <1>f, <3>0, <3>2, VerdictStep
      <3>3. QED
        BY <3>0, <3>1, <3>2
    <2>3. QED
      BY <1>1, <2>1, <2>2
  <1>2. CASE PollerNext /\ UNCHANGED workerVars
    BY <1>2, <1>k DEF PollerNext, Receive, Dispatch, SweepRead, SweepSend
  <1>3. CASE VisibilityTimeout
    BY <1>3, <1>k DEF VisibilityTimeout
  <1>4. CASE Crash
    BY <1>4, NoSuchFault DEF Crash
  <1>5. CASE ApiNext /\ UNCHANGED <<pollerVars, workerVars>>
    <2>1. PICK h \in Requests :
            \/ \E s \in Subs : StartAnalysis(h, s) \/ SharedAnalyze(h, s)
            \/ \E b \in Batches : AnalyzeBatch(h, b) \/ RetryBatch(h, b)
            \/ ApiStep(h)
            \/ ApiCrash(h)
      BY <1>5 DEF ApiNext
    <2>2. CASE ResetBatch(h)
      <3>1. UNCHANGED <<job, pc, delivery>>
        BY <1>5, <2>2 DEF ResetBatch
      <3>2. QED
        BY <1>k, <2>2, <3>1, ResetOpen
    <2>3. CASE ~ ResetBatch(h)
      <3>1. UNCHANGED <<batch, pc, delivery>>
        BY <1>5, <2>1, <2>3 DEF ApiStep, StartAnalysis, SharedAnalyze, AnalyzeBatch,
           RetryBatch, Accept, CreateJob, MarkAnalyzing, Enqueue, ApiCrash
      <3>2. \/ UNCHANGED job
            \/ \E j \in Jobs, s \in Subs : /\ job[j].status = "NONE"
                                           /\ job' = [job EXCEPT ![j] = NewJob(s)]
        BY <2>1, <2>3 DEF ApiStep, StartAnalysis, SharedAnalyze, AnalyzeBatch,
           RetryBatch, Accept, CreateJob, MarkAnalyzing, Enqueue, ApiCrash
      <3>3. \A j \in Jobs : job[j].status # "NONE" => job'[j].sub = job[j].sub
        BY <3>2, Types
      <3>4. QED
        BY <1>k, <3>1, <3>3
    <2>4. QED
      BY <2>2, <2>3
  <1>6. CASE \E j \in Jobs : Age(j)
    BY <1>6, <1>k DEF Age
  <1>7. CASE UNCHANGED vars
    BY <1>7, <1>k
  <1>8. QED
    BY <1>1, <1>2, <1>3, <1>4, <1>5, <1>6, <1>7 DEF Next, WorkerNext

LEMMA VerdictInvInit == Init /\ HaveMembers => VerdictInv
  <1> SUFFICES ASSUME Init, HaveMembers
               PROVE  VerdictInv
    OBVIOUS
  <1>1. \A w \in Workers : pc[w] = "idle"
    BY DEF Init, WorkerInit
  <1>2. ASSUME NEW b \in Batches
        PROVE  ~ Finalised(b) /\ ~ AllProcessed(batch[b])
    <2>1. /\ batch[b].status = "PENDING" /\ batch[b].total = Cardinality(Members(b))
          /\ batch[b].completed = 0 /\ batch[b].failed = 0
      BY DEF Init, RowsInit
    <2>2. Cardinality(Members(b)) \in Nat \ {0}
      <3>1. IsFiniteSet(Members(b)) /\ Members(b) # {}
        BY RowsAssumption, FS_Subset DEF HaveMembers, Members
      <3>2. QED
        BY <3>1, FS_CardinalityType, FS_EmptySet
    <2>3. QED
      BY <2>1, <2>2 DEF Finalised, AllProcessed
  <1>3. QED
    BY <1>1, <1>2 DEF VerdictInv

(* The batch page may trust a final status, and every batch that has come to rest
   with all submissions DONE has the status DONE. *)
LEMMA VerdictHolds ==
    ASSUME IInv, Undisturbed, AnalyzeOnly, BatchInv, VerdictInv
    PROVE  FinalWhenProcessed /\ VerdictExact
  <1>1. FinalWhenProcessed
    BY DEF FinalWhenProcessed, VerdictInv, RightVerdict, Processed
  <1>2. ASSUME Quiet, NEW b \in Batches
        PROVE  batch[b].status = "DONE" <=> Members(b) = MembersIn(b, "DONE")
    <2>1. batch[b].status = "DONE" => Members(b) = MembersIn(b, "DONE")
      BY DEF VerdictInv, RightVerdict, Finalised
    <2>2. ASSUME Members(b) = MembersIn(b, "DONE")
          PROVE  batch[b].status = "DONE"
      <3>1. /\ batch[b].completed = Cardinality(MembersIn(b, "DONE"))
            /\ batch[b].failed = Cardinality(MembersIn(b, "FAILED"))
            /\ batch[b].total = Cardinality(Members(b))
        BY <1>2, RestCounts DEF CountersExact, BatchInv, Balanced
      <3>2. AllProcessed(batch[b])
        BY <2>2, <3>1, Finite DEF AllProcessed
      <3>3. At(b, "check") \cup At(b, "DONE") \cup At(b, "PARTIAL_FAIL") = {}
        BY <1>2 DEF Quiet, At
      <3>4. Finalised(b)
        BY <3>2, <3>3 DEF VerdictInv
      <3>5. QED
        BY <2>2, <3>4 DEF VerdictInv, RightVerdict
    <2>3. QED
      BY <2>1, <2>2
  <1>3. QED
    BY <1>1, <1>2 DEF VerdictExact

-----------------------------------------------------------------------------
(* The theorems *)

(* BatchInv holds as long as the requests keep apart: no message is sent, held or
   worked on twice, one job at a time analyses a submission, and every counter
   balances with what is on its way to it. *)
THEOREM BatchHolds ==
    ASSUME Undisturbed
    PROVE  Spec /\ []Apart => []BatchInv
  <1>1. Init => BatchInv
    BY BatchInvInit
  <1>2. IInv /\ Apart /\ BatchInv /\ [Next]_vars => BatchInv'
    BY BatchInvStep
  <1>3. QED
    BY <1>1, <1>2, Invariance, PTL DEF Spec

(* updateBatchProgress and RetryBatch: however many goroutines finish submissions of
   a batch together, and whatever jobs, sends and uploads fail, the counters of a
   batch at rest are the numbers of its DONE and its FAILED submissions. *)
THEOREM CountersAtRest ==
    ASSUME Undisturbed
    PROVE  Spec /\ []Apart => []CountersExact
  <1>1. IInv /\ BatchInv => CountersExact
    BY RestCounts
  <1>2. QED
    BY <1>1, BatchHolds, Invariance, PTL

(* One AnalyzeBatch and one RetryBatch keep apart by themselves, whenever they come
   and however their steps mix: the counters are exact. *)
THEOREM CountersOfTwo ==
    ASSUME Undisturbed, OneOfEach
    PROVE  Spec => []CountersExact
  <1>1. Init => BatchInv
    BY BatchInvInit
  <1>2. IInv /\ BatchInv /\ [Next]_vars => BatchInv'
    BY BatchInvStep, OneOfEachApart
  <1>3. IInv /\ BatchInv => CountersExact
    BY RestCounts
  <1>4. QED
    BY <1>1, <1>2, <1>3, Invariance, PTL DEF Spec

LEMMA VerdictInvHolds ==
    ASSUME Undisturbed, AnalyzeOnly, HaveMembers
    PROVE  Spec /\ []Apart => []VerdictInv
  <1>1. Init => VerdictInv
    BY VerdictInvInit
  <1>2. IInv /\ BatchInv /\ VerdictInv /\ [Next]_vars => VerdictInv'
    BY NextVerdictInv
  <1>3. QED
    BY <1>1, <1>2, BatchHolds, Invariance, PTL DEF Spec

(* updateBatchProgress: no batch gets a final status before its last submission has
   been analysed, even when two goroutines count at the same time. *)
THEOREM FinalLast ==
    ASSUME Undisturbed, AnalyzeOnly, HaveMembers
    PROVE  Spec /\ []Apart => []FinalWhenProcessed
  <1>1. IInv /\ BatchInv /\ VerdictInv => FinalWhenProcessed
    BY VerdictHolds
  <1>2. QED
    BY <1>1, BatchHolds, VerdictInvHolds, Invariance, PTL

(* Where the messages and the jobs of a batch are, what its counters lack, and what is
   still to be decided about its status (AnalyzeBatch, RetryBatch, ProcessJob,
   updateBatchProgress). *)
THEOREM ExactHolds ==
    ASSUME Undisturbed
    PROVE  Spec /\ []Apart => []ExactInv
  <1>1. CASE AnalyzeOnly /\ HaveMembers
    <2>1. BatchInv /\ VerdictInv => ExactInv
      BY DEF ExactInv
    <2>2. Spec /\ []Apart => []VerdictInv
      BY <1>1, VerdictInvHolds
    <2> QED BY <2>1, <2>2, BatchHolds, PTL
  <1>2. CASE ~ (AnalyzeOnly /\ HaveMembers)
    <2>1. BatchInv => ExactInv
      BY <1>2 DEF ExactInv
    <2> QED BY <2>1, BatchHolds, PTL
  <1>3. QED
    BY <1>1, <1>2

(* updateBatchProgress: a batch at rest is DONE when all its submissions are, and
   only then, whichever goroutine decided it. *)
THEOREM VerdictRight ==
    ASSUME Undisturbed, AnalyzeOnly, HaveMembers
    PROVE  Spec /\ []Apart => []VerdictExact
  <1>1. IInv /\ BatchInv /\ VerdictInv => VerdictExact
    BY VerdictHolds
  <1>2. QED
    BY <1>1, BatchHolds, VerdictInvHolds, Invariance, PTL

=============================================================================
