------------------------------- MODULE BatchInv -------------------------------
(***************************************************************************)
(* Why the counters of a batch are exact: where the message of a job can   *)
(* be, which job a submission is analysed by, and what of a counter is     *)
(* still on its way.  All of it holds for a service without duplicates,    *)
(* and for clients that do not work on one submission twice at a time.     *)
(* BatchProofs proves it.                                                  *)
(***************************************************************************)
EXTENDS PipelineInv

(* Sends may fail, jobs may fail; nothing is delivered twice, no update gets lost,
   and the sweep leaves a job alone whose message is outstanding. *)
Undisturbed ==
    /\ FaultKinds \subseteq {"send", "save", "s3", "create"}
    /\ MaxCopies = 1
    /\ \A h \in Requests :
         /\ Calls[h] \subseteq {"analyze", "retry"}
         /\ "retry" \in Calls[h] => "create" \notin FaultKinds
    /\ IsFiniteSet(Workers)

(* The submissions a request has still to mark. *)
Working(h) == request[h].todo \cup (IF request[h].pc = "mark" THEN {request[h].of} ELSE {})

Apart == \A g, h \in Requests : g # h => Working(g) \cap Working(h) = {}

(* One batch analysis and one retry are always apart. *)
OneOfEach ==
    \A g, h \in Requests : g # h => Calls[g] \cap Calls[h] = {}

-----------------------------------------------------------------------------
(* The row of a job names its submission, and so does every private copy. *)
Submitted ==
    /\ \A j \in Jobs : job[j].status # "NONE" => job[j].sub \in Subs
    /\ \A w \in Workers : pc[w] \in Holding => copy[w].sub = Parent(w)

(* No job is sent twice: neither the handler that created it nor the sweep has
   sent what they are about to send, and they are not at the same job. *)
Unsent(j) == \A m \in DOMAIN queue : queue[m].job # j

SentOnce ==
    /\ \A m, n \in DOMAIN queue : queue[m].job = queue[n].job => m = n
    /\ stuck \subseteq old
    /\ \A j \in old : Exists(j)
    /\ \A j \in stuck : Unsent(j)
    /\ \A h \in Requests : request[h].pc \in {"mark", "send"} =>
         Unsent(request[h].job) /\ request[h].job \notin old
    /\ \A g, h \in Requests :
         /\ request[g].pc \in {"mark", "send"} /\ request[h].pc \in {"mark", "send"}
         /\ request[g].job = request[h].job
         => g = h

(* A message in flight is in exactly one place of the worker process, under its
   newest receipt handle. *)
Handed(d) ==
    /\ d.msg \in DOMAIN queue
    /\ queue[d.msg].state = "inflight"
    /\ queue[d.msg].job = d.job
    /\ queue[d.msg].receipt = d.receipt

Busy == {w \in Workers : pc[w] # "idle"}

AllHanded ==
    /\ \A d \in out : Handed(d)
    /\ \A i \in DOMAIN channel : Handed(channel[i])
    /\ \A w \in Busy : Handed(delivery[w])
    /\ Inflight \subseteq Held

HeldOnce ==
    /\ \A d, e \in out : d.msg = e.msg => d = e
    /\ \A i, k \in DOMAIN channel : channel[i].msg = channel[k].msg => i = k
    /\ \A v, w \in Busy : delivery[v].msg = delivery[w].msg => v = w
    /\ \A d \in out, i \in DOMAIN channel : d.msg # channel[i].msg
    /\ \A d \in out, w \in Busy : d.msg # delivery[w].msg
    /\ \A i \in DOMAIN channel, w \in Busy : channel[i].msg # delivery[w].msg

(* A message is deleted once its job has ended. *)
Ended(j) == job[j].status \in {"DONE", "FAILED"}
Counting == {"completed", "failed", "check", "DONE", "PARTIAL_FAIL", "ack"}

DeletedLast ==
    /\ \A m \in DOMAIN queue : queue[m].state = "deleted" => Ended(queue[m].job)
    /\ \A w \in Workers :
         pc[w] \in {"subDone", "subFailed"} \cup Counting => Ended(JobOf(w))

(* A submission is analysed by one job at a time, the last one that was created for
   it, and is ANALYZING from the mark of the handler to the update of the worker. *)
Over(j) ==
    \/ \E m \in DOMAIN queue : queue[m].job = j /\ queue[m].state = "deleted"
    \/ \E w \in Workers : pc[w] \in Counting /\ JobOf(w) = j
Live(j) == job[j].status # "NONE" /\ ~ Over(j)
Starting(j) == \E h \in Requests : request[h].pc = "mark" /\ request[h].job = j

LiveOnce ==
    /\ \A i, j \in Jobs : Live(i) /\ Live(j) /\ job[i].sub = job[j].sub => i = j
    /\ \A j \in Jobs : Live(j) => Starting(j) \/ sub[job[j].sub] = "ANALYZING"

(* What a request works on is as it was when the request read it. *)
RequestSound(h) ==
    /\ request[h].pc = "new" <=> request[h].call = "none"
    /\ request[h].call # "none" => request[h].call \in Calls[h]
    /\ request[h].pc \in {"new", "done"} => request[h].todo = {}
    /\ request[h].pc \in {"reset", "create"} => request[h].todo # {}
    /\ request[h].pc = "mark" => /\ request[h].of \notin request[h].todo
                                 /\ job[request[h].job].sub = request[h].of
    /\ request[h].pc = "reset" => \E b \in Batches : request[h].todo \subseteq Members(b)
    /\ request[h].call = "analyze" => \A s \in Working(h) : sub[s] = "UPLOADED"
    /\ request[h].call = "retry" => \A s \in Working(h) : sub[s] = "FAILED"

RequestsSound == \A h \in Requests : RequestSound(h)

(* The counters, with what is on its way: goroutines that have updated a submission
   and not yet counted it, retried submissions that are taken out of the failed
   counter and not yet marked. *)
At(b, step) == {w \in Workers : pc[w] = step /\ BatchOfJob(w) = b}
Taken(b) == {s \in Members(b) :
               \E h \in Requests : /\ request[h].call = "retry"
                                   /\ request[h].pc \in {"create", "mark", "send"}
                                   /\ s \in Working(h)}

Balanced(b) ==
    /\ batch[b].total = Cardinality(Members(b))
    /\ batch[b].completed + Cardinality(At(b, "completed"))
         = Cardinality(MembersIn(b, "DONE"))
    /\ batch[b].failed + Cardinality(At(b, "failed")) + Cardinality(Taken(b))
         = Cardinality(MembersIn(b, "FAILED"))

BatchInv ==
    /\ Submitted /\ SentOnce /\ AllHanded /\ HeldOnce /\ DeletedLast
    /\ LiveOnce /\ RequestsSound
    /\ \A b \in Batches : Balanced(b)

-----------------------------------------------------------------------------
(* With analyses only, the status that is written last is the right one. *)
AnalyzeOnly == \A h \in Requests : Calls[h] \subseteq {"analyze"}
HaveMembers == \A b \in Batches : Members(b) # {}

Processed(b) == Members(b) = MembersIn(b, "DONE") \cup MembersIn(b, "FAILED")
RightVerdict(b, v) ==
    Processed(b) /\ (v = "DONE" <=> Members(b) = MembersIn(b, "DONE"))

(* Whoever counts last goes on to the check, and from there to the verdict. *)
VerdictInv ==
    /\ \A w \in Workers : pc[w] \in {"check", "DONE", "PARTIAL_FAIL"} =>
         BatchOfJob(w) \in Batches
    /\ \A w \in Workers : pc[w] \in {"DONE", "PARTIAL_FAIL"} =>
         RightVerdict(BatchOfJob(w), pc[w])
    /\ \A b \in Batches : Finalised(b) => RightVerdict(b, batch[b].status)
    /\ \A b \in Batches :
         AllProcessed(batch[b]) =>
           Finalised(b) \/ At(b, "check") \cup At(b, "DONE") \cup At(b, "PARTIAL_FAIL") # {}

(* The two together, what batch_exact checks. *)
ExactInv == BatchInv /\ (AnalyzeOnly /\ HaveMembers => VerdictInv)
=============================================================================
