-------------------------------- MODULE Queue --------------------------------
(***************************************************************************)
(* The SQS standard queue between the API and the worker, as the code uses *)
(* it: SendMessage, ReceiveMessage, DeleteMessage.  Delivery is at least   *)
(* once and in any order.  A received message is invisible until it is     *)
(* deleted or its visibility timeout expires; it is then received again    *)
(* under a new receipt handle.  Deleting by a handle that is no longer the *)
(* newest may or may not remove the message.                               *)
(***************************************************************************)
EXTENDS Rows, Sequences

VARIABLE queue  \* queue[m]: message m, in the order the messages were sent

Message == [job : Jobs, state : {"visible", "inflight", "deleted"}, receipt : Nat]

Delivery == [msg : Nat, receipt : Nat, job : Jobs]

QueueTypeOK == queue \in Seq(Message)

QueueInit == queue = << >>

Visible == {m \in DOMAIN queue : queue[m].state = "visible"}
Inflight == {m \in DOMAIN queue : queue[m].state = "inflight"}

(* Messages of job j that SQS can still deliver. *)
Outstanding(j) == {m \in Visible \cup Inflight : queue[m].job = j}

DeliveryOf(m) ==
    [msg |-> m, receipt |-> queue[m].receipt + 1, job |-> queue[m].job]

SendMessage(j) ==
    queue' = Append(queue, [job |-> j, state |-> "visible", receipt |-> 0])

(* The messages of M go in flight, each under a new receipt handle. *)
ReceiveMessage(M) ==
    queue' = [m \in DOMAIN queue |->
                IF m \in M
                THEN [queue[m] EXCEPT !.state = "inflight",
                                      !.receipt = queue[m].receipt + 1]
                ELSE queue[m]]

DeleteMessage(d) == queue' = [queue EXCEPT ![d.msg].state = "deleted"]

Superseded(d) == queue[d.msg].receipt # d.receipt

(* The visibility timeout of message m runs out. *)
Expire(m) == queue' = [queue EXCEPT ![m].state = "visible"]

=============================================================================
