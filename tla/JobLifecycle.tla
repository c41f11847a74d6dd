---------------------------- MODULE JobLifecycle ----------------------------
(***************************************************************************)
(* What the analysis pipeline promises about one job, whatever workers,    *)
(* messages and faults are behind it.  A job is created once and then      *)
(* analysed by any number of runs.  A run's result becomes stored at some  *)
(* point and stays stored; only a stored result can make the job DONE.  A  *)
(* job that has not been started cannot become DONE, and it never becomes  *)
(* PENDING again.  (At-least-once delivery lets a DONE or FAILED job be    *)
(* started again: that is part of what is, and is not, promised.)          *)
(***************************************************************************)
CONSTANTS Jobs, Runs

VARIABLES
    status,  \* status[j] of the row
    stored,  \* stored[j]: runs whose complete result is stored for j
    shown    \* shown[j]: the run whose score the row of j carries, if any

lifecycleVars == <<status, stored, shown>>

Init ==
    /\ status = [j \in Jobs |-> "NONE"]
    /\ stored = [j \in Jobs |-> {}]
    /\ shown = [j \in Jobs |-> {}]

Create(j) ==
    /\ status[j] = "NONE"
    /\ status' = [status EXCEPT ![j] = "PENDING"]
    /\ UNCHANGED <<stored, shown>>

(* A run takes the job; it may bring back the score of an earlier read. *)
Start(j) ==
    /\ status[j] # "NONE"
    /\ status' = [status EXCEPT ![j] = "PROCESSING"]
    /\ \E S \in SUBSET stored[j] : shown' = [shown EXCEPT ![j] = S]
    /\ UNCHANGED stored

Store(j, r) ==
    /\ status[j] \notin {"NONE", "PENDING"}
    /\ stored' = [stored EXCEPT ![j] = @ \cup {r}]
    /\ UNCHANGED <<status, shown>>

Complete(j, r) ==
    /\ status[j] \notin {"NONE", "PENDING"}
    /\ r \in stored[j]
    /\ status' = [status EXCEPT ![j] = "DONE"]
    /\ shown' = [shown EXCEPT ![j] = {r}]
    /\ UNCHANGED stored

Fail(j) ==
    /\ status[j] # "NONE"
    /\ status' = [status EXCEPT ![j] = "FAILED"]
    /\ UNCHANGED <<stored, shown>>

Next ==
    \E j \in Jobs :
        \/ Create(j) \/ Start(j) \/ Fail(j)
        \/ \E r \in Runs : Store(j, r) \/ Complete(j, r)

Spec == Init /\ [][Next]_lifecycleVars

=============================================================================
