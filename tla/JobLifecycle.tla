---------------------------- MODULE JobLifecycle ----------------------------
(***************************************************************************)
(* What the service promises a client about a ranking job, read from GET   *)
(* /rank/{id} and GET /rank/{id}/results: a job is queued, may be started  *)
(* any number of times, and finishes once, its results appearing together  *)
(* with "succeeded"; or it is abandoned unfinished, when its message is    *)
(* dead-lettered or perishes with the process that held it.                *)
(***************************************************************************)
EXTENDS Naturals

CONSTANT Jobs

VARIABLES status, results, abandoned
vars == <<status, results, abandoned>>

Unfinished == {"queued", "running"}

Init ==
    /\ status = [j \in Jobs |-> "absent"]
    /\ results = [j \in Jobs |-> 0]
    /\ abandoned = {}

Create(j) ==
    /\ status[j] = "absent"
    /\ status' = [status EXCEPT ![j] = "queued"]
    /\ UNCHANGED <<results, abandoned>>

Active(j) == status[j] \in Unfinished /\ j \notin abandoned

Start(j) ==
    /\ Active(j)
    /\ status' = [status EXCEPT ![j] = "running"]
    /\ UNCHANGED <<results, abandoned>>

\* `abandoned` may only grow by jobs that are not finished.
Succeed(j) ==
    /\ Active(j) /\ status[j] = "running"
    /\ status' = [status EXCEPT ![j] = "succeeded"]
    /\ results' = [results EXCEPT ![j] = 1]
    /\ UNCHANGED abandoned

Fail(j) ==
    /\ Active(j)
    /\ status' = [status EXCEPT ![j] = "failed"]
    /\ UNCHANGED <<results, abandoned>>

Abandon(S) ==
    /\ \A j \in S : status[j] \in Unfinished
    /\ abandoned' = abandoned \cup S
    /\ UNCHANGED <<status, results>>

Next ==
    \/ \E j \in Jobs : Create(j) \/ Start(j) \/ Succeed(j) \/ Fail(j)
    \/ \E S \in SUBSET Jobs : Abandon(S)

Spec == Init /\ [][Next]_vars
=============================================================================
