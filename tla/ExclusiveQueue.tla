--------------------------- MODULE ExclusiveQueue ---------------------------
(***************************************************************************)
(* What the render queue promises whoever creates runs: one run is         *)
(* executed at a time, a run ends only by being executed, an interrupted   *)
(* run goes back to the queue only while nothing is executed.  Locks,      *)
(* connections, leaders and the steps of an attempt are not visible here.  *)
(*                                                                         *)
(* It also admits what enqueue() really does: a late "queued" that puts    *)
(* back a run that is being executed, or one that has already ended.       *)
(***************************************************************************)
EXTENDS Integers

CONSTANTS
    Jobs,
    NoJob

VARIABLES
    state,      \* what the client reads for each run
    executing   \* the run being executed

vars == <<state, executing>>

Ending == {"completed", "failed"}

Init ==
    /\ state = [j \in Jobs |-> "absent"]
    /\ executing = NoJob

Submit(j) ==
    /\ state[j] = "absent"
    /\ state' = [state EXCEPT ![j] = "queued"]
    /\ UNCHANGED executing

(* A start whose execution is given up at once leaves the run running.     *)
Begin(j) ==
    /\ executing = NoJob
    /\ state[j] = "queued"
    /\ state' = [state EXCEPT ![j] = "running"]
    /\ executing' \in {j, NoJob}

(* The outcome may be recorded, and then recorded again as a failure,      *)
(* before the execution is over.                                           *)
Finish(j) ==
    /\ executing = j
    /\ \E s \in Ending : state' = [state EXCEPT ![j] = s]
    /\ executing' \in {j, NoJob}

Abandon ==
    /\ executing' = NoJob
    /\ UNCHANGED state

Requeue(S) ==
    /\ executing = NoJob
    /\ \A j \in S : state[j] = "running"
    /\ state' = [j \in Jobs |-> IF j \in S THEN "queued" ELSE state[j]]
    /\ UNCHANGED executing

Reopen(j) ==
    /\ state[j] # "absent"
    /\ state' = [state EXCEPT ![j] = "queued"]
    /\ UNCHANGED executing

Next ==
    \/ \E j \in Jobs : Submit(j) \/ Begin(j) \/ Finish(j) \/ Reopen(j)
    \/ Abandon
    \/ \E S \in SUBSET Jobs : Requeue(S)

Spec == Init /\ [][Next]_vars
=============================================================================
