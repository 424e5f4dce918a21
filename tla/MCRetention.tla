---------------------------- MODULE MCRetention ----------------------------
(***************************************************************************)
(* Small instances of Retention: a session of workflow version 2 with one  *)
(* run, the web process and an operator's command.                         *)
(***************************************************************************)
EXTENDS Retention

CONSTANTS s1, j1

OneSession == {s1}
OneJob     == {j1}

NewHome     == [j \in OneJob |-> s1]
NewWorkflow == [s \in OneSession |-> 2]

OneEach   == [k \in FaultKinds |-> 1]
KeepsLock == [k \in FaultKinds |-> IF k = "lockLoss" THEN 0 ELSE 1]
=============================================================================
