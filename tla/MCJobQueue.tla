----------------------------- MODULE MCJobQueue -----------------------------
(* Instances of JobQueue for TLC: two workers, two runs.                   *)
EXTENDS JobQueue

Faultless == [k \in FaultKinds |-> 0]

(* Every fault the execution fence is meant to survive, and a transaction  *)
(* that holds a row, which is skipped meanwhile.                           *)
FencedFaults ==
    [Faultless EXCEPT !["crash"] = 1, !["coordLoss"] = 1, !["dbError"] = 1,
                      !["diskError"] = 1, !["rowLock"] = 1]

(* The faults a worker recovers from; here the execution connection is the *)
(* one that is lost.                                                       *)
LiveFaults ==
    [Faultless EXCEPT !["crash"] = 1, !["stop"] = 1, !["execLoss"] = 1,
                      !["dbError"] = 1, !["requestLost"] = 1]
=============================================================================
