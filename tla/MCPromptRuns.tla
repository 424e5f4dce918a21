---------------------------- MODULE MCPromptRuns ----------------------------
(***************************************************************************)
(* A small instance of PromptRuns: a session with a completed first run    *)
(* and another one, two requests, two editors and the worker.              *)
(***************************************************************************)
EXTENDS PromptRuns, TLC

CONSTANTS s1, s2, q0, q1, q2, e1, e2

Earlier   == {q0}
EarlierHome == [q \in Earlier |-> s1]
Symmetry  == Permutations({q1, q2}) \cup Permutations({e1, e2})
=============================================================================
