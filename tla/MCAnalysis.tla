------------------------------ MODULE MCAnalysis ------------------------------
(* Two runs of a session with two clips.  The second run is a rerun of the *)
(* first, or one of its own with another version of the prompt.            *)
EXTENDS Analysis, TLC

CONSTANTS v1, v2, a, b, i1, i2, none, norun

MCRuns     == {1, 2}
MCClips    == {1, 2}
MCHistories ==
    {<<[version |-> v1, prior |-> norun], [version |-> v1, prior |-> 1]>>,
     <<[version |-> v1, prior |-> norun], [version |-> v2, prior |-> norun]>>}

Symmetry == Permutations({a, b})
=============================================================================
