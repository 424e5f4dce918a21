-------------------------- MODULE MCSessionSource --------------------------
(***************************************************************************)
(* Small instances of SessionSource: two or three requests, sources of two *)
(* or three bytes, one or two client files.                                *)
(***************************************************************************)
EXTENDS SessionSource, TLC

CONSTANTS r1, r2, r3

TwoRequests   == {r1, r2}
ThreeRequests == {r1, r2, r3}
Symmetry2  == Permutations(TwoRequests)
OneFile    == {"a"}
TwoFiles   == {"a", "b"}
Mp4        == {"mp4"}
Mp4OrMkv   == {"mp4", "mkv"}

(* One file of three bytes; two files that differ in their suffix.         *)
DeclareOne   == [f \in OneFile |-> [suffix |-> "mp4", size |-> 3]]
DeclareOther == [f \in TwoFiles |->
                    [suffix |-> IF f = "a" THEN "mp4" ELSE "mkv", size |-> 2]]

Budget(kinds, n) == [k \in FaultKinds |-> IF k \in kinds THEN n ELSE 0]
UploadFaults  == Budget({"abort", "probe", "expiry"}, 2)
LockFaults    == Budget({"lockLoss", "dbError"}, 1)
=============================================================================
