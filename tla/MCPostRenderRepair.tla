-------------------------- MODULE MCPostRenderRepair --------------------------
(***************************************************************************)
(* Small instances of PostRenderRepair: two clips, one technical blocker   *)
(* code that the QA finds, one of captions and that of missing reports.    *)
(***************************************************************************)
EXTENDS PostRenderRepair, TLC

CONSTANTS c1, c2, black, clash, missing

TwoClips == {c1, c2}
BothCodes == {black, clash}
Technicals == {black, missing}
OneInspected == {black}
OneCaption   == {clash}
Symmetry == Permutations(TwoClips)
=============================================================================
