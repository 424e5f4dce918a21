----------------------------- MODULE MCPlanRepair -----------------------------
(***************************************************************************)
(* A small instance of PlanRepair: a crop without evidence, which the      *)
(* compiler replaces by the full frame, an overlay on the captions, which  *)
(* it moves in any case, a layout that its change does not mend, an asset  *)
(* that is not permitted, where neither it nor the model can help, and an  *)
(* intent that the full frame fails to meet.                               *)
(***************************************************************************)
EXTENDS PlanRepair, TLC

CONSTANTS crop, layout, caption, policy, intent

SomeDefects     == {crop, layout, caption, policy, intent}
SomeKind        == crop :> "coverage" @@ layout :> "preflight" @@ caption :> "preflight"
                   @@ policy :> "preflight" @@ intent :> "intent"
SomeRepairable  == {crop, layout, caption, intent}
SomeCured       == {crop}
SomeUnasked     == {caption}
SomeComposition == {layout}
SomeExposes     == [d \in SomeDefects |-> IF d = crop THEN {intent} ELSE {}]
SomeRank        == crop :> 1 @@ layout :> 2 @@ caption :> 3 @@ policy :> 4 @@ intent :> 5
=============================================================================
