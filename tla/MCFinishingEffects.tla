------------------------- MODULE MCFinishingEffects -------------------------
(* A small instance of FinishingEffects.                                   *)
EXTENDS FinishingEffects

CONSTANTS d1, d2
=============================================================================
