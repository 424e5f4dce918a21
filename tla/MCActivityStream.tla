-------------------------- MODULE MCActivityStream --------------------------
(* A small instance of ActivityStream.                                     *)
EXTENDS ActivityStream

CONSTANTS r1, r2
=============================================================================
