----------------------------- MODULE MCRecovery -----------------------------
(* A small purifier to come back to.                                       *)
EXTENDS Recovery
Jittered == {0, 1}
=============================================================================
