---------------------------- MODULE MCReadyLoop ----------------------------
(* Two callers and a refresh of two requests.                              *)
EXTENDS ReadyLoop
CONSTANTS c1, c2
TwoCallers == {c1, c2}
TwoRequests == <<"capability", "state">>
=============================================================================
