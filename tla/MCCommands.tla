----------------------------- MODULE MCCommands -----------------------------
(***************************************************************************)
(* Instances of CommandOperations for TLC.  One fan mode and one light     *)
(* colour make two command types, so that coalescing and queueing differ;  *)
(* two fan modes make a mode somebody else may select; a physical button   *)
(* selects the mode that is not the first one commanded.                   *)
(***************************************************************************)
EXTENDS CommandOperations

CONSTANTS low, high, red

OneMode   == {low}
TwoModes  == {low, high}
Light     == {red}
NoLight   == {}
NoButton  == {}
Button    == {high}

Cancels   == {"cancel"}
Anything  == {"shutdown", "deadline", "cancel"}
NoCancel  == {"shutdown", "deadline"}
=============================================================================
