----------------------- MODULE MCCustomAutoLifecycle -----------------------
(***************************************************************************)
(* An instance of CustomAutoLifecycle for TLC.                             *)
(***************************************************************************)
EXTENDS CustomAutoLifecycle

Everything == AllInputs
NoEdit == AllInputs \ {"edit"}
=============================================================================
