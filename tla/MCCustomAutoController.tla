---------------------- MODULE MCCustomAutoController ----------------------
(***************************************************************************)
(* An instance of CustomAutoController for TLC: three levels, so that a    *)
(* raise may skip one and two crossings may run at once, with dwells of    *)
(* different lengths; one reading lies on the boundary of its band.        *)
(***************************************************************************)
EXTENDS CustomAutoController

Boundaries3 == <<1, 2>>
Dwells3     == <<2, 1>>
Values      == 1 .. 3
=============================================================================
