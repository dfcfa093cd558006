---------------------------- MODULE MCTransport ----------------------------
(***************************************************************************)
(* Instances of GattTransport for TLC.                                     *)
(***************************************************************************)
EXTENDS GattTransport

CONSTANTS old, new

Two == {old, new}

AnyCall     == {"disconnect", "close", "session", "diagnosis", "connector"}
=============================================================================
