---------------------------- MODULE AddressLease ----------------------------
(***************************************************************************)
(* What the process-wide registry promises for one purifier address        *)
(* (bluetooth/ownership.py): a lease.  One party holds the address at a    *)
(* time, only the holder has Bluetooth work under way there, and the       *)
(* address changes hands only while no work is under way.                  *)
(***************************************************************************)
CONSTANTS
  Parties,  \* whoever may use the address
  Nobody

VARIABLES
  holder,   \* the party that holds the address, or Nobody
  busy      \* parties with work under way there

Init == holder = Nobody /\ busy = {}

(* A free address is taken, and its holder may begin to work at once. *)
Take(p) ==
  /\ holder = Nobody /\ busy = {}
  /\ holder' = p /\ busy' \subseteq {p}

(* The holder begins or ends some work. *)
Work ==
  /\ holder # Nobody
  /\ busy' \subseteq {holder} /\ UNCHANGED holder

(* The address becomes free, with the end of the last work at the latest. *)
Return ==
  /\ holder # Nobody
  /\ holder' = Nobody /\ busy' = {}

Next == Work \/ Return \/ \E p \in Parties : Take(p)

Spec == Init /\ [][Next]_<<holder, busy>>
=============================================================================
