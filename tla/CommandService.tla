--------------------------- MODULE CommandService ---------------------------
(***************************************************************************)
(* What the reliable client promises to the callers of async_execute,      *)
(* without sessions, queues or echoes.  Controls are submitted in order.   *)
(* Each one is transmitted at most SendLimit times, only while every older *)
(* control is decided and its own caller still waits, is decided once, and *)
(* its caller is answered only after that.                                 *)
(***************************************************************************)
EXTENDS Naturals

CONSTANTS
  MaxOps,     \* bound: controls submitted
  SendLimit   \* transmissions of one control

VARIABLES
  phase,      \* what the caller sees of each control
  outcome,    \* how it was decided, "none" before
  sent        \* transmissions so far

svars == <<phase, outcome, sent>>

Controls == 1 .. MaxOps
Outcomes == {"confirmed", "failed", "superseded", "cancelled"}

Init ==
  /\ phase = [o \in Controls |-> "unknown"]
  /\ outcome = [o \in Controls |-> "none"]
  /\ sent = [o \in Controls |-> 0]

(* Controls that wait for a decision. *)
Undecided == {o \in Controls : phase[o] = "waiting" /\ outcome[o] = "none"}

(* A new control may supersede undecided older ones. *)
Submit(o) ==
  /\ phase[o] = "unknown" /\ \A p \in Controls : p < o => phase[p] # "unknown"
  /\ phase' = [phase EXCEPT ![o] = "waiting"]
  /\ \E S \in SUBSET Undecided :
       outcome' = [p \in Controls |-> IF p \in S THEN "superseded" ELSE outcome[p]]
  /\ UNCHANGED sent

(* One transmission, of the oldest undecided control or of one whose       *)
(* decision came while the transmission was already on its way.            *)
Write(o) ==
  /\ phase[o] = "waiting" /\ sent[o] < SendLimit
  /\ \A p \in Undecided : o <= p
  /\ sent' = [sent EXCEPT ![o] = @ + 1]
  /\ UNCHANGED <<phase, outcome>>

(* Some undecided controls are decided, for good. *)
Decide ==
  /\ \E f \in [Undecided -> Outcomes \cup {"none"}] :
       outcome' = [p \in Controls |-> IF p \in Undecided THEN f[p] ELSE outcome[p]]
  /\ UNCHANGED <<phase, sent>>

(* The caller of a decided control is answered. *)
Answer(o) ==
  /\ phase[o] = "waiting" /\ outcome[o] # "none"
  /\ phase' = [phase EXCEPT ![o] = "answered"]
  /\ UNCHANGED <<outcome, sent>>

Next == Decide \/ \E o \in Controls : Submit(o) \/ Write(o) \/ Answer(o)

Spec == Init /\ [][Next]_svars
=============================================================================
