-------------------------- MODULE CustomAutoPolicy --------------------------
(***************************************************************************)
(* The hysteresis policy of Custom Auto (custom_auto_policy.py): pure      *)
(* operators from a policy state and an event to the next policy state.    *)
(*                                                                         *)
(* A fan mode is its level, 1 .. Levels; 0 is "no level" (None in the      *)
(* code).  An optional value is a set of at most one element, and the      *)
(* pending crossings are a set of dwells with different levels.  A         *)
(* transition emits a command when it makes "pending" non-zero.            *)
(***************************************************************************)
EXTENDS Naturals, FiniteSets, FiniteSetsExt

CONSTANTS
  Levels,      \* number of fan modes in options.modes
  Boundary,    \* pm25_boundaries: the highest reading of each level but the last
  UpDelay,     \* upshift_confirmation_seconds
  DownDelay    \* downshift delays, by the level slowed down to

Level == 1 .. Levels
Lower == 1 .. Levels - 1      \* the levels a downshift can reach

ASSUME PolicyAssumption ==
  /\ Levels \in Nat \ {0}
  /\ Boundary \in [Lower -> Nat]
  /\ \A i, j \in Lower : i < j => Boundary[i] < Boundary[j]
  /\ UpDelay \in Nat /\ DownDelay \in [Lower -> Nat]

Readings == [pm : Nat, rev : Nat, at : Nat]
Upshifts == [at : Nat, asked : BOOLEAN]
Dwells   == [level : Lower, rev : Nat, at : Nat, asked : BOOLEAN]

PolicyStates ==
  [level : 0 .. Levels, revision : Nat, upshift : SUBSET Upshifts, downs : SUBSET Dwells,
   pending : 0 .. Levels, deferred : SUBSET Readings, failed : 0 .. Levels]

(* Unknown ownership: initial_policy_state(None, options).                 *)
InitialPolicy ==
  [level |-> 0, revision |-> 0, upshift |-> {}, downs |-> {},
   pending |-> 0, deferred |-> {}, failed |-> 0]

(* level_for_pm25: equality stays in the lower band.                       *)
LevelFor(pm) == 1 + Cardinality({b \in Lower : Boundary[b] < pm})

(* _emit: a command for level l is wanted; only a downshift keeps the      *)
(* dwells below its target.                                                *)
Emit(p, l) ==
  [p EXCEPT !.upshift = {}, !.pending = l,
            !.downs = IF p.level # 0 /\ l < p.level THEN {d \in @ : d.level < l} ELSE {}]

(* Mutant: one reading is enough to raise the fan.                         *)
WorseAtOnce(p, l, r) == Emit([p EXCEPT !.downs = {}], l)

(* The air got worse than the confirmed level: emit if the delay is zero   *)
(* or a first reading confirmed it long enough ago, else start confirming. *)
Worse(p, l, r) ==
  LET q == [p EXCEPT !.downs = {}] IN
  CASE UpDelay = 0 \/ (\E u \in q.upshift : r.at >= u.at + UpDelay) -> Emit(q, l)
    [] UpDelay # 0 /\ q.upshift = {} ->
         [q EXCEPT !.upshift = {[at |-> r.at, asked |-> FALSE]}]
    [] OTHER -> q

(* Mutant: a crossing survives a reading that does not justify it.         *)
CrossingsSticky(p, l, r) ==
  p.downs \cup {[level |-> k, rev |-> r.rev, at |-> r.at, asked |-> FALSE] :
                 k \in {n \in l .. p.level - 1 : \A d \in p.downs : d.level # n}}

(* The crossings a reading of level l justifies: those that run already    *)
(* and one that starts now for every other level.                          *)
Crossings(p, l, r) ==
  {d \in p.downs : d.level \in l .. p.level - 1} \cup
  {[level |-> k, rev |-> r.rev, at |-> r.at, asked |-> FALSE] :
     k \in {n \in l .. p.level - 1 : \A d \in p.downs : d.level # n}}

(* The levels whose crossing a fresh reading finds mature.                 *)
Matured(D, r) == {d.level : d \in {e \in D : r.rev > e.rev /\ r.at >= e.at + DownDelay[e.level]}}

(* The air is as the confirmed level says, or better.                      *)
NotWorse(p, l, r) ==
  LET D == Crossings(p, l, r)
      q == [p EXCEPT !.upshift = {}, !.downs = D]
  IN IF Matured(D, r) # {} THEN Emit(q, Min(Matured(D, r))) ELSE q

Hysteresis(p, l, r) == IF l > p.level THEN Worse(p, l, r) ELSE NotWorse(p, l, r)

(* _evaluate_accepted_observation: the first reading chooses a level at    *)
(* once, and so does the first one after a failed upshift that does not    *)
(* agree with the confirmed level; a failed downshift is tried again while *)
(* the air allows its level.                                               *)
Accept(p, l, r) ==
  CASE p.level = 0 -> Emit(p, l)
    [] p.level # 0 /\ p.failed = 0 -> Hysteresis(p, l, r)
    [] p.level # 0 /\ p.failed \in 1 .. p.level - 1 ->
         IF l <= p.failed THEN Emit(p, p.failed) ELSE Hysteresis([p EXCEPT !.failed = 0], l, r)
    [] p.level # 0 /\ p.failed >= p.level ->
         IF l # p.level THEN Emit(p, l)
         ELSE [p EXCEPT !.upshift = {}, !.downs = {}, !.failed = 0]

(* A reading of level l repeats the downshift that failed.                 *)
Repeats(p, l) == p.pending = 0 /\ p.failed \in 1 .. p.level - 1 /\ l <= p.failed

(* A reading while a command is in flight is kept for later, and takes     *)
(* away the crossings it does not justify.                                 *)
Suppressed(p, l, r) ==
  [p EXCEPT !.deferred = {r}, !.downs = {d \in @ : l <= d.level}]

(* evaluate_observation for a valid reading.                               *)
Observe(p, r) ==
  LET q == [p EXCEPT !.revision = r.rev] IN
  IF r.rev <= p.revision THEN p
  ELSE IF p.pending # 0 THEN Suppressed(q, LevelFor(r.pm), r)
  ELSE Accept(q, LevelFor(r.pm), r)

(* confirm_pending_target.                                                 *)
Confirm(p) ==
  [p EXCEPT !.level = p.pending, !.pending = 0, !.failed = 0,
            !.downs = {d \in @ : d.level < p.pending}]

(* reconcile_deferred_observation.                                         *)
Reconcile(p) ==
  LET q == [p EXCEPT !.deferred = {}] IN
  IF p.deferred = {} THEN q
  ELSE LET r == CHOOSE x \in p.deferred : TRUE IN Accept(q, LevelFor(r.pm), r)

(* mark_command_failed: the reading kept for later is given up.            *)
MarkFailed(p) ==
  IF p.pending = 0 THEN p
  ELSE [p EXCEPT !.pending = 0, !.deferred = {}, !.failed = p.pending]

(* The times a timer must wait for (_next_boundary takes the earliest).    *)
Boundaries(p) ==
  {u.at + UpDelay : u \in {v \in p.upshift : ~v.asked}} \cup
  {d.at + DownDelay[d.level] : d \in {e \in p.downs : ~e.asked}}

(* evaluate_boundary: mark what is mature ...                              *)
AtBoundary(p, now) ==
  [p EXCEPT !.upshift = {[u EXCEPT !.asked = @ \/ now >= u.at + UpDelay] : u \in @},
            !.downs = {[d EXCEPT !.asked = @ \/ now >= d.at + DownDelay[d.level]] : d \in @}]

(* ... and ask for one sample if that marked anything.                     *)
AsksForSample(p, now) == \E t \in Boundaries(p) : now >= t
=============================================================================
