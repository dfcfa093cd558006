------------------------------ MODULE Recovery ------------------------------
(***************************************************************************)
(* How a client that lost its purifier comes back: the connection cycles   *)
(* and the waits between them (client.py, _run and _async_backoff), the    *)
(* recovery policy that plans a wait (recovery.py), and the advertisements *)
(* that admit an attempt or end a wait (bluetooth/environment.py).         *)
(*                                                                         *)
(*   waiting -> connecting -> ready -> cleanup -> backoff -> settling      *)
(*      ^ an advertisement                            |          |         *)
(*      +---------------------------------------------+----------+         *)
(*                                                                         *)
(* Time is discrete, and what the code stores as a time is kept as an age; *)
(* what the code trims when it looks is trimmed when it gets too old.      *)
(***************************************************************************)
EXTENDS Integers, Sequences, FiniteSets

CONSTANTS
  Initial, BackoffMax,          \* the backoff's base and its limit
  RecentMax,                    \* its limit while the purifier advertises
  Jitters,                      \* what jitter may add to a wait
  Settle,                       \* the least wait that an advertisement leaves
  ResetAfter,                   \* a session this long is stable
  Window,                       \* failures and wakes older than this do not count
  Failures, Wakes,              \* the thresholds that open the circuit together
  InitialFloor, MaxFloor,       \* the floors of an open circuit
  History,                      \* failures and wakes that are kept at most
  FreshTimeout,                 \* how long to wait for a route
  CacheAge,                     \* the oldest advertisement a route may be cached from
  MaxCommands                   \* bound: commands accepted

ASSUME RecoveryAssumption ==
  /\ Initial \in Nat /\ BackoffMax \in Nat /\ Initial <= BackoffMax /\ RecentMax \in Nat
  /\ Jitters \subseteq Nat /\ Settle \in Nat /\ ResetAfter \in Nat /\ Window \in Nat
  /\ Failures \in Nat \ {0} /\ Wakes \in Nat \ {0}
  /\ InitialFloor \in Nat /\ MaxFloor \in Nat /\ InitialFloor <= MaxFloor
  /\ History \in Nat /\ FreshTimeout \in Nat /\ CacheAge \in Nat /\ MaxCommands \in Nat

(* A longer threshold than the history would never be reached.  (The       *)
(* profiles bound the threshold by 600, the history is of 32.)             *)
ASSUME HistoryAssumption == Failures < History /\ Wakes <= History

VARIABLES
  phase,        \* ClientStatus, with the runner's cleanup and the two waits
  spent,        \* time in this phase
  timer,        \* the stable-session timer is set
  requested,    \* _requested_backoff
  failures,     \* _failure_times
  wakes,        \* _advertisement_wake_times
  plan,         \* [planned, floor] of the wait
  until,        \* when the second wait ends
  triggered,    \* an advertisement ended the first wait
  event,        \* _operation_event: a command was accepted
  advert,       \* the age of the advertisement Home Assistant has cached
  newer,        \* it is newer than the one used for the last route
  live,         \* an advertisement was delivered during this wait
  commands,     \* commands accepted so far
  (* history *)
  cuts,         \* waits that a command has cut short
  hasty,        \* the ages of the waits an advertisement ended below the floor
  unstable,     \* failures since the last stable session, up to the threshold
  woken         \* waits an advertisement ended since then, up to the threshold

radioVars  == <<advert, newer, live>>
policyVars == <<requested, failures, wakes>>
waitVars   == <<plan, until, triggered>>
ghosts     == <<cuts, hasty, unstable, woken>>
vars == <<phase, spent, timer, policyVars, waitVars, event, radioVars, commands, ghosts>>

Least(a, b) == IF a < b THEN a ELSE b
Most(a, b) == IF a < b THEN b ELSE a

OldAdvert == CacheAge + FreshTimeout + 1
LongTime == Most(ResetAfter, BackoffMax + MaxFloor + Settle + FreshTimeout)

Init ==
  /\ phase = "waiting" /\ spent = 0 /\ timer = FALSE
  /\ requested = Initial /\ failures = <<>> /\ wakes = <<>>
  /\ plan = [planned |-> 0, floor |-> 0] /\ until = 0 /\ triggered = FALSE
  /\ event = FALSE /\ advert \in {0, OldAdvert} /\ newer = (advert = 0) /\ live = FALSE
  /\ commands = 0 /\ cuts = 0 /\ hasty = <<>> /\ unstable = 0 /\ woken = 0

-----------------------------------------------------------------------------
(* recovery.py                                                             *)

(* _trim_window, when a tick makes the ages, the oldest first, greater.    *)
Aged(ages) ==
  LET old == Cardinality({i \in DOMAIN ages : ages[i] >= Window})
  IN [i \in 1 .. Len(ages) - old |-> ages[i + old] + 1]

(* A deque of bounded length.                                              *)
Recorded(ages) == Append(IF Len(ages) = History THEN Tail(ages) ELSE ages, 0)

(* Mutant: the circuit is open above the threshold only.                   *)
CircuitFloorLate ==
  IF Len(failures) <= Failures \/ Len(wakes) <= Wakes THEN 0 ELSE MaxFloor

CircuitFloor ==
  IF Len(failures) < Failures \/ Len(wakes) < Wakes THEN 0
  ELSE IF Len(failures) = Failures THEN InitialFloor ELSE MaxFloor

Recent == advert <= FreshTimeout

(* plan_backoff for one value of the jitter.                               *)
Planned(j) ==
  [floor |-> CircuitFloor,
   planned |-> Most(CircuitFloor, (IF Recent THEN Least(requested, RecentMax) ELSE requested) + j)]

(* Mutant: only the timer forgets the failures before a stable session.    *)
FailAlways(stable) ==
  /\ phase' = "cleanup" /\ spent' = 0 /\ timer' = FALSE
  /\ failures' = Recorded(failures) /\ unstable' = Least(unstable + 1, Failures)
  /\ UNCHANGED <<requested, wakes, waitVars, event, radioVars, commands, cuts, hasty, woken>>

(* A cycle fails (record_failure): a session that was stable is forgiven   *)
(* everything, any other failure counts.                                   *)
Fail(stable) ==
  /\ phase' = "cleanup" /\ spent' = 0 /\ timer' = FALSE
  /\ IF stable >= ResetAfter
     THEN /\ requested' = Initial /\ failures' = <<>> /\ wakes' = <<>>
          /\ hasty' = <<>> /\ unstable' = 0 /\ woken' = 0
     ELSE /\ failures' = Recorded(failures) /\ unstable' = Least(unstable + 1, Failures)
          /\ UNCHANGED <<requested, wakes, hasty, woken>>
  /\ UNCHANGED <<waitVars, event, radioVars, commands, cuts>>

-----------------------------------------------------------------------------
(* The surroundings: time, advertisements, commands, shutdown.             *)

(* A wait that is over ends before time goes on.                           *)
Due ==
  CASE phase = "waiting"  -> spent = FreshTimeout
    [] phase = "ready"    -> timer /\ spent >= ResetAfter
    [] phase = "backoff"  -> spent >= plan.planned \/ event \/ live
    [] phase = "settling" -> spent >= until \/ (plan.floor = 0 /\ event)
    [] OTHER              -> FALSE

Tick ==
  /\ ~Due
  /\ spent' = IF phase \in {"waiting", "ready", "backoff", "settling"}
              THEN Least(spent + 1, LongTime) ELSE spent
  /\ failures' = Aged(failures) /\ wakes' = Aged(wakes) /\ hasty' = Aged(hasty)
  /\ advert' = Least(advert + 1, OldAdvert)
  /\ IF phase = "ready" /\ spent' = ResetAfter THEN unstable' = 0 /\ woken' = 0
     ELSE UNCHANGED <<unstable, woken>>
  /\ UNCHANGED <<phase, timer, requested, waitVars, event, newer, live, commands, cuts>>

(* Home Assistant sees an advertisement; it does not tell its listeners of *)
(* one that brings nothing new.                                            *)
Advertises(told) ==
  /\ phase # "stopped"
  /\ advert' = 0 /\ newer' = TRUE
  /\ live' = (live \/ (told /\ phase \in {"waiting", "backoff"}))
  /\ UNCHANGED <<phase, spent, timer, policyVars, waitVars, event, commands, ghosts>>

Accept ==
  /\ phase # "stopped" /\ commands < MaxCommands
  /\ commands' = commands + 1 /\ event' = TRUE
  /\ UNCHANGED <<phase, spent, timer, policyVars, waitVars, radioVars, ghosts>>

(* The steps of a shutdown are apart in CommandOperations; here it is one. *)
Shutdown ==
  /\ phase # "stopped" /\ phase' = "stopped" /\ timer' = FALSE /\ event' = TRUE
  /\ failures' = <<>> /\ wakes' = <<>> /\ hasty' = <<>> /\ unstable' = 0 /\ woken' = 0
  /\ UNCHANGED <<spent, requested, waitVars, radioVars, commands, cuts>>

-----------------------------------------------------------------------------
(* A cycle.                                                                *)

(* _usable_service_info: an advertisement delivered during this wait, or a *)
(* cached one that is new enough and was not used before.                  *)
Usable == live \/ (newer /\ advert <= CacheAge + spent)

Route ==
  /\ phase = "waiting" /\ spent < FreshTimeout /\ Usable
  /\ phase' = "connecting" /\ spent' = 0 /\ newer' = FALSE /\ live' = FALSE
  /\ UNCHANGED <<timer, policyVars, waitVars, event, advert, commands, ghosts>>

NoRoute == phase = "waiting" /\ spent = FreshTimeout /\ Fail(0)

ConnectFails == phase = "connecting" /\ Fail(0)

Ready ==
  /\ phase = "connecting" /\ phase' = "ready" /\ spent' = 0 /\ timer' = TRUE
  /\ UNCHANGED <<policyVars, waitVars, event, radioVars, commands, ghosts>>

(* The start-up's wait and the ready loop take the event.                  *)
TakesEvent ==
  /\ phase \in {"connecting", "ready"} /\ event /\ event' = FALSE
  /\ UNCHANGED <<phase, spent, timer, policyVars, waitVars, radioVars, commands, ghosts>>

TimerFires ==
  /\ phase = "ready" /\ timer /\ spent >= ResetAfter /\ timer' = FALSE
  /\ failures' = <<>> /\ wakes' = <<>> /\ hasty' = <<>>
  /\ UNCHANGED <<phase, spent, requested, waitVars, event, radioVars, commands, cuts, unstable, woken>>

SessionFails == phase = "ready" /\ Fail(spent)

CleanedUp ==
  /\ phase = "cleanup" /\ phase' = "backoff" /\ spent' = 0 /\ live' = FALSE
  /\ \E j \in Jitters : plan' = Planned(j)
  /\ until' = 0 /\ triggered' = FALSE
  /\ UNCHANGED <<timer, policyVars, event, advert, newer, commands, ghosts>>

-----------------------------------------------------------------------------
(* _async_backoff                                                          *)

(* The wait is over, early because of a command or not: complete_backoff.  *)
Over(advertised, commanded) ==
  /\ phase' = "waiting" /\ spent' = 0 /\ live' = FALSE
  /\ until' = 0 /\ triggered' = FALSE
  /\ wakes' = IF advertised THEN Recorded(wakes) ELSE wakes
  /\ requested' = Least(BackoffMax, 2 * requested)
  /\ cuts' = IF commanded /\ spent < plan.planned THEN cuts + 1 ELSE cuts
  /\ hasty' = IF advertised /\ ~commanded /\ spent < Least(InitialFloor, plan.planned)
              THEN Append(hasty, 0) ELSE hasty
  /\ woken' = IF advertised THEN Least(woken + 1, Wakes) ELSE woken
  /\ UNCHANGED <<timer, failures, advert, newer, plan, commands, unstable>>

(* Mutant: the event that ended the second wait is not taken.              *)
SettledKeeps ==
  /\ phase = "settling" /\ (spent >= until \/ (plan.floor = 0 /\ event))
  /\ Over(triggered, event) /\ UNCHANGED event

(* Mutant: a command ends the wait of an open circuit, too.                *)
SettledByCommand ==
  /\ phase = "settling" /\ (spent >= until \/ event)
  /\ event' = FALSE /\ Over(triggered, event)

(* The second wait: a command ends it unless the circuit is open, and a    *)
(* command that came meanwhile is taken as its reason.                     *)
Settled ==
  /\ phase = "settling" /\ (spent >= until \/ (plan.floor = 0 /\ event))
  /\ event' = FALSE /\ Over(triggered, event)

(* Mutant: only a command or an advertisement ends the first wait.         *)
WokenOnly(reason) ==
  /\ phase = "backoff" /\ (event \/ live)
  /\ reason = IF event THEN "command" ELSE "advertisement"
  /\ event' = FALSE

(* The first wait ends for the first reason that applies.                  *)
Woken(reason) ==
  /\ phase = "backoff"
  /\ \/ event /\ reason = "command"
     \/ ~event /\ live /\ reason = "advertisement"
     \/ ~event /\ ~live /\ spent >= plan.planned /\ reason = "delay"
  /\ event' = FALSE

LeastWait(reason) == IF reason = "advertisement" THEN Most(plan.floor, Settle) ELSE plan.floor

BackoffEnds(reason) ==
  /\ Woken(reason) /\ spent >= LeastWait(reason) /\ Over(live, reason = "command")

BackoffSettles(reason) ==
  /\ Woken(reason) /\ spent < LeastWait(reason)
  /\ phase' = "settling" /\ until' = LeastWait(reason) /\ triggered' = live /\ live' = FALSE
  /\ UNCHANGED <<spent, timer, policyVars, plan, advert, newer, commands, ghosts>>

Cycle == \/ Route \/ NoRoute \/ ConnectFails \/ Ready \/ TakesEvent \/ TimerFires
         \/ SessionFails \/ CleanedUp

Reasons == {"command", "advertisement", "delay"}
Wait == Settled \/ \E r \in Reasons : BackoffEnds(r) \/ BackoffSettles(r)

Next == \/ Tick \/ Accept \/ Shutdown \/ Cycle \/ Wait
        \/ \E told \in BOOLEAN : Advertises(told)

Spec == Init /\ [][Next]_vars

(* Timers fire and the runner's steps end (each has its own deadline).     *)
(* Nothing obliges the purifier to advertise.                              *)
FairSpec ==
  /\ Spec /\ WF_vars(Tick) /\ WF_vars(Wait) /\ WF_vars(CleanedUp)
  /\ WF_vars(Route \/ NoRoute) /\ WF_vars(ConnectFails \/ Ready) /\ WF_vars(TimerFires)

-----------------------------------------------------------------------------
(* Within one window, no more reconnections than the larger threshold are  *)
(* forced by advertisements alone before the circuit's first floor, however*)
(* failures, advertisements, commands and sessions alternate               *)
(* (recovery.py, circuit_floor; client.py, _async_backoff).                *)
StormIsBounded == Len(hasty) <= Most(Failures, Wakes)

(* The circuit opens only on the evidence of unstable sessions: a stable   *)
(* session forgives what came before it, whether its timer or its failure  *)
(* is noticed first (client.py, reset_if_current; recovery.py,             *)
(* record_failure).                                                        *)
CircuitIsEarned ==
  phase \in {"backoff", "settling"} /\ plan.floor > 0
    => unstable = Failures /\ woken = Wakes

(* Every command cuts at most one wait short, so that one that stays queued*)
(* while connections fail does not make the client reconnect at once again *)
(* and again (client.py, _async_backoff).                                  *)
CutsArePaid == cuts <= commands

(* No wait ends before its circuit's floor, nor, where the circuit is      *)
(* closed, on an advertisement alone before Home Assistant has settled on  *)
(* a route (client.py, _async_backoff).                                    *)
Waited ==
  IF plan.floor = 0 /\ ~event /\ (triggered \/ live) THEN Settle ELSE plan.floor
FloorIsKept ==
  [][(phase \in {"backoff", "settling"} /\ phase' = "waiting") => spent >= Waited]_vars

(* The client never waits for good: it comes back to look for the purifier,*)
(* stays connected, or is stopped (client.py, _run).                       *)
KeepsTrying == []<>(phase \in {"waiting", "ready", "stopped"})

(***************************************************************************)
(* The inductive invariant, in parts.                                      *)
(***************************************************************************)

Phases == {"waiting", "connecting", "ready", "cleanup", "backoff", "settling", "stopped"}

TypeInv ==
  /\ phase \in Phases /\ spent \in Nat /\ until \in Nat
  /\ plan.floor \in Nat /\ plan.planned \in Nat
  /\ triggered \in BOOLEAN /\ event \in BOOLEAN /\ live \in BOOLEAN
  /\ failures \in Seq(Nat) /\ wakes \in Seq(Nat)
  /\ requested \in Nat /\ commands \in Nat /\ cuts \in Nat
  /\ unstable \in 0 .. Failures /\ woken \in 0 .. Wakes

(* What the policy has recorded is no more than has happened since the     *)
(* last stable session, but for the step between its timer's time and its  *)
(* end.                                                                    *)
EvidenceInv ==
  \/ phase = "ready" /\ spent >= ResetAfter
  \/ /\ Len(failures) <= unstable \/ unstable = Failures
     /\ Len(wakes) <= woken \/ woken = Wakes

(* The second wait is a full one, and an advertisement ends the first.     *)
WaitInv ==
  /\ phase = "settling" => until >= plan.floor /\ (plan.floor = 0 => until >= Settle)
  /\ phase = "backoff" => ~triggered

(* A command that has cut a wait short is no longer announced.             *)
EventInv == phase # "stopped" /\ event => cuts < commands

RecoveryInv ==
  TypeInv /\ EvidenceInv /\ WaitInv /\ EventInv /\ CircuitIsEarned /\ CutsArePaid

(* The storm's bound.  Every hasty wait but the last is followed by a wake *)
(* and by a failure of its own that are no older, so that what the policy  *)
(* counts outlives what the bound counts; and a wait below the first floor *)
(* was planned while one of the thresholds was not reached.                *)
InOrder(ages) == \A i, j \in DOMAIN ages : i <= j => ages[j] <= ages[i]

(* The n-th newest.                                                        *)
Newest(ages, n) == ages[Len(ages) + 1 - n]

(* Of the waits, but for the newest "open" of them, the n-th newest is not *)
(* younger than the n-th newest of the ages.                               *)
Outlive(ages, waits, open) ==
  \A n \in 1 .. Len(waits) - open :
    n <= Len(ages) /\ Newest(ages, n) <= Newest(waits, n + open)

HasFailed == phase \in {"cleanup", "backoff", "settling"}

StormInv ==
  /\ hasty \in Seq(Nat) /\ InOrder(hasty) /\ InOrder(failures) /\ InOrder(wakes)
  /\ Outlive(wakes, hasty, 0) /\ Outlive(failures, hasty, IF HasFailed THEN 0 ELSE 1)
  /\ phase \in {"backoff", "settling"} /\ plan.floor < InitialFloor
       => Len(hasty) < Most(Failures, Wakes)
  /\ StormIsBounded
=============================================================================
