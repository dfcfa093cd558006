------------------------ MODULE CustomAutoController ------------------------
(***************************************************************************)
(* The Custom Auto controller (custom_auto_controller.py): one actor task  *)
(* that takes events from a queue and owns the policy, and the worker      *)
(* tasks it starts: "sample" asks for one air-quality reading, "timer"     *)
(* sleeps until the next boundary of the policy, "command" sends a fan     *)
(* mode.  A worker ends by queueing its completion.                        *)
(*                                                                         *)
(* An action is the code between two awaits.  The actor waits in the       *)
(* middle of an event only while it invalidates the work in progress:      *)
(*                                                                         *)
(*   idle -> [releasing] -> [draining] -> idle | stopped                   *)
(*                                                                         *)
(* "releasing" waits for cancel_sample, "draining" for the end of the      *)
(* cancelled workers; each is skipped when there is nothing to wait for.   *)
(* Around the actor: the coordinator, which makes one control call at a    *)
(* time (its control lock) and routes what the client reports.             *)
(***************************************************************************)
EXTENDS CustomAutoPolicy, Sequences

CONSTANTS
  PMs,              \* the PM2.5 values the purifier reports
  NoPM,             \* a missing, invalid or sentinel value
  MaxTime,          \* bound: ticks of the clock
  MaxReadings,      \* bound: air-quality frames received
  MaxInputs,        \* bound: control calls and link, power and button events
  QueueLimit        \* bound: events waiting when the surroundings add one

ASSUME ControllerAssumption ==
  /\ PMs \subseteq Nat /\ NoPM \notin Nat
  /\ MaxTime \in Nat /\ MaxReadings \in Nat
  /\ MaxInputs \in Nat /\ QueueLimit \in Nat

Kinds == {"sample", "timer", "command"}
(* ha_override is to the controller what deactivate is, and stands with it. *)
Calls == {"activate", "deactivate", "begin_power_off", "finish_power_off", "shutdown"}

VARIABLES
  (* the coordinator, the client and the purifier, as the controller sees them *)
  now,            \* the event loop's clock
  link,           \* [gen, phase]: the client's connection generation and its session
  power,          \* the power state the coordinator has cached
  revision,       \* the client's observation revision
  caller,         \* the control call in progress, "off" between the two of a power-off, or "free"
  budget,         \* bounds: [readings, inputs] left
  (* the controller *)
  queue,          \* events not yet taken
  actor,          \* where the actor is
  handling,       \* the control it is in the middle of, "event" for another event, or "none"
  active, available, powered, transition,     \* _active ... _power_transition
  generation,     \* _connection_generation
  policy,         \* _policy
  barrierRev, barrierAt, lastSeen,            \* the sample barrier, _last_seen_air_revision
  worker,         \* _workers: the serial of each kind's worker, 0 if there is none
  task,           \* the live worker task of each kind (a set, at most one)
  (* history *)
  evidence        \* the readings handled since the last invalidation

envVars  == <<now, link, power, revision, budget>>
flagVars == <<active, available, powered, transition, generation>>
barVars  == <<barrierRev, barrierAt, lastSeen>>
workVars == <<policy, worker, task, evidence>>
vars == <<envVars, caller, queue, actor, handling, flagVars, barVars, workVars>>

Usable == active /\ available /\ powered /\ ~transition

(* Serials are only compared for equality, so one that no completion of    *)
(* the kind in the queue carries stands for a new one.  (The activation    *)
(* number and the connection generation that a completion carries besides  *)
(* its serial change only in steps that give up every serial.)             *)
Completions(k) ==
  {queue[i] : i \in {j \in DOMAIN queue : queue[j].type = "done" /\ queue[j].kind = k}}
Fresh(k) ==
  CHOOSE n \in 1 .. Len(queue) + 1 : \A e \in Completions(k) : e.serial # n

Running(k, tgt, wake) ==
  {[serial |-> Fresh(k), target |-> tgt, wake |-> wake, cancelled |-> FALSE]}

(* A connected, powered purifier; the switch is OFF.  Generations are      *)
(* counted from here.                                                      *)
Init ==
  /\ now = 0 /\ link = [gen |-> 1, phase |-> "ready"] /\ power = TRUE /\ revision = 0
  /\ caller = "free" /\ queue = <<>> /\ actor = "idle" /\ handling = "none"
  /\ budget = [readings |-> MaxReadings, inputs |-> MaxInputs]
  /\ active = FALSE /\ available = TRUE /\ powered = TRUE /\ transition = FALSE
  /\ generation = 1 /\ barrierRev = 0 /\ barrierAt = 0 /\ lastSeen = 0
  /\ policy = InitialPolicy
  /\ worker = [k \in Kinds |-> 0] /\ task = [k \in Kinds |-> {}] /\ evidence = <<>>

-----------------------------------------------------------------------------
(* The surroundings: time, the purifier, the client, the coordinator.      *)

Spend(what) == budget[what] > 0 /\ budget' = [budget EXCEPT ![what] = @ - 1]

(* The coordinator routes nothing to a controller it is shutting down.     *)
Open == actor # "stopped" /\ caller # "shutdown" /\ Len(queue) < QueueLimit

Tick == /\ now < MaxTime /\ now' = now + 1
        /\ UNCHANGED <<link, power, revision, budget, caller, queue, actor, handling,
                       flagVars, barVars, workVars>>

ConnectionEvent(up, gen) == [type |-> "connection", up |-> up, gen |-> gen, at |-> now]

(* The client publishes a frame and the coordinator routes it, after the   *)
(* news of the connection if the controller has not heard of it.           *)
Receive(pm) ==
  /\ Open /\ link.phase # "down" /\ Spend("readings")
  /\ revision' = revision + 1
  /\ LET air == [type |-> "air", pm |-> pm, rev |-> revision + 1, at |-> now, gen |-> link.gen]
     IN queue' = queue \o (IF link.gen > generation
                           THEN <<ConnectionEvent(FALSE, link.gen), air>> ELSE <<air>>)
  /\ UNCHANGED <<now, link, power, caller, actor, handling, flagVars, barVars, workVars>>

(* A session ends, another begins, and becomes available.                  *)
LinkDrops ==
  /\ Open /\ link.phase = "ready" /\ Spend("inputs")
  /\ link' = [link EXCEPT !.phase = "down"]
  /\ queue' = Append(queue, ConnectionEvent(FALSE, link.gen))
  /\ UNCHANGED <<now, power, revision, caller, actor, handling, flagVars, barVars, workVars>>

LinkConnects ==
  /\ link.phase = "down" /\ link' = [gen |-> link.gen + 1, phase |-> "starting"]
  /\ UNCHANGED <<now, power, revision, budget, caller, queue, actor, handling,
                 flagVars, barVars, workVars>>

LinkReady ==
  /\ Open /\ link.phase = "starting" /\ link' = [link EXCEPT !.phase = "ready"]
  /\ queue' = Append(queue, ConnectionEvent(TRUE, link.gen))
  /\ UNCHANGED <<now, power, revision, budget, caller, actor, handling,
                 flagVars, barVars, workVars>>

(* The cached power state changes and the coordinator passes it on.        *)
PowerReported ==
  /\ Open /\ link.phase # "down" /\ Spend("inputs") /\ power' = ~power
  /\ queue' = Append(queue, [type |-> "power", on |-> ~power])
  /\ UNCHANGED <<now, link, revision, caller, actor, handling, flagVars, barVars, workVars>>

(* Somebody presses the purifier's button: hardware Auto or a fixed level. *)
ButtonPressed(auto) ==
  /\ Open /\ link.phase # "down" /\ Spend("inputs")
  /\ queue' = Append(queue, [type |-> "fan", auto |-> auto, gen |-> link.gen])
  /\ UNCHANGED <<now, link, power, revision, caller, actor, handling,
                 flagVars, barVars, workVars>>

(* A control call: it queues its event and waits for the future.           *)
Call(c) ==
  /\ caller = "free" /\ actor # "stopped" /\ c # "finish_power_off" /\ Spend("inputs")
  /\ caller' = c /\ queue' = Append(queue, [type |-> "control", call |-> c, on |-> FALSE])
  /\ UNCHANGED <<now, link, power, revision, actor, handling, flagVars, barVars, workVars>>

(* The power-off command is confirmed, or it fails; the call ends the      *)
(* transition with what is known of the power.                             *)
FinishPowerOff(confirmed) ==
  /\ caller = "off" /\ caller' = "finish_power_off"
  /\ power' = (power /\ ~confirmed)
  /\ queue' = queue \o (IF power /\ confirmed THEN <<[type |-> "power", on |-> FALSE]>> ELSE <<>>)
                    \o <<[type |-> "control", call |-> "finish_power_off", on |-> power']>>
  /\ UNCHANGED <<now, link, revision, budget, actor, handling, flagVars, barVars, workVars>>

-----------------------------------------------------------------------------
(* The end of an event.                                                    *)

(* The control's future is resolved; a shutdown also ends the actor.       *)
Return(h) ==
  /\ handling' = "none" /\ actor' = IF h = "shutdown" THEN "stopped" ELSE "idle"
  /\ caller' = CASE h \notin Calls -> caller
                 [] h = "begin_power_off" -> "off"
                 [] OTHER -> "free"

(* The end of _invalidate_operational and what follows it everywhere: the  *)
(* policy starts afresh, and a usable controller asks for a sample.        *)
Settle(h) ==
  /\ policy' = InitialPolicy /\ evidence' = <<>>
  /\ worker' = [k \in Kinds |-> IF k = "sample" /\ Usable' THEN Fresh(k) ELSE 0]
  /\ task' = [k \in Kinds |-> IF k = "sample" /\ Usable' THEN Running(k, 0, 0) ELSE {}]
  /\ Return(h)

Cancelled(T) == {[t EXCEPT !.cancelled = TRUE] : t \in T}

(* Mutant: the cancelled workers are not waited for.                       *)
CancelNoWait(h) ==
  /\ policy' = InitialPolicy /\ evidence' = <<>> /\ worker' = [k \in Kinds |-> 0]
  /\ task' = [k \in Kinds |-> IF k = "timer" THEN {} ELSE Cancelled(task[k])]
  /\ Return(h)

(* _cancel_kinds for what is left: take the workers out, cancel their      *)
(* tasks and wait for them.  A sleeping timer ends at once.                *)
CancelRest(h) ==
  IF task["sample"] \cup task["command"] = {} THEN Settle(h)
  ELSE /\ actor' = "draining" /\ handling' = h
       /\ worker' = [k \in Kinds |-> 0]
       /\ task' = [k \in Kinds |-> IF k = "timer" THEN {} ELSE Cancelled(task[k])]
       /\ UNCHANGED <<policy, evidence, caller>>

(* _invalidate_operational up to its first wait; at is the barrier's time. *)
Invalidate(h, at) ==
  /\ barrierRev' = lastSeen'
  /\ barrierAt' = Max({barrierAt, at})
  /\ IF worker["sample"] # 0
     THEN /\ actor' = "releasing" /\ handling' = h
          /\ worker' = [worker EXCEPT !["sample"] = 0]
          /\ UNCHANGED <<policy, task, evidence, caller>>
     ELSE CancelRest(h)

(* cancel_sample has returned.                                             *)
Released ==
  /\ actor = "releasing"
  /\ UNCHANGED <<envVars, queue, flagVars, barVars>>
  /\ CancelRest(handling)

(* Mutant: the control that waited for the workers is not answered.        *)
DrainedUnanswered ==
  /\ actor = "draining" /\ \A k \in Kinds : task[k] = {}
  /\ UNCHANGED <<envVars, queue, flagVars, barVars>>
  /\ Settle("event")

(* The cancelled workers have ended.                                       *)
Drained ==
  /\ actor = "draining" /\ \A k \in Kinds : task[k] = {}
  /\ UNCHANGED <<envVars, queue, flagVars, barVars>>
  /\ Settle(handling)

-----------------------------------------------------------------------------
(* One action per kind of event; each takes the head of the queue.         *)

Take(type) ==
  /\ actor = "idle" /\ queue # <<>> /\ Head(queue).type = type
  /\ queue' = Tail(queue) /\ UNCHANGED envVars

Ignore == UNCHANGED <<caller, actor, handling, flagVars, barVars, workVars>>

HandleControl ==
  /\ Take("control")
  /\ LET e == Head(queue) IN
       /\ active' = CASE e.call = "activate" -> TRUE
                      [] e.call \in {"deactivate", "shutdown"} -> FALSE
                      [] OTHER -> active
       /\ transition' = CASE e.call = "begin_power_off" -> TRUE
                          [] e.call = "shutdown" -> transition
                          [] OTHER -> FALSE
       /\ powered' = IF e.call = "finish_power_off" THEN e.on ELSE powered
       /\ UNCHANGED <<available, generation, lastSeen>>
       /\ Invalidate(e.call, now)

HandleConnection ==
  /\ Take("connection")
  /\ LET e == Head(queue) IN
       IF e.gen < generation \/ (e.gen = generation /\ e.up /\ available)
       THEN Ignore
       ELSE /\ generation' = e.gen /\ available' = e.up
            /\ lastSeen' = IF e.gen # generation THEN 0 ELSE lastSeen
            /\ UNCHANGED <<active, powered, transition>>
            /\ Invalidate("event", e.at)

HandlePower ==
  /\ Take("power")
  /\ IF Head(queue).on = powered THEN Ignore
     ELSE /\ powered' = Head(queue).on
          /\ UNCHANGED <<active, available, transition, generation, lastSeen>>
          /\ Invalidate("event", now)

(* A physical Auto keeps ownership and starts afresh; a physical level     *)
(* yields it.                                                              *)
HandleFan ==
  /\ Take("fan")
  /\ LET e == Head(queue) IN
       IF e.gen # generation \/ ~active THEN Ignore
       ELSE /\ active' = e.auto
            /\ UNCHANGED <<available, powered, transition, generation, lastSeen>>
            /\ Invalidate("event", now)

(* Mutant: a completion does not replace the timer it makes obsolete.      *)
ApplyKeepsTimer(q, w, emitted, asks) ==
  /\ policy' = q
  /\ worker' = [w EXCEPT !["command"] = IF emitted /\ w["command"] = 0 THEN Fresh("command") ELSE @,
                         !["sample"] = IF asks /\ task["sample"] = {} THEN Fresh("sample") ELSE @]
  /\ task' = [task EXCEPT
       !["command"] = IF emitted /\ w["command"] = 0 THEN Running("command", q.pending, 0) ELSE @,
       !["sample"] = IF asks /\ @ = {} THEN Running("sample", 0, 0) ELSE @]

(* _apply_policy_result with the workers w: send what was emitted, sample  *)
(* once, and let one timer wait for the earliest boundary.  A sample whose *)
(* task is over but whose completion waits in the queue is replaced.       *)
Apply(q, w, emitted, asks) ==
  LET sends   == emitted /\ w["command"] = 0 /\ ~transition
      samples == asks /\ task["sample"] = {}
      waits   == Boundaries(q) # {}
  IN /\ policy' = q
     /\ worker' = [w EXCEPT !["command"] = IF sends THEN Fresh("command") ELSE @,
                            !["sample"] = IF samples THEN Fresh("sample") ELSE @,
                            !["timer"] = IF waits THEN Fresh("timer") ELSE 0]
     /\ task' = [task EXCEPT
          !["command"] = IF sends THEN Running("command", q.pending, 0) ELSE @,
          !["sample"] = IF samples THEN Running("sample", 0, 0) ELSE @,
          !["timer"] = IF waits THEN Running("timer", 0, Min(Boundaries(q))) ELSE {}]

(* Mutant: the time of receipt is not compared with the barrier.           *)
BehindBarrierRev(e) == barrierRev # 0 /\ e.rev <= barrierRev

(* A reading of before the last invalidation.                              *)
BehindBarrier(e) ==
  \/ barrierRev # 0 /\ e.rev <= barrierRev
  \/ e.at < barrierAt

(* What is kept of a reading.                                              *)
Handled(e) == [pm |-> e.pm, at |-> e.at, repeats |-> Repeats(policy, LevelFor(e.pm))]

(* An air-quality observation: a revision counts once, and drives the      *)
(* policy if the controller is usable, it is valid and past the barrier.   *)
HandleAir ==
  /\ Take("air")
  /\ LET e == Head(queue) IN
       IF e.gen # generation \/ (lastSeen # 0 /\ e.rev <= lastSeen) THEN Ignore
       ELSE /\ lastSeen' = e.rev
            /\ evidence' = IF e.pm # NoPM /\ e.at >= barrierAt
                           THEN Append(evidence, Handled(e)) ELSE evidence
            /\ UNCHANGED <<caller, actor, handling, flagVars, barrierRev, barrierAt>>
            /\ IF ~Usable \/ BehindBarrier(e) \/ e.pm = NoPM
               THEN UNCHANGED <<policy, worker, task>>
               ELSE LET q == Observe(policy, [pm |-> e.pm, rev |-> e.rev, at |-> e.at])
                    IN Apply(q, worker, q.pending # policy.pending, FALSE)

(* Mutant: the serial of a completion is not compared.                     *)
CurrentAny(e) == worker[e.kind] # 0

(* The completion of the worker the actor still has of that kind.          *)
Current(e) == worker[e.kind] = e.serial

(* Mutant: the worker that has ended still counts as running.              *)
CommandConfirmedEarly(w) ==
  LET q == Reconcile(Confirm(policy)) IN
  Apply(AtBoundary(q, now), worker, q.pending # 0, AsksForSample(q, now))

(* The command was acknowledged: confirm its level, evaluate the reading   *)
(* kept meanwhile, then the boundaries.                                    *)
CommandConfirmed(w) ==
  LET q == Reconcile(Confirm(policy)) IN
  Apply(AtBoundary(q, now), w, q.pending # 0, AsksForSample(q, now))

(* _schedule_pending_command_if_usable, for a target that changed meanwhile. *)
SendPending(w) ==
  /\ UNCHANGED policy
  /\ IF policy.pending # 0 /\ Usable
     THEN /\ worker' = [w EXCEPT !["command"] = Fresh("command")]
          /\ task' = [task EXCEPT !["command"] = Running("command", policy.pending, 0)]
     ELSE worker' = w /\ UNCHANGED task

(* The completion of a worker.  A stale one is dropped; a sample's changes *)
(* nothing; a failed command waits for a newer reading.  A command that no *)
(* longer has the pending target would be sent again.                      *)
HandleDone ==
  /\ Take("done")
  /\ UNCHANGED <<caller, actor, handling, flagVars, barVars, evidence>>
  /\ LET e == Head(queue)
         w == [worker EXCEPT ![e.kind] = 0]
     IN CASE ~Current(e) -> UNCHANGED <<policy, worker, task>>
          [] Current(e) /\ e.kind = "sample" -> worker' = w /\ UNCHANGED <<policy, task>>
          [] Current(e) /\ e.kind = "timer" ->
               Apply(AtBoundary(policy, now), w, FALSE, AsksForSample(policy, now))
          [] Current(e) /\ e.kind = "command" ->
               IF e.target # policy.pending THEN SendPending(w)
               ELSE IF e.ok THEN CommandConfirmed(w)
               ELSE /\ policy' = MarkFailed(policy) /\ worker' = w /\ UNCHANGED task

-----------------------------------------------------------------------------
(* The workers.                                                            *)

(* A worker ends and queues its completion; only the result of a command   *)
(* matters to the actor.                                                   *)
WorkerEnds(k, ok) ==
  /\ k # "command" => ok
  /\ \E t \in task[k] :
       /\ ~t.cancelled /\ (k = "timer" => now >= t.wake)
       /\ queue' = Append(queue, [type |-> "done", kind |-> k, serial |-> t.serial,
                                  ok |-> ok, target |-> t.target])
  /\ task' = [task EXCEPT ![k] = {}]
  /\ UNCHANGED <<envVars, caller, actor, handling, flagVars, barVars, policy, worker, evidence>>

(* A cancelled worker ends.  Its completion has a serial the actor has     *)
(* given up, whatever its result, and is left out.                         *)
CancelledEnds(k) ==
  /\ \E t \in task[k] : t.cancelled
  /\ task' = [task EXCEPT ![k] = {}]
  /\ UNCHANGED <<envVars, caller, queue, actor, handling, flagVars, barVars,
                 policy, worker, evidence>>

ActorStep == \/ Released \/ Drained
             \/ HandleControl \/ HandleConnection \/ HandlePower \/ HandleFan
             \/ HandleAir \/ HandleDone

ClientStep == \/ Tick \/ LinkDrops \/ LinkConnects \/ LinkReady \/ PowerReported
              \/ \E pm \in PMs \cup {NoPM} : Receive(pm)
              \/ \E auto \in BOOLEAN : ButtonPressed(auto)

CallerStep == \/ \E c \in Calls : Call(c)
              \/ \E confirmed \in BOOLEAN : FinishPowerOff(confirmed)

Next == \/ ActorStep \/ ClientStep \/ CallerStep
        \/ \E k \in Kinds : CancelledEnds(k) \/ \E ok \in BOOLEAN : WorkerEnds(k, ok)

Spec == Init /\ [][Next]_vars

-----------------------------------------------------------------------------
Tasks  == [serial : Nat, target : 0 .. Levels, wake : Nat, cancelled : BOOLEAN]
Events == [type : {"control"}, call : Calls, on : BOOLEAN]
          \cup [type : {"connection"}, up : BOOLEAN, gen : Nat, at : Nat]
          \cup [type : {"power"}, on : BOOLEAN]
          \cup [type : {"fan"}, auto : BOOLEAN, gen : Nat]
          \cup [type : {"air"}, pm : PMs \cup {NoPM}, rev : Nat, at : Nat, gen : Nat]
          \cup [type : {"done"}, kind : Kinds, serial : Nat, ok : BOOLEAN, target : 0 .. Levels]

(* Every variable of the controller keeps its type; in particular a kind   *)
(* has at most one live worker, and one crossing is timed per level.       *)
TypeOK ==
  /\ now \in Nat /\ revision \in Nat
  /\ link \in [gen : Nat, phase : {"down", "starting", "ready"}]
  /\ power \in BOOLEAN
  /\ caller \in Calls \cup {"free", "off"}
  /\ budget \in [readings : Nat, inputs : Nat]
  /\ queue \in Seq(Events)
  /\ actor \in {"idle", "releasing", "draining", "stopped"}
  /\ handling \in Calls \cup {"event", "none"}
  /\ active \in BOOLEAN /\ available \in BOOLEAN /\ powered \in BOOLEAN
  /\ transition \in BOOLEAN /\ generation \in Nat
  /\ barrierRev \in Nat /\ barrierAt \in Nat /\ lastSeen \in Nat
  /\ policy \in PolicyStates
  /\ \A d, e \in policy.downs : d.level = e.level => d = e
  /\ worker \in [Kinds -> Nat]
  /\ task \in [Kinds -> SUBSET Tasks] /\ \A k \in Kinds : \A t, u \in task[k] : t = u
  /\ evidence \in Seq([pm : PMs, at : Nat, repeats : BOOLEAN])

Resting == actor \in {"idle", "stopped"}

(* Between events no worker runs unless the controller is active on an     *)
(* available, powered purifier that is not being switched off: when        *)
(* deactivate, ha_override, begin_power_off or shutdown has returned, when *)
(* a physical level was selected or the link was lost, no command of       *)
(* Custom Auto is on its way any more.                                     *)
QuietUnlessUsable ==
  Resting /\ ~Usable => /\ \A k \in Kinds : task[k] = {}
                        /\ policy = InitialPolicy

(* The actor knows every live worker, and nothing else runs behind it: a   *)
(* live task is the registered one unless the actor waits for its end.     *)
NoStrayWorker ==
  \A k \in Kinds : \A t \in task[k] :
    IF t.cancelled THEN actor = "draining"
    ELSE worker[k] = t.serial \/ (k = "sample" /\ actor = "releasing")

Outstanding(k) ==
  \/ \E t \in task[k] : t.serial = worker[k] /\ ~t.cancelled
  \/ \E e \in Completions(k) : e.serial = worker[k]

(* A target the policy waits for is being sent, or the result is on its    *)
(* way to the actor: the policy cannot wait for a command nobody sends.    *)
TargetIsSent ==
  Resting /\ policy.pending # 0 =>
    /\ Outstanding("command")
    /\ \A t \in task["command"] : t.target = policy.pending

(* A boundary that has not been sampled has a timer that wakes in time, or *)
(* the completion of one in the queue: no confirmation or dwell is left    *)
(* without its alarm.                                                      *)
BoundaryHasAlarm ==
  Resting /\ Boundaries(policy) # {} =>
    /\ Outstanding("timer")
    /\ \A t \in task["timer"] : \A b \in Boundaries(policy) : t.wake <= b

(* The policy wants a new command in this step.                            *)
Emits == policy'.pending # 0 /\ policy'.pending # policy.pending

LevelAt(i) == LevelFor(evidence'[i].pm)

(* Readings i to the last one are all OK and span at least d, and unless   *)
(* one is enough there are two.                                            *)
Sustained(OK(_), d, one) ==
  LET n == Len(evidence') IN
  \E i \in 1 .. n : /\ one \/ i < n
                    /\ evidence'[n].at >= evidence'[i].at + d
                    /\ \A j \in i .. n : OK(j)

(* The first level is that of a reading received after the ownership       *)
(* began, and after a failed command the next one is that of the latest    *)
(* reading, or the failed downshift which that reading allows: activation, *)
(* reconnection and power-on never act on an older reading.                *)
FreshTarget ==
  [][ Emits /\ (policy'.level = 0 \/ policy'.failed # 0) =>
        /\ evidence' # <<>>
        /\ \/ policy'.pending = LevelAt(Len(evidence'))
           \/ policy'.pending = policy'.failed /\ policy'.failed < policy'.level
              /\ LevelAt(Len(evidence')) <= policy'.pending ]_vars

(* The fan is raised above the confirmed level only when the air has been  *)
(* worse than it in every reading of the confirmation time, and in two of  *)
(* them unless the time is zero; it is raised to the last one's level.     *)
RaisedWhenConfirmed ==
  [][ Emits /\ policy'.failed = 0 /\ policy'.level # 0 /\ policy'.pending > policy'.level =>
        /\ Sustained(LAMBDA j : LevelAt(j) > policy'.level, UpDelay, UpDelay = 0)
        /\ policy'.pending = LevelAt(Len(evidence')) ]_vars

(* The fan is slowed below the confirmed level, other than by a repeated   *)
(* downshift.                                                              *)
Slows == Emits /\ policy'.failed = 0 /\ policy'.level # 0 /\ policy'.pending < policy'.level

(* The fan is slowed only when the air has been good enough for the new    *)
(* level in every reading of that level's dwell, commands in flight        *)
(* included, and in a fresh one at its end; apart are readings that        *)
(* repeated a failed downshift, which end no dwell (DirtierEndsDwell).     *)
SlowedAfterDwell ==
  [][ Slows => Sustained(LAMBDA j : LevelAt(j) <= policy'.pending \/ evidence'[j].repeats,
                         DownDelay[policy'.pending], FALSE) ]_vars

(* README.md:123-124: "A fresh, still-qualifying reading at or after       *)
(* maturity is required before the fan slows.  Dirtier air cancels         *)
(* incompatible downward dwell."                                           *)
DirtierEndsDwell ==
  [][ Slows => Sustained(LAMBDA j : LevelAt(j) <= policy'.pending,
                         DownDelay[policy'.pending], FALSE) ]_vars

(* Fairness: the actor takes its next step, cancel_sample returns, and a   *)
(* cancelled worker ends.  Nothing else is assumed of the workers.         *)
FairSpec == /\ Spec /\ WF_vars(ActorStep)
            /\ \A k \in Kinds : WF_vars(CancelledEnds(k))

(* Every control call returns, although each must wait for the events      *)
(* before it and for the workers they cancel.                              *)
ControlReturns == (caller \in Calls) ~> (caller \notin Calls)

(***************************************************************************)
(* The inductive invariant behind the four invariants, in parts.           *)
(***************************************************************************)

(* A completion is of a worker that runs no more.                          *)
SerialInv ==
  \A k \in Kinds :
    /\ \A t \in task[k] : t.serial # 0
    /\ \A e \in Completions(k) :
         e.serial # 0 /\ \A t \in task[k] : t.cancelled \/ t.serial # e.serial

(* What is registered is outstanding, and what cannot be used is given up. *)
WorkerInv ==
  /\ NoStrayWorker /\ QuietUnlessUsable
  /\ \A k \in {"timer", "command"} : worker[k] # 0 => Outstanding(k)
  /\ actor = "draining" \/ (Resting /\ ~Usable) => \A k \in Kinds : worker[k] = 0
  /\ actor = "releasing" => worker["sample"] = 0
  /\ \A t \in task["timer"] : ~t.cancelled

(* The command worker sends the pending target, and no other.              *)
CommandInv ==
  /\ worker["command"] # 0 => policy.pending # 0
  /\ actor # "draining" /\ policy.pending # 0 => worker["command"] # 0
  /\ actor # "draining" => \A t \in task["command"] : t.target = policy.pending
  /\ \A e \in Completions("command") :
       e.serial = worker["command"] => e.target = policy.pending

(* The timer waits for no longer than the first boundary.                  *)
AlarmInv ==
  /\ actor # "draining" /\ Boundaries(policy) # {} => worker["timer"] # 0
  /\ \A t \in task["timer"] : \A b \in Boundaries(policy) : t.wake <= b

ControllerInv == TypeOK /\ SerialInv /\ WorkerInv /\ CommandInv /\ AlarmInv

(* The inductive invariant behind the three properties of the hysteresis.  *)

(* The readings of ev from the one that started the confirmation u up to   *)
(* the n-th were all worse than the level.                                 *)
Confirming(u, level, ev, n) ==
  \E i \in 1 .. n : ev[i].at = u.at /\ \A j \in i .. n : LevelFor(ev[j].pm) > level

(* The dwell d was started by one of the first m readings, and all from it *)
(* up to the n-th allowed its level or repeated a failed downshift.        *)
Dwelling(d, ev, m, n) ==
  \E i \in 1 .. m : /\ ev[i].at = d.at
                    /\ \A j \in i .. n : LevelFor(ev[j].pm) <= d.level \/ ev[j].repeats

Backed(p, ev, m, n) ==
  /\ \A u \in p.upshift : Confirming(u, p.level, ev, n)
  /\ \A d \in p.downs : Dwelling(d, ev, m, n)

(* While a target is pending no upshift is being confirmed and the reading *)
(* kept for later is the last one; after a target that is no downshift no  *)
(* dwell is left.                                                          *)
PendingInv(p, ev) ==
  /\ p.pending = 0 => p.deferred = {}
  /\ p.pending # 0 => p.upshift = {} /\ (p.pending >= p.level => p.downs = {})
  /\ p.failed # 0 /\ p.failed >= p.level => p.downs = {}
  /\ \A r \in p.deferred : ev # <<>> /\ ev[Len(ev)].pm = r.pm /\ ev[Len(ev)].at = r.at

(* What the policy times is backed by the readings handled, the one that   *)
(* is kept for later not among those that started a dwell.                 *)
ReadingsInv ==
  /\ LET n == Len(evidence)
     IN Backed(policy, evidence, IF policy.deferred = {} THEN n ELSE n - 1, n)
  /\ PendingInv(policy, evidence)

(* A reading that is taken is newer than the last one and the barrier.     *)
RevisionInv ==
  /\ barrierRev <= lastSeen /\ (Resting => policy.revision <= lastSeen)
  /\ \A i \in DOMAIN queue : queue[i].type = "air" => queue[i].rev # 0

HysteresisInv == ControllerInv /\ ReadingsInv /\ RevisionInv
=============================================================================
