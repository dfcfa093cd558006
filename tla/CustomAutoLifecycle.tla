------------------------ MODULE CustomAutoLifecycle ------------------------
(***************************************************************************)
(* Who owns the fan, and what is remembered of it: the coordinator's       *)
(* transactions on Custom Auto (coordinator.py), the durable selection     *)
(* (custom_auto_memory.py), the set-up and unload of the config entry and  *)
(* the clears it must wait for (__init__.py), and the hand-off before an   *)
(* options edit (config_flow.py).  The controller is its flag "active".    *)
(*                                                                         *)
(* Every transaction runs under the coordinator's control lock, a queue    *)
(* whose head is the holder, and is followed through its waits:            *)
(*                                                                         *)
(*   begin -> save -> control -> command -> clear                          *)
(*                                                                         *)
(* each kind taking the part of this path that it needs.  The registry     *)
(* listener and the policy's ingress run between any two of them.          *)
(***************************************************************************)
EXTENDS Naturals, Sequences

CONSTANTS
  MaxInputs,    \* bound: calls, registry changes, physical overrides, reloads, crashes
  MaxFaults,    \* bound: failures of the store, the purifier or the client
  Attempts,     \* attempts of a cleanup before it gives up (three in the code)
  Inputs        \* the inputs of this instance

AllInputs == {"activate", "deactivate", "override", "registry", "physical", "edit",
              "reload", "disable", "crash"}

ASSUME LifecycleAssumption ==
  MaxInputs \in Nat /\ MaxFaults \in Nat /\ Attempts \in Nat \ {0} /\ Inputs \subseteq AllInputs

Kinds == {"activate", "deactivate", "override", "quiesce", "rearm", "loss",
          "cleanup", "startup", "terminal", "final", "stop"}
Loops == {"cleanup", "startup"}            \* the cleanup task, and async_start itself
Clears == Loops \cup {"terminal", "final"}  \* the kinds that run the cleanup transaction

VARIABLES
  store,       \* the file: "none", "on" or "off"
  entity,      \* the switch in the registry: "enabled", "blocked" or "byEntry"
  disabled,    \* the config entry is disabled
  clear,       \* [gen, served, target, attempt]: the required clear; attempt 0 is no task
  entry,       \* where set-up, unload or an options edit is
  restore,     \* the selection loaded at set-up
  inputs, faults,
  (* the coordinator *)
  gate, allowed, terminal, required,   \* _custom_auto_command_gate, _registry_allowed ...
  gen, served,                         \* the cleanup generations
  active, started, down,               \* the controller's flag, _started, _shutdown
  retry,       \* the last hand-off was not attempted
  lock,        \* the kinds of the transactions that hold or wait for the lock
  step,        \* where the holder is
  was,         \* was_active of the holder
  err,         \* the holder's hand-off failed
  loop,        \* [at, gen, attempt] of each cleanup loop
  (* history *)
  owner,       \* who the fan was given to last: "policy", "user", or "nobody"
  excused      \* one of the exceptions has happened: see Decide

envVars  == <<entity, disabled, clear, inputs>>
flagVars == <<allowed, terminal, required, gen, served>>
lockVars == <<lock, step, was, err>>
ghosts   == <<owner, excused>>
vars == <<store, envVars, entry, restore, faults, gate, flagVars, active, started, down,
          retry, lockVars, loop, ghosts>>

Holder == Head(lock)
Held(k) == lock # <<>> /\ Holder = k
In(q, k) == \E i \in DOMAIN q : q[i] = k
Waiting(k) == In(lock, k)
NoLoop == [at |-> "none", gen |-> 0, attempt |-> 0]

(* A new coordinator, and none.                                            *)
Blank ==
  /\ gate = FALSE /\ allowed = FALSE /\ terminal = FALSE /\ required = FALSE
  /\ gen = 0 /\ served = 0 /\ active = FALSE /\ started = FALSE /\ down = FALSE /\ retry = FALSE
  /\ lock = <<>> /\ step = "begin" /\ was = FALSE /\ err = FALSE
  /\ loop = [l \in Loops |-> NoLoop]

Init ==
  /\ store \in {"none", "off"} /\ entity = "enabled" /\ disabled = FALSE
  /\ clear = [gen |-> 0, served |-> 0, target |-> 0, attempt |-> 0]
  /\ entry = "absent" /\ restore = FALSE /\ inputs = MaxInputs /\ faults = 0
  /\ Blank /\ owner = "nobody" /\ excused = FALSE

Spend(what) == what \in Inputs /\ inputs > 0 /\ inputs' = inputs - 1
Succeeds(ok) == /\ ~ok => faults < MaxFaults
                /\ faults' = IF ok THEN faults ELSE faults + 1

(* The fan is given to somebody.  Apart are set: an options edit, which may *)
(* arm the policy again behind the user's back, and a selection that was   *)
(* loaded before the switch was blocked (HiddenStaysOff); elsewhere, an    *)
(* override or a last clear that the store refuses, and an attempt of a    *)
(* second cleanup loop when nothing is left to be cleared.                 *)
Decide(o) ==
  /\ owner' = o
  /\ excused' = (excused \/ (o # "policy" /\ (entry = "editing" \/ (restore /\ ~active))))

-----------------------------------------------------------------------------
(* The lock.                                                               *)

Request(k) == lock' = Append(lock, k) /\ UNCHANGED <<step, was, err>>
Leave == lock' = Tail(lock) /\ step' = "begin" /\ was' = FALSE /\ err' = FALSE
GoTo(s) == step' = s /\ UNCHANGED <<lock, err>>

(* What follows the end of a cleanup loop comes before any wait that began *)
(* after the loop has released the lock.                                   *)
Called == \E l \in Loops : loop[l].at \in {"done", "failed"}

(* _custom_auto_suppress_ownership_loss.                                   *)
Suppressed == lock # <<>> /\ step = "control" /\ Holder \notin {"activate", "rearm"}

(* Only a started coordinator that is not being shut down takes calls.     *)
Serving == entry = "loaded" \/ entry = "editing"

Activate ==
  /\ Serving /\ gate /\ ~terminal /\ Spend("activate") /\ Request("activate")
  /\ UNCHANGED <<store, entity, disabled, clear, entry, restore, faults, gate, flagVars, active,
                 started, down, retry, loop, ghosts>>

Yield(k) ==
  /\ k \in {"deactivate", "override"} /\ Serving /\ Spend(k) /\ Request(k)
  /\ UNCHANGED <<store, entity, disabled, clear, entry, restore, faults, gate, flagVars, active,
                 started, down, retry, loop, ghosts>>

(* Mutant: a physical override is not remembered.                          *)
OverrideForgotten ==
  /\ active /\ started /\ entry \notin {"starting", "connecting"}
  /\ Spend("physical") /\ active' = FALSE /\ Decide("user")
  /\ UNCHANGED <<store, entity, disabled, clear, entry, restore, faults, gate, flagVars,
                 started, down, retry, lockVars, loop>>

(* A physical level takes the fan away from the policy; the coordinator    *)
(* starts a task that remembers it, unless it is itself at work on it.     *)
PhysicalOverride ==
  /\ active /\ started /\ entry \notin {"starting", "connecting"}
  /\ Spend("physical") /\ active' = FALSE /\ Decide("user")
  /\ IF ~Suppressed THEN Request("loss") ELSE UNCHANGED lockVars
  /\ UNCHANGED <<store, entity, disabled, clear, entry, restore, faults, gate, flagVars,
                 started, down, retry, loop>>

(* _ensure_custom_auto_activation_allowed, again when the lock is held.    *)
Refused == Holder \in {"activate", "rearm"} /\ (~gate \/ terminal)

(* The holder runs from the acquisition of the lock to its first wait.     *)
Begin ==
  /\ lock # <<>> /\ step = "begin"
  /\ CASE \/ Refused
          \/ Holder = "loss" /\ (active \/ ~gate) -> Leave
       [] \/ Holder = "activate" /\ ~Refused
          \/ Holder = "deactivate"
          \/ Holder = "override" /\ gate
          \/ Holder = "loss" /\ ~active /\ gate -> GoTo("save") /\ UNCHANGED was
       [] Holder \in Clears /\ ~started -> GoTo("clear") /\ UNCHANGED was
       [] OTHER -> GoTo("control") /\ was' = active
  /\ entry' = IF Held("rearm") /\ Refused THEN "loaded" ELSE entry
  /\ UNCHANGED <<store, envVars, restore, faults, gate, flagVars, active, started, down,
                 retry, loop, ghosts>>

(* Mutant: the override yields first and is remembered afterwards.         *)
SaveEndsUnchecked(ok) ==
  /\ step = "save" /\ ~Called /\ Succeeds(ok)
  /\ store' = IF ok THEN (IF Holder = "activate" THEN "on" ELSE "off") ELSE store
  /\ IF Holder = "loss" THEN Leave ELSE GoTo("control") /\ was' = active
  /\ IF Held("activate") THEN Decide("policy") ELSE UNCHANGED ghosts
  /\ UNCHANGED <<envVars, entry, restore, gate, flagVars, active, started, down, retry, loop>>

(* async_set_active: ON is saved before the policy owns the fan, OFF       *)
(* before it yields; a failure ends the transaction.                       *)
SaveEnds(ok) ==
  /\ step = "save" /\ ~Called /\ Succeeds(ok)
  /\ store' = IF ok THEN (IF Holder = "activate" THEN "on" ELSE "off") ELSE store
  /\ IF ok /\ Holder # "loss" THEN GoTo("control") /\ was' = active ELSE Leave
  /\ CASE ok /\ Held("activate") -> Decide("policy")
       [] ~ok /\ Held("loss")    -> excused' = TRUE /\ UNCHANGED owner
       [] OTHER                  -> UNCHANGED ghosts
  /\ UNCHANGED <<envVars, entry, restore, gate, flagVars, active, started, down, retry, loop>>

(* The holder's control of the controller has returned.  A set-up that     *)
(* restores the policy queued its control first.                           *)
ControlEnds(ok) ==
  /\ step = "control" /\ entry # "restoring" /\ ~Called /\ Succeeds(ok)
  /\ (~ok) => Holder = "activate"
  /\ active' = (Holder \in {"activate", "rearm"} /\ ok)
  /\ CASE Holder \in {"activate", "rearm", "stop"} ->
            IF ok THEN Leave ELSE GoTo("undo") /\ UNCHANGED was
       [] Holder = "override" -> GoTo("command") /\ UNCHANGED was
       [] Holder \in Clears \cup {"deactivate", "quiesce"} -> GoTo("handoff") /\ UNCHANGED was
  /\ CASE Held("activate") /\ ok -> Decide(IF gate THEN "policy" ELSE "nobody")
       [] Holder \in {"deactivate", "override"} -> Decide("user")
       [] Held("rearm") -> excused' = (excused \/ owner # "policy") /\ UNCHANGED owner
       [] OTHER -> UNCHANGED ghosts
  /\ entry' = CASE Held("rearm") -> "loaded" [] Held("stop") -> "closing" [] OTHER -> entry
  /\ retry' = (retry /\ Holder \notin {"activate", "override"})
  /\ UNCHANGED <<store, envVars, restore, gate, flagVars, started, down, loop>>

(* Mutant: a failed activation is rolled back in the controller only.      *)
UndoneUnsaved(ok) ==
  /\ step = "undo" /\ ~Called /\ Succeeds(ok) /\ Leave /\ Decide("nobody")
  /\ UNCHANGED <<store, envVars, entry, restore, gate, flagVars, active, started, down, retry, loop>>

(* The roll-back of an activation that failed: OFF is saved again.         *)
Undone(ok) ==
  /\ step = "undo" /\ ~Called /\ Succeeds(ok) /\ Leave
  /\ IF ok THEN store' = "off" /\ Decide("nobody") ELSE UNCHANGED <<store, ghosts>>
  /\ UNCHANGED <<envVars, entry, restore, gate, flagVars, active, started, down, retry, loop>>

(* What follows a deactivation: the end, or the memory's clear.            *)
Yielded(failed) ==
  IF Holder \in Clears THEN step' = "clear" /\ err' = failed /\ UNCHANGED <<lock, was, entry>>
  ELSE /\ IF Held("quiesce") /\ failed
          THEN IF gate /\ ~terminal
               THEN /\ lock' = Append(Tail(lock), "rearm") /\ entry' = entry
               ELSE lock' = Tail(lock) /\ entry' = "loaded"
          ELSE /\ lock' = Tail(lock)
               /\ entry' = IF Held("quiesce") THEN "stopping" ELSE entry
       /\ step' = "begin" /\ was' = FALSE /\ err' = FALSE

(* _async_deactivate_and_handoff, after the deactivation: hand a powered,  *)
(* available purifier over to its hardware Auto, or note why not.          *)
Handoff(attempt) ==
  /\ step = "handoff"
  /\ IF attempt = "send" /\ (was \/ retry)
     THEN GoTo("command") /\ retry' = FALSE /\ UNCHANGED <<was, entry>>
     ELSE Yielded(FALSE) /\ retry' = (attempt = "unavailable" /\ (was \/ retry))
  /\ UNCHANGED <<store, envVars, restore, faults, gate, flagVars, active, started, down, loop, ghosts>>

(* The hand-off's command, or the override's own, has been answered.       *)
CommandEnds(ok) ==
  /\ step = "command" /\ ~Called /\ Succeeds(ok) /\ Yielded(~ok)
  /\ UNCHANGED <<store, envVars, restore, gate, flagVars, active, started, down, retry, loop, ghosts>>

-----------------------------------------------------------------------------
(* The cleanup loops.                                                      *)

Later(a, b) == IF a < b THEN b ELSE a
Begun == [at |-> "created", gen |-> 0, attempt |-> 0]
Scheduled == [loop EXCEPT !["cleanup"] = Begun]
CanSchedule == started /\ loop["cleanup"].at = "none"

(* Mutant: an enabled switch opens the gate although a cleanup is due.     *)
SetAllowedAtOnce(ok) ==
  IF down \/ terminal THEN UNCHANGED <<gate, flagVars, loop>>
  ELSE /\ allowed' = ok
       /\ required' = (required \/ ~ok)
       /\ gen' = IF required \/ ~ok THEN gen + 1 ELSE gen
       /\ gate' = ok
       /\ loop' = IF CanSchedule /\ (required \/ ~ok) THEN Scheduled ELSE loop
       /\ UNCHANGED <<terminal, served>>

(* set_custom_auto_registry_allowed, for a coordinator that may be new.    *)
SetAllowed(ok) ==
  IF down \/ terminal THEN UNCHANGED <<gate, flagVars, loop>>
  ELSE /\ allowed' = ok
       /\ required' = (required \/ ~ok)
       /\ gen' = IF required \/ ~ok THEN gen + 1 ELSE gen
       /\ gate' = (ok /\ (gate \/ (~required /\ loop["cleanup"].at = "none")))
       /\ loop' = IF CanSchedule /\ (required \/ ~ok) THEN Scheduled ELSE loop
       /\ UNCHANGED <<terminal, served>>

(* The top of the loop: serve the current generation, or end.              *)
Turn(l, need, queue) ==
  IF need /\ ~down
  THEN /\ loop' = [loop EXCEPT ![l] = [at |-> "asking", gen |-> gen, attempt |-> 1]]
       /\ lock' = Append(queue, l) /\ gate' = gate
  ELSE /\ loop' = [loop EXCEPT ![l].at = "done"]
       /\ lock' = queue /\ gate' = (gate \/ (allowed /\ ~terminal /\ ~need /\ ~down))

LoopBegins ==
  /\ loop["cleanup"].at = "created" /\ Turn("cleanup", required, lock)
  /\ UNCHANGED <<store, envVars, entry, restore, faults, flagVars, active, started, down, retry,
                 step, was, err, ghosts>>

(* The pause between two attempts is over.                                 *)
LoopWakes(l) ==
  /\ loop[l].at = "asleep"
  /\ IF loop[l].gen = gen
     THEN /\ loop' = [loop EXCEPT ![l].at = "asking", ![l].attempt = @ + 1]
          /\ lock' = Append(lock, l) /\ UNCHANGED gate
     ELSE Turn(l, required, lock)
  /\ UNCHANGED <<store, envVars, entry, restore, faults, flagVars, active, started, down, retry,
                 step, was, err, ghosts>>

(* The result of an attempt.  It serves the generation it was begun for,   *)
(* also when the last one has failed; the loop then gives up unless a      *)
(* newer generation has come.                                              *)
Served(l, ok) ==
  LET last == loop[l].attempt = Attempts
      same == loop[l].gen = gen
  IN /\ required' = (required /\ ~(ok /\ same))
     /\ served' = IF ok \/ last THEN Later(served, loop[l].gen) ELSE served
     /\ IF ok \/ (last /\ ~same) THEN Turn(l, required', Tail(lock))
        ELSE /\ loop' = [loop EXCEPT ![l].at = IF last THEN "failed" ELSE "asleep"]
             /\ lock' = Tail(lock) /\ UNCHANGED gate

LoopEnds(next, at) ==
  /\ loop["cleanup"].at \in {"done", "failed"}
  /\ LET failed == loop["cleanup"].at = "failed" IN
       /\ required' = (required \/ failed)
       /\ gate' = (gate \/ (~failed /\ allowed /\ ~terminal /\ ~required /\ ~down))
  /\ loop' = [loop EXCEPT !["cleanup"] = next]
  /\ entry' = at
  /\ UNCHANGED <<store, envVars, restore, faults, allowed, terminal, gen, served, active, started,
                 down, retry, lockVars, ghosts>>

Awaited == IF entry = "awaiting" THEN "finishing" ELSE entry
Rescheduled ==
  IF (required \/ loop["cleanup"].at = "failed") /\ ~down /\ gen > served THEN Begun ELSE NoLoop

(* Mutant: a generation that came after the last turn is forgotten.        *)
LoopDoneForGood == LoopEnds(NoLoop, Awaited)

(* Mutant: the shutdown waits for the loop that follows, too.              *)
LoopDoneUnheard == LoopEnds(Rescheduled, IF Rescheduled = NoLoop THEN entry ELSE Awaited)

(* The cleanup task's done-callback: open the gate, or start over for a    *)
(* generation nobody served.  A shutdown waited for this task.             *)
LoopDone == LoopEnds(Rescheduled, Awaited)

(* The end of the cleanup transaction: the memory is gone, or the attempt  *)
(* has failed.                                                             *)
ClearEnds(ok) ==
  /\ step = "clear" /\ ~Called /\ Succeeds(ok)
  /\ store' = IF ok THEN "none" ELSE store
  /\ LET done == ok /\ ~err IN
       CASE Holder \in Loops ->
              Served(Holder, done) /\ UNCHANGED <<allowed, terminal, gen, entry>>
         [] Holder = "terminal" ->
              /\ entry' = "stopping"
              /\ required' = ~done
              /\ served' = IF done THEN gen ELSE served
              /\ loop' = IF CanSchedule /\ ~done THEN Scheduled ELSE loop
              /\ lock' = Tail(lock) /\ UNCHANGED <<gate, allowed, terminal, gen>>
         [] Holder = "final" ->
              /\ entry' = "silencing"
              /\ required' = (required /\ ~done)
              /\ lock' = Tail(lock) /\ UNCHANGED <<gate, allowed, terminal, gen, served, loop>>
  /\ step' = "begin" /\ was' = FALSE /\ err' = FALSE
  /\ excused' = (excused \/ (required' /\ Held("final")) \/ (~required /\ Holder \in Loops))
  /\ UNCHANGED <<envVars, restore, active, started, down, retry, owner>>

-----------------------------------------------------------------------------
(* The entity registry, and the clears required while the entry is not     *)
(* loaded (_async_clear_required_generation).                              *)

(* Set-up creates and starts the coordinator without a wait between them,  *)
(* and goes on at once when the cleanup before the start has ended.        *)
Synchronous == entry = "starting" /\ (~started \/ loop["startup"].at \in {"done", "failed"})

Listening == entry \in {"clearing", "starting", "restoring", "connecting", "loaded", "editing", "disabling"}

Heard(ok) == /\ IF Listening THEN SetAllowed(ok) ELSE UNCHANGED <<gate, flagVars, loop>>
             /\ IF Listening /\ ~ok THEN Decide("nobody") ELSE UNCHANGED ghosts

(* Somebody hides, disables or removes the switch, or brings it back.      *)
SwitchChanges ==
  /\ entity \in {"enabled", "blocked"} /\ ~Synchronous /\ Spend("registry")
  /\ entity' = IF entity = "enabled" THEN "blocked" ELSE "enabled"
  /\ Heard(entity # "enabled")
  /\ UNCHANGED <<store, disabled, clear, entry, restore, faults, active, started, down, retry, lockVars>>

(* Home Assistant disables the switch with its entry, or enables it again: *)
(* either way the memory must be cleared before it is used once more.      *)
SwitchFollowsEntry ==
  /\ (disabled /\ entity = "enabled") \/ (~disabled /\ entity = "byEntry")
  /\ ~Synchronous
  /\ entity' = IF disabled THEN "byEntry" ELSE "enabled"
  /\ clear' = [clear EXCEPT !.gen = @ + 1,
                            !.attempt = IF @ = 0 THEN 1 ELSE @,
                            !.target = IF clear.attempt = 0 THEN clear.gen + 1 ELSE @]
  /\ Heard(~disabled)
  /\ UNCHANGED <<store, disabled, inputs, entry, restore, faults, active, started, down, retry, lockVars>>

(* An attempt of the required clear: it serves every generation seen when  *)
(* it ends, a failure has three attempts for each generation.              *)
RequiredClear(ok) ==
  /\ clear.attempt > 0 /\ Succeeds(ok)
  /\ store' = IF ok THEN "none" ELSE store
  /\ clear' = CASE ok -> [clear EXCEPT !.served = clear.gen, !.attempt = 0]
                [] ~ok /\ clear.gen # clear.target -> [clear EXCEPT !.target = clear.gen, !.attempt = 1]
                [] ~ok /\ clear.gen = clear.target ->
                     [clear EXCEPT !.attempt = IF @ = Attempts THEN 0 ELSE @ + 1]
  /\ UNCHANGED <<entity, disabled, inputs, entry, restore, gate, flagVars, active, started, down,
                 retry, lockVars, loop, ghosts>>

-----------------------------------------------------------------------------
(* Set-up.                                                                 *)

(* async_setup_entry joins the required clear, or starts one.              *)
Setup ==
  /\ entry = "absent" /\ ~disabled
  /\ IF clear.served < clear.gen
     THEN /\ entry' = "settling" /\ UNCHANGED restore
          /\ clear' = IF clear.attempt > 0 THEN clear
                      ELSE [clear EXCEPT !.attempt = 1, !.target = clear.gen]
     ELSE entry' = "loading" /\ restore' = (entity = "enabled") /\ UNCHANGED clear
  /\ UNCHANGED <<store, entity, disabled, inputs, faults, gate, flagVars, active, started, down,
                 retry, lockVars, loop, ghosts>>

Settled ==
  /\ entry = "settling" /\ clear.attempt = 0
  /\ entry' = IF clear.served < clear.gen THEN "absent" ELSE "loading"
  /\ restore' = (entity = "enabled")
  /\ UNCHANGED <<store, envVars, faults, gate, flagVars, active, started, down, retry,
                 lockVars, loop, ghosts>>

(* The selection has been read, or cleared because the switch was blocked  *)
(* (a failed clear fails the set-up); the coordinator is created with what *)
(* the registry said before.                                               *)
Loaded(ok) ==
  /\ entry = "loading" /\ Succeeds(ok)
  /\ entry' = IF ok \/ restore THEN "creating" ELSE "absent"
  /\ restore' = (restore /\ ok /\ store = "on")
  /\ allowed' = (restore /\ entry' = "creating") /\ gate' = allowed'
  /\ store' = IF ok /\ ~restore THEN "none" ELSE store
  /\ IF ok /\ ~restore THEN Decide("nobody") ELSE UNCHANGED ghosts
  /\ UNCHANGED <<envVars, terminal, required, gen, served, active, started, down, retry,
                 lockVars, loop>>

(* The address is clean: the registry is read again and listened to; if it *)
(* has closed meanwhile the memory is cleared.                             *)
Created ==
  /\ entry = "creating" /\ SetAllowed(entity = "enabled")
  /\ entry' = IF allowed /\ entity # "enabled" THEN "clearing" ELSE "starting"
  /\ IF entity # "enabled" THEN Decide("nobody") ELSE UNCHANGED ghosts
  /\ UNCHANGED <<store, envVars, restore, faults, active, started, down, retry, lockVars>>

Cleared(ok) ==
  /\ entry = "clearing" /\ Succeeds(ok)
  /\ store' = IF ok THEN "none" ELSE store
  /\ entry' = IF ok THEN "starting" ELSE "stopping"
  /\ UNCHANGED <<envVars, restore, gate, flagVars, active, started, down, retry, lockVars, loop, ghosts>>

(* The selection that was loaded is used if the gate is open now.          *)
Restoring == /\ entry' = IF restore /\ gate THEN "restoring" ELSE "connecting"
             /\ restore' = (restore /\ gate)

(* async_start up to its first wait.                                       *)
StartBegins ==
  /\ entry = "starting" /\ ~started /\ started' = TRUE
  /\ IF required THEN Turn("startup", required, lock) /\ UNCHANGED <<entry, restore>>
     ELSE Restoring /\ UNCHANGED <<loop, lock, gate>>
  /\ UNCHANGED <<store, envVars, faults, flagVars, active, down, retry, step, was, err, ghosts>>

(* The cleanup before the start has ended; if it failed, so does the start. *)
StartCleaned ==
  /\ entry = "starting" /\ loop["startup"].at \in {"done", "failed"}
  /\ loop' = [loop EXCEPT !["startup"] = NoLoop]
  /\ IF loop["startup"].at = "failed"
     THEN entry' = "stopping" /\ started' = FALSE /\ UNCHANGED restore
     ELSE Restoring /\ UNCHANGED started
  /\ UNCHANGED <<store, envVars, faults, gate, flagVars, active, down, retry, lockVars, ghosts>>

Restored ==
  /\ entry = "restoring" /\ entry' = "connecting" /\ active' = TRUE /\ restore' = FALSE
  /\ UNCHANGED <<store, envVars, faults, gate, flagVars, started, down, retry,
                 lockVars, loop, ghosts>>

(* The client has started, or it could not and all is undone.              *)
Connected(ok) ==
  /\ entry = "connecting" /\ Succeeds(ok)
  /\ entry' = (IF ok THEN "loaded" ELSE "stopping") /\ started' = ok
  /\ UNCHANGED <<store, envVars, restore, gate, flagVars, active, down, retry, lockVars, loop, ghosts>>

-----------------------------------------------------------------------------
(* Unload, options edit, crash.                                            *)

Reload ==
  /\ entry = "loaded" /\ Spend("reload") /\ entry' = "stopping"
  /\ UNCHANGED <<store, entity, disabled, clear, restore, faults, gate, flagVars, active, started,
                 down, retry, lockVars, loop, ghosts>>

(* The entry is disabled: async_disable_custom_auto_and_clear, then unload. *)
Disable ==
  /\ entry = "loaded" /\ Spend("disable") /\ disabled' = TRUE /\ entry' = "disabling"
  /\ terminal' = TRUE /\ allowed' = FALSE /\ gate' = FALSE
  /\ gen' = gen + 1 /\ required' = TRUE
  /\ Request("terminal") /\ Decide("nobody")
  /\ UNCHANGED <<store, entity, clear, restore, faults, served, active, started, down, retry, loop>>

Enable ==
  /\ entry = "absent" /\ disabled /\ entity # "enabled" /\ disabled' = FALSE /\ Spend("reload")
  /\ UNCHANGED <<store, entity, clear, entry, restore, faults, gate, flagVars, active, started,
                 down, retry, lockVars, loop, ghosts>>

(* Options are saved: an active policy is quiesced first.                  *)
Edit ==
  /\ entry = "loaded" /\ active /\ Spend("edit") /\ entry' = "editing" /\ Request("quiesce")
  /\ UNCHANGED <<store, entity, disabled, clear, restore, faults, gate, flagVars, active, started,
                 down, retry, loop, ghosts>>

(* async_shutdown: it waits for the cleanup task it finds ...              *)
StopBegins ==
  /\ entry = "stopping"
  /\ entry' = IF loop["cleanup"].at = "none" THEN "finishing" ELSE "awaiting"
  /\ UNCHANGED <<store, envVars, restore, faults, gate, flagVars, active, started, down, retry,
                 lockVars, loop, ghosts>>

(* ... clears once more what is still required ...                         *)
StopClears ==
  /\ entry = "finishing" /\ ~Waiting("final")
  /\ IF required THEN Request("final") /\ UNCHANGED entry
     ELSE entry' = "silencing" /\ UNCHANGED lockVars
  /\ UNCHANGED <<store, envVars, restore, faults, gate, flagVars, active, started, down, retry,
                 loop, ghosts>>

(* ... and, when it is shut down and every loss is remembered, stops the   *)
(* controller.                                                             *)
StopSilences ==
  /\ entry = "silencing" /\ down' = TRUE /\ started' = FALSE
  /\ IF Waiting("loss") THEN UNCHANGED <<entry, lockVars>>
     ELSE entry' = "halting" /\ Request("stop")
  /\ UNCHANGED <<store, envVars, restore, faults, gate, flagVars, active, retry, loop, ghosts>>

(* The coordinator is gone when its tasks are.                             *)
Gone ==
  /\ entry = "closing" /\ lock = <<>> /\ \A l \in Loops : loop[l].at = "none"
  /\ entry' = "absent" /\ restore' = FALSE
  /\ gate' = FALSE /\ allowed' = FALSE /\ terminal' = FALSE /\ required' = FALSE
  /\ gen' = 0 /\ served' = 0 /\ down' = FALSE /\ retry' = FALSE
  /\ UNCHANGED <<store, envVars, faults, active, started, lockVars, loop, ghosts>>

(* Home Assistant dies.  What it had not saved yet is not remembered.      *)
Crash ==
  /\ Spend("crash") /\ entry # "absent"
  /\ entry' = "absent" /\ restore' = FALSE /\ clear' = [gen |-> 0, served |-> 0, target |-> 0, attempt |-> 0]
  /\ gate' = FALSE /\ allowed' = FALSE /\ terminal' = FALSE /\ required' = FALSE
  /\ gen' = 0 /\ served' = 0 /\ active' = FALSE /\ started' = FALSE /\ down' = FALSE /\ retry' = FALSE
  /\ lock' = <<>> /\ step' = "begin" /\ was' = FALSE /\ err' = FALSE
  /\ loop' = [l \in Loops |-> NoLoop]
  /\ owner' = IF required \/ \E k \in Clears \cup {"loss"} : Waiting(k) THEN "policy" ELSE owner
  /\ UNCHANGED <<store, entity, disabled, faults, excused>>

-----------------------------------------------------------------------------
LockStep == \/ Begin \/ \E ok \in BOOLEAN : SaveEnds(ok) \/ ControlEnds(ok) \/ Undone(ok)
                                            \/ CommandEnds(ok) \/ ClearEnds(ok)
            \/ \E a \in {"off", "unavailable", "send"} : Handoff(a)

LoopStep == LoopBegins \/ LoopDone \/ \E l \in Loops : LoopWakes(l)

EntryStep == \/ Setup \/ Settled \/ Created \/ StartBegins \/ StartCleaned \/ Restored
             \/ \E ok \in BOOLEAN : Loaded(ok) \/ Cleared(ok) \/ Connected(ok)
             \/ StopBegins \/ StopClears \/ StopSilences \/ Gone

ClearStep == \E ok \in BOOLEAN : RequiredClear(ok)

Input == \/ Activate \/ Yield("deactivate") \/ Yield("override") \/ PhysicalOverride
         \/ SwitchChanges \/ SwitchFollowsEntry
         \/ Reload \/ Disable \/ Enable \/ Edit \/ Crash

Next == LockStep \/ LoopStep \/ EntryStep \/ ClearStep \/ Input

Spec == Init /\ [][Next]_vars

-----------------------------------------------------------------------------
Entries == {"absent", "settling", "loading", "creating", "clearing", "starting", "restoring", "connecting",
            "loaded", "editing", "disabling", "stopping", "awaiting", "finishing", "silencing",
            "halting", "closing"}

TypeOK ==
  /\ store \in {"none", "on", "off"} /\ entity \in {"enabled", "blocked", "byEntry"}
  /\ disabled \in BOOLEAN /\ clear \in [gen : Nat, served : Nat, target : Nat, attempt : 0 .. Attempts]
  /\ entry \in Entries /\ restore \in BOOLEAN /\ inputs \in Nat /\ faults \in Nat
  /\ gate \in BOOLEAN /\ allowed \in BOOLEAN /\ terminal \in BOOLEAN /\ required \in BOOLEAN
  /\ gen \in Nat /\ served \in Nat
  /\ active \in BOOLEAN /\ started \in BOOLEAN /\ down \in BOOLEAN /\ retry \in BOOLEAN
  /\ lock \in Seq(Kinds)
  /\ step \in {"begin", "save", "control", "handoff", "command", "clear", "undo"}
  /\ was \in BOOLEAN /\ err \in BOOLEAN
  /\ loop \in [Loops -> [at : {"none", "created", "asking", "asleep", "done", "failed"},
                         gen : Nat, attempt : 0 .. Attempts]]
  /\ owner \in {"policy", "user", "nobody"} /\ excused \in BOOLEAN

(* The policy's commands pass only while the switch is enabled, nothing is *)
(* left to be cleared and the entry is not being disabled, whatever the    *)
(* order of registry events, cleanup attempts and their failures.          *)
GateIsSafe == gate => allowed /\ ~terminal /\ (required => excused)

(* The policy drives the fan only if the last decision gave it the fan: an *)
(* activation, and no switch-off, override, blocked switch or disabled     *)
(* entry after it, across reloads and crashes.  (The exceptions that the   *)
(* code leaves are those of Decide.)                                       *)
Drives == started /\ gate /\ active
OwnerIsWanted == Drives /\ ~excused => owner = "policy"

(* README.md:161-163: "Hiding, disabling, or removing the switch entity    *)
(* also clears it as a safety policy; unhiding or re-enabling the entity   *)
(* leaves it OFF."                                                         *)
HiddenStaysOff == Drives => owner # "nobody"

(* When a switch-off or an override acts on the fan, the memory does not   *)
(* say ON any more, or is about to be cleared: a crash cannot undo it.     *)
OffBeforeCommand ==
  step = "command" /\ Holder \in {"deactivate", "override"} => store # "on" \/ ~gate

Resting == /\ entry = "loaded" /\ lock = <<>> /\ clear.attempt = 0
           /\ \A l \in Loops : loop[l].at = "none"

(* When everything has settled and nothing has failed, what is remembered  *)
(* is what is: ON exactly for an active policy.  (A clear required when    *)
(* the entry was enabled may forget an ON it did not know of.)             *)
MemoryAgrees ==
  Resting /\ faults = 0 /\ ~excused =>
    /\ store = "on" => active
    /\ active => store = "on" \/ clear.gen > 0

(* Fairness: timers, store, actor and client answer; no input ever comes.  *)
FairSpec == /\ Spec /\ WF_vars(LockStep) /\ WF_vars(LoopStep) /\ WF_vars(EntryStep)
            /\ WF_vars(ClearStep)

(* A blocked switch that is enabled again opens the gate in the end, if    *)
(* not every attempt to clean up has failed: no registry event, failed     *)
(* attempt or newer generation leaves a started coordinator closed for     *)
(* good (_custom_auto_registry_cleanup_done).                              *)
Reopening == started /\ allowed /\ ~terminal
GateReopens == Reopening ~> (gate \/ ~Reopening \/ faults >= Attempts)

(* Every unload ends, although cleanup, losses and callers go first.       *)
UnloadEnds == (entry = "stopping") ~> (entry = "absent")

(***************************************************************************)
(* The inductive invariant behind GateIsSafe, in parts.                    *)
(***************************************************************************)

(* Set-up, unload, edit and disabling wait for a transaction of their own, *)
(* one at a time.                                                          *)
OwnEntry == [quiesce |-> "editing", rearm |-> "editing", terminal |-> "disabling",
             final |-> "finishing", stop |-> "halting"]
OwnInv ==
  \A i \in DOMAIN lock : lock[i] \in DOMAIN OwnEntry =>
    /\ entry = OwnEntry[lock[i]]
    /\ \A j \in DOMAIN lock : lock[j] \in DOMAIN OwnEntry => j = i

(* Before the coordinator is created nothing of it is left.                *)
Before == {"absent", "settling", "loading", "creating"}
BlankInv ==
  entry \in Before => /\ lock = <<>> /\ ~terminal /\ ~required
                      /\ \A l \in Loops : loop[l].at = "none"
                      /\ gate => entry = "creating"

(* A transaction follows the path of its kind, and a loop its attempts.    *)
PathInv ==
  /\ lock = <<>> => step = "begin"
  /\ step = "clear" => Holder \in Clears
  /\ step = "control" => Holder # "loss"
  /\ \A l \in Loops : loop[l].at = "asleep" => loop[l].attempt < Attempts

(* A coordinator that does not run yet, or stops, is not started, and one  *)
(* whose entry is being disabled is closed for good.                       *)
StopInv ==
  /\ entry \in Before \cup {"halting", "closing"} => ~started
  /\ entry = "disabling" => terminal

(* A cleanup task that has given up has left its clear to be done.         *)
FailedInv == loop["cleanup"].at = "failed" => excused \/ (required /\ ~gate)

GateInv ==
  TypeOK /\ OwnInv /\ BlankInv /\ PathInv /\ StopInv /\ FailedInv /\ GateIsSafe

(***************************************************************************)
(* The inductive invariant behind OwnerIsWanted and OffBeforeCommand, in   *)
(* parts, beside GateInv.                                                  *)
(***************************************************************************)

(* In a queue, k is before m.                                              *)
Ahead(q, k, m) == \E i, j \in DOMAIN q : i < j /\ q[i] = k /\ q[j] = m

(* Each kind takes the part of the path that is its own.                   *)
KindInv ==
  /\ step = "save" => Holder \in {"activate", "deactivate", "override", "loss"}
  /\ step = "handoff" => Holder \in Clears \cup {"deactivate", "quiesce"}
  /\ step = "command" => Holder \in Clears \cup {"deactivate", "quiesce", "override"}
  /\ step = "undo" => Holder = "activate"

(* A selection that is ON, or is being made, has an open gate or is        *)
(* required to be cleared; before the fan is yielded it is OFF or the gate *)
(* is closed.                                                              *)
Unread == {"absent", "settling", "loading"}
StoredInv ==
  /\ store = "on" /\ entry \notin Unread => gate \/ required
  /\ step \in {"save", "control"} /\ Held("activate") => gate \/ required
  /\ step = "control" /\ Held("rearm") => gate \/ required
  /\ step \in {"control", "handoff", "command"} /\ (Held("deactivate") \/ Held("override"))
       => store # "on" \/ ~gate
  /\ step = "save" /\ Held("loss") => ~active
  /\ step = "undo" => ~active

(* What may run, or wait for the lock, where set-up and unload are.        *)
Calls == {"activate", "deactivate", "override", "loss"}
RunInv ==
  /\ down => entry \in {"silencing", "halting", "closing"} /\ ~started
  /\ terminal => entry \notin {"clearing", "starting", "restoring", "connecting", "loaded", "editing"}
  /\ entry \in {"restoring", "connecting", "loaded", "editing", "disabling"} => started
  /\ active \/ (\E k \in Calls : Waiting(k))
       => entry \notin Before \cup {"clearing", "starting", "restoring"}
  /\ active \/ Waiting("activate") => entry # "closing"
  /\ Waiting("loss") => entry \notin {"halting", "closing"}
  /\ restore => entry \notin {"connecting", "loaded", "editing", "disabling"}
                /\ ~Waiting("activate")
  /\ ~Ahead(lock, "stop", "activate")

(* A loop that asks is in the queue once, for a generation that has come.  *)
AskInv ==
  /\ \A l \in Loops : /\ loop[l].at # "none" => loop[l].gen <= gen
                      /\ Waiting(l) => loop[l].at = "asking"
                      /\ ~Ahead(lock, l, l)
  /\ loop["startup"].at # "none" => entry = "starting" /\ started

(* What clears the requirement finds the policy stopped, and no activation *)
(* behind it.                                                              *)
Serves(l) == required /\ loop[l].gen = gen
Past == {"handoff", "command", "clear"}
ClearInv ==
  ~excused =>
  /\ step \in Past /\ (Held("terminal") \/ Held("final")) /\ started => ~active
  /\ \A l \in Loops : /\ step \in Past /\ Held(l) /\ Serves(l)
                           => entry # "restoring" /\ (started => ~active)
                      /\ Ahead(lock, l, "activate") \/ Ahead(lock, l, "terminal") => ~Serves(l)
  /\ Waiting("terminal") => required
  /\ Waiting("final") => required \/ (store # "on" /\ ~Waiting("activate"))
  /\ entry \in {"silencing", "halting", "closing"} => ~required

(* The policy that runs, the memory, and the selection that was loaded are *)
(* the owner's, or about to be put right.                                  *)
Late == Waiting("cleanup") \/ Waiting("startup") \/ Waiting("loss")
WantedInv ==
  ~excused =>
  /\ active => required \/ (gate /\ owner = "policy") \/ (~started /\ store # "on")
  /\ store = "on" => owner = "policy" \/ required \/ Late
  /\ restore /\ entry \notin Unread => owner = "policy" /\ ~active
  /\ entry = "restoring" => restore /\ (gate \/ required)
  /\ step = "control" /\ Held("activate") => owner = "policy" \/ required \/ Waiting("loss")

OwnerInv == KindInv /\ StoredInv /\ RunInv /\ AskInv /\ ClearInv /\ WantedInv

(***************************************************************************)
(* The inductive invariant behind MemoryAgrees, in parts, beside OwnerInv. *)
(***************************************************************************)

(* As long as nothing fails every requirement has a loop that serves it.   *)
FaultlessInv ==
  /\ clear.attempt > 0 => clear.gen > 0
  /\ faults = 0 =>
       /\ ~Waiting("rearm") /\ ~err /\ step # "undo"
       /\ \A l \in Loops : loop[l].at \notin {"failed", "asleep"}
       /\ served <= gen /\ (required => served < gen)
       /\ required /\ started /\ ~terminal
            => loop["cleanup"].at # "none" \/ loop["startup"].at = "asking"

(* As long as nothing fails a selection that is ON has its policy, and a   *)
(* policy its selection, or they will.                                     *)
Going == {"creating", "clearing", "starting", "restoring", "connecting", "loaded"}
Kept == store = "on" \/ clear.gen > 0
AgreeInv ==
  faults = 0 /\ ~excused =>
  /\ store = "on" /\ entry \in Going =>
       \/ active \/ required \/ restore \/ Late
       \/ step = "control" /\ Held("activate")
  /\ active /\ entry \in Going =>
       Kept \/ required \/ (step = "control" /\ (Held("deactivate") \/ Held("override")))
  /\ step = "control" /\ Held("activate") => Kept \/ required
  /\ restore /\ entry \in Going => ~required /\ Kept /\ entry # "clearing"

MemoryInv == FaultlessInv /\ AgreeInv
=============================================================================
