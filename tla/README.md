# A TLA+ model of the Govee BLE air purifier integration

This directory holds a formal model of the Home Assistant integration in
`src/custom_components/govee_ble_air_purifier`: TLA+ modules, the TLC
configurations that check them on small instances, and proofs that TLAPS checks
for every value of the constants. Paths below are relative to that package
unless they begin with `tests/` or `docs/`.

## 1. The system

The integration keeps one Bluetooth session with an H7124 or H7129 purifier and
offers it to Home Assistant as entities.

```
 entities ── coordinator ── ReliablePurifierClient ── channel ── GattTransport ── purifier
                 │                │      │                            │
        CustomAutoController   lanes   RecoveryController    AddressOwnershipRegistry
                 │                       │
          CustomAutoMemory      HomeAssistantBluetoothEnvironment (advertisements)
```

Everything runs on one asyncio event loop: tasks interleave only at an `await`,
so an atomic step is the code between two awaits. What can go wrong is what
happens between them: a link that drops, a caller that gives up, an event that
outlives its cause, a restart.

### 1.1 Components

| component (source) | state | operations and interactions | what is hard | what makes it correct |
|---|---|---|---|---|
| **Command lane** (`operations.py` `CommandOperationController`) | deque of pending operations, the active one, wake event, quarantined echoes, modes that require confirmation | `enqueue`, `take_next`, `prepare_*`, `record_send`, `requeue_for_reconciliation`, `cancel`, `release`, `fail_for_shutdown`; called by `async_execute` (callers) and by the runner | coalescing, cancellation, requeueing over reconnects, physical authority | order of submission, budget and deadline, nobody orphaned or left waiting, no false confirmation |
| **Client runner** (`client.py`) | session generation, status, channel, notification queue, disconnect and stop events, refresh flags | one task: connect, initialise, ready loop, back-off; callbacks for notifications and disconnects | stale frames, overflow, lost link at any await, shutdown | only current-session evidence counts; every cycle tears down before the next |
| **Transactions** (`transactions.py`, `protocol/matcher.py`) | active request, fragments received | send, wait for a frame, disconnect, time-out or pre-emption | priority among simultaneous wake-ups; a cancelled wait that has taken a frame | a response settles at most one request |
| **Air-quality lane** (`operations.py` `AirQualityQueryController`) | the one request, its event | `acquire` (coalesces), `take`, `complete`, `fail`, `cancel`, `disconnect`, `release` | callers, commands, disconnect and deadline settle it concurrently | each caller is answered, one query at a time, none survives its session |
| **Refresh and poll** (`client.py`) | pending, running, resume list | `ee aa` asks for a sweep; commands and queries pre-empt it | resuming in order, essential failure, wake events that outlive their command | a sweep that yields neither skips nor repeats a request, and ends |
| **State reducer** (`state_reducer.py`) | cached `PurifierState`, partial start-up mode | `reduce_event`, `apply_confirmed_command`, `invalidate_connection` | start-up fragments mixed with live updates | the cache holds only what this connection established |
| **Recovery policy** (`recovery.py`) | failure and wake times, requested back-off | `record_failure`, `plan_backoff`, `complete_backoff`, `circuit_floor` | sliding window, early wake-ups | no reconnect storm; an open circuit is waited for; the client never waits for good |
| **GATT transport** (`bluetooth/transport.py`) | client, generation, connector and operation tasks | connect, subscribe, write, disconnect, cleanup | connectors that outlive cancellation | a late connector is closed, never adopted |
| **Address ownership** (`bluetooth/ownership.py`) | per-address record: release requested, cleanup required, tasks | `claim`, `request_release`, `finish_cleanup`, `track_task` | release conditions in any order | one owner per address; always released in the end |
| **Environment** (`bluetooth/environment.py`) | last advertisement, route, event | wait for a fresh device or for an advertisement after a time | stale routes, advertisements replayed from a cache | no retry on a stale route |
| **Channels** (`channel.py`) | session key, phase, phase future | H7129 two-phase negotiation, encryption, invalidation | retries and late responses | ready only with a negotiated key of this connection |
| **Custom Auto policy** (`custom_auto_policy.py`) | level, confirmations, dwell, deferred sample | `evaluate_observation`, `evaluate_boundary`, `confirm_pending_target` | boundaries in value and time | a raise needs confirmed readings, a slow-down a whole dwell |
| **Custom Auto controller** (`custom_auto_controller.py`) | actor queue, workers, generations, barriers | control, connection, power, sample, fan and work-done events | results of replaced workers, samples from before a barrier | an unusable controller sends nothing; stale work decides nothing |
| **Coordinator** (`coordinator.py`) | gate, clean-up generations, hand-off, control lock | activate, deactivate, registry clean-up, overrides, shutdown | roll-back, retries, coalesced generations | the gate opens only when every required clean-up was served, and then it does |
| **Custom Auto memory** (`custom_auto_memory.py`) | the persisted flag | save and verify, remove and verify | crash, caller cancellation | ON is restored only if it was not given up |
| **Entry set-up** (`__init__.py`) | required-clear generations | required clear, set-up, unload, removal | events during a clear or during set-up | a set-up never restores memory that had to be cleared |
| Discovery, configuration forms, protocol codec, profiles, encryption, entities, diagnostics | | | | see section 6 |

The hazards of these components, each at its source line with the properties
that guard against it, are listed in `PROJECT.json` under `hazards`; where no
property can, a note there says what was found instead.

### 1.2 Plan

The modules were written in the order in which a mistake would hurt, the
physical purifier first:

| order | modules | questions |
|---|---|---|
| 1 | `CommandOperations`, `CommandService` | does a control reach the purifier at most as often, and exactly as, its caller was told? |
| 2 | `GattTransport`, `AddressLease` | does one purifier ever get two connections? |
| 3 | `ReadyLoop` | do queries, refreshes and polls make room for commands, and end? |
| 4 | `Recovery` | does the client come back, and not too often? |
| 5 | `CustomAutoPolicy`, `CustomAutoController` | what may move the fan by itself? |
| 6 | `CustomAutoLifecycle` | who owns the fan, and is it remembered? |

What would come next is listed in section 6: the negotiation of the H7129's
secure channel, and the assembly of the fan mode from fragments at start-up.
Every safety property that a run checks has its proof; what these components add
would need theirs.

## 2. Modules

| module | content |
|---|---|
| `CommandOperations` | the lane, its callers, the runner, the link and the purifier |
| `CommandService` | what the client promises to callers, without sessions, queues or echoes |
| `GattTransport` | the transports of one address, each with the runner of its client, the ownership record, the standalone clean-up and the Bluetooth backend |
| `AddressLease` | what the registry promises: a lease |
| `ReadyLoop` | the ready loop with queries, refreshes and polls; commands only as work that waits |
| `Recovery` | connection cycles, back-off, circuit, advertisements |
| `CustomAutoPolicy` | the pure policy, as operators on its state |
| `CustomAutoController` | extends it with the actor, its queue and its workers |
| `CustomAutoLifecycle` | coordinator, memory, entry, registry and options edit |
| `MCCommands`, `MCTransport`, `MCReadyLoop`, `MCRecovery`, `MCCustomAutoController`, `MCCustomAutoLifecycle` | the sets and sequences TLC uses for the constants |
| `CommandOperations_proofs`, `GattTransport_proofs`, `ReadyLoop_proofs`, `Recovery_proofs`, `CustomAutoController_proofs`, `CustomAutoLifecycle_proofs` | theorems and proofs |
| `CommandOutcomes_proofs`, `CustomAutoHysteresis_proofs` | extend the proofs of the lane by confirmation and refinement, those of the controller by what moves the fan |

A module holds its fairness, properties and inductive invariant, and the mutated
forms of some of its definitions, each marked *Mutant*. The modules share no
variables; each takes from its neighbours what it needs of them as an actor of its
own. `CommandOperations`
stands for the commands of `ReadyLoop`, `ReadyLoop` for the points `polling` and
`initializing` of `CommandOperations`, `Recovery` for the back-off of both, and
`CustomAutoController` for the flag `active` of `CustomAutoLifecycle`.

### 2.1 How `CommandOperations` corresponds to the code

*Callers.* Operation `o` is the `o`-th `_Operation` (`operation_id`). `status` is
its future, `caller` where its `async_execute` call is: awaiting the shielded
future, waiting for quiescence, or returned. `Execute` is `enqueue` with its
coalescing; `Cancel` is `cancel()` with everything it touches, taken by
`CallerTimesOut` (the `asyncio.timeout` of the call) and by `CallerCancelled`.

*The deque.* A set `pending` and a `place` for each operation. `append` gives the
operation its own identifier as place, `appendleft` the negated generation:
every requeue recycles the session, so this is left of all others, which the
proofs establish (`DequeInv`). `take_next` takes the smallest place.

*The runner.* One control point, `runner`, with an action for the code up to the
next await:

| action | code |
|---|---|
| `BeginCycle`, `Establish`, `EndInitialization` | `_connect_initialize_and_run`, `_async_run_initialization` |
| `TakeNext`, `FindNothing` | the top of `_async_ready_loop` with `discard_expired`, `prepare_for_execution`, `prepare_for_send` |
| `Transmit`, `TransmitFails` | first step of the transaction task: `record_send`, then the write |
| `ReceiveOther`, `ReceiveMatch` | `async_next_frame`, the matcher, `_process_plaintext_frame` |
| `Confirm`, `ObserveCancel`, `StaySilent`, `LoseChannel`, `DeadlineStops` | the ends of an attempt in `_async_execute_operation`, with `release` |
| `Wake`, `EndPoll`, `SessionFails` | `_async_wait_for_ready_work`, polls and refreshes, failing sessions |
| `Shutdown`, `RunnerUnwinds`, `FailForShutdown` | `async_shutdown` before, during and after `await runner` |

`sending` (the transaction task exists but has not run) and `matched` (it has
ended but the runner has not resumed) are control points because callbacks and
callers run there; both findings about echoes and cancellation need them.

*Notifications.* A frame in `air` has left the purifier but not reached the
client; `Deliver` is `_on_plaintext_frame` with its drops, overflow, reservation
and receipt-time swallowing; `rx` is the bounded queue. `supEchoes` and
`canEchoes` are the two deques of stale echoes. They are sets of fan modes: they
are cleared at every session boundary, so all entries belong to the current
generation, and there are fewer modes than the deques hold.

*The purifier* (external) answers a write with its exact echo or ignores it,
handles writes in order, and announces a fan mode chosen at its buttons.

### 2.2 How `GattTransport` corresponds to the code

Several `GattTransport` instances may exist for one address: Home Assistant
unloads an entry after a bounded shutdown and may set it up again while backend
tasks of the old instance still run. The process-wide registry has to keep them
apart.

*The record.* `record` is the registry's record of the address with the last
serial number given out; it is there exactly when `Owned` holds, so that popping
it (`_release_if_quiescent`) needs no step of its own. `owner`, which the code
does not keep, is the party that was given the token.

*Tasks.* `tasks` holds the backend tasks that have not ended, each with the token
it is tracked under (0 if it is not tracked) and whether its caller still waits
for it. `Settled` gives the two ends of every bounded wait: the task ended, or it
outlived deadline and cancellation.

*Runners.* Between two awaits a runner often goes through several procedures:
an abort that has no client to disconnect falls through to the clean-up, which
may fall through to the end of the cycle. Each procedure is an operator on the
state reached so far, `s = [record, tasks, links, me]`; an action applies the
ones it runs through and then `Become`s the result.

| action | code |
|---|---|
| `NoRoute`, `Connect` | `_connect_initialize_and_run`, `async_connect` up to its first await |
| `Disconnected` | the end of the `client.disconnect` in `async_disconnect` or `_async_abort_connecting_client` |
| `CloseSucceeds`, `CloseFails` | the end of `async_cleanup_stale_connection`; after "before_connection" the connector starts |
| `ConnectorLinks`, `ConnectorEnds` | `establish_connection` (external) and `_observe_connector_task` |
| `Adopt`, `AttemptFails`, `DeadlinePasses`, `Diagnosed`, `StopWaiting` | the outcomes of `establish_with_diagnostics`, with `_async_cancel_connector` |
| `LateStarts`, `LateDisconnected`, `LateClosed` | `_async_cleanup_late_connector`, a task of its own |
| `SessionEnds` | the session fails; a subscription or a write may stay behind |
| `Shutdown`, `Stop` | `async_shutdown`: the cancellation of the runner at each of its awaits, then the clean-up after it |
| `BeginStandalone`, `EndStandalone` | `async_run_standalone_cleanup` |
| `TailEnds`, `LinkLost` | the backend (external) |

### 2.3 How `ReadyLoop` corresponds to the code

*The lane.* `lane` is the controller of the one-shot query: `request` the query
it owns, `event` its event, and for each query made its session, age, answer and
whether the runner has it (`active`) or has released it (`quiesced`). A caller is
`out`, `waiting` for an answer, or `tearing`: waiting for the quiescence of the
query of another session before it makes its own. `refused` is the error of
`acquire` when a query is still there; `NeverRefused` says it is not met.

*The runner* stands at `top` where `_async_ready_loop` chooses. It runs from there
to its next await without a break, and a caller it released on the way goes on
before it does (asyncio resumes tasks in order): that is the guard `Resuming`.

| action | code |
|---|---|
| `TakeCommand`, `TakeQuery`, `StartRefresh`, `StartPoll`, `Idle` | the branches of `_async_ready_loop`, after `discard_expired` |
| `CommandEnds`, `Withdraw` | the ends of an operation as the loop sees them; a caller's cancellation, which clears the shared event |
| `QuerySends`, `QueryEnds` | `_async_execute_air_quality_query` |
| `Refresh`, `NextInSweep`, `Yields`, `AsksAgain`, `Asked` | `_async_run_refresh`: the sweep, its pre-emption and its resume list, an attempt, the answer |
| `PollAgain`, `PollEnds`, `IdleEnds`, `Tick` | the poll with its retries, `_async_wait_for_ready_work` |
| `Notice` | `ee aa` in `_process_plaintext_frame` |
| `Query`, `QueryAtOnce`, `TornDown`, `Returns`, `TimesOut`, `Leaves`, `Cancel`, `Cancelled` | `async_query_air_quality` and `async_cancel_air_quality_query` |
| `BeginCycle`, `Ready`, `CycleFails`, `CleanedUp`, `LinkDrops`, `Shutdown`, `RunnerStops`, `ShutDown` | cycles and the end |

### 2.4 How `Recovery` corresponds to the code

Phases are `ClientStatus`, with the runner's clean-up and the two waits of
`_async_backoff`: `backoff`, which an advertisement or a command may end, and
`settling`, what is left of the least wait. `Fail` is `record_failure` followed by
the end of the cycle, `CleanedUp` plans the wait (`plan_backoff`), `BackoffEnds`,
`BackoffSettles` and `Settled` complete it (`complete_backoff`) with the reason.
`Route` and `NoRoute` are the wait for a fresh device, `TimerFires` the
stable-session timer, `TakesEvent` the ready loop that consumes the operation
event. `Advertises(told)` is an advertisement, delivered to the client or only
cached by Home Assistant.

### 2.5 How `CustomAutoPolicy` and `CustomAutoController` correspond to the code

The policy is pure and so is its module: `Observe` is `evaluate_observation`,
`AtBoundary` `evaluate_boundary`, `Confirm` `confirm_pending_target`, `Reconcile`
`reconcile_deferred_observation` and `MarkFailed` `mark_command_failed`; `Worse`,
`Crossings`, `Matured` and `NotWorse` are the parts of
`_evaluate_accepted_observation`, and `Boundaries` is what `_next_boundary` takes
the least of.

The controller is one actor task and up to three workers. An action handles an
event up to the actor's next await; it awaits in the middle of one only while it
invalidates work in progress: `releasing` (`cancel_sample`) and `draining` (the end
of the cancelled workers).

| action | code |
|---|---|
| `HandleControl`, `HandleConnection`, `HandlePower`, `HandleFan`, `HandleAir`, `HandleDone` | the handlers of the actor's loop |
| `Invalidate`, `Released`, `Drained` | `_invalidate_operational` with `_cancel_kinds`, cut at its awaits |
| `Apply` | `_apply_policy_result`: the policy's new state, the timer, the sample and the command it asks for |
| `WorkerEnds`, `CancelledEnds` | `_spawn.run`: a worker ends by queueing its completion, or was cancelled |
| `Call`, `FinishPowerOff` | the coordinator's calls; `async_set_power` around its command |
| `Receive`, `LinkDrops`, `LinkConnects`, `LinkReady`, `PowerReported`, `ButtonPressed`, `Tick` | what the client reports, through the coordinator, and the clock |

### 2.6 How `CustomAutoLifecycle` corresponds to the code

Every transaction of the coordinator runs under its control lock: `lock` is the
queue of the transactions that hold it or wait for it, `step` where the holder is
on the path *begin, save, control, command, clear*. Of this path each kind takes
its part:

| kind | code (`coordinator.py` unless named otherwise) |
|---|---|
| `activate`, `deactivate`, `override` | the switch, and a fan mode chosen in Home Assistant |
| `loss` | the task that remembers a physical override |
| `quiesce`, `rearm` | the hand-off before an options edit (`config_flow.py`), and its undoing |
| `cleanup`, `startup` | an attempt of the cleanup loop, run by its task or by `async_start` |
| `terminal`, `final`, `stop` | the clear of a disabled entry, the clear and the stop of `async_shutdown` |

`SetAllowed`, `Turn`, `Served`, `LoopDone` are the gate, the top of the cleanup loop,
the result of an attempt and the done-callback. `entry` follows the config entry
through set-up (`settling` to `connecting`), `loaded`, an edit, disabling and
unload (`stopping` to `closing`); `RequiredClear` is the clear that set-up waits for
(`__init__.py`). `Crash` keeps the file and the registry only. `owner` is
history: who was last given the fan. `excused` is history too: it is set when
one of the exceptions happens that the code leaves open, and which the comment at
`Decide` lists.

### 2.7 Abstractions

In `CommandOperations`:

- Commands of a type other than `SetFanMode` stand for `SetNightLightColor`,
  which the cache never satisfies. `SetPower` and the light's power and
  brightness reconcile from the cache as the fan mode does, but nothing
  supersedes or quarantines them; they are left out.
- Time is abstract. `Expire` passes deadlines in the order of submission, since
  each is a fixed delay after it. It does not fall between `prepare_for_send` and
  the first step of the transaction task, which are one pass of the event loop
  apart.
- A write is atomic with its outcome: accepted, refused, or refused although it
  arrived. A write the purifier never handles is also a possible outcome.
- Start-up, polls, refreshes and one-shot queries (`ReadyLoop`) are the points `initializing`
  and `polling`: they process any frame, may end at any time, may fail the
  session, and may read the fan mode when nothing older is on its way.
- A cancelled wait may drop the frame it had already taken (`MayLoseFrame`).
- A caller is cancelled at most once. A second cancellation during the shielded
  wait would only let it return early.
- The back-off and the teardown of a cycle are one point. Its duration and the
  circuit floor are in `Recovery`.
- When a session ends, writes still in flight are handled or lost, and
  notifications of the old link may survive into the new session.

In `GattTransport`:

- One address. Records of different addresses share only the serial counter.
- A close and its verification are one call, "close", whose task may be either.
  A successful one leaves no link. The links that a failing, hanging or
  standalone close cuts are lost by `LinkLost`.
- The session is one point, `connected`, and its backend calls one call,
  "session". The back-off is part of `idle`.
- A runner is cancelled at most once, by `async_shutdown`, which runs once. The
  shutdown's own clean-up is not cancelled.
- At the top of `async_connect` the disconnect of an earlier client and the
  clean-up "before_reconnect" are left out: `FreshStart`, checked and proved,
  says that they find nothing to do.
- The diagnosis of a late connector is always an await, as in the code.

In `ReadyLoop`:

- Answers are abstract: an attempt is answered or not. A poll's retries cannot be
  interrupted, in the code either; `CommandsGoFirst` allows for them.
- Time does not pass while the runner or a released caller is about to go on, nor
  past the deadline of a query that somebody awaits.
- What the controller forgets of a released query is reset, for nothing reads it.
- `Requests` may be empty: such a refresh is over as it begins (`AsksNothing`).
- After it has waited for a query to be torn down, a call does not look again
  whether the client is ready, as in the code.

In `Recovery`:

- Time is discrete. What the code stores as a time is kept as an age, and what it
  trims when it looks is trimmed as it ages: the same entries count.
- A shutdown is one step. The values kept for diagnostics are left out.
- `HistoryAssumption` says that the thresholds are within the history of failures
  (32). `profiles/parsing.py` accepts up to 600; the shipped profiles are within.

In `CustomAutoController`:

- The receipt of a frame and its publication are one step. What a sample
  *returns* is irrelevant: the reading arrives as an air-quality event.
- `evidence` is history: the readings handed to the policy since the last
  invalidation (`Handled`), each with its time and whether it repeats a downshift
  that has failed. The properties about hysteresis are judged from it alone.
- Serials are compared for equality only, so a number that no queued completion
  carries stands for a new one. The token a completion carries besides is then
  redundant. A cancelled worker queues no completion.
- `ha_override` is to the controller what `deactivate` is; `reconfigure` has no
  caller. Diagnostics are left out.

In `CustomAutoLifecycle`:

- The controller is its flag `active`; of its commands only success or failure.
- One coordinator at a time: a reload begins when the tasks of the old one have
  ended. A change of the switch that nobody listens to decides nothing; set-up
  reads the registry.
- A set-up that fails takes the path of the shutdown.
- A crash excuses what had not been saved yet: a loss that is waiting for the lock,
  a clear still to be done.

### 2.8 Bounds

| runs | bounds |
|---|---|
| `lane`, `fan`, `shutdown` | 2 or 3 operations, 1 or 2 sends each, 2 sessions, queues of 1; callers are cancelled in the first two, in `shutdown` they give up at their deadline only, by the same `cancel()` |
| `transport`, `transport_stop` | 2 transports, 2 or 1 cycles each, 1 standalone clean-up, every call but the late clean-up may outlive its cancellation |
| `ready_loop` | 2 callers, 3 calls, 1 command, 2 notices, 2 sessions; sweeps of 2 requests, 2 attempts |
| `recovery` | no bound on cycles; 1 command; back-off 1 to 4, jitter 0 or 1, window 5, thresholds 3 failures and 2 wakes, floors 2 and 3, history 4 |
| `controller` | 3 levels, 3 inputs, 1 reading, 1 tick, a queue of 2 |
| `hysteresis`, `dirtier` | 3 levels with dwells of different lengths, 5 readings, 2 ticks, 1 input, a queue of 1 |
| `custom_auto`, `hidden` | 4 inputs of all nine kinds (`hidden`: no edit), 2 faults (`hidden`: none), 2 attempts |

Every action and every alternative of an action fires in some passing run. A
queue of one makes overflow routine. Three operations of two types are what
coalescing, order and requeueing need together; one more fan mode than a control
asks for is what physical authority needs. Two transports with two cycles each
and one standalone clean-up let each party meet the remains of another one, and
of its own earlier cycle. A second session is what stale evidence, queries of an
old session and a resumed sweep need; a third call, two callers that share a
query and one that comes later. In `Recovery` the thresholds differ, so that each
is reached before the other, and the history is one longer than the threshold, so
that it overflows. Three levels let a raise skip one and two crossings run at
once; five readings are what a raise, a failed downshift, its repetition and a
cleaner reading need. Four inputs are enough for an activation, its taking back, and a reload or
crash, with one event between them; two faults for all the attempts of a clean-up
to fail. The proofs have none of these bounds.

Deadlock is checked in `ready_loop` and `recovery`: there the clock does not pass
what is due, so that a deadlock would be a due step that nobody can take. The
other configurations say `CHECK_DEADLOCK FALSE`: the client really stops after a
shutdown, an entry stays loaded when no input is left, and a run with a bound on sessions or
cycles ends in its last back-off.

## 3. Runs

| run | shows |
|---|---|
| `lane` | `NoLostWakeup`, `SubmissionOrder`: three controls of two types, cancelled and requeued |
| `fan` | `ForcedIsSent`, `ConfirmedInSession`: two fan modes, two sends, a button |
| `shutdown` | `LaneInv` (the inductive invariant), `OnlyLawfulSends`, `ImplementsService`: shutdown and deadlines; `EveryCallAnswered`, under `FairSpec` |
| `transport` | `LeaseInv` (the inductive invariant), `OneLink`, `FreshStart`, `QuarantineHeld`, `ImplementsLease` |
| `transport_stop` | `ShutdownEnds`, `QuarantineEnds`, under `TimersSpec` |
| `ready_loop` | `OneOnAir`, `NeverRefused`: one query on the air, and no caller refused; `CommandsGoFirst`: a command waits for at most a bounded number of sends of others; `SweepIsWhole`; `CallsEnd`, `RefreshEnds` |
| `recovery` | `StormIsBounded`: within a window, advertisements end only so many waits early; `CircuitIsEarned`, `CutsArePaid`, `FloorIsKept`, `KeepsTrying` |
| `controller` | `QuietUnlessUsable`, `NoStrayWorker`, `FreshTarget`: a target comes from a sample behind every barrier; `ControlReturns` |
| `hysteresis` | `RaisedWhenConfirmed`, `SlowedAfterDwell`: judged from the history of readings, not from the policy's own records; `TargetIsSent`, `BoundaryHasAlarm` |
| `dirtier` | violates `DirtierEndsDwell`: a finding of section 5 |
| `custom_auto` | `GateIsSafe`, `OwnerIsWanted`, `OffBeforeCommand`, `MemoryAgrees`, `GateReopens`, `UnloadEnds` |
| `hidden` | violates `HiddenStaysOff`: a finding of section 5 |

Each property of a passing run has a mutant in `PROJECT.json`: a mutated
definition, such as a newest-first `take_next` or a gate that opens although a
clean-up is due, under which TLC finds the property violated. The type
invariants are parts of the inductive invariants and proved with them.

*Fairness.* Only what the event loop itself guarantees:

- `CommandOperations`: weak fairness of the callers' own timers and resumptions,
  of the first step and the end of a transaction task, of the runner's reaction
  to a cancel event, and of the unwinding in a shutdown. Nothing is assumed of the
  link, of the purifier, or of the runner ever taking another operation: the
  deadline in `async_execute` and `cancel()` alone must answer every call.
- `GattTransport`: `TimersSpec` has weak fairness of every wait of a runner other
  than `idle` and `connected`: each is an `asyncio.wait` with a timeout. Nothing
  is assumed of the backend. `QuarantineEnds` has a premise of its own,
  `BackendAnswers`: backend tasks end at last, and the event loop runs the tasks
  it has. Without it no address need become free, by design.
- `ReadyLoop`: time passes, the runner goes on (each of its waits has a timeout),
  and callers that were released or have timed out are resumed. Nothing is assumed
  of answers, of commands or of the link. The runner's weak fairness is one
  condition on all its steps together, so that no favourable branch is forced.
- `Recovery`: time passes, and a wait whose time has come ends. `Advertises`,
  `Accept` and the failure of a session are not assumed.
- `CustomAutoController`: the actor goes on, and cancelled workers end. A worker
  that is *not* cancelled may hang, a queue may stay full.
- `CustomAutoLifecycle`: store, purifier and client answer at last, with success
  or failure (each such call is bounded by a deadline), and tasks run. No input
  ever comes by fairness.

## 4. Proofs

### 4.1 Commands and transport

`CommandOperations_proofs` is checked by TLAPS for every value of the constants
that satisfies `ConstantsAssumption`.

1. *Types.* `TypeInv` is `TypeOK` with `BudgetInv`: an operation at `sending` has
   a send left. It is inductive by itself, because the budget is tested
   (`prepare_for_send`) one step before it is spent (`record_send`).
   `TypeCorrect` follows.
2. *The lane.* The properties are not inductive. `LaneInv` adds what they need:
   - `AgeInv`: which operations are new; an unsettled one has a waiting caller; a
     cancelled one is settled.
   - `DequeInv`: places increase with age, and in a session the left end is
     free. Without the second part a requeue could put an operation at a place
     that is already taken. It holds because a requeue ends its session.
   - `CustodyInv`: every operation is queued, active or quiesced, and an
     unsettled one is queued, active or held by the shutdown.
   - `ExecutionInv`: there is an active operation exactly at the points of
     execution, and it is the one a shutdown captured.
   - `AttemptInv`: what `prepare_for_send` established still holds at the send.

   `LaneInit` and `LaneStep` (one step per action, under it one per part that the
   action can disturb) give `LaneCorrect`. `RequeueStep` is the lemma all ends of
   an attempt share.
3. The invariants the runs check follow: `NothingOrphaned`, `SubmissionOrdered`,
   `NobodyHangs`, `NoWakeupLost`, `ReplacementIsSent`. The action property
   `SendsAreLawful` combines the invariant before the step with the only two
   actions that change `sends`.

`CommandOutcomes_proofs` builds on `LaneCorrect`.

1. *Confirmation.* `ConfirmedInSession` looks at the end of a chain: a confirmed
   mode came from the cache or a response, that from a frame, and the frame from
   the purifier. `SessionInv` follows the chain link by link: what a frame in the
   air or in the queue shows (`FrameInv`), what the cache holds (`CacheInv`) and
   what the response of the active command said (`MatchInv`) was the purifier's
   mode within this session. Frames of an earlier session that survive carry
   its generation, and `Deliver` drops them. `SessionCorrect`,
   `ConfirmedModesSeen`.
2. *Refinement.* `LaneImplementsService`: the initial states map to those of
   `CommandService`, and each action to one of its steps or to a stutter. The
   invariant is needed where the mapping is not evident: a send must not follow
   its outcome, and an answer must not precede one.

`GattTransport_proofs` is checked for every value of the constants that
satisfies `TransportAssumption`: any number of transports and cycles, any set of
resistant calls.

1. *The invariant.* `LeaseInv` is inductive. Mutual exclusion alone is not: it
   needs that every token still held is the record's, unreleased (`TokenInv`);
   that every tracked task runs under the record's token (`TaskInv`); and where a
   runner has a token and a connector (`RunnerInv`), so that no path gives the
   address back under a detached connector. For the last, a late clean-up past
   its first await has taken the connector over.
2. *The steps.* `Good(t, s)` says of a state that a procedure has reached what
   the invariant says of the record, the tokens and the tasks. Each procedure has
   a lemma (`ReleaseIsGood`, `ClaimIsGood`, `CleanIsDone`, `EndCycleIsDone`,
   `AbortIsDone`, ...); each action has one that combines them, ending with
   `BecomeKeeps`. `NextHolds` collects them.
3. `LeaseCorrect`, and from it `QuarantineKept` and `FreshStarts`.
4. `LeaseImplemented`: the specification implements `AddressLease`. `Good` also
   carries that a record changes owner only if it was free (`Inherits`);
   `OwnerWorks` says that only the owner has tracked work or a session.
5. `OneLinkOnly`: `links` never holds two. `LinkInv` adds that while a connector
   runs, no link of another transport is left: it was started after a close that
   left none, and only the holder of the lease starts one.

### 4.2 Ready loop and recovery

`ReadyLoop_proofs`, under `LoopAssumption`: any callers, requests and bounds.
`OneOnAir` needs to know that the query the controller owns is open or on the
air, and every other one settled (`Owned`); that callers await queries that were
made (`CallersInv`); and for `NeverRefused` that a caller that goes on after a
quiescence finds no query in its way (`ResumeInv`). That last part holds because
such callers are resumed before the runner chooses again. `CallsInv` counts: a
call makes at most one query, so none is made beyond the bound. `LoopCorrect`,
`OneQueryOnAir`, `NobodyRefused`.

Two more properties have an invariant of their own. `CommandsGoFirst` bounds what
is written behind a waiting command: `BehindInv` adds what may still be written
(`left`), and that a command that comes while the runner is at work sets the wake
event it looks at before it writes again. `SweepIsWhole` says that what was asked
and what lies ahead are all the requests; `SweepInv` says where "ahead" is,
the sweep of a refresh that runs or the resume list of one that yielded, and that
a session begins with neither. `CommandsFirst`, `SweepStaysWhole`.

`Recovery_proofs`, under `RecoveryAssumption`. `CircuitIsEarned` follows
from `EvidenceInv`: what the policy has recorded is no more than what happened
since the last stable session. It has one exception, a ready client whose
stability timer is due and has not fired, which the failure of that session
repairs (`record_failure` looks at the session's length itself). `CutsArePaid` needs
`EventInv`, that the event of a command that has cut a wait is cleared, and `FloorIsKept`
needs `WaitInv`, that the second wait is never below the floor.
`RecoveryCorrect`, `CircuitEarned`, `CommandsArePaid`, `FloorKept`.

`StormIsBounded` counts the waits that advertisements alone cut short before the
circuit had a floor. It needs to know that each of them is still counted by the
policy. `StormInv` matches them: the n-th newest of those waits is no younger than the
n-th newest recorded wake-up, nor than the n-th newest failure, but for the failure a
wait has not had yet (`Outlive`). While a wait is in the window, so are its
partners; when the waits are as many as the larger threshold, both lists have reached
theirs and the floor is up. This is where `HistoryAssumption` is
used: a history that forgets entries within the window would break the match.
`StormBounded`.

### 4.3 Custom Auto

`CustomAutoController_proofs`, under `PolicyAssumption` and
`ControllerAssumption`: any number of levels, any boundaries, delays, readings
and bounds. `QuietUnlessUsable` and `NoStrayWorker` speak of the actor at rest;
between its awaits they need more:

- `SerialInv`: no queued completion carries the serial of a live worker, unless
  that one is cancelled. Without it the completion of a replaced worker could be
  taken for the current one's.
- `WorkerInv`: what is registered is outstanding; what is being given up is
  unregistered before the first await.
- `CommandInv`: the command worker sends the pending target and no other. One
  consequence is that the branch of `_handle_work_done` for a
  completion with another target (`SendPending`) is never taken.
- `AlarmInv`: the timer wakes no later than the least boundary; that there is a
  least one is well-foundedness of the naturals.

`ControllerCorrect`, `QuietWhenGivenUp`, `WorkersAreKnown`, `PendingIsSent`,
`BoundariesAreTimed`.

`CustomAutoHysteresis_proofs` extends it to what moves the fan. `RaisedWhenConfirmed`
and `SlowedAfterDwell` speak of a history of readings, of which the policy keeps
only what it times. `HysteresisInv` relates the two:

- `Backed`: each confirmation and each dwell the policy times was begun by a
  reading of this history at the recorded time, and every reading from it on justified
  it. A reading kept for later, while a command is in flight, has begun none.
- `PendingInv`: while a target is pending no confirmation runs, the reading kept
  for later is the last one, and after a target that is no downshift no dwell is left.
- `RevisionInv`: a reading that is taken is newer than the last one and than the
  barrier; with it, a new target is of the latest reading.

The policy is pure, so the lemmas are about its operators: what `Observe`,
`AtBoundary`, `Confirm` and `Reconcile` keep of `Backed` and `PendingInv`, and that a
target they emit was backed for long enough. `ControllerStep` then gives each action
of the actor its operator. In its first form, with every reading of a dwell clean
enough, `Backed` is not inductive: a reading that repeats a failed downshift keeps
dwells it does not justify. TLC showed that the code does this, too, which is the
finding `dirtier` of section 5; `Backed` now leaves these readings apart, as
`SlowedAfterDwell` does. `TimedIsBacked`, `TargetsAreFresh`, `RaisesAreConfirmed`,
`DwellsAreKept`.

`CustomAutoLifecycle_proofs`, under `LifecycleAssumption`: any inputs, faults and
attempts. `GateIsSafe` is disturbed by a blocked switch, by the end of any clean-up
attempt, by a disabled entry, and by a coordinator that begins or ends. It needs
that nothing of a coordinator is left before the next is created (`BlankInv`);
that a disabling entry has closed the gate for good before its clear ends
(`StopInv`); that a cleanup task that gave up leaves its clear to be done
(`FailedInv`), for its callback looks only at whether it failed; and, for all
of these, that set-up, unload, edit and disabling wait for one transaction of their
own (`OwnInv`), or a clear that ends late could move an entry that has gone on. The
proof treats the lock and the rest apart (`LockInv`, `StateInv`): four lemmas say
what a step may do to the queue. `GateCorrect`, `GateStaysSafe`.

`OwnerIsWanted` follows a decision through calls that queue behind each other, a
store that answers late, reloads and crashes. Beside the gate's invariant it needs
`OwnerInv`:

- `KindInv`: each transaction takes the part of the path that is its own.
- `StoredInv`: a selection that is ON, or is being made, has an open gate or a clear
  that is required. `OffBeforeCommand` is one of its lines.
- `RunInv`: what may run, or wait for the lock, where set-up and unload are; an
  activation never waits behind the last transaction of a stop.
- `AskInv`: a clean-up loop is in the queue once, for a generation that has come.
- `ClearInv`: a clear that ends the requirement finds the policy stopped and no
  activation behind it in the queue. Here the order of the queue matters: an
  activation that was queued before the switch was blocked is ahead of the clean-up,
  and one that comes later finds the gate closed.
- `WantedInv`: a policy that runs, a memory that says ON and a selection that was
  loaded are the owner's, or a clear is required, or a transaction waits that puts
  them right (`Late`).

`OwnerCorrect`, `FanIsWanted`, `OffComesFirst`. `MemoryAgrees` speaks of histories in
which nothing fails, and needs `MemoryInv` on top: every requirement has a loop that
serves it (`FaultlessInv`), and a selection that is ON has its policy, and a policy
its selection, or a waiting transaction brings them together (`AgreeInv`).
`MemoryCorrect`, `MemoryIsTrue`. TLC was given both invariants on the instance of
`custom_auto`, with one input more, before they were proved. The proof looks at the queue through two
predicates only, who is in it (`In`) and who is ahead of whom (`Ahead`); `Grown` and
`Shrunk` say what a call that joins and a transaction that leaves do to them.

### 4.4 Only model-checked

Liveness, which is out of this prover's reach: `EveryCallAnswered`, `ShutdownEnds`, `QuarantineEnds`,
`CallsEnd`, `RefreshEnds`, `KeepsTrying`, `ControlReturns`, `GateReopens`,
`UnloadEnds`.

## 5. Findings

Two are kept as runs.

**`hidden`** (`HiddenStaysOff`). Set-up loads the
selection, ON, before it creates the coordinator. The switch is hidden meanwhile:
the memory is cleared. It is shown again before the clean-up inside `async_start`
has ended: `coordinator.py:193-199` restores Custom Auto from the selection loaded
before, which nothing has reset, and the README's "leaves it OFF" does not hold.
`OwnerIsWanted` excuses this history and no other of the kind.

**`dirtier`** (`DirtierEndsDwell`). A downshift has failed, and the next reading
allows its level: the policy repeats it (`custom_auto_policy.py:327`) before it
looks at the dwells of still lower levels, for which this reading is too dirty. They
stay. When the repeated command is confirmed, the next clean reading finds such a
dwell mature and slows the fan at once. The README's "Dirtier air cancels
incompatible downward dwell" does not hold.

What follows was met while modelling. Each is a trace of the models under other
bounds; no run is kept for them.

- *A cache that the purifier has left.* A fan control is sent and its caller
  gives up: its echo is quarantined. The purifier applies the mode and answers,
  the echo is swallowed, and the cache keeps the older mode. A later control for
  that older mode is confirmed from the cache, unsent, while the purifier is in
  the other mode (`operations.py:427`).
- *An echo that answers for a later control.* A physical update that arrives
  before the active control's first send finds `send_attempts == 0` and reserves
  nothing. The control is then sent and its echo queues behind the update, still
  unprocessed. The update supersedes the control, and the replacement of the same
  mode is sent with that old echo in the queue (`client.py:1510`).
- *A quiescence that is not one.* A requeued operation is released, which sets
  `quiesced`, and is executed again in the next session. A caller that gives up
  during the second execution does not wait for it to stop. The lane's other
  promises do not depend on it (`OnlyLawfulSends`).
- *A disconnect the registry does not know.* A connect is cancelled by a shutdown,
  its connector acknowledges, and the late clean-up ends without having closed the
  address; it gives the ownership token back. The cancellation handler of
  `async_connect` then disconnects the same client again, now untracked. A
  reloaded transport may start its connector while that disconnect is still
  running, which the Bluetooth document rules out. The lease itself holds
  (`ImplementsLease` speaks of tracked work).
- *A slow-down without its dwell.* After a command to raise the fan has failed,
  the next reading decides at once, also for a slower level
  (`custom_auto_policy.py:333`); the README asks for a dwell before the fan slows
  and names no exception. `SlowedAfterDwell` leaves the reading after a failed
  command out; `FreshTarget` says what it may do.
- *An edit that re-arms.* The user switches Custom Auto off, or takes the fan,
  while an options edit waits; the edit fails and arms the policy again
  (`config_flow.py:397`). One of the exceptions of `Decide`.
- *Two cleanup loops.* `async_start` runs the cleanup loop itself while a registry
  event starts its task: two loops serve the same generations, and an attempt of
  the second one may find nothing left to be cleared and clear a selection made
  since (`coordinator.py:667`). Another of those exceptions.
- *A threshold beyond the history.* See `HistoryAssumption` in section 2.7.
- A caller cancelled between the choice of its control and the first step of the
  transaction task has it sent once without its echo being quarantined.
- A request for a refresh that arrives while a sweep runs is dropped, also if
  what it asks for has been read already (`client.py:1313`). No document promises
  another sweep; `SweepIsWhole` is about each sweep.

## 6. Not modelled

- *Secure channels.* The H7129's negotiation is sequential within one session.
  Its rules are about keys and cipher texts, and the tests pin it by captured
  vectors. A model of its phases, retries and late responses would be the next
  module.
- *The state reducer* beyond the fan mode, and the assembly of that mode from
  fragments at start-up: its inputs are bytes.
- *Subscribing and writing* in `GattTransport`, and its generation checks, beyond
  what `CommandOperations` has of them. The choice among adapters and the
  reachability diagnostics of the environment.
- *The check, clear and recheck* of the advertisement event
  (`bluetooth/environment.py:359`): on one event loop nothing runs between them.
- *Set-up*: migration and removal of entries. *Coordinator*: switching Custom Auto
  off through the options, and the light.
- *Discovery and the forms* of the configuration flow: sequential dialogues driven
  by the host.
- *Protocol codec, matcher, frames, profiles and encryption*: pure functions over
  bytes or immutable documents, pinned by captured vectors in `tests/`; commands
  and frames are model values here.
- *Entities, diagnostics and logging*: they hold no state of their own.
- `scripts/`: offline extraction of captures, no part of the running
  integration.
