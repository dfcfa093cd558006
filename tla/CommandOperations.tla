------------------------- MODULE CommandOperations -------------------------
(***************************************************************************)
(* The command lane of the reliable purifier client: the controls that     *)
(* callers submit (operations.py, client.py async_execute), the one runner  *)
(* task that owns the Bluetooth session and executes them in order, and    *)
(* the purifier at the other end of the link.                              *)
(*                                                                         *)
(* The client is a cooperative asyncio program, so an action is the code   *)
(* that runs between two awaits.  The runner's control point is "runner":  *)
(*                                                                         *)
(*   start -> connecting -> initializing -> ready <-> idle | polling       *)
(*                                          ready -> sending -> awaiting   *)
(*                                            -> matched -> ready          *)
(*   any connected point -> backoff -> connecting   (teardown included)    *)
(*   any point -> closing -> stopped          (async_shutdown)             *)
(*                                                                         *)
(* "sending" is the point between the creation of the transaction task and *)
(* its first step; "matched" is the point between the end of that task and *)
(* the runner's resumption.  Other tasks run at both.                      *)
(***************************************************************************)
EXTENDS Integers, Sequences, FiniteSets

CONSTANTS
  FanModes,       \* values of SetFanMode
  Colors,         \* values of SetNightLightColor: the cache never satisfies one
  NoMode,         \* the cached fan mode is unknown
  ButtonModes,    \* the fan modes the purifier's own buttons select
  MaxOps,         \* bound: operations submitted
  SendLimit,      \* timings.command_send_attempts
  MaxGeneration,  \* bound: connection cycles
  QueueLimit,     \* capacity of the client's notification queue
  AirLimit,       \* bound: notifications on their way to the client
  EchoCopies,     \* copies of the acknowledgement the purifier emits per write
  Disturbances    \* bound: which of these may happen: "shutdown", "deadline", "cancel"

ASSUME ConstantsAssumption ==
  /\ FanModes \cap Colors = {}
  /\ NoMode \notin FanModes \cup Colors
  /\ ButtonModes \subseteq FanModes
  /\ FanModes # {}
  /\ MaxOps \in Nat /\ SendLimit \in Nat \ {0} /\ MaxGeneration \in Nat
  /\ QueueLimit \in Nat \ {0} /\ AirLimit \in Nat /\ EchoCopies \in Nat \ {0}

VARIABLES
  (* one _Operation and the async_execute call that waits for it *)
  command,        \* the absolute command of each operation
  status,         \* its future: "new" until submitted, "open", or how it settled
  caller,         \* where its async_execute call is
  sends,          \* send_attempts
  expired,        \* operations whose deadline has passed
  forced,         \* operations with force_fan_confirmation
  cancelEvent,    \* operations whose cancel_event is set
  quiesced,       \* operations whose quiesced event is set
  (* the CommandOperationController *)
  lastOp,         \* _next_operation_id
  pending,        \* the operations in the deque ...
  place,          \* ... and their order in it: smaller is nearer the left end
  active,         \* the operation being executed
  event,          \* the wake event of the lane
  requireConfirm, \* _fan_modes_requiring_confirmation
  supEchoes,      \* _superseded_fan_echoes of the current generation
  canEchoes,      \* _cancelled_fan_echoes of the current generation
  (* the client *)
  runner,         \* control point of the runner task
  generation,     \* _session_generation
  disconnected,   \* the _disconnected event
  stopping,       \* the _stopping event
  captured,       \* the active operation async_shutdown captured
  fanMode,        \* cached PurifierState.fan_mode
  rx,             \* the notification queue
  (* the purifier and the link *)
  device,         \* fan mode the purifier is really in
  tx,             \* writes the purifier has not handled yet
  air,            \* notifications the client has not received yet
  seen            \* history: modes the purifier was in during this session

opVars    == <<command, status, caller, sends, expired, forced, cancelEvent, quiesced>>
queueVars == <<lastOp, pending, place, active, event>>
echoVars  == <<requireConfirm, supEchoes, canEchoes>>
linkVars  == <<device, tx, air, seen>>
sessVars  == <<runner, generation, disconnected, stopping, captured, fanMode, rx>>
vars == <<opVars, queueVars, echoVars, sessVars, linkVars>>

-----------------------------------------------------------------------------
Ops      == 1 .. MaxOps
NoOp     == 0
Commands == FanModes \cup Colors
Frames   == [kind : {"echo"}, command : Commands, generation : Nat]
            \cup [kind : {"physical"}, command : FanModes, generation : Nat]
Settled  == {"confirmed", "failed", "superseded", "cancelled"}
Points   == {"start", "connecting", "initializing", "ready", "idle", "polling",
             "sending", "awaiting", "matched", "backoff",
             "closing", "stopped"}
Executing == {"sending", "awaiting", "matched"}
Connected == {"initializing", "ready", "idle", "polling"} \cup Executing

IsFan(c)       == c \in FanModes
SameType(c, d) == IsFan(c) <=> IsFan(d)
LinkUp         == runner \in Connected /\ ~disconnected
Running(p)     == runner = p /\ ~stopping

Init ==
  /\ command = [o \in Ops |-> NoMode] /\ status = [o \in Ops |-> "new"]
  /\ caller = [o \in Ops |-> "none"] /\ sends = [o \in Ops |-> 0]
  /\ expired = {} /\ forced = {} /\ cancelEvent = {} /\ quiesced = {}
  /\ lastOp = 0 /\ pending = {} /\ place = [o \in Ops |-> 0]
  /\ active = NoOp /\ event = FALSE
  /\ requireConfirm = {} /\ supEchoes = {} /\ canEchoes = {}
  /\ runner = "start" /\ generation = 0 /\ disconnected = FALSE
  /\ stopping = FALSE /\ captured = NoOp /\ fanMode = NoMode /\ rx = <<>>
  /\ device \in FanModes /\ tx = <<>> /\ air = <<>> /\ seen = {}

(***************************************************************************)
(* Callers: async_execute.                                                 *)
(***************************************************************************)

(* Pending operations that a new control of command c replaces. *)
Replaced(c) ==
  {p \in pending : SameType(command[p], c) /\ status[p] = "open"}

(* A caller submits control c: enqueue coalesces the pending operations of *)
(* the same type and appends the new one at the right end of the deque.    *)
(* Its place there is its identifier, larger than any other place.         *)
Execute(c) ==
  LET o == lastOp + 1 IN
  /\ lastOp < MaxOps /\ ~stopping
  /\ lastOp' = o
  /\ command' = [command EXCEPT ![o] = c]
  /\ status' = [p \in Ops |-> IF p = o THEN "open"
                              ELSE IF p \in Replaced(c) THEN "superseded" ELSE status[p]]
  /\ caller' = [caller EXCEPT ![o] = "awaiting"]
  /\ quiesced' = quiesced \cup Replaced(c)
  /\ forced' = IF c \in requireConfirm THEN forced \cup {o} ELSE forced
  /\ requireConfirm' = requireConfirm \ {c}
  /\ pending' = (pending \ Replaced(c)) \cup {o}
  /\ place' = [place EXCEPT ![o] = o]
  /\ event' = TRUE
  /\ UNCHANGED <<sends, expired, cancelEvent, active, supEchoes, canEchoes, sessVars, linkVars>>

(* The echoes of o that cancel() quarantines. *)
QuarantinedBy(o) ==
  IF active = o /\ IsFan(command[o]) /\ sends[o] > 0 THEN {command[o]} ELSE {}

(* Mutants: a settled future is cancelled all the same; the wake event is  *)
(* always cleared.                                                         *)
CancelledStatusAlways(o)  == "cancelled"
StillWantedNever(o)       == FALSE

(* What cancel() makes of the future, of the quiesced event of a queued    *)
(* operation, and of the wake event.                                       *)
CancelledStatus(o)  == IF status[o] = "open" THEN "cancelled" ELSE status[o]
QuiescedByCancel(o) == {o} \cap pending
StillWanted(o)      == \E p \in pending \ {o} : status[p] = "open"

(* CommandOperationController.cancel, then the wait for quiescence.        *)
Cancel(o) ==
  /\ canEchoes' = canEchoes \cup QuarantinedBy(o)
  /\ status' = [status EXCEPT ![o] = CancelledStatus(o)]
  /\ cancelEvent' = cancelEvent \cup {o}
  /\ quiesced' = quiesced \cup QuiescedByCancel(o)
  /\ pending' = pending \ {o}
  /\ event' = (event /\ StillWanted(o))
  /\ caller' = [caller EXCEPT ![o] = "quiescing"]
  /\ UNCHANGED <<command, sends, expired, forced, lastOp, place, active,
                 requireConfirm, supEchoes, sessVars, linkVars>>

(* The caller's own timeout fires; it may win over a future already settled. *)
CallerTimesOut(o) == caller[o] = "awaiting" /\ o \in expired /\ Cancel(o)

(* The task that awaits async_execute is cancelled. *)
CallerCancelled(o) == "cancel" \in Disturbances /\ caller[o] = "awaiting" /\ Cancel(o)

(* The future is done: a superseded caller still waits for quiescence. *)
CallerResumes(o) ==
  /\ caller[o] = "awaiting" /\ status[o] \in Settled
  /\ caller' = [caller EXCEPT ![o] =
                  IF status[o] = "superseded" THEN "quiescing" ELSE "returned"]
  /\ UNCHANGED <<command, status, sends, expired, forced, cancelEvent, quiesced,
                 queueVars, echoVars, sessVars, linkVars>>

(* The quiesced event is set, so the shielded wait ends.  That wait takes   *)
(* two passes of the event loop, and a transaction task created before it  *)
(* takes its first step within one, hence the last guard.                  *)
CallerReturns(o) ==
  /\ caller[o] = "quiescing" /\ o \in quiesced
  /\ ~(runner = "sending" /\ active = o)
  /\ caller' = [caller EXCEPT ![o] = "returned"]
  /\ UNCHANGED <<command, status, sends, expired, forced, cancelEvent, quiesced,
                 queueVars, echoVars, sessVars, linkVars>>

(* The clock passes the deadline of o.  Deadlines are a fixed delay after  *)
(* submission, so they pass in that order.  The clock is not read between  *)
(* prepare_for_send and the first step of the transaction task.            *)
Expire(o) ==
  /\ "deadline" \in Disturbances
  /\ status[o] = "open" /\ o \notin expired
  /\ \A p \in 1 .. (o - 1) : status[p] = "open" => p \in expired
  /\ ~(runner = "sending" /\ active = o)
  /\ expired' = expired \cup {o}
  /\ UNCHANGED <<command, status, caller, sends, forced, cancelEvent, quiesced,
                 queueVars, echoVars, sessVars, linkVars>>

(***************************************************************************)
(* The runner: taking work and sending it.                                 *)
(***************************************************************************)

(* Mutant: the waiting caller is not told. *)
ReleaseSilently(o, p) ==
  active' = NoOp /\ quiesced' = quiesced /\ runner' = p

(* release(): the runner gives up the active operation and goes to p.      *)
Release(o, p) ==
  active' = NoOp /\ quiesced' = quiesced \cup {o} /\ runner' = p

(* Mutant: an expired operation stays in the deque. *)
KeptExpired == {p \in pending : status[p] = "open"}

(* discard_expired() splits the deque in these two sets. *)
Kept == {p \in pending : status[p] = "open" /\ p \notin expired}
Dead == {p \in pending : status[p] = "open" /\ p \in expired}

Leftmost(o) == \A p \in Kept : place[o] <= place[p]

(* Mutant: the forced confirmation is not honoured. *)
VerdictUnforced(o) ==
  CASE fanMode = command[o] -> "confirmed"
    [] fanMode # command[o] /\ sends[o] >= SendLimit -> "failed"
    [] OTHER -> "open"

(* prepare_for_execution: what becomes of an operation that was taken.     *)
(* reconcile() reads the cache; only a fan mode can be satisfied by it.    *)
Verdict(o) ==
  CASE o \notin forced /\ fanMode = command[o] -> "confirmed"
    [] ~(o \notin forced /\ fanMode = command[o]) /\ sends[o] >= SendLimit -> "failed"
    [] OTHER -> "open"

(* take_next() discards the expired operations and takes the leftmost.     *)
TakeNext(o) ==
  /\ Running("ready") /\ o \in Kept /\ Leftmost(o)
  /\ status' = [p \in Ops |-> IF p \in Dead THEN "failed"
                              ELSE IF p = o THEN Verdict(o) ELSE status[p]]
  /\ pending' = Kept \ {o}
  /\ IF Verdict(o) = "open"
     THEN active' = o /\ quiesced' = quiesced \cup Dead /\ runner' = "sending"
     ELSE active' = NoOp /\ quiesced' = quiesced \cup Dead \cup {o} /\ runner' = "ready"
  /\ UNCHANGED <<command, caller, sends, expired, forced, cancelEvent, lastOp, place, event,
                 echoVars, generation, disconnected, stopping, captured, fanMode, rx, linkVars>>

(* No operation is left: the runner polls, refreshes, or waits for work.   *)
FindNothing ==
  /\ Running("ready") /\ Kept = {}
  /\ status' = [p \in Ops |-> IF p \in Dead THEN "failed" ELSE status[p]]
  /\ pending' = {} /\ quiesced' = quiesced \cup Dead /\ event' = FALSE
  /\ runner' \in {"idle", "polling"}
  /\ UNCHANGED <<command, caller, sends, expired, forced, cancelEvent, lastOp, place, active,
                 echoVars, generation, disconnected, stopping, captured, fanMode, rx, linkVars>>


(* requeue_for_reconciliation keeps an ambiguous operation that is neither *)
(* settled nor expired.                                                    *)
Ambiguous(o) == status[o] = "open" /\ o \notin expired

(* Mutant: append, on the right. *)
RightEnd == lastOp

(* appendleft.  A session is recycled once, so its generation, negated, is *)
(* a place to the left of every other.                                     *)
LeftEnd == -generation

(* The session is recycled; the operation in execution goes back to the    *)
(* left end of the deque, or fails if it is expired.                       *)
Requeue(o) ==
  /\ status' = [status EXCEPT ![o] = IF @ = "open" /\ o \in expired THEN "failed" ELSE @]
  /\ pending' = IF Ambiguous(o) THEN pending \cup {o} ELSE pending
  /\ place' = IF Ambiguous(o) THEN [place EXCEPT ![o] = LeftEnd] ELSE place
  /\ event' = (event \/ Ambiguous(o))
  /\ Release(o, "backoff")
  /\ UNCHANGED <<command, caller, expired, forced, cancelEvent, lastOp,
                 generation, disconnected, stopping, captured, fanMode>>

(* _retire_superseded_fan_echo_for_send: the send of o owns these echoes.  *)
Retire(o) ==
  /\ canEchoes' = canEchoes \ {command[o]}
  /\ supEchoes' = IF o \in forced THEN supEchoes \ {command[o]} ELSE supEchoes
  /\ UNCHANGED requireConfirm

(* The first step of the transaction task on a ready channel: record_send, *)
(* then the write, which the link may accept or refuse.  A shutdown that   *)
(* has just begun does not stop this step.                                 *)
Transmit(o) ==
  /\ runner = "sending" /\ active = o /\ ~disconnected
  /\ sends' = [sends EXCEPT ![o] = @ + 1]
  /\ Retire(o)
  /\ \/ /\ tx' = Append(tx, command[o]) /\ runner' = "awaiting"
        /\ UNCHANGED <<command, status, caller, expired, forced, cancelEvent, quiesced,
                       queueVars, generation, disconnected, stopping, captured, fanMode>>
     \/ /\ ~stopping /\ tx' \in {tx, Append(tx, command[o])}
        /\ Requeue(o)
  /\ UNCHANGED <<rx, device, air, seen>>

(* The channel is no longer ready when the transaction task starts.        *)
TransmitFails(o) ==
  /\ Running("sending") /\ active = o /\ disconnected
  /\ Requeue(o)
  /\ UNCHANGED <<sends, echoVars, rx, linkVars>>

(***************************************************************************)
(* Notifications.                                                          *)
(***************************************************************************)

ActiveFanSent == active # NoOp /\ IsFan(command[active]) /\ sends[active] > 0

(* consume_superseded_fan_echo: the exact echo of cancelled or superseded  *)
(* work; a superseded reservation is used up, a cancelled one is kept.     *)
Swallowed(f) ==
  f.kind = "echo" /\ f.generation = generation /\ f.command \in canEchoes \cup supEchoes

EchoesLeft(f) ==
  IF f.command \in canEchoes THEN supEchoes ELSE supEchoes \ {f.command}

(* supersede_active_fan_by_physical. *)
Supersede ==
  LET c == command[active]
      twins == {p \in pending : command[p] = c}
  IN /\ status' = [status EXCEPT ![active] = "superseded"]
     /\ cancelEvent' = cancelEvent \cup {active}
     /\ forced' = forced \cup twins
     /\ requireConfirm' = IF twins = {} THEN requireConfirm \cup {c} ELSE requireConfirm \ {c}
     /\ supEchoes' = supEchoes \cup {c}

(* _process_plaintext_frame for a frame that matched no request.           *)
Process(f) ==
  \/ /\ Swallowed(f)
     /\ supEchoes' = EchoesLeft(f)
     /\ UNCHANGED <<status, cancelEvent, forced, requireConfirm, fanMode>>
  \/ /\ ~Swallowed(f) /\ f.kind = "echo"
     /\ UNCHANGED <<status, cancelEvent, forced, requireConfirm, supEchoes, fanMode>>
  \/ /\ f.kind = "physical"
     /\ fanMode' = f.command
     /\ IF ActiveFanSent /\ status[active] = "open"
        THEN Supersede
        ELSE UNCHANGED <<status, cancelEvent, forced, requireConfirm, supEchoes>>

(* The response matcher of a command: its echo, or a physical update to    *)
(* the very mode it asks for.                                              *)
Matches(f) == ~Swallowed(f) /\ f.command = command[active]

(* The runner takes the next frame of the queue; a disconnect wins.        *)
TakeFrame == ~disconnected /\ rx # <<>> /\ rx' = Tail(rx)

(* A wait for a frame that is cancelled may already have taken one.        *)
MayLoseFrame == rx' \in IF rx = <<>> THEN {rx} ELSE {rx, Tail(rx)}

FrameFrame == <<command, caller, sends, expired, quiesced, lastOp, pending, place, active,
                canEchoes, generation, disconnected, stopping, captured, linkVars>>

(* A frame that does not settle the work at hand.  A wait for ready work   *)
(* that saw the wake event as well consumes it.                            *)
ReceiveOther ==
  /\ \/ Running("awaiting") /\ rx # <<>> /\ ~Matches(Head(rx)) /\ UNCHANGED <<runner, event>>
     \/ Running("polling") /\ UNCHANGED <<runner, event>>
     \/ Running("initializing") /\ UNCHANGED runner /\ event' \in {event, FALSE}
     \/ Running("idle") /\ runner' = "ready" /\ event' \in {event, FALSE}
  /\ TakeFrame
  /\ Process(Head(rx))
  /\ UNCHANGED FrameFrame

(* The response: the transaction task ends.  A matched physical update     *)
(* updates the cache and drops the reservation made when it arrived.       *)
ReceiveMatch ==
  /\ Running("awaiting") /\ TakeFrame /\ Matches(Head(rx))
  /\ runner' = "matched"
  /\ IF Head(rx).kind = "physical"
     THEN fanMode' = Head(rx).command /\ supEchoes' = supEchoes \ {command[active]}
     ELSE UNCHANGED <<fanMode, supEchoes>>
  /\ UNCHANGED <<status, cancelEvent, forced, requireConfirm, event, FrameFrame>>

(***************************************************************************)
(* The runner: the end of an attempt.                                      *)
(***************************************************************************)

(* The runner resumes after the response: a cancellation that came first   *)
(* wins, otherwise the confirmed command is applied and completed.         *)
Confirm(o) ==
  /\ Running("matched") /\ active = o
  /\ IF o \in cancelEvent \/ status[o] # "open"
     THEN UNCHANGED <<status, fanMode>>
     ELSE /\ status' = [status EXCEPT ![o] = "confirmed"]
          /\ fanMode' = IF IsFan(command[o]) THEN command[o] ELSE fanMode
  /\ Release(o, "ready")
  /\ UNCHANGED <<command, caller, sends, expired, forced, cancelEvent, lastOp, pending, place,
                 event, echoVars, generation, disconnected, stopping, captured, rx, linkVars>>

(* The cancel event ends the attempt and the transaction task with it.     *)
ObserveCancel(o) ==
  /\ Running("awaiting") /\ active = o /\ o \in cancelEvent
  /\ MayLoseFrame
  /\ Release(o, "ready")
  /\ UNCHANGED <<command, status, caller, sends, expired, forced, cancelEvent, lastOp, pending,
                 place, event, echoVars, generation, disconnected, stopping, captured, fanMode,
                 linkVars>>


(* should_retry_after_response_failure, then prepare_for_send.             *)
MayResend(o) == sends[o] < SendLimit /\ status[o] = "open" /\ o \notin expired

(* No response within transaction_timeout: send again on this session, or  *)
(* recycle the session and reconcile after it.                             *)
StaySilent(o) ==
  /\ Running("awaiting") /\ active = o /\ o \notin cancelEvent
  /\ \/ /\ MayResend(o) /\ runner' = "sending"
        /\ UNCHANGED <<opVars, queueVars, generation, disconnected, stopping, captured, fanMode>>
     \/ ~MayResend(o) /\ Requeue(o) /\ UNCHANGED sends
  /\ UNCHANGED <<echoVars, rx, linkVars>>

(* The channel is lost during the attempt.                                 *)
LoseChannel(o) ==
  /\ Running("awaiting") /\ active = o /\ disconnected /\ o \notin cancelEvent
  /\ Requeue(o)
  /\ UNCHANGED <<sends, echoVars, rx, linkVars>>

(* The deadline passes during the attempt: fail, and recycle the session.  *)
DeadlineStops(o) ==
  /\ runner \in {"awaiting", "matched"} /\ ~stopping /\ active = o /\ o \in expired
  /\ status' = [status EXCEPT ![o] = IF @ = "open" THEN "failed" ELSE @]
  /\ Release(o, "backoff")
  /\ UNCHANGED <<command, caller, sends, expired, forced, cancelEvent, lastOp, pending, place,
                 event, echoVars, generation, disconnected, stopping, captured, fanMode, rx,
                 linkVars>>

(***************************************************************************)
(* The runner: idling, polling and the connection cycle.                   *)
(***************************************************************************)
RestOfSession ==
  <<opVars, lastOp, pending, place, active, echoVars, generation, stopping, captured>>

(* _async_wait_for_ready_work consumes the wake event.  The startup sweep  *)
(* waits with it too, between two batches of the essential request.        *)
Wake ==
  /\ event /\ ~disconnected /\ event' = FALSE
  /\ \/ Running("idle") /\ runner' = "ready"
     \/ Running("initializing") /\ UNCHANGED runner
  /\ UNCHANGED <<RestOfSession, disconnected, fanMode, rx, linkVars>>

(* A poll, a refresh or a one-shot query ends, or yields to a command.  A  *)
(* refresh may have asked for the fan mode; the reply is behind every      *)
(* earlier write and notification.                                         *)
EndPoll ==
  /\ Running("polling") /\ runner' = "ready"
  /\ \/ MayLoseFrame /\ UNCHANGED fanMode
     \/ rx = <<>> /\ air = <<>> /\ tx = <<>> /\ ~disconnected /\ fanMode' = device
        /\ UNCHANGED rx
  /\ UNCHANGED <<RestOfSession, event, disconnected, linkVars>>

(* A connected session ends without an operation in execution: the device  *)
(* stays silent to an essential request, or the link is lost.              *)
SessionFails ==
  /\ \/ Running("connecting") \/ Running("initializing") \/ Running("polling")
     \/ Running("idle") /\ disconnected
  /\ runner' = "backoff"
  /\ UNCHANGED <<RestOfSession, event, disconnected, fanMode, rx, linkVars>>

(* _run starts a connection cycle; a back-off before it consumed the wake  *)
(* event.  The old link is gone: any write in flight was handled or lost,  *)
(* and notifications may still be on their way from it.                    *)
BeginCycle ==
  /\ runner \in {"start", "backoff"} /\ ~stopping /\ generation < MaxGeneration
  /\ generation' = generation + 1
  /\ supEchoes' = {} /\ canEchoes' = {}
  /\ disconnected' = FALSE /\ rx' = <<>> /\ fanMode' = NoMode
  /\ event' = (event /\ runner = "start")
  /\ runner' = "connecting"
  /\ device' \in {device} \cup {tx[i] : i \in {j \in 1 .. Len(tx) : IsFan(tx[j])}}
  /\ tx' = <<>> /\ air' \in {<<>>, air} /\ seen' = {}
  /\ UNCHANGED <<opVars, lastOp, pending, place, active, requireConfirm, stopping, captured>>

(* The channel is established and the startup sweep begins.                *)
Establish ==
  /\ Running("connecting") /\ runner' = "initializing" /\ seen' = {device}
  /\ UNCHANGED <<RestOfSession, event, disconnected, fanMode, rx, device, tx, air>>

(* The startup sweep ends; the fan mode query may have stayed silent.      *)
EndInitialization ==
  /\ Running("initializing") /\ ~disconnected /\ runner' = "ready"
  /\ fanMode' \in {fanMode} \cup IF rx = <<>> /\ air = <<>> THEN {device} ELSE {}
  /\ UNCHANGED <<RestOfSession, event, disconnected, rx, linkVars>>

(* _on_disconnected: the session loses its connection-scoped state.        *)
LoseConnectionState ==
  /\ disconnected' = TRUE /\ fanMode' = NoMode
  /\ supEchoes' = {} /\ canEchoes' = {}

LinkDrops ==
  /\ LinkUp
  /\ LoseConnectionState
  /\ UNCHANGED <<opVars, queueVars, requireConfirm, runner, generation, stopping, captured, rx,
                 linkVars>>

(***************************************************************************)
(* The purifier, and the receipt of its notifications.                     *)
(***************************************************************************)

(* The purifier handles a write: it ignores it, or applies it and emits    *)
(* its exact echo.                                                         *)
DeviceHandles ==
  /\ LinkUp /\ tx # <<>> /\ tx' = Tail(tx)
  /\ \/ UNCHANGED <<device, air, seen>>
     \/ /\ Len(air) + EchoCopies <= AirLimit
        /\ device' = IF IsFan(Head(tx)) THEN Head(tx) ELSE device
        /\ seen' = seen \cup {device'}
        /\ air' = air \o [i \in 1 .. EchoCopies |->
                            [kind |-> "echo", command |-> Head(tx), generation |-> generation]]
  /\ UNCHANGED <<opVars, queueVars, echoVars, sessVars>>

(* Somebody selects another fan mode at the purifier.                      *)
ButtonPressed(m) ==
  /\ m # device /\ device' = m
  /\ IF LinkUp
     THEN /\ Len(air) < AirLimit /\ seen' = seen \cup {m}
          /\ air' = Append(air, [kind |-> "physical", command |-> m, generation |-> generation])
     ELSE UNCHANGED <<air, seen>>
  /\ UNCHANGED <<opVars, queueVars, echoVars, sessVars, tx>>

(* Mutant: the generation of the frame is not compared. *)
StaleIfClosed(f) == stopping \/ disconnected

(* The frames that _on_plaintext_frame drops at once.                      *)
Stale(f) == f.generation # generation \/ stopping \/ disconnected

(* supEchoes after the receipt-time reservation of a physical update.      *)
Reserved(f) ==
  IF f.kind = "physical" /\ ActiveFanSent THEN supEchoes \cup {command[active]} ELSE supEchoes

(* _on_plaintext_frame: drop a stale frame, end the session if the queue   *)
(* is full, swallow an echo nobody owns any more, or queue the frame.      *)
Deliver ==
  /\ air # <<>> /\ air' = Tail(air)
  /\ LET f == Head(air) IN
     \/ Stale(f) /\ UNCHANGED <<disconnected, fanMode, supEchoes, canEchoes, rx>>
     \/ ~Stale(f) /\ Len(rx) = QueueLimit /\ LoseConnectionState /\ rx' = <<>>
     \/ /\ ~Stale(f) /\ Len(rx) < QueueLimit /\ Swallowed(f)
        /\ supEchoes' = EchoesLeft(f)
        /\ UNCHANGED <<disconnected, fanMode, canEchoes, rx>>
     \/ /\ ~Stale(f) /\ Len(rx) < QueueLimit /\ ~Swallowed(f)
        /\ supEchoes' = Reserved(f) /\ rx' = Append(rx, f)
        /\ UNCHANGED <<disconnected, fanMode, canEchoes>>
  /\ UNCHANGED <<opVars, queueVars, requireConfirm, runner, generation, stopping, captured,
                 device, tx, seen>>

(***************************************************************************)
(* async_shutdown.                                                         *)
(***************************************************************************)

(* Up to the cancellation of the runner.                                   *)
Shutdown ==
  /\ "shutdown" \in Disturbances /\ ~stopping /\ stopping' = TRUE
  /\ supEchoes' = {} /\ canEchoes' = {}
  /\ event' = TRUE /\ captured' = active
  /\ UNCHANGED <<opVars, lastOp, pending, place, active, requireConfirm, runner, generation,
                 disconnected, fanMode, rx, linkVars>>

(* The runner unwinds; the operation in execution, if any, is released.    *)
RunnerUnwinds ==
  /\ stopping /\ runner \notin {"closing", "stopped"}
  /\ IF active = NoOp
     THEN runner' = "closing" /\ UNCHANGED <<active, quiesced>>
     ELSE Release(active, "closing")
  /\ UNCHANGED <<command, status, caller, sends, expired, forced, cancelEvent, lastOp, pending,
                 place, event, echoVars, generation, disconnected, stopping, captured, fanMode,
                 rx, linkVars>>

(* Mutant: the callers of queued operations are not told. *)
FailSilently ==
  /\ runner = "closing" /\ runner' = "stopped"
  /\ status' = [o \in Ops |-> IF o \in pending \cup {captured} /\ status[o] = "open"
                              THEN "failed" ELSE status[o]]
  /\ pending' = {} /\ supEchoes' = {} /\ canEchoes' = {}
  /\ UNCHANGED <<command, caller, sends, expired, forced, cancelEvent, quiesced, lastOp, place,
                 active, event, requireConfirm, generation, disconnected, stopping, captured,
                 fanMode, rx, linkVars>>

(* fail_for_shutdown, after the channel and transport are closed.          *)
FailForShutdown ==
  /\ runner = "closing" /\ runner' = "stopped"
  /\ status' = [o \in Ops |-> IF o \in pending \cup {captured} /\ status[o] = "open"
                              THEN "failed" ELSE status[o]]
  /\ pending' = {} /\ quiesced' = quiesced \cup pending
  /\ supEchoes' = {} /\ canEchoes' = {}
  /\ UNCHANGED <<command, caller, sends, expired, forced, cancelEvent, lastOp, place, active,
                 event, requireConfirm, generation, disconnected, stopping, captured, fanMode,
                 rx, linkVars>>

-----------------------------------------------------------------------------
CallerStep(o) == \/ CallerTimesOut(o) \/ CallerCancelled(o) \/ CallerResumes(o)
                 \/ CallerReturns(o)

Attempt(o) == \/ TakeNext(o) \/ Transmit(o) \/ TransmitFails(o) \/ Confirm(o)
              \/ ObserveCancel(o) \/ StaySilent(o) \/ LoseChannel(o) \/ DeadlineStops(o)

RunnerStep == \/ \E o \in Ops : Attempt(o)
              \/ FindNothing \/ ReceiveOther \/ ReceiveMatch
              \/ Wake \/ EndPoll \/ SessionFails \/ BeginCycle \/ Establish \/ EndInitialization

PurifierStep == LinkDrops \/ DeviceHandles \/ Deliver \/ \E m \in ButtonModes : ButtonPressed(m)

StopStep == Shutdown \/ RunnerUnwinds \/ FailForShutdown

Next == \/ \E c \in Commands : Execute(c)
        \/ \E o \in Ops : CallerStep(o) \/ Expire(o)
        \/ RunnerStep \/ PurifierStep \/ StopStep

Spec == Init /\ [][Next]_vars

(***************************************************************************)
(* Fairness: timers fire, a task whose wait is over runs, and the runner   *)
(* reacts to what ends an attempt.  Nothing is assumed of the link, of the *)
(* purifier, or of the runner's progress to the next operation.            *)
(***************************************************************************)
CallersProceed(o) ==
  /\ WF_vars(Expire(o)) /\ WF_vars(CallerTimesOut(o))
  /\ WF_vars(CallerResumes(o)) /\ WF_vars(CallerReturns(o))

RunnerReacts(o) ==
  /\ WF_vars(Transmit(o)) /\ WF_vars(TransmitFails(o))
  /\ WF_vars(Confirm(o)) /\ WF_vars(ObserveCancel(o))

FairSpec ==
  /\ Spec
  /\ \A o \in Ops : CallersProceed(o) /\ RunnerReacts(o)
  /\ WF_vars(RunnerUnwinds) /\ WF_vars(FailForShutdown)

-----------------------------------------------------------------------------
(* Every variable has its type. *)
TypeOK ==
  /\ command \in [Ops -> Commands \cup {NoMode}]
  /\ status \in [Ops -> {"new", "open"} \cup Settled]
  /\ caller \in [Ops -> {"none", "awaiting", "quiescing", "returned"}]
  /\ sends \in [Ops -> 0 .. SendLimit]
  /\ expired \subseteq Ops /\ forced \subseteq Ops
  /\ cancelEvent \subseteq Ops /\ quiesced \subseteq Ops
  /\ lastOp \in 0 .. MaxOps /\ pending \subseteq Ops /\ place \in [Ops -> Int]
  /\ active \in Ops \cup {NoOp} /\ event \in BOOLEAN
  /\ requireConfirm \subseteq FanModes
  /\ supEchoes \subseteq FanModes /\ canEchoes \subseteq FanModes
  /\ runner \in Points /\ generation \in Nat
  /\ disconnected \in BOOLEAN /\ stopping \in BOOLEAN
  /\ captured \in Ops \cup {NoOp} /\ fanMode \in FanModes \cup {NoMode}
  /\ rx \in Seq(Frames) /\ Len(rx) <= QueueLimit
  /\ device \in FanModes /\ tx \in Seq(Commands)
  /\ air \in Seq(Frames) /\ seen \subseteq FanModes

(* An unsettled operation is always somebody's: it is queued, in execution,*)
(* or held by the shutdown in progress, and exactly one of these.          *)
NoOrphan ==
  \A o \in Ops : status[o] = "open" =>
    \/ o \in pending /\ o # active
    \/ o = active /\ o \notin pending
    \/ o = captured /\ runner = "closing"

(* A caller that waits for quiescence is not left waiting for ever: its    *)
(* operation is quiesced, or is the one the runner will release.           *)
NoHungCaller ==
  \A o \in Ops : caller[o] = "quiescing" => o \in quiesced \/ o = active

(* The runner never sleeps on a non-empty deque without its wake event.    *)
NoLostWakeup ==
  runner = "idle" /\ ~stopping /\ pending # {} => event

(* The deque holds unsettled operations in the order of submission, behind *)
(* the operation in execution, whatever was requeued in between.           *)
SubmissionOrder ==
  /\ \A p \in pending : status[p] = "open" /\ p <= lastOp
  /\ \A p, q \in pending : p < q => place[p] < place[q]
  /\ active # NoOp => \A p \in pending : active < p

(* What a step may never do: send an operation past its send budget or its *)
(* deadline, before an older unsettled one, or after its caller returned.  *)
OnlyLawfulSends ==
  [][\A o \in Ops : sends'[o] # sends[o] =>
       /\ sends'[o] = sends[o] + 1 /\ sends'[o] <= SendLimit
       /\ o \notin expired
       /\ \A p \in Ops : p < o => status[p] # "open"
       /\ caller[o] \in {"awaiting", "quiescing"}]_vars

(* A fan command is confirmed only by a mode the purifier had in this very *)
(* session: neither the cache nor an echo of an earlier one may confirm it.*)
ConfirmedInSession ==
  [][\A o \in Ops : status[o] # "confirmed" /\ status'[o] = "confirmed" /\ IsFan(command[o])
                        => command[o] \in seen]_vars

(* A control submitted after physical authority took its mode away is      *)
(* confirmed by a send of its own, never by reconciliation.                *)
ForcedIsSent ==
  \A o \in forced : status[o] = "confirmed" => sends[o] > 0

(***************************************************************************)
(* The inductive invariant of the lane, in parts.                          *)
(***************************************************************************)

InSession == {"connecting"} \cup Connected

(* An operation is submitted, or new in every respect; while it is         *)
(* unsettled its caller awaits the future; a cancelled one is settled.     *)
AgeInv ==
  \A o \in Ops : /\ status[o] = "new" <=> o > lastOp
                 /\ caller[o] = "none" <=> o > lastOp
                 /\ status[o] = "open" => caller[o] = "awaiting"
                 /\ o \in cancelEvent => status[o] \in Settled

(* The deque holds submitted, unsettled operations by age, behind the one  *)
(* in execution.  In a session its left end is still free.                 *)
DequeInv ==
  /\ \A p \in pending : /\ status[p] = "open" /\ p <= lastOp
                        /\ place[p] <= p /\ LeftEnd <= place[p]
                        /\ runner \in InSession => LeftEnd < place[p]
  /\ \A p, q \in pending : p < q => place[p] < place[q]
  /\ active # NoOp => active <= lastOp /\ \A p \in pending : active < p

(* Every submitted operation is queued, in execution, or quiesced, and an  *)
(* unsettled one is queued, in execution, or held by the shutdown.         *)
CustodyInv ==
  \A o \in Ops :
    /\ o <= lastOp => o \in pending \/ o \in quiesced \/ o = active
    /\ status[o] = "open" => o \in pending \/ o = active \/ (o = captured /\ runner = "closing")

(* The active operation is the one the runner executes, and the one the    *)
(* shutdown captured.                                                      *)
ExecutionInv ==
  /\ active # NoOp <=> runner \in Executing
  /\ stopping /\ active # NoOp => captured = active
  /\ runner \in {"closing", "stopped"} => stopping

(* What prepare_for_send established still holds when the send begins, and *)
(* an attempt that waits for its answer was sent.                          *)
AttemptInv ==
  /\ runner = "sending" =>
       /\ sends[active] < SendLimit /\ active \notin expired
       /\ caller[active] \in {"awaiting", "quiescing"}
       /\ caller[active] = "awaiting" => status[active] = "open"
  /\ runner \in {"awaiting", "matched"} => sends[active] > 0

(* Checked by runs, and proved inductive in CommandOperations_proofs.      *)
LaneInv ==
  /\ AgeInv /\ DequeInv /\ CustodyInv /\ ExecutionInv /\ AttemptInv
  /\ NoHungCaller /\ NoLostWakeup /\ ForcedIsSent

(***************************************************************************)
(* The inductive invariant behind ConfirmedInSession, in parts.            *)
(***************************************************************************)

(* What a notification of this session says of the fan was so during it;   *)
(* older ones carry an older generation.                                   *)
Witnessed(f) == f.generation = generation /\ IsFan(f.command) => f.command \in seen

FrameInv ==
  /\ \A i \in 1 .. Len(air) : air[i].generation <= generation /\ Witnessed(air[i])
  /\ \A i \in 1 .. Len(rx) : rx[i].generation = generation /\ Witnessed(rx[i])

(* The cache repeats what was seen, and while the link is up the present   *)
(* mode has been; before the session begins nothing has.                   *)
CacheInv ==
  /\ fanMode # NoMode => fanMode \in seen
  /\ LinkUp => device \in seen
  /\ runner = "connecting" => seen = {}

(* The mode of a command whose response has come was seen.                 *)
MatchInv ==
  runner = "matched" /\ IsFan(command[active]) => command[active] \in seen

SessionInv == FrameInv /\ CacheInv /\ MatchInv

(* Every call of async_execute is answered, whatever the radio and the     *)
(* purifier do, because its own deadline and the runner's reaction to a    *)
(* cancellation are enough.                                                *)
EveryCallAnswered ==
  \A o \in Ops : caller[o] = "awaiting" ~> caller[o] = "returned"

(***************************************************************************)
(* The promise to callers: an INSTANCE of the abstract command service,    *)
(* whose outcome of an operation is its settled future and whose clients   *)
(* see only whether async_execute has returned.                            *)
(***************************************************************************)
Service == INSTANCE CommandService WITH
  phase   <- [o \in Ops |-> IF caller[o] = "none" THEN "unknown"
                            ELSE IF caller[o] = "returned" THEN "answered" ELSE "waiting"],
  outcome <- [o \in Ops |-> IF status[o] \in Settled THEN status[o] ELSE "none"],
  sent    <- sends

ImplementsService == Service!Spec
=============================================================================
