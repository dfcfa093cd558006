--------------------------- MODULE GattTransport ---------------------------
(***************************************************************************)
(* The Bluetooth transports of one purifier address                        *)
(* (bluetooth/transport.py), each driven by the runner of its client       *)
(* (client.py), the process-wide registry that lends the address to one of *)
(* them at a time (bluetooth/ownership.py), the standalone cleanup of      *)
(* set-up and removal, and the Bluetooth backend, whose calls may hang and *)
(* may resist cancellation.                                                *)
(*                                                                         *)
(* Every backend call is an asyncio task.  Its caller waits for it with a  *)
(* deadline, cancels it, waits for a bounded tail, and then leaves: the    *)
(* task may still be running.  "at" is where a runner waits:               *)
(*                                                                         *)
(*   idle -> disconnecting -> closing -> establishing -> connected         *)
(*   establishing -> diagnosing -> cancelling                              *)
(*   any -> disconnecting -> closing -> idle | unwound                     *)
(*   unwound -> closing -> stopped                                         *)
(*                                                                         *)
(* "disconnecting" is client.disconnect() and "closing" the address-level  *)
(* close with its verification; "why" names the clean-up they are part of. *)
(***************************************************************************)
EXTENDS Naturals, FiniteSets

CONSTANTS
  Transports,     \* the GattTransport instances, each with its own client
  Standalone,     \* the party that runs standalone clean-ups
  Nobody,
  MaxCycles,      \* bound: connection cycles of a transport
  MaxStandalone,  \* bound: standalone clean-ups
  Resistant       \* backend calls that may survive their cancellation

Calls == {"disconnect", "close", "session", "diagnosis", "connector", "late"}

ASSUME TransportAssumption ==
  /\ Standalone \notin Transports
  /\ Nobody \notin Transports \cup {Standalone}
  /\ MaxCycles \in Nat /\ MaxStandalone \in Nat
  /\ Resistant \subseteq Calls

VARIABLES
  record,     \* the registry's record of the address
  tasks,      \* backend tasks that have not ended
  links,      \* transports whose client is connected to the purifier
  transport,  \* the state of each transport and of its runner
  standalone  \* the standalone clean-up: its token, and how many were begun

vars == <<record, tasks, links, transport, standalone>>

-----------------------------------------------------------------------------
Parties == Transports \cup {Standalone}
NoToken == 0
Aborts  == {"before_connection", "connection_timeout", "connection_cancelled",
            "connection_failed"}
Ends    == {"connection_cycle_end", "shutdown"}
Points  == {"idle", "disconnecting", "closing", "establishing", "diagnosing",
            "cancelling", "connected", "unwound", "stopped"}

(* A task is tracked under the token its party held when it began.  Nobody *)
(* awaits it any more once its deadline and its tail are over.             *)
Task == [party : Parties, call : Calls, token : Nat, awaited : BOOLEAN]
Call(p, c, k) == [party |-> p, call |-> c, token |-> k, awaited |-> TRUE]

(* The token is the registry's serial number; "owner" is the party that    *)
(* was given it.                                                           *)
Record == [serial : Nat, owner : Parties \cup {Nobody},
           release : BOOLEAN, cleanup : BOOLEAN]

Transport ==
  [at : Points, why : Aborts \cup Ends,
   token : Nat,             \* _ownership_token
   client : BOOLEAN,        \* _client is set
   connecting : BOOLEAN,    \* _connecting_client is set
   connector : {"none", "running", "returned", "failed"},  \* _connector_task
   detached : BOOLEAN,      \* _connector_detached
   late : {"none", "ready", "disconnecting", "closing"},   \* _connector_cleanup_task
   known : BOOLEAN,         \* _last_device is set
   stopping : BOOLEAN,      \* the client is shutting down
   cycles : Nat]

Init ==
  /\ record = [serial |-> 0, owner |-> Nobody, release |-> TRUE, cleanup |-> FALSE]
  /\ tasks = {} /\ links = {}
  /\ transport = [t \in Transports |->
       [at |-> "idle", why |-> "connection_cycle_end", token |-> NoToken,
        client |-> FALSE, connecting |-> FALSE, connector |-> "none",
        detached |-> FALSE, late |-> "none", known |-> FALSE,
        stopping |-> FALSE, cycles |-> 0]]
  /\ standalone = [token |-> NoToken, count |-> 0]

(***************************************************************************)
(* Between two awaits a runner often goes through several procedures.  The *)
(* operators below map the state s = [record, tasks, links, me] that it    *)
(* has reached to the one after the next procedure.                        *)
(***************************************************************************)
Here(t) == [record |-> record, tasks |-> tasks, links |-> links, me |-> transport[t]]

Become(t, s) ==
  /\ record' = s.record /\ tasks' = s.tasks /\ links' = s.links
  /\ transport' = [transport EXCEPT ![t] = s.me]
  /\ UNCHANGED standalone

(* Mutant: a record is free as soon as its release was asked for. *)
OwnedUntilAsked(s) == s.record.serial # 0 /\ (~s.record.release \/ s.record.cleanup)

(* is_owned: the record is there and _release_if_quiescent would keep it. *)
Owned(s) ==
  /\ s.record.serial # 0
  /\ \/ ~s.record.release \/ s.record.cleanup
     \/ \E x \in s.tasks : x.token = s.record.serial

OwnedNow == Owned([record |-> record, tasks |-> tasks])

(* is_current *)
Current(s) == s.me.token # NoToken /\ s.me.token = s.record.serial /\ Owned(s)

(* claim; the caller has seen that the address is not owned *)
Claim(p, s) ==
  LET k == s.record.serial + 1 IN
  [s EXCEPT !.record = [serial |-> k, owner |-> p, release |-> FALSE, cleanup |-> FALSE],
            !.me.token = k]

(* Mutant: the transport keeps the token that it gave back. *)
ReleaseKeepingToken(s) ==
  [s EXCEPT !.record = IF Current(s) THEN [@ EXCEPT !.release = TRUE, !.cleanup = FALSE]
                       ELSE @]

(* _release_address_ownership: request_release and finish_cleanup, which   *)
(* do nothing for a token that is not current.                             *)
Release(s) ==
  [s EXCEPT !.record = IF Current(s) THEN [@ EXCEPT !.release = TRUE, !.cleanup = FALSE]
                       ELSE @,
            !.me.token = NoToken]

(* _connector_work_pending *)
Pending(m) ==
  \/ m.connector = "running"
  \/ m.connector # "none" /\ m.detached
  \/ m.late # "none"

(* The runner begins call c and waits for it at point p. *)
Await(t, s, c, p, why) ==
  [s EXCEPT !.tasks = @ \cup {Call(t, c, s.me.token)}, !.me.at = p, !.me.why = why]

(* Its call ends, or is left running after its deadline. *)
Ended(t, s, c)     == [s EXCEPT !.tasks = @ \ {Call(t, c, s.me.token)}]
Abandoned(t, s, c) ==
  [Ended(t, s, c) EXCEPT !.tasks =
     @ \cup {[Call(t, c, s.me.token) EXCEPT !.awaited = FALSE]}]
Settled(t, s, c) ==
  {Ended(t, s, c)} \cup (IF c \in Resistant THEN {Abandoned(t, s, c)} ELSE {})

(* Mutants: the clean-up ignores the quarantine, or another owner. *)
CleanAnyway(s)  == s.me.known /\ (Current(s) \/ ~Owned(s))
CleanOthers(s)  == ~Pending(s.me) /\ s.me.known

(* async_cleanup_stale_connection goes on to the backend, with the token   *)
(* it has or with a new one; otherwise it returns at once.                 *)
MayClean(s) == ~Pending(s.me) /\ s.me.known /\ (Current(s) \/ ~Owned(s))
Clean(t, s, why) ==
  Await(t, IF Current(s) THEN s ELSE Claim(t, s), "close", "closing", why)

(* The end of a cycle, or of the shutdown: async_disconnect, then cleanup. *)
Rest(s) ==
  [s EXCEPT !.me.at = IF s.me.why = "shutdown" THEN "stopped"
                      ELSE IF s.me.stopping THEN "unwound" ELSE "idle"]
CloseAtEnd(t, s, why) ==
  IF MayClean(s) THEN Clean(t, s, why) ELSE Rest([s EXCEPT !.me.why = why])
End(t, s, why) ==
  LET r == [s EXCEPT !.me.client = FALSE] IN
  IF s.me.client /\ t \in s.links
  THEN Await(t, r, "disconnect", "disconnecting", why)
  ELSE CloseAtEnd(t, r, why)

EndCycle(t, s) == End(t, s, "connection_cycle_end")

(* An attempt that has not led to a connection:                            *)
(* _async_abort_connecting_client, then cleanup.                           *)
CloseAttempt(t, s, why) == IF MayClean(s) THEN Clean(t, s, why) ELSE EndCycle(t, s)
Abort(t, s, why) ==
  IF s.me.connecting THEN Await(t, s, "disconnect", "disconnecting", why)
  ELSE CloseAttempt(t, s, why)

(***************************************************************************)
(* One connection cycle: async_connect up to the connector.                *)
(***************************************************************************)
MayBegin(t) ==
  /\ transport[t].at = "idle" /\ ~transport[t].stopping
  /\ transport[t].cycles < MaxCycles

Begun(t) == [Here(t) EXCEPT !.me.cycles = @ + 1]

(* No advertisement comes, or async_connect refuses: an earlier connector  *)
(* is quarantined, or the address is owned.                                *)
NoRoute(t) == MayBegin(t) /\ Become(t, EndCycle(t, Begun(t)))

(* async_connect takes the address and clears what may be left of earlier  *)
(* connections.                                                            *)
Connect(t) ==
  /\ MayBegin(t) /\ ~Pending(transport[t]) /\ ~Owned(Here(t))
  /\ Become(t, Abort(t, [Claim(t, Begun(t)) EXCEPT !.me.known = TRUE],
                     "before_connection"))

(* client.disconnect() answers, fails, or outlives its caller's patience. *)
Disconnected(t) ==
  /\ transport[t].at = "disconnecting"
  /\ \E s \in Settled(t, Here(t), "disconnect"), gone \in BOOLEAN :
       LET r == [s EXCEPT !.links = IF gone THEN @ \ {t} ELSE @] IN
       Become(t, IF r.me.why \in Ends THEN CloseAtEnd(t, r, r.me.why)
                 ELSE CloseAttempt(t, r, r.me.why))

StartConnector(t, s) ==
  Await(t, [s EXCEPT !.me.connector = "running", !.me.detached = FALSE],
        "connector", "establishing", s.me.why)

(* Where the runner goes after an address-level clean-up that has given    *)
(* the address back.                                                       *)
AfterClean(t, s) == IF s.me.why \in Ends THEN Rest(s) ELSE EndCycle(t, s)

(* Mutant: the close is not verified. *)
CloseUnverified(t) ==
  /\ transport[t].at = "closing"
  /\ LET s == [Ended(t, Here(t), "close") EXCEPT !.me.connecting = FALSE] IN
     Become(t, IF s.me.why = "before_connection" THEN StartConnector(t, s)
               ELSE AfterClean(t, Release(s)))

(* Every local connection of the address is closed, and none is reported. *)
CloseSucceeds(t) ==
  /\ transport[t].at = "closing"
  /\ LET s == [Ended(t, Here(t), "close") EXCEPT !.links = {}, !.me.connecting = FALSE] IN
     Become(t, IF s.me.why = "before_connection" THEN StartConnector(t, s)
               ELSE AfterClean(t, Release(s)))

CloseFails(t) ==
  /\ transport[t].at = "closing"
  /\ \E s \in Settled(t, Here(t), "close") : Become(t, AfterClean(t, Release(s)))

(***************************************************************************)
(* The connector (external) and its end.                                   *)
(***************************************************************************)
(* It creates a client and connects it. *)
ConnectorLinks(t) ==
  /\ transport[t].connector = "running" /\ t \notin links
  /\ Become(t, [Here(t) EXCEPT !.links = @ \cup {t}, !.me.connecting = TRUE])

(* mark_cancellation_requested and mark_late_cleanup *)
MarkCleanup(s) ==
  [s EXCEPT !.record = IF Current(s) THEN [@ EXCEPT !.cleanup = TRUE] ELSE @]

(* The connector ends.  _observe_connector_task hands a detached one to    *)
(* the late clean-up.                                                      *)
ConnectorEnds(t) ==
  /\ transport[t].connector = "running"
  /\ \E outcome \in {"returned", "failed"} :
       /\ outcome = "returned" => transport[t].connecting
       /\ LET s == [Ended(t, Here(t), "connector") EXCEPT !.me.connector = outcome] IN
          Become(t, IF ~s.me.detached THEN s
                    ELSE [MarkCleanup(s) EXCEPT
                            !.me.late = "ready",
                            !.tasks = @ \cup {Call(t, "late", s.me.token)}])

(* Its outcome is seen in time: the runner adopts the client ... *)
Adopt(t) ==
  /\ transport[t].at = "establishing" /\ transport[t].connector = "returned"
  /\ Become(t, [Here(t) EXCEPT !.me.connector = "none", !.me.connecting = FALSE,
                               !.me.client = TRUE, !.me.at = "connected"])

(* ... or gives the attempt up. *)
AttemptFails(t) ==
  /\ transport[t].at = "establishing" /\ transport[t].connector = "failed"
  /\ Become(t, Abort(t, [Here(t) EXCEPT !.me.connector = "none"], "connection_failed"))

(* The attempt's deadline: the runner inspects the running connector ... *)
DeadlinePasses(t) ==
  /\ transport[t].at = "establishing" /\ transport[t].connector = "running"
  /\ Become(t, Await(t, Here(t), "diagnosis", "diagnosing", transport[t].why))

(* ... cancels it, and observes it for a while (_async_cancel_connector). *)
Detach(s) == [MarkCleanup(s) EXCEPT !.me.detached = TRUE, !.me.at = "cancelling"]

(* The attempt is over: a connector that has ended meanwhile is released   *)
(* and its client closed; a running one is detached.                       *)
GiveUp(t, s, why) ==
  IF s.me.connector = "running" THEN Detach(s)
  ELSE Abort(t, [s EXCEPT !.me.connector = "none"], why)

Diagnosed(t) ==
  /\ transport[t].at = "diagnosing"
  /\ \E s \in Settled(t, Here(t), "diagnosis") :
       Become(t, GiveUp(t, s, "connection_timeout"))

(* After the tail of a deadline the late clean-up has the rest; after that *)
(* of a cancellation async_connect looks once more.                        *)
AfterTail(t, s) ==
  IF s.me.stopping /\ ~Pending(s.me) THEN Abort(t, s, "connection_cancelled")
  ELSE EndCycle(t, s)

(* Mutant: the runner waits until the cancelled connector has ended. *)
WaitForConnector(t) ==
  /\ transport[t].at = "cancelling" /\ ~Pending(transport[t])
  /\ Become(t, AfterTail(t, Here(t)))

StopWaiting(t) ==
  transport[t].at = "cancelling" /\ Become(t, AfterTail(t, Here(t)))

(***************************************************************************)
(* _async_cleanup_late_connector, a task of its own.                       *)
(***************************************************************************)
LateAwait(t, s, c, p) ==
  [s EXCEPT !.tasks = @ \cup {Call(t, c, s.me.token)}, !.me.late = p]

LateStarts(t) ==
  /\ transport[t].late = "ready" /\ Current(Here(t))
  /\ LET s == [Here(t) EXCEPT !.me.connector = "none", !.me.detached = FALSE] IN
     Become(t, IF s.me.connecting THEN LateAwait(t, s, "disconnect", "disconnecting")
               ELSE LateAwait(t, s, "close", "closing"))

LateDisconnected(t) ==
  /\ transport[t].late = "disconnecting"
  /\ \E s \in Settled(t, Here(t), "disconnect"), gone \in BOOLEAN :
       Become(t, [LateAwait(t, s, "close", "closing") EXCEPT
                    !.links = IF gone THEN @ \ {t} ELSE @])

(* Mutant: the late clean-up does not give the address back. *)
LateEndKeeping(t, s) == [Ended(t, s, "late") EXCEPT !.me.late = "none"]

(* The address is given back whether or not it was found clean. *)
LateEnd(t, s) == [Release(Ended(t, s, "late")) EXCEPT !.me.late = "none"]

LateClosed(t) ==
  /\ transport[t].late = "closing"
  /\ \E clean \in BOOLEAN, s \in Settled(t, Here(t), "close") :
       /\ clean => s = Ended(t, Here(t), "close")
       /\ Become(t, LateEnd(t, [s EXCEPT !.links = IF clean THEN {} ELSE @,
                                         !.me.connecting = @ /\ ~clean]))

(***************************************************************************)
(* The session and the shutdown.                                           *)
(***************************************************************************)
(* The session ends, perhaps with a subscription or a write still running. *)
LeaveSession(t, s) ==
  {EndCycle(t, r) : r \in {s} \cup
     (IF "session" \in Resistant THEN {Abandoned(t, s, "session")} ELSE {})}

SessionEnds(t) ==
  transport[t].at = "connected" /\ \E s \in LeaveSession(t, Here(t)) : Become(t, s)

(* async_shutdown cancels the runner wherever it waits.  The call that it  *)
(* waits for ends or stays behind; a clean-up gives the address back, an   *)
(* attempt under way is given up, and the end of the cycle follows unless  *)
(* the runner is already there.                                            *)
Unwound(s) == [s EXCEPT !.me.at = "unwound"]

Interrupted(t, s) ==
  CASE s.me.at = "idle" -> {Unwound(s), EndCycle(t, s)}
    [] s.me.at = "disconnecting" /\ s.me.why = "before_connection" ->
         {EndCycle(t, Release(r)) : r \in Settled(t, s, "disconnect")}
    [] s.me.at = "disconnecting" /\ s.me.why \in Aborts \ {"before_connection"} ->
         {EndCycle(t, r) : r \in Settled(t, s, "disconnect")}
    [] s.me.at = "disconnecting" /\ s.me.why \in Ends ->
         {Unwound(r) : r \in Settled(t, s, "disconnect")}
    [] s.me.at = "closing" /\ s.me.why \in Aborts ->
         {EndCycle(t, Release(r)) : r \in Settled(t, s, "close")}
    [] s.me.at = "closing" /\ s.me.why \in Ends ->
         {Unwound(Release(r)) : r \in Settled(t, s, "close")}
    [] s.me.at = "establishing" -> {GiveUp(t, s, "connection_cancelled")}
    [] s.me.at = "diagnosing" ->
         {GiveUp(t, r, "connection_cancelled") :
            r \in {Ended(t, s, "diagnosis"), Abandoned(t, s, "diagnosis")}}
    [] s.me.at = "cancelling" -> {AfterTail(t, s)}
    [] s.me.at = "connected" -> LeaveSession(t, s)
    [] OTHER -> {}

Shutdown(t) ==
  /\ ~transport[t].stopping
  /\ \E s \in Interrupted(t, [Here(t) EXCEPT !.me.stopping = TRUE]) : Become(t, s)

(* The runner is gone; async_shutdown disconnects and cleans up. *)
Stop(t) == transport[t].at = "unwound" /\ Become(t, End(t, Here(t), "shutdown"))

(***************************************************************************)
(* async_run_standalone_cleanup.                                           *)
(***************************************************************************)
BeginStandalone ==
  LET k == record.serial + 1 IN
  /\ standalone.token = NoToken /\ standalone.count < MaxStandalone
  /\ ~OwnedNow
  /\ record' = [serial |-> k, owner |-> Standalone, release |-> FALSE, cleanup |-> TRUE]
  /\ tasks' = tasks \cup {Call(Standalone, "close", k)}
  /\ standalone' = [token |-> k, count |-> standalone.count + 1]
  /\ UNCHANGED <<links, transport>>

EndStandalone ==
  LET x == Call(Standalone, "close", standalone.token) IN
  /\ standalone.token # NoToken
  /\ \/ tasks' = tasks \ {x}
     \/ "close" \in Resistant /\ tasks' = (tasks \ {x}) \cup {[x EXCEPT !.awaited = FALSE]}
  /\ record' = [record EXCEPT !.release = TRUE, !.cleanup = FALSE]
  /\ standalone' = [standalone EXCEPT !.token = NoToken]
  /\ UNCHANGED <<links, transport>>

(***************************************************************************)
(* The backend (external).                                                 *)
(***************************************************************************)
(* A call that nobody awaits any more ends after all. *)
TailEnds ==
  /\ \E x \in tasks : ~x.awaited /\ tasks' = tasks \ {x}
  /\ UNCHANGED <<record, links, transport, standalone>>

(* A connection drops, or an address-level close hits it. *)
LinkLost ==
  /\ \E t \in links : links' = links \ {t}
  /\ UNCHANGED <<record, tasks, transport, standalone>>

-----------------------------------------------------------------------------
Runner(t) ==
  \/ NoRoute(t) \/ Connect(t) \/ Disconnected(t) \/ CloseSucceeds(t) \/ CloseFails(t)
  \/ Adopt(t) \/ AttemptFails(t) \/ DeadlinePasses(t) \/ Diagnosed(t) \/ StopWaiting(t)
  \/ SessionEnds(t) \/ Stop(t)

Late(t) == LateStarts(t) \/ LateDisconnected(t) \/ LateClosed(t)

Next ==
  \/ \E t \in Transports :
       Runner(t) \/ Late(t) \/ Shutdown(t) \/ ConnectorLinks(t) \/ ConnectorEnds(t)
  \/ BeginStandalone \/ EndStandalone \/ TailEnds \/ LinkLost

Spec == Init /\ [][Next]_vars

(* Runners have timers for every wait, except that a session may last. *)
Waits(t) == Runner(t) /\ transport[t].at \notin {"idle", "connected"}

TimersSpec == Spec /\ \A t \in Transports : WF_vars(Waits(t))

(* Backend tasks end at last, and the tasks of the event loop go on. *)
BackendAnswers ==
  /\ WF_vars(TailEnds) /\ WF_vars(EndStandalone)
  /\ \A t \in Transports : WF_vars(Late(t)) /\ WF_vars(ConnectorEnds(t))

-----------------------------------------------------------------------------
TypeOK ==
  /\ record \in Record
  /\ tasks \subseteq Task
  /\ links \subseteq Transports
  /\ transport \in [Transports -> Transport]
  /\ standalone \in [token : Nat, count : Nat]

(* At most one adapter slot is used: no connector runs while a connection  *)
(* of an earlier owner is still there (async_connect and the verification  *)
(* in async_cleanup_stale_connection).                                     *)
OneLink == Cardinality(links) <= 1

(* A cycle begins with nothing left of the one before it, so that the      *)
(* disconnect and the "before_reconnect" clean-up at the top of            *)
(* async_connect find nothing to do.                                       *)
FreshStart ==
  \A t \in Transports :
    transport[t].at = "idle" =>
      /\ ~transport[t].client
      /\ Pending(transport[t]) \/ transport[t].token = NoToken

(* A connector and its late clean-up hold the address to the end, so that  *)
(* the late clean-up never finds its token stale, which would leave the    *)
(* transport unable to connect for ever.                                   *)
QuarantineHeld ==
  \A t \in Transports : Pending(transport[t]) => Current(Here(t))

(* The address is lent to one party at a time, and whoever takes it finds  *)
(* every backend task tracked under an earlier token ended (claim).        *)
Busy == {x.party : x \in {y \in tasks : y.token # NoToken}}
        \cup {t \in Transports : transport[t].at = "connected"}

Lease == INSTANCE AddressLease WITH
  holder <- IF OwnedNow THEN record.owner ELSE Nobody,
  busy <- Busy

ImplementsLease == Lease!Spec

(***************************************************************************)
(* Why the lease and the quarantine hold.                                  *)
(***************************************************************************)
(* A token that a party still has is that of the record, which nobody has  *)
(* asked to release; every tracked task runs under it.                     *)
Holds(r, p, k) == k # NoToken => k = r.serial /\ r.owner = p /\ ~r.release

TokenInv ==
  /\ record.serial = 0 => record.release
  /\ record.owner = Nobody => record.serial = 0
  /\ \A t \in Transports : Holds(record, t, transport[t].token)
  /\ Holds(record, Standalone, standalone.token)

Tracked(r, x) == x.token # NoToken => x.token = r.serial /\ x.party = r.owner

TaskInv == \A x \in tasks : Tracked(record, x)

(* A runner has the token wherever it uses the address; it gives it back   *)
(* only where neither a connector nor its late clean-up needs it.          *)
RunnerInv(m) ==
  /\ m.at \in {"closing", "establishing", "diagnosing", "connected"} \/ Pending(m)
       => m.token # NoToken
  /\ m.at \in {"closing", "connected"} => ~Pending(m)
  /\ m.at = "disconnecting" /\ m.why = "before_connection" => ~Pending(m)
  /\ m.at \in {"establishing", "diagnosing"} => m.late = "none" /\ ~m.detached
  /\ m.connector # "none" /\ ~m.detached => m.at \in {"establishing", "diagnosing"}
  /\ m.late \in {"disconnecting", "closing"} => m.connector = "none"
  /\ m.client <=> m.at = "connected"
  /\ m.token # NoToken => m.known
  /\ m.at = "idle" => Pending(m) \/ m.token = NoToken

LeaseInv ==
  /\ TypeOK /\ TokenInv /\ TaskInv
  /\ \A t \in Transports : RunnerInv(transport[t])

(* The inductive invariant behind OneLink: while a connector runs nobody   *)
(* else is linked, for it began after a verified close and keeps the       *)
(* address to itself.                                                      *)
LinkInv ==
  /\ \A t \in Transports : transport[t].connector = "running" => links \subseteq {t}
  /\ \A t, u \in links : t = u

(* A shutdown ends although the backend never answers. *)
ShutdownEnds ==
  \A t \in Transports : transport[t].stopping ~> transport[t].at = "stopped"

(* Once a transport has stopped, the address becomes free of it if the     *)
(* backend ever comes to rest.                                             *)
QuarantineEnds ==
  BackendAnswers =>
    \A t \in Transports :
      transport[t].at = "stopped" ~> ~(record.owner = t /\ OwnedNow)
=============================================================================
