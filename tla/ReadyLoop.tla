----------------------------- MODULE ReadyLoop -----------------------------
(***************************************************************************)
(* What the client does in a session besides commands (client.py,          *)
(* _async_ready_loop): the one-shot air-quality query that callers share   *)
(* and cancel (operations.py, AirQualityQueryController), the refresh that *)
(* the purifier asks for and that yields to commands and queries, and the  *)
(* poll.  The command lane is here only as work that waits, is taken and   *)
(* is withdrawn; CommandOperations models it.                              *)
(*                                                                         *)
(* The runner stands at "top" where the loop chooses; from there to its    *)
(* next wait nothing else runs, and callers released by it go on before it *)
(* does (asyncio resumes tasks in order).                                  *)
(***************************************************************************)
EXTENDS Naturals, Sequences, FiniteSets

CONSTANTS
  Callers,                      \* the tasks that query the air quality
  Requests,                     \* the refresh's requests, in order
  Essential,                    \* the one whose silence ends the session
  RefreshAttempts, PollAttempts,
  QueryTimeout,                 \* a query's deadline, from its creation
  PollInterval,
  MaxCalls, MaxCommands, MaxNotices, MaxSessions  \* bounds

ASSUME LoopAssumption ==
  /\ RefreshAttempts \in Nat \ {0} /\ PollAttempts \in Nat \ {0}
  /\ QueryTimeout \in Nat \ {0} /\ PollInterval \in Nat \ {0} /\ MaxCalls \in Nat
  /\ MaxCommands \in Nat /\ MaxNotices \in Nat /\ MaxSessions \in Nat
  /\ Requests \in Seq(STRING)

None == 0
Queries == 1 .. MaxCalls      \* a call makes at most one query

VARIABLES
  session,      \* _session_generation
  linked,       \* ~_disconnected
  runner,       \* what the runner does, or waits for
  left,         \* sends left in its transaction
  pending,      \* commands that wait
  wake,         \* _operation_event
  struck,       \* an event came before, or during, the refresh's wait for an answer
  lane,         \* [request, event, made, of]: AirQualityQueryController
  callers,      \* [at, on]: where a caller is, with which query
  barrier,      \* the query whose end async_cancel_air_quality_query awaits
  wanted,       \* _refresh_pending
  resume,       \* _refresh_resume_requests
  sweep,        \* the requests that a running refresh has before it
  failed,       \* _refresh_failure_summaries
  due,          \* the time until the next poll
  stop,         \* async_shutdown: "no", "asked", "done"
  captured,     \* the query that the shutdown awaits
  made,         \* calls, commands accepted and notices received so far
  (* history *)
  asked,        \* [request, answered]: what this refresh has asked, in order
  behind        \* sends of other work since a command waits

refreshVars == <<wanted, resume, sweep, failed, asked>>
laneVars == <<lane, callers, barrier>>
stopVars == <<stop, captured>>
vars == <<session, linked, runner, left, pending, wake, struck, laneVars, refreshVars,
          due, stopVars, made, behind>>

Least(a, b) == IF a < b THEN a ELSE b
Most(a, b) == IF a < b THEN b ELSE a

Init ==
  /\ session = 0 /\ linked = FALSE /\ runner = "away" /\ left = 0
  /\ pending = 0 /\ wake = FALSE /\ struck = "no"
  /\ lane = [request |-> None, event |-> FALSE, made |-> 0,
             of |-> [q \in Queries |-> [gen |-> 0, age |-> 0, answer |-> "no",
                                        active |-> FALSE, quiesced |-> FALSE]]]
  /\ callers = [c \in Callers |-> [at |-> "out", on |-> None]] /\ barrier = None
  /\ wanted = FALSE /\ resume = <<>> /\ sweep = <<>> /\ failed = {} /\ asked = <<>>
  /\ due = 0 /\ stop = "no" /\ captured = None
  /\ made = [calls |-> 0, commands |-> 0, notices |-> 0] /\ behind = 0

-----------------------------------------------------------------------------
(* AirQualityQueryController.  A query that failed is one whose            *)
(* cancel_event is set; the deadline and the generation of one that was    *)
(* released are not read again.                                            *)

(* Mutant: nobody is told.                                                 *)
ReleasedUntold(l, q) ==
  [l EXCEPT !.of[q].active = FALSE,
            !.request = IF l.request = q /\ l.of[q].answer # "no" THEN None ELSE @]

Released(l, q) ==
  LET owned == l.request = q /\ l.of[q].answer # "no"
  IN [l EXCEPT !.of[q] = [@ EXCEPT !.active = FALSE, !.quiesced = TRUE, !.age = 0, !.gen = 0],
               !.request = IF owned THEN None ELSE @, !.event = @ /\ ~owned]

Settled(l, q, answer) ==
  [l EXCEPT !.of[q].answer = IF @ = "no" THEN answer ELSE @]

(* Mutant: an active query is released before its owner has stopped.       *)
FailedReleased(l, q) == Released(Settled(l, q, "error"), q)

Failed(l, q) ==
  IF l.of[q].active THEN Settled(l, q, "error") ELSE Released(Settled(l, q, "error"), q)

(* cancel and disconnect.                                                  *)
Dropped(l) ==
  IF l.request # None /\ l.of[l.request].answer = "no" THEN Failed(l, l.request) ELSE l

(* acquire: join the current query, be refused while it is torn down, or   *)
(* make a new one.                                                         *)
Joined(l) == l.request # None /\ l.of[l.request].answer = "no" /\ l.of[l.request].gen = session
Refused(l) == l.request # None

Acquire(c, l) ==
  IF Joined(l)
  THEN lane' = l /\ callers' = [callers EXCEPT ![c] = [at |-> "waiting", on |-> l.request]]
  ELSE LET free == IF l.request # None /\ l.of[l.request].answer = "no" THEN Dropped(l) ELSE l
           q == free.made + 1
       IN IF Refused(free)
          THEN lane' = free /\ callers' = [callers EXCEPT ![c] = [at |-> "refused", on |-> None]]
          ELSE /\ lane' = [free EXCEPT !.request = q, !.event = TRUE, !.made = q,
                                       !.of[q].gen = session]
               /\ callers' = [callers EXCEPT ![c] = [at |-> "waiting", on |-> q]]

-----------------------------------------------------------------------------
(* The callers.                                                            *)

Others == <<session, linked, runner, left, pending, wake, refreshVars, due, stopVars, behind>>

(* The runner's waits end when the events they look at are set.            *)
Asks == runner = "asking"
Strike(set) == struck' = IF Asks /\ set /\ struck = "no" THEN "late" ELSE struck

MayCall(c) ==
  /\ runner \notin {"top", "away", "connecting", "stopped"} /\ stop = "no"
  /\ callers[c].at = "out" /\ made.calls < MaxCalls
  /\ made' = [made EXCEPT !.calls = @ + 1]

(* Mutant: a query that is being torn down is not awaited.                 *)
QueryAtOnce(c) ==
  /\ MayCall(c) /\ Acquire(c, lane)
  /\ Strike(lane'.event) /\ UNCHANGED <<barrier, Others>>

(* async_query_air_quality: a query that is being torn down is awaited.    *)
Query(c) ==
  /\ MayCall(c)
  /\ LET q == lane.request
         l == IF q # None /\ lane.of[q].gen # session THEN Dropped(lane) ELSE lane
     IN IF q # None /\ l.of[q].answer # "no"
        THEN lane' = l /\ callers' = [callers EXCEPT ![c] = [at |-> "tearing", on |-> q]]
        ELSE Acquire(c, l)
  /\ Strike(lane'.event) /\ UNCHANGED <<barrier, Others>>

Resumes(c) == callers[c].at = "tearing" /\ lane.of[callers[c].on].quiesced

TornDown(c) ==
  /\ runner # "top" /\ Resumes(c) /\ Acquire(c, lane)
  /\ Strike(lane'.event) /\ UNCHANGED <<barrier, made, Others>>

(* The query is answered, or its deadline passes, or the caller is         *)
(* cancelled and leaves the query to the others.                           *)
Returns(c) ==
  /\ runner # "top" /\ callers[c].at = "waiting"
  /\ lane.of[callers[c].on].answer # "no"
  /\ callers' = [callers EXCEPT ![c] = [at |-> "out", on |-> None]]
  /\ UNCHANGED <<struck, lane, barrier, made, Others>>

TimesOut(c) ==
  /\ runner # "top" /\ callers[c].at = "waiting"
  /\ lane.of[callers[c].on].age = QueryTimeout
  /\ lane' = IF lane.of[callers[c].on].answer = "no" THEN Failed(lane, callers[c].on) ELSE lane
  /\ callers' = [callers EXCEPT ![c] = [at |-> "out", on |-> None]]
  /\ UNCHANGED <<struck, barrier, made, Others>>

Leaves(c) ==
  /\ runner # "top" /\ callers[c].at \in {"waiting", "tearing"}
  /\ callers' = [callers EXCEPT ![c] = [at |-> "out", on |-> None]]
  /\ UNCHANGED <<struck, lane, barrier, made, Others>>

(* async_cancel_air_quality_query.                                         *)
Cancel ==
  /\ runner # "top" /\ barrier = None /\ lane.request # None
  /\ lane' = Dropped(lane) /\ barrier' = lane.request
  /\ UNCHANGED <<struck, callers, made, Others>>

Cancelled ==
  /\ runner # "top" /\ barrier # None /\ lane.of[barrier].quiesced /\ barrier' = None
  /\ UNCHANGED <<struck, lane, callers, made, Others>>

-----------------------------------------------------------------------------
(* Time, commands, the link, shutdown.                                     *)

(* What was set free goes on before the runner does, and before time.      *)
Resuming ==
  \/ barrier # None /\ lane.of[barrier].quiesced
  \/ \E c \in Callers :
       Resumes(c) \/ (callers[c].at = "waiting" /\ lane.of[callers[c].on].answer # "no")
Overdue ==
  /\ lane.request # None /\ lane.of[lane.request].answer = "no"
  /\ lane.of[lane.request].age = QueryTimeout

(* A query that nobody awaits any more is failed when the runner takes it, *)
(* at the end of the session or never; its age stops.                      *)
Awaited(q) == lane.of[q].active \/ \E c \in Callers : callers[c] = [at |-> "waiting", on |-> q]

Tick ==
  /\ runner # "top" /\ ~Resuming /\ ~(Overdue /\ Awaited(lane.request))
  /\ ~(runner = "idle" /\ due = 0)
  /\ due' = IF due = 0 THEN 0 ELSE due - 1
  /\ lane' = IF lane.request = None THEN lane
             ELSE [lane EXCEPT !.of[lane.request].age = Least(@ + 1, QueryTimeout)]
  /\ UNCHANGED <<session, linked, runner, left, pending, wake, struck, callers, barrier,
                 refreshVars, stopVars, made, behind>>

Accept ==
  /\ runner # "top" /\ stop = "no" /\ made.commands < MaxCommands
  /\ made' = [made EXCEPT !.commands = @ + 1] /\ pending' = pending + 1 /\ wake' = TRUE
  /\ Strike(TRUE)
  /\ UNCHANGED <<session, linked, runner, left, laneVars, refreshVars, due, stopVars, behind>>

(* A command that waits is cancelled, superseded or expires.               *)
Withdraw ==
  /\ runner # "top" /\ pending > 0 /\ pending' = pending - 1
  /\ wake' = (wake /\ pending > 1) /\ behind' = (IF pending = 1 THEN 0 ELSE behind)
  /\ UNCHANGED <<session, linked, runner, left, struck, laneVars, refreshVars, due, stopVars,
                 made>>

LinkDrops ==
  /\ runner # "top" /\ linked /\ linked' = FALSE /\ lane' = Dropped(lane)
  /\ UNCHANGED <<session, runner, left, pending, wake, struck, callers, barrier, refreshVars,
                 due, stopVars, made, behind>>

(* The runner does nothing more until its cancellation, and no call is     *)
(* accepted: its variables and the bounds are not read again.              *)
Shutdown ==
  /\ runner # "top" /\ stop = "no" /\ stop' = "asked"
  /\ captured' = lane.request /\ lane' = Dropped(lane) /\ wake' = TRUE
  /\ left' = 0 /\ struck' = "no" /\ due' = 0 /\ behind' = 0
  /\ wanted' = FALSE /\ resume' = <<>> /\ sweep' = <<>> /\ failed' = {} /\ asked' = <<>>
  /\ made' = [calls |-> MaxCalls, commands |-> MaxCommands, notices |-> MaxNotices]
  /\ UNCHANGED <<session, linked, runner, pending, callers, barrier>>

(* The runner is cancelled wherever it waits and releases what it owns.    *)
RunnerStops ==
  /\ stop = "asked" /\ runner \notin {"top", "stopped"} /\ runner' = "stopped"
  /\ lane' = IF runner = "query" THEN Released(Failed(lane, lane.request), lane.request) ELSE lane
  /\ UNCHANGED <<session, linked, left, pending, wake, struck, callers, barrier,
                 refreshVars, due, stopVars, made, behind>>

ShutDown ==
  /\ stop = "asked" /\ runner = "stopped" /\ stop' = "done"
  /\ (captured # None => lane.of[captured].quiesced)
  /\ pending' = 0 /\ captured' = None
  /\ UNCHANGED <<session, linked, runner, left, wake, struck, laneVars, refreshVars, due,
                 made, behind>>

-----------------------------------------------------------------------------
(* The session.                                                            *)

(* The runner goes on; what its loop does not touch stays as it is.        *)
Runs(from) == runner = from /\ ~Resuming /\ stop = "no"
Fixed == <<session, linked, callers, barrier, stopVars>>

BeginCycle ==
  /\ Runs("away") /\ session < MaxSessions
  /\ session' = session + 1 /\ linked' = TRUE /\ runner' = "connecting"
  /\ lane' = Dropped(lane)
  /\ wanted' = FALSE /\ resume' = <<>> /\ sweep' = <<>> /\ failed' = {} /\ asked' = <<>>
  /\ UNCHANGED <<left, pending, wake, struck, callers, barrier, due, stopVars, made, behind>>

Ready ==
  /\ Runs("connecting") /\ linked /\ runner' = "top" /\ due' = PollInterval
  /\ UNCHANGED <<Fixed, left, pending, wake, struck, lane, refreshVars, made, behind>>

QueryWaits ==
  /\ lane.request # None /\ lane.of[lane.request].answer = "no"
  /\ lane.of[lane.request].gen = session

Works == pending > 0 \/ QueryWaits

(* The start-up fails, or a wait or a send finds the link gone.            *)
CycleFails ==
  /\ \/ Runs("connecting") /\ runner' = "away"
     \/ /\ ~linked /\ runner' = "cleanup"
        /\ \/ \E r \in {"idle", "asking", "poll"} : Runs(r)
           \/ (Runs("pause") \/ Runs("gap")) /\ ~Works
  /\ left' = 0 /\ struck' = "no"
  /\ UNCHANGED <<Fixed, pending, wake, lane, refreshVars, due, made, behind>>

(* Until its clean-up is done the client's status is still READY.          *)
CleanedUp ==
  /\ Runs("cleanup") /\ runner' = "away"
  /\ UNCHANGED <<Fixed, left, pending, wake, struck, lane, refreshVars, due, made, behind>>

(* Mutant: discard_expired leaves the event set.                           *)
DiscardKeeps == UNCHANGED wake

(* discard_expired, at every turn of the loop.                             *)
Discard == wake' = (wake /\ pending > 0)

Takes == runner = "top" /\ Discard /\ UNCHANGED Fixed

TakeCommand ==
  /\ Takes /\ pending > 0 /\ pending' = pending - 1 /\ runner' = "command"
  /\ behind' = 0
  /\ UNCHANGED <<left, struck, lane, refreshVars, due, made>>

(* A command ends, with an answer or in a way that ends the session.       *)
CommandEnds(next) ==
  /\ Runs("command") /\ (~linked => next = "cleanup") /\ runner' = next
  /\ UNCHANGED <<Fixed, left, pending, wake, struck, lane, refreshVars, due, made, behind>>

(* take.                                                                   *)
Taken ==
  LET q == lane.request
  IN CASE q = None -> lane
       [] q # None /\ (lane.of[q].answer # "no" \/ lane.of[q].active) -> lane
       [] q # None /\ lane.of[q].answer = "no" /\ ~lane.of[q].active ->
            IF lane.of[q].gen # session \/ lane.of[q].age >= QueryTimeout THEN Failed(lane, q)
            ELSE [lane EXCEPT !.of[q].active = TRUE, !.event = FALSE]
Activates == Taken.request # None /\ Taken.of[Taken.request].active

(* Mutant: a query is taken before a command.                              *)
TakeQueryFirst ==
  /\ Takes /\ Activates /\ lane' = Taken /\ runner' = "query" /\ left' = 1
  /\ UNCHANGED <<pending, struck, refreshVars, due, made, behind>>

TakeQuery ==
  /\ Takes /\ pending = 0 /\ Activates /\ lane' = Taken /\ runner' = "query" /\ left' = 1
  /\ UNCHANGED <<pending, struck, refreshVars, due, made, behind>>

(* The transaction's task starts to send.                                  *)
QuerySends ==
  /\ Runs("query") /\ left = 1 /\ linked /\ left' = 0
  /\ behind' = IF pending > 0 THEN behind + 1 ELSE behind
  /\ UNCHANGED <<Fixed, runner, pending, wake, struck, lane, refreshVars, due, made>>

(* The query is answered, yields to a command, stays silent, loses its     *)
(* link, or finds itself failed by another; then it is released.           *)
QueryEnds(answer) ==
  /\ Runs("query")
  /\ LET q == lane.request
         settled == Settled(lane, q, IF answer = "answered" THEN "answer" ELSE "error")
     IN /\ CASE answer = "answered"  -> left = 0 /\ linked
            [] answer = "preempted" -> left = 0 /\ wake
            [] answer = "silent"    -> lane.of[q].age = QueryTimeout
            [] answer = "lost"      -> ~linked
            [] answer = "failed"    -> lane.of[q].answer # "no"
        /\ lane' = Released(settled, q)
  /\ runner' = "top" /\ left' = 0
  /\ UNCHANGED <<Fixed, pending, wake, struck, refreshVars, due, made, behind>>

-----------------------------------------------------------------------------
(* The refresh.                                                            *)

StartRefresh ==
  /\ Takes /\ pending = 0 /\ ~Activates /\ lane' = Taken /\ wanted /\ runner' = "pause"
  /\ UNCHANGED <<left, pending, struck, refreshVars, due, made, behind>>

(* Mutant: the interrupted request is not asked again.                     *)
DeferNext(rest) ==
  /\ resume' = Tail(rest) /\ wanted' = TRUE /\ sweep' = <<>> /\ runner' = "top"

Defer(rest) ==
  /\ resume' = rest /\ wanted' = TRUE /\ sweep' = <<>> /\ runner' = "top"

Before == IF wake \/ lane.event THEN "early" ELSE "no"

(* A profile may list no request: that refresh is over at once.            *)
AsksNothing ==
  /\ resume' = <<>> /\ wanted' = FALSE /\ sweep' = <<>> /\ runner' = "top"

(* The next request is sent, unless other work waits.                      *)
NextRequest(rest) ==
  IF Works \/ rest = <<>>
  THEN /\ IF rest = <<>> THEN AsksNothing ELSE Defer(rest)
       /\ UNCHANGED <<left, struck>>
  ELSE /\ linked /\ sweep' = rest /\ resume' = <<>> /\ wanted' = FALSE /\ runner' = "asking"
       /\ left' = RefreshAttempts - 1 /\ struck' = Before

(* _async_run_refresh begins a sweep or resumes one.                       *)
Refresh ==
  /\ Runs("pause")
  /\ IF resume # <<>> THEN UNCHANGED <<failed, asked>> ELSE failed' = {} /\ asked' = <<>>
  /\ NextRequest(IF resume # <<>> THEN resume ELSE Requests)
  /\ UNCHANGED <<Fixed, pending, wake, lane, due, made, behind>>

NextInSweep ==
  /\ Runs("gap") /\ NextRequest(sweep)
  /\ UNCHANGED <<Fixed, pending, wake, lane, failed, due, made, asked, behind>>

(* The wait for an answer ends for a command or a query.                   *)
Yields ==
  /\ Runs("asking") /\ struck # "no" /\ Defer(sweep) /\ left' = 0 /\ struck' = "no"
  /\ UNCHANGED <<Fixed, pending, wake, lane, failed, due, made, asked, behind>>

(* An attempt times out just when a command comes, or without one.         *)
AsksAgain ==
  /\ Runs("asking") /\ linked /\ struck # "early" /\ left > 0 /\ left' = left - 1 /\ struck' = Before
  /\ behind' = IF pending > 0 THEN behind + 1 ELSE behind
  /\ UNCHANGED <<Fixed, runner, pending, wake, lane, refreshVars, due, made>>

(* A request is answered or exhausted; an essential one that is exhausted  *)
(* ends the session.                                                       *)
Asked(answered) ==
  /\ Runs("asking") /\ linked /\ (answered \/ (left = 0 /\ struck # "early"))
  /\ failed' = IF answered THEN failed ELSE failed \cup {Head(sweep)}
  /\ asked' = Append(asked, [request |-> Head(sweep), answered |-> answered])
  /\ sweep' = Tail(sweep)
  /\ runner' = IF ~answered /\ Head(sweep) = Essential THEN "cleanup"
               ELSE IF Tail(sweep) = <<>> THEN "top" ELSE "gap"
  /\ left' = 0 /\ struck' = "no"
  /\ UNCHANGED <<Fixed, pending, wake, lane, wanted, resume, due, made, behind>>

-----------------------------------------------------------------------------
(* The poll, and the wait for work.                                        *)

StartPoll ==
  /\ Takes /\ pending = 0 /\ ~Activates /\ lane' = Taken /\ ~wanted /\ due = 0 /\ linked
  /\ runner' = "poll" /\ left' = PollAttempts - 1 /\ due' = PollInterval
  /\ UNCHANGED <<pending, struck, refreshVars, made, behind>>

PollAgain ==
  /\ Runs("poll") /\ linked /\ left > 0 /\ left' = left - 1 /\ due' = PollInterval
  /\ behind' = IF pending > 0 THEN behind + 1 ELSE behind
  /\ UNCHANGED <<Fixed, runner, pending, wake, struck, lane, refreshVars, made>>

PollEnds(next) ==
  /\ Runs("poll") /\ linked /\ (next = "cleanup" => left = 0)
  /\ runner' = next /\ left' = 0
  /\ UNCHANGED <<Fixed, pending, wake, struck, lane, refreshVars, due, made, behind>>

(* A poll on a link that is gone fails at once.                            *)
Idle ==
  /\ Takes /\ pending = 0 /\ ~Activates /\ lane' = Taken /\ ~wanted
  /\ runner' = IF due = 0 /\ ~linked THEN "cleanup" ELSE "idle"
  /\ due = 0 => ~linked
  /\ UNCHANGED <<left, pending, struck, refreshVars, due, made, behind>>

IdleEnds ==
  /\ Runs("idle") /\ linked /\ (wake \/ lane.event \/ due = 0)
  /\ wake' = FALSE /\ runner' = "top"
  /\ UNCHANGED <<Fixed, left, pending, struck, lane, refreshVars, due, made, behind>>

(* The purifier asks for a refresh: it is remembered unless one runs.      *)
Notice ==
  /\ \E r \in {"idle", "command", "query", "poll", "asking"} : Runs(r)
  /\ linked /\ made.notices < MaxNotices
  /\ made' = [made EXCEPT !.notices = @ + 1]
  /\ wanted' = (wanted \/ runner # "asking")
  /\ runner' = IF runner = "idle" THEN "top" ELSE runner
  /\ wake' = (wake /\ runner # "idle")
  /\ UNCHANGED <<Fixed, left, pending, struck, lane, resume, sweep, failed, due, asked, behind>>

-----------------------------------------------------------------------------
Answers == {"answered", "preempted", "silent", "lost", "failed"}
Ends == {"top", "cleanup"}

Top == TakeCommand \/ TakeQuery \/ StartRefresh \/ StartPoll \/ Idle
Asking == Yields \/ AsksAgain \/ \E a \in BOOLEAN : Asked(a)
Polling == PollAgain \/ \E n \in Ends : PollEnds(n)
Runner ==
  \/ BeginCycle \/ Ready \/ CycleFails \/ CleanedUp \/ Top \/ (\E n \in Ends : CommandEnds(n))
  \/ QuerySends \/ (\E a \in Answers : QueryEnds(a))
  \/ Refresh \/ NextInSweep \/ Asking \/ Polling \/ IdleEnds
Caller(c) == Query(c) \/ TornDown(c) \/ Returns(c) \/ TimesOut(c) \/ Leaves(c)

Next ==
  \/ Runner \/ Notice \/ (\E c \in Callers : Caller(c)) \/ Cancel \/ Cancelled
  \/ Tick \/ Accept \/ Withdraw \/ LinkDrops \/ Shutdown \/ RunnerStops \/ ShutDown

Spec == Init /\ [][Next]_vars

(* Time passes and what can go on goes on; every wait has its deadline.    *)
FairSpec ==
  /\ Spec /\ WF_vars(Tick) /\ WF_vars(Runner) /\ WF_vars(Cancelled)
  /\ WF_vars(RunnerStops) /\ WF_vars(ShutDown)
  /\ \A c \in Callers : WF_vars(TornDown(c)) /\ WF_vars(Returns(c) \/ TimesOut(c))

-----------------------------------------------------------------------------
(* The query that is on the air is the one that the controller owns, so    *)
(* that callers join it or wait for it, and no second one is begun beside  *)
(* it, whoever cancels, times out or disconnects it (operations.py, fail   *)
(* and release).                                                           *)
OneOnAir ==
  \A q \in Queries : lane.of[q].active <=> (runner = "query" /\ lane.request = q)

(* No caller meets a query that is being torn down, however calls,         *)
(* cancellations, timeouts and disconnections alternate: the RuntimeError  *)
(* of acquire is not reached (operations.py:94).                           *)
NeverRefused == \A c \in Callers : callers[c].at # "refused"

(* While a command waits, at most one frame of other work is written, or   *)
(* the retries of a poll that was under way (client.py, _async_ready_loop, *)
(* _async_run_refresh, _async_execute_air_quality_query).                  *)
CommandsGoFirst == behind <= Most(1, PollAttempts - 1)

(* A refresh that yields, however often, asks each of its requests once    *)
(* and in their order: what it has asked and what it has before it are all *)
(* of them (client.py, _defer_refresh).                                    *)
Ahead == IF runner \in {"asking", "gap"} THEN sweep ELSE resume
SweepIsWhole ==
  runner \notin {"cleanup", "away", "connecting", "stopped"} /\ asked # <<>>
    => [i \in DOMAIN asked |-> asked[i].request] \o Ahead = Requests

(* Once calls, commands and notices cease, every call has ended: a         *)
(* caller's query, the wait of one that cancels it, and a shutdown         *)
(* (client.py, async_query_air_quality, async_cancel_air_quality_query,    *)
(* async_shutdown).                                                        *)
CallsEnd ==
  <>[](barrier = None /\ stop # "asked" /\ \A c \in Callers : callers[c].at = "out")

(* A refresh that is wanted is done once commands and queries leave it the *)
(* time, unless the session ends (client.py, _async_ready_loop).           *)
RefreshEnds == <>[](wanted => runner \in {"cleanup", "away", "stopped"})

(***************************************************************************)
(* The inductive invariant behind OneOnAir and NeverRefused, in parts.     *)
(***************************************************************************)

Runners == {"away", "connecting", "top", "command", "query", "pause", "asking", "gap",
            "poll", "idle", "cleanup", "stopped"}

Lanes ==
  [request : 0 .. MaxCalls, event : BOOLEAN, made : 0 .. MaxCalls,
   of : [Queries -> [gen : Nat, age : Nat, answer : {"no", "answer", "error"},
                     active : BOOLEAN, quiesced : BOOLEAN]]]

(* The query that the controller owns is open or on the air, and not       *)
(* released; every other one that was made is settled.                     *)
Owned(l, querying) ==
  /\ l \in Lanes /\ l.request <= l.made
  /\ querying => l.request # None
  /\ \A q \in Queries :
       /\ l.of[q].active <=> querying /\ l.request = q
       /\ l.request = q => (l.of[q].answer = "no" \/ querying) /\ ~l.of[q].quiesced
       /\ l.request # q /\ q <= l.made => l.of[q].answer # "no"
       /\ l.made < q => l.of[q].answer = "no" /\ ~l.of[q].quiesced

(* Callers await queries that were made.                                   *)
CallersInv ==
  callers \in [Callers -> [at : {"out", "waiting", "tearing"}, on : 0 .. MaxCalls]]
  /\ \A c \in Callers : callers[c].at # "out" => callers[c].on \in 1 .. lane.made

(* A call that waits for a query to be torn down has not made its own.     *)
Tearing == {c \in Callers : callers[c].at = "tearing"}
Counters == [calls : 0 .. MaxCalls, commands : Nat, notices : Nat]
CallsInv ==
  /\ IsFiniteSet(Tearing) /\ made \in Counters
  /\ lane.made + Cardinality(Tearing) <= made.calls

(* While a caller that waited goes on, the query it finds is open and not  *)
(* yet taken; where the loop chooses, there is none.                       *)
ResumeInv ==
  (\E c \in Callers : Resumes(c)) => runner # "query" /\ (runner = "top" => lane.request = None)

LoopInv ==
  /\ runner \in Runners /\ session \in Nat
  /\ Owned(lane, runner = "query") /\ CallersInv /\ CallsInv /\ ResumeInv

(***************************************************************************)
(* The inductive invariants behind CommandsGoFirst and SweepIsWhole.       *)
(***************************************************************************)

(* What has been written since a command waits, and what may still be: one *)
(* query, one attempt of a refresh that was not struck in time, the        *)
(* attempts left of a poll.  In each of them a command that waits has set  *)
(* the wake event.                                                         *)
BehindInv ==
  /\ pending \in Nat /\ left \in Nat /\ behind \in 0 .. Most(1, PollAttempts - 1)
  /\ pending = 0 => behind = 0
  /\ stop # "no" => behind = 0 /\ runner # "top"
  /\ runner \in {"query", "pause", "asking", "gap", "poll"} /\ pending > 0 => wake
  /\ runner = "query" => behind + left <= 1
  /\ runner = "asking" /\ struck # "early" => behind = 0
  /\ runner = "poll" => behind + left <= PollAttempts - 1

(* A refresh that has begun has its requests behind it and before it; one  *)
(* that runs keeps them in its sweep, one that yielded in the resume list. *)
SweepInv ==
  /\ sweep \in Seq(STRING) /\ resume \in Seq(STRING)
  /\ asked \in Seq([request : STRING, answered : BOOLEAN])
  /\ runner \in {"asking", "gap"} => resume = <<>> /\ (stop = "no" => sweep # <<>>)
  /\ runner = "connecting" => asked = <<>> /\ resume = <<>>
  /\ runner \notin {"cleanup", "away", "connecting", "stopped"}
       /\ (asked # <<>> \/ Ahead # <<>>)
       => [i \in DOMAIN asked |-> asked[i].request] \o Ahead = Requests
=============================================================================
