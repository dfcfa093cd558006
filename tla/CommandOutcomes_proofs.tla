----------------------- MODULE CommandOutcomes_proofs -----------------------
(***************************************************************************)
(* What the command lane promises to its callers, for every value of its   *)
(* constants: a confirmed mode was the purifier's, and the lane implements *)
(* the abstract command service.                                           *)
(***************************************************************************)
EXTENDS CommandOperations_proofs

(***************************************************************************)
(* A fan command is confirmed only by a mode of this session.              *)
(***************************************************************************)

(* Without its first element a queue holds what it held before.            *)
LEMMA TailHolds ==
  ASSUME NEW S, NEW s \in Seq(S), s # <<>>
  PROVE  /\ Head(s) = s[1] /\ 1 \in 1 .. Len(s)
         /\ \A i \in 1 .. Len(Tail(s)) : Tail(s)[i] = s[i + 1] /\ i + 1 \in 1 .. Len(s)
BY HeadTailProperties

(* The frames at the heads of the queues are witnessed, and a queue that   *)
(* lost its first frame keeps its part of the invariant.                   *)
Lawful(s, g) == \A i \in 1 .. Len(s) : s[i].generation <= g /\ Witnessed(s[i])
Current(s, g) == \A i \in 1 .. Len(s) : s[i].generation = g /\ Witnessed(s[i])

LEMMA HeadsWitnessed ==
  ASSUME TypeInv, SessionInv
  PROVE  /\ air # <<>> => Witnessed(Head(air)) /\ Lawful(Tail(air), generation)
         /\ rx # <<>> => /\ Head(rx).generation = generation /\ Witnessed(Head(rx))
                         /\ Current(Tail(rx), generation)
         /\ Lawful(air, generation) /\ Current(rx, generation)
<1>1. air \in Seq(Frames) /\ rx \in Seq(Frames)
  BY DEF TypeInv, TypeOK
<1>2. Lawful(air, generation) /\ Current(rx, generation)
  BY DEF SessionInv, FrameInv, Lawful, Current
<1>3. air # <<>> => Witnessed(Head(air)) /\ Lawful(Tail(air), generation)
  BY <1>1, <1>2, TailHolds DEF Lawful
<1>4. rx # <<>> => /\ Head(rx).generation = generation /\ Witnessed(Head(rx))
                   /\ Current(Tail(rx), generation)
  BY <1>1, <1>2, TailHolds DEF Current
<1> QED
  BY <1>2, <1>3, <1>4

(* The variables that the invariant reads, apart from the runner's.        *)
seenVars == <<generation, rx, air, seen, fanMode, device, disconnected>>

(* A step that leaves them alone, and neither begins a session nor matches *)
(* a response, keeps the invariant.                                        *)
LEMMA SessionUntouched ==
  ASSUME SessionInv, UNCHANGED seenVars,
         runner' \in Connected => runner \in Connected,
         runner' # "connecting",
         runner' = "matched" => runner = "matched" /\ active' = active /\ command' = command
  PROVE  SessionInv'
<1>1. FrameInv'
  BY DEF SessionInv, FrameInv, Witnessed, seenVars
<1>2. CacheInv'
  BY DEF SessionInv, CacheInv, LinkUp, seenVars
<1>3. MatchInv'
  BY DEF SessionInv, MatchInv, seenVars
<1> QED
  BY <1>1, <1>2, <1>3 DEF SessionInv

(* The same of a step that leaves the runner where it is.                  *)
LEMMA RunnerUntouched ==
  ASSUME SessionInv, UNCHANGED <<seenVars, runner>>,
         runner = "matched" => active' = active /\ command'[active] = command[active]
  PROVE  SessionInv'
<1>1. FrameInv'
  BY DEF SessionInv, FrameInv, Witnessed, seenVars
<1>2. CacheInv'
  BY DEF SessionInv, CacheInv, LinkUp, seenVars
<1>3. MatchInv'
  BY DEF SessionInv, MatchInv, seenVars
<1> QED
  BY <1>1, <1>2, <1>3 DEF SessionInv

(* Nothing was seen before the first session.                              *)
LEMMA SessionInit == Init => SessionInv
<1> SUFFICES ASSUME Init
             PROVE  SessionInv
  OBVIOUS
<1>1. air = <<>> /\ rx = <<>> /\ runner = "start" /\ fanMode = NoMode
  BY DEF Init
<1>2. FrameInv
  BY <1>1 DEF FrameInv
<1>3. CacheInv /\ MatchInv
  BY <1>1 DEF CacheInv, MatchInv, LinkUp, Connected, Executing
<1> QED
  BY <1>2, <1>3 DEF SessionInv

(* Callers, and the runner while it takes, sends and gives up operations.  *)
LEMMA SessionCallers ==
  ASSUME TypeInv, LaneInv, SessionInv,
         \/ \E c \in Commands : Execute(c)
         \/ \E o \in Ops : CallerStep(o) \/ Expire(o)
         \/ Shutdown
  PROVE  SessionInv'
<1>1. ASSUME NEW c \in Commands, Execute(c)
      PROVE  SessionInv'
  <2>1. active # NoOp => active <= lastOp /\ active \in Ops
    BY DEF LaneInv, DequeInv, TypeInv, TypeOK
  <2>2. runner = "matched" => active # NoOp
    BY DEF LaneInv, ExecutionInv, Executing
  <2>3. runner = "matched" => active' = active /\ command'[active] = command[active]
    BY <1>1, <2>1, <2>2 DEF Execute, Ops, TypeInv, TypeOK
  <2> QED
    BY <1>1, <2>3, RunnerUntouched DEF Execute, seenVars, sessVars, linkVars
<1>2. ASSUME NEW o \in Ops, CallerStep(o) \/ Expire(o)
      PROVE  SessionInv'
  BY <1>2, RunnerUntouched DEF CallerStep, CallerTimesOut, CallerCancelled, Cancel,
     CallerResumes, CallerReturns, Expire, seenVars, sessVars, linkVars, queueVars
<1>3. ASSUME Shutdown
      PROVE  SessionInv'
  BY <1>3, RunnerUntouched DEF Shutdown, seenVars, linkVars, opVars
<1> QED
  BY <1>1, <1>2, <1>3

(* The runner at its work, without a frame.                                *)
LEMMA SessionRunner ==
  ASSUME TypeInv, LaneInv, SessionInv,
         \/ \E o \in Ops : \/ TakeNext(o) \/ Transmit(o) \/ TransmitFails(o)
                           \/ StaySilent(o) \/ LoseChannel(o) \/ DeadlineStops(o)
         \/ FindNothing \/ Wake \/ SessionFails \/ RunnerUnwinds \/ FailForShutdown
  PROVE  SessionInv'
<1> USE DEF seenVars, sessVars, linkVars, queueVars, Running, Connected, Executing, RestOfSession
<1>1. ASSUME NEW o \in Ops, TakeNext(o)
      PROVE  SessionInv'
  BY <1>1, SessionUntouched DEF TakeNext
<1>2. ASSUME NEW o \in Ops, Transmit(o)
      PROVE  SessionInv'
  BY <1>2, SessionUntouched DEF Transmit, Requeue, Release
<1>3. ASSUME NEW o \in Ops, TransmitFails(o)
      PROVE  SessionInv'
  BY <1>3, SessionUntouched DEF TransmitFails, Requeue, Release
<1>4. ASSUME NEW o \in Ops, StaySilent(o)
      PROVE  SessionInv'
  BY <1>4, SessionUntouched DEF StaySilent, Requeue, Release
<1>5. ASSUME NEW o \in Ops, LoseChannel(o)
      PROVE  SessionInv'
  BY <1>5, SessionUntouched DEF LoseChannel, Requeue, Release
<1>6. ASSUME NEW o \in Ops, DeadlineStops(o)
      PROVE  SessionInv'
  BY <1>6, SessionUntouched DEF DeadlineStops, Release
<1>7. ASSUME FindNothing
      PROVE  SessionInv'
  BY <1>7, SessionUntouched DEF FindNothing
<1>8. ASSUME Wake
      PROVE  SessionInv'
  BY <1>8, SessionUntouched DEF Wake
<1>9. ASSUME SessionFails
      PROVE  SessionInv'
  BY <1>9, SessionUntouched DEF SessionFails
<1>10. ASSUME RunnerUnwinds
       PROVE  SessionInv'
  BY <1>10, SessionUntouched DEF RunnerUnwinds, Release
<1>11. ASSUME FailForShutdown
       PROVE  SessionInv'
  BY <1>11, SessionUntouched DEF FailForShutdown
<1> QED
  BY <1>1, <1>2, <1>3, <1>4, <1>5, <1>6, <1>7, <1>8, <1>9, <1>10, <1>11

(* The runner when it takes a frame, or may lose one.                      *)
LEMMA SessionFrames ==
  ASSUME TypeInv, LaneInv, SessionInv,
         \/ ReceiveOther \/ ReceiveMatch \/ EndPoll
         \/ \E o \in Ops : Confirm(o) \/ ObserveCancel(o)
  PROVE  SessionInv'
<1> USE DEF linkVars, Running, Connected, Executing, RestOfSession, FrameFrame
<1>1. ASSUME UNCHANGED <<generation, air, seen, device, disconnected>>,
             rx' = rx \/ (rx # <<>> /\ rx' = Tail(rx)),
             fanMode' # NoMode => fanMode' \in seen,
             runner' \in Connected /\ ~disconnected => runner \in Connected,
             runner' # "connecting",
             MatchInv'
      PROVE  SessionInv'
  <2>1. Lawful(air, generation) /\ Current(rx', generation)
    BY <1>1, HeadsWitnessed
  <2>2. FrameInv'
    BY <1>1, <2>1 DEF Lawful, Current, FrameInv, Witnessed
  <2>3. CacheInv'
    BY <1>1 DEF SessionInv, CacheInv, LinkUp
  <2> QED
    BY <1>1, <2>2, <2>3 DEF SessionInv
<1>2. \A f \in Frames : Witnessed(f) /\ f.kind = "physical" /\ f.generation = generation
                          => f.command \in seen
  BY DEF Witnessed, IsFan, Frames
<1>3. fanMode # NoMode => fanMode \in seen
  BY DEF SessionInv, CacheInv
<1>4. rx # <<>> => Head(rx) \in Frames
  BY FirstFrame DEF TypeInv
<1>5. CASE ReceiveOther
  <2>1. rx # <<>> /\ rx' = Tail(rx)
    BY <1>5 DEF ReceiveOther, TakeFrame
  <2>2. fanMode' = fanMode \/ (Head(rx).kind = "physical" /\ fanMode' = Head(rx).command)
    BY <1>5 DEF ReceiveOther, Process
  <2>3. fanMode' # NoMode => fanMode' \in seen
    BY <2>1, <2>2, <1>2, <1>3, <1>4, HeadsWitnessed
  <2>4. runner' \in Connected /\ runner \in Connected /\ runner' # "matched"
    BY <1>5 DEF ReceiveOther
  <2> QED
    BY <1>5, <1>1, <2>1, <2>3, <2>4 DEF ReceiveOther, MatchInv
<1>6. CASE ReceiveMatch
  <2>1. /\ rx # <<>> /\ rx' = Tail(rx) /\ Head(rx).command = command[active]
        /\ runner = "awaiting" /\ runner' = "matched"
    BY <1>6 DEF ReceiveMatch, TakeFrame, Matches
  <2>2. fanMode' = fanMode \/ (Head(rx).kind = "physical" /\ fanMode' = Head(rx).command)
    BY <1>6 DEF ReceiveMatch
  <2>3. fanMode' # NoMode => fanMode' \in seen
    BY <2>1, <2>2, <1>2, <1>3, <1>4, HeadsWitnessed
  <2>4. MatchInv'
    BY <1>6, <2>1, HeadsWitnessed DEF ReceiveMatch, MatchInv, Witnessed, IsFan
  <2> QED
    BY <1>6, <1>1, <2>1, <2>3, <2>4 DEF ReceiveMatch
<1>7. CASE EndPoll
  <2>1. rx' = rx \/ (rx # <<>> /\ rx' = Tail(rx))
    BY <1>7 DEF EndPoll, MayLoseFrame
  <2>2. fanMode' = fanMode \/ (fanMode' = device /\ ~disconnected)
    BY <1>7 DEF EndPoll
  <2>3. runner = "polling" /\ runner' = "ready"
    BY <1>7 DEF EndPoll
  <2>4. ~disconnected => device \in seen
    BY <2>3 DEF SessionInv, CacheInv, LinkUp
  <2> QED
    BY <1>7, <1>1, <1>3, <2>1, <2>2, <2>3, <2>4 DEF EndPoll, MatchInv
<1>8. ASSUME NEW o \in Ops, Confirm(o)
      PROVE  SessionInv'
  <2>1. active = o /\ runner = "matched" /\ runner' = "ready"
    BY <1>8 DEF Confirm, Release
  <2>2. fanMode' = fanMode \/ (IsFan(command[o]) /\ fanMode' = command[o])
    BY <1>8 DEF Confirm
  <2>3. fanMode' # NoMode => fanMode' \in seen
    BY <2>1, <2>2, <1>3 DEF SessionInv, MatchInv
  <2> QED
    BY <1>8, <1>1, <2>1, <2>3 DEF Confirm, MatchInv
<1>9. ASSUME NEW o \in Ops, ObserveCancel(o)
      PROVE  SessionInv'
  <2>1. rx' = rx \/ (rx # <<>> /\ rx' = Tail(rx))
    BY <1>9 DEF ObserveCancel, MayLoseFrame
  <2>2. runner = "awaiting" /\ runner' = "ready"
    BY <1>9 DEF ObserveCancel, Release
  <2> QED
    BY <1>9, <1>1, <1>3, <2>1, <2>2 DEF ObserveCancel, MatchInv
<1> QED
  BY <1>5, <1>6, <1>7, <1>8, <1>9

(* The connection cycle.                                                   *)
LEMMA SessionCycle ==
  ASSUME TypeInv, LaneInv, SessionInv,
         BeginCycle \/ Establish \/ EndInitialization \/ LinkDrops
  PROVE  SessionInv'
<1> USE DEF linkVars, Running, Connected, Executing, RestOfSession
<1>1. /\ generation \in Nat /\ air \in Seq(Frames) /\ rx \in Seq(Frames)
      /\ Lawful(air, generation) /\ Current(rx, generation)
  BY HeadsWitnessed DEF TypeInv, TypeOK
<1>2. \A i \in 1 .. Len(air) : air[i] \in Frames
  BY <1>1, ElementOfSeq
<1>3. CASE BeginCycle
  <2>1. /\ generation' = generation + 1 /\ rx' = <<>> /\ fanMode' = NoMode /\ seen' = {}
        /\ runner' = "connecting" /\ (air' = <<>> \/ air' = air)
    BY <1>3 DEF BeginCycle
  <2>2. \A i \in 1 .. Len(air) : air[i].generation \in Nat /\ air[i].generation <= generation
    BY <1>1, <1>2 DEF Frames, Lawful
  <2>3. FrameInv'
    BY <2>1, <2>2, <1>1 DEF FrameInv, Witnessed
  <2>4. CacheInv' /\ MatchInv'
    BY <2>1 DEF CacheInv, MatchInv, LinkUp
  <2> QED
    BY <2>3, <2>4 DEF SessionInv
<1>4. CASE Establish
  <2>1. /\ runner = "connecting" /\ runner' = "initializing" /\ seen' = {device}
        /\ UNCHANGED <<generation, rx, air, fanMode, device, disconnected>>
    BY <1>4 DEF Establish
  <2>2. seen = {} /\ fanMode = NoMode
    BY <2>1 DEF SessionInv, CacheInv
  <2>3. FrameInv'
    BY <2>1, <2>2, <1>1 DEF FrameInv, Lawful, Current, Witnessed, IsFan
  <2>4. CacheInv' /\ MatchInv'
    BY <2>1, <2>2 DEF CacheInv, MatchInv, LinkUp
  <2> QED
    BY <2>3, <2>4 DEF SessionInv
<1>5. CASE EndInitialization
  <2>1. /\ runner = "initializing" /\ runner' = "ready" /\ ~disconnected
        /\ fanMode' \in {fanMode, device}
        /\ UNCHANGED <<generation, rx, air, seen, device, disconnected>>
    BY <1>5 DEF EndInitialization
  <2>2. device \in seen
    BY <2>1 DEF SessionInv, CacheInv, LinkUp
  <2>3. FrameInv'
    BY <2>1, <1>1 DEF FrameInv, Lawful, Current, Witnessed
  <2>4. CacheInv' /\ MatchInv'
    BY <2>1, <2>2 DEF SessionInv, CacheInv, MatchInv, LinkUp
  <2> QED
    BY <2>3, <2>4 DEF SessionInv
<1>6. CASE LinkDrops
  <2>1. /\ disconnected' = TRUE /\ fanMode' = NoMode
        /\ UNCHANGED <<generation, rx, air, seen, device, runner, active, command>>
    BY <1>6 DEF LinkDrops, LoseConnectionState, opVars, queueVars
  <2>2. FrameInv'
    BY <2>1, <1>1 DEF FrameInv, Lawful, Current, Witnessed
  <2>3. CacheInv' /\ MatchInv'
    BY <2>1 DEF SessionInv, CacheInv, MatchInv, LinkUp
  <2> QED
    BY <2>2, <2>3 DEF SessionInv
<1> QED
  BY <1>3, <1>4, <1>5, <1>6

(* The purifier and the link.                                              *)
LEMMA SessionPurifier ==
  ASSUME TypeInv, LaneInv, SessionInv,
         DeviceHandles \/ Deliver \/ \E m \in ButtonModes : ButtonPressed(m)
  PROVE  SessionInv'
<1> USE DEF echoVars, opVars, queueVars, sessVars
<1>1. /\ generation \in Nat /\ air \in Seq(Frames) /\ rx \in Seq(Frames) /\ EchoCopies \in Nat
      /\ Lawful(air, generation) /\ Current(rx, generation)
  BY HeadsWitnessed, ConstantsAssumption DEF TypeInv, TypeOK, ConstantsAssumption
<1>2. /\ fanMode # NoMode => fanMode \in seen
      /\ LinkUp => device \in seen
      /\ runner = "connecting" => seen = {}
  BY DEF SessionInv, CacheInv
<1>3. CASE DeviceHandles
  <2>1. /\ LinkUp /\ runner # "connecting"
        /\ UNCHANGED <<generation, rx, fanMode, disconnected, runner, active, command>>
    BY <1>3 DEF DeviceHandles, LinkUp, Connected, Executing
  <2>2. CASE UNCHANGED <<device, air, seen>>
    BY <2>1, <2>2, RunnerUntouched DEF seenVars
  <2>3. CASE ~UNCHANGED <<device, air, seen>>
    <3> DEFINE f == [kind |-> "echo", command |-> Head(tx), generation |-> generation]
               echoes == [i \in 1 .. EchoCopies |-> f]
    <3>1. /\ device' = IF IsFan(Head(tx)) THEN Head(tx) ELSE device
          /\ seen' = seen \cup {device'} /\ air' = air \o echoes
      BY <1>3, <2>3 DEF DeviceHandles
    <3>2. IsFan(f.command) => f.command \in seen'
      BY <3>1
    <3>3. f.generation = generation
      OBVIOUS
    <3> HIDE DEF f
    <3>4. Len(echoes) = EchoCopies /\ \A i \in 1 .. EchoCopies : echoes[i] = f
      BY <1>1
    <3>5. \A i \in 1 .. Len(air') : air'[i] = f \/ \E j \in 1 .. Len(air) : air'[i] = air[j]
      <4>1. echoes \in Seq({f})
        BY <1>1
      <4>2. /\ Len(air') = Len(air) + EchoCopies
            /\ \A i \in 1 .. Len(air') : air'[i] = IF i <= Len(air) THEN air[i]
                                                   ELSE echoes[i - Len(air)]
        <5> HIDE DEF echoes
        <5>1. Len(air \o echoes) = Len(air) + Len(echoes)
          BY <1>1, <4>1, ConcatProperties
        <5> QED
          BY <1>1, <3>1, <3>4, <4>1, <5>1
      <4> HIDE DEF echoes
      <4> QED
        BY <1>1, <3>4, <4>2
    <3>6. FrameInv'
      BY <1>1, <2>1, <3>1, <3>2, <3>3, <3>5 DEF FrameInv, Lawful, Current, Witnessed
    <3>7. CacheInv' /\ MatchInv'
      BY <1>2, <2>1, <3>1 DEF SessionInv, CacheInv, MatchInv, LinkUp
    <3> QED
      BY <3>6, <3>7 DEF SessionInv
  <2> QED
    BY <2>2, <2>3
<1>4. CASE Deliver
  <2> DEFINE f == Head(air)
  <2>1. /\ air # <<>> /\ air' = Tail(air)
        /\ UNCHANGED <<generation, device, seen, runner, active, command>>
    BY <1>4 DEF Deliver
  <2>2. Witnessed(f) /\ Lawful(Tail(air), generation)
    BY <2>1, HeadsWitnessed
  <2>3. rx' = rx \/ rx' = <<>> \/ (f.generation = generation /\ rx' = Append(rx, f))
    BY <1>4 DEF Deliver, Stale
  <2>4. (fanMode' = fanMode /\ disconnected' = disconnected)
          \/ (fanMode' = NoMode /\ disconnected' = TRUE)
    BY <1>4 DEF Deliver, LoseConnectionState
  <2> HIDE DEF f
  <2>5. Current(rx', generation)
    <3>1. CASE rx' = Append(rx, f) /\ f.generation = generation
      <4>1. /\ Len(rx') = Len(rx) + 1 /\ rx'[Len(rx) + 1] = f
            /\ \A i \in 1 .. Len(rx) : rx'[i] = rx[i]
        BY <1>1, <3>1
      <4> QED
        BY <1>1, <2>2, <3>1, <4>1 DEF Current
    <3> QED
      BY <1>1, <2>3, <3>1 DEF Current
  <2>6. FrameInv'
    BY <2>1, <2>2, <2>5 DEF FrameInv, Lawful, Current, Witnessed
  <2>7. CacheInv' /\ MatchInv'
    BY <1>2, <2>1, <2>4 DEF SessionInv, CacheInv, MatchInv, LinkUp
  <2> QED
    BY <2>6, <2>7 DEF SessionInv
<1>5. ASSUME NEW m \in ButtonModes, ButtonPressed(m)
      PROVE  SessionInv'
  <2>1. /\ device' = m
        /\ UNCHANGED <<generation, rx, fanMode, disconnected, runner, active, command>>
    BY <1>5 DEF ButtonPressed
  <2>2. CASE ~LinkUp
    <3>1. UNCHANGED <<air, seen>>
      BY <1>5, <2>2 DEF ButtonPressed
    <3>2. FrameInv'
      BY <1>1, <2>1, <3>1 DEF FrameInv, Lawful, Current, Witnessed
    <3>3. CacheInv' /\ MatchInv'
      BY <1>2, <2>1, <2>2, <3>1 DEF SessionInv, CacheInv, MatchInv, LinkUp
    <3> QED
      BY <3>2, <3>3 DEF SessionInv
  <2>3. CASE LinkUp
    <3> DEFINE f == [kind |-> "physical", command |-> m, generation |-> generation]
    <3>1. seen' = seen \cup {m} /\ air' = Append(air, f)
      BY <1>5, <2>3 DEF ButtonPressed
    <3>2. f.command \in seen' /\ f.generation = generation
      BY <3>1
    <3> HIDE DEF f
    <3>3. /\ Len(air') = Len(air) + 1 /\ air'[Len(air) + 1] = f
          /\ \A i \in 1 .. Len(air) : air'[i] = air[i]
      BY <1>1, <3>1
    <3>4. FrameInv'
      BY <1>1, <2>1, <3>1, <3>2, <3>3 DEF FrameInv, Lawful, Current, Witnessed
    <3>5. CacheInv' /\ MatchInv'
      BY <1>2, <2>1, <2>3, <3>1 DEF SessionInv, CacheInv, MatchInv, LinkUp, Connected, Executing
    <3> QED
      BY <3>4, <3>5 DEF SessionInv
  <2> QED
    BY <2>2, <2>3
<1> QED
  BY <1>3, <1>4, <1>5

(* Every step keeps the invariant.                                         *)
LEMMA SessionNext ==
  ASSUME TypeInv, LaneInv, SessionInv, [Next]_vars
  PROVE  SessionInv'
<1>1. ASSUME UNCHANGED vars
      PROVE  SessionInv'
  BY <1>1, RunnerUntouched DEF vars, opVars, queueVars, sessVars, linkVars, seenVars
<1> QED
  BY <1>1, SessionCallers, SessionRunner, SessionFrames, SessionCycle, SessionPurifier
  DEF Next, Attempt, RunnerStep, PurifierStep, StopStep

(* What the client has cached or queued of the fan in a session was so     *)
(* during that session.                                                    *)
THEOREM SessionCorrect == Spec => []SessionInv
BY TypeInvInit, TypeInvStep, LaneInit, LaneNext, SessionInit, SessionNext, PTL DEF Spec

(***************************************************************************)
(* How the future of an operation may change.                              *)
(***************************************************************************)

(* Futures change only from unsettled to settled for a reason in R.        *)
Settles(R) ==
  \A p \in Ops : status'[p] # status[p] => status[p] = "open" /\ status'[p] \in R

Unconfirmed == Settled \ {"confirmed"}

(* What a caller or its deadline does to the futures.                      *)
LEMMA CallersSettle ==
  ASSUME TypeInv, NEW o \in Ops, CallerStep(o) \/ Expire(o)
  PROVE  Settles(Unconfirmed)
<1>1. ASSUME Cancel(o)
      PROVE  Settles(Unconfirmed)
  BY <1>1 DEF TypeInv, TypeOK, Cancel, CancelledStatus, Settles, Unconfirmed, Settled
<1>2. ASSUME UNCHANGED status
      PROVE  Settles(Unconfirmed)
  BY <1>2 DEF Settles
<1> QED
  BY <1>1, <1>2 DEF CallerStep, CallerTimesOut, CallerCancelled, CallerResumes, CallerReturns,
     Expire

(* Only taking an operation and confirming it may confirm.                 *)
LEMMA RunnerSettles ==
  ASSUME TypeInv, NEW o \in Ops, Attempt(o)
  PROVE  /\ Settles(Settled)
         /\ TakeNext(o) \/ Confirm(o) \/ Settles(Unconfirmed)
<1> USE DEF Settles, Unconfirmed, Settled
<1>1. ASSUME Requeue(o)
      PROVE  Settles(Unconfirmed)
  BY <1>1 DEF TypeInv, TypeOK, Requeue
<1>2. ASSUME UNCHANGED status
      PROVE  Settles(Unconfirmed)
  BY <1>2
<1>3. ASSUME TakeNext(o)
      PROVE  Settles(Settled)
  BY <1>3 DEF TypeInv, TypeOK, TakeNext, Kept, Dead, Verdict
<1>4. ASSUME Confirm(o)
      PROVE  Settles(Settled)
  BY <1>4 DEF TypeInv, TypeOK, Confirm
<1>5. ASSUME DeadlineStops(o)
      PROVE  Settles(Unconfirmed)
  BY <1>5 DEF TypeInv, TypeOK, DeadlineStops
<1>6. Settles(Unconfirmed) => Settles(Settled)
  OBVIOUS
<1> QED
  BY <1>1, <1>2, <1>3, <1>4, <1>5, <1>6
  DEF Attempt, Transmit, TransmitFails, ObserveCancel, StaySilent, LoseChannel, opVars

(* The rest of the runner's steps, the purifier's and the shutdown's.      *)
LEMMA OthersSettle ==
  ASSUME TypeInv, LaneInv,
         \/ FindNothing \/ ReceiveOther \/ ReceiveMatch \/ Wake \/ EndPoll \/ SessionFails
         \/ BeginCycle \/ Establish \/ EndInitialization \/ PurifierStep \/ StopStep
         \/ UNCHANGED vars
  PROVE  Settles(Unconfirmed)
<1> USE DEF Settles, Unconfirmed, Settled
<1>1. ASSUME UNCHANGED status
      PROVE  Settles(Unconfirmed)
  BY <1>1
<1>2. ASSUME FindNothing
      PROVE  Settles(Unconfirmed)
  BY <1>2 DEF TypeInv, TypeOK, FindNothing, Dead
<1>3. ASSUME ReceiveOther
      PROVE  Settles(Unconfirmed)
  BY <1>3, <1>1 DEF TypeInv, TypeOK, ReceiveOther, Process, Supersede, ActiveFanSent
<1>4. ASSUME FailForShutdown
      PROVE  Settles(Unconfirmed)
  BY <1>4 DEF TypeInv, TypeOK, FailForShutdown
<1> QED
  BY <1>1, <1>2, <1>3, <1>4
  DEF ReceiveMatch, Wake, EndPoll, SessionFails, BeginCycle, Establish, EndInitialization,
      PurifierStep, LinkDrops, DeviceHandles, Deliver, ButtonPressed, StopStep, Shutdown,
      RunnerUnwinds, RestOfSession, opVars, vars

(* A fan command is confirmed only by a mode the purifier had in this very *)
(* session, whatever echoes and updates of older ones still arrive.        *)
THEOREM ConfirmedModesSeen == Spec => ConfirmedInSession
<1> DEFINE Confirmed == \A o \in Ops :
             status[o] # "confirmed" /\ status'[o] = "confirmed" /\ IsFan(command[o])
               => command[o] \in seen
<1>1. ASSUME TypeInv, LaneInv, SessionInv, [Next]_vars
      PROVE  Confirmed
  <2> SUFFICES ASSUME NEW o \in Ops, status[o] # "confirmed", status'[o] = "confirmed",
                      IsFan(command[o])
               PROVE  command[o] \in seen
    OBVIOUS
  <2>1. \/ \E p \in Ops : TakeNext(p) \/ Confirm(p)
        \/ \E c \in Commands : Execute(c)
        \/ Settles(Unconfirmed)
    BY <1>1, CallersSettle, RunnerSettles, OthersSettle DEF Next, RunnerStep
  <2>4. ASSUME NEW c \in Commands, Execute(c)
        PROVE  FALSE
    BY <1>1, <2>4 DEF Execute, TypeInv, TypeOK
  <2>5. ~Settles(Unconfirmed)
    BY DEF Settles, Unconfirmed
  <2>2. ASSUME NEW p \in Ops, TakeNext(p)
        PROVE  command[o] \in seen
    <3>1. p = o /\ fanMode = command[o]
      BY <1>1, <2>2 DEF TakeNext, Verdict, TypeInv, TypeOK
    <3>2. command[o] # NoMode
      BY ConstantsAssumption DEF IsFan, ConstantsAssumption
    <3> QED
      BY <1>1, <3>1, <3>2 DEF SessionInv, CacheInv
  <2>3. ASSUME NEW p \in Ops, Confirm(p)
        PROVE  command[o] \in seen
    <3>1. p = o /\ active = o /\ runner = "matched"
      BY <1>1, <2>3 DEF Confirm, Running, TypeInv, TypeOK
    <3> QED
      BY <1>1, <3>1 DEF SessionInv, MatchInv
  <2> QED
    BY <2>1, <2>2, <2>3, <2>4, <2>5
<1>2. Confirmed => [Confirmed]_vars
  OBVIOUS
<1> QED
  BY <1>1, TypeInvInit, TypeInvStep, LaneInit, LaneNext, SessionInit, SessionNext, PTL
  DEF Spec, ConfirmedInSession
(***************************************************************************)
(* The lane implements the command service.                                *)
(***************************************************************************)

(* What the callers see of the operations, and how these were decided.     *)
Phases ==
  [o \in Ops |-> IF caller[o] = "none" THEN "unknown"
                 ELSE IF caller[o] = "returned" THEN "answered" ELSE "waiting"]
Outcome == [o \in Ops |-> IF status[o] \in Settled THEN status[o] ELSE "none"]

(* The undecided controls are the unsettled operations.                    *)
LEMMA UndecidedAreOpen ==
  ASSUME TypeInv, LaneInv
  PROVE  Service!Undecided = {o \in Ops : status[o] = "open"}
BY DEF Service!Undecided, Service!Controls, Ops, Settled, TypeInv, TypeOK, LaneInv, AgeInv

(* An idle client is an idle service.                                      *)
LEMMA ServiceInit == Init => Service!Init
BY DEF Init, Service!Init, Service!Controls, Ops, Settled

(* Futures that settle while every caller keeps waiting are decisions.     *)
LEMMA SettlingDecides ==
  ASSUME TypeInv, LaneInv, TypeInv', Settles(Settled), Phases' = Phases, sends' = sends
  PROVE  Service!Decide
<1> DEFINE f == [p \in Service!Undecided |-> Outcome'[p]]
<1>1. f \in [Service!Undecided -> Service!Outcomes \cup {"none"}]
  BY UndecidedAreOpen DEF Service!Outcomes, Outcome, Settled
<1>2. Outcome' = [p \in Ops |-> IF p \in Service!Undecided THEN f[p] ELSE Outcome[p]]
  BY UndecidedAreOpen DEF Outcome, Settles
<1> HIDE DEF f
<1>3. Service!Controls = Ops
  BY DEF Service!Controls, Ops
<1> QED
  BY <1>1, <1>2, <1>3 DEF Service!Decide, Outcome, Phases

(* A submission supersedes the queued operations it replaces.              *)
LEMMA ExecuteSubmits ==
  ASSUME TypeInv, LaneInv, NEW c \in Commands, Execute(c), NEW o \in Ops, o = lastOp + 1
  PROVE  Service!Submit(o)
<1>1. status[o] = "new" /\ caller[o] = "none"
  BY ConstantsAssumption DEF ConstantsAssumption, Execute, TypeInv, TypeOK, LaneInv, AgeInv, Ops
<1>2. \A p \in Ops : p < o => caller[p] # "none"
  BY DEF TypeInv, TypeOK, LaneInv, AgeInv, Ops
<1>3. Phases' = [Phases EXCEPT ![o] = "waiting"]
  BY <1>1 DEF Execute, TypeInv, TypeOK, Phases
<1>4. Replaced(c) \in SUBSET Service!Undecided
  BY UndecidedAreOpen DEF Replaced, TypeInv, TypeOK
<1>5. Outcome' = [p \in Ops |-> IF p \in Replaced(c) THEN "superseded" ELSE Outcome[p]]
  BY <1>1 DEF Execute, TypeInv, TypeOK, Outcome, Settled, Replaced
<1>6. Service!Controls = Ops
  BY DEF Service!Controls, Ops
<1>7. sends' = sends
  BY DEF Execute
<1>8. Phases[o] = "unknown" /\ \A p \in Ops : p < o => Phases[p] # "unknown"
  BY <1>1, <1>2 DEF Phases
<1> QED
  BY <1>3, <1>4, <1>5, <1>6, <1>7, <1>8 DEF Service!Submit, Outcome, Phases

(* The first step of a transaction task is a transmission.                 *)
LEMMA TransmitWrites ==
  ASSUME TypeInv, LaneInv, NEW o \in Ops, Transmit(o)
  PROVE  Service!Write(o)
<1>1. /\ runner = "sending" /\ active = o /\ sends[o] < SendLimit /\ o \notin expired
      /\ caller[o] \in {"awaiting", "quiescing"}
  BY DEF Transmit, LaneInv, AttemptInv
<1>2. \A p \in Ops : status[p] = "open" => o <= p
  BY <1>1 DEF LaneInv, DequeInv, CustodyInv, NoOp, Ops, TypeInv, TypeOK
<1>3. status' = status /\ caller' = caller
  BY <1>1 DEF Transmit, Requeue, TypeInv, TypeOK
<1>4. sends' = [sends EXCEPT ![o] = @ + 1]
  BY DEF Transmit
<1>5. Phases' = Phases /\ Outcome' = Outcome /\ Phases[o] = "waiting"
  BY <1>1, <1>3 DEF Phases, Outcome
<1> QED
  BY <1>1, <1>2, <1>4, <1>5, UndecidedAreOpen DEF Service!Write, Phases, Outcome

(* The end of async_execute is an answer.                                  *)
LEMMA ReturnAnswers ==
  ASSUME TypeInv, LaneInv, NEW o \in Ops,
         CallerReturns(o) \/ (CallerResumes(o) /\ status[o] # "superseded")
  PROVE  Service!Answer(o)
<1>1. /\ caller[o] \in {"awaiting", "quiescing"} /\ status[o] \in Settled
      /\ caller' = [caller EXCEPT ![o] = "returned"] /\ status' = status /\ sends' = sends
  BY DEF CallerReturns, CallerResumes, LaneInv, AgeInv, TypeInv, TypeOK, Settled
<1>2. /\ Phases' = [Phases EXCEPT ![o] = "answered"] /\ Outcome' = Outcome
      /\ Phases[o] = "waiting" /\ Outcome[o] # "none"
  BY <1>1 DEF Phases, Outcome, TypeInv, TypeOK, Settled
<1> QED
  BY <1>1, <1>2 DEF Service!Answer, Phases, Outcome

(* A caller's other steps decide, at most.                                 *)
LEMMA CallerImplements ==
  ASSUME TypeInv, LaneInv, TypeInv', NEW o \in Ops, CallerStep(o) \/ Expire(o)
  PROVE  Service!Next
<1>1. ASSUME CallerReturns(o) \/ (CallerResumes(o) /\ status[o] # "superseded")
      PROVE  Service!Next
  BY <1>1, ReturnAnswers DEF Service!Next, Service!Controls, Ops
<1>2. ASSUME \/ CallerTimesOut(o) \/ CallerCancelled(o) \/ Expire(o)
             \/ CallerResumes(o) /\ status[o] = "superseded"
      PROVE  Service!Next
  <2>1. Phases' = Phases /\ sends' = sends
    BY <1>2 DEF CallerTimesOut, CallerCancelled, Cancel, Expire, CallerResumes, Phases,
       TypeInv, TypeOK
  <2>2. Settles(Settled)
    BY CallersSettle DEF Settles, Unconfirmed
  <2> QED
    BY <2>1, <2>2, SettlingDecides DEF Service!Next
<1> QED
  BY <1>1, <1>2 DEF CallerStep

(* Every step of the lane is one of the service, or a decision of nothing. *)
LEMMA ServiceNext ==
  ASSUME TypeInv, LaneInv, TypeInv', [Next]_vars
  PROVE  Service!Next
<1>1. ASSUME NEW c \in Commands, Execute(c)
      PROVE  Service!Next
  <2>1. PICK o \in Ops : o = lastOp + 1
    BY <1>1, ConstantsAssumption DEF ConstantsAssumption, Execute, TypeInv, TypeOK, Ops
  <2>2. Service!Submit(o)
    BY <1>1, <2>1, ExecuteSubmits
  <2> QED
    BY <2>2 DEF Service!Next, Service!Controls, Ops
<1>2. ASSUME NEW o \in Ops, Transmit(o)
      PROVE  Service!Next
  BY <1>2, TransmitWrites DEF Service!Next, Service!Controls, Ops
<1>3. ASSUME NEW o \in Ops, Attempt(o), ~Transmit(o)
      PROVE  Service!Next
  <2>1. Phases' = Phases /\ sends' = sends
    BY <1>3 DEF Attempt, TakeNext, TransmitFails, Requeue, Confirm, ObserveCancel, StaySilent,
       LoseChannel, DeadlineStops, opVars, Phases
  <2> QED
    BY <1>3, <2>1, RunnerSettles, SettlingDecides DEF Service!Next
<1>4. ASSUME \/ FindNothing \/ ReceiveOther \/ ReceiveMatch \/ Wake \/ EndPoll \/ SessionFails
             \/ BeginCycle \/ Establish \/ EndInitialization \/ PurifierStep \/ StopStep
             \/ UNCHANGED vars
      PROVE  Service!Next
  <2>1. Phases' = Phases /\ sends' = sends
    BY <1>4 DEF FindNothing, ReceiveOther, ReceiveMatch, Wake, EndPoll, SessionFails,
       BeginCycle, Establish, EndInitialization, PurifierStep, LinkDrops, DeviceHandles,
       Deliver, ButtonPressed, StopStep, Shutdown, RunnerUnwinds, FailForShutdown, FrameFrame,
       RestOfSession, opVars, vars, Phases
  <2>2. Settles(Settled)
    BY <1>4, OthersSettle DEF Settles, Unconfirmed
  <2> QED
    BY <2>1, <2>2, SettlingDecides DEF Service!Next
<1> QED
  BY <1>1, <1>2, <1>3, <1>4, CallerImplements DEF Next, RunnerStep

(* The client keeps the promise of the command service to its callers:     *)
(* controls go out in order, at most SendLimit times, only while older     *)
(* ones are decided and their caller waits, are decided once and for all,  *)
(* and answered after that.                                                *)
THEOREM LaneImplementsService == Spec => ImplementsService
<1>1. TypeInv /\ LaneInv /\ TypeInv' /\ [Next]_vars => [Service!Next]_Service!svars
  BY ServiceNext
<1> QED
  BY <1>1, ServiceInit, TypeInvInit, TypeInvStep, LaneInit, LaneNext, PTL
  DEF Spec, ImplementsService, Service!Spec
=============================================================================
