---------------------- MODULE CommandOperations_proofs ----------------------
(***************************************************************************)
(* Theorems about the command lane, for every value of its constants.      *)
(***************************************************************************)
EXTENDS CommandOperations, SequenceTheorems, TLAPS

(* Requeuing keeps the types of what it assigns, whichever way it goes.    *)
LEMMA Requeuing ==
  ASSUME TypeOK, NEW o \in Ops, Requeue(o)
  PROVE  /\ status' \in [Ops -> {"new", "open"} \cup Settled]
         /\ quiesced' \subseteq Ops /\ pending' \subseteq Ops /\ place' \in [Ops -> Int]
         /\ active' = NoOp /\ event' \in BOOLEAN /\ runner' = "backoff"
  BY DEF TypeOK, Requeue, Release, Ambiguous, LeftEnd, Settled

(* A frame that settles nothing keeps the types of what it assigns.        *)
LEMMA FrameProcessed ==
  ASSUME TypeOK, NEW f \in Frames, Process(f)
  PROVE  /\ status' \in [Ops -> {"new", "open"} \cup Settled]
         /\ cancelEvent' \subseteq Ops /\ forced' \subseteq Ops
         /\ requireConfirm' \subseteq FanModes /\ supEchoes' \subseteq FanModes
         /\ fanMode' \in FanModes \cup {NoMode}
<1>1. CASE Swallowed(f) /\ supEchoes' = EchoesLeft(f)
           /\ UNCHANGED <<status, cancelEvent, forced, requireConfirm, fanMode>>
  BY <1>1 DEF TypeOK, EchoesLeft
<1>2. CASE UNCHANGED <<status, cancelEvent, forced, requireConfirm, supEchoes, fanMode>>
  BY <1>2 DEF TypeOK
<1>3. CASE /\ f.kind = "physical" /\ fanMode' = f.command
           /\ UNCHANGED <<status, cancelEvent, forced, requireConfirm, supEchoes>>
  BY <1>3 DEF TypeOK, Frames
<1>4. CASE f.kind = "physical" /\ fanMode' = f.command /\ ActiveFanSent /\ Supersede
  BY <1>4 DEF TypeOK, Frames, Supersede, ActiveFanSent, IsFan, Settled
<1> QED
  BY <1>1, <1>2, <1>3, <1>4 DEF Process

(* Taking the first frame of a queue, or one that may be lost, keeps it    *)
(* typed and within its capacity.                                          *)
LEMMA FirstFrame ==
  ASSUME TypeOK
  PROVE  /\ rx # <<>> => /\ Head(rx) \in Frames /\ Tail(rx) \in Seq(Frames)
                         /\ Len(Tail(rx)) <= QueueLimit
         /\ air # <<>> => Head(air) \in Frames /\ Tail(air) \in Seq(Frames)
         /\ tx # <<>> => Head(tx) \in Commands /\ Tail(tx) \in Seq(Commands)
         /\ MayLoseFrame => rx' \in Seq(Frames) /\ Len(rx') <= QueueLimit
<1>1. rx # <<>> => /\ Head(rx) \in Frames /\ Tail(rx) \in Seq(Frames)
                   /\ Len(Tail(rx)) <= QueueLimit
  BY HeadTailProperties, LenProperties, ConstantsAssumption DEF TypeOK, ConstantsAssumption
<1>2. air # <<>> => Head(air) \in Frames /\ Tail(air) \in Seq(Frames)
  BY HeadTailProperties DEF TypeOK
<1>3. tx # <<>> => Head(tx) \in Commands /\ Tail(tx) \in Seq(Commands)
  BY HeadTailProperties DEF TypeOK
<1>4. MayLoseFrame => rx' \in Seq(Frames) /\ Len(rx') <= QueueLimit
  BY <1>1 DEF MayLoseFrame, TypeOK
<1> QED
  BY <1>1, <1>2, <1>3, <1>4

(* A frame is added to a queue that has room for it.                       *)
LEMMA Appended ==
  ASSUME TypeOK, NEW f \in Frames
  PROVE  /\ Append(air, f) \in Seq(Frames) /\ Append(rx, f) \in Seq(Frames)
         /\ Len(rx) < QueueLimit => Len(Append(rx, f)) <= QueueLimit
BY AppendProperties, LenProperties, ConstantsAssumption DEF TypeOK, ConstantsAssumption

(* Empty queues are typed.                                                 *)
LEMMA EmptyQueues == <<>> \in Seq(Frames) /\ <<>> \in Seq(Commands) /\ Len(<<>>) = 0
BY EmptySeq

(* What the purifier emits for a write is a sequence of echoes.            *)
LEMMA Echoes ==
  ASSUME NEW c \in Commands, NEW g \in Nat, TypeOK
  PROVE  air \o [i \in 1 .. EchoCopies |-> [kind |-> "echo", command |-> c, generation |-> g]]
           \in Seq(Frames)
<1> DEFINE f == [kind |-> "echo", command |-> c, generation |-> g]
<1>1. f \in Frames
  BY DEF Frames
<1>2. EchoCopies \in Nat
  BY ConstantsAssumption DEF ConstantsAssumption
<1> HIDE DEF f
<1>3. [i \in 1 .. EchoCopies |-> f] \in Seq(Frames)
  BY <1>1, <1>2
<1>4. air \o [i \in 1 .. EchoCopies |-> f] \in Seq(Frames)
  BY <1>3, ConcatProperties DEF TypeOK
<1> QED
  BY <1>4 DEF f

(* The types are inductive with the command of every submitted operation   *)
(* and the send budget of an attempt to come.                              *)
BudgetInv ==
  /\ \A o \in Ops : status[o] # "new" => command[o] \in Commands
  /\ runner = "sending" =>
       active \in Ops /\ status[active] # "new" /\ sends[active] < SendLimit
TypeInv == TypeOK /\ BudgetInv

(* The initial states have their types and an unused send budget.          *)
LEMMA TypeInvInit == Init => TypeInv
<1> SUFFICES ASSUME Init
             PROVE  TypeInv
  OBVIOUS
<1> USE ConstantsAssumption DEF ConstantsAssumption, Init, NoOp, Points
<1>1. /\ command \in [Ops -> Commands \cup {NoMode}]
      /\ status \in [Ops -> {"new", "open"} \cup Settled]
      /\ caller \in [Ops -> {"none", "awaiting", "quiescing", "returned"}]
      /\ sends \in [Ops -> 0 .. SendLimit] /\ place \in [Ops -> Int]
  OBVIOUS
<1>2. /\ rx \in Seq(Frames) /\ Len(rx) <= QueueLimit
      /\ tx \in Seq(Commands) /\ air \in Seq(Frames)
  BY EmptySeq
<1>3. /\ lastOp \in 0 .. MaxOps /\ active \in Ops \cup {NoOp} /\ captured \in Ops \cup {NoOp}
      /\ generation \in Nat
  OBVIOUS
<1>6. /\ runner \in Points /\ fanMode \in FanModes \cup {NoMode}
      /\ event \in BOOLEAN /\ disconnected \in BOOLEAN /\ stopping \in BOOLEAN
      /\ device \in FanModes /\ seen \subseteq FanModes
  OBVIOUS
<1>4. /\ expired \subseteq Ops /\ forced \subseteq Ops
      /\ cancelEvent \subseteq Ops /\ quiesced \subseteq Ops /\ pending \subseteq Ops
      /\ requireConfirm \subseteq FanModes /\ supEchoes \subseteq FanModes
      /\ canEchoes \subseteq FanModes
  OBVIOUS
<1>5. BudgetInv
  BY DEF BudgetInv
<1> HIDE DEF Init, Points
<1> QED
  BY <1>1, <1>2, <1>3, <1>4, <1>5, <1>6 DEF TypeInv, TypeOK

(* Every action keeps the types and the send budget.                       *)
LEMMA TypeInvStep ==
  ASSUME TypeInv, [Next]_vars
  PROVE  TypeInv'
<1> USE ConstantsAssumption DEF ConstantsAssumption, NoOp, TypeInv, BudgetInv, TypeOK,
queueVars, opVars, echoVars,
        sessVars, linkVars, RestOfSession, Points, Settled
<1>1. ASSUME NEW c \in Commands, Execute(c)
      PROVE  TypeInv'
  <2>1. lastOp + 1 \in Ops
    BY <1>1 DEF Execute, Ops
  <2>2. TypeOK'
    BY <1>1, <2>1 DEF Execute, Replaced, Commands
  <2>3. BudgetInv'
    BY <1>1, <2>1 DEF Execute, Replaced
  <2> QED
    BY <2>2, <2>3
<1>2. ASSUME NEW o \in Ops, CallerTimesOut(o)
      PROVE  TypeInv'
  BY <1>2 DEF CallerTimesOut, Cancel, CancelledStatus, QuiescedByCancel, QuarantinedBy,
       StillWanted, IsFan
<1>3. ASSUME NEW o \in Ops, CallerCancelled(o)
      PROVE  TypeInv'
  BY <1>3 DEF CallerCancelled, Cancel, CancelledStatus, QuiescedByCancel, QuarantinedBy,
       StillWanted, IsFan
<1>4. ASSUME NEW o \in Ops, CallerResumes(o)
      PROVE  TypeInv'
  BY <1>4 DEF CallerResumes
<1>5. ASSUME NEW o \in Ops, CallerReturns(o)
      PROVE  TypeInv'
  BY <1>5 DEF CallerReturns
<1>6. ASSUME NEW o \in Ops, Expire(o)
      PROVE  TypeInv'
  BY <1>6 DEF Expire
<1>7. ASSUME NEW o \in Ops, TakeNext(o)
      PROVE  TypeInv'
  <2>1. Verdict(o) \in {"confirmed", "failed", "open"} /\ (Verdict(o) = "open" => sends[o] < SendLimit)
    BY DEF Verdict
  <2>2. status[o] # "new" /\ \A p \in Dead : status[p] # "new"
    BY <1>7 DEF TakeNext, Kept, Dead
  <2>3. Kept \subseteq Ops /\ Dead \subseteq Ops
    BY DEF Kept, Dead
  <2>4. TypeOK'
    BY <1>7, <2>1, <2>3 DEF TakeNext
  <2>5. BudgetInv'
    BY <1>7, <2>1, <2>2, <2>3 DEF TakeNext
  <2> QED
    BY <2>4, <2>5
<1>8. ASSUME NEW o \in Ops, Transmit(o)
      PROVE  TypeInv'
  <2>1. command[o] \in Commands /\ Append(tx, command[o]) \in Seq(Commands)
    BY <1>8, AppendProperties DEF Transmit
  <2>2. sends' \in [Ops -> 0 .. SendLimit]
    BY <1>8 DEF Transmit
  <2>3. canEchoes' \subseteq FanModes /\ supEchoes' \subseteq FanModes
    BY <1>8 DEF Transmit, Retire
  <2>4. CASE runner' = "awaiting" /\ ~Requeue(o)
    BY <1>8, <2>1, <2>2, <2>3, <2>4 DEF Transmit, Retire
  <2>5. CASE Requeue(o)
    BY <1>8, <2>1, <2>2, <2>3, <2>5, Requeuing DEF Transmit, Retire, Requeue
  <2> QED
    BY <1>8, <2>4, <2>5 DEF Transmit
<1>9. ASSUME NEW o \in Ops, TransmitFails(o)
      PROVE  TypeInv'
  BY <1>9, Requeuing DEF TransmitFails, Requeue
<1>10. ASSUME NEW o \in Ops, Confirm(o)
      PROVE  TypeInv'
  BY <1>10 DEF Confirm, Release, IsFan
<1>11. ASSUME NEW o \in Ops, ObserveCancel(o)
      PROVE  TypeInv'
  BY <1>11, FirstFrame DEF ObserveCancel, Release
<1>12. ASSUME NEW o \in Ops, StaySilent(o)
      PROVE  TypeInv'
  BY <1>12, Requeuing DEF StaySilent, MayResend, Running, Requeue
<1>13. ASSUME NEW o \in Ops, LoseChannel(o)
      PROVE  TypeInv'
  BY <1>13, Requeuing DEF LoseChannel, Requeue
<1>14. ASSUME NEW o \in Ops, DeadlineStops(o)
      PROVE  TypeInv'
  BY <1>14 DEF DeadlineStops, Release
<1>15. ASSUME FindNothing
      PROVE  TypeInv'
  BY <1>15 DEF FindNothing, Kept, Dead, Running
<1>16. ASSUME ReceiveOther
      PROVE  TypeInv'
  <2>1. rx' \in Seq(Frames) /\ Len(rx') <= QueueLimit /\ Head(rx) \in Frames
    BY <1>16, FirstFrame DEF ReceiveOther, TakeFrame
  <2>2. /\ status' \in [Ops -> {"new", "open"} \cup Settled]
        /\ cancelEvent' \subseteq Ops /\ forced' \subseteq Ops
        /\ requireConfirm' \subseteq FanModes /\ supEchoes' \subseteq FanModes
        /\ fanMode' \in FanModes \cup {NoMode}
    BY <1>16, <2>1, FrameProcessed DEF ReceiveOther
  <2> QED
    BY <1>16, <2>1, <2>2 DEF ReceiveOther, FrameFrame, Process, Supersede, ActiveFanSent
<1>17. ASSUME ReceiveMatch
      PROVE  TypeInv'
  <2>1. rx' \in Seq(Frames) /\ Len(rx') <= QueueLimit /\ fanMode' \in FanModes \cup {NoMode}
    BY <1>17, FirstFrame DEF ReceiveMatch, TakeFrame, Frames
  <2>2. supEchoes' \subseteq FanModes
    BY <1>17 DEF ReceiveMatch
  <2> QED
    BY <1>17, <2>1, <2>2 DEF ReceiveMatch, FrameFrame
<1>18. ASSUME Wake
      PROVE  TypeInv'
  BY <1>18 DEF Wake
<1>19. ASSUME EndPoll
      PROVE  TypeInv'
  BY <1>19, FirstFrame DEF EndPoll
<1>20. ASSUME SessionFails
      PROVE  TypeInv'
  BY <1>20 DEF SessionFails
<1>21. ASSUME BeginCycle
      PROVE  TypeInv'
  <2>1. device' \in FanModes
    BY <1>21 DEF BeginCycle, IsFan
  <2>2. rx' \in Seq(Frames) /\ Len(rx') <= QueueLimit
    BY <1>21, EmptySeq DEF BeginCycle
  <2>3. tx' \in Seq(Commands) /\ air' \in Seq(Frames)
    <3>1. tx' = <<>> /\ (air' = <<>> \/ air' = air)
      BY <1>21 DEF BeginCycle
    <3> QED
      BY <3>1, EmptyQueues DEF BeginCycle
  <2>4. /\ event' \in BOOLEAN /\ fanMode' = NoMode /\ generation' \in Nat
        /\ runner' = "connecting" /\ disconnected' = FALSE
        /\ supEchoes' = {} /\ canEchoes' = {} /\ seen' = {}
        /\ UNCHANGED <<opVars, lastOp, pending, place, active, requireConfirm, stopping, captured>>
    BY <1>21 DEF BeginCycle
  <2> QED
    BY <2>1, <2>2, <2>3, <2>4
<1>22. ASSUME Establish
      PROVE  TypeInv'
  BY <1>22 DEF Establish
<1>23. ASSUME EndInitialization
      PROVE  TypeInv'
  BY <1>23 DEF EndInitialization
<1>24. ASSUME LinkDrops
      PROVE  TypeInv'
  BY <1>24 DEF LinkDrops, LoseConnectionState
<1>25. ASSUME DeviceHandles
      PROVE  TypeInv'
  <2>1. tx' \in Seq(Commands) /\ device' \in FanModes /\ seen' \subseteq FanModes
    BY <1>25, FirstFrame DEF DeviceHandles, IsFan
  <2>2. air' \in Seq(Frames)
    <3>1. Head(tx) \in Commands
      BY <1>25, FirstFrame DEF DeviceHandles
    <3> DEFINE echoes == [i \in 1 .. EchoCopies |->
                            [kind |-> "echo", command |-> Head(tx), generation |-> generation]]
    <3>2. air \o echoes \in Seq(Frames)
      BY <3>1, Echoes
    <3>3. air' = air \/ air' = air \o echoes
      BY <1>25 DEF DeviceHandles
    <3> QED
      BY <3>2, <3>3
  <2> QED
    BY <1>25, <2>1, <2>2 DEF DeviceHandles
<1>26. ASSUME Deliver
      PROVE  TypeInv'
  <2>1. Head(air) \in Frames /\ air' \in Seq(Frames)
    BY <1>26, FirstFrame DEF Deliver
  <2>2. rx' \in Seq(Frames) /\ Len(rx') <= QueueLimit
    <3>1. CASE rx' = rx
      BY <3>1
    <3>2. CASE rx' = <<>>
      BY <3>2, EmptySeq
    <3>3. CASE rx' = Append(rx, Head(air)) /\ Len(rx) < QueueLimit
      BY <2>1, <3>3, Appended
    <3> QED
      BY <1>26, <3>1, <3>2, <3>3 DEF Deliver
  <2>3. supEchoes' \subseteq FanModes /\ canEchoes' \subseteq FanModes
    BY <1>26 DEF Deliver, LoseConnectionState, EchoesLeft, Reserved, ActiveFanSent, IsFan
  <2>4. disconnected' \in BOOLEAN /\ fanMode' \in FanModes \cup {NoMode}
    BY <1>26 DEF Deliver, LoseConnectionState
  <2> QED
    BY <1>26, <2>1, <2>2, <2>3, <2>4 DEF Deliver
<1>27. ASSUME Shutdown
      PROVE  TypeInv'
  BY <1>27 DEF Shutdown
<1>28. ASSUME RunnerUnwinds
      PROVE  TypeInv'
  BY <1>28 DEF RunnerUnwinds, Release
<1>29. ASSUME FailForShutdown
      PROVE  TypeInv'
  BY <1>29 DEF FailForShutdown
<1>30. ASSUME NEW m \in ButtonModes, ButtonPressed(m)
      PROVE  TypeInv'
  <2>1. m \in FanModes
    OBVIOUS
  <2>2. air' \in Seq(Frames)
    <3> DEFINE f == [kind |-> "physical", command |-> m, generation |-> generation]
    <3>1. f \in Frames
      BY <2>1 DEF Frames
    <3>2. air' = Append(air, f) \/ air' = air
      BY <1>30 DEF ButtonPressed
    <3> HIDE DEF f
    <3>3. Append(air, f) \in Seq(Frames) /\ air \in Seq(Frames)
      BY <3>1, Appended
    <3> QED
      BY <3>2, <3>3
  <2> QED
    BY <1>30, <2>1, <2>2 DEF ButtonPressed
<1>31. CASE UNCHANGED vars
  BY <1>31 DEF vars
<1> QED
  BY <1>1, <1>2, <1>3, <1>4, <1>5, <1>6, <1>7, <1>8, <1>9, <1>10, <1>11, <1>12, <1>13, <1>14,
       <1>15, <1>16, <1>17, <1>18, <1>19, <1>20, <1>21, <1>22, <1>23, <1>24, <1>25, <1>26,
       <1>27, <1>28, <1>29, <1>30, <1>31
  DEF Next, CallerStep, Attempt, RunnerStep, PurifierStep, StopStep

(* Every variable of the lane keeps its type; in particular no operation   *)
(* is sent more often than the profile allows, over all its sessions.      *)
THEOREM TypeCorrect == Spec => []TypeOK
<1>1. TypeInv => TypeOK
  BY DEF TypeInv
<1> QED
  BY <1>1, TypeInvInit, TypeInvStep, PTL DEF Spec

-----------------------------------------------------------------------------
(* The variables that the invariant of the lane is about, and their types. *)
laneVars == <<status, caller, sends, expired, forced, cancelEvent, quiesced, queueVars,
              runner, generation, stopping, captured>>

LaneTypes ==
  /\ status \in [Ops -> {"new", "open"} \cup Settled]
  /\ caller \in [Ops -> {"none", "awaiting", "quiescing", "returned"}]
  /\ sends \in [Ops -> 0 .. SendLimit] /\ place \in [Ops -> Int]
  /\ lastOp \in 0 .. MaxOps /\ pending \subseteq Ops /\ active \in Ops \cup {NoOp}
  /\ generation \in Nat /\ runner \in Points
  /\ expired \subseteq Ops /\ quiesced \subseteq Ops /\ forced \subseteq Ops

(* The initial states satisfy the invariant of the lane.                   *)
LEMMA LaneInit == Init => LaneInv
BY ConstantsAssumption DEF ConstantsAssumption, Init, Ops, NoOp, Executing, Connected,
     InSession,
   LaneInv, AgeInv, DequeInv, CustodyInv, ExecutionInv, AttemptInv, NoHungCaller,
       NoLostWakeup, ForcedIsSent, LeftEnd

(* A step that leaves the variables of the lane alone keeps its invariant. *)
LEMMA LaneUntouched ==
  ASSUME LaneInv, UNCHANGED laneVars
  PROVE  LaneInv'
BY DEF laneVars, queueVars, LaneInv, AgeInv, DequeInv, CustodyInv, ExecutionInv, AttemptInv,
     NoHungCaller,
       NoLostWakeup, ForcedIsSent, LeftEnd

(* Requeuing the operation in execution keeps the deque in order: its      *)
(* place at the left end of the deque is to the left of all the others,    *)
(* because a session holds no operation that was requeued in it.           *)
LEMMA RequeueStep ==
  ASSUME LaneTypes, LaneTypes', LaneInv, NEW o \in Ops, Requeue(o),
         active = o, runner \in Executing, \A p \in Ops : sends'[p] >= sends[p]
  PROVE  LaneInv'
<1> USE DEF Requeue, Release, Ambiguous, LeftEnd, LaneTypes, LaneInv, Ops, NoOp, Settled,
        Executing, Connected, InSession
<1>1. AgeInv'
  BY DEF AgeInv
<1>2. DequeInv'
  <2>1. place'[o] \in Int /\ \A p \in Ops \ {o} : place'[p] = place[p]
    OBVIOUS
  <2>2. \A p \in pending : p # o /\ LeftEnd < place[p] /\ o < p
    BY DEF DequeInv
  <2>3. o \in pending' => place'[o] = LeftEnd /\ status[o] = "open" /\ o <= lastOp
    BY <2>2 DEF DequeInv
  <2>4. pending' \subseteq pending \cup {o}
    OBVIOUS
  <2>5. \A p \in pending' : /\ status'[p] = "open" /\ p <= lastOp'
                            /\ place'[p] <= p /\ LeftEnd' <= place'[p]
    BY <2>1, <2>2, <2>3, <2>4 DEF DequeInv
  <2>6. \A p, q \in pending' : p < q => place'[p] < place'[q]
    BY <2>1, <2>2, <2>3, <2>4 DEF DequeInv
  <2> QED
    BY <2>5, <2>6 DEF DequeInv
<1>3. CustodyInv'
  BY DEF CustodyInv
<1>4. ExecutionInv' /\ AttemptInv' /\ NoLostWakeup'
  BY DEF ExecutionInv, AttemptInv, NoLostWakeup
<1>5. NoHungCaller' /\ ForcedIsSent'
  BY DEF NoHungCaller, ForcedIsSent
<1> QED
  BY <1>1, <1>2, <1>3, <1>4, <1>5

(* Every action keeps the invariant of the lane.                           *)
LEMMA LaneStep ==
  ASSUME LaneTypes, LaneTypes', LaneInv, [Next]_vars
  PROVE  LaneInv'
<1> USE ConstantsAssumption DEF ConstantsAssumption, LaneTypes, LaneInv, Ops, NoOp, queueVars,
        opVars, echoVars, sessVars, linkVars, Points, Settled, Executing, Connected, InSession,
        LeftEnd
<1>1. ASSUME NEW c \in Commands, Execute(c)
      PROVE  LaneInv'
  <2>1. DequeInv'
    <3>1. \A p \in pending' : p # lastOp + 1 => p \in pending /\ p <= lastOp /\ status'[p] = "open"
      BY <1>1 DEF Execute, Replaced, DequeInv
    <3>2. place'[lastOp + 1] = lastOp + 1 /\ \A p \in Ops : p # lastOp + 1 => place'[p] = place[p]
      BY <1>1 DEF Execute
    <3>3. \A p \in pending' : place'[p] <= p /\ LeftEnd' <= place'[p]
      BY <1>1, <3>1, <3>2 DEF Execute, DequeInv
    <3>4. \A p, q \in pending' : p < q => place'[p] < place'[q]
      BY <1>1, <3>1, <3>2 DEF Execute, DequeInv
    <3> QED
      BY <1>1, <3>1, <3>2, <3>3, <3>4 DEF Execute, DequeInv
  <2>2. AgeInv'
    BY <1>1 DEF Execute, Replaced, AgeInv, DequeInv
  <2>4. CustodyInv'
    BY <1>1 DEF Execute, Replaced, DequeInv, CustodyInv
  <2>5. NoHungCaller'
    BY <1>1 DEF Execute, NoHungCaller
  <2>3. ExecutionInv' /\ AttemptInv' /\ NoLostWakeup' /\ ForcedIsSent'
    BY <1>1 DEF Execute, Replaced,
       AgeInv, DequeInv, CustodyInv, ExecutionInv, AttemptInv, NoHungCaller, NoLostWakeup,
       ForcedIsSent
  <2> QED
    BY <2>1, <2>2, <2>3, <2>4, <2>5
<1>2. ASSUME NEW o \in Ops, Cancel(o), caller[o] = "awaiting"
      PROVE  LaneInv'
  <2>1. NoLostWakeup'
    <3>1. pending' # {} => StillWanted(o)
      BY <1>2 DEF Cancel, StillWanted, DequeInv
    <3> QED
      BY <1>2, <3>1 DEF Cancel, NoLostWakeup
  <2>2. AgeInv' /\ CustodyInv' /\ NoHungCaller'
    BY <1>2 DEF Cancel, CancelledStatus, QuiescedByCancel,
       AgeInv, DequeInv, CustodyInv, ExecutionInv, AttemptInv, NoHungCaller, NoLostWakeup,
       ForcedIsSent
  <2>3. DequeInv' /\ ExecutionInv' /\ AttemptInv' /\ ForcedIsSent'
    BY <1>2 DEF Cancel, CancelledStatus, QuiescedByCancel,
       AgeInv, DequeInv, CustodyInv, ExecutionInv, AttemptInv, NoHungCaller, NoLostWakeup,
       ForcedIsSent
  <2> QED
    BY <2>1, <2>2, <2>3
<1>3. ASSUME NEW o \in Ops, CallerResumes(o)
      PROVE  LaneInv'
  <2>1. NoHungCaller'
    BY <1>3 DEF CallerResumes, AgeInv, DequeInv, CustodyInv, NoHungCaller
  <2>2. AgeInv' /\ DequeInv' /\ CustodyInv' /\ ExecutionInv' /\ AttemptInv' /\ NoLostWakeup' /\ ForcedIsSent'
    BY <1>3 DEF CallerResumes,
       AgeInv, DequeInv, CustodyInv, ExecutionInv, AttemptInv, NoHungCaller, NoLostWakeup,
       ForcedIsSent
  <2> QED
    BY <2>1, <2>2
<1>4. ASSUME NEW o \in Ops, CallerReturns(o)
      PROVE  LaneInv'
  BY <1>4 DEF CallerReturns, AgeInv, DequeInv, CustodyInv, ExecutionInv, AttemptInv,
       NoHungCaller, NoLostWakeup, ForcedIsSent
<1>5. ASSUME NEW o \in Ops, Expire(o)
      PROVE  LaneInv'
  BY <1>5 DEF Expire, AgeInv, DequeInv, CustodyInv, ExecutionInv, AttemptInv, NoHungCaller,
       NoLostWakeup, ForcedIsSent
<1>6. ASSUME NEW o \in Ops, TakeNext(o)
      PROVE  LaneInv'
  <2>1. Verdict(o) \in {"confirmed", "failed", "open"} /\ pending' = Kept \ {o}
    BY <1>6 DEF TakeNext, Verdict
  <2>2. Kept \subseteq pending /\ Dead \subseteq pending /\ Kept \cap Dead = {}
    BY DEF Kept, Dead
  <2>3. pending \subseteq Kept \cup Dead /\ o \in Kept /\ active = NoOp
    BY <1>6 DEF TakeNext, Running, Kept, Dead, DequeInv, ExecutionInv
  <2>4. \A p \in Kept \ {o} : o < p
    BY <1>6, <2>2, <2>3 DEF TakeNext, Leftmost, DequeInv
  <2>5. AgeInv'
    BY <1>6, <2>1, <2>2, <2>3 DEF TakeNext, AgeInv, DequeInv
  <2>6. DequeInv'
    BY <1>6, <2>1, <2>2, <2>3, <2>4 DEF TakeNext, Running, DequeInv
  <2>7. CustodyInv'
    BY <1>6, <2>1, <2>2, <2>3 DEF TakeNext, Running, CustodyInv
  <2>8. ExecutionInv' /\ NoHungCaller' /\ NoLostWakeup'
    BY <1>6, <2>3 DEF TakeNext, Running, ExecutionInv, NoHungCaller, NoLostWakeup
  <2>9. AttemptInv' /\ ForcedIsSent'
    BY <1>6 DEF TakeNext, Running, Verdict, Kept, Dead, AgeInv, AttemptInv, ForcedIsSent
  <2> QED
    BY <2>5, <2>6, <2>7, <2>8, <2>9
<1>7. ASSUME FindNothing
      PROVE  LaneInv'
  <2>1. CustodyInv'
    <3>1. pending = Dead
      BY <1>7 DEF FindNothing, Kept, Dead, DequeInv
    <3> QED
      BY <1>7, <3>1 DEF FindNothing, Running, CustodyInv
  <2>2. AgeInv' /\ DequeInv' /\ ExecutionInv' /\ AttemptInv' /\ NoHungCaller' /\ NoLostWakeup' /\ ForcedIsSent'
    BY <1>7 DEF FindNothing, Running, Kept, Dead,
       AgeInv, DequeInv, CustodyInv, ExecutionInv, AttemptInv, NoHungCaller, NoLostWakeup,
       ForcedIsSent
  <2> QED
    BY <2>1, <2>2
<1>8. ASSUME NEW o \in Ops, Transmit(o)
      PROVE  LaneInv'
  <2>1. \A p \in Ops : sends'[p] >= sends[p]
    BY <1>8 DEF Transmit
  <2>2. CASE Requeue(o)
    BY <1>8, <2>1, <2>2, RequeueStep DEF Transmit
  <2>3. CASE ~Requeue(o)
    <3>1. runner' = "awaiting" /\ UNCHANGED <<status, caller, expired, forced, cancelEvent, quiesced,
                                    queueVars, generation, stopping, captured>>
      BY <1>8, <2>3 DEF Transmit
    <3>2. sends'[o] > 0
      BY <1>8 DEF Transmit
    <3> QED
      BY <1>8, <2>1, <3>1, <3>2 DEF Transmit, AgeInv, DequeInv, CustodyInv, ExecutionInv,
           AttemptInv, NoHungCaller, NoLostWakeup, ForcedIsSent
  <2> QED
    BY <2>2, <2>3
<1>9. ASSUME NEW o \in Ops, TransmitFails(o)
      PROVE  LaneInv'
  <2>1. \A p \in Ops : sends'[p] >= sends[p]
    BY <1>9 DEF TransmitFails
  <2> QED
    BY <1>9, <2>1, RequeueStep DEF TransmitFails, Running
<1>10. ASSUME NEW o \in Ops, Confirm(o)
      PROVE  LaneInv'
  <2>1. \A p \in Ops : status'[p] # status[p] => p = o /\ status[p] = "open" /\ status'[p] = "confirmed"
    BY <1>10 DEF Confirm
  <2>2. o \in quiesced' /\ quiesced \subseteq quiesced' /\ active = o /\ active' = NoOp
        /\ runner = "matched" /\ runner' = "ready" /\ o \notin pending
    BY <1>10 DEF Confirm, Running, Release, DequeInv
  <2>3. AgeInv'
    BY <1>10, <2>1 DEF Confirm, AgeInv
  <2>4. DequeInv'
    BY <1>10, <2>1, <2>2 DEF Confirm, DequeInv
  <2>5. CustodyInv'
    BY <1>10, <2>1, <2>2 DEF Confirm, AgeInv, CustodyInv
  <2>6. ExecutionInv' /\ AttemptInv' /\ NoLostWakeup'
    BY <1>10, <2>2 DEF Confirm, ExecutionInv, AttemptInv, NoLostWakeup
  <2>7. NoHungCaller' /\ ForcedIsSent'
    BY <1>10, <2>1, <2>2 DEF Confirm, NoHungCaller, ForcedIsSent, AttemptInv
  <2> QED
    BY <2>3, <2>4, <2>5, <2>6, <2>7
<1>11. ASSUME NEW o \in Ops, ObserveCancel(o)
      PROVE  LaneInv'
  <2>1. CustodyInv'
    BY <1>11 DEF ObserveCancel, Running, Release, AgeInv, CustodyInv
  <2>2. AgeInv' /\ DequeInv' /\ ExecutionInv' /\ AttemptInv' /\ NoHungCaller' /\ NoLostWakeup' /\ ForcedIsSent'
    BY <1>11 DEF ObserveCancel, Running, Release,
       AgeInv, DequeInv, CustodyInv, ExecutionInv, AttemptInv, NoHungCaller, NoLostWakeup,
       ForcedIsSent
  <2> QED
    BY <2>1, <2>2
<1>12. ASSUME NEW o \in Ops, StaySilent(o)
      PROVE  LaneInv'
  <2>1. CASE Requeue(o) /\ UNCHANGED sends
    <3>1. \A p \in Ops : sends'[p] >= sends[p]
      BY <2>1
    <3> QED
      BY <1>12, <2>1, <3>1, RequeueStep DEF StaySilent, Running
  <2>2. CASE MayResend(o) /\ runner' = "sending" /\ UNCHANGED <<opVars, queueVars, generation, stopping, captured>>
    BY <1>12, <2>2 DEF StaySilent, Running, MayResend, AgeInv, DequeInv, CustodyInv,
         ExecutionInv, AttemptInv, NoHungCaller, NoLostWakeup, ForcedIsSent
  <2> QED
    BY <1>12, <2>1, <2>2 DEF StaySilent
<1>13. ASSUME NEW o \in Ops, LoseChannel(o)
      PROVE  LaneInv'
  <2>1. \A p \in Ops : sends'[p] >= sends[p]
    BY <1>13 DEF LoseChannel
  <2> QED
    BY <1>13, <2>1, RequeueStep DEF LoseChannel, Running
<1>14. ASSUME NEW o \in Ops, DeadlineStops(o)
      PROVE  LaneInv'
  BY <1>14 DEF DeadlineStops, Release, AgeInv, DequeInv, CustodyInv, ExecutionInv, AttemptInv,
       NoHungCaller, NoLostWakeup, ForcedIsSent
<1>15. ASSUME ReceiveOther
      PROVE  LaneInv'
  <2>1. UNCHANGED <<caller, sends, expired, quiesced, lastOp, pending, place, active, generation,
                    stopping, captured>>
    BY <1>15 DEF ReceiveOther, FrameFrame
  <2>2. \A p \in Ops : \/ status'[p] = status[p]
                       \/ p = active /\ status[p] = "open" /\ status'[p] = "superseded"
    BY <1>15 DEF ReceiveOther, Process, Supersede
  <2>3. \A p \in cancelEvent' : p \in cancelEvent \/ status'[p] = "superseded"
    BY <1>15 DEF ReceiveOther, Process, Supersede, ActiveFanSent
  <2>4. \/ runner' = runner /\ runner \in {"awaiting", "polling", "initializing"}
        \/ runner = "idle" /\ runner' = "ready"
    BY <1>15 DEF ReceiveOther, Running
  <2>5. \A p \in forced' : p \in forced \/ status[p] = "open"
    BY <1>15 DEF ReceiveOther, Process, Supersede, DequeInv
  <2>6. AgeInv'
    BY <2>1, <2>2, <2>3 DEF AgeInv
  <2>7. DequeInv'
    BY <2>1, <2>2, <2>4 DEF DequeInv
  <2>8. CustodyInv' /\ NoHungCaller'
    BY <2>1, <2>2, <2>4 DEF CustodyInv, NoHungCaller
  <2>9. ExecutionInv' /\ AttemptInv' /\ NoLostWakeup'
    BY <2>1, <2>4 DEF ExecutionInv, AttemptInv, NoLostWakeup
  <2>10. ForcedIsSent'
    BY <2>1, <2>2, <2>5 DEF ForcedIsSent
  <2> QED
    BY <2>6, <2>7, <2>8, <2>9, <2>10
<1>16. ASSUME ReceiveMatch
      PROVE  LaneInv'
  BY <1>16 DEF ReceiveMatch, Running, FrameFrame, AgeInv, DequeInv, CustodyInv, ExecutionInv,
       AttemptInv, NoHungCaller, NoLostWakeup, ForcedIsSent
<1>17. ASSUME Wake
      PROVE  LaneInv'
  BY <1>17 DEF Wake, Running, RestOfSession, AgeInv, DequeInv, CustodyInv, ExecutionInv,
       AttemptInv, NoHungCaller, NoLostWakeup, ForcedIsSent
<1>18. ASSUME EndPoll
      PROVE  LaneInv'
  BY <1>18 DEF EndPoll, Running, RestOfSession, AgeInv, DequeInv, CustodyInv, ExecutionInv,
       AttemptInv, NoHungCaller, NoLostWakeup, ForcedIsSent
<1>19. ASSUME SessionFails
      PROVE  LaneInv'
  BY <1>19 DEF SessionFails, Running, RestOfSession, AgeInv, DequeInv, CustodyInv,
       ExecutionInv, AttemptInv, NoHungCaller, NoLostWakeup, ForcedIsSent
<1>20. ASSUME BeginCycle
      PROVE  LaneInv'
  <2>1. DequeInv'
    <3>1. generation' = generation + 1 /\ runner' \in InSession /\ active' = active
      BY <1>20 DEF BeginCycle
    <3> QED
      BY <1>20, <3>1 DEF BeginCycle, DequeInv
  <2>2. AgeInv' /\ CustodyInv' /\ ExecutionInv' /\ AttemptInv' /\ NoHungCaller' /\ NoLostWakeup' /\ ForcedIsSent'
    BY <1>20 DEF BeginCycle,
       AgeInv, DequeInv, CustodyInv, ExecutionInv, AttemptInv, NoHungCaller, NoLostWakeup,
       ForcedIsSent
  <2> QED
    BY <2>1, <2>2
<1>21. ASSUME Establish
      PROVE  LaneInv'
  BY <1>21 DEF Establish, Running, RestOfSession, AgeInv, DequeInv, CustodyInv, ExecutionInv,
       AttemptInv, NoHungCaller, NoLostWakeup, ForcedIsSent
<1>22. ASSUME EndInitialization
      PROVE  LaneInv'
  BY <1>22 DEF EndInitialization, Running, RestOfSession, AgeInv, DequeInv, CustodyInv,
       ExecutionInv, AttemptInv, NoHungCaller, NoLostWakeup, ForcedIsSent
<1>23. ASSUME Shutdown
      PROVE  LaneInv'
  BY <1>23 DEF Shutdown, AgeInv, DequeInv, CustodyInv, ExecutionInv, AttemptInv, NoHungCaller,
       NoLostWakeup, ForcedIsSent
<1>24. ASSUME RunnerUnwinds
      PROVE  LaneInv'
  BY <1>24 DEF RunnerUnwinds, Release, AgeInv, DequeInv, CustodyInv, ExecutionInv, AttemptInv,
       NoHungCaller, NoLostWakeup, ForcedIsSent
<1>25. ASSUME FailForShutdown
      PROVE  LaneInv'
  BY <1>25 DEF FailForShutdown, AgeInv, DequeInv, CustodyInv, ExecutionInv, AttemptInv,
       NoHungCaller, NoLostWakeup, ForcedIsSent
<1>26. CASE UNCHANGED laneVars
  BY <1>26, LaneUntouched
<1>27. ASSUME \/ LinkDrops \/ DeviceHandles \/ Deliver \/ UNCHANGED vars
              \/ \E m \in ButtonModes : ButtonPressed(m)
      PROVE  UNCHANGED laneVars
  BY <1>27 DEF laneVars, LinkDrops, DeviceHandles, Deliver, ButtonPressed, vars
<1> QED
  BY <1>1, <1>2, <1>3, <1>4, <1>5, <1>6, <1>7, <1>8, <1>9, <1>10, <1>11, <1>12, <1>13, <1>14,
       <1>15, <1>16, <1>17, <1>18, <1>19, <1>20, <1>21, <1>22, <1>23, <1>24, <1>25, <1>26, <1>27
  DEF Next, CallerStep, CallerTimesOut, CallerCancelled, Attempt, RunnerStep, PurifierStep,
       StopStep

(* Every step, stuttering included, keeps the invariant of the lane.       *)
LEMMA LaneNext ==
  ASSUME TypeInv, LaneInv, [Next]_vars
  PROVE  LaneInv'
<1>1. TypeInv'
  BY TypeInvStep
<1>2. LaneTypes /\ LaneTypes'
  BY <1>1 DEF TypeInv, TypeOK, LaneTypes
<1> QED
  BY <1>2, LaneStep

(* The lane keeps its invariant, whatever the link and the purifier do.    *)
THEOREM LaneCorrect == Spec => []LaneInv
BY TypeInvInit, TypeInvStep, LaneInit, LaneNext, PTL DEF Spec

(* An unsettled control is queued, in execution, or held by the shutdown   *)
(* in progress: requeueing, cancelling, superseding and shutting down      *)
(* never lose one.                                                         *)
THEOREM NothingOrphaned == Spec => []NoOrphan
<1>1. TypeInv /\ LaneInv => NoOrphan
  <2> SUFFICES ASSUME TypeInv, LaneInv, NEW o \in Ops, status[o] = "open"
               PROVE  \/ o \in pending /\ o # active
                      \/ o = active /\ o \notin pending
                      \/ o = captured /\ runner = "closing"
    BY DEF NoOrphan
  <2>1. o \in pending \/ o = active \/ (o = captured /\ runner = "closing")
    BY DEF LaneInv, CustodyInv
  <2>2. o = active => o \notin pending
    BY DEF LaneInv, DequeInv, TypeInv, TypeOK, Ops, NoOp
  <2> QED
    BY <2>1, <2>2
<1> QED
  BY <1>1, TypeInvInit, TypeInvStep, LaneInit, LaneNext, PTL DEF Spec

(* Operations are executed in the order of their submission, whatever was  *)
(* requeued in between.                                                    *)
THEOREM SubmissionOrdered == Spec => []SubmissionOrder
<1>1. LaneInv => SubmissionOrder
  BY DEF LaneInv, DequeInv, SubmissionOrder
<1> QED
  BY <1>1, LaneCorrect, PTL

(* A caller that waits for quiescence is released, now or by the runner.   *)
THEOREM NobodyHangs == Spec => []NoHungCaller
<1>1. LaneInv => NoHungCaller
  BY DEF LaneInv
<1> QED
  BY <1>1, LaneCorrect, PTL

(* The runner does not sleep on queued work.                               *)
THEOREM NoWakeupLost == Spec => []NoLostWakeup
<1>1. LaneInv => NoLostWakeup
  BY DEF LaneInv
<1> QED
  BY <1>1, LaneCorrect, PTL

(* A control that replaces physically superseded work is never confirmed   *)
(* from the cache.                                                         *)
THEOREM ReplacementIsSent == Spec => []ForcedIsSent
<1>1. LaneInv => ForcedIsSent
  BY DEF LaneInv
<1> QED
  BY <1>1, LaneCorrect, PTL

(* No step sends an operation past its budget or its deadline, before an   *)
(* older unsettled one, or after its caller returned.                      *)
THEOREM SendsAreLawful == Spec => OnlyLawfulSends
<1> DEFINE Lawful == \A o \in Ops : sends'[o] # sends[o] =>
                       /\ sends'[o] = sends[o] + 1 /\ sends'[o] <= SendLimit
                       /\ o \notin expired
                       /\ \A p \in Ops : p < o => status[p] # "open"
                       /\ caller[o] \in {"awaiting", "quiescing"}
<1>1. ASSUME TypeInv, LaneInv, [Next]_vars
      PROVE  Lawful
  <2>1. ASSUME NEW o \in Ops, Transmit(o)
        PROVE  Lawful
    <3>1. runner = "sending" /\ active = o /\ sends' = [sends EXCEPT ![o] = @ + 1]
      BY <2>1 DEF Transmit
    <3>2. /\ sends[o] < SendLimit /\ o \notin expired /\ caller[o] \in {"awaiting", "quiescing"}
      BY <1>1, <3>1 DEF LaneInv, AttemptInv
    <3>3. \A p \in Ops : p < o => status[p] # "open"
      BY <1>1, <3>1 DEF LaneInv, DequeInv, CustodyInv, TypeInv, TypeOK, Ops, NoOp
    <3> QED
      BY <1>1, <3>1, <3>2, <3>3, ConstantsAssumption DEF ConstantsAssumption, TypeInv, TypeOK
  <2>2. (\A o \in Ops : ~Transmit(o)) => UNCHANGED sends
    BY <1>1 DEF Next, vars, opVars, CallerStep, CallerTimesOut, CallerCancelled, Cancel,
         CallerResumes,
       CallerReturns, Attempt, RunnerStep, PurifierStep, StopStep, Execute, Expire, TakeNext,
       FindNothing, TransmitFails, Confirm, ObserveCancel, StaySilent, LoseChannel,
       DeadlineStops,
       ReceiveOther, ReceiveMatch, FrameFrame, Wake, EndPoll, SessionFails, RestOfSession,
       BeginCycle, Establish, EndInitialization, LinkDrops, DeviceHandles, ButtonPressed,
       Deliver,
       Shutdown, RunnerUnwinds, FailForShutdown
  <2> QED
    BY <2>1, <2>2
<1>2. Lawful => [Lawful]_vars
  OBVIOUS
<1> QED
  BY <1>1, TypeInvInit, TypeInvStep, LaneInit, LaneNext, PTL DEF Spec, OnlyLawfulSends
=============================================================================
