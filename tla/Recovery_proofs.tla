--------------------------- MODULE Recovery_proofs ---------------------------
(***************************************************************************)
(* Theorems about the recovery policy and its waits, for every value of    *)
(* the constants: thresholds, floors, delays, window and jitter.           *)
(***************************************************************************)
EXTENDS Recovery, SequenceTheorems, FiniteSetTheorems, TLAPS

(* Growing old, a history stays a sequence and gets no longer.             *)
LEMMA AgedIsShorter ==
  ASSUME NEW ages \in Seq(Nat)
  PROVE  Aged(ages) \in Seq(Nat) /\ Len(Aged(ages)) <= Len(ages)
<1> DEFINE old == Cardinality({i \in DOMAIN ages : ages[i] >= Window})
<1>1. Len(ages) \in Nat /\ DOMAIN ages = 1 .. Len(ages)
  BY LenProperties
<1>2. IsFiniteSet(1 .. Len(ages)) /\ Cardinality(1 .. Len(ages)) = Len(ages)
  BY <1>1, FS_Interval
<1>3. old \in Nat /\ old <= Len(ages)
  <2>1. {i \in DOMAIN ages : ages[i] >= Window} \in SUBSET (1 .. Len(ages))
    BY <1>1
  <2>2. IsFiniteSet({i \in DOMAIN ages : ages[i] >= Window}) /\ old <= Len(ages)
    BY <1>2, <2>1, FS_Subset
  <2>3. QED
    BY <2>2, FS_CardinalityType
<1>4. Aged(ages) = [i \in 1 .. Len(ages) - old |-> ages[i + old] + 1]
  BY DEF Aged
<1> HIDE DEF old
<1>5. \A i \in 1 .. Len(ages) - old : ages[i + old] + 1 \in Nat
  <2> TAKE i \in 1 .. Len(ages) - old
  <2>1. i + old \in 1 .. Len(ages)
    BY <1>1, <1>3
  <2>2. ages[i + old] \in Nat
    BY <2>1, ElementOfSeq
  <2>3. QED
    BY <2>2
<1>6. Len(ages) - old \in Nat /\ Len(ages) - old <= Len(ages)
  BY <1>1, <1>3
<1>7. QED
  BY <1>4, <1>5, <1>6

(* A bounded history grows by one entry at most.                           *)
LEMMA RecordedIsLonger ==
  ASSUME NEW ages \in Seq(Nat)
  PROVE  Recorded(ages) \in Seq(Nat) /\ Len(Recorded(ages)) <= Len(ages) + 1
<1>1. CASE Len(ages) = History /\ ages # <<>>
  <2>1. Tail(ages) \in Seq(Nat) /\ Len(Tail(ages)) = Len(ages) - 1
    BY <1>1, HeadTailProperties
  <2>2. Len(ages) \in Nat
    BY LenProperties
  <2>3. Recorded(ages) = Append(Tail(ages), 0)
    BY <1>1 DEF Recorded
  <2>4. Append(Tail(ages), 0) \in Seq(Nat) /\ Len(Append(Tail(ages), 0)) = Len(Tail(ages)) + 1
    BY <2>1, AppendProperties
  <2>5. QED
    BY <2>1, <2>2, <2>3, <2>4
<1>2. CASE Len(ages) # History
  <2>1. Recorded(ages) = Append(ages, 0)
    BY <1>2 DEF Recorded
  <2>2. Append(ages, 0) \in Seq(Nat) /\ Len(Append(ages, 0)) = Len(ages) + 1
    BY AppendProperties
  <2>3. QED
    BY <2>1, <2>2, LenProperties
<1>3. ~(Len(ages) = History /\ ages = <<>>)
  <2>1. History # 0
    BY HistoryAssumption, RecoveryAssumption DEF HistoryAssumption, RecoveryAssumption
  <2>2. QED
    BY <2>1, EmptySeq
<1>4. QED
  BY <1>1, <1>2, <1>3

(* The constants, and what is computed from them, are numbers.             *)
LEMMA Numbers ==
  /\ Initial \in Nat /\ BackoffMax \in Nat /\ RecentMax \in Nat /\ Jitters \subseteq Nat
  /\ Settle \in Nat /\ ResetAfter \in Nat /\ Failures \in Nat \ {0} /\ Wakes \in Nat \ {0}
  /\ InitialFloor \in Nat /\ MaxFloor \in Nat /\ MaxCommands \in Nat
  /\ LongTime \in Nat /\ LongTime >= ResetAfter
BY RecoveryAssumption DEF RecoveryAssumption, LongTime, Most

(* A plan is a number of each kind, and its floor that of the circuit.     *)
LEMMA PlannedIsTyped ==
  ASSUME TypeInv, NEW j \in Jitters
  PROVE  /\ Planned(j).floor = CircuitFloor /\ Planned(j).floor \in Nat
         /\ Planned(j).planned \in Nat
<1>1. CircuitFloor \in Nat
  BY Numbers DEF CircuitFloor
<1>2. j \in Nat /\ requested \in Nat /\ RecentMax \in Nat
  BY Numbers DEF TypeInv
<1>3. Least(requested, RecentMax) \in Nat
  BY <1>2 DEF Least
<1>4. (IF Recent THEN Least(requested, RecentMax) ELSE requested) + j \in Nat
  BY <1>2, <1>3
<1>5. \A a, b \in Nat : Most(a, b) \in Nat
  BY DEF Most
<1>6. QED
  BY <1>1, <1>4, <1>5 DEF Planned

(* An open circuit has both thresholds reached.                            *)
LEMMA OpenCircuit ==
  ASSUME CircuitFloor > 0
  PROVE  ~(Len(failures) < Failures) /\ ~(Len(wakes) < Wakes)
BY DEF CircuitFloor

-----------------------------------------------------------------------------
LEMMA RecoveryInit == Init => RecoveryInv
<1> SUFFICES ASSUME Init PROVE RecoveryInv
  OBVIOUS
<1>1. <<>> \in Seq(Nat) /\ Len(<<>>) = 0
  BY EmptySeq
<1>2. TypeInv
  <2>1. plan.planned = 0 /\ plan.floor = 0
    BY DEF Init
  <2>2. unstable \in 0 .. Failures /\ woken \in 0 .. Wakes /\ requested \in Nat
    BY Numbers DEF Init
  <2>3. failures \in Seq(Nat) /\ wakes \in Seq(Nat)
    BY <1>1 DEF Init
  <2>4. /\ phase \in Phases /\ spent \in Nat /\ until \in Nat
        /\ triggered \in BOOLEAN /\ event \in BOOLEAN /\ live \in BOOLEAN
        /\ commands \in Nat /\ cuts \in Nat
    BY DEF Init, Phases
  <2>5. QED
    BY <2>1, <2>2, <2>3, <2>4 DEF TypeInv
<1>3. EvidenceInv
  BY <1>1 DEF Init, EvidenceInv
<1>4. WaitInv /\ EventInv /\ CircuitIsEarned /\ CutsArePaid
  BY DEF Init, WaitInv, EventInv, CircuitIsEarned, CutsArePaid
<1>5. QED
  BY <1>2, <1>3, <1>4 DEF RecoveryInv

(* A cycle fails: its evidence is recorded, or all of it is forgotten.     *)
LEMMA FailStep ==
  ASSUME RecoveryInv, NEW stable \in Nat, Fail(stable),
         phase # "stopped",
         phase = "ready" => stable = spent
  PROVE  RecoveryInv'
<1>1. TypeInv /\ EvidenceInv /\ EventInv /\ CutsArePaid
  BY DEF RecoveryInv
<1>2. /\ phase' = "cleanup" /\ spent' = 0
      /\ UNCHANGED <<plan, until, triggered, event, live, commands, cuts>>
  BY DEF Fail, waitVars, radioVars
<1>3. /\ failures' \in Seq(Nat) /\ wakes' \in Seq(Nat) /\ requested' \in Nat
      /\ unstable' \in 0 .. Failures /\ woken' \in 0 .. Wakes
      /\ Len(failures') <= unstable' \/ unstable' = Failures
      /\ Len(wakes') <= woken' \/ woken' = Wakes
  <2>1. CASE stable >= ResetAfter
    <3>1. /\ requested' = Initial /\ failures' = <<>> /\ wakes' = <<>>
          /\ unstable' = 0 /\ woken' = 0
      BY <2>1 DEF Fail
    <3>2. QED
      BY <3>1, EmptySeq, Numbers
  <2>2. CASE ~(stable >= ResetAfter)
    <3>1. /\ failures' = Recorded(failures) /\ unstable' = Least(unstable + 1, Failures)
          /\ requested' = requested /\ wakes' = wakes /\ woken' = woken
      BY <2>2 DEF Fail
    <3>2. /\ Len(failures) <= unstable \/ unstable = Failures
          /\ Len(wakes) <= woken \/ woken = Wakes
      BY <1>1, <2>2 DEF EvidenceInv
    <3>3. Recorded(failures) \in Seq(Nat) /\ Len(Recorded(failures)) <= Len(failures) + 1
      BY <1>1, RecordedIsLonger DEF TypeInv
    <3>4. Len(failures) \in Nat /\ Len(Recorded(failures)) \in Nat
      BY <1>1, <3>3, LenProperties DEF TypeInv
    <3>5. unstable \in Nat /\ unstable <= Failures /\ Failures \in Nat
      BY <1>1, Numbers DEF TypeInv
    <3>6. /\ Least(unstable + 1, Failures) \in 0 .. Failures
          /\ \/ Len(Recorded(failures)) <= Least(unstable + 1, Failures)
             \/ Least(unstable + 1, Failures) = Failures
      BY <3>2, <3>3, <3>4, <3>5 DEF Least
    <3>7. QED
      BY <1>1, <3>1, <3>2, <3>3, <3>6 DEF TypeInv
  <2>3. QED
    BY <2>1, <2>2
<1>4. TypeInv'
  BY <1>1, <1>2, <1>3 DEF TypeInv, Phases
<1>5. EvidenceInv'
  BY <1>3 DEF EvidenceInv
<1>6. WaitInv' /\ CircuitIsEarned'
  BY <1>2 DEF WaitInv, CircuitIsEarned
<1>7. EventInv' /\ CutsArePaid'
  BY <1>1, <1>2 DEF EventInv, CutsArePaid
<1>8. QED
  BY <1>4, <1>5, <1>6, <1>7 DEF RecoveryInv

-----------------------------------------------------------------------------
(* Time goes on: evidence does not grow, and a wait that is over ends      *)
(* first.                                                                  *)
LEMMA TickStep == RecoveryInv /\ Tick => RecoveryInv'
<1> SUFFICES ASSUME RecoveryInv, Tick PROVE RecoveryInv'
  OBVIOUS
<1>1. TypeInv /\ EvidenceInv /\ WaitInv /\ EventInv /\ CircuitIsEarned /\ CutsArePaid
  BY DEF RecoveryInv
<1>2. UNCHANGED <<phase, timer, requested, plan, until, triggered, event, live, commands, cuts>>
  BY DEF Tick, waitVars
<1>3. spent \in Nat /\ spent' \in Nat
  BY <1>1, Numbers DEF Tick, TypeInv, Least
<1>4. /\ failures' \in Seq(Nat) /\ Len(failures') <= Len(failures)
      /\ wakes' \in Seq(Nat) /\ Len(wakes') <= Len(wakes)
  BY <1>1, AgedIsShorter DEF Tick, TypeInv
<1>5. /\ Len(failures) \in Nat /\ Len(failures') \in Nat
      /\ Len(wakes) \in Nat /\ Len(wakes') \in Nat
  BY <1>1, <1>4, LenProperties DEF TypeInv
<1>6. \/ phase = "ready" /\ spent' = ResetAfter /\ unstable' = 0 /\ woken' = 0
      \/ ~(phase = "ready" /\ spent' = ResetAfter) /\ UNCHANGED <<unstable, woken>>
  BY DEF Tick
<1>7. TypeInv'
  <2>1. unstable' \in 0 .. Failures /\ woken' \in 0 .. Wakes
    BY <1>1, <1>6, Numbers DEF TypeInv
  <2>2. QED
    BY <1>1, <1>2, <1>3, <1>4, <2>1 DEF TypeInv
<1>8. EvidenceInv'
  <2>1. CASE phase = "ready" /\ spent' = ResetAfter
    BY <1>2, <2>1, Numbers DEF EvidenceInv
  <2>2. CASE phase = "ready" /\ spent >= ResetAfter
    <3>1. spent' >= ResetAfter
      BY <1>3, <2>2, Numbers DEF Tick, Least
    <3>2. QED
      BY <1>2, <2>2, <3>1 DEF EvidenceInv
  <2>3. CASE /\ ~(phase = "ready" /\ spent' = ResetAfter)
             /\ ~(phase = "ready" /\ spent >= ResetAfter)
    <3>1. unstable' = unstable /\ woken' = woken
      BY <1>6, <2>3
    <3>2. /\ Len(failures) <= unstable \/ unstable = Failures
          /\ Len(wakes) <= woken \/ woken = Wakes
      BY <1>1, <2>3 DEF EvidenceInv
    <3>3. unstable \in Nat /\ woken \in Nat
      BY <1>1, Numbers DEF TypeInv
    <3>4. /\ Len(failures') <= unstable' \/ unstable' = Failures
          /\ Len(wakes') <= woken' \/ woken' = Wakes
      BY <1>4, <1>5, <3>1, <3>2, <3>3
    <3>5. QED
      BY <3>4 DEF EvidenceInv
  <2>4. QED
    BY <2>1, <2>2, <2>3
<1>9. WaitInv' /\ EventInv' /\ CutsArePaid'
  BY <1>1, <1>2 DEF WaitInv, EventInv, CutsArePaid
<1>10. CircuitIsEarned'
  BY <1>1, <1>2, <1>6 DEF CircuitIsEarned
<1>11. QED
  BY <1>7, <1>8, <1>9, <1>10 DEF RecoveryInv

(* An advertisement, a command, a route, a session and a taken event leave *)
(* the policy alone.                                                       *)
LEMMA SurroundingsStep ==
  RecoveryInv /\ ((\E told \in BOOLEAN : Advertises(told)) \/ Accept) => RecoveryInv'
<1> SUFFICES ASSUME RecoveryInv, (\E told \in BOOLEAN : Advertises(told)) \/ Accept
             PROVE  RecoveryInv'
  OBVIOUS
<1>1. TypeInv /\ EvidenceInv /\ WaitInv /\ EventInv /\ CircuitIsEarned /\ CutsArePaid
  BY DEF RecoveryInv
<1>2. UNCHANGED <<phase, spent, failures, wakes, requested, plan, until, triggered,
                  cuts, unstable, woken>>
  BY DEF Advertises, Accept, policyVars, waitVars, ghosts
<1>3. /\ live' \in BOOLEAN /\ event' \in BOOLEAN /\ commands' \in Nat
      /\ commands <= commands'
      /\ event' = event \/ commands' = commands + 1
  <2>1. CASE Accept
    BY <1>1, <2>1 DEF Accept, TypeInv, radioVars
  <2>2. ASSUME NEW told \in BOOLEAN, Advertises(told)
        PROVE  live' \in BOOLEAN /\ event' = event /\ commands' = commands
    BY <1>1, <2>2 DEF Advertises, TypeInv
  <2>3. QED
    BY <1>1, <2>1, <2>2 DEF TypeInv
<1>4. TypeInv'
  BY <1>1, <1>2, <1>3 DEF TypeInv
<1>5. EvidenceInv' /\ WaitInv' /\ CircuitIsEarned'
  BY <1>1, <1>2 DEF EvidenceInv, WaitInv, CircuitIsEarned
<1>6. CutsArePaid' /\ EventInv'
  <2>1. cuts \in Nat /\ commands \in Nat /\ cuts <= commands
    BY <1>1 DEF TypeInv, CutsArePaid
  <2>2. phase # "stopped" /\ event => cuts < commands
    BY <1>1 DEF EventInv
  <2>3. QED
    BY <1>2, <1>3, <2>1, <2>2 DEF EventInv, CutsArePaid
<1>7. QED
  BY <1>4, <1>5, <1>6 DEF RecoveryInv

(* A shutdown forgets everything.                                          *)
LEMMA ShutdownStep == RecoveryInv /\ Shutdown => RecoveryInv'
<1> SUFFICES ASSUME RecoveryInv, Shutdown PROVE RecoveryInv'
  OBVIOUS
<1>1. TypeInv /\ EvidenceInv /\ WaitInv /\ EventInv /\ CircuitIsEarned /\ CutsArePaid
  BY DEF RecoveryInv
<1>2. /\ phase' = "stopped" /\ event' = TRUE
      /\ failures' = <<>> /\ wakes' = <<>> /\ unstable' = 0 /\ woken' = 0
      /\ UNCHANGED <<spent, requested, plan, until, triggered, live, commands, cuts>>
  BY DEF Shutdown, waitVars, radioVars
<1>3. /\ <<>> \in Seq(Nat) /\ Len(<<>>) = 0
      /\ 0 \in 0 .. Failures /\ 0 \in 0 .. Wakes
  BY EmptySeq, Numbers
<1>4. TypeInv'
  BY <1>1, <1>2, <1>3 DEF TypeInv, Phases
<1>5. EvidenceInv'
  BY <1>2, <1>3 DEF EvidenceInv
<1>6. WaitInv' /\ EventInv' /\ CircuitIsEarned' /\ CutsArePaid'
  BY <1>1, <1>2 DEF WaitInv, EventInv, CircuitIsEarned, CutsArePaid
<1>7. QED
  BY <1>4, <1>5, <1>6 DEF RecoveryInv

-----------------------------------------------------------------------------
(* A cycle goes on: nothing of the policy changes, and the time of a       *)
(* session starts anew.                                                    *)
LEMMA ProgressStep == RecoveryInv /\ (Route \/ Ready \/ TakesEvent) => RecoveryInv'
<1> SUFFICES ASSUME RecoveryInv, Route \/ Ready \/ TakesEvent PROVE RecoveryInv'
  OBVIOUS
<1>1. TypeInv /\ EvidenceInv /\ EventInv /\ CutsArePaid
  BY DEF RecoveryInv
<1>2. /\ UNCHANGED <<failures, wakes, requested, plan, until, triggered, commands,
                     cuts, unstable, woken>>
      /\ phase' \in {"connecting", "ready"}
      /\ phase # "ready" \/ (phase' = "ready" /\ spent' = spent)
      /\ spent' = 0 \/ spent' = spent
      /\ live' = FALSE \/ live' = live
      /\ event' = FALSE \/ event' = event
      /\ phase # "stopped"
  BY DEF Route, Ready, TakesEvent, policyVars, waitVars, radioVars, ghosts
<1>3. TypeInv'
  <2>1. live' \in BOOLEAN /\ event' \in BOOLEAN
    BY <1>1, <1>2 DEF TypeInv
  <2>2. phase' \in Phases /\ spent' \in Nat
    BY <1>1, <1>2 DEF TypeInv, Phases
  <2>3. QED
    BY <1>1, <1>2, <2>1, <2>2 DEF TypeInv
<1>4. EvidenceInv'
  BY <1>1, <1>2 DEF EvidenceInv
<1>5. WaitInv' /\ CircuitIsEarned'
  BY <1>2 DEF WaitInv, CircuitIsEarned
<1>6. EventInv' /\ CutsArePaid'
  BY <1>1, <1>2 DEF EventInv, CutsArePaid
<1>7. QED
  BY <1>3, <1>4, <1>5, <1>6 DEF RecoveryInv

(* The timer of a stable session forgets the evidence.                     *)
LEMMA TimerStep == RecoveryInv /\ TimerFires => RecoveryInv'
<1> SUFFICES ASSUME RecoveryInv, TimerFires PROVE RecoveryInv'
  OBVIOUS
<1>1. TypeInv /\ EvidenceInv /\ EventInv /\ CutsArePaid
  BY DEF RecoveryInv
<1>2. /\ phase = "ready" /\ failures' = <<>> /\ wakes' = <<>>
      /\ UNCHANGED <<phase, spent, requested, plan, until, triggered, event, live,
                     commands, cuts, unstable, woken>>
  BY DEF TimerFires, waitVars, radioVars
<1>3. <<>> \in Seq(Nat) /\ Len(<<>>) = 0
  BY EmptySeq
<1>4. TypeInv'
  BY <1>1, <1>2, <1>3 DEF TypeInv
<1>5. EvidenceInv'
  <2>1. unstable \in Nat /\ woken \in Nat
    BY <1>1, Numbers DEF TypeInv
  <2>2. QED
    BY <1>2, <1>3, <2>1 DEF EvidenceInv
<1>6. WaitInv' /\ CircuitIsEarned'
  BY <1>2 DEF WaitInv, CircuitIsEarned
<1>7. EventInv' /\ CutsArePaid'
  BY <1>1, <1>2 DEF EventInv, CutsArePaid
<1>8. QED
  BY <1>4, <1>5, <1>6, <1>7 DEF RecoveryInv

(* The wait is planned: where the circuit opens, both kinds of evidence    *)
(* have reached their thresholds since the last stable session.            *)
LEMMA CleanedUpStep == RecoveryInv /\ CleanedUp => RecoveryInv'
<1> SUFFICES ASSUME RecoveryInv, CleanedUp PROVE RecoveryInv'
  OBVIOUS
<1>1. TypeInv /\ EvidenceInv /\ EventInv /\ CutsArePaid
  BY DEF RecoveryInv
<1>2. /\ phase = "cleanup" /\ phase' = "backoff" /\ spent' = 0 /\ live' = FALSE
      /\ until' = 0 /\ triggered' = FALSE
      /\ UNCHANGED <<failures, wakes, requested, event, commands, cuts, unstable, woken>>
  BY DEF CleanedUp, policyVars, ghosts
<1>3. PICK j \in Jitters : plan' = Planned(j)
  BY DEF CleanedUp
<1>4. /\ plan'.floor = CircuitFloor /\ plan'.floor \in Nat /\ plan'.planned \in Nat
  BY <1>1, <1>3, PlannedIsTyped
<1>5. TypeInv'
  BY <1>1, <1>2, <1>4 DEF TypeInv, Phases
<1>6. /\ Len(failures) <= unstable \/ unstable = Failures
      /\ Len(wakes) <= woken \/ woken = Wakes
  BY <1>1, <1>2 DEF EvidenceInv
<1>7. EvidenceInv'
  BY <1>2, <1>6 DEF EvidenceInv
<1>8. CircuitIsEarned'
  <2> SUFFICES ASSUME plan'.floor > 0 PROVE unstable' = Failures /\ woken' = Wakes
    BY DEF CircuitIsEarned
  <2>1. ~(Len(failures) < Failures) /\ ~(Len(wakes) < Wakes)
    BY <1>4, OpenCircuit
  <2>2. Len(failures) \in Nat /\ Len(wakes) \in Nat
    BY <1>1, LenProperties DEF TypeInv
  <2>3. unstable = Failures /\ woken = Wakes
    BY <1>1, <1>6, <2>1, <2>2, Numbers DEF TypeInv
  <2>4. QED
    BY <1>2, <2>3
<1>9. WaitInv'
  BY <1>2 DEF WaitInv
<1>10. EventInv' /\ CutsArePaid'
  BY <1>1, <1>2 DEF EventInv, CutsArePaid
<1>11. QED
  BY <1>5, <1>7, <1>8, <1>9, <1>10 DEF RecoveryInv

(* A wait is over: a command that cut it short is announced no more.       *)
LEMMA OverStep ==
  ASSUME RecoveryInv, NEW advertised \in BOOLEAN, NEW commanded \in BOOLEAN,
         phase \in {"backoff", "settling"}, commanded => event, event' = FALSE,
         Over(advertised, commanded)
  PROVE  RecoveryInv'
<1>1. TypeInv /\ EvidenceInv /\ EventInv /\ CutsArePaid
  BY DEF RecoveryInv
<1>2. /\ phase' = "waiting" /\ spent' = 0 /\ live' = FALSE
      /\ until' = 0 /\ triggered' = FALSE
      /\ UNCHANGED <<failures, plan, commands, unstable>>
  BY DEF Over
<1>3. requested' \in Nat
  BY <1>1, Numbers DEF Over, TypeInv, Least
<1>4. /\ Len(failures) <= unstable \/ unstable = Failures
      /\ Len(wakes) <= woken \/ woken = Wakes
  BY <1>1 DEF EvidenceInv
<1>5. /\ wakes' \in Seq(Nat) /\ woken' \in 0 .. Wakes
      /\ Len(wakes') <= woken' \/ woken' = Wakes
  <2>1. CASE advertised
    <3>1. wakes' = Recorded(wakes) /\ woken' = Least(woken + 1, Wakes)
      BY <2>1 DEF Over
    <3>2. Recorded(wakes) \in Seq(Nat) /\ Len(Recorded(wakes)) <= Len(wakes) + 1
      BY <1>1, RecordedIsLonger DEF TypeInv
    <3>3. Len(wakes) \in Nat /\ Len(Recorded(wakes)) \in Nat
      BY <1>1, <3>2, LenProperties DEF TypeInv
    <3>4. woken \in Nat /\ woken <= Wakes /\ Wakes \in Nat
      BY <1>1, Numbers DEF TypeInv
    <3>5. /\ Least(woken + 1, Wakes) \in 0 .. Wakes
          /\ \/ Len(Recorded(wakes)) <= Least(woken + 1, Wakes)
             \/ Least(woken + 1, Wakes) = Wakes
      BY <1>4, <3>2, <3>3, <3>4 DEF Least
    <3>6. QED
      BY <3>1, <3>2, <3>5
  <2>2. CASE ~advertised
    BY <1>1, <1>4, <2>2 DEF Over, TypeInv
  <2>3. QED
    BY <2>1, <2>2
<1>6. /\ cuts' \in Nat /\ cuts' <= commands
  <2>1. CASE commanded
    <3>1. cuts < commands /\ cuts \in Nat /\ commands \in Nat
      BY <1>1, <2>1 DEF EventInv, TypeInv
    <3>2. cuts' \in {cuts, cuts + 1}
      BY DEF Over
    <3>3. QED
      BY <3>1, <3>2
  <2>2. CASE ~commanded
    BY <1>1, <2>2 DEF Over, TypeInv, CutsArePaid
  <2>3. QED
    BY <2>1, <2>2
<1>7. TypeInv'
  BY <1>1, <1>2, <1>3, <1>5, <1>6 DEF TypeInv, Phases
<1>8. EvidenceInv'
  BY <1>2, <1>4, <1>5 DEF EvidenceInv
<1>9. WaitInv' /\ EventInv' /\ CircuitIsEarned'
  BY <1>2 DEF WaitInv, EventInv, CircuitIsEarned
<1>10. CutsArePaid'
  BY <1>2, <1>6 DEF CutsArePaid
<1>11. QED
  BY <1>7, <1>8, <1>9, <1>10 DEF RecoveryInv

(* The second wait starts: it is at least the circuit's floor and, where   *)
(* the circuit is closed, the time that an advertisement must be left.     *)
LEMMA SettlesStep ==
  ASSUME RecoveryInv, NEW r \in Reasons, BackoffSettles(r)
  PROVE  RecoveryInv'
<1>1. TypeInv /\ EvidenceInv /\ EventInv /\ CircuitIsEarned /\ CutsArePaid
  BY DEF RecoveryInv
<1>2. /\ phase = "backoff" /\ phase' = "settling" /\ event' = FALSE /\ live' = FALSE
      /\ until' = LeastWait(r) /\ triggered' = live /\ spent < LeastWait(r)
      /\ UNCHANGED <<spent, failures, wakes, requested, plan, commands, cuts, unstable, woken>>
  BY DEF BackoffSettles, Woken, policyVars, ghosts
<1>3. plan.floor \in Nat /\ Settle \in Nat /\ spent \in Nat
  BY <1>1, Numbers DEF TypeInv
<1>4. /\ LeastWait(r) \in Nat /\ LeastWait(r) >= plan.floor
      /\ plan.floor = 0 => LeastWait(r) >= Settle
  BY <1>2, <1>3 DEF LeastWait, Most
<1>5. TypeInv'
  BY <1>1, <1>2, <1>4 DEF TypeInv, Phases
<1>6. EvidenceInv'
  BY <1>1, <1>2 DEF EvidenceInv
<1>7. WaitInv'
  BY <1>2, <1>4 DEF WaitInv
<1>8. EventInv' /\ CutsArePaid' /\ CircuitIsEarned'
  BY <1>1, <1>2 DEF EventInv, CutsArePaid, CircuitIsEarned
<1>9. QED
  BY <1>5, <1>6, <1>7, <1>8 DEF RecoveryInv

LEMMA WaitStep == RecoveryInv /\ Wait => RecoveryInv'
<1> SUFFICES ASSUME RecoveryInv, Wait PROVE RecoveryInv'
  OBVIOUS
<1>1. TypeInv
  BY DEF RecoveryInv
<1>2. triggered \in BOOLEAN /\ event \in BOOLEAN /\ live \in BOOLEAN
  BY <1>1 DEF TypeInv
<1>3. CASE Settled
  <2>1. phase = "settling" /\ event' = FALSE /\ Over(triggered, event)
    BY <1>3 DEF Settled
  <2>2. QED
    BY <1>2, <2>1, OverStep
<1>4. ASSUME NEW r \in Reasons, BackoffEnds(r)
      PROVE  RecoveryInv'
  <2>1. phase = "backoff" /\ event' = FALSE /\ Over(live, r = "command")
    BY <1>4 DEF BackoffEnds, Woken
  <2>2. (r = "command") \in BOOLEAN /\ (r = "command" => event)
    BY <1>4 DEF BackoffEnds, Woken
  <2>3. QED
    BY <1>2, <2>1, <2>2, OverStep
<1>5. ASSUME NEW r \in Reasons, BackoffSettles(r)
      PROVE  RecoveryInv'
  BY <1>5, SettlesStep
<1>6. QED
  BY <1>3, <1>4, <1>5 DEF Wait

(* A cycle's failure, wherever it is noticed.                              *)
LEMMA FailureStep ==
  RecoveryInv /\ (NoRoute \/ ConnectFails \/ SessionFails) => RecoveryInv'
<1> SUFFICES ASSUME RecoveryInv, NoRoute \/ ConnectFails \/ SessionFails
             PROVE  RecoveryInv'
  OBVIOUS
<1>1. CASE NoRoute \/ ConnectFails
  <2>1. Fail(0) /\ phase \in {"waiting", "connecting"}
    BY <1>1 DEF NoRoute, ConnectFails
  <2>2. QED
    BY <2>1, FailStep
<1>2. CASE SessionFails
  <2>1. Fail(spent) /\ phase = "ready"
    BY <1>2 DEF SessionFails
  <2>2. spent \in Nat
    BY DEF RecoveryInv, TypeInv
  <2>3. QED
    BY <2>1, <2>2, FailStep
<1>3. QED
  BY <1>1, <1>2

LEMMA RecoveryStep == RecoveryInv /\ [Next]_vars => RecoveryInv'
<1> SUFFICES ASSUME RecoveryInv, [Next]_vars PROVE RecoveryInv'
  OBVIOUS
<1>1. CASE Tick
  BY <1>1, TickStep
<1>2. CASE Accept \/ \E told \in BOOLEAN : Advertises(told)
  BY <1>2, SurroundingsStep
<1>3. CASE Shutdown
  BY <1>3, ShutdownStep
<1>4. CASE Cycle
  <2>1. CASE Route \/ Ready \/ TakesEvent
    BY <2>1, ProgressStep
  <2>2. CASE NoRoute \/ ConnectFails \/ SessionFails
    BY <2>2, FailureStep
  <2>3. CASE TimerFires
    BY <2>3, TimerStep
  <2>4. CASE CleanedUp
    BY <2>4, CleanedUpStep
  <2>5. QED
    BY <1>4, <2>1, <2>2, <2>3, <2>4 DEF Cycle
<1>5. CASE Wait
  BY <1>5, WaitStep
<1>6. CASE UNCHANGED vars
  <2>1. UNCHANGED <<phase, spent, requested, failures, wakes, plan, until, triggered,
                    event, live, commands, cuts, unstable, woken>>
    BY <1>6 DEF vars, policyVars, waitVars, radioVars, ghosts
  <2>2. TypeInv' /\ EvidenceInv'
    BY <2>1 DEF RecoveryInv, TypeInv, EvidenceInv
  <2>3. WaitInv' /\ EventInv' /\ CircuitIsEarned' /\ CutsArePaid'
    BY <2>1 DEF RecoveryInv, WaitInv, EventInv, CircuitIsEarned, CutsArePaid
  <2>4. QED
    BY <2>2, <2>3 DEF RecoveryInv
<1>7. QED
  BY <1>1, <1>2, <1>3, <1>4, <1>5, <1>6 DEF Next

-----------------------------------------------------------------------------
(* The recovery policy of every client behaves: its evidence is of what    *)
(* happened since the last stable session, its second waits are full, its  *)
(* commands are counted once (recovery.py; client.py, _async_backoff).     *)
THEOREM RecoveryCorrect == Spec => []RecoveryInv
<1>1. Init => RecoveryInv
  BY RecoveryInit
<1>2. RecoveryInv /\ [Next]_vars => RecoveryInv'
  BY RecoveryStep
<1>3. QED
  BY <1>1, <1>2, PTL DEF Spec

(* For all thresholds, windows and histories, the circuit is open only if  *)
(* as many unstable sessions and as many waits ended by an advertisement   *)
(* as its thresholds ask for followed the last stable session              *)
(* (recovery.py, circuit_floor).                                           *)
THEOREM CircuitEarned == Spec => []CircuitIsEarned
<1>1. RecoveryInv => CircuitIsEarned
  BY DEF RecoveryInv
<1>2. QED
  BY <1>1, RecoveryCorrect, PTL

(* For all delays, however many commands are accepted, no command cuts a   *)
(* second wait short (client.py, _async_backoff).                          *)
THEOREM CommandsArePaid == Spec => []CutsArePaid
<1>1. RecoveryInv => CutsArePaid
  BY DEF RecoveryInv
<1>2. QED
  BY <1>1, RecoveryCorrect, PTL

(* For all floors and delays, no wait ends before its circuit's floor, nor *)
(* on an advertisement alone before a route has settled (client.py,        *)
(* _async_backoff).                                                        *)
THEOREM FloorKept == Spec => FloorIsKept
<1> DEFINE Kept ==
      (phase \in {"backoff", "settling"} /\ phase' = "waiting") => spent >= Waited
<1>1. RecoveryInv /\ [Next]_vars => [Kept]_vars
  <2> SUFFICES ASSUME RecoveryInv, Next, phase \in {"backoff", "settling"},
                      phase' = "waiting"
               PROVE  spent >= Waited
    OBVIOUS
  <2>1. TypeInv /\ WaitInv
    BY DEF RecoveryInv
  <2>2. spent \in Nat /\ until \in Nat /\ plan.floor \in Nat /\ Settle \in Nat
    BY <2>1, Numbers DEF TypeInv
  <2>3. Settled \/ \E r \in Reasons : BackoffEnds(r)
    <3>1. ~Tick /\ ~Accept /\ ~Shutdown /\ ~(\E told \in BOOLEAN : Advertises(told))
      BY DEF Tick, Accept, Shutdown, Advertises
    <3>2. ~Cycle
      BY DEF Cycle, Route, NoRoute, ConnectFails, Ready, TakesEvent, TimerFires,
             SessionFails, CleanedUp
    <3>3. Wait
      BY <3>1, <3>2 DEF Next
    <3>4. ~(\E r \in Reasons : BackoffSettles(r))
      BY DEF BackoffSettles
    <3>5. QED
      BY <3>3, <3>4 DEF Wait
  <2>4. CASE Settled
    <3>1. phase = "settling" /\ (spent >= until \/ (plan.floor = 0 /\ event))
      BY <2>4 DEF Settled
    <3>2. until >= plan.floor /\ (plan.floor = 0 => until >= Settle)
      BY <2>1, <3>1 DEF WaitInv
    <3>3. QED
      BY <2>2, <3>1, <3>2 DEF Waited
  <2>5. ASSUME NEW r \in Reasons, BackoffEnds(r)
        PROVE  spent >= Waited
    <3>1. /\ phase = "backoff" /\ spent >= LeastWait(r)
          /\ event \/ ~live \/ r = "advertisement"
      BY <2>5 DEF BackoffEnds, Woken
    <3>2. ~triggered
      BY <2>1, <3>1 DEF WaitInv
    <3>3. QED
      BY <2>2, <3>1, <3>2 DEF Waited, LeastWait, Most
  <2>6. QED
    BY <2>3, <2>4, <2>5
<1>2. FloorIsKept <=> [][Kept]_vars
  BY DEF FloorIsKept
<1>3. QED
  BY <1>1, <1>2, RecoveryCorrect, PTL DEF Spec

-----------------------------------------------------------------------------
(* The old entries of a history in order are its first ones.               *)
LEMMA AgedInOrder ==
  ASSUME NEW ages \in Seq(Nat), InOrder(ages)
  PROVE  /\ InOrder(Aged(ages))
         /\ \A n \in 1 .. Len(ages) : n <= Len(Aged(ages)) <=> Newest(ages, n) < Window
         /\ \A n \in 1 .. Len(Aged(ages)) : Newest(Aged(ages), n) = Newest(ages, n) + 1
<1> DEFINE Old == {i \in DOMAIN ages : ages[i] >= Window}
           old == Cardinality(Old)
<1>1. Len(ages) \in Nat /\ DOMAIN ages = 1 .. Len(ages) /\ Window \in Nat
  BY LenProperties, RecoveryAssumption DEF RecoveryAssumption
<1>2. IsFiniteSet(1 .. Len(ages)) /\ Cardinality(1 .. Len(ages)) = Len(ages)
  BY <1>1, FS_Interval
<1>3. IsFiniteSet(Old) /\ old \in Nat /\ old <= Len(ages)
  <2>1. Old \in SUBSET (1 .. Len(ages))
    BY <1>1
  <2>2. IsFiniteSet(Old) /\ old <= Len(ages)
    BY <1>2, <2>1, FS_Subset
  <2>3. QED
    BY <2>2, FS_CardinalityType
<1>4. ASSUME NEW i \in 1 .. Len(ages)
      PROVE  ages[i] \in Nat
  BY <1>4, ElementOfSeq
<1>5. Old = 1 .. old
  <2>1. IsFiniteSet(1 .. old) /\ Cardinality(1 .. old) = old
    BY <1>3, FS_Interval
  <2>2. ASSUME NEW i \in Old
        PROVE  i \in 1 .. old
    <3>1. i \in 1 .. Len(ages) /\ ages[i] >= Window
      BY <1>1
    <3>2. 1 .. i \in SUBSET Old
      <4> SUFFICES ASSUME NEW j \in 1 .. i PROVE j \in Old
        OBVIOUS
      <4>1. j \in DOMAIN ages /\ i \in DOMAIN ages /\ j <= i
        BY <1>1, <3>1
      <4>2. ages[i] <= ages[j]
        BY <4>1 DEF InOrder
      <4>3. ages[i] \in Nat /\ ages[j] \in Nat
        BY <1>1, <1>4, <4>1
      <4>4. ages[j] >= Window
        BY <1>1, <3>1, <4>2, <4>3
      <4>5. QED
        BY <4>1, <4>4
    <3>3. Cardinality(1 .. i) <= old
      BY <1>3, <3>2, FS_Subset
    <3>4. i \in Int /\ 1 \in Int /\ Cardinality(1 .. i) = i
      BY <1>1, <3>1, FS_Interval
    <3>5. QED
      BY <1>3, <3>1, <3>3, <3>4
  <2>3. Old \in SUBSET (1 .. old)
    BY <2>2
  <2>4. Cardinality(1 .. old) = Cardinality(Old)
    BY <2>1
  <2>5. QED
    BY <2>1, <2>3, <2>4, FS_Subset
<1>6. Aged(ages) = [i \in 1 .. Len(ages) - old |-> ages[i + old] + 1]
  BY DEF Aged
<1>7. \A i \in 1 .. Len(ages) : i > old <=> ages[i] < Window
  <2> SUFFICES ASSUME NEW i \in 1 .. Len(ages) PROVE i > old <=> ages[i] < Window
    OBVIOUS
  <2>1. i \in Old <=> i <= old
    BY <1>3, <1>5
  <2>2. i \in Old <=> ages[i] >= Window
    BY <1>1
  <2>3. QED
    BY <1>1, <1>3, <1>4, <2>1, <2>2
<1> HIDE DEF Old, old
<1>8. /\ Len(Aged(ages)) = Len(ages) - old
      /\ DOMAIN Aged(ages) = 1 .. Len(ages) - old
  <2>1. Len(ages) - old \in Nat
    BY <1>1, <1>3
  <2>2. DOMAIN Aged(ages) = 1 .. Len(ages) - old
    BY <1>6
  <2>3. Aged(ages) \in Seq(Nat)
    BY AgedIsShorter
  <2>4. Len(Aged(ages)) \in Nat /\ DOMAIN Aged(ages) = 1 .. Len(Aged(ages))
    BY <2>3, LenProperties
  <2>5. QED
    BY <2>1, <2>2, <2>4
<1>9. \A i \in 1 .. Len(ages) - old :
        /\ i + old \in 1 .. Len(ages)
        /\ Aged(ages)[i] = ages[i + old] + 1
  BY <1>1, <1>3, <1>6
<1>10. InOrder(Aged(ages))
  <2> SUFFICES ASSUME NEW i \in 1 .. Len(ages) - old, NEW j \in 1 .. Len(ages) - old, i <= j
               PROVE  Aged(ages)[j] <= Aged(ages)[i]
    BY <1>8 DEF InOrder
  <2>1. i + old \in DOMAIN ages /\ j + old \in DOMAIN ages /\ i + old <= j + old
    BY <1>1, <1>3, <1>9
  <2>2. ages[j + old] <= ages[i + old]
    BY <2>1 DEF InOrder
  <2>3. ages[j + old] \in Nat /\ ages[i + old] \in Nat
    BY <1>1, <1>4, <2>1
  <2>4. QED
    BY <1>9, <2>2, <2>3
<1>11. ASSUME NEW n \in 1 .. Len(ages)
       PROVE  n <= Len(Aged(ages)) <=> Newest(ages, n) < Window
  <2>1. Len(ages) + 1 - n \in 1 .. Len(ages)
    BY <1>1
  <2>2. Newest(ages, n) < Window <=> Len(ages) + 1 - n > old
    BY <1>7, <2>1 DEF Newest
  <2>3. QED
    BY <1>1, <1>3, <1>8, <2>2
<1>12. ASSUME NEW n \in 1 .. Len(Aged(ages))
       PROVE  Newest(Aged(ages), n) = Newest(ages, n) + 1
  <2>1. Len(ages) - old + 1 - n \in 1 .. Len(ages) - old
    BY <1>1, <1>3, <1>8
  <2>2. (Len(ages) - old + 1 - n) + old = Len(ages) + 1 - n
    BY <1>1, <1>3, <1>8
  <2>3. QED
    BY <1>8, <1>9, <2>1, <2>2 DEF Newest
<1>13. QED
  BY <1>10, <1>11, <1>12

(* One more entry, the newest, and all others are one further back.        *)
LEMMA AppendInOrder ==
  ASSUME NEW ages \in Seq(Nat), InOrder(ages)
  PROVE  /\ InOrder(Append(ages, 0))
         /\ Newest(Append(ages, 0), 1) = 0
         /\ \A n \in 1 .. Len(ages) : Newest(Append(ages, 0), n + 1) = Newest(ages, n)
<1> DEFINE more == Append(ages, 0)
<1>1. Len(ages) \in Nat /\ DOMAIN ages = 1 .. Len(ages)
  BY LenProperties
<1>2. /\ more \in Seq(Nat) /\ Len(more) = Len(ages) + 1
      /\ \A i \in 1 .. Len(ages) : more[i] = ages[i]
      /\ more[Len(ages) + 1] = 0
  BY AppendProperties
<1>3. DOMAIN more = 1 .. Len(ages) + 1
  BY <1>2, LenProperties
<1> HIDE DEF more
<1>4. InOrder(more)
  <2> SUFFICES ASSUME NEW i \in 1 .. Len(ages) + 1, NEW j \in 1 .. Len(ages) + 1, i <= j
               PROVE  more[j] <= more[i]
    BY <1>3 DEF InOrder
  <2>1. CASE j = Len(ages) + 1
    <3>1. more[i] \in Nat
      BY <1>2, ElementOfSeq
    <3>2. QED
      BY <1>2, <2>1, <3>1
  <2>2. CASE j # Len(ages) + 1
    <3>1. i \in DOMAIN ages /\ j \in DOMAIN ages
      BY <1>1, <2>2
    <3>2. QED
      BY <1>1, <1>2, <3>1 DEF InOrder
  <2>3. QED
    BY <2>1, <2>2
<1>5. Newest(more, 1) = 0
  BY <1>1, <1>2 DEF Newest
<1>6. ASSUME NEW n \in 1 .. Len(ages)
      PROVE  Newest(more, n + 1) = Newest(ages, n)
  <2>1. /\ Len(ages) + 1 - n \in 1 .. Len(ages)
        /\ Len(more) + 1 - (n + 1) = Len(ages) + 1 - n
    BY <1>1, <1>2
  <2>2. QED
    BY <1>2, <2>1 DEF Newest
<1>7. QED
  BY <1>4, <1>5, <1>6 DEF more

(* A bounded history forgets its oldest entry alone.                       *)
LEMMA RecordedInOrder ==
  ASSUME NEW ages \in Seq(Nat), InOrder(ages)
  PROVE  /\ InOrder(Recorded(ages))
         /\ Len(Recorded(ages)) >= 1 /\ Newest(Recorded(ages), 1) = 0
         /\ \A n \in 1 .. Len(ages) :
              n < History => /\ n + 1 <= Len(Recorded(ages))
                             /\ Newest(Recorded(ages), n + 1) = Newest(ages, n)
<1>1. Len(ages) \in Nat /\ DOMAIN ages = 1 .. Len(ages) /\ History \in Nat \ {0}
  BY LenProperties, RecoveryAssumption, HistoryAssumption
     DEF RecoveryAssumption, HistoryAssumption
<1>2. CASE Len(ages) # History
  <2>1. Recorded(ages) = Append(ages, 0)
    BY <1>2 DEF Recorded
  <2>2. Len(Append(ages, 0)) = Len(ages) + 1
    BY AppendProperties
  <2>3. QED
    BY <1>1, <2>1, <2>2, AppendInOrder
<1>3. CASE Len(ages) = History
  <2> DEFINE rest == Tail(ages)
  <2>1. ages # <<>>
    BY <1>1, <1>3, EmptySeq
  <2>2. /\ rest \in Seq(Nat) /\ Len(rest) = Len(ages) - 1
        /\ \A i \in 1 .. Len(rest) : rest[i] = ages[i + 1]
    BY <2>1, HeadTailProperties
  <2>3. Recorded(ages) = Append(rest, 0)
    BY <1>3 DEF Recorded
  <2>4. Len(Append(rest, 0)) = Len(ages)
    BY <1>1, <2>2, AppendProperties
  <2>5. DOMAIN rest = 1 .. Len(ages) - 1
    BY <2>2, LenProperties
  <2> HIDE DEF rest
  <2>6. InOrder(rest)
    <3> SUFFICES ASSUME NEW i \in 1 .. Len(ages) - 1, NEW j \in 1 .. Len(ages) - 1, i <= j
                 PROVE  rest[j] <= rest[i]
      BY <2>5 DEF InOrder
    <3>1. i + 1 \in DOMAIN ages /\ j + 1 \in DOMAIN ages /\ i + 1 <= j + 1
      BY <1>1
    <3>2. ages[j + 1] <= ages[i + 1]
      BY <3>1 DEF InOrder
    <3>3. QED
      BY <2>2, <3>2
  <2>7. /\ InOrder(Append(rest, 0)) /\ Newest(Append(rest, 0), 1) = 0
        /\ \A n \in 1 .. Len(rest) : Newest(Append(rest, 0), n + 1) = Newest(rest, n)
    BY <2>2, <2>6, AppendInOrder
  <2>8. ASSUME NEW n \in 1 .. Len(ages), n < History
        PROVE  /\ n + 1 <= Len(ages)
               /\ Newest(Append(rest, 0), n + 1) = Newest(ages, n)
    <3>1. n \in 1 .. Len(rest) /\ n + 1 <= Len(ages)
      BY <1>1, <1>3, <2>2, <2>8
    <3>2. /\ Len(rest) + 1 - n \in 1 .. Len(rest)
          /\ (Len(rest) + 1 - n) + 1 = Len(ages) + 1 - n
      BY <1>1, <2>2, <3>1
    <3>3. Newest(rest, n) = Newest(ages, n)
      BY <2>2, <3>2 DEF Newest
    <3>4. QED
      BY <2>7, <3>1, <3>3
  <2>9. QED
    BY <1>1, <1>3, <2>3, <2>4, <2>7, <2>8
<1>4. QED
  BY <1>2, <1>3

-----------------------------------------------------------------------------
(* What outlived the waits does so as both grow old.                       *)
LEMMA AgedOutlive ==
  ASSUME NEW ages \in Seq(Nat), InOrder(ages), NEW waits \in Seq(Nat), InOrder(waits),
         NEW open \in {0, 1}, Outlive(ages, waits, open)
  PROVE  Outlive(Aged(ages), Aged(waits), open)
<1>1. Len(ages) \in Nat /\ Len(waits) \in Nat
  BY LenProperties
<1>2. /\ Aged(ages) \in Seq(Nat) /\ Len(Aged(ages)) <= Len(ages)
      /\ Aged(waits) \in Seq(Nat) /\ Len(Aged(waits)) <= Len(waits)
  BY AgedIsShorter
<1>3. Len(Aged(ages)) \in Nat /\ Len(Aged(waits)) \in Nat
  BY <1>2, LenProperties
<1> SUFFICES ASSUME NEW n \in 1 .. Len(Aged(waits)) - open
             PROVE  /\ n <= Len(Aged(ages))
                    /\ Newest(Aged(ages), n) <= Newest(Aged(waits), n + open)
  BY DEF Outlive
<1>4. /\ n \in 1 .. Len(waits) - open
      /\ n + open \in 1 .. Len(waits) /\ n + open \in 1 .. Len(Aged(waits))
  BY <1>1, <1>2, <1>3
<1>5. n \in 1 .. Len(ages) /\ Newest(ages, n) <= Newest(waits, n + open)
  BY <1>1, <1>4 DEF Outlive
<1>6. Newest(waits, n + open) < Window
  <2>1. n + open <= Len(Aged(waits))
    BY <1>3, <1>4
  <2>2. QED
    BY <1>4, <2>1, AgedInOrder
<1>7. Newest(ages, n) \in Nat /\ Newest(waits, n + open) \in Nat
  <2>1. /\ Len(ages) + 1 - n \in 1 .. Len(ages)
        /\ Len(waits) + 1 - (n + open) \in 1 .. Len(waits)
    BY <1>1, <1>4, <1>5
  <2>2. QED
    BY <2>1, ElementOfSeq DEF Newest
<1>8. Newest(ages, n) < Window
  BY <1>5, <1>6, <1>7, RecoveryAssumption DEF RecoveryAssumption
<1>9. n <= Len(Aged(ages))
  BY <1>5, <1>8, AgedInOrder
<1>10. /\ Newest(Aged(ages), n) = Newest(ages, n) + 1
       /\ Newest(Aged(waits), n + open) = Newest(waits, n + open) + 1
  BY <1>3, <1>4, <1>9, AgedInOrder
<1>11. QED
  BY <1>5, <1>7, <1>9, <1>10

(* One more record outlives the waits, the open one among them.            *)
LEMMA RecordedOutlive ==
  ASSUME NEW ages \in Seq(Nat), InOrder(ages), NEW waits \in Seq(Nat), InOrder(waits),
         NEW open \in {0, 1}, Outlive(ages, waits, open), Len(waits) <= History
  PROVE  Outlive(Recorded(ages), waits, 0)
<1>1. Len(ages) \in Nat /\ Len(waits) \in Nat /\ DOMAIN waits = 1 .. Len(waits)
  BY LenProperties
<1>2. ASSUME NEW n \in 1 .. Len(waits)
      PROVE  Newest(waits, n) \in Nat
  <2>1. Len(waits) + 1 - n \in 1 .. Len(waits)
    BY <1>1
  <2>2. QED
    BY <2>1, ElementOfSeq DEF Newest
<1>3. Recorded(ages) \in Seq(Nat) /\ Len(Recorded(ages)) \in Nat
  BY RecordedIsLonger, LenProperties
<1> SUFFICES ASSUME NEW n \in 1 .. Len(waits)
             PROVE  n <= Len(Recorded(ages)) /\ Newest(Recorded(ages), n) <= Newest(waits, n)
  BY <1>1 DEF Outlive
<1>4. CASE n = 1
  BY <1>2, <1>3, <1>4, RecordedInOrder
<1>5. CASE n # 1
  <2> DEFINE m == n - 1
  <2>1. m \in 1 .. Len(waits) - open /\ m < History /\ m + 1 = n
    BY <1>1, <1>5, RecoveryAssumption DEF RecoveryAssumption
  <2>2. m \in 1 .. Len(ages) /\ Newest(ages, m) <= Newest(waits, m + open)
    BY <1>1, <2>1 DEF Outlive
  <2>3. n <= Len(Recorded(ages)) /\ Newest(Recorded(ages), n) = Newest(ages, m)
    BY <2>1, <2>2, RecordedInOrder
  <2>4. Newest(waits, m + open) <= Newest(waits, n)
    <3>1. /\ Len(waits) + 1 - n \in DOMAIN waits
          /\ Len(waits) + 1 - (m + open) \in DOMAIN waits
          /\ Len(waits) + 1 - n <= Len(waits) + 1 - (m + open)
      BY <1>1, <2>1
    <3>2. QED
      BY <3>1 DEF InOrder, Newest
  <2>5. Newest(ages, m) \in Nat /\ Newest(waits, m + open) \in Nat
    <3>1. Len(ages) + 1 - m \in 1 .. Len(ages) /\ m + open \in 1 .. Len(waits)
      BY <1>1, <2>1, <2>2
    <3>2. QED
      BY <1>2, <3>1, ElementOfSeq DEF Newest
  <2>6. QED
    BY <1>2, <2>2, <2>3, <2>4, <2>5
<1>6. QED
  BY <1>4, <1>5

(* One more wait is open; no wait is less open for having been so.         *)
LEMMA AppendOutlive ==
  ASSUME NEW ages \in Seq(Nat), NEW waits \in Seq(Nat), InOrder(waits),
         Outlive(ages, waits, 0)
  PROVE  Outlive(ages, Append(waits, 0), 1)
<1>1. Len(ages) \in Nat /\ Len(waits) \in Nat
  BY LenProperties
<1>2. Len(Append(waits, 0)) = Len(waits) + 1
  BY AppendProperties
<1>3. \A n \in 1 .. Len(waits) : Newest(Append(waits, 0), n + 1) = Newest(waits, n)
  BY AppendInOrder
<1>4. Len(Append(waits, 0)) - 1 = Len(waits)
  BY <1>1, <1>2
<1>5. \A n \in 1 .. Len(waits) : n <= Len(ages) /\ Newest(ages, n) <= Newest(waits, n)
  <2>1. Len(waits) - 0 = Len(waits) /\ (\A n \in 1 .. Len(waits) : n + 0 = n)
    BY <1>1
  <2>2. QED
    BY <2>1 DEF Outlive
<1>6. QED
  BY <1>3, <1>4, <1>5 DEF Outlive

LEMMA OutliveOpen ==
  ASSUME NEW ages \in Seq(Nat), NEW waits \in Seq(Nat), InOrder(waits),
         Outlive(ages, waits, 0)
  PROVE  Outlive(ages, waits, 1)
<1>1. Len(ages) \in Nat /\ Len(waits) \in Nat /\ DOMAIN waits = 1 .. Len(waits)
  BY LenProperties
<1> SUFFICES ASSUME NEW n \in 1 .. Len(waits) - 1
             PROVE  n <= Len(ages) /\ Newest(ages, n) <= Newest(waits, n + 1)
  BY DEF Outlive
<1>2. n \in 1 .. Len(waits) - 0 /\ n + 0 = n /\ n + 1 \in 1 .. Len(waits)
  BY <1>1
<1>3. n <= Len(ages) /\ Newest(ages, n) <= Newest(waits, n)
  BY <1>2 DEF Outlive
<1>4. Newest(waits, n) <= Newest(waits, n + 1)
  <2>1. /\ Len(waits) + 1 - n \in DOMAIN waits /\ Len(waits) + 1 - (n + 1) \in DOMAIN waits
        /\ Len(waits) + 1 - (n + 1) <= Len(waits) + 1 - n
    BY <1>1, <1>2
  <2>2. QED
    BY <2>1 DEF InOrder, Newest
<1>5. /\ Newest(ages, n) \in Nat /\ Newest(waits, n) \in Nat /\ Newest(waits, n + 1) \in Nat
  <2>1. /\ Len(ages) + 1 - n \in 1 .. Len(ages)
        /\ Len(waits) + 1 - n \in 1 .. Len(waits)
        /\ Len(waits) + 1 - (n + 1) \in 1 .. Len(waits)
    BY <1>1, <1>2, <1>3
  <2>2. QED
    BY <2>1, ElementOfSeq DEF Newest
<1>6. QED
  BY <1>3, <1>4, <1>5

-----------------------------------------------------------------------------
LEMMA Bounds ==
  /\ Most(Failures, Wakes) \in Nat /\ Most(Failures, Wakes) <= History
  /\ Failures <= Most(Failures, Wakes) /\ Wakes <= Most(Failures, Wakes)
BY Numbers, HistoryAssumption, RecoveryAssumption
   DEF HistoryAssumption, RecoveryAssumption, Most

(* The parts of the invariant that are about histories alone.              *)
LEMMA Histories ==
  ASSUME RecoveryInv, StormInv
  PROVE  /\ failures \in Seq(Nat) /\ wakes \in Seq(Nat) /\ hasty \in Seq(Nat)
         /\ InOrder(failures) /\ InOrder(wakes) /\ InOrder(hasty)
         /\ Outlive(wakes, hasty, 0)
         /\ HasFailed => Outlive(failures, hasty, 0)
         /\ Outlive(failures, hasty, 1)
         /\ Len(hasty) \in Nat /\ Len(hasty) <= Most(Failures, Wakes)
         /\ Len(hasty) <= History
<1>1. /\ failures \in Seq(Nat) /\ wakes \in Seq(Nat) /\ hasty \in Seq(Nat)
      /\ InOrder(failures) /\ InOrder(wakes) /\ InOrder(hasty)
      /\ Outlive(wakes, hasty, 0) /\ Len(hasty) <= Most(Failures, Wakes)
  BY DEF RecoveryInv, TypeInv, StormInv, StormIsBounded
<1>2. Len(hasty) \in Nat /\ Len(hasty) <= History
  BY <1>1, LenProperties, Bounds, RecoveryAssumption DEF RecoveryAssumption
<1>3. CASE HasFailed
  <2>1. Outlive(failures, hasty, 0)
    BY <1>3 DEF StormInv
  <2>2. QED
    BY <1>1, <1>2, <2>1, OutliveOpen
<1>4. CASE ~HasFailed
  <2>1. Outlive(failures, hasty, 1)
    BY <1>4 DEF StormInv
  <2>2. QED
    BY <1>1, <1>2, <1>4, <2>1
<1>5. QED
  BY <1>3, <1>4

(* Where all is forgotten, nothing is left to bound.                       *)
LEMMA Forgotten ==
  ASSUME failures' = <<>>, wakes' = <<>>, hasty' = <<>>,
         phase' \notin {"backoff", "settling"}
  PROVE  StormInv'
<1>1. <<>> \in Seq(Nat) /\ Len(<<>>) = 0 /\ DOMAIN <<>> = {}
  BY EmptySeq, LenProperties
<1>2. InOrder(<<>>)
  BY <1>1 DEF InOrder
<1>3. \A open \in {0, 1} : Outlive(<<>>, <<>>, open)
  BY <1>1 DEF Outlive
<1>4. (IF HasFailed' THEN 0 ELSE 1) \in {0, 1}
  OBVIOUS
<1>5. Outlive(<<>>, <<>>, 0) /\ Outlive(<<>>, <<>>, IF HasFailed' THEN 0 ELSE 1)
  BY <1>3, <1>4
<1>6. StormIsBounded'
  BY <1>1, Bounds DEF StormIsBounded
<1>7. QED
  BY <1>1, <1>2, <1>5, <1>6 DEF StormInv

(* A step that leaves the histories and the plan alone.                    *)
LEMMA StormStays ==
  ASSUME StormInv, UNCHANGED <<failures, wakes, hasty, plan>>,
         HasFailed' = HasFailed,
         phase' \in {"backoff", "settling"} => phase \in {"backoff", "settling"}
  PROVE  StormInv'
BY DEF StormInv, StormIsBounded

LEMMA StormInit == Init => StormInv
<1> SUFFICES ASSUME Init PROVE StormInv
  OBVIOUS
<1>1. /\ failures = <<>> /\ wakes = <<>> /\ hasty = <<>> /\ phase = "waiting"
  BY DEF Init
<1>2. <<>> \in Seq(Nat) /\ Len(<<>>) = 0 /\ DOMAIN <<>> = {}
  BY EmptySeq, LenProperties
<1>3. InOrder(<<>>) /\ Outlive(<<>>, <<>>, 0) /\ Outlive(<<>>, <<>>, 1)
  BY <1>2 DEF InOrder, Outlive
<1>4. ~HasFailed
  BY <1>1 DEF HasFailed
<1>5. StormIsBounded
  BY <1>1, <1>2, Bounds DEF StormIsBounded
<1>6. QED
  BY <1>1, <1>2, <1>3, <1>4, <1>5 DEF StormInv

(* All histories grow old alike.                                           *)
LEMMA StormTick == RecoveryInv /\ StormInv /\ Tick => StormInv'
<1> SUFFICES ASSUME RecoveryInv, StormInv, Tick PROVE StormInv'
  OBVIOUS
<1> DEFINE open == IF HasFailed THEN 0 ELSE 1
<1>1. /\ failures' = Aged(failures) /\ wakes' = Aged(wakes) /\ hasty' = Aged(hasty)
      /\ UNCHANGED <<phase, plan>>
  BY DEF Tick, waitVars
<1>2. /\ Aged(hasty) \in Seq(Nat) /\ Len(Aged(hasty)) <= Len(hasty)
      /\ Len(Aged(hasty)) \in Nat
  BY Histories, AgedIsShorter, LenProperties
<1>3. InOrder(Aged(hasty)) /\ InOrder(Aged(failures)) /\ InOrder(Aged(wakes))
  BY Histories, AgedInOrder
<1>4. Outlive(Aged(wakes), Aged(hasty), 0)
  BY Histories, AgedOutlive
<1>5. Outlive(Aged(failures), Aged(hasty), open)
  <2>1. Outlive(failures, hasty, open) /\ open \in {0, 1}
    BY DEF StormInv
  <2> HIDE DEF open
  <2>2. QED
    BY <2>1, Histories, AgedOutlive
<1>6. HasFailed' = HasFailed
  BY <1>1 DEF HasFailed
<1>7. StormIsBounded'
  BY <1>1, <1>2, Histories, Bounds DEF StormIsBounded
<1>8. phase' \in {"backoff", "settling"} /\ plan'.floor < InitialFloor
        => Len(hasty') < Most(Failures, Wakes)
  <2> SUFFICES ASSUME phase \in {"backoff", "settling"}, plan.floor < InitialFloor
               PROVE  Len(Aged(hasty)) < Most(Failures, Wakes)
    BY <1>1
  <2>1. Len(hasty) < Most(Failures, Wakes)
    BY DEF StormInv
  <2>2. QED
    BY <1>2, <2>1, Histories, Bounds
<1>9. QED
  BY <1>1, <1>2, <1>3, <1>4, <1>5, <1>6, <1>7, <1>8 DEF StormInv

(* A failure of its own follows the open wait.                             *)
LEMMA StormFail ==
  ASSUME RecoveryInv, StormInv, NEW stable \in Nat, Fail(stable)
  PROVE  StormInv'
<1>1. phase' = "cleanup" /\ HasFailed'
  BY DEF Fail, HasFailed
<1>2. CASE stable >= ResetAfter
  BY <1>1, <1>2, Forgotten DEF Fail
<1>3. CASE ~(stable >= ResetAfter)
  <2>1. failures' = Recorded(failures) /\ wakes' = wakes /\ hasty' = hasty
    BY <1>3 DEF Fail
  <2>2. InOrder(Recorded(failures))
    BY Histories, RecordedInOrder
  <2>3. Outlive(Recorded(failures), hasty, 0)
    BY Histories, RecordedOutlive
  <2>4. StormIsBounded'
    BY <2>1 DEF StormInv, StormIsBounded
  <2>5. QED
    BY <1>1, <2>1, <2>2, <2>3, <2>4, Histories DEF StormInv
<1>4. QED
  BY <1>2, <1>3

(* A wait below the first floor is planned with one threshold not reached. *)
LEMMA StormCleanedUp == RecoveryInv /\ StormInv /\ CleanedUp => StormInv'
<1> SUFFICES ASSUME RecoveryInv, StormInv, CleanedUp PROVE StormInv'
  OBVIOUS
<1>1. /\ phase = "cleanup" /\ phase' = "backoff"
      /\ UNCHANGED <<failures, wakes, hasty>>
  BY DEF CleanedUp, policyVars, ghosts
<1>2. HasFailed /\ HasFailed'
  BY <1>1 DEF HasFailed
<1>3. PICK j \in Jitters : plan' = Planned(j)
  BY DEF CleanedUp
<1>4. plan'.floor = CircuitFloor
  BY <1>3, PlannedIsTyped DEF RecoveryInv
<1>5. Len(hasty) <= Len(failures) /\ Len(hasty) <= Len(wakes)
  <2>1. Len(hasty) \in Nat /\ Len(failures) \in Nat /\ Len(wakes) \in Nat
    BY Histories, LenProperties
  <2>2. \A n \in 1 .. Len(hasty) - 0 : n <= Len(failures) /\ n <= Len(wakes)
    BY <1>2, Histories DEF Outlive
  <2>3. Len(hasty) > 0 => Len(hasty) \in 1 .. Len(hasty) - 0
    BY <2>1
  <2>4. QED
    BY <2>1, <2>2, <2>3
<1>6. plan'.floor < InitialFloor => Len(hasty) < Most(Failures, Wakes)
  <2> SUFFICES ASSUME CircuitFloor < InitialFloor
               PROVE  Len(hasty) < Most(Failures, Wakes)
    BY <1>4
  <2>1. Len(failures) < Failures \/ Len(wakes) < Wakes
    BY RecoveryAssumption DEF CircuitFloor, RecoveryAssumption
  <2>2. Len(hasty) \in Nat /\ Len(failures) \in Nat /\ Len(wakes) \in Nat
    BY Histories, LenProperties
  <2>3. QED
    BY <1>5, <2>1, <2>2, Bounds, Numbers
<1>7. StormIsBounded'
  BY <1>1 DEF StormInv, StormIsBounded
<1>8. Outlive(failures, hasty, 0)
  BY <1>2, Histories
<1>9. QED
  BY <1>1, <1>2, <1>6, <1>7, <1>8, Histories DEF StormInv

(* The wait is over.  One that was hasty is of a closed circuit.           *)
LEMMA StormOver ==
  ASSUME RecoveryInv, StormInv, NEW advertised \in BOOLEAN, NEW commanded \in BOOLEAN,
         phase \in {"backoff", "settling"}, spent >= plan.floor,
         Over(advertised, commanded)
  PROVE  StormInv'
<1>1. /\ phase' = "waiting" /\ failures' = failures
      /\ wakes' = IF advertised THEN Recorded(wakes) ELSE wakes
  BY DEF Over
<1>2. HasFailed /\ ~HasFailed'
  BY <1>1 DEF HasFailed
<1>3. Outlive(failures, hasty, 0) /\ Outlive(failures, hasty, 1)
  BY <1>2, Histories
<1>4. InOrder(wakes') /\ Outlive(wakes', hasty, 0)
  <2>1. CASE advertised
    BY <1>1, <2>1, Histories, RecordedInOrder, RecordedOutlive
  <2>2. CASE ~advertised
    BY <1>1, <2>2, Histories
  <2>3. QED
    BY <2>1, <2>2
<1>5. CASE hasty' = hasty
  <2>1. StormIsBounded'
    BY <1>5 DEF StormInv, StormIsBounded
  <2>2. QED
    BY <1>1, <1>2, <1>3, <1>4, <1>5, <2>1, Histories DEF StormInv
<1>6. CASE hasty' # hasty
  <2>1. /\ advertised /\ spent < Least(InitialFloor, plan.planned)
        /\ hasty' = Append(hasty, 0)
    BY <1>6 DEF Over
  <2>2. plan.floor < InitialFloor
    <3>1. spent \in Nat /\ plan.floor \in Nat /\ plan.planned \in Nat /\ InitialFloor \in Nat
      BY Numbers DEF RecoveryInv, TypeInv
    <3>2. QED
      BY <2>1, <3>1 DEF Least
  <2>3. Len(hasty) < Most(Failures, Wakes)
    BY <2>2 DEF StormInv
  <2>4. Append(hasty, 0) \in Seq(Nat) /\ Len(Append(hasty, 0)) = Len(hasty) + 1
    BY Histories, AppendProperties
  <2>5. InOrder(Append(hasty, 0))
    BY Histories, AppendInOrder
  <2>6. Outlive(failures, Append(hasty, 0), 1)
    BY <1>3, Histories, AppendOutlive
  <2>7. Outlive(wakes', Append(hasty, 0), 0)
    <3>1. Outlive(wakes, Append(hasty, 0), 1)
      BY Histories, AppendOutlive
    <3>2. Len(Append(hasty, 0)) <= History
      BY <2>3, <2>4, Histories, Bounds, RecoveryAssumption DEF RecoveryAssumption
    <3>3. wakes' = Recorded(wakes)
      BY <1>1, <2>1
    <3>4. QED
      BY <2>4, <2>5, <3>1, <3>2, <3>3, Histories, RecordedOutlive
  <2>8. StormIsBounded'
    BY <2>1, <2>3, <2>4, Histories, Bounds DEF StormIsBounded
  <2>9. QED
    BY <1>1, <1>2, <1>4, <2>1, <2>4, <2>5, <2>6, <2>7, <2>8, Histories DEF StormInv
<1>7. QED
  BY <1>5, <1>6

LEMMA StormWait == RecoveryInv /\ StormInv /\ Wait => StormInv'
<1> SUFFICES ASSUME RecoveryInv, StormInv, Wait PROVE StormInv'
  OBVIOUS
<1>1. /\ triggered \in BOOLEAN /\ event \in BOOLEAN /\ live \in BOOLEAN
      /\ spent \in Nat /\ until \in Nat /\ plan.floor \in Nat /\ Settle \in Nat
  BY Numbers DEF RecoveryInv, TypeInv
<1>2. CASE Settled
  <2>1. /\ phase = "settling" /\ Over(triggered, event)
        /\ spent >= until \/ plan.floor = 0
    BY <1>2 DEF Settled
  <2>2. until >= plan.floor
    BY <2>1 DEF RecoveryInv, WaitInv
  <2>3. spent >= plan.floor
    BY <1>1, <2>1, <2>2
  <2>4. QED
    BY <1>1, <2>1, <2>3, StormOver
<1>3. ASSUME NEW r \in Reasons, BackoffEnds(r)
      PROVE  StormInv'
  <2>1. phase = "backoff" /\ spent >= LeastWait(r) /\ Over(live, r = "command")
    BY <1>3 DEF BackoffEnds, Woken
  <2>2. spent >= plan.floor
    BY <1>1, <2>1 DEF LeastWait, Most
  <2>3. (r = "command") \in BOOLEAN
    OBVIOUS
  <2>4. QED
    BY <1>1, <2>1, <2>2, <2>3, StormOver
<1>4. ASSUME NEW r \in Reasons, BackoffSettles(r)
      PROVE  StormInv'
  <2>1. /\ phase = "backoff" /\ phase' = "settling"
        /\ UNCHANGED <<failures, wakes, hasty, plan>>
    BY <1>4 DEF BackoffSettles, Woken, policyVars, ghosts
  <2>2. HasFailed' = HasFailed
    BY <2>1 DEF HasFailed
  <2>3. QED
    BY <2>1, <2>2, StormStays
<1>5. QED
  BY <1>2, <1>3, <1>4 DEF Wait

LEMMA StormStep == RecoveryInv /\ StormInv /\ [Next]_vars => StormInv'
<1> SUFFICES ASSUME RecoveryInv, StormInv, [Next]_vars PROVE StormInv'
  OBVIOUS
<1>1. CASE Tick
  BY <1>1, StormTick
<1>2. CASE Accept \/ (\E told \in BOOLEAN : Advertises(told)) \/ UNCHANGED vars
  <2>1. UNCHANGED <<phase, failures, wakes, hasty, plan>>
    BY <1>2 DEF Accept, Advertises, vars, policyVars, waitVars, ghosts
  <2>2. HasFailed' = HasFailed
    BY <2>1 DEF HasFailed
  <2>3. QED
    BY <2>1, <2>2, StormStays
<1>3. CASE Shutdown
  BY <1>3, Forgotten DEF Shutdown
<1>4. CASE Cycle
  <2>1. CASE Route \/ Ready \/ TakesEvent
    <3>1. /\ UNCHANGED <<failures, wakes, hasty, plan>>
          /\ phase \in {"waiting", "connecting", "ready"}
          /\ phase' \in {"connecting", "ready"}
      BY <2>1 DEF Route, Ready, TakesEvent, policyVars, waitVars, ghosts
    <3>2. HasFailed' = HasFailed
      BY <3>1 DEF HasFailed
    <3>3. QED
      BY <3>1, <3>2, StormStays
  <2>2. CASE NoRoute \/ ConnectFails \/ SessionFails
    <3>1. Fail(0) \/ Fail(spent)
      BY <2>2 DEF NoRoute, ConnectFails, SessionFails
    <3>2. 0 \in Nat /\ spent \in Nat
      BY DEF RecoveryInv, TypeInv
    <3>3. QED
      BY <3>1, <3>2, StormFail
  <2>3. CASE TimerFires
    BY <2>3, Forgotten DEF TimerFires
  <2>4. CASE CleanedUp
    BY <2>4, StormCleanedUp
  <2>5. QED
    BY <1>4, <2>1, <2>2, <2>3, <2>4 DEF Cycle
<1>5. CASE Wait
  BY <1>5, StormWait
<1>6. QED
  BY <1>1, <1>2, <1>3, <1>4, <1>5 DEF Next

(* For all thresholds, windows, histories, floors and delays, and however  *)
(* failures, advertisements, commands and sessions alternate, no more      *)
(* waits of one window are ended below the first floor by advertisements   *)
(* alone than the larger threshold (recovery.py, circuit_floor; client.py, *)
(* _async_backoff).                                                        *)
THEOREM StormBounded == Spec => []StormIsBounded
<1>1. Init => StormInv
  BY StormInit
<1>2. RecoveryInv /\ StormInv /\ [Next]_vars => StormInv'
  BY StormStep
<1>3. StormInv => StormIsBounded
  BY DEF StormInv
<1>4. QED
  BY <1>1, <1>2, <1>3, RecoveryCorrect, PTL DEF Spec
=============================================================================
