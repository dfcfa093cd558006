-------------------------- MODULE ReadyLoop_proofs --------------------------
(***************************************************************************)
(* Theorems about the one-shot air-quality query, for every number of      *)
(* callers, calls, sessions and requests: the controller's query is the    *)
(* one on the air, and no caller is refused.                               *)
(***************************************************************************)
EXTENDS ReadyLoop, FiniteSetTheorems, SequenceTheorems, TLAPS

Kinds == {"no", "answer", "error"}
Entries == [gen : Nat, age : Nat, answer : Kinds, active : BOOLEAN, quiesced : BOOLEAN]

LEMMA LanesAre == Lanes = [request : 0 .. MaxCalls, event : BOOLEAN, made : 0 .. MaxCalls,
                           of : [Queries -> Entries]]
BY DEF Lanes, Entries, Kinds

(* A change of one query leaves the others and the controller alone.       *)
LEMMA EntryChanged ==
  ASSUME NEW l \in Lanes, NEW q \in Queries, NEW e \in Entries
  PROVE  LET k == [l EXCEPT !.of[q] = e]
         IN /\ k \in Lanes /\ k.request = l.request /\ k.made = l.made /\ k.event = l.event
            /\ k.of[q] = e /\ \A p \in Queries : p # q => k.of[p] = l.of[p]
<1> DEFINE k == [l EXCEPT !.of[q] = e]
<1>1. /\ l.of \in [Queries -> Entries] /\ l.request \in 0 .. MaxCalls
      /\ l.made \in 0 .. MaxCalls /\ l.event \in BOOLEAN
  BY LanesAre
<1>2. /\ k = [l EXCEPT !.of = [l.of EXCEPT ![q] = e]]
      /\ [l.of EXCEPT ![q] = e] \in [Queries -> Entries]
  BY <1>1
<1>3. /\ k.of = [l.of EXCEPT ![q] = e] /\ k.request = l.request
      /\ k.made = l.made /\ k.event = l.event
  BY LanesAre
<1>4. k \in Lanes
  BY <1>1, <1>2, LanesAre
<1>5. k.of[q] = e /\ \A p \in Queries : p # q => k.of[p] = l.of[p]
  BY <1>1, <1>3
<1>6. QED
  BY <1>3, <1>4, <1>5

LEMMA SettledShape ==
  ASSUME NEW l \in Lanes, NEW q \in Queries, NEW a \in Kinds
  PROVE  LET k == Settled(l, q, a)
         IN /\ k \in Lanes /\ k.request = l.request /\ k.made = l.made
            /\ k.of[q].active = l.of[q].active /\ k.of[q].quiesced = l.of[q].quiesced
            /\ k.of[q].answer = IF l.of[q].answer = "no" THEN a ELSE l.of[q].answer
            /\ \A p \in Queries : p # q => k.of[p] = l.of[p]
<1> DEFINE e == [l.of[q] EXCEPT !.answer = IF l.of[q].answer = "no" THEN a
                                           ELSE l.of[q].answer]
<1>1. l.of[q] \in Entries
  BY LanesAre
<1>2. /\ e \in Entries /\ e.active = l.of[q].active /\ e.quiesced = l.of[q].quiesced
      /\ e.answer = IF l.of[q].answer = "no" THEN a ELSE l.of[q].answer
  BY <1>1 DEF Entries
<1>3. Settled(l, q, a) = [l EXCEPT !.of[q] = e]
  BY DEF Settled
<1> HIDE DEF e
<1>4. QED
  BY <1>2, <1>3, EntryChanged

(* A settled query of the controller is released for good.                 *)
LEMMA ReleasedShape ==
  ASSUME NEW l \in Lanes, NEW q \in Queries, l.request = q, l.of[q].answer # "no"
  PROVE  LET k == Released(l, q)
         IN /\ k \in Lanes /\ k.request = None /\ k.made = l.made
            /\ ~k.of[q].active /\ k.of[q].quiesced /\ k.of[q].answer = l.of[q].answer
            /\ \A p \in Queries : p # q => k.of[p] = l.of[p]
<1> DEFINE e == [l.of[q] EXCEPT !.active = FALSE, !.quiesced = TRUE, !.age = 0, !.gen = 0]
           m == [l EXCEPT !.of[q] = e]
           k == [m EXCEPT !.request = None, !.event = FALSE]
<1>1. l.of[q] \in Entries
  BY LanesAre
<1>2. e \in Entries /\ ~e.active /\ e.quiesced /\ e.answer = l.of[q].answer
  BY <1>1 DEF Entries
<1>3. Released(l, q) = [l EXCEPT !.of[q] = e, !.request = None, !.event = l.event /\ FALSE]
  BY DEF Released
<1>4. (l.event /\ FALSE) = FALSE
  OBVIOUS
<1>5. Released(l, q) = [l EXCEPT !.of[q] = e, !.request = None, !.event = FALSE]
  BY <1>3, <1>4
<1> HIDE DEF e
<1>6. Released(l, q) = k
  BY <1>5
<1>7. /\ m \in Lanes /\ m.made = l.made /\ m.of[q] = e
      /\ \A p \in Queries : p # q => m.of[p] = l.of[p]
  BY <1>2, EntryChanged
<1> HIDE DEF m
<1>8. k \in Lanes /\ k.request = None /\ k.made = m.made /\ k.of = m.of
  <2>1. MaxCalls \in Nat /\ None \in 0 .. MaxCalls
    BY LoopAssumption DEF LoopAssumption, None
  <2>2. QED
    BY <1>7, <2>1, LanesAre
<1> HIDE DEF k
<1>9. QED
  BY <1>2, <1>6, <1>7, <1>8

(* The controller's query is one of those that were made.                  *)
LEMMA RequestIsQuery ==
  ASSUME NEW l \in Lanes, l.request # None
  PROVE  l.request \in Queries /\ l.made \in Nat /\ l.request \in Nat
BY LoopAssumption, LanesAre DEF LoopAssumption, None, Queries

(* What fails keeps its owner while it is on the air and has none else.    *)
LEMMA FailedOwned ==
  ASSUME NEW l, NEW querying \in BOOLEAN, Owned(l, querying), l.request # None
  PROVE  LET k == Failed(l, l.request)
         IN /\ Owned(k, querying) /\ k.made = l.made
            /\ k.request = IF querying THEN l.request ELSE None
            /\ querying => \A q \in Queries : k.of[q].quiesced = l.of[q].quiesced
<1> DEFINE r == l.request
           k == Failed(l, r)
           b == Settled(l, r, "error")
<1>1. l \in Lanes /\ r \in Queries /\ l.made \in Nat /\ r \in Nat /\ r <= l.made
  BY RequestIsQuery DEF Owned
<1>2. /\ b \in Lanes /\ b.request = r /\ b.made = l.made
      /\ b.of[r].active = l.of[r].active /\ b.of[r].quiesced = l.of[r].quiesced
      /\ b.of[r].answer # "no"
      /\ \A p \in Queries : p # r => b.of[p] = l.of[p]
  <2>1. "error" \in Kinds /\ "error" # "no"
    BY DEF Kinds
  <2>2. QED
    BY <1>1, <2>1, SettledShape
<1>3. /\ l.of[r].active <=> querying
      /\ ~l.of[r].quiesced
  BY <1>1 DEF Owned
<1>4. \A p \in Queries :
        /\ p # r => ~l.of[p].active
        /\ p # r /\ p <= l.made => l.of[p].answer # "no"
        /\ l.made < p => p # r /\ l.of[p].answer = "no" /\ ~l.of[p].quiesced
  BY <1>1 DEF Owned, Queries
<1>5. CASE querying
  <2>1. k = b
    BY <1>3, <1>5 DEF Failed
  <2> HIDE DEF k, b
  <2>2. Owned(b, querying)
    BY <1>1, <1>2, <1>3, <1>4, <1>5 DEF Owned
  <2>3. QED
    BY <1>2, <1>5, <2>1, <2>2 DEF k
<1>6. CASE ~querying
  <2>1. k = Released(b, r)
    BY <1>3, <1>6 DEF Failed
  <2> DEFINE z == Released(b, r)
  <2>2. /\ z \in Lanes /\ z.request = None /\ z.made = b.made
        /\ ~z.of[r].active /\ z.of[r].quiesced /\ z.of[r].answer = b.of[r].answer
        /\ \A p \in Queries : p # r => z.of[p] = b.of[p]
    BY <1>1, <1>2, ReleasedShape
  <2> HIDE DEF z, b
  <2>3. None \notin Queries /\ None <= z.made
    BY <1>1, <1>2, <2>2 DEF None, Queries
  <2>4. Owned(z, querying)
    BY <1>1, <1>2, <1>3, <1>4, <1>6, <2>2, <2>3 DEF Owned
  <2>5. QED
    BY <1>2, <1>6, <2>1, <2>2, <2>4 DEF z
<1>7. QED
  BY <1>5, <1>6

(* cancel and disconnect.                                                  *)
LEMMA DroppedOwned ==
  ASSUME NEW l, NEW querying \in BOOLEAN, Owned(l, querying)
  PROVE  LET k == Dropped(l)
         IN /\ Owned(k, querying) /\ k.made = l.made
            /\ k.request = IF querying THEN l.request ELSE None
            /\ querying => \A q \in Queries : k.of[q].quiesced = l.of[q].quiesced
<1>1. CASE l.request # None /\ l.of[l.request].answer = "no"
  BY <1>1, FailedOwned DEF Dropped
<1>2. CASE l.request = None
  BY <1>2 DEF Dropped, Owned
<1>3. CASE l.request # None /\ l.of[l.request].answer # "no"
  <2>1. querying
    BY <1>3, RequestIsQuery DEF Owned
  <2>2. QED
    BY <1>3, <2>1 DEF Dropped
<1>4. QED
  BY <1>1, <1>2, <1>3

(* A query that was on the air is settled and released.                    *)
LEMMA EndedOwned ==
  ASSUME NEW l, Owned(l, TRUE), NEW a \in {"answer", "error"}
  PROVE  LET k == Released(Settled(l, l.request, a), l.request)
         IN Owned(k, FALSE) /\ k.made = l.made /\ k.request = None
<1> DEFINE r == l.request
           b == Settled(l, r, a)
           k == Released(b, r)
<1>1. /\ r # None /\ l \in Lanes /\ r \in Queries /\ l.made \in Nat /\ r \in Nat
      /\ r <= l.made
  BY RequestIsQuery DEF Owned
<1>2. /\ b \in Lanes /\ b.request = r /\ b.made = l.made /\ b.of[r].answer # "no"
      /\ \A p \in Queries : p # r => b.of[p] = l.of[p]
  <2>1. a \in Kinds /\ a # "no"
    BY DEF Kinds
  <2>2. QED
    BY <1>1, <2>1, SettledShape
<1>3. \A p \in Queries :
        /\ p # r => ~l.of[p].active
        /\ p # r /\ p <= l.made => l.of[p].answer # "no"
        /\ l.made < p => p # r /\ l.of[p].answer = "no" /\ ~l.of[p].quiesced
  BY <1>1 DEF Owned, Queries
<1>4. /\ k \in Lanes /\ k.request = None /\ k.made = b.made
      /\ ~k.of[r].active /\ k.of[r].quiesced /\ k.of[r].answer = b.of[r].answer
      /\ \A p \in Queries : p # r => k.of[p] = b.of[p]
  BY <1>1, <1>2, ReleasedShape
<1> HIDE DEF k, b
<1>5. None \notin Queries /\ None <= k.made
  BY <1>1, <1>2, <1>4 DEF None, Queries
<1>6. Owned(k, FALSE)
  BY <1>1, <1>2, <1>3, <1>4, <1>5 DEF Owned
<1>7. QED
  BY <1>2, <1>4, <1>6 DEF k, b

LEMMA NothingOwned == Init => LoopInv
<1> SUFFICES ASSUME Init PROVE LoopInv
  OBVIOUS
<1>1. MaxCalls \in Nat
  BY LoopAssumption DEF LoopAssumption
<1> DEFINE e == [gen |-> 0, age |-> 0, answer |-> "no", active |-> FALSE, quiesced |-> FALSE]
<1>2. lane = [request |-> None, event |-> FALSE, made |-> 0, of |-> [q \in Queries |-> e]]
  BY DEF Init
<1>3. e \in Entries /\ e.answer = "no" /\ ~e.active /\ ~e.quiesced
  BY DEF Entries, Kinds
<1> HIDE DEF e
<1>4. /\ lane \in Lanes /\ lane.request = None /\ lane.made = 0
      /\ \A q \in Queries : lane.of[q] = e
  BY <1>1, <1>2, <1>3, LanesAre DEF None
<1>5. runner = "away" /\ session = 0 /\ runner \in Runners
  BY DEF Init, Runners
<1>6. Owned(lane, runner = "query")
  BY <1>3, <1>4, <1>5 DEF Owned, None, Queries
<1>7. CallersInv
  BY <1>1 DEF Init, CallersInv, None
<1>8. CallsInv
  <2>1. Tearing = {} /\ made.calls = 0 /\ made \in Counters
    BY <1>1 DEF Init, Tearing, Counters
  <2>2. QED
    BY <1>1, <1>4, <2>1, FS_EmptySet DEF CallsInv
<1>9. ResumeInv
  BY DEF Init, ResumeInv, Resumes
<1>10. QED
  BY <1>5, <1>6, <1>7, <1>8, <1>9 DEF LoopInv

-----------------------------------------------------------------------------
(* The callers wait on: what is left is the lane and who goes on.          *)
LEMMA LaneStep ==
  ASSUME LoopInv, callers' = callers, session' \in Nat, runner' \in Runners,
         Owned(lane', runner' = "query"), lane'.made = lane.made,
         made' \in Counters, made.calls <= made'.calls,
         ResumeInv'
  PROVE  LoopInv'
<1>1. CallersInv /\ CallsInv
  BY DEF LoopInv
<1>2. CallersInv'
  BY <1>1 DEF CallersInv
<1>3. CallsInv'
  <2>1. Tearing' = Tearing
    BY DEF Tearing
  <2>2. IsFiniteSet(Tearing) /\ Cardinality(Tearing) \in Nat
    BY <1>1, FS_CardinalityType DEF CallsInv
  <2>3. lane.made \in Nat /\ MaxCalls \in Nat
    BY LoopAssumption, LanesAre DEF LoopInv, Owned, LoopAssumption
  <2>4. lane.made + Cardinality(Tearing) <= made'.calls
    BY <1>1, <2>2, <2>3 DEF CallsInv, Counters
  <2>5. QED
    BY <2>1, <2>2, <2>4 DEF CallsInv
<1>4. QED
  BY <1>2, <1>3 DEF LoopInv

(* Nobody goes on who did not before.                                      *)
LEMMA NoneFreed ==
  ASSUME LoopInv, \A q \in Queries : lane'.of[q].quiesced = lane.of[q].quiesced,
         \A d \in Callers : callers'[d].at = "tearing"
           => callers'[d] = callers[d] \/ callers'[d].on = lane.request,
         lane.request # None,
         NEW d \in Callers, Resumes(d)'
  PROVE  Resumes(d)
<1>1. lane \in Lanes /\ lane.made <= MaxCalls /\ lane.made \in Nat /\ MaxCalls \in Nat
  BY LoopAssumption, LanesAre DEF LoopInv, Owned, LoopAssumption
<1>2. callers'[d].at = "tearing" /\ lane'.of[callers'[d].on].quiesced
  BY DEF Resumes
<1>3. CASE callers'[d] = callers[d]
  <2>1. callers[d].at = "tearing" /\ callers[d].on \in Queries
    BY <1>1, <1>2, <1>3 DEF LoopInv, CallersInv, Queries
  <2>2. QED
    BY <1>2, <1>3, <2>1 DEF Resumes
<1>4. CASE callers'[d].on = lane.request
  <2>1. lane.request \in Queries
    BY <1>1, RequestIsQuery
  <2>2. ~lane.of[lane.request].quiesced
    BY <2>1 DEF LoopInv, Owned
  <2>3. QED
    BY <1>2, <1>4, <2>1, <2>2
<1>5. QED
  BY <1>2, <1>3, <1>4

(* Where a call, the link or a shutdown acts, the runner waits.            *)
LEMMA WaitingResumes ==
  ASSUME LoopInv, runner' = runner, runner # "top",
         runner = "query" =>
           /\ \A q \in Queries : lane'.of[q].quiesced = lane.of[q].quiesced
           /\ \A d \in Callers : callers'[d].at = "tearing"
                => callers'[d] = callers[d] \/ callers'[d].on = lane.request
  PROVE  ResumeInv'
<1>1. CASE runner # "query"
  BY <1>1 DEF ResumeInv
<1>2. CASE runner = "query"
  <2>1. lane.request # None /\ ~(\E d \in Callers : Resumes(d))
    BY <1>2 DEF LoopInv, Owned, ResumeInv
  <2>2. ~(\E d \in Callers : Resumes(d)')
    BY <1>2, <2>1, NoneFreed
  <2>3. QED
    BY <2>2 DEF ResumeInv
<1>3. QED
  BY <1>1, <1>2

-----------------------------------------------------------------------------
(* A caller gets the open query or a new one, unless one is on the air that*)
(* it may not join.                                                        *)
LEMMA AcquireOwned ==
  ASSUME NEW l, NEW querying \in BOOLEAN, Owned(l, querying), NEW c \in Callers,
         session \in Nat, ~querying \/ Joined(l), Acquire(c, l),
         l.made < MaxCalls \/ Joined(l)
  PROVE  /\ Owned(lane', querying)
         /\ lane'.made \in Nat /\ l.made <= lane'.made
         /\ lane'.made <= (IF Joined(l) THEN l.made ELSE l.made + 1)
         /\ \E q \in 1 .. lane'.made :
              callers' = [callers EXCEPT ![c] = [at |-> "waiting", on |-> q]]
         /\ querying => lane' = l
<1>1. MaxCalls \in Nat /\ l \in Lanes /\ l.made \in Nat /\ l.made <= MaxCalls
  BY LoopAssumption, LanesAre DEF LoopAssumption, Owned
<1>2. CASE Joined(l)
  <2>1. /\ lane' = l
        /\ callers' = [callers EXCEPT ![c] = [at |-> "waiting", on |-> l.request]]
    BY <1>2 DEF Acquire
  <2>2. l.request \in 1 .. l.made
    BY <1>2, RequestIsQuery DEF Joined, Owned, Queries
  <2>3. \E q \in 1 .. lane'.made :
          callers' = [callers EXCEPT ![c] = [at |-> "waiting", on |-> q]]
    BY <2>1, <2>2
  <2>4. lane'.made = l.made /\ Owned(lane', querying)
    BY <2>1
  <2>5. /\ lane'.made \in Nat /\ l.made <= lane'.made
        /\ lane'.made <= (IF Joined(l) THEN l.made ELSE l.made + 1)
    BY <1>1, <1>2, <2>4
  <2>6. QED
    BY <2>1, <2>3, <2>4, <2>5
<1>3. CASE ~Joined(l)
  <2> DEFINE free == IF l.request # None /\ l.of[l.request].answer = "no" THEN Dropped(l) ELSE l
             q == free.made + 1
             e == [free.of[q] EXCEPT !.gen = session]
             m == [free EXCEPT !.of[q] = e]
             k == [m EXCEPT !.request = q, !.event = TRUE, !.made = q]
  <2>1. Owned(free, FALSE) /\ free.made = l.made /\ free.request = None
    <3>1. ~querying
      BY <1>3
    <3>2. CASE l.request # None
      <4>1. l.of[l.request].answer = "no"
        BY <3>1, <3>2, <1>1, RequestIsQuery DEF Owned
      <4>2. QED
        BY <3>1, <3>2, <4>1, DroppedOwned
    <3>3. CASE l.request = None
      BY <3>1, <3>3
    <3>4. QED
      BY <3>2, <3>3
  <2>2. /\ callers' = [callers EXCEPT ![c] = [at |-> "waiting", on |-> q]]
        /\ lane' = [free EXCEPT !.request = q, !.event = TRUE, !.made = q, !.of[q].gen = session]
    BY <1>3, <2>1 DEF Acquire, Refused
  <2> HIDE DEF free
  <2>3. q \in Queries /\ q \in Nat /\ q \in 1 .. q /\ q = l.made + 1 /\ q <= MaxCalls
    BY <1>1, <1>3, <2>1 DEF Queries
  <2>4. free \in Lanes /\ free.of[q] \in Entries
    BY <2>1, <2>3, LanesAre DEF Owned
  <2>5. /\ e \in Entries /\ e.active = free.of[q].active
        /\ e.answer = free.of[q].answer /\ e.quiesced = free.of[q].quiesced
    BY <2>4 DEF Entries
  <2>6. lane' = [free EXCEPT !.request = q, !.event = TRUE, !.made = q, !.of[q] = e]
    BY <2>2
  <2> HIDE DEF q, e
  <2>7. lane' = k
    BY <2>6
  <2>8. /\ m \in Lanes /\ m.of[q] = e
        /\ \A p \in Queries : p # q => m.of[p] = free.of[p]
    BY <2>3, <2>4, <2>5, EntryChanged
  <2> HIDE DEF m
  <2>9. k \in Lanes /\ k.request = q /\ k.made = q /\ k.of = m.of
    <3>1. q \in 0 .. MaxCalls
      BY <1>1, <2>3
    <3>2. QED
      BY <2>8, <3>1, LanesAre
  <2> HIDE DEF k
  <2>10. \A p \in Queries :
           /\ ~free.of[p].active
           /\ p <= l.made => free.of[p].answer # "no"
           /\ l.made < p => free.of[p].answer = "no" /\ ~free.of[p].quiesced
    BY <2>1 DEF Owned, None, Queries
  <2>11. Owned(k, FALSE)
    <3>1. k \in Lanes /\ k.request <= k.made
      BY <2>3, <2>9
    <3>2. ASSUME NEW p \in Queries
          PROVE  /\ ~k.of[p].active
                 /\ k.request = p => k.of[p].answer = "no" /\ ~k.of[p].quiesced
                 /\ k.request # p /\ p <= k.made => k.of[p].answer # "no"
                 /\ k.made < p => k.of[p].answer = "no" /\ ~k.of[p].quiesced
      <4>1. p \in Nat
        BY DEF Queries
      <4>2. CASE p = q
        BY <1>1, <2>3, <2>5, <2>8, <2>9, <2>10, <4>1, <4>2
      <4>3. CASE p # q
        <5>1. k.of[p] = free.of[p]
          BY <2>8, <2>9, <4>3
        <5>2. QED
          BY <1>1, <2>3, <2>9, <2>10, <4>1, <4>3, <5>1
      <4>4. QED
        BY <4>2, <4>3
    <3>3. QED
      BY <3>1, <3>2 DEF Owned
  <2>12. lane'.made = q
    BY <2>7, <2>9
  <2>13. \E p \in 1 .. lane'.made :
           callers' = [callers EXCEPT ![c] = [at |-> "waiting", on |-> p]]
    BY <2>2, <2>3, <2>12
  <2>14. ~querying /\ Owned(lane', querying)
    BY <1>3, <2>7, <2>11
  <2>15. /\ lane'.made \in Nat /\ l.made <= lane'.made
         /\ lane'.made <= (IF Joined(l) THEN l.made ELSE l.made + 1)
    BY <1>1, <1>3, <2>3, <2>12
  <2>16. QED
    BY <2>13, <2>14, <2>15
<1>4. QED
  BY <1>2, <1>3

(* Steps that neither touch the lane nor begin or end a query.             *)
LEMMA QuietStep ==
  ASSUME LoopInv, lane' = lane, callers' = callers, session' \in Nat, runner' \in Runners,
         (runner' = "query") <=> (runner = "query"),
         runner' = "top" => runner = "top" \/ ~Resuming,
         made' \in Counters, made.calls <= made'.calls
  PROVE  LoopInv'
<1>1. Owned(lane, runner = "query") /\ ResumeInv
  BY DEF LoopInv
<1>2. Owned(lane', runner' = "query")
  <2>1. (runner' = "query") = (runner = "query")
    OBVIOUS
  <2>2. QED
    BY <1>1, <2>1
<1>3. ResumeInv'
  <2>1. (\E d \in Callers : Resumes(d))' <=> (\E d \in Callers : Resumes(d))
    BY DEF Resumes
  <2>2. CASE runner' = "top" /\ ~Resuming
    BY <2>1, <2>2 DEF Resuming, ResumeInv
  <2>3. CASE ~(runner' = "top" /\ ~Resuming)
    BY <1>1, <2>1, <2>3 DEF ResumeInv
  <2>4. QED
    BY <2>2, <2>3
<1>4. QED
  BY <1>2, <1>3, LaneStep

-----------------------------------------------------------------------------
(* A call goes on: what is left is the lane and the count of the calls.    *)
LEMMA CallerStep ==
  ASSUME LoopInv, session' = session, runner' = runner, runner # "top", NEW c \in Callers,
         NEW s \in {"out", "waiting", "tearing"}, NEW q \in 0 .. MaxCalls,
         callers' = [callers EXCEPT ![c] = [at |-> s, on |-> q]],
         Owned(lane', runner = "query"), lane'.made \in Nat, lane.made <= lane'.made,
         s # "out" => q \in 1 .. lane'.made,
         runner = "query" =>
           /\ \A p \in Queries : lane'.of[p].quiesced = lane.of[p].quiesced
           /\ s = "tearing" => q = lane.request,
         CallsInv'
  PROVE  LoopInv'
<1>1. CallersInv /\ runner \in Runners /\ session \in Nat
  BY DEF LoopInv
<1>2. callers \in [Callers -> [at : {"out", "waiting", "tearing"}, on : 0 .. MaxCalls]]
  BY <1>1 DEF CallersInv
<1>3. /\ callers' \in [Callers -> [at : {"out", "waiting", "tearing"}, on : 0 .. MaxCalls]]
      /\ callers'[c].at = s /\ callers'[c].on = q
      /\ \A d \in Callers : d # c => callers'[d] = callers[d]
  BY <1>2
<1>4. lane.made \in Nat
  BY LoopAssumption, LanesAre DEF LoopInv, Owned, LoopAssumption
<1>5. CallersInv'
  <2>1. ASSUME NEW d \in Callers, callers'[d].at # "out"
        PROVE  callers'[d].on \in 1 .. lane'.made
    <3>1. CASE d = c
      BY <1>3, <2>1, <3>1
    <3>2. CASE d # c
      <4>1. callers[d].on \in 1 .. lane.made
        BY <1>1, <1>3, <2>1, <3>2 DEF CallersInv
      <4>2. QED
        BY <1>3, <1>4, <3>2, <4>1
    <3>3. QED
      BY <3>1, <3>2
  <2>2. QED
    BY <1>3, <2>1 DEF CallersInv
<1>6. ResumeInv'
  <2>1. runner = "query" =>
          /\ \A p \in Queries : lane'.of[p].quiesced = lane.of[p].quiesced
          /\ \A d \in Callers : callers'[d].at = "tearing"
               => callers'[d] = callers[d] \/ callers'[d].on = lane.request
    BY <1>3
  <2>2. QED
    BY <2>1, WaitingResumes
<1>7. QED
  BY <1>1, <1>5, <1>6 DEF LoopInv

LEMMA CallersAre ==
  ASSUME LoopInv
  PROVE  callers \in [Callers -> [at : {"out", "waiting", "tearing"}, on : 0 .. MaxCalls]]
BY DEF LoopInv, CallersInv

LEMMA Counts ==
  ASSUME LoopInv
  PROVE  /\ IsFiniteSet(Tearing) /\ Cardinality(Tearing) \in Nat
         /\ lane.made \in Nat /\ made.calls \in Nat /\ MaxCalls \in Nat
         /\ made.calls <= MaxCalls /\ lane.made + Cardinality(Tearing) <= made.calls
<1>1. CallsInv /\ MaxCalls \in Nat /\ lane \in Lanes
  BY LoopAssumption DEF LoopInv, Owned, LoopAssumption
<1>2. lane.made \in Nat
  BY <1>1, LanesAre
<1>3. QED
  BY <1>1, <1>2, FS_CardinalityType DEF CallsInv, Counters

(* A caller returns, times out, or is cancelled.                           *)
LEMMA OutStep ==
  ASSUME LoopInv, NEW c \in Callers, Returns(c) \/ TimesOut(c) \/ Leaves(c)
  PROVE  LoopInv'
<1>1. /\ runner' = runner /\ runner # "top" /\ session' = session /\ made' = made
      /\ callers' = [callers EXCEPT ![c] = [at |-> "out", on |-> None]]
  BY DEF Returns, TimesOut, Leaves, Others
<1>2. /\ Owned(lane', runner = "query") /\ lane'.made = lane.made
      /\ runner = "query" => \A p \in Queries : lane'.of[p].quiesced = lane.of[p].quiesced
  <2>1. CASE lane' = lane
    BY <2>1 DEF LoopInv
  <2>2. CASE lane' # lane
    <3>1. /\ lane' = Failed(lane, callers[c].on) /\ lane.of[callers[c].on].answer = "no"
          /\ callers[c].at = "waiting"
      BY <2>2 DEF Returns, TimesOut, Leaves
    <3>2. callers[c].on \in 1 .. lane.made
      BY <3>1 DEF LoopInv, CallersInv
    <3>3. callers[c].on \in Queries /\ callers[c].on <= lane.made /\ callers[c].on # None
      BY <3>2, Counts DEF Queries, None
    <3>4. lane.request = callers[c].on
      BY <3>1, <3>3 DEF LoopInv, Owned
    <3>5. (runner = "query") \in BOOLEAN
      OBVIOUS
    <3>6. Owned(lane, runner = "query")
      BY DEF LoopInv
    <3>7. QED
      BY <3>1, <3>3, <3>4, <3>5, <3>6, FailedOwned
  <2>3. QED
    BY <2>1, <2>2
<1>3. CallsInv'
  <2>1. Tearing' \in SUBSET Tearing
    <3>1. callers'[c].at = "out" /\ \A d \in Callers : d # c => callers'[d] = callers[d]
      BY <1>1, CallersAre
    <3>2. QED
      BY <3>1 DEF Tearing
  <2>2. IsFiniteSet(Tearing') /\ Cardinality(Tearing') <= Cardinality(Tearing)
    BY <2>1, Counts, FS_Subset
  <2>3. Cardinality(Tearing') \in Nat
    BY <2>2, FS_CardinalityType
  <2>4. made' \in Counters
    BY <1>1 DEF LoopInv, CallsInv
  <2>5. QED
    BY <1>1, <1>2, <2>2, <2>3, <2>4, Counts DEF CallsInv
<1>4. None \in 0 .. MaxCalls /\ lane'.made \in Nat /\ lane.made <= lane'.made
  BY <1>2, Counts DEF None
<1>5. QED
  BY <1>1, <1>2, <1>3, <1>4, CallerStep

(* A new call joins, makes a query, or waits for one to be torn down.      *)
LEMMA QueryStep ==
  ASSUME LoopInv, NEW c \in Callers, Query(c)
  PROVE  LoopInv'
<1> DEFINE r == lane.request
           l == IF r # None /\ lane.of[r].gen # session THEN Dropped(lane) ELSE lane
           querying == runner = "query"
<1>1. /\ runner' = runner /\ runner # "top" /\ session' = session
      /\ callers[c].at = "out" /\ made.calls < MaxCalls
      /\ made' = [made EXCEPT !.calls = @ + 1]
  BY DEF Query, MayCall, Others
<1>2. made \in Counters /\ session \in Nat /\ Owned(lane, querying) /\ querying \in BOOLEAN
  BY DEF LoopInv, CallsInv
<1>3. made' \in Counters /\ made'.calls = made.calls + 1
  <2>1. made.calls + 1 \in 0 .. MaxCalls
    BY <1>1, Counts
  <2>2. QED
    BY <1>1, <1>2, <2>1 DEF Counters
<1>4. /\ Owned(l, querying) /\ l.made = lane.made
      /\ querying => \A p \in Queries : l.of[p].quiesced = lane.of[p].quiesced
  BY <1>2, DroppedOwned
<1> USE DEF querying
<1>5. CASE r # None /\ l.of[r].answer # "no"
  <2>1. lane' = l /\ callers' = [callers EXCEPT ![c] = [at |-> "tearing", on |-> r]]
    BY <1>5 DEF Query
  <2>2. r \in Queries /\ r \in 1 .. lane'.made /\ r \in 0 .. MaxCalls
    BY <1>2, <1>4, <1>5, <2>1, RequestIsQuery, Counts DEF Owned, Queries
  <2>3. CallsInv'
    <3>1. /\ callers'[c].at = "tearing"
          /\ \A d \in Callers : d # c => callers'[d] = callers[d]
      BY <2>1, CallersAre
    <3>2. Tearing' = Tearing \cup {c} /\ c \notin Tearing
      BY <1>1, <3>1 DEF Tearing
    <3>3. IsFiniteSet(Tearing') /\ Cardinality(Tearing') = Cardinality(Tearing) + 1
      BY <3>2, Counts, FS_AddElement
    <3>4. QED
      BY <1>3, <1>4, <2>1, <3>3, Counts DEF CallsInv
  <2>4. lane'.made \in Nat /\ lane.made <= lane'.made
    BY <1>4, <2>1, Counts
  <2> HIDE DEF l
  <2>5. Owned(lane', runner = "query")
    BY <1>4, <2>1
  <2>6. runner = "query" => \A p \in Queries : lane'.of[p].quiesced = lane.of[p].quiesced
    BY <1>4, <2>1
  <2>7. QED
    BY <1>1, <2>1, <2>2, <2>3, <2>4, <2>5, <2>6, CallerStep
<1>6. CASE ~(r # None /\ l.of[r].answer # "no")
  <2>1. Acquire(c, l)
    BY <1>6 DEF Query
  <2>2. ~querying \/ Joined(l)
    <3>1. CASE ~querying
      BY <3>1
    <3>2. CASE querying
      <4>1. r # None /\ r \in Queries
        BY <1>2, <3>2, RequestIsQuery DEF Owned
      <4>2. lane.of[r].gen = session
        <5>1. CASE lane.of[r].gen # session
          <6>1. l = Dropped(lane) /\ l.of[r].answer = "no"
            BY <1>6, <4>1, <5>1
          <6>2. lane.of[r].active
            BY <1>2, <3>2, <4>1 DEF Owned
          <6>3. lane.of[r].answer = "no" => l = Settled(lane, r, "error")
            BY <4>1, <6>1, <6>2 DEF Dropped, Failed
          <6>4. lane.of[r].answer # "no" => l = lane
            BY <6>1 DEF Dropped
          <6>5. lane \in Lanes /\ "error" \in Kinds /\ "error" # "no"
            BY <1>2 DEF Owned, Kinds
          <6>6. Settled(lane, r, "error").of[r].answer # "no"
            BY <4>1, <6>5, SettledShape
          <6>7. QED
            BY <6>1, <6>3, <6>4, <6>6
        <5>2. QED
          BY <5>1
      <4>3. l = lane
        BY <4>2
      <4>4. QED
        BY <1>6, <4>1, <4>2, <4>3 DEF Joined
    <3>3. QED
      BY <3>1, <3>2
  <2> HIDE DEF l
  <2>3. l.made < MaxCalls
    BY <1>1, <1>4, Counts
  <2>4. /\ Owned(lane', querying) /\ lane'.made \in Nat /\ l.made <= lane'.made
        /\ lane'.made <= (IF Joined(l) THEN l.made ELSE l.made + 1)
        /\ querying => lane' = l
    BY <1>2, <1>4, <2>1, <2>2, <2>3, AcquireOwned
  <2>5. PICK q \in 1 .. lane'.made :
          callers' = [callers EXCEPT ![c] = [at |-> "waiting", on |-> q]]
    BY <1>2, <1>4, <2>1, <2>2, <2>3, AcquireOwned
  <2>6. lane'.made <= lane.made + 1 /\ lane.made <= lane'.made
    BY <1>4, <2>4, Counts
  <2>7. CallsInv'
    <3>1. /\ callers'[c].at = "waiting"
          /\ \A d \in Callers : d # c => callers'[d] = callers[d]
      BY <2>5, CallersAre
    <3>2. Tearing' = Tearing
      BY <1>1, <3>1 DEF Tearing
    <3>3. QED
      BY <1>3, <2>4, <2>6, <3>2, Counts DEF CallsInv
  <2>8. q \in 0 .. MaxCalls
    BY <1>1, <2>4, <2>6, Counts
  <2>9. runner = "query" => \A p \in Queries : lane'.of[p].quiesced = lane.of[p].quiesced
    BY <1>4, <2>4
  <2>10. QED
    BY <1>1, <2>4, <2>5, <2>6, <2>7, <2>8, <2>9, CallerStep
<1>7. QED
  BY <1>5, <1>6

(* A call whose wait is over finds no query on the air.                    *)
LEMMA TornDownStep ==
  ASSUME LoopInv, NEW c \in Callers, TornDown(c)
  PROVE  LoopInv'
<1>1. /\ runner' = runner /\ runner # "top" /\ session' = session /\ made' = made
      /\ callers[c].at = "tearing" /\ Acquire(c, lane)
  BY DEF TornDown, Resumes, Others
<1>2. made \in Counters /\ session \in Nat /\ Owned(lane, runner = "query")
  BY DEF LoopInv, CallsInv
<1>3. runner # "query"
  BY DEF LoopInv, ResumeInv, TornDown
<1>4. (runner = "query") = FALSE /\ Owned(lane, FALSE)
  BY <1>2, <1>3
<1>5. c \in Tearing
  BY <1>1 DEF Tearing
<1>6. IsFiniteSet(Tearing \ {c}) /\ Cardinality(Tearing \ {c}) = Cardinality(Tearing) - 1
  BY <1>5, Counts, FS_RemoveElement
<1>7. Cardinality(Tearing \ {c}) \in Nat
  BY <1>6, FS_CardinalityType
<1>8. lane.made < MaxCalls
  BY <1>6, <1>7, Counts
<1>9. /\ Owned(lane', FALSE) /\ lane'.made \in Nat /\ lane.made <= lane'.made
      /\ lane'.made <= (IF Joined(lane) THEN lane.made ELSE lane.made + 1)
  BY <1>1, <1>2, <1>4, <1>8, AcquireOwned
<1>10. PICK q \in 1 .. lane'.made :
         callers' = [callers EXCEPT ![c] = [at |-> "waiting", on |-> q]]
  BY <1>1, <1>2, <1>4, <1>8, AcquireOwned
<1>11. lane'.made <= lane.made + 1
  BY <1>9, Counts
<1>12. CallsInv'
  <2>1. callers'[c].at = "waiting" /\ \A d \in Callers : d # c => callers'[d] = callers[d]
    BY <1>10, CallersAre
  <2>2. Tearing' = Tearing \ {c}
    BY <2>1 DEF Tearing
  <2>3. QED
    BY <1>1, <1>2, <1>6, <1>7, <1>9, <1>11, <2>2, Counts DEF CallsInv
<1>13. q \in 0 .. MaxCalls
  BY <1>8, <1>9, <1>11, Counts
<1>14. QED
  BY <1>1, <1>3, <1>4, <1>9, <1>10, <1>12, <1>13, CallerStep

LEMMA CallsStep ==
  ASSUME LoopInv, NEW c \in Callers, Caller(c)
  PROVE  LoopInv'
<1>1. CASE Query(c)
  BY <1>1, QueryStep
<1>2. CASE TornDown(c)
  BY <1>2, TornDownStep
<1>3. CASE Returns(c) \/ TimesOut(c) \/ Leaves(c)
  BY <1>3, OutStep
<1>4. QED
  BY <1>1, <1>2, <1>3 DEF Caller

-----------------------------------------------------------------------------
(* The controller's query is cancelled, or fails with the link.            *)
LEMMA DropStep ==
  ASSUME LoopInv, Cancel \/ LinkDrops \/ Shutdown
  PROVE  LoopInv'
<1>1. /\ runner' = runner /\ runner # "top" /\ session' = session /\ callers' = callers
      /\ lane' = Dropped(lane)
  BY DEF Cancel, LinkDrops, Shutdown, Others
<1>2. /\ Owned(lane, runner = "query") /\ (runner = "query") \in BOOLEAN
      /\ runner \in Runners /\ session \in Nat /\ made \in Counters
  BY DEF LoopInv, CallsInv
<1>3. /\ Owned(lane', runner = "query") /\ lane'.made = lane.made
      /\ runner = "query" => \A q \in Queries : lane'.of[q].quiesced = lane.of[q].quiesced
  BY <1>1, <1>2, DroppedOwned
<1>4. made' \in Counters /\ made.calls <= made'.calls
  <2>1. CASE made' = made
    BY <1>2, <2>1, Counts
  <2>2. CASE Shutdown
    <3>1. made' = [calls |-> MaxCalls, commands |-> MaxCommands, notices |-> MaxNotices]
      BY <2>2 DEF Shutdown
    <3>2. MaxCalls \in Nat /\ MaxCommands \in Nat /\ MaxNotices \in Nat
      BY LoopAssumption DEF LoopAssumption
    <3>3. QED
      BY <3>1, <3>2, Counts DEF Counters
  <2>3. QED
    BY <2>1, <2>2 DEF Cancel, LinkDrops
<1>5. ResumeInv'
  BY <1>1, <1>3, WaitingResumes
<1>6. Owned(lane', runner' = "query")
  BY <1>1, <1>3
<1>7. QED
  BY <1>1, <1>2, <1>3, <1>4, <1>5, <1>6, LaneStep

(* Time goes on for the controller's query.                                *)
LEMMA TickStep == ASSUME LoopInv, Tick PROVE LoopInv'
<1>1. /\ UNCHANGED <<session, runner, callers, made>> /\ runner # "top"
  BY DEF Tick
<1>2. /\ Owned(lane, runner = "query") /\ runner \in Runners /\ session \in Nat
      /\ made \in Counters
  BY DEF LoopInv, CallsInv
<1>3. /\ Owned(lane', runner = "query") /\ lane'.made = lane.made
      /\ \A q \in Queries : lane'.of[q].quiesced = lane.of[q].quiesced
  <2>1. CASE lane.request = None
    BY <1>2, <2>1 DEF Tick
  <2>2. CASE lane.request # None
    <3> DEFINE r == lane.request
               e == [lane.of[r] EXCEPT !.age = Least(lane.of[r].age + 1, QueryTimeout)]
    <3>1. lane \in Lanes /\ r \in Queries
      BY <1>2, <2>2, RequestIsQuery DEF Owned
    <3>2. lane' = [lane EXCEPT !.of[r] = e]
      BY <2>2 DEF Tick
    <3>3. lane.of[r] \in Entries /\ QueryTimeout \in Nat
      BY <3>1, LanesAre, LoopAssumption DEF LoopAssumption
    <3>4. Least(lane.of[r].age + 1, QueryTimeout) \in Nat
      BY <3>3 DEF Entries, Least
    <3>5. /\ e \in Entries /\ e.active = lane.of[r].active
          /\ e.answer = lane.of[r].answer /\ e.quiesced = lane.of[r].quiesced
      BY <3>3, <3>4 DEF Entries
    <3> HIDE DEF e
    <3>6. /\ lane' \in Lanes /\ lane'.request = r /\ lane'.made = lane.made
          /\ lane'.of[r] = e /\ \A p \in Queries : p # r => lane'.of[p] = lane.of[p]
      BY <3>1, <3>2, <3>5, EntryChanged
    <3>7. \A p \in Queries :
            /\ lane'.of[p].active = lane.of[p].active
            /\ lane'.of[p].answer = lane.of[p].answer
            /\ lane'.of[p].quiesced = lane.of[p].quiesced
      BY <3>5, <3>6
    <3>8. Owned(lane', runner = "query")
      BY <1>2, <3>6, <3>7 DEF Owned
    <3>9. QED
      BY <3>6, <3>7, <3>8
  <2>3. QED
    BY <2>1, <2>2
<1>4. ResumeInv'
  BY <1>1, <1>3, WaitingResumes
<1>5. Owned(lane', runner' = "query") /\ made' \in Counters /\ made.calls <= made'.calls
  BY <1>1, <1>2, <1>3, Counts
<1>6. QED
  BY <1>1, <1>2, <1>3, <1>4, <1>5, LaneStep

(* The runner is cancelled, and releases its query where it has one.       *)
LEMMA StopStep == ASSUME LoopInv, RunnerStops PROVE LoopInv'
<1>1. UNCHANGED <<session, callers, made>> /\ runner' = "stopped" /\ runner' \in Runners
  BY DEF RunnerStops, Runners
<1>2. /\ Owned(lane, runner = "query") /\ session \in Nat /\ made \in Counters
  BY DEF LoopInv, CallsInv
<1>3. Owned(lane', FALSE) /\ lane'.made = lane.made
  <2>1. CASE runner # "query"
    <3>1. lane' = lane /\ (runner = "query") = FALSE
      BY <2>1 DEF RunnerStops
    <3>2. QED
      BY <1>2, <3>1
  <2>2. CASE runner = "query"
    <3>1. lane' = Released(Failed(lane, lane.request), lane.request)
      BY <2>2 DEF RunnerStops
    <3>2. (runner = "query") = TRUE
      BY <2>2
    <3>3. Owned(lane, TRUE)
      BY <1>2, <3>2
    <3>4. lane.request \in Queries /\ lane.of[lane.request].active
      BY <3>3, RequestIsQuery DEF Owned
    <3>5. Failed(lane, lane.request) = Settled(lane, lane.request, "error")
      BY <3>4 DEF Failed
    <3>6. QED
      BY <3>1, <3>3, <3>5, EndedOwned
  <2>3. QED
    BY <2>1, <2>2
<1>4. ResumeInv'
  BY <1>1 DEF ResumeInv
<1>5. /\ Owned(lane', runner' = "query") /\ made' \in Counters /\ made.calls <= made'.calls
      /\ session' \in Nat
  <2>1. (runner' = "query") = FALSE
    BY <1>1
  <2>2. Owned(lane', runner' = "query")
    BY <1>3, <2>1
  <2>3. made' \in Counters /\ made.calls <= made'.calls /\ session' \in Nat
    BY <1>1, <1>2, Counts
  <2>4. QED
    BY <2>2, <2>3
<1>6. QED
  BY <1>1, <1>3, <1>4, <1>5, LaneStep

-----------------------------------------------------------------------------
(* A session begins without the query of an earlier one.                   *)
LEMMA BeginStep == ASSUME LoopInv, BeginCycle PROVE LoopInv'
<1>1. /\ callers' = callers /\ made' = made /\ session' = session + 1
      /\ runner = "away" /\ runner' = "connecting" /\ runner' \in Runners
      /\ lane' = Dropped(lane)
  BY DEF BeginCycle, Runs, Runners
<1>2. /\ Owned(lane, runner = "query") /\ session' \in Nat /\ made \in Counters
      /\ (runner = "query") \in BOOLEAN
  BY <1>1 DEF LoopInv, CallsInv
<1>3. Owned(lane', runner = "query") /\ lane'.made = lane.made
  BY <1>1, <1>2, DroppedOwned
<1>4. (runner' = "query") = (runner = "query")
  BY <1>1
<1>5. Owned(lane', runner' = "query")
  BY <1>3, <1>4
<1>6. made' \in Counters /\ made.calls <= made'.calls
  BY <1>1, <1>2, Counts
<1>7. ResumeInv'
  BY <1>1 DEF ResumeInv
<1>8. QED
  BY <1>1, <1>2, <1>3, <1>5, <1>6, <1>7, LaneStep

(* A query's transaction ends, and with it the query.                      *)
LEMMA EndStep == ASSUME LoopInv, NEW a \in Answers, QueryEnds(a) PROVE LoopInv'
<1> DEFINE b == IF a = "answered" THEN "answer" ELSE "error"
<1>1. /\ callers' = callers /\ session' = session /\ made' = made
      /\ runner = "query" /\ runner' = "top" /\ runner' \in Runners
      /\ lane' = Released(Settled(lane, lane.request, b), lane.request)
  BY DEF QueryEnds, Runs, Runners, Fixed
<1>2. /\ Owned(lane, TRUE) /\ session \in Nat /\ made \in Counters
  <2>1. (runner = "query") = TRUE
    BY <1>1
  <2>2. Owned(lane, runner = "query")
    BY DEF LoopInv
  <2>3. QED
    BY <2>1, <2>2 DEF LoopInv, CallsInv
<1>3. b \in {"answer", "error"}
  OBVIOUS
<1>4. Owned(lane', FALSE) /\ lane'.made = lane.made /\ lane'.request = None
  BY <1>1, <1>2, <1>3, EndedOwned
<1>5. Owned(lane', runner' = "query")
  <2>1. (runner' = "query") = FALSE
    BY <1>1
  <2>2. QED
    BY <1>4, <2>1
<1>6. made' \in Counters /\ made.calls <= made'.calls /\ session' \in Nat
  BY <1>1, <1>2, Counts
<1>7. ResumeInv'
  BY <1>1, <1>4 DEF ResumeInv
<1>8. QED
  BY <1>1, <1>4, <1>5, <1>6, <1>7, LaneStep

(* At the top of the loop an open query is taken, or fails when it is      *)
(* stale.                                                                  *)
LEMMA TakenOwned ==
  ASSUME LoopInv, runner = "top"
  PROVE  /\ Owned(Taken, Activates) /\ Taken.made = lane.made
         /\ Activates \in BOOLEAN
         /\ Activates => /\ lane.request # None
                         /\ \A q \in Queries : Taken.of[q].quiesced = lane.of[q].quiesced
<1> DEFINE r == lane.request
           k == Taken
<1>1. Owned(lane, FALSE) /\ lane \in Lanes
  <2>1. (runner = "query") = FALSE
    OBVIOUS
  <2>2. Owned(lane, runner = "query")
    BY DEF LoopInv
  <2>3. Owned(lane, FALSE)
    BY <2>1, <2>2
  <2>4. QED
    BY <2>3 DEF Owned
<1>2. CASE r = None
  <2>1. Taken = lane
    BY <1>2 DEF Taken
  <2>2. Activates = FALSE
    BY <1>2, <2>1 DEF Activates
  <2>3. QED
    BY <1>1, <2>1, <2>2
<1>3. CASE r # None
  <2>1. r \in Queries /\ r <= lane.made /\ r \in Nat
    BY <1>1, <1>3, RequestIsQuery DEF Owned
  <2>2. lane.of[r].answer = "no" /\ ~lane.of[r].active /\ ~lane.of[r].quiesced
    BY <1>1, <2>1 DEF Owned
  <2>3. CASE lane.of[r].gen # session \/ lane.of[r].age >= QueryTimeout
    <3>1. Taken = Failed(lane, r)
      BY <1>3, <2>2, <2>3 DEF Taken
    <3>2. Owned(Taken, FALSE) /\ Taken.made = lane.made /\ Taken.request = None
      BY <1>1, <1>3, <3>1, FailedOwned
    <3>3. Activates = FALSE
      BY <3>2 DEF Activates
    <3>4. QED
      BY <3>2, <3>3
  <2>4. CASE ~(lane.of[r].gen # session \/ lane.of[r].age >= QueryTimeout)
    <3> DEFINE e == [lane.of[r] EXCEPT !.active = TRUE]
               m == [lane EXCEPT !.of[r] = e]
               z == [m EXCEPT !.event = FALSE]
    <3>1. Taken = [lane EXCEPT !.of[r].active = TRUE, !.event = FALSE]
      BY <1>3, <2>2, <2>4 DEF Taken
    <3>2. lane.of[r] \in Entries
      BY <1>1, <2>1, LanesAre
    <3>3. /\ e \in Entries /\ e.active /\ e.answer = "no" /\ ~e.quiesced
          /\ e.quiesced = lane.of[r].quiesced
      BY <2>2, <3>2 DEF Entries
    <3>4. Taken = [lane EXCEPT !.of[r] = e, !.event = FALSE]
      BY <3>1
    <3> HIDE DEF e
    <3>5. Taken = z
      BY <3>4
    <3>6. /\ m \in Lanes /\ m.request = r /\ m.made = lane.made /\ m.of[r] = e
          /\ \A p \in Queries : p # r => m.of[p] = lane.of[p]
      BY <1>1, <2>1, <3>3, EntryChanged
    <3> HIDE DEF m
    <3>7. z \in Lanes /\ z.request = r /\ z.made = lane.made /\ z.of = m.of
      BY <3>6, LanesAre
    <3> HIDE DEF z
    <3>8. Owned(z, TRUE)
      <4>1. \A p \in Queries : p # r =>
              /\ ~lane.of[p].active
              /\ p <= lane.made => lane.of[p].answer # "no"
              /\ lane.made < p => lane.of[p].answer = "no" /\ ~lane.of[p].quiesced
        BY <1>1 DEF Owned
      <4>2. r \in Nat /\ lane.made \in Nat /\ ~(lane.made < r)
        BY <2>1, Counts
      <4>3. QED
        BY <1>3, <2>1, <3>3, <3>6, <3>7, <4>1, <4>2 DEF Owned
    <3>9. Activates = TRUE
      BY <1>3, <2>1, <3>3, <3>5, <3>6, <3>7 DEF Activates
    <3>10. \A q \in Queries : Taken.of[q].quiesced = lane.of[q].quiesced
      <4>1. \A q \in Queries : m.of[q].quiesced = lane.of[q].quiesced
        BY <3>3, <3>6
      <4>2. QED
        BY <3>5, <3>7, <4>1
    <3>11. Owned(Taken, Activates) /\ Activates \in BOOLEAN
      BY <3>5, <3>8, <3>9
    <3>12. Taken.made = lane.made
      BY <3>5, <3>7
    <3>13. QED
      BY <1>3, <3>10, <3>11, <3>12
  <2>5. QED
    BY <2>3, <2>4
<1>4. QED
  BY <1>2, <1>3

LEMMA TopStep == ASSUME LoopInv, Top PROVE LoopInv'
<1>1. /\ runner = "top" /\ callers' = callers /\ session' = session /\ made' = made
  BY DEF Top, TakeCommand, TakeQuery, StartRefresh, StartPoll, Idle, Takes, Fixed
<1>2. made' \in Counters /\ made.calls <= made'.calls /\ session' \in Nat
  BY <1>1, Counts DEF LoopInv, CallsInv
<1>3. /\ Owned(Taken, Activates) /\ Taken.made = lane.made /\ Activates \in BOOLEAN
      /\ Activates => /\ lane.request # None
                      /\ \A q \in Queries : Taken.of[q].quiesced = lane.of[q].quiesced
  BY <1>1, TakenOwned
<1>4. CASE TakeCommand
  <2>1. lane' = lane /\ runner' = "command" /\ runner' \in Runners
    BY <1>4 DEF TakeCommand, Runners
  <2>2. (runner' = "query") <=> (runner = "query")
    BY <1>1, <2>1
  <2>3. QED
    BY <1>1, <1>2, <2>1, <2>2, QuietStep
<1>5. CASE TakeQuery
  <2>1. lane' = Taken /\ Activates /\ runner' = "query" /\ runner' \in Runners
    BY <1>5 DEF TakeQuery, Runners
  <2>2. Owned(lane', runner' = "query")
    <3>1. (runner' = "query") = Activates
      BY <1>3, <2>1
    <3>2. QED
      BY <1>3, <2>1, <3>1
  <2>3. ResumeInv'
    <3>1. ~(\E d \in Callers : Resumes(d))
      BY <1>1, <1>3, <2>1 DEF LoopInv, ResumeInv
    <3>2. ~(\E d \in Callers : Resumes(d)')
      BY <1>1, <1>3, <2>1, <3>1, NoneFreed
    <3>3. QED
      BY <3>2 DEF ResumeInv
  <2>4. lane'.made = lane.made
    BY <1>3, <2>1
  <2>5. QED
    BY <1>1, <1>2, <2>1, <2>2, <2>3, <2>4, LaneStep
<1>6. CASE StartRefresh \/ StartPoll \/ Idle
  <2>1. /\ lane' = Taken /\ ~Activates
        /\ runner' \in {"pause", "poll", "idle", "cleanup"}
    BY <1>6 DEF StartRefresh, StartPoll, Idle
  <2>2. Owned(lane', runner' = "query") /\ runner' \in Runners
    <3>1. (runner' = "query") = Activates
      BY <1>3, <2>1
    <3>2. QED
      BY <1>3, <2>1, <3>1 DEF Runners
  <2>3. ResumeInv'
    BY <2>1 DEF ResumeInv
  <2>4. lane'.made = lane.made
    BY <1>3, <2>1
  <2>5. QED
    BY <1>1, <1>2, <2>2, <2>3, <2>4, LaneStep
<1>7. QED
  BY <1>4, <1>5, <1>6 DEF Top

(* What the runner does besides: it leaves the lane alone, and comes back  *)
(* to the top of the loop when everyone has gone on.                       *)
LEMMA RestStep ==
  ASSUME LoopInv,
         \/ Ready \/ CycleFails \/ CleanedUp \/ (\E n \in Ends : CommandEnds(n))
         \/ QuerySends \/ Refresh \/ NextInSweep \/ Asking \/ Polling \/ IdleEnds
  PROVE  LoopInv'
<1>1. UNCHANGED <<lane, callers, session, made>> /\ ~Resuming
  BY DEF Ready, CycleFails, CleanedUp, CommandEnds, QuerySends, Refresh, NextInSweep,
         Asking, Yields, AsksAgain, Asked, Polling, PollAgain, PollEnds, IdleEnds, Runs, Fixed,
         refreshVars
<1>2. made' \in Counters /\ made.calls <= made'.calls /\ session' \in Nat
  BY <1>1, Counts DEF LoopInv, CallsInv
<1>3. runner' \in Runners /\ ((runner' = "query") <=> (runner = "query"))
  <2>1. CASE Ready \/ CycleFails \/ CleanedUp \/ IdleEnds
    BY <2>1 DEF Ready, CycleFails, CleanedUp, IdleEnds, Runs, Runners
  <2>2. CASE QuerySends
    BY <2>2 DEF QuerySends, Runs, Runners
  <2>3. CASE \E n \in Ends : CommandEnds(n)
    BY <2>3 DEF CommandEnds, Runs, Runners, Ends
  <2>4. CASE Refresh \/ NextInSweep
    BY <2>4 DEF Refresh, NextInSweep, NextRequest, Defer, AsksNothing, Runs, Runners
  <2>5. CASE Asking
    BY <2>5 DEF Asking, Yields, AsksAgain, Asked, Defer, Runs, Runners
  <2>6. CASE Polling
    BY <2>6 DEF Polling, PollAgain, PollEnds, Runs, Runners, Ends
  <2>7. QED
    BY <2>1, <2>2, <2>3, <2>4, <2>5, <2>6
<1>4. QED
  BY <1>1, <1>2, <1>3, QuietStep

(* Commands and notices, and the ends of a cancellation and a shutdown.    *)
LEMMA OtherStep ==
  ASSUME LoopInv, Cancelled \/ Accept \/ Withdraw \/ ShutDown \/ Notice
  PROVE  LoopInv'
<1>1. UNCHANGED <<lane, callers, session>>
  BY DEF Cancelled, Accept, Withdraw, ShutDown, Notice, Others, Fixed, laneVars
<1>2. made \in Counters /\ session \in Nat /\ runner \in Runners
  BY DEF LoopInv, CallsInv
<1>3. made' \in Counters /\ made.calls <= made'.calls
  <2>1. CASE made' = made
    BY <1>2, <2>1, Counts
  <2>2. CASE Accept
    <3>1. made' = [made EXCEPT !.commands = @ + 1]
      BY <2>2 DEF Accept
    <3>2. QED
      BY <1>2, <3>1, Counts DEF Counters
  <2>3. CASE Notice
    <3>1. made' = [made EXCEPT !.notices = @ + 1]
      BY <2>3 DEF Notice
    <3>2. QED
      BY <1>2, <3>1, Counts DEF Counters
  <2>4. QED
    BY <2>1, <2>2, <2>3 DEF Cancelled, Withdraw, ShutDown
<1>4. /\ runner' \in Runners /\ ((runner' = "query") <=> (runner = "query"))
      /\ runner' = "top" => runner = "top" \/ ~Resuming
  <2>1. CASE runner' = runner
    BY <1>2, <2>1
  <2>2. CASE Notice
    BY <1>2, <2>2 DEF Notice, Runs, Runners
  <2>3. QED
    BY <2>1, <2>2 DEF Cancelled, Accept, Withdraw, ShutDown, Others
<1>5. QED
  BY <1>1, <1>2, <1>3, <1>4, QuietStep

LEMMA LoopStep == LoopInv /\ [Next]_vars => LoopInv'
<1> SUFFICES ASSUME LoopInv, [Next]_vars PROVE LoopInv'
  OBVIOUS
<1>1. CASE Runner
  <2>1. CASE BeginCycle
    BY <2>1, BeginStep
  <2>2. CASE Top
    BY <2>2, TopStep
  <2>3. CASE \E a \in Answers : QueryEnds(a)
    BY <2>3, EndStep
  <2>4. CASE \/ Ready \/ CycleFails \/ CleanedUp \/ (\E n \in Ends : CommandEnds(n))
             \/ QuerySends \/ Refresh \/ NextInSweep \/ Asking \/ Polling \/ IdleEnds
    BY <2>4, RestStep
  <2>5. QED
    BY <1>1, <2>1, <2>2, <2>3, <2>4 DEF Runner
<1>2. CASE \E c \in Callers : Caller(c)
  BY <1>2, CallsStep
<1>3. CASE Cancel \/ LinkDrops \/ Shutdown
  BY <1>3, DropStep
<1>4. CASE Tick
  BY <1>4, TickStep
<1>5. CASE RunnerStops
  BY <1>5, StopStep
<1>6. CASE Cancelled \/ Accept \/ Withdraw \/ ShutDown \/ Notice
  BY <1>6, OtherStep
<1>7. CASE UNCHANGED vars
  <2>1. UNCHANGED <<lane, callers, session, made, runner>>
    BY <1>7 DEF vars, laneVars
  <2>2. made' \in Counters /\ made.calls <= made'.calls /\ session' \in Nat /\ runner' \in Runners
    BY <2>1, Counts DEF LoopInv, CallsInv
  <2>3. QED
    BY <2>1, <2>2, QuietStep
<1>8. QED
  BY <1>1, <1>2, <1>3, <1>4, <1>5, <1>6, <1>7 DEF Next

-----------------------------------------------------------------------------
(* For any number of callers, calls and sessions, the controller owns an   *)
(* open query or the one on the air and nothing else, and whoever goes on  *)
(* after a tear-down finds none on the air (operations.py,                 *)
(* AirQualityQueryController; client.py, async_query_air_quality).         *)
THEOREM LoopCorrect == Spec => []LoopInv
<1>1. Init => LoopInv
  BY NothingOwned
<1>2. LoopInv /\ [Next]_vars => LoopInv'
  BY LoopStep
<1>3. QED
  BY <1>1, <1>2, PTL DEF Spec

(* A query is on the air exactly while the runner's transaction is for the *)
(* controller's query (operations.py, fail and release).                   *)
THEOREM OneQueryOnAir == Spec => []OneOnAir
<1>1. LoopInv => OneOnAir
  <2> SUFFICES ASSUME LoopInv, NEW q \in Queries
               PROVE  lane.of[q].active <=> (runner = "query" /\ lane.request = q)
    BY DEF OneOnAir
  <2>1. QED
    BY DEF LoopInv, Owned
<1>2. QED
  BY <1>1, LoopCorrect, PTL

(* However calls, cancellations, timeouts and lost links alternate, the    *)
(* controller refuses no caller (operations.py:94).                        *)
THEOREM NobodyRefused == Spec => []NeverRefused
<1>1. LoopInv => NeverRefused
  BY DEF LoopInv, CallersInv, NeverRefused
<1>2. QED
  BY <1>1, LoopCorrect, PTL
-----------------------------------------------------------------------------
(* Steps of callers and cancellations, and of time, which neither choose   *)
(* nor send.  Only a wait that was not struck may become struck.           *)
LEMMA Bystanders ==
  ASSUME \/ \E c \in Callers : Caller(c)
         \/ Cancel \/ Cancelled \/ Tick \/ LinkDrops \/ UNCHANGED vars
  PROVE  /\ UNCHANGED <<runner, left, pending, wake, behind, stop, refreshVars>>
         /\ struck = "early" => struck' = "early"
<1>1. ASSUME NEW c \in Callers, Caller(c)
      PROVE  UNCHANGED Others /\ (struck = "early" => struck' = "early")
  BY <1>1 DEF Caller, Query, TornDown, Returns, TimesOut, Leaves, Strike
<1>2. QED
  BY <1>1 DEF Cancel, Cancelled, Tick, LinkDrops, vars, Others, refreshVars, stopVars, laneVars

(* Nothing waits and nothing is written before the loop begins.            *)
LEMMA NothingBehind == Init => BehindInv
BY LoopAssumption DEF LoopAssumption, Init, BehindInv, Most

(* The choice of the loop: a command that waits is taken first.            *)
LEMMA TopGoesFirst == ASSUME BehindInv, Top PROVE BehindInv'
<1>1. PollAttempts - 1 \in Nat
  BY LoopAssumption DEF LoopAssumption
<1>2. QED
  BY <1>1 DEF BehindInv, Most, Top, TakeCommand, TakeQuery, StartRefresh, StartPoll, Idle,
     Takes, Discard, Fixed, stopVars

(* The query, the refresh and the poll write at most what they are allowed.*)
LEMMA SendsCounted ==
  ASSUME BehindInv,
         QuerySends \/ (\E a \in Answers : QueryEnds(a)) \/ Refresh \/ NextInSweep \/ Asking
           \/ Polling
  PROVE  BehindInv'
<1>1. PollAttempts - 1 \in Nat /\ RefreshAttempts - 1 \in Nat
  BY LoopAssumption DEF LoopAssumption
<1> USE <1>1 DEF BehindInv, Most, Runs, Fixed, stopVars
<1>2. CASE QuerySends
  BY <1>2 DEF QuerySends
<1>3. ASSUME NEW a \in Answers, QueryEnds(a)
      PROVE  BehindInv'
  BY <1>3 DEF QueryEnds
<1>4. CASE Refresh \/ NextInSweep
  BY <1>4 DEF Refresh, NextInSweep, NextRequest, Defer, AsksNothing, Works
<1>5. CASE Yields
  BY <1>5 DEF Yields, Defer
<1>6. CASE AsksAgain
  BY <1>6 DEF AsksAgain, Before
<1>7. ASSUME NEW a \in BOOLEAN, Asked(a)
      PROVE  BehindInv'
  BY <1>7 DEF Asked
<1>8. CASE PollAgain
  BY <1>8 DEF PollAgain
<1>9. ASSUME NEW n \in Ends, PollEnds(n)
      PROVE  BehindInv'
  BY <1>9 DEF PollEnds, Ends
<1>10. QED
  BY <1>2, <1>3, <1>4, <1>5, <1>6, <1>7, <1>8, <1>9 DEF Asking, Polling

(* Commands come and go, sessions begin and end.                           *)
LEMMA RestCounted ==
  ASSUME BehindInv,
         \/ BeginCycle \/ Ready \/ CycleFails \/ CleanedUp \/ (\E n \in Ends : CommandEnds(n))
         \/ IdleEnds \/ Notice \/ Accept \/ Withdraw \/ Shutdown \/ RunnerStops \/ ShutDown
  PROVE  BehindInv'
<1>1. PollAttempts - 1 \in Nat
  BY LoopAssumption DEF LoopAssumption
<1> USE <1>1 DEF BehindInv, Most, Runs, Fixed, stopVars
<1>2. CASE BeginCycle \/ Ready \/ CycleFails \/ CleanedUp
  BY <1>2 DEF BeginCycle, Ready, CycleFails, CleanedUp
<1>3. ASSUME NEW n \in Ends, CommandEnds(n)
      PROVE  BehindInv'
  BY <1>3 DEF CommandEnds, Ends
<1>4. CASE IdleEnds
  BY <1>4 DEF IdleEnds
<1>5. CASE Notice
  BY <1>5 DEF Notice
<1>6. CASE Accept
  BY <1>6 DEF Accept, Strike, Asks
<1>7. CASE Withdraw
  <2>1. /\ pending \in Nat /\ pending > 0 /\ pending' = pending - 1
        /\ behind' = IF pending = 1 THEN 0 ELSE behind
        /\ UNCHANGED <<runner, left, stop, struck>>
    BY <1>7 DEF Withdraw
  <2>2. wake /\ pending > 1 => wake'
    BY <1>7 DEF Withdraw
  <2>3. pending' > 0 => pending > 1
    BY <2>1
  <2>4. QED
    BY <2>1, <2>2, <2>3
<1>8. CASE Shutdown \/ RunnerStops \/ ShutDown
  BY <1>8 DEF Shutdown, RunnerStops, ShutDown
<1>9. QED
  BY <1>2, <1>3, <1>4, <1>5, <1>6, <1>7, <1>8

LEMMA BehindStep == BehindInv /\ [Next]_vars => BehindInv'
<1> SUFFICES ASSUME BehindInv, [Next]_vars PROVE BehindInv'
  OBVIOUS
<1>1. ASSUME UNCHANGED <<runner, left, pending, wake, behind, stop>>,
             struck = "early" => struck' = "early"
      PROVE  BehindInv'
  BY <1>1 DEF BehindInv
<1>2. CASE \/ \E c \in Callers : Caller(c)
           \/ Cancel \/ Cancelled \/ Tick \/ LinkDrops \/ UNCHANGED vars
  BY <1>1, <1>2, Bystanders
<1>3. QED
  BY <1>2, TopGoesFirst, SendsCounted, RestCounted DEF Next, Runner

(* However long the queues and the retry budgets are, a command that waits *)
(* lets at most one frame of other work go before it, or the retries of a  *)
(* poll that was under way (client.py, _async_ready_loop).                 *)
THEOREM CommandsFirst == Spec => []CommandsGoFirst
<1>1. BehindInv => CommandsGoFirst
  BY LoopAssumption DEF BehindInv, CommandsGoFirst, LoopAssumption, Most
<1>2. QED
  BY <1>1, NothingBehind, BehindStep, PTL DEF Spec

-----------------------------------------------------------------------------
(* The requests that a refresh has asked.                                  *)
Names(a) == [i \in DOMAIN a |-> a[i].request]
Record == [request : STRING, answered : BOOLEAN]

LEMMA NamesAre ==
  ASSUME NEW a \in Seq(Record)
  PROVE  Names(a) \in Seq(STRING) /\ Len(Names(a)) = Len(a)
         /\ \A i \in 1 .. Len(a) : Names(a)[i] = a[i].request
<1>1. Len(a) \in Nat /\ DOMAIN a = 1 .. Len(a) /\ \A i \in 1 .. Len(a) : a[i] \in Record
  BY LenProperties, ElementOfSeq
<1>2. Names(a) \in [1 .. Len(a) -> STRING]
  BY <1>1 DEF Names, Record
<1>3. QED
  BY <1>1, <1>2 DEF Names

(* A request that is over moves from what is ahead to what was asked.      *)
LEMMA AskedMoves ==
  ASSUME NEW a \in Seq(Record), NEW s \in Seq(STRING), s # <<>>, NEW b \in BOOLEAN
  PROVE  LET r == [request |-> Head(s), answered |-> b]
         IN /\ Append(a, r) \in Seq(Record) /\ Tail(s) \in Seq(STRING) /\ Append(a, r) # <<>>
            /\ Names(Append(a, r)) \o Tail(s) = Names(a) \o s
<1> DEFINE r == [request |-> Head(s), answered |-> b]
           n == Append(a, r)
<1>1. /\ Head(s) \in STRING /\ Tail(s) \in Seq(STRING) /\ Len(Tail(s)) = Len(s) - 1
      /\ \A i \in 1 .. Len(Tail(s)) : Tail(s)[i] = s[i + 1]
      /\ Head(s) = s[1] /\ Len(s) \in Nat \ {0}
  BY HeadTailProperties, EmptySeq
<1>2. r \in Record /\ r.request = s[1]
  BY <1>1 DEF Record
<1> HIDE DEF r
<1>3. /\ n \in Seq(Record) /\ Len(n) = Len(a) + 1 /\ Len(a) \in Nat
      /\ \A i \in 1 .. Len(a) : n[i] = a[i]
      /\ n[Len(a) + 1] = r
  BY <1>2, AppendProperties, LenProperties
<1>4. n # <<>>
  BY <1>3, EmptySeq
<1> HIDE DEF n
<1>5. /\ Names(n) \in Seq(STRING) /\ Len(Names(n)) = Len(a) + 1
      /\ \A i \in 1 .. Len(a) + 1 : Names(n)[i] = IF i <= Len(a) THEN a[i].request ELSE s[1]
  BY <1>2, <1>3, NamesAre
<1>6. /\ Names(a) \in Seq(STRING) /\ Len(Names(a)) = Len(a)
      /\ \A i \in 1 .. Len(a) : Names(a)[i] = a[i].request
  BY NamesAre
<1> DEFINE x == Names(n) \o Tail(s)
           y == Names(a) \o s
<1>7. /\ x \in Seq(STRING) /\ Len(x) = Len(a) + Len(s)
      /\ \A i \in 1 .. Len(a) + Len(s) :
           x[i] = IF i <= Len(a) + 1 THEN Names(n)[i] ELSE Tail(s)[i - (Len(a) + 1)]
  <2>1. (Len(a) + 1) + Len(Tail(s)) = Len(a) + Len(s)
    BY <1>1, <1>3
  <2>2. /\ x \in Seq(STRING) /\ Len(x) = Len(Names(n)) + Len(Tail(s))
        /\ \A i \in 1 .. Len(Names(n)) + Len(Tail(s)) :
             x[i] = IF i <= Len(Names(n)) THEN Names(n)[i] ELSE Tail(s)[i - Len(Names(n))]
    BY <1>1, <1>5, ConcatProperties
  <2> HIDE DEF x
  <2>3. QED
    BY <1>5, <2>1, <2>2
<1>8. /\ y \in Seq(STRING) /\ Len(y) = Len(a) + Len(s)
      /\ \A i \in 1 .. Len(a) + Len(s) :
           y[i] = IF i <= Len(a) THEN Names(a)[i] ELSE s[i - Len(a)]
  <2>1. /\ y \in Seq(STRING) /\ Len(y) = Len(Names(a)) + Len(s)
        /\ \A i \in 1 .. Len(Names(a)) + Len(s) :
             y[i] = IF i <= Len(Names(a)) THEN Names(a)[i] ELSE s[i - Len(Names(a))]
    BY <1>6, ConcatProperties
  <2> HIDE DEF y
  <2>2. QED
    BY <1>6, <2>1
<1>9. ASSUME NEW i \in 1 .. Len(a) + Len(s)
      PROVE  x[i] = y[i]
  <2>1. CASE i <= Len(a)
    <3>1. x[i] = Names(n)[i] /\ Names(n)[i] = a[i].request
      BY <1>3, <1>5, <1>7, <2>1
    <3>2. y[i] = Names(a)[i] /\ Names(a)[i] = a[i].request
      BY <1>3, <1>6, <1>8, <2>1
    <3>3. QED
      BY <3>1, <3>2
  <2>2. CASE i = Len(a) + 1
    <3>1. x[i] = Names(n)[i] /\ Names(n)[i] = s[1]
      BY <1>3, <1>5, <1>7, <2>2
    <3>2. y[i] = s[i - Len(a)] /\ i - Len(a) = 1
      BY <1>3, <1>8, <2>2
    <3>3. QED
      BY <3>1, <3>2
  <2>3. CASE i > Len(a) + 1
    <3>1. x[i] = Tail(s)[i - (Len(a) + 1)]
      BY <1>3, <1>7, <2>3
    <3>2. /\ i - (Len(a) + 1) \in 1 .. Len(Tail(s))
          /\ (i - (Len(a) + 1)) + 1 = i - Len(a)
      BY <1>1, <1>3, <2>3
    <3>3. Tail(s)[i - (Len(a) + 1)] = s[i - Len(a)]
      BY <1>1, <3>2
    <3>4. y[i] = s[i - Len(a)]
      BY <1>3, <1>8, <2>3
    <3>5. QED
      BY <3>1, <3>3, <3>4
  <2>4. i \in Nat
    BY <1>1, <1>3
  <2>5. i <= Len(a) \/ i = Len(a) + 1 \/ i > Len(a) + 1
    BY <1>3, <2>4
  <2>6. QED
    BY <2>1, <2>2, <2>3, <2>5
<1> HIDE DEF x, y
<1>10. x = y
  BY <1>7, <1>8, <1>9, SeqEqual
<1>11. QED
  BY <1>1, <1>3, <1>4, <1>10 DEF n, r, x, y

(* Nothing asked, everything ahead.                                        *)
LEMMA NothingAsked ==
  ASSUME NEW s \in Seq(STRING)
  PROVE  /\ <<>> \in Seq(Record) /\ <<>> \in Seq(STRING)
         /\ Names(<<>>) \o s = s
<1>1. <<>> \in Seq(Record) /\ <<>> \in Seq(STRING) /\ Len(<<>>) = 0
  BY EmptySeq
<1>2. Names(<<>>) \in Seq(STRING) /\ Len(Names(<<>>)) = 0
  BY <1>1, NamesAre
<1>3. Names(<<>>) = <<>>
  BY <1>2, EmptySeq
<1>4. QED
  BY <1>1, <1>3, ConcatEmptySeq

(* SweepInv in terms of the requests asked.                                *)
Sweeping == runner \notin {"cleanup", "away", "connecting", "stopped"}
Whole == Sweeping /\ (asked # <<>> \/ Ahead # <<>>) => Names(asked) \o Ahead = Requests
SweepParts ==
  /\ sweep \in Seq(STRING) /\ resume \in Seq(STRING) /\ asked \in Seq(Record)
  /\ runner \in {"asking", "gap"} => resume = <<>> /\ (stop = "no" => sweep # <<>>)
  /\ runner = "connecting" => asked = <<>> /\ resume = <<>>
  /\ Whole

LEMMA SweepIs == SweepInv <=> SweepParts
BY DEF SweepInv, SweepParts, Whole, Sweeping, Names, Record

LEMMA SweepBegins == Init => SweepParts
BY NothingAsked DEF Init, SweepParts, Whole, Sweeping

(* A refresh begins, goes on or yields.                                    *)
LEMMA RefreshSweeps == ASSUME SweepParts, Refresh \/ NextInSweep PROVE SweepParts'
<1>1. Requests \in Seq(STRING)
  BY LoopAssumption DEF LoopAssumption
<1>2. /\ <<>> \in Seq(STRING) /\ <<>> \in Seq(Record)
      /\ Names(<<>>) \o Requests = Requests
  BY <1>1, NothingAsked
<1>3. PICK rest \in Seq(STRING) :
        /\ NextRequest(rest) /\ asked' \in Seq(Record)
        /\ rest # <<>> => Names(asked') \o rest = Requests
        /\ rest = <<>> => asked' = <<>>
  <2>1. CASE Refresh /\ resume # <<>>
    <3>1. NextRequest(resume) /\ asked' = asked /\ Names(asked) \o resume = Requests
      BY <2>1 DEF Refresh, Runs, SweepParts, Whole, Sweeping, Ahead
    <3>2. QED
      BY <2>1, <3>1 DEF SweepParts
  <2>2. CASE Refresh /\ resume = <<>>
    <3>1. NextRequest(Requests) /\ asked' = <<>>
      BY <2>2 DEF Refresh
    <3>2. QED
      BY <1>1, <1>2, <3>1
  <2>3. CASE NextInSweep
    <3>1. NextRequest(sweep) /\ asked' = asked /\ sweep # <<>> /\ runner = "gap"
      BY <2>3 DEF NextInSweep, Runs, SweepParts
    <3>2. Names(asked) \o sweep = Requests
      BY <3>1 DEF SweepParts, Whole, Sweeping, Ahead
    <3>3. QED
      BY <3>1, <3>2 DEF SweepParts
  <2>4. QED
    BY <2>1, <2>2, <2>3
<1>4. CASE rest = <<>>
  BY <1>2, <1>3, <1>4 DEF NextRequest, AsksNothing, SweepParts, Whole, Sweeping, Ahead
<1>5. CASE rest # <<>> /\ Works
  BY <1>2, <1>3, <1>5 DEF NextRequest, Defer, SweepParts, Whole, Sweeping, Ahead
<1>6. CASE rest # <<>> /\ ~Works
  BY <1>2, <1>3, <1>6 DEF NextRequest, SweepParts, Whole, Sweeping, Ahead
<1>7. QED
  BY <1>4, <1>5, <1>6

(* A request ends, is asked again, or is kept for later.                   *)
LEMMA AskingSweeps == ASSUME SweepParts, Asking PROVE SweepParts'
<1>1. <<>> \in Seq(STRING)
  BY EmptySeq
<1>2. /\ runner = "asking" /\ stop = "no" /\ sweep # <<>> /\ resume = <<>>
      /\ Names(asked) \o sweep = Requests /\ sweep \in Seq(STRING) /\ asked \in Seq(Record)
  BY DEF Asking, Yields, AsksAgain, Asked, Runs, SweepParts, Whole, Sweeping, Ahead
<1>3. CASE Yields
  BY <1>1, <1>2, <1>3 DEF Yields, Defer, SweepParts, Whole, Sweeping, Ahead
<1>4. CASE AsksAgain
  BY <1>2, <1>4 DEF AsksAgain, refreshVars, Fixed, stopVars, SweepParts, Whole, Sweeping, Ahead
<1>5. ASSUME NEW b \in BOOLEAN, Asked(b)
      PROVE  SweepParts'
  <2>1. /\ asked' \in Seq(Record) /\ sweep' \in Seq(STRING)
        /\ sweep' = Tail(sweep) /\ Names(asked') \o sweep' = Requests
    BY <1>2, <1>5, AskedMoves DEF Asked
  <2>2. resume' = <<>> /\ runner' \in {"cleanup", "top", "gap"}
    BY <1>2, <1>5 DEF Asked
  <2>3. runner' = "top" => sweep' = <<>>
    BY <1>5, <2>1 DEF Asked
  <2>4. runner' = "gap" => sweep' # <<>>
    BY <1>5, <2>1 DEF Asked
  <2>5. QED
    BY <1>1, <2>1, <2>2, <2>3, <2>4 DEF SweepParts, Whole, Sweeping, Ahead
<1>6. QED
  BY <1>3, <1>4, <1>5 DEF Asking

(* The other steps leave the requests alone, or forget them all.           *)
LEMMA RestSweeps ==
  ASSUME SweepParts,
         UNCHANGED <<sweep, resume, asked>>,
         stop' = stop \/ (runner' = runner /\ stop' # "no"),
         runner' = runner \/ (/\ {runner, runner'} \cap {"asking", "gap"} = {}
                              /\ runner' # "connecting"
                              /\ runner # "connecting" => (Sweeping' => Sweeping))
                          \/ runner' \in {"cleanup", "away", "stopped"}
  PROVE  SweepParts'
BY DEF SweepParts, Whole, Sweeping, Ahead

LEMMA SweepStep == SweepParts /\ BehindInv /\ [Next]_vars => SweepParts'
<1> SUFFICES ASSUME SweepParts, BehindInv, [Next]_vars PROVE SweepParts'
  OBVIOUS
<1> USE DEF refreshVars, stopVars, Fixed
<1>1. CASE \/ \E c \in Callers : Caller(c)
           \/ Cancel \/ Cancelled \/ Tick \/ LinkDrops \/ UNCHANGED vars
  BY <1>1, Bystanders, RestSweeps
<1>2. CASE BeginCycle \/ Shutdown
  BY <1>2, EmptySeq DEF BeginCycle, Shutdown, SweepParts, Whole, Sweeping, Ahead, Runs
<1>3. CASE Top
  BY <1>3, RestSweeps DEF Top, TakeCommand, TakeQuery, StartRefresh, StartPoll, Idle, Takes,
     Sweeping
<1>4. CASE \/ QuerySends \/ (\E a \in Answers : QueryEnds(a)) \/ Polling \/ IdleEnds
           \/ (\E n \in Ends : CommandEnds(n)) \/ Notice \/ Accept \/ Withdraw
  BY <1>4, RestSweeps DEF QuerySends, QueryEnds, Polling, PollAgain, PollEnds, IdleEnds,
     CommandEnds, Notice, Accept, Withdraw, Runs, Ends, Sweeping
<1>5. CASE Ready \/ CycleFails \/ CleanedUp \/ RunnerStops \/ ShutDown
  BY <1>5, RestSweeps DEF Ready, CycleFails, CleanedUp, RunnerStops, ShutDown, Runs, Sweeping
<1>6. QED
  BY <1>1, <1>2, <1>3, <1>4, <1>5, RefreshSweeps, AskingSweeps DEF Next, Runner

(* Whatever the profile's list of requests and however often commands and  *)
(* queries interrupt it, a refresh has asked, and has before it, all of    *)
(* them, once and in order (client.py, _async_run_refresh, _defer_refresh).*)
THEOREM SweepStaysWhole == Spec => []SweepIsWhole
<1>1. SweepParts => SweepIsWhole
  BY DEF SweepParts, Whole, Sweeping, Names, SweepIsWhole
<1>2. QED
  BY <1>1, SweepBegins, SweepStep, NothingBehind, BehindStep, PTL DEF Spec
=============================================================================
