-------------------- MODULE CustomAutoHysteresis_proofs --------------------
(***************************************************************************)
(* Theorems about the hysteresis of Custom Auto: what readings a new       *)
(* target rests on.  The policy's transitions come first, each with the    *)
(* readings handled so far beside it; the controller's steps follow.       *)
(***************************************************************************)
EXTENDS CustomAutoController_proofs

-----------------------------------------------------------------------------
(* Confirmations and dwells against one more reading.                      *)

History == Seq([pm : Nat, at : Nat, repeats : BOOLEAN])

(* The last reading of ev is r, and its level is l.                        *)
Last(ev, l, r) ==
  /\ ev \in History /\ ev # <<>>
  /\ LevelFor(ev[Len(ev)].pm) = l /\ ev[Len(ev)].at = r.at

LEMMA LastTyped ==
  ASSUME NEW ev, NEW l, NEW r, Last(ev, l, r)
  PROVE  /\ Len(ev) \in Nat \ {0} /\ r.at \in Nat
         /\ \A i \in 1 .. Len(ev) : ev[i].at \in Nat
         /\ LevelFor(ev[Len(ev)].pm) = l /\ ev[Len(ev)].at = r.at
<1>1. ev \in History /\ ev # <<>>
  BY DEF Last
<1>2. Len(ev) \in Nat \ {0}
  BY <1>1, EmptySeq DEF History
<1>3. \A i \in 1 .. Len(ev) : ev[i] \in [pm : Nat, at : Nat, repeats : BOOLEAN]
  BY <1>1, ElementOfSeq DEF History
<1>4. QED
  BY <1>2, <1>3 DEF Last

LEMMA DwellingGoesOn ==
  ASSUME NEW ev, NEW l, NEW r, Last(ev, l, r), NEW d, Dwelling(d, ev, Len(ev) - 1, Len(ev) - 1),
         l <= d.level \/ ev[Len(ev)].repeats
  PROVE  Dwelling(d, ev, Len(ev) - 1, Len(ev)) /\ Dwelling(d, ev, Len(ev), Len(ev))
<1> DEFINE n == Len(ev)
<1>1. n \in Nat \ {0} /\ LevelFor(ev[n].pm) = l
  BY LastTyped
<1>2. PICK i \in 1 .. n - 1 :
        /\ ev[i].at = d.at
        /\ \A j \in i .. n - 1 : LevelFor(ev[j].pm) <= d.level \/ ev[j].repeats
  BY DEF Dwelling
<1>3. \A j \in i .. n : LevelFor(ev[j].pm) <= d.level \/ ev[j].repeats
  <2> TAKE j \in i .. n
  <2>1. CASE j = n
    BY <1>1, <2>1
  <2>2. CASE j # n
    BY <1>1, <1>2, <2>2
  <2>3. QED
    BY <2>1, <2>2
<1>4. i \in 1 .. n
  BY <1>1
<1>5. QED
  BY <1>2, <1>3, <1>4 DEF Dwelling

LEMMA DwellingFromMore ==
  ASSUME NEW ev, NEW m \in Nat, NEW n, NEW m2 \in Nat, m <= m2, NEW d, Dwelling(d, ev, m, n)
  PROVE  Dwelling(d, ev, m2, n)
<1>1. \A i \in 1 .. m : i \in 1 .. m2
  OBVIOUS
<1>2. QED
  BY <1>1 DEF Dwelling

(* Readings to come change nothing that is backed by earlier ones.         *)
LEMMA BackedBefore ==
  ASSUME NEW ev \in History, NEW v \in [pm : Nat, at : Nat, repeats : BOOLEAN],
         NEW p, NEW m \in Nat, m <= Len(ev), Backed(p, ev, m, Len(ev))
  PROVE  Backed(p, Append(ev, v), m, Len(ev))
<1>1. Len(ev) \in Nat
  BY DEF History
<1>2. \A i \in 1 .. Len(ev) : Append(ev, v)[i] = ev[i]
  BY AppendProperties DEF History
<1>3. \A u \in p.upshift : Confirming(u, p.level, Append(ev, v), Len(ev))
  <2> TAKE u \in p.upshift
  <2>1. PICK i \in 1 .. Len(ev) :
          ev[i].at = u.at /\ \A j \in i .. Len(ev) : LevelFor(ev[j].pm) > p.level
    BY DEF Backed, Confirming
  <2>2. \A j \in i .. Len(ev) : Append(ev, v)[j] = ev[j]
    BY <1>1, <1>2
  <2>3. QED
    BY <1>2, <2>1, <2>2 DEF Confirming
<1>4. \A d \in p.downs : Dwelling(d, Append(ev, v), m, Len(ev))
  <2> TAKE d \in p.downs
  <2>1. PICK i \in 1 .. m :
          /\ ev[i].at = d.at
          /\ \A j \in i .. Len(ev) : LevelFor(ev[j].pm) <= d.level \/ ev[j].repeats
    BY DEF Backed, Dwelling
  <2>2. \A j \in i .. Len(ev) : Append(ev, v)[j] = ev[j]
    BY <1>1, <1>2
  <2>3. i \in 1 .. Len(ev)
    BY <1>1
  <2>4. QED
    BY <1>2, <2>1, <2>2, <2>3 DEF Dwelling
<1>5. QED
  BY <1>3, <1>4 DEF Backed

-----------------------------------------------------------------------------
(* A reading that the policy acts on.                                      *)

(* The target q waits for is one that the readings call for.               *)
Justified(q, ev) ==
  LET n == Len(ev)
      l == LevelFor(ev[n].pm)
  IN /\ ev # <<>>
     /\ q.level = 0 \/ q.failed # 0 =>
          q.pending = l \/ (q.pending = q.failed /\ q.failed < q.level /\ l <= q.pending)
     /\ q.failed = 0 /\ q.level # 0 /\ q.pending > q.level =>
          /\ q.pending = l
          /\ \E i \in 1 .. n : /\ UpDelay = 0 \/ i < n
                               /\ ev[n].at >= ev[i].at + UpDelay
                               /\ \A j \in i .. n : LevelFor(ev[j].pm) > q.level
     /\ q.failed = 0 /\ q.level # 0 /\ q.pending < q.level =>
          \E i \in 1 .. n : /\ i < n
                            /\ ev[n].at >= ev[i].at + DownDelay[q.pending]
                            /\ \A j \in i .. n :
                                 LevelFor(ev[j].pm) <= q.pending \/ ev[j].repeats

(* What a reading has made of p.                                           *)
Outcome(q, p, ev) ==
  /\ Backed(q, ev, Len(ev), Len(ev)) /\ PendingInv(q, ev)
  /\ q.level = p.level /\ q.revision = p.revision /\ q.deferred = {}
  /\ q.failed \in {p.failed, 0}
  /\ q.pending # 0 => Justified(q, ev)

(* The state in which a reading is acted on, with the readings before it.  *)
Awaiting(p, ev) ==
  /\ Sound(p) /\ p.pending = 0 /\ p.deferred = {}
  /\ Backed(p, ev, Len(ev) - 1, Len(ev) - 1)
  /\ p.failed # 0 /\ p.failed >= p.level => p.downs = {}

(* The fields that Emit leaves and sets.                                   *)
LEMMA EmitFields ==
  ASSUME NEW p, Sound(p), NEW l \in Level
  PROVE  /\ Emit(p, l).upshift = {} /\ Emit(p, l).pending = l
         /\ Emit(p, l).downs = IF p.level # 0 /\ l < p.level
                               THEN {d \in p.downs : d.level < l} ELSE {}
         /\ Emit(p, l).level = p.level /\ Emit(p, l).failed = p.failed
         /\ Emit(p, l).revision = p.revision /\ Emit(p, l).deferred = p.deferred
BY DEF Emit, Sound, PolicyStates

LEMMA EmptyDowns ==
  ASSUME NEW p, Sound(p)
  PROVE  LET q == [p EXCEPT !.downs = {}] IN
         /\ Sound(q) /\ q.downs = {} /\ q.upshift = p.upshift /\ q.pending = p.pending
         /\ q.level = p.level /\ q.failed = p.failed /\ q.revision = p.revision
         /\ q.deferred = p.deferred
BY WithoutDowns DEF Sound, PolicyStates

(* Worse air than the confirmed level: the confirmation goes on, starts,   *)
(* or has lasted long enough.                                              *)
LEMMA WorseBacked ==
  ASSUME NEW p, NEW l \in Level, NEW r \in Readings, NEW ev, Last(ev, l, r), Awaiting(p, ev),
         p.level # 0, l > p.level, p.failed = 0
  PROVE  Outcome(Worse(p, l, r), p, ev)
<1> DEFINE n == Len(ev)
<1> DEFINE q == [p EXCEPT !.downs = {}]
<1> DEFINE us == {[at |-> r.at, asked |-> FALSE]}
<1>1. /\ Len(ev) \in Nat \ {0} /\ LevelFor(ev[Len(ev)].pm) = l /\ ev[Len(ev)].at = r.at /\ ev # <<>>
      /\ ev[Len(ev)].at \in Nat
  BY LastTyped DEF Last
<1>2. /\ Sound(q) /\ q.downs = {} /\ q.upshift = p.upshift /\ q.pending = 0
      /\ q.level = p.level /\ q.failed = 0 /\ q.revision = p.revision /\ q.deferred = {}
  BY EmptyDowns DEF Awaiting
<1>3. p.level \in 1 .. Levels /\ l \in 1 .. Levels /\ Levels \in Nat
  BY SoundFields, PolicyAssumption DEF Awaiting, Level, PolicyAssumption
<1>4. ASSUME NEW u \in p.upshift
      PROVE  /\ Confirming(u, p.level, ev, n)
             /\ \E i \in 1 .. n - 1 : /\ ev[i].at = u.at
                                      /\ \A j \in i .. n : LevelFor(ev[j].pm) > p.level
  <2>1. PICK i \in 1 .. n - 1 : /\ ev[i].at = u.at
                                /\ \A j \in i .. n - 1 : LevelFor(ev[j].pm) > p.level
    BY DEF Awaiting, Backed, Confirming
  <2>2. \A j \in i .. n : LevelFor(ev[j].pm) > p.level
    <3> TAKE j \in i .. n
    <3>1. CASE j = n
      BY <1>1, <3>1
    <3>2. CASE j # n
      BY <1>1, <2>1, <3>2
    <3>3. QED
      BY <3>1, <3>2
  <2>3. i \in 1 .. n
    BY <1>1
  <2>4. QED
    BY <2>1, <2>2, <2>3 DEF Confirming
<1> DEFINE q1 == [q EXCEPT !.upshift = us]
<1>5. \/ Worse(p, l, r) = Emit(q, l) /\ (UpDelay = 0 \/ \E u \in q.upshift : r.at >= u.at + UpDelay)
      \/ Worse(p, l, r) = q1 \/ Worse(p, l, r) = q
  BY DEF Worse
<1>6. /\ q1.upshift = us /\ q1.downs = {} /\ q1.pending = 0 /\ q1.level = p.level /\ q1.failed = 0
      /\ q1.revision = p.revision /\ q1.deferred = {}
  BY <1>2 DEF Sound, PolicyStates
<1> HIDE DEF q, q1
<1>7. CASE Worse(p, l, r) = q
  BY <1>1, <1>2, <1>4, <1>7 DEF Outcome, Backed, PendingInv, Justified
<1>8. CASE Worse(p, l, r) = q1
  <2>1. ASSUME NEW u \in us PROVE Confirming(u, p.level, ev, n)
    <3>1. u.at = ev[n].at
      BY <1>1
    <3>2. \A j \in n .. n : LevelFor(ev[j].pm) > p.level
      <4> TAKE j \in n .. n
      <4>1. j = n
        BY <1>1
      <4>2. QED
        BY <1>1, <4>1
    <3>3. n \in 1 .. n
      BY <1>1
    <3>4. QED
      BY <3>1, <3>2, <3>3 DEF Confirming
  <2> HIDE DEF us
  <2>2. Backed(q1, ev, n, n)
    BY <1>6, <2>1 DEF Backed
  <2>3. PendingInv(q1, ev)
    BY <1>6 DEF PendingInv
  <2>4. QED
    BY <1>6, <1>8, <2>2, <2>3 DEF Outcome
<1>9. CASE /\ Worse(p, l, r) = Emit(q, l)
           /\ UpDelay = 0 \/ \E u \in q.upshift : r.at >= u.at + UpDelay
  <2> DEFINE e == Emit(q, l)
  <2>1. /\ e.upshift = {} /\ e.pending = l /\ e.level = q.level /\ e.failed = q.failed
        /\ e.revision = q.revision /\ e.deferred = q.deferred
        /\ \A d \in e.downs : d \in q.downs
    BY <1>2, EmitFields
  <2> HIDE DEF e
  <2>2. \E i \in 1 .. n : /\ UpDelay = 0 \/ i < n
                          /\ ev[n].at >= ev[i].at + UpDelay
                          /\ \A j \in i .. n : LevelFor(ev[j].pm) > p.level
    <3>1. CASE UpDelay = 0
      <4>1. n \in 1 .. n /\ ev[n].at >= ev[n].at + UpDelay
        BY <1>1, <3>1
      <4>2. \A j \in n .. n : LevelFor(ev[j].pm) > p.level
        <5> TAKE j \in n .. n
        <5>1. j = n
          BY <1>1
        <5>2. QED
          BY <1>1, <5>1
      <4>3. QED
        BY <3>1, <4>1, <4>2
    <3>2. CASE UpDelay # 0
      <4>1. PICK u \in p.upshift : r.at >= u.at + UpDelay
        BY <1>2, <1>9, <3>2
      <4>2. PICK i \in 1 .. n - 1 : ev[i].at = u.at /\ \A j \in i .. n : LevelFor(ev[j].pm) > p.level
        BY <1>4
      <4>3. i \in 1 .. n /\ i < n
        BY <1>1
      <4>4. ev[n].at >= ev[i].at + UpDelay
        BY <1>1, <4>1, <4>2
      <4>5. QED
        BY <4>2, <4>3, <4>4
    <3>3. QED
      BY <3>1, <3>2
  <2>3. ~(e.pending < e.level)
    BY <1>2, <1>3, <2>1
  <2>4. Justified(e, ev)
    BY <1>1, <1>2, <2>1, <2>2, <2>3 DEF Justified
  <2>5. Backed(e, ev, n, n) /\ PendingInv(e, ev)
    BY <1>2, <1>3, <2>1 DEF Backed, PendingInv
  <2>6. QED
    BY <1>2, <1>9, <2>1, <2>4, <2>5 DEF Outcome, e
<1>10. QED
  BY <1>5, <1>7, <1>8, <1>9

(* Air as good as the confirmed level: each crossing that runs on, starts  *)
(* or matures is backed, and one that matures began before this reading.   *)
LEMMA CrossingsBacked ==
  ASSUME NEW p, NEW l \in Level, NEW r \in Readings, NEW ev, Last(ev, l, r), Awaiting(p, ev),
         NEW d \in Crossings(p, l, r)
  PROVE  /\ Dwelling(d, ev, Len(ev), Len(ev)) /\ d.level \in Lower
         /\ d.level < p.level /\ l <= d.level
         /\ r.rev > d.rev => Dwelling(d, ev, Len(ev) - 1, Len(ev))
<1> DEFINE n == Len(ev)
<1>1. n \in Nat \ {0} /\ LevelFor(ev[n].pm) = l /\ ev[n].at = r.at
  BY LastTyped
<1>2. d.level \in Lower
  BY CrossingsAreSound DEF Awaiting, Dwells
<1>3. p.level \in 0 .. Levels /\ l \in 1 .. Levels /\ Levels \in Nat
  BY SoundFields, PolicyAssumption DEF Awaiting, Level, PolicyAssumption
<1>4. d.level \in l .. p.level - 1
  BY DEF Crossings
<1>5. d.level < p.level /\ l <= d.level
  BY <1>3, <1>4
<1>6. CASE d \in p.downs
  <2>1. Dwelling(d, ev, n - 1, n - 1)
    BY <1>6 DEF Awaiting, Backed
  <2>2. QED
    BY <1>2, <1>5, <2>1, DwellingGoesOn
<1>7. CASE d.at = r.at /\ d.rev = r.rev
  <2>1. \A j \in n .. n : LevelFor(ev[j].pm) <= d.level
    <3> TAKE j \in n .. n
    <3>1. j = n
      BY <1>1
    <3>2. QED
      BY <1>1, <1>5, <3>1
  <2>2. n \in 1 .. n
    BY <1>1
  <2>3. Dwelling(d, ev, n, n)
    BY <1>1, <1>7, <2>1, <2>2 DEF Dwelling
  <2>4. ~(r.rev > d.rev)
    BY <1>7 DEF Readings
  <2>5. QED
    BY <1>2, <1>5, <2>3, <2>4
<1>8. QED
  BY <1>6, <1>7 DEF Crossings

LEMMA NotWorseBacked ==
  ASSUME NEW p, NEW l \in Level, NEW r \in Readings, NEW ev, Last(ev, l, r), Awaiting(p, ev),
         p.level # 0, p.failed = 0
  PROVE  Outcome(NotWorse(p, l, r), p, ev)
<1> DEFINE n == Len(ev)
<1> DEFINE D == Crossings(p, l, r)
<1> DEFINE M == Matured(D, r)
<1> DEFINE q == [p EXCEPT !.upshift = {}, !.downs = D]
<1>1. /\ n \in Nat \ {0} /\ LevelFor(ev[n].pm) = l /\ ev[n].at = r.at /\ ev # <<>>
      /\ \A i \in 1 .. n : ev[i].at \in Nat
  BY LastTyped DEF Last
<1>2. D \in SUBSET Dwells /\ \A d, e \in D : d.level = e.level => d = e
  BY CrossingsAreSound DEF Awaiting
<1>3. \A d \in D : /\ Dwelling(d, ev, n, n) /\ d.level \in Lower
                   /\ d.level < p.level /\ l <= d.level
                   /\ r.rev > d.rev => Dwelling(d, ev, n - 1, n)
  BY CrossingsBacked
<1>4. NotWorse(p, l, r) = IF M # {} THEN Emit(q, Min(M)) ELSE q
  BY DEF NotWorse
<1>5. M = {d.level : d \in {e \in D : r.rev > e.rev /\ r.at >= e.at + DownDelay[e.level]}}
  BY DEF Matured
<1> HIDE DEF D, n
<1>6. /\ q.upshift = {} /\ q.downs = D /\ q.pending = 0 /\ q.level = p.level /\ q.failed = 0
      /\ q.revision = p.revision /\ q.deferred = {} /\ q \in PolicyStates
  BY <1>2 DEF Awaiting, Sound, PolicyStates
<1> HIDE DEF q
<1>7. Sound(q)
  BY <1>2, <1>6 DEF Sound
<1>8. CASE M = {}
  <2>1. Backed(q, ev, n, n)
    BY <1>3, <1>6 DEF Backed
  <2>2. PendingInv(q, ev)
    BY <1>6 DEF PendingInv
  <2>3. QED
    BY <1>4, <1>6, <1>8, <2>1, <2>2 DEF Outcome, n
<1>9. CASE M # {}
  <2> DEFINE t == Min(M)
  <2>1. M \subseteq Lower /\ Lower \subseteq Nat /\ Lower \subseteq Level
    BY <1>3, <1>5, PolicyAssumption DEF PolicyAssumption, Lower, Level
  <2>2. t \in M
    BY <1>9, <2>1, LeastExists
  <2> HIDE DEF M, t
  <2>3. PICK d \in D : d.level = t /\ r.rev > d.rev /\ r.at >= d.at + DownDelay[d.level]
    BY <1>5, <2>2
  <2>4. /\ t \in Level /\ t < p.level /\ l <= t /\ t # 0 /\ d.level = t
        /\ Dwelling(d, ev, n - 1, n)
    BY <1>3, <2>1, <2>2, <2>3, PolicyAssumption DEF PolicyAssumption, Lower
  <2> DEFINE e == Emit(q, t)
  <2>5. /\ e.upshift = {} /\ e.pending = t /\ e.level = p.level /\ e.failed = 0
        /\ e.revision = p.revision /\ e.deferred = {}
        /\ \A x \in e.downs : x \in D
    BY <1>6, <1>7, <2>4, EmitFields
  <2> HIDE DEF e
  <2>6. \E i \in 1 .. n : /\ i < n
                          /\ ev[n].at >= ev[i].at + DownDelay[t]
                          /\ \A j \in i .. n : LevelFor(ev[j].pm) <= t \/ ev[j].repeats
    <3>1. PICK i \in 1 .. n - 1 :
            /\ ev[i].at = d.at
            /\ \A j \in i .. n : LevelFor(ev[j].pm) <= d.level \/ ev[j].repeats
      BY <2>4 DEF Dwelling
    <3>2. i \in 1 .. n /\ i < n
      BY <1>1
    <3>3. ev[n].at >= ev[i].at + DownDelay[t]
      BY <1>1, <2>3, <3>1
    <3>4. QED
      BY <2>4, <3>1, <3>2, <3>3
  <2>7. p.level \in Nat /\ t \in Nat
    BY <2>1, <2>2, SoundFields, PolicyAssumption DEF Awaiting, PolicyAssumption
  <2>8. e.pending < e.level /\ ~(e.pending > e.level) /\ ~(e.pending >= e.level)
    BY <2>4, <2>5, <2>7
  <2>9. Justified(e, ev)
    BY <1>1, <2>5, <2>6, <2>8 DEF Justified, n
  <2>10. Backed(e, ev, n, n)
    BY <1>3, <2>5 DEF Backed
  <2>11. PendingInv(e, ev)
    BY <2>4, <2>5, <2>8 DEF PendingInv
  <2>12. NotWorse(p, l, r) = e
    BY <1>4, <1>9 DEF e, t
  <2>13. QED
    BY <2>5, <2>9, <2>10, <2>11, <2>12 DEF Outcome, n
<1>10. QED
  BY <1>8, <1>9

LEMMA HysteresisBacked ==
  ASSUME NEW p, NEW l \in Level, NEW r \in Readings, NEW ev, Last(ev, l, r), Awaiting(p, ev),
         p.level # 0, p.failed = 0
  PROVE  Outcome(Hysteresis(p, l, r), p, ev)
BY WorseBacked, NotWorseBacked DEF Hysteresis

(* A command that is not a step of the hysteresis.                         *)
LEMMA EmitBacked ==
  ASSUME NEW p, NEW l \in Level, NEW r \in Readings, NEW ev, Last(ev, l, r), Awaiting(p, ev),
         NEW t \in Level, p.level = 0 \/ p.failed # 0,
         t = l \/ (t = p.failed /\ p.failed < p.level /\ l <= t),
         p.level # 0 /\ t < p.level /\ p.downs # {} => ev[Len(ev)].repeats
  PROVE  Outcome(Emit(p, t), p, ev)
<1> DEFINE e == Emit(p, t)
<1>1. /\ e.upshift = {} /\ e.pending = t /\ e.level = p.level /\ e.failed = p.failed
      /\ e.revision = p.revision /\ e.deferred = {}
      /\ e.downs = IF p.level # 0 /\ t < p.level THEN {d \in p.downs : d.level < t} ELSE {}
  BY EmitFields DEF Awaiting
<1>2. \A d \in e.downs : d \in p.downs /\ ev[Len(ev)].repeats
  BY <1>1
<1>3. /\ p.level \in Nat /\ t \in Nat /\ t # 0
      /\ LevelFor(ev[Len(ev)].pm) = l /\ ev # <<>>
  BY SoundFields, PolicyAssumption DEF Awaiting, PolicyAssumption, Level, Last
<1>4. e.pending >= e.level => e.downs = {}
  BY <1>1, <1>3
<1>5. e.failed # 0 /\ e.failed >= e.level => e.downs = {}
  <2>1. p.failed # 0 /\ p.failed >= p.level => p.downs = {}
    BY DEF Awaiting
  <2>2. p.downs = {} => e.downs = {}
    BY <1>2
  <2>3. QED
    BY <1>1, <2>1, <2>2
<1> HIDE DEF e
<1>6. \A d \in e.downs : Dwelling(d, ev, Len(ev), Len(ev))
  <2> TAKE d \in e.downs
  <2>1. Dwelling(d, ev, Len(ev) - 1, Len(ev) - 1) /\ ev[Len(ev)].repeats
    BY <1>2 DEF Awaiting, Backed
  <2>2. QED
    BY <2>1, DwellingGoesOn
<1>7. Backed(e, ev, Len(ev), Len(ev)) /\ PendingInv(e, ev)
  BY <1>1, <1>3, <1>4, <1>5, <1>6 DEF Backed, PendingInv
<1>8. Justified(e, ev)
  BY <1>1, <1>3 DEF Justified
<1>9. QED
  BY <1>1, <1>7, <1>8 DEF Outcome, e

(* A reading that the policy acts on leaves everything backed, and the     *)
(* target it emits is one that the readings call for.                      *)
LEMMA AcceptBacked ==
  ASSUME NEW p, NEW l \in Level, NEW r \in Readings, NEW ev, Last(ev, l, r), Awaiting(p, ev),
         Repeats(p, l) => ev[Len(ev)].repeats
  PROVE  Outcome(Accept(p, l, r), p, ev)
<1> DEFINE a == [p EXCEPT !.failed = 0]
<1> DEFINE b == [p EXCEPT !.upshift = {}, !.downs = {}, !.failed = 0]
<1>1. /\ Levels \in Nat \ {0} /\ p.level \in 0 .. Levels /\ p.failed \in 0 .. Levels
      /\ l \in 1 .. Levels /\ Sound(p) /\ p.pending = 0 /\ p.deferred = {}
      /\ p.failed # 0 /\ p.failed >= p.level => p.downs = {}
  BY SoundFields, PolicyAssumption DEF Awaiting, PolicyAssumption, Level
<1>2. /\ a.level = p.level /\ a.failed = 0 /\ a.downs = p.downs /\ a.upshift = p.upshift
      /\ a.pending = 0 /\ a.deferred = {} /\ a.revision = p.revision /\ a \in PolicyStates
  BY <1>1 DEF Sound, PolicyStates
<1>3. /\ b.level = p.level /\ b.failed = 0 /\ b.downs = {} /\ b.upshift = {}
      /\ b.pending = 0 /\ b.deferred = {} /\ b.revision = p.revision
  BY <1>1 DEF Sound, PolicyStates
<1>4. CASE p.level = 0
  <2>1. Accept(p, l, r) = Emit(p, l)
    BY <1>4 DEF Accept
  <2>2. QED
    BY <1>4, <2>1, EmitBacked
<1>5. CASE p.level # 0 /\ p.failed = 0
  <2>1. Accept(p, l, r) = Hysteresis(p, l, r)
    BY <1>1, <1>5 DEF Accept
  <2>2. QED
    BY <1>5, <2>1, HysteresisBacked
<1>6. CASE p.level # 0 /\ p.failed \in 1 .. p.level - 1 /\ l <= p.failed
  <2>1. Accept(p, l, r) = Emit(p, p.failed)
    BY <1>1, <1>6 DEF Accept
  <2>2. p.failed \in Level /\ p.failed # 0 /\ p.failed < p.level
    BY <1>1, <1>6 DEF Level
  <2>3. ev[Len(ev)].repeats
    BY <1>1, <1>6 DEF Repeats
  <2>4. QED
    BY <1>6, <2>1, <2>2, <2>3, EmitBacked
<1>7. CASE p.level # 0 /\ p.failed \in 1 .. p.level - 1 /\ ~(l <= p.failed)
  <2>1. Accept(p, l, r) = Hysteresis(a, l, r)
    BY <1>1, <1>7 DEF Accept
  <2> HIDE DEF a
  <2>2. Awaiting(a, ev)
    BY <1>1, <1>2 DEF Awaiting, Sound, Backed
  <2>3. Outcome(Hysteresis(a, l, r), a, ev)
    BY <1>2, <1>7, <2>2, HysteresisBacked
  <2>4. QED
    BY <1>2, <2>1, <2>3 DEF Outcome
<1>8. CASE p.level # 0 /\ p.failed >= p.level /\ l # p.level
  <2>1. Accept(p, l, r) = Emit(p, l)
    BY <1>1, <1>8 DEF Accept
  <2>2. p.failed # 0 /\ p.downs = {}
    BY <1>1, <1>8
  <2>3. QED
    BY <2>1, <2>2, EmitBacked
<1>9. CASE p.level # 0 /\ p.failed >= p.level /\ l = p.level
  <2>1. Accept(p, l, r) = b
    BY <1>1, <1>9 DEF Accept
  <2> HIDE DEF b
  <2>2. QED
    BY <1>3, <2>1 DEF Outcome, Backed, PendingInv
<1>10. QED
  BY <1>1, <1>4, <1>5, <1>6, <1>7, <1>8, <1>9

-----------------------------------------------------------------------------
(* The policy's other transitions.                                         *)

(* What is timed is backed by the readings ev.                             *)
ReadingsOf(p, ev) ==
  /\ Backed(p, ev, IF p.deferred = {} THEN Len(ev) ELSE Len(ev) - 1, Len(ev))
  /\ PendingInv(p, ev)

(* A boundary that is passed takes nothing away.                           *)
LEMMA BoundaryBacked ==
  ASSUME NEW p, Sound(p), NEW t \in Nat, NEW ev, ReadingsOf(p, ev)
  PROVE  LET q == AtBoundary(p, t) IN
         /\ ReadingsOf(q, ev)
         /\ q.level = p.level /\ q.pending = p.pending /\ q.failed = p.failed
         /\ q.revision = p.revision /\ q.deferred = p.deferred
<1> DEFINE U(u) == [u EXCEPT !.asked = @ \/ t >= u.at + UpDelay]
<1> DEFINE V(d) == [d EXCEPT !.asked = @ \/ t >= d.at + DownDelay[d.level]]
<1> DEFINE us == {U(u) : u \in p.upshift}
<1> DEFINE D == {V(d) : d \in p.downs}
<1> DEFINE q == [p EXCEPT !.upshift = us, !.downs = D]
<1>1. AtBoundary(p, t) = q
  BY DEF AtBoundary
<1>2. \A u \in Upshifts : U(u).at = u.at
  BY DEF Upshifts
<1>3. \A d \in Dwells : V(d).at = d.at /\ V(d).level = d.level
  BY DEF Dwells
<1> HIDE DEF U, V
<1>4. \A u \in us : \E x \in p.upshift : u.at = x.at
  BY <1>2, SoundFields
<1>5. \A d \in D : \E x \in p.downs : d.at = x.at /\ d.level = x.level
  BY <1>3, SoundFields
<1>6. (p.upshift = {} => us = {}) /\ (p.downs = {} => D = {})
  OBVIOUS
<1> HIDE DEF us, D
<1>7. /\ q.level = p.level /\ q.pending = p.pending /\ q.failed = p.failed
      /\ q.revision = p.revision /\ q.deferred = p.deferred /\ q.upshift = us /\ q.downs = D
  BY DEF Sound, PolicyStates
<1> HIDE DEF q
<1>8. PendingInv(q, ev)
  BY <1>6, <1>7 DEF ReadingsOf, PendingInv
<1> DEFINE m == IF p.deferred = {} THEN Len(ev) ELSE Len(ev) - 1
<1>9. Backed(p, ev, m, Len(ev))
  BY DEF ReadingsOf
<1> HIDE DEF m
<1>10. \A u \in q.upshift : Confirming(u, q.level, ev, Len(ev))
  BY <1>4, <1>7, <1>9 DEF Backed, Confirming
<1>11. \A d \in q.downs : Dwelling(d, ev, m, Len(ev))
  BY <1>5, <1>7, <1>9 DEF Backed, Dwelling
<1>12. ReadingsOf(q, ev)
  BY <1>7, <1>8, <1>10, <1>11 DEF ReadingsOf, Backed, m
<1>13. QED
  BY <1>1, <1>7, <1>12

LEMMA LastAppended ==
  ASSUME NEW ev \in History, NEW v \in [pm : Nat, at : Nat, repeats : BOOLEAN],
         NEW r, v.pm = r.pm, v.at = r.at
  PROVE  /\ Last(Append(ev, v), LevelFor(r.pm), r)
         /\ Len(Append(ev, v)) = Len(ev) + 1 /\ Len(Append(ev, v)) - 1 = Len(ev)
         /\ Append(ev, v)[Len(Append(ev, v))] = v
         /\ Len(ev) \in Nat
<1>1. /\ Append(ev, v) \in History /\ Len(Append(ev, v)) = Len(ev) + 1
      /\ Append(ev, v)[Len(ev) + 1] = v /\ Append(ev, v) # <<>> /\ Len(ev) \in Nat
  BY AppendProperties, EmptySeq DEF History
<1>2. QED
  BY <1>1 DEF Last

(* Every dwell that ReadingsOf backs was started by some reading of ev.    *)
LEMMA DwellsHaveStarted ==
  ASSUME NEW p, NEW ev \in History, ReadingsOf(p, ev), NEW d \in p.downs
  PROVE  Dwelling(d, ev, Len(ev), Len(ev))
<1>1. Len(ev) \in Nat
  BY DEF History
<1>2. CASE p.deferred = {}
  BY <1>2 DEF ReadingsOf, Backed
<1>3. CASE p.deferred # {}
  <2>1. Dwelling(d, ev, Len(ev) - 1, Len(ev))
    BY <1>3 DEF ReadingsOf, Backed
  <2>2. \A i \in 1 .. Len(ev) - 1 : i \in 1 .. Len(ev)
    BY <1>1
  <2>3. QED
    BY <2>1, <2>2 DEF Dwelling
<1>4. QED
  BY <1>2, <1>3

(* A new reading, whether the policy acts on it or keeps it for later.     *)
LEMMA ObserveBacked ==
  ASSUME NEW p, Sound(p), NEW r \in Readings, NEW ev \in History, ReadingsOf(p, ev),
         r.rev > p.revision, NEW v \in [pm : Nat, at : Nat, repeats : BOOLEAN],
         v.pm = r.pm, v.at = r.at, Repeats(p, LevelFor(r.pm)) => v.repeats
  PROVE  LET q == Observe(p, r) IN
         /\ ReadingsOf(q, Append(ev, v)) /\ q.revision = r.rev
         /\ p.pending = 0 /\ q.pending # 0 => Justified(q, Append(ev, v))
<1> DEFINE l == LevelFor(r.pm)
<1> DEFINE e2 == Append(ev, v)
<1> DEFINE s == [p EXCEPT !.revision = r.rev]
<1>1. r.rev \in Nat /\ r.pm \in Nat /\ l \in Level /\ p.revision \in Nat
  BY LevelIsLevel, SoundFields DEF Readings
<1>2. /\ Last(e2, l, r) /\ Len(e2) - 1 = Len(ev) /\ Len(ev) \in Nat
      /\ e2[Len(e2)] = v /\ Len(e2) = Len(ev) + 1
  BY LastAppended
<1>3. Observe(p, r) = IF p.pending # 0 THEN Suppressed(s, l, r) ELSE Accept(s, l, r)
  BY <1>1 DEF Observe
<1>4. Repeats(p, l) => v.repeats
  OBVIOUS
<1> HIDE DEF l
<1>5. /\ s.level = p.level /\ s.pending = p.pending /\ s.failed = p.failed /\ s.revision = r.rev
      /\ s.downs = p.downs /\ s.upshift = p.upshift /\ s.deferred = p.deferred
      /\ s \in PolicyStates
  BY <1>1 DEF Sound, PolicyStates
<1> HIDE DEF s
<1>6. Sound(s)
  BY <1>5 DEF Sound
<1>7. \A d \in s.downs : Dwelling(d, ev, Len(ev), Len(ev))
  BY <1>5, DwellsHaveStarted
<1>8. Backed(s, ev, Len(ev), Len(ev))
  BY <1>5, <1>7 DEF ReadingsOf, Backed
<1>9. Backed(s, e2, Len(ev), Len(ev))
  BY <1>2, <1>8, BackedBefore
<1> HIDE DEF e2
<1>10. CASE p.pending = 0
  <2> DEFINE q == Accept(s, l, r)
  <2>1. s.deferred = {}
    BY <1>5, <1>10 DEF ReadingsOf, PendingInv
  <2>2. Awaiting(s, e2)
    BY <1>2, <1>5, <1>6, <1>9, <1>10, <2>1 DEF Awaiting, ReadingsOf, PendingInv
  <2>3. Repeats(s, l) => e2[Len(e2)].repeats
    BY <1>2, <1>4, <1>5 DEF Repeats
  <2>4. Outcome(q, s, e2)
    BY <1>1, <1>2, <2>2, <2>3, AcceptBacked
  <2>5. Observe(p, r) = q
    BY <1>3, <1>10
  <2> HIDE DEF q
  <2>6. QED
    BY <1>5, <2>4, <2>5 DEF Outcome, ReadingsOf, e2
<1>11. CASE p.pending # 0
  <2> DEFINE D == {d \in s.downs : l <= d.level}
  <2> DEFINE q == [s EXCEPT !.deferred = {r}, !.downs = D]
  <2>1. Observe(p, r) = q
    BY <1>3, <1>11 DEF Suppressed
  <2>2. (\A d \in D : d \in s.downs /\ l <= d.level) /\ (s.downs = {} => D = {})
    OBVIOUS
  <2> HIDE DEF D
  <2>3. /\ q.level = p.level /\ q.pending = p.pending /\ q.failed = p.failed
        /\ q.revision = r.rev /\ q.downs = D /\ q.upshift = {} /\ q.deferred = {r}
    BY <1>5, <1>6, <1>11 DEF Sound, PolicyStates, ReadingsOf, PendingInv
  <2> HIDE DEF q
  <2>4. \A d \in D : Dwelling(d, e2, Len(e2) - 1, Len(e2))
    <3> TAKE d \in D
    <3>1. l <= d.level /\ Dwelling(d, e2, Len(e2) - 1, Len(e2) - 1)
      BY <1>2, <1>9, <2>2 DEF Backed
    <3>2. QED
      BY <1>2, <3>1, DwellingGoesOn
  <2>5. Backed(q, e2, Len(e2) - 1, Len(e2)) /\ q.deferred # {}
    BY <2>3, <2>4 DEF Backed
  <2>6. PendingInv(q, e2)
    <3>1. q.pending # 0 => q.upshift = {} /\ (q.pending >= q.level => q.downs = {})
      BY <1>5, <1>11, <2>2, <2>3 DEF ReadingsOf, PendingInv
    <3>2. q.failed # 0 /\ q.failed >= q.level => q.downs = {}
      BY <1>5, <2>2, <2>3 DEF ReadingsOf, PendingInv
    <3>3. e2 # <<>> /\ e2[Len(e2)].pm = r.pm /\ e2[Len(e2)].at = r.at
      BY <1>2 DEF Last
    <3>4. QED
      BY <1>11, <2>3, <3>1, <3>2, <3>3 DEF PendingInv
  <2>7. ReadingsOf(q, e2)
    BY <2>5, <2>6 DEF ReadingsOf
  <2>8. QED
    BY <1>11, <2>1, <2>3, <2>7 DEF e2
<1>12. QED
  BY <1>10, <1>11

(* A failed command gives up the target and the reading kept for later.    *)
LEMMA FailureBacked ==
  ASSUME NEW p, Sound(p), NEW ev \in History, ReadingsOf(p, ev)
  PROVE  ReadingsOf(MarkFailed(p), ev) /\ MarkFailed(p).revision = p.revision
<1> DEFINE q == [p EXCEPT !.pending = 0, !.deferred = {}, !.failed = p.pending]
<1>1. MarkFailed(p) = IF p.pending = 0 THEN p ELSE q
  BY DEF MarkFailed
<1>2. /\ q.level = p.level /\ q.pending = 0 /\ q.failed = p.pending /\ q.revision = p.revision
      /\ q.downs = p.downs /\ q.upshift = p.upshift /\ q.deferred = {}
  BY DEF Sound, PolicyStates
<1> HIDE DEF q
<1>3. CASE p.pending # 0
  <2>1. \A d \in q.downs : Dwelling(d, ev, Len(ev), Len(ev))
    BY <1>2, DwellsHaveStarted
  <2>2. Backed(q, ev, Len(ev), Len(ev)) /\ PendingInv(q, ev)
    BY <1>2, <1>3, <2>1 DEF ReadingsOf, Backed, PendingInv
  <2>3. QED
    BY <1>1, <1>2, <1>3, <2>2 DEF ReadingsOf
<1>4. QED
  BY <1>1, <1>3

(* A confirmed command makes its target the level, and the reading kept    *)
(* for later is acted on.                                                  *)
LEMMA ConfirmedBacked ==
  ASSUME NEW p, Sound(p), NEW ev \in History, ReadingsOf(p, ev), p.pending # 0
  PROVE  LET q == Reconcile(Confirm(p)) IN
         /\ ReadingsOf(q, ev) /\ q.revision = p.revision
         /\ q.level # 0 /\ q.failed = 0
         /\ q.pending # 0 => Justified(q, ev)
<1> DEFINE D == {d \in p.downs : d.level < p.pending}
<1> DEFINE c == [p EXCEPT !.level = p.pending, !.pending = 0, !.failed = 0, !.downs = D]
<1>1. Confirm(p) = c
  BY DEF Confirm
<1>2. \A d \in D : d \in p.downs
  OBVIOUS
<1> HIDE DEF D
<1>3. /\ c.level = p.pending /\ c.pending = 0 /\ c.failed = 0 /\ c.revision = p.revision
      /\ c.downs = D /\ c.upshift = {} /\ c.deferred = p.deferred
  BY DEF Sound, PolicyStates, ReadingsOf, PendingInv
<1>4. Sound(c)
  BY <1>1, ConfirmIsSound
<1> HIDE DEF c
<1> DEFINE s == [c EXCEPT !.deferred = {}]
<1>5. /\ s.level = p.pending /\ s.pending = 0 /\ s.failed = 0 /\ s.revision = p.revision
      /\ s.downs = D /\ s.upshift = {} /\ s.deferred = {} /\ s \in PolicyStates
  BY <1>3, <1>4 DEF Sound, PolicyStates
<1>6. /\ p.deferred = {} => Reconcile(c) = s
      /\ p.deferred # {} => LET r == CHOOSE x \in p.deferred : TRUE
                            IN Reconcile(c) = Accept(s, LevelFor(r.pm), r)
  BY <1>3 DEF Reconcile
<1> HIDE DEF s
<1>7. Sound(s)
  BY <1>3, <1>4, <1>5 DEF Sound
<1>8. \A d \in s.downs : Dwelling(d, ev, Len(ev), Len(ev))
  BY <1>2, <1>5, DwellsHaveStarted
<1>9. CASE p.deferred = {}
  <2>1. ReadingsOf(s, ev)
    BY <1>5, <1>8 DEF ReadingsOf, Backed, PendingInv
  <2>2. QED
    BY <1>1, <1>5, <1>6, <1>9, <2>1
<1>10. CASE p.deferred # {}
  <2> DEFINE r == CHOOSE x \in p.deferred : TRUE
  <2> DEFINE l == LevelFor(r.pm)
  <2>1. r \in p.deferred /\ Reconcile(c) = Accept(s, l, r)
    BY <1>6, <1>10
  <2> HIDE DEF r
  <2>2. r \in Readings /\ r.pm \in Nat
    BY <2>1, SoundFields DEF Readings
  <2>3. l \in Level
    BY <2>2, LevelIsLevel
  <2>4. ev # <<>> /\ ev[Len(ev)].pm = r.pm /\ ev[Len(ev)].at = r.at
    BY <2>1 DEF ReadingsOf, PendingInv
  <2>5. Last(ev, l, r)
    BY <2>4 DEF Last
  <2> HIDE DEF l
  <2>6. \A d \in s.downs : Dwelling(d, ev, Len(ev) - 1, Len(ev) - 1)
    <3> TAKE d \in s.downs
    <3>1. Len(ev) \in Nat
      BY DEF History
    <3>2. Dwelling(d, ev, Len(ev) - 1, Len(ev))
      BY <1>2, <1>5, <1>10 DEF ReadingsOf, Backed
    <3>3. \A i \in 1 .. Len(ev) - 1 : \A j \in i .. Len(ev) - 1 : j \in i .. Len(ev)
      BY <3>1
    <3>4. QED
      BY <3>2, <3>3 DEF Dwelling
  <2>7. Awaiting(s, ev)
    BY <1>5, <1>7, <2>6 DEF Awaiting, Backed
  <2>8. ~Repeats(s, l)
    BY <1>5 DEF Repeats
  <2>9. Outcome(Accept(s, l, r), s, ev)
    BY <2>2, <2>3, <2>5, <2>7, <2>8, AcceptBacked
  <2>10. QED
    BY <1>1, <1>5, <2>1, <2>9 DEF Outcome, ReadingsOf
<1>11. QED
  BY <1>9, <1>10

-----------------------------------------------------------------------------
(* The controller's steps.                                                 *)

AirIsNumbered == \A i \in DOMAIN queue : queue[i].type = "air" => queue[i].rev # 0

(* What a step must do: what is timed stays backed, and a target that is   *)
(* new in this step is one that the readings call for.                     *)
Kept == ReadingsInv' /\ RevisionInv' /\ (Emits => Justified(policy', evidence'))

LEMMA ReadingsAre ==
  /\ ReadingsInv <=> ReadingsOf(policy, evidence)
  /\ ReadingsInv' <=> ReadingsOf(policy', evidence')
BY DEF ReadingsInv, ReadingsOf

LEMMA NothingIsTimed ==
  /\ \A ev : ReadingsOf(InitialPolicy, ev)
  /\ InitialPolicy.pending = 0 /\ InitialPolicy.revision = 0
BY DEF ReadingsOf, Backed, PendingInv, InitialPolicy

LEMMA MoreEvents ==
  ASSUME queue \in Seq(Events), AirIsNumbered, NEW e \in Events, e.type = "air" => e.rev # 0,
         queue' = Append(queue, e)
  PROVE  AirIsNumbered'
<1>1. /\ Len(queue') = Len(queue) + 1 /\ queue' \in Seq(Events) /\ queue'[Len(queue) + 1] = e
      /\ \A i \in 1 .. Len(queue) : queue'[i] = queue[i]
  BY AppendProperties
<1>2. DOMAIN queue' = 1 .. Len(queue) + 1 /\ DOMAIN queue = 1 .. Len(queue) /\ Len(queue) \in Nat
  BY <1>1
<1>3. SUFFICES ASSUME NEW i \in DOMAIN queue', queue'[i].type = "air" PROVE queue'[i].rev # 0
  BY DEF AirIsNumbered
<1>4. CASE i = Len(queue) + 1
  BY <1>1, <1>3, <1>4
<1>5. CASE i # Len(queue) + 1
  <2>1. i \in 1 .. Len(queue)
    BY <1>2, <1>5
  <2>2. QED
    BY <1>1, <1>2, <1>3, <2>1 DEF AirIsNumbered
<1>6. QED
  BY <1>4, <1>5

LEMMA FewerEvents ==
  ASSUME queue \in Seq(Events), queue # <<>>, AirIsNumbered, queue' = Tail(queue)
  PROVE  /\ AirIsNumbered'
         /\ Head(queue).type = "air" => Head(queue).rev # 0
<1>1. /\ Len(queue) \in Nat \ {0} /\ Head(queue) = queue[1] /\ queue' \in Seq(Events)
      /\ Len(queue') = Len(queue) - 1 /\ \A i \in 1 .. Len(queue') : queue'[i] = queue[i + 1]
  BY HeadTailProperties, EmptySeq
<1>2. \A i \in 1 .. Len(queue') : i + 1 \in 1 .. Len(queue)
  BY <1>1
<1>3. 1 \in 1 .. Len(queue)
  BY <1>1
<1>4. DOMAIN queue' = 1 .. Len(queue') /\ DOMAIN queue = 1 .. Len(queue)
  BY <1>1
<1>5. QED
  BY <1>1, <1>2, <1>3, <1>4 DEF AirIsNumbered

(* Nobody but the actor touches what the hysteresis rests on.              *)
LEMMA OthersKeep ==
  ASSUME HysteresisInv, UNCHANGED <<policy, evidence, barVars, actor>>, AirIsNumbered'
  PROVE  Kept
<1>1. ReadingsInv'
  BY ReadingsAre DEF HysteresisInv
<1>2. RevisionInv'
  BY DEF HysteresisInv, RevisionInv, Resting, barVars, AirIsNumbered
<1>3. QED
  BY <1>1, <1>2 DEF Kept, Emits

LEMMA ClientsKeep == HysteresisInv /\ ClientStep => Kept
<1> SUFFICES ASSUME HysteresisInv, ClientStep PROVE Kept
  OBVIOUS
<1>1. /\ queue \in Seq(Events) /\ AirIsNumbered /\ generation \in Nat
      /\ now \in Nat /\ link.gen \in Nat /\ revision \in Nat
  BY ControllerParts DEF HysteresisInv, RevisionInv, AirIsNumbered, EnvTypes, FlagTypes
<1>2. CASE Tick \/ LinkConnects
  <2>1. UNCHANGED <<policy, evidence, barVars, actor>> /\ queue' = queue
    BY <1>2 DEF Tick, LinkConnects, workVars
  <2>2. QED
    BY <1>1, <2>1, OthersKeep DEF AirIsNumbered
<1>3. CASE LinkDrops \/ LinkReady
  <2>1. UNCHANGED <<policy, evidence, barVars, actor>>
    BY <1>3 DEF LinkDrops, LinkReady, workVars
  <2>2. PICK up \in BOOLEAN : queue' = Append(queue, ConnectionEvent(up, link.gen))
    BY <1>3 DEF LinkDrops, LinkReady
  <2> DEFINE e == ConnectionEvent(up, link.gen)
  <2>3. e \in Events /\ e.type # "air"
    BY <1>1, EventTypes DEF ConnectionEvent
  <2> HIDE DEF e
  <2>4. AirIsNumbered'
    BY <1>1, <2>2, <2>3, MoreEvents DEF e
  <2>5. QED
    BY <2>1, <2>4, OthersKeep
<1>4. CASE PowerReported
  <2>1. UNCHANGED <<policy, evidence, barVars, actor>>
    BY <1>4 DEF PowerReported, workVars
  <2> DEFINE e == [type |-> "power", on |-> ~power]
  <2>2. e \in Events /\ e.type # "air" /\ queue' = Append(queue, e)
    BY <1>4, EventTypes DEF PowerReported
  <2> HIDE DEF e
  <2>3. AirIsNumbered'
    BY <1>1, <2>2, MoreEvents
  <2>4. QED
    BY <2>1, <2>3, OthersKeep
<1>5. ASSUME NEW auto \in BOOLEAN, ButtonPressed(auto)
      PROVE  Kept
  <2>1. UNCHANGED <<policy, evidence, barVars, actor>>
    BY <1>5 DEF ButtonPressed, workVars
  <2> DEFINE e == [type |-> "fan", auto |-> auto, gen |-> link.gen]
  <2>2. e \in Events /\ e.type # "air" /\ queue' = Append(queue, e)
    BY <1>1, <1>5, EventTypes DEF ButtonPressed
  <2> HIDE DEF e
  <2>3. AirIsNumbered'
    BY <1>1, <2>2, MoreEvents
  <2>4. QED
    BY <2>1, <2>3, OthersKeep
<1>6. ASSUME NEW pm \in PMs \cup {NoPM}, Receive(pm)
      PROVE  Kept
  <2> DEFINE c == ConnectionEvent(FALSE, link.gen)
  <2> DEFINE e == [type |-> "air", pm |-> pm, rev |-> revision + 1, at |-> now, gen |-> link.gen]
  <2>1. UNCHANGED <<policy, evidence, barVars, actor>>
    BY <1>6 DEF Receive, workVars
  <2>2. /\ e \in Events /\ e.rev # 0 /\ c \in Events /\ c.type # "air"
    <3>1. revision + 1 \in Nat /\ revision + 1 # 0
      BY <1>1
    <3>2. e \in Events
      BY <1>1, <3>1, EventTypes
    <3>3. c \in Events /\ c.type # "air"
      BY <1>1, EventTypes DEF ConnectionEvent
    <3>4. QED
      BY <3>1, <3>2, <3>3
  <2>3. queue' = queue \o (IF link.gen > generation THEN <<c, e>> ELSE <<e>>)
    BY <1>6 DEF Receive
  <2> HIDE DEF e, c
  <2> DEFINE news == IF link.gen > generation THEN <<c, e>> ELSE <<e>>
  <2>4. news \in Seq(Events) /\ \A i \in DOMAIN news : news[i].type = "air" => news[i].rev # 0
    <3>1. /\ <<c, e>> \in Seq(Events) /\ <<e>> \in Seq(Events)
          /\ DOMAIN <<c, e>> = {1, 2} /\ DOMAIN <<e>> = {1}
      BY <2>2
    <3>2. QED
      BY <2>2, <3>1
  <2> HIDE DEF news
  <2>5. /\ queue' \in Seq(Events) /\ Len(queue') = Len(queue) + Len(news)
        /\ \A i \in 1 .. Len(queue) : queue'[i] = queue[i]
        /\ \A i \in Len(queue) + 1 .. Len(queue) + Len(news) : queue'[i] = news[i - Len(queue)]
        /\ Len(queue) \in Nat /\ Len(news) \in Nat
    BY <1>1, <2>3, <2>4, ConcatProperties, LenProperties DEF news
  <2>6. ASSUME NEW i \in DOMAIN queue', queue'[i].type = "air"
        PROVE  queue'[i].rev # 0
    <3>1. i \in 1 .. Len(queue) + Len(news)
      BY <2>5
    <3>2. CASE i \in 1 .. Len(queue)
      BY <1>1, <2>5, <2>6, <3>2 DEF AirIsNumbered
    <3>3. CASE i \notin 1 .. Len(queue)
      <4>1. i \in Len(queue) + 1 .. Len(queue) + Len(news) /\ i - Len(queue) \in 1 .. Len(news)
        BY <2>5, <3>1, <3>3
      <4>2. queue'[i] = news[i - Len(queue)] /\ i - Len(queue) \in DOMAIN news
        BY <2>4, <2>5, <4>1
      <4>3. QED
        BY <2>4, <2>6, <4>2
    <3>4. QED
      BY <3>2, <3>3
  <2>7. AirIsNumbered'
    BY <2>6 DEF AirIsNumbered
  <2>8. QED
    BY <2>1, <2>7, OthersKeep
<1>7. QED
  BY <1>2, <1>3, <1>4, <1>5, <1>6 DEF ClientStep

LEMMA CallersKeep == HysteresisInv /\ CallerStep => Kept
<1> SUFFICES ASSUME HysteresisInv, CallerStep PROVE Kept
  OBVIOUS
<1>1. queue \in Seq(Events) /\ AirIsNumbered
  BY ControllerParts DEF HysteresisInv, RevisionInv, AirIsNumbered
<1>2. ASSUME NEW c \in Calls, Call(c)
      PROVE  Kept
  <2>1. UNCHANGED <<policy, evidence, barVars, actor>>
    BY <1>2 DEF Call, workVars
  <2> DEFINE e == [type |-> "control", call |-> c, on |-> FALSE]
  <2>2. e \in Events /\ e.type # "air" /\ queue' = Append(queue, e)
    BY <1>2, EventTypes DEF Call
  <2> HIDE DEF e
  <2>3. AirIsNumbered'
    BY <1>1, <2>2, MoreEvents
  <2>4. QED
    BY <2>1, <2>3, OthersKeep
<1>3. ASSUME NEW confirmed \in BOOLEAN, FinishPowerOff(confirmed)
      PROVE  Kept
  <2> DEFINE f == [type |-> "power", on |-> FALSE]
  <2> DEFINE e == [type |-> "control", call |-> "finish_power_off", on |-> power']
  <2>1. UNCHANGED <<policy, evidence, barVars, actor>>
    BY <1>3 DEF FinishPowerOff, workVars
  <2>2. queue' = queue \o (IF power /\ confirmed THEN <<f>> ELSE <<>>) \o <<e>>
    BY <1>3 DEF FinishPowerOff
  <2>3. f.type # "air" /\ e.type # "air" /\ f \in Events
    BY EventTypes
  <2>4. e \in Events
    <3>1. power' \in BOOLEAN
      BY <1>3 DEF FinishPowerOff
    <3>2. QED
      BY <3>1, EventTypes DEF Calls
  <2> HIDE DEF e, f
  <2> DEFINE q1 == queue \o (IF power /\ confirmed THEN <<f>> ELSE <<>>)
  <2>5. q1 \in Seq(Events) /\ \A i \in DOMAIN q1 : q1[i].type = "air" => q1[i].rev # 0
    <3>1. CASE power /\ confirmed
      <4>1. q1 = Append(queue, f)
        BY <1>1, <2>3, <3>1
      <4>2. /\ Len(q1) = Len(queue) + 1 /\ q1 \in Seq(Events) /\ q1[Len(queue) + 1] = f
            /\ \A i \in 1 .. Len(queue) : q1[i] = queue[i]
        BY <1>1, <2>3, <4>1, AppendProperties
      <4> HIDE DEF q1
      <4>3. DOMAIN q1 = 1 .. Len(queue) + 1 /\ DOMAIN queue = 1 .. Len(queue) /\ Len(queue) \in Nat
        BY <1>1, <4>2
      <4>4. \A i \in DOMAIN q1 : i \in DOMAIN queue \/ i = Len(queue) + 1
        BY <4>3
      <4>5. QED
        BY <1>1, <2>3, <4>2, <4>3, <4>4 DEF AirIsNumbered
    <3>2. CASE ~(power /\ confirmed)
      <4>1. q1 = queue
        BY <1>1, <3>2
      <4>2. QED
        BY <1>1, <4>1 DEF AirIsNumbered
    <3>3. QED
      BY <3>1, <3>2
  <2> HIDE DEF q1
  <2>6. queue' = q1 \o <<e>> /\ q1 \o <<e>> = Append(q1, e)
    BY <2>2, <2>4, <2>5 DEF q1
  <2>7. /\ Len(queue') = Len(q1) + 1 /\ queue' \in Seq(Events) /\ queue'[Len(q1) + 1] = e
        /\ \A i \in 1 .. Len(q1) : queue'[i] = q1[i]
    BY <2>4, <2>5, <2>6, AppendProperties
  <2>8. DOMAIN queue' = 1 .. Len(q1) + 1 /\ DOMAIN q1 = 1 .. Len(q1) /\ Len(q1) \in Nat
    BY <2>5, <2>7
  <2>9. \A i \in DOMAIN queue' : i \in DOMAIN q1 \/ i = Len(q1) + 1
    BY <2>8
  <2>10. AirIsNumbered'
    BY <2>3, <2>5, <2>7, <2>8, <2>9 DEF AirIsNumbered
  <2>11. QED
    BY <2>1, <2>10, OthersKeep
<1>4. QED
  BY <1>2, <1>3 DEF CallerStep

LEMMA WorkersKeep ==
  ASSUME HysteresisInv, NEW k \in Kinds,
         CancelledEnds(k) \/ \E ok \in BOOLEAN : WorkerEnds(k, ok)
  PROVE  Kept
<1>1. /\ queue \in Seq(Events) /\ AirIsNumbered /\ task \in [Kinds -> SUBSET Tasks]
  BY ControllerParts DEF HysteresisInv, RevisionInv, AirIsNumbered, Parts, Work
<1>2. CASE CancelledEnds(k)
  <2>1. UNCHANGED <<policy, evidence, barVars, actor>> /\ queue' = queue
    BY <1>2 DEF CancelledEnds
  <2>2. QED
    BY <1>1, <2>1, OthersKeep DEF AirIsNumbered
<1>3. ASSUME NEW ok \in BOOLEAN, WorkerEnds(k, ok)
      PROVE  Kept
  <2>1. UNCHANGED <<policy, evidence, barVars, actor>>
    BY <1>3 DEF WorkerEnds
  <2>2. PICK t \in task[k] :
          queue' = Append(queue, [type |-> "done", kind |-> k, serial |-> t.serial,
                                  ok |-> ok, target |-> t.target])
    BY <1>3 DEF WorkerEnds
  <2>3. t.serial \in Nat /\ t.target \in 0 .. Levels
    BY <1>1 DEF Tasks
  <2> DEFINE e == [type |-> "done", kind |-> k, serial |-> t.serial, ok |-> ok, target |-> t.target]
  <2>4. e \in Events /\ e.type # "air" /\ queue' = Append(queue, e)
    BY <2>2, <2>3, EventTypes
  <2> HIDE DEF e
  <2>5. AirIsNumbered'
    BY <1>1, <2>4, MoreEvents
  <2>6. QED
    BY <2>1, <2>5, OthersKeep
<1>4. QED
  BY <1>2, <1>3

(* What is given up is backed by nothing and needs nothing.                *)
LEMMA SettlingKeeps ==
  ASSUME NEW h, Settle(h) \/ CancelRest(h), ReadingsInv, lastSeen' \in Nat
  PROVE  /\ ReadingsInv' /\ ~Emits
         /\ Resting' => policy'.revision <= lastSeen'
<1>1. CASE Settle(h)
  <2>1. policy' = InitialPolicy
    BY <1>1 DEF Settle
  <2>2. QED
    BY <2>1, NothingIsTimed, ReadingsAre DEF Emits
<1>2. CASE ~Settle(h)
  <2>1. UNCHANGED <<policy, evidence>> /\ actor' = "draining"
    BY <1>2 DEF CancelRest
  <2>2. QED
    BY <2>1, ReadingsAre DEF Emits, Resting
<1>3. QED
  BY <1>1, <1>2

LEMMA InvalidatingSettles ==
  ASSUME HysteresisInv, NEW type, Take(type), lastSeen' \in Nat, NEW h, NEW at,
         Invalidate(h, at)
  PROVE  Kept
<1>1. queue \in Seq(Events) /\ AirIsNumbered /\ ReadingsInv
  BY ControllerParts DEF HysteresisInv, RevisionInv, AirIsNumbered
<1>2. AirIsNumbered'
  BY <1>1, FewerEvents DEF Take
<1>3. barrierRev' <= lastSeen'
  BY DEF Invalidate
<1>4. /\ ReadingsInv' /\ ~Emits
      /\ Resting' => policy'.revision <= lastSeen'
  <2>1. CASE CancelRest(h)
    BY <1>1, <2>1, SettlingKeeps
  <2>2. CASE ~CancelRest(h)
    <3>1. UNCHANGED <<policy, evidence>> /\ actor' = "releasing"
      BY <2>2 DEF Invalidate
    <3>2. QED
      BY <1>1, <3>1, ReadingsAre DEF Emits, Resting
  <2>3. QED
    BY <2>1, <2>2
<1>5. QED
  BY <1>2, <1>3, <1>4 DEF Kept, RevisionInv, AirIsNumbered

LEMMA IgnoringKeeps ==
  ASSUME HysteresisInv, NEW type, Take(type), Ignore
  PROVE  Kept
<1>1. queue \in Seq(Events) /\ AirIsNumbered
  BY ControllerParts DEF HysteresisInv, RevisionInv, AirIsNumbered
<1>2. AirIsNumbered'
  BY <1>1, FewerEvents DEF Take
<1>3. UNCHANGED <<policy, evidence, barVars, actor>>
  BY DEF Ignore, workVars
<1>4. QED
  BY <1>2, <1>3, OthersKeep

LEMMA WaitsKeep == HysteresisInv /\ (Released \/ Drained) => Kept
<1> SUFFICES ASSUME HysteresisInv, Released \/ Drained PROVE Kept
  OBVIOUS
<1>1. UNCHANGED <<queue, barVars>> /\ (Settle(handling) \/ CancelRest(handling))
  BY DEF Released, Drained
<1>2. lastSeen \in Nat /\ ReadingsInv /\ RevisionInv
  BY ControllerParts DEF HysteresisInv, BarTypes
<1>3. lastSeen' \in Nat
  BY <1>1, <1>2 DEF barVars
<1>4. /\ ReadingsInv' /\ ~Emits
      /\ Resting' => policy'.revision <= lastSeen'
  BY <1>1, <1>2, <1>3, SettlingKeeps
<1>5. QED
  BY <1>1, <1>2, <1>4 DEF Kept, RevisionInv, barVars

LEMMA EventsKeep ==
  HysteresisInv /\ (HandleControl \/ HandleConnection \/ HandlePower \/ HandleFan) => Kept
<1> SUFFICES ASSUME HysteresisInv, HandleControl \/ HandleConnection \/ HandlePower \/ HandleFan
             PROVE  Kept
  OBVIOUS
<1>1. lastSeen \in Nat
  BY ControllerParts DEF HysteresisInv, BarTypes
<1>2. PICK type \in {"control", "connection", "power", "fan"} :
        /\ Take(type)
        /\ Ignore \/ (lastSeen' \in {lastSeen, 0} /\ \E h, at : Invalidate(h, at))
  <2>1. CASE HandleControl
    BY <2>1 DEF HandleControl
  <2>2. CASE HandleConnection
    BY <2>2 DEF HandleConnection
  <2>3. CASE HandlePower
    BY <2>3 DEF HandlePower
  <2>4. CASE HandleFan
    BY <2>4 DEF HandleFan
  <2>5. QED
    BY <2>1, <2>2, <2>3, <2>4
<1>3. CASE Ignore
  BY <1>2, <1>3, IgnoringKeeps
<1>4. CASE ~Ignore
  <2>1. PICK h, at : Invalidate(h, at)
    BY <1>2, <1>4
  <2>2. lastSeen' \in Nat
    BY <1>1, <1>2, <1>4
  <2>3. QED
    BY <1>2, <2>1, <2>2, InvalidatingSettles
<1>5. QED
  BY <1>3, <1>4

(* A reading: it is newer than what the policy has seen and past the       *)
(* barrier, so what is kept of it is what the policy is given.             *)
LEMMA ReadingKeeps == HysteresisInv /\ HandleAir => Kept
<1> SUFFICES ASSUME HysteresisInv, HandleAir PROVE Kept
  OBVIOUS
<1> DEFINE e == Head(queue)
<1> DEFINE r == [pm |-> e.pm, rev |-> e.rev, at |-> e.at]
<1> DEFINE v == Handled(e)
<1>1. ControllerInv /\ ReadingsInv /\ RevisionInv /\ Take("air")
  BY DEF HysteresisInv, HandleAir
<1>2. /\ e \in Events /\ e.type = "air" /\ actor = "idle" /\ queue' = Tail(queue)
      /\ queue \in Seq(Events) /\ queue # <<>> /\ EvidenceType /\ BarTypes /\ Parts
  BY <1>1, Taken
<1>3. e.pm \in PMs \cup {NoPM} /\ e.rev \in Nat /\ e.at \in Nat
  BY <1>2 DEF Events
<1>4. AirIsNumbered' /\ e.rev # 0
  BY <1>1, <1>2, FewerEvents DEF RevisionInv, AirIsNumbered
<1>5. \/ Ignore
      \/ /\ lastSeen = 0 \/ e.rev > lastSeen
         /\ lastSeen' = e.rev
         /\ evidence' = IF e.pm # NoPM /\ e.at >= barrierAt THEN Append(evidence, v) ELSE evidence
         /\ UNCHANGED <<caller, actor, handling, flagVars, barrierRev, barrierAt>>
         /\ IF ~Usable \/ BehindBarrier(e) \/ e.pm = NoPM
            THEN UNCHANGED policy ELSE policy' = Observe(policy, r)
  BY <1>2, <1>3 DEF HandleAir, Apply, BarTypes
<1>6. /\ Sound(policy) /\ ReadingsOf(policy, evidence) /\ policy.revision \in Nat
      /\ policy.revision <= lastSeen /\ barrierRev <= lastSeen
      /\ ~Usable => policy = InitialPolicy
      /\ evidence \in History
  <2>1. Sound(policy) /\ policy.revision \in Nat
    BY <1>2, SoundFields DEF Parts, Work
  <2>2. \A S, T : S \subseteq T => Seq(S) \subseteq Seq(T)
    OBVIOUS
  <2>3. [pm : PMs, at : Nat, repeats : BOOLEAN] \subseteq [pm : Nat, at : Nat, repeats : BOOLEAN]
    BY ControllerAssumption DEF ControllerAssumption
  <2>4. evidence \in History
    BY <1>2, <2>2, <2>3 DEF EvidenceType, History
  <2>5. Resting
    BY <1>2 DEF Resting
  <2>6. QED
    BY <1>1, <1>2, <2>1, <2>4, <2>5, ReadingsAre
       DEF RevisionInv, Parts, WorkerInv, QuietUnlessUsable
<1> HIDE DEF e
<1>7. CASE Ignore
  BY <1>1, <1>7, IgnoringKeeps DEF HysteresisInv
<1>8. CASE ~Ignore
  <2>1. /\ e.rev > policy.revision /\ e.rev > barrierRev
        /\ lastSeen' = e.rev /\ actor' = actor /\ barrierRev' = barrierRev
    BY <1>2, <1>3, <1>4, <1>5, <1>6, <1>8 DEF BarTypes
  <2>2. BehindBarrier(e) <=> ~(e.at >= barrierAt)
    BY <1>2, <1>3, <2>1 DEF BehindBarrier, BarTypes
  <2>3. CASE UNCHANGED policy
    <3>1. ReadingsInv'
      <4>1. CASE policy = InitialPolicy
        BY <2>3, <4>1, NothingIsTimed, ReadingsAre
      <4>2. CASE policy # InitialPolicy /\ Usable /\ (BehindBarrier(e) \/ e.pm = NoPM)
        <5>1. evidence' = evidence
          BY <1>5, <1>8, <2>2, <4>2
        <5>2. QED
          BY <1>6, <2>3, <5>1, ReadingsAre
      <4>3. CASE policy # InitialPolicy /\ Usable /\ ~(BehindBarrier(e) \/ e.pm = NoPM)
        <5>1. policy = Observe(policy, r)
          BY <1>5, <1>8, <2>3, <4>3
        <5>2. Observe(policy, r).revision = e.rev
          <6>1. r \in Readings /\ r.rev > policy.revision
            BY <1>3, <2>1, <4>3, ControllerAssumption DEF Readings, ControllerAssumption
          <6> DEFINE s == [policy EXCEPT !.revision = r.rev]
          <6>2. v \in [pm : Nat, at : Nat, repeats : BOOLEAN] /\ v.pm = r.pm /\ v.at = r.at
                /\ (Repeats(policy, LevelFor(r.pm)) => v.repeats)
            BY <1>3, <4>3, ControllerAssumption DEF Handled, Repeats, ControllerAssumption
          <6> HIDE DEF v
          <6>3. r.rev = e.rev
            OBVIOUS
          <6> HIDE DEF r
          <6>4. Observe(policy, r).revision = r.rev
            BY <1>6, <6>1, <6>2, ObserveBacked
          <6>5. QED
            BY <6>3, <6>4
        <5>3. QED
          BY <1>3, <1>6, <2>1, <5>1, <5>2
      <4>4. QED
        BY <1>6, <4>1, <4>2, <4>3
    <3>2. RevisionInv'
      BY <1>2, <1>3, <1>4, <1>6, <2>1, <2>3 DEF RevisionInv, AirIsNumbered, BarTypes
    <3>3. QED
      BY <2>3, <3>1, <3>2 DEF Kept, Emits
  <2>4. CASE Usable /\ ~BehindBarrier(e) /\ e.pm # NoPM
    <3>1. policy' = Observe(policy, r) /\ evidence' = Append(evidence, v)
      BY <1>5, <1>8, <2>2, <2>4
    <3>2. r \in Readings /\ r.rev > policy.revision /\ r.rev = e.rev
      BY <1>3, <2>1, <2>4, ControllerAssumption DEF Readings, ControllerAssumption
    <3>3. v \in [pm : Nat, at : Nat, repeats : BOOLEAN] /\ v.pm = r.pm /\ v.at = r.at
          /\ (Repeats(policy, LevelFor(r.pm)) => v.repeats)
      BY <1>3, <2>4, ControllerAssumption DEF Handled, Repeats, ControllerAssumption
    <3> HIDE DEF v, r
    <3>4. /\ ReadingsOf(policy', evidence') /\ policy'.revision = e.rev
          /\ policy.pending = 0 /\ policy'.pending # 0 => Justified(policy', evidence')
      BY <1>6, <3>1, <3>2, <3>3, ObserveBacked
    <3>5. policy.pending # 0 => policy'.pending = policy.pending
      BY <1>6, <3>1, <3>2, ObserveIsSound
    <3>6. RevisionInv'
      BY <1>2, <1>3, <1>4, <2>1, <3>4 DEF RevisionInv, AirIsNumbered, BarTypes
    <3>7. QED
      BY <3>4, <3>5, <3>6, ReadingsAre DEF Kept, Emits
  <2>5. QED
    BY <1>5, <1>8, <2>3, <2>4
<1>9. QED
  BY <1>7, <1>8

LEMMA CompletionKeeps == HysteresisInv /\ HandleDone => Kept
<1> SUFFICES ASSUME HysteresisInv, HandleDone PROVE Kept
  OBVIOUS
<1> DEFINE e == Head(queue)
<1> DEFINE c == Reconcile(Confirm(policy))
<1>1. ControllerInv /\ ReadingsInv /\ RevisionInv /\ Take("done")
  BY DEF HysteresisInv, HandleDone
<1>2. /\ e \in Events /\ e.type = "done" /\ actor = "idle" /\ queue' = Tail(queue)
      /\ queue \in Seq(Events) /\ queue # <<>> /\ EvidenceType /\ BarTypes /\ Parts
      /\ now \in Nat
  BY <1>1, Taken
<1>3. AirIsNumbered'
  BY <1>1, <1>2, FewerEvents DEF RevisionInv, AirIsNumbered
<1>4. UNCHANGED <<caller, actor, handling, flagVars, barVars, evidence>>
  BY DEF HandleDone
<1>5. e \in Completions(e.kind)
  BY <1>2, TailCompletions
<1>6. \/ UNCHANGED policy
      \/ policy' = AtBoundary(policy, now)
      \/ Current(e) /\ e.kind = "command" /\ policy' = AtBoundary(c, now)
      \/ policy' = MarkFailed(policy)
  BY <1>2 DEF HandleDone, CommandConfirmed, SendPending, Apply, Events, Kinds
<1> HIDE DEF e
<1>7. /\ Sound(policy) /\ ReadingsOf(policy, evidence) /\ policy.revision <= lastSeen
      /\ evidence \in History
  <2>1. Sound(policy)
    BY <1>2 DEF Parts, Work
  <2>2. \A S, T : S \subseteq T => Seq(S) \subseteq Seq(T)
    OBVIOUS
  <2>3. [pm : PMs, at : Nat, repeats : BOOLEAN] \subseteq [pm : Nat, at : Nat, repeats : BOOLEAN]
    BY ControllerAssumption DEF ControllerAssumption
  <2>4. evidence \in History
    BY <1>2, <2>2, <2>3 DEF EvidenceType, History
  <2>5. Resting
    BY <1>2 DEF Resting
  <2>6. QED
    BY <1>1, <1>2, <2>1, <2>4, <2>5, ReadingsAre DEF RevisionInv
<1>8. SUFFICES /\ ReadingsOf(policy', evidence) /\ policy'.revision = policy.revision
               /\ Emits => Justified(policy', evidence)
  BY <1>1, <1>2, <1>3, <1>4, <1>7, ReadingsAre
     DEF Kept, RevisionInv, AirIsNumbered, barVars, Resting
<1>9. CASE UNCHANGED policy
  BY <1>7, <1>9 DEF Emits
<1>10. CASE policy' = AtBoundary(policy, now)
  BY <1>2, <1>7, <1>10, BoundaryBacked DEF Emits
<1>11. CASE policy' = MarkFailed(policy)
  BY <1>7, <1>11, FailureBacked, FailureIsSound DEF Emits
<1>12. CASE Current(e) /\ e.kind = "command" /\ policy' = AtBoundary(c, now)
  <2>1. policy.pending # 0
    BY <1>2, <1>5, <1>12, CurrentFacts
  <2>2. /\ ReadingsOf(c, evidence) /\ c.revision = policy.revision
        /\ c.pending # 0 => Justified(c, evidence)
    BY <1>7, <2>1, ConfirmedBacked
  <2>3. Sound(c)
    BY <1>7, ConfirmIsSound, ReconcileIsSound
  <2> HIDE DEF c
  <2>4. /\ ReadingsOf(policy', evidence) /\ policy'.revision = c.revision
        /\ policy'.level = c.level /\ policy'.pending = c.pending /\ policy'.failed = c.failed
    BY <1>2, <1>12, <2>2, <2>3, BoundaryBacked
  <2>5. Emits => c.pending # 0
    BY <2>4 DEF Emits
  <2>6. QED
    BY <2>2, <2>4, <2>5 DEF Justified
<1>13. QED
  BY <1>6, <1>9, <1>10, <1>11, <1>12

-----------------------------------------------------------------------------
(* The theorems.                                                           *)

LEMMA HysteresisStarts == Init => HysteresisInv
<1> SUFFICES ASSUME Init PROVE HysteresisInv
  OBVIOUS
<1>1. policy = InitialPolicy /\ queue = <<>> /\ barrierRev = 0 /\ lastSeen = 0
  BY DEF Init
<1>2. ReadingsInv /\ RevisionInv
  BY <1>1, NothingIsTimed, ReadingsAre DEF RevisionInv
<1>3. QED
  BY <1>2, ControllerStarts DEF HysteresisInv

LEMMA StepsKeep == HysteresisInv /\ [Next]_vars => Kept
<1> SUFFICES ASSUME HysteresisInv, [Next]_vars PROVE Kept
  OBVIOUS
<1>1. CASE ActorStep
  BY <1>1, WaitsKeep, EventsKeep, ReadingKeeps, CompletionKeeps DEF ActorStep
<1>2. CASE ClientStep
  BY <1>2, ClientsKeep
<1>3. CASE CallerStep
  BY <1>3, CallersKeep
<1>4. CASE \E k \in Kinds : CancelledEnds(k) \/ \E ok \in BOOLEAN : WorkerEnds(k, ok)
  BY <1>4, WorkersKeep
<1>5. CASE UNCHANGED vars
  <2>1. UNCHANGED <<policy, evidence, barVars, actor>> /\ queue' = queue
    BY <1>5 DEF vars, workVars
  <2>2. AirIsNumbered'
    BY <2>1 DEF AirIsNumbered, HysteresisInv, RevisionInv
  <2>3. QED
    BY <2>1, <2>2, OthersKeep
<1>6. QED
  BY <1>1, <1>2, <1>3, <1>4, <1>5 DEF Next

(* Everything the policy times is backed by the readings handled since the *)
(* last invalidation (custom_auto_policy.py), whatever the boundaries, the *)
(* delays and the readings.                                                *)
THEOREM TimedIsBacked == Spec => []HysteresisInv
<1>1. HysteresisInv /\ [Next]_vars => HysteresisInv'
  <2> SUFFICES ASSUME HysteresisInv, [Next]_vars PROVE HysteresisInv'
    OBVIOUS
  <2>1. ControllerInv'
    BY ControllerStep DEF HysteresisInv
  <2>2. QED
    BY <2>1, StepsKeep DEF Kept, HysteresisInv
<1>2. QED
  BY <1>1, HysteresisStarts, PTL DEF Spec

(* The first level is that of a reading received after the ownership       *)
(* began, and after a failed command the next one is that of the latest    *)
(* reading or the failed downshift it allows.                              *)
THEOREM TargetsAreFresh == Spec => FreshTarget
<1>1. HysteresisInv /\ [Next]_vars =>
        [ Emits /\ (policy'.level = 0 \/ policy'.failed # 0) =>
            /\ evidence' # <<>>
            /\ \/ policy'.pending = LevelAt(Len(evidence'))
               \/ policy'.pending = policy'.failed /\ policy'.failed < policy'.level
                  /\ LevelAt(Len(evidence')) <= policy'.pending ]_vars
  BY StepsKeep DEF Kept, Justified, LevelAt
<1>2. QED
  BY <1>1, TimedIsBacked, PTL DEF Spec, FreshTarget

(* The fan is raised only when every reading of the confirmation time was  *)
(* worse than the confirmed level, and to the last one's level.            *)
THEOREM RaisesAreConfirmed == Spec => RaisedWhenConfirmed
<1>1. HysteresisInv /\ [Next]_vars =>
        [ Emits /\ policy'.failed = 0 /\ policy'.level # 0 /\ policy'.pending > policy'.level =>
            /\ Sustained(LAMBDA j : LevelAt(j) > policy'.level, UpDelay, UpDelay = 0)
            /\ policy'.pending = LevelAt(Len(evidence')) ]_vars
  BY StepsKeep DEF Kept, Justified, LevelAt, Sustained
<1>2. QED
  BY <1>1, TimedIsBacked, PTL DEF Spec, RaisedWhenConfirmed

(* The fan is slowed only when every reading of the new level's dwell, and *)
(* a fresh one at its end, allowed it or repeated a failed downshift.      *)
THEOREM DwellsAreKept == Spec => SlowedAfterDwell
<1>1. HysteresisInv /\ [Next]_vars =>
        [ Slows => Sustained(LAMBDA j : LevelAt(j) <= policy'.pending \/ evidence'[j].repeats,
                             DownDelay[policy'.pending], FALSE) ]_vars
  BY StepsKeep DEF Kept, Justified, LevelAt, Sustained, Slows
<1>2. QED
  BY <1>1, TimedIsBacked, PTL DEF Spec, SlowedAfterDwell
=============================================================================
