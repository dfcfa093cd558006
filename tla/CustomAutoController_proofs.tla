--------------------- MODULE CustomAutoController_proofs ---------------------
(***************************************************************************)
(* Theorems about the Custom Auto controller, with their proofs.           *)
(***************************************************************************)
EXTENDS CustomAutoController, FiniteSetTheorems, SequenceTheorems, WellFoundedInduction, TLAPS

-----------------------------------------------------------------------------
(* The policy.                                                             *)

(* A set of naturals has a least element, and Min finds it.                *)
LEMMA LeastExists ==
  ASSUME NEW S, S \subseteq Nat, S # {}
  PROVE  Min(S) \in S /\ \A n \in S : Min(S) <= n
<1>1. PICK x \in S : \A y \in S : ~(<<y, x>> \in OpToRel(<, Nat))
  BY NatLessThanWellFounded, WFMin
<1>2. OpToRel(<, Nat) = {ss \in Nat \X Nat : ss[1] < ss[2]}
  BY DEF OpToRel
<1>3. \A y \in S : x <= y
  <2> TAKE y \in S
  <2>1. x \in Nat /\ y \in Nat
    OBVIOUS
  <2>2. ~(<<y, x>> \in {ss \in Nat \X Nat : ss[1] < ss[2]})
    BY <1>1, <1>2
  <2>3. QED
    BY <2>1, <2>2
<1>4. QED
  BY <1>3 DEF Min

(* A policy state is well formed if it has its type and one crossing at    *)
(* most is timed for each level.                                           *)
Sound(p) == p \in PolicyStates /\ \A d, e \in p.downs : d.level = e.level => d = e

LEMMA LevelIsLevel ==
  ASSUME NEW pm \in Nat
  PROVE  LevelFor(pm) \in Level
<1> DEFINE B == {b \in Lower : Boundary[b] < pm}
<1>1. Levels \in Nat \ {0}
  BY PolicyAssumption DEF PolicyAssumption
<1>2. IsFiniteSet(Lower) /\ Cardinality(Lower) = Levels - 1
  BY <1>1, FS_Interval, 1 \in Int, Levels - 1 \in Int DEF Lower
<1>3. IsFiniteSet(B) /\ Cardinality(B) <= Levels - 1
  BY <1>2, FS_Subset, B \in SUBSET Lower
<1>4. Cardinality(B) \in Nat
  BY <1>3, FS_CardinalityType
<1>5. QED
  BY <1>1, <1>3, <1>4 DEF LevelFor, Level

LEMMA InitialIsSound == Sound(InitialPolicy) /\ Boundaries(InitialPolicy) = {}
BY PolicyAssumption DEF Sound, InitialPolicy, PolicyStates, Boundaries, PolicyAssumption

(* The fields of a sound state.                                            *)
LEMMA SoundFields ==
  ASSUME NEW p, Sound(p)
  PROVE  /\ p.level \in 0 .. Levels /\ p.revision \in Nat /\ p.upshift \in SUBSET Upshifts
         /\ p.downs \in SUBSET Dwells /\ p.pending \in 0 .. Levels
         /\ p.deferred \in SUBSET Readings /\ p.failed \in 0 .. Levels
         /\ \A d, e \in p.downs : d.level = e.level => d = e
BY DEF Sound, PolicyStates

(* Emit asks for the level it is given.                                    *)
LEMMA EmitIsSound ==
  ASSUME NEW p, Sound(p), NEW l \in Level
  PROVE  Sound(Emit(p, l)) /\ Emit(p, l).pending = l
<1>1. l \in 0 .. Levels
  BY PolicyAssumption DEF PolicyAssumption, Level
<1> DEFINE D == IF p.level # 0 /\ l < p.level THEN {d \in p.downs : d.level < l} ELSE {}
<1>2. D \subseteq p.downs
  OBVIOUS
<1>3. Emit(p, l) = [p EXCEPT !.upshift = {}, !.pending = l, !.downs = D]
  BY DEF Emit
<1> HIDE DEF D
<1>4. D \in SUBSET Dwells /\ \A d, e \in D : d.level = e.level => d = e
  BY <1>2, SoundFields
<1>5. {} \in SUBSET Upshifts
  OBVIOUS
<1> DEFINE q == [p EXCEPT !.upshift = {}, !.pending = l, !.downs = D]
<1>6. q \in PolicyStates /\ q.downs = D /\ q.pending = l
  BY <1>1, <1>4, <1>5 DEF Sound, PolicyStates
<1> HIDE DEF q
<1>7. Sound(q)
  BY <1>4, <1>6 DEF Sound
<1>8. QED
  BY <1>3, <1>6, <1>7 DEF q

LEMMA WithoutDowns ==
  ASSUME NEW p, Sound(p)
  PROVE  Sound([p EXCEPT !.downs = {}])
<1> DEFINE q == [p EXCEPT !.downs = {}]
<1>1. {} \in SUBSET Dwells
  OBVIOUS
<1>2. q \in PolicyStates /\ q.downs = {}
  BY <1>1 DEF Sound, PolicyStates
<1> HIDE DEF q
<1>3. Sound(q)
  BY <1>2 DEF Sound
<1>4. QED
  BY <1>3 DEF q

LEMMA WorseIsSound ==
  ASSUME NEW p, Sound(p), NEW l \in Level, NEW r \in Readings
  PROVE  Sound(Worse(p, l, r))
<1> DEFINE q == [p EXCEPT !.downs = {}]
<1> DEFINE u == {[at |-> r.at, asked |-> FALSE]}
<1>1. Sound(q)
  BY WithoutDowns
<1>2. u \in SUBSET Upshifts
  BY DEF Readings, Upshifts
<1> HIDE DEF q, u
<1> DEFINE q1 == [q EXCEPT !.upshift = u]
<1>3. q1 \in PolicyStates /\ q1.downs = q.downs
  BY <1>1, <1>2 DEF Sound, PolicyStates
<1> HIDE DEF q1
<1>4. Sound(q1)
  BY <1>1, <1>3 DEF Sound
<1>5. Sound(Emit(q, l))
  BY <1>1, EmitIsSound
<1>6. Worse(p, l, r) \in {Emit(q, l), q1, q}
  BY DEF Worse, q, q1, u
<1>7. QED
  BY <1>1, <1>4, <1>5, <1>6

LEMMA CrossingsAreSound ==
  ASSUME NEW p, Sound(p), NEW l \in Level, NEW r \in Readings
  PROVE  /\ Crossings(p, l, r) \in SUBSET Dwells
         /\ \A d, e \in Crossings(p, l, r) : d.level = e.level => d = e
<1> DEFINE N == {n \in l .. p.level - 1 : \A d \in p.downs : d.level # n}
<1> DEFINE Dwell(k) == [level |-> k, rev |-> r.rev, at |-> r.at, asked |-> FALSE]
<1> DEFINE D == {d \in p.downs : d.level \in l .. p.level - 1}
<1>1. Levels \in Nat \ {0} /\ p.level \in 0 .. Levels /\ l \in 1 .. Levels
  BY SoundFields, PolicyAssumption DEF PolicyAssumption, Level
<1>2. \A k \in N : k \in Lower
  BY <1>1 DEF Lower
<1>3. r.rev \in Nat /\ r.at \in Nat
  BY DEF Readings
<1> HIDE DEF N
<1>4. \A k \in N : Dwell(k) \in Dwells /\ Dwell(k).level = k
  BY <1>2, <1>3 DEF Dwells
<1>5. Crossings(p, l, r) = D \cup {Dwell(k) : k \in N}
  BY DEF Crossings, N
<1>6. D \subseteq p.downs
  OBVIOUS
<1>7. \A k \in N : \A d \in p.downs : d.level # k
  BY DEF N
<1> HIDE DEF D, Dwell
<1>8. D \cup {Dwell(k) : k \in N} \in SUBSET Dwells
  BY <1>4, <1>6, SoundFields
<1>9. ASSUME NEW d \in D \cup {Dwell(k) : k \in N}, NEW e \in D \cup {Dwell(k) : k \in N},
             d.level = e.level
      PROVE  d = e
  <2>1. CASE d \in D /\ e \in D
    BY <1>6, <1>9, <2>1, SoundFields
  <2>2. CASE d \in {Dwell(k) : k \in N} /\ e \in {Dwell(k) : k \in N}
    BY <1>4, <1>9, <2>2
  <2>3. CASE d \in D /\ e \in {Dwell(k) : k \in N}
    BY <1>4, <1>6, <1>7, <1>9, <2>3
  <2>4. CASE d \in {Dwell(k) : k \in N} /\ e \in D
    BY <1>4, <1>6, <1>7, <1>9, <2>4
  <2>5. QED
    BY <2>1, <2>2, <2>3, <2>4
<1>10. QED
  BY <1>5, <1>8, <1>9

LEMMA NotWorseIsSound ==
  ASSUME NEW p, Sound(p), NEW l \in Level, NEW r \in Readings
  PROVE  Sound(NotWorse(p, l, r))
<1> DEFINE D == Crossings(p, l, r)
<1> DEFINE q == [p EXCEPT !.upshift = {}, !.downs = D]
<1>1. D \in SUBSET Dwells /\ \A d, e \in D : d.level = e.level => d = e
  BY CrossingsAreSound
<1>2. NotWorse(p, l, r) = IF Matured(D, r) # {} THEN Emit(q, Min(Matured(D, r))) ELSE q
  BY DEF NotWorse
<1> HIDE DEF D
<1>3. {} \in SUBSET Upshifts
  OBVIOUS
<1>4. q \in PolicyStates /\ q.downs = D
  BY <1>1, <1>3 DEF Sound, PolicyStates
<1> HIDE DEF q
<1>5. Sound(q)
  BY <1>1, <1>4 DEF Sound
<1>6. Matured(D, r) \subseteq Lower
  BY <1>1 DEF Matured, Dwells
<1>7. Lower \subseteq Nat /\ Lower \subseteq Level
  BY PolicyAssumption DEF PolicyAssumption, Lower, Level
<1>8. ASSUME Matured(D, r) # {}
      PROVE  Min(Matured(D, r)) \in Level
  BY <1>6, <1>7, <1>8, LeastExists
<1>9. QED
  BY <1>2, <1>5, <1>8, EmitIsSound

LEMMA HysteresisIsSound ==
  ASSUME NEW p, Sound(p), NEW l \in Level, NEW r \in Readings
  PROVE  Sound(Hysteresis(p, l, r))
BY WorseIsSound, NotWorseIsSound DEF Hysteresis

LEMMA AcceptIsSound ==
  ASSUME NEW p, Sound(p), NEW l \in Level, NEW r \in Readings
  PROVE  Sound(Accept(p, l, r))
<1>1. /\ Levels \in Nat \ {0} /\ p.level \in 0 .. Levels /\ p.failed \in 0 .. Levels
      /\ {} \in SUBSET Upshifts /\ {} \in SUBSET Dwells /\ 0 \in 0 .. Levels
  BY SoundFields, PolicyAssumption DEF PolicyAssumption
<1> DEFINE a == [p EXCEPT !.failed = 0]
<1> DEFINE b == [p EXCEPT !.upshift = {}, !.downs = {}, !.failed = 0]
<1>2. a \in PolicyStates /\ a.downs = p.downs /\ b \in PolicyStates /\ b.downs = {}
  BY <1>1 DEF Sound, PolicyStates
<1>3. \/ Accept(p, l, r) = Emit(p, l)
      \/ Accept(p, l, r) = Hysteresis(p, l, r)
      \/ p.failed \in 1 .. p.level - 1 /\ Accept(p, l, r) = Emit(p, p.failed)
      \/ Accept(p, l, r) = Hysteresis(a, l, r)
      \/ Accept(p, l, r) = b
  BY <1>1 DEF Accept
<1> HIDE DEF a, b
<1>4. Sound(a) /\ Sound(b)
  BY <1>2 DEF Sound
<1>5. p.failed \in 1 .. p.level - 1 => p.failed \in Level
  BY <1>1 DEF Level
<1>6. QED
  BY <1>3, <1>4, <1>5, EmitIsSound, HysteresisIsSound

(* A reading keeps the state sound, and a target that is on its way.       *)
LEMMA ObserveIsSound ==
  ASSUME NEW p, Sound(p), NEW r \in Readings
  PROVE  Sound(Observe(p, r)) /\ (p.pending # 0 => Observe(p, r).pending = p.pending)
<1> DEFINE q == [p EXCEPT !.revision = r.rev]
<1> DEFINE l == LevelFor(r.pm)
<1>1. r.pm \in Nat /\ r.rev \in Nat /\ {r} \in SUBSET Readings
  BY DEF Readings
<1>2. l \in Level
  BY <1>1, LevelIsLevel
<1>3. Observe(p, r) = IF r.rev <= p.revision THEN p
                      ELSE IF p.pending # 0 THEN Suppressed(q, l, r) ELSE Accept(q, l, r)
  BY DEF Observe
<1>4. q \in PolicyStates /\ q.downs = p.downs /\ q.pending = p.pending
  BY <1>1 DEF Sound, PolicyStates
<1> HIDE DEF q, l
<1>5. Sound(q)
  BY <1>4 DEF Sound
<1> DEFINE D == {d \in q.downs : l <= d.level}
<1> DEFINE s == [q EXCEPT !.deferred = {r}, !.downs = D]
<1>6. Suppressed(q, l, r) = s
  BY DEF Suppressed
<1>7. D \subseteq q.downs
  OBVIOUS
<1> HIDE DEF D
<1>8. D \in SUBSET Dwells /\ \A d, e \in D : d.level = e.level => d = e
  BY <1>5, <1>7, SoundFields
<1>9. s \in PolicyStates /\ s.downs = D /\ s.pending = q.pending
  BY <1>1, <1>5, <1>8 DEF Sound, PolicyStates
<1> HIDE DEF s
<1>10. Sound(s)
  BY <1>8, <1>9 DEF Sound
<1>11. Sound(Accept(q, l, r))
  BY <1>2, <1>5, AcceptIsSound
<1>12. QED
  BY <1>3, <1>4, <1>6, <1>9, <1>10, <1>11

LEMMA ConfirmIsSound ==
  ASSUME NEW p, Sound(p)
  PROVE  Sound(Confirm(p)) /\ Confirm(p).pending = 0
<1> DEFINE D == {d \in p.downs : d.level < p.pending}
<1> DEFINE q == [p EXCEPT !.level = p.pending, !.pending = 0, !.failed = 0, !.downs = D]
<1>1. Confirm(p) = q
  BY DEF Confirm
<1>2. D \subseteq p.downs
  OBVIOUS
<1> HIDE DEF D
<1>3. D \in SUBSET Dwells /\ (\A d, e \in D : d.level = e.level => d = e)
      /\ 0 \in 0 .. Levels /\ p.pending \in 0 .. Levels
  BY <1>2, SoundFields, PolicyAssumption DEF PolicyAssumption
<1>4. q \in PolicyStates /\ q.downs = D /\ q.pending = 0
  BY <1>3 DEF Sound, PolicyStates
<1> HIDE DEF q
<1>5. Sound(q)
  BY <1>3, <1>4 DEF Sound
<1>6. QED
  BY <1>1, <1>4, <1>5

LEMMA ReconcileIsSound ==
  ASSUME NEW p, Sound(p)
  PROVE  Sound(Reconcile(p))
<1> DEFINE q == [p EXCEPT !.deferred = {}]
<1>1. {} \in SUBSET Readings
  OBVIOUS
<1>2. q \in PolicyStates /\ q.downs = p.downs
  BY <1>1 DEF Sound, PolicyStates
<1> HIDE DEF q
<1>3. Sound(q)
  BY <1>2 DEF Sound
<1>4. ASSUME p.deferred # {}
      PROVE  Sound(Reconcile(p))
  <2> DEFINE r == CHOOSE x \in p.deferred : TRUE
  <2>1. r \in p.deferred
    BY <1>4
  <2>2. r \in Readings
    BY <2>1, SoundFields
  <2>3. r.pm \in Nat
    BY <2>2 DEF Readings
  <2>4. Reconcile(p) = Accept(q, LevelFor(r.pm), r)
    BY <1>4 DEF Reconcile, q
  <2> HIDE DEF r
  <2>5. LevelFor(r.pm) \in Level
    BY <2>3, LevelIsLevel
  <2>6. QED
    BY <1>3, <2>2, <2>4, <2>5, AcceptIsSound
<1>5. p.deferred = {} => Reconcile(p) = q
  BY DEF Reconcile, q
<1>6. QED
  BY <1>3, <1>4, <1>5

(* A failure takes the target away and moves no boundary.                  *)
LEMMA FailureIsSound ==
  ASSUME NEW p, Sound(p)
  PROVE  /\ Sound(MarkFailed(p)) /\ MarkFailed(p).pending = 0
         /\ Boundaries(MarkFailed(p)) = Boundaries(p)
<1> DEFINE q == [p EXCEPT !.pending = 0, !.deferred = {}, !.failed = p.pending]
<1>1. {} \in SUBSET Readings /\ 0 \in 0 .. Levels /\ p.pending \in 0 .. Levels
  BY SoundFields, PolicyAssumption DEF PolicyAssumption
<1>2. q \in PolicyStates /\ q.downs = p.downs /\ q.pending = 0 /\ q.upshift = p.upshift
  BY <1>1 DEF Sound, PolicyStates
<1>3. MarkFailed(p) = IF p.pending = 0 THEN p ELSE q
  BY DEF MarkFailed
<1> HIDE DEF q
<1>4. Sound(q) /\ Boundaries(q) = Boundaries(p)
  BY <1>2 DEF Sound, Boundaries
<1>5. QED
  BY <1>2, <1>3, <1>4

(* A boundary that is passed is marked, and nothing else changes.          *)
LEMMA BoundaryIsSound ==
  ASSUME NEW p, Sound(p), NEW t \in Nat
  PROVE  Sound(AtBoundary(p, t)) /\ AtBoundary(p, t).pending = p.pending
<1> DEFINE U(u) == [u EXCEPT !.asked = @ \/ t >= u.at + UpDelay]
<1> DEFINE V(d) == [d EXCEPT !.asked = @ \/ t >= d.at + DownDelay[d.level]]
<1> DEFINE us == {U(u) : u \in p.upshift}
<1> DEFINE D == {V(d) : d \in p.downs}
<1> DEFINE q == [p EXCEPT !.upshift = us, !.downs = D]
<1>1. AtBoundary(p, t) = q
  BY DEF AtBoundary
<1>2. \A u \in Upshifts : U(u) \in Upshifts
  BY DEF Upshifts
<1>3. \A d \in Dwells : V(d) \in Dwells /\ V(d).level = d.level
  BY DEF Dwells
<1> HIDE DEF U, V
<1>4. us \in SUBSET Upshifts /\ D \in SUBSET Dwells
  BY <1>2, <1>3, SoundFields
<1>5. \A d, e \in D : d.level = e.level => d = e
  BY <1>3, SoundFields
<1> HIDE DEF us, D
<1>6. q \in PolicyStates /\ q.downs = D /\ q.pending = p.pending
  BY <1>4 DEF Sound, PolicyStates
<1> HIDE DEF q
<1>7. Sound(q)
  BY <1>5, <1>6 DEF Sound
<1>8. QED
  BY <1>1, <1>6, <1>7

LEMMA BoundariesAreTimes ==
  ASSUME NEW p, Sound(p)
  PROVE  Boundaries(p) \subseteq Nat
<1>1. UpDelay \in Nat /\ DownDelay \in [Lower -> Nat]
  BY PolicyAssumption DEF PolicyAssumption
<1>2. \A u \in p.upshift : u.at + UpDelay \in Nat
  BY <1>1, SoundFields DEF Upshifts
<1>3. \A d \in p.downs : d.at + DownDelay[d.level] \in Nat
  <2> TAKE d \in p.downs
  <2>1. d \in Dwells
    BY SoundFields
  <2>2. d.at \in Nat /\ d.level \in Lower
    BY <2>1 DEF Dwells
  <2>3. QED
    BY <1>1, <2>2
<1>4. QED
  BY <1>2, <1>3 DEF Boundaries

-----------------------------------------------------------------------------
(* The queue.                                                              *)

(* A serial number that no completion carries is found.                    *)
LEMMA FreshIsNew ==
  ASSUME NEW k, queue \in Seq(Events)
  PROVE  Fresh(k) \in Nat \ {0} /\ \A e \in Completions(k) : e.serial # Fresh(k)
<1> DEFINE S == 1 .. Len(queue) + 1
<1> DEFINE T == 1 .. Len(queue)
<1> DEFINE Carries(i, n) == queue[i].type = "done" /\ queue[i].kind = k /\ queue[i].serial = n
<1> DEFINE f == [n \in S |-> CHOOSE i \in T : Carries(i, n)]
<1>1. Len(queue) \in Nat /\ DOMAIN queue = T
  BY LenProperties
<1>2. ASSUME \A n \in S : \E i \in T : Carries(i, n)
      PROVE  FALSE
  <2>1. \A n \in S : f[n] \in T /\ Carries(f[n], n)
    BY <1>2
  <2>2. f \in [S -> T]
    BY <2>1
  <2>3. IsFiniteSet(S) /\ IsFiniteSet(T) /\ Cardinality(T) < Cardinality(S)
    BY <1>1, FS_Interval
  <2> HIDE DEF f, S, T
  <2>4. \E x, y \in S : x # y /\ f[x] = f[y]
    BY <2>2, <2>3, FS_PigeonHole
  <2>5. QED
    BY <2>1, <2>4
<1>3. PICK n \in S : \A i \in T : ~Carries(i, n)
  BY <1>2
<1>4. \A e \in Completions(k) : e.serial # n
  BY <1>1, <1>3 DEF Completions
<1>5. Fresh(k) \in S /\ \A e \in Completions(k) : e.serial # Fresh(k)
  BY <1>3, <1>4 DEF Fresh
<1>6. QED
  BY <1>1, <1>5

(* A completion is an event of the queue.                                  *)
LEMMA CompletionIsEvent ==
  ASSUME queue \in Seq(Events), NEW k, NEW e \in Completions(k)
  PROVE  /\ e \in Events /\ e.type = "done" /\ e.kind = k
         /\ e.serial \in Nat /\ e.ok \in BOOLEAN /\ e.target \in 0 .. Levels
<1>1. PICK i \in DOMAIN queue : e = queue[i] /\ e.type = "done" /\ e.kind = k
  BY DEF Completions
<1>2. e \in Events
  BY <1>1, ElementOfSeq, LenProperties
<1>3. QED
  BY <1>1, <1>2 DEF Events

(* The head of the queue goes away.                                        *)
LEMMA TailCompletions ==
  ASSUME queue \in Seq(Events), queue # <<>>, queue' = Tail(queue)
  PROVE  /\ queue' \in Seq(Events) /\ Head(queue) \in Events
         /\ \A k \in Kinds :
              /\ Completions(k)' \subseteq Completions(k)
              /\ Completions(k) \subseteq Completions(k)' \cup {Head(queue)}
              /\ Head(queue).type # "done" => Completions(k)' = Completions(k)
         /\ Head(queue).type = "done" => Head(queue) \in Completions(Head(queue).kind)
<1>1. /\ queue' \in Seq(Events) /\ Head(queue) \in Events /\ Len(queue) \in Nat \ {0}
      /\ Len(queue') = Len(queue) - 1 /\ \A i \in 1 .. Len(queue') : queue'[i] = queue[i + 1]
      /\ Head(queue) = queue[1]
  BY HeadTailProperties, EmptySeq
<1>2. DOMAIN queue = 1 .. Len(queue) /\ DOMAIN queue' = 1 .. Len(queue')
  BY <1>1, LenProperties
<1>3. ASSUME NEW k \in Kinds
      PROVE  /\ Completions(k)' \subseteq Completions(k)
             /\ Completions(k) \subseteq Completions(k)' \cup {Head(queue)}
  <2>1. ASSUME NEW e \in Completions(k)'
        PROVE  e \in Completions(k)
    <3>1. PICK i \in DOMAIN queue' : e = queue'[i] /\ e.type = "done" /\ e.kind = k
      BY <2>1 DEF Completions
    <3>2. i + 1 \in DOMAIN queue /\ e = queue[i + 1]
      BY <1>1, <1>2, <3>1
    <3>3. QED
      BY <3>1, <3>2 DEF Completions
  <2>2. ASSUME NEW e \in Completions(k), e # Head(queue)
        PROVE  e \in Completions(k)'
    <3>1. PICK i \in DOMAIN queue : e = queue[i] /\ e.type = "done" /\ e.kind = k
      BY <2>2 DEF Completions
    <3>2. i - 1 \in DOMAIN queue' /\ e = queue'[i - 1]
      BY <1>1, <1>2, <2>2, <3>1
    <3>3. QED
      BY <3>1, <3>2 DEF Completions
  <2>3. QED
    BY <2>1, <2>2
<1>4. ASSUME NEW k \in Kinds, Head(queue).type # "done"
      PROVE  Head(queue) \notin Completions(k)
  BY <1>4 DEF Completions
<1>5. Head(queue).type = "done" => Head(queue) \in Completions(Head(queue).kind)
  BY <1>1, <1>2 DEF Completions
<1>6. ASSUME NEW k \in Kinds, Head(queue).type # "done"
      PROVE  Completions(k)' = Completions(k)
  BY <1>3, <1>4, <1>6
<1>7. QED
  BY <1>1, <1>3, <1>5, <1>6

(* The surroundings add no completion.                                     *)
LEMMA OtherEvents ==
  ASSUME queue \in Seq(Events), NEW s \in Seq(Events), queue' = queue \o s,
         \A i \in 1 .. Len(s) : s[i].type # "done"
  PROVE  queue' \in Seq(Events) /\ \A k \in Kinds : Completions(k)' = Completions(k)
<1>1. /\ Len(queue) \in Nat /\ Len(s) \in Nat
      /\ queue' \in Seq(Events) /\ Len(queue') = Len(queue) + Len(s)
      /\ \A i \in 1 .. Len(queue) + Len(s) :
           queue'[i] = IF i <= Len(queue) THEN queue[i] ELSE s[i - Len(queue)]
  BY ConcatProperties, LenProperties
<1>2. DOMAIN queue = 1 .. Len(queue) /\ DOMAIN queue' = 1 .. Len(queue')
  BY <1>1, LenProperties
<1>3. ASSUME NEW k \in Kinds, NEW e \in Completions(k)
      PROVE  e \in Completions(k)'
  <2>1. PICK i \in DOMAIN queue : e = queue[i] /\ e.type = "done" /\ e.kind = k
    BY <1>3 DEF Completions
  <2>2. i \in DOMAIN queue' /\ e = queue'[i]
    BY <1>1, <1>2, <2>1
  <2>3. QED
    BY <2>1, <2>2 DEF Completions
<1>4. ASSUME NEW k \in Kinds, NEW e \in Completions(k)'
      PROVE  e \in Completions(k)
  <2>1. PICK i \in DOMAIN queue' : e = queue'[i] /\ e.type = "done" /\ e.kind = k
    BY <1>4 DEF Completions
  <2>2. i \in DOMAIN queue /\ e = queue[i]
    BY <1>1, <1>2, <2>1
  <2>3. QED
    BY <2>1, <2>2 DEF Completions
<1>5. QED
  BY <1>1, <1>3, <1>4

LEMMA OneEvent ==
  ASSUME queue \in Seq(Events), NEW e \in Events, queue' = Append(queue, e), e.type # "done"
  PROVE  queue' \in Seq(Events) /\ \A k \in Kinds : Completions(k)' = Completions(k)
<1>1. <<e>> \in Seq(Events) /\ Len(<<e>>) = 1 /\ <<e>>[1] = e
  OBVIOUS
<1>2. queue' = queue \o <<e>>
  BY AppendIsConcat
<1>3. \A i \in 1 .. Len(<<e>>) : <<e>>[i].type # "done"
  BY <1>1
<1>4. QED
  BY <1>1, <1>2, <1>3, OtherEvents

(* A worker adds its own.                                                  *)
LEMMA NewCompletion ==
  ASSUME queue \in Seq(Events), NEW e \in Events, queue' = Append(queue, e), e.type = "done"
  PROVE  /\ queue' \in Seq(Events)
         /\ \A k \in Kinds :
              Completions(k)' = IF k = e.kind THEN Completions(k) \cup {e} ELSE Completions(k)
<1>1. /\ Len(queue) \in Nat /\ queue' \in Seq(Events) /\ Len(queue') = Len(queue) + 1
      /\ \A i \in 1 .. Len(queue) : queue'[i] = queue[i]
      /\ queue'[Len(queue) + 1] = e
  BY AppendProperties, LenProperties
<1>2. DOMAIN queue = 1 .. Len(queue) /\ DOMAIN queue' = 1 .. Len(queue')
  BY <1>1, LenProperties
<1>3. ASSUME NEW k \in Kinds, NEW c \in Completions(k)
      PROVE  c \in Completions(k)'
  <2>1. PICK i \in DOMAIN queue : c = queue[i] /\ c.type = "done" /\ c.kind = k
    BY <1>3 DEF Completions
  <2>2. i \in DOMAIN queue' /\ c = queue'[i]
    BY <1>1, <1>2, <2>1
  <2>3. QED
    BY <2>1, <2>2 DEF Completions
<1>4. ASSUME NEW k \in Kinds, NEW c \in Completions(k)'
      PROVE  c \in Completions(k) \/ (c = e /\ k = e.kind)
  <2>1. PICK i \in DOMAIN queue' : c = queue'[i] /\ c.type = "done" /\ c.kind = k
    BY <1>4 DEF Completions
  <2>2. CASE i = Len(queue) + 1
    BY <1>1, <2>1, <2>2
  <2>3. CASE i # Len(queue) + 1
    <3>1. i \in DOMAIN queue /\ c = queue[i]
      BY <1>1, <1>2, <2>1, <2>3
    <3>2. QED
      BY <2>1, <3>1 DEF Completions
  <2>4. QED
    BY <2>2, <2>3
<1>5. e \in Completions(e.kind)'
  <2>1. Len(queue) + 1 \in DOMAIN queue' /\ queue'[Len(queue) + 1] = e
    BY <1>1, <1>2
  <2>2. QED
    BY <2>1 DEF Completions
<1>6. QED
  BY <1>1, <1>3, <1>4, <1>5

-----------------------------------------------------------------------------
(* The invariant, in the parts that the steps below preserve.              *)

EnvTypes ==
  /\ now \in Nat /\ revision \in Nat /\ link \in [gen : Nat, phase : {"down", "starting", "ready"}]
  /\ power \in BOOLEAN /\ budget \in [readings : Nat, inputs : Nat]
ControlTypes ==
  /\ caller \in Calls \cup {"free", "off"}
  /\ actor \in {"idle", "releasing", "draining", "stopped"}
  /\ handling \in Calls \cup {"event", "none"}
FlagTypes ==
  /\ active \in BOOLEAN /\ available \in BOOLEAN /\ powered \in BOOLEAN
  /\ transition \in BOOLEAN /\ generation \in Nat
BarTypes == barrierRev \in Nat /\ barrierAt \in Nat /\ lastSeen \in Nat
EvidenceType == evidence \in Seq([pm : PMs, at : Nat, repeats : BOOLEAN])

Work ==
  /\ Sound(policy) /\ worker \in [Kinds -> Nat] /\ task \in [Kinds -> SUBSET Tasks]
  /\ \A k \in Kinds : \A t, u \in task[k] : t = u
Parts == Work /\ SerialInv /\ WorkerInv /\ CommandInv /\ AlarmInv

LEMMA ControllerParts ==
  /\ ControllerInv <=> /\ EnvTypes /\ ControlTypes /\ FlagTypes /\ BarTypes /\ EvidenceType
                       /\ queue \in Seq(Events) /\ Parts
  /\ ControllerInv' <=> /\ EnvTypes' /\ ControlTypes' /\ FlagTypes' /\ BarTypes' /\ EvidenceType'
                        /\ queue' \in Seq(Events) /\ Parts'
BY DEF ControllerInv, TypeOK, EnvTypes, ControlTypes, FlagTypes, BarTypes, EvidenceType, Work,
       Parts, Sound

(* What is not the actor's or a worker's step leaves the parts alone.      *)
LEMMA NothingHappens ==
  ASSUME Parts, UNCHANGED <<actor, active, available, powered, transition, policy, worker, task>>,
         \A k \in Kinds : Completions(k)' = Completions(k)
  PROVE  Parts'
<1>1. "command" \in Kinds
  BY DEF Kinds
<1>2. Work'
  BY DEF Parts, Work
<1>3. SerialInv'
  BY DEF Parts, SerialInv
<1>4. NoStrayWorker' /\ QuietUnlessUsable'
  BY DEF Parts, WorkerInv, NoStrayWorker, QuietUnlessUsable, Resting, Usable
<1>5. \A k \in {"timer", "command"} : Outstanding(k) <=> Outstanding(k)'
  BY DEF Outstanding, Kinds
<1>6. WorkerInv'
  BY <1>4, <1>5 DEF Parts, WorkerInv, Resting, Usable
<1>7. CommandInv'
  BY <1>1 DEF Parts, CommandInv
<1>8. AlarmInv'
  BY DEF Parts, AlarmInv
<1>9. QED
  BY <1>2, <1>3, <1>6, <1>7, <1>8 DEF Parts

(* The sets of Running are single, uncancelled tasks.                      *)
LEMMA RunningIsTask ==
  ASSUME NEW k, NEW tgt \in 0 .. Levels, NEW w \in Nat, queue \in Seq(Events)
  PROVE  /\ Running(k, tgt, w) \in SUBSET Tasks /\ \A t, u \in Running(k, tgt, w) : t = u
         /\ \A t \in Running(k, tgt, w) :
              t.serial = Fresh(k) /\ t.target = tgt /\ t.wake = w /\ ~t.cancelled
<1>1. Fresh(k) \in Nat
  BY FreshIsNew
<1> DEFINE t == [serial |-> Fresh(k), target |-> tgt, wake |-> w, cancelled |-> FALSE]
<1>2. t \in Tasks /\ t.serial = Fresh(k) /\ t.target = tgt /\ t.wake = w /\ ~t.cancelled
  BY <1>1 DEF Tasks
<1>3. Running(k, tgt, w) = {t}
  BY DEF Running
<1> HIDE DEF t
<1>4. QED
  BY <1>2, <1>3

(* The end of an invalidation: whatever there was, a new beginning.        *)
LEMMA SettleKeeps ==
  ASSUME queue \in Seq(Events), SerialInv, ControlTypes, NEW h \in Calls \cup {"event", "none"},
         \A k \in Kinds : Completions(k)' \subseteq Completions(k), Settle(h)
  PROVE  Parts' /\ ControlTypes' /\ evidence' = <<>>
<1> DEFINE W(k) == IF k = "sample" /\ Usable' THEN Fresh(k) ELSE 0
<1> DEFINE R(k) == IF k = "sample" /\ Usable' THEN Running(k, 0, 0) ELSE {}
<1>1. /\ policy' = InitialPolicy /\ evidence' = <<>> /\ Return(h)
      /\ worker' = [k \in Kinds |-> W(k)] /\ task' = [k \in Kinds |-> R(k)]
  BY DEF Settle
<1>2. "sample" \in Kinds /\ "timer" \in Kinds /\ "command" \in Kinds /\ 0 \in 0 .. Levels /\ 0 \in Nat
  BY PolicyAssumption DEF Kinds, PolicyAssumption
<1>3. ControlTypes' /\ actor' \in {"idle", "stopped"}
  BY <1>1 DEF Return, ControlTypes, Calls
<1>4. \A k \in Kinds : /\ worker'[k] = W(k) /\ task'[k] = R(k) /\ W(k) \in Nat
                       /\ R(k) \in SUBSET Tasks /\ \A t, u \in R(k) : t = u
                       /\ \A t \in R(k) : t.serial = W(k) /\ ~t.cancelled /\ W(k) = Fresh(k)
  BY <1>1, <1>2, FreshIsNew, RunningIsTask
<1>5. /\ W("timer") = 0 /\ R("timer") = {} /\ W("command") = 0 /\ R("command") = {}
      /\ ~Usable' => W("sample") = 0 /\ R("sample") = {}
  OBVIOUS
<1>6. worker' \in [Kinds -> Nat] /\ task' \in [Kinds -> SUBSET Tasks]
  BY <1>1, <1>4
<1> HIDE DEF W, R
<1>7. Work'
  BY <1>1, <1>4, <1>6, InitialIsSound DEF Work
<1>8. SerialInv'
  BY <1>4, FreshIsNew DEF SerialInv
<1>9. \A k \in Kinds : ~Usable' => W(k) = 0 /\ R(k) = {}
  BY <1>5 DEF Kinds
<1>10. NoStrayWorker' /\ QuietUnlessUsable'
  BY <1>1, <1>4, <1>9 DEF NoStrayWorker, QuietUnlessUsable
<1>11. WorkerInv'
  BY <1>2, <1>3, <1>4, <1>5, <1>9, <1>10 DEF WorkerInv
<1>12. policy'.pending = 0 /\ Boundaries(policy') = {}
  BY <1>1, InitialIsSound DEF InitialPolicy
<1>13. CommandInv'
  BY <1>2, <1>4, <1>5, <1>12 DEF CommandInv, SerialInv
<1>14. AlarmInv'
  BY <1>2, <1>4, <1>5, <1>12 DEF AlarmInv
<1>15. QED
  BY <1>1, <1>3, <1>7, <1>8, <1>11, <1>13, <1>14 DEF Parts

(* Cancelling keeps a task's type and number, but no registration.         *)
LEMMA CancelledTasks ==
  ASSUME NEW T \in SUBSET Tasks, \A t, u \in T : t = u
  PROVE  /\ Cancelled(T) \in SUBSET Tasks /\ \A t, u \in Cancelled(T) : t = u
         /\ \A t \in Cancelled(T) : t.cancelled /\ \E u \in T : t.serial = u.serial
         /\ T = {} => Cancelled(T) = {}
<1> DEFINE C(t) == [t EXCEPT !.cancelled = TRUE]
<1>1. \A t \in T : C(t) \in Tasks /\ C(t).cancelled /\ C(t).serial = t.serial
  BY DEF Tasks
<1>2. Cancelled(T) = {C(t) : t \in T}
  BY DEF Cancelled
<1> HIDE DEF C
<1>3. QED
  BY <1>1, <1>2

(* The middle of an invalidation: the workers are cancelled and awaited.   *)
LEMMA CancelKeeps ==
  ASSUME queue \in Seq(Events), Work, SerialInv, ControlTypes, EvidenceType,
         NEW h \in Calls \cup {"event", "none"},
         \A k \in Kinds : Completions(k)' \subseteq Completions(k), CancelRest(h)
  PROVE  Parts' /\ ControlTypes' /\ EvidenceType'
<1>1. CASE task["sample"] \cup task["command"] = {}
  <2>1. Settle(h)
    BY <1>1 DEF CancelRest
  <2>2. QED
    BY <2>1, SettleKeeps, EmptySeq DEF EvidenceType
<1>2. CASE task["sample"] \cup task["command"] # {}
  <2> DEFINE C(k) == IF k = "timer" THEN {} ELSE Cancelled(task[k])
  <2>1. /\ actor' = "draining" /\ handling' = h /\ UNCHANGED <<policy, evidence, caller>>
        /\ worker' = [k \in Kinds |-> 0] /\ task' = [k \in Kinds |-> C(k)]
    BY <1>2 DEF CancelRest
  <2>2. \A k \in Kinds : task[k] \in SUBSET Tasks /\ \A t, u \in task[k] : t = u
    BY DEF Work
  <2>3. \A k \in Kinds : /\ worker'[k] = 0 /\ task'[k] = C(k) /\ C(k) \in SUBSET Tasks
                         /\ \A t, u \in C(k) : t = u
                         /\ \A t \in C(k) : t.cancelled /\ \E u \in task[k] : t.serial = u.serial
    BY <2>1, <2>2, CancelledTasks
  <2>4. C("timer") = {}
    OBVIOUS
  <2>5. worker' \in [Kinds -> Nat] /\ task' \in [Kinds -> SUBSET Tasks]
    BY <2>1, <2>3
  <2> HIDE DEF C
  <2>6. "sample" \in Kinds /\ "timer" \in Kinds /\ "command" \in Kinds
    BY DEF Kinds
  <2>7. Work'
    BY <2>1, <2>3, <2>5 DEF Work
  <2>8. SerialInv'
    BY <2>3 DEF SerialInv
  <2>9. WorkerInv'
    BY <2>1, <2>3, <2>4, <2>6 DEF WorkerInv, NoStrayWorker, QuietUnlessUsable, Resting, Kinds
  <2>10. CommandInv'
    BY <2>1, <2>3, <2>6 DEF CommandInv, SerialInv
  <2>11. AlarmInv'
    BY <2>1, <2>3, <2>4, <2>6 DEF AlarmInv
  <2>12. ControlTypes' /\ EvidenceType'
    BY <2>1 DEF ControlTypes, EvidenceType
  <2>13. QED
    BY <2>7, <2>8, <2>9, <2>10, <2>11, <2>12 DEF Parts
<1>3. QED
  BY <1>1, <1>2

(* The beginning: the sample is waited for first.                          *)
LEMMA InvalidateKeeps ==
  ASSUME queue \in Seq(Events), Parts, ControlTypes, EvidenceType, BarTypes, actor = "idle",
         NEW h \in Calls \cup {"event", "none"}, NEW at \in Nat, lastSeen' \in Nat,
         \A k \in Kinds : Completions(k)' = Completions(k), Invalidate(h, at)
  PROVE  Parts' /\ ControlTypes' /\ EvidenceType' /\ BarTypes'
<1>1. \A S : S = {barrierAt, at} => Max(S) \in Nat
  <2> SUFFICES Max({barrierAt, at}) \in {barrierAt, at}
    BY DEF BarTypes
  <2>1. \E x \in {barrierAt, at} : \A y \in {barrierAt, at} : x >= y
    BY DEF BarTypes
  <2>2. QED
    BY <2>1 DEF Max
<1>2. BarTypes'
  BY <1>1 DEF Invalidate, BarTypes
<1>3. CASE worker["sample"] # 0
  <2>1. /\ actor' = "releasing" /\ handling' = h /\ UNCHANGED <<policy, task, evidence, caller>>
        /\ worker' = [worker EXCEPT !["sample"] = 0]
    BY <1>3 DEF Invalidate
  <2>2. "sample" \in Kinds /\ "timer" \in Kinds /\ "command" \in Kinds
    BY DEF Kinds
  <2>3. /\ worker' \in [Kinds -> Nat] /\ worker'["sample"] = 0
        /\ \A k \in Kinds : k # "sample" => worker'[k] = worker[k]
    BY <2>1, <2>2 DEF Parts, Work
  <2>4. Work'
    BY <2>1, <2>3 DEF Parts, Work
  <2>5. SerialInv'
    BY <2>1 DEF Parts, SerialInv
  <2>6. NoStrayWorker'
    BY <2>1, <2>3 DEF Parts, WorkerInv, NoStrayWorker
  <2>7. \A k \in {"timer", "command"} : worker'[k] # 0 => Outstanding(k)'
    BY <2>1, <2>2, <2>3 DEF Parts, WorkerInv, Outstanding
  <2>8. WorkerInv'
    BY <2>1, <2>2, <2>3, <2>6, <2>7 DEF Parts, WorkerInv, QuietUnlessUsable, Resting
  <2>9. CommandInv'
    BY <2>1, <2>2, <2>3 DEF Parts, CommandInv
  <2>10. AlarmInv'
    BY <2>1, <2>2, <2>3 DEF Parts, AlarmInv
  <2>11. ControlTypes' /\ EvidenceType'
    BY <2>1 DEF ControlTypes, EvidenceType
  <2>12. QED
    BY <1>2, <2>4, <2>5, <2>8, <2>9, <2>10, <2>11 DEF Parts
<1>4. CASE worker["sample"] = 0
  <2>1. CancelRest(h)
    BY <1>4 DEF Invalidate
  <2>2. QED
    BY <1>2, <2>1, CancelKeeps DEF Parts
<1>5. QED
  BY <1>3, <1>4

-----------------------------------------------------------------------------
(* The result of a policy transition is applied.                           *)

LEMMA ApplyKeeps ==
  ASSUME queue \in Seq(Events), Parts, ControlTypes, actor = "idle", Usable,
         UNCHANGED <<actor, active, available, powered, transition>>,
         NEW q, Sound(q), NEW w \in [Kinds -> Nat], NEW emitted \in BOOLEAN, NEW asks \in BOOLEAN,
         \A k \in Kinds : Completions(k)' \subseteq Completions(k),
         w["sample"] = worker["sample"],
         w["command"] = 0 => task["command"] = {} /\ (emitted <=> q.pending # 0),
         w["command"] # 0 => /\ w["command"] = worker["command"]
                             /\ q.pending = policy.pending
                             /\ Completions("command")' = Completions("command"),
         Apply(q, w, emitted, asks)
  PROVE  Parts'
<1> DEFINE sends == emitted /\ w["command"] = 0
<1> DEFINE samples == asks /\ task["sample"] = {}
<1> DEFINE waits == Boundaries(q) # {}
<1>1. "sample" \in Kinds /\ "timer" \in Kinds /\ "command" \in Kinds /\ ~transition
  BY DEF Kinds, Usable
<1>2. /\ policy' = q
      /\ worker' = [w EXCEPT !["command"] = IF sends THEN Fresh("command") ELSE @,
                             !["sample"] = IF samples THEN Fresh("sample") ELSE @,
                             !["timer"] = IF waits THEN Fresh("timer") ELSE 0]
      /\ task' = [task EXCEPT
           !["command"] = IF sends THEN Running("command", q.pending, 0) ELSE @,
           !["sample"] = IF samples THEN Running("sample", 0, 0) ELSE @,
           !["timer"] = IF waits THEN Running("timer", 0, Min(Boundaries(q))) ELSE {}]
  BY <1>1 DEF Apply
<1> DEFINE WC == IF sends THEN Fresh("command") ELSE w["command"]
<1> DEFINE WS == IF samples THEN Fresh("sample") ELSE w["sample"]
<1> DEFINE WT == IF waits THEN Fresh("timer") ELSE 0
<1> DEFINE TC == IF sends THEN Running("command", q.pending, 0) ELSE task["command"]
<1> DEFINE TS == IF samples THEN Running("sample", 0, 0) ELSE task["sample"]
<1> DEFINE TT == IF waits THEN Running("timer", 0, Min(Boundaries(q))) ELSE {}
<1>3. /\ worker'["command"] = WC /\ worker'["sample"] = WS /\ worker'["timer"] = WT
      /\ task'["command"] = TC /\ task'["sample"] = TS /\ task'["timer"] = TT
      /\ DOMAIN worker' = Kinds /\ DOMAIN task' = Kinds
      /\ worker' = [k \in Kinds |-> worker'[k]] /\ task' = [k \in Kinds |-> task'[k]]
  BY <1>1, <1>2 DEF Parts, Work
<1>4. /\ 0 \in 0 .. Levels /\ 0 \in Nat /\ q.pending \in 0 .. Levels
      /\ waits => /\ Min(Boundaries(q)) \in Nat
                  /\ \A b \in Boundaries(q) : Min(Boundaries(q)) <= b
  BY PolicyAssumption, SoundFields, BoundariesAreTimes, LeastExists DEF PolicyAssumption
<1>5. \A k \in Kinds : /\ task[k] \in SUBSET Tasks /\ \A t, u \in task[k] : t = u
                       /\ Fresh(k) \in Nat \ {0} /\ worker[k] \in Nat /\ w[k] \in Nat
  BY FreshIsNew DEF Parts, Work
<1>6. TC \in SUBSET Tasks /\ \A t, u \in TC : t = u
  BY <1>1, <1>4, <1>5, RunningIsTask
<1>7. TS \in SUBSET Tasks /\ \A t, u \in TS : t = u
  BY <1>1, <1>4, <1>5, RunningIsTask
<1>8. TT \in SUBSET Tasks /\ \A t, u \in TT : t = u
  BY <1>1, <1>4, <1>5, RunningIsTask
<1>9. WC \in Nat /\ WS \in Nat /\ WT \in Nat
  BY <1>1, <1>5
(* What runs and is registered for each kind.                              *)
<1>10. \A t \in TC : ~t.cancelled /\ t.serial = WC /\ t.target = q.pending /\ t.serial # 0
  <2>1. \A t \in task["command"] :
          ~t.cancelled /\ t.serial = worker["command"] /\ t.target = policy.pending /\ t.serial # 0
    BY <1>1 DEF Parts, WorkerInv, NoStrayWorker, CommandInv, SerialInv
  <2>2. QED
    BY <1>4, <1>5, <1>1, <2>1, RunningIsTask
<1>11. \A t \in TS : ~t.cancelled /\ t.serial = WS /\ t.serial # 0
  <2>1. \A t \in task["sample"] : ~t.cancelled /\ t.serial = worker["sample"] /\ t.serial # 0
    BY <1>1 DEF Parts, WorkerInv, NoStrayWorker, SerialInv
  <2>2. QED
    BY <1>4, <1>5, <1>1, <2>1, RunningIsTask
<1>12. /\ \A t \in TT : /\ ~t.cancelled /\ t.serial = WT /\ t.serial # 0 /\ waits
                        /\ t.wake = Min(Boundaries(q))
       /\ waits => TT # {} /\ WT # 0
  <2> DEFINE m == Min(Boundaries(q))
  <2>1. CASE waits
    <3>1. m \in Nat
      BY <1>4, <2>1
    <3> HIDE DEF m
    <3>2. \A t \in Running("timer", 0, m) : t.serial = Fresh("timer") /\ t.wake = m /\ ~t.cancelled
      BY <1>4, <3>1, RunningIsTask
    <3>3. Running("timer", 0, m) # {}
      BY DEF Running
    <3>4. QED
      BY <1>1, <1>5, <2>1, <3>2, <3>3 DEF m
  <2>2. CASE ~waits
    BY <2>2
  <2>3. QED
    BY <2>1, <2>2
<1>13. sends => TC # {} /\ WC # 0 /\ q.pending # 0
  <2>1. Running("command", q.pending, 0) # {}
    BY DEF Running
  <2>2. sends => TC # {}
    BY <2>1
  <2>3. sends => WC # 0 /\ q.pending # 0
    BY <1>1, <1>5
  <2>4. QED
    BY <2>2, <2>3
<1>14. ~sends => WC = w["command"] /\ TC = task["command"]
  OBVIOUS
<1>15. WC = Fresh("command") \/ ~sends
  OBVIOUS
<1>16. waits <=> Boundaries(q) # {}
  OBVIOUS
<1>17. WT # 0 => waits
  OBVIOUS
<1>18. sends <=> emitted /\ w["command"] = 0
  OBVIOUS
<1>19. \A k \in Kinds :
         \/ task'[k] \subseteq task[k]
         \/ \A t \in task'[k] : t.serial = Fresh(k)
  <2>1. sends => \A t \in TC : t.serial = Fresh("command")
    BY <1>4, RunningIsTask
  <2>2. samples => \A t \in TS : t.serial = Fresh("sample")
    BY <1>4, RunningIsTask
  <2>3. \A t \in TT : t.serial = Fresh("timer")
    BY <1>12
  <2>4. ~sends => TC = task["command"]
    OBVIOUS
  <2>5. ~samples => TS = task["sample"]
    OBVIOUS
  <2> HIDE DEF WC, WS, WT, TC, TS, TT, sends, samples, waits
  <2>6. QED
    BY <1>3, <2>1, <2>2, <2>3, <2>4, <2>5 DEF Kinds
<1> HIDE DEF WC, WS, WT, TC, TS, TT, sends, samples, waits
<1>20. Work'
  <2>1. \A k \in Kinds : /\ worker'[k] \in Nat /\ task'[k] \in SUBSET Tasks
                         /\ \A t, u \in task'[k] : t = u
    BY <1>3, <1>6, <1>7, <1>8, <1>9 DEF Kinds
  <2>2. worker' \in [Kinds -> Nat] /\ task' \in [Kinds -> SUBSET Tasks]
    BY <1>3, <2>1
  <2>3. QED
    BY <1>2, <2>1, <2>2 DEF Work
<1>21. SerialInv'
  <2>1. \A k \in Kinds : \A t \in task'[k] : t.serial # 0
    BY <1>3, <1>10, <1>11, <1>12 DEF Kinds
  <2>2. \A k \in Kinds : \A e \in Completions(k)' :
          e.serial # 0 /\ \A t \in task'[k] : t.cancelled \/ t.serial # e.serial
    BY <1>19, FreshIsNew DEF Parts, SerialInv
  <2>3. QED
    BY <2>1, <2>2 DEF SerialInv
<1>22. NoStrayWorker'
  <2>1. \A k \in Kinds : \A t \in task'[k] : ~t.cancelled /\ t.serial = worker'[k]
    BY <1>3, <1>10, <1>11, <1>12 DEF Kinds
  <2>2. QED
    BY <2>1 DEF NoStrayWorker
<1>23. Usable' /\ actor' = "idle"
  BY DEF Usable
<1>24. worker'["command"] # 0 => Outstanding("command")'
  <2>1. CASE sends
    <3>1. \E t \in task'["command"] : t.serial = worker'["command"] /\ ~t.cancelled
      BY <1>3, <1>10, <1>13, <2>1
    <3>2. QED
      BY <3>1 DEF Outstanding
  <2>2. CASE ~sends /\ w["command"] # 0
    <3>1. worker'["command"] = worker["command"] /\ task'["command"] = task["command"]
      BY <1>3, <1>14, <2>2
    <3>2. Outstanding("command")
      BY <2>2 DEF Parts, WorkerInv
    <3>3. QED
      BY <2>2, <3>1, <3>2 DEF Outstanding
  <2>3. CASE ~sends /\ w["command"] = 0
    BY <1>3, <1>14, <2>3
  <2>4. QED
    BY <2>1, <2>2, <2>3
<1>25. worker'["timer"] # 0 => Outstanding("timer")'
  <2>1. worker'["timer"] # 0 =>
          \E t \in task'["timer"] : t.serial = worker'["timer"] /\ ~t.cancelled
    BY <1>3, <1>12, <1>17
  <2>2. QED
    BY <2>1 DEF Outstanding
<1>26. WorkerInv'
  BY <1>3, <1>12, <1>22, <1>23, <1>24, <1>25 DEF WorkerInv, QuietUnlessUsable
<1>27. CommandInv'
  <2>1. worker'["command"] # 0 => q.pending # 0
    BY <1>3, <1>13, <1>14 DEF Parts, CommandInv
  <2>2. q.pending # 0 => worker'["command"] # 0
    BY <1>3, <1>13, <1>14, <1>18
  <2>3. ASSUME NEW e \in Completions("command")', e.serial = worker'["command"]
        PROVE  e.target = q.pending
    <3>1. e.serial # 0 /\ e.serial # Fresh("command") /\ e \in Completions("command")
      BY <1>1, <2>3, FreshIsNew DEF Parts, SerialInv
    <3>2. w["command"] # 0 /\ e.serial = worker["command"]
      BY <1>3, <1>14, <1>15, <2>3, <3>1
    <3>3. QED
      BY <3>1, <3>2 DEF Parts, CommandInv
  <2>4. QED
    BY <1>2, <1>3, <1>10, <2>1, <2>2, <2>3 DEF CommandInv
<1>28. AlarmInv'
  BY <1>2, <1>3, <1>4, <1>12, <1>16 DEF AlarmInv
<1>29. QED
  BY <1>20, <1>21, <1>26, <1>27, <1>28 DEF Parts

-----------------------------------------------------------------------------
(* The surroundings only add events that are not completions.              *)

LEMMA EventTypes ==
  /\ \A c \in Calls, on \in BOOLEAN : [type |-> "control", call |-> c, on |-> on] \in Events
  /\ \A up \in BOOLEAN, gen, at \in Nat :
       [type |-> "connection", up |-> up, gen |-> gen, at |-> at] \in Events
  /\ \A on \in BOOLEAN : [type |-> "power", on |-> on] \in Events
  /\ \A auto \in BOOLEAN, gen \in Nat : [type |-> "fan", auto |-> auto, gen |-> gen] \in Events
  /\ \A pm \in PMs \cup {NoPM}, rev, at, gen \in Nat :
       [type |-> "air", pm |-> pm, rev |-> rev, at |-> at, gen |-> gen] \in Events
  /\ \A k \in Kinds, s \in Nat, ok \in BOOLEAN, tgt \in 0 .. Levels :
       [type |-> "done", kind |-> k, serial |-> s, ok |-> ok, target |-> tgt] \in Events
BY DEF Events

LEMMA AroundKeeps ==
  ASSUME ControllerInv, UNCHANGED <<actor, handling, flagVars, barVars, workVars>>,
         EnvTypes', caller' \in Calls \cup {"free", "off"}, queue' \in Seq(Events),
         \A k \in Kinds : Completions(k)' = Completions(k)
  PROVE  ControllerInv'
<1>1. Parts'
  BY NothingHappens, ControllerParts DEF flagVars, workVars
<1>2. ControlTypes' /\ FlagTypes' /\ BarTypes' /\ EvidenceType'
  BY ControllerParts
     DEF ControlTypes, FlagTypes, BarTypes, EvidenceType, flagVars, barVars, workVars
<1>3. QED
  BY <1>1, <1>2, ControllerParts

LEMMA SameQueue ==
  ASSUME ControllerInv, UNCHANGED queue
  PROVE  queue' \in Seq(Events) /\ \A k \in Kinds : Completions(k)' = Completions(k)
BY ControllerParts DEF Completions

LEMMA SpendKeeps ==
  ASSUME EnvTypes, NEW what \in {"readings", "inputs"}, Spend(what)
  PROVE  budget' \in [readings : Nat, inputs : Nat]
BY DEF EnvTypes, Spend

LEMMA ClientKeeps == ControllerInv /\ ClientStep => ControllerInv'
<1> SUFFICES ASSUME ControllerInv, ClientStep PROVE ControllerInv'
  OBVIOUS
<1> USE DEF EnvTypes
<1>1. EnvTypes /\ caller \in Calls \cup {"free", "off"} /\ queue \in Seq(Events) /\ generation \in Nat
  BY ControllerParts DEF ControlTypes, FlagTypes
<1>2. now \in Nat /\ link.gen \in Nat /\ link.gen + 1 \in Nat /\ revision + 1 \in Nat /\ now + 1 \in Nat
  BY <1>1
<1>3. CASE Tick
  <2>1. UNCHANGED <<actor, handling, flagVars, barVars, workVars, caller, queue>> /\ EnvTypes'
    BY <1>1, <1>2, <1>3 DEF Tick
  <2>2. QED
    BY <1>1, <2>1, SameQueue, AroundKeeps
<1>4. CASE LinkDrops
  <2>1. UNCHANGED <<actor, handling, flagVars, barVars, workVars, caller>> /\ EnvTypes'
    BY <1>1, <1>2, <1>4, SpendKeeps DEF LinkDrops
  <2> DEFINE e == ConnectionEvent(FALSE, link.gen)
  <2>2. e \in Events /\ e.type # "done" /\ queue' = Append(queue, e)
    BY <1>2, <1>4, EventTypes DEF LinkDrops, ConnectionEvent
  <2> HIDE DEF e
  <2>3. QED
    BY <1>1, <2>1, <2>2, OneEvent, AroundKeeps
<1>5. CASE LinkConnects
  <2>1. UNCHANGED <<actor, handling, flagVars, barVars, workVars, caller, queue>> /\ EnvTypes'
    BY <1>1, <1>2, <1>5 DEF LinkConnects
  <2>2. QED
    BY <1>1, <2>1, SameQueue, AroundKeeps
<1>6. CASE LinkReady
  <2>1. UNCHANGED <<actor, handling, flagVars, barVars, workVars, caller>> /\ EnvTypes'
    BY <1>1, <1>2, <1>6 DEF LinkReady
  <2> DEFINE e == ConnectionEvent(TRUE, link.gen)
  <2>2. e \in Events /\ e.type # "done" /\ queue' = Append(queue, e)
    BY <1>2, <1>6, EventTypes DEF LinkReady, ConnectionEvent
  <2> HIDE DEF e
  <2>3. QED
    BY <1>1, <2>1, <2>2, OneEvent, AroundKeeps
<1>7. CASE PowerReported
  <2>1. UNCHANGED <<actor, handling, flagVars, barVars, workVars, caller>> /\ EnvTypes'
    BY <1>1, <1>2, <1>7, SpendKeeps DEF PowerReported
  <2> DEFINE e == [type |-> "power", on |-> ~power]
  <2>2. e \in Events /\ e.type # "done" /\ queue' = Append(queue, e)
    BY <1>1, <1>7, EventTypes DEF PowerReported
  <2> HIDE DEF e
  <2>3. QED
    BY <1>1, <2>1, <2>2, OneEvent, AroundKeeps
<1>8. ASSUME NEW auto \in BOOLEAN, ButtonPressed(auto) PROVE ControllerInv'
  <2>1. UNCHANGED <<actor, handling, flagVars, barVars, workVars, caller>> /\ EnvTypes'
    BY <1>1, <1>2, <1>8, SpendKeeps DEF ButtonPressed
  <2> DEFINE e == [type |-> "fan", auto |-> auto, gen |-> link.gen]
  <2>2. e \in Events /\ e.type # "done" /\ queue' = Append(queue, e)
    BY <1>2, <1>8, EventTypes DEF ButtonPressed
  <2> HIDE DEF e
  <2>3. QED
    BY <1>1, <2>1, <2>2, OneEvent, AroundKeeps
<1>9. ASSUME NEW pm \in PMs \cup {NoPM}, Receive(pm) PROVE ControllerInv'
  <2>1. UNCHANGED <<actor, handling, flagVars, barVars, workVars, caller>> /\ EnvTypes'
    BY <1>1, <1>2, <1>9, SpendKeeps DEF Receive
  <2> DEFINE air == [type |-> "air", pm |-> pm, rev |-> revision + 1, at |-> now, gen |-> link.gen]
  <2> DEFINE c == ConnectionEvent(FALSE, link.gen)
  <2>2. air \in Events /\ air.type # "done" /\ c \in Events /\ c.type # "done"
    BY <1>2, EventTypes DEF ConnectionEvent
  <2>3. queue' = queue \o <<c, air>> \/ queue' = queue \o <<air>>
    BY <1>9 DEF Receive
  <2> HIDE DEF c, air
  <2>4. /\ <<c, air>> \in Seq(Events) /\ <<air>> \in Seq(Events)
        /\ \A i \in 1 .. Len(<<c, air>>) : <<c, air>>[i].type # "done"
        /\ \A i \in 1 .. Len(<<air>>) : <<air>>[i].type # "done"
    BY <2>2
  <2>5. QED
    BY <1>1, <2>1, <2>3, <2>4, OtherEvents, AroundKeeps
<1>10. QED
  BY <1>3, <1>4, <1>5, <1>6, <1>7, <1>8, <1>9 DEF ClientStep

LEMMA CallerKeeps == ControllerInv /\ CallerStep => ControllerInv'
<1> SUFFICES ASSUME ControllerInv, CallerStep PROVE ControllerInv'
  OBVIOUS
<1> USE DEF EnvTypes
<1>1. EnvTypes /\ caller \in Calls \cup {"free", "off"} /\ queue \in Seq(Events)
  BY ControllerParts DEF ControlTypes
<1>2. ASSUME NEW call \in Calls, Call(call) PROVE ControllerInv'
  <2>1. UNCHANGED <<actor, handling, flagVars, barVars, workVars>> /\ EnvTypes' /\ caller' = call
    BY <1>1, <1>2, SpendKeeps DEF Call
  <2> DEFINE e == [type |-> "control", call |-> call, on |-> FALSE]
  <2>2. e \in Events /\ e.type # "done" /\ queue' = Append(queue, e)
    BY <1>2, EventTypes DEF Call
  <2> HIDE DEF e
  <2>3. QED
    BY <1>1, <2>1, <2>2, OneEvent, AroundKeeps
<1>3. ASSUME NEW confirmed \in BOOLEAN, FinishPowerOff(confirmed) PROVE ControllerInv'
  <2>1. UNCHANGED <<actor, handling, flagVars, barVars, workVars>> /\ EnvTypes'
        /\ caller' = "finish_power_off"
    BY <1>1, <1>3 DEF FinishPowerOff
  <2> DEFINE p == [type |-> "power", on |-> FALSE]
  <2> DEFINE c == [type |-> "control", call |-> "finish_power_off", on |-> power']
  <2>2. p \in Events /\ p.type # "done" /\ c \in Events /\ c.type # "done"
    BY <2>1, EventTypes DEF Calls
  <2>3. queue' = queue \o <<p>> \o <<c>> \/ queue' = queue \o <<>> \o <<c>>
    BY <1>3 DEF FinishPowerOff
  <2> HIDE DEF p, c
  <2>4. /\ queue \o <<p>> \o <<c>> = queue \o (<<p>> \o <<c>>)
        /\ queue \o <<>> \o <<c>> = queue \o <<c>>
    <3>1. <<p>> \in Seq(Events) /\ <<c>> \in Seq(Events)
      BY <2>2
    <3>2. QED
      BY <1>1, <3>1, ConcatAssociative, ConcatEmptySeq
  <2>5. /\ <<p>> \o <<c>> \in Seq(Events) /\ <<c>> \in Seq(Events)
        /\ \A i \in 1 .. Len(<<p>> \o <<c>>) : (<<p>> \o <<c>>)[i].type # "done"
        /\ \A i \in 1 .. Len(<<c>>) : <<c>>[i].type # "done"
    <3>1. /\ <<p>> \in Seq(Events) /\ Len(<<p>>) = 1 /\ <<p>>[1] = p
          /\ <<c>> \in Seq(Events) /\ Len(<<c>>) = 1 /\ <<c>>[1] = c
      BY <2>2
    <3>2. QED
      BY <2>2, <3>1, ConcatProperties
  <2>6. queue' = queue \o (<<p>> \o <<c>>) \/ queue' = queue \o <<c>>
    BY <2>3, <2>4
  <2>7. caller' \in Calls \cup {"free", "off"}
    BY <2>1 DEF Calls
  <2>8. QED
    BY <1>1, <2>1, <2>5, <2>6, <2>7, OtherEvents, AroundKeeps
<1>4. QED
  BY <1>2, <1>3 DEF CallerStep

-----------------------------------------------------------------------------
(* The actor takes events that are not completions.                        *)

LEMMA Assembled ==
  ASSUME ControllerInv, UNCHANGED envVars, queue' \in Seq(Events),
         Parts', ControlTypes', FlagTypes', BarTypes', EvidenceType'
  PROVE  ControllerInv'
<1>1. EnvTypes'
  BY ControllerParts DEF EnvTypes, envVars
<1>2. QED
  BY <1>1, ControllerParts

LEMMA ReleasedKeeps == ControllerInv /\ Released => ControllerInv'
<1> SUFFICES ASSUME ControllerInv, Released PROVE ControllerInv'
  OBVIOUS
<1>1. /\ Work /\ SerialInv /\ ControlTypes /\ EvidenceType /\ FlagTypes /\ BarTypes
      /\ queue \in Seq(Events)
  BY ControllerParts DEF Parts
<1>2. UNCHANGED <<envVars, queue, flagVars, barVars>> /\ CancelRest(handling)
  BY DEF Released
<1>3. \A k \in Kinds : Completions(k)' \subseteq Completions(k)
  BY <1>2, SameQueue
<1>4. handling \in Calls \cup {"event", "none"}
  BY <1>1 DEF ControlTypes
<1>5. Parts' /\ ControlTypes' /\ EvidenceType'
  BY <1>1, <1>2, <1>3, <1>4, CancelKeeps
<1>6. FlagTypes' /\ BarTypes' /\ queue' \in Seq(Events)
  BY <1>1, <1>2 DEF FlagTypes, BarTypes, flagVars, barVars
<1>7. QED
  BY <1>2, <1>5, <1>6, Assembled

LEMMA DrainedKeeps == ControllerInv /\ Drained => ControllerInv'
<1> SUFFICES ASSUME ControllerInv, Drained PROVE ControllerInv'
  OBVIOUS
<1>1. /\ SerialInv /\ ControlTypes /\ FlagTypes /\ BarTypes /\ queue \in Seq(Events)
  BY ControllerParts DEF Parts
<1>2. UNCHANGED <<envVars, queue, flagVars, barVars>> /\ Settle(handling)
  BY DEF Drained
<1>3. \A k \in Kinds : Completions(k)' \subseteq Completions(k)
  BY <1>2, SameQueue
<1>4. handling \in Calls \cup {"event", "none"}
  BY <1>1 DEF ControlTypes
<1>5. Parts' /\ ControlTypes' /\ EvidenceType'
  BY <1>1, <1>2, <1>3, <1>4, SettleKeeps, EmptySeq DEF EvidenceType
<1>6. FlagTypes' /\ BarTypes' /\ queue' \in Seq(Events)
  BY <1>1, <1>2 DEF FlagTypes, BarTypes, flagVars, barVars
<1>7. QED
  BY <1>2, <1>5, <1>6, Assembled

(* What is taken, and what the state is when it is.                        *)
LEMMA Taken ==
  ASSUME ControllerInv, NEW type, Take(type)
  PROVE  /\ actor = "idle" /\ UNCHANGED envVars /\ queue' = Tail(queue) /\ queue # <<>>
         /\ Head(queue) \in Events /\ Head(queue).type = type /\ queue' \in Seq(Events)
         /\ queue \in Seq(Events)
         /\ type # "done" => \A k \in Kinds : Completions(k)' = Completions(k)
         /\ Parts /\ ControlTypes /\ EvidenceType /\ FlagTypes /\ BarTypes /\ now \in Nat
<1>1. /\ Parts /\ ControlTypes /\ EvidenceType /\ FlagTypes /\ BarTypes /\ now \in Nat
      /\ queue \in Seq(Events)
  BY ControllerParts DEF EnvTypes
<1>2. /\ actor = "idle" /\ UNCHANGED envVars /\ queue' = Tail(queue) /\ queue # <<>>
      /\ Head(queue).type = type
  BY DEF Take
<1>3. QED
  BY <1>1, <1>2, TailCompletions

LEMMA IgnoreKeeps ==
  ASSUME ControllerInv, NEW type, Take(type), type # "done", Ignore
  PROVE  ControllerInv'
<1>1. UNCHANGED <<actor, handling, flagVars, barVars, workVars>> /\ caller' = caller
  BY DEF Ignore
<1>2. EnvTypes' /\ queue' \in Seq(Events) /\ \A k \in Kinds : Completions(k)' = Completions(k)
  BY Taken, ControllerParts DEF EnvTypes, envVars
<1>3. caller' \in Calls \cup {"free", "off"}
  BY <1>1, ControllerParts DEF ControlTypes
<1>4. QED
  BY <1>1, <1>2, <1>3, AroundKeeps

LEMMA InvalidatingKeeps ==
  ASSUME ControllerInv, NEW type, Take(type), type # "done", FlagTypes', lastSeen' \in Nat,
         NEW h \in Calls \cup {"event"}, NEW at \in Nat, Invalidate(h, at)
  PROVE  ControllerInv'
<1>1. /\ actor = "idle" /\ UNCHANGED envVars /\ queue' \in Seq(Events) /\ queue \in Seq(Events)
      /\ \A k \in Kinds : Completions(k)' = Completions(k)
      /\ Parts /\ ControlTypes /\ EvidenceType /\ BarTypes
  BY Taken
<1>2. Parts' /\ ControlTypes' /\ EvidenceType' /\ BarTypes'
  BY <1>1, InvalidateKeeps
<1>3. QED
  BY <1>1, <1>2, Assembled

LEMMA ControlKeeps == ControllerInv /\ HandleControl => ControllerInv'
<1> SUFFICES ASSUME ControllerInv, HandleControl PROVE ControllerInv'
  OBVIOUS
<1> DEFINE e == Head(queue)
<1>1. Take("control")
  BY DEF HandleControl
<1>2. e \in Events /\ e.type = "control" /\ FlagTypes /\ BarTypes /\ now \in Nat
  BY <1>1, Taken
<1>3. e.call \in Calls /\ e.on \in BOOLEAN
  BY <1>2 DEF Events
<1>4. /\ active' = CASE e.call = "activate" -> TRUE
                     [] e.call \in {"deactivate", "shutdown"} -> FALSE
                     [] OTHER -> active
      /\ transition' = CASE e.call = "begin_power_off" -> TRUE
                         [] e.call = "shutdown" -> transition
                         [] OTHER -> FALSE
      /\ powered' = IF e.call = "finish_power_off" THEN e.on ELSE powered
      /\ UNCHANGED <<available, generation, lastSeen>>
      /\ Invalidate(e.call, now)
  BY DEF HandleControl
<1> HIDE DEF e
<1>5. active' \in BOOLEAN
  BY <1>2, <1>4 DEF FlagTypes
<1>6. transition' \in BOOLEAN
  BY <1>2, <1>4 DEF FlagTypes
<1>7. powered' \in BOOLEAN
  BY <1>2, <1>3, <1>4 DEF FlagTypes
<1>8. FlagTypes' /\ lastSeen' \in Nat
  BY <1>2, <1>4, <1>5, <1>6, <1>7 DEF FlagTypes, BarTypes
<1>9. QED
  BY <1>1, <1>2, <1>3, <1>4, <1>8, InvalidatingKeeps

LEMMA ConnectionKeeps == ControllerInv /\ HandleConnection => ControllerInv'
<1> SUFFICES ASSUME ControllerInv, HandleConnection PROVE ControllerInv'
  OBVIOUS
<1> DEFINE e == Head(queue)
<1>1. Take("connection")
  BY DEF HandleConnection
<1>2. e \in Events /\ e.type = "connection" /\ FlagTypes /\ BarTypes
  BY <1>1, Taken
<1>3. e.up \in BOOLEAN /\ e.gen \in Nat /\ e.at \in Nat
  BY <1>2 DEF Events
<1>4. Ignore \/ /\ generation' = e.gen /\ available' = e.up
                /\ lastSeen' = IF e.gen # generation THEN 0 ELSE lastSeen
                /\ UNCHANGED <<active, powered, transition>>
                /\ Invalidate("event", e.at)
  BY DEF HandleConnection
<1> HIDE DEF e
<1>5. CASE Ignore
  BY <1>1, <1>5, IgnoreKeeps
<1>6. CASE ~Ignore
  <2>1. FlagTypes' /\ lastSeen' \in Nat
    BY <1>2, <1>3, <1>4, <1>6 DEF FlagTypes, BarTypes
  <2>2. QED
    BY <1>1, <1>3, <1>4, <1>6, <2>1, InvalidatingKeeps
<1>7. QED
  BY <1>5, <1>6

LEMMA PowerKeeps == ControllerInv /\ HandlePower => ControllerInv'
<1> SUFFICES ASSUME ControllerInv, HandlePower PROVE ControllerInv'
  OBVIOUS
<1> DEFINE e == Head(queue)
<1>1. Take("power")
  BY DEF HandlePower
<1>2. e \in Events /\ e.type = "power" /\ FlagTypes /\ BarTypes /\ now \in Nat
  BY <1>1, Taken
<1>3. e.on \in BOOLEAN
  BY <1>2 DEF Events
<1>4. Ignore \/ /\ powered' = e.on
                /\ UNCHANGED <<active, available, transition, generation, lastSeen>>
                /\ Invalidate("event", now)
  BY DEF HandlePower
<1> HIDE DEF e
<1>5. CASE Ignore
  BY <1>1, <1>5, IgnoreKeeps
<1>6. CASE ~Ignore
  <2>1. FlagTypes' /\ lastSeen' \in Nat
    BY <1>2, <1>3, <1>4, <1>6 DEF FlagTypes, BarTypes
  <2>2. QED
    BY <1>1, <1>2, <1>4, <1>6, <2>1, InvalidatingKeeps
<1>7. QED
  BY <1>5, <1>6

LEMMA FanKeeps == ControllerInv /\ HandleFan => ControllerInv'
<1> SUFFICES ASSUME ControllerInv, HandleFan PROVE ControllerInv'
  OBVIOUS
<1> DEFINE e == Head(queue)
<1>1. Take("fan")
  BY DEF HandleFan
<1>2. e \in Events /\ e.type = "fan" /\ FlagTypes /\ BarTypes /\ now \in Nat
  BY <1>1, Taken
<1>3. e.auto \in BOOLEAN
  BY <1>2 DEF Events
<1>4. Ignore \/ /\ active' = e.auto
                /\ UNCHANGED <<available, powered, transition, generation, lastSeen>>
                /\ Invalidate("event", now)
  BY DEF HandleFan
<1> HIDE DEF e
<1>5. CASE Ignore
  BY <1>1, <1>5, IgnoreKeeps
<1>6. CASE ~Ignore
  <2>1. FlagTypes' /\ lastSeen' \in Nat
    BY <1>2, <1>3, <1>4, <1>6 DEF FlagTypes, BarTypes
  <2>2. QED
    BY <1>1, <1>2, <1>4, <1>6, <2>1, InvalidatingKeeps
<1>7. QED
  BY <1>5, <1>6

-----------------------------------------------------------------------------
(* A reading drives the policy.                                            *)

(* A registered command worker is the one for the pending target.          *)
LEMMA CommandFacts ==
  ASSUME Parts, actor = "idle"
  PROVE  /\ worker["command"] = 0 => task["command"] = {} /\ policy.pending = 0
         /\ worker["command"] # 0 => policy.pending # 0
<1>1. "command" \in Kinds
  BY DEF Kinds
<1>2. QED
  BY <1>1 DEF Parts, SerialInv, WorkerInv, NoStrayWorker, CommandInv

LEMMA AirKeeps == ControllerInv /\ HandleAir => ControllerInv'
<1> SUFFICES ASSUME ControllerInv, HandleAir PROVE ControllerInv'
  OBVIOUS
<1> DEFINE e == Head(queue)
<1> DEFINE r == [pm |-> e.pm, rev |-> e.rev, at |-> e.at]
<1> DEFINE q == Observe(policy, r)
<1>1. Take("air")
  BY DEF HandleAir
<1>2. e \in Events /\ e.type = "air"
  BY <1>1, Taken
<1>3. e.pm \in PMs \cup {NoPM} /\ e.rev \in Nat /\ e.at \in Nat /\ e.gen \in Nat
  BY <1>2 DEF Events
<1>4. /\ queue' \in Seq(Events) /\ queue \in Seq(Events)
      /\ \A k \in Kinds : Completions(k)' = Completions(k)
      /\ UNCHANGED envVars /\ actor = "idle" /\ Parts
      /\ ControlTypes /\ EvidenceType /\ FlagTypes /\ BarTypes
  BY <1>1, Taken
<1>5. \/ Ignore
      \/ /\ lastSeen' = e.rev
         /\ evidence' = IF e.pm # NoPM /\ e.at >= barrierAt
                        THEN Append(evidence, Handled(e)) ELSE evidence
         /\ UNCHANGED <<caller, actor, handling, flagVars, barrierRev, barrierAt>>
         /\ \/ UNCHANGED <<policy, worker, task>>
            \/ Usable /\ e.pm # NoPM /\ Apply(q, worker, q.pending # policy.pending, FALSE)
  BY DEF HandleAir
<1> HIDE DEF e
<1>6. CASE Ignore
  BY <1>1, <1>6, IgnoreKeeps
<1>7. CASE ~Ignore
  <2>1. /\ lastSeen' = e.rev
        /\ evidence' = IF e.pm # NoPM /\ e.at >= barrierAt
                       THEN Append(evidence, Handled(e)) ELSE evidence
        /\ UNCHANGED <<caller, actor, handling, flagVars, barrierRev, barrierAt>>
    BY <1>5, <1>7
  <2>2. ControlTypes' /\ FlagTypes' /\ BarTypes'
    BY <1>3, <1>4, <2>1 DEF ControlTypes, FlagTypes, BarTypes, flagVars
  <2>3. EvidenceType'
    <3>1. CASE e.pm # NoPM /\ e.at >= barrierAt
      <4>1. Repeats(policy, LevelFor(e.pm)) \in BOOLEAN
        BY DEF Repeats
      <4>2. Handled(e) \in [pm : PMs, at : Nat, repeats : BOOLEAN]
        BY <1>3, <3>1, <4>1 DEF Handled
      <4>3. Append(evidence, Handled(e)) \in Seq([pm : PMs, at : Nat, repeats : BOOLEAN])
        BY <1>4, <4>2, AppendProperties DEF EvidenceType
      <4>4. QED
        BY <2>1, <3>1, <4>3 DEF EvidenceType
    <3>2. CASE ~(e.pm # NoPM /\ e.at >= barrierAt)
      BY <1>4, <2>1, <3>2 DEF EvidenceType
    <3>3. QED
      BY <3>1, <3>2
  <2>4. CASE UNCHANGED <<policy, worker, task>>
    <3>1. Parts'
      BY <1>4, <2>1, <2>4, NothingHappens DEF flagVars
    <3>2. QED
      BY <1>4, <2>2, <2>3, <3>1, Assembled
  <2>5. CASE Usable /\ e.pm # NoPM /\ Apply(q, worker, q.pending # policy.pending, FALSE)
    <3>1. r \in Readings
      BY <1>3, <2>5, ControllerAssumption DEF Readings, ControllerAssumption
    <3>2. Sound(policy) /\ worker \in [Kinds -> Nat]
      BY <1>4 DEF Parts, Work
    <3> HIDE DEF r
    <3>3. Sound(q) /\ (policy.pending # 0 => q.pending = policy.pending)
      BY <3>1, <3>2, ObserveIsSound
    <3> HIDE DEF q
    <3> DEFINE emitted == q.pending # policy.pending
    <3>4. emitted \in BOOLEAN /\ (emitted <=> q.pending # policy.pending)
          /\ Apply(q, worker, emitted, FALSE) /\ Usable
      BY <2>5
    <3> HIDE DEF emitted
    <3>5. worker["command"] = 0 => task["command"] = {} /\ (emitted <=> q.pending # 0)
      BY <1>4, <3>4, CommandFacts
    <3>6. worker["command"] # 0 => /\ worker["command"] = worker["command"]
                                   /\ q.pending = policy.pending
                                   /\ Completions("command")' = Completions("command")
      BY <1>4, <3>3, CommandFacts DEF Kinds
    <3>7. UNCHANGED <<actor, active, available, powered, transition>>
      BY <2>1 DEF flagVars
    <3>8. \A k \in Kinds : Completions(k)' \subseteq Completions(k)
      BY <1>4
    <3>9. Parts'
      BY <1>4, <3>2, <3>3, <3>4, <3>5, <3>6, <3>7, <3>8, ApplyKeeps
    <3>10. QED
      BY <1>4, <2>2, <2>3, <3>9, Assembled
  <2>6. QED
    BY <1>5, <1>7, <2>4, <2>5
<1>8. QED
  BY <1>6, <1>7

-----------------------------------------------------------------------------
(* A completion is taken.                                                  *)

(* The completion of a registered worker: the controller can be used, and  *)
(* that worker runs no more.                                               *)
LEMMA CurrentFacts ==
  ASSUME queue \in Seq(Events), Parts, actor = "idle",
         NEW e \in Events, e.type = "done", e \in Completions(e.kind), Current(e)
  PROVE  /\ Usable /\ e.kind \in Kinds /\ e.serial # 0 /\ task[e.kind] = {}
         /\ e.kind = "command" => e.target = policy.pending /\ policy.pending # 0
<1>1. e.kind \in Kinds
  BY DEF Events
<1>2. worker[e.kind] = e.serial /\ e.serial # 0
  BY <1>1 DEF Current, Parts, SerialInv
<1>3. Usable
  BY <1>1, <1>2 DEF Parts, WorkerInv, Resting
<1>4. task[e.kind] = {}
  <2>1. \A t \in task[e.kind] : ~t.cancelled /\ t.serial = worker[e.kind]
    BY <1>1 DEF Parts, WorkerInv, NoStrayWorker
  <2>2. \A t \in task[e.kind] : t.cancelled \/ t.serial # e.serial
    BY <1>1 DEF Parts, SerialInv
  <2>3. QED
    BY <1>2, <2>1, <2>2
<1>5. e.kind = "command" => e.target = policy.pending /\ policy.pending # 0
  BY <1>2 DEF Parts, CommandInv
<1>6. QED
  BY <1>1, <1>2, <1>3, <1>4, <1>5

(* What is outstanding stays so when another completion is taken.          *)
LEMMA StillOutstanding ==
  ASSUME NEW k \in Kinds, NEW e, Completions(k) \subseteq Completions(k)' \cup {e},
         worker'[k] = worker[k], task'[k] = task[k], Outstanding(k),
         e \in Completions(k) => e.serial # worker[k]
  PROVE  Outstanding(k)'
BY DEF Outstanding

(* The worker of the completion is taken out and the policy may give up    *)
(* the command it waited for.                                              *)
LEMMA DoneKeeps ==
  ASSUME queue \in Seq(Events), queue' = Tail(queue), queue # <<>>, Parts, actor = "idle",
         UNCHANGED <<actor, active, available, powered, transition, task>>,
         NEW e \in Events, e = Head(queue), e.type = "done",
         Sound(policy'), Boundaries(policy') = Boundaries(policy),
         \/ ~Current(e) /\ UNCHANGED <<policy, worker>>
         \/ /\ Current(e) /\ worker' = [worker EXCEPT ![e.kind] = 0]
            /\ \/ e.kind = "sample" /\ policy' = policy
               \/ e.kind = "command" /\ policy'.pending = 0
  PROVE  Parts'
<1>1. /\ \A k \in Kinds : /\ Completions(k)' \subseteq Completions(k)
                          /\ Completions(k) \subseteq Completions(k)' \cup {e}
      /\ e \in Completions(e.kind) /\ e.kind \in Kinds
  BY TailCompletions DEF Events
<1>2. \A k \in Kinds : e \in Completions(k) => k = e.kind
  BY CompletionIsEvent
<1>3. "sample" \in Kinds /\ "timer" \in Kinds /\ "command" \in Kinds
  BY DEF Kinds
<1>4. Current(e) => /\ Usable /\ task[e.kind] = {} /\ e.serial # 0
                    /\ e.kind \in {"sample", "command"}
  BY <1>1, CurrentFacts
<1>5. /\ worker' \in [Kinds -> Nat]
      /\ \A k \in Kinds : worker'[k] = IF Current(e) /\ k = e.kind THEN 0 ELSE worker[k]
  BY <1>1 DEF Parts, Work
<1>6. Work'
  BY <1>5 DEF Parts, Work
<1>7. SerialInv'
  BY <1>1 DEF Parts, SerialInv
<1>8. NoStrayWorker'
  BY <1>4, <1>5 DEF Parts, WorkerInv, NoStrayWorker
<1>9. Usable' <=> Usable
  BY DEF Usable
<1>10. QuietUnlessUsable'
  BY <1>4, <1>9 DEF Parts, WorkerInv, QuietUnlessUsable, Resting
<1>11. ASSUME NEW k \in {"timer", "command"}, worker'[k] # 0
       PROVE  Outstanding(k)'
  <2>1. k \in Kinds /\ worker'[k] = worker[k] /\ worker[k] # 0 /\ ~(Current(e) /\ k = e.kind)
    BY <1>3, <1>5, <1>11
  <2>2. Outstanding(k)
    BY <2>1 DEF Parts, WorkerInv
  <2>3. e \in Completions(k) => e.serial # worker[k]
    BY <1>2, <2>1 DEF Current
  <2>4. QED
    BY <1>1, <2>1, <2>2, <2>3, StillOutstanding
<1>12. \A k \in Kinds : worker[k] = 0 => worker'[k] = 0
  BY <1>5
<1>13. WorkerInv'
  BY <1>3, <1>8, <1>9, <1>10, <1>11, <1>12 DEF Parts, WorkerInv, Resting
<1>14. CommandInv'
  <2>1. CASE policy' = policy /\ worker'["command"] = worker["command"]
    BY <1>1, <1>3, <2>1 DEF Parts, CommandInv
  <2>2. CASE policy'.pending = 0 /\ worker'["command"] = 0 /\ task["command"] = {}
    <3>1. \A c \in Completions("command")' : c.serial # 0
      BY <1>3, <1>7 DEF SerialInv
    <3>2. QED
      BY <2>2, <3>1 DEF CommandInv
  <2>3. QED
    BY <1>3, <1>4, <1>5, <2>1, <2>2
<1>15. AlarmInv'
  BY <1>3, <1>4, <1>5 DEF Parts, AlarmInv
<1>16. QED
  BY <1>6, <1>7, <1>13, <1>14, <1>15 DEF Parts

LEMMA CompletedKeeps == ControllerInv /\ HandleDone => ControllerInv'
<1> SUFFICES ASSUME ControllerInv, HandleDone PROVE ControllerInv'
  OBVIOUS
<1> DEFINE e == Head(queue)
<1> DEFINE w == [worker EXCEPT ![e.kind] = 0]
<1> DEFINE c == Reconcile(Confirm(policy))
<1>1. Take("done")
  BY DEF HandleDone
<1>2. /\ actor = "idle" /\ UNCHANGED envVars /\ queue' = Tail(queue) /\ queue # <<>>
      /\ e \in Events /\ e.type = "done" /\ queue' \in Seq(Events) /\ queue \in Seq(Events)
      /\ Parts /\ ControlTypes /\ EvidenceType /\ FlagTypes /\ BarTypes /\ now \in Nat
  BY <1>1, Taken
<1>3. /\ \A k \in Kinds : /\ Completions(k)' \subseteq Completions(k)
                          /\ Completions(k) \subseteq Completions(k)' \cup {e}
      /\ e \in Completions(e.kind)
  BY <1>2, TailCompletions
<1>4. UNCHANGED <<caller, actor, handling, flagVars, barVars, evidence>>
  BY DEF HandleDone
<1>5. ControlTypes' /\ FlagTypes' /\ BarTypes' /\ EvidenceType'
  BY <1>2, <1>4 DEF ControlTypes, FlagTypes, BarTypes, EvidenceType, flagVars, barVars
<1>6. \/ ~Current(e) /\ UNCHANGED <<policy, worker, task>>
      \/ Current(e) /\ e.kind = "sample" /\ worker' = w /\ UNCHANGED <<policy, task>>
      \/ /\ Current(e) /\ e.kind = "timer"
         /\ Apply(AtBoundary(policy, now), w, FALSE, AsksForSample(policy, now))
      \/ Current(e) /\ e.kind = "command" /\ e.target # policy.pending
      \/ /\ Current(e) /\ e.kind = "command"
         /\ Apply(AtBoundary(c, now), w, c.pending # 0, AsksForSample(c, now))
      \/ /\ Current(e) /\ e.kind = "command"
         /\ policy' = MarkFailed(policy) /\ worker' = w /\ UNCHANGED task
  BY <1>2 DEF HandleDone, CommandConfirmed, Events, Kinds
<1>7. /\ Sound(policy) /\ worker \in [Kinds -> Nat] /\ e.kind \in Kinds
      /\ "sample" \in Kinds /\ "timer" \in Kinds /\ "command" \in Kinds
  BY <1>2 DEF Parts, Work, Events, Kinds
<1>8. w \in [Kinds -> Nat] /\ \A k \in Kinds : w[k] = IF k = e.kind THEN 0 ELSE worker[k]
  BY <1>7
<1>9. w = [worker EXCEPT ![e.kind] = 0]
  OBVIOUS
<1> HIDE DEF e, w
<1>10. UNCHANGED <<actor, active, available, powered, transition>>
  BY <1>4 DEF flagVars
<1>11. Current(e) => /\ Usable /\ task[e.kind] = {}
                     /\ e.kind = "command" => e.target = policy.pending
  BY <1>2, <1>3, CurrentFacts
<1>12. Sound(MarkFailed(policy)) /\ MarkFailed(policy).pending = 0
       /\ Boundaries(MarkFailed(policy)) = Boundaries(policy)
  BY <1>7, FailureIsSound
<1>13. CASE ~Current(e) /\ UNCHANGED <<policy, worker, task>>
  <2>1. Sound(policy') /\ Boundaries(policy') = Boundaries(policy)
    BY <1>7, <1>13
  <2>2. Parts'
    BY <1>2, <1>10, <1>13, <2>1, DoneKeeps DEF e
  <2>3. QED
    BY <1>2, <1>5, <2>2, Assembled
<1>14. CASE Current(e) /\ e.kind = "sample" /\ worker' = w /\ UNCHANGED <<policy, task>>
  <2>1. Sound(policy') /\ Boundaries(policy') = Boundaries(policy)
    BY <1>7, <1>14
  <2>2. Parts'
    BY <1>2, <1>9, <1>10, <1>14, <2>1, DoneKeeps DEF e
  <2>3. QED
    BY <1>2, <1>5, <2>2, Assembled
<1>15. CASE /\ Current(e) /\ e.kind = "command"
            /\ policy' = MarkFailed(policy) /\ worker' = w /\ UNCHANGED task
  <2>1. Sound(policy') /\ Boundaries(policy') = Boundaries(policy) /\ policy'.pending = 0
    BY <1>12, <1>15
  <2>2. Parts'
    BY <1>2, <1>9, <1>10, <1>15, <2>1, DoneKeeps DEF e
  <2>3. QED
    BY <1>2, <1>5, <2>2, Assembled
<1>16. CASE /\ Current(e) /\ e.kind = "timer"
            /\ Apply(AtBoundary(policy, now), w, FALSE, AsksForSample(policy, now))
  <2> DEFINE q == AtBoundary(policy, now)
  <2> DEFINE asks == AsksForSample(policy, now)
  <2>1. Sound(q) /\ q.pending = policy.pending
    BY <1>2, <1>7, BoundaryIsSound
  <2>2. asks \in BOOLEAN
    BY DEF AsksForSample
  <2>3. Apply(q, w, FALSE, asks)
    BY <1>16
  <2> HIDE DEF q, asks
  <2>4. w["sample"] = worker["sample"] /\ w["command"] = worker["command"]
    BY <1>7, <1>8, <1>16
  <2>5. Completions("command")' = Completions("command")
    <3>1. e \notin Completions("command")
      BY <1>2, <1>16, CompletionIsEvent
    <3>2. QED
      BY <1>3, <1>7, <3>1
  <2>6. w["command"] = 0 => task["command"] = {} /\ (FALSE <=> q.pending # 0)
    BY <1>2, <2>1, <2>4, CommandFacts
  <2>7. w["command"] # 0 => /\ w["command"] = worker["command"]
                            /\ q.pending = policy.pending
                            /\ Completions("command")' = Completions("command")
    BY <2>1, <2>4, <2>5
  <2>8. \A k \in Kinds : Completions(k)' \subseteq Completions(k)
    BY <1>3
  <2>9. ControlTypes /\ Usable /\ FALSE \in BOOLEAN
    BY <1>2, <1>11, <1>16
  <2>10. Parts'
    BY <1>2, <1>8, <1>10, <2>1, <2>2, <2>3, <2>4, <2>6, <2>7, <2>8, <2>9, ApplyKeeps
  <2>11. QED
    BY <1>2, <1>5, <2>10, Assembled
<1>17. CASE /\ Current(e) /\ e.kind = "command"
            /\ Apply(AtBoundary(c, now), w, c.pending # 0, AsksForSample(c, now))
  <2> DEFINE q == AtBoundary(c, now)
  <2> DEFINE asks == AsksForSample(c, now)
  <2> DEFINE emitted == c.pending # 0
  <2>1. Sound(c)
    BY <1>7, ConfirmIsSound, ReconcileIsSound
  <2> HIDE DEF c
  <2>2. Sound(q) /\ q.pending = c.pending
    BY <1>2, <2>1, BoundaryIsSound
  <2>3. asks \in BOOLEAN
    BY DEF AsksForSample
  <2>4. emitted \in BOOLEAN /\ (emitted <=> q.pending # 0) /\ Apply(q, w, emitted, asks)
    BY <1>17, <2>2
  <2> HIDE DEF q, asks, emitted
  <2>5. w["sample"] = worker["sample"] /\ w["command"] = 0 /\ task["command"] = {}
    BY <1>7, <1>8, <1>11, <1>17
  <2>6. w["command"] = 0 => task["command"] = {} /\ (emitted <=> q.pending # 0)
    BY <2>4, <2>5
  <2>7. w["command"] # 0 => /\ w["command"] = worker["command"]
                            /\ q.pending = policy.pending
                            /\ Completions("command")' = Completions("command")
    BY <2>5
  <2>8. \A k \in Kinds : Completions(k)' \subseteq Completions(k)
    BY <1>3
  <2>9. ControlTypes /\ Usable
    BY <1>2, <1>11, <1>17
  <2>10. Parts'
    BY <1>2, <1>8, <1>10, <2>2, <2>3, <2>4, <2>5, <2>6, <2>7, <2>8, <2>9, ApplyKeeps
  <2>11. QED
    BY <1>2, <1>5, <2>10, Assembled
<1>18. QED
  BY <1>6, <1>11, <1>13, <1>14, <1>15, <1>16, <1>17

-----------------------------------------------------------------------------
(* A worker ends.                                                          *)

LEMMA EndKeeps ==
  ASSUME ControllerInv, NEW k \in Kinds, NEW ok \in BOOLEAN, WorkerEnds(k, ok)
  PROVE  ControllerInv'
<1>1. /\ UNCHANGED <<envVars, caller, actor, handling, flagVars, barVars, policy, worker, evidence>>
      /\ task' = [task EXCEPT ![k] = {}]
  BY DEF WorkerEnds
<1>2. PICK t \in task[k] :
        /\ ~t.cancelled
        /\ queue' = Append(queue, [type |-> "done", kind |-> k, serial |-> t.serial,
                                   ok |-> ok, target |-> t.target])
  BY DEF WorkerEnds
<1>3. /\ Parts /\ ControlTypes /\ FlagTypes /\ BarTypes /\ EvidenceType /\ queue \in Seq(Events)
  BY ControllerParts
<1>4. /\ ControlTypes' /\ FlagTypes' /\ BarTypes' /\ EvidenceType' /\ UNCHANGED envVars
      /\ UNCHANGED <<actor, active, available, powered, transition, policy, worker>>
  BY <1>1, <1>3 DEF ControlTypes, FlagTypes, BarTypes, EvidenceType, flagVars, barVars
<1>5. /\ t \in Tasks /\ t.serial \in Nat \ {0} /\ t.target \in 0 .. Levels
      /\ \A u \in task[k] : u = t
  BY <1>3 DEF Parts, Work, SerialInv, Tasks
<1> DEFINE e == [type |-> "done", kind |-> k, serial |-> t.serial, ok |-> ok, target |-> t.target]
<1>6. e \in Events /\ e.type = "done" /\ e.kind = k /\ e.serial = t.serial /\ e.target = t.target
  BY <1>5, EventTypes
<1>7. queue' = Append(queue, e)
  BY <1>2
<1> HIDE DEF e
<1>8. queue' \in Seq(Events)
      /\ \A j \in Kinds :
           Completions(j)' = IF j = k THEN Completions(j) \cup {e} ELSE Completions(j)
  BY <1>3, <1>6, <1>7, NewCompletion
<1>9. task' \in [Kinds -> SUBSET Tasks]
      /\ \A j \in Kinds : task'[j] = IF j = k THEN {} ELSE task[j]
  BY <1>1, <1>3 DEF Parts, Work
<1>10. Work'
  BY <1>3, <1>4, <1>9 DEF Parts, Work
<1>11. SerialInv'
  BY <1>3, <1>5, <1>6, <1>8, <1>9 DEF Parts, SerialInv
<1>12. NoStrayWorker' /\ QuietUnlessUsable'
  BY <1>3, <1>4, <1>9 DEF Parts, WorkerInv, NoStrayWorker, QuietUnlessUsable, Resting, Usable
<1>13. ASSUME NEW j \in {"timer", "command"}, worker'[j] # 0
       PROVE  Outstanding(j)'
  <2>1. j \in Kinds /\ worker'[j] = worker[j]
    BY <1>4 DEF Kinds
  <2>2. Outstanding(j)
    BY <1>3, <1>13, <2>1 DEF Parts, WorkerInv
  <2>3. CASE j = k
    BY <1>5, <1>6, <1>8, <2>1, <2>2, <2>3 DEF Outstanding
  <2>4. CASE j # k
    BY <1>8, <1>9, <2>1, <2>2, <2>4 DEF Outstanding
  <2>5. QED
    BY <2>3, <2>4
<1>14. "sample" \in Kinds /\ "timer" \in Kinds /\ "command" \in Kinds
  BY DEF Kinds
<1>15. \A j \in Kinds : task'[j] \subseteq task[j]
  BY <1>9
<1>16. WorkerInv'
  BY <1>3, <1>4, <1>12, <1>13, <1>14, <1>15 DEF Parts, WorkerInv, Resting, Usable
<1>17. CommandInv'
  <2>1. ASSUME NEW c \in Completions("command")', c.serial = worker'["command"]
        PROVE  c.target = policy'.pending
    <3>1. CASE c \in Completions("command")
      BY <1>3, <1>4, <2>1, <3>1 DEF Parts, CommandInv
    <3>2. CASE c \notin Completions("command")
      <4>1. k = "command" /\ c = e
        BY <1>8, <1>14, <2>1, <3>2
      <4>2. c.serial # 0 /\ worker["command"] = t.serial /\ worker["command"] # 0
        BY <1>4, <1>5, <1>6, <2>1, <4>1
      <4>3. actor # "draining"
        BY <1>3, <1>14, <4>2 DEF Parts, WorkerInv
      <4>4. QED
        BY <1>3, <1>4, <1>6, <4>1, <4>3 DEF Parts, CommandInv
    <3>3. QED
      BY <3>1, <3>2
  <2>2. QED
    BY <1>3, <1>4, <1>14, <1>15, <2>1 DEF Parts, CommandInv
<1>18. AlarmInv'
  BY <1>3, <1>4, <1>14, <1>15 DEF Parts, AlarmInv
<1>19. Parts'
  BY <1>10, <1>11, <1>16, <1>17, <1>18 DEF Parts
<1>20. QED
  BY <1>4, <1>8, <1>19, Assembled

LEMMA CancelledEndKeeps ==
  ASSUME ControllerInv, NEW k \in Kinds, CancelledEnds(k)
  PROVE  ControllerInv'
<1>1. /\ UNCHANGED <<envVars, caller, queue, actor, handling, flagVars, barVars,
                     policy, worker, evidence>>
      /\ task' = [task EXCEPT ![k] = {}] /\ \E t \in task[k] : t.cancelled
  BY DEF CancelledEnds
<1>2. Parts /\ ControlTypes /\ FlagTypes /\ BarTypes /\ EvidenceType /\ queue \in Seq(Events)
  BY ControllerParts
<1>3. /\ ControlTypes' /\ FlagTypes' /\ BarTypes' /\ EvidenceType'
      /\ UNCHANGED <<envVars, actor, active, available, powered, transition, policy, worker>>
  BY <1>1, <1>2 DEF ControlTypes, FlagTypes, BarTypes, EvidenceType, flagVars, barVars
<1>4. queue' \in Seq(Events) /\ \A j \in Kinds : Completions(j)' = Completions(j)
  BY <1>1, SameQueue
<1>5. /\ task' \in [Kinds -> SUBSET Tasks]
      /\ \A j \in Kinds : task'[j] = IF j = k THEN {} ELSE task[j]
      /\ \A j \in Kinds : task'[j] \subseteq task[j]
  BY <1>1, <1>2 DEF Parts, Work
<1>6. "sample" \in Kinds /\ "timer" \in Kinds /\ "command" \in Kinds
  BY DEF Kinds
<1>7. actor = "draining" /\ \A j \in Kinds : worker[j] = 0
  BY <1>1, <1>2 DEF Parts, WorkerInv, NoStrayWorker
<1>8. Work'
  BY <1>2, <1>3, <1>5 DEF Parts, Work
<1>9. SerialInv'
  BY <1>2, <1>4, <1>5 DEF Parts, SerialInv
<1>10. WorkerInv'
  BY <1>2, <1>3, <1>5, <1>6, <1>7
     DEF Parts, WorkerInv, NoStrayWorker, QuietUnlessUsable, Resting, Kinds
<1>11. CommandInv'
  BY <1>2, <1>3, <1>4, <1>5, <1>6, <1>7 DEF Parts, CommandInv
<1>12. AlarmInv'
  BY <1>2, <1>3, <1>5, <1>6, <1>7 DEF Parts, AlarmInv
<1>13. QED
  BY <1>3, <1>4, <1>8, <1>9, <1>10, <1>11, <1>12, Assembled DEF Parts

-----------------------------------------------------------------------------
(* The theorems.                                                           *)

LEMMA ControllerStarts == Init => ControllerInv
<1> SUFFICES ASSUME Init PROVE ControllerInv
  OBVIOUS
<1> USE DEF Init
<1>1. "sample" \in Kinds /\ "timer" \in Kinds /\ "command" \in Kinds
  BY DEF Kinds
<1>2. \A k \in Kinds : Completions(k) = {}
  BY DEF Completions
<1>3. \A k \in Kinds : worker[k] = 0 /\ task[k] = {}
  OBVIOUS
<1>4. Work
  BY InitialIsSound DEF Work
<1>5. SerialInv /\ WorkerInv
  BY <1>1, <1>2, <1>3
     DEF SerialInv, WorkerInv, NoStrayWorker, QuietUnlessUsable, Resting
<1>6. policy.pending = 0 /\ Boundaries(policy) = {}
  BY InitialIsSound DEF InitialPolicy
<1>7. CommandInv /\ AlarmInv
  BY <1>1, <1>2, <1>3, <1>6 DEF CommandInv, AlarmInv
<1>8. EnvTypes
  BY ControllerAssumption DEF EnvTypes, ControllerAssumption
<1>9. ControlTypes /\ FlagTypes /\ BarTypes
  BY DEF ControlTypes, FlagTypes, BarTypes
<1>10. EvidenceType /\ queue \in Seq(Events)
  BY EmptySeq DEF EvidenceType
<1>11. QED
  BY <1>4, <1>5, <1>7, <1>8, <1>9, <1>10, ControllerParts DEF Parts

LEMMA ControllerStep == ControllerInv /\ [Next]_vars => ControllerInv'
<1> SUFFICES ASSUME ControllerInv, [Next]_vars PROVE ControllerInv'
  OBVIOUS
<1>1. CASE ActorStep
  BY <1>1, ReleasedKeeps, DrainedKeeps, ControlKeeps, ConnectionKeeps, PowerKeeps, FanKeeps,
     AirKeeps, CompletedKeeps DEF ActorStep
<1>2. CASE ClientStep
  BY <1>2, ClientKeeps
<1>3. CASE CallerStep
  BY <1>3, CallerKeeps
<1>4. CASE \E k \in Kinds : CancelledEnds(k) \/ \E ok \in BOOLEAN : WorkerEnds(k, ok)
  BY <1>4, EndKeeps, CancelledEndKeeps
<1>5. CASE UNCHANGED vars
  <2>1. UNCHANGED <<actor, handling, flagVars, barVars, workVars>> /\ UNCHANGED queue
        /\ UNCHANGED envVars /\ caller' = caller
    BY <1>5 DEF vars
  <2>2. EnvTypes' /\ caller' \in Calls \cup {"free", "off"}
    BY <2>1, ControllerParts DEF EnvTypes, envVars, ControlTypes
  <2>3. QED
    BY <2>1, <2>2, SameQueue, AroundKeeps
<1>6. QED
  BY <1>1, <1>2, <1>3, <1>4, <1>5 DEF Next

(* The controller's invariant holds in every reachable state: its types,   *)
(* the serials of workers and completions, the workers, the command and    *)
(* the timer (CustomAutoController, whatever the levels and the bounds).   *)
THEOREM ControllerCorrect == Spec => []ControllerInv
BY ControllerStep, ControllerStarts, PTL DEF Spec

(* Between events no worker of the controller runs unless it is active on  *)
(* an available, powered purifier that is not being switched off.          *)
THEOREM QuietWhenGivenUp == Spec => []QuietUnlessUsable
<1>1. ControllerInv => QuietUnlessUsable
  BY DEF ControllerInv, WorkerInv
<1>2. QED
  BY <1>1, ControllerCorrect, PTL

(* The actor knows every live worker: none runs behind it.                 *)
THEOREM WorkersAreKnown == Spec => []NoStrayWorker
<1>1. ControllerInv => NoStrayWorker
  BY DEF ControllerInv, WorkerInv
<1>2. QED
  BY <1>1, ControllerCorrect, PTL

(* A target the policy waits for is being sent, or its result is on its    *)
(* way to the actor.                                                       *)
THEOREM PendingIsSent == Spec => []TargetIsSent
<1>1. ControllerInv => TargetIsSent
  <2> SUFFICES ASSUME ControllerInv, Resting, policy.pending # 0
               PROVE  /\ Outstanding("command")
                      /\ \A t \in task["command"] : t.target = policy.pending
    BY DEF TargetIsSent
  <2>1. actor # "draining"
    BY DEF Resting
  <2>2. QED
    BY <2>1 DEF ControllerInv, CommandInv, WorkerInv
<1>2. QED
  BY <1>1, ControllerCorrect, PTL

(* A boundary that has not been sampled has its alarm, and in time.        *)
THEOREM BoundariesAreTimed == Spec => []BoundaryHasAlarm
<1>1. ControllerInv => BoundaryHasAlarm
  <2> SUFFICES ASSUME ControllerInv, Resting, Boundaries(policy) # {}
               PROVE  /\ Outstanding("timer")
                      /\ \A t \in task["timer"] : \A b \in Boundaries(policy) : t.wake <= b
    BY DEF BoundaryHasAlarm
  <2>1. actor # "draining"
    BY DEF Resting
  <2>2. QED
    BY <2>1 DEF ControllerInv, AlarmInv, WorkerInv
<1>2. QED
  BY <1>1, ControllerCorrect, PTL
=============================================================================
