------------------------ MODULE GattTransport_proofs ------------------------
(***************************************************************************)
(* Proofs about GattTransport, for any number of transports, cycles and    *)
(* standalone clean-ups, and whichever calls resist cancellation.          *)
(*                                                                         *)
(* An action of transport t takes the state through several procedures.    *)
(* Good(t, s) is what every state s on that way satisfies.  There is a     *)
(* lemma for each procedure and a step for each action.                    *)
(***************************************************************************)
EXTENDS GattTransport, FiniteSetTheorems, TLAPS

Chain == [record : Record, tasks : SUBSET Task, links : SUBSET Transports,
          me : Transport]

(* The address stays with its owner unless it was free. *)
Inherits(s, t) ==
  OwnedNow => /\ s.record.owner = record.owner
              /\ record.owner = t \/ Owned(s)

Good(t, s) ==
  /\ s \in Chain
  /\ s.record.serial = 0 => s.record.release
  /\ s.record.owner = Nobody => s.record.serial = 0
  /\ Holds(s.record, t, s.me.token)
  /\ \A u \in Transports \ {t} : Holds(s.record, u, transport[u].token)
  /\ Holds(s.record, Standalone, standalone.token)
  /\ \A x \in s.tasks : Tracked(s.record, x)
  /\ Inherits(s, t)

(* Where a procedure of the runner may begin. *)
Between(m) ==
  /\ Pending(m) => m.token # NoToken
  /\ m.connector # "none" => m.detached
  /\ m.late \in {"disconnecting", "closing"} => m.connector = "none"
  /\ m.token # NoToken => m.known

-----------------------------------------------------------------------------
(* Starting point of every action. *)
LEMMA HereIsGood ==
  ASSUME TransportAssumption, LeaseInv, NEW t \in Transports
  PROVE  Good(t, Here(t)) /\ RunnerInv(transport[t])
  BY DEF TransportAssumption, LeaseInv, TypeOK, TokenInv, TaskInv, Good, Here, Chain,
         Inherits, OwnedNow, Owned

(* End point of every action. *)
LEMMA BecomeKeeps ==
  ASSUME TransportAssumption, LeaseInv, NEW t \in Transports, NEW s,
         Good(t, s), RunnerInv(s.me), Become(t, s)
  PROVE  LeaseInv' /\ (OwnedNow => record'.owner = record.owner)
  <1>1. /\ record' = s.record /\ tasks' = s.tasks /\ links' = s.links
        /\ transport' = [transport EXCEPT ![t] = s.me] /\ standalone' = standalone
    BY DEF Become
  <1>2. TypeOK'
    BY <1>1 DEF LeaseInv, TypeOK, Good, Chain
  <1>3. \A u \in Transports : transport'[u] = IF u = t THEN s.me ELSE transport[u]
    BY <1>1 DEF LeaseInv, TypeOK
  <1>4. TokenInv'
    BY <1>1, <1>3 DEF Good, TokenInv
  <1>5. TaskInv'
    BY <1>1 DEF Good, TaskInv
  <1>6. \A u \in Transports : RunnerInv(transport[u])'
    BY <1>3 DEF LeaseInv
  <1> QED
    BY <1>1, <1>2, <1>4, <1>5, <1>6 DEF LeaseInv, Good, Inherits

(* Changes of other fields are harmless. *)
LEMMA GoodChange ==
  ASSUME NEW t, NEW s, Good(t, s), NEW r \in Chain,
         r.record = s.record, r.tasks = s.tasks, r.me.token = s.me.token
  PROVE  Good(t, r)
  BY DEF Good, Inherits, Owned

(* The end of a call, or its abandonment. *)
LEMMA SettledIsGood ==
  ASSUME TransportAssumption, NEW t \in Transports, NEW s, Good(t, s),
         NEW c \in Calls, NEW r \in {Ended(t, s, c), Abandoned(t, s, c)}
  PROVE  Good(t, r) /\ r.me = s.me /\ r.record = s.record /\ r.links = s.links
  <1>1. /\ r.me = s.me /\ r.record = s.record /\ r.links = s.links
        /\ r.tasks \subseteq s.tasks \cup {[Call(t, c, s.me.token) EXCEPT !.awaited = FALSE]}
        /\ s.tasks \ {Call(t, c, s.me.token)} \subseteq r.tasks
    BY DEF Good, Chain, Ended, Abandoned
  <1>2. [Call(t, c, s.me.token) EXCEPT !.awaited = FALSE] \in Task
    BY DEF Good, Chain, Transport, Task, Call, Calls, Parties
  <1>3. r \in Chain
    BY <1>1, <1>2 DEF Good, Chain, Ended, Abandoned
  <1>4. \A x \in r.tasks : Tracked(r.record, x)
    BY <1>1 DEF Good, Tracked, Holds, Call
  <1>5. Inherits(r, t)
    <2> SUFFICES ASSUME OwnedNow, record.owner # t
                 PROVE  Owned(r)
      BY <1>1 DEF Inherits, Good
    <2>1. Owned(s) /\ s.record.owner # t
      BY DEF Good, Inherits
    <2>2. s.me.token # s.record.serial
      BY <2>1 DEF Good, Holds, Owned, NoToken
    <2> QED
      BY <1>1, <2>1, <2>2 DEF Owned, Call
  <1> QED
    BY <1>1, <1>3, <1>4, <1>5 DEF Good

LEMMA SettledIsEndedOrAbandoned ==
  ASSUME NEW t, NEW s, NEW c, NEW r \in Settled(t, s, c)
  PROVE  r \in {Ended(t, s, c), Abandoned(t, s, c)}
  BY DEF Settled

(* Moving the control point leaves the other fields alone. *)
Moved(m, p, why) == [m EXCEPT !.at = p, !.why = why]

LEMMA MovedFields ==
  ASSUME NEW m \in Transport, NEW p, NEW why, NEW n, n = Moved(m, p, why)
  PROVE  /\ n.at = p /\ n.why = why /\ n.token = m.token /\ n.client = m.client
         /\ n.connector = m.connector /\ n.detached = m.detached
         /\ n.late = m.late /\ n.known = m.known
         /\ Pending(n) <=> Pending(m)
  BY DEF Moved, Transport, Pending

(* Giving the address back. *)
LEMMA ReleaseIsGood ==
  ASSUME TransportAssumption, NEW t \in Transports, NEW s, Good(t, s)
  PROVE  /\ Good(t, Release(s)) /\ Release(s).tasks = s.tasks
         /\ Release(s).links = s.links
         /\ Release(s).me = [s.me EXCEPT !.token = NoToken]
  <1>1. /\ Release(s).tasks = s.tasks /\ Release(s).links = s.links
        /\ Release(s).me = [s.me EXCEPT !.token = NoToken]
    BY DEF Good, Chain, Release
  <1>2. CASE Current(s)
    <2>1. s.record.owner = t /\ s.record.serial # 0
      BY <1>2 DEF Good, Holds, Current, Owned
    <2>2. /\ Release(s).record = [s.record EXCEPT !.release = TRUE, !.cleanup = FALSE]
          /\ Release(s) \in Chain
      BY <1>2 DEF Good, Chain, Release, Transport, Record, NoToken
    <2>3. \A u \in (Transports \cup {Standalone}) \ {t} : s.record.owner # u
      BY <2>1
    <2>4. /\ \A u \in Transports \ {t} : transport[u].token = NoToken
          /\ standalone.token = NoToken
      BY <2>3 DEF Good, Holds, TransportAssumption
    <2>5. /\ Release(s).record.serial = s.record.serial
          /\ Release(s).record.owner = s.record.owner
          /\ Release(s).record.release = TRUE
      BY <2>2 DEF Good, Chain, Record
    <2>6. OwnedNow => record.owner = t
      BY <2>1 DEF Good, Inherits
    <2> QED
      BY <1>1, <2>1, <2>2, <2>4, <2>5, <2>6 DEF Good, Holds, Tracked, Inherits
  <1>3. CASE ~Current(s)
    <2>1. Release(s).record = s.record /\ Release(s) \in Chain
      BY <1>3 DEF Good, Chain, Release, Transport, NoToken
    <2> QED
      BY <1>1, <2>1 DEF Good, Holds, Inherits, Owned
  <1> QED
    BY <1>1, <1>2, <1>3

(* Taking a free address. *)
LEMMA ClaimIsGood ==
  ASSUME TransportAssumption, NEW t \in Transports, NEW s, Good(t, s), ~Owned(s)
  PROVE  /\ Good(t, Claim(t, s)) /\ Claim(t, s).tasks = s.tasks
         /\ Claim(t, s).links = s.links /\ Claim(t, s).me.token # NoToken
         /\ Claim(t, s).me = [s.me EXCEPT !.token = Claim(t, s).me.token]
  <1> DEFINE k == s.record.serial + 1
  <1>1. /\ Claim(t, s).tasks = s.tasks /\ Claim(t, s).links = s.links
        /\ Claim(t, s).me = [s.me EXCEPT !.token = k]
        /\ Claim(t, s).me.token = k
        /\ Claim(t, s).record = [serial |-> k, owner |-> t, release |-> FALSE,
                                 cleanup |-> FALSE]
        /\ k \in Nat /\ k # 0
    BY DEF Good, Chain, Claim, Record, Transport
  <1>2. Claim(t, s) \in Chain
    BY <1>1 DEF Good, Chain, Claim, Record, Transport, Parties
  <1>3. s.record.serial # 0 => s.record.release
    BY DEF Owned
  <1>4. /\ \A u \in Transports \ {t} : transport[u].token = NoToken
        /\ standalone.token = NoToken
    BY <1>3 DEF Good, Holds
  <1>5. \A x \in s.tasks : x.token = NoToken
    BY DEF Good, Tracked, Owned, NoToken
  <1>6. OwnedNow => record.owner = t
    BY DEF Good, Inherits
  <1>7. Owned(Claim(t, s))
    BY <1>1 DEF Owned
  <1> QED
    BY <1>1, <1>2, <1>4, <1>5, <1>6, <1>7 DEF Good, Holds, Tracked, Inherits, NoToken

(* Beginning a call under the token one has. *)
LEMMA AwaitIsGood ==
  ASSUME TransportAssumption, NEW t \in Transports, NEW s, Good(t, s),
         NEW c \in Calls, NEW p \in Points, NEW why \in Aborts \cup Ends
  PROVE  /\ Good(t, Await(t, s, c, p, why))
         /\ Await(t, s, c, p, why).me = Moved(s.me, p, why)
  <1> DEFINE r == Await(t, s, c, p, why)
  <1>1. /\ r.me = Moved(s.me, p, why) /\ r.record = s.record
        /\ r.links = s.links /\ r.tasks = s.tasks \cup {Call(t, c, s.me.token)}
        /\ r.me.token = s.me.token
    BY DEF Good, Chain, Await, Transport, Moved
  <1>2. Call(t, c, s.me.token) \in Task
    BY DEF Good, Chain, Transport, Task, Call, Parties
  <1>3. r \in Chain
    BY <1>1, <1>2 DEF Good, Chain, Await, Transport, Moved
  <1>4. Inherits(r, t)
    BY <1>1 DEF Good, Inherits, Owned
  <1>5. Tracked(r.record, Call(t, c, s.me.token))
    BY <1>1 DEF Good, Holds, Tracked, Call
  <1> QED
    BY <1>1, <1>3, <1>4, <1>5 DEF Good

(* The address-level clean-up. *)
LEMMA CleanIsDone ==
  ASSUME TransportAssumption, NEW t \in Transports, NEW s, Good(t, s),
         MayClean(s), Between(s.me), ~s.me.client, NEW why \in Aborts \cup Ends
  PROVE  Good(t, Clean(t, s, why)) /\ RunnerInv(Clean(t, s, why).me)
  <1> DEFINE r == IF Current(s) THEN s ELSE Claim(t, s)
  <1>1. /\ Good(t, r) /\ r.me.token # NoToken
        /\ r.me = [s.me EXCEPT !.token = r.me.token]
    <2>1. CASE Current(s)
      BY <2>1 DEF Current, Good, Chain, Transport
    <2>2. CASE ~Current(s)
      BY <2>2, ClaimIsGood DEF MayClean
    <2> QED
      BY <2>1, <2>2
  <1>2. "close" \in Calls /\ "closing" \in Points
    BY DEF Calls, Points
  <1>3. /\ Good(t, Clean(t, s, why))
        /\ Clean(t, s, why).me = Moved(r.me, "closing", why)
    <2> HIDE DEF r
    <2>1. /\ Good(t, Await(t, r, "close", "closing", why))
          /\ Await(t, r, "close", "closing", why).me
               = Moved(r.me, "closing", why)
      BY <1>1, <1>2, AwaitIsGood
    <2> QED
      BY <2>1 DEF Clean, r
  <1>4. s.me \in Transport /\ r.me \in Transport
    BY <1>1 DEF Good, Chain
  <1>5. ~Pending(s.me) /\ s.me.known /\ s.me.connector = "none" /\ s.me.late = "none"
    BY <1>4 DEF MayClean, Between, Pending, Transport
  <1>6. /\ r.me.connector = s.me.connector /\ r.me.detached = s.me.detached
        /\ r.me.late = s.me.late /\ r.me.known = s.me.known
        /\ r.me.client = s.me.client /\ ~Pending(r.me)
    BY <1>1, <1>4, <1>5 DEF Transport, Pending
  <1> DEFINE n == Clean(t, s, why).me
  <1>7. /\ n.at = "closing" /\ n.token = r.me.token
        /\ n.client = r.me.client /\ n.connector = r.me.connector
        /\ n.detached = r.me.detached /\ n.late = r.me.late
        /\ n.known = r.me.known /\ (Pending(n) <=> Pending(r.me))
    <2> HIDE DEF r
    <2> QED
      BY <1>3, <1>4, MovedFields
  <1>8. RunnerInv(n)
    <2> HIDE DEF r, n
    <2> QED
      BY <1>1, <1>5, <1>6, <1>7 DEF RunnerInv
  <1> QED
    BY <1>3, <1>8

(* The end of a cycle. *)
LEMMA CloseAtEndIsDone ==
  ASSUME TransportAssumption, NEW t \in Transports, NEW s, Good(t, s),
         Between(s.me), ~s.me.client, NEW why \in Ends
  PROVE  Good(t, CloseAtEnd(t, s, why)) /\ RunnerInv(CloseAtEnd(t, s, why).me)
  <1>1. CASE MayClean(s)
    BY <1>1, CleanIsDone DEF CloseAtEnd
  <1>2. CASE ~MayClean(s)
    <2> DEFINE r == Rest([s EXCEPT !.me.why = why])
    <2>1. s.me \in Transport /\ s \in Chain
      BY DEF Good, Chain
    <2>2. /\ r.me.at \in {"stopped", "unwound", "idle"}
          /\ r.me = [s.me EXCEPT !.why = why, !.at = r.me.at]
          /\ r.tasks = s.tasks /\ r.record = s.record /\ r.links = s.links
          /\ r = [s EXCEPT !.me = r.me]
      BY <2>1 DEF Rest, Chain, Transport
    <2>3. r.me \in Transport /\ r \in Chain /\ r.me.token = s.me.token
      BY <2>1, <2>2 DEF Chain, Transport, Points
    <2>4. Good(t, r)
      BY <2>2, <2>3, GoodChange
    <2>5. s.me.token # NoToken => Current(s)
      BY DEF Good, Holds, Current, Owned, NoToken
    <2>6. Pending(s.me) \/ s.me.token = NoToken
      BY <1>2, <2>5 DEF MayClean, Between
    <2>7. Pending(r.me) <=> Pending(s.me)
      BY <2>1, <2>2 DEF Pending, Transport
    <2>8. RunnerInv(r.me)
      BY <2>1, <2>2, <2>3, <2>6, <2>7 DEF RunnerInv, Between, Transport
    <2> QED
      BY <1>2, <2>4, <2>8 DEF CloseAtEnd
  <1> QED
    BY <1>1, <1>2

LEMMA EndIsDone ==
  ASSUME TransportAssumption, NEW t \in Transports, NEW s, Good(t, s),
         Between(s.me), NEW why \in Ends
  PROVE  Good(t, End(t, s, why)) /\ RunnerInv(End(t, s, why).me)
  <1> DEFINE r == [s EXCEPT !.me.client = FALSE]
  <1>1. s \in Chain /\ s.me \in Transport
    BY DEF Good, Chain
  <1>2. /\ r \in Chain /\ r.record = s.record /\ r.tasks = s.tasks
        /\ r.me = [s.me EXCEPT !.client = FALSE] /\ r.me.token = s.me.token
        /\ r.me \in Transport /\ ~r.me.client
    BY <1>1 DEF Chain, Transport
  <1>3. Good(t, r)
    BY <1>2, GoodChange
  <1>4. Between(r.me)
    BY <1>1, <1>2 DEF Between, Pending, Transport
  <1>5. CASE s.me.client /\ t \in s.links
    <2>1. "disconnect" \in Calls /\ "disconnecting" \in Points
      BY DEF Calls, Points
    <2>2. /\ Good(t, End(t, s, why))
          /\ End(t, s, why).me = Moved(r.me, "disconnecting", why)
      <3> HIDE DEF r
      <3>1. /\ Good(t, Await(t, r, "disconnect", "disconnecting", why))
            /\ Await(t, r, "disconnect", "disconnecting", why).me
                 = Moved(r.me, "disconnecting", why)
        BY <1>3, <2>1, AwaitIsGood
      <3> QED
        BY <3>1, <1>5 DEF End, r
    <2>3. why # "before_connection"
      BY DEF Ends
    <2>4. /\ Pending(r.me) => r.me.token # NoToken
          /\ r.me.connector # "none" => r.me.detached
          /\ r.me.late \in {"disconnecting", "closing"} => r.me.connector = "none"
          /\ r.me.token # NoToken => r.me.known
      BY <1>4 DEF Between
    <2> DEFINE n == End(t, s, why).me
    <2>5. /\ n.at = "disconnecting" /\ n.why = why /\ n.token = r.me.token
          /\ n.client = r.me.client /\ n.connector = r.me.connector
          /\ n.detached = r.me.detached /\ n.late = r.me.late
          /\ n.known = r.me.known /\ (Pending(n) <=> Pending(r.me))
      <3>1. r.me \in Transport /\ n = Moved(r.me, "disconnecting", why)
        BY <1>2, <2>2
      <3> HIDE DEF r, n
      <3> QED
        BY <3>1, MovedFields
    <2>6. RunnerInv(n)
      <3> HIDE DEF r, n
      <3> QED
        BY <1>2, <2>3, <2>4, <2>5 DEF RunnerInv
    <2> QED
      BY <2>2, <2>6
  <1>6. CASE ~(s.me.client /\ t \in s.links)
    BY <1>3, <1>4, <1>2, <1>6, CloseAtEndIsDone DEF End
  <1> QED
    BY <1>5, <1>6

LEMMA EndCycleIsDone ==
  ASSUME TransportAssumption, NEW t \in Transports, NEW s, Good(t, s), Between(s.me)
  PROVE  Good(t, EndCycle(t, s)) /\ RunnerInv(EndCycle(t, s).me)
  BY EndIsDone DEF EndCycle, Ends

(* An attempt that is given up. *)
LEMMA CloseAttemptIsDone ==
  ASSUME TransportAssumption, NEW t \in Transports, NEW s, Good(t, s),
         Between(s.me), ~s.me.client, NEW why \in Aborts
  PROVE  Good(t, CloseAttempt(t, s, why)) /\ RunnerInv(CloseAttempt(t, s, why).me)
  BY CleanIsDone, EndCycleIsDone DEF CloseAttempt

LEMMA AbortIsDone ==
  ASSUME TransportAssumption, NEW t \in Transports, NEW s, Good(t, s),
         Between(s.me), ~s.me.client, ~Pending(s.me), NEW why \in Aborts
  PROVE  Good(t, Abort(t, s, why)) /\ RunnerInv(Abort(t, s, why).me)
  <1>1. CASE s.me.connecting
    <2>1. "disconnect" \in Calls /\ "disconnecting" \in Points /\ s.me \in Transport
      BY DEF Calls, Points, Good, Chain
    <2>2. /\ Good(t, Abort(t, s, why))
          /\ Abort(t, s, why).me = Moved(s.me, "disconnecting", why)
      <3>1. /\ Good(t, Await(t, s, "disconnect", "disconnecting", why))
            /\ Await(t, s, "disconnect", "disconnecting", why).me
                 = Moved(s.me, "disconnecting", why)
        BY <2>1, AwaitIsGood
      <3> QED
        BY <3>1, <1>1 DEF Abort
    <2> QED
      BY <2>1, <2>2, MovedFields DEF RunnerInv, Between
  <1>2. CASE ~s.me.connecting
    BY <1>2, CloseAttemptIsDone DEF Abort
  <1> QED
    BY <1>1, <1>2

-----------------------------------------------------------------------------
(* What a step of transport t has to show. *)
Kept == LeaseInv' /\ (OwnedNow => record'.owner = record.owner)

LEMMA EndCycleKeeps ==
  ASSUME TransportAssumption, LeaseInv, NEW t \in Transports, NEW s, Good(t, s),
         Between(s.me), Become(t, EndCycle(t, s))
  PROVE  Kept
  BY EndCycleIsDone, BecomeKeeps DEF Kept

LEMMA AbortKeeps ==
  ASSUME TransportAssumption, LeaseInv, NEW t \in Transports, NEW s, Good(t, s),
         Between(s.me), ~s.me.client, ~Pending(s.me), NEW why \in Aborts,
         Become(t, Abort(t, s, why))
  PROVE  Kept
  BY AbortIsDone, BecomeKeeps DEF Kept

(* A runner that does not use the address is between two procedures. *)
LEMMA IsBetween ==
  ASSUME NEW m \in Transport, RunnerInv(m), m.at \notin {"establishing", "diagnosing"}
  PROVE  Between(m)
  BY DEF RunnerInv, Between

LEMMA BeginStep ==
  ASSUME TransportAssumption, LeaseInv, NEW t \in Transports,
         NoRoute(t) \/ Connect(t)
  PROVE  Kept
  <1> DEFINE s == Begun(t)
  <1>1. Good(t, Here(t)) /\ RunnerInv(transport[t]) /\ transport[t].at = "idle"
        /\ transport[t] \in Transport
    BY HereIsGood DEF NoRoute, Connect, MayBegin, LeaseInv, TypeOK
  <1>2. /\ s \in Chain /\ s.record = record /\ s.tasks = tasks
        /\ s.me = [transport[t] EXCEPT !.cycles = @ + 1]
        /\ s.me.token = transport[t].token
        /\ s.me \in Transport /\ s.me.at = "idle" /\ s.me.client = transport[t].client
        /\ Pending(s.me) <=> Pending(transport[t])
        /\ Between(s.me)
    <2>1. Between(transport[t])
      BY <1>1, IsBetween
    <2>2. /\ s \in Chain /\ s.record = record /\ s.tasks = tasks
          /\ s.me = [transport[t] EXCEPT !.cycles = @ + 1]
      BY <1>1 DEF Good, Here, Chain, Begun, Transport
    <2>3. s.me \in Transport
      BY <2>2 DEF Chain
    <2> HIDE DEF s
    <2>4. /\ s.me.token = transport[t].token /\ s.me.at = transport[t].at
          /\ s.me.client = transport[t].client /\ s.me.late = transport[t].late
          /\ s.me.connector = transport[t].connector
          /\ s.me.detached = transport[t].detached
          /\ s.me.known = transport[t].known
      BY <1>1, <2>2 DEF Transport
    <2>5. Pending(s.me) <=> Pending(transport[t])
      BY <2>4 DEF Pending
    <2>6. Between(s.me)
      BY <2>1, <2>4, <2>5 DEF Between
    <2> QED
      BY <1>1, <2>2, <2>3, <2>4, <2>5, <2>6
  <1>3. Good(t, s)
    <2>1. /\ Here(t).record = record /\ Here(t).tasks = tasks
          /\ Here(t).me = transport[t]
      BY DEF Here
    <2> HIDE DEF s
    <2> QED
      BY <1>1, <1>2, <2>1, GoodChange
  <1>4. CASE NoRoute(t)
    BY <1>2, <1>3, <1>4, EndCycleKeeps DEF NoRoute
  <1>5. CASE Connect(t)
    <2> DEFINE r == Claim(t, s)
               q == [r EXCEPT !.me.known = TRUE]
    <2>1. ~Owned(s) /\ ~Pending(s.me)
      BY <1>2, <1>5 DEF Connect, Owned, Here
    <2>2. /\ Good(t, r) /\ r.tasks = s.tasks
          /\ r.me = [s.me EXCEPT !.token = r.me.token]
      <3> HIDE DEF s
      <3> QED
        BY <1>3, <2>1, ClaimIsGood
    <2>3. r \in Chain /\ r.me \in Transport
      BY <2>2 DEF Good, Chain
    <2>4. ~s.me.client
      BY <1>1, <1>2 DEF RunnerInv
    <2>5. /\ q \in Chain /\ q.record = r.record /\ q.tasks = r.tasks
          /\ q.me = [r.me EXCEPT !.known = TRUE]
          /\ q.me.token = r.me.token
      <3> HIDE DEF r
      <3> QED
        BY <2>3 DEF Chain, Transport
    <2>6. Good(t, q)
      <3> HIDE DEF r, q
      <3> QED
        BY <2>2, <2>5, GoodChange
    <2>7. Between(q.me) /\ ~q.me.client /\ ~Pending(q.me)
      <3> HIDE DEF s, r, q
      <3> QED
        BY <1>2, <2>1, <2>2, <2>3, <2>4, <2>5 DEF Between, Pending, Transport
    <2>8. Become(t, Abort(t, q, "before_connection"))
      BY <1>5 DEF Connect
    <2>9. "before_connection" \in Aborts
      BY DEF Aborts
    <2> HIDE DEF q
    <2> QED
      BY <2>6, <2>7, <2>8, <2>9, AbortKeeps
  <1> QED
    BY <1>4, <1>5

LEMMA LinksChange ==
  ASSUME NEW t, NEW s, Good(t, s), NEW L \in SUBSET Transports
  PROVE  Good(t, [s EXCEPT !.links = L]) /\ [s EXCEPT !.links = L].me = s.me
  <1> DEFINE r == [s EXCEPT !.links = L]
  <1>1. /\ r \in Chain /\ r.record = s.record /\ r.tasks = s.tasks /\ r.me = s.me
    BY DEF Good, Chain
  <1> HIDE DEF r
  <1>2. Good(t, r)
    BY <1>1, GoodChange
  <1> QED
    BY <1>1, <1>2 DEF r

(* The outcomes of the call that a runner waits for. *)
LEMMA SettledKeeps ==
  ASSUME TransportAssumption, NEW t \in Transports, NEW s, Good(t, s),
         NEW c \in Calls, NEW r \in Settled(t, s, c)
  PROVE  Good(t, r) /\ r.me = s.me
  BY SettledIsGood, SettledIsEndedOrAbandoned

LEMMA DisconnectedStep ==
  ASSUME TransportAssumption, LeaseInv, NEW t \in Transports, Disconnected(t)
  PROVE  Kept
  <1>1. /\ Good(t, Here(t)) /\ RunnerInv(transport[t]) /\ Here(t).me = transport[t]
        /\ transport[t].at = "disconnecting" /\ transport[t] \in Transport
    BY HereIsGood DEF Disconnected, Here, LeaseInv, TypeOK
  <1>2. Between(transport[t]) /\ ~transport[t].client
    BY <1>1, IsBetween DEF RunnerInv
  <1>3. PICK s \in Settled(t, Here(t), "disconnect"), gone \in BOOLEAN :
          LET r == [s EXCEPT !.links = IF gone THEN @ \ {t} ELSE @] IN
          Become(t, IF r.me.why \in Ends THEN CloseAtEnd(t, r, r.me.why)
                    ELSE CloseAttempt(t, r, r.me.why))
    BY DEF Disconnected
  <1> DEFINE r == [s EXCEPT !.links = IF gone THEN @ \ {t} ELSE @]
  <1>4. Good(t, s) /\ s.me = transport[t]
    BY <1>1, SettledKeeps DEF Calls
  <1>5. s.links \in SUBSET Transports
    BY <1>4 DEF Good, Chain
  <1>6. Good(t, r) /\ r.me = transport[t]
    <2> DEFINE L == IF gone THEN s.links \ {t} ELSE s.links
    <2>1. L \in SUBSET Transports
      BY <1>5
    <2>2. r = [s EXCEPT !.links = L]
      OBVIOUS
    <2> HIDE DEF r, L
    <2> QED
      BY <1>4, <2>1, <2>2, LinksChange
  <1>7. r.me.why \in Aborts \cup Ends
    BY <1>1, <1>6 DEF Transport
  <1>8. Become(t, IF r.me.why \in Ends THEN CloseAtEnd(t, r, r.me.why)
                  ELSE CloseAttempt(t, r, r.me.why))
    BY <1>3
  <1> HIDE DEF r
  <1>9. Between(r.me) /\ ~r.me.client
    BY <1>2, <1>6
  <1>10. CASE r.me.why \in Ends
    BY <1>6, <1>8, <1>9, <1>10, CloseAtEndIsDone, BecomeKeeps DEF Kept
  <1>11. CASE r.me.why \notin Ends
    BY <1>6, <1>7, <1>8, <1>9, <1>11, CloseAttemptIsDone, BecomeKeeps DEF Kept
  <1> QED
    BY <1>10, <1>11

(* After the address-level clean-up the runner rests or ends its cycle. *)
LEMMA AfterCleanKeeps ==
  ASSUME TransportAssumption, LeaseInv, NEW t \in Transports, NEW s, Good(t, s),
         s.me.token = NoToken, ~Pending(s.me), ~s.me.client, s.me.connector = "none",
         Become(t, AfterClean(t, s))
  PROVE  Kept
  <1>1. Between(s.me) /\ s.me \in Transport /\ s \in Chain
    BY DEF Between, Good, Chain
  <1>2. CASE s.me.why \in Ends
    <2> DEFINE r == Rest(s)
    <2>1. /\ r.me.at \in {"stopped", "unwound", "idle"}
          /\ r.me = [s.me EXCEPT !.at = r.me.at]
          /\ r.tasks = s.tasks /\ r.record = s.record
          /\ r = [s EXCEPT !.me = r.me]
      BY <1>1 DEF Rest, Chain, Transport
    <2>2. r.me \in Transport /\ r \in Chain /\ r.me.token = s.me.token
      BY <1>1, <2>1 DEF Chain, Transport, Points
    <2>3. Good(t, r)
      BY <2>1, <2>2, GoodChange
    <2>4. RunnerInv(r.me)
      <3> HIDE DEF r
      <3> QED
        BY <1>1, <2>1, <2>2 DEF RunnerInv, Pending, Transport
    <2>5. Become(t, r)
      BY <1>2 DEF AfterClean
    <2> HIDE DEF r
    <2> QED
      BY <2>3, <2>4, <2>5, BecomeKeeps DEF Kept
  <1>3. CASE s.me.why \notin Ends
    BY <1>1, <1>3, EndCycleKeeps DEF AfterClean
  <1> QED
    BY <1>2, <1>3

LEMMA HereFields ==
  ASSUME TransportAssumption, LeaseInv, NEW t \in Transports
  PROVE  /\ Here(t).record = record /\ Here(t).tasks = tasks /\ Here(t).links = links
         /\ Here(t).me = transport[t] /\ transport[t] \in Transport /\ Here(t) \in Chain
         /\ Good(t, Here(t)) /\ RunnerInv(transport[t])
  BY HereIsGood DEF Here, LeaseInv, TypeOK, Good

(* The end of an address-level close, verified or not. *)
LEMMA ReleasedKeeps ==
  ASSUME TransportAssumption, LeaseInv, NEW t \in Transports, NEW s, Good(t, s),
         ~Pending(s.me), ~s.me.client, s.me.connector = "none",
         Become(t, AfterClean(t, Release(s)))
  PROVE  Kept
  <1>1. /\ Good(t, Release(s)) /\ Release(s).me = [s.me EXCEPT !.token = NoToken]
        /\ s.me \in Transport
    BY ReleaseIsGood DEF Good, Chain
  <1>2. /\ Release(s).me.token = NoToken /\ ~Release(s).me.client
        /\ Release(s).me.connector = "none" /\ ~Pending(Release(s).me)
    BY <1>1 DEF Transport, Pending
  <1> QED
    BY <1>1, <1>2, AfterCleanKeeps

LEMMA CloseFailsStep ==
  ASSUME TransportAssumption, LeaseInv, NEW t \in Transports, CloseFails(t)
  PROVE  Kept
  <1>1. PICK s \in Settled(t, Here(t), "close") : Become(t, AfterClean(t, Release(s)))
    BY DEF CloseFails
  <1>2. Good(t, s) /\ s.me = transport[t]
    BY HereFields, SettledKeeps DEF Calls
  <1>3. /\ transport[t].at = "closing" /\ transport[t] \in Transport
        /\ RunnerInv(transport[t])
    BY HereFields DEF CloseFails
  <1>4. /\ ~Pending(transport[t]) /\ ~transport[t].client
        /\ transport[t].connector = "none"
    BY <1>3 DEF RunnerInv, Pending
  <1> QED
    BY <1>1, <1>2, <1>4, ReleasedKeeps

LEMMA CloseSucceedsStep ==
  ASSUME TransportAssumption, LeaseInv, NEW t \in Transports, CloseSucceeds(t)
  PROVE  Kept
  <1> DEFINE e == Ended(t, Here(t), "close")
             s == [e EXCEPT !.links = {}, !.me.connecting = FALSE]
  <1>1. /\ transport[t].at = "closing" /\ transport[t] \in Transport
        /\ RunnerInv(transport[t])
    BY HereFields DEF CloseSucceeds
  <1>2. Good(t, e) /\ e.me = transport[t] /\ e \in Chain
    BY HereFields, SettledIsGood DEF Calls, Good
  <1>3. /\ s.record = e.record /\ s.tasks = e.tasks /\ s \in Chain
        /\ s.me = [transport[t] EXCEPT !.connecting = FALSE]
    <2> HIDE DEF e
    <2> QED
      BY <1>2 DEF Chain, Transport
  <1> HIDE DEF e
  <1>4. /\ s.me \in Transport /\ s.me.token = transport[t].token
        /\ s.me.client = transport[t].client /\ s.me.late = transport[t].late
        /\ s.me.connector = transport[t].connector /\ s.me.why = transport[t].why
        /\ s.me.detached = transport[t].detached /\ s.me.known = transport[t].known
    <2> HIDE DEF s
    <2> QED
      BY <1>1, <1>3 DEF Chain, Transport
  <1>5. /\ ~Pending(transport[t]) /\ ~transport[t].client
        /\ transport[t].connector = "none" /\ transport[t].token # NoToken
        /\ transport[t].late = "none" /\ transport[t].known
    BY <1>1 DEF RunnerInv, Pending
  <1>6. Good(t, s)
    <2> HIDE DEF s
    <2> QED
      BY <1>2, <1>3, <1>4, GoodChange
  <1>7. Become(t, IF s.me.why = "before_connection" THEN StartConnector(t, s)
                  ELSE AfterClean(t, Release(s)))
    BY DEF CloseSucceeds, e
  <1> HIDE DEF s
  <1>8. CASE s.me.why = "before_connection"
    <2> DEFINE q == [s EXCEPT !.me.connector = "running", !.me.detached = FALSE]
               r == Await(t, q, "connector", "establishing", s.me.why)
    <2>1. /\ q.record = s.record /\ q.tasks = s.tasks /\ q \in Chain
          /\ q.me = [s.me EXCEPT !.connector = "running", !.detached = FALSE]
      BY <1>3, <1>4 DEF Chain, Transport
    <2> HIDE DEF q
    <2>2. /\ q.me \in Transport /\ q.me.token = s.me.token /\ q.me.client = s.me.client
          /\ q.me.late = s.me.late /\ q.me.connector = "running"
          /\ q.me.detached = FALSE /\ q.me.known = s.me.known
      BY <1>4, <2>1 DEF Transport
    <2>3. Good(t, q)
      BY <1>6, <2>1, <2>2, GoodChange
    <2>4. "connector" \in Calls /\ "establishing" \in Points /\ s.me.why \in Aborts \cup Ends
      BY <1>4 DEF Calls, Points, Transport
    <2>5. Good(t, r) /\ r.me = Moved(q.me, "establishing", s.me.why)
      BY <2>3, <2>4, AwaitIsGood
    <2> HIDE DEF r
    <2>6. /\ r.me.at = "establishing" /\ r.me.token = q.me.token
          /\ r.me.client = q.me.client /\ r.me.connector = q.me.connector
          /\ r.me.detached = q.me.detached /\ r.me.late = q.me.late
          /\ r.me.known = q.me.known
      BY <2>2, <2>5, MovedFields
    <2>7. RunnerInv(r.me)
      BY <1>4, <1>5, <2>2, <2>6 DEF RunnerInv
    <2>8. Become(t, r)
      BY <1>7, <1>8 DEF StartConnector, q, r
    <2> QED
      BY <2>5, <2>7, <2>8, BecomeKeeps DEF Kept
  <1>9. CASE s.me.why # "before_connection"
    <2>1. ~Pending(s.me) /\ ~s.me.client /\ s.me.connector = "none"
      BY <1>4, <1>5 DEF Pending
    <2> QED
      BY <1>6, <1>7, <1>9, <2>1, ReleasedKeeps
  <1> QED
    BY <1>8, <1>9

-----------------------------------------------------------------------------
(* The connector. *)
LEMMA ConnectorLinksStep ==
  ASSUME TransportAssumption, LeaseInv, NEW t \in Transports, ConnectorLinks(t)
  PROVE  Kept
  <1> DEFINE s == [Here(t) EXCEPT !.links = @ \cup {t}, !.me.connecting = TRUE]
  <1>0. /\ Here(t).me = transport[t] /\ Here(t) \in Chain
        /\ Here(t).record = record /\ Here(t).tasks = tasks
    BY HereFields
  <1>1. /\ s.record = record /\ s.tasks = tasks /\ s \in Chain
        /\ s.me = [transport[t] EXCEPT !.connecting = TRUE]
    BY <1>0 DEF Chain, Transport
  <1>2. Become(t, s)
    BY DEF ConnectorLinks
  <1> HIDE DEF s
  <1>3. /\ s.me.token = transport[t].token /\ s.me.at = transport[t].at
        /\ s.me.why = transport[t].why
        /\ s.me.client = transport[t].client /\ s.me.late = transport[t].late
        /\ s.me.connector = transport[t].connector
        /\ s.me.detached = transport[t].detached /\ s.me.known = transport[t].known
    BY HereFields, <1>1 DEF Transport
  <1>4. Pending(s.me) <=> Pending(transport[t])
    BY <1>3 DEF Pending
  <1>5. RunnerInv(s.me)
    BY HereFields, <1>3, <1>4 DEF RunnerInv
  <1>6. Good(t, s)
    <2>1. /\ s.record = Here(t).record /\ s.tasks = Here(t).tasks /\ s \in Chain
          /\ s.me.token = Here(t).me.token
      BY <1>0, <1>1, <1>3
    <2> QED
      BY <2>1, HereIsGood, GoodChange
  <1> QED
    BY <1>2, <1>5, <1>6, BecomeKeeps DEF Kept

LEMMA MarkCleanupIsGood ==
  ASSUME TransportAssumption, NEW t \in Transports, NEW s, Good(t, s)
  PROVE  /\ Good(t, MarkCleanup(s)) /\ MarkCleanup(s).me = s.me
         /\ MarkCleanup(s).tasks = s.tasks /\ MarkCleanup(s) \in Chain
  <1> DEFINE r == MarkCleanup(s)
  <1>1. /\ r.me = s.me /\ r.tasks = s.tasks /\ r.links = s.links /\ r \in Chain
        /\ r.record.serial = s.record.serial /\ r.record.owner = s.record.owner
        /\ r.record.release = s.record.release
        /\ s.record.cleanup => r.record.cleanup
    BY DEF MarkCleanup, Good, Chain, Record
  <1> HIDE DEF r
  <1>2. Owned(s) => Owned(r)
    BY <1>1 DEF Owned
  <1>3. Good(t, r)
    BY <1>1, <1>2 DEF Good, Holds, Tracked, Inherits
  <1> QED
    BY <1>1, <1>3 DEF r

(* A task that the transport begins under its own token. *)
LEMMA NewTask ==
  ASSUME TransportAssumption, NEW t \in Transports, NEW s, Good(t, s),
         NEW c \in Calls, NEW r \in Chain, r.record = s.record,
         r.me.token = s.me.token, r.tasks = s.tasks \cup {Call(t, c, s.me.token)}
  PROVE  Good(t, r)
  <1>1. Inherits(r, t)
    BY DEF Good, Inherits, Owned
  <1>2. Tracked(r.record, Call(t, c, s.me.token))
    BY DEF Good, Holds, Tracked, Call
  <1> QED
    BY <1>1, <1>2 DEF Good

LEMMA ConnectorEndsStep ==
  ASSUME TransportAssumption, LeaseInv, NEW t \in Transports, ConnectorEnds(t)
  PROVE  Kept
  <1> DEFINE e == Ended(t, Here(t), "connector")
             f(o) == [e EXCEPT !.me.connector = o]
             g(o) == [MarkCleanup(f(o)) EXCEPT
                        !.me.late = "ready",
                        !.tasks = @ \cup {Call(t, "late", f(o).me.token)}]
  <1>1. PICK o \in {"returned", "failed"} :
          Become(t, IF ~f(o).me.detached THEN f(o) ELSE g(o))
    BY DEF ConnectorEnds
  <1>2. Good(t, e) /\ e.me = transport[t] /\ e \in Chain
    BY HereFields, SettledIsGood DEF Calls, Good
  <1>3. transport[t].connector = "running" /\ transport[t].token # NoToken
    BY HereFields DEF ConnectorEnds, RunnerInv, Pending
  <1> DEFINE s == f(o)
  <1>4. /\ s.record = e.record /\ s.tasks = e.tasks /\ s \in Chain
        /\ s.me = [transport[t] EXCEPT !.connector = o]
    <2> HIDE DEF e
    <2> QED
      BY <1>2 DEF Chain, Transport
  <1> DEFINE r == g(o)
  <1>5. r = [MarkCleanup(s) EXCEPT !.me.late = "ready",
                                   !.tasks = @ \cup {Call(t, "late", s.me.token)}]
    OBVIOUS
  <1>6. Become(t, IF ~s.me.detached THEN s ELSE r)
    BY <1>1
  <1> HIDE DEF e, f, g, s, r
  <1>7. /\ s.me \in Transport
        /\ s.me.token = transport[t].token /\ s.me.at = transport[t].at
        /\ s.me.why = transport[t].why
        /\ s.me.client = transport[t].client /\ s.me.late = transport[t].late
        /\ s.me.connector = o
        /\ s.me.detached = transport[t].detached /\ s.me.known = transport[t].known
    BY HereFields, <1>4 DEF Transport, Chain
  <1>8. Good(t, s)
    BY <1>2, <1>4, <1>7, GoodChange
  <1>9. CASE ~transport[t].detached
    <2>1. Pending(s.me) => Pending(transport[t])
      BY <1>3, <1>7, <1>9 DEF Pending
    <2>2. RunnerInv(s.me)
      BY HereFields, <1>3, <1>7, <1>9, <2>1 DEF RunnerInv
    <2> QED
      BY <1>6, <1>7, <1>8, <1>9, <2>2, BecomeKeeps DEF Kept
  <1>10. CASE transport[t].detached
    <2> DEFINE m == MarkCleanup(s)
    <2>1. Good(t, m) /\ m.me = s.me /\ m.tasks = s.tasks /\ m \in Chain
      BY <1>8, MarkCleanupIsGood
    <2>2. "late" \in Calls
      BY DEF Calls
    <2>3. Call(t, "late", s.me.token) \in Task
      BY <1>7, <2>2 DEF Task, Call, Parties, Transport
    <2>4. /\ r.record = m.record /\ r.tasks = m.tasks \cup {Call(t, "late", s.me.token)}
          /\ r \in Chain /\ r.me = [s.me EXCEPT !.late = "ready"]
      <3> HIDE DEF m
      <3> QED
        BY <1>5, <1>7, <2>1, <2>3 DEF Chain, Transport, m
    <2> HIDE DEF m
    <2>5. /\ r.me.token = s.me.token /\ r.me.at = s.me.at /\ r.me.why = s.me.why
          /\ r.me.client = s.me.client /\ r.me.late = "ready"
          /\ r.me.connector = s.me.connector
          /\ r.me.detached = s.me.detached /\ r.me.known = s.me.known
      BY <1>7, <2>4 DEF Transport
    <2>6. Good(t, r)
      <3>1. /\ r \in Chain /\ r.record = m.record /\ r.me.token = m.me.token
            /\ r.tasks = m.tasks \cup {Call(t, "late", m.me.token)}
        BY <2>1, <2>4, <2>5
      <3>2. Good(t, m)
        BY <2>1
      <3> QED
        BY <2>2, <3>1, <3>2, NewTask
    <2>7. Pending(transport[t]) /\ Pending(r.me)
      BY <1>3, <2>5 DEF Pending
    <2>8. RunnerInv(r.me)
      <3>1. /\ r.me.token = transport[t].token /\ r.me.at = transport[t].at
            /\ r.me.why = transport[t].why /\ r.me.client = transport[t].client
            /\ r.me.detached /\ r.me.known = transport[t].known
        BY <1>7, <1>10, <2>5
      <3> QED
        BY HereFields, <1>3, <1>10, <2>5, <2>7, <3>1 DEF RunnerInv
    <2> QED
      BY <1>6, <1>7, <1>10, <2>6, <2>8, BecomeKeeps DEF Kept
  <1> QED
    BY <1>9, <1>10

LEMMA AdoptStep ==
  ASSUME TransportAssumption, LeaseInv, NEW t \in Transports, Adopt(t)
  PROVE  Kept
  <1> DEFINE s == [Here(t) EXCEPT !.me.connector = "none", !.me.connecting = FALSE,
                                  !.me.client = TRUE, !.me.at = "connected"]
  <1>0. /\ Here(t).me = transport[t] /\ Here(t) \in Chain
        /\ Here(t).record = record /\ Here(t).tasks = tasks
    BY HereFields
  <1>1. /\ s.record = record /\ s.tasks = tasks /\ s \in Chain
        /\ s.me = [transport[t] EXCEPT !.connector = "none", !.connecting = FALSE,
                                       !.client = TRUE, !.at = "connected"]
    BY <1>0 DEF Chain, Transport, Points
  <1>2. Become(t, s) /\ transport[t].at = "establishing"
    BY DEF Adopt
  <1> HIDE DEF s
  <1>3. /\ s.me.token = transport[t].token /\ s.me.at = "connected"
        /\ s.me.client = TRUE /\ s.me.late = transport[t].late
        /\ s.me.connector = "none"
        /\ s.me.detached = transport[t].detached /\ s.me.known = transport[t].known
    BY HereFields, <1>1 DEF Transport
  <1>4. transport[t].late = "none" /\ transport[t].token # NoToken
    BY HereFields, <1>2 DEF RunnerInv
  <1>5. ~Pending(s.me)
    BY <1>3, <1>4 DEF Pending
  <1>6. RunnerInv(s.me)
    BY HereFields, <1>3, <1>4, <1>5 DEF RunnerInv
  <1>7. Good(t, s)
    <2>1. /\ s.record = Here(t).record /\ s.tasks = Here(t).tasks /\ s \in Chain
          /\ s.me.token = Here(t).me.token
      BY <1>0, <1>1, <1>3
    <2> QED
      BY <2>1, HereIsGood, GoodChange
  <1> QED
    BY <1>2, <1>6, <1>7, BecomeKeeps DEF Kept

(* An attempt is given up: the connector is detached, or it has ended and  *)
(* is released.                                                            *)
LEMMA GiveUpKeeps ==
  ASSUME TransportAssumption, LeaseInv, NEW t \in Transports, NEW s, Good(t, s),
         s.me.token # NoToken, s.me.known, s.me.late = "none", ~s.me.client,
         NEW why \in Aborts,
         Become(t, GiveUp(t, s, why))
  PROVE  Kept
  <1>1. s.me \in Transport /\ s \in Chain
    BY DEF Good, Chain
  <1>2. CASE s.me.connector = "running"
    <2> DEFINE m == MarkCleanup(s)
               r == [m EXCEPT !.me.detached = TRUE, !.me.at = "cancelling"]
    <2>1. Good(t, m) /\ m.me = s.me /\ m \in Chain
      BY MarkCleanupIsGood
    <2>2. Become(t, r)
      BY <1>2 DEF GiveUp, Detach
    <2> HIDE DEF m
    <2>3. /\ r.record = m.record /\ r.tasks = m.tasks /\ r \in Chain
          /\ r.me = [s.me EXCEPT !.detached = TRUE, !.at = "cancelling"]
      BY <1>1, <2>1 DEF Chain, Transport, Points
    <2> HIDE DEF r
    <2>4. /\ r.me.token = s.me.token /\ r.me.at = "cancelling"
          /\ r.me.client = s.me.client /\ r.me.late = s.me.late
          /\ r.me.connector = s.me.connector
          /\ r.me.detached = TRUE /\ r.me.known = s.me.known
      BY <1>1, <2>3 DEF Transport
    <2>5. RunnerInv(r.me)
      BY <1>2, <2>4 DEF RunnerInv, Pending
    <2>6. Good(t, r)
      <3>1. /\ r \in Chain /\ r.record = m.record /\ r.tasks = m.tasks
            /\ r.me.token = m.me.token
        BY <2>1, <2>3, <2>4
      <3>2. Good(t, m)
        BY <2>1
      <3> QED
        BY <3>1, <3>2, GoodChange
    <2> QED
      BY <2>2, <2>5, <2>6, BecomeKeeps DEF Kept
  <1>3. CASE s.me.connector # "running"
    <2> DEFINE r == [s EXCEPT !.me.connector = "none"]
    <2>1. /\ r.record = s.record /\ r.tasks = s.tasks /\ r \in Chain
          /\ r.me = [s.me EXCEPT !.connector = "none"]
      BY <1>1 DEF Chain, Transport
    <2>2. Become(t, Abort(t, r, why))
      BY <1>3 DEF GiveUp
    <2> HIDE DEF r
    <2>3. /\ r.me.token = s.me.token /\ r.me.client = s.me.client
          /\ r.me.late = s.me.late /\ r.me.connector = "none"
          /\ r.me.known = s.me.known
      BY <1>1, <2>1 DEF Transport
    <2>4. Good(t, r)
      BY <2>1, <2>3, GoodChange
    <2>5. Between(r.me) /\ ~r.me.client /\ ~Pending(r.me)
      BY <2>3 DEF Between, Pending
    <2> QED
      BY <2>2, <2>4, <2>5, AbortKeeps
  <1> QED
    BY <1>2, <1>3

LEMMA AttemptFailsStep ==
  ASSUME TransportAssumption, LeaseInv, NEW t \in Transports, AttemptFails(t)
  PROVE  Kept
  <1>1. /\ transport[t].at = "establishing" /\ transport[t].connector = "failed"
        /\ transport[t] \in Transport /\ RunnerInv(transport[t])
    BY HereFields DEF AttemptFails
  <1>2. /\ transport[t].token # NoToken /\ transport[t].known
        /\ transport[t].late = "none" /\ ~transport[t].client
    BY <1>1 DEF RunnerInv
  <1>3. Good(t, Here(t)) /\ Here(t).me = transport[t]
    BY HereFields
  <1>4. Become(t, GiveUp(t, Here(t), "connection_failed"))
    BY <1>1, <1>3 DEF AttemptFails, GiveUp
  <1>5. "connection_failed" \in Aborts
    BY DEF Aborts
  <1> QED
    BY <1>1, <1>2, <1>3, <1>4, <1>5, GiveUpKeeps

LEMMA DeadlinePassesStep ==
  ASSUME TransportAssumption, LeaseInv, NEW t \in Transports, DeadlinePasses(t)
  PROVE  Kept
  <1> DEFINE r == Await(t, Here(t), "diagnosis", "diagnosing", transport[t].why)
  <1>1. /\ transport[t].at = "establishing" /\ transport[t].connector = "running"
        /\ transport[t] \in Transport /\ RunnerInv(transport[t])
        /\ Good(t, Here(t)) /\ Here(t).me = transport[t] /\ Become(t, r)
    BY HereFields DEF DeadlinePasses
  <1>2. transport[t].why \in Aborts \cup Ends
    BY <1>1 DEF Transport
  <1>3. "diagnosis" \in Calls /\ "diagnosing" \in Points
    BY DEF Calls, Points
  <1>4. Good(t, r) /\ r.me = Moved(transport[t], "diagnosing", transport[t].why)
    BY <1>1, <1>2, <1>3, AwaitIsGood
  <1>5. Become(t, r)
    BY <1>1
  <1> HIDE DEF r
  <1>6. /\ r.me.at = "diagnosing" /\ r.me.token = transport[t].token
        /\ r.me.client = transport[t].client
        /\ r.me.connector = transport[t].connector
        /\ r.me.detached = transport[t].detached /\ r.me.late = transport[t].late
        /\ r.me.known = transport[t].known
    BY <1>1, <1>4, MovedFields
  <1>7. RunnerInv(r.me)
    BY <1>1, <1>6 DEF RunnerInv
  <1> QED
    BY <1>4, <1>5, <1>7, BecomeKeeps DEF Kept

LEMMA DiagnosedStep ==
  ASSUME TransportAssumption, LeaseInv, NEW t \in Transports, Diagnosed(t)
  PROVE  Kept
  <1>1. PICK s \in Settled(t, Here(t), "diagnosis") :
          Become(t, GiveUp(t, s, "connection_timeout"))
    BY DEF Diagnosed
  <1>2. Good(t, s) /\ s.me = transport[t]
    BY HereFields, SettledKeeps DEF Calls
  <1>3. transport[t].at = "diagnosing" /\ RunnerInv(transport[t])
    BY HereFields DEF Diagnosed
  <1>4. /\ transport[t].token # NoToken /\ transport[t].known
        /\ transport[t].late = "none" /\ ~transport[t].client
    BY <1>3 DEF RunnerInv
  <1>5. "connection_timeout" \in Aborts
    BY DEF Aborts
  <1> QED
    BY <1>1, <1>2, <1>4, <1>5, GiveUpKeeps

(* The tail of a cancelled connector is over. *)
LEMMA AfterTailKeeps ==
  ASSUME TransportAssumption, LeaseInv, NEW t \in Transports, NEW s, Good(t, s),
         Between(s.me), ~s.me.client, Become(t, AfterTail(t, s))
  PROVE  Kept
  <1>1. "connection_cancelled" \in Aborts
    BY DEF Aborts
  <1>2. CASE s.me.stopping /\ ~Pending(s.me)
    BY <1>1, <1>2, AbortKeeps DEF AfterTail
  <1>3. CASE ~(s.me.stopping /\ ~Pending(s.me))
    BY <1>3, EndCycleKeeps DEF AfterTail
  <1> QED
    BY <1>2, <1>3

LEMMA StopWaitingStep ==
  ASSUME TransportAssumption, LeaseInv, NEW t \in Transports, StopWaiting(t)
  PROVE  Kept
  <1>1. /\ transport[t].at = "cancelling" /\ transport[t] \in Transport
        /\ RunnerInv(transport[t]) /\ Good(t, Here(t)) /\ Here(t).me = transport[t]
        /\ Become(t, AfterTail(t, Here(t)))
    BY HereFields DEF StopWaiting
  <1>2. Between(transport[t]) /\ ~transport[t].client
    BY <1>1, IsBetween DEF RunnerInv
  <1> QED
    BY <1>1, <1>2, AfterTailKeeps

-----------------------------------------------------------------------------
(* The late clean-up.  It leaves the runner where it is. *)
LEMMA LateKeeps ==
  ASSUME TransportAssumption, LeaseInv, NEW t \in Transports, NEW r,
         transport[t].late # "none", Good(t, r), Become(t, r),
         r.me.at = transport[t].at, r.me.why = transport[t].why,
         r.me.client = transport[t].client, r.me.known = transport[t].known,
         r.me.connector = "none",
         \/ r.me.late # "none" /\ r.me.token = transport[t].token
         \/ r.me.late = "none" /\ r.me.token = NoToken
  PROVE  Kept
  <1>1. RunnerInv(transport[t]) /\ Pending(transport[t])
    BY HereFields DEF Pending
  <1>2. RunnerInv(r.me)
    <2>1. /\ transport[t].token # NoToken
          /\ transport[t].at \notin
               {"closing", "connected", "establishing", "diagnosing"}
          /\ ~(transport[t].at = "disconnecting"
               /\ transport[t].why = "before_connection")
          /\ ~transport[t].client /\ transport[t].known
      BY <1>1 DEF RunnerInv
    <2>2. CASE r.me.late # "none"
      <3>1. Pending(r.me) /\ r.me.token # NoToken
        BY <2>1, <2>2 DEF Pending
      <3> QED
        BY <2>1, <3>1 DEF RunnerInv
    <2>3. CASE r.me.late = "none" /\ r.me.token = NoToken
      <3>1. ~Pending(r.me)
        BY <2>3 DEF Pending
      <3> QED
        BY <2>1, <2>3, <3>1 DEF RunnerInv
    <2> QED
      BY <2>2, <2>3
  <1> QED
    BY <1>2, BecomeKeeps DEF Kept

Cleaning(m, p) == [m EXCEPT !.late = p]

LEMMA LateAwaitIsGood ==
  ASSUME TransportAssumption, NEW t \in Transports, NEW s, Good(t, s),
         NEW c \in Calls, NEW p \in {"disconnecting", "closing"}
  PROVE  /\ Good(t, LateAwait(t, s, c, p))
         /\ LateAwait(t, s, c, p).me = Cleaning(s.me, p)
         /\ LateAwait(t, s, c, p).links = s.links
  <1> DEFINE r == LateAwait(t, s, c, p)
  <1>1. s \in Chain /\ s.me \in Transport
    BY DEF Good, Chain
  <1>2. Call(t, c, s.me.token) \in Task
    BY <1>1 DEF Task, Call, Parties, Transport
  <1>3. /\ r.record = s.record /\ r.tasks = s.tasks \cup {Call(t, c, s.me.token)}
        /\ r.me = Cleaning(s.me, p) /\ r.links = s.links /\ r \in Chain
    BY <1>1, <1>2 DEF LateAwait, Chain, Transport, Cleaning
  <1> HIDE DEF r
  <1>4. r.me.token = s.me.token
    BY <1>1, <1>3 DEF Transport, Cleaning
  <1>5. /\ r \in Chain /\ r.record = s.record
        /\ r.tasks = s.tasks \cup {Call(t, c, s.me.token)}
    BY <1>3
  <1>6. Good(t, r)
    BY <1>4, <1>5, NewTask
  <1> QED
    BY <1>3, <1>6 DEF r

LEMMA LateStartsStep ==
  ASSUME TransportAssumption, LeaseInv, NEW t \in Transports, LateStarts(t)
  PROVE  Kept
  <1> DEFINE s == [Here(t) EXCEPT !.me.connector = "none", !.me.detached = FALSE]
  <1>1. /\ transport[t] \in Transport /\ transport[t].late = "ready"
        /\ Here(t).me = transport[t] /\ Here(t) \in Chain
    BY HereFields DEF LateStarts
  <1>2. /\ s.record = Here(t).record /\ s.tasks = Here(t).tasks /\ s \in Chain
        /\ s.me = [transport[t] EXCEPT !.connector = "none", !.detached = FALSE]
    BY <1>1 DEF Chain, Transport
  <1>3. \E c \in {"disconnect", "close"}, p \in {"disconnecting", "closing"} :
          Become(t, LateAwait(t, s, c, p))
    BY DEF LateStarts
  <1> HIDE DEF s
  <1>4. PICK c \in {"disconnect", "close"}, p \in {"disconnecting", "closing"} :
          Become(t, LateAwait(t, s, c, p))
    BY <1>3
  <1>5. /\ s.me.token = transport[t].token /\ s.me.at = transport[t].at
        /\ s.me.why = transport[t].why /\ s.me.client = transport[t].client
        /\ s.me.known = transport[t].known /\ s.me.connector = "none"
        /\ s.me \in Transport
    BY <1>1, <1>2 DEF Transport, Chain
  <1>6. Good(t, s)
    <2>1. /\ s.record = Here(t).record /\ s.tasks = Here(t).tasks /\ s \in Chain
          /\ s.me.token = Here(t).me.token
      BY <1>1, <1>2, <1>5
    <2> QED
      BY <2>1, HereIsGood, GoodChange
  <1> DEFINE r == LateAwait(t, s, c, p)
  <1>7. c \in Calls
    BY DEF Calls
  <1>8. Good(t, r) /\ r.me = Cleaning(s.me, p) /\ Become(t, r)
    BY <1>4, <1>6, <1>7, LateAwaitIsGood
  <1> HIDE DEF r
  <1>9. /\ r.me.token = transport[t].token /\ r.me.at = transport[t].at
        /\ r.me.why = transport[t].why /\ r.me.client = transport[t].client
        /\ r.me.known = transport[t].known /\ r.me.connector = "none"
        /\ r.me.late # "none"
    BY <1>5, <1>8 DEF Transport, Cleaning
  <1>10. Good(t, r) /\ Become(t, r) /\ transport[t].late # "none"
    BY <1>1, <1>8
  <1> QED
    BY <1>9, <1>10, LateKeeps

LEMMA LateDisconnectedStep ==
  ASSUME TransportAssumption, LeaseInv, NEW t \in Transports, LateDisconnected(t)
  PROVE  Kept
  <1>1. PICK s \in Settled(t, Here(t), "disconnect"), gone \in BOOLEAN :
          Become(t, [LateAwait(t, s, "close", "closing") EXCEPT
                       !.links = IF gone THEN @ \ {t} ELSE @])
    BY DEF LateDisconnected
  <1>2. Good(t, s) /\ s.me = transport[t]
    BY HereFields, SettledKeeps DEF Calls
  <1>3. /\ transport[t] \in Transport /\ transport[t].late = "disconnecting"
        /\ transport[t].connector = "none"
    BY HereFields DEF LateDisconnected, RunnerInv
  <1> DEFINE q == LateAwait(t, s, "close", "closing")
  <1>4. Good(t, q) /\ q.me = Cleaning(transport[t], "closing") /\ q.links = s.links
    BY <1>2, LateAwaitIsGood DEF Calls
  <1>5. Become(t, [q EXCEPT !.links = IF gone THEN q.links \ {t} ELSE q.links])
    BY <1>1
  <1> HIDE DEF q
  <1> DEFINE L == IF gone THEN q.links \ {t} ELSE q.links
             r == [q EXCEPT !.links = L]
  <1>6. L \in SUBSET Transports
    BY <1>4 DEF Good, Chain
  <1>7. Become(t, r)
    BY <1>5
  <1> HIDE DEF L
  <1>8. Good(t, r) /\ r.me = q.me
    BY <1>4, <1>6, LinksChange
  <1> HIDE DEF r
  <1>9. /\ r.me.token = transport[t].token /\ r.me.at = transport[t].at
        /\ r.me.why = transport[t].why /\ r.me.client = transport[t].client
        /\ r.me.known = transport[t].known /\ r.me.connector = "none"
        /\ r.me.late # "none"
    BY <1>3, <1>4, <1>8 DEF Transport, Cleaning
  <1>10. Good(t, r) /\ transport[t].late # "none"
    BY <1>3, <1>8
  <1> QED
    BY <1>7, <1>9, <1>10, LateKeeps

LEMMA LateClosedStep ==
  ASSUME TransportAssumption, LeaseInv, NEW t \in Transports, LateClosed(t)
  PROVE  Kept
  <1>1. PICK clean \in BOOLEAN, s \in Settled(t, Here(t), "close") :
          Become(t, LateEnd(t, [s EXCEPT !.links = IF clean THEN {} ELSE @,
                                         !.me.connecting = @ /\ ~clean]))
    BY DEF LateClosed
  <1>2. Good(t, s) /\ s.me = transport[t]
    BY HereFields, SettledKeeps DEF Calls
  <1>3. /\ transport[t] \in Transport /\ transport[t].late = "closing"
        /\ transport[t].connector = "none"
    BY HereFields DEF LateClosed, RunnerInv
  <1> DEFINE q == [s EXCEPT !.links = IF clean THEN {} ELSE @,
                            !.me.connecting = @ /\ ~clean]
             e == Ended(t, q, "late")
             v == Release(e)
             r == [v EXCEPT !.me.late = "none"]
  <1>4. Become(t, r)
    BY <1>1 DEF LateEnd
  <1>5. /\ q.record = s.record /\ q.tasks = s.tasks /\ q \in Chain
        /\ q.me = [transport[t] EXCEPT !.connecting = @ /\ ~clean]
    BY <1>2, <1>3 DEF Good, Chain, Transport
  <1> HIDE DEF q
  <1>6. /\ q.me.token = transport[t].token /\ q.me.at = transport[t].at
        /\ q.me.why = transport[t].why /\ q.me.client = transport[t].client
        /\ q.me.known = transport[t].known /\ q.me.connector = "none"
        /\ q.me \in Transport
    BY <1>3, <1>5 DEF Transport, Chain
  <1>7. Good(t, q)
    <2>1. /\ q.record = s.record /\ q.tasks = s.tasks /\ q \in Chain
          /\ q.me.token = s.me.token
      BY <1>2, <1>5, <1>6
    <2> QED
      BY <1>2, <2>1, GoodChange
  <1>8. Good(t, e) /\ e.me = q.me
    BY <1>7, SettledIsGood DEF Calls
  <1> HIDE DEF e
  <1>9. Good(t, v) /\ v.me = [e.me EXCEPT !.token = NoToken]
    BY <1>8, ReleaseIsGood
  <1>10. v \in Chain /\ v.me \in Transport
    BY <1>9 DEF Good, Chain
  <1> HIDE DEF v
  <1>11. /\ r.record = v.record /\ r.tasks = v.tasks /\ r \in Chain
         /\ r.me = [v.me EXCEPT !.late = "none"]
    BY <1>10 DEF Chain, Transport
  <1> HIDE DEF r
  <1>12. /\ v.me.at = q.me.at /\ v.me.why = q.me.why /\ v.me.client = q.me.client
         /\ v.me.known = q.me.known /\ v.me.connector = q.me.connector
         /\ v.me.token = NoToken
    BY <1>6, <1>8, <1>9 DEF Transport
  <1>13. /\ r.me.at = v.me.at /\ r.me.why = v.me.why /\ r.me.client = v.me.client
         /\ r.me.known = v.me.known /\ r.me.connector = v.me.connector
         /\ r.me.token = v.me.token /\ r.me.late = "none"
    BY <1>10, <1>11 DEF Transport
  <1>14. Good(t, r)
    <2>1. /\ r.record = v.record /\ r.tasks = v.tasks /\ r \in Chain
          /\ r.me.token = v.me.token
      BY <1>11, <1>13
    <2>2. Good(t, v)
      BY <1>9
    <2> QED
      BY <2>1, <2>2, GoodChange
  <1>15. /\ transport[t].late # "none"
         /\ r.me.at = transport[t].at /\ r.me.why = transport[t].why
         /\ r.me.client = transport[t].client /\ r.me.known = transport[t].known
         /\ r.me.connector = "none" /\ r.me.late = "none" /\ r.me.token = NoToken
    BY <1>3, <1>6, <1>12, <1>13
  <1> QED
    BY <1>4, <1>14, <1>15, LateKeeps

-----------------------------------------------------------------------------
(* The session and the shutdown. *)
LEMMA LeaveSessionKeeps ==
  ASSUME TransportAssumption, LeaseInv, NEW t \in Transports, NEW s, Good(t, s),
         Between(s.me), NEW r \in LeaveSession(t, s), Become(t, r)
  PROVE  Kept
  <1>1. PICK q \in {s, Abandoned(t, s, "session")} : r = EndCycle(t, q)
    BY DEF LeaveSession
  <1>2. Good(t, q) /\ q.me = s.me
    BY SettledIsGood DEF Calls
  <1>3. Become(t, EndCycle(t, q)) /\ Between(q.me)
    BY <1>1, <1>2
  <1> QED
    BY <1>2, <1>3, EndCycleKeeps

LEMMA SessionEndsStep ==
  ASSUME TransportAssumption, LeaseInv, NEW t \in Transports, SessionEnds(t)
  PROVE  Kept
  <1>1. /\ transport[t].at = "connected" /\ transport[t] \in Transport
        /\ RunnerInv(transport[t]) /\ Good(t, Here(t)) /\ Here(t).me = transport[t]
    BY HereFields DEF SessionEnds
  <1>2. Between(Here(t).me)
    BY <1>1, IsBetween
  <1>3. PICK r \in LeaveSession(t, Here(t)) : Become(t, r)
    BY DEF SessionEnds
  <1> QED
    BY <1>1, <1>2, <1>3, LeaveSessionKeeps

LEMMA StopStep ==
  ASSUME TransportAssumption, LeaseInv, NEW t \in Transports, Stop(t)
  PROVE  Kept
  <1>1. /\ transport[t].at = "unwound" /\ transport[t] \in Transport
        /\ RunnerInv(transport[t]) /\ Good(t, Here(t)) /\ Here(t).me = transport[t]
        /\ Become(t, End(t, Here(t), "shutdown"))
    BY HereFields DEF Stop
  <1>2. Between(Here(t).me)
    BY <1>1, IsBetween
  <1>3. "shutdown" \in Ends
    BY DEF Ends
  <1> QED
    BY <1>1, <1>2, <1>3, EndIsDone, BecomeKeeps DEF Kept

LEMMA UnwoundKeeps ==
  ASSUME TransportAssumption, LeaseInv, NEW t \in Transports, NEW s, Good(t, s),
         Between(s.me), ~s.me.client, Become(t, Unwound(s))
  PROVE  Kept
  <1> DEFINE r == Unwound(s)
  <1>1. s.me \in Transport /\ s \in Chain
    BY DEF Good, Chain
  <1>2. /\ r.record = s.record /\ r.tasks = s.tasks /\ r \in Chain
        /\ r.me = [s.me EXCEPT !.at = "unwound"] /\ Become(t, r)
    BY <1>1 DEF Unwound, Chain, Transport, Points
  <1> HIDE DEF r
  <1>3. /\ r.me.at = "unwound" /\ r.me.token = s.me.token /\ r.me.client = s.me.client
        /\ r.me.connector = s.me.connector /\ r.me.detached = s.me.detached
        /\ r.me.late = s.me.late /\ r.me.known = s.me.known
    BY <1>1, <1>2 DEF Transport
  <1>4. Pending(r.me) <=> Pending(s.me)
    BY <1>3 DEF Pending
  <1>5. RunnerInv(r.me)
    BY <1>3, <1>4 DEF RunnerInv, Between
  <1>6. /\ r.record = s.record /\ r.tasks = s.tasks /\ r \in Chain
        /\ r.me.token = s.me.token /\ Become(t, r)
    BY <1>2, <1>3
  <1>7. Good(t, r)
    BY <1>6, GoodChange
  <1> QED
    BY <1>5, <1>6, <1>7, BecomeKeeps DEF Kept

(* A clean-up under way when the runner is cancelled gives the address back. *)
LEMMA ReleasedIsBetween ==
  ASSUME TransportAssumption, NEW t \in Transports, NEW s, Good(t, s),
         RunnerInv(s.me), ~Pending(s.me), ~s.me.client,
         s.me.at \notin {"establishing", "diagnosing"}
  PROVE  /\ Good(t, Release(s)) /\ Between(Release(s).me)
         /\ ~Release(s).me.client
  <1>1. /\ Good(t, Release(s)) /\ Release(s).me = [s.me EXCEPT !.token = NoToken]
        /\ s.me \in Transport
    BY ReleaseIsGood DEF Good, Chain
  <1>2. s.me.connector = "none"
    BY DEF RunnerInv, Pending
  <1> DEFINE r == Release(s)
  <1> HIDE DEF r
  <1>3. r.me = [s.me EXCEPT !.token = NoToken]
    BY <1>1 DEF r
  <1>4. /\ r.me.token = NoToken /\ r.me.client = s.me.client
        /\ r.me.connector = "none" /\ r.me.late = s.me.late
    BY <1>1, <1>2, <1>3 DEF Transport
  <1>5. Between(r.me) /\ ~r.me.client
    BY <1>4 DEF Between, Pending
  <1> QED
    BY <1>1, <1>5 DEF r

LEMMA ShutdownStep ==
  ASSUME TransportAssumption, LeaseInv, NEW t \in Transports, Shutdown(t)
  PROVE  Kept
  <1> DEFINE s == [Here(t) EXCEPT !.me.stopping = TRUE]
  <1>1. /\ transport[t] \in Transport /\ RunnerInv(transport[t])
        /\ Here(t).me = transport[t] /\ Here(t) \in Chain
    BY HereFields
  <1>2. /\ s.record = Here(t).record /\ s.tasks = Here(t).tasks /\ s \in Chain
        /\ s.me = [transport[t] EXCEPT !.stopping = TRUE]
    BY <1>1 DEF Chain, Transport
  <1>3. PICK r \in Interrupted(t, s) : Become(t, r)
    BY DEF Shutdown
  <1> HIDE DEF s
  <1>4. /\ s.me.token = transport[t].token /\ s.me.at = transport[t].at
        /\ s.me.why = transport[t].why /\ s.me.client = transport[t].client
        /\ s.me.connector = transport[t].connector
        /\ s.me.detached = transport[t].detached /\ s.me.late = transport[t].late
        /\ s.me.known = transport[t].known /\ s.me \in Transport
    BY <1>1, <1>2 DEF Transport, Chain
  <1>5. Good(t, s)
    <2>1. /\ s.record = Here(t).record /\ s.tasks = Here(t).tasks /\ s \in Chain
          /\ s.me.token = Here(t).me.token
      BY <1>1, <1>2, <1>4
    <2> QED
      BY <2>1, HereIsGood, GoodChange
  <1>6. RunnerInv(s.me)
    <2>1. Pending(s.me) <=> Pending(transport[t])
      BY <1>4 DEF Pending
    <2> QED
      BY <1>1, <1>4, <2>1 DEF RunnerInv
  <1>7. s.me.at \notin {"establishing", "diagnosing"} => Between(s.me)
    BY <1>4, <1>6, IsBetween
  <1>8. s.me.at # "connected" => ~s.me.client
    BY <1>6 DEF RunnerInv
  <1>9. "connection_cancelled" \in Aborts
    BY DEF Aborts
  <1>10. CASE s.me.at = "idle"
    <2>1. r \in {Unwound(s), EndCycle(t, s)}
      BY <1>10 DEF Interrupted
    <2> QED
      BY <1>3, <1>5, <1>7, <1>8, <1>10, <2>1, UnwoundKeeps, EndCycleKeeps
  <1>11. CASE s.me.at = "disconnecting" /\ s.me.why = "before_connection"
    <2>1. PICK q \in Settled(t, s, "disconnect") : r = EndCycle(t, Release(q))
      BY <1>11 DEF Interrupted, Aborts, Ends
    <2>2. Good(t, q) /\ q.me = s.me
      BY <1>5, SettledKeeps DEF Calls
    <2>3. ~Pending(s.me) /\ ~s.me.client
      BY <1>6, <1>8, <1>11 DEF RunnerInv
    <2>4. Good(t, Release(q)) /\ Between(Release(q).me)
      BY <1>6, <1>11, <2>2, <2>3, ReleasedIsBetween
    <2> QED
      BY <1>3, <2>1, <2>4, EndCycleKeeps
  <1>12. CASE s.me.at = "disconnecting" /\ s.me.why \in Aborts \ {"before_connection"}
    <2>1. PICK q \in Settled(t, s, "disconnect") : r = EndCycle(t, q)
      BY <1>12 DEF Interrupted, Aborts, Ends
    <2>2. Good(t, q) /\ q.me = s.me
      BY <1>5, SettledKeeps DEF Calls
    <2> QED
      BY <1>3, <1>7, <1>12, <2>1, <2>2, EndCycleKeeps
  <1>13. CASE s.me.at = "disconnecting" /\ s.me.why \in Ends
    <2>1. PICK q \in Settled(t, s, "disconnect") : r = Unwound(q)
      BY <1>13 DEF Interrupted, Aborts, Ends
    <2>2. Good(t, q) /\ q.me = s.me
      BY <1>5, SettledKeeps DEF Calls
    <2> QED
      BY <1>3, <1>7, <1>8, <1>13, <2>1, <2>2, UnwoundKeeps
  <1>14. CASE s.me.at = "closing"
    <2>1. PICK q \in Settled(t, s, "close") :
            r = EndCycle(t, Release(q)) \/ r = Unwound(Release(q))
      BY <1>4, <1>14 DEF Interrupted, Transport
    <2>2. Good(t, q) /\ q.me = s.me
      BY <1>5, SettledKeeps DEF Calls
    <2>3. ~Pending(s.me) /\ ~s.me.client
      BY <1>6, <1>8, <1>14 DEF RunnerInv
    <2>4. /\ Good(t, Release(q)) /\ Between(Release(q).me)
          /\ ~Release(q).me.client
      BY <1>6, <1>14, <2>2, <2>3, ReleasedIsBetween
    <2> QED
      BY <1>3, <2>1, <2>4, EndCycleKeeps, UnwoundKeeps
  <1>15. CASE s.me.at \in {"establishing", "diagnosing"}
    <2>1. PICK q \in {s, Ended(t, s, "diagnosis"), Abandoned(t, s, "diagnosis")} :
            r = GiveUp(t, q, "connection_cancelled")
      BY <1>15 DEF Interrupted
    <2>2. Good(t, q) /\ q.me = s.me
      BY <1>5, SettledIsGood DEF Calls
    <2>3. /\ s.me.token # NoToken /\ s.me.known /\ s.me.late = "none"
          /\ ~s.me.client
      BY <1>6, <1>15 DEF RunnerInv
    <2> QED
      BY <1>3, <1>9, <2>1, <2>2, <2>3, GiveUpKeeps
  <1>16. CASE s.me.at = "cancelling"
    <2>1. r = AfterTail(t, s)
      BY <1>16 DEF Interrupted
    <2> QED
      BY <1>3, <1>5, <1>7, <1>8, <1>16, <2>1, AfterTailKeeps
  <1>17. CASE s.me.at = "connected"
    <2>1. r \in LeaveSession(t, s)
      BY <1>17 DEF Interrupted
    <2> QED
      BY <1>3, <1>5, <1>7, <1>17, <2>1, LeaveSessionKeeps
  <1>18. CASE s.me.at \in {"unwound", "stopped"}
    BY <1>3, <1>18 DEF Interrupted
  <1> QED
    <2>1. s.me.at \in Points /\ s.me.why \in Aborts \cup Ends
      BY <1>4 DEF Transport
    <2> QED
      BY <2>1, <1>10, <1>11, <1>12, <1>13, <1>14, <1>15, <1>16, <1>17, <1>18 DEF Points

-----------------------------------------------------------------------------
(* The other parties. *)
LEMMA BeginStandaloneStep ==
  ASSUME TransportAssumption, LeaseInv, BeginStandalone
  PROVE  LeaseInv' /\ (OwnedNow => record'.owner = record.owner)
  <1> DEFINE k == record.serial + 1
             x == Call(Standalone, "close", k)
  <1>1. /\ ~OwnedNow /\ record \in Record /\ tasks \subseteq Task
        /\ record' = [serial |-> k, owner |-> Standalone, release |-> FALSE,
                      cleanup |-> TRUE]
        /\ tasks' = tasks \cup {x} /\ links' = links /\ transport' = transport
        /\ standalone' = [token |-> k, count |-> standalone.count + 1]
        /\ standalone \in [token : Nat, count : Nat]
    BY DEF BeginStandalone, LeaseInv, TypeOK
  <1>2. k \in Nat /\ k # 0
    BY <1>1 DEF Record
  <1>3. x \in Task
    BY <1>2 DEF Task, Call, Calls, Parties
  <1> HIDE DEF k
  <1>4. TypeOK'
    BY <1>1, <1>2, <1>3 DEF LeaseInv, TypeOK, Record, Parties
  <1>5. record.serial # 0 => record.release
    BY <1>1 DEF OwnedNow, Owned
  <1>6. /\ \A t \in Transports : transport[t].token = NoToken
        /\ \A y \in tasks : y.token = NoToken
    <2>1. \A t \in Transports : transport[t].token = NoToken
      BY <1>5 DEF LeaseInv, TokenInv, Holds
    <2>2. \A y \in tasks : y.token = NoToken
      BY <1>1 DEF LeaseInv, TaskInv, Tracked, OwnedNow, Owned, NoToken
    <2> QED
      BY <2>1, <2>2
  <1>7. TokenInv'
    BY <1>1, <1>2, <1>6 DEF TokenInv, Holds
  <1>8. TaskInv'
    BY <1>1, <1>6 DEF TaskInv, Tracked, Call
  <1>9. \A t \in Transports : RunnerInv(transport[t])'
    BY <1>1 DEF LeaseInv
  <1> QED
    BY <1>1, <1>4, <1>7, <1>8, <1>9 DEF LeaseInv

LEMMA EndStandaloneStep ==
  ASSUME TransportAssumption, LeaseInv, EndStandalone
  PROVE  LeaseInv' /\ (OwnedNow => record'.owner = record.owner)
  <1> DEFINE x == Call(Standalone, "close", standalone.token)
             y == [x EXCEPT !.awaited = FALSE]
  <1>1. /\ standalone.token # NoToken /\ record \in Record /\ tasks \subseteq Task
        /\ tasks' \subseteq tasks \cup {y}
        /\ record' = [record EXCEPT !.release = TRUE, !.cleanup = FALSE]
        /\ standalone' = [standalone EXCEPT !.token = NoToken]
        /\ links' = links /\ transport' = transport
        /\ standalone \in [token : Nat, count : Nat]
    BY DEF EndStandalone, LeaseInv, TypeOK
  <1>2. y \in Task
    BY <1>1 DEF Task, Call, Calls, Parties
  <1>3. /\ record.owner = Standalone /\ record.serial = standalone.token
    BY <1>1 DEF LeaseInv, TokenInv, Holds
  <1>4. /\ record'.owner = record.owner /\ record'.serial = record.serial
        /\ record'.release /\ record' \in Record
        /\ standalone'.token = NoToken /\ standalone' \in [token : Nat, count : Nat]
    BY <1>1 DEF Record, NoToken
  <1>5. y.token = standalone.token /\ y.party = Standalone
    BY DEF Call
  <1> HIDE DEF x, y
  <1>6. TypeOK'
    BY <1>1, <1>2, <1>4 DEF LeaseInv, TypeOK
  <1>7. \A t \in Transports : transport[t].token = NoToken
    BY <1>3 DEF LeaseInv, TokenInv, Holds, TransportAssumption
  <1>8. TokenInv'
    BY <1>1, <1>4, <1>7 DEF TokenInv, Holds, LeaseInv
  <1>9. TaskInv'
    BY <1>1, <1>3, <1>4, <1>5 DEF TaskInv, Tracked, LeaseInv
  <1>10. \A t \in Transports : RunnerInv(transport[t])'
    BY <1>1 DEF LeaseInv
  <1> QED
    BY <1>4, <1>6, <1>8, <1>9, <1>10 DEF LeaseInv

LEMMA BackendStep ==
  ASSUME LeaseInv, TailEnds \/ LinkLost \/ UNCHANGED vars
  PROVE  LeaseInv' /\ (OwnedNow => record'.owner = record.owner)
  <1>1. /\ record' = record /\ transport' = transport /\ standalone' = standalone
        /\ tasks' \subseteq tasks /\ links' \subseteq links
    BY DEF TailEnds, LinkLost, vars
  <1>2. TypeOK' /\ TokenInv' /\ TaskInv'
    BY <1>1 DEF LeaseInv, TypeOK, TokenInv, TaskInv
  <1>3. \A t \in Transports : RunnerInv(transport[t])'
    BY <1>1 DEF LeaseInv
  <1> QED
    BY <1>1, <1>2, <1>3 DEF LeaseInv

LEMMA InitHolds == TransportAssumption /\ Init => LeaseInv
  <1> SUFFICES ASSUME TransportAssumption, Init PROVE LeaseInv
    OBVIOUS
  <1>1. TypeOK
    BY DEF Init, TypeOK, Record, Transport, Points, Ends, Aborts, NoToken
  <1>2. TokenInv /\ TaskInv
    BY DEF Init, TokenInv, TaskInv, Holds
  <1>3. \A t \in Transports : RunnerInv(transport[t])
    BY DEF Init, RunnerInv, Pending
  <1> QED
    BY <1>1, <1>2, <1>3 DEF LeaseInv

LEMMA NextHolds ==
  ASSUME TransportAssumption, LeaseInv, [Next]_vars
  PROVE  LeaseInv' /\ (OwnedNow => record'.owner = record.owner)
  <1>1. CASE BeginStandalone
    BY <1>1, BeginStandaloneStep
  <1>2. CASE EndStandalone
    BY <1>2, EndStandaloneStep
  <1>3. CASE TailEnds \/ LinkLost \/ UNCHANGED vars
    BY <1>3, BackendStep
  <1>4. ASSUME NEW t \in Transports,
               \/ Runner(t) \/ Late(t) \/ Shutdown(t)
               \/ ConnectorLinks(t) \/ ConnectorEnds(t)
        PROVE  Kept
    <2>1. CASE NoRoute(t) \/ Connect(t)
      BY <2>1, BeginStep
    <2>2. CASE Disconnected(t)
      BY <2>2, DisconnectedStep
    <2>3. CASE CloseSucceeds(t)
      BY <2>3, CloseSucceedsStep
    <2>4. CASE CloseFails(t)
      BY <2>4, CloseFailsStep
    <2>5. CASE Adopt(t)
      BY <2>5, AdoptStep
    <2>6. CASE AttemptFails(t)
      BY <2>6, AttemptFailsStep
    <2>7. CASE DeadlinePasses(t)
      BY <2>7, DeadlinePassesStep
    <2>8. CASE Diagnosed(t)
      BY <2>8, DiagnosedStep
    <2>9. CASE StopWaiting(t)
      BY <2>9, StopWaitingStep
    <2>10. CASE SessionEnds(t)
      BY <2>10, SessionEndsStep
    <2>11. CASE Stop(t)
      BY <2>11, StopStep
    <2>12. CASE LateStarts(t)
      BY <2>12, LateStartsStep
    <2>13. CASE LateDisconnected(t)
      BY <2>13, LateDisconnectedStep
    <2>14. CASE LateClosed(t)
      BY <2>14, LateClosedStep
    <2>15. CASE Shutdown(t)
      BY <2>15, ShutdownStep
    <2>16. CASE ConnectorLinks(t)
      BY <2>16, ConnectorLinksStep
    <2>17. CASE ConnectorEnds(t)
      BY <2>17, ConnectorEndsStep
    <2> QED
      BY <1>4, <2>1, <2>2, <2>3, <2>4, <2>5, <2>6, <2>7, <2>8, <2>9, <2>10, <2>11,
         <2>12, <2>13, <2>14, <2>15, <2>16, <2>17 DEF Runner, Late
  <1> QED
    BY <1>1, <1>2, <1>3, <1>4 DEF Next, Kept

(* The invariant of the lease: every token that a transport or the         *)
(* standalone clean-up still has is the current one, and so is that of     *)
(* every task tracked under a token (bluetooth/ownership.py).              *)
THEOREM LeaseCorrect == Spec => []LeaseInv
  <1>1. Init => LeaseInv
    BY InitHolds, TransportAssumption
  <1>2. LeaseInv /\ [Next]_vars => LeaseInv'
    BY NextHolds, TransportAssumption
  <1> QED
    BY <1>1, <1>2, PTL DEF Spec

(* While a connector or its late clean-up is under way, the transport      *)
(* still owns the address: the late clean-up of                            *)
(* _observe_connector_task never finds its token stale.                    *)
THEOREM QuarantineKept == Spec => []QuarantineHeld
  <1>1. LeaseInv => QuarantineHeld
    <2> SUFFICES ASSUME LeaseInv, NEW t \in Transports, Pending(transport[t])
                 PROVE  Current(Here(t))
      BY DEF QuarantineHeld
    <2>1. transport[t].token # NoToken
      BY DEF LeaseInv, RunnerInv
    <2> QED
      BY <2>1 DEF LeaseInv, TokenInv, Holds, Current, Owned, Here, NoToken
  <1> QED
    BY <1>1, LeaseCorrect, PTL

(* A connection cycle begins with no client, and with no ownership token   *)
(* unless a connector is quarantined: the two clean-ups at the top of      *)
(* async_connect find nothing to do.                                       *)
THEOREM FreshStarts == Spec => []FreshStart
  <1>1. LeaseInv => FreshStart
    BY DEF LeaseInv, RunnerInv, FreshStart
  <1> QED
    BY <1>1, LeaseCorrect, PTL

-----------------------------------------------------------------------------
(* Who works on the address. *)
OnlyOwnerWorks ==
  /\ OwnedNow => record.owner \in Parties /\ Busy \subseteq {record.owner}
  /\ ~OwnedNow => Busy = {}

LEMMA OwnerWorks == LeaseInv => OnlyOwnerWorks
  <1> SUFFICES ASSUME LeaseInv PROVE OnlyOwnerWorks
    OBVIOUS
  <1>1. \A x \in tasks : x.token # NoToken =>
          OwnedNow /\ x.party = record.owner
    BY DEF LeaseInv, TaskInv, Tracked, OwnedNow, Owned, NoToken
  <1>2. \A t \in Transports : transport[t].at = "connected" =>
          OwnedNow /\ t = record.owner
    BY DEF LeaseInv, TokenInv, RunnerInv, Holds, OwnedNow, Owned, NoToken
  <1>3. OwnedNow => record.owner \in Parties
    BY DEF LeaseInv, TypeOK, TokenInv, Record, OwnedNow, Owned
  <1> QED
    BY <1>1, <1>2, <1>3 DEF Busy, OnlyOwnerWorks

(* The registry lends the address to one party at a time, and it changes   *)
(* hands only when every backend task tracked under the earlier token has  *)
(* ended and no session of the earlier owner is open (claim, is_owned and  *)
(* _release_if_quiescent in bluetooth/ownership.py).                       *)
THEOREM LeaseImplemented == Spec => ImplementsLease
  <1>1. Init => Lease!Init
    BY DEF Init, Lease!Init, Busy, OwnedNow, Owned
  <1>2. LeaseInv' => OnlyOwnerWorks'
    BY OwnerWorks, PTL
  <1>3. LeaseInv /\ LeaseInv' /\ [Next]_vars
          => [Lease!Next]_<<IF OwnedNow THEN record.owner ELSE Nobody, Busy>>
    <2> SUFFICES ASSUME LeaseInv, LeaseInv', [Next]_vars
                 PROVE  [Lease!Next]_<<IF OwnedNow THEN record.owner ELSE Nobody, Busy>>
      OBVIOUS
    <2>1. /\ OwnedNow => record.owner \in Parties /\ Busy \subseteq {record.owner}
          /\ ~OwnedNow => Busy = {}
      BY OwnerWorks DEF OnlyOwnerWorks
    <2>2. /\ OwnedNow' => record'.owner \in Parties /\ Busy' \subseteq {record'.owner}
          /\ ~OwnedNow' => Busy' = {}
      BY <1>2 DEF OnlyOwnerWorks
    <2>3. OwnedNow => record'.owner = record.owner
      BY NextHolds, TransportAssumption
    <2>4. Nobody \notin Parties
      BY TransportAssumption DEF TransportAssumption, Parties
    <2>5. CASE OwnedNow /\ OwnedNow'
      BY <2>1, <2>2, <2>3, <2>4, <2>5 DEF Lease!Next, Lease!Work
    <2>6. CASE OwnedNow /\ ~OwnedNow'
      BY <2>1, <2>2, <2>4, <2>6 DEF Lease!Next, Lease!Return
    <2>7. CASE ~OwnedNow /\ OwnedNow'
      BY <2>1, <2>2, <2>7 DEF Lease!Next, Lease!Take
    <2>8. CASE ~OwnedNow /\ ~OwnedNow'
      BY <2>1, <2>2, <2>8
    <2> QED
      BY <2>5, <2>6, <2>7, <2>8
  <1> QED
    BY <1>1, <1>3, LeaseCorrect, PTL DEF Spec, ImplementsLease, Lease!Spec

-----------------------------------------------------------------------------
(* One link at a time.  What the procedures of a runner do to its link and *)
(* its connector needs only the fields they read to be there.              *)
Shaped(s) ==
  /\ {"record", "tasks", "links", "me"} \subseteq DOMAIN s
  /\ {"at", "why", "token", "client", "connecting", "connector", "detached", "late", "known",
      "stopping", "cycles"} \subseteq DOMAIN s.me

(* r comes after s without a link or a connector of its own.               *)
Quiet(s, r) ==
  /\ Shaped(r) /\ r.links \subseteq s.links
  /\ r.me.connector = "running" => s.me.connector = "running"

LEMMA QuietAgain == ASSUME NEW s, NEW r, NEW q, Quiet(s, r), Quiet(r, q) PROVE Quiet(s, q)
  BY DEF Quiet

(* Calls, claims and releases.                                             *)
LEMMA QuietLateAwait ==
  ASSUME NEW s, Shaped(s), NEW t, NEW c, NEW p
  PROVE  Quiet(s, LateAwait(t, s, c, p))
  BY DEF Quiet, Shaped, LateAwait

LEMMA QuietCalls ==
  ASSUME NEW s, Shaped(s), NEW t, NEW c, NEW p, NEW why
  PROVE  /\ Quiet(s, s) /\ Quiet(s, Await(t, s, c, p, why))
         /\ Quiet(s, Ended(t, s, c)) /\ Quiet(s, Abandoned(t, s, c))
         /\ Quiet(s, Claim(p, s)) /\ Quiet(s, Release(s)) /\ Quiet(s, MarkCleanup(s))
         /\ Quiet(s, [s EXCEPT !.me.client = FALSE]) /\ Quiet(s, [s EXCEPT !.me.why = why])
         /\ Quiet(s, [s EXCEPT !.me.connector = "none"]) /\ Quiet(s, Unwound(s))
         /\ Quiet(s, Rest(s)) /\ Quiet(s, Detach(s))
  <1> USE DEF Quiet, Shaped
  <1>1. Quiet(s, s) /\ Quiet(s, Await(t, s, c, p, why))
    BY DEF Await
  <1>2. Quiet(s, Ended(t, s, c)) /\ Quiet(s, Abandoned(t, s, c))
    BY DEF Ended, Abandoned
  <1>3. Quiet(s, Claim(p, s)) /\ Quiet(s, Release(s))
    BY DEF Claim, Release
  <1>4. Quiet(s, MarkCleanup(s))
    BY DEF MarkCleanup
  <1>5. Quiet(s, Detach(s))
    BY DEF MarkCleanup, Detach
  <1>6. /\ Quiet(s, [s EXCEPT !.me.client = FALSE]) /\ Quiet(s, [s EXCEPT !.me.why = why])
        /\ Quiet(s, [s EXCEPT !.me.connector = "none"])
        /\ Quiet(s, Unwound(s)) /\ Quiet(s, Rest(s))
    BY DEF Unwound, Rest
  <1> QED
    BY <1>1, <1>2, <1>3, <1>4, <1>5, <1>6

LEMMA QuietSettled ==
  ASSUME NEW s, Shaped(s), NEW t, NEW c, NEW r \in Settled(t, s, c)
  PROVE  Quiet(s, r)
  <1>1. Quiet(s, Ended(t, s, c)) /\ Quiet(s, Abandoned(t, s, c))
    BY QuietCalls
  <1> QED
    BY <1>1, SettledIsEndedOrAbandoned

(* The ends of a cycle and of an attempt.                                  *)
LEMMA QuietEnds ==
  ASSUME NEW s, Shaped(s), NEW t, NEW why
  PROVE  /\ Quiet(s, Clean(t, s, why)) /\ Quiet(s, CloseAtEnd(t, s, why))
         /\ Quiet(s, End(t, s, why)) /\ Quiet(s, EndCycle(t, s))
         /\ Quiet(s, CloseAttempt(t, s, why)) /\ Quiet(s, Abort(t, s, why))
         /\ Quiet(s, AfterTail(t, s)) /\ Quiet(s, AfterClean(t, s))
         /\ Quiet(s, GiveUp(t, s, why))
  <1>1. ASSUME NEW r, Shaped(r), NEW w
        PROVE  Quiet(r, Clean(t, r, w))
    <2> DEFINE q == IF Current(r) THEN r ELSE Claim(t, r)
    <2>1. Quiet(r, q) /\ Shaped(q)
      <3>1. Quiet(r, r) /\ Quiet(r, Claim(t, r))
        BY <1>1, QuietCalls
      <3> QED
        BY <3>1 DEF Quiet
    <2> HIDE DEF q
    <2>2. Quiet(q, Await(t, q, "close", "closing", w))
      BY <2>1, QuietCalls
    <2> QED
      BY <2>1, <2>2, QuietAgain DEF Clean, q
  <1>2. ASSUME NEW r, Shaped(r), NEW w
        PROVE  Quiet(r, CloseAtEnd(t, r, w))
    <2> DEFINE q == [r EXCEPT !.me.why = w]
    <2>1. Quiet(r, q)
      BY <1>2, QuietCalls
    <2> HIDE DEF q
    <2>2. Quiet(q, Rest(q))
      BY <2>1, QuietCalls DEF Quiet
    <2>3. Quiet(r, Rest(q))
      BY <2>1, <2>2, QuietAgain
    <2> QED
      BY <1>1, <1>2, <2>3 DEF CloseAtEnd, q
  <1>3. ASSUME NEW r, Shaped(r), NEW w
        PROVE  Quiet(r, End(t, r, w))
    <2> DEFINE q == [r EXCEPT !.me.client = FALSE]
    <2>1. Quiet(r, q) /\ Shaped(q)
      BY <1>3, QuietCalls DEF Quiet
    <2> HIDE DEF q
    <2>2. Quiet(q, CloseAtEnd(t, q, w)) /\ Quiet(q, Await(t, q, "disconnect", "disconnecting", w))
      BY <1>2, <2>1, QuietCalls
    <2>3. /\ Quiet(r, CloseAtEnd(t, q, w))
          /\ Quiet(r, Await(t, q, "disconnect", "disconnecting", w))
      BY <2>1, <2>2, QuietAgain
    <2> QED
      BY <2>3 DEF End, q
  <1>4. ASSUME NEW r, Shaped(r)
        PROVE  Quiet(r, EndCycle(t, r))
    BY <1>3, <1>4 DEF EndCycle
  <1>5. ASSUME NEW r, Shaped(r), NEW w
        PROVE  Quiet(r, CloseAttempt(t, r, w))
    BY <1>1, <1>4, <1>5 DEF CloseAttempt
  <1>6. ASSUME NEW r, Shaped(r), NEW w
        PROVE  Quiet(r, Abort(t, r, w))
    BY <1>5, <1>6, QuietCalls DEF Abort
  <1>7. Quiet(s, AfterTail(t, s)) /\ Quiet(s, AfterClean(t, s))
    BY <1>4, <1>6, QuietCalls DEF AfterTail, AfterClean
  <1>8. Quiet(s, GiveUp(t, s, why))
    <2> DEFINE q == [s EXCEPT !.me.connector = "none"]
    <2>1. Quiet(s, q) /\ Shaped(q) /\ Quiet(s, Detach(s))
      BY QuietCalls DEF Quiet
    <2> HIDE DEF q
    <2>2. Quiet(s, Abort(t, q, why))
      BY <1>6, <2>1, QuietAgain
    <2> QED
      BY <2>1, <2>2 DEF GiveUp, q
  <1> QED
    BY <1>1, <1>2, <1>3, <1>4, <1>5, <1>6, <1>7, <1>8

LEMMA HereIsShaped ==
  ASSUME LeaseInv, NEW t \in Transports
  PROVE  Shaped(Here(t)) /\ Here(t).links = links /\ Here(t).me = transport[t]
  BY DEF LeaseInv, TypeOK, Shaped, Here, Transport

(* A step that adds no link and no connector keeps the links apart.        *)
LEMMA QuietStep ==
  ASSUME LeaseInv, LinkInv, NEW t \in Transports, NEW s, Quiet(Here(t), s), Become(t, s)
  PROVE  LinkInv'
  BY HereIsShaped DEF Quiet, Become, LinkInv, LeaseInv, TypeOK

(* The runner's steps, except a close that succeeds.                       *)
LEMMA RunnerIsQuiet ==
  ASSUME LeaseInv, LinkInv, NEW t \in Transports, Runner(t), ~CloseSucceeds(t)
  PROVE  LinkInv'
  <1> DEFINE h == Here(t)
  <1>1. Shaped(h)
    BY HereIsShaped
  <1>2. Quiet(h, Begun(t))
    BY <1>1 DEF Begun, Quiet, Shaped
  <1> HIDE DEF h
  <1>3. CASE NoRoute(t)
    <2>1. Quiet(h, EndCycle(t, Begun(t)))
      BY <1>2, QuietEnds, QuietAgain DEF Quiet
    <2> QED
      BY <1>3, <2>1, QuietStep DEF NoRoute, h
  <1>4. CASE Connect(t)
    <2> DEFINE c == Claim(t, Begun(t))
               k == [c EXCEPT !.me.known = TRUE]
    <2>1. Quiet(h, c)
      BY <1>2, QuietCalls, QuietAgain DEF Quiet
    <2>2. k = [Claim(t, Begun(t)) EXCEPT !.me.known = TRUE]
      OBVIOUS
    <2> HIDE DEF c
    <2>3. Quiet(h, k)
      BY <2>1 DEF Quiet, Shaped
    <2> HIDE DEF k
    <2>4. Quiet(h, Abort(t, k, "before_connection"))
      BY <2>3, QuietEnds, QuietAgain DEF Quiet
    <2> QED
      BY <1>4, <2>2, <2>4, QuietStep DEF Connect, h
  <1>5. CASE Disconnected(t)
    <2>1. PICK s \in Settled(t, h, "disconnect"), gone \in BOOLEAN :
            LET r == [s EXCEPT !.links = IF gone THEN @ \ {t} ELSE @] IN
            Become(t, IF r.me.why \in Ends THEN CloseAtEnd(t, r, r.me.why)
                      ELSE CloseAttempt(t, r, r.me.why))
      BY <1>5 DEF Disconnected, h
    <2> DEFINE r == [s EXCEPT !.links = IF gone THEN @ \ {t} ELSE @]
    <2>2. Quiet(h, s)
      BY <1>1, QuietSettled
    <2>3. Quiet(h, r)
      BY <2>2 DEF Quiet, Shaped
    <2>4. Become(t, IF r.me.why \in Ends THEN CloseAtEnd(t, r, r.me.why)
                    ELSE CloseAttempt(t, r, r.me.why))
      BY <2>1
    <2> HIDE DEF r
    <2>5. Quiet(h, CloseAtEnd(t, r, r.me.why)) /\ Quiet(h, CloseAttempt(t, r, r.me.why))
      BY <2>3, QuietEnds, QuietAgain DEF Quiet
    <2> QED
      BY <2>4, <2>5, QuietStep DEF h
  <1>6. CASE CloseFails(t)
    <2>1. PICK s \in Settled(t, h, "close") : Become(t, AfterClean(t, Release(s)))
      BY <1>6 DEF CloseFails, h
    <2>2. Quiet(h, s)
      BY <1>1, QuietSettled
    <2>3. Quiet(h, Release(s))
      BY <2>2, QuietCalls, QuietAgain DEF Quiet
    <2>4. Quiet(h, AfterClean(t, Release(s)))
      BY <2>3, QuietEnds, QuietAgain DEF Quiet
    <2> QED
      BY <2>1, <2>4, QuietStep DEF h
  <1>7. CASE Adopt(t)
    <2> DEFINE s == [h EXCEPT !.me.connector = "none", !.me.connecting = FALSE,
                              !.me.client = TRUE, !.me.at = "connected"]
    <2>1. Quiet(h, s)
      BY <1>1 DEF Quiet, Shaped
    <2> QED
      BY <1>7, <2>1, QuietStep DEF Adopt, h
  <1>8. CASE AttemptFails(t)
    <2> DEFINE s == [h EXCEPT !.me.connector = "none"]
    <2>1. Quiet(h, s)
      BY <1>1, QuietCalls
    <2>2. Become(t, Abort(t, s, "connection_failed"))
      BY <1>8 DEF AttemptFails, h
    <2> HIDE DEF s
    <2>3. Quiet(h, Abort(t, s, "connection_failed"))
      BY <2>1, QuietEnds, QuietAgain DEF Quiet
    <2> QED
      BY <2>2, <2>3, QuietStep DEF h
  <1>9. CASE DeadlinePasses(t)
    BY <1>1, <1>9, QuietCalls, QuietStep DEF DeadlinePasses, h
  <1>10. CASE Diagnosed(t)
    <2>1. PICK s \in Settled(t, h, "diagnosis") : Become(t, GiveUp(t, s, "connection_timeout"))
      BY <1>10 DEF Diagnosed, h
    <2>2. Quiet(h, s)
      BY <1>1, QuietSettled
    <2>3. Quiet(h, GiveUp(t, s, "connection_timeout"))
      BY <2>2, QuietEnds, QuietAgain DEF Quiet
    <2> QED
      BY <2>1, <2>3, QuietStep DEF h
  <1>11. CASE StopWaiting(t)
    BY <1>1, <1>11, QuietEnds, QuietStep DEF StopWaiting, h
  <1>12. CASE SessionEnds(t)
    <2>1. PICK r : Quiet(h, r) /\ Become(t, EndCycle(t, r))
      <3>1. Quiet(h, h)
        BY <1>1 DEF Quiet
      <3> QED
        BY <1>1, <1>12, <3>1, QuietCalls DEF SessionEnds, LeaveSession, h
    <2>2. Quiet(h, EndCycle(t, r))
      BY <2>1, QuietEnds, QuietAgain DEF Quiet
    <2> QED
      BY <2>1, <2>2, QuietStep DEF h
  <1>13. CASE Stop(t)
    BY <1>1, <1>13, QuietEnds, QuietStep DEF Stop, h
  <1> QED
    BY <1>3, <1>4, <1>5, <1>6, <1>7, <1>8, <1>9, <1>10, <1>11, <1>12, <1>13 DEF Runner

(* The shutdown wherever it finds the runner.                              *)
LEMMA ShutdownIsQuiet ==
  ASSUME LeaseInv, LinkInv, NEW t \in Transports, Shutdown(t)
  PROVE  LinkInv'
  <1> DEFINE h == [Here(t) EXCEPT !.me.stopping = TRUE]
  <1>1. Quiet(Here(t), h) /\ Shaped(h)
    BY HereIsShaped DEF Quiet, Shaped
  <1>2. PICK s \in Interrupted(t, h) : Become(t, s)
    BY DEF Shutdown
  <1> HIDE DEF h
  <1>3. ASSUME NEW r, Quiet(h, r)
        PROVE  /\ Quiet(h, EndCycle(t, r)) /\ Quiet(h, EndCycle(t, Release(r)))
               /\ Quiet(h, Unwound(r)) /\ Quiet(h, Unwound(Release(r)))
               /\ Quiet(h, GiveUp(t, r, "connection_cancelled"))
    <2>1. Shaped(r) /\ Quiet(r, Release(r)) /\ Quiet(h, Release(r)) /\ Shaped(Release(r))
      BY <1>3, QuietCalls, QuietAgain DEF Quiet
    <2> QED
      BY <1>3, <2>1, QuietCalls, QuietEnds, QuietAgain
  <1>4. Quiet(h, h)
    BY <1>1 DEF Quiet
  <1>5. ASSUME NEW c, NEW r \in Settled(t, h, c)
        PROVE  Quiet(h, r)
    BY <1>1, <1>5, QuietSettled
  <1>6. Quiet(h, Ended(t, h, "diagnosis")) /\ Quiet(h, Abandoned(t, h, "diagnosis"))
        /\ Quiet(h, Abandoned(t, h, "session")) /\ Quiet(h, AfterTail(t, h))
    BY <1>1, QuietCalls, QuietEnds
  <1>7. ASSUME NEW r \in LeaveSession(t, h)
        PROVE  Quiet(h, r)
    BY <1>3, <1>4, <1>6, <1>7 DEF LeaveSession
  <1>8. Quiet(h, s)
    <2>1. CASE h.me.at = "idle"
      BY <1>2, <1>3, <1>4, <2>1 DEF Interrupted
    <2>2. CASE h.me.at \in {"disconnecting", "closing"}
      BY <1>2, <1>3, <1>5, <2>2 DEF Interrupted
    <2>3. CASE h.me.at \in {"establishing", "diagnosing", "cancelling"}
      BY <1>2, <1>3, <1>4, <1>6, <2>3 DEF Interrupted
    <2>4. CASE h.me.at = "connected"
      BY <1>2, <1>7, <2>4 DEF Interrupted
    <2> QED
      BY <1>2, <2>1, <2>2, <2>3, <2>4 DEF Interrupted
  <1> QED
    BY <1>1, <1>2, <1>8, QuietStep, QuietAgain

(* The end of a connector and its late clean-up.                           *)
LEMMA LateIsQuiet ==
  ASSUME LeaseInv, LinkInv, NEW t \in Transports, Late(t) \/ ConnectorEnds(t)
  PROVE  LinkInv'
  <1> DEFINE h == Here(t)
  <1>1. Shaped(h)
    BY HereIsShaped
  <1> HIDE DEF h
  <1>2. CASE ConnectorEnds(t)
    <2>1. PICK outcome \in {"returned", "failed"} :
            LET s == [Ended(t, h, "connector") EXCEPT !.me.connector = outcome] IN
            Become(t, IF ~s.me.detached THEN s
                      ELSE [MarkCleanup(s) EXCEPT
                              !.me.late = "ready",
                              !.tasks = @ \cup {Call(t, "late", s.me.token)}])
      BY <1>2 DEF ConnectorEnds, h
    <2> DEFINE e == Ended(t, h, "connector")
               s == [e EXCEPT !.me.connector = outcome]
               m == MarkCleanup(s)
               r == [m EXCEPT !.me.late = "ready",
                              !.tasks = @ \cup {Call(t, "late", s.me.token)}]
    <2>2. Become(t, IF ~s.me.detached THEN s ELSE r)
      BY <2>1
    <2>3. Quiet(h, e)
      BY <1>1, QuietCalls
    <2> HIDE DEF e
    <2>4. Quiet(h, s)
      BY <2>3 DEF Quiet, Shaped
    <2> HIDE DEF s
    <2>5. Quiet(h, m)
      BY <2>4, QuietCalls, QuietAgain DEF Quiet
    <2> HIDE DEF m
    <2>6. Quiet(h, r)
      BY <2>5 DEF Quiet, Shaped
    <2> HIDE DEF r
    <2> QED
      BY <2>2, <2>4, <2>6, QuietStep DEF h
  <1>3. CASE LateStarts(t)
    <2> DEFINE s == [h EXCEPT !.me.connector = "none", !.me.detached = FALSE]
    <2>1. Become(t, IF s.me.connecting THEN LateAwait(t, s, "disconnect", "disconnecting")
                    ELSE LateAwait(t, s, "close", "closing"))
      BY <1>3 DEF LateStarts, h
    <2>2. Quiet(h, s)
      BY <1>1 DEF Quiet, Shaped
    <2> HIDE DEF s
    <2>3. /\ Quiet(h, LateAwait(t, s, "disconnect", "disconnecting"))
          /\ Quiet(h, LateAwait(t, s, "close", "closing"))
      BY <2>2, QuietLateAwait, QuietAgain DEF Quiet
    <2> QED
      BY <2>1, <2>3, QuietStep DEF h
  <1>4. CASE LateDisconnected(t)
    <2>1. PICK s \in Settled(t, h, "disconnect"), gone \in BOOLEAN :
            Become(t, [LateAwait(t, s, "close", "closing") EXCEPT
                         !.links = IF gone THEN @ \ {t} ELSE @])
      BY <1>4 DEF LateDisconnected, h
    <2> DEFINE a == LateAwait(t, s, "close", "closing")
               r == [a EXCEPT !.links = IF gone THEN @ \ {t} ELSE @]
    <2>2. Quiet(h, s)
      BY <1>1, QuietSettled
    <2>3. Quiet(h, a)
      BY <2>2, QuietLateAwait, QuietAgain DEF Quiet
    <2>4. Become(t, r)
      BY <2>1
    <2> HIDE DEF a
    <2>5. Quiet(h, r)
      BY <2>3 DEF Quiet, Shaped
    <2> QED
      BY <2>4, <2>5, QuietStep DEF h
  <1>5. CASE LateClosed(t)
    <2>1. PICK clean \in BOOLEAN, s \in Settled(t, h, "close") :
            Become(t, LateEnd(t, [s EXCEPT !.links = IF clean THEN {} ELSE @,
                                           !.me.connecting = @ /\ ~clean]))
      BY <1>5 DEF LateClosed, h
    <2> DEFINE q == [s EXCEPT !.links = IF clean THEN {} ELSE @,
                              !.me.connecting = @ /\ ~clean]
               e == Release(Ended(t, q, "late"))
               r == [e EXCEPT !.me.late = "none"]
    <2>2. Quiet(h, s)
      BY <1>1, QuietSettled
    <2>3. Quiet(h, q)
      BY <2>2 DEF Quiet, Shaped
    <2>4. Become(t, r)
      BY <2>1 DEF LateEnd
    <2> HIDE DEF q
    <2>5. Quiet(h, Ended(t, q, "late"))
      BY <2>3, QuietCalls, QuietAgain DEF Quiet
    <2>6. Quiet(h, e)
      BY <2>5, QuietCalls, QuietAgain DEF Quiet
    <2> HIDE DEF e
    <2>7. Quiet(h, r)
      BY <2>6 DEF Quiet, Shaped
    <2> QED
      BY <2>4, <2>7, QuietStep DEF h
  <1> QED
    BY <1>2, <1>3, <1>4, <1>5 DEF Late

(* Only a verified close lets a connector begin.                           *)
LEMMA CloseLinks ==
  ASSUME LeaseInv, LinkInv, NEW t \in Transports, CloseSucceeds(t)
  PROVE  LinkInv'
  <1> DEFINE h == Here(t)
             e == Ended(t, h, "close")
             s == [e EXCEPT !.links = {}, !.me.connecting = FALSE]
  <1>1. Shaped(h)
    BY HereIsShaped
  <1>2. Become(t, IF s.me.why = "before_connection" THEN StartConnector(t, s)
                  ELSE AfterClean(t, Release(s)))
    BY DEF CloseSucceeds
  <1> HIDE DEF h
  <1>3. Shaped(e)
    BY <1>1, QuietCalls DEF Quiet
  <1> HIDE DEF e
  <1>4. Shaped(s) /\ s.links = {}
    BY <1>3 DEF Shaped
  <1> HIDE DEF s
  <1>5. AfterClean(t, Release(s)).links = {}
    <2>1. Quiet(s, Release(s))
      BY <1>4, QuietCalls
    <2>2. Quiet(Release(s), AfterClean(t, Release(s)))
      BY <2>1, QuietEnds DEF Quiet
    <2> QED
      BY <1>4, <2>1, <2>2 DEF Quiet
  <1>6. StartConnector(t, s).links = {}
    <2> DEFINE q == [s EXCEPT !.me.connector = "running", !.me.detached = FALSE]
    <2>1. Shaped(q) /\ q.links = {}
      BY <1>4 DEF Shaped
    <2> HIDE DEF q
    <2>2. Quiet(q, Await(t, q, "connector", "establishing", s.me.why))
      BY <2>1, QuietCalls
    <2> QED
      BY <2>1, <2>2 DEF StartConnector, Quiet, q
  <1>7. links' = {}
    BY <1>2, <1>5, <1>6 DEF Become
  <1> QED
    BY <1>7 DEF LinkInv

(* A connector that links finds nobody linked, and no other one running.   *)
LEMMA ConnectorAlone ==
  ASSUME LeaseInv, LinkInv, NEW t \in Transports, ConnectorLinks(t)
  PROVE  LinkInv'
  <1>1. links = {} /\ transport[t].connector = "running"
    BY DEF ConnectorLinks, LinkInv
  <1>2. \A u \in Transports : transport[u].connector = "running" => u = t
    BY <1>1 DEF LeaseInv, TokenInv, Holds, RunnerInv, Pending
  <1>3. links' = {t} /\ \A u \in Transports : transport'[u].connector = transport[u].connector
    BY <1>1 DEF ConnectorLinks, Become, Here, LeaseInv, TypeOK, Transport
  <1> QED
    BY <1>2, <1>3 DEF LinkInv

LEMMA LinksStep == LeaseInv /\ LinkInv /\ [Next]_vars => LinkInv'
  <1> SUFFICES ASSUME LeaseInv, LinkInv, [Next]_vars
               PROVE  LinkInv'
    OBVIOUS
  <1>1. CASE BeginStandalone \/ EndStandalone \/ TailEnds \/ LinkLost \/ UNCHANGED vars
    BY <1>1 DEF BeginStandalone, EndStandalone, TailEnds, LinkLost, vars, LinkInv
  <1> QED
    BY <1>1, RunnerIsQuiet, ShutdownIsQuiet, LateIsQuiet, CloseLinks, ConnectorAlone DEF Next

(* However many transports share the address, and whichever calls hang, at *)
(* most one of them is linked to the purifier (async_connect and the       *)
(* verification in async_cleanup_stale_connection).                        *)
THEOREM OneLinkOnly == Spec => []OneLink
  <1>1. Init => LinkInv
    BY DEF Init, LinkInv
  <1>2. LinkInv => OneLink
    <2> SUFFICES ASSUME LinkInv
                 PROVE  Cardinality(links) <= 1
      BY DEF OneLink
    <2>1. CASE links = {}
      BY <2>1, FS_EmptySet
    <2>2. CASE links # {}
      <3>1. PICK t : links = {t}
        BY <2>2 DEF LinkInv
      <3>2. Cardinality({t}) = 1
        BY FS_Singleton
      <3> QED
        BY <3>1, <3>2
    <2> QED
      BY <2>1, <2>2
  <1> QED
    BY <1>1, <1>2, LeaseCorrect, LinksStep, PTL DEF Spec
=============================================================================
