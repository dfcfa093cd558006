--------------------- MODULE CustomAutoLifecycle_proofs ---------------------
(***************************************************************************)
(* The theorems about the gate, the owner of the fan and the memory of     *)
(* Custom Auto, with their proofs.                                         *)
(***************************************************************************)
EXTENDS CustomAutoLifecycle, SequenceTheorems, TLAPS

-----------------------------------------------------------------------------
(* The invariant in two parts: the lock, and the rest.                     *)

Own == {"quiesce", "rearm", "terminal", "final", "stop"}
OwnedBy(q, e) ==
  \A i \in DOMAIN q : q[i] \in Own =>
    e = OwnEntry[q[i]] /\ \A j \in DOMAIN q : q[j] \in Own => j = i
Free(q) == \A i \in DOMAIN q : q[i] \notin Own

Steps == {"begin", "save", "control", "handoff", "command", "clear", "undo"}
LockInv ==
  /\ lock \in Seq(Kinds) /\ step \in Steps /\ OwnedBy(lock, entry)
  /\ lock = <<>> => step = "begin"
  /\ step = "clear" => Head(lock) \in Clears
  /\ step = "control" => Head(lock) # "loss"

EnvTypes ==
  /\ store \in {"none", "on", "off"} /\ entity \in {"enabled", "blocked", "byEntry"}
  /\ disabled \in BOOLEAN /\ clear \in [gen : Nat, served : Nat, target : Nat, attempt : 0 .. Attempts]
  /\ inputs \in Nat /\ faults \in Nat
FlagTypes ==
  /\ entry \in Entries /\ restore \in BOOLEAN
  /\ gate \in BOOLEAN /\ allowed \in BOOLEAN /\ terminal \in BOOLEAN /\ required \in BOOLEAN
  /\ gen \in Nat /\ served \in Nat
  /\ active \in BOOLEAN /\ started \in BOOLEAN /\ down \in BOOLEAN /\ retry \in BOOLEAN
  /\ was \in BOOLEAN /\ err \in BOOLEAN
  /\ owner \in {"policy", "user", "nobody"} /\ excused \in BOOLEAN
LoopStates == [at : {"none", "created", "asking", "asleep", "done", "failed"},
               gen : Nat, attempt : 0 .. Attempts]
LoopInv ==
  /\ loop \in [Loops -> LoopStates]
  /\ \A l \in Loops : loop[l].at = "asleep" => loop[l].attempt < Attempts
StateInv ==
  EnvTypes /\ FlagTypes /\ LoopInv /\ BlankInv /\ StopInv /\ FailedInv /\ GateIsSafe

LEMMA GateParts ==
  /\ GateInv <=> LockInv /\ StateInv
  /\ GateInv' <=> LockInv' /\ StateInv'
<1>1. DOMAIN OwnEntry = Own
  BY DEF OwnEntry, Own
<1>2. OwnInv <=> OwnedBy(lock, entry)
  BY <1>1 DEF OwnInv, OwnedBy
<1>3. OwnInv' <=> OwnedBy(lock', entry')
  BY <1>1 DEF OwnInv, OwnedBy
<1>4. GateInv <=> LockInv /\ StateInv
  BY <1>2
     DEF GateInv, TypeOK, PathInv, LockInv, StateInv, EnvTypes, FlagTypes, LoopInv, Steps,
         LoopStates, Holder
<1>5. GateInv' <=> LockInv' /\ StateInv'
  BY <1>3
     DEF GateInv, TypeOK, PathInv, LockInv, StateInv, EnvTypes, FlagTypes, LoopInv, Steps,
         LoopStates, Holder
<1>6. QED
  BY <1>4, <1>5

-----------------------------------------------------------------------------
(* The queue of the lock.                                                  *)

LEMMA EntryIsFree ==
  ASSUME NEW q, NEW e, OwnedBy(q, e), e \notin {"editing", "disabling", "finishing", "halting"}
  PROVE  Free(q)
BY DEF OwnedBy, Free, Own, OwnEntry

LEMMA FreeIsOwned ==
  ASSUME NEW q, Free(q), NEW e
  PROVE  OwnedBy(q, e)
BY DEF OwnedBy, Free

(* A transaction joins the queue behind its holder.                        *)
LEMMA Joined ==
  ASSUME NEW q \in Seq(Kinds), NEW k \in Kinds, NEW e, OwnedBy(q, e),
         k \in Own => Free(q) /\ e = OwnEntry[k]
  PROVE  /\ Append(q, k) \in Seq(Kinds) /\ Append(q, k) # <<>> /\ OwnedBy(Append(q, k), e)
         /\ q # <<>> => Head(Append(q, k)) = Head(q)
<1>1. /\ Len(q) \in Nat /\ Append(q, k) \in Seq(Kinds) /\ Len(Append(q, k)) = Len(q) + 1
      /\ \A i \in 1 .. Len(q) : Append(q, k)[i] = q[i]
      /\ Append(q, k)[Len(q) + 1] = k
  BY AppendProperties, LenProperties
<1>2. DOMAIN q = 1 .. Len(q) /\ DOMAIN Append(q, k) = 1 .. Len(q) + 1
  BY <1>1, LenProperties
<1>3. Append(q, k) # <<>> /\ (q # <<>> => Head(Append(q, k)) = Head(q))
  <2>1. Len(Append(q, k)) # 0
    BY <1>1
  <2>2. Append(q, k) # <<>>
    BY <1>1, <2>1, EmptySeq
  <2>3. q # <<>> => Head(Append(q, k)) = Head(q)
    BY HeadTailAppend
  <2>4. QED
    BY <2>2, <2>3
<1> DEFINE p == Append(q, k)
<1>4. \A i \in DOMAIN p : \/ i \in DOMAIN q /\ p[i] = q[i]
                          \/ i = Len(q) + 1 /\ p[i] = k
  BY <1>1, <1>2
<1> HIDE DEF p
<1>5. OwnedBy(p, e)
  <2>1. CASE k \in Own
    BY <1>4, <2>1 DEF OwnedBy, Free
  <2>2. CASE k \notin Own
    BY <1>4, <2>2 DEF OwnedBy
  <2>3. QED
    BY <2>1, <2>2
<1>6. QED
  BY <1>1, <1>3, <1>5 DEF p

(* The holder leaves it.                                                   *)
LEMMA Left ==
  ASSUME NEW q \in Seq(Kinds), q # <<>>, NEW e, OwnedBy(q, e)
  PROVE  /\ Tail(q) \in Seq(Kinds) /\ OwnedBy(Tail(q), e) /\ Head(q) \in Kinds
         /\ Head(q) \in Own => Free(Tail(q)) /\ e = OwnEntry[Head(q)]
         /\ Free(q) => Free(Tail(q)) /\ Head(q) \notin Own
<1>1. /\ Tail(q) \in Seq(Kinds) /\ Head(q) \in Kinds /\ Len(q) \in Nat \ {0}
      /\ Len(Tail(q)) = Len(q) - 1 /\ \A i \in 1 .. Len(Tail(q)) : Tail(q)[i] = q[i + 1]
      /\ Head(q) = q[1]
  BY HeadTailProperties, EmptySeq
<1>2. DOMAIN q = 1 .. Len(q) /\ DOMAIN Tail(q) = 1 .. Len(Tail(q))
  BY <1>1, LenProperties
<1> DEFINE p == Tail(q)
<1>3. /\ \A i \in DOMAIN p : i \in Nat \ {0} /\ i + 1 \in DOMAIN q /\ p[i] = q[i + 1]
      /\ 1 \in DOMAIN q
  BY <1>1, <1>2
<1> HIDE DEF p
<1>4. OwnedBy(p, e)
  <2> SUFFICES ASSUME NEW i \in DOMAIN p, p[i] \in Own
               PROVE  e = OwnEntry[p[i]] /\ \A j \in DOMAIN p : p[j] \in Own => j = i
    BY DEF OwnedBy
  <2>1. e = OwnEntry[q[i + 1]] /\ \A j \in DOMAIN q : q[j] \in Own => j = i + 1
    BY <1>3 DEF OwnedBy
  <2>2. \A j \in DOMAIN p : p[j] \in Own => j + 1 = i + 1
    BY <1>3, <2>1
  <2>3. QED
    BY <1>3, <2>1, <2>2
<1>5. q[1] \in Own => Free(p) /\ e = OwnEntry[q[1]]
  <2> SUFFICES ASSUME q[1] \in Own PROVE Free(p) /\ e = OwnEntry[q[1]]
    OBVIOUS
  <2>1. e = OwnEntry[q[1]] /\ \A j \in DOMAIN q : q[j] \in Own => j = 1
    BY <1>3 DEF OwnedBy
  <2>2. \A j \in DOMAIN p : p[j] \notin Own
    BY <1>3, <2>1
  <2>3. QED
    BY <2>1, <2>2 DEF Free
<1>6. Free(q) => Free(p) /\ q[1] \notin Own
  BY <1>3 DEF Free
<1>7. QED
  BY <1>1, <1>4, <1>5, <1>6 DEF p

(* What the four kinds of steps do to it.                                  *)
Elsewhere == {"editing", "disabling", "finishing", "halting"}

LEMMA LockStays ==
  ASSUME LockInv, UNCHANGED <<lock, step>>, entry' = entry \/ entry \notin Elsewhere
  PROVE  LockInv'
<1>1. OwnedBy(lock, entry')
  BY EntryIsFree, FreeIsOwned DEF LockInv, Elsewhere
<1>2. QED
  BY <1>1 DEF LockInv

LEMMA LockGrows ==
  ASSUME LockInv, NEW k \in Kinds, lock' = Append(lock, k), UNCHANGED step,
         \/ k \notin Own /\ (entry' = entry \/ entry \notin Elsewhere)
         \/ k \in Own /\ Free(lock) /\ entry' = OwnEntry[k]
  PROVE  LockInv' /\ lock' # <<>>
<1>1. OwnedBy(lock, entry')
  BY EntryIsFree, FreeIsOwned DEF LockInv, Elsewhere
<1>2. /\ lock' \in Seq(Kinds) /\ lock' # <<>> /\ OwnedBy(lock', entry')
      /\ lock # <<>> => Head(lock') = Head(lock)
  BY <1>1, Joined DEF LockInv
<1>3. QED
  BY <1>2 DEF LockInv

LEMMA LockLeft ==
  ASSUME LockInv, lock # <<>>, lock' = Tail(lock), step' = "begin",
         entry' = entry \/ Head(lock) \in Own
  PROVE  LockInv'
<1>1. lock' \in Seq(Kinds) /\ OwnedBy(lock', entry')
  BY Left, FreeIsOwned DEF LockInv
<1>2. QED
  BY <1>1 DEF LockInv, Steps

LEMMA LockMoves ==
  ASSUME LockInv, lock # <<>>, lock' = lock, step' \in Steps, entry' = entry,
         step' = "clear" => Head(lock) \in Clears,
         step' = "control" => Head(lock) # "loss"
  PROVE  LockInv'
BY DEF LockInv

(* What the holder's step needs to know of it.                             *)
LEMMA HolderIsKnown ==
  ASSUME GateInv, step # "begin" \/ lock # <<>>
  PROVE  /\ lock # <<>> /\ Head(lock) \in Kinds /\ entry \notin Before
         /\ Head(lock) \in Own => entry = OwnEntry[Head(lock)]
<1>1. LockInv /\ StateInv
  BY GateParts
<1>2. lock # <<>>
  BY <1>1 DEF LockInv
<1>3. QED
  BY <1>1, <1>2, Left DEF LockInv, StateInv, BlankInv

-----------------------------------------------------------------------------
(* Calls and events.                                                       *)

LEMMA ActivateKeeps ==
  ASSUME GateInv, Activate
  PROVE  GateInv'
<1>1. LockInv /\ StateInv /\ Attempts \in Nat \ {0}
  BY GateParts, LifecycleAssumption
<1>2. LockInv'
  BY <1>1, LockGrows DEF StateInv, Kinds, Own, Activate, Request
<1>3. EnvTypes' /\ FlagTypes'
  <2>1. EnvTypes'
    BY <1>1 DEF StateInv, EnvTypes, Activate, Spend
  <2>2. entry' \in Entries /\ gen' \in Nat /\ served' \in Nat
    BY <1>1 DEF StateInv, FlagTypes, Activate, flagVars
  <2>3. owner' \in {"policy", "user", "nobody"} /\ excused' \in BOOLEAN
    BY <1>1 DEF StateInv, FlagTypes, Activate, ghosts
  <2>4. gate' \in BOOLEAN /\ allowed' \in BOOLEAN /\ terminal' \in BOOLEAN /\ required' \in BOOLEAN
    BY <1>1 DEF StateInv, FlagTypes, Activate, flagVars
  <2>5. /\ restore' \in BOOLEAN /\ active' \in BOOLEAN /\ started' \in BOOLEAN /\ down' \in BOOLEAN
        /\ retry' \in BOOLEAN /\ was' \in BOOLEAN /\ err' \in BOOLEAN
    BY <1>1 DEF StateInv, FlagTypes, Activate, Request
  <2>6. QED
    BY <2>1, <2>2, <2>3, <2>4, <2>5 DEF FlagTypes
<1>4. LoopInv'
  BY <1>1 DEF StateInv, LoopInv, Activate
<1>5. BlankInv' /\ StopInv'
  <2>1. BlankInv'
    BY <1>1 DEF StateInv, BlankInv, Activate, Serving
  <2>2. StopInv'
    BY <1>1 DEF StateInv, StopInv, Activate
  <2>3. QED
    BY <2>1, <2>2
<1>6. FailedInv' /\ GateIsSafe'
  BY <1>1 DEF StateInv, FailedInv, GateIsSafe, Activate, flagVars, ghosts
<1>7. QED
  BY <1>2, <1>3, <1>4, <1>5, <1>6, GateParts DEF StateInv

LEMMA YieldKeeps ==
  ASSUME GateInv, NEW k, Yield(k)
  PROVE  GateInv'
<1>1. LockInv /\ StateInv /\ Attempts \in Nat \ {0}
  BY GateParts, LifecycleAssumption
<1>2. LockInv'
  BY <1>1, LockGrows DEF StateInv, Kinds, Own, Yield, Request
<1>3. EnvTypes' /\ FlagTypes'
  <2>1. EnvTypes'
    BY <1>1 DEF StateInv, EnvTypes, Yield, Spend
  <2>2. entry' \in Entries /\ gen' \in Nat /\ served' \in Nat
    BY <1>1 DEF StateInv, FlagTypes, Yield, flagVars
  <2>3. owner' \in {"policy", "user", "nobody"} /\ excused' \in BOOLEAN
    BY <1>1 DEF StateInv, FlagTypes, Yield, ghosts
  <2>4. gate' \in BOOLEAN /\ allowed' \in BOOLEAN /\ terminal' \in BOOLEAN /\ required' \in BOOLEAN
    BY <1>1 DEF StateInv, FlagTypes, Yield, flagVars
  <2>5. /\ restore' \in BOOLEAN /\ active' \in BOOLEAN /\ started' \in BOOLEAN /\ down' \in BOOLEAN
        /\ retry' \in BOOLEAN /\ was' \in BOOLEAN /\ err' \in BOOLEAN
    BY <1>1 DEF StateInv, FlagTypes, Yield, Request
  <2>6. QED
    BY <2>1, <2>2, <2>3, <2>4, <2>5 DEF FlagTypes
<1>4. LoopInv'
  BY <1>1 DEF StateInv, LoopInv, Yield
<1>5. BlankInv' /\ StopInv'
  <2>1. BlankInv'
    BY <1>1 DEF StateInv, BlankInv, Before, Yield, Serving
  <2>2. StopInv'
    BY <1>1 DEF StateInv, StopInv, Yield, Serving
  <2>3. QED
    BY <2>1, <2>2
<1>6. FailedInv' /\ GateIsSafe'
  BY <1>1 DEF StateInv, FailedInv, GateIsSafe, Yield, flagVars, ghosts
<1>7. QED
  BY <1>2, <1>3, <1>4, <1>5, <1>6, GateParts DEF StateInv

LEMMA PhysicalKeeps ==
  ASSUME GateInv, PhysicalOverride
  PROVE  GateInv'
<1>1. LockInv /\ StateInv /\ Attempts \in Nat \ {0}
  BY GateParts, LifecycleAssumption
<1>2. LockInv'
  BY <1>1, LockGrows, LockStays DEF StateInv, Kinds, Own, PhysicalOverride, Request, lockVars
<1>3. EnvTypes' /\ FlagTypes'
  <2>1. EnvTypes'
    BY <1>1 DEF StateInv, EnvTypes, PhysicalOverride, Spend
  <2>2. entry' \in Entries /\ gen' \in Nat /\ served' \in Nat
    BY <1>1 DEF StateInv, FlagTypes, PhysicalOverride, flagVars
  <2>3. owner' \in {"policy", "user", "nobody"} /\ excused' \in BOOLEAN
    BY <1>1 DEF StateInv, PhysicalOverride, Decide
  <2>4. gate' \in BOOLEAN /\ allowed' \in BOOLEAN /\ terminal' \in BOOLEAN /\ required' \in BOOLEAN
    BY <1>1 DEF StateInv, FlagTypes, PhysicalOverride, flagVars
  <2>5. /\ restore' \in BOOLEAN /\ active' \in BOOLEAN /\ started' \in BOOLEAN /\ down' \in BOOLEAN
        /\ retry' \in BOOLEAN /\ was' \in BOOLEAN /\ err' \in BOOLEAN
    BY <1>1 DEF StateInv, FlagTypes, PhysicalOverride, Request, lockVars
  <2>6. QED
    BY <2>1, <2>2, <2>3, <2>4, <2>5 DEF FlagTypes
<1>4. LoopInv'
  BY <1>1 DEF StateInv, LoopInv, PhysicalOverride
<1>5. BlankInv' /\ StopInv'
  <2>1. BlankInv'
    BY <1>1 DEF StateInv, BlankInv, StopInv, PhysicalOverride
  <2>2. StopInv'
    BY <1>1 DEF StateInv, StopInv, PhysicalOverride, flagVars
  <2>3. QED
    BY <2>1, <2>2
<1>6. FailedInv' /\ GateIsSafe'
  BY <1>1 DEF StateInv, FailedInv, GateIsSafe, PhysicalOverride, Decide, flagVars
<1>7. QED
  BY <1>2, <1>3, <1>4, <1>5, <1>6, GateParts DEF StateInv

LEMMA ReloadKeeps ==
  ASSUME GateInv, Reload
  PROVE  GateInv'
<1>1. LockInv /\ StateInv /\ Attempts \in Nat \ {0}
  BY GateParts, LifecycleAssumption
<1>2. LockInv'
  BY <1>1, LockStays DEF StateInv, Elsewhere, Reload, lockVars
<1>3. EnvTypes' /\ FlagTypes'
  <2>1. EnvTypes'
    BY <1>1 DEF StateInv, EnvTypes, Reload, Spend
  <2>2. entry' \in Entries /\ gen' \in Nat /\ served' \in Nat
    BY <1>1 DEF StateInv, FlagTypes, Reload, Entries, flagVars
  <2>3. owner' \in {"policy", "user", "nobody"} /\ excused' \in BOOLEAN
    BY <1>1 DEF StateInv, FlagTypes, Reload, ghosts
  <2>4. gate' \in BOOLEAN /\ allowed' \in BOOLEAN /\ terminal' \in BOOLEAN /\ required' \in BOOLEAN
    BY <1>1 DEF StateInv, FlagTypes, Reload, flagVars
  <2>5. /\ restore' \in BOOLEAN /\ active' \in BOOLEAN /\ started' \in BOOLEAN /\ down' \in BOOLEAN
        /\ retry' \in BOOLEAN /\ was' \in BOOLEAN /\ err' \in BOOLEAN
    BY <1>1 DEF StateInv, FlagTypes, Reload, lockVars
  <2>6. QED
    BY <2>1, <2>2, <2>3, <2>4, <2>5 DEF FlagTypes
<1>4. LoopInv'
  BY <1>1 DEF StateInv, LoopInv, Reload
<1>5. BlankInv' /\ StopInv'
  <2>1. BlankInv'
    BY <1>1 DEF StateInv, BlankInv, Before, Reload
  <2>2. StopInv'
    BY <1>1 DEF StateInv, StopInv, Before, Reload
  <2>3. QED
    BY <2>1, <2>2
<1>6. FailedInv' /\ GateIsSafe'
  BY <1>1 DEF StateInv, FailedInv, GateIsSafe, Reload, flagVars, ghosts
<1>7. QED
  BY <1>2, <1>3, <1>4, <1>5, <1>6, GateParts DEF StateInv

LEMMA EnableKeeps ==
  ASSUME GateInv, Enable
  PROVE  GateInv'
<1>1. LockInv /\ StateInv /\ Attempts \in Nat \ {0}
  BY GateParts, LifecycleAssumption
<1>2. LockInv'
  BY <1>1, LockStays DEF StateInv, Enable, lockVars
<1>3. EnvTypes' /\ FlagTypes'
  <2>1. EnvTypes'
    <3>1. Spend("reload") /\ disabled' = FALSE /\ UNCHANGED <<store, entity, clear, faults>>
      BY DEF Enable
    <3>2. inputs' \in Nat
      BY <1>1, <3>1 DEF Spend, StateInv, EnvTypes
    <3>3. QED
      BY <1>1, <3>1, <3>2 DEF StateInv, EnvTypes
  <2>2. entry' \in Entries /\ gen' \in Nat /\ served' \in Nat
    BY <1>1 DEF StateInv, FlagTypes, Enable, flagVars
  <2>3. owner' \in {"policy", "user", "nobody"} /\ excused' \in BOOLEAN
    BY <1>1 DEF StateInv, FlagTypes, Enable, ghosts
  <2>4. gate' \in BOOLEAN /\ allowed' \in BOOLEAN /\ terminal' \in BOOLEAN /\ required' \in BOOLEAN
    BY <1>1 DEF StateInv, FlagTypes, Enable, flagVars
  <2>5. /\ restore' \in BOOLEAN /\ active' \in BOOLEAN /\ started' \in BOOLEAN /\ down' \in BOOLEAN
        /\ retry' \in BOOLEAN /\ was' \in BOOLEAN /\ err' \in BOOLEAN
    BY <1>1 DEF StateInv, FlagTypes, Enable, lockVars
  <2>6. QED
    BY <2>1, <2>2, <2>3, <2>4, <2>5 DEF FlagTypes
<1>4. LoopInv'
  BY <1>1 DEF StateInv, LoopInv, Enable
<1>5. BlankInv' /\ StopInv'
  <2>1. BlankInv'
    BY <1>1 DEF StateInv, BlankInv, Enable, flagVars, lockVars
  <2>2. StopInv'
    BY <1>1 DEF StateInv, StopInv, Enable
  <2>3. QED
    BY <2>1, <2>2
<1>6. FailedInv' /\ GateIsSafe'
  BY <1>1 DEF StateInv, FailedInv, GateIsSafe, Enable, flagVars, ghosts
<1>7. QED
  BY <1>2, <1>3, <1>4, <1>5, <1>6, GateParts DEF StateInv

LEMMA EditKeeps ==
  ASSUME GateInv, Edit
  PROVE  GateInv'
<1>1. LockInv /\ StateInv /\ Attempts \in Nat \ {0}
  BY GateParts, LifecycleAssumption
<1>2. LockInv'
  BY <1>1, LockGrows, EntryIsFree DEF StateInv, LockInv, Kinds, Own, OwnEntry, Edit, Request
<1>3. EnvTypes' /\ FlagTypes'
  <2>1. EnvTypes'
    BY <1>1 DEF StateInv, EnvTypes, Edit, Spend
  <2>2. entry' \in Entries /\ gen' \in Nat /\ served' \in Nat
    BY <1>1 DEF StateInv, FlagTypes, Edit, Entries, flagVars
  <2>3. owner' \in {"policy", "user", "nobody"} /\ excused' \in BOOLEAN
    BY <1>1 DEF StateInv, FlagTypes, Edit, ghosts
  <2>4. gate' \in BOOLEAN /\ allowed' \in BOOLEAN /\ terminal' \in BOOLEAN /\ required' \in BOOLEAN
    BY <1>1 DEF StateInv, FlagTypes, Edit, flagVars
  <2>5. /\ restore' \in BOOLEAN /\ active' \in BOOLEAN /\ started' \in BOOLEAN /\ down' \in BOOLEAN
        /\ retry' \in BOOLEAN /\ was' \in BOOLEAN /\ err' \in BOOLEAN
    BY <1>1 DEF StateInv, FlagTypes, Edit, Request
  <2>6. QED
    BY <2>1, <2>2, <2>3, <2>4, <2>5 DEF FlagTypes
<1>4. LoopInv'
  BY <1>1 DEF StateInv, LoopInv, Edit
<1>5. BlankInv' /\ StopInv'
  <2>1. BlankInv'
    BY <1>1 DEF StateInv, BlankInv, Before, Edit
  <2>2. StopInv'
    BY <1>1 DEF StateInv, StopInv, Before, Edit
  <2>3. QED
    BY <2>1, <2>2
<1>6. FailedInv' /\ GateIsSafe'
  BY <1>1 DEF StateInv, FailedInv, GateIsSafe, Edit, flagVars, ghosts
<1>7. QED
  BY <1>2, <1>3, <1>4, <1>5, <1>6, GateParts DEF StateInv

LEMMA DisableKeeps ==
  ASSUME GateInv, Disable
  PROVE  GateInv'
<1>1. LockInv /\ StateInv /\ Attempts \in Nat \ {0}
  BY GateParts, LifecycleAssumption
<1>2. LockInv'
  BY <1>1, LockGrows, EntryIsFree DEF StateInv, LockInv, Kinds, Own, OwnEntry, Disable, Request
<1>3. EnvTypes' /\ FlagTypes'
  <2>1. EnvTypes'
    BY <1>1 DEF StateInv, EnvTypes, Disable, Spend
  <2>2. entry' \in Entries /\ gen' \in Nat /\ served' \in Nat
    BY <1>1 DEF StateInv, FlagTypes, Disable, Entries
  <2>3. owner' \in {"policy", "user", "nobody"} /\ excused' \in BOOLEAN
    BY <1>1 DEF StateInv, Disable, Decide
  <2>4. gate' \in BOOLEAN /\ allowed' \in BOOLEAN /\ terminal' \in BOOLEAN /\ required' \in BOOLEAN
    BY <1>1 DEF StateInv, Disable
  <2>5. /\ restore' \in BOOLEAN /\ active' \in BOOLEAN /\ started' \in BOOLEAN /\ down' \in BOOLEAN
        /\ retry' \in BOOLEAN /\ was' \in BOOLEAN /\ err' \in BOOLEAN
    BY <1>1 DEF StateInv, FlagTypes, Disable, Request
  <2>6. QED
    BY <2>1, <2>2, <2>3, <2>4, <2>5 DEF FlagTypes
<1>4. LoopInv'
  BY <1>1 DEF StateInv, LoopInv, Disable
<1>5. BlankInv' /\ StopInv'
  <2>1. BlankInv'
    BY <1>1 DEF StateInv, BlankInv, Before, Disable
  <2>2. StopInv'
    BY <1>1 DEF StateInv, StopInv, Before, Disable
  <2>3. QED
    BY <2>1, <2>2
<1>6. FailedInv' /\ GateIsSafe'
  BY <1>1 DEF StateInv, FailedInv, GateIsSafe, Disable
<1>7. QED
  BY <1>2, <1>3, <1>4, <1>5, <1>6, GateParts DEF StateInv

LEMMA SwitchChangesKeeps ==
  ASSUME GateInv, SwitchChanges
  PROVE  GateInv'
<1>1. LockInv /\ StateInv /\ Attempts \in Nat \ {0}
  BY GateParts, LifecycleAssumption
<1>2. LockInv'
  BY <1>1, LockStays DEF StateInv, SwitchChanges, lockVars
<1>3. EnvTypes' /\ FlagTypes'
  <2>1. EnvTypes'
    BY <1>1 DEF StateInv, EnvTypes, SwitchChanges, Spend
  <2>2. entry' \in Entries /\ gen' \in Nat /\ served' \in Nat
    BY <1>1 DEF StateInv, FlagTypes, SwitchChanges, Heard, SetAllowed, flagVars
  <2>3. owner' \in {"policy", "user", "nobody"} /\ excused' \in BOOLEAN
    BY <1>1 DEF StateInv, FlagTypes, SwitchChanges, Heard, Decide, ghosts
  <2>4. gate' \in BOOLEAN /\ allowed' \in BOOLEAN /\ terminal' \in BOOLEAN /\ required' \in BOOLEAN
    BY <1>1 DEF StateInv, FlagTypes, SwitchChanges, Heard, SetAllowed, flagVars
  <2>5. /\ restore' \in BOOLEAN /\ active' \in BOOLEAN /\ started' \in BOOLEAN /\ down' \in BOOLEAN
        /\ retry' \in BOOLEAN /\ was' \in BOOLEAN /\ err' \in BOOLEAN
    BY <1>1 DEF StateInv, FlagTypes, SwitchChanges, lockVars
  <2>6. QED
    BY <2>1, <2>2, <2>3, <2>4, <2>5 DEF FlagTypes
<1>4. LoopInv'
  BY <1>1 DEF StateInv, LoopInv, SwitchChanges, Heard, SetAllowed, Scheduled, Begun, LoopStates
<1>5. BlankInv' /\ StopInv'
  <2>1. BlankInv'
    BY <1>1 DEF StateInv, BlankInv, Before, SwitchChanges, Heard, Listening, flagVars, lockVars
  <2>2. StopInv'
    BY <1>1 DEF StateInv, StopInv, SwitchChanges, Heard, SetAllowed, flagVars
  <2>3. QED
    BY <2>1, <2>2
<1>6. FailedInv' /\ GateIsSafe'
  BY <1>1
     DEF StateInv, FailedInv, GateIsSafe, SwitchChanges, Heard, SetAllowed, Decide, flagVars,
         ghosts
<1>7. QED
  BY <1>2, <1>3, <1>4, <1>5, <1>6, GateParts DEF StateInv

LEMMA SwitchFollowsKeeps ==
  ASSUME GateInv, SwitchFollowsEntry
  PROVE  GateInv'
<1>1. LockInv /\ StateInv /\ Attempts \in Nat \ {0}
  BY GateParts, LifecycleAssumption
<1>2. LockInv'
  BY <1>1, LockStays DEF StateInv, SwitchFollowsEntry, lockVars
<1>3. EnvTypes' /\ FlagTypes'
  <2>1. EnvTypes'
    <3> DEFINE g == clear.gen + 1
    <3> DEFINE a == IF clear.attempt = 0 THEN 1 ELSE clear.attempt
    <3> DEFINE r == IF clear.attempt = 0 THEN clear.gen + 1 ELSE clear.target
    <3>1. clear \in [gen : Nat, served : Nat, target : Nat, attempt : 0 .. Attempts]
      BY <1>1 DEF StateInv, EnvTypes
    <3>2. g \in Nat /\ r \in Nat /\ a \in 0 .. Attempts
      BY <1>1, <3>1
    <3>3. /\ clear' = [clear EXCEPT !.gen = g, !.attempt = a, !.target = r]
          /\ entity' \in {"enabled", "byEntry"} /\ UNCHANGED <<store, disabled, inputs, faults>>
      BY DEF SwitchFollowsEntry
    <3> HIDE DEF g, a, r
    <3>4. clear' \in [gen : Nat, served : Nat, target : Nat, attempt : 0 .. Attempts]
      BY <3>1, <3>2, <3>3
    <3>5. QED
      BY <1>1, <3>3, <3>4 DEF StateInv, EnvTypes
  <2>2. entry' \in Entries /\ gen' \in Nat /\ served' \in Nat
    BY <1>1 DEF StateInv, FlagTypes, SwitchFollowsEntry, Heard, SetAllowed, flagVars
  <2>3. owner' \in {"policy", "user", "nobody"} /\ excused' \in BOOLEAN
    BY <1>1 DEF StateInv, FlagTypes, SwitchFollowsEntry, Heard, Decide, ghosts
  <2>4. gate' \in BOOLEAN /\ allowed' \in BOOLEAN /\ terminal' \in BOOLEAN /\ required' \in BOOLEAN
    BY <1>1 DEF StateInv, FlagTypes, SwitchFollowsEntry, Heard, SetAllowed, flagVars
  <2>5. /\ restore' \in BOOLEAN /\ active' \in BOOLEAN /\ started' \in BOOLEAN /\ down' \in BOOLEAN
        /\ retry' \in BOOLEAN /\ was' \in BOOLEAN /\ err' \in BOOLEAN
    BY <1>1 DEF StateInv, FlagTypes, SwitchFollowsEntry, lockVars
  <2>6. QED
    BY <2>1, <2>2, <2>3, <2>4, <2>5 DEF FlagTypes
<1>4. LoopInv'
  BY <1>1 DEF StateInv, LoopInv, SwitchFollowsEntry, Heard, SetAllowed, Scheduled, Begun, LoopStates
<1>5. BlankInv' /\ StopInv'
  <2>1. BlankInv'
    BY <1>1 DEF StateInv, BlankInv, Before, SwitchFollowsEntry, Heard, Listening, flagVars, lockVars
  <2>2. StopInv'
    BY <1>1 DEF StateInv, StopInv, SwitchFollowsEntry, Heard, SetAllowed, flagVars
  <2>3. QED
    BY <2>1, <2>2
<1>6. FailedInv' /\ GateIsSafe'
  BY <1>1
     DEF StateInv, FailedInv, GateIsSafe, SwitchFollowsEntry, Heard, SetAllowed, Decide,
         flagVars, ghosts
<1>7. QED
  BY <1>2, <1>3, <1>4, <1>5, <1>6, GateParts DEF StateInv

-----------------------------------------------------------------------------
(* Required clears, set-up and unload.                                     *)

LEMMA RequiredClearKeeps ==
  ASSUME GateInv, NEW ok \in BOOLEAN, RequiredClear(ok)
  PROVE  GateInv'
<1>1. LockInv /\ StateInv /\ Attempts \in Nat \ {0}
  BY GateParts, LifecycleAssumption
<1>2. LockInv'
  BY <1>1, LockStays DEF StateInv, RequiredClear, lockVars
<1>3. EnvTypes' /\ FlagTypes'
  <2>1. EnvTypes'
    <3> DEFINE C == [gen : Nat, served : Nat, target : Nat, attempt : 0 .. Attempts]
    <3> DEFINE a == IF clear.attempt = Attempts THEN 0 ELSE clear.attempt + 1
    <3>1. /\ clear \in C /\ clear.gen \in Nat /\ clear.attempt \in 0 .. Attempts
          /\ store \in {"none", "on", "off"} /\ faults \in Nat
      BY <1>1 DEF StateInv, EnvTypes
    <3>2. 0 \in 0 .. Attempts /\ 1 \in 0 .. Attempts /\ a \in 0 .. Attempts
      BY <1>1, <3>1
    <3>3. /\ \/ clear' = [clear EXCEPT !.served = clear.gen, !.attempt = 0]
             \/ clear' = [clear EXCEPT !.target = clear.gen, !.attempt = 1]
             \/ clear' = [clear EXCEPT !.attempt = a]
          /\ store' \in {"none", store} /\ faults' \in {faults, faults + 1}
          /\ UNCHANGED <<entity, disabled, inputs>>
      BY <1>1 DEF RequiredClear, Succeeds
    <3> HIDE DEF a
    <3>4. clear' \in C
      BY <3>1, <3>2, <3>3
    <3>5. QED
      BY <1>1, <3>1, <3>3, <3>4 DEF StateInv, EnvTypes
  <2>2. entry' \in Entries /\ gen' \in Nat /\ served' \in Nat
    BY <1>1 DEF StateInv, FlagTypes, RequiredClear, flagVars
  <2>3. owner' \in {"policy", "user", "nobody"} /\ excused' \in BOOLEAN
    BY <1>1 DEF StateInv, FlagTypes, RequiredClear, ghosts
  <2>4. gate' \in BOOLEAN /\ allowed' \in BOOLEAN /\ terminal' \in BOOLEAN /\ required' \in BOOLEAN
    BY <1>1 DEF StateInv, FlagTypes, RequiredClear, flagVars
  <2>5. /\ restore' \in BOOLEAN /\ active' \in BOOLEAN /\ started' \in BOOLEAN /\ down' \in BOOLEAN
        /\ retry' \in BOOLEAN /\ was' \in BOOLEAN /\ err' \in BOOLEAN
    BY <1>1 DEF StateInv, FlagTypes, RequiredClear, lockVars
  <2>6. QED
    BY <2>1, <2>2, <2>3, <2>4, <2>5 DEF FlagTypes
<1>4. LoopInv'
  BY <1>1 DEF StateInv, LoopInv, RequiredClear
<1>5. BlankInv' /\ StopInv'
  <2>1. BlankInv'
    BY <1>1 DEF StateInv, BlankInv, RequiredClear, flagVars, lockVars
  <2>2. StopInv'
    BY <1>1 DEF StateInv, StopInv, RequiredClear, flagVars
  <2>3. QED
    BY <2>1, <2>2
<1>6. FailedInv' /\ GateIsSafe'
  BY <1>1 DEF StateInv, FailedInv, GateIsSafe, RequiredClear, flagVars, ghosts
<1>7. QED
  BY <1>2, <1>3, <1>4, <1>5, <1>6, GateParts DEF StateInv

LEMMA SetupKeeps ==
  ASSUME GateInv, Setup
  PROVE  GateInv'
<1>1. LockInv /\ StateInv /\ Attempts \in Nat \ {0}
  BY GateParts, LifecycleAssumption
<1>2. LockInv'
  BY <1>1, LockStays DEF StateInv, Elsewhere, Setup, lockVars
<1>3. EnvTypes' /\ FlagTypes'
  <2>1. EnvTypes'
    <3> DEFINE C == [gen : Nat, served : Nat, target : Nat, attempt : 0 .. Attempts]
    <3>1. clear \in C /\ clear.gen \in Nat /\ 1 \in 0 .. Attempts
      BY <1>1 DEF StateInv, EnvTypes
    <3>2. /\ clear' = clear \/ clear' = [clear EXCEPT !.attempt = 1, !.target = clear.gen]
          /\ UNCHANGED <<store, entity, disabled, inputs, faults>>
      BY DEF Setup
    <3>3. clear' \in C
      BY <3>1, <3>2
    <3>4. QED
      BY <1>1, <3>2, <3>3 DEF StateInv, EnvTypes
  <2>2. entry' \in Entries /\ gen' \in Nat /\ served' \in Nat
    BY <1>1 DEF StateInv, FlagTypes, Setup, Entries, flagVars
  <2>3. owner' \in {"policy", "user", "nobody"} /\ excused' \in BOOLEAN
    BY <1>1 DEF StateInv, FlagTypes, Setup, ghosts
  <2>4. gate' \in BOOLEAN /\ allowed' \in BOOLEAN /\ terminal' \in BOOLEAN /\ required' \in BOOLEAN
    BY <1>1 DEF StateInv, FlagTypes, Setup, flagVars
  <2>5. /\ restore' \in BOOLEAN /\ active' \in BOOLEAN /\ started' \in BOOLEAN /\ down' \in BOOLEAN
        /\ retry' \in BOOLEAN /\ was' \in BOOLEAN /\ err' \in BOOLEAN
    BY <1>1 DEF StateInv, FlagTypes, Setup, lockVars
  <2>6. QED
    BY <2>1, <2>2, <2>3, <2>4, <2>5 DEF FlagTypes
<1>4. LoopInv'
  BY <1>1 DEF StateInv, LoopInv, Setup
<1>5. BlankInv' /\ StopInv'
  <2>1. BlankInv'
    BY <1>1 DEF StateInv, BlankInv, Before, Setup, flagVars, lockVars
  <2>2. StopInv'
    BY <1>1 DEF StateInv, StopInv, Before, Setup
  <2>3. QED
    BY <2>1, <2>2
<1>6. FailedInv' /\ GateIsSafe'
  BY <1>1 DEF StateInv, FailedInv, GateIsSafe, Setup, flagVars, ghosts
<1>7. QED
  BY <1>2, <1>3, <1>4, <1>5, <1>6, GateParts DEF StateInv

LEMMA SettledKeeps ==
  ASSUME GateInv, Settled
  PROVE  GateInv'
<1>1. LockInv /\ StateInv /\ Attempts \in Nat \ {0}
  BY GateParts, LifecycleAssumption
<1>2. LockInv'
  BY <1>1, LockStays DEF StateInv, Elsewhere, Settled, lockVars
<1>3. EnvTypes' /\ FlagTypes'
  <2>1. EnvTypes'
    BY <1>1 DEF StateInv, EnvTypes, Settled, envVars
  <2>2. entry' \in Entries /\ gen' \in Nat /\ served' \in Nat
    BY <1>1 DEF StateInv, FlagTypes, Settled, Entries, flagVars
  <2>3. owner' \in {"policy", "user", "nobody"} /\ excused' \in BOOLEAN
    BY <1>1 DEF StateInv, FlagTypes, Settled, ghosts
  <2>4. gate' \in BOOLEAN /\ allowed' \in BOOLEAN /\ terminal' \in BOOLEAN /\ required' \in BOOLEAN
    BY <1>1 DEF StateInv, FlagTypes, Settled, flagVars
  <2>5. /\ restore' \in BOOLEAN /\ active' \in BOOLEAN /\ started' \in BOOLEAN /\ down' \in BOOLEAN
        /\ retry' \in BOOLEAN /\ was' \in BOOLEAN /\ err' \in BOOLEAN
    BY <1>1 DEF StateInv, FlagTypes, Settled, lockVars
  <2>6. QED
    BY <2>1, <2>2, <2>3, <2>4, <2>5 DEF FlagTypes
<1>4. LoopInv'
  BY <1>1 DEF StateInv, LoopInv, Settled
<1>5. BlankInv' /\ StopInv'
  <2>1. BlankInv'
    BY <1>1 DEF StateInv, BlankInv, Before, Settled, flagVars, lockVars
  <2>2. StopInv'
    BY <1>1 DEF StateInv, StopInv, Before, Settled
  <2>3. QED
    BY <2>1, <2>2
<1>6. FailedInv' /\ GateIsSafe'
  BY <1>1 DEF StateInv, FailedInv, GateIsSafe, Settled, flagVars, ghosts
<1>7. QED
  BY <1>2, <1>3, <1>4, <1>5, <1>6, GateParts DEF StateInv

LEMMA LoadedKeeps ==
  ASSUME GateInv, NEW ok \in BOOLEAN, Loaded(ok)
  PROVE  GateInv'
<1>1. LockInv /\ StateInv /\ Attempts \in Nat \ {0}
  BY GateParts, LifecycleAssumption
<1>2. LockInv'
  BY <1>1, LockStays DEF StateInv, Elsewhere, Loaded, lockVars
<1>3. EnvTypes' /\ FlagTypes'
  <2>1. EnvTypes'
    BY <1>1 DEF StateInv, EnvTypes, Loaded, Succeeds, envVars
  <2>2. entry' \in Entries /\ gen' \in Nat /\ served' \in Nat
    BY <1>1 DEF StateInv, FlagTypes, Loaded, Entries
  <2>3. owner' \in {"policy", "user", "nobody"} /\ excused' \in BOOLEAN
    BY <1>1 DEF StateInv, FlagTypes, Loaded, Decide, ghosts
  <2>4. gate' \in BOOLEAN /\ allowed' \in BOOLEAN /\ terminal' \in BOOLEAN /\ required' \in BOOLEAN
    BY <1>1 DEF StateInv, FlagTypes, Loaded
  <2>5. /\ restore' \in BOOLEAN /\ active' \in BOOLEAN /\ started' \in BOOLEAN /\ down' \in BOOLEAN
        /\ retry' \in BOOLEAN /\ was' \in BOOLEAN /\ err' \in BOOLEAN
    BY <1>1 DEF StateInv, FlagTypes, Loaded, lockVars
  <2>6. QED
    BY <2>1, <2>2, <2>3, <2>4, <2>5 DEF FlagTypes
<1>4. LoopInv'
  BY <1>1 DEF StateInv, LoopInv, Loaded
<1>5. BlankInv' /\ StopInv'
  <2>1. BlankInv'
    BY <1>1 DEF StateInv, BlankInv, Before, Loaded, lockVars
  <2>2. StopInv'
    BY <1>1 DEF StateInv, StopInv, Before, Loaded
  <2>3. QED
    BY <2>1, <2>2
<1>6. FailedInv' /\ GateIsSafe'
  BY <1>1 DEF StateInv, FailedInv, GateIsSafe, BlankInv, Before, Loops, Loaded
<1>7. QED
  BY <1>2, <1>3, <1>4, <1>5, <1>6, GateParts DEF StateInv

LEMMA CreatedKeeps ==
  ASSUME GateInv, Created
  PROVE  GateInv'
<1>1. LockInv /\ StateInv /\ Attempts \in Nat \ {0}
  BY GateParts, LifecycleAssumption
<1>2. LockInv'
  BY <1>1, LockStays DEF StateInv, Elsewhere, Created, lockVars
<1>3. EnvTypes' /\ FlagTypes'
  <2>1. EnvTypes'
    BY <1>1 DEF StateInv, EnvTypes, Created, envVars
  <2>2. entry' \in Entries /\ gen' \in Nat /\ served' \in Nat
    BY <1>1 DEF StateInv, FlagTypes, Created, SetAllowed, Entries, flagVars
  <2>3. owner' \in {"policy", "user", "nobody"} /\ excused' \in BOOLEAN
    BY <1>1 DEF StateInv, FlagTypes, Created, Decide, ghosts
  <2>4. gate' \in BOOLEAN /\ allowed' \in BOOLEAN /\ terminal' \in BOOLEAN /\ required' \in BOOLEAN
    BY <1>1 DEF StateInv, FlagTypes, Created, SetAllowed, flagVars
  <2>5. /\ restore' \in BOOLEAN /\ active' \in BOOLEAN /\ started' \in BOOLEAN /\ down' \in BOOLEAN
        /\ retry' \in BOOLEAN /\ was' \in BOOLEAN /\ err' \in BOOLEAN
    BY <1>1 DEF StateInv, FlagTypes, Created, lockVars
  <2>6. QED
    BY <2>1, <2>2, <2>3, <2>4, <2>5 DEF FlagTypes
<1>4. LoopInv'
  BY <1>1 DEF StateInv, LoopInv, Created, SetAllowed, Scheduled, Begun, Loops, LoopStates
<1>5. BlankInv' /\ StopInv'
  <2>1. BlankInv'
    BY <1>1 DEF StateInv, BlankInv, Before, Created
  <2>2. StopInv'
    BY <1>1 DEF StateInv, StopInv, Before, Created
  <2>3. QED
    BY <2>1, <2>2
<1>6. FailedInv' /\ GateIsSafe'
  BY <1>1
     DEF StateInv, FailedInv, GateIsSafe, BlankInv, Before, Created, SetAllowed, Loops,
         flagVars
<1>7. QED
  BY <1>2, <1>3, <1>4, <1>5, <1>6, GateParts DEF StateInv

LEMMA ClearedKeeps ==
  ASSUME GateInv, NEW ok \in BOOLEAN, Cleared(ok)
  PROVE  GateInv'
<1>1. LockInv /\ StateInv /\ Attempts \in Nat \ {0}
  BY GateParts, LifecycleAssumption
<1>2. LockInv'
  BY <1>1, LockStays DEF StateInv, Elsewhere, Cleared, lockVars
<1>3. EnvTypes' /\ FlagTypes'
  <2>1. EnvTypes'
    BY <1>1 DEF StateInv, EnvTypes, Cleared, Succeeds, envVars
  <2>2. entry' \in Entries /\ gen' \in Nat /\ served' \in Nat
    BY <1>1 DEF StateInv, FlagTypes, Cleared, Entries, flagVars
  <2>3. owner' \in {"policy", "user", "nobody"} /\ excused' \in BOOLEAN
    BY <1>1 DEF StateInv, FlagTypes, Cleared, ghosts
  <2>4. gate' \in BOOLEAN /\ allowed' \in BOOLEAN /\ terminal' \in BOOLEAN /\ required' \in BOOLEAN
    BY <1>1 DEF StateInv, FlagTypes, Cleared, flagVars
  <2>5. /\ restore' \in BOOLEAN /\ active' \in BOOLEAN /\ started' \in BOOLEAN /\ down' \in BOOLEAN
        /\ retry' \in BOOLEAN /\ was' \in BOOLEAN /\ err' \in BOOLEAN
    BY <1>1 DEF StateInv, FlagTypes, Cleared, lockVars
  <2>6. QED
    BY <2>1, <2>2, <2>3, <2>4, <2>5 DEF FlagTypes
<1>4. LoopInv'
  BY <1>1 DEF StateInv, LoopInv, Cleared
<1>5. BlankInv' /\ StopInv'
  <2>1. BlankInv'
    BY <1>1 DEF StateInv, BlankInv, Before, Cleared
  <2>2. StopInv'
    BY <1>1 DEF StateInv, StopInv, Before, Cleared
  <2>3. QED
    BY <2>1, <2>2
<1>6. FailedInv' /\ GateIsSafe'
  BY <1>1 DEF StateInv, FailedInv, GateIsSafe, Cleared, flagVars, ghosts
<1>7. QED
  BY <1>2, <1>3, <1>4, <1>5, <1>6, GateParts DEF StateInv

LEMMA StartBeginsKeeps ==
  ASSUME GateInv, StartBegins
  PROVE  GateInv'
<1>1. LockInv /\ StateInv /\ Attempts \in Nat \ {0}
  BY GateParts, LifecycleAssumption
<1>2. LockInv'
  BY <1>1, LockStays, LockGrows DEF StateInv, Elsewhere, Own, Kinds, StartBegins, Turn
<1>3. EnvTypes' /\ FlagTypes'
  <2>1. EnvTypes'
    BY <1>1 DEF StateInv, EnvTypes, StartBegins, envVars
  <2>2. entry' \in Entries /\ gen' \in Nat /\ served' \in Nat
    BY <1>1 DEF StateInv, FlagTypes, StartBegins, Restoring, Entries, flagVars
  <2>3. owner' \in {"policy", "user", "nobody"} /\ excused' \in BOOLEAN
    BY <1>1 DEF StateInv, FlagTypes, StartBegins, ghosts
  <2>4. gate' \in BOOLEAN /\ allowed' \in BOOLEAN /\ terminal' \in BOOLEAN /\ required' \in BOOLEAN
    BY <1>1 DEF StateInv, FlagTypes, StartBegins, Turn, flagVars
  <2>5. /\ restore' \in BOOLEAN /\ active' \in BOOLEAN /\ started' \in BOOLEAN /\ down' \in BOOLEAN
        /\ retry' \in BOOLEAN /\ was' \in BOOLEAN /\ err' \in BOOLEAN
    BY <1>1 DEF StateInv, FlagTypes, StartBegins, Restoring
  <2>6. QED
    BY <2>1, <2>2, <2>3, <2>4, <2>5 DEF FlagTypes
<1>4. LoopInv'
  BY <1>1 DEF StateInv, LoopInv, FlagTypes, StartBegins, Turn, Loops, LoopStates
<1>5. BlankInv' /\ StopInv'
  <2>1. BlankInv'
    BY <1>1 DEF StateInv, BlankInv, Before, StartBegins, Restoring
  <2>2. StopInv'
    BY <1>1 DEF StateInv, StopInv, Before, StartBegins, Restoring
  <2>3. QED
    BY <2>1, <2>2
<1>6. FailedInv' /\ GateIsSafe'
  BY <1>1 DEF StateInv, FailedInv, GateIsSafe, StartBegins, Turn, flagVars, ghosts
<1>7. QED
  BY <1>2, <1>3, <1>4, <1>5, <1>6, GateParts DEF StateInv

LEMMA StartCleanedKeeps ==
  ASSUME GateInv, StartCleaned
  PROVE  GateInv'
<1>1. LockInv /\ StateInv /\ Attempts \in Nat \ {0}
  BY GateParts, LifecycleAssumption
<1>2. LockInv'
  BY <1>1, LockStays DEF StateInv, Elsewhere, StartCleaned, lockVars
<1>3. EnvTypes' /\ FlagTypes'
  <2>1. EnvTypes'
    BY <1>1 DEF StateInv, EnvTypes, StartCleaned, envVars
  <2>2. entry' \in Entries /\ gen' \in Nat /\ served' \in Nat
    BY <1>1 DEF StateInv, FlagTypes, StartCleaned, Restoring, Entries, flagVars
  <2>3. owner' \in {"policy", "user", "nobody"} /\ excused' \in BOOLEAN
    BY <1>1 DEF StateInv, FlagTypes, StartCleaned, ghosts
  <2>4. gate' \in BOOLEAN /\ allowed' \in BOOLEAN /\ terminal' \in BOOLEAN /\ required' \in BOOLEAN
    BY <1>1 DEF StateInv, FlagTypes, StartCleaned, flagVars
  <2>5. /\ restore' \in BOOLEAN /\ active' \in BOOLEAN /\ started' \in BOOLEAN /\ down' \in BOOLEAN
        /\ retry' \in BOOLEAN /\ was' \in BOOLEAN /\ err' \in BOOLEAN
    BY <1>1 DEF StateInv, FlagTypes, StartCleaned, Restoring, lockVars
  <2>6. QED
    BY <2>1, <2>2, <2>3, <2>4, <2>5 DEF FlagTypes
<1>4. LoopInv'
  BY <1>1 DEF StateInv, LoopInv, StartCleaned, NoLoop, Loops, LoopStates
<1>5. BlankInv' /\ StopInv'
  <2>1. BlankInv'
    BY <1>1 DEF StateInv, BlankInv, Before, StartCleaned, Restoring
  <2>2. StopInv'
    BY <1>1 DEF StateInv, StopInv, Before, StartCleaned, Restoring
  <2>3. QED
    BY <2>1, <2>2
<1>6. FailedInv' /\ GateIsSafe'
  BY <1>1 DEF StateInv, FailedInv, GateIsSafe, StartCleaned, flagVars, ghosts
<1>7. QED
  BY <1>2, <1>3, <1>4, <1>5, <1>6, GateParts DEF StateInv

LEMMA RestoredKeeps ==
  ASSUME GateInv, Restored
  PROVE  GateInv'
<1>1. LockInv /\ StateInv /\ Attempts \in Nat \ {0}
  BY GateParts, LifecycleAssumption
<1>2. LockInv'
  BY <1>1, LockStays DEF StateInv, Elsewhere, Restored, lockVars
<1>3. EnvTypes' /\ FlagTypes'
  <2>1. EnvTypes'
    BY <1>1 DEF StateInv, EnvTypes, Restored, envVars
  <2>2. entry' \in Entries /\ gen' \in Nat /\ served' \in Nat
    BY <1>1 DEF StateInv, FlagTypes, Restored, Entries, flagVars
  <2>3. owner' \in {"policy", "user", "nobody"} /\ excused' \in BOOLEAN
    BY <1>1 DEF StateInv, FlagTypes, Restored, ghosts
  <2>4. gate' \in BOOLEAN /\ allowed' \in BOOLEAN /\ terminal' \in BOOLEAN /\ required' \in BOOLEAN
    BY <1>1 DEF StateInv, FlagTypes, Restored, flagVars
  <2>5. /\ restore' \in BOOLEAN /\ active' \in BOOLEAN /\ started' \in BOOLEAN /\ down' \in BOOLEAN
        /\ retry' \in BOOLEAN /\ was' \in BOOLEAN /\ err' \in BOOLEAN
    BY <1>1 DEF StateInv, FlagTypes, Restored, lockVars
  <2>6. QED
    BY <2>1, <2>2, <2>3, <2>4, <2>5 DEF FlagTypes
<1>4. LoopInv'
  BY <1>1 DEF StateInv, LoopInv, Restored
<1>5. BlankInv' /\ StopInv'
  <2>1. BlankInv'
    BY <1>1 DEF StateInv, BlankInv, Before, Restored
  <2>2. StopInv'
    BY <1>1 DEF StateInv, StopInv, Before, Restored
  <2>3. QED
    BY <2>1, <2>2
<1>6. FailedInv' /\ GateIsSafe'
  BY <1>1 DEF StateInv, FailedInv, GateIsSafe, Restored, flagVars, ghosts
<1>7. QED
  BY <1>2, <1>3, <1>4, <1>5, <1>6, GateParts DEF StateInv

LEMMA ConnectedKeeps ==
  ASSUME GateInv, NEW ok \in BOOLEAN, Connected(ok)
  PROVE  GateInv'
<1>1. LockInv /\ StateInv /\ Attempts \in Nat \ {0}
  BY GateParts, LifecycleAssumption
<1>2. LockInv'
  BY <1>1, LockStays DEF StateInv, Elsewhere, Connected, lockVars
<1>3. EnvTypes' /\ FlagTypes'
  <2>1. EnvTypes'
    BY <1>1 DEF StateInv, EnvTypes, Connected, Succeeds, envVars
  <2>2. entry' \in Entries /\ gen' \in Nat /\ served' \in Nat
    BY <1>1 DEF StateInv, FlagTypes, Connected, Entries, flagVars
  <2>3. owner' \in {"policy", "user", "nobody"} /\ excused' \in BOOLEAN
    BY <1>1 DEF StateInv, FlagTypes, Connected, ghosts
  <2>4. gate' \in BOOLEAN /\ allowed' \in BOOLEAN /\ terminal' \in BOOLEAN /\ required' \in BOOLEAN
    BY <1>1 DEF StateInv, FlagTypes, Connected, flagVars
  <2>5. /\ restore' \in BOOLEAN /\ active' \in BOOLEAN /\ started' \in BOOLEAN /\ down' \in BOOLEAN
        /\ retry' \in BOOLEAN /\ was' \in BOOLEAN /\ err' \in BOOLEAN
    BY <1>1 DEF StateInv, FlagTypes, Connected, lockVars
  <2>6. QED
    BY <2>1, <2>2, <2>3, <2>4, <2>5 DEF FlagTypes
<1>4. LoopInv'
  BY <1>1 DEF StateInv, LoopInv, Connected
<1>5. BlankInv' /\ StopInv'
  <2>1. BlankInv'
    BY <1>1 DEF StateInv, BlankInv, Before, Connected
  <2>2. StopInv'
    BY <1>1 DEF StateInv, StopInv, Before, Connected
  <2>3. QED
    BY <2>1, <2>2
<1>6. FailedInv' /\ GateIsSafe'
  BY <1>1 DEF StateInv, FailedInv, GateIsSafe, Connected, flagVars, ghosts
<1>7. QED
  BY <1>2, <1>3, <1>4, <1>5, <1>6, GateParts DEF StateInv

LEMMA StopBeginsKeeps ==
  ASSUME GateInv, StopBegins
  PROVE  GateInv'
<1>1. LockInv /\ StateInv /\ Attempts \in Nat \ {0}
  BY GateParts, LifecycleAssumption
<1>2. LockInv'
  BY <1>1, LockStays DEF StateInv, Elsewhere, StopBegins, lockVars
<1>3. EnvTypes' /\ FlagTypes'
  <2>1. EnvTypes'
    BY <1>1 DEF StateInv, EnvTypes, StopBegins, envVars
  <2>2. entry' \in Entries /\ gen' \in Nat /\ served' \in Nat
    BY <1>1 DEF StateInv, FlagTypes, StopBegins, Entries, flagVars
  <2>3. owner' \in {"policy", "user", "nobody"} /\ excused' \in BOOLEAN
    BY <1>1 DEF StateInv, FlagTypes, StopBegins, ghosts
  <2>4. gate' \in BOOLEAN /\ allowed' \in BOOLEAN /\ terminal' \in BOOLEAN /\ required' \in BOOLEAN
    BY <1>1 DEF StateInv, FlagTypes, StopBegins, flagVars
  <2>5. /\ restore' \in BOOLEAN /\ active' \in BOOLEAN /\ started' \in BOOLEAN /\ down' \in BOOLEAN
        /\ retry' \in BOOLEAN /\ was' \in BOOLEAN /\ err' \in BOOLEAN
    BY <1>1 DEF StateInv, FlagTypes, StopBegins, lockVars
  <2>6. QED
    BY <2>1, <2>2, <2>3, <2>4, <2>5 DEF FlagTypes
<1>4. LoopInv'
  BY <1>1 DEF StateInv, LoopInv, StopBegins
<1>5. BlankInv' /\ StopInv'
  <2>1. BlankInv'
    BY <1>1 DEF StateInv, BlankInv, Before, StopBegins
  <2>2. StopInv'
    BY <1>1 DEF StateInv, StopInv, Before, StopBegins
  <2>3. QED
    BY <2>1, <2>2
<1>6. FailedInv' /\ GateIsSafe'
  BY <1>1 DEF StateInv, FailedInv, GateIsSafe, StopBegins, flagVars, ghosts
<1>7. QED
  BY <1>2, <1>3, <1>4, <1>5, <1>6, GateParts DEF StateInv

LEMMA StopSilencesKeeps ==
  ASSUME GateInv, StopSilences
  PROVE  GateInv'
<1>1. LockInv /\ StateInv /\ Attempts \in Nat \ {0}
  BY GateParts, LifecycleAssumption
<1>2. LockInv'
  BY <1>1, LockStays, LockGrows, EntryIsFree
     DEF StateInv, LockInv, Elsewhere, OwnEntry, Kinds, StopSilences, Request, lockVars
<1>3. EnvTypes' /\ FlagTypes'
  <2>1. EnvTypes'
    BY <1>1 DEF StateInv, EnvTypes, StopSilences, envVars
  <2>2. entry' \in Entries /\ gen' \in Nat /\ served' \in Nat
    BY <1>1 DEF StateInv, FlagTypes, StopSilences, Entries, flagVars
  <2>3. owner' \in {"policy", "user", "nobody"} /\ excused' \in BOOLEAN
    BY <1>1 DEF StateInv, FlagTypes, StopSilences, ghosts
  <2>4. gate' \in BOOLEAN /\ allowed' \in BOOLEAN /\ terminal' \in BOOLEAN /\ required' \in BOOLEAN
    BY <1>1 DEF StateInv, FlagTypes, StopSilences, flagVars
  <2>5. /\ restore' \in BOOLEAN /\ active' \in BOOLEAN /\ started' \in BOOLEAN /\ down' \in BOOLEAN
        /\ retry' \in BOOLEAN /\ was' \in BOOLEAN /\ err' \in BOOLEAN
    BY <1>1 DEF StateInv, FlagTypes, StopSilences, Request, lockVars
  <2>6. QED
    BY <2>1, <2>2, <2>3, <2>4, <2>5 DEF FlagTypes
<1>4. LoopInv'
  BY <1>1 DEF StateInv, LoopInv, StopSilences
<1>5. BlankInv' /\ StopInv'
  <2>1. BlankInv'
    BY <1>1 DEF StateInv, BlankInv, Before, StopSilences
  <2>2. StopInv'
    BY <1>1 DEF StateInv, StopInv, StopSilences
  <2>3. QED
    BY <2>1, <2>2
<1>6. FailedInv' /\ GateIsSafe'
  BY <1>1 DEF StateInv, FailedInv, GateIsSafe, StopSilences, flagVars, ghosts
<1>7. QED
  BY <1>2, <1>3, <1>4, <1>5, <1>6, GateParts DEF StateInv

LEMMA GoneKeeps ==
  ASSUME GateInv, Gone
  PROVE  GateInv'
<1>1. LockInv /\ StateInv /\ Attempts \in Nat \ {0}
  BY GateParts, LifecycleAssumption
<1>2. lock = <<>> /\ UNCHANGED lock
  BY DEF Gone, lockVars
<1>3. LockInv'
  BY <1>1, <1>2, LockStays DEF StateInv, Elsewhere, Gone, lockVars
<1>4. EnvTypes' /\ FlagTypes'
  <2>1. EnvTypes'
    BY <1>1, <1>2 DEF StateInv, EnvTypes, Gone, envVars
  <2>2. entry' \in Entries /\ gen' \in Nat /\ served' \in Nat
    BY <1>1, <1>2 DEF StateInv, Gone, Entries
  <2>3. owner' \in {"policy", "user", "nobody"} /\ excused' \in BOOLEAN
    BY <1>1, <1>2 DEF StateInv, FlagTypes, Gone, ghosts
  <2>4. gate' \in BOOLEAN /\ allowed' \in BOOLEAN /\ terminal' \in BOOLEAN /\ required' \in BOOLEAN
    BY <1>1, <1>2 DEF StateInv, Gone
  <2>5. /\ restore' \in BOOLEAN /\ active' \in BOOLEAN /\ started' \in BOOLEAN /\ down' \in BOOLEAN
        /\ retry' \in BOOLEAN /\ was' \in BOOLEAN /\ err' \in BOOLEAN
    BY <1>1, <1>2 DEF StateInv, FlagTypes, Gone, lockVars
  <2>6. QED
    BY <2>1, <2>2, <2>3, <2>4, <2>5 DEF FlagTypes
<1>5. LoopInv'
  BY <1>1, <1>2 DEF StateInv, LoopInv, Gone
<1>6. BlankInv' /\ StopInv'
  <2>1. BlankInv'
    BY <1>1, <1>2 DEF StateInv, BlankInv, Gone
  <2>2. StopInv'
    BY <1>1, <1>2 DEF StateInv, StopInv, Gone
  <2>3. QED
    BY <2>1, <2>2
<1>7. FailedInv' /\ GateIsSafe'
  BY <1>1, <1>2 DEF StateInv, FailedInv, GateIsSafe, Loops, Gone
<1>8. QED
  BY <1>3, <1>4, <1>5, <1>6, <1>7, GateParts DEF StateInv

LEMMA StopClearsKeeps ==
  ASSUME GateInv, StopClears
  PROVE  GateInv'
<1>1. LockInv /\ StateInv /\ Attempts \in Nat \ {0}
  BY GateParts, LifecycleAssumption
<1>2. LockInv'
  <2>1. Free(lock)
    BY <1>1 DEF LockInv, OwnedBy, Free, Own, OwnEntry, StopClears, Waiting, In
  <2>2. CASE required
    BY <1>1, <2>1, <2>2, LockGrows DEF StopClears, Request, Kinds, OwnEntry
  <2>3. CASE ~required
    <3>1. UNCHANGED <<lock, step>>
      BY <2>3 DEF StopClears, lockVars
    <3>2. QED
      BY <1>1, <2>1, <3>1, FreeIsOwned DEF LockInv
  <2>4. QED
    BY <2>2, <2>3
<1>3. EnvTypes' /\ FlagTypes'
  <2>1. EnvTypes'
    BY <1>1 DEF StateInv, EnvTypes, StopClears, envVars
  <2>2. entry' \in Entries /\ gen' \in Nat /\ served' \in Nat
    BY <1>1 DEF StateInv, FlagTypes, StopClears, Entries, flagVars
  <2>3. owner' \in {"policy", "user", "nobody"} /\ excused' \in BOOLEAN
    BY <1>1 DEF StateInv, FlagTypes, StopClears, ghosts
  <2>4. gate' \in BOOLEAN /\ allowed' \in BOOLEAN /\ terminal' \in BOOLEAN /\ required' \in BOOLEAN
    BY <1>1 DEF StateInv, FlagTypes, StopClears, flagVars
  <2>5. /\ restore' \in BOOLEAN /\ active' \in BOOLEAN /\ started' \in BOOLEAN /\ down' \in BOOLEAN
        /\ retry' \in BOOLEAN /\ was' \in BOOLEAN /\ err' \in BOOLEAN
    BY <1>1 DEF StateInv, FlagTypes, StopClears, Request, lockVars
  <2>6. QED
    BY <2>1, <2>2, <2>3, <2>4, <2>5 DEF FlagTypes
<1>4. LoopInv'
  BY <1>1 DEF StateInv, LoopInv, StopClears
<1>5. BlankInv' /\ StopInv'
  <2>1. BlankInv'
    BY <1>1 DEF StateInv, BlankInv, Before, StopClears
  <2>2. StopInv'
    BY <1>1 DEF StateInv, StopInv, Before, StopClears
  <2>3. QED
    BY <2>1, <2>2
<1>6. FailedInv' /\ GateIsSafe'
  BY <1>1 DEF StateInv, FailedInv, GateIsSafe, StopClears, flagVars, ghosts
<1>7. QED
  BY <1>2, <1>3, <1>4, <1>5, <1>6, GateParts DEF StateInv

LEMMA CrashKeeps ==
  ASSUME GateInv, Crash
  PROVE  GateInv'
<1>1. LockInv /\ StateInv /\ Attempts \in Nat \ {0}
  BY GateParts, LifecycleAssumption
<1>2. LockInv'
  <2>1. lock' = <<>> /\ step' = "begin"
    BY DEF Crash
  <2>2. \A e : OwnedBy(<<>>, e)
    BY DEF OwnedBy
  <2>3. QED
    BY <2>1, <2>2, EmptySeq DEF LockInv, Steps
<1>3. EnvTypes' /\ FlagTypes'
  <2>1. EnvTypes'
    BY <1>1 DEF StateInv, EnvTypes, Crash, Spend
  <2>2. entry' \in Entries /\ gen' \in Nat /\ served' \in Nat
    BY <1>1 DEF StateInv, Crash, Entries
  <2>3. owner' \in {"policy", "user", "nobody"} /\ excused' \in BOOLEAN
    BY <1>1 DEF StateInv, FlagTypes, Crash
  <2>4. gate' \in BOOLEAN /\ allowed' \in BOOLEAN /\ terminal' \in BOOLEAN /\ required' \in BOOLEAN
    BY <1>1 DEF StateInv, Crash
  <2>5. /\ restore' \in BOOLEAN /\ active' \in BOOLEAN /\ started' \in BOOLEAN /\ down' \in BOOLEAN
        /\ retry' \in BOOLEAN /\ was' \in BOOLEAN /\ err' \in BOOLEAN
    BY <1>1 DEF StateInv, Crash
  <2>6. QED
    BY <2>1, <2>2, <2>3, <2>4, <2>5 DEF FlagTypes
<1>4. LoopInv'
  BY <1>1 DEF StateInv, LoopInv, Crash, NoLoop, LoopStates
<1>5. BlankInv' /\ StopInv'
  <2>1. BlankInv'
    BY <1>1 DEF StateInv, BlankInv, Crash, NoLoop
  <2>2. StopInv'
    BY <1>1 DEF StateInv, StopInv, Crash
  <2>3. QED
    BY <2>1, <2>2
<1>6. FailedInv' /\ GateIsSafe'
  BY <1>1 DEF StateInv, FailedInv, GateIsSafe, Crash, NoLoop, Loops
<1>7. QED
  BY <1>2, <1>3, <1>4, <1>5, <1>6, GateParts DEF StateInv

-----------------------------------------------------------------------------
(* The cleanup loops.                                                      *)

LEMMA LoopBeginsKeeps ==
  ASSUME GateInv, LoopBegins
  PROVE  GateInv'
<1>1. LockInv /\ StateInv /\ Attempts \in Nat \ {0}
  BY GateParts, LifecycleAssumption
<1>2. LockInv'
  BY <1>1, LockStays, LockGrows DEF StateInv, LoopBegins, Turn, Kinds, Own
<1>3. EnvTypes' /\ FlagTypes'
  <2>1. EnvTypes'
    BY <1>1 DEF StateInv, EnvTypes, LoopBegins, envVars
  <2>2. entry' \in Entries /\ gen' \in Nat /\ served' \in Nat
    BY <1>1 DEF StateInv, FlagTypes, LoopBegins, flagVars
  <2>3. owner' \in {"policy", "user", "nobody"} /\ excused' \in BOOLEAN
    BY <1>1 DEF StateInv, FlagTypes, LoopBegins, ghosts
  <2>4. gate' \in BOOLEAN /\ allowed' \in BOOLEAN /\ terminal' \in BOOLEAN /\ required' \in BOOLEAN
    BY <1>1 DEF StateInv, FlagTypes, LoopBegins, Turn, flagVars
  <2>5. /\ restore' \in BOOLEAN /\ active' \in BOOLEAN /\ started' \in BOOLEAN /\ down' \in BOOLEAN
        /\ retry' \in BOOLEAN /\ was' \in BOOLEAN /\ err' \in BOOLEAN
    BY <1>1 DEF StateInv, FlagTypes, LoopBegins
  <2>6. QED
    BY <2>1, <2>2, <2>3, <2>4, <2>5 DEF FlagTypes
<1>4. LoopInv'
  BY <1>1 DEF StateInv, LoopInv, LoopBegins, FlagTypes, Turn, Loops, LoopStates
<1>5. BlankInv' /\ StopInv'
  <2>1. BlankInv'
    BY <1>1 DEF StateInv, BlankInv, Loops, LoopBegins
  <2>2. StopInv'
    BY <1>1 DEF StateInv, StopInv, LoopBegins, flagVars
  <2>3. QED
    BY <2>1, <2>2
<1>6. FailedInv' /\ GateIsSafe'
  BY <1>1
     DEF StateInv, FailedInv, GateIsSafe, LoopBegins, LoopInv, Turn, LoopStates, flagVars,
         ghosts
<1>7. QED
  BY <1>2, <1>3, <1>4, <1>5, <1>6, GateParts DEF StateInv

LEMMA LoopWakesKeeps ==
  ASSUME GateInv, NEW l \in Loops, LoopWakes(l)
  PROVE  GateInv'
<1>1. LockInv /\ StateInv /\ Attempts \in Nat \ {0}
  BY GateParts, LifecycleAssumption
<1>2. LockInv'
  BY <1>1, LockStays, LockGrows DEF StateInv, LoopWakes, Turn, Kinds, Own, Loops
<1>3. EnvTypes' /\ FlagTypes'
  <2>1. EnvTypes'
    BY <1>1 DEF StateInv, EnvTypes, LoopWakes, envVars
  <2>2. entry' \in Entries /\ gen' \in Nat /\ served' \in Nat
    BY <1>1 DEF StateInv, FlagTypes, LoopWakes, flagVars
  <2>3. owner' \in {"policy", "user", "nobody"} /\ excused' \in BOOLEAN
    BY <1>1 DEF StateInv, FlagTypes, LoopWakes, ghosts
  <2>4. gate' \in BOOLEAN /\ allowed' \in BOOLEAN /\ terminal' \in BOOLEAN /\ required' \in BOOLEAN
    BY <1>1 DEF StateInv, FlagTypes, LoopWakes, Turn, flagVars
  <2>5. /\ restore' \in BOOLEAN /\ active' \in BOOLEAN /\ started' \in BOOLEAN /\ down' \in BOOLEAN
        /\ retry' \in BOOLEAN /\ was' \in BOOLEAN /\ err' \in BOOLEAN
    BY <1>1 DEF StateInv, FlagTypes, LoopWakes
  <2>6. QED
    BY <2>1, <2>2, <2>3, <2>4, <2>5 DEF FlagTypes
<1>4. LoopInv'
  BY <1>1 DEF StateInv, LoopInv, LoopWakes, FlagTypes, Turn, Loops, LoopStates
<1>5. BlankInv' /\ StopInv'
  <2>1. BlankInv'
    BY <1>1 DEF StateInv, BlankInv, LoopWakes
  <2>2. StopInv'
    BY <1>1 DEF StateInv, StopInv, LoopWakes, flagVars
  <2>3. QED
    BY <2>1, <2>2
<1>6. FailedInv' /\ GateIsSafe'
  BY <1>1
     DEF StateInv, FailedInv, GateIsSafe, LoopWakes, LoopInv, Turn, Loops, LoopStates,
         flagVars, ghosts
<1>7. QED
  BY <1>2, <1>3, <1>4, <1>5, <1>6, GateParts DEF StateInv

LEMMA LoopDoneKeeps ==
  ASSUME GateInv, LoopDone
  PROVE  GateInv'
<1>1. LockInv /\ StateInv /\ Attempts \in Nat \ {0}
  BY GateParts, LifecycleAssumption
<1>2. LockInv'
  BY <1>1, LockStays DEF StateInv, Elsewhere, LoopDone, LoopEnds, Awaited, lockVars
<1>3. EnvTypes' /\ FlagTypes'
  <2>1. EnvTypes'
    BY <1>1 DEF StateInv, EnvTypes, LoopDone, LoopEnds, envVars
  <2>2. entry' \in Entries /\ gen' \in Nat /\ served' \in Nat
    BY <1>1 DEF StateInv, FlagTypes, LoopDone, LoopEnds, Awaited, Entries
  <2>3. owner' \in {"policy", "user", "nobody"} /\ excused' \in BOOLEAN
    BY <1>1 DEF StateInv, FlagTypes, LoopDone, LoopEnds, ghosts
  <2>4. gate' \in BOOLEAN /\ allowed' \in BOOLEAN /\ terminal' \in BOOLEAN /\ required' \in BOOLEAN
    BY <1>1 DEF StateInv, FlagTypes, LoopDone, LoopEnds
  <2>5. /\ restore' \in BOOLEAN /\ active' \in BOOLEAN /\ started' \in BOOLEAN /\ down' \in BOOLEAN
        /\ retry' \in BOOLEAN /\ was' \in BOOLEAN /\ err' \in BOOLEAN
    BY <1>1 DEF StateInv, FlagTypes, LoopDone, LoopEnds, lockVars
  <2>6. QED
    BY <2>1, <2>2, <2>3, <2>4, <2>5 DEF FlagTypes
<1>4. LoopInv'
  BY <1>1 DEF StateInv, LoopInv, LoopDone, LoopEnds, Rescheduled, Begun, NoLoop, Loops, LoopStates
<1>5. BlankInv' /\ StopInv'
  <2>1. BlankInv'
    BY <1>1 DEF StateInv, BlankInv, Before, Loops, LoopDone, LoopEnds, Awaited
  <2>2. StopInv'
    BY <1>1 DEF StateInv, StopInv, Before, LoopDone, LoopEnds, Awaited
  <2>3. QED
    BY <2>1, <2>2
<1>6. FailedInv' /\ GateIsSafe'
  BY <1>1
     DEF StateInv, FlagTypes, FailedInv, GateIsSafe, LoopDone, LoopEnds, Rescheduled, NoLoop,
         ghosts
<1>7. QED
  BY <1>2, <1>3, <1>4, <1>5, <1>6, GateParts DEF StateInv

-----------------------------------------------------------------------------
(* The holder of the lock.                                                 *)

LEMMA LockRejoined ==
  ASSUME LockInv, lock # <<>>, NEW k \in Kinds, lock' = Append(Tail(lock), k),
         step' = "begin", entry' = entry,
         k \in Own => Head(lock) \in Own /\ entry = OwnEntry[k]
  PROVE  LockInv'
<1>1. /\ Tail(lock) \in Seq(Kinds) /\ OwnedBy(Tail(lock), entry)
      /\ Head(lock) \in Own => Free(Tail(lock))
  BY Left DEF LockInv
<1>2. lock' \in Seq(Kinds) /\ lock' # <<>> /\ OwnedBy(lock', entry)
  BY <1>1, Joined
<1>3. QED
  BY <1>2 DEF LockInv, Steps

LEMMA BeginKeeps ==
  ASSUME GateInv, Begin
  PROVE  GateInv'
<1>1. LockInv /\ StateInv /\ Attempts \in Nat \ {0}
  BY GateParts, LifecycleAssumption
<1>2. /\ lock # <<>> /\ Head(lock) \in Kinds /\ entry \notin Before
      /\ Head(lock) \in Own => entry = OwnEntry[Head(lock)]
  BY HolderIsKnown DEF Begin
<1>3. \/ lock' = Tail(lock) /\ step' = "begin" /\ (entry' = entry \/ Head(lock) \in Own)
      \/ /\ lock' = lock /\ entry' = entry /\ step' \in Steps
         /\ step' = "clear" => Head(lock) \in Clears
         /\ step' = "control" => Head(lock) # "loss"
  BY <1>2 DEF Begin, Leave, GoTo, Steps, Held, Holder, Clears, Loops, Own
<1>4. LockInv'
  BY <1>1, <1>2, <1>3, LockLeft, LockMoves DEF StateInv
<1>5. EnvTypes' /\ FlagTypes'
  <2>1. EnvTypes'
    BY <1>1, <1>2, <1>3 DEF StateInv, EnvTypes, Begin, envVars
  <2>2. entry' \in Entries /\ gen' \in Nat /\ served' \in Nat
    BY <1>1, <1>2, <1>3 DEF StateInv, FlagTypes, Entries, Begin, flagVars
  <2>3. owner' \in {"policy", "user", "nobody"} /\ excused' \in BOOLEAN
    BY <1>1, <1>2, <1>3 DEF StateInv, FlagTypes, Begin, ghosts
  <2>4. gate' \in BOOLEAN /\ allowed' \in BOOLEAN /\ terminal' \in BOOLEAN /\ required' \in BOOLEAN
    BY <1>1, <1>2, <1>3 DEF StateInv, FlagTypes, Begin, flagVars
  <2>5. /\ restore' \in BOOLEAN /\ active' \in BOOLEAN /\ started' \in BOOLEAN /\ down' \in BOOLEAN
        /\ retry' \in BOOLEAN /\ was' \in BOOLEAN /\ err' \in BOOLEAN
    BY <1>1, <1>2, <1>3 DEF StateInv, FlagTypes, Begin, Leave, GoTo
  <2>6. QED
    BY <2>1, <2>2, <2>3, <2>4, <2>5 DEF FlagTypes
<1>6. LoopInv'
  BY <1>1, <1>2, <1>3 DEF StateInv, LoopInv, Begin
<1>7. BlankInv' /\ StopInv'
  <2>1. BlankInv'
    BY <1>1, <1>2, <1>3 DEF StateInv, BlankInv, Before, Begin
  <2>2. StopInv'
    BY <1>1, <1>2, <1>3 DEF StateInv, StopInv, Before, Begin, flagVars
  <2>3. QED
    BY <2>1, <2>2
<1>8. FailedInv' /\ GateIsSafe'
  BY <1>1, <1>2, <1>3 DEF StateInv, FailedInv, GateIsSafe, Begin, flagVars, ghosts
<1>9. QED
  BY <1>4, <1>5, <1>6, <1>7, <1>8, GateParts DEF StateInv

LEMMA SaveKeeps ==
  ASSUME GateInv, NEW ok \in BOOLEAN, SaveEnds(ok)
  PROVE  GateInv'
<1>1. LockInv /\ StateInv /\ Attempts \in Nat \ {0}
  BY GateParts, LifecycleAssumption
<1>2. /\ lock # <<>> /\ Head(lock) \in Kinds /\ entry \notin Before
      /\ Head(lock) \in Own => entry = OwnEntry[Head(lock)]
  BY HolderIsKnown DEF SaveEnds
<1>3. \/ lock' = Tail(lock) /\ step' = "begin" /\ entry' = entry
      \/ /\ lock' = lock /\ entry' = entry /\ step' \in Steps /\ step' # "clear"
         /\ step' = "control" => Head(lock) # "loss"
  BY <1>2 DEF SaveEnds, Leave, GoTo, Steps, Holder
<1>4. LockInv'
  BY <1>1, <1>2, <1>3, LockLeft, LockMoves DEF StateInv
<1>5. EnvTypes' /\ FlagTypes'
  <2>1. EnvTypes'
    BY <1>1, <1>2, <1>3 DEF StateInv, EnvTypes, SaveEnds, Succeeds, envVars
  <2>2. entry' \in Entries /\ gen' \in Nat /\ served' \in Nat
    BY <1>1, <1>2, <1>3 DEF StateInv, FlagTypes, SaveEnds, flagVars
  <2>3. owner' \in {"policy", "user", "nobody"} /\ excused' \in BOOLEAN
    BY <1>1, <1>2, <1>3 DEF StateInv, FlagTypes, SaveEnds, Decide, ghosts
  <2>4. gate' \in BOOLEAN /\ allowed' \in BOOLEAN /\ terminal' \in BOOLEAN /\ required' \in BOOLEAN
    BY <1>1, <1>2, <1>3 DEF StateInv, FlagTypes, SaveEnds, flagVars
  <2>5. /\ restore' \in BOOLEAN /\ active' \in BOOLEAN /\ started' \in BOOLEAN /\ down' \in BOOLEAN
        /\ retry' \in BOOLEAN /\ was' \in BOOLEAN /\ err' \in BOOLEAN
    BY <1>1, <1>2, <1>3 DEF StateInv, FlagTypes, SaveEnds, Leave, GoTo
  <2>6. QED
    BY <2>1, <2>2, <2>3, <2>4, <2>5 DEF FlagTypes
<1>6. LoopInv'
  BY <1>1, <1>2, <1>3 DEF StateInv, LoopInv, SaveEnds
<1>7. BlankInv' /\ StopInv'
  <2>1. BlankInv'
    BY <1>1, <1>2, <1>3 DEF StateInv, BlankInv
  <2>2. StopInv'
    BY <1>1, <1>2, <1>3 DEF StateInv, StopInv, SaveEnds, flagVars
  <2>3. QED
    BY <2>1, <2>2
<1>8. FailedInv' /\ GateIsSafe'
  BY <1>1, <1>2, <1>3 DEF StateInv, FailedInv, GateIsSafe, SaveEnds, Decide, flagVars, ghosts
<1>9. QED
  BY <1>4, <1>5, <1>6, <1>7, <1>8, GateParts DEF StateInv

LEMMA ControlKeeps ==
  ASSUME GateInv, NEW ok \in BOOLEAN, ControlEnds(ok)
  PROVE  GateInv'
<1>1. LockInv /\ StateInv /\ Attempts \in Nat \ {0}
  BY GateParts, LifecycleAssumption
<1>2. /\ lock # <<>> /\ Head(lock) \in Kinds /\ entry \notin Before
      /\ Head(lock) \in Own => entry = OwnEntry[Head(lock)]
  BY HolderIsKnown DEF ControlEnds
<1>3. \/ lock' = Tail(lock) /\ step' = "begin" /\ (entry' = entry \/ Head(lock) \in Own)
      \/ /\ lock' = lock /\ entry' = entry /\ step' \in Steps
         /\ step' \notin {"clear", "control"}
  BY <1>1, <1>2
     DEF LockInv, ControlEnds, Leave, GoTo, Steps, Held, Holder, Kinds, Clears, Loops, Own
<1>4. LockInv'
  BY <1>1, <1>2, <1>3, LockLeft, LockMoves DEF StateInv
<1>5. EnvTypes' /\ FlagTypes'
  <2>1. EnvTypes'
    BY <1>1, <1>2, <1>3 DEF StateInv, EnvTypes, ControlEnds, Succeeds, envVars
  <2>2. entry' \in Entries /\ gen' \in Nat /\ served' \in Nat
    BY <1>1, <1>2, <1>3 DEF StateInv, FlagTypes, Entries, ControlEnds, flagVars
  <2>3. owner' \in {"policy", "user", "nobody"} /\ excused' \in BOOLEAN
    BY <1>1, <1>2, <1>3 DEF StateInv, FlagTypes, ControlEnds, Decide, ghosts
  <2>4. gate' \in BOOLEAN /\ allowed' \in BOOLEAN /\ terminal' \in BOOLEAN /\ required' \in BOOLEAN
    BY <1>1, <1>2, <1>3 DEF StateInv, FlagTypes, ControlEnds, flagVars
  <2>5. /\ restore' \in BOOLEAN /\ active' \in BOOLEAN /\ started' \in BOOLEAN /\ down' \in BOOLEAN
        /\ retry' \in BOOLEAN /\ was' \in BOOLEAN /\ err' \in BOOLEAN
    BY <1>1, <1>2, <1>3
       DEF StateInv, FlagTypes, LockInv, ControlEnds, Leave, GoTo, Holder, Kinds, Clears, Loops
  <2>6. QED
    BY <2>1, <2>2, <2>3, <2>4, <2>5 DEF FlagTypes
<1>6. LoopInv'
  BY <1>1, <1>2, <1>3 DEF StateInv, LoopInv, ControlEnds
<1>7. BlankInv' /\ StopInv'
  <2>1. BlankInv'
    BY <1>1, <1>2, <1>3 DEF StateInv, BlankInv, Before, ControlEnds
  <2>2. StopInv'
    BY <1>1, <1>2, <1>3 DEF StateInv, StopInv, Before, ControlEnds, Held, Holder, OwnEntry, flagVars
  <2>3. QED
    BY <2>1, <2>2
<1>8. FailedInv' /\ GateIsSafe'
  BY <1>1, <1>2, <1>3 DEF StateInv, FailedInv, GateIsSafe, ControlEnds, Decide, flagVars, ghosts
<1>9. QED
  BY <1>4, <1>5, <1>6, <1>7, <1>8, GateParts DEF StateInv

LEMMA UndoKeeps ==
  ASSUME GateInv, NEW ok \in BOOLEAN, Undone(ok)
  PROVE  GateInv'
<1>1. LockInv /\ StateInv /\ Attempts \in Nat \ {0}
  BY GateParts, LifecycleAssumption
<1>2. /\ lock # <<>> /\ Head(lock) \in Kinds /\ entry \notin Before
      /\ Head(lock) \in Own => entry = OwnEntry[Head(lock)]
  BY HolderIsKnown DEF Undone
<1>3. LockInv'
  BY <1>1, <1>2, LockLeft DEF StateInv, Undone, Leave
<1>4. EnvTypes' /\ FlagTypes'
  <2>1. EnvTypes'
    BY <1>1, <1>2 DEF StateInv, EnvTypes, Undone, Succeeds, envVars
  <2>2. entry' \in Entries /\ gen' \in Nat /\ served' \in Nat
    BY <1>1, <1>2 DEF StateInv, FlagTypes, Undone, flagVars
  <2>3. owner' \in {"policy", "user", "nobody"} /\ excused' \in BOOLEAN
    BY <1>1, <1>2 DEF StateInv, FlagTypes, Undone, Decide, ghosts
  <2>4. gate' \in BOOLEAN /\ allowed' \in BOOLEAN /\ terminal' \in BOOLEAN /\ required' \in BOOLEAN
    BY <1>1, <1>2 DEF StateInv, FlagTypes, Undone, flagVars
  <2>5. /\ restore' \in BOOLEAN /\ active' \in BOOLEAN /\ started' \in BOOLEAN /\ down' \in BOOLEAN
        /\ retry' \in BOOLEAN /\ was' \in BOOLEAN /\ err' \in BOOLEAN
    BY <1>1, <1>2 DEF StateInv, FlagTypes, Undone, Leave
  <2>6. QED
    BY <2>1, <2>2, <2>3, <2>4, <2>5 DEF FlagTypes
<1>5. LoopInv'
  BY <1>1, <1>2 DEF StateInv, LoopInv, Undone
<1>6. BlankInv' /\ StopInv'
  <2>1. BlankInv'
    BY <1>1, <1>2 DEF StateInv, BlankInv, Undone
  <2>2. StopInv'
    BY <1>1, <1>2 DEF StateInv, StopInv, Undone, flagVars
  <2>3. QED
    BY <2>1, <2>2
<1>7. FailedInv' /\ GateIsSafe'
  BY <1>1, <1>2 DEF StateInv, FailedInv, GateIsSafe, Undone, Decide, flagVars, ghosts
<1>8. QED
  BY <1>3, <1>4, <1>5, <1>6, <1>7, GateParts DEF StateInv

LEMMA HandoffKeeps ==
  ASSUME GateInv, NEW a, Handoff(a)
  PROVE  GateInv'
<1>1. LockInv /\ StateInv /\ Attempts \in Nat \ {0}
  BY GateParts, LifecycleAssumption
<1>2. /\ lock # <<>> /\ Head(lock) \in Kinds /\ entry \notin Before
      /\ Head(lock) \in Own => entry = OwnEntry[Head(lock)]
  BY HolderIsKnown DEF Handoff
<1>3. \/ lock' = lock /\ entry' = entry /\ step' = "clear" /\ Head(lock) \in Clears
      \/ lock' = lock /\ entry' = entry /\ step' = "command"
      \/ /\ lock' = Append(Tail(lock), "rearm") /\ step' = "begin" /\ entry' = entry
         /\ Head(lock) \in Own /\ entry = "editing"
      \/ lock' = Tail(lock) /\ step' = "begin" /\ (entry' = entry \/ Head(lock) \in Own)
  BY <1>2 DEF Handoff, Yielded, GoTo, Held, Holder, Own
<1>4. LockInv'
  <2>1. "rearm" \in Kinds /\ OwnEntry["rearm"] = "editing" /\ {"clear", "command"} \subseteq Steps
    BY DEF Kinds, OwnEntry, Steps
  <2>2. QED
    BY <1>1, <1>2, <1>3, <2>1, LockLeft, LockMoves, LockRejoined
<1>5. EnvTypes' /\ FlagTypes'
  <2>1. EnvTypes'
    BY <1>1, <1>2, <1>3 DEF StateInv, EnvTypes, Handoff, envVars
  <2>2. entry' \in Entries /\ gen' \in Nat /\ served' \in Nat
    BY <1>1, <1>2, <1>3 DEF StateInv, FlagTypes, Entries, Handoff, Yielded, flagVars
  <2>3. owner' \in {"policy", "user", "nobody"} /\ excused' \in BOOLEAN
    BY <1>1, <1>2, <1>3 DEF StateInv, FlagTypes, Handoff, ghosts
  <2>4. gate' \in BOOLEAN /\ allowed' \in BOOLEAN /\ terminal' \in BOOLEAN /\ required' \in BOOLEAN
    BY <1>1, <1>2, <1>3 DEF StateInv, FlagTypes, Handoff, flagVars
  <2>5. /\ restore' \in BOOLEAN /\ active' \in BOOLEAN /\ started' \in BOOLEAN /\ down' \in BOOLEAN
        /\ retry' \in BOOLEAN /\ was' \in BOOLEAN /\ err' \in BOOLEAN
    BY <1>1, <1>2, <1>3 DEF StateInv, FlagTypes, Handoff, Yielded, GoTo
  <2>6. QED
    BY <2>1, <2>2, <2>3, <2>4, <2>5 DEF FlagTypes
<1>6. LoopInv'
  BY <1>1, <1>2, <1>3 DEF StateInv, LoopInv, Handoff
<1>7. BlankInv' /\ StopInv'
  <2>1. BlankInv'
    BY <1>1, <1>2, <1>3 DEF StateInv, BlankInv, Before, Handoff, Yielded
  <2>2. StopInv'
    BY <1>1, <1>2, <1>3 DEF StateInv, StopInv, Before, Handoff, Yielded, flagVars
  <2>3. QED
    BY <2>1, <2>2
<1>8. FailedInv' /\ GateIsSafe'
  BY <1>1, <1>2, <1>3 DEF StateInv, FailedInv, GateIsSafe, Handoff, flagVars, ghosts
<1>9. QED
  BY <1>4, <1>5, <1>6, <1>7, <1>8, GateParts DEF StateInv

LEMMA CommandKeeps ==
  ASSUME GateInv, NEW ok \in BOOLEAN, CommandEnds(ok)
  PROVE  GateInv'
<1>1. LockInv /\ StateInv /\ Attempts \in Nat \ {0}
  BY GateParts, LifecycleAssumption
<1>2. /\ lock # <<>> /\ Head(lock) \in Kinds /\ entry \notin Before
      /\ Head(lock) \in Own => entry = OwnEntry[Head(lock)]
  BY HolderIsKnown DEF CommandEnds
<1>3. \/ lock' = lock /\ entry' = entry /\ step' = "clear" /\ Head(lock) \in Clears
      \/ lock' = lock /\ entry' = entry /\ step' = "command"
      \/ /\ lock' = Append(Tail(lock), "rearm") /\ step' = "begin" /\ entry' = entry
         /\ Head(lock) \in Own /\ entry = "editing"
      \/ lock' = Tail(lock) /\ step' = "begin" /\ (entry' = entry \/ Head(lock) \in Own)
  BY <1>2 DEF CommandEnds, Yielded, Held, Holder, Own, OwnEntry
<1>4. LockInv'
  <2>1. "rearm" \in Kinds /\ OwnEntry["rearm"] = "editing" /\ {"clear", "command"} \subseteq Steps
    BY DEF Kinds, OwnEntry, Steps
  <2>2. QED
    BY <1>1, <1>2, <1>3, <2>1, LockLeft, LockMoves, LockRejoined
<1>5. EnvTypes' /\ FlagTypes'
  <2>1. EnvTypes'
    BY <1>1, <1>2, <1>3 DEF StateInv, EnvTypes, CommandEnds, Succeeds, envVars
  <2>2. entry' \in Entries /\ gen' \in Nat /\ served' \in Nat
    BY <1>1, <1>2, <1>3 DEF StateInv, FlagTypes, Entries, CommandEnds, Yielded, flagVars
  <2>3. owner' \in {"policy", "user", "nobody"} /\ excused' \in BOOLEAN
    BY <1>1, <1>2, <1>3 DEF StateInv, FlagTypes, CommandEnds, ghosts
  <2>4. gate' \in BOOLEAN /\ allowed' \in BOOLEAN /\ terminal' \in BOOLEAN /\ required' \in BOOLEAN
    BY <1>1, <1>2, <1>3 DEF StateInv, FlagTypes, CommandEnds, flagVars
  <2>5. /\ restore' \in BOOLEAN /\ active' \in BOOLEAN /\ started' \in BOOLEAN /\ down' \in BOOLEAN
        /\ retry' \in BOOLEAN /\ was' \in BOOLEAN /\ err' \in BOOLEAN
    BY <1>1, <1>2, <1>3 DEF StateInv, FlagTypes, CommandEnds, Yielded
  <2>6. QED
    BY <2>1, <2>2, <2>3, <2>4, <2>5 DEF FlagTypes
<1>6. LoopInv'
  BY <1>1, <1>2, <1>3 DEF StateInv, LoopInv, CommandEnds
<1>7. BlankInv' /\ StopInv'
  <2>1. BlankInv'
    BY <1>1, <1>2, <1>3 DEF StateInv, BlankInv, Before, CommandEnds, Yielded
  <2>2. StopInv'
    BY <1>1, <1>2, <1>3 DEF StateInv, StopInv, Before, CommandEnds, Yielded, flagVars
  <2>3. QED
    BY <2>1, <2>2
<1>8. FailedInv' /\ GateIsSafe'
  BY <1>1, <1>2, <1>3 DEF StateInv, FailedInv, GateIsSafe, CommandEnds, flagVars, ghosts
<1>9. QED
  BY <1>4, <1>5, <1>6, <1>7, <1>8, GateParts DEF StateInv

LEMMA ClearKeeps ==
  ASSUME GateInv, NEW ok \in BOOLEAN, ClearEnds(ok)
  PROVE  GateInv'
<1>1. LockInv /\ StateInv /\ Attempts \in Nat \ {0}
  BY GateParts, LifecycleAssumption
<1>2. /\ lock # <<>> /\ Head(lock) \in Kinds /\ entry \notin Before
      /\ Head(lock) \in Own => entry = OwnEntry[Head(lock)]
  BY HolderIsKnown DEF ClearEnds
<1>3. \/ /\ \E k \in Kinds \ Own : lock' = Append(Tail(lock), k)
         /\ step' = "begin" /\ entry' = entry
      \/ lock' = Tail(lock) /\ step' = "begin" /\ (entry' = entry \/ Head(lock) \in Own)
  BY <1>1, <1>2 DEF LockInv, ClearEnds, Served, Turn, Holder, Clears, Loops, Own
<1>4. LockInv'
  BY <1>1, <1>2, <1>3, LockLeft, LockRejoined
<1>5. UNCHANGED <<entity, disabled, clear, inputs, restore, active, started, down, retry, owner,
                   allowed, terminal, gen>>
      /\ was' = FALSE /\ err' = FALSE /\ store' \in {"none", store} /\ faults' \in {faults, faults + 1}
      /\ loop["cleanup"].at \notin {"done", "failed"}
  <2>1. UNCHANGED <<entity, disabled, clear, inputs, restore, active, started, down, retry, owner>>
        /\ was' = FALSE /\ err' = FALSE
    BY DEF ClearEnds, envVars
  <2>2. store' \in {"none", store} /\ faults' \in {faults, faults + 1}
    BY DEF ClearEnds, Succeeds
  <2>3. loop["cleanup"].at \notin {"done", "failed"}
    BY DEF ClearEnds, Called, Loops
  <2>4. Holder \in Clears
    BY <1>1 DEF LockInv, ClearEnds, Holder
  <2>5. UNCHANGED <<allowed, terminal, gen>>
    BY <2>4 DEF ClearEnds, Clears
  <2>6. QED
    BY <2>1, <2>2, <2>3, <2>5
<1>6. /\ excused \in BOOLEAN /\ required \in BOOLEAN /\ gate \in BOOLEAN /\ loop \in [Loops -> LoopStates]
      /\ gen \in Nat /\ served \in Nat /\ Head(lock) \in Clears
  BY <1>1, <1>2 DEF StateInv, FlagTypes, LoopInv, LockInv, ClearEnds
(* The three kinds of clears.                                              *)
<1>7. CASE Head(lock) \in Loops
  <2> DEFINE l == Head(lock)
  <2>1. /\ entry' = entry /\ l \in Loops
        /\ required' \in BOOLEAN /\ (required' => required)
        /\ excused' = (excused \/ ~required)
        /\ served' \in {served, loop[l].gen}
        /\ \/ /\ gate' = gate
              /\ loop' = [loop EXCEPT ![l] = [at |-> "asking", gen |-> gen, attempt |-> 1]]
           \/ /\ gate' = (gate \/ (allowed /\ ~terminal /\ ~required' /\ ~down))
              /\ loop' = [loop EXCEPT ![l].at = "done"]
           \/ /\ gate' = gate /\ required' = required
              /\ loop' = [loop EXCEPT ![l].at = "failed"]
           \/ /\ gate' = gate /\ loop[l].attempt # Attempts
              /\ loop' = [loop EXCEPT ![l].at = "asleep"]
    <3> DEFINE done == ok /\ ~err
    <3>0. Holder \in Loops /\ Holder \notin {"terminal", "final"} /\ l = Holder
      BY <1>7 DEF Holder, Loops
    <3>1. Served(l, done) /\ entry' = entry
      BY <3>0 DEF ClearEnds
    <3>2. excused' = (excused \/ ~required)
      BY <1>6, <3>0 DEF ClearEnds, Held
    <3> HIDE DEF done
    <3>3. required' = (required /\ ~(done /\ loop[l].gen = gen))
          /\ served' \in {served, loop[l].gen}
      BY <3>1 DEF Served, Later
    <3>4. CASE done \/ (loop[l].attempt = Attempts /\ loop[l].gen # gen)
      <4>1. Turn(l, required', Tail(lock))
        BY <3>1, <3>4 DEF Served
      <4>2. QED
        BY <1>6, <1>7, <3>1, <3>2, <3>3, <4>1 DEF Turn
    <3>5. CASE ~(done \/ (loop[l].attempt = Attempts /\ loop[l].gen # gen))
      <4>1. /\ gate' = gate /\ required' = required
            /\ loop' = [loop EXCEPT ![l].at = IF loop[l].attempt = Attempts THEN "failed" ELSE "asleep"]
        BY <1>6, <3>1, <3>3, <3>5 DEF Served
      <4>2. QED
        BY <1>6, <1>7, <3>1, <3>2, <3>3, <4>1
    <3>6. QED
      BY <3>4, <3>5
  <2> HIDE DEF l
  <2>2. loop[l] \in LoopStates /\ \A k \in Loops : k # l => loop'[k] = loop[k]
    BY <1>6, <2>1
  <2>3. EnvTypes' /\ FlagTypes'
    <3>1. excused' \in BOOLEAN /\ gate' \in BOOLEAN
      BY <1>1, <1>6, <2>1 DEF StateInv
    <3>2. served' \in Nat /\ required' \in BOOLEAN /\ entry' \in Entries
      BY <1>1, <1>6, <2>1, <2>2 DEF StateInv, FlagTypes, LoopStates
    <3>3. EnvTypes'
      BY <1>1, <1>5 DEF StateInv, EnvTypes
    <3>4. QED
      BY <1>1, <1>5, <3>1, <3>2, <3>3 DEF StateInv, FlagTypes
  <2>4. LoopInv'
    <3>1. loop' \in [Loops -> LoopStates]
      BY <1>1, <1>6, <2>1, <2>2 DEF LoopStates
    <3>2. \A k \in Loops : loop'[k].at = "asleep" => loop'[k].attempt < Attempts
      BY <1>1, <1>6, <2>1, <2>2 DEF StateInv, LoopInv, LoopStates
    <3>3. QED
      BY <3>1, <3>2 DEF LoopInv
  <2>5. BlankInv'
    BY <1>2, <2>1 DEF BlankInv
  <2>7. StopInv'
    BY <1>1, <1>5, <2>1 DEF StateInv, StopInv
  <2>8. FailedInv' /\ GateIsSafe'
    <3>1. GateIsSafe'
      BY <1>1, <1>5, <1>6, <2>1 DEF StateInv, GateIsSafe
    <3>2. ASSUME loop'["cleanup"].at = "failed"
          PROVE  excused' \/ (required' /\ ~gate')
      <4>1. loop["cleanup"].at # "failed" /\ "cleanup" \in Loops
        BY <1>5 DEF Loops
      <4>2. l = "cleanup"
        BY <2>2, <3>2, <4>1
      <4>3. gate' = gate /\ required' = required
        BY <1>6, <2>1, <3>2, <4>1, <4>2 DEF LoopStates
      <4>4. QED
        BY <1>1, <1>6, <2>1, <4>3 DEF StateInv, GateIsSafe
    <3>3. QED
      BY <3>1, <3>2 DEF FailedInv
  <2>9. QED
    BY <1>4, <2>3, <2>4, <2>5, <2>7, <2>8, GateParts DEF StateInv
<1>8. CASE Head(lock) = "terminal"
  <2>0. Holder = "terminal" /\ Holder \notin Loops /\ ~Held("final")
    BY <1>8 DEF Holder, Held, Loops
  <2>1. /\ entry' = "stopping" /\ required' \in BOOLEAN /\ served' \in {served, gen}
        /\ loop' = loop \/ (CanSchedule /\ loop' = Scheduled)
        /\ gate' = gate /\ excused' = excused
    BY <1>6, <2>0 DEF ClearEnds
  <2>2. terminal /\ ~gate
    BY <1>1, <1>2, <1>8 DEF StateInv, StopInv, GateIsSafe, OwnEntry, Own
  <2>3. EnvTypes'
    BY <1>1, <1>5 DEF StateInv, EnvTypes
  <2>4. FlagTypes'
    <3>1. entry' \in Entries /\ served' \in Nat
      BY <1>6, <2>1 DEF Entries
    <3>2. QED
      BY <1>1, <1>5, <2>1, <3>1 DEF StateInv, FlagTypes
  <2>5. LoopInv'
    <3>1. loop' \in [Loops -> LoopStates]
          /\ \A l \in Loops : loop'[l].at = "asleep" => loop'[l] = loop[l]
      BY <1>1, <1>6, <2>1 DEF Scheduled, Begun, LoopStates
    <3>2. QED
      BY <1>1, <3>1 DEF StateInv, LoopInv
  <2>6. BlankInv' /\ StopInv'
    BY <1>1, <1>5, <2>1 DEF BlankInv, StopInv, Before
  <2>7. FailedInv'
    <3>1. "cleanup" \in Loops /\ loop'["cleanup"].at # "failed"
      BY <1>5, <1>6, <2>1 DEF Scheduled, Begun, Loops
    <3>2. QED
      BY <3>1 DEF FailedInv
  <2>8. GateIsSafe'
    BY <2>1, <2>2 DEF GateIsSafe
  <2>9. QED
    BY <1>4, <2>3, <2>4, <2>5, <2>6, <2>7, <2>8, GateParts DEF StateInv
<1>9. CASE Head(lock) = "final"
  <2>0. Holder = "final" /\ Holder \notin Loops /\ Holder # "terminal"
    BY <1>9 DEF Holder, Loops
  <2>1. /\ entry' = "silencing" /\ required' \in BOOLEAN /\ (required' => required)
        /\ gate' = gate /\ served' = served /\ loop' = loop
        /\ excused' = (excused \/ required')
    <3>1. /\ entry' = "silencing" /\ required' = (required /\ ~(ok /\ ~err))
          /\ gate' = gate /\ served' = served /\ loop' = loop
      BY <2>0 DEF ClearEnds
    <3>2. excused' = (excused \/ required')
      BY <1>2, <1>6, <2>0, <3>1 DEF ClearEnds, Held
    <3>3. QED
      BY <1>6, <3>1, <3>2
  <2>3. EnvTypes'
    BY <1>1, <1>5 DEF StateInv, EnvTypes
  <2>4. FlagTypes'
    <3>1. entry' \in Entries /\ excused' \in BOOLEAN
      BY <1>6, <2>1 DEF Entries
    <3>2. QED
      BY <1>1, <1>5, <2>1, <3>1 DEF StateInv, FlagTypes
  <2>5. LoopInv'
    BY <1>1, <2>1 DEF StateInv, LoopInv
  <2>6. BlankInv' /\ StopInv'
    BY <1>1, <1>5, <2>1 DEF BlankInv, StopInv, Before
  <2>7. FailedInv'
    BY <1>5, <2>1 DEF FailedInv
  <2>8. GateIsSafe'
    BY <1>1, <1>5, <1>6, <2>1 DEF StateInv, GateIsSafe
  <2>9. QED
    BY <1>4, <2>3, <2>4, <2>5, <2>6, <2>7, <2>8, GateParts DEF StateInv
<1>10. QED
  BY <1>6, <1>7, <1>8, <1>9 DEF Clears

-----------------------------------------------------------------------------
(* Together.                                                               *)

LEMMA GateInit ==
  ASSUME Init
  PROVE  GateInv
<1>1. LifecycleAssumption
  BY LifecycleAssumption
<1>2. /\ lock = <<>> /\ step = "begin" /\ entry = "absent"
      /\ loop = [l \in Loops |-> NoLoop] /\ NoLoop \in LoopStates
  BY <1>1 DEF Init, Blank, NoLoop, LoopStates
<1>3. LockInv
  <2>1. lock \in Seq(Kinds) /\ DOMAIN lock = {}
    BY <1>2
  <2>2. OwnedBy(lock, entry)
    BY <2>1 DEF OwnedBy
  <2>3. QED
    BY <1>2, <2>1, <2>2 DEF LockInv, Steps
<1>4. EnvTypes
  <2>1. Attempts \in Nat \ {0} /\ MaxInputs \in Nat
    BY <1>1
  <2>2. 0 \in 0 .. Attempts
    BY <2>1
  <2>3. clear \in [gen : Nat, served : Nat, target : Nat, attempt : 0 .. Attempts]
    BY <2>2 DEF Init
  <2>4. QED
    BY <2>1, <2>3 DEF Init, EnvTypes
<1>5. FlagTypes
  BY DEF Init, Blank, FlagTypes, Entries
<1>6. LoopInv
  BY <1>2 DEF LoopInv, NoLoop
<1>7. BlankInv /\ StopInv
  BY <1>2 DEF Init, Blank, BlankInv, StopInv, NoLoop
<1>8. FailedInv /\ GateIsSafe
  BY <1>2 DEF Init, Blank, FailedInv, GateIsSafe, NoLoop, Loops
<1>9. QED
  BY <1>3, <1>4, <1>5, <1>6, <1>7, <1>8, GateParts DEF StateInv

LEMMA GateStutters ==
  ASSUME GateInv, UNCHANGED vars
  PROVE  GateInv'
BY
   DEF vars, envVars, flagVars, lockVars, ghosts, GateInv, TypeOK, OwnInv, BlankInv, PathInv,
       StopInv, FailedInv, GateIsSafe, Holder

LEMMA GateStep ==
  ASSUME GateInv, [Next]_vars
  PROVE  GateInv'
<1>1. CASE LockStep
  BY <1>1, BeginKeeps, SaveKeeps, ControlKeeps, UndoKeeps, CommandKeeps, ClearKeeps,
     HandoffKeeps
     DEF LockStep
<1>2. CASE LoopStep
  BY <1>2, LoopBeginsKeeps, LoopDoneKeeps, LoopWakesKeeps DEF LoopStep
<1>3. CASE EntryStep
  BY <1>3, SetupKeeps, SettledKeeps, CreatedKeeps, StartBeginsKeeps, StartCleanedKeeps,
     RestoredKeeps, LoadedKeeps, ClearedKeeps, ConnectedKeeps, StopBeginsKeeps, StopClearsKeeps,
     StopSilencesKeeps, GoneKeeps
     DEF EntryStep
<1>4. CASE ClearStep
  BY <1>4, RequiredClearKeeps DEF ClearStep
<1>5. CASE Input
  BY <1>5, ActivateKeeps, YieldKeeps, PhysicalKeeps, SwitchChangesKeeps, SwitchFollowsKeeps,
     ReloadKeeps, DisableKeeps, EnableKeeps, EditKeeps, CrashKeeps
     DEF Input
<1>6. CASE UNCHANGED vars
  BY <1>6, GateStutters
<1>7. QED
  BY <1>1, <1>2, <1>3, <1>4, <1>5, <1>6 DEF Next

(* Theorem: the invariant of the gate holds, whatever the order of calls,  *)
(* registry events, clears and their failures, reloads and crashes.        *)
THEOREM GateCorrect == Spec => []GateInv
<1>1. Init => GateInv
  BY GateInit
<1>2. GateInv /\ [Next]_vars => GateInv'
  BY GateStep
<1>3. QED
  BY <1>1, <1>2, PTL DEF Spec

(* Theorem: the gate of the coordinator is open only while the switch is   *)
(* enabled, nothing is left to be cleared and the entry is not being       *)
(* disabled.                                                               *)
THEOREM GateStaysSafe == Spec => []GateIsSafe
<1>1. GateInv => GateIsSafe
  BY DEF GateInv
<1>2. QED
  BY <1>1, GateCorrect, PTL
-----------------------------------------------------------------------------
(* What is in the queue of the lock, and in which order.                   *)

(* p is q with x at its end; p is q without its head.                      *)
More(q, p, x) ==
  /\ p # <<>> /\ (q # <<>> => Head(p) = Head(q)) /\ (q = <<>> => Head(p) = x)
  /\ \A k : In(p, k) <=> In(q, k) \/ k = x
  /\ \A k, m : Ahead(p, k, m) <=> Ahead(q, k, m) \/ (In(q, k) /\ m = x)

Less(q, p) ==
  /\ \A k : In(q, k) <=> In(p, k) \/ k = Head(q)
  /\ \A k, m : Ahead(q, k, m) <=> Ahead(p, k, m) \/ (k = Head(q) /\ In(p, m))

(* A call that joins the queue is behind everybody in it.                  *)
LEMMA Grown ==
  ASSUME NEW q \in Seq(Kinds), NEW x \in Kinds
  PROVE  More(q, Append(q, x), x)
<1>1. /\ Len(q) \in Nat /\ Len(Append(q, x)) = Len(q) + 1
      /\ \A i \in 1 .. Len(q) : Append(q, x)[i] = q[i]
      /\ Append(q, x)[Len(q) + 1] = x /\ Append(q, x) \in Seq(Kinds)
  BY AppendProperties, LenProperties
<1> DEFINE p == Append(q, x)  n == Len(q)
<1>2. n \in Nat /\ DOMAIN q = 1 .. n /\ DOMAIN p = 1 .. n + 1
  BY <1>1, LenProperties
<1>3. p[n + 1] = x /\ \A i \in 1 .. n : p[i] = q[i]
  BY <1>1
<1> HIDE DEF p, n
<1>4. \A k : In(p, k) <=> In(q, k) \/ k = x
  BY <1>2, <1>3 DEF In
<1>5. ASSUME NEW k, NEW m
      PROVE  Ahead(p, k, m) <=> Ahead(q, k, m) \/ (In(q, k) /\ m = x)
  <2>1. Ahead(q, k, m) => Ahead(p, k, m)
    BY <1>2, <1>3 DEF Ahead
  <2>2. In(q, k) /\ m = x => Ahead(p, k, m)
    <3> SUFFICES ASSUME In(q, k), m = x PROVE Ahead(p, k, m)
      OBVIOUS
    <3>1. PICK i \in 1 .. n : q[i] = k
      BY <1>2 DEF In
    <3>2. i \in DOMAIN p /\ n + 1 \in DOMAIN p /\ i < n + 1 /\ p[i] = k /\ p[n + 1] = m
      BY <1>2, <1>3, <3>1
    <3>3. QED
      BY <3>2 DEF Ahead
  <2>3. Ahead(p, k, m) => Ahead(q, k, m) \/ (In(q, k) /\ m = x)
    <3> SUFFICES ASSUME Ahead(p, k, m) PROVE Ahead(q, k, m) \/ (In(q, k) /\ m = x)
      OBVIOUS
    <3>1. PICK i \in 1 .. n + 1, j \in 1 .. n + 1 : i < j /\ p[i] = k /\ p[j] = m
      BY <1>2 DEF Ahead
    <3>2. i \in 1 .. n
      BY <1>2, <3>1
    <3>3. CASE j = n + 1
      BY <1>2, <1>3, <3>1, <3>2, <3>3 DEF In
    <3>4. CASE j # n + 1
      <4>1. j \in 1 .. n
        BY <1>2, <3>1, <3>4
      <4>2. QED
        BY <1>2, <1>3, <3>1, <3>2, <4>1 DEF Ahead
    <3>5. QED
      BY <3>3, <3>4
  <2>4. QED
    BY <2>1, <2>2, <2>3
<1>6. p # <<>> /\ (q # <<>> => Head(p) = Head(q)) /\ (q = <<>> => Head(p) = x)
  <2>1. Len(p) # 0
    BY DEF p
  <2>2. p # <<>>
    BY <2>1
  <2>3. (q # <<>> => Head(p) = Head(q)) /\ (q = <<>> => Head(p) = x)
    BY HeadTailAppend DEF p
  <2>4. QED
    BY <2>2, <2>3
<1>7. QED
  BY <1>4, <1>5 DEF p, More

(* The transaction that leaves was ahead of everybody else.                *)
LEMMA Shrunk ==
  ASSUME NEW q \in Seq(Kinds), q # <<>>
  PROVE  Less(q, Tail(q))
<1> DEFINE p == Tail(q)  n == Len(q)  h == Head(q)
<1>1. /\ n \in Nat \ {0} /\ h = q[1] /\ Len(p) = n - 1 /\ p \in Seq(Kinds)
      /\ \A i \in 1 .. Len(p) : p[i] = q[i + 1]
  BY HeadTailProperties, EmptySeq
<1>2. DOMAIN q = 1 .. n /\ DOMAIN p = 1 .. n - 1
  BY <1>1, LenProperties
<1>3. n \in Nat \ {0} /\ h = q[1] /\ \A i \in 1 .. n - 1 : p[i] = q[i + 1]
  BY <1>1
<1> HIDE DEF p, n, h
<1>4. \A i \in 2 .. n : i - 1 \in 1 .. n - 1 /\ p[i - 1] = q[i]
  BY <1>3
<1>5. \A i \in 1 .. n - 1 : i + 1 \in 2 .. n /\ i + 1 \in 1 .. n /\ p[i] = q[i + 1]
  BY <1>3
<1>6. ASSUME NEW k PROVE In(q, k) <=> In(p, k) \/ k = h
  <2>1. In(p, k) \/ k = h => In(q, k)
    BY <1>2, <1>3 DEF In
  <2>2. In(q, k) => In(p, k) \/ k = h
    <3> SUFFICES ASSUME In(q, k) PROVE In(p, k) \/ k = h
      OBVIOUS
    <3>1. PICK i \in 1 .. n : q[i] = k
      BY <1>2 DEF In
    <3>2. i = 1 \/ i \in 2 .. n
      BY <1>3
    <3>3. QED
      BY <1>2, <1>3, <1>4, <3>1, <3>2 DEF In
  <2>3. QED
    BY <2>1, <2>2
<1>7. ASSUME NEW k, NEW m
      PROVE  Ahead(q, k, m) <=> Ahead(p, k, m) \/ (k = h /\ In(p, m))
  <2>1. Ahead(p, k, m) => Ahead(q, k, m)
    <3> SUFFICES ASSUME Ahead(p, k, m) PROVE Ahead(q, k, m)
      OBVIOUS
    <3>1. PICK i \in 1 .. n - 1, j \in 1 .. n - 1 : i < j /\ p[i] = k /\ p[j] = m
      BY <1>2 DEF Ahead
    <3>2. i + 1 \in DOMAIN q /\ j + 1 \in DOMAIN q /\ i + 1 < j + 1 /\ q[i + 1] = k /\ q[j + 1] = m
      BY <1>2, <1>5, <3>1
    <3>3. QED
      BY <3>2 DEF Ahead
  <2>2. k = h /\ In(p, m) => Ahead(q, k, m)
    <3> SUFFICES ASSUME k = h, In(p, m) PROVE Ahead(q, k, m)
      OBVIOUS
    <3>1. PICK j \in 1 .. n - 1 : p[j] = m
      BY <1>2 DEF In
    <3>2. 1 \in DOMAIN q /\ j + 1 \in DOMAIN q /\ 1 < j + 1 /\ q[1] = k /\ q[j + 1] = m
      BY <1>2, <1>3, <3>1
    <3>3. QED
      BY <3>2 DEF Ahead
  <2>3. Ahead(q, k, m) => Ahead(p, k, m) \/ (k = h /\ In(p, m))
    <3> SUFFICES ASSUME Ahead(q, k, m) PROVE Ahead(p, k, m) \/ (k = h /\ In(p, m))
      OBVIOUS
    <3>1. PICK i \in 1 .. n, j \in 1 .. n : i < j /\ q[i] = k /\ q[j] = m
      BY <1>2 DEF Ahead
    <3>2. j \in 2 .. n /\ j - 1 \in 1 .. n - 1 /\ p[j - 1] = m
      BY <1>3, <1>4, <3>1
    <3>3. CASE i = 1
      BY <1>2, <1>3, <3>1, <3>2, <3>3 DEF In
    <3>4. CASE i # 1
      <4>1. i - 1 \in 1 .. n - 1 /\ p[i - 1] = k /\ i - 1 < j - 1
        BY <1>4, <3>1, <3>4
      <4>2. QED
        BY <1>2, <3>2, <4>1 DEF Ahead
    <3>5. QED
      BY <3>3, <3>4
  <2>4. QED
    BY <2>1, <2>2, <2>3
<1>8. QED
  BY <1>6, <1>7 DEF p, h, Less

LEMMA AheadIn == \A q, k, m : Ahead(q, k, m) => In(q, k) /\ In(q, m)
BY DEF Ahead, In

LEMMA Emptied ==
  /\ \A k : ~In(<<>>, k)
  /\ \A k, m : ~Ahead(<<>>, k, m)
BY DEF In, Ahead

(* The holder is in the queue, and what belongs to the entry is only there *)
(* while it waits for it.                                                  *)
LEMMA InQueue ==
  ASSUME LockInv
  PROVE  /\ lock # <<>> => In(lock, Head(lock))
         /\ \A k : In(lock, k) => lock # <<>> /\ k \in Kinds
         /\ \A k, m : Ahead(lock, k, m) => In(lock, k) /\ In(lock, m)
         /\ In(lock, "quiesce") \/ In(lock, "rearm") => entry = "editing"
         /\ In(lock, "terminal") => entry = "disabling"
         /\ In(lock, "final") => entry = "finishing"
         /\ In(lock, "stop") => entry = "halting"
<1>1. lock # <<>> => In(lock, Head(lock))
  BY Shrunk DEF LockInv, Less
<1>2. ASSUME NEW k, In(lock, k) PROVE lock # <<>> /\ k \in Kinds
  BY <1>2 DEF LockInv, In
<1>3. ASSUME NEW k \in Own, In(lock, k) PROVE entry = OwnEntry[k]
  BY <1>3 DEF LockInv, OwnedBy, In
<1>4. QED
  BY <1>1, <1>2, <1>3, AheadIn DEF Own, OwnEntry

(* What the invariant of the gate says of the lock, for the steps below.   *)
LEMMA Known ==
  ASSUME GateInv
  PROVE  /\ LockInv /\ StateInv /\ lock \in Seq(Kinds) /\ (lock = <<>> => step = "begin")
         /\ (step = "clear" => Head(lock) \in Clears) /\ (step = "control" => Head(lock) # "loss")
         /\ (lock # <<>> => Head(lock) \in Kinds)
BY GateParts, HeadTailProperties DEF LockInv

-----------------------------------------------------------------------------
(* Every step keeps the invariant of the owner.                            *)

LEMMA ActivateOwner ==
  ASSUME GateInv, OwnerInv, Activate
  PROVE  OwnerInv'
<1>1. step' = step /\ More(lock, lock', "activate")
  BY Known, Grown DEF Activate, Spend, Request, Serving, Kinds, Loops, lockVars
<1>2. KindInv'
  BY Known, <1>1, InQueue, Emptied DEF OwnerInv, KindInv, Waiting, More, Less, Held, Holder, Loops
<1>3. StoredInv'
  BY Known, <1>1 DEF OwnerInv, StoredInv, More, Less, Held, Holder, Activate
<1>4. RunInv'
  BY Known, <1>1, InQueue, Emptied
     DEF OwnerInv, RunInv, More, Less, envVars, flagVars, lockVars, Before, Activate, Spend,
         Request, Serving
<1>5. AskInv'
  BY Known, <1>1
     DEF OwnerInv, AskInv, Waiting, More, Less, Loops, envVars, flagVars, lockVars, Activate
<1>6. ClearInv'
  <2>1. ~In(lock, "final") /\ (required => excused)
    BY Known, InQueue DEF Activate, Serving, StateInv, GateIsSafe
  <2>2. QED
    BY Known, <1>1, <2>1
       DEF OwnerInv, ClearInv, Serves, Past, Waiting, More, Held, Holder, Activate, Serving,
           Loops, flagVars, ghosts
<1>7. WantedInv'
  BY Known, <1>1
     DEF OwnerInv, WantedInv, Unread, Waiting, Late, More, Less, Held, Holder, vars, envVars,
         flagVars, lockVars, ghosts, Activate
<1>8. QED
  BY <1>2, <1>3, <1>4, <1>5, <1>6, <1>7 DEF OwnerInv

LEMMA YieldOwner ==
  ASSUME GateInv, OwnerInv, NEW k, Yield(k)
  PROVE  OwnerInv'
<1>1. step' = step /\ More(lock, lock', k)
  BY Known, Grown DEF Yield, Spend, Request, Serving, Kinds, Loops, lockVars
<1>2. KindInv'
  BY Known, <1>1, InQueue, Emptied DEF OwnerInv, KindInv, Waiting, More, Less, Held, Holder, Loops
<1>3. StoredInv'
  BY Known, <1>1
     DEF OwnerInv, StoredInv, More, Less, Held, Holder, envVars, flagVars, lockVars, Yield
<1>4. RunInv'
  BY Known, <1>1
     DEF OwnerInv, RunInv, More, Less, envVars, flagVars, lockVars, Before, Yield, Spend, Request,
         Serving
<1>5. AskInv'
  BY Known, <1>1
     DEF OwnerInv, AskInv, Waiting, More, Less, Loops, envVars, flagVars, lockVars, Yield
<1>6. ClearInv'
  BY Known, <1>1
     DEF OwnerInv, ClearInv, Serves, Past, Waiting, More, Less, Held, Holder, flagVars, lockVars,
         ghosts, Yield, Spend
<1>7. WantedInv'
  BY Known, <1>1
     DEF OwnerInv, WantedInv, Unread, Waiting, Late, More, Less, Held, Holder, vars, envVars,
         flagVars, lockVars, ghosts, Yield
<1>8. QED
  BY <1>2, <1>3, <1>4, <1>5, <1>6, <1>7 DEF OwnerInv

LEMMA PhysicalOwner ==
  ASSUME GateInv, OwnerInv, PhysicalOverride
  PROVE  OwnerInv'
<1>1. step' = step /\ (lock' = lock \/ More(lock, lock', "loss"))
  <2>1. step' = step /\ (lock' = lock \/ lock' = Append(lock, "loss"))
    BY DEF PhysicalOverride, Decide, Request, Suppressed, lockVars
  <2>2. QED
    BY Known, <2>1, Grown DEF Kinds, Loops
<1>2. KindInv'
  BY Known, <1>1, InQueue, Emptied DEF OwnerInv, KindInv, Waiting, More, Less, Held, Holder, Loops
<1>3. StoredInv'
  BY Known, <1>1
     DEF OwnerInv, StoredInv, More, Less, Held, Holder, envVars, flagVars, lockVars,
         PhysicalOverride
<1>4. RunInv'
  BY Known, <1>1, InQueue, Emptied
     DEF OwnerInv, RunInv, Waiting, More, Less, flagVars, StateInv, LoopStates, BlankInv, StopInv,
         PhysicalOverride
<1>5. AskInv'
  BY Known, <1>1
     DEF OwnerInv, AskInv, Waiting, More, Less, Loops, envVars, flagVars, lockVars,
         PhysicalOverride
<1>6. ClearInv'
  BY Known, <1>1, InQueue, Emptied
     DEF OwnerInv, RunInv, ClearInv, Calls, Serves, Past, Waiting, More, envVars, flagVars,
         StateInv, EnvTypes, FlagTypes, LoopInv, PhysicalOverride, Spend, Decide, Request
<1>7. WantedInv'
  <2>1. CASE Suppressed
    <3>1. lock # <<>> /\ step = "control" /\ lock' = lock /\ step' = step
      BY <2>1 DEF PhysicalOverride, Suppressed, lockVars
    <3>2. Head(lock) \in Kinds \ {"activate", "rearm", "loss"}
      BY Known, <2>1 DEF Suppressed, Holder
    <3>3. active /\ started /\ entry \notin Unread
      BY DEF PhysicalOverride, OwnerInv, RunInv, Before, Unread, Calls
    <3>4. excused' \/ store # "on" \/ required \/ Late
      BY Known, <3>1, <3>2, <3>3, InQueue
         DEF PhysicalOverride, Decide, OwnerInv, StoredInv, ClearInv, RunInv, Waiting, Late, Held,
             Holder, StateInv, EnvTypes, FlagTypes, StopInv, Kinds
    <3>5. QED
      BY Known, <3>1, <3>2, <3>3, <3>4
         DEF PhysicalOverride, Decide, OwnerInv, WantedInv, Waiting, Late, More, Less, Held,
             Holder, vars, envVars, flagVars, lockVars, ghosts
  <2>2. CASE ~Suppressed
    <3>1. step' = step /\ More(lock, lock', "loss")
      BY Known, <2>2, Grown DEF PhysicalOverride, Request, Kinds
    <3>2. QED
      BY Known, <3>1
         DEF PhysicalOverride, Decide, OwnerInv, WantedInv, Waiting, Late, More, Less, Held,
             Holder, vars, envVars, flagVars, lockVars, ghosts
  <2>3. QED
    BY <2>1, <2>2
<1>8. QED
  BY <1>2, <1>3, <1>4, <1>5, <1>6, <1>7 DEF OwnerInv

LEMMA ReloadOwner ==
  ASSUME GateInv, OwnerInv, Reload
  PROVE  OwnerInv'
<1>1. lock' = lock /\ step' = step
  BY DEF Reload, Spend, lockVars
<1>2. KindInv'
  BY Known, <1>1, InQueue, Emptied DEF OwnerInv, KindInv, Waiting, More, Less, Held, Holder, Loops
<1>3. StoredInv'
  BY Known, <1>1
     DEF OwnerInv, StoredInv, Unread, More, Less, Held, Holder, envVars, flagVars, lockVars,
         Reload, Spend
<1>4. RunInv'
  BY Known, <1>1, InQueue, Emptied DEF OwnerInv, RunInv, flagVars, lockVars, Before, Reload, Spend
<1>5. AskInv'
  BY DEF OwnerInv, AskInv, Waiting, envVars, flagVars, lockVars, Reload
<1>6. ClearInv'
  BY Known, <1>1
     DEF OwnerInv, ClearInv, Serves, Past, Waiting, More, Less, Held, Holder, flagVars, lockVars,
         ghosts, Reload, Spend
<1>7. WantedInv'
  BY Known, <1>1
     DEF OwnerInv, WantedInv, Unread, Waiting, Late, More, Less, Held, Holder, vars, envVars,
         flagVars, lockVars, ghosts, Reload
<1>8. QED
  BY <1>2, <1>3, <1>4, <1>5, <1>6, <1>7 DEF OwnerInv

LEMMA EnableOwner ==
  ASSUME GateInv, OwnerInv, Enable
  PROVE  OwnerInv'
<1>1. lock' = lock /\ step' = step
  BY DEF Enable, Spend, lockVars
<1>2. KindInv'
  BY Known, <1>1, InQueue, Emptied DEF OwnerInv, KindInv, Waiting, More, Less, Held, Holder, Loops
<1>3. StoredInv'
  BY DEF OwnerInv, StoredInv, Held, Holder, envVars, flagVars, lockVars, Enable
<1>4. RunInv'
  BY DEF OwnerInv, RunInv, Waiting, flagVars, lockVars, Enable, Spend
<1>5. AskInv'
  BY DEF OwnerInv, AskInv, Waiting, envVars, flagVars, lockVars, Enable
<1>6. ClearInv'
  BY Known, <1>1
     DEF OwnerInv, ClearInv, Serves, Past, Waiting, More, Less, Held, Holder, flagVars, lockVars,
         ghosts, Enable, Spend
<1>7. WantedInv'
  BY Known, <1>1
     DEF OwnerInv, WantedInv, Unread, Waiting, Late, More, Less, Held, Holder, vars, envVars,
         flagVars, lockVars, ghosts, Enable
<1>8. QED
  BY <1>2, <1>3, <1>4, <1>5, <1>6, <1>7 DEF OwnerInv

LEMMA EditOwner ==
  ASSUME GateInv, OwnerInv, Edit
  PROVE  OwnerInv'
<1>1. step' = step /\ More(lock, lock', "quiesce")
  BY Known, Grown DEF Edit, Spend, Request, Kinds
<1>2. KindInv'
  BY Known, <1>1, InQueue, Emptied DEF OwnerInv, KindInv, Waiting, More, Less, Held, Holder, Loops
<1>3. StoredInv'
  BY Known, <1>1
     DEF OwnerInv, StoredInv, Unread, More, Less, Held, Holder, envVars, flagVars, lockVars, Edit,
         Spend
<1>4. RunInv'
  BY Known, <1>1 DEF OwnerInv, RunInv, More, Less, envVars, flagVars, lockVars, Before, Edit
<1>5. AskInv'
  BY Known, <1>1
     DEF OwnerInv, AskInv, Waiting, More, Less, Loops, envVars, flagVars, lockVars, Edit
<1>6. ClearInv'
  BY Known, <1>1
     DEF OwnerInv, ClearInv, Serves, Past, Waiting, More, Less, Held, Holder, flagVars, lockVars,
         ghosts, Edit, Spend
<1>7. WantedInv'
  BY Known, <1>1
     DEF OwnerInv, WantedInv, Unread, Waiting, Late, More, Less, Held, Holder, vars, envVars,
         flagVars, lockVars, ghosts, Edit
<1>8. QED
  BY <1>2, <1>3, <1>4, <1>5, <1>6, <1>7 DEF OwnerInv

LEMMA DisableOwner ==
  ASSUME GateInv, OwnerInv, Disable
  PROVE  OwnerInv'
<1>1. step' = step /\ More(lock, lock', "terminal")
  BY Known, Grown DEF Disable, Spend, Request, Decide, Kinds, Loops, lockVars
<1>2. KindInv'
  BY Known, <1>1, InQueue, Emptied DEF OwnerInv, KindInv, Waiting, More, Less, Held, Holder, Loops
<1>3. StoredInv'
  BY Known, <1>1 DEF OwnerInv, StoredInv, More, Less, Held, Holder, Disable
<1>4. RunInv'
  BY Known, <1>1 DEF OwnerInv, RunInv, More, lockVars, Before, Disable, Spend
<1>5. AskInv'
  BY Known, <1>1, InQueue, Emptied
     DEF OwnerInv, AskInv, Unread, Waiting, Late, More, Loops, vars, envVars, StateInv, EnvTypes,
         FlagTypes, LoopInv, LoopStates, Before, Disable
<1>6. ClearInv'
  <2>1. \A l \in Loops : In(lock, l) => ~Serves(l)'
    <3>1. \A l \in Loops : In(lock, l) => loop[l].gen \in Nat /\ loop[l].gen <= gen
      BY Known DEF OwnerInv, AskInv, Waiting, StateInv, LoopInv, LoopStates
    <3>2. gen \in Nat /\ gen' = gen + 1 /\ loop' = loop
      BY Known DEF Disable, StateInv, FlagTypes
    <3>3. QED
      BY <3>1, <3>2 DEF Serves
  <2>2. /\ lock # <<>> => In(lock, Head(lock))
        /\ \A k, m : Ahead(lock, k, m) => In(lock, k)
        /\ ~In(lock, "terminal") /\ ~In(lock, "final")
    BY Known, InQueue DEF Disable
  <2>3. (step \in Past => lock # <<>>) /\ step' = step /\ required' /\ entry' = "disabling"
    BY Known, <1>1 DEF Disable, Past
  <2>4. /\ \A k : step' \in Past /\ lock' # <<>> /\ Head(lock') = k => In(lock, k)
        /\ \A k, m : Ahead(lock', k, m) /\ m # "terminal" => In(lock, k)
        /\ \A k : Ahead(lock', k, "terminal") => In(lock, k)
    BY <1>1, <2>2, <2>3 DEF More
  <2>5. QED
    BY <2>1, <2>2, <2>3, <2>4 DEF ClearInv, Waiting, Held, Holder, Loops
<1>7. WantedInv'
  BY Known, <1>1, InQueue, Emptied
     DEF OwnerInv, RunInv, WantedInv, Disable, Spend, Request, Decide
<1>8. QED
  BY <1>2, <1>3, <1>4, <1>5, <1>6, <1>7 DEF OwnerInv

(* What a step of the registry does to a coordinator that listens to it.   *)
LEMMA SwitchDoes ==
  ASSUME GateInv, SwitchChanges \/ SwitchFollowsEntry
  PROVE  /\ UNCHANGED <<store, entry, restore, faults, active, started, down, lock, step, err,
                        terminal, served>>
         /\ gen \in Nat /\ loop \in [Loops -> LoopStates] /\ ~Synchronous
         /\ \/ UNCHANGED <<gate, required, gen, loop>>
            \/ /\ Listening /\ ~down /\ ~terminal /\ (required => required')
               /\ (gate => gate' \/ required') /\ (gate' => gate \/ ~required')
               /\ gen' = IF required' THEN gen + 1 ELSE gen
               /\ required' /\ started => loop'["cleanup"].at # "none"
               /\ loop' = loop \/ (loop["cleanup"].at = "none" /\ started /\ loop' = Scheduled)
         /\ \/ UNCHANGED <<owner, excused>> /\ (required' <=> required)
            \/ /\ Listening /\ (required' \/ down \/ terminal) /\ owner' = "nobody"
               /\ excused' <=> excused \/ entry = "editing" \/ (restore /\ ~active)
<1>1. /\ loop \in [Loops -> LoopStates] /\ gen \in Nat
      /\ gate \in BOOLEAN /\ required \in BOOLEAN
  BY Known DEF StateInv, FlagTypes, LoopInv
<1>2. /\ UNCHANGED <<store, entry, restore, faults, active, started, down, lock, step, err>>
      /\ ~Synchronous
      /\ \E ok \in BOOLEAN : Heard(ok)
  BY DEF SwitchChanges, SwitchFollowsEntry, lockVars
<1>3. PICK ok \in BOOLEAN : Heard(ok)
  BY <1>2
<1>4. \/ UNCHANGED <<owner, excused>> /\ (ok \/ ~Listening)
      \/ /\ Listening /\ ~ok /\ owner' = "nobody"
         /\ excused' <=> excused \/ entry = "editing" \/ (restore /\ ~active)
  BY <1>3 DEF Heard, Decide, ghosts
<1>5. CASE ~Listening \/ down \/ terminal
  BY <1>1, <1>2, <1>3, <1>4, <1>5 DEF Heard, SetAllowed, flagVars
<1>6. CASE Listening /\ ~down /\ ~terminal
  <2>1. /\ required' = (required \/ ~ok) /\ UNCHANGED <<terminal, served>>
        /\ gen' = IF required \/ ~ok THEN gen + 1 ELSE gen
        /\ gate' = (ok /\ (gate \/ (~required /\ loop["cleanup"].at = "none")))
        /\ loop' = IF CanSchedule /\ (required \/ ~ok) THEN Scheduled ELSE loop
    BY <1>3, <1>6 DEF Heard, SetAllowed
  <2>2. loop["cleanup"].at = "none" => Scheduled["cleanup"].at # "none"
    BY <1>1 DEF Scheduled, Begun, Loops
  <2>3. /\ required' <=> required \/ ~ok
        /\ gen' = IF required' THEN gen + 1 ELSE gen
        /\ (gate => gate' \/ required') /\ (gate' => gate \/ ~required')
    BY <1>1, <2>1
  <2>4. CASE CanSchedule /\ (required \/ ~ok)
    BY <1>1, <1>2, <1>4, <1>6, <2>1, <2>2, <2>3, <2>4 DEF CanSchedule
  <2>5. CASE ~(CanSchedule /\ (required \/ ~ok))
    BY <1>1, <1>2, <1>4, <1>6, <2>1, <2>3, <2>5 DEF CanSchedule
  <2>6. QED
    BY <2>4, <2>5
<1>7. QED
  BY <1>5, <1>6

LEMMA SwitchOwner ==
  ASSUME GateInv, OwnerInv, SwitchChanges \/ SwitchFollowsEntry
  PROVE  OwnerInv'
<1>1. /\ loop'["startup"] = loop["startup"]
      /\ \A l \in Loops : \/ loop'[l] = loop[l]
                          \/ loop[l].at = "none" /\ loop'[l] = Begun
  BY SwitchDoes DEF Scheduled, Loops
<1>2. \A l \in Loops : loop[l].gen \in Nat
  BY SwitchDoes DEF LoopStates
<1>3. \A l \in Loops : loop[l].at # "none" => loop[l].gen <= gen
  BY DEF OwnerInv, AskInv
<1>4. gate => ~terminal
  BY Known DEF StateInv, GateIsSafe
<1>5. Listening => entry \notin Unread /\ ~down
  BY DEF OwnerInv, RunInv, Listening, Unread
<1>6. KindInv' /\ RunInv'
  BY SwitchDoes DEF OwnerInv, KindInv, RunInv, Held, Holder, Waiting
<1>7. StoredInv'
  BY <1>5, SwitchDoes DEF OwnerInv, StoredInv, Held, Holder
<1>8. AskInv'
  BY <1>1, <1>2, <1>3, SwitchDoes DEF OwnerInv, AskInv, Waiting, Begun
<1>9. ClearInv'
  <2>1. /\ excused => excused'
        /\ \A l \in Loops : loop[l].at # "none" /\ Serves(l)' => Serves(l)
    <3>1. excused => excused'
      BY SwitchDoes
    <3>2. CASE UNCHANGED <<gate, required, gen, loop>>
      BY <3>1, <3>2 DEF Serves
    <3>3. CASE required' => gen' = gen + 1
      BY <1>1, <1>2, <1>3, <3>1, <3>3, SwitchDoes DEF Serves
    <3>4. QED
      BY <3>2, <3>3, SwitchDoes
  <2>2. \A l \in Loops : In(lock, l) => loop[l].at # "none"
    BY DEF OwnerInv, AskInv, Waiting
  <2>3. /\ required => required'
        /\ required' /\ ~required => Listening
    BY SwitchDoes
  <2>4. /\ lock # <<>> => In(lock, Holder)
        /\ \A k, m : Ahead(lock, k, m) => In(lock, k)
    BY Known, InQueue DEF Holder
  <2>5. QED
    BY <2>1, <2>2, <2>3, <2>4, SwitchDoes
       DEF OwnerInv, ClearInv, Past, Held, Holder, Waiting, Listening
<1>10. WantedInv'
  <2>1. CASE UNCHANGED <<owner, excused>>
    BY <2>1, <1>5, SwitchDoes DEF OwnerInv, StoredInv, WantedInv, Held, Holder, Waiting, Late
  <2>2. CASE /\ Listening /\ (required' \/ down \/ terminal) /\ owner' = "nobody"
             /\ excused' <=> excused \/ entry = "editing" \/ (restore /\ ~active)
    BY <2>2, <1>4, <1>5, SwitchDoes
       DEF OwnerInv, RunInv, StoredInv, WantedInv, Held, Holder, Waiting, Late
  <2>3. QED
    BY <2>1, <2>2, SwitchDoes
<1>11. QED
  BY <1>6, <1>7, <1>8, <1>9, <1>10 DEF OwnerInv


LEMMA RequiredClearOwner ==
  ASSUME GateInv, OwnerInv, NEW ok \in BOOLEAN, RequiredClear(ok)
  PROVE  OwnerInv'
<1>1. lock' = lock /\ step' = step
  BY DEF RequiredClear, Succeeds, lockVars
<1>2. KindInv'
  BY Known, <1>1, InQueue, Emptied DEF OwnerInv, KindInv, Waiting, More, Less, Held, Holder, Loops
<1>3. StoredInv'
  BY DEF OwnerInv, StoredInv, Held, Holder, envVars, flagVars, lockVars, RequiredClear
<1>4. RunInv'
  BY DEF OwnerInv, RunInv, Waiting, flagVars, lockVars, RequiredClear, Succeeds
<1>5. AskInv'
  BY DEF OwnerInv, AskInv, Waiting, envVars, flagVars, lockVars, RequiredClear
<1>6. ClearInv'
  BY Known, <1>1
     DEF OwnerInv, ClearInv, Serves, Past, Waiting, More, Less, Held, Holder, flagVars, lockVars,
         ghosts, RequiredClear, Succeeds
<1>7. WantedInv'
  BY Known, <1>1
     DEF OwnerInv, WantedInv, Unread, Waiting, Late, More, Less, Held, Holder, vars, envVars,
         flagVars, lockVars, ghosts, RequiredClear
<1>8. QED
  BY <1>2, <1>3, <1>4, <1>5, <1>6, <1>7 DEF OwnerInv

LEMMA SetupOwner ==
  ASSUME GateInv, OwnerInv, Setup
  PROVE  OwnerInv'
<1>1. lock' = lock /\ step' = step
  BY DEF Setup, lockVars
<1>2. KindInv'
  BY Known, <1>1, InQueue, Emptied DEF OwnerInv, KindInv, Waiting, More, Less, Held, Holder, Loops
<1>3. StoredInv'
  BY Known, <1>1
     DEF OwnerInv, StoredInv, Unread, More, Less, Held, Holder, envVars, flagVars, lockVars, Setup
<1>4. RunInv'
  BY Known, <1>1 DEF OwnerInv, RunInv, Calls, Waiting, flagVars, lockVars, Before, Setup
<1>5. AskInv'
  BY DEF OwnerInv, AskInv, Waiting, envVars, flagVars, lockVars, Setup
<1>6. ClearInv'
  BY Known, <1>1
     DEF OwnerInv, ClearInv, Serves, Past, Waiting, More, Less, Held, Holder, flagVars, lockVars,
         ghosts, Setup
<1>7. WantedInv'
  BY Known, <1>1
     DEF OwnerInv, WantedInv, Unread, Waiting, Late, More, Less, Held, Holder, vars, envVars,
         flagVars, lockVars, ghosts, Setup
<1>8. QED
  BY <1>2, <1>3, <1>4, <1>5, <1>6, <1>7 DEF OwnerInv

LEMMA SettledOwner ==
  ASSUME GateInv, OwnerInv, Settled
  PROVE  OwnerInv'
<1>1. lock' = lock /\ step' = step
  BY DEF Settled, Loops, lockVars
<1>2. KindInv'
  BY Known, <1>1, InQueue, Emptied DEF OwnerInv, KindInv, Waiting, More, Less, Held, Holder, Loops
<1>3. StoredInv'
  BY Known, <1>1
     DEF OwnerInv, StoredInv, Unread, More, Less, Held, Holder, envVars, flagVars, lockVars,
         Settled
<1>4. RunInv'
  BY Known, <1>1 DEF OwnerInv, RunInv, Calls, Waiting, flagVars, lockVars, Before, Settled
<1>5. AskInv'
  BY DEF OwnerInv, AskInv, Waiting, envVars, flagVars, lockVars, Settled
<1>6. ClearInv'
  BY Known, <1>1
     DEF OwnerInv, ClearInv, Serves, Past, Waiting, More, Less, Held, Holder, flagVars, lockVars,
         ghosts, Settled
<1>7. WantedInv'
  BY Known, <1>1
     DEF OwnerInv, WantedInv, Unread, Waiting, Late, More, Less, Held, Holder, vars, envVars,
         flagVars, lockVars, ghosts, Settled
<1>8. QED
  BY <1>2, <1>3, <1>4, <1>5, <1>6, <1>7 DEF OwnerInv

LEMMA LoadedOwner ==
  ASSUME GateInv, OwnerInv, NEW ok \in BOOLEAN, Loaded(ok)
  PROVE  OwnerInv'
<1>1. lock' = lock /\ step' = step
  BY DEF Loaded, Loops, lockVars
<1>2. KindInv'
  BY Known, <1>1, InQueue, Emptied DEF OwnerInv, KindInv, Waiting, More, Less, Held, Holder, Loops
<1>3. StoredInv'
  BY Known, <1>1, InQueue, Emptied
     DEF OwnerInv, StoredInv, Unread, lockVars, ghosts, StateInv, EnvTypes, FlagTypes, BlankInv,
         StopInv, Before, Loaded
<1>4. RunInv'
  BY Known, <1>1 DEF OwnerInv, RunInv, Calls, Waiting, Before, Loaded, Succeeds
<1>5. AskInv'
  BY DEF OwnerInv, AskInv, Waiting, envVars, flagVars, lockVars, Loaded
<1>6. ClearInv'
  BY Known, <1>1
     DEF OwnerInv, ClearInv, Serves, Past, Waiting, More, Less, Held, Holder, flagVars, lockVars,
         ghosts, Loaded, Succeeds, Decide
<1>7. WantedInv'
  BY Known, <1>1, InQueue, Emptied
     DEF OwnerInv, WantedInv, Unread, Waiting, Late, More, ghosts, StateInv, EnvTypes, FlagTypes,
         BlankInv, StopInv, Before, Loaded
<1>8. QED
  BY <1>2, <1>3, <1>4, <1>5, <1>6, <1>7 DEF OwnerInv

LEMMA CreatedOwner ==
  ASSUME GateInv, OwnerInv, Created
  PROVE  OwnerInv'
<1>1. lock' = lock /\ step' = step
  BY DEF Created, SetAllowed, Decide, Loops, lockVars
<1>2. KindInv'
  BY Known, <1>1, InQueue, Emptied DEF OwnerInv, KindInv, Waiting, More, Less, Held, Holder, Loops
<1>3. StoredInv'
  BY Known, <1>1, InQueue, Emptied
     DEF OwnerInv, StoredInv, Unread, More, Less, Held, Holder, vars, envVars, flagVars, StateInv,
         EnvTypes, FlagTypes, LoopInv, LoopStates, Created, SetAllowed, Decide
<1>4. RunInv'
  BY Known, <1>1, InQueue, Emptied
     DEF OwnerInv, RunInv, Unread, Waiting, ghosts, StateInv, EnvTypes, BlankInv, GateIsSafe,
         Before, Created, SetAllowed
<1>5. AskInv'
  BY Known, <1>1, InQueue, Emptied
     DEF OwnerInv, AskInv, Waiting, Holder, Loops, vars, envVars, flagVars, StateInv, EnvTypes,
         FlagTypes, LoopInv, LoopStates, GateIsSafe, Created, SetAllowed, Decide, CanSchedule,
         Scheduled, Begun
<1>6. ClearInv'
  BY Known, <1>1, InQueue, Emptied
     DEF OwnerInv, ClearInv, Unread, Waiting, ghosts, StateInv, EnvTypes, BlankInv, StopInv,
         FailedInv, GateIsSafe, Before, Created
<1>7. WantedInv'
  BY Known, <1>1
     DEF OwnerInv, RunInv, WantedInv, Unread, Before, Waiting, Late, Held, Holder, Created,
         SetAllowed, Decide, envVars, flagVars, lockVars, ghosts, StateInv, BlankInv
<1>8. QED
  BY <1>2, <1>3, <1>4, <1>5, <1>6, <1>7 DEF OwnerInv

LEMMA ClearedOwner ==
  ASSUME GateInv, OwnerInv, NEW ok \in BOOLEAN, Cleared(ok)
  PROVE  OwnerInv'
<1>1. lock' = lock /\ step' = step
  BY DEF Cleared, lockVars
<1>2. KindInv'
  BY Known, <1>1, InQueue, Emptied DEF OwnerInv, KindInv, Waiting, More, Less, Held, Holder, Loops
<1>3. StoredInv'
  BY Known, <1>1
     DEF OwnerInv, StoredInv, Unread, More, Less, Held, Holder, envVars, flagVars, lockVars,
         Cleared, Succeeds
<1>4. RunInv'
  BY DEF OwnerInv, RunInv, Waiting, flagVars, lockVars, Cleared, Succeeds
<1>5. AskInv'
  BY DEF OwnerInv, AskInv, Waiting, envVars, flagVars, lockVars, Cleared
<1>6. ClearInv'
  BY Known, <1>1
     DEF OwnerInv, ClearInv, Serves, Past, Waiting, More, Less, Held, Holder, flagVars, lockVars,
         ghosts, Cleared, Succeeds
<1>7. WantedInv'
  BY Known, <1>1
     DEF OwnerInv, WantedInv, Unread, Waiting, Late, More, Less, Held, Holder, vars, envVars,
         flagVars, lockVars, ghosts, Cleared
<1>8. QED
  BY <1>2, <1>3, <1>4, <1>5, <1>6, <1>7 DEF OwnerInv

LEMMA StartBeginsOwner ==
  ASSUME GateInv, OwnerInv, StartBegins
  PROVE  OwnerInv'
<1>1. step' = step /\ (lock' = lock \/ More(lock, lock', "startup"))
  <2>1. step' = step /\ (lock' = lock \/ lock' = Append(lock, "startup"))
    BY DEF StartBegins, Turn
  <2>2. QED
    BY Known, <2>1, Grown DEF Kinds, Loops
<1>2. KindInv'
  BY Known, <1>1, InQueue, Emptied DEF OwnerInv, KindInv, Waiting, More, Less, Held, Holder, Loops
<1>3. StoredInv'
  BY Known, <1>1, InQueue, Emptied
     DEF OwnerInv, StoredInv, RunInv, Unread, Less, Held, Holder, envVars, flagVars, lockVars,
         Before, StartBegins, Turn
<1>4. RunInv'
  BY Known, <1>1, InQueue, Emptied
     DEF OwnerInv, RunInv, Calls, Waiting, More, Less, flagVars, lockVars, ghosts, StateInv,
         EnvTypes, FlagTypes, Before, StartBegins, Turn, Restoring
<1>5. AskInv'
  BY Known, <1>1, InQueue, Emptied
     DEF OwnerInv, RunInv, AskInv, Waiting, More, Less, envVars, flagVars, StateInv, EnvTypes,
         FlagTypes, LoopInv, LoopStates, StartBegins, Turn, Restoring
<1>6. ClearInv'
  BY Known, <1>1, InQueue, Emptied
     DEF OwnerInv, RunInv, ClearInv, Calls, Serves, Past, Waiting, More, flagVars, lockVars,
         Before, StartBegins
<1>7. WantedInv'
  BY Known, <1>1, InQueue, Emptied
     DEF OwnerInv, RunInv, WantedInv, Unread, Calls, Waiting, Late, More, Less, Held, Holder,
         vars, ghosts, StateInv, EnvTypes, FlagTypes, Before, StartBegins, Turn, Restoring
<1>8. QED
  BY <1>2, <1>3, <1>4, <1>5, <1>6, <1>7 DEF OwnerInv

LEMMA StartCleanedOwner ==
  ASSUME GateInv, OwnerInv, StartCleaned
  PROVE  OwnerInv'
<1>1. lock' = lock /\ step' = step
  BY DEF StartCleaned, Loops, lockVars
<1>2. KindInv'
  BY Known, <1>1, InQueue, Emptied DEF OwnerInv, KindInv, Waiting, More, Less, Held, Holder, Loops
<1>3. StoredInv'
  BY Known, <1>1
     DEF OwnerInv, StoredInv, Unread, More, Less, Held, Holder, envVars, flagVars, lockVars,
         StartCleaned, Restoring
<1>4. RunInv'
  BY Known, <1>1, InQueue, Emptied
     DEF OwnerInv, KindInv, StoredInv, RunInv, AskInv, ClearInv, WantedInv, Waiting, flagVars,
         lockVars, ghosts, StateInv, EnvTypes, FlagTypes, GateIsSafe, StartCleaned, Restoring
<1>5. AskInv'
  BY Known, <1>1, InQueue, Emptied
     DEF OwnerInv, AskInv, Waiting, More, Less, Loops, flagVars, lockVars, ghosts, StateInv,
         LoopInv, LoopStates, StartCleaned, Restoring, NoLoop
<1>6. ClearInv'
  BY Known, <1>1, InQueue, Emptied
     DEF OwnerInv, KindInv, StoredInv, RunInv, AskInv, ClearInv, Serves, Past, Waiting, flagVars,
         lockVars, ghosts, StateInv, EnvTypes, FailedInv, GateIsSafe, Before, StartCleaned,
         Restoring
<1>7. WantedInv'
  BY Known, <1>1
     DEF OwnerInv, StoredInv, WantedInv, Unread, Waiting, Late, Held, Holder, StartCleaned,
         Restoring, envVars, flagVars, lockVars, ghosts
<1>8. QED
  BY <1>2, <1>3, <1>4, <1>5, <1>6, <1>7 DEF OwnerInv

LEMMA RestoredOwner ==
  ASSUME GateInv, OwnerInv, Restored
  PROVE  OwnerInv'
<1>1. lock' = lock /\ step' = step
  BY DEF Restored, Loops, lockVars
<1>2. KindInv'
  BY Known, <1>1, InQueue, Emptied DEF OwnerInv, KindInv, Waiting, More, Less, Held, Holder, Loops
<1>3. StoredInv'
  BY Known, <1>1, InQueue, Emptied
     DEF OwnerInv, KindInv, StoredInv, RunInv, WantedInv, Unread, Calls, Serves, Past, Waiting,
         Held, Holder, flagVars, lockVars, Before, Restored
<1>4. RunInv'
  BY Known, <1>1, InQueue, Emptied DEF OwnerInv, RunInv, flagVars, lockVars, Before, Restored
<1>5. AskInv'
  BY DEF OwnerInv, AskInv, Waiting, envVars, flagVars, lockVars, Restored
<1>6. ClearInv'
  BY Known, <1>1, InQueue, Emptied
     DEF OwnerInv, ClearInv, Serves, Past, Waiting, More, Less, Held, Holder, flagVars, lockVars,
         ghosts, Restored
<1>7. WantedInv'
  BY Known, <1>1 DEF OwnerInv, WantedInv, Unread, flagVars, lockVars, ghosts, Restored
<1>8. QED
  BY <1>2, <1>3, <1>4, <1>5, <1>6, <1>7 DEF OwnerInv

LEMMA ConnectedOwner ==
  ASSUME GateInv, OwnerInv, NEW ok \in BOOLEAN, Connected(ok)
  PROVE  OwnerInv'
<1>1. lock' = lock /\ step' = step
  BY DEF Connected, lockVars
<1>2. KindInv'
  BY Known, <1>1, InQueue, Emptied DEF OwnerInv, KindInv, Waiting, More, Less, Held, Holder, Loops
<1>3. StoredInv'
  BY Known, <1>1
     DEF OwnerInv, StoredInv, Unread, More, Less, Held, Holder, envVars, flagVars, lockVars,
         Connected, Succeeds
<1>4. RunInv'
  BY Known, <1>1, InQueue, Emptied
     DEF OwnerInv, RunInv, flagVars, lockVars, Before, Connected, Succeeds
<1>5. AskInv'
  BY DEF OwnerInv, AskInv, Waiting, envVars, flagVars, lockVars, Connected
<1>6. ClearInv'
  BY Known, <1>1, InQueue, Emptied
     DEF OwnerInv, RunInv, ClearInv, Calls, Serves, Past, Waiting, More, Less, Held, Holder,
         Loops, flagVars, lockVars, ghosts, Before, Connected, Succeeds
<1>7. WantedInv'
  BY Known, <1>1, InQueue, Emptied
     DEF OwnerInv, RunInv, WantedInv, Unread, Calls, Waiting, Late, More, Less, Held, Holder,
         vars, envVars, flagVars, lockVars, ghosts, Before, Connected
<1>8. QED
  BY <1>2, <1>3, <1>4, <1>5, <1>6, <1>7 DEF OwnerInv

LEMMA StopBeginsOwner ==
  ASSUME GateInv, OwnerInv, StopBegins
  PROVE  OwnerInv'
<1>1. lock' = lock /\ step' = step
  BY DEF StopBegins, Loops, lockVars
<1>2. KindInv'
  BY Known, <1>1, InQueue, Emptied DEF OwnerInv, KindInv, Waiting, More, Less, Held, Holder, Loops
<1>3. StoredInv'
  BY Known, <1>1
     DEF OwnerInv, StoredInv, Unread, More, Less, Held, Holder, envVars, flagVars, lockVars,
         StopBegins
<1>4. RunInv'
  BY Known, <1>1 DEF OwnerInv, RunInv, Calls, Waiting, flagVars, lockVars, Before, StopBegins
<1>5. AskInv'
  BY DEF OwnerInv, AskInv, Waiting, envVars, flagVars, lockVars, StopBegins
<1>6. ClearInv'
  BY Known, <1>1
     DEF OwnerInv, ClearInv, Serves, Past, Waiting, More, Less, Held, Holder, flagVars, lockVars,
         ghosts, StopBegins
<1>7. WantedInv'
  BY Known, <1>1
     DEF OwnerInv, WantedInv, Unread, Waiting, Late, More, Less, Held, Holder, vars, envVars,
         flagVars, lockVars, ghosts, StopBegins
<1>8. QED
  BY <1>2, <1>3, <1>4, <1>5, <1>6, <1>7 DEF OwnerInv

LEMMA StopClearsOwner ==
  ASSUME GateInv, OwnerInv, StopClears
  PROVE  OwnerInv'
<1>1. step' = step /\ (lock' = lock \/ More(lock, lock', "final"))
  <2>1. step' = step /\ (lock' = lock \/ lock' = Append(lock, "final"))
    BY DEF StopClears, Request, lockVars
  <2>2. QED
    BY Known, <2>1, Grown DEF Kinds, Loops
<1>2. KindInv'
  BY Known, <1>1, InQueue, Emptied DEF OwnerInv, KindInv, Waiting, More, Less, Held, Holder, Loops
<1>3. StoredInv'
  BY Known, <1>1
     DEF OwnerInv, StoredInv, Unread, More, Less, Held, Holder, envVars, flagVars, lockVars,
         StopClears, Request
<1>4. RunInv'
  BY Known, <1>1 DEF OwnerInv, RunInv, Calls, Waiting, More, Less, Before, StopClears
<1>5. AskInv'
  BY Known, <1>1
     DEF OwnerInv, AskInv, Waiting, More, Less, Loops, envVars, flagVars, lockVars, StopClears
<1>6. ClearInv'
  BY Known, <1>1
     DEF OwnerInv, ClearInv, Serves, Past, Waiting, More, Less, Held, Holder, flagVars, lockVars,
         ghosts, StopClears, Request
<1>7. WantedInv'
  BY Known, <1>1
     DEF OwnerInv, WantedInv, Unread, Waiting, Late, More, Less, Held, Holder, vars, envVars,
         flagVars, lockVars, ghosts, StopClears
<1>8. QED
  BY <1>2, <1>3, <1>4, <1>5, <1>6, <1>7 DEF OwnerInv

LEMMA StopSilencesOwner ==
  ASSUME GateInv, OwnerInv, StopSilences
  PROVE  OwnerInv'
<1>1. step' = step /\ (lock' = lock \/ More(lock, lock', "stop"))
  <2>1. step' = step /\ (lock' = lock \/ lock' = Append(lock, "stop"))
    BY DEF StopSilences, Request, lockVars
  <2>2. QED
    BY Known, <2>1, Grown DEF Kinds, Loops
<1>2. KindInv'
  BY Known, <1>1, InQueue, Emptied DEF OwnerInv, KindInv, Waiting, More, Less, Held, Holder, Loops
<1>3. StoredInv'
  BY Known, <1>1
     DEF OwnerInv, StoredInv, Unread, More, Less, Held, Holder, envVars, flagVars, lockVars,
         StopSilences, Request
<1>4. RunInv'
  BY Known, <1>1 DEF OwnerInv, RunInv, Calls, Waiting, More, Less, Before, StopSilences
<1>5. AskInv'
  BY Known, <1>1
     DEF OwnerInv, AskInv, Waiting, More, Less, Loops, envVars, flagVars, lockVars, StopSilences
<1>6. ClearInv'
  BY Known, <1>1
     DEF OwnerInv, ClearInv, Serves, Past, Waiting, More, flagVars, lockVars, ghosts, StopSilences
<1>7. WantedInv'
  BY Known, <1>1
     DEF OwnerInv, WantedInv, Unread, Waiting, Late, More, Less, Held, Holder, vars, envVars,
         flagVars, lockVars, ghosts, StopSilences
<1>8. QED
  BY <1>2, <1>3, <1>4, <1>5, <1>6, <1>7 DEF OwnerInv

LEMMA GoneOwner ==
  ASSUME GateInv, OwnerInv, Gone
  PROVE  OwnerInv'
<1>1. lock' = <<>>
  BY DEF Gone, Loops, lockVars
<1>2. KindInv'
  BY Known, <1>1, InQueue, Emptied DEF OwnerInv, KindInv, envVars, flagVars, lockVars, Gone
<1>3. StoredInv'
  BY Known, <1>1 DEF OwnerInv, StoredInv, Unread, flagVars, lockVars, Gone
<1>4. RunInv'
  BY Emptied DEF OwnerInv, RunInv, Waiting, flagVars, lockVars, Gone
<1>5. AskInv'
  BY DEF OwnerInv, AskInv, Waiting, envVars, flagVars, lockVars, Gone
<1>6. ClearInv'
  BY Emptied DEF OwnerInv, ClearInv, Waiting, More, Less, Held, flagVars, lockVars, Gone
<1>7. WantedInv'
  BY Known, <1>1, InQueue, Emptied
     DEF OwnerInv, KindInv, StoredInv, RunInv, AskInv, ClearInv, WantedInv, Unread, Past, Waiting,
         Late, More, lockVars, ghosts, Gone
<1>8. QED
  BY <1>2, <1>3, <1>4, <1>5, <1>6, <1>7 DEF OwnerInv

LEMMA CrashOwner ==
  ASSUME GateInv, OwnerInv, Crash
  PROVE  OwnerInv'
<1>1. lock' = <<>>
  BY DEF Crash
<1>2. KindInv'
  BY Emptied DEF OwnerInv, KindInv, envVars, flagVars, lockVars, Crash, Spend, NoLoop
<1>3. StoredInv'
  BY Known, <1>1 DEF OwnerInv, StoredInv, Unread, flagVars, lockVars, Crash, Spend, NoLoop
<1>4. RunInv'
  BY Emptied DEF OwnerInv, RunInv, Waiting, flagVars, lockVars, Crash, Spend
<1>5. AskInv'
  BY Emptied DEF OwnerInv, AskInv, Waiting, More, Less, Loops, Crash, Spend, NoLoop
<1>6. ClearInv'
  BY Emptied DEF OwnerInv, ClearInv, Waiting, Crash, Spend, NoLoop
<1>7. WantedInv'
  <2>1. ~active' /\ ~restore' /\ step' = "begin" /\ entry' = "absent"
    BY DEF Crash
  <2>2. \A k \in {"cleanup", "startup", "loss"} : Waiting(k) => owner' = "policy"
    BY DEF Crash, Clears, Loops
  <2>3. ~excused /\ store = "on" => owner' = "policy"
    BY <2>2 DEF Crash, OwnerInv, WantedInv, Late
  <2>4. QED
    BY <2>3 DEF Crash, WantedInv
<1>8. QED
  BY <1>2, <1>3, <1>4, <1>5, <1>6, <1>7 DEF OwnerInv

LEMMA LoopBeginsOwner ==
  ASSUME GateInv, OwnerInv, LoopBegins
  PROVE  OwnerInv'
<1>1. step' = step /\ (lock' = lock \/ More(lock, lock', "cleanup"))
  <2>1. step' = step /\ (lock' = lock \/ lock' = Append(lock, "cleanup"))
    BY DEF LoopBegins, Turn, lockVars
  <2>2. QED
    BY Known, <2>1, Grown DEF Kinds, Loops
<1>2. KindInv'
  BY Known, <1>1, InQueue, Emptied DEF OwnerInv, KindInv, Waiting, More, Less, Held, Holder, Loops
<1>3. StoredInv'
  BY Known, <1>1, InQueue, Emptied
     DEF OwnerInv, StoredInv, Unread, Waiting, Late, More, Less, Held, Holder, flagVars, StateInv,
         EnvTypes, FlagTypes, LoopInv, LoopStates, BlankInv, Before, LoopBegins, Turn
<1>4. RunInv'
  BY Known, <1>1
     DEF OwnerInv, RunInv, Calls, Waiting, More, Less, envVars, flagVars, LoopBegins, Turn
<1>5. AskInv'
  <2>1. ~In(lock, "cleanup") /\ \A m : ~Ahead(lock, "cleanup", m)
    BY Known, InQueue DEF LoopBegins, OwnerInv, AskInv, Waiting, Loops
  <2>2. /\ gen' = gen /\ gen \in Nat /\ UNCHANGED <<entry, started>>
        /\ \A k \in Loops : k # "cleanup" => loop'[k] = loop[k]
        /\ loop'["cleanup"].at \in {"asking", "done"} /\ loop'["cleanup"].gen <= gen
        /\ lock' = lock \/ loop'["cleanup"].at = "asking"
    BY Known
       DEF LoopBegins, Turn, OwnerInv, AskInv, StateInv, FlagTypes, LoopInv, LoopStates, Loops,
           flagVars
  <2>3. QED
    BY <1>1, <2>1, <2>2 DEF OwnerInv, AskInv, Waiting, More, Loops
<1>6. ClearInv'
  <2>1. ~In(lock, "cleanup") /\ \A m : ~Ahead(lock, "cleanup", m)
    BY Known, InQueue DEF LoopBegins, OwnerInv, AskInv, Waiting, Loops
  <2>2. /\ \A k \in Loops : k # "cleanup" => loop'[k] = loop[k] /\ (In(lock', k) <=> In(lock, k))
        /\ \A k, m : m \in {"activate", "terminal"} => (Ahead(lock', k, m) <=> Ahead(lock, k, m))
        /\ ~Ahead(lock', "cleanup", "activate") /\ ~Ahead(lock', "cleanup", "terminal")
    BY Known, <1>1, <2>1 DEF LoopBegins, Turn, More, Loops, StateInv, LoopInv
  <2>3. step' \in Past => /\ lock # <<>> /\ Head(lock') = Head(lock)
                         /\ lock' # <<>> /\ Head(lock) # "cleanup"
    BY Known, <1>1, <2>1, InQueue DEF More, Past
  <2>4. UNCHANGED <<entry, excused, required, gen, store, active, started, step>>
    BY DEF LoopBegins, flagVars, ghosts
  <2>5. \A k \in {"activate", "final", "terminal"} : In(lock', k) <=> In(lock, k)
    BY <1>1 DEF More, Loops
  <2>6. QED
    BY <2>2, <2>3, <2>4, <2>5 DEF OwnerInv, ClearInv, Serves, Held, Holder, Waiting, Loops
<1>7. WantedInv'
  BY Known, <1>1
     DEF OwnerInv, WantedInv, Waiting, Late, More, Held, Holder, LoopBegins, Turn, flagVars,
         ghosts
<1>8. QED
  BY <1>2, <1>3, <1>4, <1>5, <1>6, <1>7 DEF OwnerInv

LEMMA LoopWakesOwner ==
  ASSUME GateInv, OwnerInv, NEW l \in Loops, LoopWakes(l)
  PROVE  OwnerInv'
<1>1. step' = step /\ (lock' = lock \/ More(lock, lock', l))
  <2>1. step' = step /\ (lock' = lock \/ lock' = Append(lock, l))
    BY DEF LoopWakes, Turn, lockVars
  <2>2. QED
    BY Known, <2>1, Grown DEF Kinds, Loops
<1>2. KindInv'
  BY Known, <1>1, InQueue, Emptied DEF OwnerInv, KindInv, Waiting, More, Less, Held, Holder, Loops
<1>3. StoredInv'
  BY Known, <1>1, InQueue, Emptied
     DEF OwnerInv, StoredInv, Unread, Waiting, Late, More, Less, Held, Holder, flagVars, StateInv,
         EnvTypes, FlagTypes, LoopInv, LoopStates, BlankInv, Before, LoopWakes, Turn
<1>4. RunInv'
  BY Known, <1>1, InQueue, Emptied
     DEF OwnerInv, RunInv, Unread, Calls, Waiting, Late, More, Loops, envVars, flagVars, LoopWakes
<1>5. AskInv'
  <2>1. ~In(lock, l) /\ \A m : ~Ahead(lock, l, m)
    BY Known, InQueue DEF LoopWakes, OwnerInv, AskInv, Waiting, Loops
  <2>2. /\ gen' = gen /\ gen \in Nat /\ loop[l].at = "asleep" /\ UNCHANGED <<entry, started>>
        /\ \A k \in Loops : k # l => loop'[k] = loop[k]
        /\ loop'[l].at \in {"asking", "done"} /\ loop'[l].gen <= gen
        /\ lock' = lock \/ loop'[l].at = "asking"
    BY Known
       DEF LoopWakes, Turn, OwnerInv, AskInv, StateInv, FlagTypes, LoopInv, LoopStates, Loops,
           flagVars
  <2>3. QED
    BY <1>1, <2>1, <2>2 DEF OwnerInv, AskInv, Waiting, More, Loops
<1>6. ClearInv'
  <2>1. ~In(lock, l) /\ \A m : ~Ahead(lock, l, m)
    BY Known, InQueue DEF LoopWakes, OwnerInv, AskInv, Waiting
  <2>2. /\ \A k \in Loops : k # l => loop'[k] = loop[k] /\ (In(lock', k) <=> In(lock, k))
        /\ \A k, m : m \in {"activate", "terminal"} => (Ahead(lock', k, m) <=> Ahead(lock, k, m))
        /\ ~Ahead(lock', l, "activate") /\ ~Ahead(lock', l, "terminal")
    BY Known, <1>1, <2>1 DEF LoopWakes, Turn, More, Loops, StateInv, LoopInv
  <2>3. step' \in Past => lock # <<>> /\ Head(lock') = Head(lock) /\ lock' # <<>> /\ Head(lock) # l
    BY Known, <1>1, <2>1, InQueue DEF More, Past
  <2>4. UNCHANGED <<entry, excused, required, gen, store, active, started, step>>
    BY DEF LoopWakes, flagVars, ghosts
  <2>5. \A k \in {"activate", "final", "terminal"} : In(lock', k) <=> In(lock, k)
    BY <1>1 DEF More, Loops
  <2>6. QED
    BY <2>2, <2>3, <2>4, <2>5 DEF OwnerInv, ClearInv, Serves, Held, Holder, Waiting, Loops
<1>7. WantedInv'
  BY Known, <1>1
     DEF OwnerInv, WantedInv, Waiting, Late, More, Held, Holder, LoopWakes, Turn, flagVars, ghosts
<1>8. QED
  BY <1>2, <1>3, <1>4, <1>5, <1>6, <1>7 DEF OwnerInv

LEMMA LoopDoneOwner ==
  ASSUME GateInv, OwnerInv, LoopDone
  PROVE  OwnerInv'
<1>1. lock' = lock /\ step' = step
  BY DEF LoopDone, LoopEnds, Rescheduled, Loops, lockVars
<1>2. KindInv'
  BY Known, <1>1, InQueue, Emptied DEF OwnerInv, KindInv, Waiting, More, Less, Held, Holder, Loops
<1>3. StoredInv'
  BY Known, <1>1, InQueue, Emptied
     DEF OwnerInv, StoredInv, Unread, Calls, Serves, Held, Holder, Loops, StateInv, EnvTypes,
         FlagTypes, LoopInv, LoopStates, BlankInv, GateIsSafe, Before, LoopDone, LoopEnds
<1>4. RunInv'
  BY Known, <1>1
     DEF OwnerInv, RunInv, Calls, Waiting, Before, LoopDone, LoopEnds, Rescheduled, Awaited,
         NoLoop
<1>5. AskInv'
  BY Known, <1>1, InQueue, Emptied
     DEF OwnerInv, AskInv, Waiting, StateInv, EnvTypes, FlagTypes, LoopDone, LoopEnds,
         Rescheduled, Awaited, NoLoop, Begun
<1>6. ClearInv'
  BY Known, <1>1, InQueue
     DEF OwnerInv, AskInv, ClearInv, Serves, Past, Waiting, Held, Holder, LoopDone, LoopEnds,
         Rescheduled, Awaited, Begun, NoLoop, lockVars, ghosts, StateInv, LoopInv, FailedInv,
         Loops
<1>7. WantedInv'
  BY Known, <1>1, InQueue, Emptied
     DEF OwnerInv, WantedInv, Unread, Waiting, Late, More, Less, Held, Holder, lockVars, ghosts,
         StateInv, EnvTypes, FlagTypes, LoopDone, LoopEnds, Rescheduled, Awaited
<1>8. QED
  BY <1>2, <1>3, <1>4, <1>5, <1>6, <1>7 DEF OwnerInv

LEMMA BeginOwner ==
  ASSUME GateInv, OwnerInv, Begin
  PROVE  OwnerInv'
<1>1. lock' = lock \/ (step' = "begin" /\ Less(lock, lock'))
  <2>1. lock # <<>> /\ (lock' = lock \/ (step' = "begin" /\ lock' = Tail(lock)))
    BY DEF Begin, Refused, Leave, GoTo, Clears
  <2>2. QED
    BY Known, <2>1, Shrunk
<1>2. KindInv'
  BY Known, <1>1 DEF OwnerInv, KindInv, Holder, Loops, Begin, Refused, Leave, GoTo
<1>3. StoredInv'
  BY Known, <1>1, InQueue, Emptied
     DEF OwnerInv, StoredInv, Unread, More, Less, Held, Holder, envVars, flagVars, lockVars,
         Begin, Refused, Leave, GoTo
<1>4. RunInv'
  BY Known, <1>1, InQueue, Emptied
     DEF OwnerInv, RunInv, Unread, Waiting, Less, Held, Holder, Loops, envVars, flagVars,
         lockVars, Before, Begin
<1>5. AskInv'
  BY Known, <1>1, InQueue, Emptied
     DEF OwnerInv, AskInv, Waiting, More, Less, Held, Holder, Loops, envVars, flagVars, lockVars,
         Begin
<1>6. ClearInv'
  BY Known, <1>1, InQueue
     DEF OwnerInv, RunInv, ClearInv, Serves, Past, Waiting, Less, Held, Holder, Begin, Refused,
         Leave, GoTo, Clears, flagVars, ghosts
<1>7. WantedInv'
  BY Known, <1>1, InQueue
     DEF OwnerInv, StoredInv, RunInv, WantedInv, Calls, Before, Unread, Waiting, Late, Less, Held,
         Holder, Begin, Refused, Leave, GoTo, Clears, Loops, flagVars, ghosts
<1>8. QED
  BY <1>2, <1>3, <1>4, <1>5, <1>6, <1>7 DEF OwnerInv

LEMMA SaveOwner ==
  ASSUME GateInv, OwnerInv, NEW ok \in BOOLEAN, SaveEnds(ok)
  PROVE  OwnerInv'
<1>1. lock' = lock \/ (step' = "begin" /\ Less(lock, lock'))
  <2>1. lock # <<>> /\ (lock' = lock \/ (step' = "begin" /\ lock' = Tail(lock)))
    BY Known DEF SaveEnds, Succeeds, Leave, GoTo, Decide
  <2>2. QED
    BY Known, <2>1, Shrunk
<1>2. KindInv'
  BY Known, <1>1, InQueue, Emptied
     DEF OwnerInv, KindInv, lockVars, SaveEnds, Succeeds, Leave, GoTo
<1>3. StoredInv'
  BY Known, <1>1, InQueue, Emptied
     DEF OwnerInv, KindInv, StoredInv, RunInv, AskInv, Held, Holder, Loops, envVars, flagVars,
         lockVars, SaveEnds, Succeeds, Leave, GoTo
<1>4. RunInv'
  BY Known, <1>1 DEF OwnerInv, RunInv, Waiting, More, Less, envVars, flagVars, lockVars, SaveEnds
<1>5. AskInv'
  BY Known, <1>1
     DEF OwnerInv, AskInv, Waiting, More, Less, Loops, envVars, flagVars, lockVars, SaveEnds
<1>6. ClearInv'
  BY Known, <1>1, InQueue, Emptied
     DEF OwnerInv, ClearInv, Serves, Past, Waiting, More, Less, Held, Holder, flagVars, lockVars,
         ghosts, SaveEnds, Succeeds, Leave, GoTo, Decide
<1>7. WantedInv'
  BY Known, <1>1, InQueue
     DEF OwnerInv, KindInv, StoredInv, RunInv, WantedInv, Unread, Waiting, Late, Less, Held,
         Holder, SaveEnds, Succeeds, Leave, GoTo, Decide, envVars, flagVars, ghosts, StateInv,
         GateIsSafe, Loops
<1>8. QED
  BY <1>2, <1>3, <1>4, <1>5, <1>6, <1>7 DEF OwnerInv

LEMMA ControlOwner ==
  ASSUME GateInv, OwnerInv, NEW ok \in BOOLEAN, ControlEnds(ok)
  PROVE  OwnerInv'
<1>1. lock' = lock \/ (step' = "begin" /\ Less(lock, lock'))
  <2>1. lock # <<>> /\ (lock' = lock \/ (step' = "begin" /\ lock' = Tail(lock)))
    BY Known
       DEF ControlEnds, Succeeds, Leave, GoTo, Decide, envVars, Clears, Kinds, Held, Holder,
           Loops, lockVars
  <2>2. QED
    BY Known, <2>1, Shrunk
<1>2. KindInv'
  BY Known, <1>1, InQueue
     DEF OwnerInv, KindInv, Held, Holder, ControlEnds, Leave, GoTo, Clears, Loops, Kinds
<1>3. StoredInv'
  BY Known, <1>1, InQueue
     DEF OwnerInv, StoredInv, RunInv, Unread, Held, Holder, Waiting, ControlEnds, Leave, GoTo,
         Clears, Loops, Kinds, flagVars, envVars
<1>4. RunInv'
  <2>1. /\ In(lock, Head(lock)) /\ entry # "restoring" /\ lock # <<>>
        /\ UNCHANGED <<restore, down, terminal, started>>
    BY Known, InQueue DEF ControlEnds, vars, envVars, flagVars
  <2>2. \A k : In(lock', k) => In(lock, k)
    BY <1>1 DEF Less
  <2>3. ~Ahead(lock', "stop", "activate")
    BY <1>1 DEF Less, OwnerInv, RunInv
  <2>4. CASE Head(lock) = "stop"
    <3>1. entry' = "closing" /\ ~active' /\ entry = "halting" /\ lock' = Tail(lock)
      BY <2>1, <2>4, InQueue, Known DEF ControlEnds, Held, Holder, Leave, Clears, Loops
    <3>2. ~In(lock', "activate")
      BY Known, <2>1, <2>4, <3>1, Shrunk DEF Less, OwnerInv, RunInv
    <3>3. QED
      BY <2>1, <2>2, <2>3, <3>1, <3>2 DEF OwnerInv, RunInv, Calls, Waiting, Before
  <2>5. CASE Head(lock) = "rearm"
    <3>1. entry' = "loaded" /\ entry = "editing"
      BY <2>5, InQueue, Known DEF ControlEnds, Held, Holder
    <3>2. QED
      BY <2>1, <2>2, <2>3, <3>1 DEF OwnerInv, RunInv, Calls, Waiting, Before
  <2>6. CASE Head(lock) \notin {"stop", "rearm"}
    <3>1. entry' = entry /\ (active' => Head(lock) = "activate")
      BY <2>6 DEF ControlEnds, Held, Holder
    <3>2. QED
      BY <2>1, <2>2, <2>3, <3>1 DEF OwnerInv, RunInv, Calls, Waiting, Before
  <2>7. QED
    BY <2>4, <2>5, <2>6
<1>5. AskInv'
  BY Known, <1>1, InQueue, Emptied
     DEF OwnerInv, AskInv, Waiting, More, Less, Held, Holder, Loops, envVars, flagVars, lockVars,
         ControlEnds
<1>6. ClearInv'
  BY Known, <1>1, InQueue, Emptied
     DEF OwnerInv, ClearInv, Serves, Past, Waiting, More, Less, Held, Holder, Loops, flagVars,
         lockVars, ghosts, StateInv, EnvTypes, FlagTypes, ControlEnds, Decide
<1>7. WantedInv'
  <2>1. /\ step = "control" /\ lock # <<>> /\ entry # "restoring" /\ In(lock, Head(lock))
        /\ UNCHANGED <<store, gate, required, started, restore>>
        /\ active' => Head(lock) \in {"activate", "rearm"}
    BY Known, InQueue DEF ControlEnds, flagVars, Holder
  <2>2. /\ step' # "control" /\ Head(lock) \in Kinds \ {"loss"}
        /\ lock' = lock \/ Head(lock) \in {"activate", "rearm", "stop"}
    BY Known DEF ControlEnds, Leave, GoTo, Held, Holder, Clears, Kinds, Loops
  <2>3. Late => Late'
    BY <1>1, <2>1, <2>2 DEF Late, Waiting, Less
  <2>4. CASE Head(lock) = "activate"
    BY Known, <2>1, <2>2, <2>3, <2>4
       DEF ControlEnds, OwnerInv, StoredInv, RunInv, WantedInv, Waiting, Held, Holder, Decide,
           ghosts
  <2>5. CASE Head(lock) = "rearm"
    BY Known, <2>1, <2>2, <2>3, <2>5, InQueue
       DEF ControlEnds, OwnerInv, StoredInv, RunInv, WantedInv, Unread, Waiting, Held, Holder,
           ghosts
  <2>6. CASE Head(lock) \in {"deactivate", "override"}
    BY Known, <2>1, <2>2, <2>3, <2>6
       DEF ControlEnds, OwnerInv, StoredInv, RunInv, WantedInv, Before, Calls, Unread, Waiting,
           Held, Holder, Decide, ghosts
  <2>7. CASE Head(lock) \in {"stop", "quiesce"} \cup Clears
    BY Known, <2>1, <2>2, <2>3, <2>7, InQueue
       DEF ControlEnds, OwnerInv, WantedInv, Unread, Held, Holder, Clears, Loops, ghosts
  <2>8. QED
    BY <2>2, <2>4, <2>5, <2>6, <2>7 DEF Kinds, Clears, Loops
<1>8. QED
  BY <1>2, <1>3, <1>4, <1>5, <1>6, <1>7 DEF OwnerInv

LEMMA UndoOwner ==
  ASSUME GateInv, OwnerInv, NEW ok \in BOOLEAN, Undone(ok)
  PROVE  OwnerInv'
<1>1. lock' = lock \/ (step' = "begin" /\ Less(lock, lock'))
  <2>1. lock # <<>> /\ (lock' = lock \/ (step' = "begin" /\ lock' = Tail(lock)))
    BY Known DEF Undone, Leave, Decide, lockVars
  <2>2. QED
    BY Known, <2>1, Shrunk
<1>2. KindInv'
  BY Known, <1>1, InQueue, Emptied
     DEF OwnerInv, KindInv, envVars, flagVars, lockVars, Undone, Succeeds, Leave
<1>3. StoredInv'
  BY Known, <1>1, InQueue, Emptied
     DEF OwnerInv, StoredInv, envVars, flagVars, lockVars, Undone, Succeeds, Leave
<1>4. RunInv'
  BY Known, <1>1 DEF OwnerInv, RunInv, Waiting, More, Less, envVars, flagVars, lockVars, Undone
<1>5. AskInv'
  BY Known, <1>1
     DEF OwnerInv, AskInv, Waiting, More, Less, Loops, envVars, flagVars, lockVars, Undone
<1>6. ClearInv'
  BY Known, <1>1
     DEF OwnerInv, ClearInv, Serves, Past, Waiting, More, Less, Held, Holder, flagVars, lockVars,
         ghosts, Undone, Succeeds, Leave, Decide
<1>7. WantedInv'
  BY Known, <1>1, InQueue, Emptied
     DEF OwnerInv, KindInv, StoredInv, WantedInv, Waiting, Late, More, Less, Held, Holder,
         envVars, flagVars, lockVars, ghosts, Undone, Succeeds, Leave, Decide
<1>8. QED
  BY <1>2, <1>3, <1>4, <1>5, <1>6, <1>7 DEF OwnerInv

LEMMA HandoffOwner ==
  ASSUME GateInv, OwnerInv, NEW a, Handoff(a)
  PROVE  OwnerInv'
<1>1. lock' = lock \/ (step' = "begin" /\ Less(lock, lock'))
  <2>1. lock # <<>> /\ (lock' = lock \/ (step' = "begin" /\ lock' = Tail(lock)))
    BY Known DEF Handoff, GoTo, Yielded, Clears, lockVars
  <2>2. QED
    BY Known, <2>1, Shrunk
<1>2. KindInv'
  BY Known, <1>1 DEF OwnerInv, KindInv, Holder, Loops, Handoff, GoTo, Yielded
<1>3. StoredInv'
  BY Known, <1>1, InQueue, Emptied
     DEF OwnerInv, StoredInv, Unread, More, Less, Held, Holder, envVars, flagVars, lockVars,
         Handoff, GoTo, Yielded, Clears
<1>4. RunInv'
  BY Known, <1>1, InQueue, Emptied
     DEF OwnerInv, RunInv, Unread, Waiting, Less, Held, Holder, Loops, envVars, flagVars,
         lockVars, Before, Handoff, GoTo, Yielded
<1>5. AskInv'
  BY Known, <1>1, InQueue, Emptied
     DEF OwnerInv, AskInv, Waiting, More, Less, Held, Holder, Loops, envVars, flagVars, lockVars,
         Handoff, GoTo, Yielded
<1>6. ClearInv'
  BY Known, <1>1
     DEF OwnerInv, ClearInv, Serves, Past, Waiting, More, Less, Held, Holder, flagVars, lockVars,
         ghosts, Handoff, GoTo, Yielded
<1>7. WantedInv'
  BY Known, <1>1, InQueue, Emptied
     DEF OwnerInv, KindInv, StoredInv, WantedInv, Unread, Calls, Waiting, Late, More, Less, Held,
         Holder, envVars, flagVars, lockVars, ghosts, Handoff, GoTo, Yielded, Clears
<1>8. QED
  BY <1>2, <1>3, <1>4, <1>5, <1>6, <1>7 DEF OwnerInv

LEMMA CommandOwner ==
  ASSUME GateInv, OwnerInv, NEW ok \in BOOLEAN, CommandEnds(ok)
  PROVE  OwnerInv'
<1>1. \/ lock' = lock
      \/ step' = "begin" /\ Less(lock, lock')
      \/ /\ step' = "begin" /\ Held("quiesce")
         /\ Less(lock, Tail(lock)) /\ More(Tail(lock), lock', "rearm")
  <2>1. /\ lock # <<>> /\ Tail(lock) \in Seq(Kinds)
        /\ \/ lock' = lock
           \/ step' = "begin" /\ lock' = Tail(lock)
           \/ step' = "begin" /\ Held("quiesce") /\ lock' = Append(Tail(lock), "rearm")
    BY Known DEF CommandEnds, Succeeds, Yielded, Clears
  <2>2. QED
    BY Known, <2>1, Shrunk, Grown DEF Kinds
<1>2. KindInv'
  BY Known, <1>1, InQueue, Emptied
     DEF OwnerInv, KindInv, envVars, flagVars, lockVars, CommandEnds, Succeeds, Yielded
<1>3. StoredInv'
  BY Known, <1>1, InQueue, Emptied
     DEF OwnerInv, StoredInv, Unread, More, Less, Held, Holder, envVars, flagVars, lockVars,
         CommandEnds, Succeeds, Yielded, Clears
<1>4. RunInv'
  BY Known, <1>1, InQueue, Emptied
     DEF OwnerInv, RunInv, Unread, Waiting, Late, More, Less, Held, Holder, Loops, envVars,
         flagVars, lockVars, Before, CommandEnds, Succeeds, Yielded
<1>5. AskInv'
  BY Known, <1>1, InQueue, Emptied
     DEF OwnerInv, AskInv, Waiting, More, Less, Held, Holder, Loops, envVars, flagVars, lockVars,
         CommandEnds, Succeeds, Yielded
<1>6. ClearInv'
  BY Known, <1>1
     DEF OwnerInv, ClearInv, Serves, Past, Waiting, More, Less, Held, Holder, flagVars, lockVars,
         ghosts, CommandEnds, Succeeds, Yielded
<1>7. WantedInv'
  BY Known, <1>1, InQueue, Emptied
     DEF OwnerInv, KindInv, StoredInv, WantedInv, Unread, Calls, Waiting, Late, More, Less, Held,
         Holder, envVars, flagVars, lockVars, ghosts, CommandEnds, Succeeds, Yielded, Clears
<1>8. QED
  BY <1>2, <1>3, <1>4, <1>5, <1>6, <1>7 DEF OwnerInv

(* The end of a clear: of a loop's attempt, of the last one of a disabled  *)
(* entry, or of the last one of a stop.                                    *)
LEMMA ClearOwner ==
  ASSUME GateInv, OwnerInv, NEW ok \in BOOLEAN, ClearEnds(ok)
  PROVE  OwnerInv'
<1>1. /\ LockInv /\ StateInv /\ lock \in Seq(Kinds) /\ lock # <<>>
      /\ Head(lock) \in Clears /\ Tail(lock) \in Seq(Kinds)
  BY GateParts DEF LockInv, ClearEnds, Holder
<1>2. /\ step = "clear" /\ step' = "begin"
      /\ store' = IF ok THEN "none" ELSE store
      /\ UNCHANGED <<active, started, restore, down, owner>>
      /\ excused' = (excused \/ (required' /\ Held("final")) \/ (~required /\ Holder \in Loops))
  BY DEF ClearEnds
<1>3. CASE Head(lock) \in Loops
  <2> DEFINE l == Head(lock)
  <2>1. /\ UNCHANGED <<entry, terminal, gen>>
        /\ \/ loop' = [loop EXCEPT ![l].at = "done"] /\ lock' = Tail(lock)
           \/ loop' = [loop EXCEPT ![l].at = "failed"] /\ lock' = Tail(lock)
           \/ loop' = [loop EXCEPT ![l].at = "asleep"] /\ lock' = Tail(lock)
           \/ /\ loop' = [loop EXCEPT ![l] = [at |-> "asking", gen |-> gen, attempt |-> 1]]
              /\ lock' = Append(Tail(lock), l)
        /\ required' => required
        /\ required /\ ~required' => ok /\ loop[l].gen = gen
        /\ ~ok => required' = required
        /\ gate => gate'
    <3>1. /\ UNCHANGED <<entry, terminal, gen>> /\ required \in BOOLEAN /\ gate \in BOOLEAN
      BY <1>1, <1>3 DEF ClearEnds, Holder, Loops, StateInv, FlagTypes
    <3>2. required' = (required /\ ~(ok /\ ~err /\ loop[l].gen = gen))
      BY <1>3 DEF ClearEnds, Served, Holder, Loops
    <3>3. \/ /\ \/ loop' = [loop EXCEPT ![l].at = "failed"]
                \/ loop' = [loop EXCEPT ![l].at = "asleep"]
             /\ lock' = Tail(lock) /\ gate' = gate
          \/ /\ loop' = [loop EXCEPT ![l].at = "done"]
             /\ lock' = Tail(lock) /\ (gate => gate')
          \/ /\ loop' = [loop EXCEPT ![l] = [at |-> "asking", gen |-> gen, attempt |-> 1]]
             /\ lock' = Append(Tail(lock), l) /\ gate' = gate
      BY <1>3, <3>1 DEF ClearEnds, Served, Turn, Holder, Loops
    <3>4. QED
      BY <3>1, <3>2, <3>3
  <2>2. \/ Less(lock, lock')
        \/ Less(lock, Tail(lock)) /\ More(Tail(lock), lock', l) /\ loop'[l].at = "asking" /\ loop'[l].gen = gen
    <3>1. Less(lock, Tail(lock)) /\ More(Tail(lock), Append(Tail(lock), l), l)
      BY <1>1, <1>3, Shrunk, Grown DEF Loops, Kinds
    <3>2. CASE lock' = Tail(lock)
      BY <3>1, <3>2
    <3>3. CASE /\ loop' = [loop EXCEPT ![l] = [at |-> "asking", gen |-> gen, attempt |-> 1]]
               /\ lock' = Append(Tail(lock), l)
      <4>1. l \in DOMAIN loop
        BY <1>1, <1>3 DEF StateInv, LoopInv
      <4>2. QED
        BY <3>1, <3>3, <4>1
    <3>4. QED
      BY <2>1, <3>2, <3>3
  <2> HIDE DEF l
  <2>3. l \in Loops /\ In(lock, l) /\ Held(l) /\ l = Head(lock)
    BY <1>1, <1>3, InQueue DEF l, Held, Holder
  <2>4. loop[l].at = "asking" /\ ~Ahead(lock, l, l)
    BY <2>3 DEF OwnerInv, AskInv, Waiting
  <2>5. /\ \A k : k # l => (In(lock', k) <=> In(lock, k))
        /\ \A k, m : Ahead(lock', k, m) => k # l /\ (Ahead(lock, k, m) \/ (m = l /\ In(lock, k)))
        /\ \A m : m # l /\ In(lock', m) => Ahead(lock, l, m)
        /\ In(lock', l) => loop'[l].at = "asking"
    <3>1. CASE Less(lock, lock')
      BY <2>3, <2>4, <3>1, AheadIn DEF Less
    <3>2. CASE /\ Less(lock, Tail(lock)) /\ More(Tail(lock), lock', l)
               /\ loop'[l].at = "asking"
      <4>1. ~In(Tail(lock), l) /\ \A m : ~Ahead(Tail(lock), l, m)
        BY <2>3, <2>4, <3>2, AheadIn DEF Less
      <4>2. QED
        BY <2>3, <3>2, <4>1 DEF Less, More
    <3>3. QED
      BY <2>2, <3>1, <3>2
  <2>6. /\ \A k \in Loops : k # l => loop'[k] = loop[k]
        /\ loop'[l].at # "none" /\ (loop'[l].gen = loop[l].gen \/ loop'[l].gen = gen)
    BY <1>1, <2>1, <2>3 DEF l, StateInv, LoopInv, LoopStates, FlagTypes
  <2>7. KindInv' /\ StoredInv'
    BY <1>2, <2>1 DEF OwnerInv, KindInv, StoredInv
  <2>8. RunInv'
    BY <1>2, <2>1, <2>3, <2>5 DEF OwnerInv, RunInv, Calls, Waiting, Loops
  <2>9. AskInv'
    BY <1>1, <1>2, <2>1, <2>3, <2>4, <2>5, <2>6
       DEF OwnerInv, AskInv, Waiting, Loops, StateInv, FlagTypes
  <2>10. ~excused' => ~excused /\ required
    BY <1>2, <1>3 DEF Holder
  <2>11. required /\ ~required' => Serves(l) /\ store' = "none"
    BY <1>2, <2>1 DEF Serves
  <2>12. ClearInv'
    BY <1>2, <2>1, <2>3, <2>5, <2>6, <2>10, <2>11
       DEF OwnerInv, ClearInv, Serves, Past, Waiting, Loops
  <2>13. WantedInv'
    BY <1>2, <2>1, <2>3, <2>10, <2>11 DEF OwnerInv, ClearInv, WantedInv, Past
  <2>14. QED
    BY <2>7, <2>8, <2>9, <2>12, <2>13 DEF OwnerInv
<1>4. CASE Head(lock) \in {"terminal", "final"}
  <2>1. Less(lock, lock')
    BY <1>1, <1>4, Shrunk DEF ClearEnds, Holder, Loops
  <2>2. Held(Head(lock)) /\ In(lock, Head(lock))
    BY <1>1, InQueue DEF Held, Holder
  <2>3. /\ gate' = gate /\ terminal' = terminal /\ gen' = gen
        /\ loop' = loop \/ (loop["cleanup"].at = "none" /\ loop' = Scheduled)
        /\ required' => required \/ Head(lock) = "terminal"
        /\ ~required' /\ required => ok
    BY <1>1, <1>4 DEF ClearEnds, Holder, Loops, CanSchedule, StateInv, FlagTypes
  <2>4. \/ Head(lock) = "terminal" /\ entry = "disabling" /\ entry' = "stopping" /\ (~ok => required')
        \/ Head(lock) = "final" /\ entry = "finishing" /\ entry' = "silencing" /\ loop' = loop
    BY <1>1, <1>4, <2>2, InQueue DEF ClearEnds, Holder, Loops
  <2>5. Head(lock) = "terminal" /\ ~excused => required
    BY <2>2 DEF OwnerInv, ClearInv, Waiting
  <2>6. Head(lock) = "final" /\ ~excused => required \/ (store # "on" /\ ~In(lock, "activate"))
    BY <2>2 DEF OwnerInv, ClearInv, Waiting
  <2>7. ~excused' => ~excused /\ (Head(lock) = "final" => ~required')
    BY <1>1, <1>2 DEF Held, Holder
  <2>8. /\ \A k : In(lock', k) => In(lock, k)
        /\ \A k, m : Ahead(lock', k, m) => Ahead(lock, k, m)
    BY <2>1 DEF Less
  <2>9. /\ \A k \in Loops : loop'[k] = loop[k] \/ loop[k].at = "none"
        /\ \A k \in Loops : loop'[k] # loop[k] => k = "cleanup" /\ loop'[k].gen = 0
    BY <1>1, <2>3 DEF Scheduled, Begun, Loops, StateInv, LoopInv
  <2>10. KindInv' /\ StoredInv'
    BY <1>2, <2>3, <2>4 DEF OwnerInv, KindInv, StoredInv, Unread
  <2>11. RunInv'
    BY <1>2, <2>3, <2>4, <2>8 DEF OwnerInv, RunInv, Calls, Waiting, Before
  <2>12. AskInv'
    BY <1>1, <1>2, <2>3, <2>4, <2>8, <2>9
       DEF OwnerInv, AskInv, Waiting, Loops, StateInv, FlagTypes
  <2>13. ClearInv'
    <3> SUFFICES ASSUME ~excused' PROVE ClearInv'
      BY DEF ClearInv
    <3>1. \A k \in Loops : loop[k].at = "none" => ~In(lock, k) /\ \A m : ~Ahead(lock, k, m)
      BY AheadIn DEF OwnerInv, AskInv, Waiting
    <3>2. ASSUME NEW k \in Loops, Ahead(lock', k, "activate") \/ Ahead(lock', k, "terminal")
          PROVE  ~Serves(k)'
      <4>1. ~Serves(k) /\ loop'[k] = loop[k]
        BY <2>7, <2>8, <2>9, <3>1, <3>2 DEF OwnerInv, ClearInv
      <4>2. required' => required
        BY <2>3, <2>5, <2>7
      <4>3. QED
        BY <2>3, <4>1, <4>2 DEF Serves
    <3>3. ~In(lock', "terminal") /\ ~In(lock', "final")
      <4>1. lock' = Tail(lock)
        BY <1>1, <1>4 DEF ClearEnds, Holder, Loops
      <4>2. Free(Tail(lock))
        BY <1>1, <1>4, Left DEF LockInv, Own
      <4>3. QED
        BY <4>1, <4>2 DEF Free, In, Own
    <3>4. entry' \in {"silencing", "halting", "closing"} => ~required'
      BY <2>4, <2>7
    <3>5. QED
      BY <1>2, <3>2, <3>3, <3>4 DEF ClearInv, Past, Waiting
  <2>14. WantedInv'
    <3> SUFFICES ASSUME ~excused' PROVE WantedInv'
      BY DEF WantedInv
    <3>1. store' = "on" => store = "on" /\ required'
      BY <1>2, <2>3, <2>4, <2>6, <2>7
    <3>2. active' => required' \/ (gate' /\ owner' = "policy") \/ (~started' /\ store' # "on")
      BY <1>2, <2>2, <2>3, <2>4, <2>5, <2>6, <2>7 DEF OwnerInv, ClearInv, WantedInv, Past
    <3>3. QED
      BY <1>2, <2>4, <2>7, <3>1, <3>2 DEF OwnerInv, WantedInv, Unread
  <2>15. QED
    BY <2>10, <2>11, <2>12, <2>13, <2>14 DEF OwnerInv
<1>5. QED
  BY <1>1, <1>3, <1>4 DEF Clears, Loops

-----------------------------------------------------------------------------
(* Every step keeps the invariant of the memory.                           *)

LEMMA ActivateMemory ==
  ASSUME GateInv, OwnerInv, MemoryInv, Activate
  PROVE  MemoryInv'
<1>1. step' = step /\ More(lock, lock', "activate")
  BY Known, Grown DEF Activate, Spend, Request, Serving, Kinds, Loops, lockVars
<1>2. FaultlessInv'
  BY Known, <1>1
     DEF MemoryInv, FaultlessInv, OwnerInv, Waiting, More, Less, flagVars, lockVars, Activate,
         Spend, Request, Serving
<1>3. AgreeInv'
  BY Known, <1>1
     DEF MemoryInv, AgreeInv, Going, Kept, OwnerInv, Waiting, Late, More, Less, Held, Holder,
         vars, envVars, flagVars, lockVars, ghosts, Activate, Spend
<1>4. QED
  BY <1>2, <1>3 DEF MemoryInv

LEMMA YieldMemory ==
  ASSUME GateInv, OwnerInv, MemoryInv, NEW k, Yield(k)
  PROVE  MemoryInv'
<1>1. step' = step /\ More(lock, lock', k)
  BY Known, Grown DEF Yield, Spend, Request, Serving, Kinds, Loops, lockVars
<1>2. FaultlessInv'
  BY Known, <1>1
     DEF MemoryInv, FaultlessInv, OwnerInv, Waiting, More, Less, flagVars, lockVars, Yield, Spend,
         Request, Serving
<1>3. AgreeInv'
  BY Known, <1>1
     DEF MemoryInv, AgreeInv, Going, Kept, OwnerInv, Waiting, Late, More, Less, Held, Holder,
         vars, envVars, flagVars, lockVars, ghosts, Yield, Spend
<1>4. QED
  BY <1>2, <1>3 DEF MemoryInv

LEMMA PhysicalMemory ==
  ASSUME GateInv, OwnerInv, MemoryInv, PhysicalOverride
  PROVE  MemoryInv'
<1>1. step' = step /\ (lock' = lock \/ More(lock, lock', "loss"))
  <2>1. step' = step /\ (lock' = lock \/ lock' = Append(lock, "loss"))
    BY DEF PhysicalOverride, Decide, Request, Suppressed, lockVars
  <2>2. QED
    BY Known, <2>1, Grown DEF Kinds, Loops
<1>2. FaultlessInv'
  BY Known, <1>1
     DEF MemoryInv, FaultlessInv, OwnerInv, Waiting, More, Less, flagVars, lockVars,
         PhysicalOverride, Spend, Decide, Request
<1>3. AgreeInv'
  <2>1. CASE Suppressed
    <3>1. lock # <<>> /\ step = "control" /\ lock' = lock /\ step' = step
      BY <2>1 DEF PhysicalOverride, Suppressed, lockVars
    <3>2. Head(lock) \in Kinds \ {"activate", "rearm", "loss"}
      BY Known, <2>1 DEF Suppressed, Holder
    <3>3. active /\ entry \notin Unread
      BY DEF PhysicalOverride, OwnerInv, RunInv, Before, Unread
    <3>4. entry \in Going /\ store = "on" => required \/ Late
      BY Known, <3>1, <3>2, <3>3, InQueue
         DEF OwnerInv, StoredInv, Going, Held, Holder, Kinds, Late, Waiting
    <3>5. QED
      BY <3>1, <3>2, <3>3, <3>4
         DEF PhysicalOverride, Decide, MemoryInv, AgreeInv, Kept, Waiting, Late, More, Less, Held,
             Holder, vars, envVars, flagVars, lockVars, ghosts
  <2>2. CASE ~Suppressed
    <3>1. step' = step /\ More(lock, lock', "loss")
      BY Known, <2>2, Grown DEF PhysicalOverride, Request, Kinds
    <3>2. QED
      BY <3>1
         DEF PhysicalOverride, Decide, MemoryInv, AgreeInv, Kept, Waiting, Late, More, Less, Held,
             Holder, vars, envVars, flagVars, lockVars, ghosts
  <2>3. QED
    BY <2>1, <2>2
<1>4. QED
  BY <1>2, <1>3 DEF MemoryInv

LEMMA ReloadMemory ==
  ASSUME GateInv, OwnerInv, MemoryInv, Reload
  PROVE  MemoryInv'
<1>1. lock' = lock /\ step' = step
  BY DEF Reload, Spend, lockVars
<1>2. FaultlessInv'
  BY DEF MemoryInv, FaultlessInv, OwnerInv, Waiting, flagVars, lockVars, Reload, Spend
<1>3. AgreeInv'
  BY Known, <1>1
     DEF MemoryInv, AgreeInv, Going, Kept, Held, Holder, flagVars, lockVars, ghosts, Reload
<1>4. QED
  BY <1>2, <1>3 DEF MemoryInv

LEMMA EnableMemory ==
  ASSUME GateInv, OwnerInv, MemoryInv, Enable
  PROVE  MemoryInv'
<1>1. lock' = lock /\ step' = step
  BY DEF Enable, Spend, lockVars
<1>2. FaultlessInv'
  BY DEF MemoryInv, FaultlessInv, OwnerInv, Waiting, flagVars, lockVars, Enable, Spend
<1>3. AgreeInv'
  BY Known, <1>1
     DEF MemoryInv, AgreeInv, Going, Kept, Held, Holder, flagVars, lockVars, ghosts, Enable
<1>4. QED
  BY <1>2, <1>3 DEF MemoryInv

LEMMA EditMemory ==
  ASSUME GateInv, OwnerInv, MemoryInv, Edit
  PROVE  MemoryInv'
<1>1. step' = step /\ More(lock, lock', "quiesce")
  BY Known, Grown DEF Edit, Spend, Request, Kinds
<1>2. FaultlessInv'
  BY Known, <1>1
     DEF MemoryInv, FaultlessInv, OwnerInv, Waiting, More, Less, flagVars, lockVars, Edit, Spend,
         Request
<1>3. AgreeInv'
  BY Known, <1>1
     DEF MemoryInv, AgreeInv, Going, Kept, Held, Holder, flagVars, lockVars, ghosts, Edit, Spend,
         Request
<1>4. QED
  BY <1>2, <1>3 DEF MemoryInv

LEMMA DisableMemory ==
  ASSUME GateInv, OwnerInv, MemoryInv, Disable
  PROVE  MemoryInv'
<1>1. step' = step /\ More(lock, lock', "terminal")
  BY Known, Grown DEF Disable, Spend, Request, Decide, Kinds, Loops, lockVars
<1>2. FaultlessInv'
  BY Known, <1>1, InQueue, Emptied
     DEF MemoryInv, FaultlessInv, OwnerInv, Waiting, More, lockVars, ghosts, StateInv, EnvTypes,
         FlagTypes, Disable, Spend, Request
<1>3. AgreeInv'
  BY Known, <1>1 DEF MemoryInv, AgreeInv, Going, Kept, OwnerInv, Disable
<1>4. QED
  BY <1>2, <1>3 DEF MemoryInv

LEMMA SwitchMemory ==
  ASSUME GateInv, OwnerInv, MemoryInv, SwitchChanges \/ SwitchFollowsEntry
  PROVE  MemoryInv'
<1>1. \A l \in Loops : loop'[l] = loop[l] \/ (loop[l].at = "none" /\ loop'[l].at = "created")
  BY SwitchDoes DEF Scheduled, Begun, Loops
<1>2. (clear'.attempt > 0 => clear'.gen > 0) /\ (clear'.gen = clear.gen \/ clear'.gen > 0)
  <2>1. clear.gen \in Nat /\ (clear.attempt > 0 => clear.gen > 0)
    BY Known DEF MemoryInv, FaultlessInv, StateInv, EnvTypes
  <2>2. clear' = clear \/ clear'.gen = clear.gen + 1
    BY Known DEF SwitchChanges, SwitchFollowsEntry, StateInv, EnvTypes
  <2>3. QED
    BY <2>1, <2>2
<1>3. served \in Nat
  BY Known DEF StateInv, FlagTypes
<1>4. FaultlessInv'
  <2>1. required' /\ started => \/ loop'["cleanup"].at # "none"
                                \/ UNCHANGED <<required, gen, loop>>
    BY SwitchDoes
  <2>2. /\ loop["cleanup"].at # "none" => loop'["cleanup"].at # "none"
        /\ loop["startup"].at = "asking" => loop'["startup"].at = "asking"
    BY <1>1 DEF Loops
  <2>3. served <= gen /\ (required => served < gen)
          => served' <= gen' /\ (required' => served' < gen')
    BY <1>3, SwitchDoes
  <2>4. QED
    BY <1>1, <1>2, <2>1, <2>2, <2>3, SwitchDoes DEF MemoryInv, FaultlessInv, Waiting
<1>5. AgreeInv'
  <2>1. restore /\ entry \in Going /\ ~excused => ~active
    BY DEF OwnerInv, WantedInv, Going, Unread
  <2>2. CASE UNCHANGED <<owner, excused>> /\ (required' <=> required)
    BY <1>2, <2>2, SwitchDoes DEF MemoryInv, AgreeInv, Kept, Held, Holder, Waiting, Late
  <2>3. CASE (excused' <=> excused \/ entry = "editing" \/ (restore /\ ~active))
    BY <1>2, <2>1, <2>3, SwitchDoes DEF MemoryInv, AgreeInv, Kept, Held, Holder, Waiting, Late
  <2>4. QED
    BY <2>2, <2>3, SwitchDoes
<1>6. QED
  BY <1>4, <1>5 DEF MemoryInv


LEMMA RequiredClearMemory ==
  ASSUME GateInv, OwnerInv, MemoryInv, NEW ok \in BOOLEAN, RequiredClear(ok)
  PROVE  MemoryInv'
<1>1. lock' = lock /\ step' = step
  BY DEF RequiredClear, Succeeds, lockVars
<1>2. FaultlessInv'
  BY Known, <1>1, InQueue, Emptied
     DEF MemoryInv, FaultlessInv, OwnerInv, Waiting, flagVars, lockVars, ghosts, StateInv,
         EnvTypes, FlagTypes, RequiredClear, Succeeds
<1>3. AgreeInv'
  BY Known, <1>1, InQueue, Emptied
     DEF MemoryInv, FaultlessInv, AgreeInv, Going, Kept, flagVars, lockVars, ghosts, StateInv,
         EnvTypes, Before, RequiredClear, Succeeds
<1>4. QED
  BY <1>2, <1>3 DEF MemoryInv

LEMMA SetupMemory ==
  ASSUME GateInv, OwnerInv, MemoryInv, Setup
  PROVE  MemoryInv'
<1>1. lock' = lock /\ step' = step
  BY DEF Setup, lockVars
<1>2. FaultlessInv'
  <2>1. clear'.attempt > 0 => clear'.gen > 0
    <3>1. clear \in [gen : Nat, served : Nat, target : Nat, attempt : 0 .. Attempts]
      BY Known DEF StateInv, EnvTypes
    <3>2. CASE clear' = clear
      BY <3>2 DEF MemoryInv, FaultlessInv
    <3>3. CASE clear.served < clear.gen /\ clear' = [clear EXCEPT !.attempt = 1, !.target = clear.gen]
      <4>1. clear'.gen = clear.gen
        BY <3>1, <3>3
      <4>2. clear.gen > 0
        BY <3>1, <3>3
      <4>3. QED
        BY <4>1, <4>2
    <3>4. QED
      BY <3>2, <3>3 DEF Setup
  <2>2. QED
    BY <1>1, <2>1 DEF Setup, MemoryInv, FaultlessInv, Waiting, flagVars, lockVars, ghosts
<1>3. AgreeInv'
  BY Known, <1>1, InQueue, Emptied
     DEF MemoryInv, AgreeInv, Going, StateInv, BlankInv, Before, Setup
<1>4. QED
  BY <1>2, <1>3 DEF MemoryInv

LEMMA SettledMemory ==
  ASSUME GateInv, OwnerInv, MemoryInv, Settled
  PROVE  MemoryInv'
<1>1. lock' = lock /\ step' = step
  BY DEF Settled, Loops, lockVars
<1>2. FaultlessInv'
  BY DEF MemoryInv, FaultlessInv, OwnerInv, Waiting, Loops, envVars, flagVars, lockVars, Settled
<1>3. AgreeInv'
  BY Known, <1>1
     DEF MemoryInv, AgreeInv, Going, Kept, Held, Holder, vars, envVars, flagVars, lockVars,
         ghosts, Settled
<1>4. QED
  BY <1>2, <1>3 DEF MemoryInv

LEMMA LoadedMemory ==
  ASSUME GateInv, OwnerInv, MemoryInv, NEW ok \in BOOLEAN, Loaded(ok)
  PROVE  MemoryInv'
<1>1. lock' = lock /\ step' = step
  BY DEF Loaded, Loops, lockVars
<1>2. FaultlessInv'
  BY Known, <1>1, InQueue, Emptied
     DEF MemoryInv, FaultlessInv, OwnerInv, Waiting, envVars, flagVars, lockVars, ghosts,
         StateInv, EnvTypes, LoopStates, Loaded, Succeeds, Decide
<1>3. AgreeInv'
  BY Known, <1>1, InQueue, Emptied
     DEF AgreeInv, Going, Kept, OwnerInv, RunInv, ghosts, StateInv, EnvTypes, FlagTypes, LoopInv,
         LoopStates, BlankInv, GateIsSafe, Before, Loaded, Succeeds
<1>4. QED
  BY <1>2, <1>3 DEF MemoryInv

LEMMA CreatedMemory ==
  ASSUME GateInv, OwnerInv, MemoryInv, Created
  PROVE  MemoryInv'
<1>1. lock' = lock /\ step' = step
  BY DEF Created, SetAllowed, Decide, Loops, lockVars
<1>2. FaultlessInv'
  BY Known, <1>1
     DEF MemoryInv, FaultlessInv, Waiting, Created, SetAllowed, CanSchedule, Scheduled, Begun,
         StateInv, FlagTypes, LoopInv, LoopStates, BlankInv, NoLoop, Loops, flagVars, envVars,
         lockVars
<1>3. AgreeInv'
  BY Known, <1>1
     DEF MemoryInv, AgreeInv, Going, Kept, OwnerInv, RunInv, WantedInv, Unread, Before, Waiting,
         Late, Held, Holder, Created, SetAllowed, Decide, envVars, flagVars, lockVars, ghosts
<1>4. QED
  BY <1>2, <1>3 DEF MemoryInv

LEMMA ClearedMemory ==
  ASSUME GateInv, OwnerInv, MemoryInv, NEW ok \in BOOLEAN, Cleared(ok)
  PROVE  MemoryInv'
<1>1. lock' = lock /\ step' = step
  BY DEF Cleared, lockVars
<1>2. FaultlessInv'
  BY Known, <1>1, InQueue, Emptied
     DEF MemoryInv, FaultlessInv, OwnerInv, Waiting, envVars, flagVars, lockVars, ghosts,
         StateInv, EnvTypes, LoopStates, Cleared, Succeeds
<1>3. AgreeInv'
  BY Known, <1>1, InQueue, Emptied
     DEF MemoryInv, AgreeInv, Going, Kept, OwnerInv, RunInv, Calls, Waiting, Less, Held, Holder,
         vars, lockVars, ghosts, Before, Cleared, Succeeds
<1>4. QED
  BY <1>2, <1>3 DEF MemoryInv

LEMMA StartBeginsMemory ==
  ASSUME GateInv, OwnerInv, MemoryInv, StartBegins
  PROVE  MemoryInv'
<1>1. step' = step /\ (lock' = lock \/ More(lock, lock', "startup"))
  <2>1. step' = step /\ (lock' = lock \/ lock' = Append(lock, "startup"))
    BY DEF StartBegins, Turn
  <2>2. QED
    BY Known, <2>1, Grown DEF Kinds, Loops
<1>2. FaultlessInv'
  BY Known, <1>1, InQueue, Emptied
     DEF MemoryInv, FaultlessInv, AgreeInv, OwnerInv, KindInv, StoredInv, RunInv, AskInv, Waiting,
         More, Loops, vars, envVars, flagVars, StateInv, EnvTypes, FlagTypes, LoopInv,
         StartBegins, Turn
<1>3. AgreeInv'
  BY Known, <1>1
     DEF MemoryInv, AgreeInv, OwnerInv, StoredInv, Unread, Going, Kept, Waiting, Late, More, Held,
         Holder, StartBegins, Turn, Restoring, envVars, flagVars, ghosts
<1>4. QED
  BY <1>2, <1>3 DEF MemoryInv

LEMMA StartCleanedMemory ==
  ASSUME GateInv, OwnerInv, MemoryInv, StartCleaned
  PROVE  MemoryInv'
<1>1. lock' = lock /\ step' = step
  BY DEF StartCleaned, Loops, lockVars
<1>2. FaultlessInv'
  BY Known, <1>1
     DEF MemoryInv, FaultlessInv, OwnerInv, Waiting, Loops, envVars, flagVars, lockVars,
         StartCleaned, Restoring, NoLoop
<1>3. AgreeInv'
  BY Known, <1>1
     DEF MemoryInv, AgreeInv, OwnerInv, StoredInv, Unread, Going, Kept, Waiting, Late, Held,
         Holder, StartCleaned, Restoring, envVars, flagVars, lockVars, ghosts
<1>4. QED
  BY <1>2, <1>3 DEF MemoryInv

LEMMA RestoredMemory ==
  ASSUME GateInv, OwnerInv, MemoryInv, Restored
  PROVE  MemoryInv'
<1>1. lock' = lock /\ step' = step
  BY DEF Restored, Loops, lockVars
<1>2. FaultlessInv'
  BY DEF MemoryInv, FaultlessInv, OwnerInv, Waiting, Loops, envVars, flagVars, lockVars, Restored
<1>3. AgreeInv'
  BY Known, <1>1, InQueue, Emptied
     DEF MemoryInv, FaultlessInv, AgreeInv, Going, Kept, OwnerInv, WantedInv, vars, envVars,
         flagVars, lockVars, ghosts, Restored
<1>4. QED
  BY <1>2, <1>3 DEF MemoryInv

LEMMA ConnectedMemory ==
  ASSUME GateInv, OwnerInv, MemoryInv, NEW ok \in BOOLEAN, Connected(ok)
  PROVE  MemoryInv'
<1>1. lock' = lock /\ step' = step
  BY DEF Connected, lockVars
<1>2. FaultlessInv'
  BY Known, <1>1, InQueue, Emptied
     DEF MemoryInv, FaultlessInv, OwnerInv, RunInv, Waiting, More, envVars, flagVars, lockVars,
         ghosts, StateInv, EnvTypes, Connected, Succeeds
<1>3. AgreeInv'
  BY Known, <1>1, InQueue, Emptied
     DEF MemoryInv, AgreeInv, Going, Kept, OwnerInv, Waiting, Late, More, Less, Held, Holder,
         vars, envVars, flagVars, lockVars, ghosts, StateInv, EnvTypes, Connected, Succeeds
<1>4. QED
  BY <1>2, <1>3 DEF MemoryInv

LEMMA StopBeginsMemory ==
  ASSUME GateInv, OwnerInv, MemoryInv, StopBegins
  PROVE  MemoryInv'
<1>1. lock' = lock /\ step' = step
  BY DEF StopBegins, Loops, lockVars
<1>2. FaultlessInv'
  BY DEF MemoryInv, FaultlessInv, OwnerInv, Waiting, Loops, envVars, flagVars, lockVars,
         StopBegins
<1>3. AgreeInv'
  BY Known, <1>1
     DEF MemoryInv, AgreeInv, Going, Kept, Held, Holder, vars, envVars, flagVars, lockVars,
         ghosts, StopBegins
<1>4. QED
  BY <1>2, <1>3 DEF MemoryInv

LEMMA StopClearsMemory ==
  ASSUME GateInv, OwnerInv, MemoryInv, StopClears
  PROVE  MemoryInv'
<1>1. step' = step /\ (lock' = lock \/ More(lock, lock', "final"))
  <2>1. step' = step /\ (lock' = lock \/ lock' = Append(lock, "final"))
    BY DEF StopClears, Request, lockVars
  <2>2. QED
    BY Known, <2>1, Grown DEF Kinds, Loops
<1>2. FaultlessInv'
  BY Known, <1>1
     DEF MemoryInv, FaultlessInv, OwnerInv, Waiting, More, Less, Loops, envVars, flagVars,
         lockVars, StopClears, Request
<1>3. AgreeInv'
  BY Known, <1>1
     DEF MemoryInv, AgreeInv, Going, Kept, Held, Holder, vars, envVars, flagVars, lockVars,
         ghosts, StopClears
<1>4. QED
  BY <1>2, <1>3 DEF MemoryInv

LEMMA StopSilencesMemory ==
  ASSUME GateInv, OwnerInv, MemoryInv, StopSilences
  PROVE  MemoryInv'
<1>1. step' = step /\ (lock' = lock \/ More(lock, lock', "stop"))
  <2>1. step' = step /\ (lock' = lock \/ lock' = Append(lock, "stop"))
    BY DEF StopSilences, Request, lockVars
  <2>2. QED
    BY Known, <2>1, Grown DEF Kinds, Loops
<1>2. FaultlessInv'
  BY Known, <1>1
     DEF MemoryInv, FaultlessInv, OwnerInv, Waiting, More, Less, Loops, envVars, flagVars,
         lockVars, StopSilences, Request
<1>3. AgreeInv'
  BY Known, <1>1
     DEF MemoryInv, AgreeInv, Going, Kept, Held, Holder, vars, envVars, flagVars, lockVars,
         ghosts, StopSilences, Request
<1>4. QED
  BY <1>2, <1>3 DEF MemoryInv

LEMMA GoneMemory ==
  ASSUME GateInv, OwnerInv, MemoryInv, Gone
  PROVE  MemoryInv'
<1>1. lock' = <<>>
  BY DEF Gone, Loops, lockVars
<1>2. FaultlessInv'
  BY DEF MemoryInv, FaultlessInv, OwnerInv, Waiting, Loops, envVars, flagVars, lockVars, Gone
<1>3. AgreeInv'
  BY Known, <1>1 DEF MemoryInv, AgreeInv, Going, envVars, flagVars, lockVars, Gone
<1>4. QED
  BY <1>2, <1>3 DEF MemoryInv

LEMMA CrashMemory ==
  ASSUME GateInv, OwnerInv, MemoryInv, Crash
  PROVE  MemoryInv'
<1>1. lock' = <<>>
  BY DEF Crash
<1>2. FaultlessInv'
  BY Known, <1>1, InQueue, Emptied
     DEF MemoryInv, FaultlessInv, OwnerInv, Waiting, More, Crash, Spend, NoLoop
<1>3. AgreeInv'
  BY Known, <1>1 DEF MemoryInv, AgreeInv, Going, Kept, OwnerInv, Crash, Spend, NoLoop
<1>4. QED
  BY <1>2, <1>3 DEF MemoryInv

LEMMA LoopBeginsMemory ==
  ASSUME GateInv, OwnerInv, MemoryInv, LoopBegins
  PROVE  MemoryInv'
<1>1. step' = step /\ (lock' = lock \/ More(lock, lock', "cleanup"))
  <2>1. step' = step /\ (lock' = lock \/ lock' = Append(lock, "cleanup"))
    BY DEF LoopBegins, Turn, lockVars
  <2>2. QED
    BY Known, <2>1, Grown DEF Kinds, Loops
<1>2. FaultlessInv'
  BY Known, <1>1, InQueue, Emptied
     DEF MemoryInv, FaultlessInv, OwnerInv, Waiting, More, Less, Loops, vars, envVars, flagVars,
         lockVars, ghosts, StateInv, EnvTypes, FlagTypes, LoopInv, LoopStates, LoopBegins, Turn
<1>3. AgreeInv'
  BY Known, <1>1
     DEF MemoryInv, AgreeInv, Going, Kept, OwnerInv, Waiting, Late, More, Less, Held, Holder,
         vars, envVars, flagVars, lockVars, ghosts, LoopBegins, Turn
<1>4. QED
  BY <1>2, <1>3 DEF MemoryInv

LEMMA LoopWakesMemory ==
  ASSUME GateInv, OwnerInv, MemoryInv, NEW l \in Loops, LoopWakes(l)
  PROVE  MemoryInv'
<1>1. step' = step /\ (lock' = lock \/ More(lock, lock', l))
  <2>1. step' = step /\ (lock' = lock \/ lock' = Append(lock, l))
    BY DEF LoopWakes, Turn, lockVars
  <2>2. QED
    BY Known, <2>1, Grown DEF Kinds, Loops
<1>2. FaultlessInv'
  BY Emptied DEF MemoryInv, FaultlessInv, Loops, envVars, flagVars, lockVars, LoopWakes, Turn
<1>3. AgreeInv'
  BY Known, <1>1
     DEF MemoryInv, AgreeInv, Going, Kept, OwnerInv, Waiting, Late, More, Less, Held, Holder,
         vars, envVars, flagVars, lockVars, ghosts, LoopWakes, Turn
<1>4. QED
  BY <1>2, <1>3 DEF MemoryInv

LEMMA LoopDoneMemory ==
  ASSUME GateInv, OwnerInv, MemoryInv, LoopDone
  PROVE  MemoryInv'
<1>1. lock' = lock /\ step' = step
  BY DEF LoopDone, LoopEnds, Rescheduled, Loops, lockVars
<1>2. FaultlessInv'
  BY Known, <1>1
     DEF MemoryInv, FaultlessInv, OwnerInv, RunInv, Waiting, LoopDone, LoopEnds, Rescheduled,
         Awaited, Begun, NoLoop, StateInv, FlagTypes, LoopInv, Loops, envVars, lockVars
<1>3. AgreeInv'
  BY Known, <1>1
     DEF MemoryInv, FaultlessInv, AgreeInv, Going, Kept, Waiting, Late, Held, Holder, LoopDone,
         LoopEnds, Awaited, Loops, envVars, lockVars, ghosts
<1>4. QED
  BY <1>2, <1>3 DEF MemoryInv

LEMMA BeginMemory ==
  ASSUME GateInv, OwnerInv, MemoryInv, Begin
  PROVE  MemoryInv'
<1>1. lock' = lock \/ (step' = "begin" /\ Less(lock, lock'))
  <2>1. lock # <<>> /\ (lock' = lock \/ (step' = "begin" /\ lock' = Tail(lock)))
    BY DEF Begin, Refused, Leave, GoTo, Clears
  <2>2. QED
    BY Known, <2>1, Shrunk
<1>2. FaultlessInv'
  BY Known, <1>1
     DEF MemoryInv, FaultlessInv, OwnerInv, Waiting, More, Less, Loops, envVars, flagVars,
         lockVars, Begin, Refused, Leave, GoTo
<1>3. AgreeInv'
  <2>1. faults = 0 => entry' = entry
    BY Known, InQueue DEF Begin, Held, Holder, MemoryInv, FaultlessInv, Waiting
  <2>2. UNCHANGED <<faults, store, active, required, restore, clear, excused, gate>> /\ step = "begin"
    BY DEF Begin, envVars, flagVars, ghosts
  <2>3. step' = "control" => ~Held("activate")'
    BY Known, <1>1 DEF Begin, Leave, GoTo, Held, Holder, Refused, Clears, Loops
  <2>4. Late => Late' \/ active \/ ~gate
    BY Known, <1>1 DEF Begin, Leave, GoTo, Late, Waiting, Less, Refused, Holder, Clears, Loops
  <2>5. QED
    BY <2>1, <2>2, <2>3, <2>4 DEF MemoryInv, AgreeInv, OwnerInv, StoredInv, Unread, Going, Kept
<1>4. QED
  BY <1>2, <1>3 DEF MemoryInv

LEMMA SaveMemory ==
  ASSUME GateInv, OwnerInv, MemoryInv, NEW ok \in BOOLEAN, SaveEnds(ok)
  PROVE  MemoryInv'
<1>1. lock' = lock \/ (step' = "begin" /\ Less(lock, lock'))
  <2>1. lock # <<>> /\ (lock' = lock \/ (step' = "begin" /\ lock' = Tail(lock)))
    BY Known DEF SaveEnds, Succeeds, Leave, GoTo, Decide
  <2>2. QED
    BY Known, <2>1, Shrunk
<1>2. FaultlessInv'
  BY Known, <1>1, InQueue, Emptied
     DEF MemoryInv, FaultlessInv, OwnerInv, Waiting, More, Less, envVars, flagVars, StateInv,
         EnvTypes, LoopStates, SaveEnds, Succeeds, Leave, GoTo
<1>3. AgreeInv'
  BY Known, <1>1, InQueue, Emptied
     DEF AgreeInv, Going, Kept, OwnerInv, KindInv, StoredInv, RunInv, Unread, Calls, Serves, Past,
         Waiting, Less, Held, Holder, Loops, StateInv, EnvTypes, Before, SaveEnds, Succeeds,
         Leave, GoTo, Decide
<1>4. QED
  BY <1>2, <1>3 DEF MemoryInv

LEMMA ControlMemory ==
  ASSUME GateInv, OwnerInv, MemoryInv, NEW ok \in BOOLEAN, ControlEnds(ok)
  PROVE  MemoryInv'
<1>1. lock' = lock \/ (step' = "begin" /\ Less(lock, lock'))
  <2>1. lock # <<>> /\ (lock' = lock \/ (step' = "begin" /\ lock' = Tail(lock)))
    BY Known
       DEF ControlEnds, Succeeds, Leave, GoTo, Decide, envVars, Clears, Kinds, Held, Holder,
           Loops, lockVars
  <2>2. QED
    BY Known, <2>1, Shrunk
<1>2. FaultlessInv'
  <2>1. faults' = 0 => ok /\ faults = 0
    BY Known DEF ControlEnds, Succeeds, StateInv, EnvTypes
  <2>2. In(lock', "rearm") => In(lock, "rearm")
    BY <1>1 DEF Less
  <2>3. ok /\ lock # <<>> => (~err => ~err') /\ step' # "undo"
    BY Known DEF ControlEnds, Leave, GoTo, Held, Holder, Clears, Loops, Kinds
  <2>4. lock # <<>>
    BY Known DEF ControlEnds
  <2>5. QED
    <3>1. UNCHANGED <<clear, loop, served, gen, required, started, terminal>>
      BY DEF ControlEnds, envVars, flagVars, lockVars, ghosts
    <3>2. QED
      BY <2>1, <2>2, <2>3, <2>4, <3>1 DEF MemoryInv, FaultlessInv, Waiting
<1>3. AgreeInv'
  <2> SUFFICES ASSUME faults' = 0, ~excused', entry' \in Going PROVE AgreeInv'
    BY Known, <1>1 DEF AgreeInv, Held, Holder, ControlEnds, Leave, GoTo, Clears, Loops, Kinds
  <2>1. faults = 0 /\ ok /\ ~excused /\ lock # <<>> /\ In(lock, Head(lock)) /\ step = "control"
    <3>1. faults = 0 /\ ok /\ lock # <<>> /\ step = "control"
      BY Known DEF ControlEnds, Succeeds, StateInv, EnvTypes
    <3>2. excused => excused'
      BY DEF ControlEnds, Decide, Held, ghosts
    <3>3. QED
      BY Known, <3>1, <3>2, InQueue
  <2>2. /\ entry' = entry /\ Head(lock) \in {"activate", "deactivate", "override"} \cup Loops
        /\ UNCHANGED <<store, clear, required, restore>>
    BY Known, <2>1, InQueue
       DEF ControlEnds, Held, Holder, MemoryInv, FaultlessInv, Waiting, Going, Kinds, Loops,
           envVars, flagVars, lockVars
  <2>3. CASE Head(lock) = "activate"
    <3>1. active' /\ step' = "begin"
      BY <2>1, <2>3 DEF ControlEnds, Leave, Held, Holder, Clears, Loops
    <3>2. Kept \/ required
      BY <2>1, <2>3 DEF MemoryInv, AgreeInv, Held, Holder
    <3>3. QED
      BY <2>1, <2>2, <3>1, <3>2 DEF MemoryInv, AgreeInv, Kept
  <2>4. CASE Head(lock) \in {"deactivate", "override"}
    <3>1. store = "on" => required
      BY <2>1, <2>2, <2>4 DEF OwnerInv, StoredInv, Held, Holder, Going, Unread
    <3>2. ~active' /\ step' # "control"
      BY <2>4 DEF ControlEnds, GoTo, Held, Holder, Clears, Loops
    <3>3. QED
      BY <2>1, <2>2, <3>1, <3>2 DEF MemoryInv, AgreeInv, Kept
  <2>5. CASE Head(lock) \in Loops
    <3>1. ~active' /\ step' # "control" /\ lock' = lock
      BY <2>5 DEF ControlEnds, GoTo, Held, Holder, Clears, Loops
    <3>2. Late'
      BY <2>1, <2>5, <3>1 DEF Late, Waiting, Loops
    <3>3. QED
      BY <2>1, <2>2, <3>1, <3>2 DEF MemoryInv, AgreeInv, Kept
  <2>6. QED
    BY <2>2, <2>3, <2>4, <2>5
<1>4. QED
  BY <1>2, <1>3 DEF MemoryInv

LEMMA UndoMemory ==
  ASSUME GateInv, OwnerInv, MemoryInv, NEW ok \in BOOLEAN, Undone(ok)
  PROVE  MemoryInv'
<1>1. lock' = lock \/ (step' = "begin" /\ Less(lock, lock'))
  <2>1. lock # <<>> /\ (lock' = lock \/ (step' = "begin" /\ lock' = Tail(lock)))
    BY Known DEF Undone, Leave, Decide, lockVars
  <2>2. QED
    BY Known, <2>1, Shrunk
<1>2. FaultlessInv'
  BY Known, <1>1, InQueue, Emptied
     DEF MemoryInv, FaultlessInv, envVars, flagVars, StateInv, EnvTypes, LoopStates, Undone,
         Succeeds
<1>3. AgreeInv'
  BY Known, <1>1, InQueue, Emptied
     DEF MemoryInv, FaultlessInv, AgreeInv, StateInv, EnvTypes, FlagTypes, LoopInv, Undone,
         Succeeds
<1>4. QED
  BY <1>2, <1>3 DEF MemoryInv

LEMMA HandoffMemory ==
  ASSUME GateInv, OwnerInv, MemoryInv, NEW a, Handoff(a)
  PROVE  MemoryInv'
<1>1. lock' = lock \/ (step' = "begin" /\ Less(lock, lock'))
  <2>1. lock # <<>> /\ (lock' = lock \/ (step' = "begin" /\ lock' = Tail(lock)))
    BY Known DEF Handoff, GoTo, Yielded, Clears, lockVars
  <2>2. QED
    BY Known, <2>1, Shrunk
<1>2. FaultlessInv'
  BY Known, <1>1
     DEF MemoryInv, FaultlessInv, OwnerInv, Waiting, More, Less, Loops, envVars, flagVars,
         lockVars, Handoff, GoTo, Yielded, Clears
<1>3. AgreeInv'
  BY Known, <1>1, InQueue
     DEF MemoryInv, AgreeInv, Going, Kept, OwnerInv, KindInv, Waiting, Late, Less, Held, Holder,
         Handoff, GoTo, Yielded, Clears, Loops, envVars, flagVars, ghosts
<1>4. QED
  BY <1>2, <1>3 DEF MemoryInv

LEMMA CommandMemory ==
  ASSUME GateInv, OwnerInv, MemoryInv, NEW ok \in BOOLEAN, CommandEnds(ok)
  PROVE  MemoryInv'
<1>1. \/ lock' = lock
      \/ step' = "begin" /\ Less(lock, lock')
      \/ /\ step' = "begin" /\ Held("quiesce")
         /\ Less(lock, Tail(lock)) /\ More(Tail(lock), lock', "rearm")
  <2>1. /\ lock # <<>> /\ Tail(lock) \in Seq(Kinds)
        /\ \/ lock' = lock
           \/ step' = "begin" /\ lock' = Tail(lock)
           \/ step' = "begin" /\ Held("quiesce") /\ lock' = Append(Tail(lock), "rearm")
    BY Known DEF CommandEnds, Succeeds, Yielded, Clears
  <2>2. QED
    BY Known, <2>1, Shrunk, Grown DEF Kinds
<1>2. FaultlessInv'
  <2>1. faults' = 0 => ok /\ faults = 0
    BY Known DEF CommandEnds, Succeeds, StateInv, EnvTypes
  <2>2. ok => err' = FALSE /\ step' \in {"begin", "clear"} /\ (In(lock', "rearm") => In(lock, "rearm"))
    BY Known, <1>1 DEF CommandEnds, Yielded, Holder, Less, Loops
  <2>3. QED
    BY <2>1, <2>2 DEF CommandEnds, MemoryInv, FaultlessInv, Waiting, vars, envVars, flagVars
<1>3. AgreeInv'
  BY Known, <1>1
     DEF MemoryInv, AgreeInv, OwnerInv, KindInv, Going, Kept, Waiting, Late, More, Less, Held,
         Holder, CommandEnds, Succeeds, Yielded, Clears, envVars, flagVars, ghosts, StateInv,
         EnvTypes, Loops
<1>4. QED
  BY <1>2, <1>3 DEF MemoryInv

(* The end of a clear, when nothing has failed yet.                        *)
LEMMA ClearMemory ==
  ASSUME GateInv, OwnerInv, MemoryInv, NEW ok \in BOOLEAN, ClearEnds(ok)
  PROVE  MemoryInv'
<1>1. /\ StateInv /\ lock \in Seq(Kinds) /\ lock # <<>>
      /\ Head(lock) \in Clears /\ Tail(lock) \in Seq(Kinds)
      /\ In(lock, Head(lock)) /\ Held(Head(lock))
  BY GateParts, HeadTailProperties, InQueue DEF LockInv, ClearEnds, Held, Holder
<1>2. UNCHANGED <<clear, active, started, restore, down>> /\ step' = "begin" /\ err' = FALSE
  BY DEF ClearEnds, envVars
<1>3. faults' = 0 => faults = 0 /\ ok /\ ~err /\ store' = "none"
  BY <1>1, <1>2 DEF ClearEnds, Succeeds, StateInv, EnvTypes, MemoryInv, FaultlessInv
<1>4. (required' => required \/ Head(lock) = "terminal") /\ served \in Nat /\ gen \in Nat
  BY <1>1 DEF ClearEnds, Served, Holder, Loops, Clears, StateInv, FlagTypes
<1>5. CASE Head(lock) \in Loops
  <2> DEFINE l == Head(lock)
  <2>1. UNCHANGED <<entry, terminal, gen>>
    BY <1>5 DEF ClearEnds, Holder, Loops
  <2>2. l \in Loops /\ loop[l].at = "asking" /\ loop[l].gen \in Nat /\ loop[l].gen <= gen
    BY <1>1, <1>5 DEF OwnerInv, AskInv, Waiting, StateInv, LoopInv, LoopStates
  <2>3. ASSUME faults' = 0
        PROVE  /\ required' = (required /\ loop[l].gen # gen)
               /\ served' = Later(served, loop[l].gen)
               /\ \/ required' /\ ~down /\ loop' = [loop EXCEPT ![l] = [at |-> "asking", gen |-> gen, attempt |-> 1]]
                     /\ lock' = Append(Tail(lock), l)
                  \/ (~required' \/ down) /\ loop' = [loop EXCEPT ![l].at = "done"] /\ lock' = Tail(lock)
    BY <1>3, <1>5, <2>3 DEF ClearEnds, Served, Turn, Holder, Loops
  <2> HIDE DEF l
  <2>4. ASSUME faults' = 0
        PROVE  /\ loop'[l].at \in {"asking", "done"} /\ (required' /\ ~down => loop'[l].at = "asking")
               /\ \A k \in Loops : k # l => loop'[k] = loop[k]
               /\ In(lock', "rearm") => In(lock, "rearm")
    <3>1. loop \in [Loops -> LoopStates] /\ l \in Kinds /\ l # "rearm"
      BY <1>1, <2>2 DEF StateInv, LoopInv, Loops, Kinds
    <3>2. /\ In(Tail(lock), "rearm") => In(lock, "rearm")
          /\ In(Append(Tail(lock), l), "rearm") => In(Tail(lock), "rearm")
      BY <1>1, <3>1, Shrunk, Grown DEF Less, More
    <3>3. \/ required' /\ ~down /\ loop' = [loop EXCEPT ![l] = [at |-> "asking", gen |-> gen, attempt |-> 1]]
          \/ ~(required' /\ ~down) /\ loop' = [loop EXCEPT ![l] = [loop[l] EXCEPT !.at = "done"]]
      BY <2>3, <2>4, <3>1
    <3>4. loop[l] \in LoopStates
      BY <2>2, <3>1
    <3>5. /\ loop'[l].at \in {"asking", "done"} /\ (required' /\ ~down => loop'[l].at = "asking")
          /\ \A k \in Loops : k # l => loop'[k] = loop[k]
      BY <2>2, <3>1, <3>3, <3>4 DEF LoopStates
    <3>6. In(lock', "rearm") => In(lock, "rearm")
      <4>1. lock' = Append(Tail(lock), l) \/ lock' = Tail(lock)
        BY <2>3, <2>4
      <4>2. QED
        BY <3>2, <4>1
    <3>7. QED
      BY <3>5, <3>6
  <2>5. FaultlessInv'
    <3>1. ASSUME faults' = 0
          PROVE  served' <= gen' /\ (required' => served' < gen')
      <4>1. served \in Nat /\ gen \in Nat /\ loop[l].gen \in Nat /\ loop[l].gen <= gen /\ gen' = gen
        BY <1>4, <2>1, <2>2
      <4>2. served <= gen /\ (required => served < gen)
        BY <1>3, <3>1 DEF MemoryInv, FaultlessInv
      <4>3. required' => required /\ loop[l].gen # gen
        BY <2>3, <3>1
      <4>4. served' = Later(served, loop[l].gen)
        BY <2>3, <3>1
      <4>5. served' \in {served, loop[l].gen} /\ served' <= gen
        BY <4>1, <4>2, <4>4 DEF Later
      <4>6. QED
        BY <4>1, <4>2, <4>3, <4>5
    <3>2. ASSUME faults' = 0, required', started', ~terminal'
          PROVE  loop'["cleanup"].at # "none" \/ loop'["startup"].at = "asking"
      BY <1>2, <1>3, <1>4, <2>1, <2>2, <2>4, <3>2
         DEF OwnerInv, RunInv, MemoryInv, FaultlessInv, Loops
    <3>3. QED
      BY <1>2, <1>3, <2>2, <2>4, <3>1, <3>2 DEF MemoryInv, FaultlessInv, Waiting
  <2>6. AgreeInv'
    <3> SUFFICES ASSUME faults' = 0, ~excused' PROVE AgreeInv'
      BY DEF AgreeInv
    <3>1. required /\ ~excused
      BY <1>5 DEF ClearEnds, Holder
    <3>2. active /\ entry \in Going => started
      BY DEF OwnerInv, RunInv, Going, Before
    <3>3. active /\ entry \in Going => required'
      BY <1>1, <2>2, <2>3, <3>1, <3>2 DEF l, OwnerInv, ClearInv, Serves, Past, ClearEnds
    <3>4. ~(restore /\ entry \in Going)
      BY <1>3, <3>1 DEF MemoryInv, AgreeInv
    <3>5. QED
      BY <1>2, <1>3, <2>1, <3>3, <3>4 DEF AgreeInv
  <2>7. QED
    BY <2>5, <2>6 DEF MemoryInv
<1>6. CASE Head(lock) \in {"terminal", "final"}
  <2>1. /\ lock' = Tail(lock) /\ gen' = gen /\ entry' \notin Going
        /\ faults' = 0 => ~required' /\ loop' = loop /\ served' \in {served, gen}
    BY <1>3, <1>6, InQueue, <1>1 DEF ClearEnds, Holder, Loops, Going, StateInv, FlagTypes
  <2>2. In(lock', "rearm") => In(lock, "rearm")
    BY <1>1, <2>1, Shrunk DEF Less
  <2>3. QED
    BY <1>2, <1>3, <1>4, <2>1, <2>2 DEF MemoryInv, FaultlessInv, AgreeInv, Waiting
<1>7. QED
  BY <1>1, <1>5, <1>6 DEF Clears, Loops

-----------------------------------------------------------------------------
(* Together.                                                               *)

(* Nothing has been asked of a coordinator that is not there.              *)
LEMMA OwnerInit ==
  ASSUME Init
  PROVE  OwnerInv /\ MemoryInv
<1>1. /\ \A k : ~Waiting(k)
      /\ \A k, m : ~Ahead(lock, k, m)
  BY Emptied DEF Init, Blank, Waiting
<1>2. lock = <<>> /\ step = "begin" /\ \A l \in Loops : loop[l].at = "none"
  BY DEF Init, Blank, NoLoop
<1>3. KindInv /\ StoredInv
  BY DEF Init, Blank, KindInv, StoredInv, Held
<1>4. RunInv
  BY <1>1 DEF Init, Blank, RunInv, Before
<1>5. AskInv /\ ClearInv
  BY <1>1, <1>2 DEF Init, Blank, AskInv, ClearInv, Held, Past, Loops
<1>6. WantedInv
  BY DEF Init, Blank, WantedInv
<1>7. MemoryInv
  BY <1>1, <1>2 DEF Init, Blank, MemoryInv, FaultlessInv, AgreeInv, Loops, Going
<1>8. QED
  BY <1>3, <1>4, <1>5, <1>6, <1>7 DEF OwnerInv

LEMMA OwnerStutters ==
  ASSUME UNCHANGED vars
  PROVE  (OwnerInv => OwnerInv') /\ (MemoryInv => MemoryInv')
<1>1. OwnerInv => OwnerInv'
  BY DEF vars, envVars, flagVars, lockVars, ghosts, OwnerInv, KindInv, StoredInv, RunInv, AskInv,
         ClearInv, WantedInv, Held, Holder, Waiting, Late, Serves
<1>2. MemoryInv => MemoryInv'
  BY DEF vars, envVars, flagVars, lockVars, ghosts, MemoryInv, FaultlessInv, AgreeInv, Held,
         Holder, Waiting, Late, Kept
<1>3. QED
  BY <1>1, <1>2

LEMMA OwnerStep ==
  ASSUME GateInv, OwnerInv, [Next]_vars
  PROVE  OwnerInv'
<1>1. CASE LockStep
  BY <1>1, BeginOwner, SaveOwner, ControlOwner, UndoOwner, CommandOwner, ClearOwner, HandoffOwner
     DEF LockStep
<1>2. CASE LoopStep
  BY <1>2, LoopBeginsOwner, LoopDoneOwner, LoopWakesOwner DEF LoopStep
<1>3. CASE EntryStep
  BY <1>3, SetupOwner, SettledOwner, CreatedOwner, StartBeginsOwner, StartCleanedOwner,
     RestoredOwner, LoadedOwner, ClearedOwner, ConnectedOwner, StopBeginsOwner, StopClearsOwner,
     StopSilencesOwner, GoneOwner
     DEF EntryStep
<1>4. CASE ClearStep
  BY <1>4, RequiredClearOwner DEF ClearStep
<1>5. CASE Input
  BY <1>5, ActivateOwner, YieldOwner, PhysicalOwner, SwitchOwner, ReloadOwner, DisableOwner,
     EnableOwner, EditOwner, CrashOwner
     DEF Input
<1>6. CASE UNCHANGED vars
  BY <1>6, OwnerStutters
<1>7. QED
  BY <1>1, <1>2, <1>3, <1>4, <1>5, <1>6 DEF Next

LEMMA MemoryStep ==
  ASSUME GateInv, OwnerInv, MemoryInv, [Next]_vars
  PROVE  MemoryInv'
<1>1. CASE LockStep
  BY <1>1, BeginMemory, SaveMemory, ControlMemory, UndoMemory, CommandMemory, ClearMemory,
     HandoffMemory
     DEF LockStep
<1>2. CASE LoopStep
  BY <1>2, LoopBeginsMemory, LoopDoneMemory, LoopWakesMemory DEF LoopStep
<1>3. CASE EntryStep
  BY <1>3, SetupMemory, SettledMemory, CreatedMemory, StartBeginsMemory, StartCleanedMemory,
     RestoredMemory, LoadedMemory, ClearedMemory, ConnectedMemory, StopBeginsMemory,
     StopClearsMemory, StopSilencesMemory, GoneMemory
     DEF EntryStep
<1>4. CASE ClearStep
  BY <1>4, RequiredClearMemory DEF ClearStep
<1>5. CASE Input
  BY <1>5, ActivateMemory, YieldMemory, PhysicalMemory, SwitchMemory, ReloadMemory, DisableMemory,
     EnableMemory, EditMemory, CrashMemory
     DEF Input
<1>6. CASE UNCHANGED vars
  BY <1>6, OwnerStutters
<1>7. QED
  BY <1>1, <1>2, <1>3, <1>4, <1>5, <1>6 DEF Next

(* Theorem: the invariant of the owner of the fan holds, whatever the      *)
(* order of calls, registry events, clears and their failures, reloads and *)
(* crashes.                                                                *)
THEOREM OwnerCorrect == Spec => []OwnerInv
<1>1. Init => OwnerInv
  BY OwnerInit
<1>2. GateInv /\ OwnerInv /\ [Next]_vars => OwnerInv'
  BY OwnerStep
<1>3. QED
  BY <1>1, <1>2, GateCorrect, PTL DEF Spec

(* Theorem: the policy drives the fan only if the last decision gave it    *)
(* the fan, across reloads and crashes.                                    *)
THEOREM FanIsWanted == Spec => []OwnerIsWanted
<1>1. GateInv /\ OwnerInv => OwnerIsWanted
  <2> SUFFICES ASSUME GateInv, OwnerInv, Drives, ~excused
               PROVE  owner = "policy"
    BY DEF OwnerIsWanted
  <2>1. started /\ gate /\ active /\ ~required
    BY DEF GateInv, GateIsSafe, Drives
  <2>2. QED
    BY <2>1 DEF OwnerInv, WantedInv
<1>2. QED
  BY <1>1, GateCorrect, OwnerCorrect, PTL

(* Theorem: a switch-off or an override acts on the fan when the memory    *)
(* does not say ON any more, or is about to be cleared.                    *)
THEOREM OffComesFirst == Spec => []OffBeforeCommand
<1>1. GateInv /\ OwnerInv => OffBeforeCommand
  <2> SUFFICES ASSUME GateInv, OwnerInv, step = "command", Holder \in {"deactivate", "override"}
               PROVE  store # "on" \/ ~gate
    BY DEF OffBeforeCommand
  <2>1. lock # <<>>
    BY GateParts DEF LockInv
  <2>2. QED
    BY <2>1 DEF OwnerInv, StoredInv, Held
<1>2. QED
  BY <1>1, GateCorrect, OwnerCorrect, PTL

(* Theorem: the invariant of the memory holds.                             *)
THEOREM MemoryCorrect == Spec => []MemoryInv
<1>1. Init => MemoryInv
  BY OwnerInit
<1>2. GateInv /\ OwnerInv /\ MemoryInv /\ [Next]_vars => MemoryInv'
  BY MemoryStep
<1>3. QED
  BY <1>1, <1>2, GateCorrect, OwnerCorrect, PTL DEF Spec

(* Theorem: when everything has settled and nothing has failed, ON is      *)
(* remembered exactly for an active policy.                                *)
THEOREM MemoryIsTrue == Spec => []MemoryAgrees
<1>1. GateInv /\ OwnerInv /\ MemoryInv => MemoryAgrees
  <2> SUFFICES ASSUME GateInv, OwnerInv, MemoryInv, Resting, faults = 0, ~excused
               PROVE  /\ store = "on" => active
                      /\ active => store = "on" \/ clear.gen > 0
    BY DEF MemoryAgrees
  <2>1. /\ entry = "loaded" /\ lock = <<>> /\ \A l \in Loops : loop[l].at = "none"
        /\ \A k : ~Waiting(k)
    BY Emptied DEF Resting, Waiting
  <2>2. started /\ ~terminal /\ ~restore
    BY <2>1 DEF OwnerInv, RunInv
  <2>3. ~required
    BY <2>1, <2>2 DEF MemoryInv, FaultlessInv, Loops
  <2>4. step = "begin" /\ ~Late
    BY <2>1, GateParts DEF LockInv, Late
  <2>5. QED
    BY <2>1, <2>2, <2>3, <2>4 DEF MemoryInv, AgreeInv, Going, Kept
<1>2. QED
  BY <1>1, GateCorrect, OwnerCorrect, MemoryCorrect, PTL
=============================================================================
