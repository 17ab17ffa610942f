---------------------------- MODULE LocksProofs ----------------------------
(***************************************************************************)
(* Module MCSync for any values of the constants: the mutex, the spinlock, *)
(* the semaphore, the read-write lock, the dining philosophers and the     *)
(* race demonstration.  Steps that count take LibraryFacts as a hypothesis *)
(* (see BasicLemmas); the theorems that rest on them are at the end.       *)
(***************************************************************************)
EXTENDS MCSync, BasicLemmas

-----------------------------------------------------------------------------
(***************************************************************************)
(* The mutex.  OwnershipInv is the inductive invariant: mutual exclusion   *)
(* alone is not inductive, because the hand-off leaves state locked on     *)
(* behalf of a thread that is still parked.                                *)
(***************************************************************************)
IInv == TypeOK /\ OwnershipInv

(* A new mutex satisfies the invariant. *)
LEMMA InitIInv == Init => IInv
<1> SUFFICES ASSUME Init PROVE IInv
  BY Zenon
<1> USE DEF Init
<1>1. TypeOK
  BY DEF TypeOK, PCs
<1>2. \A t \in Threads : ~Owns(t)
  BY Zenon DEF Owns
<1>3. Len(waiters) = 0
  BY Zenon
<1>4. QueueInv
  BY <1>2, <1>3, NoThreadAssumption DEF QueueInv
<1>5. QED
  BY <1>1, <1>2, <1>4, Zenon DEF IInv, OwnershipInv, SoleOwner, FreeIsUnowned, HandoffInv

(* The hand-off of Unlock preserves the invariant: the popped thread        *)
(* becomes the owner, and the rest of the queue moves up by one.            *)
LEMMA HandoffIInv ==
  ASSUME IInv, NEW t \in Threads, UnlockHandoff(t)
  PROVE  IInv'
<1> DEFINE w == Head(waiters)
<1>1. /\ w \in Threads
      /\ 1 \in 1..Len(waiters)
      /\ w = waiters[1]
      /\ Len(waiters') = Len(waiters) - 1
      /\ \A i \in 1..Len(waiters') :
            /\ i + 1 \in 1..Len(waiters)
            /\ waiters'[i] = waiters[i + 1]
            /\ waiters'[i] \in Threads
  BY DEF UnlockHandoff, IInv, TypeOK
<1>2. TypeOK'
  BY DEF UnlockHandoff, IInv, TypeOK, PCs, Goto
<1>3. /\ pc[t] = "held" /\ pc[w] = "parked" /\ w # t /\ state = 2 /\ ~Owns(w)
      /\ \A u \in Threads : Owns(u) => u = t
      /\ \A u \in Threads : pc[u] # "flag"
  BY <1>1, NoThreadAssumption
  DEF UnlockHandoff, IInv, OwnershipInv, SoleOwner, QueueInv, Owns
<1>4. /\ \A u \in Threads : u # t => pc'[u] = pc[u] /\ next'[u] = next[u]
      /\ pc'[t] = "wake" /\ next'[t] = w
      /\ ready' = ready /\ mu' = NoThread /\ mu = NoThread
  BY Zenon DEF UnlockHandoff, IInv, TypeOK, Goto
<1>5. \A u \in Threads : pc[u] # "wake" /\ u \notin ready
  BY <1>3, Zenon DEF IInv, OwnershipInv, HandoffInv, Owns
<1>6. \A u \in Threads : Owns(u)' <=> u = w
  BY <1>1, <1>3, <1>4, <1>5 DEF Owns
<1>7. (SoleOwner /\ FreeIsUnowned /\ HandoffInv)'
  <2>1. state' # 0
    BY <1>3 DEF UnlockHandoff
  <2>2. ready' \subseteq Threads
    BY <1>2, Zenon DEF TypeOK
  <2>3. QED
    BY <1>1, <1>3, <1>4, <1>5, <1>6, <2>1, <2>2
    DEF SoleOwner, FreeIsUnowned, HandoffInv
<1>8. QueueInv'
  <2>1. \A i \in 1..Len(waiters') : waiters'[i] # w /\ state' = 2
    BY <1>1, <1>3 DEF IInv, OwnershipInv, QueueInv, UnlockHandoff
  <2>2. (\A i \in 1..Len(waiters) : pc[waiters[i]] = "parked" /\ ~Owns(waiters[i]))'
    <3>1. \A i \in 1..Len(waiters') : pc'[waiters'[i]] = "parked"
      BY <1>1, <1>3, <1>4 DEF IInv, OwnershipInv, QueueInv
    <3>2. (\A i \in 1..Len(waiters) : ~Owns(waiters[i]))'
      BY <1>1, <1>6, <2>1, Zenon
    <3>3. QED
      BY <3>1, <3>2, Zenon
  <2>3. \A i, j \in 1..Len(waiters') : waiters'[i] = waiters'[j] => i = j
    BY <1>1 DEF IInv, OwnershipInv, QueueInv, TypeOK
  <2>4. ASSUME NEW u \in Threads, pc'[u] \in {"flag", "parked"}, u # w
        PROVE  \E i \in 1..Len(waiters') : waiters'[i] = u
    <3>1. u # t /\ pc[u] \in {"flag", "parked"}
      BY <2>4, <1>4, Zenon
    <3>2. PICK i \in 1..Len(waiters) : waiters[i] = u
      BY <3>1, <1>3, Zenon DEF IInv, OwnershipInv, QueueInv
    <3>3. i - 1 \in 1..Len(waiters') /\ waiters'[i - 1] = waiters[i]
      BY <3>2, <2>4, <1>1 DEF IInv, TypeOK
    <3>4. QED
      BY <3>2, <3>3, Zenon
  <2>5. \A u \in Threads : pc'[u] = "flag" <=> mu' = u
    BY <1>3, <1>4, NoThreadAssumption, Zenon
  <2>6. QED
    BY <1>6, <2>1, <2>2, <2>3, <2>4, <2>5, Zenon DEF QueueInv
<1>9. QED
  BY <1>2, <1>7, <1>8, Zenon DEF IInv, OwnershipInv

(* Every step of Lock and Unlock preserves the invariant. *)
LEMMA NextIInv == IInv /\ [Next]_mutexVars => IInv'
<1> SUFFICES ASSUME IInv, [Next]_mutexVars PROVE IInv'
  BY Zenon
<1> USE NoThreadAssumption
    DEF Goto, IInv, TypeOK, PCs, OwnershipInv, SoleOwner, FreeIsUnowned,
        HandoffInv, QueueInv, Owns
<1>1. ASSUME NEW t \in Threads, LockFast(t) PROVE IInv'
  BY <1>1 DEF LockFast
<1>2. ASSUME NEW t \in Threads, LockContended(t) PROVE IInv'
  BY <1>2 DEF LockContended
<1>3. ASSUME NEW t \in Threads, Enqueue(t) PROVE IInv'
  BY <1>3 DEF Enqueue
<1>4. ASSUME NEW t \in Threads, FlagWaiters(t) PROVE IInv'
  BY <1>4 DEF FlagWaiters
<1>5. ASSUME NEW t \in Threads, Unpark(t) PROVE IInv'
  BY <1>5 DEF Unpark
<1>6. ASSUME NEW t \in Threads, UnlockHandoff(t) PROVE IInv'
  BY <1>6, HandoffIInv, Zenon
<1>7. ASSUME NEW t \in Threads, WakeNext(t) PROVE IInv'
  BY <1>7 DEF WakeNext
<1>8. ASSUME NEW t \in Threads, UnlockFree(t) PROVE IInv'
  BY <1>8 DEF UnlockFree
<1>9. CASE UNCHANGED mutexVars
  BY <1>9 DEF mutexVars
<1>10. QED
  BY <1>1, <1>2, <1>3, <1>4, <1>5, <1>6, <1>7, <1>8, <1>9, Zenon
  DEF Next, Lock, Continue, Unlock

(* The state of the mutex stays well typed: in particular, Unlock only      *)
(* closes the ready channel of a node that it has popped from the queue.    *)
THEOREM TypeCorrect == Spec => []TypeOK
<1>1. IInv => TypeOK
  BY Zenon DEF IInv
<1>2. QED
  BY <1>1, InitIInv, NextIInv, PTL DEF Spec

(* Mutual exclusion of Lock and Unlock, the hand-off included, for any set  *)
(* of threads.                                                              *)
THEOREM MutualExclusion == Spec => []SoleOwner
<1>1. IInv => SoleOwner
  BY Zenon DEF IInv, OwnershipInv
<1>2. QED
  BY <1>1, InitIInv, NextIInv, PTL DEF Spec

(* The agreement of state, queue, channels and positions, for any set of    *)
(* threads.                                                                 *)
THEOREM OwnershipAgrees == Spec => []OwnershipInv
<1>1. IInv => OwnershipInv
  BY Zenon DEF IInv
<1>2. QED
  BY <1>1, InitIInv, NextIInv, PTL DEF Spec

(* The compare-and-swap of Lock never succeeds over a parked thread.        *)
THEOREM FastPathDoesNotBarge == Spec => NoBarging
<1> DEFINE Step == \A t \in Threads : pc[t] = "idle" /\ pc'[t] = "held"
                                        => \A u \in Threads : pc[u] # "parked"
<1>1. IInv /\ [Next]_mutexVars => [Step]_mutexVars
  <2> SUFFICES ASSUME IInv, Next, NEW t \in Threads, pc[t] = "idle", pc'[t] = "held",
                      NEW u \in Threads, pc[u] = "parked"
               PROVE  FALSE
    BY Zenon
  <2>1. LockFast(t)
    BY Zenon DEF Next, Lock, Continue, Unlock, LockFast, LockContended, Enqueue,
           FlagWaiters, Unpark, UnlockHandoff, WakeNext, UnlockFree, Goto,
           IInv, TypeOK
  <2>2. state = 0
    BY <2>1, Zenon DEF LockFast
  <2>3. QED
    BY <2>2 DEF IInv, OwnershipInv, FreeIsUnowned, QueueInv
<1>2. QED
  BY <1>1, InitIInv, NextIInv, PTL DEF Spec, NoBarging

(* A step that moves one thread moves that thread's phase only. *)
LEMMA PhaseOfOne ==
  ASSUME TypeOK, NEW t \in Threads, NEW label \in PCs, Goto(t, label)
  PROVE  [u \in Threads |-> phaseOf(u)]' =
           [[u \in Threads |-> phaseOf(u)] EXCEPT ![t] =
              CASE label = "held" -> "holding"
                [] label \in {"slow", "flag", "parked"} -> "waiting"
                [] label \in {"idle", "wake"} -> "idle"]
BY Zenon DEF TypeOK, Goto, phaseOf, PCs

(* When nobody holds the lock, LockSpec lets a thread that wants it have it. *)
LEMMA AcquireWhenFree ==
  ASSUME LibraryFacts, TypeOK, NEW t \in Threads, Goto(t, "held"), pc[t] \in {"idle", "parked"},
         \A u \in Threads : pc[u] # "held"
  PROVE  L!Acquire(t)
<1> DEFINE phase == [u \in Threads |-> phaseOf(u)]
<1>1. phase' = [phase EXCEPT ![t] = "holding"]
  BY PhaseOfOne, Zenon DEF PCs
<1>2. phase[t] \in {"idle", "waiting"}
  BY Zenon DEF phaseOf
<1>3. L!Holders = {}
  BY Zenon DEF L!Holders, phaseOf, TypeOK, PCs
<1>4. L!Cardinality({}) = Cardinality({})
  BY Zenon DEF L!Cardinality, Cardinality
<1>5. L!Cardinality(L!Holders) < 1
  BY <1>3, <1>4, CountEmpty
<1> QED
  BY <1>1, <1>2, <1>5, Zenon DEF L!Acquire

-----------------------------------------------------------------------------
SpinInv ==
  /\ Spin!TypeOK
  /\ spinState = 0 <=> \A t \in Threads : spinPC[t] # "held"
  /\ \A s, t \in Threads : spinPC[s] = "held" /\ spinPC[t] = "held" => s = t

(* The word is 0 exactly when nobody holds the lock. *)
LEMMA SpinInvariant == Spin!Spec => []SpinInv
<1>1. Spin!Init => SpinInv
  BY DEF Spin!Init, SpinInv, Spin!TypeOK
<1>2. SpinInv /\ [Spin!Next]_(Spin!vars) => SpinInv'
  <2> SUFFICES ASSUME SpinInv, [Spin!Next]_(Spin!vars) PROVE SpinInv'
    BY Zenon
  <2>1. CASE UNCHANGED Spin!vars
    BY <2>1, Zenon DEF SpinInv, Spin!TypeOK, Spin!vars
  <2>2. ASSUME NEW t \in Threads, Spin!LockAcquire(t) \/ Spin!TryLock(t) PROVE SpinInv'
    BY <2>2 DEF Spin!LockAcquire, Spin!TryLock, Spin!CAS, SpinInv, Spin!TypeOK
  <2>3. ASSUME NEW t \in Threads, Spin!LockSpin(t) PROVE SpinInv'
    BY <2>3, Zenon DEF Spin!LockSpin, SpinInv, Spin!TypeOK
  <2>4. ASSUME NEW t \in Threads, Spin!Unlock(t) PROVE SpinInv'
    BY <2>4 DEF Spin!Unlock, SpinInv, Spin!TypeOK
  <2> QED
    BY <2>1, <2>2, <2>3, <2>4, Zenon DEF Spin!Next
<1> QED
  BY <1>1, <1>2, PTL DEF Spin!Spec

-----------------------------------------------------------------------------
(* FiniteSets as Sem sees it. *)
LEMMA SemCardinality ==
  \A S : Sem!Cardinality(S) = Cardinality(S) /\ (Sem!IsFiniteSet(S) <=> IsFiniteSet(S))
BY Zenon DEF Sem!Cardinality, Cardinality, Sem!IsFiniteSet, IsFiniteSet

(* A channel is queued, or popped or closed, only while somebody waits on   *)
(* it; a thread that signals has popped a channel; and used as a lock,      *)
(* nobody waits or signals who has passed Wait.                             *)
Channels ==
  /\ \A t \in Sem!InFlight \cup Elements(semWaiters) : semPC[t] = "blocked"
  /\ \A t \in Threads : semPC[t] = "blocked" => t \in Sem!InFlight \cup Elements(semWaiters)
  /\ Sem!InFlight \cap Elements(semWaiters) = {}
  /\ Distinct(semWaiters)
  /\ \A t \in Threads : semPC[t] = "closing" => semPopped[t] \in Threads \ semClosed
  /\ \A t, u \in Threads : semPC[t] = "closing" /\ semPC[u] = "closing" /\ semPopped[t] = semPopped[u] => t = u

SemInv ==
  /\ Sem!TypeOK /\ Sem!PermitsBalance /\ Channels
  /\ semAsLock => semOut = Sem!Cardinality(semHolders) /\ \A t \in semHolders : semPC[t] = "idle"

(* Channels says what BlockedIsQueuedOrInFlight says of the queue. *)
LEMMA ChannelsSuffice == Sem!TypeOK /\ Channels => Sem!BlockedIsQueuedOrInFlight
<1> SUFFICES ASSUME Sem!TypeOK, Channels PROVE Sem!BlockedIsQueuedOrInFlight
  BY Zenon
<1>1. ASSUME NEW t \in Threads
      PROVE  semPC[t] = "blocked" <=>
               (t \in Sem!InFlight) # (\E i \in 1..Len(semWaiters) : semWaiters[i] = t)
  <2> DEFINE queued == \E i \in 1..Len(semWaiters) : semWaiters[i] = t
             inFlight == t \in Sem!InFlight
  <2>1. queued <=> t \in Elements(semWaiters)
    BY Zenon DEF Elements
  <2>2. semPC[t] = "blocked" <=> queued \/ inFlight
    BY <2>1, Zenon DEF Channels
  <2>3. ~(queued /\ inFlight)
    BY <2>1, Zenon DEF Channels
  <2>4. queued \in BOOLEAN /\ inFlight \in BOOLEAN
    OBVIOUS
  <2> HIDE DEF queued, inFlight
  <2>5. semPC[t] = "blocked" <=> inFlight # queued
    BY <2>2, <2>3, <2>4, Zenon
  <2> QED
    BY <2>5, Zenon DEF queued, inFlight
<1> QED
  BY <1>1, Zenon DEF Channels, Sem!BlockedIsQueuedOrInFlight, Distinct

(* The threads on their way out of Wait are finitely many. *)
LEMMA InFlightFinite ==
  ASSUME LibraryFacts, Sem!ConstantsOK, Sem!TypeOK, Channels
  PROVE  Sem!InFlight \subseteq Threads /\ Sem!IsFiniteSet(Sem!InFlight) /\ Sem!Cardinality(Sem!InFlight) \in Nat
<1>1. Sem!InFlight \subseteq Threads
  <2>1. semClosed \subseteq Threads /\ \A t \in Threads : semPC[t] = "closing" => semPopped[t] \in Threads
    BY Zenon DEF Sem!TypeOK, Channels
  <2> QED
    BY <2>1, Zenon DEF Sem!InFlight
<1> QED
  BY <1>1, CountSubset, CountType, SemCardinality, Zenon DEF Sem!ConstantsOK

(* So are the threads that have passed Wait. *)
LEMMA HoldersFinite ==
  ASSUME LibraryFacts, Sem!ConstantsOK, Sem!TypeOK
  PROVE  Sem!IsFiniteSet(semHolders) /\ Sem!Cardinality(semHolders) \in Nat
  BY CountSubset, CountType, SemCardinality, Zenon DEF Sem!ConstantsOK, Sem!TypeOK

(* Wait takes a permit, or queues the caller. *)
LEMMA WaitPassesStep ==
  ASSUME LibraryFacts, Sem!ConstantsOK, SemInv, NEW t \in Threads, semAsLock => t \notin semHolders, Sem!WaitPasses(t),
         UNCHANGED semAsLock
  PROVE  SemInv'
<1>1. semValue' = semValue - 1 /\ semValue > 0 /\ semValue \in Int
  BY DEF Sem!WaitPasses, Sem!Passes, SemInv, Sem!TypeOK
<1>2. Sem!InFlight' = Sem!InFlight
  BY Zenon DEF Sem!WaitPasses, Sem!InFlight
<1>3. Sem!TypeOK'
  BY <1>1 DEF Sem!WaitPasses, SemInv, Sem!TypeOK
<1>4. Sem!PermitsBalance'
  <2>1. Sem!PositivePart(semValue') = Sem!PositivePart(semValue) - 1 /\ Sem!PositivePart(-semValue') = Sem!PositivePart(-semValue)
    BY <1>1 DEF Sem!PositivePart
  <2> QED
    BY <1>1, <1>2, <2>1, InFlightFinite DEF Sem!WaitPasses, SemInv, Sem!PermitsBalance, Sem!TypeOK,
                                            Sem!PositivePart
<1>5. Channels'
  BY <1>2, Zenon DEF Sem!WaitPasses, SemInv, Channels
<1>6. semAsLock => Sem!Cardinality(semHolders') = Sem!Cardinality(semHolders) + 1
  BY HoldersFinite, CountAdd, SemCardinality, Zenon DEF Sem!WaitPasses, SemInv
<1> QED
  BY <1>2, <1>3, <1>4, <1>5, <1>6, Zenon DEF Sem!WaitPasses, SemInv, Sem!TypeOK

(* Wait without a permit: the caller is queued, once. *)
LEMMA WaitBlocksStep ==
  ASSUME Sem!ConstantsOK, SemInv, NEW t \in Threads, semAsLock => t \notin semHolders, Sem!WaitBlocks(t),
         UNCHANGED semAsLock
  PROVE  SemInv'
<1>1. /\ semValue' = semValue - 1 /\ semValue <= 0 /\ semValue \in Int
      /\ semWaiters' = Append(semWaiters, t) /\ semWaiters \in Seq(Threads)
      /\ semPC[t] = "idle" /\ semPC' = [semPC EXCEPT ![t] = "blocked"] /\ semPC \in [Threads -> {"idle", "blocked", "closing"}]
  BY DEF Sem!WaitBlocks, Sem!Passes, SemInv, Sem!TypeOK
<1>2. Sem!InFlight' = Sem!InFlight
  BY <1>1 DEF Sem!WaitBlocks, Sem!InFlight
<1>3. t \notin Sem!InFlight \cup Elements(semWaiters)
  BY <1>1, Zenon DEF SemInv, Channels
<1>4. /\ semWaiters' \in Seq(Threads) /\ Len(semWaiters') = Len(semWaiters) + 1
      /\ Elements(semWaiters') = Elements(semWaiters) \cup {t}
      /\ Distinct(semWaiters')
  <2>1. Distinct(semWaiters)
    BY Zenon DEF SemInv, Channels
  <2> QED
    BY <1>1, <1>3, <2>1, WaitLemma, AppendTo
<1>5. Sem!TypeOK'
  BY <1>1, <1>4 DEF Sem!WaitBlocks, SemInv, Sem!TypeOK
<1>6. Sem!PermitsBalance'
  <2>1. Sem!PositivePart(semValue') = 0 /\ Sem!PositivePart(semValue) = 0 /\ Sem!PositivePart(-semValue') = Sem!PositivePart(-semValue) + 1
    BY <1>1 DEF Sem!PositivePart
  <2> QED
    BY <1>1, <1>2, <1>4, <2>1, Zenon DEF Sem!WaitBlocks, SemInv, Sem!PermitsBalance
<1>7. Channels'
  <2>1. semPopped' = semPopped /\ semClosed' = semClosed
    BY Zenon DEF Sem!WaitBlocks
  <2>2. \A u \in Sem!InFlight' \cup Elements(semWaiters') : semPC'[u] = "blocked"
    BY <1>1, <1>2, <1>4 DEF SemInv, Channels
  <2> QED
    BY <1>1, <1>2, <1>3, <1>4, <2>1, <2>2 DEF SemInv, Channels
<1> QED
  BY <1>1, <1>5, <1>6, <1>7, Zenon DEF Sem!WaitBlocks, SemInv, Sem!TypeOK

(* The blocked Wait returns: a permit in flight is handed out. *)
LEMMA WaitReturnsStep ==
  ASSUME LibraryFacts, Sem!ConstantsOK, SemInv, NEW t \in Threads, Sem!WaitReturns(t), UNCHANGED semAsLock
  PROVE  SemInv'
<1>1. /\ semPC[t] = "blocked" /\ t \in semClosed /\ semClosed' = semClosed \ {t}
      /\ semPC' = [semPC EXCEPT ![t] = "idle"] /\ semPC \in [Threads -> {"idle", "blocked", "closing"}]
      /\ semHolders' = semHolders \cup {t} /\ semOut' = semOut + 1
      /\ UNCHANGED <<semValue, semWaiters, semPopped>>
  BY Zenon DEF Sem!WaitReturns, SemInv, Sem!TypeOK
<1>2. Sem!InFlight' = Sem!InFlight \ {t} /\ t \in Sem!InFlight
  BY <1>1 DEF Sem!InFlight, SemInv, Channels
<1>3. t \notin Elements(semWaiters)
  BY <1>2, Zenon DEF SemInv, Channels
<1>4. Sem!TypeOK'
  BY <1>1 DEF SemInv, Sem!TypeOK
<1>5. Sem!PermitsBalance'
  <2>1. Sem!Cardinality(Sem!InFlight') = Sem!Cardinality(Sem!InFlight) - 1
    BY <1>2, InFlightFinite, CountRemove, SemCardinality, Zenon DEF SemInv
  <2> QED
    BY <1>1, <2>1, InFlightFinite DEF SemInv, Sem!TypeOK, Sem!PermitsBalance, Sem!PositivePart
<1>6. Channels'
  <2>1. \A u \in Sem!InFlight' \cup Elements(semWaiters') : semPC'[u] = "blocked"
    BY <1>1, <1>2, <1>3 DEF SemInv, Channels
  <2> QED
    BY <1>1, <1>2, <1>3, <2>1 DEF SemInv, Channels
<1>7. semAsLock => Sem!Cardinality(semHolders') = Sem!Cardinality(semHolders) + 1
  BY <1>1, HoldersFinite, CountAdd, SemCardinality, Zenon DEF SemInv
<1> QED
  BY <1>1, <1>4, <1>5, <1>6, <1>7, Zenon DEF SemInv, Sem!TypeOK

(* Signal puts the permit back, or hands it to the first of the queue. *)
LEMMA SignalFreeStep ==
  ASSUME LibraryFacts, Sem!ConstantsOK, SemInv, NEW t \in Threads, semAsLock => t \in semHolders, Sem!SignalFree(t),
         UNCHANGED semAsLock
  PROVE  SemInv'
<1>1. semValue' = semValue + 1 /\ semValue >= 0 /\ semValue \in Int
  BY DEF Sem!SignalFree, SemInv, Sem!TypeOK, Sem!PermitsBalance, Sem!PositivePart
<1>2. Sem!InFlight' = Sem!InFlight
  BY Zenon DEF Sem!SignalFree, Sem!InFlight
<1>3. Sem!TypeOK'
  BY <1>1 DEF Sem!SignalFree, SemInv, Sem!TypeOK
<1>4. Sem!PermitsBalance'
  <2>1. Sem!PositivePart(semValue') = Sem!PositivePart(semValue) + 1 /\ Sem!PositivePart(-semValue') = Sem!PositivePart(-semValue)
    BY <1>1 DEF Sem!PositivePart
  <2> QED
    BY <1>1, <1>2, <2>1, InFlightFinite DEF Sem!SignalFree, SemInv, Sem!PermitsBalance, Sem!TypeOK,
                                            Sem!PositivePart
<1>5. Channels'
  BY <1>2, Zenon DEF Sem!SignalFree, SemInv, Channels
<1>6. semAsLock => Sem!Cardinality(semHolders') = Sem!Cardinality(semHolders) - 1
  BY HoldersFinite, CountRemove, SemCardinality, Zenon DEF Sem!SignalFree, SemInv
<1> QED
  BY <1>2, <1>3, <1>4, <1>5, <1>6, Zenon DEF Sem!SignalFree, SemInv, Sem!TypeOK

(* Signal with a queue: the permit is in flight to the first of it. *)
LEMMA SignalPopStep ==
  ASSUME LibraryFacts, Sem!ConstantsOK, SemInv, NEW t \in Threads, semAsLock => t \in semHolders, Sem!SignalPop(t),
         UNCHANGED semAsLock
  PROVE  SemInv'
<1>1. PICK w : w = Head(semWaiters)
  BY Zenon
<1>2. /\ semPC[t] = "idle" /\ semWaiters # <<>> /\ semValue' = semValue + 1
      /\ semPopped' = [semPopped EXCEPT ![t] = w] /\ semWaiters' = Tail(semWaiters)
      /\ semPC' = [semPC EXCEPT ![t] = "closing"] /\ semPC \in [Threads -> {"idle", "blocked", "closing"}]
      /\ semHolders' = semHolders \ {t} /\ semOut' = semOut - 1 /\ semClosed' = semClosed
      /\ semWaiters \in Seq(Threads) /\ semPopped \in [Threads -> Threads \cup {NoThread}]
  BY <1>1, Zenon DEF Sem!SignalPop, SemInv, Sem!TypeOK
<1>3. /\ w \in Threads /\ w \in Elements(semWaiters) /\ semWaiters' \in Seq(Threads)
      /\ Distinct(semWaiters') /\ Len(semWaiters') = Len(semWaiters) - 1
      /\ Elements(semWaiters') = Elements(semWaiters) \ {w}
  <2>1. Distinct(semWaiters)
    BY Zenon DEF SemInv, Channels
  <2> QED
    BY <1>1, <1>2, <2>1, PopLemma, Zenon
<1>4. semPC[w] = "blocked" /\ w \notin Sem!InFlight /\ w # t
  BY <1>2, <1>3, Zenon DEF SemInv, Channels
<1>5. Sem!InFlight' = Sem!InFlight \cup {w}
  BY <1>2, <1>3, Zenon DEF Sem!InFlight
<1>6. Sem!TypeOK'
  BY <1>2, <1>3 DEF SemInv, Sem!TypeOK
<1>7. Sem!PermitsBalance'
  <2>1. Sem!Cardinality(Sem!InFlight') = Sem!Cardinality(Sem!InFlight) + 1
    BY <1>4, <1>5, InFlightFinite, CountAdd, SemCardinality, Zenon DEF SemInv
  <2>2. semValue < 0
    <3>1. Len(semWaiters) # 0
      BY <1>2, EmptyList, Zenon
    <3> QED
      BY <3>1 DEF SemInv, Sem!TypeOK, Sem!PermitsBalance, Sem!PositivePart
  <2>3. /\ Sem!PositivePart(semValue') = 0 /\ Sem!PositivePart(semValue) = 0
        /\ Sem!PositivePart(-semValue') = Sem!PositivePart(-semValue) - 1
    BY <1>2, <2>2 DEF SemInv, Sem!TypeOK, Sem!PositivePart
  <2>4. semOut \in Int /\ Sem!Cardinality(Sem!InFlight) \in Nat
    BY InFlightFinite, Zenon DEF SemInv, Sem!TypeOK
  <2> QED
    BY <1>2, <1>3, <2>1, <2>3, <2>4 DEF SemInv, Sem!PermitsBalance
<1>8. Channels'
  <2>1. \A u \in Sem!InFlight' \cup Elements(semWaiters') : semPC'[u] = "blocked"
    BY <1>2, <1>3, <1>4, <1>5 DEF SemInv, Channels
  <2>2. \A u \in Threads : semPC'[u] = "blocked" => u \in Sem!InFlight' \cup Elements(semWaiters')
    BY <1>2, <1>3, <1>5, Zenon DEF SemInv, Channels
  <2>3. Sem!InFlight' \cap Elements(semWaiters') = {}
    BY <1>3, <1>5, Zenon DEF SemInv, Channels
  <2>4. w \notin semClosed /\ \A u \in Threads : semPC[u] = "closing" => semPopped[u] # w
    BY <1>4, Zenon DEF Sem!InFlight
  <2>5. \A u \in Threads : semPC'[u] = "closing" => semPopped'[u] \in Threads \ semClosed'
    BY <1>2, <1>3, <2>4, Zenon DEF SemInv, Channels
  <2>6. \A u, v \in Threads :
          semPC'[u] = "closing" /\ semPC'[v] = "closing" /\ semPopped'[u] = semPopped'[v] => u = v
    BY <1>2, <2>4, Zenon DEF SemInv, Channels
  <2> QED
    BY <1>3, <2>1, <2>2, <2>3, <2>5, <2>6, Zenon DEF Channels
<1>9. semAsLock => Sem!Cardinality(semHolders') = Sem!Cardinality(semHolders) - 1
  BY <1>2, HoldersFinite, CountRemove, SemCardinality, Zenon DEF SemInv
<1> QED
  BY <1>2, <1>6, <1>7, <1>8, <1>9, Zenon DEF SemInv, Sem!TypeOK

(* The channel is closed: the permit stays in flight. *)
LEMMA SignalCloseStep ==
  ASSUME Sem!ConstantsOK, SemInv, NEW t \in Threads, Sem!SignalClose(t), UNCHANGED semAsLock
  PROVE  SemInv'
<1>1. /\ semPC[t] = "closing" /\ semClosed' = semClosed \cup {semPopped[t]}
      /\ semPopped' = [semPopped EXCEPT ![t] = NoThread]
      /\ semPC' = [semPC EXCEPT ![t] = "idle"] /\ semPC \in [Threads -> {"idle", "blocked", "closing"}]
      /\ semPopped \in [Threads -> Threads \cup {NoThread}] /\ semPopped[t] \in Threads
      /\ UNCHANGED <<semValue, semWaiters, semHolders, semOut>>
  BY Zenon DEF Sem!SignalClose, SemInv, Sem!TypeOK, Channels
<1>2. Sem!InFlight' = Sem!InFlight
  BY <1>1, Zenon DEF Sem!InFlight
<1>3. Sem!TypeOK'
  BY <1>1, Zenon DEF SemInv, Sem!TypeOK
<1>4. Sem!PermitsBalance'
  BY <1>1, <1>2, Zenon DEF SemInv, Sem!PermitsBalance
<1>5. Channels'
  <2>1. \A u \in Threads : semPC'[u] = "closing" => u # t /\ semPC[u] = "closing" /\ semPopped'[u] = semPopped[u]
    BY <1>1, Zenon
  <2>2. \A u \in Threads : semPC'[u] = "blocked" <=> semPC[u] = "blocked"
    BY <1>1, Zenon
  <2>3. \A u \in Sem!InFlight' \cup Elements(semWaiters') : semPC'[u] = "blocked"
    BY <1>1, <1>2 DEF SemInv, Channels
  <2>4. \A u \in Threads : semPC'[u] = "closing" => semPopped'[u] \in Threads \ semClosed'
    BY <1>1, <2>1, Zenon DEF SemInv, Channels
  <2> QED
    BY <1>1, <1>2, <2>1, <2>2, <2>3, <2>4 DEF SemInv, Channels
<1> QED
  BY <1>1, <1>3, <1>4, <1>5, Zenon DEF SemInv, Sem!TypeOK

(* No step of Wait or Signal breaks the invariant. *)
LEMMA SemStep == ASSUME LibraryFacts, Sem!ConstantsOK, SemInv, [Sem!Next]_(Sem!vars) PROVE SemInv'
<1>1. CASE UNCHANGED Sem!vars
  BY <1>1 DEF Sem!vars, SemInv, Sem!TypeOK, Sem!PermitsBalance, Channels, Sem!InFlight
<1>2. ASSUME NEW t \in Threads, Sem!Wait(t) \/ Sem!Signal(t) \/ Sem!Continue(t) PROVE SemInv'
  BY <1>2, WaitPassesStep, WaitBlocksStep, WaitReturnsStep, SignalFreeStep, SignalPopStep,
     SignalCloseStep, Zenon DEF Sem!Wait, Sem!Signal, Sem!Continue
<1> QED
  BY <1>1, <1>2, Zenon DEF Sem!Next

(* The invariant of the semaphore holds throughout. *)
LEMMA SemaphoreInvariant == ASSUME LibraryFacts, Sem!ConstantsOK PROVE Sem!Spec => []SemInv
<1>1. Sem!Init => SemInv
  <2> SUFFICES ASSUME Sem!Init PROVE SemInv
    BY Zenon
  <2>1. Sem!InFlight = {} /\ Elements(semWaiters) = {} /\ Len(semWaiters) = 0
    BY DEF Sem!Init, Sem!InFlight, Elements
  <2>2. Sem!Cardinality({}) = 0
    BY CountEmpty, SemCardinality, Zenon
  <2>3. Sem!TypeOK
    BY DEF Sem!Init, Sem!TypeOK, Sem!ConstantsOK
  <2>4. Sem!PermitsBalance
    BY <2>1, <2>2 DEF Sem!Init, Sem!PermitsBalance, Sem!PositivePart, Sem!ConstantsOK
  <2> QED
    BY <2>1, <2>2, <2>3, <2>4 DEF Sem!Init, SemInv, Channels, Distinct
<1>2. SemInv /\ [Sem!Next]_(Sem!vars) => SemInv'
  BY SemStep, Zenon
<1> QED
  BY <1>1, <1>2, PTL DEF Sem!Spec

(* With a permit left, or handed over to t, LockSpec lets t have the lock. *)
LEMMA AcquireWithPermit ==
  ASSUME LibraryFacts, Sem!ConstantsOK, SemInv, NEW t \in Threads, semAsLock, semAsLock' = semAsLock,
         semValue > 0 \/ Sem!InFlight # {}, t \notin semHolders, semHolders' = semHolders \cup {t},
         \A u \in Threads : semPC'[u] = IF u = t THEN "idle" ELSE semPC[u]
  PROVE  Sem!L!Acquire(t)
<1> DEFINE phase == [u \in Threads |-> IF semAsLock THEN Sem!phaseOf(u) ELSE "idle"]
<1>1. Sem!L!Holders = semHolders
  BY Zenon DEF Sem!L!Holders, Sem!phaseOf, SemInv, Sem!TypeOK
<1>2. Sem!L!Cardinality(semHolders) = Sem!Cardinality(semHolders)
  BY Zenon DEF Sem!L!Cardinality, Sem!Cardinality
<1>3. Sem!Cardinality(semHolders) < Initial
  <2>1. Sem!Cardinality(Sem!InFlight) \in Nat /\ (Sem!InFlight # {} => Sem!Cardinality(Sem!InFlight) > 0)
    BY InFlightFinite, CountEmpty, SemCardinality DEF SemInv
  <2>2. semValue \in Int /\ semOut \in Int /\ semOut = Sem!Cardinality(semHolders)
    BY Zenon DEF SemInv, Sem!TypeOK
  <2> QED
    BY <2>1, <2>2 DEF SemInv, Sem!PermitsBalance, Sem!PositivePart, Sem!ConstantsOK
<1>4. phase[t] \in {"idle", "waiting"}
  BY Zenon DEF Sem!phaseOf
<1>5. \A u \in Threads : Sem!phaseOf(u)' = IF u = t THEN "holding" ELSE Sem!phaseOf(u)
  BY Zenon DEF Sem!phaseOf, SemInv
<1>6. phase' = [phase EXCEPT ![t] = "holding"]
  BY <1>5, Zenon
<1> QED
  BY <1>1, <1>2, <1>3, <1>4, <1>6, Zenon DEF Sem!L!Acquire

-----------------------------------------------------------------------------
WaitingWriters == {w \in Writers : rwPC[w] \in {"asleep", "woken"}}

(* Nobody is twice on the list of a condition variable: otherwise a Signal  *)
(* would leave somebody on the list who is awake.                           *)
RWInv == RW!TypeOK /\ RW!Exclusion /\ RW!NoMissedWakeup /\ Distinct(rwReadOK) /\ Distinct(rwWriteOK)

(* FiniteSets and Lists as RWLock sees them. *)
LEMMA RWCardinality ==
  \A S : RW!Cardinality(S) = Cardinality(S) /\ (RW!IsFiniteSet(S) <=> IsFiniteSet(S))
BY Zenon DEF RW!Cardinality, Cardinality, RW!IsFiniteSet, IsFiniteSet

(* WaitLemma, for the condition variables of the lock. *)
LEMMA RWWait ==
  ASSUME NEW S, NEW list \in Seq(S), Distinct(list), NEW x \in S
  PROVE  /\ Append(list, x) \in Seq(S) /\ Append(list, x) # <<>>
         /\ RW!AllWoken(Append(list, x)) = RW!AllWoken(list) \cup {x}
         /\ x \notin RW!AllWoken(list) => Distinct(Append(list, x))
BY WaitLemma, Zenon DEF RW!AllWoken, Elements

(* SignalLemma, for the condition variables of the lock. *)
LEMMA RWSignal ==
  ASSUME NEW S, NEW list \in Seq(S), Distinct(list), NEW n \in {0, 1}
  PROVE  /\ RW!Asleep(list, n) \in Seq(S) /\ Distinct(RW!Asleep(list, n))
         /\ RW!AllWoken(RW!Asleep(list, n)) = RW!AllWoken(list) \ RW!Woken(list, n)
         /\ RW!Woken(list, n) \subseteq RW!AllWoken(list)
         /\ n = 1 /\ list # <<>> => RW!Woken(list, n) # {}
<1>1. \A l : RW!AllWoken(l) = Elements(l)
  BY Zenon DEF RW!AllWoken, Elements
<1>2. RW!Woken(list, n) = Woken(list, n) /\ RW!Asleep(list, n) = Asleep(list, n)
  BY Zenon DEF RW!Woken, Woken, RW!Asleep, Asleep
<1>3. n \in Nat /\ (n = 1 => n > 0)
  OBVIOUS
<1>4. /\ Asleep(list, n) \in Seq(S) /\ Distinct(Asleep(list, n))
      /\ Elements(Asleep(list, n)) = Elements(list) \ Woken(list, n)
      /\ Woken(list, n) \subseteq Elements(list)
      /\ n > 0 /\ list # <<>> => Woken(list, n) # {}
  BY <1>3, SignalLemma, Zenon
<1> QED
  BY <1>1, <1>2, <1>3, <1>4, Zenon

(* The counters count finite sets. *)
LEMMA RWCounting ==
  ASSUME LibraryFacts, RW!ConstantsOK
  PROVE  /\ RW!IsFiniteSet(RW!In(Readers)) /\ RW!IsFiniteSet(RW!In(Writers)) /\ RW!IsFiniteSet(WaitingWriters)
         /\ RW!Cardinality(RW!In(Readers)) \in Nat /\ RW!Cardinality(WaitingWriters) \in Nat
         /\ RW!Cardinality(RW!In(Readers)) = 0 <=> RW!In(Readers) = {}
         /\ RW!Cardinality(WaitingWriters) = 0 <=> WaitingWriters = {}
<1>1. RW!In(Readers) \subseteq Readers /\ RW!In(Writers) \subseteq Writers /\ WaitingWriters \subseteq Writers
  BY Zenon DEF RW!In, WaitingWriters
<1> QED
  BY <1>1, CountSubset, CountType, CountEmpty, RWCardinality, Zenon DEF RW!ConstantsOK

(* RLock goes to sleep, or lets the reader in. *)
LEMMA RWReadEnters ==
  ASSUME LibraryFacts, RW!ConstantsOK, RWInv, NEW r \in Readers, RW!RLock(r) \/ RW!RLockWoken(r)
  PROVE  RWInv'
<1>1. /\ rwPC[r] \in {"idle", "woken"} /\ RW!EnterRead(r)
      /\ UNCHANGED <<rwActive, rwWaiters, rwWriteOK>>
  BY Zenon DEF RW!RLock, RW!RLockWoken
<1>2. /\ r \in RW!Users /\ r \notin Writers
      /\ r \notin RW!AllWoken(rwReadOK) /\ r \notin RW!AllWoken(rwWriteOK)
  BY <1>1, Zenon DEF RW!Users, RW!ConstantsOK, RWInv, RW!NoMissedWakeup
<1>3. CASE rwActive \/ rwWaiters > 0
  <2>1. /\ rwReadOK' = Append(rwReadOK, r) /\ rwReaders' = rwReaders
        /\ rwPC' = [u \in RW!Users |-> IF u = r THEN "asleep" ELSE rwPC[u]]
    BY <1>1, <1>3, Zenon DEF RW!EnterRead, RW!Step
  <2>2. /\ rwReadOK' \in Seq(Readers) /\ Distinct(rwReadOK')
        /\ RW!AllWoken(rwReadOK') = RW!AllWoken(rwReadOK) \cup {r}
    BY <1>2, <2>1, RWWait DEF RWInv, RW!TypeOK
  <2>3. RW!In(Readers)' = RW!In(Readers) /\ RW!In(Writers)' = RW!In(Writers) /\ WaitingWriters' = WaitingWriters
    BY <1>1, <1>2, <2>1, Zenon DEF RW!In, WaitingWriters, RW!Users
  <2>4. RW!TypeOK'
    BY <1>1, <2>1, <2>2, Zenon DEF RWInv, RW!TypeOK
  <2>5. RW!Exclusion'
    BY <1>1, <2>1, <2>3, Zenon DEF RWInv, RW!Exclusion, WaitingWriters
  <2>6. RW!NoMissedWakeup'
    BY <1>1, <1>2, <1>3, <2>1, <2>2, Zenon DEF RWInv, RW!NoMissedWakeup, RW!Users
  <2> QED
    BY <1>1, <2>2, <2>4, <2>5, <2>6, Zenon DEF RWInv
<1>4. CASE ~(rwActive \/ rwWaiters > 0)
  <2>1. /\ rwReadOK' = rwReadOK /\ rwReaders' = rwReaders + 1
        /\ rwPC' = [u \in RW!Users |-> IF u = r THEN "in" ELSE rwPC[u]]
    BY <1>1, <1>4, Zenon DEF RW!EnterRead, RW!Step
  <2>2. /\ RW!In(Readers)' = RW!In(Readers) \cup {r} /\ r \notin RW!In(Readers)
        /\ RW!In(Writers)' = RW!In(Writers) /\ WaitingWriters' = WaitingWriters
    BY <1>1, <1>2, <2>1, Zenon DEF RW!In, WaitingWriters, RW!Users
  <2>3. RW!In(Writers) = {}
    BY <1>4, Zenon DEF RWInv, RW!Exclusion
  <2>4. RW!Cardinality(RW!In(Readers)') = RW!Cardinality(RW!In(Readers)) + 1
    BY <2>2, RWCounting, CountAdd, RWCardinality, Zenon
  <2>5. RW!TypeOK'
    BY <1>1, <2>1 DEF RWInv, RW!TypeOK
  <2>6. RW!Exclusion'
    BY <1>1, <2>1, <2>2, <2>3, <2>4, Zenon DEF RWInv, RW!Exclusion, WaitingWriters
  <2>7. RW!NoMissedWakeup'
    BY <1>1, <1>2, <1>4, <2>1 DEF RWInv, RW!TypeOK, RW!NoMissedWakeup, RW!Users
  <2> QED
    BY <1>1, <2>1, <2>5, <2>6, <2>7, Zenon DEF RWInv
<1> QED
  BY <1>3, <1>4, Zenon

(* Lock goes to sleep, counted among the waiting, or lets the writer in. *)
LEMMA RWWriteEnters ==
  ASSUME LibraryFacts, RW!ConstantsOK, RWInv, NEW w \in Writers, RW!Lock(w) \/ RW!LockWoken(w)
  PROVE  RWInv'
<1> DEFINE waiting == IF rwPC[w] = "idle" THEN rwWaiters + 1 ELSE rwWaiters
<1>1. /\ rwPC[w] \in {"idle", "woken"} /\ RW!EnterWrite(w, waiting)
      /\ UNCHANGED <<rwReaders, rwReadOK>>
  BY Zenon DEF RW!Lock, RW!LockWoken
<1>2. /\ w \in RW!Users /\ w \notin Readers
      /\ w \notin RW!AllWoken(rwReadOK) /\ w \notin RW!AllWoken(rwWriteOK)
  BY <1>1, Zenon DEF RW!Users, RW!ConstantsOK, RWInv, RW!NoMissedWakeup
<1>3. /\ waiting \in Nat /\ waiting = RW!Cardinality(WaitingWriters \cup {w})
      /\ waiting - 1 \in Nat /\ waiting - 1 = RW!Cardinality(WaitingWriters \ {w})
  <2>1. rwWaiters = RW!Cardinality(WaitingWriters) /\ rwWaiters \in Nat
    BY Zenon DEF RWInv, RW!TypeOK, RW!Exclusion, WaitingWriters
  <2>2. CASE rwPC[w] = "idle"
    <3>1. w \notin WaitingWriters /\ WaitingWriters \ {w} = WaitingWriters
      BY <2>2, Zenon DEF WaitingWriters
    <3>2. RW!Cardinality(WaitingWriters \cup {w}) = RW!Cardinality(WaitingWriters) + 1
      BY <3>1, RWCounting, CountAdd, RWCardinality, Zenon
    <3>3. waiting = rwWaiters + 1
      BY <2>2, Zenon
    <3>4. RW!Cardinality(WaitingWriters \ {w}) = RW!Cardinality(WaitingWriters)
      BY <3>1, Zenon
    <3> QED
      BY <2>1, <3>2, <3>3, <3>4
  <2>3. CASE rwPC[w] = "woken"
    <3>1. w \in WaitingWriters /\ WaitingWriters \cup {w} = WaitingWriters
      BY <2>3, Zenon DEF WaitingWriters
    <3>2. RW!Cardinality(WaitingWriters \ {w}) = RW!Cardinality(WaitingWriters) - 1
      BY <3>1, RWCounting, CountRemove, RWCardinality, Zenon
    <3>3. RW!Cardinality(WaitingWriters) # 0
      BY <3>1, RWCounting, Zenon
    <3>4. waiting = rwWaiters
      BY <2>3, Zenon
    <3>5. RW!Cardinality(WaitingWriters \cup {w}) = RW!Cardinality(WaitingWriters)
      BY <3>1, Zenon
    <3> QED
      BY <2>1, <3>2, <3>3, <3>4, <3>5
  <2> QED
    BY <1>1, <2>2, <2>3, Zenon
<1> HIDE DEF waiting
<1>4. CASE rwActive \/ rwReaders > 0
  <2>1. /\ rwWriteOK' = Append(rwWriteOK, w) /\ rwWaiters' = waiting
        /\ rwActive' = rwActive
        /\ rwPC' = [u \in RW!Users |-> IF u = w THEN "asleep" ELSE rwPC[u]]
    BY <1>1, <1>4, Zenon DEF RW!EnterWrite, RW!Step
  <2>2. /\ rwWriteOK' \in Seq(Writers) /\ Distinct(rwWriteOK')
        /\ RW!AllWoken(rwWriteOK') = RW!AllWoken(rwWriteOK) \cup {w}
    BY <1>2, <2>1, RWWait DEF RWInv, RW!TypeOK
  <2>3. /\ RW!In(Readers)' = RW!In(Readers) /\ RW!In(Writers)' = RW!In(Writers)
        /\ WaitingWriters' = WaitingWriters \cup {w}
    BY <1>1, <1>2, <2>1, Zenon DEF RW!In, WaitingWriters, RW!Users
  <2>4. RW!TypeOK'
    BY <1>1, <1>3, <2>1, <2>2, Zenon DEF RWInv, RW!TypeOK
  <2>5. RW!Exclusion'
    BY <1>1, <1>3, <2>1, <2>3, Zenon DEF RWInv, RW!Exclusion, WaitingWriters
  <2>6. waiting > 0
    BY <1>3
  <2>7. RW!NoMissedWakeup'
    BY <1>1, <1>2, <1>4, <2>1, <2>2, <2>6, Zenon DEF RWInv, RW!NoMissedWakeup, RW!Users
  <2> QED
    BY <1>1, <2>2, <2>4, <2>5, <2>7, Zenon DEF RWInv
<1>5. CASE ~(rwActive \/ rwReaders > 0)
  <2>1. /\ rwWriteOK' = rwWriteOK /\ rwWaiters' = waiting - 1
        /\ rwActive' = TRUE
        /\ rwPC' = [u \in RW!Users |-> IF u = w THEN "in" ELSE rwPC[u]]
    BY <1>1, <1>5, Zenon DEF RW!EnterWrite, RW!Step
  <2>2. RW!In(Readers) = {} /\ RW!In(Writers) = {}
    BY <1>5, RWCounting DEF RWInv, RW!TypeOK, RW!Exclusion
  <2>3. /\ RW!In(Readers)' = {} /\ RW!In(Writers)' = {w}
        /\ WaitingWriters' = WaitingWriters \ {w}
    BY <1>1, <1>2, <2>1, <2>2, Zenon DEF RW!In, WaitingWriters, RW!Users
  <2>4. RW!TypeOK'
    BY <1>1, <1>3, <2>1, Zenon DEF RWInv, RW!TypeOK
  <2>5. RW!Cardinality({w}) = 1
    BY CountSingleton, RWCardinality, Zenon
  <2>6. RW!Exclusion'
    BY <1>1, <1>3, <2>1, <2>2, <2>3, <2>5, Zenon DEF RWInv, RW!Exclusion, WaitingWriters
  <2>7. RW!NoMissedWakeup'
    BY <1>1, <1>2, <2>1, Zenon DEF RWInv, RW!NoMissedWakeup, RW!Users
  <2> QED
    BY <1>1, <2>1, <2>4, <2>6, <2>7, Zenon DEF RWInv
<1> QED
  BY <1>4, <1>5, Zenon

(* RUnlock: the last reader wakes a writer. *)
LEMMA RWReadLeaves ==
  ASSUME LibraryFacts, RW!ConstantsOK, RWInv, NEW r \in Readers, RW!RUnlock(r)
  PROVE  RWInv'
<1> DEFINE n == IF rwReaders = 1 THEN 1 ELSE 0
           woken == RW!Woken(rwWriteOK, n)
<1>1. /\ rwPC[r] = "in" /\ rwReaders' = rwReaders - 1
      /\ rwWriteOK' = RW!Asleep(rwWriteOK, n)
      /\ rwPC' = [u \in RW!Users |-> IF u = r THEN "idle" ELSE IF u \in woken THEN "woken" ELSE rwPC[u]]
      /\ UNCHANGED <<rwActive, rwWaiters, rwReadOK>>
  BY Zenon DEF RW!RUnlock, RW!Step
<1>2. /\ rwWriteOK' \in Seq(Writers) /\ Distinct(rwWriteOK')
      /\ RW!AllWoken(rwWriteOK') = RW!AllWoken(rwWriteOK) \ woken
      /\ woken \subseteq RW!AllWoken(rwWriteOK)
      /\ n = 1 /\ rwWriteOK # <<>> => woken # {}
  BY <1>1, RWSignal, Zenon DEF RWInv, RW!TypeOK
<1>3. /\ RW!AllWoken(rwWriteOK) \subseteq Writers /\ RW!AllWoken(rwReadOK) \subseteq Readers
      /\ \A u \in RW!AllWoken(rwWriteOK) : rwPC[u] = "asleep"
  BY ElementIn DEF RW!AllWoken, RWInv, RW!TypeOK, RW!NoMissedWakeup, RW!Users
<1>4. rwWriteOK' # <<>> => rwWriteOK # <<>>
  BY <1>1, EmptyList DEF RW!Asleep, RWInv, RW!TypeOK
<1>5. r \in RW!Users /\ r \notin Writers /\ r \in RW!In(Readers) /\ RW!In(Writers) = {}
  BY <1>1, Zenon DEF RW!Users, RW!ConstantsOK, RW!In, RWInv, RW!Exclusion
<1> HIDE DEF woken, n
<1>6. /\ RW!In(Readers)' = RW!In(Readers) \ {r} /\ RW!In(Writers)' = {} /\ WaitingWriters' = WaitingWriters
  BY <1>1, <1>2, <1>3, <1>5, Zenon DEF RW!In, WaitingWriters, RW!Users, RW!ConstantsOK
<1>7. /\ rwReaders = RW!Cardinality(RW!In(Readers)) /\ rwReaders \in Nat \ {0}
      /\ rwReaders - 1 = RW!Cardinality(RW!In(Readers)')
  BY <1>5, <1>6, RWCounting, CountRemove, RWCardinality, ZenonT(30) DEF RWInv, RW!Exclusion, RW!TypeOK
<1>8. RW!TypeOK'
  BY <1>1, <1>2, <1>7 DEF RWInv, RW!TypeOK
<1>9. RW!Exclusion'
  BY <1>1, <1>5, <1>6, <1>7, Zenon DEF RWInv, RW!Exclusion, WaitingWriters
<1>10. RW!NoMissedWakeup'
  <2>1. rwWriteOK' # <<>> => rwReaders' > 0 \/ \E w \in Writers : rwPC'[w] = "woken"
    <3>1. CASE rwReaders = 1
      <4>1. ASSUME rwWriteOK' # <<>> PROVE \E w \in woken : w \in Writers /\ w # r
        BY <1>2, <1>3, <1>4, <1>5, <3>1, <4>1, Zenon DEF n
      <4> QED
        BY <1>1, <4>1, Zenon DEF RW!Users
    <3>2. CASE rwReaders # 1
      BY <1>1, <1>7, <3>2
    <3> QED
      BY <3>1, <3>2, Zenon
  <2>2. rwReadOK' # <<>> => rwActive' \/ rwWaiters' > 0
    BY <1>1, Zenon DEF RWInv, RW!NoMissedWakeup
  <2>3. \A u \in RW!Users : rwPC'[u] = "asleep" <=> u \in RW!AllWoken(rwReadOK') \cup RW!AllWoken(rwWriteOK')
    BY <1>1, <1>2, <1>3, <1>5, Zenon DEF RWInv, RW!NoMissedWakeup, RW!ConstantsOK
  <2> QED
    BY <2>1, <2>2, <2>3, Zenon DEF RW!NoMissedWakeup
<1> QED
  BY <1>1, <1>2, <1>8, <1>9, <1>10, Zenon DEF RWInv

(* Unlock: a writer is woken if any waits, and else all readers are. *)
LEMMA RWWriteLeaves ==
  ASSUME LibraryFacts, RW!ConstantsOK, RWInv, NEW w \in Writers, RW!Unlock(w)
  PROVE  RWInv'
<1>1. /\ rwPC[w] = "in" /\ rwActive' = FALSE
      /\ UNCHANGED <<rwReaders, rwWaiters>>
  BY Zenon DEF RW!Unlock
<1>2. /\ RW!AllWoken(rwWriteOK) \subseteq Writers /\ RW!AllWoken(rwReadOK) \subseteq Readers
      /\ \A u \in RW!AllWoken(rwWriteOK) \cup RW!AllWoken(rwReadOK) : rwPC[u] = "asleep"
  BY ElementIn DEF RW!AllWoken, RWInv, RW!TypeOK, RW!NoMissedWakeup, RW!Users
<1>3. w \in RW!Users /\ w \notin Readers /\ RW!In(Writers) = {w} /\ RW!In(Readers) = {}
  <2>1. w \in RW!In(Writers) /\ RW!In(Readers) = {} /\ RW!Cardinality(RW!In(Writers)) = 1
    BY <1>1, Zenon DEF RW!In, RWInv, RW!Exclusion
  <2>2. RW!Cardinality(RW!In(Writers) \ {w}) = 0 /\ RW!IsFiniteSet(RW!In(Writers) \ {w})
    BY <2>1, RWCounting, CountRemove, RWCardinality
  <2>3. RW!In(Writers) \ {w} = {}
    BY <2>2, CountEmpty, RWCardinality, Zenon
  <2> QED
    BY <2>1, <2>3, Zenon DEF RW!Users, RW!ConstantsOK
<1>4. PICK woken : /\ woken \subseteq RW!AllWoken(rwWriteOK) \cup RW!AllWoken(rwReadOK)
                   /\ rwPC' = [u \in RW!Users |-> IF u = w THEN "idle"
                                              ELSE IF u \in woken THEN "woken" ELSE rwPC[u]]
                   /\ RW!AllWoken(rwWriteOK') = RW!AllWoken(rwWriteOK) \ woken
                   /\ RW!AllWoken(rwReadOK') = RW!AllWoken(rwReadOK) \ woken
                   /\ rwWriteOK' \in Seq(Writers) /\ Distinct(rwWriteOK')
                   /\ rwReadOK' \in Seq(Readers) /\ Distinct(rwReadOK')
                   /\ rwWriteOK' # <<>> => \E v \in Writers : v \in woken
                   /\ rwReadOK' # <<>> => rwWaiters > 0
  <2>1. CASE rwWaiters > 0
    <3> DEFINE awake == RW!Woken(rwWriteOK, 1)
    <3>1. /\ rwWriteOK' = RW!Asleep(rwWriteOK, 1) /\ rwReadOK' = rwReadOK
          /\ rwPC' = [u \in RW!Users |-> IF u = w THEN "idle"
                                     ELSE IF u \in awake THEN "woken" ELSE rwPC[u]]
      BY <2>1, Zenon DEF RW!Unlock, RW!Step
    <3>2. /\ rwWriteOK' \in Seq(Writers) /\ Distinct(rwWriteOK')
          /\ RW!AllWoken(rwWriteOK') = RW!AllWoken(rwWriteOK) \ awake
          /\ awake \subseteq RW!AllWoken(rwWriteOK)
          /\ rwWriteOK # <<>> => awake # {}
      BY <3>1, RWSignal, Zenon DEF RWInv, RW!TypeOK
    <3>3. rwWriteOK' # <<>> => rwWriteOK # <<>>
      BY <3>1, EmptyList DEF RW!Asleep, RWInv, RW!TypeOK
    <3> HIDE DEF awake
    <3>4. RW!AllWoken(rwReadOK) \ awake = RW!AllWoken(rwReadOK)
      BY <1>2, <3>2, Zenon DEF RW!ConstantsOK
    <3>5. rwWriteOK' # <<>> => \E v \in Writers : v \in awake
      BY <1>2, <3>2, <3>3, Zenon
    <3>6. rwReadOK' \in Seq(Readers) /\ Distinct(rwReadOK')
      BY <3>1, Zenon DEF RWInv, RW!TypeOK
    <3> QED
      BY <2>1, <3>1, <3>2, <3>4, <3>5, <3>6, Zenon
  <2>2. CASE ~(rwWaiters > 0)
    <3> DEFINE awake == RW!AllWoken(rwReadOK)
    <3>1. /\ rwWriteOK' = rwWriteOK /\ rwReadOK' = <<>>
          /\ rwPC' = [u \in RW!Users |-> IF u = w THEN "idle"
                                     ELSE IF u \in awake THEN "woken" ELSE rwPC[u]]
      BY <2>2, Zenon DEF RW!Unlock, RW!Step
    <3>2. WaitingWriters = {}
      BY <2>2, RWCounting DEF RWInv, RW!TypeOK, RW!Exclusion, WaitingWriters
    <3>3. RW!AllWoken(rwWriteOK) = {}
      BY <1>2, <3>2, Zenon DEF WaitingWriters
    <3>4. rwWriteOK = <<>>
      <4>1. ASSUME rwWriteOK # <<>> PROVE rwWriteOK[1] \in RW!AllWoken(rwWriteOK)
        <5>1. 1 \in 1..Len(rwWriteOK)
          BY <4>1, EmptyList DEF RWInv, RW!TypeOK
        <5> QED
          BY <5>1, Zenon DEF RW!AllWoken
      <4> QED
        BY <3>3, <4>1, Zenon
    <3>5. RW!AllWoken(<<>>) = {} /\ Distinct(<<>>) /\ <<>> \in Seq(Readers)
      BY EmptyList DEF RW!AllWoken, Distinct
    <3>6. rwWriteOK' \in Seq(Writers) /\ Distinct(rwWriteOK')
      BY <3>1, Zenon DEF RWInv, RW!TypeOK
    <3> HIDE DEF awake
    <3>7. awake = RW!AllWoken(rwReadOK)
      BY Zenon DEF awake
    <3> QED
      BY <3>1, <3>3, <3>4, <3>5, <3>6, <3>7, Zenon
  <2> QED
    BY <2>1, <2>2, Zenon
<1>5. RW!In(Readers)' = {} /\ RW!In(Writers)' = {} /\ WaitingWriters' = WaitingWriters
  BY <1>1, <1>2, <1>3, <1>4, Zenon DEF RW!In, WaitingWriters, RW!Users, RW!ConstantsOK
<1>6. RW!TypeOK'
  BY <1>1, <1>4, Zenon DEF RWInv, RW!TypeOK
<1>7. RW!Exclusion'
  BY <1>1, <1>3, <1>5, Zenon DEF RWInv, RW!Exclusion, WaitingWriters
<1>8. RW!NoMissedWakeup'
  <2>1. ASSUME rwWriteOK' # <<>> PROVE \E v \in Writers : rwPC'[v] = "woken"
    <3>1. PICK v \in Writers : v \in woken
      BY <1>4, <2>1, Zenon
    <3>2. v # w /\ v \in RW!Users
      BY <1>1, <1>2, <1>4, <3>1, Zenon DEF RW!Users
    <3> QED
      BY <1>4, <3>1, <3>2, Zenon
  <2>2. rwReadOK' # <<>> => rwWaiters' > 0
    BY <1>1, <1>4, Zenon
  <2>3. \A u \in RW!Users : rwPC'[u] = "asleep" <=> u \in RW!AllWoken(rwReadOK') \cup RW!AllWoken(rwWriteOK')
    BY <1>1, <1>2, <1>3, <1>4, Zenon DEF RWInv, RW!NoMissedWakeup
  <2> QED
    BY <2>1, <2>2, <2>3, Zenon DEF RW!NoMissedWakeup
<1> QED
  BY <1>4, <1>6, <1>7, <1>8, Zenon DEF RWInv

-----------------------------------------------------------------------------
(* The forks a philosopher holds, by the statement they are at. *)
Held(p) ==
  CASE philAt[p] \in {"eat", "putSecond"} -> {Phil!FirstFork(p), Phil!SecondFork(p)}
    [] philAt[p] \in {"second", "putFirst"} -> {Phil!FirstFork(p)}
    [] OTHER -> {}

ForksHeld == \A p, f \in Phil!Seats : philFork[f] = p <=> f \in Held(p)

(* A philosopher alone at the table never gets the second fork. *)
PhilInv ==
  /\ Phil!TypeOK
  /\ ForksHeld
  /\ philN = 1 => philAt[0] \in {"first", "second", "done"}
  /\ philScenario = "none" => Phil!AllDone /\ \A p \in Phil!Seats : philMeals[p] = 0
  /\ philScenario = "deadlock" => \A p \in Phil!Seats :
       philMeals[p] = IF philAt[p] \in {"first", "second", "eat"} THEN 0 ELSE 1
  /\ philReport = "finished" => philScenario = "deadlock" /\ Phil!AllDone

(* The two forks of a philosopher. *)
LEMMA RightFork ==
  ASSUME philN \in Nat \ {0}, NEW p \in Phil!Seats
  PROVE  Phil!Right(p) = IF p = philN - 1 THEN 0 ELSE p + 1
<1>1. CASE p = philN - 1
  BY <1>1 DEF Phil!Right, Phil!Seats
<1>2. CASE p # philN - 1
  BY <1>2 DEF Phil!Right, Phil!Seats
<1> QED
  BY <1>1, <1>2, Zenon

(* The two forks of a philosopher are two forks of the table. *)
LEMMA TwoForks ==
  ASSUME philN \in Nat \ {0}, NEW p \in Phil!Seats
  PROVE  /\ Phil!FirstFork(p) \in Phil!Seats /\ Phil!SecondFork(p) \in Phil!Seats
         /\ philN > 1 => Phil!FirstFork(p) # Phil!SecondFork(p)
         /\ philN = 1 => p = 0 /\ Phil!FirstFork(p) = 0 /\ Phil!SecondFork(p) = 0
         /\ philN > 1 /\ philScenario = "hierarchy" => Phil!FirstFork(p) < Phil!SecondFork(p)
         /\ philScenario # "hierarchy" => Phil!FirstFork(p) = p /\ Phil!SecondFork(p) = IF p = philN - 1 THEN 0 ELSE p + 1
  BY RightFork DEF Phil!FirstFork, Phil!SecondFork, Phil!Left, Phil!Seats

(* A philosopher takes or puts down a fork, or eats. *)
LEMMA DineStep ==
  ASSUME Phil!ConstantsOK, PhilInv, NEW p \in Phil!Seats, Phil!Dine(p)
  PROVE  PhilInv'
<1>1. /\ UNCHANGED <<philN, philScenario, philReport>> /\ Phil!Seats' = Phil!Seats /\ philN \in Nat \ {0}
      /\ \A q : Phil!FirstFork(q)' = Phil!FirstFork(q) /\ Phil!SecondFork(q)' = Phil!SecondFork(q)
      /\ philAt \in [Phil!Seats -> Phil!Places] /\ philFork \in [Phil!Seats -> Phil!Seats \cup {NoOne}]
      /\ philMeals \in [Phil!Seats -> Nat]
      /\ NoOne \notin Phil!Seats
  BY DEF Phil!Dine, PhilInv, Phil!TypeOK, Phil!Seats, Phil!FirstFork, Phil!SecondFork, Phil!Left, Phil!Right, Phil!ConstantsOK
<1>2. /\ Phil!FirstFork(p) \in Phil!Seats /\ Phil!SecondFork(p) \in Phil!Seats
      /\ philN > 1 => Phil!FirstFork(p) # Phil!SecondFork(p)
      /\ philN = 1 => p = 0 /\ Phil!FirstFork(p) = 0 /\ Phil!SecondFork(p) = 0
  BY <1>1, TwoForks, Zenon
<1>3. PICK from \in Phil!Places, to \in Phil!Places :
        /\ philAt[p] = from /\ philAt' = [philAt EXCEPT ![p] = to]
        /\ from # "done"
        /\ \/ /\ from = "first" /\ to = "second" /\ philFork[Phil!FirstFork(p)] = NoOne
              /\ philFork' = [philFork EXCEPT ![Phil!FirstFork(p)] = p] /\ philMeals' = philMeals
           \/ /\ from = "second" /\ to = "eat" /\ philFork[Phil!SecondFork(p)] = NoOne
              /\ philFork' = [philFork EXCEPT ![Phil!SecondFork(p)] = p] /\ philMeals' = philMeals
           \/ /\ from = "eat" /\ to = "putSecond"
              /\ philFork' = philFork /\ philMeals' = [philMeals EXCEPT ![p] = @ + 1]
           \/ /\ from = "putSecond" /\ to = "putFirst"
              /\ philFork' = [philFork EXCEPT ![Phil!SecondFork(p)] = NoOne] /\ philMeals' = philMeals
           \/ /\ from = "putFirst" /\ to \in {"first", "done"}
              /\ philScenario = "deadlock" => to = "done"
              /\ philFork' = [philFork EXCEPT ![Phil!FirstFork(p)] = NoOne] /\ philMeals' = philMeals
  <2>1. CASE Phil!TakeFirst(p)
    BY <2>1, Zenon DEF Phil!TakeFirst, Phil!Go, Phil!LockFork, Phil!Places
  <2>2. CASE Phil!TakeSecond(p)
    BY <2>2, Zenon DEF Phil!TakeSecond, Phil!Go, Phil!LockFork, Phil!Places
  <2>3. CASE Phil!Eat(p)
    BY <2>3, Zenon DEF Phil!Eat, Phil!Go, Phil!Places
  <2>4. CASE Phil!PutSecond(p)
    BY <2>4, Zenon DEF Phil!PutSecond, Phil!Go, Phil!UnlockFork, Phil!Places
  <2>5. CASE Phil!PutFirst(p)
    <3> DEFINE to == IF philMeals[p] < Phil!Goal THEN "first" ELSE "done"
    <3>1. /\ philAt[p] = "putFirst" /\ philAt' = [philAt EXCEPT ![p] = to]
          /\ philFork' = [philFork EXCEPT ![Phil!FirstFork(p)] = NoOne] /\ philMeals' = philMeals
      BY <2>5, Zenon DEF Phil!PutFirst, Phil!Go, Phil!UnlockFork
    <3>2. philScenario = "deadlock" => to = "done"
      BY <3>1 DEF Phil!Goal, PhilInv
    <3> QED
      BY <3>1, <3>2, Zenon DEF Phil!Places
  <2> QED
    BY <2>1, <2>2, <2>3, <2>4, <2>5, Zenon DEF Phil!Dine
<1>4. philN = 1 => from \in {"first", "second"} /\ to = "second"
  BY <1>1, <1>2, <1>3 DEF PhilInv, ForksHeld, Held
<1>5. Phil!TypeOK'
  BY <1>1, <1>2, <1>3 DEF PhilInv, Phil!TypeOK
<1>6. ForksHeld'
  <2>1. \A q \in Phil!Seats : q # p => Held(q)' = Held(q)
    BY <1>1, <1>3, Zenon DEF Held
  <2>2. \/ Held(p) = {} /\ from = "first" /\ Held(p)' = {Phil!FirstFork(p)}
        \/ from = "second" /\ Held(p)' = Held(p) \cup {Phil!SecondFork(p)}
        \/ from = "eat" /\ Held(p)' = Held(p)
        \/ from = "putSecond" /\ Phil!SecondFork(p) \in Held(p) /\ Held(p)' = Held(p) \ {Phil!SecondFork(p)}
        \/ from = "putFirst" /\ Held(p) = {Phil!FirstFork(p)} /\ Held(p)' = {}
    BY <1>1, <1>2, <1>3, <1>4 DEF Held, PhilInv, Phil!TypeOK
  <2>3. ASSUME NEW q \in Phil!Seats, NEW f \in Phil!Seats PROVE philFork'[f] = q <=> f \in Held(q)'
    <3>1. /\ philFork[f] = q <=> f \in Held(q)
          /\ philFork[Phil!FirstFork(p)] = p <=> Phil!FirstFork(p) \in Held(p)
          /\ philFork[Phil!SecondFork(p)] = p <=> Phil!SecondFork(p) \in Held(p)
      BY <1>2, Zenon DEF PhilInv, ForksHeld
    <3>2. CASE q = p
      BY <1>1, <1>2, <1>3, <2>2, <3>1, <3>2
    <3>3. CASE q # p
      BY <1>1, <1>2, <1>3, <2>1, <2>2, <3>1, <3>3
    <3> QED
      BY <3>2, <3>3, Zenon
  <2> QED
    BY <1>1, <2>3, Zenon DEF ForksHeld
<1>7. philN' = 1 => philAt'[0] \in {"first", "second", "done"}
  BY <1>1, <1>2, <1>3, <1>4, Zenon
<1>8. philScenario # "none" /\ philReport # "finished"
  BY <1>3, Zenon DEF PhilInv, Phil!AllDone
<1>9. philScenario = "deadlock" => \A q \in Phil!Seats :
        philMeals'[q] = IF philAt'[q] \in {"first", "second", "eat"} THEN 0 ELSE 1
  BY <1>1, <1>3 DEF PhilInv, Phil!Places
<1> QED
  BY <1>1, <1>5, <1>6, <1>7, <1>8, <1>9, Zenon DEF PhilInv

(* No step of the philosophers breaks the invariant. *)
LEMMA PhilStep == ASSUME Phil!ConstantsOK, PhilInv, [Phil!Next]_(Phil!philVars) PROVE PhilInv'
<1>1. CASE UNCHANGED Phil!philVars
  BY <1>1 DEF Phil!philVars, PhilInv, Phil!TypeOK, ForksHeld, Held, Phil!Seats, Phil!FirstFork,
              Phil!SecondFork, Phil!Left, Phil!Right, Phil!AllDone
<1>2. ASSUME NEW method \in {"deadlock", "hierarchy"}, Phil!Run(method) PROVE PhilInv'
  <2>1. /\ UNCHANGED <<philN, philFork, philMeals, philReport>> /\ Phil!Seats' = Phil!Seats /\ philN \in Nat \ {0}
        /\ philScenario = "none" /\ philScenario' = method /\ philAt' = [p \in Phil!Seats |-> "first"]
    BY <1>2 DEF Phil!Run, Phil!Seats, PhilInv, Phil!TypeOK, Phil!ConstantsOK
  <2>2. Phil!TypeOK'
    BY <2>1, Zenon DEF PhilInv, Phil!TypeOK, Phil!Places
  <2>3. \A p \in Phil!Seats : philAt[p] = "done"
    BY <2>1, Zenon DEF PhilInv, Phil!AllDone
  <2>4. ForksHeld'
    BY <2>1, <2>3 DEF PhilInv, ForksHeld, Held
  <2>5. 0 \in Phil!Seats
    BY <2>1 DEF Phil!Seats
  <2>6. \A p \in Phil!Seats : philMeals[p] = 0
    BY <2>1, Zenon DEF PhilInv
  <2> QED
    BY <2>1, <2>2, <2>4, <2>5, <2>6, Zenon DEF PhilInv
<1>3. CASE Phil!Report
  BY <1>3 DEF Phil!Report, PhilInv, Phil!TypeOK, ForksHeld, Held, Phil!Seats, Phil!FirstFork,
              Phil!SecondFork, Phil!Left, Phil!Right, Phil!AllDone
<1> QED
  BY <1>1, <1>2, <1>3, DineStep, Zenon DEF Phil!Next

(* With the lower-numbered fork first, somebody can always go on: of those   *)
(* who wait for a second fork, look at the one who waits for the highest.    *)
LEMMA HierarchyNeverStuck ==
  ASSUME LibraryFacts, Phil!ConstantsOK, PhilInv, philN > 1, philScenario = "hierarchy", Phil!Stuck
  PROVE  FALSE
<1>1. /\ philN \in Nat \ {0} /\ philAt \in [Phil!Seats -> Phil!Places] /\ philFork \in [Phil!Seats -> Phil!Seats \cup {NoOne}]
      /\ \A p \in Phil!Seats : philAt[p] \in {"first", "second", "done"}
  BY DEF PhilInv, Phil!TypeOK, Phil!ConstantsOK, Phil!Stuck
<1>2. \A p \in Phil!Seats : Held(p) = IF philAt[p] = "second" THEN {Phil!FirstFork(p)} ELSE {}
  BY <1>1, Zenon DEF Held
<1>3. \A f \in Phil!Seats : philFork[f] # NoOne => \E q \in Phil!Seats : philAt[q] = "second" /\ f = Phil!FirstFork(q)
  BY <1>1, <1>2 DEF PhilInv, ForksHeld
<1>4. \A p \in Phil!Seats : /\ Phil!FirstFork(p) \in Phil!Seats /\ Phil!SecondFork(p) \in Phil!Seats
                        /\ Phil!FirstFork(p) < Phil!SecondFork(p)
  BY <1>1, TwoForks, Zenon
<1> DEFINE Waiting == {p \in Phil!Seats : philAt[p] = "second"}
           Wanted == {Phil!SecondFork(p) : p \in Waiting}
<1>5. Waiting # {}
  BY <1>1, <1>3, <1>4, Zenon DEF Phil!Stuck, Phil!AllDone
<1>6. PICK w \in Wanted : \A v \in Wanted : v <= w
  <2>1. philN - 1 \in Nat /\ Wanted # {} /\ Wanted \subseteq 0..(philN - 1)
    BY <1>1, <1>4, <1>5 DEF Phil!Seats
  <2> QED
    BY <2>1, GreatestNatural, Zenon
<1>7. PICK p \in Waiting : w = Phil!SecondFork(p)
  BY <1>6, Zenon
<1>8. PICK q \in Waiting : w = Phil!FirstFork(q)
  BY <1>3, <1>4, <1>7, Zenon DEF Phil!Stuck
<1>9. Phil!SecondFork(q) \in Wanted /\ Phil!SecondFork(q) \in Phil!Seats /\ w \in Phil!Seats /\ w < Phil!SecondFork(q)
  BY <1>4, <1>8, Zenon
<1>10. Phil!SecondFork(q) <= w
  BY <1>6, <1>9, Zenon
<1> QED
  BY <1>1, <1>9, <1>10 DEF Phil!Seats

(* With the left fork first, whoever waits for a second fork waits for the   *)
(* neighbour, who waits too, and so on around the table.                     *)
LEMMA StuckInACircle ==
  ASSUME LibraryFacts, Phil!ConstantsOK, PhilInv, philScenario # "hierarchy", Phil!Stuck
  PROVE  \A p \in Phil!Seats : philAt[p] = "second"
<1>1. /\ philN \in Nat \ {0} /\ philAt \in [Phil!Seats -> Phil!Places] /\ philFork \in [Phil!Seats -> Phil!Seats \cup {NoOne}]
      /\ \A p \in Phil!Seats : philAt[p] \in {"first", "second", "done"}
  BY DEF PhilInv, Phil!TypeOK, Phil!ConstantsOK, Phil!Stuck
<1>2. \A p \in Phil!Seats : Held(p) = IF philAt[p] = "second" THEN {Phil!FirstFork(p)} ELSE {}
  BY <1>1, Zenon DEF Held
<1>3. \A f \in Phil!Seats : philFork[f] # NoOne => \E q \in Phil!Seats : philAt[q] = "second" /\ f = Phil!FirstFork(q)
  BY <1>1, <1>2 DEF PhilInv, ForksHeld
<1>4. \A p \in Phil!Seats : Phil!FirstFork(p) = p /\ Phil!SecondFork(p) = IF p = philN - 1 THEN 0 ELSE p + 1
  BY <1>1, TwoForks, Zenon
<1>5. \A p \in Phil!Seats : p # philN - 1 => p + 1 \in Phil!Seats
  BY <1>1 DEF Phil!Seats
<1> DEFINE Waiting == {p \in Phil!Seats : philAt[p] = "second"}
<1>6. Waiting # {}
  BY <1>1, <1>3, <1>4, Zenon DEF Phil!Stuck, Phil!AllDone
<1>7. \A p \in Waiting : (IF p = philN - 1 THEN 0 ELSE p + 1) \in Waiting
  <2> SUFFICES ASSUME NEW p \in Waiting PROVE Phil!SecondFork(p) \in Waiting
    BY <1>4, Zenon
  <2>1. Phil!SecondFork(p) \in Phil!Seats /\ philFork[Phil!SecondFork(p)] # NoOne
    BY <1>1, <1>4 DEF Phil!Stuck, Phil!Seats
  <2> QED
    BY <1>3, <1>4, <2>1
<1>8. 0 \in Waiting
  <2>1. PICK p \in Waiting : \A q \in Waiting : q <= p
    <3>1. philN - 1 \in Nat /\ Waiting \subseteq 0..(philN - 1)
      BY <1>1 DEF Phil!Seats
    <3> HIDE DEF Waiting
    <3> QED
      BY <1>6, <3>1, GreatestNatural, Zenon
  <2> QED
    BY <1>1, <1>7, <2>1 DEF Phil!Seats
<1>9. Phil!Seats \ Waiting = {}
  <2> SUFFICES ASSUME Phil!Seats \ Waiting # {} PROVE FALSE
    BY Zenon
  <2>1. PICK p \in Phil!Seats \ Waiting : \A q \in Phil!Seats \ Waiting : p <= q
    <3>1. Phil!Seats \ Waiting \subseteq Nat
      BY <1>1 DEF Phil!Seats
    <3> HIDE DEF Waiting
    <3> QED
      BY <3>1, LeastNatural, Zenon
  <2>2. p - 1 \in Waiting /\ p - 1 # philN - 1
    BY <1>1, <1>8, <2>1 DEF Phil!Seats
  <2> QED
    BY <1>1, <1>7, <2>1, <2>2 DEF Phil!Seats
<1> QED
  BY <1>9, Zenon

-----------------------------------------------------------------------------
(* FiniteSets as Race sees it. *)
LEMMA RaceCardinality ==
  \A S : Race!Cardinality(S) = Cardinality(S) /\ (Race!IsFiniteSet(S) <=> IsFiniteSet(S))
BY Zenon DEF Race!Cardinality, Cardinality, Race!IsFiniteSet, IsFiniteSet

(* The iterations that have been done: as many as the j[g] add up to. *)
Iterations == {x \in Goroutines \X (1..Iters) : x[2] <= raceJ[x[1]]}

RaceTypes ==
  /\ racePhase \in {"unsafe", "safe", "done"}
  /\ raceCounter \in Nat /\ raceSafe \in Nat
  /\ raceJ \in [Goroutines -> 0..Iters]
  /\ raceTemp \in [Goroutines -> Nat \cup {-1}]

(* Nobody has loaded or stored more than the iterations done. *)
UpperBound ==
  /\ raceCounter <= Race!Cardinality(Iterations)
  /\ \A g \in Goroutines : raceTemp[g] # -1 => raceTemp[g] <= Race!Cardinality(Iterations) /\ raceJ[g] < Iters

(* Whoever has stored once loads at least 1 from then on, so that the last  *)
(* store of all, unless it is the goroutine's first, is of at least 2.      *)
LowerBound ==
  /\ \A g \in Goroutines : raceJ[g] >= 1 => raceCounter >= 1 /\ (raceTemp[g] # -1 => raceTemp[g] >= 1)
  /\ (\A g \in Goroutines : raceJ[g] = Iters) => raceCounter >= 2 \/ Iters < 2
  /\ (\A g, h \in Goroutines : g = h) =>
       \A g \in Goroutines : raceCounter = raceJ[g] /\ (raceTemp[g] # -1 => raceTemp[g] = raceCounter)

RaceInv ==
  /\ RaceTypes
  /\ racePhase = "unsafe" => raceSafe = 0 /\ UpperBound /\ LowerBound
  /\ racePhase # "unsafe" => /\ raceCounter >= Race!Least /\ raceCounter <= Race!Expected
                         /\ \A g \in Goroutines : raceTemp[g] = -1
  /\ racePhase = "safe" => raceSafe = Race!Cardinality(Iterations)
  /\ racePhase = "done" => raceSafe = Race!Expected

(* Sums of the j[g], as sizes of sets of iterations. *)
LEMMA IterationsFinite ==
  ASSUME LibraryFacts, Race!ConstantsOK
  PROVE  /\ Race!IsFiniteSet(Iterations) /\ Race!Cardinality(Iterations) \in Nat
         /\ Race!Expected \in Nat /\ Race!Cardinality(Iterations) <= Race!Expected
         /\ Race!Cardinality(Goroutines) \in Nat \ {0}
<1>1. Race!IsFiniteSet(1..Iters) /\ Race!Cardinality(1..Iters) = Iters
  BY CountInterval, RaceCardinality DEF Race!ConstantsOK
<1>2. /\ Race!IsFiniteSet(Goroutines \X (1..Iters))
      /\ Race!Cardinality(Goroutines \X (1..Iters)) = Race!Expected
  BY <1>1, CountProduct, RaceCardinality, Zenon DEF Race!ConstantsOK, Race!Expected
<1>3. Iterations \subseteq Goroutines \X (1..Iters)
  BY Zenon DEF Iterations
<1>4. Race!Cardinality(Goroutines) \in Nat \ {0}
  BY CountType, CountEmpty, RaceCardinality, Zenon DEF Race!ConstantsOK
<1> QED
  BY <1>2, <1>3, <1>4, CountSubset, CountType, RaceCardinality, Zenon

(* When everybody is done, every iteration has been made. *)
LEMMA AllIterations ==
  ASSUME LibraryFacts, Race!ConstantsOK, RaceTypes, \A g \in Goroutines : raceJ[g] = Iters
  PROVE  Race!Cardinality(Iterations) = Race!Expected
<1>1. Race!IsFiniteSet(1..Iters) /\ Race!Cardinality(1..Iters) = Iters
  BY CountInterval, RaceCardinality DEF Race!ConstantsOK
<1>2. Iterations = Goroutines \X (1..Iters)
  <2>1. ASSUME NEW x \in Goroutines \X (1..Iters) PROVE x \in Iterations
    BY <2>1 DEF Iterations, Race!ConstantsOK
  <2> QED
    BY <2>1, Zenon DEF Iterations
<1> QED
  BY <1>1, <1>2, CountProduct, RaceCardinality, Zenon DEF Race!ConstantsOK, Race!Expected

(* One more iteration of one goroutine. *)
LEMMA OneIteration ==
  ASSUME LibraryFacts, Race!ConstantsOK, RaceTypes, NEW g \in Goroutines, raceJ[g] < Iters,
         raceJ' = [raceJ EXCEPT ![g] = @ + 1]
  PROVE  /\ Race!Cardinality(Iterations') = Race!Cardinality(Iterations) + 1
         /\ raceJ' \in [Goroutines -> 0..Iters]
<1>1. raceJ[g] \in Nat /\ raceJ'[g] = raceJ[g] + 1 /\ raceJ' \in [Goroutines -> 0..Iters]
      /\ \A h \in Goroutines : h # g => raceJ'[h] = raceJ[h]
  BY DEF RaceTypes, Race!ConstantsOK
<1> DEFINE new == <<g, raceJ[g] + 1>>
<1>2. new \in Goroutines \X (1..Iters) /\ new \notin Iterations
  BY <1>1 DEF Iterations, Race!ConstantsOK
<1>3. Iterations' = Iterations \cup {new}
  <2>1. ASSUME NEW x \in Goroutines \X (1..Iters)
        PROVE  x[2] <= raceJ'[x[1]] <=> x[2] <= raceJ[x[1]] \/ x = new
    <3>1. PICK h \in Goroutines, k \in 1..Iters : x = <<h, k>>
      BY <2>1
    <3>2. CASE h = g
      BY <1>1, <3>1, <3>2 DEF Race!ConstantsOK
    <3>3. CASE h # g
      BY <1>1, <3>1, <3>3, Zenon
    <3> QED
      BY <3>2, <3>3, Zenon
  <2>2. Iterations' = {x \in Goroutines \X (1..Iters) : x[2] <= raceJ'[x[1]]}
    BY Zenon DEF Iterations
  <2> QED
    BY <1>2, <2>1, <2>2, Zenon DEF Iterations
<1> QED
  BY <1>1, <1>2, <1>3, IterationsFinite, CountAdd, RaceCardinality, Zenon

(* At the start of a phase no iteration has been made. *)
LEMMA NoIterations == ASSUME raceJ = [g \in Goroutines |-> 0] PROVE Iterations = {}
BY DEF Iterations

(* The unsafe loop reads the counter, *)
LEMMA LoadStep ==
  ASSUME Race!ConstantsOK, RaceInv, NEW g \in Goroutines, Race!Load(g)
  PROVE  RaceInv'
<1>1. /\ racePhase = "unsafe" /\ raceJ[g] < Iters /\ raceTemp[g] = -1
      /\ raceTemp' = [raceTemp EXCEPT ![g] = raceCounter]
      /\ UNCHANGED <<racePhase, raceCounter, raceSafe, raceJ>>
      /\ raceTemp \in [Goroutines -> Nat \cup {-1}] /\ raceCounter \in Nat
  BY Zenon DEF Race!Load, RaceInv, RaceTypes
<1>2. RaceTypes'
  BY <1>1, Zenon DEF RaceInv, RaceTypes
<1>3. Iterations' = Iterations
  BY <1>1, Zenon DEF Iterations
<1>4. UpperBound'
  BY <1>1, <1>3, Zenon DEF RaceInv, UpperBound
<1>5. LowerBound'
  BY <1>1, Zenon DEF RaceInv, LowerBound
<1> QED
  BY <1>1, <1>2, <1>4, <1>5, Zenon DEF RaceInv

(* and writes it back: what others wrote meanwhile is lost. *)
LEMMA StoreStep ==
  ASSUME LibraryFacts, Race!ConstantsOK, RaceInv, NEW g \in Goroutines, Race!Store(g)
  PROVE  RaceInv'
<1>1. /\ racePhase = "unsafe" /\ raceTemp[g] # -1 /\ raceTemp[g] \in Nat
      /\ raceCounter' = raceTemp[g] + 1
      /\ raceTemp' = [raceTemp EXCEPT ![g] = -1] /\ raceJ' = [raceJ EXCEPT ![g] = @ + 1]
      /\ UNCHANGED <<racePhase, raceSafe>>
      /\ raceTemp \in [Goroutines -> Nat \cup {-1}] /\ raceCounter \in Nat
      /\ raceJ \in [Goroutines -> 0..Iters] /\ raceJ[g] < Iters /\ Iters \in Nat
  BY Zenon DEF Race!Store, RaceInv, RaceTypes, UpperBound, Race!ConstantsOK
<1>2. /\ Race!Cardinality(Iterations') = Race!Cardinality(Iterations) + 1
      /\ Race!Cardinality(Iterations) \in Nat
      /\ raceJ' \in [Goroutines -> 0..Iters]
  BY <1>1, OneIteration, IterationsFinite, Zenon DEF RaceInv
<1>3. RaceTypes'
  BY <1>1, <1>2 DEF RaceInv, RaceTypes
<1>4. UpperBound'
  BY <1>1, <1>2 DEF RaceInv, UpperBound
<1>5. LowerBound'
  <2>1. raceCounter' >= 1 /\ (raceJ[g] >= 1 => raceCounter' >= 2)
    BY <1>1 DEF RaceInv, LowerBound
  <2>2. \A h \in Goroutines : raceTemp'[h] # -1 => h # g /\ raceTemp'[h] = raceTemp[h] /\ raceJ'[h] = raceJ[h]
    BY <1>1, Zenon
  <2>3. \A h \in Goroutines : raceJ'[h] >= 1 => raceCounter' >= 1 /\ (raceTemp'[h] # -1 => raceTemp'[h] >= 1)
    BY <2>1, <2>2, Zenon DEF RaceInv, LowerBound
  <2>4. (\A h \in Goroutines : raceJ'[h] = Iters) => raceCounter' >= 2 \/ Iters < 2
    BY <1>1, <2>1
  <2>5. ASSUME \A h, i \in Goroutines : h = i, NEW h \in Goroutines
        PROVE  raceCounter' = raceJ'[h] /\ raceTemp'[h] = -1
    BY <1>1, <2>5, Zenon DEF RaceInv, LowerBound
  <2> QED
    BY <2>3, <2>4, <2>5, Zenon DEF LowerBound
<1> QED
  BY <1>1, <1>3, <1>4, <1>5, Zenon DEF RaceInv

(* The safe loop adds atomically. *)
LEMMA AddStep ==
  ASSUME LibraryFacts, Race!ConstantsOK, RaceInv, NEW g \in Goroutines, Race!Add(g)
  PROVE  RaceInv'
<1>1. /\ racePhase = "safe" /\ raceJ[g] < Iters /\ raceSafe' = raceSafe + 1
      /\ raceJ' = [raceJ EXCEPT ![g] = @ + 1] /\ UNCHANGED <<racePhase, raceCounter, raceTemp>>
  BY Zenon DEF Race!Add
<1>2. /\ Race!Cardinality(Iterations') = Race!Cardinality(Iterations) + 1
      /\ raceJ' \in [Goroutines -> 0..Iters]
  BY <1>1, OneIteration, Zenon DEF RaceInv
<1>3. RaceTypes'
  BY <1>1, <1>2 DEF RaceInv, RaceTypes
<1> QED
  BY <1>1, <1>2, <1>3, Zenon DEF RaceInv, Race!Least, Race!Expected

(* wg.Wait: the phase ends when everybody is done. *)
LEMMA WaitStep == ASSUME LibraryFacts, Race!ConstantsOK, RaceInv, Race!Wait PROVE RaceInv'
<1>1. /\ racePhase # "done" /\ \A g \in Goroutines : raceJ[g] = Iters
      /\ racePhase' = IF racePhase = "unsafe" THEN "safe" ELSE "done"
      /\ raceJ' = [g \in Goroutines |-> 0] /\ UNCHANGED <<raceCounter, raceSafe, raceTemp>>
  BY Zenon DEF Race!Wait
<1>2. RaceTypes'
  BY <1>1 DEF RaceInv, RaceTypes, Race!ConstantsOK
<1>3. Race!Cardinality(Iterations) = Race!Expected
  BY <1>1, AllIterations, Zenon DEF RaceInv
<1>4. Race!Cardinality(Iterations') = 0
  <2>1. Iterations' = {}
    BY <1>1 DEF Iterations
  <2> QED
    BY <2>1, CountEmpty, RaceCardinality, Zenon
<1>5. CASE racePhase = "unsafe"
  <2>1. raceCounter <= Race!Expected /\ \A g \in Goroutines : raceTemp[g] = -1
    BY <1>1, <1>3, <1>5 DEF RaceInv, UpperBound, Race!ConstantsOK
  <2>2. raceCounter >= Race!Least
    <3>1. PICK g \in Goroutines : TRUE
      BY Zenon DEF Race!ConstantsOK
    <3>2. CASE Race!Cardinality(Goroutines) = 1
      <4>1. ASSUME NEW h \in Goroutines, NEW i \in Goroutines PROVE h = i
        <5>1. {h} \in SUBSET Goroutines /\ Cardinality({h}) = 1
          BY CountSingleton, Zenon
        <5>2. IsFiniteSet(Goroutines) /\ Cardinality(Goroutines) = 1
          BY <3>2, RaceCardinality, Zenon DEF Race!ConstantsOK
        <5>3. Goroutines = {h}
          BY <5>1, <5>2, CountSubset, Zenon
        <5> QED
          BY <5>3, Zenon
      <4> QED
        BY <1>1, <1>5, <3>1, <3>2, <4>1 DEF RaceInv, LowerBound, Race!Least, Race!ConstantsOK
    <3>3. CASE Race!Cardinality(Goroutines) # 1 /\ Iters < 2
      BY <1>1, <1>5, <3>1, <3>3 DEF RaceInv, RaceTypes, LowerBound, Race!Least, Race!ConstantsOK
    <3>4. CASE Race!Cardinality(Goroutines) # 1 /\ ~(Iters < 2)
      BY <1>1, <1>5, <3>4, Zenon DEF RaceInv, LowerBound, Race!Least
    <3> QED
      BY <3>2, <3>3, <3>4, Zenon
  <2> QED
    BY <1>1, <1>2, <1>4, <1>5, <2>1, <2>2, Zenon DEF RaceInv, Race!Least, Race!Expected
<1>6. CASE racePhase = "safe"
  BY <1>1, <1>2, <1>3, <1>6, Zenon DEF RaceInv, Race!Least, Race!Expected
<1> QED
  BY <1>1, <1>5, <1>6, Zenon DEF RaceInv, RaceTypes


-----------------------------------------------------------------------------
(* The library's facts about finite sets, functions and well-founded orders. *)
Library == INSTANCE FiniteSetTheorems

(* The library counts as FiniteSets does. *)
LEMMA Counting ==
  \A S : Cardinality(S) = Library!Cardinality(S) /\ (IsFiniteSet(S) <=> Library!IsFiniteSet(S))
BY Zenon DEF Cardinality, Library!Cardinality, IsFiniteSet, Library!IsFiniteSet

(* What the steps above suppose of finite sets and natural numbers holds. *)
LEMMA LibraryHolds == LibraryFacts
<1>1. /\ IsFiniteSet({}) /\ Cardinality({}) = 0
      /\ \A S : IsFiniteSet(S) => Cardinality(S) \in Nat /\ (Cardinality(S) = 0 <=> S = {})
  BY Counting, Library!FS_EmptySet, Library!FS_CardinalityType, Zenon
<1>2. \A S, x : IsFiniteSet(S) =>
        /\ IsFiniteSet(S \cup {x})
        /\ Cardinality(S \cup {x}) = IF x \in S THEN Cardinality(S) ELSE Cardinality(S) + 1
  BY Counting, Library!FS_AddElement, Zenon
<1>3. \A S, x : IsFiniteSet(S) =>
        /\ IsFiniteSet(S \ {x})
        /\ Cardinality(S \ {x}) = IF x \in S THEN Cardinality(S) - 1 ELSE Cardinality(S)
  BY Counting, Library!FS_RemoveElement, Zenon
<1>4. \A x : IsFiniteSet({x}) /\ Cardinality({x}) = 1
  BY Counting, Library!FS_Singleton, Zenon
<1>5. \A S : \A T \in SUBSET S : IsFiniteSet(S) =>
        /\ IsFiniteSet(T) /\ Cardinality(T) <= Cardinality(S)
        /\ Cardinality(S) = Cardinality(T) => S = T
  BY Counting, Library!FS_Subset, Zenon
<1>6. \A a, b \in Int :
        IsFiniteSet(a..b) /\ Cardinality(a..b) = IF a > b THEN 0 ELSE b - a + 1
  BY Counting, Library!FS_Interval, Zenon
<1>7. \A S, T : IsFiniteSet(S) /\ IsFiniteSet(T) =>
        /\ IsFiniteSet(S \X T)
        /\ Cardinality(S \X T) = Cardinality(S) * Cardinality(T)
  BY Counting, Library!FS_Product, Zenon
<1>8. BijectionFact
  <2> SUFFICES ASSUME NEW S, NEW T, NEW f \in [S -> T], IsFiniteSet(S),
                      \A y \in T : \E x \in S : f[x] = y,
                      \A x, y \in S : f[x] = f[y] => x = y
               PROVE  IsFiniteSet(T) /\ Cardinality(T) = Cardinality(S)
    BY Zenon DEF BijectionFact
  <2>1. f \in Library!Surjection(S, T)
    BY Zenon DEF Library!Surjection
  <2>2. f \in Library!Injection(S, T)
    BY Zenon DEF Library!Injection, Library!IsInjective
  <2> QED
    BY <2>1, <2>2, Counting, Library!FS_Surjection, Zenon
<1>9. \A S \in SUBSET Nat : S # {} => \E x \in S : \A y \in S : x <= y
  <2> SUFFICES ASSUME NEW S \in SUBSET Nat, S # {} PROVE \E x \in S : \A y \in S : x <= y
    BY Zenon
  <2>1. PICK x \in S : \A y \in S : ~(<<y, x>> \in Library!OpToRel(<, Nat))
    BY Library!NatLessThanWellFounded, Library!WFMin, Zenon
  <2>2. ASSUME NEW y \in S PROVE x <= y
    <3>1. x \in Nat /\ y \in Nat
      BY Zenon
    <3>2. ~(y < x)
      BY <2>1, <3>1, Zenon DEF Library!OpToRel
    <3> QED
      BY <3>1, <3>2
  <2> QED
    BY <2>2, Zenon
<1> QED
  BY <1>1, <1>2, <1>3, <1>4, <1>5, <1>6, <1>7, <1>8, <1>9, Zenon DEF LibraryFacts

(***************************************************************************)
(* Lock and Unlock implement LockSpec with one permit.  The hand-off maps  *)
(* to a Release when the head is popped and to an Acquire when the woken   *)
(* thread returns from Lock, between which nobody holds the lock.          *)

(***************************************************************************)
THEOREM MutexIsLock == Spec => ImplementsLock
<1> DEFINE phase == [t \in Threads |-> phaseOf(t)]
<1>1. Init => L!Init
  BY Zenon DEF Init, L!Init, phaseOf
<1>2. IInv /\ [Next]_mutexVars => [L!Next]_phase
  <2> SUFFICES ASSUME IInv, [Next]_mutexVars PROVE L!Next \/ phase' = phase
    BY Zenon
  <2> USE DEF IInv
  <2>1. CASE UNCHANGED mutexVars
    BY <2>1 DEF mutexVars, phaseOf
  <2>2. ASSUME NEW t \in Threads, LockFast(t) PROVE L!Acquire(t)
    <3>1. \A u \in Threads : pc[u] # "held"
      BY <2>2, Zenon DEF LockFast, OwnershipInv, FreeIsUnowned, Owns
    <3> QED
      BY <2>2, <3>1, AcquireWhenFree, LibraryHolds, Zenon DEF LockFast
  <2>3. ASSUME NEW t \in Threads, Unpark(t) PROVE L!Acquire(t)
    <3>1. \A u \in Threads : pc[u] # "held"
      BY <2>3, Zenon DEF Unpark, OwnershipInv, SoleOwner, Owns
    <3> QED
      BY <2>3, <3>1, AcquireWhenFree, LibraryHolds, Zenon DEF Unpark
  <2>4. ASSUME NEW t \in Threads, LockContended(t) PROVE L!Request(t)
    BY <2>4, PhaseOfOne, Zenon DEF LockContended, L!Request, phaseOf, PCs
  <2>5. ASSUME NEW t \in Threads, Enqueue(t) \/ FlagWaiters(t) \/ WakeNext(t) PROVE phase' = phase
    <3>1. CASE Enqueue(t) \/ FlagWaiters(t)
      <4>1. phase' = [phase EXCEPT ![t] = "waiting"]
        BY <3>1, PhaseOfOne, Zenon DEF Enqueue, FlagWaiters, PCs
      <4>2. phase[t] = "waiting"
        BY <3>1, Zenon DEF Enqueue, FlagWaiters, phaseOf
      <4> QED
        BY <4>1, <4>2, Zenon
    <3>2. CASE WakeNext(t)
      <4>1. phase' = [phase EXCEPT ![t] = "idle"]
        BY <3>2, PhaseOfOne, Zenon DEF WakeNext, PCs
      <4>2. phase[t] = "idle"
        BY <3>2, Zenon DEF WakeNext, phaseOf
      <4> QED
        BY <4>1, <4>2, Zenon
    <3> QED
      BY <2>5, <3>1, <3>2, Zenon
  <2>6. ASSUME NEW t \in Threads, Unlock(t) PROVE L!Release(t)
    BY <2>6, PhaseOfOne, Zenon DEF Unlock, UnlockHandoff, UnlockFree, L!Release, phaseOf, PCs
  <2> QED
    BY <2>1, <2>2, <2>3, <2>4, <2>5, <2>6, Zenon DEF Next, Lock, Continue, L!Next
<1> QED
  BY <1>1, <1>2, InitIInv, NextIInv, PTL DEF Spec, ImplementsLock, L!Spec

(***************************************************************************)
(* Lock, TryLock and Unlock implement LockSpec with one permit: whenever   *)
(* a compare-and-swap succeeds, nobody holds the lock.                     *)

(***************************************************************************)
THEOREM SpinlockIsLock == Spin!Spec => Spin!ImplementsLock
<1> DEFINE phase == [t \in Threads |-> Spin!phaseOf(t)]
<1>1. Spin!Init => Spin!L!Init
  BY Zenon DEF Spin!Init, Spin!L!Init, Spin!phaseOf
<1>2. SpinInv /\ SpinInv' /\ [Spin!Next]_(Spin!vars) => [Spin!L!Next]_phase
  <2> SUFFICES ASSUME SpinInv, SpinInv', [Spin!Next]_(Spin!vars) PROVE Spin!L!Next \/ phase' = phase
    BY Zenon
  <2>1. CASE UNCHANGED Spin!vars
    BY <2>1 DEF Spin!vars, Spin!phaseOf
  <2>2. ASSUME NEW t \in Threads, Spin!LockAcquire(t) \/ Spin!TryLock(t) PROVE Spin!L!Next
    <3>1. Spin!L!Holders = {}
      BY <2>2, Zenon DEF Spin!LockAcquire, Spin!TryLock, Spin!CAS, SpinInv, Spin!TypeOK, Spin!L!Holders, Spin!phaseOf
    <3>2. Spin!L!Acquire(t)
      <4>1. Spin!L!Cardinality(Spin!L!Holders) < 1
        <5>1. Spin!L!Cardinality({}) = Cardinality({})
          BY Zenon DEF Spin!L!Cardinality, Cardinality
        <5> QED
          BY <3>1, <5>1, CountEmpty, LibraryHolds
      <4>2. phase[t] \in {"idle", "waiting"}
        BY <2>2, Zenon DEF Spin!LockAcquire, Spin!TryLock, Spin!phaseOf
      <4>3. phase' = [phase EXCEPT ![t] = "holding"]
        BY <2>2, Zenon DEF Spin!LockAcquire, Spin!TryLock, Spin!CAS, SpinInv, Spin!TypeOK, Spin!phaseOf
      <4> QED
        BY <4>1, <4>2, <4>3, Zenon DEF Spin!L!Acquire
    <3> QED
      BY <3>2, Zenon DEF Spin!L!Next
  <2>3. ASSUME NEW t \in Threads, Spin!LockSpin(t) PROVE Spin!L!Next
    BY <2>3, Zenon DEF Spin!LockSpin, SpinInv, Spin!TypeOK, Spin!phaseOf, Spin!L!Next, Spin!L!Request
  <2>4. ASSUME NEW t \in Threads, Spin!Unlock(t) PROVE Spin!L!Next
    BY <2>4, ZenonT(30) DEF Spin!Unlock, SpinInv, Spin!TypeOK, Spin!phaseOf, Spin!L!Next, Spin!L!Release
  <2> QED
    BY <2>1, <2>2, <2>3, <2>4, Zenon DEF Spin!Next
<1> QED
  BY <1>1, <1>2, SpinInvariant, PTL DEF Spin!Spec, Spin!ImplementsLock, Spin!L!Spec

(***************************************************************************)
(* Wait and Signal lose no permit and make none up, in any interleaving;   *)
(* a blocked thread is queued once or on its way, never both.              *)

(***************************************************************************)
THEOREM PermitsKept == Sem!Spec => []SemaphoreInv
<1>1. SemInv => SemaphoreInv
  BY ChannelsSuffice, Zenon DEF SemInv, SemaphoreInv
<1>2. Sem!Spec => []SemInv
  BY LocksAssumption, LibraryHolds, SemaphoreInvariant, Zenon
<1> QED
  BY <1>1, <1>2, PTL

(***************************************************************************)
(* Used as a lock, Wait and Signal implement LockSpec with Initial permits.*)

(***************************************************************************)
THEOREM SemaphoreIsLock == Sem!Spec => Sem!ImplementsLock
<1> USE LocksAssumption, LibraryHolds
<1> DEFINE phase == [t \in Threads |-> IF semAsLock THEN Sem!phaseOf(t) ELSE "idle"]
<1>1. Sem!Init => Sem!L!Init
  BY Zenon DEF Sem!Init, Sem!L!Init, Sem!phaseOf
<1>2. SemInv /\ SemInv' /\ [Sem!Next]_(Sem!vars) => [Sem!L!Next]_phase
  <2> SUFFICES ASSUME SemInv, SemInv', [Sem!Next]_(Sem!vars) PROVE Sem!L!Next \/ phase' = phase
    BY Zenon
  <2>1. CASE UNCHANGED Sem!vars
    BY <2>1 DEF Sem!vars, Sem!phaseOf
  <2>2. CASE ~semAsLock
    BY <2>1, <2>2 DEF Sem!Next, Sem!Wait, Sem!Signal, Sem!Continue
  <2>3. ASSUME NEW t \in Threads, semAsLock, Sem!WaitPasses(t), UNCHANGED semAsLock, t \notin semHolders
        PROVE  Sem!L!Acquire(t)
    BY <2>3, AcquireWithPermit DEF Sem!WaitPasses, Sem!Passes, SemInv, Sem!TypeOK
  <2>4. ASSUME NEW t \in Threads, semAsLock, Sem!WaitReturns(t), UNCHANGED semAsLock
        PROVE  Sem!L!Acquire(t)
    BY <2>4, AcquireWithPermit, Zenon DEF Sem!WaitReturns, SemInv, Sem!TypeOK, Sem!InFlight
  <2>5. ASSUME NEW t \in Threads, semAsLock, Sem!WaitBlocks(t), UNCHANGED semAsLock, t \notin semHolders
        PROVE  Sem!L!Request(t)
    BY <2>5, Zenon DEF Sem!WaitBlocks, Sem!L!Request, Sem!phaseOf, SemInv, Sem!TypeOK
  <2>6. ASSUME NEW t \in Threads, semAsLock, Sem!SignalFree(t) \/ Sem!SignalPop(t), UNCHANGED semAsLock, t \in semHolders
        PROVE  Sem!L!Release(t)
    BY <2>6, Zenon DEF Sem!SignalFree, Sem!SignalPop, Sem!L!Release, Sem!phaseOf, SemInv, Sem!TypeOK
  <2>7. ASSUME NEW t \in Threads, semAsLock, Sem!SignalClose(t), UNCHANGED semAsLock PROVE phase' = phase
    BY <2>7, Zenon DEF Sem!SignalClose, Sem!phaseOf, SemInv, Sem!TypeOK
  <2> QED
    BY <2>1, <2>2, <2>3, <2>4, <2>5, <2>6, <2>7, Zenon DEF Sem!Next, Sem!Wait, Sem!Signal, Sem!Continue, Sem!L!Next
<1> QED
  BY <1>1, <1>2, SemaphoreInvariant, PTL DEF Sem!Spec, Sem!ImplementsLock, Sem!L!Spec

(***************************************************************************)
(* A writer excludes everybody else, the counters say who is where, and    *)
(* nobody sleeps on an open lock, in every interleaving of the four calls. *)

(***************************************************************************)
THEOREM ExclusionAndWakeups == RW!Spec => [](RW!TypeOK /\ RWLockInv)
<1> USE LocksAssumption, LibraryHolds
<1>1. RW!Init => RWInv
  <2> SUFFICES ASSUME RW!Init PROVE RWInv
    BY Zenon
  <2>1. RW!In(Readers) = {} /\ RW!In(Writers) = {} /\ WaitingWriters = {}
    BY Zenon DEF RW!Init, RW!In, WaitingWriters, RW!Users
  <2>2. RW!AllWoken(<<>>) = {} /\ Distinct(<<>>)
    BY DEF RW!AllWoken, Distinct
  <2>3. RW!TypeOK
    BY EmptyList, Zenon DEF RW!Init, RW!TypeOK
  <2>4. RW!Exclusion
    BY <2>1, CountEmpty, RWCardinality, Zenon DEF RW!Init, RW!Exclusion, WaitingWriters
  <2> QED
    BY <2>2, <2>3, <2>4, Zenon DEF RW!Init, RWInv, RW!NoMissedWakeup
<1>2. RWInv /\ [RW!Next]_(RW!vars) => RWInv'
  <2> SUFFICES ASSUME RWInv, [RW!Next]_(RW!vars) PROVE RWInv'
    BY Zenon
  <2>1. CASE UNCHANGED RW!vars
    BY <2>1, Zenon DEF RW!vars, RWInv, RW!TypeOK, RW!Exclusion, RW!NoMissedWakeup, RW!In
  <2> QED
    BY <2>1, RWReadEnters, RWReadLeaves, RWWriteEnters, RWWriteLeaves, Zenon DEF RW!Next
<1>3. RWInv => RW!TypeOK /\ RWLockInv
  BY Zenon DEF RWInv, RWLockInv
<1> QED
  BY <1>1, <1>2, <1>3, PTL DEF RW!Spec

(***************************************************************************)
(* For any number of philosophers, RunSafeResourceHierarchy never gets     *)
(* stuck and RunDeadlockScenario does so only in the circular wait; a      *)
(* report that there was no deadlock is true.                              *)

(***************************************************************************)
THEOREM StuckOnlyInACircle == Phil!Spec => [](Phil!TypeOK /\ OnlyCircularWait)
<1> USE LocksAssumption, LibraryHolds
<1>1. Phil!Init => PhilInv
  <2> SUFFICES ASSUME Phil!Init PROVE PhilInv
    BY Zenon
  <2>1. philN \in Nat \ {0} /\ 0 \in Phil!Seats /\ NoOne \notin Phil!Seats
    BY DEF Phil!Init, Phil!Seats, Phil!ConstantsOK
  <2>2. Phil!TypeOK
    BY Zenon DEF Phil!Init, Phil!TypeOK, Phil!Places
  <2>3. \A p \in Phil!Seats : Held(p) = {}
    BY Zenon DEF Phil!Init, Held
  <2> QED
    BY <2>1, <2>2, <2>3, Zenon DEF Phil!Init, PhilInv, ForksHeld, Phil!AllDone
<1>2. PhilInv /\ [Phil!Next]_(Phil!philVars) => PhilInv'
  BY PhilStep, Zenon
<1>3. PhilInv => Phil!TypeOK /\ OnlyCircularWait
  <2> SUFFICES ASSUME PhilInv PROVE OnlyCircularWait
    BY Zenon DEF PhilInv
  <2>1. ASSUME Phil!Stuck PROVE philN = 1 \/ philScenario = "deadlock"
    BY <2>1, HierarchyNeverStuck DEF PhilInv, Phil!TypeOK, Phil!Stuck, Phil!ConstantsOK
  <2>2. ASSUME Phil!Stuck, philN = 1 PROVE \A p \in Phil!Seats : philAt[p] = "second"
    <3>1. Phil!Seats = {0} /\ Phil!FirstFork(0) = 0 /\ philAt[0] \in {"first", "second"}
      BY <2>2, TwoForks DEF Phil!Seats, Phil!Stuck, Phil!AllDone
    <3>2. philAt[0] = "first" => Held(0) = {}
      BY Zenon DEF Held
    <3> QED
      BY <2>2, <3>1, <3>2 DEF Phil!Stuck, PhilInv, Phil!TypeOK, ForksHeld
  <2>3. ASSUME Phil!Stuck, philScenario = "deadlock" PROVE \A p \in Phil!Seats : philAt[p] = "second"
    BY <2>3, StuckInACircle, Zenon
  <2>4. philReport = "finished" => \A p \in Phil!Seats : philMeals[p] = 1
    BY Zenon DEF PhilInv, Phil!AllDone
  <2> QED
    BY <2>1, <2>2, <2>3, <2>4, Zenon DEF OnlyCircularWait, Phil!OnlyCircularWait
<1> QED
  BY <1>1, <1>2, <1>3, PTL DEF Phil!Spec

(***************************************************************************)
(* For any number of goroutines and iterations: the atomic counter ends up *)
(* exact, and the plain one never above it nor below what the last writers *)
(* leave.                                                                  *)

(***************************************************************************)
THEOREM RaceCounts == Race!Spec => [](Race!TypeOK /\ CountsWithinBounds)
<1> USE LocksAssumption, LibraryHolds
<1>1. Race!Init => RaceInv
  <2> SUFFICES ASSUME Race!Init PROVE RaceInv
    BY Zenon
  <2>1. RaceTypes
    BY DEF Race!Init, RaceTypes, Race!ConstantsOK
  <2>2. Race!Cardinality(Iterations) = 0
    BY NoIterations, CountEmpty, RaceCardinality, Zenon DEF Race!Init
  <2>3. UpperBound
    BY <2>2 DEF Race!Init, UpperBound
  <2>4. LowerBound
    <3>1. PICK g \in Goroutines : TRUE
      BY Zenon DEF Race!ConstantsOK
    <3> QED
      BY <3>1 DEF Race!Init, LowerBound, Race!ConstantsOK
  <2> QED
    BY <2>1, <2>3, <2>4, Zenon DEF Race!Init, RaceInv
<1>2. RaceInv /\ [Race!Next]_(Race!raceVars) => RaceInv'
  <2> SUFFICES ASSUME RaceInv, [Race!Next]_(Race!raceVars) PROVE RaceInv'
    BY Zenon
  <2>1. CASE UNCHANGED Race!raceVars
    BY <2>1, Zenon DEF Race!raceVars, RaceInv, RaceTypes, UpperBound, LowerBound, Iterations, Race!Least, Race!Expected
  <2> QED
    BY <2>1, WaitStep, LoadStep, StoreStep, AddStep, Zenon DEF Race!Next
<1>3. RaceInv => Race!TypeOK /\ CountsWithinBounds
  <2> SUFFICES ASSUME RaceInv PROVE Race!TypeOK /\ CountsWithinBounds
    BY Zenon
  <2>1. /\ Race!Cardinality(Iterations) \in Nat /\ Race!Cardinality(Iterations) <= Race!Expected
        /\ Race!Expected \in Nat /\ Race!Least \in Int
    BY IterationsFinite DEF Race!Least, Race!ConstantsOK
  <2>2. Race!TypeOK
    BY <2>1 DEF RaceInv, RaceTypes, UpperBound, Race!TypeOK, Race!ConstantsOK
  <2>3. CountsWithinBounds
    BY <2>1 DEF RaceInv, RaceTypes, CountsWithinBounds, Race!CountsWithinBounds, Race!LostUpdates
  <2> QED
    BY <2>2, <2>3, Zenon
<1> QED
  BY <1>1, <1>2, <1>3, PTL DEF Race!Spec

(* The mutex, the spinlock and the semaphore used as a lock refine LockSpec. *)
THEOREM LocksRefine == Spec /\ Spin!Spec /\ Sem!Spec => LocksImplementLockSpec
BY MutexIsLock, SpinlockIsLock, SemaphoreIsLock, PTL DEF LocksImplementLockSpec

=============================================================================
