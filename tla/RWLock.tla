------------------------------- MODULE RWLock -------------------------------
(***************************************************************************)
(* pkg/concurrency/rwlock.go: the reader-writer lock with preference for   *)
(* writers, under one mutex with the condition variables readOK and        *)
(* writeOK.  As in UnixPipe, an action is a call, or its continuation      *)
(* after a Wait, up to its return or its next Wait.                        *)
(***************************************************************************)
EXTENDS Integers, Sequences, FiniteSets, Lists

CONSTANTS Readers, Writers   \* goroutines that use RLock, and those that use Lock

ConstantsOK == IsFiniteSet(Readers) /\ IsFiniteSet(Writers) /\ Readers \cap Writers = {}

VARIABLES
  readersCount, writerActive, writerWaiters,
  readOK, writeOK,   \* the goroutines asleep on each condition variable
  pc                 \* "idle", "asleep", "woken" or "in" (past the lock)

vars == <<readersCount, writerActive, writerWaiters, readOK, writeOK, pc>>

Users == Readers \cup Writers

TypeOK ==
  /\ readersCount \in Nat
  /\ writerActive \in BOOLEAN
  /\ writerWaiters \in Nat
  /\ readOK \in Seq(Readers) /\ writeOK \in Seq(Writers)
  /\ pc \in [Users -> {"idle", "asleep", "woken", "in"}]

(* NewRWLock *)
Init ==
  /\ readersCount = 0
  /\ writerActive = FALSE
  /\ writerWaiters = 0
  /\ readOK = <<>> /\ writeOK = <<>>
  /\ pc = [u \in Users |-> "idle"]

(* The goroutine that runs goes to label, and those in the set are woken. *)
Step(self, label, woken) ==
  pc' = [u \in Users |-> IF u = self THEN label
                         ELSE IF u \in woken THEN "woken" ELSE pc[u]]

-----------------------------------------------------------------------------
(* Mutation: readers do not stand back for waiting writers. *)
EnterReadNoPreference(r) ==
  IF writerActive
  THEN /\ readOK' = Append(readOK, r)
       /\ Step(r, "asleep", {})
       /\ UNCHANGED readersCount
  ELSE /\ readersCount' = readersCount + 1
       /\ Step(r, "in", {})
       /\ UNCHANGED readOK

(* Mutation: readers look at the waiting writers only. *)
EnterReadIgnoresActive(r) ==
  IF writerWaiters > 0
  THEN /\ readOK' = Append(readOK, r)
       /\ Step(r, "asleep", {})
       /\ UNCHANGED readersCount
  ELSE /\ readersCount' = readersCount + 1
       /\ Step(r, "in", {})
       /\ UNCHANGED readOK

(* The loop of RLock and what follows it. *)
EnterRead(r) ==
  IF writerActive \/ writerWaiters > 0
  THEN /\ readOK' = Append(readOK, r)
       /\ Step(r, "asleep", {})
       /\ UNCHANGED readersCount
  ELSE /\ readersCount' = readersCount + 1
       /\ Step(r, "in", {})
       /\ UNCHANGED readOK

RLock(r) ==
  /\ pc[r] = "idle"
  /\ EnterRead(r)
  /\ UNCHANGED <<writerActive, writerWaiters, writeOK>>

RLockWoken(r) ==
  /\ pc[r] = "woken"
  /\ EnterRead(r)
  /\ UNCHANGED <<writerActive, writerWaiters, writeOK>>

(* RUnlock: the last reader to leave signals a writer. *)
RUnlock(r) ==
  /\ pc[r] = "in"
  /\ readersCount' = readersCount - 1
  /\ LET n == IF readersCount = 1 THEN 1 ELSE 0
     IN /\ writeOK' = Asleep(writeOK, n)
        /\ Step(r, "idle", Woken(writeOK, n))
  /\ UNCHANGED <<writerActive, writerWaiters, readOK>>

-----------------------------------------------------------------------------
(* The loop of Lock and what follows it; waiting is the value of            *)
(* writerWaiters with this writer counted.                                  *)
EnterWrite(w, waiting) ==
  IF writerActive \/ readersCount > 0
  THEN /\ writeOK' = Append(writeOK, w)
       /\ writerWaiters' = waiting
       /\ Step(w, "asleep", {})
       /\ UNCHANGED writerActive
  ELSE /\ writerWaiters' = waiting - 1
       /\ writerActive' = TRUE
       /\ Step(w, "in", {})
       /\ UNCHANGED writeOK

(* Mutation: the writer does not count itself as waiting. *)
LockUncounted(w) ==
  /\ pc[w] = "idle"
  /\ EnterWrite(w, writerWaiters)
  /\ UNCHANGED <<readersCount, readOK>>

Lock(w) ==
  /\ pc[w] = "idle"
  /\ EnterWrite(w, writerWaiters + 1)
  /\ UNCHANGED <<readersCount, readOK>>

LockWoken(w) ==
  /\ pc[w] = "woken"
  /\ EnterWrite(w, writerWaiters)
  /\ UNCHANGED <<readersCount, readOK>>

(* Mutation: one reader is woken instead of all. *)
UnlockSignalsReader(w) ==
  /\ pc[w] = "in"
  /\ writerActive' = FALSE
  /\ IF writerWaiters > 0
     THEN /\ writeOK' = Asleep(writeOK, 1)
          /\ Step(w, "idle", Woken(writeOK, 1))
          /\ UNCHANGED readOK
     ELSE /\ readOK' = Asleep(readOK, 1)
          /\ Step(w, "idle", Woken(readOK, 1))
          /\ UNCHANGED writeOK
  /\ UNCHANGED <<readersCount, writerWaiters>>

(* Unlock: one writer is signalled if any waits, else all readers are. *)
Unlock(w) ==
  /\ pc[w] = "in"
  /\ writerActive' = FALSE
  /\ IF writerWaiters > 0
     THEN /\ writeOK' = Asleep(writeOK, 1)
          /\ Step(w, "idle", Woken(writeOK, 1))
          /\ UNCHANGED readOK
     ELSE /\ readOK' = <<>>
          /\ Step(w, "idle", AllWoken(readOK))
          /\ UNCHANGED writeOK
  /\ UNCHANGED <<readersCount, writerWaiters>>

Next ==
  \/ \E r \in Readers : RLock(r) \/ RLockWoken(r) \/ RUnlock(r)
  \/ \E w \in Writers : Lock(w) \/ LockWoken(w) \/ Unlock(w)

Spec == Init /\ [][Next]_vars

(* A woken goroutine gets the mutex in the end and a holder unlocks in the  *)
(* end; nobody has to ask for the lock.                                     *)
Progress(u) ==
  \/ u \in Readers /\ (RLockWoken(u) \/ RUnlock(u))
  \/ u \in Writers /\ (LockWoken(u) \/ Unlock(u))
Fairness == \A u \in Readers \cup Writers : WF_vars(Progress(u))

-----------------------------------------------------------------------------
(* Properties *)

In(S) == {u \in S : pc[u] = "in"}

(***************************************************************************)
(* A writer excludes everybody else, and the counters say who is where:    *)
(* readersCount the readers inside, writerActive the writer inside, and    *)
(* writerWaiters the writers asleep or woken and not yet through.          *)
(***************************************************************************)
Exclusion ==
  /\ In(Writers) # {} => In(Readers) = {} /\ Cardinality(In(Writers)) = 1
  /\ readersCount = Cardinality(In(Readers))
  /\ writerActive <=> In(Writers) # {}
  /\ writerWaiters = Cardinality({w \in Writers : pc[w] \in {"asleep", "woken"}})

(***************************************************************************)
(* Nobody sleeps on an open lock: with writers asleep, somebody is inside  *)
(* or a writer has been woken; with readers asleep, a writer is inside,    *)
(* waiting or woken.  So Signal to one writer and Broadcast to all readers *)
(* are enough, although a woken writer may find the lock taken again.      *)
(***************************************************************************)
NoMissedWakeup ==
  /\ writeOK # <<>> =>
       readersCount > 0 \/ writerActive \/ \E w \in Writers : pc[w] = "woken"
  /\ readOK # <<>> => writerActive \/ writerWaiters > 0
  /\ \A u \in Users : pc[u] = "asleep" <=>
       u \in AllWoken(readOK) \cup AllWoken(writeOK)

(***************************************************************************)
(* rwlock.go: "Writer-Preference to prevent writer starvation".  While     *)
(* writers wait, readers cannot keep them out: some writer gets in.        *)
(***************************************************************************)
ReadersDoNotStarveWriters == writerWaiters > 0 ~> In(Writers) # {}

=============================================================================
