------------------------------- MODULE MCSync -------------------------------
(***************************************************************************)
(* The concurrent units of pkg/concurrency, next to the mutex: spinlock,   *)
(* semaphore, reader-writer lock, dining philosophers and race demo.  They *)
(* share no state.                                                         *)
(***************************************************************************)
EXTENDS Mutex

CONSTANTS
  Readers, Writers,                \* of the reader-writer lock
  Initial, MaxValue,               \* of the semaphore
  MaxN, MealsGoal, NoOne,          \* of the dining philosophers
  Goroutines, Iters                \* of the race demo

VARIABLES
  spinState, spinPC,
  semValue, semWaiters, semClosed, semPopped, semPC, semAsLock, semHolders, semOut,
  rwReaders, rwActive, rwWaiters, rwReadOK, rwWriteOK, rwPC,
  philN, philScenario, philFork, philAt, philMeals, philReport,
  racePhase, raceCounter, raceSafe, raceJ, raceTemp

Spin == INSTANCE Spinlock WITH state <- spinState, pc <- spinPC

Sem == INSTANCE Semaphore WITH
         value <- semValue, waiters <- semWaiters, closed <- semClosed, popped <- semPopped,
         pc <- semPC, asLock <- semAsLock, holders <- semHolders, out <- semOut

RW == INSTANCE RWLock WITH
        readersCount <- rwReaders, writerActive <- rwActive, writerWaiters <- rwWaiters,
        readOK <- rwReadOK, writeOK <- rwWriteOK, pc <- rwPC

Phil == INSTANCE DiningPhilosophers WITH
          n <- philN, scenario <- philScenario, fork <- philFork, at <- philAt,
          meals <- philMeals, report <- philReport

Race == INSTANCE RaceDemo WITH
          phase <- racePhase, counter <- raceCounter, safe <- raceSafe, j <- raceJ,
          temp <- raceTemp

ASSUME LocksAssumption ==
  RW!ConstantsOK /\ Sem!ConstantsOK /\ Phil!ConstantsOK /\ Race!ConstantsOK

spinVars == <<spinState, spinPC>>
semVars == <<semValue, semWaiters, semClosed, semPopped, semPC, semAsLock, semHolders, semOut>>
rwVars == <<rwReaders, rwActive, rwWaiters, rwReadOK, rwWriteOK, rwPC>>
philVars == <<philN, philScenario, philFork, philAt, philMeals, philReport>>
raceVars == <<racePhase, raceCounter, raceSafe, raceJ, raceTemp>>

-----------------------------------------------------------------------------
(* Properties *)

(* Mutex and spinlock, and the semaphore used as a lock, implement LockSpec. *)
LocksImplementLockSpec == ImplementsLock /\ Spin!ImplementsLock /\ Sem!ImplementsLock

(* Semaphore: Wait and Signal lose no permit and make none up, and a blocked *)
(* thread is queued or on its way, never both.                               *)
SemaphoreInv == Sem!PermitsBalance /\ Sem!BlockedIsQueuedOrInFlight

(* RWLock: a writer excludes everybody else, the counters are right, and     *)
(* Unlock and RUnlock leave nobody asleep on an open lock.                   *)
RWLockInv == RW!Exclusion /\ RW!NoMissedWakeup

(* Philosophers: stuck only in the circular wait, and "finished" is true.    *)
OnlyCircularWait == Phil!OnlyCircularWait

(* Race demo: how many increments are lost at most. *)
CountsWithinBounds == Race!CountsWithinBounds

=============================================================================
