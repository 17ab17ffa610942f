------------------------------ MODULE Spinlock ------------------------------
(***************************************************************************)
(* pkg/concurrency/spinlock.go: a lock of one word.  Every access to state *)
(* is one atomic operation, and one action.                                *)
(***************************************************************************)
EXTENDS Naturals

CONSTANT Threads

VARIABLES
  state,   \* 0 = unlocked, 1 = locked
  pc       \* "idle", "spinning" (in Lock, after a failed attempt) or "held"

vars == <<state, pc>>

TypeOK ==
  /\ state \in 0..1
  /\ pc \in [Threads -> {"idle", "spinning", "held"}]

(* NewSpinlock *)
Init ==
  /\ state = 0
  /\ pc = [t \in Threads |-> "idle"]

(* CompareAndSwapInt32(&s.state, 0, 1) succeeds. *)
CAS(t) ==
  /\ state = 0
  /\ state' = 1
  /\ pc' = [pc EXCEPT ![t] = "held"]

(* Lock: the first attempt, or one more turn of the loop. *)
LockAcquire(t) == pc[t] \in {"idle", "spinning"} /\ CAS(t)

(* Lock: the first attempt fails.  Later failures change nothing. *)
LockSpin(t) ==
  /\ pc[t] = "idle"
  /\ state # 0
  /\ pc' = [pc EXCEPT ![t] = "spinning"]
  /\ UNCHANGED state

(* TryLock that succeeds; one that fails changes nothing. *)
TryLock(t) == pc[t] = "idle" /\ CAS(t)

(* Mutation: Unlock swaps 1 for 1. *)
UnlockKeepsState(t) ==
  /\ pc[t] = "held"
  /\ state' = 1
  /\ pc' = [pc EXCEPT ![t] = "idle"]

Unlock(t) ==
  /\ pc[t] = "held"
  /\ state' = 0
  /\ pc' = [pc EXCEPT ![t] = "idle"]

Next == \E t \in Threads : LockAcquire(t) \/ LockSpin(t) \/ TryLock(t) \/ Unlock(t)

Spec == Init /\ [][Next]_vars

(* A spinning thread goes on trying (its loop yields and is scheduled       *)
(* again), and a holder unlocks in the end.                                 *)
Progress(t) == (pc[t] = "spinning" /\ LockAcquire(t)) \/ Unlock(t)
Fairness == \A t \in Threads : WF_vars(Progress(t))

-----------------------------------------------------------------------------
(* Properties *)

phaseOf(t) == CASE pc[t] = "idle" -> "idle"
                [] pc[t] = "spinning" -> "waiting"
                [] pc[t] = "held" -> "holding"

L == INSTANCE LockSpec WITH Permits <- 1, phase <- [t \in Threads |-> phaseOf(t)]

(* Lock, TryLock and Unlock implement a lock with one permit. *)
ImplementsLock == L!Spec

(***************************************************************************)
(* Spinning is not in vain: while threads spin on a lock nobody holds, one *)
(* thread or another gets it.  Nothing is promised to a particular thread. *)
(***************************************************************************)
SpinnersGetThrough ==
  (\E t \in Threads : pc[t] = "spinning") ~> (\E t \in Threads : pc[t] = "held")

=============================================================================
