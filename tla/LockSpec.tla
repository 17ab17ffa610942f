------------------------------ MODULE LockSpec ------------------------------
(***************************************************************************)
(* What a lock of pkg/concurrency promises its callers.  A thread is idle, *)
(* waiting inside Lock (Wait, for a semaphore) or holding the lock, and at *)
(* most Permits threads hold it at once.  Mutex, Spinlock and Semaphore    *)
(* are shown to implement this specification.                              *)
(***************************************************************************)
EXTENDS Naturals, FiniteSets

CONSTANTS
  Threads,   \* the goroutines that use the lock
  Permits    \* how many of them may hold it at once (1 for a mutex)

VARIABLE phase   \* phase[t]: "idle", "waiting" or "holding"

Holders == {t \in Threads : phase[t] = "holding"}

Init == phase = [t \in Threads |-> "idle"]

(* The thread has called Lock and has to wait. *)
Request(t) ==
  /\ phase[t] = "idle"
  /\ phase' = [phase EXCEPT ![t] = "waiting"]

(* Lock returns, at once or after a wait. *)
Acquire(t) ==
  /\ phase[t] \in {"idle", "waiting"}
  /\ Cardinality(Holders) < Permits
  /\ phase' = [phase EXCEPT ![t] = "holding"]

(* The holder has given the lock up. *)
Release(t) ==
  /\ phase[t] = "holding"
  /\ phase' = [phase EXCEPT ![t] = "idle"]

Next == \E t \in Threads : Request(t) \/ Acquire(t) \/ Release(t)

Spec == Init /\ [][Next]_phase

=============================================================================
