-------------------------------- MODULE Mutex --------------------------------
(***************************************************************************)
(* pkg/concurrency/mutex.go: the blocking mutex with a queue of parked     *)
(* threads.  Lock tries one compare-and-swap and otherwise enqueues a node *)
(* and parks on its channel; Unlock hands the lock to the first node of    *)
(* the queue, or marks it free when the queue is empty.                    *)
(*                                                                         *)
(* One action is one atomic access or one section under the internal       *)
(* guard mu.  Lock's section is two steps, because a compare-and-swap of   *)
(* another thread can fall between the append and the store of state.      *)
(* Unlock's section is one: while it runs state is not 0 until its only    *)
(* store of 0, so no compare-and-swap can take effect inside it.           *)
(***************************************************************************)
EXTENDS Naturals, Sequences

CONSTANTS
  Threads,    \* the goroutines that use the mutex
  NoThread    \* "mu is free"

ASSUME NoThreadAssumption == NoThread \notin Threads

VARIABLES
  state,     \* 0 = unlocked, 1 = locked, 2 = locked with waiters
  waiters,   \* the wait queue; a node is named by the thread that waits on it
  mu,        \* the holder of the internal guard, or NoThread
  ready,     \* the threads whose node's ready channel is closed
  next,      \* next[t]: the node t popped in Unlock and has still to wake
  pc         \* where each thread is in Lock and Unlock

mutexVars == <<state, waiters, mu, ready, next, pc>>

PCs == {"idle", "slow", "flag", "parked", "held", "wake"}

TypeOK ==
  /\ state \in 0..2
  /\ waiters \in Seq(Threads)
  /\ mu \in Threads \cup {NoThread}
  /\ ready \subseteq Threads
  /\ next \in [Threads -> Threads \cup {NoThread}]
  /\ pc \in [Threads -> PCs]

Init ==
  /\ state = 0
  /\ waiters = <<>>
  /\ mu = NoThread
  /\ ready = {}
  /\ next = [t \in Threads |-> NoThread]
  /\ pc = [t \in Threads |-> "idle"]

Goto(t, label) == pc' = [pc EXCEPT ![t] = label]

-----------------------------------------------------------------------------
(* Lock *)

(* The fast path: the compare-and-swap of state from 0 to 1 succeeds. *)
LockFast(t) ==
  /\ pc[t] = "idle"
  /\ state = 0
  /\ state' = 1
  /\ Goto(t, "held")
  /\ UNCHANGED <<waiters, mu, ready, next>>

(* The compare-and-swap fails; the thread heads for the wait queue. *)
LockContended(t) ==
  /\ pc[t] = "idle"
  /\ state # 0
  /\ Goto(t, "slow")
  /\ UNCHANGED <<state, waiters, mu, ready, next>>

(* Under mu, the thread appends its node. *)
Enqueue(t) ==
  /\ pc[t] = "slow"
  /\ mu = NoThread
  /\ mu' = t
  /\ waiters' = Append(waiters, t)
  /\ Goto(t, "flag")
  /\ UNCHANGED <<state, ready, next>>

(* Mutation: state is not set to 2. *)
FlagWaitersNoStore(t) ==
  /\ pc[t] = "flag"
  /\ mu' = NoThread
  /\ Goto(t, "parked")
  /\ UNCHANGED <<state, waiters, ready, next>>

(* Still under mu, it stores 2; then it releases mu and parks. *)
FlagWaiters(t) ==
  /\ pc[t] = "flag"
  /\ state' = 2
  /\ mu' = NoThread
  /\ Goto(t, "parked")
  /\ UNCHANGED <<waiters, ready, next>>

(* The ready channel is closed: Lock returns. *)
Unpark(t) ==
  /\ pc[t] = "parked"
  /\ t \in ready
  /\ ready' = ready \ {t}
  /\ Goto(t, "held")
  /\ UNCHANGED <<state, waiters, mu, next>>

-----------------------------------------------------------------------------
(* Unlock *)

(* Mutation: the lock is marked free while it is handed to the last waiter. *)
UnlockHandoffMarkedFree(t) ==
  /\ pc[t] = "held"
  /\ mu = NoThread
  /\ waiters # <<>>
  /\ next' = [next EXCEPT ![t] = Head(waiters)]
  /\ waiters' = Tail(waiters)
  /\ state' = IF Tail(waiters) = <<>> THEN 0 ELSE state
  /\ Goto(t, "wake")
  /\ UNCHANGED <<mu, ready>>

(* Mutation: the newest waiter is popped instead of the oldest. *)
UnlockHandoffLIFO(t) ==
  /\ pc[t] = "held"
  /\ mu = NoThread
  /\ waiters # <<>>
  /\ next' = [next EXCEPT ![t] = waiters[Len(waiters)]]
  /\ waiters' = SubSeq(waiters, 1, Len(waiters) - 1)
  /\ state' = IF Len(waiters) = 1 THEN 1 ELSE state
  /\ Goto(t, "wake")
  /\ UNCHANGED <<mu, ready>>

(* The queue is not empty: pop its head and keep the lock locked for it. *)
UnlockHandoff(t) ==
  /\ pc[t] = "held"
  /\ mu = NoThread
  /\ waiters # <<>>
  /\ next' = [next EXCEPT ![t] = Head(waiters)]
  /\ waiters' = Tail(waiters)
  /\ state' = IF Tail(waiters) = <<>> THEN 1 ELSE state
  /\ Goto(t, "wake")
  /\ UNCHANGED <<mu, ready>>

(* After mu is released: close(next.ready). *)
WakeNext(t) ==
  /\ pc[t] = "wake"
  /\ ready' = ready \cup {next[t]}
  /\ next' = [next EXCEPT ![t] = NoThread]
  /\ Goto(t, "idle")
  /\ UNCHANGED <<state, waiters, mu>>

(* The queue is empty: mark the mutex unlocked. *)
UnlockFree(t) ==
  /\ pc[t] = "held"
  /\ mu = NoThread
  /\ waiters = <<>>
  /\ state' = 0
  /\ Goto(t, "idle")
  /\ UNCHANGED <<waiters, mu, ready, next>>

-----------------------------------------------------------------------------

Lock(t) == LockFast(t) \/ LockContended(t)

(* The steps a thread takes on its own once it has called Lock or Unlock. *)
Continue(t) ==
  \/ Enqueue(t) \/ FlagWaiters(t) \/ Unpark(t)
  \/ WakeNext(t)

Unlock(t) == UnlockHandoff(t) \/ UnlockFree(t)

Next == \E t \in Threads : Lock(t) \/ Continue(t) \/ Unlock(t)

Spec == Init /\ [][Next]_mutexVars

(***************************************************************************)
(* Every goroutine that can run does run (Go's scheduler preempts), and    *)
(* every holder unlocks in the end.  Nobody has to call Lock.              *)
(***************************************************************************)
Progress(t) == Continue(t) \/ Unlock(t)
Fairness == \A t \in Threads : WF_mutexVars(Progress(t))

FairSpec == Spec /\ Fairness

-----------------------------------------------------------------------------
(* Properties *)

(* The thread has the lock, or has been chosen to have it next. *)
Owns(t) ==
  \/ pc[t] = "held"
  \/ t \in ready
  \/ \E u \in Threads : pc[u] = "wake" /\ next[u] = t

(***************************************************************************)
(* Mutual exclusion, the hand-off included: at most one thread is past     *)
(* Lock, woken by Unlock, or popped by Unlock and about to be woken.       *)
(***************************************************************************)
SoleOwner == \A t, u \in Threads : Owns(t) /\ Owns(u) => t = u

(* A mutex marked unlocked is owned by nobody. *)
FreeIsUnowned == state = 0 => \A t \in Threads : ~Owns(t)

(* At most one Unlock is between its pop and its close(next.ready), and the *)
(* thread it is going to wake is parked.                                    *)
HandoffInv ==
  /\ \A t, u \in Threads : pc[t] = "wake" /\ pc[u] = "wake" => t = u
  /\ \A t \in Threads : pc[t] = "wake" =>
        next[t] \in Threads /\ pc[next[t]] = "parked" /\ next[t] \notin ready
  /\ \A t \in ready : pc[t] = "parked"

(* The queue holds threads that wait and own nothing, each one once; such   *)
(* a thread is in the queue or chosen; and a queue with a parked thread     *)
(* shows as state 2, so that no compare-and-swap succeeds over it.          *)
QueueInv ==
  /\ \A i \in 1..Len(waiters) :
        /\ pc[waiters[i]] \in {"flag", "parked"}
        /\ ~Owns(waiters[i])
        /\ pc[waiters[i]] = "parked" => state = 2
  /\ \A i, j \in 1..Len(waiters) : waiters[i] = waiters[j] => i = j
  /\ \A t \in Threads : pc[t] \in {"flag", "parked"} =>
        Owns(t) \/ \E i \in 1..Len(waiters) : waiters[i] = t
  /\ \A t \in Threads : pc[t] = "flag" <=> mu = t

(***************************************************************************)
(* How state, the queue, the ready channels and the threads' positions     *)
(* agree at every moment of every interleaving of Lock and Unlock.         *)
(***************************************************************************)
OwnershipInv == SoleOwner /\ FreeIsUnowned /\ HandoffInv /\ QueueInv

(***************************************************************************)
(* The fast path never overtakes a parked thread: whenever the             *)
(* compare-and-swap of Lock succeeds, nobody is parked on the mutex.       *)
(***************************************************************************)
NoBarging ==
  [][\A t \in Threads :
        pc[t] = "idle" /\ pc'[t] = "held" => \A u \in Threads : pc[u] # "parked"
    ]_mutexVars

(***************************************************************************)
(* A thread parked while somebody owns the mutex is served: the chain of   *)
(* hand-offs in Unlock reaches it.                                         *)
(***************************************************************************)
QueuedIsServed ==
  \A t \in Threads :
    (pc[t] = "parked" /\ \E u \in Threads : Owns(u)) ~> pc[t] = "held"

(***************************************************************************)
(* A parked thread is awakened by an Unlock (mutex.go, on the channel      *)
(* receive that ends Lock: "Park thread (blocks until awakened by          *)
(* Unlock)").  The code does not ensure it: see the README.                *)
(***************************************************************************)
ParkedIsAwakened == \A t \in Threads : pc[t] = "parked" ~> pc[t] = "held"

phaseOf(t) ==
  CASE pc[t] = "held" -> "holding"
    [] pc[t] \in {"slow", "flag", "parked"} -> "waiting"
    [] pc[t] \in {"idle", "wake"} -> "idle"

L == INSTANCE LockSpec WITH Permits <- 1, phase <- [t \in Threads |-> phaseOf(t)]

(* Mutex implements a lock with one permit: its Lock and Unlock only move  *)
(* threads between idle, waiting and holding as LockSpec allows.           *)
ImplementsLock == L!Spec

=============================================================================
