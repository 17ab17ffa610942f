----------------------------- MODULE Semaphore ------------------------------
(***************************************************************************)
(* pkg/concurrency/semaphore.go: a counting semaphore with a queue of      *)
(* channels.  Wait and Signal change value and the queue in one section    *)
(* under mu, which is one action; a blocked Wait returns, and Signal       *)
(* closes the channel it popped, outside of mu in steps of their own.      *)
(***************************************************************************)
EXTENDS Integers, Sequences, FiniteSets

CONSTANTS
  Threads,
  NoThread,
  Initial,     \* initialValue
  MaxValue     \* bound: nobody signals a semaphore that has this value

ConstantsOK == IsFiniteSet(Threads) /\ NoThread \notin Threads /\ Initial \in Nat

VARIABLES
  value,
  waiters,   \* the queue; a channel is named by the thread that waits on it
  closed,    \* the threads whose channel has been closed
  popped,    \* popped[t]: the channel t popped in Signal and has yet to close
  pc,        \* "idle", "blocked" (in Wait) or "closing" (in Signal)
  asLock,    \* whether the callers use it as a lock (see below)
  holders,   \* history: the threads whose last operation was a Wait
  out        \* history: Waits that have returned less Signals that have begun

vars == <<value, waiters, closed, popped, pc, asLock, holders, out>>

TypeOK ==
  /\ value \in Int
  /\ waiters \in Seq(Threads)
  /\ closed \subseteq Threads
  /\ popped \in [Threads -> Threads \cup {NoThread}]
  /\ pc \in [Threads -> {"idle", "blocked", "closing"}]
  /\ asLock \in BOOLEAN
  /\ holders \subseteq Threads
  /\ out \in Int

Init ==
  /\ value = Initial
  /\ waiters = <<>>
  /\ closed = {}
  /\ popped = [t \in Threads |-> NoThread]
  /\ pc = [t \in Threads |-> "idle"]
  /\ asLock \in BOOLEAN
  /\ holders = {}
  /\ out = 0

-----------------------------------------------------------------------------
(* Mutation: the value may go to -1 before callers block. *)
PassesAtMinusOne(v) == v >= -1

(* Whether a Wait that has brought the value to v passes. *)
Passes(v) == v >= 0

(* Wait when a permit is left. *)
WaitPasses(t) ==
  /\ pc[t] = "idle"
  /\ value' = value - 1
  /\ Passes(value')
  /\ holders' = holders \cup {t}
  /\ out' = out + 1
  /\ UNCHANGED <<waiters, closed, popped, pc>>

(* Wait when none is left: the caller queues its channel and blocks. *)
WaitBlocks(t) ==
  /\ pc[t] = "idle"
  /\ value' = value - 1
  /\ ~Passes(value')
  /\ waiters' = Append(waiters, t)
  /\ pc' = [pc EXCEPT ![t] = "blocked"]
  /\ UNCHANGED <<closed, popped, holders, out>>

(* The channel is closed: the blocked Wait returns. *)
WaitReturns(t) ==
  /\ pc[t] = "blocked"
  /\ t \in closed
  /\ closed' = closed \ {t}
  /\ pc' = [pc EXCEPT ![t] = "idle"]
  /\ holders' = holders \cup {t}
  /\ out' = out + 1
  /\ UNCHANGED <<value, waiters, popped>>

-----------------------------------------------------------------------------
(* Signal with nobody in the queue. *)
SignalFree(t) ==
  /\ pc[t] = "idle"
  /\ value < MaxValue
  /\ waiters = <<>>
  /\ value' = value + 1
  /\ holders' = holders \ {t}
  /\ out' = out - 1
  /\ UNCHANGED <<waiters, closed, popped, pc>>

(* Mutation: the value is only incremented when nobody waits. *)
SignalPopUncounted(t) ==
  /\ pc[t] = "idle"
  /\ waiters # <<>>
  /\ popped' = [popped EXCEPT ![t] = Head(waiters)]
  /\ waiters' = Tail(waiters)
  /\ pc' = [pc EXCEPT ![t] = "closing"]
  /\ holders' = holders \ {t}
  /\ out' = out - 1
  /\ UNCHANGED <<value, closed>>

(* Mutation: the channel stays in the queue. *)
SignalPeek(t) ==
  /\ pc[t] = "idle"
  /\ waiters # <<>>
  /\ value' = value + 1
  /\ popped' = [popped EXCEPT ![t] = Head(waiters)]
  /\ pc' = [pc EXCEPT ![t] = "closing"]
  /\ holders' = holders \ {t}
  /\ out' = out - 1
  /\ UNCHANGED <<waiters, closed>>

(* Signal with a queue: the first channel is popped. *)
SignalPop(t) ==
  /\ pc[t] = "idle"
  /\ waiters # <<>>
  /\ value' = value + 1
  /\ popped' = [popped EXCEPT ![t] = Head(waiters)]
  /\ waiters' = Tail(waiters)
  /\ pc' = [pc EXCEPT ![t] = "closing"]
  /\ holders' = holders \ {t}
  /\ out' = out - 1
  /\ UNCHANGED closed

(* After mu is released: close(ch). *)
SignalClose(t) ==
  /\ pc[t] = "closing"
  /\ closed' = closed \cup {popped[t]}
  /\ popped' = [popped EXCEPT ![t] = NoThread]
  /\ pc' = [pc EXCEPT ![t] = "idle"]
  /\ UNCHANGED <<value, waiters, holders, out>>

-----------------------------------------------------------------------------
(* Used as a lock with Initial permits (by WriteSync and ReadSync of        *)
(* pkg/ipc/shared_memory.go, for one), only a thread that has passed Wait   *)
(* signals; otherwise any thread may wait or signal at any time.            *)
Wait(t) == (asLock => t \notin holders) /\ (WaitPasses(t) \/ WaitBlocks(t)) /\ UNCHANGED asLock
Signal(t) == (asLock => t \in holders) /\ (SignalFree(t) \/ SignalPop(t)) /\ UNCHANGED asLock
Continue(t) == (WaitReturns(t) \/ SignalClose(t)) /\ UNCHANGED asLock

Next == \E t \in Threads : Wait(t) \/ Signal(t) \/ Continue(t)

Spec == Init /\ [][Next]_vars

(* A goroutine that can run does run, and whoever holds the lock gives it   *)
(* up in the end.                                                           *)
Progress(t) == Continue(t) \/ (asLock /\ Signal(t))
Fairness == \A t \in Threads : WF_vars(Progress(t))

-----------------------------------------------------------------------------
(* Properties *)

(* Granted a permit by a Signal but not yet back from Wait. *)
InFlight == closed \cup {popped[t] : t \in {u \in Threads : pc[u] = "closing"}}

PositivePart(n) == IF n > 0 THEN n ELSE 0

(***************************************************************************)
(* No permit is lost or made up, in any interleaving of Waits and Signals: *)
(* the permits handed out, those on their way to a woken thread and those  *)
(* left in a positive value add up to Initial, and the queue is exactly as *)
(* long as value is negative.                                              *)
(***************************************************************************)
PermitsBalance ==
  /\ out + Cardinality(InFlight) + PositivePart(value) = Initial
  /\ Len(waiters) = PositivePart(-value)

(***************************************************************************)
(* A blocked thread is either in the queue, once, or in flight, and never  *)
(* both: a Signal wakes one thread that really waits, and no channel is    *)
(* closed twice (which would panic).                                       *)
(***************************************************************************)
BlockedIsQueuedOrInFlight ==
  /\ \A t \in Threads : pc[t] = "blocked" <=>
        (t \in InFlight) # (\E i \in 1..Len(waiters) : waiters[i] = t)
  /\ \A i, j \in 1..Len(waiters) : waiters[i] = waiters[j] => i = j
  /\ \A t \in Threads : pc[t] = "closing" => popped[t] \notin closed
  /\ \A t, u \in Threads : pc[t] = "closing" /\ pc[u] = "closing" /\ popped[t] = popped[u] => t = u

phaseOf(t) ==
  CASE t \in holders -> "holding"
    [] pc[t] = "blocked" -> "waiting"
    [] OTHER -> "idle"

L == INSTANCE LockSpec WITH
       Permits <- Initial,
       phase <- [t \in Threads |-> IF asLock THEN phaseOf(t) ELSE "idle"]

(* Used as a lock, the semaphore lets at most Initial threads through at   *)
(* once: Wait and Signal implement LockSpec.                               *)
ImplementsLock == L!Spec

(* Used as a lock, no Wait blocks for ever: the queue of channels is       *)
(* served first come, first served, and no later Wait overtakes it.        *)
BlockedIsServed == \A t \in Threads : asLock /\ pc[t] = "blocked" ~> t \in holders

=============================================================================
