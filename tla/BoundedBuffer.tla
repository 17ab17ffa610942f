--------------------------- MODULE BoundedBuffer ---------------------------
(***************************************************************************)
(* pkg/concurrency/condvar.go: the bounded buffer on top of the condition  *)
(* variables, which are in turn on top of Mutex; all three are composed    *)
(* here.  While a thread holds the mutex its work on the buffer and on the *)
(* queues of the condition variables is one action; the steps of Lock and  *)
(* Unlock are those of Mutex, interleaved with everybody else's.           *)
(*                                                                         *)
(* The n-th item that is put is represented by the number n.               *)
(***************************************************************************)
EXTENDS Integers, Sequences, FiniteSets

CONSTANTS
  Producers, Consumers,
  NoThread,
  Capacity,
  MaxItems     \* bound: no Put after this many

Threads == Producers \cup Consumers

ASSUME BufferAssumption ==
  /\ IsFiniteSet(Threads) /\ Producers \cap Consumers = {}
  /\ NoThread \notin Threads
  /\ Capacity \in Nat \ {0}
  /\ MaxItems \in Nat

VARIABLES
  state, waiters, mu, ready, next, pc,   \* of Mutex
  buffer,
  notFull, notEmpty,   \* the channels queued on each condition variable
  signalled,           \* the threads whose channel has been closed
  at,                  \* "enter": in Put or Get, before the loop
                       \* "wait": in CondVar.Wait, up to the receive
                       \* "again": in CondVar.Wait, past the receive
                       \* "leave": past the operation, or in no call
  puts, gets           \* how many items have been put and got

bufferVars == <<buffer, notFull, notEmpty, signalled, at, puts, gets>>
mutexVars == <<state, waiters, mu, ready, next, pc>>
monitorVars == <<mutexVars, bufferVars>>

M == INSTANCE Mutex

BufferTypeOK ==
  /\ M!TypeOK
  /\ buffer \in Seq(Nat)
  /\ notFull \in Seq(Producers) /\ notEmpty \in Seq(Consumers)
  /\ signalled \subseteq Threads
  /\ at \in [Threads -> {"enter", "wait", "again", "leave"}]
  /\ puts \in Nat /\ gets \in Nat

(* NewBoundedBuffer *)
BufferInit ==
  /\ M!Init
  /\ buffer = <<>>
  /\ notFull = <<>> /\ notEmpty = <<>>
  /\ signalled = {}
  /\ at = [t \in Threads |-> "leave"]
  /\ puts = 0 /\ gets = 0

Goto(t, label) == at' = [at EXCEPT ![t] = label]

(* Put or Get is called. *)
Call(t) ==
  /\ at[t] = "leave" /\ pc[t] = "idle"
  /\ t \in Producers => puts < MaxItems
  /\ Goto(t, "enter")
  /\ UNCHANGED <<mutexVars, buffer, notFull, notEmpty, signalled, puts, gets>>

(* bb.mu.Lock, at the start and at the end of CondVar.Wait; bb.mu.Unlock,   *)
(* deferred and in CondVar.Wait; and what follows of either.                *)
MutexStep(t) ==
  /\ \/ at[t] \in {"enter", "again"} /\ M!Lock(t)
     \/ at[t] \in {"wait", "leave"} /\ M!Unlock(t)
     \/ M!Continue(t)
  /\ UNCHANGED bufferVars

(* The mutex is held and the loop condition is about to be tested. *)
AtLoop(t) == at[t] \in {"enter", "again"} /\ pc[t] = "held"

(* Mutation: the lock is taken again without a receive from the channel. *)
ReceiveUnsignalled(t) ==
  /\ at[t] = "wait" /\ pc[t] = "idle"
  /\ signalled' = signalled \ {t}
  /\ Goto(t, "again")
  /\ UNCHANGED <<mutexVars, buffer, notFull, notEmpty, puts, gets>>

(* CondVar.Wait: the channel is closed. *)
Receive(t) ==
  /\ at[t] = "wait" /\ pc[t] = "idle"
  /\ t \in signalled
  /\ signalled' = signalled \ {t}
  /\ Goto(t, "again")
  /\ UNCHANGED <<mutexVars, buffer, notFull, notEmpty, puts, gets>>

(* CondVar.Signal on a queue: what is left of it, and who is signalled. *)
Rest(queue) == IF queue = <<>> THEN <<>> ELSE Tail(queue)
First(queue) == IF queue = <<>> THEN {} ELSE {Head(queue)}

-----------------------------------------------------------------------------
(* Mutation: the producer waits on the consumers' condition variable. *)
PutWaitsOnNotEmpty(p) ==
  /\ AtLoop(p)
  /\ Len(buffer) = Capacity
  /\ notEmpty' = Append(notEmpty, p)
  /\ Goto(p, "wait")
  /\ UNCHANGED <<mutexVars, buffer, notFull, signalled, puts, gets>>

(* Put finds the buffer full: CondVar.Wait on notFull begins. *)
PutWaits(p) ==
  /\ AtLoop(p)
  /\ Len(buffer) = Capacity
  /\ notFull' = Append(notFull, p)
  /\ Goto(p, "wait")
  /\ UNCHANGED <<mutexVars, buffer, notEmpty, signalled, puts, gets>>

(* Mutation: "if" instead of "for": a woken producer does not test again. *)
PutOnce(p) ==
  /\ AtLoop(p)
  /\ at[p] = "enter" => Len(buffer) # Capacity
  /\ buffer' = Append(buffer, puts + 1)
  /\ puts' = puts + 1
  /\ notEmpty' = Rest(notEmpty)
  /\ signalled' = signalled \cup First(notEmpty)
  /\ Goto(p, "leave")
  /\ UNCHANGED <<mutexVars, notFull, gets>>

(* Put appends the item and signals notEmpty. *)
Put(p) ==
  /\ AtLoop(p)
  /\ Len(buffer) # Capacity
  /\ buffer' = Append(buffer, puts + 1)
  /\ puts' = puts + 1
  /\ notEmpty' = Rest(notEmpty)
  /\ signalled' = signalled \cup First(notEmpty)
  /\ Goto(p, "leave")
  /\ UNCHANGED <<mutexVars, notFull, gets>>

(* Get finds the buffer empty. *)
GetWaits(c) ==
  /\ AtLoop(c)
  /\ Len(buffer) = 0
  /\ notEmpty' = Append(notEmpty, c)
  /\ Goto(c, "wait")
  /\ UNCHANGED <<mutexVars, buffer, notFull, signalled, puts, gets>>

(* Mutation: notFull is signalled only when the buffer was full. *)
GetSignalsIfFull(c) ==
  /\ AtLoop(c)
  /\ Len(buffer) # 0
  /\ buffer' = Tail(buffer)
  /\ gets' = gets + 1
  /\ IF Len(buffer) = Capacity
     THEN notFull' = Rest(notFull) /\ signalled' = signalled \cup First(notFull)
     ELSE UNCHANGED <<notFull, signalled>>
  /\ Goto(c, "leave")
  /\ UNCHANGED <<mutexVars, notEmpty, puts>>

(* Get takes the first item and signals notFull. *)
Get(c) ==
  /\ AtLoop(c)
  /\ Len(buffer) # 0
  /\ buffer' = Tail(buffer)
  /\ gets' = gets + 1
  /\ notFull' = Rest(notFull)
  /\ signalled' = signalled \cup First(notFull)
  /\ Goto(c, "leave")
  /\ UNCHANGED <<mutexVars, notEmpty, puts>>

BufferNext ==
  \/ \E t \in Threads : Call(t) \/ MutexStep(t) \/ Receive(t)
  \/ \E p \in Producers : PutWaits(p) \/ Put(p)
  \/ \E c \in Consumers : GetWaits(c) \/ Get(c)

BufferSpec == BufferInit /\ [][BufferNext]_monitorVars

-----------------------------------------------------------------------------
(* Properties *)

(* The threads of S that have been signalled and have yet to test again. *)
Pending(S) == {t \in S : t \in signalled \/ at[t] = "again"}

(***************************************************************************)
(* The buffer never holds more than Capacity items, and what it holds are  *)
(* exactly the items put and not yet got, in order, although a thread that *)
(* is signalled finds others ahead of it in the queue of the mutex.        *)
(***************************************************************************)
BufferIntact ==
  /\ Len(buffer) = puts - gets
  /\ Len(buffer) <= Capacity
  /\ \A i \in 1..Len(buffer) : buffer[i] = gets + i

(***************************************************************************)
(* No signal is missed between the test of the loop and the wait on the    *)
(* channel: while consumers (producers) are queued, there are at least as  *)
(* many signalled ones on their way as there are items (free places).      *)
(***************************************************************************)
NoMissedSignal ==
  /\ notEmpty # <<>> => Len(buffer) <= Cardinality(Pending(Consumers))
  /\ notFull # <<>> => Capacity - Len(buffer) <= Cardinality(Pending(Producers))

(***************************************************************************)
(* Only the owner of the mutex is between Lock and Unlock, also across the *)
(* release and re-acquisition inside CondVar.Wait, and a thread that waits *)
(* for a signal is in exactly one queue or has been signalled.             *)
(***************************************************************************)
MonitorDiscipline ==
  /\ \A t, u \in Threads : pc[t] = "held" /\ pc[u] = "held" => t = u
  /\ \A t \in Threads :
       at[t] = "wait" <=>
         (t \in signalled) # (\E i \in 1..Len(notFull \o notEmpty) : (notFull \o notEmpty)[i] = t)

(* The condition variables do their part: no signal is missed, and waiting   *)
(* for one keeps to the discipline of a monitor.                             *)
MonitorInv == NoMissedSignal /\ MonitorDiscipline

=============================================================================
