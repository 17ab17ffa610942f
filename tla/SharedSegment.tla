---------------------------- MODULE SharedSegment ----------------------------
(***************************************************************************)
(* pkg/ipc/shared_memory.go: the contents of a shared segment, which       *)
(* WriteSync and ReadSync access under its semaphore (module Semaphore,    *)
(* with one permit).  The segment has two bytes, which copy() moves one    *)
(* after the other.                                                        *)
(***************************************************************************)
EXTENDS Integers, Sequences

CONSTANTS
  Threads, NoThread,   \* the goroutines that use the segment
  NoCall,              \* not in WriteSync or ReadSync
  Bytes                \* byte values, 0 among them

Payloads == {<<a>> : a \in Bytes} \cup {<<a, b>> : a, b \in Bytes}
ConstantsOK == NoCall \notin Payloads \cup {<<>>} /\ 0 \in Bytes

VARIABLES
  PhysicalData,
  call,           \* call[t]: the data t writes, <<>> for a read, or NoCall
  copied,         \* copied[t]: bytes copied so far
  out,            \* out[t]: what ReadSync has copied
  settled,        \* history: PhysicalData when the last WriteSync ended
  value, waiters, closed, popped, pc, asLock, holders, permits   \* the semaphore

dataVars == <<PhysicalData, call, copied, out, settled>>
semaphoreVars == <<value, waiters, closed, popped, pc, asLock, holders, permits>>
segVars == <<dataVars, semaphoreVars>>

Semaphore == INSTANCE Semaphore WITH Initial <- 1, MaxValue <- 1, out <- permits

Size == 2   \* bytes of the segment
Zeros == [i \in 1..Size |-> 0]

TypeOK ==
  /\ {PhysicalData, settled} \subseteq [1..Size -> Bytes]
  /\ call \in [Threads -> Payloads \cup {<<>>, NoCall}]
  /\ copied \in [Threads -> 0..Size]
  /\ out \in [Threads -> [1..Size -> Bytes]]
  /\ Semaphore!TypeOK

(* CreateSegment; the semaphore is used as a lock. *)
Init ==
  /\ PhysicalData = Zeros /\ settled = Zeros
  /\ call = [t \in Threads |-> NoCall]
  /\ copied = [t \in Threads |-> 0]
  /\ out = [t \in Threads |-> Zeros]
  /\ Semaphore!Init /\ asLock

-----------------------------------------------------------------------------
(* WriteSync(data), or ReadSync for <<>>: Semaphore.Wait *)
Begin(t, data) ==
  /\ call[t] = NoCall
  /\ Semaphore!Wait(t)
  /\ call' = [call EXCEPT ![t] = data]
  /\ UNCHANGED <<PhysicalData, copied, out, settled>>

Continue(t) == Semaphore!Continue(t) /\ UNCHANGED dataVars

(* Mutation: the copy does not wait for the semaphore. *)
InWait(t) == call[t] # NoCall /\ pc[t] # "closing"

(* Back from Wait, and not yet at the deferred Signal. *)
Inside(t) == call[t] # NoCall /\ t \in holders

Length(t) == IF call[t] = <<>> THEN Size ELSE Len(call[t])

(* The next byte of copy(). *)
CopyByte(t) ==
  LET i == copied[t] + 1
  IN  /\ Inside(t) /\ copied[t] < Length(t)
      /\ IF call[t] = <<>>
         THEN out' = [out EXCEPT ![t][i] = PhysicalData[i]] /\ UNCHANGED PhysicalData
         ELSE PhysicalData' = [PhysicalData EXCEPT ![i] = call[t][i]] /\ UNCHANGED out
      /\ copied' = [copied EXCEPT ![t] = i]
      /\ UNCHANGED <<call, settled, semaphoreVars>>

(* The deferred Signal, and the return. *)
End(t) ==
  /\ Inside(t) /\ copied[t] = Length(t)
  /\ Semaphore!Signal(t)
  /\ settled' = IF call[t] = <<>> THEN settled ELSE PhysicalData
  /\ call' = [call EXCEPT ![t] = NoCall]
  /\ copied' = [copied EXCEPT ![t] = 0]
  /\ out' = [out EXCEPT ![t] = Zeros]
  /\ UNCHANGED PhysicalData

Next == \E t \in Threads :
  (\E data \in Payloads \cup {<<>>} : Begin(t, data)) \/ Continue(t) \/ CopyByte(t) \/ End(t)

Spec == Init /\ [][Next]_segVars

-----------------------------------------------------------------------------
(* Properties *)

(***************************************************************************)
(* The semaphore makes WriteSync and ReadSync atomic: a read returns what  *)
(* one write left, a shorter write having kept the rest, never a mixture   *)
(* with a write that is under way.                                         *)
(***************************************************************************)
ReadsAreWhole ==
  /\ \A t \in Threads : call[t] = <<>> /\ Inside(t) /\ copied[t] = Size => out[t] = settled
  /\ (\A t \in Threads : Inside(t) => call[t] = <<>>) => PhysicalData = settled

=============================================================================
