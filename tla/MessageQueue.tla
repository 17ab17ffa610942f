---------------------------- MODULE MessageQueue ----------------------------
(***************************************************************************)
(* pkg/ipc/message_queue.go: a bounded queue of typed messages.  Send and  *)
(* Receive run under one mutex and never block.  The n-th message accepted *)
(* is represented by the number n and its type.                            *)
(***************************************************************************)
EXTENDS Integers, Sequences

CONSTANTS
  MsgTypes,    \* types of messages; 0, which asks for any type, is not one
  Capacity,
  MaxSent      \* bound: messages accepted

ConstantsOK == Capacity \in Nat /\ MaxSent \in Nat

VARIABLES
  Messages,
  sent,        \* history: messages accepted
  received     \* history: the messages received

mqVars == <<Messages, sent, received>>

Message == [id : 1..MaxSent, type : MsgTypes]

TypeOK ==
  /\ Messages \in Seq(Message)
  /\ sent \in 0..MaxSent
  /\ received \subseteq Message

(* NewMessageQueue *)
Init == Messages = <<>> /\ sent = 0 /\ received = {}

Send(type) ==
  /\ Len(Messages) < Capacity
  /\ sent < MaxSent
  /\ Messages' = Append(Messages, [id |-> sent + 1, type |-> type])
  /\ sent' = sent + 1
  /\ UNCHANGED received

Matches(target) == {i \in 1..Len(Messages) : target \in {0, Messages[i].type}}

(* Mutation: the scan runs from the end. *)
IsLast(i, S) == i \in S /\ \A j \in S : j <= i

IsFirst(i, S) == i \in S /\ \A j \in S : i <= j

(* ErrQueueFull and ErrQueueEmpty *)
SendFails == Len(Messages) >= Capacity /\ UNCHANGED mqVars
ReceiveFails(target) == Matches(target) = {} /\ UNCHANGED mqVars

(* The first message of the type asked for. *)
Receive(target) ==
  /\ \E i \in Matches(target) :
       /\ IsFirst(i, Matches(target))
       /\ Messages' = SubSeq(Messages, 1, i - 1) \o SubSeq(Messages, i + 1, Len(Messages))
       /\ received' = received \cup {Messages[i]}
  /\ UNCHANGED sent

Next ==
  \/ (\E type \in MsgTypes : Send(type)) \/ SendFails
  \/ \E target \in MsgTypes \cup {0} : Receive(target) \/ ReceiveFails(target)

Spec == Init /\ [][Next]_mqVars

-----------------------------------------------------------------------------
(* Properties *)

(***************************************************************************)
(* Every message accepted is queued or was received, never both and never  *)
(* twice, and the messages of one type are received in the order in which  *)
(* they were sent, in whatever order the types are asked for.              *)
(***************************************************************************)
TypedFIFO ==
  LET queued == {Messages[i] : i \in 1..Len(Messages)}
      ids(S) == {m.id : m \in S}
  IN  /\ Len(Messages) <= Capacity
      /\ ids(queued) \cup ids(received) = 1..sent
      /\ \A i, j \in 1..Len(Messages) : i < j => Messages[i].id < Messages[j].id
      /\ \A m \in received, q \in queued :
           m.id # q.id /\ (m.type = q.type => m.id < q.id)

=============================================================================
