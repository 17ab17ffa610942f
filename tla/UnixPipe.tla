------------------------------ MODULE UnixPipe ------------------------------
(***************************************************************************)
(* pkg/ipc/pipe.go: a bounded byte pipe under one mutex with the condition *)
(* variables notEmpty and notFull.  A call runs without interruption from  *)
(* where it takes the mutex to where it returns or waits, so that is one   *)
(* action: it begins a call, or continues one that was woken from Wait.    *)
(*                                                                         *)
(* The n-th byte that is accepted is represented by the number n.          *)
(***************************************************************************)
EXTENDS Integers, Sequences, FiniteSets, Lists

CONSTANTS
  Readers, Writers,   \* the goroutines at the two ends
  Capacity,
  MaxChunk,           \* bound: bytes of one Write, and of one Read's dst
  MaxBytes            \* bound: no Write begins after this many bytes

ConstantsOK ==
  /\ IsFiniteSet(Readers) /\ Readers \cap Writers = {}
  /\ Capacity \in Nat \ {0}
  /\ MaxChunk \in Nat \ {0}
  /\ MaxBytes \in Nat

VARIABLES
  Buffer, ReadClosed, WriteClosed, TotalWritten, TotalRead,
  notEmpty, notFull,   \* the goroutines asleep on each condition variable
  pc,                  \* "idle" (not in a call), "asleep" or "woken"
  left                 \* left[w]: bytes of the current Write still to write;
                       \* left[r]: len(dst) of the current Read

vars == <<Buffer, ReadClosed, WriteClosed, TotalWritten, TotalRead,
          notEmpty, notFull, pc, left>>

Users == Readers \cup Writers

TypeOK ==
  /\ Buffer \in Seq(Nat)
  /\ ReadClosed \in BOOLEAN /\ WriteClosed \in BOOLEAN
  /\ TotalWritten \in Nat /\ TotalRead \in Nat
  /\ notEmpty \in Seq(Readers) /\ notFull \in Seq(Writers)
  /\ pc \in [Users -> {"idle", "asleep", "woken"}]
  /\ left \in [Users -> 0..MaxChunk]

(* NewUnixPipe *)
Init ==
  /\ Buffer = <<>>
  /\ ReadClosed = FALSE /\ WriteClosed = FALSE
  /\ TotalWritten = 0 /\ TotalRead = 0
  /\ notEmpty = <<>> /\ notFull = <<>>
  /\ pc = [u \in Users |-> "idle"]
  /\ left = [u \in Users |-> 0]

(* Mutation: the comparison is the wrong way round. *)
Larger(m, n) == IF m <= n THEN n ELSE m

Smaller(m, n) == IF m <= n THEN m ELSE n

(* The goroutine that runs goes to label, and those in the set are woken. *)
Step(self, label, woken) ==
  pc' = [u \in Users |-> IF u = self THEN label
                         ELSE IF u \in woken THEN "woken" ELSE pc[u]]

-----------------------------------------------------------------------------
(* Write *)

(* Mutation: the wait begins one byte too late. *)
RoomForOneMore == Capacity + 1 - Len(Buffer)

Room == Capacity - Len(Buffer)

(* Mutation: a Write signals once, not once per byte. *)
OneNotEmptySignal(k) == Smaller(k, 1)

(* Calls of notEmpty.Signal in a Write that appends k bytes. *)
NotEmptySignals(k) == k

(* The loop over the n bytes still to write: as many as there is room for  *)
(* are appended, with one notEmpty.Signal each; if bytes remain, the writer *)
(* waits on notFull.                                                        *)
Put(w, n) ==
  LET k == Smaller(n, Room)
  IN /\ Buffer' = Buffer \o [i \in 1..k |-> TotalWritten + i]
     /\ TotalWritten' = TotalWritten + k
     /\ notEmpty' = Asleep(notEmpty, NotEmptySignals(k))
     /\ left' = [left EXCEPT ![w] = n - k]
     /\ notFull' = IF k < n THEN Append(notFull, w) ELSE notFull
     /\ Step(w, IF k < n THEN "asleep" ELSE "idle", Woken(notEmpty, NotEmptySignals(k)))

(* A call of Write with n bytes.  With the read end closed it returns       *)
(* ErrPipeClosed at once, which changes nothing.                            *)
Write(w, n) ==
  /\ pc[w] = "idle"
  /\ ~ReadClosed
  /\ TotalWritten + n <= MaxBytes
  /\ Put(w, n)
  /\ UNCHANGED <<ReadClosed, WriteClosed, TotalRead>>

(* Write continues after notFull.Wait. *)
WriteWoken(w) ==
  /\ pc[w] = "woken"
  /\ ~ReadClosed
  /\ Put(w, left[w])
  /\ UNCHANGED <<ReadClosed, WriteClosed, TotalRead>>

(* Write is woken to find the read end closed: it returns ErrPipeClosed. *)
WriteBroken(w) ==
  /\ pc[w] = "woken"
  /\ ReadClosed
  /\ left' = [left EXCEPT ![w] = 0]
  /\ Step(w, "idle", {})
  /\ UNCHANGED <<Buffer, ReadClosed, WriteClosed, TotalWritten, TotalRead, notEmpty, notFull>>

-----------------------------------------------------------------------------
(* Read *)

(* The empty pipe with its write end open: wait on notEmpty. *)
Await(r, n) ==
  /\ Buffer = <<>> /\ ~WriteClosed
  /\ notEmpty' = Append(notEmpty, r)
  /\ left' = [left EXCEPT ![r] = n]
  /\ Step(r, "asleep", {})
  /\ UNCHANGED <<Buffer, TotalRead, notFull>>

(* The empty pipe with its write end closed: return 0 bytes. *)
ReturnEOF(r, n) ==
  /\ Buffer = <<>> /\ WriteClosed
  /\ left' = [left EXCEPT ![r] = 0]
  /\ Step(r, "idle", {})
  /\ UNCHANGED <<Buffer, TotalRead, notEmpty, notFull>>

(* Mutation: notFull is signalled only when the buffer was full. *)
NotFullSignalsIfFull == IF Len(Buffer) = Capacity THEN 1 ELSE 0

(* Calls of notFull.Signal in a Read that takes data. *)
NotFullSignals == 1

(* Up to n bytes are taken from the front; notFull is signalled once. *)
Take(r, n) ==
  /\ Buffer # <<>>
  /\ LET k == Smaller(n, Len(Buffer))
     IN /\ Buffer' = SubSeq(Buffer, k + 1, Len(Buffer))
        /\ TotalRead' = TotalRead + k
        /\ notFull' = Asleep(notFull, NotFullSignals)
        /\ left' = [left EXCEPT ![r] = 0]
        /\ Step(r, "idle", Woken(notFull, NotFullSignals))
  /\ UNCHANGED notEmpty

Get(r, n) ==
  /\ Await(r, n) \/ ReturnEOF(r, n) \/ Take(r, n)
  /\ UNCHANGED <<ReadClosed, WriteClosed, TotalWritten>>

(* A call of Read with len(dst) = n, and its continuation after a Wait. *)
Read(r, n) == pc[r] = "idle" /\ Get(r, n)
ReadWoken(r) == pc[r] = "woken" /\ Get(r, left[r])

-----------------------------------------------------------------------------
(* Mutation: closing the write end wakes one reader only. *)
CloseWriteSignals ==
  /\ WriteClosed' = TRUE
  /\ notEmpty' = Asleep(notEmpty, 1)
  /\ pc' = [u \in Users |-> IF u \in Woken(notEmpty, 1) THEN "woken" ELSE pc[u]]
  /\ UNCHANGED <<Buffer, ReadClosed, TotalWritten, TotalRead, notFull, left>>

CloseWrite ==
  /\ WriteClosed' = TRUE
  /\ notEmpty' = <<>>
  /\ pc' = [u \in Users |-> IF u \in AllWoken(notEmpty) THEN "woken" ELSE pc[u]]
  /\ UNCHANGED <<Buffer, ReadClosed, TotalWritten, TotalRead, notFull, left>>

CloseRead ==
  /\ ReadClosed' = TRUE
  /\ notFull' = <<>>
  /\ pc' = [u \in Users |-> IF u \in AllWoken(notFull) THEN "woken" ELSE pc[u]]
  /\ UNCHANGED <<Buffer, WriteClosed, TotalWritten, TotalRead, notEmpty, left>>

Next ==
  \/ \E w \in Writers : (\E n \in 1..MaxChunk : Write(w, n)) \/ WriteWoken(w) \/ WriteBroken(w)
  \/ \E r \in Readers : (\E n \in 1..MaxChunk : Read(r, n)) \/ ReadWoken(r)
  \/ CloseWrite
  \/ CloseRead

Spec == Init /\ [][Next]_vars

(* A woken goroutine gets the mutex in the end (sync.Mutex hands it over to *)
(* a waiter that has been passed over for long).  Nobody has to begin a     *)
(* call.                                                                    *)
Progress(u) ==
  \/ u \in Writers /\ (WriteWoken(u) \/ WriteBroken(u))
  \/ u \in Readers /\ ReadWoken(u)
Fairness == \A u \in Users : WF_vars(Progress(u))

FairSpec == Spec /\ Fairness

-----------------------------------------------------------------------------
(* Properties *)

WokenReaders == {r \in Readers : pc[r] = "woken"}
WokenWriters == {w \in Writers : pc[w] = "woken"}

(***************************************************************************)
(* The pipe is a bounded FIFO byte stream: what it holds are exactly the   *)
(* bytes written and not yet read, in order, and never more than Capacity, *)
(* however the chunks of several Writes that block midway interleave.      *)
(***************************************************************************)
StreamIntact ==
  /\ Len(Buffer) = TotalWritten - TotalRead
  /\ Len(Buffer) <= Capacity
  /\ \A i \in 1..Len(Buffer) : Buffer[i] = TotalRead + i

(***************************************************************************)
(* No wakeup is missed by readers: while some are asleep, at least as many *)
(* have been woken as there are bytes, so each byte has a reader on its    *)
(* way even if a Read that just arrives takes it first.  The signal per    *)
(* byte in Write is what this rests on.                                    *)
(***************************************************************************)
NoMissedReader ==
  /\ notEmpty # <<>> => Len(Buffer) <= Cardinality(WokenReaders)
  /\ \A r \in Readers : pc[r] = "asleep" <=> \E i \in 1..Len(notEmpty) : notEmpty[i] = r

(***************************************************************************)
(* Readers and writers never all wait for each other: with writers asleep  *)
(* and an empty buffer, some writer has been woken (or the read end has    *)
(* been closed, which wakes all), although Read signals one writer only.   *)
(***************************************************************************)
NoStandstill ==
  /\ notFull # <<>> /\ Buffer = <<>> => WokenWriters # {}
  /\ ReadClosed => notFull = <<>>
  /\ WriteClosed => notEmpty = <<>>
  /\ \A w \in Writers : pc[w] = "asleep" <=> \E i \in 1..Len(notFull) : notFull[i] = w

(***************************************************************************)
(* Closing an end releases the other one: after CloseRead every Write in   *)
(* progress returns, and after CloseWrite every Read in progress returns,  *)
(* the goroutines asleep at that moment included.                          *)
(***************************************************************************)
CloseReleases ==
  /\ \A w \in Writers : ReadClosed /\ pc[w] # "idle" ~> pc[w] = "idle"
  /\ \A r \in Readers : WriteClosed /\ pc[r] # "idle" ~> pc[r] = "idle"

(***************************************************************************)
(* pipe.go, on Write: "blocks if buffer is full".  With room in the pipe,  *)
(* a writer is not left asleep.  Read frees several bytes and signals one  *)
(* writer, so this fails: see the README.                                  *)
(***************************************************************************)
WritersWaitOnlyWhenFull ==
  \A w \in Writers :
    pc[w] = "asleep" /\ Len(Buffer) < Capacity ~> pc[w] # "asleep" \/ Len(Buffer) = Capacity

=============================================================================
