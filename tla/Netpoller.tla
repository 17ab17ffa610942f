----------------------------- MODULE Netpoller -----------------------------
(***************************************************************************)
(* pkg/io/netpoller.go on top of pkg/io/epoll.go: a goroutine that finds   *)
(* no data on a descriptor parks and registers the descriptor with epoll;  *)
(* a device interrupt puts an event on epoll's ready list; a background    *)
(* poller takes the events and wakes the goroutines.  ParkedGs is guarded  *)
(* by the mutex of the netpoller, the epoll lists by that of epoll, and    *)
(* the fields of a FileDescriptor by nothing.  Each section under a mutex, *)
(* and each access to an unguarded field, is one action.                   *)
(*                                                                         *)
(* The contents of DataBuffer, the counters TotalParked and TotalWoken and *)
(* the event masks are left out.  What a device writes into a descriptor   *)
(* before it raises its interrupt is up to the callers (see io_test.go).   *)
(***************************************************************************)
EXTENDS Integers, Sequences

CONSTANTS
  Gs,          \* the goroutines
  FDs,         \* the descriptors
  NoG,         \* no goroutine
  MaxEvents,   \* what PollAndWakeup passes to EpollWait (64 in the code)
  MaxPackets   \* bound: packets that arrive

ConstantsOK == NoG \notin Gs /\ FDs # {} /\ MaxEvents \in Nat /\ MaxPackets \in Nat

VARIABLES
  IsReady,        \* IsReady[fd]
  HasData,        \* HasData[fd]: len(DataBuffer) > 0
  InterestList,   \* the registered descriptors
  ReadyList,      \* the descriptors of the events
  wakeCh,         \* whether the channel of capacity 1 holds a token
  ParkedGs,       \* ParkedGs[fd]: who is parked on fd
  woken,          \* the goroutines whose WakeCh is closed
  pc, on,         \* of each goroutine, and the descriptor it reads
  poll,           \* where the poller is
  events,         \* the events PollAndWakeup has yet to handle
  parked,         \* its local variable: whom it is about to wake
  packets, irq    \* packets arrived; interrupts still to be raised

pollVars == <<poll, events, parked>>
fdVars == <<IsReady, HasData>>
epollVars == <<InterestList, ReadyList, wakeCh>>
devVars == <<packets, irq>>
vars == <<fdVars, epollVars, ParkedGs, woken, pc, on, pollVars, devVars>>

TypeOK ==
  /\ IsReady \in [FDs -> BOOLEAN] /\ HasData \in [FDs -> BOOLEAN]
  /\ InterestList \subseteq FDs
  /\ ReadyList \in Seq(FDs)
  /\ wakeCh \in BOOLEAN
  /\ ParkedGs \in [FDs -> Gs \cup {NoG}]
  /\ woken \subseteq Gs
  /\ pc \in [Gs -> {"running", "len", "take", "clear", "park", "add", "waiting"}]
  /\ on \in [Gs -> FDs]
  /\ poll \in {"idle", "select", "token", "lock", "wake", "del", "close"}
  /\ events \in Seq(FDs)
  /\ parked \in Gs \cup {NoG}
  /\ packets \in 0..MaxPackets
  /\ irq \subseteq FDs

(* NewGoNetpoller, NewEpoll *)
Init ==
  /\ IsReady = [fd \in FDs |-> FALSE] /\ HasData = [fd \in FDs |-> FALSE]
  /\ InterestList = {} /\ ReadyList = <<>> /\ wakeCh = FALSE
  /\ ParkedGs = [fd \in FDs |-> NoG]
  /\ woken = {}
  /\ pc = [g \in Gs |-> "running"]
  /\ on = [g \in Gs |-> CHOOSE fd \in FDs : TRUE]
  /\ poll = "idle" /\ events = <<>> /\ parked = NoG
  /\ packets = 0 /\ irq = {}

-----------------------------------------------------------------------------
(* epoll.go *)

(* EpollCtl with ADD and with DEL.  EEXIST and ENOENT change nothing. *)
EpollCtlAdd(fd) == InterestList' = InterestList \cup {fd}
EpollCtlDel(fd) == InterestList' = InterestList \ {fd}

(* NotifyDeviceInterrupt drops an interrupt nobody has registered for. *)
NotifyDeviceInterrupt(fd) ==
  /\ IF fd \in InterestList
     THEN /\ IsReady' = [IsReady EXCEPT ![fd] = TRUE]
          /\ ReadyList' = Append(ReadyList, fd)
          /\ wakeCh' = TRUE
     ELSE UNCHANGED <<IsReady, ReadyList, wakeCh>>
  /\ UNCHANGED InterestList

(* Mutation: the events beyond maxEvents are thrown away. *)
TakeEventsOnce ==
  LET count == IF Len(ReadyList) > MaxEvents THEN MaxEvents ELSE Len(ReadyList)
  IN  /\ events' = SubSeq(ReadyList, 1, count)
      /\ ReadyList' = <<>>

TakeEvents ==
  LET count == IF Len(ReadyList) > MaxEvents THEN MaxEvents ELSE Len(ReadyList)
  IN  /\ events' = SubSeq(ReadyList, 1, count)
      /\ ReadyList' = SubSeq(ReadyList, count + 1, Len(ReadyList))

(* EpollWait: the first look at the ready list, *)
EpollWait ==
  /\ poll = "idle"
  /\ IF ReadyList # <<>> THEN TakeEvents /\ poll' = "lock"
     ELSE poll' = "select" /\ UNCHANGED <<ReadyList, events>>
  /\ UNCHANGED <<InterestList, wakeCh, ParkedGs, woken, pc, parked>>

(* the select between the wake channel *)
Receive ==
  /\ poll = "select" /\ wakeCh
  /\ wakeCh' = FALSE /\ poll' = "token"
  /\ UNCHANGED <<InterestList, ReadyList, events, ParkedGs, woken, pc, parked>>

(* and the timer, *)
Timeout ==
  /\ poll = "select"
  /\ events' = <<>> /\ poll' = "lock"
  /\ UNCHANGED <<epollVars, ParkedGs, woken, pc, parked>>

(* and the second look. *)
Collect ==
  /\ poll = "token"
  /\ TakeEvents /\ poll' = "lock"
  /\ UNCHANGED <<InterestList, wakeCh, ParkedGs, woken, pc, parked>>

-----------------------------------------------------------------------------
(* netpoller.go *)

NetpollerLocked == poll \in {"wake", "del", "close"}

Goto(g, from, to) == pc[g] = from /\ pc' = [pc EXCEPT ![g] = to]

(* ReadNonBlocking: the test of IsReady *)
ReadNonBlocking(g, fd) ==
  /\ Goto(g, "running", IF IsReady[fd] THEN "len" ELSE "park")
  /\ on' = [on EXCEPT ![g] = fd]
  /\ UNCHANGED <<fdVars, epollVars, ParkedGs, woken>>

(* and of len(DataBuffer), *)
TestLen(g) ==
  /\ Goto(g, "len", IF HasData[on[g]] THEN "take" ELSE "park")
  /\ UNCHANGED <<fdVars, epollVars, ParkedGs, woken, on>>

TakeData(g) ==
  /\ Goto(g, "take", "clear")
  /\ HasData' = [HasData EXCEPT ![on[g]] = FALSE]
  /\ UNCHANGED <<IsReady, epollVars, ParkedGs, woken, on>>

ClearReady(g) ==
  /\ Goto(g, "clear", "running")
  /\ IsReady' = [IsReady EXCEPT ![on[g]] = FALSE]
  /\ UNCHANGED <<HasData, epollVars, ParkedGs, woken, on>>

(* or EAGAIN: park, with a fresh WakeCh, *)
Park(g) ==
  /\ ~NetpollerLocked
  /\ Goto(g, "park", "add")
  /\ ParkedGs' = [ParkedGs EXCEPT ![on[g]] = g]
  /\ woken' = woken \ {g}
  /\ UNCHANGED <<fdVars, epollVars, on>>

(* and then register the descriptor, whatever EpollCtl says. *)
Register(g) ==
  /\ Goto(g, "add", "waiting")
  /\ EpollCtlAdd(on[g])
  /\ UNCHANGED <<fdVars, ReadyList, wakeCh, ParkedGs, woken, on>>

(* The caller goes on once its WakeCh is closed. *)
Resume(g) ==
  /\ g \in woken
  /\ Goto(g, "waiting", "running")
  /\ UNCHANGED <<fdVars, epollVars, ParkedGs, woken, on>>

Goroutine(g) ==
  TestLen(g) \/ TakeData(g) \/ ClearReady(g) \/ Park(g) \/ Register(g) \/ Resume(g)

(* PollAndWakeup after EpollWait: take the mutex, and for every event *)
LockNetpoller ==
  /\ poll = "lock" /\ poll' = "wake"
  /\ UNCHANGED <<events, epollVars, ParkedGs, woken, pc, parked>>

(* Mutation: the goroutine stays in ParkedGs. *)
DeleteNothing == UNCHANGED ParkedGs

DeleteParked == ParkedGs' = [ParkedGs EXCEPT ![Head(events)] = NoG]

(* take the goroutine out of ParkedGs, if there is one, *)
WakeParked ==
  /\ poll = "wake" /\ events # <<>>
  /\ IF ParkedGs[Head(events)] # NoG
     THEN /\ parked' = ParkedGs[Head(events)]
          /\ DeleteParked
          /\ poll' = "del" /\ UNCHANGED events
     ELSE UNCHANGED <<parked, ParkedGs, poll>> /\ events' = Tail(events)
  /\ UNCHANGED <<epollVars, woken, pc>>

(* and its descriptor out of the interest list, *)
Deregister ==
  /\ poll = "del" /\ poll' = "close"
  /\ EpollCtlDel(Head(events))
  /\ UNCHANGED <<ReadyList, wakeCh, ParkedGs, woken, pc, events, parked>>

(* and close its WakeCh. *)
CloseWakeCh ==
  /\ poll = "close" /\ poll' = "wake"
  /\ woken' = woken \cup {parked} /\ parked' = NoG
  /\ events' = Tail(events)
  /\ UNCHANGED <<epollVars, ParkedGs, pc>>

UnlockNetpoller ==
  /\ poll = "wake" /\ events = <<>> /\ poll' = "idle"
  /\ UNCHANGED <<events, epollVars, ParkedGs, woken, pc, parked>>

Poller ==
  EpollWait \/ Receive \/ Timeout \/ Collect \/ LockNetpoller \/ WakeParked \/ Deregister
    \/ CloseWakeCh \/ UnlockNetpoller

PollerStep == Poller /\ UNCHANGED <<fdVars, on, devVars>>

-----------------------------------------------------------------------------
(* A packet arrives in the buffer, and then its interrupt is raised. *)
Arrive(fd) ==
  /\ packets < MaxPackets /\ fd \notin irq
  /\ packets' = packets + 1 /\ irq' = irq \cup {fd}
  /\ HasData' = [HasData EXCEPT ![fd] = TRUE]
  /\ UNCHANGED <<IsReady, epollVars>>

Interrupt(fd) ==
  /\ fd \in irq /\ irq' = irq \ {fd}
  /\ NotifyDeviceInterrupt(fd)
  /\ UNCHANGED <<HasData, packets>>

Next ==
  \/ \E g \in Gs : /\ (\E fd \in FDs : ReadNonBlocking(g, fd)) \/ Goroutine(g)
                   /\ UNCHANGED <<pollVars, devVars>>
  \/ PollerStep
  \/ \E fd \in FDs : /\ Arrive(fd) \/ Interrupt(fd)
                     /\ UNCHANGED <<ParkedGs, woken, pc, on, pollVars>>

Spec == Init /\ [][Next]_vars

(* The poller runs in a loop, goroutines that can run do run, and a device  *)
(* raises the interrupts of its packets.  Nobody has to begin a read.       *)
GoroutineFairness ==
  \A g \in Gs : WF_vars(Goroutine(g) /\ UNCHANGED <<pollVars, devVars>>)

DeviceFairness ==
  \A fd \in FDs : WF_vars(Interrupt(fd) /\ UNCHANGED <<ParkedGs, woken, pc, on, pollVars>>)

Fairness == WF_vars(PollerStep) /\ GoroutineFairness /\ DeviceFairness

FairSpec == Spec /\ Fairness

-----------------------------------------------------------------------------
(* Properties *)

(***************************************************************************)
(* A goroutine in ParkedGs can be found: its descriptor is registered, or  *)
(* the goroutine is about to register it, although parking and registering *)
(* are two steps under two mutexes and EpollCtl's errors are ignored.      *)
(* Nobody is in it twice, or after having been woken.  And the poller      *)
(* never sleeps with events on the ready list and no token in wakeCh.      *)
(***************************************************************************)
ParkedCanBeFound ==
  /\ \A fd \in FDs : ParkedGs[fd] # NoG =>
       LET g == ParkedGs[fd]
       IN  /\ g \notin woken \cup {parked} /\ on[g] = fd
           /\ pc[g] = "add" \/ (pc[g] = "waiting" /\ fd \in InterestList)
  /\ poll = "select" /\ ReadyList # <<>> => wakeCh

(* A goroutine that has parked, and that nobody is going to wake. *)
Forgotten(g) ==
  /\ pc[g] \in {"add", "waiting"}
  /\ g \notin woken /\ parked # g
  /\ \A fd \in FDs : ParkedGs[fd] # g

(***************************************************************************)
(* An event on the ready list wakes the goroutine parked on its            *)
(* descriptor, unless another one parks on the same descriptor before.     *)
(* ReadNonBlocking then overwrites the entry of the first, which is        *)
(* forgotten, and stays forgotten, although netpoller.go says that "When   *)
(* epoll returns ready event, parked Goroutine is moved to _Grunnable".    *)
(***************************************************************************)
EventIsDelivered ==
  /\ \A fd \in FDs, g \in Gs :
       ParkedGs[fd] = g /\ (\E i \in 1..Len(ReadyList) : ReadyList[i] = fd)
         ~> g \in woken \/ Forgotten(g)
  /\ [][\A g \in Gs : /\ Forgotten(g) => Forgotten(g)'
                      /\ ~Forgotten(g) /\ Forgotten(g)' =>
                           \E fd \in FDs : ParkedGs[fd] = g /\ ParkedGs'[fd] \in Gs \ {g}]_vars

(***************************************************************************)
(* netpoller.go: "When network data arrives, sysmon / epoll wakes the G".  *)
(* An interrupt that comes between ReadNonBlocking's test and its          *)
(* registration is dropped, so this fails: see the README.                 *)
(***************************************************************************)
DataWakesReader ==
  \A g \in Gs : pc[g] = "waiting" /\ HasData[on[g]] ~> pc[g] # "waiting" \/ ~HasData[on[g]]

=============================================================================
