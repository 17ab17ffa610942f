---------------------------- MODULE MCBlocking ----------------------------
(***************************************************************************)
(* The units of the program in which calls block, for TLC: the locks of    *)
(* pkg/concurrency, the pipe of pkg/ipc and the netpoller of pkg/io.  They *)
(* share no state, so a behaviour exercises one of them and leaves the     *)
(* others in their initial states.                                         *)
(***************************************************************************)
EXTENDS MCSync, MCIO

VARIABLE unit   \* what is exercised

blockingVars == <<unit, mutexVars, spinVars, semVars, rwVars, philVars, raceVars, pipeVars, netVars>>

Units == {"mutex", "spinlock", "semaphore", "rwlock", "philosophers", "race", "pipe", "netpoller"}

BlockingInit ==
  /\ unit \in Units
  /\ Init /\ Spin!Init /\ Sem!Init /\ RW!Init /\ Phil!Init /\ Race!Init /\ Pipe!Init /\ Net!Init
  /\ unit # "semaphore" => ~semAsLock
  /\ unit # "philosophers" => philN = 1

(* The units that may come to a stop: everybody may wait for a semaphore     *)
(* that nobody signals, a mutex can stop for good (see                       *)
(* Mutex_lost_wakeup.cfg), philosophers and counters finish.  The others     *)
(* can always go on.                                                         *)
MayStop == unit \in {"mutex", "semaphore", "philosophers", "race"} /\ UNCHANGED blockingVars

BlockingNext ==
  /\ \/ unit = "mutex" /\ Next
     \/ unit = "spinlock" /\ Spin!Next
     \/ unit = "semaphore" /\ Sem!Next
     \/ unit = "rwlock" /\ RW!Next
     \/ unit = "philosophers" /\ Phil!Next
     \/ unit = "race" /\ Race!Next
     \/ unit = "pipe" /\ Pipe!Next
     \/ unit = "netpoller" /\ Net!Next
     \/ MayStop
  /\ unit # "mutex" => UNCHANGED mutexVars
  /\ unit # "spinlock" => UNCHANGED spinVars
  /\ unit # "semaphore" => UNCHANGED semVars
  /\ unit # "rwlock" => UNCHANGED rwVars
  /\ unit # "philosophers" => UNCHANGED philVars
  /\ unit # "race" => UNCHANGED raceVars
  /\ unit # "pipe" => UNCHANGED pipeVars
  /\ unit # "netpoller" => UNCHANGED netVars
  /\ UNCHANGED unit

(* The fairness of the unit that is exercised; the others do not move. *)
BlockingSpec ==
  /\ BlockingInit /\ [][BlockingNext]_blockingVars
  /\ \A t \in Threads :
       /\ WF_mutexVars(unit = "mutex" /\ Progress(t))
       /\ WF_spinVars(unit = "spinlock" /\ Spin!Progress(t))
       /\ WF_semVars(unit = "semaphore" /\ Sem!Progress(t))
  /\ \A t \in Readers \cup Writers : WF_rwVars(unit = "rwlock" /\ RW!Progress(t))
  /\ \A p \in 0..MaxN-1 : WF_philVars(unit = "philosophers" /\ Phil!Progress(p))
  /\ \A u \in PipeReaders \cup PipeWriters : WF_pipeVars(unit = "pipe" /\ Pipe!Progress(u))
  /\ WF_netVars(unit = "netpoller" /\ Net!PollerStep)
  /\ Net!GoroutineFairness /\ Net!DeviceFairness

-----------------------------------------------------------------------------
(* Properties *)

(* The types of the variables, those of the unit that is exercised. *)
BlockingTypesOK ==
  /\ unit = "mutex" => TypeOK
  /\ unit = "spinlock" => Spin!TypeOK
  /\ unit = "semaphore" => Sem!TypeOK
  /\ unit = "rwlock" => RW!TypeOK
  /\ unit = "philosophers" => Phil!TypeOK
  /\ unit = "race" => Race!TypeOK
  /\ unit = "pipe" => Pipe!TypeOK
  /\ unit = "netpoller" => Net!TypeOK

(***************************************************************************)
(* Whoever waits is served.  Mutex: a queued thread gets the lock.         *)
(* Spinlock: one or another of the threads spinning gets it.  Semaphore    *)
(* used as a lock: a blocked Wait returns.  RWLock: RLock stands back, so  *)
(* that waiting writers get in.  RunSafeResourceHierarchy: everybody eats. *)
(***************************************************************************)
WaitersAreServed ==
  /\ QueuedIsServed
  /\ Spin!SpinnersGetThrough
  /\ Sem!BlockedIsServed
  /\ RW!ReadersDoNotStarveWriters
  /\ Phil!EverybodyEats

=============================================================================
