------------------------------- MODULE MCCPU -------------------------------
(***************************************************************************)
(* The schedulers and the GMP runtime of pkg/cpu for TLC.  They share no    *)
(* state, so a behaviour exercises one of them.  The long bursts, which     *)
(* reach MLFQ's lowest level and outlast a boost, are given to MLFQ only.   *)
(***************************************************************************)
EXTENDS Scheduler

CONSTANTS
    ShortBursts, LongBursts,                               \* of processes
    GOMAXPROCS, NumGs, WorkUnits, QueueLimit, PollPeriod   \* of the GMP runtime

ASSUME BurstsAreSplit == ShortBursts \cup LongBursts = Bursts

ASSUME RuntimeAssumption ==
    /\ {GOMAXPROCS, PollPeriod} \subseteq Nat \ {0}
    /\ {NumGs, QueueLimit} \subseteq Nat /\ WorkUnits \subseteq Int

VARIABLES
    unit,   \* "scheduler" or "gmp": the one that is exercised
    GCount, Status, RemainingWork, IsSyscall, SyscallTicks,
    MCount, CurG, BoundP, IsBlocked, LocalQueue, BoundM,
    GlobalRunQueue, CompletedGs, TickCount, turn

GMP == INSTANCE GMPRuntime

gmpVars == <<GCount, Status, RemainingWork, IsSyscall, SyscallTicks,
             MCount, CurG, BoundP, IsBlocked, LocalQueue, BoundM,
             GlobalRunQueue, CompletedGs, TickCount, turn>>

Workload == IF Policy = "MLFQ" THEN LongBursts ELSE ShortBursts

(* With the GMP runtime the policy plays no role. *)
CPUInit ==
    /\ unit \in {"scheduler", "gmp"}
    /\ Init /\ GMP!Init
    /\ unit = "gmp" => Policy = "FIFO"

(* A Tick of the scheduler, or an iteration of the runtime's Step. *)
Advance ==
    /\ \/ unit = "scheduler" /\ Tick /\ UNCHANGED gmpVars
       \/ unit = "gmp" /\ GMP!Step /\ UNCHANGED vars
    /\ UNCHANGED unit

AddWork ==
    /\ \/ /\ unit = "scheduler"
          /\ \E arrival \in 0..MaxArrival, burst \in Workload : AddProcess(arrival, burst)
          /\ UNCHANGED gmpVars
       \/ unit = "gmp" /\ GMP!Spawn /\ UNCHANGED vars
    /\ UNCHANGED unit

cpuVars == <<unit, vars, gmpVars>>

(* The drivers call Tick and Step in a loop. *)
CPUSpec == CPUInit /\ [][Advance \/ AddWork]_cpuVars /\ WF_cpuVars(Advance)

-----------------------------------------------------------------------------
(* The types of the variables of schedulers and GMP runtime. *)
CPUTypesOK == TypeOK /\ GMP!TypeOK

(* Nobody is lost or doubled: a process is in one queue or on the CPU or    *)
(* done, and a goroutine has one owner, through preemption, boost, hand-off *)
(* and stealing.                                                            *)
NobodyLostOrDoubled == OnePlace /\ GMP!OneOwner

(* The books are kept: a process's waiting, running and remaining times add *)
(* up, and no MLFQ process gets more CPU time at a level than its allotment *)
(* there.                                                                   *)
AccountsAddUp == [](TimesAddUp /\ AllotmentKept) /\ AllotmentCharged

(* Nothing idles next to work: the schedulers leave the CPU free, and       *)
(* findRunnableG gives up, only if nobody is ready.                         *)
NoIdlingNextToWork == WorkConserving /\ GMP!IdleMeansNoWork

(* Every process, and every goroutine, runs to its end. *)
EverybodyFinishes == EveryProcessFinishes /\ GMP!EveryGoroutineFinishes

=============================================================================
