----------------------------- MODULE Scheduler -----------------------------
(***************************************************************************)
(* The six CPU schedulers of pkg/cpu: FIFO, RR, SJF, STCF, MLFQ, LOTTERY.   *)
(* They have the same interface (AddProcess, Tick) and the same life of a   *)
(* process, and differ in who runs in a tick.  Policy is fixed by Init.     *)
(*                                                                         *)
(* Processes are numbered in the order in which AddProcess appends them to  *)
(* allProcesses; the PCB is spread over functions of that number.           *)
(* queues[0] is readyQueue in the five schedulers that have a single queue. *)
(* totalTime is the currentTime of the next Tick: the drivers in cmd/main.go *)
(* and cpu_test.go tick 0, 1, 2, ... without gaps.  They add all processes  *)
(* before the first tick; here they may also be added between ticks.        *)
(*                                                                         *)
(* Every process holds the 10 tickets NewProcess gives it, so any ready     *)
(* process may win the lottery.  The Gantt chart and the number of context  *)
(* switches are left out, and so are ResponseTime and Turnaround, which are *)
(* differences of times that are kept.                                      *)
(***************************************************************************)
EXTENDS Integers, Sequences, Lists

CONSTANTS
    NumProcs,    \* bound on the number of processes added
    MaxArrival,  \* bound on arrival times
    MaxTime,     \* bound on the clock
    Bursts,      \* the burst times of processes
    Quantum,     \* time slice of RR and LOTTERY
    BoostPeriod, \* MLFQ: ticks between priority boosts
    None         \* no process

(* The constructors are called with a quantum of at least one tick, and      *)
(* NewProcess with a burst of at least one.                                  *)
ASSUME SchedulerAssumption ==
    /\ {NumProcs, MaxArrival, MaxTime, BoostPeriod} \subseteq Nat
    /\ Quantum \in Nat \ {0} /\ Bursts \subseteq Nat \ {0}
    /\ None \notin Nat

VARIABLES
    Policy,
    added,           \* Len(allProcesses)
    State, ArrivalTime, BurstTime, RemainingTime,
    StartTime, FinishTime, WaitingTime,
    CurrentQueue, AllotmentUsed,
    queues, running, currentSlice, completed,
    busyTime, totalTime, ticksSinceBoost

levels == <<CurrentQueue, AllotmentUsed, ticksSinceBoost>>

vars == <<Policy, added, State, ArrivalTime, BurstTime, RemainingTime,
          StartTime, FinishTime, WaitingTime, levels,
          queues, running, currentSlice, completed, busyTime, totalTime>>

Procs == 1..NumProcs

Levels == 0..2

LevelQuantum == [l \in Levels |-> <<2, 4, 8>>[l + 1]]

LevelAllotment == [l \in Levels |-> <<4, 8, 16>>[l + 1]]

Policies == {"FIFO", "RR", "SJF", "STCF", "MLFQ", "LOTTERY"}

TypeOK ==
    /\ Policy \in Policies
    /\ added \in 0..NumProcs
    /\ State \in [Procs -> {"NEW", "READY", "RUNNING", "TERMINATED"}]
    /\ ArrivalTime \in [Procs -> 0..MaxArrival]
    /\ BurstTime \in [Procs -> Bursts \cup {0}]
    /\ RemainingTime \in [Procs -> Nat]
    /\ StartTime \in [Procs -> -1..MaxTime]
    /\ FinishTime \in [Procs -> -1..MaxTime]
    /\ WaitingTime \in [Procs -> 0..MaxTime]
    /\ CurrentQueue \in [Procs -> Levels]
    /\ AllotmentUsed \in [Procs -> Nat]
    /\ queues \in [Levels -> Seq(Procs)]
    /\ running \in Procs \cup {None}
    /\ currentSlice \in Nat
    /\ completed \in Seq(Procs)
    /\ {busyTime, totalTime} \subseteq 0..MaxTime
    /\ ticksSinceBoost \in 0..BoostPeriod

Init ==
    /\ Policy \in Policies
    /\ added = 0
    /\ State = [p \in Procs |-> "NEW"]
    /\ ArrivalTime = [p \in Procs |-> 0]
    /\ BurstTime = [p \in Procs |-> 0]
    /\ RemainingTime = [p \in Procs |-> 0]
    /\ StartTime = [p \in Procs |-> -1]
    /\ FinishTime = [p \in Procs |-> -1]
    /\ WaitingTime = [p \in Procs |-> 0]
    /\ CurrentQueue = [p \in Procs |-> 0]
    /\ AllotmentUsed = [p \in Procs |-> 0]
    /\ queues = [l \in Levels |-> <<>>]
    /\ running = None
    /\ currentSlice = 0
    /\ completed = <<>>
    /\ busyTime = 0
    /\ totalTime = 0
    /\ ticksSinceBoost = 0

-----------------------------------------------------------------------------
(* NewProcess(arrival, burst) followed by AddProcess.  The caller adds a    *)
(* process before the tick of its arrival.                                  *)
AddProcess(arrival, burst) ==
    LET p == added + 1 IN
    /\ added < NumProcs
    /\ arrival >= totalTime
    /\ added' = p
    /\ ArrivalTime' = [ArrivalTime EXCEPT ![p] = arrival]
    /\ BurstTime' = [BurstTime EXCEPT ![p] = burst]
    /\ RemainingTime' = [RemainingTime EXCEPT ![p] = burst]
    /\ UNCHANGED <<Policy, State, StartTime, FinishTime, WaitingTime, levels,
                   queues, running, currentSlice, completed, busyTime, totalTime>>

(* The processes that this tick admits, and their list in the order of      *)
(* allProcesses.                                                            *)
Arrivals == {p \in 1..added : ArrivalTime[p] = totalTime /\ State[p] = "NEW"}

Arriving == InOrder(Arrivals)

Queued == UNION {Elements(queues[l]) : l \in Levels}

(* Mutation: waiting times are updated after the end of a time slice. *)
WaitingAfterPreemption ==
    Queued \cup Arrivals \cup {p \in Procs : p = running /\ currentSlice >= Quantum}

(* The processes whose WaitingTime this tick increments. *)
Waiting ==
    Queued \cup Arrivals

(* Mutation: the remaining time is tested before it is decremented. *)
FinishesLate(p) ==
    RemainingTime[p] = 0

(* This tick is the last one process p needs. *)
Finishes(p) ==
    RemainingTime[p] = 1

(* queues[0] once the arrivals have been appended. *)
Arrived == queues[0] \o Arriving

TopQueue(q) == [queues EXCEPT ![0] = q]

HasSlices == Policy \in {"RR", "LOTTERY", "MLFQ"}

(* The drivers stop ticking when every process they had is completed. *)
Ticking ==
    /\ Len(completed) < added \/ totalTime < MaxArrival
    /\ totalTime < MaxTime

(* What is left of a tick once it is settled that process p runs in it: qs  *)
(* are the queues then, slice is the part of the quantum p has used.  A     *)
(* process that was running and is not p has been preempted.                *)
Run(p, qs, slice) ==
    LET finished == Finishes(p) IN
    /\ Ticking
    /\ totalTime' = totalTime + 1
    /\ busyTime' = busyTime + 1
    /\ queues' = qs
    /\ running' = IF finished THEN None ELSE p
    /\ currentSlice' = IF finished \/ ~HasSlices THEN 0 ELSE slice + 1
    /\ RemainingTime' = [RemainingTime EXCEPT ![p] = @ - 1]
    /\ StartTime' = [StartTime EXCEPT ![p] = IF @ = -1 THEN totalTime ELSE @]
    /\ FinishTime' = [FinishTime EXCEPT ![p] = IF finished THEN totalTime + 1 ELSE @]
    /\ completed' = IF finished THEN Append(completed, p) ELSE completed
    /\ State' = [x \in Procs |->
                    IF x = p THEN IF finished THEN "TERMINATED" ELSE "RUNNING"
                    ELSE IF x = running \/ x \in Arrivals THEN "READY"
                    ELSE State[x]]
    /\ WaitingTime' = [x \in Procs |->
                    IF x \in Waiting THEN WaitingTime[x] + 1 ELSE WaitingTime[x]]
    /\ UNCHANGED <<Policy, added, ArrivalTime, BurstTime>>

(* A tick with nobody to run. *)
Idle ==
    /\ Ticking
    /\ totalTime' = totalTime + 1
    /\ UNCHANGED <<Policy, added, State, ArrivalTime, BurstTime, RemainingTime,
                   StartTime, FinishTime, WaitingTime, queues, running,
                   currentSlice, completed, busyTime>>

(* Mutation: the last process of the queue is not dispatched. *)
DispatchAllButLast(r, q) ==
    \/ r # None /\ Run(r, TopQueue(q), currentSlice)
    \/ r = None /\ Len(q) > 1 /\ Run(Head(q), TopQueue(Tail(q)), 0)
    \/ r = None /\ Len(q) <= 1 /\ Idle

(* Process r keeps the CPU; if it is None, the head of the queue q gets it. *)
DispatchHead(r, q) ==
    \/ r # None /\ Run(r, TopQueue(q), currentSlice)
    \/ r = None /\ q # <<>> /\ Run(Head(q), TopQueue(Tail(q)), 0)
    \/ r = None /\ q = <<>> /\ Idle

SliceUsedUp == running # None /\ currentSlice >= Quantum

-----------------------------------------------------------------------------
FIFOTick ==
    /\ Policy = "FIFO"
    /\ DispatchHead(running, Arrived)
    /\ UNCHANGED levels

(* Mutation: the preempted process is not put back. *)
RRTickDropping ==
    /\ Policy = "RR"
    /\ DispatchHead(IF SliceUsedUp THEN None ELSE running, Arrived)
    /\ UNCHANGED levels

(* Mutation: the preempted process goes to the front of the queue. *)
RRTickFront ==
    /\ Policy = "RR"
    /\ IF SliceUsedUp
       THEN DispatchHead(None, <<running>> \o Arrived)
       ELSE DispatchHead(running, Arrived)
    /\ UNCHANGED levels

RRTick ==
    /\ Policy = "RR"
    /\ IF SliceUsedUp
       THEN DispatchHead(None, Append(Arrived, running))
       ELSE DispatchHead(running, Arrived)
    /\ UNCHANGED levels

(* Non-preemptive: the queue is sorted when the CPU is free. *)
SJFTick ==
    /\ Policy = "SJF"
    /\ DispatchHead(running, IF running = None THEN SortStable(Arrived, BurstTime)
                             ELSE Arrived)
    /\ UNCHANGED levels

(* Mutation: arrivals are compared with the running process by burst time. *)
STCFTickByBurst ==
    /\ Policy = "STCF"
    /\ LET q == SortStable(Arrived, BurstTime) IN
       IF /\ running # None /\ q # <<>>
          /\ BurstTime[Head(q)] < BurstTime[running]
       THEN DispatchHead(None, Append(q, running))
       ELSE DispatchHead(running, q)
    /\ UNCHANGED levels

(* The queue is sorted in every tick; a running process with more time left *)
(* than the shortest of the queue goes to its end.                          *)
STCFTick ==
    /\ Policy = "STCF"
    /\ LET q == SortStable(Arrived, RemainingTime) IN
       IF /\ running # None /\ q # <<>>
          /\ RemainingTime[Head(q)] < RemainingTime[running]
       THEN DispatchHead(None, Append(q, running))
       ELSE DispatchHead(running, q)
    /\ UNCHANGED levels

(* Any process of the queue may hold the winning ticket. *)
LotteryTick ==
    /\ Policy = "LOTTERY"
    /\ LET q == IF SliceUsedUp THEN Append(Arrived, running) ELSE Arrived
           free == running = None \/ SliceUsedUp
       IN  \/ ~free /\ Run(running, TopQueue(q), currentSlice)
           \/ free /\ \E i \in DOMAIN q : Run(q[i], TopQueue(Removed(q, i)), 0)
           \/ free /\ q = <<>> /\ Idle
    /\ UNCHANGED levels

-----------------------------------------------------------------------------
(* Rule 5 applies in this tick. *)
Boosting == ticksSinceBoost + 1 >= BoostPeriod

(* The processes that a boost moves to the top queue. *)
Boosted == IF Boosting THEN Queued \cup ({running} \ {None}) ELSE {}

(* Mutation: a boost moves processes but leaves their accounts alone. *)
ResetOnArrival ==
    Arrivals

(* The processes whose AllotmentUsed is set to 0 before the CPU is assigned. *)
ResetAllotments ==
    Boosted \cup Arrivals

(* The queues after the boost and the arrivals. *)
BoostedQueues ==
    IF Boosting
    THEN [queues EXCEPT ![0] = @ \o queues[1] \o queues[2] \o Arriving,
                        ![1] = <<>>, ![2] = <<>>]
    ELSE TopQueue(Arrived)

(* The highest nonempty level of the queues qs. *)
TopLevel(qs) == CHOOSE l \in Levels : qs[l] # <<>> /\ \A m \in 0..(l - 1) : qs[m] = <<>>

(* The level and the account of process p after the boost and the arrivals. *)
Level(p) == IF p \in Boosted \cup Arrivals THEN 0 ELSE CurrentQueue[p]

Used(p) == IF p \in ResetAllotments THEN 0 ELSE AllotmentUsed[p]

(* Rule 4: the running process has used up its allotment, and goes down. *)
Spent == running # None /\ Used(running) >= LevelAllotment[Level(running)]

(* Rule 2: it also leaves the CPU at the end of its quantum. *)
Off == Spent \/ (running # None /\ currentSlice >= LevelQuantum[Level(running)])

LevelAfter(p) == IF p = running /\ Spent /\ Level(p) < 2 THEN Level(p) + 1 ELSE Level(p)

(* Mutation: the account starts anew at the end of every quantum, so that a *)
(* process is never demoted.                                                *)
UsedAfterQuantum(p) ==
    IF p = running /\ Off THEN 0 ELSE Used(p)

UsedAfter(p) ==
    IF p = running /\ Spent THEN 0 ELSE Used(p)

(* The queues once it has left. *)
ReadyQueues ==
    IF Off THEN [BoostedQueues EXCEPT ![LevelAfter(running)] = Append(@, running)]
    ELSE BoostedQueues

Serve(p, qs, slice) ==
    /\ Run(p, qs, slice)
    /\ AllotmentUsed' = [x \in Procs |-> IF x = p THEN UsedAfter(x) + 1 ELSE UsedAfter(x)]

(* The head of the highest nonempty queue gets the CPU. *)
ServeTop(qs) ==
    LET l == TopLevel(qs)
    IN  Serve(Head(qs[l]), [qs EXCEPT ![l] = Tail(@)], 0)

MLFQTick ==
    /\ Policy = "MLFQ"
    /\ ticksSinceBoost' = IF Boosting THEN 0 ELSE ticksSinceBoost + 1
    /\ CurrentQueue' = [p \in Procs |-> LevelAfter(p)]
    /\ LET qs == ReadyQueues IN
       \/ /\ running # None /\ ~Off
          /\ Serve(running, qs, currentSlice)
       \/ /\ running = None \/ Off
          /\ \E l \in Levels : qs[l] # <<>>
          /\ ServeTop(qs)
       \/ /\ running = None
          /\ \A l \in Levels : qs[l] = <<>>
          /\ Idle
          /\ UNCHANGED AllotmentUsed

Tick == FIFOTick \/ RRTick \/ SJFTick \/ STCFTick \/ LotteryTick \/ MLFQTick

Next ==
    \/ Tick
    \/ \E arrival \in 0..MaxArrival, burst \in Bursts : AddProcess(arrival, burst)

Spec == Init /\ [][Next]_vars

-----------------------------------------------------------------------------
(* Every process is in one place, and its State says which: a READY process *)
(* is once in one queue, under MLFQ the one of its level; the RUNNING one is *)
(* running; a TERMINATED one is once among the completed and has no time    *)
(* left; a NEW one is nowhere.  Ticks move processes between these places   *)
(* in several assignments.                                                  *)
OnePlace ==
    /\ \A l \in Levels : Distinct(queues[l])
    /\ Distinct(completed)
    /\ \A p \in Procs :
        /\ \A l \in Levels :
             p \in Elements(queues[l]) <=> State[p] = "READY" /\ CurrentQueue[p] = l
        /\ State[p] = "RUNNING" <=> running = p
        /\ State[p] = "TERMINATED" <=> p \in Elements(completed)
        /\ State[p] \in {"READY", "RUNNING"} => RemainingTime[p] > 0
        /\ State[p] = "TERMINATED" => RemainingTime[p] = 0

(* The ticks a completed process has spent READY: it ran in all others.     *)
ReadyTicks(p) == FinishTime[p] - ArrivalTime[p] - BurstTime[p]

(* WaitingTime is one more than the ticks that the process spent READY, for *)
(* every process under every policy.  process.go ("Total time spent in      *)
(* READY state") and scheduler.go ("Time in READY queue") say that the two  *)
(* are equal; but a Tick counts before it dispatches, so that the tick of   *)
(* the first dispatch is counted as well.  Every later dispatch is made up  *)
(* for by the tick of the preemption, which is not counted.                 *)
TimesAddUp ==
    \A p \in Procs : State[p] = "TERMINATED" => WaitingTime[p] = ReadyTicks(p) + 1

(* Round robin: a process starts within a quantum for each of the others.   *)
RoundRobinResponse ==
    Policy = "RR" => \A p \in Procs :
        StartTime[p] # -1 => StartTime[p] - ArrivalTime[p] <= (added - 1) * Quantum

(* MLFQ, Rule 4 ("Once a job uses up its time allotment at a given level,   *)
(* its priority is reduced"): AllotmentUsed is the CPU time that a process  *)
(* has had since it came to its level, over any number of quanta and        *)
(* preemptions, and never exceeds the allotment there.  Only a change of    *)
(* level or a boost starts the account anew, or its being used up at the    *)
(* lowest level, which nobody is demoted from.                              *)
AllotmentKept ==
    \A p \in Procs : AllotmentUsed[p] <= LevelAllotment[CurrentQueue[p]]

AllotmentCharged ==
    [][Policy = "MLFQ" =>
        \A p \in Procs :
            LET ran == RemainingTime[p] - RemainingTime'[p] IN
            State[p] \in {"READY", "RUNNING"} =>
                \/ AllotmentUsed'[p] = AllotmentUsed[p] + ran
                \/ /\ AllotmentUsed'[p] = ran
                   /\ \/ CurrentQueue'[p] # CurrentQueue[p]
                      \/ ticksSinceBoost' = 0
                      \/ CurrentQueue[p] = 2 /\ AllotmentUsed[p] = LevelAllotment[2]]_vars

(* STCF: whoever ran in a tick had the least time left of all the processes *)
(* that were ready or running in it.                                        *)
ShortestRuns ==
    [][Policy = "STCF" =>
        \A p, q \in Procs :
            (RemainingTime'[p] < RemainingTime[p] /\ State'[q] \in {"READY", "RUNNING"})
                => RemainingTime[p] <= RemainingTime[q]]_vars

(* The CPU is idle in a tick only if no process is ready after it.          *)
WorkConserving ==
    [][totalTime' # totalTime /\ busyTime' = busyTime
        => \A p \in Procs : State'[p] # "READY"]_vars

(* A process that is added before its arrival is admitted and finishes,     *)
(* whatever the policy and whoever else arrives: at any time, there is a    *)
(* later one at which all that have been added are done.                    *)
EveryProcessFinishes ==
    []<>(\A p \in Procs : p <= added => State[p] = "TERMINATED")

(* sched_mlfq.go, Rule 1: "If Priority(A) > Priority(B), A runs (B does     *)
(* not)."  While a process is running, no queue above its level holds one.  *)
HigherPriorityRuns ==
    (Policy = "MLFQ" /\ running # None) =>
        \A l \in 0..(CurrentQueue[running] - 1) : queues[l] = <<>>
=============================================================================
