---------------------------- MODULE GMPRuntime ----------------------------
(***************************************************************************)
(* The model of Go's scheduler in pkg/cpu/gmp_runtime.go: goroutines (G),   *)
(* threads (M) and logical processors (P).                                  *)
(*                                                                         *)
(* Step runs under rt.mu and is a loop over the Ps followed by a loop over  *)
(* the Ms.  Here each iteration of the first loop is an action, and so is   *)
(* the second loop; turn says how far Step has come.  SpawnGoroutine waits  *)
(* for rt.mu, that is, for turn = 0.                                        *)
(*                                                                         *)
(* Gs and Ms are numbered as GID and MID number them.  RunNext and          *)
(* NetworkPoller are left out, since nothing ever fills them, and so are    *)
(* the lists of events.                                                     *)
(***************************************************************************)
EXTENDS Integers, Sequences, Lists

CONSTANTS
    GOMAXPROCS,
    NumGs,       \* bound on the number of goroutines
    WorkUnits,   \* amounts of work of goroutines
    QueueLimit,  \* 256 in the code
    PollPeriod,  \* 61 in the code: ticks between looks at the global queue
    None

VARIABLES
    GCount,
    Status, RemainingWork, IsSyscall, SyscallTicks,   \* of Gs
    MCount, CurG, BoundP, IsBlocked,                  \* of Ms
    LocalQueue, BoundM,                               \* of Ps
    GlobalRunQueue, CompletedGs,
    TickCount,   \* the Ps' TickCount between two Steps, modulo PollPeriod
    turn

gVars == <<GCount, Status, RemainingWork, IsSyscall, SyscallTicks>>
mVars == <<MCount, CurG, BoundP, IsBlocked>>
gmpVars == <<gVars, mVars, LocalQueue, BoundM, GlobalRunQueue, CompletedGs,
             TickCount, turn>>

Gs == 1..NumGs

Ps == 0..(GOMAXPROCS - 1)

(* A goroutine makes at most one system call, which takes one new thread. *)
Ms == 0..(GOMAXPROCS + NumGs - 1)

TypeOK ==
    /\ GCount \in 0..NumGs
    /\ Status \in [Gs -> {"Gidle", "Grunnable", "Grunning", "Gsyscall", "Gdead"}]
    /\ RemainingWork \in [Gs -> Int]
    /\ IsSyscall \in [Gs -> BOOLEAN]
    /\ SyscallTicks \in [Gs -> 0..3]
    /\ MCount - 1 \in Ms
    /\ CurG \in [Ms -> Gs \cup {None}]
    /\ BoundP \in [Ms -> Ps \cup {None}]
    /\ IsBlocked \in [Ms -> BOOLEAN]
    /\ LocalQueue \in [Ps -> Seq(Gs)]
    /\ BoundM \in [Ps -> Ms]
    /\ GlobalRunQueue \in Seq(Gs)
    /\ CompletedGs \in Seq(Gs)
    /\ TickCount \in 0..(PollPeriod - 1)
    /\ turn \in 0..GOMAXPROCS

Init ==
    /\ GCount = 0
    /\ Status = [g \in Gs |-> "Gidle"]
    /\ RemainingWork = [g \in Gs |-> 0]
    /\ IsSyscall = [g \in Gs |-> FALSE]
    /\ SyscallTicks = [g \in Gs |-> 0]
    /\ MCount = GOMAXPROCS
    /\ CurG = [m \in Ms |-> None]
    /\ BoundP = [m \in Ms |-> IF m \in Ps THEN m ELSE None]
    /\ IsBlocked = [m \in Ms |-> FALSE]
    /\ LocalQueue = [p \in Ps |-> <<>>]
    /\ BoundM = [p \in Ps |-> p]
    /\ GlobalRunQueue = <<>>
    /\ CompletedGs = <<>>
    /\ TickCount = 0
    /\ turn = 0

-----------------------------------------------------------------------------
(* The new goroutine goes to the Ps in turn, or to the global queue if the  *)
(* local one is full.                                                       *)
SpawnGoroutine(workUnits, isSyscall) ==
    LET g == GCount + 1
        p == g % GOMAXPROCS
        room == Len(LocalQueue[p]) < QueueLimit
    IN  /\ turn = 0
        /\ GCount < NumGs
        /\ GCount' = g
        /\ Status' = [Status EXCEPT ![g] = "Grunnable"]
        /\ RemainingWork' = [RemainingWork EXCEPT ![g] = workUnits]
        /\ IsSyscall' = [IsSyscall EXCEPT ![g] = isSyscall]
        /\ LocalQueue' = IF room THEN [LocalQueue EXCEPT ![p] = Append(@, g)]
                         ELSE LocalQueue
        /\ GlobalRunQueue' = IF room THEN GlobalRunQueue ELSE Append(GlobalRunQueue, g)
        /\ UNCHANGED <<SyscallTicks, mVars, BoundM, CompletedGs, TickCount, turn>>

(* The goroutine of P's thread is about to make its system call. *)
EntersSyscall(p) ==
    LET g == CurG[BoundM[p]]
    IN  g # None /\ IsSyscall[g] /\ Status[g] = "Grunning" /\ SyscallTicks[g] = 0

(* Mutation: the thread that blocks is not detached from P. *)
HandoffStillBound(p) ==
    LET m == BoundM[p] IN
    /\ EntersSyscall(p)
    /\ Status' = [Status EXCEPT ![CurG[m]] = "Gsyscall"]
    /\ IsBlocked' = [IsBlocked EXCEPT ![m] = TRUE]
    /\ MCount' = MCount + 1
    /\ BoundM' = [BoundM EXCEPT ![p] = MCount]
    /\ BoundP' = [BoundP EXCEPT ![MCount] = p]
    /\ UNCHANGED <<GCount, RemainingWork, IsSyscall, SyscallTicks, CurG, LocalQueue,
                   GlobalRunQueue, CompletedGs>>

(* The thread blocks in the call and P goes to a new thread, which does not *)
(* look for work before the next Step.                                      *)
Handoff(p) ==
    LET m == BoundM[p] IN
    /\ EntersSyscall(p)
    /\ Status' = [Status EXCEPT ![CurG[m]] = "Gsyscall"]
    /\ IsBlocked' = [IsBlocked EXCEPT ![m] = TRUE]
    /\ MCount' = MCount + 1
    /\ BoundM' = [BoundM EXCEPT ![p] = MCount]
    /\ BoundP' = [BoundP EXCEPT ![m] = None, ![MCount] = p]
    /\ UNCHANGED <<GCount, RemainingWork, IsSyscall, SyscallTicks, CurG, LocalQueue,
                   GlobalRunQueue, CompletedGs>>

(* P's goroutine works for a tick and is not finished. *)
Work(p) ==
    LET g == CurG[BoundM[p]] IN
    /\ g # None /\ ~EntersSyscall(p)
    /\ RemainingWork[g] > 1
    /\ RemainingWork' = [RemainingWork EXCEPT ![g] = @ - 1]
    /\ UNCHANGED <<GCount, Status, IsSyscall, SyscallTicks, mVars, LocalQueue, BoundM,
                   GlobalRunQueue, CompletedGs>>

-----------------------------------------------------------------------------
(* What findRunnableG can return to P: a goroutine, with the local queues   *)
(* and the global queue as it leaves them.                                  *)
FromGlobal ==
    {[g |-> Head(GlobalRunQueue), local |-> LocalQueue, global |-> Tail(GlobalRunQueue)]}

FromLocal(p) ==
    {[g |-> Head(LocalQueue[p]), local |-> [LocalQueue EXCEPT ![p] = Tail(@)],
      global |-> GlobalRunQueue]}

(* The later half of the queue of any P that has one, since the search      *)
(* starts at random.  P's own queue is empty.                               *)
Stolen(p) ==
    {LET q    == LocalQueue[v]
         kept == Len(q) - ((Len(q) + 1) \div 2)
     IN  [g |-> q[kept + 1],
          local |-> [LocalQueue EXCEPT ![v] = SubSeq(q, 1, kept),
                                       ![p] = @ \o SubSeq(q, kept + 2, Len(q))],
          global |-> GlobalRunQueue]
     : v \in {v \in Ps \ {p} : LocalQueue[v] # <<>>}}

(* Mutation: the global queue is looked at in every PollPeriod-th tick only. *)
findRunnableGPolled(p) ==
    CASE TickCount + 1 = PollPeriod /\ GlobalRunQueue # <<>> -> FromGlobal
      [] LocalQueue[p] # <<>> -> FromLocal(p)
      [] OTHER -> Stolen(p)

findRunnableG(p) ==
    IF TickCount + 1 = PollPeriod /\ GlobalRunQueue # <<>> THEN FromGlobal
    ELSE IF LocalQueue[p] # <<>> THEN FromLocal(p)
    ELSE IF GlobalRunQueue # <<>> THEN FromGlobal
    ELSE Stolen(p)

(* P's thread has no goroutine, or one that finishes in this tick: it looks *)
(* for another.                                                             *)
Schedule(p) ==
    LET m == BoundM[p]
        g == CurG[m]
        ended == IF g = None THEN Status ELSE [Status EXCEPT ![g] = "Gdead"]
    IN  /\ g # None => ~EntersSyscall(p) /\ RemainingWork[g] <= 1
        /\ IF g = None
           THEN UNCHANGED <<RemainingWork, CompletedGs>>
           ELSE /\ RemainingWork' = [RemainingWork EXCEPT ![g] = @ - 1]
                /\ CompletedGs' = Append(CompletedGs, g)
        /\ \/ \E found \in findRunnableG(p) :
                /\ CurG' = [CurG EXCEPT ![m] = found.g]
                /\ Status' = [ended EXCEPT ![found.g] = "Grunning"]
                /\ LocalQueue' = found.local
                /\ GlobalRunQueue' = found.global
           \/ /\ findRunnableG(p) = {}
              /\ CurG' = [CurG EXCEPT ![m] = None]
              /\ Status' = ended
              /\ UNCHANGED <<LocalQueue, GlobalRunQueue>>
        /\ UNCHANGED <<GCount, IsSyscall, SyscallTicks, MCount, BoundP, IsBlocked, BoundM>>

(* One iteration of Step's loop over the Ps.  BoundM is never nil there,    *)
(* since Handoff provides a new thread at once: acquireM is not called.     *)
StepP ==
    /\ turn < GOMAXPROCS
    /\ Handoff(turn) \/ Work(turn) \/ Schedule(turn)
    /\ turn' = turn + 1
    /\ UNCHANGED TickCount

Blocked == {m \in Ms : IsBlocked[m] /\ CurG[m] # None}

(* The threads whose system call ends in this Step. *)
Returning == {m \in Blocked : SyscallTicks[CurG[m]] = 2}

(* Mutation: a goroutine back from its system call is not queued. *)
AwakenedNone ==
    <<>>

(* The goroutines that are put into the global queue, in the order of AllMs. *)
Awakened ==
    [i \in 1..Cardinality(Returning) |-> CurG[InOrder(Returning)[i]]]

(* Step's loop over the Ms. *)
StepSyscalls ==
    /\ turn = GOMAXPROCS
    /\ LET calls == {CurG[m] : m \in Blocked}
           back  == {CurG[m] : m \in Returning}
       IN  /\ SyscallTicks' = [g \in Gs |-> IF g \in calls THEN SyscallTicks[g] + 1
                                            ELSE SyscallTicks[g]]
           /\ Status' = [g \in Gs |-> IF g \in back THEN "Grunnable" ELSE Status[g]]
           /\ IsSyscall' = [g \in Gs |-> IsSyscall[g] /\ g \notin back]
    /\ IsBlocked' = [m \in Ms |-> IsBlocked[m] /\ m \notin Returning]
    /\ CurG' = [m \in Ms |-> IF m \in Returning THEN None ELSE CurG[m]]
    /\ GlobalRunQueue' = GlobalRunQueue \o Awakened
    /\ TickCount' = (TickCount + 1) % PollPeriod
    /\ turn' = 0
    /\ UNCHANGED <<GCount, RemainingWork, MCount, BoundP, LocalQueue, BoundM, CompletedGs>>

Step == StepP \/ StepSyscalls

Spawn ==
    \E workUnits \in WorkUnits, isSyscall \in BOOLEAN : SpawnGoroutine(workUnits, isSyscall)

Next == Step \/ Spawn

Spec == Init /\ [][Next]_gmpVars

-----------------------------------------------------------------------------
(* The queues: one of each P, and the global one. *)
Places == 0..GOMAXPROCS

Queue(p) == IF p \in Ps THEN LocalQueue[p] ELSE GlobalRunQueue

(* No goroutine is lost or run twice by handoffs, system calls and          *)
(* stealing: a runnable one is once in one queue, a running one is on one   *)
(* thread, which has a P, one in a system call on a blocked thread without  *)
(* a P, and a dead one is once among the completed; P and its thread point  *)
(* at each other.                                                           *)
OneOwner ==
    /\ \A p \in Places : Distinct(Queue(p))
    /\ Distinct(CompletedGs)
    /\ \A g \in Gs :
        LET on == {m \in Ms : CurG[m] = g}
        IN  /\ Status[g] = "Grunnable" <=> \E p \in Places : g \in Elements(Queue(p))
            /\ \A p, q \in Places :
                 g \in Elements(Queue(p)) \cap Elements(Queue(q)) => p = q
            /\ Status[g] \in {"Grunning", "Gsyscall"} <=> on # {}
            /\ \A m, n \in on : m = n
            /\ \A m \in on : IF Status[g] = "Grunning"
                             THEN ~IsBlocked[m] /\ BoundP[m] # None
                             ELSE IsBlocked[m] /\ BoundP[m] = None
            /\ Status[g] = "Gdead" <=> g \in Elements(CompletedGs)
    /\ \A p \in Ps : BoundP[BoundM[p]] = p
    /\ \A m \in Ms : BoundP[m] # None => BoundM[BoundP[m]] = m

(* findRunnableG gives up only if there is no work: a P that has been       *)
(* served in a Step and whose thread was not replaced is idle only if all   *)
(* the queues are empty.                                                    *)
IdleMeansNoWork ==
    [][\A p \in Ps :
        (turn = p /\ turn' = p + 1 /\ MCount' = MCount /\ CurG'[BoundM'[p]] = None)
            => GlobalRunQueue' = <<>> /\ \A v \in Ps : LocalQueue'[v] = <<>>]_gmpVars

(* Every goroutine that is spawned runs to its end, system call included:   *)
(* at any time, there is a later one at which all spawned so far are dead.  *)
EveryGoroutineFinishes ==
    []<>(\A g \in Gs : g <= GCount => Status[g] = "Gdead")
=============================================================================
