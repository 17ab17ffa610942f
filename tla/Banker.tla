------------------------------- MODULE Banker -------------------------------
(***************************************************************************)
(* pkg/concurrency/deadlock_banker.go: the banker's algorithm.  Resources  *)
(* are handed out in vectors; a request is granted if afterwards all       *)
(* processes can still finish one after the other.  There is no operation  *)
(* that gives resources back.  All code is sequential.                     *)
(***************************************************************************)
EXTENDS Integers, Functions

CONSTANTS
  NumProcesses,
  Resources,
  Total          \* Total[r]: units of r in the system

VARIABLES
  Available,    \* Available[r]
  Max,          \* Max[p][r]
  Allocation,   \* Allocation[p][r]
  Need,         \* Need[p][r]
  claimed       \* the processes whose claim has been set

bankVars == <<Available, Max, Allocation, Need, claimed>>

Procs == 0..NumProcesses-1
Zero == [r \in Resources |-> 0]

v \preceq w == \A r \in Resources : v[r] <= w[r]
v ++ w == [r \in Resources |-> v[r] + w[r]]
v -- w == [r \in Resources |-> v[r] - w[r]]

(* The vectors callers pass. *)
Vectors == {v \in [Resources -> UNION {0..Total[r] : r \in Resources}] : v \preceq Total}

TypeOK ==
  /\ Available \in [Resources -> Int]
  /\ {Max, Allocation, Need} \subseteq [Procs -> [Resources -> Int]]
  /\ claimed \subseteq Procs

(* NewBankersState *)
Init ==
  /\ Available = Total
  /\ Max = [p \in Procs |-> Zero]
  /\ Allocation = [p \in Procs |-> Zero]
  /\ Need = [p \in Procs |-> Zero]
  /\ claimed = {}

-----------------------------------------------------------------------------
(* Its callers set each claim once, before any request, to no more than    *)
(* there is and with no more than is left already allocated.               *)
SetProcessClaim(p, maxClaim, currentAlloc) ==
  /\ claimed = 0..p-1
  /\ currentAlloc \preceq maxClaim /\ currentAlloc \preceq Available
  /\ Max' = [Max EXCEPT ![p] = maxClaim]
  /\ Allocation' = [Allocation EXCEPT ![p] = currentAlloc]
  /\ Need' = [Need EXCEPT ![p] = maxClaim -- currentAlloc]
  /\ Available' = Available -- currentAlloc
  /\ claimed' = claimed \cup {p}

-----------------------------------------------------------------------------
(* CheckSafeState: the inner loop picks the first process that is not yet  *)
(* finished and whose need the work vector covers; the outer one repeats   *)
(* that until all are finished or none is found.                           *)
PickOne(s, alloc, need) ==
  LET fits == {p \in Procs \ s.finish : need[p] \preceq s.work}
      i == CHOOSE p \in fits : \A q \in fits : p <= q
  IN  IF fits = {} THEN s
      ELSE [work |-> s.work ++ alloc[i], finish |-> s.finish \cup {i}]

(* Mutation: one pass over the processes, without a restart. *)
OnePass(avail, alloc, need) ==
  LET search[k \in 0..NumProcesses] ==
        IF k = 0 THEN [work |-> avail, finish |-> {}]
        ELSE IF need[k - 1] \preceq search[k - 1].work
             THEN [work |-> search[k - 1].work ++ alloc[k - 1],
                   finish |-> search[k - 1].finish \cup {k - 1}]
             ELSE search[k - 1]
  IN  search[NumProcesses].finish = Procs

CheckSafeState(avail, alloc, need) ==
  LET search[k \in 0..NumProcesses] ==
        IF k = 0 THEN [work |-> avail, finish |-> {}]
        ELSE PickOne(search[k - 1], alloc, need)
  IN  search[NumProcesses].finish = Procs

-----------------------------------------------------------------------------
(* RequestResources when the request is more than Need or Available allow, *)
(* which changes nothing.                                                  *)
Exceeds(p, request) == ~(request \preceq Need[p]) \/ ~(request \preceq Available)

(* Mutation: the rollback forgets Need. *)
RollbackButNeed(p, request) ==
  /\ Available' = (Available -- request) ++ request
  /\ Allocation' = [Allocation EXCEPT ![p] = (@ ++ request) -- request]
  /\ Need' = [Need EXCEPT ![p] = @ -- request]

(* Pretend to allocate, and take it back in all three tables. *)
Rollback(p, request) ==
  /\ Available' = (Available -- request) ++ request
  /\ Allocation' = [Allocation EXCEPT ![p] = (@ ++ request) -- request]
  /\ Need' = [Need EXCEPT ![p] = (@ -- request) ++ request]

Grant(p, request) ==
  /\ Available' = Available -- request
  /\ Allocation' = [Allocation EXCEPT ![p] = @ ++ request]
  /\ Need' = [Need EXCEPT ![p] = @ -- request]

Unsafe(p, request) ==
  ~CheckSafeState(Available -- request,
                  [Allocation EXCEPT ![p] = @ ++ request],
                  [Need EXCEPT ![p] = @ -- request])

RequestResources(p, request) ==
  /\ claimed = Procs
  /\ \/ Exceeds(p, request) /\ UNCHANGED <<Available, Allocation, Need>>
     \/ ~Exceeds(p, request) /\ Unsafe(p, request) /\ Rollback(p, request)
     \/ ~Exceeds(p, request) /\ ~Unsafe(p, request) /\ Grant(p, request)
  /\ UNCHANGED <<Max, claimed>>

Next == \E p \in Procs, v \in Vectors :
  \/ RequestResources(p, v)
  \/ \E w \in Vectors : SetProcessClaim(p, v, w)

Spec == Init /\ [][Next]_bankVars

-----------------------------------------------------------------------------
(* Properties *)

AllocatedOf(r) == FoldFunction(LAMBDA v, sum : v[r] + sum, 0, Allocation)

(* Nothing is lost or handed out twice, and the three tables agree.         *)
TablesAgree ==
  /\ \A r \in Resources : Available[r] >= 0 /\ Available[r] + AllocatedOf(r) = Total[r]
  /\ \A p \in Procs : Need[p] = Max[p] -- Allocation[p] /\ Zero \preceq Need[p]

(* Some order lets every process in turn obtain its need and finish. *)
CanAllFinish ==
  \E order \in Bijection(1..NumProcesses, Procs) :
    \A k \in 1..NumProcesses : \A r \in Resources :
      Need[order[k]][r] <=
        Available[r] + FoldFunctionOnSet(LAMBDA v, sum : v[r] + sum, 0,
                                         Allocation, {order[i] : i \in 1..k-1})

(***************************************************************************)
(* Every request leaves the tables in agreement, whether it is granted,    *)
(* refused or tried and rolled back.  The greedy search of CheckSafeState  *)
(* finds a safe order exactly if there is one.  A safe state stays safe,   *)
(* and resources change hands only into a safe state.                      *)
(***************************************************************************)
BankerIsSafe ==
  /\ [](/\ TablesAgree
        /\ claimed = Procs => (CheckSafeState(Available, Allocation, Need) <=> CanAllFinish))
  /\ [][claimed = Procs /\ (CanAllFinish \/ Allocation' # Allocation) => CanAllFinish']_bankVars

=============================================================================
