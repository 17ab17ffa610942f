------------------------ MODULE DiningPhilosophers ------------------------
(***************************************************************************)
(* pkg/concurrency/dining_philosophers.go: n philosophers around a table,  *)
(* each a goroutine that locks two of n forks (sync.Mutex), eats and       *)
(* unlocks them.  RunDeadlockScenario has each take the left fork first,   *)
(* once; RunSafeResourceHierarchy has each take the lower-numbered fork    *)
(* first, for several meals.  Sleeps and the start barrier restrict        *)
(* nothing and are left out.                                               *)
(***************************************************************************)
EXTENDS Integers

CONSTANTS
  MaxN,        \* bound on the number of philosophers
  MealsGoal,   \* the argument of RunSafeResourceHierarchy
  NoOne        \* nobody holds the fork

ConstantsOK == MaxN \in Nat /\ MealsGoal \in Nat \ {0} /\ NoOne \notin Nat

VARIABLES
  n,          \* NumPhilosophers
  scenario,   \* the method that was called: "none", "deadlock" or "hierarchy"
  fork,       \* fork[f]: who holds it
  at,         \* at[p]: the statement p is at
  meals,      \* MealsEaten
  report      \* what RunDeadlockScenario returned: "none", "finished", "deadlock"

philVars == <<n, scenario, fork, at, meals, report>>

Seats == 0..n-1
Places == {"first", "second", "eat", "putSecond", "putFirst", "done"}

TypeOK ==
  /\ n \in 1..MaxN
  /\ scenario \in {"none", "deadlock", "hierarchy"}
  /\ fork \in [Seats -> Seats \cup {NoOne}]
  /\ at \in [Seats -> Places]
  /\ meals \in [Seats -> Nat]
  /\ report \in {"none", "finished", "deadlock"}

Goal == IF scenario = "hierarchy" THEN MealsGoal ELSE 1

(* NewDiningPhilosophers *)
Init ==
  /\ n \in 1..MaxN
  /\ scenario = "none"
  /\ fork = [f \in Seats |-> NoOne]
  /\ at = [p \in Seats |-> "done"]
  /\ meals = [p \in Seats |-> 0]
  /\ report = "none"

-----------------------------------------------------------------------------
(* One of the two methods is called and starts a goroutine per philosopher. *)
Run(method) ==
  /\ scenario = "none" /\ scenario' = method
  /\ at' = [p \in Seats |-> "first"]
  /\ UNCHANGED <<n, fork, meals, report>>

Left(p) == p
Right(p) == (p + 1) % n

(* Mutation: the hierarchy takes the left fork first, like the other. *)
LeftFirst(p) == Left(p)

(* Always acquire the lower-numbered mutex first. *)
FirstFork(p) ==
  IF scenario = "hierarchy" /\ Left(p) > Right(p) THEN Right(p) ELSE Left(p)

SecondFork(p) == IF FirstFork(p) = Left(p) THEN Right(p) ELSE Left(p)

Go(p, from, to) == at[p] = from /\ at' = [at EXCEPT ![p] = to]

(* Lock blocks until the fork is free: it is not reentrant. *)
LockFork(p, f) == fork[f] = NoOne /\ fork' = [fork EXCEPT ![f] = p]
UnlockFork(f) == fork' = [fork EXCEPT ![f] = NoOne]

TakeFirst(p) ==
  Go(p, "first", "second") /\ LockFork(p, FirstFork(p)) /\ UNCHANGED meals

TakeSecond(p) ==
  Go(p, "second", "eat") /\ LockFork(p, SecondFork(p)) /\ UNCHANGED meals

(* Eat, under dp.mu. *)
Eat(p) ==
  /\ Go(p, "eat", "putSecond")
  /\ meals' = [meals EXCEPT ![p] = @ + 1]
  /\ UNCHANGED fork

PutSecond(p) ==
  Go(p, "putSecond", "putFirst") /\ UnlockFork(SecondFork(p)) /\ UNCHANGED meals

(* Mutation: the last fork is kept at the end of the last meal. *)
PutFirstExceptLast(p) ==
  /\ Go(p, "putFirst", IF meals[p] < Goal THEN "first" ELSE "done")
  /\ IF meals[p] < Goal THEN UnlockFork(FirstFork(p)) ELSE UNCHANGED fork
  /\ UNCHANGED meals

PutFirst(p) ==
  /\ Go(p, "putFirst", IF meals[p] < Goal THEN "first" ELSE "done")
  /\ UnlockFork(FirstFork(p))
  /\ UNCHANGED meals

Dine(p) ==
  /\ TakeFirst(p) \/ TakeSecond(p) \/ Eat(p) \/ PutSecond(p) \/ PutFirst(p)
  /\ UNCHANGED <<n, scenario, report>>

(* Mutation: the wait group is not waited for. *)
AnyoneDone == \E p \in Seats : at[p] = "done"

AllDone == \A p \in Seats : at[p] = "done"

(* The select: the wait group is done, or the timer fires, whenever it may. *)
Report ==
  /\ scenario = "deadlock" /\ report = "none"
  /\ \/ AllDone /\ report' = "finished"
     \/ report' = "deadlock"
  /\ UNCHANGED <<n, scenario, fork, at, meals>>

Next ==
  \/ Run("deadlock") \/ Run("hierarchy")
  \/ Report
  \/ \E p \in Seats : Dine(p)

(* Goroutines that can run do run.  Meals are finitely many, so a fork that  *)
(* is wanted stays free in the end: more than weak fairness is not needed.   *)
Progress(p) == p < n /\ Dine(p)
Fairness == \A p \in 0..MaxN-1 : WF_philVars(Progress(p))

Spec == Init /\ [][Next]_philVars /\ Fairness

-----------------------------------------------------------------------------
(* Properties *)

Stuck == ~AllDone /\ \A p \in Seats :
  \/ at[p] = "done"
  \/ at[p] = "first" /\ fork[FirstFork(p)] # NoOne
  \/ at[p] = "second" /\ fork[SecondFork(p)] # NoOne

(***************************************************************************)
(* The only way to get stuck is the circular wait of RunDeadlockScenario,  *)
(* in which everybody holds the left fork (or a philosopher alone at the   *)
(* table, whose two forks are one mutex).  RunSafeResourceHierarchy with   *)
(* two or more philosophers is never stuck; and RunDeadlockScenario        *)
(* reports the absence of a deadlock only when everybody has eaten.  What  *)
(* a report of a deadlock is worth is the subject of DeadlockConfirmed.    *)
(***************************************************************************)
OnlyCircularWait ==
  /\ Stuck => /\ n = 1 \/ scenario = "deadlock"
              /\ \A p \in Seats : at[p] = "second"
  /\ report = "finished" => \A p \in Seats : meals[p] = 1

(***************************************************************************)
(* dining_philosophers.go, where RunDeadlockScenario returns true:         *)
(* "DEADLOCK CONFIRMED! All goroutines stuck waiting in circular cycle".   *)
(* So it cannot be that everybody has eaten and left.  The timer looks at  *)
(* no fork and may fire at any moment, so this fails: see the README.      *)
(***************************************************************************)
DeadlockConfirmed == report = "deadlock" => ~AllDone

(* RunSafeResourceHierarchy serves everybody the meals asked for. *)
EverybodyEats ==
  scenario = "hierarchy" /\ n > 1 ~> \A p \in Seats : meals[p] = MealsGoal /\ at[p] = "done"

=============================================================================
