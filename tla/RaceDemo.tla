----------------------------- MODULE RaceDemo -----------------------------
(***************************************************************************)
(* pkg/concurrency/race_demo.go: goroutines increment a shared counter,    *)
(* first with a plain load and a plain store (a data race; both are single *)
(* machine accesses in this build, and their order within a goroutine is   *)
(* kept), then, once all are done, another one with an atomic add.         *)
(***************************************************************************)
EXTENDS Integers, FiniteSets

CONSTANTS
  Goroutines,
  Iters        \* iterations of each goroutine, in either phase

ConstantsOK == IsFiniteSet(Goroutines) /\ Goroutines # {} /\ Iters \in Nat

VARIABLES
  phase,     \* "unsafe", "safe" or "done"
  counter,   \* unsafeCounter
  safe,      \* safeCounter
  j,         \* j[g]: iterations g has done in this phase
  temp       \* temp[g]: g's local copy, or -1 outside load and store

raceVars == <<phase, counter, safe, j, temp>>

Expected == Cardinality(Goroutines) * Iters

TypeOK ==
  /\ phase \in {"unsafe", "safe", "done"}
  /\ counter \in 0..Expected /\ safe \in 0..Expected
  /\ j \in [Goroutines -> 0..Iters]
  /\ temp \in [Goroutines -> -1..Expected]

Init ==
  /\ phase = "unsafe"
  /\ counter = 0 /\ safe = 0
  /\ j = [g \in Goroutines |-> 0]
  /\ temp = [g \in Goroutines |-> -1]

-----------------------------------------------------------------------------
Load(g) ==
  /\ phase = "unsafe" /\ j[g] < Iters /\ temp[g] = -1
  /\ temp' = [temp EXCEPT ![g] = counter]
  /\ UNCHANGED <<phase, counter, safe, j>>

Store(g) ==
  /\ phase = "unsafe" /\ temp[g] # -1
  /\ counter' = temp[g] + 1
  /\ temp' = [temp EXCEPT ![g] = -1]
  /\ j' = [j EXCEPT ![g] = @ + 1]
  /\ UNCHANGED <<phase, safe>>

(* atomic.AddInt64 *)
Add(g) ==
  /\ phase = "safe" /\ j[g] < Iters
  /\ safe' = safe + 1
  /\ j' = [j EXCEPT ![g] = @ + 1]
  /\ UNCHANGED <<phase, counter, temp>>

(* Mutation: the wait group is given a count of 1. *)
WaitForOne ==
  /\ phase # "done"
  /\ \E g \in Goroutines : j[g] = Iters
  /\ phase' = IF phase = "unsafe" THEN "safe" ELSE "done"
  /\ j' = [g \in Goroutines |-> 0]
  /\ UNCHANGED <<counter, safe, temp>>

(* Wait on the wait group of a phase, and go on to the next. *)
Wait ==
  /\ phase # "done"
  /\ \A g \in Goroutines : j[g] = Iters
  /\ phase' = IF phase = "unsafe" THEN "safe" ELSE "done"
  /\ j' = [g \in Goroutines |-> 0]
  /\ UNCHANGED <<counter, safe, temp>>

Next == Wait \/ \E g \in Goroutines : Load(g) \/ Store(g) \/ Add(g)

Spec == Init /\ [][Next]_raceVars

-----------------------------------------------------------------------------
(* Properties *)

LostUpdates == Expected - counter

(* What the unlocked counter holds at least: with several goroutines and    *)
(* iterations a store can undo all but two increments, never more.          *)
Least ==
  CASE Cardinality(Goroutines) = 1 -> Iters
    [] Iters < 2 -> Iters
    [] OTHER -> 2

(***************************************************************************)
(* What RunDataRaceDemo returns, in every interleaving: the atomic counter *)
(* is exact, LostUpdates is never negative, and at least two increments of *)
(* the unlocked counter survive however the goroutines overwrite it.       *)
(***************************************************************************)
CountsWithinBounds ==
  /\ phase # "unsafe" => LostUpdates \in 0..(Expected - Least)
  /\ phase = "done" => safe = Expected

=============================================================================
