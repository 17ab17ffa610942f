------------------------------- MODULE Lists -------------------------------
(***************************************************************************)
(* What the program takes from Go: slices (what is in one, cutting one     *)
(* element out, putting things in order), and sync.Cond.                   *)
(***************************************************************************)
EXTENDS Integers, Sequences, FiniteSets

Elements(list) == {list[i] : i \in 1..Len(list)}

(* Nothing is in the list twice. *)
Distinct(list) == \A i, j \in 1..Len(list) : list[i] = list[j] => i = j

(* append(s[:i], s[i+1:]...), with i counted from 1. *)
Removed(s, i) == SubSeq(s, 1, i - 1) \o SubSeq(s, i + 1, Len(s))

(* The elements of D in the order that the pairs of before give: the n-th   *)
(* one has n - 1 others before it.                                          *)
Ranked(D, before) ==
  [n \in 1..Cardinality(D) |->
     CHOOSE x \in D : Cardinality({y \in D : <<y, x>> \in before}) = n - 1]

(* A set of numbers from the least to the greatest. *)
InOrder(S) == Ranked(S, {r \in S \X S : r[1] < r[2]})

(* sort.SliceStable of the list q by the key of an element. *)
SortStable(q, key) ==
  LET places == 1..Len(q)
      before == {r \in places \X places :
                   \/ key[q[r[1]]] < key[q[r[2]]]
                   \/ key[q[r[1]]] = key[q[r[2]]] /\ r[1] < r[2]}
  IN  [n \in places |-> q[Ranked(places, before)[n]]]

-----------------------------------------------------------------------------
(***************************************************************************)
(* sync.Cond, as pipe.go and rwlock.go use it.  The threads asleep in Wait *)
(* form a list in the order of their calls.  Signal removes the first one  *)
(* and Broadcast all of them; a removed thread is woken and still has to   *)
(* take the mutex again, in competition with everybody else who wants it.  *)
(***************************************************************************)

(* The threads woken by n calls of Signal, and the list they leave. *)
Woken(list, n) == {list[i] : i \in {j \in 1..Len(list) : j <= n}}
Asleep(list, n) == IF n >= Len(list) THEN <<>> ELSE SubSeq(list, n + 1, Len(list))

(* The threads woken by Broadcast. *)
AllWoken(list) == {list[i] : i \in 1..Len(list)}

=============================================================================
