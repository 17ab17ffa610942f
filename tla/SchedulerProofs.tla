-------------------------- MODULE SchedulerProofs --------------------------
(***************************************************************************)
(* Module Scheduler for any values of the constants: what each of the six  *)
(* schedulers' Tick and AddProcess keep.                                   *)
(***************************************************************************)
EXTENDS Scheduler, BasicLemmas

-----------------------------------------------------------------------------
(* A strict total order on D, as a set of pairs. *)
TotalOrder(D, before) ==
  /\ \A x \in D : <<x, x>> \notin before
  /\ \A x, y \in D : x # y => <<x, y>> \in before \/ <<y, x>> \in before
  /\ \A x, y, z \in D : <<x, y>> \in before /\ <<y, z>> \in before => <<x, z>> \in before

(***************************************************************************)
(* Ranked lists every element of D once, in the given order: an element    *)
(* that comes later has more elements before it, so that no two have the   *)
(* same number, and there are as many numbers as elements.                 *)
(***************************************************************************)
LEMMA RankedLists ==
  ASSUME LibraryFacts, NEW D, IsFiniteSet(D), NEW before, TotalOrder(D, before)
  PROVE  /\ Ranked(D, before) \in [1..Cardinality(D) -> D]
         /\ \A x \in D : \E k \in 1..Cardinality(D) : Ranked(D, before)[k] = x
         /\ \A j, k \in 1..Cardinality(D) :
              j < k => <<Ranked(D, before)[j], Ranked(D, before)[k]>> \in before
         /\ \A j, k \in 1..Cardinality(D) :
              Ranked(D, before)[j] = Ranked(D, before)[k] => j = k
<1> DEFINE Lower(x) == {y \in D : <<y, x>> \in before}
           n == Cardinality(D)
           place == [x \in D |-> Cardinality(Lower(x)) + 1]
<1>1. n \in Nat
  BY CountType, Zenon
<1>2. ASSUME NEW x \in D PROVE IsFiniteSet(Lower(x)) /\ Cardinality(Lower(x)) \in 0..(n - 1)
  <2>1. IsFiniteSet(D \ {x}) /\ Cardinality(D \ {x}) = n - 1
    BY CountRemove, Zenon
  <2>2. Lower(x) \in SUBSET (D \ {x})
    BY Zenon DEF TotalOrder
  <2>3. IsFiniteSet(Lower(x)) /\ Cardinality(Lower(x)) <= n - 1
    <3> HIDE DEF Lower
    <3> QED
      BY <2>1, <2>2, CountSubset
  <2> QED
    BY <1>1, <2>3, CountType
<1>3. ASSUME NEW x \in D, NEW y \in D, <<x, y>> \in before
      PROVE  Cardinality(Lower(x)) < Cardinality(Lower(y))
  <2>1. x \notin Lower(x) /\ Lower(x) \cup {x} \in SUBSET Lower(y)
    BY <1>3, Zenon DEF TotalOrder
  <2> HIDE DEF Lower
  <2>2. IsFiniteSet(Lower(x) \cup {x}) /\ Cardinality(Lower(x) \cup {x}) = Cardinality(Lower(x)) + 1
    BY <1>2, <2>1, CountAdd, Zenon
  <2>3. Cardinality(Lower(x) \cup {x}) <= Cardinality(Lower(y))
    BY <1>2, <2>1, CountSubset, Zenon
  <2> QED
    BY <1>2, <2>2, <2>3
<1> HIDE DEF Lower
<1>4. place \in [D -> 1..n]
  BY <1>1, <1>2
<1>5. \A x, y \in D : place[x] = place[y] => x = y
  <2> SUFFICES ASSUME NEW x \in D, NEW y \in D, x # y PROVE place[x] # place[y]
    BY Zenon
  <2>1. <<x, y>> \in before \/ <<y, x>> \in before
    BY Zenon DEF TotalOrder
  <2>2. Cardinality(Lower(x)) # Cardinality(Lower(y))
    BY <1>2, <1>3, <2>1
  <2> QED
    BY <1>2, <2>2
<1>6. \A k \in 1..n : \E x \in D : place[x] = k
  <2> DEFINE image == {place[x] : x \in D}
  <2>1. place \in [D -> image] /\ \A k \in image : \E x \in D : place[x] = k
    BY Zenon
  <2>2. image \in SUBSET (1..n)
    BY <1>4, Zenon
  <2> HIDE DEF place, image
  <2>3. IsFiniteSet(image) /\ Cardinality(image) = n
    BY <1>5, <2>1, CountBijection, Zenon
  <2>4. IsFiniteSet(1..n) /\ Cardinality(1..n) = n
    BY <1>1, CountInterval
  <2>5. image = 1..n
    BY <2>2, <2>3, <2>4, CountSubset, Zenon
  <2> QED
    BY <2>1, <2>5, Zenon
<1>7. ASSUME NEW k \in 1..n
      PROVE  Ranked(D, before)[k] \in D /\ Cardinality(Lower(Ranked(D, before)[k])) = k - 1
  <2>1. \E x \in D : Cardinality(Lower(x)) = k - 1
    BY <1>1, <1>2, <1>6
  <2>2. Ranked(D, before)[k] = CHOOSE x \in D : Cardinality(Lower(x)) = k - 1
    BY Zenon DEF Ranked, Lower
  <2> QED
    BY <2>1, <2>2, Zenon
<1>8. Ranked(D, before) \in [1..n -> D]
  BY <1>7, Zenon DEF Ranked
<1>9. ASSUME NEW x \in D PROVE \E k \in 1..n : Ranked(D, before)[k] = x
  <2>1. place[x] \in 1..n
    BY <1>4, Zenon
  <2>2. place[Ranked(D, before)[place[x]]] = place[x] /\ Ranked(D, before)[place[x]] \in D
    BY <1>2, <1>7, <2>1
  <2> HIDE DEF place
  <2>3. Ranked(D, before)[place[x]] = x
    BY <1>5, <2>2, Zenon
  <2> QED
    BY <2>1, <2>3, Zenon
<1>10. ASSUME NEW j \in 1..n, NEW k \in 1..n, j < k
       PROVE  <<Ranked(D, before)[j], Ranked(D, before)[k]>> \in before
  <2> DEFINE x == Ranked(D, before)[j]
             y == Ranked(D, before)[k]
  <2>1. x \in D /\ y \in D /\ Cardinality(Lower(x)) = j - 1 /\ Cardinality(Lower(y)) = k - 1
    BY <1>7, Zenon
  <2> HIDE DEF x, y
  <2>2. Cardinality(Lower(x)) < Cardinality(Lower(y))
    BY <1>10, <2>1
  <2>3. x # y /\ <<y, x>> \notin before
    BY <1>2, <1>3, <2>1, <2>2
  <2>4. <<x, y>> \in before
    BY <2>1, <2>3, Zenon DEF TotalOrder
  <2> QED
    BY <2>4, Zenon DEF x, y
<1>11. ASSUME NEW j \in 1..n, NEW k \in 1..n, Ranked(D, before)[j] = Ranked(D, before)[k] PROVE j = k
  BY <1>7, <1>11
<1> QED
  BY <1>8, <1>9, <1>10, <1>11, Zenon

(* What a function on 1..n is as a list. *)
LEMMA ListOf ==
  ASSUME NEW S, NEW n \in Nat, NEW f \in [1..n -> S]
  PROVE  f \in Seq(S) /\ Len(f) = n
OBVIOUS

(* A finite set of numbers in order: each of them once. *)
LEMMA InOrderLists ==
  ASSUME LibraryFacts, NEW S, IsFiniteSet(S), S \subseteq Int
  PROVE  /\ InOrder(S) \in Seq(S) /\ Elements(InOrder(S)) = S
         /\ Distinct(InOrder(S)) /\ Len(InOrder(S)) = Cardinality(S)
<1> DEFINE before == {r \in S \X S : r[1] < r[2]}
<1>1. TotalOrder(S, before)
  BY DEF TotalOrder
<1>2. InOrder(S) = Ranked(S, before)
  BY Zenon DEF InOrder
<1> HIDE DEF before
<1>3. PICK n \in Nat : n = Cardinality(S)
  BY CountType, Zenon
<1>4. /\ InOrder(S) \in [1..n -> S]
      /\ \A x \in S : \E k \in 1..n : InOrder(S)[k] = x
      /\ \A j, k \in 1..n : InOrder(S)[j] = InOrder(S)[k] => j = k
  BY <1>1, <1>2, <1>3, RankedLists
<1>5. InOrder(S) \in Seq(S) /\ Len(InOrder(S)) = n
  BY <1>4, ListOf, Zenon
<1>6. Elements(InOrder(S)) = S
  <2> HIDE DEF before
  <2>1. Elements(InOrder(S)) \subseteq S
    BY <1>4, <1>5 DEF Elements
  <2>2. S \subseteq Elements(InOrder(S))
    BY <1>4, <1>5, Zenon DEF Elements
  <2> QED
    BY <2>1, <2>2, Zenon
<1>7. Distinct(InOrder(S))
  BY <1>4, <1>5, Zenon DEF Distinct
<1> QED
  BY <1>3, <1>5, <1>6, <1>7, Zenon

(***************************************************************************)
(* sort.SliceStable: the same elements, each as often as before, and none  *)
(* behind one with a greater key.                                          *)
(***************************************************************************)
LEMMA Sorts ==
  ASSUME LibraryFacts, NEW S, NEW q \in Seq(S), NEW key \in [S -> Int]
  PROVE  /\ SortStable(q, key) \in Seq(S) /\ Len(SortStable(q, key)) = Len(q)
         /\ Elements(SortStable(q, key)) = Elements(q)
         /\ Distinct(q) => Distinct(SortStable(q, key))
         /\ \A j, k \in 1..Len(q) :
              j < k => key[SortStable(q, key)[j]] <= key[SortStable(q, key)[k]]
<1> DEFINE places == 1..Len(q)
           before == {r \in places \X places :
                        \/ key[q[r[1]]] < key[q[r[2]]]
                        \/ key[q[r[1]]] = key[q[r[2]]] /\ r[1] < r[2]}
           order == Ranked(places, before)
           sorted == SortStable(q, key)
<1>1. PICK n \in Nat : n = Len(q) /\ q \in [1..n -> S]
  BY LengthOfSeq, Zenon
<1>2. IsFiniteSet(places) /\ Cardinality(places) = n
  <2>1. IsFiniteSet(1..n) /\ Cardinality(1..n) = IF 1 > n THEN 0 ELSE n - 1 + 1
    BY CountInterval
  <2> QED
    BY <1>1, <2>1
<1>3. \A i \in places : q[i] \in S /\ key[q[i]] \in Int
  BY <1>1, Zenon
<1>4. TotalOrder(places, before)
  BY <1>1, <1>3 DEF TotalOrder
<1>5. sorted = [i \in places |-> q[order[i]]]
  BY Zenon DEF SortStable
<1>6. /\ order \in [1..n -> places]
      /\ \A x \in places : \E k \in 1..n : order[k] = x
      /\ \A j, k \in 1..n : j < k => <<order[j], order[k]>> \in before
      /\ \A j, k \in 1..n : order[j] = order[k] => j = k
  <2> HIDE DEF places, before
  <2> QED
    BY <1>2, <1>4, RankedLists, SMTT(30)
<1>7. ASSUME NEW j \in 1..n, NEW k \in 1..n, j < k PROVE key[q[order[j]]] <= key[q[order[k]]]
  <2>1. PICK a \in places, b \in places : a = order[j] /\ b = order[k]
    BY <1>6, Zenon
  <2>2. <<a, b>> \in before
    BY <1>6, <1>7, <2>1, Zenon
  <2>3. key[q[a]] <= key[q[b]]
    BY <1>3, <2>2
  <2> QED
    BY <2>1, <2>3, Zenon
<1> HIDE DEF before, order, sorted
<1>8. sorted \in Seq(S) /\ Len(sorted) = n
  <2>1. sorted \in [1..n -> S]
    BY <1>1, <1>3, <1>5, <1>6, Zenon
  <2> QED
    BY <2>1, ListOf, Zenon
<1>9. \A i \in 1..n : sorted[i] = q[order[i]]
  BY <1>1, <1>5, Zenon
<1>10. Elements(sorted) = Elements(q)
  <2>1. ASSUME NEW x \in Elements(sorted) PROVE x \in Elements(q)
    <3>1. PICK k \in 1..n : x = sorted[k]
      BY <1>8, Zenon DEF Elements
    <3>2. order[k] \in 1..n
      BY <1>1, <1>6, Zenon
    <3> QED
      BY <1>1, <1>9, <3>1, <3>2, Zenon DEF Elements
  <2>2. ASSUME NEW x \in Elements(q) PROVE x \in Elements(sorted)
    <3>1. PICK i \in 1..n : x = q[i]
      BY <1>1, Zenon DEF Elements
    <3>2. PICK k \in 1..n : order[k] = i
      BY <1>1, <1>6, Zenon
    <3> QED
      BY <1>8, <1>9, <3>1, <3>2, Zenon DEF Elements
  <2> QED
    BY <2>1, <2>2, Zenon
<1>11. ASSUME Distinct(q), NEW j \in 1..n, NEW k \in 1..n, sorted[j] = sorted[k] PROVE j = k
  <2>1. PICK a \in 1..n, b \in 1..n : a = order[j] /\ b = order[k]
    BY <1>1, <1>6, Zenon
  <2>2. q[a] = q[b]
    BY <1>9, <1>11, <2>1, Zenon
  <2>3. a = b
    BY <1>1, <1>11, <2>2, Zenon DEF Distinct
  <2> QED
    BY <1>6, <2>1, <2>3, Zenon
<1> QED
  <2>1. Distinct(q) => Distinct(sorted)
    BY <1>8, <1>11, Zenon DEF Distinct
  <2>2. \A j, k \in 1..n : j < k => key[sorted[j]] <= key[sorted[k]]
    BY <1>7, <1>9, Zenon
  <2> QED
    BY <1>1, <1>8, <1>10, <2>1, <2>2, Zenon DEF sorted

(* One list behind another. *)
LEMMA JoinLemma ==
  ASSUME NEW S, NEW one \in Seq(S), NEW two \in Seq(S)
  PROVE  /\ one \o two \in Seq(S) /\ Elements(one \o two) = Elements(one) \cup Elements(two)
         /\ Distinct(one) /\ Distinct(two) /\ Elements(one) \cap Elements(two) = {}
              => Distinct(one \o two)
<1>1. PICK m \in Nat, n \in Nat : m = Len(one) /\ n = Len(two)
  BY LengthOfSeq, Zenon
<1>2. /\ Len(one \o two) = m + n /\ one \o two \in Seq(S)
      /\ \A k \in 1..m : (one \o two)[k] = one[k]
      /\ \A k \in 1..n : (one \o two)[m + k] = two[k]
  BY <1>1, ConcatOf
<1> DEFINE both == one \o two
<1> HIDE DEF both
<1>3. \A k \in 1..(m + n) : k \in 1..m \/ (k - m \in 1..n /\ k = m + (k - m))
  OBVIOUS
<1>4. Elements(both) \subseteq Elements(one) \cup Elements(two)
  BY <1>1, <1>2, <1>3 DEF Elements, both
<1>5. Elements(one) \cup Elements(two) \subseteq Elements(both)
  <2>1. \A k \in 1..m : k \in 1..(m + n)
    OBVIOUS
  <2>2. \A k \in 1..n : m + k \in 1..(m + n)
    OBVIOUS
  <2> QED
    BY <1>1, <1>2, <2>1, <2>2 DEF Elements, both
<1>6. ASSUME Distinct(one), Distinct(two), Elements(one) \cap Elements(two) = {},
             NEW j \in 1..(m + n), NEW k \in 1..(m + n), both[j] = both[k]
      PROVE  j = k
  <2>1. \A i \in 1..m : both[i] = one[i] /\ one[i] \in Elements(one)
    BY <1>1, <1>2, Zenon DEF Elements, both
  <2>2. \A i \in 1..n : both[m + i] = two[i] /\ two[i] \in Elements(two)
    BY <1>1, <1>2, Zenon DEF Elements, both
  <2>3. CASE j \in 1..m /\ k \in 1..m
    BY <1>1, <1>6, <2>1, <2>3, Zenon DEF Distinct
  <2>4. CASE j - m \in 1..n /\ k - m \in 1..n
    <3>1. two[j - m] = two[k - m]
      BY <1>3, <1>6, <2>2, <2>4
    <3>2. j - m = k - m
      BY <1>1, <1>6, <2>4, <3>1, Zenon DEF Distinct
    <3> QED
      BY <3>2
  <2>5. ASSUME NEW a \in 1..m, NEW b \in 1..n PROVE both[a] # both[m + b]
    BY <1>6, <2>1, <2>2, Zenon
  <2>6. \A i \in 1..(m + n) : i - m \in 1..n => m + (i - m) = i
    OBVIOUS
  <2> QED
    BY <1>3, <1>6, <2>3, <2>4, <2>5, <2>6, Zenon
<1> QED
  BY <1>2, <1>4, <1>5, <1>6, Zenon DEF Distinct, both

(* A list without its i-th element. *)
LEMMA CutLemma ==
  ASSUME NEW S, NEW q \in Seq(S), Distinct(q), NEW i \in 1..Len(q)
  PROVE  /\ Removed(q, i) \in Seq(S) /\ Distinct(Removed(q, i))
         /\ q[i] \in S /\ q[i] \in Elements(q)
         /\ Elements(Removed(q, i)) = Elements(q) \ {q[i]}
<1>1. PICK m \in Nat : m = Len(q) /\ q \in [1..m -> S]
  BY LengthOfSeq, Zenon
<1> DEFINE rest == Removed(q, i)
<1>2. /\ rest \in Seq(S) /\ Len(rest) = m - 1
      /\ \A j \in 1..(m - 1) : rest[j] = IF j < i THEN q[j] ELSE q[j + 1]
  <2>1. i \in 1..m
    BY <1>1, Zenon
  <2>2. m = Len(q)
    BY <1>1, Zenon
  <2>3. Removed(q, i) \in Seq(S)
    BY <2>1, <2>2, RemoveLemma, Zenon
  <2>4. Len(Removed(q, i)) = m - 1
    BY <2>1, <2>2, RemoveLemma
  <2>5. \A j \in 1..(m - 1) : Removed(q, i)[j] = IF j < i THEN q[j] ELSE q[j + 1]
    BY <2>1, <2>2, RemoveLemma, Zenon
  <2> QED
    BY <2>3, <2>4, <2>5, Zenon
<1> HIDE DEF rest
<1> DEFINE from(j) == IF j < i THEN j ELSE j + 1
<1>3. \A j \in 1..(m - 1) : from(j) \in (1..m) \ {i} /\ rest[j] = q[from(j)]
  BY <1>1, <1>2
<1>4. \A j, k \in 1..(m - 1) : from(j) = from(k) => j = k
  BY <1>1
<1>5. \A k \in (1..m) \ {i} : \E j \in 1..(m - 1) : from(j) = k
  <2> SUFFICES ASSUME NEW k \in (1..m) \ {i} PROVE \E j \in 1..(m - 1) : from(j) = k
    BY Zenon
  <2>1. CASE k < i
    BY <1>1, <2>1
  <2>2. CASE k > i
    <3>1. k - 1 \in 1..(m - 1) /\ from(k - 1) = k
      BY <1>1, <2>2
    <3> QED
      BY <3>1, Zenon
  <2> QED
    BY <1>1, <2>1, <2>2
<1> HIDE DEF from
<1>6. \A j, k \in 1..m : q[j] = q[k] => j = k
  BY <1>1, Zenon DEF Distinct
<1>7. Distinct(rest)
  <2> SUFFICES ASSUME NEW j \in 1..(m - 1), NEW k \in 1..(m - 1), rest[j] = rest[k] PROVE j = k
    BY <1>2, Zenon DEF Distinct
  <2>1. from(j) \in 1..m /\ from(k) \in 1..m /\ q[from(j)] = q[from(k)]
    BY <1>3, Zenon
  <2>2. from(j) = from(k)
    BY <1>6, <2>1, Zenon
  <2> QED
    BY <1>4, <2>2, Zenon
<1>8. Elements(rest) \subseteq Elements(q) \ {q[i]}
  BY <1>1, <1>2, <1>3, <1>6 DEF Elements
<1>9. Elements(q) \ {q[i]} \subseteq Elements(rest)
  BY <1>1, <1>2, <1>3, <1>5 DEF Elements
<1> QED
  BY <1>1, <1>2, <1>7, <1>8, <1>9, Zenon DEF rest, Elements

-----------------------------------------------------------------------------
(* The queues qs hold the processes of X, each once, in the queue of its    *)
(* level.                                                                   *)
Holds(qs, X, level) ==
  /\ qs \in [Levels -> Seq(Procs)]
  /\ \A l \in Levels : Distinct(qs[l])
  /\ \A x \in Procs, l \in Levels : x \in Elements(qs[l]) <=> x \in X /\ level[x] = l

(* The elements of a list of processes are processes. *)
LEMMA HeldAreProcs ==
  ASSUME NEW qs, NEW X, NEW level, Holds(qs, X, level), NEW l \in Levels
  PROVE  Elements(qs[l]) \subseteq Procs
<1>1. qs[l] \in Seq(Procs)
  BY Zenon DEF Holds
<1> QED
  BY <1>1, ElementIn, Zenon DEF Elements

(* The head of a queue is taken off it. *)
LEMMA TakeHead ==
  ASSUME NEW qs, NEW X, NEW level, Holds(qs, X, level), NEW l \in Levels, qs[l] # <<>>
  PROVE  /\ Head(qs[l]) \in Procs /\ Head(qs[l]) \in X
         /\ Holds([qs EXCEPT ![l] = Tail(@)], X \ {Head(qs[l])}, level)
<1> DEFINE h == Head(qs[l])
           rest == Tail(qs[l])
           left == [qs EXCEPT ![l] = Tail(@)]
<1>1. qs \in [Levels -> Seq(Procs)] /\ qs[l] \in Seq(Procs) /\ Distinct(qs[l])
  BY Zenon DEF Holds
<1>2. /\ h \in Procs /\ h \in Elements(qs[l]) /\ rest \in Seq(Procs) /\ Distinct(rest)
      /\ Elements(rest) = Elements(qs[l]) \ {h}
  BY <1>1, PopLemma, Zenon
<1>3. h \in X /\ level[h] = l
  BY <1>2, Zenon DEF Holds
<1>4. left = [k \in Levels |-> IF k = l THEN rest ELSE qs[k]]
  BY <1>1, Zenon
<1> HIDE DEF h, rest, left
<1>5. left \in [Levels -> Seq(Procs)] /\ \A k \in Levels : Distinct(left[k])
  BY <1>1, <1>2, <1>4, Zenon DEF Holds
<1>6. ASSUME NEW x \in Procs, NEW k \in Levels
      PROVE  x \in Elements(left[k]) <=> x \in X \ {h} /\ level[x] = k
  <2>1. CASE k = l
    BY <1>2, <1>4, <2>1, Zenon DEF Holds
  <2>2. CASE k # l
    BY <1>3, <1>4, <2>2, Zenon DEF Holds
  <2> QED
    BY <2>1, <2>2, Zenon
<1>7. Holds(left, X \ {h}, level)
  BY <1>5, <1>6, Zenon DEF Holds
<1> QED
  BY <1>2, <1>3, <1>7, Zenon DEF h, left

(* A process is put at the end of the queue of its level. *)
LEMMA PutAtEnd ==
  ASSUME NEW qs, NEW X, NEW level, Holds(qs, X, level),
         NEW x \in Procs, x \notin X, level[x] \in Levels
  PROVE  Holds([qs EXCEPT ![level[x]] = Append(@, x)], X \cup {x}, level)
<1> DEFINE more == [qs EXCEPT ![level[x]] = Append(@, x)]
<1>1. PICK l \in Levels : l = level[x]
  BY Zenon
<1>2. qs \in [Levels -> Seq(Procs)] /\ qs[l] \in Seq(Procs) /\ Distinct(qs[l])
  BY Zenon DEF Holds
<1>3. x \notin Elements(qs[l])
  BY Zenon DEF Holds
<1>4. /\ Append(qs[l], x) \in Seq(Procs) /\ Distinct(Append(qs[l], x))
      /\ Elements(Append(qs[l], x)) = Elements(qs[l]) \cup {x}
  BY <1>2, <1>3, WaitLemma
<1>5. more = [k \in Levels |-> IF k = l THEN Append(qs[l], x) ELSE qs[k]]
  BY <1>1, <1>2, Zenon
<1> HIDE DEF more
<1>6. more \in [Levels -> Seq(Procs)] /\ \A k \in Levels : Distinct(more[k])
  BY <1>2, <1>4, <1>5, Zenon DEF Holds
<1>7. ASSUME NEW y \in Procs, NEW k \in Levels
      PROVE  y \in Elements(more[k]) <=> y \in X \cup {x} /\ level[y] = k
  <2>1. CASE k = l
    BY <1>1, <1>4, <1>5, <2>1, Zenon DEF Holds
  <2>2. CASE k # l
    BY <1>1, <1>5, <2>2, Zenon DEF Holds
  <2> QED
    BY <2>1, <2>2, Zenon
<1>8. Holds(more, X \cup {x}, level)
  BY <1>6, <1>7, Zenon DEF Holds
<1> QED
  BY <1>8, Zenon DEF more

(* One queue holds everybody when all are at the top level. *)
LEMMA OneQueue ==
  ASSUME NEW qs, NEW X, NEW level, Holds(qs, X, level), \A x \in Procs : level[x] = 0,
         NEW q \in Seq(Procs), Distinct(q), NEW Y, Y \subseteq Procs, Elements(q) = Y
  PROVE  Holds([qs EXCEPT ![0] = q], Y, level)
<1> DEFINE new == [qs EXCEPT ![0] = q]
<1>1. qs \in [Levels -> Seq(Procs)] /\ \A l \in Levels : Distinct(qs[l])
  BY Zenon DEF Holds
<1>2. new = [k \in Levels |-> IF k = 0 THEN q ELSE qs[k]]
  BY <1>1, Zenon
<1> HIDE DEF new
<1>3. new \in [Levels -> Seq(Procs)] /\ \A k \in Levels : Distinct(new[k])
  BY <1>1, <1>2, Zenon
<1>4. ASSUME NEW x \in Procs, NEW k \in Levels
      PROVE  x \in Elements(new[k]) <=> x \in Y /\ level[x] = k
  <2>1. CASE k = 0
    BY <1>2, <2>1, Zenon
  <2>2. CASE k # 0
    BY <1>2, <2>2 DEF Holds
  <2> QED
    BY <2>1, <2>2, Zenon
<1>5. Holds(new, Y, level)
  BY <1>3, <1>4, Zenon DEF Holds
<1> QED
  BY <1>5, Zenon DEF new

-----------------------------------------------------------------------------
(* The processes that a tick chooses from. *)
Contenders == Queued \cup Arrivals \cup ({running} \ {None})

Ready == {p \in Procs : State[p] = "READY"}

(* What the State of a process says of it. *)
Sound(p) ==
  /\ State[p] = "RUNNING" <=> running = p
  /\ State[p] = "TERMINATED" <=> p \in Elements(completed)
  /\ State[p] \in {"READY", "RUNNING"} => RemainingTime[p] > 0
  /\ State[p] = "TERMINATED" => RemainingTime[p] = 0
  /\ p > added => State[p] = "NEW" /\ RemainingTime[p] = 0
  /\ State[p] = "NEW" =>
       WaitingTime[p] = 0 /\ StartTime[p] = -1 /\ CurrentQueue[p] = 0 /\ AllotmentUsed[p] = 0
  /\ State[p] = "NEW" /\ p <= added =>
       ArrivalTime[p] >= totalTime /\ RemainingTime[p] = BurstTime[p] /\ BurstTime[p] > 0
  /\ WaitingTime[p] <= totalTime
  /\ Policy # "MLFQ" => CurrentQueue[p] = 0 /\ AllotmentUsed[p] = 0

(***************************************************************************)
(* The inductive invariant behind OnePlace: a process that has not been    *)
(* admitted is untouched and its arrival is not past, so that no tick can  *)
(* miss it.                                                                *)
(***************************************************************************)
PlaceInv ==
  /\ TypeOK
  /\ Holds(queues, Ready, CurrentQueue)
  /\ Distinct(completed)
  /\ \A p \in Procs : Sound(p)
  /\ busyTime <= totalTime

(* How a tick may change the accounts of MLFQ. *)
LevelsStep ==
  /\ CurrentQueue' \in [Procs -> Levels] /\ AllotmentUsed' \in [Procs -> Nat]
  /\ ticksSinceBoost' \in 0..BoostPeriod
  /\ \A x \in Procs :
       x \notin Contenders \/ Policy # "MLFQ" =>
         CurrentQueue'[x] = CurrentQueue[x] /\ AllotmentUsed'[x] = AllotmentUsed[x]

(* None is not a process, and numbers are numbers. *)
LEMMA ProcFacts ==
  /\ None \notin Procs /\ Procs \subseteq Nat /\ NumProcs \in Nat
  /\ MaxArrival \in Nat /\ MaxTime \in Nat /\ BoostPeriod \in Nat
  /\ Quantum \in Nat /\ Quantum >= 1
  /\ Bursts \subseteq Nat \ {0} /\ Bursts \cup {0} \subseteq Nat
BY SchedulerAssumption DEF Procs

(* Who the contenders are. *)
LEMMA WhoContends ==
  ASSUME PlaceInv
  PROVE  /\ Queued = Ready /\ Contenders \subseteq Procs
         /\ \A x \in Arrivals : x \in Procs /\ State[x] = "NEW" /\ x <= added /\ ArrivalTime[x] = totalTime
         /\ running # None => running \in Procs /\ State[running] = "RUNNING"
         /\ running \notin Queued \cup Arrivals
         /\ Contenders \ {running} = Queued \cup Arrivals
         /\ \A x \in Contenders : RemainingTime[x] > 0 /\ State[x] # "TERMINATED" /\ x <= added
<1>1. Queued = Ready
  <2>1. \A x \in Ready : \E l \in Levels : x \in Elements(queues[l])
    BY Zenon DEF PlaceInv, TypeOK, Holds, Ready
  <2>2. ASSUME NEW l \in Levels, NEW x \in Elements(queues[l]) PROVE x \in Ready
    <3>1. Holds(queues, Ready, CurrentQueue)
      BY Zenon DEF PlaceInv
    <3>2. x \in Procs
      BY <3>1, HeldAreProcs, Zenon
    <3> QED
      BY <3>1, <3>2, Zenon DEF Holds
  <2> QED
    BY <2>1, <2>2, Zenon DEF Queued
<1>2. ASSUME NEW x \in Arrivals
      PROVE  x \in Procs /\ State[x] = "NEW" /\ x <= added /\ ArrivalTime[x] = totalTime
  <2>1. added \in 0..NumProcs
    BY Zenon DEF PlaceInv, TypeOK
  <2> QED
    BY <2>1, ProcFacts DEF Arrivals, Procs
<1>3. running # None => running \in Procs /\ State[running] = "RUNNING"
  BY Zenon DEF PlaceInv, TypeOK, Sound
<1>4. running \notin Queued \cup Arrivals
  <2>1. CASE running = None
    BY <1>1, <1>2, <2>1, ProcFacts, Zenon DEF Ready
  <2>2. CASE running # None
    BY <1>1, <1>2, <1>3, <2>2, Zenon DEF Ready
  <2> QED
    BY <2>1, <2>2, Zenon
<1>5. Contenders \subseteq Procs
  BY <1>1, <1>2, <1>3, Zenon DEF Contenders, Ready
<1>6. Contenders \ {running} = Queued \cup Arrivals
  BY <1>4, Zenon DEF Contenders
<1>7. ASSUME NEW x \in Contenders PROVE RemainingTime[x] > 0 /\ State[x] # "TERMINATED" /\ x <= added
  <2>1. Sound(x) /\ x \in Procs /\ added \in Nat
    BY <1>5 DEF PlaceInv, TypeOK
  <2>2. CASE x \in Queued \/ x = running
    <3>1. x \in Procs /\ State[x] \in {"READY", "RUNNING"}
      BY <1>1, <1>3, <1>5, <2>2, ProcFacts, Zenon DEF Ready
    <3> QED
      BY <2>1, <3>1, ProcFacts DEF Sound
  <2>3. CASE x \in Arrivals
    BY <1>2, <2>1, <2>3, Zenon DEF Sound
  <2> QED
    BY <2>2, <2>3, Zenon DEF Contenders
<1> QED
  BY <1>1, <1>2, <1>3, <1>4, <1>5, <1>6, <1>7, Zenon

(* The assignments of Run, one by one. *)
LEMMA RunAssigns ==
  ASSUME PlaceInv, NEW p \in Contenders, NEW qs, NEW slice, Run(p, qs, slice), NEW x \in Procs
  PROVE  /\ State'[x] = IF x = p THEN IF Finishes(p) THEN "TERMINATED" ELSE "RUNNING"
                        ELSE IF x = running \/ x \in Arrivals THEN "READY"
                        ELSE State[x]
         /\ RemainingTime'[x] = IF x = p THEN RemainingTime[x] - 1 ELSE RemainingTime[x]
         /\ WaitingTime'[x] = IF x \in Queued \cup Arrivals THEN WaitingTime[x] + 1 ELSE WaitingTime[x]
         /\ StartTime'[x] = IF x = p /\ StartTime[x] = -1 THEN totalTime ELSE StartTime[x]
         /\ FinishTime'[x] = IF x = p /\ Finishes(p) THEN totalTime + 1 ELSE FinishTime[x]
<1>1. /\ RemainingTime \in [Procs -> Nat] /\ StartTime \in [Procs -> -1..MaxTime]
      /\ FinishTime \in [Procs -> -1..MaxTime]
  BY Zenon DEF PlaceInv, TypeOK
<1>2. State'[x] = IF x = p THEN IF Finishes(p) THEN "TERMINATED" ELSE "RUNNING"
                  ELSE IF x = running \/ x \in Arrivals THEN "READY"
                  ELSE State[x]
  BY Zenon DEF Run
<1>3. RemainingTime'[x] = IF x = p THEN RemainingTime[x] - 1 ELSE RemainingTime[x]
  BY <1>1, Zenon DEF Run
<1>4. WaitingTime'[x] = IF x \in Queued \cup Arrivals THEN WaitingTime[x] + 1 ELSE WaitingTime[x]
  BY Zenon DEF Run, Waiting
<1>5. StartTime'[x] = IF x = p /\ StartTime[x] = -1 THEN totalTime ELSE StartTime[x]
  BY <1>1, Zenon DEF Run
<1>6. FinishTime'[x] = IF x = p /\ Finishes(p) THEN totalTime + 1 ELSE FinishTime[x]
  BY <1>1, Zenon DEF Run
<1> QED
  BY <1>2, <1>3, <1>4, <1>5, <1>6, Zenon

(* A tick in which process p runs keeps everybody in one place. *)
LEMMA RunPlaces ==
  ASSUME PlaceInv, NEW p \in Contenders, NEW slice \in Nat, NEW qs, Run(p, qs, slice),
         Holds(qs, Contenders \ {p}, CurrentQueue'), LevelsStep
  PROVE  PlaceInv'
<1>1. TypeOK /\ \A x \in Procs : Sound(x)
  BY Zenon DEF PlaceInv
<1>2. p \in Procs /\ RemainingTime[p] > 0 /\ State[p] # "TERMINATED" /\ p <= added
  BY WhoContends, Zenon
<1>3. /\ totalTime \in 0..MaxTime /\ totalTime < MaxTime /\ totalTime' = totalTime + 1
      /\ busyTime \in 0..MaxTime /\ busyTime <= totalTime /\ busyTime' = busyTime + 1
      /\ added \in Nat /\ MaxTime \in Nat
  BY <1>1, ProcFacts DEF Run, Ticking, TypeOK, PlaceInv
<1>4. /\ Policy' = Policy /\ added' = added /\ ArrivalTime' = ArrivalTime /\ BurstTime' = BurstTime
      /\ queues' = qs /\ running' = IF Finishes(p) THEN None ELSE p
      /\ completed' = IF Finishes(p) THEN Append(completed, p) ELSE completed
  BY Zenon DEF Run
<1>5. \A x \in Procs : State[x] = "NEW" /\ x \in Contenders => x \in Arrivals
  BY WhoContends, Zenon DEF Contenders, Ready
<1>6. \A x \in Procs : State[x] = "READY" <=> x \in Queued
  BY WhoContends, Zenon DEF Ready
<1>7. /\ completed \in Seq(Procs) /\ Distinct(completed) /\ p \notin Elements(completed)
      /\ completed' \in Seq(Procs) /\ Distinct(completed')
      /\ Elements(completed') = IF Finishes(p) THEN Elements(completed) \cup {p} ELSE Elements(completed)
  <2>1. completed \in Seq(Procs) /\ Distinct(completed)
    BY <1>1, Zenon DEF PlaceInv, TypeOK
  <2>2. p \notin Elements(completed)
    BY <1>1, <1>2, Zenon DEF Sound
  <2>3. /\ Append(completed, p) \in Seq(Procs) /\ Distinct(Append(completed, p))
        /\ Elements(Append(completed, p)) = Elements(completed) \cup {p}
    BY <1>2, <2>1, <2>2, WaitLemma
  <2>4. CASE Finishes(p)
    BY <1>4, <2>1, <2>2, <2>3, <2>4, Zenon
  <2>5. CASE ~Finishes(p)
    BY <1>4, <2>1, <2>2, <2>5, Zenon
  <2> QED
    BY <2>4, <2>5, Zenon
<1>8. ASSUME NEW x \in Procs
      PROVE  /\ RemainingTime[x] \in Nat /\ WaitingTime[x] \in Nat /\ WaitingTime[x] <= totalTime
             /\ StartTime[x] \in -1..MaxTime /\ FinishTime[x] \in -1..MaxTime /\ x \in Nat
             /\ ArrivalTime[x] \in Nat /\ BurstTime[x] \in Nat
  <2>1. /\ RemainingTime[x] \in Nat /\ WaitingTime[x] \in 0..MaxTime
        /\ StartTime[x] \in -1..MaxTime /\ FinishTime[x] \in -1..MaxTime
        /\ ArrivalTime[x] \in 0..MaxArrival /\ BurstTime[x] \in Bursts \cup {0}
    BY <1>1, Zenon DEF TypeOK
  <2>2. WaitingTime[x] <= totalTime
    BY <1>1, Zenon DEF Sound
  <2>3. BurstTime[x] \in Nat
    BY <2>1, ProcFacts, Zenon
  <2>4. x \in Nat
    BY ProcFacts, Zenon
  <2>5. MaxTime \in Nat /\ MaxArrival \in Nat
    BY ProcFacts, Zenon
  <2> QED
    BY <2>1, <2>2, <2>3, <2>4, <2>5
<1>9. TypeOK'
  <2>1. State' \in [Procs -> {"NEW", "READY", "RUNNING", "TERMINATED"}]
    BY <1>1, Zenon DEF Run, TypeOK
  <2>2. RemainingTime' \in [Procs -> Nat]
    <3>1. \A x \in Procs : RemainingTime'[x] \in Nat
      BY <1>2, <1>8, RunAssigns
    <3>2. RemainingTime' = [x \in Procs |-> RemainingTime'[x]]
      BY <1>1, Zenon DEF Run, TypeOK
    <3> QED
      BY <3>1, <3>2, Zenon
  <2>3. StartTime' \in [Procs -> -1..MaxTime]
    <3>1. \A x \in Procs : StartTime'[x] \in -1..MaxTime
      BY <1>3, <1>8, RunAssigns
    <3>2. StartTime' = [x \in Procs |-> StartTime'[x]]
      BY <1>1, Zenon DEF Run, TypeOK
    <3> QED
      BY <3>1, <3>2, Zenon
  <2>4. FinishTime' \in [Procs -> -1..MaxTime]
    <3>1. \A x \in Procs : FinishTime'[x] \in -1..MaxTime
      BY <1>3, <1>8, RunAssigns
    <3>2. FinishTime' = [x \in Procs |-> FinishTime'[x]]
      BY <1>1, Zenon DEF Run, TypeOK
    <3> QED
      BY <3>1, <3>2, Zenon
  <2>5. WaitingTime' \in [Procs -> 0..MaxTime]
    <3>1. \A x \in Procs : WaitingTime'[x] \in 0..MaxTime
      BY <1>3, <1>8, RunAssigns
    <3>2. WaitingTime' = [x \in Procs |-> WaitingTime'[x]]
      BY Zenon DEF Run
    <3> QED
      BY <3>1, <3>2, Zenon
  <2>6. currentSlice' \in Nat
    BY DEF Run
  <2>7. running' \in Procs \cup {None}
    BY <1>2, <1>4, Zenon
  <2>8. busyTime' \in 0..MaxTime /\ totalTime' \in 0..MaxTime
    BY <1>3
  <2>9. queues' \in [Levels -> Seq(Procs)]
    BY <1>4, Zenon DEF Holds
  <2>10. /\ CurrentQueue' \in [Procs -> Levels] /\ AllotmentUsed' \in [Procs -> Nat]
         /\ ticksSinceBoost' \in 0..BoostPeriod
    BY Zenon DEF LevelsStep
  <2>11. /\ Policy' \in Policies /\ added' \in 0..NumProcs
         /\ ArrivalTime' \in [Procs -> 0..MaxArrival] /\ BurstTime' \in [Procs -> Bursts \cup {0}]
    BY <1>1, <1>4, Zenon DEF TypeOK
  <2> QED
    BY <1>7, <2>1, <2>2, <2>3, <2>4, <2>5, <2>6, <2>7, <2>8, <2>9, <2>10, <2>11, Zenon DEF TypeOK
<1>10. Holds(queues', Ready', CurrentQueue')
  <2>1. ASSUME NEW x \in Procs PROVE State'[x] = "READY" <=> x \in Contenders \ {p}
    <3>1. x \in Contenders <=> x = running \/ x \in Arrivals \/ State[x] = "READY"
      BY <1>6, ProcFacts, Zenon DEF Contenders
    <3> QED
      BY <3>1, RunAssigns, Zenon
  <2>2. \A x \in Procs : x \in Ready' <=> x \in Contenders \ {p}
    BY <2>1, Zenon DEF Ready
  <2> QED
    BY <1>4, <2>2, Zenon DEF Holds
<1>11. ASSUME NEW x \in Procs PROVE Sound(x)'
  <2>1. Sound(x)
    BY <1>1, Zenon
  <2>2. State'[x] = "RUNNING" <=> running' = x
    BY <1>2, <1>4, <2>1, RunAssigns, ProcFacts, Zenon DEF Sound
  <2>3. State'[x] = "TERMINATED" <=> x \in Elements(completed')
    <3>1. x # p /\ (x = running \/ x \in Arrivals) => State[x] # "TERMINATED"
      BY WhoContends, ProcFacts, Zenon
    <3>2. State[x] = "TERMINATED" <=> x \in Elements(completed)
      BY <2>1, Zenon DEF Sound
    <3> QED
      BY <1>7, <3>1, <3>2, RunAssigns
  <2>4. /\ State'[x] \in {"READY", "RUNNING"} => RemainingTime'[x] > 0
        /\ State'[x] = "TERMINATED" => RemainingTime'[x] = 0
    <3>1. CASE x = p
      BY <1>2, <1>8, <3>1, RunAssigns DEF Finishes
    <3>2. CASE x # p /\ (x = running \/ x \in Arrivals)
      <4>1. x \in Contenders
        BY <3>2, ProcFacts, Zenon DEF Contenders
      <4>2. State'[x] = "READY" /\ RemainingTime'[x] = RemainingTime[x]
        BY <3>2, RunAssigns, Zenon
      <4> QED
        BY <4>1, <4>2, WhoContends, Zenon
    <3>3. CASE x # p /\ ~(x = running \/ x \in Arrivals)
      BY <2>1, <3>3, RunAssigns, Zenon DEF Sound
    <3> QED
      BY <3>1, <3>2, <3>3, Zenon
  <2>5. x > added' => State'[x] = "NEW" /\ RemainingTime'[x] = 0
    <3>1. SUFFICES ASSUME x > added PROVE State'[x] = "NEW" /\ RemainingTime'[x] = 0
      BY <1>4, Zenon
    <3>2. x \notin Contenders /\ x # running
      BY <1>3, <1>8, <3>1, WhoContends, ProcFacts DEF Contenders
    <3> QED
      BY <2>1, <3>1, <3>2, RunAssigns, Zenon DEF Sound, Contenders
  <2>6. State'[x] = "NEW" => State[x] = "NEW" /\ x \notin Contenders
    BY <1>5, <2>1, RunAssigns, Zenon DEF Sound
  <2>7. State'[x] = "NEW" =>
          WaitingTime'[x] = 0 /\ StartTime'[x] = -1 /\ CurrentQueue'[x] = 0 /\ AllotmentUsed'[x] = 0
    <3>1. SUFFICES ASSUME State[x] = "NEW", x \notin Contenders
                   PROVE  /\ WaitingTime'[x] = 0 /\ StartTime'[x] = -1
                          /\ CurrentQueue'[x] = 0 /\ AllotmentUsed'[x] = 0
      BY <2>6, Zenon
    <3>2. WaitingTime'[x] = 0 /\ StartTime'[x] = -1
      BY <2>1, <3>1, RunAssigns, Zenon DEF Sound, Contenders
    <3>3. CurrentQueue'[x] = 0 /\ AllotmentUsed'[x] = 0
      BY <2>1, <3>1, Zenon DEF Sound, LevelsStep
    <3> QED
      BY <3>2, <3>3, Zenon
  <2>8. State'[x] = "NEW" /\ x <= added' =>
          ArrivalTime'[x] >= totalTime' /\ RemainingTime'[x] = BurstTime'[x] /\ BurstTime'[x] > 0
    <3>1. SUFFICES ASSUME State[x] = "NEW", x \notin Contenders, x <= added
                   PROVE  /\ ArrivalTime[x] >= totalTime + 1
                          /\ RemainingTime'[x] = BurstTime[x] /\ BurstTime[x] > 0
      BY <1>3, <1>4, <2>6, Zenon
    <3>2. ArrivalTime[x] # totalTime
      BY <1>3, <1>8, <3>1 DEF Contenders, Arrivals, Procs
    <3> QED
      BY <1>3, <1>8, <2>1, <3>1, <3>2, RunAssigns DEF Sound
  <2>9. WaitingTime'[x] <= totalTime'
    BY <1>3, <1>8, RunAssigns
  <2>10. Policy' # "MLFQ" => CurrentQueue'[x] = 0 /\ AllotmentUsed'[x] = 0
    BY <1>4, <2>1, Zenon DEF Sound, LevelsStep
  <2> QED
    BY <2>2, <2>3, <2>4, <2>5, <2>7, <2>8, <2>9, <2>10, Zenon DEF Sound
<1> QED
  BY <1>3, <1>7, <1>9, <1>10, <1>11 DEF PlaceInv

(* A tick with nobody to run only moves the clock. *)
LEMMA IdlePlaces ==
  ASSUME PlaceInv, Contenders = {}, Idle, LevelsStep
  PROVE  PlaceInv' /\ CurrentQueue' = CurrentQueue /\ AllotmentUsed' = AllotmentUsed
<1>1. TypeOK /\ \A x \in Procs : Sound(x)
  BY Zenon DEF PlaceInv
<1>2. CurrentQueue' = CurrentQueue /\ AllotmentUsed' = AllotmentUsed
  BY <1>1 DEF LevelsStep, TypeOK
<1>3. /\ totalTime \in 0..MaxTime /\ totalTime < MaxTime /\ totalTime' = totalTime + 1
      /\ busyTime \in 0..MaxTime /\ busyTime <= totalTime /\ added \in Nat /\ MaxTime \in Nat
  BY <1>1, ProcFacts DEF Idle, Ticking, TypeOK, PlaceInv
<1>4. UNCHANGED <<Policy, added, State, ArrivalTime, BurstTime, RemainingTime, StartTime, FinishTime,
                  WaitingTime, queues, running, currentSlice, completed, busyTime>>
  BY Zenon DEF Idle
<1>5. TypeOK'
  BY <1>1, <1>2, <1>3, <1>4, SMTT(30) DEF TypeOK, LevelsStep
<1>6. Holds(queues', Ready', CurrentQueue')
  BY <1>2, <1>4, Zenon DEF PlaceInv, Ready
<1>7. ASSUME NEW x \in Procs PROVE Sound(x)'
  <2>1. Sound(x) /\ x \in Nat /\ ArrivalTime[x] \in Nat /\ WaitingTime[x] \in Nat
    BY <1>1, ProcFacts DEF TypeOK
  <2>2. State[x] = "NEW" /\ x <= added => ArrivalTime[x] # totalTime
    BY <1>3, <2>1 DEF Contenders, Arrivals, Procs
  <2> QED
    BY <1>2, <1>3, <1>4, <2>1, <2>2 DEF Sound
<1> QED
  BY <1>2, <1>3, <1>4, <1>5, <1>6, <1>7 DEF PlaceInv

(* A process that is added is new to all the tables. *)
LEMMA AddPlaces ==
  ASSUME PlaceInv, NEW arrival \in 0..MaxArrival, NEW burst \in Bursts, AddProcess(arrival, burst)
  PROVE  PlaceInv'
<1>1. TypeOK /\ \A x \in Procs : Sound(x)
  BY Zenon DEF PlaceInv
<1>2. PICK p \in Procs : p = added + 1 /\ added' = p
  BY <1>1, ProcFacts DEF AddProcess, TypeOK, Procs
<1>3. /\ ArrivalTime' = [ArrivalTime EXCEPT ![p] = arrival]
      /\ BurstTime' = [BurstTime EXCEPT ![p] = burst]
      /\ RemainingTime' = [RemainingTime EXCEPT ![p] = burst]
      /\ arrival >= totalTime
  BY <1>2, Zenon DEF AddProcess
<1>4. UNCHANGED <<Policy, State, StartTime, FinishTime, WaitingTime, CurrentQueue, AllotmentUsed,
                  ticksSinceBoost, queues, running, currentSlice, completed, busyTime, totalTime>>
  BY Zenon DEF AddProcess, levels
<1>5. burst \in Nat /\ burst > 0 /\ added \in Nat /\ p \in Nat
  BY <1>1, ProcFacts DEF TypeOK
<1>6. TypeOK'
  <2>1. added' \in 0..NumProcs
    BY <1>2, ProcFacts DEF Procs
  <2>2. /\ ArrivalTime' \in [Procs -> 0..MaxArrival] /\ BurstTime' \in [Procs -> Bursts \cup {0}]
        /\ RemainingTime' \in [Procs -> Nat]
    BY <1>1, <1>3, <1>5, Zenon DEF TypeOK
  <2> QED
    BY <1>1, <1>4, <2>1, <2>2, Zenon DEF TypeOK
<1>7. Holds(queues', Ready', CurrentQueue')
  BY <1>4, Zenon DEF PlaceInv, Ready
<1>8. State[p] = "NEW"
  BY <1>1, <1>2, <1>5 DEF Sound
<1>9. ASSUME NEW x \in Procs PROVE Sound(x)'
  <2>1. Sound(x) /\ x \in Nat
    BY <1>1, ProcFacts, Zenon
  <2>2. CASE x = p
    <3>1. ArrivalTime'[x] = arrival /\ BurstTime'[x] = burst /\ RemainingTime'[x] = burst
      BY <1>1, <1>3, <2>2, Zenon DEF TypeOK
    <3> QED
      BY <1>2, <1>3, <1>4, <1>5, <1>8, <2>1, <2>2, <3>1 DEF Sound
  <2>3. CASE x # p
    <3>1. /\ ArrivalTime'[x] = ArrivalTime[x] /\ BurstTime'[x] = BurstTime[x]
          /\ RemainingTime'[x] = RemainingTime[x]
      BY <1>1, <1>3, <2>3, Zenon DEF TypeOK
    <3>2. (x > added' => x > added) /\ (x <= added' => x <= added)
      BY <1>2, <1>5, <2>1, <2>3
    <3> QED
      BY <1>4, <2>1, <3>1, <3>2, Zenon DEF Sound
  <2> QED
    BY <2>2, <2>3, Zenon
<1> QED
  BY <1>4, <1>6, <1>7, <1>9, Zenon DEF PlaceInv

-----------------------------------------------------------------------------
(***************************************************************************)
(* What a tick of any policy is: one of the contenders runs, the others    *)
(* are in the queues, or nobody contends.                                  *)
(***************************************************************************)
TickShape ==
  /\ LevelsStep
  /\ \/ Contenders = {} /\ Idle
     \/ \E p \in Contenders, slice \in Nat, qs \in [Levels -> Seq(Procs)] :
          Run(p, qs, slice) /\ Holds(qs, Contenders \ {p}, CurrentQueue')

(* A tick of that shape keeps the invariant. *)
LEMMA ShapePlaces ==
  ASSUME PlaceInv, TickShape
  PROVE  PlaceInv'
<1>1. CASE Contenders = {} /\ Idle
  BY <1>1, IdlePlaces, Zenon DEF TickShape
<1>2. ASSUME NEW p \in Contenders, NEW slice \in Nat, NEW qs \in [Levels -> Seq(Procs)],
             Run(p, qs, slice), Holds(qs, Contenders \ {p}, CurrentQueue')
      PROVE  PlaceInv'
  BY <1>2, RunPlaces, Zenon DEF TickShape
<1> QED
  BY <1>1, <1>2, Zenon DEF TickShape

(* The arrivals, as a list and behind queues[0]. *)
LEMMA ArrivedLists ==
  ASSUME LibraryFacts, PlaceInv
  PROVE  /\ Arriving \in Seq(Procs) /\ Distinct(Arriving) /\ Elements(Arriving) = Arrivals
         /\ Arrived \in Seq(Procs) /\ Distinct(Arrived)
         /\ Elements(Arrived) = Elements(queues[0]) \cup Arrivals
<1>1. Arrivals \in SUBSET Procs /\ Arrivals \subseteq Int /\ 0 \in Levels
  <2>1. Arrivals \in SUBSET Procs
    BY WhoContends, Zenon
  <2>2. Procs \subseteq Int /\ 0 \in Levels
    BY DEF Procs, Levels
  <2> QED
    BY <2>1, <2>2, Zenon
<1>2. IsFiniteSet(Procs)
  BY ProcFacts, CountInterval DEF Procs
<1>3. IsFiniteSet(Arrivals)
  BY <1>1, <1>2, CountSubset, Zenon
<1>4. Arriving \in Seq(Arrivals) /\ Distinct(Arriving) /\ Elements(Arriving) = Arrivals
  BY <1>1, <1>3, InOrderLists, Zenon DEF Arriving
<1>5. Arriving \in Seq(Procs)
  <2>1. PICK n \in Nat : n = Len(Arriving) /\ Arriving \in [1..n -> Arrivals]
    BY <1>4, LengthOfSeq, Zenon
  <2>2. Arriving \in [1..n -> Procs]
    BY <1>1, <2>1, Zenon
  <2> QED
    BY <2>2, ListOf, Zenon
<1>6. queues[0] \in Seq(Procs) /\ Distinct(queues[0])
  BY <1>1, Zenon DEF PlaceInv, Holds
<1>7. Elements(queues[0]) \cap Elements(Arriving) = {}
  <2>1. Elements(queues[0]) \subseteq Ready
    BY <1>1, WhoContends, Zenon DEF Queued
  <2> QED
    BY <1>4, <2>1, WhoContends, Zenon DEF Ready
<1> QED
  BY <1>4, <1>5, <1>6, <1>7, JoinLemma DEF Arrived

(* With a single queue everybody but the running process is in it. *)
LEMMA SingleQueue ==
  ASSUME LibraryFacts, PlaceInv, Policy # "MLFQ"
  PROVE  /\ Arrived \in Seq(Procs) /\ Distinct(Arrived)
         /\ Elements(Arrived) = Contenders \ {running}
<1>1. 0 \in Levels
  BY DEF Levels
<1>2. Elements(queues[0]) = Ready
  <2>1. \A x \in Procs : x \in Elements(queues[0]) <=> x \in Ready
    BY <1>1, Zenon DEF PlaceInv, Holds, Sound
  <2>2. Elements(queues[0]) \subseteq Procs
    BY <1>1, HeldAreProcs, Zenon DEF PlaceInv
  <2> QED
    BY <2>1, <2>2, Zenon DEF Ready
<1> QED
  BY <1>2, ArrivedLists, WhoContends, Zenon

(* The running process behind the others. *)
LEMMA RunningBehind ==
  ASSUME PlaceInv, running # None, NEW q \in Seq(Procs), Distinct(q),
         Elements(q) = Contenders \ {running}
  PROVE  /\ Append(q, running) \in Seq(Procs) /\ Distinct(Append(q, running))
         /\ Elements(Append(q, running)) = Contenders
<1>1. running \in Procs /\ running \in Contenders
  BY WhoContends, Zenon DEF Contenders
<1> QED
  BY <1>1, WaitLemma

(* The levels of a policy other than MLFQ. *)
LEMMA FlatLevels ==
  ASSUME PlaceInv, UNCHANGED levels
  PROVE  LevelsStep
BY Zenon DEF PlaceInv, TypeOK, levels, LevelsStep

(* Process p runs and the others are in the only queue. *)
LEMMA TopShape ==
  ASSUME PlaceInv, Policy # "MLFQ", UNCHANGED levels, NEW p \in Contenders,
         NEW rest \in Seq(Procs), Distinct(rest), Elements(rest) = Contenders \ {p},
         NEW slice \in Nat, Run(p, TopQueue(rest), slice)
  PROVE  TickShape
<1> DEFINE qs == TopQueue(rest)
<1>1. Holds(queues, Ready, CurrentQueue) /\ \A x \in Procs : CurrentQueue[x] = 0
  BY Zenon DEF PlaceInv, Sound
<1>2. Contenders \ {p} \subseteq Procs
  BY WhoContends, Zenon
<1>3. Holds(qs, Contenders \ {p}, CurrentQueue)
  BY <1>1, <1>2, OneQueue, Zenon DEF TopQueue
<1>4. qs \in [Levels -> Seq(Procs)] /\ CurrentQueue' = CurrentQueue
  BY <1>3, Zenon DEF Holds, levels
<1> HIDE DEF qs
<1>5. Run(p, qs, slice)
  BY Zenon DEF qs
<1> QED
  BY <1>3, <1>4, <1>5, FlatLevels, Zenon DEF TickShape

(* DispatchHead with the running process, or with none and all in the queue. *)
LEMMA DispatchShape ==
  ASSUME PlaceInv, Policy # "MLFQ", UNCHANGED levels, NEW r \in {running, None},
         NEW q \in Seq(Procs), Distinct(q), Elements(q) = Contenders \ {r}, DispatchHead(r, q)
  PROVE  TickShape
<1>1. CASE r # None /\ Run(r, TopQueue(q), currentSlice)
  <2>1. r \in Contenders /\ currentSlice \in Nat
    BY <1>1, Zenon DEF Contenders, PlaceInv, TypeOK
  <2> QED
    BY <1>1, <2>1, TopShape, Zenon
<1>2. CASE r = None /\ q # <<>> /\ Run(Head(q), TopQueue(Tail(q)), 0)
  <2>1. Elements(q) = Contenders
    BY <1>2, WhoContends, ProcFacts, Zenon
  <2>2. /\ Head(q) \in Contenders /\ Tail(q) \in Seq(Procs) /\ Distinct(Tail(q))
        /\ Elements(Tail(q)) = Contenders \ {Head(q)}
    BY <1>2, <2>1, PopLemma, Zenon
  <2> QED
    BY <1>2, <2>2, TopShape, Zenon
<1>3. CASE r = None /\ q = <<>> /\ Idle
  <2>1. Elements(q) = {}
    BY <1>3, EmptyList DEF Elements
  <2>2. Contenders = {}
    BY <1>3, <2>1, WhoContends, ProcFacts, Zenon
  <2> QED
    BY <1>3, <2>2, FlatLevels, Zenon DEF TickShape
<1> QED
  BY <1>1, <1>2, <1>3, Zenon DEF DispatchHead

(* The ticks of the policies with a single queue. *)
LEMMA SingleQueueShape ==
  ASSUME LibraryFacts, PlaceInv, FIFOTick \/ RRTick \/ SJFTick \/ STCFTick \/ LotteryTick
  PROVE  TickShape
<1>1. Policy # "MLFQ" /\ UNCHANGED levels
  BY Zenon DEF FIFOTick, RRTick, SJFTick, STCFTick, LotteryTick
<1>2. Arrived \in Seq(Procs) /\ Distinct(Arrived) /\ Elements(Arrived) = Contenders \ {running}
  BY <1>1, SingleQueue, Zenon
<1>3. ASSUME NEW key \in [Procs -> Int]
      PROVE  /\ SortStable(Arrived, key) \in Seq(Procs) /\ Distinct(SortStable(Arrived, key))
             /\ Elements(SortStable(Arrived, key)) = Contenders \ {running}
  BY <1>2, Sorts, Zenon
<1>4. BurstTime \in [Procs -> Int] /\ RemainingTime \in [Procs -> Int]
  <2>1. /\ BurstTime \in [Procs -> Bursts \cup {0}] /\ RemainingTime \in [Procs -> Nat]
        /\ Bursts \cup {0} \subseteq Int
    BY ProcFacts DEF PlaceInv, TypeOK
  <2> QED
    BY <2>1
<1>5. ASSUME running # None, NEW q \in Seq(Procs), Distinct(q), Elements(q) = Contenders \ {running}
      PROVE  /\ Append(q, running) \in Seq(Procs) /\ Distinct(Append(q, running))
             /\ Elements(Append(q, running)) = Contenders \ {None}
  <2>1. Contenders \ {None} = Contenders
    BY WhoContends, ProcFacts, Zenon
  <2> QED
    BY <1>5, <2>1, RunningBehind, Zenon
<1>6. ASSUME FIFOTick PROVE TickShape
  BY <1>1, <1>2, <1>6, DispatchShape, Zenon DEF FIFOTick
<1>7. ASSUME RRTick PROVE TickShape
  <2>1. CASE SliceUsedUp
    <3>1. running # None /\ DispatchHead(None, Append(Arrived, running))
      BY <1>7, <2>1, Zenon DEF RRTick, SliceUsedUp
    <3> QED
      BY <1>1, <1>2, <1>5, <3>1, DispatchShape, Zenon
  <2>2. CASE ~SliceUsedUp
    <3>1. DispatchHead(running, Arrived)
      BY <1>7, <2>2, Zenon DEF RRTick
    <3> QED
      BY <1>1, <1>2, <3>1, DispatchShape, Zenon
  <2> QED
    BY <2>1, <2>2, Zenon
<1>8. ASSUME SJFTick PROVE TickShape
  <2>1. CASE running = None
    <3>1. DispatchHead(running, SortStable(Arrived, BurstTime))
      BY <1>8, <2>1, Zenon DEF SJFTick
    <3> QED
      BY <1>1, <1>3, <1>4, <3>1, DispatchShape, Zenon
  <2>2. CASE running # None
    <3>1. DispatchHead(running, Arrived)
      BY <1>8, <2>2, Zenon DEF SJFTick
    <3> QED
      BY <1>1, <1>2, <3>1, DispatchShape, Zenon
  <2> QED
    BY <2>1, <2>2, Zenon
<1>9. ASSUME STCFTick PROVE TickShape
  <2> DEFINE q == SortStable(Arrived, RemainingTime)
             preempts == running # None /\ q # <<>> /\ RemainingTime[Head(q)] < RemainingTime[running]
  <2>1. q \in Seq(Procs) /\ Distinct(q) /\ Elements(q) = Contenders \ {running}
    BY <1>3, <1>4, Zenon
  <2>2. IF preempts THEN DispatchHead(None, Append(q, running)) ELSE DispatchHead(running, q)
    BY <1>9, Zenon DEF STCFTick
  <2> HIDE DEF q
  <2>3. CASE preempts
    BY <1>1, <1>5, <2>1, <2>2, <2>3, DispatchShape, Zenon
  <2>4. CASE ~preempts
    BY <1>1, <2>1, <2>2, <2>4, DispatchShape, Zenon
  <2> QED
    BY <2>3, <2>4, Zenon
<1>10. ASSUME LotteryTick PROVE TickShape
  <2> DEFINE q == IF SliceUsedUp THEN Append(Arrived, running) ELSE Arrived
             free == running = None \/ SliceUsedUp
  <2>1. \/ ~free /\ Run(running, TopQueue(q), currentSlice)
        \/ free /\ \E i \in DOMAIN q : Run(q[i], TopQueue(Removed(q, i)), 0)
        \/ free /\ q = <<>> /\ Idle
    BY <1>10, Zenon DEF LotteryTick
  <2>2. /\ q \in Seq(Procs) /\ Distinct(q)
        /\ free => Elements(q) = Contenders
        /\ ~free => Elements(q) = Contenders \ {running} /\ running \in Contenders
    <3>1. CASE SliceUsedUp
      BY <1>2, <3>1, RunningBehind, Zenon DEF SliceUsedUp
    <3>2. CASE ~SliceUsedUp
      BY <1>2, <3>2, WhoContends, ProcFacts, Zenon DEF Contenders
    <3> QED
      BY <3>1, <3>2, Zenon
  <2> HIDE DEF q, free
  <2>3. CASE ~free /\ Run(running, TopQueue(q), currentSlice)
    <3>1. currentSlice \in Nat
      BY Zenon DEF PlaceInv, TypeOK
    <3> QED
      BY <1>1, <2>2, <2>3, <3>1, TopShape, Zenon
  <2>4. ASSUME free, NEW i \in DOMAIN q, Run(q[i], TopQueue(Removed(q, i)), 0) PROVE TickShape
    <3>1. i \in 1..Len(q)
      BY <2>2, <2>4, LengthOfSeq, Zenon
    <3>2. /\ Removed(q, i) \in Seq(Procs) /\ Distinct(Removed(q, i)) /\ q[i] \in Contenders
          /\ Elements(Removed(q, i)) = Contenders \ {q[i]}
      BY <2>2, <2>4, <3>1, CutLemma, Zenon
    <3> QED
      BY <1>1, <2>4, <3>2, TopShape, Zenon
  <2>5. CASE free /\ q = <<>> /\ Idle
    <3>1. Contenders = {}
      BY <2>2, <2>5, EmptyList DEF Elements
    <3> QED
      BY <1>1, <2>5, <3>1, FlatLevels, Zenon DEF TickShape
  <2> QED
    BY <2>1, <2>3, <2>4, <2>5, Zenon
<1> QED
  BY <1>6, <1>7, <1>8, <1>9, <1>10, Zenon

-----------------------------------------------------------------------------
(* The levels and accounts of MLFQ during a tick. *)
LEMMA LevelFacts ==
  ASSUME PlaceInv, NEW x \in Procs
  PROVE  /\ Level(x) \in Levels /\ LevelAfter(x) \in Levels
         /\ Used(x) \in Nat /\ UsedAfter(x) \in Nat
         /\ x \notin Contenders => LevelAfter(x) = CurrentQueue[x] /\ UsedAfter(x) = AllotmentUsed[x]
         /\ x # running => LevelAfter(x) = Level(x) /\ UsedAfter(x) = Used(x)
<1>1. CurrentQueue[x] \in Levels /\ AllotmentUsed[x] \in Nat
  BY Zenon DEF PlaceInv, TypeOK
<1>2. Level(x) \in Levels /\ Used(x) \in Nat
  BY <1>1 DEF Level, Used, Levels
<1>3. LevelAfter(x) \in Levels
  BY <1>2 DEF LevelAfter, Levels
<1>4. UsedAfter(x) \in Nat
  BY <1>2, Zenon DEF UsedAfter
<1>5. x # running => LevelAfter(x) = Level(x) /\ UsedAfter(x) = Used(x)
  BY Zenon DEF LevelAfter, UsedAfter
<1>6. ASSUME x \notin Contenders
      PROVE  LevelAfter(x) = CurrentQueue[x] /\ UsedAfter(x) = AllotmentUsed[x]
  <2>1. x # running /\ x \notin Boosted /\ x \notin Arrivals
    BY <1>6, ProcFacts, Zenon DEF Contenders, Boosted
  <2> QED
    BY <1>5, <2>1, Zenon DEF Level, Used, ResetAllotments
<1> QED
  BY <1>2, <1>3, <1>4, <1>5, <1>6, Zenon

(* After a boost all the queued processes are in the top queue. *)
LEMMA BoostHolds ==
  ASSUME LibraryFacts, PlaceInv, NEW level, \A x \in Procs \ {running} : level[x] = Level(x)
  PROVE  Holds(BoostedQueues, Queued \cup Arrivals, level)
<1> DEFINE X == Queued \cup Arrivals
           qs == BoostedQueues
<1>1. /\ queues \in [Levels -> Seq(Procs)] /\ Levels = {0, 1, 2}
      /\ \A l \in Levels : Distinct(queues[l]) /\ Elements(queues[l]) \subseteq Ready
  BY WhoContends DEF PlaceInv, Holds, Queued, Levels
<1>2. X \subseteq Procs /\ running \notin X /\ \A x \in X : level[x] = Level(x)
  <2>1. X \subseteq Procs /\ running \notin X
    BY WhoContends, Zenon DEF Ready
  <2> QED
    BY <2>1, Zenon
<1>3. CASE Boosting
  <2> DEFINE two == queues[0] \o queues[1]
             three == two \o queues[2]
             all == three \o Arriving
  <2>1. /\ queues[0] \in Seq(Procs) /\ queues[1] \in Seq(Procs) /\ queues[2] \in Seq(Procs)
        /\ Distinct(queues[0]) /\ Distinct(queues[1]) /\ Distinct(queues[2])
    BY <1>1, Zenon
  <2>2. ASSUME NEW k \in Levels, NEW l \in Levels, k # l
        PROVE  Elements(queues[k]) \cap Elements(queues[l]) = {}
    BY <1>1, <2>2 DEF PlaceInv, Holds, Ready
  <2>3. /\ two \in Seq(Procs) /\ Distinct(two)
        /\ Elements(two) = Elements(queues[0]) \cup Elements(queues[1])
    <3>1. Elements(queues[0]) \cap Elements(queues[1]) = {}
      BY <1>1, <2>2
    <3> QED
      BY <2>1, <3>1, JoinLemma
  <2>4. /\ three \in Seq(Procs) /\ Distinct(three)
        /\ Elements(three) = Elements(queues[0]) \cup Elements(queues[1]) \cup Elements(queues[2])
    <3> HIDE DEF two
    <3>1. Elements(two) \cap Elements(queues[2]) = {}
      BY <1>1, <2>2, <2>3
    <3> QED
      BY <2>1, <2>3, <3>1, JoinLemma
  <2>5. Elements(queues[0]) \cup Elements(queues[1]) \cup Elements(queues[2]) = Queued
    BY <1>1, Zenon DEF Queued
  <2>6. all \in Seq(Procs) /\ Distinct(all) /\ Elements(all) = X
    <3> HIDE DEF three
    <3>1. Elements(three) \cap Elements(Arriving) = {}
      BY <2>4, <2>5, ArrivedLists, WhoContends, Zenon DEF Ready
    <3>2. Arriving \in Seq(Procs) /\ Distinct(Arriving) /\ Elements(Arriving) = Arrivals
      BY ArrivedLists, Zenon
    <3> QED
      BY <2>4, <2>5, <3>1, <3>2, JoinLemma
  <2>7. qs = [queues EXCEPT ![0] = all, ![1] = <<>>, ![2] = <<>>]
    BY <1>3, Zenon DEF BoostedQueues
  <2> HIDE DEF all, qs
  <2>8. qs = [l \in Levels |-> IF l = 0 THEN all ELSE <<>>]
    <3>1. queues = [l \in Levels |-> queues[l]] /\ \A l \in Levels : l = 0 \/ l = 1 \/ l = 2
      BY <1>1, Zenon
    <3>2. qs = [l \in Levels |-> IF l = 2 THEN <<>> ELSE IF l = 1 THEN <<>> ELSE IF l = 0 THEN all ELSE queues[l]]
      BY <1>1, <2>7, <3>1, Zenon
    <3> QED
      BY <3>1, <3>2
  <2>9. <<>> \in Seq(Procs) /\ Distinct(<<>>) /\ Elements(<<>>) = {}
    BY EmptyList DEF Distinct, Elements
  <2>10. qs \in [Levels -> Seq(Procs)] /\ \A l \in Levels : Distinct(qs[l])
    BY <2>6, <2>8, <2>9, Zenon
  <2>11. \A x \in X : Level(x) = 0
    BY <1>3, Zenon DEF Level, Boosted
  <2>12. ASSUME NEW x \in Procs, NEW l \in Levels
         PROVE  x \in Elements(qs[l]) <=> x \in X /\ level[x] = l
    <3>1. CASE l = 0
      BY <1>2, <2>6, <2>8, <2>11, <3>1, Zenon
    <3>2. CASE l # 0
      BY <1>2, <2>8, <2>9, <2>11, <3>2, Zenon
    <3> QED
      BY <3>1, <3>2, Zenon
  <2>13. Holds(qs, X, level)
    BY <2>10, <2>12, Zenon DEF Holds
  <2> QED
    BY <2>13, Zenon DEF qs
<1>4. CASE ~Boosting
  <2>1. qs = [queues EXCEPT ![0] = Arrived]
    BY <1>4, Zenon DEF BoostedQueues, TopQueue
  <2> HIDE DEF qs
  <2>2. qs = [l \in Levels |-> IF l = 0 THEN Arrived ELSE queues[l]]
    BY <1>1, <2>1, Zenon
  <2>3. qs \in [Levels -> Seq(Procs)] /\ \A l \in Levels : Distinct(qs[l])
    BY <1>1, <2>2, ArrivedLists, Zenon
  <2>4. ASSUME NEW x \in X PROVE Level(x) = CurrentQueue[x] /\ (x \in Arrivals => Level(x) = 0)
    <3>1. x \in Arrivals => CurrentQueue[x] = 0
      BY WhoContends, Zenon DEF PlaceInv, Sound
    <3> QED
      BY <1>4, <3>1, Zenon DEF Level, Boosted
  <2>5. ASSUME NEW x \in Procs, NEW l \in Levels
        PROVE  x \in Elements(queues[l]) <=> x \in Queued /\ CurrentQueue[x] = l
    BY WhoContends, Zenon DEF PlaceInv, Holds
  <2>6. ASSUME NEW x \in Procs, NEW l \in Levels
        PROVE  x \in Elements(qs[l]) <=> x \in X /\ level[x] = l
    <3>1. x \in X => level[x] = CurrentQueue[x] /\ (x \in Arrivals => level[x] = 0)
      BY <1>2, <2>4, Zenon
    <3>2. CASE l = 0
      BY <2>2, <2>5, <3>1, <3>2, ArrivedLists, Zenon
    <3>3. CASE l # 0
      BY <2>2, <2>5, <3>1, <3>3, Zenon
    <3> QED
      BY <3>2, <3>3, Zenon
  <2>7. Holds(qs, X, level)
    BY <2>3, <2>6, Zenon DEF Holds
  <2> QED
    BY <2>7, Zenon DEF qs
<1> QED
  BY <1>3, <1>4, Zenon

(* The queues that MLFQ dispatches from. *)
LEMMA ReadyHolds ==
  ASSUME LibraryFacts, PlaceInv
  PROVE  Holds(ReadyQueues, IF Off THEN Contenders ELSE Contenders \ {running},
               [x \in Procs |-> LevelAfter(x)])
<1> DEFINE after == [x \in Procs |-> LevelAfter(x)]
<1>1. \A x \in Procs : after[x] \in Levels /\ (x # running => after[x] = Level(x))
  BY LevelFacts, Zenon
<1>2. Contenders \ {running} = Queued \cup Arrivals
  BY WhoContends, Zenon
<1> HIDE DEF after
<1>3. Holds(BoostedQueues, Contenders \ {running}, after)
  BY <1>1, <1>2, BoostHolds, Zenon
<1>4. CASE Off
  <2>1. running # None
    BY <1>4, Zenon DEF Off, Spent
  <2>2. running \in Procs /\ running \in Contenders
    BY <2>1, WhoContends, Zenon DEF Contenders
  <2>3. after[running] = LevelAfter(running)
    BY <2>2, Zenon DEF after
  <2>4. ReadyQueues = [BoostedQueues EXCEPT ![after[running]] = Append(@, running)]
    BY <1>4, <2>3, Zenon DEF ReadyQueues
  <2>5. (Contenders \ {running}) \cup {running} = Contenders
    BY <2>2, Zenon
  <2>6. Holds(ReadyQueues, (Contenders \ {running}) \cup {running}, after)
    BY <1>1, <1>3, <2>2, <2>4, PutAtEnd, Zenon
  <2> QED
    BY <1>4, <2>5, <2>6, Zenon DEF after
<1>5. CASE ~Off
  BY <1>3, <1>5, Zenon DEF ReadyQueues, after
<1> QED
  BY <1>4, <1>5, Zenon

(* Nobody is over its allotment, and whoever is not running is below it. *)
AllotInv ==
  \A x \in Procs :
    /\ AllotmentUsed[x] <= LevelAllotment[CurrentQueue[x]]
    /\ State[x] \in {"NEW", "READY"} => AllotmentUsed[x] < LevelAllotment[CurrentQueue[x]]

(* The allotments are 4, 8 and 16 ticks. *)
LEMMA Allotments ==
  \A l \in Levels : LevelAllotment[l] \in Nat /\ LevelAllotment[l] > 0
BY DEF Levels, LevelAllotment

(* The accounts after a tick of MLFQ in which p runs. *)
LEMMA AccountStep ==
  ASSUME PlaceInv, AllotInv, NEW p \in Contenders, NEW qs, NEW slice, Serve(p, qs, slice),
         CurrentQueue' = [x \in Procs |-> LevelAfter(x)]
  PROVE  AllotInv'
<1>1. p \in Procs /\ Run(p, qs, slice) /\ \A x \in Contenders : State[x] # "TERMINATED"
  BY WhoContends, Zenon DEF Serve
<1>2. ASSUME NEW x \in Procs
      PROVE  /\ CurrentQueue'[x] = LevelAfter(x) /\ LevelAfter(x) \in Levels /\ UsedAfter(x) \in Nat
             /\ AllotmentUsed'[x] = IF x = p THEN UsedAfter(x) + 1 ELSE UsedAfter(x)
             /\ LevelAllotment[LevelAfter(x)] \in Nat
  BY LevelFacts, Allotments, Zenon DEF Serve
<1>3. ASSUME NEW x \in Contenders
      PROVE  x \in Procs /\ UsedAfter(x) < LevelAllotment[LevelAfter(x)]
  <2>1. x \in Procs /\ Level(x) \in Levels /\ Used(x) \in Nat
    BY LevelFacts, WhoContends, Zenon
  <2>2. CASE x = running
    <3>1. x # None
      BY <2>1, ProcFacts, Zenon
    <3>2. CASE Spent
      BY <1>2, <2>1, <2>2, <3>2, Allotments, Zenon DEF UsedAfter, LevelAfter
    <3>3. CASE ~Spent
      <4>1. Used(x) < LevelAllotment[Level(x)]
        BY <2>1, <2>2, <3>1, <3>3, Allotments DEF Spent
      <4>2. UsedAfter(x) = Used(x) /\ LevelAfter(x) = Level(x)
        BY <3>3, Zenon DEF UsedAfter, LevelAfter
      <4> QED
        BY <2>1, <4>1, <4>2, Zenon
    <3> QED
      BY <3>2, <3>3, Zenon
  <2>3. CASE x # running
    <3>1. UsedAfter(x) = Used(x) /\ LevelAfter(x) = Level(x)
      BY <2>1, <2>3, LevelFacts, Zenon
    <3>2. State[x] \in {"NEW", "READY"}
      BY <2>1, <2>3, WhoContends, Zenon DEF Contenders, Ready
    <3>3. CASE x \in Boosted \cup Arrivals
      BY <2>1, <3>1, <3>3, Allotments, Zenon DEF Used, ResetAllotments
    <3>4. CASE x \notin Boosted \cup Arrivals
      BY <2>1, <3>1, <3>2, <3>4, Zenon DEF Used, Level, ResetAllotments, AllotInv
    <3> QED
      BY <3>3, <3>4, Zenon
  <2> QED
    BY <2>2, <2>3, Zenon
<1>4. ASSUME NEW x \in Procs
      PROVE  /\ AllotmentUsed'[x] <= LevelAllotment[CurrentQueue'[x]]
             /\ State'[x] \in {"NEW", "READY"} => AllotmentUsed'[x] < LevelAllotment[CurrentQueue'[x]]
  <2>1. CASE x = p
    <3>1. State'[x] \notin {"NEW", "READY"}
      BY <1>1, <2>1, RunAssigns, Zenon
    <3> QED
      BY <1>2, <1>3, <2>1, <3>1
  <2>2. CASE x # p /\ x \in Contenders
    BY <1>2, <1>3, <2>2
  <2>3. CASE x # p /\ x \notin Contenders
    <3>1. LevelAfter(x) = CurrentQueue[x] /\ UsedAfter(x) = AllotmentUsed[x]
      BY <2>3, LevelFacts, Zenon
    <3>2. State'[x] = State[x]
      BY <1>1, <2>3, RunAssigns, ProcFacts, Zenon DEF Contenders
    <3> QED
      BY <1>2, <2>3, <3>1, <3>2, Zenon DEF AllotInv
  <2> QED
    BY <2>1, <2>2, <2>3, Zenon
<1> QED
  BY <1>4, Zenon DEF AllotInv

(* A process is charged for the time it runs, on the account of its level. *)
Charged(x) ==
  LET ran == RemainingTime[x] - RemainingTime'[x] IN
  State[x] \in {"READY", "RUNNING"} =>
    \/ AllotmentUsed'[x] = AllotmentUsed[x] + ran
    \/ /\ AllotmentUsed'[x] = ran
       /\ \/ CurrentQueue'[x] # CurrentQueue[x]
          \/ ticksSinceBoost' = 0
          \/ CurrentQueue[x] = 2 /\ AllotmentUsed[x] = LevelAllotment[2]

ChargeStep == \A x \in Procs : Charged(x)

(* If nobody on an account runs, nobody is charged. *)
LEMMA NoCharge ==
  ASSUME PlaceInv, AllotmentUsed' = AllotmentUsed,
         \A x \in Procs : State[x] # "NEW" => RemainingTime'[x] = RemainingTime[x]
  PROVE  ChargeStep
<1>1. ASSUME NEW x \in Procs PROVE Charged(x)
  <2>1. AllotmentUsed[x] \in Nat /\ RemainingTime[x] \in Nat
    BY Zenon DEF PlaceInv, TypeOK
  <2> QED
    BY <2>1 DEF Charged
<1> QED
  BY <1>1, Zenon DEF ChargeStep

(* A tick of MLFQ in which p runs charges p. *)
LEMMA ServeCharges ==
  ASSUME PlaceInv, AllotInv, NEW p \in Contenders, NEW qs, NEW slice, Serve(p, qs, slice),
         CurrentQueue' = [x \in Procs |-> LevelAfter(x)],
         ticksSinceBoost' = IF Boosting THEN 0 ELSE ticksSinceBoost + 1
  PROVE  ChargeStep
<1>1. ASSUME NEW x \in Procs, State[x] \in {"READY", "RUNNING"} PROVE Charged(x)
  <2> DEFINE ran == RemainingTime[x] - RemainingTime'[x]
  <2>1. /\ AllotmentUsed[x] \in Nat /\ RemainingTime[x] \in Nat /\ CurrentQueue[x] \in Levels
        /\ Level(x) \in Levels /\ Used(x) \in Nat /\ UsedAfter(x) \in Nat
        /\ CurrentQueue'[x] = LevelAfter(x)
    BY <1>1, LevelFacts, Zenon DEF PlaceInv, TypeOK
  <2>2. ran \in Int /\ AllotmentUsed'[x] = UsedAfter(x) + ran
    <3>1. /\ AllotmentUsed'[x] = IF x = p THEN UsedAfter(x) + 1 ELSE UsedAfter(x)
          /\ RemainingTime'[x] = IF x = p THEN RemainingTime[x] - 1 ELSE RemainingTime[x]
      BY RunAssigns, Zenon DEF Serve
    <3> QED
      BY <2>1, <3>1
  <2>3. CASE x \in Boosted
    <3>1. ticksSinceBoost' = 0 /\ Used(x) = 0
      BY <2>3, Zenon DEF Boosted, Used, ResetAllotments
    <3>2. UsedAfter(x) = 0
      BY <3>1, Zenon DEF UsedAfter
    <3> HIDE DEF ran
    <3>3. AllotmentUsed'[x] = ran
      BY <2>1, <2>2, <3>2
    <3> QED
      BY <3>1, <3>3, Zenon DEF Charged, ran
  <2>4. CASE x \notin Boosted
    <3>1. x \notin Arrivals
      BY <1>1, Zenon DEF Arrivals
    <3>2. Level(x) = CurrentQueue[x] /\ Used(x) = AllotmentUsed[x]
      BY <2>4, <3>1, Zenon DEF Level, Used, ResetAllotments
    <3>3. CASE x = running /\ Spent
      <4>1. UsedAfter(x) = 0 /\ AllotmentUsed[x] >= LevelAllotment[CurrentQueue[x]]
        BY <3>2, <3>3, Zenon DEF UsedAfter, Spent
      <4>2. AllotmentUsed[x] = LevelAllotment[CurrentQueue[x]]
        BY <2>1, <4>1, Allotments DEF AllotInv
      <4>3. CurrentQueue'[x] # CurrentQueue[x] \/ CurrentQueue[x] = 2
        BY <2>1, <3>2, <3>3 DEF LevelAfter, Levels
      <4> HIDE DEF ran
      <4>4. AllotmentUsed'[x] = ran
        BY <2>1, <2>2, <4>1
      <4> QED
        BY <4>2, <4>3, <4>4, Zenon DEF Charged, ran
    <3>4. CASE ~(x = running /\ Spent)
      BY <2>2, <3>2, <3>4, Zenon DEF UsedAfter, Charged
    <3> QED
      BY <3>3, <3>4, Zenon
  <2> QED
    BY <2>3, <2>4, Zenon
<1> QED
  BY <1>1, Zenon DEF ChargeStep, Charged

(* The ticks of MLFQ. *)
LEMMA MLFQShape ==
  ASSUME LibraryFacts, PlaceInv, MLFQTick
  PROVE  TickShape /\ (AllotInv => AllotInv' /\ ChargeStep)
<1> DEFINE qs == ReadyQueues
           after == [x \in Procs |-> LevelAfter(x)]
           X == IF Off THEN Contenders ELSE Contenders \ {running}
<1>1. CurrentQueue' = after /\ after \in [Procs -> Levels]
  BY LevelFacts, Zenon DEF MLFQTick
<1>2. ticksSinceBoost' \in 0..BoostPeriod
  <2>1. ticksSinceBoost \in 0..BoostPeriod /\ BoostPeriod \in Nat
    BY ProcFacts, Zenon DEF PlaceInv, TypeOK
  <2> QED
    BY <2>1 DEF MLFQTick, Boosting
<1>3. Holds(qs, X, after)
  BY ReadyHolds, Zenon
<1>4. ASSUME AllotmentUsed' \in [Procs -> Nat],
             \A x \in Procs \ Contenders : AllotmentUsed'[x] = UsedAfter(x)
      PROVE  LevelsStep
  <2>1. \A x \in Procs \ Contenders : /\ after[x] = CurrentQueue[x]
                                      /\ AllotmentUsed'[x] = AllotmentUsed[x]
    BY <1>4, LevelFacts, Zenon
  <2>2. Policy = "MLFQ"
    BY Zenon DEF MLFQTick
  <2> QED
    BY <1>1, <1>2, <1>4, <2>1, <2>2, Zenon DEF LevelsStep
<1>5. ASSUME NEW p \in Contenders, NEW rest, NEW slice, Serve(p, rest, slice) PROVE LevelsStep
  <2>1. AllotmentUsed' = [x \in Procs |-> IF x = p THEN UsedAfter(x) + 1 ELSE UsedAfter(x)]
    BY <1>5, Zenon DEF Serve
  <2>2. AllotmentUsed' \in [Procs -> Nat]
    BY <2>1, LevelFacts
  <2> QED
    BY <1>4, <2>1, <2>2, Zenon
<1>6. ASSUME NEW p \in Contenders, NEW rest, NEW slice \in Nat, Serve(p, rest, slice),
             Holds(rest, Contenders \ {p}, after)
      PROVE  TickShape /\ (AllotInv => AllotInv' /\ ChargeStep)
  <2>1. LevelsStep /\ Run(p, rest, slice) /\ rest \in [Levels -> Seq(Procs)]
    BY <1>5, <1>6, Zenon DEF Serve, Holds
  <2>2. TickShape
    BY <1>1, <1>6, <2>1, Zenon DEF TickShape
  <2>3. AllotInv => AllotInv'
    BY <1>1, <1>6, AccountStep, Zenon
  <2>4. AllotInv => ChargeStep
    BY <1>1, <1>6, ServeCharges, Zenon DEF MLFQTick
  <2> QED
    BY <2>2, <2>3, <2>4, Zenon
<1>7. running # None => running \in Contenders
  BY Zenon DEF Contenders
<1>8. CASE running # None /\ ~Off /\ Serve(running, qs, currentSlice)
  <2>1. currentSlice \in Nat
    BY Zenon DEF PlaceInv, TypeOK
  <2>2. Holds(qs, Contenders \ {running}, after)
    BY <1>3, <1>8, Zenon
  <2> HIDE DEF qs, after
  <2> QED
    BY <1>6, <1>7, <1>8, <2>1, <2>2, Zenon
<1>9. running = None \/ Off => X = Contenders
  BY WhoContends, ProcFacts, Zenon
<1>10. CASE (running = None \/ Off) /\ (\E l \in Levels : qs[l] # <<>>) /\ ServeTop(qs)
  <2> HIDE DEF qs, after, X
  <2>1. PICK l \in Levels : l = TopLevel(qs) /\ qs[l] # <<>>
    <3>1. \E l \in Levels : qs[l] # <<>> /\ \A m \in 0..(l - 1) : qs[m] = <<>>
      <4>1. CASE qs[0] # <<>>
        <5>1. 0 \in Levels /\ \A m \in 0..(0 - 1) : qs[m] = <<>>
          BY DEF Levels
        <5> QED
          BY <4>1, <5>1, Zenon
      <4>2. CASE qs[0] = <<>> /\ qs[1] # <<>>
        <5>1. 1 \in Levels /\ \A m \in 0..(1 - 1) : m = 0
          BY DEF Levels
        <5> QED
          BY <4>2, <5>1, Zenon
      <4>3. CASE qs[0] = <<>> /\ qs[1] = <<>>
        <5>1. 2 \in Levels /\ (\A m \in 0..(2 - 1) : m = 0 \/ m = 1) /\ qs[2] # <<>>
          BY <1>10, <4>3 DEF Levels
        <5> QED
          BY <4>3, <5>1, Zenon
      <4> QED
        BY <4>1, <4>2, <4>3, Zenon
    <3> QED
      BY <3>1, Zenon DEF TopLevel
  <2> DEFINE p == Head(qs[l])
             rest == [qs EXCEPT ![l] = Tail(@)]
  <2>2. Serve(p, rest, 0)
    BY <1>10, <2>1, Zenon DEF ServeTop
  <2>3. p \in X /\ Holds(rest, X \ {p}, after)
    BY <1>3, <2>1, TakeHead, Zenon
  <2> HIDE DEF p, rest
  <2> QED
    BY <1>6, <1>9, <1>10, <2>2, <2>3, Zenon
<1>11. CASE running = None /\ (\A l \in Levels : qs[l] = <<>>) /\ Idle /\ UNCHANGED AllotmentUsed
  <2> HIDE DEF qs, X
  <2>1. X = {}
    <3>1. Elements(<<>>) = {}
      BY EmptyList DEF Elements
    <3>2. \A x \in Procs : x \notin X
      BY <1>1, <1>3, <1>11, <3>1, Zenon DEF Holds
    <3> QED
      BY <1>9, <1>11, <3>2, WhoContends, Zenon
  <2>2. Contenders = {}
    BY <1>9, <1>11, <2>1, Zenon
  <2>3. LevelsStep
    <3>1. AllotmentUsed \in [Procs -> Nat]
      BY Zenon DEF PlaceInv, TypeOK
    <3>2. \A x \in Procs : UsedAfter(x) = AllotmentUsed[x]
      BY <2>2, LevelFacts, Zenon
    <3> QED
      BY <1>4, <1>11, <3>1, <3>2, Zenon
  <2>4. CurrentQueue' = CurrentQueue /\ State' = State
    BY <1>11, <2>2, <2>3, IdlePlaces, Zenon DEF Idle
  <2>5. ChargeStep
    BY <1>11, NoCharge, Zenon DEF Idle
  <2> QED
    BY <1>11, <2>2, <2>3, <2>4, <2>5, Zenon DEF TickShape, AllotInv
<1> QED
  BY <1>8, <1>10, <1>11, Zenon DEF MLFQTick

-----------------------------------------------------------------------------
(***************************************************************************)
(* How far a process has come is how long it has been in the system: every *)
(* tick since its arrival it has waited or run, and in the tick of its     *)
(* dispatch both.                                                          *)
(***************************************************************************)
TimesInv ==
  \A x \in Procs :
    /\ State[x] = "READY" =>
         BurstTime[x] - RemainingTime[x] + WaitingTime[x] = totalTime - ArrivalTime[x]
    /\ State[x] = "RUNNING" =>
         BurstTime[x] - RemainingTime[x] + WaitingTime[x] = totalTime - ArrivalTime[x] + 1
    /\ State[x] = "TERMINATED" =>
         FinishTime[x] - ArrivalTime[x] = BurstTime[x] + WaitingTime[x] - 1

(* The numbers of a process. *)
LEMMA Numbers ==
  ASSUME PlaceInv, NEW x \in Procs
  PROVE  /\ RemainingTime[x] \in Int /\ WaitingTime[x] \in Int /\ BurstTime[x] \in Int
         /\ ArrivalTime[x] \in Int /\ FinishTime[x] \in Int /\ StartTime[x] \in Int
         /\ totalTime \in Int /\ added \in Int /\ x \in Int
<1>1. BurstTime[x] \in Bursts \cup {0}
  BY Zenon DEF PlaceInv, TypeOK
<1>2. BurstTime[x] \in Int
  <2>1. \A b \in Bursts \cup {0} : b \in Int
    BY ProcFacts
  <2> QED
    BY <1>1, <2>1, Zenon
<1>3. /\ RemainingTime[x] \in Nat /\ WaitingTime[x] \in 0..MaxTime /\ ArrivalTime[x] \in 0..MaxArrival
      /\ FinishTime[x] \in -1..MaxTime /\ StartTime[x] \in -1..MaxTime
  BY Zenon DEF PlaceInv, TypeOK
<1>4. added \in 0..NumProcs /\ totalTime \in 0..MaxTime
  BY Zenon DEF PlaceInv, TypeOK
<1> QED
  BY <1>2, <1>3, <1>4, ProcFacts

(* Every tick is accounted for. *)
LEMMA TimesStep ==
  ASSUME PlaceInv, TimesInv, NEW p \in Contenders, NEW qs, NEW slice, Run(p, qs, slice)
  PROVE  TimesInv'
<1>1. ASSUME NEW x \in Procs
      PROVE  /\ State'[x] = "READY" =>
                  BurstTime[x] - RemainingTime'[x] + WaitingTime'[x] = totalTime + 1 - ArrivalTime[x]
             /\ State'[x] = "RUNNING" =>
                  BurstTime[x] - RemainingTime'[x] + WaitingTime'[x] = totalTime + 1 - ArrivalTime[x] + 1
             /\ State'[x] = "TERMINATED" =>
                  FinishTime'[x] - ArrivalTime[x] = BurstTime[x] + WaitingTime'[x] - 1
  <2>1. /\ RemainingTime[x] \in Int /\ WaitingTime[x] \in Int /\ BurstTime[x] \in Int
        /\ ArrivalTime[x] \in Int /\ FinishTime[x] \in Int /\ totalTime \in Int
    BY Numbers, Zenon
  <2>2. x = running => State[x] = "RUNNING"
    BY Zenon DEF PlaceInv, Sound
  <2>3. x \in Queued <=> State[x] = "READY"
    BY WhoContends, Zenon DEF Ready
  <2>4. x \in Arrivals =>
          State[x] = "NEW" /\ ArrivalTime[x] = totalTime /\ RemainingTime[x] = BurstTime[x] /\ WaitingTime[x] = 0
    BY WhoContends, Zenon DEF PlaceInv, Sound
  <2>5. CASE x \in Arrivals
    BY <2>1, <2>3, <2>4, <2>5, RunAssigns DEF Finishes
  <2>6. CASE x \in Queued
    <3>1. x # running /\ x \notin Arrivals
      BY <2>2, <2>3, <2>4, <2>6, Zenon
    <3>2. BurstTime[x] - RemainingTime[x] + WaitingTime[x] = totalTime - ArrivalTime[x]
      BY <2>3, <2>6, Zenon DEF TimesInv
    <3>3. WaitingTime'[x] = WaitingTime[x] + 1
      BY <2>6, RunAssigns, Zenon
    <3>4. CASE x = p
      <4>1. RemainingTime'[x] = RemainingTime[x] - 1 /\ State'[x] # "READY"
        BY <3>4, RunAssigns, Zenon
      <4>2. State'[x] = "TERMINATED" => RemainingTime[x] = 1 /\ FinishTime'[x] = totalTime + 1
        BY <3>4, RunAssigns, Zenon DEF Finishes
      <4> QED
        BY <2>1, <3>2, <3>3, <4>1, <4>2
    <3>5. CASE x # p
      <4>1. RemainingTime'[x] = RemainingTime[x] /\ State'[x] = "READY"
        BY <2>3, <2>6, <3>1, <3>5, RunAssigns, Zenon
      <4> QED
        BY <2>1, <3>2, <3>3, <4>1
    <3> QED
      BY <3>4, <3>5, Zenon
  <2>7. CASE x = running
    <3>1. x \notin Queued /\ x \notin Arrivals
      BY <2>2, <2>3, <2>4, <2>7, Zenon
    <3> QED
      BY <2>1, <2>2, <2>7, <3>1, RunAssigns DEF Finishes, TimesInv
  <2>8. CASE x \notin Contenders
    <3>1. x # p /\ x # running /\ x \notin Queued /\ x \notin Arrivals
      BY <2>8, ProcFacts, Zenon DEF Contenders
    <3>2. State'[x] = State[x] /\ State[x] \notin {"READY", "RUNNING"}
      BY <2>3, <3>1, RunAssigns, ZenonT(30) DEF PlaceInv, Sound
    <3> QED
      BY <3>1, <3>2, RunAssigns, Zenon DEF TimesInv
  <2> QED
    BY <2>5, <2>6, <2>7, <2>8, Zenon DEF Contenders
<1>2. totalTime' = totalTime + 1 /\ BurstTime' = BurstTime /\ ArrivalTime' = ArrivalTime
  BY Zenon DEF Run
<1>3. ASSUME NEW x \in Procs
      PROVE  /\ State'[x] = "READY" =>
                  BurstTime'[x] - RemainingTime'[x] + WaitingTime'[x] = totalTime' - ArrivalTime'[x]
             /\ State'[x] = "RUNNING" =>
                  BurstTime'[x] - RemainingTime'[x] + WaitingTime'[x] = totalTime' - ArrivalTime'[x] + 1
             /\ State'[x] = "TERMINATED" =>
                  FinishTime'[x] - ArrivalTime'[x] = BurstTime'[x] + WaitingTime'[x] - 1
  <2>1. BurstTime'[x] = BurstTime[x] /\ ArrivalTime'[x] = ArrivalTime[x]
    BY <1>2, Zenon
  <2>2. /\ State'[x] = "READY" =>
             BurstTime[x] - RemainingTime'[x] + WaitingTime'[x] = totalTime + 1 - ArrivalTime[x]
        /\ State'[x] = "RUNNING" =>
             BurstTime[x] - RemainingTime'[x] + WaitingTime'[x] = totalTime + 1 - ArrivalTime[x] + 1
        /\ State'[x] = "TERMINATED" =>
             FinishTime'[x] - ArrivalTime[x] = BurstTime[x] + WaitingTime'[x] - 1
    BY <1>1, Zenon
  <2>0. totalTime \in Int /\ ArrivalTime[x] \in Int
    BY Numbers, Zenon
  <2>3. State'[x] = "READY" =>
          BurstTime'[x] - RemainingTime'[x] + WaitingTime'[x] = totalTime' - ArrivalTime'[x]
    <3>1. totalTime' - ArrivalTime'[x] = totalTime + 1 - ArrivalTime[x]
      BY <1>2, <2>0, <2>1
    <3> QED
      BY <2>1, <2>2, <3>1, Zenon
  <2>4. State'[x] = "RUNNING" =>
          BurstTime'[x] - RemainingTime'[x] + WaitingTime'[x] = totalTime' - ArrivalTime'[x] + 1
    <3>1. totalTime' - ArrivalTime'[x] + 1 = totalTime + 1 - ArrivalTime[x] + 1
      BY <1>2, <2>0, <2>1
    <3> QED
      BY <2>1, <2>2, <3>1, Zenon
  <2>5. State'[x] = "TERMINATED" =>
          FinishTime'[x] - ArrivalTime'[x] = BurstTime'[x] + WaitingTime'[x] - 1
    BY <2>1, <2>2, Zenon
  <2> QED
    BY <2>3, <2>4, <2>5, Zenon
<1> QED
  BY <1>3, Zenon DEF TimesInv

(* A tick with nobody to run finds nobody whose time would count. *)
LEMMA TimesIdle ==
  ASSUME PlaceInv, TimesInv, Contenders = {}, Idle
  PROVE  TimesInv'
<1>1. \A x \in Procs : State[x] \notin {"READY", "RUNNING"}
  BY WhoContends, ProcFacts DEF Contenders, Ready, PlaceInv, Sound
<1> QED
  BY <1>1, Zenon DEF Idle, TimesInv

-----------------------------------------------------------------------------
(* No more elements than there are to choose from. *)
LEMMA DistinctLength ==
  ASSUME LibraryFacts, NEW S, IsFiniteSet(S), NEW q \in Seq(S), Distinct(q)
  PROVE  Len(q) <= Cardinality(S)
<1>1. PICK n \in Nat : n = Len(q) /\ q \in [1..n -> S]
  BY LengthOfSeq, Zenon
<1>2. IsFiniteSet(1..n) /\ Cardinality(1..n) = n
  BY CountInterval
<1>3. Elements(q) \in SUBSET S /\ q \in [1..n -> Elements(q)]
  BY <1>1, Zenon DEF Elements
<1>4. \A y \in Elements(q) : \E i \in 1..n : q[i] = y
  BY <1>1, Zenon DEF Elements
<1>5. \A i, j \in 1..n : q[i] = q[j] => i = j
  BY <1>1, Zenon DEF Distinct
<1>6. IsFiniteSet(Elements(q)) /\ Cardinality(Elements(q)) = n
  BY <1>2, <1>3, <1>4, <1>5, CountBijection, Zenon
<1> QED
  BY <1>1, <1>3, <1>6, CountSubset, Zenon

(* What is left of the running process's quantum. *)
Left == IF running = None THEN 0 ELSE Quantum - currentSlice

(* The ticks since the arrival of a process. *)
Elapsed(x) == totalTime - ArrivalTime[x]

(***************************************************************************)
(* Round robin.  A process that has not run yet and is i-th in the queue   *)
(* has at most the rest of the running quantum and i - 1 quanta to wait;   *)
(* with the time it has waited that is a quantum for each of the others.   *)
(***************************************************************************)
RRInv ==
  Policy = "RR" =>
    /\ currentSlice <= Quantum
    /\ \A x \in Procs : State[x] \in {"RUNNING", "TERMINATED"} => StartTime[x] # -1
    /\ \A x \in Procs : StartTime[x] # -1 => StartTime[x] - ArrivalTime[x] <= (added - 1) * Quantum
    /\ \A i \in 1..Len(queues[0]) :
         StartTime[queues[0][i]] = -1 =>
           Elapsed(queues[0][i]) + (i - 1) * Quantum + Left <= (added - 1) * Quantum

(* More turns take no less time. *)
LEMMA MoreTurns ==
  ASSUME NEW a \in Int, NEW b \in Int, a <= b, NEW Q \in Nat
  PROVE  a * Q <= b * Q /\ a * Q \in Int /\ b * Q \in Int
<1>1. a * Q \in Int /\ b * Q \in Int /\ (b - a) * Q = b * Q - a * Q
  OBVIOUS
<1>2. (b - a) * Q >= 0
  OBVIOUS
<1> QED
  BY <1>1, <1>2

(* Process p runs, and those of the list q are served after it in turn. *)
LEMMA RRRun ==
  ASSUME PlaceInv, RRInv, Policy = "RR", NEW p \in Contenders, NEW q \in Seq(Procs), p \notin Elements(q),
         NEW slice \in Nat, slice < Quantum, Run(p, TopQueue(q), slice),
         StartTime[p] = -1 => Elapsed(p) <= (added - 1) * Quantum,
         \A i \in 1..Len(q) :
           StartTime[q[i]] = -1 =>
             Elapsed(q[i]) + (i - 1) * Quantum + (Quantum - slice) <= (added - 1) * Quantum
  PROVE  RRInv'
<1>1. /\ p \in Procs /\ Quantum \in Nat /\ added \in Int /\ totalTime \in Int /\ totalTime >= 0
      /\ running' \in {p, None} /\ currentSlice' = IF Finishes(p) THEN 0 ELSE slice + 1
      /\ running' = IF Finishes(p) THEN None ELSE p
  <2>1. p \in Procs /\ Quantum \in Nat
    BY WhoContends, ProcFacts, Zenon
  <2>2. added \in 0..NumProcs /\ totalTime \in 0..MaxTime
    BY Zenon DEF PlaceInv, TypeOK
  <2>3. running' = IF Finishes(p) THEN None ELSE p
    BY Zenon DEF Run
  <2>4. currentSlice' = IF Finishes(p) THEN 0 ELSE slice + 1
    BY Zenon DEF Run, HasSlices
  <2> QED
    BY <2>1, <2>2, <2>3, <2>4, ProcFacts
<1>2. /\ totalTime' = totalTime + 1 /\ ArrivalTime' = ArrivalTime /\ added' = added
      /\ queues' = TopQueue(q)
  BY Zenon DEF Run
<1>3. queues'[0] = q
  BY <1>2 DEF TopQueue, PlaceInv, TypeOK, Levels
<1>4. currentSlice' \in Nat /\ currentSlice' <= Quantum
  BY <1>1
<1>5. Left' \in Int /\ Left' <= Quantum - slice - 1
  BY <1>1, ProcFacts DEF Left
<1>6. ASSUME NEW x \in Procs, State'[x] \in {"RUNNING", "TERMINATED"} PROVE StartTime'[x] # -1
  <2>1. CASE x = p
    BY <1>1, <2>1, RunAssigns
  <2>2. CASE x # p
    <3>1. State[x] \in {"RUNNING", "TERMINATED"}
      BY <1>6, <2>2, RunAssigns, Zenon
    <3> QED
      BY <2>2, <3>1, RunAssigns, Zenon DEF RRInv
  <2> QED
    BY <2>1, <2>2, Zenon
<1>7. ASSUME NEW x \in Procs, StartTime'[x] # -1
      PROVE  StartTime'[x] - ArrivalTime[x] <= (added - 1) * Quantum
  <2>1. CASE x = p /\ StartTime[x] = -1
    <3>1. StartTime'[x] = totalTime
      BY <2>1, RunAssigns, Zenon
    <3> QED
      BY <2>1, <3>1, Zenon DEF Elapsed
  <2>2. CASE ~(x = p /\ StartTime[x] = -1)
    BY <1>7, <2>2, RunAssigns, Zenon DEF RRInv
  <2> QED
    BY <2>1, <2>2, Zenon
<1>8. ASSUME NEW i \in 1..Len(q), StartTime'[q[i]] = -1
      PROVE  Elapsed(q[i])' + (i - 1) * Quantum + Left' <= (added - 1) * Quantum
  <2>1. q[i] \in Procs /\ q[i] # p
    BY ElementIn, Zenon DEF Elements
  <2>2. StartTime[q[i]] = -1
    BY <1>8, <2>1, RunAssigns, Zenon
  <2>3. Elapsed(q[i])' = Elapsed(q[i]) + 1 /\ Elapsed(q[i]) \in Int
    <3>1. PICK x \in Procs : x = q[i]
      BY <2>1, Zenon
    <3>2. ArrivalTime[x] \in Int /\ ArrivalTime'[x] = ArrivalTime[x]
      BY <1>2, Numbers, Zenon
    <3>3. Elapsed(x)' = totalTime' - ArrivalTime'[x] /\ Elapsed(x) = totalTime - ArrivalTime[x]
      BY Zenon DEF Elapsed
    <3>4. totalTime' = totalTime + 1 /\ totalTime \in Int
      BY <1>1, <1>2, Zenon
    <3>5. Elapsed(x)' = Elapsed(x) + 1 /\ Elapsed(x) \in Int
      BY <3>2, <3>3, <3>4
    <3> QED
      BY <3>1, <3>5, Zenon
  <2>4. PICK w \in Int : w = (i - 1) * Quantum
    BY <1>1
  <2>5. PICK b \in Int : b = (added - 1) * Quantum
    BY <1>1
  <2>6. Elapsed(q[i]) + w + (Quantum - slice) <= b
    BY <2>2, <2>4, <2>5, Zenon
  <2>7. Elapsed(q[i])' + w + Left' <= b
    BY <1>1, <1>5, <2>3, <2>6
  <2> QED
    BY <2>4, <2>5, <2>7, Zenon
<1> QED
  BY <1>2, <1>3, <1>4, <1>6, <1>7, <1>8, Zenon DEF RRInv

(* The arrivals take their places behind the queue. *)
LEMMA RRArrived ==
  ASSUME LibraryFacts, PlaceInv, RRInv, Policy = "RR", NEW i \in 1..Len(Arrived),
         StartTime[Arrived[i]] = -1
  PROVE  Elapsed(Arrived[i]) + (i - 1) * Quantum + Left <= (added - 1) * Quantum
<1>0. queues[0] \in Seq(Procs) /\ Arriving \in Seq(Procs)
  <2>1. queues \in [Levels -> Seq(Procs)] /\ 0 \in Levels
    BY DEF PlaceInv, TypeOK, Levels
  <2>2. queues[0] \in Seq(Procs)
    BY <2>1, Zenon
  <2>3. Arriving \in Seq(Procs)
    BY ArrivedLists, Zenon
  <2> QED
    BY <2>2, <2>3, Zenon
<1>1. PICK m \in Nat, n \in Nat : m = Len(queues[0]) /\ n = Len(Arriving)
  BY <1>0, LengthOfSeq, Zenon
<1>2. /\ Len(Arrived) = m + n
      /\ \A k \in 1..(m + n) : Arrived[k] = IF k <= m THEN queues[0][k] ELSE Arriving[k - m]
  BY <1>0, <1>1, ConcatOf, Zenon DEF Arrived
<1>3. CASE i <= m
  <2>1. i \in 1..m /\ Arrived[i] = queues[0][i]
    BY <1>2, <1>3
  <2> QED
    BY <1>1, <2>1, Zenon DEF RRInv
<1>4. CASE i > m
  <2>1. Arrived[i] = Arriving[i - m] /\ i - m \in 1..n
    BY <1>2, <1>4
  <2>2. Arrived[i] \in Arrivals
    <3>1. Arrived[i] \in Elements(Arriving)
      BY <1>1, <2>1, Zenon DEF Elements
    <3> QED
      BY <3>1, ArrivedLists, Zenon
  <2>3. Elapsed(Arrived[i]) = 0
    BY <2>2, WhoContends, Numbers DEF Elapsed
  <2>4. added \in Nat /\ Quantum \in Nat /\ currentSlice \in Nat
    BY ProcFacts DEF PlaceInv, TypeOK
  <2> DEFINE others == (1..added) \ {running}
  <2>5. IsFiniteSet(others) /\ Cardinality(others) = IF running = None THEN added ELSE added - 1
    <3>1. IsFiniteSet(1..added) /\ Cardinality(1..added) = added
      <4>1. PICK a \in Nat : a = added
        BY <2>4, Zenon
      <4>2. 1 \in Int /\ a \in Int /\ a = IF 1 > a THEN 0 ELSE a - 1 + 1
        OBVIOUS
      <4>3. IsFiniteSet(1..a) /\ Cardinality(1..a) = IF 1 > a THEN 0 ELSE a - 1 + 1
        BY <4>2, CountInterval, Zenon
      <4> QED
        BY <4>1, <4>2, <4>3, Zenon
    <3>2. running \in 1..added <=> running # None
      <4>1. running # None => running \in Contenders /\ running \in Procs
        BY WhoContends, Zenon DEF Contenders
      <4> QED
        BY <2>4, <4>1, WhoContends, ProcFacts, SchedulerAssumption DEF Procs
    <3> QED
      BY <3>1, <3>2, CountRemove, Zenon
  <2>6. Arrived \in Seq(others) /\ Distinct(Arrived)
    <3>1. Arrived \in Seq(Procs) /\ Distinct(Arrived) /\ Elements(Arrived) = Contenders \ {running}
      BY SingleQueue, Zenon
    <3>2. Contenders \ {running} \subseteq others
      BY <2>4, WhoContends DEF Procs
    <3>3. PICK k \in Nat : k = Len(Arrived) /\ Arrived \in [1..k -> Procs]
      BY <3>1, LengthOfSeq, Zenon
    <3>4. \A j \in 1..k : Arrived[j] \in others
      BY <3>1, <3>2, <3>3, Zenon DEF Elements
    <3>5. Arrived \in [1..k -> others]
      BY <3>3, <3>4, Zenon
    <3> QED
      BY <3>1, <3>5, ListOf, Zenon
  <2> HIDE DEF others
  <2>7. Len(Arrived) <= Cardinality(others)
    BY <2>5, <2>6, DistinctLength, Zenon
  <2>8. i \in Nat /\ i <= IF running = None THEN added ELSE added - 1
    <3>1. i \in Nat /\ i <= Len(Arrived) /\ Len(Arrived) \in Nat
      BY <1>2
    <3>2. PICK c \in Nat : c = Cardinality(others)
      BY <2>5, CountType, Zenon
    <3> QED
      BY <2>5, <2>7, <3>1, <3>2
  <2>9. CASE running = None
    <3>1. (i - 1) * Quantum <= (added - 1) * Quantum /\ (i - 1) * Quantum \in Int
      BY <2>4, <2>8, <2>9, MoreTurns
    <3> QED
      BY <2>3, <2>9, <3>1 DEF Left
  <2>10. CASE running # None
    <3>1. i * Quantum <= (added - 1) * Quantum /\ i * Quantum \in Int /\ (added - 1) * Quantum \in Int
      BY <2>4, <2>8, <2>10, MoreTurns
    <3>2. (i - 1) * Quantum = i * Quantum - Quantum
      BY <2>4, <2>8
    <3>3. Left = Quantum - currentSlice
      BY <2>10, Zenon DEF Left
    <3> QED
      BY <2>3, <2>4, <3>1, <3>2, <3>3
  <2> QED
    BY <2>9, <2>10, Zenon
<1> QED
  BY <1>1, <1>2, <1>3, <1>4

(* The ticks of round robin. *)
LEMMA RRStep ==
  ASSUME LibraryFacts, PlaceInv, RRInv, RRTick
  PROVE  RRInv'
<1>1. Policy = "RR" /\ Policy # "MLFQ"
  BY Zenon DEF RRTick
<1>2. /\ Quantum \in Nat /\ Quantum >= 1 /\ currentSlice \in Nat /\ currentSlice <= Quantum
      /\ added \in Int
  BY <1>1, ProcFacts DEF PlaceInv, TypeOK, RRInv
<1>3. Arrived \in Seq(Procs) /\ Distinct(Arrived) /\ Elements(Arrived) = Contenders \ {running}
  BY <1>1, SingleQueue, Zenon
<1>4. CASE running # None /\ ~SliceUsedUp
  <2>1. running \in Contenders /\ running \in Procs /\ currentSlice < Quantum /\ StartTime[running] # -1
    BY <1>1, <1>2, <1>4, WhoContends DEF Contenders, SliceUsedUp, RRInv
  <2>2. Run(running, TopQueue(Arrived), currentSlice)
    BY <1>4, Zenon DEF RRTick, DispatchHead
  <2>3. Left = Quantum - currentSlice
    BY <1>4, Zenon DEF Left
  <2>4. \A i \in 1..Len(Arrived) :
          StartTime[Arrived[i]] = -1 =>
            Elapsed(Arrived[i]) + (i - 1) * Quantum + (Quantum - currentSlice) <= (added - 1) * Quantum
    BY <1>1, <2>3, RRArrived, Zenon
  <2>5. running \notin Elements(Arrived)
    BY <1>3, Zenon
  <2> QED
    BY <1>1, <1>2, <1>3, <2>1, <2>2, <2>4, <2>5, RRRun, Zenon
<1>5. CASE running = None \/ SliceUsedUp
  <2> DEFINE q == IF SliceUsedUp THEN Append(Arrived, running) ELSE Arrived
  <2>1. DispatchHead(None, q)
    BY <1>5, Zenon DEF RRTick
  <2>2. Left = 0
    BY <1>2, <1>5 DEF Left, SliceUsedUp
  <2>3. /\ q \in Seq(Procs) /\ Distinct(q) /\ Elements(q) = Contenders
        /\ \A i \in 1..Len(q) : StartTime[q[i]] = -1 => i \in 1..Len(Arrived) /\ q[i] = Arrived[i]
    <3>1. CASE SliceUsedUp
      <4>1. running # None /\ running \in Procs /\ StartTime[running] # -1
        BY <1>1, <3>1, WhoContends, Zenon DEF SliceUsedUp, RRInv
      <4>2. PICK n \in Nat : n = Len(Arrived)
        BY <1>3, LengthOfSeq, Zenon
      <4>3. /\ Len(Append(Arrived, running)) = n + 1 /\ Append(Arrived, running)[n + 1] = running
            /\ \A k \in 1..n : Append(Arrived, running)[k] = Arrived[k]
        BY <1>3, <4>1, <4>2, AppendTo
      <4>4. \A k \in 1..(n + 1) : k = n + 1 \/ k \in 1..n
        OBVIOUS
      <4>5. \A k \in 1..(n + 1) : StartTime[Append(Arrived, running)[k]] = -1 => k \in 1..n
        BY <4>1, <4>3, <4>4, Zenon
      <4> QED
        BY <1>3, <3>1, <4>1, <4>2, <4>3, <4>5, RunningBehind, Zenon
    <3>2. CASE ~SliceUsedUp
      BY <1>3, <1>5, <3>2, WhoContends, ProcFacts, Zenon
    <3> QED
      BY <3>1, <3>2, Zenon
  <2> HIDE DEF q
  <2>4. \A i \in 1..Len(q) :
          StartTime[q[i]] = -1 => Elapsed(q[i]) + (i - 1) * Quantum <= (added - 1) * Quantum
    <3> SUFFICES ASSUME NEW i \in 1..Len(q), StartTime[q[i]] = -1
                 PROVE  Elapsed(q[i]) + (i - 1) * Quantum <= (added - 1) * Quantum
      BY Zenon
    <3>1. i \in 1..Len(Arrived) /\ q[i] = Arrived[i] /\ q[i] \in Procs
      BY <2>3, ElementIn, Zenon
    <3>2. Elapsed(q[i]) + (i - 1) * Quantum + Left <= (added - 1) * Quantum
      BY <1>1, <3>1, RRArrived, Zenon
    <3>3. Elapsed(q[i]) \in Int /\ (i - 1) * Quantum \in Int
      BY <1>2, <3>1, Numbers DEF Elapsed
    <3> QED
      BY <2>2, <3>2, <3>3
  <2>5. CASE q # <<>> /\ Run(Head(q), TopQueue(Tail(q)), 0)
    <3> DEFINE p == Head(q)
               rest == Tail(q)
    <3>1. /\ p \in Contenders /\ p \in Procs /\ rest \in Seq(Procs) /\ p \notin Elements(rest)
      BY <2>3, <2>5, PopLemma, Zenon
    <3>2. PICK n \in Nat : n = Len(q) /\ n >= 1
      BY <2>3, <2>5, EmptyList, LengthOfSeq
    <3>3. p = q[1] /\ Len(rest) = n - 1 /\ \A i \in 1..(n - 1) : rest[i] = q[i + 1]
      BY <2>3, <2>5, <3>2, HeadAndTail
    <3> HIDE DEF p, rest
    <3>4. StartTime[p] = -1 => Elapsed(p) <= (added - 1) * Quantum
      <4>1. 1 \in 1..Len(q) /\ (1 - 1) * Quantum = 0 /\ Elapsed(p) \in Int
        BY <1>2, <3>1, <3>2, Numbers DEF Elapsed
      <4> QED
        BY <2>4, <3>3, <4>1
    <3>5. ASSUME NEW i \in 1..Len(rest), StartTime[rest[i]] = -1
          PROVE  Elapsed(rest[i]) + (i - 1) * Quantum + (Quantum - 0) <= (added - 1) * Quantum
      <4>1. i \in Int /\ i + 1 \in 1..Len(q) /\ rest[i] = q[i + 1] /\ rest[i] \in Procs
        BY <3>1, <3>2, <3>3, ElementIn
      <4>2. Elapsed(rest[i]) + ((i + 1) - 1) * Quantum <= (added - 1) * Quantum
        BY <2>4, <3>5, <4>1, Zenon
      <4>3. ((i + 1) - 1) * Quantum = (i - 1) * Quantum + (Quantum - 0) /\ (i - 1) * Quantum \in Int
        BY <1>2, <4>1
      <4>4. Elapsed(rest[i]) \in Int
        BY <4>1, Numbers DEF Elapsed
      <4> QED
        BY <1>2, <4>2, <4>3, <4>4
    <3>6. Run(p, TopQueue(rest), 0) /\ 0 < Quantum
      BY <1>2, <2>5 DEF p, rest
    <3> QED
      BY <1>1, <1>2, <3>1, <3>4, <3>5, <3>6, RRRun, Zenon
  <2>6. CASE q = <<>> /\ Idle
    <3>1. Contenders = {}
      BY <2>3, <2>6, EmptyList DEF Elements
    <3>2. Len(queues[0]) = 0
      <4>1. queues[0] \in Seq(Procs) /\ 0 \in Levels
        BY DEF Levels, PlaceInv, TypeOK
      <4>2. Elements(queues[0]) \subseteq Contenders
        BY <4>1, Zenon DEF Contenders, Queued
      <4> QED
        <5>1. PICK n \in Nat : n = Len(queues[0])
          BY <4>1, LengthOfSeq, Zenon
        <5>2. \A k \in 1..n : queues[0][k] \in Contenders
          BY <4>2, <5>1, Zenon DEF Elements
        <5>3. 1 \notin 1..n
          BY <3>1, <5>2, Zenon
        <5> QED
          BY <5>1, <5>3
    <3> QED
      BY <1>1, <2>6, <3>2 DEF Idle, RRInv
  <2> QED
    BY <2>1, <2>5, <2>6, Zenon DEF DispatchHead
<1> QED
  BY <1>4, <1>5, Zenon

(* A process that is added lets the others wait for a quantum more. *)
LEMMA RRAdd ==
  ASSUME PlaceInv, RRInv, NEW arrival \in 0..MaxArrival, NEW burst \in Bursts, AddProcess(arrival, burst)
  PROVE  RRInv'
<1>1. SUFFICES ASSUME Policy = "RR" PROVE RRInv'
  BY Zenon DEF AddProcess, RRInv
<1>2. UNCHANGED <<Policy, State, StartTime, queues, running, currentSlice, totalTime>>
  BY Zenon DEF AddProcess
<1>3. added' = added + 1 /\ added \in Int /\ Quantum \in Nat /\ totalTime \in Int
  BY ProcFacts DEF AddProcess, PlaceInv, TypeOK
<1>4. PICK b \in Int, c \in Int : b = (added - 1) * Quantum /\ c = (added' - 1) * Quantum /\ b <= c
  BY <1>3, MoreTurns
<1>5. ASSUME NEW x \in Procs, State[x] # "NEW" PROVE ArrivalTime'[x] = ArrivalTime[x]
  <2>1. x <= added /\ x \in Int
    BY <1>5, Numbers DEF PlaceInv, Sound
  <2> QED
    BY <1>3, <2>1 DEF AddProcess, PlaceInv, TypeOK
<1>6. \A x \in Procs : StartTime[x] # -1 => State[x] # "NEW"
  BY Zenon DEF PlaceInv, Sound
<1>7. ASSUME NEW x \in Procs, StartTime[x] # -1 PROVE StartTime[x] - ArrivalTime'[x] <= c
  <2>1. StartTime[x] - ArrivalTime[x] <= b /\ StartTime[x] \in Int /\ ArrivalTime[x] \in Int
    BY <1>1, <1>4, <1>7, Numbers, Zenon DEF RRInv
  <2>2. ArrivalTime'[x] = ArrivalTime[x]
    BY <1>5, <1>6, <1>7, Zenon
  <2>3. b <= c
    BY <1>4, Zenon
  <2> QED
    BY <2>1, <2>2, <2>3
<1>8. ASSUME NEW i \in 1..Len(queues[0]), StartTime[queues[0][i]] = -1
      PROVE  Elapsed(queues[0][i])' + (i - 1) * Quantum + Left' <= c
  <2> DEFINE x == queues[0][i]
  <2>1. x \in Procs /\ State[x] # "NEW"
    <3>1. x \in Elements(queues[0]) /\ 0 \in Levels
      BY DEF Elements, Levels
    <3>2. x \in Ready
      BY <3>1, WhoContends, Zenon DEF Queued
    <3> QED
      BY <3>2, Zenon DEF Ready
  <2>2. Elapsed(x) + (i - 1) * Quantum + Left <= b
    BY <1>1, <1>4, <1>8, Zenon DEF RRInv
  <2>3. Elapsed(x)' = Elapsed(x) /\ Left' = Left
    BY <1>2, <1>5, <2>1, Zenon DEF Elapsed, Left
  <2>4. Elapsed(x) \in Int /\ (i - 1) * Quantum \in Int /\ Left \in Int
    <3>1. Elapsed(x) \in Int
      BY <2>1, Numbers DEF Elapsed
    <3>2. currentSlice \in Int /\ Quantum \in Int
      BY <1>3, ProcFacts DEF PlaceInv, TypeOK
    <3>3. Left \in Int /\ (i - 1) * Quantum \in Int
      BY <3>2 DEF Left
    <3> QED
      BY <3>1, <3>3, Zenon
  <2> HIDE DEF x
  <2>5. PICK w \in Int : w = (i - 1) * Quantum
    BY <2>4, Zenon
  <2>6. Elapsed(x)' + w + Left' <= c
    BY <1>4, <2>2, <2>3, <2>4, <2>5
  <2> QED
    BY <1>2, <2>5, <2>6, Zenon DEF x
<1> QED
  BY <1>1, <1>2, <1>4, <1>7, <1>8, Zenon DEF RRInv

-----------------------------------------------------------------------------
(* Whoever runs has the least time left of those who are ready or running. *)
ShortestStep ==
  \A p, x \in Procs :
    (RemainingTime'[p] < RemainingTime[p] /\ State'[x] \in {"READY", "RUNNING"})
      => RemainingTime[p] <= RemainingTime[x]

(* The contender with the least time left runs. *)
LEMMA LeastRuns ==
  ASSUME PlaceInv, NEW p \in Contenders, NEW qs, NEW slice, Run(p, qs, slice),
         \A x \in Contenders : RemainingTime[p] <= RemainingTime[x]
  PROVE  ShortestStep
<1>1. ASSUME NEW y \in Procs, RemainingTime'[y] < RemainingTime[y] PROVE y = p
  <2>1. RemainingTime[y] \in Int
    BY Numbers, Zenon
  <2> QED
    BY <1>1, <2>1, RunAssigns
<1>2. ASSUME NEW x \in Procs, State'[x] \in {"READY", "RUNNING"} PROVE x \in Contenders
  <2>1. CASE x = p \/ x = running \/ x \in Arrivals
    BY <2>1, ProcFacts, Zenon DEF Contenders
  <2>2. CASE ~(x = p \/ x = running \/ x \in Arrivals)
    <3>1. State[x] \in {"READY", "RUNNING"} /\ Sound(x)
      BY <1>2, <2>2, RunAssigns, Zenon DEF PlaceInv
    <3>2. State[x] = "READY"
      BY <2>2, <3>1, Zenon DEF Sound
    <3> QED
      BY <3>2, WhoContends, Zenon DEF Contenders, Ready
  <2> QED
    BY <2>1, <2>2, Zenon
<1> QED
  BY <1>1, <1>2, Zenon DEF ShortestStep

(* The ticks of STCF. *)
LEMMA STCFStep ==
  ASSUME LibraryFacts, PlaceInv, STCFTick
  PROVE  ShortestStep
<1> DEFINE q == SortStable(Arrived, RemainingTime)
           preempts == running # None /\ q # <<>> /\ RemainingTime[Head(q)] < RemainingTime[running]
<1>1. IF preempts THEN DispatchHead(None, Append(q, running)) ELSE DispatchHead(running, q)
  BY Zenon DEF STCFTick
<1>2. Arrived \in Seq(Procs) /\ Distinct(Arrived) /\ Elements(Arrived) = Contenders \ {running}
  BY SingleQueue, Zenon DEF STCFTick
<1>3. RemainingTime \in [Procs -> Int]
  BY DEF PlaceInv, TypeOK
<1>4. PICK n \in Nat : n = Len(Arrived)
  BY <1>2, LengthOfSeq, Zenon
<1>5. /\ q \in Seq(Procs) /\ Len(q) = n /\ Elements(q) = Contenders \ {running}
      /\ \A j, k \in 1..n : j < k => RemainingTime[q[j]] <= RemainingTime[q[k]]
  BY <1>2, <1>3, <1>4, Sorts, Zenon
<1> HIDE DEF q
<1>6. ASSUME q # <<>>
      PROVE  /\ Head(q) \in Contenders /\ n >= 1 /\ Head(q) = q[1]
             /\ \A x \in Contenders \ {running} : RemainingTime[Head(q)] <= RemainingTime[x]
  <2>1. n >= 1
    BY <1>5, <1>6, EmptyList
  <2>2. Head(q) = q[1] /\ Head(q) \in Elements(q)
    BY <1>5, <2>1 DEF Elements
  <2>3. ASSUME NEW x \in Elements(q) PROVE RemainingTime[q[1]] <= RemainingTime[x]
    <3>1. PICK k \in 1..n : x = q[k]
      BY <1>5, Zenon DEF Elements
    <3>2. x \in Procs /\ RemainingTime[x] \in Int
      BY <1>3, <1>5, <3>1, ElementIn, Zenon
    <3>3. CASE k = 1
      BY <3>1, <3>2, <3>3
    <3>4. CASE k > 1
      BY <1>5, <2>1, <3>1, <3>4
    <3> QED
      BY <3>3, <3>4
  <2> QED
    BY <1>5, <2>1, <2>2, <2>3, Zenon
<1>7. \A x \in Contenders : RemainingTime[x] \in Int
  BY <1>3, WhoContends, Zenon
<1>8. CASE preempts
  <2>1. running \in Procs /\ running # None /\ q # <<>>
    BY <1>8, WhoContends, Zenon
  <2>2. Append(q, running) # <<>> /\ Head(Append(q, running)) = Head(q)
    <3>1. /\ Len(Append(q, running)) = n + 1 /\ Append(q, running) # <<>>
          /\ \A k \in 1..n : Append(q, running)[k] = q[k]
      BY <1>5, <2>1, AppendTo
    <3>2. Append(q, running)[1] = q[1]
      BY <1>6, <2>1, <3>1
    <3> QED
      BY <1>6, <2>1, <3>1, <3>2
  <2>3. Run(Head(q), TopQueue(Tail(Append(q, running))), 0)
    BY <1>1, <1>8, <2>2, Zenon DEF DispatchHead
  <2>4. Head(q) \in Contenders /\ running \in Contenders
    BY <1>6, <2>1, Zenon DEF Contenders
  <2>5. \A x \in Contenders : RemainingTime[Head(q)] <= RemainingTime[x]
    BY <1>6, <1>7, <1>8, <2>4
  <2> QED
    BY <2>3, <2>4, <2>5, LeastRuns, Zenon
<1>9. CASE ~preempts /\ running # None
  <2>1. Run(running, TopQueue(q), currentSlice) /\ running \in Contenders
    BY <1>1, <1>9, Zenon DEF DispatchHead, Contenders
  <2>2. ASSUME NEW x \in Contenders PROVE RemainingTime[running] <= RemainingTime[x]
    <3>1. CASE q = <<>>
      <4>1. Contenders \ {running} = {}
        BY <1>5, <3>1, EmptyList DEF Elements
      <4> QED
        BY <1>7, <4>1
    <3>2. CASE q # <<>>
      <4>1. RemainingTime[running] <= RemainingTime[Head(q)] /\ Head(q) \in Contenders
        BY <1>6, <1>7, <1>9, <2>1, <3>2
      <4> QED
        BY <1>6, <1>7, <2>1, <3>2, <4>1
    <3> QED
      BY <3>1, <3>2, Zenon
  <2> QED
    BY <2>1, <2>2, LeastRuns, Zenon
<1>10. CASE ~preempts /\ running = None
  <2>1. Contenders \ {running} = Contenders
    BY <1>10, WhoContends, ProcFacts, Zenon
  <2>2. CASE q # <<>> /\ Run(Head(q), TopQueue(Tail(q)), 0)
    BY <1>6, <2>1, <2>2, LeastRuns, Zenon
  <2>3. CASE Idle
    <3>1. \A y \in Procs : RemainingTime'[y] = RemainingTime[y] /\ RemainingTime[y] \in Int
      BY <1>3, <2>3, Zenon DEF Idle
    <3> QED
      BY <3>1 DEF ShortestStep
  <2> QED
    BY <1>1, <1>10, <2>2, <2>3, Zenon DEF DispatchHead
<1> QED
  BY <1>8, <1>9, <1>10, Zenon

-----------------------------------------------------------------------------
(* All that holds of the schedulers at every moment. *)
SchedInv == PlaceInv /\ TimesInv /\ AllotInv /\ RRInv

(* It holds at the start. *)
LEMMA SchedInit ==
  ASSUME Init
  PROVE  SchedInv
<1>1. TypeOK
  <2>1. /\ <<>> \in Seq(Procs) /\ 0 \in Levels
        /\ NumProcs \in Nat /\ MaxArrival \in Nat /\ MaxTime \in Nat /\ BoostPeriod \in Nat
    BY EmptyList, ProcFacts DEF Levels
  <2>2. /\ queues \in [Levels -> Seq(Procs)] /\ completed \in Seq(Procs)
        /\ running \in Procs \cup {None} /\ Policy \in Policies
    BY <2>1, Zenon DEF Init
  <2>3. /\ State \in [Procs -> {"NEW", "READY", "RUNNING", "TERMINATED"}]
        /\ CurrentQueue \in [Procs -> Levels] /\ AllotmentUsed \in [Procs -> Nat]
        /\ BurstTime \in [Procs -> Bursts \cup {0}]
    BY <2>1, Zenon DEF Init
  <2> QED
    BY <2>1, <2>2, <2>3 DEF Init, TypeOK
<1>2. Elements(<<>>) = {} /\ Distinct(<<>>) /\ Len(<<>>) = 0
  BY EmptyList DEF Elements, Distinct
<1>3. Holds(queues, Ready, CurrentQueue)
  BY <1>1, <1>2, Zenon DEF Init, Holds, Ready, TypeOK
<1>4. ASSUME NEW x \in Procs PROVE Sound(x)
  BY <1>2, ProcFacts DEF Init, Sound, Procs
<1>5. PlaceInv
  BY <1>1, <1>2, <1>3, <1>4 DEF PlaceInv, Init
<1>6. TimesInv
  BY Zenon DEF Init, TimesInv
<1>7. AllotInv
  BY Allotments DEF Init, AllotInv, Levels
<1>8. RRInv
  BY <1>2, ProcFacts DEF Init, RRInv, Levels
<1> QED
  BY <1>5, <1>6, <1>7, <1>8, Zenon DEF SchedInv

(* The processor idles in a tick only if nobody is ready after it. *)
WorkStep ==
  totalTime' # totalTime /\ busyTime' = busyTime => \A p \in Procs : State'[p] # "READY"

(* Every tick keeps it, and is a tick of TickShape. *)
LEMMA SchedTick ==
  ASSUME LibraryFacts, SchedInv, Tick
  PROVE  /\ SchedInv' /\ WorkStep /\ (Policy = "STCF" => ShortestStep)
         /\ Policy = "MLFQ" => ChargeStep
<1>1. PlaceInv /\ TimesInv /\ AllotInv /\ RRInv
  BY Zenon DEF SchedInv
<1>2. TickShape
  BY <1>1, SingleQueueShape, MLFQShape, Zenon DEF Tick
<1>3. PlaceInv'
  BY <1>1, <1>2, ShapePlaces, Zenon
<1>4. TimesInv'
  BY <1>1, <1>2, TimesStep, TimesIdle, Zenon DEF TickShape
<1>5. Policy' = Policy
  BY <1>2, Zenon DEF TickShape, Run, Idle
<1>6. AllotInv'
  <2>1. CASE MLFQTick
    BY <1>1, <2>1, MLFQShape, Zenon
  <2>2. CASE ~MLFQTick
    <3>1. Policy' # "MLFQ"
      BY <1>5, <2>2, Zenon DEF Tick, FIFOTick, RRTick, SJFTick, STCFTick, LotteryTick
    <3>2. \A x \in Procs : AllotmentUsed'[x] = 0 /\ CurrentQueue'[x] = 0 /\ 0 \in Levels
      BY <1>3, <3>1 DEF PlaceInv, Sound, Levels
    <3> QED
      BY <3>2, Allotments DEF AllotInv
  <2> QED
    BY <2>1, <2>2, Zenon
<1>7. RRInv'
  <2>1. CASE RRTick
    BY <1>1, <2>1, RRStep, Zenon
  <2>2. CASE ~RRTick
    <3>1. Policy # "RR"
      BY <2>2, Zenon DEF Tick, FIFOTick, SJFTick, STCFTick, LotteryTick, MLFQTick
    <3> QED
      BY <1>5, <3>1, Zenon DEF RRInv
  <2> QED
    BY <2>1, <2>2, Zenon
<1>8. WorkStep
  <2>1. CASE Contenders = {} /\ Idle
    <3>1. \A x \in Procs : State[x] # "READY"
      BY <1>1, <2>1, WhoContends, Zenon DEF Contenders, Ready
    <3> QED
      BY <2>1, <3>1, Zenon DEF Idle, WorkStep
  <2>2. ASSUME NEW p, NEW qs, NEW slice, Run(p, qs, slice) PROVE WorkStep
    <3>1. busyTime \in Int /\ busyTime' = busyTime + 1
      BY <1>1, <2>2 DEF Run, PlaceInv, TypeOK
    <3> QED
      BY <3>1 DEF WorkStep
  <2> QED
    BY <1>2, <2>1, <2>2, Zenon DEF TickShape
<1>9. Policy = "STCF" => ShortestStep
  <2>1. Policy = "STCF" => STCFTick
    BY Zenon DEF Tick, FIFOTick, RRTick, SJFTick, LotteryTick, MLFQTick
  <2> QED
    BY <1>1, <2>1, STCFStep, Zenon
<1>10. Policy = "MLFQ" => ChargeStep
  <2>1. Policy = "MLFQ" => MLFQTick
    BY Zenon DEF Tick, FIFOTick, RRTick, SJFTick, STCFTick, LotteryTick
  <2> QED
    BY <1>1, <2>1, MLFQShape, Zenon
<1> QED
  BY <1>3, <1>4, <1>6, <1>7, <1>8, <1>9, <1>10, Zenon DEF SchedInv

(* So does AddProcess. *)
LEMMA SchedAdd ==
  ASSUME SchedInv, NEW arrival \in 0..MaxArrival, NEW burst \in Bursts, AddProcess(arrival, burst)
  PROVE  SchedInv' /\ WorkStep /\ ShortestStep /\ ChargeStep
<1>1. PlaceInv /\ TimesInv /\ AllotInv /\ RRInv
  BY Zenon DEF SchedInv
<1>2. PlaceInv' /\ RRInv'
  BY <1>1, AddPlaces, RRAdd, Zenon
<1>3. UNCHANGED <<State, WaitingTime, FinishTime, CurrentQueue, AllotmentUsed, totalTime>>
  BY Zenon DEF AddProcess, levels
<1>4. AllotInv'
  BY <1>1, <1>3, Zenon DEF AllotInv
<1>5. ASSUME NEW x \in Procs, State[x] # "NEW"
      PROVE  /\ ArrivalTime'[x] = ArrivalTime[x] /\ BurstTime'[x] = BurstTime[x]
             /\ RemainingTime'[x] = RemainingTime[x]
  <2>1. x <= added /\ x \in Int /\ added \in Int
    BY <1>1, <1>5, Numbers DEF PlaceInv, Sound
  <2> QED
    BY <1>1, <2>1 DEF AddProcess, PlaceInv, TypeOK
<1>6. TimesInv'
  BY <1>1, <1>3, <1>5, Zenon DEF TimesInv
<1>7. WorkStep
  BY <1>3, Zenon DEF WorkStep
<1>8. ASSUME NEW x \in Procs PROVE ~(RemainingTime'[x] < RemainingTime[x])
  <2>1. RemainingTime \in [Procs -> Nat] /\ added \in Nat /\ burst \in Nat /\ x \in Nat
    BY <1>1, ProcFacts DEF PlaceInv, TypeOK
  <2>2. CASE x = added + 1
    <3>1. RemainingTime[x] = 0
      BY <1>1, <2>1, <2>2 DEF PlaceInv, Sound
    <3>2. RemainingTime'[x] = burst
      BY <2>1, <2>2, Zenon DEF AddProcess
    <3> QED
      BY <2>1, <3>1, <3>2
  <2>3. CASE x # added + 1
    BY <2>1, <2>3 DEF AddProcess
  <2> QED
    BY <2>2, <2>3, Zenon
<1>9. ChargeStep
  BY <1>1, <1>3, <1>5, NoCharge, Zenon
<1> QED
  BY <1>1, <1>2, <1>4, <1>6, <1>7, <1>8, <1>9, Zenon DEF SchedInv, ShortestStep

(* And a step of the other component. *)
LEMMA SchedStutter ==
  ASSUME SchedInv, UNCHANGED vars
  PROVE  SchedInv'
<1>1. UNCHANGED <<Policy, added, State, ArrivalTime, BurstTime, RemainingTime, StartTime, FinishTime,
                  WaitingTime, CurrentQueue, AllotmentUsed, ticksSinceBoost, queues, running,
                  currentSlice, completed, busyTime, totalTime>>
  BY Zenon DEF vars, levels
<1>2. PlaceInv'
  <2>1. TypeOK'
    BY <1>1, Zenon DEF SchedInv, PlaceInv, TypeOK
  <2>2. \A x \in Procs : Sound(x)'
    BY <1>1, Zenon DEF SchedInv, PlaceInv, Sound
  <2> QED
    BY <1>1, <2>1, <2>2, Zenon DEF SchedInv, PlaceInv, Ready
<1>3. TimesInv' /\ AllotInv'
  BY <1>1, Zenon DEF SchedInv, TimesInv, AllotInv
<1>4. RRInv'
  BY <1>1, Zenon DEF SchedInv, RRInv, Left, Elapsed
<1> QED
  BY <1>2, <1>3, <1>4, Zenon DEF SchedInv

(* What the invariant says in the terms of module Scheduler. *)
LEMMA SchedMeans ==
  ASSUME SchedInv
  PROVE  TypeOK /\ OnePlace /\ TimesAddUp /\ AllotmentKept /\ RoundRobinResponse
<1>1. OnePlace
  BY Zenon DEF SchedInv, PlaceInv, Sound, Holds, Ready, OnePlace
<1>2. TimesAddUp
  <2> SUFFICES ASSUME NEW p \in Procs, State[p] = "TERMINATED"
               PROVE  WaitingTime[p] = ReadyTicks(p) + 1
    BY Zenon DEF TimesAddUp
  <2>1. /\ FinishTime[p] \in Int /\ ArrivalTime[p] \in Int
        /\ BurstTime[p] \in Int /\ WaitingTime[p] \in Int
    BY Numbers, Zenon DEF SchedInv
  <2>2. FinishTime[p] - ArrivalTime[p] = BurstTime[p] + WaitingTime[p] - 1
    BY Zenon DEF SchedInv, TimesInv
  <2> QED
    BY <2>1, <2>2, SMTT(30) DEF ReadyTicks
<1>3. AllotmentKept
  BY Zenon DEF SchedInv, AllotInv, AllotmentKept
<1>4. RoundRobinResponse
  BY Zenon DEF SchedInv, RRInv, RoundRobinResponse
<1> QED
  BY <1>1, <1>2, <1>3, <1>4, Zenon DEF SchedInv, PlaceInv

=============================================================================
