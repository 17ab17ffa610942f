---------------------------- MODULE BasicLemmas ----------------------------
(***************************************************************************)
(* Facts that the proofs of several components need: what Append, \o,      *)
(* SubSeq, Head and Tail return, the lists of sync.Cond, and counting.     *)
(***************************************************************************)
EXTENDS Lists, TLAPS

(* The length of a sequence, and its elements. *)
LEMMA LengthOfSeq ==
  ASSUME NEW S, NEW list \in Seq(S)
  PROVE  Len(list) \in Nat /\ DOMAIN list = 1..Len(list) /\ list \in [1..Len(list) -> S]
OBVIOUS

(* Its elements are in S. *)
LEMMA ElementIn ==
  ASSUME NEW S, NEW list \in Seq(S), NEW k \in 1..Len(list)
  PROVE  list[k] \in S
OBVIOUS

(* A list is empty exactly when its length is 0. *)
LEMMA EmptyList ==
  ASSUME NEW S
  PROVE  /\ \A list \in Seq(S) : list # <<>> => Len(list) \in Nat \ {0}
         /\ Len(<<>>) = 0 /\ <<>> \in Seq(S)
OBVIOUS

(* Append adds x at the end. *)
LEMMA AppendTo ==
  ASSUME NEW S, NEW list \in Seq(S), NEW x \in S
  PROVE  /\ Len(Append(list, x)) = Len(list) + 1
         /\ Append(list, x)[Len(list) + 1] = x
         /\ \A k \in 1..Len(list) : Append(list, x)[k] = list[k]
         /\ Append(list, x) # <<>> /\ Append(list, x) \in Seq(S)
<1>1. Append(list, x) \in Seq(S) /\ Len(Append(list, x)) = Len(list) + 1
  OBVIOUS
<1>2. \A k \in 1..Len(list) : Append(list, x)[k] = list[k]
  OBVIOUS
<1>3. Append(list, x)[Len(list) + 1] = x
  OBVIOUS
<1>4. Append(list, x) # <<>>
  <2>1. Len(<<>>) = 0 /\ Len(list) \in Nat
    BY EmptyList, LengthOfSeq
  <2> QED
    BY <1>1, <2>1
<1> QED
  BY <1>1, <1>2, <1>3, <1>4

(* One list after another. *)
LEMMA ConcatOf ==
  ASSUME NEW S, NEW one \in Seq(S), NEW two \in Seq(S)
  PROVE  /\ Len(one \o two) = Len(one) + Len(two) /\ one \o two \in Seq(S)
         /\ \A k \in 1..(Len(one) + Len(two)) :
              (one \o two)[k] = IF k <= Len(one) THEN one[k] ELSE two[k - Len(one)]
OBVIOUS

(* Part of a list. *)
LEMMA PartOf ==
  ASSUME NEW S, NEW list, NEW from \in Int, NEW to \in Int, \A k \in from..to : list[k] \in S
  PROVE  /\ \A k \in 1..(to - from + 1) : SubSeq(list, from, to)[k] = list[from + k - 1]
         /\ Len(SubSeq(list, from, to)) = IF from <= to THEN to - from + 1 ELSE 0
         /\ SubSeq(list, from, to) \in Seq(S)
OBVIOUS

(* The first element, and the others. *)
LEMMA HeadAndTail ==
  ASSUME NEW S, NEW list \in Seq(S), list # <<>>
  PROVE  /\ \A k \in 1..Len(Tail(list)) : Tail(list)[k] = list[k + 1]
         /\ Len(Tail(list)) = Len(list) - 1 /\ Tail(list) \in Seq(S) /\ Head(list) \in S
OBVIOUS

(* What is left of a sequence without its first k elements. *)
LEMMA DropLemma ==
  ASSUME NEW S, NEW s \in Seq(S), NEW m \in Nat, m = Len(s), NEW k \in 0..m
  PROVE  /\ SubSeq(s, k + 1, m) \in Seq(S) /\ Len(SubSeq(s, k + 1, m)) = m - k
         /\ \A i \in 1..(m - k) : SubSeq(s, k + 1, m)[i] = s[k + i]
<1>1. \A i \in (k + 1)..m : s[i] \in S
  BY ElementIn
<1>2. /\ SubSeq(s, k + 1, m) \in Seq(S)
      /\ Len(SubSeq(s, k + 1, m)) = IF k + 1 <= m THEN m - (k + 1) + 1 ELSE 0
      /\ \A i \in 1..(m - (k + 1) + 1) : SubSeq(s, k + 1, m)[i] = s[(k + 1) + i - 1]
  BY <1>1, PartOf
<1>3. \A i \in 1..(m - k) : i \in 1..(m - (k + 1) + 1) /\ (k + 1) + i - 1 = k + i
  OBVIOUS
<1> QED
  BY <1>2, <1>3

(* A sequence without its element i is one shorter, and the elements behind *)
(* i move up.                                                               *)
LEMMA RemoveLemma ==
  ASSUME NEW S, NEW s \in Seq(S), NEW m \in Nat, m = Len(s), NEW i \in 1..m
  PROVE  /\ Removed(s, i) \in Seq(S) /\ Len(Removed(s, i)) = m - 1
         /\ \A j \in 1..(m - 1) : Removed(s, i)[j] = IF j < i THEN s[j] ELSE s[j + 1]
<1> DEFINE front == SubSeq(s, 1, i - 1)
           back == SubSeq(s, i + 1, m)
<1>1. /\ front \in Seq(S) /\ Len(front) = i - 1
      /\ \A j \in 1..(i - 1) : front[j] = s[j]
  <2>1. \A j \in 1..(i - 1) : s[j] \in S
    BY ElementIn
  <2>2. /\ SubSeq(s, 1, i - 1) \in Seq(S)
        /\ Len(SubSeq(s, 1, i - 1)) = IF 1 <= i - 1 THEN (i - 1) - 1 + 1 ELSE 0
        /\ \A j \in 1..((i - 1) - 1 + 1) : SubSeq(s, 1, i - 1)[j] = s[1 + j - 1]
    BY <2>1, PartOf
  <2>3. \A j \in 1..(i - 1) : j \in 1..((i - 1) - 1 + 1) /\ 1 + j - 1 = j
    OBVIOUS
  <2> QED
    BY <2>2, <2>3
<1>2. /\ back \in Seq(S) /\ Len(back) = m - i
      /\ \A j \in 1..(m - i) : back[j] = s[i + j]
  BY DropLemma
<1>3. PICK t : t = Removed(s, i)
  OBVIOUS
<1> HIDE DEF front, back
<1>4. PICK a \in Nat, b \in Nat : a = i - 1 /\ b = m - i
  <2>1. i - 1 \in Nat /\ m - i \in Nat
    OBVIOUS
  <2> QED
    BY <2>1
<1>5. /\ t \in Seq(S) /\ Len(t) = a + b
      /\ \A j \in 1..a : t[j] = front[j]
      /\ \A j \in 1..b : t[a + j] = back[j]
  <2>1. t = front \o back
    BY <1>3 DEF Removed, front, back
  <2>2. front \in Seq(S) /\ back \in Seq(S) /\ Len(front) = a /\ Len(back) = b
    BY <1>1, <1>2, <1>4
  <2>3. /\ t \in Seq(S) /\ Len(t) = a + b
        /\ \A j \in 1..(a + b) : t[j] = IF j <= a THEN front[j] ELSE back[j - a]
    BY <2>1, <2>2, ConcatOf
  <2>4. /\ \A j \in 1..a : j \in 1..(a + b) /\ j <= a
        /\ \A j \in 1..b : a + j \in 1..(a + b) /\ ~(a + j <= a) /\ (a + j) - a = j
    OBVIOUS
  <2> QED
    BY <2>3, <2>4
<1>6. ASSUME NEW j \in 1..(m - 1), j >= i PROVE t[j] = s[j + 1]
  <2>1. j - a \in 1..b /\ a + (j - a) = j /\ i + (j - a) = j + 1
    BY <1>4, <1>6
  <2>2. t[a + (j - a)] = back[j - a] /\ back[j - a] = s[i + (j - a)]
    BY <1>2, <1>4, <1>5, <2>1
  <2> QED
    BY <2>1, <2>2
<1>7. ASSUME NEW j \in 1..(m - 1), j < i PROVE t[j] = s[j]
  BY <1>1, <1>4, <1>5, <1>7
<1> QED
  BY <1>3, <1>4, <1>5, <1>6, <1>7

(* Wait appends to the list. *)
LEMMA WaitLemma ==
  ASSUME NEW S, NEW list \in Seq(S), Distinct(list), NEW x \in S
  PROVE  /\ Append(list, x) \in Seq(S) /\ Append(list, x) # <<>>
         /\ Elements(Append(list, x)) = Elements(list) \cup {x}
         /\ x \notin Elements(list) => Distinct(Append(list, x))
<1>1. PICK n \in Nat : n = Len(list)
  BY LengthOfSeq
<1>2. /\ Append(list, x) \in Seq(S) /\ Len(Append(list, x)) = n + 1
      /\ \A i \in 1..n : Append(list, x)[i] = list[i]
      /\ Append(list, x)[n + 1] = x
  BY <1>1, AppendTo
<1>3. Append(list, x) # <<>>
  BY <1>2
<1>4. Elements(Append(list, x)) = Elements(list) \cup {x}
  BY <1>1, <1>2 DEF Elements
<1>5. ASSUME x \notin Elements(list) PROVE Distinct(Append(list, x))
  BY <1>1, <1>2, <1>5 DEF Elements, Distinct
<1> QED
  BY <1>2, <1>3, <1>4, <1>5

(* n calls of Signal take the first n off the list, or everybody. *)
LEMMA SignalLemma ==
  ASSUME NEW S, NEW list \in Seq(S), Distinct(list), NEW n \in Nat
  PROVE  /\ Asleep(list, n) \in Seq(S) /\ Distinct(Asleep(list, n))
         /\ Elements(Asleep(list, n)) = Elements(list) \ Woken(list, n)
         /\ Woken(list, n) \subseteq Elements(list)
         /\ n > 0 /\ list # <<>> => Woken(list, n) # {}
<1>1. PICK len \in Nat : len = Len(list)
  BY LengthOfSeq
<1>2. Woken(list, n) \subseteq Elements(list)
  BY DEF Woken, Elements
<1>3. CASE n >= len
  <2>1. Asleep(list, n) = <<>> /\ Woken(list, n) = Elements(list)
    BY <1>1, <1>3 DEF Asleep, Woken, Elements
  <2>2. Elements(<<>>) = {} /\ Distinct(<<>>) /\ <<>> \in Seq(S)
    BY EmptyList DEF Elements, Distinct
  <2>3. list # <<>> => 1 \in 1..len
    BY <1>1, EmptyList
  <2> QED
    BY <1>1, <1>2, <2>1, <2>2, <2>3 DEF Elements
<1>4. CASE n < len
  <2> DEFINE rest == Asleep(list, n)
  <2>1. rest = SubSeq(list, n + 1, len)
    BY <1>1, <1>4 DEF Asleep
  <2>2. \A i \in (n + 1)..len : list[i] \in S
    BY <1>1, ElementIn
  <2>3. /\ rest \in Seq(S) /\ Len(rest) = len - n
        /\ \A i \in 1..(len - n) : rest[i] = list[n + i]
    BY <1>4, <2>1, <2>2, PartOf
  <2> HIDE DEF rest
  <2>4. Distinct(rest)
    BY <1>1, <1>4, <2>3 DEF Distinct
  <2>5. Elements(rest) = {list[i] : i \in (n + 1)..len}
    <3>1. ASSUME NEW i \in 1..(len - n) PROVE n + i \in (n + 1)..len
      BY <1>1
    <3>2. ASSUME NEW i \in (n + 1)..len PROVE i - n \in 1..(len - n) /\ rest[i - n] = list[i]
      BY <1>1, <2>3
    <3>3. ASSUME NEW x \in Elements(rest) PROVE x \in {list[i] : i \in (n + 1)..len}
      BY <2>3, <3>1 DEF Elements
    <3>4. ASSUME NEW x \in {list[i] : i \in (n + 1)..len} PROVE x \in Elements(rest)
      BY <2>3, <3>2 DEF Elements
    <3> QED
      BY <3>3, <3>4
  <2>6. Woken(list, n) = {list[i] : i \in 1..n}
    BY <1>1, <1>4 DEF Woken
  <2>7. Elements(rest) = Elements(list) \ Woken(list, n)
    <3>1. ASSUME NEW x \in Elements(rest) PROVE x \in Elements(list) \ Woken(list, n)
      <4>1. PICK i \in (n + 1)..len : x = list[i]
        BY <2>5
      <4>2. i \in 1..len /\ \A j \in 1..n : j \in 1..len /\ j # i
        BY <1>1, <1>4
      <4> QED
        BY <1>1, <2>6, <4>1, <4>2 DEF Elements, Distinct
    <3>2. ASSUME NEW x \in Elements(list) \ Woken(list, n) PROVE x \in Elements(rest)
      <4>1. PICK i \in 1..len : x = list[i]
        BY <1>1 DEF Elements
      <4>2. i \notin 1..n
        BY <2>6, <4>1
      <4>3. i \in (n + 1)..len
        BY <4>2
      <4> QED
        BY <2>5, <4>1, <4>3
    <3> QED
      BY <3>1, <3>2
  <2>8. n > 0 => Woken(list, n) # {}
    BY <2>6
  <2> QED
    BY <1>2, <2>3, <2>4, <2>7, <2>8 DEF rest
<1> QED
  BY <1>1, <1>3, <1>4

(* The first of a queue is taken off it. *)
LEMMA PopLemma ==
  ASSUME NEW S, NEW list \in Seq(S), Distinct(list), list # <<>>
  PROVE  /\ Head(list) \in S /\ Head(list) \in Elements(list)
         /\ Tail(list) \in Seq(S) /\ Distinct(Tail(list))
         /\ Len(Tail(list)) = Len(list) - 1
         /\ Elements(Tail(list)) = Elements(list) \ {Head(list)}
<1>1. PICK n \in Nat : n = Len(list) /\ n >= 1
  BY EmptyList, LengthOfSeq
<1>2. /\ Head(list) = list[1] /\ Tail(list) \in Seq(S) /\ Len(Tail(list)) = n - 1
      /\ \A i \in 1..(n - 1) : Tail(list)[i] = list[i + 1]
  BY <1>1, HeadAndTail
<1>3. Head(list) \in S /\ Head(list) \in Elements(list)
  BY <1>1, <1>2, ElementIn DEF Elements
<1>4. Distinct(Tail(list))
  <2> SUFFICES ASSUME NEW i \in 1..(n - 1), NEW j \in 1..(n - 1), Tail(list)[i] = Tail(list)[j]
               PROVE  i = j
    BY <1>2 DEF Distinct
  <2>1. i + 1 \in 1..n /\ j + 1 \in 1..n /\ list[i + 1] = list[j + 1]
    BY <1>1, <1>2
  <2> QED
    BY <1>1, <2>1 DEF Distinct
<1>5. ASSUME NEW x \in Elements(Tail(list)) PROVE x \in Elements(list) \ {Head(list)}
  <2>1. PICK i \in 1..(n - 1) : x = list[i + 1]
    BY <1>2 DEF Elements
  <2>2. i + 1 \in 1..n /\ 1 \in 1..n /\ i + 1 # 1
    BY <1>1
  <2> QED
    BY <1>1, <1>2, <2>1, <2>2 DEF Elements, Distinct
<1>6. ASSUME NEW x \in Elements(list) \ {Head(list)} PROVE x \in Elements(Tail(list))
  <2>1. PICK i \in 1..n : x = list[i]
    BY <1>1 DEF Elements
  <2>2. i - 1 \in 1..(n - 1) /\ Tail(list)[i - 1] = x
    BY <1>1, <1>2, <1>6, <2>1
  <2> QED
    BY <1>2, <2>2 DEF Elements
<1> QED
  BY <1>1, <1>2, <1>3, <1>4, <1>5, <1>6

-----------------------------------------------------------------------------
(* A one-to-one function reaches as many elements as it starts from. *)
BijectionFact ==
  \A S, T, f :
    /\ IsFiniteSet(S) /\ f \in [S -> T]
    /\ \A y \in T : \E x \in S : f[x] = y
    /\ \A x, y \in S : f[x] = f[y] => x = y
    => IsFiniteSet(T) /\ Cardinality(T) = Cardinality(S)

(***************************************************************************)
(* What the library says of finite sets and of the natural numbers, as one *)
(* formula.  The provers look at all that is in scope in every step, so a  *)
(* module that counts takes this formula as a hypothesis, and brings the   *)
(* library in only at its end, where LibraryHolds discharges it.           *)
(***************************************************************************)
LibraryFacts ==
  /\ IsFiniteSet({}) /\ Cardinality({}) = 0
  /\ \A S : IsFiniteSet(S) => Cardinality(S) \in Nat /\ (Cardinality(S) = 0 <=> S = {})
  /\ \A S, x : IsFiniteSet(S) =>
       /\ IsFiniteSet(S \cup {x})
       /\ Cardinality(S \cup {x}) = IF x \in S THEN Cardinality(S) ELSE Cardinality(S) + 1
  /\ \A S, x : IsFiniteSet(S) =>
       /\ IsFiniteSet(S \ {x})
       /\ Cardinality(S \ {x}) = IF x \in S THEN Cardinality(S) - 1 ELSE Cardinality(S)
  /\ \A x : IsFiniteSet({x}) /\ Cardinality({x}) = 1
  /\ \A S : \A T \in SUBSET S : IsFiniteSet(S) =>
       /\ IsFiniteSet(T) /\ Cardinality(T) <= Cardinality(S)
       /\ Cardinality(S) = Cardinality(T) => S = T
  /\ \A a, b \in Int :
       IsFiniteSet(a..b) /\ Cardinality(a..b) = IF a > b THEN 0 ELSE b - a + 1
  /\ \A S, T : IsFiniteSet(S) /\ IsFiniteSet(T) =>
       /\ IsFiniteSet(S \X T)
       /\ Cardinality(S \X T) = Cardinality(S) * Cardinality(T)
  /\ BijectionFact
  /\ \A S \in SUBSET Nat : S # {} => \E x \in S : \A y \in S : x <= y

(* The empty set, and only it, has no elements. *)
LEMMA CountEmpty ==
  ASSUME LibraryFacts
  PROVE  /\ IsFiniteSet({}) /\ Cardinality({}) = 0
         /\ \A S : IsFiniteSet(S) => (Cardinality(S) = 0 <=> S = {})
BY DEF LibraryFacts

(* Elements are counted in natural numbers. *)
LEMMA CountType ==
  ASSUME LibraryFacts, NEW S, IsFiniteSet(S)
  PROVE  Cardinality(S) \in Nat
BY DEF LibraryFacts

(* One element more, if it is a new one. *)
LEMMA CountAdd ==
  ASSUME LibraryFacts, NEW S, NEW x, IsFiniteSet(S)
  PROVE  /\ IsFiniteSet(S \cup {x})
         /\ Cardinality(S \cup {x}) = IF x \in S THEN Cardinality(S) ELSE Cardinality(S) + 1
BY DEF LibraryFacts

(* One element less, if it was there. *)
LEMMA CountRemove ==
  ASSUME LibraryFacts, NEW S, NEW x, IsFiniteSet(S)
  PROVE  /\ IsFiniteSet(S \ {x})
         /\ Cardinality(S \ {x}) = IF x \in S THEN Cardinality(S) - 1 ELSE Cardinality(S)
BY DEF LibraryFacts

(* A set with one element. *)
LEMMA CountSingleton ==
  ASSUME LibraryFacts
  PROVE  \A x : IsFiniteSet({x}) /\ Cardinality({x}) = 1
BY DEF LibraryFacts

(* A part has no more elements than the whole. *)
LEMMA CountSubset ==
  ASSUME LibraryFacts, NEW S, IsFiniteSet(S), NEW T \in SUBSET S
  PROVE  /\ IsFiniteSet(T) /\ Cardinality(T) <= Cardinality(S)
         /\ Cardinality(S) = Cardinality(T) => S = T
BY DEF LibraryFacts

(* An interval of numbers. *)
LEMMA CountInterval ==
  ASSUME LibraryFacts, NEW a \in Int, NEW b \in Int
  PROVE  /\ IsFiniteSet(a..b)
         /\ Cardinality(a..b) = IF a > b THEN 0 ELSE b - a + 1
BY DEF LibraryFacts

(* Pairs. *)
LEMMA CountProduct ==
  ASSUME LibraryFacts, NEW S, IsFiniteSet(S), NEW T, IsFiniteSet(T)
  PROVE  /\ IsFiniteSet(S \X T)
         /\ Cardinality(S \X T) = Cardinality(S) * Cardinality(T)
BY DEF LibraryFacts

(* What a one-to-one function reaches is as many as what it starts from. *)
LEMMA CountBijection ==
  ASSUME LibraryFacts, NEW S, IsFiniteSet(S), NEW T, NEW f \in [S -> T],
         \A y \in T : \E x \in S : f[x] = y,
         \A x, y \in S : f[x] = f[y] => x = y
  PROVE  IsFiniteSet(T) /\ Cardinality(T) = Cardinality(S)
<1>1. BijectionFact
  BY DEF LibraryFacts
<1> QED
  BY <1>1, Zenon DEF BijectionFact

(* Induction over the natural numbers, in terms of sets. *)
LEMMA LeastNatural ==
  ASSUME LibraryFacts, NEW S, S \subseteq Nat, S # {}
  PROVE  \E x \in S : \A y \in S : x <= y
BY DEF LibraryFacts

(* A bounded set of natural numbers has a greatest element. *)
LEMMA GreatestNatural ==
  ASSUME LibraryFacts, NEW S, NEW n \in Nat, S \subseteq 0..n, S # {}
  PROVE  \E x \in S : \A y \in S : y <= x
<1> DEFINE T == {n - x : x \in S}
<1>1. T \subseteq Nat /\ T # {}
  <2>1. \A x \in S : n - x \in Nat
    OBVIOUS
  <2> QED
    BY <2>1
<1>2. PICK m \in T : \A k \in T : m <= k
  BY <1>1, LeastNatural
<1>3. PICK x \in S : m = n - x
  BY <1>2
<1>4. ASSUME NEW y \in S PROVE y <= x
  <2>1. m <= n - y
    BY <1>2
  <2> QED
    BY <1>3, <2>1
<1> QED
  BY <1>4

=============================================================================
