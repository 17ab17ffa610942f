----------------------------- MODULE CPUProofs -----------------------------
(***************************************************************************)
(* Module MCCPU for any values of the constants: the GMP runtime, and the  *)
(* theorems about schedulers and runtime together.                         *)
(***************************************************************************)
EXTENDS MCCPU, SchedulerProofs

-----------------------------------------------------------------------------
(* The runtime uses the same lists. *)
LEMMA SameLists ==
  /\ \A list : GMP!Elements(list) = Elements(list) /\ (GMP!Distinct(list) <=> Distinct(list))
  /\ \A S : GMP!Cardinality(S) = Cardinality(S)
  /\ \A S : GMP!InOrder(S) = InOrder(S)
<1>1. \A list : GMP!Elements(list) = Elements(list) /\ (GMP!Distinct(list) <=> Distinct(list))
  BY Zenon DEF GMP!Elements, Elements, GMP!Distinct, Distinct
<1>2. \A S : GMP!Cardinality(S) = Cardinality(S)
  BY Zenon DEF GMP!Cardinality, Cardinality, GMP!IsFiniteSet, IsFiniteSet
<1>3. \A S : GMP!InOrder(S) = InOrder(S)
  BY Zenon DEF GMP!InOrder, InOrder, GMP!Ranked, Ranked, GMP!Cardinality, Cardinality,
         GMP!IsFiniteSet, IsFiniteSet
<1> QED
  BY <1>1, <1>2, <1>3, Zenon

(* The queues as one function: those of the Ps, and the global one. *)
AllQueues(local, global) == [p \in GMP!Places |-> IF p \in GMP!Ps THEN local[p] ELSE global]

(* The queues hold the goroutines of X, each once. *)
Shared(qs, X) ==
  /\ qs \in [GMP!Places -> Seq(GMP!Gs)]
  /\ \A p \in GMP!Places : Distinct(qs[p])
  /\ \A p, v \in GMP!Places : p # v => Elements(qs[p]) \cap Elements(qs[v]) = {}
  /\ X = UNION {Elements(qs[p]) : p \in GMP!Places}

(* The list at place k is replaced. *)
With(qs, k, list) == [qs EXCEPT ![k] = list]

(* One of the queues is replaced by another list. *)
LEMMA ReplaceQueue ==
  ASSUME NEW qs, NEW X, Shared(qs, X), NEW k \in GMP!Places,
         NEW list \in Seq(GMP!Gs), Distinct(list),
         Elements(list) \cap (X \ Elements(qs[k])) = {}
  PROVE  Shared(With(qs, k, list), (X \ Elements(qs[k])) \cup Elements(list))
<1> DEFINE new == With(qs, k, list)
<1>1. qs \in [GMP!Places -> Seq(GMP!Gs)]
  BY Zenon DEF Shared
<1>2. new = [p \in GMP!Places |-> IF p = k THEN list ELSE qs[p]]
  BY <1>1, Zenon DEF With
<1> HIDE DEF new
<1>3. new \in [GMP!Places -> Seq(GMP!Gs)] /\ \A p \in GMP!Places : Distinct(new[p])
  BY <1>1, <1>2, Zenon DEF Shared
<1>4. ASSUME NEW p \in GMP!Places, p # k
      PROVE  Elements(qs[p]) \subseteq X \ Elements(qs[k]) /\ new[p] = qs[p]
  BY <1>2, <1>4, Zenon DEF Shared
<1>5. ASSUME NEW p \in GMP!Places, NEW v \in GMP!Places, p # v
      PROVE  Elements(new[p]) \cap Elements(new[v]) = {}
  <2>1. CASE p = k
    BY <1>2, <1>4, <1>5, <2>1, Zenon
  <2>2. CASE v = k
    BY <1>2, <1>4, <1>5, <2>2, Zenon
  <2>3. CASE p # k /\ v # k
    BY <1>4, <1>5, <2>3, Zenon DEF Shared
  <2> QED
    BY <2>1, <2>2, <2>3, Zenon
<1>6. (X \ Elements(qs[k])) \cup Elements(list) = UNION {Elements(new[p]) : p \in GMP!Places}
  <2>1. ASSUME NEW g \in X \ Elements(qs[k]) PROVE \E p \in GMP!Places : g \in Elements(new[p])
    <3>1. PICK p \in GMP!Places : g \in Elements(qs[p])
      BY Zenon DEF Shared
    <3> QED
      BY <1>4, <3>1, Zenon
  <2>2. new[k] = list
    BY <1>2, Zenon
  <2>3. ASSUME NEW p \in GMP!Places, NEW g \in Elements(new[p])
        PROVE  g \in (X \ Elements(qs[k])) \cup Elements(list)
    BY <1>4, <2>2, Zenon
  <2> QED
    BY <2>1, <2>2, <2>3, Zenon
<1>7. Shared(new, (X \ Elements(qs[k])) \cup Elements(list))
  BY <1>3, <1>5, <1>6, Zenon DEF Shared
<1> QED
  BY <1>7, Zenon DEF new

(* The parts of a queue in front of and behind its k-th element. *)
LEMMA SplitList ==
  ASSUME NEW S, NEW q \in Seq(S), Distinct(q), NEW k \in Nat, k < Len(q)
  PROVE  /\ q[k + 1] \in S
         /\ SubSeq(q, 1, k) \in Seq(S) /\ Distinct(SubSeq(q, 1, k))
         /\ SubSeq(q, k + 2, Len(q)) \in Seq(S) /\ Distinct(SubSeq(q, k + 2, Len(q)))
         /\ q[k + 1] \notin Elements(SubSeq(q, 1, k)) \cup Elements(SubSeq(q, k + 2, Len(q)))
         /\ Elements(SubSeq(q, 1, k)) \cap Elements(SubSeq(q, k + 2, Len(q))) = {}
         /\ Elements(q) = Elements(SubSeq(q, 1, k)) \cup {q[k + 1]} \cup Elements(SubSeq(q, k + 2, Len(q)))
<1>1. PICK n \in Nat : n = Len(q) /\ k < n
  BY LengthOfSeq, Zenon
<1>2. q \in [1..n -> S] /\ \A i, j \in 1..n : q[i] = q[j] => i = j
  BY <1>1, LengthOfSeq, Zenon DEF Distinct
<1> DEFINE front == SubSeq(q, 1, k)
           back == SubSeq(q, k + 2, n)
<1>3. front \in Seq(S) /\ Len(front) = k /\ \A i \in 1..k : front[i] = q[i]
  <2>1. \A i \in 1..k : q[i] \in S
    BY <1>1, <1>2
  <2>2. /\ front \in Seq(S) /\ Len(front) = IF 1 <= k THEN k - 1 + 1 ELSE 0
        /\ \A i \in 1..(k - 1 + 1) : front[i] = q[1 + i - 1]
    BY <2>1, PartOf
  <2>3. \A i \in 1..k : i \in 1..(k - 1 + 1) /\ 1 + i - 1 = i
    OBVIOUS
  <2> QED
    BY <2>2, <2>3
<1>4. back \in Seq(S) /\ Len(back) = n - (k + 1) /\ \A i \in 1..(n - (k + 1)) : back[i] = q[k + 1 + i]
  <2>1. k + 1 \in 0..n /\ (k + 1) + 1 = k + 2
    BY <1>1
  <2>2. /\ SubSeq(q, (k + 1) + 1, n) \in Seq(S) /\ Len(SubSeq(q, (k + 1) + 1, n)) = n - (k + 1)
        /\ \A i \in 1..(n - (k + 1)) : SubSeq(q, (k + 1) + 1, n)[i] = q[k + 1 + i]
    BY <1>1, <2>1, DropLemma
  <2> QED
    BY <2>1, <2>2, Zenon
<1> HIDE DEF front, back
<1>5. Elements(front) = {q[i] : i \in 1..k}
  BY <1>3, Zenon DEF Elements
<1>6. Elements(back) = {q[i] : i \in (k + 2)..n}
  <2>1. \A i \in 1..(n - (k + 1)) : k + 1 + i \in (k + 2)..n
    BY <1>1
  <2>2. ASSUME NEW i \in (k + 2)..n PROVE q[i] \in Elements(back)
    <3>1. i - (k + 1) \in 1..(n - (k + 1)) /\ k + 1 + (i - (k + 1)) = i
      BY <1>1
    <3>2. back[i - (k + 1)] = q[i]
      BY <1>4, <3>1, Zenon
    <3> QED
      BY <1>4, <3>1, <3>2, Zenon DEF Elements
  <2>3. ASSUME NEW x \in Elements(back) PROVE x \in {q[i] : i \in (k + 2)..n}
    BY <1>4, <2>1, Zenon DEF Elements
  <2> QED
    BY <2>2, <2>3, Zenon
<1>7. Distinct(front)
  BY <1>1, <1>2, <1>3 DEF Distinct
<1>8. Distinct(back)
  <2> SUFFICES ASSUME NEW i \in 1..(n - (k + 1)), NEW j \in 1..(n - (k + 1)), back[i] = back[j] PROVE i = j
    BY <1>4, Zenon DEF Distinct
  <2>1. k + 1 + i \in 1..n /\ k + 1 + j \in 1..n
    BY <1>1
  <2>2. k + 1 + i = k + 1 + j
    BY <1>2, <1>4, <2>1, Zenon
  <2> QED
    BY <2>2
<1>9. /\ k + 1 \in 1..n /\ \A i \in 1..n : i \in 1..k \/ i = k + 1 \/ i \in (k + 2)..n
      /\ \A i \in 1..k : i \in 1..n /\ i # k + 1 /\ i \notin (k + 2)..n
      /\ \A i \in (k + 2)..n : i \in 1..n /\ i # k + 1
  BY <1>1
<1>10. /\ q[k + 1] \notin Elements(front) \cup Elements(back)
       /\ Elements(front) \cap Elements(back) = {}
  BY <1>2, <1>5, <1>6, <1>9
<1>11. Elements(q) = Elements(front) \cup {q[k + 1]} \cup Elements(back)
  <2>1. ASSUME NEW x \in Elements(q) PROVE x \in Elements(front) \cup {q[k + 1]} \cup Elements(back)
    <3>1. PICK i \in 1..n : x = q[i]
      BY <1>1, Zenon DEF Elements
    <3> QED
      BY <1>5, <1>6, <1>9, <3>1, Zenon
  <2>2. ASSUME NEW i \in 1..n PROVE q[i] \in Elements(q)
    BY <1>1, Zenon DEF Elements
  <2> QED
    BY <1>5, <1>6, <1>9, <2>1, <2>2, Zenon
<1> QED
  BY <1>1, <1>2, <1>3, <1>4, <1>7, <1>8, <1>9, <1>10, <1>11, Zenon DEF front, back

(* The Ps, their queues and the global one. *)
LEMMA RuntimeFacts ==
  /\ GOMAXPROCS \in Nat /\ GOMAXPROCS >= 1 /\ NumGs \in Nat /\ PollPeriod \in Nat /\ PollPeriod >= 1
  /\ GMP!Ps \subseteq GMP!Places /\ GOMAXPROCS \in GMP!Places /\ GOMAXPROCS \notin GMP!Ps
  /\ \A p \in GMP!Places : p \in GMP!Ps \/ p = GOMAXPROCS
  /\ None \notin GMP!Gs /\ None \notin GMP!Ps /\ None \notin GMP!Ms
  /\ GMP!Gs \subseteq Nat /\ GMP!Ps \subseteq GMP!Ms /\ GMP!Ms \subseteq Nat
<1>1. /\ GOMAXPROCS \in Nat /\ GOMAXPROCS >= 1 /\ NumGs \in Nat /\ PollPeriod \in Nat /\ PollPeriod >= 1
  BY RuntimeAssumption
<1>2. /\ GMP!Gs \subseteq Nat /\ GMP!Ps \subseteq Nat /\ GMP!Ms \subseteq Nat
  BY <1>1 DEF GMP!Gs, GMP!Ps, GMP!Ms
<1>3. None \notin Nat
  BY SchedulerAssumption, Zenon
<1>4. /\ GMP!Ps \subseteq GMP!Places /\ GOMAXPROCS \in GMP!Places /\ GOMAXPROCS \notin GMP!Ps
      /\ \A p \in GMP!Places : p \in GMP!Ps \/ p = GOMAXPROCS
  BY <1>1 DEF GMP!Ps, GMP!Places
<1>5. GMP!Ps \subseteq GMP!Ms
  BY <1>1 DEF GMP!Ps, GMP!Ms
<1> QED
  BY <1>1, <1>2, <1>3, <1>4, <1>5, Zenon

(* The queues, each at its place. *)
LEMMA QueuesAt ==
  ASSUME NEW local, NEW global
  PROVE  /\ \A p \in GMP!Ps : AllQueues(local, global)[p] = local[p]
         /\ AllQueues(local, global)[GOMAXPROCS] = global
BY RuntimeFacts, Zenon DEF AllQueues

(* The global queue changes. *)
LEMMA GlobalChanges ==
  ASSUME NEW local, NEW global, NEW list
  PROVE  AllQueues(local, list) = With(AllQueues(local, global), GOMAXPROCS, list)
BY RuntimeFacts, Zenon DEF AllQueues, With

(* The queue of a P changes. *)
LEMMA LocalChanges ==
  ASSUME NEW local \in [GMP!Ps -> Seq(GMP!Gs)], NEW global, NEW list, NEW p \in GMP!Ps
  PROVE  AllQueues(With(local, p, list), global) = With(AllQueues(local, global), p, list)
BY RuntimeFacts, Zenon DEF AllQueues, With

(* The first of a queue is taken. *)
LEMMA TakeFirst ==
  ASSUME NEW qs, NEW X, Shared(qs, X), NEW k \in GMP!Places, qs[k] # <<>>
  PROVE  /\ Head(qs[k]) \in X /\ Head(qs[k]) \in GMP!Gs /\ Tail(qs[k]) \in Seq(GMP!Gs)
         /\ Shared(With(qs, k, Tail(qs[k])), X \ {Head(qs[k])})
<1> DEFINE h == Head(qs[k])
           rest == Tail(qs[k])
<1>1. qs[k] \in Seq(GMP!Gs) /\ Distinct(qs[k]) /\ Elements(qs[k]) \subseteq X
  BY Zenon DEF Shared
<1>2. /\ h \in GMP!Gs /\ h \in Elements(qs[k]) /\ rest \in Seq(GMP!Gs) /\ Distinct(rest)
      /\ Elements(rest) = Elements(qs[k]) \ {h}
  BY <1>1, PopLemma, Zenon
<1> HIDE DEF h, rest
<1>3. Elements(rest) \cap (X \ Elements(qs[k])) = {}
  BY <1>2, Zenon
<1>4. Shared(With(qs, k, rest), (X \ Elements(qs[k])) \cup Elements(rest))
  BY <1>2, <1>3, ReplaceQueue, Zenon
<1>5. (X \ Elements(qs[k])) \cup Elements(rest) = X \ {h}
  BY <1>1, <1>2, Zenon
<1> QED
  BY <1>1, <1>2, <1>4, <1>5, Zenon DEF h, rest

(* Half of a queue, rounded up: at least one goroutine, at most all. *)
LEMMA LaterHalf ==
  ASSUME NEW n \in Nat, n >= 1
  PROVE  (n + 1) \div 2 \in 1..n
OBVIOUS

(* The later half of another P's queue is stolen. *)
LEMMA StealHalf ==
  ASSUME NEW local \in [GMP!Ps -> Seq(GMP!Gs)], NEW global \in Seq(GMP!Gs), NEW X,
         Shared(AllQueues(local, global), X), NEW p \in GMP!Ps, local[p] = <<>>,
         NEW v \in GMP!Ps \ {p}, NEW k \in Nat, k < Len(local[v])
  PROVE  LET after == [local EXCEPT ![v] = SubSeq(local[v], 1, k),
                                    ![p] = @ \o SubSeq(local[v], k + 2, Len(local[v]))]
         IN  /\ local[v][k + 1] \in X /\ after \in [GMP!Ps -> Seq(GMP!Gs)]
             /\ Shared(AllQueues(after, global), X \ {local[v][k + 1]})
<1> DEFINE q == local[v]
           front == SubSeq(q, 1, k)
           back == SubSeq(q, k + 2, Len(q))
           g == q[k + 1]
           one == With(local, v, front)
           two == With(one, p, back)
           after == [local EXCEPT ![v] = front, ![p] = @ \o back]
<1>1. q \in Seq(GMP!Gs) /\ Distinct(q) /\ Elements(q) \subseteq X /\ AllQueues(local, global)[v] = q
  <2>1. AllQueues(local, global)[v] = q /\ v \in GMP!Places
    BY QueuesAt, RuntimeFacts
  <2> QED
    BY <2>1, Zenon DEF Shared
<1>2. /\ g \in GMP!Gs /\ front \in Seq(GMP!Gs) /\ Distinct(front) /\ back \in Seq(GMP!Gs) /\ Distinct(back)
      /\ g \notin Elements(front) \cup Elements(back) /\ Elements(front) \cap Elements(back) = {}
      /\ Elements(q) = Elements(front) \cup {g} \cup Elements(back)
  BY <1>1, SplitList, Zenon
<1>3. after = two
  <2>1. <<>> \o back = back
    BY <1>2
  <2> QED
    BY <2>1, Zenon DEF With
<1> HIDE DEF q, front, back, g
<1>4. one \in [GMP!Ps -> Seq(GMP!Gs)] /\ two \in [GMP!Ps -> Seq(GMP!Gs)]
  BY <1>2, Zenon DEF With
<1>5. one[p] = <<>>
  BY Zenon DEF With
<1>6. Shared(AllQueues(one, global), (X \ Elements(q)) \cup Elements(front))
  <2>1. AllQueues(one, global) = With(AllQueues(local, global), v, front)
    BY LocalChanges, Zenon
  <2>2. Elements(front) \cap (X \ Elements(q)) = {} /\ v \in GMP!Places
    BY <1>2, RuntimeFacts, Zenon
  <2> QED
    BY <1>1, <1>2, <2>1, <2>2, ReplaceQueue
<1> DEFINE Y == (X \ Elements(q)) \cup Elements(front)
<1> HIDE DEF one, Y
<1>7. Shared(AllQueues(two, global), (Y \ {}) \cup Elements(back))
  <2>1. AllQueues(two, global) = With(AllQueues(one, global), p, back)
    <3>1. one \in [GMP!Ps -> Seq(GMP!Gs)]
      BY <1>4, Zenon
    <3> QED
      BY <3>1, LocalChanges, Zenon
  <2>2. Elements(AllQueues(one, global)[p]) = {} /\ p \in GMP!Places
    <3>1. AllQueues(one, global)[p] = <<>> /\ p \in GMP!Places
      BY <1>5, QueuesAt, RuntimeFacts
    <3>2. Elements(<<>>) = {}
      BY DEF Elements
    <3> QED
      BY <3>1, <3>2, Zenon
  <2>3. Elements(back) \cap Y = {}
    BY <1>2, Zenon DEF Y
  <2>4. Elements(back) \cap (Y \ Elements(AllQueues(one, global)[p])) = {}
    BY <2>2, <2>3, Zenon
  <2>5. Shared(With(AllQueues(one, global), p, back),
               (Y \ Elements(AllQueues(one, global)[p])) \cup Elements(back))
    BY <1>2, <1>6, <2>2, <2>4, ReplaceQueue, Zenon DEF Y
  <2> QED
    BY <2>1, <2>2, <2>5, Zenon
<1>8. (Y \ {}) \cup Elements(back) = X \ {g} /\ g \in X
  BY <1>1, <1>2, Zenon DEF Y
<1>9. g \in X /\ after \in [GMP!Ps -> Seq(GMP!Gs)] /\ Shared(AllQueues(after, global), X \ {g})
  BY <1>3, <1>4, <1>7, <1>8, Zenon
<1> QED
  BY <1>9, Zenon DEF g, q, front, back

Runnable == {g \in GMP!Gs : Status[g] = "Grunnable"}

(* What findRunnableG returns is taken out of one queue. *)
LEMMA FoundWork ==
  ASSUME GMP!TypeOK, Shared(AllQueues(LocalQueue, GlobalRunQueue), Runnable),
         NEW p \in GMP!Ps, NEW found \in GMP!findRunnableG(p)
  PROVE  /\ found.g \in Runnable
         /\ found.local \in [GMP!Ps -> Seq(GMP!Gs)] /\ found.global \in Seq(GMP!Gs)
         /\ Shared(AllQueues(found.local, found.global), Runnable \ {found.g})
<1> DEFINE qs == AllQueues(LocalQueue, GlobalRunQueue)
<1>1. LocalQueue \in [GMP!Ps -> Seq(GMP!Gs)] /\ GlobalRunQueue \in Seq(GMP!Gs)
  BY Zenon DEF GMP!TypeOK
<1>2. /\ qs[GOMAXPROCS] = GlobalRunQueue /\ \A v \in GMP!Ps : qs[v] = LocalQueue[v]
      /\ GOMAXPROCS \in GMP!Places /\ GMP!Ps \subseteq GMP!Places
  BY QueuesAt, RuntimeFacts, Zenon
<1>3. CASE found \in GMP!FromGlobal /\ GlobalRunQueue # <<>>
  <2>1. found.g = Head(GlobalRunQueue) /\ found.local = LocalQueue /\ found.global = Tail(GlobalRunQueue)
    BY <1>3 DEF GMP!FromGlobal
  <2>2. AllQueues(LocalQueue, Tail(GlobalRunQueue)) = With(qs, GOMAXPROCS, Tail(GlobalRunQueue))
    BY GlobalChanges, Zenon
  <2> HIDE DEF qs
  <2>3. /\ Head(GlobalRunQueue) \in Runnable /\ Tail(GlobalRunQueue) \in Seq(GMP!Gs)
        /\ Shared(With(qs, GOMAXPROCS, Tail(GlobalRunQueue)), Runnable \ {Head(GlobalRunQueue)})
    <3>1. Shared(qs, Runnable)
      BY Zenon DEF qs
    <3> QED
      BY <1>2, <1>3, <3>1, TakeFirst, Zenon
  <2> QED
    BY <1>1, <2>1, <2>2, <2>3, Zenon
<1>4. CASE found \in GMP!FromLocal(p) /\ LocalQueue[p] # <<>>
  <2>1. /\ found.g = Head(LocalQueue[p]) /\ found.global = GlobalRunQueue
        /\ found.local = With(LocalQueue, p, Tail(LocalQueue[p]))
    BY <1>1, <1>4 DEF GMP!FromLocal, With
  <2>2. AllQueues(With(LocalQueue, p, Tail(LocalQueue[p])), GlobalRunQueue)
          = With(qs, p, Tail(LocalQueue[p]))
    BY <1>1, LocalChanges, Zenon
  <2> HIDE DEF qs
  <2>3. /\ Head(LocalQueue[p]) \in Runnable /\ Tail(LocalQueue[p]) \in Seq(GMP!Gs)
        /\ Shared(With(qs, p, Tail(LocalQueue[p])), Runnable \ {Head(LocalQueue[p])})
    <3>1. Shared(qs, Runnable)
      BY Zenon DEF qs
    <3> QED
      BY <1>2, <1>4, <3>1, TakeFirst, Zenon
  <2>4. With(LocalQueue, p, Tail(LocalQueue[p])) \in [GMP!Ps -> Seq(GMP!Gs)]
    BY <1>1, <2>3, Zenon DEF With
  <2> QED
    BY <1>1, <2>1, <2>2, <2>3, <2>4, Zenon
<1>5. CASE found \in GMP!Stolen(p) /\ LocalQueue[p] = <<>>
  <2>1. PICK v \in {v \in GMP!Ps \ {p} : LocalQueue[v] # <<>>} :
          LET q    == LocalQueue[v]
              kept == Len(q) - ((Len(q) + 1) \div 2)
          IN  found = [g |-> q[kept + 1],
                       local |-> [LocalQueue EXCEPT ![v] = SubSeq(q, 1, kept),
                                                    ![p] = @ \o SubSeq(q, kept + 2, Len(q))],
                       global |-> GlobalRunQueue]
    BY <1>5, Zenon DEF GMP!Stolen
  <2>2. LocalQueue[v] \in Seq(GMP!Gs) /\ LocalQueue[v] # <<>> /\ v \in GMP!Ps \ {p}
    BY <1>1, <2>1, Zenon
  <2>3. PICK n \in Nat : n = Len(LocalQueue[v]) /\ n >= 1
    BY <2>2, EmptyList
  <2>4. PICK k \in Nat : k = n - ((n + 1) \div 2) /\ k < n
    <3>1. (n + 1) \div 2 \in 1..n
      BY <2>3, LaterHalf, Zenon
    <3>2. PICK h \in 1..n : h = (n + 1) \div 2
      BY <3>1, Zenon
    <3>3. n - h \in Nat /\ n - h < n
      BY <2>3
    <3> QED
      BY <3>2, <3>3, Zenon
  <2> DEFINE q == LocalQueue[v]
             after == [LocalQueue EXCEPT ![v] = SubSeq(q, 1, k), ![p] = @ \o SubSeq(q, k + 2, Len(q))]
  <2>5. found = [g |-> q[k + 1], local |-> after, global |-> GlobalRunQueue]
    BY <2>1, <2>3, <2>4, Zenon
  <2>6. /\ q[k + 1] \in Runnable /\ after \in [GMP!Ps -> Seq(GMP!Gs)]
        /\ Shared(AllQueues(after, GlobalRunQueue), Runnable \ {q[k + 1]})
    BY <1>1, <1>5, <2>2, <2>3, <2>4, StealHalf, Zenon
  <2> HIDE DEF after, q
  <2>7. found.g = q[k + 1] /\ found.local = after /\ found.global = GlobalRunQueue
    BY <2>5, Zenon
  <2> QED
    BY <1>1, <2>6, <2>7, Zenon
<1> QED
  BY <1>3, <1>4, <1>5, Zenon DEF GMP!findRunnableG

(* If it finds nothing there is nothing. *)
LEMMA FoundNothing ==
  ASSUME NEW p \in GMP!Ps, GMP!findRunnableG(p) = {}
  PROVE  GlobalRunQueue = <<>> /\ \A v \in GMP!Ps : LocalQueue[v] = <<>>
<1>1. GMP!FromGlobal # {} /\ GMP!FromLocal(p) # {}
  BY Zenon DEF GMP!FromGlobal, GMP!FromLocal
<1>2. GlobalRunQueue = <<>> /\ LocalQueue[p] = <<>> /\ GMP!Stolen(p) = {}
  BY <1>1, Zenon DEF GMP!findRunnableG
<1>3. ASSUME NEW v \in GMP!Ps \ {p} PROVE LocalQueue[v] = <<>>
  BY <1>2, Zenon DEF GMP!Stolen
<1> QED
  BY <1>2, <1>3, Zenon

-----------------------------------------------------------------------------
(* A thread has at most one goroutine, which is running if the thread has a *)
(* P and in a system call if it is blocked; the threads that have not been  *)
(* made yet have nothing.                                                   *)
Thread(m) ==
  /\ CurG[m] # None =>
       IF IsBlocked[m] THEN Status[CurG[m]] = "Gsyscall" /\ BoundP[m] = None
       ELSE Status[CurG[m]] = "Grunning" /\ BoundP[m] # None
  /\ BoundP[m] # None => ~IsBlocked[m] /\ BoundM[BoundP[m]] = m
  /\ m >= MCount => CurG[m] = None /\ BoundP[m] = None /\ ~IsBlocked[m]

(* What the Status of a goroutine says of it. *)
Goroutine(g) ==
  /\ Status[g] \in {"Grunning", "Gsyscall"} => \E m \in GMP!Ms : CurG[m] = g
  /\ Status[g] = "Gdead" <=> g \in Elements(CompletedGs)
  /\ g > GCount => Status[g] = "Gidle"
  /\ Status[g] = "Gsyscall" => SyscallTicks[g] <= 2

(* The goroutines that have made their system call. *)
Called == {g \in GMP!Gs : Status[g] = "Gsyscall" \/ SyscallTicks[g] > 0}

(***************************************************************************)
(* The inductive invariant behind OneOwner.  Every system call has made    *)
(* one thread more, which is why the threads do not run out.               *)
(***************************************************************************)
RuntimeInv ==
  /\ GMP!TypeOK
  /\ Shared(AllQueues(LocalQueue, GlobalRunQueue), Runnable)
  /\ Distinct(CompletedGs)
  /\ \A g \in GMP!Gs : Goroutine(g)
  /\ \A m \in GMP!Ms : Thread(m)
  /\ \A m, n \in GMP!Ms : CurG[m] # None /\ CurG[m] = CurG[n] => m = n
  /\ \A p \in GMP!Ps : BoundP[BoundM[p]] = p
  /\ MCount = GOMAXPROCS + Cardinality(Called)

(* A goroutine is put at the end of a queue. *)
LEMMA PutLast ==
  ASSUME NEW qs, NEW X, Shared(qs, X), NEW k \in GMP!Places, NEW g \in GMP!Gs, g \notin X
  PROVE  Append(qs[k], g) \in Seq(GMP!Gs) /\ Shared(With(qs, k, Append(qs[k], g)), X \cup {g})
<1>1. qs[k] \in Seq(GMP!Gs) /\ Distinct(qs[k]) /\ Elements(qs[k]) \subseteq X
  BY Zenon DEF Shared
<1> DEFINE list == Append(qs[k], g)
<1>2. list \in Seq(GMP!Gs) /\ Distinct(list) /\ Elements(list) = Elements(qs[k]) \cup {g}
  BY <1>1, WaitLemma, Zenon
<1> HIDE DEF list
<1>3. Elements(list) \cap (X \ Elements(qs[k])) = {}
  BY <1>2, Zenon
<1>4. Shared(With(qs, k, list), (X \ Elements(qs[k])) \cup Elements(list))
  BY <1>2, <1>3, ReplaceQueue, Zenon
<1>5. (X \ Elements(qs[k])) \cup Elements(list) = X \cup {g}
  BY <1>1, <1>2, Zenon
<1> QED
  BY <1>2, <1>4, <1>5, Zenon DEF list

(* The runtime as NewGMPRuntime makes it. *)
LEMMA RuntimeInit ==
  ASSUME LibraryFacts, GMP!Init
  PROVE  RuntimeInv
<1>1. <<>> \in Seq(GMP!Gs) /\ Elements(<<>>) = {} /\ Distinct(<<>>)
  BY EmptyList DEF Elements, Distinct
<1>2. GMP!TypeOK
  <2>1. MCount - 1 \in GMP!Ms /\ 0 \in 0..GOMAXPROCS /\ 0 \in 0..(PollPeriod - 1)
    BY RuntimeFacts DEF GMP!Init, GMP!Ms
  <2>2. BoundP \in [GMP!Ms -> GMP!Ps \cup {None}] /\ BoundM \in [GMP!Ps -> GMP!Ms]
    BY RuntimeFacts, Zenon DEF GMP!Init
  <2>3. LocalQueue \in [GMP!Ps -> Seq(GMP!Gs)] /\ GlobalRunQueue \in Seq(GMP!Gs) /\ CompletedGs \in Seq(GMP!Gs)
    BY <1>1, Zenon DEF GMP!Init
  <2> QED
    BY <2>1, <2>2, <2>3, RuntimeFacts DEF GMP!Init, GMP!TypeOK
<1>3. Runnable = {} /\ Called = {}
  BY DEF GMP!Init, Runnable, Called
<1>4. Shared(AllQueues(LocalQueue, GlobalRunQueue), Runnable)
  <2> DEFINE qs == AllQueues(LocalQueue, GlobalRunQueue)
  <2>1. qs = [p \in GMP!Places |-> <<>>]
    BY Zenon DEF GMP!Init, AllQueues
  <2> HIDE DEF qs
  <2>2. Shared(qs, {})
    BY <1>1, <2>1, Zenon DEF Shared
  <2> QED
    BY <1>3, <2>2, Zenon DEF qs
<1>5. \A g \in GMP!Gs : Goroutine(g)
  BY <1>1, Zenon DEF GMP!Init, Goroutine
<1>6. ASSUME NEW m \in GMP!Ms PROVE Thread(m)
  <2>1. m \in GMP!Ps => ~(m >= GOMAXPROCS) /\ BoundM[m] = m
    BY RuntimeFacts DEF GMP!Init, GMP!Ps
  <2> QED
    BY <2>1, RuntimeFacts, Zenon DEF GMP!Init, Thread
<1>7. \A p \in GMP!Ps : BoundP[BoundM[p]] = p
  BY RuntimeFacts, Zenon DEF GMP!Init
<1>8. MCount = GOMAXPROCS + Cardinality(Called)
  BY <1>3, CountEmpty, RuntimeFacts DEF GMP!Init
<1>9. \A m, n \in GMP!Ms : CurG[m] # None /\ CurG[m] = CurG[n] => m = n
  BY Zenon DEF GMP!Init
<1> QED
  BY <1>1, <1>2, <1>4, <1>5, <1>6, <1>7, <1>8, <1>9, Zenon DEF RuntimeInv, GMP!Init

(* SpawnGoroutine: the goroutine is new, and goes to one queue. *)
LEMMA SpawnKeeps ==
  ASSUME RuntimeInv, NEW workUnits \in WorkUnits, NEW isSyscall \in BOOLEAN,
         GMP!SpawnGoroutine(workUnits, isSyscall)
  PROVE  RuntimeInv'
<1>1. GMP!TypeOK /\ \A g \in GMP!Gs : Goroutine(g)
  BY Zenon DEF RuntimeInv
<1>2. PICK g \in GMP!Gs : g = GCount + 1 /\ GCount' = g
  BY <1>1, RuntimeFacts DEF GMP!SpawnGoroutine, GMP!TypeOK, GMP!Gs
<1>3. PICK p \in GMP!Ps : p = g % GOMAXPROCS
  <2>1. g \in Nat /\ GOMAXPROCS \in Nat /\ GOMAXPROCS >= 1
    BY RuntimeFacts, Zenon
  <2>2. g % GOMAXPROCS \in 0..(GOMAXPROCS - 1)
    BY <2>1
  <2> QED
    BY <2>2, Zenon DEF GMP!Ps
<1>4. /\ Status' = [Status EXCEPT ![g] = "Grunnable"]
      /\ RemainingWork' = [RemainingWork EXCEPT ![g] = workUnits]
      /\ IsSyscall' = [IsSyscall EXCEPT ![g] = isSyscall]
      /\ \/ /\ LocalQueue' = [LocalQueue EXCEPT ![p] = Append(LocalQueue[p], g)]
            /\ GlobalRunQueue' = GlobalRunQueue
         \/ /\ LocalQueue' = LocalQueue
            /\ GlobalRunQueue' = Append(GlobalRunQueue, g)
      /\ UNCHANGED <<SyscallTicks, MCount, CurG, BoundP, IsBlocked, BoundM, CompletedGs, TickCount, turn>>
  <2>1. LocalQueue \in [GMP!Ps -> Seq(GMP!Gs)]
    BY <1>1, Zenon DEF GMP!TypeOK
  <2> QED
    BY <1>2, <1>3, <2>1, Zenon DEF GMP!SpawnGoroutine, GMP!mVars
<1>5. Status[g] = "Gidle" /\ Status \in [GMP!Gs -> {"Gidle", "Grunnable", "Grunning", "Gsyscall", "Gdead"}]
  <2>1. g > GCount
    BY <1>1, <1>2 DEF GMP!TypeOK
  <2> QED
    BY <1>1, <2>1, Zenon DEF Goroutine, GMP!TypeOK
<1>6. Runnable' = Runnable \cup {g} /\ g \notin Runnable /\ Called' = Called
  <2>1. \A x \in GMP!Gs : Status'[x] = IF x = g THEN "Grunnable" ELSE Status[x]
    BY <1>4, <1>5, Zenon
  <2>2. Runnable' = Runnable \cup {g} /\ g \notin Runnable
    BY <1>5, <2>1, Zenon DEF Runnable
  <2>3. Called' = Called
    BY <1>4, <1>5, <2>1, Zenon DEF Called
  <2> QED
    BY <2>2, <2>3, Zenon
<1>7. /\ LocalQueue' \in [GMP!Ps -> Seq(GMP!Gs)] /\ GlobalRunQueue' \in Seq(GMP!Gs)
      /\ Shared(AllQueues(LocalQueue', GlobalRunQueue'), Runnable \cup {g})
  <2> DEFINE qs == AllQueues(LocalQueue, GlobalRunQueue)
  <2>1. LocalQueue \in [GMP!Ps -> Seq(GMP!Gs)] /\ GlobalRunQueue \in Seq(GMP!Gs)
    BY <1>1, Zenon DEF GMP!TypeOK
  <2>2. Shared(qs, Runnable)
    BY Zenon DEF RuntimeInv
  <2>3. qs[p] = LocalQueue[p] /\ qs[GOMAXPROCS] = GlobalRunQueue /\ p \in GMP!Places /\ GOMAXPROCS \in GMP!Places
    BY QueuesAt, RuntimeFacts, Zenon
  <2>4. CASE LocalQueue' = [LocalQueue EXCEPT ![p] = Append(LocalQueue[p], g)] /\ GlobalRunQueue' = GlobalRunQueue
    <3>1. AllQueues(LocalQueue', GlobalRunQueue') = With(qs, p, Append(LocalQueue[p], g))
      <4>1. AllQueues(With(LocalQueue, p, Append(LocalQueue[p], g)), GlobalRunQueue)
              = With(qs, p, Append(LocalQueue[p], g))
        BY <2>1, LocalChanges, Zenon
      <4> QED
        BY <2>4, <4>1, Zenon DEF With
    <3> HIDE DEF qs
    <3>2. /\ Append(LocalQueue[p], g) \in Seq(GMP!Gs)
          /\ Shared(With(qs, p, Append(LocalQueue[p], g)), Runnable \cup {g})
      BY <1>6, <2>2, <2>3, PutLast, Zenon
    <3> QED
      BY <2>1, <2>4, <3>1, <3>2, Zenon
  <2>5. CASE LocalQueue' = LocalQueue /\ GlobalRunQueue' = Append(GlobalRunQueue, g)
    <3>1. AllQueues(LocalQueue', GlobalRunQueue') = With(qs, GOMAXPROCS, Append(GlobalRunQueue, g))
      <4>1. AllQueues(LocalQueue, Append(GlobalRunQueue, g)) = With(qs, GOMAXPROCS, Append(GlobalRunQueue, g))
        BY GlobalChanges, Zenon
      <4> QED
        BY <2>5, <4>1, Zenon
    <3> HIDE DEF qs
    <3>2. /\ Append(GlobalRunQueue, g) \in Seq(GMP!Gs)
          /\ Shared(With(qs, GOMAXPROCS, Append(GlobalRunQueue, g)), Runnable \cup {g})
      BY <1>6, <2>2, <2>3, PutLast, Zenon
    <3> QED
      BY <2>1, <2>5, <3>1, <3>2, Zenon
  <2> QED
    BY <1>4, <2>4, <2>5, Zenon
<1>8. GMP!TypeOK'
  <2>1. GCount' \in 0..NumGs /\ workUnits \in Int
    BY <1>2, RuntimeFacts, RuntimeAssumption DEF GMP!Gs
  <2>2. /\ Status' \in [GMP!Gs -> {"Gidle", "Grunnable", "Grunning", "Gsyscall", "Gdead"}]
        /\ RemainingWork' \in [GMP!Gs -> Int] /\ IsSyscall' \in [GMP!Gs -> BOOLEAN]
    BY <1>1, <1>4, <2>1, Zenon DEF GMP!TypeOK
  <2> QED
    BY <1>1, <1>4, <1>7, <2>1, <2>2, Zenon DEF GMP!TypeOK
<1>9. ASSUME NEW x \in GMP!Gs PROVE Goroutine(x)'
  <2>1. Goroutine(x) /\ Goroutine(g) /\ x \in Nat /\ GCount \in Nat
    BY <1>1, RuntimeFacts DEF GMP!TypeOK
  <2>2. Status'[x] = IF x = g THEN "Grunnable" ELSE Status[x]
    BY <1>4, <1>5, Zenon
  <2> QED
    BY <1>2, <1>4, <1>5, <2>1, <2>2 DEF Goroutine
<1>10. ASSUME NEW m \in GMP!Ms PROVE Thread(m)'
  <2>1. Thread(m) /\ (CurG[m] # None => CurG[m] \in GMP!Gs)
    BY <1>1 DEF RuntimeInv, GMP!TypeOK
  <2>2. CurG[m] # None => Status'[CurG[m]] = Status[CurG[m]]
    BY <1>4, <1>5, <2>1, Zenon DEF Thread
  <2> QED
    BY <1>4, <2>1, <2>2, Zenon DEF Thread
<1> QED
  BY <1>4, <1>6, <1>7, <1>8, <1>9, <1>10, Zenon DEF RuntimeInv

(* The turn of P has passed. *)
LEMMA NextTurn ==
  ASSUME NEW p \in GMP!Ps, turn = p, turn' = turn + 1, TickCount' = TickCount, GMP!TypeOK
  PROVE  turn' \in 0..GOMAXPROCS /\ TickCount' \in 0..(PollPeriod - 1)
BY RuntimeFacts DEF GMP!Ps, GMP!TypeOK

(* There is a thread left for every system call. *)
LEMMA ThreadsLeft ==
  ASSUME LibraryFacts, RuntimeInv, NEW g \in GMP!Gs, g \notin Called
  PROVE  /\ MCount \in GMP!Ms /\ MCount + 1 = GOMAXPROCS + Cardinality(Called \cup {g})
         /\ IsFiniteSet(Called)
<1>1. IsFiniteSet(GMP!Gs) /\ Cardinality(GMP!Gs) = NumGs
  BY RuntimeFacts, CountInterval DEF GMP!Gs
<1> DEFINE more == Called \cup {g}
<1>2. Called \in SUBSET GMP!Gs /\ more \in SUBSET GMP!Gs
  BY Zenon DEF Called
<1>3. IsFiniteSet(Called) /\ Cardinality(more) <= NumGs
  BY <1>1, <1>2, CountSubset, Zenon
<1>4. Cardinality(more) = Cardinality(Called) + 1
  BY <1>3, CountAdd, Zenon
<1>5. Cardinality(Called) \in Nat
  BY <1>3, CountType, Zenon
<1> HIDE DEF more
<1>6. MCount = GOMAXPROCS + Cardinality(Called)
  BY Zenon DEF RuntimeInv
<1>7. MCount \in GMP!Ms
  BY <1>3, <1>4, <1>5, <1>6, RuntimeFacts DEF GMP!Ms
<1>8. MCount + 1 = GOMAXPROCS + Cardinality(more)
  BY <1>4, <1>5, <1>6, RuntimeFacts
<1> QED
  BY <1>3, <1>7, <1>8, Zenon DEF more

(* handoffP: the thread blocks, and P has a new one. *)
LEMMA HandoffKeeps ==
  ASSUME LibraryFacts, RuntimeInv, NEW p \in GMP!Ps, turn = p, GMP!Handoff(p),
         turn' = turn + 1, TickCount' = TickCount
  PROVE  RuntimeInv'
<1>1. GMP!TypeOK /\ (\A g \in GMP!Gs : Goroutine(g)) /\ \A x \in GMP!Ms : Thread(x)
  BY Zenon DEF RuntimeInv
<1>2. PICK m \in GMP!Ms : m = BoundM[p] /\ BoundP[m] = p
  BY <1>1, Zenon DEF RuntimeInv, GMP!TypeOK
<1>3. PICK g \in GMP!Gs : g = CurG[m]
  BY <1>1, <1>2, Zenon DEF GMP!Handoff, GMP!EntersSyscall, GMP!TypeOK
<1>4. Status[g] = "Grunning" /\ SyscallTicks[g] = 0
  BY <1>2, <1>3, Zenon DEF GMP!Handoff, GMP!EntersSyscall
<1>5. g \notin Called
  BY <1>4 DEF Called
<1>6. PICK n \in GMP!Ms : n = MCount /\ n + 1 = GOMAXPROCS + Cardinality(Called \cup {g})
  BY <1>5, ThreadsLeft, Zenon
<1>7. n # m /\ CurG[n] = None /\ BoundP[n] = None /\ ~IsBlocked[n]
  <2>1. n >= MCount
    BY <1>6, RuntimeFacts
  <2> QED
    BY <1>1, <1>2, <2>1, RuntimeFacts, Zenon DEF Thread
<1>8. /\ Status' = [Status EXCEPT ![g] = "Gsyscall"]
      /\ IsBlocked' = [IsBlocked EXCEPT ![m] = TRUE]
      /\ MCount' = n + 1
      /\ BoundM' = [BoundM EXCEPT ![p] = n]
      /\ BoundP' = [BoundP EXCEPT ![m] = None, ![n] = p]
      /\ UNCHANGED <<GCount, RemainingWork, IsSyscall, SyscallTicks, CurG, LocalQueue,
                     GlobalRunQueue, CompletedGs>>
  BY <1>2, <1>3, <1>6, Zenon DEF GMP!Handoff
<1>9. \A x \in GMP!Gs : Status'[x] = IF x = g THEN "Gsyscall" ELSE Status[x]
  BY <1>1, <1>8, Zenon DEF GMP!TypeOK
<1>10. \A x \in GMP!Ms :
         /\ IsBlocked'[x] = IF x = m THEN TRUE ELSE IsBlocked[x]
         /\ BoundP'[x] = IF x = n THEN p ELSE IF x = m THEN None ELSE BoundP[x]
  <2>1. IsBlocked \in [GMP!Ms -> BOOLEAN] /\ BoundP \in [GMP!Ms -> GMP!Ps \cup {None}]
    BY <1>1, Zenon DEF GMP!TypeOK
  <2>2. \A x \in GMP!Ms : IsBlocked'[x] = IF x = m THEN TRUE ELSE IsBlocked[x]
    BY <1>8, <2>1, Zenon
  <2>3. \A x \in GMP!Ms : BoundP'[x] = IF x = n THEN p ELSE IF x = m THEN None ELSE BoundP[x]
    BY <1>8, <2>1, Zenon
  <2> QED
    BY <2>2, <2>3, Zenon
<1>11. \A x \in GMP!Ps : BoundM'[x] = IF x = p THEN n ELSE BoundM[x]
  BY <1>1, <1>8, Zenon DEF GMP!TypeOK
<1>12. Runnable' = Runnable /\ Called' = Called \cup {g}
  <2>1. Runnable' = Runnable
    BY <1>4, <1>9, Zenon DEF Runnable
  <2>2. Called' = Called \cup {g}
    BY <1>8, <1>9, Zenon DEF Called
  <2> QED
    BY <2>1, <2>2, Zenon
<1>13. GMP!TypeOK'
  <2>1. MCount' - 1 \in GMP!Ms
    BY <1>8, RuntimeFacts
  <2>2. /\ Status' \in [GMP!Gs -> {"Gidle", "Grunnable", "Grunning", "Gsyscall", "Gdead"}]
        /\ BoundP' \in [GMP!Ms -> GMP!Ps \cup {None}] /\ BoundM' \in [GMP!Ps -> GMP!Ms]
    BY <1>1, <1>8, Zenon DEF GMP!TypeOK
  <2>3. IsBlocked' \in [GMP!Ms -> BOOLEAN]
    BY <1>1, <1>8, Zenon DEF GMP!TypeOK
  <2> QED
    BY <1>1, <1>8, <2>1, <2>2, <2>3, NextTurn, Zenon DEF GMP!TypeOK
<1>14. ASSUME NEW x \in GMP!Gs PROVE Goroutine(x)'
  <2>1. Goroutine(x) /\ Goroutine(g)
    BY <1>1, Zenon
  <2>2. Elements(CompletedGs)' = Elements(CompletedGs)
    BY <1>8, Zenon
  <2> QED
    BY <1>3, <1>4, <1>8, <1>9, <2>1, <2>2 DEF Goroutine
<1>15. ASSUME NEW x \in GMP!Ms PROVE Thread(x)'
  <2>1. Thread(x) /\ CurG'[x] = CurG[x] /\ x \in Nat /\ n \in Nat
    BY <1>1, <1>8, RuntimeFacts, Zenon
  <2>2. CASE x = m
    <3>1. IsBlocked'[x] /\ BoundP'[x] = None /\ Status'[CurG'[x]] = "Gsyscall"
      BY <1>3, <1>7, <1>9, <1>10, <2>1, <2>2, Zenon
    <3>2. ~(x >= MCount')
      BY <1>2, <1>6, <1>8, <2>1, <2>2, RuntimeFacts DEF Thread
    <3> QED
      BY <3>1, <3>2, Zenon DEF Thread
  <2>3. CASE x = n
    <3>1. CurG'[x] = None /\ ~IsBlocked'[x] /\ BoundP'[x] = p /\ BoundM'[p] = n
      BY <1>7, <1>10, <1>11, <2>1, <2>3, Zenon
    <3>2. ~(x >= MCount')
      BY <1>8, <2>1, <2>3
    <3> QED
      BY <2>3, <3>1, <3>2, Zenon DEF Thread
  <2>4. CASE x # m /\ x # n
    <3>1. IsBlocked'[x] = IsBlocked[x] /\ BoundP'[x] = BoundP[x] /\ BoundP[x] \in GMP!Ps \cup {None}
      BY <1>1, <1>10, <2>4, Zenon DEF GMP!TypeOK
    <3>2. BoundP[x] # None => BoundP[x] # p /\ BoundM'[BoundP[x]] = BoundM[BoundP[x]]
      BY <1>2, <1>11, <2>1, <2>4, <3>1, Zenon DEF Thread
    <3>3. CurG[x] # None => CurG[x] # g /\ Status'[CurG[x]] = Status[CurG[x]]
      <4>1. CurG[x] \in GMP!Gs \cup {None} /\ g # None
        BY <1>1, RuntimeFacts, Zenon DEF GMP!TypeOK
      <4>2. CurG[x] # g
        BY <1>3, <2>4, <4>1, Zenon DEF RuntimeInv
      <4> QED
        BY <1>9, <4>1, <4>2, Zenon
    <3>4. x >= MCount' => x >= MCount
      BY <1>6, <1>8, <2>1
    <3> QED
      BY <2>1, <3>1, <3>2, <3>3, <3>4, Zenon DEF Thread
  <2> QED
    BY <2>2, <2>3, <2>4, Zenon
<1>16. ASSUME NEW v \in GMP!Ps PROVE BoundP'[BoundM'[v]] = v
  <2>1. BoundP[BoundM[v]] = v /\ BoundM[v] \in GMP!Ms
    BY <1>1, Zenon DEF RuntimeInv, GMP!TypeOK
  <2>2. CASE v = p
    BY <1>10, <1>11, <2>2, Zenon
  <2>3. CASE v # p
    <3>1. BoundM[v] # m /\ BoundM[v] # n
      BY <1>2, <1>7, <2>1, <2>3, RuntimeFacts, Zenon
    <3> QED
      BY <1>10, <1>11, <2>1, <2>3, <3>1, Zenon
  <2> QED
    BY <2>2, <2>3, Zenon
<1>17. MCount' = GOMAXPROCS + Cardinality(Called')
  BY <1>6, <1>8, <1>12, Zenon
<1>18. \A x, y \in GMP!Ms : CurG'[x] # None /\ CurG'[x] = CurG'[y] => x = y
  BY <1>8, Zenon DEF RuntimeInv
<1>19. Shared(AllQueues(LocalQueue', GlobalRunQueue'), Runnable') /\ Distinct(CompletedGs')
  BY <1>8, <1>12, Zenon DEF RuntimeInv
<1> QED
  BY <1>13, <1>14, <1>15, <1>16, <1>17, <1>18, <1>19, Zenon DEF RuntimeInv

(* P's goroutine works on. *)
LEMMA WorkKeeps ==
  ASSUME RuntimeInv, NEW p \in GMP!Ps, turn = p, GMP!Work(p), turn' = turn + 1, TickCount' = TickCount
  PROVE  RuntimeInv' /\ CurG'[BoundM'[p]] # None
<1>1. GMP!TypeOK
  BY Zenon DEF RuntimeInv
<1>2. UNCHANGED <<GCount, Status, IsSyscall, SyscallTicks, MCount, CurG, BoundP, IsBlocked, LocalQueue,
                  BoundM, GlobalRunQueue, CompletedGs>>
  BY Zenon DEF GMP!Work, GMP!mVars
<1>3. RemainingWork' \in [GMP!Gs -> Int]
  BY <1>1 DEF GMP!Work, GMP!TypeOK
<1>4. GMP!TypeOK'
  BY <1>1, <1>2, <1>3, NextTurn, Zenon DEF GMP!TypeOK
<1>5. /\ Runnable' = Runnable /\ Called' = Called
      /\ (\A g \in GMP!Gs : Goroutine(g)') /\ \A m \in GMP!Ms : Thread(m)'
  BY <1>2 DEF Runnable, Called, Goroutine, Thread, RuntimeInv
<1>6. CurG'[BoundM'[p]] # None
  BY <1>2, Zenon DEF GMP!Work
<1> QED
  BY <1>2, <1>4, <1>5, <1>6, Zenon DEF RuntimeInv

(* P's thread m looks for work, once its goroutine has ended. *)
Searches(p, m, ended) ==
  \/ \E found \in GMP!findRunnableG(p) :
       /\ CurG' = [CurG EXCEPT ![m] = found.g]
       /\ Status' = [ended EXCEPT ![found.g] = "Grunning"]
       /\ LocalQueue' = found.local
       /\ GlobalRunQueue' = found.global
  \/ /\ GMP!findRunnableG(p) = {}
     /\ CurG' = [CurG EXCEPT ![m] = None]
     /\ Status' = ended
     /\ UNCHANGED <<LocalQueue, GlobalRunQueue>>

(* The thread m goes on with goroutine new, or with none. *)
GoesOn(m, ended, new) ==
  /\ CurG' = [CurG EXCEPT ![m] = new]
  /\ Status' = IF new = None THEN ended ELSE [ended EXCEPT ![new] = "Grunning"]
  /\ Shared(AllQueues(LocalQueue', GlobalRunQueue'), Runnable \ {new})
  /\ new = None => GlobalRunQueue' = <<>> /\ \A v \in GMP!Ps : LocalQueue'[v] = <<>>

(* What findRunnableG does for P: a goroutine that was runnable runs, or   *)
(* nothing is found and there was nothing.                                 *)
LEMMA WhatIsFound ==
  ASSUME RuntimeInv, NEW p \in GMP!Ps, NEW m \in GMP!Ms, m = BoundM[p], NEW ended,
         Searches(p, m, ended)
  PROVE  /\ LocalQueue' \in [GMP!Ps -> Seq(GMP!Gs)] /\ GlobalRunQueue' \in Seq(GMP!Gs)
         /\ \E new \in Runnable \cup {None} : GoesOn(m, ended, new)
<1>1. GMP!TypeOK /\ Shared(AllQueues(LocalQueue, GlobalRunQueue), Runnable)
  BY Zenon DEF RuntimeInv
<1>2. None \notin Runnable
  BY RuntimeFacts, Zenon DEF Runnable
<1>3. ASSUME NEW found \in GMP!findRunnableG(p),
             CurG' = [CurG EXCEPT ![m] = found.g],
             Status' = [ended EXCEPT ![found.g] = "Grunning"],
             LocalQueue' = found.local, GlobalRunQueue' = found.global
      PROVE  /\ LocalQueue' \in [GMP!Ps -> Seq(GMP!Gs)] /\ GlobalRunQueue' \in Seq(GMP!Gs)
             /\ \E new \in Runnable \cup {None} : GoesOn(m, ended, new)
  <2>1. /\ found.g \in Runnable
        /\ found.local \in [GMP!Ps -> Seq(GMP!Gs)] /\ found.global \in Seq(GMP!Gs)
        /\ Shared(AllQueues(found.local, found.global), Runnable \ {found.g})
    BY <1>1, FoundWork, Zenon
  <2>2. found.g # None
    BY <1>2, <2>1, Zenon
  <2>3. GoesOn(m, ended, found.g)
    BY <1>3, <2>1, <2>2, Zenon DEF GoesOn
  <2>4. LocalQueue' \in [GMP!Ps -> Seq(GMP!Gs)] /\ GlobalRunQueue' \in Seq(GMP!Gs)
    BY <1>3, <2>1, Zenon
  <2>5. found.g \in Runnable \cup {None}
    BY <2>1, Zenon
  <2> QED
    BY <2>3, <2>4, <2>5, Zenon
<1>4. CASE /\ GMP!findRunnableG(p) = {}
           /\ CurG' = [CurG EXCEPT ![m] = None]
           /\ Status' = ended
           /\ UNCHANGED <<LocalQueue, GlobalRunQueue>>
  <2>1. GlobalRunQueue = <<>> /\ \A v \in GMP!Ps : LocalQueue[v] = <<>>
    BY <1>4, FoundNothing, Zenon
  <2>2. Runnable \ {None} = Runnable
    BY <1>2, Zenon
  <2>3. GoesOn(m, ended, None)
    BY <1>1, <1>4, <2>1, <2>2, Zenon DEF GoesOn
  <2> QED
    BY <1>1, <1>4, <2>3, Zenon DEF GMP!TypeOK
<1>5. CASE \E found \in GMP!findRunnableG(p) :
             /\ CurG' = [CurG EXCEPT ![m] = found.g]
             /\ Status' = [ended EXCEPT ![found.g] = "Grunning"]
             /\ LocalQueue' = found.local
             /\ GlobalRunQueue' = found.global
  BY <1>3, <1>5, Zenon
<1> QED
  BY <1>4, <1>5, Zenon DEF Searches

(* The goroutine of P's thread has ended, if it had one, and it goes on    *)
(* with what it has found.                                                 *)
LEMMA ScheduleKeeps ==
  ASSUME RuntimeInv, NEW p \in GMP!Ps, turn = p, GMP!Schedule(p), turn' = turn + 1, TickCount' = TickCount
  PROVE  /\ RuntimeInv'
         /\ CurG'[BoundM'[p]] = None => GlobalRunQueue' = <<>> /\ \A v \in GMP!Ps : LocalQueue'[v] = <<>>
<1>1. GMP!TypeOK /\ (\A x \in GMP!Gs : Goroutine(x)) /\ \A x \in GMP!Ms : Thread(x)
  BY Zenon DEF RuntimeInv
<1>2. PICK m \in GMP!Ms : m = BoundM[p] /\ BoundP[m] = p /\ ~IsBlocked[m]
  <2>1. BoundM[p] \in GMP!Ms /\ BoundP[BoundM[p]] = p
    BY <1>1, Zenon DEF RuntimeInv, GMP!TypeOK
  <2> QED
    BY <1>1, <2>1, RuntimeFacts, Zenon DEF Thread
<1>3. PICK g \in GMP!Gs \cup {None} : g = CurG[m]
  BY <1>1, Zenon DEF GMP!TypeOK
<1>4. g # None => g \in GMP!Gs /\ Status[g] = "Grunning"
  BY <1>1, <1>2, <1>3, Zenon DEF Thread
<1> DEFINE ended == IF g = None THEN Status ELSE [Status EXCEPT ![g] = "Gdead"]
<1>5. /\ IF g = None
         THEN UNCHANGED <<RemainingWork, CompletedGs>>
         ELSE /\ RemainingWork' = [RemainingWork EXCEPT ![g] = @ - 1]
              /\ CompletedGs' = Append(CompletedGs, g)
      /\ UNCHANGED <<GCount, IsSyscall, SyscallTicks, MCount, BoundP, IsBlocked, BoundM>>
  BY <1>2, <1>3, Zenon DEF GMP!Schedule
<1>6. Searches(p, m, ended)
  BY <1>2, <1>3, Zenon DEF GMP!Schedule, Searches
<1>7. ended \in [GMP!Gs -> {"Gidle", "Grunnable", "Grunning", "Gsyscall", "Gdead"}]
      /\ \A x \in GMP!Gs : ended[x] = IF x = g THEN "Gdead" ELSE Status[x]
  BY <1>1, <1>4, RuntimeFacts, ZenonT(30) DEF GMP!TypeOK
<1> HIDE DEF ended
<1>8. LocalQueue' \in [GMP!Ps -> Seq(GMP!Gs)] /\ GlobalRunQueue' \in Seq(GMP!Gs)
  BY <1>2, <1>6, WhatIsFound, Zenon
<1>9. PICK new \in Runnable \cup {None} :
        /\ CurG' = [CurG EXCEPT ![m] = new]
        /\ Status' = IF new = None THEN ended ELSE [ended EXCEPT ![new] = "Grunning"]
        /\ Shared(AllQueues(LocalQueue', GlobalRunQueue'), Runnable \ {new})
        /\ new = None => GlobalRunQueue' = <<>> /\ \A v \in GMP!Ps : LocalQueue'[v] = <<>>
  <2>1. \E new \in Runnable \cup {None} : GoesOn(m, ended, new)
    BY <1>2, <1>6, WhatIsFound, Zenon
  <2> QED
    BY <2>1, Zenon DEF GoesOn
<1>10. new # None => new \in GMP!Gs /\ Status[new] = "Grunnable" /\ new # g
  BY <1>4, <1>9, Zenon DEF Runnable
<1>11. /\ Status' \in [GMP!Gs -> {"Gidle", "Grunnable", "Grunning", "Gsyscall", "Gdead"}]
       /\ \A x \in GMP!Gs : Status'[x] = IF x = new THEN "Grunning" ELSE IF x = g THEN "Gdead" ELSE Status[x]
  BY <1>7, <1>9, <1>10, RuntimeFacts, Zenon
<1>12. /\ CurG' \in [GMP!Ms -> GMP!Gs \cup {None}]
       /\ \A x \in GMP!Ms : CurG'[x] = IF x = m THEN new ELSE CurG[x]
  BY <1>1, <1>9, <1>10, Zenon DEF GMP!TypeOK
<1>13. Runnable' = Runnable \ {new} /\ Called' = Called
  <2>0. ASSUME NEW x \in GMP!Gs
        PROVE  /\ Status'[x] = "Grunnable" <=> Status[x] = "Grunnable" /\ x # new
               /\ Status'[x] = "Gsyscall" <=> Status[x] = "Gsyscall"
    <3>1. x # None
      BY RuntimeFacts, Zenon
    <3> QED
      BY <1>4, <1>10, <1>11, <3>1, Zenon
  <2>1. Runnable' = Runnable \ {new}
    BY <2>0, Zenon DEF Runnable
  <2>2. Called' = Called
    BY <1>5, <2>0, Zenon DEF Called
  <2> QED
    BY <2>1, <2>2, Zenon
<1>14. /\ CompletedGs' \in Seq(GMP!Gs) /\ Distinct(CompletedGs')
       /\ Elements(CompletedGs') = Elements(CompletedGs) \cup ({g} \ {None})
  <2>1. CompletedGs \in Seq(GMP!Gs) /\ Distinct(CompletedGs)
    BY <1>1, Zenon DEF RuntimeInv, GMP!TypeOK
  <2>2. CASE g = None
    BY <1>5, <2>1, <2>2, Zenon
  <2>3. CASE g # None
    <3>1. g \in GMP!Gs /\ g \notin Elements(CompletedGs)
      BY <1>1, <1>4, <2>3, Zenon DEF Goroutine
    <3>2. CompletedGs' = Append(CompletedGs, g)
      BY <1>5, <2>3, Zenon
    <3>3. Append(CompletedGs, g) \in Seq(GMP!Gs)
      BY <2>1, <3>1, WaitLemma, Zenon
    <3>4. Distinct(Append(CompletedGs, g))
      BY <2>1, <3>1, WaitLemma, Zenon
    <3>5. Elements(Append(CompletedGs, g)) = Elements(CompletedGs) \cup {g}
      BY <2>1, <3>1, WaitLemma
    <3> QED
      BY <2>3, <3>2, <3>3, <3>4, <3>5, Zenon
  <2> QED
    BY <2>2, <2>3, Zenon
<1>15. GMP!TypeOK'
  <2>1. RemainingWork' \in [GMP!Gs -> Int]
    BY <1>1, <1>4, <1>5 DEF GMP!TypeOK
  <2> QED
    BY <1>1, <1>5, <1>8, <1>11, <1>12, <1>14, <2>1, NextTurn, Zenon DEF GMP!TypeOK
<1>16. ASSUME NEW x \in GMP!Gs PROVE Goroutine(x)'
  <2>1. Goroutine(x) /\ x # None
    BY <1>1, RuntimeFacts, Zenon
  <2>2. Status'[x] \in {"Grunning", "Gsyscall"} => \E k \in GMP!Ms : CurG'[k] = x
    <3>1. CASE x = new
      BY <1>12, <3>1, Zenon
    <3>2. CASE x # new /\ x # g
      BY <1>3, <1>11, <1>12, <2>1, <3>2, Zenon DEF Goroutine
    <3>3. CASE x # new /\ x = g
      BY <1>11, <3>3, Zenon
    <3> QED
      BY <3>1, <3>2, <3>3, Zenon
  <2>3. Status'[x] = "Gdead" <=> x \in Elements(CompletedGs')
    BY <1>10, <1>11, <1>14, <2>1 DEF Goroutine
  <2>4. (x > GCount' => Status'[x] = "Gidle") /\ (Status'[x] = "Gsyscall" => SyscallTicks'[x] <= 2)
    BY <1>4, <1>5, <1>10, <1>11, <2>1, Zenon DEF Goroutine
  <2> QED
    BY <2>2, <2>3, <2>4, Zenon DEF Goroutine
<1>17. ASSUME NEW x \in GMP!Ms PROVE Thread(x)'
  <2>1. Thread(x)
    BY <1>1, Zenon
  <2>2. CASE x = m
    <3>1. ~IsBlocked'[x] /\ BoundP'[x] = p /\ p # None /\ BoundM'[p] = x
      BY <1>2, <1>5, <2>2, RuntimeFacts, Zenon
    <3>2. CurG'[x] = new /\ (new # None => Status'[new] = "Grunning")
      BY <1>10, <1>11, <1>12, <2>2, Zenon
    <3>3. ~(x >= MCount')
      BY <1>2, <1>5, <2>1, <2>2, RuntimeFacts, Zenon DEF Thread
    <3> QED
      BY <3>1, <3>2, <3>3, Zenon DEF Thread
  <2>3. CASE x # m
    <3>1. CurG'[x] = CurG[x] /\ IsBlocked'[x] = IsBlocked[x] /\ BoundP'[x] = BoundP[x]
      BY <1>5, <1>12, <2>3, Zenon
    <3>2. CurG[x] # None => CurG[x] \in GMP!Gs /\ CurG[x] # g
      BY <1>1, <1>3, <2>3, Zenon DEF RuntimeInv, GMP!TypeOK
    <3>3. CurG[x] # None => Status'[CurG[x]] = Status[CurG[x]]
      <4>1. CurG[x] # None => Status[CurG[x]] \in {"Gsyscall", "Grunning"}
        BY <2>1, Zenon DEF Thread
      <4> QED
        BY <1>10, <1>11, <3>2, <4>1, Zenon
    <3> QED
      BY <1>5, <2>1, <3>1, <3>3, Zenon DEF Thread
  <2> QED
    BY <2>2, <2>3, Zenon
<1>18. ASSUME NEW x \in GMP!Ms, NEW y \in GMP!Ms, CurG'[x] # None, CurG'[x] = CurG'[y] PROVE x = y
  <2>1. \A k \in GMP!Ms : CurG[k] = new => new = None
    <3>1. \A k \in GMP!Ms : CurG[k] # None => Status[CurG[k]] \in {"Gsyscall", "Grunning"}
      BY <1>1, Zenon DEF Thread
    <3> QED
      BY <1>10, <3>1, Zenon
  <2> QED
    BY <1>12, <1>18, <2>1, Zenon DEF RuntimeInv
<1>19. (\A v \in GMP!Ps : BoundP'[BoundM'[v]] = v) /\ MCount' = GOMAXPROCS + Cardinality(Called')
  BY <1>5, <1>13, Zenon DEF RuntimeInv
<1>20. Shared(AllQueues(LocalQueue', GlobalRunQueue'), Runnable')
  BY <1>9, <1>13, Zenon
<1>21. RuntimeInv'
  BY <1>14, <1>15, <1>16, <1>17, <1>18, <1>19, <1>20, Zenon DEF RuntimeInv
<1>22. CurG'[BoundM'[p]] = new
  BY <1>2, <1>5, <1>12, Zenon
<1> QED
  BY <1>9, <1>21, <1>22, Zenon

(* The goroutines whose system calls end, each once. *)
LEMMA WhoAwakes ==
  ASSUME LibraryFacts, RuntimeInv
  PROVE  /\ GMP!Awakened \in Seq(GMP!Gs) /\ Distinct(GMP!Awakened)
         /\ Elements(GMP!Awakened) = {CurG[m] : m \in GMP!Returning}
<1> DEFINE S == GMP!Returning
           list == InOrder(S)
<1>1. S \subseteq GMP!Ms /\ (\A m \in S : CurG[m] # None) /\ CurG \in [GMP!Ms -> GMP!Gs \cup {None}]
  BY Zenon DEF GMP!Returning, GMP!Blocked, RuntimeInv, GMP!TypeOK
<1>2. IsFiniteSet(S) /\ S \subseteq Int
  <2>1. IsFiniteSet(GMP!Ms)
    BY RuntimeFacts, CountInterval DEF GMP!Ms
  <2>2. S \in SUBSET GMP!Ms
    BY <1>1, Zenon
  <2>3. IsFiniteSet(S)
    BY <2>1, <2>2, CountSubset, Zenon
  <2> QED
    BY <1>1, <2>3, RuntimeFacts
<1>3. GMP!Awakened = [i \in 1..Cardinality(S) |-> CurG[list[i]]]
  BY SameLists, Zenon DEF GMP!Awakened
<1> HIDE DEF S
<1>4. list \in Seq(S) /\ Elements(list) = S /\ Distinct(list) /\ Len(list) = Cardinality(S)
  BY <1>2, InOrderLists, Zenon
<1>5. PICK n \in Nat : n = Cardinality(S)
  BY <1>2, CountType, Zenon
<1> HIDE DEF list
<1>6. \A i \in 1..n : list[i] \in S
  BY <1>4, <1>5, ElementIn, Zenon
<1> DEFINE a == GMP!Awakened
<1>7. /\ a = [i \in 1..n |-> CurG[list[i]]]
      /\ \A i \in 1..n : CurG[list[i]] \in GMP!Gs
  BY <1>1, <1>3, <1>5, <1>6, Zenon
<1>8. a \in Seq(GMP!Gs) /\ Len(a) = n
  <2>1. a \in [1..n -> GMP!Gs]
    BY <1>7, Zenon
  <2> QED
    BY <2>1, ListOf, Zenon
<1>9. \A i \in 1..n : a[i] = CurG[list[i]]
  BY <1>7, Zenon
<1> HIDE DEF a
<1>10. Distinct(a)
  <2> SUFFICES ASSUME NEW i \in 1..n, NEW j \in 1..n, a[i] = a[j] PROVE i = j
    BY <1>8, Zenon DEF Distinct
  <2>1. list[i] = list[j]
    BY <1>1, <1>6, <1>9 DEF RuntimeInv
  <2> QED
    BY <1>4, <1>5, <2>1, Zenon DEF Distinct
<1>11. Elements(a) = {CurG[m] : m \in S}
  <2>1. Elements(a) = {a[i] : i \in 1..n} /\ S = {list[i] : i \in 1..n}
    BY <1>4, <1>5, <1>8, Zenon DEF Elements
  <2> QED
    BY <1>9, <2>1
<1> QED
  BY <1>8, <1>10, <1>11, Zenon DEF a, S

(* The loop over the Ms: the calls go on for a tick, and some end. *)
LEMMA SyscallsKeep ==
  ASSUME LibraryFacts, RuntimeInv, GMP!StepSyscalls
  PROVE  RuntimeInv'
<1>1. GMP!TypeOK /\ (\A x \in GMP!Gs : Goroutine(x)) /\ \A x \in GMP!Ms : Thread(x)
  BY Zenon DEF RuntimeInv
<1> DEFINE calls == {CurG[m] : m \in GMP!Blocked}
           back == {CurG[m] : m \in GMP!Returning}
<1>2. /\ SyscallTicks' = [g \in GMP!Gs |-> IF g \in calls THEN SyscallTicks[g] + 1 ELSE SyscallTicks[g]]
      /\ Status' = [g \in GMP!Gs |-> IF g \in back THEN "Grunnable" ELSE Status[g]]
      /\ IsSyscall' = [g \in GMP!Gs |-> IsSyscall[g] /\ g \notin back]
      /\ IsBlocked' = [m \in GMP!Ms |-> IsBlocked[m] /\ m \notin GMP!Returning]
      /\ CurG' = [m \in GMP!Ms |-> IF m \in GMP!Returning THEN None ELSE CurG[m]]
      /\ GlobalRunQueue' = GlobalRunQueue \o GMP!Awakened
      /\ TickCount' = (TickCount + 1) % PollPeriod
      /\ turn' = 0
      /\ UNCHANGED <<GCount, RemainingWork, MCount, BoundP, LocalQueue, BoundM, CompletedGs>>
  BY Zenon DEF GMP!StepSyscalls
<1>3. CurG \in [GMP!Ms -> GMP!Gs \cup {None}]
  BY <1>1, Zenon DEF GMP!TypeOK
<1>4. \A x \in GMP!Gs : x \in calls <=> Status[x] = "Gsyscall"
  <2>1. ASSUME NEW x \in GMP!Gs, x \in calls PROVE Status[x] = "Gsyscall"
    BY <1>1, <2>1, Zenon DEF GMP!Blocked, Thread
  <2>2. ASSUME NEW x \in GMP!Gs, Status[x] = "Gsyscall" PROVE x \in calls
    <3>1. PICK m \in GMP!Ms : CurG[m] = x
      BY <1>1, <2>2, Zenon DEF Goroutine
    <3>2. x # None
      BY RuntimeFacts, Zenon
    <3> QED
      BY <1>1, <2>2, <3>1, <3>2, Zenon DEF GMP!Blocked, Thread
  <2> QED
    BY <2>1, <2>2, Zenon
<1>5. \A x \in GMP!Gs : x \in back <=> Status[x] = "Gsyscall" /\ SyscallTicks[x] = 2
  <2>1. \A x : x \in back <=> x \in calls /\ SyscallTicks[x] = 2
    BY Zenon DEF GMP!Returning
  <2> QED
    BY <1>4, <2>1, Zenon
<1>6. back \subseteq GMP!Gs /\ back \cap Runnable = {}
  <2>1. back \subseteq GMP!Gs
    BY <1>3, Zenon DEF GMP!Returning, GMP!Blocked
  <2> QED
    BY <1>5, <2>1, Zenon DEF Runnable
<1>7. \A m \in GMP!Ms : m \in GMP!Returning <=> CurG[m] # None /\ CurG[m] \in back
  <2>1. \A m \in GMP!Returning : CurG[m] # None /\ m \in GMP!Ms
    BY Zenon DEF GMP!Returning, GMP!Blocked
  <2> QED
    BY <2>1, Zenon DEF RuntimeInv
<1>8. /\ GMP!Awakened \in Seq(GMP!Gs) /\ Distinct(GMP!Awakened) /\ Elements(GMP!Awakened) = back
  BY WhoAwakes, Zenon
<1> HIDE DEF calls, back
<1>9. \A x \in GMP!Gs :
        /\ Status'[x] = IF x \in back THEN "Grunnable" ELSE Status[x]
        /\ SyscallTicks'[x] = IF x \in calls THEN SyscallTicks[x] + 1 ELSE SyscallTicks[x]
        /\ SyscallTicks[x] \in 0..3
  BY <1>1, <1>2, Zenon DEF GMP!TypeOK
<1>10. Runnable' = Runnable \cup back
  BY <1>6, <1>9, Zenon DEF Runnable
<1>11. Called' = Called
  <2>1. ASSUME NEW x \in GMP!Gs
        PROVE  (Status'[x] = "Gsyscall" \/ SyscallTicks'[x] > 0) <=> (Status[x] = "Gsyscall" \/ SyscallTicks[x] > 0)
    BY <1>4, <1>5, <1>9
  <2> QED
    BY <2>1, Zenon DEF Called
<1>12. /\ GlobalRunQueue' \in Seq(GMP!Gs)
       /\ Shared(AllQueues(LocalQueue', GlobalRunQueue'), Runnable \cup back)
  <2> DEFINE qs == AllQueues(LocalQueue, GlobalRunQueue)
             list == GlobalRunQueue \o GMP!Awakened
  <2>1. LocalQueue \in [GMP!Ps -> Seq(GMP!Gs)] /\ GlobalRunQueue \in Seq(GMP!Gs)
    BY <1>1, Zenon DEF GMP!TypeOK
  <2>2. Shared(qs, Runnable)
    BY Zenon DEF RuntimeInv
  <2>3. qs[GOMAXPROCS] = GlobalRunQueue /\ GOMAXPROCS \in GMP!Places
    BY QueuesAt, RuntimeFacts, Zenon
  <2>4. AllQueues(LocalQueue, list) = With(qs, GOMAXPROCS, list)
    BY GlobalChanges, Zenon
  <2> HIDE DEF qs
  <2>5. Distinct(GlobalRunQueue) /\ Elements(GlobalRunQueue) \subseteq Runnable
    BY <2>2, <2>3, Zenon DEF Shared
  <2>6. list \in Seq(GMP!Gs) /\ Elements(list) = Elements(GlobalRunQueue) \cup back
    BY <1>8, <2>1, JoinLemma, Zenon
  <2>7. Distinct(list)
    <3>1. Elements(GlobalRunQueue) \cap Elements(GMP!Awakened) = {}
      BY <1>6, <1>8, <2>5, Zenon
    <3> QED
      BY <1>8, <2>1, <2>5, <3>1, JoinLemma, Zenon
  <2> HIDE DEF list
  <2>8. Elements(list) \cap (Runnable \ Elements(qs[GOMAXPROCS])) = {}
    BY <1>6, <2>3, <2>6, Zenon
  <2>9. Shared(With(qs, GOMAXPROCS, list), (Runnable \ Elements(qs[GOMAXPROCS])) \cup Elements(list))
    BY <2>2, <2>3, <2>6, <2>7, <2>8, ReplaceQueue, Zenon
  <2>10. (Runnable \ Elements(qs[GOMAXPROCS])) \cup Elements(list) = Runnable \cup back
    BY <2>3, <2>5, <2>6, Zenon
  <2>11. LocalQueue' = LocalQueue /\ GlobalRunQueue' = list
    BY <1>2, Zenon DEF list
  <2> QED
    BY <2>4, <2>6, <2>9, <2>10, <2>11, Zenon
<1>13. GMP!TypeOK'
  <2>1. Status' \in [GMP!Gs -> {"Gidle", "Grunnable", "Grunning", "Gsyscall", "Gdead"}]
    BY <1>1, <1>2, Zenon DEF GMP!TypeOK
  <2>2. SyscallTicks' \in [GMP!Gs -> 0..3]
    <3>1. ASSUME NEW x \in GMP!Gs
          PROVE  (IF x \in calls THEN SyscallTicks[x] + 1 ELSE SyscallTicks[x]) \in 0..3
      BY <1>1, <1>4, <1>9 DEF Goroutine
    <3> QED
      BY <1>2, <3>1, Zenon
  <2>3. IsSyscall' \in [GMP!Gs -> BOOLEAN] /\ IsBlocked' \in [GMP!Ms -> BOOLEAN]
    BY <1>2, Zenon
  <2>4. CurG' \in [GMP!Ms -> GMP!Gs \cup {None}]
    BY <1>2, <1>3, Zenon
  <2>5. TickCount' \in 0..(PollPeriod - 1) /\ turn' \in 0..GOMAXPROCS
    BY <1>1, <1>2, RuntimeFacts DEF GMP!TypeOK
  <2> QED
    BY <1>1, <1>2, <1>12, <2>1, <2>2, <2>3, <2>4, <2>5, Zenon DEF GMP!TypeOK
<1>14. ASSUME NEW x \in GMP!Gs PROVE Goroutine(x)'
  <2>1. Goroutine(x) /\ Elements(CompletedGs)' = Elements(CompletedGs)
    BY <1>1, <1>2, Zenon
  <2>2. Status'[x] \in {"Grunning", "Gsyscall"} => x \notin back /\ Status'[x] = Status[x]
    BY <1>9, Zenon
  <2>3. Status'[x] \in {"Grunning", "Gsyscall"} => \E m \in GMP!Ms : CurG'[m] = x
    <3>1. SUFFICES ASSUME Status'[x] \in {"Grunning", "Gsyscall"} PROVE \E m \in GMP!Ms : CurG'[m] = x
      BY Zenon
    <3>2. PICK m \in GMP!Ms : CurG[m] = x
      BY <2>1, <2>2, <3>1, Zenon DEF Goroutine
    <3>3. m \notin GMP!Returning
      BY <1>7, <2>2, <3>1, <3>2, Zenon
    <3> QED
      BY <1>2, <3>2, <3>3, Zenon
  <2>4. (Status'[x] = "Gdead" <=> x \in Elements(CompletedGs)') /\ (x > GCount' => Status'[x] = "Gidle")
    BY <1>2, <1>5, <1>9, <2>1, Zenon DEF Goroutine
  <2>5. Status'[x] = "Gsyscall" => SyscallTicks'[x] <= 2
    BY <1>4, <1>5, <1>9, <2>1, <2>2 DEF Goroutine
  <2> QED
    BY <2>3, <2>4, <2>5, Zenon DEF Goroutine
<1>15. ASSUME NEW x \in GMP!Ms PROVE Thread(x)'
  <2>1. Thread(x) /\ BoundP' = BoundP /\ BoundM' = BoundM /\ MCount' = MCount
    BY <1>1, <1>2, Zenon
  <2>2. CASE x \in GMP!Returning
    <3>1. CurG'[x] = None /\ IsBlocked'[x] = FALSE
      BY <1>2, <2>2, Zenon
    <3>2. CurG[x] # None /\ IsBlocked[x]
      BY <2>2, Zenon DEF GMP!Returning, GMP!Blocked
    <3> QED
      BY <2>1, <3>1, <3>2, Zenon DEF Thread
  <2>3. CASE x \notin GMP!Returning
    <3>1. CurG'[x] = CurG[x]
      BY <1>2, <2>3, Zenon
    <3>2. IsBlocked'[x] <=> IsBlocked[x]
      BY <1>2, <2>3, Zenon
    <3>3. ASSUME CurG[x] # None PROVE Status'[CurG[x]] = Status[CurG[x]]
      <4>1. CurG[x] \in GMP!Gs
        BY <1>3, <3>3, Zenon
      <4>2. CurG[x] \notin back
        BY <1>7, <2>3, <3>3, Zenon
      <4> QED
        BY <1>9, <4>1, <4>2, Zenon
    <3> QED
      BY <2>1, <3>1, <3>2, <3>3, Zenon DEF Thread
  <2> QED
    BY <2>2, <2>3, Zenon
<1>16. \A x, y \in GMP!Ms : CurG'[x] # None /\ CurG'[x] = CurG'[y] => x = y
  BY <1>2, Zenon DEF RuntimeInv
<1> QED
  BY <1>2, <1>10, <1>11, <1>12, <1>13, <1>14, <1>15, <1>16, Zenon DEF RuntimeInv

(* What findRunnableG's giving up means, for one step. *)
IdleStep ==
  \A p \in GMP!Ps :
    (turn = p /\ turn' = p + 1 /\ MCount' = MCount /\ CurG'[BoundM'[p]] = None)
      => GlobalRunQueue' = <<>> /\ \A v \in GMP!Ps : LocalQueue'[v] = <<>>

(* Every step of the runtime keeps its invariant. *)
LEMMA RuntimeStep ==
  ASSUME LibraryFacts, RuntimeInv, GMP!Next
  PROVE  RuntimeInv' /\ IdleStep
<1>1. GMP!TypeOK /\ turn \in 0..GOMAXPROCS
  BY Zenon DEF RuntimeInv, GMP!TypeOK
<1>2. CASE GMP!StepP
  <2>1. PICK p \in GMP!Ps : p = turn
    BY <1>1, <1>2, RuntimeFacts DEF GMP!StepP, GMP!Ps
  <2>2. turn' = turn + 1 /\ TickCount' = TickCount
    BY <1>2, Zenon DEF GMP!StepP
  <2>3. CASE GMP!Handoff(p)
    <3>1. RuntimeInv'
      BY <2>1, <2>2, <2>3, HandoffKeeps, Zenon
    <3>2. MCount' # MCount
      BY <1>1, <2>3, RuntimeFacts DEF GMP!Handoff, GMP!TypeOK
    <3> QED
      BY <3>1, <3>2, Zenon DEF IdleStep
  <2>4. CASE GMP!Work(p)
    <3>1. RuntimeInv' /\ CurG'[BoundM'[p]] # None
      BY <2>1, <2>2, <2>4, WorkKeeps, Zenon
    <3> QED
      BY <2>1, <3>1, Zenon DEF IdleStep
  <2>5. CASE GMP!Schedule(p)
    <3>1. /\ RuntimeInv'
          /\ CurG'[BoundM'[p]] = None => GlobalRunQueue' = <<>> /\ \A v \in GMP!Ps : LocalQueue'[v] = <<>>
      BY <2>1, <2>2, <2>5, ScheduleKeeps, Zenon
    <3> QED
      BY <2>1, <3>1, Zenon DEF IdleStep
  <2> QED
    BY <1>2, <2>1, <2>3, <2>4, <2>5, Zenon DEF GMP!StepP
<1>3. CASE GMP!StepSyscalls
  <2>1. \A p \in GMP!Ps : turn' # p + 1
    BY <1>3, RuntimeFacts DEF GMP!StepSyscalls, GMP!Ps
  <2> QED
    BY <1>3, <2>1, SyscallsKeep, Zenon DEF IdleStep
<1>4. CASE GMP!Spawn
  <2>1. PICK workUnits \in WorkUnits, isSyscall \in BOOLEAN : GMP!SpawnGoroutine(workUnits, isSyscall)
    BY <1>4, Zenon DEF GMP!Spawn
  <2>2. turn' = turn
    BY <2>1, Zenon DEF GMP!SpawnGoroutine
  <2>3. \A p \in GMP!Ps : p # p + 1
    BY RuntimeFacts DEF GMP!Ps
  <2> QED
    BY <2>1, <2>2, <2>3, SpawnKeeps, Zenon DEF IdleStep
<1> QED
  BY <1>2, <1>3, <1>4, Zenon DEF GMP!Next, GMP!Step

(* So does a step that leaves the runtime alone. *)
LEMMA RuntimeStutter ==
  ASSUME RuntimeInv, UNCHANGED gmpVars
  PROVE  RuntimeInv' /\ IdleStep
<1>1. UNCHANGED <<GCount, Status, RemainingWork, IsSyscall, SyscallTicks, MCount, CurG, BoundP, IsBlocked,
                  LocalQueue, BoundM, GlobalRunQueue, CompletedGs, TickCount, turn>>
  BY Zenon DEF gmpVars
<1>2. GMP!TypeOK'
  BY <1>1, Zenon DEF RuntimeInv, GMP!TypeOK
<1>3. /\ Runnable' = Runnable /\ Called' = Called
      /\ (\A g \in GMP!Gs : Goroutine(g)') /\ \A m \in GMP!Ms : Thread(m)'
  BY <1>1 DEF Runnable, Called, Goroutine, Thread, RuntimeInv
<1>4. RuntimeInv'
  BY <1>1, <1>2, <1>3, Zenon DEF RuntimeInv
<1>5. \A p \in GMP!Ps : p # p + 1
  BY RuntimeFacts DEF GMP!Ps
<1> QED
  BY <1>1, <1>4, <1>5, Zenon DEF IdleStep

(* What the runtime's invariant says of its owners. *)
LEMMA RuntimeMeans ==
  ASSUME RuntimeInv
  PROVE  GMP!TypeOK /\ GMP!OneOwner
<1>1. GMP!TypeOK
  BY Zenon DEF RuntimeInv
<1> DEFINE qs == AllQueues(LocalQueue, GlobalRunQueue)
<1>2. \A p \in GMP!Places : GMP!Queue(p) = qs[p]
  BY Zenon DEF GMP!Queue, AllQueues
<1>3. Shared(qs, Runnable)
  BY Zenon DEF RuntimeInv
<1> HIDE DEF qs
<1>4. \A p \in GMP!Places : GMP!Distinct(GMP!Queue(p))
  BY <1>2, <1>3, SameLists, Zenon DEF Shared
<1>5. GMP!Distinct(CompletedGs)
  BY SameLists, Zenon DEF RuntimeInv
<1>6. \A p \in GMP!Ps : BoundP[BoundM[p]] = p
  BY Zenon DEF RuntimeInv
<1>7. \A m \in GMP!Ms : BoundP[m] # None => BoundM[BoundP[m]] = m
  BY Zenon DEF RuntimeInv, Thread
<1>8. ASSUME NEW g \in GMP!Gs
      PROVE  LET on == {m \in GMP!Ms : CurG[m] = g}
             IN  /\ Status[g] = "Grunnable" <=> \E p \in GMP!Places : g \in GMP!Elements(GMP!Queue(p))
                 /\ \A p, q \in GMP!Places :
                      g \in GMP!Elements(GMP!Queue(p)) \cap GMP!Elements(GMP!Queue(q)) => p = q
                 /\ Status[g] \in {"Grunning", "Gsyscall"} <=> on # {}
                 /\ \A m, n \in on : m = n
                 /\ \A m \in on : IF Status[g] = "Grunning"
                                  THEN ~IsBlocked[m] /\ BoundP[m] # None
                                  ELSE IsBlocked[m] /\ BoundP[m] = None
                 /\ Status[g] = "Gdead" <=> g \in GMP!Elements(CompletedGs)
  <2> DEFINE on == {m \in GMP!Ms : CurG[m] = g}
  <2>1. g # None /\ Goroutine(g) /\ \A m \in GMP!Ms : Thread(m)
    BY RuntimeFacts, Zenon DEF RuntimeInv
  <2>2. Status[g] = "Grunnable" <=> \E p \in GMP!Places : g \in Elements(qs[p])
    BY <1>3 DEF Shared, Runnable
  <2>3. \A p, q \in GMP!Places : g \in Elements(qs[p]) \cap Elements(qs[q]) => p = q
    BY <1>3, Zenon DEF Shared
  <2>4. \A m \in on : IF IsBlocked[m] THEN Status[g] = "Gsyscall" /\ BoundP[m] = None
                      ELSE Status[g] = "Grunning" /\ BoundP[m] # None
    BY <2>1, Zenon DEF Thread
  <2>5. Status[g] \in {"Grunning", "Gsyscall"} <=> on # {}
    BY <2>1, <2>4, Zenon DEF Goroutine
  <2>6. \A m, n \in on : m = n
    BY <2>1, Zenon DEF RuntimeInv
  <2>7. \A m \in on : IF Status[g] = "Grunning"
                      THEN ~IsBlocked[m] /\ BoundP[m] # None
                      ELSE IsBlocked[m] /\ BoundP[m] = None
    BY <2>4, Zenon
  <2>8. Status[g] = "Gdead" <=> g \in GMP!Elements(CompletedGs)
    BY <2>1, SameLists, Zenon DEF Goroutine
  <2> QED
    BY <1>2, <2>2, <2>3, <2>5, <2>6, <2>7, <2>8, SameLists, Zenon
<1> QED
  BY <1>1, <1>4, <1>5, <1>6, <1>7, <1>8, Zenon DEF GMP!OneOwner

-----------------------------------------------------------------------------
(* The schedulers and the runtime side by side. *)
CPUInv == SchedInv /\ RuntimeInv

(* What a step may do besides keeping the invariant. *)
CPUStep ==
  /\ WorkStep /\ IdleStep
  /\ Policy = "STCF" => ShortestStep
  /\ Policy = "MLFQ" => ChargeStep

(* A step that leaves the schedulers alone runs nobody. *)
LEMMA NobodyRuns ==
  ASSUME SchedInv, UNCHANGED vars
  PROVE  SchedInv' /\ WorkStep /\ ShortestStep /\ ChargeStep
<1>1. RemainingTime' = RemainingTime /\ totalTime' = totalTime /\ AllotmentUsed' = AllotmentUsed
  BY Zenon DEF vars, levels
<1>2. \A p \in Procs : ~(RemainingTime[p] < RemainingTime[p])
  BY Numbers DEF SchedInv
<1>3. ChargeStep
  BY <1>1, NoCharge, Zenon DEF SchedInv
<1> QED
  BY <1>1, <1>2, <1>3, SchedStutter, Zenon DEF WorkStep, ShortestStep

(* Every step of the whole keeps the invariant of each. *)
LEMMA CPUKeeps ==
  ASSUME LibraryFacts, CPUInv, [Advance \/ AddWork]_cpuVars
  PROVE  CPUInv' /\ CPUStep
<1>1. SchedInv /\ RuntimeInv
  BY Zenon DEF CPUInv
<1>2. CASE Tick /\ UNCHANGED gmpVars
  BY <1>1, <1>2, SchedTick, RuntimeStutter, Zenon DEF CPUInv, CPUStep
<1>3. CASE GMP!Next /\ UNCHANGED vars
  BY <1>1, <1>3, RuntimeStep, NobodyRuns, Zenon DEF CPUInv, CPUStep
<1>4. CASE (\E arrival \in 0..MaxArrival, burst \in Workload : AddProcess(arrival, burst)) /\ UNCHANGED gmpVars
  <2>1. Workload \subseteq Bursts
    BY BurstsAreSplit, Zenon DEF Workload
  <2>2. PICK arrival \in 0..MaxArrival, burst \in Bursts : AddProcess(arrival, burst)
    BY <1>4, <2>1, Zenon
  <2> QED
    BY <1>1, <1>4, <2>2, SchedAdd, RuntimeStutter, Zenon DEF CPUInv, CPUStep
<1>5. CASE UNCHANGED cpuVars
  BY <1>1, <1>5, NobodyRuns, RuntimeStutter, Zenon DEF CPUInv, CPUStep, cpuVars
<1> QED
  BY <1>2, <1>3, <1>4, <1>5, Zenon DEF Advance, AddWork, GMP!Next

-----------------------------------------------------------------------------
(* The library's facts about finite sets, functions and well-founded orders. *)
Library == INSTANCE FiniteSetTheorems

(* The library counts as FiniteSets does. *)
LEMMA Counting ==
  \A S : Cardinality(S) = Library!Cardinality(S) /\ (IsFiniteSet(S) <=> Library!IsFiniteSet(S))
BY Zenon DEF Cardinality, Library!Cardinality, IsFiniteSet, Library!IsFiniteSet

(* What the steps above suppose of finite sets and natural numbers holds. *)
LEMMA LibraryHolds == LibraryFacts
<1>1. /\ IsFiniteSet({}) /\ Cardinality({}) = 0
      /\ \A S : IsFiniteSet(S) => Cardinality(S) \in Nat /\ (Cardinality(S) = 0 <=> S = {})
  BY Counting, Library!FS_EmptySet, Library!FS_CardinalityType, Zenon
<1>2. \A S, x : IsFiniteSet(S) =>
        /\ IsFiniteSet(S \cup {x})
        /\ Cardinality(S \cup {x}) = IF x \in S THEN Cardinality(S) ELSE Cardinality(S) + 1
  BY Counting, Library!FS_AddElement, Zenon
<1>3. \A S, x : IsFiniteSet(S) =>
        /\ IsFiniteSet(S \ {x})
        /\ Cardinality(S \ {x}) = IF x \in S THEN Cardinality(S) - 1 ELSE Cardinality(S)
  BY Counting, Library!FS_RemoveElement, Zenon
<1>4. \A x : IsFiniteSet({x}) /\ Cardinality({x}) = 1
  BY Counting, Library!FS_Singleton, Zenon
<1>5. \A S : \A T \in SUBSET S : IsFiniteSet(S) =>
        /\ IsFiniteSet(T) /\ Cardinality(T) <= Cardinality(S)
        /\ Cardinality(S) = Cardinality(T) => S = T
  BY Counting, Library!FS_Subset, Zenon
<1>6. \A a, b \in Int :
        IsFiniteSet(a..b) /\ Cardinality(a..b) = IF a > b THEN 0 ELSE b - a + 1
  BY Counting, Library!FS_Interval, Zenon
<1>7. \A S, T : IsFiniteSet(S) /\ IsFiniteSet(T) =>
        /\ IsFiniteSet(S \X T)
        /\ Cardinality(S \X T) = Cardinality(S) * Cardinality(T)
  BY Counting, Library!FS_Product, Zenon
<1>8. BijectionFact
  <2> SUFFICES ASSUME NEW S, NEW T, NEW f \in [S -> T], IsFiniteSet(S),
                      \A y \in T : \E x \in S : f[x] = y,
                      \A x, y \in S : f[x] = f[y] => x = y
               PROVE  IsFiniteSet(T) /\ Cardinality(T) = Cardinality(S)
    BY Zenon DEF BijectionFact
  <2>1. f \in Library!Surjection(S, T)
    BY Zenon DEF Library!Surjection
  <2>2. f \in Library!Injection(S, T)
    BY Zenon DEF Library!Injection, Library!IsInjective
  <2> QED
    BY <2>1, <2>2, Counting, Library!FS_Surjection, Zenon
<1>9. \A S \in SUBSET Nat : S # {} => \E x \in S : \A y \in S : x <= y
  <2> SUFFICES ASSUME NEW S \in SUBSET Nat, S # {} PROVE \E x \in S : \A y \in S : x <= y
    BY Zenon
  <2>1. PICK x \in S : \A y \in S : ~(<<y, x>> \in Library!OpToRel(<, Nat))
    BY Library!NatLessThanWellFounded, Library!WFMin, Zenon
  <2>2. ASSUME NEW y \in S PROVE x <= y
    <3>1. x \in Nat /\ y \in Nat
      BY Zenon
    <3>2. ~(y < x)
      BY <2>1, <3>1, Zenon DEF Library!OpToRel
    <3> QED
      BY <3>1, <3>2
  <2> QED
    BY <2>2, Zenon
<1> QED
  BY <1>1, <1>2, <1>3, <1>4, <1>5, <1>6, <1>7, <1>8, <1>9, Zenon DEF LibraryFacts

(***************************************************************************)
(* The invariant holds at the start, every step keeps it, and it means     *)
(* what the theorems below say.                                            *)
(***************************************************************************)
LEMMA CPUInvariant == CPUSpec => []CPUInv
<1>1. CPUInit => CPUInv
  BY LibraryHolds, SchedInit, RuntimeInit, Zenon DEF CPUInit, CPUInv
<1>2. CPUInv /\ [Advance \/ AddWork]_cpuVars => CPUInv'
  BY LibraryHolds, CPUKeeps, Zenon
<1> QED
  BY <1>1, <1>2, PTL DEF CPUSpec

(***************************************************************************)
(* The variables of the schedulers and of the runtime keep their types; a  *)
(* thread number stays below GOMAXPROCS plus the number of goroutines,     *)
(* although handoffP makes a thread in every system call.                  *)
(***************************************************************************)
THEOREM CPUTypes == CPUSpec => []CPUTypesOK
<1>1. CPUInv => CPUTypesOK
  BY SchedMeans, RuntimeMeans, Zenon DEF CPUInv, CPUTypesOK
<1> QED
  BY <1>1, CPUInvariant, PTL

(***************************************************************************)
(* For any number of processes, goroutines, Ps and queue limits: Tick of   *)
(* every policy leaves each process in one place, and handoffP,            *)
(* findRunnableG with its stealing, and the return from system calls leave *)
(* each goroutine with one owner.                                          *)
(***************************************************************************)
THEOREM OwnersAreUnique == CPUSpec => []NobodyLostOrDoubled
<1>1. CPUInv => NobodyLostOrDoubled
  BY SchedMeans, RuntimeMeans, Zenon DEF CPUInv, NobodyLostOrDoubled
<1> QED
  BY <1>1, CPUInvariant, PTL

(***************************************************************************)
(* For any bursts, arrivals and boost period: the times that Tick keeps    *)
(* add up; MLFQ charges every process for the time it runs, and gives none *)
(* more than its allotment at a level.                                     *)
(***************************************************************************)
THEOREM BooksAreKept == CPUSpec => AccountsAddUp
<1> DEFINE I == TimesAddUp /\ AllotmentKept
           A == Policy = "MLFQ" =>
                  \A p \in Procs :
                    LET ran == RemainingTime[p] - RemainingTime'[p] IN
                    State[p] \in {"READY", "RUNNING"} =>
                      \/ AllotmentUsed'[p] = AllotmentUsed[p] + ran
                      \/ /\ AllotmentUsed'[p] = ran
                         /\ \/ CurrentQueue'[p] # CurrentQueue[p]
                            \/ ticksSinceBoost' = 0
                            \/ CurrentQueue[p] = 2 /\ AllotmentUsed[p] = LevelAllotment[2]
<1>1. CPUInv => I
  BY SchedMeans, Zenon DEF CPUInv
<1>2. CPUInv /\ [Advance \/ AddWork]_cpuVars => [A]_vars
  BY LibraryHolds, CPUKeeps, Zenon DEF CPUStep, ChargeStep, Charged
<1>3. CPUSpec => []I /\ [][A]_vars
  BY <1>1, <1>2, CPUInvariant, PTL DEF CPUSpec
<1> QED
  BY <1>3, Zenon DEF AccountsAddUp, AllotmentCharged

(***************************************************************************)
(* For any quantum and number of processes: under round robin a process    *)
(* waits no longer for its first tick than one quantum for each of the     *)
(* others.                                                                 *)
(***************************************************************************)
THEOREM RoundRobinIsFair == CPUSpec => []RoundRobinResponse
<1>1. CPUInv => RoundRobinResponse
  BY SchedMeans, Zenon DEF CPUInv
<1> QED
  BY <1>1, CPUInvariant, PTL

(***************************************************************************)
(* STCF's Tick runs one of the processes with the least time left.         *)
(***************************************************************************)
THEOREM ShortestAlwaysRuns == CPUSpec => ShortestRuns
<1> DEFINE A == Policy = "STCF" =>
                  \A p, q \in Procs :
                    (RemainingTime'[p] < RemainingTime[p] /\ State'[q] \in {"READY", "RUNNING"})
                      => RemainingTime[p] <= RemainingTime[q]
<1>1. CPUInv /\ [Advance \/ AddWork]_cpuVars => [A]_vars
  BY LibraryHolds, CPUKeeps, Zenon DEF CPUStep, ShortestStep
<1>2. CPUSpec => [][A]_vars
  BY <1>1, CPUInvariant, PTL DEF CPUSpec
<1> QED
  BY <1>2, Zenon DEF ShortestRuns

(***************************************************************************)
(* No Tick idles while a process is ready, and a P comes away from         *)
(* findRunnableG without a goroutine only if every queue is empty.         *)
(***************************************************************************)
THEOREM NothingIdlesNextToWork == CPUSpec => NoIdlingNextToWork
<1> DEFINE A == totalTime' # totalTime /\ busyTime' = busyTime => \A p \in Procs : State'[p] # "READY"
           B == \A p \in GMP!Ps :
                  (turn = p /\ turn' = p + 1 /\ MCount' = MCount /\ CurG'[BoundM'[p]] = None)
                    => GlobalRunQueue' = <<>> /\ \A v \in GMP!Ps : LocalQueue'[v] = <<>>
<1>1. CPUInv /\ [Advance \/ AddWork]_cpuVars => [A]_vars /\ [B]_(GMP!gmpVars)
  BY LibraryHolds, CPUKeeps, Zenon DEF CPUStep, WorkStep, IdleStep
<1>2. CPUSpec => [][A]_vars /\ [][B]_(GMP!gmpVars)
  BY <1>1, CPUInvariant, PTL DEF CPUSpec
<1> QED
  BY <1>2, Zenon DEF NoIdlingNextToWork, WorkConserving, GMP!IdleMeansNoWork

=============================================================================
