---------------------------- MODULE KernelProofs ----------------------------
(***************************************************************************)
(* pkg/kernel, and the services of a kernel in pkg/ipc and pkg/io, for any *)
(* values of the constants: the process table is a tree rooted at init, no *)
(* command of the debugger panics, the CPU is in kernel mode whenever it   *)
(* does what is privileged, the netpoller finds who is parked, and the     *)
(* pipe delivers everything in order.                                      *)
(***************************************************************************)
EXTENDS OSKernel, HardwareCPU, MCIO, BasicLemmas

(* The table is a tree whose zombies are leaves. *)
IInv == TypeOK /\ ProcessTree /\ ZombiesAreLeaves

(* PIDs are positive integers and init's is one of them. *)
LEMMA PIDFacts ==
  /\ InitPID \in PIDs /\ PIDs \subseteq Int /\ 0 \notin PIDs
  /\ \A n \in Int : n \in PIDs <=> 1 <= n /\ n <= MaxPID
  BY ConstantsAssumption DEF PIDs, InitPID

(* The entries of a concatenation. *)
LEMMA ConcatFacts ==
  ASSUME NEW S, NEW s \in Seq(S), NEW t \in Seq(S)
  PROVE  /\ Len(s \o t) = Len(s) + Len(t)
         /\ \A i \in 1..Len(s) : (s \o t)[i] = s[i]
         /\ \A i \in 1..Len(t) : (s \o t)[Len(s) + i] = t[i]
         /\ \A i \in 1..(Len(s) + Len(t)) :
              i \in 1..Len(s) \/ (i - Len(s) \in 1..Len(t) /\ (s \o t)[i] = t[i - Len(s)])
OBVIOUS

(* A fresh table, with init alone, satisfies the invariant. *)
LEMMA InitIInv == Init => IInv
<1> SUFFICES ASSUME Init PROVE IInv
  BY Zenon
<1> USE PIDFacts, ConstantsAssumption DEF Init
<1>1. TypeOK
  <2>1. Children \in [PIDs -> Seq(PIDs)]
    OBVIOUS
  <2>2. EmptyPT \in [Pages -> Int \cup {Nil}]
    BY Zenon DEF EmptyPT
  <2>3. NextPID \in 2..(MaxPID + 1)
    OBVIOUS
  <2>4. PageTable \in [PIDs -> [Pages -> Int \cup {Nil}]]
    BY <2>2, Zenon
  <2>5. Base \in [PIDs -> Int \cup {Nil}] /\ ExitCode \in [PIDs -> ExitCodes \cup {Nil}]
    OBVIOUS
  <2>6. PPID \in [PIDs -> 0..MaxPID] /\ State \in [PIDs -> {"READY", "ZOMBIE"}]
    OBVIOUS
  <2>7. QED
    BY <2>1, <2>3, <2>4, <2>5, <2>6, Zenon DEF TypeOK
<1>2. \A p \in PIDs : Len(Children[p]) = 0
  BY Zenon
<1>3. ProcessTree
  BY <1>2 DEF ProcessTree, InitPID
<1>4. ZombiesAreLeaves
  BY DEF ZombiesAreLeaves
<1>5. QED
  BY <1>1, <1>3, <1>4, Zenon DEF IInv

(* Fork adds a leaf under a process that is not a zombie. *)
LEMMA ForkIInv ==
  ASSUME IInv, NEW parent \in PIDs, Fork(parent)
  PROVE  IInv'
<1> DEFINE c == NextPID
<1> USE PIDFacts, ConstantsAssumption
<1>1. /\ parent \in Processes /\ c \in PIDs /\ c \notin Processes /\ c # InitPID
      /\ parent < c /\ parent # c /\ c \in Int /\ parent \in Int
  BY DEF Fork, Exists, IInv, TypeOK, ProcessTree, InitPID
<1>2. Base[parent] \in Int
  BY Zenon DEF Fork, IInv, TypeOK
<1>3. /\ Processes' = Processes \cup {c} /\ NextPID' = c + 1
      /\ \A p \in PIDs : PPID'[p] = IF p = c THEN parent ELSE PPID[p]
      /\ \A p \in PIDs : State'[p] = IF p = c THEN "READY" ELSE State[p]
      /\ \A p \in PIDs : Base'[p] = IF p = c THEN Base[parent] + c ELSE Base[p]
  BY <1>1, Zenon DEF Fork, IInv, TypeOK
<1>4. /\ Children' \in [PIDs -> Seq(PIDs)]
      /\ Children'[c] = <<>> /\ Children'[parent] = Append(Children[parent], c)
      /\ \A p \in PIDs \ {c, parent} : Children'[p] = Children[p]
  <2>1. Children \in [PIDs -> Seq(PIDs)]
    BY Zenon DEF IInv, TypeOK
  <2>2. Children' = [Children EXCEPT ![parent] = Append(@, c), ![c] = <<>>]
    BY Zenon DEF Fork
  <2>3. Append(Children[parent], c) \in Seq(PIDs) /\ <<>> \in Seq(PIDs)
    BY <2>1, <1>1
  <2>4. Children' = [p \in PIDs |-> IF p = c THEN <<>>
                                    ELSE IF p = parent THEN Append(Children[parent], c)
                                    ELSE Children[p]]
    BY <2>1, <2>2, <1>1, Zenon
  <2>5. QED
    BY <2>1, <2>3, <2>4, <1>1, Zenon
<1>5. /\ Len(Children'[c]) = 0
      /\ Len(Children[parent]) \in Nat
      /\ Len(Children'[parent]) = Len(Children[parent]) + 1
      /\ Children'[parent][Len(Children[parent]) + 1] = c
      /\ \A i \in 1..Len(Children[parent]) : Children'[parent][i] = Children[parent][i]
  <2>1. PICK kids \in Seq(PIDs) : kids = Children[parent]
    BY <1>1, Zenon DEF IInv, TypeOK
  <2>2. Append(kids, c)[Len(kids) + 1] = c
    BY <1>1, <2>1
  <2>3. Len(Append(kids, c)) = Len(kids) + 1 /\ Len(kids) \in Nat
    BY <1>1, <2>1
  <2>4. \A i \in 1..Len(kids) : Append(kids, c)[i] = kids[i]
    BY <1>1, <2>1
  <2>5. Len(<<>>) = 0
    BY Zenon
  <2>6. QED
    BY <1>4, <2>1, <2>2, <2>3, <2>4, <2>5, Zenon
<1>6. TypeOK'
  <2>1. PageTable' \in [PIDs -> [Pages -> Int \cup {Nil}]]
    <3>1. ForkedPT(PageTable[parent], c) \in [Pages -> Int \cup {Nil}]
      BY <1>1 DEF IInv, TypeOK, ForkedPT
    <3>2. QED
      BY <3>1, <1>1, Zenon DEF Fork, IInv, TypeOK
  <2>2. PPID' \in [PIDs -> 0..MaxPID] /\ NextPID' \in 2..(MaxPID + 1)
    BY <1>1 DEF Fork, IInv, TypeOK
  <2>3. Base' \in [PIDs -> Int \cup {Nil}]
    BY <1>1, <1>2, SMTT(30) DEF Fork, IInv, TypeOK
  <2>4. State' \in [PIDs -> {"READY", "ZOMBIE"}] /\ ExitCode' \in [PIDs -> ExitCodes \cup {Nil}]
    BY <1>1, Zenon DEF Fork, IInv, TypeOK
  <2>5. Processes' \subseteq PIDs
    BY <1>1, <1>3, Zenon DEF IInv, TypeOK
  <2>6. panicked' \in BOOLEAN
    BY Zenon DEF Fork, IInv, TypeOK
  <2>7. QED
    BY <1>4, <2>1, <2>2, <2>3, <2>4, <2>5, <2>6, Zenon DEF TypeOK
<1>7. State[parent] # "ZOMBIE"
  BY <1>1, Zenon DEF Fork, IInv, ZombiesAreLeaves
<1>8. ZombiesAreLeaves'
  <2> SUFFICES ASSUME NEW p \in Processes'
               PROVE  /\ State'[p] = "ZOMBIE" <=> Base'[p] = Nil
                      /\ State'[p] = "ZOMBIE" => Children'[p] = <<>>
    BY <1>1, <1>3, Zenon DEF IInv, ZombiesAreLeaves
  <2>1. CASE p = c
    BY <2>1, <1>1, <1>2, <1>3
  <2>2. CASE p # c
    BY <2>2, <1>1, <1>3, <1>4, <1>7, Zenon DEF IInv, ZombiesAreLeaves, TypeOK
  <2>3. QED
    BY <2>1, <2>2, Zenon
<1>9. ProcessTree'
  <2>1. InitPID \in Processes' /\ \A p \in Processes' : p < NextPID'
    BY <1>1, <1>3 DEF IInv, ProcessTree, TypeOK
  <2>2. ASSUME NEW p \in Processes' \ {InitPID}
        PROVE  /\ PPID'[p] \in Processes'
               /\ PPID'[p] < p
               /\ \E i \in 1..Len(Children'[PPID'[p]]) : Children'[PPID'[p]][i] = p
    <3>1. CASE p = c
      BY <3>1, <1>1, <1>3, <1>5
    <3>2. CASE p # c
      <4>1. /\ p \in Processes \ {InitPID} /\ p \in PIDs /\ PPID'[p] = PPID[p]
            /\ PPID[p] # c /\ PPID[p] \in PIDs
        BY <3>2, <1>1, <1>3, SMTT(30) DEF IInv, TypeOK, ProcessTree
      <4>2. PICK i \in 1..Len(Children[PPID[p]]) : Children[PPID[p]][i] = p
        BY <4>1, Zenon DEF IInv, ProcessTree
      <4>3. i \in 1..Len(Children'[PPID[p]]) /\ Children'[PPID[p]][i] = p
        <5>1. CASE PPID[p] = parent
          BY <5>1, <4>2, <1>5
        <5>2. CASE PPID[p] # parent
          BY <5>2, <4>1, <4>2, <1>4, Zenon
        <5>3. QED
          BY <5>1, <5>2, Zenon
      <4>4. PPID[p] \in Processes' /\ PPID[p] < p
        BY <4>1, <1>3, Zenon DEF IInv, ProcessTree
      <4>5. QED
        BY <4>1, <4>3, <4>4, Zenon
    <3>3. QED
      BY <3>1, <3>2, Zenon
  <2>3. ASSUME NEW p \in Processes', NEW i \in 1..Len(Children'[p])
        PROVE  /\ Children'[p][i] \in Processes' \ {InitPID}
               /\ PPID'[Children'[p][i]] = p
               /\ \A j \in 1..Len(Children'[p]) : Children'[p][i] = Children'[p][j] => i = j
    <3>1. p # c
      BY <1>5
    <3>2. p \in Processes /\ p \in PIDs
      BY <3>1, <1>3, Zenon DEF IInv, TypeOK
    <3>3. ASSUME NEW k \in 1..Len(Children[p])
          PROVE  /\ Children[p][k] \in Processes \ {InitPID}
                 /\ Children[p][k] # c
                 /\ PPID'[Children[p][k]] = p
                 /\ \A j \in 1..Len(Children[p]) : Children[p][k] = Children[p][j] => k = j
      <4>1. /\ Children[p][k] \in Processes \ {InitPID}
            /\ PPID[Children[p][k]] = p
            /\ \A j \in 1..Len(Children[p]) : Children[p][k] = Children[p][j] => k = j
        BY <3>2, Zenon DEF IInv, ProcessTree
      <4>2. Children[p][k] # c /\ Children[p][k] \in PIDs
        BY <4>1, <1>1, Zenon DEF IInv, TypeOK
      <4>3. QED
        BY <4>1, <4>2, <1>3, Zenon
    <3>4. CASE p = parent
      <4> DEFINE n == Len(Children[parent])
      <4>1. \A j \in 1..Len(Children'[p]) :
              \/ j = n + 1 /\ Children'[p][j] = c
              \/ j \in 1..n /\ Children'[p][j] = Children[p][j] /\ Children[p][j] # c
        <5> SUFFICES ASSUME NEW j \in 1..Len(Children'[p]), j # n + 1
                     PROVE  j \in 1..n /\ Children'[p][j] = Children[p][j] /\ Children[p][j] # c
          BY <3>4, <1>5, Zenon
        <5>1. j \in 1..n
          BY <3>4, <1>5
        <5>2. QED
          BY <5>1, <3>3, <3>4, <1>5, Zenon
      <4>2. \A j \in 1..Len(Children'[p]) : Children'[p][i] = Children'[p][j] => i = j
        BY <4>1, <3>3, <3>4, SMTT(30)
      <4>3. c \in Processes' \ {InitPID} /\ PPID'[c] = p
        BY <3>4, <1>1, <1>3, Zenon
      <4>4. i \in 1..n => Children[p][i] \in Processes' \ {InitPID} /\ PPID'[Children[p][i]] = p
        BY <3>3, <3>4, <1>3, Zenon
      <4>5. QED
        BY <4>1, <4>2, <4>3, <4>4, Zenon
    <3>5. CASE p # parent
      <4>1. Children'[p] = Children[p]
        BY <3>1, <3>2, <3>5, <1>4, Zenon
      <4>2. QED
        BY <4>1, <3>3, <1>3, Zenon
    <3>6. QED
      BY <3>4, <3>5, Zenon
  <2>4. QED
    BY <2>1, <2>2, <2>3, Zenon DEF ProcessTree
<1>10. QED
  BY <1>6, <1>8, <1>9, Zenon DEF IInv

(* Exec touches neither the tree nor the states. *)
LEMMA ExecIInv ==
  ASSUME IInv, NEW pid \in PIDs, Exec(pid)
  PROVE  IInv'
<1>1. UNCHANGED <<treeVars, ExitCode, Base, panicked>>
  BY Zenon DEF Exec
<1>2. PageTable' \in [PIDs -> [Pages -> Int \cup {Nil}]]
  <2>1. [EmptyPT EXCEPT ![0] = pid * 20] \in [Pages -> Int \cup {Nil}]
    <3>1. pid \in Int /\ pid * 20 \in Int
      BY PIDFacts
    <3>2. \A x \in Int : [EmptyPT EXCEPT ![0] = x] \in [Pages -> Int \cup {Nil}]
      BY Zenon DEF EmptyPT
    <3>3. QED
      BY <3>1, <3>2, Zenon
  <2>2. QED
    BY <2>1, Zenon DEF Exec, IInv, TypeOK
<1>3. TypeOK'
  BY <1>1, <1>2, Zenon DEF IInv, TypeOK, treeVars
<1>4. (ProcessTree /\ ZombiesAreLeaves)'
  BY <1>1 DEF IInv, ProcessTree, ZombiesAreLeaves, treeVars
<1>5. QED
  BY <1>3, <1>4, Zenon DEF IInv

(* Exit moves the list of the exiting process to the end of init's. *)
LEMMA ExitIInv ==
  ASSUME IInv, NEW pid \in PIDs, NEW code \in ExitCodes, Exit(pid, code)
  PROVE  IInv'
<1> DEFINE orphans == Children[pid]
           m == Len(Children[InitPID])
           n == Len(orphans)
<1> USE PIDFacts, ConstantsAssumption
<1>1. /\ pid \in Processes /\ pid # InitPID /\ InitPID \in Processes
      /\ orphans \in Seq(PIDs) /\ Children[InitPID] \in Seq(PIDs)
      /\ m \in Nat /\ n \in Nat
  <2>1. pid \in Processes /\ pid # InitPID /\ InitPID \in Processes
    BY Zenon DEF Exit, Exists, IInv, ProcessTree
  <2>2. orphans \in Seq(PIDs) /\ Children[InitPID] \in Seq(PIDs)
    BY Zenon DEF IInv, TypeOK
  <2>3. QED
    BY <2>1, <2>2
<1>2. Existing(Children[pid]) = orphans
  BY <1>1, Zenon DEF Existing, IInv, ProcessTree
<1>3. /\ Processes' = Processes /\ NextPID' = NextPID
      /\ \A p \in PIDs : PPID'[p] = IF \E i \in 1..n : orphans[i] = p THEN InitPID ELSE PPID[p]
      /\ \A p \in PIDs : State'[p] = IF p = pid THEN "ZOMBIE" ELSE State[p]
      /\ \A p \in PIDs : Base'[p] = IF p = pid THEN Nil ELSE Base[p]
  BY <1>1, <1>2, Zenon DEF Exit, IInv, TypeOK
<1>4. Children' = [p \in PIDs |-> IF p = pid THEN <<>>
                                  ELSE IF p = InitPID THEN Children[InitPID] \o orphans
                                  ELSE Children[p]]
  BY <1>1, <1>2, Zenon DEF Exit, IInv, TypeOK
<1>5. /\ Children' \in [PIDs -> Seq(PIDs)]
      /\ Children'[pid] = <<>> /\ Len(Children'[pid]) = 0
      /\ Children'[InitPID] = Children[InitPID] \o orphans
      /\ \A p \in PIDs \ {pid, InitPID} : Children'[p] = Children[p]
  <2>1. Children[InitPID] \o orphans \in Seq(PIDs) /\ <<>> \in Seq(PIDs)
    BY <1>1
  <2>2. QED
    BY <1>1, <1>4, <2>1, Zenon DEF IInv, TypeOK
<1>6. /\ Len(Children'[InitPID]) = m + n
      /\ \A i \in 1..m : Children'[InitPID][i] = Children[InitPID][i]
      /\ \A i \in 1..n : Children'[InitPID][m + i] = orphans[i]
      /\ \A i \in 1..(m + n) : i \in 1..m \/ (i - m \in 1..n /\ Children'[InitPID][i] = orphans[i - m])
  <2> DEFINE cat == Children[InitPID] \o orphans
  <2>1. /\ Len(cat) = m + n
        /\ \A i \in 1..m : cat[i] = Children[InitPID][i]
        /\ \A i \in 1..n : cat[m + i] = orphans[i]
        /\ \A i \in 1..(m + n) : i \in 1..m \/ (i - m \in 1..n /\ cat[i] = orphans[i - m])
    <3>1. PICK one \in Seq(PIDs) : one = Children[InitPID]
      BY <1>1, Zenon
    <3>2. PICK two \in Seq(PIDs) : two = orphans
      BY <1>1, Zenon
    <3>3. /\ Len(one \o two) = Len(one) + Len(two)
          /\ \A i \in 1..Len(one) : (one \o two)[i] = one[i]
          /\ \A i \in 1..Len(two) : (one \o two)[Len(one) + i] = two[i]
          /\ \A i \in 1..(Len(one) + Len(two)) :
               i \in 1..Len(one) \/ (i - Len(one) \in 1..Len(two) /\ (one \o two)[i] = two[i - Len(one)])
      BY ConcatFacts, Zenon
    <3>4. QED
      BY <3>1, <3>2, <3>3, Zenon
  <2>2. Children'[InitPID] = cat
    BY <1>5, Zenon
  <2> HIDE DEF cat, m, n
  <2>3. QED
    BY <2>1, <2>2, Zenon
<1>7. TypeOK'
  <2>1. PPID' \in [PIDs -> 0..MaxPID]
    BY <1>1, <1>2, <1>3 DEF Exit, IInv, TypeOK
  <2>2. /\ State' \in [PIDs -> {"READY", "ZOMBIE"}]
        /\ ExitCode' \in [PIDs -> ExitCodes \cup {Nil}]
        /\ Base' \in [PIDs -> Int \cup {Nil}]
    BY Zenon DEF Exit, IInv, TypeOK
  <2>3. QED
    BY <1>5, <2>1, <2>2, Zenon DEF Exit, IInv, TypeOK
<1>8. ZombiesAreLeaves'
  <2> SUFFICES ASSUME NEW p \in Processes
               PROVE  /\ State'[p] = "ZOMBIE" <=> Base'[p] = Nil
                      /\ State'[p] = "ZOMBIE" => Children'[p] = <<>>
    BY <1>1, <1>3, Zenon DEF IInv, ZombiesAreLeaves
  <2>1. p \in PIDs
    BY Zenon DEF IInv, TypeOK
  <2>2. QED
    BY <1>1, <1>3, <1>5, <2>1, Zenon DEF IInv, ZombiesAreLeaves
<1>9. ASSUME NEW p \in Processes \ {InitPID}
      PROVE  /\ p \in PIDs /\ PPID[p] \in Processes /\ PPID[p] \in PIDs /\ PPID[p] < p
             /\ (\E i \in 1..n : orphans[i] = p) <=> PPID[p] = pid
  <2>1. p \in PIDs /\ PPID[p] \in Processes /\ PPID[p] \in PIDs /\ PPID[p] < p
    BY Zenon DEF IInv, TypeOK, ProcessTree
  <2>2. PPID[p] = pid => \E i \in 1..n : orphans[i] = p
    BY Zenon DEF IInv, ProcessTree
  <2>3. \A i \in 1..n : PPID[orphans[i]] = pid
    BY <1>1, Zenon DEF IInv, ProcessTree
  <2>4. QED
    BY <2>1, <2>2, <2>3, Zenon
<1>10. ASSUME NEW p \in Processes, NEW k \in 1..Len(Children[p])
       PROVE  /\ Children[p][k] \in Processes \ {InitPID} /\ Children[p][k] \in PIDs
              /\ PPID[Children[p][k]] = p
              /\ \A j \in 1..Len(Children[p]) : Children[p][k] = Children[p][j] => k = j
  BY Zenon DEF IInv, TypeOK, ProcessTree
<1>11. /\ \A k \in 1..m : /\ Children[InitPID][k] \in Processes \ {InitPID}
                          /\ PPID[Children[InitPID][k]] = InitPID
       /\ \A k, j \in 1..m : Children[InitPID][k] = Children[InitPID][j] => k = j
       /\ \A k \in 1..n : orphans[k] \in Processes \ {InitPID} /\ PPID[orphans[k]] = pid
       /\ \A k, j \in 1..n : orphans[k] = orphans[j] => k = j
       /\ m = Len(Children[InitPID])
  BY <1>1, <1>10, Zenon
<1> HIDE DEF m, n, orphans
<1>12. ProcessTree'
  <2>1. ASSUME NEW p \in Processes \ {InitPID}
        PROVE  /\ PPID'[p] \in Processes
               /\ PPID'[p] < p
               /\ \E i \in 1..Len(Children'[PPID'[p]]) : Children'[PPID'[p]][i] = p
    <3>1. CASE PPID[p] = pid
      <4>1. PPID'[p] = InitPID /\ InitPID < p
        <5>1. p \in PIDs /\ p # InitPID /\ p >= 1 /\ p \in Int
          BY <1>9, Zenon
        <5>2. QED
          BY <5>1, <3>1, <1>3, <1>9 DEF InitPID
      <4>2. PICK i \in 1..n : orphans[i] = p
        BY <3>1, <1>9, Zenon
      <4>3. m + i \in 1..Len(Children'[InitPID]) /\ Children'[InitPID][m + i] = p
        BY <4>2, <1>1, <1>6
      <4>4. QED
        BY <4>1, <4>3, <1>1, Zenon
    <3>2. CASE PPID[p] # pid
      <4>1. PPID'[p] = PPID[p]
        BY <3>2, <1>3, <1>9, Zenon
      <4>2. PICK i \in 1..Len(Children[PPID[p]]) : Children[PPID[p]][i] = p
        BY Zenon DEF IInv, ProcessTree
      <4>3. i \in 1..Len(Children'[PPID[p]]) /\ Children'[PPID[p]][i] = p
        <5>1. CASE PPID[p] = InitPID
          BY <5>1, <4>2, <1>1, <1>6, <1>11
        <5>2. CASE PPID[p] # InitPID
          BY <5>2, <3>2, <4>2, <1>5, <1>9, Zenon
        <5>3. QED
          BY <5>1, <5>2, Zenon
      <4>4. QED
        BY <4>1, <4>3, <1>9, Zenon
    <3>3. QED
      BY <3>1, <3>2, Zenon
  <2>2. ASSUME NEW p \in Processes, NEW i \in 1..Len(Children'[p])
        PROVE  /\ Children'[p][i] \in Processes \ {InitPID}
               /\ PPID'[Children'[p][i]] = p
               /\ \A j \in 1..Len(Children'[p]) : Children'[p][i] = Children'[p][j] => i = j
    <3>1. p \in PIDs /\ p # pid
      BY <1>5 DEF IInv, TypeOK
    <3>2. CASE p = InitPID
      <4>1. \A j \in 1..Len(Children'[p]) :
              \/ /\ j \in 1..m /\ Children'[p][j] = Children[InitPID][j]
                 /\ PPID[Children[InitPID][j]] = InitPID
                 /\ Children[InitPID][j] \in Processes \ {InitPID}
              \/ /\ j - m \in 1..n /\ Children'[p][j] = orphans[j - m]
                 /\ PPID[orphans[j - m]] = pid
                 /\ orphans[j - m] \in Processes \ {InitPID}
        BY <3>2, <1>1, <1>6, <1>11, Zenon
      <4>2. \A q \in Processes \ {InitPID} :
              PPID[q] \in {pid, InitPID} => PPID'[q] = InitPID
        BY <1>3, <1>9, Zenon
      <4>3. ASSUME NEW j \in 1..Len(Children'[p]), Children'[p][i] = Children'[p][j]
            PROVE  i = j
        <5>1. CASE i \in 1..m /\ Children'[p][i] = Children[InitPID][i]
                   /\ PPID[Children[InitPID][i]] = InitPID
          <6>1. j \in 1..m /\ Children'[p][j] = Children[InitPID][j]
            BY <5>1, <4>1, <4>3, <1>1, Zenon
          <6>2. QED
            BY <5>1, <6>1, <4>3, <1>11, Zenon
        <5>2. CASE i - m \in 1..n /\ Children'[p][i] = orphans[i - m]
                   /\ PPID[orphans[i - m]] = pid
          <6>1. j - m \in 1..n /\ Children'[p][j] = orphans[j - m]
            BY <5>2, <4>1, <4>3, <1>1, Zenon
          <6>2. i - m = j - m
            BY <5>2, <6>1, <4>3, <1>1, <1>11, Zenon
          <6>3. QED
            BY <6>2, <1>1, <1>6, <3>2
        <5>3. QED
          BY <5>1, <5>2, <4>1, Zenon
      <4>4. QED
        BY <4>1, <4>2, <4>3, <3>2, Zenon
    <3>3. CASE p # InitPID
      <4>1. Children'[p] = Children[p]
        BY <3>1, <3>3, <1>5, Zenon
      <4>2. /\ Children[p][i] \in Processes \ {InitPID} /\ PPID[Children[p][i]] = p
            /\ \A j \in 1..Len(Children[p]) : Children[p][i] = Children[p][j] => i = j
        BY <4>1, <1>10, Zenon
      <4>3. PPID'[Children[p][i]] = p
        BY <4>2, <3>1, <1>3, <1>9, Zenon
      <4>4. QED
        BY <4>1, <4>2, <4>3, Zenon
    <3>4. QED
      BY <3>2, <3>3, Zenon
  <2>3. InitPID \in Processes' /\ \A p \in Processes' : p < NextPID'
    BY <1>3, Zenon DEF IInv, ProcessTree
  <2>4. QED
    BY <2>1, <2>2, <2>3, <1>3, Zenon DEF ProcessTree
<1>13. QED
  BY <1>7, <1>8, <1>12, Zenon DEF IInv

(* Dropping one entry of a sequence leaves a shorter sequence. *)
LEMMA WithoutFacts ==
  ASSUME NEW S, NEW s \in Seq(S), NEW i \in 1..Len(s)
  PROVE  Without(s, i) \in Seq(S) /\ Len(Without(s, i)) = Len(s) - 1
<1>1. Len(s) - 1 \in Nat
  OBVIOUS
<1>2. \A j \in 1..(Len(s) - 1) : (IF j < i THEN s[j] ELSE s[j + 1]) \in S
  OBVIOUS
<1>3. QED
  BY <1>1, <1>2 DEF Without

(* Wait removes a zombie, which is a leaf, from the table and from its      *)
(* parent's list.                                                           *)
LEMMA WaitIInv ==
  ASSUME IInv, NEW parent \in PIDs, Wait(parent)
  PROVE  IInv'
<1> DEFINE list == Children[parent]
<1> USE PIDFacts, ConstantsAssumption
<1>1. PICK i \in 1..Len(list) :
        /\ FirstZombie(list, i)
        /\ Processes' = Processes \ {list[i]}
        /\ ExitCode' = [ExitCode EXCEPT ![list[i]] = Nil]
        /\ Children' = [Children EXCEPT ![parent] = Without(@, i)]
  BY Zenon DEF Wait
<1> DEFINE z == list[i]
           w == Without(list, i)
<1>2. /\ parent \in Processes /\ list \in Seq(PIDs) /\ Len(list) \in Nat
      /\ UNCHANGED <<NextPID, PPID, State, Base, PageTable, panicked>>
  <2>1. list \in Seq(PIDs)
    BY Zenon DEF IInv, TypeOK
  <2>2. QED
    BY <2>1 DEF Wait, Exists
<1>3. ASSUME NEW p \in Processes, NEW k \in 1..Len(Children[p])
      PROVE  /\ Children[p][k] \in Processes \ {InitPID}
             /\ PPID[Children[p][k]] = p
             /\ \A j \in 1..Len(Children[p]) : Children[p][k] = Children[p][j] => k = j
  BY Zenon DEF IInv, ProcessTree
<1>4. /\ z \in Processes \ {InitPID} /\ z \in PIDs /\ PPID[z] = parent
      /\ \A k \in 1..Len(list) : list[k] = z => k = i
  <2>1. z \in Processes \ {InitPID} /\ PPID[z] = parent
    BY <1>2, <1>3, Zenon
  <2>2. \A k \in 1..Len(list) : list[k] = z => k = i
    BY <1>2, <1>3, Zenon
  <2>3. QED
    BY <2>1, <2>2, Zenon DEF IInv, TypeOK
<1>5. z # parent /\ Children[z] = <<>>
  <2>1. PPID[z] < z
    BY <1>4, Zenon DEF IInv, ProcessTree
  <2>2. Children[z] = <<>>
    BY <1>1, <1>4, Zenon DEF FirstZombie, IInv, ZombiesAreLeaves
  <2>3. QED
    BY <2>1, <2>2, <1>4
<1>6. /\ Children' = [p \in PIDs |-> IF p = parent THEN w ELSE Children[p]]
      /\ Children'[parent] = w
      /\ \A p \in PIDs : p # parent => Children'[p] = Children[p]
  BY <1>1, Zenon DEF IInv, TypeOK
<1>7. /\ w \in Seq(PIDs) /\ Len(w) = Len(list) - 1
      /\ \A k \in 1..Len(list) : k # i => \E j \in 1..(Len(list) - 1) : w[j] = list[k]
      /\ \A j \in 1..(Len(list) - 1) :
           /\ j < i => j \in 1..Len(list) /\ j # i /\ w[j] = list[j]
           /\ ~(j < i) => j + 1 \in 1..Len(list) /\ j + 1 # i /\ w[j] = list[j + 1]
  <2> HIDE DEF list
  <2>1. list \in Seq(PIDs) /\ i \in 1..Len(list)
    BY <1>2, Zenon
  <2>2. w \in Seq(PIDs) /\ Len(w) = Len(list) - 1
    BY ONLY <2>1, WithoutFacts, Zenon
  <2>3. \A j \in 1..(Len(list) - 1) : w[j] = IF j < i THEN list[j] ELSE list[j + 1]
    BY ONLY Zenon DEF Without
  <2> HIDE DEF w
  <2>4. ASSUME NEW k \in 1..Len(list), k # i
        PROVE  \E j \in 1..(Len(list) - 1) : w[j] = list[k]
    <3>1. CASE k < i
      <4>1. k \in 1..(Len(list) - 1) /\ w[k] = list[k]
        BY <3>1, <2>3, <1>2
      <4>2. QED
        BY <4>1, Zenon
    <3>2. CASE ~(k < i)
      <4>1. k - 1 \in 1..(Len(list) - 1) /\ w[k - 1] = list[k]
        BY <3>2, <2>3, <2>4, <1>2
      <4>2. QED
        BY <4>1, Zenon
    <3>3. QED
      BY <3>1, <3>2, Zenon
  <2>5. \A j \in 1..(Len(list) - 1) :
           /\ j < i => j \in 1..Len(list) /\ j # i /\ w[j] = list[j]
           /\ ~(j < i) => j + 1 \in 1..Len(list) /\ j + 1 # i /\ w[j] = list[j + 1]
    BY <2>3, <1>2
  <2>6. QED
    BY <2>2, <2>4, <2>5, Zenon
<1> HIDE DEF w
<1>8. TypeOK'
  <2>1. Children' \in [PIDs -> Seq(PIDs)]
    BY <1>6, <1>7, Zenon DEF IInv, TypeOK
  <2>2. ExitCode' \in [PIDs -> ExitCodes \cup {Nil}] /\ Processes' \subseteq PIDs
    BY <1>1, <1>4, Zenon DEF IInv, TypeOK
  <2>3. QED
    BY <2>1, <2>2, <1>2, Zenon DEF IInv, TypeOK
<1>9. ZombiesAreLeaves'
  <2>1. ASSUME NEW p \in Processes', State[p] = "ZOMBIE"
        PROVE  Children'[p] = <<>>
    <3>1. p \in Processes /\ p \in PIDs /\ Children[p] = <<>>
      BY <2>1, <1>1, Zenon DEF IInv, TypeOK, ZombiesAreLeaves
    <3>2. p # parent
      BY <3>1
    <3>3. QED
      BY <3>1, <3>2, <1>6, Zenon
  <2>2. QED
    BY <2>1, <1>1, <1>2, Zenon DEF IInv, ZombiesAreLeaves
<1>10. ProcessTree'
  <2>1. InitPID \in Processes' /\ \A p \in Processes' : p < NextPID'
    BY <1>1, <1>2, <1>4, Zenon DEF IInv, ProcessTree
  <2>2. ASSUME NEW p \in Processes' \ {InitPID}
        PROVE  /\ PPID'[p] \in Processes'
               /\ PPID'[p] < p
               /\ \E k \in 1..Len(Children'[PPID'[p]]) : Children'[PPID'[p]][k] = p
    <3>1. p \in Processes \ {InitPID} /\ p # z
      BY <1>1, Zenon
    <3>2. PICK k \in 1..Len(Children[PPID[p]]) : Children[PPID[p]][k] = p
      BY <3>1, Zenon DEF IInv, ProcessTree
    <3>3. PPID[p] \in Processes /\ PPID[p] < p /\ PPID[p] \in PIDs
      BY <3>1, Zenon DEF IInv, ProcessTree, TypeOK
    <3>4. PPID[p] # z
      BY <3>2, <1>5
    <3>5. \E j \in 1..Len(Children'[PPID[p]]) : Children'[PPID[p]][j] = p
      <4>1. CASE PPID[p] = parent
        <5>1. k \in 1..Len(list) /\ list[k] = p /\ k # i
          BY <4>1, <3>1, <3>2, Zenon
        <5>2. PICK j \in 1..(Len(list) - 1) : w[j] = list[k]
          BY <5>1, <1>7, Zenon
        <5>3. QED
          BY <4>1, <5>1, <5>2, <1>6, <1>7, Zenon
      <4>2. CASE PPID[p] # parent
        BY <4>2, <3>2, <3>3, <1>6, Zenon
      <4>3. QED
        BY <4>1, <4>2, Zenon
    <3>6. QED
      BY <3>3, <3>4, <3>5, <1>1, <1>2, Zenon
  <2>3. ASSUME NEW p \in Processes', NEW k \in 1..Len(Children'[p])
        PROVE  /\ Children'[p][k] \in Processes' \ {InitPID}
               /\ PPID'[Children'[p][k]] = p
               /\ \A j \in 1..Len(Children'[p]) : Children'[p][k] = Children'[p][j] => k = j
    <3>1. p \in Processes /\ p \in PIDs
      BY <1>1, Zenon DEF IInv, TypeOK
    <3>2. CASE p = parent
      <4> DEFINE at(j) == IF j < i THEN j ELSE j + 1
      <4>1. \A j \in 1..Len(Children'[p]) :
              at(j) \in 1..Len(list) /\ at(j) # i /\ Children'[p][j] = list[at(j)]
        BY <3>2, <1>6, <1>7, Zenon
      <4>2. \A j \in 1..Len(Children'[p]) : at(k) = at(j) => k = j
        BY <3>2, <1>6, <1>7
      <4> HIDE DEF at
      <4>3. /\ list[at(k)] \in Processes \ {InitPID} /\ PPID[list[at(k)]] = p
            /\ \A j \in 1..Len(list) : list[at(k)] = list[j] => at(k) = j
        BY <4>1, <3>2, <1>2, <1>3, Zenon
      <4>4. list[at(k)] # z
        BY <4>1, <1>4, Zenon
      <4>5. Children'[p][k] \in Processes' \ {InitPID} /\ PPID'[Children'[p][k]] = p
        BY <4>1, <4>3, <4>4, <1>1, <1>2
      <4>6. \A j \in 1..Len(Children'[p]) : Children'[p][k] = Children'[p][j] => k = j
        BY <4>1, <4>2, <4>3, Zenon
      <4>7. QED
        BY <4>5, <4>6, Zenon
    <3>3. CASE p # parent
      <4>1. Children'[p] = Children[p]
        BY <3>1, <3>3, <1>6, Zenon
      <4>2. /\ Children[p][k] \in Processes \ {InitPID} /\ PPID[Children[p][k]] = p
            /\ \A j \in 1..Len(Children[p]) : Children[p][k] = Children[p][j] => k = j
        BY <4>1, <3>1, <1>3, Zenon
      <4>3. Children[p][k] # z
        BY <4>2, <3>3, <1>4, Zenon
      <4>4. QED
        BY <4>1, <4>2, <4>3, <1>1, <1>2
    <3>4. QED
      BY <3>2, <3>3, Zenon
  <2>4. QED
    BY <2>1, <2>2, <2>3, Zenon DEF ProcessTree
<1>11. QED
  BY <1>8, <1>9, <1>10, Zenon DEF IInv

(* Every step of the process manager preserves the invariant. *)
LEMMA NextIInv == IInv /\ [Next]_vars => IInv'
<1> SUFFICES ASSUME IInv, [Next]_vars PROVE IInv'
  BY Zenon
<1>1. ASSUME NEW pid \in PIDs, ForkZombie(pid) PROVE IInv'
  <2>1. NextPID' = NextPID + 1 /\ NextPID <= MaxPID /\ panicked' = TRUE
        /\ UNCHANGED <<Processes, PPID, State, Children, ExitCode, Base, PageTable>>
    BY <1>1, Zenon DEF ForkZombie
  <2>2. TypeOK'
    BY <2>1, ConstantsAssumption DEF IInv, TypeOK
  <2>3. \A p \in Processes : p < NextPID + 1
    BY PIDFacts DEF IInv, TypeOK, ProcessTree
  <2>4. ProcessTree'
    BY <2>1, <2>3 DEF IInv, ProcessTree
  <2>5. QED
    BY <2>1, <2>2, <2>4, Zenon DEF IInv, ZombiesAreLeaves
<1>2. ASSUME NEW pid \in PIDs, ExecZombie(pid) PROVE IInv'
  BY <1>2 DEF ExecZombie, IInv, TypeOK, ProcessTree, ZombiesAreLeaves, treeVars
<1>3. CASE UNCHANGED vars
  BY <1>3 DEF vars, treeVars, IInv, TypeOK, ProcessTree, ZombiesAreLeaves
<1>4. QED
  BY <1>1, <1>2, <1>3, ForkIInv, ExecIInv, ExitIInv, WaitIInv, Zenon DEF Next

(* The invariant holds in every reachable state. *)
LEMMA Invariance == Spec => []IInv
  BY InitIInv, NextIInv, PTL DEF Spec

(* The variables of ProcessManager keep their types. *)
THEOREM TypeCorrect == Spec => []TypeOK
<1>1. IInv => TypeOK
  BY Zenon DEF IInv
<1>2. QED
  BY <1>1, Invariance, PTL

(* Whatever the sequence of forks, exits and waits, parents and child lists *)
(* agree and form a tree rooted at init: no process is lost to Wait, and    *)
(* none is listed twice.                                                    *)
THEOREM TreeRootedAtInit == Spec => []ProcessTree
<1>1. IInv => ProcessTree
  BY Zenon DEF IInv
<1>2. QED
  BY <1>1, Invariance, PTL

(* Zombies never have children, and they are exactly the processes without  *)
(* an address space.                                                        *)
THEOREM LeafZombies == Spec => []ZombiesAreLeaves
<1>1. IInv => ZombiesAreLeaves
  BY Zenon DEF IInv
<1>2. QED
  BY <1>1, Invariance, PTL

-----------------------------------------------------------------------------
(* Whatever has been added to the scheduler has arrived when it next looks, *)
(* so that nothing is admitted and init runs forever.                       *)
DebuggerInv ==
  /\ IInv /\ KernelTypeOK
  /\ ~panicked
  /\ \A p \in PIDs : due[p] # 1
  /\ admitted = {} /\ scheduled = Nil /\ RunningProcess = InitPID

(* Init has an address space. *)
LEMMA InitHasBase == ASSUME IInv PROVE Base[InitPID] # Nil
BY Zenon DEF IInv, ProcessTree, ZombiesAreLeaves

(* Adding a process leaves its arrival time in the past of the next tick. *)
LEMMA AddedIsDue ==
  ASSUME KernelTypeOK, \A p \in PIDs : due[p] # 1, NEW pid \in PIDs, Add(pid)
  PROVE  due' \in [PIDs -> -1..1] /\ \A p \in PIDs : due'[p] # 1
BY DEF KernelTypeOK, Add, ArrivesNow

(* A step of the process manager under the debugger. *)
LEMMA ManagerStep ==
  ASSUME DebuggerInv, IInv', panicked' = panicked,
         \/ UNCHANGED due
         \/ \E pid \in PIDs : Add(pid),
         UNCHANGED <<RunningProcess, admitted, scheduled>>, setup' \in 0..4
  PROVE  DebuggerInv'
<1>1. due' \in [PIDs -> -1..1] /\ \A p \in PIDs : due'[p] # 1
  <2>1. CASE UNCHANGED due
    BY <2>1, Zenon DEF DebuggerInv, KernelTypeOK
  <2>2. CASE \E pid \in PIDs : Add(pid)
    BY <2>2, AddedIsDue, Zenon DEF DebuggerInv
  <2> QED
    BY <2>1, <2>2, Zenon
<1> QED
  BY <1>1, Zenon DEF DebuggerInv, KernelTypeOK

(* Fork and Exec of a process that has an address space. *)
LEMMA ForkExec ==
  ASSUME DebuggerInv, NEW pid \in PIDs, Fork(pid) \/ Exec(pid)
  PROVE  IInv' /\ panicked' = panicked
<1>1. CASE Fork(pid)
  BY <1>1, ForkIInv, Zenon DEF DebuggerInv, Fork
<1>2. CASE Exec(pid)
  BY <1>2, ExecIInv, Zenon DEF DebuggerInv, Exec
<1> QED
  BY <1>1, <1>2, Zenon

(* The set-up. *)
LEMMA SetUpStep == ASSUME DebuggerInv, SetUp PROVE DebuggerInv'
<1>1. NextPID - 1 \in PIDs /\ InitPID \in PIDs
  BY PIDFacts, ConstantsAssumption DEF DebuggerInv, IInv, TypeOK, PIDs
<1>2. /\ setup' \in 0..4 /\ UNCHANGED <<RunningProcess, admitted, scheduled>>
      /\ \/ Fork(InitPID) /\ UNCHANGED due
         \/ Exec(NextPID - 1) /\ Add(NextPID - 1)
  BY DEF SetUp, DebuggerInv, KernelTypeOK
<1>3. IInv' /\ panicked' = panicked
  BY <1>1, <1>2, ForkExec, Zenon
<1> QED
  BY <1>1, <1>2, <1>3, ManagerStep, Zenon

(* The scheduler is ticked: nobody arrives. *)
LEMMA TickStep == ASSUME DebuggerInv, Step, UNCHANGED setup PROVE DebuggerInv'
<1>1. Arriving = {}
  BY Zenon DEF Arriving, DebuggerInv
<1>2. admitted' = {} /\ scheduled' = Nil
  BY <1>1, Zenon DEF Step, Idle, DebuggerInv
<1>3. RunningProcess' = RunningProcess
  BY <1>2, Zenon DEF Step
<1>4. due' \in [PIDs -> -1..1] /\ \A p \in PIDs : due'[p] # 1
  BY DEF Step, DebuggerInv, KernelTypeOK
<1>5. UNCHANGED vars
  BY Zenon DEF Step
<1>6. IInv' /\ panicked' = panicked
  BY <1>5, NextIInv, Zenon DEF DebuggerInv, vars
<1> QED
  BY <1>2, <1>3, <1>4, <1>6, Zenon DEF DebuggerInv, KernelTypeOK

(* The other commands. *)
LEMMA CommandStep == ASSUME DebuggerInv, Command PROVE DebuggerInv'
<1>1. /\ RunningProcess = InitPID /\ InitPID \in PIDs /\ InitPID # Nil /\ Base[InitPID] # Nil
      /\ IInv /\ setup' \in 0..4 /\ UNCHANGED setup
  BY InitHasBase, PIDFacts, ConstantsAssumption, Zenon DEF DebuggerInv, KernelTypeOK, Command
<1>2. CASE Step
  BY <1>1, <1>2, TickStep, Zenon
<1>3. CASE CommandFork /\ UNCHANGED <<RunningProcess, admitted, scheduled>>
  <2>1. Fork(InitPID) /\ Add(NextPID)
    BY <1>1, <1>3, Zenon DEF CommandFork
  <2>2. NextPID \in PIDs
    BY <1>1, <2>1, PIDFacts DEF Fork, IInv, TypeOK
  <2> QED
    BY <1>1, <1>3, <2>1, <2>2, ForkExec, ManagerStep, Zenon
<1>4. CASE CommandExec /\ UNCHANGED <<RunningProcess, admitted, scheduled>>
  <2>1. Exec(InitPID) /\ UNCHANGED due
    BY <1>1, <1>4, Zenon DEF CommandExec
  <2> QED
    BY <1>1, <1>4, <2>1, ForkExec, ManagerStep, Zenon
<1>5. ASSUME NEW pid \in PIDs, CommandKill(pid),
             UNCHANGED <<RunningProcess, admitted, scheduled>>
      PROVE  DebuggerInv'
  <2>1. IInv' /\ panicked' = panicked /\ UNCHANGED due
    BY <1>1, <1>5, ExitIInv, DebuggerAssumption, Zenon DEF CommandKill, Exit
  <2> QED
    BY <1>1, <1>5, <2>1, ManagerStep, Zenon
<1>6. ASSUME NEW pid \in PIDs, CommandWait(pid),
             UNCHANGED <<RunningProcess, admitted, scheduled>>
      PROVE  DebuggerInv'
  <2>1. IInv' /\ panicked' = panicked /\ UNCHANGED due
    BY <1>1, <1>6, WaitIInv, Zenon DEF CommandWait, Wait
  <2> QED
    BY <1>1, <1>6, <2>1, ManagerStep, Zenon
<1> QED
  BY <1>2, <1>3, <1>4, <1>5, <1>6, Zenon DEF Command

(* The invariant holds at first, *)
LEMMA DebuggerInit == ASSUME KernelInit PROVE DebuggerInv
<1>1. IInv
  BY InitIInv, Zenon DEF KernelInit
<1>2. due \in [PIDs -> -1..1] /\ \A p \in PIDs : due[p] # 1
  BY DEF KernelInit
<1>3. ~panicked /\ RunningProcess = InitPID /\ admitted = {} /\ scheduled = Nil /\ setup = 0
  BY Zenon DEF KernelInit, Init
<1> QED
  BY <1>1, <1>2, <1>3, PIDFacts DEF DebuggerInv, KernelTypeOK

(* and every command keeps it. *)
LEMMA DebuggerStep ==
  ASSUME DebuggerInv, [KernelNext]_<<vars, kernelVars>>
  PROVE  DebuggerInv'
<1>1. CASE UNCHANGED <<vars, kernelVars>>
  <2>1. IInv' /\ panicked' = panicked
    BY <1>1, NextIInv, Zenon DEF DebuggerInv, vars
  <2>2. UNCHANGED <<RunningProcess, due, admitted, scheduled, setup>>
    BY <1>1, Zenon DEF kernelVars
  <2> QED
    BY <2>1, <2>2, Zenon DEF DebuggerInv, KernelTypeOK
<1> QED
  BY <1>1, SetUpStep, CommandStep, Zenon DEF KernelNext

(***************************************************************************)
(* Under the debugger the process manager keeps its table a tree, and no   *)
(* sequence of commands panics the program: no process that the debugger   *)
(* adds ever arrives, so init stays the running process.                   *)
(***************************************************************************)
THEOREM NoCommandPanics ==
  KernelSpec => [](ProcessTree /\ ZombiesAreLeaves /\ DebuggerNeverPanics)
<1>1. DebuggerInv => ProcessTree /\ ZombiesAreLeaves /\ DebuggerNeverPanics
  BY Zenon DEF DebuggerInv, IInv, DebuggerNeverPanics
<1> QED
  BY <1>1, DebuggerInit, DebuggerStep, PTL DEF KernelSpec

-----------------------------------------------------------------------------
(* In kernel mode a trap is being handled, or an explicit entry is open. *)
ModeInv ==
  /\ traps \in Nat
  /\ CurrentMode \in {"kernel", "user"}
  /\ CurrentMode = "kernel" => entered \/ traps > 0

(* A word and the signed number it stands for. *)
LEMMA WordsAndNumbers ==
  /\ \A word \in 0..(WordSize - 1) : Signed(word) \in Int /\ Signed(Unsigned(Signed(word))) = Signed(word)
  /\ \A n \in Nat : 2 * n < WordSize => Signed(Unsigned(n)) = n
  /\ Signed(toErrno(1)) = -1 /\ Signed(toErrno(22)) = -22
BY CPUAssumption DEF Signed, Unsigned, toErrno

(* What a system call has left behind: the result, read back from RAX, or   *)
(* the dispatcher's errno.                                                  *)
Answered(r) ==
  CASE ~r.err -> Signed(r.RAX) = r.ret
    [] r.err /\ r.num \in Table -> Signed(r.RAX) = -22 /\ r.ret = -14
    [] OTHER -> Signed(r.RAX) = -1 /\ r.ret = -1

(* Dispatch leaves the result in RAX, or one of the two errnos. *)
LEMMA DispatchResult ==
  ASSUME NEW num \in Numbers, NEW pid \in CallerPIDs, NEW buf \in BufPtrs,
         NEW count \in Counts
  PROVE  Answered(Dispatch(num, pid, buf, count))
<1> DEFINE r == Dispatch(num, pid, buf, count)
           ret == Handler(num, pid, buf, count)
<1>1. CASE num \notin Table
  <2>1. r = [num |-> num, RAX |-> toErrno(1), ret |-> -1, err |-> TRUE]
    BY <1>1 DEF Dispatch, BadPointer, Table, Numbers
  <2> QED
    BY <1>1, <2>1, WordsAndNumbers DEF Answered
<1>2. CASE num \in Table /\ BadPointer(num, buf)
  <2>1. ret = -14
    BY <1>2 DEF Handler, BadPointer
  <2>2. r = [num |-> num, RAX |-> toErrno(22), ret |-> ret, err |-> TRUE]
    BY <1>2, Zenon DEF Dispatch
  <2> QED
    BY <1>2, <2>1, <2>2, WordsAndNumbers DEF Answered
<1>3. CASE num \in Table /\ ~BadPointer(num, buf)
  <2>1. \/ ret = Signed(count)
        \/ ret \in {0, 42, 1001, 131072, 3145728, pid}
    BY <1>3 DEF Handler
  <2>2. Signed(Unsigned(ret)) = ret
    BY <2>1, WordsAndNumbers, CPUAssumption
  <2>3. r = [num |-> num, RAX |-> Unsigned(ret), ret |-> ret, err |-> FALSE]
    BY <1>3 DEF Dispatch
  <2> QED
    BY <2>2, <2>3 DEF Answered
<1> QED
  BY <1>1, <1>2, <1>3, Zenon

(* The registers that Dispatch sets are words and numbers. *)
LEMMA DispatchTypes ==
  ASSUME NEW num \in Numbers, NEW pid \in CallerPIDs, NEW buf \in BufPtrs,
         NEW count \in Counts
  PROVE  Dispatch(num, pid, buf, count) \in Registers
<1>1. PICK ret : ret = Handler(num, pid, buf, count)
  BY Zenon
<1>2. \/ ret = Signed(count) \/ ret = -14
      \/ ret \in {0, 42, 1001, 131072, 3145728, pid}
  BY <1>1, SMT DEF Handler
<1>3. ret \in Int /\ Unsigned(ret) \in 0..(WordSize - 1)
  BY <1>2, CPUAssumption, SMT DEF Signed, Unsigned
<1>4. toErrno(1) \in 0..(WordSize - 1) /\ toErrno(22) \in 0..(WordSize - 1)
  BY CPUAssumption, SMT DEF toErrno, Unsigned
<1>5. CASE num \notin Table
  <2>1. Dispatch(num, pid, buf, count) =
          [num |-> num, RAX |-> toErrno(1), ret |-> -1, err |-> TRUE]
    BY <1>5 DEF Dispatch, BadPointer, Table, Numbers
  <2> QED
    BY <1>4, <2>1 DEF Registers
<1>6. CASE num \in Table /\ BadPointer(num, buf)
  <2>1. Dispatch(num, pid, buf, count) =
          [num |-> num, RAX |-> toErrno(22), ret |-> ret, err |-> TRUE]
    BY <1>1, <1>6, Zenon DEF Dispatch
  <2> QED
    BY <1>3, <1>4, <2>1 DEF Registers
<1>7. CASE num \in Table /\ ~BadPointer(num, buf)
  <2>1. Dispatch(num, pid, buf, count) =
          [num |-> num, RAX |-> Unsigned(ret), ret |-> ret, err |-> FALSE]
    BY <1>1, <1>7, Zenon DEF Dispatch
  <2> QED
    BY <1>3, <2>1 DEF Registers
<1> QED
  BY <1>5, <1>6, <1>7, Zenon

(* The types of the CPU's variables. *)
LEMMA CPUTypes == CPUSpec => []CPUTypeOK
<1>1. CPUInit => CPUTypeOK
  <2>1. [num |-> 0, RAX |-> 0, ret |-> 0, err |-> FALSE] \in Registers
    BY CPUAssumption DEF Registers
  <2>2. CPUInit => regs \in Registers
    BY <2>1 DEF CPUInit
  <2>3. CPUInit => /\ CurrentMode \in {"kernel", "user"} /\ CR3 \in {1, 2}
                   /\ traps = 0 /\ traps \in 0..MaxNesting
    BY CPUAssumption DEF CPUInit
  <2>4. CPUInit => InterruptsOn \in BOOLEAN /\ entered \in BOOLEAN
    BY DEF CPUInit
  <2> QED
    BY <2>2, <2>3, <2>4 DEF CPUTypeOK
<1>2. CPUTypeOK /\ [CPUNext]_cpuVars => CPUTypeOK'
  <2> SUFFICES ASSUME CPUTypeOK, [CPUNext]_cpuVars PROVE CPUTypeOK'
    OBVIOUS
  <2>1. \/ UNCHANGED cpuVars \/ SwitchToKernelMode \/ ReturnToUserMode
        \/ (\E IsPrivileged \in BOOLEAN : ExecuteInstruction(IsPrivileged))
        \/ DispatchTrap \/ (\E err \in BOOLEAN : ReturnFromTrap(err)) \/ TriggerSyscall
    BY DEF CPUNext
  <2>2. InterruptsOn' \in BOOLEAN
    BY <2>1, Zenon DEF CPUTypeOK, cpuVars, SwitchToKernelMode, ReturnToUserMode,
       ExecuteInstruction, DispatchTrap, ReturnFromTrap, TriggerSyscall
  <2>3. entered' \in BOOLEAN
    BY <2>1, Zenon DEF CPUTypeOK, cpuVars, SwitchToKernelMode, ReturnToUserMode,
       ExecuteInstruction, DispatchTrap, ReturnFromTrap, TriggerSyscall
  <2>4. regs' \in Registers
    BY <2>1, DispatchTypes DEF CPUTypeOK, cpuVars, SwitchToKernelMode, ReturnToUserMode,
       ExecuteInstruction, DispatchTrap, ReturnFromTrap, TriggerSyscall
  <2>5. traps' \in 0..MaxNesting
    BY <2>1, CPUAssumption DEF CPUTypeOK, cpuVars, SwitchToKernelMode, ReturnToUserMode,
       ExecuteInstruction, DispatchTrap, ReturnFromTrap, TriggerSyscall
  <2>6. CurrentMode' \in {"kernel", "user"} /\ CR3' \in {1, 2}
    BY <2>1 DEF CPUTypeOK, cpuVars, SwitchToKernelMode, ReturnToUserMode,
       ExecuteInstruction, DispatchTrap, ReturnFromTrap, TriggerSyscall
  <2> QED
    BY <2>2, <2>3, <2>4, <2>5, <2>6 DEF CPUTypeOK
<1> QED
  BY <1>1, <1>2, PTL DEF CPUSpec

(* Every step, a return from a trap whose handler failed included, keeps    *)
(* the invariant.                                                           *)
LEMMA ModeStep == ModeInv /\ [CPUNext]_cpuVars => ModeInv'
<1> SUFFICES ASSUME ModeInv, [CPUNext]_cpuVars PROVE ModeInv'
  BY Zenon
<1>1. CASE UNCHANGED cpuVars
  BY <1>1, Zenon DEF cpuVars, ModeInv
<1>2. CASE SwitchToKernelMode
  <2>1. CASE CurrentMode = "user"
    BY <1>2, <2>1, Zenon DEF SwitchToKernelMode, ModeInv
  <2>2. CASE CurrentMode = "kernel"
    BY <1>2, <2>2, Zenon DEF SwitchToKernelMode, ModeInv
  <2> QED
    BY <2>1, <2>2, Zenon DEF ModeInv
<1>3. CASE ReturnToUserMode
  BY <1>3, Zenon DEF ReturnToUserMode, ModeInv
<1>4. CASE \E IsPrivileged \in BOOLEAN : ExecuteInstruction(IsPrivileged)
  <2>1. UNCHANGED <<CurrentMode, traps, entered>>
    BY <1>4, Zenon DEF ExecuteInstruction
  <2> QED
    BY <2>1, Zenon DEF ModeInv
<1>5. CASE DispatchTrap
  BY <1>5 DEF DispatchTrap, ModeInv
<1>6. CASE \E err \in BOOLEAN : ReturnFromTrap(err)
  BY <1>6 DEF ReturnFromTrap, ModeInv
<1>7. CASE TriggerSyscall
  BY <1>7, Zenon DEF TriggerSyscall, ModeInv
<1> QED
  BY <1>1, <1>2, <1>3, <1>4, <1>5, <1>6, <1>7, Zenon DEF CPUNext

(***************************************************************************)
(* Kernel mode is entered and left in pairs, however traps nest, whatever  *)
(* handlers execute and whether or not they fail; and a system call comes  *)
(* back in user mode with its result in RAX, or with -22 or -1 if it fails.*)
(***************************************************************************)
THEOREM TrapsAreDisciplined == CPUSpec => TrapDiscipline
<1>1. CPUInit => ModeInv
  BY DEF CPUInit, ModeInv
<1>2. ModeInv => (CurrentMode = "kernel" => entered \/ traps > 0)
  BY Zenon DEF ModeInv
<1>3. [CPUNext]_cpuVars =>
        [regs' # regs => CurrentMode' = "user" /\ Answered(regs')]_cpuVars
  <2> SUFFICES ASSUME CPUNext, regs' # regs
               PROVE  CurrentMode' = "user" /\ Answered(regs')
    BY Zenon DEF cpuVars
  <2>1. TriggerSyscall
    BY Zenon DEF CPUNext, SwitchToKernelMode, ReturnToUserMode, ExecuteInstruction, DispatchTrap,
           ReturnFromTrap
  <2>2. PICK num \in Numbers, pid \in CallerPIDs, buf \in BufPtrs, count \in Counts :
          regs' = Dispatch(num, pid, buf, count)
    BY <2>1, Zenon DEF TriggerSyscall
  <2> QED
    BY <2>1, <2>2, DispatchResult, Zenon DEF TriggerSyscall
<1> QED
  BY <1>1, <1>2, <1>3, ModeStep, PTL DEF CPUSpec, TrapDiscipline, Answered

-----------------------------------------------------------------------------
(* What the poller is about: it has a goroutine in hand only while it       *)
(* deregisters a descriptor and closes the channel, with the mutex locked,  *)
(* and nobody is parked on that descriptor meanwhile.                       *)
PollerInv ==
  IF netPoll \in {"del", "close"}
  THEN netEvents # <<>> /\ netParkedGs[Head(netEvents)] = NoG /\ netParked \in Gs
  ELSE netParked = NoG

NetpollInv == Net!TypeOK /\ PollerInv /\ Net!ParkedCanBeFound

(* EpollWait returns descriptors and leaves descriptors. *)
LEMMA TakenEvents ==
  ASSUME Net!ConstantsOK, Net!TypeOK, Net!TakeEvents
  PROVE  netEvents' \in Seq(FDs) /\ netReadyList' \in Seq(FDs)
<1> DEFINE count == IF Len(netReadyList) > MaxEvents THEN MaxEvents ELSE Len(netReadyList)
<1>1. count \in 0..Len(netReadyList)
  BY LengthOfSeq DEF Net!ConstantsOK, Net!TypeOK
<1>2. SubSeq(netReadyList, 1, count) \in Seq(FDs) /\ SubSeq(netReadyList, count + 1, Len(netReadyList)) \in Seq(FDs)
  BY <1>1, PartOf, LengthOfSeq DEF Net!TypeOK
<1> QED
  BY <1>2, Zenon DEF Net!TakeEvents

(* The goroutines' steps.  Parking needs the mutex, so that it does not     *)
(* meet the poller between taking a goroutine out and waking it.            *)
LEMMA GoroutineSteps ==
  ASSUME Net!ConstantsOK, NetpollInv, NEW g \in Gs, UNCHANGED <<Net!pollVars, Net!devVars>>,
         (\E fd \in FDs : Net!ReadNonBlocking(g, fd)) \/ Net!Goroutine(g)
  PROVE  NetpollInv'
<1> USE DEF NetpollInv, Net!TypeOK, PollerInv, Net!ParkedCanBeFound, Net!Goto, Net!pollVars, Net!devVars, Net!fdVars
<1>1. CASE \E fd \in FDs : Net!ReadNonBlocking(g, fd)
  BY <1>1 DEF Net!ReadNonBlocking, Net!epollVars
<1>2. CASE Net!TestLen(g)
  BY <1>2, Zenon DEF Net!TestLen, Net!epollVars
<1>3. CASE Net!TakeData(g)
  BY <1>3, Zenon DEF Net!TakeData, Net!epollVars
<1>4. CASE Net!ClearReady(g)
  BY <1>4, Zenon DEF Net!ClearReady, Net!epollVars
<1>5. CASE Net!Park(g)
  BY <1>5, Zenon DEF Net!Park, Net!NetpollerLocked, Net!epollVars, Net!ConstantsOK
<1>6. CASE Net!Register(g)
  BY <1>6 DEF Net!Register, Net!EpollCtlAdd, Net!fdVars
<1>7. CASE Net!Resume(g)
  BY <1>7, Zenon DEF Net!Resume, Net!epollVars
<1> QED
  BY <1>1, <1>2, <1>3, <1>4, <1>5, <1>6, <1>7, Zenon DEF Net!Goroutine

(* A device interrupt puts an event on the list and a token in the channel. *)
LEMMA InterruptSteps ==
  ASSUME Net!ConstantsOK, NetpollInv, NEW fd \in FDs, Net!Interrupt(fd) \/ Net!Arrive(fd),
         UNCHANGED <<netParkedGs, netWoken, netPC, netOn, Net!pollVars>>
  PROVE  NetpollInv'
<1>1. CASE Net!Interrupt(fd)
  <2>1. Append(netReadyList, fd) \in Seq(FDs)
    BY AppendTo, Zenon DEF NetpollInv, Net!TypeOK
  <2> QED
    BY <1>1, <2>1, Zenon DEF Net!Interrupt, Net!NotifyDeviceInterrupt, NetpollInv, Net!TypeOK, PollerInv,
                      Net!ParkedCanBeFound, Net!pollVars
<1>2. CASE Net!Arrive(fd)
  <2>1. netPackets' \in 0..MaxPackets
    BY <1>2 DEF Net!Arrive, NetpollInv, Net!TypeOK, Net!ConstantsOK
  <2> QED
    BY <1>2, <2>1, Zenon DEF Net!Arrive, NetpollInv, Net!TypeOK, PollerInv, Net!ParkedCanBeFound,
                      Net!pollVars, Net!epollVars
<1> QED
  BY <1>1, <1>2, Zenon

(* The poller's steps. *)
LEMMA PollerSteps ==
  ASSUME Net!ConstantsOK, NetpollInv, Net!PollerStep
  PROVE  NetpollInv'
<1> USE DEF NetpollInv, PollerInv, Net!ParkedCanBeFound, Net!fdVars, Net!devVars
<1>1. CASE Net!EpollWait
  <2>1. CASE netReadyList # <<>>
    BY <1>1, <2>1, TakenEvents, Net!PollerStep, Zenon DEF Net!EpollWait, Net!PollerStep, Net!TypeOK
  <2>2. CASE netReadyList = <<>>
    BY <1>1, <2>2, Net!PollerStep, Zenon DEF Net!EpollWait, Net!PollerStep, Net!TypeOK
  <2> QED
    BY <2>1, <2>2, Zenon
<1>2. CASE Net!Receive
  BY <1>2, Net!PollerStep, Zenon DEF Net!Receive, Net!PollerStep, Net!TypeOK
<1>3. CASE Net!Timeout
  BY <1>3, Net!PollerStep DEF Net!Timeout, Net!PollerStep, Net!TypeOK, Net!epollVars
<1>4. CASE Net!Collect
  BY <1>4, TakenEvents, Net!PollerStep, Zenon DEF Net!Collect, Net!PollerStep, Net!TypeOK
<1>5. CASE Net!LockNetpoller
  BY <1>5, Net!PollerStep, Zenon DEF Net!LockNetpoller, Net!PollerStep, Net!TypeOK, Net!epollVars
<1>6. CASE Net!WakeParked
  <2>1. Head(netEvents) \in FDs /\ Tail(netEvents) \in Seq(FDs)
    BY <1>6, HeadAndTail, Zenon DEF Net!WakeParked, Net!TypeOK
  <2>2. CASE netParkedGs[Head(netEvents)] = NoG
    BY <1>6, <2>1, <2>2, Net!PollerStep, Zenon DEF Net!WakeParked, Net!PollerStep, Net!TypeOK, Net!epollVars
  <2>3. CASE netParkedGs[Head(netEvents)] # NoG
    <3>1. /\ netPoll' = "del" /\ netEvents' = netEvents /\ netEvents # <<>>
          /\ netParked' = netParkedGs[Head(netEvents)]
          /\ netParkedGs' = [netParkedGs EXCEPT ![Head(netEvents)] = NoG]
          /\ UNCHANGED <<netInterest, netReadyList, netWakeCh, netWoken, netPC, netOn, netReady, netData, netPackets, netIRQ>>
      BY <1>6, <2>3, Net!PollerStep, Zenon DEF Net!WakeParked, Net!DeleteParked, Net!PollerStep, Net!epollVars
    <3>2. netParked' \in Gs /\ netParkedGs' \in [FDs -> Gs \cup {NoG}] /\ netParkedGs'[Head(netEvents')] = NoG
      BY <2>1, <2>3, <3>1, Zenon DEF Net!TypeOK
    <3>4. Net!TypeOK'
      BY <3>1, <3>2, Zenon DEF Net!TypeOK
    <3>5. PollerInv'
      BY <3>1, <3>2, Zenon
    <3>3. Net!ParkedCanBeFound'
      <4>1. ASSUME NEW fd \in FDs, netParkedGs'[fd] # NoG
            PROVE  fd # Head(netEvents) /\ netParkedGs'[fd] = netParkedGs[fd] /\ netParkedGs[fd] # netParked'
        BY <2>1, <2>3, <3>1, <4>1, Zenon DEF Net!TypeOK
      <4> QED
        BY <3>1, <4>1
    <3> QED
      BY <3>3, <3>4, <3>5, Zenon
  <2> QED
    BY <2>2, <2>3, Zenon
<1>7. CASE Net!Deregister
  BY <1>7, Net!PollerStep, Zenon DEF Net!Deregister, Net!EpollCtlDel, Net!PollerStep, Net!TypeOK
<1>8. CASE Net!CloseWakeCh
  <2>1. Tail(netEvents) \in Seq(FDs)
    BY <1>8, HeadAndTail, Zenon DEF Net!CloseWakeCh, Net!TypeOK
  <2> QED
    BY <1>8, <2>1, Net!PollerStep, Zenon DEF Net!CloseWakeCh, Net!PollerStep, Net!TypeOK, Net!epollVars,
                                      Net!ConstantsOK
<1>9. CASE Net!UnlockNetpoller
  BY <1>9, Net!PollerStep, Zenon DEF Net!UnlockNetpoller, Net!PollerStep, Net!TypeOK, Net!epollVars
<1> QED
  BY <1>1, <1>2, <1>3, <1>4, <1>5, <1>6, <1>7, <1>8, <1>9, Net!PollerStep, Zenon DEF Net!PollerStep, Net!Poller

(***************************************************************************)
(* A parked goroutine's descriptor is registered or about to be, nobody is *)
(* parked twice or after having been woken, and the poller does not sleep  *)
(* next to events without a token, in every interleaving.                  *)
(***************************************************************************)
THEOREM ParkedIsFound == Net!Spec => [](Net!TypeOK /\ ParkedCanBeFound)
<1> USE NetAssumption
<1>1. Net!Init => NetpollInv
  <2> SUFFICES ASSUME Net!Init PROVE NetpollInv
    BY Zenon
  <2>1. Net!TypeOK
    <3>1. PICK first : first \in FDs /\ first = CHOOSE fd \in FDs : TRUE
      BY Zenon DEF Net!ConstantsOK
    <3>2. netOn = [g \in Gs |-> first]
      BY <3>1, Zenon DEF Net!Init
    <3>3. netOn \in [Gs -> FDs] /\ netPackets \in 0..MaxPackets /\ netReadyList \in Seq(FDs) /\ netEvents \in Seq(FDs)
      BY <3>1, <3>2, EmptyList DEF Net!Init, Net!ConstantsOK
    <3>4. /\ netReady \in [FDs -> BOOLEAN] /\ netData \in [FDs -> BOOLEAN]
          /\ netParkedGs \in [FDs -> Gs \cup {NoG}]
          /\ netPC \in [Gs -> {"running", "len", "take", "clear", "park", "add", "waiting"}]
      BY Zenon DEF Net!Init
    <3> QED
      BY <3>3, <3>4, Zenon DEF Net!Init, Net!TypeOK
  <2> QED
    BY <2>1, Zenon DEF Net!Init, NetpollInv, PollerInv, Net!ParkedCanBeFound
<1>2. NetpollInv /\ [Net!Next]_(Net!vars) => NetpollInv'
  <2> SUFFICES ASSUME NetpollInv, [Net!Next]_(Net!vars) PROVE NetpollInv'
    BY Zenon
  <2>1. CASE UNCHANGED Net!vars
    <3>1. UNCHANGED <<netReady, netData, netInterest, netReadyList, netWakeCh, netParkedGs, netWoken, netPC, netOn>>
          /\ UNCHANGED <<netPoll, netEvents, netParked, netPackets, netIRQ>>
      BY <2>1, Zenon DEF Net!vars, Net!fdVars, Net!epollVars, Net!pollVars, Net!devVars
    <3>2. Net!TypeOK'
      BY <3>1, Zenon DEF NetpollInv, Net!TypeOK
    <3> QED
      BY <3>1, <3>2, Zenon DEF NetpollInv, PollerInv, Net!ParkedCanBeFound
  <2>2. CASE Net!Next
    BY <2>2, GoroutineSteps, PollerSteps, InterruptSteps, Zenon DEF Net!Next
  <2> QED
    BY <2>1, <2>2, Zenon
<1>3. NetpollInv => Net!TypeOK /\ ParkedCanBeFound
  BY Zenon DEF NetpollInv, ParkedCanBeFound
<1> QED
  BY <1>1, <1>2, <1>3, PTL DEF Net!Spec

-----------------------------------------------------------------------------
(* The library's facts about finite sets. *)
Sets == INSTANCE FiniteSetTheorems

(* FiniteSets and the lists of sync.Cond as the pipe sees them. *)
LEMMA PipeSets ==
  \A S : Sets!Cardinality(S) = Pipe!Cardinality(S) /\ (Sets!IsFiniteSet(S) <=> Pipe!IsFiniteSet(S))
BY Zenon DEF Sets!Cardinality, Pipe!Cardinality, Sets!IsFiniteSet, Pipe!IsFiniteSet

(* Its condition variables are those of Lists. *)
LEMMA PipeLists ==
  \A list, n : /\ Pipe!Woken(list, n) = Woken(list, n) /\ Pipe!Asleep(list, n) = Asleep(list, n)
               /\ Pipe!AllWoken(list) = AllWoken(list)
BY Zenon DEF Pipe!Woken, Woken, Pipe!Asleep, Asleep, Pipe!AllWoken, AllWoken

(* What is assumed of the pipe's constants. *)
LEMMA PipeConstants ==
  /\ Pipe!IsFiniteSet(PipeReaders) /\ PipeReaders \cap PipeWriters = {}
  /\ PipeCapacity \in Nat \ {0} /\ MaxChunk \in Nat \ {0} /\ MaxBytes \in Nat
BY PipeAssumption, Zenon DEF Pipe!ConstantsOK

(* They wake n threads, if there are as many. *)
LEMMA WokenCount ==
  ASSUME NEW S, NEW list \in Seq(S), Distinct(list), NEW n \in Nat, n <= Len(list)
  PROVE  Pipe!IsFiniteSet(Woken(list, n)) /\ Pipe!Cardinality(Woken(list, n)) = n
<1> DEFINE f == [i \in 1..n |-> list[i]]
<1>1. PICK len \in Nat : len = Len(list)
  BY LengthOfSeq, Zenon
<1>2. f \in Sets!Surjection(1..n, Woken(list, n)) /\ f \in Sets!Injection(1..n, Woken(list, n))
  <2>1. {j \in 1..Len(list) : j <= n} = 1..n
    BY <1>1
  <2>2. Woken(list, n) = {list[i] : i \in 1..n}
    BY <2>1, Zenon DEF Woken
  <2>3. f \in [1..n -> Woken(list, n)] /\ \A x \in Woken(list, n) : \E i \in 1..n : f[i] = x
    BY <2>2, Zenon
  <2>4. \A i, j \in 1..n : f[i] = f[j] => i = j
    BY <1>1 DEF Distinct
  <2> HIDE DEF f
  <2> QED
    BY <2>3, <2>4, Zenon DEF Sets!Surjection, Sets!Injection, Sets!IsInjective
<1>3. Pipe!IsFiniteSet(1..n) /\ Pipe!Cardinality(1..n) = n
  BY Sets!FS_Interval, PipeSets
<1> QED
  BY <1>2, <1>3, Sets!FS_Surjection, PipeSets

(* Nobody is twice on a list, and a call that waits has bytes left to move. *)
PipeInv ==
  /\ Pipe!TypeOK /\ Pipe!StreamIntact /\ Pipe!NoMissedReader /\ Pipe!NoStandstill
  /\ Distinct(pipeNotEmpty) /\ Distinct(pipeNotFull)
  /\ \A u \in Pipe!Users : pipePC[u] # "idle" => pipeLeft[u] > 0

(* The numbers of woken readers are finite. *)
LEMMA ReadersFinite ==
  /\ Pipe!IsFiniteSet(Pipe!WokenReaders) /\ Pipe!Cardinality(Pipe!WokenReaders) \in Nat
  /\ Pipe!IsFiniteSet(Pipe!WokenReaders') /\ Pipe!Cardinality(Pipe!WokenReaders') \in Nat
<1>1. Pipe!WokenReaders \subseteq PipeReaders /\ Pipe!WokenReaders' \subseteq PipeReaders
  BY Zenon DEF Pipe!WokenReaders
<1> QED
  BY <1>1, PipeConstants, Sets!FS_Subset, Sets!FS_CardinalityType, PipeSets, Zenon

(* Who is asleep is on the list of their end. *)
LEMMA Sleepers ==
  ASSUME PipeInv
  PROVE  /\ Elements(pipeNotEmpty) \subseteq PipeReaders /\ Elements(pipeNotFull) \subseteq PipeWriters
         /\ \A r \in PipeReaders : pipePC[r] = "asleep" <=> r \in Elements(pipeNotEmpty)
         /\ \A w \in PipeWriters : pipePC[w] = "asleep" <=> w \in Elements(pipeNotFull)
<1>1. /\ \A i \in 1..Len(pipeNotEmpty) : pipeNotEmpty[i] \in PipeReaders
      /\ \A i \in 1..Len(pipeNotFull) : pipeNotFull[i] \in PipeWriters
  BY ElementIn, Zenon DEF PipeInv, Pipe!TypeOK
<1> QED
  BY <1>1 DEF PipeInv, Pipe!NoMissedReader, Pipe!NoStandstill, Elements

(* Put appends the next bytes. *)
LEMMA PutStream ==
  ASSUME PipeInv, NEW w \in PipeWriters, NEW n \in 1..MaxChunk, Pipe!Put(w, n), pipeRead' = pipeRead,
         NEW k \in Nat, k = Pipe!Smaller(n, Pipe!Room)
  PROVE  /\ k \in 0..n /\ n - k \in 0..MaxChunk
         /\ pipeBuffer' \in Seq(Nat) /\ pipeBuffer' # <<>> /\ Len(pipeBuffer') = Len(pipeBuffer) + k
         /\ pipeWritten' \in Nat
         /\ Pipe!StreamIntact'
<1>1. PICK m \in Nat : m = Len(pipeBuffer)
  BY LengthOfSeq, Zenon DEF PipeInv, Pipe!TypeOK
<1>2. /\ pipeWritten \in Nat /\ pipeRead \in Nat /\ pipeWritten = pipeRead + m /\ m <= PipeCapacity
      /\ \A i \in 1..m : pipeBuffer[i] = pipeRead + i
  BY <1>1 DEF PipeInv, Pipe!TypeOK, Pipe!StreamIntact
<1>3. k \in 0..n /\ m + k <= PipeCapacity /\ m + k > 0 /\ k \in Nat
  BY <1>1, <1>2, PipeConstants DEF Pipe!Smaller, Pipe!Room
<1> HIDE DEF Pipe!Smaller
<1> DEFINE new == [i \in 1..k |-> pipeWritten + i]
<1>4. new \in Seq(Nat) /\ Len(new) = k /\ \A i \in 1..k : new[i] = pipeRead + (m + i)
  <2>1. \A i \in 1..k : pipeWritten + i \in Nat /\ pipeWritten + i = pipeRead + (m + i)
    BY <1>2
  <2> QED
    BY <2>1
<1> HIDE DEF new
<1>5. /\ pipeBuffer' \in Seq(Nat) /\ Len(pipeBuffer') = m + k
      /\ \A i \in 1..m : pipeBuffer'[i] = pipeBuffer[i]
      /\ \A i \in 1..k : pipeBuffer'[m + i] = new[i]
  <2>1. pipeBuffer' = pipeBuffer \o new
    BY Zenon DEF new, Pipe!Put
  <2>2. pipeBuffer \in Seq(Nat)
    BY Zenon DEF PipeInv, Pipe!TypeOK
  <2>3. /\ pipeBuffer' \in Seq(Nat) /\ Len(pipeBuffer') = m + k
        /\ \A i \in 1..(m + k) : pipeBuffer'[i] = IF i <= m THEN pipeBuffer[i] ELSE new[i - m]
    <3>1. /\ Len(pipeBuffer \o new) = Len(pipeBuffer) + Len(new) /\ pipeBuffer \o new \in Seq(Nat)
          /\ \A i \in 1..(Len(pipeBuffer) + Len(new)) : (pipeBuffer \o new)[i] =
                IF i <= Len(pipeBuffer) THEN pipeBuffer[i] ELSE new[i - Len(pipeBuffer)]
      BY <1>4, <2>2, ConcatOf, Zenon
    <3>2. Len(pipeBuffer) = m /\ Len(new) = k
      BY <1>1, <1>4, Zenon
    <3> QED
      BY <2>1, <3>1, <3>2, Zenon
  <2>4. /\ \A i \in 1..m : i \in 1..(m + k) /\ i <= m
        /\ \A i \in 1..k : m + i \in 1..(m + k) /\ ~(m + i <= m) /\ (m + i) - m = i
    BY <1>3
  <2> QED
    BY <2>3, <2>4, Zenon
<1>6. ASSUME NEW i \in 1..(m + k) PROVE pipeBuffer'[i] = pipeRead + i
  <2>1. CASE i \in 1..m
    BY <1>2, <1>5, <2>1, Zenon
  <2>2. CASE i \notin 1..m
    <3>1. i - m \in 1..k /\ i = m + (i - m)
      BY <1>3, <2>2
    <3> QED
      BY <1>4, <1>5, <3>1, Zenon
  <2> QED
    BY <2>1, <2>2, Zenon
<1>7. Pipe!StreamIntact'
  <2>1. pipeWritten' = pipeWritten + k
    BY Zenon DEF Pipe!Put
  <2> QED
    BY <1>2, <1>3, <1>5, <1>6, <2>1 DEF Pipe!StreamIntact
<1>8. pipeWritten' \in Nat
  BY <1>2 DEF Pipe!Put
<1> QED
  BY <1>1, <1>2, <1>3, <1>5, <1>7, <1>8, EmptyList, PipeConstants, SMTT(30)

(* Take removes bytes from the front. *)
LEMMA TakeStream ==
  ASSUME PipeInv, NEW r \in PipeReaders, NEW n \in 1..MaxChunk, Pipe!Take(r, n),
         pipeWritten' = pipeWritten
  PROVE  /\ pipeBuffer' \in Seq(Nat) /\ Len(pipeBuffer') <= Len(pipeBuffer) - 1
         /\ pipeRead' \in Nat
         /\ Pipe!StreamIntact'
<1>1. PICK m \in Nat : m = Len(pipeBuffer) /\ m > 0
  BY LengthOfSeq, EmptyList DEF PipeInv, Pipe!TypeOK, Pipe!Take
<1>2. /\ pipeWritten \in Nat /\ pipeRead \in Nat /\ pipeWritten = pipeRead + m /\ m <= PipeCapacity
      /\ \A i \in 1..m : pipeBuffer[i] = pipeRead + i
  BY <1>1 DEF PipeInv, Pipe!TypeOK, Pipe!StreamIntact
<1>3. PICK k \in 1..m : pipeBuffer' = SubSeq(pipeBuffer, k + 1, m) /\ pipeRead' = pipeRead + k
  <2>1. Pipe!Smaller(n, m) \in 1..m
    BY <1>1 DEF Pipe!Smaller
  <2> QED
    BY <1>1, <2>1, Zenon DEF Pipe!Take
<1>4. /\ pipeBuffer' \in Seq(Nat) /\ Len(pipeBuffer') = m - k
      /\ \A i \in 1..(m - k) : pipeBuffer'[i] = pipeBuffer[k + i]
  BY <1>1, <1>3, DropLemma, SMTT(30) DEF PipeInv, Pipe!TypeOK
<1>5. ASSUME NEW i \in 1..(m - k) PROVE pipeBuffer'[i] = (pipeRead + k) + i
  <2>1. k + i \in 1..m
    OBVIOUS
  <2> QED
    BY <1>2, <1>4, <2>1
<1>6. Pipe!StreamIntact'
  BY <1>2, <1>3, <1>4, <1>5, PipeConstants DEF Pipe!StreamIntact
<1> QED
  BY <1>1, <1>2, <1>3, <1>4, <1>6

(* Write, or its continuation: every byte comes with a signal, and a writer *)
(* that has bytes left waits on a full pipe.                                *)
LEMMA WriteStep ==
  ASSUME PipeInv, NEW w \in PipeWriters, NEW n \in 1..MaxChunk, Pipe!Put(w, n),
         pipePC[w] # "asleep", ~pipeReadClosed, UNCHANGED <<pipeReadClosed, pipeWriteClosed, pipeRead>>
  PROVE  PipeInv'
<1>1. PICK k \in Nat : k = Pipe!Smaller(n, Pipe!Room)
  <2>1. Len(pipeBuffer) \in Nat /\ Len(pipeBuffer) <= PipeCapacity
    BY LengthOfSeq, Zenon DEF PipeInv, Pipe!TypeOK, Pipe!StreamIntact
  <2> QED
    BY <2>1, PipeConstants DEF Pipe!Smaller, Pipe!Room
<1>2. /\ k \in 0..n /\ n - k \in 0..MaxChunk
      /\ pipeBuffer' \in Seq(Nat) /\ pipeBuffer' # <<>> /\ Len(pipeBuffer') = Len(pipeBuffer) + k
      /\ pipeWritten' \in Nat /\ Pipe!StreamIntact'
  BY <1>1, PutStream, Zenon
<1> DEFINE woken == Woken(pipeNotEmpty, k)
<1>3. /\ pipePC \in [Pipe!Users -> {"idle", "asleep", "woken"}] /\ pipeLeft \in [Pipe!Users -> 0..MaxChunk]
      /\ pipeNotEmpty \in Seq(PipeReaders) /\ pipeNotFull \in Seq(PipeWriters)
      /\ w \in Pipe!Users /\ w \notin PipeReaders
      /\ pipeLeft' = [pipeLeft EXCEPT ![w] = n - k]
      /\ pipeNotEmpty' = Asleep(pipeNotEmpty, k)
      /\ pipeNotFull' = IF k < n THEN Append(pipeNotFull, w) ELSE pipeNotFull
      /\ pipePC' = [u \in Pipe!Users |-> IF u = w THEN (IF k < n THEN "asleep" ELSE "idle")
                                ELSE IF u \in woken THEN "woken" ELSE pipePC[u]]
  BY <1>1, PipeConstants, PipeLists, Zenon DEF PipeInv, Pipe!TypeOK, Pipe!Users, Pipe!Put, Pipe!Step, Pipe!NotEmptySignals
<1>4. /\ pipeNotEmpty' \in Seq(PipeReaders) /\ Distinct(pipeNotEmpty')
      /\ Elements(pipeNotEmpty') = Elements(pipeNotEmpty) \ woken
      /\ woken \subseteq Elements(pipeNotEmpty)
  BY <1>3, SignalLemma, Zenon DEF PipeInv
<1>5. /\ pipeNotFull' \in Seq(PipeWriters) /\ Distinct(pipeNotFull')
      /\ Elements(pipeNotFull') = IF k < n THEN Elements(pipeNotFull) \cup {w} ELSE Elements(pipeNotFull)
  BY <1>3, WaitLemma, Sleepers, Zenon DEF PipeInv
<1>6. Pipe!TypeOK'
  BY <1>2, <1>3, <1>4, <1>5, Zenon DEF PipeInv, Pipe!TypeOK
<1>7. Pipe!NoMissedReader'
  <2>1. ASSUME pipeNotEmpty' # <<>> PROVE Len(pipeBuffer') <= Pipe!Cardinality(Pipe!WokenReaders')
    <3>1. k < Len(pipeNotEmpty) /\ pipeNotEmpty # <<>>
      BY <1>3, <2>1, LengthOfSeq, EmptyList DEF Asleep
    <3>2. Pipe!IsFiniteSet(woken) /\ Pipe!Cardinality(woken) = k
      BY <1>3, <3>1, WokenCount, LengthOfSeq DEF PipeInv
    <3>3. Pipe!WokenReaders' = Pipe!WokenReaders \cup woken /\ Pipe!WokenReaders \cap woken = {}
      BY <1>3, <1>4, Sleepers, Zenon DEF Pipe!WokenReaders, Pipe!Users
    <3>4. Pipe!Cardinality(Pipe!WokenReaders') = Pipe!Cardinality(Pipe!WokenReaders) + k
      <4>1. Pipe!Cardinality(Pipe!WokenReaders \cup woken) =
              Pipe!Cardinality(Pipe!WokenReaders) + Pipe!Cardinality(woken) - Pipe!Cardinality(Pipe!WokenReaders \cap woken)
        BY <3>2, ReadersFinite, Sets!FS_Union, PipeSets, Zenon
      <4>2. Pipe!Cardinality(Pipe!WokenReaders \cap woken) = 0
        BY <3>3, Sets!FS_EmptySet, PipeSets, Zenon
      <4>3. Pipe!Cardinality(Pipe!WokenReaders \cup woken) = Pipe!Cardinality(Pipe!WokenReaders) + k
        BY <3>2, <4>1, <4>2, ReadersFinite
      <4> QED
        BY <3>3, <4>3, Zenon
    <3>5. Len(pipeBuffer) \in Nat
      BY LengthOfSeq, Zenon DEF PipeInv, Pipe!TypeOK
    <3>6. Len(pipeBuffer) <= Pipe!Cardinality(Pipe!WokenReaders)
      BY <3>1, Zenon DEF PipeInv, Pipe!NoMissedReader
    <3>7. Len(pipeBuffer') = Len(pipeBuffer) + k
      BY <1>2, Zenon
    <3> QED
      BY <3>4, <3>5, <3>6, <3>7, ReadersFinite
  <2>2. \A r \in PipeReaders : pipePC'[r] = "asleep" <=> r \in Elements(pipeNotEmpty')
    BY <1>3, <1>4, Sleepers, Zenon DEF Pipe!Users
  <2> QED
    BY <2>1, <2>2, Zenon DEF Pipe!NoMissedReader, Elements
<1>8. Pipe!NoStandstill'
  <2>1. \A v \in PipeWriters : pipePC'[v] = "asleep" <=> v \in Elements(pipeNotFull')
    BY <1>2, <1>3, <1>4, <1>5, Sleepers, PipeConstants, Zenon DEF Pipe!Users
  <2>2. pipeWriteClosed' => pipeNotEmpty' = <<>>
    BY <1>3, EmptyList DEF PipeInv, Pipe!NoStandstill, Asleep
  <2> QED
    BY <1>2, <2>1, <2>2, Zenon DEF Pipe!NoStandstill, Elements
<1>9. \A u \in Pipe!Users : pipePC'[u] # "idle" => pipeLeft'[u] > 0
  BY <1>2, <1>3, <1>4, Sleepers DEF PipeInv, Pipe!Users
<1> QED
  BY <1>2, <1>4, <1>5, <1>6, <1>7, <1>8, <1>9, Zenon DEF PipeInv

(* Write returns ErrPipeClosed after a wait. *)
LEMMA BrokenStep ==
  ASSUME PipeInv, NEW w \in PipeWriters, Pipe!WriteBroken(w)
  PROVE  PipeInv'
<1>1. /\ pipePC \in [Pipe!Users -> {"idle", "asleep", "woken"}] /\ pipeLeft \in [Pipe!Users -> 0..MaxChunk]
      /\ w \in Pipe!Users /\ w \notin PipeReaders /\ pipePC[w] = "woken" /\ pipeReadClosed
      /\ pipeLeft' = [pipeLeft EXCEPT ![w] = 0]
      /\ pipePC' = [u \in Pipe!Users |-> IF u = w THEN "idle" ELSE pipePC[u]]
      /\ UNCHANGED <<pipeBuffer, pipeReadClosed, pipeWriteClosed, pipeWritten, pipeRead, pipeNotEmpty, pipeNotFull>>
  BY PipeConstants, Zenon DEF PipeInv, Pipe!TypeOK, Pipe!Users, Pipe!WriteBroken, Pipe!Step
<1>2. Pipe!TypeOK' /\ Pipe!StreamIntact'
  BY <1>1, PipeConstants DEF PipeInv, Pipe!TypeOK, Pipe!StreamIntact
<1>3. Pipe!WokenReaders' = Pipe!WokenReaders
  BY <1>1, Zenon DEF Pipe!WokenReaders, Pipe!Users
<1>4. Pipe!NoMissedReader' /\ Pipe!NoStandstill'
  BY <1>1, <1>3 DEF PipeInv, Pipe!NoMissedReader, Pipe!NoStandstill, Pipe!Users
<1>5. \A u \in Pipe!Users : pipePC'[u] # "idle" => pipeLeft'[u] > 0
  BY <1>1, Zenon DEF PipeInv
<1> QED
  BY <1>1, <1>2, <1>4, <1>5, Zenon DEF PipeInv

(* Read, or its continuation, finds the pipe empty: it waits, or returns 0  *)
(* bytes if the write end is closed.                                        *)
LEMMA EmptyStep ==
  ASSUME PipeInv, NEW r \in PipeReaders, NEW n \in 1..MaxChunk, Pipe!Await(r, n) \/ Pipe!ReturnEOF(r, n),
         pipePC[r] # "asleep", UNCHANGED <<pipeReadClosed, pipeWriteClosed, pipeWritten>>
  PROVE  PipeInv'
<1>1. /\ pipePC \in [Pipe!Users -> {"idle", "asleep", "woken"}] /\ pipeLeft \in [Pipe!Users -> 0..MaxChunk]
      /\ r \in Pipe!Users /\ r \notin PipeWriters /\ pipeBuffer = <<>>
      /\ UNCHANGED <<pipeBuffer, pipeRead, pipeNotFull>>
      /\ \/ /\ ~pipeWriteClosed /\ pipeNotEmpty' = Append(pipeNotEmpty, r) /\ pipeLeft' = [pipeLeft EXCEPT ![r] = n]
            /\ pipePC' = [u \in Pipe!Users |-> IF u = r THEN "asleep" ELSE pipePC[u]]
         \/ /\ pipeWriteClosed /\ pipeNotEmpty' = pipeNotEmpty /\ pipeLeft' = [pipeLeft EXCEPT ![r] = 0]
            /\ pipePC' = [u \in Pipe!Users |-> IF u = r THEN "idle" ELSE pipePC[u]]
  BY PipeConstants, Zenon DEF PipeInv, Pipe!TypeOK, Pipe!Users, Pipe!Await, Pipe!ReturnEOF, Pipe!Step
<1>2. /\ pipeNotEmpty' \in Seq(PipeReaders) /\ Distinct(pipeNotEmpty')
      /\ Elements(pipeNotEmpty') = IF pipeWriteClosed THEN Elements(pipeNotEmpty) ELSE Elements(pipeNotEmpty) \cup {r}
  <2>1. CASE pipeWriteClosed
    BY <1>1, <2>1, Zenon DEF PipeInv, Pipe!TypeOK
  <2>2. CASE ~pipeWriteClosed
    <3>1. /\ pipeNotEmpty' = Append(pipeNotEmpty, r) /\ r \notin Elements(pipeNotEmpty)
          /\ pipeNotEmpty \in Seq(PipeReaders) /\ Distinct(pipeNotEmpty)
      BY <1>1, <2>2, Sleepers, Zenon DEF PipeInv, Pipe!TypeOK
    <3> QED
      BY <2>2, <3>1, WaitLemma, ZenonT(30)
  <2> QED
    BY <2>1, <2>2, Zenon
<1>3. Pipe!TypeOK' /\ Pipe!StreamIntact'
  <2>1. pipeLeft' \in [Pipe!Users -> 0..MaxChunk]
    BY <1>1, PipeConstants
  <2>2. pipePC' \in [Pipe!Users -> {"idle", "asleep", "woken"}]
    BY <1>1, Zenon
  <2>3. Pipe!TypeOK'
    BY <1>1, <1>2, <2>1, <2>2, Zenon DEF PipeInv, Pipe!TypeOK
  <2> QED
    BY <1>1, <2>3, Zenon DEF PipeInv, Pipe!StreamIntact
<1>4. Pipe!NoMissedReader'
  <2>1. Len(pipeBuffer') = 0
    BY <1>1, EmptyList, Zenon
  <2>2. \A q \in PipeReaders : pipePC'[q] = "asleep" <=> q \in Elements(pipeNotEmpty')
    BY <1>1, <1>2, Sleepers DEF Pipe!Users
  <2> QED
    <3>1. Len(pipeBuffer') <= Pipe!Cardinality(Pipe!WokenReaders')
      BY <2>1, ReadersFinite
    <3>2. \A q \in PipeReaders : pipePC'[q] = "asleep" <=> \E i \in 1..Len(pipeNotEmpty') : pipeNotEmpty'[i] = q
      BY <2>2, Zenon DEF Elements
    <3> QED
      BY <3>1, <3>2, Zenon DEF Pipe!NoMissedReader
<1>5. Pipe!NoStandstill'
  <2>1. Pipe!WokenWriters' = Pipe!WokenWriters
    BY <1>1, Zenon DEF Pipe!WokenWriters, Pipe!Users
  <2> QED
    BY <1>1, <2>1, SMTT(30) DEF PipeInv, Pipe!NoStandstill, Pipe!Users
<1>6. \A u \in Pipe!Users : pipePC'[u] # "idle" => pipeLeft'[u] > 0
  BY <1>1 DEF PipeInv
<1> QED
  BY <1>1, <1>2, <1>3, <1>4, <1>5, <1>6, Zenon DEF PipeInv

(* Read, or its continuation, takes at least one byte and wakes a writer. *)
LEMMA ReadStep ==
  ASSUME PipeInv, NEW r \in PipeReaders, NEW n \in 1..MaxChunk, Pipe!Take(r, n),
         pipePC[r] # "asleep", UNCHANGED <<pipeReadClosed, pipeWriteClosed, pipeWritten>>
  PROVE  PipeInv'
<1>1. /\ pipeBuffer' \in Seq(Nat) /\ Len(pipeBuffer') <= Len(pipeBuffer) - 1
      /\ pipeRead' \in Nat /\ Pipe!StreamIntact'
  BY TakeStream, Zenon
<1> DEFINE woken == Woken(pipeNotFull, 1)
<1>2. /\ pipePC \in [Pipe!Users -> {"idle", "asleep", "woken"}] /\ pipeLeft \in [Pipe!Users -> 0..MaxChunk]
      /\ pipeNotEmpty \in Seq(PipeReaders) /\ pipeNotFull \in Seq(PipeWriters)
      /\ r \in Pipe!Users /\ r \notin PipeWriters
      /\ pipeLeft' = [pipeLeft EXCEPT ![r] = 0]
      /\ pipeNotFull' = Asleep(pipeNotFull, 1) /\ pipeNotEmpty' = pipeNotEmpty
      /\ pipePC' = [u \in Pipe!Users |-> IF u = r THEN "idle" ELSE IF u \in woken THEN "woken" ELSE pipePC[u]]
  BY PipeConstants, PipeLists, Zenon DEF PipeInv, Pipe!TypeOK, Pipe!Users, Pipe!Take, Pipe!Step, Pipe!NotFullSignals
<1>3. /\ pipeNotFull' \in Seq(PipeWriters) /\ Distinct(pipeNotFull')
      /\ Elements(pipeNotFull') = Elements(pipeNotFull) \ woken
      /\ woken \subseteq Elements(pipeNotFull)
      /\ pipeNotFull # <<>> => woken # {}
  <2>1. 1 \in Nat /\ 1 > 0 /\ pipeNotFull \in Seq(PipeWriters) /\ Distinct(pipeNotFull)
    BY <1>2 DEF PipeInv
  <2> QED
    BY <1>2, <2>1, SignalLemma, Zenon
<1>4. woken \subseteq PipeWriters /\ woken \cap PipeReaders = {}
  BY <1>3, Sleepers, PipeConstants, Zenon
<1>5. Pipe!TypeOK'
  BY <1>1, <1>2, <1>3, PipeConstants, SMTT(30) DEF PipeInv, Pipe!TypeOK
<1>6. Pipe!NoMissedReader'
  <2>1. Pipe!WokenReaders' = Pipe!WokenReaders \ {r}
    BY <1>2, <1>4, Zenon DEF Pipe!WokenReaders, Pipe!Users
  <2>2. Pipe!Cardinality(Pipe!WokenReaders') >= Pipe!Cardinality(Pipe!WokenReaders) - 1
    <3>1. PICK W : W = Pipe!WokenReaders /\ Sets!IsFiniteSet(W) /\ Sets!Cardinality(W) \in Nat
      BY ReadersFinite, PipeSets, Zenon
    <3>2. Sets!Cardinality(W \ {r}) >= Sets!Cardinality(W) - 1
      <4>1. Sets!Cardinality(W \ {r}) = IF r \in W THEN Sets!Cardinality(W) - 1 ELSE Sets!Cardinality(W)
        BY <3>1, Sets!FS_RemoveElement, Zenon
      <4> QED
        BY <3>1, <4>1
    <3> QED
      BY <2>1, <3>1, <3>2, PipeSets, Zenon
  <2>3. Len(pipeBuffer) \in Nat /\ Len(pipeBuffer') \in Nat
    BY <1>1, LengthOfSeq, Zenon DEF PipeInv, Pipe!TypeOK
  <2>4. ASSUME pipeNotEmpty' # <<>>
        PROVE  Len(pipeBuffer') <= Pipe!Cardinality(Pipe!WokenReaders')
    <3>1. Len(pipeBuffer) <= Pipe!Cardinality(Pipe!WokenReaders)
      BY <1>2, <2>4, Zenon DEF PipeInv, Pipe!NoMissedReader
    <3>2. Len(pipeBuffer') <= Len(pipeBuffer) - 1
      BY <1>1, Zenon
    <3> QED
      BY <2>2, <2>3, <3>1, <3>2, ReadersFinite
  <2>5. \A q \in PipeReaders : pipePC'[q] = "asleep" <=> q \in Elements(pipeNotEmpty)
    BY <1>2, <1>4, Sleepers, Zenon DEF Pipe!Users
  <2>6. Elements(pipeNotEmpty') = Elements(pipeNotEmpty)
    BY <1>2, Zenon
  <2>7. \A q \in PipeReaders : pipePC'[q] = "asleep" <=> \E i \in 1..Len(pipeNotEmpty') : pipeNotEmpty'[i] = q
    BY <2>5, <2>6, Zenon DEF Elements
  <2> QED
    BY <2>4, <2>7, Zenon DEF Pipe!NoMissedReader
<1>7. Pipe!NoStandstill'
  <2>1. pipeNotFull' # <<>> => Pipe!WokenWriters' # {}
    <3>1. pipeNotFull' # <<>> => pipeNotFull # <<>>
      BY <1>2, EmptyList DEF Asleep
    <3>2. woken \subseteq Pipe!WokenWriters'
      BY <1>2, <1>4, Zenon DEF Pipe!WokenWriters, Pipe!Users
    <3> QED
      BY <1>3, <3>1, <3>2, Zenon
  <2>2. \A v \in PipeWriters : pipePC'[v] = "asleep" <=> v \in Elements(pipeNotFull')
    BY <1>2, <1>3, Sleepers, Zenon DEF Pipe!Users
  <2>3. pipeReadClosed' => pipeNotFull' = <<>>
    BY <1>2, EmptyList DEF PipeInv, Pipe!NoStandstill, Asleep
  <2>4. pipeWriteClosed' => pipeNotEmpty' = <<>>
    BY <1>2, Zenon DEF PipeInv, Pipe!NoStandstill
  <2> QED
    BY <2>1, <2>2, <2>3, <2>4, Zenon DEF Pipe!NoStandstill, Elements
<1>8. \A u \in Pipe!Users : pipePC'[u] # "idle" => pipeLeft'[u] > 0
  BY <1>2, <1>3, Sleepers, Zenon DEF PipeInv, Pipe!Users
<1> QED
  BY <1>1, <1>2, <1>3, <1>5, <1>6, <1>7, <1>8, Zenon DEF PipeInv

(* Closing an end wakes everybody who waits at the other one. *)
LEMMA CloseStep ==
  ASSUME PipeInv, Pipe!CloseWrite \/ Pipe!CloseRead
  PROVE  PipeInv'
<1>1. /\ pipePC \in [Pipe!Users -> {"idle", "asleep", "woken"}]
      /\ UNCHANGED <<pipeBuffer, pipeWritten, pipeRead, pipeLeft>>
      /\ \A list : AllWoken(list) = Elements(list)
  BY Zenon DEF PipeInv, Pipe!TypeOK, Pipe!CloseWrite, Pipe!CloseRead, AllWoken, Elements
<1>2. <<>> \in Seq(PipeReaders) /\ <<>> \in Seq(PipeWriters) /\ Distinct(<<>>) /\ Elements(<<>>) = {}
  BY EmptyList DEF Distinct, Elements
<1>3. Pipe!StreamIntact'
  BY <1>1, PipeConstants, Zenon DEF PipeInv, Pipe!StreamIntact
<1>4. CASE Pipe!CloseWrite
  <2>1. /\ pipeWriteClosed' = TRUE /\ pipeNotEmpty' = <<>> /\ UNCHANGED <<pipeReadClosed, pipeNotFull>>
        /\ pipePC' = [u \in Pipe!Users |-> IF u \in Elements(pipeNotEmpty) THEN "woken" ELSE pipePC[u]]
    BY <1>1, <1>4, PipeLists DEF Pipe!CloseWrite
  <2>2. Pipe!TypeOK'
    BY <1>1, <1>2, <2>1, Zenon DEF PipeInv, Pipe!TypeOK
  <2>3. Pipe!NoMissedReader'
    <3>1. \A r \in PipeReaders : pipePC'[r] # "asleep"
      BY <1>1, <2>1, Sleepers, Zenon DEF Pipe!Users
    <3> QED
      BY <1>2, <2>1, <3>1, EmptyList DEF Pipe!NoMissedReader
  <2>4. \A w \in PipeWriters : pipePC'[w] = pipePC[w]
    BY <2>1, Sleepers, PipeConstants, Zenon DEF Pipe!Users
  <2>5. Pipe!NoStandstill'
    <3>1. Pipe!WokenWriters' = Pipe!WokenWriters
      BY <2>4, Zenon DEF Pipe!WokenWriters
    <3> QED
      BY <1>1, <2>1, <2>4, <3>1, Zenon DEF PipeInv, Pipe!NoStandstill
  <2>6. \A u \in Pipe!Users : pipePC'[u] # "idle" => pipeLeft'[u] > 0
    BY <1>1, <2>1, Sleepers, Zenon DEF PipeInv, Pipe!Users
  <2> QED
    BY <1>2, <1>3, <2>1, <2>2, <2>3, <2>5, <2>6, Zenon DEF PipeInv
<1>5. CASE Pipe!CloseRead
  <2>1. /\ pipeReadClosed' = TRUE /\ pipeNotFull' = <<>> /\ UNCHANGED <<pipeWriteClosed, pipeNotEmpty>>
        /\ pipePC' = [u \in Pipe!Users |-> IF u \in Elements(pipeNotFull) THEN "woken" ELSE pipePC[u]]
    BY <1>1, <1>5, PipeLists DEF Pipe!CloseRead
  <2>2. Pipe!TypeOK'
    BY <1>1, <1>2, <2>1, Zenon DEF PipeInv, Pipe!TypeOK
  <2>3. \A r \in PipeReaders : pipePC'[r] = pipePC[r]
    BY <2>1, Sleepers, PipeConstants, Zenon DEF Pipe!Users
  <2>4. Pipe!NoMissedReader'
    <3>1. Pipe!WokenReaders' = Pipe!WokenReaders
      BY <2>3, Zenon DEF Pipe!WokenReaders
    <3> QED
      BY <1>1, <2>1, <2>3, <3>1, Zenon DEF PipeInv, Pipe!NoMissedReader
  <2>5. Pipe!NoStandstill'
    <3>1. \A w \in PipeWriters : pipePC'[w] # "asleep"
      BY <1>1, <2>1, Sleepers, Zenon DEF Pipe!Users
    <3> QED
      BY <1>2, <2>1, <3>1, EmptyList DEF PipeInv, Pipe!NoStandstill
  <2>6. \A u \in Pipe!Users : pipePC'[u] # "idle" => pipeLeft'[u] > 0
    BY <1>1, <2>1, Sleepers, Zenon DEF PipeInv, Pipe!Users
  <2> QED
    BY <1>2, <1>3, <2>1, <2>2, <2>4, <2>5, <2>6, Zenon DEF PipeInv
<1> QED
  BY <1>4, <1>5, Zenon

(***************************************************************************)
(* For any capacity, readers and writers: the bytes read are the bytes     *)
(* written, in order and none twice; no reader or writer sleeps through    *)
(* what it waits for, and they never all wait for each other.              *)
(***************************************************************************)
THEOREM PipeCorrect == Pipe!Spec => [](Pipe!TypeOK /\ StreamIntact /\ PipeWakeups)
<1>1. Pipe!Init => PipeInv
  <2> SUFFICES ASSUME Pipe!Init PROVE PipeInv
    BY Zenon
  <2>1. /\ <<>> \in Seq(Nat) /\ <<>> \in Seq(PipeReaders) /\ <<>> \in Seq(PipeWriters)
        /\ Len(<<>>) = 0 /\ Distinct(<<>>)
    BY EmptyList DEF Distinct
  <2>2. Pipe!TypeOK
    <3>1. 0 \in 0..MaxChunk /\ pipeLeft \in [Pipe!Users -> 0..MaxChunk]
      BY PipeConstants DEF Pipe!Init
    <3>2. pipeReadClosed \in BOOLEAN /\ pipeWriteClosed \in BOOLEAN
      BY Zenon DEF Pipe!Init
    <3>3. pipePC \in [Pipe!Users -> {"idle", "asleep", "woken"}]
      BY Zenon DEF Pipe!Init
    <3>4. pipeBuffer \in Seq(Nat) /\ pipeNotEmpty \in Seq(PipeReaders) /\ pipeNotFull \in Seq(PipeWriters)
      BY <2>1, Zenon DEF Pipe!Init
    <3> QED
      BY <3>1, <3>2, <3>3, <3>4, Zenon DEF Pipe!Init, Pipe!TypeOK
  <2>3. Pipe!StreamIntact
    BY <2>1, PipeConstants DEF Pipe!Init, Pipe!StreamIntact
  <2>4. \A u \in Pipe!Users : pipePC[u] = "idle"
    BY Zenon DEF Pipe!Init
  <2>5. Pipe!NoMissedReader /\ Pipe!NoStandstill
    BY <2>1, <2>4 DEF Pipe!Init, Pipe!NoMissedReader, Pipe!NoStandstill, Pipe!Users
  <2> QED
    BY <2>1, <2>2, <2>3, <2>4, <2>5, Zenon DEF Pipe!Init, PipeInv
<1>2. PipeInv /\ [Pipe!Next]_(Pipe!vars) => PipeInv'
  <2> SUFFICES ASSUME PipeInv, [Pipe!Next]_(Pipe!vars) PROVE PipeInv'
    BY Zenon
  <2>1. CASE UNCHANGED Pipe!vars
    BY <2>1, Zenon DEF Pipe!vars, PipeInv, Pipe!TypeOK, Pipe!StreamIntact, Pipe!NoMissedReader, Pipe!NoStandstill,
                Pipe!WokenReaders, Pipe!WokenWriters
  <2>2. \A u \in Pipe!Users : pipePC[u] = "woken" => pipeLeft[u] \in 1..MaxChunk
    BY PipeConstants DEF PipeInv, Pipe!TypeOK
  <2>3. ASSUME NEW w \in PipeWriters, NEW n \in 1..MaxChunk, Pipe!Write(w, n) PROVE PipeInv'
    BY <2>3, WriteStep, Zenon DEF Pipe!Write
  <2>4. ASSUME NEW w \in PipeWriters, Pipe!WriteWoken(w) PROVE PipeInv'
    BY <2>2, <2>4, WriteStep, Zenon DEF Pipe!WriteWoken, Pipe!Users
  <2>5. ASSUME NEW r \in PipeReaders, NEW n \in 1..MaxChunk, Pipe!Read(r, n) PROVE PipeInv'
    BY <2>5, EmptyStep, ReadStep, Zenon DEF Pipe!Read, Pipe!Get
  <2>6. ASSUME NEW r \in PipeReaders, Pipe!ReadWoken(r) PROVE PipeInv'
    BY <2>2, <2>6, EmptyStep, ReadStep, Zenon DEF Pipe!ReadWoken, Pipe!Get, Pipe!Users
  <2> QED
    BY <2>1, <2>3, <2>4, <2>5, <2>6, BrokenStep, CloseStep, Zenon DEF Pipe!Next
<1>3. PipeInv => Pipe!TypeOK /\ StreamIntact /\ PipeWakeups
  BY Zenon DEF PipeInv, StreamIntact, PipeWakeups
<1> QED
  BY <1>1, <1>2, <1>3, PTL DEF Pipe!Spec

(* The bytes read from the pipe are the bytes written to it, in order.      *)
THEOREM BytesInOrder == Pipe!Spec => []StreamIntact
BY PipeCorrect, PTL

(* Nobody sleeps on the pipe through what it waits for, and its users never *)
(* all wait for each other.                                                 *)
THEOREM NobodySleepsThrough == Pipe!Spec => []PipeWakeups
BY PipeCorrect, PTL

=============================================================================
