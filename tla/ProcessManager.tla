--------------------------- MODULE ProcessManager ---------------------------
(***************************************************************************)
(* pkg/kernel/process_lifecycle.go: fork, exec, exit and wait over the     *)
(* table of Unix processes.  Every operation runs under pm.mu, so each is  *)
(* one action; a call that returns an error changes nothing.  Names, file  *)
(* descriptors, registers and the log are left out.                        *)
(***************************************************************************)
EXTENDS Integers, Sequences

CONSTANTS
  MaxPID,      \* bound on NextPID: Fork is not called beyond it
  NumPages,    \* pages of a page table (16 in the code)
  ExitCodes,   \* the exit codes passed to Exit
  Nil          \* a nil pointer, an invalid page table entry, no exit code

ASSUME ConstantsAssumption ==
  /\ MaxPID \in Nat \ {0}
  /\ NumPages \in Nat \ {0}
  /\ Nil \notin Int
  /\ Nil \notin ExitCodes

VARIABLES
  Processes,   \* the PIDs in the process table
  NextPID,
  PPID,        \* PPID[p]: the parent
  State,       \* State[p]: "READY" or "ZOMBIE"
  ExitCode,    \* ExitCode[p]: Nil until Exit sets it
  Children,    \* Children[p]: the sequence of child PIDs
  Base,        \* PhysicalBase in units of 64 KiB (the size of an address
               \* space), or Nil once AddressSpace is nil
  PageTable,   \* PageTable[p][vpn]: the frame, or Nil when not valid
  panicked     \* a nil AddressSpace has been dereferenced

treeVars == <<Processes, NextPID, PPID, State, Children>>
vars == <<treeVars, ExitCode, Base, PageTable, panicked>>

InitPID == 1
PIDs == 1..MaxPID
Pages == 0..(NumPages - 1)
EmptyPT == [v \in Pages |-> Nil]

TypeOK ==
  /\ Processes \subseteq PIDs
  /\ NextPID \in 2..(MaxPID + 1)
  /\ PPID \in [PIDs -> 0..MaxPID]
  /\ State \in [PIDs -> {"READY", "ZOMBIE"}]
  /\ ExitCode \in [PIDs -> ExitCodes \cup {Nil}]
  /\ Children \in [PIDs -> Seq(PIDs)]
  /\ Base \in [PIDs -> Int \cup {Nil}]
  /\ PageTable \in [PIDs -> [Pages -> Int \cup {Nil}]]
  /\ panicked \in BOOLEAN

(* NewProcessManager: init alone, its address space at 0x00100000. *)
Init ==
  /\ Processes = {InitPID}
  /\ NextPID = 2
  /\ PPID = [p \in PIDs |-> 0]
  /\ State = [p \in PIDs |-> "READY"]
  /\ ExitCode = [p \in PIDs |-> Nil]
  /\ Children = [p \in PIDs |-> <<>>]
  /\ Base = [p \in PIDs |-> IF p = InitPID THEN 16 ELSE Nil]
  /\ PageTable = [p \in PIDs |-> EmptyPT]
  /\ panicked = FALSE

-----------------------------------------------------------------------------
(* The lookup every operation starts with (the program runs until a panic). *)
Exists(pid) == ~panicked /\ pid \in Processes

(* The child's frames: every valid entry of the parent moved up by 10 times *)
(* the child's PID.                                                         *)
ForkedPT(pt, child) ==
  [v \in Pages |-> IF pt[v] = Nil THEN Nil ELSE pt[v] + child * 10]

(* Fork on a process that has an address space. *)
Fork(parent) ==
  /\ Exists(parent)
  /\ Base[parent] # Nil
  /\ NextPID <= MaxPID
  /\ Processes' = Processes \cup {NextPID}
  /\ NextPID' = NextPID + 1
  /\ PPID' = [PPID EXCEPT ![NextPID] = parent]
  /\ State' = [State EXCEPT ![NextPID] = "READY"]
  /\ Children' = [Children EXCEPT ![parent] = Append(@, NextPID), ![NextPID] = <<>>]
  /\ Base' = [Base EXCEPT ![NextPID] = Base[parent] + NextPID]
  /\ PageTable' = [PageTable EXCEPT ![NextPID] = ForkedPT(PageTable[parent], NextPID)]
  /\ UNCHANGED <<ExitCode, panicked>>

(* Exec on a process that has an address space: same base, a fresh page     *)
(* table with page 0 in frame 20 * pid.                                     *)
Exec(pid) ==
  /\ Exists(pid)
  /\ Base[pid] # Nil
  /\ PageTable' = [PageTable EXCEPT ![pid] = [EmptyPT EXCEPT ![0] = pid * 20]]
  /\ UNCHANGED <<treeVars, ExitCode, Base, panicked>>

(* Fork and Exec read the address space, which Exit has set to nil for a    *)
(* zombie, without a check: the program panics.  Fork has by then taken a   *)
(* PID, but linked nothing.                                                 *)
ForkZombie(parent) ==
  /\ Exists(parent)
  /\ Base[parent] = Nil
  /\ NextPID <= MaxPID
  /\ NextPID' = NextPID + 1
  /\ panicked' = TRUE
  /\ UNCHANGED <<Processes, PPID, State, Children, ExitCode, Base, PageTable>>

ExecZombie(pid) ==
  /\ Exists(pid)
  /\ Base[pid] = Nil
  /\ panicked' = TRUE
  /\ UNCHANGED <<treeVars, ExitCode, Base, PageTable>>

-----------------------------------------------------------------------------
(* The children that are still in the table.  The first case says what     *)
(* the filter does when it drops nobody.                                    *)
Existing(list) ==
  IF \A i \in 1..Len(list) : list[i] \in Processes
  THEN list
  ELSE SelectSeq(list, LAMBDA c : c \in Processes)

(* Mutation: orphans get init as parent but are not appended to its list. *)
ExitUnadopted(pid, code) ==
  /\ Exists(pid)
  /\ pid # InitPID
  /\ State' = [State EXCEPT ![pid] = "ZOMBIE"]
  /\ ExitCode' = [ExitCode EXCEPT ![pid] = code]
  /\ Base' = [Base EXCEPT ![pid] = Nil]
  /\ LET orphans == Existing(Children[pid])
     IN PPID' = [p \in PIDs |-> IF \E i \in 1..Len(orphans) : orphans[i] = p
                                THEN InitPID ELSE PPID[p]]
  /\ Children' = [Children EXCEPT ![pid] = <<>>]
  /\ UNCHANGED <<Processes, NextPID, PageTable, panicked>>

(* Mutation: the exiting process keeps its children. *)
ExitKeepsChildren(pid, code) ==
  /\ Exists(pid)
  /\ pid # InitPID
  /\ State' = [State EXCEPT ![pid] = "ZOMBIE"]
  /\ ExitCode' = [ExitCode EXCEPT ![pid] = code]
  /\ Base' = [Base EXCEPT ![pid] = Nil]
  /\ UNCHANGED <<Processes, NextPID, PPID, Children, PageTable, panicked>>

(* Exit: the process becomes a zombie, loses its address space, and its     *)
(* children go to init, in their order.  Exiting again is not refused.      *)
Exit(pid, code) ==
  /\ Exists(pid)
  /\ pid # InitPID
  /\ State' = [State EXCEPT ![pid] = "ZOMBIE"]
  /\ ExitCode' = [ExitCode EXCEPT ![pid] = code]
  /\ Base' = [Base EXCEPT ![pid] = Nil]
  /\ LET orphans == Existing(Children[pid])
     IN /\ PPID' = [p \in PIDs |-> IF \E i \in 1..Len(orphans) : orphans[i] = p
                                   THEN InitPID ELSE PPID[p]]
        /\ Children' = [Children EXCEPT ![InitPID] = @ \o orphans, ![pid] = <<>>]
  /\ UNCHANGED <<Processes, NextPID, PageTable, panicked>>

-----------------------------------------------------------------------------
Without(list, i) == [j \in 1..(Len(list) - 1) |-> IF j < i THEN list[j] ELSE list[j + 1]]

FirstZombie(list, i) ==
  /\ list[i] \in Processes /\ State[list[i]] = "ZOMBIE"
  /\ \A j \in 1..(i - 1) : list[j] \notin Processes \/ State[list[j]] # "ZOMBIE"

(* Mutation: the child is marked as reaped but stays in the table. *)
WaitMarksReaped(parent) ==
  /\ Exists(parent)
  /\ \E i \in 1..Len(Children[parent]) :
       /\ FirstZombie(Children[parent], i)
       /\ State' = [State EXCEPT ![Children[parent][i]] = "REAPED"]
       /\ Children' = [Children EXCEPT ![parent] = Without(@, i)]
  /\ UNCHANGED <<Processes, NextPID, PPID, ExitCode, Base, PageTable, panicked>>

(* Wait: the first zombie in the list is deleted from the table and from    *)
(* the list.                                                                *)
Wait(parent) ==
  /\ Exists(parent)
  /\ \E i \in 1..Len(Children[parent]) :
       /\ FirstZombie(Children[parent], i)
       /\ Processes' = Processes \ {Children[parent][i]}
       /\ ExitCode' = [ExitCode EXCEPT ![Children[parent][i]] = Nil]
       /\ Children' = [Children EXCEPT ![parent] = Without(@, i)]
  /\ UNCHANGED <<NextPID, PPID, State, Base, PageTable, panicked>>

-----------------------------------------------------------------------------
Next ==
  \E pid \in PIDs :
    \/ Fork(pid)
    \/ Exec(pid)
    \/ ForkZombie(pid)
    \/ ExecZombie(pid)
    \/ \E code \in ExitCodes : Exit(pid, code)
    \/ Wait(pid)

Spec == Init /\ [][Next]_vars

-----------------------------------------------------------------------------
(* Properties *)

(***************************************************************************)
(* The table is a tree rooted at init, seen the same way from both ends:   *)
(* every other process has an older parent in the table which lists it,    *)
(* and a list names only processes in the table whose parent is its owner, *)
(* each one once.  So every zombie can be found by a Wait of its parent    *)
(* and no PID is reaped twice, through any sequence of Fork, Exit          *)
(* (re-parenting included) and Wait.                                       *)
(***************************************************************************)
ProcessTree ==
  /\ InitPID \in Processes
  /\ \A p \in Processes : p < NextPID
  /\ \A p \in Processes \ {InitPID} :
       /\ PPID[p] \in Processes
       /\ PPID[p] < p
       /\ \E i \in 1..Len(Children[PPID[p]]) : Children[PPID[p]][i] = p
  /\ \A p \in Processes : \A i \in 1..Len(Children[p]) :
       /\ Children[p][i] \in Processes \ {InitPID}
       /\ PPID[Children[p][i]] = p
       /\ \A j \in 1..Len(Children[p]) : Children[p][i] = Children[p][j] => i = j

(***************************************************************************)
(* Init is never a zombie, a zombie is a leaf, and exactly the zombies     *)
(* have no address space: Exit hands all children to init, and nothing     *)
(* forks under a zombie afterwards.                                        *)
(***************************************************************************)
ZombiesAreLeaves ==
  /\ State[InitPID] = "READY"
  /\ \A p \in Processes :
       /\ State[p] = "ZOMBIE" <=> Base[p] = Nil
       /\ State[p] = "ZOMBIE" => Children[p] = <<>>

(***************************************************************************)
(* README.md: "Virtual memory guarantees that every process operates in a  *)
(* private, isolated address space".  Two processes that have an address   *)
(* space have it at different physical bases and map different frames.     *)
(* Fork's and Exec's arithmetic does not ensure it: see the README.        *)
(***************************************************************************)
PrivateAddressSpaces ==
  \A p, q \in Processes :
    p # q /\ Base[p] # Nil /\ Base[q] # Nil =>
      /\ Base[p] # Base[q]
      /\ \A v, w \in Pages : PageTable[p][v] # Nil => PageTable[p][v] # PageTable[q][w]

=============================================================================
