------------------------------ MODULE MCSystem ------------------------------
(***************************************************************************)
(* What is checked for safety only, for TLC: the process manager, on its   *)
(* own and under the debugger, the CPU with traps and system calls, demand *)
(* paging, TLB, two-level page table, allocators, call stack and heap, the *)
(* bounded buffer, the banker, message queue and shared memory.  But for   *)
(* the first two they share no state, so a behaviour exercises one unit    *)
(* and leaves the others in their initial states.                          *)
(***************************************************************************)
EXTENDS OSKernel, HardwareCPU, MCPaging, MCHeap, MCShared, BoundedBuffer

CONSTANTS
  NumProcesses, A, B   \* of the banker, with resources A and B

VARIABLES
  unit,   \* what is exercised
  bankAvailable, bankMax, bankAllocation, bankNeed, bankClaimed

BankTotal == [r \in {A, B} |-> IF r = A THEN 2 ELSE 1]

Bank == INSTANCE Banker WITH
          Resources <- {A, B}, Total <- BankTotal,
          Available <- bankAvailable, Max <- bankMax, Allocation <- bankAllocation,
          Need <- bankNeed, claimed <- bankClaimed

bankVars == <<bankAvailable, bankMax, bankAllocation, bankNeed, bankClaimed>>

allVars == <<unit, vars, kernelVars, cpuVars, memVars, tlbVars, ptVars, listVars, buddyVars,
             stackVars, asVars, monitorVars, bankVars, mqVars, shmVars, segVars>>

SystemInit ==
  /\ unit \in {"processes", "debugger", "cpu", "paging", "tlb", "table", "list", "buddy",
               "stack", "heap", "buffer", "banker", "queue", "manager", "segment"}
  /\ KernelInit /\ CPUInit /\ Mem!Init /\ T!Init /\ PT!Init /\ List!Init /\ Buddy!Init
  /\ Stack!Init /\ AS!Init /\ BufferInit /\ Bank!Init /\ MQ!Init /\ Shm!Init /\ Seg!Init
  /\ unit # "paging" => Policy = "FIFO"

(* The units that may come to a stop: a panic ends the program, the buddy    *)
(* system runs out of memory, a consumer may wait for an item that nobody    *)
(* puts.  The others can always go on.                                       *)
MayStop == unit \in {"processes", "debugger", "buddy", "buffer"} /\ UNCHANGED allVars

SystemNext ==
  /\ \/ unit = "processes" /\ Next /\ UNCHANGED kernelVars
     \/ unit = "debugger" /\ KernelNext
     \/ unit = "cpu" /\ CPUNext
     \/ unit = "paging" /\ Mem!Next
     \/ unit = "tlb" /\ T!Next
     \/ unit = "table" /\ PT!Next
     \/ unit = "list" /\ List!Step
     \/ unit = "buddy" /\ Buddy!Next
     \/ unit = "stack" /\ Stack!Next
     \/ unit = "heap" /\ AS!Next
     \/ unit = "buffer" /\ BufferNext
     \/ unit = "banker" /\ Bank!Next
     \/ unit = "queue" /\ MQ!Next
     \/ unit = "manager" /\ Shm!Next
     \/ unit = "segment" /\ Seg!Next
     \/ MayStop
  /\ unit \notin {"processes", "debugger"} => UNCHANGED <<vars, kernelVars>>
  /\ unit # "cpu" => UNCHANGED cpuVars
  /\ unit # "paging" => UNCHANGED memVars
  /\ unit # "tlb" => UNCHANGED tlbVars
  /\ unit # "table" => UNCHANGED ptVars
  /\ unit # "list" => UNCHANGED listVars
  /\ unit # "buddy" => UNCHANGED buddyVars
  /\ unit # "stack" => UNCHANGED stackVars
  /\ unit # "heap" => UNCHANGED asVars
  /\ unit # "buffer" => UNCHANGED monitorVars
  /\ unit # "banker" => UNCHANGED bankVars
  /\ unit # "queue" => UNCHANGED mqVars
  /\ unit # "manager" => UNCHANGED shmVars
  /\ unit # "segment" => UNCHANGED segVars
  /\ UNCHANGED unit

SystemSpec == SystemInit /\ [][SystemNext]_allVars

-----------------------------------------------------------------------------
(* Properties *)

(* The types of the variables, those of the unit that is exercised. *)
SystemTypesOK ==
  /\ unit \in {"processes", "debugger"} => TypeOK
  /\ unit = "debugger" => KernelTypeOK
  /\ unit = "cpu" => CPUTypeOK
  /\ unit = "paging" => Mem!TypeOK
  /\ unit = "tlb" => T!TypeOK
  /\ unit = "table" => PT!TypeOK
  /\ unit = "list" => List!TypeOK
  /\ unit = "buddy" => Buddy!TypeOK
  /\ unit = "stack" => Stack!TypeOK
  /\ unit = "heap" => AS!TypeOK
  /\ unit = "buffer" => BufferTypeOK
  /\ unit = "banker" => Bank!TypeOK
  /\ unit = "queue" => MQ!TypeOK
  /\ unit = "manager" => Shm!TypeOK
  /\ unit = "segment" => Seg!TypeOK

(* Banker: the tables agree, the search is exact and safe states stay safe. *)
BankerIsSafe == Bank!BankerIsSafe

=============================================================================
