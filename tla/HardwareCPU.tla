---------------------------- MODULE HardwareCPU ----------------------------
(***************************************************************************)
(* pkg/kernel/cpu_mode.go, trap_table.go and syscall.go: the dual-mode     *)
(* CPU, the interrupt descriptor table and the system call dispatcher,     *)
(* with OSKernel.TriggerSyscall, which joins them.  A trap handler is any  *)
(* sequence of instructions and further traps: RegisterHandler takes an    *)
(* arbitrary function of the CPU.  Stack pointers, the program counter,    *)
(* counters and logs are left out.                                         *)
(***************************************************************************)
EXTENDS Integers

CONSTANTS
  MaxNesting,   \* bound on traps within traps
  WordSize,     \* a register holds 0..WordSize-1 (2^64 in the code)
  KernelBase,   \* 0xC0000000
  CallerPIDs, BufPtrs, Counts   \* the arguments of a system call

VARIABLES
  CurrentMode, InterruptsOn, CR3,
  traps,        \* DispatchTrap calls that have not returned
  entered,      \* history: kernel mode was entered by SwitchToKernelMode or
                \* a syscall instruction, and not left since
  regs          \* the last system call: its number, RAX after it, the value
                \* returned to the Go caller, and whether an error was

cpuVars == <<CurrentMode, InterruptsOn, CR3, traps, entered, regs>>

(* Words are wide enough for the handlers' results and the PIDs as signed   *)
(* numbers, and the counts are words.                                       *)
ASSUME CPUAssumption ==
  /\ MaxNesting \in Nat
  /\ WordSize \in Nat /\ WordSize > 2 * 3145728
  /\ CallerPIDs \subseteq Nat /\ \A pid \in CallerPIDs : 2 * pid < WordSize
  /\ Counts \subseteq 0..(WordSize - 1)

Numbers == 1..13   \* SysFork .. SysGetPID
Registers == [num : Numbers \cup {0}, RAX : 0..(WordSize - 1), ret : Int, err : BOOLEAN]

CPUTypeOK ==
  /\ CurrentMode \in {"kernel", "user"}
  /\ InterruptsOn \in BOOLEAN
  /\ CR3 \in {1, 2}
  /\ traps \in 0..MaxNesting
  /\ entered \in BOOLEAN
  /\ regs \in Registers

CPUInit ==
  /\ CurrentMode = "user" /\ InterruptsOn = TRUE /\ CR3 = 1
  /\ traps = 0 /\ entered = FALSE
  /\ regs = [num |-> 0, RAX |-> 0, ret |-> 0, err |-> FALSE]

-----------------------------------------------------------------------------
(* Called directly, and by the syscall instruction. *)
SwitchToKernelMode ==
  /\ CurrentMode' = "kernel"
  /\ entered' = (entered \/ CurrentMode = "user")
  /\ UNCHANGED <<InterruptsOn, CR3, traps, regs>>

ReturnToUserMode ==
  /\ CurrentMode' = "user" /\ entered' = FALSE
  /\ UNCHANGED <<InterruptsOn, CR3, traps, regs>>

(* ExecuteInstruction, for the opcodes that change something: STI, CLI and  *)
(* MOV CR3.  Whether it is refused in user mode is up to the IsPrivileged   *)
(* that its caller has put into the instruction, not to the opcode.         *)
ExecuteInstruction(IsPrivileged) ==
  /\ ~(IsPrivileged /\ CurrentMode = "user")
  /\ \/ \E on \in BOOLEAN : InterruptsOn' = on /\ UNCHANGED CR3
     \/ CR3' = 2 /\ UNCHANGED InterruptsOn
  /\ UNCHANGED <<CurrentMode, traps, entered, regs>>

-----------------------------------------------------------------------------
(* DispatchTrap for a vector with a handler (an unhandled one is refused),  *)
(* up to the call of the handler ...                                        *)
DispatchTrap ==
  /\ traps < MaxNesting
  /\ traps' = traps + 1
  /\ CurrentMode' = "kernel"
  /\ UNCHANGED <<InterruptsOn, CR3, entered, regs>>

(* Mutation: a handler's error is returned before the return from the trap. *)
ReturnUnlessError(err) ==
  /\ traps > 0 /\ traps' = traps - 1
  /\ CurrentMode' = IF err THEN CurrentMode ELSE "user"
  /\ entered' = FALSE
  /\ UNCHANGED <<InterruptsOn, CR3, regs>>

(* ... and from its return.  The handler's error is dropped, and the CPU    *)
(* goes to user mode whatever mode the trap was taken in.                   *)
ReturnFromTrap(err) ==
  /\ traps > 0 /\ traps' = traps - 1
  /\ CurrentMode' = "user" /\ entered' = FALSE
  /\ UNCHANGED <<InterruptsOn, CR3, regs>>

-----------------------------------------------------------------------------
(* The system call table.  SysKill (10) has a number and no entry. *)
Table == Numbers \ {10}

Signed(word) == IF 2 * word < WordSize THEN word ELSE word - WordSize
Unsigned(n) == IF n < 0 THEN n + WordSize ELSE n   \* for n of that width
toErrno(e) == Unsigned(-e)

(* What the default handlers return. *)
BadPointer(num, buf) == num \in {5, 6} /\ buf >= KernelBase

Handler(num, pid, buf, count) ==
  CASE num = 13 -> pid                                   \* getpid
    [] num \in {5, 6} -> IF BadPointer(num, buf) THEN -14 ELSE Signed(count)
    [] num = 11 -> 131072                                \* sbrk
    [] num \in {1, 3} -> 1001                            \* fork, waitpid
    [] num = 8 -> 42                                     \* shmget
    [] num = 9 -> 3145728                                \* shmat
    [] OTHER -> 0

Dispatch(num, pid, buf, count) ==
  LET ret == Handler(num, pid, buf, count)
  IN  CASE num \notin Table -> [num |-> num, RAX |-> toErrno(1), ret |-> -1, err |-> TRUE]
        [] BadPointer(num, buf) -> [num |-> num, RAX |-> toErrno(22), ret |-> ret, err |-> TRUE]
        [] OTHER -> [num |-> num, RAX |-> Unsigned(ret), ret |-> ret, err |-> FALSE]

(* TriggerSyscall: into kernel mode, Dispatch, and back. *)
TriggerSyscall ==
  /\ traps = 0
  /\ \E num \in Numbers, pid \in CallerPIDs, buf \in BufPtrs, count \in Counts :
       regs' = Dispatch(num, pid, buf, count)
  /\ CurrentMode' = "user" /\ entered' = FALSE
  /\ UNCHANGED <<InterruptsOn, CR3, traps>>

CPUNext ==
  \/ SwitchToKernelMode
  \/ ReturnToUserMode
  \/ \E IsPrivileged \in BOOLEAN : ExecuteInstruction(IsPrivileged)
  \/ DispatchTrap
  \/ \E err \in BOOLEAN : ReturnFromTrap(err)
  \/ TriggerSyscall

CPUSpec == CPUInit /\ [][CPUNext]_cpuVars

-----------------------------------------------------------------------------
(* Properties *)

(***************************************************************************)
(* The kernel is entered and left in pairs: with no trap being handled and *)
(* no explicit entry open, the CPU is in user mode, however traps nest,    *)
(* whatever handlers execute and whether or not they fail.  And a system   *)
(* call comes back in user mode with its result in RAX, through the        *)
(* conversions between words and signed numbers; or, if it fails, with the *)
(* dispatcher's errno: -1 if the table has no such call, and -22 (EINVAL)  *)
(* for a bad pointer too, while the handler's own -14 (EFAULT), which      *)
(* README.md promises, reaches the Go caller only.                         *)
(***************************************************************************)
TrapDiscipline ==
  /\ [](CurrentMode = "kernel" => entered \/ traps > 0)
  /\ [][regs' # regs =>
          /\ CurrentMode' = "user"
          /\ CASE ~regs'.err -> Signed(regs'.RAX) = regs'.ret
               [] regs'.err /\ regs'.num \in Table -> Signed(regs'.RAX) = -22 /\ regs'.ret = -14
               [] OTHER -> Signed(regs'.RAX) = -1 /\ regs'.ret = -1]_cpuVars

=============================================================================
