------------------------------ MODULE OSKernel ------------------------------
(***************************************************************************)
(* pkg/kernel/os_kernel.go and the step debugger of cmd/os-sim/main.go     *)
(* that drives it: the process manager (module ProcessManager) composed    *)
(* with a scheduler.  The debugger runs one command at a time.             *)
(*                                                                         *)
(* Of the scheduler this keeps what all of them share (module Scheduler):  *)
(* Tick admits exactly the processes that arrive at its time, runs one of  *)
(* the admitted ones, and returns nil if there is none or the process has  *)
(* finished.  Time is relative: due[p] is p's ArrivalTime less CurrentTick *)
(* as long as that is not negative, and -1 from then on.                   *)
(***************************************************************************)
EXTENDS ProcessManager

(* The exit code of a process that the debugger kills. *)
ASSUME DebuggerAssumption == 0 \in ExitCodes

VARIABLES
  RunningProcess,   \* its PID, or Nil
  due,              \* due[p]: ticks until p arrives, or -1
  admitted,         \* the processes in the scheduler's ready queue or running
  scheduled,        \* what the last Tick returned, or Nil
  setup             \* steps of the debugger's set-up that are done

kernelVars == <<RunningProcess, due, admitted, scheduled, setup>>

KernelTypeOK ==
  /\ RunningProcess \in PIDs \cup {Nil}
  /\ due \in [PIDs -> -1..1]
  /\ admitted \subseteq PIDs
  /\ scheduled \in PIDs \cup {Nil}
  /\ setup \in 0..4

(* NewOSKernel: init is running, and is added to the scheduler at time 0. *)
KernelInit ==
  /\ Init
  /\ RunningProcess = InitPID
  /\ due = [p \in PIDs |-> IF p = InitPID THEN 0 ELSE -1]
  /\ admitted = {} /\ scheduled = Nil
  /\ setup = 0

-----------------------------------------------------------------------------
(* Mutation: a forked process arrives at the next tick. *)
ArrivesNextTick == 1

(* The set-up and the fork command pass the current tick as arrival time. *)
ArrivesNow == 0

Add(pid) == due' = [due EXCEPT ![pid] = ArrivesNow]

(* The debugger forks http_server and db_worker under init; each is exec'd  *)
(* and added to the scheduler.                                              *)
SetUp ==
  /\ setup < 4 /\ setup' = setup + 1
  /\ IF setup % 2 = 0 THEN Fork(InitPID) /\ UNCHANGED due
     ELSE Exec(NextPID - 1) /\ Add(NextPID - 1)
  /\ UNCHANGED <<RunningProcess, admitted, scheduled>>

(* Step: CurrentTick is incremented, and the scheduler ticked at it. *)
Arriving == {p \in PIDs : due[p] = 1}

Tick(p, finished) ==
  /\ admitted' = (admitted \cup Arriving) \ (IF finished THEN {p} ELSE {})
  /\ scheduled' = IF finished THEN Nil ELSE p

Idle == admitted' = {} /\ scheduled' = Nil

(* On a context switch the process is looked up by its PID, and nil if it   *)
(* has been reaped.  It is no switch if the PIDs are the same.              *)
Step ==
  /\ IF admitted \cup Arriving = {} THEN Idle
     ELSE \E p \in admitted \cup Arriving, finished \in BOOLEAN : Tick(p, finished)
  /\ due' = [p \in PIDs |-> IF due[p] > 0 THEN due[p] - 1 ELSE -1]
  /\ RunningProcess' = IF scheduled' \in {Nil, RunningProcess} THEN RunningProcess
                       ELSE IF scheduled' \in Processes THEN scheduled' ELSE Nil
  /\ UNCHANGED vars

-----------------------------------------------------------------------------
(* The commands of the debugger.  Fork is on behalf of the running process, *)
(* or of init; exec is refused without one.  Exit and Wait leave the        *)
(* scheduler as it is.                                                      *)
CommandFork ==
  LET parent == IF RunningProcess = Nil THEN InitPID ELSE RunningProcess
  IN  IF Base[parent] = Nil THEN ForkZombie(parent) /\ UNCHANGED due
      ELSE Fork(parent) /\ Add(NextPID)

CommandExec ==
  /\ RunningProcess # Nil
  /\ IF Base[RunningProcess] = Nil THEN ExecZombie(RunningProcess)
     ELSE Exec(RunningProcess)
  /\ UNCHANGED due

CommandKill(pid) == Exit(pid, 0) /\ UNCHANGED due
CommandWait(pid) == Wait(pid) /\ UNCHANGED due

Command ==
  /\ setup = 4 /\ UNCHANGED setup
  /\ ~panicked
  /\ \/ Step
     \/ /\ \/ CommandFork
           \/ CommandExec
           \/ \E pid \in PIDs : CommandKill(pid)
           \/ \E pid \in PIDs : CommandWait(pid)
        /\ UNCHANGED <<RunningProcess, admitted, scheduled>>

KernelNext == SetUp \/ Command

KernelSpec == KernelInit /\ [][KernelNext]_<<vars, kernelVars>>

(* The user steps again and again. *)
KernelFairSpec ==
  /\ KernelSpec
  /\ WF_<<vars, kernelVars>>(SetUp)
  /\ WF_<<vars, kernelVars>>(setup = 4 /\ ~panicked /\ Step /\ UNCHANGED setup)

-----------------------------------------------------------------------------
(* Properties *)

(***************************************************************************)
(* Neither the set-up nor any sequence of commands panics the program once *)
(* the debugger is in charge (setup > 0).  Exit sets the address           *)
(* space of a process to nil but tells the scheduler nothing, so a zombie  *)
(* that became RunningProcess would be forked or exec'd into a panic.      *)
(* Nothing but Step and the arrival times stand between them.              *)
(***************************************************************************)
DebuggerNeverPanics == setup > 0 => ~panicked

(***************************************************************************)
(* README.md, on step: "triggers timer interrupts and context switches".   *)
(* In the end some step runs a process.  All processes arrive at a tick    *)
(* that is over when the scheduler next looks, so this fails: see the      *)
(* README.                                                                 *)
(***************************************************************************)
StepRunsSomebody == <>(scheduled # Nil)

=============================================================================
