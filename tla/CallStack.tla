----------------------------- MODULE CallStack -----------------------------
(***************************************************************************)
(* pkg/memory/stack_heap.go: the call stack, which grows down from a base  *)
(* address.  Addresses are unsigned integers that wrap around.  Function   *)
(* names, return addresses and locals are left out.                        *)
(***************************************************************************)
EXTENDS Integers, Sequences

CONSTANTS
  Modulus,          \* addresses are below this (2^64 in the code)
  BaseAddress,
  TotalSizeBytes,
  MaxDepth,         \* 256 in the code
  FrameSizes        \* the frame sizes callers pass

ConstantsOK ==
  /\ Modulus \in Nat /\ BaseAddress \in 0..Modulus-1 /\ TotalSizeBytes \in 0..Modulus-1
  /\ MaxDepth \in Nat
  /\ FrameSizes \subseteq 0..Modulus-1

VARIABLES CurrentSP, CurrentBP, Frames

stackVars == <<CurrentSP, CurrentBP, Frames>>

Address == 0..Modulus-1
StackFrame == [FramePointer : Address, StackPointer : Address, FrameSizeBytes : Address]

TypeOK ==
  /\ CurrentSP \in Address /\ CurrentBP \in Address
  /\ Frames \in Seq(StackFrame)

(* NewCallStack *)
Init == CurrentSP = BaseAddress /\ CurrentBP = BaseAddress /\ Frames = <<>>

(* uint64 arithmetic *)
Minus(a, b) == IF a >= b THEN a - b ELSE a - b + Modulus
Plus(a, b) == IF a + b < Modulus THEN a + b ELSE a + b - Modulus

(* Mutation: the wrap of a frame larger than the address is overlooked. *)
PassesTotalOnly(newSP) == Minus(BaseAddress, newSP) <= TotalSizeBytes

(* The stack pointer has not wrapped around or left the stack. *)
WithinStack(newSP) ==
  ~(newSP > CurrentSP) /\ Minus(BaseAddress, newSP) <= TotalSizeBytes

(* With too many frames, or beyond the stack: ErrStackOverflow. *)
PushFrame(frameSize) ==
  LET newSP == Minus(CurrentSP, frameSize)
  IN  /\ Len(Frames) < MaxDepth
      /\ WithinStack(newSP)
      /\ Frames' = Append(Frames, [FramePointer |-> CurrentBP, StackPointer |-> newSP,
                                   FrameSizeBytes |-> frameSize])
      /\ CurrentBP' = CurrentSP
      /\ CurrentSP' = newSP

(* With no frame: an error. *)
PopFrame ==
  /\ Frames # <<>>
  /\ LET popped == Frames[Len(Frames)]
     IN  /\ CurrentSP' = Plus(CurrentSP, popped.FrameSizeBytes)
         /\ CurrentBP' = popped.FramePointer
  /\ Frames' = SubSeq(Frames, 1, Len(Frames) - 1)

Next == (\E frameSize \in FrameSizes : PushFrame(frameSize)) \/ PopFrame

Spec == Init /\ [][Next]_stackVars

-----------------------------------------------------------------------------
(* Properties *)

(* The stack and base pointers at depth i. *)
SPAt(i) == IF i = 0 THEN BaseAddress ELSE Frames[i].StackPointer
BPAt(i) == IF i = 0 THEN BaseAddress ELSE SPAt(i - 1)

(***************************************************************************)
(* However calls and returns alternate, the frames tile the used part of   *)
(* the stack without gap or overlap, each saves the base pointer of its    *)
(* caller, the registers are those of the innermost frame, and nothing     *)
(* lies outside of the stack, the wrap of addresses notwithstanding.       *)
(***************************************************************************)
FramesNest ==
  /\ CurrentSP = SPAt(Len(Frames)) /\ CurrentBP = BPAt(Len(Frames))
  /\ \A i \in 1..Len(Frames) :
       /\ SPAt(i) + Frames[i].FrameSizeBytes = SPAt(i - 1)
       /\ Frames[i].FramePointer = BPAt(i - 1)
       /\ BaseAddress - SPAt(i) <= TotalSizeBytes
  /\ Len(Frames) <= MaxDepth

=============================================================================
