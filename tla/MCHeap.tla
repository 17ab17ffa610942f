------------------------------- MODULE MCHeap -------------------------------
(***************************************************************************)
(* The part of pkg/memory that hands out addresses, for module MCSystem:   *)
(* the free list, the buddy system, the call stack and the heap.           *)
(***************************************************************************)
EXTENDS Integers

CONSTANTS
  HeapStart, HeapSize, Slack, BlockSizes, NoBlock,                 \* of the free list
  MinOrder, MaxOrder, BuddySizes,                                  \* of the buddy system
  Modulus, StackBase, StackSize, MaxDepth, FrameSizes,             \* of the stack
  SpaceSize, PhysicalBase, MaxIncrement                            \* of the heap

VARIABLES
  blkSize, blkAllocated, blkNext, blkPrev, AllocatedBytes,
  leaves, granted,
  CurrentSP, CurrentBP, stackFrames,
  HeapBreak, heapLimit, sbrk

List == INSTANCE FreeListAllocator WITH
          TotalSize <- HeapSize, Sizes <- BlockSizes, Nil <- NoBlock,
          Size <- blkSize, IsAllocated <- blkAllocated, Next <- blkNext, Prev <- blkPrev
Buddy == INSTANCE BuddyAllocator WITH BaseAddr <- HeapStart, Sizes <- BuddySizes
Stack == INSTANCE CallStack WITH
           BaseAddress <- StackBase, TotalSizeBytes <- StackSize, Frames <- stackFrames
AS == INSTANCE AddressSpace WITH TotalSize <- SpaceSize

listVars == <<blkSize, blkAllocated, blkNext, blkPrev, AllocatedBytes>>
buddyVars == <<leaves, granted>>
stackVars == <<CurrentSP, CurrentBP, stackFrames>>
asVars == <<HeapBreak, heapLimit, sbrk>>

ASSUME HeapAssumption ==
  List!ConstantsOK /\ Buddy!ConstantsOK /\ Stack!ConstantsOK /\ AS!ConstantsOK

-----------------------------------------------------------------------------
(* Properties *)

(* The blocks of the heap tile it, in the free list (links in both          *)
(* directions, byte count included) and in the buddy system.                *)
AllocatorsInv == List!BlocksTile /\ List!BytesAddUp /\ Buddy!BuddiesTile

(* Stack frames nest inside the stack, and the break stays within the heap. *)
StackAndHeapInv == Stack!FramesNest /\ AS!HeapBounded

=============================================================================
