------------------------- MODULE FreeListAllocator -------------------------
(***************************************************************************)
(* pkg/memory/allocator.go: a heap as a doubly linked list of blocks.  A   *)
(* block is named by its address.  BlocksTile shows that the list is in    *)
(* address order, which is why "the first block" is the one with the       *)
(* lowest address.                                                         *)
(***************************************************************************)
EXTENDS Integers, FiniteSets

CONSTANTS
  HeapStart, TotalSize,
  Slack,      \* a block is split if more than this remains (16 in the code)
  Sizes,      \* the sizes callers ask for
  Nil         \* no block

ConstantsOK ==
  /\ HeapStart \in Nat /\ TotalSize \in Nat \ {0} /\ Slack \in Nat
  /\ Sizes \subseteq Nat \ {0} /\ Nil \notin Int

VARIABLES
  Size, IsAllocated, Next, Prev,   \* functions of the blocks in the list
  AllocatedBytes

listVars == <<Size, IsAllocated, Next, Prev, AllocatedBytes>>

Blocks == DOMAIN Size
HeapEnd == HeapStart + TotalSize

TypeOK ==
  /\ Blocks \subseteq HeapStart..HeapEnd-1
  /\ Size \in [Blocks -> 1..TotalSize]
  /\ IsAllocated \in [Blocks -> BOOLEAN]
  /\ {Next, Prev} \subseteq [Blocks -> Blocks \cup {Nil}]
  /\ AllocatedBytes \in 0..TotalSize

(* NewFreeListAllocator *)
Init ==
  /\ Size = [b \in {HeapStart} |-> TotalSize]
  /\ IsAllocated = [b \in {HeapStart} |-> FALSE]
  /\ Next = [b \in {HeapStart} |-> Nil]
  /\ Prev = [b \in {HeapStart} |-> Nil]
  /\ AllocatedBytes = 0

-----------------------------------------------------------------------------
Fits(size) == {b \in Blocks : ~IsAllocated[b] /\ Size[b] >= size}

FirstFit(size, chosen) ==
  chosen \in Fits(size) /\ \A b \in Fits(size) : chosen <= b

(* The smallest block, and the first of several. *)
BestFit(size, chosen) ==
  /\ chosen \in Fits(size)
  /\ \A b \in Fits(size) : Size[chosen] < Size[b] \/ (Size[chosen] = Size[b] /\ chosen <= b)

(* chosen is used as it is. *)
Take(chosen) ==
  /\ IsAllocated' = [IsAllocated EXCEPT ![chosen] = TRUE]
  /\ AllocatedBytes' = AllocatedBytes + Size[chosen]
  /\ UNCHANGED <<Size, Next, Prev>>

(* Mutation: the block after the remaining one keeps its Prev. *)
SplitWithoutBackLink(chosen, size) ==
  LET remaining == chosen + size
      All == Blocks \cup {remaining}
  IN  /\ Size' = [b \in All |-> IF b = chosen THEN size
                                ELSE IF b = remaining THEN Size[chosen] - size ELSE Size[b]]
      /\ IsAllocated' = [b \in All |-> IF b = chosen THEN TRUE
                                       ELSE IF b = remaining THEN FALSE ELSE IsAllocated[b]]
      /\ Next' = [b \in All |-> IF b = chosen THEN remaining
                                ELSE IF b = remaining THEN Next[chosen] ELSE Next[b]]
      /\ Prev' = [b \in All |-> IF b = remaining THEN chosen ELSE Prev[b]]
      /\ AllocatedBytes' = AllocatedBytes + size

(* chosen is cut to size, and a free block is linked in for what remains. *)
Split(chosen, size) ==
  LET remaining == chosen + size
      All == Blocks \cup {remaining}
  IN  /\ Size' = [b \in All |-> IF b = chosen THEN size
                                ELSE IF b = remaining THEN Size[chosen] - size ELSE Size[b]]
      /\ IsAllocated' = [b \in All |-> IF b = chosen THEN TRUE
                                       ELSE IF b = remaining THEN FALSE ELSE IsAllocated[b]]
      /\ Next' = [b \in All |-> IF b = chosen THEN remaining
                                ELSE IF b = remaining THEN Next[chosen] ELSE Next[b]]
      /\ Prev' = [b \in All |-> IF b = remaining THEN chosen
                                ELSE IF b = Next[chosen] THEN remaining ELSE Prev[b]]
      /\ AllocatedBytes' = AllocatedBytes + size

(* A size of 0, or no block that fits, changes nothing. *)
Malloc(size, bestFit) ==
  \E chosen \in Fits(size) :
    /\ IF bestFit THEN BestFit(size, chosen) ELSE FirstFit(size, chosen)
    /\ IF Size[chosen] > size + Slack THEN Split(chosen, size) ELSE Take(chosen)

-----------------------------------------------------------------------------
(* Whether the neighbour exists and is free. *)
IsFree(neighbour) == neighbour # Nil /\ ~IsAllocated[neighbour]

(* Mutation: a block is merged with the one after it only. *)
MergeNext(addr) == [first |-> addr, gone |-> IF IsFree(Next[addr]) THEN {Next[addr]} ELSE {}]

(* The block that addr becomes part of, and those that disappear. *)
Merge(addr) ==
  LET next == IF IsFree(Next[addr]) THEN {Next[addr]} ELSE {}
  IN  IF IsFree(Prev[addr]) THEN [first |-> Prev[addr], gone |-> next \cup {addr}]
      ELSE [first |-> addr, gone |-> next]

(* Free merges the block with a free successor, and the result with a free  *)
(* predecessor, and links the block after it to the one that remains.       *)
(* A double free, or an address that is no block, changes nothing.          *)
Free(addr) ==
  LET first == Merge(addr).first
      gone == Merge(addr).gone
      after == IF IsFree(Next[addr]) THEN Next[Next[addr]] ELSE Next[addr]
      Rest == Blocks \ gone
  IN  /\ IsAllocated[addr]
      /\ Size' = [b \in Rest |->
           IF b = first
           THEN Size[addr] + (IF first # addr THEN Size[first] ELSE 0)
                           + (IF IsFree(Next[addr]) THEN Size[Next[addr]] ELSE 0)
           ELSE Size[b]]
      /\ IsAllocated' = [b \in Rest |-> IF b = first THEN FALSE ELSE IsAllocated[b]]
      /\ Next' = [b \in Rest |-> IF b = first THEN after ELSE Next[b]]
      /\ Prev' = [b \in Rest |-> IF b = after THEN first ELSE Prev[b]]
      /\ AllocatedBytes' = AllocatedBytes - Size[addr]

Step ==
  \/ \E size \in Sizes, bestFit \in BOOLEAN : Malloc(size, bestFit)
  \/ \E addr \in Blocks : Free(addr)

Spec == Init /\ [][Step]_listVars

-----------------------------------------------------------------------------
(* Properties *)

(***************************************************************************)
(* Through any sequence of Malloc and Free the blocks tile the heap: each  *)
(* ends where its Next begins and the last at the end of the heap, no two  *)
(* overlap, Next and Prev are inverse, and neighbours are never both free. *)
(***************************************************************************)
BlocksTile ==
  /\ HeapStart \in Blocks /\ Prev[HeapStart] = Nil
  /\ \A b \in Blocks :
       /\ IF Next[b] = Nil THEN b + Size[b] = HeapEnd
          ELSE /\ Next[b] = b + Size[b]
               /\ Prev[Next[b]] = b
               /\ IsAllocated[b] \/ IsAllocated[Next[b]]
       /\ b # HeapStart => Prev[b] # Nil /\ Next[Prev[b]] = b
  /\ \A b, c \in Blocks : b < c => b + Size[b] <= c

(* AllocatedBytes is the number of addresses in allocated blocks. *)
InUse == {a \in HeapStart..HeapEnd-1 :
            \E b \in Blocks : IsAllocated[b] /\ a \in b..(b + Size[b] - 1)}

BytesAddUp == AllocatedBytes = Cardinality(InUse)

=============================================================================
