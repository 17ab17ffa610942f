--------------------------- MODULE BuddyAllocator ---------------------------
(***************************************************************************)
(* pkg/memory/allocator.go: the buddy allocator.  Its binary tree is       *)
(* represented by its leaves: an inner node is never allocated, and the    *)
(* depth-first search, left child first, visits the leaves in the order of *)
(* their addresses.  There is no operation that frees a block.             *)
(***************************************************************************)
EXTENDS Integers, FiniteSets

CONSTANTS
  BaseAddr, MinOrder, MaxOrder,
  Sizes      \* the sizes callers ask for

(* What shifting 1 by one more place does is spelled out for the proofs. *)
ConstantsOK ==
  /\ BaseAddr \in Nat /\ MinOrder \in Nat /\ MaxOrder \in Nat /\ Sizes \subseteq Nat
  /\ 2^0 = 1 /\ \A order \in 0..MaxOrder : 2^(order + 1) = 2 * 2^order

VARIABLES leaves, granted   \* granted: history, the sizes granted, by address

buddyVars == <<leaves, granted>>

Addresses == BaseAddr..BaseAddr + 2^MaxOrder - 1

TypeOK ==
  /\ leaves \subseteq [Addr : Addresses, Order : 0..MaxOrder, IsAllocated : BOOLEAN]
  /\ granted \subseteq Addresses \X Sizes

(* NewBuddyAllocator *)
Init ==
  /\ leaves = {[Addr |-> BaseAddr, Order |-> MaxOrder, IsAllocated |-> FALSE]}
  /\ granted = {}

(* The least order, from MinOrder up, of a block that holds size. *)
TargetOrder(size, order) ==
  2^order >= size /\ \A o \in MinOrder..order-1 : 2^o < size

(* Mutation: any leaf that is free will do. *)
LargeEnoughAny(leaf, targetOrder) == TRUE

LargeEnough(leaf, targetOrder) == leaf.Order >= targetOrder

(* findAndSplit: the first free leaf in address order that is large enough  *)
(* is halved, its right halves staying free, until it has the order wanted. *)
FindAndSplit(leaf, targetOrder) ==
  /\ leaf \in leaves /\ ~leaf.IsAllocated /\ LargeEnough(leaf, targetOrder)
  /\ \A l \in leaves : ~l.IsAllocated /\ LargeEnough(l, targetOrder) => leaf.Addr <= l.Addr
  /\ leaves' = (leaves \ {leaf})
       \cup {[Addr |-> leaf.Addr, Order |-> targetOrder, IsAllocated |-> TRUE]}
       \cup {[Addr |-> leaf.Addr + 2^order, Order |-> order, IsAllocated |-> FALSE] :
               order \in targetOrder..leaf.Order-1}

(* With no such leaf, or more than the whole asked for: ErrOutOfMemory. *)
Allocate(size) ==
  \E targetOrder \in MinOrder..MaxOrder, leaf \in leaves :
    /\ TargetOrder(size, targetOrder)
    /\ FindAndSplit(leaf, targetOrder)
    /\ granted' = granted \cup {<<leaf.Addr, size>>}

Next == \E size \in Sizes : Allocate(size)

Spec == Init /\ [][Next]_buddyVars

-----------------------------------------------------------------------------
(* Properties *)

(***************************************************************************)
(* The leaves are aligned to their sizes and tile the memory without gap   *)
(* or overlap, every block handed out is large enough, and no smaller one  *)
(* would have been.                                                        *)
(***************************************************************************)
BuddiesTile ==
  /\ \A l \in leaves : (l.Addr - BaseAddr) % 2^l.Order = 0
  /\ \A l, m \in leaves : l # m => l.Addr + 2^l.Order <= m.Addr \/ m.Addr + 2^m.Order <= l.Addr
  /\ \A a \in Addresses : \E l \in leaves : a \in l.Addr..(l.Addr + 2^l.Order - 1)
  /\ \A g \in granted : \E l \in leaves :
       /\ l.Addr = g[1] /\ l.IsAllocated /\ g[2] <= 2^l.Order
       /\ l.Order = MinOrder \/ 2^(l.Order - 1) < g[2]
  /\ Cardinality(granted) = Cardinality({l \in leaves : l.IsAllocated})

=============================================================================
