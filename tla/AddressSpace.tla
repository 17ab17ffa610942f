---------------------------- MODULE AddressSpace ----------------------------
(***************************************************************************)
(* pkg/memory/address_space.go: the layout of a process's address space    *)
(* and the program break.  Code and data lie below HeapStart and never     *)
(* change; StackPtr is set once, to the last address.                      *)
(***************************************************************************)
EXTENDS Integers

CONSTANTS
  Modulus,        \* addresses are below this (2^64 in the code)
  TotalSize,      \* at least HeapStart + 2, as with all callers
  HeapStart,      \* 12 KB in the code
  PhysicalBase,
  MaxIncrement    \* bound: what callers pass to Sbrk, up or down

ConstantsOK ==
  /\ Modulus \in Nat /\ HeapStart \in Nat /\ TotalSize \in HeapStart+2..Modulus
  /\ PhysicalBase \in Nat /\ MaxIncrement \in Nat

VARIABLES
  HeapBreak,
  heapLimit,   \* Limit of the heap's segment descriptor
  sbrk         \* what the last Sbrk returned: "none", "below", "collision" or "ok"

asVars == <<HeapBreak, heapLimit, sbrk>>

TypeOK ==
  /\ {HeapBreak, heapLimit} \subseteq 0..Modulus-1
  /\ sbrk \in {"none", "below", "collision", "ok"}

StackPtr == TotalSize - 1
HeapBase == PhysicalBase + HeapStart   \* Base of the heap's segment descriptor

(* NewAddressSpace *)
Init == HeapBreak = HeapStart /\ heapLimit = 0 /\ sbrk = "none"

(* Mutation: the break may reach the stack pointer. *)
MeetsStackLate(newBreak) == newBreak > StackPtr

MeetsStack(newBreak) == newBreak >= StackPtr

(* A break below zero wraps to a large address, and fails as a collision. *)
Sbrk(increment) ==
  LET newBreak == (HeapBreak + increment) % Modulus
  IN  CASE newBreak < HeapStart -> sbrk' = "below" /\ UNCHANGED <<HeapBreak, heapLimit>>
        [] newBreak >= HeapStart /\ MeetsStack(newBreak) ->
             sbrk' = "collision" /\ UNCHANGED <<HeapBreak, heapLimit>>
        [] OTHER ->
             /\ sbrk' = "ok"
             /\ HeapBreak' = newBreak
             /\ heapLimit' = newBreak - HeapStart

Next == \E increment \in -MaxIncrement..MaxIncrement : Sbrk(increment)

Spec == Init /\ [][Next]_asVars

(* Addresses that fault, and where the others go. *)
SegmentationFault(vAddr) == vAddr >= TotalSize
TranslateBaseAndBounds(vAddr) == PhysicalBase + vAddr

-----------------------------------------------------------------------------
(* Properties *)

(***************************************************************************)
(* The break stays between the start of the heap and the stack pointer,    *)
(* and the two descriptions of the heap agree: base and bounds translates  *)
(* an address without a fault and into the heap's segment exactly if it    *)
(* lies below the break.                                                   *)
(***************************************************************************)
HeapBounded ==
  /\ HeapStart <= HeapBreak /\ HeapBreak < StackPtr
  /\ \A vAddr \in HeapStart..Modulus-1 :
       vAddr < HeapBreak <=> /\ ~SegmentationFault(vAddr)
                             /\ TranslateBaseAndBounds(vAddr) - HeapBase < heapLimit

=============================================================================
