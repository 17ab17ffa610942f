------------------------------ MODULE MCPaging ------------------------------
(***************************************************************************)
(* The part of pkg/memory that translates addresses, for module MCSystem:  *)
(* demand paging, the TLB and the two-level page table.                    *)
(***************************************************************************)
EXTENDS Integers

CONSTANTS
  VirtualPages, NumFrames, TLBCapacity, NoPage, Keys, MaxTick,     \* of paging and the TLB
  DirIndices, TableIndices, TableFrames, NoFrame                   \* of the page table

VARIABLES
  Policy, PTE, Frames, loaded, recent, ClockHand, tlb, tlbOlder, lastPage, written,
  Entries, AccessTick, used,
  Directory, AllocatedPTs, result

Mem == INSTANCE MemoryManager WITH Pages <- VirtualPages
T == INSTANCE TLB WITH Capacity <- TLBCapacity, NoKey <- NoPage, PFNs <- 0..(NumFrames - 1)
PT == INSTANCE MultiLevelPageTable WITH PFNs <- TableFrames

memVars == <<Policy, PTE, Frames, loaded, recent, ClockHand, tlb, tlbOlder, lastPage, written>>
tlbVars == <<Entries, AccessTick, used>>
ptVars == <<Directory, AllocatedPTs, result>>

ASSUME PagingAssumption == Mem!ConstantsOK /\ T!ConstantsOK /\ PT!ConstantsOK

-----------------------------------------------------------------------------
(* Properties *)

(* Demand paging: TLB, page table and frame table agree on where pages are, *)
(* and a page that was written to while in memory is known to be dirty.     *)
PagingInv == Mem!TranslationsAgree /\ Mem!ModifiedIsDirty

(* A page fault never evicts the page that was brought in or used last. *)
EvictionSparesNewest == Mem!EvictionSparesNewest

(* Lookup, Insert and Flush of the TLB implement the cache that paging      *)
(* uses: T!ImplementsLRUCache, with the steps of other units left out.      *)
ImplementsLRUCache ==
  T!LRU!Init /\ [][UNCHANGED tlbVars \/ [T!LRU!Next]_(T!LRU!cacheVars)]_tlbVars

(* The two-level page table implements the linear one, and counts its       *)
(* tables: PT!ImplementsPageTable, with the steps of other units left out.  *)
TwoLevelIsLinear ==
  /\ PT!Linear!Init /\ [][UNCHANGED ptVars \/ [PT!Linear!Next]_(PT!Linear!tableVars)]_ptVars
  /\ []PT!TablesCounted

=============================================================================
