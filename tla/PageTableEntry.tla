--------------------------- MODULE PageTableEntry ---------------------------
(***************************************************************************)
(* pkg/memory/paging.go and multilevel_pt.go: a page table entry, and what *)
(* the two Translate methods, which are alike in this, do with it.         *)
(***************************************************************************)
CONSTANTS
  PFNs,
  NoFrame    \* no frame: of an entry never mapped, and of a failed translation

Faults == {"none", "ErrInvalidPage", "ErrPageFault", "ErrProtectionFault"}

Entry ==
  [Valid : BOOLEAN, Present : BOOLEAN, ReadWrite : BOOLEAN, Accessed : BOOLEAN,
   Dirty : BOOLEAN, PFN : PFNs \cup {NoFrame}]

Unmapped == [Valid |-> FALSE, Present |-> FALSE, ReadWrite |-> FALSE, Accessed |-> FALSE,
             Dirty |-> FALSE, PFN |-> NoFrame]

Mapped(pfn, writable) ==
  [Valid |-> TRUE, Present |-> TRUE, ReadWrite |-> writable, Accessed |-> FALSE,
   Dirty |-> FALSE, PFN |-> pfn]

(* The checks of Translate, in their order. *)
Check(entry, isWrite) ==
  IF ~entry.Valid THEN "ErrInvalidPage"
  ELSE IF ~entry.Present THEN "ErrPageFault"
  ELSE IF isWrite /\ ~entry.ReadWrite THEN "ErrProtectionFault"
  ELSE "none"

(* The entry after an access: the tracking bits are set. *)
Track(entry, isWrite) ==
  [entry EXCEPT !.Accessed = TRUE, !.Dirty = IF isWrite THEN TRUE ELSE @]

=============================================================================
