----------------------------- MODULE PageTable -----------------------------
(***************************************************************************)
(* pkg/memory/paging.go: the linear page table.  The offset within a page  *)
(* passes through translation unchanged, so an address stands for its page *)
(* and a physical address for its frame.                                   *)
(***************************************************************************)
EXTENDS PageTableEntry

CONSTANTS
  VPNs,      \* the page numbers of all addresses
  Pages      \* those below NumPages

VARIABLES
  Entries,
  result     \* what the last Translate returned

tableVars == <<Entries, result>>

TypeOK ==
  /\ Entries \in [Pages -> Entry]
  /\ result \in [err : Faults, frame : PFNs \cup {NoFrame}]

(* NewPageTable *)
Init ==
  /\ Entries = [vpn \in Pages |-> Unmapped]
  /\ result = [err |-> "none", frame |-> NoFrame]

(* A page beyond the table is ignored. *)
MapPage(vpn, pfn, writable) ==
  /\ Entries' = IF vpn \in Pages THEN [Entries EXCEPT ![vpn] = Mapped(pfn, writable)] ELSE Entries
  /\ UNCHANGED result

Translate(vpn, isWrite) ==
  LET err == IF vpn \in Pages THEN Check(Entries[vpn], isWrite) ELSE "ErrInvalidPage"
  IN  /\ result' = [err |-> err, frame |-> IF err = "none" THEN Entries[vpn].PFN ELSE NoFrame]
      /\ Entries' = IF err = "none" THEN [Entries EXCEPT ![vpn] = Track(@, isWrite)] ELSE Entries

(* Entries is public: the drivers mark a mapped page as swapped out before  *)
(* they access it.                                                          *)
PageOut(vpn) ==
  /\ vpn \in Pages /\ Entries[vpn].Valid
  /\ Entries' = [Entries EXCEPT ![vpn].Present = FALSE]
  /\ UNCHANGED result

Next == \E vpn \in VPNs :
  \/ \E pfn \in PFNs, writable \in BOOLEAN : MapPage(vpn, pfn, writable)
  \/ \E isWrite \in BOOLEAN : Translate(vpn, isWrite)
  \/ PageOut(vpn)

Spec == Init /\ [][Next]_tableVars

=============================================================================
