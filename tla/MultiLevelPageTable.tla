------------------------ MODULE MultiLevelPageTable ------------------------
(***************************************************************************)
(* pkg/memory/multilevel_pt.go: a two-level page table, whose second-level *)
(* tables are allocated when a page is first mapped.  The page number of   *)
(* an address is the pair of its directory index and its table index, ten  *)
(* bits each in the code, which drops the bits of an address above them.   *)
(***************************************************************************)
EXTENDS Integers, FiniteSets, PageTableEntry

CONSTANTS DirIndices, TableIndices   \* 0..1023 in the code

ConstantsOK == IsFiniteSet(DirIndices)

VARIABLES
  Directory,      \* Directory[pde]: its page table, or NoTable
  AllocatedPTs,
  result          \* what the last Translate returned

twoLevelVars == <<Directory, AllocatedPTs, result>>

(* A directory entry that is not valid has no page table. *)
Tables == [TableIndices -> Entry]
NoTable == [p \in {} |-> Unmapped]
NewTable == [p \in TableIndices |-> Unmapped]

TypeOK ==
  /\ Directory \in [DirIndices -> [Valid : BOOLEAN, PageTable : Tables \cup {NoTable}]]
  /\ AllocatedPTs \in Nat
  /\ result \in [err : Faults, frame : PFNs \cup {NoFrame}]

(* NewMultiLevelPageTable *)
Init ==
  /\ Directory = [pde \in DirIndices |-> [Valid |-> FALSE, PageTable |-> NoTable]]
  /\ AllocatedPTs = 0
  /\ result = [err |-> "none", frame |-> NoFrame]

(* Mutation: the table is allocated anew on every Map. *)
AlwaysNew(pde) == NewTable

(* The second-level table that Map uses. *)
TableFor(pde) == IF Directory[pde].Valid THEN Directory[pde].PageTable ELSE NewTable

Map(pde, pte, pfn, writable) ==
  /\ Directory' = [Directory EXCEPT ![pde] =
       [Valid |-> TRUE, PageTable |-> [TableFor(pde) EXCEPT ![pte] = Mapped(pfn, writable)]]]
  /\ AllocatedPTs' = IF Directory[pde].Valid THEN AllocatedPTs ELSE AllocatedPTs + 1
  /\ UNCHANGED result

Translate(pde, pte, isWrite) ==
  LET err == IF Directory[pde].Valid THEN Check(Directory[pde].PageTable[pte], isWrite)
             ELSE "ErrInvalidPage"
  IN  /\ result' = [err |-> err,
                    frame |-> IF err = "none" THEN Directory[pde].PageTable[pte].PFN ELSE NoFrame]
      /\ Directory' = IF err = "none"
                      THEN [Directory EXCEPT ![pde].PageTable[pte] = Track(@, isWrite)]
                      ELSE Directory
      /\ UNCHANGED AllocatedPTs

Next == \E pde \in DirIndices, pte \in TableIndices :
  \/ \E pfn \in PFNs, writable \in BOOLEAN : Map(pde, pte, pfn, writable)
  \/ \E isWrite \in BOOLEAN : Translate(pde, pte, isWrite)

Spec == Init /\ [][Next]_twoLevelVars

-----------------------------------------------------------------------------
(* Properties *)

(* The linear table that the two levels stand for. *)
Flat ==
  [vpn \in DirIndices \X TableIndices |->
     IF Directory[vpn[1]].Valid THEN Directory[vpn[1]].PageTable[vpn[2]] ELSE Unmapped]

Linear == INSTANCE PageTable WITH
            VPNs <- DirIndices \X TableIndices, Pages <- DirIndices \X TableIndices,
            Entries <- Flat

(***************************************************************************)
(* Whatever is mapped and translated, in any order, the two levels give    *)
(* the answers of a linear table over all pages.                           *)
(***************************************************************************)
ImplementsPageTable == Linear!Spec

(* A second-level table was counted for each valid directory entry. *)
TablesCounted == AllocatedPTs = Cardinality({pde \in DirIndices : Directory[pde].Valid})

=============================================================================
