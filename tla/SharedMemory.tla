---------------------------- MODULE SharedMemory ----------------------------
(***************************************************************************)
(* pkg/ipc/shared_memory.go: the manager that creates segments and maps    *)
(* them into page tables, each call under its mutex.  The contents of a    *)
(* segment are the subject of module SharedSegment.                        *)
(***************************************************************************)
EXTENDS Integers, FiniteSets

CONSTANTS
  PIDs,
  NumPages,                  \* of every page table
  MaxVPN,                    \* the page numbers of the addresses passed to Attach
  MaxSegments, MaxMappings   \* bounds

ConstantsOK == NumPages \in Nat /\ MaxSegments \in Nat

VARIABLES
  NextShmID, Mappings,
  pt              \* pt[pid][vpn]: the frame mapped, or 0

shmVars == <<NextShmID, Mappings, pt>>

PhysicalPFN(shmID) == 500 + shmID
Segments == 1..NextShmID-1

TypeOK ==
  /\ NextShmID \in 1..MaxSegments+1
  /\ Mappings \subseteq [shm : Segments, pid : PIDs, vpn : 0..MaxVPN]
  /\ pt \in [PIDs -> [0..NumPages-1 -> {0} \cup {PhysicalPFN(s) : s \in Segments}]]

(* NewSharedMemoryManager *)
Init ==
  /\ NextShmID = 1 /\ Mappings = {}
  /\ pt = [p \in PIDs |-> [vpn \in 0..NumPages-1 |-> 0]]

-----------------------------------------------------------------------------
CreateSegment ==
  /\ NextShmID <= MaxSegments
  /\ NextShmID' = NextShmID + 1
  /\ UNCHANGED <<Mappings, pt>>

(* Mutation: every segment is mapped with the frame of the first. *)
FirstFrame(shmID) == PhysicalPFN(1)

Frame(shmID) == PhysicalPFN(shmID)

(* MapPage does nothing for a page beyond the table, and Attach records the *)
(* mapping either way.                                                      *)
Attach(shmID, pid, vpn) ==
  /\ shmID \in Segments
  /\ Cardinality(Mappings) < MaxMappings
  /\ pt' = IF vpn < NumPages THEN [pt EXCEPT ![pid][vpn] = Frame(shmID)] ELSE pt
  /\ Mappings' = Mappings \cup {[shm |-> shmID, pid |-> pid, vpn |-> vpn]}
  /\ UNCHANGED NextShmID

(* "shmat: invalid shmid" *)
AttachFails(shmID) == shmID \notin Segments /\ UNCHANGED shmVars

Next ==
  \/ CreateSegment
  \/ \E s \in 1..MaxSegments+1 :
       (\E p \in PIDs, vpn \in 0..MaxVPN : Attach(s, p, vpn)) \/ AttachFails(s)

Spec == Init /\ [][Next]_shmVars

-----------------------------------------------------------------------------
(* Properties *)

(***************************************************************************)
(* A page table maps a shared frame only where Attach recorded a mapping   *)
(* of that very segment, and every page recorded that the table has is     *)
(* mapped to a segment, however attachments at one page replace each       *)
(* other.  The pages that the table does not have are the subject of       *)
(* AttachMaps.                                                             *)
(***************************************************************************)
MappedIsRecorded ==
  /\ \A p \in PIDs, vpn \in 0..NumPages-1 :
       pt[p][vpn] # 0 =>
         \E s \in Segments : pt[p][vpn] = PhysicalPFN(s) /\ [shm |-> s, pid |-> p, vpn |-> vpn] \in Mappings
  /\ \A m \in Mappings : m.vpn < NumPages => pt[m.pid][m.vpn] # 0

(***************************************************************************)
(* shared_memory.go: "Attach maps the shared physical frame into a         *)
(* process's virtual address space".  Where Attach succeeded, the process  *)
(* has a shared frame.  A page beyond the table is recorded and not        *)
(* mapped, so this fails: see the README.                                  *)
(***************************************************************************)
AttachMaps == \A m \in Mappings : m.vpn < NumPages /\ pt[m.pid][m.vpn] # 0

=============================================================================
