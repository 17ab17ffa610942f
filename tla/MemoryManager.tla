---------------------------- MODULE MemoryManager ----------------------------
(***************************************************************************)
(* pkg/memory/page_replacement.go: demand paging of the pages of all       *)
(* processes into NumFrames frames, through a TLB.  AccessMemory is not    *)
(* concurrent and each call is one action.  A page stands for a PID and a  *)
(* VPN valid in its page table; an access to an invalid page returns an    *)
(* error and changes nothing here.                                         *)
(*                                                                         *)
(* Ticks only order frames: every call stamps exactly one frame with a new *)
(* tick, so the order of LoadedTick is kept as the sequence loaded and the *)
(* order of LastUsedTick as the sequence recent.  The TLB is the cache     *)
(* that TLB.tla implements.  Statistics are left out.                      *)
(***************************************************************************)
EXTENDS Integers, Sequences, FiniteSets

CONSTANTS
  Pages,
  NumFrames,
  TLBCapacity,
  NoPage       \* the frame is not occupied

ConstantsOK ==
  /\ NumFrames \in Nat \ {0}
  /\ TLBCapacity \in Nat \ {0}
  /\ NoPage \notin Pages

VARIABLES
  Policy,      \* "FIFO", "LRU" or "CLOCK", fixed by NewMemoryManager
  PTE,         \* PTE[p]: the bits Present and Dirty, and PFN
  Frames,      \* Frames[f]: the page in it, UseBit and IsDirty
  loaded,      \* the occupied frames, the earliest LoadedTick first
  recent,      \* the occupied frames, the earliest LastUsedTick first
  ClockHand,
  tlb,         \* the <<page, frame>> pairs in it
  tlbOlder,    \* which of two pages in it has gone unused for longer
  lastPage,    \* the page translated last
  written      \* history: pages written to since they were brought in

vars == <<Policy, PTE, Frames, loaded, recent, ClockHand, tlb, tlbOlder, lastPage,
          written>>

PFNs == 0..(NumFrames - 1)

Cache == INSTANCE LRUCache WITH
           Keys <- Pages, Vals <- PFNs, Capacity <- TLBCapacity, NoKey <- NoPage,
           cache <- tlb, older <- tlbOlder, used <- lastPage

Policies == {"FIFO", "LRU", "CLOCK"}

PageTableEntries == [Present : BOOLEAN, Dirty : BOOLEAN, PFN : PFNs]
FrameInfos == [page : Pages \cup {NoPage}, UseBit : BOOLEAN, IsDirty : BOOLEAN]

TypeOK ==
  /\ Policy \in Policies
  /\ PTE \in [Pages -> PageTableEntries]
  /\ Frames \in [PFNs -> FrameInfos]
  /\ loaded \in Seq(PFNs) /\ recent \in Seq(PFNs)
  /\ ClockHand \in PFNs
  /\ tlb \subseteq Pages \X PFNs /\ tlbOlder \subseteq Pages \X Pages
  /\ lastPage \in Pages \cup {NoPage}
  /\ written \subseteq Pages

(* NewMemoryManager, with every page swapped out to begin with. *)
Init ==
  /\ Policy \in Policies
  /\ PTE = [p \in Pages |-> [Present |-> FALSE, Dirty |-> FALSE, PFN |-> 0]]
  /\ Frames = [f \in PFNs |-> [page |-> NoPage, UseBit |-> FALSE, IsDirty |-> FALSE]]
  /\ loaded = <<>> /\ recent = <<>>
  /\ ClockHand = 0
  /\ Cache!Init
  /\ written = {}

-----------------------------------------------------------------------------
(* The frames in the order of a tick, after f has been given a new one. *)
Stamped(order, f) ==
  IF \E i \in 1..Len(order) : order[i] = f
  THEN LET i == CHOOSE i \in 1..Len(order) : order[i] = f
       IN  Append(SubSeq(order, 1, i - 1) \o SubSeq(order, i + 1, Len(order)), f)
  ELSE Append(order, f)

(* Mutation: the dirty bit says what the last access was. *)
TouchedByLast(frame, isWrite) == [frame EXCEPT !.UseBit = TRUE, !.IsDirty = isWrite]

(* The last lines of AccessMemory: the frame is used, and dirty if written. *)
Touched(frame, isWrite) ==
  [frame EXCEPT !.UseBit = TRUE, !.IsDirty = @ \/ isWrite]

(* AccessMemory with a TLB hit.  The page table is not touched. *)
AccessHit(p, isWrite) ==
  \E f \in PFNs :
    /\ Cache!Hit(p, f)
    /\ Frames' = [Frames EXCEPT ![f] = Touched(@, isWrite)]
    /\ recent' = Stamped(recent, f)
    /\ written' = IF isWrite THEN written \cup {p} ELSE written
    /\ UNCHANGED <<Policy, PTE, loaded, ClockHand>>

(* AccessMemory with a TLB miss on a page whose Present bit is set. *)
AccessPresent(p, isWrite) ==
  /\ ~Cache!Caches(p)
  /\ PTE[p].Present
  /\ LET f == PTE[p].PFN
     IN /\ Cache!Insert(p, f)
        /\ Frames' = [Frames EXCEPT ![f] = Touched(@, isWrite)]
        /\ recent' = Stamped(recent, f)
  /\ PTE' = [PTE EXCEPT ![p].Dirty = @ \/ isWrite]
  /\ written' = IF isWrite THEN written \cup {p} ELSE written
  /\ UNCHANGED <<Policy, loaded, ClockHand>>

-----------------------------------------------------------------------------
(* allocateFrame *)

Free == {f \in PFNs : Frames[f].page = NoPage}
AtHand(k) == (ClockHand + k) % NumFrames

(* The hand of the clock passes k frames whose use bits are set, and       *)
(* clears them, before it meets a clear one: after a whole turn at the      *)
(* latest.                                                                  *)
Sweep(k) ==
  /\ \A j \in 0..(k - 1) : Frames[AtHand(j)].UseBit
  /\ k < NumFrames => ~Frames[AtHand(k)].UseBit

Swept(k) == {AtHand(j) : j \in 0..(k - 1)}

Victim(k) == CASE Policy = "FIFO" -> loaded[1]
               [] Policy = "LRU" -> recent[1]
               [] Policy = "CLOCK" -> AtHand(k)

(* Mutation: the hand stays on the frame that is about to be filled. *)
HandStays(f) == f

HandAfter(f) == (f + 1) % NumFrames

(* Mutation: the PTE keeps its old frame number. *)
LoadOldPFN(p, f, isWrite) ==
  /\ PTE' = [PTE EXCEPT ![p].Present = TRUE, ![p].Dirty = @ \/ isWrite]
  /\ loaded' = Stamped(loaded, f)
  /\ recent' = Stamped(recent, f)
  /\ Cache!Insert(p, f)
  /\ written' = IF isWrite THEN written \cup {p} ELSE written \ {p}

(* Common to both ways of getting a frame: page p is loaded into frame f    *)
(* and its PTE and the TLB are updated.                                     *)
Load(p, f, isWrite) ==
  /\ PTE' = [PTE EXCEPT ![p] = [Present |-> TRUE, Dirty |-> @.Dirty \/ isWrite, PFN |-> f]]
  /\ loaded' = Stamped(loaded, f)
  /\ recent' = Stamped(recent, f)
  /\ Cache!Insert(p, f)
  /\ written' = IF isWrite THEN written \cup {p} ELSE written \ {p}

LoadedFrame(p, isWrite) == [page |-> p, UseBit |-> TRUE, IsDirty |-> isWrite]

(* A page fault served from the first free frame. *)
FaultFree(p, isWrite) ==
  /\ ~Cache!Caches(p)
  /\ ~PTE[p].Present
  /\ \E f \in Free :
       /\ \A g \in Free : f <= g
       /\ Frames' = [Frames EXCEPT ![f] = LoadedFrame(p, isWrite)]
       /\ Load(p, f, isWrite)
  /\ UNCHANGED <<Policy, ClockHand>>

(* A page fault with all frames occupied: the victim's frame is taken over. *)
(* The victim's PTE and TLB entry are left as they are.                     *)
FaultEvict(p, isWrite) ==
  /\ ~Cache!Caches(p)
  /\ ~PTE[p].Present
  /\ Free = {}
  /\ \E k \in 0..NumFrames :
       /\ Sweep(k)
       /\ Frames' = [f \in PFNs |->
            IF f = Victim(k) THEN LoadedFrame(p, isWrite)
            ELSE IF Policy = "CLOCK" /\ f \in Swept(k) THEN [Frames[f] EXCEPT !.UseBit = FALSE]
            ELSE Frames[f]]
       /\ ClockHand' = IF Policy = "CLOCK" THEN HandAfter(Victim(k)) ELSE ClockHand
       /\ Load(p, Victim(k), isWrite)
  /\ UNCHANGED Policy

(* The TLB can be flushed at any time (its method is public). *)
FlushTLB ==
  /\ Cache!Flush
  /\ UNCHANGED <<Policy, PTE, Frames, loaded, recent, ClockHand, written>>

AccessMemory(p, isWrite) ==
  \/ AccessHit(p, isWrite)
  \/ AccessPresent(p, isWrite)
  \/ FaultFree(p, isWrite)
  \/ FaultEvict(p, isWrite)

Next ==
  \/ \E p \in Pages, isWrite \in BOOLEAN : AccessMemory(p, isWrite)
  \/ FlushTLB

Spec == Init /\ [][Next]_vars

-----------------------------------------------------------------------------
(* Properties *)

(***************************************************************************)
(* The three places that say where a page is agree in one direction: a TLB *)
(* entry repeats what the PTE says, and the page recorded for a frame has  *)
(* a PTE that is present and points back to that frame.  So no page is     *)
(* recorded for two frames, through any faults and evictions.              *)
(***************************************************************************)
TranslationsAgree ==
  /\ \A e \in tlb : PTE[e[1]].Present /\ PTE[e[1]].PFN = e[2]
  /\ \A f \in PFNs : Frames[f].page # NoPage =>
        PTE[Frames[f].page].Present /\ PTE[Frames[f].page].PFN = f

(***************************************************************************)
(* A page that was modified is never dropped without a write to swap: the  *)
(* frame of a page written to since it was loaded is dirty, also when the  *)
(* writes went through the TLB.                                            *)
(***************************************************************************)
ModifiedIsDirty ==
  \A f \in PFNs : Frames[f].page \in written => Frames[f].IsDirty

(***************************************************************************)
(* Eviction spares what is in use.  LRU and FIFO never evict the frame     *)
(* that was used (loaded) last when there is another.  The clock evicts a  *)
(* frame whose use bit is set only if all of them are, and a frame just    *)
(* loaded by one eviction is not the victim of the next.                   *)
(***************************************************************************)
EvictionSparesNewest ==
  [][\A f \in PFNs :
       Frames[f].page \notin {NoPage, Frames'[f].page} /\ NumFrames > 1 =>
         /\ Policy = "LRU" => f # recent[Len(recent)]
         /\ Policy \in {"FIFO", "CLOCK"} => f # loaded[Len(loaded)]
         /\ Policy = "CLOCK" /\ Frames[f].UseBit => \A g \in PFNs : Frames[g].UseBit]_vars

(***************************************************************************)
(* paging.go on Present: "1 if currently in physical RAM, 0 if swapped to  *)
(* disk".  A page whose Present bit is set is the page in its frame.       *)
(* Eviction does not clear the bit, so this fails: see the README.         *)
(***************************************************************************)
PresentMeansResident == \A p \in Pages : PTE[p].Present => Frames[PTE[p].PFN].page = p

=============================================================================
