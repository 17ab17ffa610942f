-------------------------------- MODULE TLB --------------------------------
(***************************************************************************)
(* pkg/memory/tlb.go: the translation cache, slot by slot.  Each operation *)
(* runs under the TLB's mutex and is one action.  A key stands for the     *)
(* pair of ASID and VPN.  The hit and miss counters and the R/W flag,      *)
(* which nothing reads back, are left out.                                 *)
(***************************************************************************)
EXTENDS Integers

CONSTANTS
  Keys, PFNs,
  Capacity,
  MaxTick,   \* bound on AccessTick
  NoKey      \* "nothing has been found yet"

ConstantsOK == Keys # {} /\ PFNs # {} /\ Capacity \in Nat /\ MaxTick \in Nat

VARIABLES
  Entries,     \* Entries[i]: Valid, key, PFN and LastAccess of slot i
  AccessTick,
  used         \* history: the key that Lookup found or Insert put in last

vars == <<Entries, AccessTick, used>>

Slots == 0..(Capacity - 1)
Entry == [Valid : BOOLEAN, key : Keys, PFN : PFNs, LastAccess : Nat]

TypeOK ==
  /\ Entries \in [Slots -> Entry]
  /\ AccessTick \in Nat
  /\ used \in Keys \cup {NoKey}

(* NewTLB.  The zero value of an invalid slot's key and PFN is arbitrary. *)
Init ==
  /\ Entries = [i \in Slots |-> [Valid |-> FALSE, key |-> CHOOSE k \in Keys : TRUE,
                                 PFN |-> CHOOSE f \in PFNs : TRUE, LastAccess |-> 0]]
  /\ AccessTick = 0
  /\ used = NoKey

Matches(i, k) == Entries[i].Valid /\ Entries[i].key = k

(* Mutation: a hit does not refresh LastAccess. *)
LookupNoTouch(k) ==
  /\ AccessTick < MaxTick
  /\ AccessTick' = AccessTick + 1
  /\ used' = IF \E i \in Slots : Matches(i, k) THEN k ELSE used
  /\ UNCHANGED Entries

First(i, S) == i \in S /\ \A j \in S : i <= j

(* Lookup: the first slot that matches is stamped with the new tick. *)
Lookup(k) ==
  /\ AccessTick < MaxTick
  /\ AccessTick' = AccessTick + 1
  /\ LET hits == {i \in Slots : Matches(i, k)}
     IN \/ /\ hits = {}
           /\ UNCHANGED <<Entries, used>>
        \/ /\ \E i \in Slots :
                /\ First(i, hits)
                /\ Entries' = [Entries EXCEPT ![i].LastAccess = AccessTick + 1]
           /\ used' = k

(* The scan of Insert: the first slot that is invalid or holds the key,     *)
(* and if there is none the one with the smallest LastAccess.               *)
InsertSlot(k, i) ==
  LET stop == {j \in Slots : ~Entries[j].Valid \/ Matches(j, k)}
      oldest == {j \in Slots : \A l \in Slots : Entries[j].LastAccess <= Entries[l].LastAccess}
  IN First(i, IF stop # {} THEN stop ELSE oldest)

(* Mutation: the tick counts down. *)
InsertCountsDown(k, f) ==
  /\ AccessTick < MaxTick
  /\ AccessTick' = AccessTick - 1
  /\ \E i \in Slots :
       /\ InsertSlot(k, i)
       /\ Entries' = [Entries EXCEPT ![i] =
            [Valid |-> TRUE, key |-> k, PFN |-> f, LastAccess |-> AccessTick - 1]]
  /\ used' = k

Insert(k, f) ==
  /\ AccessTick < MaxTick
  /\ AccessTick' = AccessTick + 1
  /\ \E i \in Slots :
       /\ InsertSlot(k, i)
       /\ Entries' = [Entries EXCEPT ![i] =
            [Valid |-> TRUE, key |-> k, PFN |-> f, LastAccess |-> AccessTick + 1]]
  /\ used' = k

Flush ==
  /\ Entries' = [i \in Slots |-> [Entries[i] EXCEPT !.Valid = FALSE]]
  /\ UNCHANGED <<AccessTick, used>>

Next ==
  \/ \E k \in Keys : Lookup(k)
  \/ \E k \in Keys, f \in PFNs : Insert(k, f)
  \/ Flush

Spec == Init /\ [][Next]_vars

-----------------------------------------------------------------------------
(* Properties *)

(* What the valid slots hold, and which of them were stamped earlier. *)
ValidSlots == {i \in Slots : Entries[i].Valid}
Cached == {<<Entries[i].key, Entries[i].PFN>> : i \in ValidSlots}
ByAge ==
  {<<Entries[p[1]].key, Entries[p[2]].key>> :
     p \in {q \in ValidSlots \X ValidSlots : Entries[q[1]].LastAccess < Entries[q[2]].LastAccess}}

LRU == INSTANCE LRUCache WITH Vals <- PFNs, cache <- Cached, older <- ByAge

(***************************************************************************)
(* Slot reuse, ticks and Flush together are a least-recently-used cache:   *)
(* Insert never forgets a key while there is room, never caches a key      *)
(* twice and evicts exactly the key unused for longest, also when stale    *)
(* ticks of flushed slots are still around.                                *)
(***************************************************************************)
ImplementsLRUCache == LRU!Spec

=============================================================================
