---------------------------- MODULE PagingProofs ----------------------------
(***************************************************************************)
(* Module MCPaging for any values of the constants: demand paging, the     *)
(* two-level page table and the TLB.                                       *)
(***************************************************************************)
EXTENDS MCPaging, BasicLemmas

(***************************************************************************)
(* The inductive invariant of demand paging.  The two orders list the      *)
(* occupied frames, each once.  Frames are filled from the first to the    *)
(* last, and from then on the hand of the clock is just behind the frame   *)
(* loaded last, whose use bit is set.                                      *)
(***************************************************************************)
Occupied == Mem!PFNs \ Mem!Free

Placement ==
  /\ Mem!TranslationsAgree /\ Mem!ModifiedIsDirty
  /\ \A p \in VirtualPages : PTE[p].Present => PTE[p].PFN \in Occupied

Orders ==
  /\ Distinct(loaded) /\ Elements(loaded) = Occupied
  /\ Distinct(recent) /\ Elements(recent) = Occupied

Clock ==
  /\ loaded # <<>> => Frames[loaded[Len(loaded)]].UseBit
  /\ Mem!Free # {} => ClockHand = 0 /\ \A f \in Mem!Free, g \in Mem!PFNs : f < g => g \in Mem!Free
  /\ Policy = "CLOCK" /\ Mem!Free = {} => ClockHand = Mem!HandAfter(loaded[Len(loaded)])

MemInv == Mem!TypeOK /\ Placement /\ Orders /\ Clock

(* Remainders of numbers below twice the divisor. *)
LEMMA OneTurn ==
  ASSUME NEW n \in Nat \ {0}, NEW a \in Nat, a < 2 * n
  PROVE  a % n = IF a < n THEN a ELSE a - n
<1>1. CASE a < n
  BY <1>1
<1>2. CASE a >= n
  <2>1. a = n * 1 + (a - n) /\ a - n \in 0..(n - 1)
    BY <1>2
  <2> QED
    BY <1>2, <2>1
<1> QED
  BY <1>1, <1>2

(* The frames that the hand passes. *)
LEMMA HandPasses ==
  ASSUME Mem!ConstantsOK, ClockHand \in Mem!PFNs
  PROVE  /\ \A k \in 0..NumFrames : Mem!AtHand(k) \in Mem!PFNs
         /\ Mem!AtHand(NumFrames) = ClockHand
         /\ \A f \in Mem!PFNs : \E k \in 0..(NumFrames - 1) : Mem!AtHand(k) = f
<1>1. NumFrames \in Nat \ {0} /\ ClockHand \in Nat /\ ClockHand < NumFrames
  BY DEF Mem!ConstantsOK, Mem!PFNs
<1>2. ASSUME NEW k \in 0..NumFrames
      PROVE  Mem!AtHand(k) = IF ClockHand + k < NumFrames THEN ClockHand + k ELSE ClockHand + k - NumFrames
  <2>1. PICK a : a = ClockHand + k
    BY Zenon
  <2>2. a \in Nat /\ a < 2 * NumFrames
    BY <1>1, <2>1
  <2>3. a % NumFrames = IF a < NumFrames THEN a ELSE a - NumFrames
    BY <1>1, <2>2, OneTurn, Zenon
  <2>4. Mem!AtHand(k) = a % NumFrames
    BY <2>1, Zenon DEF Mem!AtHand
  <2> QED
    BY <1>1, <2>1, <2>2, <2>3, <2>4
<1>3. ASSUME NEW f \in Mem!PFNs
      PROVE  \E k \in 0..(NumFrames - 1) : Mem!AtHand(k) = f
  <2>1. f \in Nat /\ f < NumFrames
    BY <1>1 DEF Mem!PFNs
  <2>2. CASE f >= ClockHand
    <3>1. f - ClockHand \in 0..(NumFrames - 1) /\ f - ClockHand \in 0..NumFrames /\ ClockHand + (f - ClockHand) = f
      BY <1>1, <2>1, <2>2
    <3> QED
      BY <1>1, <1>2, <2>1, <3>1, Zenon
  <2>3. CASE f < ClockHand
    <3> DEFINE k == f + NumFrames - ClockHand
    <3>1. k \in 0..(NumFrames - 1) /\ k \in 0..NumFrames /\ ClockHand + k - NumFrames = f
          /\ ~(ClockHand + k < NumFrames)
      BY <1>1, <2>1, <2>3
    <3> HIDE DEF k
    <3> QED
      BY <1>2, <3>1, Zenon
  <2> QED
    BY <1>1, <2>1, <2>2, <2>3
<1>4. Mem!AtHand(NumFrames) = ClockHand
  BY <1>1, <1>2
<1> QED
  BY <1>1, <1>2, <1>3, <1>4 DEF Mem!PFNs

(* The frame behind f, which is another one if there are two. *)
LEMMA HandMoves ==
  ASSUME Mem!ConstantsOK, NEW f \in Mem!PFNs
  PROVE  Mem!HandAfter(f) \in Mem!PFNs /\ (NumFrames > 1 => Mem!HandAfter(f) # f)
<1>1. NumFrames \in Nat \ {0} /\ f \in Nat /\ f < NumFrames
  BY DEF Mem!ConstantsOK, Mem!PFNs
<1>2. PICK a : a = f + 1
  BY Zenon
<1>3. a \in Nat /\ a < 2 * NumFrames
  BY <1>1, <1>2
<1>4. a % NumFrames = IF a < NumFrames THEN a ELSE a - NumFrames
  BY <1>1, <1>3, OneTurn, Zenon
<1>5. Mem!HandAfter(f) = a % NumFrames
  BY <1>2, Zenon DEF Mem!HandAfter
<1> QED
  BY <1>1, <1>2, <1>3, <1>4, <1>5 DEF Mem!PFNs

(* A frame given a new tick is the last in the order, and there once. *)
LEMMA StampedLast ==
  ASSUME NEW S, NEW order \in Seq(S), Distinct(order), NEW f \in S
  PROVE  /\ Mem!Stamped(order, f) \in Seq(S) /\ Distinct(Mem!Stamped(order, f))
         /\ Elements(Mem!Stamped(order, f)) = Elements(order) \cup {f}
         /\ Mem!Stamped(order, f) # <<>>
         /\ Mem!Stamped(order, f)[Len(Mem!Stamped(order, f))] = f
<1>1. ASSUME NEW list \in Seq(S), Distinct(list), f \notin Elements(list)
      PROVE  /\ Append(list, f) \in Seq(S) /\ Distinct(Append(list, f))
             /\ Elements(Append(list, f)) = Elements(list) \cup {f}
             /\ Append(list, f) # <<>> /\ Append(list, f)[Len(Append(list, f))] = f
  BY <1>1, WaitLemma, AppendTo
<1>2. CASE f \notin Elements(order)
  BY <1>1, <1>2, Zenon DEF Mem!Stamped, Elements
<1>3. CASE f \in Elements(order)
  <2>1. PICK m \in Nat : m = Len(order)
    BY LengthOfSeq, Zenon
  <2>2. PICK i \in 1..m : order[i] = f /\ Mem!Stamped(order, f) = Append(Removed(order, i), f)
    <3>1. \E i \in 1..Len(order) : order[i] = f
      BY <1>3, Zenon DEF Elements
    <3> QED
      BY <2>1, <3>1, Zenon DEF Mem!Stamped, Removed
  <2>3. /\ Removed(order, i) \in Seq(S) /\ Len(Removed(order, i)) = m - 1
        /\ \A j \in 1..(m - 1) : Removed(order, i)[j] = IF j < i THEN order[j] ELSE order[j + 1]
    <3>1. Removed(order, i) \in Seq(S)
      BY <2>1, RemoveLemma, Zenon
    <3>2. Len(Removed(order, i)) = m - 1
      BY <2>1, RemoveLemma
    <3>3. \A j \in 1..(m - 1) : Removed(order, i)[j] = IF j < i THEN order[j] ELSE order[j + 1]
      BY <2>1, RemoveLemma, Zenon
    <3> QED
      BY <3>1, <3>2, <3>3, Zenon
  <2>4. PICK rest \in Seq(S) : rest = Removed(order, i)
    BY <2>3, Zenon
  <2>5. Distinct(rest)
    <3> SUFFICES ASSUME NEW j \in 1..(m - 1), NEW l \in 1..(m - 1), rest[j] = rest[l] PROVE j = l
      BY <2>3, <2>4, Zenon DEF Distinct
    <3> DEFINE at(x) == IF x < i THEN x ELSE x + 1
    <3>1. at(j) \in 1..m /\ at(l) \in 1..m /\ order[at(j)] = order[at(l)]
      BY <2>1, <2>3, <2>4
    <3>2. at(j) = at(l)
      BY <2>1, <3>1, Zenon DEF Distinct
    <3> QED
      BY <2>1, <3>2
  <2>6. Elements(rest) = Elements(order) \ {f}
    <3>1. ASSUME NEW x \in Elements(rest) PROVE x \in Elements(order) \ {f}
      <4>1. PICK j \in 1..(m - 1) : x = rest[j]
        BY <2>3, <2>4, Zenon DEF Elements
      <4>2. PICK l \in 1..m : l # i /\ x = order[l]
        <5>1. CASE j < i
          BY <2>1, <2>3, <2>4, <4>1, <5>1
        <5>2. CASE j >= i
          <6>1. j + 1 \in 1..m /\ j + 1 # i /\ x = order[j + 1]
            BY <2>1, <2>3, <2>4, <4>1, <5>2
          <6> QED
            BY <6>1, Zenon
        <5> QED
          BY <2>1, <5>1, <5>2
      <4> QED
        BY <2>1, <2>2, <4>2, Zenon DEF Elements, Distinct
    <3>2. ASSUME NEW x \in Elements(order) \ {f} PROVE x \in Elements(rest)
      <4>1. PICK l \in 1..m : x = order[l] /\ l # i
        BY <2>1, <2>2, Zenon DEF Elements
      <4>2. CASE l < i
        <5>1. l \in 1..(m - 1) /\ rest[l] = x
          BY <2>1, <2>3, <2>4, <4>1, <4>2
        <5> QED
          BY <2>3, <2>4, <5>1, Zenon DEF Elements
      <4>3. CASE l > i
        <5>1. l - 1 \in 1..(m - 1) /\ ~(l - 1 < i) /\ (l - 1) + 1 = l
          BY <2>1, <4>1, <4>3
        <5>2. rest[l - 1] = x
          BY <2>3, <2>4, <4>1, <5>1, Zenon
        <5> QED
          BY <2>3, <2>4, <5>1, <5>2, Zenon DEF Elements
      <4> QED
        BY <2>1, <4>1, <4>2, <4>3
    <3> QED
      BY <3>1, <3>2, Zenon
  <2>7. Elements(order) = Elements(rest) \cup {f} /\ f \notin Elements(rest)
    BY <1>3, <2>6, Zenon
  <2> QED
    BY <1>1, <2>2, <2>4, <2>5, <2>7, Zenon
<1> QED
  BY <1>2, <1>3, Zenon

-----------------------------------------------------------------------------
(* Records: a frame that is used, filled or passed by the hand, and a PTE.  *)

(* The fields of a frame, *)
LEMMA FrameFields ==
  ASSUME NEW x \in Mem!FrameInfos
  PROVE  x.page \in VirtualPages \cup {NoPage} /\ x.UseBit \in BOOLEAN /\ x.IsDirty \in BOOLEAN
BY Zenon DEF Mem!FrameInfos

(* a frame of given fields, *)
LEMMA FrameOf ==
  ASSUME NEW q \in VirtualPages \cup {NoPage}, NEW u \in BOOLEAN, NEW d \in BOOLEAN
  PROVE  [page |-> q, UseBit |-> u, IsDirty |-> d] \in Mem!FrameInfos
BY Zenon DEF Mem!FrameInfos

(* and what its fields are. *)
LEMMA FrameRecord ==
  \A q, u, d : LET x == [page |-> q, UseBit |-> u, IsDirty |-> d]
               IN  x.page = q /\ x.UseBit = u /\ x.IsDirty = d
BY Zenon

(* AccessMemory sets the use bit; the hand of the clock clears it. *)
LEMMA FrameWrites ==
  ASSUME NEW x \in Mem!FrameInfos, NEW d
  PROVE  /\ [x EXCEPT !.UseBit = TRUE, !.IsDirty = d] = [page |-> x.page, UseBit |-> TRUE, IsDirty |-> d]
         /\ [x EXCEPT !.UseBit = FALSE] = [page |-> x.page, UseBit |-> FALSE, IsDirty |-> x.IsDirty]
<1>1. PICK t, no : t = TRUE /\ no = FALSE
  BY Zenon
<1>2. [x EXCEPT !.UseBit = t, !.IsDirty = d] = [page |-> x.page, UseBit |-> t, IsDirty |-> d]
  <2>1. PICK y : y = [x EXCEPT !.UseBit = t]
    BY Zenon
  <2>2. y = [page |-> x.page, UseBit |-> t, IsDirty |-> x.IsDirty]
    BY <2>1, Zenon DEF Mem!FrameInfos
  <2>3. [y EXCEPT !.IsDirty = d] = [page |-> x.page, UseBit |-> t, IsDirty |-> d]
    BY <2>2
  <2>4. [x EXCEPT !.UseBit = t, !.IsDirty = d] = [y EXCEPT !.IsDirty = d]
    BY <2>1, Zenon
  <2> QED
    BY <2>3, <2>4, Zenon
<1>3. [x EXCEPT !.UseBit = no] = [page |-> x.page, UseBit |-> no, IsDirty |-> x.IsDirty]
  BY DEF Mem!FrameInfos
<1> QED
  BY <1>1, <1>2, <1>3, Zenon

(* The last lines of AccessMemory, and a frame that is filled. *)
LEMMA TouchedFrame ==
  ASSUME NEW x \in Mem!FrameInfos, NEW w \in BOOLEAN
  PROVE  /\ Mem!Touched(x, w) \in Mem!FrameInfos /\ Mem!Touched(x, w).page = x.page
         /\ Mem!Touched(x, w).UseBit /\ (x.IsDirty \/ w => Mem!Touched(x, w).IsDirty)
<1>1. PICK d \in BOOLEAN : d = (x.IsDirty \/ w)
  BY Zenon
<1>2. Mem!Touched(x, w) = [page |-> x.page, UseBit |-> TRUE, IsDirty |-> d]
  BY <1>1, FrameWrites, Zenon DEF Mem!Touched
<1>3. x.page \in VirtualPages \cup {NoPage}
  BY FrameFields, Zenon
<1>4. [page |-> x.page, UseBit |-> TRUE, IsDirty |-> d] \in Mem!FrameInfos
  BY <1>3, FrameOf, Zenon
<1>5. LET y == [page |-> x.page, UseBit |-> TRUE, IsDirty |-> d]
      IN  y.page = x.page /\ y.UseBit = TRUE /\ y.IsDirty = d
  BY FrameRecord, Zenon
<1> QED
  BY <1>1, <1>2, <1>4, <1>5, Zenon

(* A frame after a fault has put a page into it. *)
LEMMA FilledFrame ==
  ASSUME NEW p \in VirtualPages, NEW w \in BOOLEAN
  PROVE  /\ Mem!LoadedFrame(p, w) \in Mem!FrameInfos /\ Mem!LoadedFrame(p, w).page = p
         /\ Mem!LoadedFrame(p, w).UseBit /\ (w => Mem!LoadedFrame(p, w).IsDirty)
<1>1. Mem!LoadedFrame(p, w) = [page |-> p, UseBit |-> TRUE, IsDirty |-> w]
  BY Zenon DEF Mem!LoadedFrame
<1>2. [page |-> p, UseBit |-> TRUE, IsDirty |-> w] \in Mem!FrameInfos
  BY FrameOf, Zenon
<1>3. LET y == [page |-> p, UseBit |-> TRUE, IsDirty |-> w]
      IN  y.page = p /\ y.UseBit = TRUE /\ y.IsDirty = w
  BY FrameRecord, Zenon
<1> QED
  BY <1>1, <1>2, <1>3, Zenon

(* A frame that the hand passes. *)
LEMMA ClearedFrame ==
  ASSUME NEW x \in Mem!FrameInfos
  PROVE  /\ [x EXCEPT !.UseBit = FALSE] \in Mem!FrameInfos /\ [x EXCEPT !.UseBit = FALSE].page = x.page
         /\ [x EXCEPT !.UseBit = FALSE].IsDirty = x.IsDirty
<1>1. [x EXCEPT !.UseBit = FALSE] = [page |-> x.page, UseBit |-> FALSE, IsDirty |-> x.IsDirty]
  BY FrameWrites, Zenon
<1>2. x.page \in VirtualPages \cup {NoPage} /\ x.IsDirty \in BOOLEAN
  BY FrameFields, Zenon
<1>3. [page |-> x.page, UseBit |-> FALSE, IsDirty |-> x.IsDirty] \in Mem!FrameInfos
  BY <1>2, FrameOf, Zenon
<1>4. LET y == [page |-> x.page, UseBit |-> FALSE, IsDirty |-> x.IsDirty]
      IN  y.page = x.page /\ y.IsDirty = x.IsDirty
  BY FrameRecord, Zenon
<1> QED
  BY <1>1, <1>3, <1>4, Zenon

(* The fields of a PTE, one whose dirty bit is set, and one made anew. *)
LEMMA PTEFields ==
  ASSUME NEW x \in Mem!PageTableEntries
  PROVE  x.Present \in BOOLEAN /\ x.Dirty \in BOOLEAN /\ x.PFN \in Mem!PFNs
BY Zenon DEF Mem!PageTableEntries

(* A page table entry of given fields. *)
LEMMA PTERecord ==
  ASSUME NEW b \in BOOLEAN, NEW d \in BOOLEAN, NEW f \in Mem!PFNs
  PROVE  LET y == [Present |-> b, Dirty |-> d, PFN |-> f]
         IN  y \in Mem!PageTableEntries /\ y.Present = b /\ y.PFN = f
BY Zenon DEF Mem!PageTableEntries

(* A write marks the entry dirty and leaves the translation alone. *)
LEMMA DirtyPTE ==
  ASSUME NEW x \in Mem!PageTableEntries, NEW w \in BOOLEAN
  PROVE  LET y == [x EXCEPT !.Dirty = x.Dirty \/ w]
         IN  y \in Mem!PageTableEntries /\ y.Present = x.Present /\ y.PFN = x.PFN
<1>1. PICK d \in BOOLEAN : d = (x.Dirty \/ w)
  BY Zenon
<1>2. [x EXCEPT !.Dirty = d] = [Present |-> x.Present, Dirty |-> d, PFN |-> x.PFN]
  BY DEF Mem!PageTableEntries
<1>3. x.Present \in BOOLEAN /\ x.PFN \in Mem!PFNs
  BY PTEFields, Zenon
<1>4. LET y == [Present |-> x.Present, Dirty |-> d, PFN |-> x.PFN]
      IN  y \in Mem!PageTableEntries /\ y.Present = x.Present /\ y.PFN = x.PFN
  BY <1>3, PTERecord, Zenon
<1> QED
  BY <1>1, <1>2, <1>4, Zenon

(* A fault makes the page present in its frame. *)
LEMMA NewPTE ==
  ASSUME NEW x \in Mem!PageTableEntries, NEW w \in BOOLEAN, NEW f \in Mem!PFNs
  PROVE  LET y == [Present |-> TRUE, Dirty |-> x.Dirty \/ w, PFN |-> f]
         IN  y \in Mem!PageTableEntries /\ y.Present /\ y.PFN = f
<1>1. PICK d \in BOOLEAN : d = (x.Dirty \/ w)
  BY Zenon
<1>2. LET y == [Present |-> TRUE, Dirty |-> d, PFN |-> f]
      IN  y \in Mem!PageTableEntries /\ y.Present = TRUE /\ y.PFN = f
  BY PTERecord, Zenon
<1> QED
  BY <1>1, <1>2, Zenon

-----------------------------------------------------------------------------
(* Putting <<p, f>> into the TLB leaves no other entry for p. *)
LEMMA TLBInsert ==
  ASSUME Mem!TypeOK, NEW p \in VirtualPages, NEW f \in Mem!PFNs, Mem!Cache!Insert(p, f)
  PROVE  /\ \A e \in tlb' : e = <<p, f>> \/ (e \in tlb /\ e[1] # p)
         /\ tlb' \subseteq VirtualPages \X Mem!PFNs /\ tlbOlder' \subseteq VirtualPages \X VirtualPages
         /\ lastPage' \in VirtualPages \cup {NoPage}
<1>1. /\ tlb' = Mem!Cache!Kept(p) \cup {<<p, f>>} /\ lastPage' = p
      /\ tlbOlder' = {q \in tlbOlder : \E e, g \in Mem!Cache!Kept(p) : q = <<e[1], g[1]>>}
                       \cup {<<e[1], p>> : e \in Mem!Cache!Kept(p)}
  BY Zenon DEF Mem!Cache!Insert
<1>2. \A e \in Mem!Cache!Kept(p) : e \in tlb /\ e[1] # p
  BY Zenon DEF Mem!Cache!Kept
<1>3. tlb \subseteq VirtualPages \X Mem!PFNs /\ tlbOlder \subseteq VirtualPages \X VirtualPages
  BY Zenon DEF Mem!TypeOK
<1>4. \A e \in Mem!Cache!Kept(p) : e[1] \in VirtualPages
  BY <1>2, <1>3, Zenon
<1>5. \A e \in {<<g[1], p>> : g \in Mem!Cache!Kept(p)} : e \in VirtualPages \X VirtualPages
  BY <1>4
<1> QED
  BY <1>1, <1>2, <1>3, <1>5

(* An order of the occupied frames stays one when one of them is used. *)
LEMMA StampOccupied ==
  ASSUME NEW S, NEW order \in Seq(S), Distinct(order), NEW f \in S, f \in Elements(order)
  PROVE  /\ Mem!Stamped(order, f) \in Seq(S) /\ Distinct(Mem!Stamped(order, f))
         /\ Elements(Mem!Stamped(order, f)) = Elements(order)
<1>1. Mem!Stamped(order, f) \in Seq(S)
  BY StampedLast, Zenon
<1>2. Distinct(Mem!Stamped(order, f))
  BY StampedLast, Zenon
<1>3. Elements(Mem!Stamped(order, f)) = Elements(order) \cup {f}
  BY StampedLast
<1> QED
  BY <1>1, <1>2, <1>3, Zenon

(***************************************************************************)
(* What the two ways to use a page that is there have in common: the frame *)
(* f of page p is touched.                                                 *)
(***************************************************************************)
LEMMA UseStep ==
  ASSUME Mem!ConstantsOK, MemInv, NEW p \in VirtualPages, NEW w \in BOOLEAN, NEW f \in Mem!PFNs,
         PTE[p].Present, PTE[p].PFN = f, Mem!Cache!Insert(p, f),
         Frames' = [Frames EXCEPT ![f] = Mem!Touched(@, w)], recent' = Mem!Stamped(recent, f),
         written' = IF w THEN written \cup {p} ELSE written,
         UNCHANGED <<Policy, loaded, ClockHand>>,
         PTE' \in [VirtualPages -> Mem!PageTableEntries],
         \A q \in VirtualPages : PTE'[q].Present = PTE[q].Present /\ PTE'[q].PFN = PTE[q].PFN
  PROVE  MemInv' /\ \A g \in Mem!PFNs : Frames'[g].page = Frames[g].page
<1>1. Frames \in [Mem!PFNs -> Mem!FrameInfos] /\ recent \in Seq(Mem!PFNs) /\ tlb \subseteq VirtualPages \X Mem!PFNs
  BY Zenon DEF MemInv, Mem!TypeOK
<1>2. Frames[f] \in Mem!FrameInfos
  BY <1>1, Zenon
<1>3. /\ Mem!Touched(Frames[f], w) \in Mem!FrameInfos /\ Mem!Touched(Frames[f], w).page = Frames[f].page
      /\ Mem!Touched(Frames[f], w).UseBit
      /\ Frames[f].IsDirty \/ w => Mem!Touched(Frames[f], w).IsDirty
  BY <1>2, TouchedFrame, Zenon
<1>4. /\ Frames' \in [Mem!PFNs -> Mem!FrameInfos]
      /\ \A g \in Mem!PFNs : /\ Frames'[g].page = Frames[g].page
                             /\ Frames[g].UseBit => Frames'[g].UseBit
                             /\ Frames[g].IsDirty => Frames'[g].IsDirty
      /\ w => Frames'[f].IsDirty
  BY <1>1, <1>3, Zenon
<1>5. Mem!Free' = Mem!Free /\ Occupied' = Occupied
  BY <1>4 DEF Mem!Free, Occupied
<1>6. f \in Occupied
  BY Zenon DEF MemInv, Placement
<1>7. recent' \in Seq(Mem!PFNs) /\ Distinct(recent') /\ Elements(recent') = Occupied
  <2>1. Distinct(recent) /\ Elements(recent) = Occupied
    BY Zenon DEF MemInv, Orders
  <2> QED
    BY <1>1, <1>6, <2>1, StampOccupied
<1>8. Mem!TypeOK'
  <2>1. tlb' \subseteq VirtualPages \X Mem!PFNs /\ tlbOlder' \subseteq VirtualPages \X VirtualPages /\ lastPage' \in VirtualPages \cup {NoPage}
    BY TLBInsert, Zenon DEF MemInv
  <2>2. written' \subseteq VirtualPages
    BY Zenon DEF MemInv, Mem!TypeOK
  <2> QED
    BY <1>4, <1>7, <2>1, <2>2, Zenon DEF MemInv, Mem!TypeOK
<1>9. Placement'
  <2>1. ASSUME NEW e \in tlb' PROVE PTE'[e[1]].Present /\ PTE'[e[1]].PFN = e[2]
    <3>1. CASE e = <<p, f>>
      BY <3>1, Zenon
    <3>2. CASE e \in tlb
      <4>1. PTE[e[1]].Present /\ PTE[e[1]].PFN = e[2]
        BY <3>2, Zenon DEF MemInv, Placement, Mem!TranslationsAgree
      <4>2. e[1] \in VirtualPages
        BY <1>1, <3>2, Zenon
      <4> QED
        BY <4>1, <4>2, Zenon
    <3> QED
      BY <3>1, <3>2, TLBInsert, Zenon DEF MemInv
  <2>2. ASSUME NEW g \in Mem!PFNs, Frames'[g].page # NoPage
        PROVE  PTE'[Frames'[g].page].Present /\ PTE'[Frames'[g].page].PFN = g
    <3>1. Frames[g].page \in VirtualPages /\ Frames'[g].page = Frames[g].page
      BY <1>1, <1>4, <2>2, FrameFields, Zenon
    <3>2. PTE[Frames[g].page].Present /\ PTE[Frames[g].page].PFN = g
      BY <2>2, <3>1, Zenon DEF MemInv, Placement, Mem!TranslationsAgree
    <3> QED
      BY <3>1, <3>2, Zenon
  <2>3. ASSUME NEW g \in Mem!PFNs, Frames'[g].page \in written' PROVE Frames'[g].IsDirty
    <3>1. CASE Frames[g].page \in written
      BY <1>4, <3>1, Zenon DEF MemInv, Placement, Mem!ModifiedIsDirty
    <3>2. CASE w /\ Frames[g].page = p
      <4>1. p # NoPage
        BY Zenon DEF Mem!ConstantsOK
      <4>2. g = f
        BY <3>2, <4>1, Zenon DEF MemInv, Placement, Mem!TranslationsAgree
      <4> QED
        BY <1>4, <3>2, <4>2, Zenon
    <3> QED
      BY <1>4, <2>3, <3>1, <3>2, Zenon
  <2>4. \A q \in VirtualPages : PTE'[q].Present => PTE'[q].PFN \in Occupied'
    BY <1>5, Zenon DEF MemInv, Placement
  <2> QED
    BY <2>1, <2>2, <2>3, <2>4, Zenon DEF Placement, Mem!TranslationsAgree, Mem!ModifiedIsDirty, Mem!PFNs
<1>10. Orders'
  BY <1>5, <1>7 DEF MemInv, Orders, Distinct, Elements
<1>11. Clock'
  <2>1. loaded # <<>> => loaded[Len(loaded)] \in Mem!PFNs
    BY EmptyList, ElementIn DEF MemInv, Mem!TypeOK
  <2> QED
    BY <1>4, <1>5, <2>1, Zenon DEF MemInv, Clock, Mem!HandAfter, Mem!PFNs
<1> QED
  BY <1>4, <1>8, <1>9, <1>10, <1>11, Zenon DEF MemInv

(***************************************************************************)
(* What both kinds of page fault have in common: page p is loaded into     *)
(* frame f, and the other frames keep their pages.                         *)
(***************************************************************************)
LEMMA LoadStep ==
  ASSUME Mem!ConstantsOK, MemInv, NEW p \in VirtualPages, NEW w \in BOOLEAN, NEW f \in Mem!PFNs,
         ~PTE[p].Present, Mem!Load(p, f, w), UNCHANGED Policy, ClockHand' \in Mem!PFNs,
         Frames' \in [Mem!PFNs -> Mem!FrameInfos], Frames'[f] = Mem!LoadedFrame(p, w),
         \A g \in Mem!PFNs : g # f => /\ Frames'[g].page = Frames[g].page
                                      /\ Frames'[g].IsDirty = Frames[g].IsDirty
  PROVE  /\ Mem!TypeOK' /\ Placement' /\ Orders' /\ Mem!Free' = Mem!Free \ {f}
         /\ loaded' # <<>> /\ loaded'[Len(loaded')] = f /\ Frames'[f].UseBit
<1>1. /\ PTE \in [VirtualPages -> Mem!PageTableEntries] /\ Frames \in [Mem!PFNs -> Mem!FrameInfos]
      /\ loaded \in Seq(Mem!PFNs) /\ recent \in Seq(Mem!PFNs) /\ tlb \subseteq VirtualPages \X Mem!PFNs
  BY Zenon DEF MemInv, Mem!TypeOK
<1>2. p # NoPage
  BY Zenon DEF Mem!ConstantsOK
<1>3. Frames'[f].page = p /\ Frames'[f].UseBit /\ (w => Frames'[f].IsDirty)
  BY FilledFrame, Zenon
<1>4. Mem!Free' = Mem!Free \ {f} /\ Occupied' = Occupied \cup {f}
  BY <1>2, <1>3, Zenon DEF Mem!Free, Occupied, Mem!PFNs
<1>5. /\ PTE' \in [VirtualPages -> Mem!PageTableEntries] /\ PTE'[p].Present /\ PTE'[p].PFN = f
      /\ \A q \in VirtualPages : q # p => PTE'[q] = PTE[q]
  <2> DEFINE y == [Present |-> TRUE, Dirty |-> PTE[p].Dirty \/ w, PFN |-> f]
  <2>1. y \in Mem!PageTableEntries /\ y.Present /\ y.PFN = f
    BY <1>1, NewPTE, Zenon
  <2>2. PTE' = [PTE EXCEPT ![p] = y]
    BY Zenon DEF Mem!Load
  <2> HIDE DEF y
  <2> QED
    BY <1>1, <2>1, <2>2, Zenon
<1>6. \A order \in Seq(Mem!PFNs) :
        Distinct(order) /\ Elements(order) = Occupied =>
          /\ Mem!Stamped(order, f) \in Seq(Mem!PFNs) /\ Distinct(Mem!Stamped(order, f))
          /\ Elements(Mem!Stamped(order, f)) = Occupied' /\ Mem!Stamped(order, f) # <<>>
          /\ Mem!Stamped(order, f)[Len(Mem!Stamped(order, f))] = f
  <2> SUFFICES ASSUME NEW order \in Seq(Mem!PFNs), Distinct(order)
               PROVE  /\ Mem!Stamped(order, f) \in Seq(Mem!PFNs) /\ Distinct(Mem!Stamped(order, f))
                      /\ Elements(Mem!Stamped(order, f)) = Elements(order) \cup {f}
                      /\ Mem!Stamped(order, f) # <<>>
                      /\ Mem!Stamped(order, f)[Len(Mem!Stamped(order, f))] = f
    BY <1>4, Zenon
  <2>1. Mem!Stamped(order, f) \in Seq(Mem!PFNs) /\ Distinct(Mem!Stamped(order, f))
    BY StampedLast, Zenon
  <2>2. Elements(Mem!Stamped(order, f)) = Elements(order) \cup {f}
    BY StampedLast
  <2>3. Mem!Stamped(order, f) # <<>> /\ Mem!Stamped(order, f)[Len(Mem!Stamped(order, f))] = f
    BY StampedLast
  <2> QED
    BY <2>1, <2>2, <2>3, Zenon
<1>7. /\ loaded' \in Seq(Mem!PFNs) /\ Distinct(loaded') /\ Elements(loaded') = Occupied'
      /\ loaded' # <<>> /\ loaded'[Len(loaded')] = f
  BY <1>1, <1>6, Zenon DEF Mem!Load, MemInv, Orders
<1>8. recent' \in Seq(Mem!PFNs) /\ Distinct(recent') /\ Elements(recent') = Occupied'
  BY <1>1, <1>6, Zenon DEF Mem!Load, MemInv, Orders
<1>9. Mem!TypeOK'
  <2>1. tlb' \subseteq VirtualPages \X Mem!PFNs /\ tlbOlder' \subseteq VirtualPages \X VirtualPages /\ lastPage' \in VirtualPages \cup {NoPage}
    BY TLBInsert, Zenon DEF MemInv, Mem!Load
  <2>2. written' \subseteq VirtualPages
    BY Zenon DEF MemInv, Mem!TypeOK, Mem!Load
  <2> QED
    BY <1>5, <1>7, <1>8, <2>1, <2>2, Zenon DEF MemInv, Mem!TypeOK
<1>10. Placement'
  <2>1. ASSUME NEW e \in tlb' PROVE PTE'[e[1]].Present /\ PTE'[e[1]].PFN = e[2]
    <3>1. CASE e = <<p, f>>
      BY <1>5, <3>1, Zenon
    <3>2. CASE e \in tlb /\ e[1] # p
      <4>1. PTE[e[1]].Present /\ PTE[e[1]].PFN = e[2]
        BY <3>2, Zenon DEF MemInv, Placement, Mem!TranslationsAgree
      <4>2. e[1] \in VirtualPages
        BY <1>1, <3>2, Zenon
      <4> QED
        BY <1>5, <3>2, <4>1, <4>2, Zenon
    <3> QED
      BY <3>1, <3>2, TLBInsert, Zenon DEF MemInv, Mem!Load
  <2>2. ASSUME NEW g \in Mem!PFNs, g # f, Frames[g].page # NoPage
        PROVE  /\ Frames[g].page \in VirtualPages \ {p}
               /\ PTE[Frames[g].page].Present /\ PTE[Frames[g].page].PFN = g
    <3>1. Frames[g].page \in VirtualPages
      BY <1>1, <2>2, FrameFields, Zenon
    <3> QED
      BY <2>2, <3>1, Zenon DEF MemInv, Placement, Mem!TranslationsAgree
  <2>3. ASSUME NEW g \in Mem!PFNs, Frames'[g].page # NoPage
        PROVE  PTE'[Frames'[g].page].Present /\ PTE'[Frames'[g].page].PFN = g
    BY <1>3, <1>5, <2>2, <2>3
  <2>4. ASSUME NEW g \in Mem!PFNs, Frames'[g].page \in written' PROVE Frames'[g].IsDirty
    <3>1. CASE g = f
      <4>1. w
        BY <1>3, <2>4, <3>1, Zenon DEF Mem!Load
      <4> QED
        BY <1>3, <3>1, <4>1, Zenon
    <3>2. CASE g # f
      <4>1. Frames[g].page # NoPage
        <5>1. written' \subseteq VirtualPages /\ NoPage \notin VirtualPages
          BY Zenon DEF MemInv, Mem!TypeOK, Mem!Load, Mem!ConstantsOK
        <5> QED
          BY <2>4, <3>2, <5>1, Zenon
      <4>2. Frames[g].page \in written
        BY <2>2, <2>4, <3>2, <4>1, Zenon DEF Mem!Load
      <4>3. Frames[g].IsDirty
        BY <4>2, Zenon DEF MemInv, Placement, Mem!ModifiedIsDirty
      <4> QED
        BY <3>2, <4>3, Zenon
    <3> QED
      BY <3>1, <3>2, Zenon
  <2>5. \A q \in VirtualPages : PTE'[q].Present => PTE'[q].PFN \in Occupied'
    BY <1>4, <1>5, Zenon DEF MemInv, Placement, Occupied
  <2> QED
    BY <2>1, <2>3, <2>4, <2>5, Zenon DEF Placement, Mem!TranslationsAgree, Mem!ModifiedIsDirty, Mem!PFNs
<1> QED
  BY <1>3, <1>4, <1>7, <1>8, <1>9, <1>10, Zenon DEF Orders

(* A page fault served from a free frame. *)
LEMMA FaultFreeStep ==
  ASSUME Mem!ConstantsOK, MemInv, NEW p \in VirtualPages, NEW w \in BOOLEAN, Mem!FaultFree(p, w)
  PROVE  /\ MemInv'
         /\ \A g \in Mem!PFNs : Frames[g].page # NoPage => Frames'[g].page = Frames[g].page
<1>1. PICK f \in Mem!Free : /\ \A g \in Mem!Free : f <= g
                            /\ Frames' = [Frames EXCEPT ![f] = Mem!LoadedFrame(p, w)]
                            /\ Mem!Load(p, f, w)
  BY Zenon DEF Mem!FaultFree
<1>2. /\ Frames \in [Mem!PFNs -> Mem!FrameInfos] /\ f \in Mem!PFNs /\ Frames[f].page = NoPage
      /\ ClockHand \in Mem!PFNs /\ UNCHANGED <<Policy, ClockHand>> /\ ~PTE[p].Present
  BY Zenon DEF MemInv, Mem!TypeOK, Mem!Free, Mem!FaultFree
<1>3. Mem!LoadedFrame(p, w) \in Mem!FrameInfos
  BY FilledFrame, Zenon
<1>4. /\ Frames' \in [Mem!PFNs -> Mem!FrameInfos] /\ Frames'[f] = Mem!LoadedFrame(p, w)
      /\ \A g \in Mem!PFNs : g # f => Frames'[g] = Frames[g]
  BY <1>1, <1>2, <1>3, Zenon
<1>5. /\ Mem!TypeOK' /\ Placement' /\ Orders' /\ Mem!Free' = Mem!Free \ {f}
      /\ loaded' # <<>> /\ loaded'[Len(loaded')] = f /\ Frames'[f].UseBit
  BY <1>1, <1>2, <1>4, LoadStep
<1>6. Clock'
  <2>1. NumFrames \in Nat \ {0} /\ Mem!PFNs \subseteq Nat /\ \A g \in Mem!PFNs : g < NumFrames
    BY DEF Mem!ConstantsOK, Mem!PFNs
  <2>2. ClockHand = 0 /\ \A g \in Mem!Free, h \in Mem!PFNs : g < h => h \in Mem!Free
    BY Zenon DEF MemInv, Clock
  <2>3. \A g \in Mem!Free', h \in Mem!PFNs : g < h => h \in Mem!Free'
    <3> SUFFICES ASSUME NEW g \in Mem!Free \ {f}, NEW h \in Mem!PFNs, g < h PROVE h \in Mem!Free \ {f}
      BY <1>5, Zenon
    <3>1. h \in Mem!Free /\ f <= g /\ g \in Mem!PFNs
      BY <1>1, <2>2, Zenon DEF Mem!Free
    <3>2. h # f
      BY <1>2, <2>1, <3>1
    <3> QED
      BY <3>1, <3>2, Zenon
  <2>4. ASSUME Mem!Free' = {} PROVE ClockHand' = Mem!HandAfter(f)
    <3>1. NumFrames - 1 \in Mem!PFNs /\ f <= NumFrames - 1
      BY <1>2, <2>1 DEF Mem!PFNs
    <3>2. f = NumFrames - 1
      BY <1>2, <1>5, <2>1, <2>2, <2>4, <3>1
    <3>3. NumFrames % NumFrames = 0
      BY <2>1, OneTurn
    <3>4. f + 1 = NumFrames
      BY <2>1, <3>2
    <3> QED
      BY <1>2, <2>2, <3>3, <3>4, Zenon DEF Mem!HandAfter
  <2> QED
    BY <1>2, <1>5, <2>2, <2>3, <2>4, Zenon DEF Clock, Mem!HandAfter, Mem!PFNs
<1> QED
  BY <1>2, <1>4, <1>5, <1>6, Zenon DEF MemInv

(* The victim is an occupied frame; the clock takes one whose use bit is    *)
(* set only when all are set.                                               *)
LEMMA VictimChosen ==
  ASSUME Mem!ConstantsOK, MemInv, Mem!Free = {}, NEW k \in 0..NumFrames, Mem!Sweep(k)
  PROVE  /\ Mem!Victim(k) \in Mem!PFNs
         /\ NumFrames > 1 /\ Policy = "LRU" => Mem!Victim(k) # recent[Len(recent)]
         /\ NumFrames > 1 /\ Policy \in {"FIFO", "CLOCK"} => Mem!Victim(k) # loaded[Len(loaded)]
         /\ Policy = "CLOCK" /\ Frames[Mem!Victim(k)].UseBit => \A g \in Mem!PFNs : Frames[g].UseBit
<1>1. NumFrames \in Nat \ {0} /\ ClockHand \in Mem!PFNs /\ 0 \in Mem!PFNs /\ Policy \in Mem!Policies
  BY DEF Mem!ConstantsOK, MemInv, Mem!TypeOK, Mem!PFNs
<1>2. ASSUME NEW order \in Seq(Mem!PFNs), Distinct(order), Elements(order) = Mem!PFNs
      PROVE  order[1] \in Mem!PFNs /\ (NumFrames > 1 => order[1] # order[Len(order)]) /\ order # <<>>
  <2>1. PICK n \in Nat : n = Len(order)
    BY LengthOfSeq, Zenon
  <2>2. PICK i \in 1..n : order[i] = 0
    BY <1>1, <1>2, <2>1, Zenon DEF Elements
  <2>3. 1 \in 1..n /\ order[1] \in Mem!PFNs
    BY <2>1, <2>2, ElementIn
  <2>4. ASSUME NumFrames > 1 PROVE order[1] # order[Len(order)]
    <3>1. 1 \in Mem!PFNs
      BY <1>1, <2>4 DEF Mem!PFNs
    <3>2. PICK j \in 1..n : order[j] = 1
      BY <1>2, <2>1, <3>1, Zenon DEF Elements
    <3>3. n > 1 /\ n \in 1..n
      BY <2>2, <3>2
    <3> QED
      BY <1>2, <2>1, <2>3, <3>3 DEF Distinct
  <2>5. order # <<>>
    BY <2>1, <2>3, EmptyList
  <2> QED
    BY <2>3, <2>4, <2>5, Zenon
<1>3. /\ loaded \in Seq(Mem!PFNs) /\ Distinct(loaded) /\ Elements(loaded) = Mem!PFNs
      /\ recent \in Seq(Mem!PFNs) /\ Distinct(recent) /\ Elements(recent) = Mem!PFNs
  BY Zenon DEF MemInv, Mem!TypeOK, Orders, Occupied
<1>4. /\ loaded[1] \in Mem!PFNs /\ (NumFrames > 1 => loaded[1] # loaded[Len(loaded)]) /\ loaded # <<>>
      /\ recent[1] \in Mem!PFNs /\ (NumFrames > 1 => recent[1] # recent[Len(recent)])
  BY <1>2, <1>3, Zenon
<1>5. Mem!AtHand(k) \in Mem!PFNs /\ Mem!AtHand(NumFrames) = ClockHand
  BY <1>1, HandPasses, Zenon
<1>6. CASE Policy = "FIFO"
  <2>1. Mem!Victim(k) = loaded[1]
    BY <1>6, SMT DEF Mem!Victim
  <2> QED
    BY <1>4, <1>6, <2>1, Zenon
<1>7. CASE Policy = "LRU"
  <2>1. Mem!Victim(k) = recent[1]
    BY <1>7, SMT DEF Mem!Victim
  <2> QED
    BY <1>4, <1>7, <2>1, Zenon
<1>8. CASE Policy = "CLOCK"
  <2>1. Mem!Victim(k) = Mem!AtHand(k)
    BY <1>8, SMT DEF Mem!Victim
  <2>2. CASE k < NumFrames
    <3>1. ~Frames[Mem!Victim(k)].UseBit
      BY <2>1, <2>2, Zenon DEF Mem!Sweep
    <3>2. Frames[loaded[Len(loaded)]].UseBit
      BY <1>4, Zenon DEF MemInv, Clock
    <3>3. Mem!Victim(k) # loaded[Len(loaded)]
      BY <3>1, <3>2, Zenon
    <3> QED
      BY <1>5, <1>8, <2>1, <3>1, <3>3, Zenon
  <2>3. CASE k = NumFrames
    <3>1. \A j \in 0..(NumFrames - 1) : Frames[Mem!AtHand(j)].UseBit
      BY <2>3, Zenon DEF Mem!Sweep
    <3>2. \A g \in Mem!PFNs : Frames[g].UseBit
      BY <1>1, <3>1, HandPasses, Zenon
    <3>3. PICK f : f = loaded[Len(loaded)]
      BY Zenon
    <3>4. f \in Mem!PFNs /\ ClockHand = Mem!HandAfter(f)
      <4>1. f \in Mem!PFNs
        BY <1>3, <1>4, <3>3, EmptyList, ElementIn
      <4> QED
        BY <1>8, <3>3, <4>1, Zenon DEF MemInv, Clock
    <3>5. ASSUME NumFrames > 1 PROVE ClockHand # f
      BY <3>4, <3>5, HandMoves, Zenon
    <3> QED
      BY <1>5, <1>8, <2>1, <2>3, <3>2, <3>3, <3>5, Zenon
  <2> QED
    BY <1>1, <2>2, <2>3
<1> QED
  BY <1>1, <1>6, <1>7, <1>8, Zenon DEF Mem!Policies

(* A page fault with all frames occupied. *)
LEMMA FaultEvictStep ==
  ASSUME Mem!ConstantsOK, MemInv, NEW p \in VirtualPages, NEW w \in BOOLEAN, Mem!FaultEvict(p, w)
  PROVE  /\ MemInv'
         /\ \E k \in 0..NumFrames :
              /\ Mem!Free = {} /\ Mem!Sweep(k)
              /\ \A g \in Mem!PFNs : g # Mem!Victim(k) => Frames'[g].page = Frames[g].page
<1>1. PICK k \in 0..NumFrames :
        /\ Mem!Sweep(k)
        /\ Frames' = [f \in Mem!PFNs |->
             IF f = Mem!Victim(k) THEN Mem!LoadedFrame(p, w)
             ELSE IF Policy = "CLOCK" /\ f \in Mem!Swept(k) THEN [Frames[f] EXCEPT !.UseBit = FALSE]
             ELSE Frames[f]]
        /\ ClockHand' = IF Policy = "CLOCK" THEN Mem!HandAfter(Mem!Victim(k)) ELSE ClockHand
        /\ Mem!Load(p, Mem!Victim(k), w)
  BY Zenon DEF Mem!FaultEvict
<1>2. Mem!Free = {} /\ ~PTE[p].Present /\ UNCHANGED Policy
  BY Zenon DEF Mem!FaultEvict
<1>3. PICK f \in Mem!PFNs : f = Mem!Victim(k)
  BY <1>1, <1>2, VictimChosen, Zenon
<1>4. /\ Frames \in [Mem!PFNs -> Mem!FrameInfos] /\ NumFrames \in Nat \ {0} /\ ClockHand \in Mem!PFNs
  BY Zenon DEF MemInv, Mem!TypeOK, Mem!ConstantsOK
<1>5. \A g \in Mem!PFNs : /\ [Frames[g] EXCEPT !.UseBit = FALSE] \in Mem!FrameInfos
                          /\ [Frames[g] EXCEPT !.UseBit = FALSE].page = Frames[g].page
                          /\ [Frames[g] EXCEPT !.UseBit = FALSE].IsDirty = Frames[g].IsDirty
  BY <1>4, ClearedFrame, Zenon
<1>6. Frames'[f] = Mem!LoadedFrame(p, w) /\ Mem!LoadedFrame(p, w) \in Mem!FrameInfos
  BY <1>1, <1>3, FilledFrame, Zenon
<1>7. \A g \in Mem!PFNs : g # f => \/ Frames'[g] = [Frames[g] EXCEPT !.UseBit = FALSE]
                                   \/ Frames'[g] = Frames[g]
  BY <1>1, <1>3, Zenon
<1>8. \A g \in Mem!PFNs : g # f => /\ Frames'[g] \in Mem!FrameInfos /\ Frames'[g].page = Frames[g].page
                                   /\ Frames'[g].IsDirty = Frames[g].IsDirty
  BY <1>4, <1>5, <1>7, Zenon
<1>9. Frames' \in [Mem!PFNs -> Mem!FrameInfos]
  <2>1. \A g \in Mem!PFNs : Frames'[g] \in Mem!FrameInfos
    BY <1>6, <1>8, Zenon
  <2>2. DOMAIN Frames' = Mem!PFNs /\ Frames' = [g \in Mem!PFNs |-> Frames'[g]]
    BY <1>1, Zenon
  <2> QED
    BY <2>1, <2>2, Zenon
<1>10. ClockHand' \in Mem!PFNs /\ (Policy = "CLOCK" => ClockHand' = Mem!HandAfter(f))
  <2>1. Mem!HandAfter(f) \in Mem!PFNs
    BY HandMoves, Zenon
  <2> QED
    BY <1>1, <1>3, <1>4, <2>1, Zenon
<1>11. /\ Mem!TypeOK' /\ Placement' /\ Orders' /\ Mem!Free' = Mem!Free \ {f}
       /\ loaded' # <<>> /\ loaded'[Len(loaded')] = f /\ Frames'[f].UseBit
  BY <1>1, <1>2, <1>3, <1>6, <1>8, <1>9, <1>10, LoadStep, Zenon
<1>12. Clock'
  BY <1>2, <1>10, <1>11, Zenon DEF Clock, Mem!HandAfter
<1> QED
  BY <1>1, <1>2, <1>3, <1>8, <1>11, <1>12, Zenon DEF MemInv

(* Every step keeps the invariant and spares the frame used last. *)
Spares ==
  \A f \in Mem!PFNs :
    Frames[f].page \notin {NoPage, Frames'[f].page} /\ NumFrames > 1 =>
      /\ Policy = "LRU" => f # recent[Len(recent)]
      /\ Policy \in {"FIFO", "CLOCK"} => f # loaded[Len(loaded)]
      /\ Policy = "CLOCK" /\ Frames[f].UseBit => \A g \in Mem!PFNs : Frames[g].UseBit

(* No call of AccessMemory breaks the invariant or evicts what must be spared. *)
LEMMA MemStep ==
  ASSUME Mem!ConstantsOK, MemInv, [Mem!Next]_(Mem!vars)
  PROVE  MemInv' /\ Spares
<1>0. PTE \in [VirtualPages -> Mem!PageTableEntries] /\ Frames \in [Mem!PFNs -> Mem!FrameInfos] /\ tlb \subseteq VirtualPages \X Mem!PFNs
  BY Zenon DEF MemInv, Mem!TypeOK
<1>1. CASE UNCHANGED Mem!vars
  BY <1>1, Zenon DEF Mem!vars, MemInv, Mem!TypeOK, Placement, Mem!TranslationsAgree, Mem!ModifiedIsDirty, Orders, Clock,
              Occupied, Mem!Free, Mem!HandAfter, Mem!PFNs, Spares
<1>2. ASSUME NEW p \in VirtualPages, NEW w \in BOOLEAN, Mem!AccessHit(p, w) PROVE MemInv' /\ Spares
  <2>1. PICK f \in Mem!PFNs : /\ Mem!Cache!Hit(p, f)
                              /\ Frames' = [Frames EXCEPT ![f] = Mem!Touched(@, w)]
                              /\ recent' = Mem!Stamped(recent, f)
    BY <1>2, Zenon DEF Mem!AccessHit
  <2>2. <<p, f>> \in tlb /\ Mem!Cache!Insert(p, f)
    BY <2>1, Zenon DEF Mem!Cache!Hit
  <2>3. PTE[p].Present /\ PTE[p].PFN = f
    <3>1. PTE[<<p, f>>[1]].Present /\ PTE[<<p, f>>[1]].PFN = <<p, f>>[2]
      BY <2>2, Zenon DEF MemInv, Placement, Mem!TranslationsAgree
    <3> QED
      BY <3>1, Zenon
  <2>4. /\ written' = IF w THEN written \cup {p} ELSE written
        /\ UNCHANGED <<Policy, loaded, ClockHand>> /\ PTE' = PTE
    BY <1>2, Zenon DEF Mem!AccessHit
  <2>5. MemInv' /\ \A g \in Mem!PFNs : Frames'[g].page = Frames[g].page
    BY <1>0, <2>1, <2>2, <2>3, <2>4, UseStep, Zenon
  <2> QED
    BY <2>5, Zenon DEF Spares
<1>3. ASSUME NEW p \in VirtualPages, NEW w \in BOOLEAN, Mem!AccessPresent(p, w) PROVE MemInv' /\ Spares
  <2>1. PICK f \in Mem!PFNs : f = PTE[p].PFN
    BY <1>0, PTEFields, Zenon
  <2>2. /\ PTE[p].Present /\ Mem!Cache!Insert(p, f) /\ recent' = Mem!Stamped(recent, f)
        /\ Frames' = [Frames EXCEPT ![f] = Mem!Touched(@, w)]
        /\ PTE' = [PTE EXCEPT ![p].Dirty = @ \/ w]
        /\ written' = IF w THEN written \cup {p} ELSE written
        /\ UNCHANGED <<Policy, loaded, ClockHand>>
    BY <1>3, <2>1, Zenon DEF Mem!AccessPresent
  <2>3. /\ PTE' \in [VirtualPages -> Mem!PageTableEntries]
        /\ \A q \in VirtualPages : PTE'[q].Present = PTE[q].Present /\ PTE'[q].PFN = PTE[q].PFN
    <3> DEFINE y == [PTE[p] EXCEPT !.Dirty = PTE[p].Dirty \/ w]
    <3>1. y \in Mem!PageTableEntries /\ y.Present = PTE[p].Present /\ y.PFN = PTE[p].PFN
      BY <1>0, DirtyPTE, Zenon
    <3>2. PTE' = [PTE EXCEPT ![p] = y]
      BY <2>2, Zenon
    <3> HIDE DEF y
    <3> QED
      BY <1>0, <3>1, <3>2, Zenon
  <2>4. MemInv' /\ \A g \in Mem!PFNs : Frames'[g].page = Frames[g].page
    BY <2>1, <2>2, <2>3, UseStep, Zenon
  <2> QED
    BY <2>4, Zenon DEF Spares
<1>4. ASSUME NEW p \in VirtualPages, NEW w \in BOOLEAN, Mem!FaultFree(p, w) PROVE MemInv' /\ Spares
  BY <1>4, FaultFreeStep, Zenon DEF Spares
<1>5. ASSUME NEW p \in VirtualPages, NEW w \in BOOLEAN, Mem!FaultEvict(p, w) PROVE MemInv' /\ Spares
  <2>1. PICK k \in 0..NumFrames :
              /\ Mem!Free = {} /\ Mem!Sweep(k)
              /\ \A g \in Mem!PFNs : g # Mem!Victim(k) => Frames'[g].page = Frames[g].page
    BY <1>5, FaultEvictStep, Zenon
  <2>2. MemInv'
    BY <1>5, FaultEvictStep, Zenon
  <2>3. /\ NumFrames > 1 /\ Policy = "LRU" => Mem!Victim(k) # recent[Len(recent)]
        /\ NumFrames > 1 /\ Policy \in {"FIFO", "CLOCK"} => Mem!Victim(k) # loaded[Len(loaded)]
        /\ Policy = "CLOCK" /\ Frames[Mem!Victim(k)].UseBit => \A g \in Mem!PFNs : Frames[g].UseBit
    BY <2>1, VictimChosen, Zenon
  <2> QED
    BY <2>1, <2>2, <2>3, Zenon DEF Spares
<1>6. CASE Mem!FlushTLB
  <2>1. tlb' = {} /\ tlbOlder' = {} /\ UNCHANGED <<lastPage, Policy, PTE, Frames, loaded, recent, ClockHand, written>>
    BY <1>6, Zenon DEF Mem!FlushTLB, Mem!Cache!Flush
  <2> QED
    BY <2>1, Zenon DEF MemInv, Mem!TypeOK, Placement, Mem!TranslationsAgree, Mem!ModifiedIsDirty, Orders, Clock,
              Occupied, Mem!Free, Mem!HandAfter, Mem!PFNs, Spares
<1> QED
  BY <1>1, <1>2, <1>3, <1>4, <1>5, <1>6, Zenon DEF Mem!Next, Mem!AccessMemory

(***************************************************************************)
(* For any number of pages and frames and each policy: TLB, page table and *)
(* frame table agree, a modified page is known to be dirty, and the page   *)
(* that was brought in or used last is never the victim.                   *)
(***************************************************************************)
THEOREM PagingIsCorrect == Mem!Spec => [](Mem!TypeOK /\ PagingInv) /\ EvictionSparesNewest
<1> USE PagingAssumption
<1>1. Mem!Init => MemInv
  <2> SUFFICES ASSUME Mem!Init PROVE MemInv
    BY Zenon
  <2>1. NumFrames \in Nat \ {0} /\ 0 \in Mem!PFNs
    BY DEF Mem!ConstantsOK, Mem!PFNs
  <2>2. \A p \in VirtualPages : PTE[p] \in Mem!PageTableEntries /\ ~PTE[p].Present
    BY <2>1, PTERecord, Zenon DEF Mem!Init
  <2>3. \A f \in Mem!PFNs : Frames[f] \in Mem!FrameInfos /\ Frames[f].page = NoPage
    BY FrameOf, FrameRecord, Zenon DEF Mem!Init
  <2>4. Mem!TypeOK
    BY <2>1, <2>2, <2>3, EmptyList, Zenon DEF Mem!Init, Mem!Cache!Init, Mem!TypeOK
  <2>5. Mem!Free = Mem!PFNs /\ Occupied = {}
    BY <2>3, Zenon DEF Mem!Free, Occupied
  <2>6. Placement
    BY <2>2, <2>3, <2>5, Zenon DEF Placement, Mem!TranslationsAgree, Mem!ModifiedIsDirty, Mem!Init, Mem!Cache!Init
  <2>7. Orders
    BY <2>5, EmptyList DEF Orders, Mem!Init, Distinct, Elements
  <2>8. Clock
    BY <2>1, <2>5, Zenon DEF Clock, Mem!Init
  <2> QED
    BY <2>4, <2>6, <2>7, <2>8, Zenon DEF MemInv
<1>2. MemInv /\ [Mem!Next]_(Mem!vars) => MemInv' /\ Spares
  BY MemStep, Zenon
<1>3. MemInv => Mem!TypeOK /\ PagingInv
  BY Zenon DEF MemInv, Placement, PagingInv
<1> QED
  BY <1>1, <1>2, <1>3, PTL DEF Mem!Spec, EvictionSparesNewest, Mem!EvictionSparesNewest, Spares

-----------------------------------------------------------------------------
(* A valid directory entry has a whole second-level table. *)
TablesInv ==
  /\ Directory \in [DirIndices -> [Valid : BOOLEAN, PageTable : PT!Tables \cup {PT!NoTable}]]
  /\ \A pde \in DirIndices : Directory[pde].Valid => Directory[pde].PageTable \in PT!Tables

(* The entries that the operations write are entries. *)
LEMMA EntriesAreEntries ==
  /\ PT!Unmapped \in PT!Entry
  /\ \A pfn \in TableFrames, writable \in BOOLEAN : PT!Mapped(pfn, writable) \in PT!Entry
  /\ \A e \in PT!Entry, isWrite \in BOOLEAN : PT!Track(e, isWrite) \in PT!Entry
  /\ \A e \in PT!Entry : [e EXCEPT !.Present = FALSE] \in PT!Entry
BY Zenon DEF PT!Unmapped, PT!Mapped, PT!Track, PT!Entry

(* Writing one entry of one second-level table writes one entry of the      *)
(* linear table, whether the second-level table was there or is made now.   *)
LEMMA WriteOne ==
  ASSUME TablesInv, NEW pde \in DirIndices, NEW pte \in TableIndices, NEW e \in PT!Entry,
         Directory' = [Directory EXCEPT ![pde] =
                         [Valid |-> TRUE, PageTable |-> [PT!TableFor(pde) EXCEPT ![pte] = e]]]
  PROVE  TablesInv' /\ PT!Flat' = [PT!Flat EXCEPT ![<<pde, pte>>] = e]
<1>1. PT!TableFor(pde) \in PT!Tables
  BY EntriesAreEntries, Zenon DEF PT!TableFor, TablesInv, PT!NewTable, PT!Tables
<1>2. [PT!TableFor(pde) EXCEPT ![pte] = e] \in PT!Tables
  BY <1>1, Zenon DEF PT!Tables
<1>3. TablesInv'
  BY <1>2, Zenon DEF TablesInv
<1>4. ASSUME NEW vpn \in DirIndices \X TableIndices
      PROVE  PT!Flat'[vpn] = [PT!Flat EXCEPT ![<<pde, pte>>] = e][vpn]
  <2>1. PICK d \in DirIndices, p \in TableIndices : vpn = <<d, p>>
    OBVIOUS
  <2>2. CASE d = pde
    <3>1. PT!Flat'[vpn] = [PT!TableFor(pde) EXCEPT ![pte] = e][p]
      BY <2>1, <2>2, Zenon DEF PT!Flat, TablesInv
    <3>2. PT!Flat[vpn] = PT!TableFor(pde)[p]
      BY <2>1, <2>2, Zenon DEF PT!Flat, PT!TableFor, PT!NewTable
    <3> QED
      BY <1>1, <2>1, <2>2, <3>1, <3>2, Zenon DEF PT!Flat, PT!Tables
  <2>3. CASE d # pde
    BY <2>1, <2>3, Zenon DEF PT!Flat, TablesInv
  <2> QED
    BY <2>2, <2>3, Zenon
<1>5. PT!Flat' = [PT!Flat EXCEPT ![<<pde, pte>>] = e]
  BY <1>4, Zenon DEF PT!Flat
<1> QED
  BY <1>3, <1>5, Zenon

(* What an assignment to the field PageTable of a directory entry makes. *)
LEMMA FieldPageTable ==
  ASSUME NEW S, NEW d \in [Valid : BOOLEAN, PageTable : S], NEW table
  PROVE  [d EXCEPT !.PageTable = table] = [Valid |-> d.Valid, PageTable |-> table]
OBVIOUS

(* The same for an entry of a table that is there, changed in place. *)
LEMMA ChangeInPlace ==
  ASSUME TablesInv, NEW pde \in DirIndices, NEW pte \in TableIndices, NEW e \in PT!Entry,
         Directory[pde].Valid,
         Directory' = [Directory EXCEPT ![pde].PageTable[pte] = e]
  PROVE  TablesInv' /\ PT!Flat' = [PT!Flat EXCEPT ![<<pde, pte>>] = e]
<1>1. /\ PT!TableFor(pde) = Directory[pde].PageTable
      /\ Directory[pde].Valid = TRUE
      /\ Directory[pde] \in [Valid : BOOLEAN, PageTable : PT!Tables \cup {PT!NoTable}]
  BY Zenon DEF PT!TableFor, TablesInv
<1>2. [Directory[pde] EXCEPT !.PageTable = [Directory[pde].PageTable EXCEPT ![pte] = e]] =
        [Valid |-> TRUE, PageTable |-> [PT!TableFor(pde) EXCEPT ![pte] = e]]
  BY ONLY <1>1, FieldPageTable, Zenon
<1>3. Directory' = [Directory EXCEPT ![pde] =
                      [Valid |-> TRUE, PageTable |-> [PT!TableFor(pde) EXCEPT ![pte] = e]]]
  BY <1>2, Zenon DEF TablesInv
<1> QED
  BY ONLY TablesInv, pde \in DirIndices, pte \in TableIndices, e \in PT!Entry, <1>3, WriteOne, Zenon

(* The entry of a page, looked up in two levels and in the linear table. *)
LEMMA SameEntry ==
  ASSUME TablesInv, NEW pde \in DirIndices, NEW pte \in TableIndices, Directory[pde].Valid
  PROVE  PT!Flat[<<pde, pte>>] = Directory[pde].PageTable[pte] /\ PT!Flat[<<pde, pte>>] \in PT!Entry
BY Zenon DEF PT!Flat, TablesInv, PT!Tables

(* Every operation keeps the second-level tables whole, and does to the     *)
(* linear table what the linear table's operation does.                     *)
LEMMA StepSimulation ==
  ASSUME TablesInv, [PT!Next]_(PT!twoLevelVars)
  PROVE  TablesInv' /\ (PT!Linear!Next \/ <<PT!Flat, result>>' = <<PT!Flat, result>>)
<1>1. CASE UNCHANGED PT!twoLevelVars
  BY <1>1, Zenon DEF PT!twoLevelVars, TablesInv, PT!Flat
<1>2. ASSUME NEW pde \in DirIndices, NEW pte \in TableIndices,
             NEW pfn \in TableFrames, NEW writable \in BOOLEAN, PT!Map(pde, pte, pfn, writable)
      PROVE  TablesInv' /\ PT!Linear!MapPage(<<pde, pte>>, pfn, writable)
  <2>1. TablesInv' /\ PT!Flat' = [PT!Flat EXCEPT ![<<pde, pte>>] = PT!Mapped(pfn, writable)]
    BY <1>2, EntriesAreEntries, WriteOne, ZenonT(30) DEF PT!Map
  <2> QED
    BY <1>2, <2>1, Zenon DEF PT!Map, PT!Linear!MapPage, PT!Linear!Mapped, PT!Mapped
<1>3. ASSUME NEW pde \in DirIndices, NEW pte \in TableIndices, NEW isWrite \in BOOLEAN,
             PT!Translate(pde, pte, isWrite)
      PROVE  TablesInv' /\ PT!Linear!Translate(<<pde, pte>>, isWrite)
  <2> DEFINE entry == PT!Flat[<<pde, pte>>]
  <2>1. CASE ~Directory[pde].Valid
    <3>1. entry = PT!Unmapped /\ PT!Check(entry, isWrite) = "ErrInvalidPage"
      BY <2>1, Zenon DEF PT!Flat, PT!Unmapped, PT!Check
    <3>2. /\ result' = [err |-> "ErrInvalidPage", frame |-> NoFrame]
          /\ Directory' = Directory
      BY <1>3, <2>1, Zenon DEF PT!Translate
    <3>3. TablesInv' /\ PT!Flat' = PT!Flat
      BY <3>2, Zenon DEF TablesInv, PT!Flat
    <3> QED
      BY <3>1, <3>2, <3>3, Zenon DEF PT!Linear!Translate, PT!Linear!Check, PT!Check
  <2>2. CASE Directory[pde].Valid
    <3>1. entry = Directory[pde].PageTable[pte] /\ entry \in PT!Entry
      BY <2>2, SameEntry, Zenon
    <3>2. CASE PT!Check(entry, isWrite) = "none"
      <4>1. /\ result' = [err |-> "none", frame |-> entry.PFN]
            /\ Directory' = [Directory EXCEPT ![pde].PageTable[pte] = PT!Track(entry, isWrite)]
        BY <1>3, <2>2, <3>1, <3>2, Zenon DEF PT!Translate
      <4>2. TablesInv' /\ PT!Flat' = [PT!Flat EXCEPT ![<<pde, pte>>] = PT!Track(entry, isWrite)]
        BY <2>2, <3>1, <4>1, EntriesAreEntries, ChangeInPlace, ZenonT(30)
      <4>3. PT!Linear!Check(entry, isWrite) = "none"
        BY <3>2, Zenon DEF PT!Linear!Check, PT!Check
      <4>4. PT!Linear!Track(entry, isWrite) = PT!Track(entry, isWrite)
        BY Zenon DEF PT!Linear!Track, PT!Track
      <4> QED
        BY <4>1, <4>2, <4>3, <4>4, Zenon DEF PT!Linear!Translate
    <3>3. CASE PT!Check(entry, isWrite) # "none"
      <4>1. /\ result' = [err |-> PT!Check(entry, isWrite), frame |-> NoFrame]
            /\ Directory' = Directory
        BY <1>3, <2>2, <3>1, <3>3, Zenon DEF PT!Translate
      <4>2. TablesInv' /\ PT!Flat' = PT!Flat
        BY <4>1, Zenon DEF TablesInv, PT!Flat
      <4> QED
        BY <3>3, <4>1, <4>2, Zenon DEF PT!Linear!Translate, PT!Linear!Check, PT!Check
    <3> QED
      BY <3>2, <3>3, Zenon
  <2> QED
    BY <2>1, <2>2, Zenon
<1> QED
  BY <1>1, <1>2, <1>3, Zenon DEF PT!Next, PT!Linear!Next

(***************************************************************************)
(* Whatever is mapped and translated, Map and Translate of the two-level   *)
(* table give the answers of a linear table over all pages.                *)
(***************************************************************************)
LEMMA TwoLevelsAreLinear == PT!Spec => PT!ImplementsPageTable
<1>1. PT!Init => TablesInv /\ PT!Linear!Init
  <2> SUFFICES ASSUME PT!Init PROVE TablesInv /\ PT!Linear!Init
    BY Zenon
  <2>1. TablesInv
    BY Zenon DEF PT!Init, TablesInv
  <2>2. PT!Flat = [vpn \in DirIndices \X TableIndices |-> PT!Unmapped]
    BY Zenon DEF PT!Init, PT!Flat
  <2>3. PT!Linear!Unmapped = PT!Unmapped
    BY Zenon DEF PT!Linear!Unmapped, PT!Unmapped
  <2> QED
    BY <2>1, <2>2, <2>3, Zenon DEF PT!Init, PT!Linear!Init
<1>2. TablesInv /\ [PT!Next]_(PT!twoLevelVars) => TablesInv' /\ [PT!Linear!Next]_<<PT!Flat, result>>
  BY StepSimulation, Zenon
<1> QED
  BY <1>1, <1>2, PTL DEF PT!Spec, PT!ImplementsPageTable, PT!Linear!Spec, PT!Linear!tableVars

-----------------------------------------------------------------------------
(* The fields of an entry that is not valid. *)
LEMMA NotValid ==
  \A k, f, n : LET e == [Valid |-> FALSE, key |-> k, PFN |-> f, LastAccess |-> n]
               IN  ~e.Valid /\ e.LastAccess = n
BY Zenon

(* A slot stamped anew, and one made invalid. *)
LEMMA EntryWrites ==
  ASSUME NEW e \in T!Entry, NEW n
  PROVE  /\ [e EXCEPT !.LastAccess = n] =
              [Valid |-> e.Valid, key |-> e.key, PFN |-> e.PFN, LastAccess |-> n]
         /\ [e EXCEPT !.Valid = FALSE] =
              [Valid |-> FALSE, key |-> e.key, PFN |-> e.PFN, LastAccess |-> e.LastAccess]
<1>1. PICK v : v = FALSE
  BY Zenon
<1>2. [e EXCEPT !.LastAccess = n] =
        [Valid |-> e.Valid, key |-> e.key, PFN |-> e.PFN, LastAccess |-> n]
  BY DEF T!Entry
<1>3. [e EXCEPT !.Valid = v] =
        [Valid |-> v, key |-> e.key, PFN |-> e.PFN, LastAccess |-> e.LastAccess]
  BY DEF T!Entry
<1> QED
  BY <1>1, <1>2, <1>3, Zenon

(* The fields of an entry. *)
LEMMA EntryFields ==
  ASSUME NEW e \in T!Entry
  PROVE  e.Valid \in BOOLEAN /\ e.key \in Keys /\ e.PFN \in (0..(NumFrames - 1)) /\ e.LastAccess \in Nat
BY Zenon DEF T!Entry

(* An entry of given fields is one. *)
LEMMA EntryOf ==
  ASSUME NEW v \in BOOLEAN, NEW k \in Keys, NEW f \in (0..(NumFrames - 1)), NEW n \in Nat
  PROVE  [Valid |-> v, key |-> k, PFN |-> f, LastAccess |-> n] \in T!Entry
BY Zenon DEF T!Entry

(* The entry of slot i as the cache sees it. *)
Pair(i) == <<Entries[i].key, Entries[i].PFN>>

(***************************************************************************)
(* The inductive invariant: the valid slots come first, hold different     *)
(* keys and have different ticks, and no tick is ahead of the clock.       *)
(***************************************************************************)
TLBInv ==
  /\ T!TypeOK
  /\ \A i \in T!Slots : Entries[i].LastAccess <= AccessTick
  /\ \A i, j \in T!ValidSlots :
       i # j => Entries[i].key # Entries[j].key /\ Entries[i].LastAccess # Entries[j].LastAccess
  /\ \A i \in T!Slots, j \in T!ValidSlots : i < j => i \in T!ValidSlots

(* Whether the cache is full shows in the slots. *)
Counted ==
  /\ T!ValidSlots = T!Slots => T!LRU!Cardinality(T!Cached) = TLBCapacity
  /\ T!ValidSlots # T!Slots => T!LRU!Cardinality(T!Cached) < TLBCapacity

(* The key of an entry. *)
LEMMA PairKey == \A i : Pair(i)[1] = Entries[i].key
BY Zenon DEF Pair

(* The set of pairs of slots that ByAge is made from. *)
LEMMA PairSet ==
  ASSUME NEW E, NEW V, NEW p
  PROVE  p \in {<<E[q[1]].key, E[q[2]].key>> :
                  q \in {r \in V \X V : E[r[1]].LastAccess < E[r[2]].LastAccess}} <=>
           \E i, j \in V : E[i].LastAccess < E[j].LastAccess /\ p = <<E[i].key, E[j].key>>
<1> DEFINE Pairs == {r \in V \X V : E[r[1]].LastAccess < E[r[2]].LastAccess}
<1>1. ASSUME NEW q \in Pairs
      PROVE  q[1] \in V /\ q[2] \in V /\ E[q[1]].LastAccess < E[q[2]].LastAccess
  BY Zenon
<1>2. ASSUME NEW i \in V, NEW j \in V, E[i].LastAccess < E[j].LastAccess
      PROVE  \E q \in Pairs : q[1] = i /\ q[2] = j
  <2>1. <<i, j>> \in Pairs /\ <<i, j>>[1] = i /\ <<i, j>>[2] = j
    BY <1>2, Zenon
  <2> QED
    BY <2>1, Zenon
<1> HIDE DEF Pairs
<1>3. p \in {<<E[q[1]].key, E[q[2]].key>> : q \in Pairs} <=>
        \E i, j \in V : E[i].LastAccess < E[j].LastAccess /\ p = <<E[i].key, E[j].key>>
  BY <1>1, <1>2
<1> QED
  BY <1>3, Zenon DEF Pairs

(* The ages, pair by pair. *)
LEMMA ByAgePairs ==
  ASSUME NEW p
  PROVE  p \in T!ByAge <=>
           \E i, j \in T!ValidSlots : /\ Entries[i].LastAccess < Entries[j].LastAccess
                                      /\ p = <<Entries[i].key, Entries[j].key>>
BY PairSet DEF T!ByAge

(***************************************************************************)
(* What Lookup and Insert have in common: slot i is written, stamped with  *)
(* the new tick, and the others are what the cache keeps.                  *)
(***************************************************************************)
LEMMA PutRefines ==
  ASSUME T!ConstantsOK, TLBInv, NEW i \in T!Slots, NEW k \in Keys, NEW f \in (0..(NumFrames - 1)),
         AccessTick' = AccessTick + 1, used' = k,
         Entries' = [Entries EXCEPT ![i] =
                       [Valid |-> TRUE, key |-> k, PFN |-> f, LastAccess |-> AccessTick + 1]],
         \A j \in T!ValidSlots : j # i => Entries[j].key # k,
         \A j \in T!Slots : j < i => j \in T!ValidSlots,
         T!LRU!Kept(k) = {Pair(j) : j \in T!ValidSlots \ {i}}
  PROVE  TLBInv' /\ T!LRU!Insert(k, f)
<1>1. /\ Entries \in [T!Slots -> T!Entry] /\ AccessTick \in Nat
      /\ \A j \in T!Slots : Entries[j].LastAccess \in Nat /\ Entries[j].LastAccess <= AccessTick
  BY Zenon DEF TLBInv, T!TypeOK, T!Entry
<1>2. /\ Entries'[i].Valid /\ Entries'[i].key = k /\ Entries'[i].PFN = f
      /\ Entries'[i].LastAccess = AccessTick + 1
      /\ \A j \in T!Slots : j # i => Entries'[j] = Entries[j]
  BY <1>1, Zenon
<1>3. T!ValidSlots' = T!ValidSlots \cup {i}
  BY <1>1, <1>2, Zenon DEF T!ValidSlots
<1>4. T!Slots \subseteq Int
  BY DEF T!Slots
<1>5. T!TypeOK'
  <2>1. [Valid |-> TRUE, key |-> k, PFN |-> f, LastAccess |-> AccessTick + 1] \in T!Entry
    BY <1>1 DEF T!Entry
  <2> QED
    BY <1>1, <2>1 DEF T!TypeOK
<1>6. TLBInv'
  <2>1. \A j \in T!Slots : Entries'[j].LastAccess <= AccessTick'
    BY <1>1, <1>2
  <2>2. ASSUME NEW j \in T!ValidSlots', NEW l \in T!ValidSlots', j # l
        PROVE  Entries'[j].key # Entries'[l].key /\ Entries'[j].LastAccess # Entries'[l].LastAccess
    <3>1. j \in T!Slots /\ l \in T!Slots
      BY Zenon DEF T!ValidSlots
    <3>2. \A m \in T!ValidSlots : m # i => Entries'[m] = Entries[m] /\ Entries[m].LastAccess < AccessTick + 1
      BY <1>1, <1>2 DEF T!ValidSlots
    <3>3. CASE j # i /\ l # i
      BY <1>3, <2>2, <3>2, <3>3, Zenon DEF TLBInv
    <3>4. CASE j = i \/ l = i
      BY <1>1, <1>2, <1>3, <2>2, <3>2, <3>4
    <3> QED
      BY <3>3, <3>4, Zenon
  <2>3. ASSUME NEW j \in T!Slots, NEW l \in T!ValidSlots', j < l
        PROVE  j \in T!ValidSlots'
    BY <1>3, <2>3, Zenon DEF TLBInv
  <2> QED
    BY <1>5, <2>1, <2>2, <2>3, Zenon DEF TLBInv, T!ConstantsOK, T!Slots
<1>7. T!Cached' = T!LRU!Kept(k) \cup {<<k, f>>}
  <2>1. \A j \in T!ValidSlots \ {i} : Pair(j)' = Pair(j)
    BY <1>2, Zenon DEF Pair, T!ValidSlots
  <2>2. Pair(i)' = <<k, f>>
    BY <1>2, Zenon DEF Pair
  <2>3. T!Cached' = {Pair(j)' : j \in (T!ValidSlots \ {i}) \cup {i}}
    BY <1>3, Zenon DEF T!Cached, Pair
  <2> QED
    BY <2>1, <2>2, <2>3, Zenon
<1>8. T!ByAge' = {p \in T!ByAge : \E e, g \in T!LRU!Kept(k) : p = <<e[1], g[1]>>}
                 \cup {<<e[1], k>> : e \in T!LRU!Kept(k)}
  <2> DEFINE rest == T!ValidSlots \ {i}
  <2>1. \A j \in rest : Entries'[j] = Entries[j] /\ Entries[j].LastAccess < AccessTick + 1
    BY <1>1, <1>2 DEF T!ValidSlots
  <2>2. ASSUME NEW p
        PROVE  p \in T!ByAge' <=>
                 \/ \E j, l \in rest : /\ Entries[j].LastAccess < Entries[l].LastAccess
                                       /\ p = <<Entries[j].key, Entries[l].key>>
                 \/ \E j \in rest : p = <<Entries[j].key, k>>
    <3>1. p \in T!ByAge' <=>
            \E j, l \in rest \cup {i} :
               Entries'[j].LastAccess < Entries'[l].LastAccess /\ p = <<Entries'[j].key, Entries'[l].key>>
      <4>1. PICK E, V : E = Entries' /\ V = T!ValidSlots'
        BY Zenon
      <4>2. T!ByAge' = {<<E[q[1]].key, E[q[2]].key>> :
                  q \in {r \in V \X V : E[r[1]].LastAccess < E[r[2]].LastAccess}}
        BY <4>1, Zenon DEF T!ByAge
      <4>3. V = rest \cup {i}
        BY <1>3, <4>1, Zenon
      <4>4. p \in T!ByAge' <=>
              \E j, l \in V : E[j].LastAccess < E[l].LastAccess /\ p = <<E[j].key, E[l].key>>
        BY <4>2, PairSet
      <4> QED
        BY <4>1, <4>3, <4>4, Zenon
    <3>2. \A j \in rest : /\ Entries'[j].LastAccess < Entries'[i].LastAccess
                          /\ ~(Entries'[i].LastAccess < Entries'[j].LastAccess)
      BY <1>1, <1>2, <2>1 DEF T!ValidSlots
    <3>3. ~(Entries'[i].LastAccess < Entries'[i].LastAccess)
      BY <1>1, <1>2
    <3> QED
      BY <1>2, <2>1, <3>1, <3>2, <3>3
  <2>3. ASSUME NEW p
        PROVE  (p \in T!ByAge /\ \E e, g \in T!LRU!Kept(k) : p = <<e[1], g[1]>>) <=>
                 \E j, l \in rest : /\ Entries[j].LastAccess < Entries[l].LastAccess
                                    /\ p = <<Entries[j].key, Entries[l].key>>
    <3>1. (\E e, g \in T!LRU!Kept(k) : p = <<e[1], g[1]>>) <=>
             \E j, l \in rest : p = <<Entries[j].key, Entries[l].key>>
      BY PairKey
    <3>2. ASSUME NEW j \in rest, NEW l \in rest, NEW m \in T!ValidSlots, NEW n \in T!ValidSlots,
                 <<Entries[j].key, Entries[l].key>> = <<Entries[m].key, Entries[n].key>>
          PROVE  j = m /\ l = n
      BY <3>2, Zenon DEF TLBInv
    <3>3. ASSUME p \in T!ByAge, NEW j \in rest, NEW l \in rest,
                 p = <<Entries[j].key, Entries[l].key>>
          PROVE  Entries[j].LastAccess < Entries[l].LastAccess
      <4>1. PICK m, n \in T!ValidSlots : /\ Entries[m].LastAccess < Entries[n].LastAccess
                                         /\ p = <<Entries[m].key, Entries[n].key>>
        BY <3>3, ByAgePairs, Zenon
      <4>2. j = m /\ l = n
        BY <3>2, <3>3, <4>1
      <4> QED
        BY <4>1, <4>2, Zenon
    <3>4. ASSUME NEW j \in rest, NEW l \in rest, Entries[j].LastAccess < Entries[l].LastAccess,
                 p = <<Entries[j].key, Entries[l].key>>
          PROVE  p \in T!ByAge
      BY <3>4, ByAgePairs, Zenon
    <3> HIDE DEF rest
    <3> QED
      BY <3>1, <3>3, <3>4, Zenon
  <2>4. \A p : p \in {<<e[1], k>> : e \in T!LRU!Kept(k)} <=> \E j \in rest : p = <<Entries[j].key, k>>
    BY PairKey
  <2> HIDE DEF rest
  <2> QED
    BY <2>2, <2>3, <2>4
<1> QED
  BY <1>6, <1>7, <1>8, Zenon DEF T!LRU!Insert

(* What the cache keeps, in terms of the slots. *)
LEMMA KeptSlots ==
  ASSUME TLBInv, NEW k, NEW i \in T!Slots,
         \A j \in T!ValidSlots : (/\ Entries[j].key # k
                                  /\ \/ T!LRU!Caches(k) \/ T!LRU!Cardinality(T!Cached) < TLBCapacity
                                     \/ ~T!LRU!Oldest(Entries[j].key)) <=> j # i
  PROVE  T!LRU!Kept(k) = {Pair(j) : j \in T!ValidSlots \ {i}}
<1>1. T!Cached = {Pair(j) : j \in T!ValidSlots}
  BY Zenon DEF T!Cached, Pair
<1>2. T!LRU!Kept(k) =
        {e \in T!Cached : /\ e[1] # k
                          /\ T!LRU!Caches(k) \/ T!LRU!Cardinality(T!Cached) < TLBCapacity \/ ~T!LRU!Oldest(e[1])}
  BY Zenon DEF T!LRU!Kept
<1> QED
  BY <1>1, <1>2, PairKey, Zenon

(* A key is cached when a valid slot holds it. *)
LEMMA CachesSlots == \A k : T!LRU!Caches(k) <=> \E j \in T!ValidSlots : Entries[j].key = k
<1>1. T!Cached = {Pair(j) : j \in T!ValidSlots}
  BY Zenon DEF T!Cached, Pair
<1> QED
  BY <1>1, PairKey, Zenon DEF T!LRU!Caches

(* Lookup of a cached key, and Insert of one, write the slot that holds it. *)
LEMMA ReplaceRefines ==
  ASSUME T!ConstantsOK, TLBInv, NEW i \in T!ValidSlots, NEW k \in Keys, NEW f \in (0..(NumFrames - 1)),
         AccessTick' = AccessTick + 1, used' = k, Entries[i].key = k,
         Entries' = [Entries EXCEPT ![i] =
                       [Valid |-> TRUE, key |-> k, PFN |-> f, LastAccess |-> AccessTick + 1]]
  PROVE  TLBInv' /\ T!LRU!Insert(k, f)
<1>1. i \in T!Slots /\ \A j \in T!Slots : j < i => j \in T!ValidSlots
  BY Zenon DEF TLBInv, T!ValidSlots
<1>2. \A j \in T!ValidSlots : j # i => Entries[j].key # k
  BY Zenon DEF TLBInv
<1>3. T!LRU!Caches(k)
  BY CachesSlots, Zenon
<1>4. T!LRU!Kept(k) = {Pair(j) : j \in T!ValidSlots \ {i}}
  BY <1>1, <1>2, <1>3, KeptSlots
<1> QED
  BY <1>1, <1>2, <1>4, PutRefines, Zenon

(* Insert into a free slot: the cache keeps everything. *)
LEMMA FillRefines ==
  ASSUME T!ConstantsOK, TLBInv, Counted, NEW i \in T!Slots, NEW k \in Keys, NEW f \in (0..(NumFrames - 1)),
         AccessTick' = AccessTick + 1, used' = k, i \notin T!ValidSlots,
         \A j \in T!ValidSlots : Entries[j].key # k,
         \A j \in T!Slots : j < i => j \in T!ValidSlots,
         Entries' = [Entries EXCEPT ![i] =
                       [Valid |-> TRUE, key |-> k, PFN |-> f, LastAccess |-> AccessTick + 1]]
  PROVE  TLBInv' /\ T!LRU!Insert(k, f)
<1>1. T!LRU!Cardinality(T!Cached) < TLBCapacity
  BY Zenon DEF Counted
<1>2. T!LRU!Kept(k) = {Pair(j) : j \in T!ValidSlots \ {i}}
  BY <1>1, KeptSlots, Zenon
<1> QED
  BY <1>2, PutRefines, Zenon

(* Insert into a full cache: the slot with the oldest tick is reused. *)
LEMMA EvictRefines ==
  ASSUME T!ConstantsOK, TLBInv, Counted, NEW i \in T!Slots, NEW k \in Keys, NEW f \in (0..(NumFrames - 1)),
         AccessTick' = AccessTick + 1, used' = k, T!ValidSlots = T!Slots,
         \A j \in T!Slots : Entries[j].key # k,
         \A j \in T!Slots : Entries[i].LastAccess <= Entries[j].LastAccess,
         Entries' = [Entries EXCEPT ![i] =
                       [Valid |-> TRUE, key |-> k, PFN |-> f, LastAccess |-> AccessTick + 1]]
  PROVE  TLBInv' /\ T!LRU!Insert(k, f)
<1>0. \A j \in T!Slots : Entries[j].LastAccess \in Nat
  BY Zenon DEF TLBInv, T!TypeOK, T!Entry
<1>1. ~T!LRU!Caches(k)
  BY CachesSlots, Zenon
<1>2. ~(T!LRU!Cardinality(T!Cached) < TLBCapacity)
  BY DEF Counted, T!ConstantsOK
<1>3. ASSUME NEW j \in T!Slots
      PROVE  T!LRU!Oldest(Entries[j].key) <=> j = i
  <2>1. T!LRU!Oldest(Entries[j].key) <=>
          \A l \in T!Slots : <<Entries[l].key, Entries[j].key>> \notin T!ByAge
    <3>1. T!Cached = {Pair(l) : l \in T!Slots}
      BY Zenon DEF T!Cached, Pair
    <3> QED
      BY <3>1, PairKey, Zenon DEF T!LRU!Oldest
  <2>2. ASSUME NEW l \in T!Slots
        PROVE  <<Entries[l].key, Entries[j].key>> \in T!ByAge
                 <=> Entries[l].LastAccess < Entries[j].LastAccess
    BY ByAgePairs DEF TLBInv
  <2>3. j # i => Entries[i].LastAccess < Entries[j].LastAccess
    BY <1>0 DEF TLBInv
  <2>4. j = i => \A l \in T!Slots : ~(Entries[l].LastAccess < Entries[j].LastAccess)
    BY <1>0
  <2> QED
    BY <2>1, <2>2, <2>3, <2>4, Zenon
<1>4. T!LRU!Kept(k) = {Pair(j) : j \in T!ValidSlots \ {i}}
  BY <1>1, <1>2, <1>3, KeptSlots, Zenon
<1> QED
  BY <1>4, PutRefines, Zenon

(* Every operation is one of the cache's, or changes nothing in it. *)
LEMMA TLBStep ==
  ASSUME T!ConstantsOK, TLBInv, Counted, [T!Next]_(T!vars)
  PROVE  TLBInv' /\ [T!LRU!Next]_<<T!Cached, T!ByAge, used>>
<1>0. /\ Entries \in [T!Slots -> T!Entry] /\ AccessTick \in Nat
      /\ \A i \in T!Slots : /\ Entries[i].Valid \in BOOLEAN /\ Entries[i].key \in Keys
                            /\ Entries[i].PFN \in (0..(NumFrames - 1)) /\ Entries[i].LastAccess \in Nat
  BY Zenon DEF TLBInv, T!TypeOK, T!Entry
<1>1. CASE UNCHANGED T!vars
  BY <1>1, Zenon DEF T!vars, TLBInv, T!TypeOK, T!ValidSlots, T!Cached, T!ByAge
<1>2. ASSUME NEW k \in Keys, T!Lookup(k)
      PROVE  TLBInv' /\ [T!LRU!Next]_<<T!Cached, T!ByAge, used>>
  <2>1. CASE UNCHANGED <<Entries, used>>
    <3>1. \A i \in T!Slots : Entries[i].LastAccess <= AccessTick'
      BY <1>0, <1>2 DEF T!Lookup, TLBInv
    <3> QED
      BY <1>0, <1>2, <2>1, <3>1 DEF T!Lookup, TLBInv, T!TypeOK, T!ValidSlots, T!Cached, T!ByAge
  <2>2. ASSUME NEW i \in T!Slots, T!Matches(i, k), used' = k,
               Entries' = [Entries EXCEPT ![i].LastAccess = AccessTick + 1]
        PROVE  TLBInv' /\ [T!LRU!Next]_<<T!Cached, T!ByAge, used>>
    <3>1. i \in T!ValidSlots /\ Entries[i].key = k
      BY <2>2, Zenon DEF T!ValidSlots, T!Matches
    <3>2. [Entries[i] EXCEPT !.LastAccess = AccessTick + 1] =
            [Valid |-> TRUE, key |-> k, PFN |-> Entries[i].PFN, LastAccess |-> AccessTick + 1]
      <4>1. Entries[i] \in T!Entry /\ Entries[i].Valid
        BY <1>0, <3>1, Zenon DEF T!ValidSlots
      <4>2. Entries[i].Valid = TRUE
        BY <4>1, EntryFields, Zenon
      <4>3. [Entries[i] EXCEPT !.LastAccess = AccessTick + 1] =
              [Valid |-> Entries[i].Valid, key |-> Entries[i].key, PFN |-> Entries[i].PFN,
               LastAccess |-> AccessTick + 1]
        BY <4>1, EntryWrites, Zenon
      <4> QED
        BY <3>1, <4>2, <4>3, Zenon
    <3>3. PICK f \in (0..(NumFrames - 1)) : f = Entries[i].PFN
      BY <1>0, Zenon
    <3>4. Entries' = [Entries EXCEPT ![i] =
             [Valid |-> TRUE, key |-> k, PFN |-> f, LastAccess |-> AccessTick + 1]]
      BY <2>2, <3>2, <3>3, Zenon
    <3>5. TLBInv' /\ T!LRU!Insert(k, f)
      <4>1. AccessTick' = AccessTick + 1
        BY <1>2, Zenon DEF T!Lookup
      <4> QED
        BY <2>2, <3>1, <3>4, <4>1, ReplaceRefines, Zenon
    <3>6. <<k, f>> \in T!Cached
      BY <3>1, <3>3, Zenon DEF T!Cached
    <3> QED
      BY <3>5, <3>6, Zenon DEF T!LRU!Next, T!LRU!Hit
  <2> QED
    BY <1>2, <2>1, <2>2, Zenon DEF T!Lookup, T!First
<1>3. ASSUME NEW k \in Keys, NEW f \in (0..(NumFrames - 1)), T!Insert(k, f)
      PROVE  TLBInv' /\ T!LRU!Insert(k, f)
  <2>1. PICK i \in T!Slots :
          /\ T!InsertSlot(k, i)
          /\ Entries' = [Entries EXCEPT ![i] =
                           [Valid |-> TRUE, key |-> k, PFN |-> f, LastAccess |-> AccessTick + 1]]
    BY <1>3, Zenon DEF T!Insert
  <2>2. AccessTick' = AccessTick + 1 /\ used' = k
    BY <1>3, Zenon DEF T!Insert
  <2> DEFINE stop == {j \in T!Slots : ~Entries[j].Valid \/ T!Matches(j, k)}
  <2>3. CASE stop # {}
    <3>1. i \in stop /\ \A j \in stop : i <= j
      BY <2>1, <2>3, Zenon DEF T!InsertSlot, T!First
    <3>2. \A j \in T!Slots : j < i => j \in T!ValidSlots /\ Entries[j].key # k
      <4>1. T!Slots \subseteq Int
        BY DEF T!Slots
      <4> QED
        BY <3>1, <4>1 DEF T!Matches, T!ValidSlots
    <3>3. CASE Entries[i].Valid
      <4>1. i \in T!ValidSlots /\ Entries[i].key = k
        BY <3>1, <3>3, Zenon DEF T!Matches, T!ValidSlots
      <4> QED
        BY <2>1, <2>2, <4>1, ReplaceRefines, Zenon
    <3>4. CASE ~Entries[i].Valid
      <4>1. i \notin T!ValidSlots
        BY <3>4, Zenon DEF T!ValidSlots
      <4>2. \A j \in T!ValidSlots : j < i
        <5>1. T!Slots \subseteq Int /\ T!ValidSlots \subseteq T!Slots
          BY DEF T!Slots, T!ValidSlots
        <5> QED
          BY <4>1, <5>1 DEF TLBInv
      <4>3. \A j \in T!ValidSlots : Entries[j].key # k
        BY <3>2, <4>2, Zenon DEF T!ValidSlots
      <4> QED
        BY <2>1, <2>2, <3>2, <4>1, <4>3, FillRefines, Zenon
    <3> QED
      BY <3>3, <3>4, Zenon
  <2>4. CASE stop = {}
    <3>1. \A j \in T!Slots : Entries[i].LastAccess <= Entries[j].LastAccess
      BY <2>1, <2>4, Zenon DEF T!InsertSlot, T!First
    <3>2. T!ValidSlots = T!Slots /\ \A j \in T!Slots : Entries[j].key # k
      BY <2>4, Zenon DEF T!ValidSlots, T!Matches
    <3> QED
      BY <2>1, <2>2, <3>1, <3>2, EvictRefines, Zenon
  <2> QED
    BY <2>3, <2>4, Zenon
<1>4. CASE T!Flush
  <2>1. \A i \in T!Slots : Entries'[i] = [Valid |-> FALSE, key |-> Entries[i].key, PFN |-> Entries[i].PFN,
                                        LastAccess |-> Entries[i].LastAccess]
    BY <1>0, <1>4, EntryWrites, Zenon DEF T!Flush
  <2>2. T!ValidSlots' = {}
    <3>1. \A i \in T!Slots : ~Entries'[i].Valid
      BY <2>1, NotValid, Zenon
    <3> QED
      BY <3>1, Zenon DEF T!ValidSlots
  <2>3. T!Cached' = {} /\ T!ByAge' = {}
    BY <2>2, Zenon DEF T!Cached, T!ByAge
  <2>4. Entries' \in [T!Slots -> T!Entry]
    <3>1. \A i \in T!Slots : Entries'[i] \in T!Entry
      BY <1>0, <2>1, EntryFields, EntryOf, Zenon
    <3> QED
      BY <1>4, <3>1, Zenon DEF T!Flush
  <2>5. TLBInv'
    <3>1. \A i \in T!Slots : Entries'[i].LastAccess <= AccessTick'
      BY <1>0, <1>4, <2>1, ZenonT(30) DEF T!Flush, TLBInv
    <3> QED
      BY <1>4, <2>2, <2>4, <3>1, Zenon DEF T!Flush, TLBInv, T!TypeOK
  <2> QED
    BY <1>4, <2>3, <2>5, Zenon DEF T!Flush, T!LRU!Next, T!LRU!Flush
<1> QED
  BY <1>1, <1>2, <1>3, <1>4, Zenon DEF T!Next, T!LRU!Next

(* The library's facts about finite sets. *)
PagingSets == INSTANCE FiniteSetTheorems

(* FiniteSets as the cache sees it. *)
LEMMA CacheSets ==
  \A S : PagingSets!Cardinality(S) = T!LRU!Cardinality(S) /\ (PagingSets!IsFiniteSet(S) <=> T!LRU!IsFiniteSet(S))
BY Zenon DEF PagingSets!Cardinality, T!LRU!Cardinality, PagingSets!IsFiniteSet, T!LRU!IsFiniteSet

(* The cache is full exactly when every slot is valid. *)
LEMMA CachedCount ==
  ASSUME T!ConstantsOK, TLBInv
  PROVE  Counted
<1> DEFINE f == [i \in T!ValidSlots |-> Pair(i)]
<1>1. f \in PagingSets!Surjection(T!ValidSlots, T!Cached)
  BY Zenon DEF PagingSets!Surjection, T!Cached, Pair
<1>2. f \in PagingSets!Injection(T!ValidSlots, T!Cached)
  <2>1. f \in [T!ValidSlots -> T!Cached]
    BY Zenon DEF T!Cached, Pair
  <2>2. \A i, j \in T!ValidSlots : Pair(i) = Pair(j) => i = j
    BY Zenon DEF TLBInv, Pair
  <2>3. PagingSets!IsInjective(f)
    BY <2>2, Zenon DEF PagingSets!IsInjective
  <2> QED
    BY <2>1, <2>3, Zenon DEF PagingSets!Injection
<1>3. PagingSets!IsFiniteSet(T!Slots) /\ PagingSets!Cardinality(T!Slots) = TLBCapacity
  <2>1. TLBCapacity \in Nat
    BY Zenon DEF T!ConstantsOK
  <2> QED
    BY <2>1, PagingSets!FS_Interval DEF T!Slots
<1>4. T!ValidSlots \subseteq T!Slots
  BY Zenon DEF T!ValidSlots
<1>5. /\ PagingSets!IsFiniteSet(T!ValidSlots) /\ PagingSets!Cardinality(T!ValidSlots) <= TLBCapacity
      /\ PagingSets!Cardinality(T!ValidSlots) = TLBCapacity => T!ValidSlots = T!Slots
      /\ PagingSets!Cardinality(T!ValidSlots) \in Nat
  BY <1>3, <1>4, PagingSets!FS_Subset, PagingSets!FS_CardinalityType, Zenon
<1>6. PagingSets!Cardinality(T!Cached) = PagingSets!Cardinality(T!ValidSlots)
  BY <1>1, <1>2, <1>5, PagingSets!FS_Surjection, Zenon
<1> QED
  BY <1>3, <1>5, <1>6, CacheSets DEF T!ConstantsOK, Counted

(***************************************************************************)
(* For any capacity, the slots with their access ticks and valid bits are  *)
(* the least-recently-used cache that demand paging takes the TLB to be.   *)
(***************************************************************************)
THEOREM SlotsAreLRU == T!Spec => []T!TypeOK /\ T!ImplementsLRUCache
<1> USE PagingAssumption
<1>1. T!Init => TLBInv /\ T!LRU!Init
  <2> SUFFICES ASSUME T!Init PROVE TLBInv /\ T!LRU!Init
    BY Zenon
  <2>1. \A i \in T!Slots : Entries[i] = [Valid |-> FALSE, key |-> CHOOSE k \in Keys : TRUE,
                                 PFN |-> CHOOSE f \in (0..(NumFrames - 1)) : TRUE, LastAccess |-> 0]
    BY Zenon DEF T!Init
  <2>2. \A i \in T!Slots : Entries[i] \in T!Entry /\ ~Entries[i].Valid /\ Entries[i].LastAccess = 0
    <3>1. (CHOOSE k \in Keys : TRUE) \in Keys /\ (CHOOSE f \in (0..(NumFrames - 1)) : TRUE) \in (0..(NumFrames - 1))
      BY Zenon DEF T!ConstantsOK
    <3>2. \A i \in T!Slots : Entries[i] \in T!Entry
      BY <2>1, <3>1, EntryOf, Zenon
    <3>3. ASSUME NEW i \in T!Slots PROVE ~Entries[i].Valid /\ Entries[i].LastAccess = 0
      <4>1. PICK k, f : Entries[i] = [Valid |-> FALSE, key |-> k, PFN |-> f, LastAccess |-> 0]
        BY <2>1, Zenon
      <4>2. ~[Valid |-> FALSE, key |-> k, PFN |-> f, LastAccess |-> 0].Valid
        BY NotValid, Zenon
      <4>3. [Valid |-> FALSE, key |-> k, PFN |-> f, LastAccess |-> 0].LastAccess = 0
        BY NotValid, Zenon
      <4> QED
        BY <4>1, <4>2, <4>3, Zenon
    <3> QED
      BY <3>2, <3>3, Zenon
  <2>3. T!ValidSlots = {}
    BY <2>2, Zenon DEF T!ValidSlots
  <2>4. T!Cached = {} /\ T!ByAge = {}
    BY <2>3, Zenon DEF T!Cached, T!ByAge
  <2>5. TLBInv
    <3>1. Entries \in [T!Slots -> T!Entry]
      BY <2>2, Zenon DEF T!Init
    <3>2. AccessTick = 0 /\ used = NoPage
      BY Zenon DEF T!Init
    <3> QED
      BY <2>2, <2>3, <3>1, <3>2, SMT DEF TLBInv, T!TypeOK
  <2> QED
    BY <2>4, <2>5, Zenon DEF T!Init, T!LRU!Init
<1>2. TLBInv /\ [T!Next]_(T!vars) => TLBInv' /\ [T!LRU!Next]_<<T!Cached, T!ByAge, used>>
  BY TLBStep, CachedCount, Zenon
<1>3. TLBInv => T!TypeOK
  BY Zenon DEF TLBInv
<1> QED
  BY <1>1, <1>2, <1>3, PTL DEF T!Spec, T!ImplementsLRUCache, T!LRU!Spec, T!LRU!cacheVars

-----------------------------------------------------------------------------
(* FiniteSets as the page table sees it. *)
LEMMA TableSets ==
  \A S : PagingSets!Cardinality(S) = PT!Cardinality(S) /\ (PagingSets!IsFiniteSet(S) <=> PT!IsFiniteSet(S))
BY Zenon DEF PagingSets!Cardinality, PT!Cardinality, PagingSets!IsFiniteSet, PT!IsFiniteSet

ValidEntries == {pde \in DirIndices : Directory[pde].Valid}

CountInv == TablesInv /\ PT!TypeOK /\ AllocatedPTs = PT!Cardinality(ValidEntries)

(* Setting an entry of a table in place makes no other directory entry      *)
(* valid.                                                                   *)
LEMMA ValidInPlace ==
  ASSUME TablesInv, NEW pde \in DirIndices, NEW pte \in TableIndices, NEW e,
         Directory' = [Directory EXCEPT ![pde].PageTable[pte] = e]
  PROVE  ValidEntries' = ValidEntries
<1>1. Directory[pde] \in [Valid : BOOLEAN, PageTable : PT!Tables \cup {PT!NoTable}]
  BY Zenon DEF TablesInv
<1>2. [Directory[pde] EXCEPT !.PageTable = [Directory[pde].PageTable EXCEPT ![pte] = e]] =
        [Valid |-> Directory[pde].Valid,
         PageTable |-> [Directory[pde].PageTable EXCEPT ![pte] = e]]
  BY ONLY <1>1, FieldPageTable, Zenon
<1>3. Directory' = [Directory EXCEPT ![pde] =
                      [Valid |-> Directory[pde].Valid,
                       PageTable |-> [Directory[pde].PageTable EXCEPT ![pte] = e]]]
  BY <1>2, Zenon DEF TablesInv
<1> QED
  BY <1>3 DEF ValidEntries, TablesInv

(* What an entry of a valid table holds is a frame, or none. *)
LEMMA EntryFrame ==
  ASSUME TablesInv, NEW pde \in DirIndices, NEW pte \in TableIndices, Directory[pde].Valid
  PROVE  Directory[pde].PageTable[pte].PFN \in TableFrames \cup {NoFrame}
BY SameEntry, Zenon DEF PT!Entry

(* Every operation keeps the count. *)
LEMMA CountStep == ASSUME PT!ConstantsOK, CountInv, [PT!Next]_(PT!twoLevelVars) PROVE CountInv'
<1>0. TablesInv /\ TablesInv' /\ PT!TypeOK
  BY StepSimulation, Zenon DEF CountInv
<1>1. PT!IsFiniteSet(ValidEntries) /\ PT!Cardinality(ValidEntries) \in Nat
  BY PagingSets!FS_Subset, PagingSets!FS_CardinalityType, TableSets, Zenon DEF PT!ConstantsOK, ValidEntries
<1>2. CASE UNCHANGED PT!twoLevelVars
  BY <1>0, <1>2, Zenon DEF PT!twoLevelVars, CountInv, PT!TypeOK, ValidEntries
<1>3. ASSUME NEW pde \in DirIndices, NEW pte \in TableIndices,
             NEW pfn \in TableFrames, NEW writable \in BOOLEAN, PT!Map(pde, pte, pfn, writable)
      PROVE  CountInv'
  <2>1. ValidEntries' = ValidEntries \cup {pde}
    BY <1>0, <1>3, Zenon DEF PT!Map, ValidEntries, TablesInv
  <2>2. AllocatedPTs' = PT!Cardinality(ValidEntries')
    <3>1. CASE Directory[pde].Valid
      <4>1. ValidEntries' = ValidEntries
        BY <2>1, <3>1, Zenon DEF ValidEntries
      <4> QED
        BY <1>3, <3>1, <4>1, Zenon DEF PT!Map, CountInv
    <3>2. CASE ~Directory[pde].Valid
      <4>1. pde \notin ValidEntries
        BY <3>2, Zenon DEF ValidEntries
      <4>2. PT!Cardinality(ValidEntries \cup {pde}) = PT!Cardinality(ValidEntries) + 1
        BY <1>1, <4>1, PagingSets!FS_AddElement, TableSets, Zenon
      <4> QED
        BY <1>3, <2>1, <3>2, <4>2, Zenon DEF PT!Map, CountInv
    <3> QED
      BY <3>1, <3>2, Zenon
  <2>3. AllocatedPTs' \in Nat /\ result' = result
    BY <1>3 DEF PT!Map, CountInv, PT!TypeOK
  <2> QED
    BY <1>0, <2>2, <2>3, Zenon DEF CountInv, PT!TypeOK, TablesInv
<1>4. ASSUME NEW pde \in DirIndices, NEW pte \in TableIndices, NEW isWrite \in BOOLEAN,
             PT!Translate(pde, pte, isWrite)
      PROVE  CountInv'
  <2> DEFINE err == IF Directory[pde].Valid THEN PT!Check(Directory[pde].PageTable[pte], isWrite)
                    ELSE "ErrInvalidPage"
  <2>1. err \in PT!Faults /\ (err = "none" => Directory[pde].Valid)
    BY Zenon DEF PT!Check, PT!Faults
  <2>2. /\ \/ Directory' = Directory
           \/ Directory' = [Directory EXCEPT ![pde].PageTable[pte] =
                              PT!Track(Directory[pde].PageTable[pte], isWrite)]
        /\ result' = [err |-> err, frame |-> IF err = "none"
                                             THEN Directory[pde].PageTable[pte].PFN ELSE NoFrame]
        /\ AllocatedPTs' = AllocatedPTs
    BY <1>4, Zenon DEF PT!Translate
  <2>3. ValidEntries' = ValidEntries
    <3>1. CASE Directory' = Directory
      BY <3>1, Zenon DEF ValidEntries
    <3> QED
      BY <1>0, <2>2, <3>1, ValidInPlace, Zenon
  <2>4. result' \in [err : PT!Faults, frame : TableFrames \cup {NoFrame}]
    <3>1. PICK frame : frame = IF err = "none" THEN Directory[pde].PageTable[pte].PFN ELSE NoFrame
      BY Zenon
    <3>2. frame \in TableFrames \cup {NoFrame}
      BY <1>0, <2>1, <3>1, EntryFrame, Zenon
    <3>3. PICK e : e = err
      BY Zenon
    <3>4. result' = [err |-> e, frame |-> frame] /\ e \in PT!Faults
      BY <2>1, <2>2, <3>1, <3>3, Zenon
    <3> QED
      BY <3>2, <3>4, Zenon
  <2> QED
    BY <1>0, <2>2, <2>3, <2>4, Zenon DEF CountInv, PT!TypeOK, TablesInv
<1> QED
  BY <1>2, <1>3, <1>4, Zenon DEF PT!Next

(* A second-level table was counted for each valid directory entry. *)
LEMMA TablesAreCounted == ASSUME PT!ConstantsOK PROVE PT!Spec => [](PT!TypeOK /\ PT!TablesCounted)
<1>1. PT!Init => CountInv
  <2> SUFFICES ASSUME PT!Init PROVE CountInv
    BY Zenon
  <2>1. TablesInv /\ ValidEntries = {}
    BY Zenon DEF PT!Init, TablesInv, ValidEntries
  <2>2. PT!Cardinality(ValidEntries) = 0
    BY <2>1, PagingSets!FS_EmptySet, TableSets, Zenon
  <2>3. result \in [err : PT!Faults, frame : TableFrames \cup {NoFrame}] /\ AllocatedPTs = 0
    BY Zenon DEF PT!Init, PT!Faults
  <2> QED
    BY <2>1, <2>2, <2>3, Zenon DEF CountInv, PT!TypeOK, TablesInv
<1>2. CountInv /\ [PT!Next]_(PT!twoLevelVars) => CountInv'
  BY CountStep, Zenon
<1>3. CountInv => PT!TypeOK /\ PT!TablesCounted
  BY Zenon DEF CountInv, PT!TablesCounted, ValidEntries
<1> QED
  BY <1>1, <1>2, <1>3, PTL DEF PT!Spec

(***************************************************************************)
(* The slots of the TLB, with their ticks and valid bits, behave as the    *)
(* cache that demand paging is modelled with.                              *)
(***************************************************************************)
THEOREM TLBImplementsLRUCache == T!Spec => ImplementsLRUCache
<1>1. T!Spec => T!LRU!Init /\ [][T!LRU!Next]_(T!LRU!cacheVars)
  BY SlotsAreLRU, Zenon DEF T!ImplementsLRUCache, T!LRU!Spec
<1>2. [T!LRU!Next]_(T!LRU!cacheVars) => [UNCHANGED tlbVars \/ [T!LRU!Next]_(T!LRU!cacheVars)]_tlbVars
  BY Zenon
<1> QED
  BY <1>1, <1>2, PTL DEF ImplementsLRUCache

(***************************************************************************)
(* Whatever is mapped and translated, the two levels give the answers of a *)
(* linear table over all pages, and AllocatedPTs is the number of          *)
(* second-level tables.                                                    *)
(***************************************************************************)
THEOREM TwoLevelsImplementLinear == PT!Spec => TwoLevelIsLinear
<1>1. PT!Spec => [](PT!TypeOK /\ PT!TablesCounted)
  BY PagingAssumption, TablesAreCounted, Zenon
<1>2. PT!Spec => PT!Linear!Init /\ [][PT!Linear!Next]_(PT!Linear!tableVars)
  BY TwoLevelsAreLinear, Zenon DEF PT!ImplementsPageTable, PT!Linear!Spec
<1>3. [PT!Linear!Next]_(PT!Linear!tableVars) =>
        [UNCHANGED ptVars \/ [PT!Linear!Next]_(PT!Linear!tableVars)]_ptVars
  BY Zenon
<1> QED
  BY <1>1, <1>2, <1>3, PTL DEF TwoLevelIsLinear

(* The clock's hand, FIFO and LRU alike spare the page that was brought in  *)
(* or used last.                                                            *)
THEOREM NewestIsSpared == Mem!Spec => EvictionSparesNewest
BY PagingIsCorrect, PTL

=============================================================================
