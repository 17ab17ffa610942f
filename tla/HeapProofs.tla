----------------------------- MODULE HeapProofs -----------------------------
(***************************************************************************)
(* Module MCHeap for any values of the constants: the address space, the   *)
(* call stack, the free list and the buddy system.                         *)
(***************************************************************************)
EXTENDS MCHeap, BasicLemmas

(* The heap's segment ends at the break. *)
BreakInv ==
  /\ HeapBreak \in HeapStart..(AS!StackPtr - 1)
  /\ heapLimit = HeapBreak - HeapStart
  /\ sbrk \in {"none", "below", "collision", "ok"}

(* Sbrk moves the break to where it leaves the invariant, or not at all. *)
LEMMA SbrkStep ==
  ASSUME AS!ConstantsOK, BreakInv, NEW increment \in -MaxIncrement..MaxIncrement, AS!Sbrk(increment)
  PROVE  BreakInv'
<1> DEFINE newBreak == (HeapBreak + increment) % Modulus
<1>1. newBreak \in Nat
  BY DEF AS!ConstantsOK, BreakInv, AS!StackPtr
<1>2. \/ sbrk' \in {"below", "collision"} /\ UNCHANGED <<HeapBreak, heapLimit>>
      \/ /\ ~(newBreak < HeapStart) /\ ~(newBreak >= AS!StackPtr)
         /\ sbrk' = "ok" /\ HeapBreak' = newBreak /\ heapLimit' = newBreak - HeapStart
  BY <1>1 DEF AS!Sbrk, AS!MeetsStack, AS!ConstantsOK
<1> QED
  BY <1>1, <1>2 DEF BreakInv, AS!StackPtr, AS!ConstantsOK

(* The invariant is all that HeapBounded says. *)
LEMMA BreakBounds ==
  ASSUME AS!ConstantsOK, BreakInv
  PROVE  AS!TypeOK /\ AS!HeapBounded
BY DEF AS!ConstantsOK, BreakInv, AS!TypeOK, AS!HeapBounded, AS!StackPtr, AS!SegmentationFault,
       AS!TranslateBaseAndBounds, AS!HeapBase

(* The break stays within the heap, and the segment's limit follows it. *)
LEMMA BreakWithinHeap == ASSUME AS!ConstantsOK PROVE AS!Spec => [](AS!TypeOK /\ AS!HeapBounded)
<1>1. AS!Init => BreakInv
  BY DEF AS!Init, BreakInv, AS!ConstantsOK, AS!StackPtr
<1>2. BreakInv /\ [AS!Next]_(AS!asVars) => BreakInv'
  <2> SUFFICES ASSUME BreakInv, [AS!Next]_(AS!asVars) PROVE BreakInv'
    BY Zenon
  <2>1. CASE UNCHANGED AS!asVars
    BY <2>1, Zenon DEF AS!asVars, BreakInv, AS!StackPtr
  <2> QED
    BY <2>1, SbrkStep, Zenon DEF AS!Next
<1>3. BreakInv => AS!TypeOK /\ AS!HeapBounded
  BY BreakBounds, Zenon
<1> QED
  BY <1>1, <1>2, <1>3, PTL DEF AS!Spec

-----------------------------------------------------------------------------
(* FramesNest bounds how far below the base a frame is.  That it is below   *)
(* the base at all is what keeps the unsigned differences from wrapping.    *)
StackInv ==
  /\ Stack!TypeOK /\ Stack!FramesNest
  /\ \A i \in 1..Len(stackFrames) : stackFrames[i].StackPointer <= StackBase

(* PushFrame refuses a frame that is larger than the stack pointer, and     *)
(* otherwise subtracts without a wrap.                                      *)
LEMMA NoWrap ==
  ASSUME Stack!ConstantsOK, NEW sp \in 0..StackBase, NEW size \in 0..Modulus-1,
         ~(Stack!Minus(sp, size) > sp), Stack!Minus(StackBase, Stack!Minus(sp, size)) <= StackSize
  PROVE  /\ Stack!Minus(sp, size) = sp - size
         /\ Stack!Minus(sp, size) \in 0..sp
         /\ StackBase - Stack!Minus(sp, size) <= StackSize
BY DEF Stack!ConstantsOK, Stack!Minus

(* The stack pointer is between 0 and the base. *)
LEMMA PointerBelowBase ==
  ASSUME Stack!ConstantsOK, StackInv
  PROVE  CurrentSP \in 0..StackBase
BY LengthOfSeq DEF Stack!ConstantsOK, StackInv, Stack!TypeOK, Stack!FramesNest, Stack!SPAt, Stack!Address

(* A call puts its frame right below its caller's. *)
LEMMA PushKeepsNesting ==
  ASSUME Stack!ConstantsOK, StackInv, NEW size \in FrameSizes, Stack!PushFrame(size)
  PROVE  StackInv'
<1>0. PICK n \in Nat : n = Len(stackFrames)
  BY LengthOfSeq, Zenon DEF StackInv, Stack!TypeOK
<1> DEFINE newSP == Stack!Minus(CurrentSP, size)
           frame == [FramePointer |-> CurrentBP, StackPointer |-> newSP, FrameSizeBytes |-> size]
<1>1. /\ newSP = CurrentSP - size /\ newSP \in 0..CurrentSP
      /\ StackBase - newSP <= StackSize
      /\ CurrentSP \in 0..StackBase /\ size \in Stack!Address
  BY NoWrap, PointerBelowBase, Zenon DEF Stack!PushFrame, Stack!WithinStack, Stack!ConstantsOK, Stack!Address
<1>2. frame \in Stack!StackFrame
  BY <1>1 DEF Stack!StackFrame, StackInv, Stack!TypeOK, Stack!Address, Stack!ConstantsOK
<1>3. /\ n < MaxDepth
      /\ stackFrames' \in Seq(Stack!StackFrame) /\ Len(stackFrames') = n + 1
      /\ \A i \in 1..n : stackFrames'[i] = stackFrames[i]
      /\ stackFrames'[n + 1] = frame
  BY <1>0, <1>2, AppendTo DEF Stack!PushFrame, StackInv, Stack!TypeOK
<1>4. CurrentBP' = CurrentSP /\ CurrentSP' = newSP
  BY Zenon DEF Stack!PushFrame
<1>5. Stack!TypeOK'
  BY <1>1, <1>3, <1>4 DEF StackInv, Stack!TypeOK, Stack!Address, Stack!ConstantsOK
<1>6. /\ \A i \in 0..n : Stack!SPAt(i)' = Stack!SPAt(i) /\ Stack!BPAt(i)' = Stack!BPAt(i)
      /\ Stack!SPAt(n + 1)' = newSP /\ Stack!BPAt(n + 1)' = CurrentSP
  <2>1. \A i \in 0..n : Stack!SPAt(i)' = Stack!SPAt(i)
    BY <1>3 DEF Stack!SPAt
  <2>2. Stack!SPAt(n + 1)' = newSP
    BY <1>3 DEF Stack!SPAt
  <2>3. Stack!SPAt(n) = CurrentSP
    BY <1>0, Zenon DEF StackInv, Stack!FramesNest
  <2> QED
    BY <1>3, <2>1, <2>2, <2>3 DEF Stack!BPAt
<1>7. Stack!FramesNest'
  <2>1. ASSUME NEW i \in 1..(n + 1)
        PROVE  /\ Stack!SPAt(i)' + stackFrames'[i].FrameSizeBytes = Stack!SPAt(i - 1)'
               /\ stackFrames'[i].FramePointer = Stack!BPAt(i - 1)'
               /\ StackBase - Stack!SPAt(i)' <= StackSize
    <3>1. CASE i \in 1..n
      BY <1>0, <1>3, <1>6, <3>1 DEF StackInv, Stack!FramesNest
    <3>2. CASE i = n + 1
      BY <1>0, <1>1, <1>3, <1>6, <3>2 DEF StackInv, Stack!FramesNest, Stack!ConstantsOK
    <3> QED
      BY <1>3, <3>1, <3>2
  <2> QED
    BY <1>0, <1>3, <1>4, <1>6, <2>1 DEF Stack!FramesNest, Stack!ConstantsOK
<1>8. \A i \in 1..Len(stackFrames') : stackFrames'[i].StackPointer <= StackBase
  BY <1>0, <1>1, <1>3 DEF StackInv, Stack!ConstantsOK
<1> QED
  BY <1>5, <1>7, <1>8, Zenon DEF StackInv

(* A return gives back exactly the innermost frame. *)
LEMMA PopKeepsNesting ==
  ASSUME Stack!ConstantsOK, StackInv, Stack!PopFrame
  PROVE  StackInv'
<1>0. PICK n \in Nat \ {0} : n = Len(stackFrames)
  BY LengthOfSeq, EmptyList, Zenon DEF Stack!PopFrame, StackInv, Stack!TypeOK
<1>1. /\ stackFrames' \in Seq(Stack!StackFrame) /\ Len(stackFrames') = n - 1
      /\ \A i \in 1..(n - 1) : stackFrames'[i] = stackFrames[i]
      /\ stackFrames[n] \in Stack!StackFrame
  <2>1. stackFrames' = SubSeq(stackFrames, 1, n - 1)
    BY <1>0, Zenon DEF Stack!PopFrame
  <2>2. stackFrames[n] \in Stack!StackFrame
    BY <1>0, ElementIn DEF StackInv, Stack!TypeOK
  <2> QED
    BY <1>0, <2>1, <2>2, PartOf DEF StackInv, Stack!TypeOK
<1>2. \A i \in 0..(n - 1) : Stack!SPAt(i)' = Stack!SPAt(i) /\ Stack!SPAt(i) \in Stack!Address
  <2> SUFFICES ASSUME NEW i \in 0..(n - 1)
               PROVE  Stack!SPAt(i)' = Stack!SPAt(i) /\ Stack!SPAt(i) \in Stack!Address
    BY Zenon
  <2>1. CASE i = 0
    BY <2>1, Zenon DEF Stack!SPAt, Stack!Address, Stack!ConstantsOK
  <2>2. CASE i # 0
    <3>1. i \in 1..(n - 1) /\ stackFrames[i] \in Stack!StackFrame
      BY <1>0, <2>2, ElementIn DEF StackInv, Stack!TypeOK
    <3>2. stackFrames'[i] = stackFrames[i] /\ stackFrames[i].StackPointer \in Stack!Address
      BY <1>1, <3>1, Zenon DEF Stack!StackFrame
    <3> QED
      BY <2>2, <3>2, Zenon DEF Stack!SPAt
  <2> QED
    BY <2>1, <2>2, Zenon
<1>3. \A i \in 0..(n - 1) : Stack!BPAt(i)' = Stack!BPAt(i) /\ Stack!BPAt(i) \in Stack!Address
  BY <1>1, <1>2 DEF Stack!BPAt, Stack!Address, Stack!ConstantsOK
<1>4. /\ CurrentSP + stackFrames[n].FrameSizeBytes = Stack!SPAt(n - 1)
      /\ stackFrames[n].FramePointer = Stack!BPAt(n - 1)
  BY <1>0, <1>1 DEF StackInv, Stack!FramesNest
<1>5. CurrentSP' = Stack!SPAt(n - 1) /\ CurrentBP' = Stack!BPAt(n - 1)
  BY <1>0, <1>1, <1>2, <1>4 DEF Stack!PopFrame, Stack!Plus, Stack!Address, Stack!ConstantsOK
<1>6. Stack!TypeOK'
  BY <1>1, <1>2, <1>3, <1>5 DEF Stack!TypeOK
<1>7. Stack!FramesNest'
  BY <1>0, <1>1, <1>2, <1>3, <1>5 DEF StackInv, Stack!FramesNest, Stack!ConstantsOK
<1> QED
  BY <1>0, <1>1, <1>6, <1>7 DEF StackInv

(***************************************************************************)
(* However calls and returns alternate, frames tile the used part of the   *)
(* stack, save their callers' base pointers and stay within the stack.     *)
(***************************************************************************)
LEMMA FramesAlwaysNest ==
  ASSUME Stack!ConstantsOK
  PROVE  Stack!Spec => [](Stack!TypeOK /\ Stack!FramesNest)
<1>1. Stack!Init => StackInv
  BY DEF Stack!Init, StackInv, Stack!TypeOK, Stack!FramesNest, Stack!SPAt, Stack!BPAt, Stack!Address, Stack!ConstantsOK
<1>2. StackInv /\ [Stack!Next]_(Stack!stackVars) => StackInv'
  <2> SUFFICES ASSUME StackInv, [Stack!Next]_(Stack!stackVars) PROVE StackInv'
    BY Zenon
  <2>1. CASE UNCHANGED Stack!stackVars
    BY <2>1, Zenon DEF Stack!stackVars, StackInv, Stack!TypeOK, Stack!FramesNest, Stack!SPAt, Stack!BPAt
  <2> QED
    BY <2>1, PushKeepsNesting, PopKeepsNesting, Zenon DEF Stack!Next
<1>3. StackInv => Stack!TypeOK /\ Stack!FramesNest
  BY Zenon DEF StackInv
<1> QED
  BY <1>1, <1>2, <1>3, PTL DEF Stack!Spec

-----------------------------------------------------------------------------
(***************************************************************************)
(* A doubly linked list of blocks that tiles the heap, given by the sizes  *)
(* and the two links.                                                      *)
(***************************************************************************)
Tiles(s, n, p) ==
  /\ DOMAIN s \subseteq HeapStart..List!HeapEnd-1 /\ HeapStart \in DOMAIN s
  /\ s \in [DOMAIN s -> 1..HeapSize]
  /\ n \in [DOMAIN s -> DOMAIN s \cup {NoBlock}] /\ p \in [DOMAIN s -> DOMAIN s \cup {NoBlock}]
  /\ p[HeapStart] = NoBlock
  /\ \A b \in DOMAIN s : n[b] = NoBlock => b + s[b] = List!HeapEnd
  /\ \A b \in DOMAIN s : n[b] # NoBlock => n[b] = b + s[b] /\ p[n[b]] = b
  /\ \A b \in DOMAIN s \ {HeapStart} : p[b] # NoBlock /\ n[p[b]] = b
  /\ \A b, c \in DOMAIN s : b < c => b + s[b] <= c

(* Numbers: what is known of the blocks of such a list. *)
LEMMA TileFacts ==
  ASSUME List!ConstantsOK, NEW s, NEW n, NEW p, Tiles(s, n, p), NEW b \in DOMAIN s
  PROVE  /\ b \in Int /\ HeapStart \in Int /\ List!HeapEnd \in Int /\ HeapStart <= b /\ b # NoBlock
         /\ s[b] \in Int /\ s[b] >= 1 /\ b + s[b] <= List!HeapEnd /\ List!HeapEnd = HeapStart + HeapSize
         /\ n[b] \in DOMAIN s \cup {NoBlock} /\ p[b] \in DOMAIN s \cup {NoBlock} /\ HeapSize \in Nat
<1>1. /\ HeapStart \in Nat /\ HeapSize \in Nat /\ List!HeapEnd = HeapStart + HeapSize /\ NoBlock \notin Int
  BY Zenon DEF List!ConstantsOK, List!HeapEnd
<1>2. /\ b \in HeapStart..List!HeapEnd-1 /\ s[b] \in 1..HeapSize
      /\ n[b] \in DOMAIN s \cup {NoBlock} /\ p[b] \in DOMAIN s \cup {NoBlock}
  BY Zenon DEF Tiles
<1>3. b \in Int /\ b # NoBlock /\ s[b] \in Int /\ s[b] >= 1 /\ HeapStart <= b
  BY <1>1, <1>2
<1>4. b + s[b] <= List!HeapEnd
  <2>1. CASE n[b] = NoBlock
    BY <1>1, <1>3, <2>1 DEF Tiles
  <2>2. CASE n[b] # NoBlock
    <3>1. n[b] = b + s[b] /\ n[b] \in HeapStart..List!HeapEnd-1
      BY <1>2, <2>2, Zenon DEF Tiles
    <3> QED
      BY <1>1, <1>3, <3>1
  <2> QED
    BY <2>1, <2>2, Zenon
<1> QED
  BY <1>1, <1>2, <1>3, <1>4

(* Two neighbours become one block. *)
LEMMA MergeTiles ==
  ASSUME List!ConstantsOK, NEW s, NEW n, NEW p, Tiles(s, n, p),
         NEW b \in DOMAIN s, NEW c, c = n[b], c # NoBlock,
         NEW s2, s2 = [x \in DOMAIN s \ {c} |-> IF x = b THEN s[b] + s[c] ELSE s[x]],
         NEW n2, n2 = [x \in DOMAIN s \ {c} |-> IF x = b THEN n[c] ELSE n[x]],
         NEW p2, p2 = [x \in DOMAIN s \ {c} |-> IF x = n[c] THEN b ELSE p[x]]
  PROVE  Tiles(s2, n2, p2)
<1> DEFINE D == DOMAIN s
<1>0. ASSUME NEW x \in D
      PROVE  /\ x \in Int /\ HeapStart \in Int /\ List!HeapEnd \in Int /\ HeapStart <= x /\ x # NoBlock
             /\ s[x] \in Int /\ s[x] >= 1 /\ x + s[x] <= List!HeapEnd /\ List!HeapEnd = HeapStart + HeapSize
             /\ n[x] \in D \cup {NoBlock} /\ p[x] \in D \cup {NoBlock} /\ HeapSize \in Nat
  BY TileFacts, Zenon
<1>1. /\ HeapStart \in D /\ p[HeapStart] = NoBlock /\ D \subseteq HeapStart..List!HeapEnd-1
      /\ \A x \in D : n[x] = NoBlock => x + s[x] = List!HeapEnd
      /\ \A x \in D : n[x] # NoBlock => n[x] = x + s[x] /\ p[n[x]] = x
      /\ \A x \in D \ {HeapStart} : p[x] # NoBlock /\ n[p[x]] = x
      /\ \A x, y \in D : x < y => x + s[x] <= y
  BY Zenon DEF Tiles
<1>2. b \in D /\ c \in D /\ c = b + s[b] /\ p[c] = b /\ c # b /\ c # HeapStart /\ n[c] # c
  BY <1>0, <1>1
<1>3. /\ DOMAIN s2 = D \ {c} /\ s2[b] = s[b] + s[c] /\ n2[b] = n[c]
      /\ \A x \in D \ {b, c} : s2[x] = s[x] /\ n2[x] = n[x]
      /\ \A x \in D \ {c} : x # n[c] => p2[x] = p[x]
      /\ n[c] # NoBlock => n[c] \in D \ {c} /\ p2[n[c]] = b
  BY <1>0, <1>2, Zenon
<1>4. \A x \in D \ {b, c} : n[x] # c /\ (n[x] # NoBlock => n[x] # n[c])
  BY <1>0, <1>1, <1>2
<1>5. \A x \in D \ {c} : x # n[c] => p[x] # c
  BY <1>0, <1>1, <1>2, Zenon
<1> HIDE DEF D
<1>6. s2 \in [D \ {c} -> 1..HeapSize]
  <2>1. s[b] + s[c] \in 1..HeapSize
    BY <1>0, <1>2
  <2>2. \A x \in D : s[x] \in 1..HeapSize
    BY Zenon DEF Tiles, D
  <2> QED
    BY <2>1, <2>2, Zenon DEF D
<1>7. n2 \in [D \ {c} -> (D \ {c}) \cup {NoBlock}]
  <2>1. \A x \in D \ {c} : n2[x] \in (D \ {c}) \cup {NoBlock}
    BY <1>0, <1>2, <1>3, <1>4, Zenon
  <2> QED
    BY <2>1, Zenon DEF D
<1>8. p2 \in [D \ {c} -> (D \ {c}) \cup {NoBlock}]
  <2>1. \A x \in D \ {c} : p2[x] \in (D \ {c}) \cup {NoBlock}
    BY <1>0, <1>2, <1>3, <1>5, Zenon
  <2> QED
    BY <2>1, Zenon DEF D
<1>9. HeapStart \in D \ {c} /\ p2[HeapStart] = NoBlock
  BY <1>0, <1>1, <1>2, <1>3
<1>10. ASSUME NEW x \in D \ {c}, n2[x] = NoBlock PROVE x + s2[x] = List!HeapEnd
  <2>1. CASE x = b
    BY <1>0, <1>1, <1>2, <1>3, <1>10, <2>1
  <2>2. CASE x # b
    BY <1>1, <1>3, <1>10, <2>2, Zenon
  <2> QED
    BY <2>1, <2>2, Zenon
<1>11. ASSUME NEW x \in D \ {c}, n2[x] # NoBlock PROVE n2[x] = x + s2[x] /\ p2[n2[x]] = x
  <2>1. CASE x = b
    BY <1>0, <1>1, <1>2, <1>3, <1>11, <2>1
  <2>2. CASE x # b
    <3>1. n2[x] = n[x] /\ s2[x] = s[x] /\ n[x] = x + s[x] /\ p[n[x]] = x
      BY <1>1, <1>3, <1>11, <2>2, Zenon
    <3>2. n[x] \in D \ {c} /\ n[x] # n[c]
      BY <1>0, <1>4, <1>11, <2>2, <3>1, Zenon
    <3> QED
      BY <1>3, <3>1, <3>2, Zenon
  <2> QED
    BY <2>1, <2>2, Zenon
<1>12. ASSUME NEW x \in (D \ {c}) \ {HeapStart} PROVE p2[x] # NoBlock /\ n2[p2[x]] = x
  <2>1. CASE x = n[c]
    BY <1>0, <1>3, <2>1, Zenon
  <2>2. CASE x # n[c]
    <3>1. p2[x] = p[x] /\ p[x] # NoBlock /\ n[p[x]] = x /\ p[x] # c
      BY <1>1, <1>3, <1>5, <2>2, Zenon
    <3>2. p[x] \in D \ {b, c}
      BY <1>0, <3>1, Zenon
    <3> QED
      BY <1>3, <3>1, <3>2, Zenon
  <2> QED
    BY <2>1, <2>2, Zenon
<1>13. ASSUME NEW x \in D \ {c}, NEW y \in D \ {c}, x < y PROVE x + s2[x] <= y
  <2>1. CASE x = b
    BY <1>0, <1>1, <1>2, <1>3, <1>13, <2>1
  <2>2. CASE x # b
    BY <1>1, <1>3, <1>13, <2>2, Zenon
  <2> QED
    BY <2>1, <2>2, Zenon
<1> QED
  BY <1>1, <1>3, <1>6, <1>7, <1>8, <1>9, <1>10, <1>11, <1>12, <1>13, Zenon DEF Tiles, D

(* A block becomes two neighbours, the first of size k. *)
LEMMA SplitTiles ==
  ASSUME List!ConstantsOK, NEW s, NEW n, NEW p, Tiles(s, n, p),
         NEW b \in DOMAIN s, NEW k \in Nat, 0 < k, k < s[b], NEW r, r = b + k,
         NEW s2, s2 = [x \in DOMAIN s \cup {r} |-> IF x = b THEN k
                                                ELSE IF x = r THEN s[b] - k ELSE s[x]],
         NEW n2, n2 = [x \in DOMAIN s \cup {r} |-> IF x = b THEN r ELSE IF x = r THEN n[b] ELSE n[x]],
         NEW p2, p2 = [x \in DOMAIN s \cup {r} |-> IF x = r THEN b
                                                ELSE IF x = n[b] THEN r ELSE p[x]]
  PROVE  Tiles(s2, n2, p2) /\ r \notin DOMAIN s
<1> DEFINE D == DOMAIN s
<1>0. ASSUME NEW x \in D
      PROVE  /\ x \in Int /\ HeapStart \in Int /\ List!HeapEnd \in Int /\ HeapStart <= x /\ x # NoBlock
             /\ s[x] \in Int /\ s[x] >= 1 /\ x + s[x] <= List!HeapEnd /\ List!HeapEnd = HeapStart + HeapSize
             /\ n[x] \in D \cup {NoBlock} /\ p[x] \in D \cup {NoBlock} /\ HeapSize \in Nat
  BY TileFacts, Zenon
<1>1. /\ HeapStart \in D /\ p[HeapStart] = NoBlock /\ D \subseteq HeapStart..List!HeapEnd-1
      /\ \A x \in D : n[x] = NoBlock => x + s[x] = List!HeapEnd
      /\ \A x \in D : n[x] # NoBlock => n[x] = x + s[x] /\ p[n[x]] = x
      /\ \A x \in D \ {HeapStart} : p[x] # NoBlock /\ n[p[x]] = x
      /\ \A x, y \in D : x < y => x + s[x] <= y
  BY Zenon DEF Tiles
<1>2. /\ b \in D /\ r \notin D /\ r \in HeapStart..List!HeapEnd-1 /\ r \in Int /\ r # NoBlock /\ r # b
      /\ s[b] - k \in 1..HeapSize /\ k \in 1..HeapSize
  <2>1. r \notin D
    BY <1>0, <1>1
  <2>2. r \in Int /\ r # b /\ r \in HeapStart..List!HeapEnd-1
    BY <1>0
  <2>3. NoBlock \notin Int
    BY Zenon DEF List!ConstantsOK
  <2>4. s[b] \in 1..HeapSize
    BY Zenon DEF Tiles
  <2> QED
    BY <1>0, <2>1, <2>2, <2>3, <2>4
<1>3. /\ DOMAIN s2 = D \cup {r} /\ s2[b] = k /\ s2[r] = s[b] - k /\ n2[b] = r /\ n2[r] = n[b]
      /\ \A x \in D \ {b} : s2[x] = s[x] /\ n2[x] = n[x]
      /\ \A x \in D : x # n[b] => p2[x] = p[x]
      /\ p2[r] = b
      /\ n[b] # NoBlock => n[b] \in D /\ p2[n[b]] = r
  BY <1>0, <1>2, Zenon
<1>4. \A x \in D \ {b} : n[x] # NoBlock => n[x] # n[b]
  BY <1>0, <1>1
<1>5. r + (s[b] - k) = b + s[b] /\ b < r /\ r < b + s[b]
  BY <1>0
<1> HIDE DEF D
<1>6. s2 \in [D \cup {r} -> 1..HeapSize]
  <2>2. \A x \in D : s[x] \in 1..HeapSize
    BY Zenon DEF Tiles, D
  <2> QED
    BY <1>2, <2>2, Zenon DEF D
<1>7. n2 \in [D \cup {r} -> (D \cup {r}) \cup {NoBlock}]
  <2>1. \A x \in D \cup {r} : n2[x] \in (D \cup {r}) \cup {NoBlock}
    BY <1>0, <1>2, <1>3, Zenon
  <2> QED
    BY <2>1, Zenon DEF D
<1>8. p2 \in [D \cup {r} -> (D \cup {r}) \cup {NoBlock}]
  <2>1. \A x \in D \cup {r} : p2[x] \in (D \cup {r}) \cup {NoBlock}
    BY <1>0, <1>2, <1>3, Zenon
  <2> QED
    BY <2>1, Zenon DEF D
<1>9. HeapStart \in D /\ p2[HeapStart] = NoBlock
  BY <1>0, <1>1, <1>2, <1>3
<1>10. ASSUME NEW x \in D \cup {r}, n2[x] = NoBlock PROVE x + s2[x] = List!HeapEnd
  <2>1. CASE x = r
    <3>1. b + s[b] = List!HeapEnd
      BY <1>1, <1>2, <1>3, <1>10, <2>1, Zenon
    <3> QED
      BY <1>3, <1>5, <2>1, <3>1, Zenon
  <2>2. CASE x # r
    BY <1>1, <1>2, <1>3, <1>10, <2>2, Zenon
  <2> QED
    BY <2>1, <2>2, Zenon
<1>11. ASSUME NEW x \in D \cup {r}, n2[x] # NoBlock PROVE n2[x] = x + s2[x] /\ p2[n2[x]] = x
  <2>1. CASE x = b
    BY <1>0, <1>1, <1>2, <1>3, <2>1, Zenon
  <2>2. CASE x = r
    <3>1. n[b] # NoBlock /\ n[b] = b + s[b]
      BY <1>1, <1>2, <1>3, <1>11, <2>2, Zenon
    <3> QED
      BY <1>3, <1>5, <2>2, <3>1, Zenon
  <2>3. CASE x \in D \ {b}
    <3>1. n2[x] = n[x] /\ s2[x] = s[x] /\ n[x] = x + s[x] /\ p[n[x]] = x
      BY <1>1, <1>3, <1>11, <2>3, ZenonT(30)
    <3>2. n[x] \in D /\ n[x] # n[b]
      BY <1>0, <1>4, <1>11, <2>3, <3>1, Zenon
    <3> QED
      BY <1>3, <3>1, <3>2, Zenon
  <2> QED
    BY <2>1, <2>2, <2>3, Zenon
<1>12. ASSUME NEW x \in (D \cup {r}) \ {HeapStart} PROVE p2[x] # NoBlock /\ n2[p2[x]] = x
  <2>1. CASE x = r
    BY <1>0, <1>2, <1>3, <2>1, Zenon
  <2>2. CASE x = n[b]
    <3>1. n[b] # NoBlock
      BY <1>0, <1>2, <2>2, Zenon
    <3> QED
      BY <1>2, <1>3, <2>2, <3>1, Zenon
  <2>3. CASE x \in D /\ x # n[b]
    <3>1. p2[x] = p[x] /\ p[x] # NoBlock /\ n[p[x]] = x
      BY <1>1, <1>3, <2>3, Zenon
    <3>2. p[x] \in D \ {b}
      BY <1>0, <2>3, <3>1, Zenon
    <3> QED
      BY <1>3, <3>1, <3>2, Zenon
  <2> QED
    BY <2>1, <2>2, <2>3, Zenon
<1>13. ASSUME NEW x \in D \cup {r}, NEW y \in D \cup {r}, x < y PROVE x + s2[x] <= y
  <2>1. CASE x = b
    BY <1>0, <1>1, <1>2, <1>3, <1>13, <2>1
  <2>2. CASE x = r
    <3>1. y \in D
      BY <1>2, <1>13, <2>2
    <3>3. b < y
      BY <1>0, <1>2, <1>5, <1>13, <2>2, <3>1
    <3>2. b + s[b] <= y
      BY <1>1, <1>2, <3>1, <3>3, Zenon
    <3> QED
      BY <1>3, <1>5, <2>2, <3>2, Zenon
  <2>3. CASE x \in D \ {b} /\ y = r
    <3>1. x < b
      <4>1. x \in Int /\ b \in Int /\ x < r /\ x # b
        BY <1>0, <1>2, <1>13, <2>3, Zenon
      <4>2. b < x => b + s[b] <= x
        BY <1>1, <1>2, <2>3, Zenon
      <4> QED
        BY <1>0, <1>2, <1>5, <4>1, <4>2
    <3>2. x + s[x] <= b /\ s2[x] = s[x]
      BY <1>1, <1>2, <1>3, <2>3, <3>1, Zenon
    <3> QED
      BY <1>0, <1>2, <1>5, <2>3, <3>2
  <2>4. CASE x \in D \ {b} /\ y \in D
    BY <1>1, <1>3, <1>13, <2>4, Zenon
  <2> QED
    BY <2>1, <2>2, <2>3, <2>4, Zenon
<1> QED
  <2>1. Tiles(s2, n2, p2)
    <3>1. D \cup {r} \subseteq HeapStart..List!HeapEnd-1
      BY <1>1, <1>2, Zenon
    <3>2. DOMAIN s2 = D \cup {r} /\ HeapStart \in D \cup {r}
      BY <1>1, <1>3, Zenon
    <3>3. /\ \A x \in D \cup {r} : n2[x] = NoBlock => x + s2[x] = List!HeapEnd
          /\ \A x \in D \cup {r} : n2[x] # NoBlock => n2[x] = x + s2[x] /\ p2[n2[x]] = x
      BY <1>10, <1>11, Zenon
    <3>4. /\ \A x \in (D \cup {r}) \ {HeapStart} : p2[x] # NoBlock /\ n2[p2[x]] = x
          /\ \A x, y \in D \cup {r} : x < y => x + s2[x] <= y
      BY <1>12, <1>13, Zenon
    <3> QED
      BY <1>6, <1>7, <1>8, <1>9, <3>1, <3>2, <3>3, <3>4, ZenonT(30) DEF Tiles
  <2> QED
    BY <1>2, <2>1, Zenon DEF D

(* Free: the blocks that are merged still tile the heap. *)
LEMMA FreeTiles ==
  ASSUME List!ConstantsOK, Tiles(blkSize, blkNext, blkPrev), NEW addr \in List!Blocks, List!Free(addr)
  PROVE  Tiles(blkSize, blkNext, blkPrev)'
<1>1. PICK s, n, p : s = blkSize /\ n = blkNext /\ p = blkPrev
  BY Zenon
<1>2. PICK nx, pv : nx = n[addr] /\ pv = p[addr]
  BY Zenon
<1>3. PICK s2, n2, p2 : s2 = blkSize' /\ n2 = blkNext' /\ p2 = blkPrev'
  BY Zenon
<1>4. Tiles(s, n, p) /\ addr \in DOMAIN s
  BY <1>1, Zenon DEF List!Blocks
<1>5. /\ nx # NoBlock => nx \in DOMAIN s /\ p[nx] = addr /\ nx # addr /\ s[nx] \in Int
      /\ pv # NoBlock => pv \in DOMAIN s /\ n[pv] = addr /\ pv # addr /\ s[pv] \in Int
      /\ s[addr] \in Int /\ addr # NoBlock
  <2>1. /\ nx \in DOMAIN s \cup {NoBlock} /\ pv \in DOMAIN s \cup {NoBlock} /\ s[addr] \in Int /\ s[addr] >= 1
        /\ addr \in Int /\ addr # NoBlock
    BY <1>2, <1>4, TileFacts, Zenon
  <2>2. nx # NoBlock => p[nx] = addr /\ nx = addr + s[addr]
    BY <1>2, <1>4, Zenon DEF Tiles
  <2>3. pv # NoBlock => n[pv] = addr
    BY <1>2, <1>4, Zenon DEF Tiles
  <2>4. pv # NoBlock => addr = pv + s[pv]
    BY <1>4, <2>1, <2>3, Zenon DEF Tiles
  <2>5. \A x \in DOMAIN s : x \in Int /\ s[x] \in Int /\ s[x] >= 1
    BY <1>4, TileFacts, Zenon
  <2> QED
    BY <2>1, <2>2, <2>3, <2>4, <2>5
<1>6. SUFFICES Tiles(s2, n2, p2)
  BY <1>3, Zenon DEF Tiles, List!HeapEnd
<1>7. CASE ~List!IsFree(blkNext[addr]) /\ ~List!IsFree(blkPrev[addr])
  <2>1. /\ s2 = [x \in DOMAIN s |-> IF x = addr THEN s[addr] + 0 + 0 ELSE s[x]]
        /\ n2 = [x \in DOMAIN s |-> IF x = addr THEN n[addr] ELSE n[x]]
        /\ p2 = [x \in DOMAIN s |-> IF x = n[addr] THEN addr ELSE p[x]]
    BY <1>1, <1>3, <1>7, Zenon DEF List!Free, List!Merge, List!Blocks
  <2>2. /\ s = [x \in DOMAIN s |-> s[x]] /\ n = [x \in DOMAIN s |-> n[x]] /\ p = [x \in DOMAIN s |-> p[x]]
    BY <1>4, Zenon DEF Tiles
  <2>3. s2 = s
    <3>1. s2 = [x \in DOMAIN s |-> s[x]]
      BY <1>5, <2>1
    <3> QED
      BY <2>2, <3>1, Zenon
  <2>4. n2 = n
    <3>1. n2 = [x \in DOMAIN s |-> n[x]]
      BY <2>1, Zenon
    <3> QED
      BY <2>2, <3>1, Zenon
  <2>5. p2 = p
    <3>1. \A x \in DOMAIN s : x = n[addr] => p[x] = addr
      <4>1. NoBlock \notin DOMAIN s
        BY <1>4, TileFacts, Zenon
      <4> QED
        BY <1>2, <1>5, <4>1, Zenon
    <3>2. p2 = [x \in DOMAIN s |-> p[x]]
      BY <2>1, <3>1, Zenon
    <3> QED
      BY <2>2, <3>2, Zenon
  <2> QED
    BY <1>4, <2>3, <2>4, <2>5, Zenon
<1>8. CASE List!IsFree(blkNext[addr]) /\ ~List!IsFree(blkPrev[addr])
  <2>1. /\ nx # NoBlock
        /\ s2 = [x \in DOMAIN s \ {nx} |-> IF x = addr THEN s[addr] + 0 + s[nx] ELSE s[x]]
        /\ n2 = [x \in DOMAIN s \ {nx} |-> IF x = addr THEN n[nx] ELSE n[x]]
        /\ p2 = [x \in DOMAIN s \ {nx} |-> IF x = n[nx] THEN addr ELSE p[x]]
    BY <1>1, <1>2, <1>3, <1>8, Zenon DEF List!Free, List!Merge, List!Blocks, List!IsFree
  <2>2. s2 = [x \in DOMAIN s \ {nx} |-> IF x = addr THEN s[addr] + s[nx] ELSE s[x]]
    <3>1. nx # NoBlock
      BY <2>1, Zenon
    <3>2. s[addr] \in Int /\ s[nx] \in Int
      BY <1>5, <3>1, Zenon
    <3>3. s[addr] + 0 + s[nx] = s[addr] + s[nx]
      BY <3>2
    <3> QED
      BY <2>1, <3>3, Zenon
  <2> QED
    BY <1>2, <1>4, <2>1, <2>2, MergeTiles
<1>9. CASE ~List!IsFree(blkNext[addr]) /\ List!IsFree(blkPrev[addr])
  <2>1. /\ pv # NoBlock /\ pv # addr
        /\ s2 = [x \in DOMAIN s \ {addr} |-> IF x = pv THEN s[addr] + s[pv] + 0 ELSE s[x]]
        /\ n2 = [x \in DOMAIN s \ {addr} |-> IF x = pv THEN n[addr] ELSE n[x]]
        /\ p2 = [x \in DOMAIN s \ {addr} |-> IF x = n[addr] THEN pv ELSE p[x]]
    <3>1. pv # NoBlock /\ pv # addr /\ List!Merge(addr) = [first |-> pv, gone |-> {} \cup {addr}]
      BY <1>1, <1>2, <1>5, <1>9, Zenon DEF List!Merge, List!IsFree
    <3> QED
      BY <1>1, <1>2, <1>3, <1>9, <3>1 DEF List!Free, List!Blocks
  <2>2. s2 = [x \in DOMAIN s \ {addr} |-> IF x = pv THEN s[pv] + s[addr] ELSE s[x]]
    BY <1>5, <2>1
  <2>3. pv \in DOMAIN s /\ addr = n[pv] /\ addr # NoBlock
    BY <1>5, <2>1, Zenon
  <2> QED
    BY <1>4, <2>1, <2>2, <2>3, MergeTiles
<1>10. CASE List!IsFree(blkNext[addr]) /\ List!IsFree(blkPrev[addr])
  <2>1. /\ pv # NoBlock /\ pv # addr /\ nx # NoBlock
        /\ s2 = [x \in DOMAIN s \ ({nx} \cup {addr}) |-> IF x = pv THEN s[addr] + s[pv] + s[nx] ELSE s[x]]
        /\ n2 = [x \in DOMAIN s \ ({nx} \cup {addr}) |-> IF x = pv THEN n[nx] ELSE n[x]]
        /\ p2 = [x \in DOMAIN s \ ({nx} \cup {addr}) |-> IF x = n[nx] THEN pv ELSE p[x]]
    <3>1. /\ pv # NoBlock /\ pv # addr /\ nx # NoBlock
          /\ List!Merge(addr) = [first |-> pv, gone |-> {nx} \cup {addr}]
      BY <1>1, <1>2, <1>5, <1>10, Zenon DEF List!Merge, List!IsFree
    <3> QED
      BY <1>1, <1>2, <1>3, <1>10, <3>1 DEF List!Free, List!Blocks
  <2>2. PICK s1, n1, p1 :
          /\ s1 = [x \in DOMAIN s \ {nx} |-> IF x = addr THEN s[addr] + s[nx] ELSE s[x]]
          /\ n1 = [x \in DOMAIN s \ {nx} |-> IF x = addr THEN n[nx] ELSE n[x]]
          /\ p1 = [x \in DOMAIN s \ {nx} |-> IF x = n[nx] THEN addr ELSE p[x]]
    BY Zenon
  <2>3. Tiles(s1, n1, p1)
    BY <1>2, <1>4, <2>1, <2>2, MergeTiles
  <2>4. pv # nx
    <3>1. p[nx] = addr /\ n[pv] = addr /\ n[addr] = nx
      BY <1>2, <1>5, <2>1, Zenon
    <3>2. n[nx] # addr
      <4>1. \A x \in DOMAIN s : n[x] # NoBlock => n[x] = x + s[x]
        BY <1>4, Zenon DEF Tiles
      <4>2. \A x \in DOMAIN s : x \in Int /\ s[x] \in Int /\ s[x] >= 1
        BY <1>4, TileFacts, Zenon
      <4> QED
        BY <1>2, <1>4, <1>5, <2>1, <4>1, <4>2
    <3> QED
      BY <3>1, <3>2, Zenon
  <2>5. /\ DOMAIN s1 = DOMAIN s \ {nx} /\ pv \in DOMAIN s1 /\ addr \in DOMAIN s1 /\ n1[pv] = addr /\ n1[addr] = n[nx]
        /\ s1[pv] = s[pv] /\ s1[addr] = s[addr] + s[nx]
    BY <1>4, <1>5, <2>1, <2>2, <2>4, Zenon
  <2>6. DOMAIN s \ ({nx} \cup {addr}) = DOMAIN s1 \ {addr}
    BY <2>5, Zenon
  <2>7. s2 = [x \in DOMAIN s1 \ {addr} |-> IF x = pv THEN s1[pv] + s1[addr] ELSE s1[x]]
    BY <1>5, <2>1, <2>2, <2>5, <2>6
  <2>8. n2 = [x \in DOMAIN s1 \ {addr} |-> IF x = pv THEN n1[addr] ELSE n1[x]]
    BY <2>1, <2>2, <2>5, <2>6, Zenon
  <2>9. p2 = [x \in DOMAIN s1 \ {addr} |-> IF x = n1[addr] THEN pv ELSE p1[x]]
    BY <2>1, <2>2, <2>5, <2>6, Zenon
  <2> QED
    BY <1>5, <2>3, <2>5, <2>7, <2>8, <2>9, MergeTiles
<1> QED
  BY <1>7, <1>8, <1>9, <1>10, Zenon

-----------------------------------------------------------------------------
(***************************************************************************)
(* The inductive invariant: the list tiles the heap, no two neighbours are *)
(* both free, and the bytes of allocated blocks are counted.               *)
(***************************************************************************)
Coalesced == \A b \in List!Blocks : blkNext[b] # NoBlock => blkAllocated[b] \/ blkAllocated[blkNext[b]]

ListInv ==
  /\ Tiles(blkSize, blkNext, blkPrev)
  /\ blkAllocated \in [List!Blocks -> BOOLEAN]
  /\ Coalesced
  /\ List!BytesAddUp

(* The addresses in use are those of the allocated blocks. *)
LEMMA InUseBlocks ==
  ASSUME List!ConstantsOK, Tiles(blkSize, blkNext, blkPrev)
  PROVE  \A a : a \in List!InUse <=> \E b \in List!Blocks : blkAllocated[b] /\ a \in b..(b + blkSize[b] - 1)
<1>1. ASSUME NEW b \in List!Blocks, NEW a \in b..(b + blkSize[b] - 1) PROVE a \in HeapStart..List!HeapEnd-1
  <2>1. b \in Int /\ HeapStart <= b /\ blkSize[b] \in Int /\ b + blkSize[b] <= List!HeapEnd
        /\ HeapStart \in Int /\ List!HeapEnd \in Int
    BY TileFacts, Zenon DEF List!Blocks
  <2> QED
    BY <2>1
<1> QED
  BY <1>1, Zenon DEF List!InUse

(* Blocks do not overlap. *)
LEMMA BlocksApart ==
  ASSUME List!ConstantsOK, Tiles(blkSize, blkNext, blkPrev), NEW b \in List!Blocks, NEW c \in List!Blocks, b # c,
         NEW a \in b..(b + blkSize[b] - 1)
  PROVE  a \notin c..(c + blkSize[c] - 1)
<1>1. b \in Int /\ c \in Int /\ blkSize[b] \in Int /\ blkSize[c] \in Int
  BY TileFacts, Zenon DEF List!Blocks
<1>2. (b < c => b + blkSize[b] <= c) /\ (c < b => c + blkSize[c] <= b)
  BY Zenon DEF Tiles, List!Blocks
<1> QED
  BY <1>1, <1>2

(* The library's facts about finite sets. *)
HeapSets == INSTANCE FiniteSetTheorems

(* FiniteSets as the allocator sees it. *)
LEMMA ListSets ==
  \A S : HeapSets!Cardinality(S) = List!Cardinality(S) /\ (HeapSets!IsFiniteSet(S) <=> List!IsFiniteSet(S))
BY Zenon DEF HeapSets!Cardinality, List!Cardinality, HeapSets!IsFiniteSet, List!IsFiniteSet

(* One more block of k bytes. *)
LEMMA AddBlock ==
  ASSUME NEW S, List!IsFiniteSet(S), NEW a \in Int, NEW k \in Nat, \A x \in a..(a + k - 1) : x \notin S
  PROVE  /\ List!IsFiniteSet(S \cup (a..(a + k - 1)))
         /\ List!Cardinality(S \cup (a..(a + k - 1))) = List!Cardinality(S) + k
         /\ List!Cardinality(S) \in Nat
<1> DEFINE C == a..(a + k - 1)
<1>1. a + k - 1 \in Int
  OBVIOUS
<1>2. List!IsFiniteSet(C) /\ List!Cardinality(C) = k
  <2>1. /\ HeapSets!IsFiniteSet(C)
        /\ HeapSets!Cardinality(C) = IF a > a + k - 1 THEN 0 ELSE (a + k - 1) - a + 1
    BY <1>1, HeapSets!FS_Interval, Zenon
  <2>2. (IF a > a + k - 1 THEN 0 ELSE (a + k - 1) - a + 1) = k
    OBVIOUS
  <2> QED
    BY <2>1, <2>2, ListSets
<1>3. S \cap C = {}
  BY Zenon
<1> HIDE DEF C
<1>4. List!IsFiniteSet(S \cup C) /\ List!Cardinality(S \cup C) = List!Cardinality(S) + List!Cardinality(C) - List!Cardinality(S \cap C)
  BY <1>2, HeapSets!FS_Union, ListSets, Zenon
<1>5. List!Cardinality({}) = 0 /\ List!Cardinality(S) \in Nat
  BY HeapSets!FS_EmptySet, HeapSets!FS_CardinalityType, ListSets, Zenon
<1>6. List!Cardinality(S \cup C) = List!Cardinality(S) + k
  BY <1>2, <1>3, <1>4, <1>5
<1> QED
  BY <1>4, <1>5, <1>6, Zenon DEF C

(* The heap is finite, and so is what is in use. *)
LEMMA InUseFinite ==
  ASSUME List!ConstantsOK
  PROVE  List!IsFiniteSet(List!InUse) /\ List!Cardinality(List!InUse) \in 0..HeapSize
<1>1. HeapStart \in Int /\ List!HeapEnd - 1 \in Int /\ HeapSize \in Nat \ {0} /\ List!HeapEnd = HeapStart + HeapSize
  BY DEF List!ConstantsOK, List!HeapEnd
<1>2. HeapSets!IsFiniteSet(HeapStart..List!HeapEnd-1) /\ HeapSets!Cardinality(HeapStart..List!HeapEnd-1) = HeapSize
  <2>1. /\ HeapSets!IsFiniteSet(HeapStart..List!HeapEnd-1)
        /\ HeapSets!Cardinality(HeapStart..List!HeapEnd-1) =
             IF HeapStart > List!HeapEnd - 1 THEN 0 ELSE (List!HeapEnd - 1) - HeapStart + 1
    BY <1>1, HeapSets!FS_Interval, Zenon
  <2>2. (IF HeapStart > List!HeapEnd - 1 THEN 0 ELSE (List!HeapEnd - 1) - HeapStart + 1) = HeapSize
    BY <1>1
  <2> QED
    BY <2>1, <2>2, Zenon
<1>3. List!InUse \in SUBSET (HeapStart..List!HeapEnd-1)
  BY Zenon DEF List!InUse
<1>4. /\ HeapSets!IsFiniteSet(List!InUse) /\ HeapSets!Cardinality(List!InUse) <= HeapSize
      /\ HeapSets!Cardinality(List!InUse) \in Nat
  BY <1>2, <1>3, HeapSets!FS_Subset, HeapSets!FS_CardinalityType, Zenon
<1> QED
  BY <1>1, <1>4, ListSets

(* Malloc: block b of k bytes is in use from now on. *)
LEMMA BytesTaken ==
  ASSUME List!ConstantsOK, ListInv, Tiles(blkSize, blkNext, blkPrev)', NEW b \in List!Blocks, NEW k \in Nat,
         ~blkAllocated[b], k <= blkSize[b], AllocatedBytes' = AllocatedBytes + k,
         b \in List!Blocks', blkSize'[b] = k, blkAllocated'[b],
         \A c \in List!Blocks \ {b} : c \in List!Blocks' /\ blkSize'[c] = blkSize[c] /\ (blkAllocated'[c] <=> blkAllocated[c]),
         \A c \in List!Blocks' \ List!Blocks : ~blkAllocated'[c]
  PROVE  List!BytesAddUp'
<1>1. b \in Int /\ blkSize[b] \in Int
  BY TileFacts, Zenon DEF ListInv, List!Blocks
<1>2. \A a : a \in List!InUse' <=> \E c \in List!Blocks' : blkAllocated'[c] /\ a \in c..(c + blkSize'[c] - 1)
  <2>1. ASSUME NEW c \in List!Blocks', NEW a \in c..(c + blkSize'[c] - 1) PROVE a \in HeapStart..List!HeapEnd-1
    <3>1. PICK s, n, p : s = blkSize' /\ n = blkNext' /\ p = blkPrev'
      BY Zenon
    <3>2. Tiles(s, n, p) /\ c \in DOMAIN s
      BY <3>1, Zenon DEF Tiles, List!Blocks, List!HeapEnd
    <3>3. /\ c \in Int /\ HeapStart <= c /\ s[c] \in Int /\ c + s[c] <= List!HeapEnd
          /\ HeapStart \in Int /\ List!HeapEnd \in Int
      BY <3>2, TileFacts, Zenon
    <3> QED
      BY <3>1, <3>3
  <2> QED
    BY <2>1, Zenon DEF List!InUse, List!HeapEnd
<1>3. \A a : a \in List!InUse <=> \E c \in List!Blocks : blkAllocated[c] /\ a \in c..(c + blkSize[c] - 1)
  BY InUseBlocks, Zenon DEF ListInv
<1>4. \A a : a \in List!InUse' <=> a \in List!InUse \/ a \in b..(b + k - 1)
  BY <1>2, <1>3, Zenon
<1>5. \A a \in b..(b + k - 1) : a \notin List!InUse
  <2> SUFFICES ASSUME NEW a \in b..(b + k - 1), NEW c \in List!Blocks, blkAllocated[c], a \in c..(c + blkSize[c] - 1)
               PROVE  FALSE
    BY <1>3, Zenon
  <2>1. a \in b..(b + blkSize[b] - 1) /\ b # c
    BY <1>1
  <2> QED
    BY <2>1, BlocksApart, Zenon DEF ListInv
<1>6. List!InUse' = List!InUse \cup (b..(b + k - 1))
  BY <1>4, Zenon
<1>7. List!Cardinality(List!InUse') = List!Cardinality(List!InUse) + k
  BY <1>1, <1>5, <1>6, InUseFinite, AddBlock, Zenon
<1> QED
  BY <1>7, Zenon DEF ListInv, List!BytesAddUp

(* Free: its bytes are not in use any more. *)
LEMMA BytesGiven ==
  ASSUME List!ConstantsOK, ListInv, Tiles(blkSize, blkNext, blkPrev)', NEW b \in List!Blocks,
         blkAllocated[b], AllocatedBytes' = AllocatedBytes - blkSize[b],
         \A c \in List!Blocks \ {b} : blkAllocated[c] => c \in List!Blocks' /\ blkSize'[c] = blkSize[c] /\ blkAllocated'[c],
         \A c \in List!Blocks' : blkAllocated'[c] => c \in List!Blocks \ {b} /\ blkAllocated[c]
  PROVE  List!BytesAddUp'
<1>1. b \in Int /\ blkSize[b] \in Nat
  BY TileFacts DEF ListInv, List!Blocks
<1>2. \A a : a \in List!InUse' <=> \E c \in List!Blocks \ {b} : blkAllocated[c] /\ a \in c..(c + blkSize[c] - 1)
  <2>1. ASSUME NEW c \in List!Blocks, NEW a \in c..(c + blkSize[c] - 1) PROVE a \in HeapStart..List!HeapEnd-1
    <3>1. c \in Int /\ HeapStart <= c /\ blkSize[c] \in Int /\ c + blkSize[c] <= List!HeapEnd
          /\ HeapStart \in Int /\ List!HeapEnd \in Int
      BY TileFacts, Zenon DEF List!Blocks, ListInv
    <3> QED
      BY <3>1
  <2> QED
    BY <2>1, Zenon DEF List!InUse, List!HeapEnd
<1>3. \A a : a \in List!InUse <=> \E c \in List!Blocks : blkAllocated[c] /\ a \in c..(c + blkSize[c] - 1)
  BY InUseBlocks, Zenon DEF ListInv
<1>4. List!InUse = List!InUse' \cup (b..(b + blkSize[b] - 1))
  BY <1>2, <1>3, Zenon
<1>5. \A a \in b..(b + blkSize[b] - 1) : a \notin List!InUse'
  <2> SUFFICES ASSUME NEW a \in b..(b + blkSize[b] - 1), NEW c \in List!Blocks \ {b}, a \in c..(c + blkSize[c] - 1)
               PROVE  FALSE
    BY <1>2, Zenon
  <2> QED
    BY BlocksApart, Zenon DEF ListInv
<1>6. List!IsFiniteSet(List!InUse')
  <2>1. List!InUse' \in SUBSET List!InUse
    BY <1>4, Zenon
  <2> QED
    BY <2>1, InUseFinite, HeapSets!FS_Subset, ListSets, Zenon
<1>7. List!Cardinality(List!InUse) = List!Cardinality(List!InUse') + blkSize[b] /\ List!Cardinality(List!InUse') \in Nat
  <2>0. PICK S : S = List!InUse'
    BY Zenon
  <2>1. PICK k \in Nat : k = blkSize[b]
    BY <1>1, Zenon
  <2>2. List!Cardinality(S \cup (b..(b + k - 1))) = List!Cardinality(S) + k /\ List!Cardinality(S) \in Nat
    BY <1>1, <1>5, <1>6, <2>0, <2>1, AddBlock, Zenon
  <2> QED
    BY <1>4, <2>0, <2>1, <2>2, Zenon
<1> QED
  BY <1>1, <1>7 DEF ListInv, List!BytesAddUp

(* Malloc with a block that is used as it is. *)
LEMMA TakeStep ==
  ASSUME List!ConstantsOK, ListInv, NEW b \in List!Blocks, ~blkAllocated[b], List!Take(b)
  PROVE  ListInv'
<1>1. Tiles(blkSize, blkNext, blkPrev)' /\ List!Blocks' = List!Blocks
  BY Zenon DEF ListInv, Tiles, List!Take, List!Blocks, List!HeapEnd
<1>2. /\ blkAllocated' \in [List!Blocks -> BOOLEAN] /\ blkAllocated'[b]
      /\ \A c \in List!Blocks \ {b} : blkAllocated'[c] <=> blkAllocated[c]
  BY Zenon DEF ListInv, List!Take
<1>3. Coalesced'
  <2> SUFFICES ASSUME NEW c \in List!Blocks, blkNext[c] # NoBlock PROVE blkAllocated'[c] \/ blkAllocated'[blkNext[c]]
    BY <1>1, Zenon DEF Coalesced, List!Take
  <2>1. blkAllocated[c] \/ blkAllocated[blkNext[c]]
    BY Zenon DEF ListInv, Coalesced
  <2>2. blkNext[c] \in List!Blocks
    BY TileFacts, Zenon DEF ListInv, List!Blocks
  <2> QED
    BY <1>2, <2>1, <2>2, Zenon
<1>4. List!BytesAddUp'
  <2>1. blkSize[b] \in Nat
    BY TileFacts DEF ListInv, List!Blocks
  <2>2. AllocatedBytes' = AllocatedBytes + blkSize[b] /\ blkSize' = blkSize /\ blkSize[b] <= blkSize[b]
    BY <2>1 DEF List!Take
  <2> QED
    BY <1>1, <1>2, <2>1, <2>2, BytesTaken, Zenon
<1> QED
  BY <1>1, <1>2, <1>3, <1>4, Zenon DEF ListInv

(* Malloc with a block that is cut in two. *)
LEMMA SplitStep ==
  ASSUME List!ConstantsOK, ListInv, NEW b \in List!Blocks, ~blkAllocated[b], NEW k \in Nat \ {0}, k < blkSize[b], List!Split(b, k)
  PROVE  ListInv'
<1>1. PICK r : r = b + k
  BY Zenon
<1>2. /\ blkSize' = [x \in List!Blocks \cup {r} |-> IF x = b THEN k ELSE IF x = r THEN blkSize[b] - k ELSE blkSize[x]]
      /\ blkAllocated' = [x \in List!Blocks \cup {r} |-> IF x = b THEN TRUE ELSE IF x = r THEN FALSE ELSE blkAllocated[x]]
      /\ blkNext' = [x \in List!Blocks \cup {r} |-> IF x = b THEN r ELSE IF x = r THEN blkNext[b] ELSE blkNext[x]]
      /\ blkPrev' = [x \in List!Blocks \cup {r} |-> IF x = r THEN b ELSE IF x = blkNext[b] THEN r ELSE blkPrev[x]]
      /\ AllocatedBytes' = AllocatedBytes + k
  BY <1>1, Zenon DEF List!Split
<1>3. Tiles(blkSize, blkNext, blkPrev)' /\ r \notin List!Blocks
  <2>1. PICK s2, n2, p2 : s2 = blkSize' /\ n2 = blkNext' /\ p2 = blkPrev'
    BY Zenon
  <2>2. Tiles(s2, n2, p2) /\ r \notin DOMAIN blkSize
    BY <1>1, <1>2, <2>1, SplitTiles, SMTT(30) DEF ListInv, List!Blocks
  <2> QED
    BY <2>1, <2>2, Zenon DEF List!Blocks, Tiles, List!HeapEnd
<1>4. List!Blocks' = List!Blocks \cup {r} /\ b # r
  BY <1>2, <1>3, Zenon DEF List!Blocks
<1>5. /\ blkAllocated' \in [List!Blocks' -> BOOLEAN] /\ blkAllocated'[b] /\ ~blkAllocated'[r]
      /\ \A c \in List!Blocks \ {b} : blkAllocated'[c] <=> blkAllocated[c]
  BY <1>2, <1>3, <1>4, Zenon DEF ListInv
<1>6. /\ blkNext'[b] = r /\ blkNext'[r] = blkNext[b]
      /\ \A c \in List!Blocks \ {b} : blkNext'[c] = blkNext[c]
  BY <1>2, <1>3, <1>4, Zenon
<1>7. \A c \in List!Blocks : blkNext[c] # NoBlock => blkNext[c] \in List!Blocks /\ (blkAllocated[c] \/ blkAllocated[blkNext[c]])
  BY TileFacts DEF ListInv, Coalesced, List!Blocks
<1>8. Coalesced'
  <2> SUFFICES ASSUME NEW c \in List!Blocks \cup {r}, blkNext'[c] # NoBlock PROVE blkAllocated'[c] \/ blkAllocated'[blkNext'[c]]
    BY <1>4, Zenon DEF Coalesced
  <2>1. CASE c = r
    <3>1. blkAllocated[blkNext[b]] /\ blkNext[b] \in List!Blocks /\ blkNext[b] # b
      BY <1>6, <1>7, <2>1, Zenon
    <3> QED
      BY <1>5, <1>6, <2>1, <3>1, Zenon
  <2>2. CASE c # r
    BY <1>5, <1>6, <1>7, <2>2, Zenon
  <2> QED
    BY <2>1, <2>2, Zenon
<1>9. List!BytesAddUp'
  <2>1. /\ blkSize[b] \in Int /\ k \in Nat /\ k <= blkSize[b] /\ b \in List!Blocks'
        /\ blkSize'[b] = k /\ \A c \in List!Blocks \ {b} : c \in List!Blocks' /\ blkSize'[c] = blkSize[c]
        /\ List!Blocks' \ List!Blocks = {r}
    BY <1>2, <1>3, <1>4, TileFacts DEF ListInv, List!Blocks
  <2> QED
    BY <1>2, <1>3, <1>5, <2>1, BytesTaken, Zenon
<1> QED
  BY <1>3, <1>5, <1>8, <1>9, Zenon DEF ListInv

(* Free. *)
LEMMA FreeStep ==
  ASSUME List!ConstantsOK, ListInv, NEW addr \in List!Blocks, List!Free(addr)
  PROVE  ListInv'
<1>1. Tiles(blkSize, blkNext, blkPrev)'
  BY FreeTiles, Zenon DEF ListInv
<1>2. PICK nx, pv : nx = blkNext[addr] /\ pv = blkPrev[addr]
  BY Zenon
<1>3. PICK f, G, af : /\ f = List!Merge(addr).first /\ G = List!Merge(addr).gone
                      /\ af = IF List!IsFree(nx) THEN blkNext[nx] ELSE nx
  BY Zenon
<1>4. \A b \in List!Blocks : /\ b \in Int /\ blkSize[b] \in Int /\ blkSize[b] >= 1 /\ b # NoBlock
                             /\ blkNext[b] \in List!Blocks \cup {NoBlock} /\ blkPrev[b] \in List!Blocks \cup {NoBlock}
                             /\ (blkNext[b] # NoBlock => blkNext[b] = b + blkSize[b] /\ blkPrev[blkNext[b]] = b)
                             /\ (blkPrev[b] # NoBlock => blkNext[blkPrev[b]] = b)
  <2>1. \A b \in List!Blocks : /\ b \in Int /\ blkSize[b] \in Int /\ blkSize[b] >= 1 /\ b # NoBlock
                               /\ blkNext[b] \in List!Blocks \cup {NoBlock} /\ blkPrev[b] \in List!Blocks \cup {NoBlock}
    BY TileFacts, Zenon DEF ListInv, List!Blocks
  <2>2. \A b \in List!Blocks : /\ (blkNext[b] # NoBlock => blkNext[b] = b + blkSize[b] /\ blkPrev[blkNext[b]] = b)
                               /\ (blkPrev[b] # NoBlock => blkNext[blkPrev[b]] = b)
    BY Zenon DEF ListInv, Tiles, List!Blocks
  <2> QED
    BY <2>1, <2>2, Zenon
<1>5. /\ blkAllocated[addr] /\ AllocatedBytes' = AllocatedBytes - blkSize[addr]
      /\ List!Blocks' = List!Blocks \ G
      /\ \A b \in List!Blocks \ G : b # f => blkSize'[b] = blkSize[b]
      /\ blkAllocated' = [b \in List!Blocks \ G |-> IF b = f THEN FALSE ELSE blkAllocated[b]]
      /\ blkNext' = [b \in List!Blocks \ G |-> IF b = f THEN af ELSE blkNext[b]]
      /\ blkPrev' = [b \in List!Blocks \ G |-> IF b = af THEN f ELSE blkPrev[b]]
  BY <1>2, <1>3, Zenon DEF List!Free, List!Blocks
<1>6. /\ (f = addr /\ ~List!IsFree(pv)) \/ (f = pv /\ List!IsFree(pv) /\ addr \in G)
      /\ G \subseteq {addr, nx} /\ (nx \in G => List!IsFree(nx)) /\ (addr \in G => f = pv /\ List!IsFree(pv))
  <2>1. nx # addr
    BY <1>2, <1>4
  <2> QED
    BY <1>2, <1>3, <2>1, Zenon DEF List!Merge
<1>7. /\ blkAllocated' \in [List!Blocks' -> BOOLEAN]
      /\ \A b \in List!Blocks \ G : b # f => (blkAllocated'[b] <=> blkAllocated[b])
      /\ \A b \in List!Blocks \ G : b = f => ~blkAllocated'[b]
  BY <1>5, Zenon DEF ListInv
<1>8. \A b \in List!Blocks : blkAllocated[b] /\ b # addr => b \in List!Blocks \ G /\ b # f
  BY <1>6, Zenon DEF List!IsFree
<1>9. \A b \in List!Blocks \ G : blkAllocated'[b] => b # addr /\ b # f /\ blkAllocated[b]
  BY <1>6, <1>7, Zenon
<1>10. \A b \in List!Blocks : blkNext[b] # NoBlock => blkAllocated[b] \/ blkAllocated[blkNext[b]]
  BY Zenon DEF ListInv, Coalesced
<1>11. af # NoBlock => af \in List!Blocks /\ blkAllocated[af] /\ af # addr
  <2>1. CASE List!IsFree(nx)
    <3>1. nx \in List!Blocks /\ nx = addr + blkSize[addr]
      BY <1>2, <1>4, <2>1, Zenon DEF List!IsFree
    <3>2. af # NoBlock => af \in List!Blocks /\ af = nx + blkSize[nx] /\ blkAllocated[af]
      BY <1>3, <1>4, <1>10, <2>1, <3>1, Zenon DEF List!IsFree
    <3> QED
      BY <1>4, <3>1, <3>2
  <2>2. CASE ~List!IsFree(nx)
    BY <1>2, <1>3, <1>4, <2>2 DEF List!IsFree
  <2> QED
    BY <2>1, <2>2, Zenon
<1>12. Coalesced'
  <2> SUFFICES ASSUME NEW b \in List!Blocks \ G, blkNext'[b] # NoBlock PROVE blkAllocated'[b] \/ blkAllocated'[blkNext'[b]]
    BY <1>5, Zenon DEF Coalesced
  <2>1. CASE b = f
    <3>1. blkNext'[b] = af
      BY <1>5, <2>1, Zenon
    <3> QED
      BY <1>7, <1>8, <1>11, <3>1, Zenon
  <2>2. CASE b # f
    <3>1. blkNext'[b] = blkNext[b] /\ blkNext[b] # NoBlock /\ b # addr
      BY <1>5, <1>6, <2>2, Zenon
    <3>2. blkNext[b] \in List!Blocks /\ blkPrev[blkNext[b]] = b
      BY <1>4, <3>1, Zenon
    <3>3. CASE blkAllocated[b]
      BY <1>7, <2>2, <3>3, Zenon
    <3>4. CASE blkAllocated[blkNext[b]] /\ blkNext[b] # addr
      BY <1>7, <1>8, <3>1, <3>2, <3>4, Zenon
    <3>5. CASE ~blkAllocated[b] /\ blkNext[b] = addr
      <4>1. b = pv /\ List!IsFree(pv)
        BY <1>2, <1>4, <3>2, <3>5, Zenon DEF List!IsFree
      <4> QED
        BY <1>6, <2>2, <4>1, Zenon
    <3> QED
      BY <1>10, <3>1, <3>3, <3>4, <3>5, Zenon
  <2> QED
    BY <2>1, <2>2, Zenon
<1>13. List!BytesAddUp'
  BY <1>1, <1>5, <1>7, <1>8, <1>9, BytesGiven, Zenon
<1> QED
  BY <1>1, <1>7, <1>12, <1>13, Zenon DEF ListInv

(* Every step keeps the invariant. *)
LEMMA ListStep ==
  ASSUME List!ConstantsOK, ListInv, [List!Step]_(List!listVars)
  PROVE  ListInv'
<1>1. ASSUME NEW size \in BlockSizes, NEW bestFit \in BOOLEAN, List!Malloc(size, bestFit) PROVE ListInv'
  <2>1. PICK b \in List!Fits(size) : IF blkSize[b] > size + Slack THEN List!Split(b, size) ELSE List!Take(b)
    BY <1>1, Zenon DEF List!Malloc
  <2>2. b \in List!Blocks /\ ~blkAllocated[b]
    BY Zenon DEF List!Fits
  <2>3. CASE blkSize[b] > size + Slack
    <3>1. size \in Nat \ {0} /\ Slack \in Nat /\ blkSize[b] \in Int
      BY <2>2, TileFacts, Zenon DEF List!ConstantsOK, ListInv, List!Blocks
    <3>2. size < blkSize[b]
      BY <2>3, <3>1
    <3> QED
      BY <2>1, <2>2, <2>3, <3>1, <3>2, SplitStep, Zenon
  <2>4. CASE ~(blkSize[b] > size + Slack)
    BY <2>1, <2>2, <2>4, TakeStep, Zenon
  <2> QED
    BY <2>3, <2>4, Zenon
<1>2. ASSUME NEW addr \in List!Blocks, List!Free(addr) PROVE ListInv'
  BY <1>2, FreeStep, Zenon
<1>3. ASSUME UNCHANGED List!listVars PROVE ListInv'
  BY <1>3, Zenon DEF List!listVars, ListInv, Tiles, Coalesced, List!BytesAddUp, List!InUse, List!Blocks, List!HeapEnd
<1> QED
  BY <1>1, <1>2, <1>3, Zenon DEF List!Step

(* NewFreeListAllocator: one free block. *)
LEMMA ListStart ==
  ASSUME List!ConstantsOK, List!Init
  PROVE  ListInv
<1>1. /\ HeapStart \in Nat /\ HeapSize \in Nat \ {0} /\ List!HeapEnd = HeapStart + HeapSize /\ NoBlock \notin Int
  BY Zenon DEF List!ConstantsOK, List!HeapEnd
<1>2. /\ DOMAIN blkSize = {HeapStart} /\ blkSize[HeapStart] = HeapSize /\ blkNext[HeapStart] = NoBlock /\ blkPrev[HeapStart] = NoBlock
      /\ blkSize \in [{HeapStart} -> {HeapSize}] /\ blkNext \in [{HeapStart} -> {NoBlock}] /\ blkPrev \in [{HeapStart} -> {NoBlock}]
      /\ ~blkAllocated[HeapStart] /\ blkAllocated \in [{HeapStart} -> BOOLEAN] /\ AllocatedBytes = 0
  BY Zenon DEF List!Init
<1>3. Tiles(blkSize, blkNext, blkPrev)
  BY <1>1, <1>2 DEF Tiles
<1>4. Coalesced
  BY <1>2, Zenon DEF Coalesced, List!Blocks
<1>5. List!BytesAddUp
  <2>1. List!InUse = {}
    BY <1>2, Zenon DEF List!InUse, List!Blocks
  <2> QED
    BY <1>2, <2>1, HeapSets!FS_EmptySet, ListSets, Zenon DEF List!BytesAddUp
<1> QED
  BY <1>2, <1>3, <1>4, <1>5, Zenon DEF ListInv, List!Blocks

(* What the invariant gives. *)
LEMMA ListInvGives ==
  ASSUME List!ConstantsOK, ListInv
  PROVE  List!TypeOK /\ List!BlocksTile /\ List!BytesAddUp
<1>1. List!BytesAddUp /\ AllocatedBytes \in 0..HeapSize
  BY InUseFinite, Zenon DEF ListInv, List!BytesAddUp
<1>2. List!TypeOK
  BY <1>1, Zenon DEF List!TypeOK, ListInv, Tiles, List!Blocks
<1>3. List!BlocksTile
  BY Zenon DEF List!BlocksTile, ListInv, Tiles, List!Blocks, Coalesced
<1> QED
  BY <1>1, <1>2, <1>3, Zenon

(***************************************************************************)
(* For any heap and any sequence of Malloc and Free, first fit or best:    *)
(* the blocks tile the heap, the links agree with them, no two neighbours  *)
(* are free, and AllocatedBytes counts the bytes in use.                   *)
(***************************************************************************)
THEOREM HeapIsTiled == List!Spec => [](List!TypeOK /\ List!BlocksTile /\ List!BytesAddUp)
<1> USE HeapAssumption
<1>1. List!Init => ListInv
  BY ListStart, Zenon
<1>2. ListInv /\ [List!Step]_(List!listVars) => ListInv'
  BY ListStep, Zenon
<1>3. ListInv => List!TypeOK /\ List!BlocksTile /\ List!BytesAddUp
  BY ListInvGives, Zenon
<1> QED
  BY <1>1, <1>2, <1>3, PTL DEF List!Spec

-----------------------------------------------------------------------------
(* FiniteSets as the allocator sees it. *)
LEMMA BuddySets ==
  \A S : HeapSets!Cardinality(S) = Buddy!Cardinality(S) /\ (HeapSets!IsFiniteSet(S) <=> Buddy!IsFiniteSet(S))
BY Zenon DEF HeapSets!Cardinality, Buddy!Cardinality, HeapSets!IsFiniteSet, Buddy!IsFiniteSet

(* A set of natural numbers has a least element: induction in terms of sets. *)
LEMMA LeastNumber ==
  ASSUME NEW S, S \subseteq Nat, S # {}
  PROVE  \E x \in S : \A y \in S : x <= y
<1>1. PICK x \in S : \A y \in S : ~(<<y, x>> \in HeapSets!OpToRel(<, Nat))
  BY HeapSets!NatLessThanWellFounded, HeapSets!WFMin, Zenon
<1>2. ASSUME NEW y \in S PROVE x <= y
  <2>1. x \in Nat /\ y \in Nat
    BY Zenon
  <2>2. ~(y < x)
    BY <1>1, <2>1, Zenon DEF HeapSets!OpToRel
  <2> QED
    BY <2>1, <2>2
<1> QED
  BY <1>2, Zenon

(* Powers of two: blocks are not empty, and each order doubles the last. *)
LEMMA Doubling ==
  ASSUME Buddy!ConstantsOK
  PROVE  /\ MaxOrder \in Nat /\ \A n \in 0..MaxOrder : 2^n \in Nat \ {0}
         /\ \A n \in 0..MaxOrder : n + 1 \in 0..MaxOrder => 2^(n + 1) = 2 * 2^n
<1> DEFINE S == {n \in 0..MaxOrder : ~(2^n >= 1)}
<1>1. MaxOrder \in Nat /\ 2^0 = 1 /\ \A n \in 0..MaxOrder : 2^(n + 1) = 2 * 2^n
  BY Zenon DEF Buddy!ConstantsOK
<1>2. ASSUME NEW n \in 0..MaxOrder PROVE 2^n \in Int
  <2>1. n \in Nat
    BY <1>1
  <2> QED
    BY <2>1
<1>3. ASSUME S # {} PROVE FALSE
  <2>1. S \subseteq Nat
    BY <1>1
  <2>2. PICK n \in S : \A m \in S : n <= m
    BY <1>3, <2>1, LeastNumber, Zenon
  <2>3. n \in 0..MaxOrder /\ ~(2^n >= 1)
    BY <2>2, Zenon
  <2>4. n # 0
    <3>1. n = 0 => 2^n = 1
      BY <1>1, Zenon
    <3> QED
      BY <2>3, <3>1
  <2>5. n - 1 \in 0..MaxOrder /\ (n - 1) + 1 = n /\ ~(n <= n - 1)
    BY <1>1, <2>3, <2>4
  <2>6. n - 1 \notin S
    BY <2>2, <2>5, Zenon
  <2>7. 2^(n - 1) >= 1
    BY <2>5, <2>6, Zenon
  <2>8. 2^((n - 1) + 1) = 2 * 2^(n - 1)
    BY <1>1, <2>5, Zenon
  <2>9. 2^n = 2 * 2^(n - 1)
    BY <2>5, <2>8, Zenon
  <2>10. 2^(n - 1) \in Int
    BY <1>2, <2>5, Zenon
  <2> QED
    BY <2>3, <2>7, <2>9, <2>10
<1>4. ASSUME NEW n \in 0..MaxOrder PROVE 2^n \in Nat \ {0}
  <2>1. n \notin S /\ 2^n \in Int
    BY <1>2, <1>3, Zenon
  <2> QED
    BY <2>1
<1> QED
  BY <1>1, <1>4, Zenon

(* A block is at least as large as one of a lower order. *)
LEMMA Monotone ==
  ASSUME Buddy!ConstantsOK, NEW m \in 0..MaxOrder
  PROVE  \A n \in m..MaxOrder : 2^m <= 2^n
<1> DEFINE S == {n \in m..MaxOrder : ~(2^m <= 2^n)}
<1>0. MaxOrder \in Nat /\ m \in Nat
  BY Doubling
<1>1. SUFFICES ASSUME S # {} PROVE FALSE
  BY Zenon
<1>2. PICK n \in S : \A k \in S : n <= k
  <2>1. S \subseteq Nat
    BY <1>0
  <2> QED
    BY <1>1, <2>1, LeastNumber, Zenon
<1>3. 2^m \in Nat /\ n # m
  BY Doubling
<1>4. n - 1 \in m..MaxOrder /\ n - 1 \in 0..MaxOrder /\ n \in 0..MaxOrder /\ (n - 1) + 1 = n /\ n - 1 \notin S
  BY <1>0, <1>2, <1>3
<1>5. 2^((n - 1) + 1) = 2 * 2^(n - 1) /\ 2^(n - 1) \in Nat
  BY <1>4, Doubling, Zenon
<1>6. 2^m <= 2^(n - 1) /\ 2^n = 2 * 2^(n - 1)
  BY <1>4, <1>5, Zenon
<1> QED
  BY <1>2, <1>3, <1>5, <1>6

(* Multiples. *)
LEMMA Multiple ==
  ASSUME NEW a \in Nat, NEW d \in Nat \ {0}
  PROVE  a % d = 0 <=> \E q \in Nat : a = d * q
<1>1. a = d * (a \div d) + (a % d) /\ a \div d \in Nat
  BY SMT
<1>2. ASSUME NEW q \in Nat, a = d * q PROVE a % d = 0
  BY <1>2
<1>3. ASSUME a % d = 0 PROVE \E q \in Nat : a = d * q
  <2>1. a = d * (a \div d)
    BY <1>1, <1>3
  <2> QED
    BY <1>1, <2>1, Zenon
<1> QED
  BY <1>2, <1>3, Zenon

(* What is aligned to a block is aligned to half of it. *)
LEMMA HalfOf ==
  ASSUME NEW a \in Nat, NEW d \in Nat \ {0}, a % (2 * d) = 0
  PROVE  a % d = 0
<1>1. PICK e \in Nat \ {0} : e = 2 * d
  OBVIOUS
<1>2. PICK q \in Nat : a = e * q
  BY <1>1, Multiple, Zenon
<1>3. PICK h \in Nat : h = 2 * q /\ a = d * h
  BY <1>1, <1>2
<1> QED
  BY <1>3, Multiple, Zenon

(* And to the end of it. *)
LEMMA EndOf ==
  ASSUME NEW a \in Nat, NEW d \in Nat \ {0}, a % d = 0
  PROVE  (a + d) % d = 0
<1>1. PICK q \in Nat : a = d * q
  BY Multiple, Zenon
<1>2. PICK h \in Nat : h = q + 1 /\ a + d = d * h
  BY <1>1
<1>3. PICK b \in Nat : b = a + d
  OBVIOUS
<1>4. b % d = 0
  BY <1>2, <1>3, Multiple, Zenon
<1> QED
  BY <1>3, <1>4, Zenon

(* What is aligned to a block is aligned to every smaller one. *)
LEMMA AlignedBelow ==
  ASSUME Buddy!ConstantsOK, NEW a \in Nat, NEW n \in 0..MaxOrder, a % 2^n = 0
  PROVE  \A m \in 0..n : a % 2^m = 0
<1> DEFINE S == {k \in 0..n : ~(a % 2^(n - k) = 0)}
<1>0. n \in Nat /\ MaxOrder \in Nat /\ n <= MaxOrder
  BY Doubling
<1>1. ASSUME S # {} PROVE FALSE
  <2>1. S \subseteq Nat
    BY <1>0
  <2>2. PICK k \in S : \A j \in S : k <= j
    BY <1>1, <2>1, LeastNumber, Zenon
  <2>3. k \in 0..n /\ ~(a % 2^(n - k) = 0)
    BY <2>2, Zenon
  <2>4. k # 0
    <3>1. n - 0 = n
      BY <1>0
    <3> QED
      BY <2>3, <3>1, Zenon
  <2>5. k - 1 \in 0..n /\ ~(k <= k - 1) /\ n - (k - 1) = (n - k) + 1 /\ n - k \in 0..MaxOrder /\ (n - k) + 1 \in 0..MaxOrder
    BY <1>0, <2>3, <2>4
  <2>6. k - 1 \notin S
    BY <2>2, <2>5, Zenon
  <2>7. a % 2^(n - (k - 1)) = 0
    BY <2>5, <2>6, Zenon
  <2>8. PICK d \in Nat \ {0} : d = 2^(n - k)
    BY <2>5, Doubling, Zenon
  <2>9. 2^((n - k) + 1) = 2 * d
    BY <2>5, <2>8, Doubling, Zenon
  <2>10. a % (2 * d) = 0
    BY <2>5, <2>7, <2>9, Zenon
  <2>11. a % d = 0
    BY <2>10, HalfOf, Zenon
  <2> QED
    BY <2>3, <2>8, <2>11, Zenon
<1>2. ASSUME NEW m \in 0..n PROVE a % 2^m = 0
  <2>1. n - m \in 0..n /\ n - (n - m) = m
    BY <1>0
  <2>2. a % 2^(n - (n - m)) = 0
    BY <1>1, <2>1, Zenon
  <2> QED
    BY <2>1, <2>2, Zenon
<1> QED
  BY <1>2, Zenon

-----------------------------------------------------------------------------
(* The leaves that are handed out. *)
Allocated == {l \in leaves : l.IsAllocated}

(***************************************************************************)
(* The inductive invariant: the tiling, no leaf reaching beyond the memory *)
(* and the sets that are counted being finite.                             *)
(***************************************************************************)
BuddyInv ==
  /\ Buddy!TypeOK /\ Buddy!BuddiesTile
  /\ \A l \in leaves : l.Addr + 2^l.Order <= HeapStart + 2^MaxOrder
  /\ Buddy!IsFiniteSet(granted) /\ Buddy!IsFiniteSet(Allocated)

(* Numbers: what is known of a leaf. *)
LEMMA LeafFacts ==
  ASSUME Buddy!ConstantsOK, Buddy!TypeOK, NEW l \in leaves
  PROVE  /\ l.Addr \in Nat /\ HeapStart <= l.Addr /\ HeapStart \in Nat /\ l.Order \in 0..MaxOrder /\ l.Order \in Nat
         /\ 2^l.Order \in Nat \ {0} /\ 2^MaxOrder \in Nat /\ MaxOrder \in 0..MaxOrder
<1>1. HeapStart \in Nat /\ MaxOrder \in Nat /\ MaxOrder \in 0..MaxOrder
  BY DEF Buddy!ConstantsOK
<1>2. 2^MaxOrder \in Nat
  BY <1>1, Doubling, Zenon
<1>3. l.Addr \in Buddy!Addresses /\ l.Order \in 0..MaxOrder
  BY Zenon DEF Buddy!TypeOK
<1>4. l.Addr \in Nat /\ HeapStart <= l.Addr /\ l.Order \in Nat
  BY <1>1, <1>2, <1>3 DEF Buddy!Addresses
<1>5. 2^l.Order \in Nat \ {0}
  BY <1>3, Doubling, Zenon
<1> QED
  BY <1>1, <1>2, <1>3, <1>4, <1>5, Zenon

(* Fields of the blocks that a leaf is split into. *)
LEMMA BlockFields ==
  \A a, o : /\ [Addr |-> a, Order |-> o, IsAllocated |-> TRUE].Addr = a
            /\ [Addr |-> a, Order |-> o, IsAllocated |-> TRUE].Order = o
            /\ [Addr |-> a, Order |-> o, IsAllocated |-> TRUE].IsAllocated
            /\ [Addr |-> a, Order |-> o, IsAllocated |-> FALSE].Addr = a
            /\ [Addr |-> a, Order |-> o, IsAllocated |-> FALSE].Order = o
            /\ ~[Addr |-> a, Order |-> o, IsAllocated |-> FALSE].IsAllocated
BY Zenon

(* The right halves of what is split begin after what is handed out. *)
LEMMA Halves ==
  ASSUME Buddy!ConstantsOK, NEW A \in Nat, NEW L \in 0..MaxOrder, NEW t \in 0..L
  PROVE  /\ \A o \in t..(L - 1) : /\ o \in 0..MaxOrder /\ 2^o \in Nat \ {0}
                                  /\ A + 2^t <= A + 2^o /\ (A + 2^o) + 2^o <= A + 2^L
         /\ \A o, u \in t..(L - 1) : o < u => (A + 2^o) + 2^o <= A + 2^u
         /\ A + 2^t <= A + 2^L
<1>1. MaxOrder \in Nat /\ L \in Nat /\ t \in Nat /\ t <= L /\ L <= MaxOrder /\ t \in 0..MaxOrder
  BY Doubling
<1>2. 2^L \in Nat /\ 2^t \in Nat
  BY <1>1, Doubling, Zenon
<1>3. ASSUME NEW o \in t..(L - 1), NEW u \in (o + 1)..L
      PROVE  /\ o \in 0..MaxOrder /\ 2^o \in Nat \ {0}
             /\ A + 2^t <= A + 2^o /\ (A + 2^o) + 2^o <= A + 2^u
  <2>1. o \in Nat /\ o \in 0..MaxOrder /\ o + 1 \in 0..MaxOrder /\ u \in (o + 1)..MaxOrder
        /\ u \in 0..MaxOrder /\ o \in t..MaxOrder
    BY <1>1
  <2>2. 2^o \in Nat \ {0} /\ 2^u \in Nat /\ 2^(o + 1) = 2 * 2^o
    BY <2>1, Doubling, Zenon
  <2>3. 2^t <= 2^o
    BY <1>1, <2>1, Monotone, Zenon
  <2>4. 2^(o + 1) <= 2^u
    BY <2>1, Monotone, Zenon
  <2> QED
    BY <1>2, <2>1, <2>2, <2>3, <2>4
<1>4. A + 2^t <= A + 2^L
  <2>1. 2^t <= 2^L
    BY <1>1, Monotone
  <2> QED
    BY <1>2, <2>1
<1>5. ASSUME NEW o \in t..(L - 1)
      PROVE  /\ L \in (o + 1)..L
             /\ \A u \in t..(L - 1) : o < u => u \in (o + 1)..L
  BY <1>1
<1> QED
  BY <1>3, <1>4, <1>5, Zenon

(* An address of the leaf is in one of its parts. *)
LEMMA Covered ==
  ASSUME Buddy!ConstantsOK, NEW A \in Nat, NEW L \in 0..MaxOrder, NEW t \in 0..L,
         NEW a \in A..(A + 2^L - 1)
  PROVE  \/ a \in A..(A + 2^t - 1)
         \/ \E o \in t..(L - 1) : a \in (A + 2^o)..((A + 2^o) + 2^o - 1)
<1> DEFINE S == {o \in t..L : a < A + 2^o}
<1>1. MaxOrder \in Nat /\ L \in Nat /\ t \in Nat /\ t <= L /\ L <= MaxOrder /\ t \in 0..MaxOrder /\ 2^L \in Nat /\ 2^t \in Nat
  <2>1. MaxOrder \in Nat /\ L \in Nat /\ t \in Nat /\ t <= L /\ L <= MaxOrder /\ t \in 0..MaxOrder
    BY Doubling
  <2> QED
    BY <2>1, Doubling, Zenon
<1>2. a \in Int /\ A <= a /\ a < A + 2^L
  BY <1>1
<1>3. PICK o \in S : \A u \in S : o <= u
  <2>1. S \subseteq Nat /\ L \in S
    BY <1>1, <1>2
  <2> QED
    BY <2>1, LeastNumber, Zenon
<1>4. o \in t..L /\ a < A + 2^o
  BY <1>3, Zenon
<1>5. CASE o = t
  BY <1>1, <1>2, <1>4, <1>5
<1>6. CASE o # t
  <2>1. o - 1 \in t..(L - 1) /\ o - 1 \in t..L /\ (o - 1) + 1 = o /\ ~(o <= o - 1) /\ o - 1 \in 0..MaxOrder /\ o \in 0..MaxOrder
    BY <1>1, <1>4, <1>6
  <2>2. PICK d \in Nat : d = 2^(o - 1)
    BY <2>1, Doubling, Zenon
  <2>3. 2^((o - 1) + 1) = 2 * d
    BY <2>1, <2>2, Doubling, Zenon
  <2>4. 2^o = 2 * d
    BY <2>1, <2>3, Zenon
  <2>5. ~(a < A + d)
    BY <1>3, <2>1, <2>2, Zenon
  <2>6. a \in (A + d)..((A + d) + d - 1)
    BY <1>2, <1>4, <2>4, <2>5
  <2> QED
    BY <2>1, <2>2, <2>6, Zenon
<1> QED
  BY <1>5, <1>6, Zenon

(* Allocate. *)
LEMMA AllocateStep ==
  ASSUME Buddy!ConstantsOK, BuddyInv, NEW size \in BuddySizes, Buddy!Allocate(size)
  PROVE  BuddyInv'
<1>1. PICK t \in MinOrder..MaxOrder, leaf \in leaves :
        /\ Buddy!TargetOrder(size, t) /\ Buddy!FindAndSplit(leaf, t)
        /\ granted' = granted \cup {<<leaf.Addr, size>>}
  BY Zenon DEF Buddy!Allocate
<1>2. PICK A, L : A = leaf.Addr /\ L = leaf.Order
  BY Zenon
<1> DEFINE new == [Addr |-> A, Order |-> t, IsAllocated |-> TRUE]
           right(o) == [Addr |-> A + 2^o, Order |-> o, IsAllocated |-> FALSE]
<1>3. ~leaf.IsAllocated /\ t <= L
  BY <1>1, <1>2, Zenon DEF Buddy!FindAndSplit, Buddy!LargeEnough
<1>4. leaves' = (leaves \ {leaf}) \cup {new} \cup {right(o) : o \in t..(L - 1)}
  BY <1>1, <1>2, Zenon DEF Buddy!FindAndSplit
<1>5. \A o : /\ new.Addr = A /\ new.Order = t /\ new.IsAllocated
             /\ right(o).Addr = A + 2^o /\ right(o).Order = o /\ ~right(o).IsAllocated
  BY BlockFields, Zenon
<1>6. new \in [Addr : {A}, Order : {t}, IsAllocated : BOOLEAN]
      /\ \A o : right(o) \in [Addr : {A + 2^o}, Order : {o}, IsAllocated : BOOLEAN]
  BY Zenon
<1> HIDE DEF new, right
<1>7. /\ A \in Nat /\ HeapStart <= A /\ HeapStart \in Nat /\ L \in 0..MaxOrder /\ 2^L \in Nat \ {0} /\ 2^MaxOrder \in Nat
      /\ A + 2^L <= HeapStart + 2^MaxOrder
  BY <1>1, <1>2, LeafFacts, Zenon DEF BuddyInv
<1>8. t \in 0..L /\ t \in 0..MaxOrder /\ MinOrder \in Nat /\ MaxOrder \in Nat /\ t \in Nat
  BY <1>3, <1>7 DEF Buddy!ConstantsOK
<1>9. 2^t \in Nat \ {0}
  BY <1>8, Doubling, Zenon
<1>10. /\ \A o \in t..(L - 1) : /\ o \in 0..MaxOrder /\ 2^o \in Nat \ {0}
                                /\ A + 2^t <= A + 2^o /\ (A + 2^o) + 2^o <= A + 2^L
       /\ \A o, u \in t..(L - 1) : o < u => (A + 2^o) + 2^o <= A + 2^u
       /\ A + 2^t <= A + 2^L
  BY <1>7, <1>8, Halves, Zenon
<1>11. \A l \in leaves : l.Addr \in Nat /\ l.Order \in 0..MaxOrder /\ 2^l.Order \in Nat \ {0}
  BY LeafFacts, Zenon DEF BuddyInv
<1>12. \A l \in leaves : l # leaf => l.Addr + 2^l.Order <= A \/ A + 2^L <= l.Addr
  BY <1>1, <1>2, Zenon DEF BuddyInv, Buddy!BuddiesTile
<1>13. Buddy!TypeOK'
  <2>1. A \in Buddy!Addresses /\ \A o \in t..(L - 1) : A + 2^o \in Buddy!Addresses
    BY <1>7, <1>10 DEF Buddy!Addresses
  <2>2. new \in [Addr : Buddy!Addresses, Order : 0..MaxOrder, IsAllocated : BOOLEAN]
    BY <1>6, <1>8, <2>1, Zenon
  <2>3. \A o \in t..(L - 1) : right(o) \in [Addr : Buddy!Addresses, Order : 0..MaxOrder, IsAllocated : BOOLEAN]
    BY <1>6, <1>10, <2>1, Zenon
  <2>4. leaves' \subseteq [Addr : Buddy!Addresses, Order : 0..MaxOrder, IsAllocated : BOOLEAN]
    BY <1>4, <2>2, <2>3, Zenon DEF BuddyInv, Buddy!TypeOK
  <2>5. granted' \subseteq Buddy!Addresses \X BuddySizes
    BY <1>1, <1>2, <2>1 DEF BuddyInv, Buddy!TypeOK
  <2> QED
    BY <2>4, <2>5, Zenon DEF Buddy!TypeOK, Buddy!Addresses
<1>14. \A l \in leaves' : l.Addr + 2^l.Order <= HeapStart + 2^MaxOrder
  <2>1. new.Addr + 2^new.Order <= HeapStart + 2^MaxOrder
    BY <1>5, <1>7, <1>9, <1>10
  <2>2. ASSUME NEW o \in t..(L - 1) PROVE right(o).Addr + 2^right(o).Order <= HeapStart + 2^MaxOrder
    <3>1. (A + 2^o) + 2^o <= HeapStart + 2^MaxOrder
      BY <1>7, <1>10
    <3> QED
      BY <1>5, <3>1, Zenon
  <2> QED
    BY <1>4, <2>1, <2>2, Zenon DEF BuddyInv
<1>15. \A l \in leaves' : (l.Addr - HeapStart) % 2^l.Order = 0
  <2>1. PICK a \in Nat : a = A - HeapStart
    BY <1>7
  <2>2. a % 2^L = 0
    BY <1>1, <1>2, <2>1, Zenon DEF BuddyInv, Buddy!BuddiesTile
  <2>3. \A m \in 0..L : a % 2^m = 0
    BY <1>7, <2>2, AlignedBelow, Zenon
  <2>4. (new.Addr - HeapStart) % 2^new.Order = 0
    BY <1>5, <1>8, <2>1, <2>3, Zenon
  <2>5. ASSUME NEW o \in t..(L - 1) PROVE (right(o).Addr - HeapStart) % 2^right(o).Order = 0
    <3>1. PICK d \in Nat \ {0} : d = 2^o
      BY <1>10, Zenon
    <3>2. o \in 0..L
      BY <1>7, <1>8
    <3>3. a % d = 0
      BY <2>3, <3>1, <3>2, Zenon
    <3>4. (a + d) % d = 0
      BY <3>3, EndOf, Zenon
    <3>5. (A + d) - HeapStart = a + d
      BY <1>7, <2>1
    <3> QED
      BY <1>5, <3>1, <3>4, <3>5, Zenon
  <2> QED
    BY <1>4, <2>4, <2>5, Zenon DEF BuddyInv, Buddy!BuddiesTile
<1>16. \A l, m \in leaves' : l # m => l.Addr + 2^l.Order <= m.Addr \/ m.Addr + 2^m.Order <= l.Addr
  <2> DEFINE Apart(l, m) == l.Addr + 2^l.Order <= m.Addr \/ m.Addr + 2^m.Order <= l.Addr
  <2>1. ASSUME NEW l \in leaves, NEW m \in leaves, l # m PROVE Apart(l, m)
    BY <2>1, Zenon DEF BuddyInv, Buddy!BuddiesTile
  <2>2. ASSUME NEW l \in leaves \ {leaf} PROVE Apart(l, new)
    <3>1. l.Addr + 2^l.Order <= A \/ A + 2^t <= l.Addr
      BY <1>7, <1>9, <1>10, <1>11, <1>12
    <3> QED
      BY <1>5, <3>1, Zenon
  <2>3. ASSUME NEW l \in leaves \ {leaf}, NEW o \in t..(L - 1) PROVE Apart(l, right(o))
    <3>1. l.Addr + 2^l.Order <= A + 2^o \/ (A + 2^o) + 2^o <= l.Addr
      BY <1>7, <1>10, <1>11, <1>12
    <3> QED
      BY <1>5, <3>1, Zenon
  <2>4. ASSUME NEW o \in t..(L - 1) PROVE Apart(new, right(o))
    BY <1>5, <1>10, Zenon
  <2>5. ASSUME NEW o \in t..(L - 1), NEW u \in t..(L - 1), right(o) # right(u) PROVE Apart(right(o), right(u))
    <3>1. o # u
      BY <2>5, Zenon
    <3>2. o < u \/ u < o
      BY <1>7, <1>8, <3>1
    <3>3. (A + 2^o) + 2^o <= A + 2^u \/ (A + 2^u) + 2^u <= A + 2^o
      BY <1>10, <3>2, Zenon
    <3> QED
      BY <1>5, <3>3, Zenon
  <2>6. \A l, m : Apart(l, m) => Apart(m, l)
    BY Zenon
  <2> HIDE DEF Apart
  <2>7. \A l, m \in leaves' : l # m => Apart(l, m)
    <3>1. \A l \in leaves' : l \in leaves \ {leaf} \/ l = new \/ \E o \in t..(L - 1) : l = right(o)
      BY <1>4, Zenon
    <3> SUFFICES ASSUME NEW l \in leaves', NEW m \in leaves', l # m PROVE Apart(l, m)
      BY Zenon
    <3>2. CASE l \in leaves \ {leaf}
      BY <2>1, <2>2, <2>3, <3>1, <3>2, Zenon
    <3>3. CASE l = new
      BY <2>2, <2>4, <2>6, <3>1, <3>3, Zenon
    <3>4. ASSUME NEW o \in t..(L - 1), l = right(o) PROVE Apart(l, m)
      BY <2>3, <2>4, <2>5, <2>6, <3>1, <3>4, Zenon
    <3> QED
      BY <3>1, <3>2, <3>3, <3>4, Zenon
  <2> QED
    BY <2>7, Zenon DEF Apart
<1>17. \A a \in Buddy!Addresses : \E l \in leaves' : a \in l.Addr..(l.Addr + 2^l.Order - 1)
  <2> SUFFICES ASSUME NEW a \in Buddy!Addresses PROVE \E l \in leaves' : a \in l.Addr..(l.Addr + 2^l.Order - 1)
    BY Zenon
  <2>1. PICK l \in leaves : a \in l.Addr..(l.Addr + 2^l.Order - 1)
    BY Zenon DEF BuddyInv, Buddy!BuddiesTile
  <2>2. CASE l # leaf
    BY <1>4, <2>1, <2>2, Zenon
  <2>3. CASE l = leaf
    <3>1. a \in A..(A + 2^L - 1)
      BY <1>2, <2>1, <2>3, Zenon
    <3>2. \/ a \in A..(A + 2^t - 1)
          \/ \E o \in t..(L - 1) : a \in (A + 2^o)..((A + 2^o) + 2^o - 1)
      BY <1>7, <1>8, <3>1, Covered, Zenon
    <3> QED
      BY <1>4, <1>5, <3>2, Zenon
  <2> QED
    BY <2>2, <2>3, Zenon
<1>18. \A g \in granted' : \E l \in leaves' :
         /\ l.Addr = g[1] /\ l.IsAllocated /\ g[2] <= 2^l.Order
         /\ l.Order = MinOrder \/ 2^(l.Order - 1) < g[2]
  <2>1. ASSUME NEW g \in granted
        PROVE  \E l \in leaves' : /\ l.Addr = g[1] /\ l.IsAllocated /\ g[2] <= 2^l.Order
                                  /\ l.Order = MinOrder \/ 2^(l.Order - 1) < g[2]
    <3>1. PICK l \in leaves : /\ l.Addr = g[1] /\ l.IsAllocated /\ g[2] <= 2^l.Order
                              /\ l.Order = MinOrder \/ 2^(l.Order - 1) < g[2]
      BY Zenon DEF BuddyInv, Buddy!BuddiesTile
    <3>2. l \in leaves'
      BY <1>3, <1>4, <3>1, Zenon
    <3> QED
      BY <3>1, <3>2, Zenon
  <2>2. PICK g : g = <<A, size>>
    BY Zenon
  <2>3. g[1] = A /\ g[2] = size
    BY <2>2, Zenon
  <2>4. size <= 2^t /\ (t = MinOrder \/ 2^(t - 1) < size)
    <3>1. 2^t >= size /\ \A o \in MinOrder..(t - 1) : 2^o < size
      BY <1>1, Zenon DEF Buddy!TargetOrder
    <3>2. t # MinOrder => t - 1 \in MinOrder..(t - 1)
      BY <1>1, <1>8
    <3>3. size \in Nat
      BY Zenon DEF Buddy!ConstantsOK
    <3> QED
      BY <1>9, <3>1, <3>2, <3>3, Zenon
  <2>5. new \in leaves' /\ granted' = granted \cup {g}
    BY <1>1, <1>2, <1>4, <2>2, Zenon
  <2>6. /\ new.Addr = g[1] /\ new.IsAllocated /\ g[2] <= 2^new.Order
        /\ new.Order = MinOrder \/ 2^(new.Order - 1) < g[2]
    BY <1>5, <2>3, <2>4, Zenon
  <2> QED
    BY <2>1, <2>5, <2>6, Zenon
<1>19. /\ Buddy!IsFiniteSet(granted') /\ Buddy!IsFiniteSet(Allocated')
       /\ Buddy!Cardinality(granted') = Buddy!Cardinality(Allocated')
  <2>1. \A l \in leaves : l.IsAllocated => l.Addr # A
    <3> SUFFICES ASSUME NEW l \in leaves, l.IsAllocated, l.Addr = A PROVE FALSE
      BY Zenon
    <3>1. l # leaf
      BY <1>3, Zenon
    <3> QED
      BY <1>7, <1>11, <1>12, <3>1
  <2>2. <<A, size>> \notin granted
    <3>1. \A g \in granted : \E l \in leaves : l.Addr = g[1] /\ l.IsAllocated
      BY Zenon DEF BuddyInv, Buddy!BuddiesTile
    <3> QED
      BY <2>1, <3>1, Zenon
  <2>3. new \notin Allocated
    BY <1>5, <2>1, Zenon DEF Allocated
  <2>4. Allocated' = Allocated \cup {new}
    BY <1>3, <1>4, <1>5, Zenon DEF Allocated
  <2>5. granted' = granted \cup {<<A, size>>}
    BY <1>1, <1>2, Zenon
  <2>6. /\ Buddy!IsFiniteSet(granted \cup {<<A, size>>})
        /\ Buddy!Cardinality(granted \cup {<<A, size>>}) = Buddy!Cardinality(granted) + 1
    BY <2>2, HeapSets!FS_AddElement, BuddySets, Zenon DEF BuddyInv
  <2>7. Buddy!IsFiniteSet(Allocated \cup {new}) /\ Buddy!Cardinality(Allocated \cup {new}) = Buddy!Cardinality(Allocated) + 1
    BY <2>3, HeapSets!FS_AddElement, BuddySets, Zenon DEF BuddyInv
  <2>8. Buddy!Cardinality(granted) = Buddy!Cardinality(Allocated)
    BY Zenon DEF BuddyInv, Buddy!BuddiesTile, Allocated
  <2> QED
    BY <2>4, <2>5, <2>6, <2>7, <2>8, Zenon
<1>20. Buddy!BuddiesTile'
  BY <1>15, <1>16, <1>17, <1>18, <1>19, Zenon DEF Buddy!BuddiesTile, Allocated, Buddy!Addresses
<1> QED
  BY <1>13, <1>14, <1>19, <1>20, Zenon DEF BuddyInv

(* NewBuddyAllocator: one free leaf. *)
LEMMA BuddyStart ==
  ASSUME Buddy!ConstantsOK, Buddy!Init
  PROVE  BuddyInv
<1>1. PICK root : root = [Addr |-> HeapStart, Order |-> MaxOrder, IsAllocated |-> FALSE]
  BY Zenon
<1>2. root.Addr = HeapStart /\ root.Order = MaxOrder /\ ~root.IsAllocated
  BY <1>1, BlockFields, Zenon
<1>3. leaves = {root} /\ granted = {}
  BY <1>1, Zenon DEF Buddy!Init
<1>4. /\ HeapStart \in Nat /\ MaxOrder \in Nat /\ MaxOrder \in 0..MaxOrder
  BY DEF Buddy!ConstantsOK
<1>5. PICK d \in Nat \ {0} : d = 2^MaxOrder
  BY <1>4, Doubling, Zenon
<1>6. Buddy!TypeOK
  <2>1. HeapStart \in Buddy!Addresses
    BY <1>4, <1>5 DEF Buddy!Addresses
  <2>2. root \in [Addr : {HeapStart}, Order : {MaxOrder}, IsAllocated : BOOLEAN]
    BY <1>1, Zenon
  <2> QED
    BY <1>3, <1>4, <2>1, <2>2, Zenon DEF Buddy!TypeOK
<1>7. (HeapStart - HeapStart) % d = 0
  <2>1. HeapStart - HeapStart = 0 /\ 0 % d = 0
    BY <1>4
  <2> QED
    BY <2>1, Zenon
<1>8. Allocated = {}
  BY <1>2, <1>3, Zenon DEF Allocated
<1>9. \A l \in leaves : (l.Addr - HeapStart) % 2^l.Order = 0
  BY <1>2, <1>3, <1>5, <1>7, Zenon
<1>10. \A a \in Buddy!Addresses : \E l \in leaves : a \in l.Addr..(l.Addr + 2^l.Order - 1)
  BY <1>2, <1>3, Zenon DEF Buddy!Addresses
<1>11. Buddy!BuddiesTile
  BY <1>3, <1>8, <1>9, <1>10, Zenon DEF Buddy!BuddiesTile, Allocated
<1>12. \A l \in leaves : l.Addr + 2^l.Order <= HeapStart + 2^MaxOrder
  BY <1>2, <1>3, <1>4, <1>5
<1>13. Buddy!IsFiniteSet(granted) /\ Buddy!IsFiniteSet(Allocated)
  BY <1>3, <1>8, HeapSets!FS_EmptySet, BuddySets, Zenon
<1> QED
  BY <1>6, <1>11, <1>12, <1>13, Zenon DEF BuddyInv

(* Every step keeps the invariant. *)
LEMMA BuddyStep ==
  ASSUME Buddy!ConstantsOK, BuddyInv, [Buddy!Next]_(Buddy!buddyVars)
  PROVE  BuddyInv'
<1>1. ASSUME NEW size \in BuddySizes, Buddy!Allocate(size) PROVE BuddyInv'
  BY <1>1, AllocateStep, Zenon
<1>2. ASSUME UNCHANGED Buddy!buddyVars PROVE BuddyInv'
  BY <1>2, Zenon DEF Buddy!buddyVars, BuddyInv, Buddy!TypeOK, Buddy!BuddiesTile, Allocated, Buddy!Addresses
<1> QED
  BY <1>1, <1>2, Zenon DEF Buddy!Next

(***************************************************************************)
(* For any memory and any requests: the leaves are aligned, tile the       *)
(* memory, and each request has a leaf of the right size of its own.       *)
(***************************************************************************)
THEOREM MemoryIsTiled == Buddy!Spec => [](Buddy!TypeOK /\ Buddy!BuddiesTile)
<1> USE HeapAssumption
<1>1. Buddy!Init => BuddyInv
  BY BuddyStart, Zenon
<1>2. BuddyInv /\ [Buddy!Next]_(Buddy!buddyVars) => BuddyInv'
  BY BuddyStep, Zenon
<1>3. BuddyInv => Buddy!TypeOK /\ Buddy!BuddiesTile
  BY Zenon DEF BuddyInv
<1> QED
  BY <1>1, <1>2, <1>3, PTL DEF Buddy!Spec

-----------------------------------------------------------------------------
(* Both allocators keep their blocks apart and leave no gap. *)
THEOREM AllocatorsTile == List!Spec /\ Buddy!Spec => []AllocatorsInv
BY HeapIsTiled, MemoryIsTiled, PTL DEF AllocatorsInv

(***************************************************************************)
(* However calls and returns alternate, frames tile the used part of the   *)
(* stack, and however Sbrk is called the break stays within the heap.      *)
(***************************************************************************)
THEOREM StackAndHeapWithinBounds == Stack!Spec /\ AS!Spec => []StackAndHeapInv
<1>1. Stack!Spec => [](Stack!TypeOK /\ Stack!FramesNest)
  BY HeapAssumption, FramesAlwaysNest, Zenon
<1>2. AS!Spec => [](AS!TypeOK /\ AS!HeapBounded)
  BY HeapAssumption, BreakWithinHeap, Zenon
<1> QED
  BY <1>1, <1>2, PTL DEF StackAndHeapInv

=============================================================================
