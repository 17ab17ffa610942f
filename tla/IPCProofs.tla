----------------------------- MODULE IPCProofs -----------------------------
(***************************************************************************)
(* How threads pass data on, for any values of the constants: a shared     *)
(* segment, which the program's semaphore protects, the shared memory      *)
(* manager, the message queue, and the bounded buffer, which is built from *)
(* the program's mutex and condition variables.                            *)
(***************************************************************************)
EXTENDS BoundedBuffer, MCShared, BasicLemmas

(* Whoever has the segment's one permit, or is about to get it. *)
Owners == semHolders \cup Seg!Semaphore!InFlight

(* The semaphore with one permit as a lock: one owner at most, and none     *)
(* while the value is 1; the channels in the queue, popped or closed are of *)
(* threads that block, and the owner's is not in the queue.                 *)
OneOwner ==
  /\ semAsLock = TRUE /\ semValue <= 1 /\ (semValue = 1 => Owners = {})
  /\ Len(semWaiters) = Seg!Semaphore!PositivePart(-semValue)
  /\ \A t, u \in Owners : t = u
  /\ \A t \in semHolders : semPC[t] = "idle"
  /\ \A t \in Seg!Semaphore!InFlight \cup Elements(semWaiters) : semPC[t] = "blocked"
  /\ Seg!Semaphore!InFlight \cap Elements(semWaiters) = {}
  /\ Distinct(semWaiters)
  /\ \A t \in SegThreads : semPC[t] = "closing" => semPopped[t] \in SegThreads \ semClosed
  /\ \A t, u \in SegThreads : semPC[t] = "closing" /\ semPC[u] = "closing" => t = u

(* A thread that holds or waits is in a call, and only the holder has       *)
(* copied anything; what a reader has copied is what is there, and without  *)
(* a writer that is what the last write left.                               *)
Copies ==
  /\ \A t \in SegThreads : segCall[t] = NoCall => t \notin semHolders /\ semPC[t] # "blocked"
  /\ \A t \in SegThreads : t \notin semHolders => segCopied[t] = 0
  /\ \A t \in semHolders : segCopied[t] <= Seg!Length(t)
  /\ \A t \in semHolders : segCall[t] = <<>> =>
       \A i \in 1..Seg!Size : i <= segCopied[t] => segOut[t][i] = segData[i]
  /\ (\A t \in semHolders : segCall[t] = <<>>) => segData = segSettled

SegInv == Seg!TypeOK /\ OneOwner /\ Copies

(* The data of a call. *)
LEMMA PayloadLemma ==
  ASSUME NEW d \in Seg!Payloads
  PROVE  d # <<>> /\ Len(d) \in 1..Seg!Size /\ \A i \in 1..Len(d) : d[i] \in Bytes
<1>1. CASE \E a \in Bytes : d = <<a>>
  BY <1>1 DEF Seg!Size
<1>2. CASE \E a, b \in Bytes : d = <<a, b>>
  BY <1>2 DEF Seg!Size
<1> QED
  BY <1>1, <1>2 DEF Seg!Payloads

(* How much a call copies. *)
LEMMA CallLength ==
  ASSUME Seg!TypeOK, NEW t \in SegThreads, segCall[t] # NoCall
  PROVE  /\ Seg!Length(t) \in 1..Seg!Size
         /\ segCall[t] # <<>> => Seg!Length(t) = Len(segCall[t]) /\ \A i \in 1..Seg!Length(t) : segCall[t][i] \in Bytes
         /\ segCall[t] = <<>> => Seg!Length(t) = Seg!Size
<1>1. segCall[t] \in Seg!Payloads \cup {<<>>}
  BY Zenon DEF Seg!TypeOK
<1> QED
  BY <1>1, PayloadLemma DEF Seg!Length, Seg!Size

(* Wait: the permit goes to a thread that finds no owner. *)
LEMMA WaitStep ==
  ASSUME Seg!Semaphore!TypeOK, OneOwner, NEW t \in SegThreads, t \notin semHolders, Seg!Semaphore!Wait(t)
  PROVE  /\ Seg!Semaphore!TypeOK' /\ OneOwner'
         /\ \/ semHolders = {} /\ semHolders' = {t} /\ semPC' = semPC
            \/ semHolders' = semHolders /\ semPC' = [semPC EXCEPT ![t] = "blocked"]
<1>1. /\ semValue' = semValue - 1 /\ semValue \in Int /\ semPC[t] = "idle" /\ semAsLock' = semAsLock
      /\ semClosed' = semClosed /\ semPopped' = semPopped /\ semWaiters \in Seq(SegThreads)
      /\ semPC \in [SegThreads -> {"idle", "blocked", "closing"}]
  BY Zenon DEF Seg!Semaphore!Wait, Seg!Semaphore!WaitPasses, Seg!Semaphore!WaitBlocks, Seg!Semaphore!TypeOK
<1>2. CASE Seg!Semaphore!WaitPasses(t)
  <2>1. semValue = 1 /\ Owners = {}
    BY <1>1, <1>2 DEF Seg!Semaphore!WaitPasses, Seg!Semaphore!Passes, OneOwner
  <2>2. semHolders = {} /\ Seg!Semaphore!InFlight = {}
    BY <2>1, Zenon DEF Owners
  <2>3. semHolders' = {t} /\ semPC' = semPC /\ semWaiters' = semWaiters /\ semPermits' = semPermits + 1
    BY <1>2, <2>2, Zenon DEF Seg!Semaphore!WaitPasses
  <2>4. Seg!Semaphore!InFlight' = {} /\ Owners' = {t}
    BY <1>1, <2>2, <2>3, Zenon DEF Seg!Semaphore!InFlight, Owners
  <2>5. Seg!Semaphore!TypeOK'
    BY <1>1, <2>3 DEF Seg!Semaphore!TypeOK
  <2>6. semValue' = 0 /\ Len(semWaiters') = Seg!Semaphore!PositivePart(-semValue')
    BY <1>1, <2>1, <2>3 DEF OneOwner, Seg!Semaphore!PositivePart
  <2>7. OneOwner'
    BY <1>1, <2>2, <2>3, <2>4, <2>6 DEF OneOwner
  <2> QED
    BY <2>2, <2>3, <2>5, <2>7, Zenon
<1>3. CASE Seg!Semaphore!WaitBlocks(t)
  <2>1. /\ semValue <= 0 /\ semHolders' = semHolders /\ semPC' = [semPC EXCEPT ![t] = "blocked"]
        /\ semWaiters' = Append(semWaiters, t) /\ semPermits' = semPermits
    BY <1>1, <1>3 DEF Seg!Semaphore!WaitBlocks, Seg!Semaphore!Passes
  <2>2. Seg!Semaphore!InFlight' = Seg!Semaphore!InFlight /\ Owners' = Owners
    BY <1>1, <2>1, Zenon DEF Seg!Semaphore!InFlight, Owners
  <2>3. t \notin Seg!Semaphore!InFlight \cup Elements(semWaiters)
    BY <1>1, Zenon DEF OneOwner
  <2>4. Distinct(semWaiters)
    BY Zenon DEF OneOwner
  <2>5. semWaiters' \in Seq(SegThreads) /\ Len(semWaiters') = Len(semWaiters) + 1
    BY <1>1, <2>1, AppendTo, Zenon
  <2>6. Elements(semWaiters') = Elements(semWaiters) \cup {t} /\ Distinct(semWaiters')
    BY <1>1, <2>1, <2>3, <2>4, WaitLemma
  <2>7. Seg!Semaphore!TypeOK'
    BY <1>1, <2>1, <2>5 DEF Seg!Semaphore!TypeOK
  <2>8. semValue' <= 1 /\ semValue' # 1 /\ Len(semWaiters') = Seg!Semaphore!PositivePart(-semValue')
    BY <1>1, <2>1, <2>5 DEF OneOwner, Seg!Semaphore!PositivePart
  <2>9. \A u \in Seg!Semaphore!InFlight' \cup Elements(semWaiters') : semPC'[u] = "blocked"
    BY <1>1, <2>1, <2>2, <2>6 DEF OneOwner
  <2>10. /\ Seg!Semaphore!InFlight' \cap Elements(semWaiters') = {}
         /\ \A u \in semHolders' : semPC'[u] = "idle"
    BY <1>1, <2>1, <2>2, <2>3, <2>6 DEF OneOwner
  <2>11. OneOwner'
    BY <1>1, <2>1, <2>2, <2>6, <2>8, <2>9, <2>10 DEF OneOwner
  <2> QED
    BY <2>1, <2>7, <2>11, Zenon
<1> QED
  BY <1>2, <1>3, Zenon DEF Seg!Semaphore!Wait

(* Signal: the permit is put back, or goes to the first of the queue. *)
LEMMA SignalStep ==
  ASSUME Seg!Semaphore!TypeOK, OneOwner, NEW t \in SegThreads, t \in semHolders, Seg!Semaphore!Signal(t)
  PROVE  /\ Seg!Semaphore!TypeOK' /\ OneOwner' /\ semHolders = {t} /\ semHolders' = {}
         /\ \A u \in SegThreads : semPC'[u] = "blocked" => semPC[u] = "blocked" /\ u # t
<1>1. /\ semValue' = semValue + 1 /\ semValue \in Int /\ semPC[t] = "idle" /\ semAsLock' = semAsLock
      /\ semClosed' = semClosed /\ semClosed \subseteq SegThreads /\ semWaiters \in Seq(SegThreads)
      /\ semPC \in [SegThreads -> {"idle", "blocked", "closing"}]
      /\ semHolders' = semHolders \ {t} /\ semPermits' = semPermits - 1
      /\ semPopped \in [SegThreads -> SegThreads \cup {NoSegThread}]
  BY Zenon DEF Seg!Semaphore!Signal, Seg!Semaphore!SignalFree, Seg!Semaphore!SignalPop, Seg!Semaphore!TypeOK
<1>2. Owners = {t} /\ semHolders = {t} /\ Seg!Semaphore!InFlight = {}
  <2>1. t \in Owners /\ t \notin Seg!Semaphore!InFlight
    BY <1>1, Zenon DEF Owners, OneOwner
  <2> QED
    BY <2>1, Zenon DEF Owners, OneOwner
<1>3. semClosed = {} /\ \A u \in SegThreads : semPC[u] # "closing"
  BY <1>2, Zenon DEF Seg!Semaphore!InFlight
<1>4. semValue <= 0
  BY <1>1, <1>2 DEF OneOwner
<1>5. CASE Seg!Semaphore!SignalFree(t)
  <2>1. semPC' = semPC /\ semPopped' = semPopped /\ semWaiters' = semWaiters /\ semWaiters = <<>>
    BY <1>5, Zenon DEF Seg!Semaphore!SignalFree
  <2>2. Owners' = {} /\ Seg!Semaphore!InFlight' = {}
    BY <1>1, <1>2, <1>3, <2>1, Zenon DEF Owners, Seg!Semaphore!InFlight
  <2>3. Seg!Semaphore!TypeOK'
    BY <1>1, <2>1 DEF Seg!Semaphore!TypeOK
  <2>4. semValue' <= 1 /\ Len(semWaiters') = Seg!Semaphore!PositivePart(-semValue')
    BY <1>1, <1>4, <2>1 DEF OneOwner, Seg!Semaphore!PositivePart
  <2>5. OneOwner'
    BY <1>1, <1>2, <2>1, <2>2, <2>4, Zenon DEF OneOwner
  <2> QED
    BY <1>1, <1>2, <2>1, <2>3, <2>5, Zenon
<1>6. CASE Seg!Semaphore!SignalPop(t)
  <2> DEFINE h == Head(semWaiters)
  <2>1. /\ semWaiters # <<>> /\ semWaiters' = Tail(semWaiters) /\ semPopped' = [semPopped EXCEPT ![t] = h]
        /\ semPC' = [semPC EXCEPT ![t] = "closing"]
    BY <1>6, Zenon DEF Seg!Semaphore!SignalPop
  <2>2. Distinct(semWaiters)
    BY Zenon DEF OneOwner
  <2>3. /\ h \in SegThreads /\ h \in Elements(semWaiters) /\ semWaiters' \in Seq(SegThreads)
        /\ Distinct(semWaiters') /\ Len(semWaiters') = Len(semWaiters) - 1
        /\ Elements(semWaiters') = Elements(semWaiters) \ {h}
    BY <1>1, <2>1, <2>2, PopLemma, Zenon
  <2>4. semPC[h] = "blocked" /\ h # t
    BY <1>1, <2>3, Zenon DEF OneOwner
  <2> HIDE DEF h
  <2>5. Seg!Semaphore!InFlight' = {h} /\ semHolders' = {} /\ Owners' = {h}
    <3>1. {u \in SegThreads : semPC'[u] = "closing"} = {t} /\ semPopped'[t] = h
      BY <1>1, <1>3, <2>1, Zenon
    <3>2. Seg!Semaphore!InFlight' = {h}
      BY <1>1, <1>3, <3>1, Zenon DEF Seg!Semaphore!InFlight
    <3> QED
      BY <1>1, <1>2, <3>2, Zenon DEF Owners
  <2>6. Seg!Semaphore!TypeOK'
    BY <1>1, <2>1, <2>3 DEF Seg!Semaphore!TypeOK
  <2>7. semValue' <= 0 /\ Len(semWaiters') = Seg!Semaphore!PositivePart(-semValue')
    <3>1. Len(semWaiters) \in Nat /\ Len(semWaiters) # 0
      BY <1>1, <2>1, EmptyList, LengthOfSeq, Zenon
    <3> QED
      BY <1>1, <1>4, <2>3, <3>1 DEF OneOwner, Seg!Semaphore!PositivePart
  <2>8. \A u \in Seg!Semaphore!InFlight' \cup Elements(semWaiters') : semPC'[u] = "blocked"
    BY <1>1, <2>1, <2>3, <2>4, <2>5 DEF OneOwner
  <2>9. \A u \in SegThreads : semPC'[u] = "closing" => u = t /\ semPopped'[u] = h /\ h \notin semClosed'
    BY <1>1, <1>3, <2>1, Zenon
  <2>10. OneOwner'
    BY <1>1, <2>3, <2>5, <2>7, <2>8, <2>9 DEF OneOwner
  <2> QED
    BY <1>1, <1>2, <2>1, <2>5, <2>6, <2>10, Zenon
<1> QED
  BY <1>5, <1>6, Zenon DEF Seg!Semaphore!Signal

(* The permit on its way: the channel is closed, and the Wait returns. *)
LEMMA ContinueStep ==
  ASSUME Seg!Semaphore!TypeOK, OneOwner, NEW t \in SegThreads, Seg!Semaphore!Continue(t)
  PROVE  /\ Seg!Semaphore!TypeOK' /\ OneOwner'
         /\ \A u \in SegThreads : semPC'[u] = "blocked" => semPC[u] = "blocked"
         /\ \/ semHolders' = semHolders
            \/ semHolders = {} /\ semHolders' = {t} /\ semPC[t] = "blocked"
<1>1. /\ semValue' = semValue /\ semWaiters' = semWaiters /\ semAsLock' = semAsLock
      /\ semValue \in Int /\ semWaiters \in Seq(SegThreads) /\ semClosed \subseteq SegThreads
      /\ semPC \in [SegThreads -> {"idle", "blocked", "closing"}] /\ semPC' = [semPC EXCEPT ![t] = "idle"]
      /\ semPopped \in [SegThreads -> SegThreads \cup {NoSegThread}]
  BY Zenon DEF Seg!Semaphore!Continue, Seg!Semaphore!WaitReturns, Seg!Semaphore!SignalClose, Seg!Semaphore!TypeOK
<1>2. CASE Seg!Semaphore!WaitReturns(t)
  <2>1. /\ semPC[t] = "blocked" /\ t \in semClosed /\ semClosed' = semClosed \ {t} /\ semPopped' = semPopped
        /\ semHolders' = semHolders \cup {t} /\ semPermits' = semPermits + 1
    BY <1>2, Zenon DEF Seg!Semaphore!WaitReturns
  <2>2. t \in Seg!Semaphore!InFlight /\ t \notin semHolders
    BY <2>1, Zenon DEF Seg!Semaphore!InFlight, OneOwner
  <2>3. semHolders = {} /\ semClosed = {t} /\ \A u \in SegThreads : semPC[u] # "closing"
    <3>1. \A u \in Owners : u = t
      BY <2>2, Zenon DEF Owners, OneOwner
    <3>2. semHolders = {} /\ semClosed = {t}
      BY <2>1, <2>2, <3>1, Zenon DEF Owners, Seg!Semaphore!InFlight
    <3>3. ASSUME NEW u \in SegThreads, semPC[u] = "closing" PROVE FALSE
      <4>1. semPopped[u] \in Seg!Semaphore!InFlight
        BY <3>3, Zenon DEF Seg!Semaphore!InFlight
      <4>2. semPopped[u] = t
        BY <3>1, <4>1, Zenon DEF Owners
      <4> QED
        BY <2>1, <3>3, <4>2, Zenon DEF OneOwner
    <3> QED
      BY <3>2, <3>3, Zenon
  <2>4. Seg!Semaphore!InFlight' = {} /\ semHolders' = {t} /\ Owners' = {t}
    <3>1. \A u \in SegThreads : semPC'[u] # "closing"
      BY <1>1, <2>3, Zenon
    <3>2. Seg!Semaphore!InFlight' = {}
      BY <2>1, <2>3, <3>1, Zenon DEF Seg!Semaphore!InFlight
    <3> QED
      BY <2>1, <2>3, <3>2, Zenon DEF Owners
  <2>5. t \notin Elements(semWaiters) /\ semValue # 1
    BY <2>2, Zenon DEF OneOwner, Owners
  <2>6. \A u \in Elements(semWaiters') : semPC'[u] = "blocked"
    BY <1>1, <2>5 DEF OneOwner
  <2>7. \A u \in SegThreads : semPC'[u] # "closing"
    BY <1>1, <2>3, Zenon
  <2>8. OneOwner'
    BY <1>1, <2>4, <2>5, <2>6, <2>7 DEF OneOwner
  <2>9. Seg!Semaphore!TypeOK'
    BY <1>1, <2>1 DEF Seg!Semaphore!TypeOK
  <2> QED
    BY <1>1, <2>1, <2>3, <2>4, <2>8, <2>9, Zenon
<1>3. CASE Seg!Semaphore!SignalClose(t)
  <2>1. /\ semPC[t] = "closing" /\ semClosed' = semClosed \cup {semPopped[t]}
        /\ semPopped' = [semPopped EXCEPT ![t] = NoSegThread] /\ semHolders' = semHolders /\ semPermits' = semPermits
    BY <1>3, Zenon DEF Seg!Semaphore!SignalClose
  <2>2. /\ {u \in SegThreads : semPC[u] = "closing"} = {t} /\ {u \in SegThreads : semPC'[u] = "closing"} = {}
        /\ semPopped[t] \in SegThreads
    BY <1>1, <2>1 DEF OneOwner
  <2>3. Seg!Semaphore!InFlight' = Seg!Semaphore!InFlight /\ Owners' = Owners
    <3>1. Seg!Semaphore!InFlight' = Seg!Semaphore!InFlight
      BY <2>1, <2>2, Zenon DEF Seg!Semaphore!InFlight
    <3> QED
      BY <2>1, <3>1, Zenon DEF Owners
  <2>4. \A u \in Seg!Semaphore!InFlight' \cup Elements(semWaiters') : semPC'[u] = "blocked"
    BY <1>1, <2>1, <2>3 DEF OneOwner
  <2>5. \A u \in semHolders' : semPC'[u] = "idle"
    BY <1>1, <2>1 DEF OneOwner
  <2>6. OneOwner'
    BY <1>1, <2>1, <2>2, <2>3, <2>4, <2>5, Zenon DEF OneOwner
  <2>7. Seg!Semaphore!TypeOK'
    BY <1>1, <2>1, <2>2, Zenon DEF Seg!Semaphore!TypeOK
  <2> QED
    BY <1>1, <2>1, <2>6, <2>7, Zenon
<1> QED
  BY <1>2, <1>3, Zenon DEF Seg!Semaphore!Continue

(* WriteSync and ReadSync start: nobody inside, or the caller queues. *)
LEMMA BeginStep ==
  ASSUME Seg!ConstantsOK, SegInv, NEW t \in SegThreads, NEW data \in Seg!Payloads \cup {<<>>}, Seg!Begin(t, data)
  PROVE  SegInv'
<1>1. /\ segCall[t] = NoCall /\ segCall' = [segCall EXCEPT ![t] = data] /\ data # NoCall
      /\ segCall \in [SegThreads -> Seg!Payloads \cup {<<>>, NoCall}]
      /\ UNCHANGED <<segData, segCopied, segOut, segSettled>>
  BY Zenon DEF Seg!Begin, SegInv, Seg!TypeOK, Seg!ConstantsOK
<1>2. t \notin semHolders /\ segCopied[t] = 0
  BY <1>1, Zenon DEF SegInv, Copies
<1>3. /\ Seg!Semaphore!TypeOK' /\ OneOwner'
      /\ \/ semHolders = {} /\ semHolders' = {t} /\ semPC' = semPC
         \/ semHolders' = semHolders /\ semPC' = [semPC EXCEPT ![t] = "blocked"]
  BY <1>2, WaitStep, Zenon DEF Seg!Begin, SegInv, Seg!TypeOK
<1>4. Seg!TypeOK'
  BY <1>1, <1>3, Zenon DEF SegInv, Seg!TypeOK
<1>5. /\ semHolders \subseteq SegThreads /\ semHolders' \subseteq SegThreads
      /\ semPC \in [SegThreads -> {"idle", "blocked", "closing"}]
  BY <1>3, Zenon DEF SegInv, Seg!TypeOK, Seg!Semaphore!TypeOK
<1>6. \A u \in semHolders' : u # t => u \in semHolders /\ segCall'[u] = segCall[u] /\ Seg!Length(u)' = Seg!Length(u)
  BY <1>1, <1>3, <1>5, Zenon DEF Seg!Length
<1>7. t \in semHolders' => semHolders = {} /\ semHolders' = {t} /\ 0 <= Seg!Length(t)'
  <2>1. Seg!Length(t)' \in 1..Seg!Size
    <3>1. segCall'[t] \in Seg!Payloads \cup {<<>>}
      BY <1>1, Zenon
    <3> QED
      BY <3>1, PayloadLemma DEF Seg!Length, Seg!Size
  <2> QED
    BY <1>2, <1>3, <2>1 DEF Seg!Size
<1>8. \A u \in SegThreads : segCall'[u] = NoCall => u \notin semHolders' /\ semPC'[u] # "blocked"
  BY <1>1, <1>3, <1>5, Zenon DEF SegInv, Copies
<1>9. /\ \A u \in SegThreads : u \notin semHolders' => segCopied'[u] = 0
      /\ \A u \in semHolders' : segCopied'[u] <= Seg!Length(u)'
  BY <1>1, <1>2, <1>3, <1>6, <1>7, Zenon DEF SegInv, Copies
<1>10. \A u \in semHolders' : segCall'[u] = <<>> =>
         \A i \in 1..Seg!Size : i <= segCopied'[u] => segOut'[u][i] = segData'[i]
  BY <1>1, <1>2, <1>5, <1>6 DEF SegInv, Copies, Seg!Size
<1>11. (\A u \in semHolders' : segCall'[u] = <<>>) => segData' = segSettled'
  BY <1>1, <1>2, <1>3, <1>6, <1>7, Zenon DEF SegInv, Copies
<1>12. Copies'
  BY <1>8, <1>9, <1>10, <1>11, Zenon DEF Copies
<1> QED
  BY <1>3, <1>4, <1>12, Zenon DEF SegInv

(* Another's close, and the return from Wait. *)
LEMMA SegContinueStep ==
  ASSUME SegInv, NEW t \in SegThreads, Seg!Continue(t)
  PROVE  SegInv'
<1>1. UNCHANGED <<segData, segCall, segCopied, segOut, segSettled>>
  BY Zenon DEF Seg!Continue, Seg!dataVars
<1>2. /\ Seg!Semaphore!TypeOK' /\ OneOwner'
      /\ \A u \in SegThreads : semPC'[u] = "blocked" => semPC[u] = "blocked"
      /\ \/ semHolders' = semHolders
         \/ semHolders = {} /\ semHolders' = {t} /\ semPC[t] = "blocked"
  BY ContinueStep, Zenon DEF Seg!Continue, SegInv, Seg!TypeOK
<1>3. Seg!TypeOK'
  BY <1>1, <1>2, Zenon DEF SegInv, Seg!TypeOK
<1>4. \A u \in SegThreads : Seg!Length(u)' = Seg!Length(u)
  BY <1>1, Zenon DEF Seg!Length
<1>5. CASE semHolders' = semHolders
  <2>1. semHolders \subseteq SegThreads
    BY Zenon DEF SegInv, Seg!TypeOK, Seg!Semaphore!TypeOK
  <2>2. Copies'
    BY <1>1, <1>2, <1>4, <1>5, <2>1, Zenon DEF SegInv, Copies
  <2> QED
    BY <1>2, <1>3, <2>2, Zenon DEF SegInv
<1>6. CASE semHolders = {} /\ semHolders' = {t} /\ semPC[t] = "blocked"
  <2>1. segCall[t] # NoCall /\ segCopied[t] = 0 /\ segData = segSettled
    BY <1>6, Zenon DEF SegInv, Copies
  <2>2. Seg!Length(t) \in 1..Seg!Size
    BY <2>1, CallLength, Zenon DEF SegInv
  <2>3. segCopied'[t] = 0 /\ segCopied'[t] <= Seg!Length(t)'
    BY <1>1, <1>4, <2>1, <2>2 DEF Seg!Size
  <2>4. \A i \in 1..Seg!Size : ~(i <= segCopied'[t])
    BY <2>3 DEF Seg!Size
  <2>5. \A u \in SegThreads : u \notin semHolders' => segCopied'[u] = 0
    BY <1>1, <1>6, Zenon DEF SegInv, Copies
  <2>6. \A u \in SegThreads : segCall'[u] = NoCall => u \notin semHolders' /\ semPC'[u] # "blocked"
    BY <1>1, <1>2, <1>6, <2>1, Zenon DEF SegInv, Copies
  <2>7. segData' = segSettled'
    BY <1>1, <2>1, Zenon
  <2>8. Copies'
    BY <1>6, <2>3, <2>4, <2>5, <2>6, <2>7, Zenon DEF Copies
  <2> QED
    BY <1>2, <1>3, <2>8, Zenon DEF SegInv
<1> QED
  BY <1>2, <1>5, <1>6, Zenon

(* copy() moves the next byte: nobody else is inside. *)
LEMMA CopyStep ==
  ASSUME SegInv, NEW t \in SegThreads, Seg!CopyByte(t)
  PROVE  SegInv'
<1> DEFINE i == segCopied[t] + 1
<1>1. /\ t \in semHolders /\ segCall[t] # NoCall /\ segCopied[t] < Seg!Length(t)
      /\ segCopied' = [segCopied EXCEPT ![t] = i] /\ UNCHANGED <<segCall, segSettled, Seg!semaphoreVars>>
      /\ segCopied \in [SegThreads -> 0..Seg!Size] /\ segOut \in [SegThreads -> [1..Seg!Size -> Bytes]]
      /\ segData \in [1..Seg!Size -> Bytes]
      /\ IF segCall[t] = <<>>
         THEN segOut' = [segOut EXCEPT ![t][i] = segData[i]] /\ UNCHANGED segData
         ELSE segData' = [segData EXCEPT ![i] = segCall[t][i]] /\ UNCHANGED segOut
  BY Zenon DEF Seg!CopyByte, Seg!Inside, SegInv, Seg!TypeOK
<1>2. UNCHANGED <<semValue, semWaiters, semClosed, semPopped, semPC, semAsLock, semHolders, semPermits>>
  BY <1>1, Zenon DEF Seg!semaphoreVars
<1>3. i \in 1..Seg!Size /\ i <= Seg!Length(t) /\ segCopied'[t] = i /\ segCopied[t] \in 0..Seg!Size
  BY <1>1, CallLength DEF SegInv, Seg!Size
<1>4. semHolders = {t}
  BY <1>1 DEF SegInv, OneOwner, Owners
<1>5. OneOwner' /\ Seg!Semaphore!TypeOK'
  BY <1>2 DEF SegInv, OneOwner, Owners, Seg!Semaphore!InFlight, Seg!TypeOK, Seg!Semaphore!TypeOK
<1>6. Seg!Length(t)' = Seg!Length(t)
  BY <1>1, Zenon DEF Seg!Length
<1> HIDE DEF i
<1>7. segCopied' \in [SegThreads -> 0..Seg!Size]
  BY <1>1, <1>3 DEF Seg!Size
<1>8. /\ \A u \in SegThreads : segCall'[u] = NoCall => u \notin semHolders' /\ semPC'[u] # "blocked"
      /\ \A u \in SegThreads : u \notin semHolders' => segCopied'[u] = 0
      /\ \A u \in semHolders' : segCopied'[u] <= Seg!Length(u)'
  BY <1>1, <1>2, <1>3, <1>4, <1>6, Zenon DEF SegInv, Copies
<1>9. CASE segCall[t] = <<>>
  <2>1. segData' = segData /\ segOut' = [segOut EXCEPT ![t] = [segOut[t] EXCEPT ![i] = segData[i]]]
    BY <1>1, <1>9, Zenon
  <2>2. segOut' \in [SegThreads -> [1..Seg!Size -> Bytes]]
    BY <1>1, <1>3, <2>1, Zenon
  <2>3. Seg!TypeOK'
    BY <1>1, <1>5, <1>7, <2>1, <2>2, Zenon DEF SegInv, Seg!TypeOK
  <2>4. \A j \in 1..Seg!Size : segOut'[t][j] = IF j = i THEN segData[i] ELSE segOut[t][j]
    BY <1>1, <2>1, Zenon
  <2>5. \A j \in 1..Seg!Size : j <= i => j = i \/ j <= segCopied[t]
    BY <1>3 DEF i, Seg!Size
  <2>6. \A j \in 1..Seg!Size : j <= segCopied[t] => segOut[t][j] = segData[j]
    BY <1>1, <1>9, Zenon DEF SegInv, Copies
  <2>7. \A j \in 1..Seg!Size : j <= segCopied'[t] => segOut'[t][j] = segData'[j]
    BY <1>3, <2>1, <2>4, <2>5, <2>6, Zenon
  <2>8. segData' = segSettled'
    BY <1>1, <1>4, <1>9, <2>1, Zenon DEF SegInv, Copies
  <2>9. Copies'
    BY <1>2, <1>4, <1>8, <2>7, <2>8, Zenon DEF Copies
  <2> QED
    BY <1>5, <2>3, <2>9, Zenon DEF SegInv
<1>10. CASE segCall[t] # <<>>
  <2>1. segData' = [segData EXCEPT ![i] = segCall[t][i]] /\ segOut' = segOut
    BY <1>1, <1>10, Zenon
  <2>2. segCall[t][i] \in Bytes
    BY <1>1, <1>3, <1>10, CallLength DEF SegInv, Seg!Size
  <2>3. segData' \in [1..Seg!Size -> Bytes]
    BY <1>1, <2>1, <2>2, Zenon
  <2>4. Seg!TypeOK'
    BY <1>1, <1>5, <1>7, <2>1, <2>3, Zenon DEF SegInv, Seg!TypeOK
  <2>5. segCall'[t] # <<>> /\ semHolders' = {t}
    BY <1>1, <1>2, <1>4, <1>10, Zenon
  <2>6. Copies'
    BY <1>8, <2>5, Zenon DEF Copies
  <2> QED
    BY <1>5, <2>4, <2>6, Zenon DEF SegInv
<1> QED
  BY <1>9, <1>10, Zenon

(* The deferred Signal: what a write has left is settled. *)
LEMMA EndStep ==
  ASSUME Seg!ConstantsOK, SegInv, NEW t \in SegThreads, Seg!End(t)
  PROVE  SegInv'
<1>1. /\ t \in semHolders /\ segCall' = [segCall EXCEPT ![t] = NoCall] /\ segCopied' = [segCopied EXCEPT ![t] = 0]
      /\ segOut' = [segOut EXCEPT ![t] = Seg!Zeros] /\ segData' = segData
      /\ segSettled' = IF segCall[t] = <<>> THEN segSettled ELSE segData
  BY Zenon DEF Seg!End, Seg!Inside
<1>2. /\ Seg!Semaphore!TypeOK' /\ OneOwner' /\ semHolders = {t} /\ semHolders' = {}
      /\ \A u \in SegThreads : semPC'[u] = "blocked" => semPC[u] = "blocked" /\ u # t
  BY <1>1, SignalStep, Zenon DEF Seg!End, SegInv, Seg!TypeOK
<1>3. Seg!Zeros \in [1..Seg!Size -> Bytes]
  BY Zenon DEF Seg!Zeros, Seg!ConstantsOK
<1>4. Seg!TypeOK'
  BY <1>1, <1>2, <1>3 DEF SegInv, Seg!TypeOK, Seg!Size
<1>5. segSettled' = segData'
  BY <1>1, <1>2, Zenon DEF SegInv, Copies
<1>6. \A u \in SegThreads : segCopied'[u] = 0 /\ (segCall'[u] = NoCall => semPC'[u] # "blocked")
  BY <1>1, <1>2, Zenon DEF SegInv, Copies, Seg!TypeOK
<1>7. Copies'
  BY <1>2, <1>5, <1>6, Zenon DEF Copies
<1> QED
  BY <1>2, <1>4, <1>7, Zenon DEF SegInv

(* A segment: what a read returns is what one write left. *)
LEMMA ReadsWhole == ASSUME Seg!ConstantsOK PROVE Seg!Spec => [](Seg!TypeOK /\ Seg!ReadsAreWhole)
<1>1. Seg!Init => SegInv
  <2> SUFFICES ASSUME Seg!Init PROVE SegInv
    BY Zenon
  <2>1. Seg!Zeros \in [1..Seg!Size -> Bytes]
    BY Zenon DEF Seg!Zeros, Seg!ConstantsOK
  <2>2. /\ semValue = 1 /\ semWaiters = <<>> /\ semClosed = {} /\ semHolders = {} /\ semAsLock = TRUE /\ semPermits = 0
        /\ semPopped = [t \in SegThreads |-> NoSegThread] /\ semPC = [t \in SegThreads |-> "idle"]
    BY Zenon DEF Seg!Init, Seg!Semaphore!Init
  <2>3. Seg!Semaphore!TypeOK
    BY <2>2 DEF Seg!Semaphore!TypeOK
  <2>4. Seg!TypeOK
    BY <2>1, <2>3 DEF Seg!Init, Seg!TypeOK, Seg!Size
  <2>5. Elements(semWaiters) = {} /\ Distinct(semWaiters) /\ Len(semWaiters) = 0
    BY <2>2 DEF Elements, Distinct
  <2>6. Seg!Semaphore!InFlight = {} /\ Owners = {}
    BY <2>2, Zenon DEF Seg!Semaphore!InFlight, Owners
  <2>7. OneOwner
    BY <2>2, <2>5, <2>6 DEF OneOwner, Seg!Semaphore!PositivePart
  <2>8. Copies
    BY <2>2, Zenon DEF Seg!Init, Copies
  <2> QED
    BY <2>4, <2>7, <2>8, Zenon DEF SegInv
<1>2. SegInv /\ [Seg!Next]_(Seg!segVars) => SegInv'
  <2> SUFFICES ASSUME SegInv, [Seg!Next]_(Seg!segVars) PROVE SegInv'
    BY Zenon
  <2>1. CASE UNCHANGED Seg!segVars
    <3>1. UNCHANGED <<segData, segCall, segCopied, segOut, segSettled>>
          /\ UNCHANGED <<semValue, semWaiters, semClosed, semPopped, semPC, semAsLock, semHolders, semPermits>>
      BY <2>1, Zenon DEF Seg!segVars, Seg!dataVars, Seg!semaphoreVars
    <3>2. Seg!TypeOK'
      <4>1. Seg!Semaphore!TypeOK'
        BY <3>1, Zenon DEF SegInv, Seg!TypeOK, Seg!Semaphore!TypeOK
      <4> QED
        BY <3>1, <4>1, Zenon DEF SegInv, Seg!TypeOK
    <3>3. OneOwner'
      BY <3>1 DEF SegInv, OneOwner, Owners, Seg!Semaphore!InFlight
    <3>4. Copies'
      BY <3>1, Zenon DEF SegInv, Copies, Seg!Length
    <3> QED
      BY <3>2, <3>3, <3>4, Zenon DEF SegInv
  <2> QED
    BY <2>1, BeginStep, SegContinueStep, CopyStep, EndStep, Zenon DEF Seg!Next
<1>3. SegInv => Seg!TypeOK /\ Seg!ReadsAreWhole
  <2> SUFFICES ASSUME SegInv PROVE Seg!ReadsAreWhole
    BY Zenon DEF SegInv
  <2>1. \A t \in SegThreads : Seg!Inside(t) <=> t \in semHolders
    BY Zenon DEF Seg!Inside, SegInv, Copies
  <2>2. semHolders \subseteq SegThreads
    BY Zenon DEF SegInv, Seg!TypeOK, Seg!Semaphore!TypeOK
  <2>3. (\A t \in SegThreads : Seg!Inside(t) => segCall[t] = <<>>) => segData = segSettled
    BY <2>1, <2>2, Zenon DEF SegInv, Copies
  <2>4. ASSUME NEW t \in SegThreads, segCall[t] = <<>>, Seg!Inside(t), segCopied[t] = Seg!Size PROVE segOut[t] = segSettled
    <3>1. semHolders = {t}
      BY <2>1, <2>4 DEF SegInv, OneOwner, Owners
    <3>2. segData = segSettled
      BY <2>4, <3>1, Zenon DEF SegInv, Copies
    <3>3. \A i \in 1..Seg!Size : segOut[t][i] = segData[i]
      BY <2>4, <3>1 DEF SegInv, Copies, Seg!Size
    <3>4. segOut[t] \in [1..Seg!Size -> Bytes] /\ segData \in [1..Seg!Size -> Bytes]
      BY Zenon DEF SegInv, Seg!TypeOK
    <3>5. segOut[t] = segData
      <4>1. PICK f \in [1..Seg!Size -> Bytes], g \in [1..Seg!Size -> Bytes] : f = segOut[t] /\ g = segData
        BY <3>4, Zenon
      <4>2. f = [i \in 1..Seg!Size |-> f[i]] /\ g = [i \in 1..Seg!Size |-> g[i]] /\ \A i \in 1..Seg!Size : f[i] = g[i]
        BY <3>3, <4>1, Zenon
      <4> QED
        BY <4>1, <4>2, Zenon
    <3> QED
      BY <3>2, <3>5, Zenon
  <2> QED
    BY <2>3, <2>4, Zenon DEF Seg!ReadsAreWhole
<1> QED
  BY <1>1, <1>2, <1>3, PTL DEF Seg!Spec

-----------------------------------------------------------------------------
(* CreateSegment adds a segment. *)
LEMMA SegmentsGrow ==
  ASSUME Shm!ConstantsOK, Shm!TypeOK, Shm!CreateSegment
  PROVE  Shm!Segments \subseteq Shm!Segments' /\ shmNext' \in 1..MaxSegments+1
<1>1. PICK n \in Nat : n = shmNext /\ 1 <= n /\ n <= MaxSegments /\ shmNext' = n + 1
  BY DEF Shm!TypeOK, Shm!CreateSegment, Shm!ConstantsOK
<1>2. Shm!Segments = 1..n-1 /\ Shm!Segments' = 1..(n+1)-1
  BY <1>1, Zenon DEF Shm!Segments
<1>3. 1..n-1 \subseteq 1..(n+1)-1 /\ n + 1 \in 1..MaxSegments+1
  BY <1>1 DEF Shm!ConstantsOK
<1> QED
  BY <1>1, <1>2, <1>3, Zenon

(* Attach replaces what a page was mapped to, and records it. *)
LEMMA AttachStep ==
  ASSUME Shm!ConstantsOK, Shm!TypeOK, Shm!MappedIsRecorded, NEW s \in 1..(MaxSegments + 1), NEW p \in ShmPIDs,
         NEW vpn \in 0..MaxVPN, Shm!Attach(s, p, vpn)
  PROVE  Shm!TypeOK' /\ Shm!MappedIsRecorded'
<1> DEFINE new == [shm |-> s, pid |-> p, vpn |-> vpn]
           Frames == {0} \cup {Shm!PhysicalPFN(q) : q \in Shm!Segments}
<1>1. /\ shmNext' = shmNext /\ Shm!Segments' = Shm!Segments /\ s \in Shm!Segments
      /\ shmMappings' = shmMappings \cup {new}
      /\ shmPT \in [ShmPIDs -> [0..ShmPages-1 -> Frames]]
      /\ shmPT' = IF vpn < ShmPages THEN [shmPT EXCEPT ![p][vpn] = Shm!PhysicalPFN(s)] ELSE shmPT
  BY Zenon DEF Shm!TypeOK, Shm!Attach, Shm!Frame, Shm!Segments
<1>2. new \in [shm : Shm!Segments, pid : ShmPIDs, vpn : 0..MaxVPN]
  BY <1>1, Zenon
<1>3. vpn < ShmPages => vpn \in 0..ShmPages-1
  BY DEF Shm!ConstantsOK
<1>4. \A q \in ShmPIDs, v \in 0..ShmPages-1 :
        shmPT'[q][v] = IF q = p /\ v = vpn THEN Shm!PhysicalPFN(s) ELSE shmPT[q][v]
  <2> SUFFICES ASSUME NEW q \in ShmPIDs, NEW v \in 0..ShmPages-1
               PROVE  shmPT'[q][v] = IF q = p /\ v = vpn THEN Shm!PhysicalPFN(s) ELSE shmPT[q][v]
    BY Zenon
  <2>1. CASE vpn < ShmPages
    <3>1. shmPT' = [shmPT EXCEPT ![p] = [shmPT[p] EXCEPT ![vpn] = Shm!PhysicalPFN(s)]]
      BY <1>1, <2>1, Zenon
    <3>2. DOMAIN shmPT = ShmPIDs /\ DOMAIN shmPT[p] = 0..ShmPages-1
      BY <1>1, Zenon
    <3> QED
      BY <1>3, <2>1, <3>1, <3>2, Zenon
  <2>2. CASE ~(vpn < ShmPages)
    <3>1. shmPT' = shmPT
      BY <1>1, <2>2, Zenon
    <3>2. v # vpn
      BY <2>2 DEF Shm!ConstantsOK
    <3> QED
      BY <3>1, <3>2, Zenon
  <2> QED
    BY <2>1, <2>2, Zenon
<1>5. Shm!PhysicalPFN(s) # 0 /\ Shm!PhysicalPFN(s) \in Frames
  BY <1>1 DEF Shm!PhysicalPFN
<1>6. shmPT' \in [ShmPIDs -> [0..ShmPages-1 -> Frames]]
  BY <1>1, <1>3, <1>5, Zenon
<1>7. Shm!TypeOK'
  BY <1>1, <1>2, <1>6, Zenon DEF Shm!TypeOK, Shm!Segments
<1>8. ASSUME NEW q \in ShmPIDs, NEW v \in 0..ShmPages-1, shmPT'[q][v] # 0
      PROVE  \E r \in Shm!Segments : shmPT'[q][v] = Shm!PhysicalPFN(r) /\ [shm |-> r, pid |-> q, vpn |-> v] \in shmMappings'
  BY <1>1, <1>4, <1>8, Zenon DEF Shm!MappedIsRecorded
<1>9. ASSUME NEW m \in shmMappings', m.vpn < ShmPages PROVE shmPT'[m.pid][m.vpn] # 0
  <2>1. m \in [shm : Shm!Segments, pid : ShmPIDs, vpn : 0..MaxVPN]
    BY <1>1, <1>2, Zenon DEF Shm!TypeOK
  <2>2. m.pid \in ShmPIDs /\ m.vpn \in 0..ShmPages-1
    BY <1>9, <2>1 DEF Shm!ConstantsOK
  <2>3. CASE m = new
    BY <1>4, <1>5, <2>2, <2>3, Zenon
  <2>4. CASE m \in shmMappings
    BY <1>4, <1>5, <1>9, <2>2, <2>4, Zenon DEF Shm!MappedIsRecorded
  <2> QED
    BY <1>1, <2>3, <2>4, Zenon
<1> QED
  BY <1>1, <1>7, <1>8, <1>9, Zenon DEF Shm!MappedIsRecorded

(* The manager: what a page table maps is recorded, and what is recorded of *)
(* the pages it has is mapped.                                              *)
LEMMA MappingsRecorded == ASSUME Shm!ConstantsOK PROVE Shm!Spec => [](Shm!TypeOK /\ Shm!MappedIsRecorded)
<1>1. Shm!Init => Shm!TypeOK /\ Shm!MappedIsRecorded
  BY DEF Shm!Init, Shm!TypeOK, Shm!MappedIsRecorded, Shm!ConstantsOK
<1>2. Shm!TypeOK /\ Shm!MappedIsRecorded /\ [Shm!Next]_(Shm!shmVars) => (Shm!TypeOK /\ Shm!MappedIsRecorded)'
  <2> SUFFICES ASSUME Shm!TypeOK, Shm!MappedIsRecorded, [Shm!Next]_(Shm!shmVars) PROVE Shm!TypeOK' /\ Shm!MappedIsRecorded'
    BY Zenon
  <2>1. CASE UNCHANGED Shm!shmVars
    BY <2>1, Zenon DEF Shm!shmVars, Shm!TypeOK, Shm!MappedIsRecorded, Shm!Segments
  <2>2. CASE Shm!CreateSegment
    <3>1. Shm!Segments \subseteq Shm!Segments' /\ shmNext' \in 1..(MaxSegments + 1)
      BY <2>2, SegmentsGrow, Zenon
    <3>2. UNCHANGED <<shmMappings, shmPT>>
      BY <2>2, Zenon DEF Shm!CreateSegment
    <3> QED
      BY <3>1, <3>2, ZenonT(30) DEF Shm!TypeOK, Shm!MappedIsRecorded
  <2> QED
    BY <2>1, <2>2, AttachStep, Zenon DEF Shm!Next, Shm!AttachFails
<1> QED
  BY <1>1, <1>2, PTL DEF Shm!Spec

(***************************************************************************)
(* WriteSync and ReadSync are atomic to each other for any number of       *)
(* goroutines, and the manager records what it maps, and maps what it      *)
(* records as far as the page table reaches.                               *)
(***************************************************************************)
THEOREM SharedMemoryIsWhole == Seg!Spec /\ Shm!Spec => []SharedMemoryInv
<1>1. Seg!Spec => [](Seg!TypeOK /\ Seg!ReadsAreWhole)
  BY SharedAssumption, ReadsWhole, Zenon
<1>2. Shm!Spec => [](Shm!TypeOK /\ Shm!MappedIsRecorded)
  BY SharedAssumption, MappingsRecorded, Zenon
<1> QED
  BY <1>1, <1>2, PTL DEF SharedMemoryInv

-----------------------------------------------------------------------------
(* TypedFIFO as facts about positions in the queue. *)
QueueInv ==
  /\ MQ!TypeOK /\ Len(mqMessages) <= QueueCapacity
  /\ \A i \in 1..Len(mqMessages) : mqMessages[i].id \in 1..mqSent
  /\ \A m \in mqReceived : m.id \in 1..mqSent
  /\ \A k \in 1..mqSent : \/ \E i \in 1..Len(mqMessages) : mqMessages[i].id = k
                        \/ \E m \in mqReceived : m.id = k
  /\ \A i, j \in 1..Len(mqMessages) : i < j => mqMessages[i].id < mqMessages[j].id
  /\ \A m \in mqReceived, i \in 1..Len(mqMessages) :
       m.id # mqMessages[i].id /\ (m.type = mqMessages[i].type => m.id < mqMessages[i].id)

(* Send appends a message with the highest number so far. *)
LEMMA SendStep ==
  ASSUME MQ!ConstantsOK, QueueInv, NEW type \in MsgTypes, MQ!Send(type)
  PROVE  QueueInv'
<1> DEFINE new == [id |-> mqSent + 1, type |-> type]
<1>1. PICK n \in Nat : n = Len(mqMessages)
  BY LengthOfSeq, Zenon DEF QueueInv, MQ!TypeOK
<1>2. /\ mqSent \in Nat /\ mqSent < MaxSent /\ mqSent' = mqSent + 1 /\ mqReceived' = mqReceived
      /\ n < QueueCapacity /\ mqMessages' = Append(mqMessages, new)
      /\ mqMessages \in Seq(MQ!Message) /\ mqReceived \subseteq MQ!Message
  <2>1. /\ mqSent < MaxSent /\ mqSent' = mqSent + 1 /\ mqReceived' = mqReceived
        /\ Len(mqMessages) < QueueCapacity /\ mqMessages' = Append(mqMessages, new)
    BY Zenon DEF MQ!Send
  <2>2. mqSent \in Nat /\ mqMessages \in Seq(MQ!Message) /\ mqReceived \subseteq MQ!Message
    BY DEF QueueInv, MQ!TypeOK, MQ!ConstantsOK
  <2> QED
    BY <1>1, <2>1, <2>2, Zenon
<1>3. new \in MQ!Message /\ new.id = mqSent + 1 /\ new.type = type
  BY <1>2 DEF MQ!Message, MQ!ConstantsOK
<1> HIDE DEF new
<1>4. /\ mqMessages' \in Seq(MQ!Message) /\ Len(mqMessages') = n + 1 /\ mqMessages'[n + 1] = new
      /\ \A i \in 1..n : mqMessages'[i] = mqMessages[i]
  BY <1>1, <1>2, <1>3, AppendTo
<1>5. MQ!TypeOK' /\ Len(mqMessages') <= QueueCapacity
  BY <1>1, <1>2, <1>4 DEF MQ!TypeOK, MQ!ConstantsOK
<1>6. \A i \in 1..n : mqMessages[i].id \in 1..mqSent
  BY <1>1, Zenon DEF QueueInv
<1>7. \A i \in 1..(n + 1) : i \in 1..n \/ i = n + 1
  OBVIOUS
<1>8. \A i \in 1..(n + 1) : mqMessages'[i].id \in 1..(mqSent + 1)
  BY <1>2, <1>3, <1>4, <1>6, <1>7
<1>9. \A m \in mqReceived : m.id \in 1..mqSent
  BY Zenon DEF QueueInv
<1>10. ASSUME NEW k \in 1..(mqSent + 1)
       PROVE  (\E i \in 1..(n + 1) : mqMessages'[i].id = k) \/ (\E m \in mqReceived : m.id = k)
  <2>1. CASE k = mqSent + 1
    BY <1>3, <1>4, <2>1
  <2>2. CASE k # mqSent + 1
    <3>1. k \in 1..mqSent
      BY <1>2, <2>2
    <3>2. (\E i \in 1..n : mqMessages[i].id = k) \/ (\E m \in mqReceived : m.id = k)
      BY <1>1, <3>1, Zenon DEF QueueInv
    <3> QED
      BY <1>4, <3>2
  <2> QED
    BY <2>1, <2>2, Zenon
<1>11. \A i, j \in 1..(n + 1) : i < j => mqMessages'[i].id < mqMessages'[j].id
  <2>1. \A i, j \in 1..n : i < j => mqMessages[i].id < mqMessages[j].id
    BY <1>1, Zenon DEF QueueInv
  <2>2. \A i \in 1..n : mqMessages[i].id < mqSent + 1
    BY <1>2, <1>6
  <2> QED
    BY <1>3, <1>4, <1>7, <2>1, <2>2
<1>12. ASSUME NEW m \in mqReceived, NEW i \in 1..(n + 1)
       PROVE  m.id # mqMessages'[i].id /\ (m.type = mqMessages'[i].type => m.id < mqMessages'[i].id)
  <2>1. CASE i \in 1..n
    BY <1>1, <1>4, <2>1 DEF QueueInv
  <2>2. CASE i = n + 1
    BY <1>2, <1>3, <1>4, <1>9, <2>2
  <2> QED
    BY <1>7, <2>1, <2>2, Zenon
<1>13. \A m \in mqReceived : m.id \in 1..(mqSent + 1)
  BY <1>2, <1>9
<1> QED
  BY <1>2, <1>4, <1>5, <1>8, <1>10, <1>11, <1>12, <1>13, Zenon DEF QueueInv

(* The queue without its message i. *)
LEMMA MessageRemoved ==
  ASSUME mqMessages \in Seq(MQ!Message), NEW n \in Nat, n = Len(mqMessages), NEW i \in 1..n
  PROVE  /\ Removed(mqMessages, i) \in Seq(MQ!Message) /\ Len(Removed(mqMessages, i)) = n - 1
         /\ \A j \in 1..(n - 1) :
              Removed(mqMessages, i)[j] = IF j < i THEN mqMessages[j] ELSE mqMessages[j + 1]
<1>1. Removed(mqMessages, i) \in Seq(MQ!Message)
  BY RemoveLemma, Zenon
<1>2. Len(Removed(mqMessages, i)) = n - 1
  BY RemoveLemma
<1>3. \A j \in 1..(n - 1) :
        Removed(mqMessages, i)[j] = IF j < i THEN mqMessages[j] ELSE mqMessages[j + 1]
  BY RemoveLemma, Zenon
<1> QED
  BY <1>1, <1>2, <1>3, Zenon

(* Receive takes the first message that matches out of the queue. *)
LEMMA ReceiveStep ==
  ASSUME MQ!ConstantsOK, QueueInv, NEW target \in MsgTypes \cup {0}, MQ!Receive(target)
  PROVE  QueueInv'
<1>1. PICK n \in Nat : n = Len(mqMessages)
  BY LengthOfSeq, Zenon DEF QueueInv, MQ!TypeOK
<1>2. PICK i \in 1..n : /\ i \in MQ!Matches(target) /\ \A j \in MQ!Matches(target) : i <= j
                        /\ mqMessages' = Removed(mqMessages, i) /\ mqReceived' = mqReceived \cup {mqMessages[i]}
  BY <1>1, Zenon DEF MQ!Receive, MQ!IsFirst, MQ!Matches, Removed
<1>3. i \in 1..n /\ target \in {0, mqMessages[i].type}
  BY <1>1, <1>2, Zenon DEF MQ!Matches
<1>4. /\ mqMessages' = Removed(mqMessages, i)
      /\ mqReceived' = mqReceived \cup {mqMessages[i]} /\ mqSent' = mqSent
      /\ mqMessages \in Seq(MQ!Message) /\ mqReceived \subseteq MQ!Message /\ mqSent \in Nat /\ mqSent <= MaxSent
      /\ mqMessages[i] \in MQ!Message
  <2>1. mqMessages \in Seq(MQ!Message) /\ mqReceived \subseteq MQ!Message /\ mqSent \in Nat /\ mqSent <= MaxSent
    BY DEF QueueInv, MQ!TypeOK, MQ!ConstantsOK
  <2>2. mqSent' = mqSent
    BY Zenon DEF MQ!Receive
  <2>3. mqMessages[i] \in MQ!Message
    BY <1>1, <1>3, <2>1, ElementIn, Zenon
  <2> QED
    BY <1>2, <2>1, <2>2, <2>3, Zenon
<1>5. /\ mqMessages' \in Seq(MQ!Message) /\ Len(mqMessages') = n - 1
      /\ \A j \in 1..(n - 1) : mqMessages'[j] = IF j < i THEN mqMessages[j] ELSE mqMessages[j + 1]
  <2>1. mqMessages \in Seq(MQ!Message) /\ i \in 1..n
    BY <1>3, <1>4, Zenon
  <2>2. /\ Removed(mqMessages, i) \in Seq(MQ!Message) /\ Len(Removed(mqMessages, i)) = n - 1
        /\ \A j \in 1..(n - 1) :
             Removed(mqMessages, i)[j] = IF j < i THEN mqMessages[j] ELSE mqMessages[j + 1]
    BY <1>1, <2>1, MessageRemoved, Zenon
  <2> QED
    BY <1>4, <2>2, Zenon
<1> DEFINE old(j) == IF j < i THEN j ELSE j + 1
<1>6. /\ \A j \in 1..(n - 1) : old(j) \in 1..n /\ old(j) # i /\ mqMessages'[j] = mqMessages[old(j)]
      /\ \A j, k \in 1..(n - 1) : j < k => old(j) < old(k)
  BY <1>3, <1>5
<1>7. \A k \in 1..n : k # i => \E j \in 1..(n - 1) : k = old(j)
  <2> SUFFICES ASSUME NEW k \in 1..n, k # i PROVE \E j \in 1..(n - 1) : k = old(j)
    BY Zenon
  <2>1. CASE k < i
    <3>1. k \in 1..(n - 1) /\ k = old(k)
      BY <1>3, <2>1
    <3> QED
      BY <3>1, Zenon
  <2>2. CASE k > i
    <3>1. k - 1 \in 1..(n - 1) /\ k = old(k - 1)
      BY <1>3, <2>2
    <3> QED
      BY <3>1, Zenon
  <2> QED
    BY <1>3, <2>1, <2>2
<1> HIDE DEF old
<1>8. MQ!TypeOK' /\ Len(mqMessages') <= QueueCapacity
  BY <1>1, <1>4, <1>5 DEF QueueInv, MQ!TypeOK, MQ!ConstantsOK
<1>9. \A j \in 1..n : mqMessages[j].id \in 1..mqSent
  BY <1>1, Zenon DEF QueueInv
<1>10. \A m \in mqReceived' : m.id \in 1..mqSent
  BY <1>3, <1>4, <1>9, Zenon DEF QueueInv
<1>11. ASSUME NEW k \in 1..mqSent
       PROVE  (\E j \in 1..(n - 1) : mqMessages'[j].id = k) \/ (\E m \in mqReceived' : m.id = k)
  <2>1. (\E j \in 1..n : mqMessages[j].id = k) \/ (\E m \in mqReceived : m.id = k)
    BY <1>1, Zenon DEF QueueInv
  <2> QED
    BY <1>4, <1>6, <1>7, <2>1, Zenon
<1>12. \A j, k \in 1..n : j < k => mqMessages[j].id < mqMessages[k].id
  BY <1>1, Zenon DEF QueueInv
<1>13. \A j, k \in 1..(n - 1) : j < k => mqMessages'[j].id < mqMessages'[k].id
  BY <1>6, <1>12, Zenon
<1>14. ASSUME NEW m \in mqReceived', NEW j \in 1..(n - 1)
       PROVE  m.id # mqMessages'[j].id /\ (m.type = mqMessages'[j].type => m.id < mqMessages'[j].id)
  <2>1. PICK k \in 1..n : k # i /\ mqMessages'[j] = mqMessages[k]
    BY <1>6, Zenon
  <2>2. CASE m \in mqReceived
    BY <1>1, <2>1, <2>2, Zenon DEF QueueInv
  <2>3. CASE m = mqMessages[i]
    <3>1. mqMessages[i].id # mqMessages[k].id
      BY <1>3, <1>9, <1>12, <2>1
    <3>2. ASSUME mqMessages[i].type = mqMessages[k].type PROVE i < k
      <4>1. k \in MQ!Matches(target)
        BY <1>1, <1>3, <3>2, Zenon DEF MQ!Matches
      <4> QED
        BY <1>2, <1>3, <2>1, <4>1
    <3> QED
      BY <1>3, <1>12, <2>1, <2>3, <3>1, <3>2, Zenon
  <2> QED
    BY <1>4, <2>2, <2>3, Zenon
<1>15. \A j \in 1..(n - 1) : mqMessages'[j].id \in 1..mqSent
  BY <1>6, <1>9, Zenon
<1> QED
  BY <1>4, <1>5, <1>8, <1>10, <1>11, <1>13, <1>14, <1>15, Zenon DEF QueueInv

(***************************************************************************)
(* For any capacity and any types: no message accepted is lost or          *)
(* delivered twice, and Receive takes each type first in, first out.       *)
(***************************************************************************)
THEOREM QueueIsTypedFIFO == MQ!Spec => [](MQ!TypeOK /\ TypedFIFO)
<1> USE SharedAssumption
<1>1. MQ!Init => QueueInv
  <2> SUFFICES ASSUME MQ!Init PROVE QueueInv
    BY Zenon
  <2>1. <<>> \in Seq(MQ!Message) /\ Len(<<>>) = 0
    BY EmptyList, Zenon
  <2>2. MQ!TypeOK
    BY <2>1 DEF MQ!Init, MQ!TypeOK, MQ!ConstantsOK
  <2> QED
    BY <2>1, <2>2 DEF MQ!Init, QueueInv, MQ!ConstantsOK
<1>2. QueueInv /\ [MQ!Next]_(MQ!mqVars) => QueueInv'
  <2> SUFFICES ASSUME QueueInv, [MQ!Next]_(MQ!mqVars) PROVE QueueInv'
    BY Zenon
  <2>1. CASE UNCHANGED MQ!mqVars
    BY <2>1, Zenon DEF MQ!mqVars, QueueInv, MQ!TypeOK
  <2> QED
    BY <2>1, SendStep, ReceiveStep, Zenon DEF MQ!Next, MQ!SendFails, MQ!ReceiveFails
<1>3. QueueInv => MQ!TypeOK /\ TypedFIFO
  <2> SUFFICES ASSUME QueueInv PROVE TypedFIFO
    BY Zenon DEF QueueInv
  <2> DEFINE queued == {mqMessages[i] : i \in 1..Len(mqMessages)}
             ids(S) == {m.id : m \in S}
  <2>1. ids(queued) \cup ids(mqReceived) \subseteq 1..mqSent
    BY DEF QueueInv
  <2>2. 1..mqSent \subseteq ids(queued) \cup ids(mqReceived)
    BY DEF QueueInv
  <2>3. \A m \in mqReceived, q \in queued : m.id # q.id /\ (m.type = q.type => m.id < q.id)
    BY DEF QueueInv
  <2>4. /\ Len(mqMessages) <= QueueCapacity
        /\ \A i, j \in 1..Len(mqMessages) : i < j => mqMessages[i].id < mqMessages[j].id
    BY Zenon DEF QueueInv
  <2>5. ids(queued) \cup ids(mqReceived) = 1..mqSent
    BY <2>1, <2>2, Zenon
  <2> QED
    BY <2>3, <2>4, <2>5, Zenon DEF TypedFIFO, MQ!TypedFIFO
<1> QED
  BY <1>1, <1>2, <1>3, PTL DEF MQ!Spec

-----------------------------------------------------------------------------
(* Of the mutex inside the buffer. *)
MutexInv == M!TypeOK /\ M!OwnershipInv

(* A new mutex satisfies the invariant. *)
LEMMA MutexStarts == M!Init => MutexInv
<1> SUFFICES ASSUME M!Init PROVE MutexInv
  BY Zenon
<1> USE DEF M!Init
<1>1. M!TypeOK
  BY DEF M!TypeOK, M!PCs
<1>2. \A t \in Threads : ~M!Owns(t)
  BY Zenon DEF M!Owns
<1>3. Len(waiters) = 0
  BY Zenon
<1>4. M!QueueInv
  BY <1>2, <1>3, BufferAssumption DEF M!QueueInv
<1>5. QED
  BY <1>1, <1>2, <1>4, Zenon DEF MutexInv, M!OwnershipInv, M!SoleOwner, M!FreeIsUnowned, M!HandoffInv

(* The hand-off of Unlock preserves the invariant: the popped thread        *)
(* becomes the owner, and the rest of the queue moves up by one.            *)
LEMMA HandoffKeeps ==
  ASSUME MutexInv, NEW t \in Threads, M!UnlockHandoff(t)
  PROVE  MutexInv'
<1> DEFINE w == Head(waiters)
<1>1. /\ w \in Threads
      /\ 1 \in 1..Len(waiters)
      /\ w = waiters[1]
      /\ Len(waiters') = Len(waiters) - 1
      /\ \A i \in 1..Len(waiters') :
            /\ i + 1 \in 1..Len(waiters)
            /\ waiters'[i] = waiters[i + 1]
            /\ waiters'[i] \in Threads
  BY DEF M!UnlockHandoff, MutexInv, M!TypeOK
<1>2. M!TypeOK'
  BY DEF M!UnlockHandoff, MutexInv, M!TypeOK, M!PCs, M!Goto
<1>3. /\ pc[t] = "held" /\ pc[w] = "parked" /\ w # t /\ state = 2 /\ ~M!Owns(w)
      /\ \A u \in Threads : M!Owns(u) => u = t
      /\ \A u \in Threads : pc[u] # "flag"
  BY <1>1, BufferAssumption
  DEF M!UnlockHandoff, MutexInv, M!OwnershipInv, M!SoleOwner, M!QueueInv, M!Owns
<1>4. /\ \A u \in Threads : u # t => pc'[u] = pc[u] /\ next'[u] = next[u]
      /\ pc'[t] = "wake" /\ next'[t] = w
      /\ ready' = ready /\ mu' = NoThread /\ mu = NoThread
  BY Zenon DEF M!UnlockHandoff, MutexInv, M!TypeOK, M!Goto
<1>5. \A u \in Threads : pc[u] # "wake" /\ u \notin ready
  BY <1>3, Zenon DEF MutexInv, M!OwnershipInv, M!HandoffInv, M!Owns
<1>6. \A u \in Threads : M!Owns(u)' <=> u = w
  BY <1>1, <1>3, <1>4, <1>5 DEF M!Owns
<1>7. (M!SoleOwner /\ M!FreeIsUnowned /\ M!HandoffInv)'
  <2>1. state' # 0
    BY <1>3 DEF M!UnlockHandoff
  <2>2. ready' \subseteq Threads
    BY <1>2, Zenon DEF M!TypeOK
  <2>3. QED
    BY <1>1, <1>3, <1>4, <1>5, <1>6, <2>1, <2>2
    DEF M!SoleOwner, M!FreeIsUnowned, M!HandoffInv
<1>8. M!QueueInv'
  <2>1. \A i \in 1..Len(waiters') : waiters'[i] # w /\ state' = 2
    BY <1>1, <1>3, SMTT(30) DEF MutexInv, M!OwnershipInv, M!QueueInv, M!UnlockHandoff
  <2>2. (\A i \in 1..Len(waiters) : pc[waiters[i]] = "parked" /\ ~M!Owns(waiters[i]))'
    <3>1. \A i \in 1..Len(waiters') : pc'[waiters'[i]] = "parked"
      BY <1>1, <1>3, <1>4 DEF MutexInv, M!OwnershipInv, M!QueueInv
    <3>2. (\A i \in 1..Len(waiters) : ~M!Owns(waiters[i]))'
      BY <1>1, <1>6, <2>1, Zenon
    <3>3. QED
      BY <3>1, <3>2, Zenon
  <2>3. \A i, j \in 1..Len(waiters') : waiters'[i] = waiters'[j] => i = j
    BY <1>1 DEF MutexInv, M!OwnershipInv, M!QueueInv, M!TypeOK
  <2>4. ASSUME NEW u \in Threads, pc'[u] \in {"flag", "parked"}, u # w
        PROVE  \E i \in 1..Len(waiters') : waiters'[i] = u
    <3>1. u # t /\ pc[u] \in {"flag", "parked"}
      BY <2>4, <1>4, Zenon
    <3>2. PICK i \in 1..Len(waiters) : waiters[i] = u
      BY <3>1, <1>3, Zenon DEF MutexInv, M!OwnershipInv, M!QueueInv
    <3>3. i - 1 \in 1..Len(waiters') /\ waiters'[i - 1] = waiters[i]
      BY <3>2, <2>4, <1>1 DEF MutexInv, M!TypeOK
    <3>4. QED
      BY <3>2, <3>3, Zenon
  <2>5. \A u \in Threads : pc'[u] = "flag" <=> mu' = u
    BY <1>3, <1>4, BufferAssumption, Zenon
  <2>6. QED
    BY <1>6, <2>1, <2>2, <2>3, <2>4, <2>5, Zenon DEF M!QueueInv
<1>9. QED
  BY <1>2, <1>7, <1>8, Zenon DEF MutexInv, M!OwnershipInv

(* A step that moves one thread from pc to pc, touches neither ready nor   *)
(* next, and neither enters nor leaves "held" or "wake", changes no owner. *)
LEMMA OwnersKept ==
  ASSUME MutexInv, ready' = ready, next' = next,
         \A u \in Threads : /\ pc'[u] = "held" <=> pc[u] = "held"
                            /\ pc'[u] = "wake" <=> pc[u] = "wake"
  PROVE  \A u \in Threads : M!Owns(u)' <=> M!Owns(u)
BY Zenon DEF M!Owns

(* Lock puts its node at the end of the queue: nobody else's place changes. *)
LEMMA EnqueueKeeps ==
  ASSUME MutexInv, NEW t \in Threads, M!Enqueue(t)
  PROVE  MutexInv'
<1>1. M!TypeOK'
  BY DEF M!Enqueue, MutexInv, M!TypeOK, M!PCs, M!Goto
<1>2. /\ pc[t] = "slow" /\ pc'[t] = "flag" /\ mu = NoThread /\ mu' = t
      /\ \A u \in Threads : u # t => pc'[u] = pc[u]
      /\ ready' = ready /\ next' = next /\ state' = state /\ ready \subseteq Threads
  BY Zenon DEF M!Enqueue, MutexInv, M!TypeOK, M!Goto
<1>3. PICK n \in Nat : n = Len(waiters)
  BY LengthOfSeq, Zenon DEF MutexInv, M!TypeOK
<1>4. /\ Len(waiters') = n + 1 /\ waiters'[n + 1] = t
      /\ \A i \in 1..n : waiters'[i] = waiters[i] /\ waiters[i] \in Threads
  BY <1>3 DEF M!Enqueue, MutexInv, M!TypeOK
<1>5. \A u \in Threads : M!Owns(u)' <=> M!Owns(u)
  BY <1>2, OwnersKept, Zenon
<1>6. ~M!Owns(t)
  BY <1>2, Zenon DEF MutexInv, M!OwnershipInv, M!HandoffInv, M!Owns
<1>7. (M!SoleOwner /\ M!FreeIsUnowned /\ M!HandoffInv)'
  BY <1>2, <1>5 DEF MutexInv, M!OwnershipInv, M!SoleOwner, M!FreeIsUnowned, M!HandoffInv
<1>8. /\ \A i \in 1..n : /\ waiters[i] # t /\ pc[waiters[i]] \in {"flag", "parked"}
                          /\ ~M!Owns(waiters[i]) /\ (pc[waiters[i]] = "parked" => state = 2)
      /\ \A i, j \in 1..n : waiters[i] = waiters[j] => i = j
      /\ \A u \in Threads : pc[u] \in {"flag", "parked"} =>
            M!Owns(u) \/ \E i \in 1..n : waiters[i] = u
      /\ \A u \in Threads : pc[u] # "flag"
  BY <1>2, <1>3, BufferAssumption, Zenon DEF MutexInv, M!OwnershipInv, M!QueueInv
<1>9. M!QueueInv'
  <2>1. \A i \in 1..(n + 1) : (i \in 1..n /\ i # n + 1) \/ i = n + 1
    OBVIOUS
  <2>2. n + 1 \in 1..(n + 1) /\ \A i \in 1..n : i \in 1..(n + 1)
    OBVIOUS
  <2>3. \A i \in 1..(n + 1) :
           \/ i \in 1..n /\ i # n + 1 /\ waiters'[i] = waiters[i] /\ waiters[i] # t
           \/ i = n + 1 /\ waiters'[i] = t
    <3> SUFFICES ASSUME NEW i \in 1..(n + 1)
                 PROVE  \/ i \in 1..n /\ i # n + 1 /\ waiters'[i] = waiters[i] /\ waiters[i] # t
                        \/ i = n + 1 /\ waiters'[i] = t
      BY Zenon
    <3>1. CASE i \in 1..n /\ i # n + 1
      BY <1>4, <1>8, <3>1, Zenon
    <3>2. CASE i = n + 1
      BY <1>4, <3>2, Zenon
    <3> QED
      BY <2>1, <3>1, <3>2, Zenon
  <2>4. ASSUME NEW i \in 1..(n + 1)
        PROVE  /\ pc'[waiters'[i]] \in {"flag", "parked"} /\ ~M!Owns(waiters[i])'
               /\ pc'[waiters'[i]] = "parked" => state' = 2
    <3>1. CASE i \in 1..n /\ waiters'[i] = waiters[i] /\ waiters[i] # t
      <4>1. PICK u \in Threads : u = waiters[i] /\ u = waiters'[i]
        BY <1>4, <3>1, Zenon
      <4>2. /\ u # t /\ pc[u] \in {"flag", "parked"} /\ (pc[u] = "parked" => state = 2)
            /\ ~M!Owns(u)
        <5>1. /\ waiters[i] # t /\ pc[waiters[i]] \in {"flag", "parked"}
              /\ ~M!Owns(waiters[i]) /\ (pc[waiters[i]] = "parked" => state = 2)
          BY <1>8, <3>1, Zenon
        <5> QED
          BY <4>1, <5>1, Zenon DEF M!Owns
      <4>4. pc'[u] = pc[u] /\ state' = state
        BY <1>2, <4>2, Zenon
      <4>3. ~M!Owns(u)'
        BY <1>5, <4>2, Zenon
      <4> QED
        BY <4>1, <4>2, <4>3, <4>4, Zenon DEF M!Owns
    <3>2. CASE waiters'[i] = t
      BY <1>2, <1>5, <1>6, <3>2, Zenon DEF M!Owns
    <3> QED
      BY <2>3, <3>1, <3>2, Zenon
  <2>5. \A i, j \in 1..(n + 1) : waiters'[i] = waiters'[j] => i = j
    BY <1>4, <1>8, <2>1, <2>3
  <2>6. (\A u \in Threads : pc[u] \in {"flag", "parked"} =>
            M!Owns(u) \/ \E i \in 1..Len(waiters) : waiters[i] = u)'
    BY <1>2, <1>4, <1>5, <1>8, <2>2
  <2>7. \A u \in Threads : pc'[u] = "flag" <=> mu' = u
    BY <1>2, <1>8
  <2> QED
    BY <1>4, <2>4, <2>5, <2>6, <2>7, Zenon DEF M!QueueInv
<1> QED
  BY <1>1, <1>7, <1>9, Zenon DEF MutexInv, M!OwnershipInv

(* A step that leaves the queue alone keeps what holds of it, if the        *)
(* threads in it still wait and own nothing.                                *)
LEMMA QueueStands ==
  ASSUME MutexInv, waiters' = waiters,
         \A u \in Threads :
            pc[u] \in {"flag", "parked"} /\ ~M!Owns(u) /\ (pc[u] = "parked" => state = 2) =>
               /\ pc'[u] \in {"flag", "parked"} /\ ~M!Owns(u)'
               /\ pc'[u] = "parked" => state' = 2,
         \A u \in Threads : pc'[u] \in {"flag", "parked"} =>
            M!Owns(u)' \/ (pc[u] \in {"flag", "parked"} /\ ~M!Owns(u)),
         \A u \in Threads : pc'[u] = "flag" <=> mu' = u
  PROVE  M!QueueInv'
<1>1. M!QueueInv /\ \A i \in 1..Len(waiters) : waiters[i] \in Threads
  BY ElementIn, Zenon DEF MutexInv, M!TypeOK, M!OwnershipInv
<1>2. ASSUME NEW i \in 1..Len(waiters')
      PROVE  /\ pc'[waiters'[i]] \in {"flag", "parked"} /\ ~M!Owns(waiters[i])'
             /\ pc'[waiters'[i]] = "parked" => state' = 2
  <2>1. PICK u \in Threads : u = waiters[i] /\ u = waiters'[i]
    BY <1>1, Zenon
  <2>2. /\ pc[u] \in {"flag", "parked"} /\ (pc[u] = "parked" => state = 2)
        /\ ~M!Owns(u)
    BY <1>1, <2>1 DEF M!QueueInv, M!Owns
  <2>3. pc'[u] \in {"flag", "parked"} /\ ~M!Owns(u)' /\ (pc'[u] = "parked" => state' = 2)
    BY <2>2, Zenon
  <2> QED
    BY <2>1, <2>3 DEF M!Owns
<1>3. /\ \A i, j \in 1..Len(waiters') : waiters'[i] = waiters'[j] => i = j
      /\ \A u \in Threads : pc'[u] \in {"flag", "parked"} =>
            M!Owns(u)' \/ \E i \in 1..Len(waiters') : waiters'[i] = u
  BY <1>1, Zenon DEF M!QueueInv
<1> QED
  BY <1>2, <1>3, Zenon DEF M!QueueInv

(* The compare-and-swap of Lock succeeds on a free mutex, or fails. *)
LEMMA LockKeeps ==
  ASSUME MutexInv, NEW t \in Threads, M!LockFast(t) \/ M!LockContended(t)
  PROVE  MutexInv'
<1>1. M!TypeOK'
  <2>1. CASE M!LockFast(t)
    BY <2>1 DEF M!LockFast, MutexInv, M!TypeOK, M!PCs, M!Goto
  <2>2. CASE M!LockContended(t)
    BY <2>2, Zenon DEF M!LockContended, MutexInv, M!TypeOK, M!PCs, M!Goto
  <2> QED
    BY <2>1, <2>2, Zenon
<1>2. /\ pc[t] = "idle" /\ \A u \in Threads : u # t => pc'[u] = pc[u]
      /\ mu' = mu /\ ready' = ready /\ next' = next /\ waiters' = waiters /\ ready \subseteq Threads
      /\ \/ pc'[t] = "held" /\ state = 0 /\ state' = 1
         \/ pc'[t] = "slow" /\ state # 0 /\ state' = state
  BY Zenon DEF M!LockFast, M!LockContended, MutexInv, M!TypeOK, M!Goto
<1>3. /\ state = 0 => \A u \in Threads : ~M!Owns(u)
      /\ \A u \in Threads : pc[u] = "wake" => next[u] \in Threads /\ M!Owns(next[u])
      /\ \A u \in Threads : pc[u] = "flag" <=> mu = u
  BY Zenon DEF MutexInv, M!OwnershipInv, M!FreeIsUnowned, M!HandoffInv, M!QueueInv, M!Owns
<1>4. CASE pc'[t] = "held" /\ state = 0 /\ state' = 1
  <2>1. \A u \in Threads : pc[u] # "held" /\ pc[u] # "wake" /\ u \notin ready
    BY <1>3, <1>4, Zenon DEF M!Owns
  <2>2. \A u \in Threads : M!Owns(u)' <=> u = t
    BY <1>2, <1>4, <2>1, Zenon DEF M!Owns
  <2>3. (M!SoleOwner /\ M!FreeIsUnowned /\ M!HandoffInv)'
    BY <1>2, <1>4, <2>1, <2>2 DEF M!SoleOwner, M!FreeIsUnowned, M!HandoffInv
  <2>4. M!QueueInv'
    BY <1>2, <1>3, <1>4, <2>2, QueueStands
  <2> QED
    BY <1>1, <2>3, <2>4, Zenon DEF MutexInv, M!OwnershipInv
<1>5. CASE pc'[t] = "slow" /\ state' = state
  <2>1. \A u \in Threads : M!Owns(u)' <=> M!Owns(u)
    BY <1>2, <1>5, OwnersKept, Zenon
  <2>2. (M!SoleOwner /\ M!FreeIsUnowned /\ M!HandoffInv)'
    BY <1>2, <1>5, <2>1 DEF MutexInv, M!OwnershipInv, M!SoleOwner, M!FreeIsUnowned, M!HandoffInv
  <2>3. M!QueueInv'
    BY <1>2, <1>3, <1>5, <2>1, QueueStands, Zenon
  <2> QED
    BY <1>1, <2>2, <2>3, Zenon DEF MutexInv, M!OwnershipInv
<1> QED
  BY <1>2, <1>4, <1>5, Zenon

(* The thread that enqueued itself stores 2 in state and parks. *)
LEMMA FlagKeeps ==
  ASSUME MutexInv, NEW t \in Threads, M!FlagWaiters(t)
  PROVE  MutexInv'
<1>1. M!TypeOK'
  BY DEF M!FlagWaiters, MutexInv, M!TypeOK, M!PCs, M!Goto
<1>2. /\ pc[t] = "flag" /\ pc'[t] = "parked" /\ \A u \in Threads : u # t => pc'[u] = pc[u]
      /\ state' = 2 /\ mu' = NoThread /\ ready' = ready /\ next' = next /\ waiters' = waiters
      /\ ready \subseteq Threads
  BY Zenon DEF M!FlagWaiters, MutexInv, M!TypeOK, M!Goto
<1>3. \A u \in Threads : M!Owns(u)' <=> M!Owns(u)
  BY <1>2, OwnersKept, Zenon
<1>4. (M!SoleOwner /\ M!FreeIsUnowned /\ M!HandoffInv)'
  BY <1>2, <1>3 DEF MutexInv, M!OwnershipInv, M!SoleOwner, M!FreeIsUnowned, M!HandoffInv
<1>5. \A u \in Threads : pc[u] = "flag" <=> u = t
  BY <1>2, Zenon DEF MutexInv, M!OwnershipInv, M!QueueInv
<1>6. ~M!Owns(t)
  BY <1>2, Zenon DEF MutexInv, M!OwnershipInv, M!HandoffInv, M!Owns
<1>7. M!QueueInv'
  BY <1>2, <1>3, <1>5, <1>6, BufferAssumption, QueueStands, Zenon
<1> QED
  BY <1>1, <1>4, <1>7, Zenon DEF MutexInv, M!OwnershipInv

(* Lock returns to the thread that Unlock chose. *)
LEMMA UnparkKeeps ==
  ASSUME MutexInv, NEW t \in Threads, M!Unpark(t)
  PROVE  MutexInv'
<1>1. M!TypeOK'
  BY Zenon DEF M!Unpark, MutexInv, M!TypeOK, M!PCs, M!Goto
<1>2. /\ pc[t] = "parked" /\ pc'[t] = "held" /\ \A u \in Threads : u # t => pc'[u] = pc[u]
      /\ t \in ready /\ ready' = ready \ {t} /\ ready \subseteq Threads
      /\ state' = state /\ mu' = mu /\ next' = next /\ waiters' = waiters
  BY Zenon DEF M!Unpark, MutexInv, M!TypeOK, M!Goto
<1>3. M!Owns(t)
  BY <1>2, Zenon DEF M!Owns
<1>4. \A u \in Threads : M!Owns(u) <=> u = t
  BY <1>3, Zenon DEF MutexInv, M!OwnershipInv, M!SoleOwner
<1>5. \A u \in Threads : pc[u] # "held" /\ pc[u] # "wake" /\ (u \in ready => u = t)
  BY <1>2, <1>4, Zenon DEF MutexInv, M!OwnershipInv, M!HandoffInv, M!Owns
<1>6. \A u \in Threads : M!Owns(u)' <=> u = t
  BY <1>2, <1>5, Zenon DEF M!Owns
<1>7. state' # 0
  BY <1>2, <1>3, Zenon DEF MutexInv, M!OwnershipInv, M!FreeIsUnowned
<1>8. (M!SoleOwner /\ M!FreeIsUnowned /\ M!HandoffInv)'
  BY <1>2, <1>5, <1>6, <1>7, Zenon DEF M!SoleOwner, M!FreeIsUnowned, M!HandoffInv
<1>9. \A u \in Threads : pc[u] = "flag" <=> mu = u
  BY Zenon DEF MutexInv, M!OwnershipInv, M!QueueInv
<1>10. M!QueueInv'
  BY <1>2, <1>4, <1>6, <1>9, QueueStands, Zenon
<1> QED
  BY <1>1, <1>8, <1>10, Zenon DEF MutexInv, M!OwnershipInv

(* Unlock closes the ready channel of the thread it popped. *)
LEMMA WakeKeeps ==
  ASSUME MutexInv, NEW t \in Threads, M!WakeNext(t)
  PROVE  MutexInv'
<1> DEFINE w == next[t]
<1>1. pc[t] = "wake" /\ w \in Threads /\ pc[w] = "parked" /\ w \notin ready
  BY Zenon DEF M!WakeNext, MutexInv, M!OwnershipInv, M!HandoffInv
<1>2. M!TypeOK'
  BY <1>1, Zenon DEF M!WakeNext, MutexInv, M!TypeOK, M!PCs, M!Goto
<1>3. /\ pc'[t] = "idle" /\ \A u \in Threads : u # t => pc'[u] = pc[u] /\ next'[u] = next[u]
      /\ ready' = ready \cup {w} /\ ready \subseteq Threads
      /\ state' = state /\ mu' = mu /\ waiters' = waiters
  BY Zenon DEF M!WakeNext, MutexInv, M!TypeOK, M!Goto
<1>4. M!Owns(w)
  BY <1>1, Zenon DEF M!Owns
<1>5. \A u \in Threads : M!Owns(u) <=> u = w
  BY <1>1, <1>4, Zenon DEF MutexInv, M!OwnershipInv, M!SoleOwner
<1>6. \A u \in Threads : pc[u] # "held" /\ (pc[u] = "wake" => u = t) /\ u \notin ready
  BY <1>1, <1>5, Zenon DEF MutexInv, M!OwnershipInv, M!HandoffInv, M!Owns
<1> HIDE DEF w
<1>7. \A u \in Threads : M!Owns(u)' <=> u = w
  BY <1>1, <1>3, <1>6, Zenon DEF M!Owns
<1>8. state' # 0
  BY <1>1, <1>3, <1>4, Zenon DEF MutexInv, M!OwnershipInv, M!FreeIsUnowned
<1>9. (M!SoleOwner /\ M!FreeIsUnowned /\ M!HandoffInv)'
  BY <1>1, <1>3, <1>6, <1>7, <1>8, Zenon DEF M!SoleOwner, M!FreeIsUnowned, M!HandoffInv
<1>10. \A u \in Threads : pc[u] = "flag" <=> mu = u
  BY Zenon DEF MutexInv, M!OwnershipInv, M!QueueInv
<1>11. M!QueueInv'
  BY <1>1, <1>3, <1>5, <1>7, <1>10, QueueStands, Zenon
<1> QED
  BY <1>2, <1>9, <1>11, Zenon DEF MutexInv, M!OwnershipInv

(* Unlock finds the queue empty and frees the mutex: nobody is waiting. *)
LEMMA FreeKeeps ==
  ASSUME MutexInv, NEW t \in Threads, M!UnlockFree(t)
  PROVE  MutexInv'
<1>1. M!TypeOK'
  BY DEF M!UnlockFree, MutexInv, M!TypeOK, M!PCs, M!Goto
<1>2. /\ pc[t] = "held" /\ pc'[t] = "idle" /\ \A u \in Threads : u # t => pc'[u] = pc[u]
      /\ Len(waiters) = 0 /\ state' = 0 /\ mu' = mu
      /\ ready' = ready /\ next' = next /\ waiters' = waiters /\ ready \subseteq Threads
  BY Zenon DEF M!UnlockFree, MutexInv, M!TypeOK, M!Goto
<1>3. M!Owns(t)
  BY <1>2, Zenon DEF M!Owns
<1>4. \A u \in Threads : M!Owns(u) => u = t
  BY <1>3, Zenon DEF MutexInv, M!OwnershipInv, M!SoleOwner
<1>5. \A u \in Threads :
         /\ u # t => pc[u] # "held"
         /\ pc[u] # "wake" /\ u \notin ready
         /\ pc[u] \notin {"flag", "parked"}
  BY <1>2, <1>4 DEF MutexInv, M!OwnershipInv, M!HandoffInv, M!QueueInv, M!Owns
<1>6. \A u \in Threads : ~M!Owns(u)'
  BY <1>2, <1>5, Zenon DEF M!Owns
<1>7. (M!SoleOwner /\ M!FreeIsUnowned /\ M!HandoffInv)'
  BY <1>2, <1>5, <1>6, Zenon DEF M!SoleOwner, M!FreeIsUnowned, M!HandoffInv
<1>8. \A u \in Threads : pc[u] = "flag" <=> mu = u
  BY Zenon DEF MutexInv, M!OwnershipInv, M!QueueInv
<1>9. M!QueueInv'
  BY <1>2, <1>5, <1>8, QueueStands, Zenon
<1> QED
  BY <1>1, <1>7, <1>9, Zenon DEF MutexInv, M!OwnershipInv

(* Every step of Lock and Unlock preserves the invariant. *)
LEMMA MutexSteps == MutexInv /\ [M!Next]_(M!mutexVars) => MutexInv'
<1>1. ASSUME MutexInv, UNCHANGED M!mutexVars PROVE MutexInv'
  <2>1. /\ state' = state /\ waiters' = waiters /\ mu' = mu /\ ready' = ready /\ next' = next
        /\ pc' = pc
    BY <1>1, Zenon DEF M!mutexVars
  <2>2. M!TypeOK'
    BY <1>1, <2>1, Zenon DEF MutexInv, M!TypeOK
  <2>3. \A u \in Threads : M!Owns(u)' <=> M!Owns(u)
    BY <1>1, <2>1, OwnersKept, Zenon
  <2>4. (M!SoleOwner /\ M!FreeIsUnowned /\ M!HandoffInv)'
    BY <1>1, <2>1, <2>3, Zenon DEF MutexInv, M!OwnershipInv, M!SoleOwner, M!FreeIsUnowned, M!HandoffInv
  <2>5. \A u \in Threads : pc'[u] = "flag" <=> mu' = u
    BY <1>1, <2>1, Zenon DEF MutexInv, M!OwnershipInv, M!QueueInv
  <2>6. M!QueueInv'
    BY <1>1, <2>1, <2>3, <2>5, QueueStands, Zenon
  <2> QED
    BY <2>2, <2>4, <2>6, Zenon DEF MutexInv, M!OwnershipInv
<1> QED
  BY <1>1, LockKeeps, EnqueueKeeps, FlagKeeps, UnparkKeeps, HandoffKeeps, WakeKeeps, FreeKeeps, Zenon
  DEF M!Next, M!Lock, M!Continue, M!Unlock

(* No step of the buffer breaks what holds of the mutex. *)
LEMMA MutexKept == MutexInv /\ [BufferNext]_monitorVars => MutexInv'
<1>1. [BufferNext]_monitorVars => [M!Next]_(M!mutexVars)
  <2>1. [BufferNext]_monitorVars => M!Next \/ UNCHANGED mutexVars
    BY Zenon DEF BufferNext, monitorVars, Call, MutexStep, Receive, PutWaits, Put, GetWaits, Get, M!Next
  <2>2. UNCHANGED mutexVars => UNCHANGED M!mutexVars
    BY Zenon DEF mutexVars, M!mutexVars
  <2> QED
    BY <2>1, <2>2, Zenon
<1> QED
  BY <1>1, MutexSteps, Zenon

-----------------------------------------------------------------------------
(* Whoever waits on a channel is queued on it once or has been signalled. *)
Queues ==
  /\ Distinct(notFull) /\ Distinct(notEmpty)
  /\ \A t \in Threads :
       at[t] = "wait" <=> t \in signalled \cup Elements(notFull) \cup Elements(notEmpty)
  /\ signalled \cap (Elements(notFull) \cup Elements(notEmpty)) = {}

MonInv == BufferTypeOK /\ MutexInv /\ BufferIntact /\ NoMissedSignal /\ Queues

(* CondVar.Signal takes the first of a queue, or nobody. *)
LEMMA SignalFirst ==
  ASSUME NEW S, NEW queue \in Seq(S), Distinct(queue)
  PROVE  /\ Rest(queue) \in Seq(S) /\ Distinct(Rest(queue))
         /\ Elements(Rest(queue)) = Elements(queue) \ First(queue)
         /\ First(queue) \subseteq Elements(queue)
         /\ Rest(queue) # <<>> => \E t \in S : First(queue) = {t}
<1>1. CASE queue = <<>>
  BY <1>1, Zenon DEF Rest, First
<1>2. CASE queue # <<>>
  BY <1>2, PopLemma, Zenon DEF Rest, First
<1> QED
  BY <1>1, <1>2, Zenon

(* The library's facts about finite sets. *)
Sets == INSTANCE FiniteSetTheorems

(* FiniteSets as the bounded buffer sees it. *)
LEMMA BufferSets ==
  \A S : Sets!Cardinality(S) = Cardinality(S) /\ (Sets!IsFiniteSet(S) <=> IsFiniteSet(S))
BY Zenon DEF Sets!Cardinality, Cardinality, Sets!IsFiniteSet, IsFiniteSet

(* The signalled threads that have yet to test again are finitely many. *)
LEMMA PendingFinite ==
  ASSUME NEW S, S \in {Producers, Consumers}
  PROVE  /\ IsFiniteSet(Pending(S)) /\ Cardinality(Pending(S)) \in Nat
         /\ IsFiniteSet(Pending(S)') /\ Cardinality(Pending(S)') \in Nat
<1>1. IsFiniteSet(S)
  BY BufferAssumption, Sets!FS_Subset, BufferSets DEF Threads
<1>2. Pending(S) \subseteq S /\ Pending(S)' \subseteq S
  BY Zenon DEF Pending
<1> QED
  BY <1>1, <1>2, Sets!FS_Subset, Sets!FS_CardinalityType, BufferSets, Zenon

(* What is in the buffer, after an Append and after the first is taken. *)
LEMMA PutIntact ==
  ASSUME BufferTypeOK, BufferIntact, NEW p \in Producers, Put(p)
  PROVE  BufferIntact' /\ buffer' \in Seq(Nat) /\ Len(buffer') = Len(buffer) + 1
<1>1. PICK n \in Nat : n = Len(buffer)
  BY LengthOfSeq, Zenon DEF BufferTypeOK
<1>2. /\ buffer' \in Seq(Nat) /\ Len(buffer') = n + 1 /\ buffer'[n + 1] = puts + 1
      /\ \A i \in 1..n : buffer'[i] = buffer[i]
  BY <1>1, AppendTo DEF Put, BufferTypeOK
<1>3. \A i \in 1..(n + 1) : buffer'[i] = gets + i
  <2>1. puts \in Nat /\ gets \in Nat /\ puts = gets + n
    BY <1>1 DEF BufferTypeOK, BufferIntact
  <2>2. \A i \in 1..n : buffer'[i] = gets + i
    BY <1>1, <1>2, Zenon DEF BufferIntact
  <2>3. buffer'[n + 1] = gets + (n + 1)
    BY <1>2, <2>1
  <2> QED
    BY <2>2, <2>3
<1> QED
  BY <1>1, <1>2, <1>3, BufferAssumption DEF Put, BufferTypeOK, BufferIntact

(* Get takes the oldest item off the buffer. *)
LEMMA GetIntact ==
  ASSUME BufferTypeOK, BufferIntact, NEW c \in Consumers, Get(c)
  PROVE  BufferIntact' /\ buffer' \in Seq(Nat) /\ Len(buffer') = Len(buffer) - 1
<1>1. PICK n \in Nat : n = Len(buffer) /\ n > 0
  BY LengthOfSeq DEF BufferTypeOK, Get
<1>2. /\ buffer' \in Seq(Nat) /\ Len(buffer') = n - 1
      /\ \A i \in 1..(n - 1) : buffer'[i] = buffer[i + 1]
  BY <1>1, EmptyList, HeadAndTail, Zenon DEF Get, BufferTypeOK
<1>3. \A i \in 1..(n - 1) : buffer[i + 1] = gets + (i + 1)
  BY <1>1 DEF BufferIntact
<1> QED
  BY <1>1, <1>2, <1>3, BufferAssumption DEF Get, BufferTypeOK, BufferIntact

-----------------------------------------------------------------------------
(* Put signals a consumer for the item it adds, and uses up the free place  *)
(* the caller may have been signalled for.                                  *)
LEMMA PutStep ==
  ASSUME MonInv, MutexInv', NEW p \in Producers, Put(p)
  PROVE  MonInv'
<1>1. /\ p \in Threads /\ p \notin Consumers /\ at \in [Threads -> {"enter", "wait", "again", "leave"}]
      /\ at[p] \in {"enter", "again"} /\ at' = [at EXCEPT ![p] = "leave"]
      /\ signalled' = signalled \cup First(notEmpty) /\ signalled \subseteq Threads
      /\ notEmpty' = Rest(notEmpty) /\ notFull' = notFull
      /\ p \notin signalled \cup Elements(notFull) \cup Elements(notEmpty)
  BY BufferAssumption, Zenon DEF MonInv, BufferTypeOK, Queues, Put, AtLoop, Goto, Threads
<1>2. /\ notEmpty' \in Seq(Consumers) /\ Distinct(notEmpty')
      /\ Elements(notEmpty') = Elements(notEmpty) \ First(notEmpty)
      /\ First(notEmpty) \subseteq Elements(notEmpty)
      /\ notEmpty' # <<>> => \E t \in Consumers : First(notEmpty) = {t}
      /\ notEmpty' # <<>> => notEmpty # <<>>
  BY <1>1, SignalFirst, Zenon DEF MonInv, BufferTypeOK, Queues, Rest
<1>3. Elements(notEmpty) \subseteq Consumers /\ Elements(notFull) \subseteq Producers
  BY ElementIn, Zenon DEF Elements, MonInv, BufferTypeOK
<1>4. BufferIntact' /\ buffer' \in Seq(Nat) /\ Len(buffer') = Len(buffer) + 1
  BY PutIntact, Zenon DEF MonInv
<1>5. BufferTypeOK'
  <2>1. M!TypeOK'
    BY Zenon DEF MonInv, BufferTypeOK, M!TypeOK, Put, mutexVars
  <2> QED
    BY <1>1, <1>2, <1>3, <1>4, <2>1 DEF MonInv, BufferTypeOK, Put, Threads
<1>6. Queues'
  <2>1. ASSUME NEW t \in Threads
        PROVE  at'[t] = "wait" <=> t \in signalled' \cup Elements(notFull') \cup Elements(notEmpty')
    BY <1>1, <1>2, Zenon DEF MonInv, Queues
  <2>2. signalled' \cap (Elements(notFull') \cup Elements(notEmpty')) = {}
    BY <1>1, <1>2, <1>3, BufferAssumption, Zenon DEF MonInv, Queues
  <2> QED
    BY <1>1, <1>2, <2>1, <2>2, Zenon DEF MonInv, Queues
<1>7. NoMissedSignal'
  <2>1. ASSUME notEmpty' # <<>> PROVE Len(buffer') <= Cardinality(Pending(Consumers)')
    <3>1. PICK t \in Consumers : First(notEmpty) = {t}
      BY <1>2, <2>1, Zenon
    <3>2. t \notin Pending(Consumers)
      BY <1>2, <3>1, Zenon DEF MonInv, Queues, Pending, Threads
    <3>3. Pending(Consumers)' = Pending(Consumers) \cup {t}
      BY <1>1, <3>1, Zenon DEF Pending, Threads
    <3>4. Cardinality(Pending(Consumers)') = Cardinality(Pending(Consumers)) + 1
      BY <3>2, <3>3, PendingFinite, Sets!FS_AddElement, BufferSets, Zenon
    <3> QED
      BY <1>2, <1>4, <2>1, <3>4, PendingFinite, LengthOfSeq DEF MonInv, BufferTypeOK, NoMissedSignal
  <2>2. ASSUME notFull' # <<>> PROVE Capacity - Len(buffer') <= Cardinality(Pending(Producers)')
    <3>1. Pending(Producers)' = Pending(Producers) \ {p}
      BY <1>1, <1>2, <1>3, BufferAssumption, Zenon DEF Pending, Threads
    <3>2. Cardinality(Pending(Producers)') >= Cardinality(Pending(Producers)) - 1
      BY <3>1, PendingFinite, Sets!FS_RemoveElement, BufferSets
    <3> QED
      BY <1>1, <1>4, <2>2, <3>2, PendingFinite, LengthOfSeq, BufferAssumption
         DEF MonInv, BufferTypeOK, NoMissedSignal
  <2> QED
    BY <2>1, <2>2, Zenon DEF NoMissedSignal
<1> QED
  BY <1>4, <1>5, <1>6, <1>7, Zenon DEF MonInv

(* Get signals a producer for the place it frees, and uses up the item the  *)
(* caller may have been signalled for.                                      *)
LEMMA GetStep ==
  ASSUME MonInv, MutexInv', NEW c \in Consumers, Get(c)
  PROVE  MonInv'
<1>1. /\ c \in Threads /\ c \notin Producers /\ at \in [Threads -> {"enter", "wait", "again", "leave"}]
      /\ at[c] \in {"enter", "again"} /\ at' = [at EXCEPT ![c] = "leave"]
      /\ signalled' = signalled \cup First(notFull) /\ signalled \subseteq Threads
      /\ notFull' = Rest(notFull) /\ notEmpty' = notEmpty
      /\ c \notin signalled \cup Elements(notFull) \cup Elements(notEmpty)
  BY BufferAssumption, Zenon DEF MonInv, BufferTypeOK, Queues, Get, AtLoop, Goto, Threads
<1>2. /\ notFull' \in Seq(Producers) /\ Distinct(notFull')
      /\ Elements(notFull') = Elements(notFull) \ First(notFull)
      /\ First(notFull) \subseteq Elements(notFull)
      /\ notFull' # <<>> => \E t \in Producers : First(notFull) = {t}
      /\ notFull' # <<>> => notFull # <<>>
  BY <1>1, SignalFirst, Zenon DEF MonInv, BufferTypeOK, Queues, Rest
<1>3. Elements(notFull) \subseteq Producers /\ Elements(notEmpty) \subseteq Consumers
  BY ElementIn, Zenon DEF Elements, MonInv, BufferTypeOK
<1>4. BufferIntact' /\ buffer' \in Seq(Nat) /\ Len(buffer') = Len(buffer) - 1
  BY GetIntact, Zenon DEF MonInv
<1>5. BufferTypeOK'
  <2>1. M!TypeOK'
    BY Zenon DEF MonInv, BufferTypeOK, M!TypeOK, Get, mutexVars
  <2> QED
    BY <1>1, <1>2, <1>3, <1>4, <2>1 DEF MonInv, BufferTypeOK, Get, Threads
<1>6. Queues'
  <2>1. ASSUME NEW t \in Threads
        PROVE  at'[t] = "wait" <=> t \in signalled' \cup Elements(notFull') \cup Elements(notEmpty')
    BY <1>1, <1>2, Zenon DEF MonInv, Queues
  <2>2. signalled' \cap (Elements(notFull') \cup Elements(notEmpty')) = {}
    BY <1>1, <1>2, <1>3, BufferAssumption, Zenon DEF MonInv, Queues
  <2> QED
    BY <1>1, <1>2, <2>1, <2>2, Zenon DEF MonInv, Queues
<1>7. NoMissedSignal'
  <2>1. ASSUME notFull' # <<>> PROVE Capacity - Len(buffer') <= Cardinality(Pending(Producers)')
    <3>1. PICK t \in Producers : First(notFull) = {t}
      BY <1>2, <2>1, Zenon
    <3>2. t \notin Pending(Producers)
      BY <1>2, <3>1, Zenon DEF MonInv, Queues, Pending, Threads
    <3>3. Pending(Producers)' = Pending(Producers) \cup {t}
      BY <1>1, <3>1, Zenon DEF Pending, Threads
    <3>4. Cardinality(Pending(Producers)') = Cardinality(Pending(Producers)) + 1
      BY <3>2, <3>3, PendingFinite, Sets!FS_AddElement, BufferSets, Zenon
    <3> QED
      BY <1>2, <1>4, <2>1, <3>4, PendingFinite, LengthOfSeq, BufferAssumption DEF MonInv, BufferTypeOK, NoMissedSignal
  <2>2. ASSUME notEmpty' # <<>> PROVE Len(buffer') <= Cardinality(Pending(Consumers)')
    <3>1. Pending(Consumers)' = Pending(Consumers) \ {c}
      BY <1>1, <1>2, <1>3, BufferAssumption, Zenon DEF Pending, Threads
    <3>2. Cardinality(Pending(Consumers)') >= Cardinality(Pending(Consumers)) - 1
      BY <3>1, PendingFinite, Sets!FS_RemoveElement, BufferSets
    <3> QED
      BY <1>1, <1>4, <2>2, <3>2, PendingFinite, LengthOfSeq DEF MonInv, BufferTypeOK, NoMissedSignal
  <2> QED
    BY <2>1, <2>2, Zenon DEF NoMissedSignal
<1> QED
  BY <1>4, <1>5, <1>6, <1>7, Zenon DEF MonInv

-----------------------------------------------------------------------------
(* Put finds the buffer full and queues the caller: no place is free. *)
LEMMA PutWaitsStep ==
  ASSUME MonInv, NEW p \in Producers, PutWaits(p)
  PROVE  BufferTypeOK' /\ BufferIntact' /\ NoMissedSignal' /\ Queues'
<1>1. /\ p \in Threads /\ p \notin Consumers /\ at \in [Threads -> {"enter", "wait", "again", "leave"}]
      /\ at[p] \in {"enter", "again"} /\ at' = [at EXCEPT ![p] = "wait"]
      /\ signalled' = signalled /\ notEmpty' = notEmpty /\ notFull' = Append(notFull, p)
      /\ buffer' = buffer /\ puts' = puts /\ gets' = gets /\ Len(buffer) = Capacity
      /\ p \notin signalled \cup Elements(notFull) \cup Elements(notEmpty)
  BY BufferAssumption, Zenon DEF MonInv, BufferTypeOK, Queues, PutWaits, AtLoop, Goto, Threads
<1>2. /\ notFull' \in Seq(Producers) /\ Distinct(notFull')
      /\ Elements(notFull') = Elements(notFull) \cup {p}
  BY <1>1, WaitLemma, Zenon DEF MonInv, BufferTypeOK, Queues
<1>3. BufferTypeOK'
  <2>1. M!TypeOK'
    BY Zenon DEF MonInv, BufferTypeOK, M!TypeOK, PutWaits, mutexVars
  <2> QED
    BY <1>1, <1>2, <2>1, Zenon DEF MonInv, BufferTypeOK
<1>4. BufferIntact'
  BY <1>1, Zenon DEF MonInv, BufferIntact
<1>5. Queues'
  BY <1>1, <1>2, Zenon DEF MonInv, Queues
<1>6. NoMissedSignal'
  <2>1. Pending(Consumers)' = Pending(Consumers)
    BY <1>1, Zenon DEF Pending, Threads
  <2>2. Capacity - Len(buffer') <= Cardinality(Pending(Producers)')
    BY <1>1, PendingFinite, BufferAssumption
  <2> QED
    BY <1>1, <2>1, <2>2, Zenon DEF MonInv, NoMissedSignal
<1> QED
  BY <1>3, <1>4, <1>5, <1>6, Zenon

(* Get finds the buffer empty and queues the caller: there is no item. *)
LEMMA GetWaitsStep ==
  ASSUME MonInv, NEW c \in Consumers, GetWaits(c)
  PROVE  BufferTypeOK' /\ BufferIntact' /\ NoMissedSignal' /\ Queues'
<1>1. /\ c \in Threads /\ c \notin Producers /\ at \in [Threads -> {"enter", "wait", "again", "leave"}]
      /\ at[c] \in {"enter", "again"} /\ at' = [at EXCEPT ![c] = "wait"]
      /\ signalled' = signalled /\ notFull' = notFull /\ notEmpty' = Append(notEmpty, c)
      /\ buffer' = buffer /\ puts' = puts /\ gets' = gets /\ Len(buffer) = 0
      /\ c \notin signalled \cup Elements(notFull) \cup Elements(notEmpty)
  BY BufferAssumption, Zenon DEF MonInv, BufferTypeOK, Queues, GetWaits, AtLoop, Goto, Threads
<1>2. /\ notEmpty' \in Seq(Consumers) /\ Distinct(notEmpty')
      /\ Elements(notEmpty') = Elements(notEmpty) \cup {c}
  BY <1>1, WaitLemma, Zenon DEF MonInv, BufferTypeOK, Queues
<1>3. BufferTypeOK'
  <2>1. M!TypeOK'
    BY Zenon DEF MonInv, BufferTypeOK, M!TypeOK, GetWaits, mutexVars
  <2> QED
    BY <1>1, <1>2, <2>1, Zenon DEF MonInv, BufferTypeOK
<1>4. BufferIntact'
  BY <1>1, Zenon DEF MonInv, BufferIntact
<1>5. Queues'
  BY <1>1, <1>2, Zenon DEF MonInv, Queues
<1>6. NoMissedSignal'
  <2>1. Pending(Producers)' = Pending(Producers)
    BY <1>1, Zenon DEF Pending, Threads
  <2>2. Len(buffer') <= Cardinality(Pending(Consumers)')
    BY <1>1, PendingFinite
  <2> QED
    BY <1>1, <2>1, <2>2, Zenon DEF MonInv, NoMissedSignal
<1> QED
  BY <1>3, <1>4, <1>5, <1>6, Zenon

(* A call, a step of Lock or Unlock, and the receive from a closed channel  *)
(* leave the buffer and the queues alone, and as many threads signalled.    *)
LEMMA OtherStep ==
  ASSUME MonInv, NEW t \in Threads, Call(t) \/ MutexStep(t) \/ Receive(t), M!TypeOK'
  PROVE  BufferTypeOK' /\ BufferIntact' /\ NoMissedSignal' /\ Queues'
<1>1. /\ at \in [Threads -> {"enter", "wait", "again", "leave"}]
      /\ notEmpty' = notEmpty /\ notFull' = notFull
      /\ buffer' = buffer /\ puts' = puts /\ gets' = gets
      /\ \/ at[t] = "leave" /\ at' = [at EXCEPT ![t] = "enter"] /\ signalled' = signalled
         \/ at' = at /\ signalled' = signalled
         \/ /\ at[t] = "wait" /\ at' = [at EXCEPT ![t] = "again"]
            /\ t \in signalled /\ signalled' = signalled \ {t}
  BY Zenon DEF MonInv, BufferTypeOK, Call, MutexStep, Receive, Goto, bufferVars
<1>2. BufferTypeOK'
  BY <1>1, Zenon DEF MonInv, BufferTypeOK
<1>3. BufferIntact'
  BY <1>1, Zenon DEF MonInv, BufferIntact
<1>4. Queues'
  BY <1>1, Zenon DEF MonInv, Queues
<1>5. Pending(Consumers)' = Pending(Consumers) /\ Pending(Producers)' = Pending(Producers)
  BY <1>1, Zenon DEF Pending, Threads
<1>6. NoMissedSignal'
  BY <1>1, <1>5, Zenon DEF MonInv, NoMissedSignal
<1> QED
  BY <1>2, <1>3, <1>4, <1>6, Zenon

(* Queues says what MonitorDiscipline says of the queues. *)
LEMMA QueuesSuffice ==
  ASSUME BufferTypeOK, Queues, NEW t \in Threads
  PROVE  at[t] = "wait" <=>
           (t \in signalled) # (\E i \in 1..Len(notFull \o notEmpty) : (notFull \o notEmpty)[i] = t)
<1> DEFINE queued == \E i \in 1..Len(notFull \o notEmpty) : (notFull \o notEmpty)[i] = t
           woken == t \in signalled
<1>1. queued <=> t \in Elements(notFull) \cup Elements(notEmpty)
  <2>1. PICK m \in Nat, n \in Nat : m = Len(notFull) /\ n = Len(notEmpty)
    BY LengthOfSeq, Zenon DEF BufferTypeOK
  <2>2. /\ Len(notFull \o notEmpty) = m + n
        /\ \A i \in 1..m : (notFull \o notEmpty)[i] = notFull[i]
        /\ \A i \in 1..n : (notFull \o notEmpty)[m + i] = notEmpty[i]
    BY <2>1, ConcatOf DEF BufferTypeOK
  <2>3. \A i \in 1..(m + n) : i \in 1..m \/ (i - m \in 1..n /\ i = m + (i - m))
    OBVIOUS
  <2>4. \A i \in 1..n : m + i \in 1..(m + n)
    OBVIOUS
  <2>5. ASSUME NEW i \in 1..(m + n), (notFull \o notEmpty)[i] = t
        PROVE  t \in Elements(notFull) \cup Elements(notEmpty)
    <3>1. CASE i \in 1..m
      BY <2>1, <2>2, <2>5, <3>1, Zenon DEF Elements
    <3>2. CASE i - m \in 1..n /\ i = m + (i - m)
      <4>1. notEmpty[i - m] = t
        BY <2>2, <2>5, <3>2
      <4> QED
        BY <2>1, <3>2, <4>1, Zenon DEF Elements
    <3> QED
      BY <2>3, <3>1, <3>2, Zenon
  <2>6. ASSUME NEW i \in 1..m, notFull[i] = t
        PROVE  i \in 1..(m + n) /\ (notFull \o notEmpty)[i] = t
    BY <2>2, <2>6
  <2>7. ASSUME NEW i \in 1..n, notEmpty[i] = t
        PROVE  m + i \in 1..(m + n) /\ (notFull \o notEmpty)[m + i] = t
    BY <2>2, <2>4, <2>7, Zenon
  <2>8. t \in Elements(notFull) => queued
    BY <2>1, <2>2, <2>6, Zenon DEF Elements
  <2>9. t \in Elements(notEmpty) => queued
    BY <2>1, <2>2, <2>7, Zenon DEF Elements
  <2> QED
    BY <2>2, <2>5, <2>8, <2>9, Zenon
<1>2. at[t] = "wait" <=> queued \/ woken
  BY <1>1, Zenon DEF Queues
<1>3. ~(queued /\ woken)
  BY <1>1, Zenon DEF Queues
<1>4. queued \in BOOLEAN /\ woken \in BOOLEAN
  OBVIOUS
<1> HIDE DEF queued, woken
<1>5. at[t] = "wait" <=> woken # queued
  BY <1>2, <1>3, <1>4, Zenon
<1> QED
  BY <1>5, Zenon DEF queued, woken

(* All three together: MonInv is inductive. *)
LEMMA BufferCorrect == BufferSpec => [](BufferTypeOK /\ BufferIntact /\ MonitorInv)
<1>1. BufferInit => MonInv
  <2> SUFFICES ASSUME BufferInit PROVE MonInv
    BY Zenon
  <2>1. Elements(<<>>) = {} /\ Distinct(<<>>)
    BY DEF Elements, Distinct
  <2>2. MutexInv
    BY MutexStarts, Zenon DEF BufferInit
  <2>3. BufferTypeOK
    BY <2>2, EmptyList, Zenon DEF BufferInit, BufferTypeOK, MutexInv
  <2> QED
    BY <2>1, <2>2, <2>3, BufferAssumption
       DEF BufferInit, MonInv, BufferIntact, NoMissedSignal, Queues
<1>2. MonInv /\ [BufferNext]_monitorVars => MonInv'
  <2> SUFFICES ASSUME MonInv, [BufferNext]_monitorVars PROVE MonInv'
    BY Zenon
  <2>1. MutexInv'
    BY MutexKept, Zenon DEF MonInv
  <2>2. M!TypeOK'
    BY <2>1, Zenon DEF MutexInv
  <2>3. CASE UNCHANGED monitorVars
    BY <2>1, <2>2, <2>3, Zenon DEF monitorVars, bufferVars, MonInv, BufferTypeOK, BufferIntact, NoMissedSignal, Queues, Pending
  <2> QED
    BY <2>1, <2>2, <2>3, PutStep, GetStep, PutWaitsStep, GetWaitsStep, OtherStep, Zenon DEF BufferNext, MonInv
<1>3. MonInv => BufferTypeOK /\ BufferIntact /\ MonitorInv
  <2> SUFFICES ASSUME MonInv PROVE MonitorDiscipline
    BY Zenon DEF MonInv, MonitorInv
  <2>1. \A t, u \in Threads : pc[t] = "held" /\ pc[u] = "held" => t = u
    BY Zenon DEF MonInv, MutexInv, M!OwnershipInv, M!SoleOwner, M!Owns
  <2> QED
    BY <2>1, QueuesSuffice, Zenon DEF MonInv, MonitorDiscipline
<1> QED
  BY <1>1, <1>2, <1>3, PTL DEF BufferSpec

(* The buffer, the lists of waiters and the mutex keep their types. *)
THEOREM BufferTypes == BufferSpec => []BufferTypeOK
BY BufferCorrect, PTL

(***************************************************************************)
(* In every interleaving of Put, Get and the steps of Lock, Unlock, Wait   *)
(* and Signal, the buffer holds the items put and not yet got, in order    *)
(* and never more than Capacity of them.                                   *)
(***************************************************************************)
THEOREM ItemsInOrder == BufferSpec => []BufferIntact
BY BufferCorrect, PTL

(* No signal is missed, and only the owner of the mutex is between Lock and *)
(* Unlock.                                                                  *)
THEOREM NoSignalMissed == BufferSpec => []MonitorInv
BY BufferCorrect, PTL

=============================================================================
