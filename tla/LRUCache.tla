------------------------------ MODULE LRUCache ------------------------------
(***************************************************************************)
(* What a TLB promises: a bounded cache that gives back the last value put *)
(* in for a key, and that makes room by dropping the key which has gone    *)
(* unused for longest.  TLB.tla is shown to implement it, and              *)
(* MemoryManager.tla builds on it.                                         *)
(***************************************************************************)
EXTENDS Naturals, FiniteSets

CONSTANTS Keys, Vals, Capacity, NoKey

VARIABLES
  cache,   \* the <<key, value>> pairs in it
  older,   \* <<k, l>>: of these two keys in it k has gone unused for longer
  used     \* the key that was found or put in last

cacheVars == <<cache, older, used>>

Init == cache = {} /\ older = {} /\ used = NoKey

Caches(k) == \E e \in cache : e[1] = k

Oldest(k) == \A e \in cache : <<e[1], k>> \notin older

(* The entries that stay when k is put in: not its own, and if the cache is *)
(* full of others, not the oldest one.                                      *)
Kept(k) ==
  {e \in cache : /\ e[1] # k
                 /\ Caches(k) \/ Cardinality(cache) < Capacity \/ ~Oldest(e[1])}

(* The key's entry is replaced, or one is added, and is the most recent. *)
Insert(k, v) ==
  /\ cache' = Kept(k) \cup {<<k, v>>}
  /\ older' = {p \in older : \E e, f \in Kept(k) : p = <<e[1], f[1]>>}
                \cup {<<e[1], k>> : e \in Kept(k)}
  /\ used' = k

(* A lookup that finds k -> v: the entry becomes the most recent one.  A    *)
(* lookup that finds nothing changes nothing.                               *)
Hit(k, v) == <<k, v>> \in cache /\ Insert(k, v)

Flush == cache' = {} /\ older' = {} /\ UNCHANGED used

Next == (\E k \in Keys, v \in Vals : Hit(k, v) \/ Insert(k, v)) \/ Flush

Spec == Init /\ [][Next]_cacheVars

=============================================================================
