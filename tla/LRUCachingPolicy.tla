--------------------------- MODULE LRUCachingPolicy ---------------------------
(***************************************************************************)
(* The least-recently-used caching policy of the segment cache             *)
(* (fpdb-cache/src/policy/LRUCachingPolicy.cpp).  A policy does not hold    *)
(* segments: it keeps its own idea of what is cached and of the free size,  *)
(* and tells the cache on each store which keys to drop.                    *)
(*                                                                          *)
(* A policy state p is a record.  Here p.usage is usageQueue_, the most     *)
(* recent key first; "indexed" says whether keyIndexMap_ points at that     *)
(* element (emplace leaves an entry that is there, so a key stored twice    *)
(* has an element nothing points at).  p.free is freeSize_.                 *)
(***************************************************************************)
EXTENDS Naturals, SequencesExt

CONSTANTS Key, Size, MaxSize

Empty == [usage |-> <<>>, free |-> MaxSize, crashed |-> FALSE]

Keys(p) == {p.usage[i].key : i \in DOMAIN p.usage}

\* Bytes of the last n elements of the usage queue.
BytesAtBack(p, n) ==
  SumFunction([i \in (Len(p.usage) - n + 1)..Len(p.usage) |-> Size[p.usage[i].key]])

\* A hit moves the indexed element to the front; an unknown key is ignored.
OnLoad(p, k) ==
  LET at == {i \in DOMAIN p.usage : p.usage[i].key = k /\ p.usage[i].indexed}
  IN  [p EXCEPT !.usage = IF at = {} THEN @
                          ELSE LET i == CHOOSE j \in at : TRUE
                               IN  <<@[i]>> \o RemoveAt(@, i)]

\* Mutant: eviction goes on until something is left over.
FitsAndMore(free, k) == free > Size[k]

Fits(free, k) == free >= Size[k]

\* Mutant: the new segment is not counted.
FreeAfterUncounted(p, n, k) == p.free + BytesAtBack(p, n)

FreeAfter(p, n, k) == p.free + BytesAtBack(p, n) - Size[k]

\* Evict from the back until k fits, then put k in front.
OnStore(p, k) ==
  IF Size[k] > MaxSize
  THEN {[pol |-> p, stored |-> FALSE, removed |-> {}]}
  ELSE LET n == CHOOSE m \in 0..Len(p.usage) :
                  /\ Fits(p.free + BytesAtBack(p, m), k)
                  /\ \A l \in 0..(m - 1) : ~Fits(p.free + BytesAtBack(p, l), k)
           last == Len(p.usage) - n
           removed == {p.usage[i].key : i \in (last + 1)..Len(p.usage)}
           kept == [i \in 1..last |->
                      [p.usage[i] EXCEPT !.indexed = @ /\ p.usage[i].key \notin removed]]
           index == \A i \in 1..last : kept[i].key = k => ~kept[i].indexed
       IN  {[pol |-> [p EXCEPT !.usage = <<[key |-> k, indexed |-> index]>> \o kept,
                               !.free = FreeAfter(p, n, k)],
             stored |-> TRUE, removed |-> removed]}

\* Every missing key is worth caching: it is the newest.
OnToCache(p, missing) == {[pol |-> p, keys |-> ToSet(missing)]}
===============================================================================
