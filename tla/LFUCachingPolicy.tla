--------------------------- MODULE LFUCachingPolicy ---------------------------
(***************************************************************************)
(* The least-frequently-used caching policy                                 *)
(* (fpdb-cache/src/policy/LFUCachingPolicy.cpp).  p.hits is the hit number  *)
(* in the metadata of the keys in keySet_ (0: the key was never loaded),    *)
(* p.order the elements of the lists of freqMap_ in the order in which they *)
(* were added, each with the class (freq) whose list it is in; "mapped"     *)
(* says whether keyMap_ points at it (the element of an earlier store of a  *)
(* key stored twice has nothing that points at it, and stays in its class). *)
(* p.minFreq is minFreq_, p.free freeSize_, freqSet_ the set of classes.    *)
(***************************************************************************)
EXTENDS Naturals, SequencesExt, SequencePositions

CONSTANTS
  Key, Size, MaxSize,
  Enough     \* the 100 MB below which free space is not ample, whatever MaxSize

Empty == [hits |-> [k \in Key |-> 0], order |-> <<>>, minFreq |-> 0,
          free |-> MaxSize, crashed |-> FALSE]

Keys(p) == {p.order[i].key : i \in {j \in DOMAIN p.order : p.order[j].mapped}}

Freqs(p) == {p.order[i].freq : i \in DOMAIN p.order}

Bytes(ks) == SumFunction([i \in DOMAIN ks |-> Size[ks[i]]])

\* The list without the element keyMap_ has for k.
Without(order, k) == At(order, {i \in DOMAIN order : ~(order[i].key = k /\ order[i].mapped)})

\* eraseFreqMap after a key of class freq has left p.order.  With no class left
\* the least frequency is read through the end iterator of an empty set.
EraseFreqMap(p, freq) ==
  CASE freq \in Freqs(p) \/ p.minFreq # freq -> p
    [] freq \notin Freqs(p) /\ p.minFreq = freq /\ Freqs(p) = {} -> [p EXCEPT !.crashed = TRUE]
    [] OTHER -> [p EXCEPT !.minFreq = Min(Freqs(p))]

\* The elements of k lose their place in keyMap_.
Unmapped(order, k) ==
  [i \in DOMAIN order |-> [order[i] EXCEPT !.mapped = @ /\ order[i].key # k]]

\* insert: to the end of the class of k; minFreq_ is set only the first time.
Insert(p, k) ==
  [p EXCEPT !.order = Append(Unmapped(@, k), [key |-> k, freq |-> p.hits[k], mapped |-> TRUE]),
            !.minFreq = IF @ = 0 THEN p.hits[k] ELSE @]

OnLoad(p, k) ==
  IF p.crashed THEN p
  ELSE LET counted == [p EXCEPT !.hits[k] = @ + 1]
           erased == EraseFreqMap([p EXCEPT !.order = Without(@, k)], p.hits[k])
       IN  IF k \notin Keys(p) THEN counted
           ELSE IF erased.crashed THEN erased
           ELSE Insert([erased EXCEPT !.hits[k] = @ + 1], k)

\* A store considers element i before element j: the class minFreq_ names comes
\* first, then the other classes from the lowest, each from the start of its list.
Sooner(p, i, j) ==
  LET f == p.order[i].freq
      g == p.order[j].freq
  IN  (g # p.minFreq /\ (f = p.minFreq \/ f < g)) \/ (f = g /\ i < j)

\* The keys of the elements in that order.
Candidates(p) ==
  LET c == CHOOSE c \in SetToSeqs(DOMAIN p.order) :
             \A i, j \in DOMAIN c : i < j => Sooner(p, c[i], c[j])
  IN  [n \in DOMAIN c |-> p.order[c[n]].key]

\* The list element of the victim is the one keyMap_ has.  With none, keyMap_[victim]
\* makes an iterator that points nowhere.
Evict(p, q, victim) ==
  IF q.crashed THEN q
  ELSE IF victim \notin Keys(q) THEN [q EXCEPT !.crashed = TRUE]
  ELSE EraseFreqMap([q EXCEPT !.order = Without(@, victim)], p.hits[victim])

\* Evict the first candidates that make room, all of them less used than k.
OnStore(p, k) ==
  LET cand == Candidates(p)
      enough == {n \in 0..Len(cand) : p.free + Bytes(SubSeq(cand, 1, n)) >= Size[k]}
      few == Min(enough)
      out == {cand[i] : i \in 1..few}
      less == \A e \in out : p.hits[e] < p.hits[k]
      evicted[n \in 0..few] == IF n = 0 THEN p ELSE Evict(p, evicted[n - 1], cand[n])
      left == evicted[few]
      Refuse(q) == {[pol |-> q, stored |-> FALSE, removed |-> {}]}
  IN  IF Size[k] > MaxSize \/ enough = {} THEN Refuse(p)
      ELSE IF ~less THEN Refuse(p)
      ELSE IF left.crashed THEN Refuse(left)
      ELSE {[pol |-> [Insert(left, k) EXCEPT !.free = @ + Bytes(SubSeq(cand, 1, few)) - Size[k]],
             stored |-> TRUE, removed |-> out]}

Ample(free) == 10 * free >= MaxSize /\ free >= Enough

\* With ample space all missing keys, else those used more than minFreq_ says.
OnToCache(p, missing) ==
  {[pol |-> p, keys |-> {k \in ToSet(missing) : Ample(p.free) \/ p.hits[k] > p.minFreq}]}
===============================================================================
