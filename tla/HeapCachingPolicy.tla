-------------------------- MODULE HeapCachingPolicy --------------------------
(***************************************************************************)
(* The two policies that keep the cached keys in a heap ordered by value:   *)
(* WLFU, whose value is the sum of the weights the scans report, and LFUS,   *)
(* whose value is hits per byte (fpdb-cache/src/policy/WLFUCachingPolicy.cpp *)
(* and LFUSCachingPolicy.cpp, the same code but for the value).              *)
(*                                                                          *)
(* p.cached is keySetInCache_.  The heap keysInCache_ may hold a key several *)
(* times: once for every store of it that nothing has undone.  p.copies[k]  *)
(* counts the valid entries of k.  They are one key object, so a hit makes   *)
(* all of them invalid and adds one; invalid entries are popped when met and *)
(* change nothing.  Values change while their entries are in the heap, which *)
(* nobody reorders, so any valid entry may be met at the front: the model   *)
(* lets every one.                                                          *)
(*                                                                          *)
(* onToCache decides against a second heap and a second free size, copied    *)
(* from the first when a query starts: p.otc counts the valid entries there, *)
(* p.fresh those that the ample branch pushed as the request's own key       *)
(* object (value 0, never invalidated), p.freeOTC is freeSizeOTC_, a size_t.  *)
(***************************************************************************)
EXTENDS Naturals, SequencesExt

CONSTANTS
  Key, Size, MaxSize,
  Enough,    \* the 100 MB below which free space is not ample, whatever MaxSize
  SizeT,     \* 2^64: unsigned subtraction wraps here
  Weight     \* what one weight message adds to the value of a key (WLFU)

None == [k \in Key |-> 0]

Empty(perSize) ==
  [perSize |-> perSize,   \* TRUE: LFUS, FALSE: WLFU
   hits |-> None, value |-> None, cached |-> {}, copies |-> None,
   free |-> MaxSize, otc |-> None, fresh |-> None, freeOTC |-> MaxSize,
   weighted |-> {}, crashed |-> FALSE]

Keys(p) == p.cached

\* The entries <<key, number, own>> that a heap holds of each key; own: the
\* request's own key object.
Entries(count, own) == UNION {{k} \X (1..count[k]) \X {own} : k \in Key}

KeysOf(entries) == {e[1] : e \in entries}

Bytes(entries) == SumFunction([e \in entries |-> Size[e[1]]])

\* What is left of the counts when the given entries are popped.
Popped(count, own, entries) ==
  [k \in Key |-> count[k] - Cardinality(entries \cap ({k} \X (1..count[k]) \X {own}))]

Pushed(count, ks) == [k \in Key |-> IF k \in ks THEN count[k] + 1 ELSE count[k]]

\* The value of key k as a fraction <<n, d>>; perSizeFreq_ is set on the second hit.
Value(p, k) ==
  IF p.perSize THEN <<IF p.hits[k] >= 2 THEN p.hits[k] ELSE 0, Size[k]>> ELSE <<p.value[k], 1>>

EntryValue(p, e) == IF e[3] THEN <<0, 1>> ELSE Value(p, e[1])

LessValue(v, w) == v[1] * w[2] < w[1] * v[2]

\* onNewQuery: the estimates of the last query are dropped.
OnNewQuery(p) ==
  IF p.crashed THEN p
  ELSE [p EXCEPT !.weighted = {}, !.otc = p.copies, !.fresh = None, !.freeOTC = p.free]

\* A hit of a cached key invalidates its entries in both heaps; only the first
\* gets a new one.
OnLoad(p, k) ==
  IF p.crashed THEN p
  ELSE IF k \notin p.cached THEN [p EXCEPT !.hits[k] = @ + 1]
  ELSE [p EXCEPT !.hits[k] = @ + 1, !.copies[k] = 1, !.otc[k] = 0]

\* onWeight: a key counts once per query.
OnWeight(p, ks) ==
  IF p.crashed \/ p.perSize THEN p
  ELSE [p EXCEPT !.value = [k \in Key |-> IF k \in ks \ p.weighted THEN @[k] + Weight[k]
                                          ELSE @[k]],
                 !.weighted = @ \cup ks]

(***************************************************************************)
(* The loop of onStore and onToCache: pop entries worth less than v until   *)
(* "need" bytes are free.  It ends with a set of popped entries, the last of *)
(* which was needed, or meets an entry that is worth as much and puts        *)
(* everything back, or calls front() on a heap with nothing left.           *)
(***************************************************************************)
MakeRoom(p, entries, v, free, need) ==
  LET less == {e \in entries : LessValue(EntryValue(p, e), v)}
      room == {out \in SUBSET less :
                 /\ free + Bytes(out) >= need
                 /\ out = {} \/ \E e \in out : free + Bytes(out \ {e}) < need}
      short == {out \in SUBSET less : free + Bytes(out) < need}
  IN  {[end |-> "room", out |-> out] : out \in room}
      \cup {[end |-> "refused", out |-> out] : out \in IF less = entries THEN {} ELSE short}
      \cup {[end |-> "crashed", out |-> out] : out \in short \cap {entries}}

\* The set of cached keys loses the popped ones and gets them back with the entries;
\* a key whose other entry was popped earlier comes back with them.
OnStore(p, k) ==
  LET Refuse(q) == [pol |-> q, stored |-> FALSE, removed |-> {}]
      Outcome(r) ==
        CASE r.end = "refused" -> Refuse([p EXCEPT !.cached = @ \cup KeysOf(r.out)])
          [] r.end = "crashed" -> Refuse([p EXCEPT !.crashed = TRUE])
          [] r.end = "room" ->
               [pol |-> [p EXCEPT !.cached = (@ \ KeysOf(r.out)) \cup {k},
                                  !.copies = Pushed(Popped(@, FALSE, r.out), {k}),
                                  !.free = @ + Bytes(r.out) - Size[k]],
                stored |-> TRUE, removed |-> KeysOf(r.out)]
  IN  IF Size[k] > MaxSize THEN {Refuse(p)}
      ELSE {Outcome(r) : r \in MakeRoom(p, Entries(p.copies, FALSE), Value(p, k), p.free, Size[k])}

Ample(free) == 10 * free >= MaxSize /\ free >= Enough

\* The ample branch: everything, with no check that it fits.  A key on its first
\* load is the object keySet_ holds, any other is an object of its own.
TakeAll(p, missing) ==
  LET first == {k \in ToSet(missing) : p.hits[k] = 1}
  IN  [p EXCEPT !.otc = Pushed(@, first),
                !.fresh = Pushed(@, ToSet(missing) \ first),
                !.freeOTC = (@ + SizeT - SumFunctionOnSet(Size, ToSet(missing))) % SizeT]

\* One candidate of the other branch, added to what is chosen already.
Estimate(c, k) ==
  LET p == c.pol
      Outcome(r) ==
        CASE r.end = "refused" -> c
          [] r.end = "crashed" -> [c EXCEPT !.pol.crashed = TRUE]
          [] r.end = "room" ->
               [pol |-> [p EXCEPT !.otc = Pushed(Popped(@, FALSE, r.out), {k}),
                                  !.fresh = Popped(@, TRUE, r.out),
                                  !.freeOTC = @ + Bytes(r.out) - Size[k]],
                keys |-> c.keys \cup {k}]
  IN  IF p.crashed THEN {c}
      ELSE {Outcome(r) : r \in MakeRoom(p, Entries(p.otc, FALSE) \cup Entries(p.fresh, TRUE),
                                        Value(p, k), p.freeOTC, Size[k])}

OnToCache(p, missing) ==
  LET chosen[n \in 0..Len(missing)] ==
        IF n = 0 THEN {[pol |-> p, keys |-> {}]}
        ELSE UNION {Estimate(c, missing[n]) : c \in chosen[n - 1]}
  IN  IF p.crashed THEN {[pol |-> p, keys |-> {}]}
      ELSE IF Ample(p.freeOTC) THEN {[pol |-> TakeAll(p, missing), keys |-> ToSet(missing)]}
      ELSE chosen[Len(missing)]
===============================================================================
