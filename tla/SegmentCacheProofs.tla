------------------------- MODULE SegmentCacheProofs -------------------------
(***************************************************************************)
(* Proofs about SegmentCache, for any partitions, columns, plans, sizes    *)
(* and policies.                                                           *)
(***************************************************************************)
EXTENDS SegmentCache, SequencePositionsProofs

KeySet == {K \in SUBSET Key : IsFiniteSet(K)}
StoreMsg == [type : {"Store"}, keys : KeySet]
LoadMsg == [type : {"Load"}, scan : Scan, order : Seq(Key)]
WeightMsg == [type : {"Weight"}, keys : KeySet]
QueryMsg == [type : {"NewQuery"}]
Message == UNION {StoreMsg, LoadMsg, WeightMsg, QueryMsg}

ScanState == [at : {"idle", "start", "asked", "answered", "reading"},
              hit : SUBSET Column, toCache : SUBSET Column, push : SUBSET Column,
              needed : BOOLEAN, pulled : BOOLEAN, pushed : BOOLEAN]

(* What every variable but the state of the policy is.                     *)
StateInv ==
    /\ config \in Configs /\ plan \in Plans /\ map \subseteq Key /\ query \in 0 .. MaxQueries
    /\ mailbox \in Seq(Message) /\ scan \in [Scan -> ScanState]
    /\ late \subseteq Nat \X Scan \X StoreMsg

(* m is somewhere before n in q.                                           *)
Before(q, m, n) == \E i, j \in DOMAIN q : i < j /\ m = q[i] /\ n = q[j]

(* A load on its way is the one its scan waits for.                        *)
ScanKeys(s) == KeysOf(s, Columns(s))
Asked(m) == m.type = "Load" => scan[m.scan].at = "asked" /\ ToSet(m.order) = ScanKeys(m.scan)
LoadInv ==
    /\ \A m \in ToSet(mailbox) : Asked(m)
    /\ \A m, n \in Message :
         Before(mailbox, m, n) /\ m.type = "Load" /\ n.type = "Load" => m.scan # n.scan

(* The answer is about columns of the scan, with no pushdown about all.    *)
Answered(s) ==
    scan[s].at \in {"answered", "reading"} =>
        /\ scan[s].toCache \subseteq Columns(s)
        /\ config.mode = "CACHING_ONLY" => scan[s].hit \cup scan[s].toCache = Columns(s)
AnswerInv == \A s \in Scan : Answered(s)

CacheInv == StateInv /\ LoadInv /\ AnswerInv /\ EachColumnOnce

-----------------------------------------------------------------------------
(* What is folded, unfolded: loads, stores and estimates key by key.       *)

(* A store of several keys.                                                *)
StoresOf(f, c, order, L) ==
    /\ StoreKeys(c, order) = f[L] /\ f[0] = {c}
    /\ \A n \in 1 .. L : f[n] = UNION {StoreKey(x, order[n]) : x \in f[n - 1]}
LEMMA StoreKeysSteps ==
    ASSUME NEW c, NEW order, NEW L \in Nat, L = Len(order)
    PROVE  \E f : StoresOf(f, c, order, L)
<1> DEFINE Step(F, n) == UNION {StoreKey(x, order[n]) : x \in F}
<1> DEFINE Is(f, l) == f = [n \in 0 .. l |-> IF n = 0 THEN {c} ELSE Step(f[n - 1], n)]
<1>1. StoreKeys(c, order) = (CHOOSE f : Is(f, L))[L]
  BY Zenon DEF StoreKeys
<1> HIDE DEF Step
<1>2. \E f : Is(f, L)
  <2> DEFINE S == {m \in Nat : \E f : Is(f, m)}
  <2>1. 0 \in S
    <3> DEFINE f == [n \in 0 .. 0 |-> {c}]
    <3>1. Is(f, 0)
      OBVIOUS
    <3> QED
      BY <3>1
  <2>2. ASSUME NEW m \in Nat, m \in S PROVE m + 1 \in S
    <3>1. PICK f : Is(f, m)
      BY <2>2
    <3>2. PICK w : w = Step(f[m], m + 1)
      OBVIOUS
    <3> DEFINE g == [n \in 0 .. m + 1 |-> IF n = m + 1 THEN w ELSE f[n]]
    <3>3. (\A n \in 0 .. m : g[n] = f[n]) /\ g[m + 1] = w
      OBVIOUS
    <3> HIDE DEF g
    <3>4. ASSUME NEW n \in 0 .. m + 1 PROVE g[n] = IF n = 0 THEN {c} ELSE Step(g[n - 1], n)
      <4>1. CASE n = m + 1
        <5>1. n - 1 = m /\ m \in 0 .. m /\ n # 0
          BY <4>1
        <5> QED
          BY <3>2, <3>3, <4>1, <5>1, Zenon
      <4>2. CASE n # m + 1
        <5>1. n \in 0 .. m /\ (n # 0 => n - 1 \in 0 .. m)
          BY <4>2
        <5>2. f[n] = IF n = 0 THEN {c} ELSE Step(f[n - 1], n)
          BY <3>1, <5>1
        <5> QED
          BY <3>3, <5>1, <5>2
      <4> QED
        BY <4>1, <4>2
    <3>5. Is(g, m + 1)
      BY <3>4, Zenon DEF g
    <3> QED
      BY <3>5
  <2> HIDE DEF S, Is
  <2>3. Nat \subseteq S
    BY <2>1, <2>2, Induction, Zenon
  <2> QED
    BY <2>3 DEF S
<1> HIDE DEF Is
<1>3. PICK f : f = CHOOSE g : Is(g, L)
  OBVIOUS
<1>4. Is(f, L) /\ StoreKeys(c, order) = f[L]
  BY <1>1, <1>2, <1>3, Zenon
<1>5. f[0] = {c} /\ \A n \in 1 .. L : f[n] = Step(f[n - 1], n)
  <2>1. \A n \in 0 .. L : f[n] = IF n = 0 THEN {c} ELSE Step(f[n - 1], n)
    BY <1>4, Zenon DEF Is
  <2>2. 0 \in 0 .. L /\ \A n \in 1 .. L : n \in 0 .. L /\ n # 0
    OBVIOUS
  <2> QED
    BY <2>1, <2>2, Zenon
<1> QED
  BY <1>4, <1>5 DEF Step, StoresOf

(* A load of several keys.                                                 *)
LoadsOf(f, order, L) ==
    /\ LoadKeys(order) = f[L] /\ f[0] = pol
    /\ \A n \in 1 .. L : f[n] = OnLoad(f[n - 1], order[n])
LEMMA LoadKeysSteps ==
    ASSUME NEW order, NEW L \in Nat, L = Len(order)
    PROVE  \E f : LoadsOf(f, order, L)
<1> DEFINE Step(F, n) == OnLoad(F, order[n])
<1> DEFINE Is(f, l) == f = [n \in 0 .. l |-> IF n = 0 THEN pol ELSE Step(f[n - 1], n)]
<1>1. LoadKeys(order) = (CHOOSE f : Is(f, L))[L]
  BY Zenon DEF LoadKeys
<1> HIDE DEF Step
<1>2. \E f : Is(f, L)
  <2> DEFINE S == {m \in Nat : \E f : Is(f, m)}
  <2>1. 0 \in S
    <3> DEFINE f == [n \in 0 .. 0 |-> pol]
    <3>1. Is(f, 0)
      OBVIOUS
    <3> QED
      BY <3>1
  <2>2. ASSUME NEW m \in Nat, m \in S PROVE m + 1 \in S
    <3>1. PICK f : Is(f, m)
      BY <2>2
    <3>2. PICK w : w = Step(f[m], m + 1)
      OBVIOUS
    <3> DEFINE g == [n \in 0 .. m + 1 |-> IF n = m + 1 THEN w ELSE f[n]]
    <3>3. (\A n \in 0 .. m : g[n] = f[n]) /\ g[m + 1] = w
      OBVIOUS
    <3> HIDE DEF g
    <3>4. ASSUME NEW n \in 0 .. m + 1 PROVE g[n] = IF n = 0 THEN pol ELSE Step(g[n - 1], n)
      <4>1. CASE n = m + 1
        <5>1. n - 1 = m /\ m \in 0 .. m /\ n # 0
          BY <4>1
        <5> QED
          BY <3>2, <3>3, <4>1, <5>1, Zenon
      <4>2. CASE n # m + 1
        <5>1. n \in 0 .. m /\ (n # 0 => n - 1 \in 0 .. m)
          BY <4>2
        <5>2. f[n] = IF n = 0 THEN pol ELSE Step(f[n - 1], n)
          BY <3>1, <5>1
        <5> QED
          BY <3>3, <5>1, <5>2
      <4> QED
        BY <4>1, <4>2
    <3>5. Is(g, m + 1)
      BY <3>4, Zenon DEF g
    <3> QED
      BY <3>5
  <2> HIDE DEF S, Is
  <2>3. Nat \subseteq S
    BY <2>1, <2>2, Induction, Zenon
  <2> QED
    BY <2>3 DEF S
<1> HIDE DEF Is
<1>3. PICK f : f = CHOOSE g : Is(g, L)
  OBVIOUS
<1>4. Is(f, L) /\ LoadKeys(order) = f[L]
  BY <1>1, <1>2, <1>3, Zenon
<1>5. f[0] = pol /\ \A n \in 1 .. L : f[n] = Step(f[n - 1], n)
  <2>1. \A n \in 0 .. L : f[n] = IF n = 0 THEN pol ELSE Step(f[n - 1], n)
    BY <1>4, Zenon DEF Is
  <2>2. 0 \in 0 .. L /\ \A n \in 1 .. L : n \in 0 .. L /\ n # 0
    OBVIOUS
  <2> QED
    BY <2>1, <2>2, Zenon
<1> QED
  BY <1>4, <1>5 DEF Step, LoadsOf

(* The estimates of LFUS and WLFU.                                         *)
EstimatesOf(f, p, missing, b, L) ==
    /\ Heap!OnToCache(p, missing) = f[L] /\ f[0] = b
    /\ \A n \in 1 .. L : f[n] = UNION {Heap!Estimate(x, missing[n]) : x \in f[n - 1]}
LEMMA EstimateSteps ==
    ASSUME NEW p, NEW missing, NEW b, b = {[pol |-> p, keys |-> {}]}, NEW L \in Nat, L = Len(missing), ~p.crashed, ~Heap!Ample(p.freeOTC)
    PROVE  \E f : EstimatesOf(f, p, missing, b, L)
<1> DEFINE Step(F, n) == UNION {Heap!Estimate(x, missing[n]) : x \in F}
<1> DEFINE Is(f, l) == f = [n \in 0 .. l |-> IF n = 0 THEN b ELSE Step(f[n - 1], n)]
<1>1. Heap!OnToCache(p, missing) = (CHOOSE f : Is(f, L))[L]
  BY Zenon DEF Heap!OnToCache
<1> HIDE DEF Step
<1>2. \E f : Is(f, L)
  <2> DEFINE S == {m \in Nat : \E f : Is(f, m)}
  <2>1. 0 \in S
    <3> DEFINE f == [n \in 0 .. 0 |-> b]
    <3>1. Is(f, 0)
      OBVIOUS
    <3> QED
      BY <3>1
  <2>2. ASSUME NEW m \in Nat, m \in S PROVE m + 1 \in S
    <3>1. PICK f : Is(f, m)
      BY <2>2
    <3>2. PICK w : w = Step(f[m], m + 1)
      OBVIOUS
    <3> DEFINE g == [n \in 0 .. m + 1 |-> IF n = m + 1 THEN w ELSE f[n]]
    <3>3. (\A n \in 0 .. m : g[n] = f[n]) /\ g[m + 1] = w
      OBVIOUS
    <3> HIDE DEF g
    <3>4. ASSUME NEW n \in 0 .. m + 1 PROVE g[n] = IF n = 0 THEN b ELSE Step(g[n - 1], n)
      <4>1. CASE n = m + 1
        <5>1. n - 1 = m /\ m \in 0 .. m /\ n # 0
          BY <4>1
        <5> QED
          BY <3>2, <3>3, <4>1, <5>1, Zenon
      <4>2. CASE n # m + 1
        <5>1. n \in 0 .. m /\ (n # 0 => n - 1 \in 0 .. m)
          BY <4>2
        <5>2. f[n] = IF n = 0 THEN b ELSE Step(f[n - 1], n)
          BY <3>1, <5>1
        <5> QED
          BY <3>3, <5>1, <5>2
      <4> QED
        BY <4>1, <4>2
    <3>5. Is(g, m + 1)
      BY <3>4, Zenon DEF g
    <3> QED
      BY <3>5
  <2> HIDE DEF S, Is
  <2>3. Nat \subseteq S
    BY <2>1, <2>2, Induction, Zenon
  <2> QED
    BY <2>3 DEF S
<1> HIDE DEF Is
<1>3. PICK f : f = CHOOSE g : Is(g, L)
  OBVIOUS
<1>4. Is(f, L) /\ Heap!OnToCache(p, missing) = f[L]
  BY <1>1, <1>2, <1>3, Zenon
<1>5. f[0] = b /\ \A n \in 1 .. L : f[n] = Step(f[n - 1], n)
  <2>1. \A n \in 0 .. L : f[n] = IF n = 0 THEN b ELSE Step(f[n - 1], n)
    BY <1>4, Zenon DEF Is
  <2>2. 0 \in 0 .. L /\ \A n \in 1 .. L : n \in 0 .. L /\ n # 0
    OBVIOUS
  <2> QED
    BY <2>1, <2>2, Zenon
<1> QED
  BY <1>4, <1>5 DEF Step, EstimatesOf

-----------------------------------------------------------------------------
(* The operators.                                                          *)

(* The map gets no key but those stored.                                   *)
LEMMA StoreKeyWithin ==
    ASSUME NEW c, NEW k, NEW M, c.map \subseteq M, k \in M, NEW d \in StoreKey(c, k)
    PROVE  d.map \subseteq M
<1>1. CASE c.pol.crashed
  BY <1>1 DEF StoreKey
<1>2. CASE ~c.pol.crashed
  <2>1. PICK o \in OnStore(c.pol, k) :
          d = [pol |-> o.pol, map |-> IF o.stored THEN (c.map \ o.removed) \cup {k} ELSE c.map]
    BY <1>2, Zenon DEF StoreKey
  <2>2. d.map = IF o.stored THEN (c.map \ o.removed) \cup {k} ELSE c.map
    BY <2>1
  <2> QED
    BY <2>2
<1> QED
  BY <1>1, <1>2

LEMMA StoreKeysWithin ==
    ASSUME NEW c, NEW order, NEW L \in Nat, L = Len(order), NEW M, c.map \subseteq M,
           \A n \in 1 .. L : order[n] \in M, NEW d \in StoreKeys(c, order)
    PROVE  d.map \subseteq M
<1>0. PICK f : StoresOf(f, c, order, L)
  BY StoreKeysSteps, Zenon
<1>1. /\ StoreKeys(c, order) = f[L] /\ f[0] = {c}
      /\ \A n \in 1 .. L : f[n] = UNION {StoreKey(x, order[n]) : x \in f[n - 1]}
  BY <1>0, Zenon DEF StoresOf
<1> DEFINE T == {n \in Nat : n <= L => \A x \in f[n] : x.map \subseteq M}
<1>2. 0 \in T
  BY <1>1
<1>3. ASSUME NEW n \in Nat, n \in T PROVE n + 1 \in T
  <2>1. SUFFICES ASSUME n + 1 <= L, NEW x \in f[n + 1] PROVE x.map \subseteq M
    OBVIOUS
  <2>2. n <= L /\ n + 1 \in 1 .. L /\ (n + 1) - 1 = n
    BY <2>1
  <2>3. PICK y \in f[n] : x \in StoreKey(y, order[n + 1])
    BY <1>1, <2>2
  <2>4. y.map \subseteq M /\ order[n + 1] \in M
    BY <1>3, <2>2
  <2> QED
    BY <2>3, <2>4, StoreKeyWithin
<1> HIDE DEF T
<1>4. Nat \subseteq T
  BY <1>2, <1>3, Induction, Zenon
<1> QED
  BY <1>1, <1>4 DEF T

(* What an estimate adds is the key it is about.                           *)
LEMMA EstimateWithin ==
    ASSUME NEW c, NEW k, NEW M, c.keys \subseteq M, DOMAIN c = {"pol", "keys"}, k \in M,
           NEW d \in Heap!Estimate(c, k)
    PROVE  d.keys \subseteq M /\ DOMAIN d = {"pol", "keys"}
<1>1. \/ d = c
      \/ d = [c EXCEPT !.pol.crashed = TRUE]
      \/ \E q : d = [pol |-> q, keys |-> c.keys \cup {k}]
  <2>1. CASE c.pol.crashed
    BY <2>1 DEF Heap!Estimate
  <2>2. CASE ~c.pol.crashed
    <3> DEFINE p == c.pol
    <3> DEFINE E == Heap!Entries(p.otc, FALSE) \cup Heap!Entries(p.fresh, TRUE)
    <3> DEFINE R == Heap!MakeRoom(p, E, Heap!Value(p, k), p.freeOTC, Size[k])
    <3>1. PICK r \in R :
            d = CASE r.end = "refused" -> c
                  [] r.end = "crashed" -> [c EXCEPT !.pol.crashed = TRUE]
                  [] r.end = "room" ->
                       [pol |-> [p EXCEPT !.otc = Heap!Pushed(Heap!Popped(@, FALSE, r.out), {k}),
                                          !.fresh = Heap!Popped(@, TRUE, r.out),
                                          !.freeOTC = @ + Heap!Bytes(r.out) - Size[k]],
                        keys |-> c.keys \cup {k}]
      BY <2>2, Zenon DEF Heap!Estimate
    <3>2. r.end \in {"refused", "crashed", "room"}
      <4> HIDE DEF p, E
      <4> QED
        BY DEF R, Heap!MakeRoom
    <3> HIDE DEF R, E, p
    <3> QED
      BY <3>1, <3>2
  <2> QED
    BY <2>1, <2>2
<1>2. CASE d = c
  BY <1>2
<1>3. CASE d = [c EXCEPT !.pol.crashed = TRUE]
  BY <1>3
<1>4. CASE \E q : d = [pol |-> q, keys |-> c.keys \cup {k}]
  BY <1>4
<1> QED
  BY <1>1, <1>2, <1>3, <1>4

(* Only missing keys are to be cached, whatever the policy.                *)
LEMMA ToCacheWithin ==
    ASSUME config.policy \in {"LRU", "LFU", "LFUS", "WLFU"}, NEW p, NEW missing,
           NEW L \in Nat, L = Len(missing), NEW M, \A n \in 1 .. L : missing[n] \in M,
           DOMAIN missing = 1 .. L, NEW a \in OnToCache(p, missing)
    PROVE  a.keys \subseteq M
<1>0. ToSet(missing) \subseteq M
  BY DEF ToSet
<1>1. CASE config.policy = "LRU"
  <2>1. a \in LRU!OnToCache(p, missing)
    BY <1>1 DEF OnToCache
  <2> QED
    BY <1>0, <2>1 DEF LRU!OnToCache, LRU!ToSet, ToSet
<1>2. CASE config.policy = "LFU"
  <2>1. a \in LFU!OnToCache(p, missing)
    BY <1>2 DEF OnToCache
  <2> QED
    BY <1>0, <2>1 DEF LFU!OnToCache, LFU!ToSet, ToSet
<1>3. CASE config.policy \in {"LFUS", "WLFU"}
  <2>1. a \in Heap!OnToCache(p, missing)
    BY <1>3 DEF OnToCache
  <2>2. CASE p.crashed
    BY <2>1, <2>2 DEF Heap!OnToCache
  <2>3. CASE ~p.crashed /\ Heap!Ample(p.freeOTC)
    <3>1. a = [pol |-> Heap!TakeAll(p, missing), keys |-> ToSet(missing)]
      BY <2>1, <2>3, Zenon DEF Heap!OnToCache, Heap!ToSet, ToSet
    <3> QED
      BY <1>0, <3>1
  <2>4. CASE ~p.crashed /\ ~Heap!Ample(p.freeOTC)
    <3>1. PICK b : b = {[pol |-> p, keys |-> {}]}
      OBVIOUS
    <3>0. PICK f : EstimatesOf(f, p, missing, b, L)
      BY <2>4, <3>1, EstimateSteps, Zenon
    <3>2. /\ Heap!OnToCache(p, missing) = f[L] /\ f[0] = b
          /\ \A n \in 1 .. L : f[n] = UNION {Heap!Estimate(x, missing[n]) : x \in f[n - 1]}
      BY <3>0, Zenon DEF EstimatesOf
    <3> DEFINE T == {n \in Nat : n <= L => \A x \in f[n] : x.keys \subseteq M /\ DOMAIN x = {"pol", "keys"}}
    <3>3. 0 \in T
      BY <3>1, <3>2
    <3>4. ASSUME NEW n \in Nat, n \in T PROVE n + 1 \in T
      <4>1. SUFFICES ASSUME n + 1 <= L, NEW x \in f[n + 1]
                     PROVE  x.keys \subseteq M /\ DOMAIN x = {"pol", "keys"}
        OBVIOUS
      <4>2. n <= L /\ n + 1 \in 1 .. L /\ (n + 1) - 1 = n
        BY <4>1
      <4>3. PICK y \in f[n] : x \in Heap!Estimate(y, missing[n + 1])
        BY <3>2, <4>2
      <4>4. y.keys \subseteq M /\ DOMAIN y = {"pol", "keys"} /\ missing[n + 1] \in M
        BY <3>4, <4>2
      <4> QED
        BY <4>3, <4>4, EstimateWithin
    <3> HIDE DEF T
    <3>5. Nat \subseteq T
      BY <3>3, <3>4, Induction, Zenon
    <3> QED
      BY <2>1, <3>2, <3>5 DEF T
  <2> QED
    BY <2>2, <2>3, <2>4
<1> QED
  BY <1>1, <1>2, <1>3

(* The keys of a request that are not in the map.                          *)
NotThere(order) == {n \in DOMAIN order : order[n] \notin map}
LEMMA MissingKeys ==
    ASSUME NEW S, NEW order \in Seq(S), NEW missing, missing = At(order, NotThere(order))
    PROVE  /\ missing \in Seq(ToSet(order) \ map) /\ Len(missing) \in Nat
           /\ DOMAIN missing = 1 .. Len(missing)
           /\ \A n \in 1 .. Len(missing) : missing[n] \in ToSet(order) \ map
<1>1. PICK N \in Nat : N = Len(order) /\ DOMAIN order = 1 .. N
  OBVIOUS
<1>2. PICK P : P = NotThere(order)
  OBVIOUS
<1>3. PICK M : M = ToSet(order) \ map
  OBVIOUS
<1>4. P \in SUBSET (1 .. N) /\ Maps(order, P, M)
  BY <1>1, <1>2, <1>3 DEF Maps, ToSet, NotThere
<1>5. missing \in Seq(M)
  BY <1>2, <1>4, AtType
<1>6. Len(missing) \in Nat /\ DOMAIN missing = 1 .. Len(missing) /\ \A n \in 1 .. Len(missing) : missing[n] \in M
  <2>1. \A x \in Seq(M) : Len(x) \in Nat /\ DOMAIN x = 1 .. Len(x) /\ \A n \in 1 .. Len(x) : x[n] \in M
    OBVIOUS
  <2> QED
    BY <1>5, <2>1, Zenon
<1> QED
  BY <1>3, <1>5, <1>6, Zenon

(* A set in some order.                                                    *)
LEMMA InSomeOrder ==
    ASSUME NEW S, IsFiniteSet(S), NEW order \in SetToSeqs(S)
    PROVE  order \in Seq(S) /\ ToSet(order) = S
<1>1. PICK N \in Nat : N = Cardinality(S)
  BY FS_CardinalityType
<1>2. order \in [1 .. N -> S] /\ \A i, j \in 1 .. N : i # j => order[i] # order[j]
  BY <1>1 DEF SetToSeqs
<1>3. order \in Injection(1 .. N, S)
  BY <1>2 DEF Injection, IsInjective
<1>4. Cardinality(1 .. N) = N
  BY FS_Interval
<1>5. order \in Surjection(1 .. N, S)
  BY <1>1, <1>3, <1>4, FS_Injection
<1>6. \A x \in S : \E n \in 1 .. N : order[n] = x
  BY <1>5 DEF Surjection
<1> QED
  BY <1>2, <1>6 DEF ToSet

-----------------------------------------------------------------------------
(* The mailbox.                                                            *)

LEMMA Taken ==
    ASSUME NEW M, NEW q \in Seq(M), q # <<>>
    PROVE  /\ Head(q) \in M /\ Tail(q) \in Seq(M) /\ Head(q) \in ToSet(q)
           /\ ToSet(Tail(q)) \subseteq ToSet(q)
           /\ \A m, n : Before(Tail(q), m, n) => Before(q, m, n)
           /\ \A n \in ToSet(Tail(q)) : Before(q, Head(q), n)
<1>1. PICK l \in Nat : l = Len(q) /\ l >= 1
  OBVIOUS
<1>2. DOMAIN q = 1 .. l /\ Head(q) = q[1] /\ Tail(q) \in Seq(M) /\ Len(Tail(q)) = l - 1
  BY <1>1
<1>3. DOMAIN Tail(q) = 1 .. l - 1 /\ \A n \in 1 .. l - 1 : Tail(q)[n] = q[n + 1]
  BY <1>1, <1>2
<1>4. 1 \in 1 .. l /\ \A n \in 1 .. l - 1 : n + 1 \in 1 .. l /\ 1 < n + 1
  BY <1>1
<1>5. \A i, j \in 1 .. l - 1 : i < j => i + 1 < j + 1
  OBVIOUS
<1>6. Head(q) \in M /\ Head(q) \in ToSet(q)
  BY <1>2, <1>4 DEF ToSet
<1>a. PICK t : t = Tail(q)
  OBVIOUS
<1>b. DOMAIN t = 1 .. l - 1 /\ \A n \in 1 .. l - 1 : t[n] = q[n + 1]
  BY <1>3, <1>a
<1>7. ASSUME NEW n \in ToSet(t) PROVE n \in ToSet(q) /\ Before(q, Head(q), n)
  <2>1. PICK i \in 1 .. l - 1 : n = t[i]
    BY <1>b DEF ToSet
  <2>2. i + 1 \in 1 .. l /\ 1 < i + 1 /\ n = q[i + 1]
    BY <1>4, <1>b, <2>1
  <2>3. PICK j \in DOMAIN q : 1 < j /\ n = q[j]
    BY <1>2, <2>2
  <2>4. 1 \in DOMAIN q
    BY <1>2, <1>4
  <2> QED
    BY <1>2, <2>3, <2>4, Zenon DEF Before, ToSet
<1>8. ASSUME NEW m, NEW n, Before(t, m, n) PROVE Before(q, m, n)
  <2>1. PICK i \in 1 .. l - 1, j \in 1 .. l - 1 : i < j /\ m = t[i] /\ n = t[j]
    BY <1>8, <1>b DEF Before
  <2>2. i + 1 \in 1 .. l /\ j + 1 \in 1 .. l /\ i + 1 < j + 1 /\ m = q[i + 1] /\ n = q[j + 1]
    BY <1>4, <1>5, <1>b, <2>1
  <2>3. i + 1 \in DOMAIN q /\ j + 1 \in DOMAIN q
    BY <1>2, <2>2
  <2> QED
    BY <2>2, <2>3, Zenon DEF Before
<1> QED
  BY <1>2, <1>6, <1>7, <1>8, <1>a, Zenon

LEMMA Added ==
    ASSUME NEW M, NEW q \in Seq(M), NEW x \in M
    PROVE  /\ Append(q, x) \in Seq(M) /\ ToSet(Append(q, x)) = ToSet(q) \cup {x}
           /\ \A m, n : Before(Append(q, x), m, n) => Before(q, m, n) \/ (m \in ToSet(q) /\ n = x)
<1>1. PICK l \in Nat : l = Len(q)
  OBVIOUS
<1>2. DOMAIN q = 1 .. l
  BY <1>1
<1>0. Append(q, x) \in Seq(M)
  OBVIOUS
<1> DEFINE s == Append(q, x)
<1>4. DOMAIN s = 1 .. l + 1 /\ s[l + 1] = x /\ \A n \in 1 .. l : s[n] = q[n]
  BY <1>1
<1> HIDE DEF s
<1>5. \A n : n \in 1 .. l + 1 <=> n \in 1 .. l \/ n = l + 1
  OBVIOUS
<1>6. \A i, j \in 1 .. l + 1 : i < j => i \in 1 .. l
  OBVIOUS
<1>7. ToSet(s) = ToSet(q) \cup {x}
  BY <1>2, <1>4, <1>5, Zenon DEF ToSet
<1>8. ASSUME NEW m, NEW n, Before(s, m, n) PROVE Before(q, m, n) \/ (m \in ToSet(q) /\ n = x)
  <2>1. PICK i \in 1 .. l + 1, j \in 1 .. l + 1 : i < j /\ m = s[i] /\ n = s[j]
    BY <1>4, <1>8 DEF Before
  <2>2. i \in 1 .. l /\ m = q[i]
    BY <1>4, <1>6, <2>1
  <2>3. CASE j \in 1 .. l
    BY <1>2, <1>4, <2>1, <2>2, <2>3, Zenon DEF Before
  <2>4. CASE j = l + 1
    BY <1>2, <1>4, <2>1, <2>2, <2>4, Zenon DEF ToSet
  <2> QED
    BY <1>5, <2>3, <2>4, Zenon
<1>9. \A m, n : Before(s, m, n) => Before(q, m, n) \/ (m \in ToSet(q) /\ n = x)
  BY <1>8
<1> QED
  BY <1>0, <1>7, <1>9 DEF s

LEMMA MessageKinds ==
    ASSUME NEW m \in Message
    PROVE  /\ m.type = "Load" => m \in LoadMsg /\ m.scan \in Scan /\ m.order \in Seq(Key)
           /\ m.type = "Store" => m \in StoreMsg /\ m.keys \in KeySet
           /\ m.type = "Weight" => m.keys \in KeySet
           /\ m.type \in {"NewQuery", "Load", "Store", "Weight"}
<1>1. m \in LoadMsg => m.type = "Load" /\ m.scan \in Scan /\ m.order \in Seq(Key)
  BY DEF LoadMsg
<1>2. m \in StoreMsg => m.type = "Store" /\ m.keys \in KeySet
  BY DEF StoreMsg
<1>3. m \in WeightMsg => m.type = "Weight" /\ m.keys \in KeySet
  BY DEF WeightMsg
<1>4. m \in QueryMsg => m.type = "NewQuery"
  BY DEF QueryMsg
<1>5. m \in LoadMsg \/ m \in StoreMsg \/ m \in WeightMsg \/ m \in QueryMsg
  BY DEF Message
<1> QED
  BY <1>1, <1>2, <1>3, <1>4, <1>5

(* The mailbox loses its first message, or gets one that is no load.       *)
Quietly ==
    \/ mailbox' = mailbox
    \/ mailbox # <<>> /\ mailbox' = Tail(mailbox)
    \/ \E x \in Message : x.type # "Load" /\ mailbox' = Append(mailbox, x)

LEMMA QuietMailbox ==
    ASSUME mailbox \in Seq(Message), Quietly
    PROVE  /\ mailbox' \in Seq(Message)
           /\ \A m \in ToSet(mailbox') : m.type = "Load" => m \in ToSet(mailbox)
           /\ \A m, n : Before(mailbox', m, n) /\ n.type = "Load" => Before(mailbox, m, n)
<1>1. CASE mailbox' = mailbox
  BY <1>1
<1>2. CASE mailbox # <<>> /\ mailbox' = Tail(mailbox)
  BY <1>2, Taken, ZenonT(40)
<1>3. CASE \E x \in Message : x.type # "Load" /\ mailbox' = Append(mailbox, x)
  <2>1. PICK x \in Message : x.type # "Load" /\ mailbox' = Append(mailbox, x)
    BY <1>3
  <2>2. /\ mailbox' \in Seq(Message) /\ ToSet(mailbox') = ToSet(mailbox) \cup {x}
        /\ \A m, n : Before(mailbox', m, n) => Before(mailbox, m, n) \/ (m \in ToSet(mailbox) /\ n = x)
    BY <2>1, Added, ZenonT(40)
  <2>3. \A m \in ToSet(mailbox') : m.type = "Load" => m \in ToSet(mailbox)
    BY <2>1, <2>2
  <2>4. \A m, n : Before(mailbox', m, n) /\ n.type = "Load" => Before(mailbox, m, n)
    BY <2>1, <2>2
  <2> QED
    BY <2>2, <2>3, <2>4
<1> QED
  BY <1>1, <1>2, <1>3 DEF Quietly

-----------------------------------------------------------------------------
(* The answers.                                                            *)

(* Nothing has changed that is said of a scan.                             *)
SameAnswers(c, d) ==
    /\ c \in [Scan -> ScanState]
    /\ \A s \in Scan : /\ c[s].at = d[s].at /\ c[s].hit = d[s].hit /\ c[s].toCache = d[s].toCache
                       /\ c[s].push = d[s].push /\ c[s].needed = d[s].needed
LEMMA Kept ==
    ASSUME CacheInv, UNCHANGED <<config, plan>>, map' \subseteq Key, query' \in 0 .. MaxQueries,
           late' \subseteq Nat \X Scan \X StoreMsg, SameAnswers(scan', scan), Quietly
    PROVE  CacheInv'
<1> USE DEF SameAnswers
<1>1. /\ mailbox' \in Seq(Message)
      /\ \A m \in ToSet(mailbox') : m.type = "Load" => m \in ToSet(mailbox)
      /\ \A m, n : Before(mailbox', m, n) /\ n.type = "Load" => Before(mailbox, m, n)
  <2>1. mailbox \in Seq(Message)
    BY DEF CacheInv, StateInv
  <2> QED
    BY <2>1, QuietMailbox, Zenon
<1>2. StateInv'
  BY <1>1 DEF StateInv, CacheInv
<1>3. /\ \A s \in Scan : Columns(s)' = Columns(s) /\ ScanKeys(s)' = ScanKeys(s)
  BY DEF Columns, ScanKeys, KeysOf
<1>4. LoadInv'
  <2>1. ASSUME NEW m \in ToSet(mailbox'), m.type = "Load"
        PROVE  scan'[m.scan].at = "asked" /\ ToSet(m.order) = ScanKeys(m.scan)'
    <3>1. m \in ToSet(mailbox) /\ m \in Message
      <4>1. m \in ToSet(mailbox)
        BY <1>1, <2>1
      <4> QED
        BY <4>1 DEF CacheInv, StateInv, ToSet
    <3>2. scan[m.scan].at = "asked" /\ ToSet(m.order) = ScanKeys(m.scan) /\ m.scan \in Scan
      BY <2>1, <3>1, MessageKinds DEF CacheInv, LoadInv, Asked
    <3> QED
      BY <1>3, <3>2
  <2>2. \A m \in ToSet(mailbox') : Asked(m)'
    BY <2>1 DEF Asked
  <2>3. \A m, n \in Message :
          Before(mailbox', m, n) /\ m.type = "Load" /\ n.type = "Load" => m.scan # n.scan
    BY <1>1, Zenon DEF CacheInv, LoadInv
  <2> QED
    BY <2>2, <2>3 DEF LoadInv
<1>5. AnswerInv'
  <2>1. ASSUME NEW s \in Scan PROVE Answered(s)'
    <3>1. Answered(s)
      BY DEF CacheInv, AnswerInv
    <3> QED
      BY <1>3, <3>1 DEF Answered
  <2> QED
    BY <2>1 DEF AnswerInv
<1>6. EachColumnOnce'
  BY DEF CacheInv, EachColumnOnce
<1> QED
  BY <1>2, <1>4, <1>5, <1>6 DEF CacheInv

(* What a scan reads.                                                      *)
LEMMA PlanFacts ==
    ASSUME plan \in Plans, NEW s \in Scan
    PROVE  /\ plan[s].part \in Partition /\ plan[s].proj \in SUBSET Column /\ plan[s].pred \in SUBSET Column
           /\ Columns(s) \in SUBSET Column /\ ScanKeys(s) \in KeySet
           /\ \A C \in SUBSET Column : KeysOf(s, C) \in KeySet
<1>1. plan \in [Scan -> [part : Partition, proj : SUBSET Column, pred : SUBSET Column]]
  BY SegmentAssumption
<1>2. plan[s] \in [part : Partition, proj : SUBSET Column, pred : SUBSET Column]
  BY <1>1
<1>3. plan[s].part \in Partition /\ plan[s].proj \in SUBSET Column /\ plan[s].pred \in SUBSET Column
  BY <1>2
<1>4. Columns(s) \in SUBSET Column
  BY <1>3 DEF Columns
<1>5. ASSUME NEW C \in SUBSET Column PROVE KeysOf(s, C) \in KeySet
  <2>1. IsFiniteSet(C) /\ IsFiniteSet({plan[s].part})
    BY SegmentAssumption, FS_Subset, FS_Singleton
  <2>2. IsFiniteSet({plan[s].part} \X C)
    BY <2>1, FS_Product
  <2> QED
    BY <1>3, <2>2 DEF KeysOf, Key, KeySet
<1> QED
  BY <1>3, <1>4, <1>5 DEF ScanKeys

LEMMA ConfigFacts ==
    ASSUME config \in Configs
    PROVE  /\ config.policy \in {"LRU", "LFU", "LFUS", "WLFU"}
           /\ config.mode \in {"CACHING_ONLY", "HYBRID"} /\ config.airmettle \in BOOLEAN
<1>1. config \in [policy : {"LRU", "LFU", "LFUS", "WLFU"},
                  mode : {"CACHING_ONLY", "HYBRID"}, airmettle : BOOLEAN]
  BY SegmentAssumption
<1> QED
  BY <1>1

(* The cache actor stores: the map gets no key but those of the message.   *)
LEMMA StoreFacts ==
    ASSUME CacheInv, HandleStore
    PROVE  /\ mailbox # <<>> /\ mailbox' = Tail(mailbox) /\ Head(mailbox) \in StoreMsg
           /\ map' \subseteq map \cup Head(mailbox).keys
           /\ UNCHANGED <<config, query, plan, scan, late>>
<1>1. mailbox \in Seq(Message) /\ mailbox # <<>> /\ Head(mailbox).type = "Store"
  BY DEF CacheInv, StateInv, HandleStore, Received
<1>2. PICK m \in Message : m = Head(mailbox)
  BY <1>1, Taken, ZenonT(40)
<1>3. m \in StoreMsg /\ m.keys \in KeySet
  BY <1>1, <1>2, MessageKinds
<1>4. PICK order \in SetToSeqs(m.keys) :
        \E c \in StoreKeys([pol |-> pol, map |-> map], order) : pol' = c.pol /\ map' = c.map
  BY <1>2, Zenon DEF HandleStore
<1>5. PICK b : b = [pol |-> pol, map |-> map]
  OBVIOUS
<1>6. PICK c \in StoreKeys(b, order) : map' = c.map
  BY <1>4, <1>5
<1>7. order \in [1 .. Cardinality(m.keys) -> m.keys]
  BY DEF SetToSeqs
<1>8. map' \subseteq map \cup m.keys
  <2>1. PICK M : M = map \cup m.keys
    OBVIOUS
  <2>2. \E L \in Nat : L = Len(order) /\ \A n \in 1 .. L : order[n] \in m.keys
    <3>1. PICK L \in Nat : L = Cardinality(m.keys)
      BY <1>3, FS_CardinalityType DEF KeySet
    <3>2. order \in [1 .. L -> m.keys]
      BY <1>7, <3>1
    <3> QED
      BY <3>2
  <2> QED
    BY <1>5, <1>6, <2>1, <2>2, StoreKeysWithin
<1> QED
  BY <1>1, <1>2, <1>3, <1>8 DEF HandleStore

LEMMA FieldChange ==
    ASSUME NEW c \in [Scan -> ScanState], NEW s \in Scan, NEW x,
           x = [c[s] EXCEPT !.pulled = TRUE] \/ x = [c[s] EXCEPT !.pushed = TRUE]
    PROVE  SameAnswers([c EXCEPT ![s] = x], c)
<1>1. c[s] \in ScanState
  OBVIOUS
<1>2. /\ x \in ScanState /\ x.at = c[s].at /\ x.hit = c[s].hit /\ x.toCache = c[s].toCache
      /\ x.push = c[s].push /\ x.needed = c[s].needed
  BY <1>1 DEF ScanState
<1> QED
  BY <1>2 DEF SameAnswers

LEMMA QuietHandlers ==
    ASSUME CacheInv, HandleNewQuery \/ HandleWeight
    PROVE  /\ CacheInv' /\ mailbox # <<>> /\ mailbox' = Tail(mailbox)
           /\ UNCHANGED <<config, map, query, plan, scan, late>>
<1>1. /\ mailbox # <<>> /\ mailbox' = Tail(mailbox)
      /\ UNCHANGED <<config, map, query, plan, scan, late>>
  BY DEF HandleNewQuery, HandleWeight, Received
<1>2. Quietly
  BY <1>1 DEF Quietly
<1>3. /\ UNCHANGED <<config, plan, scan>> /\ map' \subseteq Key /\ query' \in 0 .. MaxQueries
      /\ late' \subseteq Nat \X Scan \X StoreMsg /\ SameAnswers(scan', scan)
  BY <1>1 DEF CacheInv, StateInv, SameAnswers
<1> QED
  BY <1>1, <1>2, <1>3, Kept

LEMMA StoreKeepsInv ==
    ASSUME CacheInv, HandleStore
    PROVE  CacheInv'
<1>1. /\ mailbox # <<>> /\ mailbox' = Tail(mailbox) /\ Head(mailbox) \in StoreMsg
      /\ map' \subseteq map \cup Head(mailbox).keys
      /\ UNCHANGED <<config, query, plan, scan, late>>
  BY StoreFacts
<1>2. Quietly
  BY <1>1 DEF Quietly
<1>3. Head(mailbox).keys \subseteq Key
  BY <1>1 DEF StoreMsg, KeySet
<1>4. /\ UNCHANGED <<config, plan, scan>> /\ map' \subseteq Key /\ query' \in 0 .. MaxQueries
      /\ late' \subseteq Nat \X Scan \X StoreMsg /\ SameAnswers(scan', scan)
  BY <1>1, <1>3 DEF CacheInv, StateInv, SameAnswers
<1> QED
  BY <1>2, <1>4, Kept

LEMMA LateFacts ==
    ASSUME CacheInv, LateStore
    PROVE  /\ CacheInv' /\ UNCHANGED <<config, map, query, plan, scan>>
           /\ \E l \in late : /\ l \in Nat \X Scan \X StoreMsg /\ late' = late \ {l}
                              /\ l[3] \in Message /\ mailbox' = Append(mailbox, l[3])
<1>1. UNCHANGED <<config, map, query, plan, scan>>
  BY DEF LateStore
<1>2. PICK l \in late : late' = late \ {l} /\ mailbox' = Append(mailbox, l[3])
  BY DEF LateStore
<1>3. l \in Nat \X Scan \X StoreMsg
  BY DEF CacheInv, StateInv
<1>4. l[3] \in StoreMsg /\ l[3].type = "Store"
  BY <1>3 DEF StoreMsg
<1>5. l[3] \in Message
  BY <1>4 DEF Message
<1>6. Quietly
  BY <1>2, <1>4, <1>5 DEF Quietly
<1>7. /\ UNCHANGED <<config, plan, scan>> /\ map' \subseteq Key /\ query' \in 0 .. MaxQueries
      /\ late' \subseteq Nat \X Scan \X StoreMsg /\ SameAnswers(scan', scan)
  BY <1>1, <1>2 DEF CacheInv, StateInv, SameAnswers
<1>8. CacheInv'
  BY <1>6, <1>7, Kept
<1> QED
  BY <1>1, <1>2, <1>3, <1>5, <1>8

LEMMA PullUpFacts ==
    ASSUME CacheInv, NEW s \in Scan, PullUp(s)
    PROVE  /\ CacheInv' /\ UNCHANGED <<config, map, query, plan>>
           /\ scan[s].at = "reading" /\ ~scan[s].pulled
           /\ scan' = [scan EXCEPT ![s] = [scan[s] EXCEPT !.pulled = TRUE]]
           /\ \E m \in StoreMsg :
                /\ m \in Message /\ m.type = "Store" /\ m.keys = KeysOf(s, scan[s].toCache)
                /\ \/ mailbox' = mailbox /\ late' = late
                   \/ mailbox' = Append(mailbox, m) /\ late' = late
                   \/ mailbox' = mailbox /\ late' = late \cup {<<query, s, m>>}
<1>1. /\ UNCHANGED <<config, map, query, plan>> /\ scan[s].at = "reading" /\ ~scan[s].pulled
      /\ scan' = [scan EXCEPT ![s] = [scan[s] EXCEPT !.pulled = TRUE]]
  BY DEF PullUp
<1>2. scan[s] \in ScanState /\ plan \in Plans /\ query \in Nat /\ scan \in [Scan -> ScanState]
  BY SegmentAssumption DEF CacheInv, StateInv
<1>3. scan[s].toCache \in SUBSET Column
  BY <1>2 DEF ScanState
<1>4. KeysOf(s, scan[s].toCache) \in KeySet
  BY <1>2, <1>3, PlanFacts
<1>5. PICK m : m = [type |-> "Store", keys |-> KeysOf(s, scan[s].toCache)]
  OBVIOUS
<1>6. m \in StoreMsg /\ m.type = "Store" /\ m.keys = KeysOf(s, scan[s].toCache)
  BY <1>4, <1>5 DEF StoreMsg
<1>7. m \in Message
  BY <1>6 DEF Message
<1>8. \/ mailbox' = mailbox /\ late' = late
      \/ mailbox' = Append(mailbox, m) /\ late' = late
      \/ mailbox' = mailbox /\ late' = late \cup {<<query, s, m>>}
  <2>1. /\ mailbox' = IF m.keys # {} /\ scan[s].needed THEN Append(mailbox, m) ELSE mailbox
        /\ late' = IF m.keys # {} /\ ~scan[s].needed THEN late \cup {<<query, s, m>>} ELSE late
    BY <1>5, Zenon DEF PullUp, Fetched
  <2> QED
    BY <2>1
<1>9. Quietly
  BY <1>6, <1>7, <1>8 DEF Quietly
<1>a. SameAnswers(scan', scan)
  <2>1. PICK x : x = [scan[s] EXCEPT !.pulled = TRUE]
    OBVIOUS
  <2>2. scan' = [scan EXCEPT ![s] = x]
    BY <1>1, <2>1
  <2> QED
    BY <1>2, <2>1, <2>2, FieldChange, Zenon
<1>b. /\ map' \subseteq Key /\ query' \in 0 .. MaxQueries /\ late' \subseteq Nat \X Scan \X StoreMsg
  BY <1>1, <1>2, <1>6, <1>8 DEF CacheInv, StateInv
<1>c. CacheInv'
  BY <1>1, <1>9, <1>a, <1>b, Kept
<1> QED
  BY <1>1, <1>6, <1>7, <1>8, <1>c

LEMMA PushDownFacts ==
    ASSUME CacheInv, NEW s \in Scan, PushDown(s)
    PROVE  /\ CacheInv' /\ UNCHANGED <<config, map, query, plan, late>>
           /\ scan' = [scan EXCEPT ![s] = [scan[s] EXCEPT !.pushed = TRUE]]
           /\ scan[s].at = "reading"
           /\ \/ mailbox' = mailbox
              \/ \E m \in Message : /\ m.type = "Weight" /\ m.keys = ScanKeys(s)
                                    /\ mailbox' = Append(mailbox, m)
<1>1. /\ UNCHANGED <<config, map, query, plan, late>>
      /\ scan' = [scan EXCEPT ![s] = [scan[s] EXCEPT !.pushed = TRUE]] /\ scan[s].at = "reading"
  BY DEF PushDown
<1>2. scan \in [Scan -> ScanState] /\ plan \in Plans
  BY DEF CacheInv, StateInv
<1>3. ScanKeys(s) \in KeySet
  BY <1>2, PlanFacts
<1>4. PICK m : m = [type |-> "Weight", keys |-> ScanKeys(s)]
  OBVIOUS
<1>5. m \in WeightMsg /\ m.type = "Weight" /\ m.keys = ScanKeys(s)
  BY <1>3, <1>4 DEF WeightMsg
<1>6. m \in Message
  BY <1>5 DEF Message
<1>7. mailbox' = mailbox \/ mailbox' = Append(mailbox, m)
  BY <1>4, Zenon DEF PushDown, ScanKeys
<1>8. Quietly
  BY <1>5, <1>6, <1>7 DEF Quietly
<1>9. SameAnswers(scan', scan)
  <2>1. PICK x : x = [scan[s] EXCEPT !.pushed = TRUE]
    OBVIOUS
  <2>2. scan' = [scan EXCEPT ![s] = x]
    BY <1>1, <2>1
  <2> QED
    BY <1>2, <2>1, <2>2, FieldChange, Zenon
<1>a. /\ map' \subseteq Key /\ query' \in 0 .. MaxQueries /\ late' \subseteq Nat \X Scan \X StoreMsg
  BY <1>1 DEF CacheInv, StateInv
<1>b. CacheInv'
  BY <1>1, <1>8, <1>9, <1>a, Kept
<1> QED
  BY <1>1, <1>5, <1>6, <1>7, <1>b

(* The scan s has the answer that the keys K are to be fetched for the     *)
(* cache, of those not there.                                              *)
Answer(s, K) ==
    /\ K \subseteq ScanKeys(s) \ map
    /\ config.mode = "CACHING_ONLY" => K = ScanKeys(s) \ map
    /\ scan' = [scan EXCEPT ![s] = [scan[s] EXCEPT !.at = "answered",
                                        !.hit = ColumnNames(ScanKeys(s) \cap map),
                                        !.toCache = ColumnNames(K)]]

LEMMA LoadFacts ==
    ASSUME CacheInv, HandleLoad
    PROVE  \E m \in LoadMsg :
             /\ m \in Message /\ m.type = "Load" /\ m = Head(mailbox)
             /\ mailbox # <<>> /\ mailbox' = Tail(mailbox)
             /\ m.scan \in Scan /\ scan[m.scan].at = "asked" /\ ToSet(m.order) = ScanKeys(m.scan)
             /\ UNCHANGED <<config, map, query, plan, late>>
             /\ scan' = scan \/ \E K : Answer(m.scan, K)
<1>1. mailbox \in Seq(Message) /\ mailbox # <<>> /\ Head(mailbox).type = "Load"
  BY DEF CacheInv, StateInv, HandleLoad, Received
<1>2. PICK m \in Message : m = Head(mailbox) /\ m \in ToSet(mailbox)
  BY <1>1, Taken, ZenonT(40)
<1>3. m \in LoadMsg /\ m.scan \in Scan /\ m.order \in Seq(Key) /\ m.type = "Load"
  BY <1>1, <1>2, MessageKinds
<1>4. scan[m.scan].at = "asked" /\ ToSet(m.order) = ScanKeys(m.scan)
  BY <1>2, <1>3 DEF CacheInv, LoadInv, Asked
<1>5. mailbox' = Tail(mailbox) /\ UNCHANGED <<config, map, query, plan, late>>
  BY DEF HandleLoad
<1> DEFINE missing == At(m.order, {n \in DOMAIN m.order : m.order[n] \notin map})
<1> DEFINE loaded == LoadKeys(m.order)
<1> DEFINE answers == IF config.mode = "CACHING_ONLY" \/ loaded.crashed
                      THEN {[pol |-> loaded, keys |-> ToSet(m.order) \ map]}
                      ELSE OnToCache(loaded, missing)
<1>6. PICK a \in answers :
        scan' = IF a.pol.crashed THEN scan
                ELSE [scan EXCEPT ![m.scan] =
                        [scan[m.scan] EXCEPT !.at = "answered",
                                             !.hit = ColumnNames(ToSet(m.order) \cap map),
                                             !.toCache = ColumnNames(a.keys)]]
  BY <1>2, Zenon DEF HandleLoad
<1>7. a.keys \subseteq ToSet(m.order) \ map
  <2>1. CASE config.mode = "CACHING_ONLY" \/ loaded.crashed
    BY <2>1
  <2>2. CASE ~(config.mode = "CACHING_ONLY" \/ loaded.crashed)
    <3>1. a \in OnToCache(loaded, missing)
      BY <2>2, Zenon
    <3>2. PICK r : r = missing
      OBVIOUS
    <3> HIDE DEF missing, loaded, answers
    <3>3. PICK p : p = loaded
      OBVIOUS
    <3>4. a \in OnToCache(p, r)
      BY <3>1, <3>2, <3>3
    <3>5. /\ Len(r) \in Nat /\ DOMAIN r = 1 .. Len(r)
          /\ \A n \in 1 .. Len(r) : r[n] \in ToSet(m.order) \ map
      <4>1. PICK o \in Seq(Key) : o = m.order
        BY <1>3
      <4>2. r = At(o, NotThere(o))
        BY <3>2, <4>1 DEF missing, NotThere
      <4>3. /\ Len(r) \in Nat /\ DOMAIN r = 1 .. Len(r)
            /\ \A n \in 1 .. Len(r) : r[n] \in ToSet(o) \ map
        BY <4>2, MissingKeys, Zenon
      <4> QED
        BY <4>1, <4>3, Zenon
    <3>6. config.policy \in {"LRU", "LFU", "LFUS", "WLFU"}
      BY ConfigFacts DEF CacheInv, StateInv
    <3>7. PICK L \in Nat : L = Len(r)
      BY <3>5, Zenon
    <3>8. DOMAIN r = 1 .. L /\ \A n \in 1 .. L : r[n] \in ToSet(m.order) \ map
      BY <3>5, <3>7
    <3>9. PICK M : M = ToSet(m.order) \ map
      OBVIOUS
    <3> QED
      BY <3>4, <3>6, <3>7, <3>8, <3>9, ToCacheWithin
  <2> QED
    BY <2>1, <2>2
<1>8. config.mode = "CACHING_ONLY" => a.keys = ToSet(m.order) \ map
  OBVIOUS
<1> HIDE DEF answers
<1>9. scan' = scan \/ \E K : Answer(m.scan, K)
  <2>1. CASE a.pol.crashed
    BY <1>6, <2>1
  <2>2. CASE ~a.pol.crashed
    <3>1. PICK K : K = a.keys
      OBVIOUS
    <3>2. Answer(m.scan, K)
      BY <1>4, <1>6, <1>7, <1>8, <2>2, <3>1, Zenon DEF Answer
    <3> QED
      BY <3>2
  <2> QED
    BY <2>1, <2>2
<1> QED
  BY <1>1, <1>2, <1>3, <1>4, <1>5, <1>9, Zenon

(* The columns of a set of keys of a scan, and back.                       *)
LEMMA NamesOfKeys ==
    ASSUME NEW s, NEW K, K \subseteq ScanKeys(s)
    PROVE  ColumnNames(K) \subseteq Columns(s) /\ KeysOf(s, ColumnNames(K)) = K
<1>1. \A k \in K : k = <<plan[s].part, k[2]>> /\ k[2] \in Columns(s)
  BY DEF ScanKeys, KeysOf
<1>2. \A k \in K : k[2] \in ColumnNames(K)
  BY DEF ColumnNames
<1>3. \A c \in ColumnNames(K) : <<plan[s].part, c>> \in K
  BY <1>1 DEF ColumnNames
<1>4. \A k : k \in KeysOf(s, ColumnNames(K)) <=> \E c \in ColumnNames(K) : k = <<plan[s].part, c>>
  BY DEF KeysOf
<1>5. \A k : k \in KeysOf(s, ColumnNames(K)) <=> k \in K
  BY <1>1, <1>2, <1>3, <1>4, Zenon
<1>6. ColumnNames(K) \subseteq Columns(s)
  BY <1>1 DEF ColumnNames
<1> QED
  BY <1>5, <1>6

LEMMA AnswerNames ==
    ASSUME NEW s, NEW M, NEW K, K = ScanKeys(s) \ M
    PROVE  ColumnNames(ScanKeys(s) \cap M) \cup ColumnNames(K) = Columns(s)
<1>1. \A c \in Columns(s) : <<plan[s].part, c>> \in ScanKeys(s)
  BY DEF ScanKeys, KeysOf
<1>2. \A c \in Columns(s) : c \in ColumnNames(ScanKeys(s) \cap M) \/ c \in ColumnNames(K)
  <2> SUFFICES ASSUME NEW c \in Columns(s) PROVE c \in ColumnNames(ScanKeys(s) \cap M) \/ c \in ColumnNames(K)
    OBVIOUS
  <2>1. PICK k \in ScanKeys(s) : k = <<plan[s].part, c>>
    BY <1>1
  <2>2. k[2] = c
    BY <2>1
  <2>3. k \in ScanKeys(s) \cap M \/ k \in K
    OBVIOUS
  <2> QED
    BY <2>2, <2>3, Zenon DEF ColumnNames
<1>3. ColumnNames(ScanKeys(s) \cap M) \subseteq Columns(s) /\ ColumnNames(K) \subseteq Columns(s)
  <2>1. ScanKeys(s) \cap M \subseteq ScanKeys(s) /\ K \subseteq ScanKeys(s)
    OBVIOUS
  <2> QED
    BY <2>1, NamesOfKeys
<1> QED
  BY <1>2, <1>3

LEMMA LoadKeepsInv ==
    ASSUME CacheInv, HandleLoad
    PROVE  CacheInv'
<1>1. PICK m \in LoadMsg :
             /\ m \in Message /\ m.type = "Load" /\ m = Head(mailbox)
             /\ mailbox # <<>> /\ mailbox' = Tail(mailbox)
             /\ m.scan \in Scan /\ scan[m.scan].at = "asked" /\ ToSet(m.order) = ScanKeys(m.scan)
             /\ UNCHANGED <<config, map, query, plan, late>>
             /\ scan' = scan \/ \E K : Answer(m.scan, K)
  BY LoadFacts
<1>2. CASE scan' = scan
  <2>1. Quietly
    BY <1>1 DEF Quietly
  <2>2. /\ UNCHANGED <<config, plan, scan>> /\ map' \subseteq Key /\ query' \in 0 .. MaxQueries
        /\ late' \subseteq Nat \X Scan \X StoreMsg /\ SameAnswers(scan', scan)
    BY <1>1, <1>2 DEF CacheInv, StateInv, SameAnswers
  <2> QED
    BY <2>1, <2>2, Kept
<1>3. CASE \E K : Answer(m.scan, K)
  <2>1. PICK K : Answer(m.scan, K)
    BY <1>3
  <2>2. PICK s \in Scan : s = m.scan
    BY <1>1
  <2>3. PICK H, C : H = ColumnNames(ScanKeys(s) \cap map) /\ C = ColumnNames(K)
    OBVIOUS
  <2>4. /\ H \subseteq Columns(s) /\ C \subseteq Columns(s)
        /\ config.mode = "CACHING_ONLY" => H \cup C = Columns(s)
    <3>1. K \subseteq ScanKeys(s) /\ ScanKeys(s) \cap map \subseteq ScanKeys(s)
      BY <2>1, <2>2 DEF Answer
    <3>2. H \subseteq Columns(s) /\ C \subseteq Columns(s)
      BY <2>3, <3>1, NamesOfKeys
    <3>3. config.mode = "CACHING_ONLY" => H \cup C = Columns(s)
      <4>1. SUFFICES ASSUME config.mode = "CACHING_ONLY" PROVE H \cup C = Columns(s)
        OBVIOUS
      <4>2. K = ScanKeys(s) \ map
        BY <2>1, <2>2, <4>1 DEF Answer
      <4> QED
        BY <2>3, <4>2, AnswerNames
    <3> QED
      BY <3>2, <3>3
  <2>5. scan' = [scan EXCEPT ![s] = [scan[s] EXCEPT !.at = "answered", !.hit = H, !.toCache = C]]
    BY <2>1, <2>2, <2>3, Zenon DEF Answer
  <2>6. /\ scan \in [Scan -> ScanState] /\ mailbox \in Seq(Message) /\ plan \in Plans
        /\ config \in Configs /\ map \subseteq Key /\ query \in 0 .. MaxQueries
        /\ late \subseteq Nat \X Scan \X StoreMsg
    BY DEF CacheInv, StateInv
  <2>7. Columns(s) \subseteq Column
    BY <2>6, PlanFacts
  <2>8. PICK x : x = [scan[s] EXCEPT !.at = "answered", !.hit = H, !.toCache = C]
    OBVIOUS
  <2>9. x \in ScanState /\ x.at = "answered" /\ x.hit = H /\ x.toCache = C
    <3>1. scan[s] \in ScanState
      BY <2>6
    <3> QED
      BY <2>4, <2>7, <2>8, <3>1 DEF ScanState
  <2>a. scan' = [scan EXCEPT ![s] = x]
    BY <2>5, <2>8
  <2>b. scan' \in [Scan -> ScanState] /\ scan'[s] = x /\ \A t \in Scan : t # s => scan'[t] = scan[t]
    BY <2>6, <2>9, <2>a
  <2>c. /\ mailbox' \in Seq(Message) /\ ToSet(mailbox') \subseteq ToSet(mailbox)
        /\ \A n \in ToSet(mailbox') : Before(mailbox, m, n)
        /\ \A k, n : Before(mailbox', k, n) => Before(mailbox, k, n)
    BY <1>1, <2>6, Taken, ZenonT(40)
  <2>d. \A t : Columns(t)' = Columns(t) /\ ScanKeys(t)' = ScanKeys(t)
    BY <1>1 DEF Columns, ScanKeys, KeysOf
  <2>e. StateInv'
    BY <1>1, <2>6, <2>b, <2>c DEF StateInv
  <2>f. LoadInv'
    <3>1. ASSUME NEW n \in ToSet(mailbox'), n.type = "Load"
          PROVE  scan'[n.scan].at = "asked" /\ ToSet(n.order) = ScanKeys(n.scan)'
      <4>1. n \in ToSet(mailbox) /\ n \in Message /\ Before(mailbox, m, n)
        <5>1. n \in ToSet(mailbox)
          BY <2>c
        <5> QED
          BY <2>6, <2>c, <5>1 DEF ToSet
      <4>2. n.scan # s /\ n.scan \in Scan
        BY <1>1, <2>2, <3>1, <4>1, MessageKinds DEF CacheInv, LoadInv
      <4>3. scan[n.scan].at = "asked" /\ ToSet(n.order) = ScanKeys(n.scan)
        BY <3>1, <4>1 DEF CacheInv, LoadInv, Asked
      <4> QED
        BY <2>b, <2>d, <4>2, <4>3
    <3>2. \A n \in ToSet(mailbox') : Asked(n)'
      BY <3>1 DEF Asked
    <3>3. \A k, n \in Message :
            Before(mailbox', k, n) /\ k.type = "Load" /\ n.type = "Load" => k.scan # n.scan
      BY <2>c, Zenon DEF CacheInv, LoadInv
    <3> QED
      BY <3>2, <3>3 DEF LoadInv
  <2>g. AnswerInv'
    <3>1. ASSUME NEW t \in Scan PROVE Answered(t)'
      <4>1. CASE t = s
        BY <1>1, <2>4, <2>9, <2>b, <2>d, <4>1 DEF Answered
      <4>2. CASE t # s
        BY <1>1, <2>b, <2>d, <4>2 DEF CacheInv, AnswerInv, Answered
      <4> QED
        BY <4>1, <4>2
    <3> QED
      BY <3>1 DEF AnswerInv
  <2>h. EachColumnOnce'
    <3>1. \A t \in Scan : scan'[t].at = "reading" => t # s
      BY <2>9, <2>b
    <3>2. \A t \in Scan : scan'[t].at = "reading" => scan'[t] = scan[t]
      BY <2>b, <3>1
    <3> QED
      BY <1>1, <3>2 DEF CacheInv, EachColumnOnce
  <2> QED
    BY <2>e, <2>f, <2>g, <2>h DEF CacheInv
<1> QED
  BY <1>1, <1>2, <1>3

LEMMA IdleState ==
    /\ Idle \in ScanState /\ Idle.at = "idle"
    /\ [Idle EXCEPT !.at = "start"] \in ScanState /\ [Idle EXCEPT !.at = "start"].at = "start"
BY DEF Idle, ScanState

LEMMA NewQueryFacts ==
    ASSUME CacheInv, NewQuery
    PROVE  /\ CacheInv' /\ UNCHANGED <<config, map, late>>
           /\ \A s \in Scan : scan'[s].at \in {"idle", "start"}
           /\ \A m \in ToSet(mailbox) : m.type # "Load"
           /\ \E x \in Message : x.type = "NewQuery" /\ mailbox' = Append(mailbox, x)
<1>1. /\ query < MaxQueries /\ query' = query + 1 /\ plan' \in Plans
      /\ UNCHANGED <<config, map, late>> /\ \A s \in Scan : Over(s)
  BY DEF NewQuery
<1>2. PICK x : x = [type |-> "NewQuery"]
  OBVIOUS
<1>3. x \in QueryMsg /\ x.type = "NewQuery"
  BY <1>2 DEF QueryMsg
<1>4. x \in Message /\ mailbox' = Append(mailbox, x)
  BY <1>2, <1>3 DEF Message, NewQuery
<1>5. scan' \in [Scan -> ScanState] /\ \A s \in Scan : scan'[s].at \in {"idle", "start"}
  <2>1. scan' = [s \in Scan |-> IF plan'[s].proj \cup plan'[s].pred = {} THEN Idle
                                ELSE [Idle EXCEPT !.at = "start"]]
    BY Zenon DEF NewQuery
  <2>2. PICK y : y = [Idle EXCEPT !.at = "start"]
    OBVIOUS
  <2>3. y \in ScanState /\ y.at = "start" /\ Idle \in ScanState /\ Idle.at = "idle"
    BY <2>2, IdleState
  <2>4. \A s \in Scan : scan'[s] = Idle \/ scan'[s] = y
    BY <2>1, <2>2
  <2>5. scan' = [s \in Scan |-> scan'[s]]
    BY <2>1
  <2> QED
    BY <2>3, <2>4, <2>5
<1>6. mailbox \in Seq(Message)
  BY DEF CacheInv, StateInv
<1>7. \A m \in ToSet(mailbox) : m.type # "Load"
  <2> SUFFICES ASSUME NEW m \in ToSet(mailbox), m.type = "Load" PROVE FALSE
    OBVIOUS
  <2>1. m \in Message
    BY <1>6 DEF ToSet
  <2>2. m.scan \in Scan /\ scan[m.scan].at = "asked"
    BY <2>1, MessageKinds DEF CacheInv, LoadInv, Asked
  <2> QED
    BY <1>1, <2>2 DEF Over
<1>8. /\ mailbox' \in Seq(Message) /\ ToSet(mailbox') = ToSet(mailbox) \cup {x}
      /\ \A m, n : Before(mailbox', m, n) => Before(mailbox, m, n) \/ (m \in ToSet(mailbox) /\ n = x)
  BY <1>4, <1>6, Added, ZenonT(40)
<1>9. StateInv'
  <2>1. query' \in 0 .. MaxQueries
    BY <1>1, SegmentAssumption DEF CacheInv, StateInv
  <2> QED
    BY <1>1, <1>5, <1>8, <2>1 DEF CacheInv, StateInv
<1>a. LoadInv'
  <2>1. \A m \in ToSet(mailbox') : m.type # "Load"
    BY <1>3, <1>7, <1>8
  <2>2. \A m \in ToSet(mailbox') : Asked(m)'
    BY <2>1 DEF Asked
  <2>3. \A m, n \in Message :
          Before(mailbox', m, n) /\ m.type = "Load" /\ n.type = "Load" => m.scan # n.scan
    BY <2>1, Zenon DEF Before, ToSet
  <2> QED
    BY <2>2, <2>3 DEF LoadInv
<1>b. AnswerInv' /\ EachColumnOnce'
  BY <1>5 DEF AnswerInv, Answered, EachColumnOnce
<1> QED
  BY <1>1, <1>3, <1>4, <1>5, <1>7, <1>9, <1>a, <1>b DEF CacheInv

LEMMA StartFacts ==
    ASSUME CacheInv, NEW s \in Scan, OnStart(s)
    PROVE  /\ CacheInv' /\ UNCHANGED <<config, map, plan, late>>
           /\ scan[s].at = "start" /\ scan' = [scan EXCEPT ![s] = [scan[s] EXCEPT !.at = "asked"]]
           /\ \E x \in Message : /\ x.type = "Load" /\ x.scan = s
                                 /\ mailbox' = Append(mailbox, x)
<1>1. /\ UNCHANGED <<config, map, query, plan, late>> /\ scan[s].at = "start"
      /\ scan' = [scan EXCEPT ![s] = [scan[s] EXCEPT !.at = "asked"]]
  BY DEF OnStart
<1>2. PICK order \in SetToSeqs(ScanKeys(s)) :
        mailbox' = Append(mailbox, [type |-> "Load", scan |-> s, order |-> order])
  BY Zenon DEF OnStart, ScanKeys
<1>3. /\ scan \in [Scan -> ScanState] /\ mailbox \in Seq(Message) /\ plan \in Plans
      /\ config \in Configs /\ map \subseteq Key /\ query \in 0 .. MaxQueries
      /\ late \subseteq Nat \X Scan \X StoreMsg
  BY DEF CacheInv, StateInv
<1>4. ScanKeys(s) \in SUBSET Key /\ IsFiniteSet(ScanKeys(s))
  BY <1>3, PlanFacts DEF KeySet
<1>5. order \in Seq(Key) /\ ToSet(order) = ScanKeys(s)
  <2>1. PICK S \in SUBSET Key : S = ScanKeys(s)
    BY <1>4
  <2>2. order \in Seq(S) /\ ToSet(order) = S
    BY <1>4, <2>1, InSomeOrder, Zenon
  <2> QED
    BY <2>1, <2>2
<1>6. PICK x : x = [type |-> "Load", scan |-> s, order |-> order]
  OBVIOUS
<1>7. x \in LoadMsg /\ x.type = "Load" /\ x.scan = s /\ x.order = order
  BY <1>5, <1>6 DEF LoadMsg
<1>8. x \in Message /\ mailbox' = Append(mailbox, x)
  BY <1>2, <1>6, <1>7 DEF Message
<1>9. /\ mailbox' \in Seq(Message) /\ ToSet(mailbox') = ToSet(mailbox) \cup {x}
      /\ \A m, n : Before(mailbox', m, n) => Before(mailbox, m, n) \/ (m \in ToSet(mailbox) /\ n = x)
  BY <1>3, <1>8, Added, ZenonT(40)
<1>a. PICK y : y = [scan[s] EXCEPT !.at = "asked"]
  OBVIOUS
<1>b. y \in ScanState /\ y.at = "asked"
  <2>1. scan[s] \in ScanState
    BY <1>3
  <2> QED
    BY <1>a, <2>1 DEF ScanState
<1>c. scan' \in [Scan -> ScanState] /\ scan'[s] = y /\ \A t \in Scan : t # s => scan'[t] = scan[t]
  BY <1>1, <1>3, <1>a, <1>b
<1>d. \A t : Columns(t)' = Columns(t) /\ ScanKeys(t)' = ScanKeys(t)
  BY <1>1 DEF Columns, ScanKeys, KeysOf
<1>e. StateInv'
  BY <1>1, <1>3, <1>9, <1>c DEF StateInv
<1>f. ASSUME NEW m \in ToSet(mailbox), m.type = "Load"
      PROVE  /\ m.scan \in Scan /\ m.scan # s /\ scan[m.scan].at = "asked"
             /\ ToSet(m.order) = ScanKeys(m.scan)
  <2>1. m \in Message
    BY <1>3 DEF ToSet
  <2> QED
    BY <1>1, <1>f, <2>1, MessageKinds DEF CacheInv, LoadInv, Asked
<1>g. LoadInv'
  <2>1. ASSUME NEW m \in ToSet(mailbox'), m.type = "Load"
        PROVE  scan'[m.scan].at = "asked" /\ ToSet(m.order) = ScanKeys(m.scan)'
    <3>1. CASE m = x
      BY <1>5, <1>7, <1>b, <1>c, <1>d, <3>1
    <3>2. CASE m \in ToSet(mailbox)
      BY <1>c, <1>d, <1>f, <2>1, <3>2
    <3> QED
      BY <1>9, <3>1, <3>2
  <2>2. \A m \in ToSet(mailbox') : Asked(m)'
    BY <2>1 DEF Asked
  <2>3. ASSUME NEW m \in Message, NEW n \in Message, Before(mailbox', m, n),
               m.type = "Load", n.type = "Load"
        PROVE  m.scan # n.scan
    <3>1. CASE Before(mailbox, m, n)
      BY <2>3, <3>1 DEF CacheInv, LoadInv
    <3>2. CASE m \in ToSet(mailbox) /\ n = x
      BY <1>7, <1>f, <2>3, <3>2
    <3> QED
      BY <1>9, <2>3, <3>1, <3>2
  <2> QED
    BY <2>2, <2>3 DEF LoadInv
<1>h. AnswerInv'
  <2>1. ASSUME NEW t \in Scan PROVE Answered(t)'
    <3>1. CASE t = s
      BY <1>b, <1>c, <3>1 DEF Answered
    <3>2. CASE t # s
      BY <1>1, <1>c, <1>d, <3>2 DEF CacheInv, AnswerInv, Answered
    <3> QED
      BY <3>1, <3>2
  <2> QED
    BY <2>1 DEF AnswerInv
<1>i. EachColumnOnce'
  <2>1. \A t \in Scan : scan'[t].at = "reading" => scan'[t] = scan[t]
    BY <1>b, <1>c
  <2> QED
    BY <1>1, <2>1 DEF CacheInv, EachColumnOnce
<1> QED
  BY <1>1, <1>7, <1>8, <1>e, <1>g, <1>h, <1>i DEF CacheInv

LEMMA ResponseFacts ==
    ASSUME CacheInv, NEW s \in Scan, OnCacheLoadResponse(s)
    PROVE  /\ CacheInv' /\ UNCHANGED <<config, map, mailbox, plan, late>>
           /\ scan[s].at = "answered" /\ scan'[s].at = "reading" /\ ~scan'[s].pulled
           /\ scan'[s].toCache = scan[s].toCache
           /\ \A t \in Scan : t # s => scan'[t] = scan[t]
<1>1. UNCHANGED <<config, map, pol, mailbox, query, plan, late>> /\ scan[s].at = "answered"
  BY DEF OnCacheLoadResponse
<1>2. /\ scan \in [Scan -> ScanState] /\ mailbox \in Seq(Message) /\ plan \in Plans
      /\ config \in Configs /\ map \subseteq Key /\ query \in 0 .. MaxQueries
      /\ late \subseteq Nat \X Scan \X StoreMsg
  BY DEF CacheInv, StateInv
<1>3. PICK here : here = scan[s].hit \cup scan[s].toCache
  OBVIOUS
<1> DEFINE hybrid == config.mode = "HYBRID"
<1> DEFINE needed == CachingResultNeeded(s)
<1>4. PICK P : P = IF ~hybrid THEN {} ELSE IF needed THEN Columns(s) \ here ELSE plan[s].proj
  OBVIOUS
<1>5. PICK x : x = [scan[s] EXCEPT !.at = "reading", !.pulled = FALSE, !.pushed = ~hybrid,
                                   !.needed = hybrid => needed, !.push = P]
  OBVIOUS
<1>6. scan' = [scan EXCEPT ![s] = x]
  BY <1>3, <1>4, <1>5, Zenon DEF OnCacheLoadResponse
<1>7. plan[s].proj \in SUBSET Column /\ plan[s].pred \in SUBSET Column /\ Columns(s) \in SUBSET Column
  BY <1>2, PlanFacts
<1>8. P \in SUBSET Column
  BY <1>4, <1>7
<1>9. (hybrid => needed) \in BOOLEAN
  BY Zenon DEF CachingResultNeeded
<1>a. /\ x \in ScanState /\ x.at = "reading" /\ x.pulled = FALSE /\ x.push = P
      /\ x.needed = (hybrid => needed) /\ x.hit = scan[s].hit /\ x.toCache = scan[s].toCache
  <2>1. scan[s] \in ScanState
    BY <1>2
  <2>2. PICK b \in BOOLEAN : b = (hybrid => needed)
    BY <1>9
  <2>3. PICK d \in BOOLEAN : d = ~hybrid
    OBVIOUS
  <2>4. x = [scan[s] EXCEPT !.at = "reading", !.pulled = FALSE, !.pushed = d, !.needed = b, !.push = P]
    BY <1>5, <2>2, <2>3, Zenon
  <2> HIDE DEF hybrid, needed
  <2>5. /\ x \in ScanState /\ x.at = "reading" /\ x.pulled = FALSE /\ x.push = P
        /\ x.needed = b /\ x.hit = scan[s].hit /\ x.toCache = scan[s].toCache
    BY <1>8, <2>1, <2>4 DEF ScanState
  <2> QED
    BY <2>2, <2>5, Zenon
<1>b. scan' \in [Scan -> ScanState] /\ scan'[s] = x /\ \A t \in Scan : t # s => scan'[t] = scan[t]
  BY <1>2, <1>6, <1>a
<1>c. \A t : Columns(t)' = Columns(t) /\ ScanKeys(t)' = ScanKeys(t)
  BY <1>1 DEF Columns, ScanKeys, KeysOf
<1>d. StateInv'
  BY <1>1, <1>2, <1>b DEF StateInv
<1>e. LoadInv'
  <2>1. ASSUME NEW m \in ToSet(mailbox), m.type = "Load"
        PROVE  scan'[m.scan].at = "asked" /\ ToSet(m.order) = ScanKeys(m.scan)'
    <3>1. m \in Message
      BY <1>2 DEF ToSet
    <3>2. m.scan \in Scan /\ m.scan # s /\ scan[m.scan].at = "asked" /\ ToSet(m.order) = ScanKeys(m.scan)
      BY <1>1, <2>1, <3>1, MessageKinds DEF CacheInv, LoadInv, Asked
    <3> QED
      BY <1>b, <1>c, <3>2
  <2>2. \A m \in ToSet(mailbox') : Asked(m)'
    BY <1>1, <2>1 DEF Asked
  <2> QED
    BY <1>1, <2>2 DEF CacheInv, LoadInv
<1>f. AnswerInv'
  <2>1. ASSUME NEW t \in Scan PROVE Answered(t)'
    <3>1. CASE t = s
      BY <1>1, <1>a, <1>b, <1>c, <3>1 DEF CacheInv, AnswerInv, Answered
    <3>2. CASE t # s
      BY <1>1, <1>b, <1>c, <3>2 DEF CacheInv, AnswerInv, Answered
    <3> QED
      BY <3>1, <3>2
  <2> QED
    BY <2>1 DEF AnswerInv
<1>g. /\ P \cap (IF x.needed THEN here ELSE {}) = {}
      /\ plan[s].proj \subseteq (IF x.needed THEN here ELSE {}) \cup P
      /\ P \subseteq plan[s].proj
      /\ (IF x.needed THEN here ELSE {}) # {} => plan[s].pred \subseteq (IF x.needed THEN here ELSE {})
  <2>1. Columns(s) = plan[s].proj \cup plan[s].pred
    BY DEF Columns
  <2>2. CASE ~hybrid
    <3>1. config.mode = "CACHING_ONLY"
      BY <1>2, <2>2, ConfigFacts
    <3>2. here = Columns(s)
      BY <1>1, <1>3, <3>1 DEF CacheInv, AnswerInv, Answered
    <3>3. P = {} /\ x.needed
      BY <1>4, <1>a, <2>2
    <3> QED
      BY <2>1, <3>2, <3>3
  <2>3. CASE hybrid /\ needed
    <3>1. plan[s].pred \subseteq here
      BY <1>3, <2>1, <2>3 DEF CachingResultNeeded
    <3>2. P = Columns(s) \ here /\ x.needed
      BY <1>4, <1>a, <2>3
    <3> QED
      BY <2>1, <3>1, <3>2
  <2>4. CASE hybrid /\ ~needed
    <3>1. P = plan[s].proj /\ ~x.needed
      BY <1>4, <1>a, <2>4
    <3> QED
      BY <3>1
  <2> QED
    BY <2>2, <2>3, <2>4
<1>h. EachColumnOnce'
  <2>1. ASSUME NEW t \in Scan, scan'[t].at = "reading"
        PROVE  LET at == IF scan'[t].needed THEN scan'[t].hit \cup scan'[t].toCache ELSE {}
               IN  /\ scan'[t].push \cap at = {}
                   /\ plan'[t].proj \subseteq at \cup scan'[t].push
                   /\ scan'[t].push \subseteq plan'[t].proj
                   /\ at # {} => plan'[t].pred \subseteq at
    <3>1. CASE t = s
      BY <1>1, <1>3, <1>a, <1>b, <1>g, <3>1
    <3>2. CASE t # s
      BY <1>1, <1>b, <2>1, <3>2 DEF CacheInv, EachColumnOnce
    <3> QED
      BY <3>1, <3>2
  <2> QED
    BY <2>1 DEF EachColumnOnce
<1> QED
  BY <1>1, <1>a, <1>b, <1>d, <1>e, <1>f, <1>h DEF CacheInv

LEMMA CacheStart == Init => CacheInv
<1> SUFFICES ASSUME Init PROVE CacheInv
  OBVIOUS
<1>1. plan \in Plans
  BY SegmentAssumption DEF Init
<1>2. scan \in [Scan -> ScanState] /\ \A s \in Scan : scan[s].at = "idle"
  BY IdleState DEF Init
<1>3. StateInv
  BY <1>1, <1>2, SegmentAssumption DEF Init, StateInv
<1>4. LoadInv
  BY DEF Init, LoadInv, Before, ToSet
<1>5. AnswerInv /\ EachColumnOnce
  BY <1>2 DEF AnswerInv, Answered, EachColumnOnce
<1> QED
  BY <1>3, <1>4, <1>5 DEF CacheInv

LEMMA CacheStep == CacheInv /\ [Next]_vars => CacheInv'
<1> SUFFICES ASSUME CacheInv, [Next]_vars PROVE CacheInv'
  OBVIOUS
<1>1. CASE HandleNewQuery \/ HandleWeight
  BY <1>1, QuietHandlers
<1>2. CASE HandleLoad
  BY <1>2, LoadKeepsInv
<1>3. CASE HandleStore
  BY <1>3, StoreKeepsInv
<1>4. CASE NewQuery
  BY <1>4, NewQueryFacts
<1>5. CASE LateStore
  BY <1>5, LateFacts
<1>6. CASE \E s \in Scan : OnStart(s)
  BY <1>6, StartFacts
<1>7. CASE \E s \in Scan : OnCacheLoadResponse(s)
  BY <1>7, ResponseFacts
<1>8. CASE \E s \in Scan : PullUp(s)
  BY <1>8, PullUpFacts
<1>9. CASE \E s \in Scan : PushDown(s)
  BY <1>9, PushDownFacts
<1>a. CASE UNCHANGED vars
  BY <1>a DEF vars, CacheInv, StateInv, LoadInv, Asked, AnswerInv, Answered, EachColumnOnce,
              ScanKeys, KeysOf, Columns
<1> QED
  BY <1>1, <1>2, <1>3, <1>4, <1>5, <1>6, <1>7, <1>8, <1>9, <1>a DEF Next

LEMMA CacheInvariance == Spec => []CacheInv
  BY CacheStart, CacheStep, PTL DEF Spec

(* A store that was overtaken was.                                         *)
FlagInv == overtaken \in BOOLEAN
LEMMA FlagStep == FlagInv /\ [Next]_vars => FlagInv' /\ (overtaken => overtaken')
<1> SUFFICES ASSUME FlagInv, [Next]_vars PROVE FlagInv' /\ (overtaken => overtaken')
  OBVIOUS
<1>1. CASE overtaken' = overtaken
  BY <1>1 DEF FlagInv
<1>2. CASE NewQuery
  <2>1. PICK b \in BOOLEAN : overtaken' = (overtaken \/ b)
    BY <1>2 DEF NewQuery
  <2> QED
    BY <2>1 DEF FlagInv
<1>3. HandleNewQuery \/ HandleLoad \/ HandleStore \/ HandleWeight => overtaken' = overtaken
  BY DEF HandleNewQuery, HandleLoad, HandleStore, HandleWeight
<1>4. LateStore => overtaken' = overtaken
  BY DEF LateStore
<1>5. \A s \in Scan : OnStart(s) \/ OnCacheLoadResponse(s) \/ PullUp(s) \/ PushDown(s)
                        => overtaken' = overtaken
  BY DEF OnStart, OnCacheLoadResponse, PullUp, PushDown
<1>6. UNCHANGED vars => overtaken' = overtaken
  BY DEF vars
<1> QED
  BY <1>1, <1>2, <1>3, <1>4, <1>5, <1>6 DEF Next
LEMMA FlagStart == Init => FlagInv
  BY DEF Init, FlagInv
LEMMA FlagInvariance == Spec => []FlagInv
  BY FlagStart, FlagStep, PTL DEF Spec

(* Every message to the cache actor is one of the four it knows, and what  *)
(* the map, the queries and the scans hold is of its type, whatever the    *)
(* plans, the policy and the order of the messages.                        *)
THEOREM TypeCorrect == Spec => []TypeOK
<1>1. CacheInv /\ FlagInv => TypeOK
  <2> SUFFICES ASSUME CacheInv, FlagInv PROVE TypeOK
    OBVIOUS
  <2>1. /\ config \in Configs /\ plan \in Plans /\ map \subseteq Key /\ query \in 0 .. MaxQueries
        /\ mailbox \in Seq(Message) /\ scan \in [Scan -> ScanState]
        /\ late \subseteq Nat \X Scan \X StoreMsg
    BY DEF CacheInv, StateInv
  <2>2. \A m \in Pending : m.type \in {"NewQuery", "Load", "Store", "Weight"}
    <3>1. \A i \in DOMAIN mailbox : mailbox[i] \in Message
      BY <2>1
    <3>2. \A l \in late : l[3] \in StoreMsg
      BY <2>1
    <3>3. \A l \in late : l[3].type = "Store"
      BY <3>2 DEF StoreMsg
    <3>4. \A m \in Message : m.type \in {"NewQuery", "Load", "Store", "Weight"}
      BY MessageKinds
    <3> QED
      BY <3>1, <3>3, <3>4 DEF Pending
  <2>3. ASSUME NEW s \in Scan
        PROVE  /\ scan[s].at \in {"idle", "start", "asked", "answered", "reading"}
               /\ UNION {scan[s].hit, scan[s].toCache, scan[s].push} \subseteq Column
    <3>1. scan[s] \in ScanState
      BY <2>1
    <3> QED
      BY <3>1 DEF ScanState
  <2> QED
    BY <2>1, <2>2, <2>3 DEF TypeOK, FlagInv
<1> QED
  BY <1>1, CacheInvariance, FlagInvariance, PTL

(* Whatever the cache held and the policy chose, each projected column of  *)
(* a scan is merged from one place, and what is filtered here has its      *)
(* predicate columns here (CacheLoadPOp::onCacheLoadResponse).             *)
THEOREM ColumnsOnce == Spec => []EachColumnOnce
<1>1. CacheInv => EachColumnOnce
  BY DEF CacheInv
<1> QED
  BY <1>1, CacheInvariance, PTL

-----------------------------------------------------------------------------
(* No segment on its way into the cache is there already, or on its way    *)
(* twice.                                                                  *)

(* The scans of a query share no segment: no two of them read one column   *)
(* of one partition.                                                       *)
Apart ==
    \A p \in Plans : \A s, t \in Scan :
        s # t => \/ p[s].part # p[t].part
                 \/ (p[s].proj \cup p[s].pred) \cap (p[t].proj \cup p[t].pred) = {}

(* K is neither in the cache nor in a store message.                       *)
Fresh(K) == K \cap map = {} /\ \A m \in ToSet(mailbox) : m.type = "Store" => m.keys \cap K = {}

(* A scan that has its answer and has not sent its store.                  *)
Held(s) == scan[s].at = "answered" \/ (scan[s].at = "reading" /\ ~scan[s].pulled)

(* A store shares no key with the map, a store before it or a load before  *)
(* it, which would call the key missing again.                             *)
Disjoint(m, n) == m.type = "Store" /\ n.type = "Store" => m.keys \cap n.keys = {}
Unasked(m, n) == m.type = "Load" /\ n.type = "Store" => n.keys \cap ScanKeys(m.scan) = {}
StoreInv ==
    /\ \A m \in ToSet(mailbox) : m.type = "Store" => m.keys \cap map = {}
    /\ \A m, n \in Message : Before(mailbox, m, n) => Disjoint(m, n) /\ Unasked(m, n)

(* What is still to be sent is new; a store that is late, be it of this    *)
(* query or of an earlier one, is about no segment that a scan will ask    *)
(* for or hold, and shares none with another one.                          *)
HeldInv == \A s \in Scan : Held(s) => Fresh(KeysOf(s, scan[s].toCache))
Done(s) == scan[s].at = "reading" /\ scan[s].pulled
Late(l) ==
    /\ Fresh(l[3].keys)
    /\ \A s \in Scan : Done(s) \/ l[3].keys \cap ScanKeys(s) = {}
LateInv ==
    /\ \A l \in late : Late(l)
    /\ \A l, k \in late : l # k => l[3].keys \cap k[3].keys = {}

OnceInv == StoreInv /\ HeldInv /\ LateInv

LEMMA ScansApart ==
    ASSUME Apart, plan \in Plans, NEW s \in Scan, NEW t \in Scan, s # t
    PROVE  ScanKeys(s) \cap ScanKeys(t) = {}
<1>1. \/ plan[s].part # plan[t].part
      \/ Columns(s) \cap Columns(t) = {}
  BY DEF Apart, Columns
<1> QED
  BY <1>1 DEF ScanKeys, KeysOf

LEMMA HeldKeys ==
    ASSUME AnswerInv, NEW s \in Scan, scan[s].at \in {"answered", "reading"}
    PROVE  KeysOf(s, scan[s].toCache) \subseteq ScanKeys(s)
<1>1. scan[s].toCache \subseteq Columns(s)
  BY DEF AnswerInv, Answered
<1> QED
  BY <1>1 DEF ScanKeys, KeysOf

(* A step that sends no store.                                             *)
NoStore ==
    /\ \A m \in ToSet(mailbox') : m.type = "Store" => m \in ToSet(mailbox)
    /\ \A m, n : Before(mailbox', m, n) /\ n.type = "Store" => Before(mailbox, m, n)

LEMMA FreshKept ==
    ASSUME map' = map, NoStore, NEW K, Fresh(K)
    PROVE  Fresh(K)'
  BY DEF Fresh, NoStore

LEMMA StoreKept ==
    ASSUME StoreInv, map' = map, plan' = plan, NoStore
    PROVE  StoreInv'
<1>1. \A m \in ToSet(mailbox') : m.type = "Store" => m.keys \cap map' = {}
  BY DEF StoreInv, NoStore
<1>2. ASSUME NEW m \in Message, NEW n \in Message, Before(mailbox', m, n)
      PROVE  Disjoint(m, n) /\ Unasked(m, n)'
  <2>1. CASE n.type = "Store"
    <3>1. Before(mailbox, m, n)
      BY <1>2, <2>1 DEF NoStore
    <3>2. Disjoint(m, n) /\ Unasked(m, n)
      BY <3>1 DEF StoreInv
    <3> QED
      BY <3>2 DEF Unasked, ScanKeys, KeysOf, Columns
  <2>2. CASE n.type # "Store"
    BY <2>2 DEF Disjoint, Unasked
  <2> QED
    BY <2>1, <2>2
<1>3. \A m, n \in Message : Before(mailbox', m, n) => Disjoint(m, n) /\ Unasked(m, n)'
  BY <1>2
<1> QED
  BY <1>1, <1>3 DEF StoreInv, Disjoint

LEMMA OnceKept ==
    ASSUME StateInv, OnceInv, UNCHANGED <<map, plan, late>>, NoStore,
           \A s \in Scan : Held(s)' => Fresh(KeysOf(s, scan'[s].toCache)),
           \A s \in Scan : Done(s) => Done(s)'
    PROVE  OnceInv'
<1>1. StoreInv'
  BY StoreKept DEF OnceInv
<1>2. \A s, C : KeysOf(s, C)' = KeysOf(s, C)
  BY DEF KeysOf
<1>3. \A K : Fresh(K) => Fresh(K)'
  BY FreshKept
<1>4. HeldInv'
  BY <1>2, <1>3 DEF HeldInv
<1>5. ASSUME NEW l \in late PROVE Late(l)'
  <2>1. Late(l)
    BY DEF OnceInv, LateInv
  <2>2. \A s : ScanKeys(s)' = ScanKeys(s)
    BY DEF ScanKeys, KeysOf, Columns
  <2> QED
    BY <1>3, <2>1, <2>2 DEF Late
<1>6. LateInv'
  BY <1>5 DEF OnceInv, LateInv
<1> QED
  BY <1>1, <1>4, <1>6 DEF OnceInv

LEMMA NoStoreTaken ==
    ASSUME mailbox \in Seq(Message), mailbox # <<>>, mailbox' = Tail(mailbox)
    PROVE  NoStore
<1>1. /\ ToSet(mailbox') \subseteq ToSet(mailbox)
      /\ \A m, n : Before(mailbox', m, n) => Before(mailbox, m, n)
  BY Taken, ZenonT(40)
<1> QED
  BY <1>1, Zenon DEF NoStore

LEMMA NoStoreAdded ==
    ASSUME mailbox \in Seq(Message), NEW x \in Message, x.type # "Store", mailbox' = Append(mailbox, x)
    PROVE  NoStore
<1>1. /\ ToSet(mailbox') = ToSet(mailbox) \cup {x}
      /\ \A m, n : Before(mailbox', m, n) => Before(mailbox, m, n) \/ (m \in ToSet(mailbox) /\ n = x)
  BY Added, ZenonT(40)
<1> QED
  BY <1>1 DEF NoStore

(* A store of keys that are fresh, asked for by no load, and shared with   *)
(* none that is still to be sent, is appended.                             *)
LEMMA OnceAdded ==
    ASSUME mailbox \in Seq(Message), StoreInv, UNCHANGED <<map, plan>>,
           NEW x \in Message, x.type = "Store", mailbox' = Append(mailbox, x), Fresh(x.keys),
           \A m \in ToSet(mailbox) : m.type = "Load" => x.keys \cap ScanKeys(m.scan) = {}
    PROVE  /\ StoreInv'
           /\ \A K : Fresh(K) /\ x.keys \cap K = {} => Fresh(K)'
<1>1. /\ ToSet(mailbox') = ToSet(mailbox) \cup {x}
      /\ \A m, n : Before(mailbox', m, n) => Before(mailbox, m, n) \/ (m \in ToSet(mailbox) /\ n = x)
  BY Added, ZenonT(40)
<1>2. \A m \in ToSet(mailbox') : m.type = "Store" => m.keys \cap map' = {}
  BY <1>1 DEF StoreInv, Fresh
<1>3. ASSUME NEW m \in Message, NEW n \in Message, Before(mailbox', m, n)
      PROVE  Disjoint(m, n) /\ Unasked(m, n)
  <2>1. CASE Before(mailbox, m, n)
    BY <2>1 DEF StoreInv
  <2>2. CASE m \in ToSet(mailbox) /\ n = x
    BY <2>2 DEF Disjoint, Unasked, Fresh
  <2> QED
    BY <1>1, <1>3, <2>1, <2>2
<1>4. ASSUME NEW m, NEW n, Unasked(m, n) PROVE Unasked(m, n)'
  BY <1>4 DEF Unasked, ScanKeys, KeysOf, Columns
<1>5. StoreInv'
  BY <1>2, <1>3, <1>4 DEF StoreInv, Disjoint
<1>6. \A K : Fresh(K) /\ x.keys \cap K = {} => Fresh(K)'
  BY <1>1 DEF Fresh
<1> QED
  BY <1>5, <1>6

LEMMA OnceLoad ==
    ASSUME CacheInv, OnceInv, HandleLoad
    PROVE  OnceInv'
<1>1. PICK m \in LoadMsg :
             /\ m \in Message /\ m.type = "Load" /\ m = Head(mailbox)
             /\ mailbox # <<>> /\ mailbox' = Tail(mailbox)
             /\ m.scan \in Scan /\ scan[m.scan].at = "asked" /\ ToSet(m.order) = ScanKeys(m.scan)
             /\ UNCHANGED <<config, map, query, plan, late>>
             /\ scan' = scan \/ \E K : Answer(m.scan, K)
  BY LoadFacts
<1>2. StateInv /\ mailbox \in Seq(Message) /\ scan \in [Scan -> ScanState]
  BY DEF CacheInv, StateInv
<1>3. NoStore
  BY <1>1, <1>2, NoStoreTaken
<1>4. CASE scan' = scan
  <2>1. \A s \in Scan : Held(s)' => Fresh(KeysOf(s, scan'[s].toCache))
    BY <1>4 DEF Held, OnceInv, HeldInv
  <2> QED
    BY <1>1, <1>2, <1>3, <1>4, <2>1, OnceKept DEF Done
<1>5. CASE \E K : Answer(m.scan, K)
  <2>1. PICK K : Answer(m.scan, K)
    BY <1>5
  <2>2. PICK s \in Scan : s = m.scan /\ scan[s].at = "asked"
    BY <1>1
  <2>3. K \subseteq ScanKeys(s) \ map
    BY <2>1, <2>2 DEF Answer
  <2>4. KeysOf(s, ColumnNames(K)) = K
    BY <2>3, NamesOfKeys
  <2>5. PICK H, C : H = ColumnNames(ScanKeys(s) \cap map) /\ C = ColumnNames(K)
    OBVIOUS
  <2>6. scan' = [scan EXCEPT ![s] = [scan[s] EXCEPT !.at = "answered", !.hit = H, !.toCache = C]]
    BY <2>1, <2>2, <2>5, Zenon DEF Answer
  <2>7. PICK x : x = [scan[s] EXCEPT !.at = "answered", !.hit = H, !.toCache = C]
    OBVIOUS
  <2>8. x.toCache = C
    <3>1. scan[s] \in ScanState
      BY <1>2
    <3> QED
      BY <2>7, <3>1 DEF ScanState
  <2>9. scan'[s] = x /\ \A t \in Scan : t # s => scan'[t] = scan[t]
    BY <1>2, <2>6, <2>7
  (* The stores in the mailbox are behind the load.                        *)
  <2>a. ASSUME NEW n \in ToSet(mailbox), n.type = "Store" PROVE n.keys \cap ScanKeys(s) = {}
    <3>1. n \in Message /\ n # m
      BY <1>1, <1>2, <2>a DEF ToSet
    <3>2. PICK i \in DOMAIN mailbox : n = mailbox[i]
      BY DEF ToSet
    <3>3. 1 \in DOMAIN mailbox /\ m = mailbox[1]
      BY <1>1, <1>2
    <3>4. 1 < i
      BY <1>2, <3>1, <3>2, <3>3
    <3>5. Before(mailbox, m, n)
      BY <3>2, <3>3, <3>4, Zenon DEF Before
    <3> QED
      BY <1>1, <2>2, <2>a, <3>1, <3>5 DEF OnceInv, StoreInv, Unasked
  <2>b. Fresh(K)
    BY <2>3, <2>a DEF Fresh
  <2>c. ASSUME NEW t \in Scan, Held(t)' PROVE Fresh(KeysOf(t, scan'[t].toCache))
    <3>1. CASE t = s
      BY <2>4, <2>5, <2>8, <2>9, <2>b, <3>1
    <3>2. CASE t # s
      BY <2>9, <2>c, <3>2 DEF Held, OnceInv, HeldInv
    <3> QED
      BY <3>1, <3>2
  <2>d. \A t \in Scan : Done(t) => Done(t)'
    BY <2>2, <2>9 DEF Done
  <2> QED
    BY <1>1, <1>2, <1>3, <2>c, <2>d, OnceKept
<1> QED
  BY <1>1, <1>4, <1>5

LEMMA OnceQuiet ==
    ASSUME CacheInv, OnceInv, HandleNewQuery \/ HandleWeight
    PROVE  OnceInv'
<1>1. mailbox # <<>> /\ mailbox' = Tail(mailbox) /\ UNCHANGED <<config, map, query, plan, scan, late>>
  BY QuietHandlers
<1>2. StateInv /\ mailbox \in Seq(Message)
  BY DEF CacheInv, StateInv
<1>3. NoStore
  BY <1>1, <1>2, NoStoreTaken
<1>4. \A s \in Scan : Held(s)' => Fresh(KeysOf(s, scan'[s].toCache))
  BY <1>1 DEF Held, OnceInv, HeldInv
<1> QED
  BY <1>1, <1>2, <1>3, <1>4, OnceKept DEF Done

LEMMA OnceStore ==
    ASSUME CacheInv, OnceInv, HandleStore
    PROVE  OnceInv'
<1>1. /\ mailbox # <<>> /\ mailbox' = Tail(mailbox) /\ Head(mailbox) \in StoreMsg
      /\ map' \subseteq map \cup Head(mailbox).keys
      /\ UNCHANGED <<config, query, plan, scan, late>>
  BY StoreFacts
<1>2. PICK h \in StoreMsg : h = Head(mailbox)
  BY <1>1
<1>3. h.type = "Store" /\ h \in Message
  BY DEF StoreMsg, Message
<1>4. mailbox \in Seq(Message) /\ late \subseteq Nat \X Scan \X StoreMsg
  BY DEF CacheInv, StateInv
<1>5. /\ h \in ToSet(mailbox) /\ ToSet(mailbox') \subseteq ToSet(mailbox)
      /\ \A m, n : Before(mailbox', m, n) => Before(mailbox, m, n)
      /\ \A n \in ToSet(mailbox') : Before(mailbox, h, n)
  BY <1>1, <1>2, <1>4, Taken, ZenonT(40)
<1>6. map' \subseteq map \cup h.keys
  BY <1>1, <1>2
<1>7. ASSUME NEW K, Fresh(K) PROVE Fresh(K)'
  BY <1>3, <1>5, <1>6, <1>7 DEF Fresh
<1>8. StoreInv'
  <2>1. ASSUME NEW n \in ToSet(mailbox'), n.type = "Store" PROVE n.keys \cap map' = {}
    <3>1. n \in ToSet(mailbox) /\ Before(mailbox, h, n)
      BY <1>5
    <3>2. n \in Message
      BY <1>4, <3>1 DEF ToSet
    <3>3. n.keys \cap map = {} /\ h.keys \cap n.keys = {}
      BY <1>3, <2>1, <3>1, <3>2 DEF OnceInv, StoreInv, Disjoint
    <3> QED
      BY <1>6, <3>3
  <2>2. ASSUME NEW m \in Message, NEW n \in Message, Before(mailbox', m, n)
        PROVE  Disjoint(m, n) /\ Unasked(m, n)'
    <3>1. Disjoint(m, n) /\ Unasked(m, n)
      BY <1>5, <2>2, Zenon DEF OnceInv, StoreInv
    <3> QED
      BY <1>1, <3>1 DEF Unasked, ScanKeys, KeysOf, Columns
  <2> QED
    BY <2>1, <2>2 DEF StoreInv, Disjoint
<1>9. HeldInv'
  <2>1. ASSUME NEW s \in Scan, Held(s)' PROVE Fresh(KeysOf(s, scan[s].toCache))
    BY <1>1, <2>1 DEF Held, OnceInv, HeldInv
  <2>2. \A s \in Scan : KeysOf(s, scan[s].toCache)' = KeysOf(s, scan[s].toCache)
    BY <1>1 DEF KeysOf
  <2> QED
    BY <1>7, <2>1, <2>2 DEF HeldInv
<1>a. LateInv'
  <2>1. ASSUME NEW l \in late PROVE Late(l)'
    <3>1. Late(l)
      BY DEF OnceInv, LateInv
    <3>2. \A s \in Scan : ScanKeys(s)' = ScanKeys(s) /\ (Done(s) => Done(s)')
      BY <1>1 DEF ScanKeys, KeysOf, Columns, Done
    <3> QED
      BY <1>1, <1>7, <3>1, <3>2 DEF Late
  <2> QED
    BY <1>1, <2>1 DEF OnceInv, LateInv
<1> QED
  BY <1>8, <1>9, <1>a DEF OnceInv

LEMMA OnceNewQuery ==
    ASSUME CacheInv, OnceInv, NewQuery, FlagInv, ~overtaken'
    PROVE  OnceInv'
<1>1. /\ UNCHANGED <<config, map, late>>
      /\ \A s \in Scan : scan'[s].at \in {"idle", "start"}
      /\ \A m \in ToSet(mailbox) : m.type # "Load"
      /\ \E x \in Message : x.type = "NewQuery" /\ mailbox' = Append(mailbox, x)
  BY NewQueryFacts
<1>2. mailbox \in Seq(Message)
  BY DEF CacheInv, StateInv
<1>3. PICK x \in Message : x.type = "NewQuery" /\ mailbox' = Append(mailbox, x)
  BY <1>1
<1>4. NoStore
  BY <1>2, <1>3, NoStoreAdded
<1>5. StoreInv'
  <2>1. \A m \in ToSet(mailbox') : m.type = "Store" => m.keys \cap map' = {}
    BY <1>1, <1>4 DEF OnceInv, StoreInv, NoStore
  <2>2. ASSUME NEW m \in Message, NEW n \in Message, Before(mailbox', m, n)
        PROVE  Disjoint(m, n) /\ Unasked(m, n)'
    <3>1. CASE n.type = "Store"
      <4>1. Before(mailbox, m, n)
        BY <1>4, <2>2, <3>1 DEF NoStore
      <4>2. Disjoint(m, n)
        BY <4>1 DEF OnceInv, StoreInv
      <4>3. m.type # "Load"
        BY <1>1, <4>1 DEF Before, ToSet
      <4> QED
        BY <4>2, <4>3 DEF Unasked
    <3>2. CASE n.type # "Store"
      BY <3>2 DEF Disjoint, Unasked
    <3> QED
      BY <3>1, <3>2
  <2> QED
    BY <2>1, <2>2 DEF StoreInv, Disjoint
<1>6. HeldInv'
  BY <1>1 DEF HeldInv, Held
<1>7. LateInv'
  <2>1. \A K : Fresh(K) => Fresh(K)'
    BY <1>1, <1>4, FreshKept
  <2>2. \A l \in late, s \in Scan :
          l[3].keys \cap ({plan'[s].part} \X (plan'[s].proj \cup plan'[s].pred)) = {}
    BY DEF NewQuery, FlagInv
  <2>3. \A l \in late, s \in Scan : l[3].keys \cap ScanKeys(s)' = {}
    BY <2>2 DEF ScanKeys, KeysOf, Columns
  <2> QED
    BY <1>1, <2>1, <2>3 DEF OnceInv, LateInv, Late
<1> QED
  BY <1>5, <1>6, <1>7 DEF OnceInv

LEMMA OnceStart ==
    ASSUME CacheInv, OnceInv, NEW s \in Scan, OnStart(s)
    PROVE  OnceInv'
<1>1. /\ UNCHANGED <<config, map, plan, late>>
      /\ scan[s].at = "start" /\ scan' = [scan EXCEPT ![s] = [scan[s] EXCEPT !.at = "asked"]]
      /\ \E x \in Message : x.type = "Load" /\ x.scan = s /\ mailbox' = Append(mailbox, x)
  BY StartFacts
<1>2. StateInv /\ mailbox \in Seq(Message) /\ scan \in [Scan -> ScanState]
  BY DEF CacheInv, StateInv
<1>3. NoStore
  BY <1>1, <1>2, NoStoreAdded
<1>4. scan'[s].at = "asked" /\ \A t \in Scan : t # s => scan'[t] = scan[t]
  <2>1. scan[s] \in ScanState
    BY <1>2
  <2>2. PICK y : y = [scan[s] EXCEPT !.at = "asked"]
    OBVIOUS
  <2>3. y.at = "asked"
    BY <2>1, <2>2 DEF ScanState
  <2> QED
    BY <1>1, <1>2, <2>2, <2>3
<1>5. ASSUME NEW t \in Scan, Held(t)' PROVE Fresh(KeysOf(t, scan'[t].toCache))
  <2>1. t # s
    BY <1>4, <1>5 DEF Held
  <2> QED
    BY <1>4, <1>5, <2>1 DEF Held, OnceInv, HeldInv
<1>6. \A t \in Scan : Done(t) => Done(t)'
  BY <1>1, <1>4 DEF Done
<1> QED
  BY <1>1, <1>2, <1>3, <1>5, <1>6, OnceKept

LEMMA OnceResponse ==
    ASSUME CacheInv, OnceInv, NEW s \in Scan, OnCacheLoadResponse(s)
    PROVE  OnceInv'
<1>1. /\ UNCHANGED <<config, map, mailbox, plan, late>>
      /\ scan[s].at = "answered" /\ scan'[s].at = "reading" /\ ~scan'[s].pulled
      /\ scan'[s].toCache = scan[s].toCache
      /\ \A t \in Scan : t # s => scan'[t] = scan[t]
  BY ResponseFacts
<1>2. StateInv
  BY DEF CacheInv
<1>3. NoStore
  BY <1>1 DEF NoStore
<1>4. ASSUME NEW t \in Scan, Held(t)' PROVE Fresh(KeysOf(t, scan'[t].toCache))
  <2>1. CASE t = s
    BY <1>1, <2>1 DEF Held, OnceInv, HeldInv
  <2>2. CASE t # s
    BY <1>1, <1>4, <2>2 DEF Held, OnceInv, HeldInv
  <2> QED
    BY <2>1, <2>2
<1>5. \A t \in Scan : Done(t) => Done(t)'
  BY <1>1 DEF Done
<1> QED
  BY <1>1, <1>2, <1>3, <1>4, <1>5, OnceKept

LEMMA OncePushDown ==
    ASSUME CacheInv, OnceInv, NEW s \in Scan, PushDown(s)
    PROVE  OnceInv'
<1>1. /\ UNCHANGED <<config, map, query, plan, late>>
      /\ scan' = [scan EXCEPT ![s] = [scan[s] EXCEPT !.pushed = TRUE]]
      /\ \/ mailbox' = mailbox
         \/ \E m \in Message : /\ m.type = "Weight" /\ m.keys = ScanKeys(s)
                               /\ mailbox' = Append(mailbox, m)
  BY PushDownFacts
<1>2. StateInv /\ mailbox \in Seq(Message) /\ scan \in [Scan -> ScanState]
  BY DEF CacheInv, StateInv
<1>3. NoStore
  <2>1. CASE mailbox' = mailbox
    BY <2>1 DEF NoStore
  <2>2. CASE \E m \in Message : m.type = "Weight" /\ mailbox' = Append(mailbox, m)
    BY <1>2, <2>2, NoStoreAdded
  <2> QED
    BY <1>1, <2>1, <2>2
<1>4. \A t \in Scan : /\ scan'[t].at = scan[t].at /\ scan'[t].pulled = scan[t].pulled
                      /\ scan'[t].toCache = scan[t].toCache
  <2>1. scan[s] \in ScanState
    BY <1>2
  <2>2. PICK y : y = [scan[s] EXCEPT !.pushed = TRUE]
    OBVIOUS
  <2>3. y.at = scan[s].at /\ y.pulled = scan[s].pulled /\ y.toCache = scan[s].toCache
    BY <2>1, <2>2 DEF ScanState
  <2> QED
    BY <1>1, <1>2, <2>2, <2>3
<1>5. ASSUME NEW t \in Scan, Held(t)' PROVE Fresh(KeysOf(t, scan'[t].toCache))
  BY <1>4, <1>5 DEF Held, OnceInv, HeldInv
<1> QED
  BY <1>1, <1>2, <1>3, <1>4, <1>5, OnceKept DEF Done

(* What a store of keys that no waiting scan reads is disjoint from: what  *)
(* loads ask for, what such a scan holds.                                  *)
LEMMA OthersDiffer ==
    ASSUME CacheInv, NEW K, \A t \in Scan : scan[t].at = "asked" => K \cap ScanKeys(t) = {}
    PROVE  /\ \A m \in ToSet(mailbox) : m.type = "Load" => K \cap ScanKeys(m.scan) = {}
           /\ \A t \in Scan : K \cap ScanKeys(t) = {} /\ Held(t)
                                => K \cap KeysOf(t, scan[t].toCache) = {}
<1>1. mailbox \in Seq(Message)
  BY DEF CacheInv, StateInv
<1>2. ASSUME NEW m \in ToSet(mailbox), m.type = "Load" PROVE K \cap ScanKeys(m.scan) = {}
  <2>1. m \in Message
    BY <1>1 DEF ToSet
  <2>2. m.scan \in Scan /\ scan[m.scan].at = "asked"
    BY <1>2, <2>1, MessageKinds DEF CacheInv, LoadInv, Asked
  <2> QED
    BY <2>2
<1>3. ASSUME NEW t \in Scan, K \cap ScanKeys(t) = {}, Held(t)
      PROVE  K \cap KeysOf(t, scan[t].toCache) = {}
  <2>1. KeysOf(t, scan[t].toCache) \subseteq ScanKeys(t)
    BY <1>3, HeldKeys DEF Held, CacheInv
  <2> QED
    BY <1>3, <2>1
<1> QED
  BY <1>2, <1>3

LEMMA OncePullUp ==
    ASSUME Apart, CacheInv, OnceInv, NEW s \in Scan, PullUp(s)
    PROVE  OnceInv'
<1>1. /\ UNCHANGED <<config, map, query, plan>>
      /\ scan[s].at = "reading" /\ ~scan[s].pulled
      /\ scan' = [scan EXCEPT ![s] = [scan[s] EXCEPT !.pulled = TRUE]]
      /\ \E m \in StoreMsg :
           /\ m \in Message /\ m.type = "Store" /\ m.keys = KeysOf(s, scan[s].toCache)
           /\ \/ mailbox' = mailbox /\ late' = late
              \/ mailbox' = Append(mailbox, m) /\ late' = late
              \/ mailbox' = mailbox /\ late' = late \cup {<<query, s, m>>}
  BY PullUpFacts
<1>2. PICK m \in StoreMsg :
           /\ m \in Message /\ m.type = "Store" /\ m.keys = KeysOf(s, scan[s].toCache)
           /\ \/ mailbox' = mailbox /\ late' = late
              \/ mailbox' = Append(mailbox, m) /\ late' = late
              \/ mailbox' = mailbox /\ late' = late \cup {<<query, s, m>>}
  BY <1>1
<1>3. /\ StateInv /\ mailbox \in Seq(Message) /\ scan \in [Scan -> ScanState]
      /\ late \subseteq Nat \X Scan \X StoreMsg
  BY DEF CacheInv, StateInv
<1>4. Fresh(m.keys) /\ m.keys \subseteq ScanKeys(s)
  <2>1. Held(s)
    BY <1>1 DEF Held
  <2> QED
    BY <1>1, <1>2, <2>1, HeldKeys DEF OnceInv, HeldInv, CacheInv
<1>9. \A t \in Scan : t # s => m.keys \cap ScanKeys(t) = {}
  <2>1. \A t \in Scan : t # s => ScanKeys(s) \cap ScanKeys(t) = {}
    BY <1>3, ScansApart DEF StateInv
  <2> QED
    BY <1>4, <2>1
<1>5. /\ \A n \in ToSet(mailbox) : n.type = "Load" => m.keys \cap ScanKeys(n.scan) = {}
      /\ \A t \in Scan : t # s /\ Held(t) => m.keys \cap KeysOf(t, scan[t].toCache) = {}
      /\ \A l \in late : m.keys \cap l[3].keys = {}
  <2>1. \A t \in Scan : scan[t].at = "asked" => m.keys \cap ScanKeys(t) = {}
    BY <1>1, <1>9
  <2>2. /\ \A n \in ToSet(mailbox) : n.type = "Load" => m.keys \cap ScanKeys(n.scan) = {}
        /\ \A t \in Scan : m.keys \cap ScanKeys(t) = {} /\ Held(t)
                             => m.keys \cap KeysOf(t, scan[t].toCache) = {}
    BY <2>1, OthersDiffer
  <2>3. ~Done(s)
    BY <1>1 DEF Done
  <2>4. \A l \in late : l[3].keys \cap ScanKeys(s) = {}
    BY <2>3 DEF OnceInv, LateInv, Late
  <2> QED
    BY <1>4, <1>9, <2>2, <2>4
<1>6. /\ scan'[s].at = "reading" /\ scan'[s].pulled
      /\ \A t \in Scan : t # s => scan'[t] = scan[t]
  <2>1. scan[s] \in ScanState
    BY <1>3
  <2>2. PICK y : y = [scan[s] EXCEPT !.pulled = TRUE]
    OBVIOUS
  <2>3. y.at = scan[s].at /\ y.pulled = TRUE
    BY <2>1, <2>2 DEF ScanState
  <2> QED
    BY <1>1, <1>3, <2>2, <2>3
<1>7. \A t \in Scan : Held(t)' => t # s /\ Held(t) /\ scan'[t].toCache = scan[t].toCache
  BY <1>6 DEF Held
<1>8. \A t \in Scan : Done(t) => Done(t)'
  BY <1>1, <1>6 DEF Done
<1>a. \A t : ScanKeys(t)' = ScanKeys(t)
  BY <1>1 DEF ScanKeys, KeysOf, Columns
<1>b. StoreInv'
  <2>1. CASE mailbox' = mailbox
    <3>1. NoStore
      BY <2>1 DEF NoStore
    <3> QED
      BY <1>1, <3>1, StoreKept DEF OnceInv
  <2>2. CASE mailbox' = Append(mailbox, m)
    BY <1>1, <1>2, <1>3, <1>4, <1>5, <2>2, OnceAdded DEF OnceInv
  <2> QED
    BY <1>2, <2>1, <2>2
<1>c. \A K : Fresh(K) /\ m.keys \cap K = {} => Fresh(K)'
  <2>1. CASE mailbox' = mailbox
    BY <1>1, <2>1 DEF Fresh
  <2>2. CASE mailbox' = Append(mailbox, m)
    BY <1>1, <1>2, <1>3, <1>4, <1>5, <2>2, OnceAdded DEF OnceInv
  <2> QED
    BY <1>2, <2>1, <2>2
<1>d. HeldInv'
  <2>1. ASSUME NEW t \in Scan, Held(t)' PROVE Fresh(KeysOf(t, scan[t].toCache))'
    <3>1. t # s /\ Held(t) /\ scan'[t].toCache = scan[t].toCache
      BY <1>7, <2>1
    <3>2. PICK K : K = KeysOf(t, scan[t].toCache)
      OBVIOUS
    <3>3. Fresh(K) /\ m.keys \cap K = {}
      BY <1>5, <3>1, <3>2 DEF OnceInv, HeldInv
    <3>4. Fresh(K)'
      BY <1>c, <3>3
    <3>5. KeysOf(t, scan[t].toCache)' = K
      BY <1>1, <3>1, <3>2 DEF KeysOf
    <3> QED
      BY <3>4, <3>5
  <2> QED
    BY <2>1 DEF HeldInv
<1>e. ASSUME NEW l \in late PROVE Late(l)'
  <2>1. Late(l) /\ m.keys \cap l[3].keys = {}
    BY <1>5 DEF OnceInv, LateInv
  <2>2. Fresh(l[3].keys)'
    BY <1>c, <2>1 DEF Late
  <2> QED
    BY <1>8, <1>a, <2>1, <2>2 DEF Late
<1>f. LateInv'
  <2>1. CASE late' = late
    BY <1>e, <2>1 DEF OnceInv, LateInv
  <2>2. CASE mailbox' = mailbox /\ late' = late \cup {<<query, s, m>>}
    <3>1. PICK k : k = <<query, s, m>>
      OBVIOUS
    <3>2. k[3] = m /\ late' = late \cup {k}
      BY <2>2, <3>1
    <3>3. Fresh(m.keys)'
      BY <1>1, <1>4, <2>2 DEF Fresh
    <3>4. Late(k)'
      <4>1. Done(s)'
        BY <1>6 DEF Done
      <4> QED
        BY <1>9, <1>a, <3>2, <3>3, <4>1 DEF Late
    <3>5. \A l, j \in late' : l # j => l[3].keys \cap j[3].keys = {}
      BY <1>5, <3>2 DEF OnceInv, LateInv
    <3> QED
      BY <1>e, <3>2, <3>4, <3>5 DEF LateInv
  <2> QED
    BY <1>2, <2>1, <2>2
<1> QED
  BY <1>b, <1>d, <1>f DEF OnceInv

LEMMA OnceLate ==
    ASSUME CacheInv, OnceInv, LateStore
    PROVE  OnceInv'
<1>1. /\ UNCHANGED <<config, map, query, plan, scan>>
      /\ \E l \in late : /\ l \in Nat \X Scan \X StoreMsg /\ late' = late \ {l}
                         /\ l[3] \in Message /\ mailbox' = Append(mailbox, l[3])
  BY LateFacts
<1>2. PICK l \in late : /\ l \in Nat \X Scan \X StoreMsg /\ late' = late \ {l}
                        /\ l[3] \in Message /\ mailbox' = Append(mailbox, l[3])
  BY <1>1
<1>3. PICK m \in Message : m = l[3]
  BY <1>2
<1>5. m.type = "Store"
  BY <1>2, <1>3 DEF StoreMsg
<1>6. mailbox \in Seq(Message) /\ late \subseteq Nat \X Scan \X StoreMsg
  BY DEF CacheInv, StateInv
<1>7. Fresh(m.keys) /\ \A t \in Scan : Done(t) \/ m.keys \cap ScanKeys(t) = {}
  BY <1>3 DEF OnceInv, LateInv, Late
<1>8. /\ \A n \in ToSet(mailbox) : n.type = "Load" => m.keys \cap ScanKeys(n.scan) = {}
      /\ \A t \in Scan : Held(t) => m.keys \cap KeysOf(t, scan[t].toCache) = {}
      /\ \A k \in late : k # l => m.keys \cap k[3].keys = {}
  <2>1. \A t \in Scan : scan[t].at = "asked" => m.keys \cap ScanKeys(t) = {}
    BY <1>7 DEF Done
  <2>2. /\ \A n \in ToSet(mailbox) : n.type = "Load" => m.keys \cap ScanKeys(n.scan) = {}
        /\ \A t \in Scan : m.keys \cap ScanKeys(t) = {} /\ Held(t)
                             => m.keys \cap KeysOf(t, scan[t].toCache) = {}
    BY <2>1, OthersDiffer
  <2>3. \A t \in Scan : Held(t) => ~Done(t)
    BY DEF Held, Done
  <2>4. \A k \in late : k # l => m.keys \cap k[3].keys = {}
    BY <1>3 DEF OnceInv, LateInv
  <2> QED
    BY <1>7, <2>2, <2>3, <2>4
<1>9. mailbox' = Append(mailbox, m)
  BY <1>2, <1>3
<1>a. /\ StoreInv'
      /\ \A K : Fresh(K) /\ m.keys \cap K = {} => Fresh(K)'
  BY <1>1, <1>5, <1>6, <1>7, <1>8, <1>9, OnceAdded DEF OnceInv
<1>b. HeldInv'
  <2>1. ASSUME NEW t \in Scan, Held(t)' PROVE Fresh(KeysOf(t, scan[t].toCache))'
    <3>1. Held(t)
      BY <1>1, <2>1 DEF Held
    <3>2. PICK K : K = KeysOf(t, scan[t].toCache)
      OBVIOUS
    <3>3. Fresh(K) /\ m.keys \cap K = {}
      BY <1>8, <3>1, <3>2 DEF OnceInv, HeldInv
    <3>4. Fresh(K)'
      BY <1>a, <3>3
    <3>5. KeysOf(t, scan[t].toCache)' = K
      BY <1>1, <3>2 DEF KeysOf
    <3> QED
      BY <3>4, <3>5
  <2> QED
    BY <2>1 DEF HeldInv
<1>c. ASSUME NEW k \in late' PROVE Late(k)'
  <2>1. k \in late /\ k # l
    BY <1>2
  <2>2. Late(k)
    BY <2>1 DEF OnceInv, LateInv
  <2>3. Fresh(k[3].keys)'
    BY <1>8, <1>a, <2>1, <2>2 DEF Late
  <2>4. \A t \in Scan : ScanKeys(t)' = ScanKeys(t) /\ (Done(t) => Done(t)')
    BY <1>1 DEF ScanKeys, KeysOf, Columns, Done
  <2> QED
    BY <1>1, <2>2, <2>3, <2>4 DEF Late
<1>d. LateInv'
  BY <1>2, <1>c DEF OnceInv, LateInv
<1> QED
  BY <1>a, <1>b, <1>d DEF OnceInv

(* While no late store has been overtaken.                                 *)
OnceSoFar == ~overtaken => OnceInv

LEMMA OnceInvariance ==
    ASSUME Apart
    PROVE  Spec => [](CacheInv /\ FlagInv /\ OnceSoFar)
<1>1. Init => CacheInv /\ OnceSoFar
  <2> SUFFICES ASSUME Init PROVE OnceInv
    BY CacheStart DEF OnceSoFar
  <2>1. \A s \in Scan : scan[s].at = "idle"
    BY IdleState DEF Init
  <2>2. StoreInv
    BY DEF Init, StoreInv, Before, ToSet
  <2>3. HeldInv
    BY <2>1 DEF HeldInv, Held
  <2>4. LateInv
    BY DEF Init, LateInv
  <2> QED
    BY <2>2, <2>3, <2>4 DEF OnceInv
<1>2. (CacheInv /\ FlagInv /\ OnceSoFar) /\ [Next]_vars => (CacheInv /\ FlagInv /\ OnceSoFar)'
  <2> SUFFICES ASSUME CacheInv, FlagInv, OnceInv, [Next]_vars, ~overtaken' PROVE OnceInv'
    BY CacheStep, FlagStep DEF OnceSoFar
  <2>1. CASE HandleNewQuery \/ HandleWeight
    BY <2>1, OnceQuiet
  <2>2. CASE HandleLoad
    BY <2>2, OnceLoad
  <2>3. CASE HandleStore
    BY <2>3, OnceStore
  <2>4. CASE NewQuery
    BY <2>4, OnceNewQuery
  <2>5. CASE LateStore
    BY <2>5, OnceLate
  <2>6. CASE \E s \in Scan : OnStart(s)
    BY <2>6, OnceStart
  <2>7. CASE \E s \in Scan : OnCacheLoadResponse(s)
    BY <2>7, OnceResponse
  <2>8. CASE \E s \in Scan : PullUp(s)
    BY <2>8, OncePullUp
  <2>9. CASE \E s \in Scan : PushDown(s)
    BY <2>9, OncePushDown
  <2>a. CASE UNCHANGED vars
    <3>1. UNCHANGED <<map, plan, late, scan, mailbox>> /\ StateInv
      BY <2>a DEF vars, CacheInv
    <3>2. NoStore
      BY <3>1 DEF NoStore
    <3>3. \A s \in Scan : Held(s)' => Fresh(KeysOf(s, scan'[s].toCache))
      BY <3>1 DEF Held, OnceInv, HeldInv
    <3> QED
      BY <3>1, <3>2, <3>3, OnceKept DEF Done
  <2> QED
    BY <2>1, <2>2, <2>3, <2>4, <2>5, <2>6, <2>7, <2>8, <2>9, <2>a DEF Next
<1> QED
  BY <1>1, <1>2, FlagStart, PTL DEF Spec

(* When no query scans a segment twice, no segment is fetched for the      *)
(* cache that is there, or on its way there, whatever the policy evicts:    *)
(* what a load calls missing is fetched by one scan, and stored before it  *)
(* is asked for again.  A scan that completes before it sends its store     *)
(* (S3SelectScanAbstractPOp.cpp) may send it during later queries; the      *)
(* claim ends when one of them reads a segment of that store.              *)
THEOREM SegmentsStoredOnce ==
    ASSUME Apart
    PROVE  Spec => []StoredOnce
<1>1. CacheInv /\ OnceSoFar => StoredOnce
  <2> SUFFICES ASSUME CacheInv, OnceInv PROVE StoredOnce
    BY DEF OnceSoFar, StoredOnce
  <2>1. mailbox \in Seq(Message)
    BY DEF CacheInv, StateInv
  <2>2. ASSUME NEW m \in Pending, m.type = "Store" PROVE m.keys \cap map = {}
    <3>1. CASE m \in ToSet(mailbox)
      BY <2>2, <3>1 DEF OnceInv, StoreInv
    <3>2. CASE \E l \in late : m = l[3]
      <4>1. PICK l \in late : m = l[3]
        BY <3>2
      <4> QED
        BY <4>1 DEF OnceInv, LateInv, Late, Fresh
    <3> QED
      BY <3>1, <3>2 DEF Pending, ToSet
  <2>3. ASSUME NEW i \in DOMAIN mailbox, NEW j \in DOMAIN mailbox,
               i < j, mailbox[i].type = "Store", mailbox[j].type = "Store"
        PROVE  mailbox[i].keys \cap mailbox[j].keys = {}
    <3>1. PICK m \in Message, n \in Message : m = mailbox[i] /\ n = mailbox[j]
      BY <2>1
    <3>2. Before(mailbox, m, n)
      BY <2>3, <3>1 DEF Before
    <3> QED
      BY <2>3, <3>1, <3>2 DEF OnceInv, StoreInv, Disjoint
  <2> QED
    BY <2>2, <2>3 DEF StoredOnce
<1> QED
  BY <1>1, OnceInvariance, PTL

-----------------------------------------------------------------------------
(* Bytes.                                                                  *)

TotalSize(K) == SumFunctionOnSet(Size, K)

(* free is what the keys K leave of the maximum.                           *)
Leaves(free, K) == K \in KeySet /\ free \in Nat /\ free + TotalSize(K) = MaxSize

LEMMA SizeFacts ==
    ASSUME NEW K \in KeySet
    PROVE  /\ K \subseteq Key /\ IsFiniteSet(K) /\ Weights(Size, K) /\ TotalSize(K) \in Nat
           /\ \A R \in SUBSET K : /\ R \in KeySet /\ TotalSize(R) \in Nat /\ TotalSize(K \ R) \in Nat
                                  /\ TotalSize(K) = TotalSize(R) + TotalSize(K \ R)
           /\ \A k \in Key \ K : K \cup {k} \in KeySet /\ TotalSize(K \cup {k}) = TotalSize(K) + Size[k]
<1>1. K \subseteq Key /\ IsFiniteSet(K)
  BY DEF KeySet
<1>2. \A k \in Key : Size[k] \in Nat
  BY SegmentAssumption
<1>3. Weights(Size, K)
  BY <1>1, <1>2 DEF Weights
<1>4. TotalSize(K) \in Nat
  BY <1>1, <1>3, SumStep DEF TotalSize
<1>5. ASSUME NEW R \in SUBSET K
      PROVE  /\ R \in KeySet /\ TotalSize(R) \in Nat /\ TotalSize(K \ R) \in Nat
             /\ TotalSize(K) = TotalSize(R) + TotalSize(K \ R)
  <2>1. R \in KeySet
    BY <1>1, FS_Subset DEF KeySet
  <2>2. R \subseteq K
    OBVIOUS
  <2>3. /\ SumFunctionOnSet(Size, K) = SumFunctionOnSet(Size, R) + SumFunctionOnSet(Size, K \ R)
        /\ SumFunctionOnSet(Size, R) \in Nat /\ SumFunctionOnSet(Size, K \ R) \in Nat
    BY <1>1, <1>3, <2>2, SumParts, Zenon
  <2> QED
    BY <2>1, <2>3, Zenon DEF TotalSize
<1>6. ASSUME NEW k \in Key \ K
      PROVE  K \cup {k} \in KeySet /\ TotalSize(K \cup {k}) = TotalSize(K) + Size[k]
  <2>1. K \cup {k} \in KeySet
    BY <1>1, FS_AddElement DEF KeySet
  <2> QED
    BY <1>1, <1>2, <1>3, <2>1, SumAdded DEF TotalSize
<1> QED
  BY <1>1, <1>3, <1>4, <1>5, <1>6

(* More keys, more bytes.                                                  *)
LEMMA SizeGrows ==
    ASSUME NEW K \in KeySet, NEW R \in SUBSET K
    PROVE  TotalSize(R) <= TotalSize(K)
<1>1. /\ TotalSize(R) \in Nat /\ TotalSize(K \ R) \in Nat
      /\ TotalSize(K) = TotalSize(R) + TotalSize(K \ R)
  BY SizeFacts, Zenon
<1> QED
  BY <1>1

(* R makes room for k, and k comes in.                                     *)
LEMMA RoomMade ==
    ASSUME NEW free, NEW K, Leaves(free, K), NEW R \in SUBSET K, NEW k \in Key \ K,
           free + TotalSize(R) >= Size[k]
    PROVE  Leaves(free + TotalSize(R) - Size[k], (K \ R) \cup {k})
<1>1. K \in KeySet /\ free \in Nat /\ free + TotalSize(K) = MaxSize /\ Size[k] \in Nat
  BY SegmentAssumption DEF Leaves
<1>2. /\ TotalSize(R) \in Nat /\ TotalSize(K \ R) \in Nat
      /\ TotalSize(K) = TotalSize(R) + TotalSize(K \ R)
  BY <1>1, SizeFacts
<1>3. PICK L : L = K \ R
  OBVIOUS
<1>4. L \in KeySet /\ k \in Key \ L
  BY <1>1, <1>3, SizeFacts
<1>5. L \cup {k} \in KeySet /\ TotalSize(L \cup {k}) = TotalSize(L) + Size[k]
  BY <1>4, SizeFacts
<1> QED
  BY <1>1, <1>2, <1>3, <1>5 DEF Leaves

-----------------------------------------------------------------------------
(* LFU, LFUS and WLFU know the keys they are told of.                      *)

(* The policy p has counted a load of every key of H, or has crashed.      *)
Knows(p, H) ==
    /\ H \subseteq Key /\ {"hits", "crashed"} \subseteq DOMAIN p
    /\ p.crashed \/ (p.hits \in [Key -> Nat] /\ \A k \in H : p.hits[k] > 0)

LEMMA KnowsFewer ==
    ASSUME NEW p, NEW H, Knows(p, H), NEW G, G \subseteq H
    PROVE  Knows(p, G)
  BY DEF Knows

(* q is p but for a field that is not the counts, or has crashed.          *)
Alike(p, q) ==
    \E x : \/ q = [p EXCEPT !.order = x] \/ q = [p EXCEPT !.minFreq = x]
          \/ q = [p EXCEPT !.free = x] \/ q = [p EXCEPT !.cached = x] \/ q = [p EXCEPT !.copies = x]
          \/ q = [p EXCEPT !.otc = x] \/ q = [p EXCEPT !.fresh = x]
          \/ q = [p EXCEPT !.freeOTC = x] \/ q = [p EXCEPT !.weighted = x]
          \/ q = [p EXCEPT !.value = x] \/ q = [p EXCEPT !.crashed = TRUE]
LEMMA OtherField ==
    ASSUME NEW p, NEW H, Knows(p, H), NEW q, Alike(p, q)
    PROVE  Knows(q, H)
  BY DEF Knows, Alike

LEMMA Counted ==
    ASSUME NEW p, NEW H, Knows(p, H), ~p.crashed, NEW k \in Key
    PROVE  Knows([p EXCEPT !.hits[k] = @ + 1], H \cup {k})
<1>1. PICK h : h = [p.hits EXCEPT ![k] = @ + 1]
  OBVIOUS
<1>2. [p EXCEPT !.hits[k] = @ + 1] = [p EXCEPT !.hits = h]
  BY <1>1
<1>3. h \in [Key -> Nat] /\ \A j \in H \cup {k} : h[j] > 0
  <2>1. p.hits \in [Key -> Nat] /\ \A j \in H : p.hits[j] > 0
    BY DEF Knows
  <2>2. h \in [Key -> Nat]
    BY <1>1, <2>1
  <2>3. H \subseteq Key
    BY DEF Knows
  <2> QED
    BY <1>1, <2>1, <2>2, <2>3
<1>4. Knows([p EXCEPT !.hits = h], H \cup {k})
  BY <1>3 DEF Knows
<1> QED
  BY <1>2, <1>4

LEMMA ErasedKnows ==
    ASSUME NEW p, NEW H, Knows(p, H), NEW f
    PROVE  Knows(LFU!EraseFreqMap(p, f), H)
<1>1. \/ LFU!EraseFreqMap(p, f) = p
      \/ LFU!EraseFreqMap(p, f) = [p EXCEPT !.crashed = TRUE]
      \/ \E x : LFU!EraseFreqMap(p, f) = [p EXCEPT !.minFreq = x]
  BY DEF LFU!EraseFreqMap
<1>2. LFU!EraseFreqMap(p, f) = p \/ Alike(p, LFU!EraseFreqMap(p, f))
  BY <1>1, Zenon DEF Alike
<1> QED
  BY <1>2, OtherField, Zenon

LEMMA InsertedKnows ==
    ASSUME NEW p, NEW H, Knows(p, H), NEW k
    PROVE  Knows(LFU!Insert(p, k), H)
<1>1. PICK x, y : /\ x = Append(LFU!Unmapped(p.order, k), [key |-> k, freq |-> p.hits[k], mapped |-> TRUE])
                  /\ y = IF p.minFreq = 0 THEN p.hits[k] ELSE p.minFreq
  OBVIOUS
<1>2. LFU!Insert(p, k) = [p EXCEPT !.order = x, !.minFreq = y]
  BY <1>1 DEF LFU!Insert
<1>3. PICK q : q = [p EXCEPT !.order = x]
  OBVIOUS
<1>4. LFU!Insert(p, k) = [q EXCEPT !.minFreq = y]
  BY <1>2, <1>3
<1>5. Alike(p, q) /\ Alike(q, LFU!Insert(p, k))
  BY <1>3, <1>4, Zenon DEF Alike
<1> QED
  BY <1>5, OtherField, Zenon

LEMMA LFULoadKnows ==
    ASSUME NEW p, NEW H, Knows(p, H), NEW k \in Key
    PROVE  Knows(LFU!OnLoad(p, k), H \cup {k})
<1>1. CASE p.crashed
  BY <1>1 DEF LFU!OnLoad, Knows
<1>2. CASE ~p.crashed
  <2>1. PICK f : f = p.hits[k]
    OBVIOUS
  <2>2. PICK q : q = [p EXCEPT !.order = LFU!Without(@, k)]
    OBVIOUS
  <2>3. PICK e : e = LFU!EraseFreqMap(q, f)
    OBVIOUS
  <2>4. Knows(e, H)
    <3>1. Alike(p, q)
      BY <2>2, Zenon DEF Alike
    <3> QED
      BY <2>3, <3>1, OtherField, ErasedKnows, Zenon
  <2>5. \/ LFU!OnLoad(p, k) = [p EXCEPT !.hits[k] = @ + 1]
        \/ e.crashed /\ LFU!OnLoad(p, k) = e
        \/ ~e.crashed /\ LFU!OnLoad(p, k) = LFU!Insert([e EXCEPT !.hits[k] = @ + 1], k)
    BY <1>2, <2>1, <2>2, <2>3, Zenon DEF LFU!OnLoad
  <2>6. CASE LFU!OnLoad(p, k) = [p EXCEPT !.hits[k] = @ + 1]
    BY <1>2, <2>6, Counted
  <2>7. CASE e.crashed /\ LFU!OnLoad(p, k) = e
    BY <2>4, <2>7 DEF Knows
  <2>8. CASE ~e.crashed /\ LFU!OnLoad(p, k) = LFU!Insert([e EXCEPT !.hits[k] = @ + 1], k)
    <3>1. PICK c : c = [e EXCEPT !.hits[k] = @ + 1]
      OBVIOUS
    <3>2. Knows(c, H \cup {k})
      BY <2>4, <2>8, <3>1, Counted
    <3> QED
      BY <2>8, <3>1, <3>2, InsertedKnows
  <2> QED
    BY <2>5, <2>6, <2>7, <2>8
<1> QED
  BY <1>1, <1>2

LEMMA HeapLoadKnows ==
    ASSUME NEW p, NEW H, Knows(p, H), NEW k \in Key
    PROVE  Knows(Heap!OnLoad(p, k), H \cup {k})
<1>1. CASE p.crashed
  BY <1>1 DEF Heap!OnLoad, Knows
<1>2. CASE ~p.crashed
  <2>1. PICK c : c = [p EXCEPT !.hits[k] = @ + 1]
    OBVIOUS
  <2>2. PICK x, y : x = [p.copies EXCEPT ![k] = 1] /\ y = [p.otc EXCEPT ![k] = 0]
    OBVIOUS
  <2>3. PICK d : d = [c EXCEPT !.copies = x]
    OBVIOUS
  <2>4. Heap!OnLoad(p, k) = c \/ Heap!OnLoad(p, k) = [d EXCEPT !.otc = y]
    BY <1>2, <2>1, <2>2, <2>3 DEF Heap!OnLoad
  <2>5. Knows(c, H \cup {k})
    BY <1>2, <2>1, Counted
  <2>6. Alike(c, d) /\ (Heap!OnLoad(p, k) = c \/ Alike(d, Heap!OnLoad(p, k)))
    BY <2>3, <2>4, Zenon DEF Alike
  <2> QED
    BY <2>5, <2>6, OtherField, Zenon
<1> QED
  BY <1>1, <1>2

LEMMA QueryKnows ==
    ASSUME NEW p, NEW H, Knows(p, H)
    PROVE  Knows(OnNewQuery(p), H)
<1>1. CASE OnNewQuery(p) = p
  BY <1>1
<1>2. CASE OnNewQuery(p) # p
  <2>1. PICK x : x = [p EXCEPT !.weighted = {}]
    OBVIOUS
  <2>2. PICK y : y = [x EXCEPT !.otc = p.copies]
    OBVIOUS
  <2>3. PICK z : z = [y EXCEPT !.fresh = Heap!None]
    OBVIOUS
  <2>4. OnNewQuery(p) = [z EXCEPT !.freeOTC = p.free]
    BY <1>2, <2>1, <2>2, <2>3 DEF OnNewQuery, Heap!OnNewQuery
  <2>5. Alike(p, x) /\ Alike(x, y) /\ Alike(y, z) /\ Alike(z, OnNewQuery(p))
    BY <2>1, <2>2, <2>3, <2>4, Zenon DEF Alike
  <2> QED
    BY <2>5, OtherField, Zenon
<1> QED
  BY <1>1, <1>2

LEMMA WeightKnows ==
    ASSUME NEW p, NEW H, Knows(p, H), NEW ks
    PROVE  Knows(OnWeight(p, ks), H)
<1>1. CASE OnWeight(p, ks) = p
  BY <1>1
<1>2. CASE OnWeight(p, ks) # p
  <2>1. PICK v : v = [k \in Key |-> IF k \in ks \ p.weighted THEN p.value[k] + Weight[k] ELSE p.value[k]]
    OBVIOUS
  <2>2. PICK x : x = [p EXCEPT !.value = v]
    OBVIOUS
  <2>3. OnWeight(p, ks) = [x EXCEPT !.weighted = p.weighted \cup ks]
    BY <1>2, <2>1, <2>2 DEF OnWeight, Heap!OnWeight
  <2>4. Alike(p, x) /\ Alike(x, OnWeight(p, ks))
    BY <2>2, <2>3, Zenon DEF Alike
  <2> QED
    BY <2>4, OtherField, Zenon
<1> QED
  BY <1>1, <1>2

(* A store of LFU: victims leave one after another.                        *)
EvictionOf(f, p, cand, L) ==
    f[0] = p /\ \A n \in 1 .. L : f[n] = LFU!Evict(p, f[n - 1], cand[n])

LEMMA EvictionSteps ==
    ASSUME NEW p, NEW cand, NEW L \in Nat, NEW g,
           g = CHOOSE f : f = [n \in 0 .. L |-> IF n = 0 THEN p ELSE LFU!Evict(p, f[n - 1], cand[n])]
    PROVE  EvictionOf(g, p, cand, L)
<1> DEFINE Step(F, n) == LFU!Evict(p, F, cand[n])
<1> DEFINE Is(f, l) == f = [n \in 0 .. l |-> IF n = 0 THEN p ELSE Step(f[n - 1], n)]
<1>1. g = CHOOSE f : Is(f, L)
  BY Zenon
<1> HIDE DEF Step
<1>2. \E f : Is(f, L)
  <2> DEFINE S == {m \in Nat : \E f : Is(f, m)}
  <2>1. 0 \in S
    <3> DEFINE f == [n \in 0 .. 0 |-> p]
    <3>1. Is(f, 0)
      OBVIOUS
    <3> QED
      BY <3>1
  <2>2. ASSUME NEW m \in Nat, m \in S PROVE m + 1 \in S
    <3>1. PICK f : Is(f, m)
      BY <2>2
    <3>2. PICK w : w = Step(f[m], m + 1)
      OBVIOUS
    <3> DEFINE h == [n \in 0 .. m + 1 |-> IF n = m + 1 THEN w ELSE f[n]]
    <3>3. (\A n \in 0 .. m : h[n] = f[n]) /\ h[m + 1] = w
      OBVIOUS
    <3> HIDE DEF h
    <3>4. ASSUME NEW n \in 0 .. m + 1 PROVE h[n] = IF n = 0 THEN p ELSE Step(h[n - 1], n)
      <4>1. CASE n = m + 1
        <5>1. n - 1 = m /\ m \in 0 .. m /\ n # 0
          BY <4>1
        <5> QED
          BY <3>2, <3>3, <4>1, <5>1, Zenon
      <4>2. CASE n # m + 1
        <5>1. n \in 0 .. m /\ (n # 0 => n - 1 \in 0 .. m)
          BY <4>2
        <5>2. f[n] = IF n = 0 THEN p ELSE Step(f[n - 1], n)
          BY <3>1, <5>1
        <5> QED
          BY <3>3, <5>1, <5>2
      <4> QED
        BY <4>1, <4>2
    <3>5. Is(h, m + 1)
      BY <3>4, Zenon DEF h
    <3> QED
      BY <3>5
  <2> HIDE DEF S, Is
  <2>3. Nat \subseteq S
    BY <2>1, <2>2, Induction, Zenon
  <2> QED
    BY <2>3 DEF S
<1> HIDE DEF Is
<1>3. Is(g, L)
  BY <1>1, <1>2, Zenon
<1>4. \A n \in 0 .. L : g[n] = IF n = 0 THEN p ELSE Step(g[n - 1], n)
  BY <1>3, Zenon DEF Is
<1>5. 0 \in 0 .. L /\ \A n \in 1 .. L : n \in 0 .. L /\ n # 0
  OBVIOUS
<1> QED
  BY <1>4, <1>5, Zenon DEF Step, EvictionOf

(* What may come of a store of k: nothing, a crash, or k in the place of    *)
(* what is removed.                                                        *)
AfterEviction(o, k, cand, L, q) ==
    \/ o.pol = q /\ q.crashed /\ ~o.stored
    \/ /\ \E x : /\ o.pol = [LFU!Insert(q, k) EXCEPT !.free = x]
               /\ x = LFU!Insert(q, k).free + LFU!Bytes(LFU!SubSeq(cand, 1, L)) - Size[k]
       /\ o.stored /\ ~q.crashed /\ o.removed = {cand[i] : i \in 1 .. L}
RoomFor(p, k, cand, n) == p.free + LFU!Bytes(LFU!SubSeq(cand, 1, n)) >= Size[k]
Just(p, k, cand, L) ==
    /\ cand = LFU!Candidates(p) /\ L \in 0 .. Len(cand) /\ RoomFor(p, k, cand, L)
    /\ \A n \in 0 .. Len(cand) : n < L => ~RoomFor(p, k, cand, n)
LFUStores(o, p, k) ==
    \/ o.pol = p /\ ~o.stored
    \/ \E L \in Nat : \E f, cand :
         Just(p, k, cand, L) /\ EvictionOf(f, p, cand, L) /\ AfterEviction(o, k, cand, L, f[L])
Restored(p, out) == [p EXCEPT !.cached = @ \cup Heap!KeysOf(out)]
Replaced(p, out, y, x, k) ==
    [p EXCEPT !.cached = (@ \ Heap!KeysOf(out)) \cup {k}, !.copies = y, !.free = x]
Makes(p, out, need) ==
    /\ p.free + Heap!Bytes(out) >= need
    /\ out = {} \/ \E e \in out : p.free + Heap!Bytes(out \ {e}) < need
HeapStores(o, p, k) ==
    \/ (o.pol = p \/ o.pol = [p EXCEPT !.crashed = TRUE]) /\ ~o.stored
    \/ \E out : /\ out \subseteq Heap!Entries(p.copies, FALSE)
               /\ \/ o.pol = Restored(p, out) /\ ~o.stored
                  \/ /\ \E x, y : /\ o.pol = Replaced(p, out, y, x, k)
                                  /\ x = p.free + Heap!Bytes(out) - Size[k]
                                  /\ y = Heap!Pushed(Heap!Popped(p.copies, FALSE, out), {k})
                     /\ o.stored /\ o.removed = Heap!KeysOf(out) /\ Makes(p, out, Size[k])

LEMMA LFUStored ==
    ASSUME NEW p, NEW k, NEW o \in LFU!OnStore(p, k)
    PROVE  LFUStores(o, p, k)
<1> DEFINE cand == LFU!Candidates(p)
<1> DEFINE enough == {n \in 0 .. Len(cand) : RoomFor(p, k, cand, n)}
<1> DEFINE few == LFU!Min(enough)
<1> DEFINE g == CHOOSE f : f = [n \in 0 .. few |-> IF n = 0 THEN p ELSE LFU!Evict(p, f[n - 1], cand[n])]
<1> DEFINE x == LFU!Insert(g[few], k).free + LFU!Bytes(LFU!SubSeq(cand, 1, few)) - Size[k]
<1>1. \/ o = [pol |-> p, stored |-> FALSE, removed |-> {}]
      \/ /\ enough # {}
         /\ \/ /\ g[few].crashed
               /\ o = [pol |-> g[few], stored |-> FALSE, removed |-> {}]
            \/ /\ ~g[few].crashed
               /\ o = [pol |-> [LFU!Insert(g[few], k) EXCEPT !.free = x],
                       stored |-> TRUE, removed |-> {cand[i] : i \in 1 .. few}]
  BY Zenon DEF LFU!OnStore, RoomFor
<1>2. CASE o = [pol |-> p, stored |-> FALSE, removed |-> {}]
  BY <1>2 DEF LFUStores
<1>3. CASE /\ enough # {}
           /\ \/ /\ g[few].crashed
                 /\ o = [pol |-> g[few], stored |-> FALSE, removed |-> {}]
              \/ /\ ~g[few].crashed
                 /\ o = [pol |-> [LFU!Insert(g[few], k) EXCEPT !.free = x],
                         stored |-> TRUE, removed |-> {cand[i] : i \in 1 .. few}]
  <2>1. enough \in SUBSET Nat
    OBVIOUS
  <2>2. few \in Nat /\ few \in enough /\ \A m \in enough : few <= m
    <3> HIDE DEF enough
    <3>1. PICK l \in enough : \A m \in enough : ~(m < l)
      BY <1>3, <2>1, Least
    <3>2. \A m \in enough : l <= m
      BY <2>1, <3>1
    <3>3. few \in enough /\ \A m \in enough : few <= m
      BY <3>1, <3>2, Zenon DEF LFU!Min
    <3> QED
      BY <2>1, <3>3
  <2>3. PICK L \in Nat : L = few
    BY <2>2
  <2>4. PICK f, c : f = g /\ c = cand
    OBVIOUS
  <2>5. EvictionOf(f, p, c, L)
    BY <2>3, <2>4, EvictionSteps, Zenon
  <2>6. \/ o = [pol |-> f[L], stored |-> FALSE, removed |-> {}] /\ f[L].crashed
        \/ /\ o = [pol |-> [LFU!Insert(f[L], k) EXCEPT !.free = x],
                   stored |-> TRUE, removed |-> {c[i] : i \in 1 .. L}]
           /\ ~f[L].crashed
    BY <1>3, <2>3, <2>4, Zenon
  <2>7. PICK y : y = x /\ y = LFU!Insert(f[L], k).free + LFU!Bytes(LFU!SubSeq(c, 1, L)) - Size[k]
    BY <2>3, <2>4, Zenon
  <2>a. Just(p, k, c, L)
    <3>1. L \in enough /\ \A m \in enough : L <= m
      BY <2>2, <2>3, Zenon
    <3>2. L \in 0 .. Len(cand) /\ RoomFor(p, k, cand, L)
      BY <3>1
    <3>3. \A n \in 0 .. Len(cand) : n < L => n \notin enough
      <4> HIDE DEF enough, cand
      <4>1. \A n \in 0 .. Len(cand) : n < L => ~(L <= n)
        OBVIOUS
      <4> QED
        BY <3>1, <4>1, Zenon
    <3>4. \A n \in 0 .. Len(cand) : n < L => ~RoomFor(p, k, cand, n)
      BY <3>3, Zenon
    <3> QED
      BY <2>4, <3>2, <3>4, Zenon DEF Just
  <2> HIDE DEF x, g, few, enough, cand
  <2>8. AfterEviction(o, k, c, L, f[L])
    <3>1. PICK q : q = f[L]
      OBVIOUS
    <3>2. PICK z : z = [LFU!Insert(q, k) EXCEPT !.free = y]
      OBVIOUS
    <3>3. PICK V : V = {c[i] : i \in 1 .. L}
      OBVIOUS
    <3>4. \/ o = [pol |-> q, stored |-> FALSE, removed |-> {}] /\ q.crashed
          \/ o = [pol |-> z, stored |-> TRUE, removed |-> V] /\ ~q.crashed
      BY <2>6, <2>7, <3>1, <3>2, <3>3
    <3>5. \/ o.pol = q /\ q.crashed /\ ~o.stored
          \/ o.pol = z /\ o.stored /\ ~q.crashed /\ o.removed = V
      BY <3>4
    <3>6. y = LFU!Insert(q, k).free + LFU!Bytes(LFU!SubSeq(c, 1, L)) - Size[k]
      BY <2>7, <3>1
    <3> QED
      BY <3>1, <3>2, <3>3, <3>5, <3>6, Zenon DEF AfterEviction
  <2> QED
    BY <2>5, <2>8, <2>a, Zenon DEF LFUStores
<1> HIDE DEF x, g, few, enough, cand
<1> QED
  BY <1>1, <1>2, <1>3, Zenon

LEMMA EvictionKnows ==
    ASSUME NEW p, NEW H, Knows(p, H), NEW L \in Nat, NEW f, NEW cand, EvictionOf(f, p, cand, L)
    PROVE  Knows(f[L], H)
<1>1. ASSUME NEW q, Knows(q, H), NEW v PROVE Knows(LFU!Evict(p, q, v), H)
  <2>1. PICK r : r = [q EXCEPT !.order = LFU!Without(@, v)]
    OBVIOUS
  <2>2. Alike(q, r)
    BY <2>1, Zenon DEF Alike
  <2>3. Knows(LFU!EraseFreqMap(r, p.hits[v]), H)
    BY <1>1, <2>2, OtherField, ErasedKnows, Zenon
  <2>4. Knows([q EXCEPT !.crashed = TRUE], H)
    <3>1. Alike(q, [q EXCEPT !.crashed = TRUE])
      BY Zenon DEF Alike
    <3> QED
      BY <1>1, <3>1, OtherField, Zenon
  <2> QED
    BY <1>1, <2>1, <2>3, <2>4, Zenon DEF LFU!Evict
<1> DEFINE T == {n \in Nat : n <= L => Knows(f[n], H)}
<1>2. 0 \in T
  BY DEF EvictionOf
<1>3. ASSUME NEW n \in Nat, n \in T PROVE n + 1 \in T
  <2>1. SUFFICES ASSUME n + 1 <= L PROVE Knows(f[n + 1], H)
    OBVIOUS
  <2>2. n <= L /\ n + 1 \in 1 .. L /\ (n + 1) - 1 = n
    BY <2>1
  <2>3. Knows(f[n], H)
    BY <1>3, <2>2
  <2>4. f[n + 1] = LFU!Evict(p, f[n], cand[n + 1])
    BY <2>2 DEF EvictionOf
  <2> QED
    BY <1>1, <2>3, <2>4, Zenon
<1> HIDE DEF T
<1>4. Nat \subseteq T
  BY <1>2, <1>3, Induction, Zenon
<1>5. L \in T /\ L <= L
  BY <1>4
<1> QED
  BY <1>5 DEF T

LEMMA MakeRoomEnds ==
    ASSUME NEW p, NEW entries, NEW v, NEW free, NEW need,
           NEW r \in Heap!MakeRoom(p, entries, v, free, need)
    PROVE  r.end \in {"refused", "crashed", "room"}
  BY DEF Heap!MakeRoom

LEMMA RoomFound ==
    ASSUME NEW p, NEW entries, NEW v, NEW need,
           NEW r \in Heap!MakeRoom(p, entries, v, p.free, need)
    PROVE  /\ r.end # "crashed" => r.out \subseteq entries
           /\ r.end = "room" => Makes(p, r.out, need)
<1> DEFINE less == {e \in entries : Heap!LessValue(Heap!EntryValue(p, e), v)}
<1> DEFINE room == {out \in SUBSET less :
                      /\ p.free + Heap!Bytes(out) >= need
                      /\ out = {} \/ \E e \in out : p.free + Heap!Bytes(out \ {e}) < need}
<1> DEFINE short == {out \in SUBSET less : p.free + Heap!Bytes(out) < need}
<1> DEFINE left == IF less = entries THEN {} ELSE short
<1>1. \/ r \in {[end |-> "room", out |-> out] : out \in room}
      \/ r \in {[end |-> "refused", out |-> out] : out \in left}
      \/ \E x : r \in {[end |-> "crashed", out |-> out] : out \in x}
  BY Zenon DEF Heap!MakeRoom
<1>2. left \subseteq SUBSET entries
  OBVIOUS
<1>3. \A out \in room : out \subseteq entries /\ Makes(p, out, need)
  BY DEF Makes
<1> HIDE DEF room, left
<1>4. CASE r \in {[end |-> "room", out |-> out] : out \in room}
  <2>1. r.out \in room /\ r.end = "room"
    BY <1>4
  <2> QED
    BY <1>3, <2>1
<1>5. CASE r \in {[end |-> "refused", out |-> out] : out \in left}
  <2>1. r.out \in left /\ r.end = "refused"
    BY <1>5
  <2> QED
    BY <1>2, <2>1
<1>6. CASE \E x : r \in {[end |-> "crashed", out |-> out] : out \in x}
  BY <1>6
<1> QED
  BY <1>1, <1>4, <1>5, <1>6

LEMMA HeapStored ==
    ASSUME NEW p, NEW k, NEW o \in Heap!OnStore(p, k)
    PROVE  HeapStores(o, p, k)
<1> DEFINE E == Heap!Entries(p.copies, FALSE)
<1> DEFINE R == Heap!MakeRoom(p, E, Heap!Value(p, k), p.free, Size[k])
<1> DEFINE x(r) == p.free + Heap!Bytes(r.out) - Size[k]
<1> DEFINE y(r) == Heap!Pushed(Heap!Popped(p.copies, FALSE, r.out), {k})
<1> DEFINE Refused(q) == [pol |-> q, stored |-> FALSE, removed |-> {}]
<1> DEFINE Stored(q, out) == [pol |-> q, stored |-> TRUE, removed |-> out]
<1>1. \/ o = Refused(p)
      \/ \E r \in R :
           o = CASE r.end = "refused" -> Refused(Restored(p, r.out))
                 [] r.end = "crashed" -> Refused([p EXCEPT !.crashed = TRUE])
                 [] r.end = "room" ->
                      Stored(Replaced(p, r.out, y(r), x(r), k), Heap!KeysOf(r.out))
  BY Zenon DEF Heap!OnStore, Restored, Replaced
<1>2. \A q, out : /\ Refused(q).pol = q /\ ~Refused(q).stored
                  /\ Stored(q, out).pol = q /\ Stored(q, out).stored /\ Stored(q, out).removed = out
  OBVIOUS
<1>3. \A r \in R : r.end \in {"refused", "crashed", "room"}
  BY MakeRoomEnds, Zenon
<1>a. ASSUME NEW r \in R
      PROVE  /\ r.end # "crashed" => r.out \subseteq E
             /\ r.end = "room" => Makes(p, r.out, Size[k])
  BY <1>a, RoomFound, Zenon
<1> HIDE DEF R, E, Refused, Stored, x, y
<1>4. CASE o = Refused(p)
  BY <1>2, <1>4, Zenon DEF HeapStores
<1>5. CASE o # Refused(p)
  <2>1. PICK r \in R :
           o = CASE r.end = "refused" -> Refused(Restored(p, r.out))
                 [] r.end = "crashed" -> Refused([p EXCEPT !.crashed = TRUE])
                 [] r.end = "room" ->
                      Stored(Replaced(p, r.out, y(r), x(r), k), Heap!KeysOf(r.out))
    BY <1>1, <1>5
  <2>2. PICK c, d, b, V, out, u, w :
          /\ c = [p EXCEPT !.crashed = TRUE] /\ b = Restored(p, out) /\ out = r.out
          /\ u = x(r) /\ w = y(r) /\ d = Replaced(p, out, w, u, k) /\ V = Heap!KeysOf(out)
    OBVIOUS
  <2>3. \/ o = Refused(c)
        \/ o = Refused(b) /\ r.end = "refused"
        \/ o = Stored(d, V) /\ r.end = "room"
    BY <1>3, <2>1, <2>2
  <2>4. \/ o.pol = c /\ ~o.stored
        \/ o.pol = b /\ ~o.stored /\ r.end = "refused"
        \/ o.pol = d /\ o.stored /\ o.removed = V /\ r.end = "room"
    <3>1. /\ Refused(c).pol = c /\ ~Refused(c).stored /\ Refused(b).pol = b /\ ~Refused(b).stored
          /\ Stored(d, V).pol = d /\ Stored(d, V).stored /\ Stored(d, V).removed = V
      BY <1>2
    <3>2. CASE o = Refused(c)
      BY <3>1, <3>2
    <3>3. CASE o = Stored(d, V) /\ r.end = "room"
      BY <3>1, <3>3
    <3>4. CASE o = Refused(b) /\ r.end = "refused"
      BY <3>1, <3>4
    <3> QED
      BY <2>3, <3>2, <3>3, <3>4
  <2>5. CASE o.pol = c /\ ~o.stored
    BY <2>2, <2>5, Zenon DEF HeapStores
  <2>6. CASE o.pol = b /\ ~o.stored /\ r.end = "refused"
    <3>1. out \subseteq Heap!Entries(p.copies, FALSE)
      BY <1>a, <2>2, <2>6 DEF E
    <3> QED
      BY <2>2, <2>6, <3>1, Zenon DEF HeapStores
  <2>7. CASE o.pol = d /\ o.stored /\ o.removed = V /\ r.end = "room"
    <3>1. out \subseteq Heap!Entries(p.copies, FALSE) /\ Makes(p, out, Size[k])
      BY <1>a, <2>2, <2>7 DEF E
    <3>2. u = p.free + Heap!Bytes(out) - Size[k]
      BY <2>2, Zenon DEF x
    <3>3. w = Heap!Pushed(Heap!Popped(p.copies, FALSE, out), {k})
      BY <2>2, Zenon DEF y
    <3> QED
      BY <2>2, <2>7, <3>1, <3>2, <3>3, Zenon DEF HeapStores
  <2> QED
    BY <2>4, <2>5, <2>6, <2>7
<1> QED
  BY <1>4, <1>5

LEMMA StoreKnows ==
    ASSUME config.policy \in {"LFU", "LFUS", "WLFU"}, NEW p, NEW H, Knows(p, H), NEW k, NEW o \in OnStore(p, k)
    PROVE  Knows(o.pol, H)
<1>1. CASE config.policy = "LFU"
  <2>1. o \in LFU!OnStore(p, k)
    BY <1>1 DEF OnStore
  <2>2. LFUStores(o, p, k)
    BY <2>1, LFUStored, Zenon
  <2>3. CASE o.pol = p
    BY <2>3
  <2>4. CASE o.pol # p
    <3>1. PICK L \in Nat : \E f, cand : EvictionOf(f, p, cand, L) /\ AfterEviction(o, k, cand, L, f[L])
      BY <2>2, <2>4, Zenon DEF LFUStores
    <3>2. PICK f, cand : EvictionOf(f, p, cand, L) /\ AfterEviction(o, k, cand, L, f[L])
      BY <3>1
    <3>3. Knows(f[L], H)
      BY <3>2, EvictionKnows, Zenon
    <3>4. Knows(LFU!Insert(f[L], k), H)
      BY <3>3, InsertedKnows, Zenon
    <3>5. o.pol = f[L] \/ Alike(LFU!Insert(f[L], k), o.pol)
      BY <3>2, Zenon DEF AfterEviction, Alike
    <3> QED
      BY <3>3, <3>4, <3>5, OtherField, Zenon
  <2> QED
    BY <2>3, <2>4
<1>2. CASE config.policy \in {"LFUS", "WLFU"}
  <2>1. o \in Heap!OnStore(p, k)
    BY <1>2 DEF OnStore
  <2>2. HeapStores(o, p, k)
    BY <2>1, HeapStored, Zenon
  <2>3. CASE o.pol = p \/ o.pol = [p EXCEPT !.crashed = TRUE]
    <3>1. o.pol = p \/ Alike(p, o.pol)
      BY <2>3, Zenon DEF Alike
    <3> QED
      BY <3>1, OtherField, Zenon
  <2>4. CASE \E out, y, x : o.pol = Replaced(p, out, y, x, k)
    <3>1. PICK out, y, x : o.pol = Replaced(p, out, y, x, k)
      BY <2>4
    <3>2. PICK q : q = [p EXCEPT !.cached = (@ \ Heap!KeysOf(out)) \cup {k}]
      OBVIOUS
    <3>3. PICK r : r = [q EXCEPT !.copies = y]
      OBVIOUS
    <3>4. o.pol = [r EXCEPT !.free = x]
      BY <3>1, <3>2, <3>3 DEF Replaced
    <3>5. Alike(p, q) /\ Alike(q, r) /\ Alike(r, o.pol)
      BY <3>2, <3>3, <3>4, Zenon DEF Alike
    <3> QED
      BY <3>5, OtherField, Zenon
  <2>5. CASE \E out : o.pol = Restored(p, out)
    <3>1. Alike(p, o.pol)
      BY <2>5, Zenon DEF Alike, Restored
    <3> QED
      BY <3>1, OtherField, Zenon
  <2> QED
    BY <2>2, <2>3, <2>4, <2>5, Zenon DEF HeapStores
<1> QED
  BY <1>1, <1>2

LEMMA StoreKeysKnow ==
    ASSUME config.policy \in {"LFU", "LFUS", "WLFU"}, NEW c, NEW order, NEW L \in Nat, L = Len(order),
           NEW H, Knows(c.pol, H), NEW d \in StoreKeys(c, order)
    PROVE  Knows(d.pol, H)
<1>1. PICK f : StoresOf(f, c, order, L)
  BY StoreKeysSteps, Zenon
<1>2. /\ StoreKeys(c, order) = f[L] /\ f[0] = {c}
      /\ \A n \in 1 .. L : f[n] = UNION {StoreKey(x, order[n]) : x \in f[n - 1]}
  BY <1>1, Zenon DEF StoresOf
<1>3. ASSUME NEW x, Knows(x.pol, H), NEW k, NEW y \in StoreKey(x, k) PROVE Knows(y.pol, H)
  <2>1. CASE x.pol.crashed
    BY <1>3, <2>1 DEF StoreKey
  <2>2. CASE ~x.pol.crashed
    <3>1. PICK o \in OnStore(x.pol, k) :
            y = [pol |-> o.pol, map |-> IF o.stored THEN (x.map \ o.removed) \cup {k} ELSE x.map]
      BY <2>2, Zenon DEF StoreKey
    <3>2. y.pol = o.pol
      BY <3>1
    <3> QED
      BY <1>3, <3>2, StoreKnows
  <2> QED
    BY <2>1, <2>2
<1> DEFINE T == {n \in Nat : n <= L => \A x \in f[n] : Knows(x.pol, H)}
<1>4. 0 \in T
  BY <1>2
<1>5. ASSUME NEW n \in Nat, n \in T PROVE n + 1 \in T
  <2>1. SUFFICES ASSUME n + 1 <= L, NEW x \in f[n + 1] PROVE Knows(x.pol, H)
    OBVIOUS
  <2>2. n <= L /\ n + 1 \in 1 .. L /\ (n + 1) - 1 = n
    BY <2>1
  <2>3. PICK y \in f[n] : x \in StoreKey(y, order[n + 1])
    BY <1>2, <2>2
  <2>4. Knows(y.pol, H)
    BY <1>5, <2>2
  <2> QED
    BY <1>3, <2>3, <2>4
<1> HIDE DEF T
<1>6. Nat \subseteq T
  BY <1>4, <1>5, Induction, Zenon
<1>7. L \in T /\ L <= L
  BY <1>6
<1> QED
  BY <1>2, <1>7 DEF T

LEMMA LoadKeysKnow ==
    ASSUME config.policy \in {"LFU", "LFUS", "WLFU"}, NEW order \in Seq(Key), NEW H, Knows(pol, H)
    PROVE  Knows(LoadKeys(order), H \cup ToSet(order))
<1>1. PICK L \in Nat : L = Len(order) /\ DOMAIN order = 1 .. L
  OBVIOUS
<1>2. PICK f : LoadsOf(f, order, L)
  BY <1>1, LoadKeysSteps, Zenon
<1>3. /\ LoadKeys(order) = f[L] /\ f[0] = pol
      /\ \A n \in 1 .. L : f[n] = OnLoad(f[n - 1], order[n])
  BY <1>2, Zenon DEF LoadsOf
<1>4. ASSUME NEW p, NEW G, Knows(p, G), NEW k \in Key PROVE Knows(OnLoad(p, k), G \cup {k})
  <2>1. OnLoad(p, k) = LFU!OnLoad(p, k) \/ OnLoad(p, k) = Heap!OnLoad(p, k)
    BY DEF OnLoad
  <2>2. Knows(LFU!OnLoad(p, k), G \cup {k}) /\ Knows(Heap!OnLoad(p, k), G \cup {k})
    BY <1>4, LFULoadKnows, HeapLoadKnows
  <2> QED
    BY <2>1, <2>2
<1> DEFINE Upto(n) == H \cup {order[i] : i \in 1 .. n}
<1> DEFINE T == {n \in Nat : n <= L => Knows(f[n], Upto(n))}
<1>5. 0 \in T
  <2>1. Upto(0) = H
    OBVIOUS
  <2> QED
    BY <1>3, <2>1, Zenon
<1>6. ASSUME NEW n \in Nat, n \in T PROVE n + 1 \in T
  <2>1. SUFFICES ASSUME n + 1 <= L PROVE Knows(f[n + 1], Upto(n + 1))
    OBVIOUS
  <2>2. n <= L /\ n + 1 \in 1 .. L /\ (n + 1) - 1 = n
    BY <2>1
  <2>3. Knows(f[n], Upto(n)) /\ order[n + 1] \in Key /\ f[n + 1] = OnLoad(f[n], order[n + 1])
    BY <1>1, <1>3, <1>6, <2>2
  <2>4. Upto(n + 1) = Upto(n) \cup {order[n + 1]}
    <3>1. 1 .. n + 1 = (1 .. n) \cup {n + 1}
      OBVIOUS
    <3> QED
      BY <3>1
  <2> HIDE DEF Upto
  <2> QED
    BY <1>4, <2>3, <2>4
<1>7. Upto(L) = H \cup ToSet(order)
  BY <1>1 DEF ToSet
<1> HIDE DEF T, Upto
<1>8. Nat \subseteq T
  BY <1>5, <1>6, Induction, Zenon
<1>9. L \in T /\ L <= L
  BY <1>8
<1> QED
  BY <1>3, <1>7, <1>9 DEF T

LEMMA EstimateKnows ==
    ASSUME NEW c, NEW k, NEW H, Knows(c.pol, H), DOMAIN c = {"pol", "keys"}, NEW d \in Heap!Estimate(c, k)
    PROVE  Knows(d.pol, H) /\ DOMAIN d = {"pol", "keys"}
<1> DEFINE p == c.pol
<1> DEFINE E == Heap!Entries(p.otc, FALSE) \cup Heap!Entries(p.fresh, TRUE)
<1> DEFINE R == Heap!MakeRoom(p, E, Heap!Value(p, k), p.freeOTC, Size[k])
<1> DEFINE u(r) == Heap!Pushed(Heap!Popped(p.otc, FALSE, r.out), {k})
<1> DEFINE w(r) == Heap!Popped(p.fresh, TRUE, r.out)
<1> DEFINE Roomy(r) == [p EXCEPT !.otc = u(r), !.fresh = w(r),
                                 !.freeOTC = @ + Heap!Bytes(r.out) - Size[k]]
<1>1. CASE d = c
  BY <1>1
<1>2. CASE d # c
  <2>1. PICK r \in R :
          d = CASE r.end = "refused" -> c
                [] r.end = "crashed" -> [c EXCEPT !.pol.crashed = TRUE]
                [] r.end = "room" -> [pol |-> Roomy(r), keys |-> c.keys \cup {k}]
    BY <1>2, Zenon DEF Heap!Estimate
  <2>2. r.end \in {"refused", "crashed", "room"}
    BY MakeRoomEnds, Zenon
  <2>3. PICK q : q = Roomy(r)
    OBVIOUS
  <2>4. Knows(q, H)
    <3>1. PICK x : x = [p EXCEPT !.otc = u(r)]
      OBVIOUS
    <3>2. PICK y : y = [x EXCEPT !.fresh = w(r)]
      OBVIOUS
    <3>3. q = [y EXCEPT !.freeOTC = p.freeOTC + Heap!Bytes(r.out) - Size[k]]
      BY <2>3, <3>1, <3>2
    <3>4. Alike(p, x) /\ Alike(x, y) /\ Alike(y, q)
      BY <3>1, <3>2, <3>3, Zenon DEF Alike
    <3> QED
      BY <3>4, OtherField, Zenon
  <2> HIDE DEF R, Roomy
  <2>5. CASE d = [c EXCEPT !.pol.crashed = TRUE]
    <3>1. d.pol = [p EXCEPT !.crashed = TRUE] /\ DOMAIN d = {"pol", "keys"}
      BY <2>5
    <3>2. Alike(p, d.pol)
      BY <3>1, Zenon DEF Alike
    <3> QED
      BY <3>1, <3>2, OtherField, Zenon
  <2>6. CASE d = [pol |-> q, keys |-> c.keys \cup {k}]
    BY <2>4, <2>6
  <2> QED
    BY <1>2, <2>1, <2>2, <2>3, <2>5, <2>6
<1> QED
  BY <1>1, <1>2

LEMMA ToCacheKnows ==
    ASSUME config.policy \in {"LFU", "LFUS", "WLFU"}, NEW p, NEW H, Knows(p, H), NEW missing,
           NEW L \in Nat, L = Len(missing), NEW a \in OnToCache(p, missing)
    PROVE  Knows(a.pol, H)
<1>1. CASE config.policy = "LFU"
  <2>1. a \in LFU!OnToCache(p, missing)
    BY <1>1 DEF OnToCache
  <2> QED
    BY <2>1 DEF LFU!OnToCache
<1>2. CASE config.policy \in {"LFUS", "WLFU"}
  <2>1. a \in Heap!OnToCache(p, missing)
    BY <1>2 DEF OnToCache
  <2>2. CASE p.crashed
    BY <2>1, <2>2 DEF Heap!OnToCache
  <2>3. CASE ~p.crashed /\ Heap!Ample(p.freeOTC)
    <3>1. a = [pol |-> Heap!TakeAll(p, missing), keys |-> Heap!ToSet(missing)]
      BY <2>1, <2>3, Zenon DEF Heap!OnToCache
    <3>2. PICK u, v, w : Heap!TakeAll(p, missing) = [p EXCEPT !.otc = u, !.fresh = v, !.freeOTC = w]
      BY DEF Heap!TakeAll
    <3>3. PICK x : x = [p EXCEPT !.otc = u]
      OBVIOUS
    <3>4. PICK y : y = [x EXCEPT !.fresh = v]
      OBVIOUS
    <3>5. a.pol = [y EXCEPT !.freeOTC = w]
      BY <3>1, <3>2, <3>3, <3>4
    <3>6. Alike(p, x) /\ Alike(x, y) /\ Alike(y, a.pol)
      BY <3>3, <3>4, <3>5, Zenon DEF Alike
    <3> QED
      BY <3>6, OtherField, Zenon
  <2>4. CASE ~p.crashed /\ ~Heap!Ample(p.freeOTC)
    <3>1. PICK b : b = {[pol |-> p, keys |-> {}]}
      OBVIOUS
    <3>2. PICK f : EstimatesOf(f, p, missing, b, L)
      BY <2>4, <3>1, EstimateSteps, Zenon
    <3>3. /\ Heap!OnToCache(p, missing) = f[L] /\ f[0] = b
          /\ \A n \in 1 .. L : f[n] = UNION {Heap!Estimate(x, missing[n]) : x \in f[n - 1]}
      BY <3>2, Zenon DEF EstimatesOf
    <3> DEFINE T == {n \in Nat : n <= L => \A x \in f[n] : Knows(x.pol, H) /\ DOMAIN x = {"pol", "keys"}}
    <3>4. 0 \in T
      BY <3>1, <3>3
    <3>5. ASSUME NEW n \in Nat, n \in T PROVE n + 1 \in T
      <4>1. SUFFICES ASSUME n + 1 <= L, NEW x \in f[n + 1]
                     PROVE  Knows(x.pol, H) /\ DOMAIN x = {"pol", "keys"}
        OBVIOUS
      <4>2. n <= L /\ n + 1 \in 1 .. L /\ (n + 1) - 1 = n
        BY <4>1
      <4>3. PICK y \in f[n] : x \in Heap!Estimate(y, missing[n + 1])
        BY <3>3, <4>2
      <4>4. Knows(y.pol, H) /\ DOMAIN y = {"pol", "keys"}
        BY <3>5, <4>2
      <4> QED
        BY <4>3, <4>4, EstimateKnows
    <3> HIDE DEF T
    <3>6. Nat \subseteq T
      BY <3>4, <3>5, Induction, Zenon
    <3>7. L \in T /\ L <= L
      BY <3>6
    <3> QED
      BY <2>1, <3>3, <3>7 DEF T
  <2> QED
    BY <2>2, <2>3, <2>4
<1> QED
  BY <1>1, <1>2

(* A load counts its keys, and nothing is forgotten.                       *)
LEMMA LoadKnows ==
    ASSUME CacheInv, config.policy \in {"LFU", "LFUS", "WLFU"}, HandleLoad, NEW H, Knows(pol, H)
    PROVE  Knows(pol', H \cup ToSet(Head(mailbox).order))
<1>1. mailbox \in Seq(Message) /\ mailbox # <<>> /\ Head(mailbox).type = "Load"
  BY DEF CacheInv, StateInv, HandleLoad, Received
<1>2. PICK m \in Message : m = Head(mailbox) /\ m \in ToSet(mailbox)
  BY <1>1, Taken, ZenonT(40)
<1>3. PICK order \in Seq(Key) : order = m.order
  BY <1>1, <1>2, MessageKinds
<1> DEFINE missing == At(order, {n \in DOMAIN order : order[n] \notin map})
<1> DEFINE loaded == LoadKeys(order)
<1> DEFINE answers == IF config.mode = "CACHING_ONLY" \/ loaded.crashed
                      THEN {[pol |-> loaded, keys |-> ToSet(order) \ map]}
                      ELSE OnToCache(loaded, missing)
<1>4. PICK a \in answers : pol' = a.pol
  BY <1>2, <1>3, Zenon DEF HandleLoad
<1>5. PICK p, G : p = loaded /\ G = H \cup ToSet(order)
  OBVIOUS
<1>6. Knows(p, G)
  BY <1>5, LoadKeysKnow, Zenon
<1>7. CASE a = [pol |-> loaded, keys |-> ToSet(order) \ map]
  <2> HIDE DEF loaded
  <2>1. pol' = p
    BY <1>4, <1>5, <1>7
  <2> QED
    BY <1>2, <1>3, <1>5, <1>6, <2>1
<1>8. CASE a # [pol |-> loaded, keys |-> ToSet(order) \ map]
  <2>1. a \in OnToCache(loaded, missing)
    BY <1>8
  <2>2. PICK r : r = missing
    OBVIOUS
  <2>3. r = At(order, NotThere(order))
    BY <2>2 DEF NotThere
  <2> HIDE DEF missing, loaded, answers
  <2>4. PICK L \in Nat : L = Len(r)
    BY <2>3, MissingKeys
  <2>5. a \in OnToCache(p, r)
    BY <1>5, <2>1, <2>2
  <2>6. Knows(a.pol, G)
    BY <1>6, <2>4, <2>5, ToCacheKnows, Zenon
  <2> QED
    BY <1>2, <1>3, <1>4, <1>5, <2>6
<1> QED
  BY <1>7, <1>8

LEMMA StoresKnow ==
    ASSUME CacheInv, config.policy \in {"LFU", "LFUS", "WLFU"}, HandleStore, NEW H, Knows(pol, H)
    PROVE  Knows(pol', H)
<1>1. mailbox \in Seq(Message) /\ mailbox # <<>> /\ Head(mailbox).type = "Store"
  BY DEF CacheInv, StateInv, HandleStore, Received
<1>2. PICK m \in Message : m = Head(mailbox)
  BY <1>1, Taken, ZenonT(40)
<1>3. m.keys \in KeySet
  BY <1>1, <1>2, MessageKinds
<1>4. PICK order \in SetToSeqs(m.keys) :
        \E c \in StoreKeys([pol |-> pol, map |-> map], order) : pol' = c.pol /\ map' = c.map
  BY <1>2, Zenon DEF HandleStore
<1>5. PICK b : b = [pol |-> pol, map |-> map]
  OBVIOUS
<1>6. PICK c \in StoreKeys(b, order) : pol' = c.pol
  BY <1>4, <1>5
<1>7. PICK L \in Nat : L = Len(order)
  <2>1. order \in [1 .. Cardinality(m.keys) -> m.keys]
    BY DEF SetToSeqs
  <2>2. Cardinality(m.keys) \in Nat
    BY <1>3, FS_CardinalityType DEF KeySet
  <2> QED
    BY <2>1, <2>2
<1>8. Knows(b.pol, H)
  BY <1>5
<1> QED
  BY <1>6, <1>7, <1>8, StoreKeysKnow

(* The keys of an answered scan, of a store and of a weight were loaded.   *)
Learned(s) == scan[s].at \in {"answered", "reading"} => Knows(pol, ScanKeys(s))
KnowsInv ==
    config.policy # "LRU" =>
        /\ Knows(pol, {})
        /\ \A s \in Scan : Learned(s)
        /\ \A m \in ToSet(mailbox) : m.type \in {"Store", "Weight"} => Knows(pol, m.keys)
        /\ \A l \in late : Knows(pol, l[3].keys)

(* The policy forgets no count.                                            *)
Remembers == config.policy # "LRU" => \A H : Knows(pol, H) => Knows(pol', H)

LEMMA KnowsKept ==
    ASSUME KnowsInv, config' = config, Remembers,
           \A s \in Scan : scan'[s].at \in {"answered", "reading"} /\ config.policy # "LRU"
                              => ScanKeys(s)' = ScanKeys(s) /\ (Learned(s) => Knows(pol', ScanKeys(s))),
           \A m \in ToSet(mailbox') : m.type \in {"Store", "Weight"} /\ config.policy # "LRU"
                              => m \in ToSet(mailbox) \/ Knows(pol, m.keys),
           \A l \in late' : l \in late \/ (config.policy # "LRU" => Knows(pol, l[3].keys))
    PROVE  KnowsInv'
<1> SUFFICES ASSUME config.policy # "LRU" PROVE KnowsInv'
  BY DEF KnowsInv
<1>1. Knows(pol', {})
  BY Zenon DEF KnowsInv, Remembers
<1>2. ASSUME NEW s \in Scan PROVE Learned(s)'
  <2>1. Learned(s)
    BY DEF KnowsInv
  <2>2. CASE scan'[s].at \in {"answered", "reading"}
    <3>1. ScanKeys(s)' = ScanKeys(s) /\ Knows(pol', ScanKeys(s))
      BY <2>1, <2>2, Zenon
    <3>2. Knows(pol', ScanKeys(s)')
      BY <3>1, Zenon
    <3>3. Knows(pol, ScanKeys(s))'
      BY <3>2 DEF Knows
    <3> QED
      BY <3>3 DEF Learned
  <2>3. CASE scan'[s].at \notin {"answered", "reading"}
    BY <2>3 DEF Learned
  <2> QED
    BY <2>2, <2>3
<1>3. ASSUME NEW m \in ToSet(mailbox'), m.type \in {"Store", "Weight"} PROVE Knows(pol', m.keys)
  <2>1. m \in ToSet(mailbox) \/ Knows(pol, m.keys)
    BY <1>3, Zenon
  <2>2. Knows(pol, m.keys)
    BY <1>3, <2>1, Zenon DEF KnowsInv
  <2> QED
    BY <2>2, Zenon DEF Remembers
<1>4. ASSUME NEW l \in late' PROVE Knows(pol', l[3].keys)
  <2>1. Knows(pol, l[3].keys)
    BY Zenon DEF KnowsInv
  <2> QED
    BY <2>1, Zenon DEF Remembers
<1> QED
  BY <1>1, <1>2, <1>3, <1>4 DEF KnowsInv

LEMMA KnowsQuiet ==
    ASSUME CacheInv, KnowsInv, HandleNewQuery \/ HandleWeight \/ HandleStore
    PROVE  KnowsInv'
<1>1. /\ mailbox # <<>> /\ mailbox' = Tail(mailbox)
      /\ UNCHANGED <<config, query, plan, scan, late>>
  BY DEF HandleNewQuery, HandleWeight, HandleStore, Received
<1>2. /\ config.policy # "LRU" => config.policy \in {"LFU", "LFUS", "WLFU"}
      /\ mailbox \in Seq(Message)
  BY ConfigFacts DEF CacheInv, StateInv
<1>3. Remembers
  <2> SUFFICES ASSUME config.policy # "LRU", NEW H, Knows(pol, H) PROVE Knows(pol', H)
    BY DEF Remembers
  <2>1. CASE HandleNewQuery
    <3>1. pol' = OnNewQuery(pol)
      BY <2>1 DEF HandleNewQuery
    <3> QED
      BY <3>1, QueryKnows, Zenon
  <2>2. CASE HandleWeight
    <3>1. pol' = OnWeight(pol, Head(mailbox).keys)
      BY <2>2 DEF HandleWeight
    <3> QED
      BY <3>1, WeightKnows, Zenon
  <2>3. CASE HandleStore
    BY <1>2, <2>3, StoresKnow, Zenon
  <2> QED
    BY <2>1, <2>2, <2>3
<1>4. ToSet(mailbox') \subseteq ToSet(mailbox)
  BY <1>1, <1>2, Taken, ZenonT(40)
<1>5. \A s \in Scan : scan'[s].at \in {"answered", "reading"} /\ config.policy # "LRU"
                         => ScanKeys(s)' = ScanKeys(s) /\ (Learned(s) => Knows(pol', ScanKeys(s)))
  <2> SUFFICES ASSUME NEW s \in Scan, scan'[s].at \in {"answered", "reading"}, config.policy # "LRU"
               PROVE  ScanKeys(s)' = ScanKeys(s) /\ (Learned(s) => Knows(pol', ScanKeys(s)))
    OBVIOUS
  <2>1. ScanKeys(s)' = ScanKeys(s) /\ scan[s].at \in {"answered", "reading"}
    BY <1>1 DEF ScanKeys, KeysOf, Columns
  <2>2. Learned(s) => Knows(pol, ScanKeys(s))
    BY <2>1, Zenon DEF Learned
  <2>3. Learned(s) => Knows(pol', ScanKeys(s))
    BY <1>3, <2>2, Zenon DEF Remembers
  <2> QED
    BY <2>1, <2>3, Zenon
<1>6. \A m \in ToSet(mailbox') : m \in ToSet(mailbox)
  BY <1>4
<1> QED
  BY <1>1, <1>3, <1>5, <1>6, KnowsKept

LEMMA KnowsLoad ==
    ASSUME CacheInv, KnowsInv, HandleLoad
    PROVE  KnowsInv'
<1>1. PICK m \in LoadMsg :
             /\ m \in Message /\ m.type = "Load" /\ m = Head(mailbox)
             /\ mailbox # <<>> /\ mailbox' = Tail(mailbox)
             /\ m.scan \in Scan /\ scan[m.scan].at = "asked" /\ ToSet(m.order) = ScanKeys(m.scan)
             /\ UNCHANGED <<config, map, query, plan, late>>
             /\ scan' = scan \/ \E K : Answer(m.scan, K)
  BY LoadFacts
<1>2. /\ config.policy # "LRU" => config.policy \in {"LFU", "LFUS", "WLFU"}
      /\ mailbox \in Seq(Message) /\ scan \in [Scan -> ScanState]
  BY ConfigFacts DEF CacheInv, StateInv
<1>3. PICK u \in Scan : u = m.scan
  BY <1>1
<1>4. ASSUME NEW H, config.policy # "LRU", Knows(pol, H)
      PROVE  Knows(pol', H \cup ScanKeys(u))
  <2>1. Knows(pol', H \cup ToSet(Head(mailbox).order))
    BY <1>2, <1>4, LoadKnows, Zenon
  <2>2. ToSet(Head(mailbox).order) = ScanKeys(u)
    BY <1>1, <1>3
  <2> QED
    BY <2>1, <2>2
<1>5. Remembers
  <2> SUFFICES ASSUME config.policy # "LRU", NEW H, Knows(pol, H) PROVE Knows(pol', H)
    BY DEF Remembers
  <2>1. Knows(pol', H \cup ScanKeys(u))
    BY <1>4
  <2>2. PICK p, G : p = pol' /\ G = H \cup ScanKeys(u)
    OBVIOUS
  <2>3. Knows(p, G) /\ H \subseteq G
    BY <2>1, <2>2
  <2>4. Knows(p, H)
    BY <2>3, KnowsFewer
  <2> QED
    BY <2>2, <2>4
<1>6. ToSet(mailbox') \subseteq ToSet(mailbox)
  BY <1>1, <1>2, Taken, ZenonT(40)
<1>7. \A s \in Scan : s # u => scan'[s] = scan[s]
  BY <1>1, <1>2, <1>3 DEF Answer
<1>8. ASSUME NEW s \in Scan, scan'[s].at \in {"answered", "reading"}, config.policy # "LRU"
      PROVE  ScanKeys(s)' = ScanKeys(s) /\ (Learned(s) => Knows(pol', ScanKeys(s)))
  <2>1. ScanKeys(s)' = ScanKeys(s)
    BY <1>1 DEF ScanKeys, KeysOf, Columns
  <2>2. CASE s = u
    <3>1. Knows(pol, {})
      BY <1>8 DEF KnowsInv
    <3>2. Knows(pol', {} \cup ScanKeys(u))
      BY <1>4, <1>8, <3>1
    <3>3. {} \cup ScanKeys(u) = ScanKeys(s)
      BY <2>2
    <3> QED
      BY <2>1, <3>2, <3>3
  <2>3. CASE s # u
    <3>1. Learned(s) => Knows(pol, ScanKeys(s))
      BY <1>7, <1>8, <2>3, Zenon DEF Learned
    <3> QED
      BY <1>5, <1>8, <2>1, <3>1, Zenon DEF Remembers
  <2> QED
    BY <2>2, <2>3
<1>9. /\ \A n \in ToSet(mailbox') : n \in ToSet(mailbox)
      /\ config' = config /\ late' = late
  BY <1>1, <1>6
<1> QED
  BY <1>5, <1>8, <1>9, KnowsKept

(* The steps of the operators leave the policy alone.                      *)
LEMMA KnowsOperator ==
    ASSUME KnowsInv, UNCHANGED <<config, pol>>, mailbox \in Seq(Message),
           \A s \in Scan : scan'[s].at \in {"answered", "reading"}
                              => ScanKeys(s)' = ScanKeys(s) /\ scan[s].at \in {"answered", "reading"},
           NEW x, (x \in Message /\ mailbox' = Append(mailbox, x)) \/ mailbox' = mailbox,
           x.type \in {"Store", "Weight"} /\ config.policy # "LRU" => Knows(pol, x.keys),
           \A l \in late' : l \in late \/ (config.policy # "LRU" => Knows(pol, l[3].keys))
    PROVE  KnowsInv'
<1>1. Remembers
  BY DEF Remembers, Knows
<1>2. ToSet(mailbox') \subseteq ToSet(mailbox) \cup {x}
  <2>1. CASE mailbox' = mailbox
    BY <2>1
  <2>2. CASE x \in Message /\ mailbox' = Append(mailbox, x)
    <3>1. ToSet(mailbox') = ToSet(mailbox) \cup {x}
      BY <2>2, Added, ZenonT(40)
    <3> QED
      BY <3>1
  <2> QED
    BY <2>1, <2>2
<1>3. ASSUME NEW s \in Scan, scan'[s].at \in {"answered", "reading"}, config.policy # "LRU"
      PROVE  ScanKeys(s)' = ScanKeys(s) /\ (Learned(s) => Knows(pol', ScanKeys(s)))
  <2>1. ScanKeys(s)' = ScanKeys(s) /\ scan[s].at \in {"answered", "reading"}
    BY <1>3
  <2>2. Learned(s) => Knows(pol, ScanKeys(s))
    BY <2>1, Zenon DEF Learned
  <2> QED
    BY <1>1, <1>3, <2>1, <2>2, Zenon DEF Remembers
<1>4. ASSUME NEW m \in ToSet(mailbox'), m.type \in {"Store", "Weight"}, config.policy # "LRU"
      PROVE  m \in ToSet(mailbox) \/ Knows(pol, m.keys)
  BY <1>2, <1>4
<1> QED
  BY <1>1, <1>3, <1>4, KnowsKept

LEMMA KnowsNewQuery ==
    ASSUME CacheInv, KnowsInv, NewQuery
    PROVE  KnowsInv'
<1>1. /\ UNCHANGED <<config, map, late>> /\ \A s \in Scan : scan'[s].at \in {"idle", "start"}
      /\ \E x \in Message : x.type = "NewQuery" /\ mailbox' = Append(mailbox, x)
  BY NewQueryFacts
<1>2. pol' = pol /\ mailbox \in Seq(Message)
  BY DEF NewQuery, CacheInv, StateInv
<1>3. PICK x \in Message : x.type = "NewQuery" /\ mailbox' = Append(mailbox, x)
  BY <1>1
<1> QED
  BY <1>1, <1>2, <1>3, KnowsOperator

(* A change of one scan that leaves it where it is, or not yet answered.   *)
LEMMA SameScans ==
    ASSUME plan' = plan, NEW s \in Scan, \A t \in Scan : t # s => scan'[t] = scan[t],
           scan'[s].at \in {"answered", "reading"} => scan[s].at \in {"answered", "reading"}
    PROVE  \A t \in Scan : scan'[t].at \in {"answered", "reading"}
              => ScanKeys(t)' = ScanKeys(t) /\ scan[t].at \in {"answered", "reading"}
<1>1. \A t : ScanKeys(t)' = ScanKeys(t)
  BY DEF ScanKeys, KeysOf, Columns
<1> QED
  BY <1>1

LEMMA KnowsStart ==
    ASSUME CacheInv, KnowsInv, NEW s \in Scan, OnStart(s)
    PROVE  KnowsInv'
<1>1. /\ UNCHANGED <<config, map, plan, late>>
      /\ scan[s].at = "start" /\ scan' = [scan EXCEPT ![s] = [scan[s] EXCEPT !.at = "asked"]]
      /\ \E x \in Message : x.type = "Load" /\ x.scan = s /\ mailbox' = Append(mailbox, x)
  BY StartFacts
<1>2. pol' = pol /\ mailbox \in Seq(Message) /\ scan \in [Scan -> ScanState]
  BY DEF OnStart, CacheInv, StateInv
<1>3. PICK x \in Message : x.type = "Load" /\ mailbox' = Append(mailbox, x)
  BY <1>1
<1>4. scan'[s].at = "asked" /\ \A t \in Scan : t # s => scan'[t] = scan[t]
  <2>1. PICK y : y = [scan[s] EXCEPT !.at = "asked"]
    OBVIOUS
  <2>2. y.at = "asked"
    BY <1>2, <2>1 DEF ScanState
  <2> QED
    BY <1>1, <1>2, <2>1, <2>2
<1>5. \A t \in Scan : scan'[t].at \in {"answered", "reading"}
         => ScanKeys(t)' = ScanKeys(t) /\ scan[t].at \in {"answered", "reading"}
  BY <1>1, <1>4, SameScans
<1> QED
  BY <1>1, <1>2, <1>3, <1>5, KnowsOperator

LEMMA KnowsResponse ==
    ASSUME CacheInv, KnowsInv, NEW s \in Scan, OnCacheLoadResponse(s)
    PROVE  KnowsInv'
<1>1. /\ UNCHANGED <<config, map, mailbox, plan, late>>
      /\ scan[s].at = "answered" /\ \A t \in Scan : t # s => scan'[t] = scan[t]
  BY ResponseFacts
<1>2. pol' = pol /\ mailbox \in Seq(Message)
  BY DEF OnCacheLoadResponse, CacheInv, StateInv
<1>3. \A t \in Scan : scan'[t].at \in {"answered", "reading"}
         => ScanKeys(t)' = ScanKeys(t) /\ scan[t].at \in {"answered", "reading"}
  BY <1>1, SameScans
<1>4. PICK x : x = [type |-> "NewQuery"]
  OBVIOUS
<1>5. x.type = "NewQuery"
  BY <1>4
<1> QED
  BY <1>1, <1>2, <1>3, <1>5, KnowsOperator

LEMMA KnowsPullUp ==
    ASSUME CacheInv, KnowsInv, NEW s \in Scan, PullUp(s)
    PROVE  KnowsInv'
<1>1. /\ UNCHANGED <<config, map, query, plan>>
      /\ scan[s].at = "reading" /\ ~scan[s].pulled
      /\ scan' = [scan EXCEPT ![s] = [scan[s] EXCEPT !.pulled = TRUE]]
      /\ \E m \in StoreMsg :
           /\ m \in Message /\ m.type = "Store" /\ m.keys = KeysOf(s, scan[s].toCache)
           /\ \/ mailbox' = mailbox /\ late' = late
              \/ mailbox' = Append(mailbox, m) /\ late' = late
              \/ mailbox' = mailbox /\ late' = late \cup {<<query, s, m>>}
  BY PullUpFacts
<1>2. PICK m \in StoreMsg :
           /\ m \in Message /\ m.type = "Store" /\ m.keys = KeysOf(s, scan[s].toCache)
           /\ \/ mailbox' = mailbox /\ late' = late
              \/ mailbox' = Append(mailbox, m) /\ late' = late
              \/ mailbox' = mailbox /\ late' = late \cup {<<query, s, m>>}
  BY <1>1
<1>3. pol' = pol /\ mailbox \in Seq(Message) /\ scan \in [Scan -> ScanState]
  BY DEF PullUp, CacheInv, StateInv
<1>4. \A t \in Scan : t # s => scan'[t] = scan[t]
  BY <1>1, <1>3
<1>5. \A t \in Scan : scan'[t].at \in {"answered", "reading"}
         => ScanKeys(t)' = ScanKeys(t) /\ scan[t].at \in {"answered", "reading"}
  BY <1>1, <1>4, SameScans
<1>6. config.policy # "LRU" => Knows(pol, m.keys)
  <2>1. m.keys \subseteq ScanKeys(s)
    BY <1>1, <1>2, HeldKeys DEF CacheInv
  <2>2. config.policy # "LRU" => Knows(pol, ScanKeys(s))
    BY <1>1 DEF KnowsInv, Learned
  <2> QED
    BY <2>1, <2>2, KnowsFewer
<1>7. \A l \in late' : l \in late \/ (config.policy # "LRU" => Knows(pol, l[3].keys))
  <2>1. PICK n : n = <<query, s, m>>
    OBVIOUS
  <2>2. n[3] = m /\ (late' = late \/ late' = late \cup {n})
    BY <1>2, <2>1
  <2> QED
    BY <1>6, <2>2
<1>8. (m \in Message /\ mailbox' = Append(mailbox, m)) \/ mailbox' = mailbox
  BY <1>2
<1> QED
  BY <1>1, <1>3, <1>5, <1>6, <1>7, <1>8, KnowsOperator

LEMMA KnowsPushDown ==
    ASSUME CacheInv, KnowsInv, NEW s \in Scan, PushDown(s)
    PROVE  KnowsInv'
<1>1. /\ UNCHANGED <<config, map, query, plan, late>>
      /\ scan' = [scan EXCEPT ![s] = [scan[s] EXCEPT !.pushed = TRUE]]
      /\ scan[s].at = "reading"
      /\ \/ mailbox' = mailbox
         \/ \E m \in Message : /\ m.type = "Weight" /\ m.keys = ScanKeys(s)
                               /\ mailbox' = Append(mailbox, m)
  BY PushDownFacts
<1>2. pol' = pol /\ mailbox \in Seq(Message) /\ scan \in [Scan -> ScanState]
  BY DEF PushDown, CacheInv, StateInv
<1>3. \A t \in Scan : t # s => scan'[t] = scan[t]
  BY <1>1, <1>2
<1>4. \A t \in Scan : scan'[t].at \in {"answered", "reading"}
         => ScanKeys(t)' = ScanKeys(t) /\ scan[t].at \in {"answered", "reading"}
  BY <1>1, <1>3, SameScans
<1>5. config.policy # "LRU" => Knows(pol, ScanKeys(s))
  BY <1>1 DEF KnowsInv, Learned
<1>6. PICK x : /\ (x \in Message /\ mailbox' = Append(mailbox, x)) \/ mailbox' = mailbox
               /\ x.keys = ScanKeys(s)
  <2>1. PICK y : y = [type |-> "Weight", keys |-> ScanKeys(s)]
    OBVIOUS
  <2>2. y.keys = ScanKeys(s)
    BY <2>1
  <2> QED
    BY <1>1, <2>2
<1> QED
  BY <1>1, <1>2, <1>4, <1>5, <1>6, KnowsOperator

LEMMA KnowsLate ==
    ASSUME CacheInv, KnowsInv, LateStore
    PROVE  KnowsInv'
<1>1. /\ UNCHANGED <<config, map, query, plan, scan>>
      /\ \E l \in late : /\ l \in Nat \X Scan \X StoreMsg /\ late' = late \ {l}
                         /\ l[3] \in Message /\ mailbox' = Append(mailbox, l[3])
  BY LateFacts
<1>2. PICK l \in late : late' = late \ {l} /\ l[3] \in Message /\ mailbox' = Append(mailbox, l[3])
  BY <1>1
<1>3. PICK m \in Message : m = l[3]
  BY <1>2
<1>4. pol' = pol /\ mailbox \in Seq(Message)
  BY DEF LateStore, CacheInv, StateInv
<1>5. config.policy # "LRU" => Knows(pol, m.keys)
  BY <1>3 DEF KnowsInv
<1>6. \A s \in Scan : scan'[s].at \in {"answered", "reading"}
         => ScanKeys(s)' = ScanKeys(s) /\ scan[s].at \in {"answered", "reading"}
  BY <1>1 DEF ScanKeys, KeysOf, Columns
<1>7. mailbox' = Append(mailbox, m) /\ late' \subseteq late
  BY <1>2, <1>3
<1> QED
  BY <1>1, <1>4, <1>5, <1>6, <1>7, KnowsOperator

LEMMA KnowsInvariance == Spec => [](CacheInv /\ KnowsInv)
<1>1. Init => CacheInv /\ KnowsInv
  <2> SUFFICES ASSUME Init PROVE KnowsInv
    BY CacheStart
  <2>1. config.policy \in {"LRU", "LFU", "LFUS", "WLFU"}
    BY ConfigFacts DEF Init
  <2>2. config.policy # "LRU" => Knows(pol, {})
    <3>1. Knows(LFU!Empty, {})
      BY DEF LFU!Empty, Knows
    <3>2. \A perSize : Knows(Heap!Empty(perSize), {})
      BY DEF Heap!Empty, Heap!None, Knows
    <3>3. config.policy # "LRU" => pol = LFU!Empty \/ \E perSize : pol = Heap!Empty(perSize)
      BY <2>1, Zenon DEF Init, EmptyPolicy
    <3> QED
      BY <3>1, <3>2, <3>3, Zenon
  <2>3. \A s \in Scan : scan[s].at = "idle"
    BY IdleState DEF Init
  <2>4. ToSet(mailbox) = {} /\ late = {}
    BY DEF Init, ToSet
  <2> QED
    BY <2>2, <2>3, <2>4 DEF KnowsInv, Learned
<1>2. (CacheInv /\ KnowsInv) /\ [Next]_vars => (CacheInv /\ KnowsInv)'
  <2> SUFFICES ASSUME CacheInv, KnowsInv, [Next]_vars PROVE KnowsInv'
    BY CacheStep
  <2>1. CASE HandleNewQuery \/ HandleWeight \/ HandleStore
    BY <2>1, KnowsQuiet
  <2>2. CASE HandleLoad
    BY <2>2, KnowsLoad
  <2>3. CASE NewQuery
    BY <2>3, KnowsNewQuery
  <2>4. CASE LateStore
    BY <2>4, KnowsLate
  <2>5. CASE \E s \in Scan : OnStart(s)
    BY <2>5, KnowsStart
  <2>6. CASE \E s \in Scan : OnCacheLoadResponse(s)
    BY <2>6, KnowsResponse
  <2>7. CASE \E s \in Scan : PullUp(s)
    BY <2>7, KnowsPullUp
  <2>8. CASE \E s \in Scan : PushDown(s)
    BY <2>8, KnowsPushDown
  <2>9. CASE UNCHANGED vars
    BY <2>9 DEF vars, KnowsInv, Learned, Knows, ScanKeys, KeysOf, Columns
  <2> QED
    BY <2>1, <2>2, <2>3, <2>4, <2>5, <2>6, <2>7, <2>8, <2>9 DEF Next
<1> QED
  BY <1>1, <1>2, PTL DEF Spec

(* LFU, LFUS and WLFU never see a stored or weighted key that no load has  *)
(* shown them, however loads, stores, late stores and weights are mixed in *)
(* the mailbox: they throw on such a key.                                  *)
THEOREM StoresAreOfLoadedKeys == Spec => []OnlyLoadedKeys
<1>1. CacheInv /\ KnowsInv => OnlyLoadedKeys
  <2> SUFFICES ASSUME CacheInv, KnowsInv, config.policy # "LRU", ~pol.crashed,
                      NEW m \in Pending, m.type \in {"Store", "Weight"}, NEW k \in m.keys
               PROVE  pol.hits[k] > 0
    BY DEF OnlyLoadedKeys
  <2>1. m \in ToSet(mailbox) \/ \E l \in late : m = l[3]
    BY DEF Pending, ToSet
  <2>2. Knows(pol, m.keys)
    BY <2>1 DEF KnowsInv
  <2> QED
    BY <2>2 DEF Knows
<1> QED
  BY <1>1, KnowsInvariance, PTL

-----------------------------------------------------------------------------
(* The policy and the map agree on what is cached and on what it leaves    *)
(* free: HeapHolds, LRUHolds and LFUHolds say so of a policy state p and   *)
(* the keys K of the map, of a policy that has not crashed.                *)

(* The heap policies: one valid entry of each cached key.                  *)
Ones(K) == [j \in Key |-> IF j \in K THEN 1 ELSE 0]
HeapHolds(p, K) ==
    /\ {"cached", "copies", "free", "crashed"} \subseteq DOMAIN p
    /\ p.crashed \/ (p.cached = K /\ p.copies = Ones(K) /\ Leaves(p.free, K))

(* q is p but for a field that does not say what is cached, or has crashed. *)
HeapAlike(p, q) ==
    \E x : \/ q = [p EXCEPT !.otc = x] \/ q = [p EXCEPT !.fresh = x]
           \/ q = [p EXCEPT !.freeOTC = x] \/ q = [p EXCEPT !.weighted = x]
           \/ q = [p EXCEPT !.value = x] \/ q = [p EXCEPT !.hits = x]
           \/ q = [p EXCEPT !.crashed = TRUE]
LEMMA HeapOtherField ==
    ASSUME NEW p, NEW K, HeapHolds(p, K), NEW q, HeapAlike(p, q)
    PROVE  HeapHolds(q, K)
  BY DEF HeapHolds, HeapAlike

(* What may come of a store of k: the map stays, or k comes in and what    *)
(* goes for it goes only because k did not fit.                            *)
Comes(o, K, k) ==
    /\ o.stored /\ o.removed \subseteq K /\ (o.removed # {} => TotalSize(K) + Size[k] > MaxSize)
    /\ \E free : Leaves(free, (K \ o.removed) \cup {k})

(* Entries of such a heap stand for their keys.                            *)
StandFor(out, K) ==
    /\ Heap!KeysOf(out) \in SUBSET K
    /\ Heap!Bytes(out) = TotalSize(Heap!KeysOf(out))
    /\ Heap!Popped(Ones(K), FALSE, out) = Ones(K \ Heap!KeysOf(out))
LEMMA OneEach ==
    ASSUME NEW K \in KeySet, NEW out, out \subseteq Heap!Entries(Ones(K), FALSE)
    PROVE  StandFor(out, K)
<1>0. K \subseteq Key /\ IsFiniteSet(K)
  BY DEF KeySet
<1>1. ASSUME NEW e \in out PROVE e[1] \in K /\ e = <<e[1], 1, FALSE>>
  <2>1. PICK j \in Key : e \in {j} \X (1 .. Ones(K)[j]) \X {FALSE}
    BY Zenon DEF Heap!Entries
  <2>2. Ones(K)[j] = IF j \in K THEN 1 ELSE 0
    BY DEF Ones
  <2>a. PICK M, F : M = 1 .. Ones(K)[j] /\ F = {FALSE}
    OBVIOUS
  <2>b. e \in {j} \X M \X F
    BY <2>1, <2>a
  <2>c. PICK i \in M, b \in F : e = <<j, i, b>>
    BY <2>b
  <2>d. b = FALSE
    BY <2>a, Zenon
  <2>3. PICK n \in 1 .. Ones(K)[j] : e = <<j, n, FALSE>>
    BY <2>a, <2>c, <2>d
  <2>4. j \in K /\ n = 1
    BY <2>2, <2>3
  <2> QED
    BY <2>3, <2>4
<1>2. PICK R : R = Heap!KeysOf(out)
  OBVIOUS
<1>3. R \in SUBSET K /\ R = {e[1] : e \in out}
  BY <1>1, <1>2, Zenon DEF Heap!KeysOf
<1>4. \A e, d \in out : e[1] = d[1] => e = d
  BY <1>1
<1>5. PICK g, v : g = [e \in out |-> e[1]] /\ v = [e \in out |-> Size[e[1]]]
  OBVIOUS
<1>6. IsFiniteSet(out)
  <2>1. g \in Injection(out, K)
    BY <1>1, <1>4, <1>5 DEF Injection, IsInjective
  <2> QED
    BY <1>0, <2>1, FS_Injection
<1>7. Heap!Bytes(out) = TotalSize(R)
  <2>1. /\ \A e \in out : v[e] = Size[g[e]] /\ v[e] \in Nat
        /\ \A e, d \in out : g[e] = g[d] => e = d
    BY <1>0, <1>1, <1>4, <1>5, SegmentAssumption
  <2>2. SumFunctionOnSet(v, out) = SumFunctionOnSet(Size, {g[e] : e \in out})
    BY <1>6, <2>1, SumPlaces
  <2>3. {g[e] : e \in out} = R
    BY <1>3, <1>5
  <2>4. Heap!Bytes(out) = Heap!SumFunction(v) /\ DOMAIN v = out
    BY <1>5, Zenon DEF Heap!Bytes
  <2>5. Heap!SumFunction(v) = SumFunctionOnSet(v, out)
    BY <2>4, Zenon DEF SumFunctionOnSet, FoldFunctionOnSet, MapThenFoldSet, Heap!SumFunction,
                       Heap!SumFunctionOnSet, Heap!FoldFunctionOnSet, Heap!MapThenFoldSet
  <2> QED
    BY <2>2, <2>3, <2>4, <2>5 DEF TotalSize
<1>8. Heap!Popped(Ones(K), FALSE, out) = Ones(K \ R)
  <2> DEFINE Of(j) == out \cap ({j} \X (1 .. Ones(K)[j]) \X {FALSE})
  <2>1. ASSUME NEW j \in Key PROVE Ones(K)[j] - Heap!Cardinality(Of(j)) = IF j \in K \ R THEN 1 ELSE 0
    <3>0. Heap!Cardinality(Of(j)) = Cardinality(Of(j))
      BY Zenon DEF Heap!Cardinality, Cardinality
    <3>1. Ones(K)[j] = IF j \in K THEN 1 ELSE 0
      BY DEF Ones
    <3>2. CASE j \in R
      <4>1. PICK e \in out : e[1] = j
        BY <1>3, <3>2
      <4>2. e = <<j, 1, FALSE>> /\ j \in K
        BY <1>1, <4>1
      <4>3. 1 \in 1 .. Ones(K)[j]
        BY <3>1, <4>2
      <4>4. e \in Of(j)
        BY <4>2, <4>3
      <4>5. \A d \in Of(j) : d = e
        <5>1. \A d \in Of(j) : d \in out /\ d[1] = j
          OBVIOUS
        <5> QED
          BY <1>4, <4>1, <5>1
      <4>6. Of(j) = {e}
        BY <4>4, <4>5, Zenon
      <4>7. Cardinality(Of(j)) = 1
        BY <4>6, FS_Singleton
      <4> HIDE DEF Of
      <4> QED
        BY <3>0, <3>1, <3>2, <4>2, <4>7
    <3>3. CASE j \notin R
      <4>1. \A d \in Of(j) : d \in out /\ d[1] = j
        OBVIOUS
      <4>2. Of(j) = {}
        BY <1>3, <3>3, <4>1, Zenon
      <4>3. Cardinality(Of(j)) = 0
        BY <4>2, FS_EmptySet
      <4> HIDE DEF Of
      <4> QED
        BY <3>0, <3>1, <3>3, <4>3
    <3> QED
      BY <3>2, <3>3
  <2>2. Heap!Popped(Ones(K), FALSE, out) = [j \in Key |-> Ones(K)[j] - Heap!Cardinality(Of(j))]
    BY Zenon DEF Heap!Popped
  <2> HIDE DEF Of
  <2> QED
    BY <2>1, <2>2 DEF Ones
<1> QED
  BY <1>2, <1>3, <1>7, <1>8 DEF StandFor

LEMMA HeapOutcome ==
    ASSUME NEW p, NEW K, HeapHolds(p, K), ~p.crashed, NEW k \in Key \ K, NEW o \in Heap!OnStore(p, k)
    PROVE  \/ ~o.stored /\ HeapHolds(o.pol, K)
           \/ Comes(o, K, k) /\ HeapHolds(o.pol, (K \ o.removed) \cup {k})
<1>0. /\ {"cached", "copies", "free", "crashed"} \subseteq DOMAIN p /\ p.cached = K /\ Leaves(p.free, K)
      /\ K \in KeySet /\ p.free \in Nat /\ p.free + TotalSize(K) = MaxSize
      /\ Size[k] \in Nat /\ TotalSize(K) \in Nat /\ p.copies = Ones(K)
  BY SizeFacts, SegmentAssumption DEF HeapHolds, Leaves
<1>1. HeapStores(o, p, k)
  BY HeapStored, Zenon
<1>2. CASE (o.pol = p \/ o.pol = [p EXCEPT !.crashed = TRUE]) /\ ~o.stored
  <2>1. o.pol = p \/ HeapAlike(p, o.pol)
    BY <1>2, Zenon DEF HeapAlike
  <2> QED
    BY <1>2, <2>1, HeapOtherField, Zenon
<1>3. CASE ~((o.pol = p \/ o.pol = [p EXCEPT !.crashed = TRUE]) /\ ~o.stored)
  <2>0. PICK out :
          /\ out \subseteq Heap!Entries(p.copies, FALSE)
          /\ \/ o.pol = Restored(p, out) /\ ~o.stored
             \/ /\ \E x, y : /\ o.pol = Replaced(p, out, y, x, k)
                             /\ x = p.free + Heap!Bytes(out) - Size[k]
                             /\ y = Heap!Pushed(Heap!Popped(p.copies, FALSE, out), {k})
                /\ o.stored /\ o.removed = Heap!KeysOf(out) /\ Makes(p, out, Size[k])
    BY <1>1, <1>3, Zenon DEF HeapStores
  <2>1. StandFor(out, K)
    BY <1>0, <2>0, OneEach
  <2>2. PICK R : R = Heap!KeysOf(out)
    OBVIOUS
  <2>3. /\ R \in SUBSET K /\ Heap!Bytes(out) = TotalSize(R)
        /\ Heap!Popped(p.copies, FALSE, out) = Ones(K \ R)
    BY <1>0, <2>1, <2>2, Zenon DEF StandFor
  <2>4. CASE o.pol = Restored(p, out) /\ ~o.stored
    <3>1. K \cup R = K
      BY <2>3
    <3>2. o.pol = [p EXCEPT !.cached = K]
      BY <1>0, <2>2, <2>4, <3>1, Zenon DEF Restored
    <3>3. HeapHolds(o.pol, K)
      BY <1>0, <3>2 DEF HeapHolds
    <3> QED
      BY <2>4, <3>3
  <2>5. CASE /\ \E x, y : /\ o.pol = Replaced(p, out, y, x, k)
                          /\ x = p.free + Heap!Bytes(out) - Size[k]
                          /\ y = Heap!Pushed(Heap!Popped(p.copies, FALSE, out), {k})
             /\ o.stored /\ o.removed = Heap!KeysOf(out) /\ Makes(p, out, Size[k])
    <3>1. PICK x, y : /\ o.pol = Replaced(p, out, y, x, k)
                      /\ x = p.free + Heap!Bytes(out) - Size[k]
                      /\ y = Heap!Pushed(Heap!Popped(p.copies, FALSE, out), {k})
      BY <2>5
    <3>2. x = p.free + TotalSize(R) - Size[k] /\ y = Heap!Pushed(Ones(K \ R), {k})
      BY <2>3, <3>1, Zenon
    <3>3. p.free + TotalSize(R) >= Size[k]
      BY <2>3, <2>5, Zenon DEF Makes
    <3>4. Leaves(x, (K \ R) \cup {k})
      BY <1>0, <2>3, <3>2, <3>3, RoomMade, Zenon
    <3>5. y = Ones((K \ R) \cup {k})
      <4>1. y = [j \in Key |-> IF j \in {k} THEN Ones(K \ R)[j] + 1 ELSE Ones(K \ R)[j]]
        BY <3>2, Zenon DEF Heap!Pushed
      <4> QED
        BY <4>1 DEF Ones
    <3>6. o.pol = [p EXCEPT !.cached = (K \ R) \cup {k}, !.copies = y, !.free = x]
      BY <1>0, <2>2, <3>1 DEF Replaced
    <3>7. /\ o.pol.cached = (K \ R) \cup {k} /\ o.pol.copies = y /\ o.pol.free = x
          /\ DOMAIN o.pol = DOMAIN p
      BY <1>0, <3>6
    <3>8. HeapHolds(o.pol, (K \ R) \cup {k})
      BY <1>0, <3>4, <3>5, <3>7 DEF HeapHolds
    <3>9. ASSUME R # {} PROVE TotalSize(K) + Size[k] > MaxSize
      <4>1. out # {}
        BY <2>2, <3>9 DEF Heap!KeysOf
      <4>2. PICK e \in out : p.free + Heap!Bytes(out \ {e}) < Size[k]
        BY <2>5, <4>1, Zenon DEF Makes
      <4>3. PICK d : d = out \ {e}
        OBVIOUS
      <4>4. d \subseteq Heap!Entries(Ones(K), FALSE)
        BY <1>0, <2>0, <4>3
      <4>5. StandFor(d, K)
        BY <1>0, <4>4, OneEach
      <4>6. Heap!KeysOf(d) \in SUBSET K /\ Heap!Bytes(d) = TotalSize(Heap!KeysOf(d))
        BY <4>5, Zenon DEF StandFor
      <4>7. TotalSize(Heap!KeysOf(d)) \in Nat
        <5>1. \A Q \in SUBSET K : TotalSize(Q) \in Nat
          BY <1>0, SizeFacts
        <5> QED
          BY <4>6, <5>1, Zenon
      <4>8. p.free + Heap!Bytes(d) < Size[k]
        BY <4>2, <4>3
      <4> QED
        BY <1>0, <4>6, <4>7, <4>8
    <3>a. R = o.removed /\ o.stored /\ R \subseteq K
      BY <2>2, <2>3, <2>5
    <3> QED
      BY <3>4, <3>8, <3>9, <3>a, Zenon DEF Comes
  <2> QED
    BY <2>0, <2>4, <2>5
<1> QED
  BY <1>2, <1>3

(* The least recently used.                                                *)
Entry == [key : Key, indexed : BOOLEAN]
Once(s) == \A i, j \in DOMAIN s : s[i].key = s[j].key => i = j
Named(s) == {s[i].key : i \in DOMAIN s}
LRUHolds(p, K) ==
    /\ p \in [usage : Seq(Entry), free : Nat, crashed : {FALSE}]
    /\ Once(p.usage) /\ Named(p.usage) = K /\ Leaves(p.free, K)

(* The keys from place m to the end.                                       *)
From(u, m) == {u[i].key : i \in m .. Len(u)}

LEMMA BackIsFrom ==
    ASSUME NEW p, NEW u \in Seq(Entry), p.usage = u, Once(u), NEW n \in 0 .. Len(u)
    PROVE  LRU!BytesAtBack(p, n) = TotalSize(From(u, Len(u) - n + 1))
<1>1. PICK L \in Nat : L = Len(u) /\ DOMAIN u = 1 .. L
  OBVIOUS
<1>2. PICK I : I = (L - n + 1) .. L
  OBVIOUS
<1>3. PICK g : g = [i \in I |-> u[i].key]
  OBVIOUS
<1>4. PICK v : v = [i \in I |-> Size[u[i].key]]
  OBVIOUS
<1>5. I \in SUBSET (1 .. L)
  BY <1>1, <1>2
<1>6. IsFiniteSet(I)
  BY <1>5, PlacesAreFinite
<1>7. \A i \in I : u[i].key \in Key
  <2>1. \A i \in I : u[i] \in Entry
    BY <1>1, <1>5
  <2>2. \A e \in Entry : e.key \in Key
    BY DEF Entry
  <2> QED
    BY <2>1, <2>2
<1>8. \A i \in I : v[i] = Size[g[i]] /\ v[i] \in Nat
  BY <1>3, <1>4, <1>7, SegmentAssumption
<1>9. \A i, j \in I : g[i] = g[j] => i = j
  BY <1>1, <1>3, <1>5 DEF Once
<1>a. SumFunctionOnSet(v, I) = SumFunctionOnSet(Size, {g[i] : i \in I})
  BY <1>6, <1>8, <1>9, SumPlaces
<1>b. {g[i] : i \in I} = From(u, Len(u) - n + 1)
  BY <1>1, <1>2, <1>3 DEF From
<1>c. LRU!BytesAtBack(p, n) = LRU!SumFunction(v)
  BY <1>1, <1>2, <1>4, Zenon DEF LRU!BytesAtBack
<1>d. DOMAIN v = I
  BY <1>4
<1>e. LRU!SumFunction(v) = SumFunctionOnSet(v, I)
  BY <1>d, Zenon DEF SumFunctionOnSet, FoldFunctionOnSet, MapThenFoldSet, LRU!SumFunction,
                     LRU!SumFunctionOnSet, LRU!FoldFunctionOnSet, LRU!MapThenFoldSet
<1> QED
  BY <1>a, <1>b, <1>c, <1>e DEF TotalSize

(* c is a and then b.                                                      *)
IsJoin(c, a, b, S) ==
    /\ c \in Seq(S) /\ Len(c) = Len(a) + Len(b)
    /\ \A n \in 1 .. Len(a) : c[n] = a[n]
    /\ \A n \in 1 .. Len(b) : c[Len(a) + n] = b[n]
LEMMA Joined ==
    ASSUME NEW S, NEW a \in Seq(S), NEW b \in Seq(S)
    PROVE  IsJoin(a \o b, a, b, S)
  BY DEF IsJoin

(* The elements of u in another order.                                     *)
Reorders(w, u, t, L) ==
    /\ t \in [1 .. L -> 1 .. L] /\ \A n \in 1 .. L : w[n] = u[t[n]]
    /\ \A n, m \in 1 .. L : t[n] = t[m] => n = m
    /\ \A m \in 1 .. L : \E n \in 1 .. L : t[n] = m

(* The element at place x to the front.                                    *)
Moved(w, u, L, S) == w \in Seq(S) /\ Len(w) = L /\ \E t : Reorders(w, u, t, L)
LEMMA ToFront ==
    ASSUME NEW S, NEW L \in Nat, NEW u \in Seq(S), L = Len(u), NEW x \in 1 .. L, NEW w,
           w = <<u[x]>> \o (SubSeq(u, 1, x - 1) \o SubSeq(u, x + 1, L))
    PROVE  Moved(w, u, L, S)
<1>1. PICK y, z, a, b : y = SubSeq(u, 1, x - 1) /\ z = SubSeq(u, x + 1, L) /\ a = <<u[x]>> /\ b = y \o z
  OBVIOUS
<1>2. y \in Seq(S) /\ Len(y) = x - 1 /\ \A j \in 1 .. x - 1 : y[j] = u[j]
  BY <1>1
<1>3. z \in Seq(S) /\ Len(z) = L - x /\ \A j \in 1 .. L - x : z[j] = u[x + j]
  BY <1>1
<1>4. a \in Seq(S) /\ Len(a) = 1 /\ a[1] = u[x]
  BY <1>1
<1>5. /\ b \in Seq(S) /\ Len(b) = Len(y) + Len(z)
      /\ \A n \in 1 .. Len(y) : b[n] = y[n]
      /\ \A n \in 1 .. Len(z) : b[Len(y) + n] = z[n]
  <2>1. IsJoin(b, y, z, S)
    BY <1>1, <1>2, <1>3, Joined, Zenon
  <2> QED
    BY <2>1, Zenon DEF IsJoin
<1>6. w = a \o b
  BY <1>1
<1>7. /\ w \in Seq(S) /\ Len(w) = Len(a) + Len(b)
      /\ \A n \in 1 .. Len(a) : w[n] = a[n]
      /\ \A n \in 1 .. Len(b) : w[Len(a) + n] = b[n]
  <2>1. IsJoin(w, a, b, S)
    BY <1>4, <1>5, <1>6, Joined, Zenon
  <2> QED
    BY <2>1, Zenon DEF IsJoin
<1>8. Len(b) = L - 1 /\ Len(w) = L
  BY ONLY <1>2, <1>3, <1>4, <1>5, <1>7, L \in Nat, x \in 1 .. L
<1>9. w[1] = u[x]
  BY <1>4, <1>7
<1>a. ASSUME NEW n \in 2 .. x PROVE w[n] = u[n - 1]
  <2>1. n - 1 \in 1 .. Len(b) /\ n - 1 \in 1 .. Len(y) /\ n - 1 \in 1 .. x - 1
    BY <1>2, <1>8
  <2>2. w[Len(a) + (n - 1)] = b[n - 1] /\ b[n - 1] = y[n - 1] /\ y[n - 1] = u[n - 1]
    BY <1>2, <1>5, <1>7, <2>1
  <2>3. Len(a) + (n - 1) = n
    BY <1>4
  <2> QED
    BY <2>2, <2>3
<1>b. ASSUME NEW n \in x + 1 .. L PROVE w[n] = u[n]
  <2>1. n - 1 \in 1 .. Len(b) /\ n - x \in 1 .. Len(z) /\ n - x \in 1 .. L - x
    BY <1>3, <1>8
  <2>2. w[Len(a) + (n - 1)] = b[n - 1] /\ b[Len(y) + (n - x)] = z[n - x] /\ z[n - x] = u[x + (n - x)]
    BY <1>3, <1>5, <1>7, <2>1
  <2>3. Len(a) + (n - 1) = n /\ Len(y) + (n - x) = n - 1 /\ x + (n - x) = n
    BY <1>2, <1>4
  <2> QED
    BY <2>2, <2>3
<1> DEFINE t == [n \in 1 .. L |-> IF n = 1 THEN x ELSE IF n <= x THEN n - 1 ELSE n]
<1>c. t \in [1 .. L -> 1 .. L]
  OBVIOUS
<1>d. \A n \in 1 .. L : w[n] = u[t[n]]
  <2>1. ASSUME NEW n \in 1 .. L PROVE w[n] = u[t[n]]
    <3>1. CASE n = 1
      BY <1>9, <3>1
    <3>2. CASE n # 1 /\ n <= x
      <4>1. n \in 2 .. x /\ t[n] = n - 1
        BY <3>2
      <4> QED
        BY <1>a, <4>1
    <3>3. CASE n # 1 /\ ~(n <= x)
      <4>1. n \in x + 1 .. L /\ t[n] = n
        BY <3>3
      <4> QED
        BY <1>b, <4>1
    <3> QED
      BY <3>1, <3>2, <3>3
  <2> QED
    BY <2>1
<1>e. \A n, m \in 1 .. L : t[n] = t[m] => n = m
  OBVIOUS
<1>f. ASSUME NEW m \in 1 .. L PROVE \E n \in 1 .. L : t[n] = m
  <2>1. CASE m = x
    <3>1. 1 \in 1 .. L /\ t[1] = m
      BY <2>1
    <3> QED
      BY <3>1
  <2>2. CASE m < x
    <3>1. m + 1 \in 1 .. L /\ t[m + 1] = m
      BY <2>2
    <3> QED
      BY <3>1
  <2>3. CASE m > x
    <3>1. m \in 1 .. L /\ t[m] = m
      BY <2>3
    <3> QED
      BY <3>1
  <2> QED
    BY <2>1, <2>2, <2>3
<1> HIDE DEF t
<1>g. Reorders(w, u, t, L)
  BY <1>c, <1>d, <1>e, <1>f DEF Reorders
<1> QED
  BY <1>7, <1>8, <1>g, Zenon DEF Moved

LEMMA ReorderedKeys ==
    ASSUME NEW L \in Nat, NEW u \in Seq(Entry), L = Len(u), NEW w \in Seq(Entry), Len(w) = L,
           NEW t, Reorders(w, u, t, L), Once(u)
    PROVE  Once(w) /\ Named(w) = Named(u)
<1>1. DOMAIN u = 1 .. L /\ DOMAIN w = 1 .. L
  OBVIOUS
<1>0. \A i \in 1 .. L : t[i] \in 1 .. L
  BY DEF Reorders
<1>2. Once(w)
  <2>1. SUFFICES ASSUME NEW i \in 1 .. L, NEW j \in 1 .. L, w[i].key = w[j].key PROVE i = j
    BY <1>1, Zenon DEF Once
  <2>2. w[i] = u[t[i]] /\ w[j] = u[t[j]] /\ t[i] \in 1 .. L /\ t[j] \in 1 .. L
    BY <1>0, Zenon DEF Reorders
  <2>3. t[i] = t[j]
    BY <1>1, <2>1, <2>2, Zenon DEF Once
  <2> QED
    BY <2>3, Zenon DEF Reorders
<1>3. \A i \in 1 .. L : w[i].key = u[t[i]].key
  BY Zenon DEF Reorders
<1>4. \A i \in 1 .. L : \E j \in 1 .. L : t[j] = i
  BY Zenon DEF Reorders
<1>5. {w[i].key : i \in 1 .. L} = {u[i].key : i \in 1 .. L}
  <2>1. ASSUME NEW i \in 1 .. L PROVE w[i].key \in {u[j].key : j \in 1 .. L}
    BY <1>0, <1>3, Zenon
  <2>2. ASSUME NEW i \in 1 .. L PROVE u[i].key \in {w[j].key : j \in 1 .. L}
    <3>1. PICK j \in 1 .. L : t[j] = i
      BY <1>4
    <3>2. w[j].key = u[i].key
      BY <1>3, <3>1, Zenon
    <3> QED
      BY <3>1, <3>2, Zenon
  <2> QED
    BY <2>1, <2>2, Zenon
<1> QED
  BY <1>1, <1>2, <1>5, Zenon DEF Named

(* A hit reorders.                                                         *)
LEMMA LRUMoved ==
    ASSUME NEW p, NEW K, LRUHolds(p, K), NEW k
    PROVE  LRUHolds(LRU!OnLoad(p, k), K)
<1>0. PICK u : u = p.usage
  OBVIOUS
<1>a. u \in Seq(Entry) /\ Once(u) /\ Named(u) = K
  BY <1>0 DEF LRUHolds
<1> DEFINE at == {i \in DOMAIN u : u[i].key = k /\ u[i].indexed}
<1> DEFINE i == CHOOSE j \in at : TRUE
<1> DEFINE w == <<u[i]>> \o LRU!RemoveAt(u, i)
<1>1. LRU!OnLoad(p, k) = [p EXCEPT !.usage = IF at = {} THEN u ELSE w]
  BY <1>0, Zenon DEF LRU!OnLoad
<1>2. CASE at = {}
  <2>1. LRU!OnLoad(p, k) = p
    BY <1>0, <1>1, <1>2 DEF LRUHolds
  <2> QED
    BY <2>1
<1>3. CASE at # {}
  <2>0. PICK L \in Nat : L = Len(u) /\ DOMAIN u = 1 .. L
    BY <1>a
  <2>1. i \in at
    BY <1>3, Zenon
  <2>2. PICK x \in 1 .. L : x = i
    BY <2>0, <2>1
  <2>3. PICK v : v = <<u[x]>> \o (SubSeq(u, 1, x - 1) \o SubSeq(u, x + 1, L))
    OBVIOUS
  <2>4. w = v
    BY <2>0, <2>2, <2>3, Zenon DEF LRU!RemoveAt, LRU!SubSeq, SubSeq
  <2>5. PICK q : q = [p EXCEPT !.usage = v]
    OBVIOUS
  <2>6. LRU!OnLoad(p, k) = q
    BY <1>1, <1>3, <2>4, <2>5
  <2>7. v \in Seq(Entry) /\ Len(v) = L /\ \E t : Reorders(v, u, t, L)
    <3>1. Moved(v, u, L, Entry)
      BY <1>a, <2>0, <2>3, ToFront, Zenon
    <3> QED
      BY <3>1, Zenon DEF Moved
  <2>8. Once(v) /\ Named(v) = Named(u)
    BY <1>a, <2>0, <2>7, ReorderedKeys, Zenon
  <2>9. Named(v) = K
    BY <1>a, <2>8, Zenon
  <2> HIDE DEF w, i, at
  <2>a. /\ q \in [usage : Seq(Entry), free : Nat, crashed : {FALSE}]
        /\ q.usage = v /\ q.free = p.free /\ Leaves(p.free, K)
    BY <2>5, <2>7 DEF LRUHolds
  <2>b. Once(q.usage) /\ Named(q.usage) = K /\ Leaves(q.free, K)
    BY <2>8, <2>9, <2>a, Zenon
  <2> QED
    BY <2>6, <2>a, <2>b, Zenon DEF LRUHolds
<1> QED
  BY <1>2, <1>3

(* A store evicts from the back until k fits, and puts it in front.        *)
InFront(w, u, l, e) ==
    w \in Seq(Entry) /\ Once(w) /\ Named(w) = (Named(u) \ From(u, l + 1)) \cup {e.key}
LEMMA FrontKeys ==
    ASSUME NEW L \in Nat, NEW u \in Seq(Entry), L = Len(u), Once(u), NEW l \in 0 .. L, NEW e \in Entry,
           e.key \notin Named(u), NEW v \in Seq(Entry), Len(v) = l, \A i \in 1 .. l : v[i].key = u[i].key,
           NEW w, w = <<e>> \o v
    PROVE  InFront(w, u, l, e)
<1>0. DOMAIN u = 1 .. L /\ DOMAIN v = 1 .. l
  OBVIOUS
<1>1. <<e>> \in Seq(Entry) /\ Len(<<e>>) = 1 /\ <<e>>[1] = e
  OBVIOUS
<1>2. IsJoin(w, <<e>>, v, Entry)
  BY <1>1, Joined, Zenon
<1>3. w \in Seq(Entry) /\ DOMAIN w = 1 .. l + 1 /\ w[1] = e /\ \A i \in 1 .. l : w[1 + i] = v[i]
  <2>1. /\ w \in Seq(Entry) /\ Len(w) = 1 + l /\ \A n \in 1 .. 1 : w[n] = <<e>>[n]
        /\ \A n \in 1 .. l : w[1 + n] = v[n]
    BY <1>1, <1>2 DEF IsJoin
  <2>2. \A s \in Seq(Entry) : DOMAIN s = 1 .. Len(s)
    OBVIOUS
  <2>3. 1 \in 1 .. 1 /\ 1 .. 1 + l = 1 .. l + 1
    OBVIOUS
  <2> QED
    BY <1>1, <2>1, <2>2, <2>3, Zenon
<1>4. ASSUME NEW i \in 1 .. l + 1, i # 1
      PROVE  i - 1 \in 1 .. l /\ i - 1 \in 1 .. L /\ w[i].key = u[i - 1].key
  <2>1. i - 1 \in 1 .. l /\ i - 1 \in 1 .. L /\ 1 + (i - 1) = i
    BY ONLY <1>4, l \in 0 .. L, L \in Nat, i \in 1 .. l + 1
  <2>2. w[1 + (i - 1)] = v[i - 1] /\ v[i - 1].key = u[i - 1].key
    BY <1>3, <2>1, Zenon
  <2> QED
    BY <2>1, <2>2, Zenon
<1>5. \A i \in 1 .. L : u[i].key # e.key
  BY <1>0, Zenon DEF Named
<1>6. Once(w)
  <2>1. SUFFICES ASSUME NEW i \in 1 .. l + 1, NEW j \in 1 .. l + 1, w[i].key = w[j].key PROVE i = j
    BY <1>3, Zenon DEF Once
  <2>a. ASSUME NEW n \in 1 .. l + 1, n # 1 PROVE w[n].key # w[1].key
    <3>1. n - 1 \in 1 .. L /\ w[n].key = u[n - 1].key
      BY <1>4, <2>a, Zenon
    <3> QED
      BY <1>3, <1>5, <3>1, Zenon
  <2>2. CASE i = 1 \/ j = 1
    BY <2>1, <2>2, <2>a, Zenon
  <2>3. CASE i # 1 /\ j # 1
    <3>0. /\ i - 1 \in 1 .. L /\ w[i].key = u[i - 1].key
          /\ j - 1 \in 1 .. L /\ w[j].key = u[j - 1].key
      BY <1>4, <2>3, Zenon
    <3>1. i - 1 = j - 1
      BY <1>0, <2>1, <3>0, Zenon DEF Once
    <3> QED
      BY <3>1
  <2> QED
    BY <2>2, <2>3
<1>7. \A i \in 1 .. L : u[i].key \in From(u, l + 1) <=> i > l
  <2>1. ASSUME NEW i \in 1 .. L, i > l PROVE u[i].key \in From(u, l + 1)
    <3>1. i \in l + 1 .. Len(u)
      BY <2>1
    <3> QED
      BY <3>1, Zenon DEF From
  <2>2. ASSUME NEW i \in 1 .. L, u[i].key \in From(u, l + 1) PROVE i > l
    <3>1. PICK j \in l + 1 .. Len(u) : u[j].key = u[i].key
      BY <2>2, Zenon DEF From
    <3>2. j \in 1 .. L /\ j > l
      BY <3>1
    <3>3. j = i
      BY <1>0, <3>1, <3>2, Zenon DEF Once
    <3> QED
      BY <3>2, <3>3
  <2> QED
    BY <2>1, <2>2
<1>8. Named(w) = (Named(u) \ From(u, l + 1)) \cup {e.key}
  <2>1. ASSUME NEW x \in Named(w) PROVE x \in (Named(u) \ From(u, l + 1)) \cup {e.key}
    <3>1. PICK i \in 1 .. l + 1 : x = w[i].key
      BY <1>3, <2>1, Zenon DEF Named
    <3>2. CASE i = 1
      BY <1>3, <3>1, <3>2
    <3>3. CASE i # 1
      <4>1. i - 1 \in 1 .. L /\ x = u[i - 1].key /\ i - 1 \in 1 .. l
        BY <1>4, <3>1, <3>3, Zenon
      <4>2. ~(i - 1 > l)
        BY <4>1
      <4>3. x \in Named(u) /\ x \notin From(u, l + 1)
        BY <1>0, <1>7, <4>1, <4>2, Zenon DEF Named
      <4> QED
        BY <4>3, Zenon
    <3> QED
      BY <3>2, <3>3
  <2>2. e.key \in Named(w)
    <3>1. 1 \in 1 .. l + 1
      OBVIOUS
    <3> QED
      BY <1>3, <3>1, Zenon DEF Named
  <2>3. ASSUME NEW x \in Named(u), x \notin From(u, l + 1) PROVE x \in Named(w)
    <3>1. PICK i \in 1 .. L : x = u[i].key
      BY <1>0, <2>3, Zenon DEF Named
    <3>2. ~(i > l)
      BY <1>7, <2>3, <3>1, Zenon
    <3>3. i \in 1 .. l /\ 1 + i \in 1 .. l + 1
      BY <3>2
    <3>4. w[1 + i].key = x
      BY <1>3, <3>1, <3>3, Zenon
    <3> QED
      BY <1>3, <3>3, <3>4, Zenon DEF Named
  <2> QED
    BY <2>1, <2>2, <2>3, Zenon
<1> QED
  BY <1>3, <1>6, <1>8, Zenon DEF InFront

LEMMA LRUOutcome ==
    ASSUME NEW p, NEW K, LRUHolds(p, K), NEW k \in Key \ K, NEW o \in LRU!OnStore(p, k)
    PROVE  \/ ~o.stored /\ LRUHolds(o.pol, K)
           \/ Comes(o, K, k) /\ LRUHolds(o.pol, (K \ o.removed) \cup {k})
<1>0. PICK u : u = p.usage
  OBVIOUS
<1>1. /\ u \in Seq(Entry) /\ Once(u) /\ Named(u) = K /\ Leaves(p.free, K)
      /\ p \in [usage : Seq(Entry), free : Nat, crashed : {FALSE}]
  BY <1>0 DEF LRUHolds
<1>2. PICK L \in Nat : L = Len(u) /\ DOMAIN u = 1 .. L
  BY <1>1
<1>3. /\ K \in KeySet /\ p.free \in Nat /\ p.free + TotalSize(K) = MaxSize
      /\ Size[k] \in Nat /\ TotalSize(K) \in Nat /\ MaxSize \in Nat
  BY <1>1, SizeFacts, SegmentAssumption DEF Leaves
<1>4. CASE Size[k] > MaxSize
  <2>1. o = [pol |-> p, stored |-> FALSE, removed |-> {}]
    BY <1>4, Zenon DEF LRU!OnStore
  <2>2. ~o.stored /\ o.pol = p
    BY <2>1
  <2> QED
    BY <2>2
<1>5. CASE ~(Size[k] > MaxSize)
  <2> DEFINE Room(m) == p.free + LRU!BytesAtBack(p, m) >= Size[k]
  <2> DEFINE n == CHOOSE m \in 0 .. Len(p.usage) : Room(m) /\ \A l \in 0 .. (m - 1) : ~Room(l)
  <2> DEFINE last == Len(p.usage) - n
  <2> DEFINE removed == {p.usage[i].key : i \in (last + 1) .. Len(p.usage)}
  <2> DEFINE kept == [i \in 1 .. last |->
                        [p.usage[i] EXCEPT !.indexed = @ /\ p.usage[i].key \notin removed]]
  <2> DEFINE index == \A i \in 1 .. last : kept[i].key = k => ~kept[i].indexed
  <2>1. o = [pol |-> [p EXCEPT !.usage = <<[key |-> k, indexed |-> index]>> \o kept,
                               !.free = p.free + LRU!BytesAtBack(p, n) - Size[k]],
             stored |-> TRUE, removed |-> removed]
    BY <1>5, Zenon DEF LRU!OnStore, LRU!Fits, LRU!FreeAfter
  <2>2. \A m \in 0 .. L : LRU!BytesAtBack(p, m) = TotalSize(From(u, L - m + 1))
    BY <1>0, <1>1, <1>2, BackIsFrom, Zenon
  <2>3. From(u, 1) = K /\ From(u, L + 1) = {}
    BY <1>1, <1>2 DEF From, Named
  <2>4. TotalSize({}) = 0
    BY SumEmpty DEF TotalSize
  <2>5. \A m \in 0 .. L : From(u, L - m + 1) \in SUBSET K
    BY <1>1, <1>2 DEF From, Named
  <2>6. \E m \in 0 .. Len(p.usage) : Room(m) /\ \A l \in 0 .. (m - 1) : ~Room(l)
    <3> DEFINE T == {m \in 0 .. L : Room(m)}
    <3>1. L \in 0 .. L /\ L - L + 1 = 1
      OBVIOUS
    <3>2. LRU!BytesAtBack(p, L) = TotalSize(K)
      BY <2>2, <2>3, <3>1, Zenon
    <3>3. Room(L)
      BY <1>3, <1>5, <3>2
    <3>4. T \in SUBSET Nat /\ T # {}
      <4> HIDE DEF Room
      <4> QED
        BY <3>1, <3>3
    <3> HIDE DEF T, Room
    <3>5. PICK m \in T : \A l \in T : ~(l < m)
      BY <3>4, Least
    <3>6. m \in 0 .. L /\ Room(m)
      BY <3>5 DEF T
    <3>7. \A l \in 0 .. (m - 1) : ~Room(l)
      <4>1. \A l \in 0 .. (m - 1) : l \in 0 .. L /\ l < m
        BY <3>6
      <4> QED
        BY <3>5, <4>1, Zenon DEF T
    <3> QED
      BY <1>0, <1>2, <3>6, <3>7, Zenon
  <2>7. n \in 0 .. Len(p.usage) /\ Room(n) /\ \A l \in 0 .. (n - 1) : ~Room(l)
    <3> HIDE DEF Room
    <3> QED
      BY <2>6, Zenon
  <2>8. PICK N \in 0 .. L : N = n
    BY <1>0, <1>2, <2>7
  <2>9. PICK R : R = From(u, L - N + 1)
    OBVIOUS
  <2>a. removed = R
    <3>1. removed = From(u, last + 1)
      BY <1>0, Zenon DEF From
    <3>2. last = L - N
      BY <1>0, <1>2, <2>8
    <3> HIDE DEF last, removed, n
    <3> QED
      BY <2>9, <3>1, <3>2
  <2>b. R \in SUBSET K /\ LRU!BytesAtBack(p, n) = TotalSize(R) /\ p.free + TotalSize(R) >= Size[k]
    BY <2>2, <2>5, <2>7, <2>8, <2>9
  <2>c. PICK b, v, l : b = index /\ v = kept /\ l = last
    OBVIOUS
  <2>d. PICK e, w : e = [key |-> k, indexed |-> b] /\ w = <<e>> \o v
    OBVIOUS
  <2>e. b \in BOOLEAN /\ l = L - N /\ l \in 0 .. L
    <3>1. b \in BOOLEAN
      BY <2>c, Zenon
    <3>2. l = L - N
      BY <1>0, <1>2, <2>8, <2>c
    <3> QED
      BY <3>1, <3>2
  <2>f. v = [i \in 1 .. l |-> [u[i] EXCEPT !.indexed = @ /\ u[i].key \notin R]]
    <3> HIDE DEF last, removed, n
    <3> QED
      BY <1>0, <2>a, <2>c
  <2>g. PICK x : x = p.free + TotalSize(R) - Size[k]
    OBVIOUS
  <2>h. o = [pol |-> [p EXCEPT !.usage = w, !.free = x], stored |-> TRUE, removed |-> R]
    <3> HIDE DEF index, kept, removed, last, n
    <3> QED
      BY <2>1, <2>a, <2>b, <2>c, <2>d, <2>g
  <2> HIDE DEF index, kept, removed, last, n, Room
  <2>i. \A i \in 1 .. l : v[i] \in Entry /\ v[i].key = u[i].key
    <3>1. \A i \in 1 .. l : u[i] \in Entry
      BY <1>1, <1>2, <2>e
    <3>2. \A y \in Entry : \A z \in BOOLEAN : [y EXCEPT !.indexed = z] \in Entry /\ [y EXCEPT !.indexed = z].key = y.key
      BY DEF Entry
    <3>3. ASSUME NEW i \in 1 .. l PROVE v[i] \in Entry /\ v[i].key = u[i].key
      <4>1. PICK y \in Entry : y = u[i]
        BY <3>1
      <4>2. PICK z \in BOOLEAN : z = (y.indexed /\ y.key \notin R)
        BY Zenon
      <4>3. v[i] = [y EXCEPT !.indexed = z]
        BY <2>f, <4>1, <4>2
      <4> QED
        BY <3>2, <4>1, <4>3
    <3> QED
      BY <3>3
  <2>j. v \in Seq(Entry) /\ Len(v) = l
    <3>0. l \in Nat
      BY <2>e
    <3>a. DOMAIN v = 1 .. l /\ v = [i \in DOMAIN v |-> v[i]]
      BY <2>f
    <3>b. \A i \in DOMAIN v : v[i] \in Entry
      BY <2>i, <3>a, Zenon
    <3>1. v \in [1 .. l -> Entry] /\ l \in Nat
      BY <3>0, <3>a, <3>b, Zenon
    <3> QED
      BY <3>1
  <2>k. e \in Entry /\ e.key = k /\ k \notin Named(u)
    BY <1>1, <2>d, <2>e DEF Entry
  <2>l. w \in Seq(Entry) /\ Once(w) /\ Named(w) = (Named(u) \ From(u, l + 1)) \cup {e.key}
    <3>1. e.key \notin Named(u) /\ \A i \in 1 .. l : v[i].key = u[i].key
      BY <2>i, <2>k
    <3>2. InFront(w, u, l, e)
      BY <1>1, <1>2, <2>d, <2>e, <2>j, <2>k, <3>1, FrontKeys, Zenon
    <3> QED
      BY <3>2, Zenon DEF InFront
  <2>m. Named(w) = (K \ R) \cup {k}
    BY <1>1, <2>9, <2>e, <2>k, <2>l
  <2>n. Leaves(x, (K \ R) \cup {k})
    BY <1>1, <2>b, <2>g, RoomMade, Zenon
  <2>o. PICK q : q = [p EXCEPT !.usage = w, !.free = x]
    OBVIOUS
  <2>p. q \in [usage : Seq(Entry), free : Nat, crashed : {FALSE}] /\ q.usage = w /\ q.free = x
    <3>1. x \in Nat
      BY <2>n DEF Leaves
    <3> QED
      BY <1>1, <2>l, <2>o, <3>1
  <2>q. LRUHolds(q, (K \ R) \cup {k})
    BY <2>l, <2>m, <2>n, <2>p, Zenon DEF LRUHolds
  <2>r. ASSUME R # {} PROVE TotalSize(K) + Size[k] > MaxSize
    <3>1. N # 0
      BY <2>3, <2>9, <2>r
    <3>2. 0 \in 0 .. (N - 1) /\ 0 \in 0 .. L /\ L - 0 + 1 = L + 1
      BY <3>1
    <3>3. ~Room(0) /\ LRU!BytesAtBack(p, 0) = 0
      BY <2>2, <2>3, <2>4, <2>7, <2>8, <3>2, Zenon
    <3> QED
      BY <1>3, <3>3 DEF Room
  <2>s. o.stored /\ o.removed = R /\ o.pol = q
    BY <2>h, <2>o
  <2>t. R \subseteq K
    BY <2>b
  <2> QED
    BY <2>n, <2>q, <2>r, <2>s, <2>t, Zenon DEF Comes
<1> QED
  BY <1>4, <1>5

(* The least frequently used: one element of each cached key.              *)
Element == [key : Key, freq : Nat, mapped : {TRUE}]
Listed(s, K) == s \in Seq(Element) /\ Once(s) /\ Named(s) = K
LFUState(q, K, f) ==
    /\ {"hits", "order", "minFreq", "free", "crashed"} \subseteq DOMAIN q
    /\ q.crashed \/ (q.hits \in [Key -> Nat] /\ Listed(q.order, K) /\ q.free = f)
LFUHolds(p, K) == LFUState(p, K, p.free) /\ (p.crashed \/ Leaves(p.free, K))

LEMMA ListedKeys == ASSUME NEW p, NEW K, Listed(p.order, K) PROVE LFU!Keys(p) = K
<1>1. PICK s : s = p.order
  OBVIOUS
<1>2. \A i \in DOMAIN s : s[i].mapped
  <2>1. \A i \in DOMAIN s : s[i] \in Element
    BY <1>1 DEF Listed
  <2>2. \A e \in Element : e.mapped
    BY DEF Element
  <2> QED
    BY <2>1, <2>2, Zenon
<1>3. {j \in DOMAIN s : s[j].mapped} = DOMAIN s
  BY <1>2, Zenon
<1>4. LFU!Keys(p) = {s[i].key : i \in DOMAIN s}
  BY <1>1, <1>3, Zenon DEF LFU!Keys
<1> QED
  BY <1>1, <1>4, Zenon DEF Listed, Named

LEMMA ListedWithout ==
    ASSUME NEW s, NEW K, Listed(s, K), NEW v
    PROVE  Listed(LFU!Without(s, v), K \ {v})
<1>1. PICK N \in Nat : N = Len(s) /\ DOMAIN s = 1 .. N /\ s \in [1 .. N -> Element]
  BY DEF Listed
<1>2. PICK P : P = {i \in DOMAIN s : ~(s[i].key = v /\ s[i].mapped)}
  OBVIOUS
<1>a. P = {i \in 1 .. N : s[i].key # v}
  <2>1. \A i \in 1 .. N : s[i] \in Element
    BY <1>1
  <2>2. \A e \in Element : e.mapped
    BY DEF Element
  <2> QED
    BY <1>1, <1>2, <2>1, <2>2, Zenon
<1>3. LFU!Without(s, v) = At(s, P)
  <2>1. LFU!At(s, P) = [n \in 1 .. Cardinality(P) |-> s[CHOOSE m \in P : Cardinality({l \in P : l <= m}) = n]]
    BY Zenon DEF LFU!At, LFU!Cardinality, Cardinality
  <2> QED
    BY <1>2, <2>1, Zenon DEF LFU!Without, At
<1>4. P \in SUBSET (1 .. N) /\ Maps(s, P, Element)
  <2>1. P \in SUBSET (1 .. N)
    BY <1>a
  <2>2. Maps(s, P, Element)
    BY <1>1, <2>1 DEF Maps
  <2> QED
    BY <2>1, <2>2
<1>5. PICK t : t = At(s, P)
  OBVIOUS
<1>6. t \in Seq(Element)
  BY <1>1, <1>4, <1>5, AtType
<1>7. {t[n] : n \in DOMAIN t} = {s[m] : m \in P} /\ (Distinct(s) => Distinct(t))
  <2>1. /\ {At(s, P)[n] : n \in DOMAIN At(s, P)} = {s[m] : m \in P}
        /\ Distinct(s) => Distinct(At(s, P))
    BY <1>1, <1>4, AtElements
  <2> QED
    BY <1>5, <2>1
<1>8. Distinct(s)
  BY Zenon DEF Listed, Once, Distinct
<1>9. ASSUME NEW i \in DOMAIN t PROVE \E m \in P : t[i] = s[m]
  BY <1>7, Zenon
<1>b. Once(t)
  <2>1. SUFFICES ASSUME NEW i \in DOMAIN t, NEW j \in DOMAIN t, t[i].key = t[j].key PROVE i = j
    BY Zenon DEF Once
  <2>2. PICK m \in P, l \in P : t[i] = s[m] /\ t[j] = s[l]
    BY <1>9
  <2>3. m \in DOMAIN s /\ l \in DOMAIN s
    BY <1>2, Zenon
  <2>4. m = l
    BY <2>1, <2>2, <2>3, Zenon DEF Listed, Once
  <2>5. t[i] = t[j]
    BY <2>2, <2>4
  <2> QED
    BY <1>7, <1>8, <2>5, Zenon DEF Distinct
<1>c. Named(t) = K \ {v}
  <2>1. K = {s[m].key : m \in 1 .. N}
    BY <1>1, Zenon DEF Listed, Named
  <2>2. ASSUME NEW x \in Named(t) PROVE x \in K \ {v}
    <3>1. PICK i \in DOMAIN t : x = t[i].key
      BY <2>2, Zenon DEF Named
    <3>2. PICK m \in P : t[i] = s[m]
      BY <1>9
    <3>3. m \in 1 .. N /\ s[m].key # v
      BY <1>a, Zenon
    <3> QED
      BY <2>1, <3>1, <3>2, <3>3, Zenon
  <2>3. ASSUME NEW x \in K, x # v PROVE x \in Named(t)
    <3>1. PICK m \in 1 .. N : x = s[m].key
      BY <2>1, Zenon
    <3>2. m \in P
      BY <1>a, <2>3, <3>1, Zenon
    <3>3. PICK n \in DOMAIN t : t[n] = s[m]
      BY <1>7, <3>2, Zenon
    <3> QED
      BY <3>1, <3>3, Zenon DEF Named
  <2> QED
    BY <2>2, <2>3, Zenon
<1> QED
  BY <1>3, <1>5, <1>6, <1>b, <1>c, Zenon DEF Listed

LEMMA ListedAppend ==
    ASSUME NEW s, NEW K, Listed(s, K), NEW k \in Key \ K, NEW h \in Nat
    PROVE  Listed(Append(LFU!Unmapped(s, k), [key |-> k, freq |-> h, mapped |-> TRUE]), K \cup {k})
<1>1. PICK N \in Nat : N = Len(s) /\ DOMAIN s = 1 .. N /\ s \in Seq(Element)
  BY DEF Listed
<1>2. \A i \in 1 .. N : s[i] \in Element /\ s[i].key \in K /\ s[i].key # k
  BY <1>1 DEF Listed, Named
<1>3. LFU!Unmapped(s, k) = s
  <2>1. ASSUME NEW i \in 1 .. N PROVE [s[i] EXCEPT !.mapped = @ /\ s[i].key # k] = s[i]
    <3>1. PICK r \in Element : r = s[i] /\ r.key # k
      BY <1>2
    <3>2. PICK b : b = (r.mapped /\ r.key # k)
      OBVIOUS
    <3>3. r.mapped = TRUE
      BY DEF Element
    <3>4. b = TRUE
      BY <3>1, <3>2, <3>3, Zenon
    <3>5. [r EXCEPT !.mapped = b] = r
      BY <3>3, <3>4 DEF Element
    <3> QED
      BY <3>1, <3>2, <3>5
  <2>2. LFU!Unmapped(s, k) = [i \in 1 .. N |-> [s[i] EXCEPT !.mapped = @ /\ s[i].key # k]]
    BY <1>1, Zenon DEF LFU!Unmapped
  <2>3. LFU!Unmapped(s, k) = [i \in 1 .. N |-> s[i]]
    BY <2>1, <2>2, Zenon
  <2> QED
    BY <1>1, <2>3
<1>4. PICK e : e = [key |-> k, freq |-> h, mapped |-> TRUE]
  OBVIOUS
<1>5. e \in Element /\ e.key = k
  BY <1>4 DEF Element
<1>6. PICK t : t = Append(s, e)
  OBVIOUS
<1>7. t \in Seq(Element) /\ DOMAIN t = 1 .. N + 1 /\ t[N + 1] = e /\ \A i \in 1 .. N : t[i] = s[i]
  BY <1>1, <1>5, <1>6
<1>8. \A i \in 1 .. N + 1 : i = N + 1 \/ i \in 1 .. N
  BY <1>1
<1>9. N + 1 \in 1 .. N + 1 /\ \A i \in 1 .. N : i \in 1 .. N + 1
  BY <1>1
<1>a. Once(t)
  <2>1. SUFFICES ASSUME NEW i \in 1 .. N + 1, NEW j \in 1 .. N + 1, t[i].key = t[j].key PROVE i = j
    BY <1>7, Zenon DEF Once
  <2>2. CASE i \in 1 .. N /\ j \in 1 .. N
    <3>1. s[i].key = s[j].key
      BY <1>7, <2>1, <2>2, Zenon
    <3> QED
      BY <1>1, <2>2, <3>1, Zenon DEF Listed, Once
  <2>3. CASE i = N + 1 \/ j = N + 1
    BY <1>2, <1>5, <1>7, <1>8, <2>1, <2>3, Zenon
  <2> QED
    BY <1>8, <2>2, <2>3, Zenon
<1>b. {t[i].key : i \in 1 .. N + 1} = {s[i].key : i \in 1 .. N} \cup {k}
  BY <1>5, <1>7, <1>8, <1>9, Zenon
<1>c. Named(t) = K \cup {k}
  BY <1>1, <1>7, <1>b, Zenon DEF Listed, Named
<1> QED
  BY <1>3, <1>4, <1>6, <1>7, <1>a, <1>c, Zenon DEF Listed

LFUAlike(p, q) == \E x : q = [p EXCEPT !.minFreq = x] \/ q = [p EXCEPT !.crashed = TRUE]
LEMMA LFUOtherField ==
    ASSUME NEW p, NEW K, NEW f, LFUState(p, K, f), NEW q, LFUAlike(p, q)
    PROVE  LFUState(q, K, f)
  BY DEF LFUState, LFUAlike

LEMMA LFUErased ==
    ASSUME NEW p, NEW K, NEW f, LFUState(p, K, f), NEW x
    PROVE  LFUState(LFU!EraseFreqMap(p, x), K, f)
<1>1. \/ LFU!EraseFreqMap(p, x) = p
      \/ LFU!EraseFreqMap(p, x) = [p EXCEPT !.crashed = TRUE]
      \/ \E y : LFU!EraseFreqMap(p, x) = [p EXCEPT !.minFreq = y]
  BY DEF LFU!EraseFreqMap
<1>2. LFU!EraseFreqMap(p, x) = p \/ LFUAlike(p, LFU!EraseFreqMap(p, x))
  BY <1>1, Zenon DEF LFUAlike
<1> QED
  BY <1>2, LFUOtherField, Zenon

LEMMA LFURelisted ==
    ASSUME NEW p, NEW K, NEW f, LFUState(p, K, f), NEW J, NEW s, p.crashed \/ Listed(s, J)
    PROVE  LFUState([p EXCEPT !.order = s], J, f)
  BY DEF LFUState

LEMMA LFURecounted ==
    ASSUME NEW p, NEW K, NEW f, LFUState(p, K, f), NEW k \in Key
    PROVE  LFUState([p EXCEPT !.hits[k] = @ + 1], K, f)
<1>1. PICK h : h = [p.hits EXCEPT ![k] = @ + 1]
  OBVIOUS
<1>2. [p EXCEPT !.hits[k] = @ + 1] = [p EXCEPT !.hits = h]
  BY <1>1
<1>3. p.crashed \/ h \in [Key -> Nat]
  <2>1. p.crashed \/ p.hits \in [Key -> Nat]
    BY DEF LFUState
  <2> QED
    BY <1>1, <2>1
<1>4. LFUState([p EXCEPT !.hits = h], K, f)
  BY <1>3 DEF LFUState
<1> QED
  BY <1>2, <1>4

LEMMA LFUInserted ==
    ASSUME NEW p, NEW K, NEW f, LFUState(p, K, f), NEW k \in Key \ K
    PROVE  LFUState(LFU!Insert(p, k), K \cup {k}, f)
<1>1. PICK x, y : /\ x = Append(LFU!Unmapped(p.order, k), [key |-> k, freq |-> p.hits[k], mapped |-> TRUE])
                  /\ y = IF p.minFreq = 0 THEN p.hits[k] ELSE p.minFreq
  OBVIOUS
<1>2. LFU!Insert(p, k) = [p EXCEPT !.order = x, !.minFreq = y]
  BY <1>1 DEF LFU!Insert
<1>3. PICK q : q = [p EXCEPT !.order = x]
  OBVIOUS
<1>4. LFU!Insert(p, k) = [q EXCEPT !.minFreq = y]
  BY <1>2, <1>3
<1>5. p.crashed \/ Listed(x, K \cup {k})
  <2>1. p.crashed \/ (Listed(p.order, K) /\ p.hits[k] \in Nat)
    BY DEF LFUState
  <2> QED
    BY <1>1, <2>1, ListedAppend, Zenon
<1>6. LFUState(q, K \cup {k}, f)
  BY <1>3, <1>5, LFURelisted, Zenon
<1>7. LFUAlike(q, LFU!Insert(p, k))
  BY <1>4, Zenon DEF LFUAlike
<1> QED
  BY <1>6, <1>7, LFUOtherField, Zenon

(* p without v, whatever its class then is.                                *)
LEMMA LFURemoved ==
    ASSUME NEW p, NEW K, NEW f, LFUState(p, K, f), NEW v, NEW x
    PROVE  LFUState(LFU!EraseFreqMap([p EXCEPT !.order = LFU!Without(@, v)], x), K \ {v}, f)
<1>1. PICK s : s = LFU!Without(p.order, v)
  OBVIOUS
<1>2. p.crashed \/ Listed(s, K \ {v})
  BY <1>1, ListedWithout, Zenon DEF LFUState
<1>3. [p EXCEPT !.order = LFU!Without(@, v)] = [p EXCEPT !.order = s]
  BY <1>1
<1>4. LFUState([p EXCEPT !.order = LFU!Without(@, v)], K \ {v}, f)
  BY <1>2, <1>3, LFURelisted
<1> QED
  BY <1>4, LFUErased, Zenon

LEMMA LFUMoved ==
    ASSUME NEW p, NEW K, NEW f, LFUState(p, K, f), NEW k \in Key
    PROVE  LFUState(LFU!OnLoad(p, k), K, f)
<1>1. CASE p.crashed
  BY <1>1 DEF LFU!OnLoad
<1>2. CASE ~p.crashed
  <2>1. PICK x : x = p.hits[k]
    OBVIOUS
  <2>2. PICK q : q = [p EXCEPT !.order = LFU!Without(@, k)]
    OBVIOUS
  <2>3. PICK e : e = LFU!EraseFreqMap(q, x)
    OBVIOUS
  <2>4. LFUState(e, K \ {k}, f)
    BY <2>2, <2>3, LFURemoved, Zenon
  <2>5. \/ LFU!OnLoad(p, k) = [p EXCEPT !.hits[k] = @ + 1]
        \/ e.crashed /\ LFU!OnLoad(p, k) = e
        \/ k \in LFU!Keys(p) /\ LFU!OnLoad(p, k) = LFU!Insert([e EXCEPT !.hits[k] = @ + 1], k)
    BY <1>2, <2>1, <2>2, <2>3, Zenon DEF LFU!OnLoad
  <2>6. CASE LFU!OnLoad(p, k) = [p EXCEPT !.hits[k] = @ + 1]
    BY <2>6, LFURecounted
  <2>7. CASE e.crashed /\ LFU!OnLoad(p, k) = e
    BY <2>4, <2>7 DEF LFUState
  <2>8. CASE k \in LFU!Keys(p) /\ LFU!OnLoad(p, k) = LFU!Insert([e EXCEPT !.hits[k] = @ + 1], k)
    <3>1. PICK c : c = [e EXCEPT !.hits[k] = @ + 1]
      OBVIOUS
    <3>2. LFUState(c, K \ {k}, f)
      BY <2>4, <3>1, LFURecounted
    <3>3. k \in K
      <4>1. Listed(p.order, K)
        BY <1>2 DEF LFUState
      <4>2. LFU!Keys(p) = K
        BY <4>1, ListedKeys
      <4> QED
        BY <2>8, <4>2
    <3>4. (K \ {k}) \cup {k} = K /\ k \in Key \ (K \ {k})
      BY <3>3
    <3>5. LFUState(LFU!Insert(c, k), (K \ {k}) \cup {k}, f)
      BY <3>2, <3>4, LFUInserted, Zenon
    <3> QED
      BY <2>8, <3>1, <3>4, <3>5
  <2> QED
    BY <2>5, <2>6, <2>7, <2>8
<1> QED
  BY <1>1, <1>2

Firsts(c, n) == {c[i] : i \in 1 .. n}
LEMMA LFUEvicted ==
    ASSUME NEW p, NEW K, NEW e, LFUState(p, K, e), NEW L \in Nat, NEW f, NEW cand, EvictionOf(f, p, cand, L),
           NEW R, R = Firsts(cand, L)
    PROVE  LFUState(f[L], K \ R, e)
<1> DEFINE Out(n) == Firsts(cand, n)
<1>1. ASSUME NEW q, NEW J, LFUState(q, J, e), NEW v PROVE LFUState(LFU!Evict(p, q, v), J \ {v}, e)
  <2>1. LFUState(LFU!EraseFreqMap([q EXCEPT !.order = LFU!Without(@, v)], p.hits[v]), J \ {v}, e)
    BY <1>1, LFURemoved, Zenon
  <2>2. q.crashed => LFUState(q, J \ {v}, e)
    BY <1>1 DEF LFUState
  <2>3. LFUState([q EXCEPT !.crashed = TRUE], J \ {v}, e)
    BY <1>1 DEF LFUState
  <2> QED
    BY <2>1, <2>2, <2>3, Zenon DEF LFU!Evict
<1> DEFINE T == {n \in Nat : n <= L => LFUState(f[n], K \ Out(n), e)}
<1>2. 0 \in T
  <2>1. Out(0) = {} /\ K \ {} = K
    BY DEF Firsts
  <2> HIDE DEF Out
  <2> QED
    BY <2>1 DEF EvictionOf
<1>3. ASSUME NEW n \in Nat, n \in T PROVE n + 1 \in T
  <2>1. SUFFICES ASSUME n + 1 <= L PROVE LFUState(f[n + 1], K \ Out(n + 1), e)
    OBVIOUS
  <2>2. n <= L /\ n + 1 \in 1 .. L /\ (n + 1) - 1 = n
    BY <2>1
  <2>3. LFUState(f[n], K \ Out(n), e)
    BY <1>3, <2>2
  <2>4. f[n + 1] = LFU!Evict(p, f[n], cand[n + 1])
    BY <2>2 DEF EvictionOf
  <2>5. K \ Out(n + 1) = (K \ Out(n)) \ {cand[n + 1]}
    <3>1. Out(n + 1) = Out(n) \cup {cand[n + 1]}
      BY DEF Firsts
    <3> HIDE DEF Out
    <3> QED
      BY <3>1
  <2>6. LFUState(LFU!Evict(p, f[n], cand[n + 1]), (K \ Out(n)) \ {cand[n + 1]}, e)
    BY <1>1, <2>3, Zenon
  <2> HIDE DEF Out
  <2> QED
    BY <2>4, <2>5, <2>6
<1> HIDE DEF T
<1>4. Nat \subseteq T
  BY <1>2, <1>3, Induction, Zenon
<1>5. L \in T /\ L <= L
  BY <1>4
<1>6. LFUState(f[L], K \ Out(L), e) /\ Out(L) = R
  BY <1>5 DEF T
<1> HIDE DEF Out
<1> QED
  BY <1>6

(* The order of the candidates is one: they can be listed.                 *)
LEMMA SoonerOrders ==
    ASSUME NEW p, NEW K, Listed(p.order, K), NEW P, P = DOMAIN p.order,
           NEW R, R = {x \in P \X P : LFU!Sooner(p, x[1], x[2])}
    PROVE  Ordered(R, P)
<1>1. PICK m, s, h : m = p.minFreq /\ s = p.order /\ h = [i \in P |-> p.order[i].freq]
  OBVIOUS
<1>2. PICK N \in Nat : P = 1 .. N /\ P \subseteq Nat
  BY DEF Listed
<1>3. \A x, y \in P : <<x, y>> \in R <=> LFU!Sooner(p, x, y)
  OBVIOUS
<1>4. \A x, y \in P : LFU!Sooner(p, x, y) <=> \/ h[y] # m /\ (h[x] = m \/ h[x] < h[y])
                                              \/ h[x] = h[y] /\ x < y
  <2>1. \A x \in P : h[x] = p.order[x].freq
    BY <1>1
  <2>2. \A x, y : LFU!Sooner(p, x, y) <=>
          \/ p.order[y].freq # m /\ (p.order[x].freq = m \/ p.order[x].freq < p.order[y].freq)
          \/ p.order[x].freq = p.order[y].freq /\ x < y
    BY <1>1, Zenon DEF LFU!Sooner
  <2>3. ASSUME NEW x \in P, NEW y \in P
        PROVE  LFU!Sooner(p, x, y) <=> \/ h[y] # m /\ (h[x] = m \/ h[x] < h[y])
                                       \/ h[x] = h[y] /\ x < y
    BY <2>1, <2>2
  <2> QED
    BY <2>3
<1>5. \A x \in P : h[x] \in Nat
  <2>1. \A x \in P : s[x] \in Element
    BY <1>1 DEF Listed
  <2>2. \A e \in Element : e.freq \in Nat
    BY DEF Element
  <2> QED
    BY <1>1, <2>1, <2>2
<1>8. ASSUME NEW x \in P, NEW y \in P, x # y PROVE LFU!Sooner(p, x, y) \/ LFU!Sooner(p, y, x)
  <2>1. h[x] \in Nat /\ h[y] \in Nat /\ (x < y \/ y < x)
    BY <1>2, <1>5, <1>8
  <2>2. h[x] = h[y] \/ h[x] < h[y] \/ h[y] < h[x]
    BY <2>1
  <2> QED
    BY <1>4, <2>1, <2>2, Zenon
<1>9. ASSUME NEW x \in P, NEW y \in P, NEW z \in P, LFU!Sooner(p, x, y), LFU!Sooner(p, y, z)
      PROVE  LFU!Sooner(p, x, z)
  <2>1. PICK a \in Nat, b \in Nat, c \in Nat : a = h[x] /\ b = h[y] /\ c = h[z]
    BY <1>5
  <2>2. x \in Nat /\ y \in Nat /\ z \in Nat
    BY <1>2
  <2>3. (b # m /\ (a = m \/ a < b)) \/ (a = b /\ x < y)
    BY <1>4, <1>9, <2>1
  <2>4. (c # m /\ (b = m \/ b < c)) \/ (b = c /\ y < z)
    BY <1>4, <1>9, <2>1
  <2>5. (c # m /\ (a = m \/ a < c)) \/ (a = c /\ x < z)
    BY <2>2, <2>3, <2>4
  <2> QED
    BY <1>4, <2>1, <2>5
<1> QED
  BY <1>3, <1>8, <1>9, Zenon DEF Ordered

Lists(c, K, N) == c \in [1 .. N -> K] /\ Distinct(c) /\ {c[i] : i \in 1 .. N} = K
LEMMA CandidatesAre ==
    ASSUME NEW p, NEW K, Listed(p.order, K)
    PROVE  \E N \in Nat : Lists(LFU!Candidates(p), K, N)
<1>0. PICK N, P : N \in Nat /\ N = Len(p.order) /\ P = DOMAIN p.order /\ P = 1 .. N
  BY DEF Listed
<1>1. PICK R : R = {x \in P \X P : LFU!Sooner(p, x[1], x[2])}
  OBVIOUS
<1>2. Ordered(R, P)
  BY <1>0, <1>1, SoonerOrders, Zenon
<1>4. IsFiniteSet(P) /\ Cardinality(P) = N
  BY <1>0, FS_Interval
<1>3. PICK c : Sorts(c, R, P, N)
  BY <1>2, <1>4, SortExists, Zenon
<1>5. LFU!Cardinality(P) = Cardinality(P)
  BY Zenon DEF LFU!Cardinality, Cardinality
<1>6. LFU!SetToSeqs(P) = SetToSeqs(P)
  BY <1>5, Zenon DEF LFU!SetToSeqs, SetToSeqs
<1>7. c \in SetToSeqs(P) /\ DOMAIN c = 1 .. N
  BY <1>3, <1>4, Zenon DEF Sorts, SetToSeqs
<1>8. \A i, j \in 1 .. N : i < j => LFU!Sooner(p, c[i], c[j])
  <2>1. \A i, j \in 1 .. N : i < j => <<c[i], c[j]>> \in R
    BY <1>3, Zenon DEF Sorts
  <2>2. \A x, y : <<x, y>> \in R => LFU!Sooner(p, x, y)
    BY <1>1
  <2> QED
    BY <2>1, <2>2, Zenon
<1>l. LFU!SetToSeqs(DOMAIN p.order) = SetToSeqs(P)
  BY <1>0, <1>6
<1>9. \E d \in LFU!SetToSeqs(DOMAIN p.order) : \A i, j \in DOMAIN d : i < j => LFU!Sooner(p, d[i], d[j])
  BY <1>7, <1>8, <1>l, Zenon
<1>a. PICK d : d = CHOOSE b \in LFU!SetToSeqs(DOMAIN p.order) :
                     \A i, j \in DOMAIN b : i < j => LFU!Sooner(p, b[i], b[j])
  OBVIOUS
<1>b. d \in SetToSeqs(P)
  BY <1>9, <1>a, <1>l, Zenon
<1>c. /\ d \in [1 .. N -> P] /\ DOMAIN d = 1 .. N
      /\ \A i, j \in 1 .. N : i # j => d[i] # d[j]
  BY <1>4, <1>b, Zenon DEF SetToSeqs
<1>d. {d[i] : i \in 1 .. N} = P
  <2>1. ToSet(d) = P
    BY <1>4, <1>b, InSomeOrder
  <2> QED
    BY <1>c, <2>1, Zenon DEF ToSet
<1>e. PICK k : k = LFU!Candidates(p)
  OBVIOUS
<1>f. k = [n \in 1 .. N |-> p.order[d[n]].key]
  <2> DEFINE x == CHOOSE b \in LFU!SetToSeqs(DOMAIN p.order) :
                    \A i, j \in DOMAIN b : i < j => LFU!Sooner(p, b[i], b[j])
  <2>1. k = [n \in DOMAIN x |-> p.order[x[n]].key]
    BY <1>e, Zenon DEF LFU!Candidates
  <2>3. d = x
    BY <1>a, Zenon
  <2> HIDE DEF x
  <2>2. k = [n \in DOMAIN d |-> p.order[d[n]].key]
    BY <2>1, <2>3
  <2> QED
    BY <1>c, <2>2, Zenon
<1>g. DOMAIN k = 1 .. N /\ \A n \in 1 .. N : k[n] = p.order[d[n]].key /\ d[n] \in P
  BY <1>c, <1>f
<1>h. K = {p.order[i].key : i \in P}
  BY <1>0, Zenon DEF Listed, Named
<1>i. k \in [1 .. N -> K]
  <2>1. \A n \in 1 .. N : k[n] \in K
    BY <1>g, <1>h, Zenon
  <2> QED
    BY <1>f, <2>1
<1>j. Distinct(k)
  <2>1. SUFFICES ASSUME NEW i \in 1 .. N, NEW j \in 1 .. N, k[i] = k[j] PROVE i = j
    BY <1>g, Zenon DEF Distinct
  <2>2. d[i] = d[j]
    <3>1. Once(p.order)
      BY DEF Listed
    <3>2. d[i] \in DOMAIN p.order /\ d[j] \in DOMAIN p.order /\ p.order[d[i]].key = p.order[d[j]].key
      BY <1>0, <1>g, <2>1
    <3> QED
      BY <3>1, <3>2, Zenon DEF Once
  <2> QED
    BY <1>c, <2>2, Zenon
<1>k. {k[i] : i \in 1 .. N} = K
  <2>1. ASSUME NEW x \in K PROVE \E n \in 1 .. N : k[n] = x
    <3>1. PICK i \in P : x = p.order[i].key
      BY <1>h, Zenon
    <3>2. PICK n \in 1 .. N : d[n] = i
      BY <1>d, <3>1, Zenon
    <3> QED
      BY <1>g, <3>1, <3>2, Zenon
  <2>2. \A n \in 1 .. N : k[n] \in K
    BY <1>g, <1>h, Zenon
  <2> QED
    BY <2>1, <2>2, Zenon
<1> QED
  BY <1>0, <1>e, <1>i, <1>j, <1>k, Zenon DEF Lists

(* The bytes of the first n candidates.                                    *)
LEMMA BytesOfFirst ==
    ASSUME NEW K \in KeySet, NEW N \in Nat, NEW c \in [1 .. N -> K], Distinct(c), NEW n \in 0 .. N
    PROVE  LFU!Bytes(LFU!SubSeq(c, 1, n)) = TotalSize({c[i] : i \in 1 .. n})
<1>1. PICK b, v : b = LFU!SubSeq(c, 1, n) /\ v = [i \in DOMAIN b |-> Size[b[i]]]
  OBVIOUS
<1>2. b = [i \in 1 .. n |-> c[i]]
  <2>1. c \in Seq(K) /\ Len(c) = N
    OBVIOUS
  <2>2. b = SubSeq(c, 1, n)
    BY <1>1, Zenon DEF LFU!SubSeq, SubSeq
  <2>3. b \in Seq(K) /\ Len(b) = n /\ \A i \in 1 .. n : b[i] = c[i]
    BY <2>1, <2>2
  <2> QED
    BY <2>3
<1>3. DOMAIN b = 1 .. n /\ DOMAIN v = 1 .. n /\ 1 .. n \in SUBSET (1 .. N)
  BY <1>1, <1>2
<1>4. \A i \in 1 .. n : v[i] = Size[b[i]] /\ b[i] = c[i] /\ c[i] \in K
  BY <1>1, <1>2, <1>3
<1>5. \A i \in 1 .. n : v[i] = Size[b[i]] /\ v[i] \in Nat
  <2>1. \A x \in K : Size[x] \in Nat
    BY SegmentAssumption DEF KeySet
  <2> QED
    BY <1>4, <2>1, Zenon
<1>6. \A i, j \in 1 .. n : b[i] = b[j] => i = j
  <2>1. DOMAIN c = 1 .. N /\ \A i \in 1 .. n : i \in 1 .. N
    BY <1>3
  <2> QED
    BY <1>4, <2>1, Zenon DEF Distinct
<1>7. IsFiniteSet(1 .. n)
  BY <1>3, PlacesAreFinite, Zenon
<1>8. SumFunctionOnSet(v, 1 .. n) = SumFunctionOnSet(Size, {b[i] : i \in 1 .. n})
  <2>1. PICK I : I = 1 .. n
    OBVIOUS
  <2>2. /\ IsFiniteSet(I) /\ \A i \in I : v[i] = Size[b[i]] /\ v[i] \in Nat
        /\ \A i, j \in I : b[i] = b[j] => i = j
    BY <1>5, <1>6, <1>7, <2>1, Zenon
  <2>3. SumFunctionOnSet(v, I) = SumFunctionOnSet(Size, {b[i] : i \in I})
    BY <2>2, SumPlaces
  <2> QED
    BY <2>1, <2>3
<1>9. {b[i] : i \in 1 .. n} = {c[i] : i \in 1 .. n}
  BY <1>4
<1>a. LFU!Bytes(b) = LFU!SumFunction(v)
  BY <1>1, Zenon DEF LFU!Bytes
<1>b. LFU!SumFunction(v) = SumFunctionOnSet(v, 1 .. n)
  BY <1>3, Zenon DEF SumFunctionOnSet, FoldFunctionOnSet, MapThenFoldSet, LFU!SumFunction,
                     LFU!SumFunctionOnSet, LFU!FoldFunctionOnSet, LFU!MapThenFoldSet
<1> QED
  BY <1>1, <1>8, <1>9, <1>a, <1>b DEF TotalSize

LEMMA LFUOutcome ==
    ASSUME NEW p, NEW K, LFUHolds(p, K), ~p.crashed, NEW k \in Key \ K, NEW o \in LFU!OnStore(p, k)
    PROVE  \/ ~o.stored /\ LFUHolds(o.pol, K)
           \/ Comes(o, K, k) /\ LFUHolds(o.pol, (K \ o.removed) \cup {k})
<1>0. /\ LFUState(p, K, p.free) /\ p.hits \in [Key -> Nat] /\ Listed(p.order, K) /\ Leaves(p.free, K)
      /\ K \in KeySet /\ p.free \in Nat /\ p.free + TotalSize(K) = MaxSize
  BY DEF LFUHolds, LFUState, Leaves
<1>1. TotalSize(K) \in Nat /\ Size[k] \in Nat
  BY <1>0, SizeFacts, SegmentAssumption
<1>2. LFUStores(o, p, k)
  BY LFUStored, Zenon
<1>3. CASE o.pol = p /\ ~o.stored
  BY <1>3
<1>4. CASE ~(o.pol = p /\ ~o.stored)
  <2>0. PICK L \in Nat : \E f, c :
          Just(p, k, c, L) /\ EvictionOf(f, p, c, L) /\ AfterEviction(o, k, c, L, f[L])
    BY <1>2, <1>4, Zenon DEF LFUStores
  <2>1. PICK f, c :
          Just(p, k, c, L) /\ EvictionOf(f, p, c, L) /\ AfterEviction(o, k, c, L, f[L])
    BY <2>0
  <2>3. c = LFU!Candidates(p)
    BY <2>1, Zenon DEF Just
  <2>2. PICK N \in Nat : Lists(c, K, N)
    BY <1>0, <2>3, CandidatesAre
  <2>4. c \in [1 .. N -> K] /\ Distinct(c) /\ {c[i] : i \in 1 .. N} = K
    BY <2>2, Zenon DEF Lists
  <2>5. Len(c) = N
    BY <2>4
  <2>6. /\ L \in 0 .. N /\ RoomFor(p, k, c, L) /\ \A n \in 0 .. N : n < L => ~RoomFor(p, k, c, n)
    BY <2>1, <2>5, Zenon DEF Just
  <2>7. PICK R : R = {c[i] : i \in 1 .. L}
    OBVIOUS
  <2>8. R \in SUBSET K
    BY <2>4, <2>6, <2>7
  <2>9. LFU!Bytes(LFU!SubSeq(c, 1, L)) = TotalSize(R)
    BY <1>0, <2>4, <2>6, <2>7, BytesOfFirst
  <2>a. p.free + TotalSize(R) >= Size[k]
    BY <2>6, <2>9, Zenon DEF RoomFor
  <2>b. PICK x : x = p.free + TotalSize(R) - Size[k]
    OBVIOUS
  <2>c. Leaves(x, (K \ R) \cup {k})
    BY <1>0, <2>8, <2>a, <2>b, RoomMade, Zenon
  <2>d. PICK q : q = f[L]
    OBVIOUS
  <2>e. LFUState(q, K \ R, p.free)
    <3>1. EvictionOf(f, p, c, L) /\ LFUState(p, K, p.free)
      BY <1>0, <2>1
    <3>2. R = Firsts(c, L)
      BY <2>7, Zenon DEF Firsts
    <3>3. LFUState(f[L], K \ R, p.free)
      BY <3>1, <3>2, LFUEvicted, Zenon
    <3> QED
      BY <2>d, <3>3
  <2>f. CASE o.pol = q /\ q.crashed /\ ~o.stored
    BY <2>e, <2>f DEF LFUHolds, LFUState
  <2>g. CASE /\ \E y : /\ o.pol = [LFU!Insert(q, k) EXCEPT !.free = y]
                      /\ y = LFU!Insert(q, k).free + LFU!Bytes(LFU!SubSeq(c, 1, L)) - Size[k]
             /\ o.stored /\ ~q.crashed /\ o.removed = {c[i] : i \in 1 .. L}
    <3>0. PICK j : j = LFU!Insert(q, k)
      OBVIOUS
    <3>1. LFUState(j, (K \ R) \cup {k}, p.free)
      <4>1. k \in Key \ (K \ R)
        OBVIOUS
      <4> QED
        BY <2>e, <3>0, <4>1, LFUInserted, Zenon
    <3>2. j.crashed = q.crashed
      <4>1. PICK z, y :
              /\ z = Append(LFU!Unmapped(q.order, k), [key |-> k, freq |-> q.hits[k], mapped |-> TRUE])
              /\ y = IF q.minFreq = 0 THEN q.hits[k] ELSE q.minFreq
        OBVIOUS
      <4>2. j = [q EXCEPT !.order = z, !.minFreq = y]
        BY <3>0, <4>1 DEF LFU!Insert
      <4> QED
        BY <4>2
    <3>3. PICK y : y = j.free + LFU!Bytes(LFU!SubSeq(c, 1, L)) - Size[k] /\ o.pol = [j EXCEPT !.free = y]
      BY <2>g, <3>0
    <3>4. j.free = p.free /\ ~j.crashed
      BY <2>g, <3>1, <3>2 DEF LFUState
    <3>5. y = x
      BY <2>9, <2>b, <3>3, <3>4
    <3>6. LFUState([j EXCEPT !.free = x], (K \ R) \cup {k}, x) /\ [j EXCEPT !.free = x].free = x
      BY <3>1 DEF LFUState
    <3>7. LFUHolds(o.pol, (K \ R) \cup {k})
      BY <2>c, <3>3, <3>5, <3>6 DEF LFUHolds
    <3>8. ASSUME R # {} PROVE TotalSize(K) + Size[k] > MaxSize
      <4>1. L # 0
        BY <2>7, <3>8
      <4>2. 0 < L /\ 0 \in 0 .. N
        BY <2>6, <4>1
      <4>3. LFU!Bytes(LFU!SubSeq(c, 1, 0)) = TotalSize({c[i] : i \in 1 .. 0})
        BY <1>0, <2>4, <4>2, BytesOfFirst
      <4>4. TotalSize({c[i] : i \in 1 .. 0}) = 0
        <5>1. {c[i] : i \in 1 .. 0} = {}
          OBVIOUS
        <5> QED
          BY <5>1, SumEmpty, Zenon DEF TotalSize
      <4>5. ~(p.free + 0 >= Size[k])
        BY <2>6, <4>2, <4>3, <4>4, Zenon DEF RoomFor
      <4> QED
        BY <1>0, <1>1, <4>5
    <3>9. R = o.removed /\ o.stored /\ R \subseteq K
      BY <2>7, <2>8, <2>g
    <3> QED
      BY <2>c, <3>7, <3>8, <3>9, Zenon DEF Comes
  <2> QED
    BY <2>1, <2>d, <2>f, <2>g, Zenon DEF AfterEviction
<1> QED
  BY <1>3, <1>4

(* Any policy.                                                             *)
Kinds == {"LRU", "LFU", "LFUS", "WLFU"}
Holds(kind, p, K) ==
    /\ kind = "LRU" => LRUHolds(p, K)
    /\ kind = "LFU" => LFUHolds(p, K)
    /\ kind \in {"LFUS", "WLFU"} => HeapHolds(p, K)
Within(K) == K \in KeySet /\ TotalSize(K) <= MaxSize

LEMMA HeapLoads ==
    ASSUME NEW p, NEW K, HeapHolds(p, K), NEW k \in Key
    PROVE  HeapHolds(Heap!OnLoad(p, k), K)
<1>1. CASE p.crashed
  BY <1>1 DEF Heap!OnLoad
<1>2. CASE ~p.crashed
  <2>1. PICK h, x : h = [p.hits EXCEPT ![k] = @ + 1] /\ x = [p.otc EXCEPT ![k] = 0]
    OBVIOUS
  <2>2. PICK q : q = [p EXCEPT !.hits = h]
    OBVIOUS
  <2>3. HeapAlike(p, q)
    BY <2>2, Zenon DEF HeapAlike
  <2>4. CASE k \notin p.cached
    <3>1. Heap!OnLoad(p, k) = q
      BY <1>2, <2>1, <2>2, <2>4 DEF Heap!OnLoad
    <3> QED
      BY <2>3, <3>1, HeapOtherField, Zenon
  <2>5. CASE k \in p.cached
    <3>1. PICK y : y = [p.copies EXCEPT ![k] = 1]
      OBVIOUS
    <3>2. y = p.copies
      <4>1. p.copies = Ones(K) /\ k \in K
        BY <1>2, <2>5 DEF HeapHolds
      <4> QED
        BY <3>1, <4>1 DEF Ones
    <3>3. Heap!OnLoad(p, k) = [p EXCEPT !.hits = h, !.copies = y, !.otc = x]
      BY <1>2, <2>1, <2>5, <3>1 DEF Heap!OnLoad
    <3>4. "copies" \in DOMAIN p
      BY DEF HeapHolds
    <3>5. Heap!OnLoad(p, k) = [q EXCEPT !.otc = x]
      BY <2>2, <3>2, <3>3, <3>4
    <3>6. HeapAlike(q, Heap!OnLoad(p, k))
      BY <3>5, Zenon DEF HeapAlike
    <3> QED
      BY <2>3, <3>6, HeapOtherField, Zenon
  <2> QED
    BY <2>4, <2>5
<1> QED
  BY <1>1, <1>2

LEMMA LFULoads ==
    ASSUME NEW p, NEW K, LFUHolds(p, K), NEW k \in Key
    PROVE  LFUHolds(LFU!OnLoad(p, k), K)
<1>1. LFUState(LFU!OnLoad(p, k), K, p.free)
  BY LFUMoved, Zenon DEF LFUHolds
<1>2. PICK q : q = LFU!OnLoad(p, k)
  OBVIOUS
<1>3. p.crashed => q = p
  BY <1>2 DEF LFU!OnLoad
<1>4. q.crashed \/ q.free = p.free
  BY <1>1, <1>2 DEF LFUState
<1>5. p.crashed \/ Leaves(p.free, K)
  BY DEF LFUHolds
<1>6. LFUState(q, K, q.free)
  BY <1>1, <1>2 DEF LFUState
<1> QED
  BY <1>2, <1>3, <1>4, <1>5, <1>6, Zenon DEF LFUHolds

LEMMA LoadHolds ==
    ASSUME config.policy \in Kinds, NEW p, NEW K, Holds(config.policy, p, K), NEW k \in Key
    PROVE  Holds(config.policy, OnLoad(p, k), K)
<1>1. CASE config.policy = "LRU"
  <2>1. OnLoad(p, k) = LRU!OnLoad(p, k) /\ config.policy # "LFU" /\ config.policy \notin {"LFUS", "WLFU"}
    BY <1>1 DEF OnLoad
  <2> QED
    BY <1>1, <2>1, LRUMoved, Zenon DEF Holds
<1>2. CASE config.policy = "LFU"
  <2>1. OnLoad(p, k) = LFU!OnLoad(p, k) /\ config.policy # "LRU" /\ config.policy \notin {"LFUS", "WLFU"}
    BY <1>2 DEF OnLoad
  <2> QED
    BY <1>2, <2>1, LFULoads, Zenon DEF Holds
<1>3. CASE config.policy \in {"LFUS", "WLFU"}
  <2>1. OnLoad(p, k) = Heap!OnLoad(p, k) /\ config.policy # "LRU" /\ config.policy # "LFU"
    BY <1>3 DEF OnLoad
  <2> QED
    BY <1>3, <2>1, HeapLoads, Zenon DEF Holds
<1> QED
  BY <1>1, <1>2, <1>3 DEF Kinds

LEMMA LoadKeysHold ==
    ASSUME config.policy \in Kinds, NEW order \in Seq(Key), NEW K, Holds(config.policy, pol, K)
    PROVE  Holds(config.policy, LoadKeys(order), K)
<1>1. PICK L \in Nat : L = Len(order) /\ DOMAIN order = 1 .. L
  OBVIOUS
<1>2. PICK f : LoadsOf(f, order, L)
  BY <1>1, LoadKeysSteps, Zenon
<1>3. /\ LoadKeys(order) = f[L] /\ f[0] = pol
      /\ \A n \in 1 .. L : f[n] = OnLoad(f[n - 1], order[n])
  BY <1>2, Zenon DEF LoadsOf
<1> DEFINE T == {n \in Nat : n <= L => Holds(config.policy, f[n], K)}
<1>5. 0 \in T
  BY <1>3
<1>6. ASSUME NEW n \in Nat, n \in T PROVE n + 1 \in T
  <2>1. SUFFICES ASSUME n + 1 <= L PROVE Holds(config.policy, f[n + 1], K)
    OBVIOUS
  <2>2. n <= L /\ n + 1 \in 1 .. L /\ (n + 1) - 1 = n
    BY <2>1
  <2>3. Holds(config.policy, f[n], K) /\ order[n + 1] \in Key /\ f[n + 1] = OnLoad(f[n], order[n + 1])
    BY <1>1, <1>3, <1>6, <2>2
  <2> QED
    BY <2>3, LoadHolds
<1> HIDE DEF T
<1>8. Nat \subseteq T
  BY <1>5, <1>6, Induction, Zenon
<1>9. L \in T /\ L <= L
  BY <1>8
<1> QED
  BY <1>3, <1>9 DEF T

LEMMA EstimateHolds ==
    ASSUME NEW c, NEW k, NEW K, HeapHolds(c.pol, K), DOMAIN c = {"pol", "keys"}, NEW d \in Heap!Estimate(c, k)
    PROVE  HeapHolds(d.pol, K) /\ DOMAIN d = {"pol", "keys"}
<1> DEFINE p == c.pol
<1> DEFINE E == Heap!Entries(p.otc, FALSE) \cup Heap!Entries(p.fresh, TRUE)
<1> DEFINE R == Heap!MakeRoom(p, E, Heap!Value(p, k), p.freeOTC, Size[k])
<1> DEFINE u(r) == Heap!Pushed(Heap!Popped(p.otc, FALSE, r.out), {k})
<1> DEFINE w(r) == Heap!Popped(p.fresh, TRUE, r.out)
<1> DEFINE Roomy(r) == [p EXCEPT !.otc = u(r), !.fresh = w(r),
                                 !.freeOTC = @ + Heap!Bytes(r.out) - Size[k]]
<1>1. CASE d = c
  BY <1>1
<1>2. CASE d # c
  <2>1. PICK r \in R :
          d = CASE r.end = "refused" -> c
                [] r.end = "crashed" -> [c EXCEPT !.pol.crashed = TRUE]
                [] r.end = "room" -> [pol |-> Roomy(r), keys |-> c.keys \cup {k}]
    BY <1>2, Zenon DEF Heap!Estimate
  <2>2. r.end \in {"refused", "crashed", "room"}
    BY MakeRoomEnds, Zenon
  <2>3. PICK q : q = Roomy(r)
    OBVIOUS
  <2>4. HeapHolds(q, K)
    <3>1. PICK x : x = [p EXCEPT !.otc = u(r)]
      OBVIOUS
    <3>2. PICK y : y = [x EXCEPT !.fresh = w(r)]
      OBVIOUS
    <3>3. q = [y EXCEPT !.freeOTC = p.freeOTC + Heap!Bytes(r.out) - Size[k]]
      BY <2>3, <3>1, <3>2
    <3>4. HeapAlike(p, x) /\ HeapAlike(x, y) /\ HeapAlike(y, q)
      BY <3>1, <3>2, <3>3, Zenon DEF HeapAlike
    <3> QED
      BY <3>4, HeapOtherField, Zenon
  <2> HIDE DEF R, Roomy
  <2>5. CASE d = [c EXCEPT !.pol.crashed = TRUE]
    <3>1. d.pol = [p EXCEPT !.crashed = TRUE] /\ DOMAIN d = {"pol", "keys"}
      BY <2>5
    <3>2. HeapAlike(p, d.pol)
      BY <3>1, Zenon DEF HeapAlike
    <3> QED
      BY <3>1, <3>2, HeapOtherField, Zenon
  <2>6. CASE d = [pol |-> q, keys |-> c.keys \cup {k}]
    BY <2>4, <2>6
  <2> QED
    BY <1>2, <2>1, <2>2, <2>3, <2>5, <2>6
<1> QED
  BY <1>1, <1>2

LEMMA HeapToCacheHolds ==
    ASSUME NEW p, NEW K, HeapHolds(p, K), NEW missing, NEW L \in Nat, L = Len(missing),
           NEW a \in Heap!OnToCache(p, missing)
    PROVE  HeapHolds(a.pol, K)
<1>2. CASE p.crashed
  BY <1>2 DEF Heap!OnToCache
<1>3. CASE ~p.crashed /\ Heap!Ample(p.freeOTC)
  <2>1. a = [pol |-> Heap!TakeAll(p, missing), keys |-> Heap!ToSet(missing)]
    BY <1>3, Zenon DEF Heap!OnToCache
  <2>2. PICK u, v, w : Heap!TakeAll(p, missing) = [p EXCEPT !.otc = u, !.fresh = v, !.freeOTC = w]
    BY DEF Heap!TakeAll
  <2>3. PICK x : x = [p EXCEPT !.otc = u]
    OBVIOUS
  <2>4. PICK y : y = [x EXCEPT !.fresh = v]
    OBVIOUS
  <2>5. a.pol = [y EXCEPT !.freeOTC = w]
    BY <2>1, <2>2, <2>3, <2>4
  <2>6. HeapAlike(p, x) /\ HeapAlike(x, y) /\ HeapAlike(y, a.pol)
    BY <2>3, <2>4, <2>5, Zenon DEF HeapAlike
  <2> QED
    BY <2>6, HeapOtherField, Zenon
<1>4. CASE ~p.crashed /\ ~Heap!Ample(p.freeOTC)
  <2>1. PICK b : b = {[pol |-> p, keys |-> {}]}
    OBVIOUS
  <2>2. PICK f : EstimatesOf(f, p, missing, b, L)
    BY <1>4, <2>1, EstimateSteps, Zenon
  <2>3. /\ Heap!OnToCache(p, missing) = f[L] /\ f[0] = b
        /\ \A n \in 1 .. L : f[n] = UNION {Heap!Estimate(x, missing[n]) : x \in f[n - 1]}
    BY <2>2, Zenon DEF EstimatesOf
  <2> DEFINE T == {n \in Nat : n <= L => \A x \in f[n] : HeapHolds(x.pol, K) /\ DOMAIN x = {"pol", "keys"}}
  <2>4. 0 \in T
    BY <2>1, <2>3
  <2>5. ASSUME NEW n \in Nat, n \in T PROVE n + 1 \in T
    <3>1. SUFFICES ASSUME n + 1 <= L, NEW x \in f[n + 1]
                   PROVE  HeapHolds(x.pol, K) /\ DOMAIN x = {"pol", "keys"}
      OBVIOUS
    <3>2. n <= L /\ n + 1 \in 1 .. L /\ (n + 1) - 1 = n
      BY <3>1
    <3>3. PICK y \in f[n] : x \in Heap!Estimate(y, missing[n + 1])
      BY <2>3, <3>2
    <3>4. HeapHolds(y.pol, K) /\ DOMAIN y = {"pol", "keys"}
      BY <2>5, <3>2
    <3> QED
      BY <3>3, <3>4, EstimateHolds
  <2> HIDE DEF T
  <2>6. Nat \subseteq T
    BY <2>4, <2>5, Induction, Zenon
  <2>7. L \in T /\ L <= L
    BY <2>6
  <2> QED
    BY <2>3, <2>7 DEF T
<1> QED
  BY <1>2, <1>3, <1>4

LEMMA ToCacheHolds ==
    ASSUME config.policy \in Kinds, NEW p, NEW K, Holds(config.policy, p, K), NEW missing,
           NEW L \in Nat, L = Len(missing), NEW a \in OnToCache(p, missing)
    PROVE  Holds(config.policy, a.pol, K)
<1>1. CASE config.policy = "LRU" \/ config.policy = "LFU"
  <2>1. a \in LRU!OnToCache(p, missing) \/ a \in LFU!OnToCache(p, missing)
    BY <1>1 DEF OnToCache
  <2>2. a.pol = p
    BY <2>1 DEF LRU!OnToCache, LFU!OnToCache
  <2> QED
    BY <2>2
<1>2. CASE config.policy \in {"LFUS", "WLFU"}
  <2>1. a \in Heap!OnToCache(p, missing) /\ config.policy # "LRU" /\ config.policy # "LFU"
    BY <1>2 DEF OnToCache
  <2>2. HeapHolds(p, K)
    BY <1>2 DEF Holds
  <2>3. HeapHolds(a.pol, K)
    BY <2>1, <2>2, HeapToCacheHolds, Zenon
  <2> QED
    BY <2>1, <2>3, Zenon DEF Holds
<1> QED
  BY <1>1, <1>2 DEF Kinds

LEMMA QueryHolds ==
    ASSUME config.policy \in Kinds, NEW p, NEW K, Holds(config.policy, p, K)
    PROVE  Holds(config.policy, OnNewQuery(p), K)
<1>1. CASE OnNewQuery(p) = p
  BY <1>1
<1>2. CASE OnNewQuery(p) # p
  <2>0. config.policy \in {"LFUS", "WLFU"} /\ config.policy # "LRU" /\ config.policy # "LFU"
    BY <1>2 DEF OnNewQuery, Kinds
  <2>1. PICK x : x = [p EXCEPT !.weighted = {}]
    OBVIOUS
  <2>2. PICK y : y = [x EXCEPT !.otc = p.copies]
    OBVIOUS
  <2>3. PICK z : z = [y EXCEPT !.fresh = Heap!None]
    OBVIOUS
  <2>4. OnNewQuery(p) = [z EXCEPT !.freeOTC = p.free]
    BY <1>2, <2>1, <2>2, <2>3 DEF OnNewQuery, Heap!OnNewQuery
  <2>5. HeapAlike(p, x) /\ HeapAlike(x, y) /\ HeapAlike(y, z) /\ HeapAlike(z, OnNewQuery(p))
    BY <2>1, <2>2, <2>3, <2>4, Zenon DEF HeapAlike
  <2>6. HeapHolds(OnNewQuery(p), K)
    BY <2>0, <2>5, HeapOtherField, Zenon DEF Holds
  <2> QED
    BY <2>0, <2>6, Zenon DEF Holds
<1> QED
  BY <1>1, <1>2

LEMMA WeightHolds ==
    ASSUME config.policy \in Kinds, NEW p, NEW K, Holds(config.policy, p, K), NEW ks
    PROVE  Holds(config.policy, OnWeight(p, ks), K)
<1>1. CASE OnWeight(p, ks) = p
  BY <1>1
<1>2. CASE OnWeight(p, ks) # p
  <2>0. config.policy \in {"LFUS", "WLFU"} /\ config.policy # "LRU" /\ config.policy # "LFU"
    BY <1>2 DEF OnWeight
  <2>1. PICK v : v = [k \in Key |-> IF k \in ks \ p.weighted THEN p.value[k] + Weight[k] ELSE p.value[k]]
    OBVIOUS
  <2>2. PICK x : x = [p EXCEPT !.value = v]
    OBVIOUS
  <2>3. OnWeight(p, ks) = [x EXCEPT !.weighted = p.weighted \cup ks]
    BY <1>2, <2>1, <2>2 DEF OnWeight, Heap!OnWeight
  <2>4. HeapAlike(p, x) /\ HeapAlike(x, OnWeight(p, ks))
    BY <2>2, <2>3, Zenon DEF HeapAlike
  <2>5. HeapHolds(OnWeight(p, ks), K)
    BY <2>0, <2>4, HeapOtherField, Zenon DEF Holds
  <2> QED
    BY <2>0, <2>5, Zenon DEF Holds
<1> QED
  BY <1>1, <1>2

LEMMA StoreOutcome ==
    ASSUME config.policy \in Kinds, NEW p, NEW K, Holds(config.policy, p, K), ~p.crashed,
           NEW k \in Key \ K, NEW o \in OnStore(p, k)
    PROVE  \/ ~o.stored /\ Holds(config.policy, o.pol, K)
           \/ Comes(o, K, k) /\ Holds(config.policy, o.pol, (K \ o.removed) \cup {k})
<1>1. CASE config.policy = "LRU"
  <2>1. o \in LRU!OnStore(p, k) /\ config.policy # "LFU" /\ config.policy \notin {"LFUS", "WLFU"}
    BY <1>1 DEF OnStore
  <2>2. LRUHolds(p, K)
    BY <1>1 DEF Holds
  <2>3. \/ ~o.stored /\ LRUHolds(o.pol, K)
        \/ Comes(o, K, k) /\ LRUHolds(o.pol, (K \ o.removed) \cup {k})
    BY <2>1, <2>2, LRUOutcome
  <2> QED
    BY <2>1, <2>3, Zenon DEF Holds
<1>2. CASE config.policy = "LFU"
  <2>1. o \in LFU!OnStore(p, k) /\ config.policy # "LRU" /\ config.policy \notin {"LFUS", "WLFU"}
    BY <1>2 DEF OnStore
  <2>2. LFUHolds(p, K)
    BY <1>2 DEF Holds
  <2>3. \/ ~o.stored /\ LFUHolds(o.pol, K)
        \/ Comes(o, K, k) /\ LFUHolds(o.pol, (K \ o.removed) \cup {k})
    BY <2>1, <2>2, LFUOutcome
  <2> QED
    BY <2>1, <2>3, Zenon DEF Holds
<1>3. CASE config.policy \in {"LFUS", "WLFU"}
  <2>1. o \in Heap!OnStore(p, k) /\ config.policy # "LRU" /\ config.policy # "LFU"
    BY <1>3 DEF OnStore
  <2>2. HeapHolds(p, K)
    BY <1>3 DEF Holds
  <2>3. \/ ~o.stored /\ HeapHolds(o.pol, K)
        \/ Comes(o, K, k) /\ HeapHolds(o.pol, (K \ o.removed) \cup {k})
    BY <2>1, <2>2, HeapOutcome
  <2> QED
    BY <2>1, <2>3, Zenon DEF Holds
<1> QED
  BY <1>1, <1>2, <1>3 DEF Kinds

(* The store of one key, k, after those of New: from the map M to the map  *)
(* N, all for what is offered.                                             *)
Swaps(M, N, New, offered) ==
    /\ N \subseteq M \cup New
    /\ M \ N # {} => N \ M # {} /\ TotalSize(M \cup offered) > MaxSize
LEMMA SwapNext ==
    ASSUME NEW M, NEW K, NEW New, NEW offered, M \cup offered \in KeySet, Within(K), Swaps(M, K, New, offered),
           New \subseteq offered, NEW k \in offered, k \notin M, k \notin New, NEW o, Comes(o, K, k)
    PROVE  Swaps(M, (K \ o.removed) \cup {k}, New \cup {k}, offered)
<1>1. PICK N, R : N = (K \ o.removed) \cup {k} /\ R = o.removed
  OBVIOUS
<1>2. K \subseteq M \cup New /\ k \in Key \ K
  BY DEF Swaps, KeySet
<1>3. N \subseteq M \cup (New \cup {k})
  BY <1>1, <1>2
<1>4. k \in N \ M
  BY <1>1
<1>5. ASSUME M \ N # {} PROVE TotalSize(M \cup offered) > MaxSize
  <2>1. CASE M \ K # {}
    BY <2>1 DEF Swaps
  <2>2. CASE M \ K = {}
    <3>1. R # {}
      BY <1>1, <1>5, <2>2
    <3>2. TotalSize(K) + Size[k] > MaxSize
      BY <1>1, <3>1, Zenon DEF Comes
    <3>3. K \in KeySet
      BY DEF Within
    <3>4. TotalSize(K \cup {k}) = TotalSize(K) + Size[k]
      BY <1>2, <3>3, SizeFacts
    <3>5. K \cup {k} \in SUBSET (M \cup offered)
      BY <1>2
    <3>6. /\ TotalSize(K \cup {k}) <= TotalSize(M \cup offered)
          /\ TotalSize(K \cup {k}) \in Nat /\ TotalSize(M \cup offered) \in Nat
      <4>1. PICK A, B : A = M \cup offered /\ B = K \cup {k}
        OBVIOUS
      <4>2. A \in KeySet /\ B \in SUBSET A
        BY <3>5, <4>1
      <4>3. TotalSize(B) <= TotalSize(A) /\ TotalSize(A) \in Nat /\ TotalSize(B) \in Nat
        BY <4>2, SizeGrows, SizeFacts
      <4> QED
        BY <4>1, <4>3
    <3>7. MaxSize \in Nat
      BY SegmentAssumption
    <3> QED
      BY <3>2, <3>4, <3>6, <3>7
  <2> QED
    BY <2>1, <2>2
<1>6. Swaps(M, N, New \cup {k}, offered)
  BY <1>3, <1>4, <1>5 DEF Swaps
<1> QED
  BY <1>1, <1>6

(* A cache that has stored some of what is offered.                        *)
Stage(kind, d, M, New, offered) ==
    Holds(kind, d.pol, d.map) /\ Within(d.map) /\ Swaps(M, d.map, New, offered)
LEMMA StageNext ==
    ASSUME config.policy \in Kinds, NEW M, NEW New, NEW offered, M \cup offered \in KeySet, New \subseteq offered,
           NEW c, Stage(config.policy, c, M, New, offered), NEW k \in offered, k \notin M, k \notin New,
           NEW d \in StoreKey(c, k)
    PROVE  Stage(config.policy, d, M, New \cup {k}, offered)
<1>1. Holds(config.policy, c.pol, c.map) /\ Within(c.map) /\ Swaps(M, c.map, New, offered)
  BY DEF Stage
<1>2. Swaps(M, c.map, New \cup {k}, offered)
  BY <1>1 DEF Swaps
<1>3. CASE c.pol.crashed
  <2>1. d = c
    BY <1>3 DEF StoreKey
  <2> QED
    BY <1>1, <1>2, <2>1 DEF Stage
<1>4. CASE ~c.pol.crashed
  <2>1. PICK o \in OnStore(c.pol, k) :
          d = [pol |-> o.pol, map |-> IF o.stored THEN (c.map \ o.removed) \cup {k} ELSE c.map]
    BY <1>4, Zenon DEF StoreKey
  <2>2. PICK p, K : p = c.pol /\ K = c.map
    OBVIOUS
  <2>3. k \in Key \ K
    <3>1. K \subseteq M \cup New
      BY <1>1, <2>2 DEF Swaps
    <3> QED
      BY <3>1 DEF KeySet
  <2>4. \/ ~o.stored /\ Holds(config.policy, o.pol, K)
        \/ Comes(o, K, k) /\ Holds(config.policy, o.pol, (K \ o.removed) \cup {k})
    <3>1. o \in OnStore(p, k) /\ ~p.crashed /\ Holds(config.policy, p, K)
      BY <1>1, <1>4, <2>1, <2>2
    <3> QED
      BY <2>3, <3>1, StoreOutcome
  <2>5. CASE ~o.stored /\ Holds(config.policy, o.pol, K)
    <3>1. d.pol = o.pol /\ d.map = K
      BY <2>1, <2>2, <2>5
    <3> QED
      BY <1>1, <1>2, <2>2, <2>5, <3>1, Zenon DEF Stage
  <2>6. CASE Comes(o, K, k) /\ Holds(config.policy, o.pol, (K \ o.removed) \cup {k})
    <3>1. PICK N : N = (K \ o.removed) \cup {k}
      OBVIOUS
    <3>2. o.stored
      BY <2>6 DEF Comes
    <3>3. d.pol = o.pol /\ d.map = N
      BY <2>1, <2>2, <3>1, <3>2
    <3>4. PICK free : Leaves(free, N)
      BY <2>6, <3>1 DEF Comes
    <3>5. Within(N)
      <4>1. N \in KeySet /\ free \in Nat /\ free + TotalSize(N) = MaxSize
        BY <3>4 DEF Leaves
      <4>2. TotalSize(N) \in Nat
        BY <4>1, SizeFacts
      <4>3. TotalSize(N) <= MaxSize
        BY <4>1, <4>2
      <4> QED
        BY <4>1, <4>3 DEF Within
    <3>6. Swaps(M, N, New \cup {k}, offered)
      <4>1. Within(K) /\ Swaps(M, K, New, offered) /\ Comes(o, K, k)
        BY <1>1, <2>2, <2>6
      <4>2. Swaps(M, (K \ o.removed) \cup {k}, New \cup {k}, offered)
        BY <4>1, SwapNext, Zenon
      <4> QED
        BY <3>1, <4>2
    <3>7. Holds(config.policy, o.pol, N)
      BY <2>6, <3>1
    <3> QED
      BY <3>3, <3>5, <3>6, <3>7, Zenon DEF Stage
  <2> QED
    BY <2>4, <2>5, <2>6
<1> QED
  BY <1>3, <1>4

LEMMA StoreKeysHold ==
    ASSUME config.policy \in Kinds, NEW c, NEW offered, c.map \cup offered \in KeySet, offered \cap c.map = {},
           Holds(config.policy, c.pol, c.map), Within(c.map),
           NEW order \in SetToSeqs(offered), NEW d \in StoreKeys(c, order)
    PROVE  Stage(config.policy, d, c.map, offered, offered)
<1>0. IsFiniteSet(offered)
  BY FS_Subset DEF KeySet
<1>1. PICK L \in Nat : L = Cardinality(offered)
  BY <1>0, FS_CardinalityType
<1>2. order \in [1 .. L -> offered] /\ \A i, j \in 1 .. L : i # j => order[i] # order[j]
  BY <1>1, Zenon DEF SetToSeqs
<1>3. L = Len(order) /\ DOMAIN order = 1 .. L
  BY <1>2
<1>4. Firsts(order, L) = offered
  <2>1. ToSet(order) = offered
    BY <1>0, InSomeOrder
  <2> QED
    BY <1>3, <2>1, Zenon DEF ToSet, Firsts
<1>5. PICK f : StoresOf(f, c, order, L)
  BY <1>3, StoreKeysSteps, Zenon
<1>6. /\ StoreKeys(c, order) = f[L] /\ f[0] = {c}
      /\ \A n \in 1 .. L : f[n] = UNION {StoreKey(x, order[n]) : x \in f[n - 1]}
  BY <1>5, Zenon DEF StoresOf
<1>7. PICK M : M = c.map
  OBVIOUS
<1> DEFINE T == {n \in Nat : n <= L => \A x \in f[n] : Stage(config.policy, x, M, Firsts(order, n), offered)}
<1>8. 0 \in T
  <2>1. Firsts(order, 0) = {}
    BY DEF Firsts
  <2>2. Swaps(M, c.map, {}, offered)
    BY <1>7 DEF Swaps
  <2>3. Stage(config.policy, c, M, Firsts(order, 0), offered)
    BY <2>1, <2>2 DEF Stage
  <2> QED
    BY <1>6, <2>3
<1>9. ASSUME NEW n \in Nat, n \in T PROVE n + 1 \in T
  <2>1. SUFFICES ASSUME n + 1 <= L, NEW x \in f[n + 1]
                 PROVE  Stage(config.policy, x, M, Firsts(order, n + 1), offered)
    OBVIOUS
  <2>2. n <= L /\ n + 1 \in 1 .. L /\ (n + 1) - 1 = n /\ \A i \in 1 .. n : i \in 1 .. L /\ i # n + 1
    BY <2>1
  <2>3. PICK y \in f[n] : x \in StoreKey(y, order[n + 1])
    BY <1>6, <2>2
  <2>4. PICK k, New : k = order[n + 1] /\ New = Firsts(order, n)
    OBVIOUS
  <2>5. Stage(config.policy, y, M, New, offered)
    BY <1>9, <2>2, <2>4
  <2>6. k \in offered /\ k \notin M
    BY <1>2, <1>7, <2>2, <2>4
  <2>7. New \subseteq offered /\ k \notin New
    <3>1. \A i \in 1 .. n : order[i] \in offered /\ order[i] # k
      BY <1>2, <2>2, <2>4
    <3> QED
      BY <2>4, <3>1, Zenon DEF Firsts
  <2>8. Firsts(order, n + 1) = New \cup {k}
    BY <2>4 DEF Firsts
  <2>9. Stage(config.policy, x, M, New \cup {k}, offered)
    <3>1. x \in StoreKey(y, k) /\ M \cup offered \in KeySet
      BY <1>7, <2>3, <2>4
    <3> QED
      BY <2>5, <2>6, <2>7, <3>1, StageNext, Zenon
  <2> QED
    BY <2>8, <2>9
<1> HIDE DEF T
<1>a. Nat \subseteq T
  BY <1>8, <1>9, Induction, Zenon
<1>b. L \in T /\ L <= L
  BY <1>a
<1>c. Stage(config.policy, d, M, Firsts(order, L), offered)
  BY <1>6, <1>b DEF T
<1> QED
  BY <1>4, <1>7, <1>c

-----------------------------------------------------------------------------
(* In every reachable state.                                               *)

HoldsInv == Within(map) /\ Holds(config.policy, pol, map)

LEMMA HoldsStart == Init => HoldsInv
<1> SUFFICES ASSUME Init PROVE HoldsInv
  OBVIOUS
<1>1. map = {} /\ config.policy \in {"LRU", "LFU", "LFUS", "WLFU"}
  BY ConfigFacts DEF Init
<1>2. TotalSize({}) = 0
  BY SumEmpty DEF TotalSize
<1>3. {} \in KeySet
  BY FS_EmptySet DEF KeySet
<1>4. Within({}) /\ Leaves(MaxSize, {})
  BY <1>2, <1>3, SegmentAssumption DEF Within, Leaves
<1>5. CASE config.policy = "LRU"
  <2>1. pol = LRU!Empty
    BY <1>5 DEF Init, EmptyPolicy
  <2>2. LRUHolds(pol, {})
    <3>1. /\ pol \in [usage : Seq(Entry), free : Nat, crashed : {FALSE}] /\ pol.usage = <<>>
          /\ pol.free = MaxSize
      BY <2>1, SegmentAssumption DEF LRU!Empty
    <3>2. DOMAIN pol.usage = {}
      BY <3>1
    <3>3. Once(pol.usage) /\ Named(pol.usage) = {}
      BY <3>2 DEF Once, Named
    <3> QED
      BY <1>4, <3>1, <3>3 DEF LRUHolds
  <2> QED
    BY <1>1, <1>4, <1>5, <2>2 DEF HoldsInv, Holds
<1>6. CASE config.policy = "LFU"
  <2>1. pol = LFU!Empty
    BY <1>6 DEF Init, EmptyPolicy
  <2>2. /\ {"hits", "order", "minFreq", "free", "crashed"} \subseteq DOMAIN pol
        /\ pol.hits \in [Key -> Nat] /\ pol.order = <<>> /\ pol.free = MaxSize
    BY <2>1 DEF LFU!Empty
  <2>3. Listed(pol.order, {})
    <3>1. DOMAIN pol.order = {} /\ pol.order \in Seq(Element)
      BY <2>2
    <3> QED
      BY <3>1 DEF Listed, Once, Named
  <2>4. LFUHolds(pol, {})
    BY <1>4, <2>2, <2>3 DEF LFUHolds, LFUState
  <2> QED
    BY <1>1, <1>4, <1>6, <2>4 DEF HoldsInv, Holds
<1>7. CASE config.policy \in {"LFUS", "WLFU"}
  <2>1. \E perSize : pol = Heap!Empty(perSize)
    BY <1>7 DEF Init, EmptyPolicy
  <2>2. HeapHolds(pol, {})
    BY <1>4, <2>1 DEF Heap!Empty, Heap!None, HeapHolds, Ones
  <2> QED
    BY <1>1, <1>4, <1>7, <2>2 DEF HoldsInv, Holds
<1> QED
  BY <1>1, <1>5, <1>6, <1>7

LEMMA LoadsHold ==
    ASSUME CacheInv, HoldsInv, HandleLoad
    PROVE  HoldsInv'
<1>0. config' = config /\ map' = map /\ config.policy \in Kinds
  BY ConfigFacts DEF CacheInv, StateInv, HandleLoad, Kinds
<1>1. mailbox \in Seq(Message) /\ mailbox # <<>> /\ Head(mailbox).type = "Load"
  BY DEF CacheInv, StateInv, HandleLoad, Received
<1>2. PICK m \in Message : m = Head(mailbox) /\ m \in ToSet(mailbox)
  BY <1>1, Taken, ZenonT(40)
<1>3. PICK order \in Seq(Key) : order = m.order
  BY <1>1, <1>2, MessageKinds
<1> DEFINE missing == At(order, {n \in DOMAIN order : order[n] \notin map})
<1> DEFINE loaded == LoadKeys(order)
<1> DEFINE answers == IF config.mode = "CACHING_ONLY" \/ loaded.crashed
                      THEN {[pol |-> loaded, keys |-> ToSet(order) \ map]}
                      ELSE OnToCache(loaded, missing)
<1>4. PICK a \in answers : pol' = a.pol
  BY <1>2, <1>3, Zenon DEF HandleLoad
<1>5. PICK p, K : p = loaded /\ K = map
  OBVIOUS
<1>6. Holds(config.policy, p, K)
  BY <1>0, <1>5, LoadKeysHold, Zenon DEF HoldsInv
<1>9. Holds(config.policy, a.pol, K)
  <2>1. CASE a = [pol |-> loaded, keys |-> ToSet(order) \ map]
    <3> HIDE DEF loaded
    <3>1. a.pol = p
      BY <1>5, <2>1
    <3> QED
      BY <1>6, <3>1
  <2>2. CASE a # [pol |-> loaded, keys |-> ToSet(order) \ map]
    <3>1. a \in OnToCache(loaded, missing)
      BY <2>2
    <3>2. PICK r : r = missing
      OBVIOUS
    <3>3. r = At(order, NotThere(order))
      BY <3>2 DEF NotThere
    <3> HIDE DEF missing, loaded, answers
    <3>4. PICK L \in Nat : L = Len(r)
      BY <3>3, MissingKeys
    <3>5. a \in OnToCache(p, r)
      BY <1>5, <3>1, <3>2
    <3> QED
      BY <1>0, <1>6, <3>4, <3>5, ToCacheHolds, Zenon
  <2> QED
    BY <2>1, <2>2
<1> HIDE DEF missing, loaded, answers
<1>a. Within(map)' /\ Holds(config.policy, pol, map)'
  <2>1. Within(K) /\ K = map' /\ config.policy = config'.policy
    BY <1>0, <1>5 DEF HoldsInv
  <2>2. Holds(config'.policy, pol', map')
    BY <1>4, <1>9, <2>1
  <2> QED
    BY <2>1, <2>2
<1> QED
  BY <1>a DEF HoldsInv

(* A store, of what shares nothing with the map.                           *)
LEMMA StoresHold ==
    ASSUME CacheInv, OnceInv, HoldsInv, HandleStore
    PROVE  HoldsInv' /\ Swaps(map, map', Head(mailbox).keys, Head(mailbox).keys)
<1>0. config' = config /\ config.policy \in Kinds
  BY ConfigFacts DEF CacheInv, StateInv, HandleStore, Kinds
<1>1. mailbox \in Seq(Message) /\ mailbox # <<>> /\ Head(mailbox).type = "Store"
  BY DEF CacheInv, StateInv, HandleStore, Received
<1>2. PICK m \in Message : m = Head(mailbox) /\ m \in ToSet(mailbox)
  BY <1>1, Taken, ZenonT(40)
<1>3. PICK offered \in KeySet : offered = m.keys
  BY <1>1, <1>2, MessageKinds
<1>4. offered \cap map = {}
  BY <1>1, <1>2, <1>3 DEF OnceInv, StoreInv
<1>5. PICK order \in SetToSeqs(offered) :
        \E c \in StoreKeys([pol |-> pol, map |-> map], order) : pol' = c.pol /\ map' = c.map
  BY <1>2, <1>3, Zenon DEF HandleStore
<1>6. PICK b : b = [pol |-> pol, map |-> map]
  OBVIOUS
<1>7. PICK d \in StoreKeys(b, order) : pol' = d.pol /\ map' = d.map
  BY <1>5, <1>6
<1>8. b.pol = pol /\ b.map = map
  BY <1>6
<1>9. b.map \cup offered \in KeySet
  BY <1>8, FS_Union DEF HoldsInv, Within, KeySet
<1>a. Holds(config.policy, b.pol, b.map) /\ Within(b.map) /\ offered \cap b.map = {}
  BY <1>4, <1>8 DEF HoldsInv
<1>b. Stage(config.policy, d, b.map, offered, offered)
  BY <1>0, <1>7, <1>9, <1>a, StoreKeysHold, Zenon
<1>c. /\ Holds(config.policy, d.pol, d.map) /\ Within(d.map)
      /\ Swaps(map, d.map, offered, offered)
  BY <1>8, <1>b, Zenon DEF Stage
<1>d. Holds(config'.policy, pol', map') /\ Within(map')
  BY <1>0, <1>7, <1>c
<1> QED
  BY <1>2, <1>3, <1>7, <1>c, <1>d DEF HoldsInv

LEMMA HoldsStep ==
    ASSUME CacheInv, OnceInv, HoldsInv, [Next]_vars
    PROVE  HoldsInv'
<1>0. config.policy \in Kinds
  BY ConfigFacts DEF CacheInv, StateInv, Kinds
<1>1. CASE HandleNewQuery
  <2>1. pol' = OnNewQuery(pol) /\ config' = config /\ map' = map
    BY <1>1 DEF HandleNewQuery
  <2>2. Holds(config.policy, OnNewQuery(pol), map)
    BY <1>0, QueryHolds, Zenon DEF HoldsInv
  <2>3. Holds(config'.policy, pol', map') /\ Within(map')
    BY <2>1, <2>2 DEF HoldsInv
  <2> QED
    BY <2>3 DEF HoldsInv
<1>2. CASE HandleWeight
  <2>1. pol' = OnWeight(pol, Head(mailbox).keys) /\ config' = config /\ map' = map
    BY <1>2 DEF HandleWeight
  <2>2. Holds(config.policy, OnWeight(pol, Head(mailbox).keys), map)
    BY <1>0, WeightHolds, Zenon DEF HoldsInv
  <2>3. Holds(config'.policy, pol', map') /\ Within(map')
    BY <2>1, <2>2 DEF HoldsInv
  <2> QED
    BY <2>3 DEF HoldsInv
<1>3. CASE HandleLoad
  BY <1>3, LoadsHold
<1>4. CASE HandleStore
  BY <1>4, StoresHold
<1>5. CASE UNCHANGED <<config, pol, map>>
  <2>1. Holds(config'.policy, pol', map') /\ Within(map')
    BY <1>5 DEF HoldsInv
  <2> QED
    BY <2>1 DEF HoldsInv
<1>6. \/ HandleNewQuery \/ HandleWeight \/ HandleLoad \/ HandleStore
      \/ UNCHANGED <<config, pol, map>>
  BY DEF Next, vars, NewQuery, LateStore, OnStart, OnCacheLoadResponse, PullUp, PushDown
<1> QED
  BY <1>1, <1>2, <1>3, <1>4, <1>5, <1>6

HoldsSoFar == ~overtaken => HoldsInv

LEMMA HoldsInvariance ==
    ASSUME Apart
    PROVE  Spec => [](CacheInv /\ OnceSoFar /\ HoldsSoFar)
<1>1. Init => HoldsSoFar
  BY HoldsStart DEF HoldsSoFar
<1>2. CacheInv /\ FlagInv /\ OnceSoFar /\ HoldsSoFar /\ [Next]_vars => HoldsSoFar'
  <2> SUFFICES ASSUME CacheInv, FlagInv, OnceSoFar, HoldsSoFar, [Next]_vars, ~overtaken' PROVE HoldsInv'
    BY DEF HoldsSoFar
  <2>1. ~overtaken
    BY FlagStep
  <2> QED
    BY <2>1, HoldsStep DEF OnceSoFar, HoldsSoFar
<1>3. Spec => [](CacheInv /\ FlagInv /\ OnceSoFar)
  BY OnceInvariance
<1> QED
  BY <1>1, <1>2, <1>3, PTL DEF Spec

(* When no query scans a segment twice, then until a query overtakes a     *)
(* late store of a segment it reads, the policy takes for cached exactly   *)
(* the segments the map of the cache holds, for each of the four policies, *)
(* whatever is loaded, stored, evicted and weighted in between: the keys a *)
(* policy names for removal are its own, and each is dropped on both       *)
(* sides.                                                                  *)
THEOREM CacheAndPolicyAgree ==
    ASSUME Apart
    PROVE  Spec => []CacheMatchesPolicy
<1>1. CacheInv /\ HoldsSoFar => CacheMatchesPolicy
  <2> SUFFICES ASSUME CacheInv, HoldsInv, ~pol.crashed PROVE PolicyKeys = map
    BY DEF CacheMatchesPolicy, HoldsSoFar
  <2>0. config.policy \in {"LRU", "LFU", "LFUS", "WLFU"}
    BY ConfigFacts DEF CacheInv, StateInv
  <2>1. CASE config.policy = "LRU"
    <3>1. Named(pol.usage) = map /\ PolicyKeys = LRU!Keys(pol)
      BY <2>1 DEF HoldsInv, Holds, LRUHolds, PolicyKeys
    <3> QED
      BY <3>1, Zenon DEF LRU!Keys, Named
  <2>2. CASE config.policy = "LFU"
    <3>1. Listed(pol.order, map) /\ PolicyKeys = LFU!Keys(pol)
      BY <2>2 DEF HoldsInv, Holds, LFUHolds, LFUState, PolicyKeys
    <3> QED
      BY <3>1, ListedKeys
  <2>3. CASE config.policy \in {"LFUS", "WLFU"}
    BY <2>3 DEF HoldsInv, Holds, HeapHolds, PolicyKeys, Heap!Keys
  <2> QED
    BY <2>0, <2>1, <2>2, <2>3
<1> QED
  BY <1>1, HoldsInvariance, PTL

(* Until then, too, the free size that a policy counts up and down with    *)
(* every store and every eviction is the maximum less the bytes of the     *)
(* cached segments.                                                        *)
THEOREM FreeSizeIsExact ==
    ASSUME Apart
    PROVE  Spec => []SizesAddUp
<1>1. CacheInv /\ HoldsSoFar => SizesAddUp
  <2> SUFFICES ASSUME CacheInv, HoldsInv, ~pol.crashed PROVE pol.free + TotalSize(map) = MaxSize
    BY DEF SizesAddUp, TotalSize, HoldsSoFar
  <2>0. config.policy \in {"LRU", "LFU", "LFUS", "WLFU"}
    BY ConfigFacts DEF CacheInv, StateInv
  <2>1. Leaves(pol.free, map)
    BY <2>0 DEF HoldsInv, Holds, LRUHolds, LFUHolds, HeapHolds
  <2> QED
    BY <2>1 DEF Leaves
<1> QED
  BY <1>1, HoldsInvariance, PTL

(* What the cache is offered: the segments of the store it handles next.   *)
Offered == IF Received("Store") THEN Head(mailbox).keys ELSE {}
OfferInv == Offered \in SUBSET Key
LEMMA OfferedKeys == CacheInv => OfferInv
<1> SUFFICES ASSUME CacheInv PROVE Offered \in SUBSET Key
  BY DEF OfferInv
<1>1. CASE Received("Store")
  <2>1. mailbox \in Seq(Message) /\ mailbox # <<>> /\ Head(mailbox).type = "Store"
    BY <1>1 DEF CacheInv, StateInv, Received
  <2>2. PICK m \in Message : m = Head(mailbox)
    BY <2>1, Taken, ZenonT(40)
  <2>3. m.keys \in KeySet
    BY <2>1, <2>2, MessageKinds
  <2> QED
    BY <1>1, <2>2, <2>3 DEF Offered, KeySet
<1>2. CASE ~Received("Store")
  BY <1>2 DEF Offered
<1> QED
  BY <1>1, <1>2

LEMMA TotalIsTotal == ASSUME NEW K PROVE Bounded!Total(K) = TotalSize(K)
  BY Zenon DEF Bounded!Total, TotalSize, SumFunctionOnSet, FoldFunctionOnSet, MapThenFoldSet,
               Bounded!SumFunctionOnSet, Bounded!FoldFunctionOnSet, Bounded!MapThenFoldSet

(* The cache with any of its policies is a cache of bounded size: as long  *)
(* as no query overtakes a late store of a segment it reads, a store       *)
(* message of several segments brings in nothing but those, leaves no more *)
(* bytes in the map than the maximum, and drops a segment only if another  *)
(* came in and all of them together would not have fitted.                 *)
THEOREM CacheIsBounded ==
    ASSUME Apart
    PROVE  Spec /\ []~overtaken => ImplementsBoundedCache
<1>1. Init => Bounded!Init
  <2> SUFFICES ASSUME Init PROVE map = {} /\ Offered = {} /\ ~overtaken
    BY Zenon DEF Bounded!Init, Offered
  <2> QED
    BY DEF Init, Offered, Received
<1>2. /\ CacheInv /\ OnceSoFar /\ HoldsSoFar /\ ~overtaken /\ (~overtaken)' /\ OfferInv' /\ [Next]_vars
      => [Bounded!Next]_(Bounded!vars)
  <2> SUFFICES ASSUME CacheInv, OnceInv, HoldsInv, ~overtaken, ~overtaken', OfferInv', [Next]_vars
               PROVE  Bounded!Next
    BY DEF OnceSoFar, HoldsSoFar
  <2>1. Offered' \in SUBSET Key
    BY DEF OfferInv
  <2>0. (~overtaken)' = (~overtaken) /\ (~overtaken)' \in BOOLEAN
    BY Zenon
  <2>2. CASE map' = map
    <3>1. Bounded!Offer
      BY <2>0, <2>1, <2>2, Zenon DEF Bounded!Offer, Offered
    <3> QED
      BY <3>1, Zenon DEF Bounded!Next
  <2>3. CASE HandleStore
    <3>1. HoldsInv' /\ Swaps(map, map', Head(mailbox).keys, Head(mailbox).keys)
      BY <2>3, StoresHold
    <3>2. Offered = Head(mailbox).keys
      BY <2>3 DEF HandleStore, Offered
    <3>3. TotalSize(map') <= MaxSize
      BY <3>1 DEF HoldsInv, Within
    <3>4. /\ map' \in SUBSET (map \cup Offered)
          /\ map \ map' # {} => map' \ map # {} /\ TotalSize(map \cup Offered) > MaxSize
      BY <3>1, <3>2 DEF Swaps
    <3>5. Bounded!Total(map') <= MaxSize
      BY <3>3, TotalIsTotal, Zenon
    <3>6. map \ map' # {} => map' \ map # {} /\ Bounded!Total(map \cup Offered) > MaxSize
      BY <3>4, TotalIsTotal, Zenon
    <3>7. Bounded!Store
      BY <2>0, <2>1, <3>4, <3>5, <3>6, Zenon DEF Bounded!Store, Offered
    <3> QED
      BY <3>7 DEF Bounded!Next
  <2>4. map' = map \/ HandleStore
    BY DEF Next, vars, HandleNewQuery, HandleWeight, HandleLoad, NewQuery, LateStore, OnStart,
           OnCacheLoadResponse, PullUp, PushDown
  <2> QED
    BY <2>2, <2>3, <2>4
<1>3. Spec => [](CacheInv /\ OnceSoFar /\ HoldsSoFar)
  BY HoldsInvariance
<1> QED
  BY <1>1, <1>2, <1>3, OfferedKeys, PTL DEF Spec, ImplementsBoundedCache, Bounded!Spec
=============================================================================
