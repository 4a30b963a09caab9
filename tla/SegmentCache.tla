----------------------------- MODULE SegmentCache -----------------------------
(***************************************************************************)
(* The segment cache and the operators that use it.  One actor holds the    *)
(* cache (fpdb-executor/src/cache/SegmentCacheActor.cpp around               *)
(* fpdb-cache/src/SegmentCache.cpp); the scans of the CACHING_ONLY and       *)
(* HYBRID plans ask it for the segments they need, read the rest from S3,    *)
(* and send it what it wants to keep.  A segment is one column of one        *)
(* partition.                                                                *)
(*                                                                          *)
(* For each scan the plan has a CacheLoad operator, a scan that fetches the  *)
(* missing columns worth caching and, in HYBRID, a scan that lets S3 compute *)
(* the other ones (PrePToS3PTransformer.cpp).  The three share the record    *)
(* scan[s].  A cache handler runs alone, from one message to the next.       *)
(***************************************************************************)
EXTENDS Naturals, SequencesExt, SequencePositions

CONSTANTS
  Partition, Column,
  Scan,        \* the scans of a query
  Plans,       \* what the scans of a query read: [Scan -> [part, proj, pred]]
  Configs,     \* [policy, mode, airmettle]: the configurations of the program
  Size,        \* bytes of each segment
  MaxSize,     \* bytes the cache may hold
  Enough,      \* LFU, LFUS, WLFU: free bytes that may count as ample
  SizeT,       \* the modulus of size_t
  Weight,      \* WLFU: the weight a scan reports for a segment
  MaxQueries   \* bound on the number of queries

Key == Partition \X Column

ASSUME SegmentAssumption ==
  /\ Size \in [Key -> Nat \ {0}] /\ Weight \in [Key -> Nat]
  /\ MaxSize \in Nat /\ Enough \in Nat /\ SizeT \in Nat
  /\ SizeT > MaxSize + SumFunctionOnSet(Size, Key)
  /\ MaxQueries \in Nat /\ IsFiniteSet(Column)
  /\ Plans # {}
  /\ Plans \subseteq [Scan -> [part : Partition, proj : SUBSET Column, pred : SUBSET Column]]
  /\ Configs \subseteq [policy : {"LRU", "LFU", "LFUS", "WLFU"},
                        mode : {"CACHING_ONLY", "HYBRID"}, airmettle : BOOLEAN]

VARIABLES
  config,    \* the configuration, fixed from the start
  map,       \* the keys in SegmentCache::map_
  pol,       \* the state of the caching policy
  mailbox,   \* the messages to the cache actor
  query,     \* queries started
  plan,      \* the plan of the current query
  scan,      \* per scan, where its operators are
  late,      \* stores still to be sent by scans that have completed
  overtaken  \* history: a query has started on a segment such a store is about

vars == <<config, map, pol, mailbox, query, plan, scan, late, overtaken>>

LRU  == INSTANCE LRUCachingPolicy
LFU  == INSTANCE LFUCachingPolicy
Heap == INSTANCE HeapCachingPolicy

----------------------------------------------------------------------------
(* The policy of the configuration.                                         *)

EmptyPolicy(kind) ==
  CASE kind = "LRU" -> LRU!Empty
    [] kind = "LFU" -> LFU!Empty
    [] OTHER -> Heap!Empty(kind = "LFUS")

\* The keys the policy takes for cached: usageQueue_, keyMap_, keySetInCache_.
PolicyKeys ==
  CASE config.policy = "LRU" -> LRU!Keys(pol)
    [] config.policy = "LFU" -> LFU!Keys(pol)
    [] OTHER -> Heap!Keys(pol)

OnLoad(p, k) ==
  CASE config.policy = "LRU" -> LRU!OnLoad(p, k)
    [] config.policy = "LFU" -> LFU!OnLoad(p, k)
    [] OTHER -> Heap!OnLoad(p, k)

OnStore(p, k) ==
  CASE config.policy = "LRU" -> LRU!OnStore(p, k)
    [] config.policy = "LFU" -> LFU!OnStore(p, k)
    [] OTHER -> Heap!OnStore(p, k)

OnToCache(p, missing) ==
  CASE config.policy = "LRU" -> LRU!OnToCache(p, missing)
    [] config.policy = "LFU" -> LFU!OnToCache(p, missing)
    [] OTHER -> Heap!OnToCache(p, missing)

OnNewQuery(p) ==
  IF config.policy \in {"LRU", "LFU"} THEN p ELSE Heap!OnNewQuery(p)

\* SegmentCacheActor::weight passes the weights on to WLFU alone.
OnWeight(p, ks) == IF config.policy = "WLFU" THEN Heap!OnWeight(p, ks) ELSE p

----------------------------------------------------------------------------
(* The cache actor.                                                         *)

\* Mutant: the keys the policy gave up stay in the map.
StoreKeyKeepsEvicted(c, k) ==
  IF c.pol.crashed THEN {c}
  ELSE {[pol |-> o.pol, map |-> IF o.stored THEN c.map \cup {k} ELSE c.map] :
          o \in OnStore(c.pol, k)}

\* SegmentCache::store of key k, on a cache with map c.map and policy c.pol.
StoreKey(c, k) ==
  IF c.pol.crashed THEN {c}
  ELSE {[pol |-> o.pol,
         map |-> IF o.stored THEN (c.map \ o.removed) \cup {k} ELSE c.map] :
          o \in OnStore(c.pol, k)}

\* The outcomes of storing the keys one after another.
StoreKeys(c, order) ==
  LET after[n \in 0..Len(order)] ==
        IF n = 0 THEN {c} ELSE UNION {StoreKey(d, order[n]) : d \in after[n - 1]}
  IN  after[Len(order)]

Received(type) == ~pol.crashed /\ mailbox # <<>> /\ Head(mailbox).type = type

HandleNewQuery ==
  /\ Received("NewQuery")
  /\ mailbox' = Tail(mailbox)
  /\ pol' = OnNewQuery(pol)
  /\ UNCHANGED <<config, map, query, plan, scan, late, overtaken>>

\* Mutant: the policy is told of hits only.
LoadKeysFound(order) == FoldLeft(OnLoad, pol, SelectSeq(order, LAMBDA k : k \in map))

\* SegmentCache::load tells the policy of every key, found or not.
LoadKeys(order) ==
  LET after[n \in 0..Len(order)] ==
        IF n = 0 THEN pol ELSE OnLoad(after[n - 1], order[n])
  IN  after[Len(order)]

\* Mutant: the answer names segments, not columns.
WholeKeys(ks) == ks

ColumnNames(ks) == {k[2] : k \in ks}

\* Every key is looked up; of the missing ones the policy says which to fetch
\* for the cache.  With no pushdown they all have to be fetched.
HandleLoad ==
  /\ Received("Load")
  /\ mailbox' = Tail(mailbox)
  /\ LET s == Head(mailbox).scan
         order == Head(mailbox).order
         loaded == LoadKeys(order)
         missing == At(order, {n \in DOMAIN order : order[n] \notin map})
         answers == IF config.mode = "CACHING_ONLY" \/ loaded.crashed
                    THEN {[pol |-> loaded, keys |-> ToSet(order) \ map]}
                    ELSE OnToCache(loaded, missing)
     IN  \E a \in answers :
           /\ pol' = a.pol
           /\ scan' = IF a.pol.crashed THEN scan
                      ELSE [scan EXCEPT ![s] =
                              [@ EXCEPT !.at = "answered",
                                        !.hit = ColumnNames(ToSet(order) \cap map),
                                        !.toCache = ColumnNames(a.keys)]]
  /\ UNCHANGED <<config, map, query, plan, late, overtaken>>

\* The segments of a store message come out of a hash map, in any order.
HandleStore ==
  /\ Received("Store")
  /\ mailbox' = Tail(mailbox)
  /\ \E order \in SetToSeqs(Head(mailbox).keys) :
       \E c \in StoreKeys([pol |-> pol, map |-> map], order) :
         pol' = c.pol /\ map' = c.map
  /\ UNCHANGED <<config, query, plan, scan, late, overtaken>>

HandleWeight ==
  /\ Received("Weight")
  /\ mailbox' = Tail(mailbox)
  /\ pol' = OnWeight(pol, Head(mailbox).keys)
  /\ UNCHANGED <<config, map, query, plan, scan, late, overtaken>>

----------------------------------------------------------------------------
(* The operators of a query.                                                *)

Columns(s) == plan[s].proj \cup plan[s].pred

KeysOf(s, columns) == {plan[s].part} \X columns

Idle == [at |-> "idle", hit |-> {}, toCache |-> {}, push |-> {}, needed |-> TRUE,
         pulled |-> TRUE, pushed |-> TRUE]

\* A scan is over when its operators have completed.
Over(s) == scan[s].at \in {"idle", "reading"} /\ scan[s].pulled /\ scan[s].pushed

\* Execution::boot: the cache hears of a new query before any operator starts.
\* The client starts a query when the last one has ended, whether or not the late
\* stores of its scans have been sent.
NewQuery ==
  /\ query < MaxQueries
  /\ \A s \in Scan : Over(s)
  /\ query' = query + 1
  /\ plan' \in Plans
  /\ overtaken' = (overtaken \/ \E l \in late, s \in Scan :
                                 l[3].keys \cap ({plan'[s].part} \X (plan'[s].proj \cup plan'[s].pred)) # {})
  /\ mailbox' = Append(mailbox, [type |-> "NewQuery"])
  /\ scan' = [s \in Scan |->
                IF plan'[s].proj \cup plan'[s].pred = {} THEN Idle
                ELSE [Idle EXCEPT !.at = "start"]]
  /\ UNCHANGED <<config, map, pol, late>>

\* CacheLoadPOp::onStart.  The columns come from a set, in any order.
OnStart(s) ==
  /\ scan[s].at = "start"
  /\ \E order \in SetToSeqs(KeysOf(s, Columns(s))) :
       mailbox' = Append(mailbox, [type |-> "Load", scan |-> s, order |-> order])
  /\ scan' = [scan EXCEPT ![s].at = "asked"]
  /\ UNCHANGED <<config, map, pol, query, plan, late, overtaken>>

\* Mutant: the predicate columns are forgotten.
CachingResultNeededAnyway(s) ==
  LET here == scan[s].hit \cup scan[s].toCache
  IN  IF config.airmettle THEN here = Columns(s) ELSE plan[s].proj \cap here # {}

\* Is the part of the result that comes from here of any use?
CachingResultNeeded(s) ==
  LET here == scan[s].hit \cup scan[s].toCache
  IN  IF config.airmettle THEN here = Columns(s)
      ELSE plan[s].pred \subseteq here /\ plan[s].proj \cap here # {}

\* CacheLoadPOp::onCacheLoadResponse: tell the two scans what to read.
OnCacheLoadResponse(s) ==
  /\ scan[s].at = "answered"
  /\ LET hybrid == config.mode = "HYBRID"
         needed == CachingResultNeeded(s)
         rest == Columns(s) \ (scan[s].hit \cup scan[s].toCache)
     IN  scan' = [scan EXCEPT ![s] =
                    [@ EXCEPT !.at = "reading", !.pulled = FALSE, !.pushed = ~hybrid,
                              !.needed = hybrid => needed,
                              !.push = IF ~hybrid THEN {}
                                       ELSE IF needed THEN rest ELSE plan[s].proj]]
  /\ UNCHANGED <<config, map, pol, mailbox, query, plan, late, overtaken>>

\* Mutant: the scan reads the columns of its plan, not those of the message.
FetchedAll(s) == Columns(s)

\* processScanMessage: the columns to read are those the message names.
Fetched(s) == scan[s].toCache

\* The scan to cache, S3SelectScanAbstractPOp::onCacheLoadResponse.  When its
\* rows are needed it sends the store first and completes then; otherwise it
\* completes, reads, and sends the store at some later time.
PullUp(s) ==
  /\ scan[s].at = "reading" /\ ~scan[s].pulled
  /\ scan' = [scan EXCEPT ![s].pulled = TRUE]
  /\ LET m == [type |-> "Store", keys |-> KeysOf(s, Fetched(s))]
     IN  /\ mailbox' = IF m.keys # {} /\ scan[s].needed THEN Append(mailbox, m) ELSE mailbox
         /\ late' = IF m.keys # {} /\ ~scan[s].needed THEN late \cup {<<query, s, m>>} ELSE late
  /\ UNCHANGED <<config, map, pol, query, plan, overtaken>>

LateStore ==
  \E l \in late :
    /\ late' = late \ {l}
    /\ mailbox' = Append(mailbox, l[3])
    /\ UNCHANGED <<config, map, pol, query, plan, scan, overtaken>>

\* The pushdown scan reports what the filter was worth for the scan's segments.
PushDown(s) ==
  /\ scan[s].at = "reading" /\ ~scan[s].pushed
  /\ scan' = [scan EXCEPT ![s].pushed = TRUE]
  /\ mailbox' = IF scan[s].push = {} THEN mailbox
                ELSE Append(mailbox, [type |-> "Weight", keys |-> KeysOf(s, Columns(s))])
  /\ UNCHANGED <<config, map, pol, query, plan, late, overtaken>>

----------------------------------------------------------------------------

Init ==
  /\ config \in Configs
  /\ map = {}
  /\ pol = EmptyPolicy(config.policy)
  /\ mailbox = <<>>
  /\ query = 0
  /\ plan = CHOOSE p \in Plans : TRUE
  /\ scan = [s \in Scan |-> Idle]
  /\ late = {}
  /\ overtaken = FALSE

Next ==
  \/ HandleNewQuery \/ HandleLoad \/ HandleStore \/ HandleWeight
  \/ NewQuery \/ LateStore
  \/ \E s \in Scan : OnStart(s) \/ OnCacheLoadResponse(s) \/ PullUp(s) \/ PushDown(s)

Spec == Init /\ [][Next]_vars

----------------------------------------------------------------------------
(* Properties.                                                              *)

Pending == {mailbox[i] : i \in DOMAIN mailbox} \cup {l[3] : l \in late}

TypeOK ==
  /\ config \in Configs /\ plan \in Plans /\ overtaken \in BOOLEAN
  /\ map \subseteq Key
  /\ query \in 0..MaxQueries
  /\ \A m \in Pending : m.type \in {"NewQuery", "Load", "Store", "Weight"}
  /\ \A s \in Scan :
       /\ scan[s].at \in {"idle", "start", "asked", "answered", "reading"}
       /\ UNION {scan[s].hit, scan[s].toCache, scan[s].push} \subseteq Column

\* The policy and the cache agree on what is cached: the policy forgets the keys
\* it names for removal, the cache those it is told of, and a hit is a hit for
\* both.  So it is while no query overtakes a late store of a segment it reads
\* (the scans of S3SelectScanAbstractPOp.cpp go on caching after they complete).
CacheMatchesPolicy == ~pol.crashed /\ ~overtaken => PolicyKeys = map

\* The free size, kept by counting in every policy, is what the cached segments
\* leave of the maximum: no store or eviction is counted twice or not at all,
\* while no late store is overtaken.
SizesAddUp ==
  ~pol.crashed /\ ~overtaken => pol.free + SumFunctionOnSet(Size, map) = MaxSize

\* LFU, LFUS and WLFU throw on a stored or weighted key that no load has shown
\* them: with loads, stores and weights of several scans in one mailbox, every
\* store and weight on its way is about loaded keys.
OnlyLoadedKeys ==
  (config.policy # "LRU" /\ ~pol.crashed) =>
     \A m \in Pending : m.type \in {"Store", "Weight"} => \A k \in m.keys : pol.hits[k] > 0

\* No segment is on its way into the cache that is there already, or twice: what
\* a load calls missing is fetched by one scan, and cached before it is asked
\* for again, unless a query asks for it while its store is late, be it late by
\* one query or by several.  (The policies count a key stored twice as two
\* segments.)
StoredOnce ==
  ~pol.crashed /\ ~overtaken =>
     /\ \A m \in Pending : m.type = "Store" => m.keys \cap map = {}
     /\ \A i, j \in DOMAIN mailbox :
          (i < j /\ mailbox[i].type = "Store" /\ mailbox[j].type = "Store")
             => mailbox[i].keys \cap mailbox[j].keys = {}

\* "if resultNeeded = true, missedPushdownColumnNames are all in
\* projectedColumnNames_" (CacheLoadPOp.cpp): whatever the cache held and the
\* policy chose, the columns merged for a scan are the projected ones, each from
\* one place, and what is filtered here has all its predicate columns here.
EachColumnOnce ==
  \A s \in Scan : scan[s].at = "reading" =>
     LET here == IF scan[s].needed THEN scan[s].hit \cup scan[s].toCache ELSE {}
     IN  /\ scan[s].push \cap here = {}
         /\ plan[s].proj \subseteq here \cup scan[s].push
         /\ scan[s].push \subseteq plan[s].proj
         /\ here # {} => plan[s].pred \subseteq here

\* Whatever the policy, and however often a segment is stored, the cache is a
\* cache of bounded size, and until a late store is overtaken it drops nothing
\* without need: see BoundedCache.
Bounded ==
  INSTANCE BoundedCache
    WITH stored <- map, offered <- IF Received("Store") THEN Head(mailbox).keys ELSE {},
         once <- ~overtaken
ImplementsBoundedCache == Bounded!Spec

\* No sequence of queries makes the policy read from an empty container: the least
\* frequency of LFU when no class is left, the front of the heap onToCache
\* estimates with.
NeverCrashes == ~pol.crashed
===============================================================================
