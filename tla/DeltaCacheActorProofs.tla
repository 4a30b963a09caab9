----------------------- MODULE DeltaCacheActorProofs -----------------------
(***************************************************************************)
(* Proofs about the delta cache, for any partitions, keys and workloads.   *)
(***************************************************************************)
EXTENDS DeltaCacheActor, WellFoundedInduction, TLAPS

-----------------------------------------------------------------------------
(* Facts about the operators on deltas.                                    *)

(* A set of naturals that is not empty has a least element: the first      *)
(* record of a key that BinlogParser keeps is well defined.                *)
LEMMA LeastExists ==
    ASSUME NEW S \in SUBSET Nat, S # {}
    PROVE  \E i \in S : \A j \in S : i <= j
<1>1. PICK i \in S : \A j \in S : ~(<<j, i>> \in OpToRel(<, Nat))
  BY NatLessThanWellFounded, WFMin, Zenon
<1>2. \A j \in S : ~(j < i)
  BY <1>1 DEF OpToRel
<1> QED
  BY <1>2

(* What a pump brings for a partition is a delta, of changes that are in   *)
(* the binlog.                                                             *)
LEMMA UnreadRows ==
    ASSUME TypeOK, NEW p \in Part
    PROVE  Unread(p) \in Rows
<1> DEFINE C(k) == ChangesOf(p, k, readPoint + 1, Len(binlog))
           keys == {k \in Key : C(k) # {}}
<1>1. \A k \in keys : C(k) \in SUBSET (1 .. MaxChanges) /\ C(k) # {}
  BY CacheAssumption DEF TypeOK, ChangesOf
<1>2. \A k \in keys : (CHOOSE i \in C(k) : \A j \in C(k) : i <= j) \in 1 .. MaxChanges
  <2> SUFFICES ASSUME NEW k \in keys
               PROVE  (CHOOSE i \in C(k) : \A j \in C(k) : i <= j) \in 1 .. MaxChanges
    OBVIOUS
  <2> HIDE DEF C
  <2>1. C(k) \in SUBSET Nat /\ C(k) # {}
    BY <1>1, CacheAssumption
  <2>2. \E i \in C(k) : \A j \in C(k) : i <= j
    BY <2>1, LeastExists
  <2> QED
    BY <1>1, <2>2
<1>3. Unread(p) = [k \in keys |-> CHOOSE i \in C(k) : \A j \in C(k) : i <= j]
  BY DEF Unread
<1> HIDE DEF C
<1>4. keys \in SUBSET Key /\ Unread(p) \in [keys -> 1 .. MaxChanges]
  BY <1>2, <1>3
<1> QED
  BY <1>4 DEF Rows

(* A stored delta is put before the others.                                *)
LEMMA StoreDelta ==
    ASSUME NEW d \in Seq(Delta), NEW r \in Rows, NEW ts \in Nat
    PROVE  /\ Store(d, r, ts) \in Seq(Delta)
           /\ Len(Store(d, r, ts)) = Len(d) + 1
           /\ Store(d, r, ts)[1] = [rows |-> r, ts |-> ts]
           /\ \A i \in DOMAIN d : Store(d, r, ts)[i + 1] = d[i]
BY DEF Store, Delta

(* The rows of one delta laid over those of another are again a delta.     *)
LEMMA OverRows ==
    ASSUME NEW d \in Rows, NEW e \in Rows
    PROVE  Over(d, e) \in Rows
<1>1. PICK S \in SUBSET Key : d \in [S -> 1 .. MaxChanges]
  BY DEF Rows
<1>2. PICK T \in SUBSET Key : e \in [T -> 1 .. MaxChanges]
  BY DEF Rows
<1>3. S \cup T \in SUBSET Key /\ Over(d, e) \in [S \cup T -> 1 .. MaxChanges]
  BY <1>1, <1>2 DEF Over
<1> QED
  BY <1>3 DEF Rows

(* A merged delta is a delta.                                              *)
LEMMA MergeRows ==
    ASSUME NEW d \in Seq(Delta), d # <<>>
    PROVE  Merge(d) \in Rows
<1>1. Len(d) \in Nat /\ 1 \in DOMAIN d /\ Len(d) \in DOMAIN d
  OBVIOUS
<1>2. d[1] \in Delta /\ d[Len(d)] \in Delta
  BY <1>1
<1>3. d[1].rows \in Rows /\ d[Len(d)].rows \in Rows
  BY <1>2 DEF Delta
<1> QED
  BY <1>3, OverRows DEF Merge

-----------------------------------------------------------------------------
(* The pump and the two handlers that change the cache.                    *)

(* deltaPump leaves lists of deltas, a read point at the end of the binlog *)
(* and a timestamp that is not beyond it.                                  *)
LEMMA PumpType ==
    ASSUME TypeOK, DeltaPump
    PROVE  /\ cache' \in [Part -> Seq(Delta)]
           /\ readPoint' = Len(binlog)
           /\ lastTimestamp' \in 0 .. Len(binlog)
<1>1. \A p \in Part : Pumped[p] \in Seq(Delta)
  <2> SUFFICES ASSUME NEW p \in Part
               PROVE  Pumped[p] \in Seq(Delta)
    OBVIOUS
  <2>1. cache[p] \in Seq(Delta) /\ Len(binlog) \in Nat
    BY DEF TypeOK
  <2>2. Unread(p) \in Rows
    BY UnreadRows
  <2>3. Store(cache[p], Unread(p), Len(binlog)) \in Seq(Delta)
    BY <2>1, <2>2, StoreDelta
  <2> QED
    BY <2>1, <2>3 DEF Pumped
<1>2. Pumped \in [Part -> Seq(Delta)]
  BY <1>1 DEF Pumped
<1> QED
  BY <1>2 DEF DeltaPump, TypeOK

(* Every handler of the DeltaCacheActor, and every query, leaves the cache, *)
(* the mailbox and what has been loaded well typed.                        *)
THEOREM TypeCorrect == Spec => []TypeOK
<1>1. Init => TypeOK
  <2> SUFFICES ASSUME Init PROVE TypeOK
    OBVIOUS
  <2> QED
    BY CacheAssumption DEF Init, TypeOK
<1>2. TypeOK /\ [Next]_vars => TypeOK'
  <2> SUFFICES ASSUME TypeOK, [Next]_vars
               PROVE  TypeOK'
    OBVIOUS
  <2> USE CacheAssumption
  <2>1. CASE HandleLoad
    <3> DEFINE m == Head(mailbox)
    <3>1. m \in Message /\ Tail(mailbox) \in Seq(Message) /\ m.part \in Part
      BY <2>1 DEF HandleLoad, TypeOK, Message
    <3>2. CASE query # queryId
      <4>1. DeltaPump /\ queryId' = query /\ cut' = Len(binlog)
        BY <2>1, <3>2 DEF HandleLoad, LoadMemoryDelta
      <4>2. /\ cache' \in [Part -> Seq(Delta)]
            /\ readPoint' = Len(binlog)
            /\ lastTimestamp' \in 0 .. Len(binlog)
        BY <4>1, PumpType
      <4>3. loaded' \in [Part -> Seq(Delta)]
        BY <2>1, <3>1, <4>2 DEF HandleLoad, LoadMemoryDelta, TypeOK
      <4>4. /\ mailbox' = Tail(mailbox) /\ binlog' = binlog /\ query' = query /\ ticks' = ticks
            /\ phase' = [phase EXCEPT ![m.part] = "loaded"]
        BY <2>1 DEF HandleLoad
      <4> HIDE DEF m
      <4> QED
        BY <3>1, <4>1, <4>2, <4>3, <4>4 DEF TypeOK
    <3>3. CASE query = queryId
      BY <2>1, <3>1, <3>3 DEF HandleLoad, LoadMemoryDelta, TypeOK
    <3> QED
      BY <3>2, <3>3
  <2>2. CASE HandleMerged
    <3> DEFINE m == Head(mailbox)
    <3>1. m \in Message /\ Tail(mailbox) \in Seq(Message)
      BY <2>2 DEF HandleMerged, TypeOK
    <3>2. m.part \in Part /\ m.rows \in Rows
      BY <2>2, <3>1 DEF HandleMerged, Message
    <3>3. Store(<<>>, m.rows, lastTimestamp) \in Seq(Delta)
      <4>1. lastTimestamp \in Nat /\ <<>> \in Seq(Delta)
        BY DEF TypeOK
      <4> QED
        BY <3>2, <4>1, StoreDelta
    <3>4. cache' \in [Part -> Seq(Delta)]
      BY <2>2, <3>2, <3>3 DEF HandleMerged, StoreMergedDelta, TypeOK
    <3> QED
      BY <2>2, <3>1, <3>4 DEF HandleMerged, TypeOK, queryVars
  <2>3. CASE HandlePump
    <3>1. DeltaPump /\ Tail(mailbox) \in Seq(Message)
      BY <2>3 DEF HandlePump, TypeOK
    <3>2. /\ cache' \in [Part -> Seq(Delta)]
          /\ readPoint' = Len(binlog)
          /\ lastTimestamp' \in 0 .. Len(binlog)
      BY <3>1, PumpType
    <3> QED
      BY <2>3, <3>1, <3>2 DEF HandlePump, TypeOK, queryVars
  <2>4. CASE StartQuery
    BY <2>4 DEF StartQuery, TypeOK, actorVars
  <2>5. CASE Tick
    <3>1. [type |-> "PUMP"] \in Message
      BY DEF Message
    <3> QED
      BY <2>5, <3>1 DEF Tick, TypeOK, actorVars, queryVars
  <2>6. ASSUME NEW p \in Part, Request(p) PROVE TypeOK'
    <3>1. [type |-> "LOAD", part |-> p] \in Message
      BY DEF Message
    <3> QED
      BY <2>6, <3>1 DEF Request, TypeOK, actorVars
  <2>7. ASSUME NEW p \in Part, MergeDone(p) PROVE TypeOK'
    <3>1. loaded[p] # <<>> => [type |-> "MERGED", part |-> p, rows |-> Merge(loaded[p])] \in Message
      BY MergeRows DEF Message, TypeOK
    <3>2. mailbox' \in Seq(Message)
      BY <2>7, <3>1 DEF MergeDone, TypeOK
    <3> QED
      BY <2>7, <3>2 DEF MergeDone, TypeOK, actorVars
  <2>8. ASSUME NEW p \in Part, NEW k \in Key, Commit(p, k) PROVE TypeOK'
    <3>1. [part |-> p, key |-> k] \in Change
      BY DEF Change
    <3>2. binlog' \in Seq(Change) /\ Len(binlog') = Len(binlog) + 1
      BY <2>8, <3>1 DEF Commit, TypeOK
    <3> QED
      BY <2>8, <3>2 DEF Commit, TypeOK, actorVars, queryVars
  <2>9. CASE UNCHANGED vars
    BY <2>9 DEF vars, actorVars, queryVars, TypeOK
  <2> QED
    BY <2>1, <2>2, <2>3, <2>4, <2>5, <2>6, <2>7, <2>8, <2>9 DEF Next, Idle
<1> QED
  BY <1>1, <1>2, PTL DEF Spec

-----------------------------------------------------------------------------
(* The order of the deltas.                                                *)

(* No delta is dated after the last change that was pumped: what makes     *)
(* NewestFirst inductive, since a pump dates its deltas after that.        *)
DatedByPump == \A p \in Part : \A i \in DOMAIN cache[p] : cache[p][i].ts <= readPoint

OrderInv == TypeOK /\ DatedByPump /\ NewestFirst

(* deltaPump stores its deltas in front, later than all that were there,   *)
(* and dates none of them beyond the read point.                           *)
LEMMA PumpOrder ==
    ASSUME OrderInv, DeltaPump
    PROVE  DatedByPump' /\ NewestFirst'
<1>1. \A p \in Part : Len(binlog) = readPoint => DOMAIN Unread(p) = {}
  BY DEF Unread, ChangesOf, OrderInv, TypeOK
<1> SUFFICES ASSUME NEW p \in Part
             PROVE  /\ \A i \in DOMAIN cache'[p] : cache'[p][i].ts <= Len(binlog)
                    /\ \A i, j \in DOMAIN cache'[p] : i < j => cache'[p][i].ts > cache'[p][j].ts
  BY DEF DatedByPump, NewestFirst, DeltaPump
<1>2. cache'[p] = Pumped[p] /\ cache[p] \in Seq(Delta) /\ Len(binlog) \in Nat /\ readPoint \in 0 .. Len(binlog)
  BY DEF DeltaPump, OrderInv, TypeOK
<1>3. \A i \in DOMAIN cache[p] : cache[p][i].ts \in Nat /\ cache[p][i].ts <= readPoint
  <2>1. \A i \in DOMAIN cache[p] : cache[p][i] \in Delta
    BY <1>2
  <2> QED
    BY <2>1 DEF OrderInv, DatedByPump, Delta
<1>4. CASE DOMAIN Unread(p) = {}
  <2>1. cache'[p] = cache[p]
    BY <1>2, <1>4 DEF Pumped
  <2> QED
    BY <1>2, <1>3, <2>1 DEF OrderInv, NewestFirst
<1>5. CASE DOMAIN Unread(p) # {}
  <2> DEFINE d == Store(cache[p], Unread(p), Len(binlog))
  <2>1. cache'[p] = d /\ readPoint < Len(binlog)
    BY <1>1, <1>2, <1>5 DEF Pumped
  <2>2. /\ d \in Seq(Delta)
        /\ Len(d) = Len(cache[p]) + 1
        /\ d[1] = [rows |-> Unread(p), ts |-> Len(binlog)]
        /\ \A i \in DOMAIN cache[p] : d[i + 1] = cache[p][i]
    BY <1>2, UnreadRows, StoreDelta DEF OrderInv
  <2> HIDE DEF d
  <2>3. \A i \in DOMAIN d : i = 1 \/ (i - 1 \in DOMAIN cache[p] /\ d[i] = cache[p][i - 1])
    BY <1>2, <2>2
  <2>4. d[1].ts = Len(binlog)
    BY <2>2
  <2>5. \A i \in DOMAIN d : d[i].ts <= Len(binlog)
    BY <1>2, <1>3, <2>3, <2>4
  <2>6. ASSUME NEW i \in DOMAIN d, NEW j \in DOMAIN d, i < j
        PROVE  d[i].ts > d[j].ts
    <3>1. i \in Nat \ {0} /\ j \in Nat \ {0} /\ j # 1
      BY <2>2, <2>6
    <3>2. j - 1 \in DOMAIN cache[p] /\ d[j] = cache[p][j - 1]
      BY <2>3, <2>6, <3>1
    <3>3. CASE i = 1
      BY <1>2, <1>3, <2>1, <2>4, <3>2, <3>3
    <3>4. CASE i # 1
      <4>1. i - 1 \in DOMAIN cache[p] /\ d[i] = cache[p][i - 1]
        BY <2>3, <2>6, <3>4
      <4>2. i - 1 < j - 1
        BY <2>6, <3>1
      <4> QED
        BY <3>2, <4>1, <4>2 DEF OrderInv, NewestFirst
    <3> QED
      BY <3>3, <3>4
  <2> QED
    BY <2>1, <2>5, <2>6
<1> QED
  BY <1>4, <1>5

(* However pumps, loads, stores of merged deltas and periodic ticks        *)
(* interleave, the deltas of a partition stay in strictly descending order *)
(* of their timestamps: DeltaCache::store puts the newest in front.        *)
THEOREM DeltasNewestFirst == Spec => []NewestFirst
<1>1. Init => DatedByPump /\ NewestFirst
  BY DEF Init, DatedByPump, NewestFirst
<1>2. TypeOK /\ TypeOK' /\ DatedByPump /\ NewestFirst /\ [Next]_vars => DatedByPump' /\ NewestFirst'
  <2> SUFFICES ASSUME TypeOK, TypeOK', DatedByPump, NewestFirst, [Next]_vars
               PROVE  DatedByPump' /\ NewestFirst'
    OBVIOUS
  <2>1. CASE DeltaPump
    BY <2>1, PumpOrder DEF OrderInv
  <2>2. CASE UNCHANGED <<cache, readPoint>>
    BY <2>2 DEF DatedByPump, NewestFirst
  <2>3. CASE HandleMerged
    <3> DEFINE m == Head(mailbox)
    <3>1. m.part \in Part /\ m.rows \in Rows
      BY <2>3 DEF HandleMerged, TypeOK, Message
    <3>2. /\ cache' = [cache EXCEPT ![m.part] = Store(<<>>, m.rows, lastTimestamp)]
          /\ readPoint' = readPoint
      BY <2>3 DEF HandleMerged, StoreMergedDelta
    <3>3. /\ Len(Store(<<>>, m.rows, lastTimestamp)) = 1
          /\ Store(<<>>, m.rows, lastTimestamp)[1].ts = lastTimestamp
          /\ Store(<<>>, m.rows, lastTimestamp) \in Seq(Delta)
      <4>1. lastTimestamp \in Nat /\ <<>> \in Seq(Delta) /\ Len(<<>>) = 0
        BY DEF TypeOK
      <4> HIDE DEF m
      <4>2. Store(<<>>, m.rows, lastTimestamp)[1] = [rows |-> m.rows, ts |-> lastTimestamp]
        BY <3>1, <4>1, StoreDelta
      <4>3. /\ Len(Store(<<>>, m.rows, lastTimestamp)) = Len(<<>>) + 1
            /\ Store(<<>>, m.rows, lastTimestamp) \in Seq(Delta)
        BY <3>1, <4>1, StoreDelta
      <4> QED
        BY <4>1, <4>2, <4>3
    <3>4. ASSUME NEW p \in Part
          PROVE  \/ cache'[p] = cache[p]
                 \/ cache'[p] \in Seq(Delta) /\ Len(cache'[p]) = 1 /\ cache'[p][1].ts = lastTimestamp
      BY <3>2, <3>3 DEF TypeOK
    <3>5. lastTimestamp <= readPoint
      BY DEF TypeOK
    <3>6. DatedByPump'
      BY <3>2, <3>4, <3>5 DEF DatedByPump
    <3>7. NewestFirst'
      BY <3>2, <3>4 DEF NewestFirst
    <3> QED
      BY <3>6, <3>7
  <2>4. CASE HandleLoad
    BY <2>1, <2>2, <2>4 DEF HandleLoad, LoadMemoryDelta
  <2> QED
    BY <2>1, <2>2, <2>3, <2>4
    DEF Next, HandlePump, StartQuery, Tick, Idle, Request, MergeDone, Commit, actorVars, vars
<1> QED
  BY <1>1, <1>2, TypeCorrect, PTL DEF Spec

-----------------------------------------------------------------------------
(* A sequence of queries without periodic pumps.                           *)

(* Every query reads every partition.                                      *)
ReadsAll == QueryParts \subseteq {Part}

(* The requests for the deltas of a partition and the merged deltas sent   *)
(* back, by their place in the mailbox.                                    *)
Loads(p) == {i \in DOMAIN mailbox : mailbox[i].type = "LOAD" /\ mailbox[i].part = p}
Stores(p) == {i \in DOMAIN mailbox : mailbox[i].type = "MERGED" /\ mailbox[i].part = p}

(* A partition asks once per query, and its merged delta is sent once,     *)
(* after what it loaded: between the pump of a query and the store nothing *)
(* else of the partition is under way.                                     *)
OneAtATime ==
    \A p \in Part :
        /\ \A i \in Loads(p) : phase[p] = "asked"
        /\ \A i, j \in Loads(p) : i = j
        /\ \A i \in Stores(p) : query = queryId => phase[p] = "done"
        /\ \A i, j \in Stores(p) : i = j

(* Until a query has pumped it has loaded nothing, and what the last query *)
(* stores comes before all its requests.                                   *)
StoresFirst ==
    query # queryId =>
        /\ \A p \in Part : phase[p] \in {"start", "asked"}
        /\ \A p, q \in Part : \A i \in Loads(p), j \in Stores(q) : j < i

NoPump == \A i \in DOMAIN mailbox : mailbox[i].type # "PUMP"

(* No query, no deltas; and then all the partitions take part in it.       *)
AllTakePart ==
    \A p \in Part : IF query = 0 THEN phase[p] = "idle" /\ cache[p] = <<>> ELSE phase[p] # "idle"

(* What a DeltaMerge has loaded, or merged and sent, is still what the     *)
(* cache holds of the partition.                                           *)
CacheUntouched ==
    \A p \in Part :
        /\ phase[p] = "loaded" => loaded[p] = cache[p]
        /\ \A i \in Stores(p) : cache[p] # <<>> /\ mailbox[i].rows = Merge(cache[p])

(* A second delta waits for the query that pumped it to merge the two.     *)
TailIsMerged ==
    \A p \in Part :
        /\ Len(cache[p]) <= 2
        /\ Len(cache[p]) = 2 => \/ Stores(p) # {}
                                \/ query = queryId /\ phase[p] \in {"start", "asked", "loaded"}

Quiet == OneAtATime /\ StoresFirst /\ NoPump /\ AllTakePart /\ CacheUntouched /\ TailIsMerged
QueryInv == QueriesOnly => Quiet

(* No key changes twice beyond the read point, and the pump of the current *)
(* query was the last.                                                     *)
UnreadOnce ==
    \A p \in Part, k \in Key : \A i, j \in ChangesOf(p, k, readPoint + 1, Len(binlog)) : i = j
CutIsRead == QueriesOnly => (query = queryId => cut = readPoint)

(* Taking a message from the mailbox moves the others up.                  *)
LEMMA TakeMessage ==
    ASSUME TypeOK, mailbox # <<>>, mailbox' = Tail(mailbox)
    PROVE  /\ 1 \in DOMAIN mailbox /\ Head(mailbox) = mailbox[1]
           /\ \A i \in DOMAIN mailbox' :
                i + 1 \in DOMAIN mailbox /\ mailbox'[i] = mailbox[i + 1] /\ i \in Nat \ {0}
           /\ \A i \in DOMAIN mailbox : i = 1 \/ (i - 1 \in DOMAIN mailbox' /\ mailbox'[i - 1] = mailbox[i])
           /\ \A p : \A i \in Loads(p)' : i + 1 \in Loads(p) /\ i \in Nat \ {0}
           /\ \A p : \A i \in Stores(p)' :
                i + 1 \in Stores(p) /\ mailbox'[i] = mailbox[i + 1] /\ i \in Nat \ {0}
           /\ \A p : \A i \in Stores(p) : i = 1 \/ i - 1 \in Stores(p)'
<1>1. mailbox \in Seq(Message) /\ Len(mailbox) \in Nat \ {0} /\ DOMAIN mailbox = 1 .. Len(mailbox)
  BY DEF TypeOK
<1>2. /\ 1 \in DOMAIN mailbox /\ Head(mailbox) = mailbox[1]
      /\ Len(mailbox') = Len(mailbox) - 1 /\ DOMAIN mailbox' = 1 .. Len(mailbox) - 1
      /\ \A i \in 1 .. Len(mailbox) - 1 : mailbox'[i] = mailbox[i + 1]
  BY <1>1
<1>3. \A i \in DOMAIN mailbox' :
        i + 1 \in DOMAIN mailbox /\ mailbox'[i] = mailbox[i + 1] /\ i \in Nat \ {0}
  BY <1>1, <1>2
<1>4. \A i \in DOMAIN mailbox : i = 1 \/ (i - 1 \in DOMAIN mailbox' /\ mailbox'[i - 1] = mailbox[i])
  BY <1>1, <1>2
<1> QED
  BY <1>2, <1>3, <1>4 DEF Loads, Stores

(* A message that is sent is the last one of the mailbox.                  *)
LEMMA SendMessage ==
    ASSUME TypeOK, NEW m \in Message, mailbox' = Append(mailbox, m)
    PROVE  /\ \A i \in DOMAIN mailbox : i \in DOMAIN mailbox' /\ mailbox'[i] = mailbox[i]
                                        /\ i \in Nat /\ i < Len(mailbox) + 1
           /\ \A i \in DOMAIN mailbox' : \/ i \in DOMAIN mailbox /\ mailbox'[i] = mailbox[i]
                                         \/ i = Len(mailbox) + 1 /\ mailbox'[i] = m
           /\ \A p : \A i \in Loads(p)' :
                i \in Loads(p) \/ (i = Len(mailbox) + 1 /\ m.type = "LOAD" /\ m.part = p)
           /\ \A p : \A i \in Stores(p)' :
                \/ i \in Stores(p) /\ mailbox'[i] = mailbox[i]
                \/ i = Len(mailbox) + 1 /\ m.type = "MERGED" /\ m.part = p /\ mailbox'[i] = m
           /\ \A p : Stores(p) \subseteq Stores(p)'
           /\ m.type = "MERGED" => Len(mailbox) + 1 \in Stores(m.part)'
<1>1. mailbox \in Seq(Message) /\ Len(mailbox) \in Nat /\ DOMAIN mailbox = 1 .. Len(mailbox)
  BY DEF TypeOK
<1>2. /\ Len(mailbox') = Len(mailbox) + 1 /\ DOMAIN mailbox' = 1 .. Len(mailbox) + 1
      /\ \A i \in DOMAIN mailbox : mailbox'[i] = mailbox[i]
      /\ mailbox'[Len(mailbox) + 1] = m
  BY <1>1
<1>3. \A i \in DOMAIN mailbox : i \in DOMAIN mailbox' /\ mailbox'[i] = mailbox[i]
                                /\ i \in Nat /\ i < Len(mailbox) + 1
  BY <1>1, <1>2
<1>4. \A i \in DOMAIN mailbox' : \/ i \in DOMAIN mailbox /\ mailbox'[i] = mailbox[i]
                                 \/ i = Len(mailbox) + 1 /\ mailbox'[i] = m
  BY <1>1, <1>2
<1>5. Len(mailbox) + 1 \in DOMAIN mailbox'
  BY <1>1, <1>2
<1> QED
  BY <1>2, <1>3, <1>4, <1>5 DEF Loads, Stores

(* The lists of a pump are at most one longer than before.                 *)
LEMMA PumpLength ==
    ASSUME TypeOK, DeltaPump, NEW p \in Part
    PROVE  Len(cache'[p]) <= Len(cache[p]) + 1 /\ Len(cache[p]) \in Nat
<1>1. cache[p] \in Seq(Delta) /\ Len(binlog) \in Nat /\ Unread(p) \in Rows
  BY UnreadRows DEF TypeOK
<1>2. Len(Store(cache[p], Unread(p), Len(binlog))) = Len(cache[p]) + 1
  BY <1>1, StoreDelta, ZenonT(40)
<1>3. cache'[p] = IF DOMAIN Unread(p) = {} THEN cache[p] ELSE Store(cache[p], Unread(p), Len(binlog))
  BY DEF DeltaPump, Pumped
<1> QED
  BY <1>1, <1>2, <1>3

(* loadMemoryDelta.  The first request of a query finds every store of the *)
(* last query done, and pumps; a later one leaves the cache as it is.      *)
LEMMA LoadQuiet ==
    ASSUME TypeOK, TypeOK', Quiet, HandleLoad
    PROVE  Quiet'
<1>0. PICK q \in Part : q = Head(mailbox).part
  BY DEF HandleLoad, TypeOK, Message
<1>1. /\ mailbox # <<>> /\ mailbox' = Tail(mailbox) /\ Head(mailbox).type = "LOAD"
      /\ phase' = [phase EXCEPT ![q] = "loaded"] /\ query' = query
      /\ LoadMemoryDelta(q, query)
  BY <1>0 DEF HandleLoad
<1>2. /\ 1 \in DOMAIN mailbox /\ Head(mailbox) = mailbox[1]
      /\ \A i \in DOMAIN mailbox' :
           i + 1 \in DOMAIN mailbox /\ mailbox'[i] = mailbox[i + 1] /\ i \in Nat \ {0}
      /\ \A p : \A i \in Loads(p)' : i + 1 \in Loads(p) /\ i \in Nat \ {0}
      /\ \A p : \A i \in Stores(p)' :
           i + 1 \in Stores(p) /\ mailbox'[i] = mailbox[i + 1] /\ i \in Nat \ {0}
      /\ \A p : \A i \in Stores(p) : i = 1 \/ i - 1 \in Stores(p)'
  BY <1>1, TakeMessage
<1>3. q \in Part
  BY <1>0
<1>4. 1 \in Loads(q) /\ phase[q] = "asked" /\ query # 0
  <2>1. 1 \in Loads(q)
    BY <1>0, <1>1, <1>2 DEF Loads
  <2>2. phase[q] = "asked"
    BY <1>3, <2>1 DEF Quiet, OneAtATime
  <2> QED
    BY <1>3, <2>1, <2>2 DEF Quiet, AllTakePart
<1>5. \A p \in Part : phase'[p] = IF p = q THEN "loaded" ELSE phase[p]
  BY <1>1, <1>3 DEF TypeOK
<1>6. Loads(q)' = {}
  <2>1. \A i \in Loads(q)' : i + 1 = 1
    BY <1>2, <1>3, <1>4 DEF Quiet, OneAtATime
  <2> QED
    BY <1>2, <2>1
<1>7. query' = queryId' /\ loaded' = [loaded EXCEPT ![q] = cache'[q]]
  BY <1>1 DEF LoadMemoryDelta
<1>8. \A p \in Part : Stores(p)' # {} => query = queryId
  <2> SUFFICES ASSUME NEW p \in Part, NEW i \in Stores(p)', query # queryId
               PROVE  FALSE
    OBVIOUS
  <2>1. i + 1 < 1
    BY <1>2, <1>3, <1>4 DEF Quiet, StoresFirst
  <2> QED
    BY <1>2, <2>1
<1>9. OneAtATime'
  <2> SUFFICES ASSUME NEW p \in Part
               PROVE  /\ \A i \in Loads(p)' : phase'[p] = "asked"
                      /\ \A i, j \in Loads(p)' : i = j
                      /\ \A i \in Stores(p)' : phase'[p] = "done"
                      /\ \A i, j \in Stores(p)' : i = j
    BY DEF OneAtATime
  <2>1. \A i \in Loads(p)' : phase'[p] = "asked"
    BY <1>2, <1>5, <1>6 DEF Quiet, OneAtATime
  <2>2. \A i, j \in Loads(p)' : i = j
    <3>1. \A i, j \in Loads(p)' : i + 1 = j + 1 /\ i \in Nat /\ j \in Nat
      BY <1>2 DEF Quiet, OneAtATime
    <3> QED
      BY <3>1
  <2>3. \A i, j \in Stores(p)' : i = j
    <3>1. \A i, j \in Stores(p)' : i + 1 = j + 1 /\ i \in Nat /\ j \in Nat
      BY <1>2 DEF Quiet, OneAtATime
    <3> QED
      BY <3>1
  <2>4. \A i \in Stores(p)' : phase[p] = "done"
    BY <1>2, <1>8 DEF Quiet, OneAtATime
  <2> QED
    BY <2>1, <2>2, <2>3, <2>4, <1>4, <1>5
<1>10. StoresFirst'
  BY <1>7 DEF StoresFirst
<1>11. NoPump'
  BY <1>2 DEF Quiet, NoPump
<1>12. AllTakePart'
  BY <1>1, <1>4, <1>5 DEF Quiet, AllTakePart
<1>13. CASE query = queryId
  <2>1. cache' = cache /\ queryId' = queryId
    BY <1>1, <1>13 DEF LoadMemoryDelta
  <2>2. CacheUntouched'
    <3> SUFFICES ASSUME NEW p \in Part
                 PROVE  /\ phase'[p] = "loaded" => loaded'[p] = cache'[p]
                        /\ \A i \in Stores(p)' : cache'[p] # <<>> /\ mailbox'[i].rows = Merge(cache'[p])
      BY DEF CacheUntouched
    <3>1. phase'[p] = "loaded" => loaded'[p] = cache'[p]
      BY <1>3, <1>5, <1>7, <2>1 DEF Quiet, CacheUntouched, TypeOK
    <3>2. \A i \in Stores(p)' : cache[p] # <<>> /\ mailbox'[i].rows = Merge(cache[p])
      BY <1>2 DEF Quiet, CacheUntouched
    <3> QED
      BY <3>1, <3>2, <2>1
  <2>3. TailIsMerged'
    <3> SUFFICES ASSUME NEW p \in Part, Len(cache[p]) = 2, Stores(p)' = {}
                 PROVE  phase'[p] \in {"start", "asked", "loaded"}
      BY <1>7, <2>1 DEF TailIsMerged, Quiet
    <3>1. Stores(p) = {}
      <4>1. 1 \notin Stores(p)
        BY <1>1, <1>2 DEF Stores
      <4> QED
        BY <1>2, <4>1
    <3> QED
      BY <1>5, <3>1 DEF Quiet, TailIsMerged
  <2> QED
    BY <1>9, <1>10, <1>11, <1>12, <2>2, <2>3 DEF Quiet
<1>14. CASE query # queryId
  <2>1. DeltaPump
    BY <1>1, <1>14 DEF LoadMemoryDelta
  <2>2. \A p \in Part : Stores(p)' = {} /\ Stores(p) = {}
    <3>1. \A p \in Part : Stores(p)' = {}
      BY <1>8, <1>14
    <3>2. \A p \in Part : 1 \notin Stores(p)
      BY <1>1, <1>2 DEF Stores
    <3> QED
      BY <1>2, <3>1, <3>2
  <2>3. CacheUntouched'
    <3>1. \A p \in Part : phase'[p] = "loaded" => loaded'[p] = cache'[p]
      BY <1>3, <1>5, <1>7, <1>14 DEF Quiet, StoresFirst, TypeOK
    <3> QED
      BY <2>2, <3>1 DEF CacheUntouched
  <2>4. TailIsMerged'
    <3> SUFFICES ASSUME NEW p \in Part
                 PROVE  Len(cache'[p]) <= 2 /\ phase'[p] \in {"start", "asked", "loaded"}
      BY <1>7 DEF TailIsMerged
    <3>1. Len(cache[p]) <= 2 /\ Len(cache[p]) # 2
      BY <1>14, <2>2 DEF Quiet, TailIsMerged
    <3>2. Len(cache'[p]) <= Len(cache[p]) + 1 /\ cache[p] \in Seq(Delta) /\ cache'[p] \in Seq(Delta)
      <4>1. cache[p] \in Seq(Delta) /\ cache'[p] \in Seq(Delta)
        BY DEF TypeOK
      <4> QED
        BY ONLY <2>1, <4>1, PumpLength, TypeOK, p \in Part
    <3>3. phase'[p] \in {"start", "asked", "loaded"}
      BY <1>5, <1>14 DEF Quiet, StoresFirst
    <3>4. Len(cache'[p]) <= 2
      <4>1. PICK n \in Nat : n = Len(cache[p])
        BY ONLY <3>2
      <4>2. PICK m \in Nat : m = Len(cache'[p])
        BY ONLY <3>2
      <4>3. n <= 2 /\ n # 2 /\ m <= n + 1
        BY <3>1, <3>2, <4>1, <4>2
      <4>4. m <= 2
        BY ONLY <4>3
      <4> QED
        BY <4>2, <4>4
    <3> QED
      BY <3>3, <3>4
  <2> QED
    BY <1>9, <1>10, <1>11, <1>12, <2>3, <2>4 DEF Quiet
<1> QED
  BY <1>13, <1>14

(* storeMergedDelta leaves one delta of the partition.                     *)
LEMMA MergedQuiet ==
    ASSUME TypeOK, Quiet, HandleMerged
    PROVE  Quiet'
<1> DEFINE rows == Head(mailbox).rows
<1>0. PICK q \in Part : q = Head(mailbox).part
  BY DEF HandleMerged, TypeOK, Message
<1>1. /\ mailbox # <<>> /\ mailbox' = Tail(mailbox) /\ Head(mailbox).type = "MERGED"
      /\ phase' = phase /\ query' = query /\ queryId' = queryId /\ loaded' = loaded
      /\ cache' = [cache EXCEPT ![q] = Store(<<>>, rows, lastTimestamp)]
  BY <1>0 DEF HandleMerged, StoreMergedDelta, queryVars
<1>2. /\ 1 \in DOMAIN mailbox /\ Head(mailbox) = mailbox[1]
      /\ \A i \in DOMAIN mailbox' :
           i + 1 \in DOMAIN mailbox /\ mailbox'[i] = mailbox[i + 1] /\ i \in Nat \ {0}
      /\ \A p : \A i \in Loads(p)' : i + 1 \in Loads(p) /\ i \in Nat \ {0}
      /\ \A p : \A i \in Stores(p)' :
           i + 1 \in Stores(p) /\ mailbox'[i] = mailbox[i + 1] /\ i \in Nat \ {0}
      /\ \A p : \A i \in Stores(p) : i = 1 \/ i - 1 \in Stores(p)'
  BY <1>1, TakeMessage
<1>3. q \in Part /\ rows \in Rows
  BY <1>0, <1>1 DEF TypeOK, Message
<1>4. 1 \in Stores(q)
  BY <1>0, <1>1, <1>2 DEF Stores
<1>5. Stores(q)' = {}
  <2>1. \A i \in Stores(q)' : i + 1 = 1
    BY <1>2, <1>3, <1>4 DEF Quiet, OneAtATime
  <2> QED
    BY <1>2, <2>1
<1>6. \A p \in Part : p # q => cache'[p] = cache[p]
  BY <1>1, <1>3 DEF TypeOK
<1>7. Len(cache'[q]) = 1
  <2>1. lastTimestamp \in Nat /\ <<>> \in Seq(Delta) /\ Len(<<>>) = 0
    BY DEF TypeOK
  <2>2. Len(Store(<<>>, rows, lastTimestamp)) = Len(<<>>) + 1
    BY <1>3, <2>1, StoreDelta
  <2> QED
    BY <1>1, <1>3, <2>1, <2>2 DEF TypeOK
<1>8. phase[q] # "loaded" /\ phase[q] # "idle"
  <2>1. query = queryId => phase[q] = "done"
    BY <1>3, <1>4 DEF Quiet, OneAtATime
  <2>2. query # queryId => phase[q] \in {"start", "asked"}
    BY <1>3 DEF Quiet, StoresFirst
  <2> QED
    BY <2>1, <2>2
<1>9. OneAtATime'
  <2> SUFFICES ASSUME NEW p \in Part
               PROVE  /\ \A i \in Loads(p)' : phase[p] = "asked"
                      /\ \A i, j \in Loads(p)' : i = j
                      /\ \A i \in Stores(p)' : query = queryId => phase[p] = "done"
                      /\ \A i, j \in Stores(p)' : i = j
    BY <1>1 DEF OneAtATime
  <2>1. \A i, j \in Loads(p)' : i + 1 = j + 1 /\ i \in Nat /\ j \in Nat
    BY <1>2 DEF Quiet, OneAtATime
  <2>2. \A i, j \in Stores(p)' : i + 1 = j + 1 /\ i \in Nat /\ j \in Nat
    BY <1>2 DEF Quiet, OneAtATime
  <2>3. /\ \A i \in Loads(p)' : phase[p] = "asked"
        /\ \A i \in Stores(p)' : query = queryId => phase[p] = "done"
    BY <1>2 DEF Quiet, OneAtATime
  <2> QED
    BY <2>1, <2>2, <2>3
<1>10. StoresFirst'
  <2>1. ASSUME query # queryId, NEW p \in Part, NEW r \in Part, NEW i \in Loads(p)', NEW j \in Stores(r)'
        PROVE  j < i
    <3>1. j + 1 < i + 1 /\ i \in Nat /\ j \in Nat
      BY <1>2, <2>1 DEF Quiet, StoresFirst
    <3> QED
      BY <3>1
  <2> QED
    BY <1>1, <2>1 DEF Quiet, StoresFirst
<1>11. NoPump'
  BY <1>2 DEF Quiet, NoPump
<1>12. AllTakePart'
  <2>1. query # 0
    BY <1>3, <1>8 DEF Quiet, AllTakePart
  <2> QED
    BY <1>1, <2>1 DEF Quiet, AllTakePart
<1>13. CacheUntouched'
  <2> SUFFICES ASSUME NEW p \in Part
               PROVE  /\ phase[p] = "loaded" => loaded[p] = cache'[p]
                      /\ \A i \in Stores(p)' : cache'[p] # <<>> /\ mailbox'[i].rows = Merge(cache'[p])
    BY <1>1 DEF CacheUntouched
  <2>1. CASE p = q
    BY <1>5, <1>8, <2>1
  <2>2. CASE p # q
    BY <1>2, <1>6, <2>2 DEF Quiet, CacheUntouched
  <2> QED
    BY <2>1, <2>2
<1>14. TailIsMerged'
  <2> SUFFICES ASSUME NEW p \in Part
               PROVE  /\ Len(cache'[p]) <= 2
                      /\ Len(cache'[p]) = 2 => \/ Stores(p)' # {}
                                               \/ query = queryId /\ phase[p] \in {"start", "asked", "loaded"}
    BY <1>1 DEF TailIsMerged
  <2>1. CASE p = q
    <3>1. Len(cache'[p]) = 1
      BY <1>7, <2>1
    <3> QED
      BY <3>1
  <2>2. CASE p # q
    <3>1. Stores(p) # {} => Stores(p)' # {}
      <4>1. 1 \notin Stores(p)
        BY <1>0, <1>2, <2>2 DEF Stores
      <4> QED
        BY <1>2, <4>1
    <3> QED
      BY <1>6, <2>2, <3>1 DEF Quiet, TailIsMerged
  <2> QED
    BY <2>1, <2>2
<1> QED
  BY <1>9, <1>10, <1>11, <1>12, <1>13, <1>14 DEF Quiet

(* A query starts when the requests of the last one are answered: what is  *)
(* left in the mailbox are merged deltas.                                  *)
LEMMA StartQuiet ==
    ASSUME TypeOK, Quiet, ReadsAll, StartQuery
    PROVE  Quiet'
<1>1. /\ mailbox' = mailbox /\ cache' = cache /\ queryId' = queryId /\ query' = query + 1
      /\ \A p \in Part : phase[p] \in {"idle", "done"}
  BY DEF StartQuery, actorVars
<1>2. \A p \in Part : phase'[p] = "start"
  BY DEF StartQuery, ReadsAll
<1>3. query' # queryId' /\ query' # 0
  BY <1>1 DEF TypeOK
<1>4. \A p \in Part : Loads(p) = {}
  BY <1>1 DEF Quiet, OneAtATime
<1>5. \A p : Loads(p)' = Loads(p) /\ Stores(p)' = Stores(p)
  BY <1>1 DEF Loads, Stores
<1>6. OneAtATime'
  <2>1. \A p \in Part : Loads(p)' = {} /\ \A i, j \in Stores(p)' : i = j
    BY <1>4, <1>5 DEF Quiet, OneAtATime
  <2> QED
    BY <1>3, <2>1 DEF OneAtATime
<1>7. StoresFirst'
  <2>1. \A p \in Part : Loads(p)' = {}
    BY <1>4, <1>5
  <2> QED
    BY <1>2, <2>1 DEF StoresFirst
<1>8. NoPump'
  BY <1>1 DEF Quiet, NoPump
<1>9. AllTakePart'
  BY <1>2, <1>3 DEF AllTakePart
<1>10. CacheUntouched'
  BY <1>1, <1>2, <1>5 DEF Quiet, CacheUntouched
<1>11. TailIsMerged'
  <2>1. \A p \in Part : Len(cache[p]) <= 2 /\ (Len(cache[p]) = 2 => Stores(p) # {})
    BY <1>1 DEF Quiet, TailIsMerged
  <2> QED
    BY <1>1, <1>5, <2>1 DEF TailIsMerged
<1> QED
  BY <1>6, <1>7, <1>8, <1>9, <1>10, <1>11 DEF Quiet

(* A cache handler sends its request behind everything else.               *)
LEMMA RequestQuiet ==
    ASSUME TypeOK, Quiet, NEW q \in Part, Request(q)
    PROVE  Quiet'
<1> DEFINE m == [type |-> "LOAD", part |-> q]
<1>1. /\ phase[q] = "start" /\ phase' = [phase EXCEPT ![q] = "asked"]
      /\ mailbox' = Append(mailbox, m) /\ cache' = cache
      /\ query' = query /\ queryId' = queryId /\ loaded' = loaded
  BY DEF Request, actorVars
<1>2. m \in Message
  BY DEF Message
<1>3. /\ \A i \in DOMAIN mailbox : i \in DOMAIN mailbox' /\ mailbox'[i] = mailbox[i]
                                   /\ i \in Nat /\ i < Len(mailbox) + 1
      /\ \A i \in DOMAIN mailbox' : \/ i \in DOMAIN mailbox /\ mailbox'[i] = mailbox[i]
                                    \/ i = Len(mailbox) + 1 /\ mailbox'[i] = m
      /\ \A p : \A i \in Loads(p)' : i \in Loads(p) \/ (i = Len(mailbox) + 1 /\ q = p)
      /\ \A p : \A i \in Stores(p)' : i \in Stores(p) /\ mailbox'[i] = mailbox[i]
      /\ \A p : Stores(p) \subseteq Stores(p)'
  <2> HIDE DEF m
  <2>1. m.type = "LOAD" /\ m.part = q
    BY DEF m
  <2> QED
    BY <1>1, <1>2, <2>1, SendMessage, ZenonT(60)
<1>4. \A p \in Part : phase'[p] = IF p = q THEN "asked" ELSE phase[p]
  BY <1>1 DEF TypeOK
<1>5. Loads(q) = {}
  BY <1>1 DEF Quiet, OneAtATime
<1>6. OneAtATime'
  <2> SUFFICES ASSUME NEW p \in Part
               PROVE  /\ \A i \in Loads(p)' : phase'[p] = "asked"
                      /\ \A i, j \in Loads(p)' : i = j
                      /\ \A i \in Stores(p)' : query = queryId => phase'[p] = "done"
                      /\ \A i, j \in Stores(p)' : i = j
    BY <1>1 DEF OneAtATime
  <2>1. \A i \in Stores(p) : query = queryId => phase'[p] = "done"
    BY <1>1, <1>4 DEF Quiet, OneAtATime
  <2>2. \A i \in Loads(p)' : phase'[p] = "asked"
    BY <1>3, <1>4 DEF Quiet, OneAtATime
  <2>3. \A i, j \in Loads(p)' : i = j
    BY <1>3, <1>5 DEF Quiet, OneAtATime
  <2>4. \A i, j \in Stores(p)' : i = j
    BY <1>3 DEF Quiet, OneAtATime
  <2> QED
    BY <1>3, <2>1, <2>2, <2>3, <2>4
<1>7. StoresFirst'
  <2>1. ASSUME query # queryId, NEW p \in Part, NEW r \in Part, NEW i \in Loads(p)', NEW j \in Stores(r)'
        PROVE  j < i
    <3>1. j \in Stores(r)
      BY <1>3
    <3>2. CASE i \in Loads(p)
      BY <2>1, <3>1, <3>2 DEF Quiet, StoresFirst
    <3>3. CASE i = Len(mailbox) + 1
      BY <1>3, <3>1, <3>3 DEF Stores
    <3> QED
      BY <1>3, <3>2, <3>3
  <2>2. query # queryId => \A p \in Part : phase'[p] \in {"start", "asked"}
    BY <1>4 DEF Quiet, StoresFirst
  <2> QED
    BY <1>1, <2>1, <2>2 DEF StoresFirst
<1>8. NoPump'
  <2>1. m.type # "PUMP"
    OBVIOUS
  <2> HIDE DEF m
  <2> QED
    BY <1>3, <2>1 DEF Quiet, NoPump
<1>9. AllTakePart'
  BY <1>1, <1>4 DEF Quiet, AllTakePart
<1>10. CacheUntouched'
  <2>1. \A p \in Part : phase'[p] = "loaded" => loaded[p] = cache[p]
    BY <1>4 DEF Quiet, CacheUntouched
  <2>2. \A p \in Part : \A i \in Stores(p)' : cache[p] # <<>> /\ mailbox'[i].rows = Merge(cache[p])
    BY <1>3 DEF Quiet, CacheUntouched
  <2> QED
    BY <1>1, <2>1, <2>2 DEF CacheUntouched
<1>11. TailIsMerged'
  <2>1. \A p \in Part : phase[p] \in {"start", "asked", "loaded"} => phase'[p] \in {"start", "asked", "loaded"}
    BY <1>4
  <2>2. \A p \in Part : Stores(p) # {} => Stores(p)' # {}
    BY <1>3
  <2> QED
    BY <1>1, <2>1, <2>2 DEF Quiet, TailIsMerged
<1> QED
  BY <1>6, <1>7, <1>8, <1>9, <1>10, <1>11 DEF Quiet

(* A DeltaMerge sends back the merge of what the cache still holds, or     *)
(* nothing where the cache holds nothing.                                  *)
LEMMA MergeDoneQuiet ==
    ASSUME TypeOK, Quiet, NEW q \in Part, MergeDone(q)
    PROVE  Quiet'
<1>1. /\ phase[q] = "loaded" /\ phase' = [phase EXCEPT ![q] = "done"]
      /\ mailbox' = IF loaded[q] = <<>> THEN mailbox ELSE Append(mailbox, [type |-> "MERGED", part |-> q, rows |-> Merge(loaded[q])])
      /\ cache' = cache /\ query' = query /\ queryId' = queryId /\ loaded' = loaded
  BY DEF MergeDone, actorVars
<1>2. \A p \in Part : phase'[p] = IF p = q THEN "done" ELSE phase[p]
  BY <1>1 DEF TypeOK
<1>3. query = queryId
  BY <1>1 DEF Quiet, StoresFirst
<1>4. Stores(q) = {} /\ Loads(q) = {} /\ loaded[q] = cache[q]
  BY <1>1, <1>3 DEF Quiet, OneAtATime, CacheUntouched
<1>5. StoresFirst'
  BY <1>1, <1>3 DEF StoresFirst
<1>6. AllTakePart'
  BY <1>1, <1>2 DEF Quiet, AllTakePart
<1>7. CASE loaded[q] = <<>>
  <2>1. mailbox' = mailbox /\ \A p : Loads(p)' = Loads(p) /\ Stores(p)' = Stores(p)
    BY <1>1, <1>7 DEF Loads, Stores
  <2>2. OneAtATime'
    BY <1>1, <1>2, <1>4, <2>1 DEF Quiet, OneAtATime
  <2>3. NoPump' /\ CacheUntouched'
    BY <1>1, <1>2, <2>1 DEF Quiet, NoPump, CacheUntouched
  <2>4. TailIsMerged'
    <3>1. Len(cache[q]) = 0
      BY <1>4, <1>7
    <3>2. \A p \in Part : Len(cache[p]) = 2 => p # q
      BY <3>1
    <3> QED
      BY <1>1, <1>2, <2>1, <3>2 DEF Quiet, TailIsMerged
  <2> QED
    BY <1>5, <1>6, <2>2, <2>3, <2>4 DEF Quiet
<1>8. CASE loaded[q] # <<>>
  <2>0. PICK m \in Message : m = [type |-> "MERGED", part |-> q, rows |-> Merge(loaded[q])]
    BY <1>8, MergeRows DEF Message, TypeOK
  <2>1. m.type = "MERGED" /\ m.part = q /\ m.rows = Merge(cache[q])
    BY <1>4, <2>0
  <2>2. /\ \A i \in DOMAIN mailbox' : \/ i \in DOMAIN mailbox /\ mailbox'[i] = mailbox[i]
                                      \/ i = Len(mailbox) + 1 /\ mailbox'[i] = m
        /\ \A p : \A i \in Loads(p)' : i \in Loads(p)
        /\ \A p : \A i \in Stores(p)' :
             \/ i \in Stores(p) /\ mailbox'[i] = mailbox[i]
             \/ i = Len(mailbox) + 1 /\ q = p /\ mailbox'[i] = m
        /\ \A p : Stores(p) \subseteq Stores(p)'
        /\ Stores(q)' # {}
    <3>1. mailbox' = Append(mailbox, m)
      BY <1>1, <1>8, <2>0
    <3>2. /\ \A i \in DOMAIN mailbox' : \/ i \in DOMAIN mailbox /\ mailbox'[i] = mailbox[i]
                                        \/ i = Len(mailbox) + 1 /\ mailbox'[i] = m
          /\ \A p : \A i \in Loads(p)' :
               i \in Loads(p) \/ (i = Len(mailbox) + 1 /\ m.type = "LOAD" /\ m.part = p)
          /\ \A p : \A i \in Stores(p)' :
               \/ i \in Stores(p) /\ mailbox'[i] = mailbox[i]
               \/ i = Len(mailbox) + 1 /\ m.type = "MERGED" /\ m.part = p /\ mailbox'[i] = m
          /\ \A p : Stores(p) \subseteq Stores(p)'
          /\ m.type = "MERGED" => Len(mailbox) + 1 \in Stores(m.part)'
      BY <2>0, <3>1, SendMessage, Zenon
    <3>3. m.type = "MERGED" /\ m.type # "LOAD" /\ m.part = q
      BY <2>1
    <3> QED
      BY <3>2, <3>3, Zenon
  <2>3. OneAtATime'
    <3> SUFFICES ASSUME NEW p \in Part
                 PROVE  /\ \A i \in Loads(p)' : phase'[p] = "asked"
                        /\ \A i, j \in Loads(p)' : i = j
                        /\ \A i \in Stores(p)' : phase'[p] = "done"
                        /\ \A i, j \in Stores(p)' : i = j
      BY <1>1 DEF OneAtATime
    <3>1. /\ \A i \in Loads(p) : phase'[p] = "asked"
          /\ \A i, j \in Loads(p) : i = j
          /\ \A i \in Stores(p) : phase'[p] = "done"
          /\ \A i, j \in Stores(p) : i = j
      BY <1>2, <1>3, <1>4 DEF Quiet, OneAtATime
    <3>2. p = q => phase'[p] = "done" /\ Stores(p) = {}
      BY <1>2, <1>4
    <3> QED
      BY <2>2, <3>1, <3>2
  <2>4. NoPump'
    BY <2>1, <2>2 DEF Quiet, NoPump
  <2>5. CacheUntouched'
    <3>1. \A p \in Part : phase'[p] = "loaded" => loaded[p] = cache[p]
      BY <1>2 DEF Quiet, CacheUntouched
    <3>2. \A p \in Part : \A i \in Stores(p)' : cache[p] # <<>> /\ mailbox'[i].rows = Merge(cache[p])
      BY <1>4, <1>8, <2>1, <2>2 DEF Quiet, CacheUntouched
    <3> QED
      BY <1>1, <3>1, <3>2 DEF CacheUntouched
  <2>6. TailIsMerged'
    <3>1. ASSUME NEW p \in Part, Len(cache[p]) = 2
          PROVE  Stores(p)' # {} \/ (query = queryId /\ phase'[p] \in {"start", "asked", "loaded"})
      BY <1>2, <2>2, <3>1 DEF Quiet, TailIsMerged
    <3> QED
      BY <1>1, <3>1 DEF Quiet, TailIsMerged
  <2> QED
    BY <1>5, <1>6, <2>3, <2>4, <2>5, <2>6 DEF Quiet
<1> QED
  BY <1>7, <1>8

(* The sequence of queries keeps to its order as long as there is no       *)
(* periodic pump.                                                          *)
LEMMA QueriesKeepOrder == ASSUME ReadsAll PROVE Spec => []QueryInv
<1>1. Init => QueryInv
  <2> SUFFICES ASSUME Init PROVE Quiet
    BY DEF QueryInv
  <2>1. /\ mailbox = <<>> /\ query = 0 /\ queryId = 0 /\ DOMAIN mailbox = {}
        /\ \A p \in Part : cache[p] = <<>> /\ phase[p] = "idle"
    BY DEF Init
  <2>2. \A p : Loads(p) = {} /\ Stores(p) = {}
    BY <2>1 DEF Loads, Stores
  <2>3. OneAtATime /\ StoresFirst /\ NoPump /\ AllTakePart /\ CacheUntouched
    BY <2>1, <2>2 DEF OneAtATime, StoresFirst, NoPump, AllTakePart, CacheUntouched
  <2>4. TailIsMerged
    <3>1. ASSUME NEW p \in Part PROVE Len(cache[p]) = 0
      <4>1. cache[p] = <<>>
        BY <2>1
      <4> QED
        BY ONLY <4>1
    <3>2. ASSUME NEW p \in Part PROVE Len(cache[p]) <= 2 /\ Len(cache[p]) # 2
      <4>1. Len(cache[p]) = 0
        BY <3>1
      <4> QED
        BY ONLY <4>1
    <3> QED
      BY <3>2, Zenon DEF TailIsMerged
  <2> QED
    BY <2>3, <2>4 DEF Quiet
<1>2. TypeOK /\ TypeOK' /\ QueryInv /\ [Next]_vars => QueryInv'
  <2> SUFFICES ASSUME TypeOK, TypeOK', QueryInv, [Next]_vars, ticks' = 0
               PROVE  Quiet'
    BY DEF QueryInv, QueriesOnly
  <2>1. ASSUME Tick PROVE FALSE
    <3>1. ticks \in Nat /\ ticks' = ticks + 1
      BY <2>1 DEF Tick, TypeOK
    <3> QED
      BY <3>1
  <2>2. ticks = 0
    BY <2>1 DEF Next, HandleLoad, HandleMerged, HandlePump, StartQuery, Idle, Request, MergeDone,
                Commit, vars
  <2>3. Quiet
    BY <2>2 DEF QueryInv, QueriesOnly
  <2>4. ASSUME HandlePump PROVE FALSE
    <3>1. Head(mailbox) = mailbox[1] /\ 1 \in DOMAIN mailbox
      BY <2>4 DEF HandlePump, TypeOK
    <3> QED
      BY <2>3, <2>4, <3>1 DEF HandlePump, Quiet, NoPump
  <2>5. CASE UNCHANGED <<cache, queryId, mailbox, query, phase, loaded>>
    <3>1. \A p : Loads(p)' = Loads(p) /\ Stores(p)' = Stores(p)
      BY <2>5 DEF Loads, Stores
    <3> QED
      BY <2>3, <2>5, <3>1
      DEF Quiet, OneAtATime, StoresFirst, NoPump, AllTakePart, CacheUntouched, TailIsMerged
  <2>6. CASE HandleLoad
    BY <2>3, <2>6, LoadQuiet
  <2>7. CASE HandleMerged
    BY <2>3, <2>7, MergedQuiet
  <2>8. CASE StartQuery
    BY <2>3, <2>8, StartQuiet
  <2>9. ASSUME NEW p \in Part, Request(p) PROVE Quiet'
    BY <2>3, <2>9, RequestQuiet
  <2>10. ASSUME NEW p \in Part, MergeDone(p) PROVE Quiet'
    BY <2>3, <2>10, MergeDoneQuiet
  <2>11. ASSUME NEW p \in Part, NEW k \in Key, Commit(p, k) PROVE Quiet'
    BY <2>5, <2>11 DEF Commit, actorVars, queryVars
  <2>12. CASE UNCHANGED vars
    BY <2>5, <2>12 DEF vars, actorVars, queryVars
  <2> QED
    BY <2>1, <2>4, <2>6, <2>7, <2>8, <2>9, <2>10, <2>11, <2>12 DEF Next, Idle
<1> QED
  BY <1>1, <1>2, TypeCorrect, PTL DEF Spec

(* However the requests, loads and stores of a sequence of queries that    *)
(* read every partition interleave, without periodic pumps a DeltaMerge    *)
(* gets at most the tail and the memory delta, the two it looks at.        *)
THEOREM TailAndMemoryOnly == ASSUME ReadsAll PROVE Spec => []AtMostTwoDeltas
<1>1. QueryInv => AtMostTwoDeltas
  BY DEF QueryInv, Quiet, TailIsMerged, AtMostTwoDeltas
<1> QED
  BY <1>1, QueriesKeepOrder, PTL

-----------------------------------------------------------------------------
(* The contents of the deltas.                                             *)

(* The change a delta gives for a key.                                     *)
RowOf(rows, k) == IF k \in DOMAIN rows THEN rows[k] ELSE 0

(* The places of a list whose delta has the key.                           *)
Has(d, k) == {i \in DOMAIN d : k \in DOMAIN d[i].rows}

(* Given, by the first delta that has the key.                             *)
LEMMA GivenFirst ==
    ASSUME NEW d \in Seq(Delta), NEW k
    PROVE  /\ Has(d, k) = {} => Given(d, k) = 0
           /\ \A m \in Has(d, k) : (\A j \in Has(d, k) : m <= j) => Given(d, k) = d[m].rows[k]
<1>1. Has(d, k) \in SUBSET Nat
  BY DEF Has
<1>2. Given(d, k) = IF Has(d, k) = {} THEN 0
                    ELSE d[CHOOSE i \in Has(d, k) : \A j \in Has(d, k) : i <= j].rows[k]
  BY DEF Given, Has
<1>3. ASSUME NEW m \in Has(d, k), \A j \in Has(d, k) : m <= j
      PROVE  Given(d, k) = d[m].rows[k]
  <2> DEFINE c == CHOOSE i \in Has(d, k) : \A j \in Has(d, k) : i <= j
  <2>1. c \in Has(d, k) /\ \A j \in Has(d, k) : c <= j
    BY <1>3
  <2> HIDE DEF c
  <2>2. c = m
    <3>1. c <= m /\ m <= c /\ c \in Nat /\ m \in Nat
      BY <1>1, <1>3, <2>1
    <3> QED
      BY ONLY <3>1
  <2> QED
    BY <1>2, <2>2 DEF c
<1> QED
  BY <1>2, <1>3

(* No delta gives nothing.                                                 *)
LEMMA GivenNone == ASSUME NEW k PROVE Given(<<>>, k) = 0
BY DEF Given

(* A delta that is stored in front decides over its keys.                  *)
LEMMA GivenStore ==
    ASSUME NEW d \in Seq(Delta), NEW r \in Rows, NEW ts \in Nat, NEW k
    PROVE  Given(Store(d, r, ts), k) = IF k \in DOMAIN r THEN r[k] ELSE Given(d, k)
<1> DEFINE e == Store(d, r, ts)
<1>1. /\ e \in Seq(Delta) /\ Len(e) = Len(d) + 1
      /\ e[1] = [rows |-> r, ts |-> ts]
      /\ \A i \in DOMAIN d : e[i + 1] = d[i]
  BY StoreDelta
<1> HIDE DEF e
<1>2. /\ Len(d) \in Nat /\ DOMAIN d = 1 .. Len(d) /\ DOMAIN e = 1 .. Len(d) + 1
  BY <1>1
<1>3. e[1].rows = r /\ 1 \in DOMAIN e
  BY <1>1, <1>2
<1>4. CASE k \in DOMAIN r
  <2>1. 1 \in Has(e, k) /\ \A j \in Has(e, k) : 1 <= j
    BY <1>2, <1>3, <1>4 DEF Has
  <2> QED
    BY <1>1, <1>3, <1>4, <2>1, GivenFirst DEF e
<1>5. CASE k \notin DOMAIN r
  <2>1. ASSUME NEW i \in Has(e, k) PROVE i - 1 \in Has(d, k) /\ i \in Nat
    <3>1. i \in 1 .. Len(d) + 1 /\ i # 1
      BY <1>2, <1>3, <1>5 DEF Has
    <3>2. i - 1 \in DOMAIN d /\ (i - 1) + 1 = i
      BY <1>2, <3>1
    <3>3. e[i] = d[i - 1]
      BY <1>1, <3>2
    <3> QED
      BY <3>1, <3>2, <3>3, <1>2 DEF Has
  <2>2. ASSUME NEW i \in Has(d, k) PROVE i + 1 \in Has(e, k) /\ e[i + 1] = d[i] /\ i \in Nat
    BY <1>1, <1>2 DEF Has
  <2>3. CASE Has(d, k) = {}
    <3>1. Has(e, k) = {}
      BY <2>1, <2>3
    <3> QED
      BY <1>1, <1>5, <2>3, <3>1, GivenFirst DEF e
  <2>4. CASE Has(d, k) # {}
    <3>1. Has(d, k) \in SUBSET Nat
      BY <2>2
    <3>2. PICK m \in Has(d, k) : \A j \in Has(d, k) : m <= j
      BY <2>4, <3>1, LeastExists
    <3>3. \A j \in Has(e, k) : m + 1 <= j
      BY <2>1, <3>1, <3>2
    <3>4. Given(e, k) = e[m + 1].rows[k] /\ Given(d, k) = d[m].rows[k]
      BY <1>1, <2>2, <3>2, <3>3, GivenFirst
    <3>5. e[m + 1] = d[m]
      BY <2>2
    <3> QED
      BY <1>5, <3>4, <3>5 DEF e
  <2> QED
    BY <2>3, <2>4
<1> QED
  BY <1>4, <1>5

(* DeltaMerge of one or two deltas gives what the deltas give.             *)
LEMMA MergeGiven ==
    ASSUME NEW d \in Seq(Delta), d # <<>>, Len(d) <= 2, NEW k
    PROVE  RowOf(Merge(d), k) = Given(d, k)
<1>1. Len(d) = 1 \/ Len(d) = 2
  <2>1. PICK n \in Nat : n = Len(d)
    OBVIOUS
  <2>2. n # 0 /\ n <= 2
    BY <2>1
  <2>3. n = 1 \/ n = 2
    BY ONLY <2>2
  <2> QED
    BY <2>1, <2>3
<1>2. DOMAIN d = 1 .. Len(d)
  OBVIOUS
<1>3. CASE Len(d) = 1
  <2>1. Has(d, k) = IF k \in DOMAIN d[1].rows THEN {1} ELSE {}
    BY <1>2, <1>3 DEF Has
  <2>2. Given(d, k) = IF k \in DOMAIN d[1].rows THEN d[1].rows[k] ELSE 0
    <3>1. CASE k \in DOMAIN d[1].rows
      <4>1. 1 \in Has(d, k) /\ \A j \in Has(d, k) : 1 <= j
        BY <2>1, <3>1
      <4> QED
        BY <3>1, <4>1, GivenFirst
    <3>2. CASE k \notin DOMAIN d[1].rows
      BY <2>1, <3>2, GivenFirst
    <3> QED
      BY <3>1, <3>2
  <2> QED
    BY <1>3, <2>2 DEF Merge, RowOf
<1>4. CASE Len(d) = 2
  <2> DEFINE a == d[1].rows
             b == d[2].rows
  <2>1. Merge(d) = Over(a, b)
    BY <1>4 DEF Merge
  <2>2. RowOf(Merge(d), k) = IF k \in DOMAIN a THEN a[k] ELSE IF k \in DOMAIN b THEN b[k] ELSE 0
    BY <2>1 DEF Over, RowOf
  <2>3. /\ \A i \in Has(d, k) : i = 1 \/ i = 2
        /\ 1 \in Has(d, k) <=> k \in DOMAIN a
        /\ 2 \in Has(d, k) <=> k \in DOMAIN b
    BY <1>2, <1>4 DEF Has
  <2>4. CASE k \in DOMAIN a
    <3>1. 1 \in Has(d, k) /\ \A j \in Has(d, k) : 1 <= j
      BY <2>3, <2>4
    <3>2. Given(d, k) = a[k]
      BY <3>1, GivenFirst
    <3> QED
      BY <2>2, <2>4, <3>2
  <2>5. CASE k \notin DOMAIN a /\ k \in DOMAIN b
    <3>1. 2 \in Has(d, k) /\ \A j \in Has(d, k) : 2 <= j
      BY <2>3, <2>5
    <3>2. Given(d, k) = b[k]
      BY <3>1, GivenFirst
    <3> QED
      BY <2>2, <2>5, <3>2
  <2>6. CASE k \notin DOMAIN a /\ k \notin DOMAIN b
    <3>1. Has(d, k) = {}
      BY <2>3, <2>6
    <3>2. Given(d, k) = 0
      BY <3>1, GivenFirst
    <3> QED
      BY <2>2, <2>6, <3>2
  <2> QED
    BY <2>4, <2>5, <2>6
<1> QED
  BY <1>1, <1>3, <1>4

(* What is read of the binlog is read to its last change: a pump of keys   *)
(* that changed once brings the latest change of each.                     *)
LEMMA UnreadLatest ==
    ASSUME TypeOK, UnreadOnce, NEW p \in Part, NEW k \in Key
    PROVE  Latest(p, k, Len(binlog)) =
             IF k \in DOMAIN Unread(p) THEN Unread(p)[k] ELSE Latest(p, k, readPoint)
<1> DEFINE New == ChangesOf(p, k, readPoint + 1, Len(binlog))
           All == ChangesOf(p, k, 1, Len(binlog))
           Old == ChangesOf(p, k, 1, readPoint)
<1>0. readPoint \in Nat /\ Len(binlog) \in Nat /\ readPoint <= Len(binlog)
  BY DEF TypeOK
<1>1. /\ All = Old \cup New /\ New \in SUBSET Nat /\ Old \in SUBSET Nat
      /\ \A i \in New : i > readPoint
      /\ \A i \in Old : i <= readPoint
  BY <1>0 DEF ChangesOf
<1>2. k \in DOMAIN Unread(p) <=> New # {}
  BY DEF Unread
<1>3. k \in DOMAIN Unread(p) => Unread(p)[k] = CHOOSE i \in New : \A j \in New : i <= j
  BY DEF Unread
<1>4. Latest(p, k, Len(binlog)) = IF All = {} THEN 0 ELSE CHOOSE i \in All : \A j \in All : i >= j
  BY DEF Latest
<1>5. Latest(p, k, readPoint) = IF Old = {} THEN 0 ELSE CHOOSE i \in Old : \A j \in Old : i >= j
  BY DEF Latest
<1>6. \A i, j \in New : i = j
  BY DEF UnreadOnce
<1> HIDE DEF New, All, Old
<1>7. CASE New = {}
  BY <1>1, <1>2, <1>4, <1>5, <1>7
<1>8. CASE New # {}
  <2>1. PICK n \in New : TRUE
    BY <1>8
  <2>2. n \in Nat /\ New = {n}
    BY <1>1, <1>6, <2>1
  <2>3. (CHOOSE i \in New : \A j \in New : i <= j) = n
    <3>1. \E i \in New : \A j \in New : i <= j
      BY <2>2
    <3> QED
      BY <2>2, <3>1
  <2>4. n \in All /\ \A j \in All : n >= j
    BY <1>0, <1>1, <2>1, <2>2
  <2>5. (CHOOSE i \in All : \A j \in All : i >= j) = n
    <3> DEFINE c == CHOOSE i \in All : \A j \in All : i >= j
    <3>1. c \in All /\ \A j \in All : c >= j
      BY <2>4
    <3> HIDE DEF c
    <3>2. c >= n /\ n >= c /\ c \in Nat
      BY <1>1, <2>4, <3>1
    <3>3. c = n
      BY <2>2, <3>2
    <3> QED
      BY <3>3 DEF c
  <2> QED
    BY <1>2, <1>3, <1>4, <1>8, <2>3, <2>4, <2>5
<1> QED
  BY <1>7, <1>8

Known == \A p \in Part, k \in Key : Given(cache[p], k) = Latest(p, k, readPoint)

(* The last of a set of changes.                                           *)
LastOf(S) == IF S = {} THEN 0 ELSE CHOOSE i \in S : \A j \in S : i >= j

(* deltaPump brings the cache up to the end of the binlog.                 *)
LEMMA PumpKnown ==
    ASSUME TypeOK, UnreadOnce, Known, DeltaPump, binlog' = binlog
    PROVE  Known'
<1> SUFFICES ASSUME NEW p \in Part, NEW k \in Key
             PROVE  Given(cache'[p], k) = Latest(p, k, Len(binlog))
  <2>1. ASSUME NEW p \in Part, NEW k \in Key
        PROVE  Latest(p, k, readPoint)' = Latest(p, k, Len(binlog))
    <3>1. ChangesOf(p, k, 1, readPoint)' = ChangesOf(p, k, 1, Len(binlog))
      BY DEF DeltaPump, ChangesOf
    <3>2. /\ Latest(p, k, Len(binlog)) = LastOf(ChangesOf(p, k, 1, Len(binlog)))
          /\ Latest(p, k, readPoint)' = LastOf(ChangesOf(p, k, 1, readPoint)')
      BY Zenon DEF Latest, LastOf
    <3> QED
      BY <3>1, <3>2
  <2> QED
    BY <2>1 DEF Known
<1>1. cache[p] \in Seq(Delta) /\ Len(binlog) \in Nat /\ Unread(p) \in Rows
  BY UnreadRows DEF TypeOK
<1>2. cache'[p] = IF DOMAIN Unread(p) = {} THEN cache[p] ELSE Store(cache[p], Unread(p), Len(binlog))
  BY DEF DeltaPump, Pumped
<1>3. Given(Store(cache[p], Unread(p), Len(binlog)), k)
        = IF k \in DOMAIN Unread(p) THEN Unread(p)[k] ELSE Given(cache[p], k)
  BY <1>1, GivenStore
<1>4. Given(cache'[p], k) = IF k \in DOMAIN Unread(p) THEN Unread(p)[k] ELSE Given(cache[p], k)
  BY <1>2, <1>3
<1>5. Given(cache[p], k) = Latest(p, k, readPoint)
  BY DEF Known
<1> QED
  BY <1>4, <1>5, UnreadLatest

(* A key that is committed only once between two pumps is unread once.     *)
LEMMA ChangedOnce == ASSUME ~Repeats PROVE Spec => []UnreadOnce
<1>1. Init => UnreadOnce
  BY DEF Init, UnreadOnce, ChangesOf
<1>2. TypeOK /\ UnreadOnce /\ [Next]_vars => UnreadOnce'
  <2> SUFFICES ASSUME TypeOK, UnreadOnce, [Next]_vars
               PROVE  UnreadOnce'
    OBVIOUS
  <2>1. CASE readPoint' = Len(binlog) /\ binlog' = binlog
    BY <2>1 DEF UnreadOnce, ChangesOf, TypeOK
  <2>2. CASE UNCHANGED <<binlog, readPoint>>
    BY <2>2 DEF UnreadOnce, ChangesOf
  <2>3. ASSUME NEW p \in Part, NEW k \in Key, Commit(p, k) PROVE UnreadOnce'
    <3> DEFINE e == [part |-> p, key |-> k]
    <3>1. /\ binlog' = Append(binlog, e) /\ readPoint' = readPoint
          /\ ChangesOf(p, k, readPoint + 1, Len(binlog)) = {}
      BY <2>3 DEF Commit, actorVars
    <3>2. /\ Len(binlog) \in Nat /\ Len(binlog') = Len(binlog) + 1 /\ readPoint \in Nat
          /\ readPoint <= Len(binlog) /\ binlog'[Len(binlog) + 1] = e
          /\ \A i \in 1 .. Len(binlog) : binlog'[i] = binlog[i]
      BY <3>1 DEF TypeOK, Change
    <3>3. ASSUME NEW q \in Part, NEW l \in Key, NEW i \in ChangesOf(q, l, readPoint + 1, Len(binlog))'
          PROVE  \/ i \in ChangesOf(q, l, readPoint + 1, Len(binlog))
                 \/ i = Len(binlog) + 1 /\ q = p /\ l = k
      <4>1. i \in readPoint + 1 .. Len(binlog) + 1 /\ binlog'[i] = [part |-> q, key |-> l]
        BY <3>1, <3>2, <3>3 DEF ChangesOf
      <4>2. CASE i = Len(binlog) + 1
        BY <3>2, <4>1, <4>2
      <4>3. CASE i # Len(binlog) + 1
        <5>1. i \in readPoint + 1 .. Len(binlog) /\ i \in 1 .. Len(binlog)
          BY <3>2, <4>1, <4>3
        <5> QED
          BY <3>2, <4>1, <5>1 DEF ChangesOf
      <4> QED
        BY <4>2, <4>3
    <3> QED
      BY <3>1, <3>3 DEF UnreadOnce
  <2> QED
    BY <2>1, <2>2, <2>3
    DEF Next, HandleLoad, LoadMemoryDelta, DeltaPump, HandleMerged, HandlePump, StartQuery, Tick, Idle,
        Request, MergeDone, actorVars, queryVars, vars
<1> QED
  BY <1>1, <1>2, TypeCorrect, PTL DEF Spec

ContentInv == QueriesOnly => Known

(* What was pumped once stays in the cache: without periodic pumps, if     *)
(* every query reads every partition and no row changes twice between two  *)
(* pumps, the deltas of a partition always give the last change that was   *)
(* read of every row, whatever loads and stores are still under way.       *)
THEOREM CacheForgetsNothing ==
    ASSUME ReadsAll, ~Repeats PROVE Spec => []NothingForgotten
<1>1. Init => ContentInv
  <2> SUFFICES ASSUME Init, NEW p \in Part, NEW k \in Key
               PROVE  Given(cache[p], k) = Latest(p, k, readPoint)
    BY DEF ContentInv, Known
  <2>1. Given(cache[p], k) = 0
    BY GivenNone DEF Init
  <2>2. ChangesOf(p, k, 1, readPoint) = {}
    BY DEF Init, ChangesOf
  <2> QED
    BY <2>1, <2>2 DEF Latest
<1>2. TypeOK /\ UnreadOnce /\ QueryInv /\ QueryInv' /\ ContentInv /\ [Next]_vars => ContentInv'
  <2> SUFFICES ASSUME TypeOK, UnreadOnce, QueryInv, ContentInv, [Next]_vars, ticks' = 0
               PROVE  Known'
    BY DEF ContentInv, QueriesOnly
  <2>1. ASSUME Tick PROVE FALSE
    <3>1. ticks \in Nat /\ ticks' = ticks + 1
      BY <2>1 DEF Tick, TypeOK
    <3> QED
      BY <3>1
  <2>2. ticks = 0
    BY <2>1 DEF Next, HandleLoad, HandleMerged, HandlePump, StartQuery, Idle, Request, MergeDone,
                Commit, vars
  <2>3. Quiet /\ Known
    BY <2>2 DEF QueryInv, ContentInv, QueriesOnly
  <2>4. CASE DeltaPump /\ binlog' = binlog
    BY <2>3, <2>4, PumpKnown
  <2>5. CASE UNCHANGED <<cache, readPoint, binlog>>
    <3>1. ASSUME NEW p \in Part, NEW k \in Key PROVE Latest(p, k, readPoint)' = Latest(p, k, readPoint)
      BY <2>5 DEF Latest, ChangesOf
    <3>2. ASSUME NEW p \in Part, NEW k \in Key PROVE Given(cache[p], k)' = Given(cache[p], k)
      <4>1. cache'[p] = cache[p]
        BY <2>5
      <4> QED
        BY <4>1 DEF Given
    <3> QED
      BY <2>3, <3>1, <3>2 DEF Known
  <2>6. CASE HandleMerged
    <3> DEFINE rows == Head(mailbox).rows
    <3>0. PICK q \in Part : q = Head(mailbox).part
      BY <2>6 DEF HandleMerged, TypeOK, Message
    <3>1. /\ cache' = [cache EXCEPT ![q] = Store(<<>>, rows, lastTimestamp)]
          /\ UNCHANGED <<binlog, readPoint>>
      BY <2>6, <3>0 DEF HandleMerged, StoreMergedDelta
    <3>2. rows \in Rows /\ lastTimestamp \in Nat /\ <<>> \in Seq(Delta) /\ cache[q] \in Seq(Delta)
      <4>1. mailbox[1] \in Message /\ Head(mailbox) = mailbox[1] /\ mailbox[1].type = "MERGED"
        BY <2>6 DEF HandleMerged, TypeOK
      <4>2. rows \in Rows
        BY <4>1 DEF Message
      <4>3. lastTimestamp \in Nat
        BY DEF TypeOK
      <4>4. cache[q] \in Seq(Delta) /\ <<>> \in Seq(Delta)
        BY DEF TypeOK
      <4> QED
        BY <4>2, <4>3, <4>4
    <3>3. cache[q] # <<>> /\ rows = Merge(cache[q])
      <4>1. 1 \in DOMAIN mailbox /\ Head(mailbox) = mailbox[1]
        BY <2>6 DEF HandleMerged, TypeOK
      <4>2. 1 \in Stores(q)
        BY <2>6, <3>0, <4>1 DEF HandleMerged, Stores
      <4> QED
        BY <2>3, <4>1, <4>2 DEF Quiet, CacheUntouched
    <3>4. Len(cache[q]) <= 2
      BY <2>3 DEF Quiet, TailIsMerged
    <3> HIDE DEF rows
    <3>5. ASSUME NEW k \in Key PROVE Given(cache'[q], k) = Given(cache[q], k)
      <4>1. cache'[q] = Store(<<>>, rows, lastTimestamp)
        BY <3>1 DEF TypeOK
      <4>2. Given(Store(<<>>, rows, lastTimestamp), k) = IF k \in DOMAIN rows THEN rows[k] ELSE Given(<<>>, k)
        BY <3>2, GivenStore, ZenonT(40)
      <4>3. Given(cache'[q], k) = RowOf(rows, k)
        BY <4>1, <4>2, GivenNone, Zenon DEF RowOf
      <4> QED
        BY <3>2, <3>3, <3>4, <4>3, MergeGiven
    <3>6. \A p \in Part : p # q => cache'[p] = cache[p]
      BY <3>1 DEF TypeOK
    <3>7. ASSUME NEW p \in Part, NEW k \in Key
          PROVE  Given(cache'[p], k) = Given(cache[p], k)
                 /\ Latest(p, k, readPoint)' = Latest(p, k, readPoint)
      <4>1. Latest(p, k, readPoint)' = Latest(p, k, readPoint)
        BY <3>1 DEF Latest, ChangesOf
      <4> QED
        BY <3>5, <3>6, <4>1
    <3> QED
      BY <2>3, <3>7 DEF Known
  <2>7. ASSUME NEW q \in Part, NEW l \in Key, Commit(q, l) PROVE Known'
    <3>1. /\ binlog' = Append(binlog, [part |-> q, key |-> l]) /\ readPoint' = readPoint /\ cache' = cache
      BY <2>7 DEF Commit, actorVars
    <3>2. \A i \in 1 .. readPoint : binlog'[i] = binlog[i]
      BY <3>1 DEF TypeOK, Change
    <3>3. ASSUME NEW p \in Part, NEW k \in Key
          PROVE  Latest(p, k, readPoint)' = Latest(p, k, readPoint)
      <4>1. ChangesOf(p, k, 1, readPoint)' = {i \in 1 .. readPoint : binlog'[i] = [part |-> p, key |-> k]}
        BY <3>1 DEF ChangesOf
      <4>2. @ = ChangesOf(p, k, 1, readPoint)
        BY <3>2, Zenon DEF ChangesOf
      <4>3. /\ Latest(p, k, readPoint) = LastOf(ChangesOf(p, k, 1, readPoint))
            /\ Latest(p, k, readPoint)' = LastOf(ChangesOf(p, k, 1, readPoint)')
        BY Zenon DEF Latest, LastOf
      <4> QED
        BY <4>1, <4>2, <4>3
    <3>4. ASSUME NEW p \in Part, NEW k \in Key PROVE Given(cache[p], k)' = Given(cache[p], k)
      <4>1. cache'[p] = cache[p]
        BY <3>1
      <4> QED
        BY <4>1 DEF Given
    <3> QED
      BY <2>3, <3>3, <3>4 DEF Known
  <2>8. CASE HandleLoad
    BY <2>4, <2>5, <2>8 DEF HandleLoad, LoadMemoryDelta
  <2> QED
    BY <2>1, <2>4, <2>5, <2>6, <2>7, <2>8
    DEF Next, HandlePump, StartQuery, Idle, Request, MergeDone, actorVars, vars
<1>3. ContentInv => NothingForgotten
  BY DEF ContentInv, Known, NothingForgotten
<1> QED
  BY <1>1, <1>2, <1>3, TypeCorrect, ChangedOnce, QueriesKeepOrder, PTL DEF Spec

(* The read point is where the query that runs has pumped.                 *)
LEMMA QueryPumpedLast == ASSUME ReadsAll PROVE Spec => []CutIsRead
<1>1. Init => CutIsRead
  BY DEF Init, CutIsRead
<1>2. TypeOK /\ QueryInv /\ CutIsRead /\ [Next]_vars => CutIsRead'
  <2> SUFFICES ASSUME TypeOK, QueryInv, CutIsRead, [Next]_vars, ticks' = 0, query' = queryId'
               PROVE  cut' = readPoint'
    BY DEF CutIsRead, QueriesOnly
  <2>1. ASSUME Tick PROVE FALSE
    <3>1. ticks \in Nat /\ ticks' = ticks + 1
      BY <2>1 DEF Tick, TypeOK
    <3> QED
      BY <3>1
  <2>2. ticks = 0
    BY <2>1 DEF Next, HandleLoad, HandleMerged, HandlePump, StartQuery, Idle, Request, MergeDone,
                Commit, vars
  <2>3. Quiet /\ (query = queryId => cut = readPoint)
    BY <2>2 DEF QueryInv, CutIsRead, QueriesOnly
  <2>4. ASSUME HandlePump PROVE FALSE
    <3>1. Head(mailbox) = mailbox[1] /\ 1 \in DOMAIN mailbox
      BY <2>4 DEF HandlePump, TypeOK
    <3> QED
      BY <2>3, <2>4, <3>1 DEF HandlePump, Quiet, NoPump
  <2>5. ASSUME StartQuery PROVE FALSE
    <3>1. query' = query + 1 /\ queryId' = queryId
      BY <2>5 DEF StartQuery, actorVars
    <3>2. query \in Nat /\ queryId \in 0 .. query /\ query + 1 = queryId
      BY <3>1 DEF TypeOK
    <3> QED
      BY ONLY <3>2
  <2>6. CASE UNCHANGED <<query, queryId, cut, readPoint>>
    BY <2>3, <2>6
  <2>7. CASE HandleLoad
    <3>1. CASE query # queryId
      BY <2>7, <3>1 DEF HandleLoad, LoadMemoryDelta, DeltaPump
    <3>2. CASE query = queryId
      BY <2>6, <2>7, <3>2 DEF HandleLoad, LoadMemoryDelta
    <3> QED
      BY <3>1, <3>2
  <2> QED
    BY <2>1, <2>4, <2>5, <2>6, <2>7
    DEF Next, HandleMerged, Idle, Request, MergeDone, Commit, actorVars, queryVars, vars
<1> QED
  BY <1>1, <1>2, TypeCorrect, QueriesKeepOrder, PTL DEF Spec

(* A query sees one snapshot: under the same conditions the merges of all  *)
(* its partitions, whichever asks first, give every change committed when  *)
(* its first request pumped, and none committed later.                     *)
THEOREM QueryReadsSnapshot ==
    ASSUME ReadsAll, ~Repeats PROVE Spec => []QuerySeesOneSnapshot
<1>1. TypeOK /\ QueryInv /\ CutIsRead /\ NothingForgotten => QuerySeesOneSnapshot
  <2> SUFFICES ASSUME TypeOK, QueryInv, CutIsRead, NothingForgotten, QueriesOnly,
                      NEW p \in Part, phase[p] = "loaded", loaded[p] # <<>>, NEW k \in Key
               PROVE  RowOf(Merge(loaded[p]), k) = Latest(p, k, cut)
    BY DEF QuerySeesOneSnapshot, RowOf
  <2>1. Quiet
    BY DEF QueryInv
  <2>2. query = queryId /\ loaded[p] = cache[p] /\ Len(cache[p]) <= 2
    BY <2>1 DEF Quiet, StoresFirst, CacheUntouched, TailIsMerged
  <2>3. cut = readPoint
    BY <2>2 DEF CutIsRead
  <2>4. cache[p] \in Seq(Delta)
    BY DEF TypeOK
  <2>5. RowOf(Merge(loaded[p]), k) = Given(cache[p], k)
    BY <2>2, <2>4, MergeGiven
  <2> QED
    BY <2>3, <2>5 DEF NothingForgotten
<1> QED
  BY <1>1, TypeCorrect, QueriesKeepOrder, QueryPumpedLast, CacheForgetsNothing, PTL
=============================================================================
