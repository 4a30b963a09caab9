-------------------------- MODULE DeltaCacheActor --------------------------
(***************************************************************************)
(* The delta cache from query to query: the actor that holds the deltas of *)
(* every partition, the pump that fetches them from the binlog, and the    *)
(* queries that load the deltas, merge them and store the merged delta.    *)
(*                                                                         *)
(* The binlog is the sequence of the changes committed by the database.  A *)
(* change is known by its position, which is also its timestamp: every     *)
(* change has a second of its own.  A delta maps the keys it changes to    *)
(* the changes that made its rows.                                         *)
(***************************************************************************)
EXTENDS Integers, Sequences

CONSTANTS
    Part,         \* the partitions of all the tables
    Key,          \* the primary keys in a partition
    QueryParts,   \* the sets of partitions the queries read
    Repeats,      \* TRUE: a key may change twice between two pumps
    MaxChanges,   \* bound on the length of the binlog
    MaxQueries,   \* bound on the number of queries
    MaxTicks      \* bound on the ticks of the PeriodicGetTail thread

ASSUME CacheAssumption ==
    /\ QueryParts \subseteq SUBSET Part
    /\ Repeats \in BOOLEAN
    /\ MaxChanges \in Nat /\ MaxQueries \in Nat /\ MaxTicks \in Nat

VARIABLES
    binlog,         \* the committed changes
    readPoint,      \* lastReadPoint: how much of the binlog was pumped
    cache,          \* cache[p]: the deltas of the partition, newest first
    lastTimestamp,  \* the timestamp of the last pump
    queryId,        \* the last query the actor pumped for, 0: none yet
    mailbox,        \* the actor's messages
    query,          \* the number of the query that runs
    phase,          \* phase[p]: how far the query is with the partition
    loaded,         \* loaded[p]: deltas_ of the partition's DeltaMerge
    ticks,          \* the ticks of PeriodicGetTail so far
    cut             \* history: the end of the binlog when the query pumped

queryVars == <<query, phase, loaded>>
actorVars == <<readPoint, cache, lastTimestamp, queryId, cut>>
vars == <<binlog, actorVars, mailbox, queryVars, ticks>>

Change == [part : Part, key : Key]
Rows == UNION {[S -> 1 .. MaxChanges] : S \in SUBSET Key}
Delta == [rows : Rows, ts : Nat]
Message == [type : {"LOAD"}, part : Part] \cup [type : {"MERGED"}, part : Part, rows : Rows]
           \cup [type : {"PUMP"}]

(* The one type invariant: sequences of dated deltas, messages the actor   *)
(* knows, and a read point inside the binlog.                              *)
TypeOK ==
    /\ binlog \in Seq(Change) /\ Len(binlog) <= MaxChanges
    /\ readPoint \in 0 .. Len(binlog)
    /\ cache \in [Part -> Seq(Delta)]
    /\ lastTimestamp \in 0 .. readPoint
    /\ queryId \in 0 .. query
    /\ mailbox \in Seq(Message)
    /\ query \in Nat
    /\ phase \in [Part -> {"idle", "start", "asked", "loaded", "done"}]
    /\ loaded \in [Part -> Seq(Delta)]
    /\ ticks \in Nat
    /\ cut \in 0 .. readPoint

Init ==
    /\ binlog = <<>> /\ readPoint = 0
    /\ cache = [p \in Part |-> <<>>]
    /\ lastTimestamp = 0 /\ queryId = 0
    /\ mailbox = <<>>
    /\ query = 0
    /\ phase = [p \in Part |-> "idle"]
    /\ loaded = [p \in Part |-> <<>>]
    /\ ticks = 0
    /\ cut = 0

-----------------------------------------------------------------------------
(* Deltas.                                                                 *)

ChangesOf(p, k, from, to) == {i \in from .. to : binlog[i] = [part |-> p, key |-> k]}

(* BinlogParser::parse puts the records of a partition into a std::set     *)
(* ordered by key: the first record of a key stays, a second is refused.   *)
Unread(p) ==
    LET keys == {k \in Key : ChangesOf(p, k, readPoint + 1, Len(binlog)) # {}}
    IN  [k \in keys |-> CHOOSE i \in ChangesOf(p, k, readPoint + 1, Len(binlog)) :
                          \A j \in ChangesOf(p, k, readPoint + 1, Len(binlog)) : i <= j]

Store(deltas, rows, ts) == <<[rows |-> rows, ts |-> ts]>> \o deltas

(* The rows of d, and those of e that d does not overwrite.                *)
Over(d, e) == [k \in DOMAIN d \cup DOMAIN e |-> IF k \in DOMAIN d THEN d[k] ELSE e[k]]

(* Mutant: the memory delta wins over the tail.                            *)
MergeOldestWins(deltas) ==
    IF Len(deltas) = 1 THEN deltas[1].rows
    ELSE Over(deltas[Len(deltas)].rows, deltas[1].rows)

(* DeltaMergePOp: the newest delta and what it leaves of the oldest.       *)
Merge(deltas) ==
    IF Len(deltas) = 1 THEN deltas[1].rows
    ELSE Over(deltas[1].rows, deltas[Len(deltas)].rows)

-----------------------------------------------------------------------------
(* The actor.                                                              *)

(* deltaPump: a delta for every partition with unread changes.  The new    *)
(* timestamp is 0 when there was nothing to read.                          *)
Pumped == [p \in Part |-> IF DOMAIN Unread(p) = {} THEN cache[p]
                          ELSE Store(cache[p], Unread(p), Len(binlog))]

(* Mutant: a pump that reads nothing leaves no valid timestamp.            *)
DeltaPumpUndated ==
    /\ cache' = Pumped
    /\ readPoint' = Len(binlog)
    /\ lastTimestamp' = IF Len(binlog) = readPoint THEN -1 ELSE Len(binlog)

DeltaPump ==
    /\ cache' = Pumped
    /\ readPoint' = Len(binlog)
    /\ lastTimestamp' = IF Len(binlog) = readPoint THEN 0 ELSE Len(binlog)

(* Mutant: the deltas are looked up before the pump.                       *)
LoadMemoryDeltaFirst(p, q) ==
    /\ IF q # queryId
       THEN DeltaPump /\ queryId' = q /\ cut' = Len(binlog)
       ELSE UNCHANGED <<cache, readPoint, lastTimestamp, queryId, cut>>
    /\ loaded' = [loaded EXCEPT ![p] = cache[p]]

(* loadMemoryDelta: the first request of a query pumps.                    *)
LoadMemoryDelta(p, q) ==
    /\ IF q # queryId
       THEN DeltaPump /\ queryId' = q /\ cut' = Len(binlog)
       ELSE UNCHANGED <<cache, readPoint, lastTimestamp, queryId, cut>>
    /\ loaded' = [loaded EXCEPT ![p] = cache'[p]]

(* Mutant: the deltas that were merged stay in the cache.                  *)
StoreMergedDeltaKeeps(p, rows) ==
    cache' = [cache EXCEPT ![p] = Store(@, rows, lastTimestamp)]

(* storeMergedDelta: everything the cache holds of the partition gives way *)
(* to the merged delta, dated by the last pump.                            *)
StoreMergedDelta(p, rows) ==
    cache' = [cache EXCEPT ![p] = Store(<<>>, rows, lastTimestamp)]

HandleLoad ==
    /\ mailbox # <<>> /\ Head(mailbox).type = "LOAD"
    /\ mailbox' = Tail(mailbox)
    /\ LoadMemoryDelta(Head(mailbox).part, query)
    /\ phase' = [phase EXCEPT ![Head(mailbox).part] = "loaded"]
    /\ UNCHANGED <<binlog, query, ticks>>

HandleMerged ==
    /\ mailbox # <<>> /\ Head(mailbox).type = "MERGED"
    /\ mailbox' = Tail(mailbox)
    /\ StoreMergedDelta(Head(mailbox).part, Head(mailbox).rows)
    /\ UNCHANGED <<binlog, readPoint, lastTimestamp, queryId, cut, queryVars, ticks>>

HandlePump ==
    /\ mailbox # <<>> /\ Head(mailbox).type = "PUMP"
    /\ mailbox' = Tail(mailbox)
    /\ DeltaPump
    /\ UNCHANGED <<binlog, queryId, cut, queryVars, ticks>>

-----------------------------------------------------------------------------
(* The senders.                                                            *)

(* The database commits a change (external).                               *)
Commit(p, k) ==
    /\ Len(binlog) < MaxChanges
    /\ Repeats \/ ChangesOf(p, k, readPoint + 1, Len(binlog)) = {}
    /\ binlog' = Append(binlog, [part |-> p, key |-> k])
    /\ UNCHANGED <<actorVars, mailbox, queryVars, ticks>>

(* Executor::execute: queries run one after another.                       *)
StartQuery ==
    /\ query < MaxQueries
    /\ \A p \in Part : phase[p] \in {"idle", "done"}
    /\ query' = query + 1
    /\ \E S \in QueryParts : phase' = [p \in Part |-> IF p \in S THEN "start" ELSE "idle"]
    /\ loaded' = [p \in Part |-> <<>>]
    /\ UNCHANGED <<binlog, actorVars, mailbox, ticks>>

(* CacheHandlerPOp::OnDeltasRequest, in any order of the partitions.       *)
Request(p) ==
    /\ phase[p] = "start"
    /\ phase' = [phase EXCEPT ![p] = "asked"]
    /\ mailbox' = Append(mailbox, [type |-> "LOAD", part |-> p])
    /\ UNCHANGED <<binlog, actorVars, query, loaded, ticks>>

(* The partition's DeltaMerge: without deltas it sends nothing back.       *)
MergeDone(p) ==
    /\ phase[p] = "loaded"
    /\ phase' = [phase EXCEPT ![p] = "done"]
    /\ mailbox' = IF loaded[p] = <<>> THEN mailbox
                  ELSE Append(mailbox, [type |-> "MERGED", part |-> p, rows |-> Merge(loaded[p])])
    /\ UNCHANGED <<binlog, actorVars, query, loaded, ticks>>

(* PeriodicGetTailHandler's thread sends CacheDeltaAtom every period.      *)
Tick ==
    /\ ticks < MaxTicks
    /\ ticks' = ticks + 1
    /\ mailbox' = Append(mailbox, [type |-> "PUMP"])
    /\ UNCHANGED <<binlog, actorVars, queryVars>>

(* Nothing to do but wait for the next query, tick or commit.              *)
Idle ==
    /\ mailbox = <<>>
    /\ \A p \in Part : phase[p] \in {"idle", "done"}
    /\ UNCHANGED vars

Next ==
    \/ HandleLoad \/ HandleMerged \/ HandlePump
    \/ StartQuery \/ Tick \/ Idle
    \/ \E p \in Part : Request(p) \/ MergeDone(p) \/ \E k \in Key : Commit(p, k)

Spec == Init /\ [][Next]_vars

-----------------------------------------------------------------------------
(* What the cache promises.                                                *)

(* The change that made the current row of a key as of position end of the *)
(* binlog, 0 if the stable row is current.                                 *)
Latest(p, k, end) ==
    LET changes == ChangesOf(p, k, 1, end)
    IN  IF changes = {} THEN 0 ELSE CHOOSE i \in changes : \A j \in changes : i >= j

(* The change the deltas give for a key: the newest delta that has it.     *)
Given(deltas, k) ==
    LET has == {i \in DOMAIN deltas : k \in DOMAIN deltas[i].rows}
    IN  IF has = {} THEN 0 ELSE deltas[CHOOSE i \in has : \A j \in has : i <= j].rows[k]

(* Until the first periodic pump: its tails come between a query's, and    *)
(* the two limits of the cache show that the README names.                 *)
QueriesOnly == ticks = 0

(* What was pumped once stays in the cache: no interleaving of pumps,      *)
(* loads and stores of merged deltas drops the last change of a row or     *)
(* brings an older one back.                                               *)
NothingForgotten ==
    QueriesOnly => \A p \in Part, k \in Key : Given(cache[p], k) = Latest(p, k, readPoint)

(* A query merges, for all its partitions, the state of one and the same   *)
(* moment, which is after the query began: every change committed by then  *)
(* and none later, whichever partition asked first.                        *)
QuerySeesOneSnapshot ==
    QueriesOnly => \A p \in Part : phase[p] = "loaded" /\ loaded[p] # <<>> =>
        \A k \in Key : LET rows == Merge(loaded[p])
                       IN  (IF k \in DOMAIN rows THEN rows[k] ELSE 0) = Latest(p, k, cut)

(* A DeltaMerge never gets more than the tail and the memory delta: it     *)
(* looks at no third one.                                                  *)
AtMostTwoDeltas == QueriesOnly => \A p \in Part : Len(cache[p]) <= 2

(* The deltas of a partition are in the strict order of their timestamps,  *)
(* newest first: DeltaMerge takes the first for the tail, and tells the    *)
(* tail from the memory delta by their timestamps.                         *)
NewestFirst ==
    \A p \in Part : \A i, j \in DOMAIN cache[p] : i < j => cache[p][i].ts > cache[p][j].ts
=============================================================================
