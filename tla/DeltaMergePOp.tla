--------------------------- MODULE DeltaMergePOp ---------------------------
(***************************************************************************)
(* The DeltaMerge operator of one partition: it merges the stable rows of  *)
(* the partition's object with the deltas the cache holds, hands the rows  *)
(* on in chunks, and sends the merged delta back to the cache.             *)
(*                                                                         *)
(* The global flag chooses the algorithm: a k-way merge over all the rows  *)
(* (DeleteMapGeneratorKernel), or the batched merge that updates the       *)
(* bitmap an earlier query left in the cache (KeepMapCacheMode).           *)
(*                                                                         *)
(* A key is the pair of the primary key columns, the second 0 in a table   *)
(* with one.  A row is known by its key and by where it is from: version 0 *)
(* is the stable row, version i the row of the i-th oldest delta.          *)
(***************************************************************************)
EXTENDS Integers, Sequences, FiniteSets, SequencePositions

CONSTANTS
    Families,    \* the families of inputs to consider
    Input(_),    \* Input(f): the stable rows, deltas and bitmap of the family
    ChunkSize,   \* DefaultChunkSize
    None         \* nullptr

Type == {"INSERT", "UPDATE", "DELETE"}

(* The inputs: dated deltas, a bit of the bitmap for every stable row, and *)
(* for the batched merge an object that has rows.                          *)
ASSUME MergeAssumption ==
    /\ ChunkSize \in Nat \ {0}
    /\ \A f \in Families : \A in \in Input(f) :
         /\ in.flag \in BOOLEAN /\ in.composite \in BOOLEAN
         /\ in.stable \in Seq(Nat \X Nat) /\ (in.flag => in.stable # <<>>)
         /\ in.deltas \in Seq([ts : Nat, rows : Seq([key : Nat \X Nat, ver : Nat, type : Type])])
         /\ in.bm = None \/ in.bm \in [DOMAIN in.stable -> 0 .. 1]

VARIABLES
    flag,        \* TRUE: the batched merge
    composite,   \* TRUE: the primary key has two columns
    stable,      \* the keys of the object's rows, in order
    deltas,      \* deltas_: newest first, each with its timestamp and rows
    stableBm,    \* stableBm_: the bitmap, shared with the cache
    oldBm,       \* history: the bitmap as it was loaded
    fromScan,    \* messages of the scan handled: its batches, then COMPLETE
    fromHandler, \* messages of the cache handler handled: the deltas, COMPLETE
    stables,     \* stables_ and earlyChunkBatchCnt_: the batches kept back
    earlyIdx,    \* earlyStableChunkIdx_ + 1
    memKept,     \* deltasPos_: the rows of the memory delta not overwritten
    seen,        \* seen_: the rows of the tail delta that found their match
    evaluated,   \* evaluatedData_: the rows merged so far
    queue,       \* the table's batch queue
    merged,      \* the MergedDeltaMessage
    order,       \* history: the batches in the order they were merged
    pc           \* "run", "drain" in the COMPLETE handler, "done", or
                 \* "crash" where the code runs into undefined behaviour

inputVars == <<flag, composite, stable, deltas, oldBm>>
vars == <<inputVars, stableBm, fromScan, fromHandler, stables, earlyIdx,
          memKept, seen, evaluated, queue, merged, order, pc>>

Elems(s) == {s[i] : i \in DOMAIN s}
Size == Len(deltas)
Ceil(n) == (n + ChunkSize - 1) \div ChunkSize

(* The batched scan sends ChunkSize rows at a time, the plain one sends    *)
(* all the rows at once.                                                   *)
NumBatches == IF flag THEN Ceil(Len(stable)) ELSE 1
BatchSize == IF flag THEN ChunkSize ELSE Len(stable)
BatchBegin(n) == BatchSize * (n - 1)
BatchEnd(n) == IF Len(stable) < BatchSize * n THEN Len(stable) ELSE BatchSize * n
StableRows(begin, end) == [i \in 1 .. end - begin |-> [key |-> stable[begin + i], ver |-> 0]]

Plain(rows) == [i \in DOMAIN rows |-> [key |-> rows[i].key, ver |-> rows[i].ver]]

(* Cuts rows into chunks, the last one possibly short.                     *)
Chunks(rows) ==
    [i \in 1 .. Ceil(Len(rows)) |->
        SubSeq(rows, ChunkSize * (i - 1) + 1,
               IF Len(rows) < ChunkSize * i THEN Len(rows) ELSE ChunkSize * i)]

(* DeltaMergeFilter::evaluate: the rows at the given positions, in order.  *)
Evaluate(rows, positions) == At(rows, positions)

(* It filters batch by batch: a batch ends after ChunkSize rows, and where *)
(* an arrow chunk of the table does.  A chunk ends after each row of cuts, *)
(* which nothing else depends on: a pumped delta has one chunk, one that   *)
(* was merged may have any.  BatchOf is the batch of row r.                *)
Cuts(rows) == SUBSET (1 .. Len(rows) - 1)
BatchOf(cuts, r) ==
    LET begin == CHOOSE b \in cuts \cup {0} : b < r /\ \A c \in cuts : c < r => c <= b
    IN  begin + ChunkSize * ((r - begin - 1) \div ChunkSize)

(* Without a bitmap every batch needs a position: generateSelectionVector  *)
(* falls off its end for a batch with none, and with no position at all    *)
(* evaluate reads its selection vector before it has one.                  *)
Selects(rows, cuts, positions) ==
    \A r \in DOMAIN rows : \E p \in positions : BatchOf(cuts, p) = BatchOf(cuts, r)

Kept(bm, begin, end) == {i \in 1 .. end - begin : bm[begin + i] = 1}

Init ==
    /\ \E f \in Families : \E in \in Input(f) :
         /\ flag = in.flag /\ composite = in.composite
         /\ stable = in.stable
         /\ deltas = in.deltas
         /\ stableBm = in.bm
         /\ oldBm = in.bm
    /\ fromScan = 0 /\ fromHandler = 0
    /\ stables = <<>> /\ earlyIdx = 0
    /\ memKept = {} /\ seen = {}
    /\ evaluated = <<>> /\ queue = <<>>
    /\ merged = None
    /\ order = <<>>
    /\ pc = "run"

-----------------------------------------------------------------------------
(* DeleteMapGeneratorKernel::getDeleteMap: the walk over the sorted inputs *)
(* visits every key once, and the delta with the greatest timestamp above  *)
(* 0 that has the key decides.                                             *)

Less(k, l) == k[1] < l[1] \/ (k[1] = l[1] /\ k[2] < l[2])

DeltaKeys(i) == {deltas[i].rows[j].key : j \in DOMAIN deltas[i].rows}
AllKeys == (UNION {DeltaKeys(i) : i \in DOMAIN deltas}) \cup {stable[i] : i \in DOMAIN stable}

IndexIn(i, k) == CHOOSE j \in DOMAIN deltas[i].rows : deltas[i].rows[j].key = k

(* The first of the deltas with the greatest timestamp, 0 if none decides. *)
Decider(k) ==
    LET has == {i \in DOMAIN deltas : k \in DeltaKeys(i) /\ deltas[i].ts > 0}
        newest == {i \in has : \A j \in has : deltas[i].ts >= deltas[j].ts}
    IN  IF has = {} THEN 0 ELSE CHOOSE i \in newest : \A j \in newest : i <= j

TypeAt(i, k) == deltas[i].rows[IndexIn(i, k)].type

(* The place of delta i's row in the concatenation of the deltas.          *)
PlaceInCombined(i, k) ==
    IF i = Size + 1
    THEN IndexIn(i, k) + Len(deltas[1].rows) + Len(deltas[2].rows)
    ELSE IndexIn(i, k)

(* Mutant: only an update clears the bit, a DELETE leaves the row.         *)
BitOnlyUpdated(s) ==
    IF Decider(stable[s]) # 0 /\ TypeAt(Decider(stable[s]), stable[s]) = "UPDATE" THEN 0 ELSE 1

(* The bit of a stable row: kept unless a delta decides over its key.  A   *)
(* key that only undated deltas hold counts as stable row 0.               *)
Bit(s) ==
    IF \/ Decider(stable[s]) = 0
       \/ s = 1 /\ \E k \in AllKeys : Decider(k) = 0 /\ \A i \in DOMAIN stable : stable[i] # k
    THEN 1 ELSE 0

(* deltasPositions, in the order of the keys.                              *)
DeltasPositions ==
    LET keep == {k \in AllKeys : Decider(k) # 0 /\ TypeAt(Decider(k), k) # "DELETE"}
        Rank(k) == Cardinality({l \in keep : Less(l, k)}) + 1
    IN  [n \in 1 .. Cardinality(keep) |->
            LET k == CHOOSE k \in keep : Rank(k) = n IN PlaceInCombined(Decider(k), k)]

(* DeltaMergePOp::deltaMerge, the branch with deltas: the tail and the     *)
(* oldest delta are combined, filtered once and sent back with the bitmap. *)
KWayMerge ==
    LET bm == [s \in DOMAIN stable |-> Bit(s)]
        combined == IF Size > 1 THEN deltas[1].rows \o deltas[Size].rows ELSE deltas[1].rows
        positions == DeltasPositions
        rows == [n \in DOMAIN positions |-> combined[positions[n]]]
        kept == Evaluate(StableRows(0, Len(stable)), Kept(bm, 0, Len(stable)))
        defined(cuts) ==
            /\ Selects(combined, cuts, Elems(positions))
            /\ \A m, n \in DOMAIN positions :      \* the binary search for a batch's positions
                 m < n => BatchOf(cuts, positions[m]) <= BatchOf(cuts, positions[n])
    IN  \E cuts \in Cuts(combined) :
        IF ~defined(cuts)
        THEN /\ pc' = "crash"
             /\ UNCHANGED <<stableBm, evaluated, queue, merged>>
        ELSE /\ evaluated' = kept \o Plain(rows)
             /\ queue' = Chunks(evaluated')
             /\ merged' = rows
             /\ stableBm' = bm
             /\ pc' = "done"

-----------------------------------------------------------------------------
(* KeepMapCacheMode: the memory delta is the one with the least timestamp, *)
(* the tail the one with the greatest; a single delta is no tail.          *)

MemPos == IF Size = 1 THEN 1
          ELSE CHOOSE i \in DOMAIN deltas :
                 /\ \A j \in DOMAIN deltas : deltas[i].ts <= deltas[j].ts
                 /\ \A j \in 1 .. i - 1 : deltas[i].ts < deltas[j].ts
TailPos == CHOOSE i \in DOMAIN deltas :
                 /\ \A j \in DOMAIN deltas : deltas[i].ts >= deltas[j].ts
                 /\ \A j \in 1 .. i - 1 : deltas[i].ts > deltas[j].ts

MemRows == deltas[MemPos].rows
TailRows == IF Size = 1 THEN <<>> ELSE deltas[TailPos].rows

(* Mutant: a search interval of one row is taken for empty.                *)
BinarySearchHalfOpen(column, last, num) ==
    LET mid(x) == (x[1] + x[2]) \div 2
        search[x \in (0 .. last + 1) \X (-1 .. last)] ==
          IF x[1] >= x[2] THEN -1
          ELSE IF column[mid(x) + 1] = num THEN mid(x)
          ELSE IF column[mid(x) + 1] > num THEN search[<<x[1], mid(x) - 1>>]
          ELSE search[<<mid(x) + 1, x[2]>>]
    IN  search[<<0, last>>]

(* binarySearch(column, 0, last, num): positions count from 0.             *)
BinarySearch(column, last, num) ==
    LET mid(x) == (x[1] + x[2]) \div 2
        search[x \in (0 .. last + 1) \X (-1 .. last)] ==
          IF x[1] > x[2] THEN -1
          ELSE IF column[mid(x) + 1] = num THEN mid(x)
          ELSE IF column[mid(x) + 1] > num THEN search[<<x[1], mid(x) - 1>>]
          ELSE search[<<mid(x) + 1, x[2]>>]
    IN  search[<<0, last>>]

(* Where batch n of the stable rows holds the tail's key, -1 if it does    *)
(* not: only the first column of the key is compared.                      *)
FoundInBatch(n, key) ==
    LET rows == BatchEnd(n) - BatchBegin(n)
        column == [i \in 1 .. rows |-> stable[BatchBegin(n) + i][1]]
    IN  IF column[rows] >= key[1]
        THEN BinarySearch(column, IF composite THEN rows - 1 ELSE rows, key[1])
        ELSE -1

(* getBatchedKeepMap on batch n: the tail's updates remove the overwritten *)
(* rows from the memory delta or from the bitmap.  kept and unseen are     *)
(* what is left of the memory and of the tail delta before the batch.      *)
OverwritesMem(j, kept) ==
    TailRows[j].type = "UPDATE" /\ \E i \in kept : MemRows[i].key = TailRows[j].key
OverwritesStable(j, kept, n) ==
    /\ TailRows[j].type = "UPDATE" /\ ~OverwritesMem(j, kept)
    /\ FoundInBatch(n, TailRows[j].key) # -1

(* Mutant: rows are pushed although they do not fill a chunk.              *)
NextChunkShort(rows) ==
    LET sent == Len(queue) * ChunkSize
    IN  IF Len(rows) > sent
        THEN <<SubSeq(rows, sent + 1, IF Len(rows) < sent + ChunkSize THEN Len(rows) ELSE sent + ChunkSize)>>
        ELSE <<>>

(* The next chunk of the merged rows, once they fill it.                   *)
NextChunk(rows) ==
    LET sent == Len(queue) * ChunkSize
    IN  IF Len(rows) >= sent + ChunkSize THEN <<SubSeq(rows, sent + 1, sent + ChunkSize)>>
        ELSE <<>>

(* stablesBatchedDeltaMerge: batch n is merged, filtered by its part of    *)
(* the bitmap, and a full chunk goes to the queue if there is one.         *)
MergeBatch(n) ==
    IF deltas = <<>>
    THEN /\ queue' = Append(queue, StableRows(BatchBegin(n), BatchEnd(n)))
         /\ evaluated' = evaluated
         /\ order' = Append(order, n)
         /\ UNCHANGED <<stableBm, memKept, seen, pc>>
    ELSE IF stableBm = None
    THEN /\ pc' = "crash"           \* stableBm_.get()->size()
         /\ UNCHANGED <<stableBm, memKept, seen, evaluated, queue, order>>
    ELSE LET kept == IF n = 1 THEN DOMAIN MemRows ELSE memKept
             unseen == IF n = 1 THEN DOMAIN TailRows ELSE DOMAIN TailRows \ seen
             mem == {j \in unseen : OverwritesMem(j, kept)}
             stb == {j \in unseen : OverwritesStable(j, kept, n)}
             gone == {BatchBegin(n) + 1 + FoundInBatch(n, TailRows[j].key) : j \in stb}
             bm == [s \in DOMAIN stable |-> IF s \in gone THEN 0 ELSE stableBm[s]]
             rows == Evaluate(StableRows(BatchBegin(n), BatchEnd(n)), Kept(bm, BatchBegin(n), BatchEnd(n)))
         IN  /\ memKept' = {i \in kept : ~\E j \in mem : MemRows[i].key = TailRows[j].key}
             /\ seen' = (DOMAIN TailRows \ unseen) \cup mem \cup stb
             /\ stableBm' = bm
             /\ evaluated' = evaluated \o rows
             /\ queue' = queue \o NextChunk(evaluated')
             /\ order' = Append(order, n)
             /\ UNCHANGED pc

(* Mutant: the tail delta is left out of the merged delta.                 *)
MergeDeltasDropsTail ==
    LET kept == IF NumBatches = 1 THEN DOMAIN MemRows ELSE memKept
        old == IF Size > 1 THEN Evaluate(deltas[Size].rows, kept) ELSE <<>>
        all == evaluated \o Plain(old \o deltas[1].rows)
    IN  IF deltas = <<>>
        THEN pc' = "done" /\ UNCHANGED <<evaluated, queue, merged>>
        ELSE \E cuts \in Cuts(deltas[Size].rows) :
        IF Size > 1 /\ ~(Selects(deltas[Size].rows, cuts, kept) /\ kept \subseteq DOMAIN deltas[Size].rows)
        THEN pc' = "crash" /\ UNCHANGED <<evaluated, queue, merged>>
        ELSE /\ evaluated' = all
             /\ queue' = queue \o Chunks(SubSeq(all, Len(queue) * ChunkSize + 1, Len(all)))
             /\ merged' = IF Size > 1 THEN old ELSE deltas[1].rows
             /\ pc' = "done"

(* deltasDeltaMerge: what the tail left of the oldest delta, then the      *)
(* newest one.  The memory delta is read anew when batch 1 was the last.   *)
MergeDeltas ==
    LET kept == IF NumBatches = 1 THEN DOMAIN MemRows ELSE memKept
        old == IF Size > 1 THEN Evaluate(deltas[Size].rows, kept) ELSE <<>>
        all == evaluated \o Plain(old \o deltas[1].rows)
    IN  IF deltas = <<>>
        THEN pc' = "done" /\ UNCHANGED <<evaluated, queue, merged>>
        ELSE \E cuts \in Cuts(deltas[Size].rows) :
        IF Size > 1 /\ ~(Selects(deltas[Size].rows, cuts, kept) /\ kept \subseteq DOMAIN deltas[Size].rows)
        THEN /\ pc' = "crash"       \* no selection vector, or rows that do not exist
             /\ UNCHANGED <<evaluated, queue, merged>>
        ELSE /\ evaluated' = all
             /\ queue' = queue \o Chunks(SubSeq(all, Len(queue) * ChunkSize + 1, Len(all)))
             /\ merged' = old \o deltas[1].rows
             /\ pc' = "done"

-----------------------------------------------------------------------------
(* DeltaMergePOp::onReceive.                                               *)

DeltasReceived == fromHandler > 0

(* A batch of stable rows: merged at once if the deltas are here.          *)
RecvTuple ==
    /\ pc = "run" /\ fromScan < NumBatches
    /\ fromScan' = fromScan + 1
    /\ IF flag /\ DeltasReceived
       THEN MergeBatch(fromScan + 1) /\ UNCHANGED stables
       ELSE /\ stables' = Append(stables, fromScan + 1)
            /\ UNCHANGED <<stableBm, memKept, seen, evaluated, queue, order, pc>>
    /\ UNCHANGED <<inputVars, fromHandler, earlyIdx, merged>>

(* Mutant: the early batch is merged and stays marked as waiting.          *)
RecvResponseForgets ==
    /\ pc = "run" /\ fromHandler = 0
    /\ fromHandler' = 1
    /\ IF flag /\ fromScan > 0
       THEN MergeBatch(stables[1])
       ELSE UNCHANGED <<stableBm, memKept, seen, evaluated, queue, order, pc>>
    /\ UNCHANGED <<inputVars, fromScan, stables, earlyIdx, merged>>

(* The deltas: the first batch kept back is merged, if there is one.       *)
RecvResponse ==
    /\ pc = "run" /\ fromHandler = 0
    /\ fromHandler' = 1
    /\ IF flag /\ fromScan > 0
       THEN /\ earlyIdx' = earlyIdx + 1
            /\ MergeBatch(stables[earlyIdx + 1])
       ELSE UNCHANGED <<earlyIdx, stableBm, memKept, seen, evaluated, queue, order, pc>>
    /\ UNCHANGED <<inputVars, fromScan, stables, merged>>

(* A COMPLETE: the second one starts the end of the merge.                 *)
RecvComplete ==
    /\ pc = "run"
    /\ \/ /\ fromScan = NumBatches
          /\ fromScan' = fromScan + 1
          /\ pc' = IF fromHandler = 2 THEN "drain" ELSE "run"
          /\ UNCHANGED fromHandler
       \/ /\ fromHandler = 1
          /\ fromHandler' = 2
          /\ pc' = IF fromScan = NumBatches + 1 THEN "drain" ELSE "run"
          /\ UNCHANGED fromScan
    /\ UNCHANGED <<inputVars, stableBm, stables, earlyIdx, memKept, seen,
                   evaluated, queue, merged, order>>

(* In the handler of the last COMPLETE: the batches still kept back.       *)
DrainEarly ==
    /\ pc = "drain" /\ flag /\ earlyIdx < Len(stables)
    /\ earlyIdx' = earlyIdx + 1
    /\ MergeBatch(stables[earlyIdx + 1])
    /\ UNCHANGED <<inputVars, fromScan, fromHandler, stables, merged>>

(* Then the deltas; the plain merge does all its work here.                *)
Finish ==
    /\ pc = "drain"
    /\ \/ /\ flag /\ earlyIdx = Len(stables)
          /\ MergeDeltas
          /\ UNCHANGED <<stableBm, order>>
       \/ /\ ~flag /\ deltas = <<>>        \* noMerge
          /\ queue' = Chunks(StableRows(0, Len(stable)))
          /\ pc' = "done"
          /\ UNCHANGED <<stableBm, evaluated, merged, order>>
       \/ /\ ~flag /\ deltas # <<>>
          /\ KWayMerge
          /\ UNCHANGED order
    /\ UNCHANGED <<inputVars, fromScan, fromHandler, stables, earlyIdx, memKept, seen>>

Stopped == pc \in {"done", "crash"} /\ UNCHANGED vars

Next == RecvTuple \/ RecvResponse \/ RecvComplete \/ DrainEarly \/ Finish \/ Stopped

Spec == Init /\ [][Next]_vars

-----------------------------------------------------------------------------
(* What a merge promises.                                                  *)

(* The rows of the table: of every key the row of the newest delta that    *)
(* has it, unless that deletes it, or else the stable row.                 *)
Newest(k) == CHOOSE i \in DOMAIN deltas : k \in DeltaKeys(i) /\ \A j \in 1 .. i - 1 : k \notin DeltaKeys(j)
InDeltas(k) == \E i \in DOMAIN deltas : k \in DeltaKeys(i)
Latest ==
    {[key |-> k, ver |-> deltas[Newest(k)].rows[IndexIn(Newest(k), k)].ver] :
        k \in {k \in AllKeys : InDeltas(k) /\ TypeAt(Newest(k), k) # "DELETE"}}
    \cup {[key |-> stable[s], ver |-> 0] :
        s \in {s \in DOMAIN stable : ~InDeltas(stable[s]) /\ (oldBm = None \/ oldBm[s] = 1)}}

(* A merge that ends without undefined behaviour has handed on the rows of *)
(* the table, each of them once: no overwritten version next to its        *)
(* successor, no row lost between the batches, whichever of batches and    *)
(* deltas arrive first.                                                    *)
ResultIsLatest ==
    pc = "done" =>
        LET places == {x \in (DOMAIN queue) \X (1 .. ChunkSize) : x[2] <= Len(queue[x[1]])}
        IN  /\ {queue[x[1]][x[2]] : x \in places} = Latest
            /\ Cardinality(places) = Cardinality(Latest)

(* The merged delta and the bitmap that such a merge leaves in the cache   *)
(* stand for the same table: the next query that starts from them finds    *)
(* every row.                                                              *)
CacheStandsForResult ==
    pc = "done" /\ merged # None =>
        Latest = Elems(Plain(merged))
                 \cup {[key |-> stable[s], ver |-> 0] : s \in {s \in DOMAIN stable : stableBm[s] = 1}}

(* Every batch is merged exactly once before the deltas are, and the first *)
(* one first: it alone reads the memory and the tail delta.                *)
BatchesMergedOnce ==
    pc = "done" /\ flag =>
        /\ Len(order) = NumBatches
        /\ Elems(order) = 1 .. NumBatches
        /\ order[1] = 1

(* At most one chunk of a partition is short and none is empty, in         *)
(* whatever order the batches are merged: the server waits for as many     *)
(* chunks as the rows fill.                                                *)
ChunksAreFull ==
    /\ \A i \in DOMAIN queue : Len(queue[i]) \in 1 .. ChunkSize
    /\ Cardinality({i \in DOMAIN queue : Len(queue[i]) < ChunkSize}) <= 1

(* The merge never runs into undefined behaviour: there is a bitmap when   *)
(* there are deltas, and a selection vector for every batch of rows that   *)
(* the filter reads.                                                       *)
NeverCrashes == pc # "crash"
=============================================================================
