# Hermes: verification project

Hermes is an HTAP layer on top of the FPDB query engine. Analytical queries read immutable
*stable* objects from S3; a parser of the transactional engine's binlog supplies the *deltas*;
a query merges both, and leaves the merged delta in a cache for the next query. This directory
holds TLA+ modules of that program, the TLC configurations that check them, and proofs checked
by TLAPS. All paths below are relative to the repository; `executor/` stands for
`src/fpdb-executor/src/`.

## The system

### Components

| part | code | state | operations |
|---|---|---|---|
| Execution (root actor) | `executor/Execution.cpp`, `physical/POpDirectory.cpp` | `opDirectory_`, the operators' actors | boot, start, join, close |
| Operator actors | `physical/POpActor.cpp`, `POpContext.cpp`, `LocalPOpDirectory.cpp` | `running_`, `buffer_`, `complete_`, `operatorMap_` | CONNECT, START, TUPLE, COMPLETE, LOAD_*, exit |
| S3 scans | `physical/s3/S3SelectScanAbstractPOp.cpp` | position in the object, retry counter | readAndSendTuples |
| CacheHandler | `physical/deltacache/CacheHandlerPOp.cpp` | none | load request, load response |
| DeltaMerge | `physical/deltamerge/*` | `stables_`, `deltas_`, `stableBm_`, counters of the batched merge | TUPLE, LOAD_RESPONSE, COMPLETE; k-way and batched merge |
| Delta cache actor | `executor/delta/*`, `src/fpdb-delta/` | deltas and bitmaps per partition, `queryId`, `lastTimestamp` | load (with pump), pump, store merged delta |
| Log parser | `src/fpdb-logparser/` | read point and file, bytes read, table of the last TABLE_MAP event | parse what was logged since the last call, partition the records |
| Executor | `executor/Executor.cpp` | query counter, periodic thread | start, execute, stop |
| Other operators | merge, collate, project, aggregate, group, sort, limit | buffered tuples | tell on a tuple, complete when producers have |
| Joins | `physical/join/` | buffered inputs, matched rows, output buffer | join incrementally, finalize |
| Shuffle, split | `physical/shuffle`, `split` | buffered tuples per consumer | send each part to one consumer |
| Filter | `physical/filter` | buffered tuples | its body is commented out in this version |
| Segment cache | `executor/cache/`, `src/fpdb-cache/` | segments; per policy: the keys it believes cached, hits, values, free size | load, store, weight, new query |
| CacheLoad and scans of caching plans | `physical/cache/`, `physical/s3/` | columns hit, to fetch, to push down | load response, store, weight |
| Hermes server | `src/fpdb-hermesserver/`, `src/fpdb-main/test/TestUtil.cpp` | batch queues, `done`, running query, chunk counters | request of a chunk by a client thread |
| Plan transformers | `physical/transform/`, `physical/prune/` | operators made so far and their connections | prune partitions and predicates, make the operators, connect them |
| Catalogue, logical plans, tuples, expressions, Calcite, AWS | the other `src/fpdb-*` | immutable or external | |

### Interaction

The executor runs one query after another. `Execution` spawns one actor per operator, sends each
CONNECT and START and then waits for one COMPLETE of each; an ERROR ends the wait. Operators send
TUPLE and COMPLETE to their consumers; DeltaMerge asks its CacheHandler for the deltas of its
partition, which asks the delta cache actor. The first request of a query makes that actor pump
the binlog. DeltaMerge puts chunks of rows into the queue of its table, from which the server's
threads take them, and sends the merged delta straight to the cache actor before it completes.
A periodic thread asks the cache actor to pump at any time. In caching and hybrid plans a CacheLoad
operator asks the segment cache actor for the columns of a partition, tells one scan what to fetch for
the cache and another what to leave to S3, and both report back to the cache. The first server thread
that calls for a new query runs it; the others take chunks meanwhile. The delta cache actor calls the log parser for every
pump, while the database goes on logging.

### What is hard here

* Actors start at different times: a producer may send before its consumer has been started.
* DeltaMerge and its CacheHandler talk in both directions, which could end in mutual waiting.
* Stable batches and deltas arrive in any order, and a batch kept back is merged after later ones.
* The merged delta and the bitmap of one query are the input of the next: a mistake shows later.
* A pump may fall between the load of a partition and the store of its merged delta.
* Timestamps have a granularity of one second.
* A scan may give up while the rest of the plan runs.
* Server threads test flags and queues outside the lock under which they then wait.
* A policy keeps its own record of what the segment cache holds, and loads and stores of several
  scans interleave in the actor's mailbox.
* Join instances share objects: a message is a pointer, and an append changes what it points to.
* The database appends to the binlog and starts new files while the parser reads; the parser counts bytes of events
  and compares them with the length the file had when the call began.
* The two ends of a connection are set by separate calls, and an operator without a producer never completes.

`PROJECT.json` lists these as hazards, each at its line with the properties that would catch it.

## Modules

| module | models | extends / composes |
|---|---|---|
| `QueryLifecycle` | what an execution promises, without messages | |
| `POpProtocol` | one execution of a plan | instantiates `QueryLifecycle` |
| `POpProtocolProofs` | proofs for every plan | extends `POpProtocol` |
| `MCPOpProtocol` | one partition of a pull-up plan | extends `POpProtocol` |
| `DeltaMergePOp` | the merge of one partition | extends `SequencePositions` |
| `DeltaMergePOpProofs` | proofs for any inputs and orders of arrival | extends `DeltaMergePOp`, `SequencePositionsProofs` |
| `MCDeltaMergePOp` | all inputs over a few keys | extends `DeltaMergePOp` |
| `DeltaCacheActor` | the delta cache over a sequence of queries | |
| `DeltaCacheActorProofs` | proofs for every workload | extends `DeltaCacheActor` |
| `MCDeltaCacheActor` | workloads | extends `DeltaCacheActor` |
| `HermesServer` | the server threads and the batch queues | |
| `HermesServerProofs` | proofs for any threads, tables and chunks | extends `HermesServer` |
| `MCHermesServer` | workloads of its clients | extends `HermesServer` |
| `LRUCachingPolicy`, `LFUCachingPolicy` | two caching policies, as operators on a record | the second extends `SequencePositions` |
| `HeapCachingPolicy` | WLFU and LFUS, which differ in the value of a key (`perSize`) | |
| `BoundedCache` | what a cache of bounded size promises | |
| `SegmentCache` | the cache actor, and the operators of caching and hybrid plans | extends `SequencePositions`, instantiates the policies and `BoundedCache` |
| `SegmentCacheProofs` | proofs for any plans, sizes and policies | extends `SegmentCache` |
| `MCSegmentCache` | plans, sizes and configurations | extends `SegmentCache` |
| `SequencePositions` | the part of a sequence at given positions | |
| `SequencePositionsProofs` | lemmas about it, induction over numbers, sums over finite sets, sorting | extends `SequencePositions` |
| `ParallelJoin` | shuffle, split and the instances of a join | extends `SequencePositions` |
| `ParallelJoinProofs` | proofs for any instances, rows and batches | extends `ParallelJoin` |
| `MCParallelJoin` | join plans | extends `ParallelJoin` |
| `LogParser` | the parser of the binlog beside a database that logs | |
| `LogParserProofs` | proofs for any tables, event sizes, files and calls | extends `LogParser` |
| `MCLogParser` | event sizes | extends `LogParser` |
| `PlanTransformer` | partition pruning, and how a physical plan is made | |
| `MCPlanTransformer` | pre-physical plans, zone maps and rows | extends `PlanTransformer` |

A definition whose comment begins with "Mutant" is a wrong variant of the next definition, used to
confirm that a property notices that mistake. It is not part of any specification.

### POpProtocol

The plan is a constant: operators, edges, and the kind of each. `chan[s][d]` is a FIFO channel per
pair of actors, which covers operators on one node and on several. `status` stands for `running_`
(with the loop of a scan as a status of its own), `buffer` for `buffer_`, `entries` and `done` for
`operatorMap_` and its complete marks, `rootDone` for the root's directory.

| action | code |
|---|---|
| `ExecutionStart`, `JoinComplete`, `JoinError`, `Close` | `Execution::start`, `join`, `close` and the destructor |
| `RecvConnect`, `RecvStart`, `Buffer`, `Drain`, `Receive`, `RecvExit` | the branches of `behaviour` in `POpActor.cpp`, and `on_exit` |
| `ScanBatch`, `ScanDone`, `ScanError` | the loop of `readAndSendTuples` |
| `OnTuple`, `OnComplete`, `OnLoadRequest`, `OnLoadResponse` | the operators' `onReceive` |

The handler of START works off `buffer_` in a loop. Each buffered message is a step (`Drain`) since
what it sends is visible to others at once; the actor takes no other message meanwhile. Several
tuples told by one handler count as one. A tuple's content is left out, so a handler that may or may
not tell (a join with no partner yet) is a choice. `notifyError` also destroys the actor's handles.
For a scan this is the status `failed`: whatever the retry loop does later reaches no one. For the
errors of the contexts and directories the effect is left out, because `OnlyScansReportErrors`
shows that they never arise. STOP is left out: nothing sends it. An operator name that is a producer
and a consumer at once is excluded by `PlanAssumption`, so the duplicate entry `RecvConnect` guards
against cannot occur.

`PlanAssumption` and `HandlerAssumption` state what plans look like: scans and cache handlers have
no producers, no two operators feed each other, a DeltaMerge has exactly one cache handler, and
that handler serves it alone.

### DeltaMergePOp

One operator and one query. A row is its key and the delta it is from. `RecvTuple`, `RecvResponse`,
`RecvComplete`, `DrainEarly` and `Finish` are the branches of `onReceive`; `MergeBatch` is
`stablesBatchedDeltaMerge` with `getBatchedKeepMap`, `MergeDeltas` is `deltasDeltaMerge`, and
`KWayMerge` is `deltaMerge` with `DeleteMapGeneratorKernel`. The k-way walk over sorted inputs is
modelled by what it decides for each key, its position arithmetic as it is. Undefined behaviour (a
null bitmap, a null selection vector, a function that ends without returning one, a position outside the
delta) leads to `pc = "crash"`. `DeltaMergeFilter::evaluate` reads a table batch by batch, a batch ending after `ChunkSize` rows
or where an arrow chunk ends; `Cuts` lets the chunks of a delta end anywhere, and `Selects` says that every batch has a row to keep,
without which the filter of a delta is undefined. `Latest` is the reference definition the result is compared with.

`Input` is a constant; for each family of inputs (`KWay`, `Batched`, `Overwritten`, `PartlyOverwritten`) `MCDeltaMergePOp` gives all stable tables, deltas and bitmaps over a few keys
that agree with one another: a bitmap has the bits of the memory delta's keys off, a row that exists
is updated and another is inserted. The rows of a merged delta come in the order of earlier merges;
sorted and reversed stand for all orders.

### DeltaCacheActor

The binlog is a sequence of changes; a change is known by its position, which also dates it. The
cache maps each partition to its deltas, newest first. `HandleLoad`, `HandlePump` and `HandleMerged`
are the three behaviours of the actor. `Request` and `MergeDone` are the CacheHandler and DeltaMerge of
each partition, `StartQuery` the executor, `Tick` the periodic thread and `Commit` the database.
`Merge` is what a correct DeltaMerge returns for the deltas it looks at, the first and the last; where the
merge itself goes wrong is the subject of `DeltaMergePOp`. The bitmap is left out here.

The actor has one mailbox in order of sending: DeltaMerge sends its merged delta before it completes,
the query ends after all completions, and so the store of one query precedes the loads of the next.

### HermesServer

`TestUtil::execute` is called by a thread for one chunk of one table. `condition` decides under a global
lock whether the call is the first of its query; that thread (`"main"`) runs the query and then takes a chunk
itself, the others test and wait. Every critical section and every unlocked read is a step of its own: `MainTest`
and `MainTake`, `ThreadTest` and `ThreadTake`. `Push` is `addToQueueAndNotify` of any DeltaMerge, which wakes one
waiting thread. A wake-up leads back to the lock, so another thread may take the chunk first. `Swapped`
is what five swaps with one local queue do. `Expected` are the literals the code compares its
counters with, and the chunks a query delivers (`work.chunks`) agree with them, except for lineorder, whose
end is told by `done_`. The client is external: `Request` asks for a table in the order the workload gives, and
`NextQuery` follows when it has read all tables to their end. The thread counter of the handler is left
out: it is used in log lines only.

### SegmentCache and the policies

The cache actor handles one message at a time: `HandleNewQuery`, `HandleLoad`, `HandleStore`, `HandleWeight`.
`OnStart` and `OnCacheLoadResponse` are the CacheLoad operator of a scan, `PullUp` the scan that fetches
columns for the cache, `PushDown` the one that leaves the rest to S3, `LateStore` the store of a scan that
completed before it read. A policy is a module of operators on a record; each returns the set of
possible results. `pol.crashed` is undefined behaviour of a policy (`front()` of an empty vector, the first
element of an empty set); nothing is claimed after it.

A late store is sent at any time, in the same query or in a later one: neither `Execution::join` nor `close` nor
`Executor::execute` waits for it, and `NewQuery` does not either. The history variable `overtaken` records that
a query has started that reads a segment of such a store. The load of that query calls the segment missing again, and
it may be stored twice. `CacheMatchesPolicy`, `SizesAddUp` and `StoredOnce` speak of what happens before; for a segment stored twice
the policies are modelled as they are. LRU lists the key twice. LFU leaves the element of the first store in its list with nothing in `keyMap_`
that points at it (`mapped`), and evicting it is undefined. LFUS and WLFU have two valid heap entries of one
key (`copies`); a hit replaces all of them by one, evicting one removes the key from `keySetInCache_`, and a store that
is refused puts the keys of all popped entries back. All of them take the bytes off the free size a second time.

What the abstraction does: any valid entry may be at the front of a heap, because values change while the
entries are in it and nobody reorders them; invalid entries are left out, they are popped when met and change
nothing. `PolicyKeys` are the keys a policy takes for cached, `usageQueue_`, `keyMap_` or `keySetInCache_`, and not what
`getKeysetInCachePolicy` of LFUS and WLFU returns: that is the heap with its invalid entries, so that
`checkCacheConsistencyWithCachePolicy`, which nothing calls, may throw once a key that had a hit is evicted: a hit leaves the old entry in the heap.
One `Size` stands for the size in the catalogue and the size of the data. What the scans' rows go through afterwards is left out
(the filter of this version sends an empty table).

`BoundedCache` says what holds for any policy: never more bytes than allowed, and, as long as no segment is offered twice
(`once`), nothing is dropped unless something comes in that would not have fitted beside it. `Bounded` maps the map of the cache,
the message at the head of the mailbox, and `~overtaken` to `once`; the bound is checked after a late store was overtaken, too.

### ParallelJoin

One join with its shuffles or splits. `tuples` is a heap of TupleSets: messages carry numbers of
objects, `Tell` sends all instances the same number, and `ReceiveTuple` appends in place as `TupleSet::append`
does. `JoinIncoming` joins what arrives with everything from the other side, and marks matched rows for outer and
semi joins with the offsets the kernels use. `Finalize` adds the rows that met none. The hash function is the
arbitrary map `slot`. `Reference` is the join by definition.

The hash join operators of this version tell null pointers in place of their results (`HashJoinBuildPOp.cpp:53`,
`HashJoinProbePOp.cpp:84`), so the hash kernels are driven by the shuffled tuple sets directly, one index
per tuple set. Each side has one producer. Of the nested loop join the inner one is modelled.

### LogParser

The binlog is a sequence of files, a file a sequence of events, and a position the number of events before it; each event
also has the byte it ends at (`end`), because the parser compares bytes. `LogBegin`, `LogMap`, `LogRows`, `LogXid` and
`Rotate` are the database (external), which logs whole transactions. `Measure` and `Open` are the first half of
`Parser.parse`: the length of the file is taken, then the reader is made and the read point moved, and the database may log in
between. `ReadEvent` with `Break`, `ReadMap`, `Skip`, `ReadRows` or `Fail` is one round of the loop, `NextStream` what a
`SequenceInputStream` does at the end of a file, `EndOfLog` a null event. `totalSize` and `currentTable` are statics: they
survive a call, also one that ends in an exception, whose records are handed on all the same
(`LogParserServerHandler`). `delivered`, `grew` and `failed` are history. An event of several rows fills one record
several times, so the record that is written is that of the last row.

Left out: Avro, the values of columns, and the partition a key falls into. `DeltaCacheActor` starts where this module
ends, with the changes a pump returns.

### PlanTransformer

A pre-physical plan is a sequence in the order in which `transformDfs` finishes its operators; what it returns waits on
`stack`. Every branch is an action: five for scans (`ScanPullupDelta` ... `ScanHybrid`) and one for each other kind. An
operator's name is the tuple of the parts its string is made of, so that two operators clash exactly when their
names would. `produces` and `consumes` hold what each side was told, by `produce` and `consume` or by the setters of
joins and cache loads; they are kept apart because the code sets them apart. `Prune` and `PrunePredicate` are
`PartitionPruner`, `CheckValid` its table of comparisons; `Satisfies` says what a predicate means.

Left out: columns, expressions, aggregate functions and node ids. A literal has the type of its column. One column has a
zone map, the most any metadata file of the repository gives. `connectOneToOne` throws on unequal lengths; its callers
always make one consumer for each producer. Zone maps are those of the stable objects: a pruned partition is not
read, so neither are its deltas (the hattrick metadata has no zone maps).

## Runs

| run | what is checked | result |
|---|---|---|
| `merge_plan` | one partition of a pull-up plan, up to 2 batches: types, `CompleteAfterDrain`, `JoinLosesNothing`, `OnlyScansReportErrors`, refinement of `QueryLifecycle`, `ExecuteEnds` | holds |
| `delta_merge` | k-way merge with no or one delta, composite keys, deletes; batched merge in 2 or 3 batches, up to two deltas, any arrival order: result, cache, each batch once, chunks | holds |
| `cache` | 3 queries over all partitions, 4 changes, one periodic pump: types, deltas newest first; up to that pump nothing forgotten, one snapshot, at most two deltas | holds |
| `server_disciplined` | 3 threads, 3 queries, one may fail; each table read by one connection to its end: own chunks, once, empty means all, no crash, every call answered | holds |
| `segment_cache` | 3 queries of 2 scans, four policies, caching only and hybrid, stores that come queries late: only loaded keys, each column once, `BoundedCache`; until a query overtakes a late store cache and policy agree, sizes add up, no duplicate | holds |
| `parallel_join` | hash (inner, full outer), semi and nested loop joins of 1 or 2 instances: the result is the join, and an instance fails only behind a split of an empty input | holds |
| `log_parser` | 4 calls while the database logs transactions over two known tables and an unknown one and rotates: types; in one file once and in order, right table, nothing lost | holds |
| `plan_transformer` | plans of one and two scans, four modes, 1 and 2 instances: types, both ends agree, every result reaches collate, the plan can complete, pruning is exact | holds |
| `all_overwritten` | a tail that overwrites the whole memory delta: no undefined behaviour | violated |
| `cache_one_table` | queries that read one table each: nothing forgotten | violated |
| `server_shared` | two connections read the facts of one query: every call answered | violated |
| `log_grows` | the database logs while the parser reads: every row up to the read point was written out | violated |

The passing runs therefore also delimit where the code is right. The batched merge gives the
latest rows for a table with one key column, updates and inserts but no deletes, at least two batches, a cached bitmap and
distinct timestamps, unless it runs into the undefined behaviour of `all_overwritten`: a batch of
delta rows of which the filter keeps none (its properties speak of merges that end, in the k-way merge too). The cache forgets nothing while every query reads every partition, up to the first
periodic pump (`QueriesOnly`), and if no row changes twice between two pumps. The server answers every call while each table has
one reader, the segment cache and its policy agree while the scans of a query read different partitions and no query reads a segment whose store is late, and nested loop joins are
exact while the left input comes in one tuple set. The log parser delivers once and in order while there is one file and no call
fails, to the right table while moreover the file does not grow under a call, and a plan completes if pruning leaves every scan a partition. A violated run drops one of these
conditions, and `PROJECT.json` records under "findings" the line of code and the comment it contradicts.

The other conditions are limits of the code too. Each shows when a constant or a field of an MC module is changed:

| change | what fails | why |
|---|---|---|
| `sizes` of the family `Batched` to `{1, 2}` (one batch) | `ResultIsLatest` | `deltasDeltaMerge` passes the batch counter 1 again and the memory delta is read anew |
| `ticks` of `Batched` to `FALSE` | `ResultIsLatest` | `positionTailAndMemDelta` takes one delta for tail and memory |
| `keys` of `Batched` to pairs such as `<<1, 1>>, <<1, 2>>` | `ResultIsLatest` | the search compares the first key column only |
| `cached` of `Batched` to `FALSE` | `NeverCrashes` | the bitmap is a null pointer |
| `Families <- OnlyPartly` in `MCDeltaMergeOverwritten.cfg` | `NeverCrashes` | a batch of the delta with no row to keep, beside one with some, takes `generateSelectionVector` past its end |
| `counts` of `KWay` to `{2}` | `ResultIsLatest` | positions of the memory delta are used in the tail delta |
| without `QueriesOnly` in the properties of `DeltaCacheActor` | `QuerySeesOneSnapshot`, `NothingForgotten` | a pump between load and store is lost |
| `Repeats = TRUE` in `MCDeltaCacheAllTables.cfg` | `NothingForgotten`, `QuerySeesOneSnapshot` | a set ordered by key keeps the older change |
| `Workload <- Abandoning` in `MCHermesOne.cfg` | `OwnChunks` | chunks left in a queue are swapped into another table's |
| `Configs <- MCWeighted` and `NeverCrashes` in `MCSegmentCache.cfg` | `NeverCrashes` | the heap of `onToCache` runs dry |
| `Plans <- MCTwicePlans`, `Configs <- MCTwiceConfigs`, `Size <- MCOneSize` in `MCSegmentCache.cfg` | `CacheMatchesPolicy`, `StoredOnce` | a query that scans a partition twice stores its segment twice, and LRU lists the key twice |
| without `~overtaken` in the properties of `SegmentCache` | `StoredOnce`, `SizesAddUp` | a query fetches a segment whose late store is still to come; LFU, LFUS and WLFU take its bytes off the free size twice |
| `Plans <- SharedLeft` in `MCParallelJoin.cfg` | `JoinIsExact` | two instances append to the same left tuple set |
| `OnceInOrder` without `OneFile` | `OnceInOrder` | the next file is read before the rest of the old one |
| `OnceInOrder` without `~failed` | `OnceInOrder` | `totalSize` lags behind, and events beyond the measured length are read twice |
| `RightTable` without `~grew` | `RightTable` | a TABLE_MAP event is dropped and the next call keeps the old table |
| `AllEventInfo` with `MaxRows = 2` | `AllEventInfo` | an event of several rows delivers its last row |
| `PlanCompletes` without `SomeLeft` | `PlanCompletes` | operators behind a scan without partitions have no producer |
| `Plan("semi", FALSE, 1, 2, 2)` in `MCParallelJoin` | `JoinIsExact` | matches are saved with an offset and looked up without it |

### Bounds

* `MaxBatches` 2 in `merge_plan`: with two batches a batch can be under way
  while another is handled, buffered, or follows a completion elsewhere. Nothing in the protocol counts
  batches, and the proofs cover any number.
* `ChunkSize` 2 with 4 or 5 rows: full and short last batches. Three batches are the least in which a
  batch kept back is overtaken: the first one is merged with the deltas, the second waits, the
  third is merged on arrival.
* Keys: five first-column values let a tail delta hold keys below, inside, between and above
  those of each batch. The family `KWay` has all sets of composite keys over two values per column.
* `MaxQueries` 3: the deltas of a query are merged in the second and the result is used in the third.
  `MaxChanges` 3 or 4 gives changes before, during and after each query; `MaxTicks` 1 a periodic pump anywhere.
* `MaxQuery` 3 for the server: a query after one that failed, and the queues swapped twice. Three threads are the least
  with two readers of one table beside one of another. One query delivers no facts, one no chunk at all.
* The segment cache: `MaxSize` 3 with segments of 1 and 2 bytes, so that some queries fit, some evict one and some two segments, and
  a segment can be refused. `MaxQueries` 3: store, hit, evict; a store can be two queries late, or meet the store of the query that overtook it. `Enough` 1 reaches both branches of the estimates; `SizeT` 100
  stands for 2^64: it only has to exceed all sums, so that a wrapped size is told from an honest one.
* Joins: `BufferSize` and `MaxBatch` 2, three left and two right rows over two keys, two tuple sets a side: buffers that fill exactly,
  overflow and stay short, a key with several rows on each side, empty tuple sets, and parts of a split that are uneven.
* The log: `MaxEvents` 8 holds, after the format event, a transaction and three events of the next: the least in which each condition
  of `OnceInOrder`, `RightTable` and `NothingLost` is needed (dropping any one makes the property fail). The second file may have half as
  many. `MaxCalls` 4 is one more than those failures take. `MaxFiles` 2: nothing looks further than the next file. `log_grows`
  has 10 events, two transactions. Sizes keep MySQL's proportions (`Magic` below any event, a begin event longer than an
  XID event). The proofs cover all of these.
* Plans: three partitions whose zones overlap, hold one value and lie apart, every comparison with values at, inside and outside their
  bounds, conjunctions and disjunctions of two; one and two instances, the branches of every transformer.
* Symmetry over partitions and keys in the cache runs and over known tables in the log run: nothing distinguishes them there.

### Fairness

`FairSpec` of `POpProtocol` is used for `ExecuteEnds` only. CAF schedules every actor whose mailbox is not empty, and
handles its messages in order of arrival, so a message from each sender is eventually handled: weak
fairness of every receive. A scan's loop ends by success or by exhausted retries (at most `MaxBatches`
batches). No fairness is assumed of the choice between success and failure.

`Spec` of `HermesServer` has weak fairness of the steps of each thread (the operating system runs every thread that is not asleep, and
a waiting lock is free again after a few steps) and of `Push` for each table (the query that runs delivers its chunks). Nothing
is assumed of the client, which may stop asking.

Deadlock is checked in all runs but those of the server and the segment cache, where the client may stop asking. Where else the program
may rest (execution over, merge ended, join ended, cache actor waiting for work) the specification has a stuttering disjunct whose guard says exactly that.

## Proofs

TLAPS proves the following for every value of the constants that meets the named assumptions.

`POpProtocolProofs` (assumptions `PlanAssumption`, `HandlerAssumption`):

* `TypeCorrect`, `Drained` (`CompleteAfterDrain`), `NothingLost` (`JoinLosesNothing`),
  `ErrorsAreScans` (`OnlyScansReportErrors`): invariants of `Spec`.
* `Implements`: `Spec` implements `QueryLifecycle!Spec`.

None of these is inductive. `IInv` adds: CONNECT is handled before START (`ConnectInv`); which messages
may be between which operators (`Vocabulary`); a COMPLETE is the last message on its edge and a producer
marked complete has nothing under way or buffered (`CompleteIsLast`); an operator that has completed
has marked all its producers (`AfterProducers`); the load request of a DeltaMerge is in one place
at a time (`OneRequest`, without which a cache handler could complete twice); and the
root's beliefs are true (`RootInv`). `CompleteIsLast` and `OneRequest` take the channels and buffers as
arguments, so that they can be stated of the moment when a message has been taken and not handled yet. Every
handler is a lemma about that moment, used for a message from a channel and for one from `buffer_`.

`DeltaCacheActorProofs` (assumption `CacheAssumption`):

* `TypeCorrect`. The point that needs an argument is that the record a pump keeps of each key exists: a non-empty
  set of positions has a least element.
* `DeltasNewestFirst` (`NewestFirst`): the invariant is strengthened by `DatedByPump` (no delta is
  dated after the read point). A pump that brings something moves the read point, so its deltas are
  later than all others.
* `TailAndMemoryOnly` (`AtMostTwoDeltas`), for workloads in which every query reads every partition (`ReadsAll`; the run
  `cache_one_table` shows what happens otherwise). `Quiet` says where a query is: a partition has one request or one
  merged delta under way (`OneAtATime`), merged deltas precede the requests of the next query in the mailbox
  (`StoresFirst`, because the executor starts a query after the last one), the deltas a partition loaded are those the
  cache has (`CacheUntouched`), and a second delta is there only while the merge of both is under way (`TailIsMerged`).
* `CacheForgetsNothing` (`NothingForgotten`) and `QueryReadsSnapshot` (`QuerySeesOneSnapshot`), moreover for `~Repeats`: no row
  changes twice between two pumps (`UnreadOnce`; the table of limits shows what the ordered set does with two). A pump, a
  load and a store each keep `Known` (the newest entry of a row in the deltas is its last pumped change), and the pump of a
  query's first request is the last one before its end (`CutIsRead`).

`LogParserProofs` (assumption `LogAssumption`):

* `TypeCorrect`: the read point and what is left of the streams stay inside the binlog, however it grows and rotates.
* `InOrder` (`OnceInOrder`), `OwnTable` (`RightTable`), `Complete` (`NothingLost`). `IInv` speaks of binlogs of one file
  (a rotation ends that for good). Events lie one behind the other and further apart than the magic header
  (`Laid`, `Spaced`), and a rows event follows its TABLE_MAP event (`Mapped`). Without a failure `totalSize` never lags
  behind the position (`OrderInv`), so an event whose bytes stay within the measured length is one of the measured
  events: the next call does not read it again. While the file is still, `totalSize` never runs ahead either
  (`TableInv`), so no call stops early and the table at hand is the one the event belongs to, or an unknown one that makes
  the call fail. With neither growth nor failure everything behind the position has been delivered (`LossInv`).

`DeltaMergePOpProofs` (assumption `MergeAssumption`: positive chunk size, well-formed rows, bitmaps of the length of the
stable part, an object with rows for the batched merge):

* `OncePerBatch` (`BatchesMergedOnce`). At any time the batches kept back are the first ones in order (`EarlyInv`) and the
  batches merged are those up to `earlyIdx` and those that came after the ones kept back (`OrderInv`). The operator
  finishes when nothing is kept back any more (`ControlInv`).
* `ChunksFullButOne` (`ChunksAreFull`). With deltas the queue holds full chunks and the rest waits for the next merge, until the last
  merge flushes it (`ChunkInv`); without deltas a chunk is a batch, and only the last batch is short. It takes no more of
  the merges than that they return rows.
* `MergeIsLatest` (`ResultIsLatest`) and `CacheStandsForTable` (`CacheStandsForResult`), for any input with `MergeableInput`, any
  size of the chunks and any order of arrival. They speak of merges that end: where a batch of delta rows has none to keep the filter is
  undefined and the model crashes, so nothing is claimed there. No key is twice in the object or in a delta. For the batched merge
  (`BatchedInput`) the first column is a key by which the object is sorted, nothing is deleted, and the bitmap has no bit of a row
  that the memory delta has; at most two deltas, the tail the newer one, and what it does not update is new; with one batch the two
  deltas share no key, because the memory delta is then read anew. The k-way merge (`PlainInput`) has one dated delta at most and no bitmap. Every input
  of the run `MCDeltaMergePOp` satisfies it, and the table of limits shows what fails without the parts of it that say how many
  deltas and batches there are, which delta is newer and what a key is. `ResultInv` follows the batches merged so far (`order`):
  a bit is set if it was set before and the tail does not overwrite the row in one of those batches (`BitsAre`); the memory rows
  left are those the tail does not have (`MemLeft`); a row of the tail is marked only if it found its match (`TailSeen`); the rows
  evaluated are the rows of those batches with a bit (`RowsAre`), and the queue cuts them up in order (`Cut`). That the search returns
  the row of a key or -1 (`SearchFinds`) is proved by induction on the length of the range. For a key of one column the code searches
  one place further than the batch; no answer comes from there, since the batch's last key is no less than the one sought.
  Every row is in one batch (`EachInABatch`, `BatchesApart`), so after the last one the bits say what the tail
  overwrites in the whole object; with the rows of the two deltas that are left (`MergedRows`) that is the table (`TableIsLatest`). The chunks
  hand on each row once (`CutHandsOn`). For the k-way merge, the walk over a sorted list of keys (`ListExists`: there is one)
  takes each key from the delta if that has it (`OneDecides`).

`HermesServerProofs` (assumption `ServerAssumption`):

* `TypeCorrect`.
* `ChunksReachTheirCall` (`OwnChunks`), `ChunksOnce` (`HandedOutOnce`), `EmptyIsTheEnd` (`EmptyMeansAll`) and `MainThreadIsSafe`
  (`NeverCrashes`), under `Discipline`: each table is read to its end by one connection, and a query delivers the chunks the
  literals of `TestUtil::execute` expect. `server_shared` and the table of limits show that the code needs both conditions. They are
  conditions on the client, which is not part of the repository. The chunks of a table are numbered downwards, and `Rest(t)` counts those still to be handed out;
  what is in the queue of a table follows from it (`QueueInv`), and so do the chunks handed out (`HandedInv`) and the
  counter `batchesSeen` (`SeenInv`). All queues are empty when a query starts (`CleanStart`), which is why the swaps of its
  first call put nothing into the wrong queue. `EndInv` relates the flag `done` to what is left, and `TakeInv` says that no one empties
  the queue between the main thread's test and its take.

`SequencePositionsProofs`: the lemmas about `At` and about folds that three of these modules share. `Induction` is induction over the natural
numbers for a *set* of numbers rather than an operator, derived from the well-foundedness of `<`, so that no operator has to be
instantiated: what is folded over a sequence is written as a recursive function, and that it exists and what its steps keep is
proved by induction on the length. The same induction, over the elements of a finite set, gives the sums of the community modules
(`SumFunctionOnSet`: adding an element, splitting a set, parts of a set), and that a finite set has a sequence of its elements sorted by any
strict total order.

`ParallelJoinProofs` (assumption `JoinAssumption`):

* `TypeCorrect`: all messages point to objects that exist, and the row numbers that a kernel has marked are rows of its tuple sets, although
  objects are shared and grow in place. Appending only lengthens an object, so a number stays valid (`HeapInv`, `KernelInv`). That
  the nested loops over indexes and offsets mark numbers in range is proved by induction over the tuples.
* `FailsOnlyBehindSplit` (`FailsOnlyUnsplit`). A producer sends an instance tuple sets and then one COMPLETE (`OrderInv`);
  once a side has given anything, each instance has had a tuple set of it, has one in its mail, or one is held back for
  it, and nothing is held back when the side is closed (`FedInv`). So an instance that failed was owed none.
* `JoinExact` (`JoinIsExact`), under `OneLeftSet`: the left side of a semi join, and of a nested loop join of several instances, comes
  in one tuple set. Hash joins need no condition, and neither does a nested loop join of one instance. The table of limits has what happens
  without it. `JoinIsExact` speaks of the end; `ExactInv` says what holds on the way. An object is on its way to one instance, or was told
  to all of them (`OwnInv`), and of a single left tuple set each instance gets one object (`SingleInv`): so what `append` grows in place is
  no one else's. No row is twice at an instance, in its table, its mail or what is held back for it (`Clean`), and together they are
  the rows given: those whose key the hash sends there, all of them, or a part of a split (`SpreadInv`; the hash is a function of
  the key, `SlotInv`). A kernel has computed the join of the rows it has taken, and marked the rows that met one of the other side
  (`ExactKernel`), whatever side came first. A kernel adds each new pair once because no row is twice
  at an instance (`JoinedOnce`), the semi join finds all its matches by its nested loops (`SemiExact`), and an outer join adds each row
  without a partner once, which uses that `Null` is no row (`FinalExact`).
  At the end nothing is under way or held back, and rows that meet are at one instance, so the results of the instances are the parts of one join.

`SegmentCacheProofs` (assumption `SegmentAssumption`; finitely many columns):

* `TypeCorrect` and `ColumnsOnce` (`EachColumnOnce`), for all four policies. A load in the mailbox is the one its scan waits for, and no two
  are of one scan (`LoadInv`), so an answer is about the columns of the scan's own plan. `AnswerInv` keeps what follows: the columns to
  fetch are among the scan's, and with no pushdown they are all that the cache does not have. Of the policies it uses only that
  `onToCache` names none but missing keys and that a store adds no key but the stored one; both are folds over the keys of a
  message.
* `SegmentsStoredOnce` (`StoredOnce`), under `Apart`: the scans of a query share no segment, as in every plan that reads a table once. The
  property itself ends where a query overtakes a late store (`overtaken`); a late store may be any number of queries late as long as none
  of them reads its segments. The table of limits has the failures without the one and the other. The store of a scan is new from the answer on: what the scan holds
  (`HeldInv`) or still has to send (`LateInv`) is neither in the map nor in the mailbox, and a store in the mailbox shares no key with the map,
  with another store, or with a load before it (`StoreInv`), which would call the key missing a second time.
* `StoresAreOfLoadedKeys` (`OnlyLoadedKeys`), for LFU, LFUS and WLFU and any plans. The hit counts go through every loop of the policies:
  the loads of a message (`LoadKeysKnow`), the victims of an LFU store (`EvictionKnows`), the stores of a message (`StoreKeysKnow`) and the
  estimates of `onToCache` (`EstimateKnows`) lower none, and a load leaves a positive count of each of its keys. So the policy knows (`Knows`) the keys
  of every scan that has its answer, and with them those of the stores and weights the scan sends, in the mailbox or late (`KnowsInv`).
* `CacheAndPolicyAgree` (`CacheMatchesPolicy`), `FreeSizeIsExact` (`SizesAddUp`) and `CacheIsBounded` (`ImplementsBoundedCache`), for all four
  policies, any sizes and any plans with `Apart`; the run with `MCTwicePlans` in the table of limits shows what a segment stored twice does to LRU. None of the
  properties is inductive alone. The first two end where a late store is overtaken, as
  `SegmentsStoredOnce` does, and the refinement is proved of the behaviours in which none is (`[]~overtaken`). `HoldsInv` says of a policy that has not crashed that it lists the keys of the map, that its free size
  is what they leave of the maximum, and, policy by policy, how it lists them: LRU each key once in its usage order (`LRUHolds`), LFU each key once
  in its frequency lists, with `keyMap_` pointing at it (`LFUHolds`), LFUS and WLFU in `keySetInCache_` and by one valid heap entry (`HeapHolds`). With `StoredOnce` a store is about a key the
  policy does not have. `StoreOutcome` is the lemma about one such key: either nothing changes but an estimate, or the key comes in and what goes was
  in the map, makes enough room, and goes only because the key did not fit: for LRU the shortest end of the list that is large enough, for LFU the
  first candidates in the order of `Sooner` (a strict total order, so that the sequence `Candidates` chooses exists), for the heaps the first ones
  popped. A store message is a sequence of such steps (`StageNext`, `StoreKeysHold`): by induction over its keys the map stays between what
  was there and that plus the keys of the message, which is the step `BoundedCache` allows. `TotalIsTotal` identifies the sums of the two modules.

Only model-checked:

* Liveness (`ExecuteEnds`, `EveryCallAnswered`) is out of the prover's reach.
* `JoinIsExact` without `OneLeftSet`, which the code does not keep.
* The merges of inputs without `MergeableInput`, which the table of limits and the run of the finding are about.
* The bound of the segment cache once a late store has been overtaken.
* The properties of `PlanTransformer`, which is written with recursive operators.

## Not modelled

* Filter: its body is commented out in this version. It tells an empty table and completes on every tuple, and on COMPLETE it reads
  `applicable_`, a null pointer nothing sets. The pull-up plans with deltas contain none.
* What expressions and aggregates compute, the layout of tuples, CSV, Parquet and Avro.
* Outer nested loop joins: their helpers are given the other side's tuple set (see hazards), and what follows depends on row
  numbers outside it.
* Metrics of the segment cache, `SegmentCache::remove` and the consistency check, which nothing calls (the check compares with stale heap entries too).
* `batchesSeen_` as the vector of two elements it is initialised to: the counters are modelled as the five the code uses.
* Requests to S3 and their retries one by one, the limits on concurrent conversions.
* DISK_DELTAS and the foreground merge of `ResultGeneratorKernel`: no plan creates their producers, and
  `deltaMergeMode` is fixed to another value.
* Calcite, AWS and CAF wrappers, catalogue, mains: external or without state of their own.
* The partition of a change (`BinlogParser`): the bounds are literals of one data set, and a key above the last one leaves the
  partition uninitialised.
* Several columns with zone maps in one table: no metadata file has them, and the pruner would pass a null predicate on.
* `src/ATTIC`, generated parsers and Thrift code: not part of the running program, or not written by hand.

## Plan

Done: the protocol of an execution, DeltaMerge, the delta cache, the Hermes server, the segment cache with its policies,
parallel joins, the log parser and the plan transformers; the proofs above.

Next: bitmaps in `DeltaCacheActor`, so that the switch from the k-way to the batched merge is part of the
sequence of queries; and its `Unread` by what `LogParser` delivers, so that lost and repeated changes reach the merge.

Theorems next: those of `PlanTransformer`, once its recursive operators are written as recursive functions.
