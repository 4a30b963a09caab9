-------------------------- MODULE PlanTransformer --------------------------
(***************************************************************************)
(* How a physical plan is made: PartitionPruner drops partitions and parts *)
(* of predicates, PrePToS3PTransformer makes the operators of a scan for   *)
(* every partition that is left, and PrePToPTransformer those of the other *)
(* operators, and connects them.                                           *)
(*                                                                         *)
(* A pre-physical plan is the sequence of its operators in the order in    *)
(* which transformDfs finishes with them; what transformDfs returns waits  *)
(* on a stack.  An operator's name is the tuple of the parts its string is *)
(* made of, and its id is its place in the sequence.                       *)
(***************************************************************************)
EXTENDS Integers, Sequences, FiniteSets, Functions

CONSTANTS
    Plan,         \* the pre-physical plans
    Zone,         \* Zone[p]: the min and max of the column with a zone map
    Row,          \* the rows a table can have
    ZoneColumn,   \* the column with a zone map
    Modes,        \* the modes a plan is made for
    Instances     \* the values of parallelDegree_ * numNodes_

Partition == DOMAIN Zone

VARIABLES
    job,        \* the plan, the mode and the number of instances
    next,       \* the next operator of the plan
    stack,      \* the operators to connect downstream, for each result
    allPOps,    \* the physical operators so far
    starts,     \* those that start work without a producer
    produces,   \* produces: pairs of a producer and its consumer
    consumes,   \* consumes: the same pairs, as consumers know them
    done        \* transform has returned

vars == <<job, next, stack, allPOps, starts, produces, consumes, done>>

Init ==
    /\ job \in [plan : Plan, mode : Modes, instances : Instances]
    /\ next = 1
    /\ stack = <<>> /\ allPOps = <<>> /\ starts = {}
    /\ produces = {} /\ consumes = {}
    /\ done = FALSE

-----------------------------------------------------------------------------
(* PartitionPruner.  A predicate is a comparison of a column with a        *)
(* literal of the column's type, a conjunction, a disjunction, or another  *)
(* expression.                                                             *)

None == [op |-> "none"]

(* Mutant: open and closed bounds are mixed up.                            *)
CheckValidOpen(op, v, zone) ==
    CASE op = "=" -> v <= zone.max /\ v >= zone.min
      [] op = "<" -> v > zone.min
      [] op = "<=" -> v > zone.min
      [] op = ">" -> v < zone.max
      [] op = ">=" -> v < zone.max

(* checkValid: some value between min and max may satisfy the comparison.  *)
CheckValid(op, v, zone) ==
    CASE op = "=" -> ~(zone.max < v) /\ ~(v < zone.min)
      [] op = "<" -> ~(v <= zone.min)
      [] op = "<=" -> ~(v < zone.min)
      [] op = ">" -> ~(zone.max <= v)
      [] op = ">=" -> ~(zone.max < v)

RECURSIVE PrunePredicate(_, _)
PrunePredicate(p, zone) ==
    CASE p.op = "and" ->
           LET args == [i \in DOMAIN p.args |-> PrunePredicate(p.args[i], zone)]
           IN  IF \E i \in DOMAIN args : args[i] = None THEN None
               ELSE [op |-> "and", args |-> args]
      [] p.op = "or" ->
           LET left(q) == q # None
               args == SelectSeq([i \in DOMAIN p.args |-> PrunePredicate(p.args[i], zone)], left)
           IN  IF args = <<>> THEN None
               ELSE IF Len(args) = 1 THEN args[1]
               ELSE [op |-> "or", args |-> args]
      [] p.op \in {"=", "<", "<=", ">", ">="} ->
           IF p.col # ZoneColumn \/ CheckValid(p.op, p.val, zone) THEN p ELSE None
      [] OTHER -> p

(* prune: the partitions that are left, with their predicates.             *)
Prune(pred) ==
    IF pred = None THEN [p \in Partition |-> None]
    ELSE LET left == {p \in Partition : PrunePredicate(pred, Zone[p]) # None}
         IN  [p \in left |-> PrunePredicate(pred, Zone[p])]

-----------------------------------------------------------------------------
(* Connecting.  Each returns the pairs (producer, consumer).               *)

(* connectOneToOne throws unless there are as many of one as of the other: *)
(* cs is always made with one operator for each of ps.                     *)
OneToOne(ps, cs) == {<<ps[i], cs[i]>> : i \in DOMAIN ps}
ManyToMany(ps, cs) == Range(ps) \X Range(cs)
ManyToOne(ps, c) == Range(ps) \X {c}

Op == job.plan[next]
InstancesOf(type) == [i \in 1 .. job.instances |-> <<type, next, i>>]

Top == stack[Len(stack)]
Second == stack[Len(stack) - 1]

(* The operator that is being transformed is done with: the results of its *)
(* producers give way to its own, down.                                    *)
Made(popped, down, pops, prod, cons) ==
    /\ stack' = Append(SubSeq(stack, 1, Len(stack) - popped), down)
    /\ allPOps' = allPOps \o pops
    /\ produces' = produces \cup prod
    /\ consumes' = consumes \cup cons
    /\ next' = next + 1
    /\ UNCHANGED <<job, done>>

Transforming(types) ==
    /\ next <= Len(job.plan)
    /\ Op.type \in types

-----------------------------------------------------------------------------
(* PrePToS3PTransformer: the operators of the partitions that are left.    *)

Left == Prune(Op.pred)
(* The map prune returns is in no order; which one does not matter here.   *)
LeftSeq == SelectSeq([p \in Partition |-> p], LAMBDA p : p \in DOMAIN Left)
Filtered == SelectSeq(LeftSeq, LAMBDA p : Left[p] # None)
Named(type, parts) == [i \in DOMAIN parts |-> <<type, next, parts[i]>>]

Scanning(mode) == Transforming({"SCAN"}) /\ job.mode = mode

(* A table of the benchmark: its deltas are merged in, and predicates are  *)
(* left to whoever reads the result.                                       *)
ScanPullupDelta ==
    LET merges == Named("DeltaMerge", LeftSeq)
        handlers == Named("CacheHandler", LeftSeq)
        scans == Named("S3Get-Stable", LeftSeq)
        edges == OneToOne(handlers, merges) \cup OneToOne(scans, merges)
    IN  /\ Scanning("PULL_UP") /\ Op.delta
        /\ starts' = starts \cup Range(handlers) \cup Range(scans)
        /\ Made(0, merges, merges \o handlers \o scans, edges, edges)

ScanPullupPlain ==
    LET scans == Named("S3Get", LeftSeq)
        filters == Named("Filter", Filtered)
        edges == OneToOne(Named("S3Get", Filtered), filters)
    IN  /\ Scanning("PULL_UP") /\ ~Op.delta
        /\ starts' = starts \cup Range(scans)
        /\ Made(0, IF filters = <<>> THEN scans ELSE filters, scans \o filters, edges, edges)

ScanPushdown ==
    LET selects == Named("S3Select", LeftSeq)
    IN  /\ Scanning("PUSHDOWN_ONLY")
        /\ starts' = starts \cup Range(selects)
        /\ Made(0, selects, selects, {}, {})

(* Mutant: the scan of what the cache misses is not told to wait for it.   *)
LoadEdgesUnasked(loads, scans, merges) ==
    OneToOne(loads, merges) \cup OneToOne(scans, merges)

(* CacheLoad gives hits to the merge and misses to the scan, whose result  *)
(* is merged with them; each side is told of the other.                    *)
LoadEdges(loads, scans, merges) ==
    OneToOne(loads, merges) \cup OneToOne(loads, scans) \cup OneToOne(scans, merges)

(* Mutants: the local result is always a filter's, and never is.           *)
LocalFilter(merge) == Named("Filter", LeftSeq)
LocalMerge(merge) == Named(merge, LeftSeq)

(* The local result of each partition: the filter's where there is one.    *)
Local(merge) == [i \in DOMAIN LeftSeq |-> IF Left[LeftSeq[i]] # None
                                          THEN <<"Filter", next, LeftSeq[i]>>
                                          ELSE <<merge, next, LeftSeq[i]>>]

ScanCachingOnly ==
    LET loads == Named("CacheLoad", LeftSeq)
        scans == Named("S3Get", LeftSeq)
        merges == Named("Merge", LeftSeq)
        filters == Named("Filter", Filtered)
        edges == LoadEdges(loads, scans, merges)
                     \cup OneToOne(Named("Merge", Filtered), filters)
    IN  /\ Scanning("CACHING_ONLY")
        /\ starts' = starts \cup Range(loads)
        /\ Made(0, Local("Merge"), loads \o scans \o merges \o filters, edges, edges)

(* Mutant: the pushed down select does not know of its CacheLoad.          *)
ScanHybridForgets ==
    LET loads == Named("CacheLoad", LeftSeq)
        scans == Named("S3Select(cache)", LeftSeq)
        merges1 == Named("merge1", LeftSeq)
        filters == Named("Filter", Filtered)
        selects == Named("S3Select(pushdown)", LeftSeq)
        merges2 == Named("merge2", LeftSeq)
        edges == LoadEdges(loads, scans, merges1)
                     \cup OneToOne(Named("merge1", Filtered), filters)
                     \cup OneToOne(Local("merge1"), merges2) \cup OneToOne(selects, merges2)
    IN  /\ Scanning("HYBRID")
        /\ starts' = starts \cup Range(loads)
        /\ Made(0, merges2, loads \o scans \o merges1 \o filters \o selects \o merges2,
                edges \cup OneToOne(loads, selects), edges)

ScanHybrid ==
    LET loads == Named("CacheLoad", LeftSeq)
        scans == Named("S3Select(cache)", LeftSeq)
        merges1 == Named("merge1", LeftSeq)
        filters == Named("Filter", Filtered)
        selects == Named("S3Select(pushdown)", LeftSeq)
        merges2 == Named("merge2", LeftSeq)
        edges == LoadEdges(loads, scans, merges1)
                     \cup OneToOne(Named("merge1", Filtered), filters)
                     \cup OneToOne(Local("merge1"), merges2) \cup OneToOne(selects, merges2)
    IN  /\ Scanning("HYBRID")
        /\ starts' = starts \cup Range(loads)
        /\ Made(0, merges2, loads \o scans \o merges1 \o filters \o selects \o merges2,
                edges \cup OneToOne(loads, selects), edges \cup OneToOne(loads, selects))

-----------------------------------------------------------------------------
(* PrePToPTransformer.                                                     *)

(* Sort and LimitSort: one operator for all.                               *)
TransformSort ==
    LET sort == <<Op.type, next, 0>>
    IN  /\ Transforming({"SORT", "LIMIT_SORT"})
        /\ Made(1, <<sort>>, <<sort>>, ManyToOne(Top, sort), ManyToOne(Top, sort))
        /\ UNCHANGED starts

(* An aggregate for each operator upstream; with one of them it is the     *)
(* result, else another one reduces theirs.                                *)
TransformAggregate ==
    LET aggregates == [i \in DOMAIN Top |-> <<"Aggregate", next, i>>]
        reduce == <<"Aggregate-Reduce", next, 0>>
        edges == OneToOne(Top, aggregates)
        all == edges \cup ManyToOne(aggregates, reduce)
    IN  /\ Transforming({"AGGREGATE"})
        /\ IF Len(Top) = 1 THEN Made(1, aggregates, aggregates, edges, edges)
           ELSE Made(1, <<reduce>>, Append(aggregates, reduce), all, all)
        /\ UNCHANGED starts

Shuffles(ups) == [i \in DOMAIN ups |-> <<"Shuffle", next, ups[i]>>]

(* The edges into the instances of an operator: from all upstream, or      *)
(* through a shuffle for each of them.                                     *)
Shuffled(ups, cs) ==
    IF job.instances = 1 THEN ManyToOne(ups, cs[1])
    ELSE OneToOne(ups, Shuffles(ups)) \cup ManyToMany(Shuffles(ups), cs)
ShufflesFor(ups) == IF job.instances = 1 THEN <<>> ELSE Shuffles(ups)

TransformGroup ==
    LET groups == InstancesOf("Group")
        edges == Shuffled(Top, groups)
    IN  /\ Transforming({"GROUP"})
        /\ Made(1, groups, groups \o ShufflesFor(Top), edges, edges)
        /\ UNCHANGED starts

(* Project and Filter: one for each operator upstream.                     *)
TransformOneToOne ==
    LET pops == [i \in DOMAIN Top |-> <<Op.type, next, i>>]
        edges == OneToOne(Top, pops)
    IN  /\ Transforming({"PROJECT", "FILTER"})
        /\ Made(1, pops, pops, edges, edges)
        /\ UNCHANGED starts

TransformHashJoin ==
    LET builds == InstancesOf("HashJoinBuild")
        probes == InstancesOf("HashJoinProbe")
        edges == OneToOne(builds, probes) \cup Shuffled(Second, builds) \cup Shuffled(Top, probes)
    IN  /\ Transforming({"HASH_JOIN"})
        /\ Made(2, probes, builds \o probes \o ShufflesFor(Second) \o ShufflesFor(Top), edges, edges)
        /\ UNCHANGED starts

(* Each instance reads the whole left side; the right one is split.        *)
TransformNestedLoopJoin ==
    LET joins == InstancesOf("NestedLoopJoin")
        splits == IF job.instances = 1 THEN <<>>
                  ELSE [i \in DOMAIN Top |-> <<"Split", next, Top[i]>>]
        right == IF job.instances = 1 THEN ManyToOne(Top, joins[1])
                 ELSE OneToOne(Top, splits) \cup ManyToMany(splits, joins)
        edges == ManyToMany(Second, joins) \cup right
    IN  /\ Transforming({"NESTED_LOOP_JOIN"})
        /\ Made(2, joins, joins \o splits, edges, edges)
        /\ UNCHANGED starts

Collate == <<"collate", 0, 0>>

(* transform: the root's result is collated.                               *)
Finish ==
    /\ ~done /\ next > Len(job.plan)
    /\ done' = TRUE
    /\ allPOps' = Append(allPOps, Collate)
    /\ produces' = produces \cup ManyToOne(Top, Collate)
    /\ consumes' = consumes \cup ManyToOne(Top, Collate)
    /\ UNCHANGED <<job, next, stack, starts>>

Finished == done /\ UNCHANGED vars

Next ==
    \/ ScanPullupDelta \/ ScanPullupPlain \/ ScanPushdown \/ ScanCachingOnly \/ ScanHybrid
    \/ TransformSort \/ TransformAggregate \/ TransformGroup \/ TransformOneToOne
    \/ TransformHashJoin \/ TransformNestedLoopJoin
    \/ Finish \/ Finished

Spec == Init /\ [][Next]_vars

-----------------------------------------------------------------------------
(* What an execution needs of a plan.                                      *)

POps == Range(allPOps)

(* The type invariant; what waits to be connected is among all operators.  *)
TypeOK ==
    /\ job \in [plan : Plan, mode : Modes, instances : Instances]
    /\ next \in 1 .. Len(job.plan) + 1 /\ done \in BOOLEAN
    /\ \A i \in DOMAIN stack : Range(stack[i]) \subseteq POps
    /\ starts \subseteq POps

(* An operator's relations are what each side was told on its own          *)
(* (produce, consume, setLeftProducer, setMissOperatorToCache, ...): both  *)
(* sides agree, know only operators of the plan, and no two operators have *)
(* one name, which is what Execution looks them up by.                     *)
PlanIsClosed ==
    done => /\ produces = consumes
            /\ produces \subseteq POps \X POps
            /\ Cardinality(POps) = Len(allPOps)

RECURSIVE Upstream(_)
Upstream(ops) ==
    LET more == ops \cup {e[1] : e \in {f \in produces : f[2] \in ops}}
    IN  IF more = ops THEN ops ELSE Upstream(more)

(* What any operator produces can reach the collate operator: no branch of *)
(* the plan, and no partition of a scan, is left hanging.                  *)
ResultsReachCollate == done => Upstream({Collate}) = POps

RECURSIVE Completing(_)
Completing(ops) ==
    LET ready(op) == LET from == {e[1] : e \in {f \in consumes : f[2] = op}}
                     IN  from # {} /\ from \subseteq ops
        more == ops \cup {op \in POps : ready(op)}
    IN  IF more = ops THEN ops ELSE Completing(more)

SomeLeft == \A i \in DOMAIN job.plan : job.plan[i].type = "SCAN" => Prune(job.plan[i].pred) # <<>>

(* An operator completes when all of its producers have, and the ones that *)
(* have none only if they work on START: so the whole plan can complete,   *)
(* and its relations have no cycle, unless a scan lost all its partitions. *)
PlanCompletes == done /\ SomeLeft => Completing({op \in starts : \A e \in consumes : e[2] # op}) = POps

RECURSIVE Satisfies(_, _)
Satisfies(row, p) ==
    CASE p = None -> TRUE
      [] p.op = "and" -> \A i \in DOMAIN p.args : Satisfies(row, p.args[i])
      [] p.op = "or" -> \E i \in DOMAIN p.args : Satisfies(row, p.args[i])
      [] p.op = "=" -> row[p.col] = p.val
      [] p.op = "<" -> row[p.col] < p.val
      [] p.op = "<=" -> row[p.col] <= p.val
      [] p.op = ">" -> row[p.col] > p.val
      [] p.op = ">=" -> row[p.col] >= p.val
      [] p.op = "other" -> row.other

(* The rows a partition can hold: the zone map bounds one of the columns.  *)
RowsOf(p) == {r \in Row : r[ZoneColumn] \in Zone[p].min .. Zone[p].max}

(* A partition without an operator has no row the query asks for, and the  *)
(* predicate left for one that has says the same of every row in it.       *)
PruningIsExact ==
    \A i \in DOMAIN job.plan : i < next /\ job.plan[i].type = "SCAN" =>
        LET pred == job.plan[i].pred
            scanned == {p \in Partition : \E op \in POps : op[2] = i /\ op[3] = p}
        IN  /\ \A p \in Partition \ scanned : \A r \in RowsOf(p) : ~Satisfies(r, pred)
            /\ \A p \in scanned : \A r \in RowsOf(p) :
                   Satisfies(r, pred) = Satisfies(r, Prune(pred)[p])
=============================================================================
