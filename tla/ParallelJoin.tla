---------------------------- MODULE ParallelJoin ----------------------------
(***************************************************************************)
(* A join of two inputs, spread over several instances of the join         *)
(* operator.  A hash join shuffles both inputs by the hash of the join     *)
(* column (ShufflePOp); a nested loop join sends the whole left input to   *)
(* every instance and splits the right one (SplitPOp).  Each instance      *)
(* joins incrementally: whatever tuple set arrives is joined at once with  *)
(* all that came from the other side.                                      *)
(*                                                                         *)
(* A TupleSet is an object: a message carries a pointer to it and append   *)
(* changes it in place, so the objects are kept in a heap of their own.  A *)
(* row is known by its key and by its number in its input.                 *)
(***************************************************************************)
EXTENDS Integers, Sequences, FiniteSets, Bags, SequencePositions

CONSTANTS
    Key,          \* the values of the join columns
    Plans,        \* the plans to consider
    MaxRows,      \* MaxRows[side]: bound on the rows of an input
    MaxBatch,     \* bound on the rows of a tuple set of a producer
    BufferSize,   \* DefaultBufferSize
    Null          \* the missing half of a row of an outer join

Side == {"left", "right"}
Kind == {"hash", "semi", "loop"}

(* kind: the kernel.  left, right: isLeft_ and isRight_.  instances: the   *)
(* parallel degree times the nodes.  batches: bound on the tuple sets the  *)
(* producer of a side sends.                                               *)
PlanType == [kind : Kind, left : BOOLEAN, right : BOOLEAN, instances : Nat \ {0},
             batches : [Side -> Nat \ {0}]]

ASSUME JoinAssumption ==
    /\ Plans \subseteq PlanType
    /\ \A p \in Plans : p.kind # "hash" => ~p.left /\ ~p.right
    /\ MaxRows \in [Side -> Nat] /\ MaxBatch \in Nat /\ BufferSize \in Nat \ {0}
    /\ Null \notin [key : Key, id : Nat]

VARIABLES
    plan,      \* the plan that runs
    slot,      \* slot[k]: where the hash of the key leads
    given,     \* given[side]: the keys the producer sent so far
    batches,   \* batches[side]: how many tuple sets it sent
    closed,    \* the sides whose producer is complete
    tuples,    \* the heap: the rows of every TupleSet
    buffers,   \* buffers_ of the shuffles, inputTupleSet_ of the split
    mail,      \* mail[i][side]: the messages on their way to an instance
    join       \* join[i]: the state of an instance

vars == <<plan, slot, given, batches, closed, tuples, buffers, mail, join>>

Instance == 1 .. plan.instances
Row(side, n) == [key |-> given[side][n], id |-> n]
Elems(s) == {s[n] : n \in DOMAIN s}
COMPLETE == 0

(* The buffer that holds nothing is not the one that holds an empty set.   *)
None == [some |-> FALSE, rows |-> <<>>]
Some(rows) == [some |-> TRUE, rows |-> rows]
Buffered(b, rows) == Some(b.rows \o rows)

Kernel == [left |-> 0, right |-> 0,         \* the objects buffered, 0: none
           matched |-> [s \in Side |-> {}], \* rowMatchIndexes of the helpers
           out |-> EmptyBag,                \* the rows buffered or sent
           complete |-> {},                 \* the producers complete
           status |-> "run"]                \* "done", or "error"

Shuffles == plan.instances > 1 /\ plan.kind # "loop"

Init ==
    /\ plan \in Plans
    /\ slot \in [Key -> IF Shuffles THEN Instance ELSE {1}]
    /\ given = [s \in Side |-> <<>>]
    /\ batches = [s \in Side |-> 0]
    /\ closed = {}
    /\ tuples = <<>>
    /\ buffers = [s \in Side |-> [i \in Instance |-> None]]
    /\ mail = [i \in Instance |-> [s \in Side |-> <<>>]]
    /\ join = [i \in Instance |-> Kernel]

-----------------------------------------------------------------------------
(* The way of a tuple set to the instances.  sets[i] is the tuple set for  *)
(* instance i, None if there is none; each becomes an object of its own.   *)

Splits(side) == plan.instances > 1 /\ plan.kind = "loop" /\ side = "right"

Number(sets, i) == Len(tuples) + Cardinality({j \in 1 .. i : sets[j].some})
Objects(sets) == At([j \in Instance |-> sets[j].rows], {j \in Instance : sets[j].some})

Deliver(side, sets, complete) ==
    /\ tuples' = tuples \o Objects(sets)
    /\ mail' = [i \in Instance |-> [mail[i] EXCEPT ![side] =
                 @ \o (IF sets[i].some THEN <<Number(sets, i)>> ELSE <<>>)
                   \o (IF complete THEN <<COMPLETE>> ELSE <<>>)]]

(* ctx()->tell: the consumers get pointers to one and the same object.     *)
Tell(side, rows) ==
    /\ tuples' = Append(tuples, rows)
    /\ mail' = [i \in Instance |-> [mail[i] EXCEPT ![side] = Append(@, Len(tuples) + 1)]]

(* RecordBatchShuffler: the rows whose hash leads to the instance.         *)
Shuffled(rows, i) == At(rows, {n \in DOMAIN rows : slot[rows[n].key] = i})

(* Mutant: a slot that got no row gets no tuple set.                       *)
ShuffleDropsEmpty(side, rows) ==
    LET all == [i \in Instance |-> IF Shuffled(rows, i) = <<>> THEN buffers[side][i]
                                   ELSE Buffered(buffers[side][i], Shuffled(rows, i))]
        full == {i \in Instance : Len(all[i].rows) >= BufferSize}
    IN  /\ buffers' = [buffers EXCEPT ![side] = [i \in Instance |-> IF i \in full THEN None ELSE all[i]]]
        /\ Deliver(side, [i \in Instance |-> IF i \in full THEN all[i] ELSE None], FALSE)

(* ShufflePOp::onTuple: every slot gets its part, an empty one too, and    *)
(* sends it when there is enough.                                          *)
Shuffle(side, rows) ==
    LET all == [i \in Instance |-> Buffered(buffers[side][i], Shuffled(rows, i))]
        full == {i \in Instance : Len(all[i].rows) >= BufferSize}
    IN  /\ buffers' = [buffers EXCEPT ![side] = [i \in Instance |-> IF i \in full THEN None ELSE all[i]]]
        /\ Deliver(side, [i \in Instance |-> IF i \in full THEN all[i] ELSE None], FALSE)

(* Mutant: the last part has the size of the others.                       *)
SplitArrayEven(rows) ==
    LET size == Len(rows) \div plan.instances
    IN  [i \in Instance |-> Some(SubSeq(rows, (i - 1) * size + 1, i * size))]

(* splitArray: equal parts, the last one takes the rest.                   *)
SplitArray(rows) ==
    LET size == Len(rows) \div plan.instances
    IN  [i \in Instance |->
            Some(SubSeq(rows, (i - 1) * size + 1,
                        IF i < plan.instances THEN i * size ELSE Len(rows)))]

(* SplitPOp::onTuple: an empty tuple set is dropped.                       *)
Split(side, rows) ==
    LET all == Buffered(buffers[side][1], rows)
    IN  IF rows = <<>> THEN UNCHANGED <<buffers, tuples, mail>>
        ELSE IF Len(all.rows) >= BufferSize * plan.instances
        THEN /\ buffers' = [buffers EXCEPT ![side][1] = None]
             /\ Deliver(side, SplitArray(all.rows), FALSE)
        ELSE /\ buffers' = [buffers EXCEPT ![side][1] = all]
             /\ UNCHANGED <<tuples, mail>>

(* A producer of an input (any operator) sends a tuple set; at least one,  *)
(* which may be empty.                                                     *)
Produce(side, keys) ==
    /\ side \notin closed /\ batches[side] < plan.batches[side]
    /\ Len(given[side]) + Len(keys) <= MaxRows[side]
    /\ batches' = [batches EXCEPT ![side] = @ + 1]
    /\ given' = [given EXCEPT ![side] = @ \o keys]
    /\ LET rows == [n \in DOMAIN keys |-> [key |-> keys[n], id |-> Len(given[side]) + n]]
       IN  \/ Shuffles /\ Shuffle(side, rows)
           \/ Splits(side) /\ Split(side, rows)
           \/ ~Shuffles /\ ~Splits(side) /\ Tell(side, rows) /\ UNCHANGED buffers
    /\ UNCHANGED <<plan, slot, closed, join>>

(* The producer is complete: the shuffle or the split sends what it holds  *)
(* and completes too.                                                      *)
Close(side) ==
    /\ side \notin closed /\ batches[side] > 0
    /\ closed' = closed \cup {side}
    /\ buffers' = [buffers EXCEPT ![side] = [i \in Instance |-> None]]
    /\ Deliver(side, IF Splits(side) /\ buffers[side][1].rows # <<>>
                     THEN SplitArray(buffers[side][1].rows) ELSE buffers[side], TRUE)
    /\ UNCHANGED <<plan, slot, given, batches, join>>

-----------------------------------------------------------------------------
(* The kernels.  Positions count from 1.                                   *)

Other(side) == IF side = "left" THEN "right" ELSE "left"
Pair(side, r, o) == IF side = "left" THEN <<r, o>> ELSE <<o, r>>

(* The positions where a new row meets a row of the other side.            *)
Meets(new, old) == {x \in (DOMAIN new) \X (DOMAIN old) : new[x[1]].key = old[x[2]].key}

(* The joined rows as a bag: with a shared object a row may come twice.    *)
Joined(side, new, old) ==
    LET pairs == {Pair(side, new[x[1]], old[x[2]]) : x \in Meets(new, old)}
        times(p) == Cardinality({x \in Meets(new, old) : Pair(side, new[x[1]], old[x[2]]) = p})
    IN  [p \in pairs |-> times(p)]

(* RecordBatchHashSemiJoiner: the rows of the build index a probe row      *)
(* finds, unless the first of them was found before.  The row found is     *)
(* offset, the row looked for is not.                                      *)
SemiMatched(build, probe, offset) ==
    LET rows(n) == {a \in DOMAIN build : build[a].key = probe[n].key}
        first(n) == CHOOSE a \in rows(n) : \A b \in rows(n) : a >= b
        found[n \in 0 .. Len(probe)] ==
            IF n = 0 THEN {}
            ELSE IF rows(n) = {} \/ first(n) \in found[n - 1] THEN found[n - 1]
            ELSE found[n - 1] \cup {offset + a : a \in rows(n)}
    IN  found[Len(probe)]

(* Mutant: the offset is taken after the new rows were buffered.           *)
OffsetAfter(side, k, new) ==
    (IF k[side] = 0 THEN 0 ELSE Len(tuples[k[side]])) + Len(new)

(* The number of rows of the side before the new ones are buffered.        *)
Offset(side, k, new) == IF k[side] = 0 THEN 0 ELSE Len(tuples[k[side]])

(* joinBuildTupleSetIndex, joinProbeTupleSet, joinIncomingLeft and         *)
(* joinIncomingRight: the new rows against all the rows of the other side. *)
JoinIncoming(side, k, new) ==
    LET old == IF k[Other(side)] = 0 THEN <<>> ELSE tuples[k[Other(side)]]
        off == Offset(side, k, new)
        found(s) == {IF s = side THEN off + x[1] ELSE x[2] : x \in IF plan[s] THEN Meets(new, old) ELSE {}}
        semi == IF side = "left" THEN SemiMatched(new, old, off)
                ELSE SemiMatched(old, new, 0)
    IN  IF plan.kind = "semi"
        THEN [k EXCEPT !.matched["left"] = @ \cup semi]
        ELSE [k EXCEPT !.out = @ (+) Joined(side, new, old),
                       !.matched = [s \in Side |-> @[s] \cup found(s)]]

(* finalize: the rows of the keep sides that met none, with nulls; of a    *)
(* semi join the build rows that met one.                                  *)
Outer(side, k) ==
    LET rows == tuples[k[side]]
    IN  SetToBag({Pair(side, rows[a], Null) : a \in DOMAIN rows \ k.matched[side]})
Finalize(k) ==
    IF k.left = 0 \/ k.right = 0 THEN k         \* no output schema, no helpers
    ELSE IF plan.kind = "semi"
    THEN [k EXCEPT !.out = SetToBag({tuples[k.left][a] : a \in k.matched["left"]})]
    ELSE [k EXCEPT !.out = @ (+) (IF plan.left THEN Outer("left", k) ELSE EmptyBag)
                             (+) (IF plan.right THEN Outer("right", k) ELSE EmptyBag)]

(* A tuple set arrives: it is buffered, the first as the object it is, and *)
(* a later one appended to the first; then it is joined.                   *)
ReceiveTuple(i, side) ==
    /\ join[i].status = "run"
    /\ mail[i][side] # <<>> /\ Head(mail[i][side]) # COMPLETE
    /\ LET o == Head(mail[i][side])
           k == join[i]
       IN  /\ join' = [join EXCEPT ![i] = [JoinIncoming(side, k, tuples[o]) EXCEPT
                                            ![side] = IF k[side] = 0 THEN o ELSE k[side]]]
           /\ tuples' = IF k[side] = 0 THEN tuples
                        ELSE [tuples EXCEPT ![k[side]] = @ \o tuples[o]]
    /\ mail' = [mail EXCEPT ![i][side] = Tail(@)]
    /\ UNCHANGED <<plan, slot, given, batches, closed, buffers>>

(* onComplete: when all the producers are complete the join is finalized;  *)
(* with nothing to send and no output schema it fails.                     *)
ReceiveComplete(i, side) ==
    /\ join[i].status = "run"
    /\ mail[i][side] # <<>> /\ Head(mail[i][side]) = COMPLETE
    /\ LET k == [join[i] EXCEPT !.complete = @ \cup {side}]
           schema == k.left # 0 /\ k.right # 0
       IN  join' = [join EXCEPT ![i] =
                      IF k.complete # Side THEN k
                      ELSE [Finalize(k) EXCEPT !.status = IF schema THEN "done" ELSE "error"]]
    /\ mail' = [mail EXCEPT ![i][side] = Tail(@)]
    /\ UNCHANGED <<plan, slot, given, batches, closed, tuples, buffers>>

Ended == (\A i \in Instance : join[i].status # "run") /\ UNCHANGED vars

Batch == UNION {[1 .. n -> Key] : n \in 0 .. MaxBatch}
Next ==
    \/ \E side \in Side : Close(side) \/ \E keys \in Batch : Produce(side, keys)
    \/ \E i \in Instance, side \in Side : ReceiveTuple(i, side) \/ ReceiveComplete(i, side)
    \/ Ended

Spec == Init /\ [][Next]_vars

-----------------------------------------------------------------------------
(* What a join promises.                                                   *)

Rows(side) == {Row(side, n) : n \in DOMAIN given[side]}
Matching(side) == {r \in Rows(side) : \E o \in Rows(Other(side)) : o.key = r.key}
Reference ==
    IF plan.kind = "semi" THEN Matching("left")
    ELSE {x \in Rows("left") \X Rows("right") : x[1].key = x[2].key}
         \cup {<<r, Null>> : r \in IF plan.left THEN Rows("left") \ Matching("left") ELSE {}}
         \cup {<<Null, r>> : r \in IF plan.right THEN Rows("right") \ Matching("right") ELSE {}}

(* The one type invariant: the kernels hold objects of the heap, and       *)
(* matched positions inside them.                                          *)
TypeOK ==
    /\ plan \in Plans /\ closed \subseteq Side
    /\ \A i \in Instance, side \in Side :
         /\ Elems(mail[i][side]) \subseteq 0 .. Len(tuples)
         /\ join[i][side] \in 0 .. Len(tuples)
         /\ join[i].matched[side] \subseteq
              1 .. (IF join[i][side] = 0 THEN 0 ELSE Len(tuples[join[i][side]]))
         /\ join[i].complete \subseteq Side

(* The instances together give the join of the two inputs, every row of it *)
(* once: however the inputs are cut into tuple sets, spread over the       *)
(* instances, and whichever side arrives first.                            *)
JoinIsExact ==
    (\A i \in Instance : join[i].status = "done") =>
        /\ UNION {BagToSet(join[i].out) : i \in Instance} = Reference
        /\ \A x \in Reference : \E i \in Instance :
             /\ BagIn(x, join[i].out) /\ join[i].out[x] = 1
             /\ \A j \in Instance \ {i} : ~BagIn(x, join[j].out)

(* An instance fails for want of an output schema only behind a split      *)
(* whose whole input was empty: a shuffle passes empty tuple sets on.      *)
FailsOnlyUnsplit ==
    (\E i \in Instance : join[i].status = "error") => Splits("right") /\ given["right"] = <<>>
=============================================================================
