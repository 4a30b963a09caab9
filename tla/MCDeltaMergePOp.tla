-------------------------- MODULE MCDeltaMergePOp --------------------------
(***************************************************************************)
(* The inputs for model checking DeltaMergePOp: all the stable tables,     *)
(* deltas and bitmaps over a few keys.                                     *)
(***************************************************************************)
EXTENDS DeltaMergePOp

(* A family of inputs: the keys in order, and the numbers of stable rows,  *)
(* of deltas, of rows of the memory and of the tail delta to consider;     *)
(* whether a delta may delete rows, the cache holds a bitmap for the       *)
(* partition, and the binlog's clock advances between two pumps.           *)
KWay ==
    [flag |-> FALSE, keys |-> <<<<1, 1>>, <<1, 2>>, <<2, 1>>, <<2, 2>>>>, sizes |-> 1 .. 4,
     counts |-> {0, 1}, mems |-> 1 .. 4, tails |-> {0}, deletes |-> TRUE, cached |-> FALSE, ticks |-> TRUE]
Batched ==
    [flag |-> TRUE, keys |-> [n \in 1 .. 5 |-> <<n, 0>>], sizes |-> {4, 5},
     counts |-> {0, 1, 2}, mems |-> 1 .. 5, tails |-> 1 .. 5, deletes |-> FALSE, cached |-> TRUE, ticks |-> TRUE]

(* A memory delta that the filter reads as one batch, and one whose rows   *)
(* the tail cannot all overwrite.                                          *)
Overwritten == [Batched EXCEPT !.keys = [n \in 1 .. 3 |-> <<n, 0>>], !.sizes = {3}, !.counts = {2}, !.mems = {1}]
PartlyOverwritten == [Overwritten EXCEPT !.mems = {3}, !.tails = {1, 2}]

Both == {KWay, Batched}
OnlyOverwritten == {Overwritten}
OnlyPartly == {PartlyOverwritten}

KeySet(f) == Elems(f.keys)
Sorted(f, S) == SelectSeq(f.keys, LAMBDA k : k \in S)
Ordered(s, reversed) == [i \in DOMAIN s |-> IF reversed THEN s[Len(s) + 1 - i] ELSE s[i]]

(* A row that is in the table is updated or deleted, another is inserted.  *)
RowsOf(keys, ver, present, deleted) ==
    [i \in DOMAIN keys |->
        [key |-> keys[i], ver |-> ver,
         type |-> IF keys[i] \in deleted THEN "DELETE"
                  ELSE IF keys[i] \in present THEN "UPDATE" ELSE "INSERT"]]

(* The bitmap an earlier query left: the keys of the memory delta are off. *)
BmFor(f, st, mem) ==
    IF f.cached THEN [s \in DOMAIN st |-> IF st[s] \in mem THEN 0 ELSE 1] ELSE None

(* No delta; one delta, which the pump brought or an earlier query merged  *)
(* (then its rows may be in any order: two stand for all); or the tail     *)
(* delta, sorted by the pump, before the memory delta.                     *)
Given(f, count, in, mem, tail, reversed, del) ==
    LET st == Sorted(f, in)
        memory(dels) == [ts |-> 1, rows |-> RowsOf(Ordered(Sorted(f, mem), reversed), 1, in, dels)]
        newest == [ts |-> IF f.ticks THEN 2 ELSE 1, rows |-> RowsOf(Sorted(f, tail), 2, in \cup mem, {})]
    IN  [flag |-> f.flag, composite |-> \E k \in KeySet(f) : k[2] # 0, stable |-> st,
         deltas |-> CASE count = 0 -> <<>>
                      [] count = 1 -> <<memory(del \cap mem \cap in)>>
                      [] count = 2 -> <<newest, memory({})>>,
         bm |-> IF count = 0 THEN None ELSE BmFor(f, st, mem)]

InputOf(f) ==
    {Given(f, count, in, mem, tail, reversed, del) :
        count \in f.counts,
        in \in {S \in SUBSET KeySet(f) : Cardinality(S) \in f.sizes},
        mem \in {S \in SUBSET KeySet(f) : Cardinality(S) \in f.mems},
        tail \in {S \in SUBSET KeySet(f) : Cardinality(S) \in f.tails},
        reversed \in IF f.flag THEN BOOLEAN ELSE {FALSE},
        del \in IF f.deletes THEN SUBSET KeySet(f) ELSE {{}}}
=============================================================================
