--------------------------- MODULE MCParallelJoin ---------------------------
(***************************************************************************)
(* The plans for model checking ParallelJoin.                              *)
(***************************************************************************)
EXTENDS ParallelJoin

Plan(kind, outer, n, l, r) ==
    [kind |-> kind, left |-> outer, right |-> outer, instances |-> n,
     batches |-> [left |-> l, right |-> r]]

(* Of a semi join the build side comes in one index, and of a nested loop  *)
(* join of two instances the left side in one tuple set: with more of them *)
(* the results are wrong (see SharedLeft and the README).                  *)
SoundPlans ==
    {Plan("hash", TRUE, 1, 2, 2), Plan("hash", TRUE, 2, 2, 2), Plan("hash", FALSE, 1, 2, 2),
     Plan("semi", FALSE, 1, 1, 2), Plan("loop", FALSE, 1, 2, 2), Plan("loop", FALSE, 2, 1, 2)}

(* Two instances of a nested loop join that share their left tuple sets.   *)
SharedLeft == {Plan("loop", FALSE, 2, 2, 1)}

RowBounds == [left |-> 3, right |-> 2]
=============================================================================
