------------------------- MODULE MCDeltaCacheActor -------------------------
(***************************************************************************)
(* The workloads for model checking DeltaCacheActor: queries that read all *)
(* the partitions, or one table each.                                      *)
(***************************************************************************)
EXTENDS DeltaCacheActor, TLC

AllParts == {Part}
AnyParts == SUBSET Part \ {{}}
OneTable == {{p} : p \in Part}

PartSymmetry == Permutations(Part) \cup Permutations(Key)
=============================================================================
