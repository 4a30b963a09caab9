---------------------------- MODULE MCPOpProtocol ----------------------------
(***************************************************************************)
(* The plan for model checking POpProtocol.                                *)
(***************************************************************************)
EXTENDS POpProtocol

(* One partition of a pull-up plan: the stable scan and the cache handler  *)
(* feed DeltaMerge, whose output is collated.                              *)
CONSTANTS s3Get, cacheHandler, deltaMerge, collate
MergeOp == {s3Get, cacheHandler, deltaMerge, collate}
MergeConsumers ==
    [o \in MergeOp |-> CASE o \in {s3Get, cacheHandler} -> {deltaMerge}
                         [] o = deltaMerge -> {collate}
                         [] o = collate -> {}]
MergeKind ==
    [o \in MergeOp |-> CASE o = s3Get -> "scan"
                         [] o = cacheHandler -> "cacheHandler"
                         [] o = deltaMerge -> "deltaMerge"
                         [] o = collate -> "pipe"]
=============================================================================
