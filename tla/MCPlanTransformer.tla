------------------------- MODULE MCPlanTransformer -------------------------
(***************************************************************************)
(* Plans for model checking PlanTransformer: a scan or a join of two, with *)
(* operators above; and a table of three partitions whose zones meet, hold *)
(* one value, and lie apart from the others.                               *)
(***************************************************************************)
EXTENDS PlanTransformer

MCZoneColumn == "orderdate"
MCZone == << [min |-> 1, max |-> 2], [min |-> 2, max |-> 2], [min |-> 4, max |-> 5] >>
MCRow == [orderdate : 0 .. 6, quantity : 0 .. 1, other : BOOLEAN]

OnZone == [op : {"=", "<", "<=", ">", ">="}, col : {MCZoneColumn}, val : 0 .. 6]
NotOnZone == {[op |-> "<", col |-> "quantity", val |-> 1], [op |-> "other"]}
Range2 == [op |-> "and", args |-> << [op |-> ">=", col |-> MCZoneColumn, val |-> 2],
                                     [op |-> "<", col |-> MCZoneColumn, val |-> 4] >>]

(* Two predicates under a connective, and a conjunction in a disjunction.  *)
Connected ==
    {[op |-> op, args |-> <<p, q>>] : op \in {"and", "or"},
        p \in {r \in OnZone : r.val \in {2, 4}}, q \in {r \in OnZone : r.val = 4} \cup NotOnZone}
        \cup {[op |-> "or", args |-> <<Range2, q>>] : q \in {r \in OnZone : r.val = 5} \cup NotOnZone}
Predicates == {None} \cup OnZone \cup NotOnZone \cup Connected

Scans(preds) == [type : {"SCAN"}, delta : BOOLEAN, pred : preds]
Unary == [type : {"SORT", "LIMIT_SORT", "AGGREGATE", "GROUP", "PROJECT", "FILTER"}]
Join == [type : {"HASH_JOIN", "NESTED_LOOP_JOIN"}]

(* Some predicates of a join's scans: none, some or all partitions left.   *)
FewPredicates == {None, Range2, [op |-> "<", col |-> MCZoneColumn, val |-> 1], [op |-> "other"]}

UpTo(n, S) == UNION {[1 .. k -> S] : k \in 0 .. n}

Scanned == {<<s>> \o u : s \in Scans(FewPredicates), u \in UpTo(2, Unary)}
               \cup {<<s>> : s \in Scans(Predicates)}
Joined == {<<s>> \o u \o <<t, j>> \o v :
              s \in Scans(FewPredicates), u \in UpTo(1, Unary),
              t \in [type : {"SCAN"}, delta : {TRUE}, pred : FewPredicates],
              j \in Join, v \in UpTo(1, [type : {"AGGREGATE", "GROUP"}])}

MCPlan == Scanned \cup Joined
=============================================================================
