---------------------------- MODULE MCLogParser ----------------------------
(***************************************************************************)
(* Event sizes for model checking LogParser, in the proportions of MySQL's *)
(* events: the magic header is shorter than any event, a begin event       *)
(* longer than an XID event.                                               *)
(***************************************************************************)
EXTENDS LogParser, TLC

EventSize == [k \in Kind |-> CASE k = "begin" -> 4
                               [] k \in {"map", "rows"} -> 3
                               [] OTHER -> 2]

TableSymmetry == Permutations(Table)
=============================================================================
