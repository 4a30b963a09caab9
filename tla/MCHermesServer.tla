--------------------------- MODULE MCHermesServer ---------------------------
(***************************************************************************)
(* Workloads for model checking HermesServer.                              *)
(***************************************************************************)
EXTENDS HermesServer, TLC

CONSTANTS t1, t2, t3

(* What a query over the given tables delivers, with n lineorder chunks.   *)
Delivers(tables, n) ==
    [t \in Table |-> IF t \notin tables THEN 0 ELSE IF t = "lineorder" THEN n ELSE Expected[t]]

Dimensions == Table \ {"lineorder"}
Anytime == [t \in Table |-> {}]
FactsLast == [t \in Table |-> IF t = "lineorder" THEN Dimensions ELSE {}]

Star == [tables |-> <<{"lineorder", "customer", "supplier"}, {"lineorder", "part", "date"},
                      {"lineorder", "customer", "date"}>>,
         chunks |-> <<Delivers({"lineorder", "customer", "supplier"}, 2),
                      Delivers({"lineorder", "part", "date"}, 1),
                      Delivers({"lineorder", "customer", "date"}, 3)>>,
         fails |-> {}, patient |-> TRUE, before |-> FactsLast]

(* Each table is read by one connection; the dimensions before the facts.  *)
OnePerTable == Star @@
    [asks |-> (t1 :> {"lineorder", "customer"}) @@ (t2 :> {"supplier", "part"}) @@ (t3 :> {"date"})]

(* One connection for everything, in any order; the second query fails     *)
(* before it delivers anything, the third delivers no facts.               *)
OneConnection ==
    [tables |-> <<{"lineorder", "customer", "supplier"}, {"lineorder", "part"},
                  {"lineorder", "part", "customer"}>>,
     chunks |-> <<Delivers({"lineorder", "customer", "supplier"}, 2), Delivers({}, 0),
                  Delivers({"part", "customer"}, 0)>>,
     fails |-> {2}, patient |-> TRUE, before |-> Anytime,
     asks |-> (t1 :> Table) @@ (t2 :> {}) @@ (t3 :> {})]

(* Two connections read the facts together.                                *)
SharedFacts == Star @@
    [asks |-> (t1 :> {"lineorder", "customer"}) @@ (t2 :> {"supplier", "part"})
              @@ (t3 :> {"lineorder", "date"})]

(* The client turns to the next query before it has read everything.       *)
Impatient == [OneConnection EXCEPT !.patient = FALSE, !.fails = {}]

Disciplined == {OnePerTable, OneConnection}
Shared == {SharedFacts}
Abandoning == {Impatient}
=============================================================================
