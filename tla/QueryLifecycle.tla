--------------------------- MODULE QueryLifecycle ---------------------------
(***************************************************************************)
(* What an execution of a query plan promises, without its messages: the   *)
(* operators finish one at a time, each after all of its producers, and    *)
(* execute() returns a result only when all have.                          *)
(***************************************************************************)
CONSTANTS Op, Consumers

VARIABLES
    finished,   \* the operators that have completed
    outcome     \* "running", or how execute() ended

lifeVars == <<finished, outcome>>

Init ==
    /\ finished = {}
    /\ outcome = "running"

(* An operator completes once; completion is final.                        *)
Finish(o) ==
    /\ o \in Op \ finished
    /\ \A p \in Op : o \in Consumers[p] => p \in finished
    /\ finished' = finished \cup {o}
    /\ UNCHANGED outcome

(* execute() returns the collated result.                                  *)
Return ==
    /\ outcome = "running"
    /\ finished = Op
    /\ outcome' = "returned"
    /\ UNCHANGED finished

(* execute() throws what an operator reported.                             *)
Throw ==
    /\ outcome = "running"
    /\ outcome' = "threw"
    /\ UNCHANGED finished

Next == Return \/ Throw \/ \E o \in Op : Finish(o)

Spec == Init /\ [][Next]_lifeVars
=============================================================================
