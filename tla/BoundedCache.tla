----------------------------- MODULE BoundedCache -----------------------------
(***************************************************************************)
(* What a cache of bounded size promises, whatever its policy: it never     *)
(* holds more bytes than it may, and as long as nothing is offered that it   *)
(* has already, what it drops it drops only because something else came in  *)
(* that did not fit beside it.                                              *)
(***************************************************************************)
EXTENDS Naturals, Functions

CONSTANTS Key, Size, MaxSize

VARIABLES
  stored,    \* the keys whose segments are cached
  offered,   \* the keys whose segments are there to be cached
  once       \* FALSE when a segment may be offered that is stored or offered

vars == <<stored, offered, once>>

Total(ks) == SumFunctionOnSet(Size, ks)

Init == stored = {} /\ offered = {} /\ once = TRUE

\* Something is offered, or what was offered is dropped without effect.
Offer ==
  /\ offered' \in SUBSET Key
  /\ once' \in BOOLEAN /\ (once' => once)
  /\ UNCHANGED stored

\* Some of what is offered comes in.  Something cached may go for it, but only if
\* all of it would not have fitted.
Store ==
  /\ offered' \in SUBSET Key /\ UNCHANGED once
  /\ stored' \in SUBSET (stored \cup offered)
  /\ Total(stored') <= MaxSize
  /\ once /\ stored \ stored' # {} =>
       /\ stored' \ stored # {}
       /\ Total(stored \cup offered) > MaxSize

Next == Offer \/ Store

Spec == Init /\ [][Next]_vars
===============================================================================
