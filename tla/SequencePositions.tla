-------------------------- MODULE SequencePositions --------------------------
(***************************************************************************)
(* Part of a sequence, given by its positions.                             *)
(***************************************************************************)
EXTENDS Naturals, Sequences, FiniteSets

(* The elements of s at the given positions, in order.                     *)
At(s, positions) ==
    [n \in 1 .. Cardinality(positions) |->
        s[CHOOSE m \in positions : Cardinality({l \in positions : l <= m}) = n]]
=============================================================================
