------------------------------- MODULE MCSem --------------------------------
(***************************************************************************)
(* An instance of Sem for TLC: one poster has the larger priority, another *)
(* one that of the two threads that wait.                                  *)
(***************************************************************************)
EXTENDS Sem

OnePosterHigh == [t \in Task |-> IF t = 1 THEN 1 ELSE 0]

\* Bound: a behaviour is followed up to its second mishap.
OneMishap == Cardinality(spoilt) <= 1
=============================================================================
