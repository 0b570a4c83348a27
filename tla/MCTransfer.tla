----------------------------- MODULE MCTransfer ------------------------------
(***************************************************************************)
(* An instance of Transfer for TLC: two threads of different priorities.   *)
(***************************************************************************)
EXTENDS Transfer

TwoPriorities == [t \in Task |-> IF t = 1 THEN 0 ELSE HighestPriority]
=============================================================================
