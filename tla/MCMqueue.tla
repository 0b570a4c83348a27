------------------------------ MODULE MCMqueue -------------------------------
(***************************************************************************)
(* Instances of Mqueue for TLC: threads of one priority.                   *)
(***************************************************************************)
EXTENDS Mqueue

OnePriority == [t \in Task |-> 0]

\* Bound: a behaviour in which a thread has blocked too late, woken the wrong one
\* or given up is followed; one in which calls have met in a slot, to the next
\* mishap.
OneOverlap == spoilt \subseteq {"late", "wrong", "short"} \/ Cardinality(spoilt) = 1
=============================================================================
