------------------------------ MODULE MCSched -------------------------------
(***************************************************************************)
(* An instance of Sched for TLC: three entries besides the scheduler's, so *)
(* that one thread more than there is room for can be created after an     *)
(* entry has been freed, and two priorities.                               *)
(***************************************************************************)
EXTENDS Sched

\* Bound: a third birth or signal in one behaviour only for threads of one
\* priority, and no third birth with a signal that has gone astray.
Bound == /\ births + sent <= 2 \/ \A t \in Task : k.prio[t] = 0
         /\ strayed => births <= 2
=============================================================================
