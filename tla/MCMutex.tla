------------------------------ MODULE MCMutex -------------------------------
(***************************************************************************)
(* An instance of Mutex for TLC: three threads of two priorities, one      *)
(* mutex and one condition variable.                                       *)
(***************************************************************************)
EXTENDS Mutex

OneMutex   == {1}
OneCond    == {1}
TopCeiling == [m \in {1} |-> 1]
Mixed      == [t \in Task |-> IF t = 1 THEN 1 ELSE 0]

\* Bound: from the first wait for the condition or signal on, time limits and
\* recursive locks not at once; two waits only without either and without a
\* signal.
Bound == LET single == lock[1] <= 1
             calm   == k.timed = {}
         IN  \/ waits + sent = 0
             \/ waits + sent = 1 /\ (single \/ calm)
             \/ waits = 2 /\ sent = 0 /\ single /\ calm
=============================================================================
