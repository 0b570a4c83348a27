------------------------------ MODULE MCTiming ------------------------------
(***************************************************************************)
(* Instances of Timing for TLC: a period of two seconds of three ticks.    *)
(***************************************************************************)
EXTENDS Timing

\* Deadlines of timed waits that the timer can be programmed for.
Ahead == {2, 3}
=============================================================================
