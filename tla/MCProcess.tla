------------------------------ MODULE MCProcess ------------------------------
(***************************************************************************)
(* An instance of Process for TLC.                                         *)
(***************************************************************************)
EXTENDS Process

\* Bound: a second signal only in behaviours without additional threads.
Bound == sent <= 1 \/ threads = 0
=============================================================================
