---------------------------- MODULE MCRoundRobin ----------------------------
(***************************************************************************)
(* Instances of RoundRobin for TLC.                                        *)
(***************************************************************************)
EXTENDS RoundRobin
=============================================================================
