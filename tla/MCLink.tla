------------------------------- MODULE MCLink --------------------------------
(***************************************************************************)
(* An instance of Link for TLC.                                            *)
(***************************************************************************)
EXTENDS Link
=============================================================================
