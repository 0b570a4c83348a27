------------------------------ MODULE MCFlash -------------------------------
(***************************************************************************)
(* Instances of Flash for TLC: two sections of four blocks.                *)
(***************************************************************************)
EXTENDS Flash

\* Bound: a second power failure only before the last write.
Bound == writes + crashes < MaxWrites + MaxCrashes
=============================================================================
