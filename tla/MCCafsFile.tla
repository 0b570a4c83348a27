----------------------------- MODULE MCCafsFile -----------------------------
(***************************************************************************)
(* Instances of CafsFile for TLC: a file of two segments.                  *)
(***************************************************************************)
EXTENDS CafsFile
=============================================================================
