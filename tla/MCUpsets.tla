------------------------------ MODULE MCUpsets ------------------------------
(***************************************************************************)
(* Upsets in those sample designs that the command gets right, and in one  *)
(* that it does not.                                                       *)
(***************************************************************************)
EXTENDS Upsets, SampleDesigns
=============================================================================
