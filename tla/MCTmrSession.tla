---------------------------- MODULE MCTmrSession ----------------------------
(***************************************************************************)
(* Two tamara_tmr commands in a row, on any two of the sample designs.     *)
(***************************************************************************)
EXTENDS TmrSession, SampleDesigns
=============================================================================
