----------------------------- MODULE MCTmrPass -----------------------------
(***************************************************************************)
(* tamara_tmr on the sample designs.                                       *)
(***************************************************************************)
EXTENDS TmrPass, SampleDesigns
=============================================================================
