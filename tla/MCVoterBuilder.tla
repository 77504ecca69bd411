--------------------------- MODULE MCVoterBuilder ---------------------------
(***************************************************************************)
(* VoterBuilder for up to four one-bit voters, in calls of width 1 to 3,   *)
(* with every value of every copy.                                         *)
(***************************************************************************)
EXTENDS VoterBuilder
=============================================================================
