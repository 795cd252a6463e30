---------------------------- MODULE MCBlockSearch ----------------------------
(* An instance of BlockSearch for TLC.                                       *)
EXTENDS BlockSearch

=============================================================================
