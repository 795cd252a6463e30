------------------------------ MODULE MCLoadSetup ------------------------------
(* Every supported route on one pair of chains, for TLC.                      *)
EXTENDS LoadSetup
=============================================================================
