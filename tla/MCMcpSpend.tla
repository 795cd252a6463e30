----------------------------- MODULE MCMcpSpend -----------------------------
(* An instance of McpSpend for TLC.                                          *)
EXTENDS McpSpend, TLC

Symmetry == Permutations(Servers) \cup Permutations(Calls)
=============================================================================
