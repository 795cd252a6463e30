----------------------------- MODULE MCPropose ------------------------------
(* Instances of Propose for TLC.                                             *)
EXTENDS Propose, TLC

CONSTANTS a, b, pause, trust

\* Two batches that share a call.
TwoPlans == {{pause}, {pause, trust}}

Symmetry == Permutations({a, b})

=============================================================================
