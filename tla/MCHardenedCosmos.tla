--------------------------- MODULE MCHardenedCosmos -------------------------
(* Instances of HardenedCosmos for TLC.                                      *)
EXTENDS HardenedCosmos, TLC

CONSTANTS inst, pay

\* A governance submission, the wait for its proposal, and a reward payment.
GovSteps == <<[kind |-> "submit", key |-> inst],
              [kind |-> "wait", key |-> inst],
              [kind |-> "pay", key |-> pay]>>

KeyRank == (inst :> 2) @@ (pay :> 1)
=============================================================================
