--------------------------- MODULE MCHardenedEvm ----------------------------
(* Instances of HardenedEvm for TLC.                                         *)
EXTENDS HardenedEvm, TLC

CONSTANTS probe, call, impl, proxy

\* Two steps of one transaction each: a retryable CREATE and a call.  The journal
\* sorts the second before the first, as it does most steps of the deployment.
TwoSteps == <<<<probe>>, <<call>>>>
TwoRank == (probe :> 2) @@ (call :> 1)

\* The prediction, the verifier checkpoint, and the gateway's two CREATEs.
GatewaySteps == <<<<>>, <<>>, <<impl, proxy>>>>
GatewayRank == (impl :> 1) @@ (proxy :> 2)
GatewayOffset == (impl :> 0) @@ (proxy :> 1)

NoOffset == <<>>
=============================================================================
