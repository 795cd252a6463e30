-------------------------- MODULE MCVerifyPipeline --------------------------
(* Instances of the verification pipeline for TLC.                           *)
EXTENDS VerifyPipeline, TLC

CONSTANTS t1, t2

TwoTxs == {t1, t2}

\* Every adapter, after a batch.  The votes are followed on one direct route and on
\* one through the hub, and a streaming run on one of each: votes and streaming are the
\* same whatever the adapter.
CheckedRoutes ==
    {r \in AllRoutes :
        /\ r.voting => r.dest \in {"EvmLegacy", "ItsSolana"} /\ ~r.stream
        /\ r.stream => r.dest \in {"EvmLegacy", "ItsEvmLegacy"}}

StreamedRoutes == EvmLegacyGmpStreaming

Symmetry == Permutations({t1, t2})

=============================================================================
