---------------------------- MODULE VerifyRoutes ----------------------------
(***************************************************************************)
(* The routes the load test verifies (commands/load_test/verification/        *)
(* engine.rs): each entry point fixes how a message is followed from its      *)
(* source to its destination.  A route says                                  *)
(*   hub      whether messages pass through the ITS hub as two legs,          *)
(*   voting   whether the source's votes are checked first,                   *)
(*   routing  whether the arrival at the destination's Cosmos gateway is      *)
(*            checked,                                                      *)
(*   dest     the adapter that reads the destination chain, and               *)
(*   stream   whether verification runs while transactions are being sent.    *)
(* A source without a VotingVerifier has no votes to check, so most entry      *)
(* points cover a route with them and a route without.                        *)
(***************************************************************************)

Route(hub, voting, routing, dest, stream) ==
    [hub |-> hub, voting |-> voting, routing |-> routing, dest |-> dest, stream |-> stream]

\* General message passing.  An Amplifier route to an EVM chain takes an unapproved
\* message for an executed one; a route with a legacy end does not, and has no
\* router leg to observe.
EvmGmp == {Route(FALSE, v, TRUE, "EvmAmplifierFast", FALSE) : v \in BOOLEAN}
EvmGmpStreaming == {Route(FALSE, v, TRUE, "EvmAmplifierFast", TRUE) : v \in BOOLEAN}

EvmLegacyGmp ==
    {Route(FALSE, v, FALSE, "EvmLegacy", FALSE) : v \in BOOLEAN}
        \cup {Route(FALSE, FALSE, FALSE, "EvmAmplifier", FALSE)}
EvmLegacyGmpStreaming ==
    {Route(FALSE, v, FALSE, "EvmLegacy", TRUE) : v \in BOOLEAN}
        \cup {Route(FALSE, FALSE, FALSE, "EvmAmplifier", TRUE)}

StellarGmp == {Route(FALSE, v, TRUE, "Stellar", FALSE) : v \in BOOLEAN}
SuiGmp == {Route(FALSE, v, TRUE, "Sui", FALSE) : v \in BOOLEAN}
SolanaGmp == {Route(FALSE, v, TRUE, "Solana", FALSE) : v \in BOOLEAN}
SolanaGmpStreaming == {Route(FALSE, v, TRUE, "Solana", TRUE) : v \in BOOLEAN}

\* Token transfers through the ITS hub.  A batch whose source reports no payload
\* hashes starts at the hub, like one without a VotingVerifier.
SolanaIts == {Route(TRUE, v, TRUE, "ItsSolana", FALSE) : v \in BOOLEAN}
SolanaItsStreaming == {Route(TRUE, v, TRUE, "ItsSolana", TRUE) : v \in BOOLEAN}
SuiIts == {Route(TRUE, v, TRUE, "ItsSui", FALSE) : v \in BOOLEAN}
StellarIts == {Route(TRUE, v, TRUE, "ItsStellar", FALSE) : v \in BOOLEAN}
StellarItsStreaming == {Route(TRUE, v, TRUE, "ItsStellar", TRUE) : v \in BOOLEAN}
XrplIts == {Route(TRUE, v, TRUE, "ItsXrpl", FALSE) : v \in BOOLEAN}
XrplItsStreaming == {Route(TRUE, v, TRUE, "ItsXrpl", TRUE) : v \in BOOLEAN}

\* To an EVM chain the votes are never checked, and a legacy chain has no Cosmos
\* gateway to check the routing at.
ItsEvmDest(stream) ==
    {Route(TRUE, FALSE, TRUE, "ItsEvmAmplifier", stream),
     Route(TRUE, FALSE, FALSE, "ItsEvmLegacy", stream)}
EvmIts == ItsEvmDest(FALSE)
EvmItsStreaming == ItsEvmDest(TRUE)

\* The routes whose adapter waits until it has seen a message approved or executed.
ObservedRoutes ==
    UNION {EvmLegacyGmp, EvmLegacyGmpStreaming, StellarGmp, SuiGmp, SolanaGmp,
           SolanaGmpStreaming, SolanaIts, SolanaItsStreaming, SuiIts, StellarIts,
           StellarItsStreaming, XrplIts, XrplItsStreaming, EvmIts, EvmItsStreaming}

AllRoutes == EvmGmp \cup EvmGmpStreaming \cup ObservedRoutes

=============================================================================
