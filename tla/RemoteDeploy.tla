----------------------------- MODULE RemoteDeploy -----------------------------
(* The remote deployment of an interchain token, and the three loops that    *)
(* wait for it (verification/engine/its_deploy.rs).  The deployment message   *)
(* travels on its own; a wait follows it from phase to phase.                 *)
EXTENDS Integers, Sequences

CONSTANT NotFoundLimit   \* polls without a Solana account before it is taken as executed

ASSUME NotFoundLimitAssumption == NotFoundLimit \in Nat \ {0}

VARIABLES
    remote,   \* remote[t]: how far token t's remote deployment has come
    phase,    \* RemoteDeployState.phase of the wait
    missing   \* polls that found no Solana account

waitVars == <<phase, missing>>

\* Not requested, requested, approved by the hub, forwarded as a second leg,
\* routed to the destination's gateway, approved there, executed there.
Requested == 1
OnHub == 2
Forwarded == 3
Routed == 4
Approved == 5
Deployed == 6

\* The relayers and verifiers take the message one stage further.
Relay(t) ==
    /\ remote[t] \in Requested .. Approved
    /\ remote' = [remote EXCEPT ![t] = @ + 1]
    /\ UNCHANGED waitVars

\* A wait starts; Voted and HubApproved poll the same contract in the same way.
WaitStarts == phase' = "HubApproved" /\ missing' = 0

InHub == phase \in {"HubApproved", "DiscoverSecondLeg", "Routed"}

\* advance_hub_deploy: one poll of the Axelar side.
AdvanceHub(t, legacy) ==
    /\ \/ phase = "HubApproved" /\ remote[t] >= OnHub /\ phase' = "DiscoverSecondLeg"
       \/ /\ phase = "DiscoverSecondLeg" /\ remote[t] >= Forwarded
          /\ phase' = IF legacy THEN "Approved" ELSE "Routed"
       \/ phase = "Routed" /\ remote[t] >= Routed /\ phase' = "Approved"
    /\ UNCHANGED missing

\* check_legacy_evm_deploy: the approval is found in the logs, then the command
\* is executed.
CheckLegacy(t) ==
    /\ \/ phase = "Approved" /\ remote[t] >= Approved /\ phase' = "Executed"
       \/ phase = "Executed" /\ remote[t] = Deployed /\ phase' = "Done"
    /\ UNCHANGED missing

\* check_amplifier_evm_deploy: isMessageApproved, asked with an empty source
\* address and the zero contract.  The gateway may answer for the message all the
\* same; an answer of FALSE moves the wait on from either phase.
CheckAmplifier(t) ==
    /\ \E approved \in {FALSE, remote[t] = Approved} :
          \/ phase = "Approved" /\ phase' = "Executed"
          \/ phase = "Executed" /\ ~approved /\ phase' = "Done"
    /\ UNCHANGED missing

\* check_stellar_remote_deploy_approval: approved, executed already, or pending.
StellarApproval(t) ==
    CASE remote[t] = Approved -> "Executed"
      [] remote[t] = Deployed -> "Registered"
      [] OTHER -> "Approved"

\* advance_stellar_destination.
CheckStellar(t) ==
    /\ \/ phase = "Approved" /\ phase' = StellarApproval(t)
       \/ phase = "Executed" /\ remote[t] = Deployed /\ phase' = "Registered"
       \/ phase = "Registered" /\ remote[t] = Deployed /\ phase' = "Done"
    /\ UNCHANGED missing

\* check_solana_deploy_approval: the incoming-message account, or enough polls
\* without one.
CheckSolana(t) ==
    /\ phase = "Approved"
    /\ IF remote[t] >= Approved
       THEN phase' = "Done" /\ UNCHANGED missing
       ELSE /\ missing' = missing + 1
            /\ phase' = IF missing' >= NotFoundLimit THEN "Done" ELSE phase

\* wait_for_its_remote_deploy.
WaitEvm(t, legacy) ==
    IF InHub THEN AdvanceHub(t, legacy)
    ELSE IF legacy THEN CheckLegacy(t) ELSE CheckAmplifier(t)

\* wait_for_its_remote_deploy_to_stellar.
WaitStellar(t) == IF InHub THEN AdvanceHub(t, FALSE) ELSE CheckStellar(t)

\* wait_for_its_remote_deploy_to_solana.
WaitSolana(t) == IF InHub THEN AdvanceHub(t, FALSE) ELSE CheckSolana(t)
=============================================================================
