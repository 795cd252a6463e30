--------------------------- MODULE MCDeploySteps ---------------------------
(***************************************************************************)
(* Deployments on the three kinds of network: a devnet with one key for      *)
(* every role, a testnet whose gateway has a key of its own, and a mainnet   *)
(* with four keys; rewards come from the proposer's account or another.      *)
(***************************************************************************)
EXTENDS DeploySteps

MCOperatorSeq == <<"operator 1", "operator 2">>

Owned == {"AxelarGateway", "Operators", "AxelarGasService", "InterchainTokenService",
          "InterchainTokenFactory"}

MCWorlds == {
    [net |-> "devnet", acct |-> [r \in Roles |-> "a"], owner |-> [n \in Owned |-> "a"],
     funder |-> "proposer"],
    [net |-> "testnet", acct |-> [r \in Roles |-> IF r = "gateway" THEN "g" ELSE "a"],
     owner |-> [n \in Owned |-> IF n = "AxelarGateway" THEN "g" ELSE "dao"],
     funder |-> "proposer"],
    [net |-> "mainnet", acct |-> [r \in Roles |-> r], owner |-> [n \in Owned |-> n \o " owner"],
     funder |-> "rewards"]}

=============================================================================
