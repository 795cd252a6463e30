----------------------------- MODULE DeployPlan -----------------------------
(***************************************************************************)
(* The twenty steps of a deployment and what each handler does, as a         *)
(* sequence of operations <<kind, name>>.  Between two operations the        *)
(* process may die; an operation is one journaled transaction ("send" on the *)
(* EVM chain, "cosmos" on Axelar), one file written atomically, or one       *)
(* reading of a chain.                                                      *)
(***************************************************************************)
EXTENDS SequencesExt

CONSTANT OperatorSeq    \* Network::axelar_operators()

Send(label) == <<"send", label>>
Cosmos == <<"cosmos", "cosmos">>

StepNames == <<
    "EvmCompatibilityCheck", "ConstAddressDeployer", "Create3Deployer",
    "PredictGatewayAddress", "AddCosmWasmConfig",
    "InstantiateChainContracts", "WaitInstantiateProposal", "SaveDeployedContracts",
    "AddRewards", "WaitForVerifierSet",
    "AxelarGateway", "Operators", "RegisterOperators", "AxelarGasService",
    "TransferOperatorsOwnership", "TransferGatewayOwnership", "TransferGasServiceOwnership",
    "DeployInterchainTokenService", "RegisterItsOnHub", "WaitItsHubRegistration">>

Steps == ToSet(StepNames)
Index == [s \in Steps |-> CHOOSE i \in DOMAIN StepNames : StepNames[i] = s]
Checkpoint == Index["WaitForVerifierSet"]

-----------------------------------------------------------------------------
(* The compatibility checks, by the function that makes them; the ones named  *)
(* warn-only never fail the step.                                            *)

IdentityChecks == {"eth_chainId", "eth_syncing", "eth_blockNumber"}
BlockChecks == {"eth_getBlockByNumber(latest)", "deployment confirmation block"}
AccountChecks == {"eth_gasPrice", "eth_getBalance", "eth_getTransactionCount", "eth_feeHistory"}
ContractChecks ==
    {"eth_getCode", "eth_estimateGas", "eth_call(getValue=42)", "eth_getTransactionByHash"}
EventChecks == {"eth_getLogs(topic+block)", "eth_getLogs(addr+range)", "logIndex consistency"}
OptionalChecks == {"eth_getBlockByNumber(safe)", "parent hash validation"}

HealthChecks == IdentityChecks \cup BlockChecks \cup AccountChecks
Checks == [health |-> HealthChecks,
           contract |-> ContractChecks \cup EventChecks \cup OptionalChecks]

\* The step fails when a critical check fails; a failed optional one is a warning.
Summarise(failed) == failed \cap OptionalChecks = failed

-----------------------------------------------------------------------------
(* The handlers.                                                             *)

\* The node is probed before anything is sent to it.
EvmCompatOps == <<
    <<"probe", "health">>, Send("deploy compatibility probe"),
    Send("update compatibility probe"), <<"probe", "contract">>>>

EvmDeployOps(name) == <<Send(name), <<"config", name>>>>

\* The plan is saved and the predicted addresses pinned before the submission.
InstantiateOps == <<<<"available", "">>, <<"plan", "">>, <<"pin", "">>, Cosmos>>

\* The prover's set is initialized unless it exists, then read and approved.
VerifierOps == <<Cosmos, <<"query", "">>, <<"approve", "">>>>

Deployed(name) == <<Send(name), <<"save", name>>>>

\* The nonces of both transactions are fixed first; the prover's set is read
\* again just before the proxy is built.
GatewayOps ==
    <<<<"nonce", "">>>> \o Deployed("gateway implementation")
        \o <<<<"refresh", "">>, <<"approve", "">>, Send("gateway proxy"),
             <<"config", "AxelarGateway">>>>

RegisterOps == [i \in DOMAIN OperatorSeq |-> Send(OperatorSeq[i])]

UpgradableOps ==
    Deployed("gas implementation")
        \o <<Send("gas proxy"), Send("gas proxy initialization"), <<"save", "gas proxy">>,
             <<"config", "AxelarGasService">>>>

TransferOps == <<Send("transfer ownership"), <<"owner", "">>>>

Helpers == <<"TokenManagerDeployer", "InterchainToken", "InterchainTokenDeployer",
             "TokenManager", "TokenHandler">>

HelperOps == FlattenSeq([i \in DOMAIN Helpers |-> Deployed(Helpers[i])])

ServiceOps == Deployed("InterchainTokenServiceImpl") \o <<Send("InterchainTokenServiceProxy")>>

FactoryOps == Deployed("InterchainTokenFactoryImpl") \o <<Send("InterchainTokenFactoryProxy")>>

ItsOps ==
    <<<<"save", "itsDeployer">>>> \o HelperOps \o ServiceOps \o FactoryOps
        \o <<<<"config", "InterchainTokenService">>, <<"config", "InterchainTokenFactory">>>>

Transfers == [TransferOperatorsOwnership |-> "Operators",
              TransferGatewayOwnership |-> "AxelarGateway",
              TransferGasServiceOwnership |-> "AxelarGasService"]

Handler == [s \in Steps |->
    CASE s = "EvmCompatibilityCheck" -> EvmCompatOps
      [] s \in {"ConstAddressDeployer", "Create3Deployer", "Operators"} -> EvmDeployOps(s)
      [] s = "PredictGatewayAddress" -> <<<<"predict", "">>>>
      [] s = "AddCosmWasmConfig" -> <<<<"edit", "">>>>
      [] s = "InstantiateChainContracts" -> InstantiateOps
      [] s \in {"WaitInstantiateProposal", "WaitItsHubRegistration"} -> <<<<"poll", "">>>>
      [] s = "SaveDeployedContracts" -> <<<<"saveContracts", "">>>>
      [] s \in {"AddRewards", "RegisterItsOnHub"} -> <<Cosmos>>
      [] s = "WaitForVerifierSet" -> VerifierOps
      [] s = "AxelarGateway" -> GatewayOps
      [] s = "RegisterOperators" -> RegisterOps
      [] s = "AxelarGasService" -> UpgradableOps
      [] s \in DOMAIN Transfers -> TransferOps
      [] s = "DeployInterchainTokenService" -> ItsOps]

\* After its handler every step is checked, its evidence captured and its
\* completion saved.
Ops == [s \in Steps |-> Handler[s] \o <<<<"post", "">>, <<"capture", "">>, <<"mark", "">>>>]

IsTransaction(op) == op[1] \in {"send", "cosmos"}

\* The transactions of each step, and the ones a step skips when it finds their
\* effect on chain.
Transactions ==
    [i \in DOMAIN StepNames |->
        LET sent == SelectSeq(Handler[StepNames[i]], IsTransaction)
        IN  [j \in DOMAIN sent |-> <<StepNames[i], sent[j][2]>>]]

Skippable ==
    {<<"WaitForVerifierSet", "cosmos">>, <<"AxelarGasService", "gas proxy initialization">>}
        \cup {<<"RegisterOperators", o>> : o \in ToSet(OperatorSeq)}
        \cup {<<s, "transfer ownership">> : s \in DOMAIN Transfers}

-----------------------------------------------------------------------------
(* The key that signs a step's transactions.                                  *)

Role(net, s) ==
    CASE net = "mainnet"
            /\ s \in {"Operators", "RegisterOperators", "TransferOperatorsOwnership"} -> "deployer"
      [] s \in {"EvmCompatibilityCheck", "ConstAddressDeployer", "Create3Deployer"} -> "deployer"
      [] s = "DeployInterchainTokenService" -> "its"
      [] s \in {"AxelarGasService", "TransferGasServiceOwnership"} -> "gas"
      [] OTHER -> "gateway"

Roles == {"deployer", "gateway", "gas", "its"}
=============================================================================
