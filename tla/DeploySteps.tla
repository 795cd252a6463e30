---------------------------- MODULE DeploySteps ----------------------------
(***************************************************************************)
(* axe deploy: the run that takes a chain through the steps of DeployPlan,   *)
(* on three files (the state file, the journal and the shared configuration),*)
(* two chains and an operator who stops and restarts it.                     *)
(*                                                                         *)
(* The state file holds the completed steps and the addresses they saved;   *)
(* the running process works on its own copy and saves it at the end of a   *)
(* step, at an intermediate deployment and at a pause.  The journal holds    *)
(* every signed transaction before it is broadcast.  The configuration holds *)
(* the contracts' addresses that later steps read.                           *)
(*                                                                         *)
(* How one journaled transaction reaches a chain (receipts, fees, finality,  *)
(* replacement) is HardenedEvm's and HardenedCosmos's subject; here it lands *)
(* once its nonce is the account's.                                         *)
(***************************************************************************)
EXTENDS DeployPlan

CONSTANTS
    Worlds,         \* the networks, keys and plans to deploy with
    MaxFaults,      \* how many crashes, refusals and outside changes happen
    Deposit,        \* a proposal's deposit
    Reward          \* what each of the two reward pools is given

VARIABLES
    world,      \* the network, each role's account, each contract's owner, the rewards' funder
    disk,       \* the state file
    mem,        \* the running process's copy of it
    config,     \* the shared configuration
    journal,    \* the journal
    chain,      \* the EVM chain: code by address, nonces, operators, epoch
    hub,        \* Axelar: what the proposals and executions made
    log,        \* the transactions executed, in order
    run,        \* the running process
    arts,       \* the version of the artifacts in the checkout
    faults,     \* how many faults have happened
    spoiled     \* a foreign transaction took a nonce this deployment needed

vars == <<world, disk, mem, config, journal, chain, hub, log, run, arts, faults, spoiled>>
files == <<disk, config, journal>>
outside == <<chain, hub, log>>
setting == <<world, arts, faults, spoiled>>

None == <<>>

Contracts == {"ConstAddressDeployer", "Create3Deployer", "AxelarGateway", "Operators",
              "AxelarGasService", "InterchainTokenService", "InterchainTokenFactory"}

Governed == world.net # "devnet"
Signer(s) == world.acct[Role(world.net, s)]
Step == IF mem.done < Len(StepNames) THEN StepNames[mem.done + 1] ELSE "none"
Landed == ToSet(log)
Recorded(k) == k \in DOMAIN journal.acts

\* The owner the plan gives the contract that this step hands over.
NewOwner == world.owner[Transfers[Step]]

-----------------------------------------------------------------------------
(* Transactions.  A contract's address is <<label, account, nonce>>; one made  *)
(* by a factory depends on no nonce.                                         *)

Created == {"deploy compatibility probe", "ConstAddressDeployer", "gateway implementation",
            "gateway proxy", "gas implementation"}
              \cup (IF world.net = "mainnet" THEN {} ELSE {"gas proxy"})

AddressOf(k, from, nonce) == <<k[2], from, IF k[2] \in Created THEN nonce ELSE 0>>

\* The address a transaction of the current step deployed, from its receipt or
\* its factory's prediction.
DeployedAt(label) ==
    LET k == <<Step, label>>
    IN  AddressOf(k, Signer(Step), IF Recorded(k) THEN journal.acts[k].nonce ELSE 0)

\* Mutant: the proxy is built with the prover's set of the moment.
CurrentSet == hub.set

\* The gateway's initial signers are the set the operator approved.
InitialSet == journal.signers

\* What the request is built from: addresses out of the configuration and of
\* earlier deployments, the approved signers, the plan's owner.
Args(label) ==
    LET factory == config.at["ConstAddressDeployer"]
        its == DeployedAt("InterchainTokenServiceProxy")
    IN  CASE label = "update compatibility probe" -> <<DeployedAt("deploy compatibility probe")>>
          [] label \in {"Create3Deployer", "Operators", "TokenManagerDeployer", "TokenHandler"} ->
                <<factory>>
          [] label = "gateway proxy" -> <<DeployedAt("gateway implementation"), InitialSet>>
          [] label = "gas implementation" -> <<config.at["Operators"]>>
          [] label = "gas proxy" ->
                IF world.net = "mainnet" THEN <<DeployedAt("gas implementation")>> ELSE <<>>
          [] label = "gas proxy initialization" ->
                <<DeployedAt("gas proxy"), DeployedAt("gas implementation")>>
          [] Step = "RegisterOperators" -> <<config.at["Operators"]>>
          [] Step \in DOMAIN Transfers -> <<config.at[Transfers[Step]], NewOwner>>
          [] label \in {"InterchainToken", "TokenManager", "InterchainTokenFactoryImpl"} ->
                <<its, factory>>
          [] label = "InterchainTokenDeployer" -> <<DeployedAt("InterchainToken"), factory>>
          [] label = "InterchainTokenServiceImpl" ->
                <<config.at["AxelarGateway"], config.at["AxelarGasService"],
                  DeployedAt("InterchainTokenFactoryProxy"), config.at["Create3Deployer"],
                  DeployedAt(Helpers[1]), DeployedAt(Helpers[3]), DeployedAt(Helpers[4]),
                  DeployedAt(Helpers[5])>>
          [] label = "InterchainTokenServiceProxy" ->
                <<DeployedAt("InterchainTokenServiceImpl"), world.owner["InterchainTokenService"]>>
          [] label = "InterchainTokenFactoryProxy" ->
                <<DeployedAt("InterchainTokenFactoryImpl"), world.owner["InterchainTokenFactory"]>>
          [] OTHER -> <<>>

\* The two gateway transactions carry the nonces their address was predicted from.
Pinned(label) ==
    CASE label = "gateway implementation" -> run.pin
      [] label = "gateway proxy" -> run.pin + 1
      [] OTHER -> 0

Request(label) ==
    [from |-> Signer(Step), args |-> Args(label), nonce |-> Pinned(label), art |-> run.art]

\* A submission to Axelar carries the address it registers: the verifier's
\* source gateway, and the ITS edge contract, out of the configuration.
InstantiationPlan == <<config.source>>
ItsRegistration == <<config.at["InterchainTokenService"]>>

CosmosRequest ==
    CASE Step = "InstantiateChainContracts" -> InstantiationPlan
      [] Step = "RegisterItsOnHub" -> ItsRegistration
      [] OTHER -> <<>>

\* A step does not repeat what it finds on chain.
Needed(label) ==
    CASE label = "gas proxy initialization" ->
            world.net # "mainnet" /\ chain.code[DeployedAt("gas proxy")].args = <<>>
      [] Step = "RegisterOperators" -> label \notin chain.operators
      [] Step \in DOMAIN Transfers -> chain.code[config.at[Transfers[Step]]].owner # NewOwner
      [] Step = "WaitForVerifierSet" -> hub.set = 0
      [] OTHER -> TRUE

\* The simulation before signing: only an owner administers a contract, and a
\* factory deploys an address once.
Simulates(label) ==
    CASE Step = "RegisterOperators" -> chain.code[config.at["Operators"]].owner = Signer(Step)
      [] Step \in DOMAIN Transfers ->
            chain.code[config.at[Transfers[Step]]].owner = Signer(Step)
      [] OTHER -> DeployedAt(label) \notin DOMAIN chain.code

-----------------------------------------------------------------------------
(* The chains.                                                               *)

InitialOwner(k, from, args) ==
    CASE k[2] \in {"Operators", "gateway proxy"} -> from
      [] k[2] = "gas proxy" /\ world.net = "mainnet" -> from
      [] k[2] \in {"InterchainTokenServiceProxy", "InterchainTokenFactoryProxy"} -> args[2]
      [] OTHER -> ""

\* The effect of the EVM transaction k on the contracts.
CodeAfter(k, tx) ==
    LET args == tx.req.args
    IN  CASE k[2] = "gas proxy initialization" ->
                [chain.code EXCEPT ![args[1]].owner = tx.req.from, ![args[1]].args = <<args[2]>>]
          [] k[2] = "transfer ownership" -> [chain.code EXCEPT ![args[1]].owner = args[2]]
          [] k[2] = "update compatibility probe" \/ k[1] = "RegisterOperators" -> chain.code
          [] OTHER ->
                (AddressOf(k, tx.req.from, tx.nonce) :>
                    [art |-> tx.req.art, owner |-> InitialOwner(k, tx.req.from, args), args |-> args])
                @@ chain.code

\* What a passed proposal or a direct execution does on Axelar.
Executed(h, s, args) ==
    CASE s = "InstantiateChainContracts" -> [h EXCEPT !.source = args[1]]
      [] s = "RegisterItsOnHub" -> [h EXCEPT !.edge = args[1]]
      [] s = "AddRewards" ->
            [h EXCEPT !.rewards = @ + 2 * Reward, !.purse[world.funder] = @ - 2 * Reward]
      [] s = "WaitForVerifierSet" -> [h EXCEPT !.set = 1]

Proposals == IF Governed THEN {"InstantiateChainContracts", "RegisterItsOnHub"} ELSE {}

Affordable(s) ==
    /\ s \in Proposals => hub.purse["proposer"] >= Deposit
    /\ s = "AddRewards" => hub.purse[world.funder] >= 2 * Reward

HubAfter(s, args) ==
    IF s \in Proposals
    THEN [hub EXCEPT !.voting = @ \cup {s}, !.purse["proposer"] = @ - Deposit]
    ELSE Executed(hub, s, args)

\* The recorded transaction k is broadcast and included.
Land(k) ==
    LET tx == journal.acts[k]
    IN  /\ log' = Append(log, k)
        /\ IF k[2] = "cosmos"
           THEN /\ hub' = HubAfter(k[1], tx.req.args)
                /\ UNCHANGED chain
           ELSE /\ chain' = [chain EXCEPT !.code = CodeAfter(k, tx),
                                         !.nonce[tx.req.from] = @ + 1,
                                         !.operators = IF k[1] = "RegisterOperators"
                                                       THEN @ \cup {k[2]} ELSE @]
                /\ UNCHANGED hub

\* Its nonce was consumed and its receipt is not there.
Displaced(k) ==
    /\ k[2] # "cosmos"
    /\ k \notin Landed
    /\ chain.nonce[journal.acts[k].req.from] > journal.acts[k].nonce

\* The vote on a proposal ends: it is executed and its deposit returned.
Pass(s) ==
    /\ s \in hub.voting \ hub.short
    /\ hub' = Executed([hub EXCEPT !.voting = @ \ {s}, !.purse["proposer"] = @ + Deposit],
                       s, journal.acts[<<s, "cosmos">>].req.args)
    /\ UNCHANGED <<files, mem, chain, log, run, setting>>

\* Somebody completes a proposal's deposit: its voting period begins.
TopUp(s) ==
    /\ s \in hub.voting \cap hub.short
    /\ hub' = [hub EXCEPT !.short = @ \ {s}]
    /\ UNCHANGED <<files, mem, chain, log, run, setting>>

\* Enough verifiers are registered for the chain.
Eligible ==
    /\ ~hub.eligible
    /\ hub' = [hub EXCEPT !.eligible = TRUE]
    /\ UNCHANGED <<files, mem, chain, log, run, setting>>

-----------------------------------------------------------------------------
(* Starting a run.                                                           *)

Idle(pc) == [pc |-> pc, op |-> 1, activate |-> FALSE, seen |-> 0, pin |-> 0, art |-> 0]

Goto(pc) == run' = [run EXCEPT !.pc = pc, !.op = 1]

\* axe deploy init: the chain's entry, unless it is there, then the state file.
InitChain ==
    /\ run.pc = "new"
    /\ config' = [config EXCEPT !.chain = TRUE]
    /\ run' = Idle("init")
    /\ UNCHANGED <<disk, mem, journal, outside, setting>>

InitState ==
    /\ run.pc = "init"
    /\ disk' = [disk EXCEPT !.exists = TRUE]
    /\ mem' = disk'
    /\ run' = Idle("off")
    /\ UNCHANGED <<config, journal, outside, setting>>

\* A missing journal is accepted only before the first transaction.
JournalPresent == journal.art # 0 \/ (~disk.stamped /\ disk.done = 0)

\* The artifacts of the checkout.
Captured == arts

\* The pinned snapshot, or the checkout before there is one.
Prepared == IF journal.pinned THEN journal.art ELSE Captured

\* The protocol contracts' code, read by the preflight.
ProtocolInputs == hub.protocol

\* Mutant: the inputs are not compared with the journal's fingerprint.
SameInputsUnchecked == TRUE

SameInputs == journal.art # 0 => Prepared = journal.art

\* A Coordinator deployment of this chain must be the journal's own.
OwnDeployment ==
    disk.done < Index["WaitInstantiateProposal"] /\ hub.source # None
        => Recorded(<<"InstantiateChainContracts", "cosmos">>)

\* Before the first run the chain has no contracts and no registration.
Unused == disk.stamped \/ (hub.source = None /\ hub.edge = None
                             /\ \A n \in Contracts : config.at[n] = None)

Submitted(s) == Recorded(<<s, "cosmos">>) \/ s \in disk.proposals

\* One deposit serves the two proposals in turn.
RemainingDeposit ==
    IF /\ \E s \in Proposals : ~Submitted(s)
       /\ ~\E s \in Proposals : Submitted(s) /\ disk.done <= Index[s]
    THEN Deposit ELSE 0

\* Mutant: rewards that were already sent are required until the step is completed.
PendingRewardsUntilDone == IF disk.done >= Index["AddRewards"] THEN 0 ELSE 2 * Reward

PendingRewards ==
    IF Recorded(<<"AddRewards", "cosmos">>) \/ disk.done >= Index["AddRewards"]
    THEN 0 ELSE 2 * Reward

Funded ==
    \A a \in DOMAIN hub.purse :
        hub.purse[a] >= (IF a = "proposer" THEN RemainingDeposit ELSE 0)
                          + (IF a = world.funder THEN PendingRewards ELSE 0)

Preflight ==
    /\ disk.exists /\ config.chain
    /\ JournalPresent /\ OwnDeployment /\ Unused /\ Funded

\* --activate is given from the checkpoint on; a run that is not given it there
\* pauses again.
Start(activate) ==
    /\ run.pc = "off"
    /\ Preflight /\ SameInputs
    /\ activate => disk.done >= Checkpoint - 1
    /\ ~activate => disk.done <= Checkpoint - 1
    /\ faults' = IF ~activate /\ disk.done = Checkpoint - 1 THEN faults + 1 ELSE faults
    /\ faults' <= MaxFaults
    /\ mem' = disk
    /\ journal' = [journal EXCEPT !.art = IF @ = 0 THEN Prepared ELSE @]
    /\ run' = [Idle("commit") EXCEPT !.activate = activate, !.art = Prepared,
                                      !.seen = ProtocolInputs]
    /\ UNCHANGED <<world, disk, config, outside, arts, spoiled>>

\* The inputs are pinned by the first run.
Commit ==
    /\ run.pc = "commit"
    /\ journal' = [journal EXCEPT !.pinned = TRUE]
    /\ Goto("stamp")
    /\ UNCHANGED <<disk, mem, config, outside, setting>>

Stamp ==
    /\ run.pc = "stamp"
    /\ mem' = [mem EXCEPT !.stamped = TRUE]
    /\ disk' = mem'
    /\ Goto("protocols")
    /\ UNCHANGED <<config, journal, outside, setting>>

\* The protocol's code is recorded, and an upgrade of it approved.
ApproveProtocols ==
    /\ run.pc = "protocols"
    /\ journal' = [journal EXCEPT !.protocol = run.seen]
    /\ run' = [run EXCEPT !.pc = "reconcile", !.seen = 0]
    /\ UNCHANGED <<disk, mem, config, outside, setting>>

\* A check failed: the run ends with an error that every later run would meet.
Refuse ==
    /\ run' = Idle("refused")
    /\ mem' = disk
    /\ UNCHANGED <<files, outside, setting>>

\* A run that stops at a question or a checkpoint saves its state.
Pause ==
    /\ run' = Idle("off")
    /\ disk' = mem
    /\ UNCHANGED <<mem, config, journal, outside>>

\* Every recorded transaction is settled before anything else.
Reconcile ==
    /\ run.pc = "reconcile"
    /\ IF \E k \in DOMAIN journal.acts : Displaced(k)
       THEN Refuse
       ELSE \/ \E k \in DOMAIN journal.acts \ Landed :
                    Land(k) /\ UNCHANGED <<files, mem, run, setting>>
            \/ /\ DOMAIN journal.acts \subseteq Landed
               /\ Goto("checks")
               /\ UNCHANGED <<files, mem, outside, setting>>

-----------------------------------------------------------------------------
(* What a run verifies: the evidence of earlier steps and their              *)
(* postconditions.                                                           *)

Configured == {n \in Contracts : config.at[n] # None}

Observe(n) == [at |-> config.at[n], owner |-> chain.code[config.at[n]].owner]

Compatible(exempt) ==
    /\ \A n \in Configured : config.at[n] \in DOMAIN chain.code
    /\ \A n \in DOMAIN journal.evidence :
            /\ n \in Configured
            /\ n \notin exempt => journal.evidence[n] = Observe(n)
            /\ journal.evidence[n].at = config.at[n]

Affected == IF Step \in DOMAIN Transfers THEN {Transfers[Step]} ELSE {}

\* Mutant: no owner may have changed since the evidence was captured.
ExemptNothing == {}

\* A transfer that was recorded may have changed its contract's owner.
Exempt == IF \E k \in DOMAIN journal.acts : k[1] = Step THEN Affected ELSE {}

Implementation(n) == chain.code[config.at[n]].args[1]

GatewayVerified ==
    /\ config.at["AxelarGateway"] = mem.predicted
    /\ chain.code[mem.predicted].args[2] = journal.signers

\* The three Axelar contracts are the pinned ones, made for this gateway.
Instantiated == config.cosmos /\ journal.predictions /\ hub.source = config.source

\* The router knows the chain under its Axelar gateway.
Registration == hub.source # None

OperatorsRegistered == ToSet(OperatorSeq) \subseteq chain.operators

ItsImplementations ==
    \A n \in {"InterchainTokenService", "InterchainTokenFactory"} :
        Implementation(n) = mem.saved[n \o "Impl"]

ItsRegistered == hub.edge = config.at["InterchainTokenService"]

\* The postconditions of the first n steps.
Holds(n) ==
    /\ n >= Index["SaveDeployedContracts"] => Instantiated /\ Registration
    /\ n >= Index["AxelarGateway"] => GatewayVerified
    /\ n >= Index["RegisterOperators"] => OperatorsRegistered
    /\ n >= Index["DeployInterchainTokenService"] => ItsImplementations
    /\ n >= Index["WaitItsHubRegistration"] => ItsRegistered

\* The gateway's signers were rotated since the last approved rotation.
Rotated(n) == n >= Index["AxelarGateway"] /\ chain.epoch > journal.rotation

FinalOwners ==
    \A n \in DOMAIN world.owner : chain.code[config.at[n]].owner = world.owner[n]

\* The operator accepts a rotation; the check then goes on.
AcceptRotation ==
    /\ journal' = [journal EXCEPT !.rotation = chain.epoch]
    /\ UNCHANGED <<disk, mem, config, run, outside, setting>>

\* The checks a resumed run makes before its first step.
Check ==
    /\ run.pc = "checks"
    /\ IF ~(Compatible(Exempt) /\ Holds(mem.done))
       THEN Refuse
       ELSE IF Rotated(mem.done)
       THEN AcceptRotation
       ELSE /\ Goto(IF mem.done = Len(StepNames) THEN "final" ELSE "steps")
            /\ UNCHANGED <<files, mem, outside, setting>>

Final ==
    /\ run.pc = "final"
    /\ IF ~(GatewayVerified /\ FinalOwners)
       THEN Refuse
       ELSE IF Rotated(mem.done)
       THEN AcceptRotation
       ELSE /\ run' = Idle("complete")
            /\ UNCHANGED <<files, mem, outside, setting>>

-----------------------------------------------------------------------------
(* The operations of a step.                                                 *)

\* A submission or an approval of an earlier run is taken over, not repeated.
Resumed ==
    /\ run.op = 1
    /\ \/ /\ Step \in {"InstantiateChainContracts", "RegisterItsOnHub"}
          /\ <<Step, "cosmos">> \in Landed
       \/ Step = "WaitForVerifierSet" /\ journal.signers # 0

AtCheckpoint == run.op = 1 /\ Step = "WaitForVerifierSet" /\ ~run.activate

Op(kind) ==
    /\ run.pc = "steps"
    /\ ~Resumed /\ ~AtCheckpoint
    /\ Ops[Step][run.op][1] = kind

Arg == Ops[Step][run.op][2]
Key == <<Step, Arg>>

Advance == run' = [run EXCEPT !.op = @ + 1]

TakeOver ==
    /\ run.pc = "steps" /\ Resumed /\ ~AtCheckpoint
    /\ run' = [run EXCEPT !.op = Len(Handler[Step]) + 1]
    /\ mem' = [mem EXCEPT !.proposals = @ \cup ({Step} \cap Proposals)]
    /\ UNCHANGED <<files, outside, setting>>

WaitForActivation ==
    /\ run.pc = "steps" /\ AtCheckpoint
    /\ Pause
    /\ UNCHANGED setting

Fault ==
    /\ faults < MaxFaults
    /\ faults' = faults + 1

\* Probing the node: a critical failure ends the run, a later run probes again.
Probe ==
    /\ Op("probe")
    /\ \E failed \in {{}} \cup {{c} : c \in Checks[Arg]} :
            \/ /\ Summarise(failed)
               /\ Advance
               /\ UNCHANGED <<mem, faults>>
            \/ /\ ~Summarise(failed)
               /\ Fault
               /\ run' = Idle("off")
               /\ mem' = disk
    /\ UNCHANGED <<world, files, outside, arts, spoiled>>

\* The effect is on chain already.
Skip ==
    /\ Op("send") \/ Op("cosmos")
    /\ ~Needed(Arg)
    /\ Advance
    /\ UNCHANGED <<files, mem, outside, setting>>

\* Mutant: the transaction is broadcast without a record.
RecordEvmUnrecorded ==
    /\ Op("send") /\ Needed(Arg) /\ ~Recorded(Key)
    /\ log' = Append(log, Key)
    /\ chain' = [chain EXCEPT !.nonce[Signer(Step)] = @ + 1]
    /\ Advance
    /\ UNCHANGED <<files, mem, hub, setting>>

\* A new EVM transaction is simulated, signed and recorded before it is sent.
RecordEvm ==
    /\ Op("send") /\ Needed(Arg) /\ ~Recorded(Key)
    /\ IF Simulates(Arg) /\ Pinned(Arg) \in {0, chain.nonce[Signer(Step)]}
       THEN /\ journal' = [journal EXCEPT !.acts =
                    (Key :> [req |-> Request(Arg), nonce |-> chain.nonce[Signer(Step)]]) @@ @]
            /\ UNCHANGED <<disk, mem, config, run, outside, setting>>
       ELSE Refuse

RecordCosmos ==
    /\ Op("cosmos") /\ Needed(Arg) /\ ~Recorded(Key)
    /\ Step = "WaitForVerifierSet" => hub.eligible
    /\ IF Affordable(Step)
       THEN /\ journal' = [journal EXCEPT !.acts =
                    (Key :> [req |-> [args |-> CosmosRequest], nonce |-> 0]) @@ @]
            /\ UNCHANGED <<disk, mem, config, run, outside, setting>>
       ELSE Refuse

\* Fewer verifiers than the minimum are registered: the run pauses.
WaitForVerifiers ==
    /\ Op("cosmos") /\ Step = "WaitForVerifierSet"
    /\ Needed(Arg) /\ ~hub.eligible
    /\ Pause
    /\ UNCHANGED setting

\* A recorded transaction must be the one the step would build now.
SameIntent ==
    journal.acts[Key].req =
        IF Arg = "cosmos" THEN [args |-> CosmosRequest] ELSE Request(Arg)

Settle ==
    /\ Op("send") \/ Op("cosmos")
    /\ Needed(Arg) /\ Recorded(Key)
    /\ IF ~SameIntent \/ Displaced(Key)
       THEN Refuse
       ELSE IF Key \notin Landed
       THEN Land(Key) /\ UNCHANGED <<files, mem, run, setting>>
       ELSE /\ Advance
            /\ mem' = [mem EXCEPT !.proposals = @ \cup ({Step} \cap Proposals)]
            /\ UNCHANGED <<files, outside, setting>>

\* The address a step writes under a contract's name, and the owner it gives.
WrittenAddress(name) ==
    DeployedAt(CASE name = "AxelarGateway" -> "gateway proxy"
                 [] name = "AxelarGasService" -> "gas proxy"
                 [] name \in {"InterchainTokenService", "InterchainTokenFactory"} ->
                        name \o "Proxy"
                 [] OTHER -> name)

WrittenOwner(name) ==
    CASE name = "AxelarGateway" -> Signer(Step)
      [] name \in {"InterchainTokenService", "InterchainTokenFactory"} -> world.owner[name]
      [] OTHER -> ""

\* The gateway's address must be the one registered on Axelar.
WriteConfig ==
    /\ Op("config")
    /\ IF Arg = "AxelarGateway" /\ WrittenAddress(Arg) # mem.predicted
       THEN Refuse
       ELSE /\ config' = [config EXCEPT !.at[Arg] = WrittenAddress(Arg),
                                        !.owner[Arg] = WrittenOwner(Arg)]
            /\ Advance
            /\ UNCHANGED <<disk, mem, journal, outside, setting>>

\* Mutant: the configuration keeps the owner of before the transfer.
PatchOwnerForgotten ==
    /\ Op("owner")
    /\ Advance
    /\ UNCHANGED <<files, mem, outside, setting>>

\* After a transfer the new owner is read back and written.
PatchOwner ==
    /\ Op("owner")
    /\ IF chain.code[config.at[Transfers[Step]]].owner # NewOwner
       THEN Refuse
       ELSE /\ config' = [config EXCEPT !.owner[Transfers[Step]] = NewOwner]
            /\ Advance
            /\ UNCHANGED <<disk, mem, journal, outside, setting>>

\* An intermediate address is saved at once.
Save ==
    /\ Op("save")
    /\ mem' = [mem EXCEPT !.saved = (Arg :> DeployedAt(Arg)) @@ @]
    /\ disk' = mem'
    /\ Advance
    /\ UNCHANGED <<config, journal, outside, setting>>

\* The gateway proxy will be its deployer's second transaction from now; while
\* another transaction of that account is pending, the run ends with an error.
Predict ==
    /\ Op("predict")
    /\ LET a == world.acct["gateway"]
       IN  \/ /\ mem' = [mem EXCEPT !.predicted = <<"gateway proxy", a, chain.nonce[a] + 1>>]
              /\ Advance
              /\ UNCHANGED faults
           \/ /\ Fault
              /\ run' = Idle("off")
              /\ mem' = disk
    /\ UNCHANGED <<world, files, outside, arts, spoiled>>

\* The chain's entries for the Axelar contracts, without their addresses.
EditConfig ==
    /\ Op("edit")
    /\ config' = [config EXCEPT !.source = mem.predicted, !.cosmos = FALSE]
    /\ Advance
    /\ UNCHANGED <<disk, mem, journal, outside, setting>>

\* An existing deployment under this name is not adopted.
CheckAvailable ==
    /\ Op("available")
    /\ IF hub.source = None
       THEN Advance /\ UNCHANGED <<files, mem, outside, setting>>
       ELSE Refuse

SavePlan ==
    /\ Op("plan")
    /\ config' = [config EXCEPT !.plan = TRUE]
    /\ Advance
    /\ UNCHANGED <<disk, mem, journal, outside, setting>>

PinPredictions ==
    /\ Op("pin")
    /\ journal' = [journal EXCEPT !.predictions = TRUE]
    /\ Advance
    /\ UNCHANGED <<disk, mem, config, outside, setting>>

\* The run waits for the vote, on the proposal its state names; it pauses at one
\* that lacks deposit, and goes on only when it passed.
Poll ==
    /\ Op("poll")
    /\ LET s == StepNames[mem.done]
           named == (Governed => s \in mem.proposals) /\ Recorded(<<s, "cosmos">>)
       IN  IF ~named \/ s \in hub.rejected
           THEN Refuse
           ELSE IF s \in hub.short
           THEN Pause /\ UNCHANGED setting
           ELSE /\ s \notin hub.voting
                /\ Advance
                /\ UNCHANGED <<files, mem, outside, setting>>

\* The deployed contracts' addresses, checked against the pinned predictions.
SaveContracts ==
    /\ Op("saveContracts")
    /\ IF config.plan /\ journal.predictions /\ hub.source # None
       THEN /\ config' = [config EXCEPT !.cosmos = TRUE]
            /\ Advance
            /\ UNCHANGED <<disk, mem, journal, outside, setting>>
       ELSE Refuse

\* The prover's current set, for the operator to approve.
QuerySet ==
    /\ Op("query")
    /\ run' = [run EXCEPT !.op = @ + 1, !.seen = hub.set]
    /\ UNCHANGED <<files, mem, outside, setting>>

\* Before the proxy is built the set is read again; once its constructor is
\* signed, or when nothing changed, there is nothing to approve.
Refresh ==
    /\ Op("refresh")
    /\ run' = [run EXCEPT !.op = @ + 1,
                          !.seen = IF Recorded(<<Step, "gateway proxy">>) \/ hub.set = journal.signers
                                   THEN 0 ELSE hub.set]
    /\ UNCHANGED <<files, mem, outside, setting>>

Approve ==
    /\ Op("approve")
    /\ IF run.seen # 0 /\ Recorded(<<"AxelarGateway", "gateway proxy">>)
       THEN Refuse
       ELSE /\ journal' = [journal EXCEPT !.signers = IF run.seen = 0 THEN @ ELSE run.seen]
            /\ run' = [run EXCEPT !.op = @ + 1, !.seen = 0]
            /\ UNCHANGED <<disk, mem, config, outside, setting>>

\* The implementation's nonce, from the journal or the chain, must be the one
\* the proxy's address was predicted from.
PinNonce ==
    /\ Op("nonce")
    /\ LET k == <<Step, "gateway implementation">>
           n == IF Recorded(k) THEN journal.acts[k].nonce ELSE chain.nonce[Signer(Step)]
       IN  IF journal.signers # 0 /\ <<"gateway proxy", Signer(Step), n + 1>> = mem.predicted
           THEN /\ run' = [run EXCEPT !.op = @ + 1, !.pin = n]
                /\ UNCHANGED <<files, mem, outside, setting>>
           ELSE Refuse

CheckStep ==
    /\ Op("post")
    /\ IF ~Holds(mem.done + 1)
       THEN Refuse
       ELSE IF Rotated(mem.done + 1)
       THEN AcceptRotation
       ELSE Advance /\ UNCHANGED <<files, mem, outside, setting>>

CaptureEvidence ==
    /\ Op("capture")
    /\ IF Compatible(Affected)
       THEN /\ journal' = [journal EXCEPT !.evidence = [n \in Configured |-> Observe(n)]]
            /\ Advance
            /\ UNCHANGED <<disk, mem, config, outside, setting>>
       ELSE Refuse

MarkCompleted ==
    /\ Op("mark")
    /\ mem' = [mem EXCEPT !.done = @ + 1]
    /\ disk' = mem'
    /\ run' = [run EXCEPT !.op = 1, !.pin = 0,
                          !.pc = IF mem'.done = Len(StepNames) THEN "final" ELSE "steps"]
    /\ UNCHANGED <<config, journal, outside, setting>>

-----------------------------------------------------------------------------
(* Faults, and what the operator and others do.                               *)

Running == run.pc \notin {"new", "off", "complete", "refused"}

\* The process dies: what it had not saved is lost.
Crash ==
    /\ Fault
    /\ Running
    /\ run' = Idle(IF run.pc = "init" THEN "new" ELSE "off")
    /\ mem' = disk
    /\ UNCHANGED <<world, files, outside, arts, spoiled>>

\* The run asks before it signs, approves a set, and accepts a rotation or an
\* upgrade of the protocol.
Asked ==
    \/ (Op("send") \/ Op("cosmos")) /\ Needed(Arg) /\ ~Recorded(Key)
    \/ Op("approve") /\ run.seen # 0
    \/ run.pc \in {"checks", "final"} /\ Rotated(mem.done)
    \/ Op("post") /\ Rotated(mem.done + 1)
    \/ run.pc = "protocols" /\ journal.protocol \notin {0, run.seen}

Decline ==
    /\ Fault
    /\ Asked
    /\ Pause
    /\ UNCHANGED <<world, arts, spoiled>>

\* Another tool sends a transaction from one of the deployment's accounts.
Foreign(a) ==
    /\ Fault
    /\ chain' = [chain EXCEPT !.nonce[a] = @ + 1]
    /\ spoiled' = (\/ spoiled
                   \/ \E k \in DOMAIN journal.acts \ Landed :
                            k[2] # "cosmos" /\ journal.acts[k].req.from = a
                   \/ /\ a = world.acct["gateway"]
                      /\ mem.predicted # None
                      /\ mem.predicted \notin DOMAIN chain.code)
    /\ UNCHANGED <<world, files, mem, hub, log, run, arts>>

\* The minimum deposit is raised while a proposal is on its way: it will wait for
\* the rest before it is voted on.
RaiseDeposit(s) ==
    /\ Fault
    /\ s \in Proposals /\ Recorded(<<s, "cosmos">>) /\ <<s, "cosmos">> \notin Landed
    /\ hub' = [hub EXCEPT !.short = @ \cup {s}]
    /\ UNCHANGED <<world, files, mem, chain, log, run, arts, spoiled>>

\* A proposal is voted down, fails when it is executed, or its deposit is never
\* completed; the deposit is returned or burnt.
Reject(s) ==
    /\ Fault
    /\ s \in hub.voting
    /\ \E back \in {0, Deposit} :
            hub' = [hub EXCEPT !.voting = @ \ {s}, !.short = @ \ {s}, !.rejected = @ \cup {s},
                               !.purse["proposer"] = @ + back]
    /\ UNCHANGED <<world, files, mem, chain, log, run, arts, spoiled>>

\* The prover's admin replaces its verifier set.
RotateProver ==
    /\ Fault
    /\ hub.set # 0
    /\ hub' = [hub EXCEPT !.set = @ + 1]
    /\ UNCHANGED <<world, files, mem, chain, log, run, arts, spoiled>>

\* A rotation reaches the deployed gateway.
RotateGateway ==
    /\ Fault
    /\ <<"AxelarGateway", "gateway proxy">> \in Landed
    /\ chain' = [chain EXCEPT !.epoch = @ + 1]
    /\ UNCHANGED <<world, files, mem, hub, log, run, arts, spoiled>>

\* Governance migrates a protocol contract.
UpgradeProtocol ==
    /\ Fault
    /\ hub' = [hub EXCEPT !.protocol = @ + 1]
    /\ UNCHANGED <<world, files, mem, chain, log, run, arts, spoiled>>

\* The contract checkout is rebuilt, and put back when the run asks for it.
EditArtifacts ==
    /\ Fault
    /\ arts = 1
    /\ arts' = 2
    /\ UNCHANGED <<world, files, mem, outside, run, spoiled>>

Restore ==
    /\ run.pc = "off" /\ ~SameInputs
    /\ arts' = journal.art
    /\ UNCHANGED <<world, files, mem, outside, run, faults, spoiled>>

-----------------------------------------------------------------------------
(* The specification.                                                        *)

\* The accounts hold what the first run's preflight asks for, and no more.
Init ==
    /\ world \in Worlds
    /\ disk = [exists |-> FALSE, done |-> 0, stamped |-> FALSE, predicted |-> None,
               proposals |-> {}, saved |-> <<>>]
    /\ mem = disk
    /\ config = [chain |-> FALSE, source |-> None, plan |-> FALSE, cosmos |-> FALSE,
                 at |-> [n \in Contracts |-> None], owner |-> [n \in Contracts |-> ""]]
    /\ journal = [art |-> 0, pinned |-> FALSE, acts |-> <<>>, signers |-> 0,
                  predictions |-> FALSE, evidence |-> <<>>, rotation |-> 1, protocol |-> 0]
    /\ chain = [code |-> <<>>, nonce |-> [a \in Range(world.acct) |-> 1],
                operators |-> {}, epoch |-> 1]
    /\ hub = [source |-> None, edge |-> None, voting |-> {}, short |-> {}, rejected |-> {},
              rewards |-> 0, set |-> 0, eligible |-> FALSE, protocol |-> 1,
              purse |-> [a \in {"proposer", world.funder} |->
                            (IF a = "proposer" THEN RemainingDeposit ELSE 0)
                              + (IF a = world.funder THEN PendingRewards ELSE 0)]]
    /\ log = <<>>
    /\ run = Idle("new")
    /\ arts = 1
    /\ faults = 0
    /\ spoiled = FALSE

Operation ==
    \/ Probe \/ Skip \/ RecordEvm \/ RecordCosmos \/ Settle
    \/ WriteConfig \/ PatchOwner \/ Save \/ Predict \/ EditConfig
    \/ CheckAvailable \/ SavePlan \/ PinPredictions \/ Poll \/ SaveContracts
    \/ QuerySet \/ Refresh \/ Approve \/ PinNonce
    \/ CheckStep \/ CaptureEvidence \/ MarkCompleted

Program ==
    \/ InitChain \/ InitState
    \/ \E activate \in BOOLEAN : Start(activate)
    \/ Commit \/ Stamp \/ ApproveProtocols \/ Reconcile \/ Check \/ Final
    \/ TakeOver \/ WaitForActivation \/ WaitForVerifiers \/ Operation

Environment == Eligible \/ Restore \/ \E s \in Steps : Pass(s) \/ TopUp(s)

Faults ==
    \/ Crash \/ Decline \/ RotateProver \/ RotateGateway \/ UpgradeProtocol \/ EditArtifacts
    \/ \E a \in DOMAIN chain.nonce : Foreign(a)
    \/ \E s \in Steps : RaiseDeposit(s) \/ Reject(s)

\* No process runs, or one was started that its preflight ended.
Stopped == run.pc \in {"off", "complete", "refused"} /\ UNCHANGED vars

Next == Program \/ Environment \/ Faults \/ Stopped

\* The operator continues a stopped deployment, a proposal's deposit is completed
\* and its vote ends (passed, unless Reject came first), and verifiers register.
Fairness == WF_vars(Program) /\ WF_vars(Environment)

Spec == Init /\ [][Next]_vars /\ Fairness

-----------------------------------------------------------------------------
(* Properties.                                                               *)

\* The gateway is only ever deployed at the address that was predicted before it,
\* written to the configuration and registered on Axelar, although another tool may use
\* its deployer's account in between (verification::gateway_nonce); and its first
\* signers are the set the operator approved last, however the prover's set changes and
\* the run is interrupted between the approval and the proxy
\* (verification::refresh_before_gateway, verifier_set::save_decision).
GatewayIsTheApproved ==
    \A a \in DOMAIN chain.code :
        a[1] = "gateway proxy" =>
            /\ a = config.source /\ hub.source = a
            /\ chain.code[a].args[2] = journal.signers

\* Every contract comes from the artifacts the deployment's fingerprint was taken
\* of, also when the checkout is rebuilt between two runs (inputs::prepare_at,
\* Session::load).
BuildMatchesFingerprint ==
    \A a \in DOMAIN chain.code : chain.code[a].art = journal.art

\* No crash, refusal to approve, missing deposit, rotation, upgrade or rebuild leaves a
\* deployment that cannot be continued: a check fails for good only after a foreign
\* transaction took a nonce the deployment had fixed, or at the wait for a proposal that
\* was rejected or failed, which no run replaces (governance::check); and a stopped run
\* passes the preflight of the next one, also when that proposal's deposit was burnt.
NeverStuck ==
    /\ run.pc = "refused" =>
            \/ spoiled
            \/ disk.done > 0 /\ StepNames[disk.done] \in hub.rejected
    /\ run.pc = "off" => Preflight

\* A completed deployment is wired together: the owner is the plan's, in the
\* configuration too; the gas service and ITS point at the contracts the
\* configuration names; Axelar routes to this gateway and this ITS.
CompleteIsWired ==
    run.pc = "complete" =>
        LET its == Implementation("InterchainTokenService")
        IN  /\ FinalOwners
            /\ \A n \in Range(Transfers) : config.owner[n] = world.owner[n]
            /\ chain.code[Implementation("AxelarGasService")].args = <<config.at["Operators"]>>
            /\ chain.code[its].args[1] = config.at["AxelarGateway"]
            /\ chain.code[its].args[2] = config.at["AxelarGasService"]
            /\ chain.code[its].args[3] = config.at["InterchainTokenFactory"]
            /\ hub.source = config.at["AxelarGateway"]
            /\ hub.edge = config.at["InterchainTokenService"]
            /\ hub.rewards = 2 * Reward /\ hub.voting = {}

Abs == INSTANCE Deployment
        WITH Plan <- Transactions, Optional <- Skippable, done <- disk.done, history <- log

\* The resumable run implements the plain deployment: whatever is lost in a crash,
\* no transaction executes twice or before the ones it depends on, and a step is
\* completed only after its transactions.
Implements == Abs!PlanSpec

\* An operator who keeps continuing the deployment completes it, whatever is
\* interrupted, declined, left without deposit, rotated or rebuilt on the way, unless a
\* foreign transaction took one of its nonces or one of its proposals was rejected or
\* failed (governance::check ends every run at such a proposal).
DeploymentCompletes == <>(spoiled \/ hub.rejected # {} \/ run.pc = "complete")
=============================================================================
