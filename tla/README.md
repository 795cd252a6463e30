# Verification of axe

A TLA+ development kept beside the axe command-line tool. It models the parts of
axe where a mistake costs money or a deployment and where tests reach little: what
is signed, recorded, broadcast, retried and reported while processes crash, chains
reorganize, nodes lag, clocks run and other programs act on the same accounts.

Paths below are relative to the repository (`src/commands/...`); PROJECT.json maps
every definition to its lines.

## The system and its parts

axe is one binary with several commands. They share clients for the chains, a data
directory, and a small number of state files.

| Part | Where | State it keeps | Here |
|---|---|---|---|
| Hardened deployment, EVM transactions | `commands/deploy/hardened/` | journal.json, state.json, run.lock | `EvmAccount`, `HardenedEvm` |
| Hardened deployment, Cosmos transactions and governance waits | `commands/deploy/hardened/cosmos*`, `governance.rs` | the same files | `HardenedCosmos` |
| Hardened deployment: inputs, preflight, approvals, postconditions, evidence | `commands/deploy/hardened/` | the same files | `DeploySteps` |
| Deployment steps and their state | `commands/deploy.rs`, `state.rs`, `steps/` | state.json, the chain's configuration | `DeployPlan`, `DeploySteps`, `Deployment` |
| ITS handoff to AxelarServiceGovernance | `commands/its_asg/` | its own journal | not modelled |
| `axe propose`: submission and monitoring | `commands/propose.rs`, `commands/propose/` | markers and claims in the data directory, one lock per network | `Propose` |
| `axe propose`: relay to the edge chains | `commands/propose/relay*.rs` | none, reruns read the chains | `ProposeRelay`, `BlockSearch` |
| `axe propose`: targets, funding, review | `commands/propose/` | none, refuses or goes on | not modelled |
| Load test: verification engine | `commands/load_test/verification/` | the memory of one run | `VerifyRoutes`, `VerifyPipeline` |
| Load test: streaming session, scheduler | `commands/load_test/scheduling/` | the memory of one run | its tasks, channel and flag in `VerifyPipeline`; keys and nonces in `LoadSend` |
| Load test: routes, receivers, tokens, remote deployments | `commands/load_test/` | receiver and token caches, the overlay | `LoadPlan`, `RemoteDeploy`, `LoadSetup` |
| Load test: sizing, wallets, funding, senders, verdict | `commands/load_test/` | derived wallets | `LoadPipelines`, `LoadSend` |
| MCP server: spend policy, run slot, detached runs | `mcp/` | spend-ledger.json, a lock file per machine | `McpSpend` |
| Intents: how a flow counts what it sends | `commands/intents/` | the memory of one run | `McpSpend` |
| Intents: quotes, execution, reads | `commands/intents/` | a wallet lock | not modelled |
| Robust EVM sending, finality, RPC fallback | `evm.rs`, `retry.rs` | none | one call in `ProposeRelay`, the rest not modelled |
| Graceful shutdown | `shutdown.rs` | a flag | its effect on senders, in `VerifyPipeline` |
| Chain clients, decoding, monitoring, configuration, display | `cosmos/`, `solana/`, `stellar/`, `sui/`, `xrpl/`, `commands/decode*`, ... | none | not modelled: requests, encodings and output |

PROJECT.json lists the same parts with their files, and the hazards of each at the
line where they bite.

How they interact: a deployment and a proposal both end up as transactions of one
account, on an EVM chain or on the hub, and both are resumed from files after a
crash. A load test settles on its receivers and token, funds its keys, submits, and
hands what it submitted to the verifier through a channel. The MCP
server calls the intents flows, the load test and express execution, and counts the
transactions they report. The chains are external in every module: they are modelled
by what the code asks of them, and a read answers what some node could answer.

## How the modules are laid out

| Module | Contents |
|---|---|
| `EvmAccount` | one account on an EVM chain: history, head, finality, forks, mempool |
| `HardenedEvm` | the deployment's journal, state file and run, over `EvmAccount` |
| `HardenedEvmProofs` | proofs about `HardenedEvm` |
| `HardenedCosmos`, `HardenedCosmosProofs` | the same for Cosmos transactions, proposals and waits, and proofs |
| `Deployment` | what a deployment promises, as an abstract specification |
| `DeployPlan` | the twenty steps and the operations of each handler |
| `DeploySteps` | a deployment from its first run to its last over files, two chains and faults; implements `Deployment` |
| `VerifyRoutes` | the routes a load test can verify, from the engine's entry points |
| `VerifyPipeline` | senders, channel, verifier, chains and clock of a load test |
| `PipelineProofs` | proofs about `VerifyPipeline` and `Deployment` |
| `LoadPlan` | the routes a load test supports and the steps of each up to its first submission |
| `RemoteDeploy` | the remote deployment of a token and the three loops that wait for it |
| `LoadSetup`, `LoadSetupProofs` | receivers, tokens and their caches over several runs, on `LoadPlan` and `RemoteDeploy`, and proofs |
| `LoadPipelines` | the schedule, nonces, budgets and confirmation rule of each route |
| `LoadSend`, `LoadSendProofs` | funding, submission and verdict of a run, on `LoadPipelines`, and proofs |
| `Propose` | terminals that submit proposals |
| `ProposeRelay` | the relay of a passed proposal, with everybody who interferes |
| `BlockSearch` | the two searches for a block by its time |
| `ProposeProofs` | proofs about `Propose`, `ProposeRelay` and `BlockSearch` |
| `McpSpend`, `McpSpendProofs` | servers, spending calls, ledger and slot, and proofs |
| `FunctionSums` | lemmas about finite sums and greatest elements, for the budgets |
| `MC*` with `.cfg` files | the instances TLC checks |

A definition whose name is another's with a suffix (`DraftNoncesUnpinned`,
`CachedOnStellar_Unchecked`, `SweepKeepsFailed`) is that definition with a plausible mistake
in it. Nothing uses it: it is there to substitute for the right one and see the
property it belongs to fail. PROJECT.json pairs each property with one.

## The hardened deployment: EVM (`EvmAccount`, `HardenedEvm`)

**State.** `actions`, `attempts`, `confirms`, `policy` are journal.json; `present` says
whether the file is there. `done` (completed steps), `marked` (the saved fingerprint)
and `predicted` (the gateway's nonce) are state.json. Each file is replaced atomically
by `storage.rs`, which is why it is one variable or group. The rest (`pc`, `mode`,
`todo`, `saved`, `receipt`, `pos`, `opt`) is the memory of the one run that run.lock
admits; a crash forgets it. `EvmAccount` has the account's history indexed by nonce, a
head, a finalized height, the current fork and the mempool. A block is its height and
fork. A read picks the height `h` at which the answering node stands, so two reads in a
row may go backwards.

**Actions.** `Start` and `Open` are `runner.rs` and `session.rs` up to the
reconciliation; `ReconcileNext` to `Retire` are `evm_recovery::resume`,
`confirmations.rs`, the fee replacement and `recovery.rs`; `StepResume`, `StepSign`,
`Sign`, `Record` are `evm::send`; `CompleteStep` marks and saves the step, or reads the
gateway's nonce. Every network read and every write is a step of its own, so a crash or
a reorganization falls between any two. Errors, refused prompts and pauses return
without a write and are `GiveUp`. `ChainNext` includes, mines, finalizes, reorganizes
above the finalized block, forgets a pooled transaction, and lets another program use
the account.

**Abstractions.** One signer (nonces, budget and journal checks are per sender in the
code). Signed transactions are [key, nonce, cost]; a replacement is the EIP-1559 form,
twice the larger of the old and the market fee; the gas limit of a retry is part of its
cost. Restoring a stale backup of the journal is not modelled: only losing it and
getting back the contents it had. Postconditions, evidence and preflight checks are in
`DeploySteps`.

**What is checked.** `AtMostOnce`, `SentIsJournaled`, `SpendWithinBudget`,
`SignedIsKept`, `NonceIsKept`, `GatewayAtPrediction`, `CompletedIsFinal`; each is stated
above its definition. Two instances:

- `evm_recovery`: two one-transaction steps whose journal order is the reverse of
  their execution order, one-confirmation policy, one reorganization, a budget of 3
  that allows one of the two transactions to be replaced (at 2 instead of 1) but not
  both. Two blocks suffice to include, reorganize and include again.
- `evm_gateway`: the prediction step, the checkpoint and the two pinned CREATEs under
  the finalized policy, with one reorganization, one transaction of another program and
  one forgotten transaction. Three blocks, because two CREATEs and a foreign
  transaction must be able to compete for them.

The bounds `MaxHead`, `MaxReorgs`, `MaxForeign`, `MaxDrops` bound the chain in its
guards. The proofs do not use them.

## The hardened deployment: Cosmos (`HardenedCosmos`)

Same shape, for governance submissions, reward payments and waits. Blocks are final on
this chain, so nothing reorganizes; but an LCD may lag behind (`Views`), may have pruned
an old result, and a block may contain a transaction its ante handler rejected, which
consumes no sequence. `Start` to `Retire` are `cosmos_recovery.rs`, `cosmos_fees.rs` and
`recovery.rs`; `StepResume` to `PauseSend` are `cosmos::send` and its callers;
`CompleteWait` is `governance::check`. `validate_cosmos_retry` looks at the last attempt
only, which is the same as all of them because sequences grow. A set of competing
hashes has at most one cached result.

`cosmos_governance`: submission, wait, payment; three blocks, one foreign transaction,
one inclusion that the ante handler rejects, fees 1 or (replaced) 2, budget 3.

`ExecutedOnce` exempts an action that was in a block which the ante handler rejected.
`retry_failed` (recovery.rs:70) takes a cached failure and any advance of the sequence as
proof that the failure consumed it, so after such a rejection and a foreign transaction
it retires an action whose bytes the chain may still accept. docs/hardened-deploy.md:488
says: "An ante-handler failure that did not consume the sequence requires account
reconciliation; it is not retired automatically."

## The deployment as a whole (`DeployPlan`, `DeploySteps`, `Deployment`)

`DeployPlan` gives each of the twenty steps as the sequence of operations of its handler:
one transaction, one file written, or one reading. `DeploySteps` runs them.

**State.** `disk` is state.json, `mem` the running process's copy of it, `config` the
shared configuration, `journal` the journal with the pinned inputs, the approved signers,
the predictions and the evidence; `chain` and `hub` are the two chains; `run` the
process; `log` the transactions in the order they were executed (a history variable).
A contract is its address and what created it: the artifacts' version, the
constructor's arguments and its owner. An address is the label, the account and the
nonce, so a CREATE at the wrong nonce is at another address.

**Actions.** `InitChain` and `InitState` are `axe init`; `Start` to `Final` the runner's
preflight, reconciliation, checks and final verification; the disjuncts of `Operation`
one operation each. `Pass` is a vote that passes, `TopUp` a completed deposit, `Eligible`
the verifiers' registration, `Restore` the operator putting back the checkout. `Faults` are
a crash, a declined prompt, a failed probe, a pending transaction at the prediction, a
rotation at the prover or at the gateway, a protocol upgrade, a rebuilt checkout, a minimum
deposit raised while a proposal is on its way (`RaiseDeposit`), a proposal that is
rejected, fails or lapses (`Reject`), and a foreign transaction from one of the
deployment's accounts. `spoiled` remembers that the last took a nonce the deployment had
fixed.

`Poll` is `governance::check`: it waits while a proposal is voted on, pauses while it lacks
deposit, goes on when it passed, and refuses for good otherwise. docs/hardened-deploy.md:323
says that such a proposal is not replaced, so `NeverStuck` and `DeploymentCompletes` except
it, beside a nonce that a foreign transaction took.

**Abstractions.** A journaled transaction is recorded and then lands once its nonce is
the account's; receipts, fees, finality and replacement are `HardenedEvm`'s and
`HardenedCosmos`'s subject. Bytecode is compared as the artifacts' version. Gas
estimates, previews and encodings are left out. A raised minimum deposit delays the proposal
it meets; that later ones need more is left out (the operator funds the account).

**Refinement.** `Deployment` has two variables, how many steps are completed and which
transactions were executed, and two actions: the next transaction of the current step, and
its completion. `Implements` maps `disk.done` and `log` to them; `Transactions` and
`Skippable` are computed from `DeployPlan`. Every write, crash and rerun that is neither is
a stutter.

`deploy_steps`: a devnet with one key for every role, a testnet whose gateway has a key
of its own, a mainnet with four keys and a separate funder of the rewards; two faults in
any combination and at any point. Two are the smallest number at which a fault can fall
into the repair of another (a rotation while a crashed approval is resumed). Deposit 2
and reward 1 make the funding checks tell deposits and rewards apart.

## axe propose: submission (`Propose`)

Terminals share a data directory. `markers` and `claims` are the `.pending` files,
`lock` the network's lock; `sent`, `pool`, `history`, `passed`, `failed` are the hub. A
run looks through the history that its LCD shows (`Find`), checks and writes the plan's
marker, checks again, claims each call, broadcasts, and follows the vote. It may stop
anywhere and leaves its files. A plan is a set of calls of one proposal type; a check
that only refuses is `GiveUp`; a proposal does not leave the history.

`propose_guard`: two terminals, two calls, two plans that share a call, two broadcasts.
That is enough for the hard case: one batch lost or late while another batch with the
same call is asked for. `NoSilentDuplicate` and `OneRunSubmits` hold and are proved.

## axe propose: relay (`ProposeRelay`, `BlockSearch`)

`gateway` and `asg` are what the edge chain holds for each call, `due` the two clocks
that matter for a time-lock (the chain's and the host's), `callable` whether the target
accepts the call now. `Locate` to `Land` are the reads, proofs, sends and inclusions of
`relay.rs` and `relay_consensus.rs`, in order; an estimate is made at the send
and validity decided at `Land`. Axelar's relayers and other terminals may approve, consume
and execute in between, the operator may cancel, and the target may change its mind.
There is one governance message per call.

`relay_resume`: three calls that cover both routes, both proposal types and the missing
operator key, one failure, one change of a target. Reruns complete the relay and never
replay a settled call.

`AcceptedDoneIsSettled` says of a call whose target has not stopped accepting it that
what the relay reports done is settled on the chain. For other targets it is not so:
`broadcast_and_log` (evm.rs:1147) does not look at the receipt's status, so an execution
that reverts is taken for done (relay.rs:431), and its chain is not among those "still
outstanding for the rerun" (commands/propose.rs:210).

`BlockSearch` is the arithmetic of `first_block_at` and `execution_height`: a window
widened by doubling strides and then bisected, with the saturating subtraction and the
different lower ends of the two. `block_search` checks every non-decreasing assignment
of the times 0 to 2 to eleven blocks, every latest block and every wanted time, with a
first stride of 1 so that several doublings fit; the code's is 64.

## The load test's verification (`VerifyRoutes`, `VerifyPipeline`)

`VerifyRoutes` lists what each entry point of `verification/engine.rs` fixes: whether
messages pass the ITS hub, whether votes and routing are checked, the adapter that reads
the destination, and whether verification runs while sending goes on. `VerifyPipeline`
has the senders (`Launch`, `Confirm`, `Reject`, `Interrupt`, `FinishSending`, `Panic`,
`DropSession`), the channel and the flag, the verifier's poll (`Drain`, `Load`, `Sweep`,
`Gate`, `Check`, `ReadApproved`, `ReadExecuted`, `Fail`, `Pace`), its `Finalize` and
`Report`, the chains (`Advance`, `Revert`) and the clock (`Elapse`). Each adapter's
decision is an operator named after it (`EvmLegacyStatus`, `ItsXrplStatus`, ...). Draining
the channel and loading the flag are two steps, as are reading approvals and reading
executions. Message ids, payload hashes, latencies and display are left out.

- `verify`: two transactions on every adapter. Votes and streaming do not depend on
  the adapter and are followed on one direct and one hub route. Two transactions are
  enough for one to finish, fail or arrive while the other is polled.
- `verify_race` (violation): a submission forwarded between the draining of the channel
  and the loading of `send_done` is left in the channel, and the finished verifier never
  counts it.

`SucceededIsExecuted` claims less for the routes between Amplifier EVM chains: a
transaction reported executed has been routed. Their adapter (destination.rs:127) takes
an unapproved message for an executed one. The comment at verification/engine.rs:490
calls this sound because a transaction "only reaches Approved after `routed`"; but
routed comes before approved, so the message may simply not have been approved yet.

Deadlock is not checked in `verify`: once the report is made nothing is left to do.

## The load test before its first submission (`LoadPlan`, `RemoteDeploy`, `LoadSetup`)

`LoadPlan` lists the supported routes and, for each, the steps of its `run` function in
order. `LoadSetup` gives the steps their effects over several runs on one pair of
chains. `receivers`, `overlay` and `cached` are the receiver contracts of a GMP run and
the two places where they are recorded; `itsCache`, `token`, `origin` and `message` the
interchain token, the cache files by the name each is read or saved under, and the
remote-deploy message to wait for; `remote` how far each token's deployment has come.
A run may fail or die between any two steps, and the operator starts over; gateways are
replaced, deployments revert, reads come back empty, the overlay may not parse. A run is a
burst or sustained where its route looks at the mode.
`RemoteDeploy` has the relaying of the deployment message and the polls of the three
waits (EVM, Stellar, Solana) as they are in its_deploy.rs.

`load_setup`: all supported routes, three runs, three receivers, three tokens of which
one may be the operator's. Three runs let a run meet what one left behind after
another had already repaired it. `NotFoundLimit` is 2 where the code's limit is larger;
what matters is that missing accounts end a wait. `Attempts` is 2 where the code reads an
empty answer six times: enough for one empty read to be followed by a good one.

`RefusedBeforeSpending` is about every check of every route, and its `LateChecks` are the
ones the code makes when the run may have paid. The payload is decoded after the keys were
funded (gmp.rs:650, sol_sender.rs:144) or after a receiver was deployed (gmp.rs:1173,
evm_sender.rs:181); message routes to EVM look at the second wallet, and two of them at the
second chain's contracts, after the first side's transactions; its_xrpl_to_evm reads the
multisig's address and three token routes their recipient after the setup.

`LiveReceiverNotRedeployed` has the search read by read (`EmptyRead`, `ReuseReceiver`,
`SkipCandidate`): a live receiver is given up only after all the attempts of
`get_code_with_retry` came back empty, which the code accepts, or when the overlay that
names it does not parse; a failed read ends the run instead.

`TokenHasArrived` says what each wait proves, which is not the same everywhere. On
Amplifier EVM and Solana destinations a finished wait proves that the deployment was
routed: `wait_for_its_remote_deploy` takes an unapproved message for an executed one
(its_deploy.rs:250), although the comment at its_deploy.rs:305 describes it as executed.
From EVM to EVM or Solana a cached token is not looked up at the destination at all,
and the cache is written before the wait.

## The load test's submissions (`LoadPipelines`, `LoadSend`)

`LoadPipelines` has what each route's arguments decide: plan, key of every submission,
nonce rule, budgets in gas and tokens, what counts as confirmed, how it is verified.
`LoadSend` executes it: `ReadBalances`, `SkipKey`, `Transfer` and `Approve` fund the keys,
one transfer at a time; `Rerun` starts a run that failed there again; `Fire`, `Lands`,
`Fails`, `LandsLate`, `GivesUp`, `Panics` and `Interrupt` are the submissions, in any
order the burst window, the serial loop or the sustained schedule allows; `Report` is the
verification and `finish_report`. It gives each confirmed submission any outcome that
`VerifyPipeline` can: on message routes to EVM that includes one which was counted as
executed and is merely routed (`TakesRoutedForExecuted`, see above), and
`GreenMeansExecuted` claims no more there.

`Transfer` credits the key where the code waits for the transfer (EVM receipts, Solana
confirmations, Stellar results). Where it does not (`AcceptedEnough`: the faucets' answer,
and XRPL's provisional result, xrpl/rpc.rs:207) the transfer may be taken for made and land
later or never, during the run or a later one. On Hedera two kinds of EVM run use the main wallet instead of
derived keys (`AsksForHedera`); the others do not ask.

`load_send`: single keys, bursts wider than the window of two, a last cycle cut short,
keys that fire every second; routes that agree in everything `LoadSend` looks at are
represented by one of them (`DistinctCases`). Amounts are small numbers in the order of
the code's (a key's minimum is below its target; a command costs more than the
execution fee); a fixed share is good for 2 transfers instead of 100, and the minimum of a
key for the fees of 2 submissions, so that the longest plan asks for more than either.

`KeysCanPay` counts, for each key, the submissions its budget was made for (`GasMadeFor`,
`ShareMadeFor`) and says that it holds what those cost. A faucet's gift is made for none in
particular, nor is Solana's budget for token transfers or bursts; Solana's for a sustained
run of messages is made for the whole cycles, because sol_sender.rs:275 rounds the fires of
a key down (keypairs.rs:160: the "trigger must match the actual requirement"); EVM to Sui
pays for two transfers whatever the plan; and where a budget leaves out the fees, they come
out of the fixed minimum. A plan that goes beyond these starves some of its keys, and the
property does not say otherwise. A key on XRPL may have to wait for a payment that was
accepted (`Coming`).

## The MCP server's spending (`McpSpend`)

Servers of one machine share the ledger file and the slot. `count` is each server's
`SpendPolicy`, `ledger` the file, `slot` the call that holds the lock. A call reserves
(`reserve`: count, then file), takes the slot and starts or is refused, runs its flow,
and releases what the flow says it did not send (`refund`). The flows are modelled as far
as they count: passes and legs of send, roundtrip, sweep and traffic, the admission of
stress deposits, and the number each reports. A server may be killed at any point, or
lose its client, and then waits for its detached runs (`finish_in_flight_runs`).

`mcp_spend`: two servers, two calls of any tool, two starts in all, one trouble (a failed
ledger write, a failed leg or an uncertain broadcast), three transactions per run and
four in all, so that two full runs do not fit and a refund matters. Servers and calls
are interchangeable, hence the symmetry. Deadlock is not checked: when every call is
over, or the ledger cannot be read, nothing more happens.

`BudgetHolds` carries two exceptions that the code has, as ghost variables: `uncounted` (deposits that reached a chain and that the flow will not count)
and `together` (two servers were up at the same time).

Not modelled: approvals (an ERC-20 leg sends one before its deposit, execution.rs:310) and
load-test funding transactions, which the policy does not count; a policy without a total; changing the limits between restarts; the report files
and `run_report`/`list_runs`.

## Runs

| Run | Result | Distinct states |
|---|---|---|
| `evm_recovery` | passes | 431,045 |
| `evm_gateway` | passes | 426,280 |
| `cosmos_governance` | passes | 2,298,967 |
| `deploy_steps` | passes, with refinement and liveness | 240,908 |
| `verify` | passes, with liveness | 753,579 |
| `verify_race` | violation of `ConfirmedIsVerified` | |
| `load_setup` | passes | 1,676,827 |
| `load_send` | passes | 1,025,287 |
| `propose_guard` | passes | 278,453 |
| `relay_resume` | passes, with liveness | 325,038 |
| `block_search` | passes, with liveness | 25,272 |
| `mcp_spend` | passes | 845,921 |

To repeat one: `tlc -config MCHardenedEvm_recovery.cfg MCHardenedEvm`. To check proofs:
`tlapm HardenedEvmProofs.tla`.

## Fairness

- `verify`: weak fairness of the verifier (a task that tokio polls), of the senders'
  `Progress` (a submission ends, the session sets its flag or is dropped) and of the
  clock. None of the chains: whatever they do, the inactivity budget ends the run.
- `relay_resume`: weak fairness of the run's steps including the rerun (the user
  reruns the command), of the validators' approval on consensus chains, which axe only
  waits for, and of the clocks. Failures are bounded; a target that refuses for ever is
  excluded by the property itself.
- `block_search`: weak fairness of the loop.
- `deploy_steps`: weak fairness of the program, its restart included (the operator
  continues a stopped deployment), and of the environment it waits for: a vote that ends, a
  deposit that is completed, verifiers that register, a checkout put back. None of the
  faults, which are bounded. That a vote ends does not mean that it passes: `Reject` may
  come first, and `DeploymentCompletes` excepts a rejected proposal.

The other properties are safety and assume none.

## Proofs

TLAPS checks every theorem for all values of the constants that satisfy the named
assumptions of the modules (`StepsAssumption`, `NumbersAssumption`, `CosmosConstants`,
`PlansAssumption`, `BatchAssumption`, `StrideAssumption`, `RoutesAssumption`,
`SpendAssumption`, `PipelineAssumption`, `SendAssumption`, ...): any number of keys,
steps, terminals, calls, servers, transactions and blocks. An invariant is seldom
inductive as it stands; what it rests on is defined at the end of the component's module
(for `McpSpend`, `Propose`, `BlockSearch` and `LoadSetup` in the proof module).

**`HardenedEvm`.** `AtMostOnce` is not inductive: what makes a second execution
impossible is in the journal and in the run's memory. `AtMostOnceInv` adds

- `ChainOK`: an inclusion sits at its own nonce, and finality is below the head;
- `SentIsJournaled`: nothing is on the network that the journal does not know;
- `JournalOK`: one action per key, and every older attempt of a key either competes for
  the nonce of the current action or has a nonce that a failure of the same key
  finally consumed;
- `RunOK`: what the run resumes is in the journal, the receipt it holds is one of the
  competing hashes, and what it is about to retire has failed in a finalized block.

Two inclusions of one key then have the same nonce, which a chain consumes once, or one
of them is at a nonce that a failure consumed. The types, `AtMostOnce` and
`SentIsJournaled` follow; from the same invariant the action properties `SignedIsKept` and
`NonceIsKept`, `GatewayAtPrediction` (with `PinInv`: nothing pinned is signed before the
prediction, which is made once), `CompletedIsFinal` (with `CompletedInv`: the keys the
pending step has passed have succeeded in finalized blocks) and `SpendWithinBudget` (with
`BudgetInv`: what is about to be journaled was added to what the journal can cost).

**`HardenedCosmos`.** `ExecutedOnceInv` has the same parts. Its `JournalOK` allows a third
kind of older attempt, one of a key whose bytes the ante handler rejected once: the exception in
`ExecutedOnce`. `FeesWithinBudget` follows with `BudgetInv`. `WaitedForPassed` is inductive
together with it: a completed wait has seen a recorded, successful submission of its own
key pass, and both the history and the votes only grow.

**Sums.** The budgets are sums over sets, and the prover has no induction over data.
`FunctionSums` argues by the smallest counterexample instead: natural numbers are well
founded, so a set of bad subsets has one of least cardinality, and taking one element
from it gives a smaller one. In this way it proves that the community modules' sum exists,
does not depend on the order of its terms, and what changing one of them does to it.

**`Propose`.** `NoSilentDuplicate` rests on: a run that decides holds the lock
(`LockHeld`); what was broadcast is still claimed unless `--new-proposal` took the claim
away (`SentIsClaimed`); a run that has claimed a call is the first to submit it
(`ClaimedIsFresh`); and all calls are claimed before the broadcast (`NothingLeft`).

**`ProposeRelay`.** `RelayInv` says that the ASG holds exactly the calls whose message was
consumed (`ConsumedIsHeld`), that a run which comes to a settled call gets no further than
its readings (`SettledEndsEarly`), that what the gateway answered stays so while others
act (`ReadsLast`), and that an estimated execution succeeds or finds the call settled while
the targets keep accepting (`EstimateHolds`). `SettledIsNotReplayed` and
`AcceptedDoneIsSettled` follow for every batch.

**`BlockSearch`.** The invariant says what the window is in each phase of each search
(`Widening`, `Lowering`, `Window`) and that it is one block wide at the end (`Narrow`).
`FindsTheFirst` and `FindsTheExecution` follow for every chain of non-decreasing times
and every stride; termination stays with TLC.

**`VerifyPipeline`.** `PipelineInv`: the verifier learns of a transaction once, after its
confirmation (`LearnedOnce`); timings and verdicts agree (`TimedAsJudged`); what a poll
checks has no verdict before the poll has drawn its conclusions (`DueIsActive`); and the
phase kept for a transaction, and the first of a poll's two readings, still say something
true of the message when the second reading comes (`PhaseIsReached`). `SucceededIsExecuted`,
`ReportIsComplete` and the action property `VerdictIsFinal` follow for any set of
transactions and every adapter.

**`LoadSetup`.** `SetupInv` holds for any set of the supported routes and any number of
runs. It rests on one fact about the code of the 27 runners, `RoutesOrdered`: in either mode
a route ends by sending, every check but its late ones comes before everything it pays for,
and an EVM source waits right after it resolved its token. With it:

- `SpentLate`: once a run has paid, only late checks lie ahead of it.
  `RefusedBeforeSpending` follows.
- `ReceiverInv`: what the overlay, the cache and the run name are receivers that exist,
  and the run's is live or its own reverted deployment (`LiveReceiverUsed`). `Search` says
  what a run knows of the candidates it has left behind: each is not live, was read empty
  `Attempts` times, or was in an overlay that does not parse. `LiveReceiverNotRedeployed`
  follows where the search ends in a deployment.
- `TokenInv`: the wait is never ahead of the message it follows (`WaitFollows`), a run
  resolves one token (`TokenOnce`), a run with a message has waited or has its wait ahead
  (`Waited`), and where the cache is trusted it names tokens that have arrived
  (`CachedHasArrived`). At the last step no wait lies ahead, so `TokenHasArrived` follows.

**`LoadSend`.** `SendInv` has a half for each part of a run.

- Funding: a transfer found necessary still fits when its turn comes, although the run
  failed and was started again in between (`TransfersFit`); a key that funding has left,
  or will still come to, has its threshold (`KeysFilled`) and its share (`SharesGiven`).
  `NoKeyOverfunded` follows.
- Submitting: a pinned nonce is at most the number of submissions the slot made before
  it, and an account has advanced by at least the submissions of its wallet that landed
  (`NoncesCovered`). When a submission finds a gap, fewer landed than were fired before
  it, so one of those failed: `FailuresStayWithTheirKey`. `GreenMeansExecuted` needs what
  was in flight to have no failure (`CausesKnown`).

`KeysCanPay` relates the two: `FiresBounded` shows that neither schedule gives a key more
submissions than `transactions_per_key`, in the sustained one because two of its fires are
a whole cycle apart (`DigitsUnique`, a fact about division and remainder). Nothing is
assumed of the amounts: for any fees, minimum and share, `BudgetPays` and `SharePays` show
that a filled key pays for every number of submissions its budget was made for. On XRPL a
filled key has its threshold or the promise of a transfer that brings it there (`Promised`,
kept until it lands by `PromiseKept`).

**`McpSpend`.** The invariant relates the counters of each kind of flow to its
reservation (`Counted`), says that a call that has not begun has sent nothing
(`Untouched`), and that one whose flow has begun holds the slot (`SlotHeld`).
`Exclusive`, `WithinReservation` and `DrainedExit` follow. `BudgetHolds` needs what the
policy keeps charged for each call (`Charge`): a flow's claim covers what it sent and
counts (`Claimed`), a lone server answers every call (`Alone`), and its count, the ledger
and the budget cover the sum of the charges (`Covered`). The calls are finitely many.

**`Deployment`.** For every plan, `ExecutesOnce` and `CompletesInOrder`. Both are inductive
once the log is known to be a sequence of the plan's transactions. That `DeploySteps`
implements `Deployment` is checked by TLC on the three instances.

**Only model-checked.** `DeploySteps` and its refinement of `Deployment`: `DeployPlan`
computes a step's operations by selecting from and joining concrete sequences, about which
a proof would need induction over data. And liveness
(`Terminates` of `verify` and of `block_search`, `Completes`, `DeploymentCompletes`):
temporal reasoning under fairness is out of the prover's reach.

## Observations without a run

Met while reading the code. No run is about them; where a module meets one, its
property states the exception:

- A rerun of an interrupted `--new-proposal` finds and follows the older proposal
  (docs/governance.md:51,57; commands/propose/recovery.rs:148).
- `send_tx_robust` claims "at-most-once semantics end to end" (evm.rs:477), which depends
  on hash look-ups that may fail (evm.rs:706) and on the contention arm, which signs again
  at a fresh nonce (evm.rs:610).
- A traffic run counts fulfilled legs, while `max_intents` says "Stop once this many
  intents have been sent": deposits that are not fulfilled are not counted, and are
  handed back to the budget. `CapHolds` states the exception.
- A stress run does not count a deposit whose broadcast was uncertain and landed.
- Two MCP servers that run side by side each keep a count of their own and overwrite
  the ledger. `BudgetHolds` states the exception.
- An express run is not waited for when the client disconnects. `ExitKeepsRuns` states
  the exception.
- `its_evm_to_evm` reads its token cache under the destination's chain name and saves it
  under its Axelar id; where the two differ every run deploys a new token.
- A burst from Solana to an EVM chain pays the gas value once (its_sol_to_evm.rs:404),
  while the comment at lines 67-68 says it "must cover both legs".
- The Stellar adapters (destination.rs:405) look for an approval first; a message that is
  approved and executed between two polls is never settled and ends as a timeout.

## Not modelled

- The rounds of `send_tx_robust` over several endpoints (evm.rs), one step of the modules
  that call it. Its question, how often one logical transaction can be included, needs a
  module of its own over `EvmAccount`.
- The ITS handoff's journal (`commands/its_asg/`): the same mechanism as `HardenedEvm`'s,
  with the same hazards, in separate code.
- Intents' execution: the wallet lock, approve, deposit, fulfil, refund and time-out and
  the pipelined sender's nonces. `McpSpend` only counts what they send.
- `axe test` and express execution: one message driven by hand; a stopped command keeps
  nothing.
- `axe propose`: resolution of targets, funding checks and review, which end a run before
  it submits anything.
- The signal handler, the rate-limit back-off, tick rates and latencies: time only.
- MCP transport, arguments and results; command-line parsing, configuration, display,
  decoding, monitoring and the chain clients' encodings: functions of single inputs that
  unit tests reach, without state that a sequence of steps could spoil.

Of these the first three have hazards a model would reach, and are what to add next.
