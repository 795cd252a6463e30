---------------------------- MODULE LoadPipelines ----------------------------
(* How each load-test route drives its submissions: the schedule, the nonce  *)
(* of each submission, what the derived keys are given for it, what counts   *)
(* as a confirmed submission, and how the run is verified.  All constant;    *)
(* LoadSend executes it.                                                     *)
EXTENDS LoadPlan, FiniteSets

CONSTANTS
    Gas,        \* the gas value one command is paid for
    Fee,        \* the execution fee of one transaction
    MinKey,     \* MIN_WEI_PER_KEY, the SOROBAN_BUFFER
    TargetKey,  \* TARGET_WEI_PER_KEY
    Reserve,    \* an account's base reserve on Stellar and XRPL
    Shares,     \* transfers a fixed token share is good for, 100 in the code
    Width       \* MAX_CONCURRENT_SENDS, 100 in the code

ASSUME PipelineAssumption ==
    /\ {Gas, Fee, MinKey, Reserve, Shares, Width} \subseteq Nat \ {0}
    /\ TargetKey \in Nat /\ MinKey < TargetKey

-----------------------------------------------------------------------------
(* The shape of a run. *)

\* RunSizing::from_values: a plan is burst or sustained, all its numbers positive.
BurstPlan(n) == [mode |-> "burst", keys |-> n, total |-> n, cycle |-> 1, tps |-> n]
SustainedPlan(tps, duration, cycle) ==
    [mode |-> "sustained", keys |-> tps * cycle, total |-> tps * duration,
     cycle |-> cycle, tps |-> tps]
IsPlan(plan) ==
    /\ {plan.keys, plan.total, plan.cycle, plan.tps} \subseteq Nat \ {0}
    /\ plan.mode \in {"burst", "sustained"}
    /\ plan.mode = "burst" => plan.keys = plan.total
    /\ plan.mode = "sustained" =>
          plan.keys = plan.tps * plan.cycle /\ plan.total % plan.tps = 0

CeilDiv(a, b) == (a + b - 1) \div b

Duration(plan) == plan.total \div plan.tps

\* transactions_per_key.
TransactionsPerKey(plan) ==
    IF plan.mode = "burst" THEN 1 ELSE CeilDiv(Duration(plan), plan.cycle)

\* scheduled_key_index; in a burst, submission n is that of key n.
ScheduledKey(plan, n) ==
    IF plan.mode = "burst" THEN n
    ELSE ((n \div plan.tps) % plan.cycle) * plan.tps + (n % plan.tps)

\* The second in which a sustained run fires submission n.
Tick(plan, n) == n \div plan.tps

-----------------------------------------------------------------------------
(* The pipelines.  order: "burst", "sustained" or "serial"; width: most      *)
(* submissions in flight; nonce: counted locally from the start ("pinned")   *)
(* or asked of the chain; verify: after the sends ("batch") or beside them.  *)

Burst(width) ==
    [order |-> "burst", width |-> width, nonce |-> "chain", verify |-> "batch"]
Sustained(nonce, verify) ==
    [order |-> "sustained", width |-> 0, nonce |-> nonce, verify |-> verify]
Serial == [order |-> "serial", width |-> 1, nonce |-> "chain", verify |-> "batch"]

\* evm_sender, sol_sender, stellar_sender and xrpl_sender.
EvmSenderSustained == Sustained("pinned", "stream")
SolSenderSustained == Sustained("chain", "stream")
StellarSenderBurst(plan) == Burst(plan.keys)
StellarSenderSustained == Sustained("chain", "stream")
XrplSenderBurst(plan) == Burst(plan.keys)
XrplSenderSustained == Sustained("chain", "stream")
\* run_stellar_gmp_burst, run_stellar_gmp_sustained, gmp_sui_source::run_sequential.
GmpStellarBurst(plan) == StellarSenderBurst(plan)
GmpStellarSustained == StellarSenderSustained
GmpSuiSequential == Serial

\* run_its_burst, its_sustained_tasks: EVM, Stellar, Solana and Sui sources.
EvmItsBurst == Burst(Width)
EvmItsSustained == Sustained("pinned", "stream")
StellarItsBurst(width) == Burst(width)
StellarItsSustained == Sustained("chain", "stream")
SolItsBurst(width) == Burst(width)
SolItsSustained == Sustained("chain", "stream")
SuiItsSequential == Serial

ItsEvmToEvmBurst == EvmItsBurst
ItsEvmToEvmSustained == EvmItsSustained
ItsEvmToSolBurst == EvmItsBurst
ItsEvmToSolSustained == EvmItsSustained
ItsEvmToStellarBurst == EvmItsBurst
ItsEvmToStellarSustained == EvmItsSustained
ItsEvmToXrplBurst == EvmItsBurst
ItsEvmToXrplSustained == EvmItsSustained
ItsEvmToSuiBurst == EvmItsBurst
ItsEvmToSuiSustained == [EvmItsSustained EXCEPT !.verify = "batch"]
ItsSolToEvmBurst == SolItsBurst(Width)
ItsSolToEvmSustained == SolItsSustained
ItsStellarToEvmBurst == StellarItsBurst(Width)
ItsStellarToEvmSustained == StellarItsSustained
ItsStellarToSolBurst == StellarItsBurst(Width)
ItsStellarToSolSustained == StellarItsSustained
ItsXrplToEvmBurst(plan) == XrplSenderBurst(plan)
ItsXrplToEvmSustained == XrplSenderSustained
DataBurst == Burst(Width)
DataSustained == Sustained("pinned", "stream")

\* its_sol_to_sui::send_transfers: one key does everything.
ItsSolToSuiSends(plan) ==
    IF plan.mode = "burst" THEN SolItsBurst(1)
    ELSE [SolItsSustained EXCEPT !.verify = "batch"]

\* its_stellar_to_sui::run: one wallet, one sequence number, so one at a time.
ItsStellarToSuiSends == Serial

GmpPipeline(src, plan) ==
    CASE src = "evm" -> IF plan.mode = "burst" THEN Burst(Width) ELSE EvmSenderSustained
      [] src = "svm" -> IF plan.mode = "burst" THEN Burst(plan.keys) ELSE SolSenderSustained
      [] src = "stellar" ->
            IF plan.mode = "burst" THEN GmpStellarBurst(plan) ELSE GmpStellarSustained
      [] src = "sui" -> GmpSuiSequential

ItsPipeline(src, dst, plan) ==
    LET pick(burst, sustained) == IF plan.mode = "burst" THEN burst ELSE sustained
    IN  CASE src = "sui" -> SuiItsSequential
          [] <<src, dst>> = <<"evm", "evm">> -> pick(ItsEvmToEvmBurst, ItsEvmToEvmSustained)
          [] <<src, dst>> = <<"evm", "svm">> -> pick(ItsEvmToSolBurst, ItsEvmToSolSustained)
          [] <<src, dst>> = <<"evm", "stellar">> ->
                pick(ItsEvmToStellarBurst, ItsEvmToStellarSustained)
          [] <<src, dst>> = <<"evm", "xrpl">> -> pick(ItsEvmToXrplBurst, ItsEvmToXrplSustained)
          [] <<src, dst>> = <<"evm", "sui">> -> pick(ItsEvmToSuiBurst, ItsEvmToSuiSustained)
          [] <<src, dst>> = <<"svm", "evm">> -> pick(ItsSolToEvmBurst, ItsSolToEvmSustained)
          [] <<src, dst>> = <<"svm", "sui">> -> ItsSolToSuiSends(plan)
          [] <<src, dst>> = <<"stellar", "evm">> ->
                pick(ItsStellarToEvmBurst, ItsStellarToEvmSustained)
          [] <<src, dst>> = <<"stellar", "svm">> ->
                pick(ItsStellarToSolBurst, ItsStellarToSolSustained)
          [] <<src, dst>> = <<"stellar", "sui">> -> ItsStellarToSuiSends
          [] <<src, dst>> = <<"xrpl", "evm">> ->
                pick(ItsXrplToEvmBurst(plan), ItsXrplToEvmSustained)

Pipeline(route, plan) ==
    CASE route[1] = "gmp" -> GmpPipeline(route[2], plan)
      [] route[1] = "its" -> ItsPipeline(route[2], route[3], plan)
      [] route[1] = "its_data" -> IF plan.mode = "burst" THEN DataBurst ELSE DataSustained

\* RunSizing::require_burst, on the routes whose steps begin with it.
Runs(route, plan) == plan.mode = "burst" \/ Steps(route, TRUE)[1] # "burst"

-----------------------------------------------------------------------------
(* What the derived keys are given.  A budget is the balance below which a   *)
(* key is topped up, and the balance it is topped up to.                     *)

\* rounds + rounds / 5 + 1.
Buffered(rounds) == rounds + rounds \div 5 + 1

\* ensure_funded_evm_with_extra.
EvmBudget(extra) == [threshold |-> MinKey + extra, target |-> TargetKey + extra]
\* ensure_funded_xrpl, fund_stellar_mainnet: one number for both.
ExactBudget(amount) == [threshold |-> amount, target |-> amount]

\* run_load_test_with_metrics and prepare_evm_sustained of evm_sender.
EvmGmpExtra(plan) ==
    Gas * (IF plan.mode = "burst" THEN 1 ELSE Buffered(TransactionsPerKey(plan)))

\* hub_gas_extra_per_key: a transfer through the hub is two commands.
HubGasExtraPerKey_OneLeg(plan) ==
    Gas * (IF plan.mode = "burst" THEN 1 ELSE Buffered(TransactionsPerKey(plan)))
HubGasExtraPerKey(plan) ==
    2 * Gas * (IF plan.mode = "burst" THEN 1 ELSE Buffered(TransactionsPerKey(plan)))

\* compute_gas_extra_per_key of its_evm_to_sol_with_data.
DataGasExtra(plan) ==
    2 * Gas * (IF plan.mode = "burst" THEN 1 ELSE Buffered(TransactionsPerKey(plan)))

\* derive_and_fund_evm_signers of its_evm_to_xrpl: fees counted, then doubled.
XrplGasExtra(plan) ==
    2 * (Fee + 2 * Gas)
        * (IF plan.mode = "burst" THEN 1 ELSE Buffered(TransactionsPerKey(plan)))

\* derive_and_fund_signers of its_evm_to_sui: the same for one transfer or many.
SuiGasExtra == 4 * Gas

\* ensure_funded of keypairs.
SolBudget == [threshold |-> MinKey, target |-> TargetKey]

\* prepare_sustained_keypairs_blocking: whole cycles only, and at least one.
SolFires(plan) ==
    IF Duration(plan) < plan.cycle THEN 1 ELSE Duration(plan) \div plan.cycle
\* ensure_funded_for_sustained.
SolSustainedBudget(plan) ==
    LET cost == (Gas + Fee) * SolFires(plan)
    IN  ExactBudget(IF cost > TargetKey THEN cost ELSE TargetKey)

\* parse_gas_stroops of its_stellar_source: two commands.
StellarItsGas == 2 * Gas
\* mainnet_per_key_balance_stroops; both callers pass transactions_per_key.
StellarBudget(gas, plan) == ExactBudget(Reserve + MinKey + gas * TransactionsPerKey(plan))

\* fund_ephemeral_wallets of its_xrpl_to_evm: two commands, the amount and the fee.
XrplBudget(plan) ==
    ExactBudget(Reserve + TransactionsPerKey(plan) * (2 * Gas + 1 + Fee))

Budget(route, plan) ==
    CASE route[2] = "evm" ->
            EvmBudget(CASE route[1] = "gmp" -> EvmGmpExtra(plan)
                        [] route[1] = "its_data" -> DataGasExtra(plan)
                        [] route[1] = "its" /\ route[3] = "xrpl" -> XrplGasExtra(plan)
                        [] route[1] = "its" /\ route[3] = "sui" -> SuiGasExtra
                        [] OTHER -> HubGasExtraPerKey(plan))
      [] route[2] = "svm" ->
            IF route[1] = "gmp" /\ plan.mode = "sustained" THEN SolSustainedBudget(plan)
            ELSE SolBudget
      [] route[2] = "xrpl" -> XrplBudget(plan)
      [] OTHER -> StellarBudget(IF route[1] = "gmp" THEN Gas ELSE StellarItsGas, plan)

\* The share of the token, in transfers: EvmTokenRunSizing::standard,
\* distribute_and_approve_tokens of its_evm_to_xrpl, derive_and_fund_signers of
\* its_evm_to_sui, amount_per_key of its_stellar_source and
\* compute_distribution_amount of its_sol_to_evm.
EvmTokenShare == Shares
XrplTokenShare(plan) == IF plan.mode = "burst" THEN 1 ELSE TransactionsPerKey(plan) + 1
SuiTokenShare(plan) == TransactionsPerKey(plan)
StellarTokenShare(plan) ==
    IF plan.mode = "burst" THEN Shares ELSE 2 * TransactionsPerKey(plan)
SolTokenShare(plan) ==
    IF plan.mode = "burst" THEN Shares ELSE 2 * TransactionsPerKey(plan)

Share(route, plan) ==
    IF route[1] = "gmp" \/ route[2] = "xrpl" THEN 0
    ELSE CASE route[2] = "evm" /\ route[3] = "xrpl" -> XrplTokenShare(plan)
           [] route[2] = "evm" /\ route[3] = "sui" -> SuiTokenShare(plan)
           [] route[2] = "evm" /\ route[3] \notin {"xrpl", "sui"} -> EvmTokenShare
           [] route[2] = "svm" -> SolTokenShare(plan)
           [] OTHER -> StellarTokenShare(plan)

\* derive_keypairs, derive_evm_signers, derive_wallets, derive_xrpl_wallets: a
\* single key is the main wallet itself; Solana's sustained GMP runs always derive.
SolDerives(route, plan) ==
    /\ route[3] # "sui" \/ route[1] = "gmp"
    /\ plan.keys > 1 \/ (route[1] = "gmp" /\ plan.mode = "sustained")
EvmDerives(plan) == plan.keys > 1
StellarDerives(plan) == plan.keys > 1
XrplDerives(plan) == plan.keys > 1

\* On Hedera the main wallet does the work of every key, where the sender asks:
\* run_load_test_with_metrics of evm_sender and derive_and_fund_keys of
\* its_evm_source.
AsksForHedera(route, plan) ==
    \/ route[1] = "gmp" /\ route[2] = "evm" /\ plan.mode = "burst"
    \/ route[1] = "its" /\ route[2] = "evm" /\ route[3] \in {"evm", "svm"}

\* It also does from Sui, and from Stellar or Solana to Sui.
Derives(route, plan, hedera) ==
    /\ ~(hedera /\ AsksForHedera(route, plan))
    /\ CASE route[2] = "evm" -> EvmDerives(plan)
         [] route[2] = "svm" -> SolDerives(route, plan)
         [] route[2] = "xrpl" -> XrplDerives(plan)
         [] route[2] = "stellar" ->
               StellarDerives(plan) /\ (route[1] = "gmp" \/ route[3] # "sui")
         [] route[2] = "sui" -> FALSE

-----------------------------------------------------------------------------
(* What counts as a confirmed submission.  A transaction that gets into a    *)
(* block is "good", "reverted" or "silent": it succeeded, and its event is   *)
(* not where the submitter looks.                                            *)

\* execute_and_record_evm takes any receipt, and index 0 for a missing event.
EvmGmpConfirms == {"good", "reverted", "silent"}
\* receipt_to_metrics and execute_interchain_transfer; with data as well.
EvmItsConfirms == {"good"}
DataConfirms == {"good"}
\* send_sol_tx, and the ids of its_sol_source, guessed when they are not found.
SolGmpConfirms == {"good"}
SolItsConfirms == {"good", "silent"}
\* submit_single and submit_transfer: event index 0 when none is found.
StellarGmpConfirms == {"good", "silent"}
StellarItsConfirms == {"good", "silent"}
\* submit_single of xrpl_sender: the node's provisional result is the last word.
XrplConfirms == {"good", "reverted"}
\* GmpSuiSubmitter and ItsSuiSubmitter.
SuiGmpConfirms == {"good"}
SuiItsConfirms == {"good"}

Confirms(route) ==
    CASE route[1] = "its_data" -> DataConfirms
      [] route[1] # "its_data" /\ route[2] = "evm" ->
            IF route[1] = "gmp" THEN EvmGmpConfirms ELSE EvmItsConfirms
      [] route[2] = "svm" -> IF route[1] = "gmp" THEN SolGmpConfirms ELSE SolItsConfirms
      [] route[2] = "stellar" ->
            IF route[1] = "gmp" THEN StellarGmpConfirms ELSE StellarItsConfirms
      [] route[2] = "sui" -> IF route[1] = "gmp" THEN SuiGmpConfirms ELSE SuiItsConfirms
      [] route[2] = "xrpl" -> XrplConfirms

\* finish_report, on the counts of the report and of its verification.
FinishReport_PendingPasses(failed, confirmed, verified, pending, bad) ==
    /\ failed = 0 /\ bad = 0
    /\ confirmed > 0 => verified + pending > 0
FinishReport(failed, confirmed, verified, pending, bad) ==
    /\ failed = 0 /\ bad = 0
    /\ confirmed > 0 => verified > 0 /\ pending = 0
=============================================================================
