------------------------------ MODULE LoadPlan ------------------------------
(* What a load-test run is going to do, as far as its arguments decide it:   *)
(* which routes exist, which steps each route takes up to its first          *)
(* submission, how many keys and transactions a run has, and how much each   *)
(* key is given.  All of it is constant; LoadSetup and LoadSend give the     *)
(* steps their effects.                                                      *)
EXTENDS Integers, Sequences

-----------------------------------------------------------------------------
(* Which routes exist. *)

\* infer_test_type: the pairs of chain families that name a test type.
TestTypes ==
    {"evm", "svm"} \X {"evm", "svm", "stellar", "sui"}
        \cup {"stellar", "sui"} \X {"evm", "svm"}
        \cup {<<"evm", "xrpl">>, <<"xrpl", "evm">>, <<"stellar", "sui">>,
              <<"sui", "stellar">>, <<"sui", "xrpl">>, <<"xrpl", "sui">>}

\* SupportedRoute::resolve.
SupportedRoutes ==
    LET unwired == {<<"sui", "stellar">>, <<"sui", "xrpl">>, <<"xrpl", "sui">>}
        gmp == TestTypes \ (unwired \cup {<<"evm", "xrpl">>, <<"xrpl", "evm">>})
        its == TestTypes \ (unwired \cup {<<"svm", "svm">>, <<"svm", "stellar">>})
        all(protocol, pairs) == {<<protocol, p[1], p[2]>> : p \in pairs}
    IN  all("gmp", gmp) \cup all("its", its) \cup {<<"its_data", "evm", "svm">>}

\* validate_source_support: a source without a voting verifier has to be EVM.
SourceSupported(src, hasVerifier) == hasVerifier \/ src = "evm"

-----------------------------------------------------------------------------
(* The steps of each route, in the order of its `run` function.              *)
(*   burst        the route refuses a sustained run                          *)
(*   rpc_*        validate_evm_rpc, validate_solana_rpc                      *)
(*   gateway      the Cosmos contracts the verification will need            *)
(*   config       contract addresses and chain names from the config         *)
(*   arguments    --payload is hex, --gas-value a number                     *)
(*   wallet       the signing key: present, and holding something            *)
(*   linked       a token the operator linked beforehand                     *)
(*   recipient    the key or the channel that receives                       *)
(*   *_receiver   deploy_or_reuse_sender_receiver on that side               *)
(*   token, wait  resolve or deploy the interchain token, await its remote   *)
(*   account      the recipient's associated token account                   *)
(*   fund, distribute, approve   give the derived keys what they will spend  *)

\* What the functions the routes share contribute: load_evm_signer,
\* resolve_evm_gmp_contracts, prepare_evm_gmp_source, prepare_evm_gmp_destination,
\* prepare_cached_evm_destination, prepare_stellar_gmp_source, prepare_sui_gmp_source.
LoadEvmSigner == <<"wallet">>
EvmGmpContracts == <<"config">>
EvmGmpSource == <<"source_receiver">>
EvmGmpDestination == <<"wallet", "destination_receiver">>
CachedEvmDestination == EvmGmpContracts \o <<"wallet", "destination_receiver">>
StellarGmpSource == <<"config", "arguments", "wallet", "fund", "arguments">>
SuiGmpSource == <<"config", "wallet">>

\* The senders fund the derived keys themselves: evm_sender and sol_sender, of which the
\* second decodes its payload before that in a sustained run and after it in a burst.
EvmSender == <<"arguments", "fund", "send">>
SolSender(sustained) ==
    IF sustained THEN <<"arguments", "wallet", "fund", "send">>
    ELSE <<"wallet", "fund", "arguments", "send">>

GmpSolToEvm(sustained) ==
    <<"rpc_source", "rpc_destination", "gateway", "config",
      "destination_receiver">> \o SolSender(sustained)
GmpEvmToSol ==
    <<"rpc_source", "rpc_destination", "gateway", "config">> \o LoadEvmSigner
        \o <<"source_receiver">> \o EvmSender
GmpEvmToEvm ==
    <<"rpc_source", "rpc_destination", "gateway">> \o LoadEvmSigner \o EvmGmpContracts
        \o EvmGmpSource \o EvmGmpContracts \o EvmGmpDestination \o EvmSender
GmpSolToSol(sustained) ==
    <<"rpc_source", "rpc_destination", "gateway">> \o SolSender(sustained)
GmpStellarToEvm ==
    <<"rpc_destination", "gateway">> \o StellarGmpSource \o CachedEvmDestination
        \o <<"send">>
GmpEvmToStellar_BurstLate ==
    <<"rpc_source", "wallet", "config", "source_receiver", "burst">> \o EvmSender
GmpEvmToStellar ==
    <<"burst", "rpc_source", "wallet", "config", "source_receiver">> \o EvmSender
GmpStellarToSol ==
    <<"burst", "rpc_destination", "config", "wallet", "arguments", "fund", "send">>
GmpSolToStellar == <<"burst", "rpc_source", "config">> \o SolSender(FALSE)
GmpSuiToEvm ==
    <<"burst", "rpc_destination", "gateway">> \o SuiGmpSource \o CachedEvmDestination
        \o <<"arguments", "send">>
GmpSuiToSol ==
    <<"burst", "rpc_destination", "gateway", "config", "wallet", "arguments", "send">>
GmpEvmToSui ==
    <<"burst", "rpc_source", "wallet", "recipient", "config", "source_receiver">>
        \o EvmSender
GmpSolToSui == <<"burst", "rpc_source", "recipient">> \o SolSender(FALSE)
GmpStellarToSui ==
    <<"burst", "recipient", "config", "wallet", "arguments", "fund", "send">>

\* dispatch_gmp.
GmpSteps(src, dst, sustained) ==
    CASE <<src, dst>> = <<"svm", "evm">> -> GmpSolToEvm(sustained)
      [] <<src, dst>> = <<"evm", "svm">> -> GmpEvmToSol
      [] <<src, dst>> = <<"evm", "evm">> -> GmpEvmToEvm
      [] <<src, dst>> = <<"svm", "svm">> -> GmpSolToSol(sustained)
      [] <<src, dst>> = <<"stellar", "evm">> -> GmpStellarToEvm
      [] <<src, dst>> = <<"evm", "stellar">> -> GmpEvmToStellar
      [] <<src, dst>> = <<"stellar", "svm">> -> GmpStellarToSol
      [] <<src, dst>> = <<"svm", "stellar">> -> GmpSolToStellar
      [] <<src, dst>> = <<"sui", "evm">> -> GmpSuiToEvm
      [] <<src, dst>> = <<"sui", "svm">> -> GmpSuiToSol
      [] <<src, dst>> = <<"evm", "sui">> -> GmpEvmToSui
      [] <<src, dst>> = <<"svm", "sui">> -> GmpSolToSui
      [] <<src, dst>> = <<"stellar", "sui">> -> GmpStellarToSui

\* its_evm_source: init_evm_source, resolve_its_contracts; its_evm_to_evm::run.
EvmItsSource == <<"wallet">>
EvmItsContracts == <<"config">>
ItsEvmToEvm ==
    <<"rpc_source", "rpc_destination", "gateway">> \o EvmItsSource \o EvmItsContracts
        \o <<"config", "arguments", "token", "wait", "fund", "distribute", "send">>

\* its_evm_to_sol::run: the Solana key is loaded when everything is paid for.
ItsEvmToSol ==
    <<"rpc_source", "rpc_destination", "gateway">> \o EvmItsSource \o EvmItsContracts
        \o <<"arguments", "token", "wait", "fund", "distribute", "recipient", "send">>

\* its_evm_to_stellar: init_evm_source_context, resolve_evm_targets,
\* resolve_stellar_targets, derive_and_fund_signers, distribute_axe_tokens, run.
StellarItsWallet == <<"wallet">>
StellarItsTargets == <<"config">>
StellarItsDestination == <<"config">>
StellarItsFund == <<"fund">>
StellarItsDistribute == <<"distribute">>
ItsEvmToStellar ==
    <<"rpc_source", "gateway">> \o StellarItsWallet \o StellarItsTargets
        \o StellarItsDestination \o <<"arguments", "token", "wait">> \o StellarItsFund
        \o StellarItsDistribute \o <<"recipient", "send">>

\* its_evm_to_xrpl: resolve_token_id, init_evm_source, verify_token_on_its,
\* setup_xrpl_recipient, derive_and_fund_evm_signers, distribute_and_approve_tokens, run.
XrplTokenId == <<"linked">>
XrplEvmSource == <<"wallet", "config">>
XrplTokenOnIts == <<"linked">>
XrplRecipient == <<"config", "recipient">>
XrplFund == <<"fund">>
XrplDistribute == <<"distribute", "approve">>
ItsEvmToXrpl ==
    <<"rpc_source", "gateway">> \o XrplTokenId \o XrplEvmSource \o XrplTokenOnIts
        \o XrplRecipient \o <<"arguments">> \o XrplFund \o XrplDistribute \o <<"send">>

\* its_evm_to_sui: resolve_evm_context, resolve_sui_context, derive_and_fund_signers, run.
SuiEvmContext == <<"wallet", "config", "linked", "arguments">>
SuiContext == <<"recipient", "config">>
SuiFundSigners == <<"fund", "distribute">>
ItsEvmToSui ==
    <<"rpc_source", "gateway">> \o SuiEvmContext \o SuiContext \o SuiFundSigners
        \o <<"send">>

\* its_sol_to_evm: init_solana_client_and_main_keypair, resolve_evm_targets_and_receiver,
\* prepare_source_accounts, run.
SolItsWallet == <<"wallet">>
SolItsTargets == <<"config", "recipient">>
SolItsAccounts == <<"fund", "distribute">>
ItsSolToEvm ==
    <<"rpc_source", "rpc_destination", "gateway">> \o SolItsWallet \o <<"arguments">>
        \o SolItsTargets \o <<"token">> \o SolItsAccounts \o <<"send">>

\* its_sol_to_sui::run: the main key sends everything, and holds it beforehand.
ItsSolToSui ==
    <<"rpc_source", "wallet", "linked", "recipient", "config", "arguments", "send">>

\* its_stellar_to_evm: init_stellar_setup, resolve_evm_targets, run.
StellarSetup == <<"config", "wallet">>
StellarEvmTargets == <<"config">>
ItsStellarToEvm ==
    <<"rpc_destination", "gateway">> \o StellarSetup \o StellarEvmTargets
        \o <<"arguments", "token", "fund", "distribute", "send">>

\* its_stellar_to_sol: read_stellar_setup, init_stellar_main_wallet,
\* resolve_solana_target, prepare_token_and_wallets, run.
ReadStellarSetup == <<"config">>
StellarMainWallet == <<"wallet">>
SolanaTarget == <<"recipient">>
StellarTokenAndWallets == <<"token", "fund", "distribute">>
ItsStellarToSol ==
    <<"rpc_destination", "gateway">> \o ReadStellarSetup \o StellarMainWallet
        \o SolanaTarget \o <<"arguments">> \o StellarTokenAndWallets \o <<"send">>

\* its_stellar_to_sui: prepare_stellar_source, run.
StellarSuiSource == <<"config", "wallet">>
ItsStellarToSui ==
    StellarSuiSource \o <<"linked", "recipient", "config", "arguments", "send">>

\* its_sui_source: prepare_source, ensure_gas_balance; the two routes from Sui.
SuiItsSource == <<"config", "wallet", "linked">>
SuiGasBalance == <<"wallet">>
ItsSuiToEvm ==
    <<"burst", "rpc_destination", "gateway">> \o SuiItsSource
        \o <<"config", "arguments">> \o SuiGasBalance \o <<"config", "send">>
ItsSuiToSol ==
    <<"burst", "rpc_destination", "gateway">> \o SuiItsSource
        \o <<"recipient", "arguments">> \o SuiGasBalance \o <<"config", "send">>

\* its_xrpl_to_evm: read_xrpl_chain_config, init_xrpl_client_and_main_wallet,
\* resolve_evm_targets, fund_ephemeral_wallets, run.
XrplChainConfig == <<"config">>
XrplMainWallet == <<"wallet">>
XrplEvmTargets == <<"config">>
XrplWallets == <<"fund">>
ItsXrplToEvm ==
    <<"rpc_destination", "gateway">> \o XrplChainConfig \o XrplMainWallet
        \o XrplEvmTargets \o <<"arguments">> \o XrplWallets \o <<"config", "send">>

\* its_evm_to_sol_with_data: init_evm_signer_and_provider, resolve_its_addresses,
\* setup_extra_accounts_ata, fund_and_distribute, run.
DataSigner == <<"wallet">>
DataAddresses == <<"config">>
DataAccount == <<"recipient", "account">>
DataFund == <<"fund", "distribute">>
ItsWithDataEvmToSol ==
    <<"rpc_source", "rpc_destination", "gateway">> \o DataSigner \o DataAddresses
        \o <<"arguments", "token", "wait">> \o DataAccount \o DataFund \o <<"approve", "send">>

\* dispatch_its.
ItsSteps(src, dst) ==
    CASE <<src, dst>> = <<"evm", "evm">> -> ItsEvmToEvm
      [] <<src, dst>> = <<"evm", "svm">> -> ItsEvmToSol
      [] <<src, dst>> = <<"evm", "stellar">> -> ItsEvmToStellar
      [] <<src, dst>> = <<"evm", "xrpl">> -> ItsEvmToXrpl
      [] <<src, dst>> = <<"evm", "sui">> -> ItsEvmToSui
      [] <<src, dst>> = <<"svm", "evm">> -> ItsSolToEvm
      [] <<src, dst>> = <<"svm", "sui">> -> ItsSolToSui
      [] <<src, dst>> = <<"stellar", "evm">> -> ItsStellarToEvm
      [] <<src, dst>> = <<"stellar", "svm">> -> ItsStellarToSol
      [] <<src, dst>> = <<"stellar", "sui">> -> ItsStellarToSui
      [] <<src, dst>> = <<"sui", "evm">> -> ItsSuiToEvm
      [] <<src, dst>> = <<"sui", "svm">> -> ItsSuiToSol
      [] <<src, dst>> = <<"xrpl", "evm">> -> ItsXrplToEvm

\* dispatch.
Steps(route, sustained) ==
    CASE route[1] = "gmp" -> GmpSteps(route[2], route[3], sustained)
      [] route[1] = "its" -> ItsSteps(route[2], route[3])
      [] route[1] = "its_data" -> ItsWithDataEvmToSol
=============================================================================
