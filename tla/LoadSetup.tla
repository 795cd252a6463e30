------------------------------ MODULE LoadSetup ------------------------------
(***************************************************************************)
(* The part of a load-test run before its first submission, over several     *)
(* runs on one pair of chains: the checks of the route, the receiver contract *)
(* a GMP run needs on its EVM sides, the interchain token an ITS run moves,   *)
(* and the caches under which both are found again.  A run may fail at any    *)
(* step and the process may die between any two; the operator starts over.    *)
(***************************************************************************)
EXTENDS LoadPlan, RemoteDeploy, FiniteSets

CONSTANTS
    Routes,         \* the routes under test
    MaxRuns,        \* how often the operator starts a run
    MaxReceivers,   \* receivers the runs may deploy
    MaxTokens,      \* interchain tokens, the operator's own included
    Attempts        \* get_code_with_retry's ATTEMPTS

ASSUME SetupAssumption ==
    /\ Routes \subseteq SupportedRoutes
    /\ {MaxRuns, MaxReceivers, MaxTokens, Attempts} \subseteq Nat \ {0}

VARIABLES
    setting,     \* the pair of chains and what the configuration says of it
    route,       \* the route of the current run
    sustained,   \* it sends at a rate for some time instead of all at once
    explicit,    \* its --token-id, 0 for none
    step,        \* the step it is at
    task,        \* where it is inside that step
    status,      \* "idle", "running", "failed", "crashed" or "sending"
    spent,       \* this run has sent a transaction
    runs,        \* runs started
    gateway,     \* the gateway the configuration names on each side
    receivers,   \* receivers[r]: the gateway receiver r is wired to, 0 when it has no code
    overlay,     \* the receiver recorded in the axe-tokens overlay, by side
    cached,      \* the receiver in the local cache, by side
    using,       \* the receiver this run settled on, by side
    fresh,       \* the sides on which this run deployed it
    empty,       \* the reads of each candidate's code that came back empty
    unparsed,    \* this run could not parse the overlay
    itsCache,    \* the cached token, by the name its file carries
    token,       \* the token this run settled on
    origin,      \* where it comes from
    message      \* this run has a remote-deploy message to wait for

runVars == <<route, sustained, explicit, step, task, status, spent, runs>>
receiverVars == <<gateway, receivers, overlay, cached, using, fresh, empty, unparsed>>
tokenVars == <<itsCache, token, origin, message>>
vars == <<setting, runVars, receiverVars, tokenVars, remote, waitVars>>

Sides == {"source", "destination"}
Names == {"chain", "axelar_id"}
Slots == {"overlay", "cached"}
Settings ==
    [src : {r[2] : r \in Routes}, dst : {r[3] : r \in Routes}, gmp : BOOLEAN,
     legacy : BOOLEAN, hedera : BOOLEAN, renamed : BOOLEAN, configured : BOOLEAN]

\* The runs of a behaviour share their caches: the same chains, and either GMP or
\* one of the two ITS protocols.
Eligible ==
    {r \in Routes : /\ r[2] = setting.src /\ r[3] = setting.dst
                    /\ (r[1] = "gmp") = setting.gmp}

Here == Steps(route, sustained)[step]
Running(kind) == status = "running" /\ Here = kind
At(kind, where) == Running(kind) /\ task = where

Init ==
    /\ setting \in Settings
    /\ setting.legacy => setting.dst = "evm"
    /\ setting.hedera => setting.src = "evm" /\ setting.dst = "svm"
    /\ setting.renamed => setting.src = "evm" /\ setting.dst = "evm"
    /\ setting.gmp => ~setting.hedera /\ ~setting.renamed /\ ~setting.configured
    /\ \E r \in Eligible : route = r
    /\ sustained = FALSE /\ explicit = 0 /\ step = 1 /\ task = "begin" /\ status = "idle"
    /\ spent = FALSE /\ runs = 0
    /\ gateway = [s \in Sides |-> 1] /\ receivers = <<>>
    /\ overlay = [s \in Sides |-> 0] /\ cached = [s \in Sides |-> 0]
    /\ using = [s \in Sides |-> 0] /\ fresh = {}
    /\ empty = [k \in Slots |-> 0] /\ unparsed = FALSE
    /\ itsCache = [n \in Names |-> 0] /\ token = 0 /\ origin = "none" /\ message = FALSE
    /\ remote \in {<<0>>, <<Deployed>>}
    /\ phase = "HubApproved" /\ missing = 0

-----------------------------------------------------------------------------
(* A run, step by step. *)

\* A search for a receiver starts from nothing, and leaves nothing behind.
Forget == empty' = [k \in Slots |-> 0] /\ unparsed' = FALSE

\* A route that looks at the mode of its run before it sends; the others go the same way in
\* either mode, and are followed in one.
ModeMatters(r) ==
    Steps(r, TRUE) # Steps(r, FALSE) \/ \E i \in DOMAIN Steps(r, TRUE) : Steps(r, TRUE)[i] = "burst"

\* The operator starts a run, with or without a token of their own; a source that
\* nobody votes on is refused before the route's first step.
Start ==
    /\ status # "running" /\ runs < MaxRuns
    /\ route' \in Eligible
    /\ sustained' \in IF ModeMatters(route') THEN BOOLEAN ELSE {FALSE}
    /\ explicit' \in IF setting.gmp THEN {0} ELSE 0 .. Len(remote)
    /\ step' = 1 /\ task' = "begin"
    /\ \E hasVerifier \in BOOLEAN :
          status' = IF SourceSupported(setting.src, hasVerifier) THEN "running" ELSE "failed"
    /\ spent' = FALSE /\ runs' = runs + 1
    /\ using' = [s \in Sides |-> 0] /\ fresh' = {} /\ Forget
    /\ token' = 0 /\ origin' = "none" /\ message' = FALSE
    /\ WaitStarts
    /\ UNCHANGED <<setting, gateway, receivers, overlay, cached, itsCache, remote>>

Crash ==
    /\ status = "running"
    /\ status' = "crashed"
    /\ UNCHANGED <<setting, route, sustained, explicit, step, task, spent, runs, receiverVars,
                   tokenVars, remote, waitVars>>

Proceed ==
    /\ step' = step + 1 /\ task' = "begin"
    /\ UNCHANGED <<setting, route, sustained, explicit, status, runs>>

\* The step goes on with another of its tasks.
Continue(next) ==
    /\ task' = next
    /\ UNCHANGED <<setting, route, sustained, explicit, step, status, runs>>

\* An error returned with `?` or bail! ends the run.
Fail ==
    /\ status' = "failed"
    /\ UNCHANGED <<setting, route, sustained, explicit, step, task, runs>>

Checks == {"rpc_source", "rpc_destination", "config", "arguments", "wallet", "linked",
           "recipient"}

\* A step that only looks: it lets the run pass or refuses it.
Check ==
    /\ \E kind \in Checks : Running(kind)
    /\ Proceed \/ Fail
    /\ UNCHANGED <<spent, receiverVars, tokenVars, remote, waitVars>>

\* RunSizing::require_burst.
CheckBurst ==
    /\ Running("burst")
    /\ IF sustained THEN Fail ELSE Proceed
    /\ UNCHANGED <<spent, receiverVars, tokenVars, remote, waitVars>>

\* its_prerequisites::verify.
PrerequisitesMet(requirement, legacy, conf) ==
    /\ CASE requirement = "Required" -> "Gateway" \in conf
         [] requirement = "AmplifierOnly" -> legacy \/ "Gateway" \in conf
         [] requirement = "Xrpl" -> {"Gateway", "XrplGateway"} \cap conf # {}
    /\ "AxelarnetGateway" \in conf

\* ensure_cosmos_gateway: nothing to ask for at a legacy destination.
GmpGatewayMet(legacy, conf) == legacy \/ "Gateway" \in conf

Requirement(r) ==
    CASE r[1] = "its_data" \/ r[3] \in {"stellar", "sui"} -> "Required"
      [] r[3] = "xrpl" -> "Xrpl"
      [] r[2] \in {"sui", "stellar"} /\ r[3] = "svm" -> "Required"
      [] OTHER -> "AmplifierOnly"

CheckGateway ==
    /\ Running("gateway")
    /\ \E conf \in SUBSET {"Gateway", "XrplGateway", "AxelarnetGateway"} :
          IF IF setting.gmp THEN GmpGatewayMet(setting.legacy, conf)
             ELSE PrerequisitesMet(Requirement(route), setting.legacy, conf)
          THEN Proceed ELSE Fail
    /\ UNCHANGED <<spent, receiverVars, tokenVars, remote, waitVars>>

Spends == {"fund", "distribute", "approve", "account"}

\* Transactions of the main wallet that give the derived keys what they need.
Spend ==
    /\ \E kind \in Spends : Running(kind)
    /\ \/ Proceed /\ spent' \in {spent, TRUE}
       \/ Fail /\ spent' \in {spent, TRUE}
    /\ UNCHANGED <<receiverVars, tokenVars, remote, waitVars>>

Send ==
    /\ Running("send")
    /\ status' = "sending"
    /\ UNCHANGED <<setting, route, sustained, explicit, step, task, spent, runs, receiverVars,
                   tokenVars, remote, waitVars>>

-----------------------------------------------------------------------------
(* The receiver contract: deploy_or_reuse_sender_receiver. *)

ReceiverStep(side) == IF side = "source" THEN "source_receiver" ELSE "destination_receiver"

\* sender_receiver_is_valid: the receiver has code and answers with the gateway
\* the configuration names.
Live(side) == {r \in DOMAIN receivers : receivers[r] = gateway[side]}

\* The committed overlay's receiver is tried first, then the local cache's.
Candidate(slot, side) == IF slot = "overlay" THEN overlay[side] ELSE cached[side]
After(slot) == IF slot = "overlay" THEN "cached" ELSE "deploy"

\* The gateway the configuration names has code; without it ReceiverFails.
CheckReceiverGateway(side) ==
    /\ At(ReceiverStep(side), "begin")
    /\ Continue("overlay") /\ Forget
    /\ UNCHANGED <<spent, gateway, receivers, overlay, cached, using, fresh, tokenVars, remote,
                   waitVars>>

\* load_overlay, overlay_sender_receiver: nothing is recorded, or the overlay exists and
\* does not parse, which disables it for this run.
SkipCandidate(side, slot) ==
    /\ At(ReceiverStep(side), slot) /\ empty[slot] = 0
    /\ \/ Candidate(slot, side) = 0 /\ UNCHANGED unparsed
       \/ slot = "overlay" /\ overlay[side] # 0 /\ unparsed' = TRUE
    /\ Continue(After(slot))
    /\ UNCHANGED <<spent, gateway, receivers, overlay, cached, using, fresh, empty, tokenVars,
                   remote, waitVars>>

\* get_code_with_retry: an answer without code, which an endpoint also gives for a contract
\* that has some; the last attempt's stands.
EmptyRead_NoRetry(side, slot) ==
    /\ At(ReceiverStep(side), slot) /\ Candidate(slot, side) # 0
    /\ empty' = [empty EXCEPT ![slot] = @ + 1]
    /\ Continue(After(slot))
    /\ UNCHANGED <<spent, gateway, receivers, overlay, cached, using, fresh, unparsed, tokenVars,
                   remote, waitVars>>
EmptyRead(side, slot) ==
    /\ At(ReceiverStep(side), slot) /\ Candidate(slot, side) # 0
    /\ empty' = [empty EXCEPT ![slot] = @ + 1]
    /\ IF empty'[slot] < Attempts THEN Continue(slot) ELSE Continue(After(slot))
    /\ UNCHANGED <<spent, gateway, receivers, overlay, cached, using, fresh, unparsed, tokenVars,
                   remote, waitVars>>

\* The code is there: a receiver that answers with the gateway is taken over.
ReuseReceiver_AnyCode(side, slot) ==
    /\ At(ReceiverStep(side), slot) /\ Candidate(slot, side) # 0
    /\ receivers[Candidate(slot, side)] # 0
    /\ using' = [using EXCEPT ![side] = Candidate(slot, side)] /\ Proceed /\ Forget
    /\ UNCHANGED <<spent, gateway, receivers, overlay, cached, fresh, tokenVars, remote, waitVars>>
ReuseReceiver(side, slot) ==
    /\ At(ReceiverStep(side), slot) /\ Candidate(slot, side) # 0
    /\ receivers[Candidate(slot, side)] # 0
    /\ IF Candidate(slot, side) \in Live(side)
       THEN using' = [using EXCEPT ![side] = Candidate(slot, side)] /\ Proceed /\ Forget
       ELSE Continue(After(slot)) /\ UNCHANGED <<using, empty, unparsed>>
    /\ UNCHANGED <<spent, gateway, receivers, overlay, cached, fresh, tokenVars, remote, waitVars>>

\* deploy_with_artifact.  The transaction may land although its receipt is not seen
\* in time; one that reverted has a receipt and a contract address all the same.
DeployReceiver(side) ==
    /\ At(ReceiverStep(side), "deploy")
    /\ Len(receivers) < MaxReceivers
    /\ \E wired \in {0, gateway[side]} :
          /\ receivers' = Append(receivers, wired)
          /\ \/ /\ Continue("save")
                /\ using' = [using EXCEPT ![side] = Len(receivers')]
                /\ fresh' = fresh \cup {side}
                /\ UNCHANGED <<empty, unparsed>>
             \/ Fail /\ Forget /\ UNCHANGED <<using, fresh>>
    /\ spent' = TRUE
    /\ UNCHANGED <<gateway, overlay, cached, tokenVars, remote, waitVars>>

\* save_cache.
SaveReceiver(side) ==
    /\ At(ReceiverStep(side), "save")
    /\ cached' = [cached EXCEPT ![side] = using[side]]
    /\ Proceed /\ Forget
    /\ UNCHANGED <<spent, gateway, receivers, overlay, using, fresh, tokenVars, remote, waitVars>>

\* The gateway has no code, the RPC fails a read, the key is missing or cannot pay.
ReceiverFails(side) ==
    /\ Running(ReceiverStep(side)) /\ task # "save"
    /\ Fail /\ Forget
    /\ UNCHANGED <<spent, gateway, receivers, overlay, cached, using, fresh, tokenVars, remote,
                   waitVars>>

\* Between runs the operator follows the hint to record a receiver, or the
\* configuration names another gateway.
RecordReceiver(side) ==
    /\ status # "running" /\ runs < MaxRuns
    /\ cached[side] # 0 /\ overlay[side] # cached[side]
    /\ overlay' = [overlay EXCEPT ![side] = cached[side]]
    /\ UNCHANGED <<setting, runVars, gateway, receivers, cached, using, fresh, empty,
                   unparsed, tokenVars, remote, waitVars>>

ReplaceGateway(side) ==
    /\ status = "idle" \/ (status # "running" /\ runs < MaxRuns)
    /\ setting.gmp /\ gateway[side] = 1
    /\ gateway' = [gateway EXCEPT ![side] = 2]
    /\ using' = [s \in Sides |-> 0]
    /\ UNCHANGED <<setting, runVars, receivers, overlay, cached, fresh, empty, unparsed,
                   tokenVars, remote, waitVars>>

-----------------------------------------------------------------------------
(* The interchain token. *)

\* its_cache_path: the file is named after the destination the caller passes.
SaveName ==
    IF setting.src = "evm" /\ setting.dst = "evm" /\ setting.renamed
    THEN "axelar_id" ELSE "chain"

CachedToken == itsCache["chain"]

\* find_cached_salt.
Salts == {itsCache[n] : n \in Names} \ {0}

Registered(t) == remote[t] = Deployed

Take(t, from) ==
    /\ token' = t /\ origin' = from
    /\ Proceed
    /\ UNCHANGED <<itsCache, message>>

Refuse == Fail /\ UNCHANGED tokenVars

DeployNew == Continue("local") /\ UNCHANGED tokenVars

\* cached_evm_token and token_balance: a balance that cannot be read is zero.
CachedOrDeploy ==
    \/ CachedToken # 0 /\ Take(CachedToken, "cached")
    \/ DeployNew

\* its_evm_to_evm::resolve_provided_token.
ProvidedOnEvm ==
    IF Registered(explicit) THEN Take(explicit, "explicit")
    ELSE IF explicit \in Salts
         THEN /\ Continue("remote")
              /\ token' = explicit /\ origin' = "explicit"
              /\ UNCHANGED <<itsCache, message>>
         ELSE Refuse

\* reusable_config_axe: a configured token of which the wallet holds too little, or
\* an unreadable amount, fails the run.
ConfigShort(held) == setting.configured /\ ~held

\* its_evm_to_evm::resolve_or_deploy_token: the configured token is looked at first,
\* even when the run is told to use another.
TokenEvmToEvm(held) ==
    CASE ConfigShort(held) -> Refuse
      [] ~ConfigShort(held) /\ explicit # 0 -> ProvidedOnEvm
      [] setting.configured /\ held /\ explicit = 0 -> Take(1, "config")
      [] ~setting.configured /\ explicit = 0 -> CachedOrDeploy

\* its_evm_to_sol::resolve_explicit_token: on Hedera there is no other way.
ExplicitOnSol ==
    CASE explicit # 0 -> Take(explicit, "explicit")
      [] explicit = 0 /\ setting.configured -> Take(1, "config")
      [] explicit = 0 /\ ~setting.configured -> Refuse

\* its_evm_to_sol::resolve_or_deploy_token.
TokenEvmToSol(held) ==
    CASE ConfigShort(held) -> Refuse
      [] ~ConfigShort(held) /\ (setting.hedera \/ explicit # 0) -> ExplicitOnSol
      [] setting.configured /\ held /\ ~setting.hedera /\ explicit = 0 -> Take(1, "config")
      [] ~setting.configured /\ ~setting.hedera /\ explicit = 0 -> CachedOrDeploy

CachedOnStellar_Unchecked == CachedOrDeploy

\* its_evm_to_stellar::resolve_cached_or_deploy: a cached token has to be registered
\* on Stellar.
CachedOnStellar ==
    \/ CachedToken # 0 /\ Registered(CachedToken) /\ Take(CachedToken, "cached")
    \/ DeployNew

\* its_evm_to_stellar::resolve_provided_token.
ProvidedOnStellar ==
    IF Registered(explicit) THEN Take(explicit, "explicit") ELSE Refuse

\* its_evm_to_stellar::resolve_or_deploy_token: a configured token that Stellar does
\* not know is passed over.
TokenEvmToStellar(held) ==
    CASE ConfigShort(held) -> Refuse
      [] ~ConfigShort(held) /\ explicit # 0 -> ProvidedOnStellar
      [] setting.configured /\ held /\ explicit = 0 /\ Registered(1) -> Take(1, "config")
      [] explicit = 0 /\ ~(setting.configured /\ Registered(1)) /\ ~ConfigShort(held) ->
            CachedOnStellar

\* The order the other three share.
ExplicitConfigCached(held) ==
    CASE explicit # 0 -> Take(explicit, "explicit")
      [] explicit = 0 /\ ConfigShort(held) -> Refuse
      [] explicit = 0 /\ setting.configured /\ held -> Take(1, "config")
      [] explicit = 0 /\ ~setting.configured -> CachedOrDeploy

\* its_evm_to_sol_with_data::resolve_its_token.
TokenWithData(held) == ExplicitConfigCached(held)

\* its_sol_to_evm::setup_its_token.
TokenSol(held) == ExplicitConfigCached(held)

\* its_stellar_source::setup_token.
TokenStellar(held) == ExplicitConfigCached(held)

\* Any lookup on the way may fail the run.
ResolveToken ==
    /\ At("token", "begin")
    /\ \/ \E held \in BOOLEAN :
            CASE route[1] = "its_data" -> TokenWithData(held)
              [] route[1] = "its" /\ route[2] = "svm" -> TokenSol(held)
              [] route[1] = "its" /\ route[2] = "stellar" -> TokenStellar(held)
              [] route = <<"its", "evm", "evm">> -> TokenEvmToEvm(held)
              [] route = <<"its", "evm", "svm">> -> TokenEvmToSol(held)
              [] route = <<"its", "evm", "stellar">> -> TokenEvmToStellar(held)
       \/ Refuse
    /\ UNCHANGED <<spent, receiverVars, remote, waitVars>>

\* The source chain's deployment; when its receipt is lost the run fails and nobody
\* knows the token.
DeployLocal ==
    /\ At("token", "local")
    /\ Len(remote) < MaxTokens
    /\ spent' = TRUE
    /\ \/ /\ Continue("remote")
          /\ remote' = Append(remote, 0)
          /\ token' = Len(remote') /\ origin' = "deployed"
          /\ UNCHANGED <<itsCache, message>>
       \/ Refuse /\ UNCHANGED remote
    /\ UNCHANGED <<receiverVars, waitVars>>

\* After the remote deployment an EVM source saves its cache at once, and leaves the
\* waiting to its route; the other sources wait here.
AfterRemote ==
    IF setting.src = "evm"
    THEN IF origin = "deployed" THEN Continue("save") ELSE Proceed
    ELSE Continue("wait")

RequestRemote == remote' = [remote EXCEPT ![token] = IF @ = 0 THEN Requested ELSE @]

\* deploy_its_token and remote_deploy_existing_token: a receipt without the gateway's
\* event, a reverted one among them, ends the second and is overlooked by the first.
DeployRemoteEvm ==
    /\ At("token", "remote") /\ setting.src = "evm"
    /\ spent' = TRUE
    /\ \/ RequestRemote /\ message' = TRUE /\ AfterRemote
       \/ RequestRemote /\ message' = FALSE /\ Fail
       \/ /\ UNCHANGED <<remote, message>>
          /\ IF origin = "deployed" THEN AfterRemote \/ Fail ELSE Fail
    /\ UNCHANGED <<receiverVars, itsCache, token, origin, waitVars>>

\* its_stellar_source::deploy_token and deploy_fresh_source_token: anything but a
\* success with its message id is an error.
DeployRemoteOther ==
    /\ At("token", "remote") /\ setting.src # "evm"
    /\ spent' = TRUE
    /\ \/ RequestRemote /\ message' = TRUE /\ AfterRemote
       \/ RequestRemote /\ message' = FALSE /\ Fail
       \/ UNCHANGED <<remote, message>> /\ Fail
    /\ UNCHANGED <<receiverVars, itsCache, token, origin, waitVars>>

\* save_its_cache.
SaveToken ==
    /\ At("token", "save")
    /\ itsCache' = [itsCache EXCEPT ![SaveName] = token]
    /\ Proceed
    /\ UNCHANGED <<spent, receiverVars, token, origin, message, remote, waitVars>>

Waiting == At("token", "wait") \/ Running("wait")

\* The loop of the destination's wait, until its phase is Done.
Wait ==
    /\ Waiting /\ message /\ phase # "Done"
    /\ CASE setting.dst = "evm" -> WaitEvm(token, setting.legacy)
         [] setting.dst = "stellar" -> WaitStellar(token)
         [] setting.dst = "svm" -> WaitSolana(token)
    /\ UNCHANGED <<setting, runVars, receiverVars, tokenVars, remote>>

\* A wait that ended saves the cache or moves on; without a message id there is
\* nothing to wait for.
WaitEnds ==
    /\ Waiting /\ (message => phase = "Done")
    /\ IF Here = "token" THEN Continue("save") ELSE Proceed
    /\ UNCHANGED <<spent, receiverVars, tokenVars, remote, waitVars>>

\* ensure_not_timed_out, or an error of one of the polls.
WaitFails ==
    /\ Waiting /\ message /\ phase # "Done"
    /\ Fail
    /\ UNCHANGED <<spent, receiverVars, tokenVars, remote, waitVars>>

Hub ==
    /\ \E t \in DOMAIN remote : Relay(t)
    /\ UNCHANGED <<setting, runVars, receiverVars, tokenVars>>

Ended ==
    /\ status # "running" /\ runs = MaxRuns
    /\ UNCHANGED vars

ReceiverNext ==
    \E side \in Sides :
        \/ CheckReceiverGateway(side)
        \/ \E slot \in Slots :
              SkipCandidate(side, slot) \/ EmptyRead(side, slot) \/ ReuseReceiver(side, slot)
        \/ DeployReceiver(side) \/ SaveReceiver(side) \/ ReceiverFails(side)
        \/ RecordReceiver(side) \/ ReplaceGateway(side)

TokenNext ==
    \/ ResolveToken \/ DeployLocal \/ DeployRemoteEvm \/ DeployRemoteOther \/ SaveToken
    \/ Wait \/ WaitEnds \/ WaitFails

Next ==
    \/ Start \/ Crash \/ Check \/ CheckBurst \/ CheckGateway \/ Spend \/ Send
    \/ ReceiverNext \/ TokenNext \/ Hub \/ Ended

Spec == Init /\ [][Next]_vars

-----------------------------------------------------------------------------

\* The checks a route makes when it may have paid already.
LateChecks(r) ==
    (IF r[1] = "gmp" /\ (r[2] \in {"evm", "svm"} \/ r[3] = "evm") THEN {"arguments"} ELSE {})
    \cup (IF r[1] = "gmp" /\ r[3] = "evm" /\ r[2] # "sui" THEN {"wallet"} ELSE {})
    \cup (IF r \in {<<"gmp", "evm", "evm">>, <<"gmp", "stellar", "evm">>, <<"its", "xrpl", "evm">>}
          THEN {"config"} ELSE {})
    \cup (IF r \in {<<"its", "evm", "svm">>, <<"its", "evm", "stellar">>,
                    <<"its_data", "evm", "svm">>}
          THEN {"recipient"} ELSE {})

\* A run that one of its checks refuses has sent nothing: no route asks for the mode of the
\* run, its endpoints, the contracts of its verification or a linked token after it may
\* have paid, and each route asks for the rest before it, except for its LateChecks.  Those
\* are the payload and the gas value of most message routes (prepare_stellar_gmp_source,
\* run_sui_to_evm, and evm_sender and sol_sender after a receiver was deployed or keys were
\* funded), the second wallet and second chain of message routes to EVM, the multisig
\* address of its_xrpl_to_evm and the recipient of three token routes.
RefusedBeforeSpending ==
    status = "failed" /\ spent /\ Here \in Checks \cup {"burst", "gateway"} =>
        Here \in LateChecks(route)

\* The receiver a run settles on is wired to the gateway the configuration names,
\* also after that gateway was replaced or an earlier deployment reverted; the one
\* exception is a receiver whose deployment reverted in this very run.
LiveReceiverUsed ==
    \A side \in Sides :
        using[side] # 0 =>
            \/ using[side] \in Live(side)
            \/ side \in fresh /\ receivers[using[side]] = 0

\* A receiver that is recorded and live is neither deployed again nor replaced in the cache,
\* whatever failed in the runs before, unless each of the attempts to read its code came
\* back empty or the overlay that records it does not parse: a single failed or empty read,
\* as load-balanced endpoints give, is not enough (sender_receiver_is_valid).
LiveReceiverNotRedeployed ==
    \A side \in Sides, slot \in Slots :
        /\ Running(ReceiverStep(side)) /\ task \in {"deploy", "save"}
        /\ Candidate(slot, side) \in Live(side)
        => empty[slot] = Attempts \/ (slot = "overlay" /\ unparsed)

\* How far a finished wait proves the deployment has come.
ProvenStage == IF setting.dst = "stellar" \/ setting.legacy THEN Deployed ELSE Routed

\* A run that waited for a remote deployment and goes on to send moves a token that is
\* registered on Stellar or executed on a legacy chain, and elsewhere at least routed.
\* So does, from Solana and Stellar and to Stellar, a run that found the token in the
\* cache, although the run that deployed it may have died or timed out.
TokenHasArrived ==
    /\ status = "sending"
    /\ \/ message
       \/ origin = "cached" /\ (setting.src # "evm" \/ setting.dst = "stellar")
    => remote[token] >= ProvenStage
=============================================================================
