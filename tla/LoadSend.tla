------------------------------ MODULE LoadSend ------------------------------
(***************************************************************************)
(* A load-test run from the funding of its keys to its verdict.  The main    *)
(* wallet tops up the derived keys and hands out the token, transfer by      *)
(* transfer, and a run that fails there is started again; then the burst,    *)
(* serial or sustained scheduler submits, the submissions settle in any      *)
(* order, the confirmed ones are verified at the destination, and            *)
(* finish_report decides.                                                    *)
(***************************************************************************)
EXTENDS LoadPipelines, Functions

CONSTANTS
    Cases,         \* <<route, plan>> pairs under test
    FaucetAmount,  \* what a faucet gives, whatever is asked for
    MaxRuns        \* how often a run that fails while funding is started again

ASSUME SendAssumption ==
    /\ \A c \in Cases : c[1] \in SupportedRoutes /\ IsPlan(c[2]) /\ Runs(c[1], c[2])
    /\ {MaxRuns, FaucetAmount} \subseteq Nat \ {0}

VARIABLES
    run,        \* the route, the plan, a Hedera source, keys filled from a faucet
    stage,      \* "fund", "distribute", "approve", "ready", "send", "verify", "failed", "done"
    runs,       \* runs started
    gas,        \* native balance of each derived key
    tok,        \* its token balance, in transfers
    todo,       \* the transfers this stage still has to make: <<key, amount>>, or Unread
    late,       \* transfers given up, or only accepted, that may land: <<what, key, amount>>
    doubled,    \* keys such a transfer reached, and keys whose balance was unreadable
    sent,       \* the submissions, in the order they were fired
    nonces,     \* the local nonce counters of a pinned run
    account,    \* transactions of each wallet that are in a block
    stopped,    \* Ctrl-C was seen
    broken,     \* a submission task died
    verdict     \* "none", "green" or "red"

fundVars == <<runs, gas, tok, todo, late, doubled>>
sendVars == <<sent, nonces, account, stopped, broken>>
vars == <<run, stage, fundVars, sendVars, verdict>>

Plan == run.plan
Pipe == Pipeline(run.route, Plan)
Slots == 0 .. Plan.keys - 1
Derived == Derives(run.route, Plan, run.hedera)
Wallet(slot) == IF Derived THEN slot ELSE -1
KeyBudget == Budget(run.route, Plan)
KeyShare == Share(run.route, Plan)
Unread == {<<-1, 0>>}    \* the stage has not looked yet

\* The keys are dealt with in their order.
Turn == CHOOSE t \in todo : \A u \in todo : t[1] <= u[1]
Later == todo \ {Turn}

Init ==
    /\ \E c \in Cases, hedera, faucet \in BOOLEAN :
          /\ hedera => AsksForHedera(c[1], c[2])
          /\ faucet => c[1][2] \in {"stellar", "xrpl"}
          /\ run = [route |-> c[1], plan |-> c[2], hedera |-> hedera, faucet |-> faucet]
    /\ stage = "fund" /\ runs = 1
    \* What earlier runs left behind: nothing, just enough, or enough and nearly so.
    /\ \E rich \in {{}, {0}, Slots} :
          /\ gas = [k \in Slots |-> CASE k \in rich -> KeyBudget.threshold
                                      [] rich = {} -> 0
                                      [] OTHER -> KeyBudget.threshold - 1]
          /\ tok = [k \in Slots |-> IF k \in rich \/ KeyShare = 0 THEN KeyShare
                                    ELSE KeyShare - 1]
    /\ todo = Unread /\ late = {} /\ doubled = {}
    /\ sent = <<>> /\ nonces = [k \in Slots |-> 0]
    /\ account = [w \in -1 .. Plan.keys - 1 |-> 0]
    /\ stopped = FALSE /\ broken = FALSE /\ verdict = "none"

-----------------------------------------------------------------------------
(* Funding the keys: ensure_funded, ensure_funded_for_sustained,             *)
(* ensure_funded_evm_with_extra, ensure_funded_xrpl, stellar_funding_needs.  *)

\* Every balance is read before the first transfer, and the deficit noted.
GasDeficits_WholeTarget ==
    {<<k, KeyBudget.target>> : k \in {j \in Slots : gas[j] < KeyBudget.threshold}}
GasDeficits ==
    {<<k, KeyBudget.target - gas[k]>> : k \in {j \in Slots : gas[j] < KeyBudget.threshold}}

\* Friendbot creates missing accounts and nothing else; the XRPL faucet is asked
\* for every key that is short.
FaucetDeficits ==
    {<<k, FaucetAmount>> :
       k \in {j \in Slots : IF run.route[2] = "stellar" THEN gas[j] = 0
                            ELSE gas[j] < KeyBudget.threshold}}

\* distribute_token_balances: all balances first, and a whole share to each key
\* that is short; a balance that cannot be read counts as none.
TokenDeficits(unreadable) ==
    {<<k, KeyShare>> : k \in {j \in Slots : j \in unreadable \/ tok[j] < KeyShare}}

\* distribute_tokens and distribute_its_tokens: each balance when its turn comes.
InTurn == stage = "distribute" /\ run.route[2] \in {"evm", "svm"}
EvmKeyShort(key, unreadable) == key \in unreadable \/ tok[key] < KeyShare
SolKeyShort(key, unreadable) == key \in unreadable \/ tok[key] < KeyShare
KeyShort(key, unreadable) ==
    IF run.route[2] = "evm" THEN EvmKeyShort(key, unreadable) ELSE SolKeyShort(key, unreadable)

FailRun ==
    /\ stage' = "failed"
    /\ UNCHANGED <<run, sendVars, verdict>>

\* The balances are read, or cannot be, or the main wallet cannot cover them.
ReadBalances ==
    /\ stage \in {"fund", "distribute"} /\ todo = Unread
    /\ \/ /\ \E unreadable \in {{}} \cup {{k} : k \in {j \in Slots : stage = "distribute"}} :
             /\ todo' = IF ~Derived THEN {}
                        ELSE CASE InTurn -> {<<k, KeyShare>> : k \in Slots}
                               [] stage = "distribute" /\ ~InTurn -> TokenDeficits(unreadable)
                               [] stage = "fund" /\ run.faucet -> FaucetDeficits
                               [] OTHER -> GasDeficits
             /\ doubled' = IF InTurn THEN doubled ELSE doubled \cup unreadable
          /\ UNCHANGED <<run, stage, sendVars, verdict>>
       \/ FailRun /\ todo' = Unread /\ UNCHANGED doubled
    /\ UNCHANGED <<runs, gas, tok, late>>

Pay(what, key, amount) ==
    IF what = "fund" THEN gas' = [gas EXCEPT ![key] = @ + amount] /\ UNCHANGED tok
    ELSE tok' = [tok EXCEPT ![key] = @ + amount] /\ UNCHANGED gas

\* The key whose turn it is has its share already.
SkipKey ==
    /\ InTurn /\ todo \notin {Unread, {}}
    /\ ~KeyShort(Turn[1], {})
    /\ todo' = Later
    /\ UNCHANGED <<run, stage, runs, gas, tok, late, doubled, sendVars, verdict>>

\* submit_signed_blob returns on the node's provisional result and the faucets on
\* their HTTP status; every other transfer is waited for.
AcceptedEnough == stage = "fund" /\ (run.faucet \/ run.route[2] = "xrpl")

\* The next transfer: it lands; or it is only accepted, and lands later or never; or
\* an error ends the run, whether or not the transfer landed, or lands later.
Transfer ==
    /\ stage \in {"fund", "distribute"} /\ todo \notin {Unread, {}}
    /\ LET key == Turn[1]  amount == Turn[2]
       IN  /\ \E unreadable \in {{}} \cup {{k} : k \in {j \in {key} : InTurn}} :
                 /\ InTurn => KeyShort(key, unreadable)
                 /\ doubled' = doubled \cup unreadable
           /\ \/ /\ Pay(stage, key, amount)
                 /\ todo' = Later
                 /\ UNCHANGED <<run, stage, late, sendVars, verdict>>
              \/ /\ AcceptedEnough
                 /\ todo' = Later
                 /\ late' = late \cup {<<stage, key, amount>>}
                 /\ UNCHANGED <<run, stage, gas, tok, sendVars, verdict>>
              \/ FailRun /\ todo' = Unread /\ UNCHANGED <<gas, tok, late>>
              \/ FailRun /\ todo' = Unread /\ Pay(stage, key, amount) /\ UNCHANGED late
              \/ /\ FailRun /\ todo' = Unread
                 /\ late' = late \cup {<<stage, key, amount>>}
                 /\ UNCHANGED <<gas, tok>>
    /\ UNCHANGED runs

\* approve_its_for_keys: a key without allowance spends a fee on one.
Approve ==
    /\ stage = "approve" /\ todo # {}
    /\ \/ /\ todo' = Later
          /\ gas' \in {gas, [gas EXCEPT ![Turn[1]] = @ - Fee]}
          /\ UNCHANGED <<run, stage, sendVars, verdict>>
       \/ FailRun /\ todo' = Unread /\ UNCHANGED gas
    /\ UNCHANGED <<runs, tok, late, doubled>>

\* A transfer nobody waits for any more lands.
TransferLands(t) ==
    /\ stage \in {"fund", "distribute", "approve", "failed"} /\ t \in late
    /\ Pay(t[1], t[2], t[3])
    /\ late' = late \ {t} /\ doubled' = doubled \cup {t[2]}
    /\ UNCHANGED <<run, stage, runs, todo, sendVars, verdict>>

\* All transfers made: on to the token, the allowances, the submissions, whichever
\* of them the route has.
NextStage ==
    /\ stage \in {"fund", "distribute", "approve"} /\ todo = {}
    /\ stage' = CASE stage = "fund" /\ KeyShare > 0 -> "distribute"
                  [] /\ stage = "distribute"
                     /\ "approve" \in Range(Steps(run.route, Plan.mode = "sustained"))
                     -> "approve"
                  [] OTHER -> "ready"
    /\ todo' = IF stage' # "approve" THEN Unread
               ELSE {<<k, 0>> : k \in {j \in Slots : Derived}}
    /\ UNCHANGED <<run, runs, gas, tok, late, doubled, sendVars, verdict>>

\* The operator starts the failed run again.
Rerun ==
    /\ stage = "failed" /\ sent = <<>> /\ runs < MaxRuns
    /\ stage' = "fund" /\ runs' = runs + 1 /\ todo' = Unread
    /\ UNCHANGED <<run, gas, tok, late, doubled, sendVars, verdict>>

\* The funding code returns and its balances are forgotten: from here on what the
\* keys hold is not followed, a submission may fail for want of it, and the run is
\* not started again.
StartSends ==
    /\ stage = "ready"
    /\ stage' = "send" /\ runs' = MaxRuns
    /\ gas' = [k \in Slots |-> 0] /\ tok' = [k \in Slots |-> 0]
    /\ late' = {} /\ doubled' = {}
    /\ UNCHANGED <<run, todo, sendVars, verdict>>

-----------------------------------------------------------------------------
(* Submitting: run_burst, run_serial, run_sustained_loop.                    *)

InFlight == {i \in DOMAIN sent : sent[i].state = "flight"}
Left == Plan.total - Len(sent)

\* A sustained run fires by the clock and takes the nonce before it submits.
NonceTaken_SharedCounter(slot) == nonces[0]
NonceTaken(slot) == nonces[slot]

MayFire ==
    /\ stage = "send" /\ Left > 0 /\ ~stopped /\ ~broken
    /\ Pipe.order = "sustained" \/ Cardinality(InFlight) < Pipe.width

Fire ==
    /\ MayFire
    /\ LET n == Len(sent)
           slot == ScheduledKey(Plan, n)
       IN  /\ sent' = Append(sent, [slot |-> slot, at |-> Tick(Plan, n), state |-> "flight",
                                    cause |-> "none", nonce |->
                                       IF Pipe.nonce = "pinned" THEN NonceTaken(slot) ELSE 0])
           /\ nonces' = IF Pipe.nonce = "pinned" THEN [nonces EXCEPT ![slot] = @ + 1]
                        ELSE nonces
    /\ UNCHANGED <<run, stage, fundVars, account, stopped, broken, verdict>>

Settle(i, state, cause) ==
    /\ sent' = [sent EXCEPT ![i].state = state, ![i].cause = cause]
    /\ UNCHANGED <<run, stage, fundVars, nonces, stopped, broken, verdict>>

Counted(i) ==
    account' = IF Pipe.nonce = "pinned"
               THEN [account EXCEPT ![Wallet(sent[i].slot)] = @ + 1] ELSE account

\* The transaction of submission i gets into a block.  One with a pinned nonce
\* waits for those before it; send_tx_robust signs again at a higher one.
Lands(i) ==
    /\ i \in InFlight
    /\ Pipe.nonce = "pinned" => sent[i].nonce <= account[Wallet(sent[i].slot)]
    /\ \E result \in {"good", "reverted", "silent"} :
          Settle(i, IF result \in Confirms(run.route) THEN result ELSE "failed",
                 IF result = "good" THEN "none" ELSE "fault")
    /\ Counted(i)

\* The submission fails; a transaction that was broadcast may still land.
Fails(i) ==
    /\ i \in InFlight
    /\ \E state \in {"failed"} \cup {s \in {"pooled"} : Pipe.nonce = "pinned"} :
          Settle(i, state, "fault")
    /\ UNCHANGED account

LandsLate(i) ==
    /\ stage = "send" /\ i \in DOMAIN sent /\ sent[i].state = "pooled"
    /\ sent[i].nonce = account[Wallet(sent[i].slot)]
    /\ Settle(i, "failed", sent[i].cause)
    /\ Counted(i)

\* A gap below the nonce never closes: the receipt wait runs out.  Submissions of
\* one wallet wait equally long, so the earlier ones have settled by then.
GivesUp(i) ==
    /\ i \in InFlight /\ Pipe.nonce = "pinned"
    /\ sent[i].nonce > account[Wallet(sent[i].slot)]
    /\ \A j \in InFlight : j < i => Wallet(sent[j].slot) # Wallet(sent[i].slot)
    /\ Settle(i, "pooled", "gap")
    /\ UNCHANGED account

\* A panicking task: a sustained run aborts the others, a burst waits for them.
Panics(i) ==
    /\ i \in InFlight /\ Pipe.order # "serial"
    /\ broken' = TRUE
    /\ sent' = [j \in DOMAIN sent |->
                  IF j = i \/ (j \in InFlight /\ Pipe.order = "sustained")
                  THEN [sent[j] EXCEPT !.state = "failed", !.cause = "fault"] ELSE sent[j]]
    /\ UNCHANGED <<run, stage, fundVars, nonces, account, stopped, verdict>>

Interrupt ==
    /\ stage = "send" /\ ~stopped
    /\ stopped' = TRUE
    /\ UNCHANGED <<run, stage, fundVars, sent, nonces, account, broken, verdict>>

\* Everything submitted has been joined.
SendsEnd ==
    /\ stage = "send" /\ InFlight = {} /\ (Left = 0 \/ stopped \/ broken)
    /\ stage' = IF broken THEN "failed" ELSE "verify"
    /\ UNCHANGED <<run, fundVars, sendVars, verdict>>

-----------------------------------------------------------------------------
(* The report. *)

Confirmed == {i \in DOMAIN sent : sent[i].state \in Confirms(run.route)}
Failures == DOMAIN sent \ Confirmed

\* The adapter of a GMP run to an EVM chain takes a message that has been routed and
\* is not approved for one that was executed.
TakesRoutedForExecuted == run.route[1] = "gmp" /\ run.route[3] = "evm"

\* The destination is watched for the confirmed submissions.  Only what succeeded
\* at the source, under the id the submitter computed, can get there.  The
\* streaming verifier may be gone before it has seen them all.
Report ==
    /\ stage = "verify"
    /\ \E verified \in SUBSET {i \in Confirmed : sent[i].state = "good"} :
       \E routed \in IF TakesRoutedForExecuted THEN SUBSET verified ELSE {{}} :
       \E unseen \in IF Pipe.verify = "stream" THEN SUBSET (Confirmed \ verified) ELSE {{}} :
       \E pending \in SUBSET (Confirmed \ (verified \cup unseen)) :
          LET bad == Confirmed \ (verified \cup unseen \cup pending)
              green == FinishReport(Cardinality(Failures), Cardinality(Confirmed),
                                    Cardinality(verified), Cardinality(pending),
                                    Cardinality(bad))
          IN  /\ verdict' = IF green THEN "green" ELSE "red"
              /\ sent' = [i \in DOMAIN sent |->
                            CASE i \in routed -> [sent[i] EXCEPT !.state = "routed"]
                              [] i \in verified \ routed ->
                                    [sent[i] EXCEPT !.state = "executed"]
                              [] OTHER -> sent[i]]
    /\ stage' = "done"
    /\ UNCHANGED <<run, fundVars, nonces, account, stopped, broken>>

\* Nothing is left to do.
Ended ==
    /\ stage = "done" \/ (stage = "failed" /\ (sent # <<>> \/ runs = MaxRuns))
    /\ UNCHANGED vars

Next ==
    \/ ReadBalances \/ SkipKey \/ Transfer \/ Approve \/ NextStage \/ Rerun \/ StartSends
    \/ \E t \in late : TransferLands(t)
    \/ Fire \/ Interrupt \/ SendsEnd
    \/ \E i \in DOMAIN sent : Lands(i) \/ Fails(i) \/ LandsLate(i) \/ GivesUp(i) \/ Panics(i)
    \/ Report \/ Ended

Spec == Init /\ [][Next]_vars

-----------------------------------------------------------------------------
(* Properties. *)

\* What one submission costs its key.
Cost ==
    CASE run.route[2] = "xrpl" -> 2 * Gas + 1 + Fee
      [] run.route[1] = "gmp" /\ run.route[2] # "xrpl" -> Gas + Fee
      [] OTHER -> 2 * Gas + Fee
Fires(slot) == Cardinality({n \in 0 .. Plan.total - 1 : ScheduledKey(Plan, n) = slot})
Kept == IF run.route[2] \in {"stellar", "xrpl"} THEN Reserve ELSE 0

\* Whether the gas budget of a key is made for n submissions.  A faucet's gift is not
\* made for any, nor is Solana's for token transfers or for a burst; Solana's sustained
\* one is for whole cycles, EVM to Sui's for two transfers, and where the budget leaves
\* out the fees they come from the minimum a key is kept at, one more for its approval.
GasMadeFor(n) ==
    /\ ~run.faucet
    /\ run.route[2] = "svm" =>
          run.route[1] = "gmp" /\ Plan.mode = "sustained" /\ n <= SolFires(Plan)
    /\ run.route[1] = "its" /\ run.route[2] = "evm" /\ run.route[3] = "sui" => n <= 2
    /\ run.route[2] \in {"evm", "stellar"} /\ run.route[3] # "xrpl" =>
          (n + 1) * Fee <= MinKey

\* An EVM key's share is a fixed number of transfers, except to XRPL and Sui.
ShareMadeFor(n) == run.route[2] = "evm" /\ run.route[3] \notin {"xrpl", "sui"} => n <= Shares

\* What a key may still be paid by a transfer that was taken for made.
Coming(k) == {0} \cup {t[3] : t \in {u \in late : u[1] = "fund" /\ u[2] = k}}

\* When the first submission goes out, every derived key holds what the submissions the
\* schedule gives it will cost, in gas and in tokens, as many of them as the budgets
\* are made for: no run starves before that.  On XRPL a key may have to wait for a
\* payment that the node has accepted and no ledger holds yet.
KeysCanPay ==
    stage = "ready" /\ Derived =>
        \A k \in Slots : \A n \in 0 .. Fires(k) :
            /\ GasMadeFor(n) => \E extra \in Coming(k) : gas[k] + extra - Kept >= n * Cost
            /\ KeyShare > 0 /\ ShareMadeFor(n) => tok[k] >= n

\* However often funding fails half way and is started again, a key is never
\* filled above its target or given a second share on top of one, unless a
\* transfer the run had not waited for, or had given up on, landed after all or its
\* token balance could not be read.
NoKeyOverfunded ==
    \A k \in Slots : k \in doubled \/ run.faucet \/
        /\ gas[k] <= KeyBudget.target
        /\ KeyShare > 0 => tok[k] < 2 * KeyShare

\* A submission that gives up on a nonce gap is behind a failure of its own wallet:
\* trouble with one key never spreads to another.
FailuresStayWithTheirKey ==
    \A i \in DOMAIN sent : sent[i].cause = "gap" =>
        \E j \in 1 .. i - 1 : /\ Wallet(sent[j].slot) = Wallet(sent[i].slot)
                              /\ sent[j].cause = "fault"

\* What the verifier counts as executed.
Arrived == {"executed"} \cup (IF TakesRoutedForExecuted THEN {"routed"} ELSE {})

\* A green run that was verified after its sends has had every one of its
\* submissions executed at the destination, although some senders take a reverted
\* or unidentified transaction for a confirmed one; one verified beside its sends
\* has had none fail, and at least one executed.  To an EVM chain, a GMP run means
\* only that they were routed there.
GreenMeansExecuted ==
    verdict = "green" =>
        /\ \A i \in DOMAIN sent : sent[i].state \notin {"failed", "pooled", "flight"}
        /\ Pipe.verify = "batch" => \A i \in DOMAIN sent : sent[i].state \in Arrived
        /\ sent # <<>> => \E i \in DOMAIN sent : sent[i].state \in Arrived

-----------------------------------------------------------------------------
(* What the safety properties rest on.                                       *)

Submissions ==
    [slot : Slots, at : Nat, cause : {"none", "fault", "gap"}, nonce : Nat,
     state : {"flight", "good", "reverted", "silent", "failed", "pooled", "executed",
              "routed"}]

FundTypeOK ==
    /\ runs \in Nat
    /\ gas \in [Slots -> Int] /\ tok \in [Slots -> Nat]
    /\ todo # Unread => todo \subseteq Slots \X Nat
    /\ late \subseteq {"fund", "distribute"} \X Slots \X Nat
    /\ doubled \subseteq Slots
SendTypeOK ==
    /\ sent \in Seq(Submissions)
    /\ nonces \in [Slots -> Nat]
    /\ account \in [-1 .. Plan.keys - 1 -> Nat]
    /\ stopped \in BOOLEAN /\ broken \in BOOLEAN
TypeOK ==
    /\ run.route \in SupportedRoutes /\ IsPlan(Plan) /\ run.faucet \in BOOLEAN
    /\ stage \in {"fund", "distribute", "approve", "ready", "send", "verify", "failed", "done"}
    /\ verdict \in {"none", "green", "red"}
    /\ FundTypeOK /\ SendTypeOK

\* A stage comes to a key at most once, and a transfer that was found necessary still is
\* when its turn comes, unless the key was given something behind the run's back.
TransfersFit ==
    /\ \A t, u \in todo : t[1] = u[1] => t = u
    /\ stage = "approve" => todo # Unread
    /\ stage \in {"fund", "distribute"} /\ todo # Unread =>
          \A t \in todo : t[1] \in doubled \/ run.faucet \/
             IF stage = "fund" THEN gas[t[1]] + t[2] <= KeyBudget.target
             ELSE t[2] = KeyShare /\ (~InTurn => tok[t[1]] < KeyShare)

Promised(k) == \E extra \in Coming(k) : gas[k] + extra >= KeyBudget.threshold

\* A key the funding stage has left has its threshold, on XRPL perhaps only once a
\* payment has landed; so does one it will still come to, once the transfer is made.
\* Approving takes one fee of it.
KeysFilled ==
    Derived /\ ~run.faucet => \A k \in Slots :
        /\ stage = "fund" /\ todo # Unread =>
              \/ gas[k] >= KeyBudget.threshold
              \/ \E t \in todo : t[1] = k /\ gas[k] + t[2] >= KeyBudget.threshold
              \/ run.route[2] = "xrpl" /\ Promised(k)
        /\ stage = "distribute" => gas[k] >= KeyBudget.threshold
        /\ stage = "approve" =>
              \/ gas[k] >= KeyBudget.threshold
              \/ gas[k] >= KeyBudget.threshold - Fee /\ \A t \in todo : t[1] # k
        /\ stage = "ready" =>
              \/ gas[k] >= KeyBudget.threshold - IF KeyShare > 0 THEN Fee ELSE 0
              \/ run.route[2] = "xrpl" /\ Promised(k)

\* The same of the shares, which only the routes that move a token hand out.
SharesGiven ==
    /\ stage \in {"distribute", "approve"} => KeyShare > 0
    /\ Derived => \A k \in Slots :
          /\ stage = "distribute" /\ todo # Unread =>
                tok[k] >= KeyShare \/ <<k, KeyShare>> \in todo
          /\ stage \in {"approve", "ready"} => tok[k] >= KeyShare

\* The submissions of a slot, those before submission i, and the ones of a wallet that
\* are in a block and did not fail.
Fired(slot) == {j \in DOMAIN sent : sent[j].slot = slot}
Before(i) == {j \in 1 .. i - 1 : sent[j].slot = sent[i].slot}
Landed(w) ==
    {j \in DOMAIN sent : /\ Wallet(sent[j].slot) = w
                         /\ sent[j].state # "flight" /\ sent[j].cause = "none"}

\* A pinned nonce is covered by the submissions before it, and the account's count by
\* those that landed.
NoncesCovered ==
    Pipe.nonce = "pinned" =>
        /\ \A slot \in Slots : nonces[slot] <= Cardinality(Fired(slot))
        /\ \A i \in DOMAIN sent : sent[i].nonce <= Cardinality(Before(i))
        /\ \A w \in -1 .. Plan.keys - 1 : Cardinality(Landed(w)) <= account[w]

\* What is in flight has no failure yet, and what is left in the pool has one.
CausesKnown ==
    \A i \in DOMAIN sent :
        /\ sent[i].state = "flight" => sent[i].cause = "none"
        /\ sent[i].state = "pooled" => sent[i].cause # "none"

\* There is a verdict once the run is over.
VerdictEnds == verdict # "none" => stage = "done"

FundInv == TransfersFit /\ NoKeyOverfunded /\ KeysFilled /\ SharesGiven
SubmitInv == NoncesCovered /\ CausesKnown /\ FailuresStayWithTheirKey
SendInv == TypeOK /\ FundInv /\ SubmitInv /\ VerdictEnds /\ GreenMeansExecuted
=============================================================================
