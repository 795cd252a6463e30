---------------------------- MODULE HardenedEvm -----------------------------
(***************************************************************************)
(* The hardened deployment's EVM transactions: the journal, the run that     *)
(* reconciles it and executes the pending steps, and the recovery options    *)
(* (fee replacement, retry of a proven failure), over an account whose chain *)
(* can reorganize and whose node can lag.  One signer is modelled: nonces,   *)
(* gas budget and journal checks are per sender in the code.                 *)
(*                                                                         *)
(* Durable state is journal.json (actions, attempts, confirmations, policy)  *)
(* and state.json (completed steps, fingerprint, predicted nonce); each file *)
(* is replaced atomically (storage.rs).  The rest is the memory of one run:  *)
(* run.lock admits one process, and a crash, an error or a pause ends it.    *)
(***************************************************************************)
EXTENDS EvmAccount, FiniteSetsExt

CONSTANTS
    Steps,         \* the deployment's steps: a sequence of sequences of keys
    Rank,          \* the order of the keys in the journal's BTreeMap
    Creates,       \* the keys whose transaction is a CREATE
    SafeCreates,   \* the CREATE keys a retry may move to another address
    Pinned,        \* the gateway's CREATE keys, "AxelarGateway/..."
    PinOffset,     \* 0 for the gateway implementation, 1 for its proxy
    PredictStep,   \* the step that pins the gateway's nonce (0: none)
    Checkpoint,    \* the verifier checkpoint step (0: none)
    Policies,      \* confirmation policies in use: 0 = finalized, c = c blocks
    Fees,          \* the fees the market may ask of a transaction
    Budget         \* plan.evm_gas_budget

ASSUME StepsAssumption == Steps \in Seq(Seq(Keys))
ASSUME KeySetsAssumption ==
    /\ SafeCreates \subseteq Creates
    /\ Pinned \subseteq Creates
    /\ Creates \subseteq Keys
    /\ Pinned \cap SafeCreates = {}
    /\ PinOffset \in [Pinned -> Nat]
    /\ Rank \in [Keys -> Nat]
ASSUME NumbersAssumption ==
    /\ Policies \subseteq Nat
    /\ Policies # {}
    /\ Fees \subseteq Nat
    /\ Budget \in Nat
    /\ PredictStep \in Nat
    /\ Checkpoint \in Nat

VARIABLES
    actions,      \* journal: the current signed transaction of each key
    attempts,     \* journal: replaced and retired transactions
    confirms,     \* journal: receipts that met the confirmation policy
    policy,       \* journal: the confirmation policy
    present,      \* journal.json exists
    done,         \* state: how many steps are completed
    marked,       \* state: the fingerprint of an opened journal is saved
    predicted,    \* state: nonce of the predicted gateway implementation (0: none)
    pc,           \* where the run is
    mode,         \* which caller `resume` returns to
    todo,         \* journaled transactions still to reconcile
    saved,        \* the transaction being resumed or proven failed
    receipt,      \* the receipt being confirmed
    pos,          \* position in the pending step's keys
    opt           \* the options of this run

journalVars == <<actions, attempts, confirms, policy, present>>
stateVars == <<done, marked, predicted>>
runVars == <<pc, mode, todo, saved, receipt, pos, opt>>
vars == <<chainVars, journalVars, stateVars, runVars>>

NoTx == [key |-> Foreign, nonce |-> 0, cost |-> 0]
NoReceipt == [tx |-> NoTx, ok |-> FALSE, height |-> 0, fork |-> 0]
NoOptions == [bump |-> {}, retry |-> {}, activate |-> FALSE]

\* --bump-fees and --retry-failed name one action each and exclude one another;
\* --activate only matters to a deployment with a verifier checkpoint.
Options ==
    {o \in [bump : SUBSET Keys, retry : SUBSET Keys, activate : BOOLEAN] :
        /\ Cardinality(o.bump) + Cardinality(o.retry) <= 1
        /\ o.activate => Checkpoint > 0}

PCs == {"off", "opened", "reconcile", "lookup", "count", "bump", "broadcast",
        "poll", "depth", "canon", "retire", "step", "sign", "approve"}

TypeOK ==
    /\ ChainTypeOK
    /\ actions \in SUBSET Tx
    /\ attempts \in SUBSET Tx
    /\ confirms \in SUBSET Receipt
    /\ policy \in Policies
    /\ present \in BOOLEAN
    /\ done \in 0 .. Len(Steps)
    /\ marked \in BOOLEAN
    /\ predicted \in Nat
    /\ pc \in PCs
    /\ mode \in {"none", "reconcile", "retry", "step"}
    /\ todo \in SUBSET Tx
    /\ saved \in AnyTx
    /\ receipt \in Receipt
    /\ pos \in Nat \ {0}
    /\ opt \in [bump : SUBSET Keys, retry : SUBSET Keys, activate : BOOLEAN]

Init ==
    /\ ChainInit
    /\ actions = {}
    /\ attempts = {}
    /\ confirms = {}
    /\ policy \in Policies
    /\ present = FALSE
    /\ done = 0
    /\ marked = FALSE
    /\ predicted = 0
    /\ pc = "off"
    /\ mode = "none"
    /\ todo = {}
    /\ saved = NoTx
    /\ receipt = NoReceipt
    /\ pos = 1
    /\ opt = NoOptions

-----------------------------------------------------------------------------
(* The journal's queries.                                                    *)

Journaled == actions \cup attempts

HasAction(k) == \E t \in actions : t.key = k

\* The hashes that compete for the saved transaction's nonce.
Competing(t) == {a \in attempts : a.key = t.key /\ a.nonce = t.nonce} \cup {t}

\* Replacements at one nonce exclude one another: the dearest is reserved.
Liability(txs) ==
    SumFunction([n \in {t.nonce : t \in txs} |->
                    Max({t.cost : t \in {u \in txs : u.nonce = n}})])

\* Mutant: the candidate's own cost is not counted.
WithinBudgetOfPast(t, replacing) == Liability(Journaled) <= Budget

\* A new transaction is added to the liability, a replacement raises its nonce's.
WithinBudget(t, replacing) ==
    IF replacing THEN Liability(Journaled \cup {t}) <= Budget
                 ELSE Liability(Journaled) + t.cost <= Budget

\* A retry advances the nonce past the key's last attempt.
RetryAdvances(t) == \A a \in attempts : a.key = t.key => t.nonce > a.nonce

\* What the code looks for at a node of height h: a receipt of a competing hash.
Included(t, h) == {r \in Seen(h) : r.tx \in Competing(t)}

\* A cached receipt whose block the node does not have stops the run.
BlockUnavailable(t, h) == \E c \in confirms : c.tx \in Competing(t) /\ c.height > h

\* The height the policy's head must reach.
RequiredHeight(p, inclusion) == IF p = 0 THEN inclusion ELSE inclusion + p - 1

\* Mutant: the finalized policy reads the latest block.
HeadsForLatest(p) == Heights

\* The heads a node may report for the policy's block tag.
HeadsFor(p) == IF p = 0 THEN 0 .. final ELSE Heights

\* Mutant: the retry's proof follows the deployment's policy.
WaitPolicySaved == policy

\* The retry's proof always waits for finality.
WaitPolicy == IF mode = "retry" THEN 0 ELSE policy

-----------------------------------------------------------------------------
(* Starting a run.                                                           *)

\* The end of a run: its memory is gone.
ResetRun ==
    /\ pc' = "off"
    /\ mode' = "none"
    /\ todo' = {}
    /\ saved' = NoTx
    /\ receipt' = NoReceipt
    /\ pos' = 1
    /\ opt' = NoOptions

Stop ==
    /\ ResetRun
    /\ UNCHANGED <<chainVars, journalVars, stateVars>>

\* A missing journal is only acceptable before the deployment ever opened one.
JournalAcceptable == present \/ (~marked /\ done = 0)

\* --activate is refused before the verifier checkpoint.
ActivationValid(o) == o.activate => done + 1 >= Checkpoint

\* The run takes its locks, reads or creates the journal and saves the policy.
Start(o, p) ==
    /\ pc = "off"
    /\ JournalAcceptable
    /\ ActivationValid(o)
    /\ present' = TRUE
    /\ policy' = p
    /\ actions' = IF present THEN actions ELSE {}
    /\ attempts' = IF present THEN attempts ELSE {}
    /\ confirms' = IF present THEN confirms ELSE {}
    /\ opt' = o
    /\ pc' = "opened"
    /\ UNCHANGED <<chainVars, stateVars, mode, todo, saved, receipt, pos>>

StartSome == \E o \in Options, p \in Policies : Start(o, p)

\* --bump-fees and --retry-failed must name a journaled action.
OptionsValid == \A k \in opt.bump \cup opt.retry : HasAction(k)

\* The fingerprint is saved to state.json before anything can be signed; the
\* journal's actions are then snapshotted for reconciliation.
Open ==
    /\ pc = "opened"
    /\ marked' = TRUE
    /\ \/ /\ OptionsValid
          /\ todo' = actions
          /\ pc' = "reconcile"
          /\ UNCHANGED <<mode, saved, receipt, pos, opt>>
       \/ /\ ~OptionsValid
          /\ ResetRun
    /\ UNCHANGED <<chainVars, journalVars, done, predicted>>

-----------------------------------------------------------------------------
(* Reconciliation of every journaled transaction, in the map's key order.    *)

IsNext(t) == \A u \in todo : Rank[t.key] <= Rank[u.key]

KeysOf(step) == {Steps[step][i] : i \in DOMAIN Steps[step]}

\* Only an action of the next pending step is retried, never a gateway CREATE,
\* and another CREATE only while nothing later is signed by its account.
RetryAllowed(t) ==
    /\ done < Len(Steps)
    /\ t.key \in KeysOf(done + 1)
    /\ t.key \notin Pinned
    /\ t.key \in Creates =>
          /\ t.key \in SafeCreates
          /\ \A u \in Journaled : u.nonce <= t.nonce

ReconcileNext(t) ==
    /\ pc = "reconcile"
    /\ IsNext(t)
    /\ t.key \in opt.retry => RetryAllowed(t)
    /\ todo' = todo \ {t}
    /\ saved' = t
    /\ mode' = IF t.key \in opt.retry THEN "retry" ELSE "reconcile"
    /\ pc' = "lookup"
    /\ UNCHANGED <<chainVars, journalVars, stateVars, receipt, pos, opt>>

ReconcileSome == \E t \in todo : ReconcileNext(t)

ReconcileDone ==
    /\ pc = "reconcile"
    /\ todo = {}
    /\ pc' = "step"
    /\ UNCHANGED <<chainVars, journalVars, stateVars, mode, todo, saved, receipt, pos, opt>>

-----------------------------------------------------------------------------
(* Resuming one signed transaction.                                          *)

\* A competing hash has a receipt.  A retry must not touch a successful one.
Found(r) ==
    /\ ~(mode = "retry" /\ r.ok)
    /\ receipt' = r
    /\ pc' = "depth"
    /\ UNCHANGED <<chainVars, journalVars, stateVars, mode, todo, saved, pos, opt>>

Lookup ==
    /\ pc \in {"lookup", "poll"}
    /\ \E h \in Heights : \E r \in Included(saved, h) : Found(r)

\* No receipt: go on to the nonce check, unless this is a retry's proof.
NotFound ==
    /\ pc = "lookup"
    /\ mode # "retry"
    /\ \E h \in Heights : Included(saved, h) = {} /\ ~BlockUnavailable(saved, h)
    /\ pc' = "count"
    /\ UNCHANGED <<chainVars, journalVars, stateVars, mode, todo, saved, receipt, pos, opt>>

\* The nonce is still free; replace the fee if the operator asked for it.
CheckNonce ==
    /\ pc = "count"
    /\ \E h \in Heights : Count(h) < saved.nonce
    /\ pc' = IF saved.key \in opt.bump THEN "bump" ELSE "broadcast"
    /\ UNCHANGED <<chainVars, journalVars, stateVars, mode, todo, saved, receipt, pos, opt>>

\* A replacement keeps the nonce and at least doubles the fee.
Replacement(t, fee) == [t EXCEPT !.cost = 2 * (IF fee > t.cost THEN fee ELSE t.cost)]

\* Mutant: the replaced hash is not kept.
ReplaceOnly(new) ==
    /\ actions' = (actions \ {saved}) \cup {new}
    /\ UNCHANGED <<attempts, confirms, policy, present>>

\* The approved replacement becomes the action, the old hash an attempt.
Replace(new) ==
    /\ actions' = (actions \ {saved}) \cup {new}
    /\ attempts' = attempts \cup {saved}
    /\ UNCHANGED <<confirms, policy, present>>

Bump(fee) ==
    /\ pc = "bump"
    /\ WithinBudget(Replacement(saved, fee), TRUE)
    /\ Replace(Replacement(saved, fee))
    /\ saved' = Replacement(saved, fee)
    /\ pc' = "broadcast"
    /\ UNCHANGED <<chainVars, stateVars, mode, todo, receipt, pos, opt>>

BumpSome == \E fee \in Fees : Bump(fee)

Broadcast ==
    /\ pc = "broadcast"
    /\ pool' = pool \cup {saved}
    /\ pc' = "poll"
    /\ UNCHANGED <<hist, head, final, fork, drops, journalVars, stateVars,
                   mode, todo, saved, receipt, pos, opt>>

\* The node answers with an error: the transaction may still have reached it.
BroadcastUnresolved ==
    /\ pc = "broadcast"
    /\ pool' \in {pool, pool \cup {saved}}
    /\ ResetRun
    /\ UNCHANGED <<hist, head, final, fork, drops, journalVars, stateVars>>

-----------------------------------------------------------------------------
(* Waiting for the confirmation policy, then recording the receipt.          *)

\* The policy's head is high enough.  The receipt is only compared with the
\* canonical chain after this read.
DeepEnough ==
    /\ pc = "depth"
    /\ \E h \in HeadsFor(WaitPolicy) : h >= RequiredHeight(WaitPolicy, receipt.height)
    /\ pc' = "canon"
    /\ UNCHANGED <<chainVars, journalVars, stateVars, mode, todo, saved, receipt, pos, opt>>

\* Not yet: the receipt is fetched again after a pause.
Refetch ==
    /\ pc = "depth"
    /\ \E h \in HeadsFor(WaitPolicy) : h < RequiredHeight(WaitPolicy, receipt.height)
    /\ \E h \in Heights : \E r \in Seen(h) :
          /\ r.tx = receipt.tx
          /\ receipt' = r
    /\ UNCHANGED <<chainVars, journalVars, stateVars, pc, mode, todo, saved, pos, opt>>

Confirm(r) == confirms' = {c \in confirms : c.tx # r.tx} \cup {r}

\* What a confirmed receipt means to the caller: a reverted transaction ends
\* the run, or is what a retry set out to prove; a successful one lets
\* reconciliation or the step go on.
Confirmed ==
    /\ pc = "canon"
    /\ \E h \in Heights : IsCanonical(receipt, h)
    /\ Confirm(receipt)
    /\ \/ /\ mode = "retry" /\ ~receipt.ok
          /\ pc' = "retire"
          /\ UNCHANGED <<mode, todo, saved, receipt, pos, opt>>
       \/ /\ (mode = "retry") = receipt.ok
          /\ ResetRun
       \/ /\ mode # "retry" /\ receipt.ok
          /\ pc' = IF mode = "reconcile" THEN "reconcile" ELSE "step"
          /\ pos' = IF mode = "reconcile" THEN pos ELSE pos + 1
          /\ mode' = "none"
          /\ saved' = NoTx
          /\ receipt' = NoReceipt
          /\ UNCHANGED <<todo, opt>>
    /\ UNCHANGED <<chainVars, actions, attempts, policy, present, stateVars>>

\* The operator approves: the proven failure is retired and the run ends.
Retire ==
    /\ pc = "retire"
    /\ actions' = actions \ {saved}
    /\ attempts' = attempts \cup {saved}
    /\ ResetRun
    /\ UNCHANGED <<chainVars, confirms, policy, present, stateVars>>

-----------------------------------------------------------------------------
(* Executing the pending steps.                                              *)

AtCheckpoint == done + 1 = Checkpoint /\ ~opt.activate

InStep == pc = "step" /\ done < Len(Steps) /\ ~AtCheckpoint

StepKey == Steps[done + 1][pos]

\* An action the journal knows is resumed, never signed again.
StepResume ==
    /\ InStep
    /\ pos <= Len(Steps[done + 1])
    /\ \E t \in actions : t.key = StepKey /\ saved' = t
    /\ mode' = "step"
    /\ pc' = "lookup"
    /\ UNCHANGED <<chainVars, journalVars, stateVars, todo, receipt, pos, opt>>

StepSign ==
    /\ InStep
    /\ pos <= Len(Steps[done + 1])
    /\ ~HasAction(StepKey)
    /\ pc' = "sign"
    /\ UNCHANGED <<chainVars, journalVars, stateVars, mode, todo, saved, receipt, pos, opt>>

\* Mutant: the gateway's nonces are filled in like any other.
DraftNoncesUnpinned(k, h) == NextNonces(h)

\* The nonces a node may give the new transaction.  The gateway's are pinned to
\* the predicted address, and must be the account's next nonce.
DraftNonces(k, h) ==
    IF k \in Pinned
    THEN {n \in {predicted + PinOffset[k]} : predicted > 0 /\ n = Count(h) + 1}
    ELSE NextNonces(h)

Sign ==
    /\ pc = "sign"
    /\ \E h \in Heights, fee \in Fees : \E n \in DraftNonces(StepKey, h) :
          LET t == [key |-> StepKey, nonce |-> n, cost |-> fee]
          IN  /\ RetryAdvances(t)
              /\ WithinBudget(t, FALSE)
              /\ saved' = t
    /\ pc' = "approve"
    /\ UNCHANGED <<chainVars, journalVars, stateVars, mode, todo, receipt, pos, opt>>

\* Mutant: the transaction is resumed without being journaled.
RecordNothing ==
    /\ pc = "approve"
    /\ mode' = "step"
    /\ pc' = "lookup"
    /\ UNCHANGED <<chainVars, journalVars, stateVars, todo, saved, receipt, pos, opt>>

\* The operator approves; the signed bytes are journaled, then resumed.
Record ==
    /\ pc = "approve"
    /\ ~HasAction(saved.key)
    /\ actions' = actions \cup {saved}
    /\ mode' = "step"
    /\ pc' = "lookup"
    /\ UNCHANGED <<chainVars, attempts, confirms, policy, present, stateVars,
                   todo, saved, receipt, pos, opt>>

\* All the step's transactions are confirmed: the step is marked and saved.  The
\* prediction step reads the gateway nonce, and refuses a pending transaction.
CompleteStep ==
    /\ InStep
    /\ pos > Len(Steps[done + 1])
    /\ IF done + 1 = PredictStep
       THEN \E h \in Heights :
               /\ \A t \in pool : t.nonce # Count(h) + 1
               /\ predicted' = Count(h) + 1
       ELSE predicted' = predicted
    /\ done' = done + 1
    /\ pos' = 1
    /\ UNCHANGED <<chainVars, journalVars, marked, pc, mode, todo, saved, receipt, opt>>

-----------------------------------------------------------------------------
(* Ends of a run.                                                            *)

\* The errors and pauses of the code itself: each returns without a write.
CanStop ==
    \/ pc = "reconcile" /\ \E t \in todo : IsNext(t) /\ t.key \in opt.retry /\ ~RetryAllowed(t)
    \/ pc \in {"lookup", "poll"} /\ \E h \in Heights :
          \/ BlockUnavailable(saved, h)
          \/ Included(saved, h) = {} /\ (pc = "poll" \/ mode = "retry")
          \/ mode = "retry" /\ \E r \in Included(saved, h) : r.ok
    \/ pc = "count" /\ \E h \in Heights : Count(h) >= saved.nonce
    \/ pc \in {"bump", "retire", "sign", "approve"}
    \/ pc = "depth" /\ \E h \in HeadsFor(WaitPolicy) :
          h < RequiredHeight(WaitPolicy, receipt.height)
    \/ pc = "canon" /\ \E h \in Heights : ~IsCanonical(receipt, h)
    \/ pc = "step" /\ (done = Len(Steps) \/ AtCheckpoint)

GiveUp == CanStop /\ Stop

\* The process dies at any point.
Crash == pc # "off" /\ Stop

\* journal.json is lost between runs, or restored with the contents it had.
LoseJournal ==
    /\ pc = "off"
    /\ present
    /\ present' = FALSE
    /\ UNCHANGED <<chainVars, actions, attempts, confirms, policy, stateVars, runVars>>

RestoreJournal ==
    /\ pc = "off"
    /\ ~present /\ marked
    /\ present' = TRUE
    /\ UNCHANGED <<chainVars, actions, attempts, confirms, policy, stateVars, runVars>>

RunNext ==
    \/ StartSome
    \/ Open
    \/ ReconcileSome
    \/ ReconcileDone
    \/ Lookup
    \/ NotFound
    \/ CheckNonce
    \/ BumpSome
    \/ Broadcast
    \/ BroadcastUnresolved
    \/ DeepEnough
    \/ Refetch
    \/ Confirmed
    \/ Retire
    \/ StepResume
    \/ StepSign
    \/ Sign
    \/ Record
    \/ CompleteStep
    \/ GiveUp

Next ==
    \/ RunNext
    \/ Crash
    \/ LoseJournal
    \/ RestoreJournal
    \/ ChainNext /\ UNCHANGED <<journalVars, stateVars, runVars>>

Spec == Init /\ [][Next]_vars

-----------------------------------------------------------------------------
(* What the journal promises.                                                *)

\* The inclusions of the deployment's own transactions.
OwnHist == {i \in DOMAIN hist : hist[i].tx.key # Foreign}

\* Nonce n was consumed, for good, by a failed transaction of key k.
FinalFailed(k, n) ==
    /\ n \in DOMAIN hist
    /\ hist[n].height <= final
    /\ hist[n].tx.key = k
    /\ ~hist[n].ok

\* Key k was executed, for good.
FinalOk(k) ==
    \E i \in DOMAIN hist : hist[i].height <= final /\ hist[i].tx.key = k /\ hist[i].ok

\* No action is executed twice, whatever crashes, lost responses, reorganizations,
\* fee replacements, retries, foreign transactions and journal losses come between
\* signing it and confirming it (evm::send, evm_recovery::resume, recovery::retire).
AtMostOnce ==
    \A i, j \in OwnHist :
        hist[i].tx.key = hist[j].tx.key /\ hist[i].ok /\ hist[j].ok => i = j

\* Whatever the network holds or has included was journaled first (evm::send records
\* before it resumes, bump replaces before it broadcasts), so recovery knows its hash.
SentIsJournaled ==
    /\ pool \subseteq Journaled
    /\ \A i \in OwnHist : hist[i].tx \in Journaled

\* What the deployment's transactions can still cost, over every order of inclusion,
\* stays within plan.evm_gas_budget (check_budget, evm_funding::liability).
SpendWithinBudget == Liability(Journaled) <= Budget

\* The gateway's two CREATEs can only land at the nonces their addresses were
\* registered with on Cosmos (gateway_nonce, the pinned nonce of evm::send, and
\* validate_action's refusal to retire them).
GatewayAtPrediction ==
    \A t \in Journaled : t.key \in Pinned => t.nonce = predicted + PinOffset[t.key]

\* Under the finalized policy a completed step's transactions have succeeded in
\* finalized blocks: no later reorganization can undo a completed step.
CompletedIsFinal ==
    Policies = {0} => \A s \in 1 .. done : \A k \in KeysOf(s) : FinalOk(k)

\* A signed transaction is never forgotten: replacing and retiring keep its bytes.
SignedIsKept == [][Journaled \subseteq Journaled']_vars

\* A key's signed transaction only gives way to a replacement at the same nonce,
\* or to nothing once a failed attempt of the key has finally consumed its nonce:
\* a reorganized or lost transaction never gets a new nonce.
NonceIsKept ==
    [][\A t \in actions :
          \/ \E u \in actions' : u.key = t.key /\ u.nonce = t.nonce
          \/ FinalFailed(t.key, t.nonce)]_vars

-----------------------------------------------------------------------------
(* The inductive invariant behind AtMostOnce.                                *)

\* The places of a run between resuming a signed transaction and its outcome.
ResumePCs == {"lookup", "count", "bump", "broadcast", "poll", "depth", "canon", "retire"}

\* The chain: an inclusion sits at its own nonce, finality is below the head.
ChainOK ==
    /\ final <= head
    /\ \A i \in DOMAIN hist : hist[i].tx.nonce = i /\ hist[i].height <= head

\* The journal: one action per key, and every attempt either competes for its
\* key's current nonce or has a nonce that a failure of the key finally consumed.
JournalOK ==
    /\ \A t, u \in actions : t.key = u.key => t = u
    /\ \A a \in attempts :
          \/ \E t \in actions : t.key = a.key /\ t.nonce = a.nonce
          \/ FinalFailed(a.key, a.nonce)
    /\ ~marked => Journaled = {}

\* The run: what it works on is what the journal holds, and what it is about to
\* retire has finally failed.
RunOK ==
    /\ todo \subseteq actions
    /\ pc \notin {"off", "opened"} => marked
    /\ pc \in {"off", "opened", "reconcile"} => mode = "none"
    /\ pc \in ResumePCs => saved \in actions /\ saved \notin todo /\ mode # "none"
    /\ pc = "approve" => saved \in Tx
    /\ pc = "sign" => done < Len(Steps) /\ pos <= Len(Steps[done + 1])
    /\ pc \in {"depth", "canon", "retire"} =>
          receipt.tx.key = saved.key /\ receipt.tx.nonce = saved.nonce
    /\ pc \in {"step", "sign", "approve"} \/ mode = "step" => todo = {}
    /\ pc = "canon" /\ mode = "retry" => receipt.height <= final
    /\ pc = "retire" => FinalFailed(saved.key, saved.nonce)

\* Whatever the run and the chain do, the parts hold together; AtMostOnce follows.
AtMostOnceInv == TypeOK /\ ChainOK /\ SentIsJournaled /\ JournalOK /\ RunOK

\* The strengthening behind SpendWithinBudget: the journal is finite, and what is
\* about to be journaled was added to what the journal can cost.
BudgetInv ==
    /\ IsFiniteSet(Journaled)
    /\ SpendWithinBudget
    /\ pc = "approve" => Liability(Journaled) + saved.cost <= Budget

\* The strengthening behind GatewayAtPrediction: nothing pinned is signed before
\* the prediction, and the prediction is made once.
PinInv ==
    /\ predicted > 0 => done >= PredictStep
    /\ \A t \in Journaled \cup (IF pc = "approve" THEN {saved} ELSE {}) :
          t.key \in Pinned => predicted > 0 /\ t.nonce = predicted + PinOffset[t.key]

\* The strengthening behind CompletedIsFinal: the keys the pending step has passed
\* have finally succeeded, and the one it is at is the one it resumes.
CompletedInv ==
    /\ \A s \in 1 .. done : \A k \in KeysOf(s) : FinalOk(k)
    /\ done < Len(Steps) =>
          \A j \in DOMAIN Steps[done + 1] : j < pos => FinalOk(Steps[done + 1][j])
    /\ pc = "approve" \/ (pc \in ResumePCs /\ mode = "step") =>
          /\ done < Len(Steps)
          /\ pos <= Len(Steps[done + 1])
          /\ saved.key = StepKey
    /\ pc = "canon" => receipt.height <= final
=============================================================================
