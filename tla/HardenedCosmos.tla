--------------------------- MODULE HardenedCosmos ---------------------------
(***************************************************************************)
(* The hardened deployment's Cosmos transactions: governance submissions,    *)
(* reward payments and the waits for the submitted proposals, with the       *)
(* journal, the run that reconciles it, fee replacement at one sequence,     *)
(* and the retirement of a proven failure.  One signer is modelled.          *)
(*                                                                         *)
(* The chain is external.  Its blocks are final, so there is no reorganized  *)
(* receipt here; but an LCD may lag, may prune old results, and a block may  *)
(* hold a transaction its ante handler rejected, which consumes no sequence. *)
(***************************************************************************)
EXTENDS Integers, Sequences, FiniteSets, FiniteSetsExt

CONSTANTS
    Keys,         \* the journal's Cosmos actions, "<step>/cosmos"
    Foreign,      \* the key of a transaction the deployment did not sign
    Rank,         \* the order of the keys in the journal's BTreeMap
    Steps,        \* the steps: a sequence of [kind, key] records
    Fees,         \* the fees a simulation may ask for
    NewFees,      \* the fees an operator may pass as --cosmos-fee
    Budget,       \* plan.cosmos_fee_budget
    MaxBlocks,    \* bound on the included transactions of the account
    MaxForeign,   \* bound on the transactions of other programs
    MaxRejected   \* bound on the inclusions rejected by the ante handler

Kinds == {"submit", "pay", "wait"}

ASSUME CosmosConstants ==
    /\ Foreign \notin Keys
    /\ Rank \in [Keys -> Nat]
    /\ Steps \in Seq([kind : Kinds, key : Keys])
    /\ Fees \cup NewFees \subseteq Nat
    /\ {Budget, MaxBlocks, MaxForeign, MaxRejected} \subseteq Nat

VARIABLES
    hist,        \* chain: the account's included transactions, in block order
    pruned,      \* chain: how many of them the configured LCD no longer serves
    pool,        \* chain: signed transactions the network can still include
    passed,      \* chain: ids of the proposals that passed
    rejected,    \* chain: ids of the proposals that were rejected or failed
    actions,     \* journal: the current signed transaction of each key
    attempts,    \* journal: replaced and retired transactions
    confirms,    \* journal: recorded results
    done,        \* state: how many steps are completed
    proposals,   \* state: the ids of the submitted proposals
    pc,          \* where the run is
    mode,        \* on whose behalf a transaction is resumed
    todo,        \* journaled transactions still to reconcile
    saved,       \* the transaction being resumed
    opt          \* the options of this run

chainVars == <<hist, pruned, pool, passed, rejected>>
journalVars == <<actions, attempts, confirms>>
stateVars == <<done, proposals>>
runVars == <<pc, mode, todo, saved, opt>>
vars == <<chainVars, journalVars, stateVars, runVars>>

\* An included transaction: DeliverTx succeeded, failed after the ante handler
\* consumed the sequence, or was rejected by the ante handler.  The id is the
\* proposal a successful submission creates.
Codes == {"ok", "failed", "rejected"}

\* A signed transaction is its key, sequence and fee: two equal records are one hash.
NoTx == [key |-> Foreign, seq |-> 0, fee |-> 0]
NoOptions == [bump |-> {}, fee |-> 0, retry |-> {}, archive |-> FALSE]

\* --bump-fees comes with --cosmos-fee and excludes --retry-failed; --recovery-lcd
\* names an archival node.
Options ==
    [bump : {{}}, fee : {0}, retry : {{}} \cup {{k} : k \in Keys}, archive : BOOLEAN]
      \cup [bump : {{k} : k \in Keys}, fee : NewFees, retry : {{}}, archive : BOOLEAN]

Init ==
    /\ hist = <<>>
    /\ pruned = 0
    /\ pool = {}
    /\ passed = {}
    /\ rejected = {}
    /\ actions = {}
    /\ attempts = {}
    /\ confirms = {}
    /\ done = 0
    /\ proposals = {}
    /\ pc = "off"
    /\ mode = "none"
    /\ todo = {}
    /\ saved = NoTx
    /\ opt = NoOptions

-----------------------------------------------------------------------------
(* The chain.  An LCD answers from the first h of the account's inclusions.  *)

Views == 0 .. Len(hist)

Consumed(h) == {i \in 1 .. h : hist[i].code # "rejected"}

\* lcd_query_account: the account's next sequence.
Sequence(h) == Cardinality(Consumed(h)) + 1

Include(t, code) ==
    /\ Len(hist) < MaxBlocks
    /\ t.seq = Sequence(Len(hist))
    /\ hist' = Append(hist, [tx |-> t, code |-> code, id |-> Len(hist) + 1])
    /\ pool' = pool \ {t}
    /\ UNCHANGED <<pruned, passed, rejected>>

IncludePooled ==
    \E t \in pool, code \in Codes :
        /\ code = "rejected" =>
              Cardinality({i \in DOMAIN hist : hist[i].code = "rejected"}) < MaxRejected
        /\ Include(t, code)

IncludeForeign ==
    /\ Cardinality({i \in DOMAIN hist : hist[i].tx.key = Foreign}) < MaxForeign
    /\ Include([key |-> Foreign, seq |-> Sequence(Len(hist)), fee |-> 0], "ok")

Forget ==
    /\ \E t \in pool : pool' = pool \ {t}
    /\ UNCHANGED <<hist, pruned, passed, rejected>>

Prune ==
    /\ pruned < Len(hist)
    /\ pruned' = pruned + 1
    /\ UNCHANGED <<hist, pool, passed, rejected>>

SubmitKeys == {Steps[s].key : s \in {i \in DOMAIN Steps : Steps[i].kind = "submit"}}

\* The ids of the proposals that exist.
Created == {i \in DOMAIN hist : hist[i].code = "ok" /\ hist[i].tx.key \in SubmitKeys}

\* The voting period of a proposal ends.
Vote ==
    /\ \E i \in Created \ (passed \cup rejected) :
          \/ passed' = passed \cup {i} /\ UNCHANGED rejected
          \/ rejected' = rejected \cup {i} /\ UNCHANGED passed
    /\ UNCHANGED <<hist, pruned, pool>>

ChainNext == IncludePooled \/ IncludeForeign \/ Forget \/ Prune \/ Vote

-----------------------------------------------------------------------------
(* The journal's queries.                                                    *)

Journaled == actions \cup attempts

HasAction(k) == \E t \in actions : t.key = k

\* The hashes that compete for the saved transaction's sequence.
Competing(t) == {a \in attempts : a.key = t.key /\ a.seq = t.seq} \cup {t}

\* Replacements at one sequence exclude one another: the dearest is reserved.
Liability(txs) ==
    SumFunction([n \in {t.seq : t \in txs} |->
                    Max({t.fee : t \in {u \in txs : u.seq = n}})])

\* Mutant: only the fees already journaled are counted.
WithinBudgetOfPast(t) == Liability(Journaled) <= Budget

WithinBudget(t) == Liability(Journaled \cup {t}) <= Budget

\* A retry's sequence is past the key's retired attempts.
RetryAdvances(t) == \A a \in attempts : a.key = t.key => t.seq > a.seq

Cached(t) == {c \in confirms : c.tx \in Competing(t)}

\* The results an LCD at view h, or the archival one, has for the competing
\* hashes: of a transaction included twice the index keeps the last result.
Indexed(t, h, archive) ==
    {hist[i] : i \in {j \in 1 .. h : /\ j > pruned \/ archive
                                     /\ hist[j].tx \in Competing(t)
                                     /\ \A l \in j + 1 .. h : hist[l].tx # hist[j].tx}}

-----------------------------------------------------------------------------
(* Starting and ending a run.                                                *)

ResetRun ==
    /\ pc' = "off"
    /\ mode' = "none"
    /\ todo' = {}
    /\ saved' = NoTx
    /\ opt' = NoOptions

Stop == ResetRun /\ UNCHANGED <<chainVars, journalVars, stateVars>>

\* The flags must name a journaled action, which is snapshotted with the others.
Start(o) ==
    /\ pc = "off"
    /\ \A k \in o.bump \cup o.retry : HasAction(k)
    /\ pc' = "reconcile"
    /\ todo' = actions
    /\ opt' = o
    /\ UNCHANGED <<chainVars, journalVars, stateVars, mode, saved>>

StartSome == \E o \in Options : Start(o)

-----------------------------------------------------------------------------
(* Reconciling the journal.                                                  *)

IsNext(t) == \A u \in todo : Rank[t.key] <= Rank[u.key]

\* Only the next pending step is retried, and no submission whose proposal exists.
RetryAllowed(t) ==
    /\ done < Len(Steps)
    /\ Steps[done + 1].key = t.key
    /\ Steps[done + 1].kind # "wait"
    /\ \A p \in proposals : p.key # t.key

ReconcileNext(t) ==
    /\ pc = "reconcile"
    /\ IsNext(t)
    /\ t.key \in opt.retry => RetryAllowed(t)
    /\ todo' = todo \ {t}
    /\ saved' = t
    /\ mode' = IF t.key \in opt.retry THEN "retry"
               ELSE IF t.key \in opt.bump THEN "bump" ELSE "reconcile"
    /\ pc' = "lookup"
    /\ UNCHANGED <<chainVars, journalVars, stateVars, opt>>

ReconcileSome == \E t \in todo : ReconcileNext(t)

ReconcileDone ==
    /\ pc = "reconcile"
    /\ todo = {}
    /\ pc' = "step"
    /\ UNCHANGED <<chainVars, journalVars, stateVars, mode, todo, saved, opt>>

\* What a known result means to the caller.  A retry goes on to judge the journal
\* whatever it was; anyone else stops at a failure.
Outcome(r) ==
    \/ /\ mode = "retry"
       /\ pc' = "retire"
       /\ UNCHANGED <<mode, todo, saved, opt>>
    \/ /\ mode # "retry" /\ r.code # "ok"
       /\ ResetRun
    \/ /\ mode \in {"reconcile", "bump"} /\ r.code = "ok"
       /\ pc' = "reconcile"
       /\ mode' = "none"
       /\ saved' = NoTx
       /\ UNCHANGED <<todo, opt>>
    \/ /\ mode = "step" /\ r.code = "ok"
       /\ pc' = "confirmed"
       /\ UNCHANGED <<mode, todo, saved, opt>>

\* A confirmed result is read from the journal.
ReadCached ==
    /\ pc \in {"lookup", "poll"}
    /\ \E r \in Cached(saved) : Outcome(r)
    /\ UNCHANGED <<chainVars, journalVars, stateVars>>

\* Or looked up and recorded.
Lookup ==
    /\ pc \in {"lookup", "poll"}
    /\ Cached(saved) = {}
    /\ \E h \in Views : \E r \in Indexed(saved, h, opt.archive) :
          /\ confirms' = confirms \cup {r}
          /\ Outcome(r)
    /\ UNCHANGED <<chainVars, actions, attempts, stateVars>>

NotFound ==
    /\ pc = "lookup"
    /\ Cached(saved) = {}
    /\ \E h \in Views : Indexed(saved, h, opt.archive) = {}
    /\ pc' = IF mode = "retry" THEN "retire" ELSE "sequence"
    /\ UNCHANGED <<chainVars, journalVars, stateVars, mode, todo, saved, opt>>

\* The live sequence is still the recorded one.
CheckSequence ==
    /\ pc = "sequence"
    /\ \E h \in Views : Sequence(h) = saved.seq
    /\ pc' = IF mode = "bump" THEN "bump" ELSE "broadcast"
    /\ UNCHANGED <<chainVars, journalVars, stateVars, mode, todo, saved, opt>>

\* Mutant: the replacement is signed at the account's live sequence.
ReplacementAtLive(t) == [t EXCEPT !.fee = opt.fee, !.seq = Sequence(Len(hist))]

\* The same messages at the same sequence, for the approved fee.
Replacement(t) == [t EXCEPT !.fee = opt.fee]

\* The approved replacement is journaled and resumed like any other transaction.
Bump ==
    /\ pc = "bump"
    /\ opt.fee > saved.fee
    /\ LET new == Replacement(saved)
       IN  /\ WithinBudget(new)
           /\ actions' = (actions \ {saved}) \cup {new}
           /\ saved' = new
    /\ attempts' = attempts \cup {saved}
    /\ mode' = "reconcile"
    /\ pc' = "lookup"
    /\ UNCHANGED <<chainVars, confirms, stateVars, todo, opt>>

Broadcast ==
    /\ pc = "broadcast"
    /\ pool' = pool \cup {saved}
    /\ pc' = "poll"
    /\ UNCHANGED <<hist, pruned, passed, rejected, journalVars, stateVars, mode, todo, saved, opt>>

\* CheckTx or the connection fails; the transaction may still have been accepted.
BroadcastUnresolved ==
    /\ pc = "broadcast"
    /\ pool' \in {pool, pool \cup {saved}}
    /\ ResetRun
    /\ UNCHANGED <<hist, pruned, passed, rejected, journalVars, stateVars>>

\* The account has moved past the transaction's sequence.
SequenceConsumed(t, h) == Sequence(h) > t.seq

\* A competing hash has a recorded failure.
ProvenFailed(t) == \E c \in Cached(t) : c.code # "ok"

\* The operator approves: the attempt is retired and the run ends.
Retire ==
    /\ pc = "retire"
    /\ ProvenFailed(saved)
    /\ \E h \in Views : SequenceConsumed(saved, h)
    /\ actions' = actions \ {saved}
    /\ attempts' = attempts \cup {saved}
    /\ ResetRun
    /\ UNCHANGED <<chainVars, confirms, stateVars>>

-----------------------------------------------------------------------------
(* Executing the pending steps.                                              *)

Sending == pc = "step" /\ done < Len(Steps) /\ Steps[done + 1].kind # "wait"

StepKey == Steps[done + 1].key

\* A journaled action is resumed, never signed again.
StepResume ==
    /\ Sending
    /\ \E t \in actions : t.key = StepKey /\ saved' = t
    /\ mode' = "step"
    /\ pc' = "lookup"
    /\ UNCHANGED <<chainVars, journalVars, stateVars, todo, opt>>

\* A new transaction takes the sequence the LCD reports.
StepSign ==
    /\ Sending
    /\ ~HasAction(StepKey)
    /\ \E h \in Views, fee \in Fees :
          LET t == [key |-> StepKey, seq |-> Sequence(h), fee |-> fee]
          IN  RetryAdvances(t) /\ WithinBudget(t) /\ saved' = t
    /\ pc' = "approve"
    /\ UNCHANGED <<chainVars, journalVars, stateVars, mode, todo, opt>>

Record ==
    /\ pc = "approve"
    /\ actions' = actions \cup {saved}
    /\ mode' = "step"
    /\ pc' = "lookup"
    /\ UNCHANGED <<chainVars, attempts, confirms, stateVars, todo, saved, opt>>

\* The proposal's id is read from the recorded response of the submission.
SaveProposal ==
    IF Steps[done + 1].kind = "submit"
    THEN \E c \in Cached(saved) : proposals' = proposals \cup {[key |-> saved.key, id |-> c.id]}
    ELSE proposals' = proposals

CompleteSend ==
    /\ pc = "confirmed"
    /\ SaveProposal
    /\ done' = done + 1
    /\ pc' = "step"
    /\ mode' = "none"
    /\ saved' = NoTx
    /\ UNCHANGED <<chainVars, journalVars, todo, opt>>

\* A later check of the step pauses the run: the id is saved, the step is not.
PauseSend ==
    /\ pc = "confirmed"
    /\ SaveProposal
    /\ ResetRun
    /\ UNCHANGED <<chainVars, journalVars, done>>

Waiting == pc = "step" /\ done < Len(Steps) /\ Steps[done + 1].kind = "wait"

\* The recorded submission of the step's proposal, when it matches the saved id.
Submission ==
    {c \in confirms :
        /\ \E t \in actions : t.key = StepKey /\ c \in Cached(t)
        /\ c.code = "ok"
        /\ [key |-> StepKey, id |-> c.id] \in proposals}

\* Mutant: the wait ends as soon as the vote does.
VotePassedAny(id) == id \in passed \cup rejected

VotePassed(id) == id \in passed

\* The wait for a proposal ends when it passed.
CompleteWait ==
    /\ Waiting
    /\ \E c \in Submission : VotePassed(c.id)
    /\ done' = done + 1
    /\ UNCHANGED <<chainVars, journalVars, proposals, runVars>>

-----------------------------------------------------------------------------
(* Ends of a run.                                                            *)

CanStop ==
    \/ pc = "reconcile" /\ \E t \in todo : t.key \in opt.retry /\ ~RetryAllowed(t)
    \/ pc \in {"poll", "sequence", "bump", "retire", "approve"}
    \/ pc = "step" /\ done = Len(Steps)
    \/ Sending /\ ~HasAction(StepKey)
    \/ Waiting

GiveUp == CanStop /\ Stop

Crash == pc # "off" /\ Stop

RunNext ==
    \/ StartSome
    \/ ReconcileSome
    \/ ReconcileDone
    \/ ReadCached
    \/ Lookup
    \/ NotFound
    \/ CheckSequence
    \/ Bump
    \/ Broadcast
    \/ BroadcastUnresolved
    \/ Retire
    \/ StepResume
    \/ StepSign
    \/ Record
    \/ CompleteSend
    \/ PauseSend
    \/ CompleteWait
    \/ GiveUp

Next ==
    \/ RunNext
    \/ Crash
    \/ ChainNext /\ UNCHANGED <<journalVars, stateVars, runVars>>

Spec == Init /\ [][Next]_vars

-----------------------------------------------------------------------------
(* What the journal promises.                                                *)

\* The successful inclusions of the deployment's own transactions.
Executed == {i \in DOMAIN hist : hist[i].tx.key # Foreign /\ hist[i].code = "ok"}

\* No proposal is submitted and no reward is paid twice, however often the run is
\* interrupted, resumed, replaced or retried (cosmos::send, cosmos_recovery::resume);
\* the one exception is an action whose bytes the ante handler rejected once: its
\* retry takes that rejection for a consumed sequence (recovery::retry_failed).
ExecutedOnce ==
    \A i, j \in Executed :
        hist[i].tx.key = hist[j].tx.key =>
            \/ i = j
            \/ \E r \in DOMAIN hist : hist[r].code = "rejected" /\ hist[r].tx.key = hist[i].tx.key

\* What the journaled transactions can cost in fees, over every order of inclusion,
\* stays within plan.cosmos_fee_budget (check_fee_budget, fee_liability).
FeesWithinBudget == Liability(Journaled) <= Budget

\* A completed wait step means that the deployment's own submission passed: the id
\* it waited on is that of its journaled transaction (governance::check).
WaitedForPassed ==
    \A s \in 1 .. done :
        Steps[s].kind = "wait" =>
            \E i \in passed : hist[i].tx.key = Steps[s].key /\ hist[i].code = "ok"

-----------------------------------------------------------------------------
(* The inductive invariant behind ExecutedOnce and WaitedForPassed.          *)

Tx == [key : Keys, seq : Nat, fee : Nat]
AnyTx == [key : Keys \cup {Foreign}, seq : Nat, fee : Nat]
Result == [tx : AnyTx, code : Codes, id : Nat]

\* The places of a run between resuming a signed transaction and its outcome.
ResumePCs == {"lookup", "poll", "sequence", "bump", "broadcast", "retire", "confirmed"}
PCs == {"off", "reconcile", "step", "approve"} \cup ResumePCs

ChainTypeOK ==
    /\ hist \in Seq(Result)
    /\ pruned \in Nat
    /\ pool \subseteq Tx
    /\ passed \cup rejected \subseteq DOMAIN hist

TypeOK ==
    /\ ChainTypeOK
    /\ actions \cup attempts \subseteq Tx
    /\ confirms \subseteq Result
    /\ done \in 0 .. Len(Steps)
    /\ proposals \subseteq [key : Keys, id : Nat]
    /\ pc \in PCs
    /\ mode \in {"none", "reconcile", "bump", "retry", "step"}
    /\ todo \subseteq Tx
    /\ saved \in AnyTx
    /\ opt \in Options \cup {NoOptions}

\* The chain: an inclusion has its index as id, and no two inclusions consumed one
\* sequence; every consumed sequence is below the account's next one.
ChainOK ==
    /\ \A i \in DOMAIN hist : hist[i].id = i
    /\ \A i \in Consumed(Len(hist)) : hist[i].tx.seq < Sequence(Len(hist))
    /\ \A i, j \in Consumed(Len(hist)) : hist[i].tx.seq = hist[j].tx.seq => i = j

\* Sequence n was consumed by a failed transaction of key k.
FailedAt(k, n) ==
    \E i \in DOMAIN hist : hist[i].tx.key = k /\ hist[i].tx.seq = n /\ hist[i].code = "failed"

\* The ante handler rejected the bytes of key k once.
RejectedOnce(k) == \E i \in DOMAIN hist : hist[i].tx.key = k /\ hist[i].code = "rejected"

\* What the network holds or has included was journaled first.
SentIsJournaled ==
    /\ pool \subseteq Journaled
    /\ \A i \in DOMAIN hist : hist[i].tx.key # Foreign => hist[i].tx \in Journaled

\* The journal: one action per key; an attempt competes for its key's current
\* sequence, or its sequence is spent on a failure, or its key was rejected; a
\* recorded result is an inclusion.
JournalOK ==
    /\ \A t, u \in actions : t.key = u.key => t = u
    /\ \A a \in attempts :
          \/ \E t \in actions : t.key = a.key /\ t.seq = a.seq
          \/ FailedAt(a.key, a.seq)
          \/ RejectedOnce(a.key)
    /\ \A c \in confirms : \E i \in DOMAIN hist : hist[i] = c

\* The run: what it works on is what the journal holds, what it signed is new.
RunOK ==
    /\ todo \subseteq actions
    /\ pc \in ResumePCs => saved \in actions /\ saved \notin todo
    /\ pc = "approve" => saved \in Tx /\ ~HasAction(saved.key)
    /\ pc = "confirmed" => mode = "step"
    /\ pc \in {"step", "approve"} \/ mode = "step" => todo = {}
    /\ pc = "approve" \/ (pc \in ResumePCs /\ mode = "step") =>
          done < Len(Steps) /\ Steps[done + 1].kind # "wait"
    /\ pc \in {"off", "reconcile", "step", "approve"} => mode = "none"

ExecutedOnceInv == TypeOK /\ ChainOK /\ SentIsJournaled /\ JournalOK /\ RunOK

\* The strengthening behind FeesWithinBudget: what is about to be journaled was
\* counted with everything already journaled.
BudgetInv ==
    /\ FeesWithinBudget
    /\ pc = "approve" => Liability(Journaled \cup {saved}) <= Budget
=============================================================================
