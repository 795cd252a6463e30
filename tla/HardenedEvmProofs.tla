------------------------- MODULE HardenedEvmProofs --------------------------
(***************************************************************************)
(* Proofs about HardenedEvm, for any set of keys, any steps, and a chain of  *)
(* any length: no action is executed twice, the journal keeps what it signed, *)
(* the gateway is where it was predicted, completed steps are final, and what *)
(* was signed stays within the gas budget.  The bounds of EvmAccount are not  *)
(* used.                                                                     *)
(***************************************************************************)
EXTENDS HardenedEvm, FunctionSums

\* The context of these obligations is long: more time than the default for all of them.
USE SMTT(30), ZenonT(30)

\* A sum with one term more.
LEMMA OneTermMore ==
  ASSUME NEW a \in Nat, NEW b \in Nat, NEW c, c = a + b
  PROVE  c <= b + a
OBVIOUS

\* A sum with one term changed, from d to b, has grown by at most what the term has.
LEMMA OneTermChanged ==
  ASSUME NEW a \in Nat, NEW b \in Nat, NEW c \in Nat, NEW d \in Nat, NEW e \in Nat,
         a + d = c + b, b <= d + e
  PROVE  a <= c + e
OBVIOUS

-----------------------------------------------------------------------------
(* Type correctness.                                                         *)

\* The initial state is well typed.
LEMMA TypeInit == Init => TypeOK
<1> SUFFICES ASSUME Init PROVE TypeOK
  OBVIOUS
<1> USE DEF Init
<1>1. ChainTypeOK
  BY DEF ChainInit, ChainTypeOK
<1>2. done \in 0 .. Len(Steps)
  BY StepsAssumption
<1>3. saved \in AnyTx /\ receipt \in Receipt
  BY DEF NoTx, NoReceipt, Receipt, AnyTx
<1>4. opt \in [bump : SUBSET Keys, retry : SUBSET Keys, activate : BOOLEAN]
  BY DEF NoOptions
<1>5. pc \in PCs
  BY DEF PCs
<1>6. present \in BOOLEAN /\ marked \in BOOLEAN
  BY ZenonT(30)
<1>7. /\ actions \in SUBSET Tx /\ attempts \in SUBSET Tx /\ todo \in SUBSET Tx
      /\ confirms \in SUBSET Receipt
      /\ policy \in Policies /\ predicted \in Nat /\ pos \in Nat \ {0}
      /\ mode \in {"none", "reconcile", "retry", "step"}
  OBVIOUS
<1> QED BY <1>1, <1>2, <1>3, <1>4, <1>5, <1>6, <1>7 DEF TypeOK

\* A chain step keeps the types of the chain's variables.
LEMMA ChainType ==
  ASSUME ChainTypeOK, ChainNext
  PROVE  ChainTypeOK'
<1> USE DEF ChainTypeOK
<1>1. CASE IncludePooled
  <2>1. PICK t \in pool, ok \in BOOLEAN : Include(t, ok)
    BY <1>1 DEF IncludePooled
  <2>2. [tx |-> t, ok |-> ok, height |-> head + 1, fork |-> fork] \in Receipt
    BY DEF Receipt, AnyTx, Tx
  <2> QED BY <2>1, <2>2 DEF Include
<1>2. CASE IncludeForeign
  <2>1. Include(ForeignTx(Len(hist) + 1), TRUE)
    BY <1>2, ZenonT(30) DEF IncludeForeign
  <2>2. [tx |-> ForeignTx(Len(hist) + 1), ok |-> TRUE, height |-> head + 1, fork |-> fork]
           \in Receipt
    BY DEF Receipt, AnyTx, ForeignTx
  <2> QED BY <2>1, <2>2 DEF Include
<1>3. CASE Mine BY <1>3 DEF Mine
<1>4. CASE Finalize BY <1>4 DEF Finalize
<1>5. CASE ReorgSome
  <2>1. PICK h \in final .. head - 1, n \in 0 .. Len(hist) : Reorg(h, n)
    BY <1>5 DEF ReorgSome
  <2>2. SubSeq(hist, 1, n) \in Seq(Receipt)
    OBVIOUS
  <2> QED BY <2>1, <2>2 DEF Reorg
<1>6. CASE ForgetSome BY <1>6 DEF ForgetSome, Forget
<1> QED BY <1>1, <1>2, <1>3, <1>4, <1>5, <1>6 DEF ChainNext

\* The run's memory is well typed when the run ends.
LEMMA ResetType ==
  ASSUME ResetRun
  PROVE  /\ pc' \in PCs /\ mode' \in {"none", "reconcile", "retry", "step"}
         /\ todo' \in SUBSET Tx /\ saved' \in AnyTx /\ receipt' \in Receipt
         /\ pos' \in Nat \ {0}
         /\ opt' \in [bump : SUBSET Keys, retry : SUBSET Keys, activate : BOOLEAN]
<1>1. saved' \in AnyTx /\ receipt' \in Receipt
  BY DEF ResetRun, NoTx, NoReceipt, Receipt, AnyTx
<1> QED BY <1>1 DEF ResetRun, PCs, NoOptions

\* Every inclusion is a receipt, with a numeric height.
LEMMA HistType ==
  ASSUME ChainTypeOK, NEW i \in DOMAIN hist
  PROVE  hist[i] \in Receipt /\ hist[i].height \in Nat
<1>1. hist[i] \in Receipt
  BY DEF ChainTypeOK
<1> QED BY <1>1 DEF Receipt

\* Every receipt a node can show is a receipt of the chain.
LEMMA SeenType ==
  ASSUME ChainTypeOK, NEW h \in Heights
  PROVE  Seen(h) \subseteq Receipt
BY DEF ChainTypeOK, Seen, SeenNonces

\* A transaction count is a natural number.
LEMMA CountType ==
  ASSUME ChainTypeOK, NEW h \in Heights
  PROVE  Count(h) \in Nat
<1>1. IsFiniteSet(1 .. Len(hist))
  BY FS_Interval DEF ChainTypeOK
<1>2. SeenNonces(h) \subseteq 1 .. Len(hist)
  BY DEF ChainTypeOK, SeenNonces
<1>3. IsFiniteSet(SeenNonces(h))
  BY <1>1, <1>2, FS_Subset
<1> QED BY <1>3, FS_CardinalityType DEF Count

-----------------------------------------------------------------------------
(* Steps that leave the chain and the signed transactions alone.             *)

\* Such a step can only disturb what is said of the run.
LEMMA QuietStep ==
  ASSUME ChainOK, SentIsJournaled, JournalOK,
         UNCHANGED chainVars, UNCHANGED <<actions, attempts>>, marked => marked'
  PROVE  ChainOK' /\ SentIsJournaled' /\ JournalOK'
<1> USE DEF chainVars
<1>1. ChainOK'
  BY DEF ChainOK
<1>2. SentIsJournaled'
  BY DEF SentIsJournaled, OwnHist, Journaled
<1>3. \A k, n : FinalFailed(k, n)' <=> FinalFailed(k, n)
  BY DEF FinalFailed
<1>4. Journaled' = Journaled
  BY DEF Journaled
<1>5. JournalOK'
  BY <1>3, <1>4 DEF JournalOK
<1> QED BY <1>1, <1>2, <1>5

\* The end of a run leaves nothing to say of it.
LEMMA ResetOK ==
  ASSUME ResetRun PROVE RunOK'
BY DEF ResetRun, RunOK, ResumePCs, NoTx, NoReceipt

\* Starting, opening and walking the reconciliation list.
LEMMA OpeningSteps ==
  ASSUME AtMostOnceInv, StartSome \/ Open \/ ReconcileSome \/ ReconcileDone
  PROVE  AtMostOnceInv'
<1> USE DEF AtMostOnceInv
<1> USE DEF chainVars, journalVars, stateVars
<1>0. ASSUME UNCHANGED chainVars PROVE ChainTypeOK'
  BY <1>0 DEF ChainTypeOK, TypeOK
<1>1. CASE StartSome
  <2>1. PICK o \in Options, p \in Policies : Start(o, p)
    BY <1>1 DEF StartSome
  <2>2. actions' = actions /\ attempts' = attempts
    BY <2>1 DEF Start, JournalAcceptable, JournalOK, Journaled
  <2>3. ChainOK' /\ SentIsJournaled' /\ JournalOK'
    BY <2>1, <2>2, QuietStep DEF Start
  <2>4. opt' \in [bump : SUBSET Keys, retry : SUBSET Keys, activate : BOOLEAN]
    BY <2>1 DEF Start, Options
  <2>5. TypeOK'
    BY <1>0, <2>1, <2>4 DEF Start, TypeOK, PCs
  <2>6. RunOK'
    BY <2>1, <2>2 DEF Start, RunOK, ResumePCs
  <2> QED BY <2>3, <2>5, <2>6
<1>2. CASE Open
  <2>1. ChainOK' /\ SentIsJournaled' /\ JournalOK'
    BY <1>2, QuietStep DEF Open
  <2>2. CASE OptionsValid
    <3>1. TypeOK'
      BY <1>0, <1>2, <2>2 DEF Open, TypeOK, PCs
    <3>2. RunOK'
      BY <1>2, <2>2 DEF Open, RunOK, ResumePCs
    <3> QED BY <2>1, <3>1, <3>2
  <2>3. CASE ~OptionsValid
    <3>1. TypeOK'
      BY <1>0, <1>2, <2>3, ResetType DEF Open, TypeOK
    <3> QED BY <1>2, <2>1, <2>3, <3>1, ResetOK DEF Open
  <2> QED BY <2>2, <2>3
<1>3. CASE ReconcileSome
  <2>1. PICK t \in todo : ReconcileNext(t)
    BY <1>3, ZenonT(30) DEF ReconcileSome
  <2>2. ChainOK' /\ SentIsJournaled' /\ JournalOK'
    BY <2>1, QuietStep DEF ReconcileNext
  <2>3. t \in AnyTx
    BY DEF TypeOK, Tx, AnyTx
  <2>4. TypeOK'
    BY <1>0, <2>1, <2>3 DEF ReconcileNext, TypeOK, PCs
  <2>5. RunOK'
    BY <2>1 DEF ReconcileNext, RunOK, ResumePCs
  <2> QED BY <2>2, <2>4, <2>5
<1>4. CASE ReconcileDone
  <2>1. ChainOK' /\ SentIsJournaled' /\ JournalOK'
    BY <1>4, QuietStep DEF ReconcileDone
  <2>2. TypeOK'
    BY <1>0, <1>4 DEF ReconcileDone, TypeOK, PCs
  <2>3. RunOK'
    BY <1>4 DEF ReconcileDone, RunOK, ResumePCs
  <2> QED BY <2>1, <2>2, <2>3
<1> QED BY <1>1, <1>2, <1>3, <1>4

\* Looking a transaction up, and the checks before it is sent again.
LEMMA LookupSteps ==
  ASSUME AtMostOnceInv, Lookup \/ NotFound \/ CheckNonce \/ DeepEnough \/ Refetch
  PROVE  AtMostOnceInv'
<1> USE DEF AtMostOnceInv
<1> USE DEF chainVars, journalVars, stateVars
<1>0. ASSUME UNCHANGED chainVars PROVE ChainTypeOK'
  BY <1>0 DEF ChainTypeOK, TypeOK
<1>1. CASE Lookup
  <2>1. PICK h \in Heights : \E r \in Included(saved, h) : Found(r)
    BY <1>1 DEF Lookup
  <2>2. PICK r \in Included(saved, h) : Found(r)
    BY <2>1
  <2>3. r \in Receipt
    BY <2>2, SeenType DEF Included, TypeOK
  <2>4. r.tx.key = saved.key /\ r.tx.nonce = saved.nonce
    BY <2>2 DEF Included, Competing
  <2>5. ChainOK' /\ SentIsJournaled' /\ JournalOK'
    BY <2>2, QuietStep DEF Found
  <2>6. TypeOK'
    BY <1>0, <2>2, <2>3, ZenonT(30) DEF Found, TypeOK, PCs
  <2>7. RunOK'
    BY <1>1, <2>2, <2>4 DEF Lookup, Found, RunOK, ResumePCs
  <2> QED BY <2>5, <2>6, <2>7
<1>2. CASE NotFound
  <2>1. ChainOK' /\ SentIsJournaled' /\ JournalOK'
    BY <1>2, QuietStep DEF NotFound
  <2>2. TypeOK'
    BY <1>0, <1>2 DEF NotFound, TypeOK, PCs
  <2>3. RunOK'
    BY <1>2, ZenonT(30) DEF NotFound, RunOK, ResumePCs
  <2> QED BY <2>1, <2>2, <2>3
<1>3. CASE CheckNonce
  <2>1. ChainOK' /\ SentIsJournaled' /\ JournalOK'
    BY <1>3, QuietStep, ZenonT(30) DEF CheckNonce
  <2>2. TypeOK'
    BY <1>0, <1>3, ZenonT(30) DEF CheckNonce, TypeOK, PCs
  <2>3. RunOK'
    BY <1>3, ZenonT(30) DEF CheckNonce, RunOK, ResumePCs
  <2> QED BY <2>1, <2>2, <2>3
<1>4. CASE DeepEnough
  <2>1. ChainOK' /\ SentIsJournaled' /\ JournalOK'
    BY <1>4, QuietStep DEF DeepEnough
  <2>2. TypeOK'
    BY <1>0, <1>4 DEF DeepEnough, TypeOK, PCs
  <2>3. mode = "retry" => receipt.height <= final
    BY <1>4 DEF DeepEnough, WaitPolicy, HeadsFor, RequiredHeight, TypeOK, ChainTypeOK, Receipt
  <2>4. RunOK'
    BY <1>4, <2>3 DEF DeepEnough, RunOK, ResumePCs
  <2> QED BY <2>1, <2>2, <2>4
<1>5. CASE Refetch
  <2>1. PICK h \in Heights : \E r \in Seen(h) : r.tx = receipt.tx /\ receipt' = r
    BY <1>5, ZenonT(30) DEF Refetch
  <2>2. receipt' \in Receipt /\ receipt'.tx = receipt.tx
    BY <2>1, SeenType, ZenonT(30) DEF TypeOK
  <2>3. ChainOK' /\ SentIsJournaled' /\ JournalOK'
    BY <1>5, QuietStep, ZenonT(30) DEF Refetch
  <2>4. TypeOK'
    BY <1>0, <1>5, <2>2, ZenonT(30) DEF Refetch, TypeOK
  <2>5. RunOK'
    BY <1>5, <2>2 DEF Refetch, RunOK, ResumePCs
  <2> QED BY <2>3, <2>4, <2>5, ZenonT(30)
<1> QED BY <1>1, <1>2, <1>3, <1>4, <1>5

\* The steps of the pending step that sign nothing, and every end of a run.
LEMMA StepSteps ==
  ASSUME AtMostOnceInv,
         StepResume \/ StepSign \/ Sign \/ CompleteStep \/ GiveUp \/ Crash
            \/ LoseJournal \/ RestoreJournal
  PROVE  AtMostOnceInv'
<1> USE DEF AtMostOnceInv
<1> USE DEF chainVars, journalVars, stateVars
<1>0. ASSUME UNCHANGED chainVars PROVE ChainTypeOK'
  BY <1>0 DEF ChainTypeOK, TypeOK
<1>1. CASE StepResume
  <2>1. PICK t \in actions : t.key = StepKey /\ saved' = t
    BY <1>1 DEF StepResume
  <2>2. t \in AnyTx
    BY DEF TypeOK, Tx, AnyTx
  <2>3. ChainOK' /\ SentIsJournaled' /\ JournalOK'
    BY <1>1, QuietStep DEF StepResume
  <2>4. TypeOK'
    BY <1>0, <1>1, <2>1, <2>2, ZenonT(30) DEF StepResume, TypeOK, PCs
  <2>5. RunOK'
    BY <1>1, <2>1 DEF StepResume, InStep, RunOK, ResumePCs
  <2> QED BY <2>3, <2>4, <2>5
<1>2. CASE StepSign
  <2>1. ChainOK' /\ SentIsJournaled' /\ JournalOK'
    BY <1>2, QuietStep DEF StepSign
  <2>2. TypeOK'
    BY <1>0, <1>2, ZenonT(30) DEF StepSign, TypeOK, PCs
  <2>3. RunOK'
    BY <1>2 DEF StepSign, InStep, RunOK, ResumePCs
  <2> QED BY <2>1, <2>2, <2>3
<1>3. CASE Sign
  <2>0. PICK h \in Heights, fee \in Fees : \E n \in DraftNonces(StepKey, h) :
           saved' = [key |-> StepKey, nonce |-> n, cost |-> fee]
    BY <1>3 DEF Sign
  <2>1. PICK n \in DraftNonces(StepKey, h) :
           saved' = [key |-> StepKey, nonce |-> n, cost |-> fee]
    BY <2>0
  <2>2. StepKey \in Keys
    <3>1. pc = "sign"
      BY <1>3, ZenonT(30) DEF Sign
    <3>2. done < Len(Steps) /\ pos <= Len(Steps[done + 1])
      BY <3>1 DEF RunOK
    <3>3. done \in 0 .. Len(Steps) /\ pos \in Nat \ {0}
      BY DEF TypeOK
    <3>4. Steps[done + 1] \in Seq(Keys)
      BY <3>2, <3>3, StepsAssumption
    <3> QED BY <3>2, <3>3, <3>4 DEF StepKey
  <2>3. n \in Nat \ {0}
    <3>1. Count(h) \in Nat
      BY CountType DEF TypeOK
    <3>2. CASE StepKey \in Pinned
      BY <3>1, <3>2, KeySetsAssumption DEF DraftNonces, TypeOK
    <3>3. CASE StepKey \notin Pinned
      BY <3>1, <3>3 DEF DraftNonces, NextNonces
    <3> QED BY <3>2, <3>3
  <2>4. saved' \in Tx /\ saved' \in AnyTx
    BY <2>1, <2>2, <2>3, NumbersAssumption, ZenonT(30) DEF Tx, AnyTx
  <2>5. ChainOK' /\ SentIsJournaled' /\ JournalOK'
    BY <1>3, QuietStep, ZenonT(30) DEF Sign
  <2>6. TypeOK'
    BY <1>0, <1>3, <2>4, ZenonT(30) DEF Sign, TypeOK, PCs
  <2>7. RunOK'
    BY <1>3, <2>4, ZenonT(30) DEF Sign, RunOK, ResumePCs
  <2> QED BY <2>5, <2>6, <2>7
<1>4. CASE CompleteStep
  <2>1. ChainOK' /\ SentIsJournaled' /\ JournalOK'
    BY <1>4, QuietStep, ZenonT(30) DEF CompleteStep
  <2>2. predicted' \in Nat
    BY <1>4, CountType DEF CompleteStep, TypeOK
  <2>3. done' \in 0 .. Len(Steps)
    BY <1>4, StepsAssumption DEF CompleteStep, InStep, TypeOK
  <2>4. TypeOK'
    BY <1>0, <1>4, <2>2, <2>3 DEF CompleteStep, TypeOK
  <2>5. RunOK'
    BY <1>4 DEF CompleteStep, InStep, RunOK, ResumePCs
  <2> QED BY <2>1, <2>4, <2>5
<1>5. CASE GiveUp \/ Crash
  <2>1. Stop
    BY <1>5 DEF GiveUp, Crash
  <2>2. ChainOK' /\ SentIsJournaled' /\ JournalOK'
    BY <2>1, QuietStep DEF Stop
  <2>3. TypeOK'
    BY <1>0, <2>1, ResetType, ZenonT(30) DEF Stop, TypeOK
  <2> QED BY <2>1, <2>2, <2>3, ResetOK DEF Stop
<1>6. CASE LoseJournal \/ RestoreJournal
  <2>1. ChainOK' /\ SentIsJournaled' /\ JournalOK'
    BY <1>6, QuietStep DEF LoseJournal, RestoreJournal
  <2>2. TypeOK'
    BY <1>0, <1>6, ZenonT(30) DEF LoseJournal, RestoreJournal, TypeOK, runVars
  <2>3. RunOK'
    BY <1>6, ZenonT(30) DEF LoseJournal, RestoreJournal, RunOK, ResumePCs, runVars
  <2> QED BY <2>1, <2>2, <2>3
<1> QED BY <1>1, <1>2, <1>3, <1>4, <1>5, <1>6, ZenonT(30)

-----------------------------------------------------------------------------
(* Steps that write the journal or reach the network.                        *)

\* A broadcast adds a journaled transaction to the pool and nothing else.
LEMMA BroadcastSteps ==
  ASSUME AtMostOnceInv, Broadcast \/ BroadcastUnresolved
  PROVE  AtMostOnceInv'
<1> USE DEF AtMostOnceInv
<1> USE DEF journalVars, stateVars
<1>1. /\ pool' \in {pool, pool \cup {saved}}
      /\ UNCHANGED <<hist, head, final, fork, drops, journalVars, stateVars>>
      /\ saved \in actions
  BY ZenonT(30) DEF Broadcast, BroadcastUnresolved, RunOK, ResumePCs
<1>2. ChainOK'
  BY <1>1 DEF ChainOK
<1>3. SentIsJournaled'
  BY <1>1 DEF SentIsJournaled, OwnHist, Journaled
<1>4. \A k, n : FinalFailed(k, n)' <=> FinalFailed(k, n)
  BY <1>1 DEF FinalFailed
<1>5. Journaled' = Journaled
  BY <1>1, ZenonT(30) DEF Journaled
<1>6. JournalOK'
  BY <1>1, <1>4, <1>5, ZenonT(30) DEF JournalOK
<1>7. ChainTypeOK'
  BY <1>1 DEF ChainTypeOK, TypeOK
<1>8. CASE Broadcast
  <2>1. TypeOK'
    BY <1>1, <1>7, <1>8, ZenonT(30) DEF Broadcast, TypeOK, PCs
  <2>2. RunOK'
    BY <1>8 DEF Broadcast, RunOK, ResumePCs
  <2> QED BY <1>2, <1>3, <1>6, <2>1, <2>2
<1>9. CASE BroadcastUnresolved
  <2>1. TypeOK'
    BY <1>1, <1>7, <1>9, ResetType, ZenonT(30) DEF BroadcastUnresolved, TypeOK
  <2> QED BY <1>2, <1>3, <1>6, <1>9, <2>1, ResetOK, ZenonT(30) DEF BroadcastUnresolved
<1> QED BY <1>8, <1>9

\* A confirmed receipt is canonical; under a retry it is also finalized.
LEMMA ConfirmedStep ==
  ASSUME AtMostOnceInv, Confirmed
  PROVE  AtMostOnceInv'
<1> USE DEF AtMostOnceInv
<1> USE DEF chainVars, stateVars
<1>1. UNCHANGED chainVars /\ UNCHANGED <<actions, attempts, marked>>
  BY DEF Confirmed
<1>2. ChainOK' /\ SentIsJournaled' /\ JournalOK'
  BY <1>1, QuietStep
<1>3. ChainTypeOK'
  BY <1>1 DEF ChainTypeOK, TypeOK
<1>4. /\ confirms' \in SUBSET Receipt
      /\ UNCHANGED <<actions, attempts, policy, present, stateVars>>
  BY DEF Confirmed, Confirm, TypeOK
<1>5. CASE pc' = "retire" /\ mode = "retry" /\ ~receipt.ok
            /\ UNCHANGED <<mode, todo, saved, receipt, pos, opt>>
  <2>1. PICK i \in DOMAIN hist : hist[i] = receipt
    BY ZenonT(30) DEF Confirmed, IsCanonical, Seen, SeenNonces
  <2>2. i = saved.nonce /\ receipt.tx.key = saved.key /\ receipt.height <= final
    BY <1>5, <2>1, ZenonT(30) DEF Confirmed, RunOK, ChainOK
  <2>3. FinalFailed(saved.key, saved.nonce)
    BY <1>5, <2>1, <2>2, ZenonT(30) DEF FinalFailed
  <2>4. FinalFailed(saved.key, saved.nonce)'
    BY <1>1, <1>5, <2>3 DEF FinalFailed
  <2>5. TypeOK'
    BY <1>3, <1>4, <1>5 DEF TypeOK, PCs
  <2>6. pc = "canon"
    BY DEF Confirmed
  <2>7. marked /\ todo \subseteq actions /\ saved \in actions /\ saved \notin todo
    BY <2>6 DEF RunOK, ResumePCs
  <2>8. receipt.tx.key = saved.key /\ receipt.tx.nonce = saved.nonce
    BY <2>6, ZenonT(30) DEF RunOK
  <2>9. RunOK'
    <3>1. /\ pc' = "retire" /\ mode' = "retry" /\ marked'
          /\ todo' \subseteq actions' /\ saved' \in actions' /\ saved' \notin todo'
      BY <1>1, <1>5, <2>7
    <3>2. receipt'.tx.key = saved'.key /\ receipt'.tx.nonce = saved'.nonce
      BY <1>5, <2>8
    <3> QED BY <2>4, <3>1, <3>2 DEF RunOK
  <2> QED BY <1>2, <2>5, <2>9, ZenonT(30)
<1>6. CASE ResetRun
  <2>1. TypeOK'
    BY <1>3, <1>4, <1>6, ResetType DEF TypeOK
  <2> QED BY <1>2, <1>6, <2>1, ResetOK
<1>7. CASE /\ pc' = IF mode = "reconcile" THEN "reconcile" ELSE "step"
           /\ pos' = IF mode = "reconcile" THEN pos ELSE pos + 1
           /\ mode' = "none" /\ saved' = NoTx /\ receipt' = NoReceipt
           /\ UNCHANGED <<todo, opt>>
           /\ mode # "retry"
  <2>1. saved' \in AnyTx /\ receipt' \in Receipt
    BY <1>7 DEF NoTx, NoReceipt, Receipt, AnyTx
  <2>2. TypeOK'
    BY <1>3, <1>4, <1>7, <2>1 DEF TypeOK, PCs
  <2>3. mode \in {"reconcile", "step"} /\ pc = "canon"
    BY <1>7, ZenonT(30) DEF Confirmed, RunOK, ResumePCs, TypeOK
  <2>4. todo' \subseteq actions' /\ marked' /\ (mode = "step" => todo' = {})
    BY <1>1, <1>7, <2>3, ZenonT(30) DEF RunOK
  <2>5. RunOK'
    BY <1>7, <2>3, <2>4 DEF RunOK, ResumePCs
  <2> QED BY <1>2, <2>2, <2>5
<1> QED BY <1>5, <1>6, <1>7 DEF Confirmed

\* A replacement has the key and the nonce of the transaction it replaces.
LEMMA BumpStep ==
  ASSUME AtMostOnceInv, BumpSome
  PROVE  AtMostOnceInv'
<1> USE DEF AtMostOnceInv
<1> USE DEF chainVars, stateVars
<1>1. PICK fee \in Fees : Bump(fee)
  BY ZenonT(30) DEF BumpSome
<1> DEFINE new == Replacement(saved, fee)
<1>2. saved \in actions /\ saved \in Tx /\ saved \notin todo
  BY <1>1 DEF Bump, RunOK, ResumePCs, TypeOK
<1>3. new \in Tx /\ new \in AnyTx /\ new.key = saved.key /\ new.nonce = saved.nonce
  BY <1>2, NumbersAssumption DEF Replacement, Tx, AnyTx
<1> HIDE DEF new
<1>4. /\ actions' = (actions \ {saved}) \cup {new}
      /\ attempts' = attempts \cup {saved}
      /\ saved' = new
      /\ UNCHANGED <<chainVars, stateVars, confirms, policy, present, mode, todo, receipt, pos, opt>>
      /\ pc' = "broadcast"
  BY <1>1 DEF Bump, Replace, new
<1>5. ChainOK'
  BY <1>4 DEF ChainOK
<1>6. SentIsJournaled'
  BY <1>4 DEF SentIsJournaled, OwnHist, Journaled
<1>7. \A k, n : FinalFailed(k, n)' <=> FinalFailed(k, n)
  BY <1>4 DEF FinalFailed
<1>8. JournalOK'
  <2>1. \A t, u \in actions' : t.key = u.key => t = u
    BY <1>2, <1>3, <1>4 DEF JournalOK
  <2>2. ASSUME NEW a \in attempts'
        PROVE  \/ \E t \in actions' : t.key = a.key /\ t.nonce = a.nonce
               \/ FinalFailed(a.key, a.nonce)'
    BY <1>2, <1>3, <1>4, <1>7, <2>2 DEF JournalOK
  <2>3. pc = "bump"
    BY <1>1 DEF Bump
  <2>4. marked'
    BY <1>4, <2>3, ZenonT(30) DEF RunOK
  <2> QED BY <2>1, <2>2, <2>4 DEF JournalOK
<1>9. TypeOK'
  <2>1. ChainTypeOK'
    BY <1>4, ZenonT(30) DEF ChainTypeOK, TypeOK
  <2> QED BY <1>2, <1>3, <1>4, <2>1 DEF TypeOK, PCs
<1>10. RunOK'
  <2>1. new \notin todo
    BY <1>2, <1>3 DEF JournalOK, RunOK
  <2>2. pc = "bump" /\ mode # "none" /\ marked /\ todo \subseteq actions
    BY <1>1, ZenonT(30) DEF Bump, RunOK, ResumePCs
  <2>3. todo' \subseteq actions' /\ saved' \in actions' /\ saved' \notin todo'
    BY <1>2, <1>4, <2>1, <2>2, ZenonT(30)
  <2>4. mode' = "step" => todo' = {}
    BY <1>4 DEF RunOK
  <2> QED BY <1>4, <2>2, <2>3, <2>4, ZenonT(30) DEF RunOK, ResumePCs
<1> QED BY <1>5, <1>6, <1>8, <1>9, <1>10

\* What is retired has finally failed, and so has every hash that competed with it.
LEMMA RetireStep ==
  ASSUME AtMostOnceInv, Retire
  PROVE  AtMostOnceInv'
<1> USE DEF AtMostOnceInv
<1> USE DEF chainVars, stateVars
<1>1. saved \in actions /\ FinalFailed(saved.key, saved.nonce) /\ marked
  BY DEF Retire, RunOK, ResumePCs
<1>2. /\ actions' = actions \ {saved}
      /\ attempts' = attempts \cup {saved}
      /\ UNCHANGED <<chainVars, confirms, policy, present, stateVars>>
      /\ ResetRun
  BY DEF Retire
<1>3. ChainOK'
  BY <1>2 DEF ChainOK
<1>4. SentIsJournaled'
  BY <1>1, <1>2 DEF SentIsJournaled, OwnHist, Journaled
<1>5. \A k, n : FinalFailed(k, n)' <=> FinalFailed(k, n)
  BY <1>2 DEF FinalFailed
<1>6. JournalOK'
  BY <1>1, <1>2, <1>5 DEF JournalOK
<1>7. TypeOK'
  <2>1. ChainTypeOK'
    BY <1>2 DEF ChainTypeOK, TypeOK
  <2> QED BY <1>1, <1>2, <2>1, ResetType DEF TypeOK
<1> QED BY <1>2, <1>3, <1>4, <1>6, <1>7, ResetOK, ZenonT(30)

\* A new transaction is journaled under a key that has none.
LEMMA RecordStep ==
  ASSUME AtMostOnceInv, Record
  PROVE  AtMostOnceInv'
<1> USE DEF AtMostOnceInv
<1> USE DEF chainVars, stateVars
<1>1. saved \in Tx /\ ~HasAction(saved.key) /\ marked /\ todo = {}
  BY DEF Record, RunOK
<1>2. /\ actions' = actions \cup {saved}
      /\ UNCHANGED <<chainVars, attempts, confirms, policy, present, stateVars,
                     todo, saved, receipt, pos, opt>>
      /\ mode' = "step" /\ pc' = "lookup"
  BY ZenonT(30) DEF Record
<1>3. ChainOK'
  BY <1>2 DEF ChainOK
<1>4. SentIsJournaled'
  BY <1>2 DEF SentIsJournaled, OwnHist, Journaled
<1>5. \A k, n : FinalFailed(k, n)' <=> FinalFailed(k, n)
  BY <1>2, ZenonT(30) DEF FinalFailed
<1>6. JournalOK'
  BY <1>1, <1>2, <1>5, ZenonT(30) DEF JournalOK, HasAction
<1>7. TypeOK'
  <2>1. ChainTypeOK'
    BY <1>2, ZenonT(30) DEF ChainTypeOK, TypeOK
  <2> QED BY <1>1, <1>2, <2>1 DEF TypeOK, PCs
<1>8. RunOK'
  BY <1>1, <1>2, ZenonT(30) DEF RunOK, ResumePCs
<1> QED BY <1>3, <1>4, <1>6, <1>7, <1>8, ZenonT(30)

-----------------------------------------------------------------------------
(* The chain's own steps.                                                    *)

\* The chain keeps what is finalized: every surviving or new inclusion sits at
\* its nonce, a new one is pooled or foreign, and finality never goes back.
LEMMA ChainKeeps ==
  ASSUME ChainTypeOK, ChainOK, ChainNext
  PROVE  /\ ChainOK'
         /\ final <= final'
         /\ pool' \subseteq pool
         /\ \A i \in DOMAIN hist :
               hist[i].height <= final => i \in DOMAIN hist' /\ hist'[i] = hist[i]
         /\ \A i \in DOMAIN hist' :
               \/ i \in DOMAIN hist /\ hist'[i] = hist[i]
               \/ hist'[i].tx \in pool
               \/ hist'[i].tx.key = Foreign
<1>1. /\ head \in Nat /\ final \in Nat /\ final <= head
      /\ Len(hist) \in Nat /\ DOMAIN hist = 1 .. Len(hist)
  BY DEF ChainTypeOK, ChainOK
<1>2. \A i \in DOMAIN hist :
         hist[i].height \in Nat /\ hist[i].height <= head /\ hist[i].tx.nonce = i
  BY HistType, ZenonT(30) DEF ChainOK
<1>3. ASSUME NEW t, NEW ok, Include(t, ok), t \in pool \/ t.key = Foreign
      PROVE  /\ ChainOK'
             /\ final <= final'
             /\ pool' \subseteq pool
             /\ \A i \in DOMAIN hist :
                   hist[i].height <= final => i \in DOMAIN hist' /\ hist'[i] = hist[i]
             /\ \A i \in DOMAIN hist' :
                   \/ i \in DOMAIN hist /\ hist'[i] = hist[i]
                   \/ hist'[i].tx \in pool
                   \/ hist'[i].tx.key = Foreign
  <2> DEFINE e == [tx |-> t, ok |-> ok, height |-> head + 1, fork |-> fork]
  <2>1. /\ hist' = Append(hist, e) /\ head' = head + 1
        /\ t.nonce = Len(hist) + 1
        /\ final' = final /\ pool' = pool
    BY <1>3 DEF Include
  <2>2. e.tx = t /\ e.height = head + 1
    OBVIOUS
  <2> HIDE DEF e
  <2>3. /\ DOMAIN hist' = 1 .. Len(hist) + 1
        /\ \A i \in DOMAIN hist : hist'[i] = hist[i]
        /\ hist'[Len(hist) + 1] = e
    BY <2>1 DEF ChainTypeOK
  <2>4. \A i \in DOMAIN hist' : i \in DOMAIN hist \/ i = Len(hist) + 1
    BY <1>1, <2>3
  <2>5. ChainOK'
    <3>1. final' <= head'
      BY <1>1, <2>1
    <3>2. ASSUME NEW i \in DOMAIN hist, hist'[i] = hist[i]
          PROVE  hist'[i].tx.nonce = i /\ hist'[i].height <= head'
      BY <1>1, <1>2, <2>1, <3>2
    <3>3. LET n == Len(hist) + 1
          IN  hist'[n].tx.nonce = n /\ hist'[n].height <= head'
      BY <1>1, <2>1, <2>2, <2>3
    <3> QED BY <2>3, <2>4, <3>1, <3>2, <3>3 DEF ChainOK
  <2>6. \A i \in DOMAIN hist : i \in DOMAIN hist'
    BY <1>1, <2>3
  <2>7. \A i \in DOMAIN hist' :
           \/ i \in DOMAIN hist /\ hist'[i] = hist[i]
           \/ hist'[i].tx \in pool
           \/ hist'[i].tx.key = Foreign
    BY <1>3, <2>2, <2>3, <2>4
  <2>8. final <= final' /\ pool' \subseteq pool
    BY <1>1, <2>1
  <2> QED BY <2>3, <2>5, <2>6, <2>7, <2>8
<1>4. CASE IncludePooled
  <2>1. PICK t \in pool, ok \in BOOLEAN : Include(t, ok)
    BY <1>4 DEF IncludePooled
  <2> QED BY <1>3, <2>1
<1>5. CASE IncludeForeign
  <2>1. ForeignTx(Len(hist) + 1).key = Foreign
    BY DEF ForeignTx
  <2>2. Include(ForeignTx(Len(hist) + 1), TRUE)
    BY <1>5, ZenonT(30) DEF IncludeForeign
  <2> QED BY <1>3, <2>1, <2>2, ZenonT(30)
<1>6. CASE Mine \/ Finalize
  <2>1. /\ hist' = hist /\ pool' = pool
        /\ head' \in Nat /\ head <= head' /\ final <= final' /\ final' <= head'
    BY <1>1, <1>6 DEF Mine, Finalize
  <2>2. \A i \in DOMAIN hist' : hist'[i].tx.nonce = i /\ hist'[i].height <= head'
    BY <1>1, <1>2, <2>1
  <2>3. ChainOK'
    BY <2>1, <2>2, ZenonT(30) DEF ChainOK
  <2> QED BY <2>1, <2>3
<1>7. CASE ReorgSome
  <2>1. PICK h \in final .. head - 1, n \in 0 .. Len(hist) : Reorg(h, n)
    BY <1>7 DEF ReorgSome
  <2>2. /\ hist' = SubSeq(hist, 1, n) /\ head' = h
        /\ final' = final /\ pool' = pool
        /\ \A i \in DOMAIN hist : hist[i].height <= h <=> i <= n
    BY <2>1 DEF Reorg
  <2>3. h \in Int /\ final <= h /\ n \in Nat /\ n <= Len(hist)
    BY <1>1, <2>1
  <2>4. DOMAIN hist' = 1 .. n /\ \A i \in 1 .. n : hist'[i] = hist[i]
    BY <2>2, <2>3 DEF ChainTypeOK
  <2>5. \A i \in DOMAIN hist' : i \in DOMAIN hist /\ hist'[i] = hist[i] /\ i <= n
    <3>1. \A i \in 1 .. n : i \in 1 .. Len(hist) /\ i <= n
      BY <1>1, <2>3
    <3> QED BY <1>1, <2>4, <3>1
  <2>6. ChainOK'
    <3>1. \A i \in DOMAIN hist' : hist'[i].tx.nonce = i /\ hist'[i].height <= head'
      BY <1>2, <2>2, <2>5
    <3> QED BY <2>2, <2>3, <3>1 DEF ChainOK
  <2>7. ASSUME NEW i \in DOMAIN hist, hist[i].height <= final
        PROVE  i \in DOMAIN hist' /\ hist'[i] = hist[i]
    <3>1. hist[i].height <= h
      BY <1>1, <1>2, <2>3, <2>7
    <3>2. i <= n
      BY <2>2, <3>1
    <3>3. i \in 1 .. n
      BY <1>1, <2>3, <3>2
    <3> QED BY <2>4, <3>3
  <2> QED BY <1>1, <2>2, <2>5, <2>6, <2>7
<1>8. CASE ForgetSome
  <2>1. /\ hist' = hist /\ head' = head /\ final' = final
        /\ pool' \subseteq pool
    BY <1>8 DEF ForgetSome, Forget
  <2>2. ChainOK'
    BY <2>1, ZenonT(30) DEF ChainOK
  <2> QED BY <1>1, <2>1, <2>2
<1> QED BY <1>4, <1>5, <1>6, <1>7, <1>8, ZenonT(30) DEF ChainNext

\* Blocks, finality, reorganizations and forgotten transactions keep what the journal and
\* the run rely on.
LEMMA ChainStep ==
  ASSUME AtMostOnceInv, ChainNext, UNCHANGED <<journalVars, stateVars, runVars>>
  PROVE  AtMostOnceInv'
<1> USE DEF AtMostOnceInv
<1> USE DEF journalVars, stateVars, runVars
<1>1. ChainTypeOK' /\ TypeOK'
  BY ChainType, ZenonT(30) DEF TypeOK
<1>2. /\ ChainOK'
      /\ final <= final'
      /\ pool' \subseteq pool
      /\ \A i \in DOMAIN hist :
            hist[i].height <= final => i \in DOMAIN hist' /\ hist'[i] = hist[i]
      /\ \A i \in DOMAIN hist' :
            \/ i \in DOMAIN hist /\ hist'[i] = hist[i]
            \/ hist'[i].tx \in pool
            \/ hist'[i].tx.key = Foreign
  BY ChainKeeps, ZenonT(30) DEF TypeOK
<1>3. SentIsJournaled'
  BY <1>2, ZenonT(30) DEF SentIsJournaled, OwnHist, Journaled
<1>4. ASSUME NEW k, NEW n, FinalFailed(k, n) PROVE FinalFailed(k, n)'
  <2>1. n \in DOMAIN hist /\ hist[n].height \in Nat
    BY <1>4, HistType, ZenonT(30) DEF FinalFailed, TypeOK
  <2>2. hist[n].height <= final
    BY <1>4 DEF FinalFailed
  <2>3. n \in DOMAIN hist' /\ hist'[n] = hist[n]
    BY <1>2, <2>1, <2>2, ZenonT(30)
  <2>4. final \in Nat /\ final' \in Nat
    BY <1>1 DEF TypeOK, ChainTypeOK
  <2>5. hist'[n].height <= final'
    <3>1. final <= final'
      BY <1>2, ZenonT(30)
    <3>2. hist[n].height \in Nat
      BY <2>1
    <3>3. hist[n].height <= final'
      BY <2>2, <2>4, <3>1, <3>2
    <3> QED BY <2>3, <3>3, ZenonT(30)
  <2> QED BY <1>4, <2>3, <2>5, ZenonT(30) DEF FinalFailed
<1>5. Journaled' = Journaled
  BY ZenonT(30) DEF Journaled
<1>6. JournalOK'
  <2>1. ASSUME NEW a \in attempts
        PROVE  (\E t \in actions : t.key = a.key /\ t.nonce = a.nonce)
                  \/ FinalFailed(a.key, a.nonce)'
    BY <1>4, ZenonT(30) DEF JournalOK
  <2> QED BY <1>5, <2>1, ZenonT(30) DEF JournalOK, FinalFailed
<1>7. receipt.height <= final => receipt'.height <= final'
  <2>1. receipt \in Receipt /\ final \in Nat /\ final' \in Nat
    BY <1>1 DEF TypeOK, ChainTypeOK
  <2>2. receipt.height \in Nat /\ receipt' = receipt
    BY <2>1, ZenonT(30) DEF Receipt
  <2>3. final <= final'
    BY <1>2
  <2> QED BY <2>1, <2>2, <2>3
<1>8. pc' = "retire" => FinalFailed(saved.key, saved.nonce)'
  BY <1>4, ZenonT(30) DEF RunOK
<1>9. RunOK'
  BY <1>7, <1>8, ZenonT(30) DEF RunOK, FinalFailed
<1> QED BY <1>1, <1>2, <1>3, <1>6, <1>9

-----------------------------------------------------------------------------
(* The theorems.                                                             *)

\* A deployment begins with an empty journal and nothing on chain.
LEMMA InvInit == Init => AtMostOnceInv
<1> SUFFICES ASSUME Init PROVE AtMostOnceInv
  OBVIOUS
<1>1. TypeOK
  BY TypeInit
<1>2. ChainOK /\ SentIsJournaled /\ JournalOK
  BY DEF Init, ChainInit, ChainOK, SentIsJournaled, JournalOK, OwnHist, Journaled
<1>3. RunOK
  BY ZenonT(30) DEF Init, RunOK, ResumePCs
<1> QED BY <1>1, <1>2, <1>3 DEF AtMostOnceInv

\* Every step of the run and of the chain keeps the invariant.
LEMMA InvNext == AtMostOnceInv /\ [Next]_vars => AtMostOnceInv'
<1> SUFFICES ASSUME AtMostOnceInv, [Next]_vars PROVE AtMostOnceInv'
  OBVIOUS
<1>1. CASE UNCHANGED vars
  <2>1. UNCHANGED <<chainVars, journalVars, stateVars, runVars>>
    BY <1>1 DEF vars
  <2>2. ChainOK' /\ SentIsJournaled' /\ JournalOK'
    BY <2>1, QuietStep, ZenonT(30) DEF AtMostOnceInv, journalVars, stateVars
  <2>3. TypeOK'
    BY <2>1, ZenonT(30) DEF AtMostOnceInv, TypeOK, ChainTypeOK, chainVars, journalVars,
       stateVars, runVars
  <2>4. (pc = "retire" => FinalFailed(saved.key, saved.nonce))
           => (pc' = "retire" => FinalFailed(saved.key, saved.nonce)')
    BY <2>1, ZenonT(30) DEF FinalFailed, chainVars, runVars
  <2>5. RunOK'
    BY <2>1, <2>4, ZenonT(30) DEF AtMostOnceInv, RunOK, FinalFailed, chainVars, journalVars,
       stateVars, runVars
  <2> QED BY <2>2, <2>3, <2>5 DEF AtMostOnceInv
<1> QED
  BY <1>1, OpeningSteps, LookupSteps, StepSteps, BroadcastSteps, ConfirmedStep,
     BumpStep, RetireStep, RecordStep, ChainStep DEF Next, RunNext

\* An executed transaction of a key is the key's action or has its nonce.
LEMMA InvAtMostOnce == AtMostOnceInv => AtMostOnce
<1> SUFFICES ASSUME AtMostOnceInv, NEW i \in OwnHist, NEW j \in OwnHist,
                    hist[i].tx.key = hist[j].tx.key, hist[i].ok, hist[j].ok
             PROVE  i = j
  BY ZenonT(30) DEF AtMostOnce
<1>1. ASSUME NEW m \in OwnHist, hist[m].ok
      PROVE  \E t \in actions : t.key = hist[m].tx.key /\ t.nonce = m
  <2>1. hist[m].tx \in Journaled /\ hist[m].tx.nonce = m /\ m \in DOMAIN hist
    BY ZenonT(30) DEF AtMostOnceInv, SentIsJournaled, ChainOK, OwnHist
  <2>2. ~FinalFailed(hist[m].tx.key, m)
    BY <1>1 DEF FinalFailed
  <2> QED BY <2>1, <2>2 DEF AtMostOnceInv, JournalOK, Journaled
<1>2. \A t, u \in actions : t.key = u.key => t = u
  BY DEF AtMostOnceInv, JournalOK
<1>3. PICK t \in actions : t.key = hist[i].tx.key /\ t.nonce = i
  BY <1>1
<1>4. PICK u \in actions : u.key = hist[j].tx.key /\ u.nonce = j
  BY <1>1
<1> QED BY <1>2, <1>3, <1>4, ZenonT(30)

\* The run's memory, the journal and the chain are always well formed.
THEOREM TypeCorrect == Spec => []TypeOK
<1>1. AtMostOnceInv => TypeOK
  BY DEF AtMostOnceInv
<1> QED BY <1>1, InvInit, InvNext, PTL DEF Spec

\* No action of a deployment is executed twice on the canonical chain, for any
\* steps, keys, fees and policies, any number of runs, crashes and lost responses,
\* and any reorganization of blocks that are not finalized.
THEOREM ExecutesAtMostOnce == Spec => []AtMostOnce
BY InvInit, InvNext, InvAtMostOnce, PTL DEF Spec

\* Whatever the network holds was journaled before it was broadcast.
THEOREM BroadcastsOnlyJournaled == Spec => []SentIsJournaled
<1>1. AtMostOnceInv => SentIsJournaled
  BY ZenonT(30) DEF AtMostOnceInv
<1> QED BY <1>1, InvInit, InvNext, PTL DEF Spec

-----------------------------------------------------------------------------
(* Action properties.                                                        *)

\* How one step changes the signed transactions of the journal.
LEMMA JournalStep ==
  ASSUME AtMostOnceInv, [Next]_vars
  PROVE  \/ UNCHANGED <<actions, attempts>>
         \/ /\ pc = "approve" /\ saved \in Tx /\ attempts' = attempts
            /\ actions' = actions \cup {saved}
         \/ /\ saved \in actions /\ attempts' = attempts \cup {saved}
            /\ \E u \in Tx : /\ u.key = saved.key /\ u.nonce = saved.nonce
                             /\ actions' = (actions \ {saved}) \cup {u}
         \/ /\ saved \in actions /\ FinalFailed(saved.key, saved.nonce)
            /\ attempts' = attempts \cup {saved} /\ actions' = actions \ {saved}
<1> USE DEF journalVars
<1>1. CASE StartSome
  BY <1>1, ZenonT(30) DEF StartSome, Start, JournalAcceptable, AtMostOnceInv, JournalOK, Journaled
<1>2. CASE Record
  BY <1>2, ZenonT(30) DEF Record, AtMostOnceInv, RunOK
<1>3. CASE Retire
  BY <1>3, ZenonT(30) DEF Retire, AtMostOnceInv, RunOK, ResumePCs
<1>4. CASE BumpSome
  <2>1. PICK fee \in Fees : Bump(fee)
    BY <1>4, ZenonT(30) DEF BumpSome
  <2>2. saved \in actions /\ saved \in Tx
    BY <2>1, ZenonT(30) DEF Bump, AtMostOnceInv, RunOK, ResumePCs, TypeOK
  <2>3. LET u == Replacement(saved, fee)
        IN  u \in Tx /\ u.key = saved.key /\ u.nonce = saved.nonce
    BY <2>2, NumbersAssumption DEF Replacement, Tx
  <2>4. /\ attempts' = attempts \cup {saved}
        /\ actions' = (actions \ {saved}) \cup {Replacement(saved, fee)}
    BY <2>1, ZenonT(30) DEF Bump, Replace
  <2> QED BY <2>2, <2>3, <2>4
<1>5. CASE Open \/ ReconcileSome \/ ReconcileDone \/ NotFound \/ CheckNonce \/ Broadcast
             \/ BroadcastUnresolved \/ DeepEnough \/ Refetch \/ Confirmed
  BY <1>5, ZenonT(30) DEF Open, ReconcileSome, ReconcileNext, ReconcileDone, NotFound, CheckNonce,
     Broadcast, BroadcastUnresolved, DeepEnough, Refetch, Confirmed
<1>6. CASE Lookup \/ StepResume \/ StepSign \/ Sign \/ CompleteStep \/ GiveUp \/ Crash
             \/ LoseJournal \/ RestoreJournal
  BY <1>6, ZenonT(30) DEF Lookup, Found, StepResume, StepSign, Sign, CompleteStep, GiveUp, Crash, Stop,
     LoseJournal, RestoreJournal
<1>7. CASE ChainNext /\ UNCHANGED <<journalVars, stateVars, runVars>>
  BY <1>7
<1>8. CASE UNCHANGED vars
  BY <1>8 DEF vars
<1> QED BY <1>1, <1>2, <1>3, <1>4, <1>5, <1>6, <1>7, <1>8, ZenonT(30) DEF Next, RunNext

\* No step of a run, a crash or the chain makes the journal forget signed bytes.
THEOREM SignedTransactionsAreKept == Spec => SignedIsKept
<1>1. AtMostOnceInv /\ [Next]_vars => [Journaled \subseteq Journaled']_vars
  BY JournalStep DEF Journaled
<1> QED BY <1>1, InvInit, InvNext, PTL DEF Spec, SignedIsKept

\* A signed transaction only loses its place to a replacement at its own nonce, or
\* after a failed attempt of its key consumed that nonce in a finalized block.
THEOREM NoncesAreKept == Spec => NonceIsKept
<1>1. AtMostOnceInv /\ [Next]_vars =>
        [\A t \in actions :
            \/ \E u \in actions' : u.key = t.key /\ u.nonce = t.nonce
            \/ FinalFailed(t.key, t.nonce)]_vars
  BY JournalStep
<1> QED BY <1>1, InvInit, InvNext, PTL DEF Spec, NonceIsKept

-----------------------------------------------------------------------------
(* The gateway.                                                              *)

\* How far the deployment has got, in numbers.
LEMMA ProgressType ==
  ASSUME AtMostOnceInv
  PROVE  /\ done \in Nat /\ predicted \in Nat /\ pos \in Nat /\ PredictStep \in Nat
         /\ done < Len(Steps) => Steps[done + 1] \in Seq(Keys)
<1>1. done \in 0 .. Len(Steps) /\ predicted \in Nat /\ pos \in Nat
  BY DEF AtMostOnceInv, TypeOK
<1>2. PredictStep \in Nat
  BY NumbersAssumption
<1> QED BY <1>1, <1>2, StepsAssumption

\* The prediction is made once, before anything pinned is signed.
LEMMA PinNext ==
  ASSUME AtMostOnceInv, PinInv, [Next]_vars
  PROVE  PinInv'
<1> USE DEF journalVars, stateVars, runVars
<1>1. CASE CompleteStep
  <2>1. UNCHANGED <<actions, attempts, pc>> /\ pc = "step" /\ done' = done + 1
    BY <1>1 DEF CompleteStep, InStep
  <2>2. predicted > 0 => done >= PredictStep
    BY ZenonT(30) DEF PinInv
  <2>3. Journaled' = Journaled
    BY <2>1, ZenonT(30) DEF Journaled
  <2>4. CASE done + 1 = PredictStep
    <3>1. PICK h \in Heights : predicted' = Count(h) + 1
      BY <1>1, <2>4, ZenonT(30) DEF CompleteStep
    <3>2. predicted' > 0
      BY <3>1, CountType DEF AtMostOnceInv, TypeOK
    <3>3. predicted = 0 /\ ~(predicted > 0) /\ done' >= PredictStep
      BY <2>1, <2>2, <2>4, ProgressType
    <3>4. \A t \in Journaled : t.key \notin Pinned
      BY <3>3, ZenonT(30) DEF PinInv
    <3> QED BY <2>1, <2>3, <3>2, <3>3, <3>4, ZenonT(30) DEF PinInv
  <2>5. CASE done + 1 # PredictStep
    <3>1. predicted' = predicted
      BY <1>1, <2>5, ZenonT(30) DEF CompleteStep
    <3>2. predicted' > 0 => done' >= PredictStep
      BY <2>1, <2>2, <3>1, ProgressType
    <3> QED BY <2>1, <2>3, <3>1, <3>2, ZenonT(30) DEF PinInv
  <2> QED BY <2>4, <2>5
<1>2. CASE Sign
  <2>1. UNCHANGED <<actions, attempts, done, predicted, pos>> /\ pc = "sign" /\ pc' = "approve"
    BY <1>2 DEF Sign
  <2>2. PICK h \in Heights, fee \in Fees : \E n \in DraftNonces(StepKey, h) :
           saved' = [key |-> StepKey, nonce |-> n, cost |-> fee]
    BY <1>2 DEF Sign
  <2>3. PICK n \in DraftNonces(StepKey, h) :
           saved' = [key |-> StepKey, nonce |-> n, cost |-> fee]
    BY <2>2
  <2>4. StepKey \in Pinned => predicted > 0 /\ n = predicted + PinOffset[StepKey]
    BY DEF DraftNonces
  <2>5. saved'.key \in Pinned => predicted > 0 /\ saved'.nonce = predicted + PinOffset[saved'.key]
    BY <2>3, <2>4, ZenonT(30)
  <2> QED BY <2>1, <2>5, ZenonT(30) DEF PinInv, Journaled
<1>3. CASE ~CompleteStep /\ ~Sign
  <2>1. done' = done /\ predicted' = predicted
    BY <1>3, ZenonT(30) DEF Next, RunNext, ChainNext, vars, StartSome, Start, Open, ReconcileSome,
       ReconcileNext, ReconcileDone, Lookup, Found, NotFound, CheckNonce, BumpSome, Bump,
       Broadcast, BroadcastUnresolved, DeepEnough, Refetch, Confirmed, Retire, StepResume,
       StepSign, Record, GiveUp, Crash, Stop, LoseJournal, RestoreJournal
  <2>2. pc' = "approve" => pc = "approve" /\ saved' = saved
    BY <1>3, ZenonT(30) DEF Next, RunNext, ChainNext, vars, StartSome, Start, Open, ReconcileSome,
       ReconcileNext, ReconcileDone, Lookup, Found, NotFound, CheckNonce, BumpSome, Bump,
       Broadcast, BroadcastUnresolved, DeepEnough, Refetch, Confirmed, Retire, StepResume,
       StepSign, Record, GiveUp, Crash, Stop, ResetRun, LoseJournal, RestoreJournal
  <2>3. \A t \in Journaled' :
           \/ t \in Journaled
           \/ pc = "approve" /\ t = saved
           \/ \E u \in Journaled : u.key = t.key /\ u.nonce = t.nonce
    BY JournalStep DEF Journaled
  <2> QED BY <2>1, <2>2, <2>3 DEF PinInv, Journaled
<1> QED BY <1>1, <1>2, <1>3

\* The gateway's CREATEs are only ever signed for the nonces their addresses were
\* predicted from, so the addresses registered on Cosmos are the ones deployed.
THEOREM GatewayIsWherePredicted == Spec => []GatewayAtPrediction
<1>1. Init => PinInv
  BY DEF Init, PinInv, Journaled
<1>2. PinInv => GatewayAtPrediction
  BY DEF PinInv, GatewayAtPrediction
<1>3. AtMostOnceInv /\ PinInv /\ [Next]_vars => PinInv'
  BY PinNext
<1> QED BY <1>1, <1>2, <1>3, InvInit, InvNext, PTL DEF Spec

-----------------------------------------------------------------------------
(* Completed steps, when every run waits for finality.                       *)

\* What has finally succeeded stays so.
LEMMA FinalOkStable ==
  ASSUME AtMostOnceInv, [Next]_vars, NEW k, FinalOk(k)
  PROVE  FinalOk(k)'
<1>1. PICK i \in DOMAIN hist : hist[i].height <= final /\ hist[i].tx.key = k /\ hist[i].ok
  BY DEF FinalOk
<1>2. hist[i].height \in Nat /\ final \in Nat
  BY HistType, ZenonT(30) DEF AtMostOnceInv, TypeOK, ChainTypeOK
<1>3. CASE ChainNext
  <2>1. final' \in Nat
    BY <1>3, ChainType, ZenonT(30) DEF AtMostOnceInv, TypeOK, ChainTypeOK
  <2>2. final <= final' /\ i \in DOMAIN hist' /\ hist'[i] = hist[i]
    BY <1>1, <1>3, ChainKeeps, ZenonT(30) DEF AtMostOnceInv, TypeOK
  <2> QED BY <1>1, <1>2, <2>1, <2>2 DEF FinalOk
<1>4. CASE ~ChainNext
  <2>1. hist' = hist /\ final' = final
    BY <1>4, ZenonT(30) DEF Next, RunNext, vars, chainVars, StartSome, Start, Open, ReconcileSome,
       ReconcileNext, ReconcileDone, Lookup, Found, NotFound, CheckNonce, BumpSome, Bump,
       Broadcast, BroadcastUnresolved, DeepEnough, Refetch, Confirmed, Retire, StepResume,
       StepSign, Sign, Record, CompleteStep, GiveUp, Crash, Stop, LoseJournal, RestoreJournal
  <2> QED BY <1>1, <2>1 DEF FinalOk
<1> QED BY <1>3, <1>4

\* The keys the deployment has passed: those of the completed steps, and those of
\* the pending step before the run's position.
PassedOK ==
    /\ \A s \in 1 .. done : \A k \in KeysOf(s) : FinalOk(k)
    /\ done < Len(Steps) =>
          \A j \in DOMAIN Steps[done + 1] : j < pos => FinalOk(Steps[done + 1][j])

\* What was passed stays passed while the progress does not move.
LEMMA PassedKept ==
  ASSUME AtMostOnceInv, [Next]_vars, PassedOK, done' = done, pos' \in {pos, 1}
  PROVE  PassedOK'
<1>1. \A s \in 1 .. done : \A k \in KeysOf(s) : FinalOk(k)'
  BY FinalOkStable DEF PassedOK
<1>2. ASSUME done < Len(Steps), NEW j \in DOMAIN Steps[done + 1], j < pos'
      PROVE  \A k : k = Steps[done + 1][j] => FinalOk(k)'
  <2>1. Steps[done + 1] \in Seq(Keys)
    BY <1>2, ProgressType, ZenonT(30)
  <2>2. j < pos
    BY <1>2, <2>1, ProgressType
  <2>3. FinalOk(Steps[done + 1][j])
    BY <1>2, <2>2, ZenonT(30) DEF PassedOK
  <2> QED BY <2>3, FinalOkStable
<1>3. \A s \in 1 .. done : \A k \in KeysOf(s) :
        \E i \in DOMAIN hist' : hist'[i].height <= final' /\ hist'[i].tx.key = k /\ hist'[i].ok
  BY <1>1 DEF FinalOk
<1>4. done < Len(Steps) =>
        \A j \in DOMAIN Steps[done + 1] : j < pos' =>
          \E i \in DOMAIN hist' : /\ hist'[i].height <= final'
                                 /\ hist'[i].tx.key = Steps[done + 1][j] /\ hist'[i].ok
  BY <1>2, ZenonT(30) DEF FinalOk
<1> QED BY <1>3, <1>4, ZenonT(30) DEF PassedOK, FinalOk

\* The step's keys are all passed when the run has gone past the last of them.
LEMMA PassedComplete ==
  ASSUME AtMostOnceInv, PassedOK, CompleteStep
  PROVE  PassedOK'
<1>1. /\ done < Len(Steps) /\ done' = done + 1 /\ pos' = 1 /\ hist' = hist /\ final' = final
      /\ pos > Len(Steps[done + 1])
  BY DEF CompleteStep, InStep, chainVars
<1>2. Steps[done + 1] \in Seq(Keys)
  BY <1>1, ProgressType, ZenonT(30)
<1>3. \A k \in KeysOf(done + 1) : FinalOk(k)
  <2>1. \A j \in DOMAIN Steps[done + 1] : j < pos
    BY <1>1, <1>2, ProgressType
  <2> QED BY <1>1, <2>1, ZenonT(30) DEF PassedOK, KeysOf
<1>4. \A s \in 1 .. done' : \A k \in KeysOf(s) : FinalOk(k)
  <2>1. \A s \in 1 .. done' : s \in 1 .. done \/ s = done + 1
    BY <1>1, ProgressType
  <2> QED BY <1>3, <2>1, ZenonT(30) DEF PassedOK
<1>5. ASSUME done' < Len(Steps), NEW j \in DOMAIN Steps[done' + 1]
      PROVE  ~(j < 1)
  <2>1. done' + 1 \in 1 .. Len(Steps)
    BY <1>1, <1>5, ProgressType
  <2>2. Steps[done' + 1] \in Seq(Keys)
    BY <2>1, StepsAssumption
  <2> QED BY <2>2
<1>6. \A k : FinalOk(k)' = FinalOk(k)
  BY <1>1, ZenonT(30) DEF FinalOk
<1> QED BY <1>1, <1>4, <1>5, <1>6, ZenonT(30) DEF PassedOK

\* A confirmed transaction of the pending step is one more key passed.
LEMMA PassedConfirmed ==
  ASSUME AtMostOnceInv, PassedOK, Confirmed, FinalOk(saved.key), saved.key = StepKey,
         done < Len(Steps), pos' = pos + 1
  PROVE  PassedOK'
<1>1. done' = done /\ hist' = hist /\ final' = final
  BY DEF Confirmed, chainVars, stateVars
<1>2. Steps[done + 1] \in Seq(Keys)
  BY ProgressType, ZenonT(30)
<1>3. \A j \in DOMAIN Steps[done + 1] : j < pos + 1 => FinalOk(Steps[done + 1][j])
  <2> SUFFICES ASSUME NEW j \in DOMAIN Steps[done + 1], j < pos + 1
               PROVE  FinalOk(Steps[done + 1][j])
    OBVIOUS
  <2>1. CASE j = pos
    BY <2>1 DEF StepKey
  <2>2. CASE j # pos
    <3>1. j < pos
      BY <1>2, <2>2, ProgressType
    <3> QED BY <3>1, ZenonT(30) DEF PassedOK
  <2> QED BY <2>1, <2>2
<1>4. \A k : FinalOk(k)' = FinalOk(k)
  BY <1>1, ZenonT(30) DEF FinalOk
<1>5. \A s \in 1 .. done : \A k \in KeysOf(s) : FinalOk(k)
  BY ZenonT(30) DEF PassedOK
<1> QED BY <1>1, <1>3, <1>4, <1>5, ZenonT(30) DEF PassedOK

\* The run is at the key it resumes.
AtStepKey ==
    pc = "approve" \/ (pc \in ResumePCs /\ mode = "step") =>
        /\ done < Len(Steps)
        /\ pos <= Len(Steps[done + 1])
        /\ saved.key = StepKey

\* The pending step works on its keys in order.
LEMMA AtStepKeyNext ==
  ASSUME AtMostOnceInv, AtStepKey, [Next]_vars
  PROVE  AtStepKey'
<1> USE DEF journalVars, stateVars, runVars
<1>1. CASE Sign
  <2>1. /\ pc = "sign" /\ done' = done /\ pos' = pos /\ pc' = "approve"
        /\ done < Len(Steps) /\ pos <= Len(Steps[done + 1])
    BY <1>1, ZenonT(30) DEF Sign, AtMostOnceInv, RunOK
  <2>2. saved'.key = StepKey
    BY <1>1 DEF Sign
  <2> QED BY <2>1, <2>2 DEF AtStepKey, StepKey
<1>2. CASE StepResume
  <2>1. /\ done' = done /\ pos' = pos /\ saved'.key = StepKey
        /\ done < Len(Steps) /\ pos <= Len(Steps[done + 1])
    BY <1>2 DEF StepResume, InStep
  <2> QED BY <2>1 DEF AtStepKey, StepKey
<1>3. CASE BumpSome
  <2>1. PICK fee \in Fees : Bump(fee)
    BY <1>3 DEF BumpSome
  <2>2. /\ pc = "bump" /\ pc' = "broadcast" /\ UNCHANGED <<done, pos, mode>>
        /\ saved' = Replacement(saved, fee)
    BY <2>1 DEF Bump
  <2>3. Replacement(saved, fee).key = saved.key
    BY <2>2, NumbersAssumption DEF Replacement, AtMostOnceInv, TypeOK, AnyTx
  <2>4. saved'.key = saved.key
    BY <2>2, <2>3
  <2> QED BY <2>2, <2>4 DEF AtStepKey, StepKey, ResumePCs
<1>4. CASE ~Sign /\ ~StepResume /\ ~BumpSome
  <2>1. pc' = "approve" \/ (pc' \in ResumePCs /\ mode' = "step") =>
           /\ pc = "approve" \/ (pc \in ResumePCs /\ mode = "step")
           /\ UNCHANGED <<done, pos, saved>>
    BY <1>4, ZenonT(30) DEF Next, RunNext, ChainNext, vars, StartSome, Start, Open, ReconcileSome,
       ReconcileNext, ReconcileDone, Lookup, Found, NotFound, CheckNonce,
       Broadcast, BroadcastUnresolved, DeepEnough, Refetch, Confirmed, Retire,
       StepSign, Record, CompleteStep, InStep, GiveUp, Crash, Stop, ResetRun, LoseJournal,
       RestoreJournal, ResumePCs
  <2> QED BY <2>1 DEF AtStepKey, StepKey
<1> QED BY <1>1, <1>2, <1>3, <1>4, ZenonT(30)

\* When the policy is finality, a receipt about to be confirmed is in a finalized block.
LEMMA DeepIsFinal ==
  ASSUME AtMostOnceInv, [Next]_vars, Policies = {0}, pc = "canon" => receipt.height <= final
  PROVE  (pc = "canon" => receipt.height <= final)'
<1> USE DEF journalVars, stateVars, runVars
<1>0. policy = 0 /\ WaitPolicy = 0
  BY ZenonT(30) DEF AtMostOnceInv, TypeOK, WaitPolicy
<1>1. CASE DeepEnough
  BY <1>0, <1>1 DEF DeepEnough, HeadsFor, RequiredHeight, chainVars, AtMostOnceInv,
     TypeOK, ChainTypeOK, Receipt
<1>2. CASE ChainNext /\ UNCHANGED runVars
  <2>1. final' \in Nat /\ final <= final'
    BY <1>2, ChainType, ChainKeeps, ZenonT(30) DEF AtMostOnceInv, TypeOK, ChainTypeOK
  <2> QED BY <1>2, <2>1 DEF AtMostOnceInv, TypeOK, ChainTypeOK, Receipt
<1>3. CASE UNCHANGED vars
  BY <1>3 DEF vars, chainVars
<1>4. CASE ~DeepEnough /\ ~(ChainNext /\ UNCHANGED runVars) /\ ~UNCHANGED vars
  <2>1. pc' # "canon" \/ (pc = "canon" /\ UNCHANGED <<receipt, final>>)
    BY <1>4, ZenonT(30) DEF Next, RunNext, StartSome, Start, Open, ReconcileSome,
       ReconcileNext, ReconcileDone, Lookup, Found, NotFound, CheckNonce, BumpSome, Bump,
       Broadcast, BroadcastUnresolved, Refetch, Confirmed, Retire, StepResume, StepSign, Sign,
       Record, CompleteStep, InStep, GiveUp, Crash, Stop, ResetRun, LoseJournal,
       RestoreJournal, chainVars
  <2> QED BY <2>1
<1> QED BY <1>1, <1>2, <1>3, <1>4

\* The keys a step has passed stay final, and it completes when it has passed them all.
LEMMA CompletedNext ==
  ASSUME AtMostOnceInv, CompletedInv, [Next]_vars, Policies = {0}
  PROVE  CompletedInv'
<1> USE DEF journalVars, stateVars, runVars
<1>1. PassedOK /\ AtStepKey
  BY DEF CompletedInv, PassedOK, AtStepKey
<1>2. PassedOK'
  <2>1. CASE CompleteStep
    BY <1>1, <2>1, PassedComplete
  <2>2. CASE Confirmed /\ mode = "step" /\ receipt.ok
    <3>1. /\ pc = "canon" /\ pos' = pos + 1
          /\ \E h \in Heights : IsCanonical(receipt, h)
      BY <2>2, ZenonT(30) DEF Confirmed
    <3>2. PICK i \in DOMAIN hist : hist[i] = receipt
      BY <3>1, ZenonT(30) DEF IsCanonical, Seen, SeenNonces
    <3>3. FinalOk(saved.key)
      BY <2>2, <3>1, <3>2, ZenonT(30) DEF CompletedInv, AtMostOnceInv, RunOK, FinalOk
    <3>4. saved.key = StepKey /\ done < Len(Steps)
      BY <1>1, <2>2, <3>1 DEF AtStepKey, ResumePCs
    <3> QED BY <1>1, <2>2, <3>1, <3>3, <3>4, PassedConfirmed
  <2>3. CASE ~CompleteStep /\ ~(Confirmed /\ mode = "step" /\ receipt.ok)
    <3>1. mode \in {"retry", "reconcile", "step"} \/ pc # "canon"
      BY ZenonT(30) DEF AtMostOnceInv, RunOK, ResumePCs, TypeOK
    <3>2. Confirmed => done' = done /\ pos' \in {pos, 1}
      BY <2>3, <3>1 DEF Confirmed, ResetRun
    <3>3. ~Confirmed => done' = done /\ pos' \in {pos, 1}
      BY <2>3, ZenonT(30) DEF Next, RunNext, ChainNext, vars, StartSome, Start, Open, ReconcileSome,
         ReconcileNext, ReconcileDone, Lookup, Found, NotFound, CheckNonce, BumpSome, Bump,
         Broadcast, BroadcastUnresolved, DeepEnough, Refetch, Retire, StepResume,
         StepSign, Sign, Record, GiveUp, Crash, Stop, ResetRun, LoseJournal, RestoreJournal
    <3> QED BY <1>1, <3>2, <3>3, PassedKept, ZenonT(30)
  <2> QED BY <2>1, <2>2, <2>3
<1>3. AtStepKey'
  BY <1>1, AtStepKeyNext, ZenonT(30)
<1>4. (pc = "canon" => receipt.height <= final)'
  BY DeepIsFinal DEF CompletedInv
<1> QED BY <1>2, <1>3, <1>4, ZenonT(30) DEF CompletedInv, PassedOK, AtStepKey

\* When every run waits for finality, no reorganization can undo a completed step.
THEOREM CompletedStepsAreFinal == Spec => []CompletedIsFinal
<1>1. CASE Policies = {0}
  <2>1. Init => CompletedInv
    <3> SUFFICES ASSUME Init PROVE CompletedInv
      OBVIOUS
    <3>1. ASSUME 0 < Len(Steps) PROVE Steps[1] \in Seq(Keys)
      BY <3>1, StepsAssumption
    <3>2. done = 0 /\ pos = 1 /\ pc = "off"
      BY DEF Init
    <3>3. 1 .. 0 = {}
      OBVIOUS
    <3>4. 0 < Len(Steps) => \A j \in DOMAIN Steps[0 + 1] : ~(j < 1)
      BY <3>1
    <3> QED BY <3>2, <3>3, <3>4 DEF CompletedInv, ResumePCs
  <2>2. AtMostOnceInv /\ CompletedInv /\ [Next]_vars => CompletedInv'
    BY <1>1, CompletedNext
  <2>3. CompletedInv => CompletedIsFinal
    BY DEF CompletedInv, CompletedIsFinal
  <2> QED BY <2>1, <2>2, <2>3, InvInit, InvNext, PTL DEF Spec
<1>2. CASE Policies # {0}
  <2>1. CompletedIsFinal
    BY <1>2, ZenonT(30) DEF CompletedIsFinal
  <2> QED BY <2>1, PTL
<1> QED BY <1>1, <1>2

-----------------------------------------------------------------------------
(* The gas budget.                                                           *)

Nonces(txs) == {t.nonce : t \in txs}
Costs(txs, n) == {t.cost : t \in {u \in txs : u.nonce = n}}
Dearest(txs) == [n \in Nonces(txs) |-> Max(Costs(txs, n))]

\* The liability as a sum over a set of nonces.
LEMMA LiabilityIs == \A txs : Liability(txs) = SumFunctionOnSet(Dearest(txs), Nonces(txs))
BY DEF Liability, SumFunction, Dearest, Nonces, Costs

\* An empty journal costs nothing.
LEMMA LiabilityOfNothing == Liability({}) = 0
<1>1. Nonces({}) = {}
  BY DEF Nonces
<1> QED BY <1>1, LiabilityIs, SumEmpty, ZenonT(30)

\* A finite journal has finitely many nonces, and a dearest transaction at each.
LEMMA DearestType ==
  ASSUME NEW J \in SUBSET Tx, IsFiniteSet(J)
  PROVE  /\ IsFiniteSet(Nonces(J))
         /\ \A n \in Nonces(J) :
               /\ Dearest(J)[n] \in Costs(J, n)
               /\ Dearest(J)[n] \in Nat
               /\ \A c \in Costs(J, n) : c <= Dearest(J)[n]
<1>1. IsFiniteSet(Nonces(J))
  <2> DEFINE nonce == [t \in J |-> t.nonce]
  <2>1. Nonces(J) = {nonce[t] : t \in J}
    BY DEF Nonces
  <2> HIDE DEF nonce
  <2>2. IsFiniteSet({nonce[t] : t \in J})
    BY FiniteImage
  <2> QED BY <2>1, <2>2, ZenonT(30)
<1>2. ASSUME NEW n \in Nonces(J)
      PROVE  /\ Dearest(J)[n] \in Costs(J, n)
             /\ Dearest(J)[n] \in Nat
             /\ \A c \in Costs(J, n) : c <= Dearest(J)[n]
  <2>1. Costs(J, n) \in SUBSET Nat
    BY DEF Costs, Tx
  <2>2. Costs(J, n) # {}
    BY <1>2, ZenonT(30) DEF Costs, Nonces
  <2>3. IsFiniteSet(Costs(J, n))
    <3> DEFINE S == {u \in J : u.nonce = n}
               cost == [t \in S |-> t.cost]
    <3>1. IsFiniteSet(S)
      BY FS_Subset
    <3>2. Costs(J, n) = {cost[t] : t \in S}
      BY ZenonT(30) DEF Costs
    <3> HIDE DEF S, cost
    <3>3. IsFiniteSet({cost[t] : t \in S})
      BY <3>1, FiniteImage
    <3> QED BY <3>2, <3>3
  <2>4. Dearest(J)[n] = Max(Costs(J, n))
    BY DEF Dearest
  <2> QED BY <2>1, <2>2, <2>3, <2>4, MaxOfFinite, ZenonT(30)
<1> QED BY <1>1, <1>2, ZenonT(30)

\* What a finite journal can cost is a number.
LEMMA LiabilityType ==
  ASSUME NEW J \in SUBSET Tx, IsFiniteSet(J)
  PROVE  Liability(J) \in Nat
<1>1. IsFiniteSet(Nonces(J)) /\ \A n \in Nonces(J) : Dearest(J)[n] \in Nat
  BY DearestType
<1>2. SumFunctionOnSet(Dearest(J), Nonces(J)) \in Nat
  BY <1>1, SumType
<1> QED BY <1>2, LiabilityIs

\* One more transaction adds at most its cost: nothing if it competes at its nonce with
\* a dearer one.
LEMMA LiabilityAdds ==
  ASSUME NEW J \in SUBSET Tx, IsFiniteSet(J), NEW t \in Tx
  PROVE  Liability(J \cup {t}) <= Liability(J) + t.cost
<1> DEFINE K == J \cup {t}
           n == t.nonce
           f == Dearest(J)
           g == Dearest(K)
           N == Nonces(J)
<1>1. K \in SUBSET Tx /\ IsFiniteSet(K) /\ t.cost \in Nat
  BY FS_AddElement DEF Tx
<1>2. Nonces(K) = N \cup {n}
  BY DEF Nonces
<1>3. IsFiniteSet(N) /\ IsFiniteSet(N \cup {n})
  BY <1>1, <1>2, DearestType, ZenonT(30)
<1>4. \A m \in N : m # n => g[m] = f[m]
  <2>1. \A m \in N : m # n => Costs(K, m) = Costs(J, m)
    BY DEF Costs
  <2> QED BY <1>2, <2>1 DEF Dearest
<1>5. (\A m \in N : f[m] \in Nat) /\ (\A m \in N \cup {n} : g[m] \in Nat)
  BY <1>1, <1>2, DearestType, ZenonT(30)
<1>6. g[n] \in Costs(K, n)
  BY <1>1, <1>2, DearestType, ZenonT(30)
<1>7. Costs(K, n) = Costs(J, n) \cup {t.cost}
  BY DEF Costs
<1>8. \A txs : Liability(txs) = SumFunctionOnSet(Dearest(txs), Nonces(txs))
  BY LiabilityIs
<1>9. Liability(K) = SumFunctionOnSet(g, N \cup {n}) /\ Liability(J) = SumFunctionOnSet(f, N)
  BY <1>2, <1>8
<1>10. CASE n \notin N
  <2>1. Costs(J, n) = {}
    BY <1>10 DEF Costs, Nonces
  <2>2. g[n] = t.cost
    BY <1>6, <1>7, <2>1
  <2>3. (N \cup {n}) \ {n} = N
    BY <1>10, ZenonT(30)
  <2> HIDE DEF K, n, f, g, N
  <2>4. SumFunctionOnSet(g, N \cup {n}) = g[n] + SumFunctionOnSet(g, N)
    BY <1>3, <1>5, <2>3, SumRemove
  <2>5. \A m \in N : g[m] \in Nat /\ g[m] = f[m]
    BY <1>4, <1>5, <1>10
  <2>6. SumFunctionOnSet(g, N) = SumFunctionOnSet(f, N)
    BY <1>3, <2>5, SumSame, ZenonT(30)
  <2>7. SumFunctionOnSet(f, N) \in Nat
    BY <1>3, <1>5, SumType
  <2>8. t.cost \in Nat /\ SumFunctionOnSet(g, N \cup {n}) = t.cost + SumFunctionOnSet(f, N)
    BY <1>1, <2>2, <2>4, <2>6, ZenonT(30)
  <2>9. SumFunctionOnSet(g, N \cup {n}) <= SumFunctionOnSet(f, N) + t.cost
    BY <2>7, <2>8, OneTermMore, ZenonT(30)
  <2> QED BY <1>9, <2>9 DEF K
<1>11. CASE n \in N
  <2>1. \A c \in Costs(J, n) : c <= f[n] /\ c \in Nat
    BY <1>11, DearestType DEF Costs, Tx
  <2>2. N \cup {n} = N /\ f[n] \in Nat /\ g[n] \in Nat
    BY <1>5, <1>11, ZenonT(30)
  <2> HIDE DEF K, n, f, g, N
  <2>3. g[n] <= f[n] + t.cost
    BY <1>1, <1>6, <1>7, <2>1, <2>2
  <2>4. \A m \in N : f[m] \in Nat /\ g[m] \in Nat
    BY <1>5
  <2>5. SumFunctionOnSet(g, N) + f[n] = SumFunctionOnSet(f, N) + g[n]
    BY <1>3, <1>4, <1>11, <2>4, SumChange
  <2>6. SumFunctionOnSet(f, N) \in Nat /\ SumFunctionOnSet(g, N) \in Nat
    BY <1>3, <2>4, SumType, ZenonT(30)
  <2>7. t.cost \in Nat
    BY <1>1, ZenonT(30)
  <2>8. SumFunctionOnSet(g, N) <= SumFunctionOnSet(f, N) + t.cost
    BY <2>2, <2>3, <2>5, <2>6, <2>7, OneTermChanged, ZenonT(30)
  <2> QED BY <1>9, <2>2, <2>8, ZenonT(30) DEF K
<1> QED BY <1>10, <1>11

\* The budget covers an empty journal.
LEMMA BudgetInit == Init => BudgetInv
<1> SUFFICES ASSUME Init PROVE BudgetInv
  OBVIOUS
<1>1. Journaled = {}
  BY DEF Init, Journaled
<1>2. Liability(Journaled) <= Budget
  BY <1>1, LiabilityOfNothing, NumbersAssumption
<1> QED BY <1>1, <1>2, FS_EmptySet DEF Init, BudgetInv, SpendWithinBudget

\* What is journaled was counted against the budget before it was approved.
LEMMA BudgetNext == BudgetInv /\ AtMostOnceInv /\ [Next]_vars => BudgetInv'
<1> SUFFICES ASSUME BudgetInv, AtMostOnceInv, [Next]_vars PROVE BudgetInv'
  OBVIOUS
<1>0. Journaled \in SUBSET Tx
  BY DEF AtMostOnceInv, TypeOK, Journaled
<1>1. CASE Sign
  <2>1. Journaled' = Journaled
    BY <1>1 DEF Sign, journalVars, Journaled
  <2>2. WithinBudget(saved', FALSE)
    BY <1>1, ZenonT(30) DEF Sign
  <2>3. Liability(Journaled)' = Liability(Journaled)
    BY <2>1, ZenonT(30) DEF Liability
  <2> QED BY <2>1, <2>2, <2>3, ZenonT(30) DEF WithinBudget, BudgetInv, SpendWithinBudget
<1>2. CASE Record
  <2>1. /\ Journaled' = Journaled \cup {saved} /\ pc = "approve" /\ pc' = "lookup"
        /\ saved \in Tx
    BY <1>2, ZenonT(30) DEF Record, Journaled, AtMostOnceInv, RunOK
  <2>2. IsFiniteSet(Journaled)'
    BY <2>1, FS_AddElement, ZenonT(30) DEF BudgetInv
  <2>3. Liability(Journaled)' = Liability(Journaled \cup {saved})
    BY <2>1 DEF Liability
  <2>4. Liability(Journaled \cup {saved}) <= Liability(Journaled) + saved.cost
    BY <1>0, <2>1, LiabilityAdds DEF BudgetInv
  <2>5. Liability(Journaled) + saved.cost <= Budget
    BY <2>1 DEF BudgetInv
  <2>6. /\ Liability(Journaled) \in Nat /\ Liability(Journaled \cup {saved}) \in Nat
        /\ saved.cost \in Nat
    BY <1>0, <2>1, <2>2, LiabilityType DEF BudgetInv, Tx
  <2>7. Liability(Journaled)' <= Budget
    BY <2>3, <2>4, <2>5, <2>6, NumbersAssumption
  <2> QED BY <2>1, <2>2, <2>7, ZenonT(30) DEF BudgetInv, SpendWithinBudget
<1>3. CASE BumpSome
  <2>1. PICK fee \in Fees : Bump(fee)
    BY <1>3 DEF BumpSome
  <2> DEFINE new == Replacement(saved, fee)
  <2>2. /\ actions' = (actions \ {saved}) \cup {new} /\ attempts' = attempts \cup {saved}
        /\ pc' = "broadcast" /\ WithinBudget(new, TRUE) /\ pc = "bump"
    BY <2>1, ZenonT(30) DEF Bump, Replace
  <2> HIDE DEF new
  <2>3. saved \in actions
    BY <2>2, ZenonT(30) DEF AtMostOnceInv, RunOK, ResumePCs
  <2>4. Journaled' = Journaled \cup {new}
    BY <2>2, <2>3 DEF Journaled
  <2>5. IsFiniteSet(Journaled)'
    BY <2>4, FS_AddElement, ZenonT(30) DEF BudgetInv
  <2>6. Liability(Journaled)' = Liability(Journaled \cup {new})
    BY <2>4 DEF Liability
  <2> QED BY <2>2, <2>5, <2>6 DEF WithinBudget, BudgetInv, SpendWithinBudget
<1>4. CASE Retire
  <2>1. pc = "retire" /\ pc' = "off"
    BY <1>4, ZenonT(30) DEF Retire, ResetRun
  <2>2. saved \in actions
    BY <2>1 DEF AtMostOnceInv, RunOK, ResumePCs
  <2>3. Journaled' = Journaled
    BY <1>4, <2>2, ZenonT(30) DEF Retire, Journaled
  <2>4. Liability(Journaled)' = Liability(Journaled)
    BY <2>3 DEF Liability
  <2> QED BY <2>1, <2>3, <2>4 DEF BudgetInv, SpendWithinBudget
<1>5. ASSUME UNCHANGED <<actions, attempts>>, pc' # "approve" \/ UNCHANGED <<pc, saved>>
      PROVE  BudgetInv'
  <2>1. Journaled' = Journaled
    BY <1>5 DEF Journaled
  <2>2. Liability(Journaled)' = Liability(Journaled)
    BY <2>1 DEF Liability
  <2> QED BY <1>5, <2>1, <2>2 DEF BudgetInv, SpendWithinBudget
<1>6. CASE \/ Open \/ ReconcileSome \/ ReconcileDone \/ NotFound \/ CheckNonce \/ Broadcast
           \/ BroadcastUnresolved \/ DeepEnough
  <2>1. UNCHANGED <<actions, attempts>> /\ pc' # "approve"
    BY <1>6, ZenonT(30) DEF Open, ReconcileSome, ReconcileNext, ReconcileDone, NotFound,
       CheckNonce, Broadcast, BroadcastUnresolved, DeepEnough, ResetRun, journalVars
  <2> QED BY <1>5, <2>1
<1>7. CASE Lookup \/ Confirmed \/ StepResume \/ StepSign \/ GiveUp \/ Crash
  <2>1. UNCHANGED <<actions, attempts>> /\ pc' # "approve"
    BY <1>7, ZenonT(30) DEF Lookup, Found, Confirmed, StepResume, StepSign, GiveUp, Crash, Stop,
       ResetRun, journalVars
  <2> QED BY <1>5, <2>1
<1>8. CASE StartSome
  <2>1. UNCHANGED <<actions, attempts>>
    BY <1>8 DEF StartSome, Start, JournalAcceptable, AtMostOnceInv, JournalOK, Journaled,
       journalVars
  <2>2. pc' # "approve"
    BY <1>8 DEF StartSome, Start
  <2> QED BY <1>5, <2>1, <2>2, ZenonT(30)
<1>9. CASE \/ Refetch \/ CompleteStep \/ LoseJournal \/ RestoreJournal
           \/ ChainNext /\ UNCHANGED <<journalVars, stateVars, runVars>>
           \/ UNCHANGED vars
  <2>1. UNCHANGED <<actions, attempts>> /\ UNCHANGED <<pc, saved>>
    BY <1>9, ZenonT(30) DEF Refetch, CompleteStep, LoseJournal, RestoreJournal, vars, journalVars, runVars
  <2> QED BY <1>5, <2>1, ZenonT(30)
<1> QED
  BY <1>1, <1>2, <1>3, <1>4, <1>6, <1>7, <1>8, <1>9 DEF Next, RunNext

\* What the deployment's transactions can cost, over every order of inclusion, stays within
\* plan.evm_gas_budget for any fees, replacements and retries (check_budget adds a new
\* transaction's cost, and counts a replacement at its nonce).
THEOREM SpendStaysWithinBudget == Spec => []SpendWithinBudget
<1>1. BudgetInv => SpendWithinBudget
  BY DEF BudgetInv
<1> QED BY <1>1, InvInit, InvNext, BudgetInit, BudgetNext, PTL DEF Spec
=============================================================================
