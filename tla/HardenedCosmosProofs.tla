------------------------- MODULE HardenedCosmosProofs -----------------------
(***************************************************************************)
(* Proofs about HardenedCosmos for any steps, keys, fees and number of       *)
(* blocks: no action is executed twice unless the ante handler rejected its  *)
(* bytes, the journaled fees stay within the budget, and a completed wait    *)
(* step has seen its own proposal pass.                                      *)
(***************************************************************************)
EXTENDS HardenedCosmos, FunctionSums

\* The context of these obligations is long: more time than the default for all of them.
USE SMTT(30), ZenonT(30)

\* What the parts of the invariant say about a step that leaves the chain and the
\* journal as they are.
LEMMA QuietStep ==
  ASSUME ExecutedOnceInv, UNCHANGED <<hist, pruned, pool, passed, rejected>>,
         UNCHANGED <<actions, attempts, confirms>>
  PROVE  ChainTypeOK' /\ ChainOK' /\ SentIsJournaled' /\ JournalOK'
<1> USE DEF ExecutedOnceInv
<1>1. ChainTypeOK'
  BY DEF TypeOK, ChainTypeOK
<1>2. ChainOK'
  BY DEF ChainOK, Consumed, Sequence
<1>3. SentIsJournaled'
  BY DEF SentIsJournaled, Journaled
<1>4. \A k, n : (FailedAt(k, n)' <=> FailedAt(k, n)) /\ (RejectedOnce(k)' <=> RejectedOnce(k))
  BY DEF FailedAt, RejectedOnce
<1>5. JournalOK'
  BY <1>4 DEF JournalOK
<1> QED BY <1>1, <1>2, <1>3, <1>5

\* A finished run has nothing in hand.
LEMMA ResetOK ==
  ASSUME ResetRun
  PROVE  /\ RunOK'
         /\ pc' \in PCs
         /\ mode' \in {"none", "reconcile", "bump", "retry", "step"}
         /\ todo' \subseteq Tx
         /\ saved' \in AnyTx
         /\ opt' \in Options \cup {NoOptions}
<1>1. RunOK'
  BY DEF ResetRun, RunOK, ResumePCs
<1>2. saved' \in AnyTx
  BY DEF ResetRun, NoTx, AnyTx
<1> QED BY <1>1, <1>2 DEF ResetRun, PCs

\* The fee an operator passes is a number.
LEMMA FeeType ==
  ASSUME TypeOK
  PROVE  opt.fee \in Nat
BY CosmosConstants DEF TypeOK, Options, NoOptions

\* What a sequence over S holds is in S.
LEMMA ElementType ==
  ASSUME NEW S, NEW q \in Seq(S), NEW i \in DOMAIN q
  PROVE  q[i] \in S
OBVIOUS

\* An entry of the chain's history is an inclusion with a sequence number.
LEMMA HistType ==
  ASSUME ChainTypeOK, NEW i \in DOMAIN hist
  PROVE  hist[i] \in Result /\ hist[i].tx.seq \in Nat
<1>1. hist[i] \in Result
  BY ElementType DEF ChainTypeOK
<1> QED BY <1>1 DEF Result, AnyTx

\* The account's next sequence is a number: it counts finitely many inclusions.
LEMMA SequenceType ==
  ASSUME NEW h \in Nat
  PROVE  /\ IsFiniteSet(Consumed(h))
         /\ Cardinality(Consumed(h)) \in Nat
         /\ Sequence(h) \in Nat
<1>1. IsFiniteSet(1 .. h)
  BY FS_Interval
<1>2. Consumed(h) \subseteq 1 .. h
  BY DEF Consumed
<1>3. IsFiniteSet(Consumed(h))
  BY <1>1, <1>2, FS_Subset
<1>4. Cardinality(Consumed(h)) \in Nat
  BY <1>3, FS_CardinalityType
<1> QED BY <1>3, <1>4 DEF Sequence

-----------------------------------------------------------------------------
(* Steps of a run that write neither the chain nor the journal.              *)

\* Starting a run, walking the journal, and ending a run.
LEMMA ReconcileSteps ==
  ASSUME ExecutedOnceInv, StartSome \/ ReconcileSome \/ ReconcileDone \/ GiveUp \/ Crash
  PROVE  ExecutedOnceInv'
<1> USE DEF ExecutedOnceInv
<1>1. /\ UNCHANGED <<hist, pruned, pool, passed, rejected>>
      /\ UNCHANGED <<actions, attempts, confirms>>
      /\ UNCHANGED <<done, proposals>>
  BY DEF StartSome, Start, ReconcileSome, ReconcileNext, ReconcileDone, GiveUp, Crash,
         Stop, chainVars, journalVars, stateVars
<1>2. ChainTypeOK' /\ ChainOK' /\ SentIsJournaled' /\ JournalOK'
  BY <1>1, QuietStep
<1>3. CASE StartSome
  <2>1. PICK o \in Options : Start(o)
    BY <1>3 DEF StartSome
  <2>2. TypeOK'
    BY <1>1, <1>2, <2>1 DEF Start, TypeOK, PCs
  <2>3. RunOK'
    BY <1>1, <2>1 DEF Start, RunOK, ResumePCs
  <2> QED BY <1>2, <2>2, <2>3
<1>4. CASE ReconcileSome
  <2>1. PICK t \in todo : ReconcileNext(t)
    BY <1>4 DEF ReconcileSome
  <2>2. t \in AnyTx /\ t \in actions
    BY <2>1 DEF TypeOK, RunOK, Tx, AnyTx
  <2>3. TypeOK'
    BY <1>1, <1>2, <2>1, <2>2 DEF ReconcileNext, TypeOK, PCs, ResumePCs
  <2>4. RunOK'
    BY <1>1, <2>1, <2>2 DEF ReconcileNext, RunOK, ResumePCs
  <2> QED BY <1>2, <2>3, <2>4
<1>5. CASE ReconcileDone
  <2>1. TypeOK'
    BY <1>1, <1>2, <1>5 DEF ReconcileDone, TypeOK, PCs
  <2>2. RunOK'
    BY <1>1, <1>5 DEF ReconcileDone, RunOK, ResumePCs
  <2> QED BY <1>2, <2>1, <2>2
<1>6. CASE GiveUp \/ Crash
  <2>1. ResetRun
    BY <1>6 DEF GiveUp, Crash, Stop
  <2>2. TypeOK'
    BY <1>1, <1>2, <2>1, ResetOK DEF TypeOK
  <2> QED BY <1>2, <2>1, <2>2, ResetOK
<1> QED BY <1>3, <1>4, <1>5, <1>6

\* A known result is the caller's to judge: whatever it was, the run stays within
\* what the journal holds.
LEMMA OutcomeOK ==
  ASSUME ExecutedOnceInv, NEW r, Outcome(r), pc \in {"lookup", "poll"},
         UNCHANGED <<actions, done>>
  PROVE  /\ RunOK'
         /\ pc' \in PCs
         /\ mode' \in {"none", "reconcile", "bump", "retry", "step"}
         /\ todo' \subseteq Tx
         /\ saved' \in AnyTx
         /\ opt' \in Options \cup {NoOptions}
<1> USE DEF ExecutedOnceInv
<1>1. NoTx \in AnyTx
  BY DEF NoTx, AnyTx
<1>2. CASE ResetRun
  BY <1>2, ResetOK
<1>3. CASE mode = "retry" /\ pc' = "retire" /\ UNCHANGED <<mode, todo, saved, opt>>
  BY <1>3 DEF TypeOK, RunOK, PCs, ResumePCs
<1>4. CASE /\ mode \in {"reconcile", "bump"} /\ pc' = "reconcile" /\ mode' = "none"
           /\ saved' = NoTx /\ UNCHANGED <<todo, opt>>
  BY <1>1, <1>4 DEF TypeOK, RunOK, PCs, ResumePCs
<1>5. CASE mode = "step" /\ pc' = "confirmed" /\ UNCHANGED <<mode, todo, saved, opt>>
  BY <1>5 DEF TypeOK, RunOK, PCs, ResumePCs
<1> QED BY <1>2, <1>3, <1>4, <1>5 DEF Outcome

\* Looking a transaction up, in the journal or on a node, and checking its sequence.
LEMMA LookupSteps ==
  ASSUME ExecutedOnceInv, ReadCached \/ Lookup \/ NotFound \/ CheckSequence
  PROVE  ExecutedOnceInv'
<1> USE DEF ExecutedOnceInv
<1>1. CASE ReadCached
  <2>1. /\ UNCHANGED <<hist, pruned, pool, passed, rejected>>
        /\ UNCHANGED <<actions, attempts, confirms>>
        /\ UNCHANGED <<done, proposals>>
    BY <1>1 DEF ReadCached, chainVars, journalVars, stateVars
  <2>2. ChainTypeOK' /\ ChainOK' /\ SentIsJournaled' /\ JournalOK'
    BY <2>1, QuietStep
  <2>3. PICK r \in Cached(saved) : Outcome(r)
    BY <1>1 DEF ReadCached
  <2>4. pc \in {"lookup", "poll"}
    BY <1>1 DEF ReadCached
  <2>5. TypeOK' /\ RunOK'
    BY <2>1, <2>2, <2>3, <2>4, OutcomeOK DEF TypeOK
  <2> QED BY <2>2, <2>5
<1>2. CASE Lookup
  <2>1. /\ UNCHANGED <<hist, pruned, pool, passed, rejected>>
        /\ UNCHANGED <<actions, attempts>>
        /\ UNCHANGED <<done, proposals>>
        /\ pc \in {"lookup", "poll"}
    BY <1>2 DEF Lookup, chainVars, stateVars
  <2>2. PICK h \in Views :
           \E r \in Indexed(saved, h, opt.archive) : confirms' = confirms \cup {r} /\ Outcome(r)
    BY <1>2 DEF Lookup
  <2> PICK r \in Indexed(saved, h, opt.archive) : confirms' = confirms \cup {r} /\ Outcome(r)
    BY <2>2
  <2>3. PICK i \in DOMAIN hist : hist[i] = r
    BY DEF Views, Indexed, TypeOK, ChainTypeOK
  <2>4. r \in Result
    BY <2>3 DEF TypeOK, ChainTypeOK
  <2>5. ChainTypeOK' /\ ChainOK' /\ SentIsJournaled'
    <3>1. ChainTypeOK'
      BY <2>1 DEF TypeOK, ChainTypeOK
    <3>2. ChainOK'
      BY <2>1 DEF ChainOK, Consumed, Sequence
    <3>3. SentIsJournaled'
      BY <2>1 DEF SentIsJournaled, Journaled
    <3> QED BY <3>1, <3>2, <3>3
  <2>6. JournalOK'
    <3>1. \A k, n : (FailedAt(k, n)' <=> FailedAt(k, n))
                       /\ (RejectedOnce(k)' <=> RejectedOnce(k))
      BY <2>1 DEF FailedAt, RejectedOnce
    <3> QED BY <2>1, <2>2, <2>3, <3>1 DEF JournalOK
  <2>7. TypeOK' /\ RunOK'
    BY <2>1, <2>2, <2>4, <2>5, OutcomeOK DEF TypeOK
  <2> QED BY <2>5, <2>6, <2>7
<1>3. CASE NotFound \/ CheckSequence
  <2>1. /\ UNCHANGED <<hist, pruned, pool, passed, rejected>>
        /\ UNCHANGED <<actions, attempts, confirms>>
        /\ UNCHANGED <<done, proposals>>
        /\ UNCHANGED <<mode, todo, saved, opt>>
        /\ pc \in {"lookup", "sequence"}
        /\ pc' \in {"retire", "sequence", "bump", "broadcast"}
    BY <1>3 DEF NotFound, CheckSequence, chainVars, journalVars, stateVars
  <2>2. ChainTypeOK' /\ ChainOK' /\ SentIsJournaled' /\ JournalOK'
    BY <2>1, QuietStep
  <2>3. TypeOK'
    BY <2>1, <2>2 DEF TypeOK, PCs, ResumePCs
  <2>4. RunOK'
    BY <2>1 DEF RunOK, ResumePCs
  <2> QED BY <2>2, <2>3, <2>4
<1> QED BY <1>1, <1>2, <1>3

-----------------------------------------------------------------------------
(* Steps that write the journal, reach the network or complete a step.       *)

\* A broadcast adds a journaled transaction to the pool and nothing else.
LEMMA BroadcastSteps ==
  ASSUME ExecutedOnceInv, Broadcast \/ BroadcastUnresolved
  PROVE  ExecutedOnceInv'
<1> USE DEF ExecutedOnceInv
<1>1. /\ pool' \in {pool, pool \cup {saved}}
      /\ UNCHANGED <<hist, pruned, passed, rejected>>
      /\ UNCHANGED <<actions, attempts, confirms>>
      /\ UNCHANGED <<done, proposals>>
      /\ saved \in actions
  BY DEF Broadcast, BroadcastUnresolved, journalVars, stateVars, RunOK, ResumePCs
<1>2. ChainTypeOK'
  BY <1>1 DEF TypeOK, ChainTypeOK
<1>3. ChainOK' /\ SentIsJournaled'
  BY <1>1 DEF ChainOK, Consumed, Sequence, SentIsJournaled, Journaled
<1>4. \A k, n : (FailedAt(k, n)' <=> FailedAt(k, n)) /\ (RejectedOnce(k)' <=> RejectedOnce(k))
  BY <1>1 DEF FailedAt, RejectedOnce
<1>5. JournalOK'
  BY <1>1, <1>4 DEF JournalOK
<1>6. CASE Broadcast
  <2>1. TypeOK'
    BY <1>1, <1>2, <1>6 DEF Broadcast, TypeOK, PCs, ResumePCs
  <2>2. RunOK'
    BY <1>1, <1>6 DEF Broadcast, RunOK, ResumePCs
  <2> QED BY <1>3, <1>5, <2>1, <2>2
<1>7. CASE BroadcastUnresolved
  <2>1. ResetRun
    BY <1>7 DEF BroadcastUnresolved
  <2>2. TypeOK'
    BY <1>1, <1>2, <2>1, ResetOK DEF TypeOK
  <2> QED BY <1>3, <1>5, <2>1, <2>2, ResetOK
<1> QED BY <1>6, <1>7

\* A replacement has the key and the sequence of the transaction it replaces.
LEMMA BumpStep ==
  ASSUME ExecutedOnceInv, Bump
  PROVE  ExecutedOnceInv'
<1> USE DEF ExecutedOnceInv
<1> DEFINE new == Replacement(saved)
<1>1. saved \in actions /\ saved \in Tx /\ saved \notin todo /\ todo \subseteq actions
  BY DEF Bump, RunOK, ResumePCs, TypeOK
<1>2. new \in Tx /\ new \in AnyTx /\ new.key = saved.key /\ new.seq = saved.seq
  BY <1>1, FeeType DEF Replacement, Tx, AnyTx
<1> HIDE DEF new
<1>3. /\ actions' = (actions \ {saved}) \cup {new}
      /\ attempts' = attempts \cup {saved}
      /\ saved' = new
      /\ UNCHANGED <<hist, pruned, pool, passed, rejected>>
      /\ UNCHANGED <<confirms, done, proposals, todo, opt>>
      /\ pc' = "lookup" /\ mode' = "reconcile"
  BY DEF Bump, new, chainVars, stateVars
<1>4. ChainTypeOK' /\ ChainOK'
  BY <1>3 DEF TypeOK, ChainTypeOK, ChainOK, Consumed, Sequence
<1>5. SentIsJournaled'
  BY <1>3 DEF SentIsJournaled, Journaled
<1>6. \A k, n : (FailedAt(k, n)' <=> FailedAt(k, n)) /\ (RejectedOnce(k)' <=> RejectedOnce(k))
  BY <1>3 DEF FailedAt, RejectedOnce
<1>7. JournalOK'
  <2>1. \A t, u \in actions' : t.key = u.key => t = u
    BY <1>1, <1>2, <1>3 DEF JournalOK
  <2>2. ASSUME NEW a \in attempts'
        PROVE  \/ \E t \in actions' : t.key = a.key /\ t.seq = a.seq
               \/ FailedAt(a.key, a.seq)'
               \/ RejectedOnce(a.key)'
    BY <1>1, <1>2, <1>3, <1>6 DEF JournalOK
  <2>3. \A c \in confirms' : \E i \in DOMAIN hist' : hist'[i] = c
    BY <1>3 DEF JournalOK
  <2> QED BY <2>1, <2>2, <2>3 DEF JournalOK
<1>8. TypeOK'
  BY <1>1, <1>2, <1>3, <1>4 DEF TypeOK, PCs, ResumePCs
<1>9. RunOK'
  <2>1. new \notin todo
    BY <1>1, <1>2 DEF JournalOK
  <2>2. todo' \subseteq actions' /\ saved' \in actions' /\ saved' \notin todo'
    BY <1>1, <1>3, <2>1
  <2> QED BY <1>3, <2>2 DEF RunOK, ResumePCs
<1> QED BY <1>4, <1>5, <1>7, <1>8, <1>9

\* A competing hash of what is retired has failed, and that spent its sequence, or
\* the ante handler rejected it.
LEMMA RetireStep ==
  ASSUME ExecutedOnceInv, Retire
  PROVE  ExecutedOnceInv'
<1> USE DEF ExecutedOnceInv
<1>1. saved \in actions
  BY DEF Retire, RunOK, ResumePCs
<1>2. /\ actions' = actions \ {saved}
      /\ attempts' = attempts \cup {saved}
      /\ UNCHANGED <<hist, pruned, pool, passed, rejected>>
      /\ UNCHANGED <<confirms, done, proposals>>
      /\ ResetRun
  BY DEF Retire, chainVars, stateVars
<1>3. FailedAt(saved.key, saved.seq) \/ RejectedOnce(saved.key)
  <2>1. PICK c \in Cached(saved) : c.code # "ok"
    BY DEF Retire, ProvenFailed
  <2>2. c \in confirms /\ c.tx.key = saved.key /\ c.tx.seq = saved.seq
    BY DEF Cached, Competing
  <2>3. PICK i \in DOMAIN hist : hist[i] = c
    BY <2>2 DEF JournalOK
  <2>4. c.code \in Codes
    BY <2>2 DEF TypeOK, Result
  <2> QED BY <2>1, <2>2, <2>3, <2>4 DEF Codes, FailedAt, RejectedOnce
<1>4. ChainTypeOK' /\ ChainOK'
  BY <1>2 DEF TypeOK, ChainTypeOK, ChainOK, Consumed, Sequence
<1>5. SentIsJournaled'
  BY <1>1, <1>2 DEF SentIsJournaled, Journaled
<1>6. \A k, n : (FailedAt(k, n)' <=> FailedAt(k, n)) /\ (RejectedOnce(k)' <=> RejectedOnce(k))
  BY <1>2 DEF FailedAt, RejectedOnce
<1>7. JournalOK'
  BY <1>1, <1>2, <1>3, <1>6 DEF JournalOK
<1>8. TypeOK'
  BY <1>1, <1>2, <1>4, ResetOK DEF TypeOK
<1> QED BY <1>2, <1>4, <1>5, <1>7, <1>8, ResetOK

\* The journal's action of the step is resumed, or a new transaction is signed and
\* journaled under a key that has none.
LEMMA SendSteps ==
  ASSUME ExecutedOnceInv, StepResume \/ StepSign \/ Record
  PROVE  ExecutedOnceInv'
<1> USE DEF ExecutedOnceInv
<1>1. CASE StepResume \/ StepSign
  <2>1. /\ UNCHANGED <<hist, pruned, pool, passed, rejected>>
        /\ UNCHANGED <<actions, attempts, confirms>>
        /\ UNCHANGED <<done, proposals, todo, opt>>
        /\ pc = "step" /\ done < Len(Steps) /\ Steps[done + 1].kind # "wait"
        /\ todo = {} /\ mode = "none"
    BY <1>1 DEF StepResume, StepSign, Sending, chainVars, journalVars, stateVars, RunOK
  <2>2. ChainTypeOK' /\ ChainOK' /\ SentIsJournaled' /\ JournalOK'
    BY <2>1, QuietStep
  <2>3. CASE StepResume
    <3>1. saved' \in actions /\ mode' = "step" /\ pc' = "lookup"
      BY <2>3 DEF StepResume
    <3>2. saved' \in AnyTx
      BY <3>1 DEF TypeOK, Tx, AnyTx
    <3>3. TypeOK'
      BY <2>1, <2>2, <3>1, <3>2 DEF TypeOK, PCs, ResumePCs
    <3>4. RunOK'
      BY <2>1, <3>1 DEF RunOK, ResumePCs
    <3> QED BY <2>2, <3>3, <3>4
  <2>4. CASE StepSign
    <3>1. PICK h \in Views, fee \in Fees :
             saved' = [key |-> StepKey, seq |-> Sequence(h), fee |-> fee]
      BY <2>4 DEF StepSign
    <3>2. Sequence(h) \in Nat
      <4>1. h \in Nat
        BY DEF Views, TypeOK, ChainTypeOK
      <4> QED BY <4>1, SequenceType
    <3>3. StepKey \in Keys
      <4>1. done + 1 \in DOMAIN Steps
        BY <2>1, CosmosConstants DEF TypeOK
      <4>2. Steps[done + 1] \in [kind : Kinds, key : Keys]
        BY <4>1, CosmosConstants, ElementType, Zenon
      <4> QED BY <4>2 DEF StepKey
    <3>4. saved' \in Tx /\ saved' \in AnyTx /\ saved'.key = StepKey
      BY <3>1, <3>2, <3>3, CosmosConstants, ZenonT(30) DEF Tx, AnyTx
    <3>5. ~HasAction(saved.key)'
      BY <2>1, <2>4, <3>4 DEF StepSign, HasAction
    <3>6. pc' = "approve" /\ mode' = mode
      BY <2>4 DEF StepSign
    <3>7. TypeOK'
      BY <2>1, <2>2, <3>4, <3>6 DEF TypeOK, PCs
    <3>8. RunOK'
      BY <2>1, <3>4, <3>5, <3>6 DEF RunOK, ResumePCs
    <3> QED BY <2>2, <3>7, <3>8
  <2> QED BY <1>1, <2>3, <2>4
<1>2. CASE Record
  <2>1. /\ saved \in Tx /\ ~HasAction(saved.key) /\ todo = {}
        /\ done < Len(Steps) /\ Steps[done + 1].kind # "wait"
    BY <1>2 DEF Record, RunOK
  <2>2. /\ actions' = actions \cup {saved}
        /\ UNCHANGED <<hist, pruned, pool, passed, rejected>>
        /\ UNCHANGED <<attempts, confirms, done, proposals, todo, saved, opt>>
        /\ mode' = "step" /\ pc' = "lookup"
    BY <1>2 DEF Record, chainVars, stateVars
  <2>3. ChainTypeOK' /\ ChainOK'
    BY <2>2 DEF TypeOK, ChainTypeOK, ChainOK, Consumed, Sequence
  <2>4. SentIsJournaled'
    BY <2>2 DEF SentIsJournaled, Journaled
  <2>5. \A k, n : (FailedAt(k, n)' <=> FailedAt(k, n)) /\ (RejectedOnce(k)' <=> RejectedOnce(k))
    BY <2>2 DEF FailedAt, RejectedOnce
  <2>6. JournalOK'
    BY <2>1, <2>2, <2>5 DEF JournalOK, HasAction
  <2>7. TypeOK'
    BY <2>1, <2>2, <2>3 DEF TypeOK, PCs, ResumePCs
  <2>8. RunOK'
    BY <2>1, <2>2 DEF RunOK, ResumePCs
  <2> QED BY <2>3, <2>4, <2>6, <2>7, <2>8
<1> QED BY <1>1, <1>2

\* A step is marked and its proposal saved; the journal is left alone.
LEMMA CompleteSteps ==
  ASSUME ExecutedOnceInv, CompleteSend \/ PauseSend \/ CompleteWait
  PROVE  ExecutedOnceInv'
<1> USE DEF ExecutedOnceInv
<1>1. /\ UNCHANGED <<hist, pruned, pool, passed, rejected>>
      /\ UNCHANGED <<actions, attempts, confirms>>
  BY DEF CompleteSend, PauseSend, CompleteWait, chainVars, journalVars
<1>2. ChainTypeOK' /\ ChainOK' /\ SentIsJournaled' /\ JournalOK'
  BY <1>1, QuietStep
<1>3. ASSUME SaveProposal, pc = "confirmed"
      PROVE  proposals' \subseteq [key : Keys, id : Nat]
  <2>1. CASE proposals' = proposals
    BY <2>1 DEF TypeOK
  <2>2. ASSUME NEW c \in Cached(saved),
               proposals' = proposals \cup {[key |-> saved.key, id |-> c.id]}
        PROVE  proposals' \subseteq [key : Keys, id : Nat]
    <3>1. c.id \in Nat
      BY DEF Cached, TypeOK, Result
    <3>2. saved.key \in Keys
      BY <1>3 DEF RunOK, ResumePCs, TypeOK, Tx
    <3> QED BY <2>2, <3>1, <3>2 DEF TypeOK
  <2> QED BY <1>3, <2>1, <2>2 DEF SaveProposal
<1>4. CASE CompleteSend
  <2>1. /\ pc = "confirmed" /\ SaveProposal /\ done' = done + 1 /\ pc' = "step"
        /\ mode' = "none" /\ saved' = NoTx /\ UNCHANGED <<todo, opt>>
    BY <1>4 DEF CompleteSend
  <2>2. mode = "step" /\ todo = {} /\ done < Len(Steps)
    BY <2>1 DEF RunOK, ResumePCs
  <2>3. done' \in 0 .. Len(Steps)
    BY <2>1, <2>2, CosmosConstants DEF TypeOK
  <2>4. NoTx \in AnyTx
    BY DEF NoTx, AnyTx
  <2>5. TypeOK'
    BY <1>1, <1>2, <1>3, <2>1, <2>3, <2>4, ZenonT(30) DEF TypeOK, PCs
  <2>6. RunOK'
    BY <1>1, <2>1, <2>2 DEF RunOK, ResumePCs
  <2> QED BY <1>2, <2>5, <2>6
<1>5. CASE PauseSend
  <2>1. pc = "confirmed" /\ SaveProposal /\ ResetRun /\ done' = done
    BY <1>5 DEF PauseSend
  <2>2. TypeOK'
    BY <1>1, <1>2, <1>3, <2>1, ResetOK DEF TypeOK
  <2> QED BY <1>2, <2>1, <2>2, ResetOK
<1>6. CASE CompleteWait
  <2>1. /\ pc = "step" /\ done < Len(Steps) /\ done' = done + 1
        /\ UNCHANGED <<proposals, pc, mode, todo, saved, opt>>
    BY <1>6 DEF CompleteWait, Waiting, runVars
  <2>2. done' \in 0 .. Len(Steps)
    BY <2>1, CosmosConstants DEF TypeOK
  <2>3. TypeOK'
    BY <1>1, <1>2, <2>1, <2>2 DEF TypeOK
  <2>4. RunOK'
    BY <1>1, <2>1 DEF RunOK, ResumePCs
  <2> QED BY <1>2, <2>3, <2>4
<1> QED BY <1>4, <1>5, <1>6

-----------------------------------------------------------------------------
(* The chain's own steps.                                                    *)

\* An inclusion is appended at the account's next sequence: unless it is rejected it
\* consumes that sequence, which nothing had consumed before.
LEMMA IncludeKeeps ==
  ASSUME ChainTypeOK, ChainOK, NEW t \in AnyTx, NEW code \in Codes, Include(t, code)
  PROVE  /\ ChainTypeOK'
         /\ ChainOK'
         /\ pool' \subseteq pool
         /\ \A i \in DOMAIN hist : i \in DOMAIN hist' /\ hist'[i] = hist[i]
         /\ \A i \in DOMAIN hist' : (i \in DOMAIN hist /\ hist'[i] = hist[i]) \/ hist'[i].tx = t
<1> DEFINE n == Len(hist)
           e == [tx |-> t, code |-> code, id |-> n + 1]
<1>1. /\ hist' = Append(hist, e) /\ t.seq = Sequence(n)
      /\ pool' = pool \ {t} /\ UNCHANGED <<pruned, passed, rejected>>
  BY DEF Include
<1>2. n \in Nat /\ DOMAIN hist = 1 .. n
  BY DEF ChainTypeOK
<1>3. e \in Result
  BY <1>2 DEF Result
<1>4. e.tx = t /\ e.code = code /\ e.id = n + 1
  OBVIOUS
<1> HIDE DEF e
<1>5. /\ hist' \in Seq(Result) /\ Len(hist') = n + 1 /\ DOMAIN hist' = 1 .. n + 1
      /\ hist'[n + 1] = e
      /\ \A i \in DOMAIN hist : i \in DOMAIN hist' /\ hist'[i] = hist[i]
      /\ \A i \in DOMAIN hist' : i \in DOMAIN hist \/ i = n + 1
  BY <1>1, <1>2, <1>3 DEF ChainTypeOK
<1>6. ChainTypeOK'
  BY <1>1, <1>5 DEF ChainTypeOK
<1>7. Sequence(n) \in Nat /\ IsFiniteSet(Consumed(n)) /\ Cardinality(Consumed(n)) \in Nat
  BY <1>2, SequenceType
<1>8. \A i \in Consumed(n) : i \in DOMAIN hist /\ hist[i].tx.seq \in Nat
  BY <1>2, HistType DEF Consumed
<1>9. CASE code = "rejected"
  <2>1. Consumed(Len(hist))' = Consumed(n)
    BY <1>2, <1>4, <1>5, <1>9 DEF Consumed
  <2>2. Sequence(Len(hist))' = Sequence(n)
    BY <2>1 DEF Sequence
  <2>3. ChainOK'
    BY <1>4, <1>5, <1>8, <2>1, <2>2 DEF ChainOK
  <2> QED BY <1>1, <1>4, <1>5, <1>6, <2>3
<1>10. CASE code # "rejected"
  <2>1. Consumed(Len(hist))' = Consumed(n) \cup {n + 1}
    BY <1>2, <1>4, <1>5, <1>10 DEF Consumed
  <2>2. n + 1 \notin Consumed(n)
    BY <1>2 DEF Consumed
  <2>3. Cardinality(Consumed(n) \cup {n + 1}) = Cardinality(Consumed(n)) + 1
    BY <1>7, <2>2, FS_AddElement, Zenon
  <2>4. Sequence(Len(hist))' = Sequence(n) + 1
    BY <2>1, <2>3 DEF Sequence
  <2>5. \A i \in Consumed(n) : hist[i].tx.seq < Sequence(n)
    BY DEF ChainOK
  <2>6. hist'[n + 1].tx.seq = Sequence(n)
    BY <1>1, <1>4, <1>5
  <2>7. \A i \in Consumed(n) : hist'[i] = hist[i]
    BY <1>5, <1>8
  <2>8. \A i \in Consumed(Len(hist))' : hist'[i].tx.seq < Sequence(n) + 1
    BY <1>7, <1>8, <2>1, <2>5, <2>6, <2>7
  <2>9. ASSUME NEW i \in Consumed(n) \cup {n + 1}, NEW j \in Consumed(n) \cup {n + 1},
               hist'[i].tx.seq = hist'[j].tx.seq
        PROVE  i = j
    <3>1. \A l \in Consumed(n) : hist'[l].tx.seq # hist'[n + 1].tx.seq
      BY <1>7, <1>8, <2>5, <2>6, <2>7
    <3>2. CASE i \in Consumed(n) /\ j \in Consumed(n)
      BY <2>7, <2>9, <3>2 DEF ChainOK
    <3> QED BY <2>9, <3>1, <3>2, ZenonT(30)
  <2>10. \A i \in DOMAIN hist' : hist'[i].id = i
    BY <1>4, <1>5, ZenonT(30) DEF ChainOK
  <2>11. ChainOK'
    BY <2>1, <2>4, <2>8, <2>9, <2>10, ZenonT(30) DEF ChainOK
  <2> QED BY <1>1, <1>4, <1>5, <1>6, <2>11
<1> QED BY <1>9, <1>10

\* Whatever the chain does, it keeps what it included and includes only what is
\* pooled or foreign; proposals that passed stay passed.
LEMMA ChainKeeps ==
  ASSUME ChainTypeOK, ChainOK, ChainNext
  PROVE  /\ ChainTypeOK'
         /\ ChainOK'
         /\ pool' \subseteq pool
         /\ passed \subseteq passed'
         /\ \A i \in DOMAIN hist : i \in DOMAIN hist' /\ hist'[i] = hist[i]
         /\ \A i \in DOMAIN hist' :
               \/ i \in DOMAIN hist /\ hist'[i] = hist[i]
               \/ hist'[i].tx \in pool
               \/ hist'[i].tx.key = Foreign
<1>1. CASE IncludePooled
  <2>1. PICK t \in pool, code \in Codes : Include(t, code)
    BY <1>1 DEF IncludePooled
  <2>2. t \in AnyTx
    BY DEF ChainTypeOK, Tx, AnyTx
  <2>3. passed' = passed
    BY <2>1 DEF Include
  <2> QED BY <2>1, <2>2, <2>3, IncludeKeeps
<1>2. CASE IncludeForeign
  <2> DEFINE t == [key |-> Foreign, seq |-> Sequence(Len(hist)), fee |-> 0]
  <2>1. Include(t, "ok")
    BY <1>2 DEF IncludeForeign
  <2>2. Sequence(Len(hist)) \in Nat
    BY SequenceType DEF ChainTypeOK
  <2>3. t \in AnyTx /\ t.key = Foreign
    BY <2>2 DEF AnyTx
  <2>4. passed' = passed
    BY <2>1 DEF Include
  <2> HIDE DEF t
  <2>5. "ok" \in Codes
    BY DEF Codes
  <2> QED BY <2>1, <2>3, <2>4, <2>5, IncludeKeeps
<1>3. CASE Forget \/ Prune \/ Vote
  <2>1. /\ hist' = hist /\ pool' \subseteq pool /\ pruned' \in Nat
        /\ passed \subseteq passed' /\ passed' \cup rejected' \subseteq DOMAIN hist
    BY <1>3 DEF Forget, Prune, Vote, Created, ChainTypeOK
  <2>2. ChainTypeOK'
    BY <2>1 DEF ChainTypeOK
  <2>3. ChainOK'
    BY <2>1 DEF ChainOK, Consumed, Sequence
  <2> QED BY <2>1, <2>2, <2>3
<1> QED BY <1>1, <1>2, <1>3, ZenonT(30) DEF ChainNext

\* Inclusions, votes, rejections and forgotten transactions keep what the journal and the
\* run rely on.
LEMMA ChainStep ==
  ASSUME ExecutedOnceInv, ChainNext, UNCHANGED <<journalVars, stateVars, runVars>>
  PROVE  ExecutedOnceInv'
<1> USE DEF ExecutedOnceInv
<1> USE DEF journalVars, stateVars, runVars
<1>1. /\ ChainTypeOK'
      /\ ChainOK'
      /\ pool' \subseteq pool
      /\ \A i \in DOMAIN hist : i \in DOMAIN hist' /\ hist'[i] = hist[i]
      /\ \A i \in DOMAIN hist' :
            \/ i \in DOMAIN hist /\ hist'[i] = hist[i]
            \/ hist'[i].tx \in pool
            \/ hist'[i].tx.key = Foreign
  BY ChainKeeps, ZenonT(30) DEF TypeOK
<1>2. TypeOK'
  BY <1>1 DEF TypeOK
<1>3. SentIsJournaled'
  BY <1>1 DEF SentIsJournaled, Journaled
<1>4. \A k, n : (FailedAt(k, n) => FailedAt(k, n)') /\ (RejectedOnce(k) => RejectedOnce(k)')
  BY <1>1 DEF FailedAt, RejectedOnce
<1>5. JournalOK'
  <2>1. ASSUME NEW a \in attempts'
        PROVE  \/ \E t \in actions' : t.key = a.key /\ t.seq = a.seq
               \/ FailedAt(a.key, a.seq)'
               \/ RejectedOnce(a.key)'
    BY <1>4 DEF JournalOK
  <2>2. \A c \in confirms' : \E i \in DOMAIN hist' : hist'[i] = c
    BY <1>1 DEF JournalOK
  <2> QED BY <2>1, <2>2, ZenonT(30) DEF JournalOK
<1>6. RunOK'
  BY DEF RunOK, HasAction
<1> QED BY <1>1, <1>2, <1>3, <1>5, <1>6

-----------------------------------------------------------------------------
(* The theorems.                                                             *)

\* A deployment begins with an empty journal and nothing on chain.
LEMMA InvInit == Init => ExecutedOnceInv
<1> SUFFICES ASSUME Init PROVE ExecutedOnceInv
  OBVIOUS
<1>1. NoTx \in AnyTx
  BY DEF NoTx, AnyTx
<1>2. TypeOK
  BY <1>1, CosmosConstants DEF Init, TypeOK, ChainTypeOK, PCs
<1>3. Consumed(Len(hist)) = {}
  BY DEF Init, Consumed
<1>4. ChainOK /\ SentIsJournaled /\ JournalOK
  BY <1>3 DEF Init, ChainOK, SentIsJournaled, JournalOK
<1>5. RunOK
  BY DEF Init, RunOK, ResumePCs
<1> QED BY <1>2, <1>4, <1>5 DEF ExecutedOnceInv

\* Every step of the run and of the chain keeps the invariant.
LEMMA InvNext == ExecutedOnceInv /\ [Next]_vars => ExecutedOnceInv'
<1> SUFFICES ASSUME ExecutedOnceInv, [Next]_vars PROVE ExecutedOnceInv'
  OBVIOUS
<1>1. CASE UNCHANGED vars
  <2>1. /\ UNCHANGED <<hist, pruned, pool, passed, rejected>>
        /\ UNCHANGED <<actions, attempts, confirms>>
        /\ UNCHANGED <<done, proposals, pc, mode, todo, saved, opt>>
    BY <1>1 DEF vars, chainVars, journalVars, stateVars, runVars
  <2>2. ChainTypeOK' /\ ChainOK' /\ SentIsJournaled' /\ JournalOK'
    BY <2>1, QuietStep
  <2>3. TypeOK'
    BY <2>1, <2>2 DEF ExecutedOnceInv, TypeOK
  <2>4. RunOK'
    BY <2>1, ZenonT(30) DEF ExecutedOnceInv, RunOK, HasAction
  <2> QED BY <2>2, <2>3, <2>4 DEF ExecutedOnceInv
<1> QED
  BY <1>1, ReconcileSteps, LookupSteps, BroadcastSteps, BumpStep, RetireStep, SendSteps,
     CompleteSteps, ChainStep DEF Next, RunNext

\* Two successful executions of one key, never rejected, have the sequence of the
\* key's one action, and a sequence is consumed once.
LEMMA InvExecutedOnce == ExecutedOnceInv => ExecutedOnce
<1> SUFFICES ASSUME ExecutedOnceInv, NEW i \in Executed, NEW j \in Executed,
                    hist[i].tx.key = hist[j].tx.key, ~RejectedOnce(hist[i].tx.key)
             PROVE  i = j
  BY DEF ExecutedOnce, RejectedOnce
<1> USE DEF ExecutedOnceInv
<1>1. \A m \in DOMAIN hist : hist[m].code # "rejected" => m \in Consumed(Len(hist))
  BY DEF Consumed, TypeOK, ChainTypeOK
<1>2. ASSUME NEW m \in Executed, hist[m].tx.key = hist[i].tx.key
      PROVE  \E t \in actions : t.key = hist[m].tx.key /\ t.seq = hist[m].tx.seq
  <2>1. m \in DOMAIN hist /\ hist[m].code = "ok" /\ hist[m].tx \in Journaled
    BY DEF Executed, SentIsJournaled
  <2>2. ~FailedAt(hist[m].tx.key, hist[m].tx.seq)
    <3> SUFFICES ASSUME NEW l \in DOMAIN hist, hist[l].tx.seq = hist[m].tx.seq,
                        hist[l].code = "failed"
                 PROVE  FALSE
      BY DEF FailedAt
    <3>1. l \in Consumed(Len(hist)) /\ m \in Consumed(Len(hist))
      BY <1>1, <2>1
    <3>2. l = m
      BY <3>1 DEF ChainOK
    <3> QED BY <2>1, <3>2
  <2> QED BY <1>2, <2>1, <2>2 DEF JournalOK, Journaled
<1>3. PICK t \in actions : t.key = hist[i].tx.key /\ t.seq = hist[i].tx.seq
  BY <1>2
<1>4. PICK u \in actions : u.key = hist[j].tx.key /\ u.seq = hist[j].tx.seq
  BY <1>2
<1>5. t = u
  BY <1>3, <1>4 DEF JournalOK
<1>6. i \in Consumed(Len(hist)) /\ j \in Consumed(Len(hist))
  BY <1>1 DEF Executed
<1> QED BY <1>3, <1>4, <1>5, <1>6 DEF ChainOK

\* The run's memory, the journal and the chain are always well formed.
THEOREM TypeCorrect == Spec => []TypeOK
<1>1. ExecutedOnceInv => TypeOK
  BY DEF ExecutedOnceInv
<1> QED BY <1>1, InvInit, InvNext, PTL DEF Spec

\* No proposal is submitted and no reward paid twice, for any steps, keys and fees and
\* any number of runs, crashes, replacements, retries and foreign transactions, unless
\* the ante handler rejected the action's bytes once (cosmos::send, recovery::retire).
THEOREM ExecutesOnce == Spec => []ExecutedOnce
BY InvInit, InvNext, InvExecutedOnce, PTL DEF Spec

-----------------------------------------------------------------------------
(* The fee budget.  What is journaled grows by what was counted, no more.    *)

\* An empty journal costs nothing.
LEMMA LiabilityOfNothing == Liability({}) = 0
<1> DEFINE dearest == [n \in {t.seq : t \in {}} |->
                          Max({t.fee : t \in {u \in {} : u.seq = n}})]
<1>1. DOMAIN dearest = {}
  OBVIOUS
<1> HIDE DEF dearest
<1>2. SumFunction(dearest) = 0
  BY <1>1, SumEmpty DEF SumFunction
<1> QED BY <1>2 DEF Liability, dearest

\* The budget covers an empty journal.
LEMMA BudgetInit == Init => BudgetInv
<1> SUFFICES ASSUME Init PROVE BudgetInv
  OBVIOUS
<1>1. Journaled = {}
  BY DEF Init, Journaled
<1>2. Liability(Journaled) <= Budget
  BY <1>1, LiabilityOfNothing, CosmosConstants
<1> QED BY <1>2 DEF Init, BudgetInv, FeesWithinBudget

\* What is journaled was counted against the budget before it was approved.
LEMMA BudgetNext == BudgetInv /\ ExecutedOnceInv /\ [Next]_vars => BudgetInv'
<1> SUFFICES ASSUME BudgetInv, ExecutedOnceInv, [Next]_vars PROVE BudgetInv'
  OBVIOUS
<1> USE DEF BudgetInv, FeesWithinBudget
<1>1. CASE StepSign
  <2>1. Journaled' = Journaled
    BY <1>1 DEF StepSign, journalVars, Journaled
  <2>2. WithinBudget(saved')
    BY <1>1 DEF StepSign
  <2>3. Liability(Journaled)' = Liability(Journaled)
    BY <2>1 DEF Liability
  <2>4. Liability(Journaled \cup {saved})' = Liability(Journaled \cup {saved'})
    BY <2>1 DEF Liability
  <2> QED BY <2>2, <2>3, <2>4 DEF WithinBudget
<1>2. CASE Record
  <2>1. Journaled' = Journaled \cup {saved} /\ pc = "approve" /\ pc' = "lookup"
    BY <1>2 DEF Record, Journaled
  <2>2. Liability(Journaled)' = Liability(Journaled \cup {saved})
    BY <2>1 DEF Liability
  <2> QED BY <2>1, <2>2
<1>3. CASE Bump
  <2> DEFINE new == Replacement(saved)
  <2>1. /\ actions' = (actions \ {saved}) \cup {new} /\ attempts' = attempts \cup {saved}
        /\ pc' = "lookup" /\ WithinBudget(new) /\ pc = "bump"
    BY <1>3 DEF Bump
  <2> HIDE DEF new
  <2>2. saved \in actions
    BY <2>1 DEF ExecutedOnceInv, RunOK, ResumePCs
  <2>3. Journaled' = Journaled \cup {new}
    BY <2>1, <2>2, ZenonT(30) DEF Journaled
  <2>4. Liability(Journaled)' = Liability(Journaled \cup {new})
    BY <2>3 DEF Liability
  <2> QED BY <2>1, <2>4 DEF WithinBudget
<1>4. CASE Retire
  <2>1. pc = "retire" /\ pc' = "off"
    BY <1>4 DEF Retire, ResetRun
  <2>2. saved \in actions
    BY <2>1 DEF ExecutedOnceInv, RunOK, ResumePCs
  <2>3. Journaled' = Journaled
    BY <1>4, <2>2 DEF Retire, Journaled
  <2>4. Liability(Journaled)' = Liability(Journaled)
    BY <2>3 DEF Liability
  <2> QED BY <2>1, <2>4
<1>5. ASSUME UNCHANGED <<actions, attempts>>, pc' # "approve" \/ UNCHANGED <<pc, saved>>
      PROVE  BudgetInv'
  <2>1. Journaled' = Journaled
    BY <1>5 DEF Journaled
  <2>2. Liability(Journaled)' = Liability(Journaled)
    BY <2>1 DEF Liability
  <2>3. CASE pc' # "approve"
    BY <2>2, <2>3
  <2>4. CASE UNCHANGED <<pc, saved>>
    <3>1. Liability(Journaled \cup {saved})' = Liability(Journaled \cup {saved})
      BY <2>1, <2>4 DEF Liability
    <3> QED BY <2>2, <2>4, <3>1
  <2> QED BY <1>5, <2>3, <2>4
<1>6. CASE \/ StartSome \/ ReconcileSome \/ ReconcileDone \/ GiveUp \/ Crash
           \/ NotFound \/ CheckSequence \/ Broadcast \/ BroadcastUnresolved
           \/ StepResume \/ CompleteSend \/ PauseSend
  <2>1. UNCHANGED <<actions, attempts>> /\ pc' # "approve"
    BY <1>6, Zenon DEF StartSome, Start, ReconcileSome, ReconcileNext, ReconcileDone, GiveUp, Crash,
       Stop, ResetRun, NotFound, CheckSequence, Broadcast, BroadcastUnresolved, StepResume,
       CompleteSend, PauseSend, journalVars
  <2> QED BY <1>5, <2>1
<1>7. CASE ReadCached \/ Lookup
  <2>1. UNCHANGED <<actions, attempts>> /\ pc' # "approve"
    BY <1>7 DEF ReadCached, Lookup, Outcome, ResetRun, journalVars
  <2> QED BY <1>5, <2>1
<1>8. CASE \/ CompleteWait
           \/ ChainNext /\ UNCHANGED <<journalVars, stateVars, runVars>>
           \/ UNCHANGED vars
  <2>1. UNCHANGED <<actions, attempts>> /\ UNCHANGED <<pc, saved>>
    BY <1>8 DEF CompleteWait, vars, journalVars, runVars
  <2> QED BY <1>5, <2>1
<1> HIDE DEF BudgetInv, FeesWithinBudget
<1> QED
  BY <1>1, <1>2, <1>3, <1>4, <1>6, <1>7, <1>8 DEF Next, RunNext

\* Whatever is signed, replaced and retried, the fees the journal can still cost stay
\* within plan.cosmos_fee_budget (check_fee_budget before each signature and replacement).
THEOREM StaysWithinBudget == Spec => []FeesWithinBudget
<1>1. BudgetInv => FeesWithinBudget
  BY DEF BudgetInv
<1> QED BY <1>1, InvInit, InvNext, BudgetInit, BudgetNext, PTL DEF Spec

-----------------------------------------------------------------------------
(* The wait for a proposal.                                                  *)

\* A wait step is only completed once its own proposal has passed, and stays so.
LEMMA WaitNext == WaitedForPassed /\ ExecutedOnceInv /\ [Next]_vars => WaitedForPassed'
<1> SUFFICES ASSUME WaitedForPassed, ExecutedOnceInv, [Next]_vars PROVE WaitedForPassed'
  OBVIOUS
<1> USE DEF ExecutedOnceInv
<1>1. passed \subseteq DOMAIN hist /\ done \in Nat /\ done <= Len(Steps)
  BY CosmosConstants DEF TypeOK, ChainTypeOK
<1>2. CASE ChainNext /\ UNCHANGED <<journalVars, stateVars, runVars>>
  <2>1. /\ passed \subseteq passed'
        /\ \A i \in DOMAIN hist : i \in DOMAIN hist' /\ hist'[i] = hist[i]
    BY <1>2, ChainKeeps DEF TypeOK
  <2>2. done' = done
    BY <1>2 DEF stateVars
  <2> QED BY <1>1, <2>1, <2>2 DEF WaitedForPassed
<1>3. CASE CompleteSend
  <2>1. /\ UNCHANGED <<hist, passed>> /\ done' = done + 1 /\ pc = "confirmed"
    BY <1>3 DEF CompleteSend, chainVars
  <2>2. Steps[done + 1].kind # "wait"
    BY <2>1 DEF RunOK, ResumePCs
  <2>3. \A s \in 1 .. done' : s \in 1 .. done \/ s = done + 1
    BY <1>1, <2>1
  <2> QED BY <2>1, <2>2, <2>3 DEF WaitedForPassed
<1>4. CASE CompleteWait
  <2>1. UNCHANGED <<hist, passed>> /\ done' = done + 1
    BY <1>4 DEF CompleteWait, chainVars
  <2>2. PICK c \in Submission : c.id \in passed
    BY <1>4 DEF CompleteWait, VotePassed
  <2>3. PICK t \in actions : t.key = StepKey /\ c \in Cached(t)
    BY DEF Submission
  <2>4. c \in confirms /\ c.code = "ok" /\ c.tx.key = StepKey
    BY <2>3 DEF Submission, Cached, Competing
  <2>5. PICK i \in DOMAIN hist : hist[i] = c
    BY <2>4 DEF JournalOK
  <2>6. c.id = i
    BY <2>5 DEF ChainOK
  <2>7. \E j \in passed : hist[j].tx.key = Steps[done + 1].key /\ hist[j].code = "ok"
    BY <2>2, <2>4, <2>5, <2>6 DEF StepKey
  <2>8. \A s \in 1 .. done' : s \in 1 .. done \/ s = done + 1
    BY <1>1, <2>1
  <2> QED BY <2>1, <2>7, <2>8 DEF WaitedForPassed
<1>5. CASE /\ ~(ChainNext /\ UNCHANGED <<journalVars, stateVars, runVars>>)
           /\ ~CompleteSend /\ ~CompleteWait
  <2>1. UNCHANGED <<hist, passed, done>>
    BY <1>5, ZenonT(30) DEF Next, RunNext, vars, StartSome, Start, ReconcileSome, ReconcileNext,
       ReconcileDone, GiveUp, Crash, Stop, ReadCached, Lookup, NotFound, CheckSequence, Bump,
       Broadcast, BroadcastUnresolved, Retire, StepResume, StepSign, Record, PauseSend,
       chainVars, stateVars
  <2> QED BY <2>1, ZenonT(30) DEF WaitedForPassed
<1> QED BY <1>2, <1>3, <1>4, <1>5

\* A completed wait step has seen the deployment's own submission pass, for any steps and
\* however often the run is interrupted between submitting and waiting (governance::check).
THEOREM WaitsForItsOwnProposal == Spec => []WaitedForPassed
<1>1. Init => WaitedForPassed
  <2>1. 1 .. 0 = {}
    OBVIOUS
  <2> QED BY <2>1 DEF Init, WaitedForPassed
<1> QED BY <1>1, InvInit, InvNext, WaitNext, PTL DEF Spec
=============================================================================
