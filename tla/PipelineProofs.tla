--------------------------- MODULE PipelineProofs ---------------------------
(***************************************************************************)
(* Proofs about the two pipelines that take their work through its stages in  *)
(* order.  Deployment, for every plan: no transaction is executed twice and a  *)
(* completed step has run.  TLC checks that DeploySteps, the resumable run,    *)
(* implements it on its instances.  VerifyPipeline, for any transactions and    *)
(* any of the routes: what the report counts as successful was executed, the    *)
(* report counts every transaction, and a verdict is final.                    *)
(***************************************************************************)
EXTENDS VerifyPipeline, Deployment, TLAPS

\* The context of these obligations is long: more time than the default for all of them.
USE SMTT(30), ZenonT(30)

-----------------------------------------------------------------------------
(* Deploying: the plan.                                                      *)

\* A plan is a sequence of steps, each a sequence of transactions of T.
IsPlan(T) == Plan \in Seq(Seq(T))

PlanInv(T) ==
    /\ done \in 0 .. Len(Plan)
    /\ history \in Seq(T)
    /\ OnceEach
    /\ CompletedHasRun

\* Appending a transaction adds it to the executed ones and moves none.
LEMMA Appended ==
    ASSUME NEW T, history \in Seq(T), NEW t \in T, history' = Append(history, t)
    PROVE  /\ history' \in Seq(T)
           /\ DOMAIN history' = 1 .. Len(history) + 1
           /\ DOMAIN history = 1 .. Len(history)
           /\ Len(history) \in Nat
           /\ \A i \in DOMAIN history : history'[i] = history[i]
           /\ history'[Len(history) + 1] = t
           /\ Performed' = Performed \cup {t}
<1>1. /\ history' \in Seq(T)
      /\ DOMAIN history' = 1 .. Len(history) + 1
      /\ DOMAIN history = 1 .. Len(history)
      /\ Len(history) \in Nat
      /\ \A i \in DOMAIN history : history'[i] = history[i]
      /\ history'[Len(history) + 1] = t
  OBVIOUS
<1>2. Performed' = Performed \cup {t}
  BY <1>1 DEF Performed
<1> QED
  BY <1>1, <1>2

\* Executing the next transaction of the current step repeats none and undoes no
\* completed step.
LEMMA ExecutePreserves ==
    ASSUME NEW T, IsPlan(T), PlanInv(T), NEW i, Execute(i)
    PROVE  PlanInv(T)'
<1> DEFINE t == Plan[done + 1][i]
<1>1. done + 1 \in 1 .. Len(Plan) /\ t \in T /\ t \notin Performed
  BY DEF IsPlan, PlanInv, Execute
<1>2. history' = Append(history, t) /\ done' = done
  BY DEF Execute
<1>3. /\ history' \in Seq(T)
      /\ DOMAIN history' = 1 .. Len(history) + 1
      /\ DOMAIN history = 1 .. Len(history)
      /\ Len(history) \in Nat
      /\ \A k \in DOMAIN history : history'[k] = history[k]
      /\ history'[Len(history) + 1] = t
      /\ Performed' = Performed \cup {t}
  <2> HIDE DEF t
  <2> QED
    BY <1>1, <1>2, Appended DEF PlanInv
<1>4. OnceEach'
  <2> SUFFICES ASSUME NEW a \in DOMAIN history', NEW b \in DOMAIN history', history'[a] = history'[b]
               PROVE  a = b
    BY DEF OnceEach
  <2> HIDE DEF t
  <2>1. \A k \in DOMAIN history : history[k] # t
    BY <1>1 DEF Performed
  <2> QED
    BY <1>3, <2>1 DEF PlanInv, OnceEach
<1>5. CompletedHasRun'
  BY <1>2, <1>3 DEF PlanInv, CompletedHasRun
<1> QED
  BY <1>2, <1>3, <1>4, <1>5 DEF PlanInv

\* A step is completed only after its transactions.
LEMMA CompletePreserves ==
    ASSUME NEW T, IsPlan(T), PlanInv(T), Complete
    PROVE  PlanInv(T)'
<1>1. done' = done + 1 /\ done' \in 0 .. Len(Plan) /\ history' = history
  BY DEF IsPlan, PlanInv, Complete
<1>2. OnceEach' /\ Performed' = Performed
  BY <1>1 DEF PlanInv, OnceEach, Performed
<1>3. CompletedHasRun'
  <2> SUFFICES ASSUME NEW s \in 1 .. done', NEW k \in DOMAIN Plan[s]
               PROVE  Plan[s][k] \in Performed \cup Optional
    BY <1>2 DEF CompletedHasRun
  <2>1. CASE s = done + 1
    BY <2>1 DEF Complete
  <2>2. CASE s # done + 1
    <3>1. s \in 1 .. done
      BY <1>1, <2>2 DEF PlanInv, IsPlan
    <3> QED
      BY <3>1 DEF PlanInv, CompletedHasRun
  <2> QED
    BY <2>1, <2>2
<1> QED
  BY <1>1, <1>2, <1>3 DEF PlanInv

\* The strengthened invariant holds of every behaviour.
LEMMA PlanInductive ==
    ASSUME NEW T, IsPlan(T)
    PROVE  PlanSpec => []PlanInv(T)
<1>1. PlanInit => PlanInv(T)
  BY DEF PlanInit, PlanInv, IsPlan, OnceEach, CompletedHasRun
<1>2. PlanInv(T) /\ [PlanNext]_<<done, history>> => PlanInv(T)'
  <2> SUFFICES ASSUME PlanInv(T), [PlanNext]_<<done, history>> PROVE PlanInv(T)'
    OBVIOUS
  <2>1. CASE Complete
    BY <2>1, CompletePreserves
  <2>2. ASSUME NEW i, Execute(i) PROVE PlanInv(T)'
    BY <2>2, ExecutePreserves
  <2>3. CASE UNCHANGED <<done, history>>
    BY <2>3 DEF PlanInv, OnceEach, CompletedHasRun, Performed
  <2> QED
    BY <2>1, <2>2, <2>3 DEF PlanNext
<1> QED
  BY <1>1, <1>2, PTL DEF PlanSpec

\* Whatever the plan, a deployment executes none of its transactions twice: what
\* hardened::runner promises by resuming what the journal holds instead of signing
\* again.
THEOREM ExecutesOnce ==
    ASSUME NEW T, IsPlan(T)
    PROVE  PlanSpec => []OnceEach
<1>1. PlanInv(T) => OnceEach
  BY DEF PlanInv
<1> QED
  BY <1>1, PlanInductive, PTL

\* Whatever the plan, the transactions of every completed step were executed, but
\* for the ones a step may find already done: what runner::execute promises by
\* marking a step completed last.
THEOREM CompletesInOrder ==
    ASSUME NEW T, IsPlan(T)
    PROVE  PlanSpec => []CompletedHasRun
<1>1. PlanInv(T) => CompletedHasRun
  BY DEF PlanInv
<1> QED
  BY <1>1, PlanInductive, PTL

-----------------------------------------------------------------------------
(* Verifying: the routes and the adapters.                                   *)

Dests == {"EvmAmplifierFast", "EvmAmplifier", "EvmLegacy", "Solana", "Stellar", "Sui",
          "ItsEvmAmplifier", "ItsEvmLegacy", "ItsSolana", "ItsStellar", "ItsSui", "ItsXrpl"}

\* Every route has an adapter.  The one adapter that takes an unapproved message for an
\* executed one reads a direct route whose arrival at the destination's Cosmos gateway is
\* checked.
LEMMA RouteFacts ==
  ASSUME NEW r \in AllRoutes
  PROVE  /\ r.dest \in Dests
         /\ r.dest = "EvmAmplifierFast" => ~r.hub /\ r.routing
<1> USE DEF Dests, Route
<1>1. CASE r \in EvmGmp \cup EvmGmpStreaming
  BY <1>1 DEF EvmGmp, EvmGmpStreaming
<1>2. CASE r \in ObservedRoutes
  <2>1. CASE r \in EvmLegacyGmp \cup EvmLegacyGmpStreaming
    BY <2>1 DEF EvmLegacyGmp, EvmLegacyGmpStreaming
  <2>2. CASE r \in UNION {StellarGmp, SuiGmp, SolanaGmp, SolanaGmpStreaming}
    BY <2>2 DEF StellarGmp, SuiGmp, SolanaGmp, SolanaGmpStreaming
  <2>3. CASE r \in UNION {SolanaIts, SolanaItsStreaming, SuiIts, StellarIts}
    BY <2>3 DEF SolanaIts, SolanaItsStreaming, SuiIts, StellarIts
  <2>4. CASE r \in UNION {StellarItsStreaming, XrplIts, XrplItsStreaming}
    BY <2>4 DEF StellarItsStreaming, XrplIts, XrplItsStreaming
  <2>5. CASE r \in UNION {EvmIts, EvmItsStreaming}
    BY <2>5 DEF EvmIts, EvmItsStreaming, ItsEvmDest
  <2> QED BY <1>2, <2>1, <2>2, <2>3, <2>4, <2>5 DEF ObservedRoutes
<1> QED BY <1>1, <1>2 DEF AllRoutes

\* What lets a transaction leave its phase.
LEMMA GateIs ==
  /\ DOMAIN Gate = {"Voted", "HubApproved", "DiscoverSecondLeg", "Routed"}
  /\ Gate["Voted"] = 1 /\ Gate["HubApproved"] = 2
  /\ Gate["DiscoverSecondLeg"] = 3 /\ Gate["Routed"] = 4
BY DEF Gate, Voted, Executable, SecondLeg, Routed

\* The phase after a phase is a phase.
LEMMA NextPhaseType ==
  ASSUME NEW p \in DOMAIN Gate
  PROVE  NextPhase(p) \in {"HubApproved", "DiscoverSecondLeg", "Routed", "Approved"}
BY GateIs DEF NextPhase, HubNextPhase, GmpNextPhase

\* An adapter's answer "executed" is to be relied on, and "approved" likewise.
LEMMA StatusIsTrue ==
  ASSUME TypeOK, PhaseIsReached, pc = "execution", NEW t \in due
  PROVE  /\ DestinationStatus(t) = "executed" /\ phase[t] \in {"Approved", "Executed"} =>
               \/ stage[t] = Executed
               \/ route.dest = "EvmAmplifierFast" /\ stage[t] >= Routed
         /\ DestinationStatus(t) = "approved" => stage[t] >= Approved
<1> USE DEF IsExecuted, Seeking, Executed, Approved, Routed
<1>0. t \in Txs /\ stage[t] \in 0 .. 6
  BY DEF TypeOK
<1>1. CASE route.dest = "EvmAmplifierFast"
  BY <1>0, <1>1 DEF DestinationStatus, EvmAmplifierStatus, PhaseIsReached
<1>2. CASE route.dest = "EvmAmplifier"
  BY <1>0, <1>2 DEF DestinationStatus, EvmAmplifierStatus, PhaseIsReached
<1>3. CASE route.dest \in {"EvmLegacy", "ItsEvmLegacy"}
  BY <1>0, <1>3, ZenonT(30) DEF DestinationStatus, EvmLegacyStatus, ItsEvmLegacyStatus, PhaseIsReached
<1>4. CASE route.dest \in {"Solana", "ItsSolana"}
  <2>1. DestinationStatus(t) = IF stage[t] = 6 THEN "executed"
                               ELSE IF stage[t] = 5 THEN "approved" ELSE "pending"
    BY <1>4, ZenonT(30) DEF DestinationStatus, SolanaStatus, ItsSolanaStatus
  <2> QED BY <1>0, <2>1
<1>8. CASE route.dest = "ItsXrpl"
  BY <1>0, <1>8 DEF DestinationStatus, ItsXrplStatus
<1>5. CASE route.dest \in {"Stellar", "ItsStellar"}
  BY <1>0, <1>5, ZenonT(30) DEF DestinationStatus, StellarStatus, ItsStellarStatus, PhaseIsReached
<1>6. CASE route.dest \in {"Sui", "ItsSui", "ItsEvmAmplifier"}
  BY <1>0, <1>6, ZenonT(30) DEF DestinationStatus, SuiStatus, ItsSuiStatus, ItsEvmAmplifierStatus,
                    PhaseIsReached
<1>7. route.dest \in Dests
  BY RoutesAssumption, RouteFacts DEF TypeOK
<1> QED BY <1>1, <1>2, <1>3, <1>4, <1>5, <1>6, <1>7, <1>8 DEF Dests

-----------------------------------------------------------------------------
(* Verifying: initially.                                                     *)

\* A run begins in a state of the invariant, streaming or not.
LEMMA StartInv ==
  ASSUME NEW s \in [Txs -> {"idle", "inflight", "confirmed", "rejected"}], Start(s),
         sendDone \in BOOLEAN
  PROVE  PipelineInv
<1> USE DEF Start
<1>1. InitialPhase \in {"Voted", "HubApproved", "Routed", "Approved"}
  BY DEF InitialPhase
<1>2. TypeOK
  <2>1. stage \in [Txs -> 0 .. Executed]
    BY DEF Executed
  <2>2. verdict \in [Txs -> {"unknown", "active"} \cup Terminal]
    OBVIOUS
  <2>3. phase \in [Txs -> Phases]
    BY <1>1 DEF Phases
  <2> QED BY <2>1, <2>2, <2>3, ZenonT(30) DEF TypeOK
<1>3. LearnedOnce
  BY DEF LearnedOnce
<1>6. TimedAsJudged /\ DueIsActive
  BY DEF TimedAsJudged, DueIsActive
<1>7. SucceededIsExecuted
  BY DEF SucceededIsExecuted
<1>4. route.dest = "EvmAmplifierFast" => InitialPhase \in {"Voted", "Routed"}
  BY RoutesAssumption, RouteFacts DEF InitialPhase
<1>5. PhaseIsReached
  BY <1>1, <1>4 DEF PhaseIsReached
<1> QED BY <1>2, <1>3, <1>5, <1>6, <1>7 DEF PipelineInv

\* The pipeline begins with nothing judged.
LEMMA PipelineInit == Init => PipelineInv
<1>1. CASE StreamInit
  <2>1. [t \in Txs |-> "idle"] \in [Txs -> {"idle", "inflight", "confirmed", "rejected"}]
    OBVIOUS
  <2> QED BY <1>1, <2>1, StartInv, ZenonT(30) DEF StreamInit
<1>2. CASE BatchInit
  <2>1. PICK confirmed \in SUBSET Txs :
          /\ Start([t \in Txs |-> IF t \in confirmed THEN "confirmed" ELSE "rejected"])
          /\ sendDone = TRUE
    BY <1>2 DEF BatchInit
  <2>2. [t \in Txs |-> IF t \in confirmed THEN "confirmed" ELSE "rejected"]
          \in [Txs -> {"idle", "inflight", "confirmed", "rejected"}]
    OBVIOUS
  <2> QED BY <2>1, <2>2, StartInv
<1> QED BY <1>1, <1>2 DEF Init

-----------------------------------------------------------------------------
(* Verifying: the chains and the senders leave the verifier's state alone.   *)

\* The chains and the clock keep the invariant: messages only move forward.
LEMMA EnvironmentInv == PipelineInv /\ Environment => PipelineInv'
<1> SUFFICES ASSUME PipelineInv, Environment PROVE PipelineInv'
  OBVIOUS
<1> USE DEF txVars, pollVars, sendVars, chainVars
<1>1. CASE Elapse
  BY <1>1 DEF Elapse, PipelineInv, TypeOK, LearnedOnce, TimedAsJudged, DueIsActive,
              PhaseIsReached, SucceededIsExecuted, InPhase, Active
<1>2. ASSUME NEW t \in Txs, Advance(t) PROVE PipelineInv'
  <2>0. stage \in [Txs -> 0 .. 6] /\ stage' \in [Txs -> 0 .. 6]
    BY <1>2 DEF Advance, After, PipelineInv, TypeOK, Executed, Voted, Routed
  <2>1. ASSUME NEW u \in Txs PROVE /\ stage[u] = 6 => stage'[u] = 6
                                   /\ stage[u] >= 5 => stage'[u] >= 5
                                   /\ stage[u] >= 4 => stage'[u] >= 4
    BY <1>2, <2>0 DEF Advance, After, Executed, Voted, Routed
  <2>2. UNCHANGED <<route, sent, channel, verdict, phase, ok, due, approved, pc>>
    BY <1>2 DEF Advance
  <2>3. TypeOK'
    BY <1>2, <2>0, <2>2 DEF Advance, PipelineInv, TypeOK, Executed
  <2>4. LearnedOnce' /\ TimedAsJudged' /\ DueIsActive'
    <3> USE <2>2 DEF PipelineInv, InPhase, Active
    <3>1. LearnedOnce'
      BY DEF LearnedOnce
    <3>2. TimedAsJudged'
      BY DEF TimedAsJudged
    <3>3. DueIsActive'
      BY DEF DueIsActive
    <3> QED BY <3>1, <3>2, <3>3
  <2>5. PhaseIsReached'
    BY <2>1, <2>2 DEF PipelineInv, PhaseIsReached, Executed, Approved, Routed
  <2>6. SucceededIsExecuted'
    BY <2>1, <2>2 DEF PipelineInv, SucceededIsExecuted, Executed, Routed
  <2> QED BY <2>3, <2>4, <2>5, <2>6 DEF PipelineInv
<1>3. ASSUME NEW t \in Txs, Revert(t) PROVE PipelineInv'
  BY <1>3 DEF Revert, PipelineInv, TypeOK, LearnedOnce, TimedAsJudged, DueIsActive,
              PhaseIsReached, SucceededIsExecuted, InPhase, Active
<1> QED BY <1>1, <1>2, <1>3 DEF Environment

\* The senders keep the invariant.
LEMMA SenderInv == PipelineInv /\ Sender => PipelineInv'
<1> SUFFICES ASSUME PipelineInv, Sender PROVE PipelineInv'
  OBVIOUS
<1> USE DEF txVars, pollVars, sendVars, chainVars
<1>0. ASSUME UNCHANGED <<route, stage, verdict, phase, ok, due, approved, pc>>
      PROVE  TimedAsJudged' /\ DueIsActive' /\ PhaseIsReached' /\ SucceededIsExecuted'
  BY <1>0 DEF PipelineInv, TimedAsJudged, DueIsActive, PhaseIsReached, SucceededIsExecuted,
              InPhase, Active
<1>1. ASSUME NEW t \in Txs, Launch(t) \/ Reject(t) PROVE PipelineInv'
  <2>1. TypeOK' /\ LearnedOnce'
    BY <1>1 DEF Launch, Reject, PipelineInv, TypeOK, LearnedOnce
  <2> QED BY <1>0, <1>1, <2>1 DEF Launch, Reject, PipelineInv
<1>2. ASSUME NEW t \in Txs, Confirm(t) PROVE PipelineInv'
  <2>1. TypeOK'
    BY <1>2 DEF Confirm, PipelineInv, TypeOK
  <2>2. LearnedOnce'
    BY <1>2 DEF Confirm, PipelineInv, TypeOK, LearnedOnce
  <2> QED BY <1>0, <1>2, <2>1, <2>2 DEF Confirm, PipelineInv
<1>3. CASE Interrupt \/ FinishSending
  <2>1. TypeOK' /\ LearnedOnce'
    BY <1>3, ZenonT(30) DEF Interrupt, FinishSending, PipelineInv, TypeOK, LearnedOnce
  <2> QED BY <1>0, <1>3, <2>1 DEF Interrupt, FinishSending, PipelineInv
<1>4. CASE Panic
  <2>1. TypeOK' /\ LearnedOnce'
    BY <1>4 DEF Panic, PipelineInv, TypeOK, LearnedOnce
  <2> QED BY <1>0, <1>4, <2>1 DEF Panic, PipelineInv
<1>5. CASE DropSession
  BY <1>5 DEF DropSession, Ended, PipelineInv, TypeOK, LearnedOnce, TimedAsJudged, DueIsActive,
              PhaseIsReached, SucceededIsExecuted, InPhase, Active
<1> QED BY <1>1, <1>2, <1>3, <1>4, <1>5 DEF Sender

-----------------------------------------------------------------------------
(* Verifying: a poll of the verifier.                                        *)

\* Draining the channel keeps the invariant.
LEMMA DrainInv == PipelineInv /\ Drain => PipelineInv'
<1> SUFFICES ASSUME PipelineInv, Drain PROVE PipelineInv'
  OBVIOUS
<1> USE DEF Drain, PipelineInv, txVars, pollVars, sendVars, chainVars
<1>1. TypeOK'
  BY DEF TypeOK
<1>2. LearnedOnce'
  BY DEF TypeOK, LearnedOnce
<1>3. TimedAsJudged'
  BY DEF TypeOK, LearnedOnce, TimedAsJudged
<1>4. DueIsActive' /\ PhaseIsReached'
  BY DEF TypeOK, DueIsActive, PhaseIsReached
<1>5. SucceededIsExecuted'
  BY DEF TypeOK, SucceededIsExecuted
<1> QED BY <1>1, <1>2, <1>3, <1>4, <1>5

\* A step that gives no verdict, moves no phase and chooses no transactions to check.
LEMMA IdleInv ==
  ASSUME PipelineInv, TypeOK',
         UNCHANGED <<route, stage, sent, channel, verdict, phase, ok>>,
         pc' \in {"drain", "load", "sweep", "pace", "finalize", "error"}
  PROVE  PipelineInv'
<1> USE DEF PipelineInv
<1>1. LearnedOnce' /\ TimedAsJudged'
  BY DEF LearnedOnce, TimedAsJudged
<1>2. DueIsActive' /\ PhaseIsReached'
  BY DEF DueIsActive, PhaseIsReached
<1>3. SucceededIsExecuted'
  BY DEF SucceededIsExecuted
<1> QED BY <1>1, <1>2, <1>3

\* A sweep keeps the invariant.
LEMMA SweepInv == PipelineInv /\ Sweep => PipelineInv'
<1> SUFFICES ASSUME PipelineInv, Sweep PROVE PipelineInv'
  OBVIOUS
<1> USE DEF PipelineInv, txVars, pollVars, sendVars, chainVars
<1>1. PICK gone \in SUBSET (reverted \cap Active) :
        /\ verdict' = [t \in Txs |-> IF t \in gone THEN "failed" ELSE verdict[t]]
        /\ due' = (InPhase("Approved") \cup InPhase("Executed")) \ gone
  BY DEF Sweep
<1>2. /\ UNCHANGED <<route, stage, sent, channel, phase, ok>>
      /\ pc' = "check"
  BY DEF Sweep
<1>3. TypeOK'
  BY <1>1 DEF Sweep, TypeOK, Terminal, InPhase, Active
<1>4. LearnedOnce'
  BY <1>1, <1>2 DEF LearnedOnce, Active
<1>5. TimedAsJudged'
  BY <1>1, <1>2 DEF TimedAsJudged, Active
<1>6. DueIsActive'
  BY <1>1, <1>2 DEF DueIsActive, InPhase, Active
<1>7. PhaseIsReached'
  BY <1>2 DEF PhaseIsReached
<1>8. SucceededIsExecuted'
  BY <1>1, <1>2 DEF SucceededIsExecuted
<1> QED BY <1>3, <1>4, <1>5, <1>6, <1>7, <1>8

\* The checks before the destination keep the invariant.
LEMMA CheckInv == PipelineInv /\ Check => PipelineInv'
<1> SUFFICES ASSUME PipelineInv, Check PROVE PipelineInv'
  OBVIOUS
<1> USE DEF PipelineInv, txVars, pollVars, sendVars, chainVars
<1>1. PICK moved \in SUBSET {t \in Active : phase[t] \in DOMAIN Gate /\ stage[t] >= Gate[phase[t]]} :
        /\ phase' = [t \in Txs |-> IF t \in moved THEN NextPhase(phase[t]) ELSE phase[t]]
        /\ leg' = leg \cup {t \in moved : phase[t] = "DiscoverSecondLeg"}
        /\ quiet' = (quiet /\ moved = {})
  BY DEF Check
<1>2. /\ UNCHANGED <<route, stage, sent, channel, verdict, ok, due, approved>>
      /\ pc = "check" /\ pc' \in {"pace", "approval"}
  BY DEF Check
<1>3. phase' \in [Txs -> Phases]
  BY <1>1, NextPhaseType DEF TypeOK, Phases
<1>4. TypeOK'
  <2>1. leg' \in SUBSET Txs /\ quiet' \in BOOLEAN
    BY <1>1 DEF TypeOK, Active
  <2> QED BY <1>2, <1>3, <2>1 DEF Check, TypeOK, Ended
<1>5. LearnedOnce' /\ TimedAsJudged' /\ SucceededIsExecuted'
  BY <1>2 DEF LearnedOnce, TimedAsJudged, SucceededIsExecuted
<1>6. DueIsActive'
  <2>1. \A t \in due : t \notin moved
    BY <1>1, <1>2, GateIs DEF DueIsActive, InPhase
  <2> QED BY <1>1, <1>2, <2>1 DEF DueIsActive, InPhase, Active
<1>7. ASSUME NEW t \in Txs, phase'[t] = "Executed" PROVE stage[t] >= Approved
  <2>1. phase[t] = "Executed"
    BY <1>1, <1>7, NextPhaseType
  <2> QED BY <2>1 DEF PhaseIsReached
<1>8. ASSUME NEW t \in Txs, route.dest = "EvmAmplifierFast"
      PROVE  /\ phase'[t] \in {"Voted", "Routed", "Approved", "Executed"}
             /\ phase'[t] = "Approved" => stage[t] >= Routed
  <2>1. ~route.hub /\ route.routing
    BY <1>8, RouteFacts, RoutesAssumption DEF TypeOK
  <2>2. phase[t] \in {"Voted", "Routed", "Approved", "Executed"}
    BY <1>8 DEF PhaseIsReached
  <2>3. CASE t \in moved
    <3>1. phase[t] \in {"Voted", "Routed"} /\ stage[t] >= Gate[phase[t]]
      BY <1>1, <2>2, <2>3, GateIs
    <3>2. phase'[t] = GmpNextPhase(phase[t])
      BY <1>1, <2>1, <2>3 DEF NextPhase
    <3> QED BY <2>1, <3>1, <3>2, GateIs DEF GmpNextPhase, Routed
  <2>4. CASE t \notin moved
    BY <1>1, <1>8, <2>2, <2>4 DEF PhaseIsReached
  <2> QED BY <2>3, <2>4
<1>9. PhaseIsReached'
  BY <1>2, <1>7, <1>8 DEF PhaseIsReached
<1> QED BY <1>4, <1>5, <1>6, <1>9

\* Reading the approvals keeps the invariant.
LEMMA ReadApprovedInv == PipelineInv /\ ReadApproved => PipelineInv'
<1> SUFFICES ASSUME PipelineInv, ReadApproved PROVE PipelineInv'
  OBVIOUS
<1> USE DEF PipelineInv, txVars, pollVars, sendVars, chainVars
<1>1. /\ UNCHANGED <<route, stage, sent, channel, verdict, phase, ok, due>>
      /\ pc = "approval" /\ pc' = "execution"
      /\ approved' = {t \in due : ShowsApproved(t)}
  BY DEF ReadApproved
<1>2. TypeOK'
  BY <1>1 DEF ReadApproved, TypeOK
<1>3. LearnedOnce' /\ TimedAsJudged' /\ SucceededIsExecuted'
  BY <1>1 DEF LearnedOnce, TimedAsJudged, SucceededIsExecuted
<1>4. DueIsActive'
  BY <1>1 DEF DueIsActive, InPhase, Active
<1>5. ASSUME NEW t \in Txs, t \in approved' PROVE stage[t] >= Approved
  BY <1>1, <1>5 DEF ShowsApproved, Approved, TypeOK
<1>6. ASSUME NEW t \in Txs, t \in due \ approved', phase[t] = "Executed",
             route.dest \in {"EvmAmplifierFast", "EvmAmplifier"}
      PROVE  stage[t] = Executed
  <2>1. stage[t] # Approved
    BY <1>1, <1>6 DEF ShowsApproved
  <2>2. stage[t] >= Approved /\ stage[t] \in 0 .. Executed
    BY <1>6 DEF PhaseIsReached, TypeOK
  <2> QED BY <2>1, <2>2 DEF Approved, Executed
<1>7. PhaseIsReached'
  BY <1>1, <1>5, <1>6 DEF PhaseIsReached
<1> QED BY <1>2, <1>3, <1>4, <1>7

\* Reading the executions, and what is concluded from both, keeps the invariant.
LEMMA ReadExecutedInv == PipelineInv /\ ReadExecuted => PipelineInv'
<1> SUFFICES ASSUME PipelineInv, ReadExecuted PROVE PipelineInv'
  OBVIOUS
<1> USE DEF PipelineInv, txVars, pollVars, sendVars, chainVars
<1> DEFINE settled(seen) == {t \in seen : DestinationStatus(t) = "executed"}
           arrived(seen) == {t \in seen : DestinationStatus(t) = "approved" /\ Seeking(t)}
<1>1. PICK seen \in SUBSET due :
        /\ verdict' = [t \in Txs |-> IF t \in settled(seen) THEN "succeeded" ELSE verdict[t]]
        /\ ok' = ok \cup settled(seen)
        /\ phase' = [t \in Txs |-> IF t \in arrived(seen) THEN "Executed" ELSE phase[t]]
        /\ quiet' = (quiet /\ settled(seen) \cup arrived(seen) = {})
  BY DEF ReadExecuted
<1>2. /\ UNCHANGED <<route, stage, sent, channel, due, approved>>
      /\ pc = "execution" /\ pc' = "pace"
  BY DEF ReadExecuted
<1>3. ASSUME NEW t \in settled(seen)
      PROVE  /\ t \in Txs /\ verdict[t] = "active"
             /\ \/ stage[t] = Executed
                \/ route.dest = "EvmAmplifierFast" /\ stage[t] >= Routed
  <2>1. t \in due /\ t \in Txs /\ verdict[t] = "active" /\ phase[t] \in {"Approved", "Executed"}
    BY <1>1, <1>2 DEF DueIsActive, InPhase, Active
  <2> QED BY <1>2, <2>1, StatusIsTrue
<1>4. ASSUME NEW t \in arrived(seen) PROVE t \in Txs /\ stage[t] >= Approved
  BY <1>1, <1>2, StatusIsTrue DEF DueIsActive, InPhase, Active
<1>5. TypeOK'
  BY <1>1, <1>2, <1>3, <1>4 DEF ReadExecuted, TypeOK, Phases, Terminal, Ended
<1> HIDE DEF settled, arrived
<1>6. LearnedOnce'
  BY <1>1, <1>2, <1>3 DEF LearnedOnce
<1>7. TimedAsJudged'
  BY <1>1, <1>2, <1>3 DEF TimedAsJudged, TypeOK
<1>8. DueIsActive'
  BY <1>2 DEF DueIsActive
<1>9. PhaseIsReached'
  BY <1>1, <1>2, <1>4 DEF PhaseIsReached
<1>10. SucceededIsExecuted'
  BY <1>1, <1>2, <1>3 DEF SucceededIsExecuted
<1> QED BY <1>5, <1>6, <1>7, <1>8, <1>9, <1>10

\* Finalizing what is left keeps the invariant.
LEMMA FinalizeInv ==
  ASSUME PipelineInv, NEW t \in Txs, Finalize(t)
  PROVE  PipelineInv'
<1> USE DEF PipelineInv, txVars, pollVars, sendVars, chainVars
<1>1. PICK executed \in BOOLEAN :
        /\ executed => IsExecuted(t)
        /\ verdict' = [verdict EXCEPT ![t] = IF executed THEN "recovered" ELSE "timedout"]
        /\ ok' = IF executed THEN ok \cup {t} ELSE ok
  BY ZenonT(30) DEF Finalize
<1>2. /\ UNCHANGED <<route, stage, sent, channel, phase, due, approved, pc>>
      /\ pc = "finalize" /\ verdict[t] = "active"
  BY DEF Finalize, Active
<1>3. TypeOK'
  BY <1>1 DEF Finalize, TypeOK, Terminal
<1>4. LearnedOnce'
  BY <1>1, <1>2 DEF LearnedOnce, TypeOK
<1>5. TimedAsJudged'
  BY <1>1, <1>2 DEF TimedAsJudged, TypeOK
<1>6. DueIsActive' /\ PhaseIsReached'
  BY <1>2 DEF DueIsActive, PhaseIsReached
<1>7. SucceededIsExecuted'
  BY <1>1, <1>2 DEF SucceededIsExecuted, IsExecuted, TypeOK
<1> QED BY <1>3, <1>4, <1>5, <1>6, <1>7

\* Every step keeps the invariant.
LEMMA PipelineNext == PipelineInv /\ [Next]_vars => PipelineInv'
<1> SUFFICES ASSUME PipelineInv, [Next]_vars PROVE PipelineInv'
  OBVIOUS
<1>1. CASE Load \/ Fail \/ Pace
  <2>1. TypeOK'
    BY <1>1 DEF Load, Fail, Pace, PipelineInv, TypeOK, Ended, txVars, pollVars, sendVars, chainVars
  <2>2. /\ UNCHANGED <<route, stage, sent, channel, verdict, phase, ok>>
        /\ pc' \in {"drain", "load", "sweep", "pace", "finalize", "error"}
    BY <1>1 DEF Load, Fail, Pace, txVars, sendVars, chainVars
  <2> QED BY <2>1, <2>2, IdleInv
<1>2. CASE Report \/ UNCHANGED vars
  <2> USE <1>2 DEF Report, vars, txVars, pollVars, sendVars, chainVars
  <2>1. TypeOK'
    BY ZenonT(30) DEF PipelineInv, TypeOK, Ended
  <2>2. LearnedOnce' /\ SucceededIsExecuted'
    BY ZenonT(30) DEF PipelineInv, LearnedOnce, SucceededIsExecuted
  <2>3. TimedAsJudged'
    BY DEF PipelineInv, TimedAsJudged, Active
  <2>4. DueIsActive' /\ PhaseIsReached'
    BY DEF PipelineInv, DueIsActive, PhaseIsReached, InPhase, Active
  <2> QED BY <2>1, <2>2, <2>3, <2>4 DEF PipelineInv
<1> QED
  BY <1>1, <1>2, EnvironmentInv, SenderInv, DrainInv, SweepInv, CheckInv, ReadApprovedInv,
     ReadExecutedInv, FinalizeInv DEF Next, Verifier

-----------------------------------------------------------------------------
(* Verifying: the results.                                                   *)

\* Every variable of the chains, the senders and the verifier keeps its type, for any
\* transactions and routes.
THEOREM TypeCorrect == Spec => []TypeOK
<1>1. PipelineInv => TypeOK
  BY DEF PipelineInv
<1> QED BY <1>1, PipelineInit, PipelineNext, PTL DEF Spec

\* Whichever adapter, poll or API answer settled it, a message the report counts as
\* successful was executed on its destination; the adapter that takes an unapproved
\* message for an executed one vouches only for its having been routed.
THEOREM SuccessIsExecution == Spec => []SucceededIsExecuted
<1>1. PipelineInv => SucceededIsExecuted
  BY DEF PipelineInv
<1> QED BY <1>1, PipelineInit, PipelineNext, PTL DEF Spec

\* The report counts every transaction the verifier knows once: as failed, or as
\* successful by its timing.
THEOREM ReportCountsEach == Spec => []ReportIsComplete
<1>1. PipelineInv => ReportIsComplete
  BY DEF PipelineInv, TypeOK, TimedAsJudged, ReportIsComplete, Known, Active, Terminal
<1> QED BY <1>1, PipelineInit, PipelineNext, PTL DEF Spec

\* No step changes a verdict or takes a phase back.
LEMMA FinalStep ==
  PipelineInv /\ [Next]_vars =>
    \A t \in Txs : /\ verdict[t] \in Terminal => verdict'[t] = verdict[t]
                   /\ phase[t] = "Executed" => phase'[t] = "Executed"
                   /\ phase[t] = "Approved" => phase'[t] \in {"Approved", "Executed"}
                   /\ t \in leg => t \in leg'
<1> DEFINE Goal == \A t \in Txs : /\ verdict[t] \in Terminal => verdict'[t] = verdict[t]
                                  /\ phase[t] = "Executed" => phase'[t] = "Executed"
                                  /\ phase[t] = "Approved" => phase'[t] \in {"Approved", "Executed"}
                                  /\ t \in leg => t \in leg'
<1> SUFFICES ASSUME PipelineInv, [Next]_vars PROVE Goal
  OBVIOUS
<1>1. ASSUME UNCHANGED txVars PROVE Goal
  BY <1>1 DEF txVars
<1>2. CASE Environment \/ Sender \/ UNCHANGED vars
  <2>1. UNCHANGED txVars
    BY <1>2, Zenon DEF Environment, Elapse, Advance, Revert, Sender, Launch, Confirm, Reject,
       Interrupt, FinishSending, Panic, DropSession, vars
  <2> QED BY <1>1, <2>1
<1>3. CASE Load \/ ReadApproved \/ Fail \/ Pace \/ Report
  <2>1. UNCHANGED txVars
    BY <1>3, Zenon DEF Load, ReadApproved, Fail, Pace, Report
  <2> QED BY <1>1, <2>1
<1>4. CASE Drain
  BY <1>4 DEF Drain, PipelineInv, LearnedOnce, Terminal
<1>5. CASE Sweep
  BY <1>5 DEF Sweep, Active, Terminal
<1>6. CASE Check
  BY <1>6, GateIs DEF Check
<1>7. CASE ReadExecuted
  <2>1. due \subseteq Active
    BY <1>7 DEF ReadExecuted, PipelineInv, DueIsActive, InPhase
  <2> QED BY <1>7, <2>1 DEF ReadExecuted, Active, Terminal
<1>8. ASSUME NEW t \in Txs, Finalize(t) PROVE Goal
  BY <1>8 DEF Finalize, Active, Terminal, PipelineInv, TypeOK
<1> HIDE DEF Goal
<1> QED BY <1>2, <1>3, <1>4, <1>5, <1>6, <1>7, <1>8 DEF Next, Verifier

\* For any transactions and routes, a verdict is final, a transaction that waits for its
\* destination never falls back, and a second leg stays installed.
THEOREM VerdictsAreFinal == Spec => VerdictIsFinal
<1>1. PipelineInv /\ [Next]_vars =>
        [\A t \in Txs : /\ verdict[t] \in Terminal => verdict'[t] = verdict[t]
                        /\ phase[t] = "Executed" => phase'[t] = "Executed"
                        /\ phase[t] = "Approved" => phase'[t] \in {"Approved", "Executed"}
                        /\ t \in leg => t \in leg']_vars
  BY FinalStep
<1> QED BY <1>1, PipelineInit, PipelineNext, PTL DEF Spec, VerdictIsFinal
=============================================================================
