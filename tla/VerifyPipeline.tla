--------------------------- MODULE VerifyPipeline ---------------------------
(***************************************************************************)
(* The load test's verification engine (commands/load_test/verification):    *)
(* sender tasks submit source transactions and stream the confirmed ones to   *)
(* a verifier, which polls the Axelar chain and the destination chain until    *)
(* every message has a verdict or nothing has progressed for the inactivity    *)
(* budget.  The chains advance on their own, and so does time.                *)
(***************************************************************************)
EXTENDS VerifyRoutes, Integers, FiniteSets

CONSTANTS
    Txs,      \* the scheduled source transactions
    Routes    \* the routes under test

ASSUME RoutesAssumption == Routes \subseteq AllRoutes

VARIABLES
    route,      \* the route of this run
    stage,      \* how far each message has come on the chains
    reverted,   \* messages whose last execution, on the hub or the destination, reverted
    sent,       \* what became of each scheduled transaction
    stop,       \* a graceful shutdown was requested
    sendDone,   \* the flag that says that the send phase is over
    panicked,   \* a sender task did not complete
    channel,    \* confirmed transactions the verifier has not received
    verdict,    \* the verifier's state of each transaction
    phase,      \* the phase of each transaction
    leg,        \* transactions whose second leg is installed
    ok,         \* transactions whose timing says executed_ok = Some(true)
    complete,   \* the value of send_done this poll works with
    due,        \* transactions this poll checks at the destination
    approved,   \* the ones of them the destination showed as approved
    quiet,      \* the inactivity budget has elapsed since the last progress
    pc          \* where the verifier is

chainVars == <<stage, reverted>>
sendVars == <<sent, stop, sendDone, panicked>>
txVars == <<verdict, phase, leg, ok>>
pollVars == <<complete, due, approved>>
vars == <<route, chainVars, sendVars, channel, txVars, pollVars, quiet, pc>>

\* The stages of a message: the source's verifiers voted, the hub can execute it,
\* the hub executed it (which creates the second leg), it is routed to the
\* destination's gateway, approved there, executed there.
Voted == 1
Executable == 2
SecondLeg == 3
Routed == 4
Approved == 5
Executed == 6

Terminal == {"succeeded", "recovered", "failed", "timedout"}
Ended == {"done", "error", "aborted"}

Known == {t \in Txs : verdict[t] # "unknown"}
Active == {t \in Txs : verdict[t] = "active"}
InPhase(p) == {t \in Active : phase[t] = p}

\* The phase a transaction starts in, after normalize_start.
InitialPhase ==
    CASE route.voting -> "Voted"
      [] ~route.voting /\ route.hub -> "HubApproved"
      [] ~route.voting /\ ~route.hub /\ route.routing -> "Routed"
      [] OTHER -> "Approved"

-----------------------------------------------------------------------------
(* A streaming run starts with nothing sent.  A batch run starts when sending  *)
(* is over and knows every confirmed transaction.                             *)

Start(s) ==
    /\ route \in Routes
    /\ stage = [t \in Txs |-> 0]
    /\ reverted = {}
    /\ sent = s
    /\ stop = FALSE
    /\ panicked = FALSE
    /\ channel = {}
    /\ verdict = [t \in Txs |-> IF s[t] = "confirmed" THEN "active" ELSE "unknown"]
    /\ phase = [t \in Txs |-> InitialPhase]
    /\ leg = {}
    /\ ok = {}
    /\ due = {}
    /\ approved = {}
    /\ complete = FALSE
    /\ quiet = FALSE
    /\ pc = "drain"

StreamInit ==
    /\ Start([t \in Txs |-> "idle"])
    /\ route.stream
    /\ sendDone = FALSE

BatchInit ==
    \E confirmed \in SUBSET Txs \ {{}} :
        /\ Start([t \in Txs |-> IF t \in confirmed THEN "confirmed" ELSE "rejected"])
        /\ ~route.stream
        /\ sendDone = TRUE

Init == StreamInit \/ BatchInit

-----------------------------------------------------------------------------
(* The chains and the clock.                                                 *)

\* The stages a message takes after s: only an ITS message visits the hub.
After(s) == IF s = Voted /\ ~route.hub THEN Routed ELSE s + 1

\* A reverted execution may be retried by a relayer and succeed.
Advance(t) ==
    /\ sent[t] = "confirmed"
    /\ stage[t] < Executed
    /\ stage' = [stage EXCEPT ![t] = After(@)]
    /\ reverted' = reverted \ {t}
    /\ UNCHANGED <<route, sendVars, channel, txVars, pollVars, quiet, pc>>

\* The execution on the hub or on the destination reverts.
Revert(t) ==
    /\ stage[t] \in {Executable, Approved}
    /\ reverted' = reverted \cup {t}
    /\ UNCHANGED <<route, stage, sendVars, channel, txVars, pollVars, quiet, pc>>

\* The inactivity budget elapses without progress.
Elapse ==
    /\ ~quiet
    /\ pc \notin Ended
    /\ quiet' = TRUE
    /\ UNCHANGED <<route, chainVars, sendVars, channel, txVars, pollVars, pc>>

-----------------------------------------------------------------------------
(* The send phase.                                                           *)

Sending == ~sendDone /\ ~panicked

Launch(t) ==
    /\ Sending /\ ~stop
    /\ sent[t] = "idle"
    /\ sent' = [sent EXCEPT ![t] = "inflight"]
    /\ UNCHANGED <<route, chainVars, stop, sendDone, panicked, channel, txVars,
                   pollVars, quiet, pc>>

\* A task that has its confirmation hands the transaction to the verifier, if the
\* verifier still has its end of the channel.
Confirm(t) ==
    /\ Sending
    /\ sent[t] = "inflight"
    /\ sent' = [sent EXCEPT ![t] = "confirmed"]
    /\ channel' = IF pc \in Ended THEN channel ELSE channel \cup {t}
    /\ UNCHANGED <<route, chainVars, stop, sendDone, panicked, txVars, pollVars,
                   quiet, pc>>

Reject(t) ==
    /\ Sending
    /\ sent[t] = "inflight"
    /\ sent' = [sent EXCEPT ![t] = "rejected"]
    /\ UNCHANGED <<route, chainVars, stop, sendDone, panicked, channel, txVars,
                   pollVars, quiet, pc>>

Interrupt ==
    /\ Sending /\ ~stop
    /\ stop' = TRUE
    /\ UNCHANGED <<route, chainVars, sent, sendDone, panicked, channel, txVars,
                   pollVars, quiet, pc>>

\* Every task was joined: the flag is set.
FinishSending ==
    /\ Sending
    /\ \A t \in Txs : sent[t] # "inflight" /\ (sent[t] = "idle" => stop)
    /\ sendDone' = TRUE
    /\ UNCHANGED <<route, chainVars, sent, stop, panicked, channel, txVars, pollVars,
                   quiet, pc>>

\* A task panics: the others are aborted, the flag is set all the same, and the
\* error drops the session.
Panic ==
    /\ Sending
    /\ \E t \in Txs : sent[t] = "inflight"
    /\ sent' = [t \in Txs |-> IF sent[t] = "inflight" THEN "rejected" ELSE sent[t]]
    /\ sendDone' = TRUE
    /\ panicked' = TRUE
    /\ UNCHANGED <<route, chainVars, stop, channel, txVars, pollVars, quiet, pc>>

\* Dropping the session aborts the verifier's task.
DropSession ==
    /\ panicked
    /\ pc \notin Ended
    /\ pc' = "aborted"
    /\ UNCHANGED <<route, chainVars, sendVars, channel, txVars, pollVars, quiet>>

-----------------------------------------------------------------------------
(* One poll of the verifier.                                                 *)

\* next_action first empties the channel ...
Drain ==
    /\ pc = "drain"
    /\ verdict' = [t \in Txs |-> IF t \in channel THEN "active" ELSE verdict[t]]
    /\ channel' = {}
    /\ pc' = "load"
    /\ UNCHANGED <<route, chainVars, sendVars, phase, leg, ok, pollVars, quiet>>

\* ... and then reads the flag.  Waiting for more transactions keeps the inactivity
\* window fresh, but not before the first transaction has arrived.
Load ==
    /\ pc = "load"
    /\ complete' = sendDone
    /\ pc' = IF Active # {} THEN "sweep" ELSE IF sendDone THEN "finalize" ELSE "drain"
    /\ quiet' = (quiet /\ ~(Active = {} /\ Known # {} /\ ~sendDone))
    /\ UNCHANGED <<route, chainVars, sendVars, channel, txVars, due, approved>>

\* A sweep that leaves the failed messages among the ones to check.
SweepKeepsFailed ==
    /\ pc = "sweep"
    /\ \E gone \in SUBSET (reverted \cap Active) :
          verdict' = [t \in Txs |-> IF t \in gone THEN "failed" ELSE verdict[t]]
    /\ due' = InPhase("Approved") \cup InPhase("Executed")
    /\ pc' = "check"
    /\ UNCHANGED <<route, chainVars, sendVars, channel, phase, leg, ok, complete,
                   approved, quiet>>

\* The GMP API's sweep, when it is due, fails the messages it reports as reverted;
\* the destination checks of this poll are chosen after it.
Sweep ==
    /\ pc = "sweep"
    /\ \E gone \in SUBSET (reverted \cap Active) :
          /\ verdict' = [t \in Txs |-> IF t \in gone THEN "failed" ELSE verdict[t]]
          /\ due' = (InPhase("Approved") \cup InPhase("Executed")) \ gone
    /\ pc' = "check"
    /\ UNCHANGED <<route, chainVars, sendVars, channel, phase, leg, ok, complete,
                   approved, quiet>>

\* The stage that lets a transaction leave its phase, as the Axelar chain shows it.
Gate == [Voted |-> Voted, HubApproved |-> Executable,
         DiscoverSecondLeg |-> SecondLeg, Routed |-> Routed]

\* The phase after p on a direct route.
GmpNextPhase(p) == IF p = "Voted" /\ route.routing THEN "Routed" ELSE "Approved"

\* The phase after p on a route through the hub.
HubNextPhase(p) ==
    CASE p = "Voted" -> "HubApproved"
      [] p = "HubApproved" -> "DiscoverSecondLeg"
      [] p = "DiscoverSecondLeg" -> IF route.routing THEN "Routed" ELSE "Approved"
      [] p = "Routed" -> "Approved"

NextPhase(p) == IF route.hub THEN HubNextPhase(p) ELSE GmpNextPhase(p)

\* The checks on the Axelar chain: the votes, the hub, the routing and the discovery
\* of second legs.  A check may miss what is there; the next poll asks again.
Check ==
    /\ pc = "check"
    /\ \E moved \in SUBSET {t \in Active : /\ phase[t] \in DOMAIN Gate
                                           /\ stage[t] >= Gate[phase[t]]} :
          /\ phase' = [t \in Txs |-> IF t \in moved THEN NextPhase(phase[t]) ELSE phase[t]]
          /\ leg' = leg \cup {t \in moved : phase[t] = "DiscoverSecondLeg"}
          /\ quiet' = (quiet /\ moved = {})
    /\ pc' = IF due = {} THEN "pace" ELSE "approval"
    /\ UNCHANGED <<route, chainVars, sendVars, channel, verdict, ok, pollVars>>

\* The destination is asked first whether a message is approved.  A gateway's view
\* forgets the approval once the message is executed; an event or account does not.
ShowsApproved(t) ==
    IF route.dest \in {"EvmAmplifierFast", "EvmAmplifier", "ItsEvmAmplifier", "Stellar", "ItsStellar"}
    THEN stage[t] = Approved
    ELSE stage[t] >= Approved

ReadApproved ==
    /\ pc = "approval"
    /\ approved' = {t \in due : ShowsApproved(t)}
    /\ pc' = "execution"
    /\ UNCHANGED <<route, chainVars, sendVars, channel, txVars, complete, due, quiet>>

\* Then it is asked whether the message is executed, and the adapter draws its
\* conclusion from the two answers and the phase.
IsExecuted(t) == stage[t] = Executed

Seeking(t) == phase[t] = "Approved"

\* The shortcut of an Amplifier source taken for every source.
EvmAmplifierStatusUnobserved(t, observed) ==
    IF Seeking(t) /\ ~IsExecuted(t) /\ t \in approved THEN "approved"
    ELSE IF ~Seeking(t) /\ t \in approved THEN "pending"
    ELSE "executed"

EvmAmplifierStatus(t, observed) ==
    IF Seeking(t)
    THEN IF IsExecuted(t) THEN "executed"
         ELSE IF t \in approved THEN "approved"
         ELSE IF observed THEN "pending" ELSE "executed"
    ELSE IF t \in approved THEN "pending" ELSE "executed"

EvmLegacyStatus(t) ==
    IF Seeking(t) /\ t \notin approved THEN "pending"
    ELSE IF IsExecuted(t) THEN "executed"
    ELSE IF Seeking(t) THEN "approved" ELSE "pending"

SolanaStatus(t) ==
    IF IsExecuted(t) THEN "executed" ELSE IF stage[t] = Approved THEN "approved" ELSE "pending"

StellarStatus(t) ==
    IF Seeking(t) THEN (IF t \in approved THEN "approved" ELSE "pending")
    ELSE IF IsExecuted(t) THEN "executed" ELSE "pending"

SuiStatus(t) ==
    IF IsExecuted(t) THEN "executed"
    ELSE IF Seeking(t) /\ t \in approved THEN "approved" ELSE "pending"

\* The adapters of the hub's second leg.
ItsEvmAmplifierStatus(t) ==
    IF IsExecuted(t) THEN "executed"
    ELSE IF Seeking(t) /\ t \in approved THEN "approved" ELSE "pending"

ItsEvmLegacyStatus(t) ==
    IF Seeking(t) /\ t \notin approved THEN "pending"
    ELSE IF IsExecuted(t) THEN "executed"
    ELSE IF Seeking(t) THEN "approved" ELSE "pending"

ItsSolanaStatus(t) ==
    IF IsExecuted(t) THEN "executed" ELSE IF stage[t] = Approved THEN "approved" ELSE "pending"

ItsStellarStatus(t) ==
    IF Seeking(t) THEN (IF t \in approved THEN "approved" ELSE "pending")
    ELSE IF IsExecuted(t) THEN "executed" ELSE "pending"

ItsSuiStatus(t) ==
    IF IsExecuted(t) THEN "executed"
    ELSE IF Seeking(t) /\ t \in approved THEN "approved" ELSE "pending"

ItsXrplStatus(t) == IF IsExecuted(t) THEN "executed" ELSE "pending"

DestinationStatus(t) ==
    CASE route.dest = "EvmAmplifierFast" -> EvmAmplifierStatus(t, FALSE)
      [] route.dest = "EvmAmplifier" -> EvmAmplifierStatus(t, TRUE)
      [] route.dest = "EvmLegacy" -> EvmLegacyStatus(t)
      [] route.dest = "Solana" -> SolanaStatus(t)
      [] route.dest = "Stellar" -> StellarStatus(t)
      [] route.dest = "Sui" -> SuiStatus(t)
      [] route.dest = "ItsEvmAmplifier" -> ItsEvmAmplifierStatus(t)
      [] route.dest = "ItsEvmLegacy" -> ItsEvmLegacyStatus(t)
      [] route.dest = "ItsSolana" -> ItsSolanaStatus(t)
      [] route.dest = "ItsStellar" -> ItsStellarStatus(t)
      [] route.dest = "ItsSui" -> ItsSuiStatus(t)
      [] route.dest = "ItsXrpl" -> ItsXrplStatus(t)

\* A read that fails yields no observation.  An approval matters only to a
\* transaction that waits for it.
ReadExecuted ==
    /\ pc = "execution"
    /\ \E seen \in SUBSET due :
          LET settled == {t \in seen : DestinationStatus(t) = "executed"}
              arrived == {t \in seen : DestinationStatus(t) = "approved" /\ Seeking(t)}
          IN  /\ verdict' = [t \in Txs |-> IF t \in settled THEN "succeeded" ELSE verdict[t]]
              /\ ok' = ok \cup settled
              /\ phase' = [t \in Txs |-> IF t \in arrived THEN "Executed" ELSE phase[t]]
              /\ quiet' = (quiet /\ settled \cup arrived = {})
    /\ pc' = "pace"
    /\ UNCHANGED <<route, chainVars, sendVars, channel, leg, pollVars>>

\* The adapters that keep a transaction in flight whatever goes wrong with a read.
\* With the others, and on the Axelar chain, an error that is not transient ends
\* the verification.
Tolerant == {"EvmAmplifierFast", "EvmAmplifier", "EvmLegacy", "ItsEvmAmplifier", "ItsEvmLegacy"}

Fail ==
    /\ \/ pc = "check"
       \/ pc \in {"approval", "execution"} /\ route.dest \notin Tolerant
    /\ pc' = "error"
    /\ UNCHANGED <<route, chainVars, sendVars, channel, txVars, pollVars, quiet>>

\* A poll loop without its inactivity check.
PaceForever ==
    /\ pc = "pace"
    /\ pc' = "drain"
    /\ due' = {}
    /\ approved' = {}
    /\ UNCHANGED <<route, chainVars, sendVars, channel, txVars, complete, quiet>>

\* The end of a poll: give up when the inactivity budget is spent.
Pace ==
    /\ pc = "pace"
    /\ pc' = IF quiet THEN "finalize" ELSE "drain"
    /\ due' = {}
    /\ approved' = {}
    /\ UNCHANGED <<route, chainVars, sendVars, channel, txVars, complete, quiet>>

\* A recovery that leaves the timing as it was.
FinalizeKeepsTiming(t) ==
    /\ pc = "finalize"
    /\ t \in Active
    /\ \E executed \in BOOLEAN :
          /\ executed => IsExecuted(t)
          /\ verdict' = [verdict EXCEPT ![t] = IF executed THEN "recovered" ELSE "timedout"]
    /\ UNCHANGED <<route, chainVars, sendVars, channel, phase, leg, ok, pollVars, quiet, pc>>

\* A transaction without a verdict is recovered if the GMP API reports it executed,
\* and timed out otherwise.
Finalize(t) ==
    /\ pc = "finalize"
    /\ t \in Active
    /\ \E executed \in BOOLEAN :
          /\ executed => IsExecuted(t)
          /\ verdict' = [verdict EXCEPT ![t] = IF executed THEN "recovered" ELSE "timedout"]
          /\ ok' = IF executed THEN ok \cup {t} ELSE ok
    /\ UNCHANGED <<route, chainVars, sendVars, channel, phase, leg, pollVars, quiet, pc>>

Report ==
    /\ pc = "finalize"
    /\ Active = {}
    /\ pc' = "done"
    /\ UNCHANGED <<route, chainVars, sendVars, channel, txVars, pollVars, quiet>>

-----------------------------------------------------------------------------

Environment == Elapse \/ \E t \in Txs : Advance(t) \/ Revert(t)

Sender ==
    \/ \E t \in Txs : Launch(t) \/ Confirm(t) \/ Reject(t)
    \/ Interrupt
    \/ FinishSending
    \/ Panic
    \/ DropSession

Verifier ==
    \/ Drain
    \/ Load
    \/ Sweep
    \/ Check
    \/ ReadApproved
    \/ ReadExecuted
    \/ Fail
    \/ Pace
    \/ \E t \in Txs : Finalize(t)
    \/ Report

Next == Environment \/ Sender \/ Verifier

Spec == Init /\ [][Next]_vars

\* What the send phase does of itself; an interrupt and a panic are not owed.
Progress ==
    \/ \E t \in Txs : Launch(t) \/ Confirm(t) \/ Reject(t)
    \/ FinishSending
    \/ DropSession

\* The verifier keeps polling, tasks finish, and time passes.  The chains owe nothing.
Fairness == WF_vars(Verifier) /\ WF_vars(Progress) /\ WF_vars(Elapse)

FairSpec == Spec /\ Fairness

-----------------------------------------------------------------------------
(* Properties.                                                               *)

\* A message the report counts as successful was executed on its destination,
\* whichever adapter, poll or API answer settled it.  Only the adapter that takes an
\* unapproved message for an executed one (destination.rs, without
\* require_observed_approval) is sure of no more than that it was routed.
SucceededIsExecuted ==
    \A t \in Txs :
        verdict[t] \in {"succeeded", "recovered"} =>
            \/ stage[t] = Executed
            \/ route.dest = "EvmAmplifierFast" /\ stage[t] >= Routed

\* When the report is made each transaction is counted once: as failed, or as
\* successful by its timing (compute_verification_report reads both).
ReportIsComplete ==
    pc = "done" => \A t \in Known : verdict[t] \in {"failed", "timedout"} <=> t \notin ok

\* A verdict is final, and phases only move forward.
VerdictIsFinal ==
    [][\A t \in Txs : /\ verdict[t] \in Terminal => verdict'[t] = verdict[t]
                      /\ phase[t] = "Executed" => phase'[t] = "Executed"
                      /\ phase[t] = "Approved" => phase'[t] \in {"Approved", "Executed"}
                      /\ t \in leg => t \in leg']_vars

\* Whatever the chains and the senders do, the verification ends.
Terminates == <>(pc \in Ended)

\* A verifier that knows that sending is over has every confirmed transaction.
ConfirmedIsVerified ==
    pc = "done" /\ complete => \A t \in Txs : sent[t] = "confirmed" => t \in Known

-----------------------------------------------------------------------------
(* What the safety properties rest on.                                       *)

Phases == {"Voted", "HubApproved", "DiscoverSecondLeg", "Routed", "Approved", "Executed"}

\* Every variable keeps its type, on whichever of the routes the run is.
TypeOK ==
    /\ route \in Routes
    /\ stage \in [Txs -> 0 .. Executed]
    /\ reverted \in SUBSET Txs
    /\ sent \in [Txs -> {"idle", "inflight", "confirmed", "rejected"}]
    /\ stop \in BOOLEAN /\ sendDone \in BOOLEAN /\ panicked \in BOOLEAN
    /\ channel \in SUBSET Txs
    /\ verdict \in [Txs -> {"unknown", "active"} \cup Terminal]
    /\ phase \in [Txs -> Phases]
    /\ leg \in SUBSET Txs /\ ok \in SUBSET Txs
    /\ complete \in BOOLEAN
    /\ due \in SUBSET Txs /\ approved \in SUBSET Txs
    /\ quiet \in BOOLEAN
    /\ pc \in Ended \cup {"drain", "load", "sweep", "check", "approval", "execution",
                          "pace", "finalize"}

\* The verifier learns of a transaction once, after its confirmation.
LearnedOnce ==
    \A t \in Txs :
        /\ t \in channel => verdict[t] = "unknown"
        /\ t \in channel \/ verdict[t] # "unknown" => sent[t] = "confirmed"

\* The timings agree with the verdicts, and no verdict is open when the report is made.
TimedAsJudged ==
    /\ \A t \in Txs : t \in ok <=> verdict[t] \in {"succeeded", "recovered"}
    /\ pc = "done" => Active = {}

\* The transactions a poll checks have no verdict, and wait for their destination, until
\* it has drawn its conclusions.
DueIsActive ==
    pc \in {"check", "approval", "execution"} =>
        due \subseteq InPhase("Approved") \cup InPhase("Executed")

\* What the verifier's phase says of the message, and what the destination's first
\* answer still says when the second one comes.
PhaseIsReached ==
    \A t \in Txs :
        /\ phase[t] = "Executed" => stage[t] >= Approved
        /\ route.dest = "EvmAmplifierFast" =>
              /\ phase[t] \in {"Voted", "Routed", "Approved", "Executed"}
              /\ phase[t] = "Approved" => stage[t] >= Routed
        /\ pc = "execution" /\ t \in approved => stage[t] >= Approved
        /\ /\ pc = "execution"
           /\ t \in due \ approved
           /\ phase[t] = "Executed"
           /\ route.dest \in {"EvmAmplifierFast", "EvmAmplifier"}
           => stage[t] = Executed

PipelineInv ==
    /\ TypeOK
    /\ LearnedOnce
    /\ TimedAsJudged
    /\ DueIsActive
    /\ PhaseIsReached
    /\ SucceededIsExecuted
=============================================================================
