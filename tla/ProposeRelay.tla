---------------------------- MODULE ProposeRelay -----------------------------
(***************************************************************************)
(* The relay of a passed proposal (propose.rs relay_all, propose/relay.rs,     *)
(* propose/relay_consensus.rs): one call after the other, the governance        *)
(* message is approved on the edge chain's gateway, consumed by its ASG, which   *)
(* then holds an operator approval or a schedule, and executed.  Axelar's         *)
(* relayers, the ASG's operator and other terminals do the same in between, any   *)
(* step may fail, and the user reruns the command.                             *)
(***************************************************************************)
EXTENDS Naturals, Sequences

CONSTANTS
    Batch,          \* the calls of the proposal: a sequence of [route, ptype, operator]
    MaxFailures,    \* failed requests, declined prompts and crashes
    MaxFlips        \* how often a target starts or stops accepting its call

ASSUME BatchAssumption ==
    /\ Batch \in Seq([route : {"amplifier", "consensus"}, ptype : {"operator", "timelock"},
                      operator : BOOLEAN])
    /\ Batch # <<>>

VARIABLES
    gateway,        \* the message of each call on the edge chain's gateway
    asg,            \* what the ASG holds for the call
    due,            \* the clocks that have reached the time-lock's eta: the chain's, the host's
    callable,       \* whether the target accepts the call now
    relay,          \* the step of the run
    at,             \* the call it is working on
    outstanding,    \* the calls it failed to relay
    result,         \* how the last run ended
    done,           \* calls some run took for done
    wasSettled,     \* whether the call was settled when the run came to it
    failures, flips

chainVars == <<gateway, asg, due, callable>>
bounds == <<failures, flips>>
relayVars == <<chainVars, relay, at, outstanding, result, done, wasSettled, bounds>>

Edges == DOMAIN Batch

Reading == {"locate", "await", "readConsumed", "readPending", "readApproved", "prove", "sendProof",
            "assert", "recheck", "sendConsume", "execute", "sendExecute"}
Sent == {"landProof", "landConsume", "landExecute"}

RelayTypeOK ==
    /\ gateway \in [Edges -> {"none", "approved", "executed"}]
    /\ asg \in [Edges -> {"none", "pending", "ran", "cancelled"}]
    /\ due \in [Edges -> SUBSET {"chain", "host"}]
    /\ callable \in [Edges -> BOOLEAN]
    /\ relay \in Reading \cup Sent \cup {"idle", "finish"}
    /\ at \in Edges
    /\ {outstanding, done} \subseteq SUBSET Edges
    /\ result \in {"none", "ok", "incomplete"}
    /\ wasSettled \in BOOLEAN
    /\ {failures, flips} \subseteq Nat

RelayInit ==
    /\ gateway = [i \in Edges |-> "none"]
    /\ asg = [i \in Edges |-> "none"]
    /\ due = [i \in Edges |-> {}]
    /\ callable = [i \in Edges |-> TRUE]
    /\ relay = "idle"
    /\ at = 1
    /\ outstanding = {}
    /\ result = "none"
    /\ done = {}
    /\ wasSettled = FALSE
    /\ failures = 0
    /\ flips = 0

\* The ASG has nothing left to do for the call.
Settled(i) == asg[i] \in {"ran", "cancelled"}

-----------------------------------------------------------------------------
(* What a transaction does to the edge chain; one that has become invalid when it *)
(* is included is reverted and changes nothing.                              *)

Proved(i) ==
    /\ gateway' = [gateway EXCEPT ![i] = IF @ = "none" THEN "approved" ELSE @]
    /\ UNCHANGED <<asg, due>>

CanConsume(i) == gateway[i] = "approved"

Consumed(i) ==
    IF CanConsume(i)
    THEN /\ gateway' = [gateway EXCEPT ![i] = "executed"]
         /\ asg' = [asg EXCEPT ![i] = "pending"]
         /\ due' = [due EXCEPT ![i] = {}]
    ELSE UNCHANGED <<gateway, asg, due>>

CanExecute(i) ==
    /\ asg[i] = "pending"
    /\ callable[i]
    /\ Batch[i].ptype = "timelock" => "chain" \in due[i]

Executed(i) ==
    /\ asg' = IF CanExecute(i) THEN [asg EXCEPT ![i] = "ran"] ELSE asg
    /\ UNCHANGED <<gateway, due>>

-----------------------------------------------------------------------------
(* Everybody else.                                                           *)

Others(effect) == effect /\ UNCHANGED <<callable, relay, at, outstanding, result, done, wasSettled, bounds>>

Approve(i) == gateway[i] = "none" /\ Others(Proved(i))

ConsumeToo(i) == CanConsume(i) /\ Others(Consumed(i))

ExecuteToo(i) == CanExecute(i) /\ Others(Executed(i))

Cancel(i) ==
    /\ asg[i] = "pending"
    /\ Others(asg' = [asg EXCEPT ![i] = "cancelled"] /\ UNCHANGED <<gateway, due>>)

Tick(i) ==
    /\ Batch[i].ptype = "timelock"
    /\ asg[i] = "pending"
    /\ \E clock \in {"chain", "host"} \ due[i] :
          Others(due' = [due EXCEPT ![i] = @ \cup {clock}] /\ UNCHANGED <<gateway, asg>>)

Flip(i) ==
    /\ flips < MaxFlips
    /\ flips' = flips + 1
    /\ callable' = [callable EXCEPT ![i] = ~@]
    /\ UNCHANGED <<gateway, asg, due, relay, at, outstanding, result, done, wasSettled, failures>>

-----------------------------------------------------------------------------
(* One run of the relay.                                                     *)

Keep == UNCHANGED <<at, outstanding, result, done, wasSettled, bounds>>

Step(from, to) == relay = from /\ relay' = to /\ Keep /\ UNCHANGED chainVars

BeginRelay ==
    /\ relay = "idle"
    /\ relay' = "locate"
    /\ at' = 1
    /\ outstanding' = {}
    /\ UNCHANGED <<chainVars, result, done, wasSettled, bounds>>

\* The next call, or the end.
Advance ==
    IF at = Len(Batch) THEN relay' = "finish" /\ UNCHANGED at
                       ELSE relay' = "locate" /\ at' = at + 1

\* relay returned Ok.
Done ==
    /\ Advance
    /\ done' = done \cup {at}
    /\ UNCHANGED <<outstanding, result, wasSettled, bounds>>

\* relay returned an error: the call is outstanding and the others go on.
Fail ==
    /\ Advance
    /\ outstanding' = outstanding \cup {at}
    /\ UNCHANGED <<chainVars, result, done, wasSettled, bounds>>

Locate ==
    /\ relay = "locate"
    /\ relay' = IF Batch[at].route = "amplifier" THEN "readConsumed" ELSE "await"
    /\ wasSettled' = Settled(at)
    /\ UNCHANGED <<chainVars, at, outstanding, result, done, bounds>>

\* The gateway's approval event is there, consumed since or not.
WaitForApproval == gateway[at] # "none" /\ Step("await", "readConsumed")

\* A run that asks the ASG before it asks the gateway.
ReadConsumedLate ==
    \/ asg[at] # "pending" /\ Step("readConsumed", "readPending")
    \/ asg[at] = "pending" /\ Step("readConsumed", "execute")

\* A run that does not ask the gateway whether the message was consumed.
ReadConsumedNever ==
    Step("readConsumed", IF Batch[at].route = "amplifier" THEN "readApproved" ELSE "recheck")

ReadConsumed ==
    Step("readConsumed", IF gateway[at] = "executed" THEN "readPending"
                         ELSE IF Batch[at].route = "amplifier" THEN "readApproved"
                         ELSE "recheck")

\* Consumed: if the ASG holds nothing any more there is nothing to replay.
ReadPending ==
    \/ asg[at] = "pending" /\ Step("readPending", "execute")
    \/ relay = "readPending" /\ asg[at] # "pending" /\ Done /\ UNCHANGED chainVars

ReadApproved == Step("readApproved", IF gateway[at] = "approved" THEN "assert" ELSE "prove")

BuildProof == Step("prove", "sendProof")

SubmitProof == Step("sendProof", "landProof")

\* assert_approved and consume_on_asg look at the gateway once more.
AssertApproved ==
    \/ CanConsume(at) /\ (Step("assert", "sendConsume") \/ Step("recheck", "sendConsume"))
    \/ relay \in {"assert", "recheck"} /\ ~CanConsume(at) /\ Fail

\* A transaction is estimated before it is sent: one that would revert is an error.
ConsumeOnAsg ==
    \/ CanConsume(at) /\ Step("sendConsume", "landConsume")
    \/ relay = "sendConsume" /\ ~CanConsume(at) /\ Fail

\* execute_operator stops short of signing for somebody else; both forms look at what
\* the ASG holds, and execute_timelock waits for its eta.
Execute ==
    \/ /\ relay = "execute" /\ Batch[at].ptype = "operator" /\ ~Batch[at].operator
       /\ Done /\ UNCHANGED chainVars
    \/ /\ Batch[at].ptype = "operator" /\ Batch[at].operator /\ asg[at] = "pending"
       /\ Step("execute", "sendExecute")
    \/ /\ Batch[at].ptype = "timelock" /\ asg[at] = "pending" /\ "host" \in due[at]
       /\ Step("execute", "sendExecute")
    \/ /\ relay = "execute" /\ asg[at] # "pending"
       /\ Batch[at].ptype = "operator" => Batch[at].operator
       /\ Fail

SendExecute ==
    \/ CanExecute(at) /\ Step("sendExecute", "landExecute")
    \/ relay = "sendExecute" /\ ~CanExecute(at) /\ Fail

\* broadcast_and_log returns once there is a receipt, whatever its status is.
Land ==
    \/ relay = "landProof" /\ Proved(at) /\ relay' = "assert" /\ Keep /\ UNCHANGED callable
    \/ relay = "landConsume" /\ Consumed(at) /\ relay' = "execute" /\ Keep /\ UNCHANGED callable
    \/ relay = "landExecute" /\ Executed(at) /\ Done /\ UNCHANGED callable

\* A request fails, a prompt is declined, a receipt does not come in time ...
GiveUpCall ==
    /\ relay \in Reading \cup Sent
    /\ failures < MaxFailures
    /\ failures' = failures + 1
    /\ Advance
    /\ outstanding' = outstanding \cup {at}
    /\ UNCHANGED <<chainVars, result, done, wasSettled, flips>>

\* ... or the process dies.
Crash ==
    /\ relay # "idle"
    /\ failures < MaxFailures
    /\ failures' = failures + 1
    /\ relay' = "idle"
    /\ UNCHANGED <<chainVars, at, outstanding, result, done, wasSettled, flips>>

Finish ==
    /\ relay = "finish"
    /\ relay' = "idle"
    /\ result' = IF outstanding = {} THEN "ok" ELSE "incomplete"
    /\ UNCHANGED <<chainVars, at, outstanding, done, wasSettled, bounds>>

-----------------------------------------------------------------------------

RelayRun ==
    \/ BeginRelay \/ Locate \/ WaitForApproval \/ ReadConsumed \/ ReadPending
    \/ ReadApproved \/ BuildProof \/ SubmitProof \/ AssertApproved
    \/ ConsumeOnAsg \/ Execute \/ SendExecute \/ Land \/ Finish

Environment(i) ==
    Approve(i) \/ ConsumeToo(i) \/ ExecuteToo(i) \/ Cancel(i) \/ Tick(i) \/ Flip(i)

RelayNext == RelayRun \/ GiveUpCall \/ Crash \/ \E i \in Edges : Environment(i)

RelaySpec == RelayInit /\ [][RelayNext]_relayVars

\* The command is rerun, its steps are taken, the validators of a consensus chain
\* approve what was voted, and clocks go on.
RelayFairSpec ==
    /\ RelaySpec
    /\ WF_relayVars(RelayRun)
    /\ \A i \in Edges : WF_relayVars(Batch[i].route = "consensus" /\ Approve(i)) /\ WF_relayVars(Tick(i))

-----------------------------------------------------------------------------
(* Properties.                                                               *)

\* While the targets accept their calls, a call the relay did not list as outstanding
\* has run or was cancelled, or was left to the operator with the ASG's approval in
\* place.  A target that stops accepting between the estimate and the inclusion makes
\* relay_all count a reverted execution as done.
AcceptedDoneIsSettled ==
    flips = 0 =>
        \A i \in done :
            \/ Settled(i)
            \/ /\ Batch[i].ptype = "operator" /\ ~Batch[i].operator
               /\ gateway[i] = "executed" /\ asg[i] = "pending"

\* A rerun leaves alone what was settled when it came to it: it neither proves,
\* consumes nor executes again.
SettledIsNotReplayed == wasSettled => relay \notin Sent \cup {"prove", "sendProof"}

\* A failed, declined or crashed relay is resumed by a rerun: once failures stop and the
\* targets accept their calls, some run ends with every call relayed.
Completes == <>[](\A i \in Edges : callable[i]) => <>(result = "ok")

-----------------------------------------------------------------------------
(* What the safety properties rest on.                                       *)

\* The ASG holds, or has held, exactly the calls whose message was consumed.
ConsumedIsHeld == \A i \in Edges : gateway[i] = "executed" <=> asg[i] # "none"

\* A run that came to a settled call gets no further than asking what became of it.
SettledEndsEarly ==
    wasSettled /\ relay \notin {"idle", "locate", "finish"} =>
        relay \in {"await", "readConsumed", "readPending"} /\ Settled(at)

\* What the gateway has said to a run stays so: a message that was approved is approved
\* or consumed, one that was consumed is consumed.
ReadsLast ==
    /\ relay = "landConsume" => gateway[at] # "none"
    /\ relay \in {"readPending", "execute", "sendExecute", "landExecute"} => gateway[at] = "executed"

\* While the targets accept their calls, an execution that was estimated succeeds, unless
\* somebody else has settled the call.
EstimateHolds ==
    flips = 0 =>
        /\ \A i \in Edges : callable[i]
        /\ relay = "landExecute" => CanExecute(at) \/ Settled(at)

RelayInv ==
    /\ RelayTypeOK
    /\ ConsumedIsHeld
    /\ SettledEndsEarly
    /\ ReadsLast
    /\ EstimateHolds
    /\ AcceptedDoneIsSettled
=============================================================================
