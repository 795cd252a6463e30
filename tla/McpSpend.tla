------------------------------ MODULE McpSpend ------------------------------
(***************************************************************************)
(* The spending side of axe mcp (src/mcp, commands/intents): servers that      *)
(* share one data directory answer tool calls that send transactions.  A call   *)
(* reserves its transactions against the operator's caps, takes the machine's    *)
(* run slot, runs its flow and hands back what the flow says it did not send.     *)
(* The count of each server is in memory and written to one ledger file; a        *)
(* server reads the file when it starts.  Servers are killed, or leave when       *)
(* their client does, and ledger writes fail.                                  *)
(***************************************************************************)
EXTENDS Integers, FiniteSets, Functions

CONSTANTS
    Servers,        \* axe mcp processes on the machine
    Calls,          \* calls of a spending tool
    Amounts,        \* how many transactions a call may ask for
    MaxTxsPerRun,   \* --max-txs-per-run
    MaxTxsTotal,    \* --max-txs-total
    MaxInFlight,    \* deposits a stress run keeps in flight
    MaxStarts,      \* bound: how often servers are started
    MaxTroubles,    \* bound: failed ledger writes, failed legs and uncertain broadcasts
    Nobody, Unreadable

ASSUME SpendAssumption ==
    /\ IsFiniteSet(Calls)
    /\ Amounts \subseteq Nat
    /\ MaxTxsPerRun \in Nat
    /\ MaxTxsTotal \in Nat
    /\ MaxInFlight \in Nat
    /\ Nobody \notin Servers \cup Calls
    /\ Unreadable \notin Nat

VARIABLES
    server,      \* "up", "draining" once its client is gone, or "down"
    count,       \* SpendPolicy's count, in each server's memory
    ledger,      \* spend-ledger.json
    slot,        \* the call that holds the machine's lock file
    phase,       \* how far each call is
    home,        \* the server that answers it
    tool,        \* the tool it names
    amount,      \* what it reserves
    planned,     \* intents of the passes begun; a stress run's committed deposits
    left,        \* legs the current pass has yet to finish
    active,      \* deposits sent and not answered; a stress run's open tasks
    done,        \* what the flow counts: fulfilled legs, or broadcasts
    claim,       \* what a flow that returned says it sent
    sent,        \* the transactions of the call that reached a chain
    uncounted,   \* those of them its flow will not count
    starts, troubles, together

policyVars == <<count, ledger>>
requestVars == <<home, tool, amount>>
flowVars == <<planned, left, active, done, sent, uncounted>>
boundVars == <<starts, troubles, together>>
vars == <<server, policyVars, slot, phase, requestVars, flowVars, claim, boundVars>>

Planned == {"send", "roundtrip", "sweep"}
Intents == Planned \cup {"traffic", "stress"}
Tools == Intents \cup {"load", "express"}

Phases == {"idle", "reserved", "running", "returned", "ended", "refused", "left", "killed"}

TypeOK ==
    /\ server \in [Servers -> {"up", "draining", "down"}]
    /\ count \in [Servers -> Nat]
    /\ ledger \in Nat \cup {Unreadable}
    /\ slot \in Calls \cup {Nobody}
    /\ phase \in [Calls -> Phases]
    /\ home \in [Calls -> Servers \cup {Nobody}]
    /\ tool \in [Calls -> Tools \cup {"none"}]
    /\ amount \in [Calls -> Nat] /\ claim \in [Calls -> Nat]
    /\ planned \in [Calls -> Nat] /\ left \in [Calls -> Nat]
    /\ active \in [Calls -> Nat] /\ done \in [Calls -> Nat]
    /\ sent \in [Calls -> Nat] /\ uncounted \in [Calls -> Nat]
    /\ starts \in Nat
    /\ troubles \in Nat
    /\ together \in BOOLEAN

Init ==
    /\ server = [s \in Servers |-> "down"]
    /\ count = [s \in Servers |-> 0]
    /\ ledger = 0
    /\ slot = Nobody
    /\ phase = [c \in Calls |-> "idle"]
    /\ home = [c \in Calls |-> Nobody]
    /\ tool = [c \in Calls |-> "none"]
    /\ amount = [c \in Calls |-> 0]
    /\ planned = [c \in Calls |-> 0]
    /\ left = [c \in Calls |-> 0]
    /\ active = [c \in Calls |-> 0]
    /\ done = [c \in Calls |-> 0]
    /\ claim = [c \in Calls |-> 0]
    /\ sent = [c \in Calls |-> 0]
    /\ uncounted = [c \in Calls |-> 0]
    /\ starts = 0
    /\ troubles = 0
    /\ together = FALSE

\* The calls a server is answering, and the detached runs on its threads.
CallsOf(s) == {c \in Calls : home[c] = s /\ phase[c] \in {"reserved", "running", "returned"}}
running(s) == {c \in CallsOf(s) : phase[c] # "reserved" /\ tool[c] # "express"}
-----------------------------------------------------------------------------
(* Servers                                                                  *)

\* serve: the ledger is read once; one that cannot be read is an error.
serve(s) ==
    /\ server[s] = "down"
    /\ starts < MaxStarts
    /\ ledger # Unreadable
    /\ server' = [server EXCEPT ![s] = "up"]
    /\ count' = [count EXCEPT ![s] = ledger]
    /\ together' = (together \/ \E o \in Servers \ {s} : server[o] # "down")
    /\ starts' = starts + 1
    /\ UNCHANGED <<ledger, slot, phase, requestVars, flowVars, claim, troubles>>

\* The client closes the connection, or the transport fails.
Disconnect(s) ==
    /\ server[s] = "up"
    /\ server' = [server EXCEPT ![s] = "draining"]
    /\ UNCHANGED <<policyVars, slot, phase, requestVars, flowVars, claim, boundVars>>

\* The process goes away with the calls it was answering; the kernel frees its lock.
Gone(s, end) ==
    /\ server' = [server EXCEPT ![s] = "down"]
    /\ phase' = [c \in Calls |-> IF c \in CallsOf(s) THEN end ELSE phase[c]]
    /\ slot' = IF slot \in CallsOf(s) THEN Nobody ELSE slot
    /\ UNCHANGED <<count, requestVars, flowVars, claim, starts, together>>

\* Variant: the process exits with its client.
finish_in_flight_runs_AtOnce(s) ==
    /\ server[s] = "draining"
    /\ Gone(s, "left")
    /\ UNCHANGED <<ledger, troubles>>

\* finish_in_flight_runs: a server whose client left stays for its detached runs.
finish_in_flight_runs(s) ==
    /\ server[s] = "draining"
    /\ running(s) = {}
    /\ Gone(s, "left")
    /\ UNCHANGED <<ledger, troubles>>

\* The process is killed, possibly half way through a write of the ledger.
Killed(s) ==
    /\ server[s] # "down"
    /\ Gone(s, "killed")
    /\ \/ UNCHANGED <<ledger, troubles>>
       \/ /\ troubles < MaxTroubles
          /\ ledger' = Unreadable
          /\ troubles' = troubles + 1
-----------------------------------------------------------------------------
(* The spend policy                                                         *)

\* write_ledger fails before or after it has truncated the file.
WriteFails ==
    /\ troubles < MaxTroubles
    /\ troubles' = troubles + 1
    /\ ledger' \in {ledger, Unreadable}

\* reserve: the caps are checked and the count is written, under one lock.
reserve(s, c, t, n) ==
    /\ server[s] = "up"
    /\ phase[c] = "idle"
    /\ n <= MaxTxsPerRun
    /\ count[s] + n <= MaxTxsTotal
    /\ \/ /\ ledger' = count[s] + n
          /\ count' = [count EXCEPT ![s] = @ + n]
          /\ phase' = [phase EXCEPT ![c] = "reserved"]
          /\ UNCHANGED troubles
       \/ /\ WriteFails
          /\ phase' = [phase EXCEPT ![c] = "refused"]
          /\ UNCHANGED count
    /\ home' = [home EXCEPT ![c] = s]
    /\ tool' = [tool EXCEPT ![c] = t]
    /\ amount' = [amount EXCEPT ![c] = n]
    /\ UNCHANGED <<server, slot, flowVars, claim, starts, together>>

saturating_sub(a, b) == IF b <= a THEN a - b ELSE 0

\* release: a count that cannot be written back stays too high in the file.
release(s, n) ==
    LET rest == saturating_sub(count[s], n)
    IN  /\ count' = [count EXCEPT ![s] = rest]
        /\ \/ ledger' = rest /\ UNCHANGED troubles
           \/ WriteFails
-----------------------------------------------------------------------------
(* Tool calls                                                               *)

\* What a call of each tool reserves: a transfer and an intent are one, a round
\* trip two, the others what the caller says.
Requests(t) ==
    CASE t \in {"express", "send"} -> {1}
      [] t = "roundtrip" -> {2}
      [] OTHER -> Amounts \ {0}

call(s, c) == \E t \in Tools : \E n \in Requests(t) : reserve(s, c, t, n)

\* The run is not admitted: its arguments cannot be prepared, a run is in flight
\* here, or the slot is taken.  The reservation is released.
refuse(c) ==
    /\ phase[c] = "reserved"
    /\ phase' = [phase EXCEPT ![c] = "refused"]
    /\ release(home[c], amount[c])
    /\ UNCHANGED <<server, slot, requestVars, flowVars, claim, starts, together>>

\* Variant: only this server's own runs are looked at.
start_Unlocked(c) ==
    /\ phase[c] = "reserved"
    /\ running(home[c]) = {}
    /\ slot' = c
    /\ phase' = [phase EXCEPT ![c] = "running"]
    /\ UNCHANGED <<server, policyVars, requestVars, flowVars, claim, boundVars>>

\* start and claim_slot: nothing in flight here, and the lock file is free.
start(c) ==
    /\ phase[c] = "reserved"
    /\ running(home[c]) = {}
    /\ slot = Nobody
    /\ slot' = c
    /\ phase' = [phase EXCEPT ![c] = "running"]
    /\ UNCHANGED <<server, policyVars, requestVars, flowVars, claim, boundVars>>

\* A load test or an express transfer ends.  Its reservation stays spent.
end_unrefunded(c) ==
    /\ phase[c] = "running"
    /\ tool[c] \notin Intents
    /\ phase' = [phase EXCEPT ![c] = "ended"]
    /\ slot' = Nobody
    /\ UNCHANGED <<server, policyVars, requestVars, flowVars, claim, boundVars>>

\* The thread of an intent run hands back what its flow says it did not send, and ends.
refund(c) ==
    /\ phase[c] = "returned"
    /\ release(home[c], saturating_sub(amount[c], claim[c]))
    /\ phase' = [phase EXCEPT ![c] = "ended"]
    /\ slot' = Nobody
    /\ UNCHANGED <<server, requestVars, flowVars, claim, starts, together>>
-----------------------------------------------------------------------------
(* The flows                                                                *)

\* The flow returns, and its run takes n for what it sent.
Returns(c, n) ==
    /\ phase[c] = "running"
    /\ claim' = [claim EXCEPT ![c] = n]
    /\ phase' = [phase EXCEPT ![c] = "returned"]
    /\ UNCHANGED <<server, policyVars, slot, requestVars, flowVars, boundVars>>

\* A load test submits one of its num_txs (build_load_test_args asks for a burst of
\* that many, RunSizing), an express transfer its only one.
submit(c) ==
    /\ phase[c] = "running"
    /\ tool[c] \notin Intents
    /\ sent[c] < amount[c]
    /\ sent' = [sent EXCEPT ![c] = @ + 1]
    /\ UNCHANGED <<server, policyVars, slot, phase, requestVars, claim, boundVars,
                   planned, left, active, done, uncounted>>

\* A pass of n intents is planned and begun.
Begin(c, n) ==
    /\ phase[c] = "running"
    /\ left[c] = 0
    /\ planned' = [planned EXCEPT ![c] = @ + n]
    /\ left' = [left EXCEPT ![c] = n]
    /\ UNCHANGED <<server, policyVars, slot, phase, requestVars, claim, boundVars,
                   active, done, sent, uncounted>>

\* send and roundtrip execute the one route they plan.
plan_route(c) ==
    /\ tool[c] \in {"send", "roundtrip"}
    /\ planned[c] = 0
    /\ Begin(c, amount[c])

\* Variant: the pass that is about to begin is not counted.
would_exceed_Late(c, n) == planned[c] >= amount[c]

\* would_exceed: whether one more pass would take a capped sweep past its cap.
would_exceed(c, n) == planned[c] + n > amount[c]

\* sweep: a pass over every route that is funded and quoted, or none of it.
plan_sweep(c) ==
    /\ tool[c] = "sweep"
    /\ \E trips \in 1 .. amount[c] : ~would_exceed(c, 2 * trips) /\ Begin(c, 2 * trips)

\* reached: traffic starts no round trip that it could not finish within its limit.
reached(c) == done[c] + 2 > amount[c]

\* run_cycle: the next round trip of a traffic run.
run_cycle(c) ==
    /\ tool[c] = "traffic"
    /\ ~reached(c)
    /\ Begin(c, 2)

\* submit_selected_leg: the deposit of a leg is sent.
submit_leg(c) ==
    /\ phase[c] = "running"
    /\ left[c] > 0
    /\ active[c] = 0
    /\ active' = [active EXCEPT ![c] = 1]
    /\ sent' = [sent EXCEPT ![c] = @ + 1]
    /\ UNCHANGED <<server, policyVars, slot, phase, requestVars, claim, boundVars,
                   planned, left, done, uncounted>>

\* finish_submitted_intent: the solver fulfils the intent, and the leg is a result.
finish_leg(c) ==
    /\ phase[c] = "running"
    /\ left[c] > 0
    /\ active[c] = 1
    /\ active' = [active EXCEPT ![c] = 0]
    /\ left' = [left EXCEPT ![c] = @ - 1]
    /\ done' = [done EXCEPT ![c] = @ + 1]
    /\ UNCHANGED <<server, policyVars, slot, phase, requestVars, claim, boundVars,
                   planned, sent, uncounted>>

\* A leg of a traffic run fails: quote, deposit or fulfilment.  The run goes on, and
\* a deposit that was made is not among its results.
traffic_leg_fails(c) ==
    /\ phase[c] = "running"
    /\ tool[c] = "traffic"
    /\ left[c] > 0
    /\ troubles < MaxTroubles
    /\ troubles' = troubles + 1
    /\ uncounted' = [uncounted EXCEPT ![c] = @ + active[c]]
    /\ left' = [left EXCEPT ![c] = 0]
    /\ active' = [active EXCEPT ![c] = 0]
    /\ UNCHANGED <<server, policyVars, slot, phase, requestVars, claim, starts, together,
                   planned, done, sent>>

\* Every route of the pass is done (or, in a sweep, the operator interrupted it between
\* two round trips; traffic reached a limit): the flow counts its results.
flow_completes(c) ==
    /\ tool[c] \in Planned \cup {"traffic"}
    /\ left[c] % 2 = 0 /\ active[c] = 0
    /\ tool[c] \in {"send", "roundtrip"} => planned[c] > 0
    /\ tool[c] # "sweep" => left[c] = 0
    /\ Returns(c, done[c])

\* Variant: a flow that failed claims the legs it completed.
flow_fails_ClaimsResults(c) ==
    /\ tool[c] \in Intents
    /\ tool[c] \in {"traffic", "stress"} => planned[c] = 0 /\ active[c] = 0
    /\ Returns(c, done[c])

\* The flow returns an error and claims its whole reservation.  Traffic and stress
\* runs do that only before they send anything.
flow_fails(c) ==
    /\ tool[c] \in Intents
    /\ tool[c] \in {"traffic", "stress"} => planned[c] = 0 /\ active[c] = 0
    /\ Returns(c, amount[c])

\* admit_deposits: committed deposits, open tasks and the new one stay within the cap.
admit_deposit(c) ==
    /\ phase[c] = "running"
    /\ tool[c] = "stress"
    /\ active[c] < MaxInFlight
    /\ planned[c] + active[c] + 1 <= amount[c]
    /\ active' = [active EXCEPT ![c] = @ + 1]
    /\ UNCHANGED <<server, policyVars, slot, phase, requestVars, claim, boundVars,
                   planned, left, done, sent, uncounted>>

\* A deposit task ends without a broadcast, and frees its place.
skip_deposit(c) ==
    /\ phase[c] = "running"
    /\ tool[c] = "stress"
    /\ active[c] > 0
    /\ active' = [active EXCEPT ![c] = @ - 1]
    /\ UNCHANGED <<server, policyVars, slot, phase, requestVars, claim, boundVars,
                   planned, left, done, sent, uncounted>>

\* A deposit is broadcast, and confirmed or not: it is committed.  A broadcast that
\* failed may have reached the chain all the same; it is not among the broadcasts.
complete_deposit(c) ==
    /\ phase[c] = "running"
    /\ tool[c] = "stress"
    /\ active[c] > 0
    /\ active' = [active EXCEPT ![c] = @ - 1]
    /\ planned' = [planned EXCEPT ![c] = @ + 1]
    /\ \/ /\ sent' = [sent EXCEPT ![c] = @ + 1]
          /\ done' = [done EXCEPT ![c] = @ + 1]
          /\ UNCHANGED <<uncounted, troubles>>
       \/ /\ troubles < MaxTroubles
          /\ troubles' = troubles + 1
          /\ \E landed \in {0, 1} :
                /\ sent' = [sent EXCEPT ![c] = @ + landed]
                /\ uncounted' = [uncounted EXCEPT ![c] = @ + landed]
          /\ UNCHANGED done
    /\ UNCHANGED <<server, policyVars, slot, phase, requestVars, claim, starts, together, left>>

\* A stress run stops and its tasks have drained: it claims what it broadcast.
stress_ends(c) ==
    /\ tool[c] = "stress"
    /\ active[c] = 0
    /\ Returns(c, done[c])
-----------------------------------------------------------------------------
Server(s) ==
    serve(s) \/ Disconnect(s) \/ finish_in_flight_runs(s) \/ Killed(s)
        \/ \E c \in Calls : call(s, c)

Flow(c) ==
    \/ submit(c)
    \/ plan_route(c) \/ plan_sweep(c) \/ run_cycle(c)
    \/ submit_leg(c) \/ finish_leg(c) \/ traffic_leg_fails(c)
    \/ flow_completes(c) \/ flow_fails(c)
    \/ admit_deposit(c) \/ skip_deposit(c) \/ complete_deposit(c) \/ stress_ends(c)

Call(c) == refuse(c) \/ start(c) \/ end_unrefunded(c) \/ refund(c) \/ Flow(c)

Next == (\E s \in Servers : Server(s)) \/ (\E c \in Calls : Call(c))

Spec == Init /\ [][Next]_vars
-----------------------------------------------------------------------------
(* Properties                                                               *)

\* One flow spends at a time on the machine, whichever server runs it and whether it
\* detached (start) or blocks its request (claim_slot): the wallets are shared.
OneSpender ==
    \A c, d \in Calls : {phase[c], phase[d]} \subseteq {"running", "returned"} => c = d

\* A run sends no more than it reserved (max_intents, num_txs).  The exception is
\* a traffic run's deposits that were not fulfilled: run_cycle counts results only.
CapHolds ==
    \A c \in Calls :
        sent[c] <= amount[c] + (IF tool[c] = "traffic" THEN uncounted[c] ELSE 0)

\* Over restarts, crashes, refunds and failed writes, the operator's lifetime budget
\* covers what was sent, but for the deposits the flows did not count (reserve,
\* release), as long as no two servers were up at once.
BudgetHolds == ~together => SumFunction(sent) <= MaxTxsTotal + SumFunction(uncounted)

\* A server that exits of its own accord abandons no detached run that has sent
\* something: finish_in_flight_runs waits for it.  Only a kill loses one.
ExitKeepsRuns ==
    \A c \in Calls : phase[c] = "left" /\ tool[c] # "express" => sent[c] = 0
=============================================================================
