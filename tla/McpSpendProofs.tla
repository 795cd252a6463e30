--------------------------- MODULE McpSpendProofs ---------------------------
(***************************************************************************)
(* Proofs about McpSpend, for any servers, caps and amounts and any finite     *)
(* set of calls: one flow spends at a time and no more than it reserved, no      *)
(* detached run is abandoned, and the lifetime budget holds.                   *)
(***************************************************************************)
EXTENDS McpSpend, FunctionSums

\* The context of these obligations is long: more time than the default for all of them.
USE SMTT(30), ZenonT(30)

\* A call that is being answered has a server.
Homed == \A c \in Calls : phase[c] # "idle" => home[c] \in Servers

\* A call whose flow has begun holds the machine's slot.
SlotHeld == \A c \in Calls : phase[c] \in {"running", "returned"} => slot = c

\* A call whose flow has not begun has sent nothing.
Untouched(c) ==
    phase[c] \in {"idle", "reserved", "refused"} =>
        /\ sent[c] = 0 /\ planned[c] = 0 /\ left[c] = 0
        /\ active[c] = 0 /\ done[c] = 0 /\ uncounted[c] = 0

\* How the counters of each kind of flow stand to its reservation.
Counted(c) ==
    /\ tool[c] \notin Intents => sent[c] <= amount[c] /\ left[c] = 0
    /\ tool[c] \in Planned =>
         /\ sent[c] + left[c] = planned[c] + active[c]
         /\ planned[c] <= amount[c]
         /\ active[c] <= left[c]
    /\ tool[c] = "traffic" =>
         /\ done[c] + left[c] <= amount[c]
         /\ active[c] <= left[c]
         /\ sent[c] = done[c] + active[c] + uncounted[c]
    /\ tool[c] = "stress" =>
         /\ left[c] = 0
         /\ sent[c] <= planned[c]
         /\ planned[c] + active[c] <= amount[c]

FlowInv == \A c \in Calls : Untouched(c) /\ Counted(c)

Inv == TypeOK /\ Homed /\ SlotHeld /\ FlowInv /\ ExitKeepsRuns

\* What the policy keeps charged for a call: its reservation, until a refused run's is
\* released, or an intent run's is cut to its claim.
Charge(c) ==
    CASE phase[c] \in {"idle", "refused"} -> 0
      [] phase[c] = "ended" /\ tool[c] \in Intents ->
            amount[c] - saturating_sub(amount[c], claim[c])
      [] OTHER -> amount[c]

Charges == [c \in Calls |-> Charge(c)]
Charged == SumFunctionOnSet(Charges, Calls)

\* A server answers calls only while it is there, and without a second one.
Alone ==
    /\ \A c \in Calls : phase[c] \in {"reserved", "running", "returned"} =>
                            server[home[c]] # "down"
    /\ ~together => \A s, o \in Servers : server[s] # "down" /\ server[o] # "down" => s = o

\* What a flow counts, and what it claims when it returns, covers all that it sent
\* but the deposits it does not count.
Claimed(c) ==
    /\ tool[c] \in Planned => sent[c] = done[c] + active[c] + uncounted[c]
    /\ tool[c] = "stress" => sent[c] = done[c] + uncounted[c]
    /\ phase[c] = "returned" => tool[c] \in Intents
    /\ phase[c] \in {"returned", "ended"} /\ tool[c] \in Intents =>
         sent[c] <= claim[c] + uncounted[c]

\* A lone server's count, the ledger and the operator's budget cover what is charged.
Covered ==
    ~together =>
        /\ Charged <= MaxTxsTotal
        /\ ledger # Unreadable => Charged <= ledger
        /\ \A s \in Servers : server[s] # "down" => Charged <= count[s]

BudgetInv == Alone /\ (\A c \in Calls : Claimed(c)) /\ Covered
-----------------------------------------------------------------------------
\* What a tool reserves is a number of transactions.
LEMMA RequestsAreNat == ASSUME NEW t \in Tools PROVE Requests(t) \subseteq Nat
  BY SpendAssumption DEF Requests, Tools, Intents, Planned

\* saturating_sub stays in the unsigned integers.
LEMMA SaturatingSub == ASSUME NEW a \in Nat, NEW b \in Nat PROVE saturating_sub(a, b) \in Nat
  BY DEF saturating_sub

\* Sums of transactions.
LEMMA PlusNone == ASSUME NEW a \in Nat PROVE a + 0 = a
  OBVIOUS

LEMMA PlusSame ==
  ASSUME NEW a \in Nat, NEW b \in Nat, NEW n \in Nat, a <= b
  PROVE  a + n <= b + n
  OBVIOUS

\* A call none of whose fields change is charged, and claims, what it did.
LEMMA ChargeKept ==
  ASSUME NEW d, phase'[d] = phase[d], tool'[d] = tool[d], amount'[d] = amount[d],
         claim'[d] = claim[d]
  PROVE  Charge(d)' = Charge(d)
  BY DEF Charge, saturating_sub

LEMMA ClaimedKept ==
  ASSUME NEW d, Claimed(d), phase'[d] = phase[d], tool'[d] = tool[d], claim'[d] = claim[d],
         sent'[d] = sent[d], done'[d] = done[d], active'[d] = active[d],
         uncounted'[d] = uncounted[d]
  PROVE  Claimed(d)'
  BY DEF Claimed

\* No server is up and no call is made at the start.
LEMMA InitInv == Init => Inv
<1> SUFFICES ASSUME Init PROVE Inv
  OBVIOUS
<1>1. TypeOK
  BY ZenonT(30) DEF Init, TypeOK, Phases
<1>2. Homed /\ SlotHeld /\ ExitKeepsRuns
  BY DEF Init, Homed, SlotHeld, ExitKeepsRuns
<1>3. FlowInv
  BY DEF Init, FlowInv, Untouched, Counted, Intents, Planned
<1> QED
  BY <1>1, <1>2, <1>3 DEF Inv
-----------------------------------------------------------------------------
(* Types                                                                    *)

\* A ledger write that fails leaves a ledger that holds a number or cannot be read.
LEMMA WriteFailsType == ASSUME TypeOK, WriteFails
                        PROVE  ledger' \in Nat \cup {Unreadable} /\ troubles' \in Nat
  BY DEF TypeOK, WriteFails

\* Releasing a reservation keeps the counts and the ledger numbers.
LEMMA ReleaseType == ASSUME TypeOK, NEW s \in Servers, NEW n \in Nat, release(s, n)
                     PROVE  /\ count' \in [Servers -> Nat]
                            /\ ledger' \in Nat \cup {Unreadable}
                            /\ troubles' \in Nat
<1>1. saturating_sub(count[s], n) \in Nat
  BY SaturatingSub DEF TypeOK
<1> QED
  BY <1>1, WriteFailsType DEF TypeOK, release

\* A server's steps keep the types.
LEMMA ServerType == ASSUME TypeOK, NEW s \in Servers, Server(s) PROVE TypeOK' /\ (Homed => Homed')
<1>1. CASE serve(s)
  BY <1>1 DEF serve, TypeOK, Homed, requestVars, flowVars
<1>2. CASE Disconnect(s)
  BY <1>2 DEF Disconnect, TypeOK, Homed, policyVars, requestVars, flowVars, boundVars
<1>3. CASE finish_in_flight_runs(s)
  BY <1>3 DEF finish_in_flight_runs, Gone, CallsOf, TypeOK, Homed, Phases, requestVars, flowVars
<1>4. CASE Killed(s)
  BY <1>4 DEF Killed, Gone, CallsOf, TypeOK, Homed, Phases, requestVars, flowVars
<1>5. ASSUME NEW c \in Calls, call(s, c) PROVE TypeOK' /\ (Homed => Homed')
  <2>1. PICK t \in Tools, n \in Nat : reserve(s, c, t, n)
    BY <1>5, RequestsAreNat DEF call
  <2>2. ledger' \in Nat \cup {Unreadable} /\ troubles' \in Nat
    BY <2>1, WriteFailsType DEF reserve, TypeOK
  <2>3. count' \in [Servers -> Nat]
    BY <2>1 DEF reserve, TypeOK
  <2>4. home' \in [Calls -> Servers \cup {Nobody}] /\ tool' \in [Calls -> Tools \cup {"none"}]
    BY <2>1 DEF reserve, TypeOK
  <2>5. amount' \in [Calls -> Nat] /\ phase' \in [Calls -> Phases]
    BY <2>1 DEF reserve, TypeOK, Phases
  <2>6. TypeOK'
    BY <2>1, <2>2, <2>3, <2>4, <2>5 DEF reserve, TypeOK, flowVars
  <2>7. Homed => Homed'
    BY <2>1, ZenonT(30) DEF reserve, TypeOK, Homed
  <2> QED
    BY <2>6, <2>7
<1> QED
  BY <1>1, <1>2, <1>3, <1>4, <1>5 DEF Server

\* A flow's steps keep the types.
LEMMA FlowType == ASSUME TypeOK, NEW c \in Calls, Flow(c) PROVE TypeOK'
<1> USE DEF TypeOK, Phases, policyVars, requestVars, boundVars
<1>1. CASE submit(c)
  BY <1>1 DEF submit
<1>2. ASSUME NEW n \in Nat, Begin(c, n) PROVE TypeOK'
  BY <1>2 DEF Begin
<1>3. CASE plan_route(c)
  BY <1>2, <1>3 DEF plan_route
<1>4. CASE plan_sweep(c)
  <2>1. PICK trips \in 1 .. amount[c] : Begin(c, 2 * trips)
    BY <1>4 DEF plan_sweep
  <2> QED
    BY <1>2, <2>1
<1>5. CASE run_cycle(c)
  BY <1>2, <1>5 DEF run_cycle
<1>6. CASE submit_leg(c)
  BY <1>6 DEF submit_leg
<1>7. CASE finish_leg(c)
  BY <1>7 DEF finish_leg
<1>8. CASE traffic_leg_fails(c)
  BY <1>8 DEF traffic_leg_fails
<1>9. ASSUME NEW n \in Nat, Returns(c, n) PROVE TypeOK'
  BY <1>9 DEF Returns, flowVars
<1>10. CASE flow_completes(c) \/ flow_fails(c) \/ stress_ends(c)
  BY <1>9, <1>10 DEF flow_completes, flow_fails, stress_ends
<1>11. CASE admit_deposit(c)
  BY <1>11 DEF admit_deposit
<1>12. CASE skip_deposit(c)
  BY <1>12 DEF skip_deposit
<1>13. CASE complete_deposit(c)
  BY <1>13 DEF complete_deposit
<1> QED
  BY <1>1, <1>3, <1>4, <1>5, <1>6, <1>7, <1>8, <1>10, <1>11, <1>12, <1>13, ZenonT(30) DEF Flow

\* A step of a flow is a step of a call that runs, which goes on or returns; it
\* changes nothing of any other call.
LEMMA FlowFrame ==
  ASSUME TypeOK, NEW c \in Calls, Flow(c)
  PROVE  /\ phase[c] = "running" /\ phase'[c] \in {"running", "returned"}
         /\ \A d \in Calls \ {c} : phase'[d] = phase[d]
         /\ \A d \in Calls : phase'[d] = "idle" <=> phase[d] = "idle"
         /\ slot' = slot /\ home' = home /\ tool' = tool /\ amount' = amount
         /\ \A d \in Calls \ {c} :
               /\ planned'[d] = planned[d] /\ left'[d] = left[d] /\ active'[d] = active[d]
               /\ done'[d] = done[d] /\ sent'[d] = sent[d] /\ uncounted'[d] = uncounted[d]
<1> USE DEF TypeOK, requestVars
<1>1. CASE submit(c)
  BY <1>1 DEF submit
<1>2. CASE plan_route(c) \/ plan_sweep(c) \/ run_cycle(c)
  BY <1>2 DEF plan_route, plan_sweep, run_cycle, Begin
<1>3. CASE submit_leg(c) \/ finish_leg(c)
  BY <1>3 DEF submit_leg, finish_leg
<1>4. CASE traffic_leg_fails(c)
  BY <1>4 DEF traffic_leg_fails
<1>5. CASE flow_completes(c) \/ flow_fails(c) \/ stress_ends(c)
  BY <1>5 DEF flow_completes, flow_fails, stress_ends, Returns, flowVars
<1>6. CASE admit_deposit(c) \/ skip_deposit(c)
  BY <1>6 DEF admit_deposit, skip_deposit
<1>7. CASE complete_deposit(c)
  BY <1>7 DEF complete_deposit
<1> QED
  BY <1>1, <1>2, <1>3, <1>4, <1>5, <1>6, <1>7, ZenonT(30) DEF Flow

\* A call's steps keep the types and its server.
LEMMA CallType == ASSUME TypeOK, Homed, NEW c \in Calls, Call(c) PROVE TypeOK' /\ Homed'
<1>1. CASE refuse(c)
  <2>1. home[c] \in Servers /\ amount[c] \in Nat
    BY <1>1 DEF refuse, Homed, TypeOK
  <2>2. release(home[c], amount[c])
    BY <1>1 DEF refuse
  <2>3. count' \in [Servers -> Nat] /\ ledger' \in Nat \cup {Unreadable} /\ troubles' \in Nat
    BY <2>1, <2>2, ReleaseType
  <2> QED
    BY <1>1, <2>1, <2>3 DEF refuse, TypeOK, Homed, Phases, requestVars, flowVars
<1>2. CASE start(c)
  BY <1>2 DEF start, TypeOK, Homed, Phases, policyVars, requestVars, flowVars, boundVars
<1>3. CASE end_unrefunded(c)
  BY <1>3 DEF end_unrefunded, TypeOK, Homed, Phases, policyVars, requestVars, flowVars, boundVars
<1>4. CASE refund(c)
  <2>1. home[c] \in Servers /\ saturating_sub(amount[c], claim[c]) \in Nat
    BY <1>4, SaturatingSub DEF refund, Homed, TypeOK
  <2>2. release(home[c], saturating_sub(amount[c], claim[c]))
    BY <1>4 DEF refund
  <2>3. count' \in [Servers -> Nat] /\ ledger' \in Nat \cup {Unreadable} /\ troubles' \in Nat
    BY <2>1, <2>2, ReleaseType
  <2> QED
    BY <1>4, <2>1, <2>3 DEF refund, TypeOK, Homed, Phases, requestVars, flowVars
<1>5. CASE Flow(c)
  <2>1. TypeOK'
    BY <1>5, FlowType
  <2>2. home' = home /\ (\A d \in Calls : phase'[d] = "idle" <=> phase[d] = "idle")
    BY <1>5, FlowFrame
  <2> QED
    BY <2>1, <2>2 DEF Homed
<1> QED
  BY <1>1, <1>2, <1>3, <1>4, <1>5 DEF Call
-----------------------------------------------------------------------------
(* Exclusion                                                                *)

\* A server that starts, drains or dies takes the slot from no flow that goes on.
LEMMA ServerSlot == ASSUME TypeOK, SlotHeld, NEW s \in Servers, Server(s) PROVE SlotHeld'
<1>1. CASE serve(s) \/ Disconnect(s)
  BY <1>1 DEF serve, Disconnect, SlotHeld
<1>2. ASSUME NEW end \in {"left", "killed"}, Gone(s, end) PROVE SlotHeld'
  BY <1>2 DEF Gone, SlotHeld, TypeOK
<1>3. CASE finish_in_flight_runs(s) \/ Killed(s)
  BY <1>2, <1>3 DEF finish_in_flight_runs, Killed
<1>4. ASSUME NEW c \in Calls, call(s, c) PROVE SlotHeld'
  BY <1>4 DEF call, reserve, SlotHeld, TypeOK
<1> QED
  BY <1>1, <1>3, <1>4 DEF Server

\* A flow begins with the slot and keeps it until it returns.
LEMMA CallSlot == ASSUME TypeOK, SlotHeld, NEW c \in Calls, Call(c) PROVE SlotHeld'
<1>1. CASE refuse(c)
  BY <1>1 DEF refuse, SlotHeld, TypeOK
<1>2. CASE start(c)
  BY <1>2, SpendAssumption DEF start, SlotHeld, TypeOK
<1>3. CASE end_unrefunded(c)
  BY <1>3 DEF end_unrefunded, SlotHeld, TypeOK
<1>4. CASE refund(c)
  BY <1>4 DEF refund, SlotHeld, TypeOK
<1>5. CASE Flow(c)
  BY <1>5, FlowFrame, ZenonT(30) DEF SlotHeld
<1> QED
  BY <1>1, <1>2, <1>3, <1>4, <1>5 DEF Call
-----------------------------------------------------------------------------
(* Reservations                                                             *)

\* What servers do leaves the counters of the flows in order.
LEMMA ServerFlow == ASSUME TypeOK, FlowInv, NEW s \in Servers, Server(s) PROVE FlowInv'
<1>1. CASE serve(s) \/ Disconnect(s)
  BY <1>1 DEF serve, Disconnect, FlowInv, Untouched, Counted, requestVars, flowVars
<1>2. ASSUME NEW end \in {"left", "killed"}, Gone(s, end) PROVE FlowInv'
  BY <1>2 DEF Gone, FlowInv, Untouched, Counted, TypeOK, requestVars, flowVars
<1>3. CASE finish_in_flight_runs(s) \/ Killed(s)
  BY <1>2, <1>3 DEF finish_in_flight_runs, Killed
<1>4. ASSUME NEW c \in Calls, call(s, c) PROVE FlowInv'
  <2>1. PICK t \in Tools, n \in Nat : reserve(s, c, t, n)
    BY <1>4, RequestsAreNat DEF call
  <2>2. Untouched(c)' /\ Counted(c)'
    BY <2>1 DEF reserve, FlowInv, Untouched, Counted, TypeOK, flowVars
  <2>3. ASSUME NEW d \in Calls \ {c} PROVE Untouched(d)' /\ Counted(d)'
    BY <2>1, <2>3, ZenonT(30) DEF reserve, FlowInv, Untouched, Counted, TypeOK, flowVars
  <2> QED
    BY <2>2, <2>3 DEF FlowInv
<1> QED
  BY <1>1, <1>3, <1>4 DEF Server

\* The heart of the argument: every step of a flow keeps its counters in order.
LEMMA FlowCounted == ASSUME TypeOK, FlowInv, NEW c \in Calls, Flow(c) PROVE Counted(c)'
<1>0. Counted(c)
  BY DEF FlowInv
<1> USE <1>0 DEF TypeOK, Counted, Intents, Planned, requestVars
<1>1. CASE submit(c)
  BY <1>1 DEF submit
<1>2. CASE plan_route(c)
  BY <1>2 DEF plan_route, Begin
<1>3. CASE plan_sweep(c)
  BY <1>3 DEF plan_sweep, would_exceed, Begin
<1>4. CASE run_cycle(c)
  BY <1>4 DEF run_cycle, reached, Begin
<1>5. CASE submit_leg(c)
  BY <1>5 DEF submit_leg
<1>6. CASE finish_leg(c)
  BY <1>6 DEF finish_leg
<1>7. CASE traffic_leg_fails(c)
  BY <1>7 DEF traffic_leg_fails
<1>8. CASE flow_completes(c) \/ flow_fails(c) \/ stress_ends(c)
  BY <1>8 DEF flow_completes, flow_fails, stress_ends, Returns, flowVars
<1>9. CASE admit_deposit(c)
  BY <1>9 DEF admit_deposit
<1>10. CASE skip_deposit(c)
  BY <1>10 DEF skip_deposit
<1>11. CASE complete_deposit(c)
  BY <1>11 DEF complete_deposit
<1> QED
  BY <1>1, <1>2, <1>3, <1>4, <1>5, <1>6, <1>7, <1>8, <1>9, <1>10, <1>11, ZenonT(30) DEF Flow

\* What calls do leaves the counters of the flows in order.
LEMMA CallFlow == ASSUME TypeOK, FlowInv, NEW c \in Calls, Call(c) PROVE FlowInv'
<1>1. CASE refuse(c)
  BY <1>1, ZenonT(30) DEF refuse, FlowInv, Untouched, Counted, TypeOK, requestVars, flowVars
<1>2. CASE start(c) \/ end_unrefunded(c)
  BY <1>2 DEF start, end_unrefunded, FlowInv, Untouched, Counted, TypeOK, requestVars, flowVars
<1>3. CASE refund(c)
  BY <1>3 DEF refund, FlowInv, Untouched, Counted, TypeOK, requestVars, flowVars
<1>4. CASE Flow(c)
  <2>1. Untouched(c)' /\ Counted(c)'
    BY <1>4, FlowCounted, FlowFrame, ZenonT(30) DEF Untouched
  <2>2. ASSUME NEW d \in Calls \ {c} PROVE Untouched(d)' /\ Counted(d)'
    BY <1>4, <2>2, FlowFrame DEF FlowInv, Untouched, Counted
  <2> QED
    BY <2>1, <2>2 DEF FlowInv
<1> QED
  BY <1>1, <1>2, <1>3, <1>4, ZenonT(30) DEF Call
-----------------------------------------------------------------------------
(* Leaving                                                                  *)

\* A server leaves no detached run behind that has sent something.
LEMMA ServerExit == ASSUME TypeOK, FlowInv, ExitKeepsRuns, NEW s \in Servers, Server(s)
                    PROVE  ExitKeepsRuns'
<1>1. CASE serve(s) \/ Disconnect(s)
  BY <1>1, ZenonT(30) DEF serve, Disconnect, ExitKeepsRuns, requestVars, flowVars
<1>2. CASE finish_in_flight_runs(s)
  BY <1>2 DEF finish_in_flight_runs, Gone, CallsOf, running, ExitKeepsRuns, FlowInv, Untouched,
              TypeOK, requestVars, flowVars
<1>3. CASE Killed(s)
  BY <1>3 DEF Killed, Gone, ExitKeepsRuns, TypeOK, requestVars, flowVars
<1>4. ASSUME NEW c \in Calls, call(s, c) PROVE ExitKeepsRuns'
  BY <1>4 DEF call, reserve, ExitKeepsRuns, TypeOK, flowVars
<1> QED
  BY <1>1, <1>2, <1>3, <1>4, ZenonT(30) DEF Server

\* A call that was left behind sends nothing more.
LEMMA CallExit == ASSUME TypeOK, ExitKeepsRuns, NEW c \in Calls, Call(c) PROVE ExitKeepsRuns'
<1>1. CASE refuse(c) \/ start(c) \/ end_unrefunded(c) \/ refund(c)
  BY <1>1, ZenonT(30) DEF refuse, start, end_unrefunded, refund, ExitKeepsRuns, TypeOK, requestVars, flowVars
<1>2. CASE Flow(c)
  BY <1>2, FlowFrame, ZenonT(30) DEF ExitKeepsRuns
<1> QED
  BY <1>1, <1>2 DEF Call
-----------------------------------------------------------------------------
\* Every step keeps the invariant.
LEMMA NextInv == Inv /\ [Next]_vars => Inv'
<1> SUFFICES ASSUME Inv, [Next]_vars PROVE Inv'
  OBVIOUS
<1> USE DEF Inv
<1>1. ASSUME NEW s \in Servers, Server(s) PROVE Inv'
  BY <1>1, ServerType, ServerSlot, ServerFlow, ServerExit
<1>2. ASSUME NEW c \in Calls, Call(c) PROVE Inv'
  BY <1>2, CallType, CallSlot, CallFlow, CallExit, ZenonT(30)
<1>3. CASE UNCHANGED vars
  BY <1>3 DEF vars, policyVars, requestVars, flowVars, boundVars, TypeOK, Homed, SlotHeld,
              FlowInv, Untouched, Counted, ExitKeepsRuns
<1> QED
  BY <1>1, <1>2, <1>3 DEF Next

\* The inductive invariant holds in every reachable state.
THEOREM Invariance == Spec => []Inv
  BY InitInv, NextInv, PTL DEF Spec

\* Every variable of the servers, the ledger and the calls keeps its type; in
\* particular no count is taken below zero by a release.
THEOREM TypeCorrect == Spec => []TypeOK
<1>1. Inv => TypeOK
  BY DEF Inv
<1> QED
  BY <1>1, Invariance, PTL

\* The lock file lets one flow spend at a time, for any servers and calls.
THEOREM Exclusive == Spec => []OneSpender
<1>1. Inv => OneSpender
  BY DEF Inv, SlotHeld, OneSpender
<1> QED
  BY <1>1, Invariance, PTL

\* For any caps and amounts, a run sends no more than it reserved, but for the
\* deposits a traffic run does not count.
THEOREM WithinReservation == Spec => []CapHolds
<1>1. Inv => CapHolds
  BY DEF Inv, FlowInv, Counted, CapHolds, TypeOK, Tools, Intents, Planned
<1> QED
  BY <1>1, Invariance, PTL

\* A server that leaves by itself abandons no detached run that has sent something.
THEOREM DrainedExit == Spec => []ExitKeepsRuns
<1>1. Inv => ExitKeepsRuns
  BY DEF Inv
<1> QED
  BY <1>1, Invariance, PTL
-----------------------------------------------------------------------------
(* The lifetime budget                                                      *)

\* What is charged for a call is a number.
LEMMA ChargeType ==
  ASSUME TypeOK, NEW c \in Calls
  PROVE  Charge(c) \in Nat
BY DEF TypeOK, Charge, saturating_sub

\* What is charged in all is a number.
LEMMA ChargedType == ASSUME TypeOK PROVE Charged \in Nat
<1>1. \A c \in Calls : Charges[c] \in Nat
  BY ChargeType DEF Charges
<1> QED BY <1>1, SumType, SpendAssumption DEF Charged

\* It is one in the next state too.
LEMMA ChargedTypeNext == ASSUME TypeOK' PROVE Charged' \in Nat
<1>1. \A c \in Calls : Charge(c)' \in Nat
  BY DEF TypeOK, Charge, saturating_sub
<1> DEFINE g == Charges'
<1>2. \A c \in Calls : g[c] \in Nat
  BY <1>1 DEF Charges
<1>3. Charged' = SumFunctionOnSet(g, Calls)
  BY DEF Charged
<1> HIDE DEF g
<1> QED BY <1>2, <1>3, SumType, SpendAssumption

\* What is charged in all stays when it stays for every call.
LEMMA ChargedSame ==
  ASSUME \A c \in Calls : Charge(c)' = Charge(c)
  PROVE  Charged' = Charged
<1>1. Charges' = Charges
  BY DEF Charges
<1> QED BY <1>1 DEF Charged

\* When one call's charge changes, the total changes by as much.
LEMMA ChargedChange ==
  ASSUME TypeOK, TypeOK', NEW c \in Calls, \A d \in Calls \ {c} : Charge(d)' = Charge(d)
  PROVE  Charged + Charge(c)' = Charged' + Charge(c)
<1> DEFINE f == Charges
           g == Charges'
<1>1. \A d \in Calls : Charge(d)' \in Nat
  BY DEF TypeOK, Charge, saturating_sub
<1>2. \A d \in Calls : f[d] = Charge(d) /\ g[d] = Charge(d)'
  BY DEF Charges
<1>3. \A d \in Calls : f[d] \in Nat /\ g[d] \in Nat
  BY <1>1, <1>2, ChargeType
<1>4. \A d \in Calls : d # c => f[d] = g[d]
  BY <1>2
<1>5. Charged = SumFunctionOnSet(f, Calls) /\ Charged' = SumFunctionOnSet(g, Calls)
  BY DEF Charged
<1>6. IsFiniteSet(Calls)
  BY SpendAssumption
<1> HIDE DEF f, g
<1>7. SumFunctionOnSet(f, Calls) + g[c] = SumFunctionOnSet(g, Calls) + f[c]
  BY <1>3, <1>4, <1>6, SumChange
<1> QED BY <1>2, <1>5, <1>7

\* A step of a flow touches no count, and no other call's claim.
LEMMA FlowPolicyFrame ==
  ASSUME TypeOK, NEW c \in Calls, Flow(c)
  PROVE  /\ UNCHANGED <<server, count, ledger, together>>
         /\ \A d \in Calls \ {c} : claim'[d] = claim[d]
<1> USE DEF TypeOK, policyVars, boundVars
<1>1. CASE submit(c)
  BY <1>1 DEF submit
<1>2. CASE plan_route(c) \/ plan_sweep(c) \/ run_cycle(c)
  BY <1>2 DEF plan_route, plan_sweep, run_cycle, Begin
<1>3. CASE submit_leg(c) \/ finish_leg(c)
  BY <1>3 DEF submit_leg, finish_leg
<1>4. CASE traffic_leg_fails(c)
  BY <1>4, ZenonT(30) DEF traffic_leg_fails
<1>5. CASE flow_completes(c) \/ flow_fails(c) \/ stress_ends(c)
  BY <1>5 DEF flow_completes, flow_fails, stress_ends, Returns
<1>6. CASE admit_deposit(c) \/ skip_deposit(c)
  BY <1>6 DEF admit_deposit, skip_deposit
<1>7. CASE complete_deposit(c)
  BY <1>7, ZenonT(30) DEF complete_deposit
<1> QED
  BY <1>1, <1>2, <1>3, <1>4, <1>5, <1>6, <1>7, ZenonT(30) DEF Flow

\* Servers start, and die with their calls, without a second one or with together set.
LEMMA ServerAlone ==
  ASSUME TypeOK, Homed, Alone, NEW s \in Servers, Server(s)
  PROVE  Alone'
<1> USE DEF Alone, TypeOK
<1>1. CASE serve(s)
  BY <1>1, ZenonT(30) DEF serve, requestVars, Homed
<1>2. CASE Disconnect(s)
  BY <1>2 DEF Disconnect, requestVars, boundVars, Homed
<1>3. ASSUME NEW end \in {"left", "killed"}, Gone(s, end) PROVE Alone'
  BY <1>3 DEF Gone, CallsOf, requestVars, Homed
<1>4. CASE finish_in_flight_runs(s) \/ Killed(s)
  BY <1>3, <1>4, ZenonT(30) DEF finish_in_flight_runs, Killed
<1>5. ASSUME NEW c \in Calls, call(s, c) PROVE Alone'
  BY <1>5 DEF call, reserve
<1> QED
  BY <1>1, <1>2, <1>4, <1>5, ZenonT(30) DEF Server

\* A call's steps start and stop no server.
LEMMA CallAlone ==
  ASSUME TypeOK, Alone, NEW c \in Calls, Call(c)
  PROVE  Alone'
<1>1. CASE refuse(c) \/ start(c) \/ end_unrefunded(c) \/ refund(c)
  BY <1>1 DEF refuse, start, end_unrefunded, refund, Alone, TypeOK, requestVars, boundVars
<1>2. CASE Flow(c)
  <2>1. UNCHANGED <<server, together, home>>
    BY <1>2, FlowFrame, FlowPolicyFrame, ZenonT(30)
  <2>2. \A d \in Calls : phase'[d] \in {"reserved", "running", "returned"} =>
                           phase[d] \in {"reserved", "running", "returned"}
    BY <1>2, FlowFrame
  <2> QED BY <2>1, <2>2 DEF Alone
<1> QED
  BY <1>1, <1>2 DEF Call

\* What servers do leaves the flows' claims in order.
LEMMA ServerClaimed ==
  ASSUME TypeOK, FlowInv, \A c \in Calls : Claimed(c), NEW s \in Servers, Server(s)
  PROVE  \A c \in Calls : Claimed(c)'
<1>1. CASE serve(s) \/ Disconnect(s)
  BY <1>1, ZenonT(30) DEF serve, Disconnect, Claimed, requestVars, flowVars
<1>2. ASSUME NEW end \in {"left", "killed"}, Gone(s, end) PROVE \A c \in Calls : Claimed(c)'
  BY <1>2 DEF Gone, Claimed, TypeOK, requestVars, flowVars
<1>3. CASE finish_in_flight_runs(s) \/ Killed(s)
  BY <1>2, <1>3 DEF finish_in_flight_runs, Killed
<1>4. ASSUME NEW c \in Calls, call(s, c), NEW d \in Calls PROVE Claimed(d)'
  <2>1. PICK t \in Tools, n \in Nat : reserve(s, c, t, n)
    BY <1>4, RequestsAreNat, ZenonT(30) DEF call
  <2>2. CASE d = c
    <3>1. /\ phase[c] = "idle" /\ phase'[c] \in {"reserved", "refused"}
          /\ UNCHANGED flowVars
      BY <2>1 DEF reserve, TypeOK
    <3>2. Untouched(c)
      BY DEF FlowInv
    <3> QED BY <2>2, <3>1, <3>2 DEF Untouched, Claimed, flowVars
  <2>3. CASE d # c
    BY <2>1, <2>3, ZenonT(30) DEF reserve, Claimed, TypeOK, flowVars
  <2> QED BY <2>2, <2>3
<1> QED
  BY <1>1, <1>3, <1>4, ZenonT(30) DEF Server

\* Every step of a flow keeps its count of what it sent, and a flow that returns
\* claims that or its whole reservation.
LEMMA FlowClaimed ==
  ASSUME TypeOK, FlowInv, NEW c \in Calls, Claimed(c), Flow(c)
  PROVE  Claimed(c)'
<1>0. Counted(c)
  BY DEF FlowInv
<1> USE DEF TypeOK, Claimed, Intents, Planned, requestVars
<1>1. CASE submit(c)
  BY <1>1, ZenonT(30) DEF submit
<1>2. CASE plan_route(c)
  BY <1>2, ZenonT(30) DEF plan_route, Begin
<1>3. CASE plan_sweep(c)
  BY <1>3, ZenonT(30) DEF plan_sweep, Begin
<1>4. CASE run_cycle(c)
  BY <1>4, ZenonT(30) DEF run_cycle, Begin
<1>5. CASE submit_leg(c)
  BY <1>5, <1>0 DEF submit_leg, Counted
<1>6. CASE finish_leg(c)
  BY <1>6, <1>0 DEF finish_leg, Counted
<1>7. CASE traffic_leg_fails(c)
  BY <1>7, ZenonT(30) DEF traffic_leg_fails
<1>8. CASE flow_completes(c)
  BY <1>8, <1>0 DEF flow_completes, Returns, flowVars, Counted
<1>9. CASE flow_fails(c)
  BY <1>9, <1>0 DEF flow_fails, Returns, flowVars, Counted
<1>10. CASE stress_ends(c)
  BY <1>10 DEF stress_ends, Returns, flowVars
<1>11. CASE admit_deposit(c)
  BY <1>11 DEF admit_deposit
<1>12. CASE skip_deposit(c)
  BY <1>12, ZenonT(30) DEF skip_deposit
<1>13. CASE complete_deposit(c)
  BY <1>13 DEF complete_deposit
<1> QED
  BY <1>1, <1>2, <1>3, <1>4, <1>5, <1>6, <1>7, <1>8, <1>9, <1>10, <1>11, <1>12, <1>13, ZenonT(30) DEF Flow

\* What calls do leaves the flows' claims in order.
LEMMA CallClaimed ==
  ASSUME TypeOK, FlowInv, \A d \in Calls : Claimed(d), NEW c \in Calls, Call(c)
  PROVE  \A d \in Calls : Claimed(d)'
<1>1. CASE refuse(c)
  BY <1>1, ZenonT(30) DEF refuse, Claimed, TypeOK, requestVars, flowVars
<1>2. CASE start(c)
  BY <1>2, ZenonT(30) DEF start, Claimed, TypeOK, requestVars, flowVars
<1>3. CASE end_unrefunded(c)
  BY <1>3, ZenonT(30) DEF end_unrefunded, Claimed, TypeOK, requestVars, flowVars
<1>4. CASE refund(c)
  BY <1>4 DEF refund, Claimed, TypeOK, requestVars, flowVars
<1>5. CASE Flow(c)
  <2>1. Claimed(c)'
    BY <1>5, FlowClaimed, ZenonT(30)
  <2>2. ASSUME NEW d \in Calls \ {c} PROVE Claimed(d)'
    <3>1. /\ phase'[d] = phase[d] /\ tool'[d] = tool[d] /\ sent'[d] = sent[d]
          /\ done'[d] = done[d] /\ active'[d] = active[d] /\ uncounted'[d] = uncounted[d]
      BY <1>5, <2>2, FlowFrame, ZenonT(30)
    <3>2. claim'[d] = claim[d] /\ Claimed(d)
      BY <1>5, <2>2, FlowPolicyFrame, ZenonT(30)
    <3> QED BY <3>1, <3>2, ClaimedKept, ZenonT(30)
  <2> QED BY <2>1, <2>2, ZenonT(30)
<1> QED
  BY <1>1, <1>2, <1>3, <1>4, <1>5, ZenonT(30) DEF Call

\* A release gives back no more than the charge it ends, whether its write succeeds or
\* leaves the ledger as it was.
LEMMA ReleaseCovered ==
  ASSUME TypeOK, TypeOK', Alone, Covered, NEW s \in Servers, NEW n \in Nat, release(s, n),
         server[s] # "down", UNCHANGED <<server, together>>, Charged = Charged' + n
  PROVE  Covered'
<1> SUFFICES ASSUME ~together
             PROVE  /\ Charged' <= MaxTxsTotal
                    /\ ledger' # Unreadable => Charged' <= ledger'
                    /\ \A o \in Servers : server'[o] # "down" => Charged' <= count'[o]
  BY DEF Covered
<1>1. Charged \in Nat /\ Charged' \in Nat
  BY ChargedType, ChargedTypeNext, ZenonT(30)
<1>2. Charged <= count[s] /\ count[s] \in Nat
  BY ZenonT(30) DEF Covered, TypeOK
<1>3. Charged' <= saturating_sub(count[s], n)
  BY <1>1, <1>2 DEF saturating_sub
<1>0. /\ Charged <= MaxTxsTotal /\ MaxTxsTotal \in Nat
      /\ ledger # Unreadable => Charged <= ledger /\ ledger \in Nat
  <2>1. Charged <= MaxTxsTotal /\ (ledger # Unreadable => Charged <= ledger)
    BY ZenonT(30) DEF Covered
  <2>2. MaxTxsTotal \in Nat
    BY SpendAssumption, ZenonT(30)
  <2>3. ledger # Unreadable => ledger \in Nat
    BY ZenonT(30) DEF TypeOK
  <2> QED BY <2>1, <2>2, <2>3, ZenonT(30)
<1>4. Charged' <= MaxTxsTotal
  <2>1. \A a, b, m \in Nat : a <= m /\ a = b + n => b <= m
    OBVIOUS
  <2> QED BY <1>0, <1>1, <2>1, ZenonT(30)
<1>5. ledger' # Unreadable => Charged' <= ledger'
  <2>1. CASE ledger' = saturating_sub(count[s], n)
    BY <2>1, <1>3
  <2>2. CASE ledger' \in {ledger, Unreadable}
    BY <2>2, <1>0, <1>1
  <2> QED BY <2>1, <2>2 DEF release, WriteFails
<1>6. ASSUME NEW o \in Servers, server'[o] # "down" PROVE Charged' <= count'[o]
  <2>1. o = s
    BY <1>6, ZenonT(30) DEF Alone
  <2>2. count'[s] = saturating_sub(count[s], n)
    BY DEF release, TypeOK
  <2> QED BY <2>1, <2>2, <1>3
<1> QED BY <1>4, <1>5, <1>6

\* A server starts from a ledger that covers what is charged, and keeps it covered.
LEMMA ServerCovered ==
  ASSUME TypeOK, TypeOK', Alone, Covered, NEW s \in Servers, Server(s)
  PROVE  Covered'
<1>1. CASE serve(s)
  <2>1. Charged' = Charged
    BY <1>1, ChargedSame, ZenonT(30) DEF serve, Charge, requestVars
  <2> QED BY <1>1, <2>1 DEF serve, Covered, TypeOK
<1>2. CASE Disconnect(s)
  <2>1. Charged' = Charged
    BY <1>2, ChargedSame, ZenonT(30) DEF Disconnect, Charge, requestVars
  <2> QED BY <1>2, <2>1 DEF Disconnect, Covered, TypeOK, policyVars, boundVars
<1>3. ASSUME NEW end \in {"left", "killed"}, Gone(s, end), ledger' \in {ledger, Unreadable}
      PROVE  Covered'
  <2>1. Charged' = Charged
    BY <1>3, ChargedSame DEF Gone, CallsOf, Charge, requestVars
  <2> QED BY <1>3, <2>1 DEF Gone, Covered, TypeOK
<1>4. CASE finish_in_flight_runs(s) \/ Killed(s)
  BY <1>3, <1>4, ZenonT(30) DEF finish_in_flight_runs, Killed
<1>5. ASSUME NEW c \in Calls, call(s, c) PROVE Covered'
  <2>1. PICK t \in Tools, n \in Nat : reserve(s, c, t, n)
    BY <1>5, RequestsAreNat, ZenonT(30) DEF call
  <2>2. /\ phase[c] = "idle" /\ server[s] # "down" /\ UNCHANGED <<server, together>>
        /\ count[s] + n <= MaxTxsTotal /\ amount'[c] = n
        /\ \A d \in Calls \ {c} : /\ phase'[d] = phase[d] /\ tool'[d] = tool[d]
                                  /\ amount'[d] = amount[d] /\ claim'[d] = claim[d]
    <3>1. /\ phase \in [Calls -> Phases] /\ tool \in [Calls -> Tools \cup {"none"}]
          /\ amount \in [Calls -> Nat]
      BY ZenonT(30) DEF TypeOK
    <3>2. /\ server[s] = "up" /\ phase[c] = "idle" /\ UNCHANGED <<server, together, claim>>
          /\ count[s] + n <= MaxTxsTotal
      BY <2>1, ZenonT(30) DEF reserve
    <3>3. /\ amount' = [amount EXCEPT ![c] = n] /\ tool' = [tool EXCEPT ![c] = t]
          /\ \E p \in {"reserved", "refused"} : phase' = [phase EXCEPT ![c] = p]
      BY <2>1, ZenonT(30) DEF reserve
    <3> QED BY <3>1, <3>2, <3>3
  <2>3. Charged + Charge(c)' = Charged' + Charge(c)
    BY <2>2, ChargeKept, ChargedChange, ZenonT(30)
  <2>4. Charge(c) = 0
    BY <2>2 DEF Charge
  <2>5. Charged \in Nat /\ Charged' \in Nat
    BY ChargedType, ChargedTypeNext, ZenonT(30)
  <2>6. CASE /\ phase'[c] = "reserved" /\ ledger' = count[s] + n
             /\ count' = [count EXCEPT ![s] = @ + n]
    <3>1. Charged' = Charged + n
      BY <2>2, <2>3, <2>4, <2>5, <2>6 DEF Charge
    <3>2. SUFFICES ASSUME ~together PROVE Covered'
      BY <2>2, ZenonT(30) DEF Covered
    <3>3. Charged' <= count[s] + n /\ count[s] \in Nat
      <4>1. Charged <= count[s]
        BY <2>2, <3>2, ZenonT(30) DEF Covered
      <4>2. count[s] \in Nat
        BY ZenonT(30) DEF TypeOK
      <4> QED BY <2>5, <3>1, <4>1, <4>2, PlusSame, ZenonT(30)
    <3>4. \A o \in Servers : server'[o] # "down" => o = s
      BY <2>2, <3>2, ZenonT(30) DEF Alone
    <3>5. count'[s] = count[s] + n
      BY <2>6, ZenonT(30) DEF TypeOK
    <3>6. Charged' <= MaxTxsTotal
      <4>1. \A a, b, m \in Nat : a <= b /\ b <= m => a <= m
        OBVIOUS
      <4>2. count[s] + n \in Nat /\ MaxTxsTotal \in Nat
        BY <3>3, SpendAssumption
      <4> QED BY <2>2, <2>5, <3>3, <4>1, <4>2, ZenonT(30)
    <3> QED BY <2>6, <3>3, <3>4, <3>5, <3>6, ZenonT(30) DEF Covered
  <2>7. CASE phase'[c] = "refused" /\ WriteFails /\ UNCHANGED count
    <3>1. Charge(c)' = 0
      BY <2>7 DEF Charge
    <3>2. Charged' = Charged
      <4>1. \A a, b \in Nat : a + 0 = b + 0 => b = a
        OBVIOUS
      <4> QED BY <2>3, <2>4, <2>5, <3>1, <4>1, ZenonT(30)
    <3>3. ledger' \in {ledger, Unreadable}
      BY <2>7, ZenonT(30) DEF WriteFails
    <3>4. UNCHANGED <<server, together, count>>
      BY <2>2, <2>7
    <3> QED BY <3>2, <3>3, <3>4 DEF Covered
  <2> QED BY <2>1, <2>6, <2>7 DEF reserve, TypeOK
<1> QED
  BY <1>1, <1>2, <1>4, <1>5, ZenonT(30) DEF Server

\* A call is charged when it reserves, and given back no more than it did not send.
LEMMA CallCovered ==
  ASSUME TypeOK, TypeOK', Homed, Alone, Covered, NEW c \in Calls, Claimed(c), Call(c)
  PROVE  Covered'
<1>1. CASE refuse(c)
  <2>1. /\ phase[c] = "reserved" /\ phase'[c] = "refused" /\ UNCHANGED <<server, together>>
        /\ home[c] \in Servers /\ amount[c] \in Nat /\ release(home[c], amount[c])
        /\ \A d \in Calls \ {c} : /\ phase'[d] = phase[d] /\ tool'[d] = tool[d]
                                  /\ amount'[d] = amount[d] /\ claim'[d] = claim[d]
    BY <1>1, ZenonT(30) DEF refuse, TypeOK, Homed, requestVars
  <2>2. Charged + Charge(c)' = Charged' + Charge(c)
    BY <2>1, ChargeKept, ChargedChange, ZenonT(30)
  <2>3. Charge(c)' = 0 /\ Charge(c) = amount[c]
    BY <2>1 DEF Charge
  <2>4. Charged = Charged' + amount[c]
    BY <2>2, <2>3, ChargedType, PlusNone, ZenonT(30)
  <2>5. server[home[c]] # "down"
    BY <2>1, ZenonT(30) DEF Alone
  <2> QED BY <2>1, <2>4, <2>5, ReleaseCovered, ZenonT(30)
<1>2. CASE start(c)
  <2>1. Charged' = Charged
    BY <1>2, ChargedSame, ZenonT(30) DEF start, Charge, requestVars, TypeOK
  <2> QED BY <1>2, <2>1, ZenonT(30) DEF start, Covered, policyVars, boundVars
<1>3. CASE end_unrefunded(c)
  <2>1. Charged' = Charged
    BY <1>3, ChargedSame, ZenonT(30) DEF end_unrefunded, Charge, requestVars, TypeOK
  <2> QED BY <1>3, <2>1 DEF end_unrefunded, Covered, policyVars, boundVars
<1>4. CASE refund(c)
  <2> DEFINE n == saturating_sub(amount[c], claim[c])
  <2>1. /\ phase[c] = "returned" /\ phase'[c] = "ended" /\ UNCHANGED <<server, together>>
        /\ home[c] \in Servers /\ release(home[c], n) /\ UNCHANGED <<tool, amount, claim>>
        /\ \A d \in Calls \ {c} : phase'[d] = phase[d]
    BY <1>4, ZenonT(30) DEF refund, TypeOK, Homed, requestVars
  <2>2. Charged + Charge(c)' = Charged' + Charge(c)
    BY <2>1, ChargeKept, ChargedChange, ZenonT(30)
  <2>3. n \in Nat /\ amount[c] \in Nat
    BY SaturatingSub DEF TypeOK
  <2>4. Charge(c)' = amount[c] - n /\ Charge(c) = amount[c]
    BY <2>1 DEF Charge, Claimed
  <2> HIDE DEF n
  <2>5. Charged = Charged' + n
    BY <2>2, <2>3, <2>4, ChargedType, ChargedTypeNext
  <2>6. server[home[c]] # "down"
    BY <2>1, ZenonT(30) DEF Alone
  <2> QED BY <2>1, <2>3, <2>5, <2>6, ReleaseCovered, ZenonT(30)
<1>5. CASE Flow(c)
  <2>1. Charged' = Charged
    BY <1>5, FlowFrame, FlowPolicyFrame, ChargedSame DEF Charge
  <2> QED BY <1>5, <2>1, FlowPolicyFrame DEF Covered
<1> QED
  BY <1>1, <1>2, <1>3, <1>4, <1>5 DEF Call

\* Nothing is charged at the start.
LEMMA InitBudget == Init => BudgetInv
<1> SUFFICES ASSUME Init PROVE BudgetInv
  OBVIOUS
<1>1. Alone /\ \A c \in Calls : Claimed(c)
  BY DEF Init, Alone, Claimed, Intents, Planned
<1>2. \A c \in Calls : Charges[c] = 0
  BY DEF Init, Charges, Charge
<1>3. Charged = 0
  BY <1>2, SumZero, SpendAssumption DEF Charged
<1>4. Covered
  BY <1>3, SpendAssumption DEF Init, Covered
<1> QED BY <1>1, <1>4 DEF BudgetInv

\* Every step keeps what is charged covered.
LEMMA NextBudget == Inv /\ BudgetInv /\ [Next]_vars => BudgetInv'
<1> SUFFICES ASSUME Inv, BudgetInv, [Next]_vars PROVE BudgetInv'
  OBVIOUS
<1>1. TypeOK'
  BY NextInv DEF Inv
<1>2. ASSUME NEW s \in Servers, Server(s) PROVE BudgetInv'
  BY <1>1, <1>2, ServerAlone, ServerClaimed, ServerCovered DEF Inv, BudgetInv
<1>3. ASSUME NEW c \in Calls, Call(c) PROVE BudgetInv'
  BY <1>1, <1>3, CallAlone, CallClaimed, CallCovered, ZenonT(30) DEF Inv, BudgetInv
<1>4. CASE UNCHANGED vars
  <2>1. Charged' = Charged
    BY <1>4, ChargedSame, ZenonT(30) DEF vars, Charge, requestVars
  <2> QED
    BY <1>4, <2>1, ZenonT(30) DEF vars, policyVars, requestVars, flowVars, boundVars, BudgetInv, Alone,
                      Claimed, Covered
<1> QED
  BY <1>2, <1>3, <1>4 DEF Next

\* What is sent is charged, but for the deposits the flows do not count.
LEMMA SentIsCharged ==
  ASSUME Inv, BudgetInv, NEW c \in Calls
  PROVE  sent[c] <= Charge(c) + uncounted[c]
<1> USE DEF TypeOK
<1>0. TypeOK /\ Untouched(c) /\ Counted(c) /\ Claimed(c)
  BY ZenonT(30) DEF Inv, FlowInv, BudgetInv
<1>1. sent[c] <= amount[c] + uncounted[c]
  BY <1>0 DEF Counted, Tools, Intents, Planned
<1>2. CASE phase[c] \in {"idle", "refused"}
  BY <1>0, <1>2 DEF Untouched, Charge
<1>3. CASE phase[c] = "ended" /\ tool[c] \in Intents
  BY <1>0, <1>1, <1>3 DEF Claimed, Charge, saturating_sub
<1>4. CASE ~(phase[c] \in {"idle", "refused"}) /\ ~(phase[c] = "ended" /\ tool[c] \in Intents)
  BY <1>1, <1>4 DEF Charge
<1> QED BY <1>2, <1>3, <1>4, ZenonT(30)

\* For any finite number of calls, caps and amounts, and over restarts, crashes, refunds
\* and failed ledger writes, the lifetime budget covers what is sent but for the deposits
\* the flows do not count, as long as no two servers were up at once.
THEOREM WithinBudget == Spec => []BudgetHolds
<1>1. Inv /\ BudgetInv => BudgetHolds
  <2> SUFFICES ASSUME Inv, BudgetInv, ~together
               PROVE  SumFunction(sent) <= MaxTxsTotal + SumFunction(uncounted)
    BY DEF BudgetHolds
  <2>1. /\ SumFunction(sent) = SumFunctionOnSet(sent, Calls)
        /\ SumFunction(uncounted) = SumFunctionOnSet(uncounted, Calls)
    BY ZenonT(30) DEF SumFunction, Inv, TypeOK
  <2>2. \A c \in Calls : /\ sent[c] \in Nat /\ Charges[c] \in Nat /\ uncounted[c] \in Nat
                         /\ sent[c] <= Charges[c] + uncounted[c]
    BY SentIsCharged, ChargeType DEF Charges, Inv, TypeOK
  <2>3. IsFiniteSet(Calls)
    BY SpendAssumption, ZenonT(30)
  <2>4. SumFunctionOnSet(sent, Calls) <= Charged + SumFunctionOnSet(uncounted, Calls)
    BY <2>2, <2>3, SumBound, ZenonT(30) DEF Charged
  <2>5. Charged <= MaxTxsTotal
    BY ZenonT(30) DEF BudgetInv, Covered
  <2>6. /\ SumFunctionOnSet(sent, Calls) \in Nat /\ SumFunctionOnSet(uncounted, Calls) \in Nat
        /\ Charged \in Nat
    BY <2>2, <2>3, SumType, ChargedType DEF Inv
  <2> QED BY <2>1, <2>4, <2>5, <2>6, SpendAssumption
<1> QED
  BY <1>1, InitInv, NextInv, InitBudget, NextBudget, PTL DEF Spec
=============================================================================
