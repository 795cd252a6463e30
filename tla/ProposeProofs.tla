--------------------------- MODULE ProposeProofs ----------------------------
(***************************************************************************)
(* axe propose, for any terminals, calls and plans: no call is submitted       *)
(* twice without being asked for; the relay of a passed proposal replays        *)
(* nothing that was settled and reports nothing as done that is not; and the     *)
(* two searches the relay begins with find their block on every chain.          *)
(***************************************************************************)
EXTENDS Propose, ProposeRelay, BlockSearch, TLAPS

\* The context of these obligations is long: more time than the default for all of them.
USE SMTT(30), ZenonT(30)

\* The lock is held by the one run that is between its search and its answer.
LockHeld == \A t \in Terminals : pc[t] \in Guarded => lock = {t}

\* A run with --new-proposal was counted as a request for all of its calls.
Asked == \A t \in Terminals : new[t] => plan[t] \subseteq replaced

\* A run claims the calls of its plan.
OwnCalls == \A t \in Terminals : todo[t] \subseteq plan[t]

\* What was broadcast is still claimed, unless a request took the claim away.
SentIsClaimed == \A s \in sent : s.plan \ replaced \subseteq claims

\* A run that has claimed a call is the first to submit it.
ClaimedIsFresh ==
    \A t \in Terminals :
        pc[t] \in {"claimCalls", "broadcast"} =>
            \A c \in (plan[t] \ todo[t]) \ replaced :
                c \in claims /\ \A s \in sent : c \notin s.plan

\* The calls are all claimed when the submission is broadcast.
NothingLeft == \A t \in Terminals : pc[t] = "broadcast" => todo[t] = {}

\* A terminal without a run has no calls to claim.
IdleHasNone == \A t \in Terminals : pc[t] = "idle" => todo[t] = {}

Inv ==
    /\ TypeOK
    /\ LockHeld
    /\ Asked
    /\ OwnCalls
    /\ SentIsClaimed
    /\ ClaimedIsFresh
    /\ NothingLeft
    /\ IdleHasNone
    /\ NoSilentDuplicate

\* A run starts with nothing claimed and nothing sent.
LEMMA InvInit == Init => Inv
  BY MaxSentAssumption
  DEF Init, Inv, TypeOK, LockHeld, Asked, OwnCalls, SentIsClaimed, ClaimedIsFresh, NothingLeft,
      IdleHasNone, NoSilentDuplicate, Guarded

\* Every step keeps the variables well typed.
LEMMA TypeNext == TypeOK /\ [Next]_vars => TypeOK'
<1> SUFFICES ASSUME TypeOK, [Next]_vars PROVE TypeOK'
  OBVIOUS
<1> USE DEF TypeOK, Guarded
<1>1. ASSUME NEW s \in pool, Include(s) PROVE TypeOK'
  <2>1. s \in Submissions
    BY <1>1
  <2>2. history' \in Seq(Submissions) /\ Len(history') = Len(history) + 1
    BY <1>1, <2>1 DEF Include
  <2> QED
    BY <1>1, <2>2 DEF Include, fileVars, runVars
<1>2. ASSUME NEW s \in pool, Drop(s) PROVE TypeOK'
  BY <1>2 DEF Drop, fileVars, runVars
<1>3. ASSUME NEW i \in 1 .. Len(history), Vote(i) PROVE TypeOK'
  BY <1>3 DEF Vote, fileVars, runVars
<1>4. ASSUME NEW t \in Terminals, Run(t) PROVE TypeOK'
  <2>1. CASE Begin(t)
    BY <2>1, PlansAssumption DEF Begin, Goto, hubVars
  <2>2. ASSUME NEW i \in 1 .. Len(history), pc[t] # "idle", Resume(t, i) PROVE TypeOK'
    BY <2>2 DEF Resume, Goto, hubVars
  <2>3. CASE Find(t)
    <3>1. PICK seen \in 0 .. Len(history) : \E i \in Matching(t, seen) : Resume(t, i)
      BY <2>3 DEF Find
    <3>2. PICK i \in 1 .. seen : Resume(t, i)
      BY <3>1 DEF Matching
    <3>3. i \in 1 .. Len(history) /\ pc[t] # "idle"
      BY <2>3 DEF Find
    <3> QED
      BY <2>2, <3>2, <3>3, ZenonT(30)
  <2>4. CASE FindById(t)
    BY <2>4, <2>2 DEF FindById, Matching
  <2>5. CASE FindNone(t) \/ Check(t) \/ Claimed(t)
    BY <2>5, ZenonT(30) DEF FindNone, Check, Claimed, Goto, fileVars, hubVars, runVars
  <2>6. CASE RemoveMarker(t)
    BY <2>6 DEF RemoveMarker, hubVars, runVars
  <2>7. CASE ClaimPlan(t)
    <3>1. plan[t] \in Plans
      BY <2>7 DEF ClaimPlan
    <3> QED
      BY <2>7, <3>1 DEF ClaimPlan, Goto, hubVars, runVars
  <2>8. CASE Recheck(t)
    BY <2>8, PlansAssumption DEF Recheck, Goto, fileVars, hubVars
  <2>9. ASSUME NEW c \in Calls, RemoveClaim(t, c) \/ ClaimCall(t, c) PROVE TypeOK'
    <3>1. CASE RemoveClaim(t, c)
      BY <3>1 DEF RemoveClaim, hubVars, runVars
    <3>2. CASE ClaimCall(t, c)
      BY <3>2 DEF ClaimCall, hubVars
    <3> QED
      BY <2>9, <3>1, <3>2, ZenonT(30)
  <2>10. CASE Broadcast(t)
    <3>1. [number |-> count + 1, plan |-> plan[t]] \in Submissions
      BY <2>10, MaxSentAssumption DEF Broadcast, Submissions
    <3> QED
      BY <2>10, <3>1, MaxSentAssumption DEF Broadcast, Goto, fileVars
  <2>11. CASE Answer(t)
    BY <2>11, <2>2, ZenonT(30) DEF Answer
  <2>12. CASE Monitor(t) \/ GiveUp(t)
    <3>1. 0 \in 0 .. Len(history)
      OBVIOUS
    <3>2. End(t)
      BY <2>12 DEF Monitor, GiveUp
    <3> QED
      BY <3>1, <3>2, MaxSentAssumption DEF End, Goto, hubVars
  <2> QED
    BY <1>4, <2>1, <2>3, <2>4, <2>5, <2>6, <2>7, <2>8, <2>9, <2>10, <2>11, <2>12, ZenonT(30) DEF Run
<1>5. CASE UNCHANGED vars
  BY <1>5 DEF vars, fileVars, hubVars, runVars
<1> QED
  BY <1>1, <1>2, <1>3, <1>4, <1>5, ZenonT(30) DEF Next, Hub

\* Every step keeps the invariant.
LEMMA InvNext == Inv /\ [Next]_vars => Inv'
<1> SUFFICES ASSUME Inv, [Next]_vars PROVE Inv'
  OBVIOUS
<1>t. TypeOK /\ TypeOK'
  BY TypeNext DEF Inv
<1>h. ASSUME UNCHANGED <<fileVars, sent, pc, runVars, replaced>> PROVE Inv'
  BY <1>t, <1>h
  DEF Inv, LockHeld, Asked, OwnCalls, SentIsClaimed, ClaimedIsFresh, NothingLeft,
      IdleHasNone, NoSilentDuplicate, fileVars, runVars
<1>1. ASSUME NEW s \in pool, Include(s) \/ Drop(s) PROVE Inv'
  BY <1>1, <1>h DEF Include, Drop
<1>2. ASSUME NEW i \in 1 .. Len(history), Vote(i) PROVE Inv'
  BY <1>2, <1>h DEF Vote
<1>3. ASSUME NEW t \in Terminals, Run(t) PROVE Inv'
  <2> USE <1>t DEF TypeOK, Guarded
  <2>1. CASE Begin(t)
    <3>1. PICK p \in Plans, n \in BOOLEAN :
             /\ plan' = [plan EXCEPT ![t] = p]
             /\ new' = [new EXCEPT ![t] = n]
             /\ replaced' = IF n THEN replaced \cup p ELSE replaced
      BY <2>1, ZenonT(30) DEF Begin
    <3>2. pc' = [pc EXCEPT ![t] = "find"] /\ lock = {} /\ lock' = {t} /\ UNCHANGED <<claims, sent, todo>>
      BY <2>1 DEF Begin, Goto, hubVars
    <3>3. replaced \subseteq replaced'
      BY <3>1
    <3>4. LockHeld'
      BY <3>2 DEF Inv, LockHeld
    <3>5. Asked'
      BY <3>1, <3>3 DEF Inv, Asked
    <3>6. OwnCalls'
      <4>1. todo[t] = {}
        BY <2>1, ZenonT(30) DEF Begin, Inv, IdleHasNone
      <4> QED
        BY <4>1, <3>1, <3>2, ZenonT(30) DEF Inv, OwnCalls
    <3>7. SentIsClaimed' /\ NoSilentDuplicate'
      BY <3>2, <3>3, ZenonT(30) DEF Inv, SentIsClaimed, NoSilentDuplicate
    <3>8. ClaimedIsFresh' /\ NothingLeft'
      BY <3>1, <3>2, <3>3, ZenonT(30) DEF Inv, ClaimedIsFresh, NothingLeft
    <3>9. IdleHasNone'
      BY <3>2 DEF Inv, IdleHasNone
    <3> QED
      BY <3>4, <3>5, <3>6, <3>7, <3>8, <3>9, ZenonT(30) DEF Inv
  <2>2. ASSUME NEW i, Resume(t, i) PROVE Inv'
    BY <2>2
    DEF Inv, LockHeld, Asked, OwnCalls, SentIsClaimed, ClaimedIsFresh, NothingLeft, IdleHasNone,
        NoSilentDuplicate, Resume, Goto, hubVars
  <2>3. CASE Find(t) \/ FindById(t) \/ Answer(t)
    BY <2>2, <2>3, ZenonT(30) DEF Find, FindById, Answer
  <2>4. CASE FindNone(t) \/ Check(t) \/ RemoveMarker(t) \/ ClaimPlan(t)
    <3>1. /\ pc[t] \in {"find", "check", "claimPlan"}
          /\ \E st \in {"check", "claimPlan", "recheck"} : pc' = [pc EXCEPT ![t] = st]
          /\ UNCHANGED <<claims, lock, sent, plan, new, todo, replaced>>
      <4>1. CASE FindNone(t)
        BY <4>1 DEF FindNone, Goto, fileVars, hubVars, runVars
      <4>2. CASE Check(t)
        BY <4>2 DEF Check, Goto, fileVars, hubVars, runVars
      <4>3. CASE RemoveMarker(t)
        <5>1. pc' = [pc EXCEPT ![t] = "claimPlan"]
          BY <4>3 DEF RemoveMarker
        <5> QED
          BY <4>3, <5>1 DEF RemoveMarker, hubVars, runVars
      <4>4. CASE ClaimPlan(t)
        BY <4>4 DEF ClaimPlan, Goto, hubVars, runVars
      <4> QED
        BY <2>4, <4>1, <4>2, <4>3, <4>4, ZenonT(30)
    <3>2. /\ \A u \in Terminals : u # t => pc'[u] = pc[u]
          /\ pc[t] \in Guarded
          /\ pc'[t] \notin {"claimCalls", "broadcast", "idle"}
      <4>1. PICK st \in {"check", "claimPlan", "recheck"} : pc' = [pc EXCEPT ![t] = st]
        BY <3>1, ZenonT(30)
      <4>2. pc \in [Terminals -> Guarded \cup {"idle", "monitor"}]
        BY ZenonT(30)
      <4> QED BY <3>1, <4>1, <4>2, ZenonT(30)
    <3>3. LockHeld' /\ NothingLeft' /\ IdleHasNone'
      BY <3>1, <3>2, ZenonT(30) DEF Inv, LockHeld, NothingLeft, IdleHasNone
    <3>4. ClaimedIsFresh'
      BY <3>1, <3>2, ZenonT(30) DEF Inv, ClaimedIsFresh
    <3>5. Asked' /\ OwnCalls'
      BY <3>1, ZenonT(30) DEF Inv, Asked, OwnCalls
    <3>6. SentIsClaimed' /\ NoSilentDuplicate'
      BY <3>1, ZenonT(30) DEF Inv, SentIsClaimed, NoSilentDuplicate
    <3> QED
      BY <1>t, <3>3, <3>4, <3>5, <3>6, ZenonT(30) DEF Inv
  <2>5. CASE Recheck(t)
    <3>1. /\ pc[t] = "recheck" /\ pc' = [pc EXCEPT ![t] = "claimCalls"]
          /\ todo' = [todo EXCEPT ![t] = plan[t]]
          /\ UNCHANGED <<claims, lock, sent, plan, new, replaced>>
      BY <2>5, ZenonT(30) DEF Recheck, Goto, fileVars, hubVars
    <3>2. /\ \A u \in Terminals : u # t => pc'[u] = pc[u] /\ todo'[u] = todo[u]
          /\ pc[t] \in Guarded /\ pc'[t] = "claimCalls" /\ todo'[t] = plan[t]
      <4>1. pc \in [Terminals -> Guarded \cup {"idle", "monitor"}] /\ todo \in [Terminals -> SUBSET Calls]
        BY ZenonT(30)
      <4> QED BY <3>1, <4>1, ZenonT(30)
    <3>3. LockHeld' /\ NothingLeft' /\ IdleHasNone'
      BY <3>1, <3>2, ZenonT(30) DEF Inv, LockHeld, NothingLeft, IdleHasNone
    <3>4. ClaimedIsFresh'
      BY <3>1, <3>2, ZenonT(30) DEF Inv, ClaimedIsFresh
    <3>5. Asked' /\ OwnCalls'
      BY <3>1, <3>2, ZenonT(30) DEF Inv, Asked, OwnCalls
    <3>6. SentIsClaimed' /\ NoSilentDuplicate'
      BY <3>1, ZenonT(30) DEF Inv, SentIsClaimed, NoSilentDuplicate
    <3> QED
      BY <1>t, <3>3, <3>4, <3>5, <3>6, ZenonT(30) DEF Inv
  <2>6. ASSUME NEW c \in Calls, RemoveClaim(t, c) PROVE Inv'
    <3>1. c \in replaced
      BY <2>6 DEF RemoveClaim, Inv, Asked, OwnCalls
    <3>2. claims' = claims \ {c} /\ UNCHANGED <<lock, sent, pc, plan, new, todo, replaced>>
      BY <2>6, ZenonT(30) DEF RemoveClaim, hubVars, runVars
    <3>3. SentIsClaimed' /\ ClaimedIsFresh'
      BY <3>1, <3>2 DEF Inv, SentIsClaimed, ClaimedIsFresh
    <3> QED
      BY <3>2, <3>3, ZenonT(30) DEF Inv, LockHeld, Asked, OwnCalls, NothingLeft, IdleHasNone, NoSilentDuplicate
  <2>7. ASSUME NEW c \in Calls, ClaimCall(t, c) PROVE Inv'
    <3>1. /\ pc[t] = "claimCalls"
          /\ c \in todo[t] \ claims
          /\ claims' = claims \cup {c}
          /\ todo' = [todo EXCEPT ![t] = @ \ {c}]
          /\ UNCHANGED <<lock, sent, pc, plan, new, replaced>>
      BY <2>7, ZenonT(30) DEF ClaimCall, hubVars
    <3>2. c \notin replaced => \A s \in sent : c \notin s.plan
      BY <3>1, ZenonT(30) DEF Inv, SentIsClaimed
    <3>3. SentIsClaimed'
      BY <3>1, ZenonT(30) DEF Inv, SentIsClaimed
    <3>4. ClaimedIsFresh'
      BY <3>1, <3>2 DEF Inv, ClaimedIsFresh
    <3>5. \A u \in Terminals : todo'[u] \subseteq todo[u]
      BY <3>1
    <3>6. LockHeld' /\ Asked' /\ NoSilentDuplicate'
      BY <3>1, ZenonT(30) DEF Inv, LockHeld, Asked, NoSilentDuplicate
    <3>7. OwnCalls'
      BY <3>1, <3>5, ZenonT(30) DEF Inv, OwnCalls
    <3>8. NothingLeft' /\ IdleHasNone'
      BY <3>1, <3>5, ZenonT(30) DEF Inv, NothingLeft, IdleHasNone
    <3> QED
      BY <1>t, <3>3, <3>4, <3>6, <3>7, <3>8, ZenonT(30) DEF Inv
  <2>8. CASE Claimed(t)
    <3>1. /\ pc[t] = "claimCalls" /\ pc' = [pc EXCEPT ![t] = "broadcast"] /\ todo[t] = {}
          /\ UNCHANGED <<claims, lock, sent, plan, new, todo, replaced>>
      BY <2>8, ZenonT(30) DEF Claimed, Goto, fileVars, hubVars, runVars
    <3>2. /\ \A u \in Terminals : u # t => pc'[u] = pc[u] /\ todo'[u] = todo[u]
          /\ pc[t] \in Guarded /\ pc'[t] = "broadcast"
      <4>1. pc \in [Terminals -> Guarded \cup {"idle", "monitor"}]
        BY ZenonT(30)
      <4> QED BY <3>1, <4>1, ZenonT(30)
    <3>3. LockHeld' /\ NothingLeft' /\ IdleHasNone'
      BY <3>1, <3>2, ZenonT(30) DEF Inv, LockHeld, NothingLeft, IdleHasNone
    <3>4. ClaimedIsFresh'
      BY <3>1, <3>2, ZenonT(30) DEF Inv, ClaimedIsFresh
    <3>5. Asked' /\ OwnCalls'
      BY <3>1, <3>2, ZenonT(30) DEF Inv, Asked, OwnCalls
    <3>6. SentIsClaimed' /\ NoSilentDuplicate'
      BY <3>1, ZenonT(30) DEF Inv, SentIsClaimed, NoSilentDuplicate
    <3> QED
      BY <1>t, <3>3, <3>4, <3>5, <3>6, ZenonT(30) DEF Inv
  <2>9. CASE Broadcast(t)
    <3> DEFINE s0 == [number |-> count + 1, plan |-> plan[t]]
    <3>1. /\ pc[t] = "broadcast" /\ pc' = [pc EXCEPT ![t] = "answer"]
          /\ sent' = sent \cup {s0}
          /\ UNCHANGED <<claims, lock, plan, new, todo, replaced>>
      BY <2>9 DEF Broadcast, Goto, fileVars
    <3>2. \A c \in plan[t] \ replaced : c \in claims /\ \A s \in sent : c \notin s.plan
      BY <3>1 DEF Inv, ClaimedIsFresh, NothingLeft
    <3>3. s0.plan = plan[t]
      BY ZenonT(30)
    <3> HIDE DEF s0
    <3>4. NoSilentDuplicate'
      BY <3>1, <3>2, <3>3, ZenonT(30) DEF Inv, NoSilentDuplicate
    <3>5. SentIsClaimed'
      BY <3>1, <3>2, <3>3 DEF Inv, SentIsClaimed
    <3>6. ClaimedIsFresh'
      <4>1. \A u \in Terminals \ {t} : pc[u] \notin Guarded
        <5>1. lock = {t}
          BY <3>1 DEF Inv, LockHeld
        <5> QED
          BY <5>1, ZenonT(30) DEF Inv, LockHeld
      <4>2. \A u \in Terminals : pc'[u] \notin {"claimCalls", "broadcast"}
        BY <3>1, <4>1
      <4> QED
        BY <4>2 DEF ClaimedIsFresh
    <3> QED
      BY <3>1, <3>4, <3>5, <3>6, ZenonT(30) DEF Inv, LockHeld, Asked, OwnCalls, NothingLeft, IdleHasNone
  <2>10. CASE Monitor(t) \/ GiveUp(t)
    <3>1. End(t)
      BY <2>10 DEF Monitor, GiveUp
    <3>2. /\ pc' = [pc EXCEPT ![t] = "idle"] /\ lock' = lock \ {t}
          /\ plan' = [plan EXCEPT ![t] = {}] /\ todo' = [todo EXCEPT ![t] = {}]
          /\ new' = [new EXCEPT ![t] = FALSE]
          /\ UNCHANGED <<claims, sent, replaced>>
      BY <3>1, ZenonT(30) DEF End, Goto, hubVars
    <3>3. (LockHeld /\ Asked /\ OwnCalls)'
      BY <3>2 DEF Inv, LockHeld, Asked, OwnCalls
    <3>4. (ClaimedIsFresh /\ NothingLeft /\ IdleHasNone)'
      BY <3>2 DEF Inv, ClaimedIsFresh, NothingLeft, IdleHasNone
    <3> QED
      BY <3>2, <3>3, <3>4, ZenonT(30) DEF Inv, SentIsClaimed, NoSilentDuplicate
  <2> QED
    BY <1>3, <2>1, <2>3, <2>4, <2>5, <2>6, <2>7, <2>8, <2>9, <2>10, ZenonT(30) DEF Run
<1>4. CASE UNCHANGED vars
  BY <1>4, <1>h DEF vars, hubVars
<1> QED
  BY <1>1, <1>2, <1>3, <1>4 DEF Next, Hub

\* The files, the hub and the runs stay well typed.
THEOREM TypeCorrect == Spec => []TypeOK
<1>1. Inv => TypeOK
  BY DEF Inv
<1> QED
  BY <1>1, InvInit, InvNext, PTL DEF Spec

\* A call that no run was asked to submit again is in at most one submission.
THEOREM NeverSubmittedTwice == Spec => []NoSilentDuplicate
<1>1. Inv => NoSilentDuplicate
  BY DEF Inv
<1> QED
  BY <1>1, InvInit, InvNext, PTL DEF Spec

\* The governance lock lets one run at a time look for its proposal and submit it.
THEOREM SubmitsAlone == Spec => []OneRunSubmits
<1>1. Inv => OneRunSubmits
  BY DEF Inv, LockHeld, OneRunSubmits
<1> QED
  BY <1>1, InvInit, InvNext, PTL DEF Spec

-----------------------------------------------------------------------------
(* The relay.                                                                *)

\* The calls are numbered from one, and there is a first one.
LEMMA CallFacts ==
  /\ Len(Batch) \in Nat
  /\ Edges = 1 .. Len(Batch)
  /\ 1 \in Edges
  /\ \A i \in Edges : i # Len(Batch) => i + 1 \in Edges
<1>1. Len(Batch) \in Nat /\ Edges = 1 .. Len(Batch)
  BY BatchAssumption DEF Edges
<1>2. Len(Batch) # 0
  BY BatchAssumption
<1> QED
  BY <1>1, <1>2

\* Nothing is approved, held or done before the first run.
LEMMA RelayInvInit == RelayInit => RelayInv
<1> SUFFICES ASSUME RelayInit PROVE RelayInv
  OBVIOUS
<1>1. RelayTypeOK
  <2>1. callable \in [Edges -> BOOLEAN]
    BY Zenon DEF RelayInit
  <2>2. at \in Edges /\ {outstanding, done} \subseteq SUBSET Edges
    BY CallFacts DEF RelayInit
  <2>3. /\ gateway \in [Edges -> {"none", "approved", "executed"}]
        /\ asg \in [Edges -> {"none", "pending", "ran", "cancelled"}]
    BY DEF RelayInit
  <2>4. due \in [Edges -> SUBSET {"chain", "host"}]
    BY DEF RelayInit
  <2>5. wasSettled \in BOOLEAN
    BY Zenon DEF RelayInit
  <2>6. /\ relay \in Reading \cup Sent \cup {"idle", "finish"}
        /\ result \in {"none", "ok", "incomplete"}
        /\ {failures, flips} \subseteq Nat
    BY DEF RelayInit
  <2> QED
    BY <2>1, <2>2, <2>3, <2>4, <2>5, <2>6 DEF RelayTypeOK
<1>2. ConsumedIsHeld /\ SettledEndsEarly /\ ReadsLast
  BY DEF RelayInit, ConsumedIsHeld, SettledEndsEarly, ReadsLast
<1>3. EstimateHolds /\ AcceptedDoneIsSettled
  BY DEF RelayInit, EstimateHolds, AcceptedDoneIsSettled
<1> QED
  BY <1>1, <1>2, <1>3 DEF RelayInv

\* A run that has finished with a call is at another one, or at its end.
LEMMA AdvanceMoves ==
  ASSUME RelayTypeOK, Advance
  PROVE  relay' \in {"locate", "finish"} /\ at' \in Edges
  BY CallFacts, ZenonT(30) DEF RelayTypeOK, Advance

\* What others do to the edge chains keeps what the run relies on.
LEMMA EnvironmentKeeps ==
  ASSUME RelayInv, NEW i \in Edges, Environment(i)
  PROVE  RelayInv'
<1> USE DEF RelayInv, RelayTypeOK
<1>1. CASE Approve(i)
  BY <1>1, ZenonT(30)
  DEF Approve, Others, Proved, bounds, ConsumedIsHeld, SettledEndsEarly, ReadsLast, EstimateHolds,
      AcceptedDoneIsSettled, Settled, CanExecute
<1>2. CASE ConsumeToo(i)
  BY <1>2
  DEF ConsumeToo, Others, CanConsume, Consumed, bounds, ConsumedIsHeld, SettledEndsEarly,
      ReadsLast, EstimateHolds, AcceptedDoneIsSettled, Settled, CanExecute
<1>3. CASE ExecuteToo(i)
  BY <1>3, ZenonT(30)
  DEF ExecuteToo, Others, Executed, bounds, ConsumedIsHeld, SettledEndsEarly,
      ReadsLast, EstimateHolds, AcceptedDoneIsSettled, Settled, CanExecute
<1>4. CASE Cancel(i)
  BY <1>4, ZenonT(30)
  DEF Cancel, Others, bounds, ConsumedIsHeld, SettledEndsEarly,
      ReadsLast, EstimateHolds, AcceptedDoneIsSettled, Settled, CanExecute
<1>5. CASE Tick(i)
  BY <1>5
  DEF Tick, Others, bounds, ConsumedIsHeld, SettledEndsEarly,
      ReadsLast, EstimateHolds, AcceptedDoneIsSettled, Settled, CanExecute
<1>6. CASE Flip(i)
  BY <1>6
  DEF Flip, ConsumedIsHeld, SettledEndsEarly,
      ReadsLast, EstimateHolds, AcceptedDoneIsSettled, Settled, CanExecute
<1> QED
  BY <1>1, <1>2, <1>3, <1>4, <1>5, <1>6, ZenonT(30) DEF Environment

\* A call that is given up or left behind becomes outstanding and nothing else changes.
LEMMA FailKeeps ==
  ASSUME RelayInv, Advance, outstanding' = outstanding \cup {at}, failures' \in Nat,
         UNCHANGED <<chainVars, result, done, wasSettled, flips>>
  PROVE  RelayInv'
<1>1. relay' \in {"locate", "finish"} /\ at' \in Edges
  BY AdvanceMoves, ZenonT(30) DEF RelayInv
<1> QED
  BY <1>1
  DEF RelayInv, RelayTypeOK, chainVars, ConsumedIsHeld, SettledEndsEarly, ReadsLast, EstimateHolds,
      AcceptedDoneIsSettled, Settled, Reading, Sent

\* A call may be counted as done when it is settled, or held for its operator.
LEMMA DoneKeeps ==
  ASSUME RelayInv, Done, UNCHANGED <<gateway, due, callable>>,
         \A i \in Edges : asg'[i] # asg[i] => asg[i] = "pending" /\ asg'[i] = "ran",
         asg' \in [Edges -> {"none", "pending", "ran", "cancelled"}],
         flips = 0 => \/ asg'[at] \in {"ran", "cancelled"}
                      \/ /\ Batch[at].ptype = "operator" /\ ~Batch[at].operator
                         /\ gateway[at] = "executed" /\ asg'[at] = "pending"
  PROVE  RelayInv'
<1>1. relay' \in {"locate", "finish"} /\ at' \in Edges
  BY AdvanceMoves, ZenonT(30) DEF RelayInv, Done
<1>2. done' = done \cup {at} /\ UNCHANGED <<outstanding, result, wasSettled, failures, flips>>
  BY DEF Done, bounds
<1>3. RelayTypeOK'
  BY <1>1, <1>2 DEF RelayInv, RelayTypeOK, Reading, Sent
<1>4. ConsumedIsHeld'
  BY ZenonT(30) DEF RelayInv, RelayTypeOK, ConsumedIsHeld
<1>5. SettledEndsEarly' /\ ReadsLast' /\ EstimateHolds'
  BY <1>1, <1>2, ZenonT(30) DEF RelayInv, SettledEndsEarly, ReadsLast, EstimateHolds
<1>6. AcceptedDoneIsSettled'
  <2> SUFFICES ASSUME flips = 0, NEW i \in done'
               PROVE  \/ asg'[i] \in {"ran", "cancelled"}
                      \/ /\ Batch[i].ptype = "operator" /\ ~Batch[i].operator
                         /\ gateway[i] = "executed" /\ asg'[i] = "pending"
    BY <1>2 DEF AcceptedDoneIsSettled, Settled
  <2>1. CASE i = at
    BY <2>1
  <2>2. CASE i \in done
    <3>1. i \in Edges
      BY <2>2 DEF RelayInv, RelayTypeOK
    <3> QED
      BY <2>2, <3>1 DEF RelayInv, AcceptedDoneIsSettled, Settled
  <2> QED
    BY <1>2, <2>1, <2>2
<1> QED
  BY <1>3, <1>4, <1>5, <1>6, ZenonT(30) DEF RelayInv

\* A step that only moves the run on keeps the invariant when what the next step relies on
\* holds and a settled call goes no further than it may.
LEMMA StepKeeps ==
  ASSUME RelayInv, NEW from \in Reading, NEW to \in Reading \cup Sent, Step(from, to),
         wasSettled => to \in {"await", "readConsumed", "readPending"},
         to = "landConsume" => gateway[at] # "none",
         to \in {"readPending", "execute", "sendExecute", "landExecute"} =>
             gateway[at] = "executed",
         to = "landExecute" => CanExecute(at),
         from # "locate"
  PROVE  RelayInv'
<1>1. /\ relay = from /\ relay' = to
      /\ UNCHANGED <<gateway, asg, due, callable, at, outstanding, result, done, wasSettled,
                     failures, flips>>
  BY DEF Step, Keep, chainVars, bounds
<1>2. RelayTypeOK'
  BY <1>1 DEF RelayInv, RelayTypeOK
<1>3. wasSettled => Settled(at)
  BY <1>1 DEF RelayInv, SettledEndsEarly, Reading
<1>4. ConsumedIsHeld' /\ AcceptedDoneIsSettled'
  BY <1>1, ZenonT(30) DEF RelayInv, ConsumedIsHeld, AcceptedDoneIsSettled, Settled
<1>5. SettledEndsEarly' /\ ReadsLast'
  BY <1>1, <1>3, ZenonT(30) DEF SettledEndsEarly, ReadsLast, Settled
<1>6. EstimateHolds'
  BY <1>1, ZenonT(30) DEF RelayInv, EstimateHolds, CanExecute, Settled
<1> QED
  BY <1>2, <1>4, <1>5, <1>6 DEF RelayInv

\* Every step of a run keeps what the properties rest on.
LEMMA RunKeeps ==
  ASSUME RelayInv, RelayRun
  PROVE  RelayInv'
<1> DEFINE early == {"await", "readConsumed", "readPending"}
<1>0. /\ \A s \in Reading \cup Sent : relay = s /\ s # "locate" /\ wasSettled =>
             s \in early /\ Settled(at)
      /\ RelayTypeOK
      /\ ConsumedIsHeld
      /\ gateway[at] \in {"none", "approved", "executed"}
      /\ Settled(at) => gateway[at] = "executed" /\ asg[at] # "pending"
  BY ZenonT(30) DEF RelayInv, SettledEndsEarly, RelayTypeOK, ConsumedIsHeld, Settled, Reading, Sent
<1>1. CASE BeginRelay
  BY <1>1, CallFacts
  DEF BeginRelay, RelayInv, RelayTypeOK, chainVars, bounds, ConsumedIsHeld, SettledEndsEarly, ReadsLast,
      EstimateHolds, AcceptedDoneIsSettled, Settled, Reading, Sent
<1>2. CASE Locate
  <2>1. /\ relay' \in {"await", "readConsumed"} /\ wasSettled' = Settled(at)
        /\ UNCHANGED <<gateway, asg, due, callable, at, outstanding, result, done, failures, flips>>
    BY <1>2 DEF Locate, chainVars, bounds
  <2>2. RelayTypeOK'
    BY <1>2, <2>1 DEF RelayInv, RelayTypeOK, Settled, Reading
  <2>3. ConsumedIsHeld' /\ SettledEndsEarly' /\ ReadsLast'
    BY <2>1, ZenonT(30) DEF RelayInv, ConsumedIsHeld, SettledEndsEarly, ReadsLast, Settled
  <2>4. EstimateHolds' /\ AcceptedDoneIsSettled'
    BY <2>1 DEF RelayInv, EstimateHolds, AcceptedDoneIsSettled, Settled
  <2> QED
    BY <2>2, <2>3, <2>4, ZenonT(30) DEF RelayInv
<1>3. CASE WaitForApproval
  <2>1. Step("await", "readConsumed")
    BY <1>3 DEF WaitForApproval
  <2> QED
    BY <2>1, StepKeeps DEF Reading
<1>4. CASE ReadConsumed
  <2> DEFINE to == IF gateway[at] = "executed" THEN "readPending"
                   ELSE IF Batch[at].route = "amplifier" THEN "readApproved"
                   ELSE "recheck"
  <2>1. Step("readConsumed", to)
    BY <1>4 DEF ReadConsumed
  <2>2. /\ to \in {"readPending", "readApproved", "recheck"}
        /\ gateway[at] = "executed" <=> to = "readPending"
    OBVIOUS
  <2>3. relay = "readConsumed"
    BY <2>1 DEF Step
  <2>4. wasSettled => gateway[at] = "executed"
    BY <1>0, <2>3 DEF Reading
  <2> HIDE DEF to
  <2> QED
    BY <2>1, <2>2, <2>4, StepKeeps DEF Reading
<1>5. CASE ReadPending
  <2>1. CASE asg[at] = "pending" /\ Step("readPending", "execute")
    <3>1. relay = "readPending"
      BY <2>1 DEF Step
    <3>2. gateway[at] = "executed" /\ ~wasSettled
      BY <1>0, <2>1, <3>1, ZenonT(30) DEF RelayInv, ReadsLast, Reading
    <3> QED
      BY <2>1, <3>2, StepKeeps DEF Reading
  <2>2. CASE relay = "readPending" /\ asg[at] # "pending" /\ Done /\ UNCHANGED chainVars
    <3>1. gateway[at] = "executed"
      BY <2>2 DEF RelayInv, ReadsLast
    <3>2. asg[at] \in {"ran", "cancelled"}
      BY <1>0, <2>2, <3>1 DEF RelayTypeOK, ConsumedIsHeld
    <3>3. UNCHANGED <<gateway, asg, due, callable>>
      BY <2>2 DEF chainVars
    <3> QED
      BY <1>0, <2>2, <3>2, <3>3, DoneKeeps DEF RelayTypeOK
  <2> QED
    BY <1>5, <2>1, <2>2 DEF ReadPending
<1>6. CASE ReadApproved \/ BuildProof \/ SubmitProof
  <2>1. PICK from \in {"readApproved", "prove", "sendProof"},
             to \in {"assert", "prove", "sendProof", "landProof"} : Step(from, to)
    BY <1>6 DEF ReadApproved, BuildProof, SubmitProof
  <2>2. relay = from
    BY <2>1 DEF Step
  <2>3. ~wasSettled
    BY <1>0, <2>2 DEF Reading
  <2> QED
    BY <2>1, <2>3, StepKeeps DEF Reading, Sent
<1>7. CASE AssertApproved
  <2>1. CASE Step("assert", "sendConsume") \/ Step("recheck", "sendConsume")
    <3>1. PICK from \in {"assert", "recheck"} : Step(from, "sendConsume")
      BY <2>1
    <3>2. relay = from
      BY <3>1 DEF Step
    <3>3. ~wasSettled
      BY <1>0, <3>2 DEF Reading
    <3> QED
      BY <3>1, <3>3, StepKeeps DEF Reading
  <2>2. CASE Fail
    BY <1>0, <2>2, FailKeeps DEF Fail, bounds, RelayTypeOK
  <2> QED
    BY <1>7, <2>1, <2>2 DEF AssertApproved
<1>8. CASE ConsumeOnAsg
  <2>1. CASE CanConsume(at) /\ Step("sendConsume", "landConsume")
    <3>1. relay = "sendConsume" /\ gateway[at] # "none"
      BY <2>1 DEF Step, CanConsume
    <3>2. ~wasSettled
      BY <1>0, <3>1 DEF Reading
    <3> QED
      BY <2>1, <3>1, <3>2, StepKeeps DEF Reading, Sent
  <2>2. CASE Fail
    BY <1>0, <2>2, FailKeeps DEF Fail, bounds, RelayTypeOK
  <2> QED
    BY <1>8, <2>1, <2>2 DEF ConsumeOnAsg
<1>9. CASE Execute
  <2>1. relay = "execute"
    BY <1>9 DEF Execute, Step
  <2>2. gateway[at] = "executed" /\ ~wasSettled
    BY <1>0, <2>1 DEF RelayInv, ReadsLast, Reading
  <2>3. CASE /\ Batch[at].ptype = "operator" /\ ~Batch[at].operator
             /\ Done /\ UNCHANGED chainVars
    <3>1. asg[at] \in {"pending", "ran", "cancelled"}
      BY <1>0, <2>2 DEF RelayTypeOK, ConsumedIsHeld
    <3>2. UNCHANGED <<gateway, asg, due, callable>>
      BY <2>3 DEF chainVars
    <3> QED
      BY <1>0, <2>2, <2>3, <3>1, <3>2, DoneKeeps DEF RelayTypeOK
  <2>4. CASE Step("execute", "sendExecute")
    BY <2>2, <2>4, StepKeeps DEF Reading
  <2>5. CASE Fail
    BY <1>0, <2>5, FailKeeps DEF Fail, bounds, RelayTypeOK
  <2> QED
    BY <1>9, <2>3, <2>4, <2>5, ZenonT(30) DEF Execute
<1>10. CASE SendExecute
  <2>1. CASE CanExecute(at) /\ Step("sendExecute", "landExecute")
    <3>1. relay = "sendExecute"
      BY <2>1 DEF Step
    <3>2. gateway[at] = "executed" /\ ~wasSettled
      BY <1>0, <3>1 DEF RelayInv, ReadsLast, Reading
    <3> QED
      BY <2>1, <3>2, StepKeeps DEF Reading, Sent
  <2>2. CASE Fail
    BY <1>0, <2>2, FailKeeps DEF Fail, bounds, RelayTypeOK
  <2> QED
    BY <1>10, <2>1, <2>2 DEF SendExecute
<1>11. CASE relay = "landProof" /\ Proved(at) /\ relay' = "assert" /\ Keep /\ UNCHANGED callable
  <2>1. ~wasSettled
    BY <1>0, <1>11 DEF Sent
  <2> QED
    BY <1>11, <2>1
    DEF Proved, Keep, bounds, RelayInv, RelayTypeOK, ConsumedIsHeld, SettledEndsEarly, ReadsLast,
        EstimateHolds, AcceptedDoneIsSettled, Settled, CanExecute, Reading
<1>12. CASE relay = "landConsume" /\ Consumed(at) /\ relay' = "execute" /\ Keep /\ UNCHANGED callable
  <2>1. ~wasSettled /\ gateway[at] \in {"approved", "executed"}
    BY <1>0, <1>12 DEF Sent, RelayInv, ReadsLast
  <2>2. /\ UNCHANGED <<at, outstanding, result, done, wasSettled, failures, flips, callable>>
        /\ relay' = "execute"
    BY <1>12 DEF Keep, bounds
  <2>3. CASE gateway[at] = "approved"
    <3>1. /\ gateway' = [gateway EXCEPT ![at] = "executed"]
          /\ asg' = [asg EXCEPT ![at] = "pending"]
          /\ due' = [due EXCEPT ![at] = {}]
      BY <1>12, <2>3, ZenonT(30) DEF Consumed, CanConsume
    <3>2. at \notin done \/ flips # 0
      BY <1>0, <2>3, ZenonT(30) DEF RelayInv, RelayTypeOK, AcceptedDoneIsSettled
    <3>3. RelayTypeOK' /\ ConsumedIsHeld'
      BY <2>2, <3>1, ZenonT(30) DEF RelayInv, RelayTypeOK, ConsumedIsHeld, Reading
    <3>4. SettledEndsEarly' /\ ReadsLast' /\ EstimateHolds'
      BY <2>1, <2>2, <3>1 DEF RelayInv, RelayTypeOK, SettledEndsEarly, ReadsLast, EstimateHolds
    <3>5. AcceptedDoneIsSettled'
      BY <2>2, <3>1, <3>2, ZenonT(30) DEF RelayInv, RelayTypeOK, AcceptedDoneIsSettled, Settled
    <3> QED
      BY <3>3, <3>4, <3>5 DEF RelayInv
  <2>4. CASE gateway[at] = "executed"
    <3>1. UNCHANGED <<gateway, asg, due>>
      BY <1>12, <2>4, ZenonT(30) DEF Consumed, CanConsume
    <3> QED
      BY <2>1, <2>2, <2>4, <3>1, ZenonT(30)
      DEF RelayInv, RelayTypeOK, ConsumedIsHeld, SettledEndsEarly, ReadsLast, EstimateHolds,
          AcceptedDoneIsSettled, Settled, Reading
  <2> QED
    BY <2>1, <2>3, <2>4, ZenonT(30)
<1>13. CASE relay = "landExecute" /\ Executed(at) /\ Done /\ UNCHANGED callable
  <2>1. UNCHANGED <<gateway, due, callable>>
    BY <1>13 DEF Executed
  <2>2. asg' = IF CanExecute(at) THEN [asg EXCEPT ![at] = "ran"] ELSE asg
    BY <1>13 DEF Executed
  <2>3. CanExecute(at) => asg[at] = "pending"
    BY DEF CanExecute
  <2>4. flips = 0 => CanExecute(at) \/ asg[at] \in {"ran", "cancelled"}
    BY <1>13 DEF RelayInv, EstimateHolds, Settled
  <2>5. /\ asg' \in [Edges -> {"none", "pending", "ran", "cancelled"}]
        /\ \A i \in Edges : asg'[i] # asg[i] => asg[i] = "pending" /\ asg'[i] = "ran"
        /\ flips = 0 => asg'[at] \in {"ran", "cancelled"}
    BY <1>0, <2>2, <2>3, <2>4, ZenonT(30) DEF RelayTypeOK
  <2> QED
    BY <1>13, <2>1, <2>5, DoneKeeps
<1>14. CASE Finish
  BY <1>14, ZenonT(30)
  DEF Finish, RelayInv, RelayTypeOK, chainVars, bounds, ConsumedIsHeld, SettledEndsEarly, ReadsLast,
      EstimateHolds, AcceptedDoneIsSettled, Settled
<1>15. CASE Land
  BY <1>11, <1>12, <1>13, <1>15 DEF Land
<1> QED
  BY <1>1, <1>2, <1>3, <1>4, <1>5, <1>6, <1>7, <1>8, <1>9, <1>10, <1>14, <1>15, ZenonT(30) DEF RelayRun

\* Runs, failures, crashes and everybody else keep what the properties rest on.
LEMMA RelayInvNext == RelayInv /\ [RelayNext]_relayVars => RelayInv'
<1> SUFFICES ASSUME RelayInv, [RelayNext]_relayVars PROVE RelayInv'
  OBVIOUS
<1>1. CASE RelayRun
  BY <1>1, RunKeeps, ZenonT(30)
<1>2. CASE GiveUpCall
  BY <1>2, FailKeeps DEF GiveUpCall, RelayInv, RelayTypeOK
<1>3. CASE Crash
  <2>1. RelayTypeOK'
    BY <1>3 DEF Crash, RelayInv, RelayTypeOK, chainVars
  <2>2. ConsumedIsHeld'
    BY <1>3, ZenonT(30) DEF Crash, RelayInv, ConsumedIsHeld, chainVars
  <2>3. SettledEndsEarly' /\ ReadsLast' /\ EstimateHolds'
    BY <1>3, ZenonT(30) DEF Crash, RelayInv, SettledEndsEarly, ReadsLast, EstimateHolds, chainVars
  <2>4. AcceptedDoneIsSettled'
    BY <1>3, ZenonT(30) DEF Crash, RelayInv, AcceptedDoneIsSettled, Settled, chainVars
  <2> QED
    BY <2>1, <2>2, <2>3, <2>4 DEF RelayInv
<1>4. ASSUME NEW i \in Edges, Environment(i) PROVE RelayInv'
  BY <1>4, EnvironmentKeeps, ZenonT(30)
<1>5. CASE UNCHANGED relayVars
  BY <1>5, ZenonT(30)
  DEF relayVars, RelayInv, RelayTypeOK, chainVars, bounds, ConsumedIsHeld, SettledEndsEarly, ReadsLast,
      EstimateHolds, AcceptedDoneIsSettled, Settled, CanExecute
<1> QED
  BY <1>1, <1>2, <1>3, <1>4, <1>5 DEF RelayNext

\* relay_call looks at the gateway and at the ASG before it sends anything: for a call that
\* had run or was cancelled when the run came to it, no proof, consumption or execution is
\* sent, whatever others do meanwhile.
THEOREM NothingIsReplayed == RelaySpec => []SettledIsNotReplayed
<1>1. RelayInv => SettledIsNotReplayed
  BY DEF RelayInv, SettledEndsEarly, SettledIsNotReplayed, Sent
<1> QED
  BY <1>1, RelayInvInit, RelayInvNext, PTL DEF RelaySpec

\* What relay_all does not list as outstanding has run, was cancelled, or waits for its
\* operator, as long as the targets accept their calls.
THEOREM DoneIsSettled == RelaySpec => []AcceptedDoneIsSettled
<1>1. RelayInv => AcceptedDoneIsSettled
  BY DEF RelayInv
<1> QED
  BY <1>1, RelayInvInit, RelayInvNext, PTL DEF RelaySpec

\* The run never leaves the calls of the proposal, and the chains' records stay well formed.
THEOREM RelayTypeCorrect == RelaySpec => []RelayTypeOK
<1>1. RelayInv => RelayTypeOK
  BY DEF RelayInv
<1> QED
  BY <1>1, RelayInvInit, RelayInvNext, PTL DEF RelaySpec

-----------------------------------------------------------------------------
(* The searches.                                                             *)

\* While first_block_at widens, the upper end is late enough.
Widening ==
    stage = "widen" =>
        /\ search = "first_block_at"
        /\ lower = 0
        /\ time[upper] >= want

\* While execution_height goes down, the upper end is late enough once it has moved.
Lowering ==
    stage = "start" =>
        /\ lower = latest \/ (search = "execution_height" /\ 1 <= lower /\ lower < upper)
        /\ upper = latest \/ time[upper] >= want
        /\ lower < upper => time[upper] >= want
        /\ lower <= upper

\* The window holds the block looked for; execution_height may not have looked at the
\* first block, and neither search may have a window at all.
Window ==
    stage \in {"bisect", "done"} =>
        \/ /\ search = "first_block_at"
           /\ upper = 0 /\ time[upper] >= want
        \/ /\ search = "first_block_at"
           /\ lower < upper /\ time[lower] < want /\ time[upper] >= want
        \/ /\ search = "first_block_at" /\ stage = "done"
           /\ upper = latest /\ time[latest] < want
        \/ /\ search = "execution_height"
           /\ lower = latest /\ upper = latest
           /\ latest = 1 \/ time[latest] < want
        \/ /\ search = "execution_height"
           /\ 1 <= lower /\ lower < upper /\ time[upper] >= want
           /\ lower = 1 \/ time[lower] < want

\* What is left of a window once it was bisected.
Narrow == stage = "done" => lower + 1 >= upper \/ (upper = latest /\ time[latest] < want)

SearchInv ==
    /\ SearchTypeOK
    /\ Monotone(time)
    /\ search = "execution_height" => latest > 0
    /\ upper <= latest
    /\ Widening
    /\ Lowering
    /\ Window
    /\ Narrow

\* The searches begin with the latest block.
LEMMA SearchInvInit == SearchInit => SearchInv
  BY BoundsAssumption, StrideAssumption
  DEF SearchInit, SearchInv, SearchTypeOK, Widening, Lowering, Window, Narrow, Heights, Times

\* The middle of a window of at least two blocks lies strictly inside.
LEMMA MidInside ==
  ASSUME NEW a \in Nat, NEW b \in Nat, a + 1 < b
  PROVE  /\ a + (b - a) \div 2 \in Nat
         /\ a < a + (b - a) \div 2
         /\ a + (b - a) \div 2 < b
  OBVIOUS

\* Every step keeps the window around the block looked for.
LEMMA SearchInvNext == SearchInv /\ [SearchNext]_searchVars => SearchInv'
<1> SUFFICES ASSUME SearchInv, [SearchNext]_searchVars PROVE SearchInv'
  OBVIOUS
<1> USE BoundsAssumption DEF SearchInv, SearchTypeOK, Heights, Times
<1>1. CASE Start
  <2>1. (search = "execution_height" => latest > 0)' /\ Monotone(time)' /\ UNCHANGED chain
    BY <1>1 DEF Start, chain, Monotone
  <2>2. SearchTypeOK' /\ upper' <= latest'
    BY <1>1 DEF Start, chain
  <2>3. CASE time[latest] < want
    <3>1. stage' = "done" /\ lower' = lower /\ upper' = upper
      BY <1>1, <2>3 DEF Start
    <3>2. upper = latest /\ lower = latest /\ search = "first_block_at"
      BY <1>1, <2>3 DEF Start, Lowering
    <3> QED
      BY <2>1, <2>2, <2>3, <3>1, <3>2 DEF chain, Widening, Lowering, Window, Narrow
  <2>4. CASE ~(time[latest] < want)
    <3>1. stage' = "widen" /\ lower' = 0 /\ upper' = upper
      BY <1>1, <2>4 DEF Start
    <3>2. search = "first_block_at" /\ time[upper] >= want
      BY <1>1, <2>4 DEF Start, Lowering
    <3> QED
      BY <2>1, <2>2, <3>1, <3>2 DEF chain, Widening, Lowering, Window, Narrow
  <2> HIDE DEF SearchInv, SearchTypeOK, Heights, Times
  <2> QED
    BY <2>3, <2>4, ZenonT(30)
<1>2. CASE Widen
  <2> DEFINE probe == SaturatingSub(upper, distance, 0)
  <2>1. probe \in 0 .. upper /\ (upper > 0 => probe < upper)
    BY DEF SaturatingSub
  <2>2. Monotone(time)' /\ UNCHANGED chain /\ stage = "widen" /\ lower < upper
    BY <1>2, ZenonT(30) DEF Widen, chain, Monotone
  <2> HIDE DEF probe
  <2>3. CASE time[probe] < want
    <3>1. lower' = probe /\ stage' = "bisect" /\ upper' = upper /\ distance' = distance
      BY <1>2, <2>3 DEF Widen, probe
    <3>2. probe < upper
      BY <2>1, <2>2, <2>3, ZenonT(30) DEF Widening
    <3> QED
      BY <2>1, <2>2, <2>3, <3>1, <3>2 DEF chain, Widening, Lowering, Window, Narrow
  <2>4. CASE ~(time[probe] < want)
    <3>1. upper' = probe /\ distance' = 2 * distance /\ lower' = lower /\ stage' = stage
      BY <1>2, <2>4, ZenonT(30) DEF Widen, probe
    <3> QED
      BY <2>1, <2>2, <2>4, <3>1 DEF chain, Widening, Lowering, Window, Narrow
  <2> HIDE DEF SearchInv, SearchTypeOK, Heights, Times
  <2> QED
    BY <2>3, <2>4, ZenonT(30)
<1>3. CASE WidenEnd
  BY <1>3 DEF WidenEnd, chain, Monotone, Widening, Lowering, Window, Narrow
<1>4. CASE Lower
  <2> DEFINE below == SaturatingSub(lower, distance, 1)
  <2>1. Monotone(time)' /\ UNCHANGED chain /\ stage = "start" /\ search = "execution_height"
    BY <1>4, ZenonT(30) DEF Lower, LowerTo, chain, Monotone
  <2>2. CASE lower > 1 /\ time[lower] >= want
    <3>1. below \in 1 .. lower
      BY <2>2 DEF SaturatingSub
    <3>2. below < lower
      BY <2>2 DEF SaturatingSub
    <3> HIDE DEF below
    <3>3. upper' = lower /\ lower' = below /\ distance' = 2 * distance /\ stage' = stage
      BY <1>4, <2>2, ZenonT(30) DEF Lower, LowerTo, below
    <3>4. SearchTypeOK' /\ upper' <= latest'
      BY <2>1, <3>1, <3>3 DEF chain, Lowering
    <3>5. Lowering'
      BY <2>1, <2>2, <3>1, <3>2, <3>3 DEF chain, Lowering
    <3> QED
      BY <2>1, <3>3, <3>4, <3>5 DEF chain, Widening, Window, Narrow
  <2>3. CASE ~(lower > 1 /\ time[lower] >= want)
    <3>1. stage' = "bisect" /\ UNCHANGED <<lower, upper, distance>>
      BY <1>4, <2>3 DEF Lower, LowerTo
    <3>2. lower = 1 \/ time[lower] < want
      BY <2>1, <2>3 DEF Lowering
    <3>3. (lower = latest /\ upper = latest) \/ (1 <= lower /\ lower < upper)
      BY <2>1 DEF Lowering
    <3>4. Window'
      BY <2>1, <3>1, <3>2, <3>3 DEF chain, Lowering, Window
    <3> QED
      BY <2>1, <3>1, <3>4 DEF chain, Widening, Lowering, Narrow
  <2> HIDE DEF SearchInv, SearchTypeOK, Heights, Times
  <2> QED
    BY <2>2, <2>3, ZenonT(30)
<1>5. CASE Bisect
  <2>1. Monotone(time)' /\ UNCHANGED <<chain, distance>> /\ stage = "bisect"
    BY <1>5, ZenonT(30) DEF Bisect, Halve, chain, Monotone
  <2>2. CASE lower + 1 < upper
    <3> DEFINE mid == lower + (upper - lower) \div 2
    <3>1. mid \in Nat /\ lower < mid /\ mid < upper
      BY <2>2, MidInside
    <3>2. stage' = stage
      BY <1>5, <2>2, ZenonT(30) DEF Bisect, Halve
    <3>3. \/ time[mid] < want /\ lower' = mid /\ upper' = upper
          \/ time[mid] >= want /\ upper' = mid /\ lower' = lower
      <4>1. time[mid] \in Times
        BY <3>1
      <4> QED
        BY <1>5, <2>2, <4>1 DEF Bisect, Halve
    <3> HIDE DEF mid
    <3>4. SearchTypeOK' /\ upper' <= latest' /\ Widening' /\ Lowering' /\ Narrow'
      <4>1. lower' \in Heights /\ upper' \in Heights /\ upper' <= latest
        BY <3>1, <3>3
      <4>2. SearchTypeOK' /\ upper' <= latest'
        BY <2>1, <3>2, <4>1, ZenonT(30) DEF chain
      <4>3. Widening' /\ Lowering' /\ Narrow'
        BY <2>1, <3>2 DEF Widening, Lowering, Narrow
      <4> QED
        BY <4>2, <4>3, ZenonT(30)
    <3>5. Window'
      <4>1. CASE search = "first_block_at"
        BY <2>1, <2>2, <3>1, <3>2, <3>3, <4>1 DEF chain, Window
      <4>2. CASE search = "execution_height"
        <5>1. 1 <= lower /\ time[upper] >= want /\ (lower = 1 \/ time[lower] < want)
          BY <2>1, <2>2, <4>2 DEF Window
        <5>2. 1 <= lower' /\ lower' < upper' /\ time[upper'] >= want
          BY <2>2, <3>1, <3>3, <5>1
        <5>3. lower' = 1 \/ time[lower'] < want
          BY <3>3, <5>1, ZenonT(30)
        <5> QED
          BY <2>1, <4>2, <5>2, <5>3, ZenonT(30) DEF chain, Window
      <4> QED
        BY <4>1, <4>2, ZenonT(30)
    <3> QED
      BY <2>1, <3>4, <3>5 DEF chain
  <2>3. CASE ~(lower + 1 < upper)
    <3>1. stage' = "done" /\ UNCHANGED <<lower, upper>>
      BY <1>5, <2>3 DEF Bisect, Halve
    <3> QED
      BY <2>1, <2>3, <3>1 DEF chain, Widening, Lowering, Window, Narrow
  <2> HIDE DEF SearchInv, SearchTypeOK, Heights, Times
  <2> QED
    BY <2>2, <2>3, ZenonT(30)
<1>6. CASE Finished \/ UNCHANGED searchVars
  BY <1>6, ZenonT(30) DEF Finished, searchVars, chain, Monotone, Widening, Lowering, Window, Narrow
<1> QED
  BY <1>1, <1>2, <1>3, <1>4, <1>5, <1>6, ZenonT(30) DEF SearchNext

\* The bounds of the window stay block heights: no stride or middle leaves the chain.
THEOREM SearchTypeCorrect == SearchSpec => []SearchTypeOK
<1>1. SearchInv => SearchTypeOK
  BY DEF SearchInv
<1> QED
  BY <1>1, SearchInvInit, SearchInvNext, PTL DEF SearchSpec

\* first_block_at returns the first block at or after the time, or the latest block of a
\* chain that has not reached it.
THEOREM FindsTheFirst == SearchSpec => []StartsAtTheFirst
<1>1. SearchInv => StartsAtTheFirst
  <2> SUFFICES ASSUME SearchInv, stage = "done", search = "first_block_at",
                      ~(upper = latest /\ time[latest] < want)
               PROVE  First(upper)
    BY DEF StartsAtTheFirst
  <2> USE BoundsAssumption DEF SearchInv, SearchTypeOK, Heights, Times
  <2>1. CASE upper = 0 /\ time[upper] >= want
    BY <2>1 DEF First
  <2>2. CASE lower + 1 = upper /\ time[lower] < want /\ time[upper] >= want
    <3>1. \A i \in Heights : i < upper => time[i] <= time[lower]
      BY <2>2 DEF Monotone
    <3> QED
      BY <2>2, <3>1 DEF First
  <2> QED
    BY <2>1, <2>2 DEF Window, Narrow
<1> QED
  BY <1>1, SearchInvInit, SearchInvNext, PTL DEF SearchSpec

\* The blocks scanned around execution_height hold the block that ran the proposal.
THEOREM FindsTheExecution == SearchSpec => []ScansTheExecution
<1>1. SearchInv => ScansTheExecution
  BY BoundsAssumption
  DEF SearchInv, SearchTypeOK, Monotone, Window, Narrow, ScansTheExecution, Scanned, Heights, Times
<1> QED
  BY <1>1, SearchInvInit, SearchInvNext, PTL DEF SearchSpec
=============================================================================
