------------------------------ MODULE Propose -------------------------------
(***************************************************************************)
(* axe propose (commands/propose.rs and commands/propose/): terminals that     *)
(* share one data directory submit governance proposals, each a set of calls   *)
(* to edge chains.  A run holds the network's lock while it looks for its       *)
(* proposal in the hub's history and, failing that, leaves one marker for the   *)
(* whole plan and one claim per call before it broadcasts.  A broadcast may be   *)
(* lost or land late, its answer may be lost, a run may stop anywhere, and the   *)
(* LCD that serves the history may lag.                                       *)
(***************************************************************************)
EXTENDS Naturals, Sequences

CONSTANTS
    Terminals,     \* processes that run axe propose
    Calls,         \* the edge calls (edge, ASG, target, calldata)
    Plans,         \* the proposals asked for: sets of calls
    MaxSent        \* how many submissions are broadcast

ASSUME PlansAssumption == Plans \subseteq SUBSET Calls
ASSUME MaxSentAssumption == MaxSent \in Nat

VARIABLES
    markers,    \* proposals/<plan>.pending files
    claims,     \* proposals/calls/<call>.pending files
    lock,       \* the terminals that hold the network's governance lock
    sent,       \* submissions that were broadcast, numbered
    count,      \* how many there are
    pool,       \* the ones the hub has yet to include or drop
    history,    \* the hub's proposals, in the order of their ids
    passed,     \* ids of proposals that passed
    failed,     \* ids of proposals that were rejected or failed
    pc,         \* where each terminal's run is
    plan,       \* its plan, {} when it has none
    new,        \* whether it was started with --new-proposal
    todo,       \* the calls it has yet to claim
    mine,       \* the number of its own submission
    id,         \* the proposal it was given with --proposal-id, or follows; 0 if none
    replaced    \* calls some run was asked to submit again with --new-proposal

fileVars == <<markers, claims, lock>>
hubVars == <<sent, count, pool, history, passed, failed>>
runVars == <<plan, new, todo, mine, id>>
vars == <<fileVars, hubVars, pc, runVars, replaced>>

Submissions == [number : 1 .. MaxSent, plan : Plans]

\* The stages during which a run holds the lock.
Guarded == {"find", "check", "claimPlan", "recheck", "claimCalls", "broadcast", "answer"}

TypeOK ==
    /\ markers \subseteq Plans
    /\ claims \subseteq Calls
    /\ lock \subseteq Terminals
    /\ sent \subseteq Submissions
    /\ count \in 0 .. MaxSent
    /\ pool \subseteq sent
    /\ history \in Seq(Submissions)
    /\ {passed, failed} \subseteq SUBSET (1 .. Len(history))
    /\ pc \in [Terminals -> Guarded \cup {"idle", "monitor"}]
    /\ plan \in [Terminals -> Plans \cup {{}}]
    /\ \A t \in Terminals : pc[t] # "idle" => plan[t] \in Plans
    /\ new \in [Terminals -> BOOLEAN]
    /\ todo \in [Terminals -> SUBSET Calls]
    /\ mine \in [Terminals -> 0 .. MaxSent]
    /\ id \in [Terminals -> 0 .. Len(history)]
    /\ replaced \subseteq Calls

Init ==
    /\ markers = {}
    /\ claims = {}
    /\ lock = {}
    /\ sent = {}
    /\ count = 0
    /\ pool = {}
    /\ history = <<>>
    /\ passed = {}
    /\ failed = {}
    /\ pc = [t \in Terminals |-> "idle"]
    /\ plan = [t \in Terminals |-> {}]
    /\ new = [t \in Terminals |-> FALSE]
    /\ todo = [t \in Terminals |-> {}]
    /\ mine = [t \in Terminals |-> 0]
    /\ id = [t \in Terminals |-> 0]
    /\ replaced = {}

-----------------------------------------------------------------------------
(* The hub.                                                                  *)

Include(s) ==
    /\ s \in pool
    /\ pool' = pool \ {s}
    /\ history' = Append(history, s)
    /\ UNCHANGED <<fileVars, sent, count, passed, failed, pc, runVars, replaced>>

Drop(s) ==
    /\ s \in pool
    /\ pool' = pool \ {s}
    /\ UNCHANGED <<fileVars, sent, count, history, passed, failed, pc, runVars, replaced>>

Vote(i) ==
    /\ i \notin passed \cup failed
    /\ \/ passed' = passed \cup {i} /\ UNCHANGED failed
       \/ failed' = failed \cup {i} /\ UNCHANGED passed
    /\ UNCHANGED <<fileVars, sent, count, pool, history, pc, runVars, replaced>>

-----------------------------------------------------------------------------
(* One run of axe propose.                                                   *)

Goto(t, stage) == pc' = [pc EXCEPT ![t] = stage]

\* A run that does not look at the lock.
BeginUnlocked(t) ==
    /\ pc[t] = "idle"
    /\ \E p \in Plans, n \in BOOLEAN, given \in 0 .. Len(history) :
          /\ n => given = 0
          /\ plan' = [plan EXCEPT ![t] = p]
          /\ id' = [id EXCEPT ![t] = given]
          /\ new' = [new EXCEPT ![t] = n]
          /\ replaced' = IF n THEN replaced \cup p ELSE replaced
    /\ lock' = lock \cup {t}
    /\ Goto(t, "find")
    /\ UNCHANGED <<markers, claims, hubVars, todo, mine>>

\* The plan is resolved and the lock taken; a run that finds it taken ends.
Begin(t) ==
    /\ pc[t] = "idle"
    /\ lock = {}
    /\ \E p \in Plans, n \in BOOLEAN, given \in 0 .. Len(history) :
          /\ n => given = 0
          /\ plan' = [plan EXCEPT ![t] = p]
          /\ id' = [id EXCEPT ![t] = given]
          /\ new' = [new EXCEPT ![t] = n]
          /\ replaced' = IF n THEN replaced \cup p ELSE replaced
    /\ lock' = {t}
    /\ Goto(t, "find")
    /\ UNCHANGED <<markers, claims, hubVars, todo, mine>>

\* The proposals in the first `seen` entries of the history that carry exactly the
\* run's calls.
Matching(t, seen) == {i \in 1 .. seen : history[i].plan = plan[t]}

Resume(t, i) ==
    /\ id' = [id EXCEPT ![t] = i]
    /\ lock' = lock \ {t}
    /\ Goto(t, "monitor")
    /\ UNCHANGED <<markers, claims, hubVars, plan, new, todo, mine, replaced>>

\* The newest matching proposal the LCD shows is resumed, whatever became of it.
Find(t) ==
    /\ pc[t] = "find"
    /\ ~new[t] /\ id[t] = 0
    /\ \E seen \in 0 .. Len(history) :
          \E i \in Matching(t, seen) :
              /\ \A j \in Matching(t, seen) : j <= i
              /\ Resume(t, i)

FindById(t) ==
    /\ pc[t] = "find"
    /\ id[t] \in Matching(t, Len(history))
    /\ Resume(t, id[t])

FindNone(t) ==
    /\ pc[t] = "find"
    /\ id[t] = 0
    /\ new[t] \/ \E seen \in 0 .. Len(history) : Matching(t, seen) = {}
    /\ Goto(t, "check")
    /\ UNCHANGED <<fileVars, hubVars, runVars, replaced>>

\* Marker and claims are looked at before anything is prepared.
Unclaimed(t) == new[t] \/ (plan[t] \notin markers /\ plan[t] \cap claims = {})

Check(t) ==
    /\ pc[t] = "check"
    /\ Unclaimed(t)
    /\ Goto(t, "claimPlan")
    /\ UNCHANGED <<fileVars, hubVars, runVars, replaced>>

\* After the review the marker is created, and only if it is not there: a run with
\* --new-proposal removes it first.
RemoveMarker(t) ==
    /\ pc[t] = "claimPlan"
    /\ new[t]
    /\ plan[t] \in markers
    /\ markers' = markers \ {plan[t]}
    /\ UNCHANGED <<claims, lock, hubVars, pc, runVars, replaced>>

ClaimPlan(t) ==
    /\ pc[t] = "claimPlan"
    /\ plan[t] \notin markers
    /\ markers' = markers \cup {plan[t]}
    /\ Goto(t, "recheck")
    /\ UNCHANGED <<claims, lock, hubVars, runVars, replaced>>

\* The claims of all calls are checked once more before the first is made.
Recheck(t) ==
    /\ pc[t] = "recheck"
    /\ new[t] \/ plan[t] \cap claims = {}
    /\ todo' = [todo EXCEPT ![t] = plan[t]]
    /\ Goto(t, "claimCalls")
    /\ UNCHANGED <<fileVars, hubVars, plan, new, mine, id, replaced>>

RemoveClaim(t, c) ==
    /\ pc[t] = "claimCalls"
    /\ new[t]
    /\ c \in todo[t] \cap claims
    /\ claims' = claims \ {c}
    /\ UNCHANGED <<markers, lock, hubVars, pc, runVars, replaced>>

\* A claim that never reaches the disk.
ClaimCallInMemory(t, c) ==
    /\ pc[t] = "claimCalls"
    /\ c \in todo[t] \ claims
    /\ todo' = [todo EXCEPT ![t] = @ \ {c}]
    /\ UNCHANGED <<fileVars, hubVars, pc, plan, new, mine, id, replaced>>

ClaimCall(t, c) ==
    /\ pc[t] = "claimCalls"
    /\ c \in todo[t] \ claims
    /\ claims' = claims \cup {c}
    /\ todo' = [todo EXCEPT ![t] = @ \ {c}]
    /\ UNCHANGED <<markers, lock, hubVars, pc, plan, new, mine, id, replaced>>

Claimed(t) ==
    /\ pc[t] = "claimCalls"
    /\ todo[t] = {}
    /\ Goto(t, "broadcast")
    /\ UNCHANGED <<fileVars, hubVars, runVars, replaced>>

\* sign_and_broadcast_cosmos_tx sends the submission once ...
Broadcast(t) ==
    /\ pc[t] = "broadcast"
    /\ count < MaxSent
    /\ count' = count + 1
    /\ LET s == [number |-> count + 1, plan |-> plan[t]]
       IN  /\ sent' = sent \cup {s}
           /\ pool' = pool \cup {s}
    /\ mine' = [mine EXCEPT ![t] = count + 1]
    /\ Goto(t, "answer")
    /\ UNCHANGED <<fileVars, history, passed, failed, plan, new, todo, id, replaced>>

\* ... and waits for its inclusion, which gives the proposal's id.
Answer(t) ==
    /\ pc[t] = "answer"
    /\ \E i \in 1 .. Len(history) : history[i].number = mine[t] /\ Resume(t, i)

\* The process is gone, and with it what it knew and its lock.
End(t) ==
    /\ Goto(t, "idle")
    /\ lock' = lock \ {t}
    /\ plan' = [plan EXCEPT ![t] = {}]
    /\ new' = [new EXCEPT ![t] = FALSE]
    /\ todo' = [todo EXCEPT ![t] = {}]
    /\ mine' = [mine EXCEPT ![t] = 0]
    /\ id' = [id EXCEPT ![t] = 0]
    /\ UNCHANGED <<markers, claims, hubVars, replaced>>

\* A passed proposal is relayed (see ProposeRelay); any other verdict is an error.
Monitor(t) ==
    /\ pc[t] = "monitor"
    /\ id[t] \in passed \cup failed
    /\ End(t)

\* A run may end anywhere: a failed request, a check that refuses, a review that
\* is declined, or the process dies.
GiveUp(t) ==
    /\ pc[t] # "idle"
    /\ End(t)

-----------------------------------------------------------------------------

Hub ==
    \/ \E s \in pool : Include(s) \/ Drop(s)
    \/ \E i \in 1 .. Len(history) : Vote(i)

Run(t) ==
    \/ Begin(t)
    \/ Find(t) \/ FindById(t) \/ FindNone(t)
    \/ Check(t)
    \/ RemoveMarker(t) \/ ClaimPlan(t)
    \/ Recheck(t)
    \/ \E c \in Calls : RemoveClaim(t, c) \/ ClaimCall(t, c)
    \/ Claimed(t)
    \/ Broadcast(t)
    \/ Answer(t)
    \/ Monitor(t)
    \/ GiveUp(t)

Next == Hub \/ \E t \in Terminals : Run(t)

Spec == Init /\ [][Next]_vars

-----------------------------------------------------------------------------
(* Properties.                                                               *)

\* Unless a run was asked to submit it again, a call is broadcast in at most one
\* proposal: not after a crash, a lost answer or a lagging history, and not as part
\* of another batch.
NoSilentDuplicate ==
    \A c \in Calls \ replaced : \A s, u \in sent :
        c \in s.plan /\ c \in u.plan => s = u

\* While a run decides whether to submit no other run does, so that the history it
\* looked at and the claims it checked are still the ones it acts on.
OneRunSubmits ==
    \A t, u \in Terminals : pc[t] \in Guarded /\ pc[u] \in Guarded => t = u
=============================================================================
