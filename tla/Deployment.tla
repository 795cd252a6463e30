----------------------------- MODULE Deployment -----------------------------
(***************************************************************************)
(* What a deployment promises, without its files, crashes and resumptions:   *)
(* the steps are completed in order, each transaction of a step executes at  *)
(* most once and after the ones before it, and a step is completed only once *)
(* its transactions have executed.                                          *)
(***************************************************************************)
EXTENDS Naturals, Sequences

CONSTANTS
    Plan,       \* the transactions of each step, in order
    Optional    \* the ones a step may find already done and skip

VARIABLES
    done,       \* how many steps are completed
    history     \* the transactions executed, in order

Performed == {history[i] : i \in DOMAIN history}

PlanInit ==
    /\ done = 0
    /\ history = <<>>

Execute(i) ==
    /\ done < Len(Plan)
    /\ i \in DOMAIN Plan[done + 1]
    /\ Plan[done + 1][i] \notin Performed
    /\ \A j \in 1 .. i - 1 : Plan[done + 1][j] \in Performed \cup Optional
    /\ history' = Append(history, Plan[done + 1][i])
    /\ UNCHANGED done

Complete ==
    /\ done < Len(Plan)
    /\ \A j \in DOMAIN Plan[done + 1] : Plan[done + 1][j] \in Performed \cup Optional
    /\ done' = done + 1
    /\ UNCHANGED history

PlanNext ==
    \/ Complete
    \/ \E i \in UNION {DOMAIN Plan[s] : s \in DOMAIN Plan} : Execute(i)

PlanSpec == PlanInit /\ [][PlanNext]_<<done, history>>

-----------------------------------------------------------------------------
(* What follows from it.                                                     *)

\* No transaction of the plan is executed a second time.
OnceEach == \A i, j \in DOMAIN history : history[i] = history[j] => i = j

\* Every transaction of a completed step was executed, or may be skipped.
CompletedHasRun ==
    \A s \in 1 .. done : \A i \in DOMAIN Plan[s] : Plan[s][i] \in Performed \cup Optional
=============================================================================
