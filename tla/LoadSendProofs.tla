--------------------------- MODULE LoadSendProofs ---------------------------
(***************************************************************************)
(* The safety of a load-test run, for every set of supported routes and      *)
(* plans and every value of the amounts: funding that fails half way and is  *)
(* started again overfunds no key, a nonce gap stays with the wallet it is   *)
(* in, and a green report means what it says.  Also that no key is given     *)
(* more submissions than transactions_per_key counts.                        *)
(***************************************************************************)
EXTENDS LoadSend, FunctionSums

\* The context of these obligations is long: more time than the default for all of them.
USE SMTT(30), ZenonT(30)

-----------------------------------------------------------------------------
(* The plan and its schedule.                                                *)

\* Counts that bound each other.
LEMMA AtMost ==
  ASSUME NEW a \in Nat, NEW b \in Nat, NEW c \in Nat, a <= b, b <= c
  PROVE  a <= c /\ ~(a > c)
OBVIOUS

\* The same, with one more.
LEMMA OneMore ==
  ASSUME NEW a \in Nat, NEW b \in Nat, NEW c \in Nat, a <= b + 1, b <= c
  PROVE  a <= c + 1
OBVIOUS

\* A set with at most one new element is at most one larger.
LEMMA AddedOne ==
  ASSUME NEW S, NEW T, NEW x, IsFiniteSet(S), T \subseteq S \cup {x}
  PROVE  Cardinality(T) \in Nat /\ Cardinality(S) \in Nat /\ Cardinality(T) <= Cardinality(S) + 1
<1>1. /\ IsFiniteSet(S \cup {x})
      /\ Cardinality(S \cup {x}) = IF x \in S THEN Cardinality(S) ELSE Cardinality(S) + 1
  BY FS_AddElement
<1>2. IsFiniteSet(T) /\ Cardinality(T) <= Cardinality(S \cup {x})
  BY <1>1, FS_Subset
<1>3. Cardinality(S) \in Nat /\ Cardinality(T) \in Nat
  BY <1>2, FS_CardinalityType
<1> QED BY <1>1, <1>2, <1>3

\* The indices before one of a sequence's are its indices too.
LEMMA IndicesBefore ==
  ASSUME NEW n \in Nat, NEW i \in 1 .. n, NEW j \in 1 .. i - 1
  PROVE  j \in 1 .. n /\ j \in Nat /\ i \in Nat /\ j < i /\ j # i /\ 1 .. j - 1 \subseteq 1 .. i - 1
OBVIOUS

\* Numbers below a and b, as the digits of a number below a * b.
LEMMA Digits ==
  ASSUME NEW a \in Nat, NEW b \in Nat, NEW x \in 0 .. a - 1, NEW y \in 0 .. b - 1
  PROVE  x * b + y \in 0 .. a * b - 1
<1>1. x * b \in Nat
  OBVIOUS
<1>2. (a - 1 - x) * b \in Nat
  OBVIOUS
<1>3. (a - 1 - x) * b = a * b - b - x * b
  OBVIOUS
<1> QED BY <1>1, <1>2, <1>3

\* Division by a positive number leaves a quotient and a remainder.
LEMMA Division ==
  ASSUME NEW n \in Nat, NEW d \in Nat \ {0}
  PROVE  /\ n \div d \in Nat
         /\ n % d \in 0 .. d - 1
         /\ n = (n \div d) * d + (n % d)
<1>1. n \div d \in Nat
  OBVIOUS
<1>2. n % d \in 0 .. d - 1
  OBVIOUS
<1>3. n = d * (n \div d) + (n % d)
  OBVIOUS
<1>4. d * (n \div d) = (n \div d) * d
  BY <1>1
<1> QED BY <1>1, <1>2, <1>3, <1>4

\* transactions_per_key is a number, and one in a burst.
LEMMA PerKey ==
  ASSUME NEW plan, IsPlan(plan)
  PROVE  /\ Duration(plan) \in Nat
         /\ TransactionsPerKey(plan) \in Nat
         /\ plan.mode = "burst" => TransactionsPerKey(plan) = 1
<1>1. plan.total \in Nat /\ plan.tps \in Nat \ {0} /\ plan.cycle \in Nat \ {0}
  BY DEF IsPlan
<1>2. Duration(plan) \in Nat
  BY <1>1, Division, ZenonT(30) DEF Duration
<1>3. CeilDiv(Duration(plan), plan.cycle) \in Nat
  <2>1. Duration(plan) + plan.cycle - 1 \in Nat
    BY <1>1, <1>2
  <2> QED BY <1>1, <2>1, Division, ZenonT(30) DEF CeilDiv
<1> QED BY <1>2, <1>3 DEF TransactionsPerKey

\* scheduled_key_index stays within the keys.
LEMMA ScheduleInRange ==
  ASSUME NEW plan, IsPlan(plan), NEW n \in 0 .. plan.total - 1
  PROVE  ScheduledKey(plan, n) \in 0 .. plan.keys - 1 /\ Tick(plan, n) \in Nat
<1>1. plan.total \in Nat /\ plan.tps \in Nat \ {0} /\ plan.cycle \in Nat \ {0} /\ n \in Nat
  BY DEF IsPlan
<1>2. n \div plan.tps \in Nat /\ n % plan.tps \in 0 .. plan.tps - 1
  BY <1>1, Division, ZenonT(30)
<1>3. CASE plan.mode = "burst"
  BY <1>2, <1>3 DEF IsPlan, ScheduledKey, Tick
<1>4. CASE plan.mode = "sustained"
  <2>1. (n \div plan.tps) % plan.cycle \in 0 .. plan.cycle - 1
    BY <1>1, <1>2, Division, ZenonT(30)
  <2>2. ((n \div plan.tps) % plan.cycle) * plan.tps + (n % plan.tps) \in 0 .. plan.cycle * plan.tps - 1
    <3> DEFINE x == (n \div plan.tps) % plan.cycle
               y == n % plan.tps
    <3>1. x \in 0 .. plan.cycle - 1 /\ y \in 0 .. plan.tps - 1
      BY <1>2, <2>1
    <3> HIDE DEF x, y
    <3>2. x * plan.tps + y \in 0 .. plan.cycle * plan.tps - 1
      BY <1>1, <3>1, Digits
    <3> QED BY <3>2 DEF x, y
  <2>3. plan.keys = plan.cycle * plan.tps
    BY <1>1, <1>4 DEF IsPlan
  <2> QED BY <1>2, <1>4, <2>2, <2>3 DEF ScheduledKey, Tick
<1> QED BY <1>3, <1>4 DEF IsPlan

\* Digits determine their number: the key and the cycle of a submission say which it is.
LEMMA DigitsUnique ==
  ASSUME NEW b \in Nat \ {0}, NEW x \in Nat, NEW u \in Nat,
         NEW y \in 0 .. b - 1, NEW v \in 0 .. b - 1, x * b + y = u * b + v
  PROVE  x = u /\ y = v
<1>1. ASSUME NEW m \in Nat, NEW k \in Nat, m < k PROVE m * b + b <= k * b
  <2>1. (k - m - 1) * b \in Nat
    BY <1>1
  <2>2. (k - m - 1) * b = k * b - m * b - b
    BY <1>1
  <2>3. m * b \in Nat /\ k * b \in Nat
    BY <1>1
  <2> QED BY <2>1, <2>2, <2>3
<1>2. x * b \in Nat /\ u * b \in Nat
  OBVIOUS
<1>3. ~(x < u)
  BY <1>1, <1>2
<1>4. ~(u < x)
  BY <1>1, <1>2
<1>5. x = u
  BY <1>3, <1>4
<1> QED BY <1>2, <1>5

\* Whole cycles that begin before the end of the run.
LEMMA CycleInRange ==
  ASSUME NEW d \in Nat, NEW c \in Nat \ {0}, NEW t \in Nat, t < d
  PROVE  t \div c \in 0 .. CeilDiv(d, c) - 1
<1> DEFINE q == t \div c
           u == CeilDiv(d, c)
<1>1. q \in Nat /\ q * c <= t
  <2>1. q \in Nat /\ t % c \in 0 .. c - 1 /\ t = q * c + (t % c)
    BY Division, ZenonT(30)
  <2>2. q * c \in Nat
    BY <2>1
  <2> HIDE DEF q
  <2> QED BY <2>1, <2>2
<1>2. u \in Nat /\ u * c >= d
  <2>1. d + c - 1 \in Nat
    OBVIOUS
  <2>2. u \in Nat /\ (d + c - 1) % c \in 0 .. c - 1 /\ d + c - 1 = u * c + ((d + c - 1) % c)
    BY <2>1, Division, ZenonT(30) DEF CeilDiv
  <2>3. u * c \in Nat
    BY <2>2
  <2> HIDE DEF u
  <2> QED BY <2>2, <2>3
<1> HIDE DEF q, u
<1>3. q < u
  <2> SUFFICES ASSUME u <= q PROVE FALSE
    BY <1>1, <1>2
  <2>1. (q - u) * c \in Nat /\ (q - u) * c = q * c - u * c
    BY <1>1, <1>2
  <2>2. q * c \in Nat /\ u * c \in Nat
    BY <1>1, <1>2
  <2> QED BY <1>1, <1>2, <2>1, <2>2
<1> QED BY <1>1, <1>2, <1>3 DEF q, u

\* The schedule gives no key more submissions than transactions_per_key counts: a key has
\* one in each cycle at most.
LEMMA FiresBounded ==
  ASSUME NEW plan, IsPlan(plan), NEW slot
  PROVE  LET S == {n \in 0 .. plan.total - 1 : ScheduledKey(plan, n) = slot}
         IN  /\ IsFiniteSet(S) /\ Cardinality(S) \in Nat
             /\ Cardinality(S) <= TransactionsPerKey(plan)
<1> DEFINE S == {n \in 0 .. plan.total - 1 : ScheduledKey(plan, n) = slot}
<1>1. /\ plan.total \in Nat /\ plan.tps \in Nat \ {0} /\ plan.cycle \in Nat \ {0}
      /\ TransactionsPerKey(plan) \in Nat
  BY PerKey DEF IsPlan
<1>2. ASSUME NEW f \in Injection(S, 0 .. TransactionsPerKey(plan) - 1)
      PROVE  IsFiniteSet(S) /\ Cardinality(S) \in Nat /\ Cardinality(S) <= TransactionsPerKey(plan)
  <2>1. /\ IsFiniteSet(0 .. TransactionsPerKey(plan) - 1)
        /\ Cardinality(0 .. TransactionsPerKey(plan) - 1) = TransactionsPerKey(plan)
    BY <1>1, FS_Interval
  <2> HIDE DEF S
  <2> QED BY <2>1, FS_Injection, FS_CardinalityType
<1>3. CASE plan.mode = "burst"
  <2>1. TransactionsPerKey(plan) = 1
    BY <1>3, PerKey
  <2>2. \A n \in S : n = slot
    BY <1>3 DEF ScheduledKey
  <2>3. [n \in S |-> 0] \in Injection(S, 0 .. TransactionsPerKey(plan) - 1)
    BY <2>1, <2>2 DEF Injection, IsInjective
  <2> QED BY <1>2, <2>3
<1>4. CASE plan.mode = "sustained"
  <2> DEFINE second(n) == n \div plan.tps
             cycle(n) == second(n) \div plan.cycle
             f == [n \in S |-> cycle(n)]
  <2>1. TransactionsPerKey(plan) = CeilDiv(Duration(plan), plan.cycle)
    BY <1>4 DEF TransactionsPerKey
  <2>2. \A n \in S : n \in Nat /\ n < plan.total
    BY <1>1
  <2>3. Duration(plan) \in Nat /\ plan.total = Duration(plan) * plan.tps
    <3>1. plan.total % plan.tps = 0
      BY <1>4 DEF IsPlan
    <3>2. plan.total \div plan.tps \in Nat /\ plan.total = (plan.total \div plan.tps) * plan.tps + (plan.total % plan.tps)
      BY <1>1, Division, ZenonT(30)
    <3> QED BY <1>1, <3>1, <3>2 DEF Duration
  <2>4. ASSUME NEW n \in S
        PROVE  /\ second(n) \in Nat /\ n % plan.tps \in 0 .. plan.tps - 1
               /\ n = second(n) * plan.tps + (n % plan.tps)
               /\ cycle(n) \in Nat /\ second(n) % plan.cycle \in 0 .. plan.cycle - 1
               /\ second(n) = cycle(n) * plan.cycle + (second(n) % plan.cycle)
    <3>1. /\ second(n) \in Nat /\ n % plan.tps \in 0 .. plan.tps - 1
          /\ n = second(n) * plan.tps + (n % plan.tps)
      BY <1>1, <2>2, Division, ZenonT(30)
    <3> HIDE DEF second
    <3>2. /\ cycle(n) \in Nat /\ second(n) % plan.cycle \in 0 .. plan.cycle - 1
          /\ second(n) = cycle(n) * plan.cycle + (second(n) % plan.cycle)
      BY <1>1, <3>1, Division, ZenonT(30)
    <3> QED BY <3>1, <3>2
  <2>5. ASSUME NEW n \in S PROVE cycle(n) \in 0 .. TransactionsPerKey(plan) - 1
    <3>1. second(n) < Duration(plan)
      <4> HIDE DEF second
      <4> SUFFICES ASSUME Duration(plan) <= second(n) PROVE FALSE
        BY <2>3, <2>4
      <4>1. (second(n) - Duration(plan)) * plan.tps \in Nat
        <5>1. second(n) - Duration(plan) \in Nat /\ plan.tps \in Nat
          BY <1>1, <2>3, <2>4
        <5> QED BY <5>1
      <4>2. (second(n) - Duration(plan)) * plan.tps = second(n) * plan.tps - Duration(plan) * plan.tps
        BY <1>1, <2>3, <2>4
      <4>3. second(n) * plan.tps \in Nat /\ Duration(plan) * plan.tps \in Nat
        BY <1>1, <2>3, <2>4
      <4> QED BY <2>2, <2>3, <2>4, <4>1, <4>2, <4>3
    <3> HIDE DEF second
    <3>2. second(n) \div plan.cycle \in 0 .. CeilDiv(Duration(plan), plan.cycle) - 1
      BY <1>1, <2>3, <2>4, <3>1, CycleInRange, ZenonT(30)
    <3> QED BY <2>1, <3>2
  <2>6. ASSUME NEW n \in S, NEW m \in S, cycle(n) = cycle(m) PROVE n = m
    <3>1. /\ slot = (second(n) % plan.cycle) * plan.tps + (n % plan.tps)
          /\ slot = (second(m) % plan.cycle) * plan.tps + (m % plan.tps)
      BY <1>4 DEF ScheduledKey
    <3> DEFINE rn == second(n) % plan.cycle
               rm == second(m) % plan.cycle
               bn == n % plan.tps
               bm == m % plan.tps
    <3>2. rn \in Nat /\ rm \in Nat /\ bn \in 0 .. plan.tps - 1 /\ bm \in 0 .. plan.tps - 1
      BY <1>1, <2>4
    <3>3. rn * plan.tps + bn = rm * plan.tps + bm
      BY <3>1
    <3>4. /\ n = second(n) * plan.tps + bn /\ second(n) = cycle(n) * plan.cycle + rn
          /\ m = second(m) * plan.tps + bm /\ second(m) = cycle(m) * plan.cycle + rm
      BY <2>4
    <3> HIDE DEF rn, rm, bn, bm, second, cycle
    <3>5. rn = rm /\ bn = bm
      BY <1>1, <3>2, <3>3, DigitsUnique
    <3>6. second(n) = second(m)
      BY <2>6, <3>4, <3>5
    <3> QED BY <3>4, <3>5, <3>6
  <2> HIDE DEF cycle, second
  <2>7. f \in Injection(S, 0 .. TransactionsPerKey(plan) - 1)
    BY <2>5, <2>6 DEF Injection, IsInjective
  <2> HIDE DEF f
  <2> QED BY <1>2, <2>7
<1> QED BY <1>3, <1>4 DEF IsPlan

-----------------------------------------------------------------------------
(* What a key is given.                                                      *)

\* Buffered rounds are a natural number.
LEMMA BufferedIsNat == ASSUME NEW r \in Nat PROVE Buffered(r) \in Nat
BY Division DEF Buffered

\* No budget tops a key up to less than what it asks for.
LEMMA BudgetFits ==
  ASSUME NEW route, NEW plan, IsPlan(plan)
  PROVE  /\ Budget(route, plan).threshold \in Nat
         /\ Budget(route, plan).target \in Nat
         /\ Budget(route, plan).threshold <= Budget(route, plan).target
<1> USE PipelineAssumption
<1> DEFINE rounds == IF plan.mode = "burst" THEN 1 ELSE Buffered(TransactionsPerKey(plan))
           Fits(b) == b.threshold \in Nat /\ b.target \in Nat /\ b.threshold <= b.target
<1>1. rounds \in Nat /\ TransactionsPerKey(plan) \in Nat
  BY PerKey, BufferedIsNat
<1>2. \A extra \in Nat : Fits(EvmBudget(extra))
  BY DEF EvmBudget
<1>3. \A amount \in Nat : Fits(ExactBudget(amount))
  BY DEF ExactBudget
<1>4. \A a, b \in Nat : a * b \in Nat
  OBVIOUS
<1>5. /\ EvmGmpExtra(plan) \in Nat /\ HubGasExtraPerKey(plan) \in Nat /\ DataGasExtra(plan) \in Nat
      /\ XrplGasExtra(plan) \in Nat /\ SuiGasExtra \in Nat
  <2>1. Gas \in Nat /\ 2 * Gas \in Nat /\ 4 * Gas \in Nat /\ 2 * (Fee + 2 * Gas) \in Nat
    OBVIOUS
  <2>2. EvmGmpExtra(plan) = Gas * rounds /\ HubGasExtraPerKey(plan) = 2 * Gas * rounds
    BY DEF EvmGmpExtra, HubGasExtraPerKey
  <2>3. DataGasExtra(plan) = 2 * Gas * rounds /\ XrplGasExtra(plan) = 2 * (Fee + 2 * Gas) * rounds
    BY DEF DataGasExtra, XrplGasExtra
  <2> HIDE DEF rounds
  <2> QED BY <1>1, <1>4, <2>1, <2>2, <2>3 DEF SuiGasExtra
<1>6. CASE route[2] = "evm"
  <2> HIDE DEF Fits
  <2>1. \E extra \in Nat : Budget(route, plan) = EvmBudget(extra)
    BY <1>5, <1>6 DEF Budget
  <2>2. Fits(Budget(route, plan))
    BY <1>2, <2>1
  <2> QED BY <2>2 DEF Fits
<1>7. CASE route[2] = "svm"
  <2>1. Fits(SolBudget)
    BY DEF SolBudget
  <2>2. Fits(SolSustainedBudget(plan))
    <3>1. SolFires(plan) \in Nat
      <4>1. plan.cycle \in Nat \ {0} /\ Duration(plan) \in Nat
        BY PerKey DEF IsPlan
      <4> QED BY <4>1, Division, ZenonT(30) DEF SolFires
    <3>2. (Gas + Fee) * SolFires(plan) \in Nat
      BY <3>1
    <3> HIDE DEF Fits
    <3> QED BY <1>3, <3>2 DEF SolSustainedBudget
  <2>3. Budget(route, plan) \in {SolBudget, SolSustainedBudget(plan)}
    BY <1>7 DEF Budget
  <2> QED BY <2>1, <2>2, <2>3
<1>8. CASE route[2] = "xrpl"
  <2>1. Reserve + TransactionsPerKey(plan) * (2 * Gas + 1 + Fee) \in Nat
    BY <1>1
  <2>2. Fits(XrplBudget(plan))
    BY <1>3, <2>1 DEF XrplBudget
  <2>3. Budget(route, plan) = XrplBudget(plan)
    BY <1>8 DEF Budget
  <2> QED BY <2>2, <2>3
<1>9. CASE route[2] \notin {"evm", "svm", "xrpl"}
  <2>1. \A g \in Nat : Fits(StellarBudget(g, plan))
    <3> SUFFICES ASSUME NEW g \in Nat PROVE Fits(StellarBudget(g, plan))
      OBVIOUS
    <3>1. Reserve + MinKey + g * TransactionsPerKey(plan) \in Nat
      BY <1>1
    <3> QED BY <1>3, <3>1 DEF StellarBudget
  <2>2. Gas \in Nat /\ StellarItsGas \in Nat
    BY DEF StellarItsGas
  <2> HIDE DEF Fits
  <2>3. \E g \in Nat : Budget(route, plan) = StellarBudget(g, plan)
    BY <1>9, <2>2 DEF Budget
  <2>4. Fits(Budget(route, plan))
    BY <2>1, <2>3
  <2> QED BY <2>4 DEF Fits
<1> QED BY <1>6, <1>7, <1>8, <1>9

\* A share is a number of transfers.
LEMMA ShareIsNat ==
  ASSUME NEW route, NEW plan, IsPlan(plan)
  PROVE  Share(route, plan) \in Nat
<1>1. TransactionsPerKey(plan) \in Nat
  BY PerKey
<1>2. /\ EvmTokenShare \in Nat /\ XrplTokenShare(plan) \in Nat /\ SuiTokenShare(plan) \in Nat
      /\ StellarTokenShare(plan) \in Nat /\ SolTokenShare(plan) \in Nat
  BY <1>1, PipelineAssumption
     DEF EvmTokenShare, XrplTokenShare, SuiTokenShare, StellarTokenShare, SolTokenShare
<1> QED BY <1>2 DEF Share

\* The families a supported route comes from.
LEMMA RouteFamilies ==
  ASSUME NEW route \in SupportedRoutes
  PROVE  /\ route[1] \in {"gmp", "its", "its_data"}
         /\ route[2] \in {"evm", "svm", "stellar", "sui", "xrpl"}
         /\ route[1] = "its_data" => route[2] = "evm"
<1>1. \A p \in TestTypes : p[1] \in {"evm", "svm", "stellar", "sui", "xrpl"}
  BY DEF TestTypes
<1> QED BY <1>1 DEF SupportedRoutes

\* XRPL is reached from EVM chains, with tokens.
LEMMA ToXrpl ==
  ASSUME NEW route \in SupportedRoutes, route[3] = "xrpl"
  PROVE  route[1] = "its" /\ route[2] = "evm"
<1> DEFINE unwired == {<<"sui", "stellar">>, <<"sui", "xrpl">>, <<"xrpl", "sui">>}
<1>1. \A p \in TestTypes : p[2] = "xrpl" => p \in {<<"evm", "xrpl">>, <<"sui", "xrpl">>}
  BY DEF TestTypes
<1>2. CASE route = <<"its_data", "evm", "svm">>
  BY <1>2
<1>3. ASSUME NEW p \in TestTypes, p \notin unwired, route = <<"its", p[1], p[2]>>
      PROVE  route[1] = "its" /\ route[2] = "evm"
  BY <1>1, <1>3
<1>4. ASSUME NEW p \in TestTypes, route = <<"gmp", p[1], p[2]>>,
             p \notin unwired \cup {<<"evm", "xrpl">>, <<"xrpl", "evm">>}
      PROVE  FALSE
  BY <1>1, <1>4
<1> QED BY <1>2, <1>3, <1>4, ZenonT(30) DEF SupportedRoutes

\* No sender takes a failed or unsettled submission for a confirmed one.
LEMMA ConfirmsSettled ==
  ASSUME NEW route \in SupportedRoutes
  PROVE  Confirms(route) \subseteq {"good", "reverted", "silent"}
BY RouteFamilies
   DEF Confirms, DataConfirms, EvmGmpConfirms, EvmItsConfirms, SolGmpConfirms, SolItsConfirms,
       StellarGmpConfirms, StellarItsConfirms, SuiGmpConfirms, SuiItsConfirms, XrplConfirms

-----------------------------------------------------------------------------
(* A run.                                                                    *)

\* What the plan and the route of a run give it.
LEMMA RunFacts ==
  ASSUME TypeOK
  PROVE  /\ Plan.keys \in Nat \ {0} /\ Plan.total \in Nat
         /\ KeyBudget.threshold \in Nat /\ KeyBudget.target \in Nat
         /\ KeyBudget.threshold <= KeyBudget.target
         /\ KeyShare \in Nat
         /\ Confirms(run.route) \subseteq {"good", "reverted", "silent"}
         /\ \A slot \in Slots : Wallet(slot) \in -1 .. Plan.keys - 1
<1>1. IsPlan(Plan) /\ run.route \in SupportedRoutes
  BY DEF TypeOK
<1>2. Plan.keys \in Nat \ {0} /\ Plan.total \in Nat
  BY <1>1 DEF IsPlan
<1> QED BY <1>1, <1>2, BudgetFits, ShareIsNat, ConfirmsSettled DEF KeyBudget, KeyShare, Wallet, Slots

\* The run does not change under way, and nothing that depends on it does.
LEMMA SameRun ==
  ASSUME run' = run
  PROVE  /\ Plan' = Plan /\ Pipe' = Pipe /\ Slots' = Slots /\ Derived' = Derived
         /\ KeyBudget' = KeyBudget /\ KeyShare' = KeyShare
         /\ \A slot : Wallet(slot)' = Wallet(slot)
BY DEF Plan, Pipe, Slots, Derived, KeyBudget, KeyShare, Wallet

\* Among the transfers that are left there is a first one.
LEMMA TurnIsOne ==
  ASSUME TypeOK, todo # Unread, todo # {}
  PROVE  /\ Turn \in todo
         /\ Turn[1] \in Slots /\ Turn[2] \in Nat
         /\ Later \subseteq todo
         /\ TransfersFit => \A t \in Later : t[1] # Turn[1]
<1>1. Plan.keys \in Nat /\ todo \subseteq Slots \X Nat
  BY RunFacts DEF TypeOK, FundTypeOK
<1>2. \A t \in todo : t[1] \in Slots /\ t[2] \in Nat /\ t[1] \in Nat
  BY <1>1 DEF Slots
<1> DEFINE T == {t[1] : t \in todo}
<1>3. PICK n \in T : \A m \in T : n <= m
  <2>1. T \in SUBSET Nat /\ T # {}
    BY <1>2
  <2> HIDE DEF T
  <2> QED BY <2>1, SmallestNat
<1>4. \E t \in todo : \A u \in todo : t[1] <= u[1]
  BY <1>3
<1>5. Turn \in todo
  BY <1>4 DEF Turn
<1> QED BY <1>2, <1>5 DEF Later, TransfersFit

-----------------------------------------------------------------------------
(* Every run starts well.                                                    *)

\* A run starts within the invariant, whatever earlier runs left in its keys.
LEMMA SendInvInit == Init => SendInv
<1> SUFFICES ASSUME Init PROVE SendInv
  OBVIOUS
<1>1. run.route \in SupportedRoutes /\ IsPlan(Plan) /\ run.faucet \in BOOLEAN
  BY SendAssumption DEF Init, Plan
<1>2. /\ Plan.keys \in Nat \ {0} /\ KeyShare \in Nat
      /\ KeyBudget.threshold \in Nat /\ KeyBudget.target \in Nat
      /\ KeyBudget.threshold <= KeyBudget.target
  BY <1>1, BudgetFits, ShareIsNat DEF IsPlan, KeyBudget, KeyShare
<1>3. PICK rich \in {{}, {0}, Slots} :
         /\ gas = [k \in Slots |-> CASE k \in rich -> KeyBudget.threshold
                                     [] rich = {} -> 0
                                     [] OTHER -> KeyBudget.threshold - 1]
         /\ tok = [k \in Slots |-> IF k \in rich \/ KeyShare = 0 THEN KeyShare
                                   ELSE KeyShare - 1]
  BY DEF Init
<1>4. \A k \in Slots : gas[k] \in Int /\ gas[k] <= KeyBudget.target
  <2> SUFFICES ASSUME NEW k \in Slots PROVE gas[k] \in Int /\ gas[k] <= KeyBudget.target
    OBVIOUS
  <2>1. CASE k \in rich
    BY <1>2, <1>3, <2>1
  <2>2. CASE k \notin rich /\ rich = {}
    BY <1>2, <1>3, <2>2
  <2>3. CASE k \notin rich /\ rich # {}
    BY <1>2, <1>3, <2>3
  <2> QED BY <2>1, <2>2, <2>3
<1>5. \A k \in Slots : tok[k] \in Nat /\ (KeyShare > 0 => tok[k] < 2 * KeyShare)
  BY <1>2, <1>3
<1>6. TypeOK
  <2>1. gas \in [Slots -> Int] /\ tok \in [Slots -> Nat]
    BY <1>3, <1>4, <1>5
  <2>2. stopped \in BOOLEAN /\ broken \in BOOLEAN
    BY ZenonT(30) DEF Init
  <2>3. /\ stage = "fund" /\ runs \in Nat /\ todo = Unread /\ late = {} /\ doubled = {}
        /\ sent \in Seq(Submissions) /\ nonces \in [Slots -> Nat]
        /\ account \in [-1 .. Plan.keys - 1 -> Nat] /\ verdict = "none"
    BY DEF Init
  <2> QED BY <1>1, <2>1, <2>2, <2>3 DEF TypeOK, FundTypeOK, SendTypeOK
<1>7. TransfersFit /\ KeysFilled /\ SharesGiven
  BY DEF Init, TransfersFit, KeysFilled, SharesGiven, Unread
<1>8. NoKeyOverfunded
  BY <1>4, <1>5 DEF NoKeyOverfunded
<1>9. NoncesCovered
  <2>1. \A slot \in Slots : nonces[slot] = 0 /\ Fired(slot) = {}
    BY DEF Init, Fired
  <2>2. \A w \in -1 .. Plan.keys - 1 : account[w] = 0 /\ Landed(w) = {}
    BY DEF Init, Landed
  <2>3. DOMAIN sent = {}
    BY DEF Init
  <2>4. \A slot \in Slots : nonces[slot] <= Cardinality(Fired(slot))
    BY <2>1, FS_EmptySet
  <2>5. \A w \in -1 .. Plan.keys - 1 : Cardinality(Landed(w)) <= account[w]
    BY <2>2, FS_EmptySet
  <2> QED BY <2>3, <2>4, <2>5 DEF NoncesCovered
<1>10. CausesKnown /\ FailuresStayWithTheirKey /\ VerdictEnds /\ GreenMeansExecuted
  BY DEF Init, CausesKnown, FailuresStayWithTheirKey, VerdictEnds, GreenMeansExecuted
<1> QED BY <1>6, <1>7, <1>8, <1>9, <1>10 DEF SendInv, FundInv, SubmitInv

-----------------------------------------------------------------------------
(* Funding.                                                                  *)

\* What holds of the submissions depends on nothing else.
LEMMA SentUntouched ==
  ASSUME SubmitInv, UNCHANGED <<run, sent, nonces, account>>
  PROVE  SubmitInv'
<1>1. run' = run /\ sent' = sent /\ nonces' = nonces /\ account' = account
  OBVIOUS
<1>2. Pipe' = Pipe /\ Plan' = Plan /\ Slots' = Slots /\ \A slot : Wallet(slot)' = Wallet(slot)
  BY <1>1, SameRun, ZenonT(30)
<1>3. /\ \A slot : Fired(slot)' = Fired(slot)
      /\ \A i : Before(i)' = Before(i)
  BY <1>1, ZenonT(30) DEF Fired, Before
<1>4. \A w : Landed(w)' = Landed(w)
  BY <1>1, <1>2, ZenonT(30) DEF Landed
<1>5. NoncesCovered'
  BY <1>1, <1>2, <1>3, <1>4, ZenonT(30) DEF SubmitInv, NoncesCovered
<1>6. CausesKnown'
  BY <1>1, ZenonT(30) DEF SubmitInv, CausesKnown
<1>7. FailuresStayWithTheirKey'
  BY <1>1, <1>2, ZenonT(30) DEF SubmitInv, FailuresStayWithTheirKey
<1> QED BY <1>5, <1>6, <1>7, ZenonT(30) DEF SubmitInv

\* What was submitted, and the report, are not touched by funding.
LEMMA SubmissionsUntouched ==
  ASSUME SendInv, UNCHANGED <<run, sendVars, verdict>>
  PROVE  SendTypeOK' /\ SubmitInv' /\ GreenMeansExecuted'
<1> USE SameRun
<1>1. UNCHANGED <<run, sent, nonces, account, stopped, broken, verdict>>
  BY DEF sendVars
<1>2. SendTypeOK'
  BY <1>1 DEF SendInv, TypeOK, SendTypeOK, Submissions
<1>3. SubmitInv'
  BY <1>1, SentUntouched, ZenonT(30) DEF SendInv
<1>4. GreenMeansExecuted'
  <2>1. Arrived' = Arrived
    BY <1>1, ZenonT(30) DEF Arrived, TakesRoutedForExecuted
  <2> QED BY <1>1, <2>1 DEF SendInv, GreenMeansExecuted
<1> QED BY <1>2, <1>3, <1>4

\* Funding that keeps its own invariant keeps the whole.
LEMMA FundingIsEnough ==
  ASSUME SendInv, UNCHANGED <<run, sendVars, verdict>>, stage # "done",
         stage' \in {"fund", "distribute", "approve", "ready", "send", "verify", "failed", "done"},
         FundTypeOK', FundInv'
  PROVE  SendInv'
<1>1. run' = run /\ verdict' = verdict /\ verdict = "none"
  BY DEF SendInv, VerdictEnds, TypeOK
<1>2. TypeOK' /\ VerdictEnds'
  BY <1>1, SubmissionsUntouched, SameRun DEF SendInv, TypeOK, VerdictEnds
<1> QED BY <1>2, SubmissionsUntouched DEF SendInv

\* A run that fails has nothing to transfer, and asks nothing of its keys but that
\* they are not overfunded.
LEMMA FailedFunding ==
  ASSUME SendInv, run' = run, stage' = "failed", todo' = Unread, NoKeyOverfunded'
  PROVE  FundInv'
<1>1. TransfersFit'
  BY DEF TransfersFit, Unread
<1>2. KeysFilled' /\ SharesGiven'
  BY DEF KeysFilled, SharesGiven
<1> QED BY <1>1, <1>2 DEF FundInv

\* What may still come to a key is an amount.
LEMMA ComingIsNat ==
  ASSUME FundTypeOK, NEW k \in Slots
  PROVE  Coming(k) \subseteq Nat
<1>1. \A t \in late : t[3] \in Nat
  BY DEF FundTypeOK
<1> QED BY <1>1 DEF Coming

\* A promise to a key is kept while the key loses nothing and the transfer may still land.
LEMMA PromiseKept ==
  ASSUME FundTypeOK, run' = run, NEW k \in Slots, KeyBudget.threshold \in Nat,
         gas[k] \in Int, gas'[k] \in Int, gas'[k] >= gas[k], late \subseteq late', Promised(k)
  PROVE  Promised(k)'
<1>1. PICK extra \in Coming(k) : gas[k] + extra >= KeyBudget.threshold
  BY DEF Promised
<1>2. extra \in Nat
  BY ComingIsNat
<1>3. extra \in Coming(k)'
  BY ZenonT(30) DEF Coming
<1>4. KeyBudget' = KeyBudget
  BY SameRun
<1>5. gas'[k] + extra >= KeyBudget.threshold
  BY <1>1, <1>2
<1> QED BY <1>3, <1>4, <1>5 DEF Promised

\* The deficits noted when the balances are read fit the keys.
LEMMA ReadBalancesKeeps ==
  ASSUME SendInv, ReadBalances
  PROVE  SendInv'
<1> USE SameRun
<1>0. TypeOK /\ FundTypeOK /\ NoKeyOverfunded /\ KeysFilled /\ SharesGiven
  BY DEF SendInv, TypeOK, FundInv
<1>1. /\ UNCHANGED <<run, sendVars, verdict, runs, gas, tok, late>>
      /\ stage \in {"fund", "distribute"} /\ stage' \in {stage, "failed"}
  BY DEF ReadBalances, FailRun
<1>2. CASE FailRun /\ todo' = Unread /\ UNCHANGED doubled
  <2>1. NoKeyOverfunded'
    BY <1>0, <1>1, <1>2 DEF NoKeyOverfunded
  <2>2. FundInv'
    BY <1>1, <1>2, <2>1, FailedFunding DEF FailRun
  <2>3. FundTypeOK'
    BY <1>0, <1>1, <1>2 DEF FundTypeOK
  <2> QED BY <1>1, <2>2, <2>3, FundingIsEnough, ZenonT(30) DEF sendVars
<1>3. CASE ~(FailRun /\ todo' = Unread /\ UNCHANGED doubled)
  <2>1. PICK unreadable \in {{}} \cup {{k} : k \in {j \in Slots : stage = "distribute"}} :
          /\ todo' = IF ~Derived THEN {}
                     ELSE CASE InTurn -> {<<k, KeyShare>> : k \in Slots}
                            [] stage = "distribute" /\ ~InTurn -> TokenDeficits(unreadable)
                            [] stage = "fund" /\ run.faucet -> FaucetDeficits
                            [] OTHER -> GasDeficits
          /\ doubled' = IF InTurn THEN doubled ELSE doubled \cup unreadable
    BY <1>3, ZenonT(30) DEF ReadBalances
  <2>2. stage' = stage
    BY <1>3 DEF ReadBalances
  <2>3. unreadable \subseteq Slots /\ doubled' \subseteq Slots /\ doubled \subseteq doubled'
    BY <1>0, <2>1 DEF FundTypeOK
  <2>4. /\ KeyShare \in Nat /\ KeyBudget.threshold \in Nat /\ KeyBudget.target \in Nat
        /\ KeyBudget.threshold <= KeyBudget.target
        /\ \A k \in Slots : gas[k] \in Int /\ tok[k] \in Nat
    BY <1>0, RunFacts DEF FundTypeOK
  <2>5. FaucetAmount \in Nat
    BY SendAssumption
  \* What each way of reading the balances leaves to do.
  <2>6. CASE ~Derived
    <3>1. todo' = {}
      BY <2>1, <2>6
    <3>2. FundTypeOK'
      BY <1>0, <1>1, <2>3, <3>1, ZenonT(30) DEF FundTypeOK
    <3>3. FundInv'
      BY <1>0, <1>1, <2>2, <2>3, <2>6, <3>1
         DEF FundInv, TransfersFit, NoKeyOverfunded, KeysFilled, SharesGiven
    <3> QED BY <1>1, <2>2, <3>2, <3>3, FundingIsEnough
  <2>7. CASE Derived /\ InTurn
    <3>1. todo' = {<<k, KeyShare>> : k \in Slots} /\ stage = "distribute"
      BY <2>1, <2>7 DEF InTurn
    <3>2. FundTypeOK'
      BY <1>0, <1>1, <2>3, <2>4, <3>1 DEF FundTypeOK
    <3>3. InTurn'
      BY <1>1, <2>2, <2>7, ZenonT(30) DEF InTurn
    <3>4. FundInv'
      BY <1>0, <1>1, <2>2, <2>3, <2>7, <3>1, <3>3
         DEF FundInv, TransfersFit, NoKeyOverfunded, KeysFilled, SharesGiven
    <3> QED BY <1>1, <2>2, <3>2, <3>4, FundingIsEnough
  <2>8. CASE Derived /\ stage = "distribute" /\ ~InTurn
    <3>1. todo' = TokenDeficits(unreadable) /\ doubled' = doubled \cup unreadable
      BY <2>1, <2>8
    <3>2. FundTypeOK'
      BY <1>0, <1>1, <2>3, <2>4, <3>1 DEF FundTypeOK, TokenDeficits
    <3>3. TransfersFit'
      BY <1>0, <1>1, <2>2, <2>8, <3>1 DEF TransfersFit, TokenDeficits
    <3>4. SharesGiven'
      BY <1>0, <1>1, <2>2, <2>4, <2>8, <3>1 DEF SharesGiven, TokenDeficits
    <3>5. NoKeyOverfunded' /\ KeysFilled'
      BY <1>0, <1>1, <2>2, <2>3, <2>8, ZenonT(30) DEF NoKeyOverfunded, KeysFilled
    <3> QED BY <1>1, <2>2, <3>2, <3>3, <3>4, <3>5, FundingIsEnough DEF FundInv
  <2>9. CASE Derived /\ stage = "fund" /\ run.faucet
    <3>1. todo' = FaucetDeficits
      BY <2>1, <2>9 DEF InTurn
    <3>2. FundTypeOK'
      BY <1>0, <1>1, <2>3, <2>5, <3>1 DEF FundTypeOK, FaucetDeficits
    <3>3. FundInv'
      BY <1>0, <1>1, <2>2, <2>3, <2>9, <3>1
         DEF FundInv, TransfersFit, NoKeyOverfunded, KeysFilled, SharesGiven, FaucetDeficits
    <3> QED BY <1>1, <2>2, <3>2, <3>3, FundingIsEnough
  <2>10. CASE Derived /\ stage = "fund" /\ ~run.faucet
    <3>1. todo' = GasDeficits
      BY <2>1, <2>10 DEF InTurn
    <3>2. \A k \in Slots : gas[k] < KeyBudget.threshold =>
              KeyBudget.target - gas[k] \in Nat /\ gas[k] + (KeyBudget.target - gas[k]) = KeyBudget.target
      BY <2>4
    <3>3. FundTypeOK'
      BY <1>0, <1>1, <2>3, <3>1, <3>2 DEF FundTypeOK, GasDeficits
    <3>4. TransfersFit'
      BY <1>1, <2>2, <2>4, <2>10, <3>1, <3>2 DEF TransfersFit, GasDeficits
    <3>5. KeysFilled'
      <4> SUFFICES ASSUME NEW k \in Slots, ~(gas[k] >= KeyBudget.threshold)
                   PROVE  \E t \in todo' : t[1] = k /\ gas[k] + t[2] >= KeyBudget.threshold
        BY <1>1, <2>2, <2>10, ZenonT(30) DEF KeysFilled
      <4>1. <<k, KeyBudget.target - gas[k]>> \in todo'
        BY <2>4, <3>1 DEF GasDeficits
      <4> QED BY <2>4, <3>2, <4>1
    <3>6. NoKeyOverfunded' /\ SharesGiven'
      BY <1>0, <1>1, <2>2, <2>3, <2>10 DEF NoKeyOverfunded, SharesGiven
    <3> QED BY <1>1, <2>2, <3>3, <3>4, <3>5, <3>6, FundingIsEnough DEF FundInv
  <2> QED BY <1>1, <2>6, <2>7, <2>8, <2>9, <2>10
<1> QED BY <1>2, <1>3

\* A key that is skipped has its share.
LEMMA SkipKeyKeeps ==
  ASSUME SendInv, SkipKey
  PROVE  SendInv'
<1> USE SameRun
<1>1. TypeOK /\ FundTypeOK /\ TransfersFit /\ NoKeyOverfunded /\ KeysFilled /\ SharesGiven
  BY DEF SendInv, TypeOK, FundInv
<1>2. /\ UNCHANGED <<run, stage, runs, gas, tok, late, doubled, sendVars, verdict>>
      /\ stage = "distribute" /\ todo # Unread /\ todo # {} /\ todo' = Later
      /\ ~KeyShort(Turn[1], {}) /\ InTurn
  BY DEF SkipKey, InTurn
<1>3. Turn \in todo /\ Turn[1] \in Slots /\ Later \subseteq todo
  BY <1>1, <1>2, TurnIsOne
<1>4. KeyShare \in Nat /\ tok[Turn[1]] \in Nat
  BY <1>1, <1>3, RunFacts, ZenonT(30) DEF FundTypeOK
<1>5. tok[Turn[1]] >= KeyShare
  BY <1>2, <1>4 DEF KeyShort, EvmKeyShort, SolKeyShort
<1>6. FundTypeOK'
  BY <1>1, <1>2, <1>3, ZenonT(30) DEF FundTypeOK
<1>7. TransfersFit'
  BY <1>1, <1>2, <1>3 DEF TransfersFit, InTurn
<1>8. SharesGiven'
  <2> SUFFICES ASSUME Derived, NEW k \in Slots, ~(tok[k] >= KeyShare)
               PROVE  <<k, KeyShare>> \in todo'
    BY <1>1, <1>2 DEF SharesGiven
  <2>1. <<k, KeyShare>> \in todo
    BY <1>1, <1>2 DEF SharesGiven
  <2>2. k # Turn[1]
    BY <1>5
  <2>3. <<k, KeyShare>> # Turn
    BY <2>2
  <2> QED BY <1>2, <2>1, <2>3 DEF Later
<1>9. NoKeyOverfunded' /\ KeysFilled'
  BY <1>1, <1>2 DEF NoKeyOverfunded, KeysFilled
<1> QED BY <1>2, <1>6, <1>7, <1>8, <1>9, FundingIsEnough DEF FundInv

\* A payment adds to one balance of one key.
LEMMA PayAdds ==
  ASSUME FundTypeOK, run' = run, NEW what \in {"fund", "distribute"}, NEW key \in Slots,
         NEW amount \in Nat, Pay(what, key, amount)
  PROVE  /\ gas' \in [Slots -> Int] /\ tok' \in [Slots -> Nat]
         /\ \A k \in Slots : gas'[k] >= gas[k] /\ tok'[k] >= tok[k]
         /\ \A k \in Slots : k # key => gas'[k] = gas[k] /\ tok'[k] = tok[k]
         /\ what = "fund" => tok' = tok /\ gas'[key] = gas[key] + amount
         /\ what = "distribute" => gas' = gas /\ tok'[key] = tok[key] + amount
<1>1. gas \in [Slots -> Int] /\ tok \in [Slots -> Nat]
  BY DEF FundTypeOK
<1>2. CASE what = "fund"
  <2>1. gas' = [gas EXCEPT ![key] = @ + amount] /\ tok' = tok
    BY <1>2 DEF Pay
  <2> QED BY <1>1, <1>2, <2>1
<1>3. CASE what = "distribute"
  <2>1. tok' = [tok EXCEPT ![key] = @ + amount] /\ gas' = gas
    BY <1>3 DEF Pay
  <2> QED BY <1>1, <1>3, <2>1
<1> QED BY <1>2, <1>3

\* A transfer fits its key, whether it lands, fails or is left behind.
LEMMA TransferKeeps ==
  ASSUME SendInv, Transfer
  PROVE  SendInv'
<1> USE SameRun
<1> DEFINE key == Turn[1]
           amount == Turn[2]
<1>1. TypeOK /\ FundTypeOK /\ TransfersFit /\ NoKeyOverfunded /\ KeysFilled /\ SharesGiven
  BY DEF SendInv, TypeOK, FundInv
<1>2. /\ UNCHANGED <<run, sendVars, verdict, runs>>
      /\ stage \in {"fund", "distribute"} /\ todo # Unread /\ todo # {}
      /\ stage' \in {stage, "failed"}
  BY DEF Transfer, FailRun
<1>3. /\ Turn \in todo /\ key \in Slots /\ amount \in Nat /\ Later \subseteq todo
      /\ \A t \in Later : t[1] # key
  BY <1>1, <1>2, TurnIsOne
<1>4. /\ KeyShare \in Nat /\ KeyBudget.target \in Nat /\ KeyBudget.threshold \in Nat
      /\ \A k \in Slots : gas[k] \in Int /\ tok[k] \in Nat
  BY <1>1, RunFacts, ZenonT(30) DEF FundTypeOK
<1>5. PICK unreadable \in {{}} \cup {{k} : k \in {j \in {key} : InTurn}} :
         /\ InTurn => KeyShort(key, unreadable)
         /\ doubled' = doubled \cup unreadable
  BY DEF Transfer
<1>6. doubled \subseteq doubled' /\ doubled' \subseteq Slots
  BY <1>1, <1>3, <1>5, ZenonT(30) DEF FundTypeOK
\* The transfer fits.
<1>7. \/ key \in doubled' \/ run.faucet
      \/ IF stage = "fund" THEN gas[key] + amount <= KeyBudget.target
         ELSE amount = KeyShare /\ tok[key] < KeyShare
  <2>1. CASE InTurn
    <3>1. key \in doubled' \/ tok[key] < KeyShare
      BY <1>5, <2>1 DEF KeyShort, EvmKeyShort, SolKeyShort
    <3> QED BY <1>1, <1>2, <1>3, <1>6, <2>1, <3>1, ZenonT(30) DEF TransfersFit, InTurn
  <2>2. CASE ~InTurn
    BY <1>1, <1>2, <1>3, <1>6, <2>2, ZenonT(30) DEF TransfersFit
  <2> QED BY <2>1, <2>2, ZenonT(30)
<1>8. ASSUME Pay(stage, key, amount)
      PROVE  /\ gas' \in [Slots -> Int] /\ tok' \in [Slots -> Nat]
             /\ \A k \in Slots : gas'[k] >= gas[k] /\ tok'[k] >= tok[k]
             /\ \A k \in Slots : k # key => gas'[k] = gas[k] /\ tok'[k] = tok[k]
             /\ stage = "fund" => tok' = tok /\ gas'[key] = gas[key] + amount
             /\ stage = "distribute" => gas' = gas /\ tok'[key] = tok[key] + amount
  <2> HIDE DEF key, amount
  <2> QED BY <1>1, <1>2, <1>3, <1>8, PayAdds, ZenonT(30)
<1>9. ASSUME Pay(stage, key, amount)
      PROVE  NoKeyOverfunded'
  <2> SUFFICES ASSUME NEW k \in Slots, k \notin doubled', ~run.faucet
               PROVE  /\ gas'[k] <= KeyBudget.target
                      /\ KeyShare > 0 => tok'[k] < 2 * KeyShare
    BY <1>2 DEF NoKeyOverfunded
  <2>1. gas[k] <= KeyBudget.target /\ (KeyShare > 0 => tok[k] < 2 * KeyShare)
    BY <1>1, <1>6 DEF NoKeyOverfunded
  <2> HIDE DEF key, amount
  <2>2. CASE k # key
    BY <1>8, <1>9, <2>1, <2>2, ZenonT(30)
  <2>3. CASE k = key /\ stage = "fund"
    BY <1>7, <1>8, <1>9, <2>1, <2>3, ZenonT(30)
  <2>4. CASE k = key /\ stage = "distribute"
    BY <1>4, <1>7, <1>8, <1>9, <2>1, <2>4
  <2> QED BY <1>2, <2>2, <2>3, <2>4, ZenonT(30)
\* The transfer lands.
<1>10. CASE /\ Pay(stage, key, amount) /\ todo' = Later
            /\ UNCHANGED <<run, stage, late, sendVars, verdict>>
  <2>1. FundTypeOK'
    BY <1>1, <1>2, <1>3, <1>6, <1>8, <1>10, ZenonT(30) DEF FundTypeOK
  <2>2. NoKeyOverfunded'
    BY <1>9, <1>10
  <2>3. TransfersFit'
    <3>1. \A t, u \in todo' : t[1] = u[1] => t = u
      BY <1>1, <1>3, <1>10 DEF TransfersFit
    <3>2. todo \subseteq Slots \X Nat
      BY <1>1, <1>2, ZenonT(30) DEF FundTypeOK
    <3>3. \A t \in todo' : t \in todo /\ t[1] \in Slots /\ gas'[t[1]] = gas[t[1]] /\ tok'[t[1]] = tok[t[1]]
      BY <1>3, <1>8, <1>10, <3>2, ZenonT(30)
    <3>4. InTurn' = InTurn
      BY <1>2, <1>10, ZenonT(30) DEF InTurn
    <3> HIDE DEF key, amount
    <3> QED BY <1>1, <1>2, <1>6, <1>10, <3>1, <3>3, <3>4, ZenonT(30) DEF TransfersFit
  <2>4. KeysFilled'
    <3> SUFFICES ASSUME Derived, ~run.faucet, NEW k \in Slots
                 PROVE  /\ stage = "fund" =>
                              \/ gas'[k] >= KeyBudget.threshold
                              \/ \E t \in todo' : t[1] = k /\ gas'[k] + t[2] >= KeyBudget.threshold
                              \/ run.route[2] = "xrpl" /\ Promised(k)'
                        /\ stage = "distribute" => gas'[k] >= KeyBudget.threshold
      BY <1>2, <1>10, ZenonT(30) DEF KeysFilled
    <3>1. CASE stage = "distribute"
      BY <1>1, <1>8, <1>10, <3>1, ZenonT(30) DEF KeysFilled
    <3>2. CASE stage = "fund" /\ gas[k] >= KeyBudget.threshold
      <4>1. gas'[k] >= gas[k] /\ gas'[k] \in Int
        BY <1>8, <1>10, ZenonT(30)
      <4> QED BY <1>4, <3>2, <4>1
    <3>3. CASE stage = "fund" /\ run.route[2] = "xrpl" /\ Promised(k)
      <4>1. gas'[k] >= gas[k] /\ gas'[k] \in Int
        BY <1>8, <1>10, ZenonT(30)
      <4>2. Promised(k)'
        BY <1>1, <1>2, <1>4, <1>10, <3>3, <4>1, PromiseKept, ZenonT(30)
      <4> QED BY <3>3, <4>2
    <3>4. CASE /\ stage = "fund" /\ ~(gas[k] >= KeyBudget.threshold)
               /\ ~(run.route[2] = "xrpl" /\ Promised(k))
      <4>1. PICK t \in todo : t[1] = k /\ gas[k] + t[2] >= KeyBudget.threshold
        BY <1>1, <1>2, <3>4, ZenonT(30) DEF KeysFilled
      <4>2. CASE k = key
        <5>1. t = Turn
          BY <1>1, <1>3, <4>1, <4>2, ZenonT(30) DEF TransfersFit
        <5> QED BY <1>8, <1>10, <3>4, <4>1, <4>2, <5>1, ZenonT(30)
      <4>3. CASE k # key
        <5>1. t \in todo' /\ gas'[k] = gas[k]
          BY <1>8, <1>10, <4>1, <4>3 DEF Later
        <5> QED BY <3>4, <4>1, <5>1, ZenonT(30)
      <4> QED BY <4>2, <4>3
    <3> QED BY <1>2, <3>1, <3>2, <3>3, <3>4, ZenonT(30)
  <2>5. SharesGiven'
    <3> SUFFICES ASSUME Derived, NEW k \in Slots, stage = "distribute"
                 PROVE  tok'[k] >= KeyShare \/ <<k, KeyShare>> \in todo'
      BY <1>1, <1>2, <1>10 DEF SharesGiven
    <3>1. tok'[k] \in Nat /\ tok'[k] >= tok[k]
      BY <1>8, <1>10, ZenonT(30)
    <3>2. CASE tok[k] >= KeyShare
      BY <1>4, <3>1, <3>2
    <3>3. CASE <<k, KeyShare>> \in todo /\ k = key
      <4>1. Turn = <<k, KeyShare>>
        BY <1>1, <1>3, <3>3, ZenonT(30) DEF TransfersFit
      <4>2. tok'[k] = tok[k] + KeyShare
        BY <1>8, <1>10, <3>3, <4>1
      <4> QED BY <1>4, <4>2
    <3>4. CASE <<k, KeyShare>> \in todo /\ k # key
      <4>1. <<k, KeyShare>> # Turn
        BY <3>4
      <4> QED BY <1>10, <3>4, <4>1, ZenonT(30) DEF Later
    <3> QED BY <1>1, <1>2, <3>2, <3>3, <3>4, ZenonT(30) DEF SharesGiven
  <2> QED BY <1>2, <2>1, <2>2, <2>3, <2>4, <2>5, FundingIsEnough, ZenonT(30) DEF FundInv
\* An error ends the run.
<1>11. ASSUME FailRun, todo' = Unread, NoKeyOverfunded', gas' \in [Slots -> Int], tok' \in [Slots -> Nat],
              late' \subseteq {"fund", "distribute"} \X Slots \X Nat
       PROVE  SendInv'
  <2>1. FundInv'
    BY <1>2, <1>11, FailedFunding, ZenonT(30) DEF FailRun
  <2>2. FundTypeOK'
    BY <1>1, <1>2, <1>6, <1>11, ZenonT(30) DEF FundTypeOK
  <2> QED BY <1>2, <1>11, <2>1, <2>2, FundingIsEnough, ZenonT(30) DEF FailRun
<1>12. ASSUME UNCHANGED <<gas, tok>> PROVE NoKeyOverfunded'
  BY <1>1, <1>2, <1>6, <1>12 DEF NoKeyOverfunded
<1>13. CASE FailRun /\ todo' = Unread /\ UNCHANGED <<gas, tok, late>>
  BY <1>1, <1>11, <1>12, <1>13, ZenonT(30) DEF FundTypeOK
<1>14. CASE FailRun /\ todo' = Unread /\ Pay(stage, key, amount) /\ UNCHANGED late
  BY <1>1, <1>8, <1>9, <1>11, <1>14, ZenonT(30) DEF FundTypeOK
<1>15. CASE /\ FailRun /\ todo' = Unread
            /\ late' = late \cup {<<stage, key, amount>>}
            /\ UNCHANGED <<gas, tok>>
  <2>1. late' \subseteq {"fund", "distribute"} \X Slots \X Nat
    BY <1>1, <1>2, <1>3, <1>15 DEF FundTypeOK
  <2> QED BY <1>1, <1>11, <1>12, <1>15, <2>1, ZenonT(30) DEF FundTypeOK
\* The transfer is taken for made: its key has been promised what it needs.
<1>16. CASE /\ AcceptedEnough /\ todo' = Later
            /\ late' = late \cup {<<stage, key, amount>>}
            /\ UNCHANGED <<run, stage, gas, tok, sendVars, verdict>>
  <2>0. stage = "fund" /\ (~run.faucet => run.route[2] = "xrpl")
    BY <1>16, ZenonT(30) DEF AcceptedEnough
  <2>1. FundTypeOK'
    <3>1. late' \subseteq {"fund", "distribute"} \X Slots \X Nat
      BY <1>1, <1>2, <1>3, <1>16 DEF FundTypeOK
    <3> QED BY <1>1, <1>2, <1>3, <1>6, <1>16, <3>1, ZenonT(30) DEF FundTypeOK
  <2>2. NoKeyOverfunded'
    BY <1>12, <1>16
  <2>3. TransfersFit'
    <3>1. \A t, u \in todo' : t[1] = u[1] => t = u
      BY <1>1, <1>3, <1>16, ZenonT(30) DEF TransfersFit
    <3> QED BY <1>1, <1>2, <1>3, <1>6, <1>16, <2>0, <3>1, ZenonT(30) DEF TransfersFit
  <2>4. KeysFilled'
    <3> SUFFICES ASSUME Derived, ~run.faucet, NEW k \in Slots
                 PROVE  \/ gas[k] >= KeyBudget.threshold
                        \/ \E t \in todo' : t[1] = k /\ gas[k] + t[2] >= KeyBudget.threshold
                        \/ Promised(k)'
      BY <1>2, <1>16, <2>0, ZenonT(30) DEF KeysFilled
    <3>1. CASE Promised(k)
      <4>1. gas'[k] \in Int /\ gas'[k] >= gas[k] /\ late \subseteq late'
        BY <1>4, <1>16
      <4> QED BY <1>1, <1>2, <1>4, <3>1, <4>1, PromiseKept, ZenonT(30)
    <3>2. ASSUME NEW t \in todo, t[1] = k, gas[k] + t[2] >= KeyBudget.threshold, k # key
          PROVE  t \in todo'
      BY <1>16, <3>2 DEF Later
    <3>3. ASSUME NEW t \in todo, t[1] = k, gas[k] + t[2] >= KeyBudget.threshold, k = key
          PROVE  Promised(k)'
      <4>1. t = Turn
        BY <1>1, <1>3, <3>3, ZenonT(30) DEF TransfersFit
      <4>2. <<"fund", k, amount>> \in late'
        BY <1>16, <2>0, <3>3
      <4> HIDE DEF key
      <4>3. amount \in Coming(k)'
        <5>1. <<"fund", k, amount>>[1] = "fund" /\ <<"fund", k, amount>>[2] = k
              /\ <<"fund", k, amount>>[3] = amount
          OBVIOUS
        <5> HIDE DEF amount
        <5> QED BY <4>2, <5>1, ZenonT(30) DEF Coming
      <4>4. gas'[k] + amount >= KeyBudget'.threshold
        BY <1>2, <1>16, <3>3, <4>1, SameRun, ZenonT(30)
      <4> QED BY <4>3, <4>4, ZenonT(30) DEF Promised
    <3> QED BY <1>1, <1>2, <2>0, <3>1, <3>2, <3>3, ZenonT(30) DEF KeysFilled
  <2>5. SharesGiven'
    BY <1>1, <1>2, <1>16, <2>0, ZenonT(30) DEF SharesGiven
  <2> QED BY <1>2, <1>16, <2>1, <2>2, <2>3, <2>4, <2>5, FundingIsEnough, ZenonT(30) DEF FundInv
<1> QED BY <1>10, <1>13, <1>14, <1>15, <1>16, ZenonT(30) DEF Transfer

\* An approval takes a fee from a key the stage will not come back to.
LEMMA ApproveKeeps ==
  ASSUME SendInv, Approve
  PROVE  SendInv'
<1> USE SameRun
<1>1. TypeOK /\ FundTypeOK /\ TransfersFit /\ NoKeyOverfunded /\ KeysFilled /\ SharesGiven
  BY DEF SendInv, TypeOK, FundInv
<1>2. /\ UNCHANGED <<run, sendVars, verdict, runs, tok, late, doubled>>
      /\ stage = "approve" /\ todo # {} /\ todo # Unread
  BY <1>1 DEF Approve, FailRun, TransfersFit
<1>3. /\ Turn \in todo /\ Turn[1] \in Slots /\ Later \subseteq todo
      /\ \A t \in Later : t[1] # Turn[1]
  BY <1>1, <1>2, TurnIsOne, ZenonT(30)
<1>4. /\ KeyBudget.target \in Nat /\ KeyBudget.threshold \in Nat /\ Fee \in Nat
      /\ \A k \in Slots : gas[k] \in Int
  BY <1>1, RunFacts, PipelineAssumption DEF FundTypeOK
<1>5. CASE /\ todo' = Later /\ gas' \in {gas, [gas EXCEPT ![Turn[1]] = @ - Fee]}
           /\ UNCHANGED <<run, stage, sendVars, verdict>>
  <2>1. /\ gas' \in [Slots -> Int]
        /\ \A k \in Slots : /\ gas'[k] <= gas[k]
                            /\ k # Turn[1] => gas'[k] = gas[k]
                            /\ gas'[k] >= gas[k] - Fee
    BY <1>1, <1>3, <1>4, <1>5 DEF FundTypeOK
  <2>2. FundTypeOK'
    BY <1>1, <1>2, <1>3, <1>5, <2>1, ZenonT(30) DEF FundTypeOK
  <2>3. TransfersFit'
    <3>1. todo' # Unread
      <4>1. \A t \in todo : t[1] # -1
        <5>1. \A t \in todo : t[1] \in Slots
          BY <1>1, <1>2 DEF FundTypeOK
        <5>2. \A k \in Slots : k # -1
          BY <1>1, RunFacts DEF Slots
        <5> QED BY <5>1, <5>2, ZenonT(30)
      <4>2. <<-1, 0>> \notin Later
        BY <1>3, <4>1, ZenonT(30)
      <4> QED BY <1>5, <4>2 DEF Unread
    <3> QED BY <1>1, <1>2, <1>3, <1>5, <3>1, ZenonT(30) DEF TransfersFit
  <2>4. NoKeyOverfunded'
    <3> SUFFICES ASSUME NEW k \in Slots, k \notin doubled, ~run.faucet
                 PROVE  /\ gas'[k] <= KeyBudget.target
                        /\ KeyShare > 0 => tok[k] < 2 * KeyShare
      BY <1>2, ZenonT(30) DEF NoKeyOverfunded
    <3>1. gas[k] <= KeyBudget.target /\ (KeyShare > 0 => tok[k] < 2 * KeyShare)
      BY <1>1 DEF NoKeyOverfunded
    <3>2. gas'[k] <= gas[k] /\ gas'[k] \in Int
      BY <2>1, ZenonT(30)
    <3> QED BY <1>4, <3>1, <3>2
  <2>5. KeysFilled'
    <3> SUFFICES ASSUME Derived, ~run.faucet, NEW k \in Slots
                 PROVE  \/ gas'[k] >= KeyBudget.threshold
                        \/ gas'[k] >= KeyBudget.threshold - Fee /\ \A t \in todo' : t[1] # k
      BY <1>2, <1>5, ZenonT(30) DEF KeysFilled
    <3>1. \/ gas[k] >= KeyBudget.threshold
          \/ gas[k] >= KeyBudget.threshold - Fee /\ \A t \in todo : t[1] # k
      BY <1>1, <1>2, ZenonT(30) DEF KeysFilled
    <3>2. CASE k # Turn[1]
      BY <1>3, <1>5, <2>1, <3>1, <3>2, ZenonT(30)
    <3>3. CASE k = Turn[1]
      <4>1. gas[k] >= KeyBudget.threshold
        BY <1>3, <3>1, <3>3, ZenonT(30)
      <4>2. gas'[k] >= gas[k] - Fee /\ gas'[k] \in Int
        BY <2>1
      <4>3. gas'[k] >= KeyBudget.threshold - Fee
        BY <1>4, <4>1, <4>2
      <4> QED BY <1>3, <1>5, <3>3, <4>3, ZenonT(30)
    <3> QED BY <3>2, <3>3
  <2>6. SharesGiven'
    BY <1>1, <1>2, <1>5 DEF SharesGiven
  <2> QED BY <1>2, <1>5, <2>2, <2>3, <2>4, <2>5, <2>6, FundingIsEnough, ZenonT(30) DEF FundInv
<1>6. CASE FailRun /\ todo' = Unread /\ UNCHANGED gas
  <2>1. NoKeyOverfunded'
    BY <1>1, <1>2, <1>6 DEF NoKeyOverfunded
  <2>2. FundInv'
    BY <1>2, <1>6, <2>1, FailedFunding, ZenonT(30) DEF FailRun
  <2>3. FundTypeOK'
    BY <1>1, <1>2, <1>6, ZenonT(30) DEF FundTypeOK
  <2> QED BY <1>2, <1>6, <2>2, <2>3, FundingIsEnough, ZenonT(30) DEF FailRun
<1> QED BY <1>5, <1>6, ZenonT(30) DEF Approve

\* A late transfer only adds to a key, and marks it.
LEMMA TransferLandsKeeps ==
  ASSUME SendInv, NEW t \in late, TransferLands(t)
  PROVE  SendInv'
<1> USE SameRun
<1>1. TypeOK /\ FundTypeOK /\ TransfersFit /\ NoKeyOverfunded /\ KeysFilled /\ SharesGiven
  BY DEF SendInv, TypeOK, FundInv
<1>2. /\ UNCHANGED <<run, stage, runs, todo, sendVars, verdict>>
      /\ stage \in {"fund", "distribute", "approve", "failed"}
      /\ late' = late \ {t} /\ doubled' = doubled \cup {t[2]}
      /\ Pay(t[1], t[2], t[3])
  BY DEF TransferLands
<1>3. t[1] \in {"fund", "distribute"} /\ t[2] \in Slots /\ t[3] \in Nat
  BY <1>1, ZenonT(30) DEF FundTypeOK
<1>4. /\ gas' \in [Slots -> Int] /\ tok' \in [Slots -> Nat]
      /\ \A k \in Slots : gas'[k] >= gas[k] /\ tok'[k] >= tok[k]
      /\ \A k \in Slots : k # t[2] => gas'[k] = gas[k] /\ tok'[k] = tok[k]
  BY <1>1, <1>2, <1>3, PayAdds
<1>5. /\ KeyShare \in Nat /\ KeyBudget.threshold \in Nat /\ Fee \in Nat
      /\ \A k \in Slots : gas[k] \in Int /\ tok[k] \in Nat /\ gas'[k] \in Int /\ tok'[k] \in Nat
  BY <1>1, <1>4, RunFacts, PipelineAssumption, ZenonT(30) DEF FundTypeOK
<1>6. FundTypeOK'
  BY <1>1, <1>2, <1>3, <1>4, ZenonT(30) DEF FundTypeOK
<1>7. TransfersFit'
  <2>1. stage \in {"fund", "distribute"} /\ todo # Unread => \A u \in todo : u[1] \in Slots
    BY <1>1 DEF FundTypeOK
  <2>2. InTurn' = InTurn
    BY <1>2, ZenonT(30) DEF InTurn
  <2> QED BY <1>1, <1>2, <1>4, <2>1, <2>2, ZenonT(30) DEF TransfersFit
<1>8. NoKeyOverfunded'
  BY <1>1, <1>2, <1>4, ZenonT(30) DEF NoKeyOverfunded
<1>9. KeysFilled'
  <2> SUFFICES ASSUME Derived, ~run.faucet, NEW k \in Slots
               PROVE  /\ stage = "fund" /\ todo # Unread =>
                           \/ gas'[k] >= KeyBudget.threshold
                           \/ \E u \in todo : u[1] = k /\ gas'[k] + u[2] >= KeyBudget.threshold
                           \/ run.route[2] = "xrpl" /\ Promised(k)'
                      /\ stage = "distribute" => gas'[k] >= KeyBudget.threshold
                      /\ stage = "approve" =>
                           \/ gas'[k] >= KeyBudget.threshold
                           \/ gas'[k] >= KeyBudget.threshold - Fee /\ \A u \in todo : u[1] # k
    BY <1>2, ZenonT(30) DEF KeysFilled
  <2>0. /\ gas[k] \in Int /\ gas'[k] \in Int /\ gas'[k] >= gas[k]
        /\ KeyBudget.threshold \in Nat /\ Fee \in Nat
    BY <1>4, <1>5, ZenonT(30)
  <2>1. \A x \in Int : gas[k] >= x => gas'[k] >= x
    BY <2>0
  <2>2. CASE stage = "fund" /\ todo # Unread
    <3>1. CASE gas[k] >= KeyBudget.threshold
      BY <1>5, <2>1, <2>2, <3>1
    <3>2. CASE run.route[2] = "xrpl" /\ Promised(k)
      <4>1. PICK extra \in Coming(k) : gas[k] + extra >= KeyBudget.threshold
        BY <3>2 DEF Promised
      <4>2. extra \in Nat
        BY <1>1, ComingIsNat, ZenonT(30)
      <4>3. CASE t[1] = "fund" /\ t[2] = k /\ extra = t[3]
        <5>1. gas'[k] = gas[k] + t[3]
          BY <1>1, <1>2, <1>3, <4>3, PayAdds, ZenonT(30)
        <5> QED BY <2>2, <4>1, <4>3, <5>1, ZenonT(30)
      <4>4. CASE ~(t[1] = "fund" /\ t[2] = k /\ extra = t[3])
        <5>1. extra \in Coming(k)'
          BY <1>2, <4>4, ZenonT(30) DEF Coming
        <5>2. gas'[k] + extra >= KeyBudget.threshold
          BY <2>0, <4>1, <4>2
        <5> QED BY <1>2, <2>2, <3>2, <5>1, <5>2, SameRun DEF Promised
      <4> QED BY <4>3, <4>4
    <3>3. CASE ~(gas[k] >= KeyBudget.threshold) /\ ~(run.route[2] = "xrpl" /\ Promised(k))
      <4>1. PICK u \in todo : u[1] = k /\ gas[k] + u[2] >= KeyBudget.threshold
        BY <1>1, <2>2, <3>3, ZenonT(30) DEF KeysFilled
      <4>2. u[2] \in Nat
        BY <1>1, <2>2, <4>1 DEF FundTypeOK
      <4>3. gas'[k] + u[2] >= KeyBudget.threshold
        BY <2>0, <4>1, <4>2
      <4> QED BY <2>2, <4>1, <4>3
    <3> QED BY <3>1, <3>2, <3>3, ZenonT(30)
  <2>3. CASE stage = "distribute"
    <3>1. gas[k] >= KeyBudget.threshold
      BY <1>1, <2>3, ZenonT(30) DEF KeysFilled
    <3> QED BY <2>0, <2>1, <2>3, <3>1
  <2>4. CASE stage = "approve"
    <3>1. \/ gas[k] >= KeyBudget.threshold
          \/ gas[k] >= KeyBudget.threshold - Fee /\ \A u \in todo : u[1] # k
      BY <1>1, <2>4, ZenonT(30) DEF KeysFilled
    <3>2. CASE gas[k] >= KeyBudget.threshold
      BY <2>0, <2>1, <2>4, <3>2
    <3>3. CASE gas[k] >= KeyBudget.threshold - Fee /\ \A u \in todo : u[1] # k
      BY <2>0, <2>1, <2>4, <3>3
    <3> QED BY <3>1, <3>2, <3>3
  <2> QED BY <2>2, <2>3, <2>4
<1>10. SharesGiven'
  <2>1. \A k \in Slots : tok[k] >= KeyShare => tok'[k] >= KeyShare
    BY <1>4, <1>5
  <2>2. KeyShare' = KeyShare /\ Derived' = Derived /\ Slots' = Slots /\ stage' = stage /\ todo' = todo
    BY <1>2
  <2> QED BY <1>1, <2>1, <2>2, ZenonT(30) DEF SharesGiven
<1> QED BY <1>2, <1>6, <1>7, <1>8, <1>9, <1>10, FundingIsEnough, ZenonT(30) DEF FundInv

\* A stage is left with its keys filled.
LEMMA NextStageKeeps ==
  ASSUME SendInv, NextStage
  PROVE  SendInv'
<1> USE SameRun
<1>1. TypeOK /\ FundTypeOK /\ TransfersFit /\ NoKeyOverfunded /\ KeysFilled /\ SharesGiven
  BY DEF SendInv, TypeOK, FundInv
<1>2. /\ UNCHANGED <<run, runs, gas, tok, late, doubled, sendVars, verdict>>
      /\ stage \in {"fund", "distribute", "approve"} /\ todo = {} /\ todo # Unread
      /\ todo' = IF stage' # "approve" THEN Unread
                 ELSE {<<k, 0>> : k \in {j \in Slots : Derived}}
  BY DEF NextStage, Unread
<1>3. \/ stage' = "distribute" /\ stage = "fund" /\ KeyShare > 0
      \/ stage' = "approve" /\ stage = "distribute"
      \/ stage' = "ready" /\ ~(stage = "fund" /\ KeyShare > 0)
  BY <1>2 DEF NextStage
<1>4. /\ KeyShare \in Nat /\ KeyBudget.threshold \in Nat /\ Fee \in Nat
      /\ \A k \in Slots : gas[k] \in Int /\ tok[k] \in Nat
  BY <1>1, RunFacts, PipelineAssumption DEF FundTypeOK
<1>5. FundTypeOK'
  BY <1>1, <1>2 DEF FundTypeOK
<1>6. TransfersFit'
  <2>1. \A k \in Slots : k # -1
    BY <1>1, RunFacts DEF Slots
  <2>2. <<-1, 0>> \notin {<<k, 0>> : k \in {j \in Slots : Derived}}
    BY <2>1
  <2>3. {<<k, 0>> : k \in {j \in Slots : Derived}} # Unread
    BY <2>2, ZenonT(30) DEF Unread
  <2> QED BY <1>2, <1>3, <2>3 DEF TransfersFit, Unread
<1>7. NoKeyOverfunded'
  BY <1>1, <1>2, ZenonT(30) DEF NoKeyOverfunded
<1>8. ASSUME Derived, ~run.faucet, NEW k \in Slots
      PROVE  \/ stage = "fund" /\ run.route[2] = "xrpl" /\ Promised(k) /\ Promised(k)'
             \/ /\ stage # "approve" => gas[k] >= KeyBudget.threshold
                /\ gas[k] >= KeyBudget.threshold - Fee
  <2>0. late' = late /\ gas' = gas /\ gas[k] \in Int
    BY <1>2, <1>4, <1>8, ZenonT(30)
  <2>1. late \subseteq late' /\ gas'[k] \in Int /\ gas'[k] >= gas[k]
    BY <2>0
  <2>2. Promised(k) => Promised(k)'
    BY <1>1, <1>2, <1>4, <1>8, <2>1, PromiseKept, ZenonT(30)
  <2>3. CASE stage = "fund" /\ run.route[2] = "xrpl" /\ Promised(k)
    BY <2>2, <2>3, ZenonT(30)
  <2>4. CASE ~(stage = "fund" /\ run.route[2] = "xrpl" /\ Promised(k))
    <3>1. /\ stage # "approve" => gas[k] >= KeyBudget.threshold
          /\ gas[k] >= KeyBudget.threshold \/ gas[k] >= KeyBudget.threshold - Fee
      BY <1>1, <1>2, <1>8, <2>4, ZenonT(30) DEF KeysFilled
    <3> QED BY <1>4, <1>8, <3>1
  <2> QED BY <2>3, <2>4
<1>9. KeysFilled'
  <2>1. stage = "approve" => KeyShare > 0
    BY <1>1 DEF SharesGiven
  <2>0. run.route[2] = "xrpl" => ~(KeyShare > 0)
    BY DEF KeyShare, Share
  <2> SUFFICES ASSUME Derived, ~run.faucet, NEW k \in Slots
               PROVE  /\ stage' \in {"distribute", "approve"} => gas[k] >= KeyBudget.threshold
                      /\ stage' = "ready" =>
                            \/ gas[k] >= KeyBudget.threshold - IF KeyShare > 0 THEN Fee ELSE 0
                            \/ run.route[2] = "xrpl" /\ Promised(k)'
    BY <1>2, <1>3, ZenonT(30) DEF KeysFilled
  <2>2. CASE stage' \in {"distribute", "approve"}
    BY <1>3, <1>8, <2>0, <2>2
  <2>3. CASE stage' = "ready" /\ KeyShare > 0
    BY <1>8, <2>0, <2>3, ZenonT(30)
  <2>4. CASE stage' = "ready" /\ ~(KeyShare > 0)
    <3>1. gas[k] >= KeyBudget.threshold \/ (run.route[2] = "xrpl" /\ Promised(k)')
      BY <1>8, <2>1, <2>4
    <3> QED BY <1>4, <2>4, <3>1
  <2> QED BY <1>3, <2>2, <2>3, <2>4
<1>10. SharesGiven'
  <2>1. /\ KeyShare' = KeyShare /\ Derived' = Derived /\ Slots' = Slots /\ tok' = tok
        /\ todo = {} /\ todo # Unread
    BY <1>2
  <2>2. CASE stage' = "distribute"
    BY <1>2, <1>3, <2>1, <2>2, ZenonT(30) DEF SharesGiven
  <2>3. CASE stage' \in {"approve", "ready"}
    <3>1. stage \in {"distribute", "approve"} \/ (stage = "fund" /\ ~(KeyShare > 0))
      BY <1>2, <1>3, <2>3
    <3>2. stage' = "approve" => KeyShare > 0
      BY <1>1, <1>3 DEF SharesGiven
    <3>3. ASSUME Derived, NEW k \in Slots PROVE tok[k] >= KeyShare
      <4>1. CASE stage \in {"distribute", "approve"}
        BY <1>1, <2>1, <3>3, <4>1, ZenonT(30) DEF SharesGiven
      <4>2. CASE stage = "fund" /\ ~(KeyShare > 0)
        BY <1>4, <3>3, <4>2
      <4> QED BY <3>1, <4>1, <4>2
    <3> QED BY <2>1, <2>3, <3>2, <3>3, ZenonT(30) DEF SharesGiven
  <2> QED BY <1>3, <2>2, <2>3, ZenonT(30)
<1> QED BY <1>2, <1>3, <1>5, <1>6, <1>7, <1>9, <1>10, FundingIsEnough DEF FundInv

\* A run that is started again reads every balance anew.
LEMMA RerunKeeps ==
  ASSUME SendInv, Rerun
  PROVE  SendInv'
<1> USE SameRun
<1>1. TypeOK /\ FundTypeOK /\ NoKeyOverfunded
  BY DEF SendInv, TypeOK, FundInv
<1>2. /\ UNCHANGED <<run, gas, tok, late, doubled, sendVars, verdict>>
      /\ stage = "failed" /\ stage' = "fund" /\ todo' = Unread /\ runs' = runs + 1
  BY DEF Rerun
<1>3. FundTypeOK'
  BY <1>1, <1>2 DEF FundTypeOK
<1>4. FundInv'
  BY <1>1, <1>2 DEF FundInv, TransfersFit, NoKeyOverfunded, KeysFilled, SharesGiven, Unread
<1> QED BY <1>2, <1>3, <1>4, FundingIsEnough

\* Sending starts with the balances forgotten.
LEMMA StartSendsKeeps ==
  ASSUME SendInv, StartSends
  PROVE  SendInv'
<1> USE SameRun
<1>1. TypeOK /\ FundTypeOK /\ TransfersFit
  BY DEF SendInv, TypeOK, FundInv
<1>2. /\ UNCHANGED <<run, todo, sendVars, verdict>>
      /\ stage = "ready" /\ stage' = "send" /\ runs' = MaxRuns
      /\ gas' = [k \in Slots |-> 0] /\ tok' = [k \in Slots |-> 0]
      /\ late' = {} /\ doubled' = {}
  BY DEF StartSends
<1>3. KeyBudget.target \in Nat /\ KeyShare \in Nat
  BY <1>1, RunFacts, ZenonT(30)
<1>4. FundTypeOK'
  BY <1>1, <1>2, SendAssumption DEF FundTypeOK
<1>5. NoKeyOverfunded'
  BY <1>2, <1>3 DEF NoKeyOverfunded
<1>6. FundInv'
  BY <1>1, <1>2, <1>5, ZenonT(30) DEF FundInv, TransfersFit, KeysFilled, SharesGiven
<1> QED BY <1>2, <1>4, <1>6, FundingIsEnough

-----------------------------------------------------------------------------
(* Submitting.                                                               *)

\* The submissions so far.
LEMMA SentFacts ==
  ASSUME TypeOK
  PROVE  /\ Len(sent) \in Nat /\ DOMAIN sent = 1 .. Len(sent)
         /\ \A i \in DOMAIN sent :
               /\ sent[i] \in Submissions
               /\ sent[i].slot \in Slots /\ sent[i].nonce \in Nat
               /\ Wallet(sent[i].slot) \in -1 .. Plan.keys - 1
         /\ \A S \in SUBSET DOMAIN sent : IsFiniteSet(S) /\ Cardinality(S) \in Nat
<1>1. sent \in Seq(Submissions)
  BY DEF TypeOK, SendTypeOK
<1>2. Len(sent) \in Nat /\ DOMAIN sent = 1 .. Len(sent)
  BY <1>1
<1>3. \A i \in DOMAIN sent : sent[i] \in Submissions
  BY <1>1
<1>4. \A i \in DOMAIN sent : sent[i].slot \in Slots /\ sent[i].nonce \in Nat
  BY <1>3 DEF Submissions
<1>5. \A i \in DOMAIN sent : Wallet(sent[i].slot) \in -1 .. Plan.keys - 1
  BY <1>4, RunFacts
<1>6. IsFiniteSet(DOMAIN sent)
  BY <1>2, FS_Interval
<1>7. \A S \in SUBSET DOMAIN sent : IsFiniteSet(S) /\ Cardinality(S) \in Nat
  BY <1>6, FS_Subset, FS_CardinalityType
<1> QED BY <1>2, <1>3, <1>4, <1>5, <1>7

\* Submitting touches no balance.
LEMMA FundingUntouched ==
  ASSUME SendInv, UNCHANGED <<run, fundVars>>,
         stage' = stage \/ stage' \in {"verify", "failed", "done"}
  PROVE  FundTypeOK' /\ FundInv'
<1> USE SameRun
<1>1. UNCHANGED <<run, runs, gas, tok, todo, late, doubled>>
  BY DEF fundVars
<1>2. FundTypeOK'
  BY <1>1, ZenonT(30) DEF SendInv, TypeOK, FundTypeOK
<1>3. TransfersFit'
  BY <1>1, ZenonT(30) DEF SendInv, FundInv, TransfersFit, InTurn
<1>4. NoKeyOverfunded' /\ SharesGiven'
  BY <1>1 DEF SendInv, FundInv, NoKeyOverfunded, SharesGiven
<1>5. KeysFilled'
  <2>1. \A k : Promised(k)' <=> Promised(k)
    BY <1>1, ZenonT(30) DEF Promised, Coming
  <2> QED BY <1>1, <2>1, ZenonT(30) DEF SendInv, FundInv, KeysFilled
<1> QED BY <1>2, <1>3, <1>4, <1>5 DEF FundInv

\* A run with something still in flight, or still sending, is not green.
LEMMA NotGreenYet ==
  ASSUME SendInv, InFlight # {} \/ stage # "done"
  PROVE  verdict # "green"
BY ZenonT(30) DEF SendInv, VerdictEnds, GreenMeansExecuted, InFlight

\* What a settling step has to show: slots and nonces stay, faults stay, what is counted
\* as landed is in the account's count.
LEMMA SettlingIsEnough ==
  ASSUME SendInv, UNCHANGED <<run, stage, fundVars, nonces, stopped, verdict>>,
         verdict # "green", broken' \in BOOLEAN,
         account' \in [-1 .. Plan.keys - 1 -> Nat],
         sent' \in Seq(Submissions), DOMAIN sent' = DOMAIN sent,
         \A j \in DOMAIN sent : sent'[j].slot = sent[j].slot /\ sent'[j].nonce = sent[j].nonce,
         Pipe.nonce = "pinned" =>
            \A w \in -1 .. Plan.keys - 1 : Cardinality(Landed(w)') <= account'[w],
         CausesKnown', FailuresStayWithTheirKey'
  PROVE  SendInv'
<1> USE SameRun
<1>1. TypeOK'
  <2>1. SendTypeOK'
    BY ZenonT(30) DEF SendInv, TypeOK, SendTypeOK, Submissions
  <2> QED BY <2>1, FundingUntouched, ZenonT(30) DEF SendInv, TypeOK
<1>2. NoncesCovered'
  <2>1. \A slot : Fired(slot)' = Fired(slot)
    BY ZenonT(30) DEF Fired
  <2>2. \A i \in DOMAIN sent : Before(i)' = Before(i)
    <3>1. DOMAIN sent = 1 .. Len(sent) /\ Len(sent) \in Nat
      BY SentFacts, ZenonT(30) DEF SendInv
    <3>2. \A i \in DOMAIN sent : \A j \in 1 .. i - 1 : j \in DOMAIN sent
      BY <3>1
    <3> QED BY <3>2, ZenonT(30) DEF Before
  <2> QED BY <2>1, <2>2, ZenonT(30) DEF SendInv, SubmitInv, NoncesCovered
<1>3. VerdictEnds' /\ GreenMeansExecuted'
  BY DEF SendInv, VerdictEnds, GreenMeansExecuted
<1> QED BY <1>1, <1>2, <1>3, FundingUntouched, ZenonT(30) DEF SendInv, SubmitInv

\* In a step of the same run, that every gap has its fault is said of the new submissions
\* with the wallets as they were.
LEMMA FaultsNext ==
  ASSUME run' = run, DOMAIN sent' = DOMAIN sent,
         \A i \in DOMAIN sent : sent'[i].cause = "gap" =>
            \E j \in 1 .. i - 1 : /\ Wallet(sent'[j].slot) = Wallet(sent'[i].slot)
                                 /\ sent'[j].cause = "fault"
  PROVE  FailuresStayWithTheirKey'
<1>1. Derived' = Derived
  BY SameRun, ZenonT(30)
<1> QED BY <1>1, ZenonT(30) DEF FailuresStayWithTheirKey, Wallet

\* No settling that adds no gap takes away a fault.
LEMMA NoNewGap ==
  ASSUME SendInv, run' = run, DOMAIN sent' = DOMAIN sent,
         \A j \in DOMAIN sent :
            /\ sent'[j].slot = sent[j].slot
            /\ sent[j].cause = "fault" => sent'[j].cause = "fault"
            /\ sent'[j].cause = "gap" => sent[j].cause = "gap"
  PROVE  FailuresStayWithTheirKey'
<1> SUFFICES ASSUME NEW i \in DOMAIN sent, sent'[i].cause = "gap"
             PROVE  \E j \in 1 .. i - 1 : /\ Wallet(sent'[j].slot) = Wallet(sent'[i].slot)
                                          /\ sent'[j].cause = "fault"
  BY FaultsNext, ZenonT(30)
<1>1. PICK j \in 1 .. i - 1 : Wallet(sent[j].slot) = Wallet(sent[i].slot) /\ sent[j].cause = "fault"
  BY ZenonT(30) DEF SendInv, SubmitInv, FailuresStayWithTheirKey
<1>2. j \in DOMAIN sent
  BY SentFacts DEF SendInv
<1> QED BY <1>1, <1>2, ZenonT(30)

\* One submission settles.
LEMMA SettleFacts ==
  ASSUME SendInv, NEW i \in DOMAIN sent,
         NEW state \in {"flight", "good", "reverted", "silent", "failed", "pooled", "executed",
                        "routed"},
         NEW cause \in {"none", "fault", "gap"}, Settle(i, state, cause)
  PROVE  /\ UNCHANGED <<run, stage, fundVars, nonces, stopped, verdict>> /\ broken' \in BOOLEAN
         /\ sent' \in Seq(Submissions) /\ DOMAIN sent' = DOMAIN sent
         /\ \A j \in DOMAIN sent : sent'[j].slot = sent[j].slot /\ sent'[j].nonce = sent[j].nonce
         /\ \A j \in DOMAIN sent : j # i => sent'[j] = sent[j]
         /\ sent'[i].state = state /\ sent'[i].cause = cause
<1>1. /\ UNCHANGED <<run, stage, fundVars, nonces, stopped, broken, verdict>>
      /\ sent' = [sent EXCEPT ![i].state = state, ![i].cause = cause]
  BY ZenonT(30) DEF Settle
<1>2. sent \in Seq(Submissions) /\ sent[i] \in Submissions /\ broken \in BOOLEAN
  BY SentFacts, ZenonT(30) DEF SendInv, TypeOK, SendTypeOK
<1> DEFINE r == [sent[i] EXCEPT !.state = state, !.cause = cause]
<1>3. /\ r \in Submissions /\ r.state = state /\ r.cause = cause
      /\ r.slot = sent[i].slot /\ r.nonce = sent[i].nonce
  BY <1>2, ZenonT(30) DEF Submissions
<1>4. sent' = [sent EXCEPT ![i] = r]
  BY <1>1, <1>2, ZenonT(30) DEF Submissions
<1> HIDE DEF r
<1>5. DOMAIN sent' = DOMAIN sent /\ sent'[i] = r /\ \A j \in DOMAIN sent : j # i => sent'[j] = sent[j]
  BY <1>2, <1>4
<1>6. sent' \in Seq(Submissions)
  BY <1>2, <1>3, <1>4
<1> QED BY <1>1, <1>2, <1>3, <1>5, <1>6

\* Its cause is known, if it is no longer in flight.
LEMMA SettledCauses ==
  ASSUME CausesKnown, DOMAIN sent' = DOMAIN sent, NEW i \in DOMAIN sent,
         \A j \in DOMAIN sent : j # i => sent'[j] = sent[j],
         sent'[i].state # "flight", sent'[i].state = "pooled" => sent'[i].cause # "none"
  PROVE  CausesKnown'
<1>1. ASSUME NEW j \in DOMAIN sent
      PROVE  /\ sent'[j].state = "flight" => sent'[j].cause = "none"
             /\ sent'[j].state = "pooled" => sent'[j].cause # "none"
  <2>1. CASE j = i
    BY <2>1, ZenonT(30)
  <2>2. CASE j # i
    BY <2>2, ZenonT(30) DEF CausesKnown
  <2> QED BY <2>1, <2>2, ZenonT(30)
<1> QED BY <1>1, ZenonT(30) DEF CausesKnown

\* If no submission but i gets to count as landed, and i only with the account's count
\* going up, the count still covers what landed.
LEMMA LandedCovered ==
  ASSUME SendInv, run' = run, DOMAIN sent' = DOMAIN sent,
         NEW i \in DOMAIN sent, Pipe.nonce = "pinned",
         \A j \in DOMAIN sent : sent'[j].slot = sent[j].slot,
         \A j \in DOMAIN sent : j # i /\ sent'[j].cause = "none" /\ sent'[j].state # "flight" =>
            sent[j].cause = "none" /\ sent[j].state # "flight",
         account' = account \/ account' = [account EXCEPT ![Wallet(sent[i].slot)] = @ + 1],
         sent'[i].cause = "none" => account' # account,
         NEW w \in -1 .. Plan.keys - 1
  PROVE  Cardinality(Landed(w)') <= account'[w]
<1>0. \A slot : Wallet(slot)' = Wallet(slot)
  BY SameRun
<1>1. /\ TypeOK /\ account \in [-1 .. Plan.keys - 1 -> Nat] /\ Cardinality(Landed(w)) <= account[w]
  BY ZenonT(30) DEF SendInv, TypeOK, SendTypeOK, SubmitInv, NoncesCovered
<1>2. account[w] \in Nat /\ Wallet(sent[i].slot) \in -1 .. Plan.keys - 1
  BY <1>1, SentFacts, ZenonT(30)
<1>3. Landed(w) \in SUBSET DOMAIN sent /\ Landed(w)' \in SUBSET DOMAIN sent
  BY ZenonT(30) DEF Landed
<1>4. /\ IsFiniteSet(Landed(w)) /\ Cardinality(Landed(w)) \in Nat
      /\ IsFiniteSet(Landed(w)') /\ Cardinality(Landed(w)') \in Nat
  BY <1>1, <1>3, SentFacts, ZenonT(30)
<1>5. CASE w = Wallet(sent[i].slot) /\ account' # account
  <2>1. Landed(w)' \subseteq Landed(w) \cup {i}
    <3> SUFFICES ASSUME NEW j \in Landed(w)', j # i PROVE j \in Landed(w)
      BY ZenonT(30)
    <3>1. /\ j \in DOMAIN sent /\ Wallet(sent[j].slot) = w
          /\ sent'[j].state # "flight" /\ sent'[j].cause = "none"
      BY <1>0, ZenonT(30) DEF Landed
    <3> QED BY <3>1, ZenonT(30) DEF Landed
  <2>2. Cardinality(Landed(w)') <= Cardinality(Landed(w)) + 1
    BY <1>4, <2>1, AddedOne, ZenonT(30)
  <2>3. account'[w] = account[w] + 1
    BY <1>1, <1>2, <1>5, ZenonT(30)
  <2>4. Cardinality(Landed(w)) <= account[w]
    BY <1>1, ZenonT(30)
  <2>5. Cardinality(Landed(w)') <= account[w] + 1
    BY <1>2, <1>4, <2>2, <2>4, OneMore, ZenonT(30)
  <2> QED BY <2>3, <2>5, ZenonT(30)
<1>6. CASE ~(w = Wallet(sent[i].slot) /\ account' # account)
  <2>1. Landed(w)' \subseteq Landed(w)
    <3> SUFFICES ASSUME NEW j \in Landed(w)' PROVE j \in Landed(w)
      BY ZenonT(30)
    <3>1. /\ j \in DOMAIN sent /\ Wallet(sent[j].slot) = w
          /\ sent'[j].state # "flight" /\ sent'[j].cause = "none"
      BY <1>0, ZenonT(30) DEF Landed
    <3>2. j # i
      BY <1>6, <3>1, ZenonT(30)
    <3> QED BY <3>1, <3>2, ZenonT(30) DEF Landed
  <2>2. Cardinality(Landed(w)') <= Cardinality(Landed(w))
    BY <1>4, <2>1, FS_Subset, ZenonT(30)
  <2>3. account'[w] = account[w]
    BY <1>1, <1>2, <1>6, ZenonT(30)
  <2>4. Cardinality(Landed(w)) <= account[w]
    BY <1>1, ZenonT(30)
  <2>5. Cardinality(Landed(w)') <= account[w]
    BY <1>2, <1>4, <2>2, <2>4, AtMost, ZenonT(30)
  <2> QED BY <2>3, <2>5, ZenonT(30)
<1> QED BY <1>5, <1>6, ZenonT(30)

\* A submission that fails or gives up does not land, and the account's count stays.
LEMMA NothingLands ==
  ASSUME SendInv, run' = run, DOMAIN sent' = DOMAIN sent, account' = account,
         NEW i \in DOMAIN sent, Pipe.nonce = "pinned",
         \A j \in DOMAIN sent : sent'[j].slot = sent[j].slot,
         \A j \in DOMAIN sent : j # i => sent'[j] = sent[j],
         sent'[i].cause # "none"
  PROVE  \A w \in -1 .. Plan.keys - 1 : Cardinality(Landed(w)') <= account'[w]
<1>1. \A j \in DOMAIN sent : j # i /\ sent'[j].cause = "none" /\ sent'[j].state # "flight" =>
         sent[j].cause = "none" /\ sent[j].state # "flight"
  BY ZenonT(30)
<1> QED BY <1>1, LandedCovered, ZenonT(30)

\* The count goes up by one, or the wallet's nonces are not followed.
LEMMA CountedFacts ==
  ASSUME SendInv, NEW i \in DOMAIN sent, Counted(i)
  PROVE  /\ account' \in [-1 .. Plan.keys - 1 -> Nat]
         /\ Pipe.nonce = "pinned" =>
               account' = [account EXCEPT ![Wallet(sent[i].slot)] = @ + 1] /\ account' # account
<1>1. account \in [-1 .. Plan.keys - 1 -> Nat] /\ Wallet(sent[i].slot) \in -1 .. Plan.keys - 1
  BY SentFacts, ZenonT(30) DEF SendInv, TypeOK, SendTypeOK
<1>2. CASE Pipe.nonce = "pinned"
  <2>1. account' = [account EXCEPT ![Wallet(sent[i].slot)] = @ + 1]
    BY <1>2 DEF Counted
  <2>2. account'[Wallet(sent[i].slot)] = account[Wallet(sent[i].slot)] + 1
    BY <1>1, <2>1
  <2> QED BY <1>1, <2>1, <2>2
<1>3. CASE Pipe.nonce # "pinned"
  BY <1>1, <1>3, ZenonT(30) DEF Counted
<1> QED BY <1>2, <1>3, ZenonT(30)

\* A transaction in a block is counted by its account.
LEMMA LandsKeeps ==
  ASSUME SendInv, NEW i \in DOMAIN sent, Lands(i)
  PROVE  SendInv'
<1>1. /\ i \in InFlight /\ sent[i].state = "flight" /\ sent[i].cause = "none" /\ Counted(i)
      /\ CausesKnown
  BY ZenonT(30) DEF SendInv, SubmitInv, Lands, InFlight, CausesKnown
<1>2. PICK result \in {"good", "reverted", "silent"} :
         Settle(i, IF result \in Confirms(run.route) THEN result ELSE "failed",
                IF result = "good" THEN "none" ELSE "fault")
  BY DEF Lands
<1> DEFINE state == IF result \in Confirms(run.route) THEN result ELSE "failed"
           cause == IF result = "good" THEN "none" ELSE "fault"
<1>3. /\ state \in {"good", "reverted", "silent", "failed"} /\ cause \in {"none", "fault"}
      /\ Settle(i, state, cause)
  BY <1>2, ZenonT(30)
<1> HIDE DEF state, cause
<1>4. /\ UNCHANGED <<run, stage, fundVars, nonces, stopped, verdict>> /\ broken' \in BOOLEAN
      /\ sent' \in Seq(Submissions) /\ DOMAIN sent' = DOMAIN sent
      /\ \A j \in DOMAIN sent : sent'[j].slot = sent[j].slot /\ sent'[j].nonce = sent[j].nonce
      /\ \A j \in DOMAIN sent : j # i => sent'[j] = sent[j]
      /\ sent'[i].state = state /\ sent'[i].cause = cause
  BY <1>3, SettleFacts
<1>5. /\ account' \in [-1 .. Plan.keys - 1 -> Nat]
      /\ Pipe.nonce = "pinned" =>
            account' = [account EXCEPT ![Wallet(sent[i].slot)] = @ + 1] /\ account' # account
  BY <1>1, CountedFacts, ZenonT(30)
<1>6. Pipe.nonce = "pinned" =>
         \A w \in -1 .. Plan.keys - 1 : Cardinality(Landed(w)') <= account'[w]
  BY <1>4, <1>5, LandedCovered, ZenonT(30)
<1>7. CausesKnown'
  <2>1. sent'[i].state # "flight" /\ sent'[i].state # "pooled"
    BY <1>3, <1>4, ZenonT(30)
  <2> QED BY <1>1, <1>4, <2>1, SettledCauses, ZenonT(30)
<1>8. FailuresStayWithTheirKey'
  BY <1>1, <1>3, <1>4, NoNewGap, ZenonT(30)
<1>9. verdict # "green"
  BY <1>1, NotGreenYet, ZenonT(30)
<1> QED BY <1>4, <1>5, <1>6, <1>7, <1>8, <1>9, SettlingIsEnough, ZenonT(30)

\* A submission that fails is a fault of its own.
LEMMA FailsKeeps ==
  ASSUME SendInv, NEW i \in DOMAIN sent, Fails(i)
  PROVE  SendInv'
<1>1. /\ i \in InFlight /\ sent[i].state = "flight" /\ sent[i].cause = "none" /\ account' = account
      /\ CausesKnown
  BY ZenonT(30) DEF SendInv, SubmitInv, Fails, InFlight, CausesKnown
<1>2. PICK state \in {"failed", "pooled"} : Settle(i, state, "fault")
  BY ZenonT(30) DEF Fails
<1>3. /\ UNCHANGED <<run, stage, fundVars, nonces, stopped, verdict>> /\ broken' \in BOOLEAN
      /\ sent' \in Seq(Submissions) /\ DOMAIN sent' = DOMAIN sent
      /\ \A j \in DOMAIN sent : sent'[j].slot = sent[j].slot /\ sent'[j].nonce = sent[j].nonce
      /\ \A j \in DOMAIN sent : j # i => sent'[j] = sent[j]
      /\ sent'[i].state = state /\ sent'[i].cause = "fault"
  BY <1>2, SettleFacts, ZenonT(30)
<1>4. account' \in [-1 .. Plan.keys - 1 -> Nat]
  BY <1>1, <1>3, SameRun, ZenonT(30) DEF SendInv, TypeOK, SendTypeOK
<1>5. Pipe.nonce = "pinned" =>
         \A w \in -1 .. Plan.keys - 1 : Cardinality(Landed(w)') <= account'[w]
  <2>1. sent'[i].cause # "none" /\ run' = run
    BY <1>3, ZenonT(30)
  <2> QED BY <1>1, <1>3, <2>1, NothingLands, ZenonT(30)
<1>6. CausesKnown'
  <2>1. sent'[i].state # "flight" /\ sent'[i].cause # "none"
    BY <1>2, <1>3, ZenonT(30)
  <2> QED BY <1>1, <1>3, <2>1, SettledCauses, ZenonT(30)
<1>7. FailuresStayWithTheirKey'
  BY <1>1, <1>3, NoNewGap, ZenonT(30)
<1>8. verdict # "green"
  BY <1>1, NotGreenYet, ZenonT(30)
<1> QED BY <1>3, <1>4, <1>5, <1>6, <1>7, <1>8, SettlingIsEnough, ZenonT(30)

\* A transaction left in the pool may land, and stays a failure.
LEMMA LandsLateKeeps ==
  ASSUME SendInv, NEW i \in DOMAIN sent, LandsLate(i)
  PROVE  SendInv'
<1>1. /\ stage = "send" /\ sent[i].state = "pooled" /\ Counted(i) /\ CausesKnown
      /\ Settle(i, "failed", sent[i].cause)
  BY ZenonT(30) DEF SendInv, SubmitInv, LandsLate
<1>2. sent[i].cause \in {"fault", "gap"}
  <2>1. sent[i] \in Submissions
    BY SentFacts DEF SendInv
  <2>2. sent[i].cause \in {"none", "fault", "gap"}
    BY <2>1, ZenonT(30) DEF Submissions
  <2> QED BY <1>1, <2>2, ZenonT(30) DEF CausesKnown
<1>3. /\ UNCHANGED <<run, stage, fundVars, nonces, stopped, verdict>> /\ broken' \in BOOLEAN
      /\ sent' \in Seq(Submissions) /\ DOMAIN sent' = DOMAIN sent
      /\ \A j \in DOMAIN sent : sent'[j].slot = sent[j].slot /\ sent'[j].nonce = sent[j].nonce
      /\ \A j \in DOMAIN sent : j # i => sent'[j] = sent[j]
      /\ sent'[i].state = "failed" /\ sent'[i].cause = sent[i].cause
  BY <1>1, <1>2, SettleFacts, ZenonT(30)
<1>4. /\ account' \in [-1 .. Plan.keys - 1 -> Nat]
      /\ Pipe.nonce = "pinned" =>
            account' = [account EXCEPT ![Wallet(sent[i].slot)] = @ + 1] /\ account' # account
  BY <1>1, CountedFacts, ZenonT(30)
<1>5. Pipe.nonce = "pinned" =>
         \A w \in -1 .. Plan.keys - 1 : Cardinality(Landed(w)') <= account'[w]
  BY <1>3, <1>4, LandedCovered, ZenonT(30)
<1>6. CausesKnown'
  <2>1. sent'[i].state # "flight" /\ sent'[i].cause # "none"
    BY <1>2, <1>3, ZenonT(30)
  <2> QED BY <1>1, <1>3, <2>1, SettledCauses, ZenonT(30)
<1>7. FailuresStayWithTheirKey'
  BY <1>3, NoNewGap, ZenonT(30)
<1>8. verdict # "green"
  BY <1>1, NotGreenYet, ZenonT(30)
<1> QED BY <1>3, <1>4, <1>5, <1>6, <1>7, <1>8, SettlingIsEnough, ZenonT(30)

\* A submission gives up on its nonce: as many submissions of its slot came before as the
\* nonce says, none is in flight any more, and they did not all land.
LEMMA GivesUpKeeps ==
  ASSUME SendInv, NEW i \in DOMAIN sent, GivesUp(i)
  PROVE  SendInv'
<1> DEFINE w == Wallet(sent[i].slot)
<1>1. /\ i \in InFlight /\ sent[i].state = "flight" /\ sent[i].cause = "none" /\ account' = account
      /\ Pipe.nonce = "pinned" /\ sent[i].nonce > account[w]
      /\ \A j \in InFlight : j < i => Wallet(sent[j].slot) # w
      /\ Settle(i, "pooled", "gap")
  BY ZenonT(30) DEF SendInv, SubmitInv, GivesUp, InFlight, CausesKnown
<1>2. TypeOK /\ CausesKnown /\ NoncesCovered /\ FailuresStayWithTheirKey
  BY ZenonT(30) DEF SendInv, SubmitInv
<1>3. /\ UNCHANGED <<run, stage, fundVars, nonces, stopped, verdict>> /\ broken' \in BOOLEAN
      /\ sent' \in Seq(Submissions) /\ DOMAIN sent' = DOMAIN sent
      /\ \A j \in DOMAIN sent : sent'[j].slot = sent[j].slot /\ sent'[j].nonce = sent[j].nonce
      /\ \A j \in DOMAIN sent : j # i => sent'[j] = sent[j]
      /\ sent'[i].state = "pooled" /\ sent'[i].cause = "gap"
  BY <1>1, SettleFacts, ZenonT(30)
<1>4. account' \in [-1 .. Plan.keys - 1 -> Nat]
  BY <1>1, <1>3, SameRun, ZenonT(30) DEF SendInv, TypeOK, SendTypeOK
<1>5. Pipe.nonce = "pinned" =>
         \A v \in -1 .. Plan.keys - 1 : Cardinality(Landed(v)') <= account'[v]
  <2>1. sent'[i].cause # "none" /\ run' = run
    BY <1>3, ZenonT(30)
  <2> QED BY <1>1, <1>3, <2>1, NothingLands, ZenonT(30)
<1>6. CausesKnown'
  <2>1. sent'[i].state # "flight" /\ sent'[i].cause # "none"
    BY <1>3, ZenonT(30)
  <2> QED BY <1>2, <1>3, <2>1, SettledCauses, ZenonT(30)
<1>7. \A j \in 1 .. i - 1 : j \in DOMAIN sent /\ j < i /\ j # i
  BY <1>2, SentFacts, IndicesBefore, ZenonT(30)
\* Something of this wallet went wrong before.
<1>8. \E j \in 1 .. i - 1 : Wallet(sent[j].slot) = w /\ sent[j].cause # "none"
  <2> SUFFICES ASSUME \A j \in 1 .. i - 1 : Wallet(sent[j].slot) = w => sent[j].cause = "none"
               PROVE  FALSE
    OBVIOUS
  <2>1. Before(i) \subseteq Landed(w)
    <3> SUFFICES ASSUME NEW j \in Before(i) PROVE j \in Landed(w)
      BY ZenonT(30)
    <3>1. j \in 1 .. i - 1 /\ sent[j].slot = sent[i].slot
      BY ZenonT(30) DEF Before
    <3>2. Wallet(sent[j].slot) = w /\ sent[j].cause = "none"
      BY <3>1, ZenonT(30)
    <3>3. sent[j].state # "flight"
      BY <1>1, <1>7, <3>1, <3>2, ZenonT(30) DEF InFlight
    <3> QED BY <1>7, <3>1, <3>2, <3>3, ZenonT(30) DEF Landed
  <2>2. w \in -1 .. Plan.keys - 1 /\ sent[i].nonce \in Nat
    BY <1>2, SentFacts, ZenonT(30)
  <2>3. account[w] \in Nat
    BY <1>2, <2>2, ZenonT(30) DEF TypeOK, SendTypeOK
  <2> HIDE DEF w
  <2>4. Landed(w) \in SUBSET DOMAIN sent
    BY ZenonT(30) DEF Landed
  <2>5. IsFiniteSet(Landed(w)) /\ Cardinality(Landed(w)) \in Nat
    BY <1>2, <2>4, SentFacts, ZenonT(30)
  <2>6. Cardinality(Before(i)) <= Cardinality(Landed(w)) /\ Cardinality(Before(i)) \in Nat
    BY <2>1, <2>5, FS_Subset, FS_CardinalityType, ZenonT(30)
  <2>7. sent[i].nonce <= Cardinality(Before(i)) /\ Cardinality(Landed(w)) <= account[w]
    BY <1>1, <1>2, <2>2, ZenonT(30) DEF NoncesCovered
  <2>8. sent[i].nonce <= Cardinality(Landed(w))
    BY <2>2, <2>5, <2>6, <2>7, AtMost, ZenonT(30)
  <2>9. ~(sent[i].nonce > account[w])
    BY <2>2, <2>3, <2>5, <2>7, <2>8, AtMost, ZenonT(30)
  <2> QED BY <1>1, <2>9, ZenonT(30)
<1>9. \E j \in 1 .. i - 1 : Wallet(sent[j].slot) = w /\ sent[j].cause = "fault"
  <2>1. PICK j \in 1 .. i - 1 : Wallet(sent[j].slot) = w /\ sent[j].cause # "none"
    BY <1>8, ZenonT(30)
  <2>2. sent[j] \in Submissions /\ j \in DOMAIN sent /\ 1 .. j - 1 \subseteq 1 .. i - 1
    BY <1>2, <1>7, <2>1, SentFacts, IndicesBefore, ZenonT(30)
  <2>3. CASE sent[j].cause = "fault"
    BY <2>1, <2>3, ZenonT(30)
  <2>4. CASE sent[j].cause = "gap"
    <3>1. PICK k \in 1 .. j - 1 : Wallet(sent[k].slot) = Wallet(sent[j].slot) /\ sent[k].cause = "fault"
      BY <1>2, <2>2, <2>4, ZenonT(30) DEF FailuresStayWithTheirKey
    <3>2. k \in 1 .. i - 1
      BY <2>2, <3>1, ZenonT(30)
    <3> QED BY <2>1, <3>1, <3>2, ZenonT(30)
  <2> QED BY <2>1, <2>2, <2>3, <2>4, ZenonT(30) DEF Submissions
<1>10. FailuresStayWithTheirKey'
  <2> SUFFICES ASSUME NEW k \in DOMAIN sent, sent'[k].cause = "gap"
               PROVE  \E j \in 1 .. k - 1 : /\ Wallet(sent'[j].slot) = Wallet(sent'[k].slot)
                                            /\ sent'[j].cause = "fault"
    BY <1>3, FaultsNext, ZenonT(30)
  <2>1. PICK j \in 1 .. k - 1 : Wallet(sent[j].slot) = Wallet(sent[k].slot) /\ sent[j].cause = "fault"
    <3>1. CASE k = i
      BY <1>9, <3>1, ZenonT(30)
    <3>2. CASE k # i
      BY <1>2, <1>3, <3>2, ZenonT(30) DEF FailuresStayWithTheirKey
    <3> QED BY <3>1, <3>2, ZenonT(30)
  <2>2. j \in DOMAIN sent
    BY <1>2, <2>1, SentFacts, IndicesBefore, ZenonT(30)
  <2>3. j # i
    BY <1>1, <2>1, ZenonT(30)
  <2> QED BY <1>3, <2>1, <2>2, <2>3, ZenonT(30)
<1>11. verdict # "green"
  BY <1>1, NotGreenYet, ZenonT(30)
<1> QED BY <1>3, <1>4, <1>5, <1>6, <1>10, <1>11, SettlingIsEnough, ZenonT(30)

\* A submission task dies, and takes the others of a sustained run with it.
LEMMA PanicsKeeps ==
  ASSUME SendInv, NEW i \in DOMAIN sent, Panics(i)
  PROVE  SendInv'
<1> DEFINE hit == {j \in DOMAIN sent : j = i \/ (j \in InFlight /\ Pipe.order = "sustained")}
<1>1. /\ UNCHANGED <<run, stage, fundVars, nonces, account, stopped, verdict>> /\ broken' = TRUE
      /\ i \in InFlight
  BY ZenonT(30) DEF Panics
<1>1a. sent' = [j \in DOMAIN sent |->
                  IF j \in hit THEN [sent[j] EXCEPT !.state = "failed", !.cause = "fault"] ELSE sent[j]]
  BY ZenonT(30) DEF Panics
<1>2. TypeOK /\ CausesKnown
  BY DEF SendInv, SubmitInv
<1>3. \A j \in hit : sent[j].state = "flight" /\ sent[j].cause = "none"
  BY <1>1, <1>2, ZenonT(30) DEF InFlight, CausesKnown
<1>4. Len(sent) \in Nat /\ DOMAIN sent = 1 .. Len(sent) /\ \A j \in DOMAIN sent : sent[j] \in Submissions
  BY <1>2, SentFacts, ZenonT(30)
<1> HIDE DEF hit
<1> DEFINE Struck(j) == [sent[j] EXCEPT !.state = "failed", !.cause = "fault"]
<1>5. \A j \in DOMAIN sent :
         /\ Struck(j) \in Submissions /\ Struck(j).slot = sent[j].slot /\ Struck(j).nonce = sent[j].nonce
         /\ Struck(j).state = "failed" /\ Struck(j).cause = "fault"
  BY <1>4, ZenonT(30) DEF Submissions
<1>6. /\ DOMAIN sent' = DOMAIN sent
      /\ \A j \in DOMAIN sent : sent'[j] \in Submissions
      /\ \A j \in DOMAIN sent : sent'[j].slot = sent[j].slot /\ sent'[j].nonce = sent[j].nonce
      /\ \A j \in DOMAIN sent : IF j \in hit THEN sent'[j].state = "failed" /\ sent'[j].cause = "fault"
                                ELSE sent'[j] = sent[j]
  <2>1. sent' = [j \in DOMAIN sent |-> IF j \in hit THEN Struck(j) ELSE sent[j]]
    BY <1>1a, ZenonT(30)
  <2> HIDE DEF Struck
  <2> QED BY <1>4, <1>5, <2>1
<1>7. sent' \in Seq(Submissions)
  <2>1. sent' = [j \in 1 .. Len(sent) |-> sent'[j]]
    BY <1>1a, <1>4, ZenonT(30)
  <2>2. sent' \in [1 .. Len(sent) -> Submissions]
    BY <1>4, <1>6, <2>1
  <2> QED BY <1>4, <2>2
<1>8. account' \in [-1 .. Plan.keys - 1 -> Nat] /\ account' = account
  BY <1>1, <1>2, ZenonT(30) DEF TypeOK, SendTypeOK
<1>9. \A j \in DOMAIN sent : /\ sent[j].cause = "fault" => sent'[j].cause = "fault"
                             /\ sent'[j].cause = "gap" => sent[j].cause = "gap"
                             /\ sent'[j].cause = "none" /\ sent'[j].state # "flight" =>
                                  sent[j].cause = "none" /\ sent[j].state # "flight"
  BY <1>3, <1>6, ZenonT(30)
<1>10. sent'[i].cause # "none"
  BY <1>6 DEF hit
<1>11. Pipe.nonce = "pinned" =>
         \A w \in -1 .. Plan.keys - 1 : Cardinality(Landed(w)') <= account'[w]
  BY <1>1, <1>6, <1>8, <1>9, <1>10, LandedCovered, ZenonT(30)
<1>12. CausesKnown'
  BY <1>2, <1>6 DEF CausesKnown
<1>13. FailuresStayWithTheirKey'
  BY <1>1, <1>6, <1>9, NoNewGap, ZenonT(30)
<1>14. verdict # "green"
  BY <1>1, NotGreenYet, ZenonT(30)
<1> QED BY <1>1, <1>6, <1>7, <1>8, <1>11, <1>12, <1>13, <1>14, SettlingIsEnough, ZenonT(30)

\* A submission goes out.  A pinned nonce is the number of its slot's earlier ones at most.
LEMMA FireKeeps ==
  ASSUME SendInv, Fire
  PROVE  SendInv'
<1> USE SameRun
<1> DEFINE n == Len(sent)
           slot == ScheduledKey(Plan, n)
           nonce == IF Pipe.nonce = "pinned" THEN NonceTaken(slot) ELSE 0
           new == [slot |-> slot, at |-> Tick(Plan, n), state |-> "flight", cause |-> "none",
                   nonce |-> nonce]
<1>1. TypeOK /\ NoncesCovered /\ CausesKnown /\ FailuresStayWithTheirKey
  BY ZenonT(30) DEF SendInv, SubmitInv
<1>2. /\ UNCHANGED <<run, stage, fundVars, account, stopped, broken, verdict>>
      /\ stage = "send" /\ Plan.total - n > 0
      /\ sent' = Append(sent, new)
      /\ nonces' = IF Pipe.nonce = "pinned" THEN [nonces EXCEPT ![slot] = @ + 1] ELSE nonces
  BY ZenonT(30) DEF Fire, MayFire, Left
<1>3. n \in Nat /\ DOMAIN sent = 1 .. n
  BY <1>1, SentFacts
<1>4. slot \in Slots /\ Tick(Plan, n) \in Nat
  <2>1. IsPlan(Plan) /\ Plan.total \in Nat
    BY <1>1, RunFacts, ZenonT(30) DEF TypeOK
  <2>2. n \in 0 .. Plan.total - 1
    BY <1>2, <1>3, <2>1
  <2> HIDE DEF n
  <2> QED BY <2>1, <2>2, ScheduleInRange DEF Slots
<1>5. sent \in Seq(Submissions) /\ nonces \in [Slots -> Nat] /\ account \in [-1 .. Plan.keys - 1 -> Nat]
  BY <1>1 DEF TypeOK, SendTypeOK
<1>6. nonce \in Nat /\ (Pipe.nonce = "pinned" => nonce = nonces[slot])
  BY <1>4, <1>5, ZenonT(30) DEF NonceTaken
<1> HIDE DEF slot, nonce
<1>7. new \in Submissions
  BY <1>4, <1>6, ZenonT(30) DEF Submissions
<1>8. new.slot = slot /\ new.state = "flight" /\ new.cause = "none" /\ new.nonce = nonce
  BY ZenonT(30)
<1> HIDE DEF new
<1>9. /\ sent' \in Seq(Submissions) /\ DOMAIN sent' = 1 .. n + 1 /\ sent'[n + 1] = new
      /\ \A j \in DOMAIN sent : sent'[j] = sent[j]
  BY <1>2, <1>3, <1>5, <1>7
<1>10. /\ DOMAIN sent' = DOMAIN sent \cup {n + 1} /\ n + 1 \notin DOMAIN sent
       /\ \A i \in DOMAIN sent : \A j \in 1 .. i - 1 : j \in DOMAIN sent
       /\ 1 .. (n + 1) - 1 = DOMAIN sent
  BY <1>3, <1>9
<1> HIDE DEF n
<1>11. TypeOK'
  <2>1. nonces' \in [Slots -> Nat]
    BY <1>2, <1>4, <1>5
  <2>2. stopped' \in BOOLEAN /\ broken' \in BOOLEAN
    BY <1>1, <1>2, ZenonT(30) DEF TypeOK, SendTypeOK
  <2>3. SendTypeOK'
    BY <1>2, <1>5, <1>9, <2>1, <2>2, ZenonT(30) DEF SendTypeOK, Submissions
  <2> QED BY <1>1, <1>2, <2>3, FundingUntouched DEF TypeOK
<1>12. NoncesCovered'
  <2> SUFFICES ASSUME Pipe.nonce = "pinned" PROVE NoncesCovered'
    BY <1>2 DEF NoncesCovered
  <2>1. \A s \in Slots : nonces'[s] <= Cardinality(Fired(s)')
    <3> SUFFICES ASSUME NEW s \in Slots PROVE nonces'[s] <= Cardinality(Fired(s)')
      OBVIOUS
    <3>1. Fired(s) \in SUBSET DOMAIN sent
      BY ZenonT(30) DEF Fired
    <3>2. IsFiniteSet(Fired(s)) /\ Cardinality(Fired(s)) \in Nat
      BY <1>1, <3>1, SentFacts, ZenonT(30)
    <3>3. nonces[s] \in Nat /\ nonces[s] <= Cardinality(Fired(s))
      BY <1>1, <1>5, ZenonT(30) DEF NoncesCovered
    <3>4. CASE s = slot
      <4>1. Fired(s)' = Fired(s) \cup {n + 1} /\ n + 1 \notin Fired(s)
        BY <1>8, <1>9, <1>10, <3>4, ZenonT(30) DEF Fired
      <4>2. Cardinality(Fired(s)') = Cardinality(Fired(s)) + 1
        BY <3>2, <4>1, FS_AddElement
      <4>3. nonces'[s] = nonces[s] + 1
        BY <1>2, <1>5, <3>4, ZenonT(30)
      <4> QED BY <3>2, <3>3, <4>2, <4>3
    <3>5. CASE s # slot
      <4>1. Fired(s)' = Fired(s)
        BY <1>8, <1>9, <1>10, <3>5, ZenonT(30) DEF Fired
      <4>2. nonces'[s] = nonces[s]
        BY <1>2, <1>5, <3>5, ZenonT(30)
      <4> QED BY <3>3, <4>1, <4>2
    <3> QED BY <3>4, <3>5
  <2>2. \A i \in DOMAIN sent' : sent'[i].nonce <= Cardinality(Before(i)')
    <3> SUFFICES ASSUME NEW i \in DOMAIN sent' PROVE sent'[i].nonce <= Cardinality(Before(i)')
      BY ZenonT(30)
    <3>1. CASE i \in DOMAIN sent
      <4>1. Before(i)' = Before(i) /\ sent'[i] = sent[i]
        BY <1>9, <1>10, <3>1, ZenonT(30) DEF Before
      <4> QED BY <1>1, <3>1, <4>1, ZenonT(30) DEF NoncesCovered
    <3>2. CASE i = n + 1
      <4>1. Before(i)' = Fired(slot)
        BY <1>8, <1>9, <1>10, <3>2, ZenonT(30) DEF Before, Fired
      <4> QED BY <1>1, <1>4, <1>6, <1>8, <1>9, <3>2, <4>1, ZenonT(30) DEF NoncesCovered
    <3> QED BY <1>10, <3>1, <3>2
  <2>3. \A w \in -1 .. Plan.keys - 1 : Cardinality(Landed(w)') <= account'[w]
    <3>1. /\ \A j : j \in DOMAIN sent' <=> j \in DOMAIN sent \/ j = n + 1
          /\ \A slot2 : Wallet(slot2)' = Wallet(slot2)
          /\ sent'[n + 1].state = "flight"
      BY <1>2, <1>8, <1>9, <1>10, SameRun, ZenonT(30)
    <3>2. \A w : Landed(w)' = Landed(w)
      <4> SUFFICES ASSUME NEW w, NEW j PROVE j \in Landed(w)' <=> j \in Landed(w)
        BY ZenonT(30) DEF Landed
      <4>1. CASE j \in DOMAIN sent
        BY <1>9, <3>1, <4>1, ZenonT(30) DEF Landed
      <4>2. CASE j \notin DOMAIN sent
        BY <3>1, <4>2, ZenonT(30) DEF Landed
      <4> QED BY <4>1, <4>2
    <3> QED BY <1>1, <1>2, <3>2, ZenonT(30) DEF NoncesCovered
  <2> QED BY <1>2, <2>1, <2>2, <2>3, ZenonT(30) DEF NoncesCovered
<1>13. CausesKnown'
  BY <1>1, <1>8, <1>9, <1>10, ZenonT(30) DEF CausesKnown
<1>14. FailuresStayWithTheirKey'
  <2> SUFFICES ASSUME NEW i \in DOMAIN sent', sent'[i].cause = "gap"
               PROVE  \E j \in 1 .. i - 1 : /\ Wallet(sent'[j].slot) = Wallet(sent'[i].slot)
                                            /\ sent'[j].cause = "fault"
    BY <1>2 DEF FailuresStayWithTheirKey, Wallet
  <2>1. i \in DOMAIN sent
    BY <1>8, <1>9, <1>10, ZenonT(30)
  <2> QED BY <1>1, <1>9, <1>10, <2>1, ZenonT(30) DEF FailuresStayWithTheirKey
<1>15. VerdictEnds' /\ GreenMeansExecuted'
  BY <1>2, NotGreenYet DEF SendInv, VerdictEnds, GreenMeansExecuted
<1> QED BY <1>2, <1>11, <1>12, <1>13, <1>14, <1>15, FundingUntouched, ZenonT(30) DEF SendInv, SubmitInv

\* Ctrl-C, and the end of the sends, leave the submissions alone.
LEMMA InterruptKeeps ==
  ASSUME SendInv, Interrupt \/ SendsEnd
  PROVE  SendInv'
<1> USE SameRun
<1>1. /\ UNCHANGED <<run, fundVars, sent, nonces, account, broken, verdict>> /\ stage = "send"
      /\ stage' \in {"send", "verify", "failed"} /\ stopped' \in BOOLEAN
  <2>1. stopped \in BOOLEAN
    BY DEF SendInv, TypeOK, SendTypeOK
  <2>2. CASE Interrupt
    BY <2>2, ZenonT(30) DEF Interrupt
  <2>3. CASE SendsEnd
    BY <2>1, <2>3 DEF SendsEnd, sendVars
  <2> QED BY <2>2, <2>3, ZenonT(30)
<1>2. verdict = "none"
  BY <1>1, ZenonT(30) DEF SendInv, VerdictEnds
<1>3. TypeOK'
  <2>1. SendTypeOK'
    BY <1>1, ZenonT(30) DEF SendInv, TypeOK, SendTypeOK, Submissions
  <2> QED BY <1>1, <2>1, FundingUntouched DEF SendInv, TypeOK
<1>4. SubmitInv'
  BY <1>1, SentUntouched, ZenonT(30) DEF SendInv
<1>5. VerdictEnds' /\ GreenMeansExecuted'
  BY <1>1, <1>2, ZenonT(30) DEF VerdictEnds, GreenMeansExecuted
<1> QED BY <1>1, <1>3, <1>4, <1>5, FundingUntouched, ZenonT(30) DEF SendInv

-----------------------------------------------------------------------------
(* The report.                                                               *)

\* finish_report: nothing failed and nothing was judged bad; whoever waited for the
\* verification has seen every confirmed submission executed, or routed where that is taken
\* for executed.
LEMMA ReportKeeps ==
  ASSUME SendInv, Report
  PROVE  SendInv'
<1> USE SameRun
<1>1. TypeOK /\ NoncesCovered /\ CausesKnown
  BY DEF SendInv, SubmitInv
<1>2. /\ UNCHANGED <<run, fundVars, nonces, account, stopped, broken>>
      /\ stage = "verify" /\ stage' = "done"
  BY DEF Report
<1> DEFINE Outcome(verified, routed, unseen, pending) ==
              LET bad == Confirmed \ (verified \cup unseen \cup pending)
                  green == FinishReport(Cardinality(Failures), Cardinality(Confirmed),
                                        Cardinality(verified), Cardinality(pending),
                                        Cardinality(bad))
              IN  /\ verdict' = IF green THEN "green" ELSE "red"
                  /\ sent' = [i \in DOMAIN sent |->
                                CASE i \in routed -> [sent[i] EXCEPT !.state = "routed"]
                                  [] i \in verified \ routed ->
                                        [sent[i] EXCEPT !.state = "executed"]
                                  [] OTHER -> sent[i]]
           Routed(verified) == IF TakesRoutedForExecuted THEN SUBSET verified ELSE {{}}
           Unseen(verified) == IF Pipe.verify = "stream" THEN SUBSET (Confirmed \ verified) ELSE {{}}
           Rest(verified, unseen) == SUBSET (Confirmed \ (verified \cup unseen))
<1>2a. PICK verified \in SUBSET {i \in Confirmed : sent[i].state = "good"} :
          \E routed \in Routed(verified) : \E unseen \in Unseen(verified) :
          \E pending \in Rest(verified, unseen) : Outcome(verified, routed, unseen, pending)
  BY ZenonT(30) DEF Report
<1>2b. PICK routed \in Routed(verified) : \E unseen \in Unseen(verified) :
          \E pending \in Rest(verified, unseen) : Outcome(verified, routed, unseen, pending)
  BY <1>2a, ZenonT(30)
<1>2c. PICK unseen \in Unseen(verified) :
          \E pending \in Rest(verified, unseen) : Outcome(verified, routed, unseen, pending)
  BY <1>2b, ZenonT(30)
<1>3. PICK pending \in Rest(verified, unseen) : Outcome(verified, routed, unseen, pending)
  BY <1>2c, ZenonT(30)
<1>3a. routed \subseteq verified /\ (routed # {} => TakesRoutedForExecuted)
  BY <1>2b, ZenonT(30)
<1> DEFINE bad == Confirmed \ (verified \cup unseen \cup pending)
           Final(i) == IF i \in routed THEN "routed" ELSE "executed"
           Closed(i) == [sent[i] EXCEPT !.state = Final(i)]
<1>4. /\ Confirmed \in SUBSET DOMAIN sent /\ Failures \in SUBSET DOMAIN sent
      /\ verified \in SUBSET DOMAIN sent /\ pending \in SUBSET DOMAIN sent
      /\ bad \in SUBSET DOMAIN sent /\ verified \subseteq Confirmed
      /\ \A i \in verified : sent[i].state = "good"
  BY <1>3, <1>2a, ZenonT(30) DEF Confirmed, Failures
<1>5. Len(sent) \in Nat /\ DOMAIN sent = 1 .. Len(sent) /\ \A j \in DOMAIN sent : sent[j] \in Submissions
  BY <1>1, SentFacts
<1>6. \A j \in DOMAIN sent :
         /\ Closed(j) \in Submissions /\ Closed(j).slot = sent[j].slot /\ Closed(j).nonce = sent[j].nonce
         /\ Closed(j).state = Final(j) /\ Closed(j).cause = sent[j].cause
  BY <1>5 DEF Submissions
<1>7. sent' = [i \in DOMAIN sent |-> IF i \in verified THEN Closed(i) ELSE sent[i]]
  <2> DEFINE After(i) == CASE i \in routed -> [sent[i] EXCEPT !.state = "routed"]
                           [] i \in verified \ routed -> [sent[i] EXCEPT !.state = "executed"]
                           [] OTHER -> sent[i]
  <2>1. sent' = [i \in DOMAIN sent |-> After(i)]
    BY <1>3, ZenonT(30)
  <2>2. ASSUME NEW i \in DOMAIN sent
        PROVE  After(i) = IF i \in verified THEN Closed(i) ELSE sent[i]
    <3>1. CASE i \in routed
      BY <1>3a, <3>1
    <3>2. CASE i \in verified \ routed
      BY <3>2
    <3>3. CASE i \notin verified
      BY <1>3a, <3>3, ZenonT(30)
    <3> QED BY <3>1, <3>2, <3>3
  <2> HIDE DEF After, Closed
  <2> QED BY <2>1, <2>2, ZenonT(30)
<1> HIDE DEF Closed
<1>8. /\ DOMAIN sent' = DOMAIN sent
      /\ \A j \in DOMAIN sent :
            /\ sent'[j] \in Submissions
            /\ sent'[j].slot = sent[j].slot /\ sent'[j].nonce = sent[j].nonce
            /\ sent'[j].cause = sent[j].cause
            /\ sent'[j].state = IF j \in verified THEN Final(j) ELSE sent[j].state
  BY <1>5, <1>6, <1>7
<1>9. TypeOK'
  <2>1. sent' = [j \in 1 .. Len(sent) |-> sent'[j]]
    BY <1>5, <1>7
  <2>2. sent' \in [1 .. Len(sent) -> Submissions]
    BY <1>5, <1>8, <2>1, ZenonT(30)
  <2>3. sent' \in Seq(Submissions)
    BY <1>5, <2>2
  <2>4. SendTypeOK'
    BY <1>1, <1>2, <2>3 DEF TypeOK, SendTypeOK, Submissions
  <2>5. verdict' \in {"green", "red"}
    BY <1>3, ZenonT(30)
  <2> QED BY <1>1, <1>2, <2>4, <2>5, FundingUntouched, ZenonT(30) DEF TypeOK
<1>10. NoncesCovered'
  <2>1. \A slot : Fired(slot)' = Fired(slot)
    BY <1>8, ZenonT(30) DEF Fired
  <2>2. \A i \in DOMAIN sent : Before(i)' = Before(i)
    <3>1. \A i \in DOMAIN sent : \A j \in 1 .. i - 1 : j \in DOMAIN sent
      BY <1>5
    <3> QED BY <1>8, <3>1, ZenonT(30) DEF Before
  <2>3. \A j \in DOMAIN sent : /\ sent'[j].state # "flight" <=> sent[j].state # "flight"
                              /\ sent'[j].cause = sent[j].cause
    BY <1>2, <1>4, <1>8, ZenonT(30)
  <2>4. \A w : Landed(w)' = Landed(w)
    <3> SUFFICES ASSUME NEW w, NEW j PROVE j \in Landed(w)' <=> j \in Landed(w)
      BY ZenonT(30) DEF Landed
    <3>1. \A slot : Wallet(slot)' = Wallet(slot)
      BY <1>2, SameRun, ZenonT(30)
    <3>2. CASE j \in DOMAIN sent
      BY <1>8, <2>3, <3>1, <3>2, ZenonT(30) DEF Landed
    <3>3. CASE j \notin DOMAIN sent
      BY <1>8, <3>3, ZenonT(30) DEF Landed
    <3> QED BY <3>2, <3>3
  <2> QED BY <1>1, <1>2, <1>8, <2>1, <2>2, <2>4, ZenonT(30) DEF NoncesCovered
<1>11. CausesKnown'
  BY <1>1, <1>8, ZenonT(30) DEF CausesKnown
<1>12. FailuresStayWithTheirKey'
  BY <1>2, <1>8, NoNewGap, ZenonT(30)
<1>13. VerdictEnds'
  BY <1>2, ZenonT(30) DEF VerdictEnds
<1>14. GreenMeansExecuted'
  <2> SUFFICES ASSUME verdict' = "green" PROVE GreenMeansExecuted'
    BY DEF GreenMeansExecuted
  <2>1. FinishReport(Cardinality(Failures), Cardinality(Confirmed), Cardinality(verified),
                     Cardinality(pending), Cardinality(bad))
    BY <1>3, ZenonT(30)
  <2>2. \A S \in SUBSET DOMAIN sent :
           Cardinality(S) \in Nat /\ (Cardinality(S) = 0 => S = {}) /\ (S = {} => Cardinality(S) = 0)
    BY <1>1, SentFacts, FS_EmptySet, ZenonT(30)
  <2> HIDE DEF bad
  <2>3. Failures = {} /\ bad = {}
    BY <1>4, <2>1, <2>2, ZenonT(30) DEF FinishReport
  <2>4. Confirmed # {} => verified # {} /\ pending = {}
    <3>1. Cardinality(Confirmed) \in Nat /\ Cardinality(verified) \in Nat
      BY <1>4, <2>2, ZenonT(30)
    <3>2. Confirmed # {} => Cardinality(Confirmed) > 0
      BY <1>4, <2>2, <3>1
    <3>3. Cardinality(verified) > 0 => verified # {}
      BY <1>4, <2>2
    <3> QED BY <1>4, <2>1, <2>2, <3>2, <3>3, ZenonT(30) DEF FinishReport
  <2>5. Confirmed = DOMAIN sent
    BY <1>4, <2>3, ZenonT(30) DEF Failures
  <2>6. \A i \in DOMAIN sent : sent'[i].state \in {"good", "reverted", "silent", "executed", "routed"}
    <3>1. \A i \in DOMAIN sent : sent[i].state \in {"good", "reverted", "silent"}
      BY <1>1, <2>5, RunFacts, ZenonT(30) DEF Confirmed
    <3> QED BY <1>8, <3>1, ZenonT(30)
  <2>6a. \A i \in DOMAIN sent : Final(i) \in Arrived
    BY <1>3a, ZenonT(30) DEF Arrived
  <2>7. ASSUME Pipe.verify = "batch", NEW i \in DOMAIN sent PROVE sent'[i].state \in Arrived
    <3>1. unseen = {} /\ pending = {}
      BY <1>3, <1>2c, <2>4, <2>5, <2>7
    <3>2. i \in verified
      BY <2>3, <2>5, <3>1, ZenonT(30) DEF bad
    <3> QED BY <1>8, <2>6a, <3>2
  <2>8. ASSUME sent' # <<>> PROVE \E i \in DOMAIN sent : sent'[i].state \in Arrived
    <3>1. DOMAIN sent # {}
      <4>1. sent' \in Seq(Submissions')
        BY <1>9 DEF TypeOK, SendTypeOK
      <4>2. Len(sent') # 0
        BY <2>8, <4>1
      <4>3. Len(sent') \in Nat /\ DOMAIN sent' = 1 .. Len(sent')
        BY <4>1
      <4>4. 1 \in DOMAIN sent'
        BY <4>2, <4>3
      <4> QED BY <1>8, <4>4, ZenonT(30)
    <3>2. verified # {}
      BY <2>4, <2>5, <3>1, ZenonT(30)
    <3>3. PICK i \in DOMAIN sent : i \in verified
      BY <1>4, <3>2, ZenonT(30)
    <3>4. sent'[i].state = Final(i)
      BY <1>8, <3>3
    <3> QED BY <2>6a, <3>3, <3>4, ZenonT(30)
  <2>9. Arrived' = Arrived
    BY <1>2, ZenonT(30) DEF Arrived, TakesRoutedForExecuted
  <2> QED BY <1>2, <1>8, <2>6, <2>7, <2>8, <2>9, ZenonT(30) DEF GreenMeansExecuted
<1> QED BY <1>2, <1>9, <1>10, <1>11, <1>12, <1>13, <1>14, FundingUntouched, ZenonT(30) DEF SendInv, SubmitInv

-----------------------------------------------------------------------------
(* What the keys are given is enough for what it is made for.                *)

\* A budget covers the submissions it is made for, of those transactions_per_key counts,
\* besides what the account has to keep and the fee of an approval.
LEMMA BudgetPays ==
  ASSUME TypeOK, Derived, NEW n \in Nat, n <= TransactionsPerKey(Plan), GasMadeFor(n)
  PROVE  /\ Cost \in Nat
         /\ KeyBudget.threshold - (IF KeyShare > 0 THEN Fee ELSE 0) - Kept >= n * Cost
<1> DEFINE T == TransactionsPerKey(Plan)
           R == IF Plan.mode = "burst" THEN 1 ELSE Buffered(T)
           proto == run.route[1]
           src == run.route[2]
           dst == run.route[3]
<1>0. ~run.faucet /\ n <= T
  BY DEF GasMadeFor
<1>1. IsPlan(Plan) /\ run.route \in SupportedRoutes /\ T \in Nat /\ KeyShare \in Nat
  BY PerKey, RunFacts, ZenonT(30) DEF TypeOK
<1>2. /\ proto \in {"gmp", "its", "its_data"} /\ src \in {"evm", "svm", "stellar", "sui", "xrpl"}
      /\ proto = "its_data" => src = "evm"
  BY <1>1, RouteFamilies
<1>3. /\ Gas \in Nat /\ Fee \in Nat /\ MinKey \in Nat /\ Reserve \in Nat /\ TargetKey \in Nat
      /\ n * Gas \in Nat /\ n * Fee \in Nat
  <2>1. Gas \in Nat /\ Fee \in Nat /\ MinKey \in Nat /\ Reserve \in Nat /\ TargetKey \in Nat
    BY PipelineAssumption
  <2> QED BY <2>1
\* Where the budget leaves the fees out, the minimum covers them.
<1>3a. src \in {"evm", "stellar"} /\ dst # "xrpl" => n * Fee + Fee <= MinKey
  <2>1. src \in {"evm", "stellar"} /\ dst # "xrpl" => (n + 1) * Fee <= MinKey
    BY ZenonT(30) DEF GasMadeFor
  <2>2. (n + 1) * Fee = n * Fee + Fee
    BY <1>3
  <2> QED BY <2>1, <2>2
\* Rounds are buffered upwards.
<1>4. /\ R \in Nat /\ n <= R /\ R * Gas \in Nat /\ R * Fee \in Nat
      /\ n * Gas <= R * Gas /\ n * Fee <= R * Fee /\ R >= 1
  <2>1. R \in Nat /\ T <= R /\ R >= 1
    <3>1. CASE Plan.mode = "burst"
      BY <1>1, <3>1, PerKey
    <3>2. CASE Plan.mode # "burst"
      <4>1. T \div 5 \in Nat
        BY <1>1, Division
      <4> HIDE DEF T
      <4> QED BY <1>1, <3>2, <4>1 DEF Buffered
    <3> QED BY <3>1, <3>2
  <2> HIDE DEF R, T
  <2>2. R - n \in Nat
    BY <1>0, <1>1, <2>1
  <2>3. (R - n) * Gas \in Nat /\ (R - n) * Fee \in Nat
    BY <1>3, <2>2
  <2>4. (R - n) * Gas = R * Gas - n * Gas /\ (R - n) * Fee = R * Fee - n * Fee
    BY <1>3, <2>1
  <2>5. R * Gas \in Nat /\ R * Fee \in Nat
    BY <1>3, <2>1
  <2>6. n <= R
    BY <2>1, <2>2
  <2> QED BY <1>3, <2>1, <2>3, <2>4, <2>5, <2>6
<1>5. CASE src = "evm"
  <2>1. Kept = 0
    BY <1>5 DEF Kept
  <2>2. CASE proto = "gmp"
    <3>1. Cost = Gas + Fee /\ KeyShare = 0
      BY <1>5, <2>2 DEF Cost, KeyShare, Share
    <3>2. KeyBudget.threshold = MinKey + Gas * R
      BY <1>5, <2>2 DEF KeyBudget, Budget, EvmBudget, EvmGmpExtra
    <3> HIDE DEF R, T
    <3>3. n * (Gas + Fee) = n * Gas + n * Fee /\ Gas * R = R * Gas
      BY <1>3, <1>4
    <3>4. n * Fee + Fee <= MinKey
      <4>1. dst # "xrpl"
        BY <1>1, <2>2, ToXrpl
      <4> QED BY <1>3a, <1>5, <4>1, ZenonT(30)
    <3> QED BY <1>3, <1>4, <2>1, <3>1, <3>2, <3>3, <3>4
  <2>3. CASE proto # "gmp"
    <3>1. Cost = 2 * Gas + Fee
      BY <1>5, <2>3, ZenonT(30) DEF Cost
    <3>2. KeyBudget.threshold >= 2 * (n * Gas) + n * Fee + Fee /\ KeyBudget.threshold \in Nat
      <4>1. KeyBudget.threshold \in Nat
        BY RunFacts
      <4>2. CASE proto = "its" /\ dst = "xrpl"
        <5>1. KeyBudget.threshold = MinKey + 2 * (Fee + 2 * Gas) * R
          BY <1>5, <4>2, ZenonT(30) DEF KeyBudget, Budget, EvmBudget, XrplGasExtra
        <5> HIDE DEF R, T
        <5>2. 2 * (Fee + 2 * Gas) * R = 2 * (R * Fee) + 4 * (R * Gas)
          BY <1>3, <1>4
        <5>3. Fee <= R * Fee
          <6>1. (R - 1) * Fee \in Nat /\ (R - 1) * Fee = R * Fee - Fee
            <7>1. R - 1 \in Nat
              BY <1>4
            <7> QED BY <1>3, <1>4, <7>1
          <6> QED BY <1>3, <1>4, <6>1
        <5> QED BY <1>3, <1>4, <4>1, <5>1, <5>2, <5>3
      <4>3. CASE proto = "its" /\ dst = "sui"
        <5>1. KeyBudget.threshold = MinKey + 4 * Gas
          BY <1>5, <4>3 DEF KeyBudget, Budget, EvmBudget, SuiGasExtra
        <5>2. n <= 2
          BY <1>5, <4>3, ZenonT(30) DEF GasMadeFor
        <5>3. n * Gas <= 2 * Gas
          <6>1. 2 - n \in Nat
            BY <5>2
          <6>2. (2 - n) * Gas \in Nat /\ (2 - n) * Gas = 2 * Gas - n * Gas
            BY <1>3, <6>1
          <6> QED BY <1>3, <6>2
        <5>4. n * Fee + Fee <= MinKey
          BY <1>3a, <1>5, <4>3, ZenonT(30)
        <5> QED BY <1>3, <4>1, <5>1, <5>3, <5>4
      <4>4. CASE ~(proto = "its" /\ dst \in {"xrpl", "sui"})
        <5>1. KeyBudget.threshold = MinKey + 2 * Gas * R
          BY <1>2, <1>5, <2>3, <4>4, ZenonT(30) DEF KeyBudget, Budget, EvmBudget, HubGasExtraPerKey, DataGasExtra
        <5> HIDE DEF R, T
        <5>2. 2 * Gas * R = 2 * (R * Gas)
          BY <1>3, <1>4
        <5>3. n * Fee + Fee <= MinKey
          <6>1. dst # "xrpl"
            BY <1>1, <1>2, <2>3, <4>4, ToXrpl, ZenonT(30)
          <6> QED BY <1>3a, <1>5, <6>1
        <5> QED BY <1>3, <1>4, <4>1, <5>1, <5>2, <5>3
      <4> QED BY <4>2, <4>3, <4>4
    <3>3. n * (2 * Gas + Fee) = 2 * (n * Gas) + n * Fee
      BY <1>3
    <3> QED BY <1>3, <2>1, <3>1, <3>2, <3>3
  <2> QED BY <2>2, <2>3
<1>6. CASE src = "svm"
  <2>1. proto = "gmp" /\ Plan.mode = "sustained" /\ n <= SolFires(Plan)
    BY <1>6, ZenonT(30) DEF GasMadeFor
  <2>2. Cost = Gas + Fee /\ KeyShare = 0 /\ Kept = 0
    BY <1>6, <2>1 DEF Cost, KeyShare, Share, Kept
  <2>3. SolFires(Plan) \in Nat
    <3> DEFINE d == Duration(Plan)
               c == Plan.cycle
    <3>1. d \in Nat /\ c \in Nat \ {0}
      BY <1>1, PerKey DEF IsPlan
    <3> HIDE DEF d, c
    <3>2. d \div c \in Nat
      BY <3>1, Division, ZenonT(30)
    <3> QED BY <3>2, ZenonT(30) DEF SolFires, d, c
  <2>4. KeyBudget.threshold >= (Gas + Fee) * SolFires(Plan) /\ KeyBudget.threshold \in Nat
    <3>1. KeyBudget = SolSustainedBudget(Plan)
      BY <1>6, <2>1 DEF KeyBudget, Budget
    <3>2. (Gas + Fee) * SolFires(Plan) \in Nat
      BY <1>3, <2>3
    <3> QED BY <1>3, <3>1, <3>2 DEF SolSustainedBudget, ExactBudget
  <2>5. SolFires(Plan) - n \in Nat
    BY <2>1, <2>3
  <2>6. /\ (SolFires(Plan) - n) * (Gas + Fee) \in Nat
        /\ (SolFires(Plan) - n) * (Gas + Fee) = (Gas + Fee) * SolFires(Plan) - n * (Gas + Fee)
    BY <1>3, <2>3, <2>5
  <2>7. (Gas + Fee) * SolFires(Plan) \in Nat /\ n * (Gas + Fee) \in Nat
    BY <1>3, <2>3
  <2> QED BY <1>3, <2>2, <2>4, <2>6, <2>7
<1>7. CASE src = "xrpl"
  <2>1. Cost = 2 * Gas + 1 + Fee /\ KeyShare = 0 /\ Kept = Reserve
    BY <1>7 DEF Cost, KeyShare, Share, Kept
  <2>2. KeyBudget.threshold = Reserve + T * (2 * Gas + 1 + Fee)
    BY <1>7 DEF KeyBudget, Budget, XrplBudget, ExactBudget
  <2> HIDE DEF T
  <2>3. T - n \in Nat
    BY <1>0, <1>1
  <2>4. /\ T * (2 * Gas + 1 + Fee) \in Nat /\ n * (2 * Gas + 1 + Fee) \in Nat
        /\ (T - n) * (2 * Gas + 1 + Fee) \in Nat
    BY <1>1, <1>3, <2>3
  <2>5. (T - n) * (2 * Gas + 1 + Fee) = T * (2 * Gas + 1 + Fee) - n * (2 * Gas + 1 + Fee)
    BY <1>1, <1>3
  <2> QED BY <1>3, <2>1, <2>2, <2>4, <2>5
<1>8. CASE src = "stellar"
  <2> DEFINE g == IF proto = "gmp" THEN Gas ELSE 2 * Gas
  <2>1. Cost = g + Fee /\ Kept = Reserve
    BY <1>8 DEF Cost, Kept
  <2>2. KeyBudget.threshold = Reserve + MinKey + g * T
    BY <1>8 DEF KeyBudget, Budget, StellarBudget, ExactBudget, StellarItsGas
  <2>3. g \in Nat
    BY <1>3
  <2> HIDE DEF T, g
  <2>4. T - n \in Nat
    BY <1>0, <1>1
  <2>5. g * (T - n) \in Nat /\ g * (T - n) = g * T - g * n /\ g * T \in Nat /\ g * n \in Nat
    BY <1>1, <2>3, <2>4
  <2>6. n * (g + Fee) = g * n + n * Fee
    BY <1>3, <2>3
  <2>7. n * Fee + Fee <= MinKey
    <3>1. dst # "xrpl"
      BY <1>1, <1>8, ToXrpl
    <3> QED BY <1>3a, <1>8, <3>1, ZenonT(30)
  <2> QED BY <1>3, <2>1, <2>2, <2>3, <2>5, <2>6, <2>7
<1>9. CASE src = "sui"
  BY <1>9 DEF Derived, Derives
<1> QED BY <1>2, <1>5, <1>6, <1>7, <1>8, <1>9, ZenonT(30)

\* So does a share.
LEMMA SharePays ==
  ASSUME TypeOK, NEW n \in Nat, n <= TransactionsPerKey(Plan), ShareMadeFor(n), KeyShare > 0
  PROVE  n <= KeyShare
<1> DEFINE T == TransactionsPerKey(Plan)
<1>1. IsPlan(Plan) /\ T \in Nat /\ (Plan.mode = "burst" => T = 1) /\ Shares \in Nat \ {0}
  BY PerKey, PipelineAssumption DEF TypeOK
<1>2. run.route[1] # "gmp" /\ run.route[2] # "xrpl"
  BY DEF KeyShare, Share
<1> HIDE DEF T
<1>3. /\ T <= XrplTokenShare(Plan) /\ T <= SuiTokenShare(Plan)
      /\ T <= StellarTokenShare(Plan) /\ T <= SolTokenShare(Plan)
      /\ {XrplTokenShare(Plan), SuiTokenShare(Plan), StellarTokenShare(Plan),
          SolTokenShare(Plan)} \subseteq Nat
  BY <1>1 DEF T, XrplTokenShare, SuiTokenShare, StellarTokenShare, SolTokenShare
<1>4. n <= T
  BY DEF T
<1>5. CASE run.route[2] = "evm" /\ run.route[3] \notin {"xrpl", "sui"}
  <2>1. n <= Shares
    BY <1>5, ZenonT(30) DEF ShareMadeFor
  <2> QED BY <1>2, <1>5, <2>1 DEF KeyShare, Share, EvmTokenShare
<1>6. CASE ~(run.route[2] = "evm" /\ run.route[3] \notin {"xrpl", "sui"})
  <2>1. KeyShare \in {XrplTokenShare(Plan), SuiTokenShare(Plan), StellarTokenShare(Plan),
                      SolTokenShare(Plan)}
    BY <1>2, <1>6, ZenonT(30) DEF KeyShare, Share
  <2> QED BY <1>1, <1>3, <1>4, <2>1
<1> QED BY <1>5, <1>6, ZenonT(30)

\* So a key that was filled, or promised to be, can pay for what the schedule gives it.
LEMMA FilledKeysPay ==
  ASSUME SendInv
  PROVE  KeysCanPay
<1> SUFFICES ASSUME stage = "ready", Derived, NEW k \in Slots, NEW n \in 0 .. Fires(k)
             PROVE  /\ GasMadeFor(n) => \E extra \in Coming(k) : gas[k] + extra - Kept >= n * Cost
                    /\ KeyShare > 0 /\ ShareMadeFor(n) => tok[k] >= n
  BY ZenonT(30) DEF KeysCanPay
<1>1. TypeOK /\ FundTypeOK /\ KeysFilled /\ SharesGiven
  BY DEF SendInv, FundInv, TypeOK
<1>2. n \in Nat /\ n <= TransactionsPerKey(Plan)
  <2>1. TransactionsPerKey(Plan) \in Nat /\ Fires(k) \in Nat /\ Fires(k) <= TransactionsPerKey(Plan)
    BY <1>1, PerKey, FiresBounded, ZenonT(30) DEF TypeOK, Fires
  <2> QED BY <2>1
<1>3. /\ gas[k] \in Int /\ tok[k] \in Nat /\ KeyShare \in Nat /\ KeyBudget.threshold \in Nat
      /\ Fee \in Nat /\ Kept \in Nat
  BY <1>1, RunFacts, PipelineAssumption, ZenonT(30) DEF FundTypeOK, Kept
<1>4. ASSUME GasMadeFor(n)
      PROVE  \E extra \in Coming(k) : gas[k] + extra - Kept >= n * Cost
  <2> DEFINE paid == IF KeyShare > 0 THEN Fee ELSE 0
  <2>1. Cost \in Nat /\ KeyBudget.threshold - paid - Kept >= n * Cost
    BY <1>1, <1>2, <1>4, BudgetPays, ZenonT(30)
  <2>2. ~run.faucet
    BY <1>4 DEF GasMadeFor
  <2>3. gas[k] >= KeyBudget.threshold - paid \/ (run.route[2] = "xrpl" /\ Promised(k))
    BY <1>1, <2>2, ZenonT(30) DEF KeysFilled
  <2>4. paid \in Nat /\ n * Cost \in Nat
    BY <1>2, <1>3, <2>1
  <2>5. CASE gas[k] >= KeyBudget.threshold - paid
    <3> HIDE DEF paid
    <3>1. gas[k] + 0 - Kept >= n * Cost
      BY <1>3, <2>1, <2>4, <2>5
    <3> QED BY <3>1, ZenonT(30) DEF Coming
  <2>6. CASE run.route[2] = "xrpl" /\ Promised(k)
    <3>1. PICK extra \in Coming(k) : gas[k] + extra >= KeyBudget.threshold
      BY <2>6 DEF Promised
    <3>2. extra \in Nat
      BY <1>1, ComingIsNat, ZenonT(30)
    <3> HIDE DEF paid
    <3>3. gas[k] + extra - Kept >= n * Cost
      BY <1>3, <2>1, <2>4, <3>1, <3>2
    <3> QED BY <3>3
  <2> QED BY <2>3, <2>5, <2>6
<1>5. ASSUME KeyShare > 0, ShareMadeFor(n) PROVE tok[k] >= n
  <2>1. tok[k] >= KeyShare
    BY <1>1 DEF SharesGiven
  <2>2. n <= KeyShare
    BY <1>1, <1>2, <1>5, SharePays, ZenonT(30)
  <2> QED BY <1>2, <1>3, <2>1, <2>2
<1> QED BY <1>4, <1>5

-----------------------------------------------------------------------------
(* The invariant, and what follows from it.                                  *)

\* Every step of a run keeps the invariant.
LEMMA SendInvNext == SendInv /\ [Next]_vars => SendInv'
<1> SUFFICES ASSUME SendInv, [Next]_vars PROVE SendInv'
  OBVIOUS
<1>1. CASE ReadBalances
  BY <1>1, ReadBalancesKeeps
<1>2. CASE SkipKey
  BY <1>2, SkipKeyKeeps, ZenonT(30)
<1>3. CASE Transfer
  BY <1>3, TransferKeeps
<1>4. CASE Approve
  BY <1>4, ApproveKeeps
<1>5. CASE NextStage
  BY <1>5, NextStageKeeps
<1>6. CASE Rerun
  BY <1>6, RerunKeeps
<1>7. CASE StartSends
  BY <1>7, StartSendsKeeps
<1>8. ASSUME NEW t \in late, TransferLands(t) PROVE SendInv'
  BY <1>8, TransferLandsKeeps
<1>9. CASE Fire
  BY <1>9, FireKeeps
<1>10. CASE Interrupt \/ SendsEnd
  BY <1>10, InterruptKeeps
<1>11. ASSUME NEW i \in DOMAIN sent, Lands(i) \/ Fails(i) \/ LandsLate(i) \/ GivesUp(i) \/ Panics(i)
       PROVE  SendInv'
  BY <1>11, LandsKeeps, FailsKeeps, LandsLateKeeps, GivesUpKeeps, PanicsKeeps, ZenonT(30)
<1>12. CASE Report
  BY <1>12, ReportKeeps
<1>13. CASE UNCHANGED vars
  <2>1. UNCHANGED <<run, stage, fundVars, sendVars, verdict>>
    BY <1>13, ZenonT(30) DEF vars
  <2>2. TypeOK'
    BY <2>1, FundingUntouched, SubmissionsUntouched, SameRun DEF SendInv, TypeOK
  <2>3. VerdictEnds'
    BY <2>1 DEF SendInv, VerdictEnds
  <2> QED BY <2>1, <2>2, <2>3, FundingUntouched, SubmissionsUntouched, ZenonT(30) DEF SendInv
<1> QED BY <1>1, <1>2, <1>3, <1>4, <1>5, <1>6, <1>7, <1>8, <1>9, <1>10, <1>11, <1>12, <1>13, ZenonT(30)
        DEF Next, Ended

\* The invariant holds throughout.
LEMMA SendInvAlways == Spec => []SendInv
BY SendInvInit, SendInvNext, PTL DEF Spec

\* Every variable keeps its type, whatever the routes, the plans and the amounts.
THEOREM SendTypeCorrect == Spec => []TypeOK
<1>1. SendInv => TypeOK
  BY DEF SendInv
<1> QED BY <1>1, SendInvAlways, PTL

\* ensure_funded and distribute_tokens: however often funding fails half way and is
\* started again, no key is filled above its target or given a second share.
THEOREM FundingNeverDoubles == Spec => []NoKeyOverfunded
<1>1. SendInv => NoKeyOverfunded
  BY DEF SendInv, FundInv
<1> QED BY <1>1, SendInvAlways, PTL

\* run_sustained_loop: a submission that gives up on a nonce gap is behind a failure of
\* its own wallet.
THEOREM GapsStayWithTheirWallet == Spec => []FailuresStayWithTheirKey
<1>1. SendInv => FailuresStayWithTheirKey
  BY DEF SendInv, SubmitInv
<1> QED BY <1>1, SendInvAlways, PTL

\* finish_report: a green run has had its submissions executed, or routed where the
\* verifier takes that for executed.
THEOREM GreenIsEarned == Spec => []GreenMeansExecuted
<1>1. SendInv => GreenMeansExecuted
  BY DEF SendInv
<1> QED BY <1>1, SendInvAlways, PTL

\* When the first submission goes out, every key can pay, in gas and in tokens, for the
\* submissions the schedule will give it, as many of them as ensure_funded and its kin
\* make its budget for; on XRPL once a payment the node has accepted is in a ledger.
THEOREM FundedKeysLast == Spec => []KeysCanPay
<1>1. SendInv => KeysCanPay
  BY FilledKeysPay
<1> QED BY <1>1, SendInvAlways, PTL
=============================================================================
