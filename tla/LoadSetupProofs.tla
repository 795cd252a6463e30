--------------------------- MODULE LoadSetupProofs ---------------------------
(***************************************************************************)
(* Proofs about LoadSetup, for any number of runs and any set of the          *)
(* supported routes: what a run can still refuse comes before what it pays     *)
(* for, the receiver it settles on is a live one, and the token it sends has    *)
(* come as far as its wait proves.                                           *)
(***************************************************************************)
EXTENDS LoadSetup, TLAPS

\* The context of these obligations is long: more time than the default for all of them.
USE SMTT(30), ZenonT(30)

\* What is assumed of the bounds.
LEMMA Bounds ==
  /\ MaxRuns \in Nat \ {0} /\ Attempts \in Nat \ {0}
  /\ [k \in Slots |-> 0] \in [Slots -> 0 .. Attempts]
<1>1. MaxRuns \in Nat \ {0} /\ Attempts \in Nat \ {0}
  BY SetupAssumption, ZenonT(30)
<1>2. 0 \in 0 .. Attempts
  BY <1>1
<1> QED BY <1>1, <1>2

-----------------------------------------------------------------------------
(* The order of a route's steps.                                             *)

\* The kinds of steps, those that spend, and those that only refuse.
Paying == Spends \cup {"source_receiver", "destination_receiver", "token"}
Refusals == Checks \cup {"burst", "gateway"}
StepKinds == Refusals \cup Paying \cup {"wait", "send"}

\* The order of a route's steps: it ends by sending, everything it can refuse, apart from
\* what it looks at late, comes before everything it pays for, and a token of an EVM source
\* is waited for next.
WellOrdered(s, src, late) ==
    /\ s \in Seq(StepKinds)
    /\ Len(s) > 0 /\ s[Len(s)] = "send"
    /\ \A i \in 1 .. Len(s) : s[i] = "send" => i = Len(s)
    /\ \A i, j \in 1 .. Len(s) : i <= j /\ s[i] \in Paying => s[j] \notin Refusals \ late
    /\ \A i, j \in 1 .. Len(s) : s[i] = "token" /\ s[j] = "token" => i = j
    /\ \A i \in 1 .. Len(s) : s[i] = "token" /\ src = "evm" => s[i + 1] = "wait"
    /\ \A i \in 1 .. Len(s) : s[i] = "wait" => src = "evm"

\* Every runner takes its steps in that order.
LEMMA RoutesOrdered ==
  /\ \A m \in BOOLEAN : WellOrdered(GmpSolToEvm(m), "svm", {"arguments", "wallet"})
  /\ WellOrdered(GmpEvmToSol, "evm", {"arguments"})
  /\ WellOrdered(GmpEvmToEvm, "evm", {"arguments", "wallet", "config"})
  /\ \A m \in BOOLEAN : WellOrdered(GmpSolToSol(m), "svm", {"arguments"})
  /\ WellOrdered(GmpStellarToEvm, "stellar", {"arguments", "wallet", "config"})
  /\ WellOrdered(GmpEvmToStellar, "evm", {"arguments"})
  /\ WellOrdered(GmpStellarToSol, "stellar", {})
  /\ WellOrdered(GmpSolToStellar, "svm", {"arguments"})
  /\ WellOrdered(GmpSuiToEvm, "sui", {"arguments"})
  /\ WellOrdered(GmpSuiToSol, "sui", {})
  /\ WellOrdered(GmpEvmToSui, "evm", {"arguments"})
  /\ WellOrdered(GmpSolToSui, "svm", {"arguments"})
  /\ WellOrdered(GmpStellarToSui, "stellar", {})
  /\ WellOrdered(ItsEvmToEvm, "evm", {})
  /\ WellOrdered(ItsEvmToSol, "evm", {"recipient"})
  /\ WellOrdered(ItsEvmToStellar, "evm", {"recipient"})
  /\ WellOrdered(ItsEvmToXrpl, "evm", {})
  /\ WellOrdered(ItsEvmToSui, "evm", {})
  /\ WellOrdered(ItsSolToEvm, "svm", {})
  /\ WellOrdered(ItsSolToSui, "svm", {})
  /\ WellOrdered(ItsStellarToEvm, "stellar", {})
  /\ WellOrdered(ItsStellarToSol, "stellar", {})
  /\ WellOrdered(ItsStellarToSui, "stellar", {})
  /\ WellOrdered(ItsSuiToEvm, "sui", {})
  /\ WellOrdered(ItsSuiToSol, "sui", {})
  /\ WellOrdered(ItsXrplToEvm, "xrpl", {"config"})
  /\ WellOrdered(ItsWithDataEvmToSol, "evm", {"recipient"})
<1> USE DEF WellOrdered, StepKinds, Paying, Refusals, Checks, Spends
<1>1. ASSUME NEW m \in BOOLEAN PROVE WellOrdered(GmpSolToEvm(m), "svm", {"arguments", "wallet"})
  <2>1. CASE m
    <3>1. SolSender(m) = <<"arguments", "wallet", "fund", "send">>
      BY <2>1 DEF SolSender
    <3> QED BY <3>1 DEF GmpSolToEvm
  <2>2. CASE ~m
    <3>1. SolSender(m) = <<"wallet", "fund", "arguments", "send">>
      BY <2>2 DEF SolSender
    <3> QED BY <3>1 DEF GmpSolToEvm
  <2> QED BY <2>1, <2>2
<1>2. WellOrdered(GmpEvmToSol, "evm", {"arguments"})
  BY DEF GmpEvmToSol, LoadEvmSigner, EvmSender
<1>3. WellOrdered(GmpEvmToEvm, "evm", {"arguments", "wallet", "config"})
  BY DEF GmpEvmToEvm, LoadEvmSigner, EvmGmpContracts, EvmGmpSource, EvmGmpDestination,
      EvmSender
<1>4. ASSUME NEW m \in BOOLEAN PROVE WellOrdered(GmpSolToSol(m), "svm", {"arguments"})
  <2>1. CASE m
    <3>1. SolSender(m) = <<"arguments", "wallet", "fund", "send">>
      BY <2>1 DEF SolSender
    <3> QED BY <3>1 DEF GmpSolToSol
  <2>2. CASE ~m
    <3>1. SolSender(m) = <<"wallet", "fund", "arguments", "send">>
      BY <2>2 DEF SolSender
    <3> QED BY <3>1 DEF GmpSolToSol
  <2> QED BY <2>1, <2>2
<1>5. WellOrdered(GmpStellarToEvm, "stellar", {"arguments", "wallet", "config"})
  BY DEF GmpStellarToEvm, StellarGmpSource, CachedEvmDestination, EvmGmpContracts
<1>6. WellOrdered(GmpEvmToStellar, "evm", {"arguments"})
  BY DEF GmpEvmToStellar, EvmSender
<1>7. WellOrdered(GmpStellarToSol, "stellar", {})
  BY DEF GmpStellarToSol
<1>8. WellOrdered(GmpSolToStellar, "svm", {"arguments"})
  BY DEF GmpSolToStellar, SolSender
<1>9. WellOrdered(GmpSuiToEvm, "sui", {"arguments"})
  BY DEF GmpSuiToEvm, SuiGmpSource, CachedEvmDestination, EvmGmpContracts
<1>10. WellOrdered(GmpSuiToSol, "sui", {})
  BY DEF GmpSuiToSol
<1>11. WellOrdered(GmpEvmToSui, "evm", {"arguments"})
  BY DEF GmpEvmToSui, EvmSender
<1>12. WellOrdered(GmpSolToSui, "svm", {"arguments"})
  BY DEF GmpSolToSui, SolSender
<1>13. WellOrdered(GmpStellarToSui, "stellar", {})
  BY DEF GmpStellarToSui
<1>14. WellOrdered(ItsEvmToEvm, "evm", {})
  BY DEF ItsEvmToEvm, EvmItsSource, EvmItsContracts
<1>15. WellOrdered(ItsEvmToSol, "evm", {"recipient"})
  BY DEF ItsEvmToSol, EvmItsSource, EvmItsContracts
<1>16. WellOrdered(ItsEvmToStellar, "evm", {"recipient"})
  BY DEF ItsEvmToStellar, StellarItsWallet, StellarItsTargets, StellarItsDestination,
      StellarItsFund, StellarItsDistribute
<1>17. WellOrdered(ItsEvmToXrpl, "evm", {})
  BY DEF ItsEvmToXrpl, XrplTokenId, XrplEvmSource, XrplTokenOnIts, XrplRecipient,
      XrplFund, XrplDistribute
<1>18. WellOrdered(ItsEvmToSui, "evm", {})
  BY DEF ItsEvmToSui, SuiEvmContext, SuiContext, SuiFundSigners
<1>19. WellOrdered(ItsSolToEvm, "svm", {})
  BY DEF ItsSolToEvm, SolItsWallet, SolItsTargets, SolItsAccounts
<1>20. WellOrdered(ItsSolToSui, "svm", {})
  BY DEF ItsSolToSui
<1>21. WellOrdered(ItsStellarToEvm, "stellar", {})
  BY DEF ItsStellarToEvm, StellarSetup, StellarEvmTargets
<1>22. WellOrdered(ItsStellarToSol, "stellar", {})
  BY DEF ItsStellarToSol, ReadStellarSetup, StellarMainWallet, SolanaTarget,
      StellarTokenAndWallets
<1>23. WellOrdered(ItsStellarToSui, "stellar", {})
  BY DEF ItsStellarToSui, StellarSuiSource
<1>24. WellOrdered(ItsSuiToEvm, "sui", {})
  BY DEF ItsSuiToEvm, SuiItsSource, SuiGasBalance
<1>25. WellOrdered(ItsSuiToSol, "sui", {})
  BY DEF ItsSuiToSol, SuiItsSource, SuiGasBalance
<1>26. WellOrdered(ItsXrplToEvm, "xrpl", {"config"})
  BY DEF ItsXrplToEvm, XrplChainConfig, XrplMainWallet, XrplEvmTargets, XrplWallets
<1>27. WellOrdered(ItsWithDataEvmToSol, "evm", {"recipient"})
  BY DEF ItsWithDataEvmToSol, DataSigner, DataAddresses, DataAccount, DataFund
<1> QED BY <1>1, <1>2, <1>3, <1>4, <1>5, <1>6, <1>7, <1>8, <1>9, <1>10, <1>11, <1>12, <1>13, <1>14,
           <1>15, <1>16, <1>17, <1>18, <1>19, <1>20, <1>21, <1>22, <1>23, <1>24, <1>25, <1>26, <1>27, ZenonT(30)

\* The routes that move an interchain token they resolve themselves.
TokenRoute(r) ==
    \/ r[1] = "its_data"
    \/ r[1] = "its" /\ r[2] \in {"svm", "stellar"} /\ r[3] \in {"evm", "svm"}
    \/ r \in {<<"its", "evm", "evm">>, <<"its", "evm", "svm">>, <<"its", "evm", "stellar">>}

NoToken(s) == \A i \in 1 .. Len(s) : s[i] \notin {"token", "wait"}

\* The others have no step that resolves one or waits for one.
LEMMA OthersHaveNone ==
  /\ NoToken(ItsEvmToXrpl) /\ NoToken(ItsEvmToSui) /\ NoToken(ItsSolToSui)
  /\ NoToken(ItsStellarToSui) /\ NoToken(ItsSuiToEvm) /\ NoToken(ItsSuiToSol)
  /\ NoToken(ItsXrplToEvm)
<1> USE DEF NoToken
<1>1. NoToken(ItsEvmToXrpl)
  BY DEF ItsEvmToXrpl, XrplTokenId, XrplEvmSource, XrplTokenOnIts, XrplRecipient, XrplFund,
         XrplDistribute
<1>2. NoToken(ItsEvmToSui)
  BY DEF ItsEvmToSui, SuiEvmContext, SuiContext, SuiFundSigners
<1>3. NoToken(ItsSolToSui)
  BY DEF ItsSolToSui
<1>4. NoToken(ItsStellarToSui)
  BY DEF ItsStellarToSui, StellarSuiSource
<1>5. NoToken(ItsSuiToEvm)
  BY DEF ItsSuiToEvm, SuiItsSource, SuiGasBalance
<1>6. NoToken(ItsSuiToSol)
  BY DEF ItsSuiToSol, SuiItsSource, SuiGasBalance
<1>7. NoToken(ItsXrplToEvm)
  BY DEF ItsXrplToEvm, XrplChainConfig, XrplMainWallet, XrplEvmTargets, XrplWallets
<1> HIDE DEF NoToken
<1> QED BY <1>1, <1>2, <1>3, <1>4, <1>5, <1>6, <1>7

\* A route of messages deploys no token.
LEMMA GmpHasNone ==
  /\ \A m \in BOOLEAN : NoToken(GmpSolToEvm(m))
  /\ NoToken(GmpEvmToSol)
  /\ NoToken(GmpEvmToEvm)
  /\ \A m \in BOOLEAN : NoToken(GmpSolToSol(m))
  /\ NoToken(GmpStellarToEvm)
  /\ NoToken(GmpEvmToStellar)
  /\ NoToken(GmpStellarToSol)
  /\ NoToken(GmpSolToStellar)
  /\ NoToken(GmpSuiToEvm)
  /\ NoToken(GmpSuiToSol)
  /\ NoToken(GmpEvmToSui)
  /\ NoToken(GmpSolToSui)
  /\ NoToken(GmpStellarToSui)
<1> USE DEF NoToken
<1>1. ASSUME NEW m \in BOOLEAN PROVE NoToken(GmpSolToEvm(m))
  BY DEF GmpSolToEvm, SolSender
<1>2. NoToken(GmpEvmToSol)
  BY DEF GmpEvmToSol, LoadEvmSigner, EvmSender
<1>3. NoToken(GmpEvmToEvm)
  BY DEF GmpEvmToEvm, LoadEvmSigner, EvmGmpContracts, EvmGmpSource, EvmGmpDestination,
      EvmSender
<1>4. ASSUME NEW m \in BOOLEAN PROVE NoToken(GmpSolToSol(m))
  BY DEF GmpSolToSol, SolSender
<1>5. NoToken(GmpStellarToEvm)
  BY DEF GmpStellarToEvm, StellarGmpSource, CachedEvmDestination, EvmGmpContracts
<1>6. NoToken(GmpEvmToStellar)
  BY DEF GmpEvmToStellar, EvmSender
<1>7. NoToken(GmpStellarToSol)
  BY DEF GmpStellarToSol
<1>8. NoToken(GmpSolToStellar)
  BY DEF GmpSolToStellar, SolSender
<1>9. NoToken(GmpSuiToEvm)
  BY DEF GmpSuiToEvm, SuiGmpSource, CachedEvmDestination, EvmGmpContracts
<1>10. NoToken(GmpSuiToSol)
  BY DEF GmpSuiToSol
<1>11. NoToken(GmpEvmToSui)
  BY DEF GmpEvmToSui, EvmSender
<1>12. NoToken(GmpSolToSui)
  BY DEF GmpSolToSui, SolSender
<1>13. NoToken(GmpStellarToSui)
  BY DEF GmpStellarToSui
<1> HIDE DEF NoToken
<1> QED BY <1>1, <1>2, <1>3, <1>4, <1>5, <1>6, <1>7, <1>8, <1>9, <1>10, <1>11, <1>12, <1>13

GmpRoutes ==
    {<<"gmp", "svm", "evm">>, <<"gmp", "evm", "svm">>, <<"gmp", "evm", "evm">>,
     <<"gmp", "svm", "svm">>, <<"gmp", "stellar", "evm">>, <<"gmp", "evm",
     "stellar">>, <<"gmp", "stellar", "svm">>, <<"gmp", "svm", "stellar">>, <<"gmp",
     "sui", "evm">>, <<"gmp", "sui", "svm">>, <<"gmp", "evm", "sui">>, <<"gmp", "svm",
     "sui">>, <<"gmp", "stellar", "sui">>}

ItsRoutes ==
    {<<"its", "evm", "evm">>, <<"its", "evm", "svm">>, <<"its", "evm", "stellar">>,
     <<"its", "evm", "xrpl">>, <<"its", "evm", "sui">>, <<"its", "svm", "evm">>,
     <<"its", "svm", "sui">>, <<"its", "stellar", "evm">>, <<"its", "stellar",
     "svm">>, <<"its", "stellar", "sui">>, <<"its", "sui", "evm">>, <<"its", "sui",
     "svm">>, <<"its", "xrpl", "evm">>}

\* The runner each message route is given.
LEMMA GmpDispatch ==
  ASSUME NEW m \in BOOLEAN
  PROVE
  /\ Steps(<<"gmp", "svm", "evm">>, m) = GmpSolToEvm(m)
  /\ Steps(<<"gmp", "evm", "svm">>, m) = GmpEvmToSol
  /\ Steps(<<"gmp", "evm", "evm">>, m) = GmpEvmToEvm
  /\ Steps(<<"gmp", "svm", "svm">>, m) = GmpSolToSol(m)
  /\ Steps(<<"gmp", "stellar", "evm">>, m) = GmpStellarToEvm
  /\ Steps(<<"gmp", "evm", "stellar">>, m) = GmpEvmToStellar
  /\ Steps(<<"gmp", "stellar", "svm">>, m) = GmpStellarToSol
  /\ Steps(<<"gmp", "svm", "stellar">>, m) = GmpSolToStellar
  /\ Steps(<<"gmp", "sui", "evm">>, m) = GmpSuiToEvm
  /\ Steps(<<"gmp", "sui", "svm">>, m) = GmpSuiToSol
  /\ Steps(<<"gmp", "evm", "sui">>, m) = GmpEvmToSui
  /\ Steps(<<"gmp", "svm", "sui">>, m) = GmpSolToSui
  /\ Steps(<<"gmp", "stellar", "sui">>, m) = GmpStellarToSui
BY DEF Steps, GmpSteps

\* The runner each token route is given.
LEMMA ItsDispatch ==
  ASSUME NEW m \in BOOLEAN
  PROVE
  /\ Steps(<<"its", "evm", "evm">>, m) = ItsEvmToEvm
  /\ Steps(<<"its", "evm", "svm">>, m) = ItsEvmToSol
  /\ Steps(<<"its", "evm", "stellar">>, m) = ItsEvmToStellar
  /\ Steps(<<"its", "evm", "xrpl">>, m) = ItsEvmToXrpl
  /\ Steps(<<"its", "evm", "sui">>, m) = ItsEvmToSui
  /\ Steps(<<"its", "svm", "evm">>, m) = ItsSolToEvm
  /\ Steps(<<"its", "svm", "sui">>, m) = ItsSolToSui
  /\ Steps(<<"its", "stellar", "evm">>, m) = ItsStellarToEvm
  /\ Steps(<<"its", "stellar", "svm">>, m) = ItsStellarToSol
  /\ Steps(<<"its", "stellar", "sui">>, m) = ItsStellarToSui
  /\ Steps(<<"its", "sui", "evm">>, m) = ItsSuiToEvm
  /\ Steps(<<"its", "sui", "svm">>, m) = ItsSuiToSol
  /\ Steps(<<"its", "xrpl", "evm">>, m) = ItsXrplToEvm
BY DEF Steps, ItsSteps

\* What each route looks at late.
LEMMA GmpLate ==
  /\ LateChecks(<<"gmp", "svm", "evm">>) = {"arguments", "wallet"}
  /\ LateChecks(<<"gmp", "evm", "svm">>) = {"arguments"}
  /\ LateChecks(<<"gmp", "evm", "evm">>) = {"arguments", "wallet", "config"}
  /\ LateChecks(<<"gmp", "svm", "svm">>) = {"arguments"}
  /\ LateChecks(<<"gmp", "stellar", "evm">>) = {"arguments", "wallet", "config"}
  /\ LateChecks(<<"gmp", "evm", "stellar">>) = {"arguments"}
  /\ LateChecks(<<"gmp", "stellar", "svm">>) = {}
  /\ LateChecks(<<"gmp", "svm", "stellar">>) = {"arguments"}
  /\ LateChecks(<<"gmp", "sui", "evm">>) = {"arguments"}
  /\ LateChecks(<<"gmp", "sui", "svm">>) = {}
  /\ LateChecks(<<"gmp", "evm", "sui">>) = {"arguments"}
  /\ LateChecks(<<"gmp", "svm", "sui">>) = {"arguments"}
  /\ LateChecks(<<"gmp", "stellar", "sui">>) = {}
BY DEF LateChecks

\* What each token route looks at late.
LEMMA ItsLate ==
  /\ LateChecks(<<"its", "evm", "evm">>) = {}
  /\ LateChecks(<<"its", "evm", "svm">>) = {"recipient"}
  /\ LateChecks(<<"its", "evm", "stellar">>) = {"recipient"}
  /\ LateChecks(<<"its", "evm", "xrpl">>) = {}
  /\ LateChecks(<<"its", "evm", "sui">>) = {}
  /\ LateChecks(<<"its", "svm", "evm">>) = {}
  /\ LateChecks(<<"its", "svm", "sui">>) = {}
  /\ LateChecks(<<"its", "stellar", "evm">>) = {}
  /\ LateChecks(<<"its", "stellar", "svm">>) = {}
  /\ LateChecks(<<"its", "stellar", "sui">>) = {}
  /\ LateChecks(<<"its", "sui", "evm">>) = {}
  /\ LateChecks(<<"its", "sui", "svm">>) = {}
  /\ LateChecks(<<"its", "xrpl", "evm">>) = {"config"}
  /\ LateChecks(<<"its_data", "evm", "svm">>) = {"recipient"}
BY DEF LateChecks

\* The supported routes, by what they carry.
LEMMA AllRoutes ==
  ASSUME NEW r \in SupportedRoutes
  PROVE  r \in GmpRoutes
         \/ r \in ItsRoutes
         \/ r = <<"its_data", "evm", "svm">>
BY DEF SupportedRoutes, TestTypes, GmpRoutes, ItsRoutes

\* The steps of every message route are in order.
LEMMA GmpOrdered ==
  ASSUME NEW m \in BOOLEAN
  PROVE
  /\ WellOrdered(Steps(<<"gmp", "svm", "evm">>, m), "svm", LateChecks(<<"gmp", "svm", "evm">>))
  /\ WellOrdered(Steps(<<"gmp", "evm", "svm">>, m), "evm", LateChecks(<<"gmp", "evm", "svm">>))
  /\ WellOrdered(Steps(<<"gmp", "evm", "evm">>, m), "evm", LateChecks(<<"gmp", "evm", "evm">>))
  /\ WellOrdered(Steps(<<"gmp", "svm", "svm">>, m), "svm", LateChecks(<<"gmp", "svm", "svm">>))
  /\ WellOrdered(Steps(<<"gmp", "stellar", "evm">>, m), "stellar", LateChecks(<<"gmp", "stellar", "evm">>))
  /\ WellOrdered(Steps(<<"gmp", "evm", "stellar">>, m), "evm", LateChecks(<<"gmp", "evm", "stellar">>))
  /\ WellOrdered(Steps(<<"gmp", "stellar", "svm">>, m), "stellar", LateChecks(<<"gmp", "stellar", "svm">>))
  /\ WellOrdered(Steps(<<"gmp", "svm", "stellar">>, m), "svm", LateChecks(<<"gmp", "svm", "stellar">>))
  /\ WellOrdered(Steps(<<"gmp", "sui", "evm">>, m), "sui", LateChecks(<<"gmp", "sui", "evm">>))
  /\ WellOrdered(Steps(<<"gmp", "sui", "svm">>, m), "sui", LateChecks(<<"gmp", "sui", "svm">>))
  /\ WellOrdered(Steps(<<"gmp", "evm", "sui">>, m), "evm", LateChecks(<<"gmp", "evm", "sui">>))
  /\ WellOrdered(Steps(<<"gmp", "svm", "sui">>, m), "svm", LateChecks(<<"gmp", "svm", "sui">>))
  /\ WellOrdered(Steps(<<"gmp", "stellar", "sui">>, m), "stellar", LateChecks(<<"gmp", "stellar", "sui">>))
BY GmpDispatch, GmpLate, RoutesOrdered, ZenonT(30)

\* So are those of every token route.
LEMMA ItsOrdered ==
  ASSUME NEW m \in BOOLEAN
  PROVE
  /\ WellOrdered(Steps(<<"its", "evm", "evm">>, m), "evm", LateChecks(<<"its", "evm", "evm">>))
  /\ WellOrdered(Steps(<<"its", "evm", "svm">>, m), "evm", LateChecks(<<"its", "evm", "svm">>))
  /\ WellOrdered(Steps(<<"its", "evm", "stellar">>, m), "evm", LateChecks(<<"its", "evm", "stellar">>))
  /\ WellOrdered(Steps(<<"its", "evm", "xrpl">>, m), "evm", LateChecks(<<"its", "evm", "xrpl">>))
  /\ WellOrdered(Steps(<<"its", "evm", "sui">>, m), "evm", LateChecks(<<"its", "evm", "sui">>))
  /\ WellOrdered(Steps(<<"its", "svm", "evm">>, m), "svm", LateChecks(<<"its", "svm", "evm">>))
  /\ WellOrdered(Steps(<<"its", "svm", "sui">>, m), "svm", LateChecks(<<"its", "svm", "sui">>))
  /\ WellOrdered(Steps(<<"its", "stellar", "evm">>, m), "stellar", LateChecks(<<"its", "stellar", "evm">>))
  /\ WellOrdered(Steps(<<"its", "stellar", "svm">>, m), "stellar", LateChecks(<<"its", "stellar", "svm">>))
  /\ WellOrdered(Steps(<<"its", "stellar", "sui">>, m), "stellar", LateChecks(<<"its", "stellar", "sui">>))
  /\ WellOrdered(Steps(<<"its", "sui", "evm">>, m), "sui", LateChecks(<<"its", "sui", "evm">>))
  /\ WellOrdered(Steps(<<"its", "sui", "svm">>, m), "sui", LateChecks(<<"its", "sui", "svm">>))
  /\ WellOrdered(Steps(<<"its", "xrpl", "evm">>, m), "xrpl", LateChecks(<<"its", "xrpl", "evm">>))
BY ItsDispatch, ItsLate, RoutesOrdered, ZenonT(30)

\* The steps of every supported route.
LEMMA RouteSteps ==
  ASSUME NEW r \in SupportedRoutes, NEW m \in BOOLEAN
  PROVE  /\ WellOrdered(Steps(r, m), r[2], LateChecks(r))
         /\ TokenRoute(r) \/ NoToken(Steps(r, m))
<1>1. CASE r[1] = "gmp"
  <2>1. r \in GmpRoutes
    BY <1>1, AllRoutes DEF GmpRoutes, ItsRoutes
  <2>2. WellOrdered(Steps(r, m), r[2], LateChecks(r))
    BY <2>1, GmpOrdered DEF GmpRoutes
  <2>3. NoToken(Steps(r, m))
    BY <2>1, GmpDispatch, GmpHasNone, ZenonT(30) DEF GmpRoutes
  <2> QED BY <2>2, <2>3
<1>2. CASE r[1] = "its"
  <2>1. r \in ItsRoutes
    BY <1>2, AllRoutes DEF GmpRoutes, ItsRoutes
  <2>2. WellOrdered(Steps(r, m), r[2], LateChecks(r))
    BY <2>1, ItsOrdered DEF ItsRoutes
  <2>3. TokenRoute(r) \/ NoToken(Steps(r, m))
    BY <2>1, ItsDispatch, OthersHaveNone DEF ItsRoutes, TokenRoute
  <2> QED BY <2>2, <2>3
<1>3. CASE r = <<"its_data", "evm", "svm">>
  <2>1. r[2] = "evm" /\ TokenRoute(r)
    BY <1>3 DEF TokenRoute
  <2>2. Steps(r, m) = ItsWithDataEvmToSol /\ LateChecks(r) = {"recipient"}
    BY <1>3 DEF Steps, LateChecks
  <2> QED BY <2>1, <2>2, RoutesOrdered, ZenonT(30)
<1> QED BY <1>1, <1>2, <1>3, AllRoutes DEF GmpRoutes, ItsRoutes

-----------------------------------------------------------------------------
(* The invariants.                                                           *)

Tasks == {"begin", "overlay", "cached", "deploy", "save", "local", "remote", "wait"}
Origins == {"none", "explicit", "config", "cached", "deployed"}
WaitPhases == {"HubApproved", "DiscoverSecondLeg", "Routed", "Approved", "Executed",
               "Registered", "Done"}

RunTypeOK ==
    /\ setting \in Settings /\ (setting.legacy => setting.dst = "evm")
    /\ route \in Eligible /\ sustained \in BOOLEAN
    /\ step \in 1 .. Len(Steps(route, sustained))
    /\ task \in Tasks
    /\ status \in {"idle", "running", "failed", "crashed", "sending"}
    /\ spent \in BOOLEAN
    /\ runs \in 0 .. MaxRuns

ReceiverTypeOK ==
    /\ gateway \in [Sides -> {1, 2}]
    /\ receivers \in Seq(0 .. 2)
    /\ overlay \in [Sides -> 0 .. Len(receivers)]
    /\ cached \in [Sides -> 0 .. Len(receivers)]
    /\ using \in [Sides -> 0 .. Len(receivers)]
    /\ fresh \subseteq Sides
    /\ empty \in [Slots -> 0 .. Attempts] /\ unparsed \in BOOLEAN

TokenTypeOK ==
    /\ remote \in Seq(0 .. Deployed) /\ Len(remote) >= 1
    /\ explicit \in 0 .. Len(remote)
    /\ itsCache \in [Names -> 0 .. Len(remote)]
    /\ token \in 0 .. Len(remote)
    /\ origin \in Origins
    /\ message \in BOOLEAN
    /\ phase \in WaitPhases
    /\ missing \in Nat

\* What was spent was spent after everything a run can refuse, but what it looks at late.
Unrefused(j) == Steps(route, sustained)[j] \notin Refusals \ LateChecks(route)
SpentLate == spent => \A j \in step .. Len(Steps(route, sustained)) : Unrefused(j)

Going == status \in {"running", "sending"}

\* The wait is never ahead of the message it follows.
WaitFollows ==
    Going =>
        IF message
        THEN /\ token # 0
             /\ remote[token] >= Requested
             /\ phase = "DiscoverSecondLeg" => remote[token] >= OnHub
             /\ phase = "Routed" => remote[token] >= Forwarded
             /\ phase \in {"Approved", "Executed"} /\ ~setting.legacy => remote[token] >= Routed
             /\ phase \in {"Registered", "Done"} => remote[token] >= ProvenStage
        ELSE phase = "HubApproved"

\* A run resolves one token, and has its message once that is requested.
TokenOnce ==
    status = "running" =>
        /\ message => /\ Here = "token" => task \in {"wait", "save"}
                      /\ \A j \in step + 1 .. Len(Steps(route, sustained)) : Steps(route, sustained)[j] # "token"
        /\ Here = "token" /\ task \in {"remote", "wait", "save"} => token # 0
        /\ Here = "token" /\ task \in {"wait", "save"} /\ setting.src # "evm" => message

\* A wait that lies ahead of the run.
WaitAhead ==
    IF setting.src = "evm"
    THEN \E j \in step .. Len(Steps(route, sustained)) : Steps(route, sustained)[j] = "wait"
    ELSE Here = "token" /\ task = "wait"

\* A run that has a message has waited for it, or will.
Waited == Going /\ message => phase = "Done" \/ WaitAhead

\* Outside EVM sources a token is cached after its wait, and a cached one that a run took
\* there or for Stellar has arrived.
CachedHasArrived ==
    /\ setting.src # "evm" =>
          \A n \in Names : itsCache[n] # 0 => remote[itsCache[n]] >= ProvenStage
    /\ Going /\ origin = "cached" /\ (setting.src # "evm" \/ setting.dst = "stellar") =>
          token # 0 /\ remote[token] >= ProvenStage

TokenInv == WaitFollows /\ TokenOnce /\ Waited /\ CachedHasArrived

-----------------------------------------------------------------------------
(* How a run moves.                                                          *)

\* The steps of the route under way.
LEMMA RouteFacts ==
  ASSUME RunTypeOK
  PROVE  /\ route \in SupportedRoutes /\ route[2] = setting.src /\ route[3] = setting.dst
         /\ WellOrdered(Steps(route, sustained), setting.src, LateChecks(route))
         /\ TokenRoute(route) \/ NoToken(Steps(route, sustained))
         /\ Len(Steps(route, sustained)) \in Nat
<1>1. route \in SupportedRoutes /\ route[2] = setting.src /\ route[3] = setting.dst
  BY SetupAssumption DEF RunTypeOK, Eligible
<1>2. /\ WellOrdered(Steps(route, sustained), setting.src, LateChecks(route))
      /\ TokenRoute(route) \/ NoToken(Steps(route, sustained))
  BY <1>1, RouteSteps DEF RunTypeOK
<1>3. Len(Steps(route, sustained)) \in Nat
  BY <1>2 DEF WellOrdered
<1> QED BY <1>1, <1>2, <1>3

\* Where a run is.
LEMMA HereFacts ==
  ASSUME RunTypeOK
  PROVE  /\ Here \in StepKinds
         /\ Here # "send" => step + 1 \in 1 .. Len(Steps(route, sustained))
         /\ Here \in {"token", "wait"} => TokenRoute(route)
<1>1. /\ Steps(route, sustained) \in Seq(StepKinds) /\ Len(Steps(route, sustained)) \in Nat
      /\ Steps(route, sustained)[Len(Steps(route, sustained))] = "send"
  BY RouteFacts DEF WellOrdered
<1>2. step \in 1 .. Len(Steps(route, sustained))
  BY DEF RunTypeOK
<1>3. Here \in StepKinds
  BY <1>1, <1>2 DEF Here
<1>4. Here # "send" => step + 1 \in 1 .. Len(Steps(route, sustained))
  BY <1>1, <1>2 DEF Here
<1>5. Here \in {"token", "wait"} => TokenRoute(route)
  BY <1>2, RouteFacts DEF Here, NoToken
<1> QED BY <1>3, <1>4, <1>5

\* What the lookups of a token come to: one that exists is taken, a new one is deployed,
\* one that is deployed on the source is deployed on the destination, or the run fails.
Resolved ==
    \/ \E t \in 1 .. Len(remote), from \in Origins :
          /\ Take(t, from)
          /\ from = "cached" => t = CachedToken /\ (setting.dst = "stellar" => Registered(t))
    \/ Refuse
    \/ DeployNew
    \/ /\ Continue("remote")
       /\ explicit # 0 /\ token' = explicit /\ origin' = "explicit"
       /\ UNCHANGED <<itsCache, message>>

\* An explicit token, a configured one, a cached one or a new one.
LEMMA CachedOrDeployFacts ==
  ASSUME TokenTypeOK, CachedOrDeploy, setting.dst # "stellar"
  PROVE  Resolved
<1>1. CachedToken \in 0 .. Len(remote) /\ Len(remote) \in Nat
  BY DEF TokenTypeOK, CachedToken, Names
<1>2. CASE CachedToken # 0 /\ Take(CachedToken, "cached")
  <2>1. CachedToken \in 1 .. Len(remote) /\ "cached" \in Origins
    BY <1>1, <1>2 DEF Origins
  <2> QED BY <1>2, <2>1, ZenonT(30) DEF Resolved
<1>3. CASE DeployNew
  BY <1>3, ZenonT(30) DEF Resolved
<1> QED BY <1>2, <1>3, ZenonT(30) DEF CachedOrDeploy

\* A token the operator names, on the command line or in the configuration.
LEMMA TakenFacts ==
  ASSUME TokenTypeOK, NEW t \in {1, explicit}, t # 0, NEW from \in {"explicit", "config"}, Take(t, from)
  PROVE  Resolved
<1>1. t \in 1 .. Len(remote) /\ from \in Origins /\ from # "cached"
  BY DEF TokenTypeOK, Origins
<1> QED BY <1>1, ZenonT(30) DEF Resolved

\* resolve_token: the token on the command line, else the configured one, else the cached one.
LEMMA ExplicitConfigCachedFacts ==
  ASSUME TokenTypeOK, setting \in Settings, NEW held \in BOOLEAN, ExplicitConfigCached(held),
         setting.dst # "stellar"
  PROVE  Resolved
<1>0. setting.configured \in BOOLEAN
  BY DEF Settings
<1>1. CASE explicit # 0
  <2>1. Take(explicit, "explicit")
    BY <1>1, ZenonT(30) DEF ExplicitConfigCached
  <2> QED BY <1>1, <2>1, TakenFacts, ZenonT(30)
<1>2. CASE explicit = 0 /\ ConfigShort(held)
  <2>1. Refuse
    BY <1>2 DEF ExplicitConfigCached, ConfigShort
  <2> QED BY <2>1, ZenonT(30) DEF Resolved
<1>3. CASE explicit = 0 /\ setting.configured /\ held
  <2>1. Take(1, "config")
    BY <1>3 DEF ExplicitConfigCached, ConfigShort
  <2> QED BY <2>1, TakenFacts
<1>4. CASE explicit = 0 /\ ~setting.configured
  <2>1. CachedOrDeploy
    BY <1>4, ZenonT(30) DEF ExplicitConfigCached, ConfigShort
  <2> QED BY <2>1, CachedOrDeployFacts, ZenonT(30)
<1> QED BY <1>0, <1>1, <1>2, <1>3, <1>4, ZenonT(30) DEF ConfigShort

\* its_evm_to_evm::resolve_or_deploy_token.
LEMMA TokenEvmToEvmFacts ==
  ASSUME TokenTypeOK, setting \in Settings, NEW held \in BOOLEAN, TokenEvmToEvm(held),
         setting.dst # "stellar"
  PROVE  Resolved
<1>0. setting.configured \in BOOLEAN
  BY DEF Settings
<1>1. CASE ConfigShort(held)
  <2>1. Refuse
    BY <1>1, ZenonT(30) DEF TokenEvmToEvm, ConfigShort
  <2> QED BY <2>1, ZenonT(30) DEF Resolved
<1>2. CASE ~ConfigShort(held) /\ explicit # 0
  <2>1. ProvidedOnEvm
    BY <1>2, ZenonT(30) DEF TokenEvmToEvm, ConfigShort
  <2>2. CASE Take(explicit, "explicit")
    BY <1>2, <2>2, TakenFacts, ZenonT(30)
  <2>3. CASE ~Take(explicit, "explicit")
    BY <1>2, <2>1, <2>3, ZenonT(30) DEF ProvidedOnEvm, Resolved
  <2> QED BY <2>2, <2>3
<1>3. CASE setting.configured /\ held /\ explicit = 0
  <2>1. Take(1, "config")
    BY <1>3 DEF TokenEvmToEvm, ConfigShort
  <2> QED BY <2>1, TakenFacts
<1>4. CASE ~setting.configured /\ explicit = 0
  <2>1. CachedOrDeploy
    BY <1>4, ZenonT(30) DEF TokenEvmToEvm, ConfigShort
  <2> QED BY <2>1, CachedOrDeployFacts, ZenonT(30)
<1> QED BY <1>0, <1>1, <1>2, <1>3, <1>4, ZenonT(30) DEF ConfigShort

\* its_evm_to_sol::resolve_or_deploy_token.
LEMMA TokenEvmToSolFacts ==
  ASSUME TokenTypeOK, setting \in Settings, NEW held \in BOOLEAN, TokenEvmToSol(held),
         setting.dst # "stellar"
  PROVE  Resolved
<1>0. setting.configured \in BOOLEAN /\ setting.hedera \in BOOLEAN
  BY DEF Settings
<1>1. CASE ConfigShort(held)
  <2>1. Refuse
    BY <1>1, ZenonT(30) DEF TokenEvmToSol, ConfigShort
  <2> QED BY <2>1, ZenonT(30) DEF Resolved
<1>2. CASE ~ConfigShort(held) /\ (setting.hedera \/ explicit # 0)
  <2>1. ExplicitOnSol
    BY <1>2, ZenonT(30) DEF TokenEvmToSol, ConfigShort
  <2>2. CASE explicit # 0
    <3>1. Take(explicit, "explicit")
      BY <2>1, <2>2, ZenonT(30) DEF ExplicitOnSol
    <3> QED BY <2>2, <3>1, TakenFacts, ZenonT(30)
  <2>3. CASE explicit = 0 /\ setting.configured
    <3>1. Take(1, "config")
      BY <2>1, <2>3 DEF ExplicitOnSol
    <3> QED BY <3>1, TakenFacts
  <2>4. CASE explicit = 0 /\ ~setting.configured
    <3>1. Refuse
      BY <2>1, <2>4, ZenonT(30) DEF ExplicitOnSol
    <3> QED BY <3>1, ZenonT(30) DEF Resolved
  <2> QED BY <1>0, <2>2, <2>3, <2>4, ZenonT(30)
<1>3. CASE setting.configured /\ held /\ ~setting.hedera /\ explicit = 0
  <2>1. Take(1, "config")
    BY <1>3 DEF TokenEvmToSol, ConfigShort
  <2> QED BY <2>1, TakenFacts
<1>4. CASE ~setting.configured /\ ~setting.hedera /\ explicit = 0
  <2>1. CachedOrDeploy
    BY <1>4, ZenonT(30) DEF TokenEvmToSol, ConfigShort
  <2> QED BY <2>1, CachedOrDeployFacts, ZenonT(30)
<1> QED BY <1>0, <1>1, <1>2, <1>3, <1>4, ZenonT(30) DEF ConfigShort

\* its_evm_to_stellar::resolve_or_deploy_token.
LEMMA TokenEvmToStellarFacts ==
  ASSUME TokenTypeOK, setting \in Settings, NEW held \in BOOLEAN, TokenEvmToStellar(held)
  PROVE  Resolved
<1>0. setting.configured \in BOOLEAN /\ Registered(1) \in BOOLEAN
  BY DEF Settings, Registered
<1>1. CASE ConfigShort(held)
  <2>1. Refuse
    BY <1>1, ZenonT(30) DEF TokenEvmToStellar, ConfigShort
  <2> QED BY <2>1, ZenonT(30) DEF Resolved
<1>2. CASE ~ConfigShort(held) /\ explicit # 0
  <2>1. ProvidedOnStellar
    BY <1>2, ZenonT(30) DEF TokenEvmToStellar, ConfigShort
  <2>2. CASE Take(explicit, "explicit")
    BY <1>2, <2>2, TakenFacts, ZenonT(30)
  <2>3. CASE Refuse
    BY <2>3, ZenonT(30) DEF Resolved
  <2> QED BY <2>1, <2>2, <2>3, ZenonT(30) DEF ProvidedOnStellar
<1>3. CASE setting.configured /\ held /\ explicit = 0 /\ Registered(1)
  <2>1. Take(1, "config")
    BY <1>3 DEF TokenEvmToStellar, ConfigShort
  <2> QED BY <2>1, TakenFacts
<1>4. CASE explicit = 0 /\ ~(setting.configured /\ Registered(1)) /\ ~ConfigShort(held)
  <2>1. CachedOnStellar
    BY <1>4 DEF TokenEvmToStellar, ConfigShort
  <2>2. CachedToken \in 0 .. Len(remote) /\ Len(remote) \in Nat
    BY DEF TokenTypeOK, CachedToken, Names
  <2>3. CASE CachedToken # 0 /\ Registered(CachedToken) /\ Take(CachedToken, "cached")
    <3>1. CachedToken \in 1 .. Len(remote) /\ "cached" \in Origins
      BY <2>2, <2>3 DEF Origins
    <3> QED BY <2>3, <3>1, ZenonT(30) DEF Resolved
  <2>4. CASE DeployNew
    BY <2>4, ZenonT(30) DEF Resolved
  <2> QED BY <2>1, <2>3, <2>4, ZenonT(30) DEF CachedOnStellar
<1> QED BY <1>0, <1>1, <1>2, <1>3, <1>4, ZenonT(30) DEF ConfigShort

\* Every route resolves its token in one of these ways.
LEMMA ResolveFacts ==
  ASSUME RunTypeOK, TokenTypeOK, ResolveToken
  PROVE  /\ status = "running" /\ Here = "token" /\ task = "begin"
         /\ Resolved
         /\ UNCHANGED <<spent, receiverVars, remote, waitVars>>
<1>1. /\ status = "running" /\ Here = "token" /\ task = "begin"
      /\ UNCHANGED <<spent, receiverVars, remote, waitVars>>
  BY DEF ResolveToken, At, Running
<1>2. route \in SupportedRoutes /\ TokenRoute(route) /\ setting \in Settings /\ route[3] = setting.dst
  BY <1>1, RouteFacts, HereFacts DEF RunTypeOK
<1>3. CASE Refuse
  BY <1>1, <1>3, ZenonT(30) DEF Resolved
<1>4. CASE ~Refuse
  <2>1. PICK held \in BOOLEAN :
            CASE route[1] = "its_data" -> TokenWithData(held)
              [] route[1] = "its" /\ route[2] = "svm" -> TokenSol(held)
              [] route[1] = "its" /\ route[2] = "stellar" -> TokenStellar(held)
              [] route = <<"its", "evm", "evm">> -> TokenEvmToEvm(held)
              [] route = <<"its", "evm", "svm">> -> TokenEvmToSol(held)
              [] route = <<"its", "evm", "stellar">> -> TokenEvmToStellar(held)
    BY <1>4, ZenonT(30) DEF ResolveToken
  <2>2. CASE route[1] = "its_data"
    <3>0. /\ route[1] # "its" /\ route # <<"its", "evm", "evm">> /\ route # <<"its", "evm", "svm">>
          /\ route # <<"its", "evm", "stellar">>
      BY <2>2
    <3>1. TokenWithData(held)
      BY <2>1, <2>2, <3>0
    <3>2. setting.dst # "stellar"
      BY <1>2, <2>2, AllRoutes DEF GmpRoutes, ItsRoutes
    <3> QED BY <1>1, <1>2, <3>1, <3>2, ExplicitConfigCachedFacts, ZenonT(30) DEF TokenWithData
  <2>3. CASE route[1] = "its" /\ route[2] \in {"svm", "stellar"} /\ route[3] \in {"evm", "svm"}
    <3>0. /\ route[1] # "its_data" /\ route # <<"its", "evm", "evm">>
          /\ route # <<"its", "evm", "svm">> /\ route # <<"its", "evm", "stellar">>
      BY <2>3
    <3>1. ExplicitConfigCached(held)
      BY <2>1, <2>3, <3>0, ZenonT(30) DEF TokenSol, TokenStellar
    <3>2. setting.dst # "stellar"
      BY <1>2, <2>3
    <3> QED BY <1>1, <1>2, <3>1, <3>2, ExplicitConfigCachedFacts, ZenonT(30)
  <2>4. CASE route = <<"its", "evm", "evm">>
    <3>1. TokenEvmToEvm(held) /\ setting.dst # "stellar"
      BY <1>2, <2>1, <2>4
    <3> QED BY <1>1, <1>2, <3>1, TokenEvmToEvmFacts, ZenonT(30)
  <2>5. CASE route = <<"its", "evm", "svm">>
    <3>1. TokenEvmToSol(held) /\ setting.dst # "stellar"
      BY <1>2, <2>1, <2>5
    <3> QED BY <1>1, <1>2, <3>1, TokenEvmToSolFacts, ZenonT(30)
  <2>6. CASE route = <<"its", "evm", "stellar">>
    <3>1. TokenEvmToStellar(held)
      BY <2>1, <2>6
    <3> QED BY <1>1, <1>2, <3>1, TokenEvmToStellarFacts, ZenonT(30)
  <2> QED BY <1>2, <2>2, <2>3, <2>4, <2>5, <2>6, ZenonT(30) DEF TokenRoute
<1> QED BY <1>3, <1>4

\* How the steps of the others move a run.
Halts == status = "running" /\ status' \in {"failed", "crashed"} /\ UNCHANGED <<step, task>>
Advances ==
    /\ status = "running" /\ Here # "send" /\ UNCHANGED status
    /\ step' = step + 1 /\ task' = "begin"
TurnsTo(tasks) ==
    status = "running" /\ task' \in tasks /\ UNCHANGED <<step, status>>
Sends == status = "running" /\ Here = "send" /\ status' = "sending" /\ UNCHANGED <<step, task>>
Stands == UNCHANGED <<step, task, status>>

\* A run takes its steps one by one, and pays at the steps that pay.
Moves ==
    /\ UNCHANGED <<setting, route, sustained, explicit, runs>>
    /\ Halts \/ Advances \/ TurnsTo(Tasks \ {"begin"}) \/ Sends \/ Stands
    /\ spent' = spent \/ (Here \in Paying /\ spent' = TRUE)

\* The steps that look, pay or send.
LEMMA PlainMoves ==
  ASSUME Crash \/ Check \/ CheckBurst \/ CheckGateway \/ Spend \/ Send
  PROVE  /\ Moves /\ UNCHANGED <<receiverVars, tokenVars, remote, waitVars>>
         /\ Halts \/ Here \notin {"token", "wait"}
         /\ Stands \/ status' # "running" \/ task' = "begin"
<1>1. CASE Crash
  BY <1>1 DEF Crash, Moves, Halts
<1>2. CASE Check
  <2>1. status = "running" /\ Here \in Checks /\ (Proceed \/ Fail)
    BY <1>2 DEF Check, Running
  <2>2. Here \notin {"send", "token", "wait"}
    BY <2>1 DEF Checks
  <2> QED BY <1>2, <2>1, <2>2 DEF Check, Moves, Halts, Advances, Proceed, Fail
<1>6. CASE CheckBurst
  <2>1. status = "running" /\ Here = "burst" /\ (Proceed \/ Fail)
    BY <1>6 DEF CheckBurst, Running
  <2> QED BY <1>6, <2>1 DEF CheckBurst, Moves, Halts, Advances, Proceed, Fail
<1>3. CASE CheckGateway
  <2>1. status = "running" /\ Here = "gateway" /\ (Proceed \/ Fail)
    BY <1>3 DEF CheckGateway, Running
  <2> QED BY <1>3, <2>1 DEF CheckGateway, Moves, Halts, Advances, Proceed, Fail
<1>4. CASE Spend
  <2>1. status = "running" /\ Here \in Spends /\ (Proceed \/ Fail) /\ spent' \in {spent, TRUE}
    BY <1>4, ZenonT(30) DEF Spend, Running
  <2>2. Here \notin {"send", "token", "wait"} /\ Here \in Paying
    BY <2>1 DEF Spends, Paying
  <2> QED BY <1>4, <2>1, <2>2, ZenonT(30) DEF Spend, Moves, Halts, Advances, Proceed, Fail
<1>5. CASE Send
  BY <1>5 DEF Send, Running, Moves, Sends
<1> QED BY <1>1, <1>2, <1>3, <1>4, <1>5, <1>6

\* A step that has a receiver deployed is one that pays.
LEMMA ReceiverStepPays ==
  ASSUME NEW side \in Sides
  PROVE  ReceiverStep(side) \in Paying /\ ReceiverStep(side) \notin {"send", "token", "wait"}
BY DEF Sides, ReceiverStep, Paying

\* The two sides have a step each.
LEMMA ReceiverStepsDiffer ==
  ASSUME NEW s \in Sides, NEW t \in Sides, ReceiverStep(s) = ReceiverStep(t)
  PROVE  s = t
BY DEF Sides, ReceiverStep

\* The steps that find or deploy a receiver.
LEMMA ReceiverMoves ==
  ASSUME ReceiverNext
  PROVE  Moves /\ UNCHANGED <<tokenVars, remote, waitVars>> /\ (Stands \/ Here \notin {"token", "wait"})
<1>1. PICK side \in Sides :
         \/ CheckReceiverGateway(side)
         \/ \E slot \in Slots :
               SkipCandidate(side, slot) \/ EmptyRead(side, slot) \/ ReuseReceiver(side, slot)
         \/ DeployReceiver(side) \/ SaveReceiver(side) \/ ReceiverFails(side)
         \/ RecordReceiver(side) \/ ReplaceGateway(side)
  BY ZenonT(30) DEF ReceiverNext
<1>0. ReceiverStep(side) \in Paying /\ ReceiverStep(side) \notin {"send", "token", "wait"}
  BY ReceiverStepPays
<1>2. ASSUME NEW slot \in Slots,
             SkipCandidate(side, slot) \/ EmptyRead(side, slot) \/ ReuseReceiver(side, slot)
      PROVE  Moves /\ UNCHANGED <<tokenVars, remote, waitVars>> /\ Here \notin {"token", "wait"}
  <2>1. /\ status = "running" /\ Here = ReceiverStep(side)
        /\ Proceed \/ Continue(slot) \/ Continue(After(slot))
        /\ UNCHANGED <<spent, tokenVars, remote, waitVars>>
    BY <1>2 DEF SkipCandidate, EmptyRead, ReuseReceiver, At, Running
  <2>2. {slot, After(slot)} \subseteq Tasks \ {"begin"}
    BY DEF Slots, After, Tasks
  <2> QED BY <1>0, <2>1, <2>2 DEF Moves, Advances, TurnsTo, Proceed, Continue
<1>8. CASE CheckReceiverGateway(side)
  <2>1. /\ status = "running" /\ Here = ReceiverStep(side) /\ Continue("overlay")
        /\ UNCHANGED <<spent, tokenVars, remote, waitVars>>
    BY <1>8 DEF CheckReceiverGateway, At, Running
  <2> QED BY <1>0, <2>1 DEF Moves, TurnsTo, Tasks, Continue
<1>3. CASE DeployReceiver(side)
  <2>1. /\ status = "running" /\ Here = ReceiverStep(side) /\ (Fail \/ Continue("save"))
        /\ spent' = TRUE /\ UNCHANGED <<tokenVars, remote, waitVars>>
    BY <1>3 DEF DeployReceiver, At, Running
  <2> QED BY <1>0, <2>1, ZenonT(30) DEF Moves, Halts, TurnsTo, Tasks, Fail, Continue
<1>4. CASE SaveReceiver(side)
  <2>1. /\ status = "running" /\ Here = ReceiverStep(side) /\ Proceed
        /\ UNCHANGED <<spent, tokenVars, remote, waitVars>>
    BY <1>4 DEF SaveReceiver, At, Running
  <2> QED BY <1>0, <2>1 DEF Moves, Advances, Proceed
<1>5. CASE ReceiverFails(side)
  <2>1. /\ status = "running" /\ Here = ReceiverStep(side) /\ Fail
        /\ UNCHANGED <<spent, tokenVars, remote, waitVars>>
    BY <1>5 DEF ReceiverFails, Running
  <2> QED BY <1>0, <2>1 DEF Moves, Halts, Fail
<1>6. CASE RecordReceiver(side)
  BY <1>6 DEF RecordReceiver, runVars, Moves, Stands
<1>7. CASE ReplaceGateway(side)
  BY <1>7 DEF ReplaceGateway, runVars, Moves, Stands
<1> QED BY <1>1, <1>2, <1>3, <1>4, <1>5, <1>6, <1>7, <1>8

\* The steps that find, deploy or await a token.
LEMMA TokenMoves ==
  ASSUME RunTypeOK, TokenTypeOK, TokenNext
  PROVE  /\ Moves /\ UNCHANGED receiverVars
         /\ Stands \/ status' # "running" \/ task' = "begin" \/ Here' \in {"token", "wait"}
<1> USE DEF Paying
<1>1. CASE ResolveToken
  <2>1. /\ status = "running" /\ Here = "token" /\ UNCHANGED <<spent, receiverVars>>
        /\ Proceed \/ Fail \/ Continue("local") \/ Continue("remote")
    BY <1>1, ResolveFacts DEF Resolved, Take, Refuse, DeployNew
  <2> QED BY <2>1 DEF Moves, Halts, Advances, TurnsTo, Tasks, Fail, Continue, Proceed, Here
<1>2. CASE DeployLocal
  <2>1. /\ status = "running" /\ Here = "token" /\ spent' = TRUE /\ UNCHANGED receiverVars
        /\ Fail \/ Continue("remote")
    BY <1>2 DEF DeployLocal, At, Running, Refuse
  <2> QED BY <2>1 DEF Moves, Halts, TurnsTo, Tasks, Fail, Continue, Here
<1>3. CASE DeployRemoteEvm \/ DeployRemoteOther
  <2>1. /\ status = "running" /\ Here = "token" /\ spent' = TRUE /\ UNCHANGED receiverVars
        /\ Fail \/ Continue("save") \/ Continue("wait") \/ Proceed
    BY <1>3 DEF DeployRemoteEvm, DeployRemoteOther, AfterRemote, At, Running
  <2> QED BY <2>1 DEF Moves, Halts, Advances, TurnsTo, Tasks, Fail, Continue, Proceed, Here
<1>4. CASE SaveToken
  <2>1. status = "running" /\ Here = "token" /\ UNCHANGED <<spent, receiverVars>> /\ Proceed
    BY <1>4 DEF SaveToken, At, Running
  <2> QED BY <2>1 DEF Moves, Advances, Proceed
<1>5. CASE Wait
  BY <1>5 DEF Wait, runVars, Moves, Stands
<1>6. CASE WaitEnds \/ WaitFails
  <2>1. /\ status = "running" /\ Here \in {"token", "wait"} /\ UNCHANGED <<spent, receiverVars>>
        /\ Fail \/ Continue("save") \/ Proceed
    BY <1>6 DEF WaitEnds, WaitFails, Waiting, At, Running
  <2> QED BY <2>1 DEF Moves, Halts, Advances, TurnsTo, Tasks, Fail, Continue, Proceed, Here
<1> QED BY <1>1, <1>2, <1>3, <1>4, <1>5, <1>6 DEF TokenNext

\* Every step starts a run or moves one.
LEMMA EveryMove ==
  ASSUME RunTypeOK, TokenTypeOK, [Next]_vars
  PROVE  Start \/ Moves
<1>1. CASE Hub \/ Ended \/ UNCHANGED vars
  BY <1>1 DEF Hub, Ended, vars, runVars, Moves, Stands
<1>2. CASE Crash \/ Check \/ CheckBurst \/ CheckGateway \/ Spend \/ Send
  BY <1>2, PlainMoves
<1> QED BY <1>1, <1>2, ReceiverMoves, TokenMoves DEF Next

\* A run starts at the first step of a route between the two chains.
LEMMA StartFacts ==
  ASSUME RunTypeOK, Start
  PROVE  RunTypeOK' /\ spent' = FALSE /\ step' = 1 /\ task' = "begin"
<1>1. /\ route' \in Eligible /\ sustained' \in BOOLEAN /\ step' = 1 /\ task' = "begin" /\ spent' = FALSE
      /\ setting' = setting /\ status' \in {"running", "failed"} /\ runs < MaxRuns /\ runs' = runs + 1
  BY ZenonT(30) DEF Start
<1>2. route' \in SupportedRoutes
  BY <1>1, SetupAssumption DEF Eligible
<1>3. 1 \in 1 .. Len(Steps(route', sustained'))
  BY <1>1, <1>2, RouteSteps DEF WellOrdered
<1>4. runs' \in 0 .. MaxRuns
  BY <1>1, Bounds DEF RunTypeOK
<1>5. route' \in Eligible'
  BY <1>1 DEF Eligible
<1> QED BY <1>1, <1>3, <1>4, <1>5, ZenonT(30) DEF RunTypeOK, Tasks

\* The run stays on a supported route, within its steps.
LEMMA RunTypeNext ==
  ASSUME RunTypeOK, TokenTypeOK, [Next]_vars
  PROVE  RunTypeOK'
<1>1. CASE Start
  BY <1>1, StartFacts
<1>2. CASE Moves
  <2>1. route' \in Eligible' /\ setting' = setting /\ route' = route /\ sustained' = sustained /\ runs' = runs
    BY <1>2 DEF RunTypeOK, Moves, Eligible
  <2>2. step' \in 1 .. Len(Steps(route, sustained)) /\ task' \in Tasks
    BY <1>2, HereFacts DEF Moves, Halts, Advances, TurnsTo, Sends, Stands, RunTypeOK, Tasks
  <2>3. status' \in {"idle", "running", "failed", "crashed", "sending"} /\ spent' \in BOOLEAN
    BY <1>2, ZenonT(30) DEF Moves, Halts, Advances, TurnsTo, Sends, Stands, RunTypeOK
  <2> QED BY <2>1, <2>2, <2>3 DEF RunTypeOK
<1> QED BY <1>1, <1>2, EveryMove

\* A step that pays comes after all the steps that refuse.
LEMMA SpentNext ==
  ASSUME RunTypeOK, TokenTypeOK, SpentLate, [Next]_vars
  PROVE  SpentLate'
<1>1. CASE Start
  BY <1>1, StartFacts DEF SpentLate
<1>2. CASE Moves
  <2>0. step \in 1 .. Len(Steps(route, sustained)) /\ Len(Steps(route, sustained)) \in Nat /\ route' = route /\ sustained' = sustained
    BY <1>2, RouteFacts DEF RunTypeOK, Moves
  <2>1. step' \in Nat /\ step' >= step
    BY <1>2, <2>0 DEF Moves, Halts, Advances, TurnsTo, Sends, Stands
  <2>2. ASSUME Here \in Paying
        PROVE  \A j \in step .. Len(Steps(route, sustained)) : Unrefused(j)
    <3>1. \A i, j \in 1 .. Len(Steps(route, sustained)) :
             i <= j /\ Steps(route, sustained)[i] \in Paying => Unrefused(j)
      BY RouteFacts DEF WellOrdered, Unrefused
    <3> QED BY <2>0, <2>2, <3>1 DEF Here
  <2>3. spent' => \A j \in step .. Len(Steps(route, sustained)) : Unrefused(j)
    BY <1>2, <2>2, ZenonT(30) DEF SpentLate, Moves
  <2> QED BY <2>0, <2>1, <2>3 DEF SpentLate, Unrefused
<1> QED BY <1>1, <1>2, EveryMove

-----------------------------------------------------------------------------
(* The receivers.                                                            *)

\* A run does not come to search for a receiver by a step that is not about receivers.
NoSearch == Stands \/ status' # "running" \/ task' = "begin" \/ Here' \in {"token", "wait"}

\* Only a run's start and the steps about receivers touch what a run knows of them.
LEMMA OtherMoves ==
  ASSUME RunTypeOK, TokenTypeOK, [Next]_vars, ~Start, ~ReceiverNext
  PROVE  Moves /\ UNCHANGED receiverVars /\ NoSearch
<1>1. CASE Hub \/ Ended \/ UNCHANGED vars
  BY <1>1 DEF Hub, Ended, vars, runVars, Moves, Stands, NoSearch
<1>2. CASE Crash \/ Check \/ CheckBurst \/ CheckGateway \/ Spend \/ Send
  BY <1>2, PlainMoves, ZenonT(30) DEF NoSearch
<1>3. CASE TokenNext
  BY <1>3, TokenMoves, ZenonT(30) DEF NoSearch
<1> QED BY <1>1, <1>2, <1>3, ZenonT(30) DEF Next

\* A candidate that is passed over, although it is live, read empty every time, or the
\* overlay does not parse.
PassedOver(side, slot) ==
    Candidate(slot, side) \in Live(side) =>
        empty[slot] = Attempts \/ (slot = "overlay" /\ unparsed)

\* What a search knows, by where it is: it still reads the candidate it is at, and has
\* passed over those before it.
SearchAt(side) ==
    /\ task \in Slots => empty[task] < Attempts
    /\ task = "overlay" => empty["cached"] = 0
    /\ task \in {"cached", "deploy", "save"} => PassedOver(side, "overlay")
    /\ task \in {"deploy", "save"} => PassedOver(side, "cached")

Search == \A side \in Sides : Running(ReceiverStep(side)) => SearchAt(side)

\* What is known of the receivers.
ReceiverInv == ReceiverTypeOK /\ LiveReceiverUsed /\ Search

\* A step that leaves the receivers alone keeps what is known of them.
LEMMA OthersKeepReceivers ==
  ASSUME ReceiverInv, Moves, UNCHANGED receiverVars, NoSearch
  PROVE  ReceiverInv'
<1>1. UNCHANGED <<gateway, receivers, overlay, cached, using, fresh, empty, unparsed>>
  BY DEF receiverVars
<1>2. ReceiverTypeOK'
  BY <1>1 DEF ReceiverInv, ReceiverTypeOK
<1>3. LiveReceiverUsed'
  BY <1>1 DEF ReceiverInv, LiveReceiverUsed, Live
<1>4. Search'
  <2> SUFFICES ASSUME NEW side \in Sides, Running(ReceiverStep(side))'
               PROVE  SearchAt(side)'
    BY DEF Search, ReceiverStep
  <2>1. Here' \notin {"token", "wait"} /\ status' = "running" /\ Here' = ReceiverStep(side)
    BY ReceiverStepPays DEF Running, ReceiverStep
  <2>2. CASE task' = "begin"
    BY <2>2 DEF SearchAt, Slots
  <2>3. CASE Stands
    <3>1. Running(ReceiverStep(side)) /\ UNCHANGED task
      BY <2>1, <2>3 DEF Moves, Stands, Running, Here
    <3>2. SearchAt(side)
      BY <3>1, ZenonT(30) DEF ReceiverInv, Search
    <3> QED BY <1>1, <3>1, <3>2 DEF SearchAt, PassedOver, Candidate, Live
  <2> QED BY <2>1, <2>2, <2>3, ZenonT(30) DEF NoSearch
<1> QED BY <1>2, <1>3, <1>4 DEF ReceiverInv

\* A run starts without a receiver.
LEMMA StartKeepsReceivers ==
  ASSUME ReceiverInv, Start
  PROVE  ReceiverInv'
<1>1. /\ UNCHANGED <<gateway, receivers, overlay, cached>> /\ task' = "begin"
      /\ using' = [s \in Sides |-> 0] /\ fresh' = {}
      /\ empty' = [k \in Slots |-> 0] /\ unparsed' = FALSE
  BY DEF Start, Forget
<1>2. ReceiverTypeOK'
  <2>1. Len(receivers) \in Nat
    BY DEF ReceiverInv, ReceiverTypeOK
  <2>2. using' \in [Sides -> 0 .. Len(receivers)] /\ empty' \in [Slots -> 0 .. Attempts]
    BY <1>1, <2>1, Bounds
  <2> QED BY <1>1, <2>2, ZenonT(30) DEF ReceiverInv, ReceiverTypeOK
<1>3. LiveReceiverUsed' /\ Search'
  BY <1>1 DEF LiveReceiverUsed, Search, SearchAt, Sides, Slots
<1> QED BY <1>2, <1>3 DEF ReceiverInv

\* The places of a search: where it is, and that no other is under way.
LEMMA SearchPlace ==
  ASSUME NEW side \in Sides, Running(ReceiverStep(side)), UNCHANGED <<route, sustained, step, status>>,
         SearchAt(side)'
  PROVE  Search'
<1> SUFFICES ASSUME NEW t \in Sides, Running(ReceiverStep(t))'
             PROVE  SearchAt(t)'
  BY DEF Search, ReceiverStep
<1>1. ReceiverStep(t) = ReceiverStep(side)
  BY DEF Running, Here, ReceiverStep
<1> QED BY <1>1, ReceiverStepsDiffer, ZenonT(30)

\* A search begins with nothing read.
LEMMA GatewayKeepsReceivers ==
  ASSUME ReceiverInv, NEW side \in Sides, CheckReceiverGateway(side)
  PROVE  ReceiverInv'
<1>1. /\ Running(ReceiverStep(side)) /\ task' = "overlay"
      /\ UNCHANGED <<route, sustained, step, status, gateway, receivers, overlay, cached, using, fresh>>
      /\ empty' = [k \in Slots |-> 0] /\ unparsed' = FALSE
  BY DEF CheckReceiverGateway, At, Continue, Forget
<1>2. ReceiverTypeOK'
  BY <1>1, Bounds, ZenonT(30) DEF ReceiverInv, ReceiverTypeOK
<1>3. LiveReceiverUsed'
  BY <1>1 DEF ReceiverInv, LiveReceiverUsed, Live
<1>4. SearchAt(side)'
  BY <1>1, Bounds DEF SearchAt, Slots
<1> QED BY <1>1, <1>2, <1>3, <1>4, SearchPlace DEF ReceiverInv

\* A search that passes over the candidate it is at goes on to the next place with what
\* it knows of the ones before.
LEMMA SearchGoesOn ==
  ASSUME ReceiverTypeOK, NEW side \in Sides, NEW slot \in Slots, SearchAt(side), task = slot,
         UNCHANGED <<gateway, receivers, overlay, cached>>, task' = After(slot),
         unparsed' = unparsed \/ unparsed' = TRUE,
         \A k \in Slots : k # slot => empty'[k] = empty[k],
         PassedOver(side, slot)'
  PROVE  SearchAt(side)'
<1>1. CASE slot = "overlay"
  <2>1. task' = "cached" /\ empty'["cached"] = 0
    BY <1>1 DEF SearchAt, After, Slots
  <2> QED BY <1>1, <2>1, Bounds DEF SearchAt, Slots
<1>2. CASE slot = "cached"
  <2>1. task' = "deploy" /\ PassedOver(side, "overlay") /\ empty'["overlay"] = empty["overlay"]
    BY <1>2 DEF SearchAt, After, Slots
  <2>2. PassedOver(side, "overlay")'
    <3>1. Candidate("overlay", side)' = overlay[side] /\ Candidate("overlay", side) = overlay[side]
      BY DEF Candidate
    <3>2. Live(side)' = Live(side)
      BY DEF Live
    <3> QED BY <2>1, <3>1, <3>2 DEF PassedOver, ReceiverTypeOK
  <2> QED BY <1>2, <2>1, <2>2 DEF SearchAt, Slots
<1> QED BY <1>1, <1>2 DEF Slots

\* A candidate of which nothing is recorded, or that an overlay names that does not parse.
LEMMA SkipKeepsReceivers ==
  ASSUME ReceiverInv, NEW side \in Sides, NEW slot \in Slots, SkipCandidate(side, slot)
  PROVE  ReceiverInv'
<1>1. /\ Running(ReceiverStep(side)) /\ task = slot /\ task' = After(slot)
      /\ UNCHANGED <<route, sustained, step, status, gateway, receivers, overlay, cached, using, fresh>>
      /\ UNCHANGED empty
      /\ \/ Candidate(slot, side) = 0 /\ UNCHANGED unparsed
         \/ slot = "overlay" /\ unparsed' = TRUE
  BY DEF SkipCandidate, At, Continue
<1>2. ReceiverTypeOK /\ SearchAt(side)
  BY <1>1, ZenonT(30) DEF ReceiverInv, Search
<1>3. ReceiverTypeOK'
  BY <1>1, <1>2, ZenonT(30) DEF ReceiverTypeOK
<1>4. LiveReceiverUsed'
  BY <1>1, ZenonT(30) DEF ReceiverInv, LiveReceiverUsed, Live
<1>5. PassedOver(side, slot)'
  <2>1. 0 \notin Live(side)' /\ Candidate(slot, side)' = Candidate(slot, side)
    BY <1>1, <1>2 DEF Live, Candidate, ReceiverTypeOK
  <2> QED BY <1>1, <2>1, ZenonT(30) DEF PassedOver, Candidate
<1>6. SearchAt(side)'
  BY <1>1, <1>2, <1>5, SearchGoesOn, ZenonT(30)
<1> QED BY <1>1, <1>3, <1>4, <1>6, SearchPlace DEF ReceiverInv

\* An empty read is one more, and the last of them gives the candidate up.
LEMMA EmptyKeepsReceivers ==
  ASSUME ReceiverInv, NEW side \in Sides, NEW slot \in Slots, EmptyRead(side, slot)
  PROVE  ReceiverInv'
<1>1. /\ Running(ReceiverStep(side)) /\ task = slot
      /\ UNCHANGED <<route, sustained, step, status, gateway, receivers, overlay, cached, using, fresh>>
      /\ UNCHANGED unparsed /\ empty' = [empty EXCEPT ![slot] = @ + 1]
      /\ IF empty'[slot] < Attempts THEN task' = slot ELSE task' = After(slot)
  BY DEF EmptyRead, At, Continue
<1>2. ReceiverTypeOK /\ SearchAt(side)
  BY <1>1, ZenonT(30) DEF ReceiverInv, Search
<1>3. /\ empty[slot] \in 0 .. Attempts /\ empty[slot] < Attempts /\ Attempts \in Nat
      /\ empty'[slot] = empty[slot] + 1 /\ \A k \in Slots : k # slot => empty'[k] = empty[k]
      /\ empty' \in [Slots -> 0 .. Attempts]
  <2>1. empty \in [Slots -> 0 .. Attempts] /\ empty[slot] < Attempts
    BY <1>1, <1>2 DEF SearchAt, ReceiverTypeOK
  <2>2. empty[slot] + 1 \in 0 .. Attempts /\ Attempts \in Nat
    BY <2>1, Bounds
  <2> QED BY <1>1, <2>1, <2>2
<1>4. ReceiverTypeOK'
  BY <1>1, <1>2, <1>3 DEF ReceiverTypeOK
<1>5. LiveReceiverUsed'
  BY <1>1 DEF ReceiverInv, LiveReceiverUsed, Live
<1>6. SearchAt(side)'
  <2>1. CASE empty'[slot] < Attempts
    <3>1. task' = slot
      BY <1>1, <2>1
    <3>2. slot = "overlay" => empty'["cached"] = 0
      BY <1>1, <1>2, <1>3 DEF SearchAt, Slots
    <3>3. slot = "cached" => PassedOver(side, "overlay")'
      <4> SUFFICES ASSUME slot = "cached" PROVE PassedOver(side, "overlay")'
        OBVIOUS
      <4>1. PassedOver(side, "overlay") /\ empty'["overlay"] = empty["overlay"]
        BY <1>1, <1>2, <1>3 DEF SearchAt, Slots
      <4> QED BY <1>1, <4>1 DEF PassedOver, Candidate, Live
    <3> QED BY <2>1, <3>1, <3>2, <3>3 DEF SearchAt, Slots
  <2>2. CASE ~(empty'[slot] < Attempts)
    <3>1. task' = After(slot) /\ empty'[slot] = Attempts
      BY <1>1, <1>3, <2>2
    <3>2. PassedOver(side, slot)'
      BY <3>1 DEF PassedOver
    <3> QED BY <1>1, <1>2, <1>3, <3>1, <3>2, SearchGoesOn, ZenonT(30)
  <2> QED BY <2>1, <2>2
<1> QED BY <1>1, <1>4, <1>5, <1>6, SearchPlace DEF ReceiverInv

\* A receiver that is found is live, and one that is not live is passed over.
LEMMA ReuseKeepsReceivers ==
  ASSUME ReceiverInv, NEW side \in Sides, NEW slot \in Slots, ReuseReceiver(side, slot)
  PROVE  ReceiverInv'
<1>1. /\ Running(ReceiverStep(side)) /\ task = slot
      /\ UNCHANGED <<gateway, receivers, overlay, cached, fresh>>
      /\ IF Candidate(slot, side) \in Live(side)
         THEN using' = [using EXCEPT ![side] = Candidate(slot, side)] /\ Proceed /\ Forget
         ELSE Continue(After(slot)) /\ UNCHANGED <<using, empty, unparsed>>
  BY ZenonT(30) DEF ReuseReceiver, At
<1>2. ReceiverTypeOK /\ SearchAt(side)
  BY <1>1, ZenonT(30) DEF ReceiverInv, Search
<1>3. CASE Candidate(slot, side) \in Live(side)
  <2> DEFINE found == Candidate(slot, side)
  <2>1. found \in Live(side) /\ found \in 0 .. Len(receivers)
    BY <1>2, <1>3 DEF Candidate, ReceiverTypeOK
  <2>2. /\ using' = [using EXCEPT ![side] = found] /\ task' = "begin"
        /\ empty' = [k \in Slots |-> 0] /\ unparsed' = FALSE
    BY <1>1, <1>3 DEF Proceed, Forget
  <2> HIDE DEF found
  <2>3. ReceiverTypeOK'
    <3>1. using' \in [Sides -> 0 .. Len(receivers)]
      BY <1>2, <2>1, <2>2 DEF ReceiverTypeOK
    <3> QED BY <1>1, <1>2, <2>2, <3>1, Bounds, ZenonT(30) DEF ReceiverTypeOK
  <2>4. LiveReceiverUsed'
    BY <1>1, <1>2, <2>1, <2>2 DEF ReceiverInv, ReceiverTypeOK, LiveReceiverUsed, Live
  <2>5. Search'
    BY <2>2 DEF Search, SearchAt, Slots
  <2> QED BY <2>3, <2>4, <2>5 DEF ReceiverInv
<1>4. CASE Candidate(slot, side) \notin Live(side)
  <2>1. /\ task' = After(slot) /\ UNCHANGED <<using, empty, unparsed>>
        /\ UNCHANGED <<route, sustained, step, status>>
    BY <1>1, <1>4 DEF Continue
  <2>2. ReceiverTypeOK'
    BY <1>1, <1>2, <2>1 DEF ReceiverTypeOK
  <2>3. LiveReceiverUsed'
    BY <1>1, <2>1 DEF ReceiverInv, LiveReceiverUsed, Live
  <2>4. PassedOver(side, slot)'
    BY <1>1, <1>4, <2>1 DEF PassedOver, Candidate, Live
  <2>5. SearchAt(side)'
    BY <1>1, <1>2, <2>1, <2>4, SearchGoesOn, ZenonT(30)
  <2> QED BY <1>1, <2>1, <2>2, <2>3, <2>5, SearchPlace DEF ReceiverInv
<1> QED BY <1>3, <1>4

\* A new receiver is wired to the gateway, or is one whose deployment reverted; those
\* that were there stay as they are.
LEMMA DeployKeepsReceivers ==
  ASSUME ReceiverInv, NEW side \in Sides, DeployReceiver(side)
  PROVE  ReceiverInv'
<1>1. PICK wired \in {0, gateway[side]} : receivers' = Append(receivers, wired)
  BY DEF DeployReceiver
<1>2. /\ Running(ReceiverStep(side)) /\ task = "deploy" /\ UNCHANGED <<gateway, overlay, cached>>
      /\ \/ /\ using' = [using EXCEPT ![side] = Len(receivers')] /\ fresh' = fresh \cup {side}
            /\ task' = "save" /\ UNCHANGED <<empty, unparsed, route, sustained, step, status>>
         \/ /\ status' = "failed" /\ UNCHANGED <<using, fresh>>
            /\ empty' = [k \in Slots |-> 0] /\ unparsed' = FALSE
  BY DEF DeployReceiver, At, Continue, Fail, Forget
<1>3. /\ receivers \in Seq(0 .. 2) /\ Len(receivers) \in Nat /\ gateway[side] \in {1, 2}
      /\ overlay \in [Sides -> 0 .. Len(receivers)] /\ cached \in [Sides -> 0 .. Len(receivers)]
      /\ using \in [Sides -> 0 .. Len(receivers)] /\ fresh \subseteq Sides
  BY DEF ReceiverInv, ReceiverTypeOK
<1>4. /\ Len(receivers') = Len(receivers) + 1 /\ receivers' \in Seq(0 .. 2)
      /\ receivers'[Len(receivers')] = wired /\ Len(receivers') # 0
      /\ \A r \in 1 .. Len(receivers) : receivers'[r] = receivers[r]
      /\ DOMAIN receivers' = 1 .. Len(receivers') /\ DOMAIN receivers = 1 .. Len(receivers)
  BY <1>1, <1>3
<1>5. ReceiverTypeOK'
  <2>1. 0 .. Len(receivers) \subseteq 0 .. Len(receivers') /\ Len(receivers') \in 0 .. Len(receivers')
    BY <1>3, <1>4
  <2>2. /\ overlay' \in [Sides -> 0 .. Len(receivers')] /\ cached' \in [Sides -> 0 .. Len(receivers')]
        /\ using' \in [Sides -> 0 .. Len(receivers')] /\ fresh' \subseteq Sides
    BY <1>2, <1>3, <2>1, ZenonT(30)
  <2>3. empty' \in [Slots -> 0 .. Attempts] /\ unparsed' \in BOOLEAN
    BY <1>2, Bounds, ZenonT(30) DEF ReceiverInv, ReceiverTypeOK
  <2> QED BY <1>2, <1>4, <2>2, <2>3 DEF ReceiverInv, ReceiverTypeOK
<1>6. LiveReceiverUsed'
  <2> SUFFICES ASSUME NEW t \in Sides, using'[t] # 0
               PROVE  \/ using'[t] \in DOMAIN receivers' /\ receivers'[using'[t]] = gateway[t]
                      \/ t \in fresh' /\ receivers'[using'[t]] = 0
    BY <1>2 DEF LiveReceiverUsed, Live
  <2>1. CASE using'[t] = using[t]
    <3>1. using[t] \in 1 .. Len(receivers) /\ using[t] # 0
      BY <1>3, <2>1
    <3>2. \/ receivers[using[t]] = gateway[t]
          \/ t \in fresh /\ receivers[using[t]] = 0
      BY <3>1 DEF ReceiverInv, LiveReceiverUsed, Live
    <3>3. fresh \subseteq fresh' /\ using[t] \in DOMAIN receivers'
      BY <1>2, <1>3, <1>4, <3>1
    <3> QED BY <1>4, <2>1, <3>1, <3>2, <3>3, ZenonT(30)
  <2>2. CASE using'[t] # using[t]
    <3>1. t = side /\ using'[t] = Len(receivers') /\ t \in fresh'
      BY <1>2, <1>3, <2>2
    <3>2. Len(receivers') \in DOMAIN receivers'
      BY <1>3, <1>4
    <3>3. wired = gateway[t] \/ wired = 0
      BY <3>1
    <3>4. receivers'[using'[t]] = wired
      BY <1>4, <3>1
    <3> QED BY <3>1, <3>2, <3>3, <3>4, ZenonT(30)
  <2> QED BY <2>1, <2>2, ZenonT(30)
<1>7. Search'
  <2>1. CASE status' = "failed"
    BY <2>1 DEF Search, Running
  <2>2. CASE /\ task' = "save" /\ UNCHANGED <<empty, unparsed, route, sustained, step, status>>
    <3>1. PassedOver(side, "overlay") /\ PassedOver(side, "cached")
      BY <1>2 DEF ReceiverInv, Search, SearchAt
    <3>2. overlay[side] \in Live(side)' <=> overlay[side] \in Live(side)
      BY <1>2, <1>3, <1>4 DEF Live
    <3>3. cached[side] \in Live(side)' <=> cached[side] \in Live(side)
      BY <1>2, <1>3, <1>4 DEF Live
    <3>4. PassedOver(side, "overlay")'
      BY <1>2, <2>2, <3>1, <3>2, ZenonT(30) DEF PassedOver, Candidate
    <3>5. PassedOver(side, "cached")'
      BY <1>2, <2>2, <3>1, <3>3, ZenonT(30) DEF PassedOver, Candidate
    <3>6. SearchAt(side)'
      BY <2>2, <3>4, <3>5 DEF SearchAt, Slots
    <3> QED BY <1>2, <2>2, <3>6, SearchPlace
  <2> QED BY <1>2, <2>1, <2>2
<1> QED BY <1>5, <1>6, <1>7 DEF ReceiverInv

\* The steps about receivers.
LEMMA ReceiversKeepReceivers ==
  ASSUME ReceiverInv, ReceiverNext
  PROVE  ReceiverInv'
<1>1. PICK side \in Sides :
         \/ CheckReceiverGateway(side)
         \/ \E slot \in Slots :
               SkipCandidate(side, slot) \/ EmptyRead(side, slot) \/ ReuseReceiver(side, slot)
         \/ DeployReceiver(side) \/ SaveReceiver(side) \/ ReceiverFails(side)
         \/ RecordReceiver(side) \/ ReplaceGateway(side)
  BY ZenonT(30) DEF ReceiverNext
<1>2. CASE SaveReceiver(side)
  <2>1. /\ cached' = [cached EXCEPT ![side] = using[side]] /\ task' = "begin"
        /\ UNCHANGED <<gateway, receivers, overlay, using, fresh>>
        /\ empty' = [k \in Slots |-> 0] /\ unparsed' = FALSE
    BY <1>2 DEF SaveReceiver, Proceed, Forget
  <2>2. ReceiverTypeOK'
    <3>1. cached' \in [Sides -> 0 .. Len(receivers)]
      BY <2>1 DEF ReceiverInv, ReceiverTypeOK
    <3> QED BY <2>1, <3>1, Bounds, ZenonT(30) DEF ReceiverInv, ReceiverTypeOK
  <2>3. LiveReceiverUsed' /\ Search'
    BY <2>1 DEF ReceiverInv, LiveReceiverUsed, Live, Search, SearchAt, Slots
  <2> QED BY <2>2, <2>3 DEF ReceiverInv
<1>3. CASE ReceiverFails(side)
  <2>1. /\ status' = "failed" /\ UNCHANGED <<gateway, receivers, overlay, cached, using, fresh>>
        /\ empty' = [k \in Slots |-> 0] /\ unparsed' = FALSE
    BY <1>3 DEF ReceiverFails, Fail, Forget
  <2>2. ReceiverTypeOK'
    BY <2>1, Bounds, ZenonT(30) DEF ReceiverInv, ReceiverTypeOK
  <2>3. LiveReceiverUsed' /\ Search'
    BY <2>1 DEF ReceiverInv, LiveReceiverUsed, Live, Search, Running
  <2> QED BY <2>2, <2>3 DEF ReceiverInv
<1>4. CASE RecordReceiver(side)
  <2>1. /\ status' # "running" /\ overlay' = [overlay EXCEPT ![side] = cached[side]]
        /\ UNCHANGED <<gateway, receivers, cached, using, fresh, empty, unparsed>>
    BY <1>4 DEF RecordReceiver, runVars
  <2>2. ReceiverTypeOK'
    BY <2>1 DEF ReceiverInv, ReceiverTypeOK
  <2>3. LiveReceiverUsed' /\ Search'
    BY <2>1 DEF ReceiverInv, LiveReceiverUsed, Live, Search, Running
  <2> QED BY <2>2, <2>3 DEF ReceiverInv
<1>5. CASE ReplaceGateway(side)
  <2>1. /\ status' # "running" /\ gateway' = [gateway EXCEPT ![side] = 2]
        /\ using' = [s \in Sides |-> 0] 
        /\ UNCHANGED <<receivers, overlay, cached, fresh, empty, unparsed>>
    BY <1>5 DEF ReplaceGateway, runVars
  <2>2. ReceiverTypeOK'
    BY <2>1 DEF ReceiverInv, ReceiverTypeOK
  <2>3. LiveReceiverUsed' /\ Search'
    BY <2>1 DEF LiveReceiverUsed, Search, Running
  <2> QED BY <2>2, <2>3 DEF ReceiverInv
<1> QED BY <1>1, <1>2, <1>3, <1>4, <1>5, GatewayKeepsReceivers, SkipKeepsReceivers,
           EmptyKeepsReceivers, ReuseKeepsReceivers, DeployKeepsReceivers, ZenonT(30)

\* What a run knows of receivers is true in every step.
LEMMA ReceiverInvNext ==
  ASSUME RunTypeOK, TokenTypeOK, ReceiverInv, [Next]_vars
  PROVE  ReceiverInv'
BY StartKeepsReceivers, ReceiversKeepReceivers, OtherMoves, OthersKeepReceivers, ZenonT(30)

-----------------------------------------------------------------------------
(* The tokens.                                                               *)

SendsLast == status = "sending" => Here = "send"

\* A run sends when it is at its last step, and starts over from there.
LEMMA SendsLastNext ==
  ASSUME RunTypeOK, TokenTypeOK, SendsLast, [Next]_vars
  PROVE  SendsLast'
<1>1. CASE Start
  <2>1. status' \in {"running", "failed"}
    BY <1>1 DEF Start
  <2> QED BY <2>1 DEF SendsLast
<1>2. CASE Moves
  <2> SUFFICES ASSUME status' = "sending" PROVE Here' = "send"
    BY DEF SendsLast
  <2>1. UNCHANGED <<route, sustained, step>> /\ (Here = "send" \/ status = "sending")
    BY <1>2 DEF Moves, Halts, Advances, TurnsTo, Sends, Stands
  <2> QED BY <2>1 DEF SendsLast, Here
<1> QED BY <1>1, <1>2, EveryMove, ZenonT(30)

\* A run resolves one token; an EVM source waits for it right after.
LEMMA TokenPlace ==
  ASSUME RunTypeOK, Here = "token"
  PROVE  /\ step + 1 \in 1 .. Len(Steps(route, sustained))
         /\ \A j \in step + 1 .. Len(Steps(route, sustained)) : Steps(route, sustained)[j] # "token"
         /\ setting.src = "evm" => Steps(route, sustained)[step + 1] = "wait"
<1>1. step \in 1 .. Len(Steps(route, sustained)) /\ Len(Steps(route, sustained)) \in Nat
  BY RouteFacts DEF RunTypeOK
<1>2. step + 1 \in 1 .. Len(Steps(route, sustained))
  BY HereFacts, ZenonT(30)
<1>3. /\ \A i, j \in 1 .. Len(Steps(route, sustained)) :
            Steps(route, sustained)[i] = "token" /\ Steps(route, sustained)[j] = "token" => i = j
      /\ \A i \in 1 .. Len(Steps(route, sustained)) :
            Steps(route, sustained)[i] = "token" /\ setting.src = "evm" => Steps(route, sustained)[i + 1] = "wait"
  BY RouteFacts, ZenonT(30) DEF WellOrdered
<1> QED BY <1>1, <1>2, <1>3 DEF Here

\* Only EVM sources have a step of their own to wait, and nothing to wait for lies behind
\* the last step.
LEMMA WaitPlace ==
  ASSUME RunTypeOK
  PROVE  /\ Here = "wait" => setting.src = "evm"
         /\ Here = "send" => ~WaitAhead
<1>1. step \in 1 .. Len(Steps(route, sustained)) /\ Len(Steps(route, sustained)) \in Nat
  BY RouteFacts DEF RunTypeOK
<1>2. /\ \A i \in 1 .. Len(Steps(route, sustained)) : Steps(route, sustained)[i] = "wait" => setting.src = "evm"
      /\ \A i \in 1 .. Len(Steps(route, sustained)) : Steps(route, sustained)[i] = "send" => i = Len(Steps(route, sustained))
  BY RouteFacts, ZenonT(30) DEF WellOrdered
<1>3. ASSUME Here = "send" PROVE ~WaitAhead
  <2>1. step = Len(Steps(route, sustained))
    BY <1>1, <1>2, <1>3, ZenonT(30) DEF Here
  <2>2. \A j \in step .. Len(Steps(route, sustained)) : j = step
    BY <1>1, <2>1
  <2> QED BY <1>3, <2>2, ZenonT(30) DEF WaitAhead, Here
<1> QED BY <1>1, <1>2, <1>3, ZenonT(30) DEF Here

\* A run that has its message and moves past a step that is not the token's keeps its
\* message, and the wait ahead of it.
LEMMA NextPlace ==
  ASSUME RunTypeOK, UNCHANGED <<setting, route, sustained>>, step' = step + 1, task' = "begin", Here # "send"
  PROVE  /\ (\A j \in step + 1 .. Len(Steps(route, sustained)) : Steps(route, sustained)[j] # "token")
               => /\ Here' # "token"
                  /\ \A j \in step' + 1 .. Len(Steps(route', sustained')) : Steps(route', sustained')[j] # "token"
         /\ WaitAhead /\ setting.src = "evm" /\ Here # "wait" => WaitAhead'
<1>1. /\ step \in 1 .. Len(Steps(route, sustained)) /\ Len(Steps(route, sustained)) \in Nat
      /\ step + 1 \in 1 .. Len(Steps(route, sustained))
  BY RouteFacts, HereFacts DEF RunTypeOK
<1>2. Here' = Steps(route, sustained)[step + 1]
  BY DEF Here
<1>3. ASSUME \A j \in step + 1 .. Len(Steps(route, sustained)) : Steps(route, sustained)[j] # "token"
      PROVE  /\ Here' # "token"
             /\ \A j \in step' + 1 .. Len(Steps(route', sustained')) : Steps(route', sustained')[j] # "token"
  <2>1. /\ step + 1 \in step + 1 .. Len(Steps(route, sustained))
        /\ step' + 1 .. Len(Steps(route, sustained)) \subseteq step + 1 .. Len(Steps(route, sustained))
    BY <1>1
  <2> QED BY <1>2, <1>3, <2>1, ZenonT(30)
<1>4. ASSUME WaitAhead, setting.src = "evm", Here # "wait" PROVE WaitAhead'
  <2>1. PICK j \in step .. Len(Steps(route, sustained)) : Steps(route, sustained)[j] = "wait"
    BY <1>4, ZenonT(30) DEF WaitAhead
  <2>2. j # step
    BY <1>4, <2>1, ZenonT(30) DEF Here
  <2>3. j \in step' .. Len(Steps(route, sustained))
    BY <1>1, <2>1, <2>2
  <2> QED BY <1>4, <2>1, <2>3, ZenonT(30) DEF WaitAhead
<1> QED BY <1>3, <1>4, ZenonT(30)

\* How far a finished wait proves a deployment has come, as a number.
LEMMA ProvenFacts ==
  /\ ProvenStage \in Nat
  /\ setting.dst = "stellar" \/ setting.legacy => ProvenStage = Deployed
  /\ setting.dst # "stellar" /\ ~setting.legacy => ProvenStage = Routed
  /\ setting' = setting => ProvenStage' = ProvenStage
BY DEF ProvenStage, Routed, Deployed

\* Deployments go on and are never taken back.
Grows ==
    /\ remote' \in Seq(0 .. Deployed) /\ Len(remote') >= Len(remote)
    /\ \A t \in 1 .. Len(remote) : remote'[t] \in Nat /\ remote'[t] >= remote[t]

\* A deployment nobody touches goes nowhere.
LEMMA StandsGrows ==
  ASSUME TokenTypeOK, UNCHANGED remote
  PROVE  Grows
BY DEF TokenTypeOK, Grows, Deployed

\* Requesting a deployment takes none back.
LEMMA RequestGrows ==
  ASSUME TokenTypeOK, token # 0, RequestRemote
  PROVE  Grows /\ Len(remote') = Len(remote) /\ remote'[token] >= Requested
<1>1. remote \in Seq(0 .. 6) /\ token \in 1 .. Len(remote) /\ Len(remote) \in Nat
  BY DEF TokenTypeOK, Deployed
<1>2. remote' = [remote EXCEPT ![token] = IF @ = 0 THEN 1 ELSE @]
  BY DEF RequestRemote, Requested
<1>3. remote' \in Seq(0 .. 6) /\ Len(remote') = Len(remote)
  BY <1>1, <1>2
<1>4. \A t \in 1 .. Len(remote) : remote'[t] \in Nat /\ remote'[t] >= remote[t]
  BY <1>1, <1>2
<1>5. remote'[token] >= 1
  BY <1>1, <1>2
<1> QED BY <1>1, <1>3, <1>4, <1>5 DEF Grows, Deployed, Requested

\* The relayers only take a deployment further.
LEMMA RelayGrows ==
  ASSUME TokenTypeOK, NEW t \in DOMAIN remote, Relay(t)
  PROVE  Grows /\ Len(remote') = Len(remote)
<1>1. remote \in Seq(0 .. 6) /\ t \in 1 .. Len(remote) /\ Len(remote) \in Nat
  BY DEF TokenTypeOK, Deployed
<1>2. remote' = [remote EXCEPT ![t] = @ + 1] /\ remote[t] \in 1 .. 5
  BY DEF Relay, Requested, Approved
<1>3. remote' \in Seq(0 .. 6) /\ Len(remote') = Len(remote)
  BY <1>1, <1>2
<1>4. \A u \in 1 .. Len(remote) : remote'[u] \in Nat /\ remote'[u] >= remote[u]
  BY <1>1, <1>2
<1> QED BY <1>1, <1>3, <1>4 DEF Grows, Deployed

\* A new token leaves the deployments of the others as they were.
LEMMA AppendGrows ==
  ASSUME TokenTypeOK, remote' = Append(remote, 0)
  PROVE  Grows /\ Len(remote') = Len(remote) + 1 /\ Len(remote) \in Nat
<1>1. remote \in Seq(0 .. 6) /\ Len(remote) \in Nat
  BY DEF TokenTypeOK, Deployed
<1>2. remote' \in Seq(0 .. 6) /\ Len(remote') = Len(remote) + 1
  BY <1>1
<1>3. \A u \in 1 .. Len(remote) : remote'[u] \in Nat /\ remote'[u] >= remote[u]
  BY <1>1
<1> QED BY <1>1, <1>2, <1>3 DEF Grows, Deployed

\* What is known of the tokens keeps its type as the deployments go on.
LEMMA TokenTypeKept ==
  ASSUME TokenTypeOK, Grows, explicit' = explicit, phase' \in WaitPhases, missing' \in Nat,
         itsCache' = itsCache, message' \in BOOLEAN, origin' \in Origins, token' \in 0 .. Len(remote')
  PROVE  TokenTypeOK'
<1>1. /\ Len(remote) \in Nat /\ Len(remote) >= 1 /\ Len(remote') \in Nat /\ Len(remote') >= Len(remote)
  BY DEF TokenTypeOK, Grows
<1>2. 0 .. Len(remote) \subseteq 0 .. Len(remote') /\ Len(remote') >= 1
  BY <1>1
<1>3. explicit' \in 0 .. Len(remote') /\ itsCache' \in [Names -> 0 .. Len(remote')]
  BY <1>2 DEF TokenTypeOK
<1> QED BY <1>2, <1>3 DEF TokenTypeOK, Grows

\* How far a deployment has come, as a number.
LEMMA Stages ==
  ASSUME TokenTypeOK, NEW t \in 1 .. Len(remote)
  PROVE  remote[t] \in Nat
<1>1. remote \in Seq(0 .. 6)
  BY DEF TokenTypeOK, Deployed
<1> QED BY <1>1

\* A cached token that has arrived stays arrived, and a run goes on with the one it took.
LEMMA CachedKept ==
  ASSUME TokenTypeOK, CachedHasArrived, Grows, setting' = setting, itsCache' = itsCache,
         Going' /\ origin' = "cached" => Going /\ origin = "cached" /\ token' = token
  PROVE  CachedHasArrived'
<1>1. ProvenStage' = ProvenStage /\ ProvenStage \in Nat
  BY ProvenFacts, ZenonT(30)
<1>2. \A t \in 1 .. Len(remote) : remote[t] >= ProvenStage => remote'[t] >= ProvenStage
  <2>1. \A t \in 1 .. Len(remote) : remote[t] \in Nat /\ remote'[t] \in Nat /\ remote'[t] >= remote[t]
    BY Stages, ZenonT(30) DEF Grows
  <2> QED BY <1>1, <2>1
<1>3. ASSUME setting.src # "evm", NEW n \in Names, itsCache[n] # 0
      PROVE  remote'[itsCache[n]] >= ProvenStage
  <2>1. itsCache[n] \in 1 .. Len(remote)
    BY <1>3 DEF TokenTypeOK
  <2> QED BY <1>2, <1>3, <2>1, ZenonT(30) DEF CachedHasArrived
<1>4. ASSUME Going', origin' = "cached", setting.src # "evm" \/ setting.dst = "stellar"
      PROVE  token' # 0 /\ remote'[token'] >= ProvenStage
  <2>1. token' = token /\ token # 0 /\ remote[token] >= ProvenStage
    BY <1>4, ZenonT(30) DEF CachedHasArrived
  <2>2. token \in 1 .. Len(remote)
    BY <2>1 DEF TokenTypeOK
  <2> QED BY <1>2, <2>1, <2>2, ZenonT(30)
<1> QED BY <1>1, <1>3, <1>4, ZenonT(30) DEF CachedHasArrived

\* A run that has ended follows no message.
LEMMA Halted ==
  ASSUME status' \notin {"running", "sending"}
  PROVE  WaitFollows' /\ TokenOnce' /\ Waited'
BY DEF WaitFollows, TokenOnce, Waited, Going

\* A run without a message has nothing to wait for.
LEMMA NothingToFollow ==
  ASSUME ~message', phase' = "HubApproved",
         Here' = "token" /\ task' \in {"remote", "wait", "save"} => token' # 0,
         Here' = "token" /\ task' \in {"wait", "save"} => setting'.src = "evm"
  PROVE  WaitFollows' /\ TokenOnce' /\ Waited'
BY ZenonT(30) DEF WaitFollows, TokenOnce, Waited

\* Until its token's remote deployment is requested a run has no message.
LEMMA NoMessageYet ==
  ASSUME TokenInv, status = "running", Here = "token", task \in {"begin", "local", "remote"}
  PROVE  ~message /\ phase = "HubApproved" /\ Going
<1>1. ~message
  BY DEF TokenInv, TokenOnce
<1>2. Going
  BY DEF Going
<1> QED BY <1>1, <1>2, ZenonT(30) DEF TokenInv, WaitFollows

\* A run that moves on at another step, or ends, keeps what it knows of its token.
LEMMA TokensUntouched ==
  ASSUME RunTypeOK, TokenTypeOK, TokenInv, Moves, UNCHANGED <<tokenVars, remote, waitVars>>,
         Halts \/ Stands \/ Here \notin {"token", "wait"}
  PROVE  TokenTypeOK' /\ TokenInv'
<1>1. /\ UNCHANGED <<setting, route, sustained, explicit>>
      /\ UNCHANGED <<itsCache, token, origin, message, remote, phase, missing>>
  BY DEF Moves, tokenVars, waitVars
<1>2. TokenTypeOK'
  BY <1>1 DEF TokenTypeOK
<1>3. Going' => Going
  BY DEF Moves, Halts, Advances, TurnsTo, Sends, Stands, Going
<1>4. WaitFollows'
  BY <1>1, <1>3, ProvenFacts, ZenonT(30) DEF TokenInv, WaitFollows
<1>5. CachedHasArrived'
  <2>1. Grows
    BY <1>1, StandsGrows, ZenonT(30)
  <2> QED BY <1>1, <1>3, <2>1, CachedKept, ZenonT(30) DEF TokenInv
<1>6. TokenOnce' /\ Waited'
  <2>1. CASE Halts
    <3>1. status' \notin {"running", "sending"}
      BY <2>1 DEF Halts
    <3> QED BY <3>1, Halted, ZenonT(30)
  <2>2. CASE Stands
    <3>1. UNCHANGED <<step, task, status>> /\ Here' = Here
      BY <1>1, <2>2 DEF Stands, Here
    <3>2. TokenOnce'
      BY <1>1, <3>1, ZenonT(30) DEF TokenInv, TokenOnce
    <3>3. WaitAhead' = WaitAhead
      BY <1>1, <3>1 DEF WaitAhead
    <3> QED BY <1>1, <1>3, <3>2, <3>3, ZenonT(30) DEF TokenInv, Waited
  <2>3. CASE Here \notin {"token", "wait"} /\ Advances
    <3>1. step' = step + 1 /\ task' = "begin" /\ Here # "send" /\ status = "running"
      BY <2>3 DEF Advances
    <3>2. TokenOnce'
      BY <1>1, <3>1, NextPlace, ZenonT(30) DEF TokenInv, TokenOnce
    <3>3. WaitAhead => WaitAhead'
      BY <1>1, <2>3, <3>1, NextPlace, ZenonT(30) DEF WaitAhead
    <3> QED BY <1>1, <1>3, <3>2, <3>3, ZenonT(30) DEF TokenInv, Waited
  <2>4. CASE Here \notin {"token", "wait"} /\ UNCHANGED step /\ status = "running"
    <3>1. Here' = Here
      BY <1>1, <2>4 DEF Here
    <3>2. TokenOnce'
      BY <1>1, <2>4, <3>1, ZenonT(30) DEF TokenInv, TokenOnce
    <3>3. WaitAhead => WaitAhead'
      BY <1>1, <2>4 DEF WaitAhead
    <3> QED BY <1>1, <1>3, <3>2, <3>3, ZenonT(30) DEF TokenInv, Waited
  <2>5. Halts \/ Stands \/ Advances \/ (UNCHANGED step /\ status = "running")
    BY DEF Moves, TurnsTo, Sends
  <2> QED BY <2>1, <2>2, <2>3, <2>4, <2>5, ZenonT(30)
<1> QED BY <1>2, <1>4, <1>5, <1>6, ZenonT(30) DEF TokenInv

\* A run starts without a token.
LEMMA StartKeepsTokens ==
  ASSUME RunTypeOK, TokenTypeOK, TokenInv, Start
  PROVE  TokenTypeOK' /\ TokenInv'
<1>1. /\ UNCHANGED <<setting, itsCache, remote>> /\ task' = "begin"
      /\ token' = 0 /\ origin' = "none" /\ message' = FALSE /\ phase' = "HubApproved" /\ missing' = 0
      /\ explicit' \in 0 .. Len(remote)
  BY DEF Start, WaitStarts, TokenTypeOK
<1>2. TokenTypeOK'
  <2>1. Len(remote) \in Nat
    BY DEF TokenTypeOK
  <2>2. token' \in 0 .. Len(remote)
    BY <1>1, <2>1
  <2>3. origin' \in Origins /\ phase' \in WaitPhases /\ message' \in BOOLEAN /\ missing' \in Nat
    BY <1>1, ZenonT(30) DEF Origins, WaitPhases
  <2> QED BY <1>1, <2>2, <2>3 DEF TokenTypeOK
<1>3. WaitFollows' /\ TokenOnce' /\ Waited'
  BY <1>1, NothingToFollow
<1>4. CachedHasArrived'
  <2>1. Grows
    BY <1>1, StandsGrows, ZenonT(30)
  <2> QED BY <1>1, <2>1, CachedKept DEF TokenInv
<1> QED BY <1>2, <1>3, <1>4, ZenonT(30) DEF TokenInv

\* A token that is taken exists, and one from the cache has arrived where that is asked.
LEMMA ResolveKeepsTokens ==
  ASSUME RunTypeOK, TokenTypeOK, TokenInv, ResolveToken
  PROVE  TokenTypeOK' /\ TokenInv'
<1>1. /\ status = "running" /\ Here = "token" /\ task = "begin"
      /\ Resolved /\ UNCHANGED <<remote, phase, missing>>
  BY ResolveFacts, ZenonT(30) DEF waitVars
<1>2. ~message /\ phase = "HubApproved" /\ Going
  BY <1>1, NoMessageYet
<1>3. Grows /\ phase' \in WaitPhases /\ missing' \in Nat
  BY <1>1, StandsGrows DEF TokenTypeOK
<1>4. ASSUME NEW t \in 1 .. Len(remote), NEW from \in Origins, Take(t, from),
             from = "cached" => t = CachedToken /\ (setting.dst = "stellar" => Registered(t))
      PROVE  TokenTypeOK' /\ TokenInv'
  <2>1. /\ token' = t /\ origin' = from /\ UNCHANGED <<itsCache, message>> /\ task' = "begin"
        /\ UNCHANGED <<setting, explicit>>
    BY <1>4 DEF Take, Proceed
  <2>2. t \in 0 .. Len(remote') /\ t # 0
    BY <1>1
  <2>3. TokenTypeOK'
    <3>1. message' \in BOOLEAN
      BY <2>1 DEF TokenTypeOK
    <3> QED BY <1>3, <2>1, <2>2, <3>1, TokenTypeKept, ZenonT(30)
  <2>4. WaitFollows' /\ TokenOnce' /\ Waited'
    BY <1>1, <1>2, <2>1, NothingToFollow
  <2>5. CASE from # "cached"
    BY <1>3, <2>1, <2>3, <2>4, <2>5, CachedKept, ZenonT(30) DEF TokenInv
  <2>6. CASE from = "cached"
    <3>1. ProvenStage' = ProvenStage
      BY <2>1, ProvenFacts, ZenonT(30)
    <3>2. \A n \in Names : setting.src # "evm" /\ itsCache[n] # 0 => remote[itsCache[n]] >= ProvenStage
      BY ZenonT(30) DEF TokenInv, CachedHasArrived
    <3>3. ASSUME setting.src # "evm" PROVE remote[t] >= ProvenStage
      BY <1>4, <2>2, <2>6, <3>2, <3>3 DEF CachedToken, Names
    <3>4. ASSUME setting.dst = "stellar" PROVE remote[t] >= ProvenStage
      BY <1>4, <2>6, <3>4, ProvenFacts DEF Registered, Deployed
    <3>5. CachedHasArrived'
      BY <1>1, <2>1, <2>2, <3>1, <3>2, <3>3, <3>4, ZenonT(30) DEF CachedHasArrived
    <3> QED BY <2>3, <2>4, <3>5, ZenonT(30) DEF TokenInv
  <2> QED BY <2>5, <2>6, ZenonT(30)
<1>5. CASE Refuse \/ DeployNew
  <2>1. /\ UNCHANGED <<setting, explicit, itsCache, token, origin, message>>
        /\ task' \in {"begin", "local"}
    BY <1>1, <1>5 DEF Refuse, DeployNew, Fail, Continue, tokenVars
  <2>2. TokenTypeOK'
    BY <1>1, <2>1 DEF TokenTypeOK
  <2>3. WaitFollows' /\ TokenOnce' /\ Waited'
    BY <1>1, <1>2, <2>1, NothingToFollow
  <2>4. CachedHasArrived'
    BY <1>2, <1>3, <2>1, CachedKept, ZenonT(30) DEF TokenInv
  <2> QED BY <2>2, <2>3, <2>4, ZenonT(30) DEF TokenInv
<1>6. CASE /\ Continue("remote") /\ explicit # 0 /\ token' = explicit /\ origin' = "explicit"
           /\ UNCHANGED <<itsCache, message>>
  <2>1. UNCHANGED <<setting, explicit, itsCache, message>> /\ task' = "remote"
    BY <1>6 DEF Continue
  <2>2. TokenTypeOK'
    BY <1>1, <1>6, <2>1 DEF TokenTypeOK, Origins
  <2>3. WaitFollows' /\ TokenOnce' /\ Waited'
    BY <1>1, <1>2, <1>6, <2>1, NothingToFollow
  <2>4. CachedHasArrived'
    BY <1>3, <1>6, <2>1, CachedKept DEF TokenInv
  <2> QED BY <2>2, <2>3, <2>4, ZenonT(30) DEF TokenInv
<1> QED BY <1>1, <1>4, <1>5, <1>6, ZenonT(30) DEF Resolved

\* A token is new on its own chain, and not yet requested elsewhere.
LEMMA LocalKeepsTokens ==
  ASSUME RunTypeOK, TokenTypeOK, TokenInv, DeployLocal
  PROVE  TokenTypeOK' /\ TokenInv'
<1>1. /\ status = "running" /\ Here = "token" /\ task = "local" /\ UNCHANGED <<phase, missing>>
  BY DEF DeployLocal, At, Running, waitVars
<1>2. ~message /\ phase = "HubApproved" /\ Going
  BY <1>1, NoMessageYet
<1>3. CASE /\ Continue("remote") /\ remote' = Append(remote, 0)
           /\ token' = Len(remote') /\ origin' = "deployed" /\ UNCHANGED <<itsCache, message>>
  <2>1. UNCHANGED <<setting, explicit, itsCache, message>> /\ task' = "remote"
    BY <1>3 DEF Continue
  <2>2. Grows /\ token' \in 0 .. Len(remote') /\ token' # 0
    BY <1>3, AppendGrows
  <2>3. phase' \in WaitPhases /\ missing' \in Nat /\ message' \in BOOLEAN /\ origin' \in Origins
    BY <1>1, <1>3 DEF TokenTypeOK, Origins
  <2>4. TokenTypeOK'
    BY <2>1, <2>2, <2>3, TokenTypeKept, ZenonT(30)
  <2>5. WaitFollows' /\ TokenOnce' /\ Waited'
    BY <1>1, <1>2, <1>3, <2>1, <2>2, NothingToFollow
  <2>6. CachedHasArrived'
    BY <1>3, <2>1, <2>2, CachedKept DEF TokenInv
  <2> QED BY <2>4, <2>5, <2>6, ZenonT(30) DEF TokenInv
<1>4. CASE Refuse /\ UNCHANGED remote
  <2>1. UNCHANGED <<setting, explicit, itsCache, token, origin, message, remote>> /\ status' = "failed"
    BY <1>4 DEF Refuse, Fail, tokenVars
  <2>2. TokenTypeOK'
    BY <1>1, <2>1 DEF TokenTypeOK
  <2>3. WaitFollows' /\ TokenOnce' /\ Waited'
    BY <2>1, Halted
  <2>4. CachedHasArrived'
    <3>1. Grows
      BY <2>1, StandsGrows, ZenonT(30)
    <3> QED BY <1>2, <2>1, <3>1, CachedKept, ZenonT(30) DEF TokenInv
  <2> QED BY <2>2, <2>3, <2>4, ZenonT(30) DEF TokenInv
<1> QED BY <1>3, <1>4, ZenonT(30) DEF DeployLocal

\* A requested token has its message, and a wait that lies ahead.
LEMMA RequestKeepsTokens ==
  ASSUME RunTypeOK, TokenTypeOK, TokenInv, At("token", "remote"), RequestRemote, message' = TRUE,
         AfterRemote, UNCHANGED <<itsCache, token, origin, waitVars>>
  PROVE  TokenTypeOK' /\ TokenInv'
<1>1. /\ status = "running" /\ Here = "token" /\ task = "remote" /\ UNCHANGED <<phase, missing>>
      /\ UNCHANGED <<itsCache, token, origin>>
  BY DEF At, Running, waitVars
<1>2. phase = "HubApproved" /\ Going
  BY <1>1, NoMessageYet
<1>3. token # 0
  BY <1>1, ZenonT(30) DEF TokenInv, TokenOnce
<1>4. Grows /\ Len(remote') = Len(remote) /\ remote'[token] >= Requested
  BY <1>3, RequestGrows, ZenonT(30)
<1>5. /\ UNCHANGED <<setting, route, sustained, explicit, status>>
      /\ \/ UNCHANGED step /\ task' = "save" /\ setting.src = "evm"
         \/ step' = step + 1 /\ task' = "begin" /\ setting.src = "evm"
         \/ UNCHANGED step /\ task' = "wait" /\ setting.src # "evm"
  BY DEF AfterRemote, Continue, Proceed
<1>6. TokenTypeOK'
  <2>1. /\ phase' \in WaitPhases /\ missing' \in Nat /\ origin' \in Origins /\ message' \in BOOLEAN
        /\ token' \in 0 .. Len(remote')
    BY <1>1, <1>4 DEF TokenTypeOK
  <2> QED BY <1>1, <1>4, <1>5, <2>1, TokenTypeKept, ZenonT(30)
<1>7. CachedHasArrived'
  BY <1>1, <1>2, <1>4, <1>5, CachedKept, ZenonT(30) DEF TokenInv
<1>8. WaitFollows'
  BY <1>1, <1>2, <1>3, <1>4 DEF WaitFollows
<1>9. TokenOnce' /\ Waited'
  <2>1. /\ step + 1 \in 1 .. Len(Steps(route, sustained)) /\ step \in Nat /\ Len(Steps(route, sustained)) \in Nat
        /\ \A j \in step + 1 .. Len(Steps(route, sustained)) : Steps(route, sustained)[j] # "token"
        /\ setting.src = "evm" => Steps(route, sustained)[step + 1] = "wait"
    BY <1>1, TokenPlace, RouteFacts DEF RunTypeOK
  <2>2. CASE UNCHANGED step /\ task' = "save" /\ setting.src = "evm"
    <3>1. Here' = "token" /\ token' # 0 /\ setting'.src = "evm"
      BY <1>1, <1>3, <1>5, <2>2 DEF Here
    <3>2. TokenOnce'
      BY <1>5, <2>1, <2>2, <3>1, ZenonT(30) DEF TokenOnce
    <3>3. step + 1 \in step' .. Len(Steps(route', sustained'))
      BY <1>5, <2>1, <2>2
    <3>4. WaitAhead'
      BY <1>5, <2>1, <2>2, <3>3, ZenonT(30) DEF WaitAhead
    <3> QED BY <3>2, <3>4, ZenonT(30) DEF Waited
  <2>3. CASE step' = step + 1 /\ task' = "begin" /\ setting.src = "evm"
    <3>1. /\ Here' # "token"
          /\ \A j \in step' + 1 .. Len(Steps(route', sustained')) : Steps(route', sustained')[j] # "token"
      BY <1>1, <1>5, <2>1, <2>3, NextPlace
    <3>2. TokenOnce'
      BY <3>1, ZenonT(30) DEF TokenOnce
    <3>3. step + 1 \in step' .. Len(Steps(route', sustained'))
      BY <1>5, <2>1, <2>3
    <3>4. WaitAhead'
      BY <1>5, <2>1, <2>3, <3>3, ZenonT(30) DEF WaitAhead
    <3> QED BY <3>2, <3>4, ZenonT(30) DEF Waited
  <2>4. CASE UNCHANGED step /\ task' = "wait" /\ setting.src # "evm"
    <3>1. Here' = "token" /\ token' # 0 /\ setting'.src # "evm"
      BY <1>1, <1>3, <1>5, <2>4 DEF Here
    <3>2. TokenOnce'
      BY <1>5, <2>1, <2>4, <3>1, ZenonT(30) DEF TokenOnce
    <3>3. WaitAhead'
      BY <2>4, <3>1, ZenonT(30) DEF WaitAhead
    <3> QED BY <3>2, <3>3, ZenonT(30) DEF Waited
  <2> QED BY <1>5, <2>2, <2>3, <2>4, ZenonT(30)
<1> QED BY <1>6, <1>7, <1>8, <1>9, ZenonT(30) DEF TokenInv

\* A remote deployment that is requested, refused, or whose event is overlooked.
LEMMA RemoteKeepsTokens ==
  ASSUME RunTypeOK, TokenTypeOK, TokenInv, DeployRemoteEvm \/ DeployRemoteOther
  PROVE  TokenTypeOK' /\ TokenInv'
<1>1. /\ At("token", "remote") /\ UNCHANGED <<itsCache, token, origin, waitVars>>
      /\ \/ RequestRemote /\ message' = TRUE /\ AfterRemote
         \/ RequestRemote /\ message' = FALSE /\ Fail
         \/ UNCHANGED <<remote, message>> /\ Fail
         \/ UNCHANGED <<remote, message>> /\ setting.src = "evm" /\ AfterRemote
  BY DEF DeployRemoteEvm, DeployRemoteOther
<1>2. /\ status = "running" /\ Here = "token" /\ task = "remote" /\ UNCHANGED <<phase, missing>>
      /\ UNCHANGED <<itsCache, token, origin>>
  BY <1>1 DEF At, Running, waitVars
<1>3. ~message /\ phase = "HubApproved" /\ Going
  BY <1>2, NoMessageYet
<1>4. token # 0
  BY <1>2, ZenonT(30) DEF TokenInv, TokenOnce
<1>5. CASE RequestRemote /\ message' = TRUE /\ AfterRemote
  BY <1>1, <1>5, RequestKeepsTokens, ZenonT(30)
<1>6. CASE (RequestRemote \/ UNCHANGED remote) /\ message' = FALSE /\ Fail
  <2>1. UNCHANGED <<setting, explicit>> /\ status' = "failed"
    BY <1>6 DEF Fail
  <2>2. Grows
    BY <1>4, <1>6, RequestGrows, StandsGrows, ZenonT(30)
  <2>3. TokenTypeOK'
    <3>1. /\ phase' \in WaitPhases /\ missing' \in Nat /\ origin' \in Origins /\ message' \in BOOLEAN
      BY <1>2, <1>6, ZenonT(30) DEF TokenTypeOK
    <3>2. token \in 0 .. Len(remote) /\ Len(remote) \in Nat /\ Len(remote') \in Nat
          /\ Len(remote') >= Len(remote)
      BY <2>2 DEF TokenTypeOK, Grows
    <3>3. token' \in 0 .. Len(remote')
      BY <1>2, <3>2
    <3> QED BY <1>2, <2>1, <2>2, <3>1, <3>3, TokenTypeKept, ZenonT(30)
  <2>4. CachedHasArrived'
    BY <1>2, <1>3, <2>1, <2>2, CachedKept, ZenonT(30) DEF TokenInv
  <2>5. WaitFollows' /\ TokenOnce' /\ Waited'
    BY <2>1, Halted
  <2> QED BY <2>3, <2>4, <2>5, ZenonT(30) DEF TokenInv
<1>7. CASE UNCHANGED <<remote, message>> /\ setting.src = "evm" /\ AfterRemote
  <2>1. UNCHANGED <<setting, explicit, status>>
    BY <1>7 DEF AfterRemote, Continue, Proceed
  <2>2. Grows
    BY <1>7, StandsGrows
  <2>3. TokenTypeOK'
    BY <1>2, <1>7, <2>1 DEF TokenTypeOK
  <2>4. CachedHasArrived'
    BY <1>2, <1>3, <2>1, <2>2, CachedKept, ZenonT(30) DEF TokenInv
  <2>5. WaitFollows' /\ TokenOnce' /\ Waited'
    BY <1>2, <1>3, <1>4, <1>7, <2>1, NothingToFollow
  <2> QED BY <2>3, <2>4, <2>5, ZenonT(30) DEF TokenInv
<1>8. UNCHANGED <<remote, message>> /\ Fail => UNCHANGED remote /\ message' = FALSE
  BY <1>3 DEF TokenTypeOK
<1> QED BY <1>1, <1>5, <1>6, <1>7, <1>8, ZenonT(30)

\* A token is saved once it was waited for, or is waited for next.
LEMMA SaveKeepsTokens ==
  ASSUME RunTypeOK, TokenTypeOK, TokenInv, SaveToken
  PROVE  TokenTypeOK' /\ TokenInv'
<1>1. /\ status = "running" /\ Here = "token" /\ task = "save"
      /\ itsCache' = [itsCache EXCEPT ![SaveName] = token]
      /\ UNCHANGED <<token, origin, message, remote, phase, missing>>
      /\ UNCHANGED <<setting, route, sustained, explicit, status>> /\ step' = step + 1 /\ task' = "begin"
  BY DEF SaveToken, At, Running, Proceed, waitVars
<1>2. SaveName \in Names
  BY DEF SaveName, Names
<1>3. TokenTypeOK'
  BY <1>1, <1>2 DEF TokenTypeOK
<1>4. ProvenStage' = ProvenStage /\ Going /\ Going'
  BY <1>1, ProvenFacts DEF Going
<1>5. WaitFollows'
  BY <1>1, <1>4, ZenonT(30) DEF TokenInv, WaitFollows
<1>6. TokenOnce'
  <2>1. \A j \in step + 1 .. Len(Steps(route, sustained)) : Steps(route, sustained)[j] # "token"
    BY <1>1, TokenPlace
  <2>2. /\ Here' # "token"
        /\ \A j \in step' + 1 .. Len(Steps(route', sustained')) : Steps(route', sustained')[j] # "token"
    BY <1>1, <2>1, NextPlace
  <2> QED BY <2>2, ZenonT(30) DEF TokenOnce
<1>7. Waited'
  <2>1. message => phase = "Done" \/ WaitAhead
    BY <1>4, ZenonT(30) DEF TokenInv, Waited
  <2>2. WaitAhead => setting.src = "evm"
    BY <1>1 DEF WaitAhead
  <2>3. WaitAhead => WaitAhead'
    BY <1>1, <2>2, NextPlace
  <2> QED BY <1>1, <2>1, <2>3, ZenonT(30) DEF Waited
<1>8. CachedHasArrived'
  <2>1. ASSUME setting.src # "evm" PROVE remote[token] >= ProvenStage
    <3>1. message
      BY <1>1, <2>1, ZenonT(30) DEF TokenInv, TokenOnce
    <3>2. ~WaitAhead
      BY <1>1, <2>1 DEF WaitAhead
    <3>3. phase = "Done"
      BY <1>4, <3>1, <3>2, ZenonT(30) DEF TokenInv, Waited
    <3> QED BY <1>4, <3>1, <3>3, ZenonT(30) DEF TokenInv, WaitFollows
  <2>2. itsCache \in [Names -> 0 .. Len(remote)]
    BY DEF TokenTypeOK
  <2>3. \A n \in Names : itsCache'[n] = itsCache[n] \/ itsCache'[n] = token
    BY <1>1, <2>2
  <2> QED BY <1>1, <1>4, <2>1, <2>3, ZenonT(30) DEF TokenInv, CachedHasArrived
<1> QED BY <1>3, <1>5, <1>6, <1>7, <1>8, ZenonT(30) DEF TokenInv

\* What a phase of a wait says of the deployment it follows.
PhaseFollows(p, r) ==
    /\ p = "DiscoverSecondLeg" => r >= OnHub
    /\ p = "Routed" => r >= Forwarded
    /\ p \in {"Approved", "Executed"} /\ ~setting.legacy => r >= Routed
    /\ p \in {"Registered", "Done"} => r >= ProvenStage

\* A poll of the hub: advance_hub_deploy.
LEMMA HubFollows ==
  ASSUME NEW r \in Nat, remote[token] = r, setting.legacy \in BOOLEAN, missing \in Nat,
         NEW legacy \in BOOLEAN, legacy = setting.legacy, InHub, AdvanceHub(token, legacy)
  PROVE  PhaseFollows(phase', r) /\ phase' \in WaitPhases /\ missing' \in Nat
BY DEF PhaseFollows, AdvanceHub, InHub, WaitPhases, OnHub, Forwarded, Routed

\* A poll of an EVM destination, of either kind.
LEMMA EvmFollows ==
  ASSUME NEW r \in 0 .. Deployed, remote[token] = r, setting.legacy \in BOOLEAN, missing \in Nat,
         setting.dst = "evm", PhaseFollows(phase, r), WaitEvm(token, setting.legacy)
  PROVE  PhaseFollows(phase', r) /\ phase' \in WaitPhases /\ missing' \in Nat
<1>0. r \in Nat
  BY DEF Deployed
<1>1. CASE InHub
  BY <1>0, <1>1, HubFollows, ZenonT(30) DEF WaitEvm
<1>2. CASE ~InHub /\ setting.legacy
  <2>1. CheckLegacy(token) /\ ProvenStage = Deployed
    BY <1>2 DEF WaitEvm, ProvenStage
  <2> QED BY <1>0, <1>2, <2>1 DEF CheckLegacy, PhaseFollows, WaitPhases, Deployed
<1>3. CASE ~InHub /\ ~setting.legacy
  <2>1. CheckAmplifier(token) /\ ProvenStage = Routed
    BY <1>3 DEF WaitEvm, ProvenStage
  <2> QED BY <1>0, <1>3, <2>1 DEF CheckAmplifier, PhaseFollows, WaitPhases
<1> QED BY <1>1, <1>2, <1>3

\* A poll of a Stellar destination.
LEMMA StellarFollows ==
  ASSUME NEW r \in 0 .. Deployed, remote[token] = r, setting.legacy = FALSE, missing \in Nat,
         setting.dst = "stellar", PhaseFollows(phase, r), WaitStellar(token)
  PROVE  PhaseFollows(phase', r) /\ phase' \in WaitPhases /\ missing' \in Nat
<1>0. r \in Nat
  BY DEF Deployed
<1>1. CASE InHub
  BY <1>0, <1>1, HubFollows, ZenonT(30) DEF WaitStellar
<1>2. CASE ~InHub
  <2>1. CheckStellar(token) /\ ProvenStage = Deployed
    BY <1>2 DEF WaitStellar, ProvenStage
  <2> QED BY <1>0, <1>2, <2>1
        DEF CheckStellar, StellarApproval, PhaseFollows, WaitPhases, Deployed, Approved, Routed
<1> QED BY <1>1, <1>2

\* A poll of a Solana destination.
LEMMA SolanaFollows ==
  ASSUME NEW r \in 0 .. Deployed, remote[token] = r, setting.legacy = FALSE, missing \in Nat,
         setting.dst = "svm", PhaseFollows(phase, r), WaitSolana(token)
  PROVE  PhaseFollows(phase', r) /\ phase' \in WaitPhases /\ missing' \in Nat
<1>0. r \in Nat
  BY DEF Deployed
<1>1. CASE InHub
  BY <1>0, <1>1, HubFollows, ZenonT(30) DEF WaitSolana
<1>2. CASE ~InHub
  <2>1. CheckSolana(token) /\ ProvenStage = Routed /\ phase = "Approved"
    BY <1>2 DEF WaitSolana, ProvenStage, CheckSolana
  <2> QED BY <1>0, <1>2, <2>1 DEF CheckSolana, PhaseFollows, WaitPhases, Approved, Routed
<1> QED BY <1>1, <1>2

\* A wait stays behind the message it follows.
LEMMA WaitKeepsTokens ==
  ASSUME RunTypeOK, TokenTypeOK, TokenInv, Wait
  PROVE  TokenTypeOK' /\ TokenInv'
<1>1. /\ status = "running" /\ Here \in {"token", "wait"} /\ message /\ phase # "Done"
      /\ UNCHANGED <<setting, route, sustained, explicit, step, task, status>>
      /\ UNCHANGED <<itsCache, token, origin, message, remote>>
  BY DEF Wait, Waiting, At, Running, runVars, tokenVars
<1>2. /\ setting.legacy \in BOOLEAN /\ (setting.legacy => setting.dst = "evm")
      /\ setting.dst \in {"evm", "stellar", "svm"}
  <2>1. TokenRoute(route) /\ route[3] = setting.dst
    BY <1>1, HereFacts, RouteFacts, ZenonT(30)
  <2>2. setting.legacy \in BOOLEAN /\ (setting.legacy => setting.dst = "evm")
    BY DEF RunTypeOK, Settings
  <2>3. setting.dst \in {"evm", "stellar", "svm"}
    <3>1. CASE route[1] = "its_data"
      BY <2>1, <3>1, RouteFacts, AllRoutes DEF GmpRoutes, ItsRoutes
    <3>2. CASE route[1] # "its_data"
      BY <2>1, <3>2 DEF TokenRoute
    <3> QED BY <3>1, <3>2
  <2> QED BY <2>2, <2>3
<1>3. Going /\ Going' /\ Here' = Here
  BY <1>1 DEF Going, Here
<1>4. token # 0 /\ remote[token] >= Requested /\ PhaseFollows(phase, remote[token])
  BY <1>1, <1>3, ZenonT(30) DEF TokenInv, WaitFollows, PhaseFollows
<1>5. remote[token] \in 0 .. Deployed /\ missing \in Nat
  <2>1. /\ token \in 0 .. Len(remote) /\ remote \in Seq(0 .. 6) /\ Len(remote) \in Nat
        /\ missing \in Nat
    BY DEF TokenTypeOK, Deployed
  <2>2. token \in 1 .. Len(remote)
    BY <1>4, <2>1
  <2>3. remote[token] \in 0 .. 6
    BY <2>1, <2>2
  <2> QED BY <2>1, <2>3, ZenonT(30) DEF Deployed
<1>6. PhaseFollows(phase', remote[token]) /\ phase' \in WaitPhases /\ missing' \in Nat
  <2>1. CASE setting.dst = "evm"
    <3>1. WaitEvm(token, setting.legacy)
      BY <2>1 DEF Wait
    <3> QED BY <1>2, <1>4, <1>5, <2>1, <3>1, EvmFollows, ZenonT(30)
  <2>2. CASE setting.dst = "stellar"
    <3>1. WaitStellar(token) /\ setting.legacy = FALSE
      BY <1>2, <2>2 DEF Wait
    <3> QED BY <1>4, <1>5, <2>2, <3>1, StellarFollows, ZenonT(30)
  <2>3. CASE setting.dst = "svm"
    <3>1. WaitSolana(token) /\ setting.legacy = FALSE
      BY <1>2, <2>3 DEF Wait
    <3> QED BY <1>4, <1>5, <2>3, <3>1, SolanaFollows, ZenonT(30)
  <2> QED BY <1>2, <2>1, <2>2, <2>3
<1>7. TokenTypeOK'
  BY <1>1, <1>6 DEF TokenTypeOK
<1>8. WaitFollows'
  <2>1. ProvenStage' = ProvenStage
    BY <1>1, ProvenFacts, ZenonT(30)
  <2> QED BY <1>1, <1>4, <1>6, <2>1, ZenonT(30) DEF PhaseFollows, WaitFollows
<1>9. TokenOnce'
  BY <1>1, <1>3, ZenonT(30) DEF TokenInv, TokenOnce
<1>10. Waited'
  <2>1. WaitAhead
    BY <1>1, <1>3, ZenonT(30) DEF TokenInv, Waited
  <2>2. WaitAhead'
    BY <1>1, <1>3, <2>1, ZenonT(30) DEF WaitAhead
  <2> QED BY <2>2, ZenonT(30) DEF Waited
<1>11. CachedHasArrived'
  <2>1. Grows
    BY <1>1, StandsGrows, ZenonT(30)
  <2> QED BY <1>1, <1>3, <2>1, CachedKept, ZenonT(30) DEF TokenInv
<1> QED BY <1>7, <1>8, <1>9, <1>10, <1>11, ZenonT(30) DEF TokenInv

\* A wait ends when its phase is Done, or there was no message to wait for.
LEMMA WaitEndsKeepsTokens ==
  ASSUME RunTypeOK, TokenTypeOK, TokenInv, WaitEnds
  PROVE  TokenTypeOK' /\ TokenInv'
<1>1. /\ status = "running" /\ UNCHANGED <<setting, route, sustained, explicit, status>>
      /\ UNCHANGED <<itsCache, token, origin, message, remote, phase, missing>>
      /\ message => phase = "Done"
      /\ \/ Here = "token" /\ task = "wait" /\ task' = "save" /\ UNCHANGED step
         \/ Here = "wait" /\ task' = "begin" /\ step' = step + 1
  BY DEF WaitEnds, Waiting, At, Running, Continue, Proceed, tokenVars, waitVars
<1>2. TokenTypeOK'
  BY <1>1 DEF TokenTypeOK
<1>3. Going /\ Going' /\ ProvenStage' = ProvenStage
  BY <1>1, ProvenFacts DEF Going
<1>4. WaitFollows'
  BY <1>1, <1>3, ZenonT(30) DEF TokenInv, WaitFollows
<1>5. Waited'
  BY <1>1, ZenonT(30) DEF Waited
<1>6. TokenOnce'
  <2>1. CASE Here = "token" /\ task = "wait" /\ task' = "save" /\ UNCHANGED step
    <3>1. Here' = "token"
      BY <1>1, <2>1 DEF Here
    <3> QED BY <1>1, <2>1, <3>1, ZenonT(30) DEF TokenInv, TokenOnce
  <2>2. CASE Here = "wait" /\ task' = "begin" /\ step' = step + 1
    <3>1. message => \A j \in step + 1 .. Len(Steps(route, sustained)) : Steps(route, sustained)[j] # "token"
      BY <1>1, ZenonT(30) DEF TokenInv, TokenOnce
    <3>2. message => /\ Here' # "token"
                     /\ \A j \in step' + 1 .. Len(Steps(route', sustained')) : Steps(route', sustained')[j] # "token"
      BY <1>1, <2>2, <3>1, NextPlace
    <3> QED BY <1>1, <2>2, <3>2, ZenonT(30) DEF TokenOnce
  <2> QED BY <1>1, <2>1, <2>2, ZenonT(30)
<1>7. CachedHasArrived'
  <2>1. Grows
    BY <1>1, StandsGrows, ZenonT(30)
  <2> QED BY <1>1, <1>3, <2>1, CachedKept, ZenonT(30) DEF TokenInv
<1> QED BY <1>2, <1>4, <1>5, <1>6, <1>7, ZenonT(30) DEF TokenInv

\* The message goes on and leaves the wait behind.
LEMMA HubKeepsTokens ==
  ASSUME RunTypeOK, TokenTypeOK, TokenInv, Hub
  PROVE  TokenTypeOK' /\ TokenInv'
<1>1. PICK t \in DOMAIN remote : Relay(t)
  BY DEF Hub
<1>2. /\ UNCHANGED <<setting, route, sustained, explicit, step, task, status>>
      /\ UNCHANGED <<itsCache, token, origin, message, phase, missing>>
  BY <1>1 DEF Hub, Relay, runVars, tokenVars, waitVars
<1>3. Grows /\ Len(remote') = Len(remote)
  BY <1>1, RelayGrows, ZenonT(30)
<1>4. TokenTypeOK'
  BY <1>2, <1>3 DEF TokenTypeOK, Grows
<1>5. Here' = Here /\ Going' = Going /\ WaitAhead' = WaitAhead
  BY <1>2 DEF Here, Going, WaitAhead
<1>6. TokenOnce' /\ Waited'
  <2>1. TokenOnce'
    BY <1>2, <1>5, ZenonT(30) DEF TokenInv, TokenOnce
  <2>2. Waited'
    BY <1>2, <1>5, ZenonT(30) DEF TokenInv, Waited
  <2> QED BY <2>1, <2>2
<1>7. CachedHasArrived'
  BY <1>2, <1>3, <1>5, CachedKept, ZenonT(30) DEF TokenInv
<1>8. WaitFollows'
  <2>1. CASE Going /\ message
    <3>1. /\ ProvenStage' = ProvenStage /\ ProvenStage \in Nat
      BY <1>2, ProvenFacts, ZenonT(30)
    <3>2. token # 0 /\ remote[token] >= Requested /\ PhaseFollows(phase, remote[token])
      BY <2>1, ZenonT(30) DEF TokenInv, WaitFollows, PhaseFollows
    <3>3. /\ remote[token] \in Nat /\ remote'[token] \in Nat /\ remote'[token] >= remote[token]
      <4>1. token \in 0 .. Len(remote) /\ Len(remote) \in Nat
        BY DEF TokenTypeOK
      <4>2. token \in 1 .. Len(remote)
        BY <3>2, <4>1
      <4> QED BY <1>3, <4>2, Stages, ZenonT(30) DEF Grows
    <3>4. remote'[token] >= Requested /\ PhaseFollows(phase, remote'[token])
      BY <3>1, <3>2, <3>3 DEF PhaseFollows, Requested, OnHub, Forwarded, Routed
    <3> QED BY <1>2, <2>1, <3>1, <3>2, <3>4, ZenonT(30) DEF PhaseFollows, WaitFollows
  <2>2. CASE ~(Going /\ message)
    BY <1>2, <1>5, <2>2, ZenonT(30) DEF TokenInv, WaitFollows
  <2> QED BY <2>1, <2>2
<1> QED BY <1>4, <1>6, <1>7, <1>8, ZenonT(30) DEF TokenInv

\* Every step keeps what the run knows of its token true.
LEMMA TokenInvNext ==
  ASSUME RunTypeOK, TokenTypeOK, TokenInv, [Next]_vars
  PROVE  TokenTypeOK' /\ TokenInv'
<1>1. CASE Crash \/ Check \/ CheckBurst \/ CheckGateway \/ Spend \/ Send
  BY <1>1, PlainMoves, TokensUntouched, ZenonT(30)
<1>2. CASE ReceiverNext
  BY <1>2, ReceiverMoves, TokensUntouched, ZenonT(30)
<1>3. CASE Ended \/ UNCHANGED vars
  <2>1. Moves /\ Stands /\ UNCHANGED <<tokenVars, remote, waitVars>>
    BY <1>3 DEF Ended, vars, runVars, Moves, Stands
  <2> QED BY <2>1, TokensUntouched, ZenonT(30)
<1>4. CASE WaitFails
  <2>1. Moves
    BY <1>4, TokenMoves, ZenonT(30) DEF TokenNext
  <2>2. Halts /\ UNCHANGED <<tokenVars, remote, waitVars>>
    BY <1>4 DEF WaitFails, Waiting, At, Running, Fail, Halts
  <2> QED BY <2>1, <2>2, TokensUntouched, ZenonT(30)
<1>5. CASE TokenNext /\ ~WaitFails
  BY <1>5, ResolveKeepsTokens, LocalKeepsTokens, RemoteKeepsTokens, SaveKeepsTokens,
     WaitKeepsTokens, WaitEndsKeepsTokens, ZenonT(30) DEF TokenNext
<1> QED BY <1>1, <1>2, <1>3, <1>4, <1>5, StartKeepsTokens, HubKeepsTokens, ZenonT(30) DEF Next

-----------------------------------------------------------------------------
(* What a setup never does.                                                  *)

SetupInv == RunTypeOK /\ TokenTypeOK /\ SpentLate /\ ReceiverInv /\ SendsLast /\ TokenInv

\* The invariant holds before the first run.
LEMMA SetupInvInit ==
  ASSUME Init
  PROVE  SetupInv
<1>1. /\ setting \in Settings /\ (setting.legacy => setting.dst = "evm") /\ route \in Eligible
      /\ explicit = 0 /\ step = 1 /\ task = "begin" /\ status = "idle" /\ spent = FALSE /\ runs = 0
      /\ gateway = [s \in Sides |-> 1] /\ receivers = <<>>
      /\ overlay = [s \in Sides |-> 0] /\ cached = [s \in Sides |-> 0]
      /\ using = [s \in Sides |-> 0] /\ fresh = {}
      /\ empty = [k \in Slots |-> 0] /\ unparsed = FALSE /\ sustained = FALSE
      /\ itsCache = [n \in Names |-> 0] /\ token = 0 /\ origin = "none" /\ message = FALSE
      /\ remote \in {<<0>>, <<Deployed>>} /\ phase = "HubApproved" /\ missing = 0
  BY DEF Init
<1>2. RunTypeOK
  <2>1. route \in SupportedRoutes
    BY <1>1, SetupAssumption DEF Eligible
  <2>2. 1 \in 1 .. Len(Steps(route, sustained))
    <3>1. sustained \in BOOLEAN
      BY <1>1, ZenonT(30)
    <3> QED BY <2>1, <3>1, RouteSteps DEF WellOrdered
  <2>3. 0 \in 0 .. MaxRuns
    BY Bounds
  <2> QED BY <1>1, <2>2, <2>3, ZenonT(30) DEF RunTypeOK, Tasks
<1>3. TokenTypeOK
  <2>1. remote \in Seq(0 .. 6) /\ Len(remote) = 1
    <3>1. <<0>> \in Seq(0 .. 6) /\ <<6>> \in Seq(0 .. 6) /\ Len(<<0>>) = 1 /\ Len(<<6>>) = 1
      OBVIOUS
    <3>2. remote = <<0>> \/ remote = <<6>>
      BY <1>1 DEF Deployed
    <3> QED BY <3>1, <3>2, ZenonT(30)
  <2>2. /\ explicit \in 0 .. Len(remote) /\ itsCache \in [Names -> 0 .. Len(remote)]
        /\ token \in 0 .. Len(remote)
    BY <1>1, <2>1
  <2>3. origin \in Origins /\ phase \in WaitPhases /\ message \in BOOLEAN /\ missing \in Nat
    BY <1>1, ZenonT(30) DEF Origins, WaitPhases
  <2>4. remote \in Seq(0 .. Deployed) /\ Len(remote) >= 1
    BY <2>1 DEF Deployed
  <2> QED BY <2>2, <2>3, <2>4, ZenonT(30) DEF TokenTypeOK
<1>4. SpentLate /\ SendsLast
  BY <1>1 DEF SpentLate, SendsLast
<1>5. ReceiverInv
  <2>1. receivers \in Seq(0 .. 2) /\ Len(receivers) = 0
    BY <1>1
  <2>2. /\ overlay \in [Sides -> 0 .. Len(receivers)] /\ cached \in [Sides -> 0 .. Len(receivers)]
        /\ using \in [Sides -> 0 .. Len(receivers)] /\ gateway \in [Sides -> {1, 2}]
        /\ empty \in [Slots -> 0 .. Attempts]
    BY <1>1, <2>1, Bounds
  <2>3. ReceiverTypeOK
    BY <1>1, <2>1, <2>2, ZenonT(30) DEF ReceiverTypeOK
  <2>4. LiveReceiverUsed /\ Search
    BY <1>1 DEF LiveReceiverUsed, Search, Running
  <2> QED BY <2>3, <2>4 DEF ReceiverInv
<1>6. TokenInv
  BY <1>1 DEF TokenInv, WaitFollows, TokenOnce, Waited, CachedHasArrived, Going
<1> QED BY <1>2, <1>3, <1>4, <1>5, <1>6, ZenonT(30) DEF SetupInv

\* The inductive invariant of a setup: the run is within the steps of its route, and what it
\* spent, found and waited for is as the code has it at that place.
THEOREM SetupInvariant == Spec => []SetupInv
<1>1. Init => SetupInv
  BY SetupInvInit
<1>2. SetupInv /\ [Next]_vars => SetupInv'
  BY RunTypeNext, SpentNext, ReceiverInvNext, SendsLastNext, TokenInvNext, ZenonT(30) DEF SetupInv
<1> QED BY <1>1, <1>2, PTL DEF Spec

\* On every one of the 27 routes, in either mode, a run that one of its checks refuses has
\* paid for nothing, unless the check is one the route makes late (LateChecks): the mode, the
\* endpoints, the contracts of the verification and a linked token never are.
THEOREM SpendsNothingRefused == Spec => []RefusedBeforeSpending
<1>1. SetupInv => RefusedBeforeSpending
  <2> SUFFICES ASSUME SetupInv, spent, Here \in Refusals PROVE Here \in LateChecks(route)
    BY DEF RefusedBeforeSpending, Refusals
  <2>1. step \in step .. Len(Steps(route, sustained))
    BY DEF SetupInv, RunTypeOK
  <2>2. Unrefused(step)
    BY <2>1, ZenonT(30) DEF SetupInv, SpentLate
  <2> QED BY <2>2, ZenonT(30) DEF Unrefused, Here
<1> QED BY <1>1, SetupInvariant, PTL

\* deploy_or_reuse_sender_receiver settles on a receiver that is wired to the configured
\* gateway, or on one whose deployment reverted in the same run.
THEOREM ReceiverIsLive == Spec => []LiveReceiverUsed
<1>1. SetupInv => LiveReceiverUsed
  BY DEF SetupInv, ReceiverInv
<1> QED BY <1>1, SetupInvariant, PTL

\* deploy_or_reuse_sender_receiver deploys no second receiver, and replaces none in the
\* cache, while one that is recorded is live, for any number of attempts to read it: unless
\* every attempt came back empty, or the overlay that names it does not parse.
THEOREM ReceiverNotRedeployed == Spec => []LiveReceiverNotRedeployed
<1>1. SetupInv => LiveReceiverNotRedeployed
  <2> SUFFICES ASSUME SetupInv, NEW side \in Sides, NEW slot \in Slots,
                      Running(ReceiverStep(side)), task \in {"deploy", "save"}
               PROVE  PassedOver(side, slot)
    BY DEF LiveReceiverNotRedeployed, PassedOver
  <2>1. PassedOver(side, "overlay") /\ PassedOver(side, "cached")
    BY DEF SetupInv, ReceiverInv, Search, SearchAt
  <2> QED BY <2>1 DEF Slots
<1> QED BY <1>1, SetupInvariant, PTL

\* A run that waited, or that took a cached token where one is saved only after the wait or
\* looked up again, sends a token whose deployment has come as far as its wait proves.
THEOREM SentTokenHasArrived == Spec => []TokenHasArrived
<1>1. SetupInv => TokenHasArrived
  <2> SUFFICES ASSUME SetupInv, status = "sending",
                      message \/ (origin = "cached" /\ (setting.src # "evm" \/ setting.dst = "stellar"))
               PROVE  remote[token] >= ProvenStage
    BY DEF TokenHasArrived
  <2>1. RunTypeOK /\ TokenInv /\ Here = "send" /\ Going
    BY ZenonT(30) DEF SetupInv, SendsLast, Going
  <2>2. CASE message
    <3>1. ~WaitAhead
      BY <2>1, WaitPlace, ZenonT(30)
    <3>2. phase = "Done"
      BY <2>1, <2>2, <3>1, ZenonT(30) DEF TokenInv, Waited
    <3> QED BY <2>1, <2>2, <3>2, ZenonT(30) DEF TokenInv, WaitFollows
  <2>3. CASE origin = "cached" /\ (setting.src # "evm" \/ setting.dst = "stellar")
    BY <2>1, <2>3, ZenonT(30) DEF TokenInv, CachedHasArrived
  <2> QED BY <2>2, <2>3
<1> QED BY <1>1, SetupInvariant, PTL
==============================================================================
