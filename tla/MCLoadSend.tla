------------------------------ MODULE MCLoadSend ------------------------------
EXTENDS LoadSend

\* A single key, bursts wider than the window, a last cycle that is cut short, two
\* keys that fire every second, and the main wallet firing every second.
SmallPlans ==
    {BurstPlan(1), BurstPlan(3), SustainedPlan(1, 5, 2), SustainedPlan(2, 2, 1),
     SustainedPlan(1, 3, 1)}

Possible == {c \in SupportedRoutes \X SmallPlans : Runs(c[1], c[2])}

\* All a run depends on: routes that agree on it behave alike, so one of them is
\* enough.
Profile(c) ==
    <<c[2], c[1][1], c[1][2], c[1][3] = "sui", Pipeline(c[1], c[2]), Budget(c[1], c[2]),
      Share(c[1], c[2]), Confirms(c[1]), Derives(c[1], c[2], FALSE),
      AsksForHedera(c[1], c[2]), c[1][1] = "gmp" /\ c[1][3] = "evm",
      "approve" \in Range(Steps(c[1], c[2].mode = "sustained"))>>
DistinctCases ==
    {CHOOSE c \in Possible : Profile(c) = p : p \in {Profile(c) : c \in Possible}}
=============================================================================
