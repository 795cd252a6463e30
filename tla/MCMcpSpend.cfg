SPECIFICATION Spec
CONSTANTS
    Servers = {s1, s2}
    Calls = {c1, c2}
    Amounts = {3}
    MaxTxsPerRun = 3
    MaxTxsTotal = 4
    MaxInFlight = 2
    MaxStarts = 2
    MaxTroubles = 1
    Nobody = nobody
    Unreadable = unreadable
SYMMETRY Symmetry
CHECK_DEADLOCK FALSE
INVARIANTS
    OneSpender
    CapHolds
    BudgetHolds
    ExitKeepsRuns
