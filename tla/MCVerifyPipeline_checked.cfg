SPECIFICATION FairSpec
CONSTANTS
    t1 = t1
    t2 = t2
    Txs <- TwoTxs
    Routes <- CheckedRoutes
INVARIANTS
    SucceededIsExecuted
    ReportIsComplete
PROPERTIES
    VerdictIsFinal
    Terminates
CHECK_DEADLOCK FALSE
