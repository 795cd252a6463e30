SPECIFICATION Spec
CONSTANTS
    t1 = t1
    t2 = t2
    Txs <- TwoTxs
    Routes <- StreamedRoutes
SYMMETRY Symmetry
INVARIANTS
    ConfirmedIsVerified
CHECK_DEADLOCK FALSE
