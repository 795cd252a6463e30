SPECIFICATION Spec
CONSTANTS
    probe = probe
    call = call
    impl = impl
    proxy = proxy
    Keys = {probe, call}
    Foreign = foreign
    MaxHead = 2
    MaxReorgs = 1
    MaxForeign = 0
    MaxDrops = 0
    Steps <- TwoSteps
    Rank <- TwoRank
    Creates = {probe}
    SafeCreates = {probe}
    Pinned = {}
    PinOffset <- NoOffset
    PredictStep = 0
    Checkpoint = 0
    Policies = {1}
    Fees = {1}
    Budget = 3
INVARIANTS
    AtMostOnce
    SentIsJournaled
    SpendWithinBudget
PROPERTIES
    SignedIsKept
    NonceIsKept
