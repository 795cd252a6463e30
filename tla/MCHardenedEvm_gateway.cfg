SPECIFICATION Spec
CONSTANTS
    probe = probe
    call = call
    impl = impl
    proxy = proxy
    Keys = {impl, proxy}
    Foreign = foreign
    MaxHead = 3
    MaxReorgs = 1
    MaxForeign = 1
    MaxDrops = 1
    Steps <- GatewaySteps
    Rank <- GatewayRank
    Creates = {impl, proxy}
    SafeCreates = {}
    Pinned = {impl, proxy}
    PinOffset <- GatewayOffset
    PredictStep = 1
    Checkpoint = 2
    Policies = {0}
    Fees = {1}
    Budget = 2
INVARIANTS
    GatewayAtPrediction
    CompletedIsFinal
