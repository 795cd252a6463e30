SPECIFICATION RelayFairSpec
CONSTANTS
    Batch <- Mixed
    MaxFailures = 1
    MaxFlips = 1
INVARIANTS
    SettledIsNotReplayed
    AcceptedDoneIsSettled
PROPERTIES
    Completes
