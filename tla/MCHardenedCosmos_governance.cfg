SPECIFICATION Spec
CONSTANTS
    inst = inst
    pay = pay
    Keys = {inst, pay}
    Foreign = foreign
    Rank <- KeyRank
    Steps <- GovSteps
    Fees = {1}
    NewFees = {2}
    Budget = 3
    MaxBlocks = 3
    MaxForeign = 1
    MaxRejected = 1
INVARIANTS
    ExecutedOnce
    FeesWithinBudget
    WaitedForPassed
