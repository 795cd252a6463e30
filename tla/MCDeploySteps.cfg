SPECIFICATION Spec
CONSTANTS
    OperatorSeq <- MCOperatorSeq
    Worlds <- MCWorlds
    MaxFaults = 2
    Deposit = 2
    Reward = 1
INVARIANTS
    GatewayIsTheApproved
    BuildMatchesFingerprint
    NeverStuck
    CompleteIsWired
PROPERTIES
    Implements
    DeploymentCompletes
