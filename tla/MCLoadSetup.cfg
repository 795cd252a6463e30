SPECIFICATION Spec
CONSTANTS
  Routes <- SupportedRoutes
  MaxRuns = 3
  MaxReceivers = 3
  MaxTokens = 3
  Attempts = 2
  NotFoundLimit = 2
INVARIANTS
  
  LiveReceiverUsed
  LiveReceiverNotRedeployed
  TokenHasArrived
