SPECIFICATION Spec
CONSTANTS
  Cases <- DistinctCases
  MaxRuns = 3
  FaucetAmount = 9
  Gas = 3
  Fee = 1
  MinKey = 3
  TargetKey = 5
  Reserve = 1
  Shares = 2
  Width = 2
INVARIANTS
  KeysCanPay
  NoKeyOverfunded
  FailuresStayWithTheirKey
  GreenMeansExecuted
