SPECIFICATION BacktestSpec
CONSTANTS
  None = None
  RMinBps = 2
  GracePeriod = 1
  Ratios = {1, 2}
  Losses = {1, 2}
  Cids = {"cid"}
  FailureModes = {}
  MaxTime = 2
  MaxPolls = 3
  MaxFailures = 0
  MaxCrashes = 0
  FromBlock = 0
  ToBlock = 2
  Step = 1
  SimFailureModes = {"rejected", "ack_lost"}
INVARIANTS
  RowsEvidenced
PROPERTIES
  BacktestLeavesResolved
CHECK_DEADLOCK FALSE
VIEW ScriptView
