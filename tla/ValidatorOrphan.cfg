SPECIFICATION ValidatorSpec
CONSTANTS
  None = None
  RMinBps = 2
  GracePeriod = 1
  Ratios = {1, 2}
  Losses = {1000, 8000}
  Cids = {"cid"}
  FailureModes = {}
  MaxTime = 3
  MaxPolls = 4
  MaxFailures = 0
  MaxCrashes = 1
  Requests = {r1}
  ApiKinds = {}
  PageLimit = 1
  Ties = {}
INVARIANTS
  LossesDuringWindow
CHECK_DEADLOCK FALSE
