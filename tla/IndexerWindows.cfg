SPECIFICATION Spec
CONSTANTS
  None = None
  RMinBps = 2
  GracePeriod = 1
  Ratios = {1, 2}
  Losses = {1, 2}
  Cids = {"cid"}
  FailureModes = {"rejected"}
  MaxTime = 3
  MaxPolls = 6
  MaxFailures = 1
  MaxCrashes = 1
PROPERTY
  ImplementsDepegWindows
CHECK_DEADLOCK FALSE
VIEW ReaderView
