SPECIFICATION ValidatorSpec
CONSTANTS
  None = None
  RMinBps = 2
  GracePeriod = 1
  Ratios = {1, 2}
  Losses = {1000, 8000}
  Cids = {"cid"}
  FailureModes = {"ack_lost"}
  MaxTime = 2
  MaxPolls = 4
  MaxFailures = 1
  MaxCrashes = 1
  Requests = {r1}
  ApiKinds = {"list", "detail", "health"}
  PageLimit = 1
  Ties = {3}
INVARIANTS
  PreviewCoversHistory
  SettledPreviewsComplete
  ListedOnce
  ListedAll
  
  HealthCoherent
CHECK_DEADLOCK FALSE
VIEW TablesView
CONSTRAINT UntilAnswered
