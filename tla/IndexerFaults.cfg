SPECIFICATION FairSpec
CONSTANTS
  None = None
  RMinBps = 2
  GracePeriod = 1
  Ratios = {1, 2}
  Losses = {1, 2}
  Cids = {"", "cid"}
  FailureModes = {"rejected", "ack_lost"}
  MaxTime = 2
  MaxPolls = 5
  MaxFailures = 1
  MaxCrashes = 1
INVARIANTS
  TypeOK
  VersionsNeverReused
  SnapshotBeforeEvent
  SeverityWitnessed
  WindowEndpointsEvidenced
  AnchorsFollowRows
  AtMostOneAnchor
  WindowTracksBreach
  NoRecoveryInsideWindow
PROPERTIES
  RecoveryRecorded
CHECK_DEADLOCK FALSE
