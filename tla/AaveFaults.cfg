SPECIFICATION Spec
CONSTANTS
  None = None
  Deviations = {0, 2}
  Threshold = 2
  Lookback = 2
  FailureModes = {"rejected", "ack_lost"}
  MaxLag = 1
  MaxHead = 4
  MaxLiquidations = 2
  MaxFailures = 1
  MaxCrashes = 1
INVARIANTS
  TypeOK
  WebhooksBacked
  RecordedOncePerRisk
  CountNeverExceedsRows
  SeverityWitnessed
PROPERTIES
  WindowsMoveForward
CHECK_DEADLOCK FALSE
