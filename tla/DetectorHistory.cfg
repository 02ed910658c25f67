SPECIFICATION Spec
CONSTANTS
  RMinBps = 2
  GracePeriod = 2
  None = None
  Times = {1, 2, 3, 4}
  Ratios = {1, 2}
  MaxSamples = 5
INVARIANTS
  TypeOK
  ActiveIffSustained
  StartsAreRunStarts
  EndsCloseSustainedRuns
CHECK_DEADLOCK FALSE
