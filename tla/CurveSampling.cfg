SPECIFICATION Spec
CONSTANTS
  None = None
  PoolStates <- Pools
  Decimals0 = 1
  Decimals1 = 0
  BaseTokenDecimals = 0
  MaxRetries = 2
  Signatures = 2
  MaxSamples = 2
  Horizon = 1
  MaxBlocks = 3
  MaxFetches = 3
INVARIANTS
  TwapIsWindowAverage
  SampleOfItsSpan
PROPERTIES
  FetchEnds
CHECK_DEADLOCK FALSE
