SPECIFICATION Spec
CONSTANTS
  None = None
  Requests = {r1, r2}
  Policies = {p1}
  AskedRisks = {1, 2}
  Kinds = {"sign"}
  MaxInFlight = 2
  InsertModes = {"rejected", "ack_lost"}
  MaxSecond = 1
  InsuredAmount = 9
  CoverageCap = 10
  KBps = 20000
  DeductibleBps = 0
INVARIANTS
  NonceUnique
CHECK_DEADLOCK FALSE
