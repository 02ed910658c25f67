SPECIFICATION Spec
CONSTANTS
  None = None
  Requests = {r1, r2, r3}
  Policies = {p1, p2}
  AskedRisks = {1, 2}
  Kinds = {"preview", "sign"}
  MaxInFlight = 1
  InsertModes = {"rejected", "ack_lost"}
  MaxSecond = 1
  InsuredAmount = 9
  CoverageCap = 10
  KBps = 20000
  DeductibleBps = 0
INVARIANTS
  TypeOK
  SignedNonceRecorded
  NoncesIncrease
CHECK_DEADLOCK FALSE
