SPECIFICATION Spec
CONSTANTS
  Chains = {sepolia, mainnet}
  PayoutChains = {sepolia}
  PolicyIds = {p1, p2}
  Owners = {o1, o2}
  RiskIds = {k1, k2}
  Amounts = {1}
  LastDay = 1
  MaxEvents = 6
INVARIANTS
  TypeOK
  ActiveCountsAgree
  MintsAgree
  PayoutsAgree
  ReserveDaysAgree
CHECK_DEADLOCK FALSE
SYMMETRY Symmetry
