SPECIFICATION Spec
CONSTANTS
  first = first
  rival = rival
  next = next
  key = key
  address = address
  other = other
  Blocks <- MCBlocks
  HeightOf <- MCHeightOf
  Workers <- MCWorkers
  AddressOf <- MCAddressOf
  Difficulties = {2, 3}
  Unit = 2
  BlockReward = 4
  MinPayment = 2
  Parts = 2
  MaxRecorded = 5
  Runs = {r1, r2}
  MaxFaults = 1
INVARIANTS
  PaymentsTypeOK
  NeverUnderpaid
  PaidWithinRewards
  SharesConserved
  RoundKept
SYMMETRY MCSymmetry
CHECK_DEADLOCK FALSE
