SPECIFICATION FairSpec
CONSTANTS
  f1 = f1
  f2 = f2
  miner = miner
  rogue = rogue
  shared = shared
  Forks = {f1, f2}
  Clients = {miner, rogue}
  Addresses = {shared}
  AddressOf <- MCAddressOf
  Honest = {miner}
  Threshold = 1
  InvalidPercent = 50
  BanTime = 2
  MaxShares = 2
  MaxChunk = 2
  MaxBans = 2
  MaxCrashes = 1
INVARIANTS
  ServerTypeOK
  BanKnown
PROPERTY HonestReturns
