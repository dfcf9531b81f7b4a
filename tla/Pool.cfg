SPECIFICATION PoolSpec
CONSTANTS
  genesis = genesis
  rivalA = rivalA
  rivalB = rivalB
  high = high
  Blocks <- MCBlocks
  HeightOf <- MCHeightOf
  Heights <- MCHeights
  Genesis = genesis
  CounterWrap = 3
  Nonces = {n1}
  Good = {good}
  Times = {t1, t2}
  Bad = {bad}
  MaxJobs = 3
  MaxShares = 2
  Daemons = {d1, d2}
  DaemonsRefuse = TRUE
  MaxFlight = 1
  MaxReorgs = 1
INVARIANTS
  PoolTypeOK
  ShareInOneRound
  CountedWasAccepted
  PendingWasMined
  OnHighestSeen
  NumberStandsForJob
  CreditedOnce
PROPERTIES
  KeepsLedger
SYMMETRY MCSymmetry
