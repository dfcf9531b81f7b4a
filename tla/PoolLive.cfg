SPECIFICATION PoolFairSpec
CONSTANTS
  genesis = genesis
  rivalA = rivalA
  rivalB = rivalB
  high = high
  Blocks <- MCBlocks
  HeightOf <- MCHeightOf
  Heights <- MCHeights
  Genesis = genesis
  CounterWrap = 8
  Nonces = {n1}
  Good = {good}
  Times = {t1, t2}
  Bad = {}
  MaxJobs = 6
  MaxShares = 1
  Daemons = {d1, d2}
  DaemonsRefuse = FALSE
  MaxFlight = 1
  MaxReorgs = 1
PROPERTIES
  SettlesOnTip
  CreditedIsRecorded
