SPECIFICATION PoolSpec
CONSTANTS
  genesis = genesis
  rivalA = rivalA
  rivalB = rivalB
  high = high
  Blocks <- MCBlocks
  HeightOf <- MCHeightOf
  Heights <- MCHeights
  Genesis = genesis
  CounterWrap = 8
  Nonces = {n1}
  Good = {good}
  Times = {t1, t2}
  Bad = {}
  MaxJobs = 3
  MaxShares = 2
  Daemons = {d1}
  DaemonsRefuse = FALSE
  MaxFlight = 1
  MaxReorgs = 0
INVARIANT
  RoundsKeepShares
