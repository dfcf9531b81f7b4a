SPECIFICATION SolversSpec
CONSTANTS
  K = 3
  RestSize = 2
  NBUCKETS = 2
  NHASHES = 9
  XorDigits <- MCXorDigits
  NSLOTS = 5
  MAXSOLS = 1
  Inputs <- MCInputs
  CudaNSLOTS = 6
  CudaMAXSOLS = 2
  CudaInputs <- MCCudaInputs
  DeviceMemory <- MCDeviceMemory
  MaxSolves = 2
INVARIANTS
  SolversTypeOK
  ReportsAreAccepted
  SolversFindAll
  EachRoundReadsItsDigit
  TagsAreKept
CHECK_DEADLOCK FALSE
