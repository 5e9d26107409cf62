CONSTANTS
  MaxBlock = 4
  InitHeight = 1
  Slot = {s1}
  NoPointer = NoPointer
  Work = {1}
  PoSStartHeight = 2
  ValidStakePointerDuration = 3
  MaxReorganizationDepth = 1
  Interventions = {}
  MaxInterventions = 0
  ReprocessDepth = {}
  Hash <- MCHash
  Address <- MCAddress
  WriteModes = {"full"}
  MaxCrashes = 1
  CheckDepth = {}
SPECIFICATION RestartSpec
INVARIANT StakePointerUsedOnce
CHECK_DEADLOCK FALSE
