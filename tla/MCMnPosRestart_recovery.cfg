CONSTANTS
  MaxBlock = 4
  InitHeight = 1
  Slot = {s1}
  NoPointer = NoPointer
  Work = {1}
  PoSStartHeight = 2
  ValidStakePointerDuration = 3
  MaxReorganizationDepth = 1
  Interventions = {"refuse", "verify"}
  MaxInterventions = 1
  ReprocessDepth = {}
  Hash <- MCHash
  Address <- MCAddress
  WriteModes = {"index", "full", "partial"}
  MaxCrashes = 1
  CheckDepth = {0, 1}
SPECIFICATION RestartSpec
INVARIANTS
  RestartTypeOK
  CoinsWithinIndex
  UsedMapSound
  CleanEntriesOnDisk
  ActiveStakeSourcesMature
  BestChainAfterRestart
CHECK_DEADLOCK FALSE
