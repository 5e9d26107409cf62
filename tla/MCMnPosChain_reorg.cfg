CONSTANTS
  MaxBlock = 5
  InitHeight = 1
  Slot = {s1, s2}
  NoPointer = NoPointer
  Work = {1}
  PoSStartHeight = 2
  ValidStakePointerDuration = 2
  MaxReorganizationDepth = 1
  Interventions = {}
  MaxInterventions = 0
  ReprocessDepth = {}
SPECIFICATION Spec
INVARIANT StakePointerUsedOnce
PROPERTY ReorgWithinPointerWindow
