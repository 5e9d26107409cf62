CONSTANTS
  MaxBlock = 4
  InitHeight = 1
  Slot = {s1}
  NoPointer = NoPointer
  Work = {1}
  PoSStartHeight = 2
  ValidStakePointerDuration = 3
  MaxReorganizationDepth = 1
  Interventions = {"refuse", "invalidate", "reprocess"}
  MaxInterventions = 2
  ReprocessDepth = {0}
SPECIFICATION FairSpec
INVARIANT BestChainActive
PROPERTY BetterBlockIsActivated
