SPECIFICATION Spec
CONSTANTS
  p1 = p1
  p2 = p2
  Peer = {p1, p2, p3}
  NoPeer = NoPeer
  Block <- MCBlock
  Genesis = 0
  Chain <- MCChain
  StakeHash <- MCSharedStake
  StartTip <- MCAhead
  FinalTip <- MCFork
  Masternode = {m1}
  STAKE_REPACKAGE_THRESHOLD = 1
  REQUIRED_WITNESS_SIGS = 1
  MAX_BLOCKS_IN_TRANSIT_PER_PEER = 1
  MaxReorganizationDepth = 1
  SlowPeers = TRUE
  OtherVersions = {p3}
INVARIANT
  TypeOK
  InFlightConsistent
  RepackageLimited
