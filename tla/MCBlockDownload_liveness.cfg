SPECIFICATION FairSpec
CONSTANTS
  p1 = p1
  p2 = p2
  Peer = {p1, p2}
  NoPeer = NoPeer
  Block <- MCBlockLine
  Genesis = 0
  Chain <- MCChainLine
  StakeHash <- MCOwnStake
  StartTip <- MCGenesis
  FinalTip <- MCSame
  Masternode = {m1}
  STAKE_REPACKAGE_THRESHOLD = 1
  REQUIRED_WITNESS_SIGS = 1
  MAX_BLOCKS_IN_TRANSIT_PER_PEER = 1
  MaxReorganizationDepth = 3
  SlowPeers = FALSE
  OtherVersions = {}
PROPERTY
  BlocksArrive
