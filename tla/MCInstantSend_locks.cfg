SPECIFICATION Spec
CONSTANTS
  t1 = t1
  t2 = t2
  o1 = o1
  o2 = o2
  m1 = m1
  m2 = m2
  Tx = {t1, t2}
  Outpoint = {o1, o2}
  Masternode = {m1, m2}
  NoTx = NoTx
  Inputs <- MCInputs
  TxHeight <- MCTxHeight
  Height = {1, 2}
  Top <- MCTop
  Self = m2
  INSTANTX_SIGNATURES_REQUIRED = 1
  LockDuration = 0
  m_acceptedBlockCount = 1
  ReprocessDepth = 1
  MaxBlocks = 3
  MaxVotes <- MCMaxVotes
INVARIANTS
  TypeOK
  RequestKnown
  SignaturesRanked
PROPERTY
  RejectedLockEnforced
