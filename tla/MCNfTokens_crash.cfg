CONSTANTS
  p = p
  t = t
  MaxBlock = 3
  Proto = {p}
  Token = {t}
  ProtoOf <- MCProtoOf
  AllTokens = AllTokens
  AllProtocols = AllProtocols
  TxLists <- MCSingle
  Payable = {TRUE}
  TX_CONFIRMATIONS_NUM = 1
  CheckBlocks = 3
  MaxCrashes = 1
SPECIFICATION Spec
INVARIANT
  RefusalsFollowChain
CHECK_DEADLOCK FALSE
