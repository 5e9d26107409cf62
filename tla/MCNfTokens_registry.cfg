CONSTANTS
  p = p
  t = t
  MaxBlock = 3
  Proto = {p}
  Token = {t}
  ProtoOf <- MCProtoOf
  AllTokens = AllTokens
  AllProtocols = AllProtocols
  TxLists <- MCLists
  Payable = {TRUE, FALSE}
  TX_CONFIRMATIONS_NUM = 1
  CheckBlocks = 3
  MaxCrashes = 2
SPECIFICATION Spec
INVARIANTS
  TypeOK
  ActiveItemsKnown
  DatabaseInMemory
  SupplyCoversChain
  RecordExact
  CountersExact
  DecisionsFollowChain
CHECK_DEADLOCK FALSE
