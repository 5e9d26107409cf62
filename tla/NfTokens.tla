------------------------------ MODULE NfTokens ------------------------------
(***************************************************************************)
(* The registry of NF token protocols and NF tokens (src/platform) beside  *)
(* the chain that registers them.  NftProtocolsManager and NfTokensManager *)
(* keep the registered items and their counters in memory; the platform    *)
(* database has a copy that ConnectTip and DisconnectTip commit at once,    *)
(* while the coins and the block index of the same block stay in memory    *)
(* until FlushStateToDisk.  A crash may come between the two; the start     *)
(* that follows loads both, verifies the last blocks (VerifyDB, level 4)   *)
(* and removes what it cannot place (CleanupDb).                           *)
(*                                                                         *)
(* Which chain is activated is the subject of MnPosChain: here any child    *)
(* of the tip may be connected and any tip disconnected.  A transaction     *)
(* registers one item, so that different items have different              *)
(* transactions, and the transaction stands for its item.  Both managers    *)
(* treat an item alike, as the speed optimised node (the default) does.     *)
(***************************************************************************)
EXTENDS Integers, Sequences, FiniteSets

CONSTANTS
  MaxBlock,               \* bound on the number of blocks above the genesis
  Proto,                  \* the NF token protocols
  Token,                  \* the NF tokens
  ProtoOf,                \* the protocol of each token
  AllTokens, AllProtocols,\* the counters that are not of a single protocol
  TxLists,                \* the lists of registrations a block may contain
  Payable,                \* whether blocks may fail after their registrations
  TX_CONFIRMATIONS_NUM,   \* depth of a protocol below the tokens that use it
  CheckBlocks,            \* how many blocks a start verifies (-checkblocks)
  MaxCrashes              \* bound on the number of crashes

Item    == Proto \cup Token
Counter == Proto \cup {AllTokens, AllProtocols}
Block   == 0 .. MaxBlock
NoBlock == -1

ASSUME NfTokensAssumption ==
  /\ MaxBlock \in Nat
  /\ Proto \cap Token = {} /\ IsFiniteSet(Token) /\ IsFiniteSet(Proto)
  /\ ProtoOf \in [Token -> Proto]
  /\ AllTokens \notin Item /\ AllProtocols \notin Item /\ AllTokens # AllProtocols
  /\ TxLists \subseteq Seq(Item)
  /\ Payable \subseteq BOOLEAN
  /\ TX_CONFIRMATIONS_NUM \in Nat \ {0}
  /\ CheckBlocks \in Nat
  /\ MaxCrashes \in Nat

VARIABLES
  nBlocks,        \* the blocks that exist are 0 .. nBlocks
  pprev,          \* the parent of each block,
  chain,          \* the blocks from the genesis to it,
  nHeight,        \* its height,
  vtx,            \* its registrations,
  payable,        \* and whether the checks after them succeed
  mapBlockIndex,  \* the blocks the node has an entry for
  failed,         \* those ConnectBlock refused (BLOCK_FAILED_VALID)
  tip,            \* chainActive.Tip()
  m_indexSet,     \* m_nftProtoIndexSet and m_nfTokensIndexSet
  m_totalSupply,  \* m_protocolsTotalSupply and m_totalProtocolsCount
  dbIndex,        \* the items in the platform database
  dbSupply,       \* and the counters there
  diskIndex,      \* the block index on disk,
  diskFailed,     \* its failed blocks
  diskBest,       \* and the best block of the coin database
  running,        \* FALSE from a crash to the end of the next start
  crashes,        \* number of crashes so far (a bound of the model)
  partlyApplied   \* history: a block left a trace without being connected

treeVars == <<nBlocks, pprev, chain, nHeight, vtx, payable>>
memVars  == <<mapBlockIndex, failed, tip, m_indexSet, m_totalSupply>>
dbVars   == <<dbIndex, dbSupply>>
diskVars == <<diskIndex, diskFailed, diskBest>>
vars     == <<treeVars, memVars, dbVars, diskVars, running, crashes, partlyApplied>>

Items(b)    == {vtx[b][j] : j \in DOMAIN vtx[b]}
ActiveChain == chain[tip]

-----------------------------------------------------------------------------
(* The counters.                                                           *)

\* The counters UpdateTotalSupply and AddNftProto step for an item.
CountedBy(i) == IF i \in Token THEN {ProtoOf[i], AllTokens} ELSE {AllProtocols}

Counted(S, c) == Cardinality({i \in S : c \in CountedBy(i)})

\* Mutant: the total of all tokens is only decremented.
MutantIncreased(supply, S) ==
  [c \in Counter |-> IF c = AllTokens THEN supply[c]
                    ELSE (IF c \in S THEN 0 ELSE supply[c]) + Counted(S, c)]

\* The counters after the items S were added: OnNewProtocolRegistered resets
\* the one of a new protocol.
Increased(supply, S) ==
  [c \in Counter |-> (IF c \in S THEN 0 ELSE supply[c]) + Counted(S, c)]

\* The counters after the items S were deleted.
Decreased(supply, S) == [c \in Counter |-> supply[c] - Counted(S, c)]

\* Mutant: the counters are kept in memory only.
MutantUnwritten(old, new, C) == old

\* WriteTotalSupply and WriteTotalProtocolCount, for the counters C.
Written(old, new, C) == [c \in Counter |-> IF c \in C THEN new[c] ELSE old[c]]

\* The counters that deleting the items S steps.
Stepped(S) == UNION {CountedBy(i) : i \in S}

-----------------------------------------------------------------------------
(* ConnectTip and DisconnectTip.                                           *)

\* Mutant: an item may be registered again.
MutantNoDuplicate(b, j) ==
  LET i == vtx[b][j] IN
  /\ \A l \in 1 .. j - 1 : vtx[b][l] # i
  /\ i \in Token =>
       LET proto == m_indexSet[ProtoOf[i]] IN
       proto # NoBlock /\ nHeight[b] - nHeight[proto] >= TX_CONFIRMATIONS_NUM

\* Mutant: a protocol must be one block deeper.
MutantDeeper(b, j) ==
  LET i == vtx[b][j] IN
  /\ m_indexSet[i] = NoBlock
  /\ \A l \in 1 .. j - 1 : vtx[b][l] # i
  /\ i \in Token =>
       LET proto == m_indexSet[ProtoOf[i]] IN
       proto # NoBlock /\ nHeight[b] - nHeight[proto] > TX_CONFIRMATIONS_NUM

\* CheckSpecialTx and ProcessSpecialTx accept the registration vtx[b][j], with
\* the ones before it added: the item is new (an item at a greater height is
\* not a duplicate to CheckTx but a conflict to AddNfToken), and the protocol
\* of a token is known and deep enough.  A protocol of the same block is not.
Accepts(b, j) ==
  LET i == vtx[b][j] IN
  /\ m_indexSet[i] = NoBlock
  /\ \A l \in 1 .. j - 1 : vtx[b][l] # i
  /\ i \in Token =>
       LET proto == m_indexSet[ProtoOf[i]] IN
       proto # NoBlock /\ nHeight[b] - nHeight[proto] >= TX_CONFIRMATIONS_NUM

\* The items ProcessSpecialTxsInBlock adds, up to the first it refuses.
Applied(b) ==
  {vtx[b][j] : j \in {k \in DOMAIN vtx[b] : \A l \in 1 .. k : Accepts(b, l)}}

\* ConnectBlock: all registrations are accepted, and so is the rest of the
\* block (its value, its scripts) afterwards.
Connects(b) == payable[b] /\ \A j \in DOMAIN vtx[b] : Accepts(b, j)

Connectable(b) ==
  running /\ b \in mapBlockIndex \ failed /\ b # 0 /\ pprev[b] = tip

AddItems(b) ==
  /\ m_indexSet' = [i \in Item |-> IF i \in Applied(b) THEN b ELSE m_indexSet[i]]
  /\ m_totalSupply' = Increased(m_totalSupply, Applied(b))

\* ConnectTip of a valid block.  The platform transaction is committed to disk.
ConnectTip(b) ==
  /\ Connectable(b) /\ Connects(b)
  /\ AddItems(b)
  /\ dbIndex' = [i \in Item |-> IF i \in Items(b) THEN b ELSE dbIndex[i]]
  /\ dbSupply' = Written(dbSupply, m_totalSupply', Stepped(Items(b)) \cup Items(b))
  /\ tip' = b
  /\ UNCHANGED <<treeVars, mapBlockIndex, failed, diskVars, running, crashes, partlyApplied>>

\* ConnectTip of a block that ConnectBlock refuses: the transaction of the
\* platform database is dropped, the items in memory stay.
RefuseBlock(b) ==
  /\ Connectable(b) /\ ~Connects(b)
  /\ AddItems(b)
  /\ failed' = failed \cup {b}
  /\ partlyApplied' = (partlyApplied \/ Applied(b) # {})
  /\ UNCHANGED <<treeVars, mapBlockIndex, tip, dbVars, diskVars, running, crashes>>

\* Delete finds the item, registered no higher than the block.
Deletable(m, i, b) == m[i] # NoBlock /\ nHeight[m[i]] <= nHeight[b]

\* Mutant: the items stay in the database.
MutantKeepRow ==
  /\ running /\ tip # 0
  /\ \A i \in Items(tip) : Deletable(m_indexSet, i, tip)
  /\ m_indexSet' = [i \in Item |-> IF i \in Items(tip) THEN NoBlock ELSE m_indexSet[i]]
  /\ m_totalSupply' = Decreased(m_totalSupply, Items(tip))
  /\ dbSupply' = Written(dbSupply, m_totalSupply', Stepped(Items(tip)))
  /\ tip' = pprev[tip]
  /\ UNCHANGED <<treeVars, mapBlockIndex, failed, dbIndex, diskVars, running, crashes,
                 partlyApplied>>

\* DisconnectTip, with UndoSpecialTxsInBlock.  Where an item cannot be deleted
\* the code reports an error and keeps the block; ActiveItemsKnown says that
\* this does not happen.
DisconnectTip ==
  /\ running /\ tip # 0
  /\ \A i \in Items(tip) : Deletable(m_indexSet, i, tip)
  /\ m_indexSet' = [i \in Item |-> IF i \in Items(tip) THEN NoBlock ELSE m_indexSet[i]]
  /\ m_totalSupply' = Decreased(m_totalSupply, Items(tip))
  /\ dbIndex' = [i \in Item |-> IF i \in Items(tip) THEN NoBlock ELSE dbIndex[i]]
  /\ dbSupply' = Written(dbSupply, m_totalSupply', Stepped(Items(tip)))
  /\ tip' = pprev[tip]
  /\ UNCHANGED <<treeVars, mapBlockIndex, failed, diskVars, running, crashes, partlyApplied>>

-----------------------------------------------------------------------------
(* Blocks from the network, the disk, and crashes.                         *)

\* A new block is received and gets an entry in the index.
AcceptBlock(parent, list, ok) ==
  LET b == nBlocks + 1 IN
  /\ running /\ nBlocks < MaxBlock
  /\ parent \in mapBlockIndex
  /\ nBlocks' = b
  /\ pprev' = [pprev EXCEPT ![b] = parent]
  /\ chain' = [chain EXCEPT ![b] = chain[parent] \cup {b}]
  /\ nHeight' = [nHeight EXCEPT ![b] = nHeight[parent] + 1]
  /\ vtx' = [vtx EXCEPT ![b] = list]
  /\ payable' = [payable EXCEPT ![b] = ok]
  /\ mapBlockIndex' = mapBlockIndex \cup {b}
  /\ UNCHANGED <<failed, tip, m_indexSet, m_totalSupply, dbVars, diskVars,
                 running, crashes, partlyApplied>>

\* A block whose entry was lost is received again.
ReceiveAgain(b) ==
  /\ running
  /\ b \in 1 .. nBlocks /\ b \notin mapBlockIndex /\ pprev[b] \in mapBlockIndex
  /\ mapBlockIndex' = mapBlockIndex \cup {b}
  /\ UNCHANGED <<treeVars, failed, tip, m_indexSet, m_totalSupply, dbVars, diskVars,
                 running, crashes, partlyApplied>>

\* Mutant: a full flush writes the coins alone.
MutantCoinsOnly(full) ==
  /\ running
  /\ IF full THEN diskBest' = tip /\ UNCHANGED <<diskIndex, diskFailed>>
             ELSE diskIndex' = mapBlockIndex /\ diskFailed' = failed /\ diskBest' = diskBest
  /\ UNCHANGED <<treeVars, memVars, dbVars, running, crashes, partlyApplied>>

\* FlushStateToDisk: the block index and, in a full flush, the coins.
FlushStateToDisk(full) ==
  /\ running
  /\ diskIndex' = mapBlockIndex /\ diskFailed' = failed
  /\ diskBest' = IF full THEN tip ELSE diskBest
  /\ UNCHANGED <<treeVars, memVars, dbVars, running, crashes, partlyApplied>>

\* The process ends at any moment; a shutdown flushes before.
Crash ==
  /\ running /\ crashes < MaxCrashes
  /\ running' = FALSE /\ crashes' = crashes + 1
  /\ partlyApplied' = (partlyApplied \/ tip # diskBest)
  /\ UNCHANGED <<treeVars, memVars, dbVars, diskVars>>

-----------------------------------------------------------------------------
(* The next start.                                                         *)

\* The constructors of the managers load the items whose block is known.
Loaded == [i \in Item |-> IF dbIndex[i] \in diskIndex THEN dbIndex[i] ELSE NoBlock]

\* The blocks VerifyDB disconnects and connects again, and their items.  Their
\* number is CheckBlocks, or less when the coin caches reach -dbcache before.
Checked      == {b \in chain[diskBest] \ {0} : nHeight[b] >= nHeight[diskBest] - CheckBlocks}
CheckedItems == UNION {Items(b) : b \in Checked}

\* The items after that.
Verified ==
  [i \in Item |-> IF i \in CheckedItems THEN CHOOSE b \in Checked : i \in Items(b)
                                        ELSE Loaded[i]]

\* VerifyDB succeeds: all of the items can be deleted and added again.
VerifyDB ==
  \A b \in Checked : \A i \in Items(b) :
    /\ Deletable(Loaded, i, b)
    /\ i \in Token =>
         LET proto == Verified[ProtoOf[i]] IN
         proto # NoBlock /\ nHeight[b] - nHeight[proto] >= TX_CONFIRMATIONS_NUM

\* Mutant: nothing is cleaned up.
MutantNoneLost == {}

\* CleanupDb removes the items of unknown blocks and corrects the counters,
\* except the one of all tokens.  It commits row and counter one after the
\* other: a crash in between leaves a counter one too high, never too low.
Lost == {i \in Item : dbIndex[i] # NoBlock /\ dbIndex[i] \notin diskIndex}

CleanupDb ==
  /\ dbIndex' = [i \in Item |-> IF i \in Lost THEN NoBlock ELSE dbIndex[i]]
  /\ dbSupply' = [c \in Counter |->
                    IF c = AllTokens THEN dbSupply[c] ELSE dbSupply[c] - Counted(Lost, c)]

\* A start that succeeds.  The managers are created, and the counters loaded,
\* by the first registration that VerifyDB meets, or else after CleanupDb.
\* VerifyDB works in a transaction of the platform database that it drops.
Start ==
  /\ ~running /\ VerifyDB
  /\ mapBlockIndex' = diskIndex /\ failed' = diskFailed /\ tip' = diskBest
  /\ CleanupDb
  /\ m_indexSet' = Verified
  /\ m_totalSupply' = IF CheckedItems = {} THEN dbSupply'
                      ELSE Increased(Decreased(dbSupply, CheckedItems), CheckedItems)
  /\ running' = TRUE
  /\ UNCHANGED <<treeVars, diskVars, crashes, partlyApplied>>

\* A start with -reindex, which a start that fails proposes: the databases are
\* wiped and the blocks come again.
Reindex ==
  /\ ~running
  /\ mapBlockIndex' = {0} /\ failed' = {} /\ tip' = 0
  /\ m_indexSet' = [i \in Item |-> NoBlock] /\ m_totalSupply' = [c \in Counter |-> 0]
  /\ dbIndex' = m_indexSet' /\ dbSupply' = m_totalSupply'
  /\ diskIndex' = {0} /\ diskFailed' = {} /\ diskBest' = 0
  /\ running' = TRUE /\ partlyApplied' = FALSE
  /\ UNCHANGED <<treeVars, crashes>>

-----------------------------------------------------------------------------
Init ==
  /\ nBlocks = 0
  /\ pprev = [b \in Block |-> NoBlock]
  /\ chain = [b \in Block |-> {0}]
  /\ nHeight = [b \in Block |-> 0]
  /\ vtx = [b \in Block |-> <<>>]
  /\ payable = [b \in Block |-> TRUE]
  /\ mapBlockIndex = {0} /\ failed = {} /\ tip = 0
  /\ m_indexSet = [i \in Item |-> NoBlock] /\ m_totalSupply = [c \in Counter |-> 0]
  /\ dbIndex = m_indexSet /\ dbSupply = m_totalSupply
  /\ diskIndex = {0} /\ diskFailed = {} /\ diskBest = 0
  /\ running = TRUE /\ crashes = 0 /\ partlyApplied = FALSE

Next ==
  \/ \E parent \in Block, list \in TxLists, ok \in Payable : AcceptBlock(parent, list, ok)
  \/ \E b \in Block : ReceiveAgain(b) \/ ConnectTip(b) \/ RefuseBlock(b)
  \/ DisconnectTip
  \/ \E full \in BOOLEAN : FlushStateToDisk(full)
  \/ Crash \/ Start \/ Reindex

Spec == Init /\ [][Next]_vars

-----------------------------------------------------------------------------
(* Properties.                                                             *)

\* The state has the shape the declarations say.
TypeOK ==
  /\ nBlocks \in Block /\ tip \in mapBlockIndex /\ diskBest \in diskIndex
  /\ mapBlockIndex \subseteq 0 .. nBlocks /\ diskIndex \subseteq 0 .. nBlocks
  /\ failed \subseteq mapBlockIndex /\ diskFailed \subseteq diskIndex
  /\ pprev \in [Block -> Block \cup {NoBlock}]
  /\ chain \in [Block -> SUBSET Block]
  /\ nHeight \in [Block -> Nat]
  /\ vtx \in [Block -> TxLists \cup {<<>>}]
  /\ payable \in [Block -> BOOLEAN]
  /\ m_indexSet \in [Item -> Block \cup {NoBlock}]
  /\ dbIndex \in [Item -> Block \cup {NoBlock}]
  /\ m_totalSupply \in [Counter -> Int] /\ dbSupply \in [Counter -> Int]
  /\ running \in BOOLEAN /\ partlyApplied \in BOOLEAN
  /\ crashes \in 0 .. MaxCrashes

\* The registry knows every item of the active chain under the very block that
\* registers it, whatever blocks were refused half way, and after every crash
\* that a start accepts.  So no item is registered twice in a chain, and
\* UndoSpecialTxsInBlock never fails for the tip.
ActiveItemsKnown ==
  running => \A b \in ActiveChain : \A i \in Items(b) : m_indexSet[i] = b

\* An item in the platform database is in memory too, so that GetNfTokenIndex
\* never brings a record back from the database that a block had undone.
DatabaseInMemory ==
  running => \A i \in Item : dbIndex[i] # NoBlock => m_indexSet[i] # NoBlock

\* The items a chain registers.
RegisteredBy(b) == UNION {Items(a) : a \in chain[b]}

\* TotalSupply and the counters behind it never say less than what the active
\* chain registers: they are decremented as unsigned numbers and must not
\* pass zero.
SupplyCoversChain ==
  running => \A c \in Counter : m_totalSupply[c] >= Counted(RegisteredBy(tip), c)

\* As long as no block was applied in part (refused half way, or cut off from
\* its coins by a crash), memory and database hold the registrations of the
\* active chain and nothing else, through every reorganisation and restart.
RecordExact ==
  running /\ ~partlyApplied =>
    /\ dbIndex = m_indexSet
    /\ \A i \in Item : m_indexSet[i] # NoBlock =>
         m_indexSet[i] \in ActiveChain /\ i \in Items(m_indexSet[i])

\* Then the counters, too, are those of the active chain, in memory and on disk.
CountersExact ==
  running /\ ~partlyApplied =>
    \A c \in Counter :
      m_totalSupply[c] = Counted(RegisteredBy(tip), c) /\ dbSupply[c] = m_totalSupply[c]

\* The registrations of a block are valid in its chain: what the chain alone
\* says, whatever this node has seen besides.
ValidInChain(b) ==
  LET below == chain[pprev[b]] IN
  /\ payable[b]
  /\ \A j \in DOMAIN vtx[b] :
       LET i == vtx[b][j] IN
       /\ i \notin RegisteredBy(pprev[b])
       /\ \A l \in 1 .. j - 1 : vtx[b][l] # i
       /\ i \in Token => \E a \in below : ProtoOf[i] \in Items(a)
                                      /\ nHeight[b] - nHeight[a] >= TX_CONFIRMATIONS_NUM

\* As long as no block was applied in part, the node accepts and refuses blocks
\* by what their chain says alone: it cannot disagree with a node that saw
\* other forks, or the same ones in another order.
DecisionsFollowChain ==
  running /\ ~partlyApplied =>
    /\ \A b \in ActiveChain \ {0} : ValidInChain(b)
    /\ \A b \in failed : ~ValidInChain(b)

\* "Apply the block atomically to the chain state." (main.cpp:2733): a block is
\* in the registry if and only if it is in the chain, so that ConnectBlock
\* refuses no block for an item that its chain does not have.
RefusalsFollowChain == \A b \in failed : ~ValidInChain(b)

=============================================================================
