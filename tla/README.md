# Crown core: a TLA+ verification project

Crown core is a C++ node of the Bitcoin/Dash family. What is its own is
masternode proof of stake (MN-PoS): a block is minted with a *stake pointer*,
the coinbase output that paid a masternode or systemnode within the last days,
and every pointer may be used once. This project models the parts of the node
whose correctness depends on the order of events, checks them with TLC on small
instances, and proves the central safety properties with TLAPS for every value
of the parameters.

Paths below are those of the repository (`src/main.cpp` is the file
`main.cpp` in the repository's `src` directory). Definitions keep the names of
the functions and variables they model; `PROJECT.json` maps every one of them to
its lines.

## 1. Inventory of the system

| component | state | operations | interactions |
|---|---|---|---|
| block tree and activation (`src/main.cpp`, `src/chain.h`) | `mapBlockIndex`, `chainActive`, `setBlockIndexCandidates`, the failed marks, `mapUsedStakePointers` | `AcceptBlock`, `ActivateBestChain`, `ConnectTip`, `DisconnectTip`, `InvalidateBlock`, `ReconsiderBlock`, `DisconnectBlocksAndReprocess` | called by the message thread, the RPC threads, the miner, InstantSend and sporks; calls the proof tracker, payments, budget, mempool, NF tokens |
| block index on disk (`src/txdb.cpp`, `FlushStateToDisk`) | the index and the coins as last written | `FlushStateToDisk`, `LoadBlockIndexGuts`, `LoadBlockIndexDB` | restores the block tree after a stop or a crash |
| proof tracker (`src/mn-pos/prooftracker.cpp`) | blocks seen per stake, masternode witnesses per block | `IsSuspicious`, `AddWitness`, `EraseBeforeHeight` | consulted by `AcceptBlock`; fed by masternode pings; the `reject` and `blockproof` messages carry witnesses to a peer that refused a block |
| stake kernel and miner (`src/mn-pos/`) | none | hash, signature, creation of blocks | `AcceptBlock`, `ProcessNewBlock` |
| InstantSend (`src/instantx.cpp`) | lock requests, votes, locks, locked inputs, rejected requests | `ix`, `txlvote`, `CreateNewLock`, `ProcessConsensusVote`, `CheckAndRemove` | mempool acceptance, `CheckBlock`, replay of blocks, masternode ranks |
| sporks (`src/spork.cpp`) | the newest signed value of each spork | `spork` message, `UpdateSpork`, `ExecuteSpork` | switches features, replays blocks |
| masternode list (`src/masternode*.cpp`) | nodes, their last ping and state, seen broadcasts and pings | broadcast, ping, `Check`, `CheckAndRemove`, ranks | payments, InstantSend, budget, proof tracker |
| payments (`src/masternode-payments.cpp`) | votes and payees per block | vote message, `IsTransactionValid`, `CleanPaymentList` | block creation and block check |
| budget (`src/masternode-budget.cpp`) | proposals, finalized budgets, votes, orphan votes | the budget messages, `NewBlock`, `CheckAndRemove`, `AutoCheck` | block check, sync |
| sync (`src/masternode-sync.cpp`) | current asset, attempts, times | `Process`, `AddedMasternodeList`, ... | gates payments, budget and InstantSend |
| systemnodes (`src/systemnode*.cpp`) | a second list, with payments and sync of its own | as masternodes | as masternodes |
| platform (`src/platform/`) | NF tokens and protocols, in memory and in a database | add and delete on connect and disconnect, lookups | block connection and disconnection, mempool |
| memory pool (`src/txmempool.cpp`) | entries, spent outpoints | add, remove, `removeConflicts` | blocks, InstantSend |
| coins, script, network, wallet, RPC, GUI | Bitcoin's | | |

**What is hard.** `cs_main` is released between the steps of an activation, so
messages and RPCs act on a tree in the middle of a reorganisation. A stake
pointer is checked when the block arrives and used when the block is connected,
perhaps after a reorganisation. Pointers are given back and taken again as the
chain moves; the record is kept in memory and rebuilt from an index that also
holds blocks that were never connected. InstantSend reads and writes its maps
from several handlers, only partly under a lock, and drives block replay. Votes
and pings arrive duplicated, late and out of order. `PROJECT.json` lists these
hazards at their lines, with the properties that would catch them.

**What makes each part correct.** The active chain uses no pointer twice and
points only into its own past; the node ends on the best valid chain it knows;
the record of used pointers survives a restart; a block refused as suspicious is
accepted once it has witnesses; no two conflicting transactions are locked; a
spork never goes back to an older value; a payee or a budget needs the votes it
claims; sync ends.

## 2. Modules

### MnPosChain: the block tree and the record of used pointers

State. A block is a number; its index entry is given by `nHeight`, `nChainWork`,
`ancestor` (the chain of `pprev`, as a function from heights), `stakeSource`,
`haveData`, `nSequenceId`, and the two failed marks. `tip` is
`chainActive.Tip()`, and `mapUsedStakePointers` maps a pointer to the block that
used it. `pindexMostWork` and `pindexOldTip` are the local variables of the
`ActivateBestChainStep` under way.

Actions.

| action | code | |
|---|---|---|
| `AcceptBlock`, `AcceptBlockRefused`, `AcceptBlockInvalid` | `ProcessNewBlock`, `AcceptBlock` | a block is stored, refused (entry without data) or marked failed |
| `FindMostWorkChain` | `FindMostWorkChain` | discards unusable candidates, chooses a target |
| `DisconnectTip`, `ConnectTip` | same | one block of the step |
| `ConnectTipBadStake`, `ConnectTipRejected` | `ConnectTip`, `InvalidBlockFound` | the step meets an invalid block |
| `InvalidateBlock`, `ReconsiderBlock` | same | RPCs |
| `DisconnectBlocksAndReprocess` | same | replay, on a spork or a completed lock |

Atomicity. All of the state is guarded by `cs_main`, held for a whole
`ActivateBestChainStep`: while `pindexMostWork` is set, only the step's own
actions are enabled. Between steps everything may interleave.

Abstractions. Transactions, coins, kernels and signatures are not modelled: a
block may be refused on arrival, or rejected on connection, for a reason outside
the model (`"refuse"`, `"reject"`). The paths that abort the node (a failed disk
read or write) are left out, because nothing runs after them. Headers do not
arrive on their own: the code takes a block only when its parent has all its
data (`src/main.cpp:5395-5440`).

`MnPosChain_proofs` holds its theorems; `MCMnPosChain` instantiates it for TLC. Every
other component has its `_proofs` and `MC` modules in the same way, and `Induction` holds the
two facts about natural numbers that the proofs share.

### StakeLedger and MnPosLedger: what the block tree promises

`StakeLedger` is the abstract specification: one chain, extended by a block whose
pointer is mature and unused in that chain, or cut back. It has no tree, no
candidates, no failed marks and no record of pointers. `MnPosLedger` maps
`MnPosChain` to it: the ledger is the active chain with the stake source of each
block, `height` is `nHeight[tip]`. `ImplementsLedger` is the ledger's
specification under this mapping; `MnPosLedger_proofs` proves it.

### MnPosRestart: the block tree over several runs of the process

`MnPosRestart` extends `MnPosChain` with what is on disk: the entries of the index
(`diskIndex`, `diskData`, the two failed marks), the best block of the coin
database (`diskBest`), and `setDirtyBlockIndex`, the entries still to be written.

| action | code | |
|---|---|---|
| `ChainStep` | any step of `MnPosChain` | notes the entries the step changes (`Touched`) |
| `FlushStateToDisk` | same | the index, and in a full flush the coins after it |
| `Crash(S)` | | at any moment; `S` are the dirty entries that a write under way got to |
| `LoadBlockIndexDB` | `LoadBlockIndexGuts`, `LoadBlockIndexDB`, `PruneBlockIndexCandidates`, `VerifyDB` | the next start |
| `VerifyChain` | the RPC `verifychain` at level 3 | erases pointers of the running node |

`Touched` is the set of entries whose status a step changes; the calls of
`setDirtyBlockIndex.insert` were compared with it one by one. `FindMostWorkChain` sets
`BLOCK_FAILED_CHILD` without noting the entry as dirty, which the model keeps. So
`CleanEntriesOnDisk` speaks of flushes, crashes and starts; that a function forgets to
note an entry it changes is something it could not show. `VerifyChain` takes the depth
of the RPC, where 0 stands for the whole chain. An index with holes (a parent lost in a partial write) is
not started in the model: `InsertBlockIndex` then makes up an entry without height
and the branch above it is not linked to the tree.

### NfTokens: the registry of NF tokens beside the chain

The managers of protocols and tokens keep in memory what `m_indexSet` and
`m_totalSupply` stand for; `dbIndex` and `dbSupply` are the platform database,
`diskIndex`, `diskFailed` and `diskBest` the rest of the disk. A block is a list of
registrations.

| action | code | |
|---|---|---|
| `ConnectTip`, `RefuseBlock` | `ConnectTip`, `ConnectBlock`, `ProcessSpecialTxsInBlock` | a block accepted, with the platform transaction committed at once; or refused, with the platform transaction dropped and what the managers took into memory kept |
| `DisconnectTip` | `DisconnectTip`, `UndoSpecialTxsInBlock` | |
| `AcceptBlock`, `ReceiveAgain` | `AddToBlockIndex` | a new block; a block the index had lost |
| `FlushStateToDisk`, `Crash` | same | |
| `Start` | the managers' constructors, `VerifyDB` at level 4, `CleanupDb` | |
| `Reindex` | a start with `-reindex` | |

Which chain is activated is left open: any child of the tip may be connected and
any tip disconnected, so that what holds here holds for every order of
reorganisations that `MnPosChain` allows. `partlyApplied` is a history variable:
some block has left a trace without being connected, because it was refused half
way, or because a crash came between the commit of the platform database and the
flush of the coins. `Reindex` resets it.

Three things the model leaves out. A start verifies fewer than `-checkblocks` blocks when
the coin caches reach their limit (`src/main.cpp:4045`); `CheckBlocks` is the number it
does verify. `CleanupDb` deletes a row and lowers its counter in two commits
(`src/platform/platform-db.cpp:370-382`), the model in one; a crash in between leaves the
counter one too high, which `SupplyCoversChain` allows and `CountersExact` does not speak
of, since only a crash that loses a block makes a row to delete. And the RPC
`verifychain` at level 3 deletes the items of the blocks it verifies from memory
(`src/main.cpp:2089`), whether the node is starting or running: `ActiveItemsKnown` and
`DatabaseInMemory` hold for a node on which it is not called.

### BlockDownload: how blocks reach the node

One node and its peers. The node's side is `inv` (`Inv`), `block`
(`BlockMessage`, with `ProcessNewBlock` and `AcceptBlock` inside), `blockproof`
(`BlockProof`), masternode pings (`MasternodePing`, which witness blocks), and the
block part of `SendMessages`: the first `getblocks` of a connection, `getdata` for
the whole of `listAskForBlocks` once there is room, and the timeout that
disconnects a peer. `vBlocksInFlight` and `mapBlocksInFlight` are the two views of
the blocks requested; `MarkBlockAsInFlight` and `MarkBlockAsReceived` keep them.
The proof tracker's `m_mapStakes` and `m_mapBlockWitness` decide whether
`AcceptBlock` holds a block back. The peers run the same code: they announce what
they think the node does not know (`PeerInv`), answer `getdata` and `getblocks`,
and their active chains grow. `recv` and `sent` are the two directions of each
connection, in order, as TCP delivers them.

Abstractions. Every block is valid (the others are in `MnPosChain`) and the longer
chain is active. Ban scores, initial download, and the limit of 500 blocks per
`getblocks` are left out. `SlowPeers` says whether a request may time out while
its answer is on the way; `StartTip` and `FinalTip` between which blocks a peer's chain
grows; `OtherVersions` which peers send `blockproof`, which this version never does on
its own, since the `reject` that asks for it is never sent (see `download_approved`).

### InstantSend: locks on the inputs of transactions

State. `m_lockedInputs`, `m_txLockVote`, `m_txLockReq`, `m_txLockReqRejected` and
`m_txLocks` are the maps of `src/instantx.h`; the fields of a `CTransactionLock` are
`nBlockHeight`, `vecConsensusVotes` and `m_expiration` (kept relative to the clock,
so that time is unbounded). `mempool` and `confirmed`, the transaction of interest
in each recent block, are what the locks are meant to protect.

| action | code | |
|---|---|---|
| `IxRequest`, then `IxAccepted` or `IxRejected` | the `ix` handler | two steps: `InstantSend::cs` is released after `CreateNewLock` |
| `TxLockVote` | the `txlvote` handler, `ProcessConsensusVote` | put on record, ranked, added, and if the lock is complete: inputs locked, blocks replayed, or both rivals cancelled |
| `CheckAndRemove` | same | another thread; the votes it erases in its second loop are a choice (see below) |
| `WalletSend` | `CWalletTx::RelayWalletTransaction` | the node's own request |
| `ReceiveTx`, `ConnectBlock` | `AcceptToMemoryPool`, `CheckBlock` | where the locks are enforced |
| `Tick`, `Restart` | the clock; `DumpData` and the next start | |

The second loop of `CheckAndRemove` reads through the end iterator of the first.
That is undefined; as it reads the same memory for every vote, the model lets it
erase all votes or none. After the former, votes that are sent again are counted
again.

Abstractions. Ranks are a constant (`Top`), as is the height derived from the
inputs (`TxHeight`); signatures are valid. A request whose inputs are too recent, or
a message while the sporks are off or the node is not synced, is a step that does
nothing. The memory pool may refuse any request (fees, standardness, rate of free
transactions). Blocks that a replay drops and that come back later are blocks that
arrive; other reorganisations are in `MnPosChain`. `m_unknownVotes` only limits
relaying. The handler's unlocked accesses are taken as atomic steps. `ReceiveTx` may come
in the middle of the `ix` handler: not from a peer, whose messages the same thread
handles, but from the wallet and the RPC, which call `AcceptToMemoryPool` too.
`ConnectBlock` checks and connects in one step. In the code a block carries the result of
an earlier `CheckBlock` along (`fChecked`, `src/main.cpp:3316`, `:3450`), so that the
second call would not see a lock completed since the first. Votes are handled by the
message thread, which makes both calls for the block of a peer; a block of the node's own
miner or of an RPC could be caught in between.

## 3. Runs

The `chain_` runs start from a chain of proof of work blocks that ends one block
below `PoSStartHeight`, so that the first block that arrives crosses the border.

| run | shows |
|---|---|
| `chain_reorg` | four blocks, any pointers, any order, any fork: no pointer is used twice; until a block fails, no reorganisation reaches a target further above the fork than the pointer window |
| `chain_interventions` | refusals, rejections, invalidate, reconsider and replay: the record of pointers is exact, sources are mature, no failed block is active, and the tree implements `StakeLedger` |
| `chain_liveness` | blocks refused, invalidated and replayed: a settled node is on the best valid chain it knows; a better valid block is activated in the end |
| `download_stakes` | three slow peers, two of them on the same fork: the two views of the blocks in flight agree, also for a block that is asked of both; while its blocks are within the depth of a reorganisation, no stake puts more than the threshold of unapproved blocks on disk |
| `download_liveness` | every block of a peer's chain arrives in the end, through drops, timeouts and new connections |
| `download_approved` | *violation*: a block held back as suspicious never arrives, however many masternodes approve it |
| `instantsend_locks` | votes, requests, rivals, blocks, expiry and restarts in any order: counted locks have their request and only ranked signatures, and when the complete lock of a refused request comes to hold its inputs, no rival within reach of a replay remains, and none is added while it holds them |
| `instantsend_consensus` | *violation*: blocks are refused for a request that no masternode has voted for |
| `restart_recovery` | flushes of index and coins, a crash anywhere, in the middle of writing the index too, and the next start: the coins never get ahead of the index, what is not noted as dirty is on disk, recorded pointers were used, sources are mature, and the node finds the best valid chain it still knows |
| `restart_pointers` | *violation*: after a restart the record may name a block of a fork for a pointer of the active chain, and the pointer is used a second time |
| `nftoken_registry` | registrations in forks, refused half way, connected and disconnected in any order, with two crashes: the registry knows the items of the active chain, no counter falls below them, and until a block is applied in part, record, counters and decisions are those of the active chain alone |
| `nftoken_crash` | *violation*: after a crash the node refuses for good the block it had connected before |

**Bounds.** `MaxBlock` is the highest block number; blocks up to `InitHeight` exist
at the start (only block 0 in the registry), and three or four new ones make the
smallest trees with a fork of two blocks against two, a deeper candidate with a bad
block in the middle, and a block that arrives during the reorganisation.
`ValidStakePointerDuration` and `MaxReorganizationDepth` are 2 or 3 and 1, so
that both ends of the window are crossed. All blocks have equal work: under
proof of stake the target is constant in these windows. `MaxInterventions`
bounds the RPCs, rejections and replays in a run.

`download_stakes` has three peers, a chain of three blocks and a fork of one, and room
for one block in flight. One peer is on the chain, whose third block is found while the
node is connected; two are on the fork, one of them a peer that sends `blockproof`: the
smallest setting in which a block is asked of two peers, a child arrives before its
parent, two blocks of one height share a stake, and the third block of the chain erases
the record of that stake, after which its limit no longer holds. In `download_liveness`
there are two peers on a chain of two blocks, and pings come from one masternode. Queues need no bound: a peer announces a block once per
connection, and a block is requested once per announcement.

The InstantSend runs have two transactions that share one of two inputs, one
ranked masternode at each of two heights, one signature required, and a chain of three
blocks of which a replay reaches two, so that a rival may be out of its reach. With two signatures the state space no longer fits
the time of a run, and nothing in the code depends on the number: the theorems of
section 4 hold for all. `MaxVotes` bounds the votes a lock collects: two for one
transaction, enough for a vote counted twice or for one of each height, and one for the
other. A lock lives for one tick.

The restart runs have three new blocks, one crash and one refusal or
`verifychain`: enough for a fork whose entries reach the disk in part, a block
marked as failed on disk only, and a pointer recorded for the wrong block. The order
of hashes is the reverse of the order of arrival, the least favourable one. The
NF token runs have three blocks, a protocol and its token, and blocks with none, one
or two registrations; with two crashes a start can be followed by another
that finds what the first one left. Deadlock is not checked in these two modules:
the bound on crashes and an index that cannot be started both end a behaviour.

**Fairness.** `FairSpec` of `MnPosChain` adds weak fairness of `ActivateBestChain`
only. Whoever changes the tree calls it next, its loop waits for nothing but
`cs_main`, and every holder of that lock releases it. Nothing is assumed of the
arrival of blocks or of the operator. `FairSpec` of `BlockDownload` adds weak
fairness of the message handlers of the node and of its peers, of `SendMessages`
(the message thread serves every peer in turn), of the timeout (once a peer has
nothing more to say the clock passes it), and of `Reconnect` (the connection
thread keeps its outbound connections up).

**Seen while modelling.** Facts about the code that the models show and that no run
checks:

- Once there is room for one block `SendMessages` requests the whole of
  `listAskForBlocks`, so that `MAX_BLOCKS_IN_TRANSIT_PER_PEER` bounds nothing
  (`src/main.cpp:6062-6076`). A block that is dropped because its parent is missing
  stays listed as in flight after it was delivered (`src/main.cpp:5436`), and costs
  its peer a timeout.
- If `CheckAndRemove` comes between `CreateNewLock` and a refusal by the memory pool,
  the inputs stay locked with nothing left that would release them
  (`src/instantx.cpp:82`).
- `-maxreorg` is checked when a header arrives (`src/main.cpp:3467`), not when a
  chain is activated; headers that each pass may add up to a deeper reorganisation.
  What does bound it, until a block fails, is the pointer window
  (`ReorgWithinPointerWindow`). After an activation that failed half way nothing does:
  the node is left on a part of the new chain, with `cs_main` released, and pointers of
  arriving blocks are checked against that part. The way back to the old chain is then
  itself a reorganisation of any depth up to the window, and a target stored in between
  may be further above the fork than that.
- `IsSuspicious` counts the blocks of a stake whose record has not been erased.
  `EraseBeforeHeight` erases by the height of the first block recorded, so that a block
  refused as suspicious is stored when it comes again after `MaxReorganizationDepth`
  more blocks (`src/mn-pos/prooftracker.cpp`), and a limit per height does not hold.
- Two assertions of `CheckBlockIndex` (`src/main.cpp:4320`, `:4324`) can fail: when a
  block is stored between two steps of a failed reorganisation, and when
  `reconsiderblock` leaves a sibling marked as child of an invalid block.
- If a block of the old chain is rejected when it is connected again after a failed
  reorganisation, the candidates that `PruneBlockIndexCandidates` dropped for it are not
  put back, and the node may stay below a valid block it knows. `reconsiderblock` on an
  entry without data clears the marks of its ancestors without making one of them a
  candidate (`src/main.cpp:3118`). Both break `BestChainActive`.
- A replay (`DisconnectBlocksAndReprocess`) whose reconnection is rejected leaves the
  node below a valid block it knows (`src/main.cpp:2785`).
- After a flush of the index alone and a crash, the coins may stand on a block that
  the index marks as failed, and the assertion of `PruneBlockIndexCandidates`
  (`src/main.cpp:2934`) stops the start; with `invalidateblock` among the
  interventions, `BestChainAfterRestart` fails too, so that `restart_recovery` leaves
  it out.
- `verifychain` at level 3 erases the pointers of the blocks it verifies from the
  record of the running node, so that they can be used again, and deletes their NF tokens
  from memory (`src/main.cpp:2089`).
- A replay is called for 15 blocks (`src/instantx.cpp:107`, `:383`) and reaches 16
  (`src/main.cpp:2792`), while a lock lives for 24: a rival that was confirmed further
  down stays, beside a lock that holds its input.
- The items a refused block left in memory decide about later blocks until the next
  start (`src/main.cpp:2742`). `CleanupDb` corrects the counters of protocols, not the
  total of all tokens. Items that a crash left in the platform database stay there until
  a reindex, because the block they name is in the index; a protocol that is registered
  again starts its counter from 0 all the same. The default of `-checklevel` is 4 in the code
  (`src/init.cpp:1340`) and 3 in the help text (`src/init.cpp:308`).

## 4. Proofs

`MnPosChain_proofs` proves, for every number of blocks, slots and parameters, under
`ChainAssumption`, and but for the last two for all interventions:

- `TypeCorrect`: `Spec => []TypeOK`
- `UsedMapIsExact`: `Spec => []UsedMapExact`
- `PointerUsedOnce`: `Spec => []StakePointerUsedOnce`
- `StakeSourcesMature`: `Spec => []ActiveStakeSourcesMature`
- `ActiveChainIsValid`: `Spec => []ActiveChainValid`
- `BestChainIsActive`: `Spec => []BestChainActive`, for the interventions `"refuse"`,
  `"invalidate"` and `"reprocess"`
- `ReorgsAreShallow`: `Spec => ReorgWithinPointerWindow`, without `"reprocess"` and
  `"reconsider"`

The invariant is `IInv == TInv /\ UsedMapExact`, with `TInv == TypeOK /\ IndexIsTree /\
ActiveStakeSourcesMature`; `TInv` is what does not depend on the record and so
survives a restart. `StakePointerUsedOnce` is not inductive: that
`ConnectBlock` refuses a used pointer only says that the *record* does not hold
it, so the record must hold exactly the pointers of the active chain
(`UsedMapExact`). That in turn is preserved by a disconnection only when
chains are chains (`IndexIsTree`: heights climb by one and ancestors of
ancestors are ancestors), since the entry looked up by height must be the block
itself. Each action has one lemma; `ChainFrame` says that the tree below a
block does not change when another block arrives. `ActiveChainIsValid` needs more
(`VInv`): the active chain has no failed block, nor has the chain of the target of
a step under way, which connects its target's blocks without looking at their marks
again.

`BestChainActive` is about a settled node only, so it says nothing of the state from
which the node settles. The invariant (`BInv`) is that there is always a block to go
back to (`Fallback`): a candidate that is not worse than the tip, has no failed ancestor,
has a chain whose stakes are valid by themselves (`StakesValid`: no pointer twice, all
of them mature), and is such that every block without a mark that beats it is a
candidate. When a reorganisation starts it is the old tip, or whatever candidate the old
tip was waiting for; a failure half way does not mark it, because a block of a valid
chain passes `CheckStake` on that chain (`StakesPass`); and when the new chain beats it,
the new tip takes its place (`FallbackFrom`). That pruning is harmless needs
`WorkClimbs`: ancestors have less work. `SettledOnBest` concludes: a settled node has no
usable candidate but its tip, so that the block to go back to is the tip. The two
interventions left out really break it (section 3).

`ReorgWithinPointerWindow` relates the chain that a block was checked against when it was
stored to the one it replaces, which may be many steps apart. `DInv` says that, as long
as no block has failed, the node is on its way to the foremost candidate (the tip is an
ancestor of it), or that candidate was stored after the last step, and so points into the
active chain. There is one such candidate at a time, because sequence numbers are unique
(`SequenceUnique`).

`MnPosLedger_proofs` proves `TreeImplementsLedger`: `Spec => ImplementsLedger`, from
`IInv`. Disconnections truncate the ledger (`DisconnectTruncates`), connections extend
it (`ConnectExtends`; here `UsedMapExact` turns the lookup of one entry into a
statement about the whole chain), every other step leaves it alone.

`MnPosRestart_proofs` proves, for every tree, any number of crashes, and every order of
hashes and addresses:

- `CoinsNeverAhead`: `RestartSpec => []CoinsWithinIndex`
- `UsedMapIsSound`: `RestartSpec => []UsedMapSound`
- `SourcesMatureAfterRestart`: `RestartSpec => []ActiveStakeSourcesMature`
- `CleanIsOnDisk`: `RestartSpec => []CleanEntriesOnDisk`
- `RestartTypeCorrect`: `RestartSpec => []RestartTypeOK`
- `BestChainSurvives`: `RestartSpec /\ []StakePointerUsedOnce => []BestChainAfterRestart`,
  for the interventions of the run

`UsedMapExact` is lost at a start, so the argument cannot go through it. The invariant
`RInv` has `TInv` for the memory, and says that the chain of the coins on disk is one
that was active (all of its blocks mature) and that memory has the data of every
block on disk. `CoinsWithinIndex` rests on `CleanEntriesOnDisk`: the coins are written
with the dirty entries, and the others are there already.

`BestChainSurvives` has a hypothesis on the behaviour: no pointer is used twice in the
active chain. After a start that is not guaranteed (`restart_pointers`), and a chain that
uses one twice could not be connected again once the node has left it. The invariant
`SInv` adds to `VInv` and `BInv`, which hold while the node runs, what a start needs: the
chain of the coins on disk has valid stakes and no mark, in memory or on disk. No step
marks a block of such a chain (`MarksElsewhere`), the coins are written with a chain
that has none (`WriteSInv`), and so the block of the coins is the one to go back to after
the start (`LoadSInv`).

`NfTokens_proofs` proves, for every set of protocols and tokens, all block contents and
any number of crashes:

- `RegistryTypeCorrect`: `Spec => []TypeOK`
- `ActiveItemsAreKnown`: `Spec => []ActiveItemsKnown`
- `DatabaseIsInMemory`: `Spec => []DatabaseInMemory`
- `RecordIsExact`: `Spec => []RecordExact`
- `ChainDecides`: `Spec => []DecisionsFollowChain`
- `SupplyCovers`: `Spec => []SupplyCoversChain`
- `CountersAreExact`: `Spec => []CountersExact`

`ActiveItemsAreKnown` and `SupplyCovers` assume `CheckBlocks >= MaxBlock`, a start that
verifies the whole chain; the other five hold for any number of verified blocks. The code
verifies 288 blocks; what the assumption excludes is a reorganisation deeper than
that between two flushes, followed by a crash: the platform database has then lost
items of the chain the coins still stand on, and nothing looks at them. `Recovers` is the
condition under which a start finds all items of the chain again: it verifies the whole
chain, or no block was applied in part, so that the database has them; `VerifiedItems`
is that argument, and `ItemsKnown` is `ActiveItemsKnown` under that condition. The
invariant `IInv` adds that chains are chains (`Tree`), the indexes hold whole chains (`Closed`), and three facts about the disk: its chain
registers no item twice (`DiskDistinct`, which makes the block `VerifyDB` finds for an
item the only one), it is valid (`DiskDecisions`), and while the node is down the
platform database holds exactly its items (`DownExact`), the last two until a block
is applied in part. `ConnectsIffValid` is the step from the registry to the chain:
under `RecordExact` and `ActiveItemsKnown`, `ConnectBlock` accepts what is valid in the
chain of the block.

The counters need more (`Counts`). Registering a protocol sets its counter to 0, so its
tokens must all be above it in the chain (`ProtocolsBelow`). A start reads the counters
from disk, so those must cover the active chain too (`DiskCoversChain`), and `CleanupDb`
must not lower them for items that a crash left behind (`Leftovers`: those name a block
on disk, and are not of the chain of the coins). `DownCounters` and `DownProtocols` carry
exactness over the time the node is down: a start that verifies a part of the chain
counts the tokens of a protocol anew only when the protocol, and so all of its tokens,
are in that part. `IncreasedCounts` and `DecreasedCounts` are the arithmetic:
counters are cardinalities of sets of items.

`BlockDownload_proofs` proves, for any number of peers, blocks, stakes and masternodes:

- `DownloadTypeCorrect`: `Spec => []TypeOK`
- `FlightConsistent`: `Spec => []InFlightConsistent`
- `RepackagingLimited`: `Spec => []RepackageLimited`

`InFlightConsistent` is about a list of any length that `SendMessages` requests at once
(`MarkedBlocks`) and about messages with the received blocks taken out (`Filter`). Both
are recursive functions, and what they preserve is proved by induction on the length
(`NatSetInduction` of `Induction`, which speaks of a set instead of a predicate). The
invariant `FInv` adds that messages travel only over connections (`Quiet`): a `blockproof`
marks a block as in flight from its sender. `RepackageLimited` is about the blocks on
disk, `IsSuspicious` about a record that is erased as the chain grows; `StakeRecords` says
that the two agree for each stake until one of its blocks is deep enough (`Expired`).

`InstantSend_proofs` proves, for every set of transactions, inputs, masternodes
and rankings, under `InstantSendAssumption`:

- `TypeCorrect`: `Spec => []TypeOK`
- `CountedLockHasRequest`: `Spec => []RequestKnown`
- `OnlyRankedSignatures`: `Spec => []SignaturesRanked`
- `RefusedLockPrevails`: `Spec => RejectedLockEnforced`, for every length of the chain
  and every reach of a replay

`SignaturesRanked` needs two facts about votes that are not counted yet: every vote
is ranked at the height it names (`VotesRanked`), and the height of a lock is
unknown or the one derived from the transaction (`HeightsDerived`).
`RejectedLockEnforced` is about steps: the one with which the lock of a refused request
comes to prevail (`Prevails`: it is complete and holds the inputs) leaves none of its
rivals (`Rivals`: blocks with a conflicting transaction) among the blocks that a replay
reaches, and while it prevails no rival is added. As an invariant ("no rival within
reach") it would be false: a replay for another lock shortens the chain, and a rival that
was out of reach comes within it. The proof is by cases on who comes last. The vote that
completes the lock replays the blocks (`CompletingVoteReplays`), so does the refused
request that finds the lock complete, `ReplayRemovesRivals` shows that a replay removes
every rival it reaches, and no other step makes a lock prevail or adds a rival of one that
does (`NextKeepsRivals`).

Model-checked only: liveness under fairness (`BetterBlockIsActivated`, `BlocksArrive`),
which the provers do not do. Every other property of a passing run is stated by a theorem,
`BestChainActive`, `BestChainAfterRestart`, `ReorgWithinPointerWindow`, `ActiveItemsKnown`
and `SupplyCoversChain` under the hypotheses above. Each inductive invariant was
checked with TLC as an invariant of the small instances before it was proved.

## 5. Plan

Done: `MnPosChain`, `BlockDownload` with the proof tracker, `InstantSend`, the abstract
ledger and the refinement, `MnPosRestart`, `NfTokens`, and their theorems.

Left, in this order:

1. proofs: how far a reorganisation can go when activations do fail, in terms of the
   number of failed blocks; the other two theorems about `NfTokens` without the assumption
   on the depth of the verification, for chains that were not reorganised more deeply; and the release of
   inputs in `InstantSend` as an invariant of the maintenance thread;
2. `masternode-sync`: the sequence of assets, its timeouts, failure and retry. What
   makes it hard: a peer is asked once per connection, `ClearFulfilledRequest` gives up
   when it does not get a lock, `DsegUpdate` does not repeat a request for three
   hours, and peers refuse a second `mnget`;
3. sporks, the masternode list, payments and budget;
4. the memory pool as blocks connect and disconnect.

## 6. Not modelled

Bitcoin's own parts (coins, scripts, wallet, network, address manager), GUI, RPC
formatting, and the vendored libraries: they are pure functions over bytes, or
input and output, and do not hold the state the properties are about. Kernel
hash and signature checks are modelled as a refusal that may happen at any
time. Masternode list, payments, budget, sync, sporks, systemnodes and the memory
pool have state of their own and are left for later (section 5). `DisconnectBlockAndInputs` in `src/main.cpp` is never called.

Of the modelled parts: an index with holes after a partial write; `verifychain` beside the
NF token registry, and a crash in the middle of `CleanupDb`; the options
`-platformoptram` and `-platformreindex`, the memory pool's filter of registrations, and
the exceptions for early testnet blocks and for block 3376441 in the NF token code;
ban scores, initial download, and the limit of 500 blocks per `getblocks`; the unlocked
accesses of the InstantSend handlers, taken as atomic.

The translation files of the GUI (`src/qt/locale/*.ts`) are data: tables of phrases
without behaviour.
