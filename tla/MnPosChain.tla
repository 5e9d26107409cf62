----------------------------- MODULE MnPosChain -----------------------------
(***************************************************************************)
(* The block tree of one Crown node under masternode proof of stake: how   *)
(* src/src/main.cpp accepts a block, activates the chain with most work,   *)
(* and keeps mapUsedStakePointers, the record of the stake pointers        *)
(* consumed by the active chain.                                           *)
(*                                                                         *)
(* This module is one uninterrupted run of the process; MnPosRestart adds  *)
(* the disk, crashes and the starts that rebuild the state from it.        *)
(*                                                                         *)
(* Every variable below is guarded by cs_main in the code.  The lock is    *)
(* held over a whole ActivateBestChainStep, which is modelled by one       *)
(* action per DisconnectTip and ConnectTip between which nothing else can  *)
(* happen (pindexMostWork # NoBlock).  Between two such steps the code     *)
(* releases the lock, and any other operation may come in between.         *)
(***************************************************************************)
EXTENDS Integers, FiniteSets

CONSTANTS
  MaxBlock,        \* blocks are the numbers 0..MaxBlock, 0 the genesis block
  InitHeight,      \* height of the chain the run starts from
  Slot,            \* the payment slots a pointer may name (MN_PMT_SLOT, ...)
  NoPointer,       \* the stake source of a proof of work block
  Work,            \* the values of GetBlockProof
  PoSStartHeight,            \* Params().PoSStartHeight()
  ValidStakePointerDuration, \* Params().ValidStakePointerDuration()
  MaxReorganizationDepth,    \* Params().MaxReorganizationDepth()
  Interventions,   \* which of "refuse", "reject", "invalidate", "reconsider"
                   \* and "reprocess" ("verify" in MnPosRestart) may happen
  MaxInterventions,\* bound on their number
  ReprocessDepth   \* the values with which ReprocessBlocks is called

Block   == 0..MaxBlock
NoBlock == -1

\* A stake pointer is the output that paid a node: the block that holds the
\* payment and the slot of its coinbase.
Pointer == Block \X Slot

ASSUME ChainAssumption ==
  /\ MaxBlock \in Nat
  /\ InitHeight \in 0..MaxBlock
  /\ NoPointer \notin Pointer
  /\ Work \subseteq Nat \ {0}
  /\ PoSStartHeight \in Nat
  /\ InitHeight < PoSStartHeight
  /\ ValidStakePointerDuration \in Nat
  /\ MaxReorganizationDepth \in Nat \ {0}
  /\ MaxInterventions \in Nat
  /\ ReprocessDepth \subseteq Nat

VARIABLES
  mapBlockIndex,   \* set of the blocks with an entry in the index
  nHeight,         \* CBlockIndex::nHeight
  nChainWork,      \* CBlockIndex::nChainWork
  ancestor,        \* the chain of pprev: ancestor[b][h] is b's ancestor at h
  stakeSource,     \* CBlockIndex::stakeSource, or NoPointer
  haveData,        \* blocks with BLOCK_HAVE_DATA
  nSequenceId,     \* order in which the data of the blocks arrived
  failedValid,     \* blocks with BLOCK_FAILED_VALID
  failedChild,     \* blocks with BLOCK_FAILED_CHILD
  setBlockIndexCandidates,
  tip,             \* chainActive.Tip()
  mapUsedStakePointers,      \* pointer -> the block that used it, or NoBlock
  pindexMostWork,  \* target of the ActivateBestChainStep under way, or NoBlock
  pindexOldTip,    \* the tip that step started from
  interventions    \* number of interventions so far (a bound of the model)

treeVars  == <<mapBlockIndex, nHeight, nChainWork, ancestor, stakeSource>>
dataVars  == <<haveData, nSequenceId>>
failVars  == <<failedValid, failedChild>>
stepVars  == <<pindexMostWork, pindexOldTip>>
vars == <<treeVars, dataVars, failVars, setBlockIndexCandidates, tip,
          mapUsedStakePointers, stepVars, interventions>>

-----------------------------------------------------------------------------
(* The block index and the active chain.                                   *)

GetAncestor(b, h) == IF h \in 0..nHeight[b] THEN ancestor[b][h] ELSE NoBlock

Prev(b) == ancestor[b][nHeight[b] - 1]

\* b and its ancestors: the chain that ends in b
ChainOf(b) == {ancestor[b][h] : h \in 0..nHeight[b]}

ActiveChain == ChainOf(tip)

\* chainActive.Contains(b)
Contains(b) == GetAncestor(tip, nHeight[b]) = b

IsProofOfStake(b) == stakeSource[b] # NoPointer

Descendants(b) == {d \in mapBlockIndex : GetAncestor(d, nHeight[b]) = b}

\* BLOCK_FAILED_MASK
Failed == failedValid \cup failedChild

\* CBlockIndexWorkComparator: TRUE when a is the worse of the two.
Worse(a, b) ==
  \/ nChainWork[a] < nChainWork[b]
  \/ nChainWork[a] = nChainWork[b] /\ nSequenceId[a] > nSequenceId[b]

\* Mutant: the comparison the wrong way round.
MutantPruneBetter(cand, t) == {c \in cand : ~Worse(t, c)}

\* PruneBlockIndexCandidates, for a set of candidates and a tip
PruneBlockIndexCandidates(cand, t) == {c \in cand : ~Worse(c, t)}

-----------------------------------------------------------------------------
(* Validation of a stake pointer.                                          *)

\* Has the pointer already been used in the chain that ends in block b?
IsStakePointerUsed(b, ptr) ==
  LET user == mapUsedStakePointers[ptr] IN
  /\ user \in mapBlockIndex
  /\ nHeight[b] >= nHeight[user]
  /\ b # user
  /\ GetAncestor(b, nHeight[user]) = user

\* Mutant: the age of the payment is not limited.
MutantNoDuration(b) ==
  LET from == stakeSource[b][1] IN
  /\ IsProofOfStake(b)
  /\ from \in mapBlockIndex
  /\ Contains(from)
  /\ nHeight[from] <= nHeight[b] - MaxReorganizationDepth
  /\ ~IsStakePointerUsed(b, stakeSource[b])

\* Mutant: the payment may be in any known chain.
MutantAnyChain(b) ==
  LET from == stakeSource[b][1] IN
  /\ IsProofOfStake(b)
  /\ from \in mapBlockIndex
  /\ nHeight[from] >= nHeight[b] - ValidStakePointerDuration
  /\ nHeight[from] <= nHeight[b] - MaxReorganizationDepth
  /\ ~IsStakePointerUsed(b, stakeSource[b])

\* CheckBlockProofPointer: the payment is in the active chain, neither too old
\* nor too recent, and not used yet.
CheckBlockProofPointer(b) ==
  LET from == stakeSource[b][1] IN
  /\ IsProofOfStake(b)
  /\ from \in mapBlockIndex
  /\ Contains(from)
  /\ nHeight[from] >= nHeight[b] - ValidStakePointerDuration
  /\ nHeight[from] <= nHeight[b] - MaxReorganizationDepth
  /\ ~IsStakePointerUsed(b, stakeSource[b])

\* Mutant: a block AcceptBlock has checked is not checked again.
MutantStakeCheckedOnce(b) ==
  IF nHeight[b] = PoSStartHeight THEN CheckBlockProofPointer(b)
                                 ELSE nHeight[b] < PoSStartHeight => ~IsProofOfStake(b)

\* The part of ConnectBlock that decides on the proof of stake.
CheckStake(b) ==
  IF nHeight[b] >= PoSStartHeight THEN CheckBlockProofPointer(b)
                                  ELSE ~IsProofOfStake(b)

-----------------------------------------------------------------------------
(* Reception of a block: the "block" message and AcceptBlock.              *)

\* The "block" handler hands on only a block whose parent has all its data,
\* AcceptBlockHeader refuses a child of a failed block, and
\* ContextualCheckBlockHeader one that forks off too deep.
AcceptBlockHeader(b, prev) ==
  /\ b \notin mapBlockIndex
  /\ prev \in haveData \ Failed
  /\ ~(nHeight[tip] - (nHeight[prev] + 1) >= MaxReorganizationDepth)

\* AddToBlockIndex and the stake source that AcceptBlock records in the entry
\* before any of the checks on the block's contents.
AddToBlockIndex(b, prev, work, ptr) ==
  LET h == nHeight[prev] + 1 IN
  /\ mapBlockIndex' = mapBlockIndex \cup {b}
  /\ nHeight' = [nHeight EXCEPT ![b] = h]
  /\ nChainWork' = [nChainWork EXCEPT ![b] = nChainWork[prev] + work]
  /\ ancestor' = [ancestor EXCEPT ![b] =
                    [i \in 0..h |-> IF i = h THEN b ELSE ancestor[prev][i]]]
  /\ stakeSource' = [stakeSource EXCEPT ![b] = ptr]

\* AcceptBlock is given either a new block, or one whose entry an earlier
\* refusal left in the index without data.
AcceptableBlock(b, prev, work, ptr) ==
  \/ AcceptBlockHeader(b, prev) /\ AddToBlockIndex(b, prev, work, ptr)
  \/ /\ b \in mapBlockIndex \ (haveData \cup Failed)
     /\ prev = Prev(b) /\ ptr = stakeSource[b]
     /\ work = nChainWork[b] - nChainWork[prev]
     /\ UNCHANGED treeVars

\* A block whose proof of stake AcceptBlock does not take: the pointer is
\* refused, the kernel or the signature is wrong, or the proof tracker finds
\* the block suspicious.  The entry stays in the index without data.
AcceptBlockRefused(b, prev, work, ptr) ==
  /\ pindexMostWork = NoBlock
  /\ AcceptBlockHeader(b, prev) /\ AddToBlockIndex(b, prev, work, ptr)
  /\ "refuse" \in Interventions /\ interventions < MaxInterventions
  /\ nHeight[prev] + 1 > PoSStartHeight
  /\ interventions' = interventions + 1
  /\ UNCHANGED <<dataVars, failVars, setBlockIndexCandidates, tip,
                 mapUsedStakePointers, stepVars>>

\* A block that fails CheckBlock under the lock although it passed it before
\* (an InstantSend lock came in between) or fails ContextualCheckBlock: the
\* entry stays in the index and is marked as failed.
AcceptBlockInvalid(b, prev, work, ptr) ==
  /\ pindexMostWork = NoBlock
  /\ "reject" \in Interventions /\ interventions < MaxInterventions
  /\ AcceptableBlock(b, prev, work, ptr)
  /\ failedValid' = failedValid \cup {b}
  /\ interventions' = interventions + 1
  /\ UNCHANGED <<dataVars, failedChild, setBlockIndexCandidates, tip,
                 mapUsedStakePointers, stepVars>>

\* ReceivedBlockTransactions.  The parent has its data, so the block is
\* linked at once and nothing waits in mapBlocksUnlinked.
ReceivedBlockTransactions(b) ==
  /\ haveData' = haveData \cup {b}
  /\ nSequenceId' = [nSequenceId EXCEPT ![b] = Cardinality(haveData)]
  /\ setBlockIndexCandidates' =
       IF Worse(b, tip)' THEN setBlockIndexCandidates
                         ELSE setBlockIndexCandidates \cup {b}

\* A block that AcceptBlock stores.  The stake is checked strictly above
\* PoSStartHeight; the block at that height is checked when it is connected.
AcceptBlock(b, prev, work, ptr) ==
  /\ pindexMostWork = NoBlock
  /\ AcceptableBlock(b, prev, work, ptr)
  /\ UNCHANGED <<failVars, tip, mapUsedStakePointers, stepVars, interventions>>
  /\ (nHeight[b] > PoSStartHeight => CheckBlockProofPointer(b))'
  /\ ReceivedBlockTransactions(b)

-----------------------------------------------------------------------------
(* Activation of the best chain.                                           *)

\* The blocks between the active chain and candidate c.
Path(c) == ChainOf(c) \ ActiveChain

\* Mutant: only the candidate itself is looked at.
MutantUsableTip(c) == c \notin Failed

Usable(c) == Path(c) \cap Failed = {}

\* The usable candidates that no usable one beats.
BestCandidates ==
  {c \in setBlockIndexCandidates :
     /\ Usable(c)
     /\ \A d \in setBlockIndexCandidates : Usable(d) => ~Worse(c, d)}

\* What FindMostWorkChain discards for an unusable candidate: everything
\* from the candidate down to the first failed block it meets.
Discarded(c) ==
  {x \in Path(c) : \A y \in Path(c) : nHeight[y] > nHeight[x] => y \notin Failed}

\* FindMostWorkChain tries the candidates from the best one down, discards
\* the unusable ones it meets, and marks them as children of a failed block.
\* If the result is not the tip, ActivateBestChain begins a step towards it.
FindMostWorkChain ==
  LET tried == {c \in setBlockIndexCandidates :
                  ~Usable(c) /\ \A d \in BestCandidates : Worse(d, c)}
      gone == UNION {Discarded(c) : c \in tried}
  IN
  /\ pindexMostWork = NoBlock
  /\ failedChild' = failedChild \cup (gone \ Failed)
  /\ setBlockIndexCandidates' = setBlockIndexCandidates \ gone
  /\ \/ /\ BestCandidates \subseteq {tip}
        /\ UNCHANGED stepVars
     \/ /\ pindexMostWork' \in BestCandidates \ {tip}
        /\ pindexOldTip' = tip
  /\ UNCHANGED <<treeVars, dataVars, failedValid, tip, mapUsedStakePointers,
                 interventions>>

\* Mutant: the pointers are not given back.
MutantKeepPointers(t) == tip' = t /\ UNCHANGED mapUsedStakePointers

\* DisconnectTip, once for every block above t: each gives its pointer back.
DisconnectTo(t) ==
  /\ tip' = t
  /\ mapUsedStakePointers' =
       [p \in Pointer |->
          IF \E b \in ActiveChain : nHeight[b] > nHeight[t] /\ stakeSource[b] = p
            THEN NoBlock ELSE mapUsedStakePointers[p]]

DisconnectTip ==
  /\ pindexMostWork # NoBlock
  /\ GetAncestor(pindexMostWork, nHeight[tip]) # tip
  /\ DisconnectTo(Prev(tip))
  /\ pindexMostWork' = IF Prev(tip) = pindexMostWork THEN NoBlock ELSE pindexMostWork
  /\ UNCHANGED <<treeVars, dataVars, failVars, setBlockIndexCandidates,
                 pindexOldTip, interventions>>

\* The next block ActivateBestChainStep connects, once every block that is
\* not below its target has been disconnected.
Connecting(b) ==
  /\ pindexMostWork # NoBlock
  /\ GetAncestor(pindexMostWork, nHeight[tip]) = tip
  /\ b = GetAncestor(pindexMostWork, nHeight[tip] + 1)

\* The pointer a connected block consumes (emplace keeps an entry that is
\* there already).
EmplacePointer(b) ==
  mapUsedStakePointers' =
    [p \in Pointer |-> IF p = stakeSource[b] /\ mapUsedStakePointers[p] = NoBlock
                         THEN b ELSE mapUsedStakePointers[p]]

\* ConnectTip succeeds.  The step goes on unless it has reached its target or
\* the chain has become better than the one it started from.
ConnectTip(b) ==
  /\ Connecting(b)
  /\ CheckStake(b)
  /\ tip' = b
  /\ EmplacePointer(b)
  /\ setBlockIndexCandidates' = PruneBlockIndexCandidates(setBlockIndexCandidates, b)
  /\ pindexMostWork' = IF b = pindexMostWork \/ nChainWork[b] > nChainWork[pindexOldTip]
                         THEN NoBlock ELSE pindexMostWork
  /\ UNCHANGED <<treeVars, dataVars, failVars, pindexOldTip, interventions>>

\* ConnectBlock finds the block invalid: InvalidBlockFound marks it and the
\* step ends where it is.
InvalidBlockFound(b) ==
  /\ failedValid' = failedValid \cup {b}
  /\ setBlockIndexCandidates' = setBlockIndexCandidates \ {b}
  /\ pindexMostWork' = NoBlock
  /\ UNCHANGED <<treeVars, dataVars, failedChild, tip, mapUsedStakePointers,
                 pindexOldTip>>

ConnectTipBadStake(b) ==
  /\ Connecting(b)
  /\ ~CheckStake(b)
  /\ InvalidBlockFound(b)
  /\ UNCHANGED interventions

\* The block is rejected for another reason, which may be new since the block
\* was last looked at: an InstantSend lock on an input it spends, a payee.
ConnectTipRejected(b) ==
  /\ Connecting(b)
  /\ "reject" \in Interventions /\ interventions < MaxInterventions
  /\ InvalidBlockFound(b)
  /\ interventions' = interventions + 1

-----------------------------------------------------------------------------
(* Interventions: the RPCs invalidateblock and reconsiderblock, and the    *)
(* replay of blocks on a spork or a completed InstantSend lock.  Each of   *)
(* them calls ActivateBestChain next.                                      *)

Intervene(kind) ==
  /\ pindexMostWork = NoBlock
  /\ kind \in Interventions /\ interventions < MaxInterventions
  /\ interventions' = interventions + 1

\* Mutant: the candidates that were pruned are not put back.
MutantInvalidate(b) ==
  LET t == IF Contains(b) THEN Prev(b) ELSE tip
      walked == ActiveChain \ ChainOf(t)
  IN
  /\ Intervene("invalidate")
  /\ b \in mapBlockIndex \ {0}
  /\ failedValid' = failedValid \cup {b}
  /\ failedChild' = failedChild \cup walked
  /\ DisconnectTo(t)
  /\ setBlockIndexCandidates' = setBlockIndexCandidates \ ({b} \cup walked)
  /\ UNCHANGED <<treeVars, dataVars, stepVars>>

InvalidateBlock(b) ==
  LET t == IF Contains(b) THEN Prev(b) ELSE tip
      walked == ActiveChain \ ChainOf(t)
  IN
  /\ Intervene("invalidate")
  /\ b \in mapBlockIndex \ {0}
  /\ failedValid' = failedValid \cup {b}
  /\ failedChild' = failedChild \cup walked
  /\ DisconnectTo(t)
  /\ setBlockIndexCandidates' =
       (setBlockIndexCandidates \ ({b} \cup walked))
         \cup {x \in haveData \ (Failed \cup {b} \cup walked) : ~Worse(x, t)}
  /\ UNCHANGED <<treeVars, dataVars, stepVars>>

\* Mutant: blocks without data become candidates too.
MutantReconsider(b) ==
  LET cleared == Descendants(b) \cap Failed
      valid   == cleared \cup ChainOf(b)
  IN
  /\ Intervene("reconsider")
  /\ b \in mapBlockIndex
  /\ failedValid' = failedValid \ valid
  /\ failedChild' = failedChild \ valid
  /\ setBlockIndexCandidates' =
       setBlockIndexCandidates \cup {x \in cleared : Worse(tip, x)}
  /\ UNCHANGED <<treeVars, dataVars, tip, mapUsedStakePointers, stepVars>>

ReconsiderBlock(b) ==
  LET cleared == Descendants(b) \cap Failed
      valid   == cleared \cup ChainOf(b)
  IN
  /\ Intervene("reconsider")
  /\ b \in mapBlockIndex
  /\ failedValid' = failedValid \ valid
  /\ failedChild' = failedChild \ valid
  /\ setBlockIndexCandidates' =
       setBlockIndexCandidates \cup {x \in cleared \cap haveData : Worse(tip, x)}
  /\ UNCHANGED <<treeVars, dataVars, tip, mapUsedStakePointers, stepVars>>

\* ReprocessBlocks: first a ReconsiderBlock, under a lock of its own, for each
\* block rejected within a time window, then DisconnectBlocksAndReprocess(n),
\* whose loop runs from 0 to n inclusive.
DisconnectBlocksAndReprocess(n) ==
  /\ Intervene("reprocess")
  /\ n + 1 <= nHeight[tip]
  /\ DisconnectTo(ancestor[tip][nHeight[tip] - (n + 1)])
  /\ UNCHANGED <<treeVars, dataVars, failVars, setBlockIndexCandidates, stepVars>>

-----------------------------------------------------------------------------
Init ==
  /\ mapBlockIndex = 0..InitHeight
  /\ haveData = 0..InitHeight
  /\ nHeight = [b \in Block |-> IF b <= InitHeight THEN b ELSE 0]
  /\ nChainWork \in {[b \in Block |-> IF b <= InitHeight THEN w * b ELSE 0] : w \in Work}
  /\ ancestor = [b \in Block |-> [h \in 0..(IF b <= InitHeight THEN b ELSE 0) |-> h]]
  /\ stakeSource = [b \in Block |-> NoPointer]
  /\ nSequenceId = [b \in Block |-> IF b <= InitHeight THEN b ELSE 0]
  /\ failedValid = {} /\ failedChild = {}
  /\ setBlockIndexCandidates = {InitHeight}
  /\ tip = InitHeight
  /\ mapUsedStakePointers = [p \in Pointer |-> NoBlock]
  /\ pindexMostWork = NoBlock /\ pindexOldTip = InitHeight
  /\ interventions = 0

\* A block arrives: a new one takes the first number that is free.  Its
\* pointer names a block of the index (any other is refused for good).
Arriving == {b \in Block \ haveData : b <= Cardinality(mapBlockIndex)}

ReceiveBlock ==
  \E b \in Arriving, prev \in haveData, work \in Work,
     ptr \in (mapBlockIndex \X Slot) \cup {NoPointer} :
       \/ AcceptBlock(b, prev, work, ptr)
       \/ AcceptBlockRefused(b, prev, work, ptr)
       \/ AcceptBlockInvalid(b, prev, work, ptr)

ActivateBestChain ==
  \/ FindMostWorkChain
  \/ DisconnectTip
  \/ \E b \in Block : ConnectTip(b) \/ ConnectTipBadStake(b) \/ ConnectTipRejected(b)

Next ==
  \/ ReceiveBlock
  \/ ActivateBestChain
  \/ \E b \in Block : InvalidateBlock(b) \/ ReconsiderBlock(b)
  \/ \E n \in ReprocessDepth : DisconnectBlocksAndReprocess(n)

Spec == Init /\ [][Next]_vars

\* Whoever changes the block tree calls ActivateBestChain afterwards, and
\* nothing in its loop waits for anything but cs_main.
FairSpec == Spec /\ WF_vars(ActivateBestChain)


-----------------------------------------------------------------------------
(* Properties.                                                             *)

\* The state of the block tree has the shape the declarations say.
TypeOK ==
  /\ mapBlockIndex \subseteq Block /\ haveData \subseteq mapBlockIndex
  /\ nHeight \in [Block -> Nat]
  /\ nChainWork \in [Block -> Nat]
  /\ nSequenceId \in [Block -> Nat]
  /\ ancestor = [b \in Block |-> ancestor[b]]
  /\ \A b \in mapBlockIndex : ancestor[b] \in [0..nHeight[b] -> mapBlockIndex]
  /\ stakeSource \in [Block -> Pointer \cup {NoPointer}]
  /\ failedValid \subseteq mapBlockIndex /\ failedChild \subseteq mapBlockIndex
  /\ setBlockIndexCandidates \subseteq haveData
  /\ tip \in haveData
  /\ mapUsedStakePointers \in [Pointer -> Block \cup {NoBlock}]
  /\ pindexMostWork \in haveData \cup {NoBlock}
  /\ pindexOldTip \in haveData
  /\ interventions \in 0..MaxInterventions

\* The index is a tree: every entry's chain of ancestors starts at the genesis
\* block, climbs one height at a time and agrees with that of each ancestor,
\* and a block with data has data all the way down (nChainTx # 0).  This is
\* what the other invariants rest on.
IndexIsTree ==
  /\ \A b \in mapBlockIndex :
       /\ ancestor[b][0] = 0
       /\ ancestor[b][nHeight[b]] = b
       /\ \A h \in 0..nHeight[b] :
            /\ nHeight[ancestor[b][h]] = h
            /\ \A i \in 0..h : ancestor[ancestor[b][h]][i] = ancestor[b][i]
  /\ \A b \in haveData : \A h \in 0..nHeight[b] : ancestor[b][h] \in haveData

\* No stake pointer pays for two blocks of the active chain, whatever
\* reorganisations, replays and refusals the chain went through
\* (doc/Crown-MNPoS.md: "Stake pointers can only be used once").
StakePointerUsedOnce ==
  \A a, b \in ActiveChain :
    IsProofOfStake(a) /\ stakeSource[a] = stakeSource[b] => a = b

\* mapUsedStakePointers says exactly which pointers the active chain has
\* consumed and where: the entries ConnectBlock adds and DisconnectBlock
\* erases always balance.
UsedMapExact ==
  /\ \A b \in ActiveChain : IsProofOfStake(b) => mapUsedStakePointers[stakeSource[b]] = b
  /\ \A p \in Pointer : mapUsedStakePointers[p] # NoBlock =>
       /\ mapUsedStakePointers[p] \in ActiveChain
       /\ stakeSource[mapUsedStakePointers[p]] = p

\* Every proof of stake block of the active chain was paid for by a block
\* below it in the same chain, at least MaxReorganizationDepth and at most
\* ValidStakePointerDuration blocks deep, although the check was made against
\* whatever chain was active at that time.
ActiveStakeSourcesMature ==
  \A b \in ActiveChain : nHeight[b] >= PoSStartHeight =>
    /\ IsProofOfStake(b)
    /\ \E h \in 0..nHeight[b] :
         /\ stakeSource[b][1] = ancestor[b][h]
         /\ nHeight[b] - ValidStakePointerDuration <= h
         /\ h <= nHeight[b] - MaxReorganizationDepth

\* Blocks that have data and no failed ancestor.
FullyValid == {b \in haveData : ChainOf(b) \cap Failed = {}}

\* ActivateBestChain has nothing left to do.
Settled == pindexMostWork = NoBlock /\ BestCandidates \subseteq {tip}

\* "The result is either failure or an activated best chain" (comment on
\* ActivateBestChain, main.cpp:3006-3007): when activation has nothing left to
\* do, no known valid block beats the tip.  A failed reorganisation must not
\* lose the best chain from setBlockIndexCandidates.
BestChainActive == Settled => \A b \in FullyValid : ~Worse(tip, b)

\* The active chain never holds a block that is marked as failed, nor one
\* with a failed ancestor.
ActiveChainValid == tip \in FullyValid

\* A reorganisation that reaches its target builds on a block at most
\* ValidStakePointerDuration below it: the target was stored with a pointer of
\* the chain that it replaces, and is connected only if that payment is in its
\* own chain too.  So it is while no block has failed; an activation that fails
\* half way leaves the node on a chain no pointer was checked against.  (Up to
\* PoSStartHeight nothing limits a fork.)
ReorgWithinPointerWindow ==
  [][(/\ pindexMostWork # NoBlock /\ tip' = pindexMostWork
      /\ Failed' = {} /\ nHeight[tip'] > PoSStartHeight)
     => \E x \in ChainOf(pindexOldTip) \cap ChainOf(tip') :
          nHeight[x] >= nHeight[tip'] - ValidStakePointerDuration]_vars

\* A valid block that beats the tip is connected in the end, unless it turns
\* out to be invalid or a better one takes its place.
BetterBlockIsActivated ==
  \A b \in Block :
    (b \in FullyValid /\ Worse(tip, b)) ~> (b \notin FullyValid \/ ~Worse(tip, b))

=============================================================================
