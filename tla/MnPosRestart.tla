---------------------------- MODULE MnPosRestart ----------------------------
(***************************************************************************)
(* MnPosChain over several runs of the process: what FlushStateToDisk      *)
(* writes of the block index and of the coins, a stop or a crash at any    *)
(* moment, and the start that follows, which loads the index                *)
(* (LoadBlockIndexGuts, LoadBlockIndexDB), rebuilds mapUsedStakePointers    *)
(* from it and verifies the chain (VerifyDB).                               *)
(*                                                                         *)
(* The height, work, ancestors and stake source of an entry do not change, *)
(* so that the disk needs no copy of them; what is lost with the memory is *)
(* which blocks have an entry, their status, and the coins of the tip.     *)
(***************************************************************************)
EXTENDS MnPosChain

CONSTANTS
  Hash,           \* the order of the entries in the database
  Address,        \* the order of the entries in memory after a start
  WriteModes,     \* which of "index", "full" and "partial" may happen
  MaxCrashes,     \* bound on the number of crashes
  CheckDepth      \* the depths with which the RPC verifychain is called

ASSUME RestartAssumption ==
  /\ Hash \in [Block -> Nat]
  /\ \A a, b \in Block : Hash[a] = Hash[b] => a = b
  /\ Address \in [Block -> Nat]
  /\ \A a, b \in Block : Address[a] = Address[b] => a = b
  /\ MaxCrashes \in Nat
  /\ CheckDepth \subseteq Nat

VARIABLES
  setDirtyBlockIndex, \* entries that differ from what is on disk
  diskIndex,          \* the blocks with an entry on disk,
  diskData,           \* those of them with BLOCK_HAVE_DATA,
  diskFailedValid,    \* with BLOCK_FAILED_VALID
  diskFailedChild,    \* and with BLOCK_FAILED_CHILD
  diskBest,           \* the best block of the coin database
  running,            \* FALSE from a crash to the end of the next start
  crashes             \* number of crashes so far (a bound of the model)

diskVars    == <<diskIndex, diskData, diskFailedValid, diskFailedChild>>
restartVars == <<setDirtyBlockIndex, diskVars, diskBest, running, crashes>>
allVars     == <<vars, restartVars>>

-----------------------------------------------------------------------------
(* The running node.                                                       *)

\* The entries a step of MnPosChain puts into setDirtyBlockIndex: the ones it
\* adds (main.cpp:3159) or gives data (3174), the ones it marks as failed (1917,
\* 3066, 3612) or clears (3105, 3121), and the blocks invalidateblock walks down
\* (3072).  FindMostWorkChain sets BLOCK_FAILED_CHILD without a note.  The notes
\* of ConnectBlock (2494) are about undo data, which the entries here do not have.
Touched ==
  (mapBlockIndex' \ mapBlockIndex) \cup (haveData' \ haveData)
    \cup (failedValid' \ failedValid) \cup (failedValid \ failedValid')
    \cup (failedChild \ failedChild')
    \cup (IF tip' # tip THEN failedChild' \ failedChild ELSE {})

\* Mutant: a changed status is not noted.
MutantOnlyNew ==
  /\ running
  /\ Next
  /\ setDirtyBlockIndex' = setDirtyBlockIndex \cup (mapBlockIndex' \ mapBlockIndex)
  /\ UNCHANGED <<diskVars, diskBest, running, crashes>>

ChainStep ==
  /\ running
  /\ Next
  /\ setDirtyBlockIndex' = setDirtyBlockIndex \cup Touched
  /\ UNCHANGED <<diskVars, diskBest, running, crashes>>

\* The RPC verifychain at level 3: VerifyDB disconnects the last blocks from a
\* copy of the coins, and DisconnectBlock erases their pointers (fVerifying is
\* set at a start only).  Level 4 connects them again, lower levels do neither.
\* A depth of 0 stands for the whole chain; caches that grow too large end it
\* earlier, as a smaller depth does.
VerifyChain(depth) ==
  /\ running
  /\ Intervene("verify")
  /\ mapUsedStakePointers' =
       [p \in Pointer |->
          IF \E b \in ActiveChain \ {0} :
               /\ depth = 0 \/ nHeight[b] >= nHeight[tip] - depth
               /\ stakeSource[b] = p
            THEN NoBlock ELSE mapUsedStakePointers[p]]
  /\ UNCHANGED <<treeVars, dataVars, failVars, setBlockIndexCandidates, tip,
                 stepVars, restartVars>>

-----------------------------------------------------------------------------
(* Writing to disk.                                                        *)

\* Mutant: the status of all entries is written, whether they are or not.
MutantWriteAll(S) ==
  /\ diskIndex' = diskIndex \cup S
  /\ diskData' = haveData
  /\ diskFailedValid' = failedValid
  /\ diskFailedChild' = failedChild

\* WriteBlockIndex, for each of a set of entries.
WriteBlockIndex(S) ==
  /\ diskIndex' = diskIndex \cup S
  /\ diskData' = (diskData \ S) \cup (haveData \cap S)
  /\ diskFailedValid' = (diskFailedValid \ S) \cup (failedValid \cap S)
  /\ diskFailedChild' = (diskFailedChild \ S) \cup (failedChild \cap S)

\* Mutant: the coins are flushed without the index.
MutantCoinsFirst(full) ==
  /\ running
  /\ (IF full THEN "full" ELSE "index") \in WriteModes
  /\ IF full THEN UNCHANGED <<diskVars, setDirtyBlockIndex>>
             ELSE WriteBlockIndex(setDirtyBlockIndex) /\ setDirtyBlockIndex' = {}
  /\ diskBest' = IF full THEN tip ELSE diskBest
  /\ UNCHANGED <<vars, running, crashes>>

\* FlushStateToDisk: the index (fPeriodicWrite) and, for a full flush
\* (fDoFullFlush), the coins after it.  A flush in the middle of a
\* reorganisation comes from ConnectTip or DisconnectTip.
FlushStateToDisk(full) ==
  /\ running
  /\ (IF full THEN "full" ELSE "index") \in WriteModes
  /\ WriteBlockIndex(setDirtyBlockIndex)
  /\ setDirtyBlockIndex' = {}
  /\ diskBest' = IF full THEN tip ELSE diskBest
  /\ UNCHANGED <<vars, running, crashes>>

\* The process ends, in the middle of writing the index perhaps: the entries
\* are written one at a time, in no order the tree would give.
Crash(S) ==
  /\ running
  /\ crashes < MaxCrashes
  /\ S # {} => "partial" \in WriteModes
  /\ WriteBlockIndex(S)
  /\ running' = FALSE
  /\ crashes' = crashes + 1
  /\ UNCHANGED <<vars, setDirtyBlockIndex, diskBest>>

-----------------------------------------------------------------------------
(* The next start.                                                         *)

\* Every entry on disk has its parent on disk, and every block with data one
\* with data.  Where a crash left a hole, InsertBlockIndex makes up an entry
\* without height and parent, and the branch above the hole is not linked to
\* the tree: what the node does from there on is not modelled.
Closed ==
  \A b \in diskIndex :
    ChainOf(b) \subseteq diskIndex /\ (b \in diskData => ChainOf(b) \subseteq diskData)

\* Mutant: the entries of the last run are kept.
MutantKeepRecord == mapUsedStakePointers

\* LoadBlockIndexGuts: every proof of stake entry of the index consumes its
\* pointer; emplace keeps the first, in the order of the hashes.
LoadBlockIndexGuts ==
  LET users(p) == {b \in diskIndex : stakeSource[b] = p} IN
  [p \in Pointer |->
     IF users(p) = {} THEN NoBlock
     ELSE CHOOSE b \in users(p) : \A c \in users(p) : Hash[b] <= Hash[c]]

\* The order of the candidates of equal work after a start: their sequence
\* numbers are all 0, so it is that of their addresses.
LoadedSequence ==
  [b \in Block |-> IF b \in diskData
                     THEN Cardinality({c \in diskData : Address[c] < Address[b]})
                     ELSE 0]

LoadedWorse(a, b) ==
  \/ nChainWork[a] < nChainWork[b]
  \/ nChainWork[a] = nChainWork[b] /\ LoadedSequence[a] > LoadedSequence[b]

\* The blocks with data that are not marked as failed, without those that
\* PruneBlockIndexCandidates drops.
LoadedCandidates ==
  {b \in diskData \ (diskFailedValid \cup diskFailedChild) : ~LoadedWorse(b, diskBest)}

\* VerifyDB at level 4 connects the blocks of the active chain again: none of
\* them may have a pointer that is used below it.
VerifyDB ==
  \A b \in ChainOf(diskBest) :
    LET user == LoadBlockIndexGuts[stakeSource[b]] IN
    IsProofOfStake(b) => user = b \/ user \notin ChainOf(b)

\* PruneBlockIndexCandidates: "assert(!setBlockIndexCandidates.empty())".
Startable == Closed /\ LoadedCandidates # {} /\ VerifyDB

\* Mutant: only the tip is a candidate.
MutantLoad ==
  /\ ~running /\ Startable
  /\ mapBlockIndex' = diskIndex /\ haveData' = diskData
  /\ failedValid' = diskFailedValid /\ failedChild' = diskFailedChild
  /\ nHeight' = [b \in Block |-> IF b \in diskIndex THEN nHeight[b] ELSE 0]
  /\ nChainWork' = [b \in Block |-> IF b \in diskIndex THEN nChainWork[b] ELSE 0]
  /\ ancestor' = [b \in Block |-> IF b \in diskIndex THEN ancestor[b] ELSE [h \in {0} |-> 0]]
  /\ stakeSource' = [b \in Block |-> IF b \in diskIndex THEN stakeSource[b] ELSE NoPointer]
  /\ nSequenceId' = LoadedSequence
  /\ setBlockIndexCandidates' = {diskBest}
  /\ tip' = diskBest
  /\ mapUsedStakePointers' = LoadBlockIndexGuts
  /\ pindexMostWork' = NoBlock /\ pindexOldTip' = diskBest
  /\ setDirtyBlockIndex' = {} /\ running' = TRUE
  /\ UNCHANGED <<interventions, diskVars, diskBest, crashes>>

LoadBlockIndexDB ==
  /\ ~running /\ Startable
  /\ mapBlockIndex' = diskIndex /\ haveData' = diskData
  /\ failedValid' = diskFailedValid /\ failedChild' = diskFailedChild
  /\ nHeight' = [b \in Block |-> IF b \in diskIndex THEN nHeight[b] ELSE 0]
  /\ nChainWork' = [b \in Block |-> IF b \in diskIndex THEN nChainWork[b] ELSE 0]
  /\ ancestor' = [b \in Block |-> IF b \in diskIndex THEN ancestor[b] ELSE [h \in {0} |-> 0]]
  /\ stakeSource' = [b \in Block |-> IF b \in diskIndex THEN stakeSource[b] ELSE NoPointer]
  /\ nSequenceId' = LoadedSequence
  /\ setBlockIndexCandidates' = LoadedCandidates
  /\ tip' = diskBest
  /\ mapUsedStakePointers' = LoadBlockIndexGuts
  /\ pindexMostWork' = NoBlock /\ pindexOldTip' = diskBest
  /\ setDirtyBlockIndex' = {} /\ running' = TRUE
  /\ UNCHANGED <<interventions, diskVars, diskBest, crashes>>

-----------------------------------------------------------------------------
RestartInit ==
  /\ Init
  /\ setDirtyBlockIndex = {}
  /\ diskIndex = mapBlockIndex /\ diskData = haveData
  /\ diskFailedValid = {} /\ diskFailedChild = {}
  /\ diskBest = tip
  /\ running = TRUE /\ crashes = 0

RestartNext ==
  \/ ChainStep
  \/ \E full \in BOOLEAN : FlushStateToDisk(full)
  \/ \E S \in SUBSET setDirtyBlockIndex : Crash(S)
  \/ LoadBlockIndexDB
  \/ \E depth \in CheckDepth : VerifyChain(depth)

RestartSpec == RestartInit /\ [][RestartNext]_allVars

-----------------------------------------------------------------------------
(* Properties.                                                             *)

\* The state of the node and of its disk has the shape the declarations say.
RestartTypeOK ==
  /\ TypeOK
  /\ setDirtyBlockIndex \subseteq mapBlockIndex
  /\ diskIndex \subseteq mapBlockIndex
  /\ diskData \subseteq diskIndex
  /\ diskFailedValid \subseteq diskIndex /\ diskFailedChild \subseteq diskIndex
  /\ diskBest \in Block
  /\ running \in BOOLEAN
  /\ crashes \in 0..MaxCrashes

\* Wherever the process is cut off, the coin database names a block whose whole
\* chain is in the index on disk with its data: the coins never get ahead of
\* the index ("This can only be done if the blocks / block index write was also
\* done", main.cpp:2593).
CoinsWithinIndex == diskBest \in diskData /\ ChainOf(diskBest) \subseteq diskData

\* The record of used pointers never makes the node refuse an unused pointer:
\* an entry names a block that is in the index and has that pointer, also when
\* blocks were lost in a crash.
UsedMapSound ==
  \A p \in Pointer : mapUsedStakePointers[p] # NoBlock =>
    /\ mapUsedStakePointers[p] \in mapBlockIndex
    /\ stakeSource[mapUsedStakePointers[p]] = p

\* An entry that is not noted as dirty is on disk as it is in memory, up to
\* the marks of FindMostWorkChain: a crash loses nothing else but what
\* FlushStateToDisk was still going to write.
CleanEntriesOnDisk ==
  running => \A b \in mapBlockIndex \ setDirtyBlockIndex :
    /\ b \in diskIndex
    /\ b \in haveData <=> b \in diskData
    /\ b \in failedValid <=> b \in diskFailedValid
    /\ b \in diskFailedChild => b \in failedChild

\* After any number of crashes a settled node is on the best valid chain of
\* those it knows: the candidates that a start rebuilds from the index are as
\* good as the ones that were lost.
BestChainAfterRestart == running => BestChainActive

=============================================================================
