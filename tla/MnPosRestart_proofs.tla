------------------------ MODULE MnPosRestart_proofs -------------------------
(***************************************************************************)
(* Proofs about MnPosRestart: what survives any number of crashes, at any  *)
(* moment and in the middle of any write, for every size of the tree, all  *)
(* parameters and every order of hashes and addresses.                     *)
(***************************************************************************)
EXTENDS MnPosRestart, MnPosChain_proofs

\* The invariant: next to what holds of the memory (TInv), the chain of the
\* coins on disk is one that was active, and memory has the data of all blocks
\* the disk has.  CleanEntriesOnDisk is what makes the coins safe: they are
\* written with the entries that are dirty, and the others are there already.
RInv ==
  /\ TInv /\ RestartTypeOK
  /\ CoinsWithinIndex /\ CleanEntriesOnDisk /\ UsedMapSound
  /\ diskData \subseteq haveData
  /\ \A b \in ChainOf(diskBest) : Mature(b)

(***************************************************************************)
(* Small facts.                                                            *)
(***************************************************************************)

\* A set of blocks has one with the smallest hash.
LEMMA LeastHash ==
  ASSUME NEW D, NEW H \in [D -> Nat], NEW U \in SUBSET D, U # {}
  PROVE  \E b \in U : \A c \in U : H[b] <= H[c]
<1> DEFINE T == {H[u] : u \in U}
<1>1. T \subseteq Nat /\ T # {}  OBVIOUS
<1>2. \E x \in T : \A y \in T : x <= y
  <2> HIDE DEF T
  <2>. QED  BY <1>1, NatLeast
<1>. QED  BY <1>2

LEMMA MatureIsActive ==
  ActiveStakeSourcesMature <=> \A b \in ActiveChain : Mature(b)
BY DEF ActiveStakeSourcesMature, Mature

\* The entry of a block of the index stays as it is.
LEMMA EntriesStay ==
  ASSUME TypeOK, IndexIsTree, NEW b \in mapBlockIndex,
         \A x \in mapBlockIndex : /\ nHeight'[x] = nHeight[x]
                                  /\ ancestor'[x] = ancestor[x]
                                  /\ stakeSource'[x] = stakeSource[x]
  PROVE  /\ ChainOf(b)' = ChainOf(b)
         /\ \A x \in ChainOf(b) : x \in mapBlockIndex /\ (Mature(x)' <=> Mature(x))
<1>1. ChainOf(b)' = ChainOf(b)  BY DEF ChainOf
<1>2. \A x \in ChainOf(b) : x \in mapBlockIndex  BY ChainOfAncestor DEF ChainOf
<1>3. \A x \in mapBlockIndex : Mature(x)' <=> Mature(x)
  BY DEF Mature, IsProofOfStake
<1>. QED  BY <1>1, <1>2, <1>3

(***************************************************************************)
(* The actions.                                                            *)
(***************************************************************************)

LEMMA ChainStepKeeps ==
  ASSUME RInv, ChainAssumption, ChainStep
  PROVE  RInv'
<1>0. /\ TInv /\ TypeOK /\ IndexIsTree
      /\ setDirtyBlockIndex \subseteq mapBlockIndex /\ diskIndex \subseteq mapBlockIndex
      /\ diskData \subseteq diskIndex /\ diskBest \in mapBlockIndex
      /\ diskFailedValid \subseteq diskIndex /\ diskFailedChild \subseteq diskIndex
      /\ diskBest \in Block /\ running \in BOOLEAN /\ crashes \in 0..MaxCrashes
      /\ haveData \subseteq mapBlockIndex
  BY DEF RInv, TInv, RestartTypeOK, CoinsWithinIndex, TypeOK
<1>1. /\ Next /\ running
      /\ setDirtyBlockIndex' = setDirtyBlockIndex \cup Touched
      /\ diskIndex' = diskIndex /\ diskData' = diskData
      /\ diskFailedValid' = diskFailedValid /\ diskFailedChild' = diskFailedChild
      /\ diskBest' = diskBest /\ running' = running /\ crashes' = crashes
  BY DEF ChainStep, diskVars
<1>2. TInv'  BY <1>0, <1>1, NextTInv
<1>3. /\ mapBlockIndex \subseteq mapBlockIndex' /\ haveData \subseteq haveData'
      /\ \A x \in mapBlockIndex : /\ nHeight'[x] = nHeight[x]
                                  /\ ancestor'[x] = ancestor[x]
                                  /\ stakeSource'[x] = stakeSource[x]
  BY <1>0, <1>1, IndexGrows
<1>4. TypeOK' /\ mapBlockIndex' \subseteq Block
      /\ haveData' \subseteq mapBlockIndex' /\ failedValid' \subseteq mapBlockIndex'
      /\ failedChild' \subseteq mapBlockIndex'
      /\ failedValid \subseteq mapBlockIndex /\ failedChild \subseteq mapBlockIndex
  BY <1>0, <1>2 DEF TInv, TypeOK
<1>5. Touched \subseteq mapBlockIndex'  BY <1>3, <1>4 DEF Touched
<1>6. RestartTypeOK'
  BY <1>0, <1>1, <1>3, <1>4, <1>5 DEF RestartTypeOK
<1>7. /\ ChainOf(diskBest)' = ChainOf(diskBest)
      /\ \A x \in ChainOf(diskBest) : x \in mapBlockIndex /\ (Mature(x)' <=> Mature(x))
  <2>1. ChainOf(diskBest)' = ChainOf(diskBest)  BY <1>0, <1>1, <1>3 DEF ChainOf
  <2>. QED  BY <2>1, <1>0, <1>3, EntriesStay
<1>8. CoinsWithinIndex' /\ \A b \in ChainOf(diskBest)' : Mature(b)'
  BY <1>1, <1>7 DEF RInv, CoinsWithinIndex
<1>9. (diskData \subseteq haveData)'  BY <1>1, <1>3 DEF RInv
<1>10. CleanEntriesOnDisk'
  <2> SUFFICES ASSUME NEW b \in mapBlockIndex', b \notin setDirtyBlockIndex'
               PROVE  /\ b \in diskIndex
                      /\ b \in haveData' <=> b \in diskData
                      /\ b \in failedValid' <=> b \in diskFailedValid
                      /\ b \in diskFailedChild => b \in failedChild'
    BY <1>1 DEF CleanEntriesOnDisk
  <2>1. b \notin Touched /\ b \notin setDirtyBlockIndex  BY <1>1
  <2>2. b \in mapBlockIndex  BY <2>1 DEF Touched
  <2>3. /\ b \in diskIndex
        /\ b \in haveData <=> b \in diskData
        /\ b \in failedValid <=> b \in diskFailedValid
        /\ b \in diskFailedChild => b \in failedChild
    BY <1>1, <2>1, <2>2 DEF RInv, CleanEntriesOnDisk
  <2>4. /\ b \in haveData' <=> b \in haveData
        /\ b \in failedValid' <=> b \in failedValid
        /\ b \in failedChild => b \in failedChild'
    BY <1>3, <2>1 DEF Touched
  <2>. QED  BY <2>3, <2>4
<1>11. UsedMapSound'
  <2>1. \A p \in Pointer : mapUsedStakePointers[p] # NoBlock =>
          /\ mapUsedStakePointers[p] \in mapBlockIndex
          /\ stakeSource[mapUsedStakePointers[p]] = p
    BY DEF RInv, UsedMapSound
  <2>2. CASE mapUsedStakePointers' = mapUsedStakePointers
    BY <2>1, <2>2, <1>3 DEF UsedMapSound
  <2>3. ASSUME NEW t \in ActiveChain, DisconnectTo(t), UNCHANGED treeVars
        PROVE  UsedMapSound'
    <3>1. \A p \in Pointer : mapUsedStakePointers'[p] \in {mapUsedStakePointers[p], NoBlock}
      BY <2>3 DEF DisconnectTo
    <3>. QED  BY <3>1, <2>1, <1>3 DEF UsedMapSound
  <2>4. ASSUME NEW b \in mapBlockIndex, EmplacePointer(b), UNCHANGED treeVars
        PROVE  UsedMapSound'
    <3>1. \A p \in Pointer : \/ mapUsedStakePointers'[p] = mapUsedStakePointers[p]
                             \/ mapUsedStakePointers'[p] = b /\ p = stakeSource[b]
      BY <2>4 DEF EmplacePointer
    <3>. QED  BY <3>1, <2>1, <1>3 DEF UsedMapSound
  <2>. QED  BY <1>0, <1>1, <2>2, <2>3, <2>4, ActiveChainSteps
<1>. QED  BY <1>2, <1>6, <1>8, <1>9, <1>10, <1>11 DEF RInv

\* Writing entries of the index, whichever: the disk comes closer to memory.
LEMMA WriteKeeps ==
  ASSUME RInv, NEW S \in SUBSET setDirtyBlockIndex, WriteBlockIndex(S), UNCHANGED vars
  PROVE  /\ TInv' /\ UsedMapSound' /\ TypeOK'
         /\ diskIndex' \subseteq mapBlockIndex' /\ diskData' \subseteq diskIndex'
         /\ diskFailedValid' \subseteq diskIndex' /\ diskFailedChild' \subseteq diskIndex'
         /\ diskData \subseteq diskData' /\ diskData' \subseteq haveData'
         /\ haveData \cap S \subseteq diskData'
         /\ \A x : ChainOf(x)' = ChainOf(x) /\ (Mature(x)' <=> Mature(x))
         /\ \A b \in mapBlockIndex \ S :
              /\ b \in diskIndex' <=> b \in diskIndex
              /\ b \in diskData' <=> b \in diskData
              /\ b \in diskFailedValid' <=> b \in diskFailedValid
              /\ b \in diskFailedChild' <=> b \in diskFailedChild
         /\ \A b \in S :
              /\ b \in diskIndex'
              /\ b \in diskData' <=> b \in haveData
              /\ b \in diskFailedValid' <=> b \in failedValid
              /\ b \in diskFailedChild' <=> b \in failedChild
<1>1. /\ mapBlockIndex' = mapBlockIndex /\ haveData' = haveData
      /\ nHeight' = nHeight /\ nChainWork' = nChainWork /\ ancestor' = ancestor
      /\ stakeSource' = stakeSource /\ nSequenceId' = nSequenceId
      /\ failedValid' = failedValid /\ failedChild' = failedChild
      /\ setBlockIndexCandidates' = setBlockIndexCandidates /\ tip' = tip
      /\ mapUsedStakePointers' = mapUsedStakePointers
      /\ pindexMostWork' = pindexMostWork /\ pindexOldTip' = pindexOldTip
      /\ interventions' = interventions
  BY DEF vars, treeVars, dataVars, failVars, stepVars
<1>2. TInv' /\ TypeOK'
  <2>1. TInv  BY DEF RInv
  <2>2. TypeOK' <=> TypeOK
    BY <1>1 DEF TypeOK
  <2>3. IndexIsTree' <=> IndexIsTree  BY <1>1 DEF IndexIsTree
  <2>4. ActiveStakeSourcesMature' <=> ActiveStakeSourcesMature
    BY <1>1 DEF ActiveStakeSourcesMature, ActiveChain, ChainOf, IsProofOfStake
  <2>. QED  BY <2>1, <2>2, <2>3, <2>4 DEF TInv
<1>3. UsedMapSound'  BY <1>1 DEF RInv, UsedMapSound
<1>4. /\ diskIndex' = diskIndex \cup S
      /\ diskData' = (diskData \ S) \cup (haveData \cap S)
      /\ diskFailedValid' = (diskFailedValid \ S) \cup (failedValid \cap S)
      /\ diskFailedChild' = (diskFailedChild \ S) \cup (failedChild \cap S)
  BY DEF WriteBlockIndex
<1>5. /\ diskIndex \subseteq mapBlockIndex /\ setDirtyBlockIndex \subseteq mapBlockIndex
      /\ diskData \subseteq diskIndex /\ diskData \subseteq haveData
      /\ diskFailedValid \subseteq diskIndex /\ diskFailedChild \subseteq diskIndex
  BY DEF RInv, RestartTypeOK
<1>6. \A x : ChainOf(x)' = ChainOf(x) /\ (Mature(x)' <=> Mature(x))
  BY <1>1 DEF ChainOf, Mature, IsProofOfStake
<1>7. /\ diskIndex' \subseteq mapBlockIndex' /\ diskData' \subseteq diskIndex'
      /\ diskFailedValid' \subseteq diskIndex' /\ diskFailedChild' \subseteq diskIndex'
      /\ diskData \subseteq diskData' /\ diskData' \subseteq haveData'
      /\ haveData \cap S \subseteq diskData'
  BY <1>1, <1>4, <1>5
<1>8. \A b \in mapBlockIndex \ S :
        /\ b \in diskIndex' <=> b \in diskIndex
        /\ b \in diskData' <=> b \in diskData
        /\ b \in diskFailedValid' <=> b \in diskFailedValid
        /\ b \in diskFailedChild' <=> b \in diskFailedChild
  BY <1>4
<1>9. \A b \in S : /\ b \in diskIndex'
                   /\ b \in diskData' <=> b \in haveData
                   /\ b \in diskFailedValid' <=> b \in failedValid
                   /\ b \in diskFailedChild' <=> b \in failedChild
  BY <1>4
<1>. QED  BY <1>2, <1>3, <1>6, <1>7, <1>8, <1>9

LEMMA FlushKeeps ==
  ASSUME RInv, NEW full \in BOOLEAN, FlushStateToDisk(full)
  PROVE  RInv'
<1> DEFINE S == setDirtyBlockIndex
<1>0. /\ TypeOK /\ IndexIsTree /\ tip \in haveData /\ tip \in mapBlockIndex
      /\ mapBlockIndex \subseteq Block /\ haveData \subseteq mapBlockIndex
      /\ diskData \subseteq haveData
      /\ diskBest \in Block /\ running \in BOOLEAN /\ crashes \in 0..MaxCrashes
  BY DEF RInv, TInv, RestartTypeOK, TypeOK
<1>1. /\ running /\ WriteBlockIndex(S) /\ UNCHANGED vars
      /\ setDirtyBlockIndex' = {} /\ running' = running /\ crashes' = crashes
      /\ diskBest' \in {diskBest, tip}
  BY DEF FlushStateToDisk
<1>2. /\ mapBlockIndex' = mapBlockIndex /\ haveData' = haveData
      /\ failedValid' = failedValid /\ failedChild' = failedChild
  BY <1>1 DEF vars, treeVars, dataVars, failVars
<1>3. /\ TInv' /\ UsedMapSound' /\ TypeOK'
      /\ diskIndex' \subseteq mapBlockIndex' /\ diskData' \subseteq diskIndex'
      /\ diskFailedValid' \subseteq diskIndex' /\ diskFailedChild' \subseteq diskIndex'
      /\ diskData \subseteq diskData' /\ diskData' \subseteq haveData'
      /\ haveData \cap S \subseteq diskData'
      /\ \A x : ChainOf(x)' = ChainOf(x) /\ (Mature(x)' <=> Mature(x))
  BY <1>1, WriteKeeps
<1>4. CleanEntriesOnDisk'
  <2>1. \A b \in mapBlockIndex \ S :
          /\ b \in diskIndex' <=> b \in diskIndex
          /\ b \in diskData' <=> b \in diskData
          /\ b \in diskFailedValid' <=> b \in diskFailedValid
          /\ b \in diskFailedChild' <=> b \in diskFailedChild
    BY <1>1, WriteKeeps
  <2>2. \A b \in S : /\ b \in diskIndex'
                     /\ b \in diskData' <=> b \in haveData
                     /\ b \in diskFailedValid' <=> b \in failedValid
                     /\ b \in diskFailedChild' <=> b \in failedChild
    BY <1>1, WriteKeeps
  <2>3. \A b \in mapBlockIndex \ S :
          /\ b \in diskIndex
          /\ b \in haveData <=> b \in diskData
          /\ b \in failedValid <=> b \in diskFailedValid
          /\ b \in diskFailedChild => b \in failedChild
    BY <1>1 DEF RInv, CleanEntriesOnDisk
  <2>. QED  BY <1>2, <2>1, <2>2, <2>3 DEF CleanEntriesOnDisk
<1>5. ChainOf(tip) \subseteq diskData'
  <2>1. \A x \in ChainOf(tip) : x \in haveData /\ x \in mapBlockIndex
    BY <1>0, ActiveAt DEF ActiveChain
  <2>2. \A x \in mapBlockIndex \ S : x \in haveData => x \in diskData
    BY <1>1 DEF RInv, CleanEntriesOnDisk
  <2>. QED  BY <1>3, <2>1, <2>2
<1>6. tip \in ChainOf(tip) /\ \A b \in ChainOf(tip) : Mature(b)
  <2>1. nHeight[tip] \in 0..nHeight[tip]  BY <1>0 DEF TypeOK
  <2>2. tip \in ChainOf(tip)  BY <1>0, <2>1 DEF IndexIsTree, ChainOf
  <2>. QED  BY <2>2, MatureIsActive DEF RInv, TInv, ActiveChain
<1>7. diskBest \in diskData' /\ ChainOf(diskBest) \subseteq diskData'
      /\ \A b \in ChainOf(diskBest) : Mature(b)
  BY <1>3 DEF RInv, CoinsWithinIndex
<1>8. /\ diskBest' \in diskData' /\ ChainOf(diskBest') \subseteq diskData'
      /\ \A b \in ChainOf(diskBest') : Mature(b)
  BY <1>1, <1>5, <1>6, <1>7
<1>9. CoinsWithinIndex' /\ \A b \in ChainOf(diskBest)' : Mature(b)'
  <2>1. ChainOf(diskBest)' = ChainOf(diskBest')
    BY <1>1 DEF ChainOf, vars, treeVars
  <2>. QED  BY <2>1, <1>3, <1>8 DEF CoinsWithinIndex
<1>10. RestartTypeOK'
  BY <1>0, <1>1, <1>3 DEF RestartTypeOK
<1>. QED  BY <1>3, <1>4, <1>9, <1>10 DEF RInv

LEMMA CrashKeeps ==
  ASSUME RInv, RestartAssumption, NEW S \in SUBSET setDirtyBlockIndex, Crash(S)
  PROVE  RInv'
<1>0. /\ setDirtyBlockIndex \subseteq mapBlockIndex
      /\ diskBest \in Block /\ crashes \in 0..MaxCrashes /\ MaxCrashes \in Nat
  BY DEF RInv, RestartTypeOK, RestartAssumption
<1>1. /\ WriteBlockIndex(S) /\ UNCHANGED vars /\ crashes < MaxCrashes
      /\ setDirtyBlockIndex' = setDirtyBlockIndex /\ running' = FALSE
      /\ crashes' = crashes + 1 /\ diskBest' = diskBest
      /\ mapBlockIndex' = mapBlockIndex
  BY DEF Crash, vars, treeVars
<1>2. /\ TInv' /\ UsedMapSound' /\ TypeOK'
      /\ diskIndex' \subseteq mapBlockIndex' /\ diskData' \subseteq diskIndex'
      /\ diskFailedValid' \subseteq diskIndex' /\ diskFailedChild' \subseteq diskIndex'
      /\ diskData \subseteq diskData' /\ diskData' \subseteq haveData'
      /\ \A x : ChainOf(x)' = ChainOf(x) /\ (Mature(x)' <=> Mature(x))
  BY <1>1, WriteKeeps
<1>3. ChainOf(diskBest)' = ChainOf(diskBest)
  BY <1>1 DEF ChainOf, vars, treeVars
<1>4. CoinsWithinIndex' /\ \A b \in ChainOf(diskBest)' : Mature(b)'
  BY <1>1, <1>2, <1>3 DEF RInv, CoinsWithinIndex
<1>5. RestartTypeOK'
  <2>1. crashes' \in 0..MaxCrashes  BY <1>0, <1>1
  <2>2. running' \in BOOLEAN  BY <1>1
  <2>3. setDirtyBlockIndex' \subseteq mapBlockIndex' /\ diskBest' \in Block  BY <1>0, <1>1
  <2>. QED  BY <1>2, <2>1, <2>2, <2>3 DEF RestartTypeOK
<1>6. CleanEntriesOnDisk'  BY <1>1 DEF CleanEntriesOnDisk
<1>. QED  BY <1>2, <1>4, <1>5, <1>6 DEF RInv

\* A start: the tree on disk is closed under ancestors, so that it is a tree
\* again, and the coins name one of its blocks, which was active once.
LEMMA LoadKeeps ==
  ASSUME RInv, ChainAssumption, RestartAssumption, LoadBlockIndexDB
  PROVE  RInv'
<1>0. /\ TypeOK /\ IndexIsTree
      /\ diskIndex \subseteq mapBlockIndex /\ mapBlockIndex \subseteq Block
      /\ diskData \subseteq diskIndex /\ diskData \subseteq haveData
      /\ diskFailedValid \subseteq diskIndex /\ diskFailedChild \subseteq diskIndex
      /\ diskBest \in diskData /\ crashes \in 0..MaxCrashes
      /\ interventions \in 0..MaxInterventions
  BY DEF RInv, TInv, RestartTypeOK, CoinsWithinIndex, TypeOK
<1>1. /\ mapBlockIndex' = diskIndex /\ haveData' = diskData
      /\ failedValid' = diskFailedValid /\ failedChild' = diskFailedChild
      /\ nHeight' = [b \in Block |-> IF b \in diskIndex THEN nHeight[b] ELSE 0]
      /\ nChainWork' = [b \in Block |-> IF b \in diskIndex THEN nChainWork[b] ELSE 0]
      /\ ancestor' = [b \in Block |-> IF b \in diskIndex THEN ancestor[b] ELSE [h \in {0} |-> 0]]
      /\ stakeSource' = [b \in Block |-> IF b \in diskIndex THEN stakeSource[b] ELSE NoPointer]
      /\ tip' = diskBest /\ pindexMostWork' = NoBlock /\ pindexOldTip' = diskBest
      /\ setDirtyBlockIndex' = {} /\ running' = TRUE /\ interventions' = interventions
      /\ diskIndex' = diskIndex /\ diskData' = diskData
      /\ diskFailedValid' = diskFailedValid /\ diskFailedChild' = diskFailedChild
      /\ diskBest' = diskBest /\ crashes' = crashes
  BY DEF LoadBlockIndexDB, diskVars
<1>2. Closed /\ ~running  BY DEF LoadBlockIndexDB, Startable
<1>3. \A b \in diskIndex : /\ b \in Block /\ b \in mapBlockIndex
                           /\ nHeight'[b] = nHeight[b] /\ ancestor'[b] = ancestor[b]
                           /\ stakeSource'[b] = stakeSource[b] /\ nHeight[b] \in Nat
  BY <1>0, <1>1 DEF TypeOK
<1>4. \A b \in diskIndex : \A h \in 0..nHeight[b] :
        ancestor[b][h] \in diskIndex /\ (b \in diskData => ancestor[b][h] \in diskData)
  BY <1>2 DEF Closed, ChainOf
<1>5. \A b \in diskIndex : ChainOf(b)' = ChainOf(b)  BY <1>3 DEF ChainOf
<1>6. \A b \in diskIndex : Mature(b)' <=> Mature(b)
  <2> SUFFICES ASSUME NEW b \in diskIndex PROVE Mature(b)' <=> Mature(b)
    OBVIOUS
  <2>1. nHeight'[b] = nHeight[b] /\ ancestor'[b] = ancestor[b] /\ stakeSource'[b] = stakeSource[b]
    BY <1>3
  <2>. QED  BY <2>1 DEF Mature, IsProofOfStake
<1>7. IndexIsTree'
  <2>1. ASSUME NEW b \in diskIndex
        PROVE  /\ ancestor'[b][0] = 0
               /\ ancestor'[b][nHeight'[b]] = b
               /\ \A h \in 0..nHeight'[b] :
                    /\ nHeight'[ancestor'[b][h]] = h
                    /\ \A i \in 0..h : ancestor'[ancestor'[b][h]][i] = ancestor'[b][i]
    BY <1>0, <1>3, <1>4 DEF IndexIsTree
  <2>2. ASSUME NEW b \in diskData, NEW h \in 0..nHeight'[b]
        PROVE  ancestor'[b][h] \in diskData
    BY <1>0, <1>3, <1>4
  <2>3. mapBlockIndex' = diskIndex /\ haveData' = diskData  BY <1>1
  <2>. QED  BY <2>1, <2>2, <2>3 DEF IndexIsTree
<1>8. mapUsedStakePointers' \in [Pointer -> Block \cup {NoBlock}] /\ UsedMapSound'
  <2> DEFINE users(p) == {b \in diskIndex : stakeSource[b] = p}
  <2>1. mapUsedStakePointers' =
          [p \in Pointer |->
             IF users(p) = {} THEN NoBlock
             ELSE CHOOSE b \in users(p) : \A c \in users(p) : Hash[b] <= Hash[c]]
    BY DEF LoadBlockIndexDB, LoadBlockIndexGuts
  <2>2. ASSUME NEW p \in Pointer, users(p) # {}
        PROVE  mapUsedStakePointers'[p] \in users(p)
    <3>1. Hash \in [Block -> Nat] /\ users(p) \in SUBSET Block
      BY <1>0 DEF RestartAssumption
    <3> HIDE DEF users
    <3>2. \E b \in users(p) : \A c \in users(p) : Hash[b] <= Hash[c]
      BY <2>2, <3>1, LeastHash
    <3>. QED  BY <2>1, <2>2, <3>2
  <2>3. \A p \in Pointer : mapUsedStakePointers'[p] = NoBlock \/ mapUsedStakePointers'[p] \in users(p)
    BY <2>1, <2>2
  <2>4. \A p \in Pointer : \A b \in users(p) : b \in diskIndex /\ stakeSource'[b] = p
    BY <1>3
  <2>5. UsedMapSound'  BY <1>1, <2>3, <2>4 DEF UsedMapSound
  <2> HIDE DEF users
  <2>6. \A p \in Pointer : mapUsedStakePointers'[p] \in Block \cup {NoBlock}
    BY <2>3, <2>4, <1>0
  <2>. QED  BY <2>1, <2>5, <2>6
<1>9. TypeOK'
  <2>1. /\ nHeight' \in [Block -> Nat] /\ nChainWork' \in [Block -> Nat]
        /\ stakeSource' \in [Block -> Pointer \cup {NoPointer}]
    BY <1>0, <1>1 DEF TypeOK
  <2>2. ancestor' = [b \in Block |-> ancestor'[b]]  BY <1>1
  <2>3. \A b \in diskIndex : ancestor'[b] \in [0..nHeight'[b] -> diskIndex]
    <3> SUFFICES ASSUME NEW b \in diskIndex
                 PROVE  ancestor[b] \in [0..nHeight[b] -> diskIndex]
      BY <1>3
    <3>1. ancestor[b] \in [0..nHeight[b] -> mapBlockIndex]  BY <1>0 DEF TypeOK
    <3>. QED  BY <3>1, <1>4
  <2>4. nSequenceId' \in [Block -> Nat]
    <3>1. nSequenceId' = LoadedSequence  BY DEF LoadBlockIndexDB
    <3>2. ASSUME NEW b \in Block
          PROVE  Cardinality({c \in diskData : Address[c] < Address[b]}) \in Nat
      <4>1. IsFiniteSet(Block)  BY FS_Interval DEF Block, ChainAssumption
      <4>2. IsFiniteSet({c \in diskData : Address[c] < Address[b]})
        BY <4>1, <1>0, FS_Subset
      <4>. QED  BY <4>2, FS_CardinalityType
    <3>. QED  BY <3>1, <3>2 DEF LoadedSequence
  <2>5. setBlockIndexCandidates' \subseteq diskData
    BY DEF LoadBlockIndexDB, LoadedCandidates
  <2>6. /\ mapBlockIndex' \subseteq Block /\ haveData' \subseteq mapBlockIndex'
        /\ failedValid' \subseteq mapBlockIndex' /\ failedChild' \subseteq mapBlockIndex'
        /\ setBlockIndexCandidates' \subseteq haveData' /\ tip' \in haveData'
        /\ pindexMostWork' \in haveData' \cup {NoBlock} /\ pindexOldTip' \in haveData'
        /\ interventions' \in 0..MaxInterventions
    BY <1>0, <1>1, <2>5
  <2>7. \A b \in mapBlockIndex' : ancestor'[b] \in [0..nHeight'[b] -> mapBlockIndex']
    BY <1>1, <2>3
  <2>. QED  BY <1>8, <2>1, <2>2, <2>4, <2>6, <2>7 DEF TypeOK
<1>10. ChainOf(diskBest)' = ChainOf(diskBest) /\ ChainOf(diskBest) \subseteq diskData
  BY <1>0, <1>1, <1>3 DEF ChainOf, RInv, CoinsWithinIndex
<1>11. \A b \in ChainOf(diskBest)' : Mature(b)'
  BY <1>0, <1>6, <1>10 DEF RInv
<1>12. ActiveStakeSourcesMature'
  <2>1. ActiveChain' = ChainOf(diskBest)'  BY <1>1 DEF ActiveChain, ChainOf
  <2>. QED  BY <2>1, <1>11 DEF ActiveStakeSourcesMature, Mature
<1>13. CoinsWithinIndex'  BY <1>0, <1>1, <1>10 DEF CoinsWithinIndex
<1>14. CleanEntriesOnDisk'  BY <1>1 DEF CleanEntriesOnDisk
<1>15. RestartTypeOK'
  BY <1>0, <1>1, <1>9 DEF RestartTypeOK
<1>. QED  BY <1>1, <1>7, <1>8, <1>9, <1>11, <1>12, <1>13, <1>14, <1>15 DEF RInv, TInv

\* verifychain only takes pointers out of the record.
LEMMA VerifyKeeps ==
  ASSUME RInv, ChainAssumption, NEW depth, VerifyChain(depth)
  PROVE  RInv'
<1>1. /\ mapBlockIndex' = mapBlockIndex /\ haveData' = haveData
      /\ nHeight' = nHeight /\ nChainWork' = nChainWork /\ ancestor' = ancestor
      /\ stakeSource' = stakeSource /\ nSequenceId' = nSequenceId
      /\ failedValid' = failedValid /\ failedChild' = failedChild
      /\ setBlockIndexCandidates' = setBlockIndexCandidates /\ tip' = tip
      /\ pindexMostWork' = pindexMostWork /\ pindexOldTip' = pindexOldTip
      /\ setDirtyBlockIndex' = setDirtyBlockIndex /\ running' = running
      /\ diskIndex' = diskIndex /\ diskData' = diskData
      /\ diskFailedValid' = diskFailedValid /\ diskFailedChild' = diskFailedChild
      /\ diskBest' = diskBest /\ crashes' = crashes
      /\ UNCHANGED <<treeVars, dataVars>>
  BY DEF VerifyChain, treeVars, dataVars, failVars, stepVars, restartVars, diskVars
<1>2. TypeOK /\ IndexIsTree /\ TInv  BY DEF RInv, TInv
<1>3. interventions' \in 0..MaxInterventions
  BY <1>2 DEF VerifyChain, Intervene, TypeOK, ChainAssumption
<1>4. \A p \in Pointer : mapUsedStakePointers'[p] \in {mapUsedStakePointers[p], NoBlock}
  BY DEF VerifyChain
<1>5. mapUsedStakePointers' \in [Pointer -> Block \cup {NoBlock}]
  BY <1>2 DEF VerifyChain, TypeOK
<1>6. TypeOK' /\ IndexIsTree'
  <2>1. /\ failedValid \subseteq mapBlockIndex /\ failedChild \subseteq mapBlockIndex
        /\ setBlockIndexCandidates \subseteq haveData /\ tip \in haveData
        /\ pindexMostWork \in haveData \cup {NoBlock} /\ pindexOldTip \in haveData
    BY <1>2 DEF TypeOK
  <2>. QED  BY <1>1, <1>2, <1>3, <1>5, <2>1, TypeOKFromRest
<1>7. ActiveStakeSourcesMature'
  BY <1>1, <1>2 DEF TInv, ActiveStakeSourcesMature, ActiveChain, ChainOf, IsProofOfStake
<1>8. UsedMapSound'
  BY <1>1, <1>4 DEF RInv, UsedMapSound
<1>9. CoinsWithinIndex' /\ CleanEntriesOnDisk' /\ (diskData \subseteq haveData)'
  BY <1>1 DEF RInv, CoinsWithinIndex, CleanEntriesOnDisk, ChainOf
<1>10. \A b \in ChainOf(diskBest)' : Mature(b)'
  BY <1>1 DEF RInv, ChainOf, Mature, IsProofOfStake
<1>11. RestartTypeOK'  BY <1>1, <1>6 DEF RInv, RestartTypeOK
<1>. QED  BY <1>6, <1>7, <1>8, <1>9, <1>10, <1>11 DEF RInv, TInv

LEMMA RestartInitRInv ==
  ASSUME RestartInit, ChainAssumption, RestartAssumption
  PROVE  RInv
<1>1. TInv  BY InitIInv DEF RestartInit, IInv
<1>2. TypeOK /\ IndexIsTree /\ tip \in haveData /\ haveData \subseteq mapBlockIndex
      /\ mapBlockIndex \subseteq Block
  BY <1>1 DEF TInv, TypeOK
<1>3. /\ setDirtyBlockIndex = {} /\ diskIndex = mapBlockIndex /\ diskData = haveData
      /\ diskFailedValid = {} /\ diskFailedChild = {} /\ diskBest = tip
      /\ running = TRUE /\ crashes = 0 /\ failedValid = {}
      /\ mapUsedStakePointers = [p \in Pointer |-> NoBlock]
  BY DEF RestartInit, Init
<1>4. RestartTypeOK  BY <1>2, <1>3 DEF RestartTypeOK, RestartAssumption
<1>5. CoinsWithinIndex
  BY <1>2, <1>3, ActiveAt DEF CoinsWithinIndex, ActiveChain
<1>6. CleanEntriesOnDisk /\ UsedMapSound  BY <1>3 DEF CleanEntriesOnDisk, UsedMapSound
<1>7. \A b \in ChainOf(diskBest) : Mature(b)
  BY <1>1, <1>3, MatureIsActive DEF TInv, ActiveChain
<1>. QED  BY <1>1, <1>3, <1>4, <1>5, <1>6, <1>7 DEF RInv

LEMMA RestartNextRInv ==
  ASSUME RInv, ChainAssumption, RestartAssumption, [RestartNext]_allVars
  PROVE  RInv'
<1>1. CASE RestartNext
  BY <1>1, ChainStepKeeps, FlushKeeps, CrashKeeps, LoadKeeps, VerifyKeeps DEF RestartNext
<1>2. CASE UNCHANGED allVars
  <2>1. /\ UNCHANGED vars /\ setDirtyBlockIndex' = setDirtyBlockIndex
        /\ diskIndex' = diskIndex /\ diskData' = diskData
        /\ diskFailedValid' = diskFailedValid /\ diskFailedChild' = diskFailedChild
        /\ diskBest' = diskBest /\ running' = running /\ crashes' = crashes
    BY <1>2 DEF allVars, restartVars, diskVars
  <2>2. WriteBlockIndex({})  BY <2>1 DEF WriteBlockIndex
  <2>3. /\ TInv' /\ UsedMapSound' /\ TypeOK'
        /\ \A x : ChainOf(x)' = ChainOf(x) /\ (Mature(x)' <=> Mature(x))
    BY <2>1, <2>2, WriteKeeps
  <2>4. /\ mapBlockIndex' = mapBlockIndex /\ haveData' = haveData
        /\ failedValid' = failedValid /\ failedChild' = failedChild
        /\ ChainOf(diskBest)' = ChainOf(diskBest)
    BY <2>1 DEF vars, treeVars, dataVars, failVars, ChainOf
  <2>5. RestartTypeOK'  BY <2>1, <2>3, <2>4 DEF RInv, RestartTypeOK
  <2>6. CoinsWithinIndex' /\ CleanEntriesOnDisk' /\ (diskData \subseteq haveData)'
    BY <2>1, <2>4 DEF RInv, CoinsWithinIndex, CleanEntriesOnDisk
  <2>7. \A b \in ChainOf(diskBest)' : Mature(b)'  BY <2>3, <2>4 DEF RInv
  <2>. QED  BY <2>3, <2>5, <2>6, <2>7 DEF RInv
<1>. QED  BY <1>1, <1>2

LEMMA RestartInvariant == RestartSpec => []RInv
<1>1. RestartInit => RInv  BY RestartInitRInv, ChainAssumption, RestartAssumption
<1>2. RInv /\ [RestartNext]_allVars => RInv'
  BY RestartNextRInv, ChainAssumption, RestartAssumption
<1>. QED  BY <1>1, <1>2, PTL DEF RestartSpec

(***************************************************************************)
(* The theorems.                                                           *)
(***************************************************************************)

\* FlushStateToDisk writes the index before the coins: wherever the process is
\* cut off, the whole chain of the coins on disk is in the index on disk.
THEOREM CoinsNeverAhead == RestartSpec => []CoinsWithinIndex
<1>1. RInv => CoinsWithinIndex  BY DEF RInv
<1>. QED  BY <1>1, RestartInvariant, PTL

\* LoadBlockIndexGuts, ConnectBlock and DisconnectBlock never leave a record of
\* a pointer that no known block has used.
THEOREM UsedMapIsSound == RestartSpec => []UsedMapSound
<1>1. RInv => UsedMapSound  BY DEF RInv
<1>. QED  BY <1>1, RestartInvariant, PTL

\* Whatever is lost in a crash, the chain a node is on after the next start has
\* only payments of its own past, of the prescribed age.
THEOREM SourcesMatureAfterRestart == RestartSpec => []ActiveStakeSourcesMature
<1>1. RInv => ActiveStakeSourcesMature  BY DEF RInv, TInv
<1>. QED  BY <1>1, RestartInvariant, PTL

\* What setDirtyBlockIndex does not list is on disk already.
THEOREM CleanIsOnDisk == RestartSpec => []CleanEntriesOnDisk
<1>1. RInv => CleanEntriesOnDisk  BY DEF RInv
<1>. QED  BY <1>1, RestartInvariant, PTL

\* Through every write, crash and start the state of the node and of its disk
\* keep their shape: the disk has no block that memory does not know, and data
\* and marks only for blocks it has an entry of.
THEOREM RestartTypeCorrect == RestartSpec => []RestartTypeOK
<1>1. RInv => RestartTypeOK  BY DEF RInv
<1>. QED  BY <1>1, RestartInvariant, PTL

(***************************************************************************)
(* The best chain after a start.                                           *)
(***************************************************************************)

\* While the node runs it has a block to go back to (BInv of MnPosChain); what
\* a start needs for that is the chain of the coins on disk: valid by itself
\* and free of marks, on disk and in memory, from where a mark could be written.
SInv ==
  /\ running => VInv /\ BInv
  /\ WorkClimbs /\ StakesValid(diskBest)
  /\ ChainOf(diskBest) \cap (Failed \cup diskFailedValid \cup diskFailedChild) = {}

\* No step marks a block of a chain whose stakes are valid and that has no mark.
LEMMA MarksElsewhere ==
  ASSUME TInv, UsersHave, ChainAssumption, Next, NEW x \in mapBlockIndex, StakesValid(x),
         ChainOf(x) \cap Failed = {}, Interventions \subseteq {"refuse", "verify"}
  PROVE  ChainOf(x) \cap Failed' = {}
<1>0. TypeOK /\ IndexIsTree  BY DEF TInv
<1>1. CASE FindMostWorkChain
  <2> DEFINE tried == {c \in setBlockIndexCandidates :
                         ~Usable(c) /\ \A d \in BestCandidates : Worse(d, c)}
             gone == UNION {Discarded(c) : c \in tried}
  <2>1. Failed' = Failed \cup gone  BY <1>1 DEF FindMostWorkChain, Failed
  <2>2. Usable(x)  BY DEF Usable, Path
  <2>3. \A c \in tried : Discarded(c) \cap ChainOf(x) = {}  BY <1>0, <2>2, DiscardedElsewhere
  <2>. QED  BY <2>1, <2>3
<1>2. ASSUME NEW b \in Block, ConnectTipBadStake(b)  PROVE ChainOf(x) \cap Failed' = {}
  <2>1. Failed' = Failed \cup {b} /\ ~CheckStake(b) /\ Connecting(b)
    BY <1>2 DEF ConnectTipBadStake, InvalidBlockFound, Failed
  <2>2. Prev(b) = tip /\ nHeight[b] = nHeight[tip] + 1  BY <1>0, <2>1, ConnectingNext
  <2>3. b \notin ChainOf(x)  BY <1>0, <2>1, <2>2, StakesPass
  <2>. QED  BY <2>1, <2>3
<1>3. CASE Failed' = Failed  BY <1>3
<1>4. ASSUME ReceiveBlock  PROVE Failed' = Failed
  BY <1>4 DEF ReceiveBlock, AcceptBlock, AcceptBlockRefused, AcceptBlockInvalid, failVars, Failed
<1>5. ASSUME DisconnectTip  PROVE Failed' = Failed
  BY <1>5 DEF DisconnectTip, failVars, Failed
<1>6. ASSUME NEW b \in Block, ConnectTip(b)  PROVE Failed' = Failed
  BY <1>6 DEF ConnectTip, failVars, Failed
<1>7. ASSUME NEW b \in Block, ConnectTipRejected(b)  PROVE FALSE
  BY <1>7 DEF ConnectTipRejected
<1>8. ASSUME NEW b \in Block, InvalidateBlock(b) \/ ReconsiderBlock(b)  PROVE FALSE
  BY <1>8 DEF InvalidateBlock, ReconsiderBlock, Intervene
<1>9. ASSUME NEW n \in ReprocessDepth, DisconnectBlocksAndReprocess(n)  PROVE FALSE
  BY <1>9 DEF DisconnectBlocksAndReprocess, Intervene
<1>. QED  BY <1>1, <1>2, <1>3, <1>4, <1>5, <1>6, <1>7, <1>8, <1>9 DEF Next, ActivateBestChain

\* The stakes of a chain of the index stay valid while the index grows.
LEMMA StakesStay ==
  ASSUME TypeOK, IndexIsTree, NEW b \in mapBlockIndex, StakesValid(b),
         \A x \in mapBlockIndex : /\ nHeight'[x] = nHeight[x]
                                  /\ ancestor'[x] = ancestor[x]
                                  /\ stakeSource'[x] = stakeSource[x]
  PROVE  StakesValid(b)'
<1>1. /\ ChainOf(b)' = ChainOf(b)
      /\ \A x \in ChainOf(b) : x \in mapBlockIndex /\ (Mature(x)' <=> Mature(x))
  BY EntriesStay
<1>. QED  BY <1>1 DEF StakesValid, IsProofOfStake

LEMMA ChainStepSInv ==
  ASSUME RInv, SInv, ChainAssumption, ChainStep, RInv', StakePointerUsedOnce',
         Interventions \subseteq {"refuse", "verify"}
  PROVE  SInv'
<1>0. /\ TInv /\ TypeOK /\ IndexIsTree /\ TInv' /\ VInv /\ BInv /\ Next /\ running
      /\ diskBest \in mapBlockIndex
      /\ WorkClimbs /\ StakesValid(diskBest)
      /\ ChainOf(diskBest) \cap (Failed \cup diskFailedValid \cup diskFailedChild) = {}
  BY DEF RInv, TInv, TypeOK, SInv, ChainStep, CoinsWithinIndex
<1>1. /\ diskBest' = diskBest /\ running' = running
      /\ diskFailedValid' = diskFailedValid /\ diskFailedChild' = diskFailedChild
  BY DEF ChainStep, diskVars
<1>2. UsersHave  BY DEF RInv, UsedMapSound, UsersHave
<1>3. VInv'  BY <1>0, NextVInv
<1>4. "reject" \notin Interventions /\ "reconsider" \notin Interventions  OBVIOUS
<1>5. BInv'  BY <1>0, <1>2, <1>3, <1>4, NextBInv
<1>6. WorkClimbs'  BY <1>0, NextWork
<1>7. \A x \in mapBlockIndex : /\ nHeight'[x] = nHeight[x]
                               /\ ancestor'[x] = ancestor[x]
                               /\ stakeSource'[x] = stakeSource[x]
  BY <1>0, IndexGrows
<1>8. StakesValid(diskBest)'
  <2>1. \A x \in mapBlockIndex : StakesValid(x) => StakesValid(x)'  BY <1>0, <1>7, StakesStay
  <2>2. \A x : x = diskBest => (StakesValid(x)' => StakesValid(diskBest)')
    BY <1>1 DEF StakesValid, ChainOf, Mature, IsProofOfStake
  <2>. QED  BY <1>0, <2>1, <2>2
<1>9. ChainOf(diskBest) \cap Failed' = {}  BY <1>0, <1>2, MarksElsewhere
<1>10. ChainOf(diskBest)' = ChainOf(diskBest)  BY <1>0, <1>1, <1>7 DEF ChainOf
<1>. QED  BY <1>0, <1>1, <1>3, <1>5, <1>6, <1>8, <1>9, <1>10 DEF SInv

\* Writing entries of the index and, perhaps, the coins.
LEMMA WriteSInv ==
  ASSUME RInv, SInv, running, NEW S \in SUBSET setDirtyBlockIndex, WriteBlockIndex(S),
         UNCHANGED vars, diskBest' = diskBest \/ (diskBest' = tip /\ S = setDirtyBlockIndex)
  PROVE  SInv'
<1>0. /\ TypeOK /\ IndexIsTree /\ tip \in mapBlockIndex /\ VInv /\ BInv
      /\ WorkClimbs /\ StakesValid(diskBest) /\ StakesValid(tip)
      /\ ChainOf(diskBest) \cap (Failed \cup diskFailedValid \cup diskFailedChild) = {}
  BY DEF RInv, TInv, TypeOK, SInv, BInv
<1>1. /\ UNCHANGED <<treeVars, dataVars>> /\ tip' = tip /\ Failed' = Failed
      /\ setBlockIndexCandidates' = setBlockIndexCandidates
      /\ nHeight' = nHeight /\ ancestor' = ancestor /\ stakeSource' = stakeSource
      /\ mapBlockIndex' = mapBlockIndex /\ nChainWork' = nChainWork
      /\ pindexMostWork' = pindexMostWork
  BY DEF vars, failVars, Failed, treeVars, stepVars
<1>2. VInv'  BY <1>0, <1>1 DEF VInv, ActiveChain, ChainOf
<1>3. BInv'
  <2>1. tip \in ChainOf(tip)  BY <1>0, BlockInChain
  <2>. QED  BY <1>0, <1>1, <2>1, LowerTipBInv
<1>4. WorkClimbs'  BY <1>0, <1>1 DEF WorkClimbs
<1>5. /\ diskFailedValid' = (diskFailedValid \ S) \cup (failedValid \cap S)
      /\ diskFailedChild' = (diskFailedChild \ S) \cup (failedChild \cap S)
  BY DEF WriteBlockIndex
<1>6. StakesValid(diskBest') /\ ChainOf(diskBest') \cap (Failed \cup diskFailedValid' \cup diskFailedChild') = {}
  <2>1. CASE diskBest' = diskBest  BY <1>0, <1>5, <2>1 DEF Failed
  <2>2. CASE diskBest' = tip /\ S = setDirtyBlockIndex
    <3>1. ASSUME NEW x \in ChainOf(tip)
          PROVE  x \notin Failed /\ x \notin diskFailedValid' /\ x \notin diskFailedChild'
      <4>1. x \notin Failed /\ x \in mapBlockIndex
        BY <1>0, ChainOfChain DEF VInv, ActiveChain
      <4>2. CASE x \in S  BY <1>5, <4>1, <4>2 DEF Failed
      <4>3. CASE x \notin S
        <5>1. /\ x \in failedValid <=> x \in diskFailedValid
              /\ x \in diskFailedChild => x \in failedChild
          BY <2>2, <4>1, <4>3 DEF RInv, CleanEntriesOnDisk
        <5>. QED  BY <1>5, <4>1, <4>3, <5>1 DEF Failed
      <4>. QED  BY <4>2, <4>3
    <3>. QED  BY <1>0, <2>2, <3>1
  <2>. QED  BY <2>1, <2>2
<1>7. StakesValid(diskBest)' /\ ChainOf(diskBest)' = ChainOf(diskBest')
  BY <1>1, <1>6 DEF StakesValid, ChainOf, Mature, IsProofOfStake
<1>. QED  BY <1>1, <1>2, <1>3, <1>4, <1>6, <1>7 DEF SInv

\* A start: the block to go back to is the tip of the coins.
LEMMA LoadSInv ==
  ASSUME RInv, SInv, LoadBlockIndexDB, RInv'
  PROVE  SInv'
<1>0. /\ TypeOK /\ IndexIsTree /\ diskIndex \subseteq mapBlockIndex /\ mapBlockIndex \subseteq Block
      /\ diskData \subseteq diskIndex /\ diskBest \in diskData
      /\ WorkClimbs /\ StakesValid(diskBest)
      /\ ChainOf(diskBest) \cap (diskFailedValid \cup diskFailedChild) = {}
      /\ ChainOf(diskBest) \subseteq diskIndex
  BY DEF RInv, RestartTypeOK, TInv, TypeOK, SInv, CoinsWithinIndex
<1>1. /\ mapBlockIndex' = diskIndex /\ haveData' = diskData
      /\ Failed' = diskFailedValid \cup diskFailedChild
      /\ nHeight' = [b \in Block |-> IF b \in diskIndex THEN nHeight[b] ELSE 0]
      /\ nChainWork' = [b \in Block |-> IF b \in diskIndex THEN nChainWork[b] ELSE 0]
      /\ ancestor' = [b \in Block |-> IF b \in diskIndex THEN ancestor[b] ELSE [h \in {0} |-> 0]]
      /\ stakeSource' = [b \in Block |-> IF b \in diskIndex THEN stakeSource[b] ELSE NoPointer]
      /\ nSequenceId' = LoadedSequence /\ setBlockIndexCandidates' = LoadedCandidates
      /\ tip' = diskBest /\ pindexMostWork' = NoBlock /\ diskBest' = diskBest
      /\ diskFailedValid' = diskFailedValid /\ diskFailedChild' = diskFailedChild
      /\ Closed
  BY DEF LoadBlockIndexDB, Startable, diskVars, Failed
<1>2. \A b \in diskIndex : /\ nHeight'[b] = nHeight[b] /\ ancestor'[b] = ancestor[b]
                           /\ stakeSource'[b] = stakeSource[b]
                           /\ nChainWork'[b] = nChainWork[b] /\ nHeight[b] \in Nat
  BY <1>0, <1>1 DEF TypeOK
<1>3. \A b \in diskIndex : \A h \in 0..nHeight[b] : ancestor[b][h] \in diskIndex
  BY <1>1 DEF Closed, ChainOf
<1>4. WorkClimbs'
  <2> SUFFICES ASSUME NEW b \in diskIndex, NEW h \in 0..nHeight[b] - 1
               PROVE  nChainWork'[ancestor[b][h]] < nChainWork'[b]
    BY <1>1, <1>2 DEF WorkClimbs
  <2>1. h \in 0..nHeight[b]  BY <1>2
  <2>. QED  BY <1>0, <1>2, <1>3, <2>1 DEF WorkClimbs
<1>5. ChainOf(diskBest)' = ChainOf(diskBest) /\ ActiveChain' = ChainOf(diskBest)
  BY <1>0, <1>1, <1>2 DEF ChainOf, ActiveChain
<1>6. \A x : x = diskBest =>
        StakesValid(x)' /\ ChainOf(x)' = ChainOf(x)
  <2> SUFFICES ASSUME NEW x, x = diskBest  PROVE StakesValid(x)' /\ ChainOf(x)' = ChainOf(x)
    OBVIOUS
  <2>1. ChainOf(x)' = ChainOf(x)  BY <1>0, <1>2 DEF ChainOf
  <2>2. \A a \in ChainOf(x) : a \in diskIndex  BY <1>0
  <2>3. \A a \in ChainOf(x) : Mature(a)' <=> Mature(a)
    <3> SUFFICES ASSUME NEW a \in ChainOf(x)  PROVE Mature(a)' <=> Mature(a)  OBVIOUS
    <3>1. nHeight'[a] = nHeight[a] /\ ancestor'[a] = ancestor[a] /\ stakeSource'[a] = stakeSource[a]
      BY <1>2, <2>2
    <3>. QED  BY <3>1 DEF Mature, IsProofOfStake
  <2>4. StakesValid(x)  BY <1>0
  <2>5. \A a \in ChainOf(x) : nHeight'[a] = nHeight[a] /\ stakeSource'[a] = stakeSource[a]
    BY <1>2, <2>2
  <2>. QED  BY <2>1, <2>3, <2>4, <2>5 DEF StakesValid, IsProofOfStake
<1>7. StakesValid(diskBest)' /\ StakesValid(tip)'
  <2>0. diskBest' = diskBest /\ tip' = diskBest  BY <1>1
  <2>1. \A x : x = diskBest => (StakesValid(x)' => StakesValid(diskBest)')
    BY <2>0 DEF StakesValid, ChainOf, Mature, IsProofOfStake
  <2>2. \A x : x = diskBest => (StakesValid(x)' => StakesValid(tip)')
    BY <2>0 DEF StakesValid, ChainOf, Mature, IsProofOfStake
  <2>. QED  BY <1>6, <2>1, <2>2
<1>8. VInv'  BY <1>0, <1>1, <1>5 DEF VInv
<1>9. \A b \in diskData : LoadedWorse(b, diskBest) <=> Worse(b, tip)'
  BY <1>0, <1>1, <1>2 DEF LoadedWorse, Worse
<1>10. /\ nChainWork'[diskBest] \in Nat /\ nSequenceId'[diskBest] \in Nat
       /\ \A b \in diskData : nChainWork'[b] \in Nat /\ nSequenceId'[b] \in Nat
  BY <1>0, <1>1 DEF RInv, TInv, TypeOK
<1>11. diskBest \in setBlockIndexCandidates'
  <2>1. diskBest \in ChainOf(diskBest)  BY <1>0, BlockInChain
  <2>2. ~Worse(diskBest, tip)'  BY <1>1, <1>10 DEF Worse
  <2>. QED  BY <1>0, <1>1, <1>9, <2>1, <2>2 DEF LoadedCandidates
<1>12. \E r \in setBlockIndexCandidates' : Fallback(r)'
  <2>1. PICK r : r = diskBest  OBVIOUS
  <2>2. (r \in FullyValid)'  BY <1>0, <1>1, <1>6, <2>1 DEF FullyValid
  <2>3. ~Worse(r, tip)'  BY <1>1, <1>10, <2>1 DEF Worse
  <2>4. ASSUME NEW b \in haveData', b \notin Failed', Worse(r, b)'
        PROVE  b \in setBlockIndexCandidates'
    <3>1. b \in diskData  BY <1>1
    <3>2. ~Worse(b, tip)'  BY <1>1, <1>10, <2>1, <2>4, <3>1 DEF Worse
    <3>. QED  BY <1>1, <1>9, <2>4, <3>1, <3>2 DEF LoadedCandidates
  <2>5. Fallback(r)'  BY <1>6, <2>1, <2>2, <2>3, <2>4 DEF Fallback
  <2>. QED  BY <1>11, <2>1, <2>5
<1>13. BInv'  BY <1>4, <1>7, <1>12 DEF BInv
<1>. QED  BY <1>0, <1>1, <1>4, <1>5, <1>7, <1>8, <1>13 DEF SInv

\* The RPC verifychain touches the record of used pointers only.
LEMMA VerifySInv ==
  ASSUME RInv, SInv, NEW depth, VerifyChain(depth)
  PROVE  SInv'
<1>0. /\ TypeOK /\ IndexIsTree /\ tip \in mapBlockIndex /\ VInv /\ BInv /\ running
      /\ WorkClimbs /\ StakesValid(diskBest)
      /\ ChainOf(diskBest) \cap (Failed \cup diskFailedValid \cup diskFailedChild) = {}
  BY DEF RInv, TInv, TypeOK, SInv, VerifyChain
<1>1. /\ UNCHANGED <<treeVars, dataVars>> /\ tip' = tip /\ Failed' = Failed
      /\ setBlockIndexCandidates' = setBlockIndexCandidates
      /\ nHeight' = nHeight /\ ancestor' = ancestor /\ stakeSource' = stakeSource
      /\ mapBlockIndex' = mapBlockIndex /\ nChainWork' = nChainWork
      /\ pindexMostWork' = pindexMostWork
      /\ diskFailedValid' = diskFailedValid /\ diskFailedChild' = diskFailedChild
      /\ diskBest' = diskBest
  BY DEF VerifyChain, failVars, Failed, treeVars, stepVars, restartVars, diskVars
<1>2. VInv'  BY <1>0, <1>1 DEF VInv, ActiveChain, ChainOf
<1>3. BInv'
  <2>1. tip \in ChainOf(tip)  BY <1>0, BlockInChain
  <2>. QED  BY <1>0, <1>1, <2>1, LowerTipBInv
<1>4. WorkClimbs'  BY <1>0, <1>1 DEF WorkClimbs
<1>5. StakesValid(diskBest)' /\ ChainOf(diskBest)' = ChainOf(diskBest)
  BY <1>0, <1>1 DEF StakesValid, ChainOf, Mature, IsProofOfStake
<1>. QED  BY <1>0, <1>1, <1>2, <1>3, <1>4, <1>5 DEF SInv

LEMMA RestartInitSInv ==
  ASSUME RestartInit, ChainAssumption
  PROVE  SInv
<1>0. /\ Init /\ diskFailedValid = {} /\ diskFailedChild = {} /\ diskBest = tip
  BY DEF RestartInit
<1>1. IInv /\ TInv  BY <1>0, InitIInv DEF IInv
<1>2. BInv  BY <1>0, <1>1, InitBInv
<1>3. Failed = {}  BY <1>0 DEF Init, Failed
<1>4. VInv  BY <1>0, <1>1, <1>3 DEF VInv, Init
<1>. QED  BY <1>0, <1>2, <1>3, <1>4 DEF SInv, BInv

LEMMA RestartNextSInv ==
  ASSUME RInv, SInv, ChainAssumption, [RestartNext]_allVars, RInv', StakePointerUsedOnce',
         Interventions \subseteq {"refuse", "verify"}
  PROVE  SInv'
<1>1. CASE ChainStep  BY <1>1, ChainStepSInv
<1>2. ASSUME NEW full \in BOOLEAN, FlushStateToDisk(full)  PROVE SInv'
  <2>1. /\ running /\ WriteBlockIndex(setDirtyBlockIndex) /\ UNCHANGED vars
        /\ diskBest' = diskBest \/ diskBest' = tip
    BY <1>2 DEF FlushStateToDisk
  <2>. QED  BY <2>1, WriteSInv
<1>3. ASSUME NEW S \in SUBSET setDirtyBlockIndex, Crash(S)  PROVE SInv'
  <2>1. /\ running /\ WriteBlockIndex(S) /\ UNCHANGED vars /\ diskBest' = diskBest
    BY <1>3 DEF Crash
  <2>. QED  BY <2>1, WriteSInv
<1>4. CASE LoadBlockIndexDB  BY <1>4, LoadSInv
<1>5. ASSUME NEW depth \in CheckDepth, VerifyChain(depth)  PROVE SInv'  BY <1>5, VerifySInv
<1>6. CASE UNCHANGED allVars
  <2>1. /\ UNCHANGED vars /\ diskBest' = diskBest /\ running' = running
        /\ diskIndex' = diskIndex /\ diskData' = diskData
        /\ diskFailedValid' = diskFailedValid /\ diskFailedChild' = diskFailedChild
    BY <1>6 DEF allVars, restartVars, diskVars
  <2>2. CASE running
    <3>1. WriteBlockIndex({})  BY <2>1 DEF WriteBlockIndex
    <3>. QED  BY <2>1, <2>2, <3>1, WriteSInv
  <2>3. CASE ~running
    <3>1. /\ Failed' = Failed /\ nHeight' = nHeight /\ ancestor' = ancestor
          /\ stakeSource' = stakeSource /\ mapBlockIndex' = mapBlockIndex
          /\ nChainWork' = nChainWork
      BY <2>1 DEF vars, treeVars, failVars, Failed
    <3>2. WorkClimbs'  BY <3>1 DEF SInv, WorkClimbs
    <3>3. StakesValid(diskBest)' /\ ChainOf(diskBest)' = ChainOf(diskBest)
      BY <2>1, <3>1 DEF SInv, StakesValid, ChainOf, Mature, IsProofOfStake
    <3>. QED  BY <2>1, <2>3, <3>1, <3>2, <3>3 DEF SInv
  <2>. QED  BY <2>2, <2>3
<1>. QED  BY <1>1, <1>2, <1>3, <1>4, <1>5, <1>6 DEF RestartNext

\* A start loses no best chain: whatever a crash took, the candidates that
\* LoadBlockIndexDB rebuilds are enough for FindMostWorkChain.  The hypothesis
\* is about the pointers: after a start mapUsedStakePointers is not exact, so
\* that a pointer could come to be used twice in the active chain, and then
\* ConnectTip would not connect that chain again after leaving it.
THEOREM BestChainSurvives ==
  ASSUME Interventions \subseteq {"refuse", "verify"}
  PROVE  RestartSpec /\ []StakePointerUsedOnce => []BestChainAfterRestart
<1>1. RestartInit => SInv  BY RestartInitSInv, ChainAssumption
<1>2. RInv /\ RInv' /\ SInv /\ StakePointerUsedOnce' /\ [RestartNext]_allVars => SInv'
  BY RestartNextSInv, ChainAssumption
<1>3. RInv /\ SInv => BestChainAfterRestart
  BY SettledOnBest, ChainAssumption DEF RInv, TInv, SInv, BestChainAfterRestart
<1>. QED  BY <1>1, <1>2, <1>3, RestartInvariant, PTL DEF RestartSpec
=============================================================================
