-------------------------- MODULE MnPosChain_proofs --------------------------
(***************************************************************************)
(* Proofs about MnPosChain, for every number of blocks, every set of       *)
(* payment slots, every value of the three consensus parameters and every  *)
(* choice of interventions.                                                *)
(***************************************************************************)
EXTENDS MnPosChain, Induction, FiniteSetTheorems

(***************************************************************************)
(* Facts about the tree.                                                   *)
(***************************************************************************)

\* The chain of an ancestor t of b is the part of b's chain up to t's height.
LEMMA ChainOfAncestor ==
  ASSUME TypeOK, IndexIsTree, NEW b \in mapBlockIndex, NEW h \in 0..nHeight[b]
  PROVE  /\ ancestor[b][h] \in mapBlockIndex
         /\ nHeight[ancestor[b][h]] = h
         /\ ChainOf(ancestor[b][h]) = {ancestor[b][i] : i \in 0..h}
<1> DEFINE t == ancestor[b][h]
<1>1. ancestor[b] \in [0..nHeight[b] -> mapBlockIndex]  BY DEF TypeOK
<1>2. t \in mapBlockIndex  BY <1>1
<1>3. nHeight[t] = h /\ \A i \in 0..h : ancestor[t][i] = ancestor[b][i]
  BY DEF IndexIsTree
<1>4. ChainOf(t) = {ancestor[t][i] : i \in 0..h}  BY <1>3 DEF ChainOf
<1>5. {ancestor[t][i] : i \in 0..h} = {ancestor[b][i] : i \in 0..h}  BY <1>3
<1>. QED  BY <1>2, <1>3, <1>4, <1>5

\* chainActive.Contains is membership in the active chain.
LEMMA ContainsIsMembership ==
  ASSUME TypeOK, IndexIsTree, NEW b \in mapBlockIndex
  PROVE  Contains(b) <=> b \in ActiveChain
<1>1. tip \in mapBlockIndex /\ nHeight[tip] \in Nat /\ nHeight[b] \in Nat
  BY DEF TypeOK
<1>2. ASSUME Contains(b) PROVE b \in ActiveChain
  <2>1. nHeight[b] \in 0..nHeight[tip]
    BY <1>1, <1>2, b # NoBlock DEF Contains, GetAncestor, TypeOK, NoBlock, Block
  <2>. QED  BY <2>1, <1>2 DEF Contains, GetAncestor, ActiveChain, ChainOf
<1>3. ASSUME b \in ActiveChain PROVE Contains(b)
  <2>1. PICK h \in 0..nHeight[tip] : b = ancestor[tip][h]
    BY <1>3 DEF ActiveChain, ChainOf
  <2>2. nHeight[b] = h  BY <2>1, <1>1 DEF IndexIsTree
  <2>. QED  BY <2>1, <2>2 DEF Contains, GetAncestor
<1>. QED  BY <1>2, <1>3

\* The height of a block of the active chain locates it.
LEMMA ActiveAt ==
  ASSUME TypeOK, IndexIsTree, NEW b \in ActiveChain
  PROVE  /\ b \in mapBlockIndex /\ b \in haveData
         /\ nHeight[b] \in 0..nHeight[tip]
         /\ ancestor[tip][nHeight[b]] = b
         /\ ChainOf(b) = {x \in ActiveChain : nHeight[x] <= nHeight[b]}
<1>1. tip \in mapBlockIndex /\ tip \in haveData /\ nHeight[tip] \in Nat  BY DEF TypeOK
<1>2. PICK h \in 0..nHeight[tip] : b = ancestor[tip][h]
  BY DEF ActiveChain, ChainOf
<1>3. /\ b \in mapBlockIndex /\ nHeight[b] = h
      /\ ChainOf(b) = {ancestor[tip][i] : i \in 0..h}
  BY <1>1, <1>2, ChainOfAncestor
<1>4. b \in haveData  BY <1>1, <1>2 DEF IndexIsTree
<1>5. \A i \in 0..nHeight[tip] : nHeight[ancestor[tip][i]] = i
  BY <1>1 DEF IndexIsTree
<1>6. {ancestor[tip][i] : i \in 0..h} = {x \in ActiveChain : nHeight[x] <= h}
  BY <1>1, <1>2, <1>5 DEF ActiveChain, ChainOf
<1>. QED  BY <1>2, <1>3, <1>4, <1>6

(***************************************************************************)
(* What the building blocks of the actions preserve.                       *)
(***************************************************************************)

\* What holds of the tree and of the payments whatever mapUsedStakePointers
\* says, and so also when it has been rebuilt from disk.
TInv == TypeOK /\ IndexIsTree /\ ActiveStakeSourcesMature

\* The invariant: UsedMapExact is what makes IsStakePointerUsed, which looks
\* at one entry of the map, decide about the whole active chain.
IInv == TInv /\ UsedMapExact

\* A block enters the index above a block that has its data: the old entries
\* keep their place and the index stays a tree.
LEMMA AcceptableKeepsTree ==
  ASSUME TypeOK, IndexIsTree, ChainAssumption,
         NEW b \in Block \ haveData, NEW prev \in haveData, NEW work \in Work,
         NEW ptr \in Pointer \cup {NoPointer},
         AcceptableBlock(b, prev, work, ptr)
  PROVE  /\ mapBlockIndex \subseteq mapBlockIndex' /\ b \in mapBlockIndex'
         /\ mapBlockIndex' \subseteq Block
         /\ \A x \in mapBlockIndex : /\ nHeight'[x] = nHeight[x]
                                     /\ ancestor'[x] = ancestor[x]
                                     /\ stakeSource'[x] = stakeSource[x]
         /\ nHeight' \in [Block -> Nat] /\ nChainWork' \in [Block -> Nat]
         /\ stakeSource' \in [Block -> Pointer \cup {NoPointer}]
         /\ ancestor' = [x \in Block |-> ancestor'[x]]
         /\ \A x \in mapBlockIndex' : ancestor'[x] \in [0..nHeight'[x] -> mapBlockIndex']
         /\ \A x \in mapBlockIndex' :
              /\ ancestor'[x][0] = 0
              /\ ancestor'[x][nHeight'[x]] = x
              /\ \A h \in 0..nHeight'[x] :
                   /\ nHeight'[ancestor'[x][h]] = h
                   /\ \A i \in 0..h : ancestor'[ancestor'[x][h]][i] = ancestor'[x][i]
         /\ \A h \in 0..nHeight'[b] : ancestor'[b][h] \in haveData \cup {b}
<1>0. /\ prev \in mapBlockIndex /\ nHeight[prev] \in Nat
      /\ ancestor[prev] \in [0..nHeight[prev] -> mapBlockIndex]
      /\ \A h \in 0..nHeight[prev] : ancestor[prev][h] \in haveData
  BY DEF TypeOK, IndexIsTree
<1>1. CASE AcceptBlockHeader(b, prev) /\ AddToBlockIndex(b, prev, work, ptr)
  <2> DEFINE H == nHeight[prev] + 1
             anc == [i \in 0..H |-> IF i = H THEN b ELSE ancestor[prev][i]]
  <2>1. b \notin mapBlockIndex  BY <1>1 DEF AcceptBlockHeader
  <2>2. /\ mapBlockIndex' = mapBlockIndex \cup {b}
        /\ nHeight' = [nHeight EXCEPT ![b] = H]
        /\ nChainWork' = [nChainWork EXCEPT ![b] = nChainWork[prev] + work]
        /\ ancestor' = [ancestor EXCEPT ![b] = anc]
        /\ stakeSource' = [stakeSource EXCEPT ![b] = ptr]
    BY <1>1 DEF AddToBlockIndex
  <2>3. \A x \in mapBlockIndex : /\ nHeight'[x] = nHeight[x]
                                 /\ ancestor'[x] = ancestor[x]
                                 /\ stakeSource'[x] = stakeSource[x]
    BY <2>1, <2>2 DEF TypeOK
  <2>4. nHeight'[b] = H /\ ancestor'[b] = anc
    BY <2>2 DEF TypeOK
  <2>5. /\ nHeight' \in [Block -> Nat] /\ nChainWork' \in [Block -> Nat]
        /\ stakeSource' \in [Block -> Pointer \cup {NoPointer}]
    <3>1. prev \in Block /\ work \in Nat  BY <1>0 DEF TypeOK, ChainAssumption
    <3>2. nHeight \in [Block -> Nat] /\ nChainWork \in [Block -> Nat]  BY DEF TypeOK
    <3>3. nChainWork[prev] + work \in Nat /\ H \in Nat  BY <1>0, <3>1, <3>2
    <3>. QED  BY <2>2, <3>2, <3>3 DEF TypeOK
  <2>6. ancestor' = [x \in Block |-> ancestor'[x]]
    BY <2>2 DEF TypeOK
  <2>7. anc \in [0..H -> mapBlockIndex \cup {b}]
    BY <1>0
  <2>8. \A x \in mapBlockIndex' : ancestor'[x] \in [0..nHeight'[x] -> mapBlockIndex']
    <3>1. ASSUME NEW x \in mapBlockIndex
          PROVE  ancestor[x] \in [0..nHeight[x] -> mapBlockIndex \cup {b}]
      <4>1. ancestor[x] \in [0..nHeight[x] -> mapBlockIndex]  BY DEF TypeOK
      <4>. QED  BY <4>1
    <3> HIDE DEF anc, H
    <3>. QED  BY <3>1, <2>2, <2>3, <2>4, <2>7
  <2>9. ASSUME NEW x \in mapBlockIndex
        PROVE  /\ ancestor'[x][0] = 0
               /\ ancestor'[x][nHeight'[x]] = x
               /\ \A h \in 0..nHeight'[x] :
                    /\ nHeight'[ancestor'[x][h]] = h
                    /\ \A i \in 0..h : ancestor'[ancestor'[x][h]][i] = ancestor'[x][i]
    <3>1. \A h \in 0..nHeight[x] : ancestor[x][h] \in mapBlockIndex  BY DEF TypeOK
    <3>. QED  BY <2>3, <3>1 DEF IndexIsTree
  <2>10. /\ ancestor'[b][0] = 0
         /\ ancestor'[b][nHeight'[b]] = b
         /\ \A h \in 0..nHeight'[b] :
              /\ nHeight'[ancestor'[b][h]] = h
              /\ \A i \in 0..h : ancestor'[ancestor'[b][h]][i] = ancestor'[b][i]
    <3>1. anc[0] = 0 /\ anc[H] = b  BY <1>0 DEF IndexIsTree
    <3>2. ASSUME NEW h \in 0..H
          PROVE  /\ nHeight'[anc[h]] = h
                 /\ \A i \in 0..h : ancestor'[anc[h]][i] = anc[i]
      <4>1. CASE h = H
        BY <4>1, <2>4, <3>1
      <4>2. CASE h # H
        <5>1. h \in 0..nHeight[prev] /\ anc[h] = ancestor[prev][h]
          BY <4>2, <1>0
        <5>2. anc[h] \in mapBlockIndex  BY <5>1, <1>0
        <5>3. nHeight[anc[h]] = h /\ \A i \in 0..h : ancestor[anc[h]][i] = ancestor[prev][i]
          BY <5>1, <1>0 DEF IndexIsTree
        <5>4. \A i \in 0..h : anc[i] = ancestor[prev][i]
          BY <5>1, <1>0
        <5>. QED  BY <5>2, <5>3, <5>4, <2>3
      <4>. QED  BY <4>1, <4>2
    <3> HIDE DEF anc, H
    <3>. QED  BY <2>4, <3>1, <3>2
  <2>11. \A h \in 0..nHeight'[b] : ancestor'[b][h] \in haveData \cup {b}
    BY <2>4, <1>0
  <2>12. mapBlockIndex \subseteq Block  BY DEF TypeOK
  <2> HIDE DEF anc, H
  <2>. QED  BY <2>2, <2>3, <2>5, <2>6, <2>8, <2>9, <2>10, <2>11, <2>12
<1>2. CASE /\ b \in mapBlockIndex \ (haveData \cup Failed)
           /\ prev = Prev(b)
           /\ UNCHANGED treeVars
  <2>1. /\ mapBlockIndex' = mapBlockIndex /\ nHeight' = nHeight
        /\ nChainWork' = nChainWork
        /\ ancestor' = ancestor /\ stakeSource' = stakeSource
    BY <1>2 DEF treeVars
  <2>2. /\ b \in mapBlockIndex /\ nHeight[b] \in Nat
        /\ ancestor[b][0] = 0 /\ ancestor[b][nHeight[b]] = b
    BY <1>2 DEF TypeOK, IndexIsTree
  <2>3. nHeight[b] # 0
    <3>1. ancestor[prev][0] = 0  BY <1>0 DEF IndexIsTree
    <3>2. 0 \in haveData  BY <1>0, <3>1
    <3>. QED  BY <2>2, <3>2
  <2>4. \A h \in 0..nHeight[b] : ancestor[b][h] \in haveData \cup {b}
    <3>1. nHeight[b] - 1 \in 0..nHeight[b]  BY <2>2, <2>3
    <3>2. /\ nHeight[prev] = nHeight[b] - 1
          /\ \A i \in 0..nHeight[b] - 1 : ancestor[prev][i] = ancestor[b][i]
      BY <2>2, <3>1, <1>2 DEF IndexIsTree, Prev
    <3>3. \A i \in 0..nHeight[b] - 1 : ancestor[b][i] \in haveData
      BY <3>2, <1>0
    <3>. QED  BY <3>3, <2>2
  <2>5. /\ mapBlockIndex \subseteq Block
        /\ nHeight \in [Block -> Nat] /\ nChainWork \in [Block -> Nat]
        /\ stakeSource \in [Block -> Pointer \cup {NoPointer}]
        /\ ancestor = [x \in Block |-> ancestor[x]]
        /\ \A x \in mapBlockIndex : ancestor[x] \in [0..nHeight[x] -> mapBlockIndex]
    BY DEF TypeOK
  <2>6. \A x \in mapBlockIndex :
          /\ ancestor[x][0] = 0
          /\ ancestor[x][nHeight[x]] = x
          /\ \A h \in 0..nHeight[x] :
               /\ nHeight[ancestor[x][h]] = h
               /\ \A i \in 0..h : ancestor[ancestor[x][h]][i] = ancestor[x][i]
    BY DEF IndexIsTree
  <2>7. /\ mapBlockIndex' \subseteq Block
        /\ nHeight' \in [Block -> Nat] /\ nChainWork' \in [Block -> Nat]
        /\ stakeSource' \in [Block -> Pointer \cup {NoPointer}]
    BY <2>1, <2>5
  <2>8. ancestor' = [x \in Block |-> ancestor'[x]]
    BY <2>1, <2>5
  <2>9. \A x \in mapBlockIndex' : ancestor'[x] \in [0..nHeight'[x] -> mapBlockIndex']
    BY <2>1, <2>5
  <2>10. \A x \in mapBlockIndex' :
          /\ ancestor'[x][0] = 0
          /\ ancestor'[x][nHeight'[x]] = x
          /\ \A h \in 0..nHeight'[x] :
               /\ nHeight'[ancestor'[x][h]] = h
               /\ \A i \in 0..h : ancestor'[ancestor'[x][h]][i] = ancestor'[x][i]
    BY <2>1, <2>6
  <2>11. \A h \in 0..nHeight'[b] : ancestor'[b][h] \in haveData \cup {b}
    BY <2>1, <2>4
  <2>. QED  BY <2>1, <2>2, <2>7, <2>8, <2>9, <2>10, <2>11
<1>. QED  BY <1>1, <1>2 DEF AcceptableBlock

\* A step that leaves the tip, the map and the old entries of the index alone
\* keeps what is said about the active chain.
LEMMA ChainFrame ==
  ASSUME TInv, tip' = tip, mapUsedStakePointers' = mapUsedStakePointers,
         \A x \in mapBlockIndex : /\ nHeight'[x] = nHeight[x]
                                  /\ ancestor'[x] = ancestor[x]
                                  /\ stakeSource'[x] = stakeSource[x]
  PROVE  (UsedMapExact => UsedMapExact') /\ ActiveStakeSourcesMature'
<1>1. TypeOK /\ IndexIsTree  BY DEF TInv
<1>2. tip \in mapBlockIndex  BY <1>1 DEF TypeOK
<1>3. ActiveChain' = ActiveChain  BY <1>2 DEF ActiveChain, ChainOf
<1>4. \A x \in ActiveChain : x \in mapBlockIndex  BY <1>1, ActiveAt
<1>5. UsedMapExact => UsedMapExact'
  BY <1>3, <1>4 DEF UsedMapExact, IsProofOfStake
<1>6. ActiveStakeSourcesMature'
  BY <1>3, <1>4 DEF TInv, ActiveStakeSourcesMature, IsProofOfStake
<1>. QED  BY <1>5, <1>6

\* Disconnecting the blocks above t gives back exactly their pointers: no
\* block that stays had the same pointer, and none was paid by one that goes.
LEMMA DisconnectKeeps ==
  ASSUME TInv, NEW t \in ActiveChain, DisconnectTo(t), UNCHANGED treeVars
  PROVE  /\ (UsedMapExact => UsedMapExact') /\ ActiveStakeSourcesMature'
         /\ mapUsedStakePointers' \in [Pointer -> Block \cup {NoBlock}]
<1>0. TypeOK /\ IndexIsTree  BY DEF TInv
<1>1. /\ mapBlockIndex' = mapBlockIndex /\ nHeight' = nHeight
      /\ ancestor' = ancestor /\ stakeSource' = stakeSource
  BY DEF treeVars
<1>2. /\ tip' = t
      /\ mapUsedStakePointers' =
           [p \in Pointer |->
             IF \E b \in ActiveChain : nHeight[b] > nHeight[t] /\ stakeSource[b] = p
               THEN NoBlock ELSE mapUsedStakePointers[p]]
  BY DEF DisconnectTo
<1>3. ActiveChain' = {x \in ActiveChain : nHeight[x] <= nHeight[t]}
  <2>1. ActiveChain' = ChainOf(t)  BY <1>1, <1>2 DEF ActiveChain, ChainOf
  <2>. QED  BY <2>1, <1>0, ActiveAt
<1>4. \A x \in ActiveChain : x \in Block /\ nHeight[x] \in Nat
  BY <1>0, ActiveAt DEF TypeOK
<1>6. mapUsedStakePointers' \in [Pointer -> Block \cup {NoBlock}]
  BY <1>0, <1>2 DEF TypeOK
<1>9. ASSUME UsedMapExact PROVE UsedMapExact'
  <2>1. /\ \A b \in ActiveChain : stakeSource[b] # NoPointer
                                    => mapUsedStakePointers[stakeSource[b]] = b
        /\ \A p \in Pointer : mapUsedStakePointers[p] # NoBlock =>
              /\ mapUsedStakePointers[p] \in ActiveChain
              /\ stakeSource[mapUsedStakePointers[p]] = p
    BY <1>9 DEF UsedMapExact, IsProofOfStake
  <2>2. \A b \in ActiveChain' : stakeSource[b] # NoPointer
                                  => mapUsedStakePointers'[stakeSource[b]] = b
    <3> SUFFICES ASSUME NEW b \in ActiveChain', stakeSource[b] # NoPointer
                 PROVE  mapUsedStakePointers'[stakeSource[b]] = b
      OBVIOUS
    <3>1. b \in ActiveChain /\ nHeight[b] <= nHeight[t]  BY <1>3
    <3>2. stakeSource[b] \in Pointer  BY <3>1, <1>4, <1>0 DEF TypeOK
    <3>3. mapUsedStakePointers[stakeSource[b]] = b  BY <3>1, <2>1
    <3>4. ~ \E a \in ActiveChain : nHeight[a] > nHeight[t] /\ stakeSource[a] = stakeSource[b]
      <4> SUFFICES ASSUME NEW a \in ActiveChain, nHeight[a] > nHeight[t],
                          stakeSource[a] = stakeSource[b]
                   PROVE  FALSE
        OBVIOUS
      <4>1. a = b  BY <3>3, <2>1
      <4>2. nHeight[t] \in Nat /\ nHeight[a] \in Nat  BY <1>4
      <4>. QED  BY <4>1, <4>2, <3>1
    <3>. QED  BY <1>2, <3>2, <3>3, <3>4
  <2>3. \A p \in Pointer : mapUsedStakePointers'[p] # NoBlock =>
           /\ mapUsedStakePointers'[p] \in ActiveChain'
           /\ stakeSource[mapUsedStakePointers'[p]] = p
    <3> SUFFICES ASSUME NEW p \in Pointer, mapUsedStakePointers'[p] # NoBlock
                 PROVE  /\ mapUsedStakePointers'[p] \in ActiveChain'
                        /\ stakeSource[mapUsedStakePointers'[p]] = p
      OBVIOUS
    <3>1. /\ mapUsedStakePointers'[p] = mapUsedStakePointers[p]
          /\ ~ \E b \in ActiveChain : nHeight[b] > nHeight[t] /\ stakeSource[b] = p
      BY <1>2
    <3>2. /\ mapUsedStakePointers[p] \in ActiveChain
          /\ stakeSource[mapUsedStakePointers[p]] = p
      BY <3>1, <2>1
    <3>3. nHeight[mapUsedStakePointers[p]] <= nHeight[t]
      BY <3>1, <3>2, <1>4
    <3>. QED  BY <3>1, <3>2, <3>3, <1>3
  <2>4. UsedMapExact'
    BY <1>1, <2>2, <2>3 DEF UsedMapExact, IsProofOfStake
  <2>. QED  BY <2>4
<1>10. ActiveStakeSourcesMature'
  <2>1. \A b \in ActiveChain' : b \in ActiveChain  BY <1>3
  <2>. QED  BY <2>1, <1>1 DEF TInv, ActiveStakeSourcesMature, IsProofOfStake
<1>. QED  BY <1>6, <1>9, <1>10

\* Connecting a block that passes CheckStake on top of the tip consumes a
\* pointer nobody in the chain has used, of a payment in the chain.
LEMMA ConnectKeeps ==
  ASSUME TInv, ChainAssumption, NEW b \in mapBlockIndex, nHeight[b] = nHeight[tip] + 1,
         Prev(b) = tip, CheckStake(b), tip' = b, EmplacePointer(b), UNCHANGED treeVars
  PROVE  /\ (UsedMapExact => UsedMapExact') /\ ActiveStakeSourcesMature'
         /\ mapUsedStakePointers' \in [Pointer -> Block \cup {NoBlock}]
<1>0. /\ TypeOK /\ IndexIsTree
      /\ nHeight[tip] \in Nat /\ nHeight[b] \in Nat /\ b \in Block
      /\ tip \in mapBlockIndex
  BY DEF TInv, TypeOK
<1>1. /\ mapBlockIndex' = mapBlockIndex /\ nHeight' = nHeight
      /\ ancestor' = ancestor /\ stakeSource' = stakeSource
  BY DEF treeVars
<1>2. \A i \in 0..nHeight[tip] : ancestor[b][i] = ancestor[tip][i]
  <2>1. nHeight[tip] \in 0..nHeight[b] /\ ancestor[b][nHeight[tip]] = tip
    BY <1>0 DEF Prev
  <2>. QED  BY <2>1, <1>0 DEF IndexIsTree
<1>3. ancestor[b][nHeight[b]] = b  BY <1>0 DEF IndexIsTree
<1>4. ActiveChain' = ActiveChain \cup {b}
  <2>1. ActiveChain' = {ancestor[b][i] : i \in 0..nHeight[b]}
    BY <1>1 DEF ActiveChain, ChainOf
  <2>2. 0..nHeight[b] = 0..nHeight[tip] \cup {nHeight[b]}  BY <1>0
  <2>3. {ancestor[b][i] : i \in 0..nHeight[b]}
          = {ancestor[b][i] : i \in 0..nHeight[tip]} \cup {ancestor[b][nHeight[b]]}
    BY <2>2
  <2>4. {ancestor[b][i] : i \in 0..nHeight[tip]} = {ancestor[tip][i] : i \in 0..nHeight[tip]}
    BY <1>2
  <2>. QED  BY <2>1, <2>3, <2>4, <1>3 DEF ActiveChain, ChainOf
<1>5. \A x \in ActiveChain : /\ x \in mapBlockIndex /\ x \in Block
                             /\ nHeight[x] \in 0..nHeight[tip]
                             /\ ancestor[tip][nHeight[x]] = x
  BY <1>0, ActiveAt DEF TypeOK
<1>6. b \notin ActiveChain  BY <1>0, <1>5
<1>9. mapUsedStakePointers' =
        [p \in Pointer |-> IF p = stakeSource[b] /\ mapUsedStakePointers[p] = NoBlock
                             THEN b ELSE mapUsedStakePointers[p]]
  BY DEF EmplacePointer
<1>10. mapUsedStakePointers' \in [Pointer -> Block \cup {NoBlock}]
  BY <1>0, <1>9 DEF TypeOK
<1>13. ASSUME UsedMapExact PROVE UsedMapExact'
  <2>1. /\ \A a \in ActiveChain : stakeSource[a] # NoPointer
                                    => mapUsedStakePointers[stakeSource[a]] = a
        /\ \A p \in Pointer : mapUsedStakePointers[p] # NoBlock =>
              /\ mapUsedStakePointers[p] \in ActiveChain
              /\ stakeSource[mapUsedStakePointers[p]] = p
    BY <1>13 DEF UsedMapExact, IsProofOfStake
  <2>2. ASSUME stakeSource[b] # NoPointer
        PROVE  stakeSource[b] \in Pointer /\ mapUsedStakePointers[stakeSource[b]] = NoBlock
    <3>1. stakeSource[b] \in Pointer  BY <1>0, <2>2 DEF TypeOK
    <3>2. ~IsStakePointerUsed(b, stakeSource[b])
      BY <2>2 DEF CheckStake, CheckBlockProofPointer, IsProofOfStake
    <3>3. ASSUME mapUsedStakePointers[stakeSource[b]] # NoBlock PROVE FALSE
      <4> DEFINE user == mapUsedStakePointers[stakeSource[b]]
      <4>1. user \in ActiveChain  BY <3>1, <3>3, <2>1
      <4>2. user \in mapBlockIndex /\ nHeight[user] \in 0..nHeight[tip]
        BY <4>1, <1>5
      <4>3. GetAncestor(b, nHeight[user]) = user
        BY <4>1, <4>2, <1>0, <1>2, <1>5 DEF GetAncestor
      <4>. QED  BY <3>2, <4>1, <4>2, <4>3, <1>0, <1>6 DEF IsStakePointerUsed
    <3>. QED  BY <3>1, <3>3
  <2>3. \A a \in ActiveChain' : stakeSource[a] # NoPointer
                                   => mapUsedStakePointers'[stakeSource[a]] = a
    <3> SUFFICES ASSUME NEW a \in ActiveChain', stakeSource[a] # NoPointer
                 PROVE  mapUsedStakePointers'[stakeSource[a]] = a
      OBVIOUS
    <3>1. CASE a = b  BY <3>1, <2>2, <1>9
    <3>2. CASE a \in ActiveChain
      <4>1. mapUsedStakePointers[stakeSource[a]] = a /\ a # NoBlock
        BY <3>2, <1>5, <2>1 DEF NoBlock, Block
      <4>2. stakeSource[a] \in Pointer  BY <3>2, <1>0, <1>5 DEF TypeOK
      <4>. QED  BY <4>1, <4>2, <1>9
    <3>. QED  BY <3>1, <3>2, <1>4
  <2>4. \A p \in Pointer : mapUsedStakePointers'[p] # NoBlock =>
           /\ mapUsedStakePointers'[p] \in ActiveChain'
           /\ stakeSource[mapUsedStakePointers'[p]] = p
    BY <1>4, <2>1, <1>9
  <2>5. UsedMapExact'
    BY <1>1, <2>3, <2>4 DEF UsedMapExact, IsProofOfStake
  <2>. QED  BY <2>5
<1>14. ActiveStakeSourcesMature'
  <2>1. ASSUME nHeight[b] >= PoSStartHeight
        PROVE  /\ IsProofOfStake(b)
               /\ \E h \in 0..nHeight[b] :
                    /\ stakeSource[b][1] = ancestor[b][h]
                    /\ nHeight[b] - ValidStakePointerDuration <= h
                    /\ h <= nHeight[b] - MaxReorganizationDepth
    <3> DEFINE from == stakeSource[b][1]
    <3>1. /\ IsProofOfStake(b) /\ from \in mapBlockIndex /\ Contains(from)
          /\ nHeight[from] >= nHeight[b] - ValidStakePointerDuration
          /\ nHeight[from] <= nHeight[b] - MaxReorganizationDepth
      BY <2>1 DEF CheckStake, CheckBlockProofPointer
    <3>2. from \in ActiveChain  BY <3>1, <1>0, ContainsIsMembership
    <3>3. /\ nHeight[from] \in 0..nHeight[tip]
          /\ ancestor[b][nHeight[from]] = from
      BY <3>2, <1>2, <1>5
    <3>4. nHeight[from] \in 0..nHeight[b]  BY <3>3, <1>0
    <3> HIDE DEF from
    <3>5. stakeSource[b][1] = from  BY DEF from
    <3>. QED  BY <3>1, <3>3, <3>4, <3>5
  <2>2. \A a \in ActiveChain : nHeight[a] >= PoSStartHeight =>
          /\ IsProofOfStake(a)
          /\ \E h \in 0..nHeight[a] :
               /\ stakeSource[a][1] = ancestor[a][h]
               /\ nHeight[a] - ValidStakePointerDuration <= h
               /\ h <= nHeight[a] - MaxReorganizationDepth
    BY DEF TInv, ActiveStakeSourcesMature
  <2>3. \A a \in ActiveChain' : nHeight[a] >= PoSStartHeight =>
          /\ IsProofOfStake(a)
          /\ \E h \in 0..nHeight[a] :
               /\ stakeSource[a][1] = ancestor[a][h]
               /\ nHeight[a] - ValidStakePointerDuration <= h
               /\ h <= nHeight[a] - MaxReorganizationDepth
    BY <1>4, <2>1, <2>2
  <2>. QED  BY <2>3, <1>1 DEF ActiveStakeSourcesMature, IsProofOfStake
<1>. QED  BY <1>10, <1>13, <1>14

(***************************************************************************)
(* The invariant is inductive.                                             *)
(***************************************************************************)

\* Steps that leave the index alone keep it a tree.
LEMMA TreeFrame ==
  ASSUME TypeOK, IndexIsTree, UNCHANGED <<treeVars, dataVars>>
  PROVE  /\ IndexIsTree'
         /\ mapBlockIndex' = mapBlockIndex /\ haveData' = haveData
         /\ nHeight' = nHeight /\ ancestor' = ancestor /\ stakeSource' = stakeSource
         /\ (/\ mapBlockIndex \subseteq Block /\ haveData \subseteq mapBlockIndex
             /\ nHeight \in [Block -> Nat]
             /\ nChainWork \in [Block -> Nat]
             /\ nSequenceId \in [Block -> Nat]
             /\ ancestor = [b \in Block |-> ancestor[b]]
             /\ \A b \in mapBlockIndex : ancestor[b] \in [0..nHeight[b] -> mapBlockIndex]
             /\ stakeSource \in [Block -> Pointer \cup {NoPointer}])'
<1>1. /\ mapBlockIndex' = mapBlockIndex /\ haveData' = haveData
      /\ nHeight' = nHeight /\ nChainWork' = nChainWork
      /\ ancestor' = ancestor /\ stakeSource' = stakeSource
      /\ nSequenceId' = nSequenceId
  BY DEF treeVars, dataVars
<1>2. IndexIsTree'  BY <1>1 DEF IndexIsTree
<1>3. /\ mapBlockIndex \subseteq Block /\ haveData \subseteq mapBlockIndex
      /\ nHeight \in [Block -> Nat] /\ nChainWork \in [Block -> Nat]
      /\ nSequenceId \in [Block -> Nat]
      /\ stakeSource \in [Block -> Pointer \cup {NoPointer}]
  BY DEF TypeOK
<1>4. /\ ancestor = [b \in Block |-> ancestor[b]]
      /\ \A b \in mapBlockIndex : ancestor[b] \in [0..nHeight[b] -> mapBlockIndex]
  BY DEF TypeOK
<1>5. (/\ mapBlockIndex \subseteq Block /\ haveData \subseteq mapBlockIndex
       /\ nHeight \in [Block -> Nat] /\ nChainWork \in [Block -> Nat]
       /\ nSequenceId \in [Block -> Nat]
       /\ stakeSource \in [Block -> Pointer \cup {NoPointer}])'
  BY <1>1, <1>3
<1>6. (ancestor = [b \in Block |-> ancestor[b]])'  BY <1>1, <1>4
<1>7. (\A b \in mapBlockIndex : ancestor[b] \in [0..nHeight[b] -> mapBlockIndex])'
  BY <1>1, <1>4
<1>. QED  BY <1>1, <1>2, <1>5, <1>6, <1>7

\* A block that arrives, stored or not.
LEMMA ReceiveKeeps ==
  ASSUME TInv, ChainAssumption, ReceiveBlock
  PROVE  TInv' /\ (UsedMapExact => UsedMapExact')
<1>0. TypeOK /\ IndexIsTree  BY DEF TInv
<1>1. PICK b \in Arriving, prev \in haveData, work \in Work,
           ptr \in (mapBlockIndex \X Slot) \cup {NoPointer} :
         \/ AcceptBlock(b, prev, work, ptr)
         \/ AcceptBlockRefused(b, prev, work, ptr)
         \/ AcceptBlockInvalid(b, prev, work, ptr)
  BY DEF ReceiveBlock
<1>2. b \in Block \ haveData  BY DEF Arriving
<1>3. ptr \in Pointer \cup {NoPointer}  BY <1>0 DEF TypeOK, Pointer
<1>4. AcceptableBlock(b, prev, work, ptr)
  BY <1>1 DEF AcceptBlock, AcceptBlockRefused, AcceptBlockInvalid, AcceptableBlock
<1>5. /\ mapBlockIndex \subseteq mapBlockIndex' /\ b \in mapBlockIndex'
      /\ mapBlockIndex' \subseteq Block
      /\ \A x \in mapBlockIndex : /\ nHeight'[x] = nHeight[x]
                                  /\ ancestor'[x] = ancestor[x]
                                  /\ stakeSource'[x] = stakeSource[x]
      /\ nHeight' \in [Block -> Nat] /\ nChainWork' \in [Block -> Nat]
      /\ stakeSource' \in [Block -> Pointer \cup {NoPointer}]
      /\ ancestor' = [x \in Block |-> ancestor'[x]]
      /\ \A x \in mapBlockIndex' : ancestor'[x] \in [0..nHeight'[x] -> mapBlockIndex']
  BY <1>0, <1>2, <1>3, <1>4, AcceptableKeepsTree
<1>6. \A x \in mapBlockIndex' :
        /\ ancestor'[x][0] = 0
        /\ ancestor'[x][nHeight'[x]] = x
        /\ \A h \in 0..nHeight'[x] :
             /\ nHeight'[ancestor'[x][h]] = h
             /\ \A i \in 0..h : ancestor'[ancestor'[x][h]][i] = ancestor'[x][i]
  BY <1>0, <1>2, <1>3, <1>4, AcceptableKeepsTree
<1>7. \A h \in 0..nHeight'[b] : ancestor'[b][h] \in haveData \cup {b}
  BY <1>0, <1>2, <1>3, <1>4, AcceptableKeepsTree
<1>8. /\ tip' = tip /\ mapUsedStakePointers' = mapUsedStakePointers
      /\ pindexMostWork' = pindexMostWork /\ pindexOldTip' = pindexOldTip
  BY <1>1 DEF AcceptBlock, AcceptBlockRefused, AcceptBlockInvalid, stepVars
<1>9. (UsedMapExact => UsedMapExact') /\ ActiveStakeSourcesMature'
  BY <1>5, <1>8, ChainFrame
<1>10. /\ haveData' \in {haveData, haveData \cup {b}}
       /\ nSequenceId' \in [Block -> Nat]
       /\ setBlockIndexCandidates' \subseteq haveData'
       /\ failedValid' \subseteq mapBlockIndex' /\ failedChild' \subseteq mapBlockIndex'
       /\ interventions' \in 0..MaxInterventions
  <2>0. /\ nSequenceId \in [Block -> Nat] /\ setBlockIndexCandidates \subseteq haveData
        /\ failedValid \subseteq mapBlockIndex /\ failedChild \subseteq mapBlockIndex
        /\ interventions \in 0..MaxInterventions /\ MaxInterventions \in Nat
    BY <1>0 DEF TypeOK, ChainAssumption
  <2>1. CASE AcceptBlock(b, prev, work, ptr)
    <3>1. Cardinality(haveData) \in Nat
      <4>1. IsFiniteSet(Block)  BY FS_Interval DEF Block, ChainAssumption
      <4>2. IsFiniteSet(haveData)  BY <4>1, <1>0, FS_Subset DEF TypeOK
      <4>. QED  BY <4>2, FS_CardinalityType
    <3>2. /\ haveData' = haveData \cup {b}
          /\ nSequenceId' = [nSequenceId EXCEPT ![b] = Cardinality(haveData)]
          /\ setBlockIndexCandidates' \subseteq setBlockIndexCandidates \cup {b}
      BY <2>1 DEF AcceptBlock, ReceivedBlockTransactions
    <3>3. /\ failedValid' = failedValid /\ failedChild' = failedChild
          /\ interventions' = interventions
      BY <2>1 DEF AcceptBlock, failVars
    <3>. QED  BY <2>0, <3>1, <3>2, <3>3, <1>2, <1>5
  <2>2. CASE AcceptBlockRefused(b, prev, work, ptr)
    BY <2>0, <2>2, <1>5 DEF AcceptBlockRefused, failVars, dataVars
  <2>3. CASE AcceptBlockInvalid(b, prev, work, ptr)
    BY <2>0, <2>3, <1>5 DEF AcceptBlockInvalid, dataVars
  <2>. QED  BY <1>1, <2>1, <2>2, <2>3
<1>11. /\ haveData \subseteq mapBlockIndex /\ tip \in haveData /\ pindexOldTip \in haveData
       /\ mapUsedStakePointers \in [Pointer -> Block \cup {NoBlock}]
       /\ pindexMostWork \in haveData \cup {NoBlock}
  BY <1>0 DEF TypeOK
<1>12. haveData \subseteq haveData' /\ haveData' \subseteq mapBlockIndex'
  BY <1>5, <1>10, <1>11
<1>13. TypeOK'
  <2>1. mapUsedStakePointers' \in [Pointer -> Block \cup {NoBlock}]  BY <1>8, <1>11
  <2>2. /\ tip' \in haveData' /\ pindexOldTip' \in haveData'
        /\ pindexMostWork' \in haveData' \cup {NoBlock}
    BY <1>8, <1>11, <1>12
  <2>. QED  BY <1>5, <1>10, <1>12, <2>1, <2>2 DEF TypeOK
<1>14. \A x \in haveData' : \A h \in 0..nHeight'[x] : ancestor'[x][h] \in haveData'
  <2>1. ASSUME NEW x \in haveData, NEW h \in 0..nHeight'[x]
        PROVE  ancestor'[x][h] \in haveData'
    <3>1. nHeight'[x] = nHeight[x] /\ ancestor'[x] = ancestor[x]  BY <1>5, <1>11
    <3>2. ancestor[x][h] \in haveData  BY <3>1, <1>0 DEF IndexIsTree
    <3>. QED  BY <3>1, <3>2, <1>12
  <2>2. b \in haveData' => \A h \in 0..nHeight'[b] : ancestor'[b][h] \in haveData'
    BY <1>7, <1>12
  <2>. QED  BY <2>1, <2>2, <1>10
<1>15. IndexIsTree'  BY <1>6, <1>14 DEF IndexIsTree
<1>. QED  BY <1>9, <1>13, <1>15 DEF TInv

\* The rest of TypeOK, for steps that leave the index alone.
LEMMA TypeOKFromRest ==
  ASSUME TypeOK, IndexIsTree, UNCHANGED <<treeVars, dataVars>>,
         failedValid' \subseteq mapBlockIndex, failedChild' \subseteq mapBlockIndex,
         setBlockIndexCandidates' \subseteq haveData, tip' \in haveData,
         mapUsedStakePointers' \in [Pointer -> Block \cup {NoBlock}],
         pindexMostWork' \in haveData \cup {NoBlock}, pindexOldTip' \in haveData,
         interventions' \in 0..MaxInterventions
  PROVE  TypeOK' /\ IndexIsTree'
<1>1. mapBlockIndex' = mapBlockIndex /\ haveData' = haveData  BY TreeFrame
<1>2. /\ IndexIsTree'
      /\ (/\ mapBlockIndex \subseteq Block /\ haveData \subseteq mapBlockIndex
          /\ nHeight \in [Block -> Nat]
          /\ nChainWork \in [Block -> Nat]
          /\ nSequenceId \in [Block -> Nat]
          /\ ancestor = [b \in Block |-> ancestor[b]]
          /\ \A b \in mapBlockIndex : ancestor[b] \in [0..nHeight[b] -> mapBlockIndex]
          /\ stakeSource \in [Block -> Pointer \cup {NoPointer}])'
  BY TreeFrame
<1>3. (/\ failedValid \subseteq mapBlockIndex /\ failedChild \subseteq mapBlockIndex
       /\ setBlockIndexCandidates \subseteq haveData
       /\ tip \in haveData
       /\ mapUsedStakePointers \in [Pointer -> Block \cup {NoBlock}]
       /\ pindexMostWork \in haveData \cup {NoBlock}
       /\ pindexOldTip \in haveData
       /\ interventions \in 0..MaxInterventions)'
  BY <1>1
<1>. QED  BY <1>2, <1>3 DEF TypeOK

\* Every block that is not the genesis block has a parent.
LEMMA HasParent ==
  ASSUME TypeOK, IndexIsTree, NEW b \in mapBlockIndex, b # 0
  PROVE  nHeight[b] \in Nat \ {0} /\ nHeight[b] - 1 \in 0..nHeight[b]
<1>1. nHeight[b] \in Nat  BY DEF TypeOK
<1>2. ancestor[b][0] = 0 /\ ancestor[b][nHeight[b]] = b  BY DEF IndexIsTree
<1>. QED  BY <1>1, <1>2

LEMMA ActivationKeeps ==
  ASSUME TInv, ChainAssumption, ActivateBestChain
  PROVE  TInv' /\ (UsedMapExact => UsedMapExact')
<1>0. TypeOK /\ IndexIsTree  BY DEF TInv
<1>1. /\ failedValid \subseteq mapBlockIndex /\ failedChild \subseteq mapBlockIndex
      /\ setBlockIndexCandidates \subseteq haveData /\ haveData \subseteq mapBlockIndex
      /\ tip \in haveData /\ pindexOldTip \in haveData
      /\ pindexMostWork \in haveData \cup {NoBlock}
      /\ mapUsedStakePointers \in [Pointer -> Block \cup {NoBlock}]
      /\ interventions \in 0..MaxInterventions /\ MaxInterventions \in Nat
  BY <1>0 DEF TypeOK, ChainAssumption
<1>2. CASE FindMostWorkChain
  <2> DEFINE tried == {c \in setBlockIndexCandidates :
                         ~Usable(c) /\ \A d \in BestCandidates : Worse(d, c)}
             gone == UNION {Discarded(c) : c \in tried}
  <2>1. \A c \in setBlockIndexCandidates : Discarded(c) \subseteq mapBlockIndex
    <3> SUFFICES ASSUME NEW c \in setBlockIndexCandidates, NEW x \in Discarded(c)
                 PROVE  x \in mapBlockIndex
      OBVIOUS
    <3>1. c \in mapBlockIndex /\ x \in ChainOf(c)  BY <1>1 DEF Discarded, Path
    <3>2. PICK h \in 0..nHeight[c] : x = ancestor[c][h]  BY <3>1 DEF ChainOf
    <3>. QED  BY <3>1, <3>2, <1>0, ChainOfAncestor
  <2>2. gone \subseteq mapBlockIndex  BY <2>1
  <2>3. /\ failedChild' = failedChild \cup (gone \ Failed)
        /\ setBlockIndexCandidates' = setBlockIndexCandidates \ gone
        /\ UNCHANGED <<treeVars, dataVars>> /\ failedValid' = failedValid
        /\ tip' = tip /\ mapUsedStakePointers' = mapUsedStakePointers
        /\ interventions' = interventions
    BY <1>2 DEF FindMostWorkChain
  <2>4. pindexMostWork' \in haveData \cup {NoBlock} /\ pindexOldTip' \in haveData
    <3>1. BestCandidates \subseteq haveData  BY <1>1 DEF BestCandidates
    <3>. QED  BY <1>1, <1>2, <3>1 DEF FindMostWorkChain, stepVars
  <2> HIDE DEF gone
  <2>5. TypeOK' /\ IndexIsTree'
    BY <1>0, <1>1, <2>2, <2>3, <2>4, TypeOKFromRest
  <2>6. (UsedMapExact => UsedMapExact') /\ ActiveStakeSourcesMature'
    BY <2>3, ChainFrame DEF treeVars
  <2>. QED  BY <2>5, <2>6 DEF TInv
<1>3. CASE DisconnectTip
  <2>1. /\ pindexMostWork # NoBlock /\ pindexMostWork \in mapBlockIndex
        /\ GetAncestor(pindexMostWork, nHeight[tip]) # tip
        /\ DisconnectTo(Prev(tip))
        /\ UNCHANGED <<treeVars, dataVars>>
        /\ failedValid' = failedValid /\ failedChild' = failedChild
        /\ setBlockIndexCandidates' = setBlockIndexCandidates
        /\ pindexOldTip' = pindexOldTip /\ interventions' = interventions
        /\ pindexMostWork' \in {pindexMostWork, NoBlock}
    BY <1>1, <1>3 DEF DisconnectTip, failVars
  <2>2. tip # 0
    <3>1. ASSUME tip = 0 PROVE FALSE
      <4>1. nHeight[tip] = 0
        <5>1. tip \in mapBlockIndex /\ nHeight[tip] \in Nat  BY <1>0, <1>1 DEF TypeOK
        <5>2. 0 \in 0..nHeight[tip]  BY <5>1
        <5>3. ancestor[tip][0] = 0 /\ nHeight[ancestor[tip][0]] = 0
          BY <5>1, <5>2, <1>0 DEF IndexIsTree
        <5>. QED  BY <5>3, <3>1
      <4>2. ancestor[pindexMostWork][0] = 0 /\ nHeight[pindexMostWork] \in Nat
        BY <2>1, <1>0 DEF IndexIsTree, TypeOK
      <4>. QED  BY <4>1, <4>2, <3>1, <2>1 DEF GetAncestor
    <3>. QED  BY <3>1
  <2>3. nHeight[tip] - 1 \in 0..nHeight[tip]  BY <1>0, <1>1, <2>2, HasParent
  <2>4. Prev(tip) \in ActiveChain  BY <2>3 DEF Prev, ActiveChain, ChainOf
  <2>5. Prev(tip) \in haveData  BY <2>4, <1>0, ActiveAt
  <2>6. /\ (UsedMapExact => UsedMapExact') /\ ActiveStakeSourcesMature'
        /\ mapUsedStakePointers' \in [Pointer -> Block \cup {NoBlock}]
    BY <2>1, <2>4, DisconnectKeeps
  <2>7. tip' \in haveData  BY <2>1, <2>5 DEF DisconnectTo
  <2>8. TypeOK' /\ IndexIsTree'
    BY <1>0, <1>1, <2>1, <2>6, <2>7, TypeOKFromRest
  <2>. QED  BY <2>6, <2>8 DEF TInv
<1>4. ASSUME NEW b \in Block, ConnectTip(b) \/ ConnectTipBadStake(b) \/ ConnectTipRejected(b)
      PROVE  TInv' /\ (UsedMapExact => UsedMapExact')
  <2>1. /\ pindexMostWork # NoBlock /\ pindexMostWork \in haveData
        /\ pindexMostWork \in mapBlockIndex
        /\ GetAncestor(pindexMostWork, nHeight[tip]) = tip
        /\ b = GetAncestor(pindexMostWork, nHeight[tip] + 1)
    BY <1>1, <1>4 DEF ConnectTip, ConnectTipBadStake, ConnectTipRejected, Connecting
  <2>2. nHeight[tip] \in Nat /\ nHeight[pindexMostWork] \in Nat
    BY <1>1, <2>1, <1>0 DEF TypeOK
  <2>3. /\ nHeight[tip] + 1 \in 0..nHeight[pindexMostWork]
        /\ b = ancestor[pindexMostWork][nHeight[tip] + 1]
    BY <2>1, <2>2 DEF GetAncestor, Block, NoBlock
  <2>4. /\ b \in haveData /\ b \in mapBlockIndex /\ nHeight[b] = nHeight[tip] + 1
        /\ ancestor[b][nHeight[tip]] = ancestor[pindexMostWork][nHeight[tip]]
    BY <2>1, <2>2, <2>3, <1>0, <1>1 DEF IndexIsTree
  <2>5. Prev(b) = tip
    BY <2>1, <2>2, <2>3, <2>4 DEF Prev, GetAncestor
  <2>6. CASE ConnectTip(b)
    <3>1. /\ CheckStake(b) /\ tip' = b /\ EmplacePointer(b)
          /\ UNCHANGED <<treeVars, dataVars>>
          /\ setBlockIndexCandidates' \subseteq setBlockIndexCandidates
          /\ failedValid' = failedValid /\ failedChild' = failedChild
          /\ pindexOldTip' = pindexOldTip /\ interventions' = interventions
          /\ pindexMostWork' \in {pindexMostWork, NoBlock}
      BY <2>6 DEF ConnectTip, failVars, PruneBlockIndexCandidates
    <3>2. /\ (UsedMapExact => UsedMapExact') /\ ActiveStakeSourcesMature'
          /\ mapUsedStakePointers' \in [Pointer -> Block \cup {NoBlock}]
      BY <3>1, <2>4, <2>5, ConnectKeeps
    <3>3. TypeOK' /\ IndexIsTree'
      BY <1>0, <1>1, <2>4, <3>1, <3>2, TypeOKFromRest
    <3>. QED  BY <3>2, <3>3 DEF TInv
  <2>7. CASE ConnectTipBadStake(b) \/ ConnectTipRejected(b)
    <3>1. /\ failedValid' = failedValid \cup {b} /\ failedChild' = failedChild
          /\ setBlockIndexCandidates' \subseteq setBlockIndexCandidates
          /\ pindexMostWork' = NoBlock /\ pindexOldTip' = pindexOldTip
          /\ UNCHANGED <<treeVars, dataVars>>
          /\ tip' = tip /\ mapUsedStakePointers' = mapUsedStakePointers
      BY <2>7 DEF ConnectTipBadStake, ConnectTipRejected, InvalidBlockFound
    <3>2. interventions' \in 0..MaxInterventions
      BY <2>7, <1>1 DEF ConnectTipBadStake, ConnectTipRejected
    <3>3. TypeOK' /\ IndexIsTree'
      BY <1>0, <1>1, <2>4, <3>1, <3>2, TypeOKFromRest
    <3>4. (UsedMapExact => UsedMapExact') /\ ActiveStakeSourcesMature'
      BY <3>1, ChainFrame DEF treeVars
    <3>. QED  BY <3>3, <3>4 DEF TInv
  <2>. QED  BY <1>4, <2>6, <2>7
<1>. QED  BY <1>2, <1>3, <1>4 DEF ActivateBestChain

LEMMA InterventionKeeps ==
  ASSUME TInv, ChainAssumption,
         \/ \E b \in Block : InvalidateBlock(b) \/ ReconsiderBlock(b)
         \/ \E n \in ReprocessDepth : DisconnectBlocksAndReprocess(n)
  PROVE  TInv' /\ (UsedMapExact => UsedMapExact')
<1>0. TypeOK /\ IndexIsTree  BY DEF TInv
<1>1. /\ failedValid \subseteq mapBlockIndex /\ failedChild \subseteq mapBlockIndex
      /\ setBlockIndexCandidates \subseteq haveData /\ haveData \subseteq mapBlockIndex
      /\ tip \in haveData /\ pindexOldTip \in haveData
      /\ pindexMostWork \in haveData \cup {NoBlock}
      /\ mapUsedStakePointers \in [Pointer -> Block \cup {NoBlock}]
      /\ interventions \in 0..MaxInterventions /\ MaxInterventions \in Nat
      /\ nHeight[tip] \in Nat
  BY <1>0 DEF TypeOK, ChainAssumption
<1>2. tip \in ActiveChain
  BY <1>0, <1>1, nHeight[tip] \in 0..nHeight[tip] DEF IndexIsTree, ActiveChain, ChainOf
<1>3. \A x \in ActiveChain : x \in mapBlockIndex /\ x \in haveData  BY <1>0, ActiveAt
<1>4. ASSUME NEW b \in Block, InvalidateBlock(b) PROVE TInv' /\ (UsedMapExact => UsedMapExact')
  <2> DEFINE t == IF Contains(b) THEN Prev(b) ELSE tip
             walked == ActiveChain \ ChainOf(t)
  <2>1. /\ Intervene("invalidate") /\ b \in mapBlockIndex /\ b # 0
        /\ failedValid' = failedValid \cup {b}
        /\ failedChild' = failedChild \cup walked
        /\ DisconnectTo(t)
        /\ setBlockIndexCandidates' =
             (setBlockIndexCandidates \ ({b} \cup walked))
               \cup {x \in haveData \ (Failed \cup {b} \cup walked) : ~Worse(x, t)}
        /\ UNCHANGED <<treeVars, dataVars, stepVars>>
    BY <1>4 DEF InvalidateBlock
  <2>2. t \in ActiveChain
    <3>1. CASE Contains(b)
      <4>1. b \in ActiveChain  BY <2>1, <3>1, <1>0, ContainsIsMembership
      <4>2. nHeight[b] - 1 \in 0..nHeight[b] /\ nHeight[b] \in 0..nHeight[tip]
        BY <2>1, <4>1, <1>0, HasParent, ActiveAt
      <4>3. Prev(b) \in ChainOf(b)  BY <4>2 DEF Prev, ChainOf
      <4>. QED  BY <3>1, <4>1, <4>3, <1>0, ActiveAt
    <3>2. CASE ~Contains(b)  BY <3>2, <1>2
    <3>. QED  BY <3>1, <3>2
  <2> HIDE DEF t
  <2>3. /\ (UsedMapExact => UsedMapExact') /\ ActiveStakeSourcesMature'
        /\ mapUsedStakePointers' \in [Pointer -> Block \cup {NoBlock}]
    BY <2>1, <2>2, DisconnectKeeps
  <2>4. tip' \in haveData  BY <2>1, <2>2, <1>3 DEF DisconnectTo
  <2>5. /\ interventions' \in 0..MaxInterventions
        /\ pindexMostWork' = pindexMostWork /\ pindexOldTip' = pindexOldTip
    BY <1>1, <2>1 DEF Intervene, stepVars
  <2>6. walked \subseteq mapBlockIndex  BY <1>3
  <2> HIDE DEF walked
  <2>7. /\ failedValid' \subseteq mapBlockIndex /\ failedChild' \subseteq mapBlockIndex
        /\ setBlockIndexCandidates' \subseteq haveData
    BY <2>1, <2>6, <1>1
  <2>8. TypeOK' /\ IndexIsTree'
    BY <1>0, <1>1, <2>1, <2>3, <2>4, <2>5, <2>7, TypeOKFromRest
  <2>. QED  BY <2>3, <2>8 DEF TInv
<1>5. ASSUME NEW b \in Block, ReconsiderBlock(b) PROVE TInv' /\ (UsedMapExact => UsedMapExact')
  <2>1. /\ Intervene("reconsider")
        /\ failedValid' \subseteq failedValid /\ failedChild' \subseteq failedChild
        /\ setBlockIndexCandidates' \subseteq setBlockIndexCandidates \cup haveData
        /\ UNCHANGED <<treeVars, dataVars, stepVars>>
        /\ tip' = tip /\ mapUsedStakePointers' = mapUsedStakePointers
    BY <1>5 DEF ReconsiderBlock
  <2>2. /\ interventions' \in 0..MaxInterventions
        /\ pindexMostWork' = pindexMostWork /\ pindexOldTip' = pindexOldTip
    BY <1>1, <2>1 DEF Intervene, stepVars
  <2>3. TypeOK' /\ IndexIsTree'
    BY <1>0, <1>1, <2>1, <2>2, TypeOKFromRest
  <2>4. (UsedMapExact => UsedMapExact') /\ ActiveStakeSourcesMature'
    BY <2>1, ChainFrame DEF treeVars
  <2>. QED  BY <2>3, <2>4 DEF TInv
<1>6. ASSUME NEW n \in ReprocessDepth, DisconnectBlocksAndReprocess(n) PROVE TInv' /\ (UsedMapExact => UsedMapExact')
  <2> DEFINE t == ancestor[tip][nHeight[tip] - (n + 1)]
  <2>1. /\ Intervene("reprocess") /\ n + 1 <= nHeight[tip]
        /\ DisconnectTo(t)
        /\ UNCHANGED <<treeVars, dataVars, failVars, setBlockIndexCandidates, stepVars>>
    BY <1>6 DEF DisconnectBlocksAndReprocess
  <2>2. n \in Nat  BY DEF ChainAssumption
  <2>3. nHeight[tip] - (n + 1) \in 0..nHeight[tip]  BY <1>1, <2>1, <2>2
  <2>4. t \in ActiveChain  BY <2>3 DEF ActiveChain, ChainOf
  <2> HIDE DEF t
  <2>5. /\ (UsedMapExact => UsedMapExact') /\ ActiveStakeSourcesMature'
        /\ mapUsedStakePointers' \in [Pointer -> Block \cup {NoBlock}]
    BY <2>1, <2>4, DisconnectKeeps
  <2>6. tip' \in haveData  BY <2>1, <2>4, <1>3 DEF DisconnectTo
  <2>7. /\ interventions' \in 0..MaxInterventions
        /\ pindexMostWork' = pindexMostWork /\ pindexOldTip' = pindexOldTip
        /\ failedValid' = failedValid /\ failedChild' = failedChild
        /\ setBlockIndexCandidates' = setBlockIndexCandidates
    BY <1>1, <2>1 DEF Intervene, stepVars, failVars
  <2>8. TypeOK' /\ IndexIsTree'
    BY <1>0, <1>1, <2>1, <2>5, <2>6, <2>7, TypeOKFromRest
  <2>. QED  BY <2>5, <2>8 DEF TInv
<1>. QED  BY <1>4, <1>5, <1>6

LEMMA InitIInv ==
  ASSUME Init, ChainAssumption
  PROVE  IInv
<1>1. /\ InitHeight \in Nat /\ MaxBlock \in Nat /\ 0..InitHeight \subseteq Block
      /\ PoSStartHeight \in Nat /\ InitHeight < PoSStartHeight
  BY DEF ChainAssumption, Block
<1> DEFINE H(b) == IF b <= InitHeight THEN b ELSE 0
<1>2. /\ mapBlockIndex = 0..InitHeight /\ haveData = 0..InitHeight
      /\ nHeight = [b \in Block |-> H(b)]
      /\ ancestor = [b \in Block |-> [h \in 0..H(b) |-> h]]
      /\ stakeSource = [b \in Block |-> NoPointer]
      /\ mapUsedStakePointers = [p \in Pointer |-> NoBlock]
      /\ tip = InitHeight
  BY DEF Init
<1>3. \A b \in mapBlockIndex :
        /\ b \in Block /\ b \in Nat /\ nHeight[b] = b
        /\ ancestor[b] = [h \in 0..b |-> h]
  BY <1>1, <1>2
<1>4. TypeOK
  <2>1. nChainWork \in [Block -> Nat]
    <3>1. PICK w \in Work : nChainWork = [b \in Block |-> IF b <= InitHeight THEN w * b ELSE 0]
      BY DEF Init
    <3>2. \A b \in Block : w * b \in Nat  BY DEF ChainAssumption, Block
    <3>. QED  BY <3>1, <3>2
  <2>2. /\ nHeight \in [Block -> Nat] /\ nSequenceId \in [Block -> Nat]
    BY <1>1, <1>2 DEF Init, Block
  <2>3. ancestor = [b \in Block |-> ancestor[b]]  BY <1>2
  <2>4. \A b \in mapBlockIndex : ancestor[b] \in [0..nHeight[b] -> mapBlockIndex]
    <3> SUFFICES ASSUME NEW b \in mapBlockIndex
                 PROVE  ancestor[b] \in [0..nHeight[b] -> mapBlockIndex]
      OBVIOUS
    <3>1. 0..b \subseteq mapBlockIndex  BY <1>1, <1>2
    <3>. QED  BY <3>1, <1>3
  <2>5. /\ mapBlockIndex \subseteq Block /\ haveData \subseteq mapBlockIndex
        /\ stakeSource \in [Block -> Pointer \cup {NoPointer}]
        /\ failedValid \subseteq mapBlockIndex /\ failedChild \subseteq mapBlockIndex
        /\ mapUsedStakePointers \in [Pointer -> Block \cup {NoBlock}]
    BY <1>1, <1>2 DEF Init
  <2>6. /\ setBlockIndexCandidates \subseteq haveData /\ tip \in haveData
        /\ pindexMostWork \in haveData \cup {NoBlock} /\ pindexOldTip \in haveData
        /\ interventions \in 0..MaxInterventions
    BY <1>1, <1>2 DEF Init, ChainAssumption
  <2>. QED  BY <2>1, <2>2, <2>3, <2>4, <2>5, <2>6 DEF TypeOK
<1>5. IndexIsTree
  <2>1. ASSUME NEW b \in mapBlockIndex, NEW h \in 0..b
        PROVE  /\ ancestor[b][h] = h /\ h \in mapBlockIndex
    BY <1>1, <1>2, <1>3
  <2>2. \A b \in mapBlockIndex :
          /\ ancestor[b][0] = 0
          /\ ancestor[b][nHeight[b]] = b
          /\ \A h \in 0..nHeight[b] :
               /\ nHeight[ancestor[b][h]] = h
               /\ \A i \in 0..h : ancestor[ancestor[b][h]][i] = ancestor[b][i]
    <3> SUFFICES ASSUME NEW b \in mapBlockIndex
                 PROVE  /\ ancestor[b][0] = 0
                        /\ ancestor[b][nHeight[b]] = b
                        /\ \A h \in 0..nHeight[b] :
                             /\ nHeight[ancestor[b][h]] = h
                             /\ \A i \in 0..h : ancestor[ancestor[b][h]][i] = ancestor[b][i]
      OBVIOUS
    <3>1. b \in Nat /\ nHeight[b] = b  BY <1>3
    <3>2. ancestor[b][0] = 0 /\ ancestor[b][b] = b  BY <3>1, <2>1
    <3>3. ASSUME NEW h \in 0..b
          PROVE  /\ nHeight[ancestor[b][h]] = h
                 /\ \A i \in 0..h : ancestor[ancestor[b][h]][i] = ancestor[b][i]
      <4>1. ancestor[b][h] = h /\ h \in mapBlockIndex /\ nHeight[h] = h  BY <2>1, <1>3
      <4>2. \A i \in 0..h : ancestor[h][i] = i /\ ancestor[b][i] = i
        BY <2>1, <4>1, <3>1
      <4>. QED  BY <4>1, <4>2
    <3>. QED  BY <3>1, <3>2, <3>3
  <2>3. \A b \in haveData : \A h \in 0..nHeight[b] : ancestor[b][h] \in haveData
    BY <2>1, <1>2, <1>3
  <2>. QED  BY <2>2, <2>3 DEF IndexIsTree
<1>6. \A x \in ActiveChain : x \in mapBlockIndex  BY <1>4, <1>5, ActiveAt
<1>7. UsedMapExact
  BY <1>2, <1>3, <1>6 DEF UsedMapExact, IsProofOfStake
<1>8. ActiveStakeSourcesMature
  <2>1. \A x \in ActiveChain : nHeight[x] < PoSStartHeight
    BY <1>1, <1>2, <1>3, <1>6
  <2>2. \A x \in ActiveChain : nHeight[x] \in Nat  BY <1>3, <1>6
  <2>. QED  BY <1>1, <2>1, <2>2 DEF ActiveStakeSourcesMature
<1>. QED  BY <1>4, <1>5, <1>7, <1>8 DEF IInv, TInv

LEMMA NextTInv ==
  ASSUME TInv, ChainAssumption, [Next]_vars
  PROVE  TInv' /\ (UsedMapExact => UsedMapExact')
<1>1. CASE ReceiveBlock  BY <1>1, ReceiveKeeps
<1>2. CASE ActivateBestChain  BY <1>2, ActivationKeeps
<1>3. CASE \/ \E b \in Block : InvalidateBlock(b) \/ ReconsiderBlock(b)
           \/ \E n \in ReprocessDepth : DisconnectBlocksAndReprocess(n)
  BY <1>3, InterventionKeeps
<1>4. CASE UNCHANGED vars
  <2>1. /\ UNCHANGED <<treeVars, dataVars>>
        /\ failedValid' = failedValid /\ failedChild' = failedChild
        /\ setBlockIndexCandidates' = setBlockIndexCandidates
        /\ tip' = tip /\ mapUsedStakePointers' = mapUsedStakePointers
        /\ pindexMostWork' = pindexMostWork /\ pindexOldTip' = pindexOldTip
        /\ interventions' = interventions
    BY <1>4 DEF vars, failVars, stepVars
  <2>2. TypeOK /\ IndexIsTree  BY DEF TInv
  <2>3. /\ failedValid \subseteq mapBlockIndex /\ failedChild \subseteq mapBlockIndex
        /\ setBlockIndexCandidates \subseteq haveData /\ tip \in haveData
        /\ mapUsedStakePointers \in [Pointer -> Block \cup {NoBlock}]
        /\ pindexMostWork \in haveData \cup {NoBlock} /\ pindexOldTip \in haveData
        /\ interventions \in 0..MaxInterventions
    BY <2>2 DEF TypeOK
  <2>4. TypeOK' /\ IndexIsTree'  BY <2>1, <2>2, <2>3, TypeOKFromRest
  <2>5. (UsedMapExact => UsedMapExact') /\ ActiveStakeSourcesMature'
    BY <2>1, ChainFrame DEF treeVars
  <2>. QED  BY <2>4, <2>5 DEF TInv
<1>. QED  BY <1>1, <1>2, <1>3, <1>4 DEF Next

LEMMA NextIInv ==
  ASSUME IInv, ChainAssumption, [Next]_vars
  PROVE  IInv'
BY NextTInv DEF IInv

(***************************************************************************)
(* The theorems.                                                           *)
(***************************************************************************)

\* Type correctness, and the index is a tree: main.cpp's block index keeps the
\* shape CheckBlockIndex asserts, whatever is received, activated, invalidated
\* or replayed.
THEOREM TypeCorrect == Spec => [](TypeOK /\ IndexIsTree)
<1>1. Init => IInv  BY InitIInv, ChainAssumption
<1>2. IInv /\ [Next]_vars => IInv'  BY NextIInv, ChainAssumption
<1>3. IInv => TypeOK /\ IndexIsTree  BY DEF IInv, TInv
<1>. QED  BY <1>1, <1>2, <1>3, PTL DEF Spec

\* mapUsedStakePointers (ConnectBlock's emplace, DisconnectBlock's erase) is
\* exactly the record of the pointers the active chain has consumed.
THEOREM UsedMapIsExact == Spec => []UsedMapExact
<1>1. Init => IInv  BY InitIInv, ChainAssumption
<1>2. IInv /\ [Next]_vars => IInv'  BY NextIInv, ChainAssumption
<1>3. IInv => UsedMapExact  BY DEF IInv
<1>. QED  BY <1>1, <1>2, <1>3, PTL DEF Spec

\* Within one run of the node a stake pointer pays for at most one block of
\* the active chain.
THEOREM PointerUsedOnce == Spec => []StakePointerUsedOnce
<1>1. UsedMapExact => StakePointerUsedOnce
  BY DEF UsedMapExact, StakePointerUsedOnce, IsProofOfStake
<1>. QED  BY <1>1, UsedMapIsExact, PTL

\* Every proof of stake block of the active chain points to a payment of its
\* own chain within the window CheckBlockProofPointer prescribes.
THEOREM StakeSourcesMature == Spec => []ActiveStakeSourcesMature
<1>1. Init => IInv  BY InitIInv, ChainAssumption
<1>2. IInv /\ [Next]_vars => IInv'  BY NextIInv, ChainAssumption
<1>3. IInv => ActiveStakeSourcesMature  BY DEF IInv, TInv
<1>. QED  BY <1>1, <1>2, <1>3, PTL DEF Spec

(***************************************************************************)
(* The steps as seen from the active chain and from the index.             *)
(***************************************************************************)

\* Every step of the node is one of three as far as the active chain and the
\* record of pointers go.
LEMMA ActiveChainSteps ==
  ASSUME TInv, ChainAssumption, [Next]_vars
  PROVE  \/ /\ tip' = tip /\ mapUsedStakePointers' = mapUsedStakePointers
            /\ \A x \in mapBlockIndex : /\ nHeight'[x] = nHeight[x]
                                        /\ ancestor'[x] = ancestor[x]
                                        /\ stakeSource'[x] = stakeSource[x]
         \/ \E t \in ActiveChain : DisconnectTo(t) /\ UNCHANGED treeVars
         \/ \E b \in mapBlockIndex :
              /\ nHeight[b] = nHeight[tip] + 1 /\ Prev(b) = tip /\ CheckStake(b)
              /\ tip' = b /\ EmplacePointer(b) /\ UNCHANGED treeVars
<1>0. /\ TypeOK /\ IndexIsTree
      /\ tip \in mapBlockIndex /\ nHeight[tip] \in Nat
      /\ pindexMostWork # NoBlock =>
           pindexMostWork \in mapBlockIndex /\ nHeight[pindexMostWork] \in Nat
  BY DEF TInv, TypeOK
<1>1. CASE ReceiveBlock
  <2>1. PICK b \in Arriving, prev \in haveData, work \in Work,
             ptr \in (mapBlockIndex \X Slot) \cup {NoPointer} :
           \/ AcceptBlock(b, prev, work, ptr)
           \/ AcceptBlockRefused(b, prev, work, ptr)
           \/ AcceptBlockInvalid(b, prev, work, ptr)
    BY <1>1 DEF ReceiveBlock
  <2>2. b \in Block \ haveData  BY DEF Arriving
  <2>3. ptr \in Pointer \cup {NoPointer}  BY <1>0 DEF TypeOK, Pointer
  <2>4. /\ AcceptableBlock(b, prev, work, ptr)
        /\ tip' = tip /\ mapUsedStakePointers' = mapUsedStakePointers
    BY <2>1 DEF AcceptBlock, AcceptBlockRefused, AcceptBlockInvalid, AcceptableBlock
  <2>. QED  BY <1>0, <2>2, <2>3, <2>4, AcceptableKeepsTree
<1>2. CASE \/ FindMostWorkChain
           \/ \E b \in Block : ConnectTipBadStake(b) \/ ConnectTipRejected(b)
           \/ \E b \in Block : ReconsiderBlock(b)
           \/ UNCHANGED vars
  BY <1>2 DEF FindMostWorkChain, ConnectTipBadStake, ConnectTipRejected,
              InvalidBlockFound, ReconsiderBlock, vars, treeVars
<1>3. CASE DisconnectTip
  <2>1. /\ pindexMostWork # NoBlock
        /\ GetAncestor(pindexMostWork, nHeight[tip]) # tip
        /\ DisconnectTo(Prev(tip)) /\ UNCHANGED treeVars
    BY <1>3 DEF DisconnectTip
  <2>2. tip # 0
    <3> SUFFICES ASSUME tip = 0 PROVE FALSE  OBVIOUS
    <3>1. nHeight[tip] = 0
      <4>1. 0 \in 0..nHeight[tip]  BY <1>0
      <4>2. ancestor[tip][0] = 0 /\ nHeight[ancestor[tip][0]] = 0
        BY <4>1, <1>0 DEF IndexIsTree
      <4>. QED  BY <4>2
    <3>2. ancestor[pindexMostWork][0] = 0  BY <2>1, <1>0 DEF IndexIsTree
    <3>. QED  BY <3>1, <3>2, <2>1, <1>0 DEF GetAncestor
  <2>3. nHeight[tip] - 1 \in 0..nHeight[tip]  BY <1>0, <2>2, HasParent
  <2>4. Prev(tip) \in ActiveChain  BY <2>3 DEF Prev, ActiveChain, ChainOf
  <2>. QED  BY <2>1, <2>4
<1>4. ASSUME NEW b \in Block, ConnectTip(b)
      PROVE  \E x \in mapBlockIndex :
               /\ nHeight[x] = nHeight[tip] + 1 /\ Prev(x) = tip /\ CheckStake(x)
               /\ tip' = x /\ EmplacePointer(x) /\ UNCHANGED treeVars
  <2>1. /\ pindexMostWork # NoBlock
        /\ GetAncestor(pindexMostWork, nHeight[tip]) = tip
        /\ b = GetAncestor(pindexMostWork, nHeight[tip] + 1)
        /\ CheckStake(b) /\ tip' = b /\ EmplacePointer(b) /\ UNCHANGED treeVars
    BY <1>4 DEF ConnectTip, Connecting
  <2>2. /\ nHeight[tip] + 1 \in 0..nHeight[pindexMostWork]
        /\ b = ancestor[pindexMostWork][nHeight[tip] + 1]
    BY <2>1, <1>0 DEF GetAncestor, Block, NoBlock
  <2>3. /\ b \in mapBlockIndex /\ nHeight[b] = nHeight[tip] + 1
        /\ ancestor[b][nHeight[tip]] = ancestor[pindexMostWork][nHeight[tip]]
    <3>1. b \in mapBlockIndex  BY <2>1, <2>2, <1>0, ChainOfAncestor
    <3>. QED  BY <3>1, <2>1, <2>2, <1>0 DEF IndexIsTree
  <2>4. Prev(b) = tip  BY <2>1, <2>2, <2>3, <1>0 DEF Prev, GetAncestor
  <2>. QED  BY <2>1, <2>3, <2>4
<1>5. ASSUME NEW b \in Block, InvalidateBlock(b)
      PROVE  \E t \in ActiveChain : DisconnectTo(t) /\ UNCHANGED treeVars
  <2> DEFINE t == IF Contains(b) THEN Prev(b) ELSE tip
  <2>1. b \in mapBlockIndex /\ b # 0 /\ DisconnectTo(t) /\ UNCHANGED treeVars
    BY <1>5 DEF InvalidateBlock
  <2>2. t \in ActiveChain
    <3>1. CASE Contains(b)
      <4>1. b \in ActiveChain  BY <2>1, <3>1, <1>0, ContainsIsMembership
      <4>2. nHeight[b] - 1 \in 0..nHeight[b]  BY <2>1, <1>0, HasParent
      <4>3. Prev(b) \in ChainOf(b)  BY <4>2 DEF Prev, ChainOf
      <4>. QED  BY <3>1, <4>1, <4>3, <1>0, ActiveAt
    <3>2. CASE ~Contains(b)
      BY <3>2, <1>0, nHeight[tip] \in 0..nHeight[tip] DEF IndexIsTree, ActiveChain, ChainOf
    <3>. QED  BY <3>1, <3>2
  <2>. QED  BY <2>1, <2>2
<1>6. ASSUME NEW n \in ReprocessDepth, DisconnectBlocksAndReprocess(n)
      PROVE  \E t \in ActiveChain : DisconnectTo(t) /\ UNCHANGED treeVars
  <2> DEFINE t == ancestor[tip][nHeight[tip] - (n + 1)]
  <2>1. n + 1 <= nHeight[tip] /\ DisconnectTo(t) /\ UNCHANGED treeVars
    BY <1>6 DEF DisconnectBlocksAndReprocess
  <2>2. n \in Nat  BY DEF ChainAssumption
  <2>3. nHeight[tip] - (n + 1) \in 0..nHeight[tip]  BY <1>0, <2>1, <2>2
  <2>4. t \in ActiveChain  BY <2>3 DEF ActiveChain, ChainOf
  <2>. QED  BY <2>1, <2>4
<1>. QED  BY <1>1, <1>2, <1>3, <1>4, <1>5, <1>6 DEF Next, ActivateBestChain

\* The index only grows, and so do the blocks with data.
LEMMA IndexGrows ==
  ASSUME TInv, ChainAssumption, [Next]_vars
  PROVE  /\ mapBlockIndex \subseteq mapBlockIndex' /\ haveData \subseteq haveData'
         /\ \A x \in mapBlockIndex : /\ nHeight'[x] = nHeight[x]
                                     /\ ancestor'[x] = ancestor[x]
                                     /\ stakeSource'[x] = stakeSource[x]
<1>0. TypeOK /\ IndexIsTree  BY DEF TInv
<1>1. CASE ReceiveBlock
  <2>1. PICK b \in Arriving, prev \in haveData, work \in Work,
             ptr \in (mapBlockIndex \X Slot) \cup {NoPointer} :
           \/ AcceptBlock(b, prev, work, ptr)
           \/ AcceptBlockRefused(b, prev, work, ptr)
           \/ AcceptBlockInvalid(b, prev, work, ptr)
    BY <1>1 DEF ReceiveBlock
  <2>2. b \in Block \ haveData  BY DEF Arriving
  <2>3. ptr \in Pointer \cup {NoPointer}  BY <1>0 DEF TypeOK, Pointer
  <2>4. AcceptableBlock(b, prev, work, ptr)
    BY <2>1 DEF AcceptBlock, AcceptBlockRefused, AcceptBlockInvalid, AcceptableBlock
  <2>5. haveData \subseteq haveData'
    BY <2>1 DEF AcceptBlock, AcceptBlockRefused, AcceptBlockInvalid,
                ReceivedBlockTransactions, dataVars
  <2>. QED  BY <1>0, <2>2, <2>3, <2>4, <2>5, AcceptableKeepsTree
<1>2. CASE UNCHANGED <<treeVars, dataVars>>
  BY <1>2 DEF treeVars, dataVars
<1>3. ASSUME Next, ~ReceiveBlock PROVE UNCHANGED <<treeVars, dataVars>>
  BY <1>3 DEF Next, ActivateBestChain, FindMostWorkChain, DisconnectTip, ConnectTip,
     ConnectTipBadStake, ConnectTipRejected, InvalidBlockFound, InvalidateBlock,
     ReconsiderBlock, DisconnectBlocksAndReprocess
<1>. QED  BY <1>1, <1>2, <1>3 DEF vars

(***************************************************************************)
(* No failed block is active.                                              *)
(***************************************************************************)

\* ActiveChainValid is not inductive: a step under way connects the blocks of
\* its target without looking at their marks again, so the target's chain must
\* have none until the step is over.
VInv ==
  /\ ActiveChain \cap Failed = {}
  /\ pindexMostWork # NoBlock => ChainOf(pindexMostWork) \cap Failed = {}

\* A mark that FindMostWorkChain sets for a candidate it cannot use is on
\* neither the active chain nor the chain of a block it could use: the failed
\* block would be in that chain too.
LEMMA DiscardedElsewhere ==
  ASSUME TypeOK, IndexIsTree, NEW c \in setBlockIndexCandidates, ~Usable(c),
         NEW x \in mapBlockIndex, Usable(x)
  PROVE  Discarded(c) \cap (ActiveChain \cup ChainOf(x)) = {}
<1>1. c \in mapBlockIndex /\ x \in mapBlockIndex  BY DEF TypeOK
<1> SUFFICES ASSUME NEW z \in Discarded(c), z \in ChainOf(x)
             PROVE  FALSE
  BY DEF Discarded, Path
<1>2. PICK y \in Path(c) : y \in Failed  BY DEF Usable
<1>3. /\ z \in ChainOf(c) /\ y \in ChainOf(c) /\ y \notin ActiveChain
      /\ ~(nHeight[y] > nHeight[z])
  BY <1>2 DEF Discarded, Path
<1>4. PICK i \in 0..nHeight[c] : z = ancestor[c][i]  BY <1>3 DEF ChainOf
<1>5. PICK j \in 0..nHeight[c] : y = ancestor[c][j]  BY <1>3 DEF ChainOf
<1>6. nHeight[z] = i /\ ChainOf(z) = {ancestor[c][k] : k \in 0..i}
  BY <1>1, <1>4, ChainOfAncestor
<1>7. nHeight[y] = j  BY <1>1, <1>5, ChainOfAncestor
<1>8. j \in 0..i  BY <1>3, <1>4, <1>5, <1>6, <1>7
<1>9. y \in ChainOf(z)  BY <1>5, <1>6, <1>8
<1>10. PICK k \in 0..nHeight[x] : z = ancestor[x][k]  BY DEF ChainOf
<1>11. ChainOf(z) = {ancestor[x][h] : h \in 0..k} /\ nHeight[x] \in Nat
  BY <1>1, <1>10, ChainOfAncestor DEF TypeOK
<1>12. y \in ChainOf(x)
  <2>1. PICK h \in 0..k : y = ancestor[x][h]  BY <1>9, <1>11
  <2>. QED  BY <2>1, <1>11 DEF ChainOf
<1>. QED  BY <1>2, <1>3, <1>12 DEF Usable, Path

\* The chain of a block of the index does not change while the index grows.
LEMMA ChainsStay ==
  ASSUME NEW x \in mapBlockIndex, nHeight'[x] = nHeight[x], ancestor'[x] = ancestor[x]
  PROVE  ChainOf(x)' = ChainOf(x)
BY DEF ChainOf

LEMMA NextVInv ==
  ASSUME TInv, VInv, ChainAssumption, [Next]_vars
  PROVE  VInv'
<1>0. /\ TypeOK /\ IndexIsTree
      /\ tip \in haveData /\ tip \in mapBlockIndex /\ nHeight[tip] \in Nat
      /\ pindexMostWork # NoBlock =>
           /\ pindexMostWork \in mapBlockIndex /\ pindexMostWork \in haveData
           /\ nHeight[pindexMostWork] \in Nat
  BY DEF TInv, TypeOK
<1>1. \A x \in ActiveChain : x \in mapBlockIndex /\ x \in haveData  BY <1>0, ActiveAt
<1>2. ASSUME ReceiveBlock PROVE VInv'
  <2>1. PICK b \in Arriving, prev \in haveData, work \in Work,
             ptr \in (mapBlockIndex \X Slot) \cup {NoPointer} :
           \/ AcceptBlock(b, prev, work, ptr)
           \/ AcceptBlockRefused(b, prev, work, ptr)
           \/ AcceptBlockInvalid(b, prev, work, ptr)
    BY <1>2 DEF ReceiveBlock
  <2>2. b \in Block \ haveData  BY DEF Arriving
  <2>3. ptr \in Pointer \cup {NoPointer}  BY <1>0 DEF TypeOK, Pointer
  <2>4. AcceptableBlock(b, prev, work, ptr)
    BY <2>1 DEF AcceptBlock, AcceptBlockRefused, AcceptBlockInvalid, AcceptableBlock
  <2>5. \A x \in mapBlockIndex : nHeight'[x] = nHeight[x] /\ ancestor'[x] = ancestor[x]
    BY <1>0, <2>2, <2>3, <2>4, AcceptableKeepsTree
  <2>6. /\ tip' = tip /\ pindexMostWork' = NoBlock
        /\ Failed' \subseteq Failed \cup {b}
    BY <2>1 DEF AcceptBlock, AcceptBlockRefused, AcceptBlockInvalid, Failed,
                stepVars, failVars
  <2>7. ActiveChain' = ActiveChain
    BY <1>0, <2>5, <2>6, ChainsStay DEF ActiveChain, ChainOf
  <2>8. b \notin ActiveChain  BY <2>2, <1>1
  <2>. QED  BY <2>6, <2>7, <2>8 DEF VInv
<1>3. ASSUME FindMostWorkChain PROVE VInv'
  <2> DEFINE tried == {c \in setBlockIndexCandidates :
                         ~Usable(c) /\ \A d \in BestCandidates : Worse(d, c)}
             gone == UNION {Discarded(c) : c \in tried}
  <2>1. /\ pindexMostWork = NoBlock
        /\ Failed' \subseteq Failed \cup gone
        /\ tip' = tip /\ nHeight' = nHeight /\ ancestor' = ancestor
        /\ \/ pindexMostWork' = NoBlock
           \/ pindexMostWork' \in BestCandidates
    BY <1>3 DEF FindMostWorkChain, Failed, treeVars, stepVars
  <2>2. ActiveChain' = ActiveChain  BY <2>1 DEF ActiveChain, ChainOf
  <2>3. gone \cap ActiveChain = {}  BY DEF Discarded, Path
  <2>4. ASSUME NEW x \in BestCandidates
        PROVE  ChainOf(x) \cap (Failed \cup gone) = {}
    <3>1. x \in setBlockIndexCandidates /\ Usable(x)  BY DEF BestCandidates
    <3>2. ChainOf(x) \cap Failed = {}  BY <3>1 DEF Usable, Path, VInv
    <3>3. \A c \in tried : Discarded(c) \cap ChainOf(x) = {}
      BY <1>0, <3>1, DiscardedElsewhere DEF TypeOK
    <3>. QED  BY <3>2, <3>3
  <2> HIDE DEF gone
  <2>5. \A x : ChainOf(x)' = ChainOf(x)  BY <2>1 DEF ChainOf
  <2>6. ActiveChain' \cap Failed' = {}  BY <2>1, <2>2, <2>3 DEF VInv
  <2>7. ASSUME pindexMostWork' # NoBlock
        PROVE  (ChainOf(pindexMostWork) \cap Failed = {})'
    <3>1. pindexMostWork' \in BestCandidates  BY <2>1, <2>7
    <3>2. ChainOf(pindexMostWork') \cap Failed' = {}  BY <3>1, <2>4, <2>1
    <3>3. ChainOf(pindexMostWork)' = ChainOf(pindexMostWork')  BY <2>1 DEF ChainOf
    <3>. QED  BY <3>2, <3>3
  <2>. QED  BY <2>6, <2>7 DEF VInv
<1>4. ASSUME NEW t \in ActiveChain, DisconnectTo(t), UNCHANGED treeVars,
             Failed' \cap ChainOf(t) = {}
      PROVE  ActiveChain' \cap Failed' = {}
  <2>1. tip' = t /\ nHeight' = nHeight /\ ancestor' = ancestor
    BY <1>4 DEF DisconnectTo, treeVars
  <2>. QED  BY <2>1, <1>4 DEF ActiveChain, ChainOf
<1>5. \A t \in ActiveChain : ChainOf(t) \subseteq ActiveChain  BY <1>0, ActiveAt
<1>6. ASSUME DisconnectTip PROVE VInv'
  <2>1. /\ pindexMostWork # NoBlock
        /\ GetAncestor(pindexMostWork, nHeight[tip]) # tip
        /\ DisconnectTo(Prev(tip)) /\ UNCHANGED treeVars
        /\ Failed' = Failed /\ nHeight' = nHeight /\ ancestor' = ancestor
        /\ pindexMostWork' \in {pindexMostWork, NoBlock}
    BY <1>6 DEF DisconnectTip, failVars, Failed, treeVars
  <2>2. tip # 0
    <3> SUFFICES ASSUME tip = 0 PROVE FALSE  OBVIOUS
    <3>1. nHeight[tip] = 0
      <4>1. 0 \in 0..nHeight[tip]  BY <1>0
      <4>2. ancestor[tip][0] = 0 /\ nHeight[ancestor[tip][0]] = 0
        BY <4>1, <1>0 DEF IndexIsTree
      <4>. QED  BY <4>2
    <3>2. ancestor[pindexMostWork][0] = 0  BY <2>1, <1>0 DEF IndexIsTree
    <3>. QED  BY <3>1, <3>2, <2>1, <1>0 DEF GetAncestor
  <2>3. nHeight[tip] - 1 \in 0..nHeight[tip]  BY <1>0, <2>2, HasParent
  <2>4. Prev(tip) \in ActiveChain  BY <2>3 DEF Prev, ActiveChain, ChainOf
  <2>5. ActiveChain' \cap Failed' = {}
    BY <2>1, <2>4, <1>4, <1>5 DEF VInv
  <2>6. pindexMostWork' # NoBlock => (ChainOf(pindexMostWork) \cap Failed = {})'
    BY <2>1 DEF VInv, ChainOf
  <2>. QED  BY <2>5, <2>6 DEF VInv
<1>7. ASSUME NEW b \in Block, ConnectTip(b) \/ ConnectTipBadStake(b) \/ ConnectTipRejected(b)
      PROVE  VInv'
  <2>1. /\ pindexMostWork # NoBlock
        /\ GetAncestor(pindexMostWork, nHeight[tip]) = tip
        /\ b = GetAncestor(pindexMostWork, nHeight[tip] + 1)
    BY <1>7 DEF ConnectTip, ConnectTipBadStake, ConnectTipRejected, Connecting
  <2>2. /\ nHeight[tip] + 1 \in 0..nHeight[pindexMostWork]
        /\ b = ancestor[pindexMostWork][nHeight[tip] + 1]
    BY <2>1, <1>0 DEF GetAncestor, Block, NoBlock
  <2>3. /\ nHeight[b] = nHeight[tip] + 1
        /\ ChainOf(b) = {ancestor[pindexMostWork][i] : i \in 0..(nHeight[tip] + 1)}
    BY <2>1, <2>2, <1>0, ChainOfAncestor
  <2>4. ChainOf(b) \subseteq ChainOf(pindexMostWork)
    <3>1. 0..(nHeight[tip] + 1) \subseteq 0..nHeight[pindexMostWork]
      BY <2>1, <2>2, <1>0
    <3>2. ChainOf(pindexMostWork) = {ancestor[pindexMostWork][i] : i \in 0..nHeight[pindexMostWork]}
      BY DEF ChainOf
    <3>. QED  BY <3>1, <3>2, <2>3
  <2>5. nHeight' = nHeight /\ ancestor' = ancestor
    BY <1>7 DEF ConnectTip, ConnectTipBadStake, ConnectTipRejected,
                InvalidBlockFound, treeVars
  <2>6. CASE ConnectTip(b)
    <3>1. tip' = b /\ Failed' = Failed /\ pindexMostWork' \in {pindexMostWork, NoBlock}
      BY <2>6 DEF ConnectTip, failVars, Failed
    <3>2. ActiveChain' = ChainOf(b)  BY <3>1, <2>5 DEF ActiveChain, ChainOf
    <3>3. ActiveChain' \cap Failed' = {}  BY <3>1, <3>2, <2>1, <2>4 DEF VInv
    <3>4. pindexMostWork' # NoBlock => (ChainOf(pindexMostWork) \cap Failed = {})'
      BY <3>1, <2>5 DEF VInv, ChainOf
    <3>. QED  BY <3>3, <3>4 DEF VInv
  <2>7. CASE ConnectTipBadStake(b) \/ ConnectTipRejected(b)
    <3>1. tip' = tip /\ Failed' = Failed \cup {b} /\ pindexMostWork' = NoBlock
      BY <2>7 DEF ConnectTipBadStake, ConnectTipRejected, InvalidBlockFound, Failed
    <3>2. ActiveChain' = ActiveChain  BY <3>1, <2>5 DEF ActiveChain, ChainOf
    <3>3. b \notin ActiveChain  BY <2>3, <1>0, ActiveAt
    <3>. QED  BY <3>1, <3>2, <3>3 DEF VInv
  <2>. QED  BY <1>7, <2>6, <2>7
<1>8. ASSUME NEW b \in Block, InvalidateBlock(b) PROVE VInv'
  <2> DEFINE t == IF Contains(b) THEN Prev(b) ELSE tip
             walked == ActiveChain \ ChainOf(t)
  <2>1. /\ pindexMostWork' = NoBlock /\ b \in mapBlockIndex /\ b # 0
        /\ Failed' = Failed \cup {b} \cup walked
        /\ DisconnectTo(t) /\ UNCHANGED treeVars
    BY <1>8 DEF InvalidateBlock, Intervene, stepVars, Failed
  <2>2. t \in ActiveChain /\ b \notin ChainOf(t)
    <3>1. CASE Contains(b)
      <4>1. b \in ActiveChain  BY <2>1, <3>1, <1>0, ContainsIsMembership
      <4>2. nHeight[b] \in Nat /\ nHeight[b] - 1 \in 0..nHeight[b]
        BY <2>1, <1>0, HasParent
      <4>3. Prev(b) \in ActiveChain  BY <4>1, <4>2, <1>5 DEF Prev, ChainOf
      <4>4. nHeight[Prev(b)] = nHeight[b] - 1
        BY <2>1, <4>2, <1>0, ChainOfAncestor DEF Prev
      <4>5. b \notin ChainOf(Prev(b))  BY <4>2, <4>3, <4>4, <1>0, ActiveAt
      <4>. QED  BY <3>1, <4>3, <4>5
    <3>2. CASE ~Contains(b)
      <4>1. b \notin ActiveChain  BY <2>1, <3>2, <1>0, ContainsIsMembership
      <4>2. tip \in ActiveChain
        BY <1>0, nHeight[tip] \in 0..nHeight[tip] DEF IndexIsTree, ActiveChain, ChainOf
      <4>. QED  BY <3>2, <4>1, <4>2 DEF ActiveChain
    <3>. QED  BY <3>1, <3>2
  <2> HIDE DEF t
  <2>3. Failed' \cap ChainOf(t) = {}  BY <2>1, <2>2, <1>5 DEF VInv
  <2>. QED  BY <2>1, <2>2, <2>3, <1>4 DEF VInv
<1>9. ASSUME NEW b \in Block, ReconsiderBlock(b) PROVE VInv'
  <2>1. /\ pindexMostWork' = NoBlock /\ tip' = tip
        /\ nHeight' = nHeight /\ ancestor' = ancestor /\ Failed' \subseteq Failed
    BY <1>9 DEF ReconsiderBlock, Intervene, stepVars, Failed, treeVars
  <2>2. ActiveChain' = ActiveChain  BY <2>1 DEF ActiveChain, ChainOf
  <2>. QED  BY <2>1, <2>2 DEF VInv
<1>10. ASSUME NEW n \in ReprocessDepth, DisconnectBlocksAndReprocess(n) PROVE VInv'
  <2> DEFINE t == ancestor[tip][nHeight[tip] - (n + 1)]
  <2>1. /\ pindexMostWork' = NoBlock /\ n + 1 <= nHeight[tip]
        /\ DisconnectTo(t) /\ UNCHANGED treeVars /\ Failed' = Failed
    BY <1>10 DEF DisconnectBlocksAndReprocess, Intervene, stepVars, failVars, Failed
  <2>2. nHeight[tip] - (n + 1) \in 0..nHeight[tip]
    <3>1. n \in Nat  BY DEF ChainAssumption
    <3>. QED  BY <3>1, <1>0, <2>1
  <2>3. t \in ActiveChain  BY <2>2 DEF ActiveChain, ChainOf
  <2> HIDE DEF t
  <2>4. Failed' \cap ChainOf(t) = {}  BY <2>1, <2>3, <1>5 DEF VInv
  <2>. QED  BY <2>1, <2>3, <2>4, <1>4 DEF VInv
<1>11. ASSUME UNCHANGED vars PROVE VInv'
  BY <1>11 DEF vars, treeVars, failVars, stepVars, VInv, ActiveChain, ChainOf, Failed
<1>. QED  BY <1>2, <1>3, <1>6, <1>7, <1>8, <1>9, <1>10, <1>11 DEF Next, ActivateBestChain

\* The active chain never holds a block marked as failed, nor one above it:
\* FindMostWorkChain, InvalidBlockFound and InvalidateBlock never mark a block
\* that stays in chainActive, and ActivateBestChainStep connects no marked one.
THEOREM ActiveChainIsValid == Spec => []ActiveChainValid
<1>1. Init => TInv /\ VInv
  <2> SUFFICES ASSUME Init PROVE TInv /\ VInv  OBVIOUS
  <2>1. TInv  BY InitIInv, ChainAssumption DEF IInv
  <2>. QED  BY <2>1 DEF VInv, Failed, Init
<1>2. TInv /\ VInv /\ [Next]_vars => TInv' /\ VInv'
  BY NextTInv, NextVInv, ChainAssumption
<1>3. TInv /\ VInv => ActiveChainValid
  BY DEF TInv, TypeOK, VInv, ActiveChainValid, FullyValid, ActiveChain
<1>. QED  BY <1>1, <1>2, <1>3, PTL DEF Spec

(***************************************************************************)
(* The best chain is active.                                               *)
(***************************************************************************)

\* What ActiveStakeSourcesMature says of one block.
Mature(b) ==
  nHeight[b] >= PoSStartHeight =>
    /\ IsProofOfStake(b)
    /\ \E h \in 0..nHeight[b] :
         /\ stakeSource[b][1] = ancestor[b][h]
         /\ nHeight[b] - ValidStakePointerDuration <= h
         /\ h <= nHeight[b] - MaxReorganizationDepth

\* The stakes of a chain are valid by what the chain alone says.
StakesValid(r) ==
  \A a \in ChainOf(r) :
    /\ nHeight[a] < PoSStartHeight => ~IsProofOfStake(a)
    /\ Mature(a)
    /\ \A c \in ChainOf(r) : IsProofOfStake(a) /\ stakeSource[a] = stakeSource[c] => a = c

\* A block has more work than any block below it.
WorkClimbs ==
  \A b \in mapBlockIndex : \A h \in 0..nHeight[b] - 1 : nChainWork[ancestor[b][h]] < nChainWork[b]

\* A block the node can always go back to: its chain is free of marks and valid
\* whatever the node has done, it is as good as the tip, and every block that
\* beats it is a candidate unless it is marked.
Fallback(r) ==
  /\ r \in FullyValid /\ StakesValid(r) /\ ~Worse(r, tip)
  /\ \A b \in haveData \ Failed : Worse(r, b) => b \in setBlockIndexCandidates

\* A recorded pointer is that of the block it is recorded for.
UsersHave ==
  \A p \in Pointer : mapUsedStakePointers[p] # NoBlock => stakeSource[mapUsedStakePointers[p]] = p

\* BestChainActive is not inductive: during a step the tip is worse than the
\* chain it started from, and PruneBlockIndexCandidates has dropped what that
\* chain beats.  The candidates keep a block to go back to until the step has
\* connected a better one.
BInv == WorkClimbs /\ StakesValid(tip) /\ \E r \in setBlockIndexCandidates : Fallback(r)

\* CBlockIndexWorkComparator is a strict weak order.
LEMMA WorseOrder ==
  ASSUME TypeOK, NEW a \in Block, NEW b \in Block, NEW c \in Block
  PROVE  /\ ~Worse(a, a) /\ (Worse(a, b) => ~Worse(b, a))
         /\ Worse(a, b) /\ Worse(b, c) => Worse(a, c)
         /\ ~Worse(a, b) /\ ~Worse(b, c) => ~Worse(a, c)
<1>1. /\ nChainWork[a] \in Nat /\ nChainWork[b] \in Nat /\ nChainWork[c] \in Nat
      /\ nSequenceId[a] \in Nat /\ nSequenceId[b] \in Nat /\ nSequenceId[c] \in Nat
  BY DEF TypeOK
<1>. QED  BY <1>1 DEF Worse

\* The chain of a block of a chain is a part of it.
LEMMA ChainOfChain ==
  ASSUME TypeOK, IndexIsTree, NEW r \in mapBlockIndex, NEW b \in ChainOf(r)
  PROVE  /\ b \in mapBlockIndex /\ ChainOf(b) \subseteq ChainOf(r)
         /\ nHeight[b] \in 0..nHeight[r] /\ ancestor[r][nHeight[b]] = b
<1>1. PICK h \in 0..nHeight[r] : b = ancestor[r][h]  BY DEF ChainOf
<1>2. b \in mapBlockIndex /\ nHeight[b] = h /\ ChainOf(b) = {ancestor[r][i] : i \in 0..h}
  BY <1>1, ChainOfAncestor
<1>3. nHeight[r] \in Nat  BY DEF TypeOK
<1>4. \A i \in 0..h : i \in 0..nHeight[r]  BY <1>3
<1>. QED  BY <1>1, <1>2, <1>4 DEF ChainOf

LEMMA BlockInChain ==
  ASSUME TypeOK, IndexIsTree, NEW b \in mapBlockIndex
  PROVE  b \in ChainOf(b)
<1>1. nHeight[b] \in Nat  BY DEF TypeOK
<1>2. ancestor[b][nHeight[b]] = b  BY DEF IndexIsTree
<1>. QED  BY <1>1, <1>2 DEF ChainOf

\* A part of a chain with valid stakes has valid stakes.
LEMMA StakesOfPart ==
  ASSUME TypeOK, IndexIsTree, NEW r \in mapBlockIndex, StakesValid(r), NEW t \in ChainOf(r)
  PROVE  StakesValid(t)
BY ChainOfChain DEF StakesValid

\* The block ActivateBestChainStep connects next sits on the tip.
LEMMA ConnectingNext ==
  ASSUME TypeOK, IndexIsTree, NEW b \in Block, Connecting(b)
  PROVE  /\ b \in haveData /\ b \in mapBlockIndex /\ nHeight[b] = nHeight[tip] + 1
         /\ Prev(b) = tip /\ b \in ChainOf(pindexMostWork)
         /\ ChainOf(b) = ActiveChain \cup {b}
<1>1. /\ pindexMostWork \in haveData /\ pindexMostWork \in mapBlockIndex
      /\ nHeight[tip] \in Nat /\ nHeight[pindexMostWork] \in Nat /\ tip \in mapBlockIndex
      /\ GetAncestor(pindexMostWork, nHeight[tip]) = tip
      /\ b = GetAncestor(pindexMostWork, nHeight[tip] + 1)
  BY DEF TypeOK, Connecting
<1>2. /\ nHeight[tip] + 1 \in 0..nHeight[pindexMostWork]
      /\ b = ancestor[pindexMostWork][nHeight[tip] + 1]
  BY <1>1 DEF GetAncestor, Block, NoBlock
<1>3. /\ b \in haveData /\ b \in mapBlockIndex /\ nHeight[b] = nHeight[tip] + 1
      /\ \A i \in 0..nHeight[b] : ancestor[b][i] = ancestor[pindexMostWork][i]
  BY <1>1, <1>2, ChainOfAncestor DEF IndexIsTree
<1>4. nHeight[tip] \in 0..nHeight[b] /\ nHeight[tip] \in 0..nHeight[pindexMostWork]
  BY <1>1, <1>2, <1>3
<1>5. Prev(b) = tip /\ ancestor[b][nHeight[tip]] = tip
  BY <1>1, <1>3, <1>4 DEF Prev, GetAncestor
<1>6. b \in ChainOf(pindexMostWork)  BY <1>2 DEF ChainOf
<1>7. \A i \in 0..nHeight[tip] : ancestor[b][i] = ancestor[tip][i]
  BY <1>3, <1>4, <1>5 DEF IndexIsTree
<1>8. 0..nHeight[b] = 0..nHeight[tip] \cup {nHeight[b]} /\ ancestor[b][nHeight[b]] = b
  BY <1>1, <1>3 DEF IndexIsTree
<1>9. ChainOf(b) = {ancestor[b][i] : i \in 0..nHeight[tip]} \cup {b}
  BY <1>8 DEF ChainOf
<1>10. {ancestor[b][i] : i \in 0..nHeight[tip]} = ActiveChain
  BY <1>7 DEF ActiveChain, ChainOf
<1>. QED  BY <1>3, <1>5, <1>6, <1>9, <1>10

\* ConnectBlock does not refuse the stake of a block of such a chain, whatever
\* the node has connected and disconnected before.
LEMMA StakesPass ==
  ASSUME TypeOK, IndexIsTree, UsersHave, ChainAssumption, NEW r \in mapBlockIndex, StakesValid(r),
         NEW b \in ChainOf(r), Prev(b) = tip, nHeight[b] = nHeight[tip] + 1
  PROVE  CheckStake(b)
<1>0. /\ TypeOK /\ IndexIsTree /\ b \in mapBlockIndex /\ ChainOf(b) \subseteq ChainOf(r)
      /\ nHeight[tip] \in Nat /\ nHeight[b] \in Nat /\ b \in Block
      /\ PoSStartHeight \in Nat /\ MaxReorganizationDepth \in Nat \ {0}
  BY ChainOfChain DEF TypeOK, ChainAssumption
<1>1. CASE nHeight[b] < PoSStartHeight
  BY <1>0, <1>1 DEF StakesValid, CheckStake
<1>2. CASE nHeight[b] >= PoSStartHeight
  <2> DEFINE from == stakeSource[b][1]
             user == mapUsedStakePointers[stakeSource[b]]
  <2>1. IsProofOfStake(b)  BY <1>2 DEF StakesValid, Mature
  <2>2. PICK h \in 0..nHeight[b] : /\ from = ancestor[b][h]
                                   /\ nHeight[b] - ValidStakePointerDuration <= h
                                   /\ h <= nHeight[b] - MaxReorganizationDepth
    BY <1>2 DEF StakesValid, Mature
  <2>3. from \in mapBlockIndex /\ nHeight[from] = h
    BY <1>0, <2>2, ChainOfAncestor
  <2>4. h \in 0..nHeight[tip] /\ nHeight[tip] \in 0..nHeight[b]  BY <1>0, <2>2
  <2>5. ancestor[b][nHeight[tip]] = tip  BY <1>0 DEF Prev
  <2>6. ancestor[tip][h] = ancestor[b][h]  BY <1>0, <2>4, <2>5 DEF IndexIsTree
  <2>7. Contains(from)  BY <2>2, <2>3, <2>4, <2>6 DEF Contains, GetAncestor
  <2>8. stakeSource[b] \in Pointer  BY <1>0, <2>1 DEF TypeOK, IsProofOfStake
  <2>9. ASSUME IsStakePointerUsed(b, stakeSource[b])  PROVE FALSE
    <3>1. user \in mapBlockIndex /\ GetAncestor(b, nHeight[user]) = user /\ b # user
      BY <2>9 DEF IsStakePointerUsed
    <3>2. user # NoBlock
      <4>1. user \in Block  BY <1>0, <3>1 DEF TypeOK
      <4> HIDE DEF user
      <4>. QED  BY <4>1 DEF Block, NoBlock
    <3>3. stakeSource[user] = stakeSource[b]  BY <2>8, <3>2 DEF UsersHave
    <3>4. user \in ChainOf(b)  BY <3>1, <3>2 DEF GetAncestor, ChainOf
    <3>. QED  BY <1>0, <2>1, <3>1, <3>3, <3>4 DEF StakesValid
  <2>10. /\ nHeight[from] >= nHeight[b] - ValidStakePointerDuration
         /\ nHeight[from] <= nHeight[b] - MaxReorganizationDepth
    BY <1>0, <2>2, <2>3 DEF ChainAssumption
  <2>11. CheckBlockProofPointer(b)
    BY <2>1, <2>3, <2>7, <2>9, <2>10 DEF CheckBlockProofPointer
  <2>. QED  BY <1>2, <2>11 DEF CheckStake
<1>. QED  BY <1>0, <1>1, <1>2

\* Steps that leave the index alone: what the new candidates must still have.
LEMMA FallbackFrom ==
  ASSUME UNCHANGED <<treeVars, dataVars>>, WorkClimbs, StakesValid(tip'),
         NEW r \in haveData, r \in setBlockIndexCandidates', StakesValid(r),
         ChainOf(r) \cap Failed' = {}, ~Worse(r, tip'),
         \A b \in haveData \ Failed' : Worse(r, b) => b \in setBlockIndexCandidates'
  PROVE  BInv'
<1>1. /\ mapBlockIndex' = mapBlockIndex /\ nHeight' = nHeight /\ nChainWork' = nChainWork
      /\ ancestor' = ancestor /\ stakeSource' = stakeSource
      /\ haveData' = haveData /\ nSequenceId' = nSequenceId
  BY DEF treeVars, dataVars
<1>2. WorkClimbs'  BY <1>1 DEF WorkClimbs
<1>3. StakesValid(tip)'  BY <1>1 DEF StakesValid, Mature, ChainOf, IsProofOfStake
<1>4. StakesValid(r)'  BY <1>1 DEF StakesValid, Mature, ChainOf, IsProofOfStake
<1>5. (r \in FullyValid)'  BY <1>1 DEF FullyValid, ChainOf
<1>6. ~Worse(r, tip)'  BY <1>1 DEF Worse
<1>7. (\A b \in haveData \ Failed : Worse(r, b) => b \in setBlockIndexCandidates)'
  BY <1>1 DEF Worse
<1>8. Fallback(r)'  BY <1>4, <1>5, <1>6, <1>7 DEF Fallback
<1>. QED  BY <1>2, <1>3, <1>8 DEF BInv

\* A new entry has more work than its parent, and the old ones keep theirs.
LEMMA AcceptableKeepsWork ==
  ASSUME TypeOK, IndexIsTree, WorkClimbs, ChainAssumption,
         NEW b \in Block \ haveData, NEW prev \in haveData, NEW work \in Work,
         NEW ptr \in Pointer \cup {NoPointer},
         AcceptableBlock(b, prev, work, ptr)
  PROVE  WorkClimbs' /\ \A x \in mapBlockIndex : nChainWork'[x] = nChainWork[x]
<1>1. CASE AcceptBlockHeader(b, prev) /\ AddToBlockIndex(b, prev, work, ptr)
  <2>0. /\ prev \in mapBlockIndex /\ prev \in Block /\ nHeight[prev] \in Nat
        /\ nChainWork[prev] \in Nat /\ work \in Nat \ {0}
        /\ ancestor[prev][nHeight[prev]] = prev /\ mapBlockIndex \subseteq Block
        /\ nHeight \in [Block -> Nat] /\ nChainWork \in [Block -> Nat]
        /\ ancestor = [x \in Block |-> ancestor[x]]
    BY DEF TypeOK, IndexIsTree, ChainAssumption
  <2>1. b \notin mapBlockIndex  BY <1>1 DEF AcceptBlockHeader
  <2>2. /\ mapBlockIndex' = mapBlockIndex \cup {b}
        /\ nHeight' = [nHeight EXCEPT ![b] = nHeight[prev] + 1]
        /\ nChainWork' = [nChainWork EXCEPT ![b] = nChainWork[prev] + work]
        /\ ancestor' = [ancestor EXCEPT ![b] =
             [i \in 0..nHeight[prev] + 1 |-> IF i = nHeight[prev] + 1 THEN b ELSE ancestor[prev][i]]]
    BY <1>1 DEF AddToBlockIndex
  <2>3. \A x \in mapBlockIndex : /\ nChainWork'[x] = nChainWork[x]
                                 /\ nHeight'[x] = nHeight[x] /\ ancestor'[x] = ancestor[x]
    BY <2>0, <2>1, <2>2
  <2>4. ASSUME NEW x \in mapBlockIndex, NEW h \in 0..nHeight[x] - 1
        PROVE  nChainWork'[ancestor'[x][h]] < nChainWork'[x]
    <3>1. nHeight[x] \in Nat  BY DEF TypeOK
    <3>2. h \in 0..nHeight[x]  BY <3>1
    <3>3. ancestor[x][h] \in mapBlockIndex  BY <3>2, ChainOfAncestor
    <3>. QED  BY <2>3, <3>3 DEF WorkClimbs
  <2>5. ASSUME NEW h \in 0..nHeight[prev]
        PROVE  nChainWork'[ancestor'[b][h]] < nChainWork'[b]
    <3>1. nChainWork'[b] = nChainWork[prev] + work /\ ancestor'[b][h] = ancestor[prev][h]
      BY <2>0, <2>2
    <3>2. ancestor[prev][h] \in mapBlockIndex  BY <2>0, ChainOfAncestor
    <3>3. nChainWork[ancestor[prev][h]] \in Nat  BY <2>0, <3>2
    <3>4. nChainWork[ancestor[prev][h]] <= nChainWork[prev]
      <4>1. CASE h = nHeight[prev]  BY <2>0, <4>1
      <4>2. CASE h # nHeight[prev]
        <5>1. h \in 0..nHeight[prev] - 1  BY <2>0, <4>2
        <5>2. nChainWork[ancestor[prev][h]] < nChainWork[prev]  BY <2>0, <5>1 DEF WorkClimbs
        <5>. QED  BY <2>0, <3>3, <5>2
      <4>. QED  BY <4>1, <4>2
    <3>. QED  BY <2>0, <2>3, <3>1, <3>2, <3>3, <3>4
  <2>6. WorkClimbs'
    <3>1. nHeight'[b] - 1 = nHeight[prev]  BY <2>0, <2>2
    <3>. QED  BY <2>2, <2>3, <2>4, <2>5, <3>1 DEF WorkClimbs
  <2>. QED  BY <2>3, <2>6
<1>2. CASE UNCHANGED treeVars
  BY <1>2 DEF treeVars, WorkClimbs
<1>. QED  BY <1>1, <1>2 DEF AcceptableBlock

\* A block that arrives becomes a candidate unless it is worse than the tip, and
\* then it is worse than the block to go back to.
LEMMA ReceiveBInv ==
  ASSUME TInv, BInv, ChainAssumption, "reject" \notin Interventions, ReceiveBlock, TypeOK'
  PROVE  BInv'
<1>0. TypeOK /\ IndexIsTree /\ haveData \subseteq mapBlockIndex /\ tip \in haveData
      /\ setBlockIndexCandidates \subseteq haveData /\ mapBlockIndex \subseteq Block
  BY DEF TInv, TypeOK
<1>1. PICK b \in Arriving, prev \in haveData, work \in Work,
           ptr \in (mapBlockIndex \X Slot) \cup {NoPointer} :
         \/ AcceptBlock(b, prev, work, ptr)
         \/ AcceptBlockRefused(b, prev, work, ptr)
  BY DEF ReceiveBlock, AcceptBlockInvalid
<1>2. b \in Block \ haveData  BY DEF Arriving
<1>3. ptr \in Pointer \cup {NoPointer}  BY <1>0 DEF Pointer
<1>4. AcceptableBlock(b, prev, work, ptr)
  BY <1>1 DEF AcceptBlock, AcceptBlockRefused, AcceptableBlock
<1>5. \A x \in mapBlockIndex : /\ nHeight'[x] = nHeight[x] /\ ancestor'[x] = ancestor[x]
                               /\ stakeSource'[x] = stakeSource[x]
  BY <1>0, <1>2, <1>3, <1>4, AcceptableKeepsTree
<1>6. WorkClimbs' /\ \A x \in mapBlockIndex : nChainWork'[x] = nChainWork[x]
  BY <1>0, <1>2, <1>3, <1>4, AcceptableKeepsWork DEF BInv
<1>7. /\ tip' = tip /\ Failed' = Failed
      /\ setBlockIndexCandidates \subseteq setBlockIndexCandidates'
      /\ \A x \in haveData : nSequenceId'[x] = nSequenceId[x]
      /\ haveData \subseteq haveData' /\ haveData' \subseteq haveData \cup {b}
      /\ b \in haveData' => Worse(b, tip)' \/ b \in setBlockIndexCandidates'
  <2>1. CASE AcceptBlock(b, prev, work, ptr)
    <3>1. /\ tip' = tip /\ Failed' = Failed /\ haveData' = haveData \cup {b}
          /\ nSequenceId' = [nSequenceId EXCEPT ![b] = Cardinality(haveData)]
          /\ setBlockIndexCandidates' =
               IF Worse(b, tip)' THEN setBlockIndexCandidates
                                 ELSE setBlockIndexCandidates \cup {b}
      BY <2>1 DEF AcceptBlock, ReceivedBlockTransactions, failVars, Failed
    <3>2. \A x \in haveData : nSequenceId'[x] = nSequenceId[x]
      BY <1>0, <1>2, <3>1 DEF TypeOK
    <3>. QED  BY <3>1, <3>2
  <2>2. CASE AcceptBlockRefused(b, prev, work, ptr)
    BY <1>2, <2>2 DEF AcceptBlockRefused, dataVars, failVars, Failed
  <2>. QED  BY <1>1, <2>1, <2>2
<1>8. PICK r \in setBlockIndexCandidates : Fallback(r)  BY DEF BInv
<1>9. /\ r \in haveData /\ r \in mapBlockIndex /\ ChainOf(r) \cap Failed = {} /\ StakesValid(r)
      /\ ~Worse(r, tip)
      /\ \A x \in haveData \ Failed : Worse(r, x) => x \in setBlockIndexCandidates
  BY <1>0, <1>8 DEF Fallback, FullyValid
<1>10. ASSUME NEW x \in mapBlockIndex, StakesValid(x)  PROVE StakesValid(x)'
  <2>1. ChainOf(x)' = ChainOf(x)  BY <1>5 DEF ChainOf
  <2>2. \A a \in ChainOf(x) : a \in mapBlockIndex  BY <1>0, ChainOfChain
  <2>3. \A a \in ChainOf(x) : Mature(a)' <=> Mature(a)
    BY <1>5, <2>2 DEF Mature, IsProofOfStake
  <2>. QED  BY <1>5, <1>10, <2>1, <2>2, <2>3 DEF StakesValid, IsProofOfStake
<1>11. \A x, y \in haveData : Worse(x, y)' <=> Worse(x, y)
  BY <1>0, <1>6, <1>7 DEF Worse
<1>12. StakesValid(tip)'
  <2>1. StakesValid(tip) /\ tip \in mapBlockIndex  BY <1>0 DEF BInv
  <2>2. \A x : x = tip => (StakesValid(x)' => StakesValid(tip)')
    BY <1>7 DEF StakesValid, ChainOf, Mature, IsProofOfStake
  <2>. QED  BY <1>10, <2>1, <2>2
<1>13. (r \in FullyValid)'
  <2>1. ChainOf(r)' = ChainOf(r)  BY <1>5, <1>9 DEF ChainOf
  <2>. QED  BY <1>7, <1>9, <2>1 DEF FullyValid
<1>14. ~Worse(r, tip)'
  <2>1. ~(\/ nChainWork'[r] < nChainWork'[tip]
          \/ nChainWork'[r] = nChainWork'[tip] /\ nSequenceId'[r] > nSequenceId'[tip])
    BY <1>0, <1>9, <1>11 DEF Worse
  <2>. QED  BY <1>7, <2>1 DEF Worse
<1>15. ASSUME NEW x \in haveData', x \notin Failed', Worse(r, x)'
       PROVE  x \in setBlockIndexCandidates'
  <2>1. CASE x \in haveData  BY <1>7, <1>9, <1>11, <1>15, <2>1
  <2>2. CASE x = b
    <3>1. /\ nChainWork'[r] \in Nat /\ nChainWork'[b] \in Nat /\ nChainWork'[tip'] \in Nat
          /\ nSequenceId'[r] \in Nat /\ nSequenceId'[b] \in Nat /\ nSequenceId'[tip'] \in Nat
      BY <1>0, <1>2, <1>7, <1>9 DEF TypeOK
    <3>2. ~Worse(b, tip)'  BY <1>14, <1>15, <2>2, <3>1 DEF Worse
    <3>. QED  BY <1>7, <1>15, <2>2, <3>2
  <2>. QED  BY <1>7, <2>1, <2>2
<1>16. StakesValid(r)'  BY <1>9, <1>10
<1>17. Fallback(r)'  BY <1>13, <1>14, <1>15, <1>16 DEF Fallback
<1>. QED  BY <1>6, <1>7, <1>8, <1>12, <1>17 DEF BInv

\* Going down the active chain the node keeps the block to go back to.
LEMMA LowerTipBInv ==
  ASSUME TypeOK, IndexIsTree, BInv, UNCHANGED <<treeVars, dataVars>>, NEW t \in ChainOf(tip),
         tip' = t, Failed' = Failed, setBlockIndexCandidates' = setBlockIndexCandidates
  PROVE  BInv'
<1>0. /\ haveData \subseteq mapBlockIndex /\ mapBlockIndex \subseteq Block
      /\ tip \in haveData /\ tip \in mapBlockIndex /\ WorkClimbs /\ StakesValid(tip)
      /\ setBlockIndexCandidates \subseteq haveData /\ nHeight[tip] \in Nat
  BY DEF TypeOK, BInv
<1>1. PICK r \in setBlockIndexCandidates : Fallback(r)  BY DEF BInv
<1>2. /\ r \in haveData /\ r \in mapBlockIndex /\ ChainOf(r) \cap Failed = {} /\ StakesValid(r)
      /\ ~Worse(r, tip)
      /\ \A x \in haveData \ Failed : Worse(r, x) => x \in setBlockIndexCandidates
  BY <1>0, <1>1 DEF Fallback, FullyValid
<1>3. /\ StakesValid(t) /\ t \in mapBlockIndex
      /\ nHeight[t] \in 0..nHeight[tip] /\ ancestor[tip][nHeight[t]] = t
  BY <1>0, StakesOfPart, ChainOfChain
<1>4. ~Worse(r, t)
  <2>1. CASE t = tip  BY <1>2, <2>1
  <2>2. CASE t # tip
    <3>1. nHeight[t] # nHeight[tip]  BY <1>0, <1>3, <2>2 DEF IndexIsTree
    <3>2. nHeight[t] \in 0..nHeight[tip] - 1  BY <1>0, <1>3, <3>1
    <3>3. nChainWork[t] < nChainWork[tip]  BY <1>0, <1>3, <3>2 DEF WorkClimbs
    <3>4. nChainWork[t] \in Nat /\ nChainWork[tip] \in Nat /\ nChainWork[r] \in Nat
      BY <1>0, <1>2, <1>3 DEF TypeOK
    <3>. QED  BY <1>2, <3>3, <3>4 DEF Worse
  <2>. QED  BY <2>1, <2>2
<1>5. /\ StakesValid(tip') /\ ~Worse(r, tip') /\ r \in setBlockIndexCandidates'
      /\ ChainOf(r) \cap Failed' = {}
      /\ \A x \in haveData \ Failed' : Worse(r, x) => x \in setBlockIndexCandidates'
  BY <1>1, <1>2, <1>3, <1>4
<1>. QED  BY <1>0, <1>2, <1>5, FallbackFrom

LEMMA ActivationBInv ==
  ASSUME TInv, UsersHave, VInv, BInv, ChainAssumption, "reject" \notin Interventions,
         ActivateBestChain, TInv', StakePointerUsedOnce'
  PROVE  BInv'
<1>0. /\ TypeOK /\ IndexIsTree /\ haveData \subseteq mapBlockIndex /\ mapBlockIndex \subseteq Block
      /\ tip \in haveData /\ setBlockIndexCandidates \subseteq haveData
      /\ WorkClimbs /\ StakesValid(tip)
  BY DEF TInv, TypeOK, BInv
<1>1. PICK r \in setBlockIndexCandidates : Fallback(r)  BY DEF BInv
<1>2. /\ r \in haveData /\ r \in mapBlockIndex /\ ChainOf(r) \cap Failed = {} /\ StakesValid(r)
      /\ ~Worse(r, tip)
      /\ \A x \in haveData \ Failed : Worse(r, x) => x \in setBlockIndexCandidates
  BY <1>0, <1>1 DEF Fallback, FullyValid
<1>3. CASE FindMostWorkChain
  <2> DEFINE tried == {c \in setBlockIndexCandidates :
                         ~Usable(c) /\ \A d \in BestCandidates : Worse(d, c)}
             gone == UNION {Discarded(c) : c \in tried}
  <2>1. /\ UNCHANGED <<treeVars, dataVars>> /\ tip' = tip
        /\ setBlockIndexCandidates' = setBlockIndexCandidates \ gone
        /\ Failed' = Failed \cup gone
    BY <1>3 DEF FindMostWorkChain, Failed
  <2>2. Usable(r)  BY <1>2 DEF Usable, Path
  <2>3. \A c \in tried : Discarded(c) \cap ChainOf(r) = {}
    BY <1>0, <1>2, <2>2, DiscardedElsewhere
  <2>4. gone \cap ChainOf(r) = {} /\ r \in ChainOf(r)  BY <1>0, <1>2, <2>3, BlockInChain
  <2> HIDE DEF gone
  <2>5. r \in setBlockIndexCandidates' /\ ChainOf(r) \cap Failed' = {}
    BY <1>1, <1>2, <2>1, <2>4
  <2>6. \A x \in haveData \ Failed' : Worse(r, x) => x \in setBlockIndexCandidates'
    BY <1>2, <2>1
  <2>. QED  BY <1>0, <1>2, <2>1, <2>5, <2>6, FallbackFrom
<1>4. CASE DisconnectTip
  <2>1. /\ UNCHANGED <<treeVars, dataVars>> /\ tip' = Prev(tip) /\ Failed' = Failed
        /\ setBlockIndexCandidates' = setBlockIndexCandidates
    BY <1>4 DEF DisconnectTip, DisconnectTo, failVars, Failed
  <2>2. tip # 0
    <3> SUFFICES ASSUME tip = 0 PROVE FALSE  OBVIOUS
    <3>1. /\ pindexMostWork \in mapBlockIndex
          /\ GetAncestor(pindexMostWork, nHeight[tip]) # tip
      BY <1>0, <1>4 DEF DisconnectTip, TypeOK
    <3>2. nHeight[tip] \in Nat /\ nHeight[pindexMostWork] \in Nat /\ tip \in mapBlockIndex
      BY <1>0, <3>1 DEF TypeOK
    <3>3. 0 \in 0..nHeight[tip] /\ 0 \in 0..nHeight[pindexMostWork]  BY <3>2
    <3>4. ancestor[tip][0] = 0 /\ nHeight[ancestor[tip][0]] = 0
          /\ ancestor[pindexMostWork][0] = 0
      BY <1>0, <3>1, <3>2, <3>3 DEF IndexIsTree
    <3>. QED  BY <3>1, <3>3, <3>4 DEF GetAncestor
  <2>3. tip \in mapBlockIndex /\ nHeight[tip] - 1 \in 0..nHeight[tip]
    BY <1>0, <2>2, HasParent
  <2>4. Prev(tip) \in ChainOf(tip)  BY <2>3 DEF Prev, ChainOf
  <2>. QED  BY <2>1, <2>4, LowerTipBInv DEF TInv
<1>5. ASSUME NEW b \in Block, ConnectTip(b)  PROVE BInv'
  <2>1. /\ UNCHANGED <<treeVars, dataVars>> /\ tip' = b /\ Failed' = Failed /\ CheckStake(b)
        /\ setBlockIndexCandidates' = {c \in setBlockIndexCandidates : ~Worse(c, b)}
        /\ Connecting(b)
    BY <1>5 DEF ConnectTip, PruneBlockIndexCandidates, failVars, Failed
  <2>2. /\ b \in haveData /\ b \in mapBlockIndex /\ nHeight[b] = nHeight[tip] + 1
        /\ b \in ChainOf(pindexMostWork) /\ ChainOf(b) = ActiveChain \cup {b}
    BY <1>0, <2>1, ConnectingNext
  <2>3. StakesValid(b)
    <3>1. /\ nHeight' = nHeight /\ ancestor' = ancestor /\ stakeSource' = stakeSource
          /\ ActiveChain' = ChainOf(b)
      BY <2>1 DEF treeVars, ActiveChain, ChainOf
    <3>2. StakePointerUsedOnce' /\ ActiveStakeSourcesMature'  BY DEF TInv
    <3>3. \A a \in ChainOf(b) : Mature(a)
      BY <3>1, <3>2 DEF ActiveStakeSourcesMature, Mature, IsProofOfStake
    <3>4. \A a, c \in ChainOf(b) : IsProofOfStake(a) /\ stakeSource[a] = stakeSource[c] => a = c
      BY <3>1, <3>2 DEF StakePointerUsedOnce, IsProofOfStake
    <3>5. \A a \in ActiveChain : nHeight[a] < PoSStartHeight => ~IsProofOfStake(a)
      BY <1>0 DEF StakesValid, ActiveChain
    <3>6. nHeight[b] < PoSStartHeight => ~IsProofOfStake(b)
      <4>1. nHeight[b] \in Nat /\ PoSStartHeight \in Nat
        BY <1>0, <2>2 DEF TypeOK, ChainAssumption
      <4>. QED  BY <4>1, <2>1 DEF CheckStake
    <3>. QED  BY <2>2, <3>3, <3>4, <3>5, <3>6 DEF StakesValid
  <2>4. b \notin Failed /\ ChainOf(b) \cap Failed = {}
    <3>1. ChainOf(pindexMostWork) \cap Failed = {}  BY <2>1 DEF VInv, Connecting
    <3>. QED  BY <2>2, <3>1 DEF VInv
  <2>5. \A x \in haveData : x \in Block  BY <1>0
  <2>6. \A x, y \in haveData : /\ ~Worse(x, x) /\ (Worse(x, y) => ~Worse(y, x))
    BY <1>0, <2>5, WorseOrder
  <2>7. \A x, y, z \in haveData : Worse(x, y) /\ Worse(y, z) => Worse(x, z)
    BY <1>0, <2>5, WorseOrder
  <2>8. CASE Worse(r, b)
    <3>1. b \in setBlockIndexCandidates' /\ ~Worse(b, tip')
      BY <1>2, <2>1, <2>2, <2>4, <2>6, <2>8
    <3>2. ASSUME NEW x \in haveData \ Failed', Worse(b, x)
          PROVE  x \in setBlockIndexCandidates'
      <4>1. Worse(r, x) /\ ~Worse(x, b)  BY <1>2, <2>2, <2>6, <2>7, <2>8, <3>2
      <4>. QED  BY <1>2, <2>1, <4>1
    <3>3. StakesValid(tip') /\ ChainOf(b) \cap Failed' = {}  BY <2>1, <2>3, <2>4
    <3>. QED  BY <1>0, <2>1, <2>2, <2>3, <3>1, <3>2, <3>3, FallbackFrom
  <2>9. CASE ~Worse(r, b)
    <3>1. r \in setBlockIndexCandidates' /\ ~Worse(r, tip')  BY <1>1, <2>1, <2>9
    <3>2. ASSUME NEW x \in haveData \ Failed', Worse(r, x)
          PROVE  x \in setBlockIndexCandidates'
      <4>1. ~Worse(x, b)  BY <1>2, <2>2, <2>7, <2>9, <3>2
      <4>. QED  BY <1>2, <2>1, <3>2, <4>1
    <3>3. StakesValid(tip') /\ ChainOf(r) \cap Failed' = {}  BY <1>2, <2>1, <2>3
    <3>. QED  BY <1>0, <1>2, <2>1, <3>1, <3>2, <3>3, FallbackFrom
  <2>. QED  BY <2>8, <2>9
<1>6. ASSUME NEW b \in Block, ConnectTipBadStake(b)  PROVE BInv'
  <2>1. /\ UNCHANGED <<treeVars, dataVars>> /\ tip' = tip /\ Failed' = Failed \cup {b}
        /\ setBlockIndexCandidates' = setBlockIndexCandidates \ {b}
        /\ ~CheckStake(b) /\ Connecting(b)
    BY <1>6 DEF ConnectTipBadStake, InvalidBlockFound, Failed
  <2>2. Prev(b) = tip /\ nHeight[b] = nHeight[tip] + 1  BY <1>0, <2>1, ConnectingNext
  <2>3. b \notin ChainOf(r)  BY <1>0, <1>2, <2>1, <2>2, StakesPass
  <2>4. r \in ChainOf(r)  BY <1>0, <1>2, BlockInChain
  <2>5. /\ r \in setBlockIndexCandidates' /\ ChainOf(r) \cap Failed' = {}
        /\ \A x \in haveData \ Failed' : Worse(r, x) => x \in setBlockIndexCandidates'
    BY <1>1, <1>2, <2>1, <2>3, <2>4
  <2>6. StakesValid(tip') /\ ~Worse(r, tip')  BY <1>0, <1>2, <2>1
  <2>. QED  BY <1>0, <1>2, <2>1, <2>5, <2>6, FallbackFrom
<1>7. ASSUME NEW b \in Block, ConnectTipRejected(b)  PROVE BInv'
  BY <1>7 DEF ConnectTipRejected
<1>. QED  BY <1>3, <1>4, <1>5, <1>6, <1>7 DEF ActivateBestChain

\* After invalidateblock the node can go back to the tip it stopped at.
LEMMA InvalidateBInv ==
  ASSUME TInv, VInv, BInv, NEW b \in Block, InvalidateBlock(b), VInv'
  PROVE  BInv'
<1> DEFINE t == IF Contains(b) THEN Prev(b) ELSE tip
           walked == ActiveChain \ ChainOf(t)
<1>0. /\ TypeOK /\ IndexIsTree /\ haveData \subseteq mapBlockIndex /\ mapBlockIndex \subseteq Block
      /\ tip \in haveData /\ WorkClimbs /\ StakesValid(tip)
  BY DEF TInv, TypeOK, BInv
<1>1. /\ UNCHANGED <<treeVars, dataVars>> /\ tip' = t /\ b \in mapBlockIndex /\ b # 0
      /\ Failed' = Failed \cup {b} \cup walked
      /\ setBlockIndexCandidates' =
           (setBlockIndexCandidates \ ({b} \cup walked))
             \cup {x \in haveData \ (Failed \cup {b} \cup walked) : ~Worse(x, t)}
  BY DEF InvalidateBlock, DisconnectTo, Failed
<1>2. t \in ChainOf(tip)
  <2>1. CASE Contains(b)
    <3>1. b \in ChainOf(tip)  BY <1>0, <1>1, <2>1, ContainsIsMembership DEF ActiveChain
    <3>2. nHeight[b] - 1 \in 0..nHeight[b]  BY <1>0, <1>1, HasParent
    <3>3. Prev(b) \in ChainOf(b)  BY <3>2 DEF Prev, ChainOf
    <3>. QED  BY <1>0, <2>1, <3>1, <3>3, ChainOfChain
  <2>2. CASE ~Contains(b)  BY <1>0, <2>2, BlockInChain
  <2>. QED  BY <2>1, <2>2
<1> HIDE DEF t, walked
<1>3. t \in haveData /\ t \in mapBlockIndex /\ t \in Block /\ StakesValid(t)
  <2>1. t \in haveData  BY <1>0, <1>2, ActiveAt DEF ActiveChain
  <2>. QED  BY <1>0, <1>2, <2>1, StakesOfPart
<1>4. ChainOf(t) \cap Failed' = {}
  <2>1. ActiveChain' = ChainOf(t)  BY <1>1 DEF ActiveChain, ChainOf, treeVars
  <2>. QED  BY <2>1 DEF VInv
<1>5. t \notin Failed'  BY <1>0, <1>3, <1>4, BlockInChain
<1>6. ~Worse(t, t) /\ \A x \in haveData : Worse(t, x) => ~Worse(x, t)
  BY <1>0, <1>3, WorseOrder
<1>7. t \in setBlockIndexCandidates' /\ ~Worse(t, tip') /\ StakesValid(tip')
  BY <1>1, <1>3, <1>5, <1>6
<1>8. \A x \in haveData \ Failed' : Worse(t, x) => x \in setBlockIndexCandidates'
  BY <1>1, <1>6
<1>. QED  BY <1>0, <1>1, <1>3, <1>4, <1>7, <1>8, FallbackFrom

\* The chain a run starts from has no stakes, and the work of its last block is
\* the greatest.
LEMMA InitBInv ==
  ASSUME Init, IInv, ChainAssumption
  PROVE  BInv
<1>1. PICK w \in Work : nChainWork = [b \in Block |-> IF b <= InitHeight THEN w * b ELSE 0]
  BY DEF Init
<1>2. /\ w \in Nat \ {0} /\ InitHeight \in Nat /\ PoSStartHeight \in Nat
      /\ InitHeight < PoSStartHeight /\ 0..InitHeight \subseteq Block
  BY DEF ChainAssumption, Block
<1>3. /\ mapBlockIndex = 0..InitHeight /\ haveData = 0..InitHeight /\ tip = InitHeight
      /\ setBlockIndexCandidates = {InitHeight} /\ Failed = {}
      /\ stakeSource = [b \in Block |-> NoPointer]
      /\ nHeight = [b \in Block |-> IF b <= InitHeight THEN b ELSE 0]
      /\ ancestor = [b \in Block |-> [h \in 0..(IF b <= InitHeight THEN b ELSE 0) |-> h]]
      /\ nSequenceId = [b \in Block |-> IF b <= InitHeight THEN b ELSE 0]
  BY DEF Init, Failed
<1>4. TypeOK /\ IndexIsTree  BY DEF IInv, TInv
<1>5. \A b \in mapBlockIndex : /\ b \in Nat /\ b \in Block /\ b <= InitHeight
                               /\ nHeight[b] = b /\ nChainWork[b] = w * b
                               /\ nSequenceId[b] = b /\ ancestor[b] = [h \in 0..b |-> h]
                               /\ stakeSource[b] = NoPointer
  BY <1>1, <1>2, <1>3
<1>6. \A i, j \in Nat : i <= j => w * i <= w * j
  <2> SUFFICES ASSUME NEW i \in Nat, NEW j \in Nat, i <= j  PROVE w * i <= w * j  OBVIOUS
  <2>1. j - i \in Nat /\ w \in Nat  BY <1>2
  <2>2. w * (j - i) \in Nat  BY <2>1
  <2>3. w * (j - i) = w * j - w * i  BY <1>2
  <2>4. w * i \in Nat /\ w * j \in Nat  BY <1>2
  <2>. QED  BY <2>2, <2>3, <2>4
<1>7. WorkClimbs
  <2> SUFFICES ASSUME NEW b \in mapBlockIndex, NEW h \in 0..nHeight[b] - 1
               PROVE  nChainWork[ancestor[b][h]] < nChainWork[b]
    BY DEF WorkClimbs
  <2>1. b \in Nat /\ nHeight[b] = b /\ nChainWork[b] = w * b  BY <1>5
  <2>2. h \in Nat /\ h <= b - 1 /\ b - 1 \in Nat  BY <2>1
  <2>3. h \in mapBlockIndex /\ h \in 0..b  BY <1>2, <1>3, <1>5, <2>1, <2>2
  <2>4. nChainWork[ancestor[b][h]] = w * h  BY <1>5, <2>3
  <2>5. w * h <= w * (b - 1)  BY <1>6, <2>2
  <2>6. w * (b - 1) = w * b - w /\ w * b \in Nat /\ w * h \in Nat  BY <1>2, <2>1, <2>2
  <2>. QED  BY <1>2, <2>1, <2>4, <2>5, <2>6
<1>8. tip \in mapBlockIndex /\ tip \in haveData  BY <1>2, <1>3
<1>9. StakesValid(tip)
  <2>1. \A a \in ChainOf(tip) : a \in mapBlockIndex  BY <1>4, <1>8, ChainOfChain
  <2>2. \A a \in ChainOf(tip) : stakeSource[a] = NoPointer /\ nHeight[a] = a
    BY <1>5, <2>1
  <2>3. \A a \in ChainOf(tip) : a \in Nat /\ a <= InitHeight  BY <1>5, <2>1
  <2>4. \A a \in ChainOf(tip) : ~(a >= PoSStartHeight)  BY <1>2, <2>3
  <2>. QED  BY <2>2, <2>4 DEF StakesValid, Mature, IsProofOfStake
<1>10. \A b \in haveData : ~Worse(tip, b)
  <2> SUFFICES ASSUME NEW b \in haveData PROVE ~Worse(tip, b)  OBVIOUS
  <2>1. b \in Nat /\ b <= InitHeight /\ nChainWork[b] = w * b /\ nSequenceId[b] = b
        /\ nChainWork[tip] = w * InitHeight /\ nSequenceId[tip] = InitHeight
    BY <1>3, <1>5, <1>8
  <2>2. w * b <= w * InitHeight /\ w * b \in Nat /\ w * InitHeight \in Nat
    BY <1>2, <1>6, <2>1
  <2>3. w * InitHeight = w * b => InitHeight = b
    <3>1. w * (InitHeight - b) = w * InitHeight - w * b  BY <1>2, <2>1
    <3>2. InitHeight - b \in Nat  BY <1>2, <2>1
    <3>3. InitHeight - b # 0 => w * (InitHeight - b) > 0  BY <1>2, <3>2
    <3>. QED  BY <1>2, <2>1, <2>2, <3>1, <3>3
  <2>. QED  BY <1>2, <2>1, <2>2, <2>3 DEF Worse
<1>11. Fallback(tip)
  BY <1>3, <1>8, <1>9, <1>10 DEF Fallback, FullyValid
<1>. QED  BY <1>3, <1>7, <1>9, <1>11 DEF BInv

\* A finite set that is not empty has a block that none of the others beats.
LEMMA BestOfSet ==
  ASSUME TypeOK, ChainAssumption, NEW U \in SUBSET Block, U # {}
  PROVE  \E c \in U : \A d \in U : ~Worse(c, d)
<1> DEFINE Better(c) == {d \in U : Worse(c, d)}
           T == {Cardinality(Better(c)) : c \in U}
<1>1. IsFiniteSet(U)
  <2>1. IsFiniteSet(Block)  BY FS_Interval DEF Block, ChainAssumption
  <2>. QED  BY <2>1, FS_Subset
<1>2. \A c \in U : Better(c) \in SUBSET U /\ IsFiniteSet(Better(c))
  BY <1>1, FS_Subset
<1>3. \A c \in U : Cardinality(Better(c)) \in Nat
  <2> HIDE DEF Better
  <2>. QED  BY <1>2, FS_CardinalityType
<1>4. T \subseteq Nat /\ T # {}  BY <1>3
<1>5. PICK m \in T : \A n \in T : m <= n
  <2> HIDE DEF T
  <2>. QED  BY <1>4, NatLeast
<1>6. PICK c \in U : m = Cardinality(Better(c))  OBVIOUS
<1>7. ASSUME NEW d \in U, Worse(c, d)  PROVE FALSE
  <2>1. Better(d) \subseteq Better(c)
    <3> SUFFICES ASSUME NEW e \in U, Worse(d, e)  PROVE Worse(c, e)  OBVIOUS
    <3>. QED  BY <1>7, WorseOrder
  <2>2. d \in Better(c) /\ d \notin Better(d)
    <3>1. ~Worse(d, d)  BY WorseOrder
    <3>. QED  BY <1>7, <3>1
  <2> DEFINE A == Better(c)
             B == Better(d)
  <2>3. IsFiniteSet(A) /\ B \in SUBSET A /\ A # B  BY <1>2, <2>1, <2>2
  <2>4. Cardinality(A) \in Nat /\ Cardinality(B) \in Nat  BY <1>3
  <2>5. Cardinality(A) <= Cardinality(B)  BY <1>5, <1>6
  <2> HIDE DEF A, B
  <2>6. Cardinality(B) <= Cardinality(A) /\ (Cardinality(A) = Cardinality(B) => A = B)
    BY <2>3, FS_Subset
  <2>. QED  BY <2>3, <2>4, <2>5, <2>6
<1>. QED  BY <1>7

\* When activation has nothing left to do, the tip is as good as the block to
\* go back to, and so better than anything that is not a candidate.
LEMMA SettledOnBest ==
  ASSUME TypeOK, IndexIsTree, ChainAssumption, VInv, BInv
  PROVE  BestChainActive
<1> SUFFICES ASSUME Settled, NEW b \in FullyValid, Worse(tip, b)  PROVE FALSE
  BY DEF BestChainActive
<1> DEFINE U == {c \in setBlockIndexCandidates : Usable(c)}
<1>0. /\ setBlockIndexCandidates \subseteq haveData /\ haveData \subseteq Block
      /\ haveData \subseteq mapBlockIndex /\ tip \in Block
  BY DEF TypeOK
<1>1. PICK r \in setBlockIndexCandidates : Fallback(r)  BY DEF BInv
<1>2. /\ r \in haveData /\ ChainOf(r) \cap Failed = {} /\ ~Worse(r, tip)
      /\ \A x \in haveData \ Failed : Worse(r, x) => x \in setBlockIndexCandidates
  BY <1>1 DEF Fallback, FullyValid
<1>3. r \in U  BY <1>2 DEF Usable, Path
<1>4. U \in SUBSET Block /\ U # {}  BY <1>0, <1>3
<1>5. PICK c \in U : \A d \in U : ~Worse(c, d)
  <2> HIDE DEF U
  <2>. QED  BY <1>4, BestOfSet
<1>6. c = tip  BY <1>5 DEF Settled, BestCandidates
<1>7. b \in haveData /\ b \in Block /\ ChainOf(b) \cap Failed = {} /\ b \in ChainOf(b)
  <2>1. b \in haveData /\ b \in mapBlockIndex  BY <1>0 DEF FullyValid
  <2>. QED  BY <1>0, <2>1, BlockInChain DEF FullyValid
<1>8. Worse(r, b)
  <2>1. ~Worse(tip, r)  BY <1>3, <1>5, <1>6
  <2>2. ~Worse(tip, r) /\ ~Worse(r, b) => ~Worse(tip, b)
    BY <1>0, <1>2, <1>7, WorseOrder
  <2>. QED  BY <2>1, <2>2
<1>9. b \in U  BY <1>2, <1>7, <1>8 DEF Usable, Path
<1>. QED  BY <1>5, <1>6, <1>9

\* The block to go back to, along every step, as long as no pointer is used
\* twice.
LEMMA NextBInv ==
  ASSUME TInv, UsersHave, VInv, BInv, ChainAssumption, [Next]_vars,
         "reject" \notin Interventions, "reconsider" \notin Interventions,
         TInv', VInv', StakePointerUsedOnce'
  PROVE  BInv'
<1>0. TypeOK /\ IndexIsTree /\ tip \in mapBlockIndex /\ nHeight[tip] \in Nat /\ TypeOK'
  BY DEF TInv, TypeOK
<1>1. CASE ReceiveBlock  BY <1>0, <1>1, ReceiveBInv
<1>2. CASE ActivateBestChain  BY <1>2, ActivationBInv
<1>3. ASSUME NEW b \in Block, InvalidateBlock(b) \/ ReconsiderBlock(b)  PROVE BInv'
  BY <1>3, InvalidateBInv DEF ReconsiderBlock, Intervene
<1>4. ASSUME NEW n \in ReprocessDepth, DisconnectBlocksAndReprocess(n)  PROVE BInv'
  <2>1. /\ UNCHANGED <<treeVars, dataVars>> /\ n + 1 <= nHeight[tip] /\ Failed' = Failed
        /\ tip' = ancestor[tip][nHeight[tip] - (n + 1)]
        /\ setBlockIndexCandidates' = setBlockIndexCandidates
    BY <1>4 DEF DisconnectBlocksAndReprocess, DisconnectTo, failVars, Failed
  <2>2. n \in Nat  BY DEF ChainAssumption
  <2>3. nHeight[tip] - (n + 1) \in 0..nHeight[tip]  BY <1>0, <2>1, <2>2
  <2>4. ancestor[tip][nHeight[tip] - (n + 1)] \in ChainOf(tip)  BY <2>3 DEF ChainOf
  <2>. QED  BY <1>0, <2>1, <2>4, LowerTipBInv
<1>5. CASE UNCHANGED vars
  <2>1. /\ UNCHANGED <<treeVars, dataVars>> /\ tip' = tip /\ Failed' = Failed
        /\ setBlockIndexCandidates' = setBlockIndexCandidates
    BY <1>5 DEF vars, failVars, Failed
  <2>2. tip \in ChainOf(tip)  BY <1>0, BlockInChain
  <2>. QED  BY <1>0, <2>1, <2>2, LowerTipBInv
<1>. QED  BY <1>1, <1>2, <1>3, <1>4, <1>5 DEF Next

\* Whatever forks arrive and in whatever order, whatever reorganisations fail
\* half way because of a stake, whatever an operator invalidates and whatever is
\* replayed: when ActivateBestChain has nothing left to do, no valid block it
\* knows beats the tip.  The two interventions left out do break it: a block
\* that was once active and is rejected when it is connected again leaves
\* nothing of what it had pruned from the candidates, and reconsiderblock may
\* clear the mark of a block without making it a candidate.
THEOREM BestChainIsActive ==
  ASSUME Interventions \subseteq {"refuse", "invalidate", "reprocess"}
  PROVE  Spec => []BestChainActive
<1> DEFINE Inv == IInv /\ VInv /\ BInv
<1>1. Init => Inv
  <2> SUFFICES ASSUME Init PROVE Inv  OBVIOUS
  <2>1. IInv  BY InitIInv, ChainAssumption
  <2>2. VInv  BY DEF VInv, Failed, Init
  <2>. QED  BY <2>1, <2>2, InitBInv, ChainAssumption
<1>2. Inv /\ [Next]_vars => Inv'
  <2> SUFFICES ASSUME IInv, VInv, BInv, [Next]_vars  PROVE IInv' /\ VInv' /\ BInv'  OBVIOUS
  <2>1. IInv' /\ TInv'  BY NextIInv, ChainAssumption DEF IInv
  <2>2. VInv'  BY NextVInv, ChainAssumption DEF IInv
  <2>3. StakePointerUsedOnce'
    BY <2>1 DEF IInv, UsedMapExact, StakePointerUsedOnce, IsProofOfStake
  <2>4. TInv /\ UsersHave  BY DEF IInv, UsedMapExact, UsersHave
  <2>5. "reject" \notin Interventions /\ "reconsider" \notin Interventions  OBVIOUS
  <2>. QED  BY <2>1, <2>2, <2>3, <2>4, <2>5, NextBInv, ChainAssumption
<1>3. Inv => BestChainActive  BY SettledOnBest, ChainAssumption DEF IInv, TInv
<1>. QED  BY <1>1, <1>2, <1>3, PTL DEF Spec

(***************************************************************************)
(* How deep a reorganisation goes.                                         *)
(***************************************************************************)

\* nSequenceId tells any two blocks with data apart.
SequenceUnique ==
  /\ \A a, b \in haveData : nSequenceId[a] = nSequenceId[b] => a = b
  /\ \A a \in haveData : nSequenceId[a] < Cardinality(haveData)

\* The candidates that no other beats: there is one, the target of the next step.
Foremost ==
  {b \in setBlockIndexCandidates : \A d \in setBlockIndexCandidates : ~Worse(b, d)}

\* The payment block b points to is in the chain that ends in t.
PaidFrom(b, t) == nHeight[b] > PoSStartHeight => stakeSource[b][1] \in ChainOf(t)

\* While no block has failed, the node is on its way to the foremost candidate,
\* or that candidate has been stored since the last step and so has a pointer of
\* the active chain.
DInv ==
  /\ SequenceUnique /\ WorkClimbs
  /\ Failed = {} =>
       /\ pindexMostWork = NoBlock =>
            \A b \in Foremost : tip \in ChainOf(b) \/ PaidFrom(b, tip)
       /\ pindexMostWork # NoBlock =>
            /\ pindexMostWork \in Foremost
            /\ \/ tip = pindexOldTip /\ tip \in ChainOf(pindexMostWork)
               \/ PaidFrom(pindexMostWork, pindexOldTip)

\* The work of the entries, along every step.
LEMMA NextWork ==
  ASSUME TInv, ChainAssumption, WorkClimbs, Next
  PROVE  WorkClimbs'
<1>0. TypeOK /\ IndexIsTree  BY DEF TInv
<1>1. CASE ReceiveBlock
  <2>1. PICK b \in Arriving, prev \in haveData, work \in Work,
             ptr \in (mapBlockIndex \X Slot) \cup {NoPointer} :
           \/ AcceptBlock(b, prev, work, ptr)
           \/ AcceptBlockRefused(b, prev, work, ptr)
           \/ AcceptBlockInvalid(b, prev, work, ptr)
    BY <1>1 DEF ReceiveBlock
  <2>2. b \in Block \ haveData  BY DEF Arriving
  <2>3. ptr \in Pointer \cup {NoPointer}  BY <1>0 DEF TypeOK, Pointer
  <2>4. AcceptableBlock(b, prev, work, ptr)
    BY <2>1 DEF AcceptBlock, AcceptBlockRefused, AcceptBlockInvalid, AcceptableBlock
  <2>. QED  BY <1>0, <2>2, <2>3, <2>4, AcceptableKeepsWork
<1>2. CASE UNCHANGED treeVars  BY <1>2 DEF treeVars, WorkClimbs
<1>3. ASSUME Next, ~ReceiveBlock PROVE UNCHANGED treeVars
  BY <1>3 DEF Next, ActivateBestChain, FindMostWorkChain, DisconnectTip, ConnectTip,
     ConnectTipBadStake, ConnectTipRejected, InvalidBlockFound, InvalidateBlock,
     ReconsiderBlock, DisconnectBlocksAndReprocess
<1>. QED  BY <1>1, <1>2, <1>3

\* A new block gets a number that no other has.
LEMMA NextSequence ==
  ASSUME TInv, ChainAssumption, SequenceUnique, Next
  PROVE  /\ SequenceUnique'
         /\ \A x \in haveData : nSequenceId'[x] = nSequenceId[x]
<1>0. /\ haveData \subseteq mapBlockIndex /\ mapBlockIndex \subseteq Block
      /\ nSequenceId \in [Block -> Nat]
  BY DEF TInv, TypeOK
<1>1. CASE UNCHANGED dataVars  BY <1>1 DEF dataVars, SequenceUnique
<1>2. ASSUME NEW b \in Arriving, NEW prev \in haveData, NEW work \in Work,
             NEW ptr \in (mapBlockIndex \X Slot) \cup {NoPointer},
             AcceptBlock(b, prev, work, ptr)
      PROVE  /\ SequenceUnique'
             /\ \A x \in haveData : nSequenceId'[x] = nSequenceId[x]
  <2>1. b \in Block \ haveData  BY DEF Arriving
  <2>2. /\ haveData' = haveData \cup {b}
        /\ nSequenceId' = [nSequenceId EXCEPT ![b] = Cardinality(haveData)]
    BY <1>2 DEF AcceptBlock, ReceivedBlockTransactions
  <2>3. IsFiniteSet(haveData)
    <3>1. IsFiniteSet(Block)  BY FS_Interval DEF Block, ChainAssumption
    <3>. QED  BY <1>0, <3>1, FS_Subset
  <2>4. Cardinality(haveData') = Cardinality(haveData) + 1 /\ Cardinality(haveData) \in Nat
    BY <2>1, <2>2, <2>3, FS_AddElement, FS_CardinalityType
  <2>5. /\ nSequenceId'[b] = Cardinality(haveData)
        /\ \A x \in haveData : nSequenceId'[x] = nSequenceId[x] /\ nSequenceId[x] \in Nat
    BY <1>0, <2>1, <2>2
  <2>6. \A x \in haveData : nSequenceId[x] < Cardinality(haveData)  BY DEF SequenceUnique
  <2>7. \A x, y \in haveData' : nSequenceId'[x] = nSequenceId'[y] => x = y
    <3> SUFFICES ASSUME NEW x \in haveData', NEW y \in haveData', nSequenceId'[x] = nSequenceId'[y]
                 PROVE  x = y
      OBVIOUS
    <3>1. CASE x \in haveData /\ y \in haveData  BY <2>5, <3>1 DEF SequenceUnique
    <3>2. CASE x = b \/ y = b  BY <2>2, <2>4, <2>5, <2>6, <3>2
    <3>. QED  BY <2>2, <3>1, <3>2
  <2>8. \A x \in haveData' : nSequenceId'[x] < Cardinality(haveData')
    BY <2>2, <2>4, <2>5, <2>6
  <2>. QED  BY <2>5, <2>7, <2>8 DEF SequenceUnique
<1>3. ASSUME ~UNCHANGED dataVars
      PROVE  \E b \in Arriving, prev \in haveData, work \in Work,
                ptr \in (mapBlockIndex \X Slot) \cup {NoPointer} :
                AcceptBlock(b, prev, work, ptr)
  BY <1>3 DEF Next, ReceiveBlock, AcceptBlockRefused, AcceptBlockInvalid, ActivateBestChain,
     FindMostWorkChain, DisconnectTip, ConnectTip, ConnectTipBadStake, ConnectTipRejected,
     InvalidBlockFound, InvalidateBlock, ReconsiderBlock, DisconnectBlocksAndReprocess
<1>. QED  BY <1>1, <1>2, <1>3

\* A block that arrives has a pointer of the active chain.
LEMMA ReceiveDInv ==
  ASSUME TInv, TInv', ChainAssumption, DInv, ReceiveBlock
  PROVE  DInv'
<1>0. /\ TypeOK /\ IndexIsTree /\ haveData \subseteq mapBlockIndex /\ tip \in haveData
      /\ setBlockIndexCandidates \subseteq haveData /\ mapBlockIndex \subseteq Block
      /\ SequenceUnique /\ WorkClimbs
  BY DEF TInv, TypeOK, DInv
<1>1. PICK b \in Arriving, prev \in haveData, work \in Work,
           ptr \in (mapBlockIndex \X Slot) \cup {NoPointer} :
         \/ AcceptBlock(b, prev, work, ptr)
         \/ AcceptBlockRefused(b, prev, work, ptr)
         \/ AcceptBlockInvalid(b, prev, work, ptr)
  BY DEF ReceiveBlock
<1>2. b \in Block \ haveData  BY DEF Arriving
<1>3. ptr \in Pointer \cup {NoPointer}  BY <1>0 DEF Pointer
<1>4. AcceptableBlock(b, prev, work, ptr)
  BY <1>1 DEF AcceptBlock, AcceptBlockRefused, AcceptBlockInvalid, AcceptableBlock
<1>5. \A x \in mapBlockIndex : /\ nHeight'[x] = nHeight[x] /\ ancestor'[x] = ancestor[x]
                               /\ stakeSource'[x] = stakeSource[x]
  BY <1>0, <1>2, <1>3, <1>4, AcceptableKeepsTree
<1>6. WorkClimbs' /\ \A x \in mapBlockIndex : nChainWork'[x] = nChainWork[x]
  BY <1>0, <1>2, <1>3, <1>4, AcceptableKeepsWork
<1>7. /\ SequenceUnique' /\ \A x \in haveData : nSequenceId'[x] = nSequenceId[x]
  BY <1>0, NextSequence DEF Next
<1>8. /\ tip' = tip /\ pindexMostWork = NoBlock /\ pindexMostWork' = NoBlock
      /\ setBlockIndexCandidates \subseteq setBlockIndexCandidates'
      /\ setBlockIndexCandidates' \subseteq setBlockIndexCandidates \cup {b}
      /\ Failed \subseteq Failed'
  BY <1>1 DEF AcceptBlock, AcceptBlockRefused, AcceptBlockInvalid, ReceivedBlockTransactions,
     failVars, stepVars, Failed
<1>9. \A x, y \in haveData : Worse(x, y)' <=> Worse(x, y)
  BY <1>0, <1>6, <1>7 DEF Worse
<1>10. ChainOf(tip)' = ChainOf(tip)  BY <1>0, <1>5, <1>8 DEF ChainOf
<1>11. ASSUME NEW c \in Foremost', Failed' = {}
       PROVE  (tip \in ChainOf(c))' \/ PaidFrom(c, tip)'
  <2>1. CASE c \in setBlockIndexCandidates
    <3>1. c \in Foremost  BY <1>0, <1>8, <1>9, <1>11, <2>1 DEF Foremost
    <3>2. tip \in ChainOf(c) \/ PaidFrom(c, tip)  BY <1>8, <1>11, <3>1 DEF DInv
    <3>3. c \in mapBlockIndex  BY <1>0, <2>1
    <3>4. ChainOf(c)' = ChainOf(c)  BY <1>5, <3>3 DEF ChainOf
    <3>. QED  BY <1>5, <1>8, <1>10, <3>2, <3>3, <3>4 DEF PaidFrom
  <2>2. CASE c \notin setBlockIndexCandidates
    <3>1. c = b /\ setBlockIndexCandidates' # setBlockIndexCandidates
      BY <1>8, <1>11, <2>2 DEF Foremost
    <3>2. AcceptBlock(b, prev, work, ptr)
      BY <1>1, <3>1 DEF AcceptBlockRefused, AcceptBlockInvalid
    <3>3. (nHeight[b] > PoSStartHeight => CheckBlockProofPointer(b))'
      BY <3>2 DEF AcceptBlock
    <3>4. ASSUME (nHeight[b] > PoSStartHeight)'  PROVE stakeSource'[b][1] \in ChainOf(tip)'
      <4>1. /\ stakeSource'[b][1] \in mapBlockIndex'
            /\ Contains(stakeSource[b][1])'
        BY <3>3, <3>4 DEF CheckBlockProofPointer
      <4>2. stakeSource'[b][1] # NoBlock
        <5>1. mapBlockIndex' \subseteq Block  BY DEF TInv, TypeOK
        <5>2. \A x \in Block : x # NoBlock  BY DEF Block, NoBlock
        <5>. QED  BY <4>1, <5>1, <5>2
      <4>. QED  BY <4>1, <4>2 DEF Contains, GetAncestor, ChainOf
    <3>. QED  BY <3>1, <3>4 DEF PaidFrom
  <2>. QED  BY <2>1, <2>2
<1>. QED  BY <1>6, <1>7, <1>8, <1>11 DEF DInv

\* The foremost candidate is the only one.
LEMMA OneForemost ==
  ASSUME TypeOK, SequenceUnique, NEW a \in Foremost, NEW b \in Foremost
  PROVE  a = b
<1>1. a \in haveData /\ b \in haveData /\ a \in Block /\ b \in Block  BY DEF TypeOK, Foremost
<1>2. ~Worse(a, b) /\ ~Worse(b, a)  BY DEF Foremost
<1>3. /\ nChainWork[a] \in Nat /\ nChainWork[b] \in Nat
      /\ nSequenceId[a] \in Nat /\ nSequenceId[b] \in Nat
  BY <1>1 DEF TypeOK
<1>4. nSequenceId[a] = nSequenceId[b]  BY <1>2, <1>3 DEF Worse
<1>. QED  BY <1>1, <1>4 DEF SequenceUnique

\* The steps of an activation that meets no failed block.
LEMMA ActivationDInv ==
  ASSUME TInv, TInv', ChainAssumption, DInv, ActivateBestChain, Failed = {}, Failed' = {}
  PROVE  DInv'
<1>0. /\ TypeOK /\ IndexIsTree /\ haveData \subseteq mapBlockIndex /\ tip \in haveData
      /\ setBlockIndexCandidates \subseteq haveData /\ mapBlockIndex \subseteq Block
      /\ SequenceUnique /\ WorkClimbs /\ tip \in mapBlockIndex
  BY DEF TInv, TypeOK, DInv
<1>1. SequenceUnique'  BY <1>0, NextSequence DEF Next
<1>2. WorkClimbs'  BY <1>0, NextWork DEF Next
<1>3. CASE FindMostWorkChain
  <2>1. /\ \A c : Usable(c)
        /\ BestCandidates = Foremost
    BY DEF Usable, BestCandidates, Foremost
  <2>2. /\ UNCHANGED <<treeVars, dataVars>> /\ tip' = tip /\ pindexMostWork = NoBlock
        /\ setBlockIndexCandidates' = setBlockIndexCandidates
        /\ \/ UNCHANGED stepVars
           \/ pindexMostWork' \in Foremost /\ pindexOldTip' = tip
    BY <1>3, <2>1 DEF FindMostWorkChain
  <2>3. /\ Foremost' = Foremost
        /\ \A x, y : (PaidFrom(x, y)' <=> PaidFrom(x, y)) /\ ChainOf(x)' = ChainOf(x)
    BY <2>2 DEF Foremost, Worse, PaidFrom, ChainOf, treeVars, dataVars
  <2>4. \A b \in Foremost : tip \in ChainOf(b) \/ PaidFrom(b, tip)  BY <2>2 DEF DInv
  <2>5. CASE UNCHANGED stepVars
    <3>1. pindexMostWork' = NoBlock  BY <2>2, <2>5 DEF stepVars
    <3>2. \A b \in Foremost' : (tip \in ChainOf(b))' \/ PaidFrom(b, tip)'
      <4>1. \A b : PaidFrom(b, tip)' <=> PaidFrom(b, tip)
        BY <2>2 DEF PaidFrom, ChainOf, treeVars
      <4>. QED  BY <2>2, <2>3, <2>4, <4>1
    <3>. QED  BY <1>1, <1>2, <3>1, <3>2 DEF DInv
  <2>6. CASE pindexMostWork' \in Foremost /\ pindexOldTip' = tip
    <3> DEFINE t == pindexMostWork'
    <3>1. t \in Foremost' /\ t # NoBlock
      <4>1. t \in Block  BY <1>0, <2>6 DEF Foremost
      <4>. QED  BY <2>3, <2>6, <4>1 DEF Block, NoBlock
    <3>2. tip \in ChainOf(t) \/ PaidFrom(t, tip)  BY <2>4, <2>6
    <3>3. ChainOf(pindexMostWork)' = ChainOf(t)  BY <2>2 DEF ChainOf, treeVars
    <3>4. PaidFrom(pindexMostWork, pindexOldTip)' <=> PaidFrom(t, tip)
      BY <2>2, <2>6 DEF PaidFrom, ChainOf, treeVars
    <3>. QED  BY <1>1, <1>2, <2>2, <2>6, <3>1, <3>2, <3>3, <3>4 DEF DInv
  <2>. QED  BY <2>2, <2>5, <2>6
<1>4. ASSUME pindexMostWork # NoBlock
      PROVE  /\ pindexMostWork \in Foremost /\ pindexMostWork \in mapBlockIndex
             /\ pindexMostWork \in haveData /\ nHeight[pindexMostWork] \in Nat
             /\ \/ tip = pindexOldTip /\ tip \in ChainOf(pindexMostWork)
                \/ PaidFrom(pindexMostWork, pindexOldTip)
  BY <1>0, <1>4 DEF DInv, Foremost, TypeOK
<1>5. CASE DisconnectTip
  <2>1. /\ UNCHANGED <<treeVars, dataVars>> /\ pindexMostWork # NoBlock
        /\ setBlockIndexCandidates' = setBlockIndexCandidates /\ pindexOldTip' = pindexOldTip
        /\ GetAncestor(pindexMostWork, nHeight[tip]) # tip /\ tip' = Prev(tip)
        /\ pindexMostWork' = IF Prev(tip) = pindexMostWork THEN NoBlock ELSE pindexMostWork
    BY <1>5 DEF DisconnectTip, DisconnectTo
  <2>2. /\ Foremost' = Foremost
        /\ \A x : ChainOf(x)' = ChainOf(x)
    BY <2>1 DEF Foremost, Worse, ChainOf, treeVars, dataVars
  <2>3. PaidFrom(pindexMostWork, pindexOldTip)
    <3>1. ASSUME tip \in ChainOf(pindexMostWork)  PROVE FALSE
      <4>1. /\ nHeight[tip] \in 0..nHeight[pindexMostWork]
            /\ ancestor[pindexMostWork][nHeight[tip]] = tip
        BY <1>0, <1>4, <2>1, <3>1, ChainOfChain
      <4>. QED  BY <2>1, <4>1 DEF GetAncestor
    <3>. QED  BY <1>4, <2>1, <3>1
  <2>4. CASE Prev(tip) = pindexMostWork
    <3>1. /\ pindexMostWork' = NoBlock /\ tip' = pindexMostWork  BY <2>1, <2>4
    <3>2. ASSUME NEW b \in Foremost'  PROVE (tip \in ChainOf(b))'
      <4>1. b = pindexMostWork  BY <1>0, <1>4, <2>1, <2>2, <3>2, OneForemost
      <4>2. tip' \in ChainOf(b)  BY <1>0, <1>4, <2>1, <3>1, <4>1, BlockInChain
      <4>. QED  BY <2>2, <4>2
    <3>. QED  BY <1>1, <1>2, <3>1, <3>2 DEF DInv
  <2>5. CASE Prev(tip) # pindexMostWork
    <3>1. pindexMostWork' = pindexMostWork  BY <2>1, <2>5
    <3>2. PaidFrom(pindexMostWork, pindexOldTip)'
      BY <2>1, <2>3, <3>1 DEF PaidFrom, ChainOf, treeVars
    <3>3. pindexMostWork' \in Foremost'  BY <1>4, <2>1, <2>2, <3>1
    <3>. QED  BY <1>1, <1>2, <2>1, <3>1, <3>2, <3>3 DEF DInv
  <2>. QED  BY <2>4, <2>5
<1>6. ASSUME NEW b \in Block, ConnectTip(b)  PROVE DInv'
  <2> DEFINE t == pindexMostWork
  <2>1. /\ UNCHANGED <<treeVars, dataVars>> /\ Connecting(b) /\ tip' = b
        /\ setBlockIndexCandidates' = {c \in setBlockIndexCandidates : ~Worse(c, b)}
        /\ pindexOldTip' = pindexOldTip
        /\ t' = IF b = t \/ nChainWork[b] > nChainWork[pindexOldTip] THEN NoBlock ELSE t
    BY <1>6 DEF ConnectTip, PruneBlockIndexCandidates
  <2>2. t # NoBlock  BY <2>1 DEF Connecting
  <2>3. /\ b \in mapBlockIndex /\ nHeight[b] = nHeight[tip] + 1 /\ Prev(b) = tip
        /\ b \in ChainOf(t)
    BY <1>0, <2>1, ConnectingNext
  <2>4. /\ t \in Block /\ nChainWork[b] \in Nat /\ nChainWork[t] \in Nat
        /\ nSequenceId[b] \in Nat /\ nSequenceId[t] \in Nat /\ nHeight[tip] \in Nat
        /\ nChainWork[tip] \in Nat
    BY <1>0, <1>4, <2>2, <2>3 DEF TypeOK
  <2>5. ~Worse(t, b)
    <3>1. nHeight[b] \in 0..nHeight[t] /\ ancestor[t][nHeight[b]] = b
      BY <1>0, <1>4, <2>2, <2>3, ChainOfChain
    <3>2. CASE nHeight[b] = nHeight[t]
      <4>1. ancestor[t][nHeight[t]] = t  BY <1>0, <1>4, <2>2 DEF IndexIsTree
      <4>. QED  BY <2>4, <3>1, <3>2, <4>1 DEF Worse
    <3>3. CASE nHeight[b] # nHeight[t]
      <4>1. nHeight[b] \in 0..nHeight[t] - 1  BY <1>4, <2>2, <3>1, <3>3
      <4>2. nChainWork[b] < nChainWork[t]  BY <1>0, <1>4, <2>2, <3>1, <4>1 DEF WorkClimbs
      <4>. QED  BY <2>4, <4>2 DEF Worse
    <3>. QED  BY <3>2, <3>3
  <2>6. t \in Foremost'
    <3>1. t \in setBlockIndexCandidates /\ \A d \in setBlockIndexCandidates : ~Worse(t, d)
      BY <1>4, <2>2 DEF Foremost
    <3>2. \A x, y : Worse(x, y)' <=> Worse(x, y)  BY <2>1 DEF Worse, treeVars, dataVars
    <3>. QED  BY <2>1, <2>5, <3>1, <3>2 DEF Foremost
  <2>7. \A x : ChainOf(x)' = ChainOf(x)  BY <2>1 DEF ChainOf, treeVars
  <2>8. CASE b = t \/ nChainWork[b] > nChainWork[pindexOldTip]
    <3>1. t' = NoBlock  BY <2>1, <2>8
    <3>2. ASSUME NEW c \in Foremost'  PROVE (tip \in ChainOf(c))'
      <4>1. \A x \in Foremost' : x \in setBlockIndexCandidates' BY DEF Foremost
      <4>2. \A x, y \in Foremost' : x = y
        <5> SUFFICES ASSUME NEW x \in Foremost', NEW y \in Foremost' PROVE x = y  OBVIOUS
        <5>1. x \in haveData' /\ y \in haveData' /\ x \in Block /\ y \in Block
          BY <4>1 DEF TInv, TypeOK
        <5>2. ~Worse(x, y)' /\ ~Worse(y, x)'  BY DEF Foremost
        <5>3. /\ nChainWork'[x] \in Nat /\ nChainWork'[y] \in Nat
              /\ nSequenceId'[x] \in Nat /\ nSequenceId'[y] \in Nat
          BY <5>1 DEF TInv, TypeOK
        <5>4. nSequenceId'[x] = nSequenceId'[y]  BY <5>2, <5>3 DEF Worse
        <5>. QED  BY <1>1, <5>1, <5>4 DEF SequenceUnique
      <4>3. c = t  BY <2>6, <3>2, <4>2
      <4>. QED  BY <2>1, <2>3, <2>7, <4>3
    <3>. QED  BY <1>1, <1>2, <3>1, <3>2 DEF DInv
  <2>9. CASE ~(b = t \/ nChainWork[b] > nChainWork[pindexOldTip])
    <3>1. t' = t  BY <2>1, <2>9
    <3>2. tip # pindexOldTip
      <4>1. nHeight[tip] \in 0..nHeight[b] - 1 /\ ancestor[b][nHeight[tip]] = tip
        BY <2>3, <2>4 DEF Prev
      <4>2. nChainWork[tip] < nChainWork[b]  BY <1>0, <2>3, <4>1 DEF WorkClimbs
      <4>. QED  BY <2>4, <2>9, <4>2
    <3>3. PaidFrom(t, pindexOldTip)  BY <1>4, <2>2, <3>2
    <3>4. PaidFrom(pindexMostWork, pindexOldTip)'
      BY <2>1, <3>1, <3>3 DEF PaidFrom, ChainOf, treeVars
    <3>5. pindexMostWork' \in Foremost'  BY <2>6, <3>1
    <3>. QED  BY <1>1, <1>2, <2>2, <3>1, <3>4, <3>5 DEF DInv
  <2>. QED  BY <2>8, <2>9
<1>7. ASSUME NEW b \in Block, ConnectTipBadStake(b) \/ ConnectTipRejected(b)  PROVE FALSE
  BY <1>7 DEF ConnectTipBadStake, ConnectTipRejected, InvalidBlockFound, Failed
<1>. QED  BY <1>3, <1>5, <1>6, <1>7 DEF ActivateBestChain

LEMMA InitDInv ==
  ASSUME Init, ChainAssumption
  PROVE  DInv
<1>1. IInv /\ TypeOK  BY InitIInv DEF IInv, TInv
<1>2. WorkClimbs  BY <1>1, InitBInv DEF BInv
<1>3. /\ haveData = 0..InitHeight /\ InitHeight \in Nat /\ 0..InitHeight \subseteq Block
      /\ \A b \in 0..InitHeight : nSequenceId[b] = b
  <2>1. InitHeight \in 0..MaxBlock /\ MaxBlock \in Nat  BY DEF ChainAssumption
  <2>2. 0..InitHeight \subseteq Block  BY <2>1 DEF Block
  <2>. QED  BY <2>1, <2>2 DEF Init
<1>4. Cardinality(haveData) = InitHeight + 1  BY <1>3, FS_Interval
<1>5. SequenceUnique  BY <1>3, <1>4 DEF SequenceUnique
<1>6. \A b \in Foremost : tip \in ChainOf(b)
  <2>1. tip \in ChainOf(tip)
    <3>1. tip \in mapBlockIndex /\ IndexIsTree  BY <1>1 DEF TypeOK, IInv, TInv
    <3>. QED  BY <1>1, <3>1, BlockInChain
  <2>2. \A b \in Foremost : b = tip  BY DEF Foremost, Init
  <2>. QED  BY <2>1, <2>2
<1>7. pindexMostWork = NoBlock  BY DEF Init
<1>. QED  BY <1>2, <1>5, <1>6, <1>7 DEF DInv

LEMMA NextDInv ==
  ASSUME TInv, TInv', ChainAssumption, DInv, [Next]_vars,
         "reconsider" \notin Interventions, "reprocess" \notin Interventions
  PROVE  DInv'
<1>1. CASE UNCHANGED vars
  BY <1>1 DEF vars, treeVars, dataVars, failVars, stepVars, DInv, SequenceUnique, WorkClimbs,
     Failed, Foremost, Worse, PaidFrom, ChainOf
<1>2. CASE Next
  <2>1. SequenceUnique' /\ WorkClimbs'  BY <1>2, NextSequence, NextWork DEF DInv
  <2>2. CASE Failed' # {}  BY <2>1, <2>2 DEF DInv
  <2>3. CASE Failed' = {}
    <3>1. CASE ReceiveBlock  BY <3>1, ReceiveDInv
    <3>2. CASE ActivateBestChain
      <4>1. Failed \subseteq Failed'
        BY <3>2 DEF ActivateBestChain, FindMostWorkChain, DisconnectTip, ConnectTip,
           ConnectTipBadStake, ConnectTipRejected, InvalidBlockFound, Failed, failVars
      <4>. QED  BY <2>3, <3>2, <4>1, ActivationDInv
    <3>3. ASSUME NEW b \in Block, InvalidateBlock(b)  PROVE FALSE
      BY <2>3, <3>3 DEF InvalidateBlock, Failed
    <3>4. ASSUME NEW b \in Block, ReconsiderBlock(b)  PROVE FALSE
      BY <3>4 DEF ReconsiderBlock, Intervene
    <3>5. ASSUME NEW n \in ReprocessDepth, DisconnectBlocksAndReprocess(n)  PROVE FALSE
      BY <3>5 DEF DisconnectBlocksAndReprocess, Intervene
    <3>. QED  BY <1>2, <3>1, <3>2, <3>3, <3>4, <3>5 DEF Next
  <2>. QED  BY <2>2, <2>3
<1>. QED  BY <1>1, <1>2

\* The step that reaches its target.
LEMMA ReachesWithinWindow ==
  ASSUME TInv, TInv', ChainAssumption, DInv, Next, pindexMostWork # NoBlock,
         tip' = pindexMostWork, Failed' = {}, nHeight[tip'] > PoSStartHeight
  PROVE  \E x \in ChainOf(pindexOldTip) \cap ChainOf(tip') :
           nHeight[x] >= nHeight[tip'] - ValidStakePointerDuration
<1> DEFINE t == pindexMostWork
<1>0. /\ TypeOK /\ IndexIsTree /\ t \in mapBlockIndex /\ nHeight[t] \in Nat
      /\ PoSStartHeight \in Nat /\ MaxReorganizationDepth \in Nat \ {0}
      /\ ValidStakePointerDuration \in Nat
  BY DEF TInv, TypeOK, ChainAssumption
<1>1. DisconnectTip \/ \E b \in Block : ConnectTip(b)
  BY DEF Next, ReceiveBlock, AcceptBlock, AcceptBlockRefused, AcceptBlockInvalid,
     ActivateBestChain, FindMostWorkChain, ConnectTipBadStake, ConnectTipRejected,
     InvalidBlockFound, Failed, InvalidateBlock, ReconsiderBlock,
     DisconnectBlocksAndReprocess, Intervene
<1>2. UNCHANGED treeVars /\ Failed = {}
  BY <1>1 DEF DisconnectTip, ConnectTip, Failed, failVars
<1>3. \/ tip = pindexOldTip /\ tip \in ChainOf(t)
      \/ PaidFrom(t, pindexOldTip)
  BY <1>2 DEF DInv
<1>4. PICK h \in 0..nHeight[t] :
        /\ stakeSource[t][1] = ancestor[t][h]
        /\ nHeight[t] - ValidStakePointerDuration <= h
        /\ h <= nHeight[t] - MaxReorganizationDepth
  <2>1. t \in ActiveChain'
    <3>1. t \in ChainOf(t)  BY <1>0, BlockInChain
    <3>. QED  BY <1>2, <3>1 DEF ActiveChain, ChainOf, treeVars
  <2>2. ActiveStakeSourcesMature'  BY DEF TInv
  <2>. QED  BY <1>0, <1>2, <2>1, <2>2 DEF ActiveStakeSourcesMature, treeVars
<1>5. nHeight[ancestor[t][h]] = h /\ ancestor[t][h] \in ChainOf(t)
  BY <1>0 DEF IndexIsTree, ChainOf
<1>6. CASE PaidFrom(t, pindexOldTip)  BY <1>4, <1>5, <1>6 DEF PaidFrom
<1>7. CASE tip = pindexOldTip /\ tip \in ChainOf(t)
  <2>1. nHeight[tip] \in 0..nHeight[t] /\ ancestor[t][nHeight[tip]] = tip
    BY <1>0, <1>7, ChainOfChain
  <2>2. ~DisconnectTip  BY <2>1 DEF DisconnectTip, GetAncestor
  <2>3. PICK b \in Block : ConnectTip(b)  BY <1>1, <2>2
  <2>4. Connecting(b) /\ b = t  BY <2>3 DEF ConnectTip
  <2>5. nHeight[t] = nHeight[tip] + 1  BY <1>0, <2>4, ConnectingNext
  <2>6. h \in 0..nHeight[tip]  BY <1>0, <1>4, <2>1, <2>5
  <2>7. ChainOf(tip) = {ancestor[t][k] : k \in 0..nHeight[tip]}
    BY <1>0, <2>1, ChainOfAncestor
  <2>8. ancestor[t][h] \in ChainOf(pindexOldTip)  BY <1>7, <2>6, <2>7
  <2>. QED  BY <1>4, <1>5, <2>8
<1>. QED  BY <1>3, <1>6, <1>7

\* CheckBlockProofPointer looks for the payment in the active chain, when a block
\* is stored (AcceptBlock) and when it is connected (ConnectBlock); between the
\* two the chain changes.  While no block has failed, both chains have the
\* payment, and so no target is further than ValidStakePointerDuration above the
\* fork, for all works of blocks.  A replay or reconsiderblock puts the node on a
\* chain that no pointer was checked against, and so does a failed activation.
THEOREM ReorgsAreShallow ==
  ASSUME "reconsider" \notin Interventions, "reprocess" \notin Interventions
  PROVE  Spec => ReorgWithinPointerWindow
<1> DEFINE Inv == IInv /\ DInv
<1>1. Init => Inv  BY InitIInv, InitDInv, ChainAssumption
<1>2. Inv /\ [Next]_vars => Inv'
  <2> SUFFICES ASSUME IInv, DInv, [Next]_vars  PROVE IInv' /\ DInv'  OBVIOUS
  <2>1. IInv' /\ TInv /\ TInv'  BY NextIInv, ChainAssumption DEF IInv
  <2>. QED  BY <2>1, NextDInv, ChainAssumption
<1>3. Inv /\ Inv' /\ [Next]_vars =>
        [(/\ pindexMostWork # NoBlock /\ tip' = pindexMostWork
          /\ Failed' = {} /\ nHeight[tip'] > PoSStartHeight)
         => \E x \in ChainOf(pindexOldTip) \cap ChainOf(tip') :
              nHeight[x] >= nHeight[tip'] - ValidStakePointerDuration]_vars
  BY ReachesWithinWindow, ChainAssumption DEF IInv
<1>. QED  BY <1>1, <1>2, <1>3, PTL DEF Spec, ReorgWithinPointerWindow
=============================================================================
