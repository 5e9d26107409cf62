-------------------------- MODULE NfTokens_proofs --------------------------
(***************************************************************************)
(* Proofs about NfTokens, for every set of protocols and tokens, every      *)
(* content of blocks and every tree.                                       *)
(*                                                                         *)
(* The inductive invariant adds to the properties what the tree and the    *)
(* disk must be like: a chain is that of the parent and the block (Tree),  *)
(* the indexes hold whole chains (Closed), the chain of the coins on disk  *)
(* registers no item twice (DiskDistinct), and until a block is applied in *)
(* part it is valid (DiskDecisions) and, while the node is down, it is what *)
(* the platform database holds (DownExact).  What a start has to recover   *)
(* from the chain alone is claimed only when it can (Recovers).            *)
(***************************************************************************)
EXTENDS NfTokens, FiniteSetTheorems, TLAPS

\* Heights climb along a chain.
Climb == \A b \in 0 .. nBlocks : \A a \in chain[b] : nHeight[a] <= nHeight[b]

Tree ==
  /\ chain[0] = {0} /\ vtx[0] = <<>> /\ Climb
  /\ \A b \in 1 .. nBlocks :
       /\ pprev[b] \in 0 .. (b - 1)
       /\ chain[b] = chain[pprev[b]] \cup {b}
  /\ \A b \in 0 .. nBlocks : chain[b] \subseteq 0 .. b /\ b \in chain[b] /\ nHeight[b] \in 0 .. b

Closed ==
  /\ 0 \in mapBlockIndex \ failed /\ 0 \in diskIndex \ diskFailed
  /\ running => diskIndex \subseteq mapBlockIndex
  /\ \A b \in mapBlockIndex : chain[b] \subseteq mapBlockIndex
  /\ \A b \in diskIndex : chain[b] \subseteq diskIndex

\* A start finds all items of the chain of the coins again: in the platform
\* database, if no block was applied in part, or else because it verifies the
\* whole chain.
Recovers == ~partlyApplied \/ CheckBlocks >= MaxBlock

ItemsKnown == Recovers => ActiveItemsKnown

DiskDistinct ==
  Recovers => \A a, b \in chain[diskBest] : \A i \in Items(a) : i \in Items(b) => a = b

DownExact ==
  ~running /\ ~partlyApplied =>
    /\ \A i \in Item : dbIndex[i] # NoBlock =>
         dbIndex[i] \in chain[diskBest] /\ i \in Items(dbIndex[i])
    /\ \A b \in chain[diskBest] : \A i \in Items(b) : dbIndex[i] = b

DiskDecisions ==
  ~partlyApplied =>
    /\ \A b \in chain[diskBest] \ {0} : ValidInChain(b)
    /\ \A b \in diskFailed : ~ValidInChain(b)

IInv ==
  /\ TypeOK /\ Tree /\ Closed
  /\ ItemsKnown /\ DatabaseInMemory /\ DiskDistinct
  /\ RecordExact /\ DownExact
  /\ DecisionsFollowChain /\ DiskDecisions

(***************************************************************************)
(* Counters, and what does not depend on the step.                         *)
(***************************************************************************)

\* The items of a block are items.
LEMMA ItemsAreItems ==
  ASSUME NfTokensAssumption, TypeOK, NEW b \in Block
  PROVE  Items(b) \subseteq Item /\ vtx[b] \in Seq(Item)
<1>1. vtx[b] \in Seq(Item)
  <2>1. vtx[b] \in TxLists \cup {<<>>}  BY DEF TypeOK
  <2>2. <<>> \in Seq(Item)  OBVIOUS
  <2>. QED  BY <2>1, <2>2 DEF NfTokensAssumption
<1>. QED  BY <1>1 DEF Items

\* A count of items is a natural number.
LEMMA CountedIsNat ==
  ASSUME NfTokensAssumption, NEW S \in SUBSET Item, NEW c
  PROVE  Counted(S, c) \in Nat
<1>1. IsFiniteSet(Item)  BY FS_Union DEF NfTokensAssumption, Item
<1>2. IsFiniteSet({i \in S : c \in CountedBy(i)})
  <2>1. {i \in S : c \in CountedBy(i)} \subseteq Item  OBVIOUS
  <2>. QED  BY <1>1, <2>1, FS_Subset
<1>. QED  BY <1>2, FS_CardinalityType DEF Counted

\* The operations on counters yield counters.
LEMMA CountersType ==
  ASSUME NfTokensAssumption, NEW S \in SUBSET Item,
         NEW f \in [Counter -> Int], NEW g \in [Counter -> Int], NEW C
  PROVE  /\ Increased(f, S) \in [Counter -> Int]
         /\ Decreased(f, S) \in [Counter -> Int]
         /\ Written(f, g, C) \in [Counter -> Int]
<1>1. \A c : Counted(S, c) \in Nat  BY CountedIsNat
<1>2. Increased(f, S) \in [Counter -> Int]  BY <1>1 DEF Increased
<1>3. Decreased(f, S) \in [Counter -> Int]  BY <1>1 DEF Decreased
<1>4. Written(f, g, C) \in [Counter -> Int]  BY DEF Written
<1>. QED  BY <1>2, <1>3, <1>4

\* A step that adds no block leaves chains, items and validity as they are.
LEMMA TreeFrame ==
  ASSUME UNCHANGED treeVars
  PROVE  /\ \A b : Items(b)' = Items(b)
         /\ \A b : ValidInChain(b)' = ValidInChain(b)
         /\ Tree => Tree'
         /\ nBlocks' = nBlocks /\ pprev' = pprev /\ chain' = chain
         /\ nHeight' = nHeight /\ vtx' = vtx /\ payable' = payable
<1>1. /\ nBlocks' = nBlocks /\ pprev' = pprev /\ chain' = chain
      /\ nHeight' = nHeight /\ vtx' = vtx /\ payable' = payable
  BY DEF treeVars
<1>2. \A b : Items(b)' = Items(b)  BY <1>1 DEF Items
<1>3. \A b : RegisteredBy(b)' = RegisteredBy(b)  BY <1>1 DEF RegisteredBy, Items
<1>4. \A b : ValidInChain(b)' = ValidInChain(b)
  BY <1>1 DEF ValidInChain, RegisteredBy, Items
<1>5. Tree => Tree'  BY <1>1 DEF Tree, Climb
<1>. QED  BY <1>1, <1>2, <1>4, <1>5

\* What the tree says of the block above the tip.
LEMMA ChainAbove ==
  ASSUME NfTokensAssumption, IInv, NEW b \in 1 .. nBlocks
  PROVE  /\ b \in Block /\ pprev[b] \in 0 .. nBlocks /\ pprev[b] # b
         /\ chain[b] = chain[pprev[b]] \cup {b}
         /\ b \notin chain[pprev[b]]
         /\ \A a \in chain[b] : a \in 0 .. nBlocks /\ a \in Block
<1>1. nBlocks \in 0 .. MaxBlock  BY DEF IInv, TypeOK, Block
<1>2. /\ pprev[b] \in 0 .. (b - 1)
      /\ chain[b] = chain[pprev[b]] \cup {b}
  BY DEF IInv, Tree
<1>3. pprev[b] \in 0 .. nBlocks /\ pprev[b] < b  BY <1>1, <1>2
<1>4. chain[pprev[b]] \subseteq 0 .. pprev[b] /\ chain[b] \subseteq 0 .. b
  BY <1>1, <1>3 DEF IInv, Tree
<1>5. 0 .. b \subseteq 0 .. nBlocks /\ 0 .. nBlocks \subseteq Block
  BY <1>1 DEF NfTokensAssumption, Block
<1>6. b \notin 0 .. pprev[b]  BY <1>3
<1>7. b \in Block /\ pprev[b] # b  BY <1>3, <1>5
<1>. QED  BY <1>2, <1>3, <1>4, <1>5, <1>6, <1>7

\* As long as no block was applied in part, ConnectBlock decides as the chain
\* says.
LEMMA ConnectsIffValid ==
  ASSUME NfTokensAssumption, IInv, running, ~partlyApplied,
         NEW b \in 1 .. nBlocks, pprev[b] = tip
  PROVE  Connects(b) <=> ValidInChain(b)
<1>1. /\ TypeOK /\ b \in Block /\ Items(b) \subseteq Item
  BY ChainAbove, ItemsAreItems DEF IInv
<1>2. \A j \in DOMAIN vtx[b] : vtx[b][j] \in Item  BY <1>1 DEF Items
<1>3. \A a \in chain[tip] : a \in Block /\ a # NoBlock /\ \A i \in Items(a) : m_indexSet[i] = a
  <2>1. \A a \in chain[tip] : a \in Block  BY ChainAbove
  <2>2. \A a \in Block : a # NoBlock  BY DEF Block, NoBlock
  <2>3. Recovers  BY DEF Recovers
  <2>. QED  BY <2>1, <2>2, <2>3 DEF IInv, ItemsKnown, ActiveItemsKnown, ActiveChain
<1>4. \A i \in Item : m_indexSet[i] # NoBlock =>
         m_indexSet[i] \in chain[tip] /\ i \in Items(m_indexSet[i])
  BY DEF IInv, RecordExact, ActiveChain
<1>5. \A i \in Item : m_indexSet[i] = NoBlock <=> i \notin RegisteredBy(tip)
  BY <1>3, <1>4 DEF RegisteredBy
<1>6. \A j \in DOMAIN vtx[b] : vtx[b][j] \in Token => ProtoOf[vtx[b][j]] \in Item
  BY DEF NfTokensAssumption, Item
<1>7. ASSUME NEW j \in DOMAIN vtx[b], vtx[b][j] \in Token
      PROVE  (LET proto == m_indexSet[ProtoOf[vtx[b][j]]] IN
              proto # NoBlock /\ nHeight[b] - nHeight[proto] >= TX_CONFIRMATIONS_NUM)
             <=> (\E a \in chain[tip] :
                    /\ ProtoOf[vtx[b][j]] \in Items(a)
                    /\ nHeight[b] - nHeight[a] >= TX_CONFIRMATIONS_NUM)
  BY <1>3, <1>4, <1>6, <1>7
<1>8. \A j \in DOMAIN vtx[b] :
        Accepts(b, j) <=>
          /\ vtx[b][j] \notin RegisteredBy(tip)
          /\ \A l \in 1 .. j - 1 : vtx[b][l] # vtx[b][j]
          /\ vtx[b][j] \in Token =>
               \E a \in chain[tip] :
                  /\ ProtoOf[vtx[b][j]] \in Items(a)
                  /\ nHeight[b] - nHeight[a] >= TX_CONFIRMATIONS_NUM
  BY <1>2, <1>5, <1>7 DEF Accepts
<1>. QED  BY <1>8 DEF Connects, ValidInChain

\* What ProcessSpecialTxsInBlock adds was not there before.
LEMMA AppliedIsNew ==
  ASSUME NfTokensAssumption, TypeOK, NEW b \in Block
  PROVE  /\ Applied(b) \subseteq Items(b)
         /\ \A i \in Applied(b) : m_indexSet[i] = NoBlock
         /\ Connects(b) => Applied(b) = Items(b)
<1>1. vtx[b] \in Seq(Item)  BY ItemsAreItems
<1>2. \A j \in DOMAIN vtx[b] : j \in 1 .. j /\ \A l \in 1 .. j : l \in DOMAIN vtx[b]
  BY <1>1
<1>3. Applied(b) \subseteq Items(b)  BY DEF Applied, Items
<1>4. ASSUME NEW i \in Applied(b) PROVE m_indexSet[i] = NoBlock
  <2>1. PICK j \in DOMAIN vtx[b] : vtx[b][j] = i /\ \A l \in 1 .. j : Accepts(b, l)
    BY <1>4 DEF Applied
  <2>. QED  BY <1>2, <2>1 DEF Accepts
<1>5. Connects(b) => Applied(b) = Items(b)  BY <1>2 DEF Connects, Applied, Items
<1>. QED  BY <1>3, <1>4, <1>5


(***************************************************************************)
(* The actions.                                                            *)
(***************************************************************************)

\* ConnectTip.
LEMMA ConnectKeeps ==
  ASSUME NfTokensAssumption, IInv, NEW b \in Block, ConnectTip(b)
  PROVE  IInv'
<1>1. /\ TypeOK /\ running /\ running' = running /\ partlyApplied' = partlyApplied
      /\ crashes' = crashes
      /\ b \in mapBlockIndex /\ b # 0 /\ pprev[b] = tip /\ Connects(b) /\ tip' = b
      /\ mapBlockIndex' = mapBlockIndex /\ failed' = failed
      /\ diskIndex' = diskIndex /\ diskFailed' = diskFailed /\ diskBest' = diskBest
      /\ UNCHANGED treeVars
  BY DEF IInv, ConnectTip, Connectable, diskVars
<1>2. b \in 1 .. nBlocks  BY <1>1 DEF TypeOK, Block
<1>3. /\ chain[b] = chain[tip] \cup {b} /\ b \notin chain[tip]
      /\ \A a \in chain[tip] : a \in Block
  BY <1>1, <1>2, ChainAbove
<1>4. /\ Items(b) \subseteq Item /\ Applied(b) = Items(b)
      /\ \A i \in Items(b) : m_indexSet[i] = NoBlock
  BY <1>1, ItemsAreItems, AppliedIsNew
<1>5. /\ m_indexSet' = [i \in Item |-> IF i \in Items(b) THEN b ELSE m_indexSet[i]]
      /\ m_totalSupply' = Increased(m_totalSupply, Items(b))
      /\ dbIndex' = [i \in Item |-> IF i \in Items(b) THEN b ELSE dbIndex[i]]
      /\ dbSupply' = Written(dbSupply, m_totalSupply', Stepped(Items(b)) \cup Items(b))
  BY <1>4 DEF ConnectTip, AddItems
<1>6. \A a \in Block : a # NoBlock  BY DEF Block, NoBlock
<1>7. /\ \A a : Items(a)' = Items(a) /\ ValidInChain(a)' = ValidInChain(a)
      /\ Tree' /\ nBlocks' = nBlocks /\ pprev' = pprev /\ chain' = chain
      /\ nHeight' = nHeight /\ vtx' = vtx /\ payable' = payable
  BY <1>1, TreeFrame DEF IInv
<1>8. TypeOK'
  <2>1. m_totalSupply' \in [Counter -> Int]
    BY <1>1, <1>4, <1>5, CountersType DEF TypeOK
  <2>2. dbSupply' \in [Counter -> Int]
    BY <1>1, <1>4, <1>5, <2>1, CountersType DEF TypeOK
  <2>3. /\ m_indexSet' \in [Item -> Block \cup {NoBlock}]
        /\ dbIndex' \in [Item -> Block \cup {NoBlock}]
    BY <1>1, <1>5 DEF TypeOK
  <2>. QED  BY <1>1, <1>7, <2>1, <2>2, <2>3 DEF TypeOK
<1>9. Closed'  BY <1>1, <1>7 DEF IInv, Closed
<1>10. ItemsKnown'
  <2>. SUFFICES ASSUME Recovers PROVE ActiveItemsKnown'
    BY <1>1 DEF ItemsKnown, Recovers
  <2>1. ASSUME NEW a \in chain[b], NEW i \in Items(a) PROVE m_indexSet'[i] = a
    <3>1. CASE a = b  BY <1>4, <1>5, <2>1, <3>1
    <3>2. CASE a \in chain[tip]
      <4>1. m_indexSet[i] = a /\ i \in Item
        BY <1>1, <1>3, <2>1, <3>2, ItemsAreItems
           DEF IInv, ItemsKnown, ActiveItemsKnown, ActiveChain
      <4>2. i \notin Items(b)  BY <1>3, <1>4, <1>6, <3>2, <4>1
      <4>. QED  BY <1>5, <4>1, <4>2
    <3>. QED  BY <1>3, <2>1, <3>1, <3>2
  <2>. QED  BY <1>1, <1>7, <2>1 DEF ActiveItemsKnown, ActiveChain
<1>11. DatabaseInMemory'
  BY <1>1, <1>5, <1>6 DEF IInv, DatabaseInMemory
<1>12. DiskDistinct' /\ DownExact' /\ DiskDecisions'
  BY <1>1, <1>7 DEF IInv, DiskDistinct, Recovers, DownExact, DiskDecisions
<1>13. RecordExact'
  <2>1. SUFFICES ASSUME ~partlyApplied
                 PROVE  /\ dbIndex' = m_indexSet'
                        /\ \A i \in Item : m_indexSet'[i] # NoBlock =>
                             m_indexSet'[i] \in chain[b] /\ i \in Items(m_indexSet'[i])
    BY <1>1, <1>7 DEF RecordExact, ActiveChain
  <2>2. /\ dbIndex = m_indexSet
        /\ \A i \in Item : m_indexSet[i] # NoBlock =>
             m_indexSet[i] \in chain[tip] /\ i \in Items(m_indexSet[i])
    BY <1>1, <2>1 DEF IInv, RecordExact, ActiveChain
  <2>. QED  BY <1>3, <1>5, <2>2
<1>14. DecisionsFollowChain'
  <2>1. SUFFICES ASSUME ~partlyApplied
                 PROVE  /\ \A a \in chain[b] \ {0} : ValidInChain(a)
                        /\ \A a \in failed : ~ValidInChain(a)
    BY <1>1, <1>7 DEF DecisionsFollowChain, ActiveChain
  <2>2. ValidInChain(b)  BY <1>1, <1>2, <2>1, ConnectsIffValid
  <2>3. /\ \A a \in chain[tip] \ {0} : ValidInChain(a)
        /\ \A a \in failed : ~ValidInChain(a)
    BY <1>1, <2>1 DEF IInv, DecisionsFollowChain, ActiveChain
  <2>. QED  BY <1>3, <2>2, <2>3
<1>. QED  BY <1>7, <1>8, <1>9, <1>10, <1>11, <1>12, <1>13, <1>14 DEF IInv

\* ConnectTip of a block that is refused.
LEMMA RefuseKeeps ==
  ASSUME NfTokensAssumption, IInv, NEW b \in Block, RefuseBlock(b)
  PROVE  IInv'
<1>1. /\ TypeOK /\ running /\ running' = running
      /\ partlyApplied' = (partlyApplied \/ Applied(b) # {})
      /\ crashes' = crashes
      /\ b \in mapBlockIndex /\ b # 0 /\ pprev[b] = tip /\ ~Connects(b) /\ tip' = tip
      /\ mapBlockIndex' = mapBlockIndex /\ failed' = failed \cup {b}
      /\ diskIndex' = diskIndex /\ diskFailed' = diskFailed /\ diskBest' = diskBest
      /\ dbIndex' = dbIndex /\ dbSupply' = dbSupply
      /\ UNCHANGED treeVars
  BY DEF IInv, RefuseBlock, Connectable, diskVars, dbVars
<1>2. b \in 1 .. nBlocks  BY <1>1 DEF TypeOK, Block
<1>3. \A a \in chain[tip] : a \in Block  BY <1>1, <1>2, ChainAbove
<1>4. /\ Applied(b) \subseteq Item
      /\ \A i \in Applied(b) : m_indexSet[i] = NoBlock
  BY <1>1, ItemsAreItems, AppliedIsNew
<1>5. /\ m_indexSet' = [i \in Item |-> IF i \in Applied(b) THEN b ELSE m_indexSet[i]]
      /\ m_totalSupply' = Increased(m_totalSupply, Applied(b))
  BY DEF RefuseBlock, AddItems
<1>6. \A a \in Block : a # NoBlock  BY DEF Block, NoBlock
<1>7. /\ \A a : Items(a)' = Items(a) /\ ValidInChain(a)' = ValidInChain(a)
      /\ Tree' /\ nBlocks' = nBlocks /\ pprev' = pprev /\ chain' = chain
      /\ nHeight' = nHeight /\ vtx' = vtx /\ payable' = payable
  BY <1>1, TreeFrame DEF IInv
<1>8. partlyApplied' \in BOOLEAN /\ (~partlyApplied' => ~partlyApplied /\ Applied(b) = {})
  BY <1>1
<1>9. TypeOK'
  <2>1. m_totalSupply' \in [Counter -> Int]
    BY <1>1, <1>4, <1>5, CountersType DEF TypeOK
  <2>2. m_indexSet' \in [Item -> Block \cup {NoBlock}]  BY <1>1, <1>5 DEF TypeOK
  <2>. QED  BY <1>1, <1>7, <1>8, <2>1, <2>2 DEF TypeOK
<1>10. Closed'  BY <1>1, <1>7 DEF IInv, Closed
<1>11. ItemsKnown'
  <2>. SUFFICES ASSUME Recovers PROVE ActiveItemsKnown'
    BY <1>1, <1>8 DEF ItemsKnown, Recovers
  <2>1. ASSUME NEW a \in chain[tip], NEW i \in Items(a) PROVE m_indexSet'[i] = a
    <3>1. m_indexSet[i] = a /\ i \in Item
      BY <1>1, <1>3, <2>1, ItemsAreItems
           DEF IInv, ItemsKnown, ActiveItemsKnown, ActiveChain
    <3>2. i \notin Applied(b)  BY <1>3, <1>4, <1>6, <2>1, <3>1
    <3>. QED  BY <1>5, <3>1, <3>2
  <2>. QED  BY <1>1, <1>7, <2>1 DEF ActiveItemsKnown, ActiveChain
<1>12. DatabaseInMemory'
  BY <1>1, <1>5, <1>6 DEF IInv, DatabaseInMemory
<1>13. DiskDistinct' /\ DownExact' /\ DiskDecisions'
  BY <1>1, <1>7, <1>8 DEF IInv, DiskDistinct, Recovers, DownExact, DiskDecisions
<1>14. RecordExact'
  <2>1. SUFFICES ASSUME ~partlyApplied'
                 PROVE  /\ dbIndex = m_indexSet'
                        /\ \A i \in Item : m_indexSet'[i] # NoBlock =>
                             m_indexSet'[i] \in chain[tip] /\ i \in Items(m_indexSet'[i])
    BY <1>1, <1>7 DEF RecordExact, ActiveChain
  <2>2. m_indexSet' = m_indexSet
    <3>1. m_indexSet \in [Item -> Block \cup {NoBlock}]  BY <1>1 DEF TypeOK
    <3>. QED  BY <1>5, <1>8, <2>1, <3>1
  <2>. QED  BY <1>1, <1>8, <2>1, <2>2 DEF IInv, RecordExact, ActiveChain
<1>15. DecisionsFollowChain'
  <2>1. SUFFICES ASSUME ~partlyApplied'
                 PROVE  /\ \A a \in chain[tip] \ {0} : ValidInChain(a)
                        /\ \A a \in failed \cup {b} : ~ValidInChain(a)
    BY <1>1, <1>7 DEF DecisionsFollowChain, ActiveChain
  <2>2. ~ValidInChain(b)  BY <1>1, <1>2, <1>8, <2>1, ConnectsIffValid
  <2>. QED  BY <1>1, <1>8, <2>1, <2>2 DEF IInv, DecisionsFollowChain, ActiveChain
<1>. QED  BY <1>7, <1>9, <1>10, <1>11, <1>12, <1>13, <1>14, <1>15 DEF IInv

\* DisconnectTip.
LEMMA DisconnectKeeps ==
  ASSUME NfTokensAssumption, IInv, DisconnectTip
  PROVE  IInv'
<1>1. /\ TypeOK /\ running /\ running' = running /\ partlyApplied' = partlyApplied
      /\ crashes' = crashes /\ tip # 0 /\ tip' = pprev[tip]
      /\ mapBlockIndex' = mapBlockIndex /\ failed' = failed
      /\ diskIndex' = diskIndex /\ diskFailed' = diskFailed /\ diskBest' = diskBest
      /\ UNCHANGED treeVars
  BY DEF IInv, DisconnectTip, diskVars
<1>2. tip \in 1 .. nBlocks /\ tip \in mapBlockIndex  BY <1>1 DEF TypeOK, Block
<1>3. /\ chain[tip] = chain[pprev[tip]] \cup {tip} /\ tip \notin chain[pprev[tip]]
      /\ tip \in Block /\ pprev[tip] \in 0 .. nBlocks
      /\ \A a \in chain[tip] : a \in Block
  BY <1>2, ChainAbove
<1>4. Items(tip) \subseteq Item  BY <1>1, <1>3, ItemsAreItems
<1>5. /\ m_indexSet' = [i \in Item |-> IF i \in Items(tip) THEN NoBlock ELSE m_indexSet[i]]
      /\ m_totalSupply' = Decreased(m_totalSupply, Items(tip))
      /\ dbIndex' = [i \in Item |-> IF i \in Items(tip) THEN NoBlock ELSE dbIndex[i]]
      /\ dbSupply' = Written(dbSupply, m_totalSupply', Stepped(Items(tip)))
  BY DEF DisconnectTip
<1>6. pprev[tip] \in mapBlockIndex
  <2>1. pprev[tip] \in chain[pprev[tip]]  BY <1>3 DEF IInv, Tree
  <2>. QED  BY <1>2, <1>3, <2>1 DEF IInv, Closed
<1>7. /\ \A a : Items(a)' = Items(a) /\ ValidInChain(a)' = ValidInChain(a)
      /\ Tree' /\ nBlocks' = nBlocks /\ pprev' = pprev /\ chain' = chain
      /\ nHeight' = nHeight /\ vtx' = vtx /\ payable' = payable
  BY <1>1, TreeFrame DEF IInv
<1>8. Recovers => \A a \in chain[tip] : \A i \in Items(a) : m_indexSet[i] = a
  BY <1>1 DEF IInv, ItemsKnown, ActiveItemsKnown, ActiveChain
<1>9. TypeOK'
  <2>1. m_totalSupply' \in [Counter -> Int]
    BY <1>1, <1>4, <1>5, CountersType DEF TypeOK
  <2>2. dbSupply' \in [Counter -> Int]
    BY <1>1, <1>4, <1>5, <2>1, CountersType DEF TypeOK
  <2>3. /\ m_indexSet' \in [Item -> Block \cup {NoBlock}]
        /\ dbIndex' \in [Item -> Block \cup {NoBlock}]
    BY <1>1, <1>5 DEF TypeOK
  <2>. QED  BY <1>1, <1>6, <1>7, <2>1, <2>2, <2>3 DEF TypeOK
<1>10. Closed'  BY <1>1, <1>7 DEF IInv, Closed
<1>11. ItemsKnown'
  <2>. SUFFICES ASSUME Recovers PROVE ActiveItemsKnown'
    BY <1>1 DEF ItemsKnown, Recovers
  <2>1. ASSUME NEW a \in chain[pprev[tip]], NEW i \in Items(a) PROVE m_indexSet'[i] = a
    <3>1. a \in chain[tip] /\ a # tip /\ i \in Item
      BY <1>1, <1>3, <2>1, ItemsAreItems
    <3>2. i \notin Items(tip)  BY <1>3, <1>8, <2>1, <3>1
    <3>. QED  BY <1>5, <1>8, <2>1, <3>1, <3>2
  <2>. QED  BY <1>1, <1>7, <2>1 DEF ActiveItemsKnown, ActiveChain
<1>12. DatabaseInMemory'
  BY <1>1, <1>5 DEF IInv, DatabaseInMemory
<1>13. DiskDistinct' /\ DownExact' /\ DiskDecisions'
  BY <1>1, <1>7 DEF IInv, DiskDistinct, Recovers, DownExact, DiskDecisions
<1>14. RecordExact'
  <2>1. SUFFICES ASSUME ~partlyApplied
                 PROVE  /\ dbIndex' = m_indexSet'
                        /\ \A i \in Item : m_indexSet'[i] # NoBlock =>
                             m_indexSet'[i] \in chain[pprev[tip]] /\ i \in Items(m_indexSet'[i])
    BY <1>1, <1>7 DEF RecordExact, ActiveChain
  <2>2. /\ dbIndex = m_indexSet
        /\ \A i \in Item : m_indexSet[i] # NoBlock =>
             m_indexSet[i] \in chain[tip] /\ i \in Items(m_indexSet[i])
    BY <1>1, <2>1 DEF IInv, RecordExact, ActiveChain
  <2>3. ASSUME NEW i \in Item, m_indexSet'[i] # NoBlock
        PROVE  m_indexSet'[i] \in chain[pprev[tip]] /\ i \in Items(m_indexSet'[i])
    <3>1. i \notin Items(tip) /\ m_indexSet'[i] = m_indexSet[i]  BY <1>5, <2>3
    <3>2. m_indexSet[i] \in chain[tip] /\ i \in Items(m_indexSet[i])  BY <2>2, <2>3, <3>1
    <3>3. m_indexSet[i] # tip  BY <3>1, <3>2
    <3>. QED  BY <1>3, <3>1, <3>2, <3>3
  <2>. QED  BY <1>5, <2>2, <2>3
<1>15. DecisionsFollowChain'
  BY <1>1, <1>3, <1>7 DEF IInv, DecisionsFollowChain, ActiveChain
<1>. QED  BY <1>7, <1>9, <1>10, <1>11, <1>12, <1>13, <1>14, <1>15 DEF IInv

(***************************************************************************)
(* Blocks from the network, the disk, and crashes.                         *)
(***************************************************************************)

\* AcceptBlock: what was known of the other blocks stays true.
LEMMA AcceptKeeps ==
  ASSUME NfTokensAssumption, IInv,
         NEW parent \in Block, NEW list \in TxLists, NEW ok \in Payable,
         AcceptBlock(parent, list, ok)
  PROVE  IInv'
<1>. DEFINE b == nBlocks + 1
<1>1. /\ TypeOK /\ running /\ running' = running /\ partlyApplied' = partlyApplied
      /\ crashes' = crashes /\ tip' = tip /\ failed' = failed
      /\ nBlocks < MaxBlock /\ parent \in mapBlockIndex
      /\ mapBlockIndex' = mapBlockIndex \cup {b}
      /\ diskIndex' = diskIndex /\ diskFailed' = diskFailed /\ diskBest' = diskBest
      /\ dbIndex' = dbIndex /\ dbSupply' = dbSupply
      /\ m_indexSet' = m_indexSet /\ m_totalSupply' = m_totalSupply
  BY DEF IInv, AcceptBlock, diskVars, dbVars
<1>2. /\ nBlocks' = b
      /\ pprev' = [pprev EXCEPT ![b] = parent]
      /\ chain' = [chain EXCEPT ![b] = chain[parent] \cup {b}]
      /\ nHeight' = [nHeight EXCEPT ![b] = nHeight[parent] + 1]
      /\ vtx' = [vtx EXCEPT ![b] = list]
      /\ payable' = [payable EXCEPT ![b] = ok]
  BY DEF AcceptBlock
<1>3. /\ nBlocks \in Nat /\ MaxBlock \in Nat /\ b \in Block /\ b \in Nat /\ b # 0
      /\ parent \in 0 .. nBlocks /\ 0 .. nBlocks \subseteq Block
      /\ b \notin 0 .. nBlocks /\ 0 .. b = (0 .. nBlocks) \cup {b}
      /\ 1 .. b = (1 .. nBlocks) \cup {b} /\ nBlocks = b - 1
  BY <1>1 DEF NfTokensAssumption, TypeOK, Block
<1>4. \A a \in 0 .. nBlocks :
        /\ pprev'[a] = pprev[a] /\ chain'[a] = chain[a] /\ nHeight'[a] = nHeight[a]
        /\ vtx'[a] = vtx[a] /\ payable'[a] = payable[a]
  BY <1>1, <1>2, <1>3 DEF TypeOK
<1>5. /\ pprev'[b] = parent /\ chain'[b] = chain[parent] \cup {b}
      /\ nHeight'[b] = nHeight[parent] + 1
  BY <1>1, <1>2, <1>3 DEF TypeOK
<1>6. \A a \in 0 .. nBlocks : Items(a)' = Items(a)  BY <1>4 DEF Items
<1>7. \A a \in 0 .. nBlocks : chain[a] \subseteq 0 .. nBlocks
  <2>1. \A a \in 0 .. nBlocks : chain[a] \subseteq 0 .. a /\ 0 .. a \subseteq 0 .. nBlocks
    BY <1>3 DEF IInv, Tree
  <2>. QED  BY <2>1
<1>8. \A a \in 0 .. nBlocks : RegisteredBy(a)' = RegisteredBy(a)
  BY <1>4, <1>6, <1>7 DEF RegisteredBy
<1>9. ASSUME NEW a \in 1 .. nBlocks PROVE ValidInChain(a)' = ValidInChain(a)
  <2>1. pprev[a] \in 0 .. nBlocks /\ a \in 0 .. nBlocks
    BY <1>9, ChainAbove
  <2>2. /\ payable'[a] = payable[a] /\ vtx'[a] = vtx[a] /\ pprev'[a] = pprev[a]
        /\ chain'[pprev[a]] = chain[pprev[a]] /\ nHeight'[a] = nHeight[a]
        /\ RegisteredBy(pprev[a])' = RegisteredBy(pprev[a])
    BY <1>4, <1>8, <2>1
  <2>3. \A c \in chain[pprev[a]] : Items(c)' = Items(c) /\ nHeight'[c] = nHeight[c]
    BY <1>4, <1>6, <1>7, <2>1
  <2>4. RegisteredBy(pprev[a])' = UNION {Items(c)' : c \in chain'[pprev[a]]}
    BY <2>2 DEF RegisteredBy
  <2>. QED  BY <2>2, <2>3 DEF ValidInChain, RegisteredBy
<1>10. /\ tip \in 0 .. nBlocks /\ diskBest \in 0 .. nBlocks
       /\ chain[tip] \subseteq 0 .. nBlocks /\ chain[diskBest] \subseteq 0 .. nBlocks
       /\ chain'[tip] = chain[tip] /\ chain'[diskBest] = chain[diskBest]
       /\ failed \subseteq 1 .. nBlocks /\ diskFailed \subseteq 1 .. nBlocks
  <2>1. tip \in 0 .. nBlocks /\ diskBest \in 0 .. nBlocks  BY <1>1 DEF TypeOK
  <2>2. /\ failed \subseteq 0 .. nBlocks /\ diskFailed \subseteq 0 .. nBlocks
        /\ 0 \notin failed /\ 0 \notin diskFailed
    BY <1>1 DEF IInv, TypeOK, Closed
  <2>3. failed \subseteq 1 .. nBlocks /\ diskFailed \subseteq 1 .. nBlocks
    BY <1>3, <2>2
  <2>. QED  BY <1>4, <1>7, <2>1, <2>3
<1>11. TypeOK'
  <2>1. /\ nBlocks' \in Block /\ mapBlockIndex' \subseteq 0 .. nBlocks'
        /\ diskIndex \subseteq 0 .. nBlocks'
    BY <1>1, <1>2, <1>3 DEF TypeOK
  <2>2. /\ pprev' \in [Block -> Block \cup {NoBlock}]
        /\ vtx' \in [Block -> TxLists \cup {<<>>}]
    BY <1>1, <1>2, <1>3 DEF TypeOK
  <2>3. chain' \in [Block -> SUBSET Block]
    BY <1>1, <1>2, <1>3 DEF TypeOK
  <2>4. nHeight' \in [Block -> Nat]
    <3>1. nHeight[parent] + 1 \in Nat  BY <1>1 DEF TypeOK
    <3>. QED  BY <1>1, <1>2, <1>3, <3>1 DEF TypeOK
  <2>5. payable' \in [Block -> BOOLEAN]
    <3>1. ok \in BOOLEAN  BY DEF NfTokensAssumption
    <3>. QED  BY <1>1, <1>2, <1>3, <3>1 DEF TypeOK
  <2>. QED  BY <1>1, <2>1, <2>2, <2>3, <2>4, <2>5 DEF TypeOK
<1>12. Tree'
  <2>1. chain'[0] = {0} /\ vtx'[0] = <<>>  BY <1>3, <1>4 DEF IInv, Tree
  <2>2. \A a \in 1 .. nBlocks :
          pprev'[a] \in 0 .. (a - 1) /\ chain'[a] = chain'[pprev'[a]] \cup {a}
    <3>1. ASSUME NEW a \in 1 .. nBlocks
          PROVE  pprev'[a] \in 0 .. (a - 1) /\ chain'[a] = chain'[pprev'[a]] \cup {a}
      <4>1. a \in 0 .. nBlocks /\ pprev[a] \in 0 .. nBlocks  BY <3>1, ChainAbove
      <4>. QED  BY <1>4, <3>1, <4>1 DEF IInv, Tree
    <3>. QED  BY <3>1
  <2>3. pprev'[b] \in 0 .. (b - 1) /\ chain'[b] = chain'[pprev'[b]] \cup {b}
    BY <1>3, <1>4, <1>5
  <2>4. \A a \in 0 .. nBlocks :
          chain'[a] \subseteq 0 .. a /\ a \in chain'[a] /\ nHeight'[a] \in 0 .. a
    BY <1>4 DEF IInv, Tree
  <2>5. chain'[b] \subseteq 0 .. b /\ b \in chain'[b]
    BY <1>3, <1>5, <1>7
  <2>6. nHeight'[b] \in 0 .. b
    <3>1. nHeight[parent] \in 0 .. parent  BY <1>3 DEF IInv, Tree
    <3>. QED  BY <1>3, <1>5, <3>1
  <2>7. Climb'
    <3>. HIDE DEF b
    <3>1. \A a \in 0 .. nBlocks : nHeight[a] \in Nat  BY <1>1, <1>3 DEF TypeOK
    <3>2. ASSUME NEW x \in 0 .. nBlocks, NEW a \in chain'[x]  PROVE nHeight'[a] <= nHeight'[x]
      BY <1>4, <1>7, <3>2 DEF IInv, Tree, Climb
    <3>3. ASSUME NEW a \in chain'[b]  PROVE nHeight'[a] <= nHeight'[b]
      <4>1. CASE a = b
        <5>1. nHeight'[b] \in Nat  BY <1>3, <1>5, <3>1
        <5>. QED  BY <4>1, <5>1
      <4>2. CASE a \in chain[parent]
        <5>1. a \in 0 .. nBlocks /\ nHeight[a] <= nHeight[parent]
          BY <1>3, <1>7, <4>2 DEF IInv, Tree, Climb
        <5>. QED  BY <1>3, <1>4, <1>5, <3>1, <5>1
      <4>. QED  BY <1>5, <3>3, <4>1, <4>2
    <3>. QED  BY <1>2, <1>3, <3>2, <3>3 DEF Climb
  <2>. QED  BY <1>2, <1>3, <2>1, <2>2, <2>3, <2>4, <2>5, <2>6, <2>7 DEF Tree
<1>13. Closed'
  <2>1. \A a \in mapBlockIndex : chain'[a] \subseteq mapBlockIndex'
    BY <1>1, <1>4 DEF IInv, TypeOK, Closed
  <2>2. chain'[b] \subseteq mapBlockIndex'
    BY <1>1, <1>5 DEF IInv, Closed
  <2>3. \A a \in diskIndex : chain'[a] \subseteq diskIndex
    BY <1>1, <1>4 DEF IInv, TypeOK, Closed
  <2>. QED  BY <1>1, <2>1, <2>2, <2>3 DEF IInv, Closed
<1>14. ItemsKnown'
  BY <1>1, <1>6, <1>10 DEF IInv, ItemsKnown, Recovers, ActiveItemsKnown, ActiveChain
<1>15. DatabaseInMemory'  BY <1>1 DEF IInv, DatabaseInMemory
<1>16. DiskDistinct'  BY <1>1, <1>6, <1>10 DEF IInv, DiskDistinct, Recovers
<1>17. RecordExact'
  <2>1. SUFFICES ASSUME ~partlyApplied
                 PROVE  /\ dbIndex = m_indexSet
                        /\ \A i \in Item : m_indexSet[i] # NoBlock =>
                             /\ m_indexSet[i] \in chain[tip]
                             /\ i \in {vtx'[m_indexSet[i]][j] : j \in DOMAIN vtx'[m_indexSet[i]]}
    BY <1>1, <1>10 DEF RecordExact, ActiveChain, Items
  <2>2. /\ dbIndex = m_indexSet
        /\ \A i \in Item : m_indexSet[i] # NoBlock =>
             m_indexSet[i] \in chain[tip] /\ i \in Items(m_indexSet[i])
    BY <1>1, <2>1 DEF IInv, RecordExact, ActiveChain
  <2>. QED  BY <1>4, <1>10, <2>2 DEF Items
<1>18. DownExact'  BY <1>1 DEF DownExact
<1>19. DecisionsFollowChain'
  <2>1. \A a \in chain[tip] \ {0} : a \in 1 .. nBlocks  BY <1>3, <1>10
  <2>. QED  BY <1>1, <1>9, <1>10, <2>1 DEF IInv, DecisionsFollowChain, ActiveChain
<1>20. DiskDecisions'
  <2>1. \A a \in chain[diskBest] \ {0} : a \in 1 .. nBlocks  BY <1>3, <1>10
  <2>. QED  BY <1>1, <1>9, <1>10, <2>1 DEF IInv, DiskDecisions
<1>. QED
  BY <1>11, <1>12, <1>13, <1>14, <1>15, <1>16, <1>17, <1>18, <1>19, <1>20 DEF IInv

\* ReceiveAgain.
LEMMA ReceiveKeeps ==
  ASSUME NfTokensAssumption, IInv, NEW b \in Block, ReceiveAgain(b)
  PROVE  IInv'
<1>1. /\ TypeOK /\ running /\ running' = running /\ partlyApplied' = partlyApplied
      /\ crashes' = crashes /\ tip' = tip /\ failed' = failed
      /\ b \in 1 .. nBlocks /\ pprev[b] \in mapBlockIndex
      /\ mapBlockIndex' = mapBlockIndex \cup {b}
      /\ diskIndex' = diskIndex /\ diskFailed' = diskFailed /\ diskBest' = diskBest
      /\ dbIndex' = dbIndex /\ dbSupply' = dbSupply
      /\ m_indexSet' = m_indexSet /\ m_totalSupply' = m_totalSupply
      /\ UNCHANGED treeVars
  BY DEF IInv, ReceiveAgain, diskVars, dbVars
<1>2. /\ \A a : Items(a)' = Items(a) /\ ValidInChain(a)' = ValidInChain(a)
      /\ Tree' /\ nBlocks' = nBlocks /\ pprev' = pprev /\ chain' = chain
      /\ nHeight' = nHeight /\ vtx' = vtx /\ payable' = payable
  BY <1>1, TreeFrame DEF IInv
<1>3. TypeOK'
  <2>1. mapBlockIndex' \subseteq 0 .. nBlocks  BY <1>1 DEF TypeOK, Block
  <2>. QED  BY <1>1, <1>2, <2>1 DEF TypeOK
<1>4. Closed'
  <2>1. chain[b] = chain[pprev[b]] \cup {b}  BY <1>1, ChainAbove
  <2>. QED  BY <1>1, <1>2, <2>1 DEF IInv, Closed
<1>5. ItemsKnown' /\ DatabaseInMemory' /\ DiskDistinct' /\ DownExact'
  BY <1>1, <1>2 DEF IInv, ItemsKnown, Recovers, ActiveItemsKnown, ActiveChain, DatabaseInMemory,
                    DiskDistinct, DownExact
<1>6. RecordExact'  BY <1>1, <1>2 DEF IInv, RecordExact, ActiveChain
<1>7. DecisionsFollowChain' /\ DiskDecisions'
  BY <1>1, <1>2 DEF IInv, DecisionsFollowChain, ActiveChain, DiskDecisions
<1>. QED  BY <1>2, <1>3, <1>4, <1>5, <1>6, <1>7 DEF IInv

\* FlushStateToDisk: the disk takes over what is true of the memory.
LEMMA FlushKeeps ==
  ASSUME NfTokensAssumption, IInv, NEW full \in BOOLEAN, FlushStateToDisk(full)
  PROVE  IInv'
<1>1. /\ TypeOK /\ running /\ running' = running /\ partlyApplied' = partlyApplied
      /\ crashes' = crashes /\ tip' = tip /\ failed' = failed
      /\ mapBlockIndex' = mapBlockIndex
      /\ diskIndex' = mapBlockIndex /\ diskFailed' = failed
      /\ diskBest' = IF full THEN tip ELSE diskBest
      /\ dbIndex' = dbIndex /\ dbSupply' = dbSupply
      /\ m_indexSet' = m_indexSet /\ m_totalSupply' = m_totalSupply
      /\ UNCHANGED treeVars
  BY DEF IInv, FlushStateToDisk, memVars, dbVars
<1>2. /\ \A a : Items(a)' = Items(a) /\ ValidInChain(a)' = ValidInChain(a)
      /\ Tree' /\ nBlocks' = nBlocks /\ pprev' = pprev /\ chain' = chain
      /\ nHeight' = nHeight /\ vtx' = vtx /\ payable' = payable
  BY <1>1, TreeFrame DEF IInv
<1>3. diskBest' \in mapBlockIndex /\ diskBest' \in {tip, diskBest}
  BY <1>1 DEF IInv, TypeOK, Closed
<1>4. TypeOK'  BY <1>1, <1>2, <1>3 DEF TypeOK
<1>5. Closed'  BY <1>1, <1>2 DEF IInv, Closed
<1>6. ItemsKnown' /\ DatabaseInMemory' /\ DownExact'
  BY <1>1, <1>2 DEF IInv, ItemsKnown, Recovers, ActiveItemsKnown, ActiveChain, DatabaseInMemory, DownExact
<1>7. DiskDistinct'
  <2>1. Recovers => \A a, b \in chain[tip] : \A i \in Items(a) : i \in Items(b) => a = b
    BY <1>1 DEF IInv, ItemsKnown, ActiveItemsKnown, ActiveChain
  <2>2. Recovers' = Recovers  BY <1>1 DEF Recovers
  <2>. QED  BY <1>2, <1>3, <2>1, <2>2 DEF IInv, DiskDistinct
<1>8. RecordExact'  BY <1>1, <1>2 DEF IInv, RecordExact, ActiveChain
<1>9. DecisionsFollowChain'
  BY <1>1, <1>2 DEF IInv, DecisionsFollowChain, ActiveChain
<1>10. DiskDecisions'
  BY <1>1, <1>2, <1>3 DEF IInv, DiskDecisions, DecisionsFollowChain, ActiveChain
<1>. QED  BY <1>2, <1>4, <1>5, <1>6, <1>7, <1>8, <1>9, <1>10 DEF IInv

\* Crash: when the coins on disk are those of the tip, so is the platform
\* database.
LEMMA CrashKeeps ==
  ASSUME NfTokensAssumption, IInv, Crash
  PROVE  IInv'
<1>1. /\ TypeOK /\ running /\ running' = FALSE
      /\ partlyApplied' = (partlyApplied \/ tip # diskBest)
      /\ crashes < MaxCrashes /\ crashes' = crashes + 1 /\ tip' = tip /\ failed' = failed
      /\ mapBlockIndex' = mapBlockIndex
      /\ diskIndex' = diskIndex /\ diskFailed' = diskFailed /\ diskBest' = diskBest
      /\ dbIndex' = dbIndex /\ dbSupply' = dbSupply
      /\ m_indexSet' = m_indexSet /\ m_totalSupply' = m_totalSupply
      /\ UNCHANGED treeVars
  BY DEF IInv, Crash, memVars, dbVars, diskVars
<1>2. /\ \A a : Items(a)' = Items(a) /\ ValidInChain(a)' = ValidInChain(a)
      /\ Tree' /\ nBlocks' = nBlocks /\ pprev' = pprev /\ chain' = chain
      /\ nHeight' = nHeight /\ vtx' = vtx /\ payable' = payable
  BY <1>1, TreeFrame DEF IInv
<1>3. partlyApplied' \in BOOLEAN /\ (~partlyApplied' => ~partlyApplied /\ tip = diskBest)
  BY <1>1
<1>4. TypeOK'
  <2>1. crashes' \in 0 .. MaxCrashes  BY <1>1 DEF NfTokensAssumption, TypeOK
  <2>. QED  BY <1>1, <1>2, <1>3, <2>1 DEF TypeOK
<1>5. Closed'  BY <1>1, <1>2 DEF IInv, Closed
<1>6. /\ ItemsKnown' /\ DatabaseInMemory' /\ RecordExact' /\ DecisionsFollowChain'
  BY <1>1 DEF ItemsKnown, ActiveItemsKnown, DatabaseInMemory, RecordExact, DecisionsFollowChain
<1>7. DiskDistinct' /\ DiskDecisions'
  BY <1>1, <1>2, <1>3 DEF IInv, DiskDistinct, Recovers, DiskDecisions
<1>8. DownExact'
  <2>1. SUFFICES ASSUME ~partlyApplied, tip = diskBest
                 PROVE  /\ \A i \in Item : dbIndex[i] # NoBlock =>
                             dbIndex[i] \in chain[diskBest] /\ i \in Items(dbIndex[i])
                        /\ \A b \in chain[diskBest] : \A i \in Items(b) : dbIndex[i] = b
    BY <1>1, <1>2, <1>3 DEF DownExact
  <2>2. Recovers  BY <2>1 DEF Recovers
  <2>. QED  BY <1>1, <2>1, <2>2 DEF IInv, RecordExact, ItemsKnown, ActiveItemsKnown, ActiveChain
<1>. QED  BY <1>2, <1>4, <1>5, <1>6, <1>7, <1>8 DEF IInv

(***************************************************************************)
(* The next start, and the theorems.                                       *)
(***************************************************************************)

\* After VerifyDB memory has every item of the chain of the coins under its
\* block, and what the database holds if no block was applied in part.
LEMMA VerifiedItems ==
  ASSUME NfTokensAssumption, IInv, ~running
  PROVE  /\ CheckedItems \subseteq Item
         /\ CheckedItems \subseteq RegisteredBy(diskBest)
         /\ \A i \in CheckedItems : Verified[i] \in chain[diskBest] /\ i \in Items(Verified[i])
         /\ \A i \in Item : i \notin CheckedItems => Verified[i] = Loaded[i]
         /\ Recovers => \A b \in chain[diskBest] : \A i \in Items(b) : Verified[i] = b
         /\ ~partlyApplied => Verified = dbIndex /\ Lost = {}
         /\ CheckBlocks >= MaxBlock => Checked = chain[diskBest] \ {0}
         /\ Items(0) = {}
<1>1. /\ TypeOK /\ diskBest \in 0 .. nBlocks /\ nBlocks \in 0 .. MaxBlock
      /\ MaxBlock \in Nat /\ CheckBlocks \in Nat
  BY DEF IInv, TypeOK, Block, NfTokensAssumption
<1>2. chain[diskBest] \subseteq 0 .. diskBest /\ nHeight[diskBest] \in 0 .. diskBest
  BY <1>1 DEF IInv, Tree
<1>3. chain[diskBest] \subseteq Block /\ chain[diskBest] \subseteq diskIndex
  BY <1>1, <1>2 DEF Block, IInv, TypeOK, Closed
<1>4. ASSUME CheckBlocks >= MaxBlock  PROVE Checked = chain[diskBest] \ {0}
  <2>1. \A b \in chain[diskBest] : nHeight[b] \in Nat  BY <1>1, <1>3 DEF TypeOK
  <2>2. nHeight[diskBest] - CheckBlocks <= 0 /\ nHeight[diskBest] - CheckBlocks \in Int
    BY <1>1, <1>2, <1>4
  <2>3. \A b \in chain[diskBest] : nHeight[b] >= nHeight[diskBest] - CheckBlocks
    BY <2>1, <2>2
  <2>. QED  BY <2>3 DEF Checked
<1>5. Items(0) = {}
  <2>1. vtx[0] = <<>>  BY DEF IInv, Tree
  <2>2. DOMAIN <<>> = {}  OBVIOUS
  <2>. QED  BY <2>1, <2>2 DEF Items
<1>6. Checked \subseteq chain[diskBest]  BY DEF Checked
<1>7. \A b \in chain[diskBest] : Items(b) \subseteq Item  BY <1>1, <1>3, ItemsAreItems
<1>8. CheckedItems \subseteq Item /\ CheckedItems \subseteq RegisteredBy(diskBest)
  BY <1>6, <1>7 DEF CheckedItems, RegisteredBy
<1>9. ASSUME NEW i \in CheckedItems
      PROVE  /\ Verified[i] \in Checked /\ Verified[i] \in chain[diskBest]
             /\ i \in Items(Verified[i])
  <2>1. Verified[i] = CHOOSE b \in Checked : i \in Items(b)  BY <1>8 DEF Verified
  <2>2. \E b \in Checked : i \in Items(b)  BY <1>9 DEF CheckedItems
  <2>. QED  BY <1>6, <2>1, <2>2
<1>10. \A i \in Item : i \notin CheckedItems => Verified[i] = Loaded[i]  BY DEF Verified
<1>11. ASSUME ~partlyApplied  PROVE Verified = dbIndex /\ Lost = {}
  <2>1. /\ \A i \in Item : dbIndex[i] # NoBlock =>
             dbIndex[i] \in chain[diskBest] /\ i \in Items(dbIndex[i])
        /\ \A b \in chain[diskBest] : \A i \in Items(b) : dbIndex[i] = b
    BY <1>11 DEF IInv, DownExact
  <2>2. ASSUME NEW i \in Item  PROVE Verified[i] = dbIndex[i]
    <3>1. CASE i \in CheckedItems  BY <1>9, <2>1, <3>1
    <3>2. CASE i \notin CheckedItems
      <4>1. Loaded[i] = IF dbIndex[i] \in diskIndex THEN dbIndex[i] ELSE NoBlock  BY DEF Loaded
      <4>. QED  BY <1>3, <1>10, <2>1, <3>2, <4>1
    <3>. QED  BY <3>1, <3>2
  <2>3. dbIndex = [i \in Item |-> dbIndex[i]]  BY <1>1 DEF TypeOK
  <2>4. Verified = [i \in Item |-> Verified[i]]  BY DEF Verified
  <2>5. Verified = [i \in Item |-> dbIndex[i]]  BY <2>2, <2>4
  <2>6. Lost = {}  BY <1>3, <2>1 DEF Lost
  <2>. QED  BY <2>3, <2>5, <2>6
<1>12. ASSUME Recovers, NEW b \in chain[diskBest], NEW i \in Items(b)
       PROVE  Verified[i] = b
  <2>1. CASE ~partlyApplied  BY <1>11, <1>12, <2>1 DEF IInv, DownExact
  <2>2. CASE CheckBlocks >= MaxBlock
    <3>1. b \in Checked  BY <1>4, <1>5, <1>12, <2>2
    <3>2. i \in CheckedItems  BY <1>12, <3>1 DEF CheckedItems
    <3>. QED  BY <1>9, <1>12, <3>2 DEF IInv, DiskDistinct
  <2>. QED  BY <1>12, <2>1, <2>2 DEF Recovers
<1>. QED  BY <1>4, <1>5, <1>8, <1>9, <1>10, <1>11, <1>12

\* Start.
LEMMA StartKeeps ==
  ASSUME NfTokensAssumption, IInv, Start
  PROVE  IInv'
<1>1. /\ TypeOK /\ ~running /\ running' = TRUE /\ partlyApplied' = partlyApplied
      /\ crashes' = crashes /\ tip' = diskBest /\ failed' = diskFailed
      /\ mapBlockIndex' = diskIndex /\ m_indexSet' = Verified
      /\ diskIndex' = diskIndex /\ diskFailed' = diskFailed /\ diskBest' = diskBest
      /\ UNCHANGED treeVars
  BY DEF IInv, Start, diskVars
<1>2. /\ \A a : Items(a)' = Items(a) /\ ValidInChain(a)' = ValidInChain(a)
      /\ Tree' /\ nBlocks' = nBlocks /\ pprev' = pprev /\ chain' = chain
      /\ nHeight' = nHeight /\ vtx' = vtx /\ payable' = payable
  BY <1>1, TreeFrame DEF IInv
<1>3. /\ CheckedItems \subseteq Item
      /\ \A i \in CheckedItems : Verified[i] \in chain[diskBest] /\ i \in Items(Verified[i])
      /\ \A i \in Item : i \notin CheckedItems => Verified[i] = Loaded[i]
      /\ Recovers => \A b \in chain[diskBest] : \A i \in Items(b) : Verified[i] = b
      /\ ~partlyApplied => Verified = dbIndex /\ Lost = {}
  BY <1>1, VerifiedItems
<1>4. /\ dbIndex' = [i \in Item |-> IF i \in Lost THEN NoBlock ELSE dbIndex[i]]
      /\ dbSupply' = [c \in Counter |->
                        IF c = AllTokens THEN dbSupply[c] ELSE dbSupply[c] - Counted(Lost, c)]
      /\ m_totalSupply' = IF CheckedItems = {} THEN dbSupply'
                          ELSE Increased(Decreased(dbSupply, CheckedItems), CheckedItems)
  BY DEF Start, CleanupDb
<1>5. \A a \in Block : a # NoBlock  BY DEF Block, NoBlock
<1>6. chain[diskBest] \subseteq Block /\ chain[diskBest] \subseteq diskIndex
      /\ diskIndex \subseteq Block
  <2>1. diskIndex \subseteq Block
    BY <1>1 DEF TypeOK, Block, NfTokensAssumption
  <2>. QED  BY <1>1, <2>1 DEF IInv, TypeOK, Closed
<1>7. \A i \in Item : Loaded[i] = IF dbIndex[i] \in diskIndex THEN dbIndex[i] ELSE NoBlock
  BY DEF Loaded
<1>9. TypeOK'
  <2>1. m_indexSet' \in [Item -> Block \cup {NoBlock}]
    <3>1. \A i \in Item : Verified[i] \in Block \cup {NoBlock}
      BY <1>3, <1>6, <1>7
    <3>2. Verified = [i \in Item |-> Verified[i]]  BY DEF Verified
    <3>. QED  BY <1>1, <3>1, <3>2
  <2>2. dbIndex' \in [Item -> Block \cup {NoBlock}]  BY <1>1, <1>4 DEF TypeOK
  <2>3. dbSupply' \in [Counter -> Int]
    <3>1. \A c : Counted(Lost, c) \in Nat  BY CountedIsNat DEF Lost
    <3>2. dbSupply \in [Counter -> Int]  BY <1>1 DEF TypeOK
    <3>. QED  BY <1>4, <3>1, <3>2
  <2>4. m_totalSupply' \in [Counter -> Int]
    <3>1. Decreased(dbSupply, CheckedItems) \in [Counter -> Int]
      BY <1>1, <1>3, CountersType DEF TypeOK
    <3>2. Increased(Decreased(dbSupply, CheckedItems), CheckedItems) \in [Counter -> Int]
      BY <1>3, <3>1, CountersType
    <3>. QED  BY <1>4, <2>3, <3>2
  <2>. QED  BY <1>1, <1>2, <2>1, <2>2, <2>3, <2>4 DEF TypeOK
<1>10. Closed'  BY <1>1, <1>2 DEF IInv, Closed
<1>11. ItemsKnown'
  BY <1>1, <1>2, <1>3 DEF ItemsKnown, Recovers, ActiveItemsKnown, ActiveChain
<1>12. DatabaseInMemory'
  <2>1. ASSUME NEW i \in Item, dbIndex'[i] # NoBlock PROVE Verified[i] # NoBlock
    <3>1. dbIndex[i] # NoBlock /\ dbIndex[i] \in diskIndex  BY <1>4, <2>1 DEF Lost
    <3>. QED  BY <1>3, <1>5, <1>6, <1>7, <3>1
  <2>. QED  BY <1>1, <2>1 DEF DatabaseInMemory
<1>13. DiskDistinct' /\ DownExact' /\ DiskDecisions'
  BY <1>1, <1>2 DEF IInv, DiskDistinct, Recovers, DownExact, DiskDecisions
<1>14. RecordExact'
  <2>1. SUFFICES ASSUME ~partlyApplied
                 PROVE  /\ dbIndex' = Verified
                        /\ \A i \in Item : Verified[i] # NoBlock =>
                             Verified[i] \in chain[diskBest] /\ i \in Items(Verified[i])
    BY <1>1, <1>2 DEF RecordExact, ActiveChain
  <2>2. Verified = dbIndex /\ Lost = {}  BY <1>3, <2>1
  <2>3. \A i \in Item : dbIndex[i] # NoBlock =>
          dbIndex[i] \in chain[diskBest] /\ i \in Items(dbIndex[i])
    BY <1>1, <2>1 DEF IInv, DownExact
  <2>4. dbIndex' = [i \in Item |-> dbIndex[i]]  BY <1>4, <2>2
  <2>5. dbIndex = [i \in Item |-> dbIndex[i]]  BY <1>1 DEF TypeOK
  <2>. QED  BY <2>2, <2>3, <2>4, <2>5
<1>15. DecisionsFollowChain'
  BY <1>1, <1>2 DEF IInv, DiskDecisions, DecisionsFollowChain, ActiveChain
<1>. QED  BY <1>2, <1>9, <1>10, <1>11, <1>12, <1>13, <1>14, <1>15 DEF IInv

\* An empty registry at the genesis block satisfies the invariant.
LEMMA EmptyHolds ==
  ASSUME NfTokensAssumption, TypeOK, Tree,
         0 \in mapBlockIndex, diskIndex = {0}, mapBlockIndex = {0},
         failed = {}, diskFailed = {}, tip = 0, diskBest = 0, running = TRUE,
         m_indexSet = [i \in Item |-> NoBlock], dbIndex = m_indexSet
  PROVE  IInv
<1>1. chain[0] = {0} /\ vtx[0] = <<>>  BY DEF Tree
<1>2. Items(0) = {}
  <2>1. DOMAIN <<>> = {}  OBVIOUS
  <2>. QED  BY <1>1, <2>1 DEF Items
<1>3. Closed  BY <1>1 DEF Closed
<1>4. ItemsKnown /\ DatabaseInMemory /\ DiskDistinct
  BY <1>1, <1>2 DEF ItemsKnown, ActiveItemsKnown, ActiveChain, DatabaseInMemory, DiskDistinct
<1>5. RecordExact /\ DownExact  BY DEF RecordExact, DownExact
<1>6. DecisionsFollowChain /\ DiskDecisions
  BY <1>1 DEF DecisionsFollowChain, ActiveChain, DiskDecisions
<1>. QED  BY <1>3, <1>4, <1>5, <1>6 DEF IInv

\* Reindex.
LEMMA ReindexKeeps ==
  ASSUME NfTokensAssumption, IInv, Reindex
  PROVE  IInv'
<1>1. /\ TypeOK /\ running' = TRUE /\ partlyApplied' = FALSE /\ crashes' = crashes
      /\ mapBlockIndex' = {0} /\ failed' = {} /\ tip' = 0
      /\ m_indexSet' = [i \in Item |-> NoBlock] /\ m_totalSupply' = [c \in Counter |-> 0]
      /\ dbIndex' = m_indexSet' /\ dbSupply' = m_totalSupply'
      /\ diskIndex' = {0} /\ diskFailed' = {} /\ diskBest' = 0
      /\ UNCHANGED treeVars
  BY DEF IInv, Reindex
<1>2. /\ \A a : Items(a)' = Items(a)
      /\ Tree' /\ nBlocks' = nBlocks /\ pprev' = pprev /\ chain' = chain
      /\ nHeight' = nHeight /\ vtx' = vtx /\ payable' = payable
  BY <1>1, TreeFrame DEF IInv
<1>3. chain[0] = {0} /\ Items(0) = {}
  <2>1. vtx[0] = <<>> /\ chain[0] = {0}  BY DEF IInv, Tree
  <2>2. DOMAIN <<>> = {}  OBVIOUS
  <2>. QED  BY <2>1, <2>2 DEF Items
<1>4. TypeOK'
  <2>1. 0 \in 0 .. nBlocks  BY <1>1 DEF TypeOK, Block
  <2>2. m_indexSet' \in [Item -> Block \cup {NoBlock}] /\ m_totalSupply' \in [Counter -> Int]
    BY <1>1
  <2>. QED  BY <1>1, <1>2, <2>1, <2>2 DEF TypeOK
<1>5. Closed'  BY <1>1, <1>2, <1>3 DEF Closed
<1>6. ItemsKnown' /\ DatabaseInMemory' /\ DiskDistinct'
  BY <1>1, <1>2, <1>3 DEF ItemsKnown, ActiveItemsKnown, ActiveChain, DatabaseInMemory, DiskDistinct
<1>7. RecordExact' /\ DownExact'  BY <1>1 DEF RecordExact, DownExact
<1>8. DecisionsFollowChain' /\ DiskDecisions'
  BY <1>1, <1>2, <1>3 DEF DecisionsFollowChain, ActiveChain, DiskDecisions
<1>. QED  BY <1>2, <1>4, <1>5, <1>6, <1>7, <1>8 DEF IInv

\* The initial state.
LEMMA InitHolds ==
  ASSUME NfTokensAssumption, Init
  PROVE  IInv
<1>1. 0 \in Block /\ 0 .. 0 = {0} /\ 1 .. 0 = {}  BY DEF NfTokensAssumption, Block
<1>2. TypeOK  BY <1>1 DEF Init, TypeOK, NfTokensAssumption
<1>3. Tree  BY <1>1, <1>2 DEF Init, Tree, Climb, TypeOK
<1>. QED  BY <1>2, <1>3, EmptyHolds DEF Init

\* The invariant is inductive.
LEMMA StepKeeps ==
  ASSUME NfTokensAssumption, IInv, [Next]_vars
  PROVE  IInv'
<1>1. CASE Next
  BY <1>1, AcceptKeeps, ReceiveKeeps, ConnectKeeps, RefuseKeeps, DisconnectKeeps,
     FlushKeeps, CrashKeeps, StartKeeps, ReindexKeeps DEF Next
<1>2. CASE UNCHANGED vars
  <2>1. /\ mapBlockIndex' = mapBlockIndex /\ failed' = failed /\ tip' = tip
        /\ m_indexSet' = m_indexSet /\ m_totalSupply' = m_totalSupply
        /\ dbIndex' = dbIndex /\ dbSupply' = dbSupply
        /\ diskIndex' = diskIndex /\ diskFailed' = diskFailed /\ diskBest' = diskBest
        /\ running' = running /\ crashes' = crashes /\ partlyApplied' = partlyApplied
        /\ UNCHANGED treeVars
    BY <1>2 DEF vars, memVars, dbVars, diskVars
  <2>2. /\ \A a : Items(a)' = Items(a) /\ ValidInChain(a)' = ValidInChain(a)
        /\ Tree' /\ nBlocks' = nBlocks /\ pprev' = pprev /\ chain' = chain
        /\ nHeight' = nHeight /\ vtx' = vtx /\ payable' = payable
    BY <2>1, TreeFrame DEF IInv
  <2>3. TypeOK' /\ Closed'  BY <2>1, <2>2 DEF IInv, TypeOK, Closed
  <2>4. ItemsKnown' /\ DatabaseInMemory' /\ DiskDistinct' /\ DownExact' /\ RecordExact'
    BY <2>1, <2>2 DEF IInv, ItemsKnown, Recovers, ActiveItemsKnown, ActiveChain, DatabaseInMemory, DiskDistinct,
                      DownExact, RecordExact
  <2>5. DecisionsFollowChain' /\ DiskDecisions'
    BY <2>1, <2>2 DEF IInv, DecisionsFollowChain, ActiveChain, DiskDecisions
  <2>. QED  BY <2>2, <2>3, <2>4, <2>5 DEF IInv
<1>. QED  BY <1>1, <1>2

\* IInv holds always.
LEMMA Invariance == Spec => []IInv
<1>1. Init => IInv  BY NfTokensAssumption, InitHolds
<1>2. IInv /\ [Next]_vars => IInv'  BY NfTokensAssumption, StepKeeps
<1>. QED  BY <1>1, <1>2, PTL DEF Spec

\* The state keeps its shape; in particular the tip and the best block of the
\* coins always have an entry in the index, in memory and on disk.
THEOREM RegistryTypeCorrect == Spec => []TypeOK
<1>1. IInv => TypeOK  BY DEF IInv
<1>. QED  BY <1>1, Invariance, PTL

\* The registry knows every item of the active chain under the block that
\* registers it, so that DisconnectTip can always undo the tip, through refused
\* blocks, reorganisations and crashes, as long as a start verifies the chain.
THEOREM ActiveItemsAreKnown ==
  ASSUME CheckBlocks >= MaxBlock
  PROVE  Spec => []ActiveItemsKnown
<1>1. IInv => ActiveItemsKnown  BY DEF IInv, ItemsKnown, Recovers
<1>. QED  BY <1>1, Invariance, PTL

\* What the platform database holds, memory holds: CleanupDb and the managers'
\* constructors agree on which rows are lost, and GetNfTokenIndex brings back
\* nothing that was undone.
THEOREM DatabaseIsInMemory == Spec => []DatabaseInMemory
<1>1. IInv => DatabaseInMemory  BY DEF IInv
<1>. QED  BY <1>1, Invariance, PTL

\* As long as no block was applied in part, the managers and the platform
\* database hold the registrations of the active chain and no others.
THEOREM RecordIsExact == Spec => []RecordExact
<1>1. IInv => RecordExact  BY DEF IInv
<1>. QED  BY <1>1, Invariance, PTL

\* As long as no block was applied in part, ConnectBlock accepts and refuses
\* registrations by the chain of the block alone.
THEOREM ChainDecides == Spec => []DecisionsFollowChain
<1>1. IInv => DecisionsFollowChain  BY DEF IInv
<1>. QED  BY <1>1, Invariance, PTL

(***************************************************************************)
(* The counters.                                                           *)
(***************************************************************************)

\* Every item in memory is placed in a block that exists.
ItemsPlaced == \A i \in Item : m_indexSet[i] # NoBlock => m_indexSet[i] \in 0 .. nBlocks

\* The protocol of a token of the active chain is known, from a lower block.
ProtocolsBelow ==
  running => \A b \in ActiveChain : \A i \in Items(b) \cap Token :
    LET proto == m_indexSet[ProtoOf[i]] IN proto # NoBlock /\ nHeight[proto] < nHeight[b]

\* An item that the platform database holds and the active chain does not was
\* left there by a crash: its block has an entry on disk, so that CleanupDb
\* never deletes it, and the chain of the coins does not register it.
Leftovers ==
  \A i \in Item : dbIndex[i] # NoBlock /\ i \notin RegisteredBy(tip) =>
    dbIndex[i] \in diskIndex /\ i \notin RegisteredBy(diskBest)

\* The counters on disk say no less than what the active chain registers, or
\* after a crash the chain that was active.
DiskCoversChain == \A c \in Counter : dbSupply[c] >= Counted(RegisteredBy(tip), c)

\* While the node is down and no block was applied in part, they are those of
\* the chain of the coins.
DownCounters ==
  ~running /\ ~partlyApplied =>
    \A c \in Counter : dbSupply[c] = Counted(RegisteredBy(diskBest), c)

\* The protocol of a token of that chain is then in the database, from a lower
\* block.
DownProtocols ==
  ~running /\ ~partlyApplied =>
    \A b \in chain[diskBest] : \A i \in Items(b) \cap Token :
      LET proto == dbIndex[ProtoOf[i]] IN proto # NoBlock /\ nHeight[proto] < nHeight[b]

Counts ==
  /\ ItemsPlaced /\ ProtocolsBelow /\ Leftovers
  /\ SupplyCoversChain /\ DiskCoversChain
  /\ CountersExact /\ DownCounters /\ DownProtocols

CInv == IInv /\ Recovers /\ Counts

\* How counts of items add up.
LEMMA CountedFacts ==
  ASSUME NfTokensAssumption, NEW R \in SUBSET Item, NEW S \in SUBSET Item, NEW c
  PROVE  /\ Counted(R, c) \in Nat /\ Counted(S, c) \in Nat
         /\ R \cap S = {} => Counted(R \cup S, c) = Counted(R, c) + Counted(S, c)
         /\ R \subseteq S => Counted(R, c) <= Counted(S, c)
         /\ c \notin Stepped(S) => Counted(S, c) = 0
<1> DEFINE In(T) == {i \in T : c \in CountedBy(i)}
<1>1. IsFiniteSet(Item)  BY FS_Union DEF NfTokensAssumption, Item
<1>2. IsFiniteSet(In(R)) /\ IsFiniteSet(In(S))
  <2>1. In(R) \subseteq Item /\ In(S) \subseteq Item  OBVIOUS
  <2>. HIDE DEF In
  <2>. QED  BY <1>1, <2>1, FS_Subset
<1>3. /\ In(R \cup S) = In(R) \cup In(S) /\ In(R) \cap In(S) \subseteq R \cap S
      /\ (R \subseteq S => In(R) \subseteq In(S))
      /\ c \notin Stepped(S) => In(S) = {}
  BY DEF Stepped
<1>4. /\ Counted(R, c) = Cardinality(In(R)) /\ Counted(S, c) = Cardinality(In(S))
      /\ Counted(R \cup S, c) = Cardinality(In(R \cup S))
  BY DEF Counted
<1> HIDE DEF In
<1>5. /\ Cardinality(In(R)) \in Nat /\ Cardinality(In(S)) \in Nat
      /\ Cardinality({}) = 0
  BY <1>2, FS_CardinalityType, FS_EmptySet
<1>6. Cardinality(In(R) \cup In(S)) = Cardinality(In(R)) + Cardinality(In(S))
                                       - Cardinality(In(R) \cap In(S))
  BY <1>2, FS_Union
<1>7. R \subseteq S => Cardinality(In(R)) <= Cardinality(In(S))
  BY <1>2, <1>3, FS_Subset
<1>8. ASSUME R \cap S = {}  PROVE Counted(R \cup S, c) = Counted(R, c) + Counted(S, c)
  <2>1. In(R) \cap In(S) = {}  BY <1>3, <1>8
  <2>2. Cardinality(In(R) \cap In(S)) = 0  BY <1>5, <2>1, Zenon
  <2>3. Counted(R \cup S, c) = Cardinality(In(R) \cup In(S))  BY <1>3, <1>4, Zenon
  <2>. QED  BY <1>4, <1>5, <1>6, <2>2, <2>3
<1>. QED  BY <1>3, <1>4, <1>5, <1>7, <1>8

\* Items that a chain does not have yet are added to its counters: exact
\* counters stay exact, others stay large enough.  A protocol that is added has
\* no tokens yet, so that its counter may start from zero.
LEMMA IncreasedCounts ==
  ASSUME NfTokensAssumption, NEW R \in SUBSET Item, NEW S \in SUBSET Item, R \cap S = {},
         \A i \in S : Counted(R, i) = 0,
         NEW supply \in [Counter -> Int], NEW c \in Counter, supply[c] >= Counted(R, c)
  PROVE  /\ Increased(supply, S)[c] \in Int
         /\ Increased(supply, S)[c] >= Counted(R \cup S, c)
         /\ supply[c] <= Counted(R, c) => Increased(supply, S)[c] <= Counted(R \cup S, c)
         /\ c \notin Stepped(S) \cup S =>
              /\ Increased(supply, S)[c] <= supply[c] /\ Increased(supply, S)[c] >= supply[c]
              /\ Counted(R \cup S, c) <= Counted(R, c)
         /\ Counted(R, c) \in Nat /\ Counted(R \cup S, c) \in Nat
         /\ Counted(R, c) <= Counted(R \cup S, c)
<1>1. /\ Counted(R, c) \in Nat /\ Counted(S, c) \in Nat
      /\ Counted(R \cup S, c) = Counted(R, c) + Counted(S, c)
      /\ c \notin Stepped(S) => Counted(S, c) = 0
  <2>1. Counted(R, c) \in Nat /\ Counted(S, c) \in Nat  BY CountedFacts
  <2>2. Counted(R \cup S, c) = Counted(R, c) + Counted(S, c)  BY CountedFacts
  <2>3. c \notin Stepped(S) => Counted(S, c) = 0  BY CountedFacts
  <2>. QED  BY <2>1, <2>2, <2>3
<1>2. Increased(supply, S)[c] = (IF c \in S THEN 0 ELSE supply[c]) + Counted(S, c)
  BY DEF Increased
<1>3. c \in S => Counted(R, c) = 0  OBVIOUS
<1>4. supply[c] \in Int  OBVIOUS
<1>. QED  BY <1>1, <1>2, <1>3, <1>4

\* Items are taken out again.
LEMMA DecreasedCounts ==
  ASSUME NfTokensAssumption, NEW R \in SUBSET Item, NEW S \in SUBSET Item, R \cap S = {},
         NEW supply \in [Counter -> Int], NEW c \in Counter,
         supply[c] >= Counted(R \cup S, c)
  PROVE  /\ Decreased(supply, S)[c] \in Int
         /\ Decreased(supply, S)[c] >= Counted(R, c)
         /\ supply[c] <= Counted(R \cup S, c) => Decreased(supply, S)[c] <= Counted(R, c)
         /\ c \notin Stepped(S) =>
              Decreased(supply, S)[c] <= supply[c] /\ Decreased(supply, S)[c] >= supply[c]
         /\ Counted(R, c) \in Nat /\ Counted(R \cup S, c) \in Nat
         /\ Counted(R, c) <= Counted(R \cup S, c)
<1>1. /\ Counted(R, c) \in Nat /\ Counted(S, c) \in Nat
      /\ Counted(R \cup S, c) = Counted(R, c) + Counted(S, c)
      /\ c \notin Stepped(S) => Counted(S, c) = 0
  <2>1. Counted(R, c) \in Nat /\ Counted(S, c) \in Nat  BY CountedFacts
  <2>2. Counted(R \cup S, c) = Counted(R, c) + Counted(S, c)  BY CountedFacts
  <2>3. c \notin Stepped(S) => Counted(S, c) = 0  BY CountedFacts
  <2>. QED  BY <2>1, <2>2, <2>3
<1>2. Decreased(supply, S)[c] = supply[c] - Counted(S, c)  BY DEF Decreased
<1>3. supply[c] \in Int  OBVIOUS
<1>. QED  BY <1>1, <1>2, <1>3

\* What a chain registers: items, and one block more than its parent.
LEMMA RegisteredFacts ==
  ASSUME NfTokensAssumption, IInv
  PROVE  /\ \A b \in 0 .. nBlocks : RegisteredBy(b) \subseteq Item
         /\ \A b \in 1 .. nBlocks : /\ pprev[b] \in 0 .. nBlocks
                                    /\ RegisteredBy(b) = RegisteredBy(pprev[b]) \cup Items(b)
<1>1. TypeOK /\ Tree /\ nBlocks \in 0 .. MaxBlock  BY DEF IInv, TypeOK, Block
<1>2. ASSUME NEW b \in 0 .. nBlocks  PROVE RegisteredBy(b) \subseteq Item
  <2>1. chain[b] \subseteq 0 .. b  BY DEF IInv, Tree
  <2>2. 0 .. b \subseteq Block  BY <1>1 DEF Block, NfTokensAssumption
  <2>3. \A a \in chain[b] : Items(a) \subseteq Item  BY <1>1, <2>1, <2>2, ItemsAreItems
  <2>. QED  BY <2>3 DEF RegisteredBy
<1>3. ASSUME NEW b \in 1 .. nBlocks
      PROVE  /\ pprev[b] \in 0 .. nBlocks
             /\ RegisteredBy(b) = RegisteredBy(pprev[b]) \cup Items(b)
  <2>1. pprev[b] \in 0 .. nBlocks /\ chain[b] = chain[pprev[b]] \cup {b}  BY ChainAbove
  <2>. QED  BY <2>1 DEF RegisteredBy
<1>. QED  BY <1>2, <1>3

\* While the node runs, an item of the active chain is in memory, and the
\* counter of a protocol that is not counts no token of the active chain.
LEMMA ActiveItems ==
  ASSUME NfTokensAssumption, CInv, running
  PROVE  /\ RegisteredBy(tip) \subseteq Item
         /\ \A i \in RegisteredBy(tip) : m_indexSet[i] # NoBlock
         /\ \A p \in Item : m_indexSet[p] = NoBlock => Counted(RegisteredBy(tip), p) = 0
<1>1. IInv /\ TypeOK /\ tip \in 0 .. nBlocks  BY DEF CInv, IInv, TypeOK
<1>2. RegisteredBy(tip) \subseteq Item  BY <1>1, RegisteredFacts
<1>3. \A a \in chain[tip] : a # NoBlock
  <2>1. chain[tip] \subseteq 0 .. tip  BY <1>1 DEF IInv, Tree
  <2>2. \A a \in 0 .. tip : a # -1  BY <1>1
  <2>. QED  BY <2>1, <2>2 DEF NoBlock
<1>4. \A i \in RegisteredBy(tip) : m_indexSet[i] # NoBlock
  BY <1>1, <1>3 DEF CInv, IInv, ItemsKnown, ActiveItemsKnown, ActiveChain, RegisteredBy
<1>5. ASSUME NEW p \in Item, m_indexSet[p] = NoBlock, NEW i \in RegisteredBy(tip)
      PROVE  p \notin CountedBy(i)
  <2>1. p # AllTokens /\ p # AllProtocols  BY DEF NfTokensAssumption
  <2>2. i \in Token => m_indexSet[ProtoOf[i]] # NoBlock
    BY <1>5 DEF CInv, Counts, ProtocolsBelow, ActiveChain, RegisteredBy
  <2>. QED  BY <1>5, <2>1, <2>2 DEF CountedBy
<1>6. ASSUME NEW p \in Item, m_indexSet[p] = NoBlock
      PROVE  Counted(RegisteredBy(tip), p) = 0
  <2>1. p \notin Stepped(RegisteredBy(tip))  BY <1>5, <1>6 DEF Stepped
  <2>2. RegisteredBy(tip) \in SUBSET Item  BY <1>2
  <2>. QED  BY <2>1, <2>2, CountedFacts
<1>. QED  BY <1>2, <1>4, <1>6

\* Steps that leave tree, counters, database and memory alone.
LEMMA CountsFrame ==
  ASSUME Counts, UNCHANGED <<treeVars, tip, m_indexSet, m_totalSupply, dbVars>>,
         UNCHANGED <<diskVars, running, partlyApplied>>
  PROVE  Counts'
<1>1. /\ nBlocks' = nBlocks /\ chain' = chain /\ nHeight' = nHeight /\ vtx' = vtx
      /\ tip' = tip /\ m_indexSet' = m_indexSet /\ m_totalSupply' = m_totalSupply
      /\ dbIndex' = dbIndex /\ dbSupply' = dbSupply
      /\ diskIndex' = diskIndex /\ diskBest' = diskBest
      /\ running' = running /\ partlyApplied' = partlyApplied
  BY DEF treeVars, dbVars, diskVars
<1>2. /\ RegisteredBy(tip)' = RegisteredBy(tip)
      /\ RegisteredBy(diskBest)' = RegisteredBy(diskBest)
  BY <1>1 DEF RegisteredBy, Items
<1>3. ItemsPlaced' /\ ProtocolsBelow' /\ DownProtocols'
  BY <1>1 DEF Counts, ItemsPlaced, ProtocolsBelow, DownProtocols, ActiveChain, Items
<1>4. Leftovers' /\ SupplyCoversChain' /\ DiskCoversChain' /\ CountersExact' /\ DownCounters'
  BY <1>1, <1>2 DEF Counts, Leftovers, SupplyCoversChain, DiskCoversChain, CountersExact,
                    DownCounters
<1>. QED  BY <1>3, <1>4 DEF Counts

\* ConnectTip.
LEMMA ConnectCounts ==
  ASSUME NfTokensAssumption, CInv, NEW b \in Block, ConnectTip(b)
  PROVE  Counts'
<1> DEFINE R == RegisteredBy(tip)
           S == Items(b)
<1>1. /\ IInv /\ TypeOK /\ running /\ running' = running /\ partlyApplied' = partlyApplied
      /\ b \in mapBlockIndex /\ b # 0 /\ pprev[b] = tip /\ Connects(b) /\ tip' = b
      /\ diskIndex' = diskIndex /\ diskBest' = diskBest
      /\ nBlocks' = nBlocks /\ chain' = chain /\ nHeight' = nHeight /\ vtx' = vtx
  BY DEF CInv, IInv, ConnectTip, Connectable, diskVars, treeVars
<1>2. b \in 1 .. nBlocks  BY <1>1 DEF TypeOK, Block
<1>3. /\ S \in SUBSET Item /\ Applied(b) = S
      /\ \A i \in S : m_indexSet[i] = NoBlock
  BY <1>1, ItemsAreItems, AppliedIsNew
<1>4. /\ m_indexSet' = [i \in Item |-> IF i \in S THEN b ELSE m_indexSet[i]]
      /\ m_totalSupply' = Increased(m_totalSupply, S)
      /\ dbIndex' = [i \in Item |-> IF i \in S THEN b ELSE dbIndex[i]]
      /\ dbSupply' = Written(dbSupply, m_totalSupply', Stepped(S) \cup S)
  BY <1>3 DEF ConnectTip, AddItems
<1>5. /\ R \in SUBSET Item /\ \A i \in R : m_indexSet[i] # NoBlock
      /\ \A i \in S : Counted(R, i) = 0
  BY <1>1, <1>3, ActiveItems
<1>6. R \cap S = {}  BY <1>3, <1>5
<1>7. /\ RegisteredBy(tip)' = R \cup S
      /\ RegisteredBy(diskBest)' = RegisteredBy(diskBest)
  <2>1. RegisteredBy(b) = R \cup S  BY <1>1, <1>2, RegisteredFacts
  <2>2. RegisteredBy(tip)' = RegisteredBy(b)  BY <1>1 DEF RegisteredBy, Items
  <2>3. RegisteredBy(diskBest)' = RegisteredBy(diskBest)  BY <1>1 DEF RegisteredBy, Items
  <2>. QED  BY <2>1, <2>2, <2>3
<1>8. chain[b] = chain[tip] \cup {b}  BY <1>1, <1>2, ChainAbove
<1>9. ItemsPlaced'
  <2>1. b \in 0 .. nBlocks  BY <1>2
  <2>. QED  BY <1>1, <1>4, <2>1 DEF CInv, Counts, ItemsPlaced
<1>10. ProtocolsBelow'
  <2>1. SUFFICES ASSUME NEW a \in chain[b], NEW i \in Items(a) \cap Token
                 PROVE  /\ m_indexSet'[ProtoOf[i]] # NoBlock
                        /\ nHeight[m_indexSet'[ProtoOf[i]]] < nHeight[a]
    BY <1>1 DEF ProtocolsBelow, ActiveChain, Items
  <2>2. ProtoOf[i] \in Item  BY DEF NfTokensAssumption, Item
  <2>3. m_indexSet[ProtoOf[i]] # NoBlock /\ nHeight[m_indexSet[ProtoOf[i]]] < nHeight[a]
    <3>1. CASE a \in chain[tip]
      BY <1>1, <3>1 DEF CInv, Counts, ProtocolsBelow, ActiveChain
    <3>2. CASE a = b
      <4>1. PICK j \in DOMAIN vtx[b] : vtx[b][j] = i  BY <2>1, <3>2 DEF Items
      <4>2. /\ m_indexSet[ProtoOf[i]] # NoBlock
            /\ nHeight[b] - nHeight[m_indexSet[ProtoOf[i]]] >= TX_CONFIRMATIONS_NUM
        BY <1>1, <4>1 DEF Connects, Accepts
      <4>3. m_indexSet[ProtoOf[i]] \in Block  BY <1>1, <2>2, <4>2 DEF TypeOK
      <4>4. nHeight[b] \in Nat /\ nHeight[m_indexSet[ProtoOf[i]]] \in Nat
        BY <1>1, <4>3 DEF TypeOK
      <4>. QED  BY <3>2, <4>2, <4>4 DEF NfTokensAssumption
    <3>. QED  BY <1>8, <3>1, <3>2
  <2>4. m_indexSet'[ProtoOf[i]] = m_indexSet[ProtoOf[i]]  BY <1>3, <1>4, <2>2, <2>3
  <2>. QED  BY <2>3, <2>4
<1>11. Leftovers'
  BY <1>1, <1>4, <1>7 DEF CInv, Counts, Leftovers
<1> HIDE DEF R, S
<1>12. m_totalSupply \in [Counter -> Int] /\ dbSupply \in [Counter -> Int]
  BY <1>1 DEF TypeOK
<1>13. ASSUME NEW c \in Counter
       PROVE  /\ m_totalSupply'[c] >= Counted(R \cup S, c)
              /\ dbSupply'[c] >= Counted(R \cup S, c)
              /\ ~partlyApplied => /\ m_totalSupply'[c] = Counted(R \cup S, c)
                                   /\ dbSupply'[c] = m_totalSupply'[c]
  <2>1. /\ m_totalSupply[c] >= Counted(R, c) /\ dbSupply[c] >= Counted(R, c)
        /\ ~partlyApplied => m_totalSupply[c] = Counted(R, c) /\ dbSupply[c] = m_totalSupply[c]
    BY <1>1 DEF CInv, Counts, SupplyCoversChain, DiskCoversChain, CountersExact, R
  <2> DEFINE m == Increased(m_totalSupply, S)
  <2>2. /\ m[c] \in Int /\ m[c] >= Counted(R \cup S, c)
        /\ m_totalSupply[c] <= Counted(R, c) => m[c] <= Counted(R \cup S, c)
        /\ c \notin Stepped(S) \cup S => /\ m[c] <= m_totalSupply[c] /\ m[c] >= m_totalSupply[c]
                                         /\ Counted(R \cup S, c) <= Counted(R, c)
        /\ Counted(R, c) \in Nat /\ Counted(R \cup S, c) \in Nat
    BY <1>3, <1>5, <1>6, <1>12, <2>1, IncreasedCounts
  <2>3. m_totalSupply'[c] = m[c]  BY <1>4
  <2>4. dbSupply'[c] = IF c \in Stepped(S) \cup S THEN m[c] ELSE dbSupply[c]
    BY <1>4 DEF Written
  <2>5. m_totalSupply[c] \in Int /\ dbSupply[c] \in Int  BY <1>12
  <2> HIDE DEF m
  <2>. QED  BY <2>1, <2>2, <2>3, <2>4, <2>5
<1>14. SupplyCoversChain' /\ DiskCoversChain' /\ CountersExact' /\ DownCounters'
        /\ DownProtocols'
  BY <1>1, <1>7, <1>13 DEF SupplyCoversChain, DiskCoversChain, CountersExact, DownCounters,
                           DownProtocols
<1>. QED  BY <1>9, <1>10, <1>11, <1>14 DEF Counts

\* ConnectTip of a block that is refused.
LEMMA RefuseCounts ==
  ASSUME NfTokensAssumption, CInv, NEW b \in Block, RefuseBlock(b)
  PROVE  Counts'
<1> DEFINE R == RegisteredBy(tip)
           S == Applied(b)
<1>1. /\ IInv /\ TypeOK /\ running /\ running' = running /\ tip' = tip
      /\ partlyApplied' = (partlyApplied \/ S # {})
      /\ dbIndex' = dbIndex /\ dbSupply' = dbSupply
      /\ diskIndex' = diskIndex /\ diskBest' = diskBest
      /\ nBlocks' = nBlocks /\ chain' = chain /\ nHeight' = nHeight /\ vtx' = vtx
      /\ m_indexSet' = [i \in Item |-> IF i \in S THEN b ELSE m_indexSet[i]]
      /\ m_totalSupply' = Increased(m_totalSupply, S)
  BY DEF CInv, IInv, RefuseBlock, Connectable, AddItems, diskVars, dbVars, treeVars
<1>2. S \in SUBSET Item /\ \A i \in S : m_indexSet[i] = NoBlock
  BY <1>1, ItemsAreItems, AppliedIsNew
<1>3. /\ R \in SUBSET Item /\ \A i \in R : m_indexSet[i] # NoBlock
      /\ \A i \in S : Counted(R, i) = 0
  BY <1>1, <1>2, ActiveItems
<1>4. R \cap S = {}  BY <1>2, <1>3
<1>5. RegisteredBy(tip)' = R /\ RegisteredBy(diskBest)' = RegisteredBy(diskBest)
  BY <1>1 DEF RegisteredBy, Items
<1>6. ItemsPlaced' /\ Leftovers'
  <2>1. b \in 0 .. nBlocks  BY <1>1 DEF RefuseBlock, Connectable, TypeOK
  <2>. QED  BY <1>1, <1>5, <2>1 DEF CInv, Counts, ItemsPlaced, Leftovers
<1>7. ProtocolsBelow'
  <2>1. SUFFICES ASSUME NEW a \in chain[tip], NEW i \in Items(a) \cap Token
                 PROVE  /\ m_indexSet'[ProtoOf[i]] # NoBlock
                        /\ nHeight[m_indexSet'[ProtoOf[i]]] < nHeight[a]
    BY <1>1 DEF ProtocolsBelow, ActiveChain, Items
  <2>2. ProtoOf[i] \in Item  BY DEF NfTokensAssumption, Item
  <2>3. m_indexSet[ProtoOf[i]] # NoBlock /\ nHeight[m_indexSet[ProtoOf[i]]] < nHeight[a]
    BY <1>1 DEF CInv, Counts, ProtocolsBelow, ActiveChain
  <2>4. m_indexSet'[ProtoOf[i]] = m_indexSet[ProtoOf[i]]  BY <1>1, <1>2, <2>2, <2>3
  <2>. QED  BY <2>3, <2>4
<1> HIDE DEF R, S
<1>8. m_totalSupply \in [Counter -> Int]  BY <1>1 DEF TypeOK
<1>9. ASSUME NEW c \in Counter
      PROVE  /\ m_totalSupply'[c] >= Counted(R, c) /\ dbSupply[c] >= Counted(R, c)
             /\ ~partlyApplied' => /\ m_totalSupply'[c] = Counted(R, c)
                                   /\ dbSupply[c] = m_totalSupply'[c]
  <2>1. /\ m_totalSupply[c] >= Counted(R, c) /\ dbSupply[c] >= Counted(R, c)
        /\ ~partlyApplied => m_totalSupply[c] = Counted(R, c) /\ dbSupply[c] = m_totalSupply[c]
    BY <1>1 DEF CInv, Counts, SupplyCoversChain, DiskCoversChain, CountersExact, R
  <2> DEFINE m == Increased(m_totalSupply, S)
  <2>2. /\ m[c] \in Int /\ m[c] >= Counted(R \cup S, c)
        /\ m_totalSupply[c] <= Counted(R, c) => m[c] <= Counted(R \cup S, c)
        /\ Counted(R, c) \in Nat /\ Counted(R \cup S, c) \in Nat
        /\ Counted(R, c) <= Counted(R \cup S, c)
        /\ c \notin Stepped(S) \cup S => Counted(R \cup S, c) <= Counted(R, c)
    BY <1>2, <1>3, <1>4, <1>8, <2>1, IncreasedCounts
  <2>3. m_totalSupply'[c] = m[c] /\ m_totalSupply[c] \in Int  BY <1>1, <1>8
  <2>4. ~partlyApplied' => ~partlyApplied /\ c \notin Stepped(S) \cup S
    <3>1. ~partlyApplied' => ~partlyApplied /\ S = {}  BY <1>1, Zenon
    <3>. QED  BY <3>1 DEF Stepped
  <2>5. dbSupply[c] \in Int  BY <1>1 DEF TypeOK
  <2> HIDE DEF m
  <2>6. m[c] >= Counted(R, c)  BY <2>2
  <2>7. ASSUME ~partlyApplied'  PROVE m[c] = Counted(R, c) /\ dbSupply[c] = m[c]
    BY <2>1, <2>2, <2>3, <2>4, <2>5, <2>7
  <2>. QED  BY <2>1, <2>3, <2>6, <2>7
<1>10. SupplyCoversChain' /\ DiskCoversChain' /\ CountersExact' /\ DownCounters'
        /\ DownProtocols'
  BY <1>1, <1>5, <1>9 DEF SupplyCoversChain, DiskCoversChain, CountersExact, DownCounters,
                           DownProtocols
<1>. QED  BY <1>6, <1>7, <1>10 DEF Counts

\* DisconnectTip.  A protocol of the tip has no tokens below it.
LEMMA DisconnectCounts ==
  ASSUME NfTokensAssumption, CInv, DisconnectTip
  PROVE  Counts'
<1> DEFINE a == pprev[tip]
           R == RegisteredBy(a)
           S == Items(tip)
<1>1. /\ IInv /\ TypeOK /\ running /\ running' = running /\ partlyApplied' = partlyApplied
      /\ tip # 0 /\ tip' = a
      /\ m_indexSet' = [i \in Item |-> IF i \in S THEN NoBlock ELSE m_indexSet[i]]
      /\ m_totalSupply' = Decreased(m_totalSupply, S)
      /\ dbIndex' = [i \in Item |-> IF i \in S THEN NoBlock ELSE dbIndex[i]]
      /\ dbSupply' = Written(dbSupply, m_totalSupply', Stepped(S))
      /\ diskIndex' = diskIndex /\ diskBest' = diskBest
      /\ nBlocks' = nBlocks /\ chain' = chain /\ nHeight' = nHeight /\ vtx' = vtx
  BY DEF CInv, IInv, DisconnectTip, diskVars, treeVars
<1>2. tip \in 1 .. nBlocks /\ tip \in Block  BY <1>1 DEF TypeOK, Block
<1>3. /\ a \in 0 .. nBlocks /\ chain[tip] = chain[a] \cup {tip} /\ tip \notin chain[a]
  BY <1>1, <1>2, ChainAbove
<1>4. /\ R \in SUBSET Item /\ S \in SUBSET Item /\ RegisteredBy(tip) = R \cup S
  BY <1>1, <1>2, <1>3, RegisteredFacts, ItemsAreItems
<1>5. /\ \A i \in S : m_indexSet[i] = tip
      /\ \A x \in chain[a] : \A i \in Items(x) : m_indexSet[i] = x
  BY <1>1, <1>2, <1>3 DEF CInv, IInv, ItemsKnown, ActiveItemsKnown, ActiveChain
<1>6. R \cap S = {}  BY <1>3, <1>5 DEF RegisteredBy
<1>7. RegisteredBy(tip)' = R /\ RegisteredBy(diskBest)' = RegisteredBy(diskBest)
  BY <1>1 DEF RegisteredBy, Items
<1>8. ItemsPlaced'
  <2> HIDE DEF S, a
  <2>. QED  BY <1>1 DEF CInv, Counts, ItemsPlaced
<1>9. ProtocolsBelow'
  <2> HIDE DEF S, a
  <2>1. SUFFICES ASSUME NEW x \in chain[a], NEW i \in Items(x) \cap Token
                 PROVE  /\ m_indexSet'[ProtoOf[i]] # NoBlock
                        /\ nHeight[m_indexSet'[ProtoOf[i]]] < nHeight[x]
    BY <1>1 DEF ProtocolsBelow, ActiveChain, Items
  <2>2. ProtoOf[i] \in Item  BY DEF NfTokensAssumption, Item
  <2>3. m_indexSet[ProtoOf[i]] # NoBlock /\ nHeight[m_indexSet[ProtoOf[i]]] < nHeight[x]
    BY <1>1, <1>3 DEF CInv, Counts, ProtocolsBelow, ActiveChain
  <2>4. nHeight[x] <= nHeight[tip]  BY <1>1, <1>2, <1>3 DEF IInv, Tree, Climb
  <2>5. nHeight[x] \in Nat /\ nHeight[tip] \in Nat
    <3>1. x \in Block  BY <1>1, <1>2, <1>3, ChainAbove
    <3>. QED  BY <1>1, <1>2, <3>1 DEF TypeOK
  <2>6. ProtoOf[i] \notin S  BY <1>5, <2>3, <2>4, <2>5
  <2>. QED  BY <1>1, <2>2, <2>3, <2>6
<1>10. Leftovers'
  <2>1. \A i \in Item : dbIndex'[i] # NoBlock => i \notin S /\ dbIndex'[i] = dbIndex[i]
    BY <1>1
  <2>. QED  BY <1>1, <1>4, <1>7, <2>1 DEF CInv, Counts, Leftovers
<1> HIDE DEF R, S
<1>11. m_totalSupply \in [Counter -> Int] /\ dbSupply \in [Counter -> Int]
  BY <1>1 DEF TypeOK
<1>12. ASSUME NEW c \in Counter
       PROVE  /\ m_totalSupply'[c] >= Counted(R, c) /\ dbSupply'[c] >= Counted(R, c)
              /\ ~partlyApplied => /\ m_totalSupply'[c] = Counted(R, c)
                                   /\ dbSupply'[c] = m_totalSupply'[c]
  <2>1. /\ m_totalSupply[c] >= Counted(R \cup S, c) /\ dbSupply[c] >= Counted(R \cup S, c)
        /\ ~partlyApplied => /\ m_totalSupply[c] = Counted(R \cup S, c)
                             /\ dbSupply[c] = m_totalSupply[c]
    BY <1>1, <1>4 DEF CInv, Counts, SupplyCoversChain, DiskCoversChain, CountersExact
  <2> DEFINE m == Decreased(m_totalSupply, S)
  <2>2. /\ m[c] \in Int /\ m[c] >= Counted(R, c)
        /\ m_totalSupply[c] <= Counted(R \cup S, c) => m[c] <= Counted(R, c)
        /\ c \notin Stepped(S) => m[c] <= m_totalSupply[c] /\ m[c] >= m_totalSupply[c]
        /\ Counted(R, c) \in Nat /\ Counted(R \cup S, c) \in Nat
        /\ Counted(R, c) <= Counted(R \cup S, c)
    BY <1>4, <1>6, <1>11, <2>1, DecreasedCounts
  <2>3. m_totalSupply'[c] = m[c]  BY <1>1
  <2>4. dbSupply'[c] = IF c \in Stepped(S) THEN m[c] ELSE dbSupply[c]
    BY <1>1 DEF Written
  <2>5. m_totalSupply[c] \in Int /\ dbSupply[c] \in Int  BY <1>11
  <2> HIDE DEF m
  <2>. QED  BY <2>1, <2>2, <2>3, <2>4, <2>5
<1>13. SupplyCoversChain' /\ DiskCoversChain' /\ CountersExact' /\ DownCounters'
        /\ DownProtocols'
  BY <1>1, <1>7, <1>12 DEF SupplyCoversChain, DiskCoversChain, CountersExact, DownCounters,
                           DownProtocols
<1>. QED  BY <1>8, <1>9, <1>10, <1>13 DEF Counts

\* A new block touches nothing below it.
LEMMA AcceptCounts ==
  ASSUME NfTokensAssumption, CInv,
         NEW parent \in Block, NEW list \in TxLists, NEW ok \in Payable,
         AcceptBlock(parent, list, ok)
  PROVE  Counts'
<1>. DEFINE b == nBlocks + 1
<1>1. /\ IInv /\ TypeOK /\ running' = running /\ partlyApplied' = partlyApplied
      /\ tip' = tip /\ nBlocks < MaxBlock /\ parent \in mapBlockIndex
      /\ diskIndex' = diskIndex /\ diskBest' = diskBest
      /\ dbIndex' = dbIndex /\ dbSupply' = dbSupply
      /\ m_indexSet' = m_indexSet /\ m_totalSupply' = m_totalSupply
  BY DEF CInv, IInv, AcceptBlock, diskVars, dbVars
<1>2. /\ nBlocks' = b
      /\ chain' = [chain EXCEPT ![b] = chain[parent] \cup {b}]
      /\ nHeight' = [nHeight EXCEPT ![b] = nHeight[parent] + 1]
      /\ vtx' = [vtx EXCEPT ![b] = list]
  BY DEF AcceptBlock
<1>3. /\ nBlocks \in Nat /\ b \in Block /\ parent \in 0 .. nBlocks /\ 0 .. nBlocks \subseteq Block
      /\ b \notin 0 .. nBlocks /\ 0 .. b = (0 .. nBlocks) \cup {b}
  BY <1>1 DEF NfTokensAssumption, TypeOK, Block
<1>4. \A a \in 0 .. nBlocks :
        chain'[a] = chain[a] /\ nHeight'[a] = nHeight[a] /\ vtx'[a] = vtx[a]
  BY <1>1, <1>2, <1>3 DEF TypeOK
<1>5. /\ chain'[b] = chain[parent] \cup {b} /\ nHeight'[b] = nHeight[parent] + 1
  BY <1>1, <1>2, <1>3 DEF TypeOK
<1>6. \A a \in 0 .. nBlocks : Items(a)' = Items(a)  BY <1>4 DEF Items
<1>7. \A a \in 0 .. nBlocks : chain[a] \subseteq 0 .. nBlocks
  <2>1. \A a \in 0 .. nBlocks : chain[a] \subseteq 0 .. a /\ 0 .. a \subseteq 0 .. nBlocks
    BY <1>1, <1>3 DEF IInv, Tree
  <2>. QED  BY <2>1
<1>8. tip \in 0 .. nBlocks /\ diskBest \in 0 .. nBlocks  BY <1>1 DEF TypeOK
<1>9. /\ RegisteredBy(tip)' = RegisteredBy(tip)
      /\ RegisteredBy(diskBest)' = RegisteredBy(diskBest)
  <2>1. /\ RegisteredBy(tip)' = UNION {Items(a)' : a \in chain[tip]}
        /\ RegisteredBy(diskBest)' = UNION {Items(a)' : a \in chain[diskBest]}
    BY <1>1, <1>4, <1>8 DEF RegisteredBy
  <2>2. /\ \A a \in chain[tip] : Items(a)' = Items(a)
        /\ \A a \in chain[diskBest] : Items(a)' = Items(a)
    BY <1>6, <1>7, <1>8
  <2>. QED  BY <2>1, <2>2 DEF RegisteredBy
<1> HIDE DEF b
<1>10. ItemsPlaced'
  BY <1>1, <1>2, <1>3 DEF CInv, Counts, ItemsPlaced
<1>11. ProtocolsBelow'
  <2>1. SUFFICES ASSUME running, NEW a \in chain[tip], NEW i \in Items(a) \cap Token
                 PROVE  /\ m_indexSet[ProtoOf[i]] # NoBlock
                        /\ nHeight'[m_indexSet[ProtoOf[i]]] < nHeight'[a]
    <3>1. chain'[tip'] = chain[tip]  BY <1>1, <1>4, <1>8
    <3>2. \A a \in chain[tip] : Items(a)' = Items(a)  BY <1>6, <1>7, <1>8
    <3>. QED  BY <1>1, <3>1, <3>2 DEF ProtocolsBelow, ActiveChain
  <2>2. /\ m_indexSet[ProtoOf[i]] # NoBlock
        /\ nHeight[m_indexSet[ProtoOf[i]]] < nHeight[a]
    BY <2>1 DEF CInv, Counts, ProtocolsBelow, ActiveChain
  <2>3. ProtoOf[i] \in Item  BY DEF NfTokensAssumption, Item
  <2>4. m_indexSet[ProtoOf[i]] \in 0 .. nBlocks
    BY <2>2, <2>3 DEF CInv, Counts, ItemsPlaced
  <2>5. a \in 0 .. nBlocks  BY <1>7, <1>8
  <2>. QED  BY <1>4, <2>2, <2>4, <2>5
<1>12. Leftovers' /\ SupplyCoversChain' /\ DiskCoversChain' /\ CountersExact' /\ DownCounters'
       /\ DownProtocols'
  <2>1. running /\ running'  BY DEF AcceptBlock
  <2>. QED  BY <1>1, <1>9, <2>1 DEF CInv, Counts, Leftovers, SupplyCoversChain, DiskCoversChain,
                                    CountersExact, DownCounters, DownProtocols
<1>. QED  BY <1>10, <1>11, <1>12 DEF Counts

\* FlushStateToDisk and Crash.
LEMMA FlushCounts ==
  ASSUME NfTokensAssumption, CInv, NEW full \in BOOLEAN, FlushStateToDisk(full)
  PROVE  Counts'
<1>1. /\ IInv /\ TypeOK /\ running /\ running' = running /\ partlyApplied' = partlyApplied
      /\ tip' = tip /\ diskIndex' = mapBlockIndex /\ diskBest' \in {tip, diskBest}
      /\ dbIndex' = dbIndex /\ dbSupply' = dbSupply
      /\ m_indexSet' = m_indexSet /\ m_totalSupply' = m_totalSupply
      /\ nBlocks' = nBlocks /\ chain' = chain /\ nHeight' = nHeight /\ vtx' = vtx
  BY DEF CInv, IInv, FlushStateToDisk, memVars, dbVars, treeVars
<1>2. /\ RegisteredBy(tip)' = RegisteredBy(tip)
      /\ RegisteredBy(diskBest)' \in {RegisteredBy(tip), RegisteredBy(diskBest)}
  BY <1>1 DEF RegisteredBy, Items
<1>3. ProtocolsBelow' /\ DownProtocols' /\ ItemsPlaced'
  BY <1>1 DEF CInv, Counts, ProtocolsBelow, DownProtocols, ItemsPlaced, ActiveChain, Items
<1>4. Leftovers'
  <2>1. diskIndex \subseteq mapBlockIndex  BY <1>1 DEF IInv, Closed
  <2>. QED  BY <1>1, <1>2, <2>1 DEF CInv, Counts, Leftovers
<1>5. SupplyCoversChain' /\ DiskCoversChain' /\ CountersExact' /\ DownCounters'
  BY <1>1, <1>2 DEF CInv, Counts, SupplyCoversChain, DiskCoversChain, CountersExact,
                    DownCounters
<1>. QED  BY <1>3, <1>4, <1>5 DEF Counts

LEMMA CrashCounts ==
  ASSUME NfTokensAssumption, CInv, Crash
  PROVE  Counts'
<1>1. /\ running /\ running' = FALSE
      /\ partlyApplied' = (partlyApplied \/ tip # diskBest)
      /\ tip' = tip /\ diskIndex' = diskIndex /\ diskBest' = diskBest
      /\ dbIndex' = dbIndex /\ dbSupply' = dbSupply
      /\ m_indexSet' = m_indexSet /\ m_totalSupply' = m_totalSupply
      /\ nBlocks' = nBlocks /\ chain' = chain /\ nHeight' = nHeight /\ vtx' = vtx
  BY DEF Crash, memVars, dbVars, treeVars, diskVars
<1>2. /\ RegisteredBy(tip)' = RegisteredBy(tip)
      /\ RegisteredBy(diskBest)' = RegisteredBy(diskBest)
  BY <1>1 DEF RegisteredBy, Items
<1>3. ~partlyApplied' => ~partlyApplied /\ tip = diskBest  BY <1>1, Zenon
<1>4. ProtocolsBelow' /\ ItemsPlaced' /\ SupplyCoversChain' /\ CountersExact'
  BY <1>1 DEF CInv, Counts, ProtocolsBelow, ItemsPlaced, SupplyCoversChain, CountersExact
<1>5. Leftovers' /\ DiskCoversChain'
  BY <1>1, <1>2 DEF CInv, Counts, Leftovers, DiskCoversChain
<1>6. DownCounters'
  BY <1>1, <1>2, <1>3 DEF CInv, Counts, DownCounters, CountersExact
<1>7. DownProtocols'
  <2>1. ~partlyApplied => dbIndex = m_indexSet  BY <1>1 DEF CInv, IInv, RecordExact
  <2>. QED  BY <1>1, <1>3, <2>1
            DEF CInv, Counts, DownProtocols, ProtocolsBelow, ActiveChain, Items
<1>. QED  BY <1>4, <1>5, <1>6, <1>7 DEF Counts

\* A start that succeeds.  Every item of the chain of the coins is in the
\* database (VerifyDB has found it there, or no block was applied in part), so
\* none of them is lost and none is a leftover: they
\* were registered by the chain that was active at the crash, and so were the
\* items CleanupDb removes.  The counters were large enough for both.
LEMMA StartCounts ==
  ASSUME NfTokensAssumption, CInv, Start
  PROVE  Counts'
<1> DEFINE R == RegisteredBy(diskBest)
           D(c) == IF c = AllTokens THEN dbSupply[c] ELSE dbSupply[c] - Counted(Lost, c)
           E == Increased(Decreased(dbSupply, CheckedItems), CheckedItems)
<1>1. /\ IInv /\ TypeOK /\ ~running /\ running' = TRUE /\ partlyApplied' = partlyApplied
      /\ tip' = diskBest /\ m_indexSet' = Verified /\ VerifyDB
      /\ diskIndex' = diskIndex /\ diskBest' = diskBest
      /\ nBlocks' = nBlocks /\ chain' = chain /\ nHeight' = nHeight /\ vtx' = vtx
      /\ dbIndex' = [i \in Item |-> IF i \in Lost THEN NoBlock ELSE dbIndex[i]]
      /\ dbSupply' = [c \in Counter |-> D(c)]
      /\ m_totalSupply' = IF CheckedItems = {} THEN dbSupply' ELSE E
  BY DEF CInv, IInv, Start, CleanupDb, diskVars, treeVars
<1>2. /\ CheckedItems \subseteq Item /\ CheckedItems \subseteq R
      /\ \A i \in CheckedItems : Verified[i] \in chain[diskBest] /\ i \in Items(Verified[i])
      /\ \A i \in Item : i \notin CheckedItems => Verified[i] = Loaded[i]
      /\ \A b \in chain[diskBest] : \A i \in Items(b) : Verified[i] = b
      /\ ~partlyApplied => Verified = dbIndex /\ Lost = {}
      /\ CheckBlocks >= MaxBlock => Checked = chain[diskBest] \ {0}
      /\ Items(0) = {}
  BY <1>1, VerifiedItems DEF CInv
<1>3. CheckBlocks >= MaxBlock => R = CheckedItems
  BY <1>2 DEF RegisteredBy, CheckedItems
<1>4. /\ RegisteredBy(tip)' = R /\ RegisteredBy(diskBest)' = R
  BY <1>1 DEF RegisteredBy, Items
<1>5. diskBest \in 0 .. nBlocks /\ tip \in 0 .. nBlocks /\ diskIndex \subseteq 0 .. nBlocks
  BY <1>1 DEF TypeOK
<1>6. \A b \in chain[diskBest] : b \in 0 .. nBlocks /\ b \in Block /\ b # NoBlock
  <2>1. nBlocks \in 0 .. MaxBlock /\ MaxBlock \in Nat
    BY <1>1 DEF TypeOK, Block, NfTokensAssumption
  <2>2. chain[diskBest] \subseteq 0 .. diskBest  BY <1>1, <1>5 DEF IInv, Tree
  <2>3. \A b \in 0 .. diskBest : b \in 0 .. nBlocks /\ b \in 0 .. MaxBlock /\ b # -1
    BY <1>5, <2>1
  <2>. QED  BY <2>2, <2>3 DEF Block, NoBlock
<1>7. \A i \in Item : Loaded[i] = IF dbIndex[i] \in diskIndex THEN dbIndex[i] ELSE NoBlock
  BY DEF Loaded
<1>8. ASSUME NEW i \in R  PROVE i \in Item /\ dbIndex[i] # NoBlock /\ dbIndex[i] \in diskIndex
  <2>1. i \in Item  BY <1>1, <1>5, RegisteredFacts
  <2>2. CASE CheckBlocks >= MaxBlock
    <3>1. PICK b \in Checked : i \in Items(b)  BY <1>3, <2>2 DEF CheckedItems
    <3>2. Loaded[i] # NoBlock  BY <1>1, <3>1 DEF VerifyDB, Deletable
    <3>. QED  BY <1>7, <2>1, <3>2
  <2>3. CASE ~partlyApplied
    <3>1. PICK b \in chain[diskBest] : i \in Items(b)  BY DEF RegisteredBy
    <3>2. dbIndex[i] = b  BY <1>1, <2>3, <3>1 DEF IInv, DownExact
    <3>3. chain[diskBest] \subseteq diskIndex  BY <1>1 DEF IInv, TypeOK, Closed
    <3>. QED  BY <1>6, <2>1, <3>1, <3>2, <3>3
  <2>. QED  BY <2>2, <2>3 DEF CInv, Recovers
<1>9. Lost \subseteq Item /\ R \cap Lost = {}
  BY <1>8 DEF Lost
<1>10. R \cup Lost \subseteq RegisteredBy(tip)
  <2>1. \A i \in Item : dbIndex[i] # NoBlock /\ i \notin RegisteredBy(tip) =>
          dbIndex[i] \in diskIndex /\ i \notin R
    BY DEF CInv, Counts, Leftovers
  <2>2. \A i \in Lost : i \in Item /\ dbIndex[i] # NoBlock /\ dbIndex[i] \notin diskIndex
    BY DEF Lost
  <2>. QED  BY <1>8, <2>1, <2>2
<1>11. ItemsPlaced'
  <2>1. ASSUME NEW i \in Item, Verified[i] # NoBlock  PROVE Verified[i] \in 0 .. nBlocks
    <3>1. CASE i \in CheckedItems  BY <1>2, <1>6, <3>1
    <3>2. CASE i \notin CheckedItems  BY <1>2, <1>5, <1>7, <2>1, <3>2
    <3>. QED  BY <3>1, <3>2
  <2>. QED  BY <1>1, <2>1 DEF ItemsPlaced
<1>12. ASSUME NEW b \in chain[diskBest], NEW i \in Items(b) \cap Token
       PROVE  /\ Verified[ProtoOf[i]] # NoBlock
              /\ nHeight[Verified[ProtoOf[i]]] < nHeight[b]
  <2>1. ProtoOf[i] \in Item  BY DEF NfTokensAssumption, Item
  <2>2. CASE ~partlyApplied
    BY <1>1, <1>2, <2>2 DEF CInv, Counts, DownProtocols
  <2>3. CASE CheckBlocks >= MaxBlock
    <3>1. b \in Checked  BY <1>2, <2>3
    <3>2. /\ Verified[ProtoOf[i]] # NoBlock
          /\ nHeight[b] - nHeight[Verified[ProtoOf[i]]] >= TX_CONFIRMATIONS_NUM
      BY <1>1, <3>1 DEF VerifyDB
    <3>3. Verified[ProtoOf[i]] \in Block
      <4>1. Verified[ProtoOf[i]] \in 0 .. nBlocks
        BY <1>1, <1>11, <2>1, <3>2 DEF ItemsPlaced
      <4>. QED  BY <1>1, <4>1 DEF TypeOK, Block, NfTokensAssumption
    <3>4. nHeight[b] \in Nat /\ nHeight[Verified[ProtoOf[i]]] \in Nat
      BY <1>1, <1>6, <3>3 DEF TypeOK
    <3>. QED  BY <3>2, <3>4 DEF NfTokensAssumption
  <2>. QED  BY <2>2, <2>3 DEF CInv, Recovers
<1>13. ProtocolsBelow'
  BY <1>1, <1>12 DEF ProtocolsBelow, ActiveChain, Items
<1>14. Leftovers'
  <2>1. ASSUME NEW i \in Item, dbIndex'[i] # NoBlock  PROVE dbIndex'[i] \in diskIndex
    BY <1>1, <2>1 DEF Lost
  <2>. QED  BY <1>1, <1>4, <2>1 DEF Leftovers
<1>15. dbSupply \in [Counter -> Int]  BY <1>1 DEF TypeOK
<1>16. R \in SUBSET Item /\ Lost \in SUBSET Item /\ RegisteredBy(tip) \in SUBSET Item
  BY <1>1, <1>5, <1>9, RegisteredFacts
<1>17. ASSUME NEW c \in CheckedItems  PROVE Counted(R, c) = Counted(CheckedItems, c)
  <2>1. ASSUME NEW i \in R, c \in CountedBy(i)  PROVE i \in CheckedItems
    <3>1. i \in Token /\ ProtoOf[i] = c
      <4>1. c # AllTokens /\ c # AllProtocols  BY <1>2 DEF NfTokensAssumption
      <4>. QED  BY <2>1, <4>1 DEF CountedBy
    <3>2. PICK b \in chain[diskBest] : i \in Items(b)  BY DEF RegisteredBy
    <3>3. PICK a \in Checked : c \in Items(a)  BY DEF CheckedItems
    <3>4. a \in chain[diskBest] /\ nHeight[a] >= nHeight[diskBest] - CheckBlocks  BY DEF Checked
    <3>5. nHeight[a] < nHeight[b]  BY <1>2, <1>12, <3>1, <3>2, <3>3, <3>4
    <3>6. /\ nHeight[a] \in Nat /\ nHeight[b] \in Nat /\ nHeight[diskBest] \in Nat
          /\ CheckBlocks \in Nat
      <4>1. diskBest \in Block  BY <1>1, <1>5, <1>6 DEF IInv, Tree
      <4>. QED  BY <1>1, <1>6, <3>4, <4>1 DEF TypeOK, NfTokensAssumption
    <3>7. nHeight[b] >= nHeight[diskBest] - CheckBlocks  BY <3>4, <3>5, <3>6
    <3>8. b \in Checked  BY <1>2, <3>2, <3>7 DEF Checked
    <3>. QED  BY <3>2, <3>8 DEF CheckedItems
  <2>2. {i \in R : c \in CountedBy(i)} = {i \in CheckedItems : c \in CountedBy(i)}
    BY <1>2, <2>1
  <2>. QED  BY <2>2 DEF Counted
<1> HIDE DEF R
<1>18. ASSUME NEW c \in Counter
       PROVE  /\ m_totalSupply'[c] >= Counted(R, c) /\ dbSupply'[c] >= Counted(R, c)
              /\ ~partlyApplied => /\ m_totalSupply'[c] = Counted(R, c)
                                   /\ dbSupply'[c] = m_totalSupply'[c]
  <2> DEFINE r == Counted(R, c)
             l == Counted(Lost, c)
             d == dbSupply[c]
  <2>1. r \in Nat /\ l \in Nat /\ d \in Int
    <3>1. r \in Nat  BY <1>16, CountedFacts
    <3>2. l \in Nat  BY <1>16, CountedFacts
    <3>. QED  BY <1>15, <3>1, <3>2
  <2>2. d >= r + l
    <3>1. R \cup Lost \in SUBSET Item  BY <1>16
    <3>2. Counted(R \cup Lost, c) = r + l  BY <1>9, <1>16, CountedFacts
    <3>3. Counted(R \cup Lost, c) <= Counted(RegisteredBy(tip), c)
      BY <1>10, <1>16, <3>1, CountedFacts
    <3>4. Counted(RegisteredBy(tip), c) \in Nat  BY <1>16, CountedFacts
    <3>5. d >= Counted(RegisteredBy(tip), c)  BY DEF CInv, Counts, DiskCoversChain
    <3> HIDE DEF r, l, d
    <3>. QED  BY <2>1, <3>2, <3>3, <3>4, <3>5
  <2>3. ~partlyApplied => d = r /\ l = 0
    <3>1. ~partlyApplied => d = r  BY <1>1 DEF CInv, Counts, DownCounters, R
    <3>2. Lost = {} => l = 0
      <4>1. Lost = {} => c \notin Stepped(Lost)  BY DEF Stepped
      <4>2. c \notin Stepped(Lost) => l = 0  BY <1>16, CountedFacts
      <4>. QED  BY <4>1, <4>2, Zenon
    <3>. QED  BY <1>2, <3>1, <3>2, Zenon
  <2>4. dbSupply'[c] = D(c) /\ D(c) = IF c = AllTokens THEN d ELSE d - l  BY <1>1
  <2>5. dbSupply'[c] \in Int /\ dbSupply'[c] >= r /\ (~partlyApplied => dbSupply'[c] = r)
    <3> HIDE DEF r, l, d, D
    <3>. QED  BY <2>1, <2>2, <2>3, <2>4
  <2>6. E[c] = IF c \in CheckedItems THEN r ELSE d
    <3> DEFINE k == Counted(CheckedItems, c)
    <3>1. k \in Nat  BY <1>2, CountedFacts
    <3>2. Decreased(dbSupply, CheckedItems)[c] = d - k  BY DEF Decreased
    <3>3. E[c] = (IF c \in CheckedItems THEN 0 ELSE d - k) + k  BY <3>2 DEF Increased
    <3>4. c \in CheckedItems => k = r  BY <1>17
    <3> HIDE DEF E, d, k, r
    <3>. QED  BY <2>1, <3>1, <3>3, <3>4
  <2>7. E[c] >= r /\ (~partlyApplied => E[c] = r)
    <3> HIDE DEF r, l, d, E
    <3>. QED  BY <2>1, <2>2, <2>3, <2>6
  <2>8. m_totalSupply'[c] \in {dbSupply'[c], E[c]}  BY <1>1
  <2> HIDE DEF r, l, d, E, D
  <2>9. m_totalSupply'[c] >= r /\ (~partlyApplied => m_totalSupply'[c] = r)
    BY <2>5, <2>7, <2>8
  <2>. QED  BY <2>5, <2>9 DEF r
<1>19. SupplyCoversChain' /\ DiskCoversChain' /\ CountersExact' /\ DownCounters'
        /\ DownProtocols'
  BY <1>1, <1>4, <1>18 DEF SupplyCoversChain, DiskCoversChain, CountersExact, DownCounters,
                           DownProtocols
<1>. QED  BY <1>11, <1>13, <1>14, <1>19 DEF Counts

\* An empty registry counts nothing.
LEMMA EmptyCounts ==
  ASSUME NfTokensAssumption, chain[0] = {0}, vtx[0] = <<>>,
         tip = 0, diskBest = 0, running = TRUE,
         m_indexSet = [i \in Item |-> NoBlock], dbIndex = m_indexSet,
         m_totalSupply = [c \in Counter |-> 0], dbSupply = m_totalSupply
  PROVE  Counts
<1>1. Items(0) = {}
  <2>1. DOMAIN <<>> = {}  OBVIOUS
  <2>. QED  BY <2>1 DEF Items
<1>2. RegisteredBy(0) = {}  BY <1>1 DEF RegisteredBy
<1>3. ASSUME NEW c \in Counter  PROVE Counted({}, c) = 0
  <2>1. c \notin Stepped({}) /\ {} \in SUBSET Item  BY DEF Stepped
  <2>. QED  BY <2>1, CountedFacts
<1>4. ProtocolsBelow /\ ItemsPlaced  BY <1>1 DEF ProtocolsBelow, ActiveChain, ItemsPlaced
<1>5. Leftovers  BY DEF Leftovers
<1>6. RegisteredBy(tip) = {}  BY <1>2
<1>7. ASSUME NEW c \in Counter
      PROVE  m_totalSupply[c] = 0 /\ dbSupply[c] = 0 /\ Counted(RegisteredBy(tip), c) = 0
  BY <1>3, <1>6
<1>8. SupplyCoversChain  BY <1>7 DEF SupplyCoversChain
<1>9. DiskCoversChain  BY <1>7 DEF DiskCoversChain
<1>10. CountersExact  BY <1>7 DEF CountersExact
<1>11. DownCounters /\ DownProtocols  BY DEF DownCounters, DownProtocols
<1>. QED  BY <1>4, <1>5, <1>8, <1>9, <1>10, <1>11 DEF Counts

LEMMA ReindexCounts ==
  ASSUME NfTokensAssumption, IInv, Reindex
  PROVE  Counts'
<1>1. /\ running' = TRUE /\ tip' = 0 /\ diskBest' = 0
      /\ m_indexSet' = [i \in Item |-> NoBlock] /\ m_totalSupply' = [c \in Counter |-> 0]
      /\ dbIndex' = m_indexSet' /\ dbSupply' = m_totalSupply'
      /\ nBlocks' = nBlocks /\ chain' = chain /\ nHeight' = nHeight /\ vtx' = vtx
  BY DEF Reindex, treeVars
<1>2. chain'[0] = {0} /\ vtx'[0] = <<>>  BY <1>1 DEF IInv, Tree
<1>3. Items(0)' = {}
  <2>1. DOMAIN <<>> = {}  OBVIOUS
  <2>. QED  BY <1>2, <2>1 DEF Items
<1>4. RegisteredBy(tip)' = {}
  <2>1. RegisteredBy(tip)' = UNION {Items(a)' : a \in {0}}  BY <1>1, <1>2 DEF RegisteredBy
  <2>. QED  BY <1>3, <2>1
<1>5. ASSUME NEW c \in Counter  PROVE Counted({}, c) = 0
  <2>1. c \notin Stepped({}) /\ {} \in SUBSET Item  BY DEF Stepped
  <2>. QED  BY <2>1, CountedFacts
<1>6. ProtocolsBelow' /\ ItemsPlaced'
  BY <1>1, <1>2, <1>3 DEF ProtocolsBelow, ActiveChain, ItemsPlaced
<1>7. Leftovers'  BY <1>1 DEF Leftovers
<1>8. ASSUME NEW c \in Counter
      PROVE  m_totalSupply'[c] = 0 /\ dbSupply'[c] = 0 /\ Counted(RegisteredBy(tip)', c) = 0
  BY <1>1, <1>4, <1>5
<1>9. SupplyCoversChain'  BY <1>8 DEF SupplyCoversChain
<1>10. DiskCoversChain'  BY <1>8 DEF DiskCoversChain
<1>11. CountersExact'  BY <1>8 DEF CountersExact
<1>12. DownCounters' /\ DownProtocols'  BY <1>1 DEF DownCounters, DownProtocols
<1>. QED  BY <1>6, <1>7, <1>9, <1>10, <1>11, <1>12 DEF Counts

\* The counters along every behaviour.
LEMMA CountsInvariance == Spec => [](IInv /\ (Recovers => Counts))
<1> DEFINE Inv == IInv /\ (Recovers => Counts)
<1>1. Init => Inv
  <2> SUFFICES ASSUME Init  PROVE Counts  BY NfTokensAssumption, InitHolds
  <2>1. chain[0] = {0} /\ vtx[0] = <<>>
    BY NfTokensAssumption DEF Init, NfTokensAssumption, Block
  <2>. QED  BY <2>1, NfTokensAssumption, EmptyCounts DEF Init
<1>2. Inv /\ [Next]_vars => Inv'
  <2> SUFFICES ASSUME Inv, [Next]_vars, Recovers'  PROVE Counts'
    BY NfTokensAssumption, StepKeeps
  <2>1. CASE Reindex  BY <2>1, NfTokensAssumption, ReindexCounts
  <2>2. CASE Next /\ ~Reindex
    <3>1. partlyApplied => partlyApplied'
      BY <2>2 DEF Next, AcceptBlock, ReceiveAgain, ConnectTip, RefuseBlock, DisconnectTip,
                  FlushStateToDisk, Crash, Start
    <3>2. CInv  BY <3>1 DEF CInv, Recovers
    <3>3. ASSUME NEW b \in Block, ReceiveAgain(b)  PROVE Counts'
      BY <3>2, <3>3, CountsFrame DEF CInv, ReceiveAgain
    <3>4. ASSUME NEW b \in Block, ConnectTip(b) \/ RefuseBlock(b)  PROVE Counts'
      BY <3>2, <3>4, NfTokensAssumption, ConnectCounts, RefuseCounts
    <3>. QED  BY <2>2, <3>2, <3>3, <3>4, NfTokensAssumption, AcceptCounts, DisconnectCounts,
               FlushCounts, CrashCounts, StartCounts DEF Next
  <2>3. CASE UNCHANGED vars
    <3>1. Recovers  BY <2>3 DEF vars, Recovers
    <3>. QED  BY <2>3, <3>1, CountsFrame DEF vars, memVars
  <2>. QED  BY <2>1, <2>2, <2>3
<1>. QED  BY <1>1, <1>2, PTL DEF Spec

\* The unsigned counters of tokens and protocols never fall below what the
\* active chain registers, so that no decrement passes zero, whatever refused
\* blocks and crashes leave behind, as long as a start verifies the chain.
THEOREM SupplyCovers ==
  ASSUME CheckBlocks >= MaxBlock
  PROVE  Spec => []SupplyCoversChain
<1>1. IInv /\ (Recovers => Counts) => SupplyCoversChain  BY DEF Recovers, Counts
<1>. QED  BY <1>1, CountsInvariance, PTL

\* As long as no block was applied in part, TotalSupply and TotalProtocolsCount
\* say, in memory and on disk, what the active chain registers.
THEOREM CountersAreExact == Spec => []CountersExact
<1>1. IInv /\ (Recovers => Counts) => CountersExact  BY DEF Recovers, Counts, CountersExact
<1>. QED  BY <1>1, CountsInvariance, PTL

=============================================================================
