------------------------- MODULE MnPosLedger_proofs -------------------------
(***************************************************************************)
(* The block tree of MnPosChain implements the ledger of StakeLedger: its  *)
(* initial states are ledgers of proof of work blocks, and every step      *)
(* extends the ledger, cuts it back, or does not change it.                *)
(***************************************************************************)
EXTENDS MnPosLedger, MnPosChain_proofs

\* Disconnecting blocks cuts the ledger back.
LEMMA DisconnectTruncates ==
  ASSUME TInv, NEW t \in ActiveChain, DisconnectTo(t), UNCHANGED treeVars
  PROVE  Ledger!Next \/ UNCHANGED Ledger!ledgerVars
<1>0. TypeOK /\ IndexIsTree /\ tip \in mapBlockIndex /\ nHeight[tip] \in Nat
  BY DEF TInv, TypeOK
<1>1. tip' = t /\ nHeight' = nHeight /\ ancestor' = ancestor /\ stakeSource' = stakeSource
  BY DEF DisconnectTo, treeVars
<1>2. nHeight[t] \in 0..nHeight[tip] /\ ancestor[tip][nHeight[t]] = t  BY <1>0, ActiveAt
<1>3. CASE nHeight[t] = nHeight[tip]
  <2>1. t = tip  BY <1>0, <1>2, <1>3 DEF IndexIsTree
  <2>. QED  BY <2>1, <1>1 DEF Ledger!ledgerVars, ActiveLedger
<1>4. CASE nHeight[t] # nHeight[tip]
  <2> DEFINE n == nHeight[t]
  <2>1. n \in 0..(nHeight[tip] - 1)  BY <1>0, <1>2, <1>4
  <2>2. \A i \in 0..n : ancestor[t][i] = ancestor[tip][i]
    BY <1>0, <1>2 DEF IndexIsTree
  <2>3. ActiveLedger' = [i \in 0..n |-> ActiveLedger[i]]
    <3>1. ActiveLedger' =
            [i \in 0..n |-> [block |-> ancestor[t][i], source |-> stakeSource[ancestor[t][i]]]]
      BY <1>1 DEF ActiveLedger
    <3>2. \A i \in 0..n : ActiveLedger[i] =
            [block |-> ancestor[t][i], source |-> stakeSource[ancestor[t][i]]]
      BY <2>1, <2>2, <1>0 DEF ActiveLedger
    <3>. QED  BY <3>1, <3>2
  <2>4. nHeight'[tip'] = n  BY <1>1
  <2>. QED  BY <2>1, <2>3, <2>4 DEF Ledger!Next, Ledger!Truncate
<1>. QED  BY <1>3, <1>4

\* Connecting a block extends the ledger: the record of used pointers, which
\* CheckBlockProofPointer consults, answers for the whole ledger.
LEMMA ConnectExtends ==
  ASSUME IInv, ChainAssumption, NEW b \in mapBlockIndex, nHeight[b] = nHeight[tip] + 1,
         Prev(b) = tip, CheckStake(b), tip' = b, UNCHANGED treeVars
  PROVE  Ledger!Next
<1>0. /\ TInv /\ UsedMapExact /\ TypeOK /\ IndexIsTree
      /\ nHeight[tip] \in Nat /\ nHeight[b] \in Nat /\ b \in Block
      /\ tip \in mapBlockIndex /\ PoSStartHeight \in Nat
  BY DEF IInv, TInv, TypeOK, ChainAssumption
<1>1. nHeight' = nHeight /\ ancestor' = ancestor /\ stakeSource' = stakeSource
  BY DEF treeVars
<1> DEFINE H == nHeight[tip]
           e == [block |-> b, source |-> stakeSource[b]]
<1>2. \A i \in 0..H : ancestor[b][i] = ancestor[tip][i]
  <2>1. H \in 0..nHeight[b] /\ ancestor[b][H] = tip  BY <1>0 DEF Prev
  <2>. QED  BY <2>1, <1>0 DEF IndexIsTree
<1>3. ancestor[b][nHeight[b]] = b  BY <1>0 DEF IndexIsTree
<1>4. \A i \in 0..H : /\ ActiveLedger[i].block = ancestor[tip][i]
                      /\ ActiveLedger[i].source = stakeSource[ancestor[tip][i]]
  BY DEF ActiveLedger
<1>5. \A i \in 0..H : /\ ancestor[tip][i] \in ActiveChain
                      /\ ancestor[tip][i] \in mapBlockIndex
                      /\ nHeight[ancestor[tip][i]] = i
  BY <1>0, ChainOfAncestor DEF ActiveChain, ChainOf
<1>6. \A i \in 0..H : ActiveLedger[i].block # b
  BY <1>0, <1>4, <1>5
<1>7. e \in Ledger!Entry
  BY <1>0 DEF Ledger!Entry, TypeOK, Pointer
<1>8. nHeight'[tip'] = H + 1  BY <1>1
<1>9. ActiveLedger' = [i \in 0..(H + 1) |-> IF i = H + 1 THEN e ELSE ActiveLedger[i]]
  <2>1. ActiveLedger' =
          [i \in 0..(H + 1) |-> [block |-> ancestor[b][i], source |-> stakeSource[ancestor[b][i]]]]
    BY <1>1 DEF ActiveLedger
  <2>2. ASSUME NEW i \in 0..(H + 1)
        PROVE  [block |-> ancestor[b][i], source |-> stakeSource[ancestor[b][i]]]
                 = IF i = H + 1 THEN e ELSE ActiveLedger[i]
    <3>1. CASE i = H + 1  BY <3>1, <1>3
    <3>2. CASE i # H + 1
      <4>1. i \in 0..H  BY <3>2, <1>0
      <4>. QED  BY <4>1, <3>2, <1>2 DEF ActiveLedger
    <3>. QED  BY <3>1, <3>2
  <2>. QED  BY <2>1, <2>2
<1>10. CASE H + 1 < PoSStartHeight
  <2>1. stakeSource[b] = NoPointer  BY <1>0, <1>10 DEF CheckStake, IsProofOfStake
  <2>. QED  BY <2>1, <1>6, <1>7, <1>8, <1>9, <1>10 DEF Ledger!Next, Ledger!Extend
<1>11. CASE ~(H + 1 < PoSStartHeight)
  <2> DEFINE p == stakeSource[b]
             from == p[1]
  <2>1. /\ p # NoPointer /\ from \in mapBlockIndex /\ Contains(from)
        /\ nHeight[from] >= nHeight[b] - ValidStakePointerDuration
        /\ nHeight[from] <= nHeight[b] - MaxReorganizationDepth
        /\ ~IsStakePointerUsed(b, p)
    BY <1>0, <1>11 DEF CheckStake, CheckBlockProofPointer, IsProofOfStake
  <2>2. p \in Pointer  BY <2>1, <1>0 DEF TypeOK
  <2>3. ASSUME NEW i \in 0..H, ActiveLedger[i].source = p PROVE FALSE
    <3> DEFINE user == ancestor[tip][i]
    <3>1. user \in ActiveChain /\ user \in mapBlockIndex /\ nHeight[user] = i
      BY <1>5
    <3>2. stakeSource[user] = p  BY <2>3, <1>4
    <3>3. mapUsedStakePointers[p] = user
      BY <3>1, <3>2, <2>1, <1>0 DEF UsedMapExact, IsProofOfStake
    <3>4. GetAncestor(b, i) = user /\ b # user /\ nHeight[b] >= i
      BY <3>1, <1>0, <1>2 DEF GetAncestor
    <3>. QED  BY <2>1, <3>1, <3>3, <3>4 DEF IsStakePointerUsed
  <2>4. nHeight[from] \in 0..H /\ ancestor[tip][nHeight[from]] = from
    <3> HIDE DEF from
    <3>1. from \in ActiveChain  BY <2>1, <1>0, ContainsIsMembership
    <3>. QED  BY <3>1, <1>0, ActiveAt
  <2>5. \E i \in 0..H :
          /\ ActiveLedger[i].block = p[1]
          /\ H + 1 - ValidStakePointerDuration <= i
          /\ i <= H + 1 - MaxReorganizationDepth
    <3>1. ActiveLedger[nHeight[from]].block = from  BY <2>4, <1>4
    <3> HIDE DEF from
    <3>2. p[1] = from  BY DEF from
    <3>3. H + 1 = nHeight[b]  OBVIOUS
    <3>4. /\ H + 1 - ValidStakePointerDuration <= nHeight[from]
          /\ nHeight[from] <= H + 1 - MaxReorganizationDepth
      BY <2>1, <2>4, <3>3, <1>0 DEF ChainAssumption
    <3> HIDE DEF p
    <3>. QED  BY <2>4, <3>1, <3>2, <3>4
  <2>6. Ledger!Spendable(p)  BY <2>3, <2>5 DEF Ledger!Spendable
  <2> HIDE DEF p
  <2>7. e.source = p /\ e.block = b  BY DEF p
  <2>. QED  BY <2>1, <2>6, <2>7, <1>6, <1>7, <1>8, <1>9, <1>11 DEF Ledger!Next, Ledger!Extend
<1>. QED  BY <1>10, <1>11

\* The block tree implements the ledger: through any arrival, reorganisation,
\* failed reorganisation, invalidation and replay, chainActive changes only by
\* a block whose pointer is mature and unused in chainActive, or by a cut.
THEOREM TreeImplementsLedger == Spec => ImplementsLedger
<1>1. Init => IInv  BY InitIInv, ChainAssumption
<1>2. IInv /\ [Next]_vars => IInv'  BY NextIInv, ChainAssumption
<1>3. Init => Ledger!Init
  <2> SUFFICES ASSUME Init PROVE Ledger!Init  OBVIOUS
  <2>1. /\ InitHeight \in Nat /\ MaxBlock \in Nat /\ InitHeight \in Block
        /\ PoSStartHeight \in Nat /\ InitHeight < PoSStartHeight
        /\ 0..InitHeight \subseteq Block
    BY ChainAssumption DEF ChainAssumption, Block
  <2>2. /\ tip = InitHeight /\ nHeight[tip] = InitHeight
        /\ ancestor[tip] = [h \in 0..InitHeight |-> h]
        /\ stakeSource = [x \in Block |-> NoPointer]
    BY <2>1 DEF Init
  <2>3. ActiveLedger = [h \in 0..InitHeight |-> [block |-> h, source |-> NoPointer]]
    BY <2>1, <2>2 DEF ActiveLedger
  <2>4. nHeight[tip] \in 0..(PoSStartHeight - 1)  BY <2>1, <2>2
  <2>5. ActiveLedger \in [0..nHeight[tip] -> [block : Block, source : {NoPointer}]]
    BY <2>1, <2>2, <2>3
  <2>. QED  BY <2>4, <2>5 DEF Ledger!Init
<1>4. IInv /\ [Next]_vars => [Ledger!Next]_(Ledger!ledgerVars)
  <2> SUFFICES ASSUME IInv, [Next]_vars
               PROVE  Ledger!Next \/ UNCHANGED Ledger!ledgerVars
    OBVIOUS
  <2>0. TInv /\ TypeOK /\ IndexIsTree /\ tip \in mapBlockIndex
    BY DEF IInv, TInv, TypeOK
  <2>1. CASE /\ tip' = tip /\ mapUsedStakePointers' = mapUsedStakePointers
             /\ \A x \in mapBlockIndex : /\ nHeight'[x] = nHeight[x]
                                         /\ ancestor'[x] = ancestor[x]
                                         /\ stakeSource'[x] = stakeSource[x]
    <3>1. \A h \in 0..nHeight[tip] : ancestor[tip][h] \in mapBlockIndex
      BY <2>0, ChainOfAncestor
    <3>2. nHeight'[tip'] = nHeight[tip] /\ ancestor'[tip'] = ancestor[tip]
      BY <2>0, <2>1
    <3>3. ActiveLedger' = ActiveLedger
      BY <2>1, <3>1, <3>2 DEF ActiveLedger
    <3>. QED  BY <3>2, <3>3 DEF Ledger!ledgerVars
  <2>2. CASE \E t \in ActiveChain : DisconnectTo(t) /\ UNCHANGED treeVars
    BY <2>0, <2>2, DisconnectTruncates
  <2>3. CASE \E b \in mapBlockIndex :
               /\ nHeight[b] = nHeight[tip] + 1 /\ Prev(b) = tip /\ CheckStake(b)
               /\ tip' = b /\ EmplacePointer(b) /\ UNCHANGED treeVars
    BY <2>3, ConnectExtends, ChainAssumption
  <2>. QED  BY <2>0, <2>1, <2>2, <2>3, ActiveChainSteps, ChainAssumption
<1>. QED  BY <1>1, <1>2, <1>3, <1>4, PTL DEF Spec, ImplementsLedger, Ledger!Spec
=============================================================================
