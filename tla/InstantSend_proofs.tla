------------------------- MODULE InstantSend_proofs -------------------------
(***************************************************************************)
(* What InstantSend guarantees for every set of transactions, masternodes, *)
(* heights and rankings.                                                   *)
(***************************************************************************)
EXTENDS InstantSend, FiniteSetTheorems, TLAPS

\* The blocks that a replay drops are a suffix of a finite chain.
LEMMA DroppedCount ==
  ASSUME TypeOK, NEW L
  PROVE  /\ Cardinality(Dropped(L)) \in 0..Len(confirmed)
         /\ IsFiniteSet(Dropped(L))
<1>1. Dropped(L) \subseteq 1..Len(confirmed)
  BY DEF Dropped, TypeOK
<1>2. /\ IsFiniteSet(1..Len(confirmed))
      /\ Cardinality(1..Len(confirmed)) = Len(confirmed)
  <2> DEFINE k == Len(confirmed)
  <2>1. k \in Nat
    BY DEF TypeOK
  <2> HIDE DEF k
  <2>2. IsFiniteSet(1..k) /\ Cardinality(1..k) = IF 1 > k THEN 0 ELSE k - 1 + 1
    BY <2>1, FS_Interval
  <2>3. Cardinality(1..k) = k
    BY <2>1, <2>2
  <2> QED BY <2>2, <2>3 DEF k
<1> QED BY <1>1, <1>2, FS_Subset, FS_CardinalityType DEF TypeOK

\* The memory pool and the chain keep their types through a replay, and what is
\* left of the chain is a prefix of it.
LEMMA ReprocessKeeps ==
  ASSUME TypeOK, NEW L, ReprocessBlocks(L)
  PROVE  /\ mempool' \subseteq Tx
         /\ confirmed' \in Seq(Tx \cup {NoTx})
         /\ Len(confirmed') <= Len(confirmed)
         /\ Len(confirmed') = Len(confirmed) - Cardinality(Dropped(L))
         /\ \A i \in DOMAIN confirmed' : i \in DOMAIN confirmed /\ confirmed'[i] = confirmed[i]
<1> DEFINE n == Len(confirmed) - Cardinality(Dropped(L))
<1>1. n \in 0..Len(confirmed)
  BY DroppedCount DEF TypeOK
<1>2. confirmed' = SubSeq(confirmed, 1, n)
  BY DEF ReprocessBlocks
<1> HIDE DEF n
<1>3. /\ confirmed' \in Seq(Tx \cup {NoTx})
      /\ Len(confirmed') = n
      /\ \A i \in 1..n : confirmed'[i] = confirmed[i]
  BY <1>1, <1>2 DEF TypeOK
<1>4. mempool' \subseteq Tx
  <2>1. \A i \in Dropped(L) : confirmed[i] \in Tx \cup {NoTx}
    BY DEF Dropped, TypeOK
  <2> QED BY <2>1 DEF ReprocessBlocks, TypeOK
<1>5. Len(confirmed') = Len(confirmed) - Cardinality(Dropped(L))
  BY <1>3 DEF n
<1> QED BY <1>1, <1>3, <1>4, <1>5 DEF TypeOK

(***************************************************************************)
(* Types.                                                                  *)
(***************************************************************************)

\* Locking inputs gives each outpoint at most one owner, and the lifetime of a
\* lock, new, kept or cut short by a conflict, is a lifetime.
LEMMA LockOperatorTypes ==
  ASSUME TypeOK, NEW t \in Tx
  PROVE  /\ LockInputs(t) \in [Outpoint -> Tx \cup {NoTx}]
         /\ ExpirationOf(t) \in [Tx -> -1..LockDuration]
         /\ \A c : CancelBoth(t, c) => m_expiration' \in [Tx -> -1..LockDuration]
<1>1. LockInputs(t) \in [Outpoint -> Tx \cup {NoTx}]
  BY DEF LockInputs, TypeOK
<1>2. ExpirationOf(t) \in [Tx -> -1..LockDuration]
  BY InstantSendAssumption DEF ExpirationOf, TypeOK
<1>3. ASSUME NEW c, CancelBoth(t, c)
      PROVE  m_expiration' \in [Tx -> -1..LockDuration]
  BY <1>3, InstantSendAssumption DEF CancelBoth, TypeOK
<1> QED BY <1>1, <1>2, <1>3

\* The lock that CreateNewLock leaves has the height of the transaction.
LEMMA CreateNewLockTypes ==
  ASSUME TypeOK, NEW t \in Tx, CreateNewLock(t)
  PROVE  /\ m_txLocks' \subseteq Tx
         /\ nBlockHeight' \in [Tx -> Height \cup {0}]
         /\ m_expiration' \in [Tx -> -1..LockDuration]
         /\ m_txLockReq' \subseteq Tx
         /\ vecConsensusVotes' = vecConsensusVotes
BY LockOperatorTypes, InstantSendAssumption DEF CreateNewLock, TypeOK

\* Init has the types.
LEMMA InitType == Init => TypeOK
BY InstantSendAssumption DEF Init, TypeOK

\* Every step of the node keeps the types.
LEMMA NextType == TypeOK /\ [Next]_vars => TypeOK'
<1> SUFFICES ASSUME TypeOK, [Next]_vars PROVE TypeOK'
  OBVIOUS
<1>1. ASSUME NEW t \in Tx, IxRequest(t) PROVE TypeOK'
  <2>1. CreateNewLock(t)  BY <1>1 DEF IxRequest
  <2> QED BY <1>1, <2>1, CreateNewLockTypes DEF IxRequest, TypeOK, chainVars
<1>2. ASSUME NEW t \in Tx, IxAccepted(t) PROVE TypeOK'
  <2>1. m_txLockVote' \subseteq Masternode \X Tx
    BY <1>2, InstantSendAssumption DEF IxAccepted, DoConsensusVote, TypeOK
  <2> QED BY <1>2, <2>1 DEF IxAccepted, TypeOK, lockVars
<1>3. ASSUME NEW t \in Tx, IxRejected(t) PROVE TypeOK'
  <2>1. m_expiration' \in [Tx -> -1..LockDuration] /\ m_txLockReq' \subseteq Tx
    BY <1>3, LockOperatorTypes DEF IxRejected, TypeOK
  <2>2. mempool' \subseteq Tx /\ confirmed' \in Seq(Tx \cup {NoTx})
    <3>1. CASE UNCHANGED chainVars
      BY <3>1 DEF chainVars, TypeOK
    <3>2. CASE ReprocessBlocks(LockInputs(t))
      BY <3>2, ReprocessKeeps
    <3> QED BY <1>3, <3>1, <3>2 DEF IxRejected
  <2>3. m_lockedInputs' \in [Outpoint -> Tx \cup {NoTx}]
    BY <1>3, LockOperatorTypes DEF IxRejected
  <2> QED BY <1>3, <2>1, <2>2, <2>3 DEF IxRejected, TypeOK
<1>4. ASSUME NEW m \in Masternode, NEW t \in Tx, NEW h \in Height, TxLockVote(m, t, h)
      PROVE  TypeOK'
  <2>1. /\ m_lockedInputs' \in [Outpoint -> Tx \cup {NoTx}]
        /\ m_txLocks' \subseteq Tx
        /\ vecConsensusVotes' \in [Tx -> Seq(Vote)]
        /\ m_expiration' \in [Tx -> -1..LockDuration]
        /\ mempool' \subseteq Tx
        /\ confirmed' \in Seq(Tx \cup {NoTx})
    <3>1. CASE ProcessConsensusVote(m, t, h)
      <4>1. [vinMasternode |-> m, nBlockHeight |-> h] \in Vote
        BY DEF Vote
      <4>2. m_txLocks' \subseteq Tx /\ vecConsensusVotes' \in [Tx -> Seq(Vote)]
        BY <3>1, <4>1 DEF ProcessConsensusVote, TypeOK
      <4>3. CASE CompleteLock(t)
        <5>1. m_lockedInputs' \in [Outpoint -> Tx \cup {NoTx}]
          BY <4>3, LockOperatorTypes DEF CompleteLock, TypeOK
        <5>2. m_expiration' \in [Tx -> -1..LockDuration]
          BY <4>3, LockOperatorTypes DEF CompleteLock, TypeOK
        <5>3. mempool' \subseteq Tx /\ confirmed' \in Seq(Tx \cup {NoTx})
          <6>1. CASE UNCHANGED chainVars
            BY <6>1 DEF chainVars, TypeOK
          <6>2. CASE ReprocessBlocks(LockInputs(t))
            BY <6>2, ReprocessKeeps
          <6> QED BY <4>3, <6>1, <6>2 DEF CompleteLock
        <5> QED BY <4>2, <5>1, <5>2, <5>3
      <4>4. CASE m_expiration' = ExpirationOf(t) /\ UNCHANGED <<m_lockedInputs, chainVars>>
        BY <4>2, <4>4, LockOperatorTypes DEF chainVars, TypeOK
      <4> QED BY <3>1, <4>3, <4>4 DEF ProcessConsensusVote
    <3>2. CASE UNCHANGED <<m_lockedInputs, m_txLocks, vecConsensusVotes, m_expiration, chainVars>>
      BY <3>2 DEF chainVars, TypeOK
    <3> QED BY <1>4, <3>1, <3>2 DEF TxLockVote
  <2>2. m_txLockVote' \subseteq Masternode \X Tx
    <3>1. m_txLockVote' = m_txLockVote \cup {<<m, t>>}  BY <1>4 DEF TxLockVote
    <3> QED BY <3>1 DEF TypeOK
  <2>3. UNCHANGED <<m_txLockReq, m_txLockReqRejected, nBlockHeight, ixTx>>
    BY <1>4 DEF TxLockVote
  <2> QED BY <2>1, <2>2, <2>3 DEF TypeOK
<1>5. CASE CheckAndRemove
  <2>1. m_txLockVote' \subseteq Masternode \X Tx
    BY <1>5 DEF CheckAndRemove, TypeOK
  <2>2. vecConsensusVotes' \in [Tx -> Seq(Vote)]
    BY <1>5 DEF CheckAndRemove, TypeOK
  <2>3. /\ m_lockedInputs' \in [Outpoint -> Tx \cup {NoTx}]
        /\ nBlockHeight' \in [Tx -> Height \cup {0}]
    BY <1>5 DEF CheckAndRemove, TypeOK
  <2>4. m_expiration' \in [Tx -> -1..LockDuration]
    BY <1>5, InstantSendAssumption DEF CheckAndRemove, TypeOK
  <2>5. /\ m_txLockReq' \subseteq Tx
        /\ m_txLockReqRejected' \subseteq Tx
        /\ m_txLocks' \subseteq Tx
        /\ UNCHANGED <<mempool, confirmed, ixTx>>
    BY <1>5 DEF CheckAndRemove, TypeOK, chainVars
  <2> QED BY <2>1, <2>2, <2>3, <2>4, <2>5 DEF TypeOK
<1>6. CASE Tick
  BY <1>6, InstantSendAssumption DEF Tick, TypeOK, chainVars
<1>7. ASSUME NEW t \in Tx, ReceiveTx(t) PROVE TypeOK'
  BY <1>7 DEF ReceiveTx, TypeOK, lockVars
<1>8. ASSUME NEW t \in Tx, WalletSend(t) PROVE TypeOK'
  <2>1. CreateNewLock(t)  BY <1>8 DEF WalletSend
  <2> QED BY <1>8, <2>1, CreateNewLockTypes DEF WalletSend, TypeOK
<1>9. ASSUME NEW b \in Tx \cup {NoTx}, ConnectBlock(b) PROVE TypeOK'
  BY <1>9 DEF ConnectBlock, TypeOK, lockVars
<1>10. CASE Restart
  BY <1>10 DEF Restart, TypeOK, lockVars
<1>11. CASE UNCHANGED vars
  BY <1>11 DEF vars, lockVars, chainVars, TypeOK
<1> QED BY <1>1, <1>2, <1>3, <1>4, <1>5, <1>6, <1>7, <1>8, <1>9, <1>10, <1>11 DEF Next

\* InstantSend keeps every structure within its type, whatever the order of
\* messages, blocks, maintenance and restarts.
THEOREM TypeCorrect == Spec => []TypeOK
BY InitType, NextType, PTL DEF Spec

(***************************************************************************)
(* The locks.  The height of a lock is unknown or the one derived from the *)
(* transaction, and every vote of it was cast by a masternode ranked at    *)
(* the height that the vote names.                                         *)
(***************************************************************************)

HeightsDerived == \A t \in Tx : nBlockHeight[t] \in {0, TxHeight[t]}

VotesRanked ==
  \A t \in Tx : \A i \in DOMAIN vecConsensusVotes[t] :
    vecConsensusVotes[t][i].vinMasternode \in Top[vecConsensusVotes[t][i].nBlockHeight]

LocksSound == RequestKnown /\ HeightsDerived /\ VotesRanked

\* A new lock keeps what is known of the others.
LEMMA CreateNewLockSound ==
  ASSUME TypeOK, LocksSound, NEW t \in Tx, CreateNewLock(t)
  PROVE  LocksSound'
<1>1. \A u \in Tx : nBlockHeight'[u] = IF u = t THEN TxHeight[t] ELSE nBlockHeight[u]
  BY DEF CreateNewLock, TypeOK
<1>2. RequestKnown'
  BY <1>1 DEF CreateNewLock, LocksSound, RequestKnown
<1>3. HeightsDerived'
  BY <1>1 DEF LocksSound, HeightsDerived
<1>4. VotesRanked'
  BY DEF CreateNewLock, LocksSound, VotesRanked
<1> QED BY <1>2, <1>3, <1>4 DEF LocksSound

\* Steps that leave heights, votes and locks alone, and forget no request.
LEMMA SameLocksSound ==
  ASSUME LocksSound, UNCHANGED <<m_txLocks, nBlockHeight, vecConsensusVotes>>,
         m_txLockReq \subseteq m_txLockReq'
  PROVE  LocksSound'
BY DEF LocksSound, RequestKnown, HeightsDerived, VotesRanked

\* Every step keeps the locks sound: a vote adds a ranked signature, and what
\* expires is forgotten together with its height.
LEMMA NextSound == TypeOK /\ LocksSound /\ [Next]_vars => LocksSound'
<1> SUFFICES ASSUME TypeOK, LocksSound, [Next]_vars PROVE LocksSound'
  OBVIOUS
<1>1. ASSUME NEW t \in Tx, IxRequest(t) PROVE LocksSound'
  BY <1>1, CreateNewLockSound DEF IxRequest
<1>2. ASSUME NEW t \in Tx, IxAccepted(t) PROVE LocksSound'
  BY <1>2, SameLocksSound DEF IxAccepted, lockVars
<1>3. ASSUME NEW t \in Tx, IxRejected(t) PROVE LocksSound'
  BY <1>3, SameLocksSound DEF IxRejected
<1>4. ASSUME NEW m \in Masternode, NEW t \in Tx, NEW h \in Height, TxLockVote(m, t, h)
      PROVE  LocksSound'
  <2>1. CASE ProcessConsensusVote(m, t, h)
    <3>1. /\ m_txLocks \subseteq m_txLocks'
          /\ UNCHANGED <<nBlockHeight, m_txLockReq>>
      BY <1>4, <2>1 DEF TxLockVote, ProcessConsensusVote
    <3>2. RequestKnown' /\ HeightsDerived'
      BY <3>1 DEF LocksSound, RequestKnown, HeightsDerived
    <3>3. VotesRanked'
      <4> DEFINE v == [vinMasternode |-> m, nBlockHeight |-> h]
      <4>1. vecConsensusVotes' = [vecConsensusVotes EXCEPT ![t] = Append(@, v)]
        BY <2>1 DEF ProcessConsensusVote
      <4>2. v.vinMasternode \in Top[v.nBlockHeight]
        BY <2>1 DEF ProcessConsensusVote
      <4> SUFFICES ASSUME NEW u \in Tx, NEW i \in DOMAIN vecConsensusVotes'[u]
                   PROVE  vecConsensusVotes'[u][i].vinMasternode
                            \in Top[vecConsensusVotes'[u][i].nBlockHeight]
        BY DEF VotesRanked
      <4>3. CASE u = t
        <5>1. vecConsensusVotes'[t] = Append(vecConsensusVotes[t], v)
          BY <4>1 DEF TypeOK
        <5>2. vecConsensusVotes[t] \in Seq(Vote) /\ v \in Vote
          BY DEF TypeOK, Vote
        <5> HIDE DEF v
        <5>3. CASE i \in DOMAIN vecConsensusVotes[t]
          <6>1. vecConsensusVotes'[t][i] = vecConsensusVotes[t][i]
            BY <5>1, <5>2, <5>3
          <6> QED BY <4>3, <5>3, <6>1 DEF LocksSound, VotesRanked
        <5>4. CASE i \notin DOMAIN vecConsensusVotes[t]
          <6>1. vecConsensusVotes'[t][i] = v
            BY <4>3, <5>1, <5>2, <5>4
          <6> QED BY <4>2, <4>3, <6>1
        <5> QED BY <5>3, <5>4
      <4>4. CASE u # t
        <5>1. vecConsensusVotes'[u] = vecConsensusVotes[u]
          BY <4>1, <4>4 DEF TypeOK
        <5> QED BY <5>1 DEF LocksSound, VotesRanked
      <4> QED BY <4>3, <4>4
    <3> QED BY <3>2, <3>3 DEF LocksSound
  <2>2. CASE UNCHANGED <<m_lockedInputs, m_txLocks, vecConsensusVotes, m_expiration, chainVars>>
    BY <1>4, <2>2, SameLocksSound DEF TxLockVote
  <2> QED BY <1>4, <2>1, <2>2 DEF TxLockVote
<1>5. CASE CheckAndRemove
  <2> DEFINE expired == {t \in m_txLocks : m_expiration[t] < 0}
  <2>1. /\ m_txLocks' = m_txLocks \ expired
        /\ m_txLockReq' = m_txLockReq \ (expired \cap m_txLockReq)
        /\ nBlockHeight' = [t \in Tx |-> IF t \in expired THEN 0 ELSE nBlockHeight[t]]
        /\ vecConsensusVotes' = [t \in Tx |-> IF t \in expired THEN <<>>
                                              ELSE vecConsensusVotes[t]]
    BY <1>5 DEF CheckAndRemove
  <2> HIDE DEF expired
  <2>2. RequestKnown'
    BY <2>1 DEF LocksSound, RequestKnown
  <2>3. HeightsDerived'
    BY <2>1 DEF LocksSound, HeightsDerived
  <2>4. VotesRanked'
    BY <2>1 DEF LocksSound, VotesRanked
  <2> QED BY <2>2, <2>3, <2>4 DEF LocksSound
<1>6. CASE Tick
  BY <1>6, SameLocksSound DEF Tick
<1>7. ASSUME NEW t \in Tx, ReceiveTx(t) PROVE LocksSound'
  BY <1>7, SameLocksSound DEF ReceiveTx, lockVars
<1>8. ASSUME NEW t \in Tx, WalletSend(t) PROVE LocksSound'
  BY <1>8, CreateNewLockSound DEF WalletSend
<1>9. ASSUME NEW b \in Tx \cup {NoTx}, ConnectBlock(b) PROVE LocksSound'
  BY <1>9, SameLocksSound DEF ConnectBlock, lockVars
<1>10. CASE Restart
  BY <1>10, SameLocksSound DEF Restart, lockVars
<1>11. CASE UNCHANGED vars
  BY <1>11, SameLocksSound DEF vars, lockVars
<1> QED BY <1>1, <1>2, <1>3, <1>4, <1>5, <1>6, <1>7, <1>8, <1>9, <1>10, <1>11 DEF Next

\* Initially there are no locks.
LEMMA InitSound == Init => LocksSound
BY DEF Init, LocksSound, RequestKnown, HeightsDerived, VotesRanked

\* The invariant from which the properties of the locks follow.
LEMMA LocksAreSound == Spec => [](TypeOK /\ LocksSound)
BY InitType, InitSound, NextType, NextSound, PTL DEF Spec

\* A lock whose signatures count belongs to a known request: the lookup
\* m_txLockReq[] of ProcessConsensusVote never makes an empty transaction.
THEOREM CountedLockHasRequest == Spec => []RequestKnown
BY LocksAreSound, PTL DEF LocksSound

\* Only masternodes ranked at the height derived from the transaction complete
\* a lock: CountSignatures makes up for votes that name their own height.
THEOREM OnlyRankedSignatures == Spec => []SignaturesRanked
<1>1. TypeOK /\ LocksSound => SignaturesRanked
  <2> SUFFICES ASSUME TypeOK, LocksSound, NEW t \in Tx, Complete(t)
               PROVE  \E S \in SUBSET DOMAIN vecConsensusVotes[t] :
                        /\ Cardinality(S) >= INSTANTX_SIGNATURES_REQUIRED
                        /\ \A i \in S : vecConsensusVotes[t][i].vinMasternode \in Top[TxHeight[t]]
    BY DEF SignaturesRanked
  <2> DEFINE S == {i \in DOMAIN vecConsensusVotes[t] :
                     vecConsensusVotes[t][i].nBlockHeight = nBlockHeight[t]}
  <2>1. nBlockHeight[t] # 0
    BY InstantSendAssumption DEF Complete, CountSignatures
  <2>2. Cardinality(S) >= INSTANTX_SIGNATURES_REQUIRED
    BY <2>1 DEF Complete, CountSignatures
  <2>3. \A i \in S : vecConsensusVotes[t][i].vinMasternode \in Top[TxHeight[t]]
    BY <2>1 DEF LocksSound, HeightsDerived, VotesRanked
  <2> QED BY <2>2, <2>3
<1> QED BY <1>1, LocksAreSound, PTL

(***************************************************************************)
(* The chain.  A lock of a refused request that comes to prevail replays   *)
(* the blocks; as long as it does, no rival is added.                      *)
(***************************************************************************)

HoldsInputs(t) == \A o \in Inputs[t] : m_lockedInputs[o] = t

\* What a step must keep for t, as in RejectedLockEnforced.
RivalsKept(t) ==
  Rivals(t)' \subseteq IF Prevails(t) THEN Rivals(t) ELSE Rivals(t) \ Reached

\* A replay leaves no block within its reach that spends an input which t locks.
LEMMA ReplayRemovesRivals ==
  ASSUME TypeOK, NEW t \in Tx, NEW L, \A o \in Inputs[t] : L[o] = t, ReprocessBlocks(L)
  PROVE  RivalsKept(t)
<1> SUFFICES ASSUME NEW i \in Rivals(t)'  PROVE i \in Rivals(t) /\ i \notin Reached
  BY DEF RivalsKept
<1>0. i \in DOMAIN confirmed' /\ confirmed'[i] \notin {NoTx, t} /\ Conflicting(t, confirmed'[i])
  BY DEF Rivals, Conflicting
<1>1. i \in DOMAIN confirmed /\ confirmed'[i] = confirmed[i]
  BY <1>0, ReprocessKeeps
<1>a. i \in Rivals(t)
  BY <1>0, <1>1 DEF Rivals
<1> SUFFICES ASSUME i \in Reached  PROVE FALSE
  BY <1>a
<1>2. i \in 1..Len(confirmed) /\ Len(confirmed) \in Nat
  BY <1>1 DEF TypeOK
<1>3. t \in Owners(L, confirmed[i])
  <2>1. PICK o \in Inputs[t] : o \in Inputs[confirmed[i]]
    BY <1>0, <1>1 DEF Conflicting
  <2>2. L[o] = t /\ t # NoTx /\ t # confirmed[i]
    BY <1>0, <1>1, InstantSendAssumption
  <2> QED BY <2>1, <2>2 DEF Owners
<1>5. i \in Spoilt(L)
  BY <1>0, <1>1, <1>3 DEF Spoilt
<1>6. i..Len(confirmed) \subseteq Dropped(L)
  BY <1>2, <1>5 DEF Dropped, TypeOK
<1>7. Cardinality(Dropped(L)) >= Len(confirmed) - i + 1
  <2> DEFINE k == Len(confirmed)
  <2>0. i \in Int /\ k \in Int /\ i <= k
    BY <1>2
  <2> HIDE DEF k
  <2>4. Cardinality(i..k) = IF i > k THEN 0 ELSE k - i + 1
    BY <2>0, FS_Interval
  <2>5. Cardinality(i..k) = k - i + 1
    BY <2>0, <2>4
  <2>1. Cardinality(i..Len(confirmed)) = Len(confirmed) - i + 1
    BY <2>5 DEF k
  <2>2. Cardinality(i..Len(confirmed)) <= Cardinality(Dropped(L))
    BY <1>6, DroppedCount, FS_Subset
  <2>3. Cardinality(Dropped(L)) \in Nat
    BY <1>2, DroppedCount
  <2> QED BY <1>2, <2>1, <2>2, <2>3
<1>8. Len(confirmed') = Len(confirmed) - Cardinality(Dropped(L))
  BY ReprocessKeeps
<1>9. Cardinality(Dropped(L)) \in Nat
  BY <1>2, DroppedCount
<1>10. i \in 1..Len(confirmed')
  BY <1>0, ReprocessKeeps
<1> QED BY <1>2, <1>7, <1>8, <1>9, <1>10

\* A step that does not concern t, and connects no block, changes nothing for t.
LEMMA OthersKeepT ==
  ASSUME NEW t \in m_txLockReqRejected, Prevails(t)',
         nBlockHeight'[t] = nBlockHeight[t],
         vecConsensusVotes'[t] = vecConsensusVotes[t],
         HoldsInputs(t)' => HoldsInputs(t),
         \A i \in DOMAIN confirmed' : i \in DOMAIN confirmed /\ confirmed'[i] = confirmed[i]
  PROVE  RivalsKept(t)
<1>1. Complete(t)
  BY DEF Prevails, Complete
<1>2. Prevails(t)
  BY <1>1 DEF Prevails, HoldsInputs
<1>3. Rivals(t)' \subseteq Rivals(t)
  BY DEF Rivals, Conflicting
<1> QED BY <1>2, <1>3 DEF RivalsKept

\* Locking the inputs of x gives no input to another transaction.
LEMMA LockInputsForX ==
  ASSUME TypeOK, NEW x \in Tx, NEW t \in Tx, t # x, m_lockedInputs' = LockInputs(x),
         HoldsInputs(t)'
  PROVE  HoldsInputs(t)
BY InstantSendAssumption DEF HoldsInputs, LockInputs, TypeOK

\* The number of signatures is a number.
LEMMA CountIsInt ==
  ASSUME NEW height, NEW votes \in Seq(Vote)
  PROVE  CountSignatures(height, votes) \in Int
<1>1. Len(votes) \in Nat /\ DOMAIN votes = 1..Len(votes)
  OBVIOUS
<1>2. IsFiniteSet(DOMAIN votes)
  <2> DEFINE k == Len(votes)
  <2>1. k \in Nat /\ DOMAIN votes = 1..k
    BY <1>1
  <2> HIDE DEF k
  <2>2. IsFiniteSet(1..k)
    BY <2>1, FS_Interval
  <2> QED BY <2>1, <2>2
<1>3. IsFiniteSet({i \in DOMAIN votes : votes[i].nBlockHeight = height})
  BY <1>2, FS_Subset
<1>4. Cardinality({i \in DOMAIN votes : votes[i].nBlockHeight = height}) \in Nat
  BY <1>3, FS_CardinalityType
<1> QED BY <1>4 DEF CountSignatures

\* A vote that completes a lock which holds its inputs replays the blocks if the
\* request was refused.
LEMMA CompletingVoteReplays ==
  ASSUME TypeOK, NEW m \in Masternode, NEW x \in Tx, NEW h \in Height,
         ProcessConsensusVote(m, x, h), nBlockHeight' = nBlockHeight,
         Complete(x)', HoldsInputs(x)', x \in m_txLockReqRejected
  PROVE  /\ ReprocessBlocks(LockInputs(x))
         /\ \A o \in Inputs[x] : LockInputs(x)[o] = x
<1> DEFINE n == CountSignatures(nBlockHeight[x], vecConsensusVotes'[x])
<1>1. n >= INSTANTX_SIGNATURES_REQUIRED
  BY DEF Complete
<1>2. n \in Int
  <2>1. [vinMasternode |-> m, nBlockHeight |-> h] \in Vote
    BY DEF Vote
  <2>2. vecConsensusVotes'[x] \in Seq(Vote)
    BY <2>1 DEF ProcessConsensusVote, TypeOK
  <2> QED BY <2>2, CountIsInt
<1>3. ~(n < INSTANTX_SIGNATURES_REQUIRED)
  <2> HIDE DEF n
  <2> QED BY <1>1, <1>2, InstantSendAssumption
<1>4. CompleteLock(x)
  BY <1>3 DEF ProcessConsensusVote
<1>5. m_lockedInputs' = LockInputs(x) /\ ReprocessBlocks(LockInputs(x))
  <2>1. CASE Owners(m_lockedInputs, x) # {} /\ UNCHANGED m_lockedInputs
    BY <2>1 DEF Owners, HoldsInputs
  <2> QED BY <1>4, <2>1 DEF CompleteLock
<1> QED BY <1>5 DEF HoldsInputs

\* Every step keeps what a lock that prevails has achieved.
LEMMA NextKeepsRivals ==
  ASSUME TypeOK, Next, NEW t \in Tx, Prevails(t)'
  PROVE  RivalsKept(t)
<1> USE DEF Prevails
<1>p. t \in m_txLockReqRejected' /\ Complete(t)' /\ HoldsInputs(t)'
  BY DEF HoldsInputs
<1> DEFINE SameChain ==
             \A i \in DOMAIN confirmed' : i \in DOMAIN confirmed /\ confirmed'[i] = confirmed[i]
<1>0. UNCHANGED chainVars => SameChain
  BY DEF chainVars
<1>1. ASSUME NEW x \in Tx, IxRequest(x) PROVE RivalsKept(t)
  <2>1. t \in m_txLockReqRejected /\ t # x
    BY <1>1, <1>p DEF IxRequest
  <2>2. nBlockHeight'[t] = nBlockHeight[t] /\ vecConsensusVotes' = vecConsensusVotes
    BY <1>1, <2>1 DEF IxRequest, CreateNewLock, TypeOK
  <2>3. (HoldsInputs(t)' => HoldsInputs(t)) /\ SameChain
    BY <1>0, <1>1 DEF IxRequest, HoldsInputs
  <2> QED BY <2>1, <2>2, <2>3, OthersKeepT
<1>2. ASSUME NEW x \in Tx, IxAccepted(x) PROVE RivalsKept(t)
  BY <1>0, <1>2, <1>p, OthersKeepT DEF IxAccepted, lockVars, HoldsInputs
<1>3. ASSUME NEW x \in Tx, IxRejected(x) PROVE RivalsKept(t)
  <2>1. CASE t = x
    <3>1. Complete(x)
      BY <1>3, <1>p, <2>1 DEF IxRejected, Complete
    <3>2. \A o \in Inputs[x] : LockInputs(x)[o] = x
      BY <1>3, <1>p, <2>1 DEF IxRejected, HoldsInputs
    <3>3. Owners(LockInputs(x), x) = {}
      BY <3>2 DEF Owners
    <3>4. ReprocessBlocks(LockInputs(x))
      BY <1>3, <3>1, <3>3 DEF IxRejected
    <3> QED BY <2>1, <3>2, <3>4, ReplayRemovesRivals
  <2>2. CASE t # x
    <3>1. t \in m_txLockReqRejected /\ t \in Tx
      BY <1>3, <1>p, <2>2 DEF IxRejected, TypeOK
    <3>2. HoldsInputs(t)
      BY <1>3, <1>p, <2>2, <3>1, LockInputsForX DEF IxRejected
    <3>3. SameChain
      <4>1. CASE ReprocessBlocks(LockInputs(x))
        BY <4>1, ReprocessKeeps
      <4> QED BY <1>0, <1>3, <4>1 DEF IxRejected
    <3> QED BY <1>3, <3>1, <3>2, <3>3, OthersKeepT DEF IxRejected
  <2> QED BY <2>1, <2>2
<1>4. ASSUME NEW m \in Masternode, NEW x \in Tx, NEW h \in Height, TxLockVote(m, x, h)
      PROVE  RivalsKept(t)
  <2>0. t \in m_txLockReqRejected /\ t \in Tx /\ nBlockHeight' = nBlockHeight
    BY <1>4, <1>p DEF TxLockVote, TypeOK
  <2>1. CASE ProcessConsensusVote(m, x, h)
    <3>1. CASE t = x
      BY <1>p, <2>0, <2>1, <3>1, CompletingVoteReplays, ReplayRemovesRivals
    <3>2. CASE t # x
      <4>1. vecConsensusVotes'[t] = vecConsensusVotes[t]
        BY <2>0, <2>1, <3>2 DEF ProcessConsensusVote, TypeOK
      <4>2. m_lockedInputs' = m_lockedInputs \/ m_lockedInputs' = LockInputs(x)
        BY <2>1 DEF ProcessConsensusVote, CompleteLock
      <4>3. HoldsInputs(t)
        BY <1>p, <2>0, <3>2, <4>2, LockInputsForX DEF HoldsInputs
      <4>4. SameChain
        <5>1. CASE ReprocessBlocks(LockInputs(x))
          BY <5>1, ReprocessKeeps
        <5> QED BY <1>0, <2>1, <5>1 DEF ProcessConsensusVote, CompleteLock
      <4> QED BY <2>0, <4>1, <4>3, <4>4, OthersKeepT
    <3> QED BY <3>1, <3>2
  <2>2. CASE UNCHANGED <<m_lockedInputs, m_txLocks, vecConsensusVotes, m_expiration, chainVars>>
    BY <1>0, <2>0, <2>2, OthersKeepT DEF HoldsInputs
  <2> QED BY <1>4, <2>1, <2>2 DEF TxLockVote
<1>5. CASE CheckAndRemove
  <2> DEFINE expired == {u \in m_txLocks : m_expiration[u] < 0}
  <2>1. /\ m_txLockReqRejected' = m_txLockReqRejected \ expired
        /\ nBlockHeight' = [u \in Tx |-> IF u \in expired THEN 0 ELSE nBlockHeight[u]]
        /\ vecConsensusVotes' = [u \in Tx |-> IF u \in expired THEN <<>>
                                              ELSE vecConsensusVotes[u]]
    BY <1>5 DEF CheckAndRemove
  <2> HIDE DEF expired
  <2>2. /\ t \in m_txLockReqRejected /\ t \in Tx
        /\ nBlockHeight'[t] = nBlockHeight[t]
        /\ vecConsensusVotes'[t] = vecConsensusVotes[t]
    BY <1>p, <2>1 DEF TypeOK
  <2>3. \A o \in Outpoint : m_lockedInputs'[o] \in {NoTx, m_lockedInputs[o]}
    BY <1>5 DEF CheckAndRemove
  <2>4. HoldsInputs(t)
    BY <1>p, <2>2, <2>3, InstantSendAssumption DEF HoldsInputs
  <2>5. SameChain
    BY <1>0, <1>5 DEF CheckAndRemove
  <2> QED BY <2>2, <2>4, <2>5, OthersKeepT
<1>6. CASE Tick
  BY <1>0, <1>6, <1>p, OthersKeepT DEF Tick, HoldsInputs
<1>7. ASSUME NEW x \in Tx, ReceiveTx(x) PROVE RivalsKept(t)
  BY <1>7, <1>p, OthersKeepT DEF ReceiveTx, lockVars, HoldsInputs
<1>8. ASSUME NEW x \in Tx, WalletSend(x) PROVE RivalsKept(t)
  <2>1. t \in m_txLockReqRejected /\ t # x
    BY <1>8, <1>p DEF WalletSend
  <2>2. nBlockHeight'[t] = nBlockHeight[t] /\ vecConsensusVotes' = vecConsensusVotes
    BY <1>8, <2>1 DEF WalletSend, CreateNewLock, TypeOK
  <2>3. (HoldsInputs(t)' => HoldsInputs(t)) /\ SameChain
    BY <1>8 DEF WalletSend, HoldsInputs
  <2> QED BY <2>1, <2>2, <2>3, OthersKeepT
<1>9. ASSUME NEW b \in Tx \cup {NoTx}, ConnectBlock(b) PROVE RivalsKept(t)
  <2>1. /\ t \in m_txLockReqRejected
        /\ UNCHANGED <<m_lockedInputs, nBlockHeight, vecConsensusVotes>>
    BY <1>9, <1>p DEF ConnectBlock, lockVars
  <2>2. HoldsInputs(t) /\ Prevails(t)
    BY <1>p, <2>1 DEF HoldsInputs, Complete
  <2>3. confirmed' = Append(confirmed, b)
    BY <1>9 DEF ConnectBlock
  <2>4. b \notin {NoTx, t} => ~Conflicting(t, b)
    <3> SUFFICES ASSUME b \notin {NoTx, t}, NEW o \in Inputs[t], o \in Inputs[b] PROVE FALSE
      BY DEF Conflicting
    <3>1. m_lockedInputs[o] = t /\ t # NoTx
      BY <2>1, <2>2, InstantSendAssumption DEF HoldsInputs
    <3>2. t \in Owners(m_lockedInputs, b)
      BY <3>1 DEF Owners
    <3> QED BY <1>9, <3>2 DEF ConnectBlock
  <2>5. ASSUME NEW i \in DOMAIN confirmed'
        PROVE  confirmed'[i] = b \/ (i \in DOMAIN confirmed /\ confirmed'[i] = confirmed[i])
    BY <2>3, <2>5 DEF TypeOK
  <2>6. Rivals(t)' \subseteq Rivals(t)
    BY <2>4, <2>5 DEF Rivals, Conflicting
  <2> QED BY <2>2, <2>6 DEF RivalsKept
<1>10. CASE Restart
  BY <1>10, <1>p, OthersKeepT DEF Restart, lockVars, HoldsInputs
<1> QED BY <1>1, <1>2, <1>3, <1>4, <1>5, <1>6, <1>7, <1>8, <1>9, <1>10 DEF Next

\* For chains of any length: when the lock of a refused request comes to prevail, the
\* replay in the ix handler or in ProcessConsensusVote has removed every conflicting
\* block within its reach, and CheckBlock lets none in until the lock expires.
THEOREM RefusedLockPrevails == Spec => RejectedLockEnforced
<1> DEFINE Kept == \A t \in Tx : Prevails(t)' =>
             Rivals(t)' \subseteq IF Prevails(t) THEN Rivals(t) ELSE Rivals(t) \ Reached
<1>1. TypeOK /\ [Next]_vars => [Kept]_vars
  BY NextKeepsRivals DEF RivalsKept
<1>2. RejectedLockEnforced <=> [][Kept]_vars
  BY DEF RejectedLockEnforced
<1> HIDE DEF Kept
<1> QED BY <1>1, <1>2, TypeCorrect, PTL DEF Spec

=============================================================================
