---------------------------- MODULE InstantSend ----------------------------
(***************************************************************************)
(* InstantSend (src/src/instantx.cpp): masternodes vote to lock the inputs *)
(* of a transaction before it is in a block, and a node refuses            *)
(* transactions and blocks that spend a locked input in another way.       *)
(*                                                                         *)
(* One node is modelled, with its memory pool and the last blocks of its   *)
(* chain, of which each holds at most one transaction of interest.  Three  *)
(* threads act on it: the message handler (ix, txlvote, tx, block), the    *)
(* masternode maintenance thread (CheckAndRemove) and the wallet or staker.*)
(* The ix handler releases InstantSend::cs after CreateNewLock and goes on *)
(* without it: ixTx is the transaction it is at.  Times are kept relative  *)
(* to the clock, so that the clock itself needs no bound.                  *)
(***************************************************************************)
EXTENDS Integers, Sequences, FiniteSets

CONSTANTS
  Tx, Outpoint, Masternode,
  NoTx,            \* no transaction
  Inputs,          \* the outpoints each transaction spends
  TxHeight,        \* the block height CreateNewLock derives from its inputs
  Height,          \* heights at which masternodes are ranked
  Top,             \* masternodes within INSTANTX_SIGNATURES_TOTAL, by height
  Self,            \* activeMasternode; no member of Masternode if there is none
  INSTANTX_SIGNATURES_REQUIRED,
  LockDuration,         \* m_numberOfSeconds * m_acceptedBlockCount
  m_acceptedBlockCount, \* age in blocks from which a transaction is too old
  ReprocessDepth,       \* the argument of ReprocessBlocks
  MaxBlocks,            \* bound on the blocks of the run
  MaxVotes              \* bound on the votes each lock collects

ASSUME InstantSendAssumption ==
  /\ NoTx \notin Tx
  /\ Inputs \in [Tx -> SUBSET Outpoint]
  /\ Height \subseteq Nat \ {0}
  /\ TxHeight \in [Tx -> Height]
  /\ Top \in [Height -> SUBSET Masternode]
  /\ INSTANTX_SIGNATURES_REQUIRED \in Nat \ {0}
  /\ LockDuration \in Nat
  /\ m_acceptedBlockCount \in Nat
  /\ ReprocessDepth \in Nat
  /\ MaxBlocks \in Nat
  /\ MaxVotes \in [Tx -> Nat]

VARIABLES
  m_lockedInputs,      \* outpoint -> the transaction that locks it, or NoTx
  m_txLockVote,        \* votes on record: GetHash() is masternode + transaction
  m_txLockReq,         \* requests known
  m_txLockReqRejected, \* requests that the memory pool refused
  m_txLocks,           \* transactions with a CTransactionLock
  nBlockHeight,        \* CTransactionLock::nBlockHeight, 0 when not known
  vecConsensusVotes,   \* CTransactionLock::vecConsensusVotes
  m_expiration,        \* CTransactionLock::m_expiration - GetTime()
  mempool,             \* transactions in the memory pool
  confirmed,           \* the transaction of each recent block, oldest first
  ixTx                 \* the request in the second half of the ix handler

lockVars  == <<m_txLocks, nBlockHeight, vecConsensusVotes, m_expiration>>
chainVars == <<mempool, confirmed>>
vars == <<m_lockedInputs, m_txLockVote, m_txLockReq, m_txLockReqRejected,
          lockVars, chainVars, ixTx>>

Vote == [vinMasternode : Masternode, nBlockHeight : Height]

-----------------------------------------------------------------------------
(* Transactions, the memory pool and the chain.                            *)

Confirmed == {confirmed[i] : i \in DOMAIN confirmed} \ {NoTx}

Conflicting(t, u) == Inputs[t] \cap Inputs[u] # {}

\* GetTransactionAge(t) > m_acceptedBlockCount
TooOld(t) == \E i \in DOMAIN confirmed :
               /\ confirmed[i] = t
               /\ Len(confirmed) + 1 - i > m_acceptedBlockCount

\* The transactions other than t that lock an input of t.
Owners(locked, t) == {locked[o] : o \in Inputs[t]} \ {NoTx, t}

\* What AcceptToMemoryPool asks of t apart from fees and standardness.
AcceptToMemoryPool(t) ==
  /\ t \notin mempool
  /\ Owners(m_lockedInputs, t) = {}
  /\ \A u \in mempool \cup Confirmed : ~Conflicting(t, u)

\* ReprocessBlocks: the last blocks (Reached) are disconnected and connected
\* again, up to the first that spends an input locked by another transaction.
\* Their other transactions return to the memory pool.
Reached == {i \in DOMAIN confirmed : i >= Len(confirmed) - ReprocessDepth}

Spoilt(locked) ==
  {i \in Reached : confirmed[i] # NoTx /\ Owners(locked, confirmed[i]) # {}}

Dropped(locked) ==
  {i \in DOMAIN confirmed : \E j \in Spoilt(locked) : j <= i}

ReprocessBlocks(locked) ==
  /\ confirmed' = SubSeq(confirmed, 1, Len(confirmed) - Cardinality(Dropped(locked)))
  /\ mempool' = mempool \cup {u \in {confirmed[i] : i \in Dropped(locked)} \ {NoTx} :
                                Owners(locked, u) = {}}

-----------------------------------------------------------------------------
(* Locks.                                                                  *)

\* Mutant: votes for another block height count too.
MutantCountSignatures(height, votes) ==
  IF height = 0 THEN -1 ELSE Len(votes)

CountSignatures(height, votes) ==
  IF height = 0 THEN -1
  ELSE Cardinality({i \in DOMAIN votes : votes[i].nBlockHeight = height})

Complete(t) ==
  CountSignatures(nBlockHeight[t], vecConsensusVotes[t]) >= INSTANTX_SIGNATURES_REQUIRED

LockInputs(t) ==
  [o \in Outpoint |-> IF o \in Inputs[t] /\ m_lockedInputs[o] = NoTx
                      THEN t ELSE m_lockedInputs[o]]

\* A CTransactionLock is made with a full lifetime; one that exists keeps its own.
ExpirationOf(t) ==
  [m_expiration EXCEPT ![t] = IF t \in m_txLocks THEN @ ELSE LockDuration]

\* CheckForConflictingLocks has found that c locks an input of t.
CancelBoth(t, c) ==
  m_expiration' = [u \in Tx |-> IF u \in {t, c} \cap m_txLocks THEN 0
                                ELSE m_expiration[u]]

\* Mutant: a height one above the one the inputs give.
MutantLockHeight(t) ==
  /\ m_txLocks' = m_txLocks \cup {t}
  /\ nBlockHeight' = [nBlockHeight EXCEPT ![t] = TxHeight[t] + 1]
  /\ m_expiration' = ExpirationOf(t)
  /\ m_txLockReq' = m_txLockReq \cup {t}
  /\ UNCHANGED vecConsensusVotes

\* Mutant: the request is not recorded with the lock.
MutantCreateNewLock(t) ==
  /\ m_txLocks' = m_txLocks \cup {t}
  /\ nBlockHeight' = [nBlockHeight EXCEPT ![t] = TxHeight[t]]
  /\ m_expiration' = ExpirationOf(t)
  /\ UNCHANGED <<m_txLockReq, vecConsensusVotes>>

CreateNewLock(t) ==
  /\ m_txLocks' = m_txLocks \cup {t}
  /\ nBlockHeight' = [nBlockHeight EXCEPT ![t] = TxHeight[t]]
  /\ m_expiration' = ExpirationOf(t)
  /\ m_txLockReq' = m_txLockReq \cup {t}
  /\ UNCHANGED vecConsensusVotes

-----------------------------------------------------------------------------
(* The handler of "ix", a request to lock a transaction.                   *)

IxRequest(t) ==
  /\ ixTx = NoTx
  /\ t \notin m_txLockReq \cup m_txLockReqRejected
  /\ ~TooOld(t)
  /\ CreateNewLock(t)
  /\ ixTx' = t
  /\ UNCHANGED <<m_lockedInputs, m_txLockVote, m_txLockReqRejected, chainVars>>

\* The node's own vote: on record and announced, but not added to the lock.
DoConsensusVote(t) ==
  m_txLockVote' = m_txLockVote \cup ({Self} \cap Top[TxHeight[t]]) \X {t}

IxAccepted(t) ==
  /\ ixTx = t
  /\ AcceptToMemoryPool(t)
  /\ mempool' = mempool \cup {t}
  /\ DoConsensusVote(t)
  /\ m_txLockReq' = m_txLockReq \cup {t}
  /\ ixTx' = NoTx
  /\ UNCHANGED <<m_lockedInputs, m_txLockReqRejected, lockVars, confirmed>>

\* Mutant: a complete lock does not replay the blocks.
MutantIxRejected(t) ==
  /\ ixTx = t
  /\ m_txLockReqRejected' = m_txLockReqRejected \cup {t}
  /\ m_lockedInputs' = LockInputs(t)
  /\ ixTx' = NoTx
  /\ UNCHANGED <<m_txLockReq, m_txLockVote, lockVars, chainVars>>

\* The memory pool may refuse any transaction: for a conflict, for its fee, as
\* not standard, or because the rate of free ones is limited.
IxRejected(t) ==
  /\ ixTx = t
  /\ m_txLockReqRejected' = m_txLockReqRejected \cup {t}
  /\ m_lockedInputs' = LockInputs(t)
  /\ ixTx' = NoTx
  /\ \/ /\ ~Complete(t)
        /\ UNCHANGED <<m_txLockReq, m_expiration, chainVars>>
     \/ /\ Complete(t)
        /\ \E c \in Owners(LockInputs(t), t) : CancelBoth(t, c)
        /\ UNCHANGED <<m_txLockReq, chainVars>>
     \/ /\ Complete(t)
        /\ Owners(LockInputs(t), t) = {}
        /\ ReprocessBlocks(LockInputs(t))
        /\ m_txLockReq' = m_txLockReq \cup {t}
        /\ UNCHANGED m_expiration
  /\ UNCHANGED <<m_txLockVote, m_txLocks, nBlockHeight, vecConsensusVotes>>

-----------------------------------------------------------------------------
(* The handler of "txlvote", the vote of a masternode.                     *)

\* A complete lock whose inputs no other transaction locks takes them, and
\* replays the blocks if the memory pool had refused the transaction.  The
\* code looks the transaction up with m_txLockReq[], which would make an empty
\* one if it were not known: RequestKnown says that it is.
CompleteLock(t) ==
  \/ /\ \E c \in Owners(m_lockedInputs, t) : CancelBoth(t, c)
     /\ UNCHANGED <<m_lockedInputs, chainVars>>
  \/ /\ Owners(m_lockedInputs, t) = {}
     /\ m_lockedInputs' = LockInputs(t)
     /\ IF t \in m_txLockReqRejected THEN ReprocessBlocks(LockInputs(t))
                                     ELSE UNCHANGED chainVars
     /\ UNCHANGED m_expiration

\* ProcessConsensusVote for a masternode among the first at that height
ProcessConsensusVote(m, t, h) ==
  /\ m \in Top[h]
  /\ Len(vecConsensusVotes[t]) < MaxVotes[t]
  /\ m_txLocks' = m_txLocks \cup {t}
  /\ vecConsensusVotes' = [vecConsensusVotes EXCEPT ![t] =
                             Append(@, [vinMasternode |-> m, nBlockHeight |-> h])]
  /\ LET n == CountSignatures(nBlockHeight[t], vecConsensusVotes'[t]) IN
     \/ /\ n >= INSTANTX_SIGNATURES_REQUIRED
        /\ CompleteLock(t)
     \/ /\ n < INSTANTX_SIGNATURES_REQUIRED
        /\ m_expiration' = ExpirationOf(t)
        /\ UNCHANGED <<m_lockedInputs, chainVars>>

\* The vote is put on record before it is validated.
TxLockVote(m, t, h) ==
  /\ ixTx = NoTx
  /\ <<m, t>> \notin m_txLockVote
  /\ ~TooOld(t)
  /\ m_txLockVote' = m_txLockVote \cup {<<m, t>>}
  /\ \/ ProcessConsensusVote(m, t, h)
     \/ m \notin Top[h] /\ UNCHANGED <<m_lockedInputs, m_txLocks, vecConsensusVotes,
                                       m_expiration, chainVars>>
  /\ UNCHANGED <<m_txLockReq, m_txLockReqRejected, nBlockHeight, ixTx>>

-----------------------------------------------------------------------------
(* Maintenance, transactions, blocks and restarts.                         *)

\* CheckAndRemove.  Its second loop compares the end iterator of the first with
\* the clock, not the vote: what it reads is undefined, but the same for every
\* vote, so it erases all of them or none.
CheckAndRemove ==
  LET expired == {t \in m_txLocks : m_expiration[t] < 0}
      known   == expired \cap m_txLockReq
      signed(t) == {<<vecConsensusVotes[t][i].vinMasternode, t>> :
                      i \in DOMAIN vecConsensusVotes[t]}
  IN
  /\ m_txLocks' = m_txLocks \ expired
  /\ m_txLockReqRejected' = m_txLockReqRejected \ expired
  /\ m_txLockReq' = m_txLockReq \ known
  /\ m_lockedInputs' = [o \in Outpoint |->
                          IF \E t \in known : o \in Inputs[t]
                          THEN NoTx ELSE m_lockedInputs[o]]
  /\ m_txLockVote' \in {m_txLockVote \ UNION {signed(t) : t \in known}, {}}
  /\ nBlockHeight' = [t \in Tx |-> IF t \in expired THEN 0 ELSE nBlockHeight[t]]
  /\ vecConsensusVotes' = [t \in Tx |-> IF t \in expired THEN <<>>
                                        ELSE vecConsensusVotes[t]]
  /\ m_expiration' = [t \in Tx |-> IF t \in expired THEN 0 ELSE m_expiration[t]]
  /\ UNCHANGED <<chainVars, ixTx>>

\* The clock moves on.
Tick ==
  /\ \E t \in m_txLocks : m_expiration[t] >= 0
  /\ m_expiration' = [t \in Tx |-> IF t \in m_txLocks /\ m_expiration[t] >= 0
                                   THEN m_expiration[t] - 1 ELSE m_expiration[t]]
  /\ UNCHANGED <<m_lockedInputs, m_txLockVote, m_txLockReq, m_txLockReqRejected,
                 m_txLocks, nBlockHeight, vecConsensusVotes, chainVars, ixTx>>

\* A transaction comes without a request to lock it: from a peer, or, in the middle
\* of the ix handler too, from the wallet or an RPC.
ReceiveTx(t) ==
  /\ AcceptToMemoryPool(t)
  /\ mempool' = mempool \cup {t}
  /\ UNCHANGED <<m_lockedInputs, m_txLockVote, m_txLockReq, m_txLockReqRejected,
                 lockVars, confirmed, ixTx>>

\* The wallet sends a new transaction of its own with InstantSend.
WalletSend(t) ==
  /\ t \notin m_txLockReq \cup m_txLockReqRejected \cup m_txLocks
  /\ \A m \in Masternode : <<m, t>> \notin m_txLockVote
  /\ AcceptToMemoryPool(t)
  /\ mempool' = mempool \cup {t}
  /\ CreateNewLock(t)
  /\ UNCHANGED <<m_lockedInputs, m_txLockVote, m_txLockReqRejected, confirmed, ixTx>>

\* A block is connected: CheckBlock refuses one that spends a locked input in
\* another way, and the memory pool drops what conflicts with it.
ConnectBlock(b) ==
  /\ Len(confirmed) < MaxBlocks
  /\ b # NoTx => /\ Owners(m_lockedInputs, b) = {}
                 /\ \A u \in Confirmed : ~Conflicting(b, u)
  /\ confirmed' = Append(confirmed, b)
  /\ mempool' = {u \in mempool : b = NoTx \/ ~Conflicting(u, b)}
  /\ UNCHANGED <<m_lockedInputs, m_txLockVote, m_txLockReq, m_txLockReqRejected,
                 lockVars, ixTx>>

\* DumpData and the next start: the locks are in ixcache.dat, the memory pool is
\* not kept.
Restart ==
  /\ ixTx = NoTx
  /\ mempool' = {}
  /\ UNCHANGED <<m_lockedInputs, m_txLockVote, m_txLockReq, m_txLockReqRejected,
                 lockVars, confirmed, ixTx>>

Init ==
  /\ m_lockedInputs = [o \in Outpoint |-> NoTx]
  /\ m_txLockVote = {}
  /\ m_txLockReq = {}
  /\ m_txLockReqRejected = {}
  /\ m_txLocks = {}
  /\ nBlockHeight = [t \in Tx |-> 0]
  /\ vecConsensusVotes = [t \in Tx |-> <<>>]
  /\ m_expiration = [t \in Tx |-> 0]
  /\ mempool = {}
  /\ confirmed = <<>>
  /\ ixTx = NoTx

Next ==
  \/ \E t \in Tx : IxRequest(t)
  \/ \E t \in Tx : IxAccepted(t)
  \/ \E t \in Tx : IxRejected(t)
  \/ \E m \in Masternode, t \in Tx, h \in Height : TxLockVote(m, t, h)
  \/ CheckAndRemove
  \/ Tick
  \/ \E t \in Tx : ReceiveTx(t)
  \/ \E t \in Tx : WalletSend(t)
  \/ \E b \in Tx \cup {NoTx} : ConnectBlock(b)
  \/ Restart

Spec == Init /\ [][Next]_vars

-----------------------------------------------------------------------------
(* Properties.                                                             *)

TypeOK ==
  /\ m_lockedInputs \in [Outpoint -> Tx \cup {NoTx}]
  /\ m_txLockVote \subseteq Masternode \X Tx
  /\ m_txLockReq \subseteq Tx
  /\ m_txLockReqRejected \subseteq Tx
  /\ m_txLocks \subseteq Tx
  /\ nBlockHeight \in [Tx -> Height \cup {0}]
  /\ vecConsensusVotes \in [Tx -> Seq(Vote)]
  /\ m_expiration \in [Tx -> -1..LockDuration]
  /\ mempool \subseteq Tx
  /\ confirmed \in Seq(Tx \cup {NoTx})
  /\ ixTx \in Tx \cup {NoTx}

\* A lock whose signatures count belongs to a request that is known, although
\* votes may come before the request and maintenance may remove the lock in the
\* middle of the ix handler: m_txLockReq[] in ProcessConsensusVote never makes
\* an empty transaction.
RequestKnown ==
  \A t \in Tx : nBlockHeight[t] # 0 => t \in m_txLocks \cap m_txLockReq

\* The signatures that complete a lock are of masternodes ranked among the first
\* at the height derived from the transaction, although every vote is ranked at
\* the height it names itself and may have come before the request.
SignaturesRanked ==
  \A t \in Tx : Complete(t) =>
    \E S \in SUBSET DOMAIN vecConsensusVotes[t] :
      /\ Cardinality(S) >= INSTANTX_SIGNATURES_REQUIRED
      /\ \A i \in S : vecConsensusVotes[t][i].vinMasternode \in Top[TxHeight[t]]

\* The lock of a request that the memory pool had refused prevails: it is complete
\* and holds all the inputs of its transaction.
Prevails(t) ==
  t \in m_txLockReqRejected /\ Complete(t) /\ \A o \in Inputs[t] : m_lockedInputs[o] = t

\* The recent blocks that spend an input of t in another transaction.
Rivals(t) ==
  {i \in DOMAIN confirmed : confirmed[i] \notin {NoTx, t} /\ Conflicting(t, confirmed[i])}

\* The step in which a lock comes to prevail leaves no rival in the blocks that a
\* replay reaches, whichever of request, votes, conflicting transaction, block and
\* expiry of another lock came last; and from then on no rival is added, until the
\* lock expires.  Rivals below the reach of the replay stay (the code replays 16
\* blocks, and keeps a lock for 24).
RejectedLockEnforced ==
  [][\A t \in Tx : Prevails(t)' =>
       Rivals(t)' \subseteq IF Prevails(t) THEN Rivals(t) ELSE Rivals(t) \ Reached]_vars

\* "only reject blocks when it's based on complete consensus" (main.cpp:3370): a
\* transaction that keeps blocks from spending its inputs has a complete lock.
RejectionNeedsConsensus ==
  \A t \in Tx, u \in Confirmed \cup mempool :
    t \in Owners(m_lockedInputs, u) => Complete(t)

=============================================================================
