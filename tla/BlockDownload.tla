--------------------------- MODULE BlockDownload ---------------------------
(***************************************************************************)
(* How a Crown node gets its blocks: the inv, getdata, getblocks, block    *)
(* and blockproof messages and SendMessages of src/src/main.cpp, and the   *)
(* ProofTracker of src/src/mn-pos, which holds back a block whose stake    *)
(* has been packaged into many blocks until masternodes vouch for it.      *)
(*                                                                         *)
(* The model is one node and the peers it is connected to.  The peers run  *)
(* the same code; what matters of them is their active chain and, for      *)
(* each connection, the inventory they know us to know.  Every block is    *)
(* valid (MnPosChain is about the others), and of two chains the longer    *)
(* one is activated.                                                       *)
(***************************************************************************)
EXTENDS Integers, Sequences, FiniteSets, Functions

CONSTANTS
  Block, Genesis,
  Chain,      \* block -> the sequence of blocks from Genesis to it
  StakeHash,  \* block -> its hashProofOfStake
  Peer, NoPeer,
  StartTip,   \* peer -> the tip of its active chain at the start
  FinalTip,   \* peer -> the block its active chain grows to
  Masternode,
  STAKE_REPACKAGE_THRESHOLD, REQUIRED_WITNESS_SIGS,
  MAX_BLOCKS_IN_TRANSIT_PER_PEER,
  MaxReorganizationDepth,
  SlowPeers,  \* may a request time out while its answer is on the way?
  OtherVersions  \* peers that may send a blockproof; this version never does

Height(b) == Len(Chain[b]) - 1
Parent(b) == Chain[b][Height(b)]
Stakes    == {StakeHash[b] : b \in Block}
On(b, t)  == b \in Range(Chain[t])    \* is b in the chain that ends in t?

ASSUME DownloadAssumption ==
  /\ Genesis \in Block /\ Chain[Genesis] = <<Genesis>>
  /\ Chain \in [Block -> Seq(Block)]
  /\ \A b \in Block \ {Genesis} :
       Len(Chain[b]) > 1 /\ Chain[b] = Append(Chain[Parent(b)], b)
  /\ DOMAIN StakeHash = Block
  /\ NoPeer \notin Peer
  /\ StartTip \in [Peer -> Block] /\ FinalTip \in [Peer -> Block]
  /\ \A p \in Peer : On(StartTip[p], FinalTip[p])
  /\ STAKE_REPACKAGE_THRESHOLD \in Nat \ {0}
  /\ REQUIRED_WITNESS_SIGS \in Nat \ {0}
  /\ MAX_BLOCKS_IN_TRANSIT_PER_PEER \in Nat \ {0}
  /\ MaxReorganizationDepth \in Nat \ {0}
  /\ SlowPeers \in BOOLEAN /\ OtherVersions \subseteq Peer

VARIABLES
  mapBlockIndex,     \* set of blocks with an entry
  haveData,          \* those stored with their data
  tip,               \* chainActive.Tip()
  pindexBestHeader,
  unapproved,        \* history: blocks stored without enough witnesses
  m_mapStakes,       \* stake -> height and blocks; no blocks: no entry
  m_mapBlockWitness, \* block -> the masternodes that vouch for it
  listAskForBlocks,  \* peer -> blocks to be requested
  vBlocksInFlight,   \* peer -> blocks requested, oldest first
  mapBlocksInFlight, \* block -> the peer it is in flight from, or NoPeer
  connected, fSyncStarted,
  recv, sent,        \* peer -> messages on their way from and to it
  peerTip,           \* peer -> tip of the peer's active chain
  peerKnown          \* peer -> its setInventoryKnown for our connection

nodeVars   == <<mapBlockIndex, haveData, tip, pindexBestHeader, unapproved>>
proofVars  == <<m_mapStakes, m_mapBlockWitness>>
flightVars == <<vBlocksInFlight, mapBlocksInFlight>>
linkVars   == <<connected, fSyncStarted>>
peerVars   == <<peerTip, peerKnown>>
vars == <<nodeVars, proofVars, listAskForBlocks, flightVars, linkVars, recv, sent,
          peerVars>>

\* The elements of the sequence s that are in S.  (SelectSeq takes an operator,
\* which the provers cannot instantiate.)  Filtered(s, S)[i] is the result for
\* the first i elements.
Filtered(s, S) ==
  LET f[i \in 0..Len(s)] == IF i = 0 THEN <<>>
                            ELSE IF s[i] \in S THEN Append(f[i - 1], s[i]) ELSE f[i - 1]
  IN f

Filter(s, S) == Filtered(s, S)[Len(s)]

Message(cmd, arg) == [cmd |-> cmd, arg |-> arg]
Receives(p, cmd)  == recv[p] # <<>> /\ Head(recv[p]).cmd = cmd
Arg(p)            == Head(recv[p]).arg
Consume(p)        == recv' = [recv EXCEPT ![p] = Tail(@)]
Push(p, cmd, arg) == sent' = [sent EXCEPT ![p] = Append(@, Message(cmd, arg))]

-----------------------------------------------------------------------------
(* ProofTracker.                                                           *)

HasSufficientProof(witness, b) == Cardinality(witness[b]) >= REQUIRED_WITNESS_SIGS

\* AddWitness for the pings of masternodes ms, which name the given blocks.
AddWitness(ms, blocks) ==
  [b \in Block |-> IF b \in blocks THEN m_mapBlockWitness[b] \cup ms
                                   ELSE m_mapBlockWitness[b]]

\* A block is suspicious when its stake is known in enough blocks already and
\* too few masternodes vouch for this one.
IsSuspicious(b) ==
  /\ Cardinality(m_mapStakes[StakeHash[b]].blocks) >= STAKE_REPACKAGE_THRESHOLD
  /\ ~HasSufficientProof(m_mapBlockWitness, b)

AddNewStake(b) ==
  [m_mapStakes EXCEPT ![StakeHash[b]] =
     [nHeight |-> IF @.blocks = {} THEN Height(b) ELSE @.nHeight,
      blocks  |-> @.blocks \cup {b}]]

\* Mutant: the records of height h go too.
MutantStaleStakes(stakes, h) ==
  {s \in Stakes : stakes[s].blocks # {} /\ stakes[s].nHeight <= h}

\* EraseBeforeHeight(h), applied to the stakes and the witnesses.
StaleStakes(stakes, h) == {s \in Stakes : stakes[s].blocks # {} /\ stakes[s].nHeight < h}

EraseStakes(stakes, h) ==
  [s \in Stakes |-> IF s \in StaleStakes(stakes, h) THEN [nHeight |-> 0, blocks |-> {}]
                                                    ELSE stakes[s]]

EraseWitnesses(stakes, witness, h) ==
  [b \in Block |-> IF \E s \in StaleStakes(stakes, h) : b \in stakes[s].blocks
                     THEN {} ELSE witness[b]]

-----------------------------------------------------------------------------
(* Blocks in flight.                                                       *)

\* MarkBlockAsReceived and MarkBlockAsInFlight, on a record of the two
\* structures that must agree.
Flight == [lists |-> vBlocksInFlight, map |-> mapBlocksInFlight]

MarkBlockAsReceived(f, b) ==
  IF f.map[b] = NoPeer THEN f
  ELSE [lists |-> [f.lists EXCEPT ![f.map[b]] = Filter(@, Block \ {b})],
        map   |-> [f.map EXCEPT ![b] = NoPeer]]

\* Mutant: a block in flight from another peer stays in the list of that peer.
MutantMarkInFlight(f, p, b) ==
  LET g == IF f.map[b] = p THEN MarkBlockAsReceived(f, b) ELSE f IN
  [lists |-> [g.lists EXCEPT ![p] = Append(@, b)], map |-> [g.map EXCEPT ![b] = p]]

MarkBlockAsInFlight(f, p, b) ==
  LET g == MarkBlockAsReceived(f, b) IN
  [lists |-> [g.lists EXCEPT ![p] = Append(@, b)], map |-> [g.map EXCEPT ![b] = p]]

\* The loop of SendMessages that marks the blocks s: MarkedBlocks(f, p, s)[i] is
\* f after the first i of them.
MarkedBlocks(f, p, s) ==
  LET g[i \in 0..Len(s)] == IF i = 0 THEN f ELSE MarkBlockAsInFlight(g[i - 1], p, s[i])
  IN g

SetFlight(f) == vBlocksInFlight' = f.lists /\ mapBlocksInFlight' = f.map

-----------------------------------------------------------------------------
(* Messages from a peer.                                                   *)

\* AlreadyHave(MSG_BLOCK): an entry in the index is enough.
AlreadyHave == mapBlockIndex

\* "inv": AskForBlock for each block not known.
Inv(p) ==
  /\ Receives(p, "inv")
  /\ listAskForBlocks' = [listAskForBlocks EXCEPT ![p] =
                            @ \o Filter(Arg(p), Block \ AlreadyHave)]
  /\ Consume(p)
  /\ UNCHANGED <<nodeVars, proofVars, flightVars, linkVars, sent, peerVars>>

\* AcceptBlockHeader refuses a new header that forks off too deep.  (The peer
\* gets 50 of the 100 points that ban it; one whose chain only grows has one
\* such block to offer.)
HeaderTooDeep(b) ==
  b \notin mapBlockIndex /\ Height(tip) - Height(b) >= MaxReorganizationDepth

\* ProcessNewBlock for a block whose parent has its data.  AcceptBlock stores
\* it unless it has it or finds it suspicious, and the longer chain is
\* activated.
StoreBlock(b) ==
  LET stakes == AddNewStake(b)
      h == Height(b) - MaxReorganizationDepth
  IN
  /\ haveData' = haveData \cup {b}
  /\ unapproved' = IF HasSufficientProof(m_mapBlockWitness, b) THEN unapproved
                                                               ELSE unapproved \cup {b}
  /\ m_mapStakes' = EraseStakes(stakes, h)
  /\ m_mapBlockWitness' = EraseWitnesses(stakes, m_mapBlockWitness, h)
  /\ tip' = IF Height(b) > Height(tip) THEN b ELSE tip

\* Mutant: an entry is made only for a block that becomes the best header.
MutantAddToBlockIndex(b) ==
  LET best == Height(b) > Height(pindexBestHeader) IN
  /\ mapBlockIndex' = IF best THEN mapBlockIndex \cup {b} ELSE mapBlockIndex
  /\ pindexBestHeader' = IF best THEN b ELSE pindexBestHeader

AddToBlockIndex(b) ==
  /\ mapBlockIndex' = mapBlockIndex \cup {b}
  /\ pindexBestHeader' = IF Height(b) > Height(pindexBestHeader) THEN b
                                                                 ELSE pindexBestHeader

\* CValidationState::Suspicious sets MODE_SUSPICIOUS and then calls Error,
\* which overwrites it: the mode ProcessNewBlock returns for a suspicious
\* block.
Suspicious == "MODE_ERROR"

ProcessNewBlock(p, b) ==
  /\ SetFlight(MarkBlockAsReceived(Flight, b))
  /\ \/ /\ HeaderTooDeep(b) \/ b \in haveData
        /\ UNCHANGED <<nodeVars, proofVars, sent>>
     \/ /\ ~HeaderTooDeep(b) /\ b \notin haveData /\ ~IsSuspicious(b)
        /\ AddToBlockIndex(b) /\ StoreBlock(b)
        /\ UNCHANGED sent
     \/ /\ ~HeaderTooDeep(b) /\ b \notin haveData /\ IsSuspicious(b)
        /\ AddToBlockIndex(b)
        /\ IF Suspicious = "MODE_SUSPICIOUS" THEN Push(p, "reject", b)
                                             ELSE UNCHANGED sent
        /\ UNCHANGED <<haveData, tip, unapproved, proofVars>>

\* Mutant: a block that is dropped counts as received.
MutantBlockMessage(p) ==
  /\ Receives(p, "block")
  /\ LET b == Arg(p) IN
     \/ /\ ~On(b, tip) /\ Parent(b) \in haveData
        /\ ProcessNewBlock(p, b)
     \/ /\ On(b, tip) \/ Parent(b) \notin haveData
        /\ SetFlight(MarkBlockAsReceived(Flight, b))
        /\ Push(p, "getblocks", [start |-> tip, stop |-> b])
        /\ UNCHANGED <<nodeVars, proofVars>>
  /\ Consume(p)
  /\ UNCHANGED <<listAskForBlocks, linkVars, peerVars>>

\* "block": a block that cannot be processed is dropped, and the peer asked
\* for the blocks up to it.
BlockMessage(p) ==
  /\ Receives(p, "block")
  /\ LET b == Arg(p) IN
     \/ /\ ~On(b, tip) /\ Parent(b) \in haveData
        /\ ProcessNewBlock(p, b)
     \/ /\ On(b, tip) \/ Parent(b) \notin haveData
        /\ Push(p, "getblocks", [start |-> tip, stop |-> b])
        /\ UNCHANGED <<nodeVars, proofVars, flightVars>>
  /\ Consume(p)
  /\ UNCHANGED <<listAskForBlocks, linkVars, peerVars>>

\* "blockproof": the pings are processed; with enough witnesses the block is
\* marked as in flight and requested with the command "GetData".
BlockProof(p) ==
  /\ Receives(p, "blockproof")
  /\ LET b == Arg(p).block
         w == AddWitness(Arg(p).masternodes, Arg(p).vPrevBlockHash)
     IN
     /\ m_mapBlockWitness' = w
     /\ \/ /\ HasSufficientProof(w, b)
           /\ SetFlight(MarkBlockAsInFlight(Flight, p, b))
           /\ Push(p, "GetData", <<b>>)
        \/ /\ ~HasSufficientProof(w, b)
           /\ UNCHANGED <<flightVars, sent>>
  /\ Consume(p)
  /\ UNCHANGED <<nodeVars, m_mapStakes, listAskForBlocks, linkVars, peerVars>>

\* The blocks a ping names: the last ten of the chain its masternode follows,
\* here the chain of some peer.  (The chains of the model are shorter.)
PrevBlocks(p) == Range(Chain[peerTip[p]]) \ {Genesis}

\* A masternode ping that CMasternodePing::CheckAndUpdate accepts (one that
\* comes too early changes nothing).
MasternodePing(m, p) ==
  /\ m_mapBlockWitness' = AddWitness({m}, PrevBlocks(p))
  /\ UNCHANGED <<nodeVars, m_mapStakes, listAskForBlocks, flightVars, linkVars, recv,
                 sent, peerVars>>

-----------------------------------------------------------------------------
(* SendMessages to a peer, and the life of a connection.                   *)

\* FinalizeNode, and the loss of what was on its way.
Disconnect(p) ==
  /\ connected' = connected \ {p}
  /\ fSyncStarted' = fSyncStarted \ {p}
  /\ listAskForBlocks' = [listAskForBlocks EXCEPT ![p] = <<>>]
  /\ vBlocksInFlight' = [vBlocksInFlight EXCEPT ![p] = <<>>]
  /\ mapBlocksInFlight' = [b \in Block |-> IF b \in Range(vBlocksInFlight[p]) THEN NoPeer
                                             ELSE mapBlocksInFlight[b]]
  /\ recv' = [recv EXCEPT ![p] = <<>>]
  /\ sent' = [sent EXCEPT ![p] = <<>>]
  /\ peerKnown' = [peerKnown EXCEPT ![p] = {}]
  /\ UNCHANGED <<nodeVars, proofVars, peerTip>>

\* Nothing is on its way to or from the peer.
Idle(p) == recv[p] = <<>> /\ sent[p] = <<>>

\* "Timeout downloading block": the oldest block in flight took too long.
TimeoutDownloading(p) ==
  /\ p \in connected /\ vBlocksInFlight[p] # <<>>
  /\ SlowPeers \/ Idle(p)
  /\ Disconnect(p)

Reconnect(p) ==
  /\ p \notin connected
  /\ connected' = connected \cup {p}
  /\ UNCHANGED <<nodeVars, proofVars, listAskForBlocks, flightVars, fSyncStarted, recv,
                 sent, peerVars>>

\* The first getblocks of a connection: everything after the parent of the
\* best header.
StartSync(p) ==
  LET start == IF pindexBestHeader = Genesis THEN Genesis ELSE Parent(pindexBestHeader)
  IN IF p \in fSyncStarted THEN <<>>
     ELSE <<Message("getblocks", [start |-> start, stop |-> Genesis])>>

\* Once there is room for a block, the whole list is requested.
ToRequest(p) == Filter(listAskForBlocks[p], Block \ Range(Chain[tip]))

SendMessages(p) ==
  LET room == Len(vBlocksInFlight[p]) < MAX_BLOCKS_IN_TRANSIT_PER_PEER
      ask  == IF room THEN ToRequest(p) ELSE <<>>
  IN
  /\ p \in connected
  /\ p \notin fSyncStarted \/ (room /\ listAskForBlocks[p] # <<>>)
  /\ sent' = [sent EXCEPT ![p] =
       @ \o StartSync(p) \o IF ask = <<>> THEN <<>> ELSE <<Message("getdata", ask)>>]
  /\ fSyncStarted' = fSyncStarted \cup {p}
  /\ SetFlight(MarkedBlocks(Flight, p, ask)[Len(ask)])
  /\ listAskForBlocks' = [listAskForBlocks EXCEPT ![p] = IF room THEN <<>> ELSE @]
  /\ UNCHANGED <<nodeVars, proofVars, connected, recv, peerVars>>

-----------------------------------------------------------------------------
(* The peers.                                                              *)

\* PushInventory and the inv message SendMessages makes of it: only blocks the
\* peer does not know us to know.
PeerInv(p, s) ==
  LET new == Filter(s, Block \ peerKnown[p]) IN
  /\ recv' = [recv EXCEPT ![p] = IF new = <<>> THEN @ ELSE Append(@, Message("inv", new))]
  /\ peerKnown' = [peerKnown EXCEPT ![p] = @ \cup Range(new)]

\* The peer's active chain grows, and it announces its new tip.
PeerExtends(p) ==
  /\ peerTip[p] # FinalTip[p]
  /\ LET b == Chain[FinalTip[p]][Len(Chain[peerTip[p]]) + 1] IN
     /\ peerTip' = [peerTip EXCEPT ![p] = b]
     /\ IF p \in connected THEN PeerInv(p, <<b>>) ELSE UNCHANGED <<recv, peerKnown>>
  /\ UNCHANGED <<nodeVars, proofVars, listAskForBlocks, flightVars, linkVars, sent>>

\* What "getblocks" makes the peer announce: its blocks after the last one
\* it shares with the locator, up to hashStop if that is one of them.
GetBlocks(p, start, stop) ==
  LET chain == Chain[peerTip[p]]
      upto  == IF On(stop, peerTip[p]) /\ ~On(stop, start) THEN SubSeq(chain, 1, Height(stop))
                                                           ELSE chain
  IN Filter(upto, Block \ Range(Chain[start]))

\* The peer handles our next message.  There is no handler for "GetData", and
\* "reject" needs no answer.
PeerHandles(p) ==
  /\ sent[p] # <<>>
  /\ sent' = [sent EXCEPT ![p] = Tail(@)]
  /\ LET m == Head(sent[p]) IN
     \/ /\ m.cmd = "getdata"
        /\ LET known == Filter(m.arg, Range(Chain[peerTip[p]])) IN
           recv' = [recv EXCEPT ![p] =
                      @ \o [i \in DOMAIN known |-> Message("block", known[i])]]
        /\ UNCHANGED peerKnown
     \/ /\ m.cmd = "getblocks"
        /\ PeerInv(p, GetBlocks(p, m.arg.start, m.arg.stop))
     \/ /\ m.cmd \in {"GetData", "reject"}
        /\ UNCHANGED <<recv, peerKnown>>
  /\ UNCHANGED <<nodeVars, proofVars, listAskForBlocks, flightVars, linkVars, peerTip>>

\* A peer of another version sends a proof for a block of its chain.
PeerSendsProof(p) ==
  /\ p \in OtherVersions \cap connected /\ Idle(p)
  /\ \E b \in PrevBlocks(p), ms \in SUBSET Masternode :
       recv' = [recv EXCEPT ![p] = Append(@, Message("blockproof",
                  [block |-> b, masternodes |-> ms, vPrevBlockHash |-> PrevBlocks(p)]))]
  /\ UNCHANGED <<nodeVars, proofVars, listAskForBlocks, flightVars, linkVars, sent, peerVars>>

-----------------------------------------------------------------------------
Init ==
  /\ mapBlockIndex = {Genesis} /\ haveData = {Genesis}
  /\ tip = Genesis /\ pindexBestHeader = Genesis
  /\ unapproved = {}
  /\ m_mapStakes = [s \in Stakes |-> [nHeight |-> 0, blocks |-> {}]]
  /\ m_mapBlockWitness = [b \in Block |-> {}]
  /\ listAskForBlocks = [p \in Peer |-> <<>>]
  /\ vBlocksInFlight = [p \in Peer |-> <<>>]
  /\ mapBlocksInFlight = [b \in Block |-> NoPeer]
  /\ connected = {} /\ fSyncStarted = {}
  /\ recv = [p \in Peer |-> <<>>] /\ sent = [p \in Peer |-> <<>>]
  /\ peerTip = StartTip
  /\ peerKnown = [p \in Peer |-> {}]

Handle(p) == Inv(p) \/ BlockMessage(p) \/ BlockProof(p)

Next ==
  \/ \E p \in Peer :
       \/ Handle(p) \/ PeerHandles(p)
       \/ SendMessages(p) \/ TimeoutDownloading(p) \/ Reconnect(p)
       \/ PeerExtends(p) \/ PeerSendsProof(p)
  \/ \E m \in Masternode, p \in Peer : MasternodePing(m, p)

Spec == Init /\ [][Next]_vars

\* The message thread serves every peer in turn, and keeps its connections.
FairSpec ==
  /\ Spec
  /\ \A p \in Peer :
       /\ WF_vars(Handle(p)) /\ WF_vars(PeerHandles(p))
       /\ WF_vars(SendMessages(p)) /\ WF_vars(TimeoutDownloading(p))
       /\ WF_vars(Reconnect(p))

-----------------------------------------------------------------------------
(* Properties.                                                             *)

\* What travels between the node and its peers.
Messages ==
  [cmd : {"inv", "getdata", "GetData"}, arg : Seq(Block)]
    \cup [cmd : {"block", "reject"}, arg : Block]
    \cup [cmd : {"getblocks"}, arg : [start : Block, stop : Block]]
    \cup [cmd : {"blockproof"}, arg : [block : Block, masternodes : SUBSET Masternode,
                                      vPrevBlockHash : SUBSET Block]]

\* The state has the shape the declarations say, and the peers' chains lead to
\* where they end.
TypeOK ==
  /\ mapBlockIndex \subseteq Block /\ haveData \subseteq mapBlockIndex
  /\ tip \in haveData /\ pindexBestHeader \in mapBlockIndex
  /\ unapproved \subseteq haveData
  /\ m_mapStakes \in [Stakes -> [nHeight : Int, blocks : SUBSET haveData]]
  /\ m_mapBlockWitness \in [Block -> SUBSET Masternode]
  /\ listAskForBlocks \in [Peer -> Seq(Block)]
  /\ vBlocksInFlight \in [Peer -> Seq(Block)]
  /\ mapBlocksInFlight \in [Block -> Peer \cup {NoPeer}]
  /\ connected \subseteq Peer /\ fSyncStarted \subseteq connected
  /\ recv \in [Peer -> Seq(Messages)] /\ sent \in [Peer -> Seq(Messages)]
  /\ peerTip \in [Peer -> Block]
  /\ \A p \in Peer : On(peerTip[p], FinalTip[p])
  /\ peerKnown \in [Peer -> SUBSET Block]

\* mapBlocksInFlight holds a pointer into the list of a peer: it points to a
\* live entry of a connected peer, and every entry has exactly one pointer to
\* it, whatever peers ask for, deliver, time out and return.
InFlightConsistent ==
  /\ \A b \in Block : mapBlocksInFlight[b] # NoPeer =>
       /\ mapBlocksInFlight[b] \in connected
       /\ b \in Range(vBlocksInFlight[mapBlocksInFlight[b]])
  /\ \A p \in Peer : /\ IsInjective(vBlocksInFlight[p])
                     /\ \A b \in Range(vBlocksInFlight[p]) : mapBlocksInFlight[b] = p

\* The blocks on disk that package the stake s.
Packaged(s) == {b \in haveData \ {Genesis} : StakeHash[b] = s}

\* As long as every block that packages a stake is within MaxReorganizationDepth
\* of all blocks on disk, no more than STAKE_REPACKAGE_THRESHOLD of them were
\* stored without masternodes to vouch for them, although the record of stakes
\* is erased as the chain grows.  (After that the record is gone, and a block
\* that was refused before is stored when it comes once more.)
RepackageLimited ==
  \A s \in Stakes :
    (\A b \in Packaged(s), c \in haveData : Height(c) - Height(b) <= MaxReorganizationDepth)
      => Cardinality(Packaged(s) \cap unapproved) <= STAKE_REPACKAGE_THRESHOLD

\* Every block of a peer's active chain reaches the node in the end, through
\* blocks dropped because they came before their parents, repeated requests,
\* timeouts and new connections, unless it is held back as suspicious or too
\* far below the tip.
HeldBack(b) ==
  \E i \in 2..Len(Chain[b]) : /\ Chain[b][i] \notin haveData
                              /\ \/ Chain[b][i] \in mapBlockIndex
                                 \/ HeaderTooDeep(Chain[b][i])

BlocksArrive ==
  \A b \in Block \ {Genesis} :
    (\E p \in Peer : On(b, peerTip[p])) ~> (b \in haveData \/ HeldBack(b))

\* "At this point we wait until enough masternodes have approved this block as
\* on the main chain" (main.cpp:3630-3631): a suspicious block of a peer's chain
\* for which enough masternodes vouch is stored in the end.
ApprovedBlockArrives ==
  \A p \in Peer, b \in Block :
    (On(b, peerTip[p]) /\ b \in mapBlockIndex /\ HasSufficientProof(m_mapBlockWitness, b))
      ~> (b \in haveData \/ ~HasSufficientProof(m_mapBlockWitness, b))

=============================================================================
