-------------------------- MODULE MCBlockDownload --------------------------
(* Instances of BlockDownload: small block trees given by their chains.    *)
EXTENDS BlockDownload, TLC

CONSTANTS p1, p2

\* Blocks are numbers: a chain 0 - 1 - 2 - 4 and a fork 0 - 3.
MCBlock == 0..4
MCChain == (0 :> <<0>>) @@ (1 :> <<0, 1>>) @@ (2 :> <<0, 1, 2>>) @@ (3 :> <<0, 3>>)
             @@ (4 :> <<0, 1, 2, 4>>)

\* The same without the blocks 2 and 4, and without 3 and 4.
MCBlockFlat == {0, 1, 3}
MCChainFlat == [b \in MCBlockFlat |-> MCChain[b]]
MCBlockLine == 0..2
MCChainLine == [b \in MCBlockLine |-> MCChain[b]]

\* Every block has a stake of its own, or the blocks of one height share one.
MCOwnStake    == [b \in Block |-> b]
MCSharedStake == [b \in Block |-> Len(Chain[b])]

\* Every peer starts with the first block; or p1 has two blocks of the chain, and
\* the others are on the fork.
MCGenesis == [p \in Peer |-> 0]
MCAhead   == [p \in Peer |-> IF p = p1 THEN 2 ELSE 3]

\* One peer goes to the end of the chain and the others are on the fork; the same
\* for the flat tree; all go to the end of the line.
MCFork  == [p \in Peer |-> IF p = p1 THEN 4 ELSE 3]
MCFlat  == [p \in Peer |-> IF p = p1 THEN 1 ELSE 3]
MCSame  == [p \in Peer |-> 2]
=============================================================================
