--------------------------- MODULE MCInstantSend ---------------------------
(* Two transactions that share one input, and a masternode ranked first at *)
(* each of two heights, of which the node is one.                          *)
EXTENDS InstantSend, TLC

CONSTANTS t1, t2, o1, o2, m1, m2

MCInputs   == (t1 :> {o1, o2}) @@ (t2 :> {o2})
MCTxHeight == (t1 :> 1) @@ (t2 :> 2)
MCMaxVotes == (t1 :> 2) @@ (t2 :> 1)
MCTop      == (1 :> {m1}) @@ (2 :> {m2})
=============================================================================
