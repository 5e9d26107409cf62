---------------------------- MODULE MnPosLedger -----------------------------
(* MnPosChain implements StakeLedger: the ledger is the active chain.      *)
EXTENDS MnPosChain

\* chainActive, as the ledger shows it
ActiveLedger ==
  [h \in 0..nHeight[tip] |->
     [block |-> ancestor[tip][h], source |-> stakeSource[ancestor[tip][h]]]]

Ledger == INSTANCE StakeLedger WITH height <- nHeight[tip], chain <- ActiveLedger

\* Whatever the node does with its tree, candidates, failed marks and record of
\* pointers, each step of it leaves the active chain alone, puts one block with
\* a mature pointer that is unused in that chain on top of it, or cuts it back.
ImplementsLedger == Ledger!Spec

=============================================================================
