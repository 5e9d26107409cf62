---------------------------- MODULE StakeLedger -----------------------------
(***************************************************************************)
(* What the node promises of the chain it follows, without block tree,     *)
(* candidates, failed marks or record of used pointers: one chain, which   *)
(* is extended by a block whose stake pointer is mature and unused in that *)
(* chain, or cut back, which sets the pointers of the blocks cut free.     *)
(* MnPosLedger shows that the block tree of MnPosChain implements it.      *)
(***************************************************************************)
EXTENDS Integers

CONSTANTS
  Block, Slot, NoPointer,
  PoSStartHeight, ValidStakePointerDuration, MaxReorganizationDepth

VARIABLES
  height,   \* height of the chain
  chain     \* height -> the block there and its stake source

ledgerVars == <<height, chain>>

Entry == [block : Block, source : (Block \X Slot) \cup {NoPointer}]

\* Pointer p may pay for a block on top of the chain: it is unused, and the
\* block that holds the payment is deep enough and not too deep in the chain.
Spendable(p) ==
  /\ \A i \in 0..height : chain[i].source # p
  /\ \E i \in 0..height :
       /\ chain[i].block = p[1]
       /\ height + 1 - ValidStakePointerDuration <= i
       /\ i <= height + 1 - MaxReorganizationDepth

Extend(e) ==
  /\ \A i \in 0..height : chain[i].block # e.block
  /\ IF height + 1 < PoSStartHeight THEN e.source = NoPointer
                                    ELSE e.source # NoPointer /\ Spendable(e.source)
  /\ height' = height + 1
  /\ chain' = [i \in 0..(height + 1) |-> IF i = height + 1 THEN e ELSE chain[i]]

Truncate(n) ==
  /\ height' = n
  /\ chain' = [i \in 0..n |-> chain[i]]

Init ==
  /\ height \in 0..(PoSStartHeight - 1)
  /\ chain \in [0..height -> [block : Block, source : {NoPointer}]]

Next ==
  \/ \E e \in Entry : Extend(e)
  \/ \E n \in 0..(height - 1) : Truncate(n)

Spec == Init /\ [][Next]_ledgerVars

=============================================================================
