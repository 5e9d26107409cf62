--------------------------- MODULE MCMnPosRestart ---------------------------
(* MnPosRestart for TLC: the order of the hashes is the reverse of the     *)
(* order of arrival, and memory is given out in the order of the hashes.   *)
EXTENDS MnPosRestart

MCHash == [b \in Block |-> MaxBlock - b]
MCAddress == [b \in Block |-> MaxBlock - b]
=============================================================================
