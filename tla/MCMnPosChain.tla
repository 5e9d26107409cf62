---------------------------- MODULE MCMnPosChain ----------------------------
(* MnPosChain for TLC, with the mapping to the ledger it implements.  The   *)
(* constants are given in the .cfg files.                                   *)
EXTENDS MnPosLedger
=============================================================================
