---------------------------- MODULE MC_ChainStore ----------------------------
(* Model-checking instance of ChainStore; its constants are numbers, given *)
(* in the cfg files.                                                        *)
EXTENDS ChainStore
=============================================================================
