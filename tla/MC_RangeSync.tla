---------------------------- MODULE MC_RangeSync ----------------------------
(* Model-checking instances of RangeSync: two peers, batches of two       *)
(* heights, a buffer of one batch, a chain of four blocks.                 *)
EXTENDS RangeSync

CONSTANTS p1, p2

MCPeers == {p1, p2}

MCOnePeer == {p1}

(* Every peer already holds the whole chain.                              *)
MCHeadsFull == [p \in Peers |-> ChainHeight]

(* Every peer starts with the first two blocks and may build the rest.  *)
MCHeadsLow == [p \in Peers |-> 2]

=============================================================================
