---------------------------- MODULE ChainFollow ----------------------------
(***************************************************************************)
(* What block sync promises the node (spec "Block synchronization"): the  *)
(* local head follows the network's chain one block at a time and never   *)
(* runs ahead of it.  The network is the head height each peer holds;      *)
(* peers only build on their chains.  Whether a block arrives by range     *)
(* sync or by gossip is not visible here.                                   *)
(***************************************************************************)
EXTENDS Naturals

CONSTANTS
    Peers,        \* the peers the node may sync from
    ChainHeight   \* height of the canonical chain the peers build

VARIABLES
    head,         \* height of the local head
    tips          \* height of each peer's head

followVars == <<head, tips>>

Init ==
    /\ head = 0
    /\ tips \in [Peers -> 0..ChainHeight]

(* The node imports the block after its head, which some peer holds.      *)
Import ==
    /\ \E p \in Peers : tips[p] >= head + 1
    /\ head' = head + 1
    /\ UNCHANGED tips

(* A peer extends its chain by one block.                                  *)
Extend(p) ==
    /\ tips[p] < ChainHeight
    /\ tips' = [tips EXCEPT ![p] = @ + 1]
    /\ UNCHANGED head

Next == Import \/ \E p \in Peers : Extend(p)

Spec == Init /\ [][Next]_followVars
=============================================================================
