------------------------------- MODULE Orphan -------------------------------
(***************************************************************************)
(* The sync manager's parent lookup for orphan gossip blocks               *)
(* (network/src/sync/manager.rs): add_unknown_block, request_for_block and *)
(* blocks_by_root_response, with the OrphanBlock messages the message      *)
(* processor sends from on_block_gossip, a peer answering BlocksByRoot     *)
(* from its chain (on_blocks_by_root_request), and imports by the other    *)
(* threads (range sync's block processor, gossip) that move the head.      *)
(*                                                                         *)
(* Every block is on one canonical chain, so a block is its height and     *)
(* its parent_hash names height - 1; the parent of genesis (height 0) is   *)
(* the zero hash, which no peer holds.  The peer that gossiped the orphan  *)
(* holds the whole chain up to it.                                         *)
(***************************************************************************)
EXTENDS Integers, Sequences, FiniteSets, SequencesExt

CONSTANTS
    ChainHeight,           \* height of the canonical chain's tip
    SLOT_IMPORT_TOLERANCE, \* gap past which a gossip block is an orphan
    MaxOrphans,            \* bound: OrphanBlock messages sent
    RacingImports,         \* TRUE: other threads import while a lookup runs
    Lossy                  \* TRUE: a BlocksByRoot stream may end in an error

ASSUME SLOT_IMPORT_TOLERANCE \in Nat /\ ChainHeight > SLOT_IMPORT_TOLERANCE

VARIABLES
    head,        \* height of current_block()
    inbox,       \* OrphanBlock messages in the sync channel (heights)
    downloaded,  \* pool.parents.downloaded_blocks, a stack (heights)
    requests,    \* BlocksByRoot requests in flight (heights asked for)
    orphans      \* OrphanBlock messages sent so far

vars == <<head, inbox, downloaded, requests, orphans>>

Heights == 0..ChainHeight

-----------------------------------------------------------------------------
(* import_block of height x on head hd: Ok exactly when x = hd + 1, else    *)
(* KnownBlock or UnknownAncestor, which is printed and leaves the head.     *)
ImportOk(hd, x) == x = hd + 1

ImportOne(hd, x) == IF ImportOk(hd, x) THEN x ELSE hd

(* the loop popping the oldest pushed block first.                          *)
PopImportFifo(hd, stack) == FoldLeft(ImportOne, hd, stack)

(* The while-let loop of blocks_by_root_response: pop the stack (its last *)
(* pushed block first) and import each block; an error is printed and the *)
(* loop goes on.  The result is the new head.                              *)
PopImport(hd, stack) == FoldRight(LAMBDA x, h : ImportOne(h, x), stack, hd)

(* on_blocks_by_root_request on the peer: for the requested root, the     *)
(* block its chain holds (none for the zero hash), sent before the stream  *)
(* termination.  The termination reaches blocks_by_root_response as None,  *)
(* which returns at once, so a response is the block found, if any.        *)
RootAnswer(k) == {x \in Heights : x = k}

-----------------------------------------------------------------------------
Init ==
    /\ head \in 0..(ChainHeight - SLOT_IMPORT_TOLERANCE - 1)
    /\ inbox = {}
    /\ downloaded = <<>>
    /\ requests = {}
    /\ orphans = 0

(* on_block_gossip: a block more than SLOT_IMPORT_TOLERANCE above the head *)
(* that cannot be imported from the queue is sent to sync as OrphanBlock.  *)
(* Peers gossip the same block independently, so one block may be sent    *)
(* again while it is looked up.                                            *)
OrphanGossip(h) ==
    /\ orphans < MaxOrphans
    /\ h > head + SLOT_IMPORT_TOLERANCE
    /\ inbox' = inbox \cup {h}
    /\ orphans' = orphans + 1
    /\ UNCHANGED <<head, downloaded, requests>>

(* add_unknown_block that asks for the block's own hash, not its parent's. *)
AddUnknownBlockSelfRequest(h) ==
    /\ h \in inbox
    /\ inbox' = inbox \ {h}
    /\ IF downloaded = <<>>
       THEN /\ downloaded' = <<h>>
            /\ requests' = requests \cup {h}
       ELSE UNCHANGED <<downloaded, requests>>
    /\ UNCHANGED <<head, orphans>>

(* add_unknown_block that starts a lookup while another is running.        *)
AddUnknownBlockNoBusyCheck(h) ==
    /\ h \in inbox
    /\ inbox' = inbox \ {h}
    /\ downloaded' = Append(downloaded, h)
    /\ requests' = requests \cup {h - 1}
    /\ UNCHANGED <<head, orphans>>

(* add_unknown_block (block_roots is never filled, so its check is never  *)
(* true): ignored while a lookup is running, else the block is pushed and *)
(* request_for_block asks the sending peer for its parent.  The Regular-  *)
(* state check is commented out, so this runs in every sync state.        *)
AddUnknownBlock(h) ==
    /\ h \in inbox
    /\ inbox' = inbox \ {h}
    /\ IF downloaded = <<>>
       THEN /\ downloaded' = <<h>>
            /\ requests' = requests \cup {h - 1}
       ELSE UNCHANGED <<downloaded, requests>>
    /\ UNCHANGED <<head, orphans>>

(* blocks_by_root_response for the request of height k, answered by the   *)
(* peer from its chain (on_blocks_by_root_request).  The zero hash, the   *)
(* parent of genesis, is answered with None and the handler returns.  A   *)
(* block already in the chain is only logged.  A block whose parent is    *)
(* the head is imported and then the whole stack is popped and imported;  *)
(* any other block is pushed and its parent requested.                     *)
BlocksByRootResponse(k) ==
    /\ k \in requests
    /\ CASE RootAnswer(k) = {} ->
              /\ requests' = requests \ {k}
              /\ UNCHANGED <<head, downloaded>>
         [] k - 1 = head ->
              /\ head' = PopImport(ImportOne(head, k), downloaded)
              /\ downloaded' = <<>>
              /\ requests' = requests \ {k}
         [] OTHER ->
              /\ downloaded' = Append(downloaded, k)
              /\ requests' = (requests \ {k}) \cup {k - 1}
              /\ UNCHANGED head
    /\ UNCHANGED <<inbox, orphans>>

(* The BlocksByRoot stream times out or fails: the handler's on_rpc_error  *)
(* sends SyncMessage::RPCError, which poll only prints.  No answer, and no  *)
(* None, reaches blocks_by_root_response; the stack stays as it is.        *)
LoseRootResponse(k) ==
    /\ Lossy
    /\ k \in requests
    /\ requests' = requests \ {k}
    /\ UNCHANGED <<head, inbox, downloaded, orphans>>

(* The block processor or the gossip handler imports the next block.      *)
OtherImport ==
    /\ RacingImports
    /\ head < ChainHeight
    /\ head' = head + 1
    /\ UNCHANGED <<inbox, downloaded, requests, orphans>>

Next ==
    \/ \E h \in Heights : OrphanGossip(h)
    \/ \E h \in inbox : AddUnknownBlock(h)
    \/ \E k \in requests : BlocksByRootResponse(k) \/ LoseRootResponse(k)
    \/ OtherImport

(* The manager's poll drains its channel and the peer answers every       *)
(* request: weak fairness on both.  Other imports and failed streams get   *)
(* none.                                                                    *)
Fairness ==
    /\ \A h \in Heights : WF_vars(AddUnknownBlock(h))
    /\ \A k \in -1..ChainHeight : WF_vars(BlocksByRootResponse(k))

Spec == Init /\ [][Next]_vars /\ Fairness

-----------------------------------------------------------------------------
(* Properties.                                                             *)

TypeOK ==
    /\ head \in Heights
    /\ inbox \subseteq Heights
    /\ downloaded \in Seq(Heights) /\ Len(downloaded) <= ChainHeight + 1
    /\ requests \subseteq -1..(ChainHeight - 1)
    /\ orphans \in 0..MaxOrphans

(* One lookup at a time, and it is a chain: the stack holds an orphan and *)
(* its ancestors, each pushed block the parent of the one before, and the *)
(* at most one request is in flight, none when no lookup runs.           *)
(* add_unknown_block's emptiness test is what keeps a second orphan out.  *)
LookupChained ==
    /\ \A i \in 1..Len(downloaded) - 1 : downloaded[i + 1] = downloaded[i] - 1
    /\ Cardinality(requests) <= 1
    /\ downloaded = <<>> => requests = {}

(* Spec 5, orphan resolution: when the parent arrives the pending         *)
(* children are flushed to the chain in order.  Whenever the stack is     *)
(* emptied by an import, the orphan it started from is in the chain.      *)
ChildrenFlushed ==
    [][downloaded # <<>> /\ downloaded' = <<>> => head' >= downloaded[1]]_vars

(* A parent lookup ends: once a block is pushed, downloaded_blocks is     *)
(* eventually emptied again, so later orphans are looked up too (while it *)
(* is not empty, add_unknown_block ignores every orphan).                 *)
OrphanResolved == (downloaded # <<>>) ~> (downloaded = <<>>)
=============================================================================
