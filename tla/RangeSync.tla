------------------------------ MODULE RangeSync ------------------------------
(***************************************************************************)
(* Long-range (batch) sync of the MAP node.                                *)
(*                                                                         *)
(* One SyncingChain (range_sync/chain.rs) with its PendingBatches          *)
(* (range_sync/batch.rs), driven by RangeSync (range_sync/range.rs) from   *)
(* the SyncManager's message loop (sync/manager.rs); the block-processor   *)
(* thread that imports a batch (sync/block_processor.rs); the peers that   *)
(* answer BlocksByRange requests (handler_processor.rs) and the status     *)
(* handshake that adds them (MessageProcessor::process_status).            *)
(*                                                                         *)
(* All peers serve prefixes of one canonical chain of ChainHeight blocks,  *)
(* so a block is abstracted to its height: import_block accepts a block    *)
(* iff its height is the local head + 1 (any other height is KnownBlock    *)
(* or UnknownAncestor).                                                    *)
(***************************************************************************)
EXTENDS Integers, Sequences, FiniteSets, SequencesExt

CONSTANTS
  Peers,              \* peers the node may connect to
  FaultyPeers,        \* peers that may answer a range request wrongly
  BLOCKS_PER_BATCH,   \* chain.rs: heights per batch (5 in the code)
  BATCH_BUFFER_SIZE,  \* chain.rs: completed + pending bound (5 in the code)
  ChainHeight,        \* height of the canonical chain the peers build
  InitPeerHead,       \* each peer's head when the node starts
  Lossy,              \* may a range stream end in an RPC error?
  Gossip,             \* may gossip import blocks concurrently?
  PeersGrow,          \* may peers' chains grow while we sync?
  MaxDrops,           \* bound on peer disconnections (0: none)
  NoBatch             \* None of current_processing_batch

ASSUME FaultyPeers \subseteq Peers
ASSUME BLOCKS_PER_BATCH \in Nat \ {0} /\ BATCH_BUFFER_SIZE \in Nat
ASSUME InitPeerHead \in [Peers -> 0..ChainHeight]

VARIABLES
  sc,         \* the SyncingChain, plus the processor threads it spawned
  head,       \* height of the local head (BlockChain::current_block)
  peerHead,   \* height of each peer's head
  connected,  \* peers whose connection (and status handshake) happened
  inbox,      \* AddPeer messages sent by process_status, not yet handled
  downvoted,  \* peers disconnected by SyncNetworkContext::downvote_peer
  lost,       \* pending requests whose stream ended in an RPC error
  statusReq,  \* peers sent a Status request by status_peers, unanswered
  gossipNet,  \* heights of gossiped blocks in flight to the node
  gossipQ,    \* heights cached in MessageProcessor's gossip priority queue
  drops       \* disconnections so far, bounded by MaxDrops

vars == <<sc, head, peerHead, connected, inbox, downvoted, lost, statusReq,
          gossipNet, gossipQ, drops>>

(* RangeSync::new builds the chain with start_numer = the local head.     *)
StartNum == 0

Orders == SetToSeqs(Peers)

SatSub1(x) == IF x > 0 THEN x - 1 ELSE 0

Batch == [id : Nat, start : Nat, end : Nat, peer : Peers, blocks : Seq(Nat)]

(***************************************************************************)
(* SyncingChain helpers (chain.rs).                                        *)
(***************************************************************************)
CurrentProcessedSlot(s) ==
  StartNum + SatSub1(s.tbp) * BLOCKS_PER_BATCH

(* PendingBatches::insert and remove: the batch map and the per-peer     *)
(* request sets, kept as one set of batches with their peers.             *)
PendingInsert(s, b) == [s EXCEPT !.pending = @ \cup {b}]

PendingRemove(s, b) == [s EXCEPT !.pending = @ \ {b}]

(* PendingBatches::peer_is_idle *)
IsIdle(s, p) == \A b \in s.pending : b.peer # p

NextBatchStart(s) == StartNum + SatSub1(s.tbd) * BLOCKS_PER_BATCH + 1

(* get_next_batch returns Some: buffer not full, start not past target.   *)
HasNextBatch(s) ==
  /\ Len(s.completed) + Cardinality(s.pending) <= BATCH_BUFFER_SIZE
  /\ NextBatchStart(s) <= s.target

MaxCompletedId(s) == IF s.completed = <<>> THEN 0 ELSE Last(s.completed).id

(* get_next_batch for peer p, then send_batch inserting it as pending.    *)
SendBatch(s, p) ==
  LET start == NextBatchStart(s)
      batch == [id |-> s.tbd, start |-> start,
                end |-> Min({start + BLOCKS_PER_BATCH, s.target + 1}),
                peer |-> p, blocks |-> <<>>]
  IN PendingInsert([s EXCEPT !.tbd = Max({s.tbd + 1, MaxCompletedId(s) + 1})],
                   batch)

(* The loop of request_batches: get_next_peer takes an idle pool peer in  *)
(* random order (order is that shuffle), until no peer or no batch.       *)
RECURSIVE SendRangeRequests(_, _)
SendRangeRequests(s, order) ==
  LET idle == SelectSeq(order, LAMBDA p : p \in s.pool /\ IsIdle(s, p))
  IN IF idle = <<>> \/ ~HasNextBatch(s) THEN s
     ELSE SendRangeRequests(SendBatch(s, Head(idle)), order)

RequestBatches(s, order) ==
  IF s.state = "Syncing" THEN SendRangeRequests(s, order) ELSE s

(* spawn_block_processor: a thread that will import the batch's blocks   *)
(* (rest: those not yet imported) and report BatchProcessed.              *)
SpawnBlockProcessor(jobs, b) ==
  jobs \cup {[id |-> b.id, blocks |-> b.blocks, rest |-> b.blocks]}

(* process_completed_batches / process_batch: hand the next batch to a    *)
(* new block-processor thread, keeping the batch (blocks moved out) as    *)
(* current_processing_batch.                                              *)
ProcessCompletedBatches(s) ==
  IF /\ s.state = "Syncing"
     /\ s.processing = NoBatch
     /\ s.completed # <<>>
     /\ Head(s.completed).id = s.tbp
  THEN LET b == Head(s.completed)
       IN [s EXCEPT !.completed = Tail(@),
                    !.processing = [b EXCEPT !.blocks = <<>>],
                    !.jobs = SpawnBlockProcessor(@, b)]
  ELSE s

(* start_syncing: re-index when the local head passed the chain's        *)
(* progress, then sync.                                                   *)
StartSyncing(s, local, order) ==
  LET s1 == IF local > CurrentProcessedSlot(s)
            THEN [s EXCEPT !.tbd = 1, !.tbp = 1,
                           !.completed = <<>>, !.processed = <<>>]
            ELSE s
  IN RequestBatches(ProcessCompletedBatches([s1 EXCEPT !.state = "Syncing"]),
                    order)

(* SyncingChain::add_peer *)
ChainAddPeer(s, p, order) ==
  LET s1 == [s EXCEPT !.pool = @ \cup {p}]
  IN IF s1.state = "Stopped" THEN s1 ELSE RequestBatches(s1, order)

(* RangeSync::add_peer targeting one past the announced height.         *)
RangeAddPeerPastTarget(s, m, local, o1, o2) ==
  StartSyncing(ChainAddPeer([s EXCEPT !.target = m.finalized + 1], m.peer, o1),
               local, o2)

(* RangeSync::add_peer: remove_peer (a no-op), retarget, add, start.      *)
RangeAddPeer(s, m, local, o1, o2) ==
  StartSyncing(ChainAddPeer([s EXCEPT !.target = m.finalized], m.peer, o1),
               local, o2)

OutOfRange(b) ==
  b.blocks # <<>> /\ (b.start > b.blocks[1] \/ b.end < Last(b.blocks))

(* Vec::binary_search by id then insert: at the index of some equal id,   *)
(* or at the insertion point when there is none.                          *)
InsertPositions(seq, b) ==
  LET ok(i) == /\ \A j \in 1..(i - 1) : seq[j].id <= b.id
               /\ \A j \in i..Len(seq) : seq[j].id >= b.id
      hasEq == \E j \in 1..Len(seq) : seq[j].id = b.id
  IN {i \in 1..(Len(seq) + 1) :
        ok(i) /\ (hasEq => i <= Len(seq) /\ seq[i].id = b.id)}

(* handle_completed_batch for the stream-terminated batch fb.             *)
HandleCompletedBatch(s, b, fb, pos, order) ==
  LET s0 == PendingRemove(s, b)
  IN IF OutOfRange(fb)
     THEN [s0 EXCEPT !.tbp = fb.id]
     ELSE ProcessCompletedBatches(
            RequestBatches([s0 EXCEPT !.completed = InsertAt(@, pos, fb)],
                           order))

(* RangeSync::handle_block_process_result with on_batch_process_result;   *)
(* process_blocks always yields BatchProcessResult::Success.              *)
OnBatchProcessResult(s, j, order) ==
  LET s0 == [s EXCEPT !.jobs = @ \ {j}]
  IN IF s.processing = NoBatch \/ s.processing.id # j.id THEN s0
     ELSE
       LET b  == [s.processing EXCEPT !.blocks = j.blocks]
           s1 == [s0 EXCEPT !.processing = NoBatch, !.tbp = @ + 1,
                            !.processed = IF b.blocks # <<>> THEN <<>> ELSE @]
           s2 == IF b.blocks = <<>> \/ Last(b.blocks) # SatSub1(b.end)
                 THEN [s1 EXCEPT !.processed = Append(@, b.id)]
                 ELSE s1
       IN IF CurrentProcessedSlot(s2) >= s2.target
          THEN [s2 EXCEPT !.state = "Stopped"]
          ELSE ProcessCompletedBatches(RequestBatches(s2, order))

(***************************************************************************)
(* The responder: on_blocks_by_range_request with step 1, serving from    *)
(* its chain of height top.                                                *)
(***************************************************************************)
RECURSIVE ServeRange(_, _, _, _)
ServeRange(cur, count, top, acc) ==
  IF top > cur /\ Len(acc) = count THEN acc
  ELSE IF cur <= top THEN ServeRange(cur + 1, count, top, Append(acc, cur))
  ELSE acc

Responses(b) ==
  LET honest == ServeRange(b.start,
                           Min({BLOCKS_PER_BATCH, b.end - b.start}),
                           peerHead[b.peer], <<>>)
      forged == {<<h>> : h \in {b.end, b.end + 1} \cap 1..peerHead[b.peer]}
  IN IF b.peer \in FaultyPeers THEN {honest, <<>>} \cup forged
     ELSE {honest}

-----------------------------------------------------------------------------
Init ==
  /\ sc = [target |-> 0, state |-> "Stopped", pool |-> {},
           pending |-> {}, completed |-> <<>>, processed |-> <<>>,
           tbd |-> 1, tbp |-> 1, processing |-> NoBatch, jobs |-> {}]
  /\ head = StartNum
  /\ peerHead = InitPeerHead
  /\ connected = {}
  /\ inbox = {}
  /\ downvoted = {}
  /\ lost = {}
  /\ statusReq = {}
  /\ gossipNet = {}
  /\ gossipQ = {}
  /\ drops = 0

(* SyncNetworkContext::downvote_peer: disconnect with Goodbye(Fault) and  *)
(* a Disconnect to the network service; the peer sends nothing more on     *)
(* this connection.                                                        *)
DownvotePeer(dv, p) == dv \cup {p}

(* SyncNetworkContext::status_peer for each peer of the pool: a Status   *)
(* request (status_message is always Some) to every one of them.          *)
StatusPeers(sr, pool) == sr \cup pool

(* process_status: a peer not behind us is sent to sync as AddPeer.       *)
StatusOf(p) ==
  IF peerHead[p] >= head
  THEN inbox \cup {[peer |-> p, finalized |-> peerHead[p]]}
  ELSE inbox

(* on_connect: status handshake with a new peer; our side runs          *)
(* process_status on the peer's Status.  A peer that reconnects after a   *)
(* downvote is a new connection.                                           *)
Connect(p) ==
  /\ p \notin connected
  /\ connected' = connected \cup {p}
  /\ inbox' = StatusOf(p)
  /\ downvoted' = downvoted \ {p}
  /\ UNCHANGED <<sc, head, peerHead, lost, statusReq, gossipNet, gossipQ,
                 drops>>

(* RangeSync::peer_disconnect: awaiting_head_peers (never filled) drops   *)
(* the peer, then remove_peer, whose body is empty: the peer stays in the *)
(* pool and its pending batches stay pending.                              *)
RemovePeer(s, p) == s

(* SyncMessage::Disconnect, sent by on_disconnect, handled by             *)
(* SyncManager::peer_disconnect (full_peers and the manager state are not *)
(* modelled).  The connection's open streams, range and status, die.       *)
PeerDisconnect(p) ==
  /\ drops < MaxDrops
  /\ p \in connected
  /\ connected' = connected \ {p}
  /\ sc' = RemovePeer(sc, p)
  /\ lost' = lost \cup {b \in sc.pending : b.peer = p}
  /\ statusReq' = statusReq \ {p}
  /\ drops' = drops + 1
  /\ UNCHANGED <<head, peerHead, inbox, downvoted, gossipNet, gossipQ>>

(* on_status_response to a Status request that status_peers sent.        *)
StatusResponse(p) ==
  /\ p \in statusReq \cap connected
  /\ statusReq' = statusReq \ {p}
  /\ inbox' = IF p \in downvoted THEN inbox ELSE StatusOf(p)
  /\ UNCHANGED <<sc, head, peerHead, connected, downvoted, lost,
                 gossipNet, gossipQ, drops>>

(* SyncMessage::AddPeer handled by SyncManager::add_peer.                 *)
SyncAddPeer(m) ==
  /\ m \in inbox
  /\ \E o1, o2 \in Orders : sc' = RangeAddPeer(sc, m, head, o1, o2)
  /\ inbox' = inbox \ {m}
  /\ UNCHANGED <<head, peerHead, connected, downvoted, lost, statusReq,
                 gossipNet, gossipQ, drops>>

(* A BlocksByRange stream delivered and terminated: on_block_response.   *)
RangeResponse(b) ==
  /\ b \in sc.pending
  /\ b \notin lost
  /\ b.peer \in connected \ downvoted
  /\ \E blocks \in Responses(b) :
       LET fb == [b EXCEPT !.blocks = blocks]
       IN /\ \E pos \in InsertPositions(sc.completed, fb), o \in Orders :
               sc' = HandleCompletedBatch(sc, b, fb, pos, o)
          /\ downvoted' = IF OutOfRange(fb) THEN DownvotePeer(downvoted, b.peer)
                          ELSE downvoted
  /\ UNCHANGED <<head, peerHead, connected, inbox, lost, statusReq,
                 gossipNet, gossipQ, drops>>

(* The stream fails (timeout, disconnect); SyncMessage::RPCError is only  *)
(* printed, so the batch stays pending.  A request sent to a peer that   *)
(* is not connected may fail in the same way.                              *)
LoseResponse(b) ==
  /\ Lossy \/ b.peer \notin connected
  /\ b \in sc.pending \ lost
  /\ lost' = lost \cup {b}
  /\ UNCHANGED <<sc, head, peerHead, connected, inbox, downvoted, statusReq,
                 gossipNet, gossipQ, drops>>

ProcessorImport(j) ==
  /\ j \in sc.jobs
  /\ j.rest # <<>>
  /\ LET ok == Head(j.rest) = head + 1
     IN /\ head' = IF ok THEN head + 1 ELSE head
        /\ sc' = [sc EXCEPT !.jobs = (@ \ {j}) \cup
                      {[j EXCEPT !.rest = IF ok THEN Tail(@) ELSE <<>>]}]
  /\ UNCHANGED <<peerHead, connected, inbox, downvoted, lost, statusReq,
                 gossipNet, gossipQ, drops>>

(* SyncMessage::BatchProcessed handled by the sync manager; on          *)
(* RemoveChain, RangeSync calls status_peers on the whole pool.           *)
BatchProcessed(j) ==
  /\ j \in sc.jobs
  /\ j.rest = <<>>
  /\ \E o \in Orders :
       LET s == OnBatchProcessResult(sc, j, o)
       IN /\ sc' = s
          /\ statusReq' = IF sc.state = "Syncing" /\ s.state = "Stopped"
                          THEN StatusPeers(statusReq, sc.pool)
                          ELSE statusReq
  /\ UNCHANGED <<head, peerHead, connected, inbox, downvoted, lost,
                 gossipNet, gossipQ, drops>>

(* A peer's chain grows by one block; a peer that produced a new tip     *)
(* publishes it on the block topic (broadcast_block), which the node      *)
(* receives while it is connected.                                         *)
PeerAdvance(p) ==
  /\ PeersGrow
  /\ peerHead[p] < ChainHeight
  /\ peerHead' = [peerHead EXCEPT ![p] = @ + 1]
  /\ gossipNet' = IF /\ Gossip
                     /\ p \in connected \ downvoted
                     /\ \A q \in Peers : peerHead[q] <= peerHead[p]
                  THEN gossipNet \cup {peerHead[p] + 1} ELSE gossipNet
  /\ UNCHANGED <<sc, head, connected, inbox, downvoted, lost, statusReq,
                 gossipQ, drops>>

(* on_block_gossip(h) after reading the head as cur: with u64           *)
(* arithmetic, h < cur wraps past QUEUE_GOSSIP_BLOCK and the block is      *)
(* dropped; otherwise h joins the queue, which is popped in ascending      *)
(* height: heights <= cur are discarded, cur + 1 is imported (it fails as  *)
(* KnownBlock if the head moved since the read), and the first height     *)
(* above cur + 1 stops the loop. cur is never re-read, so one gossip      *)
(* imports at most one block.                                              *)
OnBlockGossip(h, cur) ==
  IF h < cur THEN UNCHANGED <<head, gossipQ>>
  ELSE /\ gossipQ' = {x \in gossipQ \cup {h} : x > cur + 1}
       /\ head' = IF cur + 1 \in gossipQ \cup {h} /\ cur = head
                  THEN head + 1 ELSE head

(* A gossiped block reaches the node. The head was read under the lock   *)
(* before the import; the block-processor thread may have imported since. *)
GossipDeliver(h) ==
  /\ h \in gossipNet
  /\ gossipNet' = gossipNet \ {h}
  /\ \E cur \in StartNum..head :
       /\ cur = head \/ sc.jobs # {}
       /\ OnBlockGossip(h, cur)
  /\ UNCHANGED <<sc, peerHead, connected, inbox, downvoted, lost, statusReq,
                 drops>>

Next ==
  \/ \E p \in Peers : Connect(p) \/ StatusResponse(p) \/ PeerAdvance(p)
  \/ \E p \in Peers : PeerDisconnect(p)
  \/ \E m \in inbox : SyncAddPeer(m)
  \/ \E b \in sc.pending : RangeResponse(b) \/ LoseResponse(b)
  \/ \E j \in sc.jobs : ProcessorImport(j) \/ BatchProcessed(j)
  \/ \E h \in gossipNet : GossipDeliver(h)

(* The sync manager drains its channel, honest peers answer, the         *)
(* processor thread runs to completion, and every peer connects once.    *)
Fairness ==
  /\ \A p \in Peers : WF_vars(Connect(p))
  /\ \A p \in Peers \ FaultyPeers : WF_vars(StatusResponse(p))
  /\ \A p \in Peers, f \in 0..ChainHeight :
       WF_vars(SyncAddPeer([peer |-> p, finalized |-> f]))
  /\ \A p \in Peers \ FaultyPeers :
       WF_vars(\E b \in sc.pending : b.peer = p /\ RangeResponse(b))
  /\ WF_vars(\E j \in sc.jobs : ProcessorImport(j) \/ BatchProcessed(j))
  /\ \A h \in 1..ChainHeight : WF_vars(GossipDeliver(h))

Spec == Init /\ [][Next]_vars /\ Fairness

-----------------------------------------------------------------------------
TypeOK ==
  /\ sc.target \in 0..ChainHeight
  /\ sc.state \in {"Stopped", "Syncing"}
  /\ sc.pool \subseteq Peers
  /\ sc.pending \subseteq Batch
  /\ sc.completed \in Seq(Batch) /\ sc.processed \in Seq(Nat)
  /\ sc.tbd \in Nat \ {0} /\ sc.tbp \in Nat
  /\ sc.processing \in Batch \cup {NoBatch}
  /\ head \in Nat
  /\ peerHead \in [Peers -> 0..ChainHeight]
  /\ connected \subseteq Peers /\ downvoted \subseteq Peers
  /\ lost \subseteq Batch
  /\ statusReq \subseteq Peers
  /\ gossipNet \subseteq 1..ChainHeight /\ gossipQ \subseteq 1..ChainHeight
  /\ drops \in 0..MaxDrops

(* While the chain syncs, no height between the local head and the       *)
(* target falls through: each is requested from a peer (pending), already *)
(* downloaded (completed_batches), handed to the block-processor thread,   *)
(* or at or past the start of the next batch get_next_batch will make.    *)
(* A gossiped block the node has not imported yet covers its height too:  *)
(* when on_block_gossip imports a batch's first block before the          *)
(* processor does, process_blocks breaks on KnownBlock and leaves the     *)
(* rest of the batch to gossip.  Batch ends cut at the target, the id     *)
(* bookkeeping of send_batch and that early break all have to agree for   *)
(* this to hold.                                                           *)
Covered(h) ==
  \/ \E b \in sc.pending : b.start <= h /\ h < b.end
  \/ \E i \in 1..Len(sc.completed) : h \in ToSet(sc.completed[i].blocks)
  \/ \E j \in sc.jobs : h \in ToSet(j.rest)
  \/ h >= NextBatchStart(sc)
  \/ h \in gossipNet \cup gossipQ

NoHeightSkipped ==
  sc.state = "Syncing" => \A h \in (head + 1)..sc.target : Covered(h)

(* With honest peers that all hold the chain, the local head eventually  *)
(* reaches the chain's height through batches requested, answered and    *)
(* processed in order.                                                    *)
EventuallySynced == <>[](\A p \in Peers : head = peerHead[p])

(* Range sync and gossip together implement ChainFollow: every import,    *)
(* by the block-processor thread or by on_block_gossip, moves the head up *)
(* by exactly one to a height a peer holds, whatever batches faulty peers *)
(* return, however streams fail and completed batches are re-ordered.     *)
Follow == INSTANCE ChainFollow WITH tips <- peerHead

=============================================================================
