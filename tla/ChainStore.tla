----------------------------- MODULE ChainStore -----------------------------
(***************************************************************************)
(* The node's persistent chain: BlockChain::load, setup_genesis and        *)
(* import_block (chain/src/blockchain.rs) over the block index ChainDB     *)
(* (chain/src/store.rs) and the state trie's ArchiveDB (core/src/state.rs) *)
(* on two RocksDB instances (common/store/src/mapdb.rs).                   *)
(*                                                                         *)
(* Every put is atomic and durable on its own; nothing groups them, so a   *)
(* crash (a kill, a power loss, or a failed put whose expect panics and    *)
(* poisons the chain lock) may fall between any two.  A restart runs load *)
(* again on what was persisted.                                            *)
(*                                                                         *)
(* Blocks are those of the one canonical chain, so a block is its height  *)
(* and its parent is height - 1.  A put is a record [kind, h]: the state  *)
(* trie of block h ("root"), the 'n' height index, the 'h' header, the    *)
(* 'b' block or the 'H' head pointer.                                      *)
(***************************************************************************)
EXTENDS Integers, Sequences

CONSTANTS
    MaxHeight,   \* height of the canonical chain's tip
    MaxCrashes,  \* bound: crashes of the node
    FreshDir     \* TRUE: an empty data directory; FALSE: one an earlier run
                 \* left with genesis set up

ASSUME MaxHeight \in Nat \ {0} /\ MaxCrashes \in Nat /\ FreshDir \in BOOLEAN

Heights == 0..MaxHeight
NoHead == -1                   \* no value under the HEAD key

VARIABLES
    num,      \* heights with an 'n' key (get_header_hash)
    hdr,      \* heights with an 'h' key (get_header)
    blk,      \* heights with a 'b' key (get_block)
    headKey,  \* height under the 'H' HEAD key, or NoHead
    roots,    \* heights whose post-state trie is in the state backend
    node,     \* "down", "up", or "failed": load panics on every start
    writing,  \* puts of the running setup_genesis or import_block not done
    crashes   \* crashes so far

store == <<num, hdr, blk, headKey, roots>>
vars == <<num, hdr, blk, headKey, roots, node, writing, crashes>>

-----------------------------------------------------------------------------
(* Reads of ChainDB.                                                       *)

(* ChainDB::head_hash: the HEAD key, or None.                             *)
HeadHash == headKey

(* ChainDB::get_header_hash: the 'n' key of a height, or None.             *)
GetHeaderHash(h) == IF h \in num THEN h ELSE NoHead

(* ChainDB::get_header: the 'h' key of a hash.                             *)
GetHeader(x) == x \in hdr

(* ChainDB::get_header_by_number (the RPC's header query): the 'n' key,   *)
(* then the 'h' key.                                                       *)
GetHeaderByNumber(h) == GetHeader(GetHeaderHash(h))

(* ChainDB::get_block: the 'b' key.                                        *)
GetBlock(x) == x \in blk

(* ChainDB::get_block_by_number: the 'n' key, then the 'b' key.           *)
GetBlockByNumber(h) == GetBlock(GetHeaderHash(h))

(* ChainDB::head_block: the HEAD key, then the 'b' key; None if either is *)
(* missing.  current_block unwraps it.                                     *)
HeadBlock == IF HeadHash # NoHead /\ GetBlock(HeadHash) THEN HeadHash ELSE NoHead

(* BlockChain::exits_block ignores the hash: a block at that height.       *)
ExitsBlock(h) == GetBlockByNumber(h)

(* BlockChain::check_previous: the block named by parent_hash is stored.  *)
CheckPrevious(h) == GetBlock(h - 1)

(* Validator::validate_block: sign_root and tx_root match the block's     *)
(* signs and txs, which holds for the canonical chain's blocks.           *)
ValidateBlock(h) == TRUE

(* Validator::validate_header: the parent block is stored (height and time *)
(* hold for the canonical chain's blocks).                                 *)
ValidateHeader(h) == GetBlock(h - 1)

(* StateDB::get_storage over state_at(root): a root whose trie is missing  *)
(* reads as empty, so execution on it cannot match the declared root.     *)
StateReadable(h) == h \in roots

-----------------------------------------------------------------------------
(* Writes.                                                                 *)

(* ChainDB::write_header_hash: the 'n' key of the height.                 *)
WriteHeaderHash(h) == << [kind |-> "num", h |-> h] >>

(* ChainDB::write_header: write_header_hash, then the 'h' key.             *)
WriteHeader(h) == WriteHeaderHash(h) \o << [kind |-> "hdr", h |-> h] >>

(* ChainDB::write_head_hash: the HEAD key.                                 *)
WriteHeadHash(h) == << [kind |-> "head", h |-> h] >>

(* ChainDB::write_block: write_header and then the block.                  *)
WriteBlockPuts(h) == WriteHeader(h) \o << [kind |-> "blk", h |-> h] >>

(* write_block with the head pointer written before the block.            *)
ImportPutsHeadFirst(h) ==
    << [kind |-> "root", h |-> h], [kind |-> "num", h |-> h],
       [kind |-> "hdr", h |-> h], [kind |-> "head", h |-> h],
       [kind |-> "blk", h |-> h] >>

(* The puts of setup_genesis and of a successful import_block, in order:  *)
(* the executor's state.commit() (ArchiveDB::commit), write_block, then   *)
(* write_head_hash.                                                        *)
ImportPuts(h) ==
    << [kind |-> "root", h |-> h] >> \o WriteBlockPuts(h) \o WriteHeadHash(h)

(* MapDB::put of one key.                                                  *)
ApplyPut(p) ==
    /\ num' = IF p.kind = "num" THEN num \cup {p.h} ELSE num
    /\ hdr' = IF p.kind = "hdr" THEN hdr \cup {p.h} ELSE hdr
    /\ blk' = IF p.kind = "blk" THEN blk \cup {p.h} ELSE blk
    /\ headKey' = IF p.kind = "head" THEN p.h ELSE headKey
    /\ roots' = IF p.kind = "root" THEN roots \cup {p.h} ELSE roots

-----------------------------------------------------------------------------
(* The node not yet started, on an empty data directory or on one holding *)
(* the genesis block and its state.                                        *)
Init ==
    /\ LET g == IF FreshDir THEN {} ELSE {0} IN
       num = g /\ hdr = g /\ blk = g /\ roots = g
    /\ headKey = IF FreshDir THEN NoHead ELSE 0
    /\ node = "down"
    /\ writing = <<>>
    /\ crashes = 0

(* Service::start calls BlockChain::load: without a block 0 it runs        *)
(* setup_genesis (allocation committed to the trie, write_block,           *)
(* write_head_hash); otherwise current_block() unwraps head_block(), which *)
(* panics when the head block is missing, and does so on every restart.   *)
Load ==
    /\ node = "down"
    /\ IF ~GetBlockByNumber(0)
       THEN /\ node' = "up"
            /\ writing' = ImportPuts(0)
       ELSE /\ node' = IF HeadBlock = NoHead THEN "failed" ELSE "up"
            /\ UNCHANGED writing
    /\ UNCHANGED <<store, crashes>>

(* The next put of the running write sequence.  The chain's write lock is *)
(* held throughout, so no other import starts in between.                  *)
Put ==
    /\ node = "up"
    /\ writing # <<>>
    /\ ApplyPut(Head(writing))
    /\ writing' = Tail(writing)
    /\ UNCHANGED <<node, crashes>>

(* import_block without the parent_hash = current.hash() test.           *)
ImportNoHeadCheck(h) ==
    /\ node = "up"
    /\ writing = <<>>
    /\ ~ExitsBlock(h)
    /\ CheckPrevious(h)
    /\ ValidateHeader(h)
    /\ ValidateBlock(h)
    /\ StateReadable(h - 1)
    /\ writing' = ImportPuts(h)
    /\ UNCHANGED <<store, node, crashes>>

(* BlockChain::import_block of block h, offered by range sync, gossip, an *)
(* orphan lookup or the node's own proposer: KnownBlock when exits_block,  *)
(* UnknownAncestor when the parent is not stored or not the head, then     *)
(* validate_header and apply_transactions on the head's state root.  Each *)
(* error returns with nothing written.  On success the puts follow.        *)
Import(h) ==
    /\ node = "up"
    /\ writing = <<>>
    /\ ~ExitsBlock(h)
    /\ CheckPrevious(h)
    /\ HeadBlock = h - 1
    /\ ValidateHeader(h)
    /\ ValidateBlock(h)
    /\ StateReadable(h - 1)
    /\ writing' = ImportPuts(h)
    /\ UNCHANGED <<store, node, crashes>>

(* The process dies: a put's expect panicked, or it was killed.  What was *)
(* put stays; the running write sequence is abandoned.                     *)
Crash ==
    /\ node = "up"
    /\ crashes < MaxCrashes
    /\ node' = "down"
    /\ writing' = <<>>
    /\ crashes' = crashes + 1
    /\ UNCHANGED store

Next ==
    \/ Load
    \/ Put
    \/ \E h \in 1..MaxHeight : Import(h)
    \/ Crash

(* The node is restarted after a crash, a running thread finishes its     *)
(* puts, and peers keep offering every block of the chain.  Crashes get   *)
(* no fairness.                                                            *)
Fairness ==
    /\ WF_vars(Load)
    /\ WF_vars(Put)
    /\ \A h \in 1..MaxHeight : WF_vars(Import(h))

Spec == Init /\ [][Next]_vars /\ Fairness

-----------------------------------------------------------------------------
(* Properties.                                                             *)

(* Whatever was persisted when the node stopped, the head pointer names a *)
(* block whose index, header, body and post-state are all stored, and so  *)
(* are those of every block below it: state_at(head.state_root) and the   *)
(* parent checks of the next import never read a missing key.             *)
HeadComplete ==
    headKey # NoHead =>
        \A k \in 0..headKey :
            GetHeaderByNumber(k) /\ GetBlockByNumber(k) /\ StateReadable(k)

(* Across crashes and restarts the head that current_block() returns     *)
(* follows the chain one block at a time and never goes back: import_block *)
(* refuses a block whose parent is not the head, even when a crash left a *)
(* stored block above the head pointer.  Before genesis is set up the     *)
(* head reads as block 0.                                                  *)
Follow == INSTANCE ChainFollow WITH
    Peers <- {0}, ChainHeight <- MaxHeight,
    head <- IF HeadBlock = NoHead THEN 0 ELSE HeadBlock,
    tips <- [p \in {0} |-> MaxHeight]

HeadFollows == Follow!Spec

(* Spec 4.7: blocks are persisted on successful import and the head is    *)
(* strictly extended, so a node that is restarted after every crash and   *)
(* is offered every block reaches the chain's tip.                         *)
ChainProgress == <>(HeadBlock = MaxHeight)
=============================================================================
