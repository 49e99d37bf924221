------------------------------ MODULE SlotClock ------------------------------
(***************************************************************************)
(* The proposer task of generator/src/epoch.rs: the SlotTick stream, which *)
(* make_proposal drives with for_each, and on_slot, which asks EpochPoS    *)
(* (generator/src/apos.rs) whether the node's key claims the slot, builds  *)
(* a block on the head and inserts it under the chain's write lock.        *)
(* Blocks of other validators reach the chain through the gossip import of *)
(* the network thread.                                                     *)
(*                                                                         *)
(* Time is whole seconds after GENESIS_TIME; the monotonic Instant of the  *)
(* tokio Delay and the SystemTime the slot is computed from advance        *)
(* together.  The runtime has one core thread, and on_slot runs inside the *)
(* stream's for_each and blocks on the chain lock, so time passes between  *)
(* any two steps of the task.  A block is [slot, time, own].               *)
(***************************************************************************)
EXTENDS Integers, Sequences, SequencesExt

CONSTANTS
    SLOT_DURATION,  \* seconds per slot, shrunk
    StartTimes,     \* times the node may start at (negative: before genesis)
    Validators,     \* validator_set() of the genesis state, in list order
    MyKey,          \* the public key of the node's --key
    DevMode,        \* the --dev flag (NodeConfig::dev_mode)
    EPOCH_LENGTH,   \* slots per epoch (64)
    VrfBelow,       \* slots whose VRF output of MyKey is below the threshold
    MaxTime,        \* bound: the clock
    MaxPeerBlocks   \* bound: blocks of other validators imported

ASSUME SLOT_DURATION \in Nat \ {0} /\ StartTimes \subseteq Int
ASSUME MaxTime \in Nat /\ MaxPeerBlocks \in Nat

Idle == [slot |-> -1, parent |-> 0, time |-> 0]   \* no on_slot running

VARIABLES
    now,       \* seconds since genesis
    deadline,  \* the deadline of SlotTick's Delay
    building,  \* the block on_slot has produced and not yet inserted, or Idle
    chain,     \* the local chain, genesis first
    peerBlocks \* blocks of other validators imported so far

vars == <<now, deadline, building, chain, peerBlocks>>

-----------------------------------------------------------------------------
(* SlotTick::poll: the slot of the current time, (now - genesis) divided   *)
(* by the slot duration.                                                   *)
SlotOf(t) == t \div SLOT_DURATION

(* EpochPoS::genesis_epoch: the committee is the validator_set() of the  *)
(* head state (the genesis set: nothing changes staking after genesis);   *)
(* in dev mode only its first validator, if there is one.                 *)
GenesisEpoch ==
    IF DevMode THEN SubSeq(Validators, 1, IF Len(Validators) > 0 THEN 1 ELSE 0)
    ELSE Validators

(* EpochPoS::get_epoch_info: epoch_infos is never filled, so every epoch  *)
(* gets the genesis committee; only its rng_seed differs after epoch 0.    *)
GetEpochInfo(eid) == GenesisEpoch

(* EpochPoS::make_slot_proposer: None unless the node's key is in the     *)
(* epoch's committee; then the VRF of the key over the epoch seed and sid, *)
(* compared with the threshold.  compute_epoch_seed reads block 0 for      *)
(* every epoch, so the VRF outcome is a fixed function of sid: VrfBelow.   *)
MakeSlotProposer(sid) ==
    /\ MyKey \in ToSet(GetEpochInfo(sid \div EPOCH_LENGTH))
    /\ sid \in VrfBelow

(* Builder::produce_block on the head: parent, slot and the current time.  *)
ProduceBlock(sid) == [slot |-> sid, parent |-> Len(chain), time |-> now]

(* BlockChain::import_block of block b with parent height p: exits_block   *)
(* (a block at its height), the parent must be the head, and              *)
(* validate_header wants a time past the parent's.                         *)
ImportOk(p, t) ==
    /\ p = Len(chain)
    /\ t > chain[Len(chain)].time

-----------------------------------------------------------------------------
(* The node starts at some time; SlotTick::new sets the first deadline to  *)
(* genesis when that is still to come, else to the start.  The chain holds *)
(* genesis, whose header time is GENESIS_TIME.                             *)
Init ==
    /\ now \in StartTimes
    /\ deadline = IF now < 0 THEN 0 ELSE now
    /\ building = Idle
    /\ chain = << [slot |-> 0, time |-> 0, own |-> FALSE] >>
    /\ peerBlocks = 0

(* A second passes, whatever the task is doing.                            *)
Advance ==
    /\ now < MaxTime
    /\ now' = now + 1
    /\ UNCHANGED <<deadline, building, chain, peerBlocks>>

(* on_slot(sid) up to the insert: when the node's key claims the slot, it  *)
(* reads the head and produce_block builds on it; otherwise it returns.    *)
OnSlot(sid) ==
    building' = IF MakeSlotProposer(sid) THEN ProduceBlock(sid) ELSE Idle

(* SlotTick::poll, once on_slot has returned and the Delay has fired: the  *)
(* next deadline is the old one plus a slot, and the slot passed on is     *)
(* computed from the current time.                                         *)
Tick ==
    /\ building = Idle
    /\ now >= deadline
    /\ deadline' = deadline + SLOT_DURATION
    /\ OnSlot(SlotOf(now))
    /\ UNCHANGED <<now, chain, peerBlocks>>

(* The rest of on_slot: chain.insert_block under the write lock; an error  *)
(* is logged and on_slot returns; on success reset_pool and publish_block. *)
InsertBlock ==
    /\ building # Idle
    /\ chain' = IF ImportOk(building.parent, building.time)
                THEN Append(chain, [slot |-> building.slot, time |-> building.time,
                                    own |-> TRUE])
                ELSE chain
    /\ building' = Idle
    /\ UNCHANGED <<now, deadline, peerBlocks>>

(* on_block_gossip imports the next block of another validator, proposed *)
(* in the current slot.                                                    *)
PeerImport ==
    /\ peerBlocks < MaxPeerBlocks
    /\ ImportOk(Len(chain), now)
    /\ chain' = Append(chain, [slot |-> SlotOf(now), time |-> now, own |-> FALSE])
    /\ peerBlocks' = peerBlocks + 1
    /\ UNCHANGED <<now, deadline, building>>

Next ==
    \/ Advance
    \/ Tick
    \/ InsertBlock
    \/ PeerImport

Spec == Init /\ [][Next]_vars

-----------------------------------------------------------------------------
(* Properties.                                                             *)

(* Spec 4.8: the slot clock wakes once per slot boundary, and a slot is a  *)
(* window in which at most one block is proposed: no two blocks the node  *)
(* proposed and inserted carry the same slot.                              *)
OwnBlockPerSlot ==
    \A i, j \in 1..Len(chain) :
        i < j /\ chain[i].own /\ chain[j].own => chain[i].slot # chain[j].slot
=============================================================================
