------------------------------- MODULE Ledger -------------------------------
(***************************************************************************)
(* The account ledger of one node: the head state of the accounts, the     *)
(* transaction pool, the executor that applies a block, the proposer's     *)
(* slot handler and the import of blocks made by other validators.         *)
(*                                                                         *)
(*  pool/src/tx_pool.rs          add_tx, validate_tx, get_pending,         *)
(*                               reset_pool, get_nonce                     *)
(*  executor/src/lib.rs          exc_txs_in_block, exc_transfer_tx         *)
(*  core/src/balance.rs          transfer, add/sub_balance, inc_nonce      *)
(*  core/src/transaction.rs      hash (without the sender), verify_sign    *)
(*  chain/src/blockchain.rs      import_block, apply_transactions          *)
(*  generator/src/epoch.rs       on_slot, produce_block, apply_block       *)
(*  rpc/src/api/account.rs       send_transaction                          *)
(*  network/src/handler_processor.rs  on_transaction_gossip, import_block  *)
(*                                                                         *)
(* A transaction is a record: the sender field, the account whose key      *)
(* signed it, the nonce, the receiver and the value of its MsgTransfer.    *)
(* gas_price, gas and call are the constants send_transaction puts in.     *)
(* Amounts are small integers; FEE stands for transfer_fee.                *)
(***************************************************************************)
EXTENDS Integers, Sequences, FiniteSets, SequencesExt, Functions

CONSTANTS
    Accounts,       \* addresses of users
    Zero,           \* Address::default(), the address fees are credited to
    Local,          \* accounts whose private key the RPC server holds
    Values,         \* values a transfer may carry
    FEE,            \* transfer_fee
    InitBalance,    \* genesis balance of each address
    MaxNonce,       \* largest nonce a gossiped transaction carries
    MaxTxs,         \* bound: transactions published on the network
    MaxHeight,      \* bound: blocks on top of genesis
    ForgedSigs,     \* TRUE: a gossiped transaction may be signed by a key
                    \* other than its sender's
    PeerBlocks,     \* TRUE: other validators' blocks are imported
    ByzantineBlocks \* TRUE: a peer's block may hold any published txs

ASSUME /\ Local \subseteq Accounts /\ Zero \notin Accounts
       /\ FEE \in Nat \ {0} /\ MaxTxs \in Nat /\ MaxHeight \in Nat

Addr == Accounts \cup {Zero}

VARIABLES
    acct,     \* account {balance, nonce} of every address at the head state
    blocks,   \* the transactions of every block on top of genesis
    pending,  \* TxPoolManager.pending, a map keyed by tx.hash()
    sent,     \* transactions published on the gossip network
    built,    \* {} or {b}: the block on_slot has produced, not yet inserted
    crashed   \* "proposer": the slot task panicked; "chain": the chain's
              \* write lock is poisoned by a panic in import_block

vars == <<acct, blocks, pending, sent, built, crashed>>

-----------------------------------------------------------------------------
(* Transactions.                                                           *)

Tx == [sender: Accounts, signer: Accounts, nonce: 1..MaxNonce,
       to: Accounts, value: Values]

(* TxHashType: chain id, nonce, gas_price, gas, call and data, where data  *)
(* is the MsgTransfer {receiver, value}.  The sender and the signature are *)
(* not part of it.                                                          *)
TxHash(tx) == <<tx.nonce, tx.to, tx.value>>

(* verify_sign checks the signature against the public key carried in the *)
(* transaction itself, over a hash that leaves out the sender: every      *)
(* signed transaction passes, whichever account signed it.                *)
VerifySign(tx) == TRUE

(* The pending map after pending.insert(tx.hash(), tx).                    *)
PendingInsert(p, tx) == {t \in p : TxHash(t) # TxHash(tx)} \cup {tx}

-----------------------------------------------------------------------------
(* Balance (core/src/balance.rs) over a state s : [Addr -> account].  The  *)
(* state is StateDB's view: its local_changes over the trie of the root.  *)

(* load_account: the account stored under address_key(addr), or          *)
(* Account::default() when there is none.  Genesis stores every user      *)
(* address; the state holds the default for an address never written.     *)
LoadAccount(s, a) == s[a]

(* get_account and balance: load_account and the whole account, or its  *)
(* balance.                                                               *)
GetAccount(s, a) == LoadAccount(s, a)

BalanceOf(s, a) == LoadAccount(s, a).balance

(* set_account: set_storage of the encoded account, into local_changes.   *)
SetAccount(s, a, acc) == [s EXCEPT ![a] = acc]

(* Each operation loads the account, changes one field and stores it.     *)
AddBalance(s, a, v) ==
    SetAccount(s, a, [LoadAccount(s, a) EXCEPT !.balance = @ + v])

SubBalance(s, a, v) ==
    SetAccount(s, a, [LoadAccount(s, a) EXCEPT !.balance = @ - v])

IncNonce(s, a) ==
    SetAccount(s, a, [LoadAccount(s, a) EXCEPT !.nonce = @ + 1])

(* transfer with a strict comparison.                                      *)
TransferStrict(s, from, to, v) ==
    IF BalanceOf(s, from) > v THEN AddBalance(SubBalance(s, from, v), to, v)
    ELSE s

(* transfer is a no-op when the sender cannot pay.                        *)
Transfer(s, from, to, v) ==
    IF BalanceOf(s, from) >= v THEN AddBalance(SubBalance(s, from, v), to, v)
    ELSE s

-----------------------------------------------------------------------------
(* Executor (executor/src/lib.rs).  A result is [ok, st].                  *)

(* Variants of exc_transfer_tx, each without one of its checks or steps. *)
ExcTransferTxNoBalanceCheck(s, tx) ==
    LET a == GetAccount(s, tx.sender) IN
    IF tx.nonce # a.nonce + 1 THEN [ok |-> FALSE, st |-> s]
    ELSE [ok |-> TRUE,
          st |-> Transfer(IncNonce(SubBalance(s, tx.sender, FEE), tx.sender),
                          tx.sender, tx.to, tx.value)]

ExcTransferTxNoNonceCheck(s, tx) ==
    LET a == GetAccount(s, tx.sender) IN
    IF tx.value + FEE > a.balance THEN [ok |-> FALSE, st |-> s]
    ELSE [ok |-> TRUE,
          st |-> Transfer(IncNonce(SubBalance(s, tx.sender, FEE), tx.sender),
                          tx.sender, tx.to, tx.value)]

ExcTransferTxNoFeeDebit(s, tx) ==
    LET a == GetAccount(s, tx.sender) IN
    IF tx.nonce # a.nonce + 1 \/ tx.value + FEE > a.balance
    THEN [ok |-> FALSE, st |-> s]
    ELSE [ok |-> TRUE,
          st |-> Transfer(IncNonce(s, tx.sender), tx.sender, tx.to, tx.value)]

ExcTransferTx(s, tx) ==
    LET a == GetAccount(s, tx.sender) IN
    IF ~VerifySign(tx) \/ tx.nonce # a.nonce + 1 \/ tx.value + FEE > a.balance
    THEN [ok |-> FALSE, st |-> s]
    ELSE [ok |-> TRUE,
          st |-> Transfer(IncNonce(SubBalance(s, tx.sender, FEE), tx.sender),
                          tx.sender, tx.to, tx.value)]

(* The loop of exc_txs_in_block: stop at the first error (the ? ), credit  *)
(* the fee to the miner address after every transaction.                   *)
RECURSIVE ExcTxsInBlock(_, _)
ExcTxsInBlock(s, txs) ==
    IF txs = <<>> THEN [ok |-> TRUE, st |-> s]
    ELSE LET r == ExcTransferTx(s, Head(txs)) IN
         IF ~r.ok THEN r
         ELSE ExcTxsInBlock(AddBalance(r.st, Zero, FEE), Tail(txs))

-----------------------------------------------------------------------------
(* Tx pool (pool/src/tx_pool.rs), reading the head state.                  *)

ValidateTx(tx) ==
    /\ GetAccount(acct, tx.sender).balance >= tx.value
    /\ GetAccount(acct, tx.sender).nonce + 1 = tx.nonce

AddTx(tx) == IF ValidateTx(tx) THEN PendingInsert(pending, tx) ELSE pending

(* reset_pool keeps the transactions whose nonce is past the sender's     *)
(* nonce in the state of block b.                                          *)
ResetPool(p, post) == {tx \in p : tx.nonce > GetAccount(post, tx.sender).nonce}

GetNonce(a) == GetAccount(acct, a).nonce

-----------------------------------------------------------------------------
(* Initial state: genesis (setup_genesis writes the genesis accounts).     *)

Init ==
    /\ acct = [a \in Addr |-> [balance |-> InitBalance[a], nonce |-> 0]]
    /\ blocks = <<>>
    /\ pending = {}
    /\ sent = {}
    /\ built = {}
    /\ crashed = {}

(* A thread that takes the chain lock after it is poisoned panics too:    *)
(* nothing of the node runs any more.                                      *)
Alive == "chain" \notin crashed

(* send_transaction over RPC: the nonce is the head state's nonce + 1, the *)
(* server signs with the sender's key, add_tx, publish when accepted.      *)
SendTransaction(from, to, v) ==
    LET tx == [sender |-> from, signer |-> from, nonce |-> GetNonce(from) + 1,
               to |-> to, value |-> v]
    IN /\ Alive
       /\ tx.nonce <= MaxNonce
       /\ tx \in sent \/ Cardinality(sent) < MaxTxs
       /\ pending' = AddTx(tx)
       /\ sent' = IF ValidateTx(tx) THEN sent \cup {tx} ELSE sent
       /\ UNCHANGED <<acct, blocks, built, crashed>>

(* A transaction another node published arrives by gossip:               *)
(* on_transaction_gossip calls add_tx.  It may arrive more than once.     *)
TransactionGossip(tx) ==
    /\ Alive
    /\ ForgedSigs \/ tx.signer = tx.sender
    /\ tx \in sent \/ Cardinality(sent) < MaxTxs
    /\ pending' = AddTx(tx)
    /\ sent' = sent \cup {tx}
    /\ UNCHANGED <<acct, blocks, built, crashed>>

(* on_slot, up to produce_block: read the head, take every pending tx in  *)
(* the HashMap's order, apply_block; its unwrap panics on an executor      *)
(* error, which ends the slot task.                                        *)
ProduceBlock ==
    /\ Alive /\ "proposer" \notin crashed
    /\ built = {}
    /\ Len(blocks) < MaxHeight
    /\ \E order \in SetToSeqs(pending) :
         LET r == ExcTxsInBlock(acct, order) IN
         IF r.ok
         THEN /\ built' = {[parent |-> Len(blocks), txs |-> order, post |-> r.st]}
              /\ UNCHANGED crashed
         ELSE /\ crashed' = crashed \cup {"proposer"}
              /\ UNCHANGED built
    /\ UNCHANGED <<acct, blocks, pending, sent>>

(* on_slot, from insert_block: import_block fails when the head moved     *)
(* since the head was read, and on_slot returns without resetting the     *)
(* pool; otherwise the block becomes the head, then reset_pool(&b).       *)
InsertBlock ==
    /\ Alive
    /\ \E b \in built :
         IF b.parent = Len(blocks)
         THEN /\ blocks' = Append(blocks, b.txs)
              /\ acct' = b.post
              /\ pending' = ResetPool(pending, b.post)
         ELSE UNCHANGED <<acct, blocks, pending>>
    /\ built' = {}
    /\ UNCHANGED <<sent, crashed>>

(* A block of another validator on top of the head, imported by gossip or *)
(* range sync through import_block: apply_transactions unwraps the        *)
(* executor's result under the write lock.  The pool is not reset.        *)
ImportBlock(txs) ==
    /\ Alive
    /\ Len(blocks) < MaxHeight
    /\ LET r == ExcTxsInBlock(acct, txs) IN
       IF r.ok
       THEN /\ blocks' = Append(blocks, txs)
            /\ acct' = r.st
            /\ UNCHANGED crashed
       ELSE /\ crashed' = crashed \cup {"chain"}
            /\ UNCHANGED <<acct, blocks>>
    /\ UNCHANGED <<pending, sent, built>>

(* Blocks other validators make: their own proposer would have panicked on *)
(* an invalid one, unless the validator is byzantine.                     *)
PeerBlock ==
    /\ PeerBlocks
    /\ \E S \in SUBSET sent : \E txs \in SetToSeqs(S) :
         /\ ByzantineBlocks \/ ExcTxsInBlock(acct, txs).ok
         /\ ImportBlock(txs)

Next ==
    \/ \E from \in Local, to \in Accounts, v \in Values :
         SendTransaction(from, to, v)
    \/ \E tx \in Tx : TransactionGossip(tx)
    \/ ProduceBlock
    \/ InsertBlock
    \/ PeerBlock

Spec == Init /\ [][Next]_vars

-----------------------------------------------------------------------------
(* Properties.                                                             *)

Account == [balance: Nat, nonce: Nat]

(* Every address holds a u128 balance (a negative one would be a wrapped  *)
(* subtraction) and the pool, chain and proposer hold transactions.       *)
TypeOK ==
    /\ acct \in [Addr -> Account]
    /\ blocks \in Seq(Seq(Tx))
    /\ pending \subseteq Tx /\ sent \subseteq Tx
    /\ \A b \in built : b.parent \in Nat /\ b.post \in [Addr -> Account]
    /\ crashed \subseteq {"proposer", "chain"}

(* The transactions of the chain, in the order they were executed.        *)
ChainTxs == FlattenSeq(blocks)

(* Supply: exc_transfer_tx debits the fee that exc_txs_in_block credits to *)
(* the miner address, and transfer moves value only when it is covered,   *)
(* so the sum of all balances at the head is the genesis sum, whichever   *)
(* blocks, from this node or from peers, were executed in whichever order. *)
SupplyConserved ==
    SumFunction([a \in Addr |-> acct[a].balance]) = SumFunction(InitBalance)

(* Nonces: the head state's nonce of every account is the number of its   *)
(* transactions on the chain, and those carry the nonces 1, 2, ... in     *)
(* chain order: no transaction is executed twice and none is skipped,     *)
(* although the pool admits several with one nonce and peers' blocks race *)
(* the proposer's.                                                         *)
NoncesFollowHistory ==
    \A a \in Accounts :
        LET mine == SelectSeq(ChainTxs, LAMBDA t : t.sender = a) IN
        [i \in 1..Len(mine) |-> mine[i].nonce] = [i \in 1..acct[a].nonce |-> i]

(* Reference: the effect spec 4.6 gives a transfer on the chain: the      *)
(* sender pays value and fee and counts one more nonce, the receiver gets  *)
(* the value, the miner address the fee.                                   *)
MoveTx(s, tx) ==
    [a \in Addr |->
        [balance |-> s[a].balance
                     - (IF a = tx.sender THEN tx.value + FEE ELSE 0)
                     + (IF a = tx.to THEN tx.value ELSE 0)
                     + (IF a = Zero THEN FEE ELSE 0),
         nonce |-> s[a].nonce + (IF a = tx.sender THEN 1 ELSE 0)]]

GenesisState == [a \in Addr |-> [balance |-> InitBalance[a], nonce |-> 0]]

(* The head state is the genesis state with the chain's transfers applied *)
(* in chain order, each in full: what a node that syncs the chain and     *)
(* re-executes it in apply_transactions computes, so its state root       *)
(* matches.  The executor's checks, the fee steps and Balance::transfer's *)
(* own balance test must agree for no accepted transfer to be applied in  *)
(* part, whichever node made the block.                                    *)
StateIsReplay == acct = FoldLeft(MoveTx, GenesisState, ChainTxs)

(* The proposer never panics: spec 6 says the proposer skips transactions *)
(* of the pool that fail; apply_block unwraps the executor's result.      *)
NoProposerPanic == "proposer" \notin crashed
=============================================================================
