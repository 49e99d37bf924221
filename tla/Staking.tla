------------------------------ MODULE Staking ------------------------------
(***************************************************************************)
(* The validator registry of core/src/staking.rs over the state trie.     *)
(*                                                                         *)
(* Validators form a doubly linked list stored in the trie: the entry of   *)
(* an address is ListEntry {pre, next, payload} under map_key(address), a  *)
(* head key holds the map_key of the first entry.  map_key is a hash of    *)
(* the address, so an entry is keyed by its address here.                  *)
(*                                                                         *)
(* The operations are Staking's public ones: validate, deposit,           *)
(* activate_deposit, exit and delete, with insert and set_item as they    *)
(* call them and lock_balance of core/src/balance.rs, called directly as  *)
(* the crate's tests do, and Interpreter::call of core/src/runtime.rs, the *)
(* dispatcher meant to reach them from a transaction's call selector.     *)
(* insert is otherwise called only by genesis::setup_allocation, for      *)
(* distinct addresses.                                                     *)
(* u128 arithmetic is kept modulo 2^Width: release builds wrap.            *)
(***************************************************************************)
EXTENDS Integers, Sequences, SequencesExt

CONSTANTS
    Addrs,             \* validator and account addresses
    Nil,               \* None: no entry, no neighbour
    Amounts,           \* amounts validate and deposit are called with
    Width,             \* bits of u128, shrunk
    InitBalance,       \* genesis balance of every address
    GenesisValidators, \* VALIDATORS of genesis.rs, in their order
    MaxCalls           \* bound: calls to the staking API

ASSUME Nil \notin Addrs /\ Width \in Nat \ {0} /\ MaxCalls \in Nat

U128 == 2^Width

VARIABLES
    db,      \* the trie's ListEntry of every address, or Nil
    head,    \* the value under validators.head_key, or Nil
    acct,    \* {balance, locked} of every address (Account of balance.rs)
    halted,  \* "no"; "loop": a call never returns; "panic": an unwrap failed
    calls    \* API calls made so far

vars == <<db, head, acct, halted, calls>>

-----------------------------------------------------------------------------
(* Validator payload: balance, effective_balance and the amounts of its   *)
(* deposit_queue (every LockingBalance is pushed with height 0).  pubkey, *)
(* activate_height, exit_height and unlocked_queue are never read.        *)
Payload(b, e, q) == [balance |-> b, effective |-> e, deposits |-> q]

NewEntry(pre, next, p) == [pre |-> pre, next |-> next, payload |-> p]

(* Balance::lock_balance: balance -= value, locked_balance += value.       *)
LockBalance(s, a, v) ==
    [s EXCEPT ![a] = [balance |-> (@.balance - v) % U128,
                      locked |-> (@.locked + v) % U128]]

(* Staking::insert, as a result [db, head, panic].  The new entry is      *)
(* written first; then the entry under the old head reference is read     *)
(* back (unwrap) and its pre set to the new key; then the head key.       *)
InsertDb(d, h, a, p) ==
    IF h = Nil
    THEN [db |-> [d EXCEPT ![a] = NewEntry(Nil, Nil, p)], head |-> a,
          panic |-> FALSE]
    ELSE LET d1 == [d EXCEPT ![a] = NewEntry(Nil, h, p)] IN
         IF d1[h] = Nil
         THEN [db |-> d1, head |-> h, panic |-> TRUE]
         ELSE [db |-> [d1 EXCEPT ![h].pre = a], head |-> a, panic |-> FALSE]

(* Staking::set_item: insert when the key holds nothing, else rewrite the *)
(* payload in place.                                                       *)
SetItemDb(d, h, a, p) ==
    IF d[a] = Nil THEN InsertDb(d, h, a, p)
    ELSE [db |-> [d EXCEPT ![a].payload = p], head |-> h, panic |-> FALSE]

(* delete that leaves the successor's pre pointing at the removed entry. *)
DeleteDbNoNextRelink(d, h, a) ==
    LET item == d[a]
        s1 == IF item.pre # Nil
              THEN IF d[item.pre] = Nil THEN [db |-> d, head |-> h, panic |-> TRUE]
                   ELSE [db |-> [d EXCEPT ![item.pre].next = item.next],
                         head |-> h, panic |-> FALSE]
              ELSE [db |-> d, head |-> item.next, panic |-> FALSE]
    IN [s1 EXCEPT !.db = [@ EXCEPT ![a] = Nil]]

(* Staking::delete: relink the predecessor (or move the head key, or      *)
(* remove it), then relink the successor, then remove the entry.  Each    *)
(* neighbour is read back with unwrap.                                     *)
DeleteDb(d, h, a) ==
    LET item == d[a]
        s1 == IF item.pre # Nil
              THEN IF d[item.pre] = Nil THEN [db |-> d, head |-> h, panic |-> TRUE]
                   ELSE [db |-> [d EXCEPT ![item.pre].next = item.next],
                         head |-> h, panic |-> FALSE]
              ELSE [db |-> d, head |-> item.next, panic |-> FALSE]
        s2 == IF item.next # Nil /\ ~s1.panic
              THEN IF s1.db[item.next] = Nil THEN [s1 EXCEPT !.panic = TRUE]
                   ELSE [s1 EXCEPT !.db = [@ EXCEPT ![item.next].pre = item.pre]]
              ELSE s1
    IN [s2 EXCEPT !.db = [@ EXCEPT ![a] = Nil]]

(* setup_allocation inserts VALIDATORS in reverse order: balance 0, the   *)
(* listed stake as effective_balance (here 1).                             *)
GenesisList ==
    FoldLeft(LAMBDA st, a : InsertDb(st.db, st.head, a, Payload(0, 1, <<>>)),
             [db |-> [a \in Addrs |-> Nil], head |-> Nil, panic |-> FALSE],
             Reverse(GenesisValidators))

-----------------------------------------------------------------------------
Init ==
    /\ db = GenesisList.db
    /\ head = GenesisList.head
    /\ acct = [a \in Addrs |-> [balance |-> InitBalance[a], locked |-> 0]]
    /\ halted = "no"
    /\ calls = 0

(* One call of the API, on a node whose calls all return.                 *)
Call == halted = "no" /\ calls < MaxCalls /\ calls' = calls + 1

(* Store the result of a list operation; a failed unwrap panics.          *)
Apply(r) ==
    /\ db' = r.db
    /\ head' = r.head
    /\ halted' = IF r.panic THEN "panic" ELSE "no"

(* Staking::validate: return when the address is a validator; insert a    *)
(* validator with balance and effective_balance amount; lock_balance.     *)
Validate(a, amount) ==
    /\ Call
    /\ db[a] = Nil
    /\ Apply(InsertDb(db, head, a, Payload(amount, amount, <<>>)))
    /\ acct' = LockBalance(acct, a, amount)

(* deposit that queues the deposit without adding it to balance.         *)
DepositNoBalance(a, amount) ==
    /\ Call
    /\ db[a] # Nil
    /\ LET p == db[a].payload IN
       Apply(SetItemDb(db, head, a,
                       Payload(p.balance, p.effective, Append(p.deposits, amount))))
    /\ acct' = LockBalance(acct, a, amount)

(* Staking::deposit: return unless a validator; queue the deposit, add it *)
(* to balance, set_item; lock_balance.                                     *)
Deposit(a, amount) ==
    /\ Call
    /\ db[a] # Nil
    /\ LET p == db[a].payload IN
       Apply(SetItemDb(db, head, a,
                       Payload((p.balance + amount) % U128, p.effective,
                               Append(p.deposits, amount))))
    /\ acct' = LockBalance(acct, a, amount)

(* Staking::activate_deposit: the loop reads deposit_queue[offset] with    *)
(* offset 0 and never advances it; every deposit has height 0 <= epoch 0, *)
(* so a non-empty queue loops for ever.  An empty one is written back     *)
(* unchanged by set_item.                                                  *)
ActivateDeposit(a) ==
    /\ Call
    /\ db[a] # Nil
    /\ db[a].payload.deposits # <<>>
    /\ halted' = "loop"
    /\ UNCHANGED <<db, head, acct>>

(* Staking::delete of a validator (an absent one returns at once).        *)
Delete(a) ==
    /\ Call
    /\ db[a] # Nil
    /\ Apply(DeleteDb(db, head, a))
    /\ UNCHANGED acct

(* Staking::exit: return unless a validator; set exit_height (never read) *)
(* and write the validator back with set_item.                             *)
Exit(a) ==
    /\ Call
    /\ db[a] # Nil
    /\ Apply(SetItemDb(db, head, a, db[a].payload))
    /\ UNCHANGED acct

(* Balance::transfer on the account records: a no-op when not covered.    *)
TransferAcct(s, from, to, v) ==
    IF s[from].balance >= v
    THEN [[s EXCEPT ![from].balance = (@ - v) % U128]
             EXCEPT ![to].balance = (@ + v) % U128]
    ELSE s

(* Call selectors as they reach Interpreter::call: the bytes of           *)
(* "module.function" in runs, the dot a run of its own.  A selector        *)
(* without a dot is the last one.                                          *)
CallMsgs == { <<"balance", ".", "transfer">>, <<"staking", ".", "validate">>,
              <<"staking", ".", "deposit">>, <<"staking", ".", "exit">>,
              <<"transfer">> }

(* Interpreter::call's parse: position of the first '.', then             *)
(* msg.split_at(sep), whose second half starts with the dot itself.        *)
SplitCall(msg) ==
    LET sep == SelectInSeq(msg, LAMBDA t : t = ".") IN
    IF sep = 0 THEN [sep |-> 0, module |-> msg, func |-> <<>>]
    ELSE [sep |-> sep, module |-> SubSeq(msg, 1, sep - 1),
          func |-> SubSeq(msg, sep, Len(msg))]

(* Interpreter::call(caller, msg, input): no dot is a warning; the module *)
(* "balance" dispatches "transfer" to exec_transfer, the module "staking" *)
(* "validate" and "deposit" to exec_validate and exec_deposit; any other  *)
(* function is a warning.  The input decodes to a receiver and an amount. *)
InterpreterCall(a, msg, r, v) ==
    LET c == SplitCall(msg) IN
    CASE c.sep # 0 /\ c.module = <<"balance">> /\ c.func = <<"transfer">> ->
              /\ Call
              /\ acct' = TransferAcct(acct, a, r, v)
              /\ UNCHANGED <<db, head, halted>>
      [] c.sep # 0 /\ c.module = <<"staking">> /\ c.func = <<"validate">> ->
              IF db[a] = Nil THEN Validate(a, v)
              ELSE Call /\ UNCHANGED <<db, head, acct, halted>>
      [] c.sep # 0 /\ c.module = <<"staking">> /\ c.func = <<"deposit">> ->
              IF db[a] # Nil THEN Deposit(a, v)
              ELSE Call /\ UNCHANGED <<db, head, acct, halted>>
      [] OTHER -> Call /\ UNCHANGED <<db, head, acct, halted>>

Next ==
    \/ \E a \in Addrs, v \in Amounts : Validate(a, v)
    \/ \E a \in Addrs, v \in Amounts : Deposit(a, v)
    \/ \E a \in Addrs : ActivateDeposit(a)
    \/ \E a \in Addrs : Delete(a)
    \/ \E a \in Addrs : Exit(a)
    \/ \E a, r \in Addrs, m \in CallMsgs, v \in Amounts : InterpreterCall(a, m, r, v)

Spec == Init /\ [][Next]_vars

-----------------------------------------------------------------------------
(* Properties.                                                             *)

Present == {a \in Addrs : db[a] # Nil}

(* The keys validator_set visits from the head key, following next, until *)
(* None, a key without an entry (its unwrap panics) or a key seen before  *)
(* (it loops for ever).                                                    *)
RECURSIVE Walk(_, _)
Walk(k, seen) ==
    IF k = Nil THEN [keys |-> seen, end |-> "none"]
    ELSE IF db[k] = Nil THEN [keys |-> seen, end |-> "missing"]
    ELSE IF k \in ToSet(seen) THEN [keys |-> seen, end |-> "cycle"]
    ELSE Walk(db[k].next, Append(seen, k))

(* Spec 4.5: the list is acyclic and every entry is reachable from the    *)
(* head, so validator_set returns every validator once and terminates;   *)
(* and the pre links mirror the next links, which delete relies on.       *)
ListWellFormed ==
    LET w == Walk(head, <<>>) IN
    /\ w.end = "none"
    /\ ToSet(w.keys) = Present
    /\ \A i \in 1..Len(w.keys) :
          db[w.keys[i]].pre = IF i = 1 THEN Nil ELSE w.keys[i - 1]

(* The linked list implements the registry of spec 4.5: read through     *)
(* validator_set, genesis lists the genesis validators in their order,    *)
(* validate prepends the new validator (insert moves the head key to it), *)
(* delete unlinks exactly the deleted one, and deposit, exit and          *)
(* activate_deposit, which rewrite an entry in place with set_item, leave *)
(* the order alone; the stake read back is what validate and deposit put *)
(* in, and what they put in is what lock_balance locks.                    *)
Registry == INSTANCE ValidatorRegistry WITH
    Genesis <- GenesisValidators, Modulus <- U128,
    order <- Walk(head, <<>>).keys,
    stake <- [a \in Addrs |-> IF db[a] = Nil THEN 0 ELSE db[a].payload.balance],
    funds <- acct

RegistryRefined == Registry!Spec
=============================================================================
