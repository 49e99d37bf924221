-------------------------- MODULE ValidatorRegistry --------------------------
(***************************************************************************)
(* What the validator registry of core/src/staking.rs promises its         *)
(* callers (spec 4.5), without the linked list that implements it: the     *)
(* validators in the order validator_set() returns them, the stake each    *)
(* holds, and the accounts whose funds back it.  insert is a head-prepend, *)
(* delete an unlink that keeps the order of the rest; joining and          *)
(* depositing lock the amount in the account as they add it to the stake.  *)
(* Amounts are u128, which wraps.                                          *)
(***************************************************************************)
EXTENDS Integers, Sequences, SequencesExt

CONSTANTS
    Addrs,    \* addresses that may become validators
    Genesis,  \* the genesis validators, first one first
    Amounts,  \* amounts a validator joins or deposits with
    Modulus   \* 2^128, shrunk

VARIABLES
    order,    \* validator_set(), as addresses
    stake,    \* the stake of each validator, 0 for other addresses
    funds     \* [balance, locked] of each account

regVars == <<order, stake, funds>>

(* Balance::lock_balance moves v from the free to the locked balance.      *)
Lock(f, a, v) ==
    [f EXCEPT ![a] = [balance |-> (@.balance - v) % Modulus,
                      locked |-> (@.locked + v) % Modulus]]

(* The genesis registry lists the genesis validators in their order, with *)
(* no stake of their own.  Accounts are left as they are.                  *)
Init ==
    /\ order = Genesis
    /\ stake = [a \in Addrs |-> 0]

(* A new validator is prepended with the amount it joins with, which is   *)
(* locked in its account.                                                  *)
Register(a, v) ==
    /\ a \notin ToSet(order)
    /\ order' = <<a>> \o order
    /\ stake' = [stake EXCEPT ![a] = v]
    /\ funds' = Lock(funds, a, v)

(* A validator adds to its stake what it locks; the order stays.           *)
AddStake(a, v) ==
    /\ a \in ToSet(order)
    /\ stake' = [stake EXCEPT ![a] = (@ + v) % Modulus]
    /\ funds' = Lock(funds, a, v)
    /\ UNCHANGED order

(* A validator leaves; the others keep their relative order.  Its locked  *)
(* funds stay locked.                                                       *)
Unregister(a) ==
    /\ a \in ToSet(order)
    /\ order' = Remove(order, a)
    /\ stake' = [stake EXCEPT ![a] = 0]
    /\ UNCHANGED funds

(* Free balance moves between accounts, leaving the registry alone.       *)
MoveFunds(from, to, v) ==
    /\ funds[from].balance >= v
    /\ funds' = [[funds EXCEPT ![from].balance = (@ - v) % Modulus]
                     EXCEPT ![to].balance = (@ + v) % Modulus]
    /\ UNCHANGED <<order, stake>>

Next ==
    \E a \in Addrs :
        \/ \E v \in Amounts : Register(a, v) \/ AddStake(a, v)
        \/ Unregister(a)
        \/ \E b \in Addrs, v \in Amounts : MoveFunds(a, b, v)

Spec == Init /\ [][Next]_regVars
=============================================================================
