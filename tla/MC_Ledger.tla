------------------------------ MODULE MC_Ledger ------------------------------
(* Model-checking instances of Ledger: two users, the fee address, fee 1. *)
EXTENDS Ledger

CONSTANTS a1, a2, zero

MCAccounts == {a1, a2}

(* a1 can pay for one transfer of 1 and its fee, or be tempted into a     *)
(* transfer of 2 it cannot pay the fee for; a2 starts with 1.             *)
MCInitBalance == (a1 :> 2) @@ (a2 :> 1) @@ (zero :> 0)
(* Both users can pay for every transfer with its fee.                    *)
MCInitRich == (a1 :> 3) @@ (a2 :> 3) @@ (zero :> 0)
=============================================================================
