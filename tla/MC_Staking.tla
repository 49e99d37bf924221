----------------------------- MODULE MC_Staking -----------------------------
(* Model-checking instances of Staking: three addresses, one genesis      *)
(* validator, u128 shrunk to a few bits.                                       *)
EXTENDS Staking

CONSTANTS v1, v2, v3

MCAddrs == {v1, v2, v3}

MCGenesis == <<v1>>

(* v2 can lock one deposit of 2, v3 has nothing.                          *)
MCInitBalance == (v1 :> 0) @@ (v2 :> 2) @@ (v3 :> 0)
=============================================================================
