------------------------------ MODULE MC_Orphan ------------------------------
(* Model-checking instance of Orphan; its constants are all numbers and   *)
(* booleans, given in the cfg files.                                       *)
EXTENDS Orphan
=============================================================================
