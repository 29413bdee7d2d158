----------------------------- MODULE MCAccounts -----------------------------
(***************************************************************************)
(* Accounts for TLC: requests are interchangeable, and every property of   *)
(* the run is an invariant.                                                *)
(***************************************************************************)
EXTENDS Accounts, TLC

CONSTANT boss

MCSymmetry == Permutations(Requests)
=============================================================================
