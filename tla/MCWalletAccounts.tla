---------------------------- MODULE MCWalletAccounts ----------------------------
(***************************************************************************)
(* Instances of WalletAccounts for TLC.  Top-ups, withdrawals and cleanups *)
(* are each alike, and no liveness is checked.                             *)
(***************************************************************************)
EXTENDS WalletAccounts, TLC

Symmetry == Permutations(TopUps) \union Permutations(Withdrawals) \union Permutations(Cleaners)
================================================================================
