----------------------------- MODULE MCTripFinance -----------------------------
(***************************************************************************)
(* Instances of TripFinance for TLC: the bill, the rider's part and the    *)
(* numbers of rows are given in the configurations.  Keys of refunds are   *)
(* alike.                                                                  *)
(***************************************************************************)
EXTENDS TripFinance, TLC

Symmetry == Permutations(Keys)
================================================================================
