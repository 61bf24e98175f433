----------------------------- MODULE MCRiderPayout -----------------------------
(***************************************************************************)
(* Instances of RiderPayout for TLC.                                       *)
(***************************************************************************)
EXTENDS RiderPayout, TLC

OneEach == [w \in Withdrawals |-> 1]

Symmetry == Permutations(Withdrawals) \cup Permutations(Flows)
================================================================================
