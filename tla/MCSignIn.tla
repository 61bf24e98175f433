-------------------------------- MODULE MCSignIn --------------------------------
(***************************************************************************)
(* An instance of SignIn for TLC.  Calls of a kind are alike.              *)
(***************************************************************************)
EXTENDS SignIn, TLC

Symmetry == Permutations(Codes) \cup Permutations(Verifiers)
            \cup Permutations(Sessions) \cup Permutations(Refreshers)
================================================================================
