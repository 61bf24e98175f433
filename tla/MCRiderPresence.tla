---------------------------- MODULE MCRiderPresence ----------------------------
(***************************************************************************)
(* Instances of RiderPresence for TLC.                                     *)
(***************************************************************************)
EXTENDS RiderPresence, TLC
================================================================================
