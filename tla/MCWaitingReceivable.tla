-------------------------- MODULE MCWaitingReceivable --------------------------
(***************************************************************************)
(* Instances of WaitingReceivable for TLC.                                 *)
(***************************************************************************)
EXTENDS WaitingReceivable, TLC

CONSTANT TheOrder

\* Every request is about the same order.
AllOfTheOrder == [r \in Requests |-> TheOrder]
================================================================================
