-------------------------- MODULE MCNotificationOutbox -------------------------
(***************************************************************************)
(* Instances of NotificationOutbox for TLC: every event is for one rider.  *)
(***************************************************************************)
EXTENDS NotificationOutbox, TLC

CONSTANTS rider

ForRider == [e \in Events |-> rider]
================================================================================
