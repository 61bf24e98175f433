------------------------------ MODULE OrderStatus ------------------------------
(***************************************************************************)
(* The order life cycle of the backend: the eighteen canonical statuses,   *)
(* the edges between them with the actors that may take each, and the test *)
(* OrderStateMachine.assert makes before every change.                     *)
(*                                                                         *)
(* Source: backend/src/orders/order-status.ts and order-state-machine.ts.  *)
(***************************************************************************)

Statuses ==
    {"CREATED", "SEARCHING", "OFFERED", "ASSIGNED", "EN_ROUTE_PICKUP",
     "ARRIVED_PICKUP", "PICKED_UP", "IN_TRANSIT", "NEAR_DROP",
     "DELIVERY_ATTEMPT", "DELIVERED", "RECEIVER_UNAVAILABLE",
     "FAILED_DELIVERY", "PARCEL_AT_COMPANY_OFFICE", "RESEND_REQUESTED",
     "RESEND_IN_PROGRESS", "RESEND_COMPLETED", "CANCELLED"}

\* Mutant: the end of a resend is forgotten.
TerminalWithoutResend == {"DELIVERED", "CANCELLED"}

Terminal == {"DELIVERED", "CANCELLED", "RESEND_COMPLETED"}

\* The statuses in which an order has no rider yet.
PreAssignment == {"CREATED", "SEARCHING", "OFFERED"}

Actors == {"CUSTOMER", "RIDER", "ADMIN", "SYSTEM"}

\* TRANSITION_RULES: who may take the edge from -> to; nobody takes an edge
\* that is not listed.
RuleActors(from, to) ==
    CASE <<from, to>> = <<"CREATED", "SEARCHING">>  -> {"SYSTEM", "CUSTOMER"}
      [] <<from, to>> = <<"SEARCHING", "OFFERED">>  -> {"SYSTEM", "ADMIN"}
      [] <<from, to>> = <<"SEARCHING", "ASSIGNED">> -> {"ADMIN"}
      [] <<from, to>> = <<"OFFERED", "ASSIGNED">>   -> {"RIDER", "ADMIN"}
      [] <<from, to>> = <<"OFFERED", "SEARCHING">>  -> {"SYSTEM", "RIDER", "ADMIN"}
      [] from \in PreAssignment /\ to = "CANCELLED" -> {"CUSTOMER", "ADMIN"}
      [] <<from, to>> \in
            {<<"ASSIGNED", "EN_ROUTE_PICKUP">>,
             <<"EN_ROUTE_PICKUP", "ARRIVED_PICKUP">>,
             <<"ARRIVED_PICKUP", "PICKED_UP">>,
             <<"PICKED_UP", "IN_TRANSIT">>,
             <<"IN_TRANSIT", "NEAR_DROP">>,
             <<"NEAR_DROP", "DELIVERY_ATTEMPT">>,
             <<"DELIVERY_ATTEMPT", "DELIVERED">>,
             <<"DELIVERY_ATTEMPT", "RECEIVER_UNAVAILABLE">>,
             <<"FAILED_DELIVERY", "PARCEL_AT_COMPANY_OFFICE">>}
                                                    -> {"RIDER", "ADMIN"}
      [] <<from, to>> = <<"PARCEL_AT_COMPANY_OFFICE", "RESEND_REQUESTED">>
                                                    -> {"CUSTOMER", "ADMIN"}
      [] <<from, to>> \in
            {<<"RECEIVER_UNAVAILABLE", "FAILED_DELIVERY">>,
             <<"RESEND_REQUESTED", "RESEND_IN_PROGRESS">>,
             <<"RESEND_IN_PROGRESS", "RESEND_COMPLETED">>}
                                                    -> {"SYSTEM", "RIDER", "ADMIN"}
      [] OTHER                                      -> {}

\* OrderStateMachine.assert: a terminal order never changes, an order does not
\* move to the status it has, an admin may cancel anything that is not
\* terminal, and otherwise the edge must exist for this actor.
MayMove(from, to, actor) ==
    /\ from \notin Terminal
    /\ from # to
    /\ \/ to = "CANCELLED" /\ actor = "ADMIN"
       \/ actor \in RuleActors(from, to)

================================================================================
