------------------------------ MODULE OrderPromise ------------------------------
(***************************************************************************)
(* What the order service promises the two parties of a delivery, without  *)
(* offers, expiry or dispatch: an order is drafted, opened by the          *)
(* confirmation of its fare, taken by exactly one rider, and finished; it  *)
(* may be cancelled until it is finished, and nothing happens afterwards.  *)
(***************************************************************************)
CONSTANTS Orders, Riders, NoRider

VARIABLES
    phase,      \* where the order stands
    carrier     \* the rider who took it

promiseVars == <<phase, carrier>>

Init ==
    /\ phase = [o \in Orders |-> "none"]
    /\ carrier = [o \in Orders |-> NoRider]

Advance(o, from, to) ==
    /\ phase[o] = from
    /\ phase' = [phase EXCEPT ![o] = to]

Draft(o) == Advance(o, "none", "draft") /\ UNCHANGED carrier

Open(o) == Advance(o, "draft", "open") /\ UNCHANGED carrier

Take(o, r) ==
    /\ Advance(o, "open", "carried")
    /\ carrier[o] = NoRider
    /\ carrier' = [carrier EXCEPT ![o] = r]

Finish(o) == Advance(o, "carried", "done") /\ UNCHANGED carrier

Cancel(o) ==
    /\ \E from \in {"draft", "open", "carried"} : Advance(o, from, "cancelled")
    /\ UNCHANGED carrier

Next ==
    \E o \in Orders :
        \/ Draft(o)
        \/ Open(o)
        \/ \E r \in Riders : Take(o, r)
        \/ Finish(o)
        \/ Cancel(o)

Spec == Init /\ [][Next]_promiseVars
================================================================================
