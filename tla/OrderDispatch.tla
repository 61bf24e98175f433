----------------------------- MODULE OrderDispatch -----------------------------
(***************************************************************************)
(* Orders, the offers made to riders and the dispatch that makes them.     *)
(*                                                                         *)
(* Every operation below is one Postgres transaction of OrdersService that *)
(* holds the order row FOR UPDATE, hence one action.  The exception is the *)
(* expiry a rider's poll runs (releaseExpiredOffers): it expires offers in *)
(* one statement and moves each order back to SEARCHING in a later         *)
(* transaction, so other operations, or the loss of the process, may come  *)
(* in between.  Dispatch after a confirm, a reject or an expiry, and its   *)
(* retry by the polls, is a transaction of its own whose failure the code  *)
(* swallows; it is the action Dispatch, enabled whenever the order is      *)
(* searching.                                                              *)
(***************************************************************************)
EXTENDS OrderStatus, Naturals, FiniteSets

CONSTANTS
    Orders,
    Riders,
    NoRider,    \* the rider_profile_id of an order nobody carries
    Pollers,    \* processes that may be inside releaseExpiredOffers
    Distance,   \* Distance[o][r]: how far rider r is from the pickup of o
    Conditions, \* the conditions of riders that occur
    MaxLost     \* bound on how many second steps of an expiry get lost

ASSUME NoRiderAssumption == NoRider \notin Riders
ASSUME DistanceAssumption == Distance \in [Orders -> [Riders -> Nat]]
ASSUME MaxLostAssumption == MaxLost \in Nat

\* OFFLINE; online without a recent position (NO_FIX); online and located
\* (READY); BARRED by missing approval, deactivation or a wallet suspension.
ASSUME ConditionsAssumption ==
    Conditions \subseteq {"OFFLINE", "NO_FIX", "READY", "BARRED"}

VARIABLES
    status,     \* orders.canonical_status, or "NONE" before the insert
    rider,      \* orders.rider_profile_id
    snapshot,   \* orders that have a fare snapshot row
    offer,      \* order_offers.status of the pair's only row, "NONE" without
    lapsed,     \* the pairs whose PENDING offer is past its time to live
    condition,  \* what dispatch sees of a rider
    sweep,      \* the orders a poller expired offers of and has yet to visit
    history,    \* order_status_events
    lost        \* second steps of an expiry lost so far (bounded by MaxLost)

vars == <<status, rider, snapshot, offer, lapsed, condition, sweep, history,
          lost>>
orderVars == <<status, rider, snapshot, history>>
offerVars == <<offer, lapsed>>
sweepVars == <<sweep, lost>>

OfferStatuses == {"NONE", "PENDING", "REJECTED", "EXPIRED", "ACCEPTED"}

(***************************************************************************)
(* The idempotency key of a status event is unique to the change it        *)
(* records (it names the offer, or an edge an order takes once), but for   *)
(* two keys an order may use again.                                        *)
(***************************************************************************)
RepeatableKeys == {"OFFERED->SEARCHING:expired:order", "OFFERED->SEARCHING"}
OwnKey == "own"

TypeOK ==
    /\ status \in [Orders -> Statuses \cup {"NONE"}]
    /\ rider \in [Orders -> Riders \cup {NoRider}]
    /\ snapshot \subseteq Orders
    /\ offer \in [Orders -> [Riders -> OfferStatuses]]
    /\ lapsed \subseteq Orders \X Riders
    /\ condition \in [Riders -> Conditions]
    /\ sweep \in [Pollers -> SUBSET Orders]
    /\ history \in [Orders -> [keys: SUBSET RepeatableKeys,
                               last: Statuses \cup {"NONE"}]]
    /\ lost \in 0 .. MaxLost

Init ==
    /\ status = [o \in Orders |-> "NONE"]
    /\ rider = [o \in Orders |-> NoRider]
    /\ snapshot = {}
    /\ offer = [o \in Orders |-> [r \in Riders |-> "NONE"]]
    /\ lapsed = {}
    /\ condition \in [Riders -> Conditions]
    /\ sweep = [p \in Pollers |-> {}]
    /\ history = [o \in Orders |-> [keys |-> {}, last |-> "NONE"]]
    /\ lost = 0

--------------------------------------------------------------------------------
(***************************************************************************)
(* Reading the database.                                                   *)
(***************************************************************************)

Pending(o) == {r \in Riders : offer[o][r] = "PENDING"}

\* riderHasLiveOrder
HasLiveOrder(r) ==
    \E o \in Orders : rider[o] = r /\ status[o] \notin Terminal

\* assertRiderEligible, with the online test and without it (skipOnline).
Eligible(r) == condition[r] \in {"NO_FIX", "READY"}
EligibleOffline(r) == condition[r] # "BARRED"

\* The riders a dispatch of order o ranks: located, without a live order, and
\* without a pending, rejected or accepted offer for it.
Ranked(o) ==
    {r \in Riders : /\ condition[r] = "READY"
                    /\ ~HasLiveOrder(r)
                    /\ offer[o][r] \in {"NONE", "EXPIRED"}}

Nearest(o) ==
    {r \in Ranked(o) : \A s \in Ranked(o) : Distance[o][r] <= Distance[o][s]}

(***************************************************************************)
(* Writing it.                                                             *)
(***************************************************************************)

\* insertStatusEvent: ON CONFLICT (order_id, idempotency_key) DO NOTHING.
RecordEvent(o, to, key) ==
    history' = IF key \in history[o].keys
               THEN history
               ELSE [history EXCEPT ![o] =
                        [keys |-> @.keys \cup ({key} \cap RepeatableKeys),
                         last |-> to]]

\* applyTransition, for a change that leaves the rider as it is.
Move(o, to, actor, key) ==
    /\ MayMove(status[o], to, actor)
    /\ status' = [status EXCEPT ![o] = to]
    /\ RecordEvent(o, to, key)

SetOffer(o, r, to) ==
    /\ offer' = [offer EXCEPT ![o][r] = to]
    /\ lapsed' = lapsed \ {<<o, r>>}

\* Pending offers of o become EXPIRED, but for a rider's who is given another
\* outcome.
\* Mutant: the other riders keep their offers.
CloseOffersOfWinnerOnly(o, r, to) ==
    /\ offer' = [offer EXCEPT ![o][r] = to]
    /\ lapsed' = lapsed \ {<<o, r>>}

CloseOffers(o, r, to) ==
    /\ offer' = [offer EXCEPT ![o] = [s \in Riders |->
                    IF s = r THEN to
                    ELSE IF @[s] = "PENDING" THEN "EXPIRED" ELSE @[s]]]
    /\ lapsed' = lapsed \ ({o} \X Riders)

\* Mutant: the statement forgets status = 'PENDING'.
ExpireAllOffers(o) ==
    /\ offer' = [offer EXCEPT ![o] = [s \in Riders |->
                    IF @[s] = "NONE" THEN "NONE" ELSE "EXPIRED"]]
    /\ lapsed' = lapsed \ ({o} \X Riders)

ExpireAllPending(o) ==
    /\ offer' = [offer EXCEPT ![o] = [s \in Riders |->
                    IF @[s] = "PENDING" THEN "EXPIRED" ELSE @[s]]]
    /\ lapsed' = lapsed \ ({o} \X Riders)

\* The last pending offer of an OFFERED order sends it back to SEARCHING.
LeaveOfferedUnlessPending(o, actor, key) ==
    IF status[o] = "OFFERED" /\ Pending(o)' = {}
    THEN Move(o, "SEARCHING", actor, key)
    ELSE UNCHANGED <<status, history>>

--------------------------------------------------------------------------------
(***************************************************************************)
(* The customer's and the admin's operations.                              *)
(***************************************************************************)

Create(o) ==
    /\ status[o] = "NONE"
    /\ status' = [status EXCEPT ![o] = "CREATED"]
    /\ RecordEvent(o, "CREATED", OwnKey)
    /\ UNCHANGED <<rider, snapshot, offerVars, condition, sweepVars>>

\* An order that has a snapshot answers a repeated confirm without a change.
Confirm(o) ==
    /\ status[o] = "CREATED"
    /\ o \notin snapshot
    /\ snapshot' = snapshot \cup {o}
    /\ Move(o, "SEARCHING", "CUSTOMER", OwnKey)
    /\ UNCHANGED <<rider, offerVars, condition, sweepVars>>

Cancel(o) ==
    /\ status[o] # "NONE"
    /\ \E actor \in {"CUSTOMER", "ADMIN"} :
          Move(o, "CANCELLED", actor, OwnKey)
    /\ ExpireAllPending(o)
    /\ UNCHANGED <<rider, snapshot, condition, sweepVars>>

(***************************************************************************)
(* POST /status.  It refuses the three moves that belong to confirm,       *)
(* dispatch and assignment, asks a rider to be the order's, and leaves the *)
(* offers alone whatever the new status.                                   *)
(***************************************************************************)
Transition(o, to) ==
    /\ status[o] # "NONE"
    /\ to \notin {"OFFERED", "ASSIGNED"}
    /\ ~(status[o] = "CREATED" /\ to = "SEARCHING")
    /\ \E actor \in {"CUSTOMER", "RIDER", "ADMIN"} :
          /\ actor = "RIDER" => rider[o] # NoRider
          /\ Move(o, to, actor, IF to = "SEARCHING" THEN "OFFERED->SEARCHING"
                                                    ELSE OwnKey)
    /\ UNCHANGED <<rider, snapshot, offerVars, condition, sweepVars>>

(***************************************************************************)
(* An admin's assignment does not ask whether the rider is online or has a *)
(* live order, and leaves an offer the rider holds to expire with the rest.*)
(***************************************************************************)
\* Mutant: the assignment bypasses the state machine.
AssignUnchecked(o, r) ==
    /\ status[o] \notin Terminal \cup {"NONE"}
    /\ o \in snapshot
    /\ EligibleOffline(r)
    /\ status' = [status EXCEPT ![o] = "ASSIGNED"]
    /\ RecordEvent(o, "ASSIGNED", OwnKey)
    /\ rider' = [rider EXCEPT ![o] = r]
    /\ ExpireAllPending(o)
    /\ UNCHANGED <<snapshot, condition, sweepVars>>

Assign(o, r) ==
    /\ status[o] # "NONE"
    /\ o \in snapshot
    /\ EligibleOffline(r)
    /\ Move(o, "ASSIGNED", "ADMIN", OwnKey)
    /\ rider' = [rider EXCEPT ![o] = r]
    /\ ExpireAllPending(o)
    /\ UNCHANGED <<snapshot, condition, sweepVars>>

--------------------------------------------------------------------------------
(***************************************************************************)
(* Making offers.                                                          *)
(***************************************************************************)

(***************************************************************************)
(* createOfferInTx once its checks passed.  The pair of order and rider is *)
(* unique, so an offer that exists, expired or not, makes the insert fail; *)
(* Postgres then refuses every later statement of the transaction, the     *)
(* reopening of the expired row included, and commits nothing.             *)
(***************************************************************************)
InsertOffer(o, r, actor) ==
    /\ offer[o][r] = "NONE"
    /\ SetOffer(o, r, "PENDING")
    /\ IF status[o] = "SEARCHING"
       THEN Move(o, "OFFERED", actor, OwnKey)
       ELSE UNCHANGED <<status, history>>

\* The nearest ranked rider is tried first; the candidates behind one whose
\* offer expired are tried in a transaction that can no longer succeed.
Dispatch(o) ==
    /\ status[o] = "SEARCHING"
    /\ o \in snapshot
    /\ \E r \in Nearest(o) : InsertOffer(o, r, "SYSTEM")
    /\ UNCHANGED <<rider, snapshot, condition, sweepVars>>

\* An admin offers the order to a rider of choice: no position is needed, and
\* the order may already be OFFERED to others.
OfferToRider(o, r) ==
    /\ status[o] \in {"SEARCHING", "OFFERED"}
    /\ o \in snapshot
    /\ Eligible(r)
    /\ InsertOffer(o, r, "ADMIN")
    /\ UNCHANGED <<rider, snapshot, condition, sweepVars>>

--------------------------------------------------------------------------------
(***************************************************************************)
(* The rider's answers.                                                    *)
(***************************************************************************)

\* Common to both outcomes of acceptOffer: the order is open to this rider.
Acceptable(o, r) ==
    /\ rider[o] \in {NoRider, r}
    /\ status[o] \in {"OFFERED", "SEARCHING"}
    /\ offer[o][r] = "PENDING"

\* Mutant: no test for a live order.
AcceptAnother(o, r) ==
    /\ Acceptable(o, r)
    /\ <<o, r>> \notin lapsed
    /\ Eligible(r)
    /\ CloseOffers(o, r, "ACCEPTED")
    /\ Move(o, "ASSIGNED", "RIDER", OwnKey)
    /\ rider' = [rider EXCEPT ![o] = r]
    /\ UNCHANGED <<snapshot, condition, sweepVars>>

Accept(o, r) ==
    /\ Acceptable(o, r)
    /\ <<o, r>> \notin lapsed
    /\ Eligible(r)
    /\ ~HasLiveOrder(r)
    /\ CloseOffers(o, r, "ACCEPTED")
    /\ Move(o, "ASSIGNED", "RIDER", OwnKey)
    /\ rider' = [rider EXCEPT ![o] = r]
    /\ UNCHANGED <<snapshot, condition, sweepVars>>

\* Mutant: only the offer expires, as when the whole request rolled back but it.
AcceptLateInPlace(o, r) ==
    /\ Acceptable(o, r)
    /\ <<o, r>> \in lapsed
    /\ SetOffer(o, r, "EXPIRED")
    /\ UNCHANGED <<orderVars, condition, sweepVars>>

\* Too late: the offer expires and the request fails, in this order, so that
\* the expiry is committed.
AcceptLate(o, r) ==
    /\ Acceptable(o, r)
    /\ <<o, r>> \in lapsed
    /\ SetOffer(o, r, "EXPIRED")
    /\ LeaveOfferedUnlessPending(o, "SYSTEM", OwnKey)
    /\ UNCHANGED <<rider, snapshot, condition, sweepVars>>

\* Mutant: the rejection leaves the order OFFERED.
RejectInPlace(o, r) ==
    /\ offer[o][r] = "PENDING"
    /\ SetOffer(o, r, "REJECTED")
    /\ UNCHANGED <<orderVars, condition, sweepVars>>

Reject(o, r) ==
    /\ offer[o][r] = "PENDING"
    /\ SetOffer(o, r, "REJECTED")
    /\ LeaveOfferedUnlessPending(o, "RIDER", OwnKey)
    /\ UNCHANGED <<rider, snapshot, condition, sweepVars>>

--------------------------------------------------------------------------------
(***************************************************************************)
(* releaseExpiredOffers, run by any rider's poll for all orders.           *)
(***************************************************************************)

\* expirePendingOffersOlderThan: one statement, no order lock.
SweepExpire(p) ==
    /\ sweep[p] = {}
    /\ lapsed # {}
    /\ offer' = [o \in Orders |-> [r \in Riders |->
                    IF <<o, r>> \in lapsed THEN "EXPIRED" ELSE offer[o][r]]]
    /\ lapsed' = {}
    /\ sweep' = [sweep EXCEPT ![p] =
                    {o \in Orders : \E r \in Riders : <<o, r>> \in lapsed}]
    /\ UNCHANGED <<orderVars, condition, lost>>

\* The second step for one of the orders, in a transaction of its own.
SweepRelease(p, o) ==
    /\ o \in sweep[p]
    /\ sweep' = [sweep EXCEPT ![p] = @ \ {o}]
    /\ IF status[o] = "OFFERED" /\ Pending(o) = {}
       THEN Move(o, "SEARCHING", "SYSTEM", "OFFERED->SEARCHING:expired:order")
       ELSE UNCHANGED <<status, history>>
    /\ UNCHANGED <<rider, snapshot, offerVars, condition, lost>>

\* The second step fails, and the code logs it, or the process ends first.
SweepLost(p, o) ==
    /\ o \in sweep[p]
    /\ lost < MaxLost
    /\ lost' = lost + 1
    /\ sweep' = [sweep EXCEPT ![p] = @ \ {o}]
    /\ UNCHANGED <<orderVars, offerVars, condition>>

--------------------------------------------------------------------------------
(***************************************************************************)
(* The environment: offers grow old, riders come, go and move.             *)
(***************************************************************************)

Lapse(o, r) ==
    /\ offer[o][r] = "PENDING"
    /\ <<o, r>> \notin lapsed
    /\ lapsed' = lapsed \cup {<<o, r>>}
    /\ UNCHANGED <<orderVars, offer, condition, sweepVars>>

ChangeCondition(r) ==
    /\ \E c \in Conditions \ {condition[r]} :
          condition' = [condition EXCEPT ![r] = c]
    /\ UNCHANGED <<orderVars, offerVars, sweepVars>>

Next ==
    \/ \E o \in Orders :
          \/ Create(o)
          \/ Confirm(o)
          \/ Cancel(o)
          \/ Dispatch(o)
          \/ \E to \in Statuses : Transition(o, to)
    \/ \E o \in Orders, r \in Riders :
          \/ Assign(o, r)
          \/ OfferToRider(o, r)
          \/ Accept(o, r)
          \/ AcceptLate(o, r)
          \/ Reject(o, r)
          \/ Lapse(o, r)
    \/ \E p \in Pollers :
          \/ SweepExpire(p)
          \/ \E o \in Orders : SweepRelease(p, o) \/ SweepLost(p, o)
    \/ \E r \in Riders : ChangeCondition(r)

Spec == Init /\ [][Next]_vars

(***************************************************************************)
(* The customer app polls a searching order and the rider apps poll their  *)
(* offers, so dispatch and expiry keep running, and time passes.  Nothing  *)
(* obliges a customer, a rider or an admin to act.                         *)
(***************************************************************************)
Fairness ==
    /\ \A o \in Orders : WF_vars(Dispatch(o))
    /\ \A o \in Orders, r \in Riders : WF_vars(Lapse(o, r))
    /\ \A p \in Pollers :
          /\ WF_vars(SweepExpire(p))
          /\ \A o \in Orders : WF_vars(SweepRelease(p, o))

FairSpec == Spec /\ Fairness
--------------------------------------------------------------------------------
(***************************************************************************)
(* What must hold.                                                         *)
(***************************************************************************)

\* The rider column and the accepted offer tell one story: an order has a rider
\* from its assignment on and never before, and an accepted offer belongs to
\* the rider the order has, so no order has two (acceptOffer, assignRider).
CarrierConsistent ==
    \A o \in Orders :
        /\ status[o] \in PreAssignment \cup {"NONE"} => rider[o] = NoRider
        /\ status[o] \notin PreAssignment \cup {"NONE", "CANCELLED"}
              => rider[o] # NoRider
        /\ \A r \in Riders : offer[o][r] = "ACCEPTED" => rider[o] = r

\* Once an order has a rider nobody else is left with an offer to answer,
\* whichever of accept and admin assignment won (expireOtherPendingOffers,
\* expireAllPendingOffers).
NoOfferOutlivesAssignment ==
    \A o \in Orders : rider[o] # NoRider => Pending(o) = {}

\* A rider who accepts offers for several orders at once ends up with one: of
\* the live orders a rider carries, at most one came from an accepted offer.
\* An admin may assign more (assignRider has no live-order test).
OneAcceptedTrip ==
    \A r \in Riders, o1, o2 \in Orders :
        /\ rider[o1] = r /\ offer[o1][r] = "ACCEPTED" /\ status[o1] \notin Terminal
        /\ rider[o2] = r /\ offer[o2][r] = "ACCEPTED" /\ status[o2] \notin Terminal
        => o1 = o2

\* An order left OFFERED without an offer to answer is on the list of a poll
\* that will send it back to searching, as long as no such list was lost: no
\* other path (reject, late accept) forgets the order.
StrandedIsSwept ==
    lost = 0 =>
        \A o \in Orders :
            status[o] = "OFFERED" /\ Pending(o) = {}
                => \E p \in Pollers : o \in sweep[p]

\* A rider's answer is final: neither an expiry, a cancellation, a new dispatch
\* nor an admin offer rewrites a rejected or an accepted offer.
AnswersAreFinal ==
    [][\A o \in Orders, r \in Riders :
          offer[o][r] \in {"REJECTED", "ACCEPTED"} => offer'[o][r] = offer[o][r]
      ]_vars

\* ORDER_DOMAIN_ARCHITECTURE.md, Dispatch foundation: "Last pending
\* reject/expire returns the order to SEARCHING".  As long as no second step of
\* an expiry got lost, neither a race of two polls nor one with an answer, an
\* admin's offer or a cancellation makes an order stay OFFERED.
OfferedResolvesUnlessLost ==
    \A o \in Orders :
        status[o] = "OFFERED" ~> (status[o] # "OFFERED" \/ lost > 0)

(***************************************************************************)
(* Seen by its customer an order is drafted, open, carried by one rider,   *)
(* and then done or cancelled: OrderPromise, which this module implements. *)
(***************************************************************************)
Phase(o) ==
    CASE status[o] = "NONE"                               -> "none"
      [] status[o] = "CREATED"                            -> "draft"
      [] status[o] \in {"SEARCHING", "OFFERED"}           -> "open"
      [] status[o] = "CANCELLED"                          -> "cancelled"
      [] status[o] \in {"DELIVERED", "RESEND_COMPLETED"}  -> "done"
      [] OTHER                                            -> "carried"

Promise == INSTANCE OrderPromise
    WITH phase <- [o \in Orders |-> Phase(o)], carrier <- rider

\* Every step of dispatch is a step of the promise: one rider takes an open
\* order, keeps it to the end, and a finished order stays finished.
ImplementsPromise == Promise!Spec
================================================================================
