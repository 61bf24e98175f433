-------------------------- MODULE OrderDispatchProofs --------------------------
(***************************************************************************)
(* Theorems about OrderDispatch, for any orders, riders, pollers and       *)
(* distances.  What a step may do to one order and to one offer is stated  *)
(* once (OrderMove, OfferMove) and proved action by action (StepMoves);    *)
(* every invariant follows from these two relations.                       *)
(***************************************************************************)
EXTENDS OrderDispatch, TLAPS

\* What TRANSITION_RULES and the admin's cancellation amount to.
Edge(from, to) ==
    /\ from \notin Terminal
    /\ to # "CREATED"
    /\ to = "SEARCHING" => from \in {"CREATED", "OFFERED"}
    /\ to = "OFFERED" => from = "SEARCHING"
    /\ to = "ASSIGNED" => from \in {"SEARCHING", "OFFERED"}
    /\ from \in PreAssignment /\ to \notin PreAssignment
          => to \in {"ASSIGNED", "CANCELLED"}

LEMMA MoveFacts ==
    ASSUME NEW from \in Statuses, NEW to \in Statuses, NEW actor,
           MayMove(from, to, actor)
    PROVE  Edge(from, to)
BY DEF Edge, MayMove, RuleActors, Terminal, PreAssignment, Statuses

--------------------------------------------------------------------------------
(***************************************************************************)
(* Types.                                                                  *)
(***************************************************************************)
StatusType == status \in [Orders -> Statuses \cup {"NONE"}]
HistoryType ==
    history \in [Orders -> [keys: SUBSET RepeatableKeys,
                            last: Statuses \cup {"NONE"}]]
OfferType ==
    /\ offer \in [Orders -> [Riders -> OfferStatuses]]
    /\ lapsed \subseteq Orders \X Riders

LEMMA RecordEventType ==
    ASSUME TypeOK, NEW o \in Orders, NEW to \in Statuses, NEW key,
           RecordEvent(o, to, key)
    PROVE  HistoryType'
<1>1. history[o].keys \cup ({key} \cap RepeatableKeys) \in SUBSET RepeatableKeys
  BY DEF TypeOK
<1>2. QED
  BY <1>1 DEF TypeOK, HistoryType, RecordEvent

LEMMA MoveType ==
    ASSUME TypeOK, NEW o \in Orders, NEW to \in Statuses, NEW actor, NEW key,
           Move(o, to, actor, key)
    PROVE  StatusType' /\ HistoryType'
BY RecordEventType DEF TypeOK, Move, StatusType

LEMMA ExpireAllType ==
    ASSUME TypeOK, NEW o \in Orders, ExpireAllPending(o)
    PROVE  OfferType'
BY DEF TypeOK, OfferType, ExpireAllPending, OfferStatuses

LEMMA SetOfferType ==
    ASSUME TypeOK, NEW o \in Orders, NEW r \in Riders,
           NEW to \in OfferStatuses, SetOffer(o, r, to)
    PROVE  OfferType'
BY DEF TypeOK, OfferType, SetOffer

LEMMA CloseOffersType ==
    ASSUME TypeOK, NEW o \in Orders, NEW r \in Riders,
           NEW to \in OfferStatuses, CloseOffers(o, r, to)
    PROVE  OfferType'
BY DEF TypeOK, OfferType, CloseOffers, OfferStatuses

LEMMA TypeInit == Init => TypeOK
BY MaxLostAssumption
DEF Init, TypeOK, OfferStatuses, RepeatableKeys, Statuses

LEMMA TypeStep == TypeOK /\ [Next]_vars => TypeOK'
<1> SUFFICES ASSUME TypeOK, [Next]_vars PROVE TypeOK'
  OBVIOUS
<1> USE DEF orderVars, offerVars, sweepVars
<1> DEFINE RestType == /\ rider' \in [Orders -> Riders \cup {NoRider}]
                       /\ snapshot' \subseteq Orders
                       /\ condition' \in [Riders -> Conditions]
                       /\ sweep' \in [Pollers -> SUBSET Orders]
                       /\ lost' \in 0 .. MaxLost
<1>a. StatusType' /\ HistoryType' /\ OfferType' /\ RestType => TypeOK'
  BY DEF StatusType, HistoryType, OfferType, TypeOK
<1>b. /\ UNCHANGED status => StatusType'
      /\ UNCHANGED history => HistoryType'
      /\ UNCHANGED <<offer, lapsed>> => OfferType'
  BY DEF StatusType, HistoryType, OfferType, TypeOK
<1>c. ASSUME NEW o \in Orders, NEW actor, NEW key,
             LeaveOfferedUnlessPending(o, actor, key)
      PROVE  StatusType' /\ HistoryType'
  BY <1>b, <1>c, MoveType DEF LeaveOfferedUnlessPending, Statuses
<1>1. CASE UNCHANGED vars
  BY <1>1, <1>a, <1>b DEF vars, TypeOK
<1>2. ASSUME NEW o \in Orders, Create(o) PROVE TypeOK'
  <2>1. StatusType' /\ HistoryType'
    BY <1>2, RecordEventType DEF Create, Statuses, TypeOK, StatusType
  <2>2. QED
    BY <1>2, <2>1, <1>a, <1>b DEF Create, TypeOK
<1>3. ASSUME NEW o \in Orders, Confirm(o) PROVE TypeOK'
  <2>1. StatusType' /\ HistoryType'
    BY <1>3, MoveType DEF Confirm, Statuses
  <2>2. QED
    BY <1>3, <2>1, <1>a, <1>b DEF Confirm, TypeOK
<1>4. ASSUME NEW o \in Orders, Cancel(o) PROVE TypeOK'
  <2>1. StatusType' /\ HistoryType'
    BY <1>4, MoveType DEF Cancel, Statuses
  <2>2. OfferType'
    BY <1>4, ExpireAllType DEF Cancel
  <2>3. QED
    BY <1>4, <2>1, <2>2, <1>a DEF Cancel, TypeOK
<1>5. ASSUME NEW o \in Orders, NEW to \in Statuses, Transition(o, to) PROVE TypeOK'
  <2>1. StatusType' /\ HistoryType'
    BY <1>5, MoveType DEF Transition
  <2>2. QED
    BY <1>5, <2>1, <1>a, <1>b DEF Transition, TypeOK
<1>6. ASSUME NEW o \in Orders, NEW r \in Riders, Assign(o, r) PROVE TypeOK'
  <2>1. StatusType' /\ HistoryType'
    BY <1>6, MoveType DEF Assign, Statuses
  <2>2. OfferType'
    BY <1>6, ExpireAllType DEF Assign
  <2>3. QED
    BY <1>6, <2>1, <2>2, <1>a DEF Assign, TypeOK
<1>7. ASSUME NEW o \in Orders, NEW r \in Riders, NEW actor, InsertOffer(o, r, actor),
             UNCHANGED <<rider, snapshot, condition, sweepVars>>
      PROVE  TypeOK'
  <2>1. StatusType' /\ HistoryType'
    BY <1>7, <1>b, MoveType DEF InsertOffer, Statuses
  <2>2. OfferType'
    BY <1>7, SetOfferType DEF InsertOffer, OfferStatuses
  <2>3. QED
    BY <1>7, <2>1, <2>2, <1>a DEF TypeOK
<1>8. ASSUME NEW o \in Orders, NEW r \in Riders, Accept(o, r) PROVE TypeOK'
  <2>1. StatusType' /\ HistoryType'
    BY <1>8, MoveType DEF Accept, Statuses
  <2>2. OfferType'
    BY <1>8, CloseOffersType DEF Accept, OfferStatuses
  <2>3. QED
    BY <1>8, <2>1, <2>2, <1>a DEF Accept, TypeOK
<1>9. ASSUME NEW o \in Orders, NEW r \in Riders, AcceptLate(o, r) \/ Reject(o, r)
      PROVE  TypeOK'
  <2>1. StatusType' /\ HistoryType'
    BY <1>9, <1>c DEF AcceptLate, Reject
  <2>2. OfferType'
    BY <1>9, SetOfferType DEF AcceptLate, Reject, OfferStatuses
  <2>3. QED
    BY <1>9, <2>1, <2>2, <1>a DEF AcceptLate, Reject, TypeOK
<1>10. ASSUME NEW o \in Orders, NEW r \in Riders, Lapse(o, r) PROVE TypeOK'
  BY <1>10 DEF Lapse, TypeOK
<1>11. ASSUME NEW p \in Pollers, SweepExpire(p) PROVE TypeOK'
  <2>1. OfferType'
    BY <1>11 DEF SweepExpire, OfferType, TypeOK, OfferStatuses
  <2>2. QED
    BY <1>11, <2>1, <1>a, <1>b DEF SweepExpire, TypeOK
<1>12. ASSUME NEW p \in Pollers, NEW o \in Orders, SweepRelease(p, o) PROVE TypeOK'
  <2>1. StatusType' /\ HistoryType'
    BY <1>12, <1>b, MoveType DEF SweepRelease, Statuses
  <2>2. QED
    BY <1>12, <2>1, <1>a, <1>b DEF SweepRelease, TypeOK
<1>13. ASSUME NEW p \in Pollers, NEW o \in Orders, SweepLost(p, o) PROVE TypeOK'
  <2>1. lost' \in 0 .. MaxLost
    BY <1>13, MaxLostAssumption DEF SweepLost, TypeOK
  <2>2. QED
    BY <1>13, <2>1, <1>a, <1>b DEF SweepLost, TypeOK
<1>14. ASSUME NEW r \in Riders, ChangeCondition(r) PROVE TypeOK'
  BY <1>14 DEF ChangeCondition, TypeOK
<1>15. QED
  BY <1>1, <1>2, <1>3, <1>4, <1>5, <1>6, <1>7, <1>8, <1>9, <1>10, <1>11, <1>12,
     <1>13, <1>14
  DEF Next, Dispatch, OfferToRider, Nearest, Ranked

THEOREM TypeCorrect == Spec => []TypeOK
BY TypeInit, TypeStep, PTL DEF Spec

--------------------------------------------------------------------------------
(***************************************************************************)
(* What a step does to one order and to one offer.                         *)
(***************************************************************************)
OrderMove(o) ==
    \/ status'[o] = status[o] /\ rider'[o] = rider[o]
    \/ status[o] = "NONE" /\ status'[o] = "CREATED" /\ rider'[o] = rider[o]
    \/ /\ status[o] \in Statuses /\ status'[o] \in Statuses \ {"ASSIGNED"}
       /\ Edge(status[o], status'[o])
       /\ rider'[o] = rider[o]
    \/ /\ status[o] \in {"SEARCHING", "OFFERED"} /\ status'[o] = "ASSIGNED"
       /\ rider'[o] \in Riders
       /\ \A r \in Riders : offer'[o][r] # "PENDING"

OfferMove(o, r) ==
    \/ offer'[o][r] = offer[o][r]
    \/ /\ offer[o][r] = "NONE" /\ offer'[o][r] = "PENDING"
       /\ status[o] \in {"SEARCHING", "OFFERED"} /\ status'[o] = "OFFERED"
       /\ rider'[o] = rider[o]
    \/ offer[o][r] = "PENDING" /\ offer'[o][r] \in {"EXPIRED", "REJECTED"}
    \/ /\ offer[o][r] = "PENDING" /\ offer'[o][r] = "ACCEPTED"
       /\ status[o] \in {"SEARCHING", "OFFERED"} /\ status'[o] = "ASSIGNED"
       /\ rider'[o] = r
       /\ ~HasLiveOrder(r)
       /\ \A v \in Orders : v # o => status'[v] = status[v] /\ rider'[v] = rider[v]

\* Only an offer that awaits its answer can be past its time to live.
LapsedArePending ==
    \A o \in Orders, r \in Riders : <<o, r>> \in lapsed => offer[o][r] = "PENDING"

\* The writes, seen from one order and one offer.
LEMMA MoveOne ==
    ASSUME TypeOK, NEW o \in Orders, NEW to \in Statuses, NEW actor, NEW key,
           status[o] # "NONE", Move(o, to, actor, key), NEW v \in Orders
    PROVE  /\ v # o => status'[v] = status[v]
           /\ v = o => status'[v] = to /\ status[v] \in Statuses /\ Edge(status[v], to)
<1>1. status[o] \in Statuses
  BY DEF TypeOK
<1>2. Edge(status[o], to) /\ status' = [status EXCEPT ![o] = to]
  BY <1>1, MoveFacts DEF Move
<1>3. QED
  BY <1>1, <1>2 DEF TypeOK

LEMMA SetOfferOne ==
    ASSUME TypeOK, NEW o \in Orders, NEW r \in Riders, NEW to, SetOffer(o, r, to),
           NEW v \in Orders, NEW s \in Riders
    PROVE  /\ offer'[v][s] = IF v = o /\ s = r THEN to ELSE offer[v][s]
           /\ <<v, s>> \in lapsed' => <<v, s>> \in lapsed /\ <<v, s>> # <<o, r>>
BY DEF TypeOK, SetOffer

LEMMA CloseOffersOne ==
    ASSUME TypeOK, NEW o \in Orders, NEW r \in Riders, NEW to, CloseOffers(o, r, to),
           NEW v \in Orders, NEW s \in Riders
    PROVE  /\ offer'[v][s] = IF v # o THEN offer[v][s]
                             ELSE IF s = r THEN to
                             ELSE IF offer[v][s] = "PENDING" THEN "EXPIRED"
                             ELSE offer[v][s]
           /\ <<v, s>> \in lapsed' => <<v, s>> \in lapsed /\ v # o
BY DEF TypeOK, CloseOffers

LEMMA ExpireAllOne ==
    ASSUME TypeOK, NEW o \in Orders, ExpireAllPending(o),
           NEW v \in Orders, NEW s \in Riders
    PROVE  /\ offer'[v][s] = IF v = o /\ offer[v][s] = "PENDING" THEN "EXPIRED"
                             ELSE offer[v][s]
           /\ <<v, s>> \in lapsed' => <<v, s>> \in lapsed /\ v # o
BY DEF TypeOK, ExpireAllPending

LEMMA LeaveOne ==
    ASSUME TypeOK, NEW o \in Orders, NEW actor, NEW key,
           LeaveOfferedUnlessPending(o, actor, key), NEW v \in Orders
    PROVE  \/ status'[v] = status[v]
           \/ status[v] = "OFFERED" /\ status'[v] = "SEARCHING" /\ Edge(status[v], status'[v])
<1>1. CASE status[o] = "OFFERED" /\ Pending(o)' = {}
  BY <1>1, MoveOne DEF LeaveOfferedUnlessPending, Statuses
<1>2. CASE ~(status[o] = "OFFERED" /\ Pending(o)' = {})
  BY <1>2 DEF LeaveOfferedUnlessPending
<1>3. QED
  BY <1>1, <1>2

LapsedMove(o, r) == <<o, r>> \in lapsed' => offer'[o][r] = "PENDING"

LEMMA StepMoves ==
    ASSUME TypeOK, LapsedArePending, [Next]_vars,
           NEW v \in Orders, NEW s
    PROVE  /\ OrderMove(v)
           /\ s \in Riders => OfferMove(v, s) /\ LapsedMove(v, s)
<1> DEFINE OfferGoal == s \in Riders => OfferMove(v, s) /\ LapsedMove(v, s)
           Goal == OrderMove(v) /\ OfferGoal
<1> USE DEF orderVars, offerVars, sweepVars
<1>a. s \in Riders /\ <<v, s>> \in lapsed => offer[v][s] = "PENDING"
  BY DEF LapsedArePending
<1>b. ASSUME UNCHANGED <<status, rider>> PROVE OrderMove(v)
  BY <1>b DEF OrderMove
<1>1. CASE UNCHANGED vars
  BY <1>1, <1>a DEF vars, OrderMove, OfferMove, LapsedMove
<1>2. ASSUME NEW o \in Orders, Create(o) PROVE Goal
  BY <1>2, <1>a DEF Create, OrderMove, OfferMove, LapsedMove, TypeOK
<1>3. ASSUME NEW o \in Orders, Confirm(o) PROVE Goal
  BY <1>3, <1>a, MoveOne DEF Confirm, OrderMove, OfferMove, LapsedMove, Statuses
<1>4. ASSUME NEW o \in Orders, Cancel(o) PROVE Goal
  <2>1. OrderMove(v)
    BY <1>4, MoveOne DEF Cancel, OrderMove, Statuses
  <2>2. OfferGoal
    BY <1>4, <1>a, ExpireAllOne DEF Cancel, OfferMove, LapsedMove
  <2>3. QED
    BY <2>1, <2>2
<1>5. ASSUME NEW o \in Orders, NEW to \in Statuses, Transition(o, to) PROVE Goal
  <2>1. OrderMove(v)
    BY <1>5, MoveOne DEF Transition, OrderMove
  <2>2. QED
    BY <1>5, <2>1, <1>a DEF Transition, OfferMove, LapsedMove
<1>6. ASSUME NEW o \in Orders, NEW r \in Riders, Assign(o, r) PROVE Goal
  <2>1. /\ status'[v] = IF v = o THEN "ASSIGNED" ELSE status[v]
        /\ v = o => status[v] \in {"SEARCHING", "OFFERED"}
    BY <1>6, MoveOne DEF Assign, Statuses, Edge
  <2>2. rider'[v] = IF v = o THEN r ELSE rider[v]
    BY <1>6 DEF Assign, TypeOK
  <2>3. v = o => \A t \in Riders : offer'[v][t] # "PENDING"
    <3>1. ExpireAllPending(o)
      BY <1>6 DEF Assign
    <3>2. \A t \in Riders : offer'[o][t] # "PENDING"
      BY <3>1, ExpireAllOne
    <3>3. QED
      BY <3>2
  <2>4. OrderMove(v)
    BY <2>1, <2>2, <2>3 DEF OrderMove
  <2>5. OfferGoal
    BY <1>6, <1>a, ExpireAllOne DEF Assign, OfferMove, LapsedMove
  <2>6. QED
    BY <2>4, <2>5
<1>7. ASSUME NEW o \in Orders, NEW r \in Riders, NEW actor, InsertOffer(o, r, actor),
             status[o] \in {"SEARCHING", "OFFERED"}, UNCHANGED rider
      PROVE  Goal
  <2>1. /\ v # o => status'[v] = status[v]
        /\ v = o => status'[v] = "OFFERED"
                     /\ (status[v] = "SEARCHING" => Edge(status[v], "OFFERED"))
    BY <1>7, MoveOne DEF InsertOffer, Statuses
  <2>2. OrderMove(v)
    BY <1>7, <2>1 DEF OrderMove, Statuses
  <2>3. OfferGoal
    BY <1>7, <1>a, <2>1, SetOfferOne DEF InsertOffer, OfferMove, LapsedMove
  <2>4. QED
    BY <2>2, <2>3
<1>8. ASSUME NEW o \in Orders, NEW r \in Riders, Accept(o, r) PROVE Goal
  <2>1. \A u \in Orders :
           /\ status'[u] = IF u = o THEN "ASSIGNED" ELSE status[u]
           /\ rider'[u] = IF u = o THEN r ELSE rider[u]
    <3>1. Move(o, "ASSIGNED", "RIDER", OwnKey) /\ rider' = [rider EXCEPT ![o] = r]
      BY <1>8 DEF Accept
    <3>2. status' = [status EXCEPT ![o] = "ASSIGNED"]
      BY <3>1 DEF Move
    <3>3. QED
      BY <3>1, <3>2 DEF TypeOK
  <2>2. status[o] \in {"SEARCHING", "OFFERED"} /\ offer[o][r] = "PENDING"
        /\ ~HasLiveOrder(r)
    BY <1>8 DEF Accept, Acceptable
  <2>3. v = o => \A t \in Riders : offer'[v][t] # "PENDING"
    <3>1. CloseOffers(o, r, "ACCEPTED")
      BY <1>8 DEF Accept
    <3>2. ASSUME NEW t \in Riders PROVE offer'[o][t] # "PENDING"
      <4>1. offer'[o][t] = IF t = r THEN "ACCEPTED"
                           ELSE IF offer[o][t] = "PENDING" THEN "EXPIRED"
                           ELSE offer[o][t]
        BY <3>1 DEF CloseOffers, TypeOK
      <4>2. QED
        BY <4>1
    <3>3. QED
      BY <3>2
  <2>4. OrderMove(v)
    BY <2>1, <2>2, <2>3 DEF OrderMove
  <2>5. ASSUME s \in Riders
        PROVE  /\ offer'[v][s] = IF v # o THEN offer[v][s]
                                 ELSE IF s = r THEN "ACCEPTED"
                                 ELSE IF offer[v][s] = "PENDING" THEN "EXPIRED"
                                 ELSE offer[v][s]
               /\ <<v, s>> \in lapsed' => <<v, s>> \in lapsed /\ v # o
    BY <1>8, <2>5, CloseOffersOne DEF Accept
  <2>6. OfferGoal
    BY <1>a, <2>1, <2>2, <2>5 DEF OfferMove, LapsedMove
  <2>7. QED
    BY <2>4, <2>6
<1>9. ASSUME NEW o \in Orders, NEW r \in Riders, AcceptLate(o, r) \/ Reject(o, r)
      PROVE  Goal
  <2>1. OrderMove(v)
    BY <1>9, LeaveOne DEF AcceptLate, Reject, OrderMove, Statuses
  <2>2. OfferGoal
    BY <1>9, <1>a, SetOfferOne DEF AcceptLate, Reject, Acceptable, OfferMove, LapsedMove
  <2>3. QED
    BY <2>1, <2>2
<1>10. ASSUME NEW o \in Orders, NEW r \in Riders, Lapse(o, r) PROVE Goal
  BY <1>10, <1>a, <1>b DEF Lapse, OfferMove, LapsedMove
<1>11. ASSUME NEW p \in Pollers, SweepExpire(p) PROVE Goal
  BY <1>11, <1>a, <1>b DEF SweepExpire, OfferMove, LapsedMove
<1>12. ASSUME NEW p \in Pollers, NEW o \in Orders, SweepRelease(p, o) PROVE Goal
  <2>1. \/ status'[v] = status[v]
        \/ status[v] = "OFFERED" /\ status'[v] = "SEARCHING" /\ Edge(status[v], status'[v])
    BY <1>12, MoveOne DEF SweepRelease, Statuses
  <2>2. QED
    BY <1>12, <2>1, <1>a DEF SweepRelease, OrderMove, OfferMove, LapsedMove, Statuses
<1>13. ASSUME NEW p \in Pollers, NEW o \in Orders, SweepLost(p, o) PROVE Goal
  BY <1>13, <1>a, <1>b DEF SweepLost, OfferMove, LapsedMove
<1>14. ASSUME NEW r \in Riders, ChangeCondition(r) PROVE Goal
  BY <1>14, <1>a, <1>b DEF ChangeCondition, OfferMove, LapsedMove
<1>15. QED
  BY <1>1, <1>2, <1>3, <1>4, <1>5, <1>6, <1>7, <1>8, <1>9, <1>10, <1>11, <1>12,
     <1>13, <1>14
  DEF Next, Dispatch, OfferToRider, Nearest, Ranked

--------------------------------------------------------------------------------
(***************************************************************************)
(* The invariants.                                                         *)
(***************************************************************************)
DispatchInv ==
    /\ TypeOK /\ LapsedArePending
    /\ CarrierConsistent /\ NoOfferOutlivesAssignment /\ OneAcceptedTrip

LEMMA DispatchInit == Init => DispatchInv
BY TypeInit, NoRiderAssumption
DEF Init, DispatchInv, LapsedArePending, CarrierConsistent,
    NoOfferOutlivesAssignment, Pending, OneAcceptedTrip, PreAssignment

LEMMA CarrierStep == DispatchInv /\ [Next]_vars => CarrierConsistent'
<1> SUFFICES ASSUME DispatchInv, [Next]_vars, NEW o \in Orders
             PROVE  /\ status'[o] \in PreAssignment \cup {"NONE"} => rider'[o] = NoRider
                    /\ status'[o] \notin PreAssignment \cup {"NONE", "CANCELLED"}
                          => rider'[o] # NoRider
                    /\ \A r \in Riders : offer'[o][r] = "ACCEPTED" => rider'[o] = r
  BY DEF CarrierConsistent
<1>1. OrderMove(o) /\ \A r \in Riders : OfferMove(o, r)
  BY StepMoves DEF DispatchInv
<1>2. /\ status[o] \in PreAssignment \cup {"NONE"} => rider[o] = NoRider
      /\ status[o] \notin PreAssignment \cup {"NONE", "CANCELLED"} => rider[o] # NoRider
      /\ \A r \in Riders : offer[o][r] = "ACCEPTED" => rider[o] = r
  BY DEF DispatchInv, CarrierConsistent
<1>3. status'[o] \in PreAssignment \cup {"NONE"} => rider'[o] = NoRider
  BY <1>1, <1>2 DEF OrderMove, Edge, PreAssignment, Statuses
<1>4. status'[o] \notin PreAssignment \cup {"NONE", "CANCELLED"} => rider'[o] # NoRider
  BY <1>1, <1>2, NoRiderAssumption
  DEF OrderMove, Edge, PreAssignment, Statuses, Terminal
<1>5. ASSUME NEW r \in Riders, offer'[o][r] = "ACCEPTED" PROVE rider'[o] = r
  <2>1. CASE offer[o][r] = "ACCEPTED"
    BY <1>1, <1>2, <2>1, NoRiderAssumption DEF OrderMove, PreAssignment
  <2>2. CASE offer[o][r] # "ACCEPTED"
    BY <1>1, <1>5, <2>2 DEF OfferMove
  <2>3. QED
    BY <2>1, <2>2
<1>6. QED
  BY <1>3, <1>4, <1>5

LEMMA OfferlessStep == DispatchInv /\ [Next]_vars => NoOfferOutlivesAssignment'
<1> SUFFICES ASSUME DispatchInv, [Next]_vars, NEW o \in Orders, NEW r \in Riders,
                    rider'[o] # NoRider, offer'[o][r] = "PENDING"
             PROVE  FALSE
  BY DEF NoOfferOutlivesAssignment, Pending
<1>1. OrderMove(o) /\ OfferMove(o, r)
  BY StepMoves DEF DispatchInv
<1>2. rider[o] # NoRider => offer[o][r] # "PENDING"
  BY DEF DispatchInv, NoOfferOutlivesAssignment, Pending
<1>3. status[o] \in {"SEARCHING", "OFFERED"} => rider[o] = NoRider
  BY DEF DispatchInv, CarrierConsistent, PreAssignment
<1>4. QED
  BY <1>1, <1>2, <1>3 DEF OrderMove, OfferMove

\* An order a rider carries on an accepted offer after a step was carried so
\* before, or the step is the acceptance and the rider was free.
LEMMA AcceptedStep == DispatchInv /\ [Next]_vars => OneAcceptedTrip'
<1> DEFINE Carries(r, o) ==
              rider[o] = r /\ offer[o][r] = "ACCEPTED" /\ status[o] \notin Terminal
<1> SUFFICES ASSUME DispatchInv, [Next]_vars, NEW r \in Riders,
                    NEW o1 \in Orders, NEW o2 \in Orders,
                    Carries(r, o1)', Carries(r, o2)', o1 # o2
             PROVE  FALSE
  BY DEF OneAcceptedTrip
<1>1. \A o \in Orders : OrderMove(o) /\ OfferMove(o, r)
  BY StepMoves DEF DispatchInv
<1>2. ASSUME NEW o \in Orders, Carries(r, o)'
      PROVE  \/ Carries(r, o)
             \/ /\ ~HasLiveOrder(r)
                /\ \A v \in Orders : v # o => status'[v] = status[v] /\ rider'[v] = rider[v]
  <2>1. CASE offer[o][r] = "ACCEPTED"
    <3>1. rider[o] = r
      BY <2>1 DEF DispatchInv, CarrierConsistent
    <3>2. status[o] \notin Terminal
      BY <1>1, <1>2 DEF OrderMove, Edge, Terminal
    <3>3. QED
      BY <2>1, <3>1, <3>2
  <2>2. CASE offer[o][r] # "ACCEPTED"
    BY <1>1, <1>2, <2>2 DEF OfferMove
  <2>3. QED
    BY <2>1, <2>2
<1>3. Carries(r, o1) /\ Carries(r, o2) => FALSE
  BY DEF DispatchInv, OneAcceptedTrip
<1>4. QED
  BY <1>2, <1>3 DEF HasLiveOrder

LEMMA DispatchStep == DispatchInv /\ [Next]_vars => DispatchInv'
<1>1. TypeOK /\ LapsedArePending /\ [Next]_vars => LapsedArePending'
  BY StepMoves DEF LapsedArePending, LapsedMove
<1>2. QED
  BY <1>1, TypeStep, CarrierStep, OfferlessStep, AcceptedStep DEF DispatchInv

LEMMA DispatchHolds == Spec => []DispatchInv
BY DispatchInit, DispatchStep, PTL DEF Spec

(***************************************************************************)
(* acceptOffer, assignRider and the status endpoint keep the rider column, *)
(* the status and the accepted offer in step, for every interleaving of    *)
(* accepts, assignments, expiries and cancellations.                       *)
(***************************************************************************)
THEOREM CarrierIsConsistent == Spec => []CarrierConsistent
<1>1. DispatchInv => CarrierConsistent
  BY DEF DispatchInv
<1>2. QED
  BY <1>1, DispatchHolds, PTL

(***************************************************************************)
(* An order that has a rider leaves no offer for anybody else to accept.   *)
(***************************************************************************)
THEOREM AssignmentClosesOffers == Spec => []NoOfferOutlivesAssignment
<1>1. DispatchInv => NoOfferOutlivesAssignment
  BY DEF DispatchInv
<1>2. QED
  BY <1>1, DispatchHolds, PTL

(***************************************************************************)
(* However many offers a rider holds, accepting makes one trip: the test   *)
(* of riderHasLiveOrder is never stale.                                    *)
(***************************************************************************)
THEOREM AcceptingMakesOneTrip == Spec => []OneAcceptedTrip
<1>1. DispatchInv => OneAcceptedTrip
  BY DEF DispatchInv
<1>2. QED
  BY <1>1, DispatchHolds, PTL

(***************************************************************************)
(* A rider's answer is never rewritten.                                    *)
(***************************************************************************)
THEOREM AnswersStay == Spec => AnswersAreFinal
<1>1. DispatchInv /\ [Next]_vars =>
        [\A o \in Orders, r \in Riders :
           offer[o][r] \in {"REJECTED", "ACCEPTED"} => offer'[o][r] = offer[o][r]
        ]_vars
  BY StepMoves DEF DispatchInv, OfferMove
<1>2. QED
  BY <1>1, DispatchHolds, PTL DEF Spec, AnswersAreFinal

--------------------------------------------------------------------------------
(***************************************************************************)
(* No order is forgotten in OFFERED but by the loss of an expiry's second  *)
(* step.                                                                   *)
(***************************************************************************)
Stranded(o) == status[o] = "OFFERED" /\ \A r \in Riders : offer[o][r] # "PENDING"
Swept(o) == \E p \in Pollers : o \in sweep[p]

\* Every step but the loss keeps a stranded order on some list.
LEMMA StrandedStep == TypeOK /\ StrandedIsSwept /\ [Next]_vars => StrandedIsSwept'
<1> SUFFICES ASSUME TypeOK, StrandedIsSwept, [Next]_vars, lost' = 0,
                    NEW v \in Orders, Stranded(v)'
             PROVE  Swept(v)'
  BY DEF StrandedIsSwept, Stranded, Swept, Pending
<1> USE DEF orderVars, offerVars, sweepVars
<1>a. lost = 0 /\ Stranded(v) => Swept(v)
  BY DEF StrandedIsSwept, Stranded, Swept, Pending
<1>b. ASSUME UNCHANGED <<sweep, lost>>, status'[v] = status[v],
             \A r \in Riders : offer'[v][r] = offer[v][r]
      PROVE  Swept(v)'
  BY <1>a, <1>b DEF Stranded, Swept
<1>1. CASE UNCHANGED vars
  BY <1>1, <1>b DEF vars
<1>2. ASSUME NEW o \in Orders,
             Create(o) \/ Confirm(o) \/ \E to \in Statuses : Transition(o, to)
      PROVE  Swept(v)'
  <2>1. CASE v = o
    BY <1>2, <2>1 DEF Create, Confirm, Transition, Move, TypeOK, Stranded
  <2>2. CASE v # o
    BY <1>2, <1>b, <2>2 DEF Create, Confirm, Transition, Move, TypeOK
  <2>3. QED
    BY <2>1, <2>2
<1>3. ASSUME NEW o \in Orders, Cancel(o) \/ \E r \in Riders : Assign(o, r)
      PROVE  Swept(v)'
  <2>1. CASE v = o
    BY <1>3, <2>1 DEF Cancel, Assign, Move, TypeOK, Stranded
  <2>2. CASE v # o
    BY <1>3, <1>b, <2>2 DEF Cancel, Assign, Move, TypeOK, ExpireAllPending
  <2>3. QED
    BY <2>1, <2>2
<1>4. ASSUME NEW o \in Orders, NEW r \in Riders, NEW actor, InsertOffer(o, r, actor),
             UNCHANGED sweepVars
      PROVE  Swept(v)'
  <2>1. CASE v = o
    BY <1>4, <2>1 DEF InsertOffer, SetOffer, TypeOK, Stranded
  <2>2. CASE v # o
    BY <1>4, <1>b, <2>2 DEF InsertOffer, SetOffer, Move, TypeOK
  <2>3. QED
    BY <2>1, <2>2
<1>5. ASSUME NEW o \in Orders, NEW r \in Riders, Accept(o, r) PROVE Swept(v)'
  <2>1. CASE v = o
    BY <1>5, <2>1 DEF Accept, Move, TypeOK, Stranded
  <2>2. CASE v # o
    BY <1>5, <1>b, <2>2 DEF Accept, CloseOffers, Move, TypeOK
  <2>3. QED
    BY <2>1, <2>2
<1>6. ASSUME NEW o \in Orders, NEW r \in Riders, AcceptLate(o, r) \/ Reject(o, r)
      PROVE  Swept(v)'
  <2>1. PICK actor, key : LeaveOfferedUnlessPending(o, actor, key)
    BY <1>6 DEF AcceptLate, Reject
  <2>2. CASE v = o
    <3>1. CASE status[o] = "OFFERED"
      BY <2>1, <2>2, <3>1
      DEF LeaveOfferedUnlessPending, Move, TypeOK, Stranded, Pending
    <3>2. CASE status[o] # "OFFERED"
      BY <2>1, <2>2, <3>2 DEF LeaveOfferedUnlessPending, Stranded
    <3>3. QED
      BY <3>1, <3>2
  <2>3. CASE v # o
    <3>1. status'[v] = status[v]
      BY <2>1, <2>3 DEF LeaveOfferedUnlessPending, Move, TypeOK
    <3>2. QED
      BY <1>6, <1>b, <2>3, <3>1 DEF AcceptLate, Reject, SetOffer, TypeOK
  <2>4. QED
    BY <2>2, <2>3
<1>7. ASSUME NEW p \in Pollers, SweepExpire(p) PROVE Swept(v)'
  <2>1. CASE \E r \in Riders : <<v, r>> \in lapsed
    BY <1>7, <2>1 DEF SweepExpire, TypeOK, Swept
  <2>2. CASE ~\E r \in Riders : <<v, r>> \in lapsed
    <3>1. Stranded(v) /\ lost = 0
      BY <1>7, <2>2 DEF SweepExpire, Stranded
    <3>2. PICK q \in Pollers : v \in sweep[q]
      BY <1>a, <3>1 DEF Swept
    <3>3. sweep'[q] = sweep[q]
      BY <1>7, <3>2 DEF SweepExpire, TypeOK
    <3>4. QED
      BY <3>2, <3>3 DEF Swept
  <2>3. QED
    BY <2>1, <2>2
<1>8. ASSUME NEW p \in Pollers, NEW o \in Orders, SweepRelease(p, o)
      PROVE  Swept(v)'
  <2>1. CASE v = o
    BY <1>8, <2>1 DEF SweepRelease, Move, TypeOK, Stranded, Pending
  <2>2. CASE v # o
    <3>1. Stranded(v) /\ lost = 0
      BY <1>8, <2>2 DEF SweepRelease, Move, TypeOK, Stranded
    <3>2. \A q \in Pollers : v \in sweep[q] => v \in sweep'[q]
      BY <1>8, <2>2 DEF SweepRelease, TypeOK
    <3>3. QED
      BY <1>a, <3>1, <3>2 DEF Swept
  <2>3. QED
    BY <2>1, <2>2
<1>9. ASSUME NEW p \in Pollers, NEW o \in Orders, SweepLost(p, o) PROVE FALSE
  BY <1>9 DEF SweepLost, TypeOK
<1>10. ASSUME NEW o \in Orders, NEW r \in Riders, Lapse(o, r) PROVE Swept(v)'
  BY <1>10, <1>b DEF Lapse
<1>11. ASSUME NEW r \in Riders, ChangeCondition(r) PROVE Swept(v)'
  BY <1>11, <1>b DEF ChangeCondition
<1>12. QED
  BY <1>1, <1>2, <1>3, <1>4, <1>5, <1>6, <1>7, <1>8, <1>9, <1>10, <1>11
  DEF Next, Dispatch, OfferToRider, Nearest, Ranked

(***************************************************************************)
(* rejectOffer, the late acceptOffer and releaseExpiredOffers never leave  *)
(* an order OFFERED without an offer and without a poll that will move it  *)
(* back to searching, unless the second step of an expiry was lost.        *)
(***************************************************************************)
THEOREM StrandedOrdersAreSwept == Spec => []StrandedIsSwept
<1>1. Init => StrandedIsSwept
  BY DEF Init, StrandedIsSwept
<1>2. (TypeOK /\ StrandedIsSwept) /\ [Next]_vars => (TypeOK /\ StrandedIsSwept)'
  BY TypeStep, StrandedStep
<1>3. QED
  BY <1>1, <1>2, TypeInit, PTL DEF Spec

--------------------------------------------------------------------------------
(***************************************************************************)
(* OrderDispatch implements OrderPromise.                                  *)
(***************************************************************************)
OnlyOrder(o) ==
    \A v \in Orders : v # o => status'[v] = status[v] /\ rider'[v] = rider[v]

\* A transaction changes the status or the rider of one order at most.
LEMMA OneOrderMoves ==
    ASSUME TypeOK, [Next]_vars
    PROVE  UNCHANGED <<status, rider>> \/ \E o \in Orders : OnlyOrder(o)
<1> USE DEF orderVars, offerVars, sweepVars, OnlyOrder
<1>a. ASSUME NEW o \in Orders, NEW to, NEW actor, NEW key, Move(o, to, actor, key)
      PROVE  \A v \in Orders : v # o => status'[v] = status[v]
  BY <1>a DEF Move, TypeOK
<1>1. ASSUME NEW o \in Orders,
             Create(o) \/ Confirm(o) \/ Cancel(o) \/ \E to \in Statuses : Transition(o, to)
      PROVE  OnlyOrder(o)
  BY <1>1, <1>a DEF Create, Confirm, Cancel, Transition, TypeOK
<1>2. ASSUME NEW o \in Orders, NEW r \in Riders, NEW actor, InsertOffer(o, r, actor),
             UNCHANGED rider
      PROVE  OnlyOrder(o)
  BY <1>2, <1>a DEF InsertOffer
<1>3. ASSUME NEW o \in Orders, NEW r \in Riders, Assign(o, r) \/ Accept(o, r)
      PROVE  OnlyOrder(o)
  BY <1>3, <1>a DEF Assign, Accept, TypeOK
<1>4. ASSUME NEW o \in Orders, NEW r \in Riders, AcceptLate(o, r) \/ Reject(o, r)
      PROVE  OnlyOrder(o)
  BY <1>4, <1>a DEF AcceptLate, Reject, LeaveOfferedUnlessPending
<1>5. ASSUME NEW p \in Pollers, NEW o \in Orders, SweepRelease(p, o)
      PROVE  OnlyOrder(o)
  BY <1>5, <1>a DEF SweepRelease
<1>6. QED
  BY <1>1, <1>2, <1>3, <1>4, <1>5
  DEF Next, vars, Dispatch, OfferToRider, Nearest, Ranked, Lapse, SweepExpire,
      SweepLost, ChangeCondition

\* Seen as a phase, what OrderMove does is one action of the promise.
LEMMA PhaseMove ==
    ASSUME DispatchInv, [Next]_vars, NEW o \in Orders
    PROVE  \/ Phase(o)' = Phase(o) /\ rider'[o] = rider[o]
           \/ Phase(o) = "none" /\ Phase(o)' = "draft" /\ rider'[o] = rider[o]
           \/ Phase(o) = "draft" /\ Phase(o)' = "open" /\ rider'[o] = rider[o]
           \/ /\ Phase(o) = "open" /\ Phase(o)' = "carried"
              /\ rider[o] = NoRider /\ rider'[o] \in Riders
           \/ Phase(o) = "carried" /\ Phase(o)' = "done" /\ rider'[o] = rider[o]
           \/ /\ Phase(o) \in {"draft", "open", "carried"}
              /\ Phase(o)' = "cancelled" /\ rider'[o] = rider[o]
<1>1. OrderMove(o)
  BY StepMoves DEF DispatchInv
<1>2. status[o] \in {"SEARCHING", "OFFERED"} => rider[o] = NoRider
  BY DEF DispatchInv, CarrierConsistent, PreAssignment
<1>3. status[o] \in Statuses \cup {"NONE"}
  BY DEF DispatchInv, TypeOK
<1>4. QED
  BY <1>1, <1>2, <1>3 DEF OrderMove, Edge, Phase, Statuses, Terminal, PreAssignment

(***************************************************************************)
(* Offers, expiry and dispatch keep the promise made to the parties of a   *)
(* delivery: one rider takes an open order and keeps it, and nothing       *)
(* happens to it once it is done or cancelled.                             *)
(***************************************************************************)
THEOREM DispatchKeepsPromise == Spec => ImplementsPromise
<1> DEFINE phases == [o \in Orders |-> Phase(o)]
<1>1. Init => Promise!Init
  BY DEF Init, Promise!Init, Phase
<1>2. DispatchInv /\ [Next]_vars => [Promise!Next]_(Promise!promiseVars)
  <2> SUFFICES ASSUME DispatchInv, [Next]_vars
               PROVE  Promise!Next \/ UNCHANGED <<phases, rider>>
    BY DEF Promise!promiseVars
  <2>1. CASE UNCHANGED <<status, rider>>
    BY <2>1 DEF Phase
  <2>2. ASSUME NEW o \in Orders, OnlyOrder(o)
        PROVE  Promise!Next \/ UNCHANGED <<phases, rider>>
    <3>1. phases' = [phases EXCEPT ![o] = Phase(o)']
      BY <2>2 DEF OnlyOrder, Phase
    <3>2. rider' = [rider EXCEPT ![o] = rider'[o]]
      <4>1. rider \in [Orders -> Riders \cup {NoRider}]
            /\ rider' \in [Orders -> Riders \cup {NoRider}]
        BY TypeStep DEF DispatchInv, TypeOK
      <4>2. QED
        BY <2>2, <4>1 DEF OnlyOrder
    <3>3. phases[o] = Phase(o)
      OBVIOUS
    <3>4. rider'[o] = rider[o] => UNCHANGED rider
      BY <3>2 DEF DispatchInv, TypeOK
    <3>5. CASE Phase(o)' = Phase(o) /\ rider'[o] = rider[o]
      BY <3>1, <3>3, <3>4, <3>5
    <3>6. CASE ~(Phase(o)' = Phase(o) /\ rider'[o] = rider[o])
      BY <3>1, <3>2, <3>3, <3>4, <3>6, PhaseMove
      DEF Promise!Next, Promise!Draft, Promise!Open, Promise!Take,
          Promise!Finish, Promise!Cancel, Promise!Advance
    <3>7. QED
      BY <3>5, <3>6
  <2>3. QED
    BY <2>1, <2>2, OneOrderMoves DEF DispatchInv
<1>3. QED
  BY <1>1, <1>2, DispatchHolds, PTL DEF Spec, ImplementsPromise, Promise!Spec

================================================================================
