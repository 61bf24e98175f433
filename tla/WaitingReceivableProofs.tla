------------------------ MODULE WaitingReceivableProofs ------------------------
(***************************************************************************)
(* Theorems about WaitingReceivable, for any orders of a customer, any     *)
(* number of requests and settlers, and any number of crashes.             *)
(***************************************************************************)
EXTENDS WaitingReceivable, TLAPS

\* A settler that is not idle works on a session.
SettlersHaveWork == \A p \in Settlers : settler[p].at # "idle" => settler[p].s \in Requests

TypeInv == TypeOK /\ SettlersHaveWork

\* The wallet lock: one settler at a time has read what is owed and not yet
\* inserted its credit, and what it read about credits is still true.
OneAtInsert == \A p, q \in Settlers : HoldsWallet(p) /\ HoldsWallet(q) => p = q

InsertIsUncredited == \A p \in Settlers : HoldsWallet(p) => credits[Of[settler[p].s]] = {}

\* The order lock: one request at a time holds an order, and while it does the
\* order owes what the request read.
OneHolder ==
    \A r, q \in Requests : HoldsOrder(r) /\ HoldsOrder(q) /\ Of[r] = Of[q] => r = q

HeldIsOwed == \A r \in Requests : HoldsOrder(r) => Owed(Of[r])

LockInv == OneAtInsert /\ InsertIsUncredited /\ OneHolder /\ HeldIsOwed

\* A request that asks Cashfree found no session to reuse, and no other
\* request opened one since.
NothingPendingWhileOpening ==
    \A r \in Requests : request[r] = "opening" => Pending(Of[r]) = {}

SessionInv == PendingIsUsable /\ NothingPendingWhileOpening /\ OnePending

\* There is nothing of a session before its request is answered.
Unanswered ==
    \A r \in Requests : request[r] # "answered" => charge[r] = "NONE" /\ session[r] = "NONE"

\* A settler that takes a session for paid knows it from Cashfree.
SettlersKnow ==
    \A p \in Settlers :
        /\ settler[p].remote = "PAID" =>
             settler[p].at # "idle" /\ session[settler[p].s] = "PAID"
        /\ settler[p].at \in {"wallet", "insert"} =>
             settler[p].remote = "PAID" /\ charge[settler[p].s] # "NONE"

LedgerInv == Unanswered /\ SettlersKnow /\ LedgerAgrees

\* The invoice is issued by the delivery.
InvoiceAfterDelivery == \A o \in Orders : invoice[o] # "NONE" => phase[o] = "DELIVERED"

InvoiceInv == InvoiceAfterDelivery /\ InvoiceShowsClearance

--------------------------------------------------------------------------------
(***************************************************************************)
(* Types.                                                                  *)
(***************************************************************************)

LEMMA IdleIsSettlerState == Idle \in SettlerStates
BY NoSessionAssumption DEF Idle, SettlerStates, SessionStates

\* The ways a step changes a settler or a request.
LEMMA BecomeFrame ==
    ASSUME TypeInv, NEW p \in Settlers, NEW s \in Requests,
           NEW at \in {"verify", "wallet", "insert"}, NEW remote \in SessionStates,
           Become(p, at, s, remote)
    PROVE  /\ settler' \in [Settlers -> SettlerStates]
           /\ settler'[p].at = at /\ settler'[p].s = s /\ settler'[p].remote = remote
           /\ \A q \in Settlers : q # p => settler'[q] = settler[q]
BY DEF TypeInv, TypeOK, Become, SettlerStates

LEMMA RestFrame ==
    ASSUME TypeInv, NEW p \in Settlers, Rest(p)
    PROVE  /\ settler' \in [Settlers -> SettlerStates]
           /\ settler'[p].at = "idle" /\ settler'[p].remote = "NONE"
           /\ \A q \in Settlers : q # p => settler'[q] = settler[q]
BY IdleIsSettlerState DEF TypeInv, TypeOK, Rest, Idle

LEMMA GoToFrame ==
    ASSUME TypeInv, NEW r \in Requests,
           NEW step \in {"new", "locked", "opening", "answered"}, GoTo(r, step)
    PROVE  /\ request' \in [Requests -> {"new", "locked", "opening", "answered"}]
           /\ request'[r] = step
           /\ \A q \in Requests : q # r => request'[q] = request[q]
BY DEF TypeInv, TypeOK, GoTo

LEMMA TypeInit == Init => TypeInv
BY IdleIsSettlerState, BoundAssumption
DEF Init, TypeInv, TypeOK, SettlersHaveWork, SessionStates, Idle

LEMMA TypeStep == TypeInv /\ [Next]_vars => TypeInv'
<1> SUFFICES ASSUME TypeInv, [Next]_vars PROVE TypeInv'
  OBVIOUS
<1> USE OfAssumption, BoundAssumption
        DEF TypeInv, orderVars, chargeVars, cashfreeVars, boundVars
<1>1. CASE UNCHANGED vars
  BY <1>1 DEF vars, TypeOK, SettlersHaveWork
<1>2. ASSUME NEW o \in Orders, PickUp(o) \/ Deliver(o) \/ Cancel(o) PROVE TypeInv'
  <2>1. SettlersHaveWork'
    BY <1>2 DEF SettlersHaveWork, PickUp, Deliver, Cancel
  <2>2. TypeOK'
    BY <1>2 DEF TypeOK, PickUp, Deliver, Cancel
  <2>3. QED BY <2>1, <2>2
<1>3. ASSUME NEW r \in Requests,
             Begin(r) \/ Reuse(r) \/ AskCashfree(r) \/ Open(r) \/ GiveUp(r) \/ AbortRequest(r)
      PROVE  TypeInv'
  <2>1. SettlersHaveWork'
    BY <1>3 DEF SettlersHaveWork, Begin, Reuse, AskCashfree, Open, GiveUp, AbortRequest
  <2>2. CASE Begin(r)
    BY <2>1, <2>2, GoToFrame DEF TypeOK, Begin
  <2>3. CASE Reuse(r)
    BY <2>1, <2>3, GoToFrame DEF TypeOK, Reuse
  <2>4. CASE AskCashfree(r) \/ GiveUp(r) \/ AbortRequest(r)
    BY <2>1, <2>4, GoToFrame DEF TypeOK, AskCashfree, GiveUp, AbortRequest
  <2>5. CASE Open(r)
    BY <2>1, <2>5, GoToFrame DEF TypeOK, Open, SessionStates
  <2>6. QED BY <1>3, <2>2, <2>3, <2>4, <2>5
<1>4. ASSUME NEW s \in Requests, WebhookFailed(s) \/ Refuse(s) PROVE TypeInv'
  <2>1. SettlersHaveWork'
    BY <1>4 DEF SettlersHaveWork, WebhookFailed, Refuse
  <2>2. CASE WebhookFailed(s)
    BY <2>1, <2>2 DEF TypeOK, WebhookFailed
  <2>3. CASE Refuse(s)
    BY <2>1, <2>3 DEF TypeOK, Refuse
  <2>4. QED BY <1>4, <2>2, <2>3
<1>5. ASSUME NEW s \in Requests, NEW how \in {"PAID", "EXPIRED"}, Finish(s, how)
      PROVE  TypeInv'
  BY <1>5 DEF TypeOK, SettlersHaveWork, Finish, SessionStates
<1>6. ASSUME NEW p \in Settlers, NEW s \in Requests,
             WebhookPaid(p, s) \/ Retrieve(p, s) \/ CheckOwed(p, s)
      PROVE  TypeInv'
  <2>1. session[s] \in SessionStates /\ "PAID" \in SessionStates
    BY DEF TypeOK, SessionStates
  <2>2. /\ Become(p, "wallet", s, "PAID") => settler' \in [Settlers -> SettlerStates]
        /\ Become(p, "insert", s, "PAID") => settler' \in [Settlers -> SettlerStates]
        /\ Become(p, "verify", s, session[s]) => settler' \in [Settlers -> SettlerStates]
    BY <2>1, BecomeFrame
  <2>3. /\ Become(p, "wallet", s, "PAID") => SettlersHaveWork'
        /\ Become(p, "insert", s, "PAID") => SettlersHaveWork'
        /\ Become(p, "verify", s, session[s]) => SettlersHaveWork'
    BY DEF TypeOK, SettlersHaveWork, Become
  <2>4. Rest(p) => settler' \in [Settlers -> SettlerStates] /\ SettlersHaveWork'
    BY RestFrame DEF SettlersHaveWork
  <2>5. settler' \in [Settlers -> SettlerStates] /\ SettlersHaveWork'
    BY <1>6, <2>2, <2>3, <2>4 DEF WebhookPaid, Retrieve, CheckOwed
  <2>6. QED
    BY <1>6, <2>5 DEF TypeOK, WebhookPaid, Retrieve, CheckOwed
<1>7. ASSUME NEW p \in Settlers, NEW s \in Requests, VerifyUnpaid(p, s) PROVE TypeInv'
  <2>1. settler[p].remote \in {"NONE", "ACTIVE", "EXPIRED"}
    BY <1>7 DEF TypeOK, SettlerStates, SessionStates, VerifyUnpaid
  <2>2. QED
    BY <1>7, <2>1, RestFrame DEF TypeOK, SettlersHaveWork, VerifyUnpaid
<1>8. ASSUME NEW p \in Settlers, NEW s \in Requests, VerifyPaid(p, s) PROVE TypeInv'
  <2>1. "PAID" \in SessionStates
    BY DEF SessionStates
  <2>2. CASE Payable(s)
    <3>1. Become(p, "wallet", s, "PAID")
      BY <1>8, <2>2 DEF VerifyPaid
    <3>2. settler' \in [Settlers -> SettlerStates]
      BY <2>1, <3>1, BecomeFrame
    <3>3. SettlersHaveWork'
      BY <3>1 DEF TypeOK, SettlersHaveWork, Become
    <3>4. QED BY <1>8, <2>2, <3>2, <3>3 DEF TypeOK, VerifyPaid
  <2>3. CASE ~Payable(s)
    BY <1>8, <2>3, RestFrame DEF TypeOK, SettlersHaveWork, VerifyPaid
  <2>4. QED BY <2>2, <2>3
<1>9. ASSUME NEW p \in Settlers, NEW s \in Requests, Commit(p, s) PROVE TypeInv'
  BY <1>9, RestFrame DEF TypeOK, SettlersHaveWork, Commit
<1>10. ASSUME NEW p \in Settlers, Crash(p) \/ AbortSettler(p) PROVE TypeInv'
  BY <1>10, RestFrame DEF TypeOK, SettlersHaveWork, Crash, AbortSettler
<1>11. QED
  BY <1>1, <1>2, <1>3, <1>4, <1>5, <1>6, <1>7, <1>8, <1>9, <1>10 DEF Next

LEMMA TypeHolds == Spec => []TypeInv
BY TypeInit, TypeStep, PTL DEF Spec

\* TypeOK is an invariant: a cancelled assessment, for one, never gets a status
\* that order_waiting_charges does not know.
THEOREM TypeCorrect == Spec => []TypeOK
BY TypeHolds, PTL DEF TypeInv

--------------------------------------------------------------------------------
(***************************************************************************)
(* The locks.                                                              *)
(***************************************************************************)

\* A settler that comes no nearer than the wallet disturbs no lock.
LEMMA SettlerStaysOut ==
    ASSUME LockInv, NEW p \in Settlers, settler'[p].at # "insert",
           \A q \in Settlers : q # p => settler'[q] = settler[q],
           UNCHANGED <<orderVars, credits, request>>
    PROVE  LockInv'
<1> USE DEF LockInv, orderVars
<1>1. OneAtInsert'
  BY DEF OneAtInsert, HoldsWallet
<1>2. InsertIsUncredited'
  BY DEF InsertIsUncredited, HoldsWallet
<1>3. OneHolder' /\ HeldIsOwed'
  BY DEF OneHolder, HeldIsOwed, HoldsOrder, Owed
<1>4. QED BY <1>1, <1>2, <1>3

\* A request moves on the order it holds, or takes one that nobody holds and
\* that owes.
LEMMA RequestMoves ==
    ASSUME LockInv, NEW r \in Requests,
           \A q \in Requests : q # r => request'[q] = request[q],
           HoldsOrder(r)' => HoldsOrder(r) \/ (~OrderHeld(Of[r]) /\ Owed(Of[r])),
           UNCHANGED <<orderVars, credits, settler>>
    PROVE  LockInv'
<1> USE DEF LockInv, orderVars
<1>1. \A q \in Requests : q # r => (HoldsOrder(q)' <=> HoldsOrder(q))
  BY DEF HoldsOrder
<1>2. OneAtInsert' /\ InsertIsUncredited'
  BY DEF OneAtInsert, InsertIsUncredited, HoldsWallet
<1>3. OneHolder'
  <2> SUFFICES ASSUME NEW q \in Requests, NEW u \in Requests, q # u,
                      HoldsOrder(q)', HoldsOrder(u)', Of[q] = Of[u]
               PROVE  FALSE
    BY DEF OneHolder
  <2>1. CASE q # r /\ u # r
    BY <1>1, <2>1 DEF OneHolder
  <2>2. CASE q = r
    BY <1>1, <2>2 DEF OneHolder, OrderHeld
  <2>3. CASE u = r
    BY <1>1, <2>3 DEF OneHolder, OrderHeld
  <2>4. QED BY <2>1, <2>2, <2>3
<1>4. HeldIsOwed'
  BY <1>1 DEF HeldIsOwed, Owed
<1>5. QED BY <1>2, <1>3, <1>4

LEMMA LockStep == TypeInv /\ LockInv /\ [Next]_vars => LockInv'
<1> SUFFICES ASSUME TypeInv, LockInv, [Next]_vars PROVE LockInv'
  OBVIOUS
<1> USE OfAssumption DEF orderVars, chargeVars, cashfreeVars, boundVars
<1>1. CASE UNCHANGED vars
  BY <1>1 DEF vars, LockInv, OneAtInsert, InsertIsUncredited, OneHolder, HeldIsOwed,
              HoldsWallet, HoldsOrder, Owed
<1>2. ASSUME NEW o \in Orders, PickUp(o) \/ Deliver(o) \/ Cancel(o) PROVE LockInv'
  <2>1. UNCHANGED <<credits, settler, request>> /\ ~OrderHeld(o)
    BY <1>2 DEF PickUp, Deliver, Cancel
  <2>2. OneAtInsert' /\ InsertIsUncredited' /\ OneHolder'
    BY <2>1 DEF LockInv, OneAtInsert, InsertIsUncredited, OneHolder, HoldsWallet, HoldsOrder
  <2>3. \A q \in Orders : q # o => charged'[q] = charged[q] /\ waiting'[q] = waiting[q]
    BY <1>2 DEF TypeInv, TypeOK, PickUp, Deliver, Cancel
  <2>4. ASSUME NEW r \in Requests, HoldsOrder(r)' PROVE Owed(Of[r])'
    <3>1. HoldsOrder(r) /\ Of[r] \in Orders /\ Of[r] # o
      BY <2>1, <2>4 DEF HoldsOrder, OrderHeld
    <3>2. Owed(Of[r])
      BY <3>1 DEF LockInv, HeldIsOwed
    <3>3. QED
      BY <2>1, <2>3, <3>1, <3>2 DEF Owed
  <2>5. QED BY <2>2, <2>4 DEF LockInv, HeldIsOwed
<1>3. ASSUME NEW r \in Requests,
             Begin(r) \/ Reuse(r) \/ AskCashfree(r) \/ Open(r) \/ GiveUp(r) \/ AbortRequest(r)
      PROVE  LockInv'
  <2>1. UNCHANGED <<orderVars, credits, settler>>
    BY <1>3 DEF Begin, Reuse, AskCashfree, Open, GiveUp, AbortRequest
  <2>2. \A q \in Requests : q # r => request'[q] = request[q]
    BY <1>3 DEF TypeInv, TypeOK, GoTo, Begin, Reuse, AskCashfree, Open, GiveUp, AbortRequest
  <2>3. CASE Begin(r)
    BY <2>1, <2>2, <2>3, RequestMoves DEF Begin
  <2>4. CASE Reuse(r) \/ Open(r) \/ GiveUp(r) \/ AbortRequest(r)
    <3>1. ~HoldsOrder(r)'
      BY <2>4 DEF TypeInv, TypeOK, HoldsOrder, GoTo, Reuse, Open, GiveUp, AbortRequest
    <3>2. QED BY <2>1, <2>2, <3>1, RequestMoves
  <2>5. CASE AskCashfree(r)
    <3>1. HoldsOrder(r)
      BY <2>5 DEF HoldsOrder, AskCashfree
    <3>2. QED BY <2>1, <2>2, <3>1, RequestMoves
  <2>6. QED BY <1>3, <2>3, <2>4, <2>5
<1>4. ASSUME NEW s \in Requests, WebhookFailed(s) \/ Refuse(s) PROVE LockInv'
  <2>1. UNCHANGED <<orderVars, credits, settler, request>>
    BY <1>4 DEF WebhookFailed, Refuse
  <2>2. QED
    BY <2>1 DEF LockInv, OneAtInsert, InsertIsUncredited, OneHolder, HeldIsOwed,
                HoldsWallet, HoldsOrder, Owed
<1>5. ASSUME NEW s \in Requests, NEW how \in {"PAID", "EXPIRED"}, Finish(s, how)
      PROVE  LockInv'
  BY <1>5 DEF Finish, LockInv, OneAtInsert, InsertIsUncredited, OneHolder, HeldIsOwed,
              HoldsWallet, HoldsOrder, Owed
<1>6. ASSUME NEW p \in Settlers, NEW s \in Requests,
             \/ WebhookPaid(p, s) \/ Retrieve(p, s)
             \/ VerifyUnpaid(p, s) \/ VerifyPaid(p, s)
      PROVE  LockInv'
  <2>1. UNCHANGED <<orderVars, credits, request>>
    BY <1>6 DEF WebhookPaid, Retrieve, VerifyUnpaid, VerifyPaid
  <2>2. /\ settler'[p].at # "insert"
        /\ \A q \in Settlers : q # p => settler'[q] = settler[q]
    BY <1>6 DEF TypeInv, TypeOK, Become, Rest, Idle, WebhookPaid, Retrieve, VerifyUnpaid,
                VerifyPaid
  <2>3. QED BY <2>1, <2>2, SettlerStaysOut
<1>7. ASSUME NEW p \in Settlers, NEW s \in Requests, CheckOwed(p, s) PROVE LockInv'
  <2>1. UNCHANGED <<orderVars, credits, request>>
    BY <1>7 DEF CheckOwed
  <2>2. CASE ~Owed(Of[s])
    <3>1. /\ settler'[p].at # "insert"
          /\ \A q \in Settlers : q # p => settler'[q] = settler[q]
      BY <1>7, <2>2 DEF TypeInv, TypeOK, Rest, Idle, CheckOwed
    <3>2. QED BY <2>1, <3>1, SettlerStaysOut
  <2>3. CASE Owed(Of[s])
    <3>1. /\ settler'[p].s = s
          /\ \A q \in Settlers : q # p => settler'[q] = settler[q]
      BY <1>7, <2>3 DEF TypeInv, TypeOK, Become, CheckOwed
    <3>2. \A q \in Settlers : ~HoldsWallet(q)
      BY <1>7 DEF CheckOwed, WalletHeld
    <3>3. OneAtInsert'
      BY <3>1, <3>2 DEF OneAtInsert, HoldsWallet
    <3>4. InsertIsUncredited'
      BY <2>1, <2>3, <3>1, <3>2 DEF InsertIsUncredited, HoldsWallet, Owed
    <3>5. OneHolder' /\ HeldIsOwed'
      BY <2>1 DEF LockInv, OneHolder, HeldIsOwed, HoldsOrder, Owed
    <3>6. QED BY <3>3, <3>4, <3>5 DEF LockInv
  <2>4. QED BY <2>2, <2>3
<1>8. ASSUME NEW p \in Settlers, NEW s \in Requests, Commit(p, s) PROVE LockInv'
  <2>1. /\ settler'[p].at = "idle"
        /\ \A q \in Settlers : q # p => settler'[q] = settler[q]
    BY <1>8 DEF TypeInv, TypeOK, Rest, Idle, Commit
  <2>2. \A q \in Settlers : ~HoldsWallet(q)'
    BY <1>8, <2>1 DEF LockInv, OneAtInsert, HoldsWallet, Commit
  <2>3. OneAtInsert' /\ InsertIsUncredited'
    BY <2>2 DEF OneAtInsert, InsertIsUncredited
  <2>4. OneHolder'
    BY <1>8 DEF LockInv, OneHolder, HoldsOrder, Commit
  <2>5. ASSUME NEW r \in Requests, HoldsOrder(r)' PROVE Owed(Of[r])'
    <3>1. HoldsOrder(r) /\ Of[r] # Of[s]
      BY <1>8, <2>5 DEF HoldsOrder, OrderHeld, Commit
    <3>2. credits'[Of[r]] = credits[Of[r]]
      BY <1>8, <3>1 DEF TypeInv, TypeOK, Commit
    <3>3. QED
      BY <1>8, <3>1, <3>2 DEF LockInv, HeldIsOwed, Owed, Commit
  <2>6. QED BY <2>3, <2>4, <2>5 DEF LockInv, HeldIsOwed
<1>9. ASSUME NEW p \in Settlers, Crash(p) \/ AbortSettler(p) PROVE LockInv'
  <2>1. UNCHANGED <<orderVars, credits, request>>
    BY <1>9 DEF Crash, AbortSettler
  <2>2. /\ settler'[p].at # "insert"
        /\ \A q \in Settlers : q # p => settler'[q] = settler[q]
    BY <1>9 DEF TypeInv, TypeOK, Rest, Idle, Crash, AbortSettler
  <2>3. QED BY <2>1, <2>2, SettlerStaysOut
<1>10. QED
  BY <1>1, <1>2, <1>3, <1>4, <1>5, <1>6, <1>7, <1>8, <1>9 DEF Next

LEMMA LockInit == Init => LockInv
BY DEF Init, LockInv, OneAtInsert, InsertIsUncredited, OneHolder, HeldIsOwed,
       HoldsWallet, HoldsOrder, Idle

LEMMA LocksHold == Spec => [](TypeInv /\ LockInv)
BY TypeInit, TypeStep, LockInit, LockStep, PTL DEF Spec

\* A session is opened only while its order owes the charge: what
\* beginReceivableClearance read under the order lock is true when it commits,
\* because neither a credit nor a transition passes that lock.
THEOREM OpenedForDebt == Spec => SessionsAreForDebt
<1> DEFINE ForDebt ==
      \A s \in Requests : session[s] = "NONE" /\ session'[s] = "ACTIVE" => Owed(Of[s])
<1>1. TypeInv /\ LockInv /\ [Next]_vars => [ForDebt]_vars
  <2> SUFFICES ASSUME TypeInv, LockInv, Next, NEW s \in Requests,
                      session[s] = "NONE", session'[s] = "ACTIVE"
               PROVE  Owed(Of[s])
    OBVIOUS
  <2> USE DEF orderVars, chargeVars, cashfreeVars, boundVars
  <2>1. \E r \in Requests : Open(r) /\ session' = [session EXCEPT ![r] = "ACTIVE"]
    BY DEF Next, PickUp, Deliver, Cancel, Begin, Reuse, AskCashfree, Open, GiveUp,
           AbortRequest, WebhookPaid, Retrieve, VerifyUnpaid, VerifyPaid, CheckOwed,
           Commit, Crash, AbortSettler, WebhookFailed, Refuse, Finish, TypeInv, TypeOK
  <2>2. Open(s)
    BY <2>1 DEF TypeInv, TypeOK
  <2>3. QED
    BY <2>2 DEF LockInv, HeldIsOwed, HoldsOrder, Open
<1>2. QED
  BY <1>1, LocksHold, PTL DEF Spec, SessionsAreForDebt

--------------------------------------------------------------------------------
(***************************************************************************)
(* At most one credit, and at most one pending session.                    *)
(***************************************************************************)

\* Only a settler's insert adds a credit.
LEMMA CreditsStay ==
    ASSUME [Next]_vars,
           \A p \in Settlers, s \in Requests : ~Commit(p, s)
    PROVE  credits' = credits
BY DEF Next, vars, PickUp, Deliver, Cancel, Begin, Reuse, AskCashfree, Open, GiveUp,
       AbortRequest, WebhookPaid, Retrieve, VerifyUnpaid, VerifyPaid, CheckOwed, Crash,
       AbortSettler, WebhookFailed, Refuse, Finish

LEMMA ClearedStep ==
    TypeInv /\ LockInv /\ ClearedAtMostOnce /\ [Next]_vars => ClearedAtMostOnce'
<1> SUFFICES ASSUME TypeInv, LockInv, ClearedAtMostOnce, [Next]_vars
             PROVE  ClearedAtMostOnce'
  OBVIOUS
<1>1. ASSUME NEW p \in Settlers, NEW s \in Requests, Commit(p, s)
      PROVE  ClearedAtMostOnce'
  <2>1. credits[Of[s]] = {}
    BY <1>1 DEF LockInv, InsertIsUncredited, HoldsWallet, Commit
  <2>2. \A o \in Orders : credits'[o] = IF o = Of[s] THEN {s} ELSE credits[o]
    BY <1>1, <2>1 DEF TypeInv, TypeOK, Commit
  <2>3. QED
    BY <2>2 DEF ClearedAtMostOnce
<1>2. CASE \A p \in Settlers, s \in Requests : ~Commit(p, s)
  BY <1>2, CreditsStay DEF ClearedAtMostOnce
<1>3. QED BY <1>1, <1>2

LEMMA ClearedInit == Init => ClearedAtMostOnce
BY DEF Init, ClearedAtMostOnce

\* The credit for a charge never exceeds it: of all the sessions opened for an
\* order, however their payments are reported, creditOnlineClearance lets one
\* through, because the wallet is held from the read to the commit.
THEOREM ClearedOnce == Spec => []ClearedAtMostOnce
BY ClearedInit, ClearedStep, TypeInit, TypeStep, LockInit, LockStep, PTL DEF Spec

\* What can happen to a charge that leaves at most as much pending as before.
LEMMA NothingNewPending ==
    ASSUME SessionInv, PendingIsUsable',
           \A s \in Requests : charge'[s] = "PENDING" => charge[s] = "PENDING",
           \A r \in Requests : request'[r] = "opening" => request[r] = "opening"
    PROVE  SessionInv'
BY DEF SessionInv, NothingPendingWhileOpening, OnePending, Pending

LEMMA SessionStep == TypeInv /\ LockInv /\ SessionInv /\ [Next]_vars => SessionInv'
<1> SUFFICES ASSUME TypeInv, LockInv, SessionInv, [Next]_vars PROVE SessionInv'
  OBVIOUS
<1> USE DEF orderVars, chargeVars, cashfreeVars, boundVars
<1>1. CASE UNCHANGED vars
  BY <1>1 DEF vars, SessionInv, PendingIsUsable, NothingPendingWhileOpening, OnePending,
              Pending, Unusable
<1>2. ASSUME UNCHANGED <<charge, gateway, request>> PROVE SessionInv'
  BY <1>2 DEF SessionInv, PendingIsUsable, NothingPendingWhileOpening, OnePending,
              Pending, Unusable
<1>3. ASSUME NEW r \in Requests, Begin(r) \/ GiveUp(r) \/ AbortRequest(r)
      PROVE  SessionInv'
  <2>1. UNCHANGED <<charge, gateway>>
    BY <1>3 DEF Begin, GiveUp, AbortRequest
  <2>2. \A q \in Requests : request'[q] = "opening" => request[q] = "opening"
    BY <1>3 DEF TypeInv, TypeOK, GoTo, Begin, GiveUp, AbortRequest
  <2>3. PendingIsUsable'
    BY <2>1 DEF SessionInv, PendingIsUsable, Unusable
  <2>4. QED BY <2>1, <2>2, <2>3, NothingNewPending
<1>4. ASSUME NEW r \in Requests, Reuse(r) PROVE SessionInv'
  <2>1. /\ \A s \in Requests : charge'[s] = "PENDING" => charge[s] = "PENDING"
        /\ gateway' = gateway
    BY <1>4 DEF Reuse
  <2>2. \A q \in Requests : request'[q] = "opening" => request[q] = "opening"
    BY <1>4 DEF TypeInv, TypeOK, GoTo, Reuse
  <2>3. PendingIsUsable'
    BY <2>1 DEF SessionInv, PendingIsUsable, Unusable
  <2>4. QED BY <2>1, <2>2, <2>3, NothingNewPending
<1>5. ASSUME NEW r \in Requests, AskCashfree(r) PROVE SessionInv'
  <2>1. UNCHANGED <<charge, gateway>>
    BY <1>5 DEF AskCashfree
  <2>2. Pending(Of[r]) = {}
    BY <1>5 DEF AskCashfree, SessionInv, PendingIsUsable, Pending
  <2>3. PendingIsUsable' /\ OnePending'
    BY <2>1 DEF SessionInv, PendingIsUsable, OnePending, Pending, Unusable
  <2>4. \A q \in Requests : q # r => request'[q] = request[q]
    BY <1>5 DEF TypeInv, TypeOK, GoTo, AskCashfree
  <2>5. NothingPendingWhileOpening'
    BY <2>1, <2>2, <2>4 DEF SessionInv, NothingPendingWhileOpening, Pending
  <2>6. QED BY <2>3, <2>5 DEF SessionInv
<1>6. ASSUME NEW r \in Requests, Open(r) PROVE SessionInv'
  <2>1. /\ \A s \in Requests : s # r => (charge'[s] = "PENDING" => charge[s] = "PENDING")
        /\ \A s \in Requests : s # r => gateway'[s] = gateway[s]
        /\ gateway'[r] = "ACTIVE"
    BY <1>6 DEF TypeInv, TypeOK, Open
  <2>2. PendingIsUsable'
    BY <2>1 DEF SessionInv, PendingIsUsable, Unusable
  <2>3. Pending(Of[r]) = {} /\ HoldsOrder(r)
    BY <1>6 DEF SessionInv, NothingPendingWhileOpening, HoldsOrder, Open
  <2>4. \A o \in Orders : o # Of[r] => Pending(o)' \subseteq Pending(o)
    BY <2>1 DEF Pending
  <2>5. Pending(Of[r])' \subseteq {r}
    BY <2>1, <2>3 DEF Pending
  <2>6. OnePending'
    BY <2>4, <2>5 DEF SessionInv, OnePending
  <2>7. /\ request'[r] = "answered"
        /\ \A q \in Requests : q # r => request'[q] = request[q]
    BY <1>6 DEF TypeInv, TypeOK, GoTo, Open
  <2>8. ASSUME NEW q \in Requests, request'[q] = "opening" PROVE Pending(Of[q])' = {}
    <3>1. q # r /\ request[q] = "opening"
      BY <2>7, <2>8
    <3>2. Of[q] # Of[r]
      BY <2>3, <3>1 DEF LockInv, OneHolder, HoldsOrder
    <3>3. QED
      BY <2>4, <3>1, <3>2, OfAssumption DEF SessionInv, NothingPendingWhileOpening
  <2>9. QED
    BY <2>2, <2>6, <2>8 DEF SessionInv, NothingPendingWhileOpening
<1>7. ASSUME NEW s \in Requests, WebhookFailed(s) PROVE SessionInv'
  <2>1. \A t \in Requests : charge'[t] = "PENDING" => charge[t] = "PENDING" /\ t # s
    BY <1>7 DEF TypeInv, TypeOK, WebhookFailed
  <2>2. PendingIsUsable'
    BY <1>7, <2>1 DEF TypeInv, TypeOK, WebhookFailed, SessionInv, PendingIsUsable, Unusable
  <2>3. request' = request
    BY <1>7 DEF WebhookFailed
  <2>4. QED BY <2>1, <2>2, <2>3, NothingNewPending
<1>8. ASSUME NEW p \in Settlers, NEW s \in Requests, VerifyUnpaid(p, s)
      PROVE  SessionInv'
  <2>1. \A t \in Requests : charge'[t] = "PENDING" => charge[t] = "PENDING"
    BY <1>8 DEF TypeInv, TypeOK, VerifyUnpaid
  <2>2. settler[p].remote \in {"NONE", "ACTIVE", "EXPIRED"}
    BY <1>8 DEF TypeInv, TypeOK, SettlerStates, SessionStates, VerifyUnpaid
  <2>3. \A t \in Requests : t # s => gateway'[t] = gateway[t]
    BY <1>8 DEF TypeInv, TypeOK, VerifyUnpaid
  <2>4. charge'[s] = "PENDING" => gateway'[s] \in {"NONE", "ACTIVE"}
    BY <1>8, <2>2 DEF TypeInv, TypeOK, VerifyUnpaid
  <2>5. PendingIsUsable'
    BY <2>1, <2>3, <2>4 DEF SessionInv, PendingIsUsable, Unusable
  <2>6. request' = request
    BY <1>8 DEF VerifyUnpaid
  <2>7. QED BY <2>1, <2>5, <2>6, NothingNewPending
<1>9. ASSUME NEW p \in Settlers, NEW s \in Requests, VerifyPaid(p, s) \/ Commit(p, s)
      PROVE  SessionInv'
  <2>1. /\ \A t \in Requests : charge'[t] = "PENDING" => charge[t] = "PENDING"
        /\ request' = request
    BY <1>9 DEF TypeInv, TypeOK, VerifyPaid, Commit
  <2>2. \A t \in Requests : gateway'[t] = gateway[t] \/ ~Unusable(t)'
    BY <1>9 DEF TypeInv, TypeOK, Unusable, VerifyPaid, Commit
  <2>3. PendingIsUsable'
    BY <2>1, <2>2 DEF SessionInv, PendingIsUsable, Unusable
  <2>4. QED BY <2>1, <2>3, NothingNewPending
<1>10. ASSUME NEW o \in Orders, PickUp(o) \/ Deliver(o) \/ Cancel(o)
       PROVE  UNCHANGED <<charge, gateway, request>>
  BY <1>10 DEF PickUp, Deliver, Cancel
<1>11. ASSUME NEW p \in Settlers, NEW s \in Requests,
              WebhookPaid(p, s) \/ Retrieve(p, s) \/ CheckOwed(p, s)
       PROVE  UNCHANGED <<charge, gateway, request>>
  BY <1>11 DEF WebhookPaid, Retrieve, CheckOwed
<1>12. ASSUME NEW p \in Settlers, Crash(p) \/ AbortSettler(p)
       PROVE  UNCHANGED <<charge, gateway, request>>
  BY <1>12 DEF Crash, AbortSettler
<1>13. ASSUME NEW s \in Requests, Refuse(s) \/ \E how \in {"PAID", "EXPIRED"} : Finish(s, how)
       PROVE  UNCHANGED <<charge, gateway, request>>
  BY <1>13 DEF Refuse, Finish
<1>14. QED
  BY <1>1, <1>2, <1>3, <1>4, <1>5, <1>6, <1>7, <1>8, <1>9, <1>10, <1>11, <1>12, <1>13
  DEF Next

LEMMA SessionInit == Init => SessionInv
BY DEF Init, SessionInv, PendingIsUsable, NothingPendingWhileOpening, OnePending, Pending

LEMMA SessionsHold == Spec => []SessionInv
BY SessionInit, SessionStep, TypeInit, TypeStep, LockInit, LockStep, PTL DEF Spec

\* An order has at most one pending clearance charge: a request finds none
\* when it asks Cashfree, and the order lock keeps every other request out
\* until it has stored its own.
THEOREM OnePendingSession == Spec => []OnePending
BY SessionsHold, PTL DEF SessionInv

\* A pending charge is never one whose session is known to be over, so
\* reuseOrRetirePendingClearance finds nothing to retire.
THEOREM PendingUsable == Spec => []PendingIsUsable
BY SessionsHold, PTL DEF SessionInv

--------------------------------------------------------------------------------
(***************************************************************************)
(* The payment rows and the ledger.                                        *)
(***************************************************************************)

\* The ways a step changes the charge of a session: its request opens it, it
\* fails while it is pending, or the credit is inserted.
LEMMA ChargeMoves ==
    ASSUME TypeInv, [Next]_vars, NEW s \in Requests
    PROVE  \/ charge'[s] = charge[s]
           \/ Open(s) /\ charge'[s] = "PENDING"
           \/ charge[s] = "PENDING" /\ charge'[s] = "FAILED"
           \/ (\E p \in Settlers : Commit(p, s)) /\ charge'[s] = "PAID"
<1>0. charge \in [Requests -> {"NONE", "PENDING", "PAID", "FAILED"}]
  BY DEF TypeInv, TypeOK
<1>1. CASE charge' = charge
  BY <1>1
<1>2. ASSUME NEW r \in Requests, Reuse(r) \/ Open(r)
      PROVE  \/ charge'[s] = charge[s]
             \/ Open(s) /\ charge'[s] = "PENDING"
             \/ charge[s] = "PENDING" /\ charge'[s] = "FAILED"
  BY <1>2 DEF Reuse, Open, Pending
<1>3. ASSUME NEW t \in Requests, WebhookFailed(t)
      PROVE  charge'[s] = charge[s] \/ (charge[s] = "PENDING" /\ charge'[s] = "FAILED")
  <2>1. charge[t] = "PENDING" /\ charge' = [charge EXCEPT ![t] = "FAILED"]
    BY <1>3 DEF WebhookFailed
  <2>2. QED BY <2>1, <1>0
<1>4. ASSUME NEW p \in Settlers, NEW t \in Requests, VerifyUnpaid(p, t)
      PROVE  charge'[s] = charge[s] \/ (charge[s] = "PENDING" /\ charge'[s] = "FAILED")
  <2>1. \/ charge' = charge
        \/ charge[t] = "PENDING" /\ charge' = [charge EXCEPT ![t] = "FAILED"]
    BY <1>4 DEF VerifyUnpaid
  <2>2. QED BY <2>1, <1>0
<1>5. ASSUME NEW p \in Settlers, NEW t \in Requests, Commit(p, t)
      PROVE  \/ charge'[s] = charge[s]
             \/ (\E q \in Settlers : Commit(q, s)) /\ charge'[s] = "PAID"
  <2>1. CASE t = s
    <3>1. Commit(p, s)
      BY <1>5, <2>1
    <3>2. charge'[s] = "PAID"
      BY <3>1, <1>0 DEF Commit
    <3>3. QED BY <3>1, <3>2
  <2>2. CASE t # s
    BY <1>5, <2>2, <1>0 DEF Commit
  <2>3. QED BY <2>1, <2>2
<1>6. \/ charge' = charge
      \/ \E r \in Requests : Reuse(r) \/ Open(r)
      \/ \E t \in Requests : WebhookFailed(t)
      \/ \E p \in Settlers, t \in Requests : VerifyUnpaid(p, t) \/ Commit(p, t)
  BY DEF Next, vars, chargeVars, PickUp, Deliver, Cancel, Begin, AskCashfree, GiveUp,
         AbortRequest, WebhookPaid, Retrieve, VerifyPaid, CheckOwed, Crash, AbortSettler,
         Refuse, Finish
<1>7. QED BY <1>1, <1>2, <1>3, <1>4, <1>5, <1>6

\* The ways a step changes a session at Cashfree.
LEMMA SessionMoves ==
    ASSUME TypeInv, [Next]_vars, NEW s \in Requests
    PROVE  \/ session'[s] = session[s]
           \/ Open(s) /\ session'[s] = "ACTIVE"
           \/ session[s] = "ACTIVE"
<1>0. session \in [Requests -> SessionStates]
  BY DEF TypeInv, TypeOK
<1>1. ASSUME NEW r \in Requests, Open(r)
      PROVE  session'[s] = session[s] \/ (Open(s) /\ session'[s] = "ACTIVE")
  <2>1. CASE r = s
    <3>1. Open(s)
      BY <1>1, <2>1
    <3>2. session'[s] = "ACTIVE"
      BY <3>1, <1>0 DEF Open
    <3>3. QED BY <3>1, <3>2
  <2>2. CASE r # s
    BY <1>1, <2>2, <1>0 DEF Open
  <2>3. QED BY <2>1, <2>2
<1>2. ASSUME NEW t \in Requests, NEW how \in {"PAID", "EXPIRED"}, Finish(t, how)
      PROVE  session'[s] = session[s] \/ session[s] = "ACTIVE"
  BY <1>2, <1>0 DEF Finish
<1>3. \/ session' = session
      \/ \E r \in Requests : Open(r)
      \/ \E t \in Requests, how \in {"PAID", "EXPIRED"} : Finish(t, how)
  BY DEF Next, vars, cashfreeVars, PickUp, Deliver, Cancel, Begin, Reuse, AskCashfree,
         GiveUp, AbortRequest, WebhookPaid, Retrieve, VerifyUnpaid, VerifyPaid, CheckOwed,
         Commit, Crash, AbortSettler, WebhookFailed, Refuse
<1>4. QED BY <1>1, <1>2, <1>3

\* An answered request stays answered.
LEMMA AnsweredStays ==
    ASSUME TypeInv, [Next]_vars, NEW r \in Requests, request[r] = "answered"
    PROVE  request'[r] = "answered"
<1>1. ASSUME NEW q \in Requests,
             Begin(q) \/ Reuse(q) \/ AskCashfree(q) \/ Open(q) \/ GiveUp(q) \/ AbortRequest(q)
      PROVE  request'[r] = "answered"
  BY <1>1 DEF TypeInv, TypeOK, GoTo, HoldsOrder, Deadlock, Waits, Begin, Reuse, AskCashfree,
              Open, GiveUp, AbortRequest
<1>2. \/ request' = request
      \/ \E q \in Requests :
           Begin(q) \/ Reuse(q) \/ AskCashfree(q) \/ Open(q) \/ GiveUp(q) \/ AbortRequest(q)
  BY DEF Next, vars, PickUp, Deliver, Cancel, WebhookPaid, Retrieve, VerifyUnpaid,
         VerifyPaid, CheckOwed, Commit, Crash, AbortSettler, WebhookFailed, Refuse, Finish
<1>3. QED BY <1>1, <1>2

LEMMA UnansweredStep == TypeInv /\ LedgerInv /\ [Next]_vars => Unanswered'
<1> SUFFICES ASSUME TypeInv, LedgerInv, [Next]_vars,
                    NEW r \in Requests, request'[r] # "answered"
             PROVE  charge'[r] = "NONE" /\ session'[r] = "NONE"
  BY DEF Unanswered
<1>1. charge[r] = "NONE" /\ session[r] = "NONE"
  BY AnsweredStays DEF LedgerInv, Unanswered
<1>2. ~Open(r)
  BY DEF TypeInv, TypeOK, Open, GoTo
<1>3. ASSUME NEW p \in Settlers, Commit(p, r) PROVE FALSE
  BY <1>1, <1>3 DEF LedgerInv, SettlersKnow, Commit
<1>4. QED BY <1>1, <1>2, <1>3, ChargeMoves, SessionMoves

\* What a settler knows stays true.
LEMMA KnowledgeStays ==
    ASSUME TypeInv, LedgerInv, [Next]_vars, NEW s \in Requests
    PROVE  /\ session[s] = "PAID" => session'[s] = "PAID"
           /\ charge[s] # "NONE" => charge'[s] # "NONE"
<1>1. Open(s) => session[s] = "NONE"
  BY DEF LedgerInv, Unanswered, Open
<1>2. session[s] = "PAID" => session'[s] = "PAID"
  BY <1>1, SessionMoves
<1>3. QED BY <1>2, ChargeMoves

\* The ways a step changes a settler.
LEMMA SettlerMoves ==
    ASSUME TypeInv, [Next]_vars, NEW p \in Settlers
    PROVE  \/ settler'[p] = settler[p]
           \/ settler'[p] = Idle
           \/ \E s \in Requests :
                \/ Retrieve(p, s) /\ Become(p, "verify", s, session[s])
                \/ /\ WebhookPaid(p, s) \/ VerifyPaid(p, s) \/ CheckOwed(p, s)
                   /\ Become(p, "wallet", s, "PAID") \/ Become(p, "insert", s, "PAID")
<1>1. CASE settler' = settler
  BY <1>1
<1>2. ASSUME NEW q \in Settlers, Rest(q)
      PROVE  settler'[p] = settler[p] \/ settler'[p] = Idle
  BY <1>2 DEF TypeInv, TypeOK, Rest
<1>3. ASSUME NEW q \in Settlers, q # p, NEW s \in Requests, NEW at, NEW remote,
             Become(q, at, s, remote)
      PROVE  settler'[p] = settler[p]
  BY <1>3 DEF TypeInv, TypeOK, Become
<1>4. ASSUME NEW q \in Settlers, NEW s \in Requests,
             \/ WebhookPaid(q, s) \/ Retrieve(q, s) \/ VerifyUnpaid(q, s)
             \/ VerifyPaid(q, s) \/ CheckOwed(q, s) \/ Commit(q, s)
      PROVE  \/ Rest(q)
             \/ Retrieve(q, s) /\ Become(q, "verify", s, session[s])
             \/ /\ WebhookPaid(q, s) \/ VerifyPaid(q, s) \/ CheckOwed(q, s)
                /\ Become(q, "wallet", s, "PAID") \/ Become(q, "insert", s, "PAID")
  BY <1>4 DEF WebhookPaid, Retrieve, VerifyUnpaid, VerifyPaid, CheckOwed, Commit
<1>5. \/ settler' = settler
      \/ \E q \in Settlers : Rest(q)
      \/ \E q \in Settlers, s \in Requests :
           \/ WebhookPaid(q, s) \/ Retrieve(q, s) \/ VerifyUnpaid(q, s)
           \/ VerifyPaid(q, s) \/ CheckOwed(q, s) \/ Commit(q, s)
  BY DEF Next, vars, PickUp, Deliver, Cancel, Begin, Reuse, AskCashfree, Open, GiveUp,
         AbortRequest, Crash, AbortSettler, WebhookFailed, Refuse, Finish
<1>6. QED BY <1>1, <1>2, <1>3, <1>4, <1>5

LEMMA SettlersKnowStep == TypeInv /\ LedgerInv /\ [Next]_vars => SettlersKnow'
<1> SUFFICES ASSUME TypeInv, LedgerInv, [Next]_vars, NEW p \in Settlers
             PROVE  /\ settler'[p].remote = "PAID" =>
                         settler'[p].at # "idle" /\ session'[settler'[p].s] = "PAID"
                    /\ settler'[p].at \in {"wallet", "insert"} =>
                         settler'[p].remote = "PAID" /\ charge'[settler'[p].s] # "NONE"
  BY DEF SettlersKnow
<1>1. CASE settler'[p] = settler[p]
  <2>1. settler[p].at # "idle" => settler[p].s \in Requests
    BY DEF TypeInv, SettlersHaveWork
  <2>2. QED BY <1>1, <2>1, KnowledgeStays DEF LedgerInv, SettlersKnow
<1>2. CASE settler'[p] = Idle
  BY <1>2 DEF Idle
<1>3. ASSUME NEW s \in Requests, Retrieve(p, s), Become(p, "verify", s, session[s])
      PROVE  settler'[p].s = s /\ settler'[p].at = "verify"
             /\ settler'[p].remote = session[s] /\ session' = session
  BY <1>3 DEF TypeInv, TypeOK, Become, Retrieve, cashfreeVars
<1>4. ASSUME NEW s \in Requests, WebhookPaid(p, s) \/ VerifyPaid(p, s) \/ CheckOwed(p, s),
             Become(p, "wallet", s, "PAID") \/ Become(p, "insert", s, "PAID")
      PROVE  /\ settler'[p].s = s /\ settler'[p].at \in {"wallet", "insert"}
             /\ settler'[p].remote = "PAID"
             /\ session'[s] = "PAID" /\ charge'[s] # "NONE"
  <2>1. settler'[p].s = s /\ settler'[p].at \in {"wallet", "insert"}
        /\ settler'[p].remote = "PAID"
    BY <1>4 DEF TypeInv, TypeOK, Become
  <2>2. session[s] = "PAID"
    BY <1>4 DEF LedgerInv, SettlersKnow, WebhookPaid, VerifyPaid, CheckOwed
  <2>3. CASE WebhookPaid(p, s)
    BY <2>1, <2>2, <2>3, KnowledgeStays DEF WebhookPaid, Payable
  <2>4. CASE CheckOwed(p, s)
    BY <2>1, <2>2, <2>4, KnowledgeStays DEF CheckOwed, LedgerInv, SettlersKnow
  <2>5. CASE VerifyPaid(p, s)
    <3>1. Payable(s)
      BY <2>1, <2>5 DEF TypeInv, TypeOK, VerifyPaid, Rest, Idle
    <3>2. QED BY <2>1, <2>2, <3>1, KnowledgeStays DEF Payable
  <2>6. QED BY <1>4, <2>3, <2>4, <2>5
<1>5. QED BY <1>1, <1>2, <1>3, <1>4, SettlerMoves

LEMMA LedgerAgreesStep == TypeInv /\ LedgerInv /\ [Next]_vars => LedgerAgrees'
<1> SUFFICES ASSUME TypeInv, LedgerInv, [Next]_vars, NEW s \in Requests
             PROVE  /\ charge'[s] = "PAID" <=> s \in credits'[Of[s]]
                    /\ charge'[s] = "PAID" => session'[s] = "PAID"
  BY DEF LedgerAgrees
<1> USE OfAssumption
<1>1. ASSUME NEW p \in Settlers, Commit(p, s)
      PROVE  /\ charge'[s] = "PAID" <=> s \in credits'[Of[s]]
             /\ charge'[s] = "PAID" => session'[s] = "PAID"
  <2>1. charge'[s] = "PAID" /\ s \in credits'[Of[s]] /\ session' = session
    BY <1>1 DEF TypeInv, TypeOK, Commit, cashfreeVars
  <2>2. session[s] = "PAID"
    BY <1>1 DEF LedgerInv, SettlersKnow, Commit
  <2>3. QED BY <2>1, <2>2
<1>2. CASE \A p \in Settlers : ~Commit(p, s)
  <2>1. s \in credits'[Of[s]] <=> s \in credits[Of[s]]
    <3>1. ASSUME NEW p \in Settlers, NEW t \in Requests, Commit(p, t), t # s
          PROVE  s \in credits'[Of[s]] <=> s \in credits[Of[s]]
      BY <3>1 DEF TypeInv, TypeOK, Commit
    <3>2. QED BY <1>2, <3>1, CreditsStay
  <2>2. charge'[s] = "PAID" <=> charge[s] = "PAID"
    <3>1. Open(s) => charge[s] = "NONE"
      BY DEF LedgerInv, Unanswered, Open
    <3>2. QED BY <1>2, <3>1, ChargeMoves
  <2>3. QED BY <2>1, <2>2, KnowledgeStays DEF LedgerInv, LedgerAgrees
<1>3. QED BY <1>1, <1>2

LEMMA LedgerInit == Init => LedgerInv
BY OfAssumption DEF Init, LedgerInv, Unanswered, SettlersKnow, LedgerAgrees, Idle

LEMMA LedgerStep == TypeInv /\ LedgerInv /\ [Next]_vars => LedgerInv'
BY UnansweredStep, SettlersKnowStep, LedgerAgreesStep DEF LedgerInv

\* A charge is PAID exactly when its credit is in the ledger, and only for a
\* session that Cashfree was paid for, in whatever order webhooks of failed
\* attempts, webhooks of payments and verifies arrive.
THEOREM LedgerTellsTheTruth == Spec => []LedgerAgrees
BY LedgerInit, LedgerStep, TypeInit, TypeStep, PTL DEF Spec, LedgerInv

--------------------------------------------------------------------------------
(***************************************************************************)
(* The invoice.                                                            *)
(***************************************************************************)

LEMMA InvoiceStep == TypeInv /\ InvoiceInv /\ [Next]_vars => InvoiceInv'
<1> SUFFICES ASSUME TypeInv, InvoiceInv, [Next]_vars PROVE InvoiceInv'
  OBVIOUS
<1> USE DEF orderVars
<1>1. ASSUME UNCHANGED <<orderVars, credits>> PROVE InvoiceInv'
  BY <1>1 DEF InvoiceInv, InvoiceAfterDelivery, InvoiceShowsClearance, Owed
<1>2. ASSUME NEW o \in Orders, PickUp(o) \/ Cancel(o) PROVE InvoiceInv'
  <2>1. invoice[o] = "NONE" /\ invoice' = invoice /\ fare' = fare
    BY <1>2 DEF InvoiceInv, InvoiceAfterDelivery, PickUp, Cancel
  <2>2. \A q \in Orders : q # o => /\ phase'[q] = phase[q]
                                   /\ charged'[q] = charged[q]
                                   /\ waiting'[q] = waiting[q]
    BY <1>2 DEF TypeInv, TypeOK, PickUp, Cancel
  <2>3. credits' = credits
    BY <1>2 DEF PickUp, Cancel
  <2>4. QED
    BY <2>1, <2>2, <2>3 DEF InvoiceInv, InvoiceAfterDelivery, InvoiceShowsClearance, Owed
<1>3. ASSUME NEW o \in Orders, Deliver(o) PROVE InvoiceInv'
  <2>1. charged' = charged /\ credits' = credits
    BY <1>3 DEF Deliver
  <2>2. \A q \in Orders : q # o => /\ phase'[q] = phase[q]
                                   /\ waiting'[q] = waiting[q]
                                   /\ invoice'[q] = invoice[q]
                                   /\ fare'[q] = fare[q]
    BY <1>3 DEF TypeInv, TypeOK, Deliver
  <2>3. phase'[o] = "DELIVERED" /\ waiting'[o] = "SETTLED"
    BY <1>3 DEF TypeInv, TypeOK, Deliver
  <2>4. invoice'[o] = "DUE" /\ fare'[o] => Owed(o)
    BY <1>3 DEF TypeInv, TypeOK, Deliver
  <2>5. QED
    BY <2>1, <2>2, <2>3, <2>4
    DEF InvoiceInv, InvoiceAfterDelivery, InvoiceShowsClearance, Owed
<1>4. ASSUME NEW p \in Settlers, NEW s \in Requests, Commit(p, s) PROVE InvoiceInv'
  <2>1. UNCHANGED <<phase, charged, waiting, fare>>
    BY <1>4 DEF Commit
  <2>2. \A o \in Orders :
          /\ invoice'[o] # "NONE" => invoice[o] # "NONE"
          /\ invoice'[o] = "DUE" => invoice[o] = "DUE" /\ credits'[o] = credits[o]
    BY <1>4 DEF TypeInv, TypeOK, Commit
  <2>3. QED
    BY <2>1, <2>2 DEF InvoiceInv, InvoiceAfterDelivery, InvoiceShowsClearance, Owed
<1>5. \/ UNCHANGED <<orderVars, credits>>
      \/ \E o \in Orders : PickUp(o) \/ Deliver(o) \/ Cancel(o)
      \/ \E p \in Settlers, s \in Requests : Commit(p, s)
  BY DEF Next, vars, Begin, Reuse, AskCashfree, Open, GiveUp, AbortRequest, WebhookPaid,
         Retrieve, VerifyUnpaid, VerifyPaid, CheckOwed, Crash, AbortSettler, WebhookFailed,
         Refuse, Finish
<1>6. QED BY <1>1, <1>2, <1>3, <1>4, <1>5

LEMMA InvoiceInit == Init => InvoiceInv
BY DEF Init, InvoiceInv, InvoiceAfterDelivery, InvoiceShowsClearance

\* An invoice whose fare was paid is not left open once the charge is cleared,
\* whether the credit came before the delivery, after it, or waited for it.
THEOREM InvoiceTells == Spec => []InvoiceShowsClearance
BY InvoiceInit, InvoiceStep, TypeInit, TypeStep, PTL DEF Spec, InvoiceInv

================================================================================
