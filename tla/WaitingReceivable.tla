--------------------------- MODULE WaitingReceivable ---------------------------
(***************************************************************************)
(* What a customer owes for waiting at the pickup and how it is cleared    *)
(* online (backend/src/settlement and the clearance part of payments).     *)
(*                                                                         *)
(* A charge is assessed when the parcel is picked up, settled when it is   *)
(* delivered and voided when the order is cancelled before.  To clear it   *)
(* the customer asks for a Cashfree session; a payment of that session     *)
(* comes back by webhook or by the app's verify, and credits the charge.   *)
(*                                                                         *)
(* The orders belong to one customer.  An amount is the whole charge or    *)
(* nothing: a session is for what is outstanding, and a credit for what    *)
(* its session was for.                                                    *)
(*                                                                         *)
(* Three locks order the transactions.  A transition and a request for a   *)
(* session hold the order row FOR UPDATE; a settler holds the row of its   *)
(* payment, then the customer's wallet, and its insert of the credit needs *)
(* the order row FOR KEY SHARE (foreign key), which waits for FOR UPDATE.  *)
(* Reads take no lock: a settler acts on what it read before that wait.    *)
(***************************************************************************)
EXTENDS Naturals

CONSTANTS
    Orders,         \* orders of one customer
    Requests,       \* clearance requests; each opens at most one session
    Of,             \* Of[r], the order that request r is about
    Settlers,       \* webhook deliveries and verify calls at work
    NoSession,      \* what an idle settler works on
    MaxCalls,       \* bounds the calls of beginReceivableClearance
    MaxCrashes      \* bounds the settlers that end before they commit

ASSUME OfAssumption == Of \in [Requests -> Orders]
ASSUME NoSessionAssumption == NoSession \notin Requests
ASSUME BoundAssumption == MaxCalls \in Nat /\ MaxCrashes \in Nat

VARIABLES
    phase,      \* of orders.canonical_status what settlement distinguishes
    waiting,    \* order_waiting_charges.settlement_status
    charged,    \* the CHARGE entry of the order exists
    credits,    \* sessions whose CREDIT entry exists
    fare,       \* the fare was paid when the order was delivered
    invoice,    \* invoices.payment_status_snapshot
    request,    \* where each call of beginReceivableClearance is
    charge,     \* payment_transactions.transaction_status of each session
    gateway,    \* payment_gateway_attempts.gateway_status of each session
    settler,    \* what each settler works on and what it knows
    session,    \* the order of the session at Cashfree
    refused,    \* some payment attempt of the session failed
    calls,      \* calls of beginReceivableClearance so far
    crashes     \* settlers that crashed so far

orderVars == <<phase, waiting, charged, fare, invoice>>
chargeVars == <<charge, gateway>>
cashfreeVars == <<session, refused>>
boundVars == <<calls, crashes>>
vars == <<orderVars, credits, request, chargeVars, settler, cashfreeVars, boundVars>>

Idle == [at |-> "idle", s |-> NoSession, remote |-> "NONE"]

SessionStates == {"NONE", "ACTIVE", "PAID", "EXPIRED"}

SettlerStates == [at: {"idle", "verify", "wallet", "insert"},
                  s: Requests \cup {NoSession}, remote: SessionStates]

TypeOK ==
    /\ phase \in [Orders -> {"BOOKED", "CARRIED", "DELIVERED", "CANCELLED"}]
    /\ waiting \in [Orders -> {"NONE", "OPEN", "SETTLED", "VOID"}]
    /\ charged \in [Orders -> BOOLEAN]
    /\ credits \in [Orders -> SUBSET Requests]
    /\ fare \in [Orders -> BOOLEAN]
    /\ invoice \in [Orders -> {"NONE", "DUE", "PAID"}]
    /\ request \in [Requests -> {"new", "locked", "opening", "answered"}]
    /\ charge \in [Requests -> {"NONE", "PENDING", "PAID", "FAILED"}]
    /\ gateway \in [Requests -> {"NONE", "ACTIVE", "PAID", "EXPIRED", "SUCCESS", "FAILED"}]
    /\ settler \in [Settlers -> SettlerStates]
    /\ session \in [Requests -> SessionStates]
    /\ refused \in [Requests -> BOOLEAN]
    /\ calls \in 0..MaxCalls
    /\ crashes \in 0..MaxCrashes

Init ==
    /\ phase = [o \in Orders |-> "BOOKED"]
    /\ waiting = [o \in Orders |-> "NONE"]
    /\ charged = [o \in Orders |-> FALSE]
    /\ credits = [o \in Orders |-> {}]
    /\ fare = [o \in Orders |-> FALSE]
    /\ invoice = [o \in Orders |-> "NONE"]
    /\ request = [r \in Requests |-> "new"]
    /\ charge = [r \in Requests |-> "NONE"]
    /\ gateway = [r \in Requests |-> "NONE"]
    /\ settler = [p \in Settlers |-> Idle]
    /\ session = [r \in Requests |-> "NONE"]
    /\ refused = [r \in Requests |-> FALSE]
    /\ calls = 0
    /\ crashes = 0

--------------------------------------------------------------------------------
(***************************************************************************)
(* What is owed, and who holds which lock.                                 *)
(***************************************************************************)

\* orderOutstanding is not zero: a VOID charge counts for nothing.
Owed(o) == charged[o] /\ waiting[o] # "VOID" /\ credits[o] = {}

\* findPendingReceivableClearances
Pending(o) == {s \in Requests : Of[s] = o /\ charge[s] = "PENDING"}

\* clearanceGatewayUnusable
Unusable(s) == gateway[s] \in {"FAILED", "EXPIRED"}

HoldsOrder(r) == request[r] \in {"locked", "opening"}
OrderHeld(o) == \E r \in Requests : Of[r] = o /\ HoldsOrder(r)

HoldsRow(p, s) == settler[p].at \in {"wallet", "insert"} /\ settler[p].s = s
RowHeld(s) == \E p \in Settlers : HoldsRow(p, s)

HoldsWallet(p) == settler[p].at = "insert"
WalletHeld == \E p \in Settlers : HoldsWallet(p)

--------------------------------------------------------------------------------
(***************************************************************************)
(* The order.  Each transition is one transaction on the locked order row; *)
(* no credit can be inserted while it holds the row, so it is one step.    *)
(***************************************************************************)

\* onPickedUp: assess, and post the charge unless it is zero.
PickUp(o) ==
    /\ phase[o] = "BOOKED"
    /\ ~OrderHeld(o)
    /\ phase' = [phase EXCEPT ![o] = "CARRIED"]
    /\ waiting' = [waiting EXCEPT ![o] = "OPEN"]
    /\ \E positive \in BOOLEAN : charged' = [charged EXCEPT ![o] = positive]
    /\ UNCHANGED <<fare, invoice, credits, request, chargeVars, settler, cashfreeVars, boundVars>>

\* Mutant: the invoice counts what was paid for the booking only.
DeliverCountingBooking(o) ==
    /\ phase[o] = "CARRIED"
    /\ ~OrderHeld(o)
    /\ phase' = [phase EXCEPT ![o] = "DELIVERED"]
    /\ waiting' = [waiting EXCEPT ![o] = "SETTLED"]
    /\ \E paid \in BOOLEAN :
        /\ fare' = [fare EXCEPT ![o] = paid]
        /\ invoice' = [invoice EXCEPT ![o] =
                          IF paid /\ ~charged[o] THEN "PAID" ELSE "DUE"]
    /\ UNCHANGED <<charged, credits, request, chargeVars, settler, cashfreeVars, boundVars>>

\* settleDelivered: the invoice says PAID if fare and charge are paid by now,
\* and the assessment, open until then, is settled.
Deliver(o) ==
    /\ phase[o] = "CARRIED"
    /\ ~OrderHeld(o)
    /\ phase' = [phase EXCEPT ![o] = "DELIVERED"]
    /\ waiting' = [waiting EXCEPT ![o] = "SETTLED"]
    /\ \E paid \in BOOLEAN :
        /\ fare' = [fare EXCEPT ![o] = paid]
        /\ invoice' = [invoice EXCEPT ![o] =
                          IF paid /\ ~Owed(o) THEN "PAID" ELSE "DUE"]
    /\ UNCHANGED <<charged, credits, request, chargeVars, settler, cashfreeVars, boundVars>>

\* onCancelled, voidOpenWaiting
Cancel(o) ==
    /\ phase[o] \in {"BOOKED", "CARRIED"}
    /\ ~OrderHeld(o)
    /\ phase' = [phase EXCEPT ![o] = "CANCELLED"]
    /\ waiting' = [waiting EXCEPT ![o] =
                      IF @ = "OPEN" /\ credits[o] = {} THEN "VOID" ELSE @]
    /\ UNCHANGED <<charged, fare, invoice, credits, request, chargeVars, settler,
                   cashfreeVars, boundVars>>

--------------------------------------------------------------------------------
(***************************************************************************)
(* beginReceivableClearance.  It locks the order, reads what is            *)
(* outstanding, waits for the rows of the pending sessions, and either     *)
(* returns one of them or asks Cashfree for a session and stores it.       *)
(***************************************************************************)

GoTo(r, step) == request' = [request EXCEPT ![r] = step]

\* Mutant: the order is read, not locked.
BeginUnlocked(r) ==
    /\ request[r] = "new"
    /\ calls < MaxCalls
    /\ Owed(Of[r])
    /\ GoTo(r, "locked")
    /\ calls' = calls + 1
    /\ UNCHANGED <<orderVars, credits, chargeVars, settler, cashfreeVars, crashes>>

\* With nothing outstanding the call is refused and leaves nothing behind.
Begin(r) ==
    /\ request[r] = "new"
    /\ calls < MaxCalls
    /\ ~OrderHeld(Of[r])
    /\ Owed(Of[r])
    /\ GoTo(r, "locked")
    /\ calls' = calls + 1
    /\ UNCHANGED <<orderVars, credits, chargeVars, settler, cashfreeVars, crashes>>

\* reuseOrRetirePendingClearance waits for the rows it locks.
Waits(r) == request[r] = "locked" /\ \E s \in Pending(Of[r]) : RowHeld(s)

\* The rows that cannot be used are closed, and a usable one is returned; the
\* key is not stored, so the same request may come again.
Reuse(r) ==
    /\ request[r] = "locked"
    /\ ~Waits(r)
    /\ \E s \in Pending(Of[r]) : ~Unusable(s)
    /\ charge' = [s \in Requests |->
                     IF s \in Pending(Of[r]) /\ Unusable(s) THEN "FAILED" ELSE charge[s]]
    /\ GoTo(r, "new")
    /\ UNCHANGED <<orderVars, credits, gateway, settler, cashfreeVars, boundVars>>

\* No session to reuse: Cashfree is asked for one, with the order locked.
AskCashfree(r) ==
    /\ request[r] = "locked"
    /\ ~Waits(r)
    /\ \A s \in Pending(Of[r]) : Unusable(s)
    /\ GoTo(r, "opening")
    /\ UNCHANGED <<orderVars, credits, chargeVars, settler, cashfreeVars, boundVars>>

\* insertTransaction, insertAttempt, the idempotency key, commit.
Open(r) ==
    /\ request[r] = "opening"
    /\ charge' = [s \in Requests |->
                     IF s = r THEN "PENDING"
                     ELSE IF s \in Pending(Of[r]) /\ Unusable(s) THEN "FAILED"
                     ELSE charge[s]]
    /\ gateway' = [gateway EXCEPT ![r] = "ACTIVE"]
    /\ session' = [session EXCEPT ![r] = "ACTIVE"]
    /\ GoTo(r, "answered")
    /\ UNCHANGED <<orderVars, credits, settler, refused, boundVars>>

\* The call to Cashfree fails or the process ends: all is rolled back, and a
\* session Cashfree may have opened was shown to nobody.
GiveUp(r) ==
    /\ HoldsOrder(r)
    /\ GoTo(r, "new")
    /\ UNCHANGED <<orderVars, credits, chargeVars, settler, cashfreeVars, boundVars>>

--------------------------------------------------------------------------------
(***************************************************************************)
(* Settlers: applyPayment of the webhook, and verifyOnlinePayment, which   *)
(* asks Cashfree first and opens its transaction afterwards.  Until it     *)
(* commits what a settler wrote is seen by nobody.                         *)
(***************************************************************************)

Become(p, at, s, remote) ==
    settler' = [settler EXCEPT ![p] = [at |-> at, s |-> s, remote |-> remote]]

Rest(p) == settler' = [settler EXCEPT ![p] = Idle]

\* decideChargeTransition: success settles a pending or a failed charge,
\* failure ends a pending one, anything else is ignored.
Payable(s) == charge[s] \in {"PENDING", "FAILED"}

\* Mutant: a charge that failed stays failed.
WebhookForPending(p, s) ==
    /\ settler[p].at = "idle"
    /\ session[s] = "PAID"
    /\ ~RowHeld(s)
    /\ charge[s] = "PENDING"
    /\ Become(p, "wallet", s, "PAID")
    /\ UNCHANGED <<orderVars, credits, request, chargeVars, cashfreeVars, boundVars>>

\* A webhook says that the session was paid.
WebhookPaid(p, s) ==
    /\ settler[p].at = "idle"
    /\ session[s] = "PAID"
    /\ ~RowHeld(s)
    /\ Payable(s)
    /\ Become(p, "wallet", s, "PAID")
    /\ UNCHANGED <<orderVars, credits, request, chargeVars, cashfreeVars, boundVars>>

\* Mutant: the failed attempt ends the charge whatever came before.
WebhookFailedLate(s) ==
    /\ refused[s]
    /\ ~RowHeld(s) /\ ~OrderHeld(Of[s])
    /\ charge' = [charge EXCEPT ![s] = "FAILED"]
    /\ gateway' = [gateway EXCEPT ![s] = "FAILED"]
    /\ UNCHANGED <<orderVars, credits, request, settler, cashfreeVars, boundVars>>

\* A webhook says that a payment attempt failed.  The notification it inserts
\* names the order and waits for it, like a credit.
WebhookFailed(s) ==
    /\ refused[s]
    /\ ~RowHeld(s) /\ ~OrderHeld(Of[s])
    /\ charge[s] = "PENDING"
    /\ charge' = [charge EXCEPT ![s] = "FAILED"]
    /\ gateway' = [gateway EXCEPT ![s] = "FAILED"]
    /\ UNCHANGED <<orderVars, credits, request, settler, cashfreeVars, boundVars>>

\* verifyOnlinePayment reads the session at Cashfree, outside a transaction.
Retrieve(p, s) ==
    /\ settler[p].at = "idle"
    /\ charge[s] # "NONE"
    /\ Become(p, "verify", s, session[s])
    /\ UNCHANGED <<orderVars, credits, request, chargeVars, cashfreeVars, boundVars>>

\* The session was not paid: what Cashfree said is written down, and ends a
\* pending charge if the session is over (and notifies, as above).
VerifyUnpaid(p, s) ==
    /\ settler[p].at = "verify" /\ settler[p].s = s
    /\ ~RowHeld(s)
    /\ settler[p].remote # "PAID"
    /\ IF settler[p].remote = "EXPIRED" /\ charge[s] = "PENDING"
       THEN /\ ~OrderHeld(Of[s])
            /\ charge' = [charge EXCEPT ![s] = "FAILED"]
            /\ gateway' = [gateway EXCEPT ![s] = "FAILED"]
       ELSE /\ gateway' = [gateway EXCEPT ![s] = settler[p].remote]
            /\ charge' = charge
    /\ Rest(p)
    /\ UNCHANGED <<orderVars, credits, request, cashfreeVars, boundVars>>

\* The session was paid: settle the charge, or only write it down if another
\* settler did.
VerifyPaid(p, s) ==
    /\ settler[p].at = "verify" /\ settler[p].s = s
    /\ ~RowHeld(s)
    /\ settler[p].remote = "PAID"
    /\ IF Payable(s)
       THEN Become(p, "wallet", s, "PAID") /\ gateway' = gateway
       ELSE Rest(p) /\ gateway' = [gateway EXCEPT ![s] = "PAID"]
    /\ UNCHANGED <<orderVars, credits, request, charge, cashfreeVars, boundVars>>

\* Mutant: what is owed is read without the wallet.
CheckWithoutWallet(p, s) ==
    /\ settler[p].at = "wallet" /\ settler[p].s = s
    /\ IF Owed(Of[s]) THEN Become(p, "insert", s, "PAID") ELSE Rest(p)
    /\ UNCHANGED <<orderVars, credits, request, chargeVars, cashfreeVars, boundVars>>

\* creditOnlineClearance locks the wallet and reads the assessment and what is
\* outstanding; if that is not what was paid it throws, and all is rolled back.
CheckOwed(p, s) ==
    /\ settler[p].at = "wallet" /\ settler[p].s = s
    /\ ~WalletHeld
    /\ IF Owed(Of[s]) THEN Become(p, "insert", s, "PAID") ELSE Rest(p)
    /\ UNCHANGED <<orderVars, credits, request, chargeVars, cashfreeVars, boundVars>>

\* insertReceivable, markInvoicePaidIfSettled (nothing is owed after the
\* insert), commit.  The insert waits for the order row.
Commit(p, s) ==
    /\ settler[p].at = "insert" /\ settler[p].s = s
    /\ ~OrderHeld(Of[s])
    /\ credits' = [credits EXCEPT ![Of[s]] = @ \cup {s}]
    /\ invoice' = [invoice EXCEPT ![Of[s]] = IF @ = "DUE" THEN "PAID" ELSE @]
    /\ charge' = [charge EXCEPT ![s] = "PAID"]
    /\ gateway' = [gateway EXCEPT ![s] = "SUCCESS"]
    /\ Rest(p)
    /\ UNCHANGED <<phase, waiting, charged, fare, request, cashfreeVars, boundVars>>

\* A settler ends before it commits.
Crash(p) ==
    /\ settler[p].at # "idle"
    /\ crashes < MaxCrashes
    /\ crashes' = crashes + 1
    /\ Rest(p)
    /\ UNCHANGED <<orderVars, credits, request, chargeVars, cashfreeVars, calls>>

(***************************************************************************)
(* A request holds the order and waits for a row; a settler holds the      *)
(* wallet and waits for the order.  The row is the settler's own, or of    *)
(* one that waits for the wallet: a cycle in either case, and Postgres     *)
(* aborts one of the transactions in it.                                   *)
(***************************************************************************)
Deadlock(r, p) ==
    /\ Waits(r)
    /\ HoldsWallet(p)
    /\ Of[settler[p].s] = Of[r]

AbortRequest(r) ==
    /\ \E p \in Settlers : Deadlock(r, p)
    /\ GoTo(r, "new")
    /\ UNCHANGED <<orderVars, credits, chargeVars, settler, cashfreeVars, boundVars>>

AbortSettler(p) ==
    /\ \E r \in Requests, q \in Settlers :
        /\ Deadlock(r, q)
        /\ p = q \/ \E s \in Pending(Of[r]) : HoldsRow(p, s)
    /\ Rest(p)
    /\ UNCHANGED <<orderVars, credits, request, chargeVars, cashfreeVars, boundVars>>

--------------------------------------------------------------------------------
(***************************************************************************)
(* Cashfree.  A session whose payment attempt failed can still be paid.    *)
(***************************************************************************)

Refuse(s) ==
    /\ session[s] = "ACTIVE" /\ ~refused[s]
    /\ refused' = [refused EXCEPT ![s] = TRUE]
    /\ UNCHANGED <<orderVars, credits, request, chargeVars, settler, session, boundVars>>

Finish(s, how) ==
    /\ session[s] = "ACTIVE"
    /\ session' = [session EXCEPT ![s] = how]
    /\ UNCHANGED <<orderVars, credits, request, chargeVars, settler, refused, boundVars>>

--------------------------------------------------------------------------------

Next ==
    \/ \E o \in Orders : PickUp(o) \/ Deliver(o) \/ Cancel(o)
    \/ \E r \in Requests : Begin(r) \/ Reuse(r) \/ AskCashfree(r) \/ Open(r)
    \/ \E r \in Requests : GiveUp(r) \/ AbortRequest(r)
    \/ \E p \in Settlers, s \in Requests :
        WebhookPaid(p, s) \/ Retrieve(p, s) \/ VerifyUnpaid(p, s) \/ VerifyPaid(p, s)
    \/ \E p \in Settlers, s \in Requests : CheckOwed(p, s) \/ Commit(p, s)
    \/ \E p \in Settlers : Crash(p) \/ AbortSettler(p)
    \/ \E s \in Requests : WebhookFailed(s) \/ Refuse(s)
    \/ \E s \in Requests, how \in {"PAID", "EXPIRED"} : Finish(s, how)

Spec == Init /\ [][Next]_vars

(***************************************************************************)
(* A transaction that can go on goes on, and a deadlock is broken.  A      *)
(* webhook that was not acknowledged is sent again.  Nobody is obliged to  *)
(* pick up, deliver, ask, pay or verify.                                   *)
(***************************************************************************)
Fairness ==
    /\ \A r \in Requests :
        WF_vars(Reuse(r) \/ AskCashfree(r) \/ Open(r) \/ GiveUp(r) \/ AbortRequest(r))
    /\ \A s \in Requests : SF_vars(\E p \in Settlers : WebhookPaid(p, s))
    /\ \A p \in Settlers :
        /\ WF_vars(\E s \in Requests : VerifyUnpaid(p, s) \/ VerifyPaid(p, s))
        /\ SF_vars(\E s \in Requests : CheckOwed(p, s) \/ Commit(p, s))

FairSpec == Spec /\ Fairness

--------------------------------------------------------------------------------
(***************************************************************************)
(* Properties.                                                             *)
(***************************************************************************)

\* The customer's credit for a charge never exceeds it: of all the sessions
\* opened for an order, paid and reported by webhook and verify at once,
\* creditOnlineClearance lets one through.
ClearedAtMostOnce ==
    \A o \in Orders : \A s, t \in credits[o] : s = t

\* The payment row and the ledger tell the same story whatever the order of
\* the events: a charge is PAID exactly when its credit was inserted, and only
\* for a session that Cashfree was paid for.
LedgerAgrees ==
    \A s \in Requests :
        /\ charge[s] = "PAID" <=> s \in credits[Of[s]]
        /\ charge[s] = "PAID" => session[s] = "PAID"

\* An order has at most one pending clearance charge, however many requests
\* overlap with each other and with settlers.
OnePending ==
    \A o \in Orders : \A s, t \in Pending(o) : s = t

\* A pending charge belongs to a session that is not known to be over: no
\* verify, however late, writes a final gateway status beside a PENDING charge,
\* so reuseOrRetirePendingClearance finds nothing to retire.
PendingIsUsable ==
    \A s \in Requests : charge[s] = "PENDING" => ~Unusable(s)

\* An invoice whose fare was paid is not left open when the charge has been
\* cleared, whether the credit came before, after or during the delivery.
InvoiceShowsClearance ==
    \A o \in Orders : invoice[o] = "DUE" /\ fare[o] => Owed(o)

\* A session is opened only while its order still owes the charge: what
\* beginReceivableClearance read under the order lock holds when it commits.
SessionsAreForDebt ==
    [][\A s \in Requests :
        session[s] = "NONE" /\ session'[s] = "ACTIVE" => Owed(Of[s])]_vars

\* Money captured for a charge is credited, unless the charge was voided or
\* another session of the order was credited.
SoleCaptureIsCredited ==
    \A s \in Requests :
        session[s] = "PAID" ~> \/ charge[s] = "PAID"
                               \/ waiting[Of[s]] = "VOID"
                               \/ credits[Of[s]] \ {s} # {}

================================================================================
