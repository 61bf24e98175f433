------------------------------ MODULE TripFinance ------------------------------
(***************************************************************************)
(* How a trip is paid for and what the rider and the company get of it     *)
(* (backend/src/payments and the order part of backend/src/wallet-cod).    *)
(*                                                                         *)
(* One order, one payer.  The payer plans how much is paid online and how  *)
(* much in cash.  An online charge is always for the planned online        *)
(* amount; Cashfree takes the money and tells by webhook, or is asked by   *)
(* the app's verify.  Cash is recorded by the rider or an admin, whatever  *)
(* the plan says.  Admins refund either.  Once the order is delivered each *)
(* PAID row is followed by syncOrderFinance, which debits the rider with   *)
(* the company's share of the cash, or credits the earning of a trip that  *)
(* was paid online.                                                        *)
(*                                                                         *)
(* All of these are transactions that lock the order or the charge row     *)
(* before they read what they decide on, so each is one step.  Two are     *)
(* not: verify asks Cashfree before its transaction and locks nothing, and *)
(* a refund reaches Cashfree before its transaction commits.               *)
(***************************************************************************)
EXTENDS Integers, FiniteSets, LedgerSums

CONSTANTS
    MaxCharges,     \* bounds the online charges of the order
    Keys,           \* idempotency keys of refunds; a key names its refund at Cashfree
    Verifiers,      \* calls of verifyOnlinePayment at work
    Bill,           \* what the payer owes
    RiderAmount,    \* the rider's part of the fare, frozen at delivery
    MaxCashRows,    \* bounds the CASH rows
    MaxLost         \* bounds the refunds whose transaction is rolled back

ASSUME MaxChargesAssumption == MaxCharges \in Nat
ASSUME AmountsAssumption == Bill \in Nat \ {0} /\ RiderAmount \in Nat \ {0}
ASSUME KeysAssumption == IsFiniteSet(Keys)
ASSUME BoundsAssumption == MaxCashRows \in Nat /\ MaxLost \in Nat

\* Charges are numbered in the order of their created_at.
Charges == 1..MaxCharges

VARIABLES
    planned,    \* the planned online amount; -1 before the plan is set
    delivered,  \* the order is DELIVERED and its finance snapshot frozen
    charge,     \* payment_transactions.transaction_status of each online charge
    gateway,    \* payment_gateway_attempts.gateway_status of each
    taken,      \* sum of the CASH charges
    returned,   \* sum of the CASH refunds
    refund,     \* payment_gateway_refunds, by idempotency key
    refundRows, \* the REFUND rows inserted for each gateway refund
    earned,     \* the EARNING of the order is in the rider's ledgers
    companyDue, \* the COMPANY_SHARE debit of the order, 0 if there is none
    verifier,   \* the charge each verify is about and what Cashfree told it
    session,    \* the order of the charge at Cashfree
    refused,    \* some payment attempt of the session failed
    atCashfree, \* refunds at Cashfree, by key and charge
    cashRows,   \* CASH rows so far
    lost        \* refunds that were rolled back so far

chargeVars == <<charge, gateway>>
cashVars == <<taken, returned, cashRows>>
refundVars == <<refund, refundRows>>
riderVars == <<earned, companyDue>>
cashfreeVars == <<session, refused, atCashfree>>
vars == <<planned, delivered, chargeVars, cashVars, refundVars, riderVars,
          verifier, cashfreeVars, lost>>

NoRefund == [of |-> 0, amount |-> 0, status |-> "NONE"]
NotAsked == [amount |-> 0, status |-> "NONE"]
Idle == [of |-> 0, remote |-> "NONE"]

SessionStates == {"NONE", "ACTIVE", "PAID", "EXPIRED"}
RefundStates == {"NONE", "PENDING", "SUCCESS", "FAILED"}

\* mapRefundStatus: what Cashfree says when it is asked for a refund.  INITIATED
\* is a PENDING that no webhook has spoken of.
RefundAnswers == RefundStates \ {"NONE"}

TypeOK ==
    /\ planned \in -1..Bill
    /\ delivered \in BOOLEAN
    /\ charge \in [Charges -> {"NONE", "PENDING", "PAID", "FAILED"}]
    /\ gateway \in [Charges -> {"NONE", "ACTIVE", "PAID", "EXPIRED", "SUCCESS", "FAILED"}]
    /\ taken \in Nat /\ returned \in Nat
    /\ refund \in [Keys -> [of: 0..MaxCharges, amount: Nat, status: RefundStates]]
    /\ refundRows \in [Keys -> Nat]
    /\ earned \in BOOLEAN
    /\ companyDue \in Nat
    /\ verifier \in [Verifiers -> [of: 0..MaxCharges, remote: SessionStates]]
    /\ session \in [Charges -> SessionStates]
    /\ refused \in [Charges -> BOOLEAN]
    /\ atCashfree \in [Keys -> [Charges -> [amount: Nat, status: RefundStates]]]
    /\ cashRows \in 0..MaxCashRows
    /\ lost \in 0..MaxLost

Init ==
    /\ planned = -1
    /\ delivered = FALSE
    /\ charge = [c \in Charges |-> "NONE"]
    /\ gateway = [c \in Charges |-> "NONE"]
    /\ taken = 0 /\ returned = 0
    /\ refund = [k \in Keys |-> NoRefund]
    /\ refundRows = [k \in Keys |-> 0]
    /\ earned = FALSE
    /\ companyDue = 0
    /\ verifier = [v \in Verifiers |-> Idle]
    /\ session = [c \in Charges |-> "NONE"]
    /\ refused = [c \in Charges |-> FALSE]
    /\ atCashfree = [k \in Keys |-> [c \in Charges |-> NotAsked]]
    /\ cashRows = 0
    /\ lost = 0

--------------------------------------------------------------------------------
(***************************************************************************)
(* What the sums in the database say.                                      *)
(***************************************************************************)

CountOf(status) == Cardinality({c \in Charges : charge[c] = status})

\* cashCollected
CashHeld == taken - returned

\* What REFUND rows of gateway refunds add up to.
RefundedOnline == Total([k \in Keys |-> refundRows[k] * refund[k].amount], Keys)

\* Successful payments less refunds, postgresPaid.
PaidSoFar == planned * CountOf("PAID") + CashHeld - RefundedOnline

RemainingOwed == Bill - PaidSoFar

AvailableForPendingOnline == RemainingOwed - planned * CountOf("PENDING")

\* planIsFullyDigital
FullyDigital == planned = Bill

\* Charges that verifiedOnlineBookingPaid counts.
Verified == {c \in Charges : charge[c] = "PAID" /\ gateway[c] = "SUCCESS"}

\* digitalEarningReady: the verified total equals the planned one.
EarningReady == FullyDigital /\ \E c \in Charges : Verified = {c}

\* The amount each refund was asked for, and the refunds of a charge: they
\* count until they FAILED.
RefundAmount == [k \in Keys |-> refund[k].amount]
RefundsOf(c) == {k \in Keys : refund[k].of = c /\ refund[k].status # "FAILED"}

\* Mutant: a refund counts from its success on.
RefundsDone(c) == {k \in Keys : refund[k].of = c /\ refund[k].status = "SUCCESS"}
RefundableUnlessDone(c) == planned - Total(RefundAmount, RefundsDone(c))

\* What is refundable of a charge.
Refundable(c) == planned - Total(RefundAmount, RefundsOf(c))

\* Of the captured charges that the amount fits, listRefundableCharges and the
\* loop over it select the oldest.
Fitting(a) == {c \in Charges : charge[c] = "PAID" /\ a <= Refundable(c)}
Selected(a, c) == c \in Fitting(a) /\ \A d \in Fitting(a) : c <= d

\* Mutant: the status of the order is not looked at.
SyncEarly ==
    /\ companyDue' = IF CashHeld' > RiderAmount /\ companyDue = 0
                     THEN CashHeld' - RiderAmount ELSE companyDue
    /\ earned' = (earned \/ (CashHeld' <= 0 /\ EarningReady'))

\* Mutant: cash does not exclude the earning, and a debit is repeated.
SyncTwice ==
    /\ companyDue' = IF delivered' /\ CashHeld' > RiderAmount
                     THEN companyDue + CashHeld' - RiderAmount ELSE companyDue
    /\ earned' = (earned \/ (delivered' /\ EarningReady'))

\* Mutant: only cash is settled once the order is delivered.
SyncCashOnly ==
    /\ companyDue' = IF delivered' /\ CashHeld' > RiderAmount /\ companyDue = 0
                     THEN CashHeld' - RiderAmount ELSE companyDue
    /\ earned' = (earned \/ (delivered' /\ ~delivered /\ CashHeld' <= 0 /\ EarningReady'))

\* syncOrderFinance, at the end of the transaction.  Neither posting is ever
\* repeated or corrected.
Sync ==
    /\ companyDue' = IF delivered' /\ CashHeld' > RiderAmount /\ companyDue = 0
                     THEN CashHeld' - RiderAmount ELSE companyDue
    /\ earned' = (earned \/ (delivered' /\ CashHeld' <= 0 /\ EarningReady'))

--------------------------------------------------------------------------------
(***************************************************************************)
(* The order and its payment rows.                                         *)
(***************************************************************************)

\* setPlan: online and cash add up to the responsibility; it is set once.
SetPlan(online) ==
    /\ planned = -1
    /\ planned' = online
    /\ UNCHANGED <<delivered, chargeVars, cashVars, refundVars, riderVars, verifier,
                   cashfreeVars, lost>>

\* createTransaction, ONLINE CHARGE: the session is opened at Cashfree and
\* stored; if the transaction fails nobody is told of the session.
OpenCharge(c) ==
    /\ planned > 0
    /\ charge[c] = "NONE" /\ \A d \in 1..(c - 1) : charge[d] # "NONE"
    /\ planned <= RemainingOwed
    /\ planned <= AvailableForPendingOnline
    /\ charge' = [charge EXCEPT ![c] = "PENDING"]
    /\ gateway' = [gateway EXCEPT ![c] = "ACTIVE"]
    /\ session' = [session EXCEPT ![c] = "ACTIVE"]
    /\ UNCHANGED <<planned, delivered, cashVars, refundVars, riderVars, verifier,
                   refused, atCashfree, lost>>

\* createTransaction, CASH CHARGE, by the assigned rider or an admin.
CollectCash(a) ==
    /\ planned >= 0 /\ cashRows < MaxCashRows
    /\ a <= RemainingOwed
    /\ taken' = taken + a
    /\ cashRows' = cashRows + 1
    /\ UNCHANGED <<planned, delivered, chargeVars, returned, refundVars, verifier,
                   cashfreeVars, lost>>
    /\ Sync

\* createTransaction, CASH REFUND, by an admin; the rider's side is not synced.
ReturnCash(a) ==
    /\ planned >= 0 /\ cashRows < MaxCashRows
    /\ a <= PaidSoFar
    /\ returned' = returned + a
    /\ cashRows' = cashRows + 1
    /\ UNCHANGED <<planned, delivered, chargeVars, taken, refundVars, riderVars,
                   verifier, cashfreeVars, lost>>

\* The DELIVERED transition: captureOnDelivered freezes the rider's amount.
Deliver ==
    /\ ~delivered
    /\ delivered' = TRUE
    /\ UNCHANGED <<planned, chargeVars, cashVars, refundVars, verifier, cashfreeVars, lost>>
    /\ Sync

\* freezeOriginal of an admin: the snapshot exists, the ledgers are synced.
Resync ==
    /\ delivered
    /\ UNCHANGED <<planned, delivered, chargeVars, cashVars, refundVars, verifier,
                   cashfreeVars, lost>>
    /\ Sync

--------------------------------------------------------------------------------
(***************************************************************************)
(* Online refunds.  The transaction holds the order and the charges while  *)
(* Cashfree is asked, so nobody sees it half done; when it is rolled back  *)
(* the refund is Cashfree's all the same.                                  *)
(***************************************************************************)

OpenAtCashfree(c) ==
    Total([k \in Keys |-> atCashfree[k][c].amount],
          {k \in Keys : atCashfree[k][c].status # "FAILED"})

\* initiateOnlineRefund.  Cashfree knows a refund by the order and the id made
\* of the key: a known one is answered 409 and fetched, a new one must be
\* covered by what the order was paid.
Asked(k, c, a, status) ==
    IF atCashfree[k][c].status = "NONE"
    THEN /\ OpenAtCashfree(c) + a <= planned
         /\ atCashfree' = [atCashfree EXCEPT ![k][c] = [amount |-> a, status |-> status]]
    ELSE /\ atCashfree[k][c] = [amount |-> a, status |-> status]
         /\ UNCHANGED atCashfree

\* What a stored key answers is replayed, so only an unused one comes this far.
MayRefund(k, c, a) ==
    /\ planned >= 0
    /\ refund[k].status = "NONE"
    /\ a <= PaidSoFar
    /\ Selected(a, c)

\* createTransaction, ONLINE REFUND; the REFUND row comes with a SUCCESS only, the
\* refund is stored whatever the answer.
RefundOnline(k, c, a, status) ==
    /\ MayRefund(k, c, a)
    /\ Asked(k, c, a, status)
    /\ refund' = [refund EXCEPT ![k] = [of |-> c, amount |-> a, status |-> status]]
    /\ refundRows' = [refundRows EXCEPT ![k] = IF status = "SUCCESS" THEN @ + 1 ELSE @]
    /\ UNCHANGED <<planned, delivered, chargeVars, cashVars, riderVars, verifier,
                   session, refused, lost>>

LoseRefund(k, c, a, status) ==
    /\ lost < MaxLost
    /\ MayRefund(k, c, a)
    /\ Asked(k, c, a, status)
    /\ lost' = lost + 1
    /\ UNCHANGED <<planned, delivered, chargeVars, cashVars, refundVars, riderVars,
                   verifier, session, refused>>

\* applyRefund: a webhook with what became of a stored refund.  One that is not
\* stored makes it throw, and a refund that ended is left alone.
WebhookRefund(k) ==
    /\ refund[k].status = "PENDING"
    /\ LET told == atCashfree[k][refund[k].of].status IN
        /\ told \in {"SUCCESS", "FAILED"}
        /\ refund' = [refund EXCEPT ![k].status = told]
        /\ refundRows' = [refundRows EXCEPT ![k] = IF told = "SUCCESS" THEN @ + 1 ELSE @]
    /\ UNCHANGED <<planned, delivered, chargeVars, cashVars, riderVars, verifier,
                   cashfreeVars, lost>>

--------------------------------------------------------------------------------
(***************************************************************************)
(* Settling a charge: applyPayment of the webhook, and verifyOnlinePayment.*)
(***************************************************************************)

SettlePaid(c) ==
    /\ charge' = [charge EXCEPT ![c] = "PAID"]
    /\ gateway' = [gateway EXCEPT ![c] = "SUCCESS"]

SettleFailed(c) ==
    /\ charge' = [charge EXCEPT ![c] = "FAILED"]
    /\ gateway' = [gateway EXCEPT ![c] = "FAILED"]

\* decideChargeTransition for a success
Payable(c) == charge[c] \in {"PENDING", "FAILED"}

WebhookPaid(c) ==
    /\ session[c] = "PAID"
    /\ Payable(c)
    /\ SettlePaid(c)
    /\ UNCHANGED <<planned, delivered, cashVars, refundVars, verifier, cashfreeVars, lost>>
    /\ Sync

\* Mutant: the webhook of a failed attempt ends a charge that was paid since.
WebhookFailedLate(c) ==
    /\ refused[c]
    /\ charge[c] \in {"PENDING", "PAID"}
    /\ SettleFailed(c)
    /\ UNCHANGED <<planned, delivered, cashVars, refundVars, riderVars, verifier,
                   cashfreeVars, lost>>

WebhookFailed(c) ==
    /\ refused[c]
    /\ charge[c] = "PENDING"
    /\ SettleFailed(c)
    /\ UNCHANGED <<planned, delivered, cashVars, refundVars, riderVars, verifier,
                   cashfreeVars, lost>>

\* verifyOnlinePayment asks Cashfree, outside a transaction.
Retrieve(v, c) ==
    /\ verifier[v] = Idle
    /\ charge[c] # "NONE"
    /\ verifier' = [verifier EXCEPT ![v] = [of |-> c, remote |-> session[c]]]
    /\ UNCHANGED <<planned, delivered, chargeVars, cashVars, refundVars, riderVars,
                   cashfreeVars, lost>>

\* The session was paid: the charge is settled, or Cashfree's word for the
\* status of the order replaces the gateway status that another settler stored.
VerifyPaid(v, c) ==
    /\ verifier[v] = [of |-> c, remote |-> "PAID"]
    /\ \/ Payable(c) /\ SettlePaid(c)
       \/ ~Payable(c) /\ gateway' = [gateway EXCEPT ![c] = "PAID"] /\ UNCHANGED charge
    /\ verifier' = [verifier EXCEPT ![v] = Idle]
    /\ UNCHANGED <<planned, delivered, cashVars, refundVars, cashfreeVars, lost>>
    /\ IF Payable(c) THEN Sync ELSE UNCHANGED riderVars

\* It was not: a session that is over ends a pending charge, and otherwise what
\* Cashfree said is written down.
VerifyUnpaid(v, c) ==
    /\ verifier[v].of = c /\ verifier[v].remote # "PAID"
    /\ \/ verifier[v].remote = "EXPIRED" /\ charge[c] = "PENDING" /\ SettleFailed(c)
       \/ /\ ~(verifier[v].remote = "EXPIRED" /\ charge[c] = "PENDING")
          /\ gateway' = [gateway EXCEPT ![c] = verifier[v].remote]
          /\ UNCHANGED charge
    /\ verifier' = [verifier EXCEPT ![v] = Idle]
    /\ UNCHANGED <<planned, delivered, cashVars, refundVars, riderVars, cashfreeVars, lost>>

--------------------------------------------------------------------------------
(***************************************************************************)
(* Cashfree.  A session whose payment attempt failed can still be paid.    *)
(***************************************************************************)

Refuse(c) ==
    /\ session[c] = "ACTIVE" /\ ~refused[c]
    /\ refused' = [refused EXCEPT ![c] = TRUE]
    /\ UNCHANGED <<planned, delivered, chargeVars, cashVars, refundVars, riderVars,
                   verifier, session, atCashfree, lost>>

Finish(c, how) ==
    /\ session[c] = "ACTIVE"
    /\ session' = [session EXCEPT ![c] = how]
    /\ UNCHANGED <<planned, delivered, chargeVars, cashVars, refundVars, riderVars,
                   verifier, refused, atCashfree, lost>>

DecideRefund(k, c, how) ==
    /\ atCashfree[k][c].status = "PENDING"
    /\ atCashfree' = [atCashfree EXCEPT ![k][c] = [amount |-> @.amount, status |-> how]]
    /\ UNCHANGED <<planned, delivered, chargeVars, cashVars, refundVars, riderVars,
                   verifier, session, refused, lost>>

--------------------------------------------------------------------------------

Next ==
    \/ \E n \in 0..Bill : SetPlan(n)
    \/ \E c \in Charges : OpenCharge(c) \/ WebhookPaid(c) \/ WebhookFailed(c)
    \/ \E a \in 1..Bill : CollectCash(a) \/ ReturnCash(a)
    \/ Deliver \/ Resync
    \/ \E k \in Keys, c \in Charges, a \in 1..Bill, st \in RefundAnswers :
        RefundOnline(k, c, a, st) \/ LoseRefund(k, c, a, st)
    \/ \E k \in Keys : WebhookRefund(k)
    \/ \E v \in Verifiers, c \in Charges :
        Retrieve(v, c) \/ VerifyPaid(v, c) \/ VerifyUnpaid(v, c)
    \/ \E c \in Charges : Refuse(c)
    \/ \E c \in Charges, how \in {"PAID", "EXPIRED"} : Finish(c, how)
    \/ \E k \in Keys, c \in Charges, how \in {"SUCCESS", "FAILED"} : DecideRefund(k, c, how)

Spec == Init /\ [][Next]_vars

--------------------------------------------------------------------------------
(***************************************************************************)
(* Properties.                                                             *)
(***************************************************************************)

\* The rider is credited from the wallet only for a delivered trip planned to
\* be paid online and whose whole bill Cashfree did capture, whichever of the
\* delivery, the webhook, a verify or an admin's resync came last.
EarningIsBacked ==
    earned => /\ delivered /\ FullyDigital
              /\ \E c \in Charges : charge[c] = "PAID" /\ session[c] = "PAID"

\* Whatever came last, a delivered trip that was paid online once and never in
\* cash has its earning, as long as no verify wrote over the SUCCESS.
EarningIsPosted ==
    /\ delivered /\ FullyDigital /\ cashRows = 0
    /\ \E c \in Charges : /\ charge[c] = "PAID" /\ gateway[c] = "SUCCESS"
                          /\ \A d \in Charges \ {c} : charge[d] # "PAID"
    => earned

\* The company never debits the rider for more than the cash beyond the rider's
\* part, and does debit as soon as a delivered trip brought that much cash.
CompanyShareIsDue ==
    /\ companyDue > 0 => delivered /\ companyDue + RiderAmount <= taken
    /\ delivered /\ returned = 0 /\ taken > RiderAmount => companyDue > 0

\* The refunds of a charge, told by Cashfree in whatever order and asked for
\* again after a rollback, never exceed what was captured.
RefundsFitCharge ==
    \A c \in Charges :
        Total(RefundAmount, RefundsOf(c)) <= (IF charge[c] = "PAID" THEN planned ELSE 0)

\* A gateway refund has its REFUND row exactly when it succeeded, once, and the
\* success is Cashfree's.
RefundHasItsRow ==
    \A k \in Keys :
        /\ refundRows[k] = IF refund[k].status = "SUCCESS" THEN 1 ELSE 0
        /\ refund[k].status = "SUCCESS" =>
             atCashfree[k][refund[k].of] = [amount |-> refund[k].amount, status |-> "SUCCESS"]

\* A captured charge stays captured: no late failure and no late verify takes
\* it back, and what Cashfree was not paid for is never PAID.
CaptureIsFinal ==
    [][\A c \in Charges : /\ charge[c] = "PAID" => charge'[c] = "PAID"
                          /\ charge'[c] = "PAID" => session[c] = "PAID"]_vars

\* "This phase applies digital earning [...] when" the trip is online-intended
\* and no cash was paid (WALLET_COD_ARCHITECTURE.md), and "concurrent webhook
\* settlement cannot be overwritten" (payments.service.ts, verifyOnlinePayment):
\* a delivered trip that was paid online once and never in cash has its earning.
PaidTripEarns ==
    /\ delivered /\ FullyDigital /\ cashRows = 0
    /\ \E c \in Charges : charge[c] = "PAID" /\ \A d \in Charges \ {c} : charge[d] # "PAID"
    => earned
================================================================================
