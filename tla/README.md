# Verification of the Idhar-Udhar backend

Idhar-Udhar is a parcel delivery service: a NestJS backend on Postgres, an admin
web app, and a customer and a rider app. The backend decides everything that
matters (who carries an order, what a rider is paid, who is signed in); the apps
are clients of it. This directory holds TLA+ models of the parts of the backend
whose correctness depends on the order of concurrent steps, TLC runs that check
them, and proofs of the main properties for every number of orders, riders,
withdrawals, payments, calls and processes.

Paths below are relative to `src/backend/src/` unless they say otherwise.

1. [The system](#1-the-system)
2. [Modules](#2-modules)
3. [Runs](#3-runs)
4. [Where the code differs from what it says](#4-where-the-code-differs-from-what-it-says)
5. [Proofs](#5-proofs)
6. [Not modelled](#6-not-modelled)
7. [Plan](#7-plan)

## 1. The system

All state that matters is in Postgres. A handler opens a transaction, locks the
row it works on (`SELECT ... FOR UPDATE`), tests, writes and commits. There are
several backend processes and no leader. Three kinds of code do not fit into one
locked transaction, and they are where the hard behaviour is: code that calls
Cashfree, FCM or MSG91 over HTTP; polls and workers that do their work in a
series of transactions; and statements that choose their rows in a snapshot and
then wait for a lock (READ COMMITTED looks again only at the row it waited for).

| Component | State | Operations | Talks to | Modelled |
|---|---|---|---|---|
| Order life cycle (`orders/order-status.ts`, `order-state-machine.ts`, `orders.service.ts`) | `orders`, `order_status_events`, fare snapshot | create, confirm, cancel, POST /status, assign | offers (expires them), settlement, wallet, notifications (in its transaction) | yes |
| Offers and dispatch (`orders/`, `catalog/`) | `order_offers` | dispatch, admin offer, accept, reject, expiry by polls | order row, location store, rider eligibility | yes |
| Withdrawals and payouts (`wallet-cod/`, `payments/cashfree-payment.service.ts`) | `rider_wallet_withdrawals` | request, reject, process, reconcile worker, payout webhook | Cashfree Payouts, wallet | yes |
| Payout beneficiaries (`wallet-cod/`) | beneficiary and instrument rows | register before the first transfer | Cashfree | one step of a withdrawal |
| Online charges, refunds, webhooks (`payments/`) | `payment_transactions`, gateway attempts, refunds, webhook events | plan, begin, verify, webhook, refund, cash | Cashfree PG, wallet, settlement | but for parsing |
| Wallet and COD ledger (`wallet-cod/`) | accounts, ledgers, suspension | finance of a trip, top-up, settle, withdraw, cleanup | orders, payments | but for the cleanup of COD rows |
| Waiting charges and receivables (`settlement/`) | wait timers, charges, receivable ledger | pickup, cancel, delivered, clearance | orders, payments | but for amounts |
| Notification outbox (`notifications/`) | notifications, deliveries, push tokens | notify (in the caller's transaction), worker, dismiss, register | FCM | but for reading and preferences |
| OTP and sessions (`auth/`) | challenges, sessions | request, verify, refresh, revoke | MSG91 | but for admin login |
| Rider presence (`location/`, `profiles/`, `auth/identity/`) | online status, last seen, online sessions | toggle, heartbeat, sweep, removal, approval | dispatch, notification worker (runs the sweep) | but for positions |
| Idempotency keys (`orders/idempotency.repository.ts` and its callers) | answered requests | look up, insert, replay | create, top-up, payment, withdrawal | yes |
| Fare, tax, configuration, catalogue, documents, routing, reports, audit | tables of their own | CRUD, arithmetic, one transaction each | | no |

What makes each of the concurrent ones correct:

* **Orders and offers.** One carrier per order; no rider takes two trips by
  accepting; nobody can answer an offer for an order that is taken; an answer is
  final; an order never waits for an answer nobody can give; seen from outside an
  order is drafted, opened, carried by one rider and finished.
* **Payouts.** At most one transfer request and one refund per withdrawal; never
  both money out and money back; the row tells what happened; what the bank
  decided reaches the row.
* **Payments of a trip.** A capture stays recorded whichever of verify and webhook
  comes first or last; a delivered trip that was paid online is credited to the
  rider, one paid in cash is debited with the company's share, neither without
  cause; refunds fit the charge.
* **Accounts of a rider.** Balance and COD due are what their ledgers add up to;
  what comes in is posted whole and once although part of it settles COD due; a
  rider shown CLEAR is.
* **Receivables.** A charge is credited once, whichever of its sessions, webhooks
  and verifies come; at most one session waits for payment; what was captured is
  credited; payment row, ledger and invoice agree.
* **Outbox.** Every committed notification is delivered or failed for good; it is
  pushed again only when nobody wrote down that it was; only dead tokens are dropped.
* **Sign-in.** A code is good for one session; a replaced code is dead; a refresh
  token is exchanged once; a session that was signed out stays so.
* **Presence.** Online time runs exactly while a rider is online; the silent are
  taken offline, the seen are spared; a removed rider ends offline.
* **Idempotency keys.** A key takes effect once, and every caller with that key and
  that request is told of the same effect.

The 40 hazards these properties are aimed at are listed, with their lines, in
`PROJECT.json`.

## 2. Modules

| Module | Models | With |
|---|---|---|
| `OrderStatus`, `OrderDispatch` | status graph; orders, offers, dispatch, polls | `OrderDispatchProofs`, `MCOrderDispatch` |
| `OrderPromise` | abstract: draft, open, carried by one, done or cancelled | implemented by `OrderDispatch` |
| `RiderPayout` | withdrawals, flows, Cashfree | `RiderPayoutProofs`, `MCRiderPayout` |
| `TripFinance` | a booking's charges, cash, refunds, earning, company share | `MoneyProofs`, `MCTripFinance` |
| `WalletAccounts` | a rider's two accounts, their ledgers, suspension, cleanup | `MoneyProofs`, `MCWalletAccounts` |
| `LedgerSums` | the SUM of a set of rows | used by both |
| `WaitingReceivable` | waiting charge, clearance sessions, settlers, Cashfree PG | `WaitingReceivableProofs`, `MCWaitingReceivable` |
| `NotificationOutbox` | outbox, workers, tokens, FCM | `NotificationOutboxProofs`, `MCNotificationOutbox` |
| `RiderPresence` | online status, signs of life, sweep, sessions | `RiderPresenceProofs`, `MCRiderPresence` |
| `IdempotentCalls` | the life of a call that carries a key | `IdempotentCallsProofs`, `MCIdempotentCalls` |
| `OnceOnly` | abstract: what a key promises | implemented by `IdempotentCalls` |
| `SignIn` | codes, verifications, sessions, refreshes | `SignInProofs`, `MCSignIn` |

How they fit together: the orders of `OrderDispatch` are delivered in `TripFinance`,
`WaitingReceivable` and `WalletAccounts`, which know of the order only the moment
that concerns them. `TripFinance` decides when an earning or a company share is due,
of which `WalletAccounts` takes any sequence and posts it; `RiderPayout` decides
when a withdrawal is refunded, of which `WalletAccounts` takes any, once each. The
calls of `TripFinance`, of top-ups, withdrawals and order creation are those of
`IdempotentCalls`. `RiderPresence` is what moves `OrderDispatch.condition`.

Operators named as what a plausible bug would make of a definition (comment
"Mutant") stand before the definition they vary; no action uses them. Each
property of a passing run is paired with one in `PROJECT.json`.

### OrderDispatch

One row of `orders` is `status[o]`, `rider[o]` and membership in `snapshot`; one
row of `order_offers` is `offer[o][r]` (the pair is unique in the schema).
`lapsed` holds the pairs whose pending offer is past its time to live: time is
only this set and the action `Lapse`. `condition[r]` is what eligibility and
ranking read of a rider. `history[o]` keeps the newest event and those idempotency
keys an order can use twice; all others name an offer or an edge taken once.

Every action is one transaction that locks the order row, but for the expiry of
the polls (`releaseExpiredOffers`): `SweepExpire` is one UPDATE over all orders
that takes no order lock, and `sweep[p]` holds the orders process `p` has yet to
visit; `SweepRelease` visits one, `SweepLost` is the failed or lost visit.
`Dispatch` stands for the dispatch after confirm, reject and expiry as well as for
its retry by polls: the code runs it in a transaction of its own and swallows its
failure, so any of them may be lost, and the polls repeat it while the order is
SEARCHING.

`InsertOffer` is where the model follows Postgres rather than the text of the code: an
INSERT that violates `order_offers_pair_unique` aborts the transaction, so the
`reopenExpiredOffer` in the catch block, and the candidates after it, cannot
succeed.

### RiderPayout

`status`, `sent`, `known` and `refund` are columns of the withdrawal; `sent`
keeps of `provider_status` whether it is null, IU_TRANSFER_NOT_SENT,
IU_TRANSFER_CLAIMED or something Cashfree said. A flow is one run of
`markWithdrawalProcessing` or `reconcileWithdrawal`: `flow[p].at` is the
point at which it last gave way, and `unsent` what it read and will act on later.
Each step is one transaction or one HTTP exchange. `Crash` ends a flow anywhere.
The reconcile worker's `running` flag is per process, so several flows on one
withdrawal are real (two processes, or a worker and an admin).

Cashfree is external: a request is on the wire, arrives or gets lost, is decided,
may be reversed; webhooks for any status it has had come at any time and any
number of times; GET answers the present state. It may always answer an HTTP error
that decides nothing ("error", which `Apply` takes for a failure as the code does),
and a transaction or a GET of a flow may always throw (`Throw`, then `Catch`). Two
history variables name the rows on which the code then acts against its own promise
(section 4): `misread`, an error decided the row, and `reopened`, the catch block
wrote PROCESSING over a row that was refunded. What beneficiary registration does to
a withdrawal is the action `Gate`.

### TripFinance

One order and its payer. `planned` is the online part of the payment plan; `charge`
and `gateway` are the two statuses of an online charge, `session` its truth at
Cashfree; `taken` and `returned` sum the CASH rows; `refund`, `refundRows` and
`atCashfree` are one refund as seen by the gateway table, the transaction table
and Cashfree. `earned` and `companyDue` are the two postings on the rider.

Most handlers lock the order or the charge before they read and are one action,
`Sync` (`syncOrderFinance`) included, which each ends with when the code does:
a cash refund does not. Two are not. `Retrieve` is what verify asks Cashfree before
its transaction, and `VerifyPaid` and `VerifyUnpaid` write it later over whatever
a webhook has stored since. A refund reaches Cashfree before its transaction commits:
`LoseRefund` is the one that is rolled back after, and a later call with the same key
finds it there (409, then GET). Cashfree may answer with any status, a failure
included; INITIATED is taken as PENDING.

### WalletAccounts

The wallet of one rider and the COD due. A ledger is a function from (type, cause)
to the signed sum of its rows, of which a unique index or the locked test before the
insert allows one. `Inflow` is `applyInflow`: `SettleThenCredit` pays the COD due
first and the rest to the wallet, and then both accounts must agree with their
ledgers or the transaction is rolled back (here: a guard, which *InflowAgrees* proves
is never false). `DeliverTrip` and `PostAgain` are `syncOrderFinance` at the delivery
and at every later call. All operations take the three
locks of `lockAccounts` first and are one action each, but for an admin's cleanup:
`lockWalletLedger` waits for the account and yet has summed the ledger in a subquery
of its own snapshot, so `CleanupLook` reads and `CleanupReverse` or `CleanupRefuse`
decides later, and `Recompute` sums again. A withdrawal, its refund and a cleanup do
not touch the status; the pages, the toggle and dispatch (`Look`) do.

Left to other modules: when an inflow is due (any, here) and why a refund comes
(any, once). Amounts are 1..`MaxAmount`. Ledger rows of COD from before the
company's share moved to the wallet are in the initial state only, as no code writes
them any more. `RowsAssumption` has the causes finite in number, as SUM needs, and
`KindsAssumption` tells the top-ups from the settlements, as the prefixes of their
`source_txn_id` do.

### WaitingReceivable

What one customer owes for waiting at the pickup, and how it is cleared online.
`waiting` is `order_waiting_charges.settlement_status`; `charged` and `credits` are
the rows of `customer_receivable_entries`; `charge` and `gateway` are the status of
the payment and of its gateway attempt; `session` is the truth at Cashfree. A
request `r` is one call of `beginReceivableClearance`, and names the session it
opens. A settler is a webhook delivery or a verify.

The model is about four lock domains and one read that no lock covers:

* A transition, and a request for a session, hold the order row FOR UPDATE. The
  request holds it across the call to Cashfree ("locked", "opening").
* A settler holds its payment row, then the customer's wallet, while it reads the
  charge (`CheckOwed`). It takes no lock on the order or on the assessment.
* Its insert of the credit has a foreign key to `orders`, so it waits for whoever
  holds the order row (`Commit`). The notification of a failed charge names the order
  too, and waits alike. Between `CheckOwed` and `Commit` lies what a transition
  can change.
* A request waits for the rows of pending charges with the order locked, so it can
  wait for a settler that waits for it: `AbortRequest` and `AbortSettler` are
  Postgres breaking the cycle. Other aborts (verify locks the attempt before the
  payment, a webhook the other way round) look like `Crash` or `GiveUp`.

A step that only waits before its last lock is one action guarded by that lock; what
a transaction wrote is seen when it commits. A call that reuses a session stores
no idempotency key, so its request is new again. Not modelled: amounts (a charge is
whole or nothing, and a session is for all of it), the fare's own payments (`fare`
is what the delivery finds), the test of createOrder that nothing is outstanding.

### NotificationOutbox

An event key names its notification, whose two deliveries are `status[e]`. A
worker holds at most one push: `worker[w].step` says how far it is (claimed, tokens
listed, answered, decided), and the row stays locked from `Claim` to `Commit`,
as in the code, where the push is sent inside the transaction. Which devices a push
reached and which of them FCM acknowledged are two things: in `Send` an error of the
moment may hide a push that arrived, in `Unavailable` the whole answer is lost (a
timeout, a throw after an earlier batch went out), and in `DropFails` the
deactivation throws, so that the worker's catch counts an acknowledged push as
failed. `Crash` is a rollback at any point: status and attempts are what they were,
and `pushed` is not. `unrecorded` counts the pushes that arrived and that nobody
will write down.
Claims go to the oldest delivery that is due and not locked (`FOR UPDATE SKIP LOCKED`).
Device tokens live beside: listing, pushing and deactivation of those that FCM
rejected are three steps, and `Register` may come in between. `Dismiss` deletes
and so waits for the lock; the key is free again.

### RiderPresence

Time is kept as ages so that it never ends: `seen` is how long ago the rider was
seen, capped where all ages look alike, and a call's `age` is how long ago its
transaction's `now()` was. A statement is two steps when it may wait: its snapshot
(which rider matched, which session was open), then the write with READ COMMITTED's
second look at the row (`StillSilent`). `expireStaleOnlineRiders` closes only
sessions of its snapshot, `applyOnlineStatus` locks first and reads then,
`touchRiderLastSeen` may open a session. `Gate` is what a handler tests before its
transaction begins, so an admin's removal can come after it.

Only the code under `RIDER_ONLINE_TIME_ENABLED` is modelled, with its locked
transaction and its sessions. The flag is false by default (`config/configuration.ts`);
without it `updateRiderOnlineStatus` is one UPDATE of the status and no sessions are
opened.

### IdempotentCalls and OnceOnly

A call looks before its transaction, looks again inside it, and (payments) once more
with the order locked, depending on its kind (`LookOutside`, `LookInside`, `Lock`);
writes its work and its key's row; waits for a row of the same key that is not
committed; and after a unique violation finds the winner's row (`FindRaced`) or is
refused. `CommitUnheard` is an answer that does not arrive, `Crash` a rollback.
`OnceOnly` says what all this is for: a key takes effect once, and an answer is that
effect, a conflict or a refusal.

### SignIn

One phone. `before[r]` are the requests whose transaction began earlier, which is
what `ORDER BY created_at DESC` goes by; `consumeOpenChallenges`,
`lockLatestForPhone` and the UPDATE of `rotateRefresh` are each a choice and a
second look. A request's cooldown is read before its transaction (`Check`).
The exchange's second look asks only for the hash and that nobody revoked the
session: its `now()` is the start of the statement, so a session that expires while
the statement waits is still exchanged. A refresh presents a token that the session once had, since an app may repeat a
refresh whose answer it lost.

## 3. Runs

| Run | Instance | Checks | Result |
|---|---|---|---|
| `dispatch_orders` | 2 orders, 2 riders, 1 poller, any distance | CarrierConsistent, NoOfferOutlivesAssignment, OneAcceptedTrip | holds, 160 000 states |
| `dispatch_trip` | 1 order, 2 riders, 2 pollers, all conditions, whole trip, 1 lost step, fair | StrandedIsSwept, AnswersAreFinal, ImplementsPromise, OfferedResolvesUnlessLost | holds, 44 000 states |
| `payout_races` | 1 withdrawal, 2 flows, fair | RefundMeansNoTransfer, StatusIsTrue, DecidedIsFinal, DecidedTransferSettles | holds, 23 000 states |
| `payout_faults` | 2 withdrawals, 2 flows | RefundedAtMostOnce, AtMostOnePost | holds, 2.3 million states |
| `trip_money` | 2 charges, 2 refund keys, 1 verify, a bill of 2, 1 cash row, 1 lost refund | EarningIsBacked, EarningIsPosted, CompanyShareIsDue, RefundsFitCharge, CaptureIsFinal | holds, 2.6 million states |
| `wallet` | 1 order, 2 top-ups, 1 settlement, 2 withdrawals, 2 cleanups, amounts to 2 | AccountsMatchLedgers, InflowIsWhole, ClearIsTrue | holds, 2.2 million states |
| `waiting_clearance` | 1 order, 2 requests, 2 settlers, 3 calls, 1 crash, fair | ClearedAtMostOnce, LedgerAgrees, OnePending, InvoiceShowsClearance, SoleCaptureIsCredited | holds, 192 000 states |
| `outbox` | 2 events (1 an offer), 1 device, 2 workers, 2 attempts, 2 notifications, 1 crash, fair | PushedOnce, OnlyDeadTokensDropped, Concluded | holds, 670 000 states |
| `presence` | 2 calls of the app, 1 sweeper, 4 sessions, window 2, delay 1, fair | OfflineHasNoSession, OnlineStaysRecorded, RemovedGoesOffline, SilentGoesOffline | holds, 210 000 states |
| `idempotency` | a call, its repetition, another request with its key, a call apart; all kinds; funds for 1; fair | ImplementsOnceOnly, PaidIsNotRefused, CallsAreAnswered | holds, 92 000 states |
| `sign_in` | 2 codes, 3 verifies, 2 refreshes, 2 sessions, 2 attempts, 3 tokens | CodeUsedOnce, ReplacedCodesAreDead, TokenExchangedOnce, SignedOutStays | holds, 924 000 states |
| `trip_verify_overwrite` | 1 charge, 1 verify, no cash | PaidTripEarns | violated |

Type correctness is a theorem for the modules with proofs, so the runs spend nothing on it.

**Bounds.** `MaxLost` bounds the lost second steps of expiries, and the refunds that
are rolled back; one is enough to strand an order, or to leave a refund that no row
tells of. `TripsEndAtAssignment` cuts the two-order run at the assignment (the moves
after it touch neither offers nor riders; cancellation, which frees a rider, is
kept). Two orders and two riders give every contest the properties speak of: two
riders for an order, two orders for a rider, one poll against an answer; two pollers
give a poll against a poll. Two flows and an admin give every pair of writers of a
withdrawal; two withdrawals share one balance. Two charges with one verify give a
paid charge next to an opened one and a verify that is late against each; two keys
give a second refund against one that was lost; a bill of 2 lets a refund be a part.
Amounts to 2 with a floor and a threshold of 2 let one posting settle the COD due
wholly, partly or not at all and cross the floor in one step or in two; two cleanups
give a reversal that waits for another. Two requests for one order give overlapping
calls and, after a failed attempt, two sessions; two settlers give a webhook against
a verify and two paid sessions against each other; `MaxCalls` = 3 lets a request
come back once more, `MaxCrashes` = 1 a settler end anywhere. `MaxBirths` = 2 writes
both notifications or one of them again after its dismissal; two attempts give a
retry and the end of retries. A window of 2 and transactions of 1 let a call begin
before and write after the moment a rider goes silent; four sessions are one open,
one found by each call and a new one. Three verifies with two attempts give a right
code that comes after the last guess. Three tokens give a session whose token was
exchanged twice. Symmetry is used only where no liveness property is checked and no
constant tells the members apart. What the proofs cover holds for all sizes, so the
bounds matter for the rest: the liveness properties.

Deadlock checking is off where the system has nothing left to do in the end: a
cleared charge, decided withdrawals, a settled trip, delivered
notifications, answered calls, a phone that asked for all its codes.

**Fairness.** *Dispatch*, *SweepExpire*, *SweepRelease*: the customer app polls its
searching order and every online rider's app polls its offers, and each poll runs
them. *Lapse*: time passes. No customer, rider or admin is obliged to act. For
payouts the worker comes back with every tick and after a restart, so a flow goes on
or ends (weak), and each of reconcile, GET and apply happens if it is possible again
and again (strong): a network and a database that fail sometimes but not always. For
the waiting charge a webhook that is not acknowledged is sent again (strong: it
needs the payment row free), a transaction goes on when its locks are free (strong,
since others take them in between), and Postgres breaks a deadlock (weak). Nobody
must pick up, deliver, pay or verify. For the outbox the interval of each process
starts a cycle again and again, a call to FCM ends and backoffs elapse (weak);
nothing is assumed of any one delivery. For presence time passes, a call that began
ends and the worker of every process sweeps at each cycle (weak); the rider and the
admin need do nothing. For keys a call that was received is carried on with (weak),
or its process crashes. The other runs check safety only.

## 4. Where the code differs from what it says

One disagreement is kept as a run:

* **A late verify loses an earning** (`trip_verify_overwrite`,
  `payments/payments.service.ts` verifyOnlinePayment). Verify asks Cashfree before
  its transaction. When it heard ACTIVE and a webhook settles the charge meanwhile,
  the decision is taken on the re-read row and the charge stays PAID, but the gateway
  status becomes ACTIVE. `verifiedOnlineBookingPaid` counts only SUCCESS and PAID, so
  a delivery after that finds the booking unpaid and the rider's digital earning is
  not posted. `EarningIsPosted` says what does hold: without such an overwritten
  status the earning is there.

Others were met while modelling. The modules do what the code does; the properties are
stated so that they are true of it, and what they leave open is this:

*Orders.* An expired offer of the nearest rider makes `createOfferInTx` fail on its
unique key; the reopening in the catch block runs in an aborted transaction, so the
next rider is not tried (the unit test's database is a mock). Nothing but the poll
that expired an offer looks at an OFFERED order without pending offers, so a lost
second step strands it (`StrandedIsSwept` says this is the only way there, hence
OfferedResolves*UnlessLost*). Two status events can have one idempotency key and the
second is not recorded.

*Payouts.* The catch of a reconcile writes PROCESSING over a row that was decided
since it was read, and an HTTP error that decides nothing counts as a refusal and is
refunded. Both are in the model, whenever they can happen, and RefundMeansNoTransfer,
StatusIsTrue and DecidedIsFinal name them as their only exceptions: a refunded
withdrawal may still be paid only if an error decided it (`misread`) or the catch
reopened it after the refund (`reopened`); a refund is missing from the status only
in the second case; a decision is undone by nothing but that catch. What holds with
no exception: SUCCESSFUL was paid, a status that owes a refund has it, one POST, one
refund.

*Receivables.* A settler reads the charge, an admin cancels the order and voids it,
the settler credits it: both test what they must, and no lock orders the tests
(`SoleCaptureIsCredited` excepts voided charges). A failed attempt hides a session
that can still be paid from the next request, so two sessions can be live, of which
one is credited and the other's webhook fails for ever (`OnePending` is what the
code does ensure). `beginReceivableClearance` has no catch for a raced key, as its
neighbours have.

*Payments of a trip.* What is refundable in cash does not count an online refund
that is still pending, so both together can exceed what was paid. A second charge
may be opened and paid beside a first (`MASTER_SYSTEM_ARCHITECTURE.md:1514-1517` has
one); if both are PAID the earning is not posted, as the verified total is no longer
the planned one. A trip credited online can be paid in cash afterwards and is then
debited too, and nothing is taken back. The company's share is debited once and not
adjusted to later cash.

*Accounts.* A cleanup that projects from its snapshot can drive a balance negative
that a withdrawal lowered meanwhile, which the policy refuses
(`wallet-cleanup.policy.ts`, "which this ledger does not allow"); the balance still
is what the ledger says. An admin may reverse the refund of a withdrawal, or a
company share, which is then never debited again.
`records_database/WALLET_COD_ARCHITECTURE.md` still has a balance that is never
negative; migration 0037 dropped that check. The text "recharge at least X to resume
service" leaves out that the COD due is paid first. Of two top-ups with one key the
loser leaves an order at Cashfree that nobody pays. A withdrawal, cleanup or refund
leaves the stored status as it was until somebody looks.

*Keys.* A withdrawal that repeats one which is about to succeed is answered
WALLET_INSUFFICIENT when the first took the balance: it looks for its key before it
has the lock and not after (`CONCEPTUAL_DATABASE_ARCHITECTURE.md:2442-2443` has the
same answer for a repetition). `payment_tx_idemp_unique` is still caught although
migration 0026 dropped it. Work done through the pool inside a transaction can wait
for a connection that the transactions themselves occupy.

*Sign-in.* Concurrent requests for a code can leave two open challenges, or none
usable until the cooldown ends, and pass the limit of an address together. A refresh
whose answer is lost leaves the app with a token that is no longer good until
somebody signs in again.

*Presence.* A heartbeat may answer that presence is fresh though the sweep has taken
the rider offline; going OFFLINE after a silence counts the silence as online time.
A request to go online that has passed its gate takes effect after the admin's
removal, so a removed rider may be online for a time. `RemovedGoesOffline` says that
this ends: no further request passes the gate and the sweep ends what that one began.
It does not if the app goes on sending locations, which nothing refuses a removed
rider who signs in again; the property excepts that. `RemovedForGood` (a theorem, in
no run) adds that once offline, with no such request under way, the rider stays so.

*Outbox.* A push that arrived is sent again when FCM's answer to it is lost, or when
the deactivation of another token throws after it (`fcm-push.provider.ts` has both
retried): `PushedOnce` counts such pushes and says that there is no other way to a
second push but a rollback, and that the attempts bound them. A delivery whose
transaction always fails rolls its own attempt count back and is claimed first again.

## 5. Proofs

All theorems are for arbitrary constants under the named assumptions of the
modules. Each proof module has a type invariant, an inductive invariant,
one step per action in the proof that it is inductive, and the theorems.

**OrderDispatchProofs.** The actions are first reduced to what one of them can do
to one order (`OrderMove`) and to one offer (`OfferMove`); `StepMoves` proves that
every step is such a move. `DispatchInv` (type, lapsed offers are pending, and the
three invariants, which need each other: accept relies on NoRider before the
assignment, one trip relies on the consistent carrier) is proved inductive from the
moves. *AnswersStay* follows from the moves; *StrandedOrdersAreSwept* is proved per
action; *DispatchKeepsPromise* shows that each step changes one order only
(`OneOrderMoves`) and maps to a step of `OrderPromise` or a stutter.

**RiderPayoutProofs.** *TypeCorrect* needs `FlowsHaveWork` (a flow that is not
idle works on a withdrawal). *RefundedOnce* is inductive by itself. *PostedAtMostOnce*
is not: a second POST is excluded because the claim is. Its invariant `PostInv`
adds `ClaimInv`: a row never started has no claim and no POST; once posted a row is
not NOT_SENT with no transfer id; and of all flows at most one holds the claim of a
row, which then still says CLAIMED or was answered since. *RefundedIsUnpaid*,
*StatusTellsTheTruth* and *DecisionsAreFinal* have no assumption about the
environment: crashes, gateway errors and faults are steps like any other, and the two
exceptions of section 4 are in the statements. Their invariant `MoneyInv` adds: a
transfer was posted by someone; a flow that holds a claim works on a PROCESSING row, unless an
error decided that row meanwhile; the answer a flow carries is true of the transfer
(an outcome once true stays so, but for a reversal), unless it is an error, of which
nothing is claimed. No step takes a row out of the two history sets (`HistoryGrows`).
*NoMoneyIsMadeOrLost* needs none of this: with
crashes, faults and errors a step moves one withdrawal's amount between the balance
and what is at stake, or nothing. It rests on PostInv, since a flow that wrote a
status on a row nobody requested would put at stake what was never debited, and on
`RefundsWereAsked`.

**MoneyProofs, sums.** `Total` is a fold of the library, a recursive function over
the subsets of a set. What it does to every finite set is proved without induction
over an operator: the strict subsets of a finite set are well founded, so a fact
that fails for some subset fails for a smallest one (`SmallestSet`), which has a
smaller neighbour that it does not fail for. This gives that the recursive function
exists (`AddsExists`) and is the only one, one step of it (`TotalStep`), that a sum
of integers is an integer, that the order does not matter (`TotalTake`), and that
one changed row changes the sum by as much (`TotalChange`), which is what the proofs
about money use.

**MoneyProofs, TripFinance.** `CaptureInv` says that a PAID charge was paid at Cashfree,
and that a verify which says so knows it; *CapturesStay* follows. `RiderInv` has the
three properties of the rider's side together, with what they need of the plan and
of cash: no charge before the plan, no sums without rows. An action either leaves
what `Sync` reads alone or ends in it (lemmas on each), and `Sync` re-establishes
all three; their arithmetic is in lemmas of its own. `RefundInv` ties the three
records of a refund together: what is stored, was asked for; the REFUND row comes
with the success, once; the success is Cashfree's. `FitInv` adds to RefundsFitCharge
that a key with no refund is no charge's, so that a stored refund is one new member
of the sum, and that no charge was made before the plan that measures it; a refund
the loop selected fits, and a webhook only takes members out (`RefundFits`,
`WebhookFits`): *RefundsFitTheirCharge*.

**MoneyProofs, WalletAccounts.** `WalletInv` is inductive. *AccountsAgree* goes
through only with the types of the ledgers and with each posting finding its row
empty, hence `NothingEarly` (no row of a trip not delivered or a top-up not paid)
and InflowIsWhole (an earning there is all there), which is also what makes the test
of `EarningPosted` right when the due took all of it. `CleanupsAreSound` has a
cleanup reverse only a row of its policy. `DebitsLower` (company shares and payouts
are never positive) makes their reversal a credit, so that, but for the reversed
refund of a withdrawal, a cleanup cannot bring a CLEAR rider to the floor:
*ClearRidersAreInService*. The cleanup's stale sum is not in the invariant at all:
whatever was seen, `Recompute` sums again. *NothingIsPostedAgain*, an action property,
and *DebitsCostTheirAmountOrNothing* (a row that gives back is written after the one
that took, for its amount, and then neither changes) follow from the same invariant;
no run checks these two.

**WaitingReceivableProofs.** Four inductive invariants, each proved on top of the
types. `LockInv`: one settler at a time is between read and insert, and still sees
no credit; one request holds an order, and what it read as owed is owed until it
lets go. From it follow *ClearedOnce* and *OpenedForDebt*. `SessionInv` (with
`LockInv`): while a request asks Cashfree no charge of the order is pending; it
gives *OnePendingSession* and *PendingUsable*, which need each other, as a request
may pass over unusable rows only if there are none. `LedgerInv`: nothing exists of
a session before its request is answered, and a settler's belief that a session was
paid stays true; it gives *LedgerTellsTheTruth*, from three lemmas that list the ways a step
changes a charge, a session and a settler. `InvoiceInv`: an invoice exists after the
delivery only; it gives *InvoiceTells*. None of them needs a bound on calls or crashes.

**NotificationOutboxProofs.** The invariant says what a claim means (`Held`,
`OneHolder`): no two workers hold a delivery, a held delivery is there and PENDING,
the outcome about to be written is true, and the tokens a worker believes dead are.
`Counted` accounts for pushes: each but one is unrecorded, and all are if nobody is
about to write one down; and they are no more than the attempts and rollbacks so far,
with one more while a worker has pushed and not ended. Dismissal needs the claim,
since it waits for it. Besides the properties of the run it gives *RetriesAreBounded*, *SentIsTrue*
and *DismissedStaysQuiet*.

**RiderPresenceProofs.** The sweep closes only a session that its snapshot saw.
`Recent` is why that is enough: if another session is open by the time it writes,
whoever opened it has seen the rider since the sweep began, within the longest a
transaction takes, so the second look lets the rider be. `Gone` (removed, offline, no
call to go online) is kept by every step, since a gate refuses and a call keeps its
kind: *RemovedRidersStayOffline*, of a formula with a box inside, and the safety part
of RemovedGoesOffline. *TheSeenAreSpared* too is in no run.

**IdempotentCallsProofs.** `Held` ties index entry and lock to a call of that key
and kind at that point; `Course` says what a call may rely on where it stands: one
that is about to commit has the entry of its key, which no other transaction can
then have, and the key has no row; a payment that has the lock has looked since.
With it every step maps to a step of `OnceOnly` or a stutter
(*KeysKeepTheirPromise*). *NoDeadlock* is the safety part of CallsAreAnswered: a call
that has its lock is the only one of its kind that has, so none waits for an index
entry while others wait for it.

**SignInProofs.** A code that made a session is consumed and stays so
(`SessionsAreMade`); a challenge chosen to be replaced had been stored, so nothing
opens it again (`ReplacedWereStored`); a token that was exchanged is behind the
session's own (`TokensAreBehind`). These, with the type and what a verification has
chosen, are inductive.

Only model-checked: the liveness properties (DecidedTransferSettles,
OfferedResolvesUnlessLost, SoleCaptureIsCredited, Concluded, SilentGoesOffline,
RemovedGoesOffline, CallsAreAnswered), as neither fairness nor ENABLED is within the prover's reach.
Every invariant and action property of a run is a theorem. The modules
that are proved about declare no RECURSIVE operator.

## 6. Not modelled

Arithmetic of fares and taxes (done by Postgres on decimals), texts and layout,
signatures and parsing of webhooks, uploads, reports, audit, catalogue and
configuration CRUD, the deletion of an order by an admin (one transaction under a
policy), and the apps beyond their polling. Of modelled components: the states of
beneficiary registration, the cleanup of COD and customer rows (only rows that no
code writes could pass its policy), an admin's FAILED payment rows, the admin's
password login, reading and preferences of notifications, and the store of
positions. The rows of `PROJECT.json` "components" say why for each. Postgres is
taken at its word: row locks, unique keys, a statement that fails aborts its
transaction, READ COMMITTED.

## 7. Plan

1. **PayoutBeneficiary**: the registration behind `Gate`, refining it.
2. **Rounding**: the pickup-wait and commission arithmetic against reference
   definitions over bounded inputs.
3. **OrderPurge**: an admin's deletion against payments and claims under way.
4. **RiderDocuments**: upload, review and approval, behind `Approve` and `Unapprove`.
