----------------------------- MODULE WalletAccounts -----------------------------
(***************************************************************************)
(* The money of one rider (backend/src/wallet-cod): a wallet, whose balance*)
(* may be negative, and the COD due, what the rider owes of old cash.      *)
(* Each account keeps a balance beside an append-only ledger, and the rider*)
(* profile a status that says whether the rider may take trips.            *)
(*                                                                         *)
(* Deliveries, top-ups, settlements, withdrawals and their refunds lock the*)
(* profile and both accounts (lockAccounts) before they read, so each is   *)
(* one step.  An admin's cleanup is two: the statement that waits for the  *)
(* account's lock sums the ledger as it was when the statement began.      *)
(*                                                                         *)
(* What a trip's payments make due is the matter of TripFinance, the fate  *)
(* of a withdrawal of RiderPayout; here both are inputs.                   *)
(***************************************************************************)
EXTENDS Integers, FiniteSets, LedgerSums

CONSTANTS
    Orders,         \* trips of the rider
    TopUps,         \* WALLET_TOPUP charges
    Settlements,    \* idempotency keys of settle
    Withdrawals,
    Cleaners,       \* calls of the wallet cleanup at work
    MaxAmount,      \* the largest amount of one posting
    Floor,          \* service stops when the balance is at or below -Floor
    Threshold       \* and when the COD due reaches this

ASSUME LimitsAssumption == MaxAmount \in Nat /\ Floor \in Nat \ {0} /\ Threshold \in Nat \ {0}

ASSUME RowsAssumption ==
    /\ IsFiniteSet(Orders) /\ IsFiniteSet(TopUps)
    /\ IsFiniteSet(Settlements) /\ IsFiniteSet(Withdrawals)

\* Both name RECHARGE_SETTLEMENT rows of the COD ledger, by a source_txn_id of
\* "wallet-topup:" and the charge, or of "settle:", the rider and the key.
ASSUME KindsAssumption == TopUps \intersect Settlements = {}

(***************************************************************************)
(* Ledger rows by type and cause.  A row not there is 0; rows of one type  *)
(* and cause are added, as the balance would add them.                     *)
(***************************************************************************)
WalletRows ==
    ({"EARNING", "COMPANY_SHARE", "COMPANY_SHARE reversal"} \X Orders)
      \union ({"RECHARGE"} \X TopUps)
      \union ({"PAYOUT", "ADJUSTMENT", "ADJUSTMENT reversal"} \X Withdrawals)

CodRows ==
    {<<"CASH_COMPANY_SHARE", "legacy">>}
      \union ({"DIGITAL_EARNING_SETTLEMENT"} \X Orders)
      \union ({"RECHARGE_SETTLEMENT"} \X (TopUps \union Settlements))

VARIABLES
    wallet,     \* wallet_ledger_entries, signed
    cod,        \* cod_ledger_entries, signed
    balance,    \* rider_wallet_accounts.available_balance
    due,        \* rider_cod_accounts.cod_due
    status,     \* rider_profiles.cod_operational_status
    trip,       \* how far each order is
    fare,       \* the rider's amount, frozen by the delivery
    topUp,      \* the charge of each top-up
    cleaner     \* the row each cleanup is about and the ledger sum it read

ledgers == <<wallet, cod>>
accounts == <<balance, due>>
walletVars == <<ledgers, accounts, status, trip, fare, topUp, cleaner>>

Amounts == 1..MaxAmount

Statuses == {"CLEAR", "SUSPENDED_FOR_COD", "SUSPENDED_FOR_WALLET"}

NoRow == <<"NONE", "NONE">>

NoCleanup == [row |-> NoRow, seen |-> 0]

AccountsTypeOK ==
    /\ wallet \in [WalletRows -> Int]
    /\ cod \in [CodRows -> Int]
    /\ balance \in Int /\ due \in Nat
    /\ status \in Statuses
    /\ trip \in [Orders -> {"OPEN", "CARRIED", "DELIVERED"}]
    /\ fare \in [Orders -> 0..MaxAmount]
    /\ topUp \in [TopUps -> [status: {"NONE", "PENDING", "PAID", "FAILED"}, amount: 0..MaxAmount]]
    /\ cleaner \in [Cleaners -> [row: WalletRows \union {NoRow}, seen: Int]]

\* operationalStatusFor
StatusFor(b, d) ==
    IF b <= -Floor THEN "SUSPENDED_FOR_WALLET"
    ELSE IF d >= Threshold THEN "SUSPENDED_FOR_COD" ELSE "CLEAR"

\* A rider may still owe for cash of trips from before the company's share
\* moved to the wallet; nothing adds to that any more.
AccountsInit ==
    /\ due \in 0..MaxAmount
    /\ wallet = [e \in WalletRows |-> 0]
    /\ cod = [e \in CodRows |-> IF e[1] = "CASH_COMPANY_SHARE" THEN due ELSE 0]
    /\ balance = 0
    /\ status = StatusFor(0, due)
    /\ trip = [o \in Orders |-> "OPEN"]
    /\ fare = [o \in Orders |-> 0]
    /\ topUp = [t \in TopUps |-> [status |-> "NONE", amount |-> 0]]
    /\ cleaner = [c \in Cleaners |-> NoCleanup]

--------------------------------------------------------------------------------
\* walletLedgerNet and codLedgerNet
WalletNet == Total(wallet, WalletRows)
CodNet == Total(cod, CodRows)

\* Mutant: only what raises the balance looks at the status.
SyncWhenRaised ==
    status' = IF balance' > balance THEN StatusFor(balance', due') ELSE status

\* syncOperationalStatus, with what the transaction made of the accounts.
SyncStatus == status' = StatusFor(balance', due')

\* The two postings of applyInflow: what comes in settles the COD due first, and
\* the rest is credited.
SettleThenCredit(amount, walletRow, codRow) ==
    LET settle == IF amount <= due THEN amount ELSE due
        rest == amount - settle
    IN /\ due' = due - settle
       /\ balance' = balance + rest
       /\ wallet' = [wallet EXCEPT ![walletRow] = @ + rest]
       /\ cod' = [cod EXCEPT ![codRow] = @ - settle]

\* applyInflow: the accounts must then agree with their ledgers.
Inflow(amount, walletRow, codRow) ==
    /\ SettleThenCredit(amount, walletRow, codRow)
    /\ WalletNet' = balance' /\ CodNet' = due'
    /\ SyncStatus

--------------------------------------------------------------------------------
(***************************************************************************)
(* Trips.                                                                  *)
(***************************************************************************)

\* assertNotSuspended of an accept or an admin's assignment.  A refusal rolls
\* the transaction back, the new status with it.
Accept(o) ==
    /\ trip[o] = "OPEN"
    /\ StatusFor(balance, due) = "CLEAR"
    /\ trip' = [trip EXCEPT ![o] = "CARRIED"]
    /\ UNCHANGED <<ledgers, accounts, fare, topUp, cleaner>>
    /\ SyncStatus

\* The wallet and COD pages, the test when a rider goes online, and dispatch,
\* which goes on with the next rider, write the status down.
Look ==
    /\ UNCHANGED <<ledgers, accounts, trip, fare, topUp, cleaner>>
    /\ SyncStatus

\* Mutant: an earning that only settled COD due is not found.
EarningCredited(o) == wallet[<<"EARNING", o>>] # 0

\* An earning is in one ledger, in the other, or in both.
EarningPosted(o) ==
    wallet[<<"EARNING", o>>] # 0 \/ cod[<<"DIGITAL_EARNING_SETTLEMENT", o>>] # 0

\* syncOrderFinance of a delivered order whose cash leaves the company `share`.
\* The debit is allowed to make the balance negative.
ShareCash(o, share) ==
    /\ IF wallet[<<"COMPANY_SHARE", o>>] = 0
       THEN /\ balance' = balance - share
            /\ wallet' = [wallet EXCEPT ![<<"COMPANY_SHARE", o>>] = -share]
            /\ WalletNet' = balance'
       ELSE UNCHANGED <<balance, wallet>>
    /\ UNCHANGED <<due, cod>>
    /\ SyncStatus

\* syncOrderFinance of one whose earning is due, paid online.
Earn(o, amount) ==
    IF EarningPosted(o)
    THEN UNCHANGED <<ledgers, accounts>> /\ SyncStatus
    ELSE Inflow(amount, <<"EARNING", o>>, <<"DIGITAL_EARNING_SETTLEMENT", o>>)

\* The delivery freezes the rider's amount and computes the trip's finance.
DeliverTrip(o, amount) ==
    /\ trip[o] = "CARRIED"
    /\ trip' = [trip EXCEPT ![o] = "DELIVERED"]
    /\ fare' = [fare EXCEPT ![o] = amount]
    /\ UNCHANGED <<topUp, cleaner>>
    /\ \/ Earn(o, amount)
       \/ \E share \in Amounts : ShareCash(o, share)
       \/ UNCHANGED <<ledgers, accounts>> /\ SyncStatus

\* Later payments, webhooks, verifies and an admin compute it again.
PostAgain(o) ==
    /\ trip[o] = "DELIVERED"
    /\ UNCHANGED <<trip, fare, topUp, cleaner>>
    /\ \/ Earn(o, fare[o])
       \/ \E share \in Amounts : ShareCash(o, share)

--------------------------------------------------------------------------------
(***************************************************************************)
(* Money in and out by the rider.                                          *)
(***************************************************************************)

\* beginRiderWalletTopUp
BeginTopUp(t, amount) ==
    /\ topUp[t].status = "NONE"
    /\ topUp' = [topUp EXCEPT ![t] = [status |-> "PENDING", amount |-> amount]]
    /\ UNCHANGED <<ledgers, accounts, status, trip, fare, cleaner>>

\* A webhook or verifyRiderWalletTopUp: the charge becomes PAID once, and
\* applyVerifiedWalletTopUp posts what neither ledger has yet.
TopUpPaid(t) ==
    /\ topUp[t].status \in {"PENDING", "FAILED"}
    /\ topUp' = [topUp EXCEPT ![t].status = "PAID"]
    /\ UNCHANGED <<trip, fare, cleaner>>
    /\ IF wallet[<<"RECHARGE", t>>] # 0 \/ cod[<<"RECHARGE_SETTLEMENT", t>>] # 0
       THEN UNCHANGED <<ledgers, accounts, status>>
       ELSE Inflow(topUp[t].amount, <<"RECHARGE", t>>, <<"RECHARGE_SETTLEMENT", t>>)

TopUpFailed(t) ==
    /\ topUp[t].status = "PENDING"
    /\ topUp' = [topUp EXCEPT ![t].status = "FAILED"]
    /\ UNCHANGED <<ledgers, accounts, status, trip, fare, cleaner>>

\* settle: up to the COD due, so nothing is left for the wallet.  A repeated
\* key is replayed and has no second row.
Settle(k, amount) ==
    /\ cod[<<"RECHARGE_SETTLEMENT", k>>] = 0
    /\ amount <= due
    /\ due' = due - amount
    /\ cod' = [cod EXCEPT ![<<"RECHARGE_SETTLEMENT", k>>] = -amount]
    /\ WalletNet = balance /\ CodNet' = due'
    /\ UNCHANGED <<wallet, balance, trip, fare, topUp, cleaner>>
    /\ SyncStatus

\* requestWithdraw; the status is left as it is.
Withdraw(w, amount) ==
    /\ wallet[<<"PAYOUT", w>>] = 0
    /\ amount <= balance
    /\ balance' = balance - amount
    /\ wallet' = [wallet EXCEPT ![<<"PAYOUT", w>>] = -amount]
    /\ UNCHANGED <<cod, due, status, trip, fare, topUp, cleaner>>

\* refundWithdrawalOnce of a withdrawal that failed or was rejected
Refund(w) ==
    /\ wallet[<<"PAYOUT", w>>] # 0 /\ wallet[<<"ADJUSTMENT", w>>] = 0
    /\ balance' = balance - wallet[<<"PAYOUT", w>>]
    /\ wallet' = [wallet EXCEPT ![<<"ADJUSTMENT", w>>] = -wallet[<<"PAYOUT", w>>]]
    /\ UNCHANGED <<cod, due, status, trip, fare, topUp, cleaner>>

--------------------------------------------------------------------------------
(***************************************************************************)
(* WalletCleanupService.apply                                              *)
(***************************************************************************)

\* assessRiderWalletCleanup keeps every row of a payment, a payout, an earning
\* or a reversal; of the rows that the service writes these are left.
Cleanable(e) == e[1] \in {"COMPANY_SHARE", "ADJUSTMENT"} /\ wallet[e] # 0

ReversalOf(e) ==
    IF e[1] = "COMPANY_SHARE" THEN <<"COMPANY_SHARE reversal", e[2]>>
    ELSE <<"ADJUSTMENT reversal", e[2]>>

\* lockWalletLedger begins: the subquery's sum is of this moment.
CleanupLook(c, e) ==
    /\ cleaner[c] = NoCleanup
    /\ Cleanable(e)
    /\ cleaner' = [cleaner EXCEPT ![c] = [row |-> e, seen |-> WalletNet]]
    /\ UNCHANGED <<ledgers, accounts, status, trip, fare, topUp>>

\* With the locks: the reversal is looked up anew, the projected balance is
\* computed from the sum that was read.
CleanupAllowed(c) ==
    /\ wallet[ReversalOf(cleaner[c].row)] = 0
    /\ cleaner[c].seen - wallet[cleaner[c].row] >= 0

\* Mutant: the projected balance is written.
RecomputeProjected(c) == balance' = cleaner[c].seen - wallet[cleaner[c].row]

\* recomputeWalletBalance sums the ledger again.
Recompute(c) == balance' = WalletNet'

\* reverseRiderWallet; the status is left as it is.
CleanupReverse(c) ==
    /\ cleaner[c] # NoCleanup
    /\ CleanupAllowed(c)
    /\ wallet' = [wallet EXCEPT ![ReversalOf(cleaner[c].row)] = @ - wallet[cleaner[c].row]]
    /\ Recompute(c)
    /\ cleaner' = [cleaner EXCEPT ![c] = NoCleanup]
    /\ UNCHANGED <<cod, due, status, trip, fare, topUp>>

CleanupRefuse(c) ==
    /\ cleaner[c] # NoCleanup
    /\ ~CleanupAllowed(c)
    /\ cleaner' = [cleaner EXCEPT ![c] = NoCleanup]
    /\ UNCHANGED <<ledgers, accounts, status, trip, fare, topUp>>

--------------------------------------------------------------------------------

AccountsNext ==
    \/ Look
    \/ \E o \in Orders : Accept(o) \/ PostAgain(o)
    \/ \E o \in Orders, a \in Amounts : DeliverTrip(o, a)
    \/ \E t \in TopUps : TopUpPaid(t) \/ TopUpFailed(t)
    \/ \E t \in TopUps, a \in Amounts : BeginTopUp(t, a)
    \/ \E k \in Settlements, a \in Amounts : Settle(k, a)
    \/ \E w \in Withdrawals, a \in Amounts : Withdraw(w, a)
    \/ \E w \in Withdrawals : Refund(w)
    \/ \E c \in Cleaners, e \in WalletRows : CleanupLook(c, e)
    \/ \E c \in Cleaners : CleanupReverse(c) \/ CleanupRefuse(c)

AccountsSpec == AccountsInit /\ [][AccountsNext]_walletVars

--------------------------------------------------------------------------------
(***************************************************************************)
(* Properties.                                                             *)
(***************************************************************************)

\* What the rider is shown is what the ledgers add up to, also when an admin's
\* reversal waited for a posting to the same account.
AccountsMatchLedgers == balance = WalletNet /\ due = CodNet

\* A top-up that was paid, and an earning that was posted, is wholly there, on
\* the two ledgers together, and once, however often its payment is told and
\* the trip's finance computed again while the COD due changes in between.
InflowIsWhole ==
    /\ \A t \in TopUps :
        wallet[<<"RECHARGE", t>>] - cod[<<"RECHARGE_SETTLEMENT", t>>]
            = IF topUp[t].status = "PAID" THEN topUp[t].amount ELSE 0
    /\ \A o \in Orders :
        wallet[<<"EARNING", o>>] - cod[<<"DIGITAL_EARNING_SETTLEMENT", o>>] \in {0, fare[o]}

\* A rider shown CLEAR is above the floor and below the threshold, though
\* withdrawals, their refunds and cleanups leave the status as it was: none of
\* them takes a balance to the floor, but for the reversal of a refund that
\* races a withdrawal.
ClearIsTrue ==
    status = "CLEAR" /\ (\A w \in Withdrawals : wallet[<<"ADJUSTMENT reversal", w>>] = 0)
    => balance > -Floor /\ due < Threshold
================================================================================
