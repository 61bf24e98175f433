------------------------------ MODULE RiderPayout ------------------------------
(***************************************************************************)
(* Withdrawals of a rider's wallet and the Cashfree transfers that pay     *)
(* them (backend/src/wallet-cod).                                          *)
(*                                                                         *)
(* A withdrawal is debited when it is requested.  An admin starts it, and  *)
(* from then on an admin request or the reconcile worker drives it: read   *)
(* the row, ask Cashfree, register the beneficiary, claim the row, POST    *)
(* the transfer, write down the answer.  Each of these is a transaction or *)
(* an HTTP call of its own, so two flows, the admin's rejection and        *)
(* Cashfree's webhooks interleave between any two of them, and a flow may  *)
(* end anywhere with its process.                                          *)
(***************************************************************************)
EXTENDS Naturals, FiniteSets

CONSTANTS
    Withdrawals,    \* withdrawal requests of one rider
    Flows,          \* requests and workers that may drive a withdrawal
    Amount,         \* Amount[w], in a unit of money
    Opening,        \* the rider's balance before any withdrawal
    NoWithdrawal    \* what an idle flow works on

ASSUME AmountAssumption == Amount \in [Withdrawals -> Nat \ {0}]
ASSUME OpeningAssumption == Opening \in Nat
ASSUME NoWithdrawalAssumption == NoWithdrawal \notin Withdrawals

VARIABLES
    status,     \* rider_wallet_withdrawals.status, "NONE" before the insert
    sent,       \* what provider_status says about the transfer request
    known,      \* provider_transfer_id is set
    refund,     \* refund_wallet_ledger_id is set
    credits,    \* ledger entries that gave the amount back
    balance,    \* rider_wallet_accounts.available_balance
    flow,       \* where each flow is, on which withdrawal, with what answer
    posts,      \* POST /transfers calls made
    transfer,   \* the transfer at Cashfree
    misread,    \* history: an HTTP error decided the row
    reopened    \* history: the catch block reopened a row that was refunded

rowVars == <<status, sent, known>>
moneyVars == <<refund, credits, balance>>
cashfreeVars == <<posts, transfer>>
historyVars == <<misread, reopened>>
vars == <<rowVars, moneyVars, flow, cashfreeVars, historyVars>>

RowStatuses == {"NONE", "REQUESTED", "PENDING", "PROCESSING", "SUCCESSFUL",
                "FAILED", "REJECTED", "CANCELLED"}

\* NULL; the two values this code coordinates with; any status of Cashfree's.
SentStates == {"NULL", "NOT_SENT", "CLAIMED", "PROVIDER"}

\* On its way, undecided, or decided.
TransferStates == {"NONE", "WIRE", "PENDING", "SUCCESS", "FAILED", "REVERSED"}

\* error: an answer that decides nothing, which the code takes for failed.
Outcomes == {"pending", "success", "failed", "reversed", "error"}

Steps == {"idle", "read", "gate", "claim", "post", "reply", "record", "apply",
          "release", "fail", "catch"}

(***************************************************************************)
(* unsent is the row as reconcileWithdrawal read it; reconciling says that *)
(* the flow runs inside reconcileWithdrawal, whose catch block writes.     *)
(***************************************************************************)
FlowStates == [at: Steps, w: Withdrawals \cup {NoWithdrawal},
               unsent: BOOLEAN, reconciling: BOOLEAN, answer: Outcomes]

Idle == [at |-> "idle", w |-> NoWithdrawal, unsent |-> FALSE,
         reconciling |-> FALSE, answer |-> "pending"]

TypeOK ==
    /\ status \in [Withdrawals -> RowStatuses]
    /\ sent \in [Withdrawals -> SentStates]
    /\ known \in [Withdrawals -> BOOLEAN]
    /\ refund \in [Withdrawals -> BOOLEAN]
    /\ credits \in [Withdrawals -> Nat]
    /\ balance \in Nat
    /\ flow \in [Flows -> FlowStates]
    /\ posts \in [Withdrawals -> Nat]
    /\ transfer \in [Withdrawals -> TransferStates]
    /\ misread \subseteq Withdrawals /\ reopened \subseteq Withdrawals

Init ==
    /\ status = [w \in Withdrawals |-> "NONE"]
    /\ sent = [w \in Withdrawals |-> "NULL"]
    /\ known = [w \in Withdrawals |-> FALSE]
    /\ refund = [w \in Withdrawals |-> FALSE]
    /\ credits = [w \in Withdrawals |-> 0]
    /\ balance = Opening
    /\ flow = [p \in Flows |-> Idle]
    /\ posts = [w \in Withdrawals |-> 0]
    /\ transfer = [w \in Withdrawals |-> "NONE"]
    /\ misread = {} /\ reopened = {}

--------------------------------------------------------------------------------
(***************************************************************************)
(* The row and the wallet.                                                 *)
(***************************************************************************)

\* transferConfirmedUnsent
Unsent(w) == ~known[w] /\ sent[w] = "NOT_SENT"

SetStatus(w, to) == status' = [status EXCEPT ![w] = to]

\* Mutant: the refund column is not consulted.
RefundAgain(w) ==
    /\ refund' = [refund EXCEPT ![w] = TRUE]
    /\ credits' = [credits EXCEPT ![w] = @ + 1]
    /\ balance' = balance + Amount[w]

\* refundWithdrawalOnce
RefundOnce(w) ==
    IF refund[w]
    THEN UNCHANGED moneyVars
    ELSE /\ refund' = [refund EXCEPT ![w] = TRUE]
         /\ credits' = [credits EXCEPT ![w] = @ + 1]
         /\ balance' = balance + Amount[w]

\* What Cashfree said is kept; an answer need not name the transfer.
KeepAnswer(w) ==
    /\ sent' = [sent EXCEPT ![w] = "PROVIDER"]
    /\ \E id \in BOOLEAN : known' = [known EXCEPT ![w] = @ \/ id]

(***************************************************************************)
(* applyAuthoritativePayoutOutcome: an undecided answer is only written    *)
(* down; success and failure count for a PROCESSING row, a reversal also   *)
(* for a SUCCESSFUL one; anything else is a duplicate or ignored.          *)
(***************************************************************************)
ApplyOutcome(w, outcome) ==
    \/ /\ outcome = "pending"
       /\ KeepAnswer(w)
       /\ UNCHANGED <<status, moneyVars>>
    \/ /\ outcome = "success"
       /\ status[w] = "PROCESSING"
       /\ SetStatus(w, "SUCCESSFUL")
       /\ KeepAnswer(w)
       /\ UNCHANGED moneyVars
    \/ /\ outcome = "failed"
       /\ status[w] = "PROCESSING"
       /\ RefundOnce(w)
       /\ SetStatus(w, "FAILED")
       /\ KeepAnswer(w)
    \/ /\ outcome = "reversed"
       /\ status[w] \in {"SUCCESSFUL", "PROCESSING"}
       /\ RefundOnce(w)
       /\ SetStatus(w, "CANCELLED")
       /\ KeepAnswer(w)
    \/ /\ outcome \in {"success", "failed"}
       /\ status[w] # "PROCESSING"
       /\ UNCHANGED <<rowVars, moneyVars>>
    \/ /\ outcome = "reversed"
       /\ status[w] \notin {"SUCCESSFUL", "PROCESSING"}
       /\ UNCHANGED <<rowVars, moneyVars>>

--------------------------------------------------------------------------------
(***************************************************************************)
(* The rider and the admin.                                                *)
(***************************************************************************)

Request(w) ==
    /\ status[w] = "NONE"
    /\ balance >= Amount[w]
    /\ balance' = balance - Amount[w]
    /\ SetStatus(w, "REQUESTED")
    /\ UNCHANGED <<sent, known, refund, credits, flow, cashfreeVars, historyVars>>

\* Mutant: a withdrawal whose transfer was requested can be rejected.
RejectSent(w) ==
    /\ status[w] \in {"REQUESTED", "PENDING", "PROCESSING"}
    /\ RefundOnce(w)
    /\ SetStatus(w, "REJECTED")
    /\ UNCHANGED <<sent, known, flow, cashfreeVars, historyVars>>

\* Mutant: a started withdrawal is rejected without the refund.
RejectUnrefunded(w) ==
    /\ \/ status[w] \in {"REQUESTED", "PENDING"} /\ RefundOnce(w)
       \/ status[w] = "PROCESSING" /\ Unsent(w) /\ UNCHANGED moneyVars
    /\ SetStatus(w, "REJECTED")
    /\ UNCHANGED <<sent, known, flow, cashfreeVars, historyVars>>

Reject(w) ==
    /\ \/ status[w] \in {"REQUESTED", "PENDING"}
       \/ status[w] = "PROCESSING" /\ Unsent(w)
    /\ RefundOnce(w)
    /\ SetStatus(w, "REJECTED")
    /\ UNCHANGED <<sent, known, flow, cashfreeVars, historyVars>>

\* markWithdrawalProcessing on a REQUESTED row: the first transaction.  On a
\* PROCESSING one it is a reconcile, below.
StartProcessing(p, w) ==
    /\ flow[p].at = "idle"
    /\ status[w] = "REQUESTED"
    /\ SetStatus(w, "PROCESSING")
    /\ sent' = [sent EXCEPT ![w] = "NOT_SENT"]
    /\ flow' = [flow EXCEPT ![p] = [Idle EXCEPT !.at = "gate", !.w = w]]
    /\ UNCHANGED <<known, moneyVars, cashfreeVars, historyVars>>

--------------------------------------------------------------------------------
(***************************************************************************)
(* One flow.  Each action is what happens between two points at which the  *)
(* flow gives way: a committed transaction or the answer to an HTTP call.  *)
(***************************************************************************)

GoTo(p, step) == flow' = [flow EXCEPT ![p].at = step]
Answer(p, step, outcome) ==
    flow' = [flow EXCEPT ![p].at = step, ![p].answer = outcome]
Finish(p) == flow' = [flow EXCEPT ![p] = Idle]

\* reconcileWithdrawal reads the row in a transaction that ends at once.
Reconcile(p, w) ==
    /\ flow[p].at = "idle"
    /\ status[w] = "PROCESSING"
    /\ flow' = [flow EXCEPT ![p] =
                   [Idle EXCEPT !.at = "read", !.w = w, !.unsent = Unsent(w),
                                !.reconciling = TRUE]]
    /\ UNCHANGED <<rowVars, moneyVars, cashfreeVars, historyVars>>

\* Mutant: a successful transfer is taken for an undecided one.
OutcomeWithoutSuccess(state) ==
    CASE state = "FAILED"   -> "failed"
      [] state = "REVERSED" -> "reversed"
      [] OTHER              -> "pending"

OutcomeOf(state) ==
    CASE state = "SUCCESS"  -> "success"
      [] state = "FAILED"   -> "failed"
      [] state = "REVERSED" -> "reversed"
      [] OTHER              -> "pending"

Exists(w) == transfer[w] \notin {"NONE", "WIRE"}

\* GET /transfers.  A 404 sends the flow on to a first POST only if the row it
\* read was unsent; every status but 200, 201, 404 and 409 counts as failed.
ReadFound(p) ==
    /\ flow[p].at = "read"
    /\ Exists(flow[p].w)
    /\ Answer(p, "apply", OutcomeOf(transfer[flow[p].w]))
    /\ UNCHANGED <<rowVars, moneyVars, cashfreeVars, historyVars>>

ReadMissing(p) ==
    /\ flow[p].at = "read"
    /\ ~Exists(flow[p].w)
    /\ IF flow[p].unsent THEN GoTo(p, "gate") ELSE Finish(p)
    /\ UNCHANGED <<rowVars, moneyVars, cashfreeVars, historyVars>>

ReadError(p) ==
    /\ flow[p].at = "read"
    /\ Answer(p, "apply", "error")
    /\ UNCHANGED <<rowVars, moneyVars, cashfreeVars, historyVars>>

(***************************************************************************)
(* ensurePayoutBeneficiary: the beneficiary is confirmed; or nothing is    *)
(* known of it, or the destination cannot be read, and the withdrawal      *)
(* waits; or it can never be paid, and the withdrawal fails.               *)
(***************************************************************************)
Gate(p) ==
    /\ flow[p].at = "gate"
    /\ GoTo(p, "claim") \/ GoTo(p, "fail") \/ Finish(p)
    /\ UNCHANGED <<rowVars, moneyVars, cashfreeVars, historyVars>>

\* Mutant: the row is not asked whether it is still PROCESSING.
FailUnsent(p) ==
    LET w == flow[p].w IN
    /\ flow[p].at = "fail"
    /\ IF Unsent(w)
       THEN /\ RefundOnce(w)
            /\ SetStatus(w, "FAILED")
            /\ sent' = [sent EXCEPT ![w] = "PROVIDER"]
            /\ UNCHANGED known
       ELSE UNCHANGED <<rowVars, moneyVars>>
    /\ Finish(p)
    /\ UNCHANGED <<cashfreeVars, historyVars>>

\* failConfirmedUnsentWithdrawal
Fail(p) ==
    LET w == flow[p].w IN
    /\ flow[p].at = "fail"
    /\ IF status[w] = "PROCESSING" /\ Unsent(w)
       THEN /\ RefundOnce(w)
            /\ SetStatus(w, "FAILED")
            /\ sent' = [sent EXCEPT ![w] = "PROVIDER"]
            /\ UNCHANGED known
       ELSE UNCHANGED <<rowVars, moneyVars>>
    /\ Finish(p)
    /\ UNCHANGED <<cashfreeVars, historyVars>>

\* Mutant: any PROCESSING row without a transfer id may be claimed.
ClaimAgain(p) ==
    LET w == flow[p].w IN
    /\ flow[p].at = "claim"
    /\ IF status[w] = "PROCESSING" /\ ~known[w]
       THEN sent' = [sent EXCEPT ![w] = "CLAIMED"] /\ GoTo(p, "post")
       ELSE UNCHANGED sent /\ Finish(p)
    /\ UNCHANGED <<status, known, moneyVars, cashfreeVars, historyVars>>

\* claimPayoutTransferDispatch: whoever turns NOT_SENT into CLAIMED may POST.
Claim(p) ==
    LET w == flow[p].w IN
    /\ flow[p].at = "claim"
    /\ IF status[w] = "PROCESSING" /\ Unsent(w)
       THEN sent' = [sent EXCEPT ![w] = "CLAIMED"] /\ GoTo(p, "post")
       ELSE UNCHANGED sent /\ Finish(p)
    /\ UNCHANGED <<status, known, moneyVars, cashfreeVars, historyVars>>

\* initiatePayoutTransfer: payouts are not configured and no request started,
Refrain(p) ==
    /\ flow[p].at = "post"
    /\ GoTo(p, "release")
    /\ UNCHANGED <<rowVars, moneyVars, cashfreeVars, historyVars>>

\* or the request is on its way.
Post(p) ==
    LET w == flow[p].w IN
    /\ flow[p].at = "post"
    /\ posts' = [posts EXCEPT ![w] = @ + 1]
    /\ transfer' = [transfer EXCEPT ![w] = IF @ = "NONE" THEN "WIRE" ELSE @]
    /\ GoTo(p, "reply")
    /\ UNCHANGED <<rowVars, moneyVars, historyVars>>

\* releasePayoutTransferDispatch
Release(p) ==
    LET w == flow[p].w IN
    /\ flow[p].at = "release"
    /\ sent' = IF status[w] = "PROCESSING" /\ ~known[w] /\ sent[w] = "CLAIMED"
               THEN [sent EXCEPT ![w] = "NOT_SENT"]
               ELSE sent
    /\ Finish(p)
    /\ UNCHANGED <<status, known, moneyVars, cashfreeVars, historyVars>>

\* The answer to the POST: accepted in some state; refused, so that there is no
\* transfer; an HTTP error, read as a refusal; or no answer in time.
ReplyAccepted(p) ==
    /\ flow[p].at = "reply"
    /\ Exists(flow[p].w)
    /\ Answer(p, "record", OutcomeOf(transfer[flow[p].w]))
    /\ UNCHANGED <<rowVars, moneyVars, cashfreeVars, historyVars>>

ReplyRefused(p) ==
    LET w == flow[p].w IN
    /\ flow[p].at = "reply"
    /\ transfer[w] = "WIRE"
    /\ transfer' = [transfer EXCEPT ![w] = "NONE"]
    /\ Answer(p, "apply", "failed")
    /\ UNCHANGED <<rowVars, moneyVars, posts, historyVars>>

ReplyError(p) ==
    /\ flow[p].at = "reply"
    /\ Answer(p, "apply", "error")
    /\ UNCHANGED <<rowVars, moneyVars, cashfreeVars, historyVars>>

ReplyTimeout(p) ==
    /\ flow[p].at = "reply"
    /\ Finish(p)
    /\ UNCHANGED <<rowVars, moneyVars, cashfreeVars, historyVars>>

\* The accepted answer is written to a row that is still PROCESSING; one that
\* is already decided is then applied like any other.
Record(p) ==
    LET w == flow[p].w IN
    /\ flow[p].at = "record"
    /\ IF status[w] = "PROCESSING" THEN KeepAnswer(w) ELSE UNCHANGED <<sent, known>>
    /\ IF flow[p].answer \in {"success", "failed"}
       THEN GoTo(p, "apply")
       ELSE Finish(p)
    /\ UNCHANGED <<status, moneyVars, cashfreeVars, historyVars>>

\* To the code an error is a failure.
Apply(p) ==
    LET w == flow[p].w
        error == flow[p].answer = "error"
    IN
    /\ flow[p].at = "apply"
    /\ ApplyOutcome(w, IF error THEN "failed" ELSE flow[p].answer)
    /\ misread' = IF error /\ status[w] = "PROCESSING" THEN misread \cup {w} ELSE misread
    /\ Finish(p)
    /\ UNCHANGED <<cashfreeVars, reopened>>

(***************************************************************************)
(* An error thrown by the GET, or by the payout steps outside the inner    *)
(* try block, ends an admin's request; a reconcile catches it and writes   *)
(* the status PROCESSING, whatever the row says by then.                   *)
(***************************************************************************)
Throw(p) ==
    /\ flow[p].at \in {"read", "gate", "claim", "fail", "release"}
    /\ IF flow[p].reconciling THEN GoTo(p, "catch") ELSE Finish(p)
    /\ UNCHANGED <<rowVars, moneyVars, cashfreeVars, historyVars>>

Catch(p) ==
    /\ flow[p].at = "catch"
    /\ SetStatus(flow[p].w, "PROCESSING")
    /\ reopened' = IF refund[flow[p].w] THEN reopened \cup {flow[p].w} ELSE reopened
    /\ Finish(p)
    /\ UNCHANGED <<sent, known, moneyVars, cashfreeVars, misread>>

\* The process ends, or an error is swallowed, with the flow anywhere.
Crash(p) ==
    /\ flow[p].at # "idle"
    /\ Finish(p)
    /\ UNCHANGED <<rowVars, moneyVars, cashfreeVars, historyVars>>

--------------------------------------------------------------------------------
(***************************************************************************)
(* Cashfree.                                                               *)
(***************************************************************************)

\* A request on its way arrives, or is lost.
Arrive(w) ==
    /\ transfer[w] = "WIRE"
    /\ \E to \in {"PENDING", "NONE"} : transfer' = [transfer EXCEPT ![w] = to]
    /\ UNCHANGED <<rowVars, moneyVars, flow, posts, historyVars>>

\* The bank decides, and may return the money later.
Decide(w) ==
    /\ \/ /\ transfer[w] = "PENDING"
          /\ \E to \in {"SUCCESS", "FAILED"} :
                transfer' = [transfer EXCEPT ![w] = to]
       \/ /\ transfer[w] = "SUCCESS"
          /\ transfer' = [transfer EXCEPT ![w] = "REVERSED"]
    /\ UNCHANGED <<rowVars, moneyVars, flow, posts, historyVars>>

\* The statuses a transfer has had: each was announced by a webhook, which may
\* come late, twice, or after a newer one.
Announced(state) ==
    CASE state \in {"NONE", "WIRE"} -> {}
      [] state = "PENDING"          -> {"pending"}
      [] state = "SUCCESS"          -> {"pending", "success"}
      [] state = "FAILED"           -> {"pending", "failed"}
      [] state = "REVERSED"         -> {"pending", "success", "reversed"}

\* applyPayoutWebhookByMerchantTransferId
Webhook(w) ==
    /\ \E outcome \in Announced(transfer[w]) : ApplyOutcome(w, outcome)
    /\ UNCHANGED <<flow, cashfreeVars, historyVars>>

--------------------------------------------------------------------------------
FlowStep(p) ==
    \/ ReadFound(p) \/ ReadMissing(p) \/ ReadError(p)
    \/ Gate(p) \/ Fail(p) \/ Claim(p)
    \/ Refrain(p) \/ Post(p) \/ Release(p)
    \/ ReplyAccepted(p) \/ ReplyRefused(p) \/ ReplyError(p) \/ ReplyTimeout(p)
    \/ Record(p) \/ Apply(p)
    \/ Throw(p) \/ Catch(p) \/ Crash(p)

Next ==
    \/ \E w \in Withdrawals :
          \/ Request(w) \/ Reject(w)
          \/ Arrive(w) \/ Decide(w) \/ Webhook(w)
          \/ \E p \in Flows : StartProcessing(p, w) \/ Reconcile(p, w)
    \/ \E p \in Flows : FlowStep(p)

Spec == Init /\ [][Next]_vars

(***************************************************************************)
(* The worker polls for as long as it runs and comes back after a restart: *)
(* it reconciles a PROCESSING withdrawal again and again, a flow goes on   *)
(* or ends, and Cashfree and the database answer some of the attempts.     *)
(***************************************************************************)
Fairness ==
    /\ \A p \in Flows :
          /\ WF_vars(FlowStep(p))
          /\ SF_vars(ReadFound(p))
          /\ SF_vars(Apply(p))
    /\ \A p \in Flows, w \in Withdrawals : SF_vars(Reconcile(p, w))

FairSpec == Spec /\ Fairness
--------------------------------------------------------------------------------
(***************************************************************************)
(* What must hold.                                                         *)
(***************************************************************************)

\* The column that marks a refund and the ledger agree, so a withdrawal is
\* refunded at most once whoever refunds it and however often: rejection,
\* failed answer, webhook and unsent failure all go through the same column.
RefundedAtMostOnce ==
    \A w \in Withdrawals : credits[w] = IF refund[w] THEN 1 ELSE 0

\* payout-transfer-state.ts: a worker may POST only by claiming the unsent row.
\* No interleaving of flows, crashes and webhooks sends a second request.
AtMostOnePost == \A w \in Withdrawals : posts[w] <= 1

\* Money leaves once: a refunded withdrawal has no transfer that is on its way,
\* undecided or paid.  There are two exceptions and no others: an HTTP error
\* decided the row, or a reconcile that failed reopened it after the refund.
RefundMeansNoTransfer ==
    \A w \in Withdrawals :
        refund[w] => \/ transfer[w] \in {"NONE", "FAILED", "REVERSED"}
                     \/ w \in misread \cup reopened

\* A row that says SUCCESSFUL was paid, whatever failed; one that says a refund
\* was due has it (0033: refund_wallet_ledger_id, "Ledger credit that restored
\* funds after FAILED/REJECTED/REVERSED"); and a refund shows in the status, but
\* for a row that was reopened after it.
StatusIsTrue ==
    \A w \in Withdrawals :
        /\ status[w] = "SUCCESSFUL" => transfer[w] \in {"SUCCESS", "REVERSED"}
        /\ status[w] \in {"FAILED", "REJECTED", "CANCELLED"} => refund[w]
        /\ refund[w] => \/ status[w] \in {"FAILED", "REJECTED", "CANCELLED"}
                        \/ w \in reopened

\* A reconcile that failed ends in its catch block, which writes PROCESSING.
Caught(w) ==
    /\ status'[w] = "PROCESSING"
    /\ \E p \in Flows : flow[p].at = "catch" /\ flow[p].w = w /\ flow'[p] = Idle

\* A decided withdrawal stays decided, late answers and webhooks included; only
\* the reversal of a paid transfer changes it, and a reconcile that failed.
DecidedIsFinal ==
    [][\A w \in Withdrawals :
          /\ status[w] \in {"FAILED", "REJECTED", "CANCELLED"}
                => status'[w] = status[w] \/ Caught(w)
          /\ status[w] = "SUCCESSFUL"
                => status'[w] \in {"SUCCESSFUL", "CANCELLED"} \/ Caught(w)
      ]_vars

\* Whatever Cashfree decided reaches the row: the answer to the POST, a webhook
\* or, if both are lost, the reconcile worker brings it.
DecidedTransferSettles ==
    \A w \in Withdrawals :
        transfer[w] \in {"SUCCESS", "FAILED"} ~> status[w] # "PROCESSING"
================================================================================
