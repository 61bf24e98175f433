--------------------------- MODULE NotificationOutbox --------------------------
(***************************************************************************)
(* The notification outbox and its worker (backend/src/notifications).     *)
(*                                                                         *)
(* An event of the business is written in the transaction of the event, as *)
(* a notification with one delivery for the inbox and one for push.        *)
(* Every process runs one worker, which claims the oldest delivery that is *)
(* due and locks its row.  A push is sent to the devices of the recipient  *)
(* while the row stays locked, and its outcome is written by the           *)
(* transaction that claimed it: if that is rolled back, the delivery and   *)
(* its attempt count are what they were, and the push has been sent.       *)
(***************************************************************************)
EXTENDS Integers

CONSTANTS
    Events,         \* event keys; a key names the notification
    Offers,         \* the events that tell a rider of a new offer
    Identities,
    Devices,        \* push tokens
    Workers,        \* processes
    Nothing,        \* no event
    Nobody,         \* no identity
    Recipient,      \* the identity that each event is for
    MaxAttempts,    \* notifications.maxAttempts
    MaxBirths,      \* bounds the notifications that are written
    MaxCrashes      \* bounds the transactions of workers that are rolled back

ASSUME EventsAssumption ==
    /\ Offers \subseteq Events /\ Nothing \notin Events /\ Nobody \notin Identities
    /\ Recipient \in [Events -> Identities]
ASSUME LimitsAssumption ==
    MaxAttempts \in Nat \ {0} /\ MaxBirths \in Nat /\ MaxCrashes \in Nat

Channels == {"IN_APP", "PUSH"}

VARIABLES
    born,       \* created_at of the notification of an event, 0 if it is not there
    births,     \* notifications written so far
    status,     \* notification_deliveries.status, NONE where there is no row
    attempts,   \* attempt_count of the push
    resting,    \* pushes whose backoff has not elapsed
    offerOpen,  \* the offer that an event tells of is still PENDING
    owner,      \* push_device_tokens.identity_id
    token,      \* ACTIVE, or not: DROPPED if it is the worker that gave it up
    alive,      \* FCM knows the token
    worker,     \* what each worker has claimed, and how far it is
    pushed,     \* how often the push of a notification reached a device
    unrecorded, \* how many of these pushes nobody will write down as sent
    crashes

outboxVars == <<born, births, status, attempts, resting>>
deviceVars == <<owner, token, alive>>
vars == <<outboxVars, offerOpen, deviceVars, worker, pushed, unrecorded, crashes>>

\* A worker that holds the push of e.
At(e, step, devices, rejected, result) ==
    [of |-> e, step |-> step, devices |-> devices, rejected |-> rejected, result |-> result]

Idle == At(Nothing, "IDLE", {}, {}, "NONE")

TypeOK ==
    /\ born \in [Events -> 0..MaxBirths]
    /\ births \in 0..MaxBirths
    /\ status \in [Events -> [Channels -> {"NONE", "PENDING", "SENT", "FAILED", "SKIPPED"}]]
    /\ attempts \in [Events -> 0..MaxAttempts]
    /\ resting \subseteq Events
    /\ offerOpen \subseteq Offers
    /\ owner \in [Devices -> Identities \cup {Nobody}]
    /\ token \in [Devices -> {"NONE", "ACTIVE", "DROPPED"}]
    /\ alive \subseteq Devices
    /\ worker \in [Workers -> [of: Events \cup {Nothing},
                               step: {"IDLE", "CLAIMED", "LISTED", "ANSWERED", "DECIDED"},
                               devices: SUBSET Devices, rejected: SUBSET Devices,
                               result: {"NONE", "OK", "RETRY", "FAIL"}]]
    /\ pushed \in [Events -> Nat] /\ unrecorded \in [Events -> Nat] /\ crashes \in 0..MaxCrashes

Init ==
    /\ born = [e \in Events |-> 0]
    /\ births = 0
    /\ status = [e \in Events |-> [ch \in Channels |-> "NONE"]]
    /\ attempts = [e \in Events |-> 0]
    /\ resting = {}
    /\ offerOpen = Offers
    /\ owner = [d \in Devices |-> Nobody]
    /\ token = [d \in Devices |-> "NONE"]
    /\ alive = Devices
    /\ worker = [w \in Workers |-> Idle]
    /\ pushed = [e \in Events |-> 0]
    /\ unrecorded = [e \in Events |-> 0]
    /\ crashes = 0

--------------------------------------------------------------------------------
(***************************************************************************)
(* The inbox.                                                              *)
(***************************************************************************)

\* The row of the push of an event is locked by a worker.
Locked(e) == \E w \in Workers : worker[w].of = e

\* notify: a channel that the preferences of the recipient have off gets a
\* delivery that is never worked on, whatever they say later.  For a notification
\* that is there it changes nothing.
Notify(e, on) ==
    /\ born[e] = 0
    /\ births < MaxBirths
    /\ births' = births + 1
    /\ born' = [born EXCEPT ![e] = births + 1]
    /\ status' = [status EXCEPT ![e] =
         [ch \in Channels |-> IF ch \in on THEN "PENDING" ELSE "SKIPPED"]]
    /\ UNCHANGED <<attempts, resting, offerOpen, deviceVars, worker, pushed, unrecorded, crashes>>

Forget(e) ==
    /\ born' = [born EXCEPT ![e] = 0]
    /\ status' = [status EXCEPT ![e] = [ch \in Channels |-> "NONE"]]
    /\ attempts' = [attempts EXCEPT ![e] = 0]
    /\ resting' = resting \ {e}
    /\ pushed' = [pushed EXCEPT ![e] = 0]
    /\ unrecorded' = [unrecorded EXCEPT ![e] = 0]
    /\ UNCHANGED <<births, offerOpen, deviceVars, worker, crashes>>

\* dismiss deletes the deliveries, for which it waits until none is locked, and
\* the notification; the event key is free again.
Dismiss(e) ==
    /\ born[e] > 0 /\ ~Locked(e)
    /\ Forget(e)

--------------------------------------------------------------------------------
(***************************************************************************)
(* claimPendingDelivery.                                                   *)
(***************************************************************************)

\* Mutant: what was tried before is not due again.
DueOnce(e, ch) == status[e][ch] = "PENDING" /\ (ch = "PUSH" => attempts[e] = 0)

Due(e, ch) == status[e][ch] = "PENDING" /\ (ch = "PUSH" => e \notin resting)

\* Mutant: a row that is locked is waited for and then worked on again.
ClaimableLocked(e, ch) ==
    /\ Due(e, ch)
    /\ \A f \in Events, k \in Channels :
        Due(f, k) => born[e] <= born[f]

\* The oldest delivery that is due and not locked.  Those of one notification are
\* of one age, and their random identifiers decide.
Claimable(e, ch) ==
    /\ Due(e, ch) /\ ~(ch = "PUSH" /\ Locked(e))
    /\ \A f \in Events, k \in Channels :
        Due(f, k) /\ ~(k = "PUSH" /\ Locked(f)) => born[e] <= born[f]

\* processOne for the inbox: nothing has to be sent.
DeliverInApp(w, e) ==
    /\ worker[w] = Idle
    /\ Claimable(e, "IN_APP")
    /\ status' = [status EXCEPT ![e] = [@ EXCEPT !["IN_APP"] = "SENT"]]
    /\ UNCHANGED <<born, births, attempts, resting, offerOpen, deviceVars,
                   worker, pushed, unrecorded, crashes>>

\* processOne for an offer that is taken, gone or nearly over.
FailOffer(w, e) ==
    /\ worker[w] = Idle
    /\ e \in Offers
    /\ Claimable(e, "PUSH")
    /\ status' = [status EXCEPT ![e] = [@ EXCEPT !["PUSH"] = "FAILED"]]
    /\ attempts' = [attempts EXCEPT ![e] = @ + 1]
    /\ UNCHANGED <<born, births, resting, offerOpen, deviceVars, worker,
                   pushed, unrecorded, crashes>>

\* processOne for any other push, up to the provider.
Claim(w, e) ==
    /\ worker[w] = Idle
    /\ Claimable(e, "PUSH")
    /\ e \in Offers => e \in offerOpen
    /\ worker' = [worker EXCEPT ![w] = At(e, "CLAIMED", {}, {}, "NONE")]
    /\ UNCHANGED <<outboxVars, offerOpen, deviceVars, pushed, unrecorded, crashes>>

--------------------------------------------------------------------------------
(***************************************************************************)
(* FcmPushProvider.send, on connections of its own.                        *)
(***************************************************************************)

\* listActive
ListDevices(w) ==
    LET mine == {d \in Devices : token[d] = "ACTIVE" /\ owner[d] = Recipient[worker[w].of]} IN
    /\ worker[w].step = "CLAIMED"
    /\ worker' = [worker EXCEPT ![w] =
         IF mine = {} THEN At(@.of, "DECIDED", {}, {}, "FAIL")
                      ELSE At(@.of, "LISTED", mine, {}, "NONE")]
    /\ UNCHANGED <<outboxVars, offerOpen, deviceVars, pushed, unrecorded, crashes>>

\* A push of e that reached a device if somewhere; it is taken for failed unless
\* FCM says so.
Push(e, somewhere, said) ==
    /\ pushed' = [pushed EXCEPT ![e] = IF somewhere THEN @ + 1 ELSE @]
    /\ unrecorded' = [unrecorded EXCEPT ![e] = IF somewhere /\ ~said THEN @ + 1 ELSE @]

\* The result that a worker had is lost on the way to the row.
ForgetPush(e, result) ==
    unrecorded' = [unrecorded EXCEPT ![e] = IF result = "OK" THEN @ + 1 ELSE @]

\* The answer to the multicast: some of the living devices were reached, some of
\* these are acknowledged, some of the others rejected for good.
Answer(w, reached, acked, rejected) ==
    LET devices == worker[w].devices
        step == IF rejected = {} THEN "DECIDED" ELSE "ANSWERED"
        result == IF acked # {} THEN "OK" ELSE IF rejected # devices THEN "RETRY" ELSE "FAIL"
    IN  /\ worker[w].step = "LISTED"
        /\ acked \subseteq reached /\ reached \subseteq devices \cap alive
        /\ worker' = [worker EXCEPT ![w] = At(@.of, step, {}, rejected, result)]
        /\ Push(worker[w].of, reached # {}, acked # {})
        /\ UNCHANGED <<outboxVars, offerOpen, deviceVars, crashes>>

\* Mutant: an error of the moment counts as a rejection.
SendRejecting(w, reached, acked, rejected) ==
    /\ rejected \subseteq worker[w].devices \ acked
    /\ Answer(w, reached, acked, rejected)

\* sendEachForMulticast: only a dead token is rejected for good, all else is an
\* error of the moment.
Send(w, reached, acked, rejected) ==
    /\ rejected \subseteq worker[w].devices \ alive
    /\ Answer(w, reached, acked, rejected)

\* The list cannot be read, or the call throws: nothing is known of any device,
\* whichever an earlier batch or the call itself reached.
Unavailable(w, reached) ==
    /\ worker[w].step \in {"CLAIMED", "LISTED"}
    /\ reached \subseteq worker[w].devices \cap alive
    /\ worker' = [worker EXCEPT ![w] = At(@.of, "DECIDED", {}, {}, "RETRY")]
    /\ Push(worker[w].of, reached # {}, FALSE)
    /\ UNCHANGED <<outboxVars, offerOpen, deviceVars, crashes>>

\* deactivateByIds, whoever has the token by now.
Drop(w) ==
    /\ worker[w].step = "ANSWERED"
    /\ token' = [d \in Devices |->
         IF d \in worker[w].rejected /\ token[d] = "ACTIVE" THEN "DROPPED" ELSE token[d]]
    /\ worker' = [worker EXCEPT ![w] = At(@.of, "DECIDED", {}, {}, @.result)]
    /\ UNCHANGED <<outboxVars, offerOpen, owner, alive, pushed, unrecorded, crashes>>

\* It throws, and with it the push that was acknowledged counts as failed.
DropFails(w) ==
    /\ worker[w].step = "ANSWERED"
    /\ ForgetPush(worker[w].of, worker[w].result)
    /\ worker' = [worker EXCEPT ![w] = At(@.of, "DECIDED", {}, {}, "RETRY")]
    /\ UNCHANGED <<outboxVars, offerOpen, deviceVars, pushed, crashes>>

--------------------------------------------------------------------------------
(***************************************************************************)
(* completeDelivery and failOrRetry, or the end of the process.            *)
(***************************************************************************)

Outcome(e, result) ==
    IF result = "OK" THEN "SENT"
    ELSE IF result = "FAIL" \/ attempts[e] + 1 >= MaxAttempts THEN "FAILED"
    ELSE "PENDING"

Commit(w) ==
    LET e == worker[w].of
        outcome == Outcome(e, worker[w].result)
    IN  /\ worker[w].step = "DECIDED"
        /\ status' = [status EXCEPT ![e] = [@ EXCEPT !["PUSH"] = outcome]]
        /\ attempts' = [attempts EXCEPT ![e] = @ + 1]
        /\ resting' = IF outcome = "PENDING" THEN resting \cup {e} ELSE resting
        /\ worker' = [worker EXCEPT ![w] = Idle]
        /\ UNCHANGED <<born, births, offerOpen, deviceVars, pushed, unrecorded, crashes>>

Crash(w) ==
    /\ worker[w] # Idle
    /\ crashes < MaxCrashes
    /\ crashes' = crashes + 1
    /\ ForgetPush(worker[w].of, worker[w].result)
    /\ worker' = [worker EXCEPT ![w] = Idle]
    /\ UNCHANGED <<outboxVars, offerOpen, deviceVars, pushed>>

BackoffElapses(e) ==
    /\ e \in resting
    /\ resting' = resting \ {e}
    /\ UNCHANGED <<born, births, status, attempts, offerOpen, deviceVars,
                   worker, pushed, unrecorded, crashes>>

--------------------------------------------------------------------------------
(***************************************************************************)
(* Devices and offers.                                                     *)
(***************************************************************************)

\* upsert: the token is the last registrant's.  FCM never revives a token.
Register(i, d) ==
    /\ d \in alive
    /\ ~(owner[d] = i /\ token[d] = "ACTIVE")
    /\ owner' = [owner EXCEPT ![d] = i]
    /\ token' = [token EXCEPT ![d] = "ACTIVE"]
    /\ UNCHANGED <<outboxVars, offerOpen, alive, worker, pushed, unrecorded, crashes>>

\* deactivateOwned
Unregister(d) ==
    /\ token[d] = "ACTIVE"
    /\ token' = [token EXCEPT ![d] = "NONE"]
    /\ UNCHANGED <<outboxVars, offerOpen, owner, alive, worker, pushed, unrecorded, crashes>>

\* The app is removed from the device.
Die(d) ==
    /\ d \in alive
    /\ alive' = alive \ {d}
    /\ UNCHANGED <<outboxVars, offerOpen, owner, token, worker, pushed, unrecorded, crashes>>

EndOffer(e) ==
    /\ e \in offerOpen
    /\ offerOpen' = offerOpen \ {e}
    /\ UNCHANGED <<outboxVars, deviceVars, worker, pushed, unrecorded, crashes>>

--------------------------------------------------------------------------------

Work(w) ==
    \/ \E e \in Events : DeliverInApp(w, e) \/ FailOffer(w, e) \/ Claim(w, e)
    \/ ListDevices(w) \/ Drop(w) \/ DropFails(w) \/ Commit(w)
    \/ \E reached \in SUBSET Devices :
        \/ Unavailable(w, reached)
        \/ \E acked, rejected \in SUBSET Devices : Send(w, reached, acked, rejected)

Next ==
    \/ \E e \in Events, on \in SUBSET Channels : Notify(e, on)
    \/ \E e \in Events : Dismiss(e) \/ BackoffElapses(e) \/ EndOffer(e)
    \/ \E w \in Workers : Work(w) \/ Crash(w)
    \/ \E i \in Identities, d \in Devices : Register(i, d)
    \/ \E d \in Devices : Unregister(d) \/ Die(d)

Spec == Init /\ [][Next]_vars

(***************************************************************************)
(* The interval of every process starts a cycle again and again, a call to *)
(* FCM ends, and time passes.  Nothing is assumed of any one delivery: a   *)
(* worker takes the oldest.                                                *)
(***************************************************************************)
Fairness ==
    /\ \A w \in Workers : WF_vars(Work(w))
    /\ \A e \in Events : WF_vars(BackoffElapses(e))

FairSpec == Spec /\ Fairness

--------------------------------------------------------------------------------
(***************************************************************************)
(* Properties.                                                             *)
(***************************************************************************)

\* However many workers there are, a notification is pushed again only when the
\* push before was not written down: FCM did not say that it arrived, a dead token
\* could not be given up, or the transaction was rolled back.  It ends with the
\* attempts: only a rollback gives one back.
PushedOnce ==
    \A e \in Events :
        /\ pushed[e] <= 1 + unrecorded[e]
        /\ pushed[e] <= MaxAttempts + crashes

\* A delivery that waits has an attempt left, also after crashes: the ceiling is
\* met exactly, neither passed nor missed.
RetryHasAttemptsLeft ==
    \A e \in Events : status[e]["PUSH"] = "PENDING" => attempts[e] < MaxAttempts

\* What is marked SENT did reach a device.
SentWasPushed == \A e \in Events : status[e]["PUSH"] = "SENT" => pushed[e] > 0

\* The worker gives up only tokens that FCM does not know, whoever registered
\* them while it waited for the answer.
OnlyDeadTokensDropped == \A d \in Devices : token[d] = "DROPPED" => d \notin alive

\* Nothing is pushed of a notification that its reader dismissed, even if a
\* worker had claimed it before.
DismissedIsQuiet ==
    [][\A e \in Events : pushed'[e] > pushed[e] => born[e] > 0]_vars

\* Every delivery is concluded, or dismissed, whatever is queued before it and
\* however often FCM fails.
Concluded ==
    \A e \in Events :
        (\E ch \in Channels : status[e][ch] = "PENDING")
            ~> (\A ch \in Channels : status[e][ch] # "PENDING")
================================================================================
