----------------------------- MODULE RiderPresence -----------------------------
(***************************************************************************)
(* The presence of one rider: the availability switch, the signs of life   *)
(* that the app sends, the sweep that takes a silent rider offline and the *)
(* sessions from which online time is reported                             *)
(* (backend/src/auth/identity/identity.repository.ts and its callers).     *)
(*                                                                         *)
(* A statement sees the rows as they were when it began and looks again at *)
(* a row that it had to wait for; now() is when its transaction began.     *)
(* Time is kept as ages, so that it never ends: how long ago the rider was *)
(* seen, and how long ago each transaction began.                          *)
(***************************************************************************)
EXTENDS Integers

CONSTANTS
    Requests,       \* calls of the rider's app that may run at once
    Sweepers,       \* processes, each with a notification worker
    Sessions,       \* rows of rider_online_sessions
    NoSession,
    Stale,          \* the presence window, location.presenceStaleMs
    Delay           \* the longest that a transaction takes

ASSUME CallsAssumption == Requests \cap Sweepers = {} /\ NoSession \notin Sessions
ASSUME TimeAssumption == Stale \in Nat /\ Delay \in Nat /\ Delay <= Stale

Calls == Requests \cup Sweepers

\* Ages from here on look the same to every transaction.
Oldest == Stale + Delay + 1
Older(age) == IF age < Oldest THEN age + 1 ELSE Oldest

VARIABLES
    online,         \* rider_profiles.online_status
    seen,           \* the age of last_seen_at; Oldest also where it is null
    approval,       \* approval_status
    removed,        \* deactivated_at is set
    open,           \* the session that has not ended
    calls           \* what runs

vars == <<online, seen, approval, removed, open, calls>>

\* A call past its gate, and the snapshot of a statement that has begun: whether
\* it matched the rider, and the session that it found open.
Call(kind, step, age, matched, session) ==
    [kind |-> kind, step |-> step, age |-> age, matched |-> matched, session |-> session]

Idle == Call("NONE", "IDLE", 0, "NO", NoSession)

Matched(condition) == IF condition THEN "YES" ELSE "NO"

TypeOK ==
    /\ online \in {"ONLINE", "OFFLINE"}
    /\ seen \in 0..Oldest
    /\ approval \in {"APPROVED", "PENDING"}
    /\ removed \in {"YES", "NO"}
    /\ open \in Sessions \cup {NoSession}
    /\ calls \in [Calls -> [kind: {"NONE", "ONLINE", "OFFLINE", "TOUCH", "EXPIRE"},
                            step: {"IDLE", "GATED", "BEGUN"}, age: 0..Delay,
                            matched: {"YES", "NO"}, session: Sessions \cup {NoSession}]]

\* A rider may have gone online before sessions were kept.
Init ==
    /\ online \in {"ONLINE", "OFFLINE"}
    /\ seen = Oldest
    /\ approval = "APPROVED"
    /\ removed = "NO"
    /\ open = NoSession
    /\ calls = [c \in Calls |-> Idle]

IsNew(s) == s # open /\ \A c \in Calls : calls[c].session # s

End(c) == calls' = [calls EXCEPT ![c] = Idle]

--------------------------------------------------------------------------------
(***************************************************************************)
(* The calls of the rider's app.                                           *)
(***************************************************************************)

\* Mutant: the gate does not look for a removed rider.
GateUnchecked(c, kind) ==
    /\ calls[c] = Idle
    /\ kind = "ONLINE" => approval = "APPROVED"
    /\ calls' = [calls EXCEPT ![c] = Call(kind, "GATED", 0, "NO", NoSession)]
    /\ UNCHANGED <<online, seen, approval, removed, open>>

\* setRiderAvailability up to its transaction.  The location endpoint asks for a
\* session only, which a removed rider gets by signing in again.
Gate(c, kind) ==
    /\ calls[c] = Idle
    /\ kind # "TOUCH" => removed = "NO"
    /\ kind = "ONLINE" => approval = "APPROVED"
    /\ calls' = [calls EXCEPT ![c] = Call(kind, "GATED", 0, "NO", NoSession)]
    /\ UNCHANGED <<online, seen, approval, removed, open>>

Begin(c) ==
    /\ calls[c].step = "GATED"
    /\ calls' = [calls EXCEPT ![c] =
         IF @.kind = "TOUCH" THEN Call(@.kind, "BEGUN", 0, Matched(online = "ONLINE"), open)
                             ELSE Call(@.kind, "BEGUN", 0, "NO", NoSession)]
    /\ UNCHANGED <<online, seen, approval, removed, open>>

Begun(c, kind) == calls[c].step = "BEGUN" /\ calls[c].kind = kind

\* Mutant: a stale session is closed and no new one opened.
GoOnlineClosing(c) ==
    /\ Begun(c, "ONLINE")
    /\ online' = "ONLINE" /\ seen' = calls[c].age
    /\ IF open = NoSession THEN \E s \in Sessions : IsNew(s) /\ open' = s
       ELSE IF online = "ONLINE" /\ seen <= Stale THEN open' = open
       ELSE open' = NoSession
    /\ End(c)
    /\ UNCHANGED <<approval, removed>>

\* applyOnlineStatus, which has locked the rider and then looks: the session of a
\* rider who was present goes on, any other is closed and a new one opened.
GoOnline(c) ==
    /\ Begun(c, "ONLINE")
    /\ online' = "ONLINE" /\ seen' = calls[c].age
    /\ IF online = "ONLINE" /\ seen <= Stale /\ open # NoSession THEN open' = open
       ELSE \E s \in Sessions : IsNew(s) /\ open' = s
    /\ End(c)
    /\ UNCHANGED <<approval, removed>>

GoOffline(c) ==
    /\ Begun(c, "OFFLINE")
    /\ online' = "OFFLINE" /\ open' = NoSession
    /\ End(c)
    /\ UNCHANGED <<seen, approval, removed>>

\* touchRiderLastSeen: only a rider who was and is online is seen, and has a
\* session opened if there was none and there is none.
Touch(c) ==
    /\ Begun(c, "TOUCH")
    /\ calls[c].matched = "YES" /\ online = "ONLINE"
    /\ seen' = calls[c].age
    /\ IF calls[c].session = NoSession /\ open = NoSession
       THEN \E s \in Sessions : IsNew(s) /\ open' = s
       ELSE open' = open
    /\ End(c)
    /\ UNCHANGED <<online, approval, removed>>

TouchNobody(c) ==
    /\ Begun(c, "TOUCH")
    /\ ~(calls[c].matched = "YES" /\ online = "ONLINE")
    /\ End(c)
    /\ UNCHANGED <<online, seen, approval, removed, open>>

--------------------------------------------------------------------------------
(***************************************************************************)
(* The sweep of the notification worker.                                   *)
(***************************************************************************)

\* Mutant: only a rider with a session can be swept.
SweepRecorded(w) ==
    /\ calls[w] = Idle
    /\ calls' = [calls EXCEPT ![w] =
         Call("EXPIRE", "BEGUN", 0,
              Matched(online = "ONLINE" /\ seen > Stale /\ open # NoSession), open)]
    /\ UNCHANGED <<online, seen, approval, removed, open>>

Sweep(w) ==
    /\ calls[w] = Idle
    /\ calls' = [calls EXCEPT ![w] =
         Call("EXPIRE", "BEGUN", 0, Matched(online = "ONLINE" /\ seen > Stale), open)]
    /\ UNCHANGED <<online, seen, approval, removed, open>>

\* The row is looked at again, with the now() of the sweep.
StillSilent(w) ==
    calls[w].matched = "YES" /\ online = "ONLINE" /\ seen - calls[w].age > Stale

\* Mutant: what matched the snapshot is taken offline.
ExpireMatched(w) ==
    /\ Begun(w, "EXPIRE") /\ calls[w].matched = "YES"
    /\ online' = "OFFLINE"
    /\ open' = IF open = calls[w].session THEN NoSession ELSE open
    /\ End(w)
    /\ UNCHANGED <<seen, approval, removed>>

\* expireStaleOnlineRiders: of the sessions only one that the statement saw open.
Expire(w) ==
    /\ Begun(w, "EXPIRE") /\ StillSilent(w)
    /\ online' = "OFFLINE"
    /\ open' = IF open = calls[w].session THEN NoSession ELSE open
    /\ End(w)
    /\ UNCHANGED <<seen, approval, removed>>

ExpireNobody(w) ==
    /\ Begun(w, "EXPIRE") /\ ~StillSilent(w)
    /\ End(w)
    /\ UNCHANGED <<online, seen, approval, removed, open>>

--------------------------------------------------------------------------------
(***************************************************************************)
(* What an admin does, each in one transaction that has locked the rider.  *)
(***************************************************************************)

Deactivate ==
    /\ removed = "NO"
    /\ removed' = "YES" /\ online' = "OFFLINE" /\ open' = NoSession
    /\ UNCHANGED <<seen, approval, calls>>

\* reopenForAdmin, or documents that syncVerification does not accept, whatever
\* the approval was.
Unapprove ==
    /\ approval' = "PENDING" /\ online' = "OFFLINE" /\ open' = NoSession
    /\ UNCHANGED <<seen, removed, calls>>

\* syncVerification accepts the documents; without the switch nothing is open.
Approve ==
    /\ approval = "PENDING"
    /\ approval' = "APPROVED"
    /\ open' = IF online = "OFFLINE" THEN NoSession ELSE open
    /\ UNCHANGED <<online, seen, removed, calls>>

--------------------------------------------------------------------------------

\* Time goes on as long as no transaction has to end.
Tick ==
    /\ \A c \in Calls : calls[c].step = "BEGUN" => calls[c].age < Delay
    /\ seen' = Older(seen)
    /\ calls' = [c \in Calls |->
         IF calls[c].step = "BEGUN"
         THEN Call(calls[c].kind, "BEGUN", calls[c].age + 1, calls[c].matched, calls[c].session)
         ELSE calls[c]]
    /\ UNCHANGED <<online, approval, removed, open>>

Proceed(c) == Begin(c) \/ GoOnline(c) \/ GoOffline(c) \/ Touch(c) \/ TouchNobody(c)
SweepOn(w) == Sweep(w) \/ Expire(w) \/ ExpireNobody(w)

Next ==
    \/ \E c \in Requests, kind \in {"ONLINE", "OFFLINE", "TOUCH"} : Gate(c, kind)
    \/ \E c \in Requests : Proceed(c)
    \/ \E w \in Sweepers : SweepOn(w)
    \/ Deactivate \/ Unapprove \/ Approve
    \/ Tick

Spec == Init /\ [][Next]_vars

(***************************************************************************)
(* Time passes, calls end, and the worker of every process sweeps at each  *)
(* of its cycles.  The rider and the admin need not do anything.           *)
(***************************************************************************)
Fairness ==
    /\ WF_vars(Tick)
    /\ \A c \in Requests : WF_vars(Proceed(c))
    /\ \A w \in Sweepers : WF_vars(SweepOn(w))

FairSpec == Spec /\ Fairness

--------------------------------------------------------------------------------
(***************************************************************************)
(* Properties.                                                             *)
(***************************************************************************)

\* Online time is not counted for a rider who is offline: however the switch, the
\* signs of life, the sweep and the admin interleave, no session is left open.
OfflineHasNoSession == online = "OFFLINE" => open = NoSession

\* A rider who is online with a session keeps being recorded until offline.
OnlineStaysRecorded ==
    [][online' = "ONLINE" /\ open' = NoSession => online = "ONLINE" /\ open = NoSession]_vars

\* The sweep spares a rider whose sign of life overtook it: whoever it takes
\* offline was not seen for the whole window.
SeenIsNotExpired ==
    [][\A w \in Sweepers :
        calls[w].kind = "EXPIRE" /\ calls'[w] = Idle /\ online = "ONLINE" /\ online' = "OFFLINE"
            => seen > Stale]_vars

\* A removal takes the rider offline in the end: a call to go online that had
\* passed its gate before may undo it, but the gate admits no other, and the sweep
\* ends what the call began, unless the app goes on sending locations.
RemovedGoesOffline ==
    <>(removed = "YES") /\ <>[](\A c \in Requests : calls[c].kind # "TOUCH")
        => <>[](online = "OFFLINE")

\* Once no call to go online is under way, a removed rider who is offline stays so.
RemovedForGood ==
    [](removed = "YES" /\ online = "OFFLINE" /\ (\A c \in Calls : calls[c].kind # "ONLINE")
        => [](online = "OFFLINE"))

\* A rider whose app has fallen silent is taken offline in the end.
SilentGoesOffline ==
    <>[](\A c \in Requests : calls[c].kind \notin {"ONLINE", "TOUCH"}) => <>[](online = "OFFLINE")

================================================================================
