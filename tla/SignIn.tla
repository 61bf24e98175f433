--------------------------------- MODULE SignIn ---------------------------------
(***************************************************************************)
(* Signing in with one phone: codes are requested, sent and entered, a     *)
(* right code makes a session, and the app exchanges the session's refresh *)
(* token for the next one until somebody signs out (backend/src/auth:      *)
(* otp/otp.service.ts, otp/otp.repository.ts, auth.service.ts and          *)
(* session.repository.ts).                                                 *)
(*                                                                         *)
(* A statement chooses its rows as they were when it began; it waits for   *)
(* rows that another transaction has changed, and then looks at them       *)
(* again.  Of every such statement the choice and the second look are two  *)
(* steps.  created_at is when a transaction began, and verify asks for the *)
(* latest code by created_at.                                              *)
(***************************************************************************)
EXTENDS Integers

CONSTANTS
    Codes,          \* requests for a code, and the challenge that each stores
    NoCode,
    Verifiers,      \* calls of verify that may run at once
    Sessions,       \* rows of sessions
    Refreshers,     \* calls of refresh
    NoSession,
    MaxAttempts,    \* otp.maxAttempts
    MaxTokens       \* bounds the refresh tokens of a session

ASSUME NamesAssumption == NoCode \notin Codes /\ NoSession \notin Sessions
ASSUME LimitsAssumption == MaxAttempts \in Nat \ {0} /\ MaxTokens \in Nat \ {0}

VARIABLES
    requests,       \* where a request for a code stands
    before,         \* created_at: the requests whose transaction began earlier
    replaced,       \* the challenges that a request's UPDATE chose to consume
    challenges,     \* otp_challenges
    verifies,       \* the challenge that a call of verify chose, and its code
    sessions,       \* the code that made it, its refresh token, its state
    refreshes       \* what a call of refresh presents, and what came of it

vars == <<requests, before, replaced, challenges, verifies, sessions, refreshes>>

Challenge(state, attempts, cooldown) ==
    [state |-> state, attempts |-> attempts, cooldown |-> cooldown]

Verify(code, entered) == [code |-> code, entered |-> entered]
Idle == Verify(NoCode, NoCode)

Session(code, token, state) == [code |-> code, token |-> token, state |-> state]

Refresh(step, session, token) == [step |-> step, session |-> session, token |-> token]

TypeOK ==
    /\ requests \in [Codes -> {"NONE", "CHECKED", "BEGUN", "CHOSEN", "STORED", "SENT", "GONE"}]
    /\ before \in [Codes -> SUBSET Codes]
    /\ replaced \in [Codes -> SUBSET Codes]
    /\ challenges \in [Codes -> [state: {"NONE", "OPEN", "EXPIRED", "CONSUMED"},
                                 attempts: 0..MaxAttempts, cooldown: {"YES", "NO"}]]
    /\ verifies \in [Verifiers -> [code: Codes \cup {NoCode}, entered: Codes \cup {NoCode}]]
    /\ sessions \in [Sessions -> [code: Codes \cup {NoCode}, token: 0..MaxTokens,
                                  state: {"NONE", "LIVE", "EXPIRED", "REVOKED"}]]
    /\ refreshes \in [Refreshers -> [step: {"IDLE", "CHOSEN", "GIVEN", "REFUSED"},
                                     session: Sessions \cup {NoSession}, token: 0..MaxTokens]]

Init ==
    /\ requests = [r \in Codes |-> "NONE"]
    /\ before = [r \in Codes |-> {}]
    /\ replaced = [r \in Codes |-> {}]
    /\ challenges = [c \in Codes |-> Challenge("NONE", 0, "NO")]
    /\ verifies = [v \in Verifiers |-> Idle]
    /\ sessions = [s \in Sessions |-> Session(NoCode, 0, "NONE")]
    /\ refreshes = [r \in Refreshers |-> Refresh("IDLE", NoSession, 0)]

Stored == {c \in Codes : challenges[c].state # "NONE"}

\* latestForPhone, lockLatestForPhone
Latest == {c \in Stored : Stored \ {c} \subseteq before[c]}

--------------------------------------------------------------------------------
(***************************************************************************)
(* A request for a code.                                                   *)
(***************************************************************************)

Step(r, from, to) == requests[r] = from /\ requests' = [requests EXCEPT ![r] = to]

\* The cooldown of the latest challenge, read before the transaction.
Check(r) ==
    /\ Step(r, "NONE", "CHECKED")
    /\ \A c \in Latest : challenges[c].cooldown = "NO"
    /\ UNCHANGED <<before, replaced, challenges, verifies, sessions, refreshes>>

Begin(r) ==
    /\ Step(r, "CHECKED", "BEGUN")
    /\ before' = [before EXCEPT
                    ![r] = {d \in Codes : requests[d] \notin {"NONE", "CHECKED"}}]
    /\ UNCHANGED <<replaced, challenges, verifies, sessions, refreshes>>

\* consumeOpenChallenges begins.
ChooseOpen(r) ==
    /\ Step(r, "BEGUN", "CHOSEN")
    /\ replaced' = [replaced EXCEPT
                      ![r] = {c \in Stored : challenges[c].state # "CONSUMED"}]
    /\ UNCHANGED <<before, challenges, verifies, sessions, refreshes>>

Consumed(ch) == Challenge("CONSUMED", ch.attempts, ch.cooldown)

\* Mutant: the earlier challenges are left as they are.
StoreBeside(r) ==
    /\ Step(r, "CHOSEN", "STORED")
    /\ challenges' = [c \in Codes |->
          IF c = r THEN Challenge("OPEN", 0, "YES") ELSE challenges[c]]
    /\ UNCHANGED <<before, replaced, verifies, sessions, refreshes>>

\* It consumes those that still are not, and the new challenge is stored.
Store(r) ==
    /\ Step(r, "CHOSEN", "STORED")
    /\ challenges' = [c \in Codes |->
          IF c = r THEN Challenge("OPEN", 0, "YES")
          ELSE IF c \in replaced[r] THEN Consumed(challenges[c])
          ELSE challenges[c]]
    /\ UNCHANGED <<before, replaced, verifies, sessions, refreshes>>

\* The message is sent after the commit.
Deliver(r) ==
    /\ Step(r, "STORED", "SENT")
    /\ UNCHANGED <<before, replaced, challenges, verifies, sessions, refreshes>>

\* The request fails, or its process stops; a challenge that is stored stays.
Fail(r) ==
    /\ requests[r] \in {"CHECKED", "BEGUN", "CHOSEN", "STORED"}
    /\ Step(r, requests[r], "GONE")
    /\ UNCHANGED <<before, replaced, challenges, verifies, sessions, refreshes>>

\* Time passes.
CoolDown(c) ==
    /\ challenges[c].cooldown = "YES"
    /\ challenges' = [challenges EXCEPT
                        ![c] = Challenge(challenges[c].state, challenges[c].attempts, "NO")]
    /\ UNCHANGED <<requests, before, replaced, verifies, sessions, refreshes>>

ExpireCode(c) ==
    /\ challenges[c].state = "OPEN"
    /\ challenges' = [challenges EXCEPT
                        ![c] = Challenge("EXPIRED", challenges[c].attempts, challenges[c].cooldown)]
    /\ UNCHANGED <<requests, before, replaced, verifies, sessions, refreshes>>

--------------------------------------------------------------------------------
(***************************************************************************)
(* verify.                                                                 *)
(***************************************************************************)

\* A code that was sent is entered, or one that never was: NoCode.
ChooseLatest(v) ==
    /\ verifies[v] = Idle
    /\ \E c \in Latest, entered \in {d \in Codes : requests[d] = "SENT"} \cup {NoCode} :
          verifies' = [verifies EXCEPT ![v] = Verify(c, entered)]
    /\ UNCHANGED <<requests, before, replaced, challenges, sessions, refreshes>>

\* Mutant: consumed_at is not looked at.
UsableTwice(ch) == ch.state \in {"OPEN", "CONSUMED"} /\ ch.attempts < MaxAttempts

\* assertChallengeUsable and the attempts, of the row as it is once it is locked.
Usable(ch) == ch.state = "OPEN" /\ ch.attempts < MaxAttempts

NotNow(v) ==
    /\ verifies[v] # Idle
    /\ ~Usable(challenges[verifies[v].code])
    /\ verifies' = [verifies EXCEPT ![v] = Idle]
    /\ UNCHANGED <<requests, before, replaced, challenges, sessions, refreshes>>

WrongCode(v) ==
    LET c == verifies[v].code
        ch == challenges[c]
    IN
    /\ verifies[v] # Idle
    /\ Usable(ch)
    /\ verifies[v].entered # c
    /\ challenges' = [challenges EXCEPT ![c] = Challenge(ch.state, ch.attempts + 1, ch.cooldown)]
    /\ verifies' = [verifies EXCEPT ![v] = Idle]
    /\ UNCHANGED <<requests, before, replaced, sessions, refreshes>>

RightCode(v) ==
    LET c == verifies[v].code IN
    /\ verifies[v] # Idle
    /\ Usable(challenges[c])
    /\ verifies[v].entered = c
    /\ challenges' = [challenges EXCEPT ![c] = Consumed(challenges[c])]
    /\ \E s \in Sessions :
          /\ sessions[s].state = "NONE"
          /\ sessions' = [sessions EXCEPT ![s] = Session(c, 1, "LIVE")]
    /\ verifies' = [verifies EXCEPT ![v] = Idle]
    /\ UNCHANGED <<requests, before, replaced, refreshes>>

--------------------------------------------------------------------------------
(***************************************************************************)
(* The session.                                                            *)
(***************************************************************************)

\* An app, or a copy of it, presents a token that it was given; the UPDATE finds
\* the session by the token's hash.
Present(r) ==
    /\ refreshes[r].step = "IDLE"
    /\ \E s \in Sessions :
          /\ sessions[s].state = "LIVE"
          /\ refreshes' = [refreshes EXCEPT ![r] = Refresh("CHOSEN", s, sessions[s].token)]
    /\ UNCHANGED <<requests, before, replaced, challenges, verifies, sessions>>

\* Mutant: the session is found by the token and changed by its id.
ExchangeById(r) ==
    LET s == refreshes[r].session IN
    /\ refreshes[r].step = "CHOSEN"
    /\ sessions[s].state # "REVOKED" /\ sessions[s].token < MaxTokens
    /\ sessions' = [sessions EXCEPT ![s] = Session(@.code, @.token + 1, "LIVE")]
    /\ refreshes' = [refreshes EXCEPT ![r] = Refresh("GIVEN", s, refreshes[r].token)]
    /\ UNCHANGED <<requests, before, replaced, challenges, verifies>>

\* Mutant: the second look leaves revoked_at out.
ExchangeRevoked(r) ==
    LET s == refreshes[r].session IN
    /\ refreshes[r].step = "CHOSEN"
    /\ sessions[s].token = refreshes[r].token /\ sessions[s].token < MaxTokens
    /\ sessions' = [sessions EXCEPT ![s] = Session(@.code, @.token + 1, "LIVE")]
    /\ refreshes' = [refreshes EXCEPT ![r] = Refresh("GIVEN", s, refreshes[r].token)]
    /\ UNCHANGED <<requests, before, replaced, challenges, verifies>>

\* rotateRefresh, of the row as it is by now; its now() is when it began, and a
\* session that expired since is exchanged.
Exchange(r) ==
    LET s == refreshes[r].session IN
    /\ refreshes[r].step = "CHOSEN"
    /\ sessions[s].state # "REVOKED" /\ sessions[s].token = refreshes[r].token
    /\ sessions[s].token < MaxTokens
    /\ sessions' = [sessions EXCEPT ![s] = Session(@.code, @.token + 1, "LIVE")]
    /\ refreshes' = [refreshes EXCEPT ![r] = Refresh("GIVEN", s, refreshes[r].token)]
    /\ UNCHANGED <<requests, before, replaced, challenges, verifies>>

RefuseToken(r) ==
    LET s == refreshes[r].session IN
    /\ refreshes[r].step = "CHOSEN"
    /\ sessions[s].state = "REVOKED" \/ sessions[s].token # refreshes[r].token
    /\ refreshes' = [refreshes EXCEPT ![r] = Refresh("REFUSED", s, refreshes[r].token)]
    /\ UNCHANGED <<requests, before, replaced, challenges, verifies, sessions>>

\* Sign-out, or the removal of a rider.
Revoke(s) ==
    /\ sessions[s].state \in {"LIVE", "EXPIRED"}
    /\ sessions' = [sessions EXCEPT ![s] = Session(@.code, @.token, "REVOKED")]
    /\ UNCHANGED <<requests, before, replaced, challenges, verifies, refreshes>>

ExpireSession(s) ==
    /\ sessions[s].state = "LIVE"
    /\ sessions' = [sessions EXCEPT ![s] = Session(@.code, @.token, "EXPIRED")]
    /\ UNCHANGED <<requests, before, replaced, challenges, verifies, refreshes>>

Next ==
    \/ \E r \in Codes : Check(r) \/ Begin(r) \/ ChooseOpen(r) \/ Store(r) \/ Deliver(r) \/ Fail(r)
    \/ \E c \in Codes : CoolDown(c) \/ ExpireCode(c)
    \/ \E v \in Verifiers : ChooseLatest(v) \/ NotNow(v) \/ WrongCode(v) \/ RightCode(v)
    \/ \E r \in Refreshers : Present(r) \/ Exchange(r) \/ RefuseToken(r)
    \/ \E s \in Sessions : Revoke(s) \/ ExpireSession(s)

Spec == Init /\ [][Next]_vars

--------------------------------------------------------------------------------
(***************************************************************************)
(* Properties.                                                             *)
(***************************************************************************)

\* A code signs in once, however many calls carry it at the same time.
CodeUsedOnce ==
    \A s, t \in Sessions :
        sessions[s].state # "NONE" /\ sessions[t].state # "NONE" /\ sessions[s].code = sessions[t].code
        => s = t

\* A code is guessed at MaxAttempts times at most, counted over all calls.
GuessesAreBounded == \A c \in Codes : challenges[c].attempts <= MaxAttempts

\* A code that a later request found open is dead once that request's own code is
\* stored, for the calls of verify that had chosen it before, too.
ReplacedCodesAreDead ==
    \A r \in Stored : \A c \in replaced[r] : challenges[c].state = "CONSUMED"

\* Of the calls that present one refresh token one is given the next.
TokenExchangedOnce ==
    \A q, r \in Refreshers :
        refreshes[q].step = "GIVEN" /\ refreshes[q] = refreshes[r] => q = r

\* A session that was revoked stays as it was: no exchange that was on its way
\* revives it.
SignedOutStays ==
    [][\A s \in Sessions : sessions[s].state = "REVOKED" => sessions'[s] = sessions[s]]_vars
================================================================================
