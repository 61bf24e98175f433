------------------------------ MODULE SignInProofs ------------------------------
(***************************************************************************)
(* The theorems of SignIn, proved for any number of requests and calls and *)
(* for any limits.                                                         *)
(*                                                                         *)
(* A code that has made a session stays consumed, so that no call can use  *)
(* it again (SessionsAreMade); a challenge that was chosen to be replaced  *)
(* was stored, so that nothing opens it again (ReplacedWereStored); and a  *)
(* token that was exchanged is behind the session's own (TokensAreBehind). *)
(***************************************************************************)
EXTENDS SignIn, TLAPS

ChallengeType == [state: {"NONE", "OPEN", "EXPIRED", "CONSUMED"},
                  attempts: 0..MaxAttempts, cooldown: {"YES", "NO"}]
SessionType == [code: Codes \cup {NoCode}, token: 0..MaxTokens,
                state: {"NONE", "LIVE", "EXPIRED", "REVOKED"}]
RefreshType == [step: {"IDLE", "CHOSEN", "GIVEN", "REFUSED"},
                session: Sessions \cup {NoSession}, token: 0..MaxTokens]

SessionsAreMade ==
    \A s \in Sessions : sessions[s].state # "NONE" =>
        sessions[s].code \in Codes /\ challenges[sessions[s].code].state = "CONSUMED"

NotYetStored ==
    \A r \in Codes : requests[r] \in {"NONE", "CHECKED", "BEGUN", "CHOSEN"} => r \notin Stored

ReplacedWereStored == \A r \in Codes : replaced[r] \subseteq Stored

TokensAreBehind ==
    \A r \in Refreshers :
        LET s == refreshes[r].session IN
        refreshes[r].step # "IDLE" =>
            /\ s \in Sessions /\ sessions[s].state # "NONE"
            /\ refreshes[r].step = "GIVEN" => refreshes[r].token < sessions[s].token

VerifiesHaveChosen == \A v \in Verifiers : verifies[v] = Idle \/ verifies[v].code \in Codes

CodeInv == NotYetStored /\ ReplacedWereStored /\ ReplacedCodesAreDead

SessionInv == SessionsAreMade /\ CodeUsedOnce

TokenInv == TokensAreBehind /\ TokenExchangedOnce

IInv == TypeOK /\ VerifiesHaveChosen /\ CodeInv /\ SessionInv /\ TokenInv

--------------------------------------------------------------------------------

LEMMA Limits == MaxAttempts \in Nat /\ MaxTokens \in Nat /\ MaxAttempts >= 1 /\ MaxTokens >= 1
BY LimitsAssumption

LEMMA Types ==
    TypeOK => /\ challenges \in [Codes -> ChallengeType]
              /\ sessions \in [Sessions -> SessionType]
              /\ refreshes \in [Refreshers -> RefreshType]
BY DEF TypeOK, ChallengeType, SessionType, RefreshType

LEMMA InitHolds == Init => IInv
<1> SUFFICES ASSUME Init PROVE IInv
    OBVIOUS
<1>1. TypeOK
    BY Limits DEF Init, TypeOK, Challenge, Session, Refresh, Idle, Verify
<1>2. Stored = {}
    BY DEF Init, Stored, Challenge
<1>3. CodeInv /\ VerifiesHaveChosen
    BY <1>2 DEF Init, CodeInv, NotYetStored, ReplacedWereStored, ReplacedCodesAreDead, VerifiesHaveChosen
<1>4. SessionInv
    BY DEF Init, SessionInv, SessionsAreMade, CodeUsedOnce, Session
<1>5. TokenInv
    BY DEF Init, TokenInv, TokensAreBehind, TokenExchangedOnce, Refresh
<1> QED
    BY <1>1, <1>3, <1>4, <1>5 DEF IInv

--------------------------------------------------------------------------------

\* Challenges that are stored stay so, and those that are consumed; nothing of
\* the sessions and their tokens changes.
LEMMA RequestMoves ==
    ASSUME IInv, TypeOK', VerifiesHaveChosen', CodeInv',
           \A c \in Codes : challenges[c].state = "CONSUMED" => challenges'[c].state = "CONSUMED",
           UNCHANGED <<sessions, refreshes>>
    PROVE  IInv'
<1>1. SessionInv'
    BY DEF IInv, SessionInv, SessionsAreMade, CodeUsedOnce
<1>2. TokenInv'
    BY DEF IInv, TokenInv, TokensAreBehind, TokenExchangedOnce
<1> QED
    BY <1>1, <1>2 DEF IInv

\* A request goes from one step to another and no challenge changes.
LEMMA CheckKeeps ==
    ASSUME IInv, NEW r \in Codes, Check(r) \/ Begin(r) \/ Deliver(r) \/ Fail(r)
    PROVE  IInv'
<1>1. TypeOK'
    <2>1. CASE Begin(r)
        BY <2>1 DEF IInv, TypeOK, Begin, Step
    <2>2. CASE Check(r) \/ Deliver(r) \/ Fail(r)
        BY <2>2 DEF IInv, TypeOK, Check, Deliver, Fail, Step
    <2> QED
        BY <2>1, <2>2
<1>2. UNCHANGED <<replaced, challenges, verifies, sessions, refreshes>>
    BY DEF Check, Begin, Deliver, Fail
<1>3. Stored' = Stored
    BY <1>2 DEF Stored
<1>4. \A d \in Codes : requests'[d] = requests[d]
         \/ requests[d] \in {"NONE", "CHECKED", "BEGUN", "CHOSEN"}
         \/ requests'[d] \in {"SENT", "GONE"}
    BY DEF Check, Begin, Deliver, Fail, Step, IInv, TypeOK
<1>5. VerifiesHaveChosen'
    BY <1>2 DEF IInv, VerifiesHaveChosen
<1>6. CodeInv'
    BY <1>2, <1>3, <1>4 DEF IInv, CodeInv, NotYetStored, ReplacedWereStored, ReplacedCodesAreDead
<1> QED
    BY <1>1, <1>2, <1>5, <1>6, RequestMoves

LEMMA ChooseOpenKeeps ==
    ASSUME IInv, NEW r \in Codes, ChooseOpen(r)
    PROVE  IInv'
<1>1. TypeOK'
    BY DEF IInv, TypeOK, ChooseOpen, Step, Stored
<1>2. UNCHANGED <<challenges, verifies, sessions, refreshes>> /\ Stored' = Stored
    BY DEF ChooseOpen, Stored
<1>3. r \notin Stored
    BY DEF IInv, CodeInv, NotYetStored, ChooseOpen, Step
<1>4. \A d \in Codes : d # r => requests'[d] = requests[d] /\ replaced'[d] = replaced[d]
    BY DEF ChooseOpen, Step, IInv, TypeOK
<1>5. replaced'[r] \subseteq Stored
    BY DEF ChooseOpen, IInv, TypeOK
<1>6. CodeInv'
    <2>1. NotYetStored'
        BY <1>2, <1>3, <1>4 DEF IInv, CodeInv, NotYetStored
    <2>2. ReplacedWereStored'
        BY <1>2, <1>4, <1>5 DEF IInv, CodeInv, ReplacedWereStored
    <2>3. ReplacedCodesAreDead'
        BY <1>2, <1>3, <1>4 DEF IInv, CodeInv, ReplacedCodesAreDead, Stored
    <2> QED
        BY <2>1, <2>2, <2>3 DEF CodeInv
<1>7. VerifiesHaveChosen'
    BY <1>2 DEF IInv, VerifiesHaveChosen
<1> QED
    BY <1>1, <1>2, <1>6, <1>7, RequestMoves

LEMMA StoreKeeps ==
    ASSUME IInv, NEW r \in Codes, Store(r)
    PROVE  IInv'
<1>1. challenges \in [Codes -> ChallengeType]
    BY Types DEF IInv
<1>2. /\ challenges'[r] = Challenge("OPEN", 0, "YES")
      /\ \A c \in Codes : c # r /\ c \in replaced[r] => challenges'[c] = Consumed(challenges[c])
      /\ \A c \in Codes : c # r /\ c \notin replaced[r] => challenges'[c] = challenges[c]
    BY DEF Store
<1>3. challenges' \in [Codes -> ChallengeType]
    BY <1>1, Limits DEF Store, Consumed, Challenge, ChallengeType
<1>4. TypeOK'
    BY <1>3 DEF IInv, TypeOK, Store, Step, ChallengeType
<1>5. r \notin Stored
    BY DEF IInv, CodeInv, NotYetStored, Store, Step
<1>6. /\ challenges'[r].state = "OPEN"
      /\ \A c \in Codes : c # r /\ c \in replaced[r] => challenges'[c].state = "CONSUMED"
      /\ \A c \in Codes : c # r /\ c \notin replaced[r] => challenges'[c].state = challenges[c].state
    <2>1. Challenge("OPEN", 0, "YES").state = "OPEN" /\ \A ch : Consumed(ch).state = "CONSUMED"
        BY DEF Consumed, Challenge
    <2> QED
        BY <1>2, <2>1
<1>7. \A c \in Codes : challenges[c].state = "CONSUMED" => challenges'[c].state = "CONSUMED"
    BY <1>5, <1>6 DEF Stored
<1>8. Stored' = Stored \cup {r}
    BY <1>6 DEF IInv, CodeInv, ReplacedWereStored, Stored
<1>9. /\ requests'[r] = "STORED" /\ replaced' = replaced
      /\ \A d \in Codes : d # r => requests'[d] = requests[d]
    BY DEF Store, Step, IInv, TypeOK
<1>10. NotYetStored'
    BY <1>8, <1>9 DEF IInv, CodeInv, NotYetStored
<1>11. ReplacedWereStored'
    BY <1>8, <1>9 DEF IInv, CodeInv, ReplacedWereStored
<1>12. ReplacedCodesAreDead'
    <2> SUFFICES ASSUME NEW d \in Stored', NEW c \in replaced'[d]
                 PROVE  challenges'[c].state = "CONSUMED"
        BY DEF ReplacedCodesAreDead
    <2>1. d \in Codes /\ c \in replaced[d] /\ c \in Stored /\ c \in Codes /\ c # r
        BY <1>5, <1>9 DEF IInv, CodeInv, ReplacedWereStored, Stored
    <2>2. CASE d = r
        BY <1>6, <2>1, <2>2
    <2>3. CASE d # r
        BY <1>7, <1>8, <2>1, <2>3 DEF IInv, CodeInv, ReplacedCodesAreDead
    <2> QED
        BY <2>2, <2>3
<1>13. UNCHANGED <<verifies, sessions, refreshes>>
    BY DEF Store
<1>14. VerifiesHaveChosen'
    BY <1>13 DEF IInv, VerifiesHaveChosen
<1> QED
    BY <1>4, <1>7, <1>10, <1>11, <1>12, <1>13, <1>14, RequestMoves DEF CodeInv

\* A stored challenge changes: it gets older, or a wrong code is entered.
LEMMA ChallengeMoves ==
    ASSUME IInv, NEW c \in Codes, NEW ch \in ChallengeType,
           challenges' = [challenges EXCEPT ![c] = ch],
           challenges[c].state = ch.state \/ (challenges[c].state = "OPEN" /\ ch.state # "NONE"),
           UNCHANGED <<requests, before, replaced>>
    PROVE  /\ challenges' \in [Codes -> ChallengeType]
           /\ challenges'[c] = ch
           /\ \A d \in Codes : d # c => challenges'[d] = challenges[d]
           /\ \A d \in Codes : challenges[d].state = "CONSUMED" => challenges'[d].state = "CONSUMED"
           /\ CodeInv'
<1>1. challenges \in [Codes -> ChallengeType]
    BY Types DEF IInv
<1>2. /\ challenges' \in [Codes -> ChallengeType]
      /\ challenges'[c] = ch
      /\ \A d \in Codes : d # c => challenges'[d] = challenges[d]
    BY <1>1
<1>3. \A d \in Codes : challenges[d].state = "CONSUMED" => challenges'[d].state = "CONSUMED"
    BY <1>2
<1>4. Stored' = Stored
    BY <1>2 DEF Stored
<1>5. CodeInv'
    BY <1>3, <1>4 DEF IInv, CodeInv, NotYetStored, ReplacedWereStored, ReplacedCodesAreDead, Stored
<1> QED
    BY <1>2, <1>3, <1>5

LEMMA TimeKeeps ==
    ASSUME IInv, NEW c \in Codes, CoolDown(c) \/ ExpireCode(c)
    PROVE  IInv'
<1>1. PICK ch \in ChallengeType :
          /\ challenges' = [challenges EXCEPT ![c] = ch]
          /\ challenges[c].state = ch.state \/ (challenges[c].state = "OPEN" /\ ch.state # "NONE")
    <2>1. challenges[c] \in ChallengeType
        BY Types DEF IInv
    <2>2. CASE CoolDown(c)
        <3> DEFINE ch == Challenge(challenges[c].state, challenges[c].attempts, "NO")
        <3>1. ch \in ChallengeType /\ ch.state = challenges[c].state
            BY <2>1 DEF Challenge, ChallengeType
        <3>2. challenges' = [challenges EXCEPT ![c] = ch]
            BY <2>2 DEF CoolDown
        <3> QED
            BY <3>1, <3>2
    <2>3. CASE ExpireCode(c)
        <3> DEFINE ch == Challenge("EXPIRED", challenges[c].attempts, challenges[c].cooldown)
        <3>1. ch \in ChallengeType /\ ch.state = "EXPIRED" /\ challenges[c].state = "OPEN"
            BY <2>1, <2>3 DEF Challenge, ChallengeType, ExpireCode
        <3>2. challenges' = [challenges EXCEPT ![c] = ch]
            BY <2>3 DEF ExpireCode
        <3> QED
            BY <3>1, <3>2
    <2> QED
        BY <2>2, <2>3
<1>2. UNCHANGED <<requests, before, replaced, verifies, sessions, refreshes>>
    BY DEF CoolDown, ExpireCode
<1>3. /\ challenges' \in [Codes -> ChallengeType] /\ CodeInv'
      /\ \A d \in Codes : challenges[d].state = "CONSUMED" => challenges'[d].state = "CONSUMED"
    BY <1>1, <1>2, ChallengeMoves
<1>4. TypeOK'
    BY <1>2, <1>3 DEF IInv, TypeOK, ChallengeType
<1>5. VerifiesHaveChosen'
    BY <1>2 DEF IInv, VerifiesHaveChosen
<1> QED
    BY <1>2, <1>3, <1>4, <1>5, RequestMoves

--------------------------------------------------------------------------------

VerifyType == [code: Codes \cup {NoCode}, entered: Codes \cup {NoCode}]

\* A call of verify begins or ends.
LEMMA VerifyMoves ==
    ASSUME IInv, NEW v \in Verifiers, NEW x \in VerifyType, x = Idle \/ x.code \in Codes,
           verifies' = [verifies EXCEPT ![v] = x]
    PROVE  verifies' \in [Verifiers -> VerifyType] /\ VerifiesHaveChosen'
<1>1. verifies \in [Verifiers -> VerifyType]
    BY DEF IInv, TypeOK, VerifyType
<1>2. verifies'[v] = x /\ \A w \in Verifiers : w # v => verifies'[w] = verifies[w]
    BY <1>1
<1> QED
    BY <1>1, <1>2 DEF IInv, VerifiesHaveChosen

LEMMA IdleVerify == Idle \in VerifyType
BY DEF Idle, Verify, VerifyType

LEMMA ChooseLatestKeeps ==
    ASSUME IInv, NEW v \in Verifiers, ChooseLatest(v)
    PROVE  IInv'
<1>1. PICK c \in Latest, entered \in {d \in Codes : requests[d] = "SENT"} \cup {NoCode} :
          verifies' = [verifies EXCEPT ![v] = Verify(c, entered)]
    BY DEF ChooseLatest
<1>2. Verify(c, entered) \in VerifyType /\ Verify(c, entered).code \in Codes
    BY DEF Latest, Stored, Verify, VerifyType
<1>3. verifies' \in [Verifiers -> VerifyType] /\ VerifiesHaveChosen'
    BY <1>1, <1>2, VerifyMoves
<1>4. UNCHANGED <<requests, before, replaced, challenges, sessions, refreshes>>
    BY DEF ChooseLatest
<1>5. TypeOK'
    BY <1>3, <1>4 DEF IInv, TypeOK, VerifyType
<1>6. CodeInv'
    BY <1>4 DEF IInv, CodeInv, NotYetStored, ReplacedWereStored, ReplacedCodesAreDead, Stored
<1> QED
    BY <1>3, <1>4, <1>5, <1>6, RequestMoves

LEMMA NotNowKeeps ==
    ASSUME IInv, NEW v \in Verifiers, NotNow(v)
    PROVE  IInv'
<1>1. verifies' \in [Verifiers -> VerifyType] /\ VerifiesHaveChosen'
    BY VerifyMoves, IdleVerify DEF NotNow
<1>2. UNCHANGED <<requests, before, replaced, challenges, sessions, refreshes>>
    BY DEF NotNow
<1>3. TypeOK'
    BY <1>1, <1>2 DEF IInv, TypeOK, VerifyType
<1>4. CodeInv'
    BY <1>2 DEF IInv, CodeInv, NotYetStored, ReplacedWereStored, ReplacedCodesAreDead, Stored
<1> QED
    BY <1>1, <1>2, <1>3, <1>4, RequestMoves

LEMMA WrongCodeKeeps ==
    ASSUME IInv, NEW v \in Verifiers, WrongCode(v)
    PROVE  IInv'
<1> DEFINE c == verifies[v].code
           ch == Challenge(challenges[c].state, challenges[c].attempts + 1, challenges[c].cooldown)
<1>1. c \in Codes
    BY DEF WrongCode, IInv, VerifiesHaveChosen
<1>2. challenges[c] \in ChallengeType /\ challenges[c].attempts < MaxAttempts
    BY <1>1, Types DEF IInv, WrongCode, Usable
<1>3. ch \in ChallengeType /\ ch.state = challenges[c].state
    BY <1>2, Limits DEF Challenge, ChallengeType
<1>4. /\ challenges' = [challenges EXCEPT ![c] = ch]
      /\ verifies' = [verifies EXCEPT ![v] = Idle]
      /\ UNCHANGED <<requests, before, replaced, sessions, refreshes>>
    BY DEF WrongCode
<1> HIDE DEF c, ch
<1>5. /\ challenges' \in [Codes -> ChallengeType] /\ CodeInv'
      /\ \A d \in Codes : challenges[d].state = "CONSUMED" => challenges'[d].state = "CONSUMED"
    BY <1>1, <1>3, <1>4, ChallengeMoves
<1>6. verifies' \in [Verifiers -> VerifyType] /\ VerifiesHaveChosen'
    BY <1>4, VerifyMoves, IdleVerify
<1>7. TypeOK'
    BY <1>4, <1>5, <1>6 DEF IInv, TypeOK, ChallengeType, VerifyType
<1> QED
    BY <1>4, <1>5, <1>6, <1>7, RequestMoves

LEMMA RightCodeKeeps ==
    ASSUME IInv, NEW v \in Verifiers, RightCode(v)
    PROVE  IInv'
<1> DEFINE c == verifies[v].code
           ch == Consumed(challenges[c])
           new == Session(c, 1, "LIVE")
<1>1. c \in Codes
    BY DEF RightCode, IInv, VerifiesHaveChosen
<1>2. challenges[c] \in ChallengeType /\ challenges[c].state = "OPEN"
    BY <1>1, Types DEF IInv, RightCode, Usable
<1>3. ch \in ChallengeType /\ ch.state = "CONSUMED"
    BY <1>2 DEF Consumed, Challenge, ChallengeType
<1>4. PICK s \in Sessions :
          sessions[s].state = "NONE" /\ sessions' = [sessions EXCEPT ![s] = new]
    BY DEF RightCode
<1>5. /\ challenges' = [challenges EXCEPT ![c] = ch]
      /\ verifies' = [verifies EXCEPT ![v] = Idle]
      /\ UNCHANGED <<requests, before, replaced, refreshes>>
    BY DEF RightCode
<1>6. new \in SessionType /\ new.code = c /\ new.state = "LIVE" /\ new.token = 1
    BY <1>1, Limits DEF Session, SessionType
<1> HIDE DEF c, ch, new
<1>7. sessions \in [Sessions -> SessionType] /\ sessions' \in [Sessions -> SessionType]
    BY <1>4, <1>6, Types DEF IInv
<1>8. sessions'[s] = new /\ \A t \in Sessions : t # s => sessions'[t] = sessions[t]
    BY <1>4, <1>7
<1>9. /\ challenges' \in [Codes -> ChallengeType] /\ challenges'[c] = ch /\ CodeInv'
      /\ \A d \in Codes : challenges[d].state = "CONSUMED" => challenges'[d].state = "CONSUMED"
    BY <1>1, <1>2, <1>3, <1>5, ChallengeMoves
<1>10. verifies' \in [Verifiers -> VerifyType] /\ VerifiesHaveChosen'
    BY <1>5, VerifyMoves, IdleVerify
<1>11. TypeOK'
    BY <1>5, <1>7, <1>9, <1>10 DEF IInv, TypeOK, ChallengeType, VerifyType, SessionType
<1>12. \A t \in Sessions : t # s /\ sessions[t].state # "NONE" => sessions[t].code # c
    BY <1>2 DEF IInv, SessionInv, SessionsAreMade
<1>13. SessionsAreMade'
    BY <1>1, <1>3, <1>6, <1>8, <1>9 DEF IInv, SessionInv, SessionsAreMade
<1>14. CodeUsedOnce'
    BY <1>6, <1>8, <1>12 DEF IInv, SessionInv, CodeUsedOnce
<1>15. \A r \in Refreshers : refreshes[r].step # "IDLE" => refreshes[r].session # s
    BY <1>4 DEF IInv, TokenInv, TokensAreBehind
<1>16. TokensAreBehind'
    BY <1>5, <1>8, <1>15 DEF IInv, TokenInv, TokensAreBehind
<1>17. TokenExchangedOnce'
    BY <1>5 DEF IInv, TokenInv, TokenExchangedOnce
<1> QED
    BY <1>9, <1>10, <1>11, <1>13, <1>14, <1>16, <1>17 DEF IInv, SessionInv, TokenInv

--------------------------------------------------------------------------------

\* What the sessions and their tokens do is nothing to the codes.
LEMMA SessionMoves ==
    ASSUME IInv, sessions' \in [Sessions -> SessionType], refreshes' \in [Refreshers -> RefreshType],
           \A s \in Sessions : sessions'[s].code = sessions[s].code
                /\ (sessions'[s].state = "NONE" <=> sessions[s].state = "NONE"),
           UNCHANGED <<requests, before, replaced, challenges, verifies>>,
           TokenInv'
    PROVE  IInv'
<1>1. TypeOK'
    BY DEF IInv, TypeOK, SessionType, RefreshType
<1>2. CodeInv' /\ VerifiesHaveChosen'
    BY DEF IInv, CodeInv, NotYetStored, ReplacedWereStored, ReplacedCodesAreDead, Stored,
           VerifiesHaveChosen
<1>3. SessionInv'
    BY DEF IInv, SessionInv, SessionsAreMade, CodeUsedOnce
<1> QED
    BY <1>1, <1>2, <1>3 DEF IInv

\* A call of refresh that has not been given a token goes on.
LEMMA RefreshMoves ==
    ASSUME IInv, NEW r \in Refreshers, NEW x \in RefreshType, x.session \in Sessions,
           sessions[x.session].state # "NONE", x.step # "GIVEN",
           refreshes' = [refreshes EXCEPT ![r] = x],
           UNCHANGED <<requests, before, replaced, challenges, verifies, sessions>>
    PROVE  IInv'
<1>1. refreshes \in [Refreshers -> RefreshType] /\ sessions \in [Sessions -> SessionType]
    BY Types DEF IInv
<1>2. refreshes'[r] = x /\ \A q \in Refreshers : q # r => refreshes'[q] = refreshes[q]
    BY <1>1
<1>3. TokensAreBehind'
    BY <1>2 DEF IInv, TokenInv, TokensAreBehind
<1>4. TokenExchangedOnce'
    BY <1>2 DEF IInv, TokenInv, TokenExchangedOnce
<1> QED
    BY <1>1, <1>3, <1>4, SessionMoves DEF TokenInv

LEMMA PresentKeeps ==
    ASSUME IInv, NEW r \in Refreshers, Present(r)
    PROVE  IInv'
<1>1. PICK s \in Sessions :
          /\ sessions[s].state = "LIVE"
          /\ refreshes' = [refreshes EXCEPT ![r] = Refresh("CHOSEN", s, sessions[s].token)]
    BY DEF Present
<1> DEFINE x == Refresh("CHOSEN", s, sessions[s].token)
<1>2. sessions[s] \in SessionType
    BY Types DEF IInv
<1>3. x \in RefreshType /\ x.session = s /\ x.step = "CHOSEN"
    BY <1>2 DEF Refresh, RefreshType, SessionType
<1>4. UNCHANGED <<requests, before, replaced, challenges, verifies, sessions>>
    BY DEF Present
<1> HIDE DEF x
<1> QED
    BY <1>1, <1>3, <1>4, RefreshMoves DEF x

LEMMA RefuseTokenKeeps ==
    ASSUME IInv, NEW r \in Refreshers, RefuseToken(r)
    PROVE  IInv'
<1> DEFINE s == refreshes[r].session
           x == Refresh("REFUSED", s, refreshes[r].token)
<1>1. refreshes[r] \in RefreshType /\ s \in Sessions /\ sessions[s].state # "NONE"
    BY Types DEF IInv, TokenInv, TokensAreBehind, RefuseToken
<1>2. x \in RefreshType /\ x.session = s /\ x.step = "REFUSED"
    BY <1>1 DEF Refresh, RefreshType
<1>3. /\ refreshes' = [refreshes EXCEPT ![r] = x]
      /\ UNCHANGED <<requests, before, replaced, challenges, verifies, sessions>>
    BY DEF RefuseToken
<1> HIDE DEF s, x
<1> QED
    BY <1>1, <1>2, <1>3, RefreshMoves

LEMMA ExchangeKeeps ==
    ASSUME IInv, NEW r \in Refreshers, Exchange(r)
    PROVE  IInv'
<1> DEFINE s == refreshes[r].session
           old == refreshes[r].token
           new == Session(sessions[s].code, sessions[s].token + 1, "LIVE")
           x == Refresh("GIVEN", s, old)
<1>1. /\ refreshes \in [Refreshers -> RefreshType] /\ sessions \in [Sessions -> SessionType]
      /\ s \in Sessions /\ sessions[s] \in SessionType /\ refreshes[r] \in RefreshType
    BY Types DEF IInv, TokenInv, TokensAreBehind, Exchange
<1>2. /\ sessions[s].token = old /\ sessions[s].token < MaxTokens
      /\ sessions[s].state # "NONE" /\ sessions[s].state # "REVOKED"
    BY DEF Exchange, IInv, TokenInv, TokensAreBehind
<1>3. new \in SessionType /\ new.code = sessions[s].code /\ new.state = "LIVE" /\ new.token = old + 1
    BY <1>1, <1>2, Limits DEF Session, SessionType
<1>4. x \in RefreshType /\ x.step = "GIVEN" /\ x.session = s /\ x.token = old
    BY <1>1 DEF Refresh, RefreshType
<1>5. /\ sessions' = [sessions EXCEPT ![s] = new]
      /\ refreshes' = [refreshes EXCEPT ![r] = x]
      /\ UNCHANGED <<requests, before, replaced, challenges, verifies>>
    BY DEF Exchange
<1>6. old \in Nat
    BY <1>1, Limits DEF RefreshType
<1> HIDE DEF s, old, new, x
<1>7. sessions'[s] = new /\ \A t \in Sessions : t # s => sessions'[t] = sessions[t]
    BY <1>1, <1>5
<1>8. refreshes'[r] = x /\ \A q \in Refreshers : q # r => refreshes'[q] = refreshes[q]
    BY <1>1, <1>5
<1>9. \A q \in Refreshers : refreshes[q].step = "GIVEN" /\ refreshes[q].session = s
          => refreshes[q].token < old /\ refreshes[q].token \in Nat
    <2> SUFFICES ASSUME NEW q \in Refreshers, refreshes[q].step = "GIVEN", refreshes[q].session = s
                 PROVE  refreshes[q].token < old /\ refreshes[q].token \in Nat
        OBVIOUS
    <2>1. refreshes[q] \in RefreshType
        BY <1>1
    <2>2. refreshes[q].token \in Nat
        BY <2>1, Limits DEF RefreshType
    <2>3. refreshes[q].token < sessions[s].token
        BY DEF IInv, TokenInv, TokensAreBehind
    <2> QED
        BY <1>2, <2>2, <2>3
<1>10. TokensAreBehind'
    <2> SUFFICES ASSUME NEW q \in Refreshers, refreshes'[q].step # "IDLE"
                 PROVE  /\ refreshes'[q].session \in Sessions
                        /\ sessions'[refreshes'[q].session].state # "NONE"
                        /\ refreshes'[q].step = "GIVEN" =>
                              refreshes'[q].token < sessions'[refreshes'[q].session].token
        BY DEF TokensAreBehind
    <2>1. CASE q = r
        BY <1>1, <1>3, <1>4, <1>6, <1>7, <1>8, <2>1
    <2>2. CASE q # r /\ refreshes[q].session # s
        BY <1>7, <1>8, <2>2 DEF IInv, TokenInv, TokensAreBehind
    <2>3. CASE q # r /\ refreshes[q].session = s
        <3>1. refreshes'[q] = refreshes[q] /\ sessions'[s] = new
            BY <1>7, <1>8, <2>3
        <3>2. refreshes[q].step = "GIVEN" => refreshes[q].token < old + 1
            BY <1>6, <1>9, <2>3
        <3> QED
            BY <1>1, <1>3, <2>3, <3>1, <3>2
    <2> QED
        BY <2>1, <2>2, <2>3
<1>11. TokenExchangedOnce'
    BY <1>4, <1>6, <1>8, <1>9 DEF IInv, TokenInv, TokenExchangedOnce
<1>12. sessions' \in [Sessions -> SessionType] /\ refreshes' \in [Refreshers -> RefreshType]
    BY <1>1, <1>3, <1>4, <1>5
<1>13. \A t \in Sessions : sessions'[t].code = sessions[t].code
          /\ (sessions'[t].state = "NONE" <=> sessions[t].state = "NONE")
    BY <1>2, <1>3, <1>7
<1> QED
    BY <1>5, <1>10, <1>11, <1>12, <1>13, SessionMoves DEF TokenInv

\* A session that is there ends.
LEMMA SessionEnds ==
    ASSUME IInv, NEW s \in Sessions, Revoke(s) \/ ExpireSession(s)
    PROVE  IInv'
<1>1. PICK state \in {"EXPIRED", "REVOKED"} :
          sessions' = [sessions EXCEPT ![s] = Session(sessions[s].code, sessions[s].token, state)]
    BY DEF Revoke, ExpireSession
<1> DEFINE new == Session(sessions[s].code, sessions[s].token, state)
<1>2. sessions \in [Sessions -> SessionType] /\ sessions[s] \in SessionType
      /\ refreshes \in [Refreshers -> RefreshType] /\ sessions[s].state # "NONE"
    BY Types DEF IInv, Revoke, ExpireSession
<1>3. /\ new \in SessionType /\ new.code = sessions[s].code /\ new.token = sessions[s].token
      /\ new.state # "NONE"
    BY <1>2 DEF Session, SessionType
<1>4. UNCHANGED <<requests, before, replaced, challenges, verifies, refreshes>>
    BY DEF Revoke, ExpireSession
<1>5. sessions' = [sessions EXCEPT ![s] = new]
    BY <1>1
<1> HIDE DEF new
<1>6. sessions'[s] = new /\ \A t \in Sessions : t # s => sessions'[t] = sessions[t]
    BY <1>2, <1>5
<1>7. TokensAreBehind'
    BY <1>3, <1>4, <1>6 DEF IInv, TokenInv, TokensAreBehind
<1>8. TokenExchangedOnce'
    BY <1>4 DEF IInv, TokenInv, TokenExchangedOnce
<1>9. sessions' \in [Sessions -> SessionType] /\ refreshes' \in [Refreshers -> RefreshType]
    BY <1>2, <1>3, <1>4, <1>5
<1>10. \A t \in Sessions : sessions'[t].code = sessions[t].code
          /\ (sessions'[t].state = "NONE" <=> sessions[t].state = "NONE")
    BY <1>2, <1>3, <1>6
<1> QED
    BY <1>4, <1>7, <1>8, <1>9, <1>10, SessionMoves DEF TokenInv

LEMMA InvStep == IInv /\ [Next]_vars => IInv'
<1> SUFFICES ASSUME IInv, [Next]_vars PROVE IInv'
    OBVIOUS
<1>1. CASE UNCHANGED vars
    BY <1>1, RequestMoves DEF vars, IInv, TypeOK, VerifiesHaveChosen, CodeInv, NotYetStored,
                              ReplacedWereStored, ReplacedCodesAreDead, Stored
<1>2. ASSUME NEW r \in Codes,
             Check(r) \/ Begin(r) \/ ChooseOpen(r) \/ Store(r) \/ Deliver(r) \/ Fail(r)
             \/ CoolDown(r) \/ ExpireCode(r)
      PROVE  IInv'
    BY <1>2, CheckKeeps, ChooseOpenKeeps, StoreKeeps, TimeKeeps
<1>3. ASSUME NEW v \in Verifiers, ChooseLatest(v) \/ NotNow(v) \/ WrongCode(v) \/ RightCode(v)
      PROVE  IInv'
    BY <1>3, ChooseLatestKeeps, NotNowKeeps, WrongCodeKeeps, RightCodeKeeps
<1>4. ASSUME NEW r \in Refreshers, Present(r) \/ Exchange(r) \/ RefuseToken(r)
      PROVE  IInv'
    BY <1>4, PresentKeeps, ExchangeKeeps, RefuseTokenKeeps
<1> QED
    BY <1>1, <1>2, <1>3, <1>4, SessionEnds DEF Next

LEMMA InvHolds == Spec => []IInv
BY InitHolds, InvStep, PTL DEF Spec

--------------------------------------------------------------------------------

(***************************************************************************)
(* Every variable keeps its range, the attempts of a code among them.      *)
(***************************************************************************)
THEOREM TypeCorrect == Spec => []TypeOK
<1>1. IInv => TypeOK
    BY DEF IInv
<1> QED
    BY <1>1, InvHolds, PTL

(***************************************************************************)
(* OtpService.verify makes one session of a code at most, however many     *)
(* calls carry the code at once.                                           *)
(***************************************************************************)
THEOREM CodesAreUsedOnce == Spec => []CodeUsedOnce
<1>1. IInv => CodeUsedOnce
    BY DEF IInv, SessionInv
<1> QED
    BY <1>1, InvHolds, PTL

(***************************************************************************)
(* A code is guessed at no more often than otp.maxAttempts allows, over    *)
(* all calls of verify.                                                    *)
(***************************************************************************)
THEOREM GuessingIsBounded == Spec => []GuessesAreBounded
<1>1. IInv => GuessesAreBounded
    <2> SUFFICES ASSUME IInv, NEW c \in Codes PROVE challenges[c].attempts <= MaxAttempts
        BY DEF GuessesAreBounded
    <2>1. challenges[c] \in ChallengeType
        BY Types DEF IInv
    <2> QED
        BY <2>1, Limits DEF ChallengeType
<1> QED
    BY <1>1, InvHolds, PTL

(***************************************************************************)
(* A challenge that a later request found open is consumed for good once   *)
(* that request's own is stored.                                           *)
(***************************************************************************)
THEOREM ReplacedStayDead == Spec => []ReplacedCodesAreDead
<1>1. IInv => ReplacedCodesAreDead
    BY DEF IInv, CodeInv
<1> QED
    BY <1>1, InvHolds, PTL

(***************************************************************************)
(* SessionRepository.rotateRefresh gives the next token to one of the      *)
(* calls that present a token.                                             *)
(***************************************************************************)
THEOREM TokensAreExchangedOnce == Spec => []TokenExchangedOnce
<1>1. IInv => TokenExchangedOnce
    BY DEF IInv, TokenInv
<1> QED
    BY <1>1, InvHolds, PTL

(***************************************************************************)
(* No exchange and no passing of time touches a session that was revoked.  *)
(***************************************************************************)
THEOREM RevokedSessionsStay == Spec => SignedOutStays
<1>1. TypeOK /\ [Next]_vars =>
          [\A s \in Sessions : sessions[s].state = "REVOKED" => sessions'[s] = sessions[s]]_vars
    <2> SUFFICES ASSUME TypeOK, Next, NEW s \in Sessions, sessions[s].state = "REVOKED"
                 PROVE  sessions'[s] = sessions[s]
        OBVIOUS
    <2>1. CASE UNCHANGED sessions
        BY <2>1
    <2>2. ASSUME NEW v \in Verifiers, RightCode(v) PROVE sessions'[s] = sessions[s]
        <3>1. PICK t \in Sessions : sessions[t].state = "NONE"
                  /\ sessions' = [sessions EXCEPT ![t] = Session(verifies[v].code, 1, "LIVE")]
            BY <2>2 DEF RightCode
        <3> QED
            BY <3>1 DEF TypeOK
    <2>3. ASSUME NEW r \in Refreshers, Exchange(r) PROVE sessions'[s] = sessions[s]
        BY <2>3 DEF TypeOK, Exchange
    <2>4. ASSUME NEW t \in Sessions, Revoke(t) \/ ExpireSession(t) PROVE sessions'[s] = sessions[s]
        BY <2>4 DEF TypeOK, Revoke, ExpireSession
    <2> QED
        BY <2>1, <2>2, <2>3, <2>4 DEF Next, Check, Begin, ChooseOpen, Store, Deliver, Fail, CoolDown,
            ExpireCode, ChooseLatest, NotNow, WrongCode, Present, RefuseToken
<1> QED
    BY <1>1, TypeCorrect, PTL DEF Spec, SignedOutStays

================================================================================
