-------------------------- MODULE RiderPresenceProofs --------------------------
(***************************************************************************)
(* The theorems of RiderPresence, proved for any number of calls and       *)
(* sweepers and for any window that is at least as long as a transaction.  *)
(*                                                                         *)
(* The sweep closes only a session that its snapshot saw.  What makes this *)
(* enough is Recent: when another session is open by now, whoever opened   *)
(* it has seen the rider since, so that the sweep will let the rider be.   *)
(***************************************************************************)
EXTENDS RiderPresence, TLAPS

Recent(c) ==
    /\ Begun(c, "EXPIRE") =>
          open = calls[c].session \/ open = NoSession \/ seen <= calls[c].age + Delay
    /\ calls[c].step = "GATED" => calls[c].kind # "EXPIRE"

IInv == TypeOK /\ OfflineHasNoSession /\ \A c \in Calls : Recent(c)

CallType == [kind: {"NONE", "ONLINE", "OFFLINE", "TOUCH", "EXPIRE"},
             step: {"IDLE", "GATED", "BEGUN"}, age: 0..Delay,
             matched: {"YES", "NO"}, session: Sessions \cup {NoSession}]

--------------------------------------------------------------------------------

LEMMA Ages == Delay \in Nat /\ Stale \in Nat /\ Delay <= Stale /\ Oldest \in Nat /\ Oldest > Delay
BY TimeAssumption DEF Oldest

LEMMA IdleCall == Idle \in CallType /\ Idle.step = "IDLE" /\ Idle.kind = "NONE"
BY Ages DEF Idle, Call, CallType

LEMMA TypesOfCalls == TypeOK => calls \in [Calls -> CallType]
BY DEF TypeOK, CallType

LEMMA InitHolds == Init => IInv
<1> SUFFICES ASSUME Init PROVE IInv
    OBVIOUS
<1>1. calls \in [Calls -> CallType]
    BY IdleCall DEF Init
<1>2. TypeOK
    BY <1>1, Ages DEF Init, TypeOK, CallType
<1>3. OfflineHasNoSession
    BY DEF Init, OfflineHasNoSession
<1>4. \A c \in Calls : Recent(c)
    BY IdleCall DEF Init, Recent
<1> QED
    BY <1>2, <1>3, <1>4 DEF IInv

\* A call begins or ends, and the rider stays as it is.
LEMMA CallMoves ==
    ASSUME IInv, NEW c \in Calls, NEW r \in CallType, calls' = [calls EXCEPT ![c] = r],
           r.kind = "EXPIRE" => r.session = open /\ r.step = "BEGUN",
           UNCHANGED <<online, seen, approval, removed, open>>
    PROVE  IInv'
<1>1. TypeOK'
    BY TypesOfCalls DEF IInv, TypeOK, CallType
<1>2. OfflineHasNoSession'
    BY DEF IInv, OfflineHasNoSession
<1>3. calls'[c] = r /\ \A d \in Calls : d # c => calls'[d] = calls[d]
    BY TypesOfCalls DEF IInv
<1>4. ASSUME NEW d \in Calls PROVE Recent(d)'
    <2>1. Recent(d)
        BY DEF IInv
    <2> QED
        BY <1>3, <2>1 DEF Recent, Begun
<1> QED
    BY <1>1, <1>2, <1>4 DEF IInv

\* A transaction that leaves the rider offline or unrecorded, or seen a moment ago.
LEMMA RiderMoves ==
    ASSUME IInv, NEW c \in Calls,
           calls' = [calls EXCEPT ![c] = Idle] \/ calls' = calls,
           online' \in {"ONLINE", "OFFLINE"}, seen' \in 0..Oldest,
           approval' \in {"APPROVED", "PENDING"}, removed' \in {"YES", "NO"},
           open' \in Sessions \cup {NoSession},
           online' = "OFFLINE" => open' = NoSession,
           open' = NoSession \/ seen' <= Delay \/ (open' = open /\ seen' = seen)
    PROVE  IInv'
<1>1. calls' \in [Calls -> CallType]
    BY TypesOfCalls, IdleCall DEF IInv
<1>2. TypeOK'
    BY <1>1 DEF TypeOK, CallType
<1>3. OfflineHasNoSession'
    BY DEF OfflineHasNoSession
<1>4. ASSUME NEW d \in Calls, Begun(d, "EXPIRE")' PROVE calls'[d] = calls[d]
    BY <1>4, TypesOfCalls, IdleCall DEF IInv, Begun
<1>5. ASSUME NEW d \in Calls, Begun(d, "EXPIRE")'
      PROVE  open' = calls'[d].session \/ open' = NoSession \/ seen' <= calls'[d].age + Delay
    <2>1. calls'[d] = calls[d] /\ Recent(d) /\ calls[d].age \in 0..Delay
        BY <1>4, <1>5, TypesOfCalls DEF IInv, CallType
    <2>2. CASE seen' <= Delay
        BY <2>1, <2>2, Ages
    <2>3. CASE open' = open /\ seen' = seen
        BY <1>5, <2>1, <2>3 DEF Recent, Begun
    <2> QED
        BY <2>2, <2>3
<1>6. ASSUME NEW d \in Calls PROVE Recent(d)'
    <2>1. calls'[d] = calls[d] \/ calls'[d] = Idle
        BY TypesOfCalls DEF IInv
    <2> QED
        BY <1>5, <2>1, IdleCall DEF IInv, Recent
<1> QED
    BY <1>2, <1>3, <1>6 DEF IInv

LEMMA GateKeeps ==
    ASSUME IInv, NEW c \in Requests, NEW kind \in {"ONLINE", "OFFLINE", "TOUCH"}, Gate(c, kind)
    PROVE  IInv'
<1> DEFINE r == Call(kind, "GATED", 0, "NO", NoSession)
<1>1. r \in CallType /\ r.kind # "EXPIRE"
    BY Ages DEF Call, CallType
<1>2. calls' = [calls EXCEPT ![c] = r] /\ UNCHANGED <<online, seen, approval, removed, open>>
    BY DEF Gate
<1> HIDE DEF r
<1> QED
    BY <1>1, <1>2, CallMoves DEF Calls

LEMMA BeginKeeps ==
    ASSUME IInv, NEW c \in Requests, Begin(c)
    PROVE  IInv'
<1> DEFINE r == IF calls[c].kind = "TOUCH"
                THEN Call(calls[c].kind, "BEGUN", 0, Matched(online = "ONLINE"), open)
                ELSE Call(calls[c].kind, "BEGUN", 0, "NO", NoSession)
<1>1. calls[c].kind \in {"NONE", "ONLINE", "OFFLINE", "TOUCH", "EXPIRE"}
    BY TypesOfCalls DEF IInv, CallType, Calls
<1>2. Matched(online = "ONLINE") \in {"YES", "NO"}
    BY DEF Matched
<1>5. calls[c].kind # "EXPIRE"
    BY DEF IInv, Recent, Begin, Calls
<1>3. r \in CallType /\ r.kind # "EXPIRE"
    BY <1>1, <1>2, <1>5, Ages DEF Call, CallType, IInv, TypeOK
<1>4. calls' = [calls EXCEPT ![c] = r] /\ UNCHANGED <<online, seen, approval, removed, open>>
    BY DEF Begin
<1> HIDE DEF r
<1> QED
    BY <1>3, <1>4, CallMoves DEF Calls

LEMMA SweepKeeps ==
    ASSUME IInv, NEW w \in Sweepers, Sweep(w)
    PROVE  IInv'
<1> DEFINE m == Matched(online = "ONLINE" /\ seen > Stale)
           r == Call("EXPIRE", "BEGUN", 0, m, open)
<1>1. m \in {"YES", "NO"}
    BY DEF Matched
<1>2. calls' = [calls EXCEPT ![w] = r] /\ UNCHANGED <<online, seen, approval, removed, open>>
    BY DEF Sweep
<1> HIDE DEF m
<1>3. r \in CallType /\ r.session = open /\ r.step = "BEGUN"
    BY <1>1, Ages DEF Call, CallType, IInv, TypeOK
<1> HIDE DEF r
<1> QED
    BY <1>2, <1>3, CallMoves DEF Calls

LEMMA EndKeeps ==
    ASSUME IInv, NEW c \in Calls, TouchNobody(c) \/ ExpireNobody(c)
    PROVE  IInv'
<1>1. calls' = [calls EXCEPT ![c] = Idle] /\ UNCHANGED <<online, seen, approval, removed, open>>
    BY DEF TouchNobody, ExpireNobody, End
<1> QED
    BY <1>1, IdleCall, CallMoves

LEMMA SeenKeeps ==
    ASSUME IInv, NEW c \in Calls, GoOnline(c) \/ Touch(c)
    PROVE  IInv'
<1>1. calls[c].age \in 0..Delay
    BY TypesOfCalls DEF IInv, CallType
<1>2. seen' \in 0..Oldest /\ seen' <= Delay
    BY <1>1, Ages DEF GoOnline, Touch
<1>3. /\ calls' = [calls EXCEPT ![c] = Idle]
      /\ online' = "ONLINE" /\ UNCHANGED <<approval, removed>>
    BY DEF GoOnline, Touch, End
<1>4. open' \in Sessions \cup {NoSession}
    BY DEF GoOnline, Touch, IInv, TypeOK
<1>5. approval' \in {"APPROVED", "PENDING"} /\ removed' \in {"YES", "NO"}
    BY <1>3 DEF IInv, TypeOK
<1> QED
    BY <1>2, <1>3, <1>4, <1>5, RiderMoves

LEMMA GoOfflineKeeps ==
    ASSUME IInv, NEW c \in Calls, GoOffline(c)
    PROVE  IInv'
<1>1. /\ calls' = [calls EXCEPT ![c] = Idle] /\ online' = "OFFLINE" /\ open' = NoSession
      /\ UNCHANGED <<seen, approval, removed>>
    BY DEF GoOffline, End
<1>2. /\ seen' \in 0..Oldest /\ approval' \in {"APPROVED", "PENDING"} /\ removed' \in {"YES", "NO"}
    BY <1>1 DEF IInv, TypeOK
<1> QED
    BY <1>1, <1>2, RiderMoves

\* The sweep leaves no session open.
LEMMA ExpireCloses ==
    ASSUME IInv, NEW w \in Calls, Expire(w)
    PROVE  seen > Stale /\ open' = NoSession
<1>1. calls[w].age \in 0..Delay /\ seen \in 0..Oldest /\ Recent(w)
    BY TypesOfCalls DEF IInv, CallType, TypeOK
<1>2. seen - calls[w].age > Stale /\ Begun(w, "EXPIRE")
    BY DEF Expire, StillSilent
<1>3. ~(seen <= calls[w].age + Delay) /\ seen > Stale
    BY <1>1, <1>2, Ages
<1>4. open = calls[w].session \/ open = NoSession
    BY <1>1, <1>2, <1>3 DEF Recent
<1> QED
    BY <1>3, <1>4 DEF Expire

LEMMA ExpireKeeps ==
    ASSUME IInv, NEW w \in Calls, Expire(w)
    PROVE  IInv'
<1>1. /\ calls' = [calls EXCEPT ![w] = Idle] /\ online' = "OFFLINE"
      /\ UNCHANGED <<seen, approval, removed>>
    BY DEF Expire, End
<1>2. /\ seen' \in 0..Oldest /\ approval' \in {"APPROVED", "PENDING"} /\ removed' \in {"YES", "NO"}
    BY <1>1 DEF IInv, TypeOK
<1>3. open' = NoSession
    BY ExpireCloses
<1> QED
    BY <1>1, <1>2, <1>3, RiderMoves

\* An admin has no call of the app to end.
LEMMA AdminKeeps ==
    ASSUME IInv, Deactivate \/ Unapprove \/ Approve
    PROVE  IInv'
<1>1. calls' = calls /\ seen' = seen
    BY DEF Deactivate, Unapprove, Approve
<1>2. /\ online' \in {"ONLINE", "OFFLINE"} /\ seen' \in 0..Oldest
      /\ approval' \in {"APPROVED", "PENDING"} /\ removed' \in {"YES", "NO"}
    BY DEF Deactivate, Unapprove, Approve, IInv, TypeOK
<1>3. /\ open' \in Sessions \cup {NoSession}
      /\ online' = "OFFLINE" => open' = NoSession
      /\ open' = NoSession \/ open' = open
    BY DEF Deactivate, Unapprove, Approve, IInv, TypeOK, OfflineHasNoSession
<1>4. CASE Calls = {}
    <2>1. TypeOK'
        BY <1>1, <1>2, <1>3 DEF IInv, TypeOK
    <2> QED
        BY <1>3, <1>4, <2>1 DEF IInv, OfflineHasNoSession
<1>5. CASE \E c \in Calls : TRUE
    BY <1>1, <1>2, <1>3, <1>5, RiderMoves
<1> QED
    BY <1>4, <1>5

LEMMA TickKeeps ==
    ASSUME IInv, Tick
    PROVE  IInv'
<1> DEFINE r(c) == Call(calls[c].kind, "BEGUN", calls[c].age + 1, calls[c].matched, calls[c].session)
<1>1. /\ seen' = Older(seen) /\ UNCHANGED <<online, approval, removed, open>>
      /\ calls' = [c \in Calls |-> IF calls[c].step = "BEGUN" THEN r(c) ELSE calls[c]]
      /\ \A c \in Calls : calls[c].step = "BEGUN" => calls[c].age < Delay
    BY DEF Tick
<1>2. seen' \in 0..Oldest /\ seen' <= seen + 1
    BY <1>1, Ages DEF IInv, TypeOK, Older
<1>3. ASSUME NEW c \in Calls, calls[c].step = "BEGUN" PROVE r(c) \in CallType
    <2>1. calls[c].age \in 0..Delay /\ calls[c].age < Delay /\ calls[c] \in CallType
        BY <1>1, <1>3, TypesOfCalls DEF IInv, CallType
    <2>2. calls[c].age + 1 \in 0..Delay
        BY <2>1, Ages
    <2> QED
        BY <2>1, <2>2 DEF Call, CallType
<1>4. calls' \in [Calls -> CallType]
    BY <1>1, <1>3, TypesOfCalls DEF IInv
<1>5. TypeOK'
    BY <1>1, <1>2, <1>4 DEF IInv, TypeOK, CallType
<1>6. OfflineHasNoSession'
    BY <1>1 DEF IInv, OfflineHasNoSession
<1>7. ASSUME NEW c \in Calls, Begun(c, "EXPIRE")'
      PROVE  open' = calls'[c].session \/ open' = NoSession \/ seen' <= calls'[c].age + Delay
    <2>1. calls[c].step = "BEGUN" /\ calls'[c] = r(c)
        BY <1>1, <1>7 DEF Begun, Call
    <2>2. /\ calls'[c].kind = calls[c].kind /\ calls'[c].session = calls[c].session
          /\ calls'[c].age = calls[c].age + 1
        BY <2>1 DEF Call
    <2>3. Recent(c) /\ calls[c].age \in 0..Delay /\ seen \in 0..Oldest
        BY TypesOfCalls DEF IInv, CallType, TypeOK
    <2>4. Begun(c, "EXPIRE")
        BY <1>7, <2>1, <2>2 DEF Begun
    <2>5. CASE seen <= calls[c].age + Delay
        BY <1>2, <2>2, <2>3, <2>5, Ages
    <2>6. CASE open = calls[c].session \/ open = NoSession
        BY <1>1, <2>2, <2>6
    <2> QED
        BY <2>3, <2>4, <2>5, <2>6 DEF Recent
<1>8. ASSUME NEW c \in Calls PROVE Recent(c)'
    <2>1. calls'[c].step = "GATED" => calls'[c] = calls[c]
        BY <1>1 DEF Call
    <2> QED
        BY <1>7, <2>1 DEF IInv, Recent
<1> QED
    BY <1>5, <1>6, <1>8 DEF IInv

LEMMA StepKeeps == IInv /\ [Next]_vars => IInv'
<1> SUFFICES ASSUME IInv, [Next]_vars PROVE IInv'
    OBVIOUS
<1>1. ASSUME NEW c \in Requests, NEW kind \in {"ONLINE", "OFFLINE", "TOUCH"}, Gate(c, kind)
      PROVE  IInv'
    BY <1>1, GateKeeps
<1>2. ASSUME NEW c \in Requests, Proceed(c) PROVE IInv'
    <2>1. c \in Calls
        BY DEF Calls
    <2> QED
        BY <1>2, <2>1, BeginKeeps, SeenKeeps, GoOfflineKeeps, EndKeeps DEF Proceed
<1>3. ASSUME NEW w \in Sweepers, SweepOn(w) PROVE IInv'
    <2>1. w \in Calls
        BY DEF Calls
    <2> QED
        BY <1>3, <2>1, SweepKeeps, ExpireKeeps, EndKeeps DEF SweepOn
<1>4. CASE UNCHANGED vars
    <2>1. TypeOK' /\ OfflineHasNoSession'
        BY <1>4 DEF IInv, TypeOK, OfflineHasNoSession, vars
    <2>2. ASSUME NEW c \in Calls PROVE Recent(c)'
        BY <1>4 DEF IInv, Recent, Begun, vars
    <2> QED
        BY <2>1, <2>2 DEF IInv
<1> QED
    BY <1>1, <1>2, <1>3, <1>4, AdminKeeps, TickKeeps DEF Next

LEMMA Inductive == Spec => []IInv
BY InitHolds, StepKeeps, PTL DEF Spec

--------------------------------------------------------------------------------
(***************************************************************************)
(* Theorems.                                                               *)
(***************************************************************************)

\* The switch, the ages and the calls keep their types; no transaction outlives
\* Delay.
THEOREM TypeCorrect == Spec => []TypeOK
BY Inductive, PTL DEF IInv

\* Nobody who is offline has a session open: the sweep never leaves one behind that
\* was opened after its snapshot.
THEOREM OfflineEndsSessions == Spec => []OfflineHasNoSession
BY Inductive, PTL DEF IInv

\* Being recorded as online ends only by going offline.
THEOREM RecordingGoesOn == Spec => OnlineStaysRecorded
<1>1. ASSUME IInv, [Next]_vars
      PROVE  [online' = "ONLINE" /\ open' = NoSession
                 => online = "ONLINE" /\ open = NoSession]_vars
    <2> SUFFICES ASSUME Next, online' = "ONLINE", open' = NoSession
                 PROVE  online = "ONLINE" /\ open = NoSession
        BY <1>1
    <2>0. NoSession \notin Sessions /\ (online = "OFFLINE" => open = NoSession)
          /\ online \in {"ONLINE", "OFFLINE"}
        BY <1>1, CallsAssumption DEF IInv, OfflineHasNoSession, TypeOK
    <2>1. ASSUME NEW c \in Requests, Proceed(c) PROVE online = "ONLINE" /\ open = NoSession
        BY <2>0, <2>1 DEF Proceed, Begin, GoOnline, GoOffline, Touch, TouchNobody
    <2>2. ASSUME NEW w \in Sweepers, SweepOn(w) PROVE online = "ONLINE" /\ open = NoSession
        BY <2>0, <2>2 DEF SweepOn, Sweep, Expire, ExpireNobody
    <2>3. CASE Deactivate \/ Unapprove \/ Approve \/ Tick
        BY <2>0, <2>3 DEF Deactivate, Unapprove, Approve, Tick
    <2>4. ASSUME NEW c \in Requests, NEW kind \in {"ONLINE", "OFFLINE", "TOUCH"}, Gate(c, kind)
          PROVE  online = "ONLINE" /\ open = NoSession
        BY <2>0, <2>4 DEF Gate
    <2> QED
        BY <2>1, <2>2, <2>3, <2>4 DEF Next
<1> QED
    BY <1>1, Inductive, PTL DEF Spec, OnlineStaysRecorded

\* A rider whom the sweep takes offline was silent for the whole window.
THEOREM TheSeenAreSpared == Spec => SeenIsNotExpired
<1>1. ASSUME IInv, [Next]_vars
      PROVE  [\A w \in Sweepers :
                 calls[w].kind = "EXPIRE" /\ calls'[w] = Idle
                 /\ online = "ONLINE" /\ online' = "OFFLINE" => seen > Stale]_vars
    <2> SUFFICES ASSUME Next, NEW w \in Sweepers, calls[w].kind = "EXPIRE", calls'[w] = Idle,
                        online = "ONLINE", online' = "OFFLINE"
                 PROVE  seen > Stale
        BY <1>1
    <2>0. calls'[w] # calls[w] /\ w \in Calls /\ w \notin Requests
        BY IdleCall, CallsAssumption DEF Calls
    <2>1. ASSUME NEW c \in Requests, GoOffline(c) PROVE FALSE
        <3>1. calls' = [calls EXCEPT ![c] = Idle] /\ c # w
            BY <2>0, <2>1 DEF GoOffline, End
        <3> QED
            BY <1>1, <2>0, <3>1, TypesOfCalls DEF IInv
    <2>2. ASSUME NEW c \in Requests, Proceed(c) PROVE FALSE
        BY <2>1, <2>2 DEF Proceed, Begin, GoOnline, Touch, TouchNobody
    <2>3. ASSUME NEW v \in Sweepers, SweepOn(v) PROVE seen > Stale
        <3>1. v \in Calls
            BY DEF Calls
        <3> QED
            BY <1>1, <2>3, <3>1, ExpireCloses DEF SweepOn, Sweep, ExpireNobody
    <2>4. CASE Deactivate \/ Unapprove \/ Approve \/ Tick
        BY <2>0, <2>4 DEF Deactivate, Unapprove, Approve, Tick
    <2>5. ASSUME NEW c \in Requests, NEW kind \in {"ONLINE", "OFFLINE", "TOUCH"}, Gate(c, kind)
          PROVE  FALSE
        BY <2>5 DEF Gate
    <2> QED
        BY <2>2, <2>3, <2>4, <2>5 DEF Next
<1> QED
    BY <1>1, Inductive, PTL DEF Spec, SeenIsNotExpired

(***************************************************************************)
(* A removed rider, with no call to go online under way.  Nothing brings   *)
(* such a rider back: a call that would is refused at its gate, and one of *)
(* another kind never becomes one.                                         *)
(***************************************************************************)
Gone == removed = "YES" /\ online = "OFFLINE" /\ (\A c \in Calls : calls[c].kind # "ONLINE")

\* A call that begins, goes on or ends is not made one to go online.
LEMMA KindsStay ==
    ASSUME TypeOK, Gone, [Next]_vars, NEW c \in Calls
    PROVE  calls'[c].kind # "ONLINE"
<1> USE DEF Gone
<1>1. calls \in [Calls -> CallType]
    BY TypesOfCalls
<1>2. ASSUME NEW d \in Calls, NEW r, calls' = [calls EXCEPT ![d] = r], r.kind # "ONLINE"
      PROVE  calls'[c].kind # "ONLINE"
    BY <1>1, <1>2
<1>3. ASSUME NEW d \in Requests, NEW kind \in {"ONLINE", "OFFLINE", "TOUCH"}, Gate(d, kind)
      PROVE  calls'[c].kind # "ONLINE"
    <2> DEFINE r == Call(kind, "GATED", 0, "NO", NoSession)
    <2>1. r.kind # "ONLINE" /\ calls' = [calls EXCEPT ![d] = r]
        BY <1>3 DEF Gate, Call
    <2> HIDE DEF r
    <2> QED
        BY <1>2, <2>1 DEF Calls
<1>4. ASSUME NEW d \in Requests, Begin(d)
      PROVE  calls'[c].kind # "ONLINE"
    <2> DEFINE r == IF calls[d].kind = "TOUCH"
                    THEN Call(calls[d].kind, "BEGUN", 0, Matched(online = "ONLINE"), open)
                    ELSE Call(calls[d].kind, "BEGUN", 0, "NO", NoSession)
    <2>1. r.kind = calls[d].kind /\ calls' = [calls EXCEPT ![d] = r]
        BY <1>4 DEF Begin, Call
    <2> HIDE DEF r
    <2> QED
        BY <1>2, <2>1 DEF Calls
<1>5. ASSUME NEW w \in Sweepers, Sweep(w)
      PROVE  calls'[c].kind # "ONLINE"
    <2> DEFINE r == Call("EXPIRE", "BEGUN", 0, Matched(online = "ONLINE" /\ seen > Stale), open)
    <2>1. r.kind # "ONLINE" /\ calls' = [calls EXCEPT ![w] = r]
        BY <1>5 DEF Sweep, Call
    <2> HIDE DEF r
    <2> QED
        BY <1>2, <2>1 DEF Calls
<1>6. ASSUME NEW d \in Calls, End(d)
      PROVE  calls'[c].kind # "ONLINE"
    BY <1>2, <1>6, IdleCall DEF End
<1>7. CASE Tick
    BY <1>7 DEF Tick, Call
<1>8. CASE Deactivate \/ Unapprove \/ Approve \/ UNCHANGED vars
    BY <1>8 DEF Deactivate, Unapprove, Approve, vars
<1>9. ASSUME NEW d \in Requests, Proceed(d)
      PROVE  calls'[c].kind # "ONLINE"
    BY <1>4, <1>6, <1>9 DEF Proceed, GoOnline, GoOffline, Touch, TouchNobody, Calls
<1>10. ASSUME NEW w \in Sweepers, SweepOn(w)
      PROVE  calls'[c].kind # "ONLINE"
    BY <1>5, <1>6, <1>10 DEF SweepOn, Expire, ExpireNobody, Calls
<1> QED
    BY <1>3, <1>7, <1>8, <1>9, <1>10 DEF Next

LEMMA GoneStays == TypeOK /\ Gone /\ [Next]_vars => Gone'
<1> SUFFICES ASSUME TypeOK, Gone, [Next]_vars PROVE Gone'
    OBVIOUS
<1>1. \A c \in Calls : calls'[c].kind # "ONLINE"
    BY KindsStay
<1>2. removed' = "YES" /\ online' = "OFFLINE"
    <2> USE DEF Gone
    <2>1. ASSUME NEW c \in Requests, NEW kind \in {"ONLINE", "OFFLINE", "TOUCH"}, Gate(c, kind)
          PROVE  removed' = "YES" /\ online' = "OFFLINE"
        BY <2>1 DEF Gate
    <2>2. ASSUME NEW c \in Requests, Proceed(c)
          PROVE  removed' = "YES" /\ online' = "OFFLINE"
        BY <2>2 DEF Proceed, Begin, GoOnline, GoOffline, Touch, TouchNobody, Begun, Calls
    <2>3. ASSUME NEW w \in Sweepers, SweepOn(w)
          PROVE  removed' = "YES" /\ online' = "OFFLINE"
        BY <2>3 DEF SweepOn, Sweep, Expire, ExpireNobody
    <2>4. CASE Deactivate \/ Unapprove \/ Approve \/ Tick \/ UNCHANGED vars
        BY <2>4 DEF Deactivate, Unapprove, Approve, Tick, vars
    <2> QED
        BY <2>1, <2>2, <2>3, <2>4 DEF Next
<1> QED
    BY <1>1, <1>2 DEF Gone

\* A rider who was removed stays offline whatever the app, the sweep and the
\* admin do, once no call to go online is past its gate.
THEOREM RemovedRidersStayOffline == Spec => RemovedForGood
<1>1. Gone => online = "OFFLINE"
    BY DEF Gone
<1>2. Spec => [](Gone => [](online = "OFFLINE"))
    BY <1>1, GoneStays, TypeCorrect, PTL DEF Spec
<1>3. RemovedForGood <=> [](Gone => [](online = "OFFLINE"))
    BY DEF RemovedForGood, Gone
<1> QED
    BY <1>2, <1>3, PTL
================================================================================
