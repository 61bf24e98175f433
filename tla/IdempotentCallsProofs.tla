------------------------ MODULE IdempotentCallsProofs ------------------------
(***************************************************************************)
(* The theorems of IdempotentCalls, proved for any calls, keys and         *)
(* requests, and for any balance.                                          *)
(*                                                                         *)
(* What a call may rely on depends on where it stands, and on what it      *)
(* holds: Course says both.  A call about to commit holds the index entry  *)
(* of its key, which nobody else's transaction can then have, and the      *)
(* entry is of a key that has no row; and a payment that has the lock has  *)
(* looked since it got it.                                                 *)
(***************************************************************************)
EXTENDS IdempotentCalls, TLAPS

Words == {"none", "conflict", "refused", "lost"}
Steps == {"new", "looked", "inside", "locked", "written", "committed", "raced", "done"}

\* What is held is held by a call of that key, or of that kind.
Held ==
    /\ \A k \in Keys, c \in Calls : slot[k] = c => KeyOf[c] = k /\ pc[c] = "written"
    /\ \A l \in Locking, c \in Calls :
          lock[l] = c => Kind(c) = l /\ pc[c] \in {"locked", "written"}

Course(c) ==
    /\ pc[c] = "done" <=> answer[c] # "none"
    /\ pc[c] = "written" => slot[KeyOf[c]] = c /\ ~Recorded(c)
    /\ pc[c] = "locked" => Kind(c) \in Locking
    /\ pc[c] \in {"locked", "written"} /\ Kind(c) \in Locking =>
          /\ lock[Kind(c)] = c
          /\ Kind(c) = "payment" => ~Recorded(c)
          /\ Kind(c) = "withdraw" => funds # 0
    /\ pc[c] = "raced" => Recorded(c)
    /\ pc[c] = "committed" => row[KeyOf[c]] = c
    /\ c \in effects => pc[c] \in {"committed", "done"}

IInv == TypeOK /\ Held /\ \A c \in Calls : Course(c)

--------------------------------------------------------------------------------

LEMMA Sane ==
    /\ \A c \in Calls : KeyOf[c] \in Keys /\ c # Nobody /\ c \notin Words
    /\ TypeOK => \A c \in Calls : Kind(c) \in Kinds
BY CallsAssumption, WordsAssumption DEF Words, TypeOK, Kind

LEMMA InitHolds == Init => IInv
<1> SUFFICES ASSUME Init PROVE IInv
    OBVIOUS
<1>1. TypeOK
    BY FundsAssumption DEF Init, TypeOK
<1>2. Held
    BY Sane DEF Init, Held
<1>3. ASSUME NEW c \in Calls PROVE Course(c)
    BY Sane DEF Init, Course
<1> QED
    BY <1>1, <1>2, <1>3 DEF IInv

\* One call moves, and holds what it held: nothing is stored.
LEMMA CallMoves ==
    ASSUME IInv, NEW c \in Calls, NEW step \in Steps, NEW word \in Calls \cup Words,
           pc' = [pc EXCEPT ![c] = step], answer' = [answer EXCEPT ![c] = word],
           pc[c] \notin {"locked", "written", "done"},
           step \notin {"locked", "written", "committed", "raced"},
           step = "done" <=> word # "none",
           c \in effects => step = "done",
           UNCHANGED <<kind, row, effects, funds, slot, lock>>
    PROVE  IInv'
<1>1. TypeOK'
    BY DEF IInv, TypeOK, Steps, Words
<1>2. pc'[c] = step /\ answer'[c] = word
      /\ \A d \in Calls : d # c => pc'[d] = pc[d] /\ answer'[d] = answer[d]
    BY DEF IInv, TypeOK
<1>3. Held'
    BY <1>2 DEF IInv, Held, Kind
<1>4. ASSUME NEW d \in Calls PROVE Course(d)'
    BY <1>2 DEF IInv, Course, Kind, Recorded
<1> QED
    BY <1>1, <1>3, <1>4 DEF IInv

\* What a replay tells: the result of the key's row, or that there is a conflict.
LEMMA Replay ==
    ASSUME IInv, NEW c \in Calls, Recorded(c), ReplayOrConflict(c)
    PROVE  \E word \in (Calls \cup Words) \ {"none"} :
              /\ pc' = [pc EXCEPT ![c] = "done"]
              /\ answer' = [answer EXCEPT ![c] = word]
<1>1. row[KeyOf[c]] \in Calls
    BY Sane DEF IInv, TypeOK, Recorded
<1> QED
    BY <1>1, Sane DEF ReplayOrConflict, Tell, Words

LEMMA Stay ==
    ASSUME IInv, NEW c \in Calls, NEW step, Go(c, step), pc[c] # "done"
    PROVE  /\ pc' = [pc EXCEPT ![c] = step]
           /\ answer' = [answer EXCEPT ![c] = "none"]
<1>1. answer[c] = "none" /\ answer \in [Calls -> Calls \cup Words]
    BY DEF IInv, Course, TypeOK, Words
<1> QED
    BY <1>1 DEF Go

LEMMA LookOutsideKeeps ==
    ASSUME IInv, NEW c \in Calls, LookOutside(c)
    PROVE  IInv'
<1> USE DEF LookOutside
<1>1. CASE Recorded(c)
    BY <1>1, Replay, CallMoves DEF Steps
<1>2. CASE ~Recorded(c)
    BY <1>2, Stay, CallMoves DEF Steps, Words, IInv, Course
<1> QED
    BY <1>1, <1>2

LEMMA LookInsideKeeps ==
    ASSUME IInv, NEW c \in Calls, LookInside(c)
    PROVE  IInv'
<1> USE DEF LookInside
<1>1. CASE Recorded(c)
    BY <1>1, Replay, CallMoves DEF Steps
<1>2. CASE ~Recorded(c)
    BY <1>2, Stay, CallMoves DEF Steps, Words, IInv, Course
<1> QED
    BY <1>1, <1>2

LEMMA ReplyKeeps ==
    ASSUME IInv, NEW c \in Calls, Reply(c)
    PROVE  IInv'
BY Sane, CallMoves DEF Reply, Tell, Steps, Words

LEMMA FindRacedKeeps ==
    ASSUME IInv, NEW c \in Calls, FindRaced(c)
    PROVE  IInv'
<1>1. Recorded(c)
    BY DEF FindRaced, IInv, Course
<1> QED
    BY <1>1, Replay, CallMoves DEF FindRaced, Steps

\* A call ends or goes on with another step, and what it held is released.
LEMMA ReleaseKeeps ==
    ASSUME IInv, NEW c \in Calls, NEW step \in Steps, NEW word \in Calls \cup Words,
           pc' = [pc EXCEPT ![c] = step], answer' = [answer EXCEPT ![c] = word],
           Release(c),
           step \notin {"locked", "written", "committed"},
           step = "done" <=> word # "none",
           step = "raced" => Recorded(c),
           c \in effects => step = "done",
           UNCHANGED <<kind, row, effects, funds>>
    PROVE  IInv'
<1>1. TypeOK'
    BY DEF IInv, TypeOK, Steps, Words, Release
<1>2. pc'[c] = step /\ answer'[c] = word
      /\ \A d \in Calls : d # c => pc'[d] = pc[d] /\ answer'[d] = answer[d]
    BY DEF IInv, TypeOK
<1>3. /\ \A k \in Keys : slot'[k] = IF slot[k] = c THEN Nobody ELSE slot[k]
      /\ \A l \in Locking : lock'[l] = IF lock[l] = c THEN Nobody ELSE lock[l]
    BY DEF Release
<1>4. Held'
    BY <1>2, <1>3, Sane DEF IInv, Held, Kind
<1>5. ASSUME NEW d \in Calls PROVE Course(d)'
    <2>1. CASE d = c
        BY <1>2, <2>1 DEF IInv, Course, Kind, Recorded
    <2>2. CASE d # c
        <3>1. KeyOf[d] \in Keys /\ Course(d) /\ pc'[d] = pc[d] /\ answer'[d] = answer[d]
            BY <1>2, <2>2, Sane DEF IInv
        <3>2. slot[KeyOf[d]] = d => slot'[KeyOf[d]] = d
            BY <1>3, <2>2, <3>1
        <3>3. Kind(d) \in Locking /\ lock[Kind(d)] = d => lock'[Kind(d)] = d
            BY <1>3, <2>2
        <3> QED
            BY <3>1, <3>2, <3>3 DEF Course, Kind, Recorded
    <2> QED
        BY <2>1, <2>2
<1> QED
    BY <1>1, <1>4, <1>5 DEF IInv

LEMMA RefuseKeeps ==
    ASSUME IInv, NEW c \in Calls, Refuse(c)
    PROVE  IInv'
BY ReleaseKeeps DEF Refuse, Tell, Steps, Words

LEMMA CrashKeeps ==
    ASSUME IInv, NEW c \in Calls, Crash(c)
    PROVE  IInv'
BY ReleaseKeeps DEF Crash, Tell, Steps, Words

LEMMA LockKeeps ==
    ASSUME IInv, NEW c \in Calls, Lock(c)
    PROVE  IInv'
<1> USE DEF Lock
<1>1. CASE Kind(c) = "payment" /\ Recorded(c)
    BY <1>1, Replay, CallMoves DEF Steps
<1>2. CASE ~(Kind(c) = "payment" /\ Recorded(c)) /\ Kind(c) = "withdraw" /\ funds = 0
    BY <1>2, CallMoves DEF Tell, Steps, Words
<1>3. CASE ~(Kind(c) = "payment" /\ Recorded(c)) /\ ~(Kind(c) = "withdraw" /\ funds = 0)
    <2>1. pc' = [pc EXCEPT ![c] = "locked"] /\ lock' = [lock EXCEPT ![Kind(c)] = c]
          /\ UNCHANGED <<kind, row, effects, funds, slot, answer>>
        BY <1>3 DEF Go
    <2>2. TypeOK'
        BY <2>1 DEF IInv, TypeOK
    <2>3. pc'[c] = "locked" /\ \A d \in Calls : d # c => pc'[d] = pc[d]
        BY <2>1 DEF IInv, TypeOK
    <2>4. lock'[Kind(c)] = c /\ \A l \in Locking : l # Kind(c) => lock'[l] = lock[l]
        BY <2>1 DEF IInv, TypeOK
    <2>5. Held'
        BY <2>1, <2>3, <2>4, Sane DEF IInv, Held, Kind
    <2>6. ASSUME NEW d \in Calls PROVE Course(d)'
        <3>1. CASE d = c
            BY <1>3, <2>1, <2>3, <2>4, <3>1 DEF IInv, Course, Kind, Recorded
        <3>2. CASE d # c
            <4>1. Kind(d) \in Locking /\ lock[Kind(d)] = d => lock'[Kind(d)] = d
                BY <2>4, Sane
            <4> QED
                BY <2>1, <2>3, <3>2, <4>1 DEF IInv, Course, Kind, Recorded
        <3> QED
            BY <3>1, <3>2
    <2> QED
        BY <2>2, <2>5, <2>6 DEF IInv
<1> QED
    BY <1>1, <1>2, <1>3

LEMMA WriteKeeps ==
    ASSUME IInv, NEW c \in Calls, Write(c)
    PROVE  IInv'
<1> USE DEF Write
<1>0. pc[c] \in {"locked", "inside"} /\ c \notin effects
    BY DEF AtWrite, IInv, Course
<1>1. CASE Recorded(c)
    BY <1>0, <1>1, Stay, ReleaseKeeps DEF Steps, Words
<1>2. CASE ~Recorded(c)
    <2>1. pc' = [pc EXCEPT ![c] = "written"] /\ slot' = [slot EXCEPT ![KeyOf[c]] = c]
          /\ UNCHANGED <<kind, row, effects, funds, lock, answer>>
        BY <1>2 DEF Go
    <2>2. TypeOK'
        BY <2>1 DEF IInv, TypeOK
    <2>3. pc'[c] = "written" /\ \A d \in Calls : d # c => pc'[d] = pc[d]
        BY <2>1 DEF IInv, TypeOK
    <2>4. slot'[KeyOf[c]] = c /\ \A k \in Keys : k # KeyOf[c] => slot'[k] = slot[k]
        BY <2>1, Sane DEF IInv, TypeOK
    <2>5. Held'
        BY <1>0, <2>1, <2>3, <2>4, Sane DEF IInv, Held, Kind
    <2>6. ASSUME NEW d \in Calls PROVE Course(d)'
        <3>1. CASE d = c
            BY <1>0, <1>2, <2>1, <2>3, <2>4, <3>1 DEF AtWrite, IInv, Course, Kind, Recorded
        <3>2. CASE d # c
            <4>1. slot[KeyOf[d]] = d => slot'[KeyOf[d]] = d
                BY <2>4, Sane
            <4> QED
                BY <2>1, <2>3, <3>2, <4>1 DEF IInv, Course, Kind, Recorded
        <3> QED
            BY <3>1, <3>2
    <2> QED
        BY <2>2, <2>5, <2>6 DEF IInv
<1> QED
    BY <1>1, <1>2

\* Two calls that are about to commit have different keys, and a withdrawal that
\* is about to is the only one.
LEMMA Alone ==
    ASSUME IInv, NEW c \in Calls, NEW d \in Calls, pc[c] = "written", d # c
    PROVE  /\ pc[d] = "written" => KeyOf[d] # KeyOf[c]
           /\ pc[d] \in {"locked", "written"} /\ Kind(d) \in Locking => Kind(d) # Kind(c)
BY DEF IInv, Course

LEMMA StoreKeeps ==
    ASSUME IInv, NEW c \in Calls, NEW step \in {"committed", "done"},
           NEW word \in {"none", "lost"}, Store(c),
           pc' = [pc EXCEPT ![c] = step], answer' = [answer EXCEPT ![c] = word],
           step = "done" <=> word # "none"
    PROVE  IInv'
<1> USE DEF Store
<1>1. /\ KeyOf[c] \in Keys
      /\ pc'[c] = step /\ answer'[c] = word
      /\ row'[KeyOf[c]] = c
      /\ \A d \in Calls : d # c => pc'[d] = pc[d] /\ answer'[d] = answer[d]
      /\ \A k \in Keys : k # KeyOf[c] => row'[k] = row[k]
    BY Sane DEF IInv, TypeOK
<1>2. /\ \A k \in Keys : slot'[k] = IF slot[k] = c THEN Nobody ELSE slot[k]
      /\ \A l \in Locking : lock'[l] = IF lock[l] = c THEN Nobody ELSE lock[l]
    BY DEF Release
<1>3. Kind(c) = "withdraw" => funds # 0
    BY DEF IInv, Course, Locking
<1>4. funds' \in 0..Funds
    BY <1>3, FundsAssumption DEF IInv, TypeOK
<1>5. TypeOK'
    BY <1>4 DEF IInv, TypeOK, Release
<1>6. Held'
    BY <1>1, <1>2, Sane DEF IInv, Held, Kind
<1>7. ASSUME NEW d \in Calls PROVE Course(d)'
    <2>1. CASE d = c
        BY <1>1, <2>1, Sane DEF IInv, Course, Kind, Recorded
    <2>2. CASE d # c
        <3>1. KeyOf[d] \in Keys /\ Course(d) /\ pc'[d] = pc[d] /\ answer'[d] = answer[d]
            BY <1>1, <2>2, Sane DEF IInv
        <3>2. slot[KeyOf[d]] = d => slot'[KeyOf[d]] = d
            BY <1>2, <2>2, <3>1
        <3>3. Kind(d) \in Locking /\ lock[Kind(d)] = d => lock'[Kind(d)] = d
            BY <1>2, <2>2
        <3>4. /\ pc[d] = "written" => KeyOf[d] # KeyOf[c]
              /\ pc[d] \in {"locked", "written"} /\ Kind(d) \in Locking => Kind(d) # Kind(c)
            BY <2>2, Alone
        <3>5. KeyOf[d] = KeyOf[c] => Kind(d) = Kind(c)
            BY DEF Kind
        <3>6. (Recorded(d) => Recorded(d)') /\ (KeyOf[d] # KeyOf[c] => row'[KeyOf[d]] = row[KeyOf[d]])
            BY <1>1, <3>1, Sane DEF Recorded
        <3>7. pc[d] = "committed" => KeyOf[d] # KeyOf[c]
            BY <3>1, <2>2, Sane DEF IInv, Course, Recorded
        <3>8. Kind(d)' = Kind(d) /\ (Kind(c) # "withdraw" => funds' = funds)
              /\ (d \in effects' => d \in effects)
            BY <2>2 DEF Kind
        <3>9. Kind(d) = "withdraw" /\ pc[d] \in {"locked", "written"} => Kind(c) # "withdraw"
            BY <3>4 DEF Locking
        <3> QED
            BY <3>1, <3>2, <3>3, <3>4, <3>5, <3>6, <3>7, <3>8, <3>9 DEF Course, Recorded
    <2> QED
        BY <2>1, <2>2
<1> QED
    BY <1>5, <1>6, <1>7 DEF IInv

LEMMA CommitKeeps ==
    ASSUME IInv, NEW c \in Calls, Commit(c)
    PROVE  IInv'
<1>1. pc[c] = "written" /\ Store(c) /\ Go(c, "committed")
    BY DEF Commit, Store
<1> QED
    BY <1>1, Stay, StoreKeeps

LEMMA CommitUnheardKeeps ==
    ASSUME IInv, NEW c \in Calls, CommitUnheard(c)
    PROVE  IInv'
BY StoreKeeps DEF CommitUnheard, Tell

LEMMA InvStep == IInv /\ [Next]_vars => IInv'
<1> SUFFICES ASSUME IInv, [Next]_vars PROVE IInv'
    OBVIOUS
<1>1. CASE UNCHANGED vars
    BY <1>1 DEF vars, IInv, TypeOK, Held, Course, Kind, Recorded
<1>2. ASSUME NEW c \in Calls, LookOutside(c) \/ Run(c) \/ Refuse(c) \/ CommitUnheard(c) \/ Crash(c)
      PROVE  IInv'
    BY <1>2, LookOutsideKeeps, LookInsideKeeps, LockKeeps, WriteKeeps, CommitKeeps,
       ReplyKeeps, FindRacedKeeps, RefuseKeeps, CommitUnheardKeeps, CrashKeeps DEF Run
<1> QED
    BY <1>1, <1>2 DEF Next

LEMMA InvHolds == Spec => []IInv
BY InitHolds, InvStep, PTL DEF Spec

--------------------------------------------------------------------------------

(***************************************************************************)
(* Every variable keeps its range; the rider's balance, in particular, is  *)
(* never below nothing, however many withdrawals are asked for at once.    *)
(***************************************************************************)
THEOREM TypeCorrect == Spec => []TypeOK
<1>1. IInv => TypeOK
    BY DEF IInv
<1> QED
    BY <1>1, InvHolds, PTL

(***************************************************************************)
(* A call that lost the race for its key finds the row of the call that    *)
(* won it, in create, runIdempotent, createTransaction and                 *)
(* beginRiderWalletTopUp alike.                                            *)
(***************************************************************************)
THEOREM TheRacedAreAnswered == Spec => []RacedFindsTheRow
<1>1. IInv => RacedFindsTheRow
    BY DEF IInv, RacedFindsTheRow, Course
<1> QED
    BY <1>1, InvHolds, PTL

(***************************************************************************)
(* createTransaction does not refuse a payment that it has recorded under  *)
(* the key before.                                                         *)
(***************************************************************************)
THEOREM PaymentsAreReplayed == Spec => PaidIsNotRefused
<1> DEFINE Fine == \A c \in Calls :
        Kind(c) = "payment" /\ answer[c] = "none" /\ answer'[c] = "refused" => ~Recorded(c)
<1>1. IInv /\ [Next]_vars => [Fine]_vars
    <2> SUFFICES ASSUME IInv, Next, NEW c \in Calls, Kind(c) = "payment",
                        answer[c] = "none", answer'[c] = "refused"
                 PROVE  ~Recorded(c)
        OBVIOUS
    <2>1. PICK d \in Calls :
              LookOutside(d) \/ Run(d) \/ Refuse(d) \/ CommitUnheard(d) \/ Crash(d)
        BY DEF Next
    <2>2. d = c
        BY <2>1 DEF Run, LookOutside, LookInside, Lock, Write, Commit, Reply, FindRaced,
                    Refuse, CommitUnheard, Crash, Go, Tell, ReplayOrConflict, IInv, TypeOK
    <2>3. Recorded(c) => row[KeyOf[c]] \in Calls
        BY Sane DEF IInv, TypeOK, Recorded
    <2>4. ~(ReplayOrConflict(c) /\ Recorded(c)) /\ ~Tell(c, c) /\ ~Tell(c, "lost")
        BY <2>3, Sane DEF ReplayOrConflict, Tell, Words, IInv, TypeOK
    <2>5. \A step : ~Go(c, step)
        BY DEF Go
    <2>6. Refuse(c)
        BY <2>1, <2>2, <2>4, <2>5 DEF Run, LookOutside, LookInside, Lock, Write, Commit,
              Reply, FindRaced, CommitUnheard, Crash, IInv, Course, Locking
    <2> QED
        BY <2>6 DEF Refuse, AtWrite, IInv, Course, Locking
<1> QED
    BY <1>1, InvHolds, PTL DEF Spec, PaidIsNotRefused

(***************************************************************************)
(* Looking, writing and looking again come to what an idempotency key      *)
(* promises: one call takes effect, and every result that is told is its.  *)
(***************************************************************************)
THEOREM KeysKeepTheirPromise == Spec => ImplementsOnceOnly
<1>1. Init => Once!Init
    BY DEF Init, Once!Init
<1>2. IInv /\ [Next]_vars => [Once!Next]_(Once!onceVars)
    <2> SUFFICES ASSUME IInv, Next PROVE Once!Next \/ UNCHANGED Once!onceVars
        BY DEF vars, Once!onceVars
    <2>1. PICK c \in Calls :
              LookOutside(c) \/ Run(c) \/ Refuse(c) \/ CommitUnheard(c) \/ Crash(c)
        BY DEF Next
    <2>2. Course(c)
        BY DEF IInv
    <2>3. CASE Recorded(c) /\ ReplayOrConflict(c) /\ UNCHANGED <<row, effects>> /\ pc[c] # "done"
        BY <2>2, <2>3 DEF Course, Recorded, ReplayOrConflict, Tell, Once!Next, Once!Answer, Once!Tell
    <2>4. CASE UNCHANGED <<row, effects, answer>>
        BY <2>4 DEF Once!onceVars
    <2>5. CASE Tell(c, "lost") /\ UNCHANGED <<row, effects>> /\ pc[c] # "done"
        BY <2>2, <2>5 DEF Course, Tell, Once!Next, Once!Lose, Once!Tell
    <2>6. CASE Tell(c, "refused") /\ UNCHANGED <<row, effects>>
               /\ pc[c] \in {"inside", "locked", "written"}
        BY <2>2, <2>6 DEF Course, Tell, Once!Next, Once!Refuse, Once!Tell
    <2>7. CASE Commit(c)
        BY <2>2, <2>7 DEF Course, Recorded, Commit, Store, Go, Once!Next, Once!Do, Once!TakeEffect
    <2>8. CASE CommitUnheard(c)
        BY <2>2, <2>8 DEF Course, Recorded, CommitUnheard, Store, Tell,
                          Once!Next, Once!DoUnheard, Once!TakeEffect, Once!Tell
    <2>9. CASE Reply(c)
        <3>1. row[KeyOf[c]] = c /\ answer[c] = "none" /\ c # Nobody
            BY <2>2, <2>9, Sane DEF Reply, Course
        <3> QED
            BY <2>9, <3>1 DEF Reply, Tell, Once!Next, Once!Answer, Once!Tell
    <2>10. CASE LookOutside(c) \/ LookInside(c)
        BY <2>3, <2>4, <2>10 DEF LookOutside, LookInside, Go
    <2>11. CASE Lock(c)
        BY <2>3, <2>4, <2>6, <2>11 DEF Lock, Go
    <2>12. CASE Write(c)
        BY <2>4, <2>12 DEF Write, Go
    <2>13. CASE FindRaced(c)
        BY <2>3, <2>5, <2>13 DEF FindRaced
    <2>14. CASE Refuse(c)
        BY <2>6, <2>14 DEF Refuse, AtWrite
    <2>15. CASE Crash(c)
        BY <2>5, <2>15 DEF Crash
    <2> QED
        BY <2>1, <2>7, <2>8, <2>9, <2>10, <2>11, <2>12, <2>13, <2>14, <2>15 DEF Run
<1> QED
    BY <1>1, <1>2, InvHolds, PTL DEF Spec, ImplementsOnceOnly, Once!Spec

(***************************************************************************)
(* A statement of c waits for the transaction of d: for the order or the   *)
(* accounts that d has locked, or for the end of d's insert of the key.    *)
(***************************************************************************)
WaitsFor(c, d) ==
    \/ pc[c] = "inside" /\ Kind(c) \in Locking /\ lock[Kind(c)] = d
    \/ AtWrite(c) /\ slot[KeyOf[c]] = d

(***************************************************************************)
(* Whoever is waited for waits for nobody, so no transactions deadlock: a  *)
(* payment or withdrawal takes its lock before the index entry, and while  *)
(* it has the lock no other call of its kind, hence of its key, has one.   *)
(***************************************************************************)
NobodyWaitsInTurn ==
    \A c, d, e \in Calls : WaitsFor(c, d) => ~WaitsFor(d, e)

THEOREM NoDeadlock == Spec => []NobodyWaitsInTurn
<1>1. ASSUME IInv, NEW c \in Calls, NEW d \in Calls, NEW e \in Calls,
             WaitsFor(c, d), WaitsFor(d, e)
      PROVE  FALSE
    <2>1. pc[d] \in {"locked", "written"}
        BY <1>1, Sane DEF WaitsFor, IInv, Held
    <2>2. pc[d] = "locked" /\ slot[KeyOf[d]] = e
        BY <1>1, <2>1 DEF WaitsFor, AtWrite
    <2>3. pc[e] = "written" /\ KeyOf[e] = KeyOf[d]
        BY <1>1, <2>2, Sane DEF IInv, Held
    <2>4. Kind(e) = Kind(d) /\ Kind(d) \in Locking
        BY <1>1, <2>2, <2>3 DEF Kind, IInv, Course
    <2>5. lock[Kind(d)] = d /\ lock[Kind(e)] = e
        BY <1>1, <2>2, <2>3, <2>4 DEF IInv, Course
    <2> QED
        BY <2>2, <2>3, <2>4, <2>5
<1>2. IInv => NobodyWaitsInTurn
    BY <1>1 DEF NobodyWaitsInTurn
<1> QED
    BY <1>2, InvHolds, PTL

================================================================================
