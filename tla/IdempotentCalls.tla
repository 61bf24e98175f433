---------------------------- MODULE IdempotentCalls ----------------------------
(***************************************************************************)
(* Calls that carry an idempotency key: an order is created, a wallet      *)
(* top-up is begun, a payment of an order is recorded, a rider's wallet is *)
(* withdrawn from.  Each looks for the key's row, does its work and writes *)
(* the row in one transaction, and falls back on the row of another call   *)
(* when it finds that it was second (orders/idempotency.repository.ts and  *)
(* the four callers).  Apps repeat a call whose answer did not come.       *)
(*                                                                         *)
(* A step is one statement, or the statements between two at which a call  *)
(* may have to wait.  A transaction's writes show when it commits; an      *)
(* insert under a unique index waits for an earlier one to end.            *)
(***************************************************************************)
EXTENDS Integers

CONSTANTS
    Calls, Keys, Bodies,
    KeyOf,          \* the scoped key: who calls, and the Idempotency-Key header
    BodyOf,         \* request_hash
    Nobody,
    Funds           \* how many withdrawals the rider's wallet pays for

ASSUME CallsAssumption ==
    /\ KeyOf \in [Calls -> Keys]
    /\ BodyOf \in [Calls -> Bodies]
    /\ Nobody \notin Calls

ASSUME WordsAssumption == Calls \cap {"none", "conflict", "refused", "lost"} = {}

ASSUME FundsAssumption == Funds \in Nat

\* The keys of payments are of one order, those of withdrawals of one rider.
Locking == {"payment", "withdraw"}
Kinds == {"create", "topup"} \cup Locking

VARIABLES
    kind,           \* the scope of a key; never changes
    row,            \* idempotency_keys: the call that wrote the key's row
    effects,        \* the calls whose work is committed
    funds,          \* rider_wallet_accounts.available_balance
    slot,           \* the call whose uncommitted row is in the key's unique index
    lock,           \* the call that has locked the order, or the accounts
    pc,             \* where a call stands
    answer          \* what it was told: the result of a call, or a word

vars == <<kind, row, effects, funds, slot, lock, pc, answer>>

TypeOK ==
    /\ kind \in [Keys -> Kinds]
    /\ row \in [Keys -> Calls \cup {Nobody}]
    /\ effects \subseteq Calls
    /\ funds \in 0..Funds
    /\ slot \in [Keys -> Calls \cup {Nobody}]
    /\ lock \in [Locking -> Calls \cup {Nobody}]
    /\ pc \in [Calls -> {"new", "looked", "inside", "locked", "written", "committed",
                         "raced", "done"}]
    /\ answer \in [Calls -> Calls \cup {"none", "conflict", "refused", "lost"}]

Init ==
    /\ kind \in [Keys -> Kinds]
    /\ row = [k \in Keys |-> Nobody]
    /\ effects = {}
    /\ funds = Funds
    /\ slot = [k \in Keys |-> Nobody]
    /\ lock = [l \in Locking |-> Nobody]
    /\ pc = [c \in Calls |-> "new"]
    /\ answer = [c \in Calls |-> "none"]

Kind(c) == kind[KeyOf[c]]
Recorded(c) == row[KeyOf[c]] # Nobody

--------------------------------------------------------------------------------
(***************************************************************************)
(* What the steps are made of.                                             *)
(***************************************************************************)

Go(c, step) == pc' = [pc EXCEPT ![c] = step] /\ UNCHANGED answer

Tell(c, what) ==
    /\ pc' = [pc EXCEPT ![c] = "done"]
    /\ answer' = [answer EXCEPT ![c] = what]

\* replayOrConflict
ReplayOrConflict(c) ==
    LET first == row[KeyOf[c]]
    IN  Tell(c, IF BodyOf[first] = BodyOf[c] THEN first ELSE "conflict")

\* Mutant: the rows that were locked stay so.
ReleaseRowsOnly(c) ==
    /\ slot' = [k \in Keys |-> IF slot[k] = c THEN Nobody ELSE slot[k]]
    /\ UNCHANGED lock

\* COMMIT and ROLLBACK release what the transaction held.
Release(c) ==
    /\ slot' = [k \in Keys |-> IF slot[k] = c THEN Nobody ELSE slot[k]]
    /\ lock' = [l \in Locking |-> IF lock[l] = c THEN Nobody ELSE lock[l]]

--------------------------------------------------------------------------------
(***************************************************************************)
(* The course of a call.                                                   *)
(***************************************************************************)

\* The look before the transaction.
LookOutside(c) ==
    /\ pc[c] = "new"
    /\ IF Recorded(c) THEN ReplayOrConflict(c) ELSE Go(c, "looked")
    /\ UNCHANGED <<kind, row, effects, funds, slot, lock>>

\* The look that opens the transaction.
LookInside(c) ==
    /\ pc[c] = "looked"
    /\ IF Recorded(c) THEN ReplayOrConflict(c) ELSE Go(c, "inside")
    /\ UNCHANGED <<kind, row, effects, funds, slot, lock>>

\* Mutant: a payment does not look again once it has the lock.
LockOnly(c) ==
    /\ pc[c] = "inside"
    /\ Kind(c) \in Locking /\ lock[Kind(c)] = Nobody
    /\ IF Kind(c) = "withdraw" /\ funds = 0
       THEN Tell(c, "refused") /\ UNCHANGED lock
       ELSE Go(c, "locked") /\ lock' = [lock EXCEPT ![Kind(c)] = c]
    /\ UNCHANGED <<kind, row, effects, funds, slot>>

\* A payment locks its order and looks again; a withdrawal locks the accounts
\* and looks at the balance.
Lock(c) ==
    /\ pc[c] = "inside"
    /\ Kind(c) \in Locking /\ lock[Kind(c)] = Nobody
    /\ IF Kind(c) = "payment" /\ Recorded(c)
       THEN ReplayOrConflict(c) /\ UNCHANGED lock
       ELSE IF Kind(c) = "withdraw" /\ funds = 0
       THEN Tell(c, "refused") /\ UNCHANGED lock
       ELSE Go(c, "locked") /\ lock' = [lock EXCEPT ![Kind(c)] = c]
    /\ UNCHANGED <<kind, row, effects, funds, slot>>

AtWrite(c) == pc[c] = "locked" \/ (pc[c] = "inside" /\ Kind(c) \notin Locking)

\* Mutant: idempotency_scope_key_unique is not there.
WriteAnyway(c) ==
    /\ AtWrite(c)
    /\ slot[KeyOf[c]] = Nobody
    /\ Go(c, "written") /\ slot' = [slot EXCEPT ![KeyOf[c]] = c]
    /\ UNCHANGED <<kind, row, effects, funds, lock>>

\* The work and the insert of the row.  A top-up meets the unique index of its
\* payment row first, which has one row for a key just the same.
Write(c) ==
    /\ AtWrite(c)
    /\ slot[KeyOf[c]] = Nobody
    /\ IF Recorded(c)
       THEN Go(c, "raced") /\ Release(c)
       ELSE Go(c, "written") /\ slot' = [slot EXCEPT ![KeyOf[c]] = c] /\ UNCHANGED lock
    /\ UNCHANGED <<kind, row, effects, funds>>

\* The work throws: a bill that is due, a closed city, a provider that is down.
Refuse(c) ==
    /\ AtWrite(c) \/ pc[c] = "written"
    /\ Tell(c, "refused")
    /\ Release(c)
    /\ UNCHANGED <<kind, row, effects, funds>>

\* What COMMIT makes visible.
Store(c) ==
    /\ pc[c] = "written"
    /\ row' = [row EXCEPT ![KeyOf[c]] = c]
    /\ effects' = effects \cup {c}
    /\ funds' = IF Kind(c) = "withdraw" THEN funds - 1 ELSE funds
    /\ Release(c)
    /\ UNCHANGED kind

Commit(c) == Store(c) /\ Go(c, "committed")

\* The connection is lost at COMMIT, which the database carries out.
CommitUnheard(c) == Store(c) /\ Tell(c, "lost")

Reply(c) ==
    /\ pc[c] = "committed"
    /\ Tell(c, c)
    /\ UNCHANGED <<kind, row, effects, funds, slot, lock>>

\* After the unique violation; the error is thrown on where there is no row.
FindRaced(c) ==
    /\ pc[c] = "raced"
    /\ IF Recorded(c) THEN ReplayOrConflict(c) ELSE Tell(c, "lost")
    /\ UNCHANGED <<kind, row, effects, funds, slot, lock>>

\* The process of the call stops: the database rolls back what it had begun.
Crash(c) ==
    /\ pc[c] \notin {"new", "done"}
    /\ Tell(c, "lost")
    /\ Release(c)
    /\ UNCHANGED <<kind, row, effects, funds>>

Run(c) ==
    \/ LookInside(c)
    \/ Lock(c)
    \/ Write(c)
    \/ Commit(c)
    \/ Reply(c)
    \/ FindRaced(c)

Next ==
    \E c \in Calls :
        \/ LookOutside(c)
        \/ Run(c)
        \/ Refuse(c)
        \/ CommitUnheard(c)
        \/ Crash(c)

Spec == Init /\ [][Next]_vars

\* A call that was received is carried on with.
Fairness == \A c \in Calls : WF_vars(Run(c))

FairSpec == Spec /\ Fairness

--------------------------------------------------------------------------------
(***************************************************************************)
(* Properties.                                                             *)
(***************************************************************************)

\* Of the calls with one key at most one is carried out, whatever crashes in
\* between, and all that are told a result are told its result: no app is given
\* a checkout, an order or a withdrawal that was rolled back.
Once == INSTANCE OnceOnly WITH result <- row
ImplementsOnceOnly == Once!Spec

\* A call that met the unique index finds the row that was there first, so that
\* no caller is told of an index.
RacedFindsTheRow == \A c \in Calls : pc[c] = "raced" => Recorded(c)

\* A payment that is already recorded under its key is never refused: a caller
\* that repeats itself hears of the payment and does not pay again.
PaidIsNotRefused ==
    [][\A c \in Calls :
        Kind(c) = "payment" /\ answer[c] = "none" /\ answer'[c] = "refused" => ~Recorded(c)]_vars

\* Every call that was received is answered: nobody waits for ever on an index
\* entry or on a lock.
CallsAreAnswered == \A c \in Calls : pc[c] # "new" ~> answer[c] # "none"
================================================================================
