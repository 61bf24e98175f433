-------------------------------- MODULE OnceOnly --------------------------------
(***************************************************************************)
(* What an idempotency key promises: of all the calls that carry it one    *)
(* takes effect, and every call that is given a result is given that one,  *)
(* if it asks for the same thing.  A call may be refused, or its answer    *)
(* lost, and then it has told its caller nothing of the key.               *)
(***************************************************************************)
CONSTANTS
    Calls, Keys, Bodies,
    KeyOf,          \* the key that a call carries
    BodyOf,         \* what it asks for
    Nobody

VARIABLES
    result,         \* the call whose effect a key stands for
    effects,        \* the calls that took effect
    answer          \* what a call was told

onceVars == <<result, effects, answer>>

Init ==
    /\ result = [k \in Keys |-> Nobody]
    /\ effects = {}
    /\ answer = [c \in Calls |-> "none"]

Tell(c, what) ==
    /\ answer[c] = "none"
    /\ answer' = [answer EXCEPT ![c] = what]

TakeEffect(c) ==
    /\ result[KeyOf[c]] = Nobody
    /\ result' = [result EXCEPT ![KeyOf[c]] = c]
    /\ effects' = effects \cup {c}

Do(c) == TakeEffect(c) /\ UNCHANGED answer

\* The caller does not hear of it.
DoUnheard(c) == TakeEffect(c) /\ Tell(c, "lost")

Answer(c) ==
    LET first == result[KeyOf[c]] IN
    /\ first # Nobody
    /\ Tell(c, IF BodyOf[first] = BodyOf[c] THEN first ELSE "conflict")
    /\ UNCHANGED <<result, effects>>

Refuse(c) ==
    /\ c \notin effects
    /\ Tell(c, "refused")
    /\ UNCHANGED <<result, effects>>

Lose(c) == Tell(c, "lost") /\ UNCHANGED <<result, effects>>

Next == \E c \in Calls : Do(c) \/ DoUnheard(c) \/ Answer(c) \/ Refuse(c) \/ Lose(c)

Spec == Init /\ [][Next]_onceVars
================================================================================
