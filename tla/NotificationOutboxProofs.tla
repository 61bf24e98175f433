----------------------- MODULE NotificationOutboxProofs ------------------------
(***************************************************************************)
(* The theorems of NotificationOutbox, proved for every set of events,     *)
(* devices and workers.                                                    *)
(*                                                                         *)
(* The invariant says what a claim means: no two workers hold a delivery,  *)
(* the delivery of a worker is there and PENDING, the outcome the worker   *)
(* is about to write is true, a push that nobody has written down or is    *)
(* about to is counted as unrecorded, and every push takes an attempt or   *)
(* a rollback.                                                             *)
(***************************************************************************)
EXTENDS NotificationOutbox, TLAPS

Busy == {"CLAIMED", "LISTED", "ANSWERED", "DECIDED"}

Held(w) ==
    \/ worker[w] = Idle
    \/ /\ worker[w].of \in Events /\ worker[w].step \in Busy
       /\ born[worker[w].of] > 0 /\ status[worker[w].of]["PUSH"] = "PENDING"
       /\ worker[w].step \in {"CLAIMED", "LISTED"} => worker[w].result = "NONE"
       /\ worker[w].result = "OK" => pushed[worker[w].of] > 0
       /\ worker[w].rejected \cap alive = {}

OneHolder == \A v, w \in Workers : worker[v].of = worker[w].of => v = w \/ worker[v] = Idle

\* A worker is about to write down that e was sent; a worker has tried to.
Said(e) == \E w \in Workers : worker[w].of = e /\ worker[w].result = "OK"
Tried(e) == \E w \in Workers : worker[w].of = e /\ worker[w].step \in {"ANSWERED", "DECIDED"}

\* What is known of an event: nothing is left of a notification that is not
\* there, pushes that are not written down are counted, and so are attempts.
Counted(e) ==
    /\ born[e] = 0 => status[e]["PUSH"] = "NONE" /\ attempts[e] = 0
    /\ status[e]["PUSH"] = "PENDING" => attempts[e] < MaxAttempts
    /\ status[e]["PUSH"] = "SENT" => pushed[e] > 0
    /\ pushed[e] <= 1 + unrecorded[e]
    /\ pushed[e] <= unrecorded[e] \/ status[e]["PUSH"] = "SENT" \/ Said(e)
    /\ pushed[e] <= 1 + attempts[e] + crashes
    /\ pushed[e] <= attempts[e] + crashes \/ (status[e]["PUSH"] = "PENDING" /\ Tried(e))

IInv ==
    /\ TypeOK
    /\ \A w \in Workers : Held(w)
    /\ OneHolder
    /\ \A e \in Events : Counted(e)
    /\ OnlyDeadTokensDropped

--------------------------------------------------------------------------------

LEMMA NothingIsNoEvent == Nothing \notin Events /\ Nobody \notin Identities
BY EventsAssumption

LEMMA InitHolds == Init => IInv
<1> SUFFICES ASSUME Init PROVE IInv
    OBVIOUS
<1> USE DEF Init
<1>1. TypeOK
    BY LimitsAssumption, EventsAssumption DEF TypeOK, Idle, At, Channels
<1>2. \A w \in Workers : Held(w)
    BY DEF Held
<1>3. OneHolder
    BY DEF OneHolder
<1>4. \A e \in Events : Counted(e)
    <2> TAKE e \in Events
    <2>1. status[e]["PUSH"] = "NONE" /\ attempts[e] = 0 /\ pushed[e] = 0 /\ unrecorded[e] = 0 /\ crashes = 0
        BY DEF Channels
    <2> QED
        BY <2>1 DEF Counted
<1>5. OnlyDeadTokensDropped
    BY DEF OnlyDeadTokensDropped
<1> QED
    BY <1>1, <1>2, <1>3, <1>4, <1>5 DEF IInv

\* A worker that is not idle holds a delivery that no other worker holds.
LEMMA Holder ==
    ASSUME IInv, NEW w \in Workers, worker[w] # Idle
    PROVE  /\ worker[w].of \in Events
           /\ born[worker[w].of] > 0
           /\ status[worker[w].of]["PUSH"] = "PENDING"
           /\ \A v \in Workers : v # w => worker[v].of # worker[w].of
<1>1. Held(w)
    BY DEF IInv
<1>2. worker[w].of \in Events
    BY <1>1 DEF Held
<1>3. ASSUME NEW v \in Workers, worker[v].of = worker[w].of, v # w PROVE FALSE
    <2>1. worker[v] = Idle
        BY <1>3 DEF IInv, OneHolder
    <2> QED
        BY <2>1, <1>2, <1>3, NothingIsNoEvent DEF Idle, At
<1> QED
    BY <1>1, <1>3 DEF Held

--------------------------------------------------------------------------------
(***************************************************************************)
(* Steps of a worker that touch no row: only its own progress, the counts  *)
(* of the delivery that it holds, and tokens.                              *)
(***************************************************************************)

LEMMA ClaimKeeps ==
    ASSUME IInv, NEW w \in Workers, NEW e \in Events, Claim(w, e)
    PROVE  IInv'
<1> DEFINE r == At(e, "CLAIMED", {}, {}, "NONE")
<1>1. /\ worker' = [worker EXCEPT ![w] = r]
      /\ worker[w] = Idle /\ status[e]["PUSH"] = "PENDING" /\ ~Locked(e)
      /\ UNCHANGED <<outboxVars, offerOpen, deviceVars, pushed, unrecorded, crashes>>
    BY DEF Claim, Claimable, Due
<1>2. r = [of |-> e, step |-> "CLAIMED", devices |-> {}, rejected |-> {}, result |-> "NONE"]
    BY DEF At
<1> HIDE DEF r
<1>3. TypeOK'
    BY <1>1, <1>2 DEF IInv, TypeOK, outboxVars, deviceVars
<1>4. worker'[w] = r /\ \A v \in Workers : v # w => worker'[v] = worker[v]
    BY <1>1 DEF IInv, TypeOK
<1>5. born[e] > 0
    BY <1>1 DEF IInv, TypeOK, Counted
<1>6. ASSUME NEW v \in Workers PROVE Held(v)'
    BY <1>1, <1>2, <1>4, <1>5 DEF IInv, Held, outboxVars, deviceVars, Busy
<1>7. OneHolder'
    BY <1>1, <1>2, <1>4 DEF IInv, OneHolder, Locked
<1>8. ASSUME NEW f \in Events PROVE Counted(f)'
    <2>1. \A v \in Workers :
             /\ worker[v].of = f /\ worker[v].result = "OK" =>
                    worker'[v].of = f /\ worker'[v].result = "OK"
             /\ worker[v].of = f /\ worker[v].step \in {"ANSWERED", "DECIDED"} =>
                    worker'[v].of = f /\ worker'[v].step \in {"ANSWERED", "DECIDED"}
        BY <1>1, <1>4 DEF Idle, At
    <2>2. (Said(f) => Said(f)') /\ (Tried(f) => Tried(f)')
        BY <2>1 DEF Said, Tried
    <2> QED
        BY <1>1, <2>2 DEF IInv, Counted, outboxVars
<1>9. OnlyDeadTokensDropped'
    BY <1>1 DEF IInv, OnlyDeadTokensDropped, deviceVars
<1> QED
    BY <1>3, <1>6, <1>7, <1>8, <1>9 DEF IInv

\* A worker goes on with what it holds: it does not push, pushes and knows it,
\* pushes and does not, or loses what it knew.
LEMMA ProgressKeeps ==
    ASSUME IInv, NEW w \in Workers, worker[w] # Idle,
           NEW r, NEW n \in Nat, NEW k \in Nat,
           r \in [of: {worker[w].of}, step: Busy, devices: SUBSET Devices,
                  rejected: SUBSET Devices, result: {"NONE", "OK", "RETRY", "FAIL"}],
           r.step \in {"CLAIMED", "LISTED"} => r.result = "NONE",
           r.rejected \cap alive = {},
           r.result = "OK" => n > 0,
           worker[w].step \in {"ANSWERED", "DECIDED"} => r.step \in {"ANSWERED", "DECIDED"},
           \/ /\ n = pushed[worker[w].of] /\ k = unrecorded[worker[w].of]
              /\ worker[w].result = "OK" => r.result = "OK"
           \/ /\ n = pushed[worker[w].of] + 1
              /\ worker[w].step \in {"CLAIMED", "LISTED"} /\ r.step \in {"ANSWERED", "DECIDED"}
              /\ \/ k = unrecorded[worker[w].of] /\ r.result = "OK"
                 \/ k = unrecorded[worker[w].of] + 1
           \/ /\ n = pushed[worker[w].of] /\ k = unrecorded[worker[w].of] + 1,
           worker' = [worker EXCEPT ![w] = r],
           pushed' = [pushed EXCEPT ![worker[w].of] = n],
           unrecorded' = [unrecorded EXCEPT ![worker[w].of] = k],
           token' \in [Devices -> {"NONE", "ACTIVE", "DROPPED"}],
           OnlyDeadTokensDropped',
           UNCHANGED <<outboxVars, offerOpen, owner, alive, crashes>>
    PROVE  IInv'
<1> DEFINE e == worker[w].of
<1>1. /\ e \in Events /\ born[e] > 0 /\ status[e]["PUSH"] = "PENDING"
      /\ \A v \in Workers : v # w => worker[v].of # e
    BY Holder
<1>2. worker'[w] = r /\ \A v \in Workers : v # w => worker'[v] = worker[v]
    BY DEF IInv, TypeOK
<1>3. /\ pushed'[e] = n /\ \A f \in Events : f # e => pushed'[f] = pushed[f]
      /\ unrecorded'[e] = k /\ \A f \in Events : f # e => unrecorded'[f] = unrecorded[f]
    BY <1>1 DEF IInv, TypeOK
<1>4. TypeOK'
    <2>1. worker' \in [Workers -> [of: Events \cup {Nothing},
                                   step: {"IDLE", "CLAIMED", "LISTED", "ANSWERED", "DECIDED"},
                                   devices: SUBSET Devices, rejected: SUBSET Devices,
                                   result: {"NONE", "OK", "RETRY", "FAIL"}]]
        BY <1>1 DEF IInv, TypeOK, Busy
    <2>2. pushed' \in [Events -> Nat] /\ unrecorded' \in [Events -> Nat]
        BY <1>1 DEF IInv, TypeOK
    <2> QED
        BY <2>1, <2>2 DEF IInv, TypeOK, outboxVars
<1>5. r.of = e /\ r.step \in Busy
    OBVIOUS
<1> HIDE DEF e
<1>6. ASSUME NEW v \in Workers PROVE Held(v)'
    <2>1. CASE v = w
        BY <1>1, <1>2, <1>3, <1>5, <2>1 DEF Held, outboxVars
    <2>2. CASE v # w
        <3>1. Held(v) /\ worker'[v] = worker[v] /\ worker[v].of # e
            BY <1>1, <1>2, <2>2 DEF IInv
        <3>2. worker[v].of \in Events => pushed'[worker[v].of] = pushed[worker[v].of]
            BY <1>3, <3>1
        <3> QED
            BY <3>1, <3>2 DEF Held, outboxVars
    <2> QED
        BY <2>1, <2>2
<1>7. OneHolder'
    BY <1>1, <1>2, <1>5 DEF IInv, OneHolder
<1>8. ASSUME NEW f \in Events PROVE Counted(f)'
    <2>1. /\ Counted(f) /\ pushed[f] \in Nat /\ unrecorded[f] \in Nat
          /\ attempts[f] \in Nat /\ crashes \in Nat
        BY LimitsAssumption DEF IInv, TypeOK
    <2>2. CASE f = e
        <3>1. /\ pushed[e] <= unrecorded[e] \/ worker[w].result = "OK"
              /\ \/ pushed[e] <= attempts[e] + crashes
                 \/ worker[w].step \in {"ANSWERED", "DECIDED"}
            BY <2>1, <2>2, <1>1 DEF Counted, Said, Tried
        <3>2. worker[w].step \in {"CLAIMED", "LISTED"} => worker[w].result = "NONE"
            BY DEF IInv, Held, Idle, At
        <3>3. /\ n <= 1 + k
              /\ n <= k \/ r.result = "OK"
              /\ n <= 1 + attempts[e] + crashes
              /\ n <= attempts[e] + crashes \/ r.step \in {"ANSWERED", "DECIDED"}
            BY <2>1, <2>2, <3>1, <3>2 DEF Counted, e
        <3>4. /\ r.result = "OK" => Said(f)'
              /\ r.step \in {"ANSWERED", "DECIDED"} => Tried(f)'
            BY <1>2, <1>5, <2>2 DEF Said, Tried
        <3> QED
            BY <1>1, <1>3, <2>1, <2>2, <3>3, <3>4 DEF Counted, outboxVars
    <2>3. CASE f # e
        <3>1. (Said(f) => Said(f)') /\ (Tried(f) => Tried(f)')
            BY <1>2, <2>3 DEF e, Said, Tried
        <3> QED
            BY <1>3, <2>1, <2>3, <3>1 DEF Counted, outboxVars
    <2> QED
        BY <2>2, <2>3
<1> QED
    BY <1>4, <1>6, <1>7, <1>8 DEF IInv

LEMMA ListDevicesKeeps ==
    ASSUME IInv, NEW w \in Workers, ListDevices(w)
    PROVE  IInv'
<1> DEFINE mine == {d \in Devices : token[d] = "ACTIVE" /\ owner[d] = Recipient[worker[w].of]}
           r == IF mine = {} THEN At(worker[w].of, "DECIDED", {}, {}, "FAIL")
                             ELSE At(worker[w].of, "LISTED", mine, {}, "NONE")
           n == pushed[worker[w].of]
           k == unrecorded[worker[w].of]
<1>1. /\ worker[w].step = "CLAIMED" /\ worker' = [worker EXCEPT ![w] = r]
      /\ UNCHANGED <<outboxVars, offerOpen, deviceVars, pushed, unrecorded, crashes>>
    BY DEF ListDevices
<1>2. worker[w] # Idle
    BY <1>1 DEF Idle, At
<1>3. worker[w].of \in Events /\ worker[w].result = "NONE"
    BY <1>1, <1>2, Holder DEF IInv, Held
<1>4. mine \subseteq Devices
    OBVIOUS
<1> HIDE DEF mine
<1>5. /\ r \in [of: {worker[w].of}, step: Busy, devices: SUBSET Devices,
                rejected: SUBSET Devices, result: {"NONE", "OK", "RETRY", "FAIL"}]
      /\ r.step \in {"CLAIMED", "LISTED"} => r.result = "NONE"
      /\ r.rejected \cap alive = {} /\ r.result # "OK"
    BY <1>4 DEF At, Busy
<1> HIDE DEF r
<1>6. /\ n \in Nat /\ pushed' = [pushed EXCEPT ![worker[w].of] = n] /\ n = pushed[worker[w].of]
      /\ k \in Nat /\ unrecorded' = [unrecorded EXCEPT ![worker[w].of] = k]
      /\ k = unrecorded[worker[w].of]
    BY <1>1, <1>3 DEF IInv, TypeOK
<1> HIDE DEF n, k
<1>7. token' \in [Devices -> {"NONE", "ACTIVE", "DROPPED"}] /\ OnlyDeadTokensDropped'
    BY <1>1 DEF IInv, TypeOK, OnlyDeadTokensDropped, deviceVars
<1>8. UNCHANGED <<outboxVars, offerOpen, owner, alive, crashes>>
    BY <1>1 DEF deviceVars
<1>9. worker' = [worker EXCEPT ![w] = r] /\ worker[w].step \notin {"ANSWERED", "DECIDED"}
    BY <1>1
<1> QED
    BY <1>2, <1>3, <1>5, <1>6, <1>7, <1>8, <1>9, ProgressKeeps

LEMMA UnavailableKeeps ==
    ASSUME IInv, NEW w \in Workers, NEW reached \in SUBSET Devices, Unavailable(w, reached)
    PROVE  IInv'
<1> DEFINE r == At(worker[w].of, "DECIDED", {}, {}, "RETRY")
           n == IF reached # {} THEN pushed[worker[w].of] + 1 ELSE pushed[worker[w].of]
           k == IF reached # {} THEN unrecorded[worker[w].of] + 1 ELSE unrecorded[worker[w].of]
<1>1. /\ worker[w].step \in {"CLAIMED", "LISTED"} /\ worker' = [worker EXCEPT ![w] = r]
      /\ pushed' = [pushed EXCEPT ![worker[w].of] = n]
      /\ unrecorded' = [unrecorded EXCEPT ![worker[w].of] = k]
      /\ UNCHANGED <<outboxVars, offerOpen, deviceVars, crashes>>
    BY DEF Unavailable, Push
<1>2. worker[w] # Idle
    BY <1>1 DEF Idle, At
<1>3. /\ worker[w].of \in Events /\ worker[w].result = "NONE"
      /\ pushed[worker[w].of] \in Nat /\ unrecorded[worker[w].of] \in Nat
    BY <1>1, <1>2, Holder DEF IInv, Held, TypeOK
<1>4. /\ n \in Nat /\ k \in Nat
      /\ \/ n = pushed[worker[w].of] /\ k = unrecorded[worker[w].of]
         \/ n = pushed[worker[w].of] + 1 /\ k = unrecorded[worker[w].of] + 1
    BY <1>3
<1> HIDE DEF n, k
<1>5. /\ r \in [of: {worker[w].of}, step: Busy, devices: SUBSET Devices,
                rejected: SUBSET Devices, result: {"NONE", "OK", "RETRY", "FAIL"}]
      /\ r.step = "DECIDED" /\ r.rejected \cap alive = {} /\ r.result # "OK"
    BY DEF At, Busy
<1> HIDE DEF r
<1>6. token' \in [Devices -> {"NONE", "ACTIVE", "DROPPED"}] /\ OnlyDeadTokensDropped'
    BY <1>1 DEF IInv, TypeOK, OnlyDeadTokensDropped, deviceVars
<1>7. UNCHANGED <<outboxVars, offerOpen, owner, alive, crashes>>
    BY <1>1 DEF deviceVars
<1> QED
    BY <1>1, <1>2, <1>3, <1>4, <1>5, <1>6, <1>7, ProgressKeeps

LEMMA SendKeeps ==
    ASSUME IInv, NEW w \in Workers, NEW reached \in SUBSET Devices,
           NEW acked \in SUBSET Devices, NEW rejected \in SUBSET Devices,
           Send(w, reached, acked, rejected)
    PROVE  IInv'
<1> DEFINE devices == worker[w].devices
           step == IF rejected = {} THEN "DECIDED" ELSE "ANSWERED"
           result == IF acked # {} THEN "OK" ELSE IF rejected # devices THEN "RETRY" ELSE "FAIL"
           r == At(worker[w].of, step, {}, rejected, result)
           n == IF reached # {} THEN pushed[worker[w].of] + 1 ELSE pushed[worker[w].of]
           k == IF reached # {} /\ ~(acked # {})
                THEN unrecorded[worker[w].of] + 1 ELSE unrecorded[worker[w].of]
<1>1. /\ worker[w].step = "LISTED" /\ worker' = [worker EXCEPT ![w] = r]
      /\ pushed' = [pushed EXCEPT ![worker[w].of] = n]
      /\ unrecorded' = [unrecorded EXCEPT ![worker[w].of] = k]
      /\ acked \subseteq reached /\ rejected \cap alive = {}
      /\ UNCHANGED <<outboxVars, offerOpen, deviceVars, crashes>>
    BY DEF Send, Answer, Push
<1>2. worker[w] # Idle
    BY <1>1 DEF Idle, At
<1>3. /\ worker[w].of \in Events /\ worker[w].result = "NONE"
      /\ pushed[worker[w].of] \in Nat /\ unrecorded[worker[w].of] \in Nat
    BY <1>1, <1>2, Holder DEF IInv, Held, TypeOK
<1>4. /\ result \in {"NONE", "OK", "RETRY", "FAIL"} /\ step \in {"ANSWERED", "DECIDED"}
      /\ result = "OK" <=> acked # {}
    OBVIOUS
<1>5. /\ n \in Nat /\ k \in Nat
      /\ result = "OK" => n > 0
      /\ \/ n = pushed[worker[w].of] /\ k = unrecorded[worker[w].of]
         \/ n = pushed[worker[w].of] + 1 /\ k = unrecorded[worker[w].of] /\ result = "OK"
         \/ n = pushed[worker[w].of] + 1 /\ k = unrecorded[worker[w].of] + 1
    BY <1>1, <1>3, <1>4
<1> HIDE DEF devices, step, result, n, k
<1>6. /\ r \in [of: {worker[w].of}, step: Busy, devices: SUBSET Devices,
                rejected: SUBSET Devices, result: {"NONE", "OK", "RETRY", "FAIL"}]
      /\ r.step \in {"ANSWERED", "DECIDED"} /\ r.rejected \cap alive = {} /\ r.result = result
    BY <1>1, <1>4 DEF At, Busy
<1> HIDE DEF r
<1>7. token' \in [Devices -> {"NONE", "ACTIVE", "DROPPED"}] /\ OnlyDeadTokensDropped'
    BY <1>1 DEF IInv, TypeOK, OnlyDeadTokensDropped, deviceVars
<1>8. UNCHANGED <<outboxVars, offerOpen, owner, alive, crashes>>
    BY <1>1 DEF deviceVars
<1> QED
    BY <1>1, <1>2, <1>3, <1>5, <1>6, <1>7, <1>8, ProgressKeeps

LEMMA DropKeeps ==
    ASSUME IInv, NEW w \in Workers, Drop(w)
    PROVE  IInv'
<1> DEFINE r == At(worker[w].of, "DECIDED", {}, {}, worker[w].result)
           n == pushed[worker[w].of]
           k == unrecorded[worker[w].of]
<1>1. /\ worker[w].step = "ANSWERED" /\ worker' = [worker EXCEPT ![w] = r]
      /\ token' = [d \in Devices |->
           IF d \in worker[w].rejected /\ token[d] = "ACTIVE" THEN "DROPPED" ELSE token[d]]
      /\ UNCHANGED <<outboxVars, offerOpen, owner, alive, pushed, unrecorded, crashes>>
    BY DEF Drop
<1>2. worker[w] # Idle
    BY <1>1 DEF Idle, At
<1>3. /\ worker[w].of \in Events /\ worker[w].rejected \cap alive = {}
      /\ worker[w].result = "OK" => n > 0
    BY <1>1, <1>2, Holder DEF IInv, Held
<1>4. /\ n \in Nat /\ pushed' = [pushed EXCEPT ![worker[w].of] = n] /\ n = pushed[worker[w].of]
      /\ k \in Nat /\ unrecorded' = [unrecorded EXCEPT ![worker[w].of] = k]
      /\ k = unrecorded[worker[w].of]
    BY <1>1, <1>3 DEF IInv, TypeOK
<1> HIDE DEF n, k
<1>5. /\ r \in [of: {worker[w].of}, step: Busy, devices: SUBSET Devices,
                rejected: SUBSET Devices, result: {"NONE", "OK", "RETRY", "FAIL"}]
      /\ r.step = "DECIDED" /\ r.rejected \cap alive = {} /\ r.result = worker[w].result
    BY DEF At, Busy, IInv, TypeOK
<1> HIDE DEF r
<1>6. token' \in [Devices -> {"NONE", "ACTIVE", "DROPPED"}]
    BY <1>1 DEF IInv, TypeOK
<1>7. OnlyDeadTokensDropped'
    BY <1>1, <1>3 DEF IInv, OnlyDeadTokensDropped
<1>8. /\ worker' = [worker EXCEPT ![w] = r]
      /\ UNCHANGED <<outboxVars, offerOpen, owner, alive, crashes>>
    BY <1>1
<1> QED
    BY <1>2, <1>3, <1>4, <1>5, <1>6, <1>7, <1>8, ProgressKeeps

LEMMA DropFailsKeeps ==
    ASSUME IInv, NEW w \in Workers, DropFails(w)
    PROVE  IInv'
<1> DEFINE r == At(worker[w].of, "DECIDED", {}, {}, "RETRY")
           n == pushed[worker[w].of]
           k == IF worker[w].result = "OK"
                THEN unrecorded[worker[w].of] + 1 ELSE unrecorded[worker[w].of]
<1>1. /\ worker[w].step = "ANSWERED" /\ worker' = [worker EXCEPT ![w] = r]
      /\ unrecorded' = [unrecorded EXCEPT ![worker[w].of] = k]
      /\ UNCHANGED <<outboxVars, offerOpen, deviceVars, pushed, crashes>>
    BY DEF DropFails, ForgetPush
<1>2. worker[w] # Idle
    BY <1>1 DEF Idle, At
<1>3. worker[w].of \in Events
    BY <1>2, Holder
<1>4. /\ n \in Nat /\ pushed' = [pushed EXCEPT ![worker[w].of] = n] /\ n = pushed[worker[w].of]
      /\ k \in Nat
      /\ \/ k = unrecorded[worker[w].of] /\ worker[w].result # "OK"
         \/ k = unrecorded[worker[w].of] + 1
    BY <1>1, <1>3 DEF IInv, TypeOK
<1> HIDE DEF n, k
<1>5. /\ r \in [of: {worker[w].of}, step: Busy, devices: SUBSET Devices,
                rejected: SUBSET Devices, result: {"NONE", "OK", "RETRY", "FAIL"}]
      /\ r.step = "DECIDED" /\ r.rejected \cap alive = {} /\ r.result # "OK"
    BY DEF At, Busy
<1> HIDE DEF r
<1>6. token' \in [Devices -> {"NONE", "ACTIVE", "DROPPED"}] /\ OnlyDeadTokensDropped'
    BY <1>1 DEF IInv, TypeOK, OnlyDeadTokensDropped, deviceVars
<1>7. UNCHANGED <<outboxVars, offerOpen, owner, alive, crashes>>
    BY <1>1 DEF deviceVars
<1> QED
    BY <1>1, <1>2, <1>3, <1>4, <1>5, <1>6, <1>7, ProgressKeeps

--------------------------------------------------------------------------------
(***************************************************************************)
(* Steps that write the rows of an event or let a worker go.               *)
(***************************************************************************)

LEMMA CommitKeeps ==
    ASSUME IInv, NEW w \in Workers, Commit(w)
    PROVE  IInv'
<1> DEFINE e == worker[w].of
           outcome == Outcome(e, worker[w].result)
<1>1. /\ worker[w].step = "DECIDED" /\ worker' = [worker EXCEPT ![w] = Idle]
      /\ status' = [status EXCEPT ![e] = [@ EXCEPT !["PUSH"] = outcome]]
      /\ attempts' = [attempts EXCEPT ![e] = @ + 1]
      /\ resting' = IF outcome = "PENDING" THEN resting \cup {e} ELSE resting
      /\ UNCHANGED <<born, births, offerOpen, deviceVars, pushed, unrecorded, crashes>>
    BY DEF Commit
<1>2. worker[w] # Idle
    BY <1>1 DEF Idle, At
<1>3. /\ e \in Events /\ born[e] > 0 /\ status[e]["PUSH"] = "PENDING"
      /\ \A v \in Workers : v # w => worker[v].of # e
      /\ worker[w].result = "OK" => pushed[e] > 0
    BY <1>2, Holder DEF IInv, Held
<1>4. /\ worker'[w] = Idle /\ \A v \in Workers : v # w => worker'[v] = worker[v]
      /\ \A v \in Workers : worker'[v].of # e
    <2>1. worker'[w] = Idle /\ \A v \in Workers : v # w => worker'[v] = worker[v]
        BY <1>1 DEF IInv, TypeOK
    <2> QED
        BY <2>1, <1>3, NothingIsNoEvent DEF Idle, At
<1>5. attempts[e] < MaxAttempts /\ attempts[e] \in 0..MaxAttempts
    BY <1>3 DEF IInv, Counted, TypeOK
<1>6. /\ outcome \in {"PENDING", "SENT", "FAILED"}
      /\ outcome = "SENT" <=> worker[w].result = "OK"
      /\ outcome = "PENDING" => attempts[e] + 1 < MaxAttempts
    BY <1>5, LimitsAssumption DEF Outcome
<1> HIDE DEF e, outcome
<1>7. TypeOK'
    <2>1. status' \in [Events -> [Channels -> {"NONE", "PENDING", "SENT", "FAILED", "SKIPPED"}]]
        BY <1>1, <1>3, <1>6 DEF IInv, TypeOK
    <2>2. attempts' \in [Events -> 0..MaxAttempts]
        BY <1>1, <1>3, <1>5, LimitsAssumption DEF IInv, TypeOK
    <2>3. worker' \in [Workers -> [of: Events \cup {Nothing},
                                   step: {"IDLE", "CLAIMED", "LISTED", "ANSWERED", "DECIDED"},
                                   devices: SUBSET Devices, rejected: SUBSET Devices,
                                   result: {"NONE", "OK", "RETRY", "FAIL"}]]
        BY <1>1 DEF IInv, TypeOK, Idle, At
    <2>4. resting' \subseteq Events
        BY <1>1, <1>3 DEF IInv, TypeOK
    <2> QED
        BY <1>1, <2>1, <2>2, <2>3, <2>4 DEF IInv, TypeOK, deviceVars
<1>8. /\ status'[e]["PUSH"] = outcome
      /\ attempts'[e] = attempts[e] + 1
      /\ \A f \in Events : f # e => status'[f] = status[f] /\ attempts'[f] = attempts[f]
    BY <1>1, <1>3 DEF IInv, TypeOK, Channels
<1>9. ASSUME NEW v \in Workers PROVE Held(v)'
    <2>1. CASE v = w
        BY <1>4, <2>1 DEF Held, Idle, At
    <2>2. CASE v # w
        <3>1. Held(v) /\ worker'[v] = worker[v] /\ worker[v].of # e
            BY <1>3, <1>4, <2>2 DEF IInv
        <3>2. worker[v].of \in Events => status'[worker[v].of] = status[worker[v].of]
            BY <1>8, <3>1
        <3> QED
            BY <1>1, <3>1, <3>2 DEF Held, deviceVars, Idle, At
    <2> QED
        BY <2>1, <2>2
<1>10. OneHolder'
    <2> SUFFICES ASSUME NEW u \in Workers, NEW v \in Workers, worker'[u].of = worker'[v].of, u # v
                 PROVE  worker'[u] = Idle
        BY DEF OneHolder, Idle, At
    <2>1. CASE u = w
        BY <1>4, <2>1
    <2>2. CASE u # w /\ v = w
        <3>1. worker'[u] = worker[u] /\ worker[u].of = Nothing /\ Held(u)
            BY <1>4, <2>2 DEF IInv, Idle, At
        <3> QED
            BY <3>1, NothingIsNoEvent DEF Held
    <2>3. CASE u # w /\ v # w
        BY <1>4, <2>3 DEF IInv, OneHolder
    <2> QED
        BY <2>1, <2>2, <2>3
<1>11. ASSUME NEW f \in Events PROVE Counted(f)'
    <2>1. /\ Counted(f) /\ pushed[f] \in Nat /\ unrecorded[f] \in Nat
          /\ attempts[f] \in Nat /\ crashes \in Nat
        BY LimitsAssumption DEF IInv, TypeOK
    <2>2. CASE f = e
        <3>1. pushed[e] <= unrecorded[e] \/ worker[w].result = "OK"
            BY <2>1, <2>2, <1>3 DEF Counted, Said
        <3>2. pushed'[e] <= attempts'[e] + crashes'
            BY <1>1, <1>8, <2>1, <2>2 DEF Counted
        <3>3. pushed'[e] <= 1 + attempts'[e] + crashes'
            BY <1>1, <1>8, <2>1, <2>2, <3>2
        <3> QED
            BY <1>1, <1>3, <1>5, <1>6, <1>8, <2>1, <2>2, <3>1, <3>2, <3>3 DEF Counted
    <2>3. CASE f # e
        <3>1. (Said(f) => Said(f)') /\ (Tried(f) => Tried(f)')
            BY <1>4, <2>3 DEF e, Said, Tried
        <3> QED
            BY <1>1, <1>8, <2>1, <2>3, <3>1 DEF Counted
    <2> QED
        BY <2>2, <2>3
<1>12. OnlyDeadTokensDropped'
    BY <1>1 DEF IInv, OnlyDeadTokensDropped, deviceVars
<1> QED
    BY <1>7, <1>9, <1>10, <1>11, <1>12 DEF IInv

LEMMA CrashKeeps ==
    ASSUME IInv, NEW w \in Workers, Crash(w)
    PROVE  IInv'
<1> DEFINE e == worker[w].of
           k == IF worker[w].result = "OK" THEN unrecorded[e] + 1 ELSE unrecorded[e]
<1>1. /\ worker[w] # Idle /\ worker' = [worker EXCEPT ![w] = Idle]
      /\ unrecorded' = [unrecorded EXCEPT ![e] = k]
      /\ crashes < MaxCrashes /\ crashes' = crashes + 1
      /\ UNCHANGED <<outboxVars, offerOpen, deviceVars, pushed>>
    BY DEF Crash, ForgetPush
<1>2. /\ e \in Events /\ status[e]["PUSH"] = "PENDING"
      /\ \A v \in Workers : v # w => worker[v].of # e
    BY <1>1, Holder
<1>3. worker'[w] = Idle /\ \A v \in Workers : v # w => worker'[v] = worker[v]
    BY <1>1 DEF IInv, TypeOK
<1> HIDE DEF e
<1>4. TypeOK'
    <2>1. worker' \in [Workers -> [of: Events \cup {Nothing},
                                   step: {"IDLE", "CLAIMED", "LISTED", "ANSWERED", "DECIDED"},
                                   devices: SUBSET Devices, rejected: SUBSET Devices,
                                   result: {"NONE", "OK", "RETRY", "FAIL"}]]
        BY <1>1 DEF IInv, TypeOK, Idle, At
    <2>2. unrecorded' \in [Events -> Nat] /\ crashes' \in 0..MaxCrashes
        BY <1>1, <1>2, LimitsAssumption DEF IInv, TypeOK
    <2> QED
        BY <1>1, <2>1, <2>2 DEF IInv, TypeOK, outboxVars, deviceVars
<1>5. ASSUME NEW v \in Workers PROVE Held(v)'
    BY <1>1, <1>3 DEF IInv, Held, outboxVars, deviceVars, Idle, At
<1>6. OneHolder'
    <2> SUFFICES ASSUME NEW u \in Workers, NEW v \in Workers, worker'[u].of = worker'[v].of, u # v
                 PROVE  worker'[u] = Idle
        BY DEF OneHolder, Idle, At
    <2>1. CASE u = w
        BY <1>3, <2>1
    <2>2. CASE u # w /\ v = w
        <3>1. worker'[u] = worker[u] /\ worker[u].of = Nothing /\ Held(u)
            BY <1>3, <2>2 DEF IInv, Idle, At
        <3> QED
            BY <3>1, NothingIsNoEvent DEF Held
    <2>3. CASE u # w /\ v # w
        BY <1>3, <2>3 DEF IInv, OneHolder
    <2> QED
        BY <2>1, <2>2, <2>3
<1>7. ASSUME NEW f \in Events PROVE Counted(f)'
    <2>1. /\ Counted(f) /\ pushed[f] \in Nat /\ unrecorded[f] \in Nat
          /\ attempts[f] \in Nat /\ crashes \in Nat /\ crashes' = crashes + 1
        BY <1>1, LimitsAssumption DEF IInv, TypeOK
    <2>2. CASE f = e
        <3>1. pushed[e] <= unrecorded[e] \/ worker[w].result = "OK"
            BY <1>2, <2>1, <2>2 DEF Counted, Said
        <3>2. unrecorded'[e] = k
            BY <1>1, <1>2 DEF IInv, TypeOK
        <3>3. pushed'[e] <= unrecorded'[e] /\ pushed'[e] <= 1 + unrecorded'[e]
            BY <3>1, <3>2, <1>1, <2>1, <2>2 DEF Counted
        <3>4. pushed'[e] <= attempts'[e] + crashes' /\ pushed'[e] <= 1 + attempts'[e] + crashes'
            BY <1>1, <2>1, <2>2 DEF Counted, outboxVars
        <3> QED
            BY <1>1, <1>2, <2>1, <2>2, <3>3, <3>4 DEF Counted, outboxVars
    <2>3. CASE f # e
        <3>1. (Said(f) => Said(f)') /\ (Tried(f) => Tried(f)')
            BY <1>3, <2>3 DEF e, Said, Tried
        <3>2. unrecorded'[f] = unrecorded[f]
            BY <1>1, <1>2, <2>3 DEF IInv, TypeOK
        <3> QED
            BY <1>1, <2>1, <2>3, <3>1, <3>2 DEF Counted, outboxVars
    <2> QED
        BY <2>2, <2>3
<1>8. OnlyDeadTokensDropped'
    BY <1>1 DEF IInv, OnlyDeadTokensDropped, deviceVars
<1> QED
    BY <1>4, <1>5, <1>6, <1>7, <1>8 DEF IInv

\* The rows of an event that no worker holds.
LEMMA RowKeeps ==
    ASSUME IInv, TypeOK', NEW e \in Events, ~Locked(e), Counted(e)',
           \A f \in Events : f # e =>
               /\ born'[f] = born[f] /\ status'[f] = status[f] /\ attempts'[f] = attempts[f]
               /\ pushed'[f] = pushed[f] /\ unrecorded'[f] = unrecorded[f],
           UNCHANGED <<worker, token, alive, crashes>>
    PROVE  IInv'
<1>1. ASSUME NEW v \in Workers PROVE Held(v)'
    <2>1. Held(v) /\ worker'[v] = worker[v] /\ worker[v].of # e
        BY DEF IInv, Locked
    <2> QED
        BY <2>1 DEF Held
<1>2. OneHolder'
    BY DEF IInv, OneHolder
<1>3. ASSUME NEW f \in Events PROVE Counted(f)'
    <2>1. CASE f = e
        BY <2>1
    <2>2. CASE f # e
        <3>1. Counted(f)
            BY DEF IInv
        <3> QED
            BY <2>2, <3>1 DEF Counted, Said, Tried
    <2> QED
        BY <2>1, <2>2
<1>4. OnlyDeadTokensDropped'
    BY DEF IInv, OnlyDeadTokensDropped
<1> QED
    BY <1>1, <1>2, <1>3, <1>4 DEF IInv

LEMMA FailOfferKeeps ==
    ASSUME IInv, NEW w \in Workers, NEW e \in Events, FailOffer(w, e)
    PROVE  IInv'
<1>1. /\ ~Locked(e) /\ status[e]["PUSH"] = "PENDING"
      /\ status' = [status EXCEPT ![e] = [@ EXCEPT !["PUSH"] = "FAILED"]]
      /\ attempts' = [attempts EXCEPT ![e] = @ + 1]
      /\ UNCHANGED <<born, births, resting, offerOpen, deviceVars, worker,
                     pushed, unrecorded, crashes>>
    BY DEF FailOffer, Claimable, Due
<1>2. Counted(e) /\ attempts[e] \in 0..MaxAttempts /\ attempts[e] < MaxAttempts
    BY <1>1 DEF IInv, Counted, TypeOK
<1>3. TypeOK'
    <2>1. status' \in [Events -> [Channels -> {"NONE", "PENDING", "SENT", "FAILED", "SKIPPED"}]]
        BY <1>1 DEF IInv, TypeOK
    <2>2. attempts' \in [Events -> 0..MaxAttempts]
        BY <1>1, <1>2, LimitsAssumption DEF IInv, TypeOK
    <2> QED
        BY <1>1, <2>1, <2>2 DEF IInv, TypeOK, deviceVars
<1>4. /\ status'[e]["PUSH"] = "FAILED" /\ attempts'[e] = attempts[e] + 1
      /\ \A f \in Events : f # e => status'[f] = status[f] /\ attempts'[f] = attempts[f]
    BY <1>1 DEF IInv, TypeOK, Channels
<1>5. born[e] # 0
    BY <1>1, <1>2 DEF Counted
<1>6. pushed[e] <= attempts[e] + crashes /\ (pushed[e] <= unrecorded[e] \/ status[e]["PUSH"] = "SENT")
    BY <1>1, <1>2 DEF Counted, Said, Tried, Locked
<1>7. pushed[e] \in Nat /\ unrecorded[e] \in Nat /\ attempts[e] \in Nat /\ crashes \in Nat
    BY LimitsAssumption DEF IInv, TypeOK
<1>8. Counted(e)'
    BY <1>1, <1>2, <1>4, <1>5, <1>6, <1>7 DEF Counted
<1>9. UNCHANGED <<worker, token, alive, crashes>>
    BY <1>1 DEF deviceVars
<1>10. \A f \in Events : f # e =>
          /\ born'[f] = born[f] /\ status'[f] = status[f] /\ attempts'[f] = attempts[f]
          /\ pushed'[f] = pushed[f] /\ unrecorded'[f] = unrecorded[f]
    BY <1>1, <1>4
<1> QED
    BY <1>1, <1>3, <1>8, <1>9, <1>10, RowKeeps

LEMMA NotifyKeeps ==
    ASSUME IInv, NEW e \in Events, NEW on \in SUBSET Channels, Notify(e, on)
    PROVE  IInv'
<1> DEFINE row == [ch \in Channels |-> IF ch \in on THEN "PENDING" ELSE "SKIPPED"]
<1>1. /\ born[e] = 0 /\ births < MaxBirths /\ births' = births + 1
      /\ born' = [born EXCEPT ![e] = births + 1]
      /\ status' = [status EXCEPT ![e] = row]
      /\ UNCHANGED <<attempts, resting, offerOpen, deviceVars, worker, pushed, unrecorded, crashes>>
    BY DEF Notify
<1>2. Counted(e) /\ births \in 0..MaxBirths
    BY DEF IInv, TypeOK
<1>3. /\ row \in [Channels -> {"NONE", "PENDING", "SENT", "FAILED", "SKIPPED"}]
      /\ row["PUSH"] \in {"PENDING", "SKIPPED"}
    BY DEF Channels
<1> HIDE DEF row
<1>4. TypeOK'
    <2>1. status' \in [Events -> [Channels -> {"NONE", "PENDING", "SENT", "FAILED", "SKIPPED"}]]
        BY <1>1, <1>3 DEF IInv, TypeOK
    <2>2. births' \in 0..MaxBirths /\ births + 1 \in 0..MaxBirths
        BY <1>1, <1>2, LimitsAssumption
    <2>3. born' \in [Events -> 0..MaxBirths]
        BY <1>1, <2>2 DEF IInv, TypeOK
    <2> QED
        BY <1>1, <2>1, <2>2, <2>3 DEF IInv, TypeOK, deviceVars
<1>5. /\ born'[e] = births + 1 /\ status'[e] = row
      /\ \A f \in Events : f # e => status'[f] = status[f] /\ born'[f] = born[f]
    BY <1>1 DEF IInv, TypeOK
<1>6. Counted(e)'
    BY <1>1, <1>2, <1>3, <1>5, LimitsAssumption DEF Counted, Said, Tried
<1>7. ~Locked(e)
    <2> SUFFICES ASSUME NEW w \in Workers, worker[w].of = e PROVE FALSE
        BY DEF Locked
    <2>1. worker[w] # Idle
        BY NothingIsNoEvent DEF Idle, At
    <2> QED
        BY <1>1, <2>1, Holder
<1>8. UNCHANGED <<worker, token, alive, crashes>>
    BY <1>1 DEF deviceVars
<1>9. \A f \in Events : f # e =>
          /\ born'[f] = born[f] /\ status'[f] = status[f] /\ attempts'[f] = attempts[f]
          /\ pushed'[f] = pushed[f] /\ unrecorded'[f] = unrecorded[f]
    BY <1>1, <1>5
<1> QED
    BY <1>4, <1>6, <1>7, <1>8, <1>9, RowKeeps

\* A notification that was dismissed has been pushed no more often than it may.
LEMMA NoneIsFew ==
    ASSUME NEW pushes, NEW missing, NEW tries, NEW ends \in Nat,
           pushes = 0, missing = 0, tries = 0
    PROVE  /\ pushes <= 1 + missing /\ pushes <= missing
           /\ pushes <= 1 + tries + ends /\ pushes <= tries + ends
    OBVIOUS

LEMMA DismissKeeps ==
    ASSUME IInv, NEW e \in Events, Dismiss(e)
    PROVE  IInv'
<1>1. /\ ~Locked(e)
      /\ born' = [born EXCEPT ![e] = 0]
      /\ status' = [status EXCEPT ![e] = [ch \in Channels |-> "NONE"]]
      /\ attempts' = [attempts EXCEPT ![e] = 0]
      /\ resting' = resting \ {e}
      /\ pushed' = [pushed EXCEPT ![e] = 0]
      /\ unrecorded' = [unrecorded EXCEPT ![e] = 0]
      /\ UNCHANGED <<births, offerOpen, deviceVars, worker, crashes>>
    BY DEF Dismiss, Forget
<1>2. TypeOK'
    <2>1. status' \in [Events -> [Channels -> {"NONE", "PENDING", "SENT", "FAILED", "SKIPPED"}]]
        BY <1>1 DEF IInv, TypeOK
    <2>2. born' \in [Events -> 0..MaxBirths] /\ attempts' \in [Events -> 0..MaxAttempts]
        BY <1>1, LimitsAssumption DEF IInv, TypeOK
    <2>3. pushed' \in [Events -> Nat] /\ unrecorded' \in [Events -> Nat]
        BY <1>1 DEF IInv, TypeOK
    <2> QED
        BY <1>1, <2>1, <2>2, <2>3 DEF IInv, TypeOK, deviceVars
<1>3. /\ born'[e] = 0 /\ status'[e]["PUSH"] = "NONE" /\ attempts'[e] = 0
      /\ pushed'[e] = 0 /\ unrecorded'[e] = 0 /\ crashes' \in Nat
    BY <1>1 DEF IInv, TypeOK, Channels
<1>4. Counted(e)'
    <2>1. /\ pushed'[e] <= 1 + unrecorded'[e] /\ pushed'[e] <= unrecorded'[e]
          /\ pushed'[e] <= 1 + attempts'[e] + crashes'
          /\ pushed'[e] <= attempts'[e] + crashes'
        BY <1>3, NoneIsFew, Zenon
    <2>2. status'[e]["PUSH"] # "PENDING" /\ status'[e]["PUSH"] # "SENT"
        BY <1>3
    <2> QED
        BY <1>3, <2>1, <2>2, Zenon DEF Counted
<1>5. UNCHANGED <<worker, token, alive, crashes>>
    BY <1>1 DEF deviceVars
<1>6. \A f \in Events : f # e =>
          /\ born'[f] = born[f] /\ status'[f] = status[f] /\ attempts'[f] = attempts[f]
          /\ pushed'[f] = pushed[f] /\ unrecorded'[f] = unrecorded[f]
    BY <1>1 DEF IInv, TypeOK
<1> QED
    BY <1>1, <1>2, <1>4, <1>5, <1>6, RowKeeps

\* The inbox leaves the push alone, whoever holds it.
LEMMA DeliverInAppKeeps ==
    ASSUME IInv, NEW w \in Workers, NEW e \in Events, DeliverInApp(w, e)
    PROVE  IInv'
<1>1. /\ status' = [status EXCEPT ![e] = [@ EXCEPT !["IN_APP"] = "SENT"]]
      /\ UNCHANGED <<born, births, attempts, resting, offerOpen, deviceVars,
                     worker, pushed, unrecorded, crashes>>
    BY DEF DeliverInApp
<1>2. status' \in [Events -> [Channels -> {"NONE", "PENDING", "SENT", "FAILED", "SKIPPED"}]]
    BY <1>1 DEF IInv, TypeOK
<1>3. TypeOK'
    BY <1>1, <1>2 DEF IInv, TypeOK, deviceVars
<1>4. \A f \in Events : status'[f]["PUSH"] = status[f]["PUSH"]
    BY <1>1 DEF IInv, TypeOK, Channels
<1>5. ASSUME NEW v \in Workers PROVE Held(v)'
    BY <1>1, <1>4 DEF IInv, Held, deviceVars
<1>6. OneHolder'
    BY <1>1 DEF IInv, OneHolder
<1>7. ASSUME NEW f \in Events PROVE Counted(f)'
    <2>1. Counted(f)
        BY DEF IInv
    <2> QED
        BY <1>1, <1>4, <2>1 DEF Counted, Said, Tried
<1>8. OnlyDeadTokensDropped'
    BY <1>1 DEF IInv, OnlyDeadTokensDropped, deviceVars
<1> QED
    BY <1>3, <1>5, <1>6, <1>7, <1>8 DEF IInv

--------------------------------------------------------------------------------
(***************************************************************************)
(* Steps outside the rows that are pushed.                                 *)
(***************************************************************************)

LEMMA WorldKeeps ==
    ASSUME IInv, TypeOK', OnlyDeadTokensDropped', alive' \subseteq alive,
           UNCHANGED <<born, status, attempts, worker, pushed, unrecorded, crashes>>
    PROVE  IInv'
<1>1. ASSUME NEW v \in Workers PROVE Held(v)'
    <2>1. Held(v)
        BY DEF IInv
    <2> QED
        BY <2>1 DEF Held
<1>2. OneHolder'
    BY DEF IInv, OneHolder
<1>3. ASSUME NEW f \in Events PROVE Counted(f)'
    <2>1. Counted(f)
        BY DEF IInv
    <2> QED
        BY <2>1 DEF Counted, Said, Tried
<1> QED
    BY <1>1, <1>2, <1>3 DEF IInv

LEMMA StepKeeps == IInv /\ [Next]_vars => IInv'
<1> SUFFICES ASSUME IInv, [Next]_vars PROVE IInv'
    OBVIOUS
<1>1. ASSUME NEW e \in Events, NEW on \in SUBSET Channels, Notify(e, on) PROVE IInv'
    BY <1>1, NotifyKeeps
<1>2. ASSUME NEW e \in Events, Dismiss(e) PROVE IInv'
    BY <1>2, DismissKeeps
<1>3. ASSUME NEW e \in Events, BackoffElapses(e) PROVE IInv'
    <2>1. TypeOK' /\ OnlyDeadTokensDropped' /\ alive' = alive
        BY <1>3 DEF BackoffElapses, IInv, TypeOK, OnlyDeadTokensDropped, deviceVars
    <2> QED
        BY <1>3, <2>1, WorldKeeps DEF BackoffElapses
<1>4. ASSUME NEW e \in Events, EndOffer(e) PROVE IInv'
    <2>1. TypeOK' /\ OnlyDeadTokensDropped' /\ alive' = alive
        BY <1>4 DEF EndOffer, IInv, TypeOK, OnlyDeadTokensDropped, outboxVars, deviceVars
    <2> QED
        BY <1>4, <2>1, WorldKeeps DEF EndOffer, outboxVars
<1>5. ASSUME NEW w \in Workers, Work(w) PROVE IInv'
    BY <1>5, DeliverInAppKeeps, FailOfferKeeps, ClaimKeeps, ListDevicesKeeps,
       UnavailableKeeps, DropKeeps, DropFailsKeeps, CommitKeeps, SendKeeps DEF Work
<1>6. ASSUME NEW w \in Workers, Crash(w) PROVE IInv'
    BY <1>6, CrashKeeps
<1>7. ASSUME NEW i \in Identities, NEW d \in Devices, Register(i, d) PROVE IInv'
    <2>1. TypeOK' /\ alive' = alive
        BY <1>7 DEF Register, IInv, TypeOK, outboxVars
    <2>2. OnlyDeadTokensDropped'
        BY <1>7 DEF Register, IInv, TypeOK, OnlyDeadTokensDropped
    <2> QED
        BY <1>7, <2>1, <2>2, WorldKeeps DEF Register, outboxVars
<1>8. ASSUME NEW d \in Devices, Unregister(d) PROVE IInv'
    <2>1. TypeOK' /\ alive' = alive
        BY <1>8 DEF Unregister, IInv, TypeOK, outboxVars
    <2>2. OnlyDeadTokensDropped'
        BY <1>8 DEF Unregister, IInv, TypeOK, OnlyDeadTokensDropped
    <2> QED
        BY <1>8, <2>1, <2>2, WorldKeeps DEF Unregister, outboxVars
<1>9. ASSUME NEW d \in Devices, Die(d) PROVE IInv'
    <2>1. TypeOK' /\ alive' \subseteq alive
        BY <1>9 DEF Die, IInv, TypeOK, outboxVars
    <2>2. OnlyDeadTokensDropped'
        BY <1>9 DEF Die, IInv, OnlyDeadTokensDropped
    <2> QED
        BY <1>9, <2>1, <2>2, WorldKeeps DEF Die, outboxVars
<1>10. CASE UNCHANGED vars
    <2>1. TypeOK' /\ OnlyDeadTokensDropped' /\ alive' = alive
        BY <1>10 DEF vars, IInv, TypeOK, OnlyDeadTokensDropped, outboxVars, deviceVars
    <2> QED
        BY <1>10, <2>1, WorldKeeps DEF vars, outboxVars
<1> QED
    BY <1>1, <1>2, <1>3, <1>4, <1>5, <1>6, <1>7, <1>8, <1>9, <1>10 DEF Next

LEMMA Inductive == Spec => []IInv
BY InitHolds, StepKeeps, PTL DEF Spec

--------------------------------------------------------------------------------
(***************************************************************************)
(* Theorems.                                                               *)
(***************************************************************************)

\* The variables of the outbox keep their types: an attempt count never passes
\* the ceiling, and a worker holds at most one delivery.
THEOREM TypeCorrect == Spec => []TypeOK
BY Inductive, PTL DEF IInv

\* However many workers run, whichever of them crash and whatever FCM does not
\* say, a notification is pushed again only if the push before was not written
\* down, and not beyond its attempts and the rollbacks.
THEOREM PushesAreCounted == Spec => []PushedOnce
<1>1. ASSUME IInv, NEW e \in Events
      PROVE  pushed[e] <= 1 + unrecorded[e] /\ pushed[e] <= MaxAttempts + crashes
    <2>1. /\ Counted(e) /\ pushed[e] \in Nat /\ attempts[e] \in 0..MaxAttempts
          /\ crashes \in Nat
        BY <1>1, LimitsAssumption DEF IInv, TypeOK
    <2> QED
        BY <2>1, LimitsAssumption DEF Counted
<1>2. IInv => PushedOnce
    BY <1>1 DEF PushedOnce
<1> QED
    BY <1>2, Inductive, PTL

\* A push that waits for its turn has an attempt left.
THEOREM RetriesAreBounded == Spec => []RetryHasAttemptsLeft
<1>1. IInv => RetryHasAttemptsLeft
    BY DEF IInv, Counted, RetryHasAttemptsLeft
<1> QED
    BY <1>1, Inductive, PTL

\* What the worker marks SENT reached a device, although tokens are dropped and
\* registered while FCM answers.
THEOREM SentIsTrue == Spec => []SentWasPushed
<1>1. IInv => SentWasPushed
    BY DEF IInv, Counted, SentWasPushed
<1> QED
    BY <1>1, Inductive, PTL

\* Only a token that FCM does not know is given up.
THEOREM LivingTokensStay == Spec => []OnlyDeadTokensDropped
BY Inductive, PTL DEF IInv

\* A dismissed notification is not pushed any more.
THEOREM DismissedStaysQuiet == Spec => DismissedIsQuiet
<1>1. ASSUME IInv, [Next]_vars
      PROVE  [\A e \in Events : pushed'[e] > pushed[e] => born[e] > 0]_vars
    <2> SUFFICES ASSUME Next, NEW e \in Events, pushed'[e] > pushed[e] PROVE born[e] > 0
        BY <1>1
    <2>0. pushed \in [Events -> Nat]
        BY <1>1 DEF IInv, TypeOK
    <2>1. pushed' # pushed
        BY <2>0
    <2>2. CASE \E f \in Events : Dismiss(f)
        <3>1. PICK f \in Events : pushed' = [pushed EXCEPT ![f] = 0]
            BY <2>2 DEF Dismiss, Forget
        <3> QED
            BY <2>0, <3>1
    <2>3. CASE \E w \in Workers : worker[w] # Idle /\ \E n : pushed' = [pushed EXCEPT ![worker[w].of] = n]
        <3>1. PICK w \in Workers : worker[w] # Idle /\ \E n : pushed' = [pushed EXCEPT ![worker[w].of] = n]
            BY <2>3
        <3>2. e = worker[w].of
            BY <2>0, <3>1
        <3> QED
            BY <1>1, <3>1, <3>2, Holder
    <2>4. ASSUME NEW w \in Workers, NEW reached \in SUBSET Devices,
                 \/ Unavailable(w, reached)
                 \/ \E acked, rejected \in SUBSET Devices : Send(w, reached, acked, rejected)
          PROVE  worker[w] # Idle /\ \E n : pushed' = [pushed EXCEPT ![worker[w].of] = n]
        BY <2>4 DEF Unavailable, Send, Answer, Push, Idle, At
    <2>5. CASE /\ ~\E f \in Events : Dismiss(f)
               /\ ~\E w \in Workers, reached \in SUBSET Devices :
                       \/ Unavailable(w, reached)
                       \/ \E acked, rejected \in SUBSET Devices : Send(w, reached, acked, rejected)
        BY <2>1, <2>5 DEF Next, Work, Notify, BackoffElapses, EndOffer, Crash, Register,
           Unregister, Die, DeliverInApp, FailOffer, Claim, ListDevices, Drop, DropFails, Commit
    <2> QED
        BY <2>2, <2>3, <2>4, <2>5
<1> QED
    BY <1>1, Inductive, PTL DEF Spec, DismissedIsQuiet
================================================================================
