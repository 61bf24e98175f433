------------------------------ MODULE MoneyProofs ------------------------------
(***************************************************************************)
(* Theorems about TripFinance, for any number of charges, refunds and      *)
(* verifies and any amounts, and about WalletAccounts, for any number of   *)
(* trips, top-ups, settlements, withdrawals and cleanups and any amounts.  *)
(* Both add up finite sets of rows; the lemmas about such sums come first. *)
(***************************************************************************)
EXTENDS TripFinance, WalletAccounts, FiniteSetTheorems, TLAPS

(***************************************************************************)
(* Sums over finite sets.  Each fact is proved of a smallest set for which *)
(* it could fail, since the strict subsets of a finite set are well        *)
(* founded.                                                                *)
(***************************************************************************)
Pick(s) == CHOOSE x \in s : TRUE

Adds(g, f, S) ==
    g = [s \in SUBSET S |-> IF s = {} THEN 0 ELSE f[Pick(s)] + g[s \ {Pick(s)}]]

\* A family of subsets of a finite set has one that contains no other.
LEMMA SmallestSet ==
    ASSUME NEW S, IsFiniteSet(S), NEW T, T \subseteq SUBSET S, T # {}
    PROVE  \E s \in T : \A t \in T : ~(t \subseteq s /\ t # s)
<1>1. IsWellFoundedOn(StrictSubsetOrdering(S), SUBSET S)
  BY FS_StrictSubsetOrderingWellFounded, FS_FiniteSubsetsOfFinite
<1>2. \E s \in T : \A t \in T : ~(<<t, s>> \in StrictSubsetOrdering(S))
  BY <1>1, WFMin
<1>3. QED BY <1>2 DEF StrictSubsetOrdering

LEMMA PickIsIn == ASSUME NEW s, s # {} PROVE Pick(s) \in s
BY DEF Pick

\* Two recursive definitions of the sum agree where both are defined.
LEMMA AddsIsUnique ==
    ASSUME NEW f, NEW S, IsFiniteSet(S), NEW s \in SUBSET S,
           NEW g, Adds(g, f, S), NEW h, Adds(h, f, s)
    PROVE  h[s] = g[s]
<1> DEFINE Bad == {q \in SUBSET s : g[q] # h[q]}
<1>1. SUFFICES ASSUME Bad # {} PROVE FALSE
  OBVIOUS
<1>2. Bad \subseteq SUBSET S
  OBVIOUS
<1> HIDE DEF Bad
<1>3. PICK q \in Bad : \A p \in Bad : ~(p \subseteq q /\ p # q)
  BY <1>1, <1>2, SmallestSet
<1> USE DEF Bad
<1>4. CASE q = {}
  BY <1>3, <1>4 DEF Adds
<1>5. CASE q # {}
  <2>1. Pick(q) \in q
    BY <1>5, PickIsIn
  <2>2. g[q \ {Pick(q)}] = h[q \ {Pick(q)}]
    BY <1>3, <2>1
  <2>3. /\ g[q] = f[Pick(q)] + g[q \ {Pick(q)}]
        /\ h[q] = f[Pick(q)] + h[q \ {Pick(q)}]
    BY <1>3, <1>5 DEF Adds
  <2>4. QED BY <1>3, <2>2, <2>3
<1>6. QED BY <1>4, <1>5

\* The fold of the library, as a choice of such a definition.
LEMMA TotalIsChosen ==
    ASSUME NEW f, NEW S
    PROVE  Total(f, S) = (CHOOSE g : Adds(g, f, S))[S]
BY Zenon DEF Total, MapThenSumSet, MapThenFoldSet, Adds, Pick

\* Once a definition exists the sum of any subset can be read from it.
LEMMA TotalOfAdds ==
    ASSUME NEW f, NEW S, IsFiniteSet(S), NEW g, Adds(g, f, S), NEW s \in SUBSET S,
           \E h : Adds(h, f, s)
    PROVE  Total(f, s) = g[s]
<1>1. Adds(CHOOSE h : Adds(h, f, s), f, s)
  OBVIOUS
<1>2. ASSUME NEW h, Adds(h, f, s) PROVE h[s] = g[s]
  BY <1>2, AddsIsUnique
<1>3. (CHOOSE h : Adds(h, f, s))[s] = g[s]
  BY <1>1, <1>2
<1>4. QED BY <1>3, TotalIsChosen

\* And it exists, for every finite set.
LEMMA AddsExists ==
    ASSUME NEW f, NEW S, IsFiniteSet(S)
    PROVE  \A s \in SUBSET S : \E g : Adds(g, f, s)
<1> DEFINE Bad == {q \in SUBSET S : ~ \E g : Adds(g, f, q)}
<1>1. SUFFICES ASSUME Bad # {} PROVE FALSE
  OBVIOUS
<1>2. Bad \subseteq SUBSET S
  OBVIOUS
<1> HIDE DEF Bad
<1>3. PICK s \in Bad : \A p \in Bad : ~(p \subseteq s /\ p # s)
  BY <1>1, <1>2, SmallestSet
<1> USE DEF Bad
<1> DEFINE G == [q \in SUBSET s |-> IF q = {} THEN 0 ELSE f[Pick(q)] + Total(f, q \ {Pick(q)})]
<1>4. \A t \in SUBSET s : t # s => \E g : Adds(g, f, t)
  BY <1>3
<1>5. \A t \in SUBSET s : t # s => G[t] = Total(f, t)
  <2> SUFFICES ASSUME NEW t \in SUBSET s, t # s PROVE G[t] = Total(f, t)
    OBVIOUS
  <2>1. PICK g : Adds(g, f, t)
    BY <1>4
  <2>2. IsFiniteSet(t)
    BY FS_Subset
  <2>3. Total(f, t) = g[t]
    BY <2>1, <2>2, TotalOfAdds
  <2>4. CASE t = {}
    BY <2>1, <2>3, <2>4 DEF Adds
  <2>5. CASE t # {}
    <3>1. t \ {Pick(t)} # s /\ t \ {Pick(t)} \in SUBSET s /\ t \ {Pick(t)} \in SUBSET t
      BY <2>5
    <3>2. Total(f, t \ {Pick(t)}) = g[t \ {Pick(t)}]
      BY <1>4, <2>1, <2>2, <3>1, TotalOfAdds
    <3>3. g[t] = f[Pick(t)] + g[t \ {Pick(t)}]
      BY <2>1, <2>5 DEF Adds
    <3>4. QED BY <2>3, <2>5, <3>2, <3>3
  <2>6. QED BY <2>4, <2>5
<1>6. \A q \in SUBSET s : q # {} => q \ {Pick(q)} \in SUBSET s /\ q \ {Pick(q)} # s
  BY PickIsIn
<1>7. \A q \in SUBSET s : q # {} => G[q \ {Pick(q)}] = Total(f, q \ {Pick(q)})
  BY <1>5, <1>6
<1>8. G = [q \in SUBSET s |-> IF q = {} THEN 0 ELSE f[Pick(q)] + G[q \ {Pick(q)}]]
  BY <1>7
<1>9. Adds(G, f, s)
  BY <1>8 DEF Adds
<1>10. QED BY <1>3, <1>9

\* The sum of nothing is 0, and of something what is picked and the rest.
LEMMA TotalStep ==
    ASSUME NEW f, NEW S, IsFiniteSet(S)
    PROVE  /\ S = {} => Total(f, S) = 0
           /\ S # {} => Total(f, S) = f[Pick(S)] + Total(f, S \ {Pick(S)})
<1>1. PICK g : Adds(g, f, S)
  BY AddsExists
<1>2. \A s \in SUBSET S : \E h : Adds(h, f, s)
  BY AddsExists
<1>3. \A s \in SUBSET S : Total(f, s) = g[s]
  BY <1>1, <1>2, TotalOfAdds
<1>4. Total(f, S) = g[S]
  BY <1>3
<1>5. S # {} => Total(f, S \ {Pick(S)}) = g[S \ {Pick(S)}]
  BY <1>3
<1>6. QED BY <1>1, <1>4, <1>5 DEF Adds

\* A sum of integers is an integer.
LEMMA TotalInt ==
    ASSUME NEW f, NEW S, IsFiniteSet(S), \A x \in S : f[x] \in Int
    PROVE  \A s \in SUBSET S : Total(f, s) \in Int
<1> DEFINE Bad == {q \in SUBSET S : Total(f, q) \notin Int}
<1>1. SUFFICES ASSUME Bad # {} PROVE FALSE
  OBVIOUS
<1>2. Bad \subseteq SUBSET S
  OBVIOUS
<1> HIDE DEF Bad
<1>3. PICK s \in Bad : \A p \in Bad : ~(p \subseteq s /\ p # s)
  BY <1>1, <1>2, SmallestSet
<1> USE DEF Bad
<1>4. IsFiniteSet(s)
  BY FS_Subset
<1>5. CASE s = {}
  <2>1. Total(f, s) = 0
    BY <1>4, <1>5, TotalStep
  <2>2. QED BY <1>3, <2>1
<1>6. CASE s # {}
  <2>1. Pick(s) \in s /\ f[Pick(s)] \in Int
    BY <1>6, PickIsIn
  <2>2. Total(f, s \ {Pick(s)}) \in Int
    BY <1>3, <2>1
  <2>3. QED BY <1>3, <1>4, <1>6, <2>1, <2>2, TotalStep
<1>7. QED BY <1>5, <1>6

\* Equal amounts have equal sums.
LEMMA TotalSame ==
    ASSUME NEW f, NEW g, NEW S, IsFiniteSet(S), \A x \in S : f[x] = g[x]
    PROVE  Total(f, S) = Total(g, S)
<1> DEFINE Bad == {q \in SUBSET S : Total(f, q) # Total(g, q)}
<1>1. SUFFICES ASSUME Bad # {} PROVE FALSE
  OBVIOUS
<1>2. Bad \subseteq SUBSET S
  OBVIOUS
<1> HIDE DEF Bad
<1>3. PICK s \in Bad : \A p \in Bad : ~(p \subseteq s /\ p # s)
  BY <1>1, <1>2, SmallestSet
<1> USE DEF Bad
<1>4. IsFiniteSet(s)
  BY FS_Subset
<1>5. CASE s = {}
  BY <1>3, <1>4, <1>5, TotalStep
<1>6. CASE s # {}
  <2>1. Pick(s) \in s /\ f[Pick(s)] = g[Pick(s)]
    BY <1>6, PickIsIn
  <2>2. Total(f, s \ {Pick(s)}) = Total(g, s \ {Pick(s)})
    BY <1>3, <2>1
  <2>3. QED BY <1>3, <1>4, <1>6, <2>1, <2>2, TotalStep
<1>7. QED BY <1>5, <1>6

\* Nothing but zeros adds up to 0.
LEMMA TotalZero ==
    ASSUME NEW f, NEW S, IsFiniteSet(S), \A x \in S : f[x] = 0
    PROVE  Total(f, S) = 0
<1> DEFINE Bad == {q \in SUBSET S : Total(f, q) # 0}
<1>1. SUFFICES ASSUME Bad # {} PROVE FALSE
  OBVIOUS
<1>2. Bad \subseteq SUBSET S
  OBVIOUS
<1> HIDE DEF Bad
<1>3. PICK s \in Bad : \A p \in Bad : ~(p \subseteq s /\ p # s)
  BY <1>1, <1>2, SmallestSet
<1> USE DEF Bad
<1>4. IsFiniteSet(s)
  BY FS_Subset
<1>5. CASE s = {}
  BY <1>3, <1>4, <1>5, TotalStep
<1>6. CASE s # {}
  <2>1. Pick(s) \in s /\ f[Pick(s)] = 0
    BY <1>6, PickIsIn
  <2>2. Total(f, s \ {Pick(s)}) = 0
    BY <1>3, <2>1
  <2>3. QED BY <1>3, <1>4, <1>6, <2>1, <2>2, TotalStep
<1>7. QED BY <1>5, <1>6

\* Any member may be taken first: the order of the fold does not matter.
LEMMA TotalTake ==
    ASSUME NEW f, NEW S, IsFiniteSet(S), \A x \in S : f[x] \in Int, NEW x \in S
    PROVE  Total(f, S) = f[x] + Total(f, S \ {x})
<1> DEFINE Bad == {q \in SUBSET S : \E y \in q : Total(f, q) # f[y] + Total(f, q \ {y})}
<1>1. SUFFICES ASSUME Bad # {} PROVE FALSE
  OBVIOUS
<1>2. Bad \subseteq SUBSET S
  OBVIOUS
<1> HIDE DEF Bad
<1>3. PICK s \in Bad : \A p \in Bad : ~(p \subseteq s /\ p # s)
  BY <1>1, <1>2, SmallestSet
<1> USE DEF Bad
<1>4. PICK y \in s : Total(f, s) # f[y] + Total(f, s \ {y})
  BY <1>3
<1> DEFINE p == Pick(s)
<1>5. p \in s
  BY <1>4, PickIsIn
<1>6. IsFiniteSet(s) /\ IsFiniteSet(s \ {y})
  BY FS_Subset
<1>7. Total(f, s) = f[p] + Total(f, s \ {p})
  BY <1>5, <1>6, TotalStep
<1>8. p # y
  BY <1>4, <1>7
<1>9. (s \ {p}) \ {y} = (s \ {y}) \ {p}
  OBVIOUS
<1>10. Total(f, s \ {p}) = f[y] + Total(f, (s \ {y}) \ {p})
  <2>1. s \ {p} \in SUBSET S /\ s \ {p} \notin Bad
    BY <1>3, <1>5
  <2>2. QED BY <1>8, <1>9, <2>1
<1>11. Total(f, s \ {y}) = f[p] + Total(f, (s \ {y}) \ {p})
  <2>1. s \ {y} \in SUBSET S /\ s \ {y} \notin Bad
    BY <1>3
  <2>2. QED BY <1>5, <1>8, <2>1
<1>12. f[p] \in Int /\ f[y] \in Int /\ Total(f, (s \ {y}) \ {p}) \in Int
  BY <1>5, TotalInt
<1>13. Total(f, s) = f[y] + Total(f, s \ {y})
  <2> DEFINE u == Total(f, (s \ {y}) \ {p})
  <2>1. f[p] \in Int /\ f[y] \in Int /\ u \in Int
    BY <1>12
  <2>2. Total(f, s) = f[p] + Total(f, s \ {p}) /\ Total(f, s \ {p}) = f[y] + u
    BY <1>7, <1>10
  <2>3. Total(f, s \ {y}) = f[p] + u
    BY <1>11
  <2> HIDE DEF u, p
  <2>4. QED BY <2>1, <2>2, <2>3, SMT
<1>14. QED BY <1>4, <1>13

\* One amount that changes changes the sum by as much.
LEMMA TotalChange ==
    ASSUME NEW f, NEW g, NEW S, IsFiniteSet(S), NEW x \in S,
           \A y \in S : f[y] \in Int /\ g[y] \in Int, \A y \in S \ {x} : f[y] = g[y]
    PROVE  Total(g, S) = Total(f, S) + g[x] - f[x]
<1>1. Total(f, S) = f[x] + Total(f, S \ {x}) /\ Total(g, S) = g[x] + Total(g, S \ {x})
  BY TotalTake
<1>2. Total(f, S \ {x}) = Total(g, S \ {x})
  BY TotalSame, FS_Subset
<1>3. Total(f, S \ {x}) \in Int
  BY TotalInt
<1>4. QED BY <1>1, <1>2, <1>3

--------------------------------------------------------------------------------
(***************************************************************************)
(* TripFinance.                                                            *)
(***************************************************************************)
\* What each part of the state may be, in the order the proofs need it.
PlanType == planned \in -1..Bill /\ delivered \in BOOLEAN

ChargeType ==
    /\ charge \in [Charges -> {"NONE", "PENDING", "PAID", "FAILED"}]
    /\ gateway \in [Charges -> {"NONE", "ACTIVE", "PAID", "EXPIRED", "SUCCESS", "FAILED"}]
    /\ session \in [Charges -> SessionStates]
    /\ refused \in [Charges -> BOOLEAN]
    /\ verifier \in [Verifiers -> [of: 0..MaxCharges, remote: SessionStates]]

RefundType ==
    /\ refund \in [Keys -> [of: 0..MaxCharges, amount: Nat, status: RefundStates]]
    /\ refundRows \in [Keys -> Nat]
    /\ atCashfree \in [Keys -> [Charges -> [amount: Nat, status: RefundStates]]]
    /\ lost \in 0..MaxLost

CashType ==
    /\ taken \in Nat /\ returned \in Nat /\ companyDue \in Nat
    /\ earned \in BOOLEAN
    /\ cashRows \in 0..MaxCashRows

LEMMA TypeParts == TypeOK <=> PlanType /\ ChargeType /\ RefundType /\ CashType
BY DEF TypeOK, PlanType, ChargeType, RefundType, CashType

--------------------------------------------------------------------------------
(***************************************************************************)
(* Each action once, by the part of the state it may change.               *)
(***************************************************************************)

Collects == \E a \in 1..Bill : CollectCash(a)
Returns == \E a \in 1..Bill : ReturnCash(a)
Plans == \E n \in 0..Bill : SetPlan(n)

\* Every step but one that syncs leaves the rider's side alone.
Syncing ==
    \/ Collects \/ Deliver \/ Resync
    \/ \E c \in Charges : WebhookPaid(c)
    \/ \E v \in Verifiers, c \in Charges : VerifyPaid(v, c)

RefundStep ==
    \/ \E k \in Keys, c \in Charges, a \in 1..Bill, st \in RefundAnswers :
        RefundOnline(k, c, a, st) \/ LoseRefund(k, c, a, st)
    \/ \E k \in Keys : WebhookRefund(k)
    \/ \E k \in Keys, c \in Charges, how \in {"SUCCESS", "FAILED"} : DecideRefund(k, c, how)

ChargeStep ==
    \/ \E c \in Charges : OpenCharge(c) \/ WebhookPaid(c) \/ WebhookFailed(c) \/ Refuse(c)
    \/ \E c \in Charges, how \in {"PAID", "EXPIRED"} : Finish(c, how)
    \/ \E v \in Verifiers, c \in Charges :
        Retrieve(v, c) \/ VerifyPaid(v, c) \/ VerifyUnpaid(v, c)

LEMMA StepKinds ==
    [Next]_vars =>
        \/ Plans \/ Collects \/ Returns \/ Deliver \/ Resync
        \/ ChargeStep \/ RefundStep \/ UNCHANGED vars
BY DEF Next, Plans, Collects, Returns, ChargeStep, RefundStep

LEMMA SyncType ==
    ASSUME Sync, taken' \in Nat, returned' \in Nat, companyDue \in Nat, earned \in BOOLEAN
    PROVE  companyDue' \in Nat /\ earned' \in BOOLEAN
<1>1. CashHeld' \in Int
  BY DEF CashHeld
<1>2. companyDue' \in Nat
  <2>1. \/ companyDue' = companyDue
        \/ CashHeld' > RiderAmount /\ companyDue' = CashHeld' - RiderAmount
    BY Zenon DEF Sync
  <2>2. ASSUME NEW x \in Int, x > RiderAmount PROVE x - RiderAmount \in Nat
    BY <2>2, AmountsAssumption
  <2>3. QED BY <1>1, <2>1, <2>2
<1>3. earned' \in BOOLEAN
  BY DEF Sync
<1>4. QED BY <1>2, <1>3

\* Money of the trip and the rider: the cash and the postings.
LEMMA CashStep == CashType /\ [Next]_vars => CashType'
<1> SUFFICES ASSUME CashType, [Next]_vars PROVE CashType'
  OBVIOUS
<1> USE DEF CashType, cashVars, riderVars
<1>1. ASSUME UNCHANGED <<cashVars, riderVars>> PROVE CashType'
  BY <1>1
<1>2. ASSUME UNCHANGED cashVars, Sync PROVE CashType'
  BY <1>2, SyncType
<1>3. CASE Plans \/ RefundStep \/ UNCHANGED vars
  BY <1>1, <1>3 DEF Plans, RefundStep, SetPlan, RefundOnline, LoseRefund, WebhookRefund,
     DecideRefund, vars
<1>4. CASE ChargeStep
  BY <1>1, <1>2, <1>4 DEF ChargeStep, OpenCharge, WebhookPaid, WebhookFailed, Refuse, Finish,
     Retrieve, VerifyPaid, VerifyUnpaid
<1>5. CASE Deliver \/ Resync
  BY <1>2, <1>5 DEF Deliver, Resync
<1>6. CASE Collects
  <2>1. PICK a \in 1..Bill : CollectCash(a)
    BY <1>6 DEF Collects
  <2>2. taken' \in Nat /\ returned' \in Nat /\ cashRows' \in 0..MaxCashRows
    BY <2>1, AmountsAssumption, BoundsAssumption DEF CollectCash
  <2>3. QED BY <2>1, <2>2, SyncType DEF CollectCash
<1>7. CASE Returns
  <2>1. PICK a \in 1..Bill : ReturnCash(a)
    BY <1>7 DEF Returns
  <2>2. QED BY <2>1, AmountsAssumption, BoundsAssumption DEF ReturnCash
<1>8. QED BY <1>3, <1>4, <1>5, <1>6, <1>7, StepKinds

LEMMA ChargeTypeStep == ChargeType /\ [Next]_vars => ChargeType'
<1> SUFFICES ASSUME ChargeType, [Next]_vars PROVE ChargeType'
  OBVIOUS
<1> USE DEF ChargeType, chargeVars, cashfreeVars, SessionStates
<1>1. ASSUME UNCHANGED <<charge, gateway, session, refused, verifier>> PROVE ChargeType'
  BY <1>1
<1>2. CASE Plans \/ RefundStep \/ UNCHANGED vars
  BY <1>1, <1>2 DEF Plans, RefundStep, SetPlan, RefundOnline, LoseRefund, WebhookRefund,
     DecideRefund, vars
<1>3. CASE Deliver \/ Resync \/ Collects \/ Returns
  BY <1>1, <1>3 DEF Deliver, Resync, Collects, Returns, CollectCash, ReturnCash
<1>4. ASSUME NEW c \in Charges, OpenCharge(c) \/ WebhookPaid(c) \/ WebhookFailed(c) \/ Refuse(c)
      PROVE  ChargeType'
  BY <1>4 DEF OpenCharge, WebhookPaid, WebhookFailed, Refuse, SettlePaid, SettleFailed
<1>5. ASSUME NEW c \in Charges, NEW how \in {"PAID", "EXPIRED"}, Finish(c, how)
      PROVE  ChargeType'
  BY <1>5 DEF Finish
<1>6. ASSUME NEW v \in Verifiers, NEW c \in Charges, Retrieve(v, c) PROVE ChargeType'
  <2>1. c \in 0..MaxCharges /\ session[c] \in SessionStates
    BY MaxChargesAssumption DEF Charges
  <2>2. [of |-> c, remote |-> session[c]] \in [of: 0..MaxCharges, remote: SessionStates]
    BY <2>1
  <2>3. QED BY <1>6, <2>2 DEF Retrieve
<1>7. Idle \in [of: 0..MaxCharges, remote: SessionStates]
  BY MaxChargesAssumption DEF Idle
<1>8. ASSUME NEW v \in Verifiers, NEW c \in Charges, VerifyPaid(v, c) PROVE ChargeType'
  BY <1>7, <1>8 DEF VerifyPaid, SettlePaid
<1>9. ASSUME NEW v \in Verifiers, NEW c \in Charges, VerifyUnpaid(v, c) PROVE ChargeType'
  <2>1. verifier[v].remote \in SessionStates \ {"PAID"}
    BY <1>9 DEF VerifyUnpaid
  <2>2. QED BY <1>7, <1>9, <2>1 DEF VerifyUnpaid, SettleFailed
<1>10. QED
  BY <1>2, <1>3, <1>4, <1>5, <1>6, <1>8, <1>9, StepKinds DEF ChargeStep

LEMMA RefundTypeStep == RefundType /\ [Next]_vars => RefundType'
<1> SUFFICES ASSUME RefundType, [Next]_vars PROVE RefundType'
  OBVIOUS
<1> USE DEF RefundType, refundVars, cashfreeVars, RefundStates
<1>1. ASSUME UNCHANGED <<refundVars, atCashfree, lost>> PROVE RefundType'
  BY <1>1
<1>2. CASE Plans \/ Collects \/ Returns \/ Deliver \/ Resync \/ UNCHANGED vars
  BY <1>1, <1>2 DEF Plans, Collects, Returns, Deliver, Resync, SetPlan, CollectCash,
     ReturnCash, vars
<1>3. CASE ChargeStep
  BY <1>1, <1>3 DEF ChargeStep, OpenCharge, WebhookPaid, WebhookFailed, Refuse, Finish,
     Retrieve, VerifyPaid, VerifyUnpaid
<1>4. ASSUME NEW k \in Keys, NEW c \in Charges, NEW a \in 1..Bill,
             NEW st \in RefundAnswers,
             RefundOnline(k, c, a, st) \/ LoseRefund(k, c, a, st)
      PROVE  RefundType'
  <2>1. a \in Nat /\ c \in 0..MaxCharges
    BY AmountsAssumption, MaxChargesAssumption DEF Charges
  <2>2. atCashfree' \in [Keys -> [Charges -> [amount: Nat, status: RefundStates]]]
    BY <1>4, <2>1 DEF RefundOnline, LoseRefund, Asked, RefundAnswers
  <2>3. CASE RefundOnline(k, c, a, st)
    BY <2>1, <2>2, <2>3 DEF RefundOnline, RefundAnswers
  <2>4. CASE LoseRefund(k, c, a, st)
    BY <2>2, <2>4, BoundsAssumption DEF LoseRefund
  <2>5. QED BY <1>4, <2>3, <2>4
<1>5. ASSUME NEW k \in Keys, WebhookRefund(k) PROVE RefundType'
  BY <1>5 DEF WebhookRefund
<1>6. ASSUME NEW k \in Keys, NEW c \in Charges, NEW how \in {"SUCCESS", "FAILED"},
             DecideRefund(k, c, how)
      PROVE  RefundType'
  BY <1>6 DEF DecideRefund
<1>7. QED BY <1>2, <1>3, <1>4, <1>5, <1>6, StepKinds DEF RefundStep

LEMMA PlanTypeStep == PlanType /\ [Next]_vars => PlanType'
<1> SUFFICES ASSUME PlanType, [Next]_vars PROVE PlanType'
  OBVIOUS
<1>1. CASE Plans
  BY <1>1, AmountsAssumption DEF PlanType, Plans, SetPlan
<1>2. CASE ~Plans
  BY <1>2, StepKinds DEF PlanType, Collects, Returns, Deliver, Resync, CollectCash, ReturnCash,
     ChargeStep, OpenCharge, WebhookPaid, WebhookFailed, Refuse, Finish, Retrieve, VerifyPaid,
     VerifyUnpaid, RefundStep, RefundOnline, LoseRefund, WebhookRefund, DecideRefund, vars
<1>3. QED BY <1>1, <1>2

LEMMA TypeInit == Init => TypeOK
<1> SUFFICES ASSUME Init PROVE TypeOK
  OBVIOUS
<1> USE AmountsAssumption, MaxChargesAssumption, BoundsAssumption DEF Init
<1>0. delivered = FALSE /\ earned = FALSE
  BY Zenon
<1>1. PlanType
  <2>1. planned = -1
    BY Zenon
  <2>2. planned \in -1..Bill
    BY <2>1
  <2>3. QED BY <1>0, <2>2, Zenon DEF PlanType
<1>2. ChargeType
  BY DEF ChargeType, Idle, SessionStates
<1>3. RefundType
  BY DEF RefundType, NoRefund, NotAsked, RefundStates
<1>4. CashType
  <2>1. taken = 0 /\ returned = 0 /\ companyDue = 0 /\ cashRows = 0
    BY Zenon
  <2>2. taken \in Nat /\ returned \in Nat /\ companyDue \in Nat /\ cashRows \in 0..MaxCashRows
    BY <2>1
  <2>3. QED BY <1>0, <2>2, Zenon DEF CashType
<1>5. QED BY <1>1, <1>2, <1>3, <1>4, TypeParts

LEMMA TypeStep == TypeOK /\ [Next]_vars => TypeOK'
BY TypeParts, PlanTypeStep, ChargeTypeStep, RefundTypeStep, CashStep
DEF TypeOK, PlanType, ChargeType, RefundType, CashType

\* Every reachable state has its type: the company never debits a negative
\* share, and a refund names the charge it is of.
THEOREM TypeCorrect == Spec => []TypeOK
BY TypeInit, TypeStep, PTL DEF Spec

--------------------------------------------------------------------------------
(***************************************************************************)
(* Captures.                                                               *)
(***************************************************************************)

\* A verify that heard PAID heard the truth, and PAID rows are Cashfree's.
CaptureInv ==
    /\ \A c \in Charges : /\ charge[c] = "PAID" => session[c] = "PAID"
                          /\ charge[c] = "NONE" => session[c] = "NONE"
    /\ \A v \in Verifiers :
        verifier[v].remote = "PAID" => verifier[v].of \in Charges
                                       /\ session[verifier[v].of] = "PAID"

LEMMA CaptureStep ==
    ASSUME TypeOK, CaptureInv, [Next]_vars
    PROVE  /\ CaptureInv'
           /\ \A c \in Charges : /\ charge[c] = "PAID" => charge'[c] = "PAID"
                                 /\ charge'[c] = "PAID" => session[c] = "PAID"
<1> DEFINE Kept == \A c \in Charges : /\ charge[c] = "PAID" => charge'[c] = "PAID"
                                      /\ charge'[c] = "PAID" => session[c] = "PAID"
<1> SUFFICES CaptureInv' /\ Kept
  OBVIOUS
<1>0. ChargeType /\ ChargeType'
  BY TypeParts, ChargeTypeStep
<1> USE <1>0 DEF CaptureInv, ChargeType, chargeVars, cashfreeVars, Idle
<1>1. ASSUME UNCHANGED <<charge, session, verifier>> PROVE CaptureInv' /\ Kept
  BY <1>1
<1>2. CASE ~ChargeStep
  BY <1>1, <1>2, StepKinds DEF Plans, Collects, Returns, Deliver, Resync, SetPlan, CollectCash,
     ReturnCash, RefundStep, RefundOnline, LoseRefund, WebhookRefund, DecideRefund, vars
<1>3. ASSUME NEW c \in Charges, OpenCharge(c) \/ WebhookPaid(c) \/ WebhookFailed(c) \/ Refuse(c)
      PROVE  CaptureInv' /\ Kept
  <2>1. CASE OpenCharge(c)
    <3>1. charge[c] = "NONE" /\ session[c] = "NONE"
      BY <2>1 DEF OpenCharge
    <3>2. QED BY <2>1, <3>1 DEF OpenCharge
  <2>2. CASE WebhookPaid(c)
    BY <2>2 DEF WebhookPaid, SettlePaid
  <2>3. CASE WebhookFailed(c)
    BY <2>3 DEF WebhookFailed, SettleFailed
  <2>4. CASE Refuse(c)
    BY <1>1, <2>4 DEF Refuse
  <2>5. QED BY <1>3, <2>1, <2>2, <2>3, <2>4
<1>4. ASSUME NEW c \in Charges, NEW how \in {"PAID", "EXPIRED"}, Finish(c, how)
      PROVE  CaptureInv' /\ Kept
  BY <1>4 DEF Finish
<1>5. ASSUME NEW v \in Verifiers, NEW c \in Charges, Retrieve(v, c) PROVE CaptureInv' /\ Kept
  BY <1>5 DEF Retrieve
<1>6. ASSUME NEW v \in Verifiers, NEW c \in Charges, VerifyPaid(v, c) PROVE CaptureInv' /\ Kept
  BY <1>6 DEF VerifyPaid, SettlePaid
<1>7. ASSUME NEW v \in Verifiers, NEW c \in Charges, VerifyUnpaid(v, c) PROVE CaptureInv' /\ Kept
  BY <1>7 DEF VerifyUnpaid, SettleFailed
<1>8. QED
  BY <1>2, <1>3, <1>4, <1>5, <1>6, <1>7 DEF ChargeStep

LEMMA TypeAndCapture == Spec => [](TypeOK /\ CaptureInv)
<1>1. Init => TypeOK /\ CaptureInv
  BY TypeInit DEF Init, CaptureInv, Idle
<1>2. TypeOK /\ CaptureInv /\ [Next]_vars => (TypeOK /\ CaptureInv)'
  BY TypeStep, CaptureStep
<1>3. QED BY <1>1, <1>2, PTL DEF Spec

\* No failure reported late and no verify takes back a captured charge, and no
\* charge is PAID before Cashfree has the money.
THEOREM CapturesStay == Spec => CaptureIsFinal
<1> DEFINE Kept == \A c \in Charges : /\ charge[c] = "PAID" => charge'[c] = "PAID"
                                      /\ charge'[c] = "PAID" => session[c] = "PAID"
<1>1. TypeOK /\ CaptureInv /\ [Next]_vars => [Kept]_vars
  BY CaptureStep
<1>2. QED BY <1>1, TypeAndCapture, PTL DEF Spec, CaptureIsFinal

--------------------------------------------------------------------------------
(***************************************************************************)
(* The rider's side.                                                       *)
(***************************************************************************)

\* Before the plan there is no charge, and without CASH rows no cash.
RiderInv ==
    /\ planned = -1 => \A c \in Charges : charge[c] = "NONE"
    /\ cashRows = 0 => taken = 0 /\ returned = 0
    /\ EarningIsBacked /\ EarningIsPosted /\ CompanyShareIsDue

\* The arithmetic of the company's share.
LEMMA HeldBeyond ==
    ASSUME NEW t \in Nat, NEW r \in Nat, NEW m \in Nat, r = 0, t > m
    PROVE  t - r > m /\ t - r \in Int
OBVIOUS

LEMMA ShareIsPositive ==
    ASSUME NEW h \in Int, NEW m \in Nat, h > m
    PROVE  h - m > 0
OBVIOUS

LEMMA ShareFits ==
    ASSUME NEW d, NEW h, NEW t \in Nat, NEW r \in Nat, NEW m \in Nat,
           h = t - r, d = h - m
    PROVE  d + m <= t
OBVIOUS

\* What Sync makes of any state before it.
LEMMA SyncPosts ==
    ASSUME TypeOK, TypeOK', RiderInv, CaptureInv', Sync,
           delivered => delivered',
           EarningIsBacked => (earned => FullyDigital' /\ \E c \in Charges :
                                            charge'[c] = "PAID" /\ session'[c] = "PAID"),
           taken <= taken', returned' = returned,
           cashRows' = 0 => taken' = 0 /\ returned' = 0
    PROVE  EarningIsBacked' /\ EarningIsPosted' /\ CompanyShareIsDue'
<1> USE DEF RiderInv
<1>1. EarningIsBacked'
  <2>1. CASE earned
    BY <2>1 DEF EarningIsBacked, TypeOK
  <2>2. CASE ~earned
    BY <2>2, Zenon DEF EarningIsBacked, Sync, EarningReady, Verified, CaptureInv
  <2>3. QED BY <2>1, <2>2
<1>2. EarningIsPosted'
  <2> SUFFICES ASSUME delivered', FullyDigital', cashRows' = 0,
                      NEW c \in Charges, charge'[c] = "PAID", gateway'[c] = "SUCCESS",
                      \A d \in Charges \ {c} : charge'[d] # "PAID"
               PROVE  earned'
    BY DEF EarningIsPosted
  <2>1. Verified' = {c}
    BY DEF Verified
  <2>2. EarningReady'
    BY <2>1 DEF EarningReady
  <2>3. CashHeld' <= 0
    BY DEF CashHeld
  <2>4. QED BY <2>2, <2>3, Zenon DEF Sync
<1>3. CompanyShareIsDue'
  <2>1. CashHeld' = taken' - returned'
    BY DEF CashHeld
  <2>2. /\ taken \in Nat /\ taken' \in Nat /\ returned' \in Nat
        /\ companyDue \in Nat /\ companyDue' \in Nat /\ RiderAmount \in Nat \ {0}
    BY AmountsAssumption DEF TypeOK
  <2>3. companyDue > 0 => delivered' /\ companyDue + RiderAmount <= taken'
    BY <2>2 DEF CompanyShareIsDue
  <2>4. \/ /\ delivered' /\ CashHeld' > RiderAmount /\ companyDue = 0
           /\ companyDue' = CashHeld' - RiderAmount
        \/ /\ ~(delivered' /\ CashHeld' > RiderAmount /\ companyDue = 0)
           /\ companyDue' = companyDue
    BY Zenon DEF Sync
  <2>5. companyDue' > 0 => delivered' /\ companyDue' + RiderAmount <= taken'
    <3>1. CASE companyDue' = companyDue
      BY <2>3, <3>1, Zenon
    <3>2. CASE companyDue' # companyDue
      <4>1. companyDue' = CashHeld' - RiderAmount /\ delivered'
        BY <2>4, <3>2, Zenon
      <4>2. companyDue' + RiderAmount <= taken'
        <5>1. RiderAmount \in Nat
          BY AmountsAssumption
        <5>2. companyDue' = CashHeld' - RiderAmount
          BY <4>1
        <5>3. QED BY <2>1, <2>2, <5>1, <5>2, ShareFits, Zenon
      <4>3. QED BY <4>1, <4>2, Zenon
    <3>3. QED BY <3>1, <3>2
  <2>6. ASSUME delivered', returned' = 0, taken' > RiderAmount PROVE companyDue' > 0
    <3>0. RiderAmount \in Nat
      BY AmountsAssumption
    <3>1. CashHeld' > RiderAmount /\ CashHeld' \in Int
      BY <2>1, <2>2, <2>6, <3>0, HeldBeyond, Zenon
    <3>2. (companyDue = 0 /\ companyDue' = CashHeld' - RiderAmount)
          \/ (companyDue # 0 /\ companyDue' = companyDue)
      BY <2>4, <2>6, <3>1, Zenon
    <3>3. CASE companyDue = 0 /\ companyDue' = CashHeld' - RiderAmount
      BY <3>0, <3>1, <3>3, ShareIsPositive, Zenon
    <3>4. ASSUME companyDue # 0 PROVE companyDue > 0
      BY <2>2, <3>4
    <3>5. QED BY <3>2, <3>3, <3>4, Zenon
  <2>7. QED BY <2>5, <2>6 DEF CompanyShareIsDue
<1>4. QED BY <1>1, <1>2, <1>3

\* A step that neither syncs nor takes away what the postings rest on.
LEMMA RiderStays ==
    ASSUME TypeOK, RiderInv, UNCHANGED <<planned, delivered, taken, earned, companyDue>>,
           \/ UNCHANGED <<returned, cashRows>>
           \/ returned' > 0 /\ cashRows' > 0,
           planned = -1 => charge' = charge,
           \A c \in Charges :
               /\ charge[c] = "PAID" /\ session[c] = "PAID" =>
                    charge'[c] = "PAID" /\ session'[c] = "PAID"
               /\ charge'[c] = "PAID" <=> charge[c] = "PAID"
               /\ charge'[c] = "PAID" /\ gateway'[c] = "SUCCESS" => gateway[c] = "SUCCESS"
    PROVE  RiderInv'
<1>1. (planned = -1 => \A c \in Charges : charge[c] = "NONE")'
  BY DEF RiderInv
<1>2. (cashRows = 0 => taken = 0 /\ returned = 0)'
  BY DEF RiderInv
<1>3. EarningIsBacked'
  BY Zenon DEF RiderInv, EarningIsBacked, FullyDigital
<1>4. EarningIsPosted'
  <2> SUFFICES ASSUME delivered', FullyDigital', cashRows' = 0,
                      NEW c \in Charges, charge'[c] = "PAID", gateway'[c] = "SUCCESS",
                      \A d \in Charges \ {c} : charge'[d] # "PAID"
               PROVE  earned'
    BY DEF EarningIsPosted
  <2>1. UNCHANGED cashRows
    OBVIOUS
  <2>2. charge[c] = "PAID" /\ gateway[c] = "SUCCESS" /\ \A d \in Charges \ {c} : charge[d] # "PAID"
    OBVIOUS
  <2>3. delivered /\ FullyDigital /\ cashRows = 0
    BY <2>1, Zenon DEF FullyDigital
  <2>4. QED BY <2>2, <2>3, Zenon DEF RiderInv, EarningIsPosted
<1>5. CompanyShareIsDue'
  <2>1. delivered' = delivered /\ delivered \in BOOLEAN
    BY DEF TypeOK
  <2>2. returned' = 0 => returned = 0
    OBVIOUS
  <2>3. QED BY <2>1, <2>2 DEF RiderInv, CompanyShareIsDue
<1>6. QED BY <1>1, <1>2, <1>3, <1>4, <1>5 DEF RiderInv

LEMMA RiderStep == TypeOK /\ CaptureInv /\ RiderInv /\ [Next]_vars => RiderInv'
<1> SUFFICES ASSUME TypeOK, CaptureInv, RiderInv, [Next]_vars PROVE RiderInv'
  OBVIOUS
<1>1. TypeOK' /\ CaptureInv'
  BY TypeStep, CaptureStep
<1>2. /\ taken \in Nat /\ returned \in Nat /\ cashRows \in Nat /\ planned \in Int
      /\ charge \in [Charges -> {"NONE", "PENDING", "PAID", "FAILED"}]
      /\ gateway \in [Charges -> {"NONE", "ACTIVE", "PAID", "EXPIRED", "SUCCESS", "FAILED"}]
      /\ session \in [Charges -> SessionStates]
  BY AmountsAssumption, BoundsAssumption DEF TypeOK
\* Steps that sync.
<1>3. ASSUME UNCHANGED <<planned, taken, returned, cashRows, charge, gateway, session>>,
             delivered => delivered', Sync
      PROVE  RiderInv'
  <2>1. EarningIsBacked' /\ EarningIsPosted' /\ CompanyShareIsDue'
    BY <1>1, <1>2, <1>3, SyncPosts DEF RiderInv, EarningIsBacked, FullyDigital
  <2>2. QED BY <1>3, <2>1 DEF RiderInv
<1>4. CASE Deliver \/ Resync
  BY <1>3, <1>4 DEF Deliver, Resync, chargeVars, cashVars, cashfreeVars
<1>5. CASE Collects
  <2>1. PICK a \in 1..Bill : CollectCash(a)
    BY <1>5 DEF Collects
  <2>2. /\ UNCHANGED <<planned, delivered, returned, charge, gateway, session>>
        /\ taken' = taken + a /\ cashRows' = cashRows + 1 /\ Sync
    BY <2>1 DEF CollectCash, chargeVars, cashfreeVars
  <2>3. taken <= taken' /\ cashRows' # 0 /\ a \in Nat
    BY <1>2, <2>2, AmountsAssumption
  <2>4. EarningIsBacked' /\ EarningIsPosted' /\ CompanyShareIsDue'
    BY <1>1, <2>2, <2>3, SyncPosts DEF RiderInv, EarningIsBacked, FullyDigital
  <2>5. QED BY <2>2, <2>3, <2>4 DEF RiderInv
<1>6. ASSUME NEW c \in Charges, charge[c] # "NONE", SettlePaid(c), session[c] = "PAID", Sync,
             UNCHANGED <<planned, delivered, taken, returned, cashRows, session>>
      PROVE  RiderInv'
  <2>1. charge' = [charge EXCEPT ![c] = "PAID"]
    BY <1>6 DEF SettlePaid
  <2>2. EarningIsBacked => (earned => FullyDigital' /\ \E d \in Charges :
                                          charge'[d] = "PAID" /\ session'[d] = "PAID")
    <3>1. charge'[c] = "PAID" /\ session'[c] = "PAID"
      BY <1>2, <1>6, <2>1
    <3>2. QED BY <1>6, <3>1, Zenon DEF EarningIsBacked, FullyDigital
  <2>3. EarningIsBacked' /\ EarningIsPosted' /\ CompanyShareIsDue'
    BY <1>1, <1>2, <1>6, <2>2, SyncPosts DEF RiderInv
  <2>4. planned # -1
    BY <1>6 DEF RiderInv
  <2>5. QED BY <1>6, <2>3, <2>4 DEF RiderInv
<1>7. ASSUME NEW c \in Charges, WebhookPaid(c) PROVE RiderInv'
  BY <1>6, <1>7 DEF WebhookPaid, Payable, cashVars, cashfreeVars
\* Steps that do not.
<1>8. CASE Plans
  <2>1. PICK n \in 0..Bill : SetPlan(n)
    BY <1>8 DEF Plans
  <2>2. /\ planned = -1 /\ planned' = n /\ n # -1
        /\ UNCHANGED <<delivered, charge, gateway, taken, returned, cashRows, earned, companyDue, session>>
    BY <2>1 DEF SetPlan, chargeVars, cashVars, riderVars, cashfreeVars
  <2>3. ~earned /\ \A c \in Charges : charge[c] = "NONE"
    BY <2>2, AmountsAssumption DEF RiderInv, EarningIsBacked, FullyDigital
  <2>4. EarningIsBacked' /\ EarningIsPosted'
    BY <2>2, <2>3 DEF EarningIsBacked, EarningIsPosted
  <2>5. CompanyShareIsDue'
    BY <2>2, Zenon DEF CompanyShareIsDue, RiderInv
  <2>6. QED BY <2>2, <2>4, <2>5 DEF RiderInv
<1>9. CASE Returns
  <2>1. PICK a \in 1..Bill : ReturnCash(a)
    BY <1>9 DEF Returns
  <2>2. returned' > 0 /\ cashRows' > 0
    BY <1>2, <2>1, AmountsAssumption DEF ReturnCash
  <2>3. QED BY <1>2, <2>1, <2>2, RiderStays DEF ReturnCash, chargeVars, riderVars, cashfreeVars
<1>10. CASE RefundStep \/ UNCHANGED vars
  <2>1. UNCHANGED <<planned, delivered, taken, earned, companyDue, returned, cashRows,
                    charge, gateway, session>>
    BY <1>10 DEF RefundStep, RefundOnline, LoseRefund, WebhookRefund, DecideRefund, vars,
       chargeVars, cashVars, riderVars, cashfreeVars
  <2>2. QED BY <2>1, RiderStays
<1>11. ASSUME NEW c \in Charges, OpenCharge(c) PROVE RiderInv'
  <2>1. planned # -1 /\ charge[c] = "NONE"
    BY <1>11 DEF OpenCharge
  <2>2. QED
    BY <1>2, <1>11, <2>1, RiderStays DEF OpenCharge, cashVars, riderVars
<1>12. ASSUME NEW c \in Charges, WebhookFailed(c) PROVE RiderInv'
  BY <1>2, <1>12, RiderStays DEF WebhookFailed, SettleFailed, RiderInv, cashVars, riderVars,
     cashfreeVars
<1>13. ASSUME NEW c \in Charges, Refuse(c) PROVE RiderInv'
  BY <1>13, RiderStays DEF Refuse, chargeVars, cashVars, riderVars
<1>14. ASSUME NEW c \in Charges, NEW how \in {"PAID", "EXPIRED"}, Finish(c, how)
      PROVE  RiderInv'
  BY <1>2, <1>14, RiderStays DEF Finish, chargeVars, cashVars, riderVars
<1>15. ASSUME NEW v \in Verifiers, NEW c \in Charges, Retrieve(v, c) PROVE RiderInv'
  BY <1>15, RiderStays DEF Retrieve, chargeVars, cashVars, riderVars, cashfreeVars
<1>16. ASSUME NEW v \in Verifiers, NEW c \in Charges, VerifyUnpaid(v, c) PROVE RiderInv'
  <2>1. verifier[v].remote # "SUCCESS"
    BY <1>16 DEF VerifyUnpaid, TypeOK, SessionStates
  <2>2. /\ UNCHANGED <<planned, delivered, taken, returned, cashRows, earned, companyDue, session>>
        /\ \/ charge[c] = "PENDING" /\ SettleFailed(c)
           \/ UNCHANGED charge /\ gateway' = [gateway EXCEPT ![c] = verifier[v].remote]
    BY <1>16 DEF VerifyUnpaid, cashVars, riderVars, cashfreeVars
  <2>3. QED
    BY <1>2, <2>1, <2>2, RiderStays DEF SettleFailed, RiderInv
<1>17. ASSUME NEW v \in Verifiers, NEW c \in Charges, VerifyPaid(v, c) PROVE RiderInv'
  <2>1. UNCHANGED <<planned, delivered, taken, returned, cashRows, session>>
    BY <1>17 DEF VerifyPaid, cashVars, cashfreeVars
  <2>2. CASE Payable(c)
    <3>1. SettlePaid(c) /\ Sync
      BY <1>17, <2>2 DEF VerifyPaid
    <3>2. session[c] = "PAID" /\ charge[c] # "NONE"
      BY <1>17, <2>2 DEF VerifyPaid, CaptureInv, Payable
    <3>3. QED BY <1>6, <2>1, <3>1, <3>2
  <2>3. CASE ~Payable(c)
    <3>1. UNCHANGED <<charge, riderVars>> /\ gateway' = [gateway EXCEPT ![c] = "PAID"]
      BY <1>17, <2>3 DEF VerifyPaid
    <3>2. QED BY <1>2, <2>1, <3>1, RiderStays DEF riderVars
  <2>4. QED BY <2>2, <2>3
<1>18. QED
  BY <1>4, <1>5, <1>7, <1>8, <1>9, <1>10, <1>11, <1>12, <1>13, <1>14, <1>15, <1>16, <1>17,
     StepKinds DEF ChargeStep

LEMMA RiderHolds == Spec => []RiderInv
<1>1. Init => RiderInv
  <2> SUFFICES ASSUME Init PROVE RiderInv
    OBVIOUS
  <2>1. ~earned /\ ~delivered
    BY Zenon DEF Init
  <2>2. /\ taken = 0 /\ returned = 0 /\ companyDue = 0
        /\ \A c \in Charges : charge[c] = "NONE"
    BY DEF Init
  <2>3. QED
    BY <2>1, <2>2 DEF RiderInv, EarningIsBacked, EarningIsPosted, CompanyShareIsDue
<1>2. TypeOK /\ CaptureInv /\ RiderInv /\ [Next]_vars => RiderInv'
  BY RiderStep
<1>3. QED BY <1>1, <1>2, TypeAndCapture, PTL DEF Spec

\* An earning rests on a delivered trip and on money that Cashfree captured.
THEOREM EarningsAreBacked == Spec => []EarningIsBacked
BY RiderHolds, PTL DEF RiderInv

\* Delivery, webhook, verify and resync may come in any order: once the trip is
\* delivered and paid online, and the SUCCESS not overwritten, it has its earning.
THEOREM EarningsArePosted == Spec => []EarningIsPosted
BY RiderHolds, PTL DEF RiderInv

\* The company's share is debited as soon as it is due, and never beyond the cash.
THEOREM CompanyGetsItsShare == Spec => []CompanyShareIsDue
BY RiderHolds, PTL DEF RiderInv

--------------------------------------------------------------------------------
(***************************************************************************)
(* Gateway refunds.  The row alone is not inductive: that Cashfree knows   *)
(* the refund by the same key, charge and amount is what a webhook needs.  *)
(***************************************************************************)

Known(k) ==
    /\ refund[k].status # "NONE" =>
        /\ refund[k].of \in Charges
        /\ atCashfree[k][refund[k].of].amount = refund[k].amount
        /\ atCashfree[k][refund[k].of].status # "NONE"
    /\ refund[k].status \in {"SUCCESS", "FAILED"} =>
        atCashfree[k][refund[k].of].status = refund[k].status
    /\ refundRows[k] = IF refund[k].status = "SUCCESS" THEN 1 ELSE 0

RefundInv == \A k \in Keys : Known(k)

LEMMA RefundStepKeepsIt ==
    ASSUME RefundType, RefundType', RefundInv, RefundStep
    PROVE  RefundInv'
<1> USE DEF RefundInv, RefundType
<1>0. \A j \in Keys : UNCHANGED <<atCashfree[j], refund[j], refundRows[j]>> => Known(j)'
  BY DEF Known
<1>1. ASSUME NEW k \in Keys, NEW c \in Charges, NEW a \in 1..Bill, NEW st \in RefundAnswers,
             RefundOnline(k, c, a, st)
      PROVE  RefundInv'
  <2>1. atCashfree'[k][c] = [amount |-> a, status |-> st]
    BY <1>1 DEF RefundOnline, Asked
  <2>2. \A j \in Keys \ {k} : UNCHANGED <<atCashfree[j], refund[j], refundRows[j]>>
    BY <1>1 DEF RefundOnline, Asked
  <2>3. /\ refund'[k] = [of |-> c, amount |-> a, status |-> st]
        /\ refundRows'[k] = IF st = "SUCCESS" THEN 1 ELSE 0
    BY <1>1 DEF RefundOnline, MayRefund, Known
  <2>4. Known(k)'
    BY <2>1, <2>3 DEF Known
  <2>5. QED BY <1>0, <2>2, <2>4
<1>2. ASSUME NEW k \in Keys, NEW c \in Charges, NEW a \in 1..Bill, NEW st \in RefundAnswers,
             LoseRefund(k, c, a, st)
      PROVE  RefundInv'
  <2>1. UNCHANGED <<refund, refundRows>> /\ refund[k].status = "NONE"
    BY <1>2 DEF LoseRefund, refundVars, MayRefund
  <2>2. \A j \in Keys \ {k} : UNCHANGED atCashfree[j]
    BY <1>2 DEF LoseRefund, Asked
  <2>3. Known(k)'
    BY <2>1 DEF Known
  <2>4. QED BY <1>0, <2>1, <2>2, <2>3
<1>3. ASSUME NEW k \in Keys, WebhookRefund(k) PROVE RefundInv'
  <2>1. \A j \in Keys \ {k} : UNCHANGED <<atCashfree[j], refund[j], refundRows[j]>>
    BY <1>3 DEF WebhookRefund, cashfreeVars
  <2> DEFINE told == atCashfree[k][refund[k].of].status
  <2>2. /\ refund[k].status = "PENDING" /\ told \in {"SUCCESS", "FAILED"}
        /\ UNCHANGED atCashfree /\ refundRows[k] = 0 /\ refund[k].of \in Charges
        /\ refundRows'[k] = IF told = "SUCCESS" THEN 1 ELSE 0
        /\ refund'[k].of = refund[k].of /\ refund'[k].amount = refund[k].amount
        /\ refund'[k].status = told
        /\ atCashfree[k][refund[k].of].amount = refund[k].amount
    BY <1>3 DEF WebhookRefund, cashfreeVars, Known
  <2>3. Known(k)'
    BY <2>2 DEF Known
  <2>4. QED BY <1>0, <2>1, <2>3
<1>4. ASSUME NEW k \in Keys, NEW c \in Charges, NEW how \in {"SUCCESS", "FAILED"},
             DecideRefund(k, c, how)
      PROVE  RefundInv'
  <2>1. UNCHANGED <<refund, refundRows>> /\ atCashfree[k][c].status = "PENDING"
    BY <1>4 DEF DecideRefund, refundVars
  <2>2. atCashfree' = [atCashfree EXCEPT ![k][c] = [amount |-> @.amount, status |-> how]]
    BY <1>4 DEF DecideRefund
  <2>3. \A j \in Keys \ {k} : UNCHANGED <<atCashfree[j], refund[j], refundRows[j]>>
    BY <2>1, <2>2
  <2>5. UNCHANGED <<refund[k], refundRows[k]>> /\ Known(k)
    BY <2>1
  <2>6. ASSUME refund[k].of = c PROVE Known(k)'
    <3>1. refund[k].status \notin {"SUCCESS", "FAILED"}
      BY <2>1, <2>5, <2>6 DEF Known
    <3>2. /\ atCashfree'[k][c].amount = atCashfree[k][c].amount
          /\ atCashfree'[k][c].status = how
      BY <2>2
    <3>3. QED BY <2>5, <2>6, <3>1, <3>2 DEF Known
  <2>7. ASSUME refund[k].of # c PROVE Known(k)'
    <3>1. refund[k].of \in Charges =>
            atCashfree'[k][refund[k].of] = atCashfree[k][refund[k].of]
      BY <2>2, <2>7
    <3>2. QED BY <2>5, <3>1 DEF Known, RefundStates
  <2>8. QED BY <1>0, <2>3, <2>6, <2>7
<1>5. QED BY <1>1, <1>2, <1>3, <1>4 DEF RefundStep

LEMMA RefundInvStep == TypeOK /\ RefundInv /\ [Next]_vars => RefundInv'
<1> SUFFICES ASSUME TypeOK, RefundInv, [Next]_vars PROVE RefundInv'
  OBVIOUS
<1>1. CASE RefundStep
  <2>1. RefundType /\ RefundType'
    BY TypeParts, RefundTypeStep
  <2>2. QED BY <1>1, <2>1, RefundStepKeepsIt
<1>2. CASE ~RefundStep
  <2>1. UNCHANGED <<refund, refundRows, atCashfree>>
    BY <1>2, StepKinds DEF Plans, Collects, Returns, SetPlan, CollectCash, ReturnCash, Deliver,
       Resync, ChargeStep, OpenCharge, WebhookPaid, WebhookFailed, Refuse, Finish, Retrieve,
       VerifyPaid, VerifyUnpaid, refundVars, cashfreeVars, vars
  <2>2. QED BY <2>1 DEF RefundInv, Known
<1>3. QED BY <1>1, <1>2

\* A REFUND row is written once, for a refund that Cashfree did make: neither a
\* webhook that repeats the answer nor one that corrects it adds another.
THEOREM RefundsHaveTheirRow == Spec => []RefundHasItsRow
<1>1. Init => RefundInv
  BY DEF Init, RefundInv, Known, NoRefund
<1>2. TypeOK /\ RefundInv /\ [Next]_vars => RefundInv'
  BY RefundInvStep
<1>3. TypeOK /\ RefundInv => RefundHasItsRow
  BY DEF TypeOK, RefundInv, Known, RefundHasItsRow
<1>4. QED BY <1>1, <1>2, <1>3, TypeCorrect, PTL DEF Spec

--------------------------------------------------------------------------------
(***************************************************************************)
(* How much of a charge is refunded.  A bound on the sum is inductive with *)
(* what a key is before its refund, and with no charge before the plan:    *)
(* what is refundable is measured by the plan.                             *)
(***************************************************************************)
Fits(c) == Total(RefundAmount, RefundsOf(c)) <= (IF charge[c] = "PAID" THEN planned ELSE 0)

FitInv ==
    /\ \A c \in Charges : Fits(c)
    /\ planned = -1 => \A c \in Charges : charge[c] = "NONE"
    /\ \A k \in Keys : refund[k].status = "NONE" => refund[k].of = 0

LEMMA RefundSums ==
    ASSUME RefundType
    PROVE  /\ \A k \in Keys : RefundAmount[k] = refund[k].amount /\ RefundAmount[k] \in Nat
           /\ \A c \in Charges : /\ RefundsOf(c) \subseteq Keys /\ IsFiniteSet(RefundsOf(c))
                                 /\ Total(RefundAmount, RefundsOf(c)) \in Int
<1>1. \A k \in Keys : RefundAmount[k] = refund[k].amount /\ RefundAmount[k] \in Nat
  BY DEF RefundType, RefundAmount
<1>2. ASSUME NEW c \in Charges
      PROVE  /\ RefundsOf(c) \subseteq Keys /\ IsFiniteSet(RefundsOf(c))
             /\ Total(RefundAmount, RefundsOf(c)) \in Int
  <2>1. RefundsOf(c) \in SUBSET Keys
    BY DEF RefundsOf
  <2>2. IsFiniteSet(RefundsOf(c))
    BY <2>1, KeysAssumption, FS_Subset
  <2>3. \A k \in Keys : RefundAmount[k] \in Int
    BY <1>1
  <2>4. Total(RefundAmount, RefundsOf(c)) \in Int
    BY <2>1, <2>3, KeysAssumption, TotalInt
  <2>5. QED BY <2>1, <2>2, <2>4
<1>3. QED BY <1>1, <1>2

\* A refund is added to the charge that was selected for it, unless it failed.
LEMMA RefundFits ==
    ASSUME RefundType, RefundType', PlanType, FitInv,
           NEW k \in Keys, NEW c \in Charges, NEW a \in 1..Bill, NEW st \in RefundAnswers,
           RefundOnline(k, c, a, st)
    PROVE  \A d \in Charges : Fits(d)'
<1>1. /\ refund[k].of = 0 /\ k \notin RefundsOf(c)
      /\ a <= Refundable(c) /\ charge[c] = "PAID"
  BY MaxChargesAssumption DEF RefundOnline, MayRefund, Selected, Fitting, FitInv, RefundsOf, Charges
<1>2. /\ refund'[k] = [of |-> c, amount |-> a, status |-> st]
      /\ \A j \in Keys \ {k} : refund'[j] = refund[j]
      /\ UNCHANGED <<planned, charge>>
  BY DEF RefundOnline, RefundType, chargeVars
<1>3. /\ \A j \in Keys : RefundAmount[j] = refund[j].amount
      /\ \A j \in Keys : RefundAmount'[j] = refund'[j].amount
      /\ \A j \in Keys : RefundAmount[j] \in Int /\ RefundAmount'[j] \in Int
  BY RefundSums DEF RefundType, RefundAmount
<1>4. RefundAmount'[k] = a /\ \A j \in Keys \ {k} : RefundAmount[j] = RefundAmount'[j]
  BY <1>2, <1>3
<1>5. ASSUME NEW S \in SUBSET Keys, k \notin S
      PROVE  Total(RefundAmount, S) = Total(RefundAmount', S) /\ Total(RefundAmount, S) \in Int
  <2>1. IsFiniteSet(S)
    BY KeysAssumption, FS_Subset
  <2>2. \A j \in S : RefundAmount[j] = RefundAmount'[j] /\ RefundAmount[j] \in Int
    BY <1>3, <1>4, <1>5
  <2>3. Total(RefundAmount, S) = Total(RefundAmount', S)
    BY <2>1, <2>2, TotalSame
  <2>4. Total(RefundAmount, S) \in Int
    BY <2>1, <2>2, TotalInt
  <2>5. QED BY <2>3, <2>4
<1>6. Fits(c)'
  <2> DEFINE S == RefundsOf(c)
  <2>1. /\ S \in SUBSET Keys /\ k \notin S
        /\ RefundsOf(c)' = IF st = "FAILED" THEN S ELSE S \union {k}
    BY <1>1, <1>2 DEF RefundsOf
  <2>2. Total(RefundAmount', S \union {k}) = a + Total(RefundAmount', (S \union {k}) \ {k})
    <3>1. S \union {k} \in SUBSET Keys /\ k \in S \union {k}
      BY <2>1
    <3>2. IsFiniteSet(S \union {k})
      BY <3>1, KeysAssumption, FS_Subset
    <3>3. \A j \in S \union {k} : RefundAmount'[j] \in Int
      BY <1>3, <3>1
    <3>4. QED BY <1>4, <3>1, <3>2, <3>3, TotalTake
  <2>3. (S \union {k}) \ {k} = S
    BY <2>1
  <2>4. a <= planned - Total(RefundAmount, S)
    BY <1>1 DEF Refundable
  <2> HIDE DEF S
  <2>5. Total(RefundAmount, S) = Total(RefundAmount', S) /\ Total(RefundAmount, S) \in Int
    BY <1>5, <2>1
  <2>6. a \in Int /\ planned \in Int
    BY AmountsAssumption DEF PlanType
  <2>7. Total(RefundAmount', S \union {k}) <= planned
    BY <2>2, <2>3, <2>4, <2>5, <2>6
  <2>8. Total(RefundAmount', S) <= planned
    BY <2>4, <2>5, <2>6, AmountsAssumption
  <2>9. QED BY <1>1, <1>2, <2>1, <2>7, <2>8 DEF Fits
<1>7. ASSUME NEW d \in Charges, d # c PROVE Fits(d)'
  <2>1. /\ RefundsOf(d) \in SUBSET Keys /\ k \notin RefundsOf(d)
        /\ RefundsOf(d)' = RefundsOf(d)
    BY <1>1, <1>2, <1>7, MaxChargesAssumption DEF RefundsOf, Charges
  <2>2. Total(RefundAmount, RefundsOf(d)) = Total(RefundAmount', RefundsOf(d))
    BY <1>5, <2>1
  <2>3. Fits(d)
    BY DEF FitInv
  <2>4. QED BY <1>2, <2>1, <2>2, <2>3 DEF Fits
<1>8. QED BY <1>6, <1>7

\* A webhook takes a failed refund from its charge, and adds none.
LEMMA WebhookFits ==
    ASSUME RefundType, RefundType', PlanType, FitInv, NEW k \in Keys, WebhookRefund(k)
    PROVE  \A d \in Charges : Fits(d)'
<1> SUFFICES ASSUME NEW d \in Charges PROVE Fits(d)'
  OBVIOUS
<1>1. /\ refund[k].status = "PENDING"
      /\ refund'[k].of = refund[k].of /\ refund'[k].amount = refund[k].amount
      /\ refund'[k].status \in {"SUCCESS", "FAILED"}
      /\ \A j \in Keys \ {k} : refund'[j] = refund[j]
      /\ UNCHANGED <<planned, charge>>
  BY DEF WebhookRefund, RefundType, chargeVars
<1>2. RefundAmount' = RefundAmount
  BY <1>1 DEF RefundAmount
<1> DEFINE S == RefundsOf(d)
<1>3. S \in SUBSET Keys /\ IsFiniteSet(S) /\ Total(RefundAmount, S) \in Int
      /\ \A j \in Keys : RefundAmount[j] \in Nat
  BY RefundSums
<1>4. Fits(d)
  BY DEF FitInv
<1>5. CASE RefundsOf(d)' = S
  BY <1>1, <1>2, <1>4, <1>5 DEF Fits
<1>6. CASE k \in S /\ RefundsOf(d)' = S \ {k}
  <2> HIDE DEF S
  <2>1. \A j \in S : RefundAmount[j] \in Int
    BY <1>3
  <2>2. Total(RefundAmount, S) = RefundAmount[k] + Total(RefundAmount, S \ {k})
    BY <1>3, <1>6, <2>1, TotalTake
  <2>3. Total(RefundAmount, S \ {k}) \in Int
    BY <1>3, <2>1, TotalInt
  <2>4. Total(RefundAmount, S \ {k}) <= Total(RefundAmount, S)
    BY <1>3, <2>2, <2>3
  <2>5. Total(RefundAmount, S) <= (IF charge[d] = "PAID" THEN planned ELSE 0)
    BY <1>4 DEF Fits, S
  <2>6. planned \in Int
    BY AmountsAssumption DEF PlanType
  <2>7. Total(RefundAmount, S \ {k}) <= (IF charge[d] = "PAID" THEN planned ELSE 0)
    BY <1>3, <2>3, <2>4, <2>5, <2>6
  <2>8. QED BY <1>1, <1>2, <1>6, <2>7 DEF Fits
<1>7. RefundsOf(d)' = S \/ (k \in S /\ RefundsOf(d)' = S \ {k})
  BY <1>1 DEF RefundsOf
<1>8. QED BY <1>5, <1>6, <1>7

LEMMA FitStep ==
    TypeOK /\ CaptureInv /\ FitInv /\ [Next]_vars => FitInv'
<1> SUFFICES ASSUME TypeOK, CaptureInv, FitInv, [Next]_vars PROVE FitInv'
  OBVIOUS
<1>1. PlanType /\ ChargeType /\ RefundType /\ RefundType'
  BY TypeParts, RefundTypeStep
<1>2. \A c \in Charges : /\ charge[c] = "PAID" => charge'[c] = "PAID"
                         /\ charge'[c] = "PAID" => charge[c] # "NONE"
  BY CaptureStep DEF CaptureInv
<1>3. CASE RefundStep
  <2>1. UNCHANGED <<planned, charge>>
    BY <1>3 DEF RefundStep, RefundOnline, LoseRefund, WebhookRefund, DecideRefund, chargeVars
  <2>2. \A k \in Keys : refund'[k].status = "NONE" => refund'[k].of = 0
    <3>1. \A k \in Keys : refund[k].status = "NONE" => refund[k].of = 0
      BY <1>1 DEF FitInv
    <3>2. ASSUME NEW k \in Keys, NEW c \in Charges, NEW a \in 1..Bill, NEW st \in RefundAnswers,
                 RefundOnline(k, c, a, st)
          PROVE  \A j \in Keys : refund'[j].status = "NONE" => refund'[j].of = 0
      <4>1. refund' = [refund EXCEPT ![k] = [of |-> c, amount |-> a, status |-> st]]
        BY <3>2 DEF RefundOnline
      <4>2. st # "NONE"
        BY <3>2 DEF RefundAnswers
      <4>3. QED BY <1>1, <3>1, <4>1, <4>2 DEF RefundType
    <3>3. ASSUME NEW k \in Keys, WebhookRefund(k)
          PROVE  \A j \in Keys : refund'[j].status = "NONE" => refund'[j].of = 0
      BY <1>1, <3>1, <3>3 DEF WebhookRefund, RefundType
    <3>4. QED BY <1>3, <3>1, <3>2, <3>3 DEF RefundStep, LoseRefund, DecideRefund, refundVars
  <2>3. CASE UNCHANGED refund
    <3>1. RefundAmount' = RefundAmount /\ \A c \in Charges : RefundsOf(c)' = RefundsOf(c)
      BY <2>3 DEF RefundAmount, RefundsOf
    <3>2. QED BY <2>1, <2>2, <3>1 DEF FitInv, Fits
  <2>4. CASE \E k \in Keys, c \in Charges, a \in 1..Bill, st \in RefundAnswers :
               RefundOnline(k, c, a, st)
    BY <1>1, <2>1, <2>2, <2>4, RefundFits DEF FitInv
  <2>5. CASE \E k \in Keys : WebhookRefund(k)
    BY <1>1, <2>1, <2>2, <2>5, WebhookFits DEF FitInv
  <2>6. QED BY <1>3, <2>3, <2>4, <2>5 DEF RefundStep, LoseRefund, DecideRefund, refundVars
<1>4. CASE ~RefundStep
  <2>1. UNCHANGED refund
    BY <1>4, StepKinds DEF Plans, Collects, Returns, SetPlan, CollectCash, ReturnCash, Deliver,
       Resync, ChargeStep, OpenCharge, WebhookPaid, WebhookFailed, Refuse, Finish, Retrieve,
       VerifyPaid, VerifyUnpaid, refundVars, vars
  <2>2. RefundAmount' = RefundAmount /\ \A c \in Charges : RefundsOf(c)' = RefundsOf(c)
    BY <2>1 DEF RefundAmount, RefundsOf
  <2>3. \/ planned = -1 /\ planned' \in 0..Bill /\ UNCHANGED charge
        \/ UNCHANGED planned /\ \/ planned # -1
                                \/ \A c \in Charges : charge[c] = "NONE" => charge'[c] = "NONE"
    <3>1. CASE Plans
      BY <3>1 DEF Plans, SetPlan, chargeVars
    <3>2. CASE \E c \in Charges : OpenCharge(c)
      BY <3>2 DEF OpenCharge
    <3>3. CASE UNCHANGED <<planned, charge>>
      BY <3>3
    <3>4. CASE \E c \in Charges : WebhookPaid(c) \/ WebhookFailed(c)
      BY <1>1, <3>4 DEF WebhookPaid, WebhookFailed, Payable, SettlePaid, SettleFailed, ChargeType
    <3>5. CASE \E v \in Verifiers, c \in Charges : VerifyPaid(v, c) \/ VerifyUnpaid(v, c)
      BY <1>1, <3>5 DEF VerifyPaid, VerifyUnpaid, Payable, SettlePaid, SettleFailed, ChargeType
    <3>6. QED
      BY <1>4, <3>1, <3>2, <3>3, <3>4, <3>5, StepKinds DEF Collects, Returns, CollectCash,
         ReturnCash, Deliver, Resync, ChargeStep, Refuse, Finish, Retrieve, chargeVars, vars
  <2>4. \A k \in Keys : refund'[k].status = "NONE" => refund'[k].of = 0
    BY <2>1 DEF FitInv
  <2>5. planned' = -1 => \A c \in Charges : charge'[c] = "NONE"
    BY <2>3 DEF FitInv
  <2>6. ASSUME NEW c \in Charges PROVE Fits(c)'
    <3> DEFINE T == Total(RefundAmount, RefundsOf(c))
    <3>1. T <= (IF charge[c] = "PAID" THEN planned ELSE 0) /\ T \in Int
      BY <1>1, RefundSums DEF FitInv, Fits
    <3>2. planned \in -1..Bill /\ Bill \in Nat
      BY <1>1, AmountsAssumption DEF PlanType
    <3>3. charge[c] # "NONE" => planned # -1 /\ planned' = planned
      BY <2>3 DEF FitInv
    <3> HIDE DEF T
    <3>4. T <= (IF charge'[c] = "PAID" THEN planned' ELSE 0)
      BY <1>2, <3>1, <3>2, <3>3
    <3>5. QED BY <2>2, <3>4 DEF Fits, T
  <2>7. QED BY <2>4, <2>5, <2>6 DEF FitInv
<1>5. QED BY <1>3, <1>4

\* However often a refund is asked for again, and in whatever order Cashfree's
\* answers come, the refunds of a charge that have not failed stay within what
\* it captured, for any number of charges and refunds.
THEOREM RefundsFitTheirCharge == Spec => []RefundsFitCharge
<1>1. Init => FitInv
  <2> SUFFICES ASSUME Init PROVE FitInv
    OBVIOUS
  <2>1. ASSUME NEW c \in Charges PROVE Fits(c)
    <3>1. RefundsOf(c) = {}
      BY MaxChargesAssumption DEF Init, NoRefund, RefundsOf, Charges
    <3>2. Total(RefundAmount, {}) = 0
      BY FS_EmptySet, TotalStep
    <3>3. charge[c] # "PAID"
      BY DEF Init
    <3>4. QED BY <3>1, <3>2, <3>3 DEF Fits
  <2>2. \A c \in Charges : charge[c] = "NONE"
    BY DEF Init
  <2>3. \A k \in Keys : refund[k].of = 0
    BY DEF Init, NoRefund
  <2>4. QED BY <2>1, <2>2, <2>3 DEF FitInv
<1>2. FitInv => RefundsFitCharge
  BY DEF FitInv, Fits, RefundsFitCharge
<1>3. QED BY <1>1, <1>2, FitStep, TypeAndCapture, PTL DEF Spec


--------------------------------------------------------------------------------
(***************************************************************************)
(* WalletAccounts.  WalletInv below is inductive: each property needs the  *)
(* agreement of the two accounts with their ledgers, and that what was not *)
(* delivered or not paid has no row yet.                                   *)
(***************************************************************************)
LEMMA RowsAreFinite == IsFiniteSet(WalletRows) /\ IsFiniteSet(CodRows)
<1>0. \A a, b, c : IsFiniteSet({a, b, c})
  <2> SUFFICES ASSUME NEW a, NEW b, NEW c PROVE IsFiniteSet({a, b, c})
    OBVIOUS
  <2>1. IsFiniteSet({a}) /\ IsFiniteSet({b}) /\ IsFiniteSet({c})
    BY FS_Singleton
  <2>2. IsFiniteSet({a} \union {b})
    BY <2>1, FS_Union
  <2>3. IsFiniteSet(({a} \union {b}) \union {c})
    BY <2>1, <2>2, FS_Union
  <2>4. {a, b, c} = ({a} \union {b}) \union {c}
    OBVIOUS
  <2>5. QED BY <2>3, <2>4
<1>1. /\ IsFiniteSet({"EARNING", "COMPANY_SHARE", "COMPANY_SHARE reversal"})
      /\ IsFiniteSet({"PAYOUT", "ADJUSTMENT", "ADJUSTMENT reversal"})
      /\ IsFiniteSet({"RECHARGE"}) /\ IsFiniteSet({"DIGITAL_EARNING_SETTLEMENT"})
      /\ IsFiniteSet({"RECHARGE_SETTLEMENT"}) /\ IsFiniteSet({<<"CASH_COMPANY_SHARE", "legacy">>})
  BY <1>0, FS_Singleton
<1>2. IsFiniteSet(TopUps \union Settlements)
  BY RowsAssumption, FS_Union
<1>3. IsFiniteSet({"EARNING", "COMPANY_SHARE", "COMPANY_SHARE reversal"} \X Orders)
  BY <1>1, RowsAssumption, FS_Product
<1>4. IsFiniteSet({"PAYOUT", "ADJUSTMENT", "ADJUSTMENT reversal"} \X Withdrawals)
  BY <1>1, RowsAssumption, FS_Product
<1>5. IsFiniteSet({"RECHARGE"} \X TopUps) /\ IsFiniteSet({"DIGITAL_EARNING_SETTLEMENT"} \X Orders)
  BY <1>1, RowsAssumption, FS_Product
<1>6. IsFiniteSet({"RECHARGE_SETTLEMENT"} \X (TopUps \union Settlements))
  BY <1>1, <1>2, FS_Product
<1>7. IsFiniteSet(WalletRows)
  BY <1>3, <1>4, <1>5, FS_Union DEF WalletRows
<1>8. IsFiniteSet(CodRows)
  BY <1>1, <1>5, <1>6, FS_Union DEF CodRows
<1>9. QED BY <1>7, <1>8

\* A row written anew changes the sum of its ledger by what it changed.
LEMMA RowChanges ==
    ASSUME NEW Rows, IsFiniteSet(Rows), NEW l \in [Rows -> Int], NEW m \in [Rows -> Int],
           NEW e \in Rows, \A y \in Rows \ {e} : l[y] = m[y]
    PROVE  /\ Total(l, Rows) \in Int
           /\ Total(m, Rows) = Total(l, Rows) + m[e] - l[e]
<1>1. \A y \in Rows : l[y] \in Int /\ m[y] \in Int
  OBVIOUS
<1>2. Total(l, Rows) \in Int
  BY <1>1, TotalInt
<1>3. Total(m, Rows) = Total(l, Rows) + m[e] - l[e]
  BY <1>1, TotalChange
<1>4. QED BY <1>2, <1>3

\* Where the rows of each kind are.
LEMMA RowsOfWallet ==
    /\ \A o \in Orders : /\ <<"EARNING", o>> \in WalletRows
                         /\ <<"COMPANY_SHARE", o>> \in WalletRows
                         /\ <<"COMPANY_SHARE reversal", o>> \in WalletRows
    /\ \A t \in TopUps : <<"RECHARGE", t>> \in WalletRows
    /\ \A w \in Withdrawals : /\ <<"PAYOUT", w>> \in WalletRows
                              /\ <<"ADJUSTMENT", w>> \in WalletRows
                              /\ <<"ADJUSTMENT reversal", w>> \in WalletRows
BY DEF WalletRows

LEMMA RowsOfCod ==
    /\ \A o \in Orders : <<"DIGITAL_EARNING_SETTLEMENT", o>> \in CodRows
    /\ \A t \in TopUps \union Settlements : <<"RECHARGE_SETTLEMENT", t>> \in CodRows
BY DEF CodRows

LEMMA PairParts ==
    ASSUME NEW S, NEW T, NEW e, e \in S \X T
    PROVE  e = <<e[1], e[2]>> /\ e[1] \in S /\ e[2] \in T
OBVIOUS

\* The rows a cleanup may reverse, and where the reversal goes.
LEMMA RowsToClean ==
    ASSUME NEW e \in WalletRows, Cleanable(e)
    PROVE  \/ \E o \in Orders : /\ e = <<"COMPANY_SHARE", o>>
                                /\ ReversalOf(e) = <<"COMPANY_SHARE reversal", o>>
           \/ \E w \in Withdrawals : /\ e = <<"ADJUSTMENT", w>>
                                     /\ ReversalOf(e) = <<"ADJUSTMENT reversal", w>>
<1> DEFINE T == {"EARNING", "COMPANY_SHARE", "COMPANY_SHARE reversal"}
           P == {"PAYOUT", "ADJUSTMENT", "ADJUSTMENT reversal"}
<1>1. e[1] \in {"COMPANY_SHARE", "ADJUSTMENT"}
  BY DEF Cleanable
<1>2. CASE e \in T \X Orders
  <2>1. e = <<e[1], e[2]>> /\ e[1] \in T /\ e[2] \in Orders
    BY <1>2, PairParts, Zenon
  <2>2. e[1] = "COMPANY_SHARE"
    BY <1>1, <2>1
  <2>3. e = <<"COMPANY_SHARE", e[2]>>
    BY <2>1, <2>2
  <2>4. QED BY <2>1, <2>2, <2>3 DEF ReversalOf
<1>3. CASE e \in {"RECHARGE"} \X TopUps
  BY <1>1, <1>3
<1>4. CASE e \in P \X Withdrawals
  <2>1. e = <<e[1], e[2]>> /\ e[1] \in P /\ e[2] \in Withdrawals
    BY <1>4, PairParts, Zenon
  <2>2. e[1] = "ADJUSTMENT"
    BY <1>1, <2>1
  <2>3. e = <<"ADJUSTMENT", e[2]>>
    BY <2>1, <2>2
  <2>4. QED BY <2>1, <2>2, <2>3 DEF ReversalOf
<1>5. QED BY <1>2, <1>3, <1>4 DEF WalletRows

\* The rows that give an amount back, and the one that took it.
GivingBack == {"ADJUSTMENT", "ADJUSTMENT reversal", "COMPANY_SHARE reversal"}

TakenBy(e) ==
    IF e[1] = "ADJUSTMENT" THEN <<"PAYOUT", e[2]>>
    ELSE IF e[1] = "ADJUSTMENT reversal" THEN <<"ADJUSTMENT", e[2]>>
    ELSE <<"COMPANY_SHARE", e[2]>>

LEMMA TakenByParts ==
    /\ \A w : TakenBy(<<"ADJUSTMENT", w>>) = <<"PAYOUT", w>>
    /\ \A w : TakenBy(<<"ADJUSTMENT reversal", w>>) = <<"ADJUSTMENT", w>>
    /\ \A o : TakenBy(<<"COMPANY_SHARE reversal", o>>) = <<"COMPANY_SHARE", o>>
BY DEF TakenBy

LEMMA TakenByCleaned ==
    ASSUME NEW e \in WalletRows, Cleanable(e)
    PROVE  TakenBy(ReversalOf(e)) = e
BY RowsToClean, TakenByParts, Zenon

LEMMA FirstOfPair == \A s, x : <<s, x>>[1] = s
OBVIOUS

LEMMA TakenByIsARow ==
    ASSUME NEW e \in WalletRows, e[1] \in GivingBack
    PROVE  TakenBy(e) \in WalletRows /\ TakenBy(e) # e
<1> DEFINE T == {"EARNING", "COMPANY_SHARE", "COMPANY_SHARE reversal"}
           P == {"PAYOUT", "ADJUSTMENT", "ADJUSTMENT reversal"}
<1>1. CASE e \in T \X Orders
  <2>1. e = <<e[1], e[2]>> /\ e[1] \in T /\ e[2] \in Orders
    BY <1>1, PairParts, Zenon
  <2>2. e[1] = "COMPANY_SHARE reversal"
    BY <2>1 DEF GivingBack
  <2>3. TakenBy(e) = <<"COMPANY_SHARE", e[2]>>
    BY <2>2 DEF TakenBy
  <2>4. TakenBy(e)[1] # e[1]
    <3>1. TakenBy(e)[1] = "COMPANY_SHARE"
      BY <2>3, FirstOfPair, Zenon
    <3>2. QED BY <2>2, <3>1
  <2>5. QED BY <2>1, <2>3, <2>4, RowsOfWallet
<1>2. CASE e \in {"RECHARGE"} \X TopUps
  BY <1>2 DEF GivingBack
<1>3. CASE e \in P \X Withdrawals
  <2>1. e = <<e[1], e[2]>> /\ e[1] \in P /\ e[2] \in Withdrawals
    BY <1>3, PairParts, Zenon
  <2>2. CASE e[1] = "ADJUSTMENT"
    <3>1. TakenBy(e) = <<"PAYOUT", e[2]>>
      BY <2>2 DEF TakenBy
    <3>2. TakenBy(e)[1] # e[1]
      <4>1. TakenBy(e)[1] = "PAYOUT"
        BY <3>1, FirstOfPair, Zenon
      <4>2. QED BY <2>2, <4>1
    <3>3. QED BY <2>1, <3>1, <3>2, RowsOfWallet
  <2>3. CASE e[1] = "ADJUSTMENT reversal"
    <3>1. TakenBy(e) = <<"ADJUSTMENT", e[2]>>
      BY <2>3 DEF TakenBy
    <3>2. TakenBy(e)[1] # e[1]
      <4>1. TakenBy(e)[1] = "ADJUSTMENT"
        BY <3>1, FirstOfPair, Zenon
      <4>2. QED BY <2>3, <4>1
    <3>3. QED BY <2>1, <3>1, <3>2, RowsOfWallet
  <2>4. QED BY <2>1, <2>2, <2>3 DEF GivingBack
<1>4. QED BY <1>1, <1>2, <1>3 DEF WalletRows

LEMMA ReversalRow ==
    ASSUME NEW e \in WalletRows, Cleanable(e)
    PROVE  /\ ReversalOf(e) \in WalletRows
           /\ ReversalOf(e)[1] \in {"COMPANY_SHARE reversal", "ADJUSTMENT reversal"}
           /\ ReversalOf(e)[1] \notin {"EARNING", "RECHARGE"}
<1>1. CASE \E o \in Orders : ReversalOf(e) = <<"COMPANY_SHARE reversal", o>>
  <2>1. PICK o \in Orders : ReversalOf(e) = <<"COMPANY_SHARE reversal", o>>
    BY <1>1
  <2>2. ReversalOf(e) \in WalletRows
    BY <2>1, RowsOfWallet, Zenon
  <2>3. ReversalOf(e)[1] = "COMPANY_SHARE reversal"
    <3>1. <<"COMPANY_SHARE reversal", o>>[1] = "COMPANY_SHARE reversal"
      OBVIOUS
    <3>2. QED BY <2>1, <3>1, Zenon
  <2>4. QED BY <2>2, <2>3
<1>2. CASE \E w \in Withdrawals : ReversalOf(e) = <<"ADJUSTMENT reversal", w>>
  <2>1. PICK w \in Withdrawals : ReversalOf(e) = <<"ADJUSTMENT reversal", w>>
    BY <1>2
  <2>2. ReversalOf(e) \in WalletRows
    BY <2>1, RowsOfWallet, Zenon
  <2>3. ReversalOf(e)[1] = "ADJUSTMENT reversal"
    <3>1. <<"ADJUSTMENT reversal", w>>[1] = "ADJUSTMENT reversal"
      OBVIOUS
    <3>2. QED BY <2>1, <3>1, Zenon
  <2>4. QED BY <2>2, <2>3
<1>3. QED BY <1>1, <1>2, RowsToClean, Zenon

LEMMA StatusIsOne == \A b, d : StatusFor(b, d) \in Statuses
BY Zenon DEF StatusFor, Statuses

--------------------------------------------------------------------------------
LedgerType ==
    /\ wallet \in [WalletRows -> Int]
    /\ cod \in [CodRows -> Int]
    /\ balance \in Int /\ due \in Nat

\* What applyInflow does, in numbers.
Settled(amount) == IF amount <= due THEN amount ELSE due
Rest(amount) == amount - Settled(amount)

LEMMA InflowSplits ==
    ASSUME LedgerType, NEW amount \in Nat, NEW r \in WalletRows, NEW q \in CodRows,
           SettleThenCredit(amount, r, q)
    PROVE  /\ Settled(amount) \in Nat /\ Rest(amount) \in Nat
           /\ Settled(amount) + Rest(amount) = amount
           /\ due' = due - Settled(amount) /\ due' \in Nat
           /\ balance' = balance + Rest(amount) /\ balance' \in Int
           /\ wallet' \in [WalletRows -> Int] /\ cod' \in [CodRows -> Int]
           /\ wallet'[r] = wallet[r] + Rest(amount)
           /\ cod'[q] = cod[q] - Settled(amount)
           /\ \A e \in WalletRows \ {r} : wallet'[e] = wallet[e]
           /\ \A e \in CodRows \ {q} : cod'[e] = cod[e]
<1>1. /\ Settled(amount) \in Nat /\ Rest(amount) \in Nat
      /\ Settled(amount) + Rest(amount) = amount
      /\ due - Settled(amount) \in Nat
  BY DEF LedgerType, Settled, Rest
<1>2. /\ due' = due - Settled(amount)
      /\ balance' = balance + Rest(amount)
      /\ wallet' = [wallet EXCEPT ![r] = @ + Rest(amount)]
      /\ cod' = [cod EXCEPT ![q] = @ - Settled(amount)]
  BY Zenon DEF SettleThenCredit, Settled, Rest
<1>3. due' \in Nat /\ balance' \in Int
  BY <1>1, <1>2 DEF LedgerType
<1>4. /\ wallet' \in [WalletRows -> Int]
      /\ wallet'[r] = wallet[r] + Rest(amount)
      /\ \A e \in WalletRows \ {r} : wallet'[e] = wallet[e]
  BY <1>1, <1>2 DEF LedgerType
<1>5. /\ cod' \in [CodRows -> Int]
      /\ cod'[q] = cod[q] - Settled(amount)
      /\ \A e \in CodRows \ {q} : cod'[e] = cod[e]
  BY <1>1, <1>2 DEF LedgerType
<1>6. QED BY <1>1, <1>2, <1>3, <1>4, <1>5

\* What comes in leaves both accounts in agreement with their ledgers if they
\* were, so the test at the end of applyInflow rolls nothing back.
THEOREM InflowAgrees ==
    ASSUME LedgerType, NEW amount \in Nat, NEW r \in WalletRows, NEW q \in CodRows,
           SettleThenCredit(amount, r, q)
    PROVE  /\ LedgerType'
           /\ AccountsMatchLedgers => AccountsMatchLedgers'
<1> DEFINE a == Rest(amount)
           s == Settled(amount)
<1>1. /\ s \in Nat /\ a \in Nat
      /\ due' = due - s /\ due' \in Nat /\ balance' = balance + a /\ balance' \in Int
      /\ wallet' \in [WalletRows -> Int] /\ cod' \in [CodRows -> Int]
      /\ wallet'[r] = wallet[r] + a /\ cod'[q] = cod[q] - s
      /\ \A e \in WalletRows \ {r} : wallet'[e] = wallet[e]
      /\ \A e \in CodRows \ {q} : cod'[e] = cod[e]
  BY InflowSplits
<1> HIDE DEF a, s
<1>2. wallet \in [WalletRows -> Int] /\ cod \in [CodRows -> Int] /\ balance \in Int /\ due \in Nat
  BY DEF LedgerType
<1>3. wallet[r] \in Int /\ cod[q] \in Int
  BY <1>2
<1>4. /\ Total(wallet, WalletRows) \in Int
      /\ Total(wallet', WalletRows) = Total(wallet, WalletRows) + wallet'[r] - wallet[r]
  BY <1>1, <1>2, RowsAreFinite, RowChanges
<1>5. /\ Total(cod, CodRows) \in Int
      /\ Total(cod', CodRows) = Total(cod, CodRows) + cod'[q] - cod[q]
  <2>1. \A e \in CodRows \ {q} : cod[e] = cod'[e]
    BY <1>1
  <2>2. cod \in [CodRows -> Int] /\ cod' \in [CodRows -> Int] /\ q \in CodRows
    BY <1>1, <1>2
  <2>3. IsFiniteSet(CodRows)
    BY RowsAreFinite
  <2>4. QED BY <2>1, <2>2, <2>3, RowChanges, Zenon
<1>6. LedgerType'
  BY <1>1 DEF LedgerType
<1>7. ASSUME AccountsMatchLedgers PROVE AccountsMatchLedgers'
  <2>1. balance = Total(wallet, WalletRows) /\ due = Total(cod, CodRows)
    BY <1>7 DEF AccountsMatchLedgers, WalletNet, CodNet
  <2>2. balance' = Total(wallet', WalletRows) /\ due' = Total(cod', CodRows)
    BY <1>1, <1>3, <1>4, <1>5, <2>1
  <2>3. QED BY <2>2 DEF AccountsMatchLedgers, WalletNet, CodNet
<1>8. QED BY <1>6, <1>7

\* The other postings: one row that was not there, and the balance moves with it.
LEMMA OneRowAgrees ==
    ASSUME LedgerType, NEW e \in WalletRows, NEW v \in Int, wallet[e] = 0,
           wallet' \in [WalletRows -> Int], wallet'[e] = v,
           \A y \in WalletRows \ {e} : wallet[y] = wallet'[y],
           balance' = balance + v, UNCHANGED <<cod, due>>
    PROVE  /\ LedgerType'
           /\ AccountsMatchLedgers => AccountsMatchLedgers'
<1>1. /\ wallet \in [WalletRows -> Int] /\ cod \in [CodRows -> Int]
      /\ balance \in Int /\ due \in Nat
  BY DEF LedgerType
<1>2. /\ Total(wallet, WalletRows) \in Int
      /\ Total(wallet', WalletRows) = Total(wallet, WalletRows) + wallet'[e] - wallet[e]
  BY <1>1, RowsAreFinite, RowChanges
<1>3. LedgerType'
  BY <1>1 DEF LedgerType
<1>4. ASSUME AccountsMatchLedgers PROVE AccountsMatchLedgers'
  <2>1. balance = Total(wallet, WalletRows) /\ due = Total(cod, CodRows)
    BY <1>4 DEF AccountsMatchLedgers, WalletNet, CodNet
  <2>2. balance' = Total(wallet', WalletRows) /\ due' = Total(cod', CodRows)
    BY <1>1, <1>2, <2>1
  <2>3. QED BY <2>2 DEF AccountsMatchLedgers, WalletNet, CodNet
<1>5. QED BY <1>3, <1>4

LEMMA WalletPostingAgrees ==
    ASSUME LedgerType, NEW e \in WalletRows, NEW v \in Int, wallet[e] = 0,
           wallet' = [wallet EXCEPT ![e] = v], balance' = balance + v, UNCHANGED <<cod, due>>
    PROVE  /\ LedgerType'
           /\ wallet'[e] = v /\ \A y \in WalletRows \ {e} : wallet'[y] = wallet[y]
           /\ AccountsMatchLedgers => AccountsMatchLedgers'
<1>1. /\ wallet' \in [WalletRows -> Int] /\ wallet'[e] = v
      /\ \A y \in WalletRows \ {e} : wallet'[y] = wallet[y]
      /\ \A y \in WalletRows \ {e} : wallet[y] = wallet'[y]
  BY DEF LedgerType
<1>2. LedgerType' /\ (AccountsMatchLedgers => AccountsMatchLedgers')
  BY <1>1, OneRowAgrees
<1>3. QED BY <1>1, <1>2

--------------------------------------------------------------------------------
\* Nothing came in of a trip that is not delivered or a top-up that is not paid.
NothingEarly ==
    /\ \A t \in TopUps : topUp[t].status # "PAID" =>
        wallet[<<"RECHARGE", t>>] = 0 /\ cod[<<"RECHARGE_SETTLEMENT", t>>] = 0
    /\ \A o \in Orders : trip[o] # "DELIVERED" =>
        wallet[<<"EARNING", o>>] = 0 /\ cod[<<"DIGITAL_EARNING_SETTLEMENT", o>>] = 0

\* What the company takes and what is paid out lowers the balance.
DebitsLower ==
    /\ \A o \in Orders : wallet[<<"COMPANY_SHARE", o>>] <= 0
    /\ \A w \in Withdrawals : wallet[<<"PAYOUT", w>>] <= 0

\* A cleanup at work is about a row that can be cleaned, and no row is taken back.
CleanupsAreSound ==
    \A c \in Cleaners : cleaner[c] # NoCleanup =>
        cleaner[c].row \in WalletRows /\ Cleanable(cleaner[c].row)

WalletInv ==
    /\ AccountsTypeOK /\ AccountsMatchLedgers
    /\ NothingEarly /\ InflowIsWhole
    /\ DebitsLower /\ CleanupsAreSound
    /\ ClearIsTrue

\* The ledgers, by the steps that post.
LEMMA LedgerStep == WalletInv /\ [AccountsNext]_walletVars => LedgerType' /\ AccountsMatchLedgers'
<1> SUFFICES ASSUME WalletInv, [AccountsNext]_walletVars
             PROVE  LedgerType' /\ AccountsMatchLedgers'
  OBVIOUS
<1>1. AccountsTypeOK /\ LedgerType /\ AccountsMatchLedgers /\ CleanupsAreSound
  BY DEF WalletInv, AccountsTypeOK, LedgerType
<1> DEFINE Good == LedgerType' /\ AccountsMatchLedgers'
<1>2. \A a \in Amounts : a \in Nat /\ a > 0
  BY LimitsAssumption DEF Amounts
<1>3. ASSUME UNCHANGED <<ledgers, accounts>> PROVE Good
  BY <1>1, <1>3 DEF ledgers, accounts, LedgerType, AccountsMatchLedgers, WalletNet, CodNet
<1>4. ASSUME NEW o \in Orders, NEW amount \in Nat, Earn(o, amount) PROVE Good
  <2>1. CASE EarningPosted(o)
    BY <1>3, <1>4, <2>1 DEF Earn
  <2>2. CASE ~EarningPosted(o)
    <3>1. <<"EARNING", o>> \in WalletRows /\ <<"DIGITAL_EARNING_SETTLEMENT", o>> \in CodRows
      BY RowsOfWallet, RowsOfCod
    <3>2. SettleThenCredit(amount, <<"EARNING", o>>, <<"DIGITAL_EARNING_SETTLEMENT", o>>)
      BY <1>4, <2>2 DEF Earn, Inflow
    <3>3. QED BY <1>1, <3>1, <3>2, InflowAgrees
  <2>3. QED BY <2>1, <2>2
<1>5. ASSUME NEW o \in Orders, NEW share \in Amounts, ShareCash(o, share) PROVE Good
  <2>1. CASE wallet[<<"COMPANY_SHARE", o>>] # 0
    BY <1>3, <1>5, <2>1 DEF ShareCash, ledgers, accounts
  <2>2. CASE wallet[<<"COMPANY_SHARE", o>>] = 0
    <3>0. <<"COMPANY_SHARE", o>> \in WalletRows
      BY RowsOfWallet, Zenon
    <3>1. -share \in Int
      BY <1>2
    <3>2. /\ wallet' = [wallet EXCEPT ![<<"COMPANY_SHARE", o>>] = -share]
          /\ balance' = balance - share /\ UNCHANGED <<cod, due>>
      BY <1>5, <2>2 DEF ShareCash
    <3>3. balance' = balance + (-share)
      BY <1>1, <1>2, <3>2 DEF LedgerType
    <3>4. QED BY <1>1, <2>2, <3>0, <3>1, <3>2, <3>3, WalletPostingAgrees, Zenon
  <2>3. QED BY <2>1, <2>2
<1>6. ASSUME NEW o \in Orders, NEW a \in Amounts, DeliverTrip(o, a) PROVE Good
  BY <1>2, <1>3, <1>4, <1>5, <1>6 DEF DeliverTrip
<1>7. ASSUME NEW o \in Orders, PostAgain(o) PROVE Good
  <2>1. fare[o] \in Nat
    BY <1>1, LimitsAssumption DEF AccountsTypeOK
  <2>2. QED BY <1>4, <1>5, <1>7, <2>1 DEF PostAgain
<1>8. ASSUME NEW t \in TopUps, TopUpPaid(t) PROVE Good
  <2>1. CASE UNCHANGED <<ledgers, accounts>>
    BY <1>3, <2>1
  <2>2. CASE Inflow(topUp[t].amount, <<"RECHARGE", t>>, <<"RECHARGE_SETTLEMENT", t>>)
    <3>1. <<"RECHARGE", t>> \in WalletRows /\ <<"RECHARGE_SETTLEMENT", t>> \in CodRows
      BY RowsOfWallet, RowsOfCod
    <3>2. topUp[t].amount \in Nat
      BY <1>1, LimitsAssumption DEF AccountsTypeOK
    <3>3. SettleThenCredit(topUp[t].amount, <<"RECHARGE", t>>, <<"RECHARGE_SETTLEMENT", t>>)
      BY <2>2 DEF Inflow
    <3>4. QED BY <1>1, <3>1, <3>2, <3>3, InflowAgrees
  <2>3. QED BY <1>8, <2>1, <2>2 DEF TopUpPaid
<1>9. ASSUME NEW k \in Settlements, NEW a \in Amounts, Settle(k, a) PROVE Good
  <2>1. due' \in Nat /\ wallet' \in [WalletRows -> Int] /\ balance' \in Int
    BY <1>1, <1>2, <1>9 DEF Settle, LedgerType
  <2>2. cod' \in [CodRows -> Int]
    BY <1>1, <1>2, <1>9, RowsOfCod DEF Settle, LedgerType
  <2>3. WalletNet' = WalletNet
    BY <1>9 DEF Settle, WalletNet
  <2>4. QED BY <1>9, <2>1, <2>2, <2>3 DEF Settle, LedgerType, AccountsMatchLedgers
<1>10. ASSUME NEW w \in Withdrawals, NEW a \in Amounts, Withdraw(w, a) PROVE Good
  <2>0. <<"PAYOUT", w>> \in WalletRows
    BY RowsOfWallet, Zenon
  <2>1. -a \in Int
    BY <1>2
  <2>2. balance' = balance + (-a)
    BY <1>1, <1>2, <1>10 DEF Withdraw, LedgerType
  <2>3. QED BY <1>1, <1>10, <2>0, <2>1, <2>2, WalletPostingAgrees DEF Withdraw
<1>11. ASSUME NEW w \in Withdrawals, Refund(w) PROVE Good
  <2>1. <<"PAYOUT", w>> \in WalletRows /\ <<"ADJUSTMENT", w>> \in WalletRows
    BY RowsOfWallet
  <2>2. wallet[<<"PAYOUT", w>>] \in Int
    BY <1>1, <2>1 DEF LedgerType
  <2>3. balance' = balance + (-wallet[<<"PAYOUT", w>>])
    BY <1>1, <1>11, <2>2 DEF Refund, LedgerType
  <2>4. -wallet[<<"PAYOUT", w>>] \in Int
    BY <2>2
  <2>5. /\ wallet[<<"ADJUSTMENT", w>>] = 0 /\ UNCHANGED <<cod, due>>
        /\ wallet' = [wallet EXCEPT ![<<"ADJUSTMENT", w>>] = -wallet[<<"PAYOUT", w>>]]
    BY <1>11 DEF Refund
  <2>6. QED BY <1>1, <2>1, <2>3, <2>4, <2>5, WalletPostingAgrees, Zenon
<1>12. ASSUME NEW c \in Cleaners, CleanupReverse(c) PROVE Good
  <2> DEFINE e == cleaner[c].row
  <2>1. e \in WalletRows /\ ReversalOf(e) \in WalletRows
    BY <1>1, <1>12, RowsToClean, RowsOfWallet DEF CleanupsAreSound, CleanupReverse
  <2> HIDE DEF e
  <2>2. wallet' = [wallet EXCEPT ![ReversalOf(e)] = @ - wallet[e]] /\ UNCHANGED <<cod, due>>
    BY <1>12 DEF CleanupReverse, e
  <2>3. wallet' \in [WalletRows -> Int]
    BY <1>1, <2>1, <2>2 DEF LedgerType
  <2>4. Total(wallet', WalletRows) \in Int
    BY <2>3, RowsAreFinite, TotalInt
  <2>5. balance' = WalletNet' /\ WalletNet' = Total(wallet', WalletRows) /\ CodNet' = CodNet
    BY <1>12, <2>2 DEF CleanupReverse, Recompute, WalletNet, CodNet
  <2>6. QED BY <1>1, <2>2, <2>3, <2>4, <2>5 DEF LedgerType, AccountsMatchLedgers
<1>13. CASE UNCHANGED walletVars
  BY <1>3, <1>13 DEF walletVars
<1>14. CASE Look \/ \E o \in Orders : Accept(o)
  BY <1>3, <1>14 DEF Look, Accept
<1>15. CASE \E t \in TopUps : TopUpFailed(t) \/ \E a \in Amounts : BeginTopUp(t, a)
  BY <1>3, <1>15 DEF TopUpFailed, BeginTopUp
<1>16. CASE \E c \in Cleaners : CleanupRefuse(c) \/ \E e \in WalletRows : CleanupLook(c, e)
  BY <1>3, <1>16 DEF CleanupRefuse, CleanupLook
<1>17. QED BY <1>6, <1>7, <1>8, <1>9, <1>10, <1>11, <1>12, <1>13, <1>14, <1>15, <1>16 DEF AccountsNext

--------------------------------------------------------------------------------
(***************************************************************************)
(* The rows of what came in.                                               *)
(***************************************************************************)
TripRowsKept(o) ==
    /\ wallet'[<<"EARNING", o>>] = wallet[<<"EARNING", o>>]
    /\ cod'[<<"DIGITAL_EARNING_SETTLEMENT", o>>] = cod[<<"DIGITAL_EARNING_SETTLEMENT", o>>]

TopUpRowsKept(t) ==
    /\ wallet'[<<"RECHARGE", t>>] = wallet[<<"RECHARGE", t>>]
    /\ cod'[<<"RECHARGE_SETTLEMENT", t>>] = cod[<<"RECHARGE_SETTLEMENT", t>>]

RowsKept == (\A o \in Orders : TripRowsKept(o)) /\ (\A t \in TopUps : TopUpRowsKept(t))

\* A row of another kind is none of them.
LEMMA OtherRows ==
    ASSUME NEW e \in WalletRows, e[1] \notin {"EARNING", "RECHARGE"},
           \A y \in WalletRows \ {e} : wallet'[y] = wallet[y], cod' = cod
    PROVE  RowsKept
<1>1. ASSUME NEW o \in Orders PROVE TripRowsKept(o)
  <2>1. <<"EARNING", o>>[1] = "EARNING"
    OBVIOUS
  <2>2. <<"EARNING", o>> # e
    BY <2>1, Zenon
  <2>3. <<"EARNING", o>> \in WalletRows
    BY RowsOfWallet
  <2>4. QED BY <2>2, <2>3 DEF TripRowsKept
<1>2. ASSUME NEW t \in TopUps PROVE TopUpRowsKept(t)
  <2>1. <<"RECHARGE", t>>[1] = "RECHARGE"
    OBVIOUS
  <2>2. <<"RECHARGE", t>> # e
    BY <2>1, Zenon
  <2>3. <<"RECHARGE", t>> \in WalletRows
    BY RowsOfWallet
  <2>4. QED BY <2>2, <2>3 DEF TopUpRowsKept
<1>3. QED BY <1>1, <1>2 DEF RowsKept

\* An earning is posted once, and the whole of it.
LEMMA EarnsOnce ==
    ASSUME LedgerType, NEW o \in Orders, NEW amount \in Nat, Earn(o, amount)
    PROVE  /\ \A t \in TopUps : TopUpRowsKept(t)
           /\ \A p \in Orders \ {o} : TripRowsKept(p)
           /\ IF EarningPosted(o) THEN TripRowsKept(o)
              ELSE wallet'[<<"EARNING", o>>] - cod'[<<"DIGITAL_EARNING_SETTLEMENT", o>>] = amount
<1> DEFINE r == <<"EARNING", o>>
           q == <<"DIGITAL_EARNING_SETTLEMENT", o>>
<1>1. CASE EarningPosted(o)
  BY <1>1 DEF Earn, ledgers, TopUpRowsKept, TripRowsKept
<1>2. CASE ~EarningPosted(o)
  <2>1. r \in WalletRows /\ q \in CodRows
    BY RowsOfWallet, RowsOfCod
  <2>2. wallet[r] = 0 /\ cod[q] = 0
    BY <1>2 DEF EarningPosted
  <2>3. SettleThenCredit(amount, r, q)
    BY <1>2 DEF Earn, Inflow
  <2>4. /\ Settled(amount) \in Nat /\ Rest(amount) \in Nat
        /\ Settled(amount) + Rest(amount) = amount
        /\ wallet'[r] = wallet[r] + Rest(amount) /\ cod'[q] = cod[q] - Settled(amount)
        /\ \A e \in WalletRows \ {r} : wallet'[e] = wallet[e]
        /\ \A e \in CodRows \ {q} : cod'[e] = cod[e]
    BY <2>1, <2>3, InflowSplits
  <2>5. ASSUME NEW t \in TopUps PROVE TopUpRowsKept(t)
    <3>1. <<"RECHARGE", t>> \in WalletRows \ {r} /\ <<"RECHARGE_SETTLEMENT", t>> \in CodRows \ {q}
      BY RowsOfWallet, RowsOfCod
    <3>2. QED BY <2>4, <3>1 DEF TopUpRowsKept
  <2>6. ASSUME NEW p \in Orders \ {o} PROVE TripRowsKept(p)
    <3>1. /\ <<"EARNING", p>> \in WalletRows \ {r}
          /\ <<"DIGITAL_EARNING_SETTLEMENT", p>> \in CodRows \ {q}
      BY RowsOfWallet, RowsOfCod
    <3>2. QED BY <2>4, <3>1 DEF TripRowsKept
  <2>7. wallet'[r] - cod'[q] = amount
    BY <2>2, <2>4
  <2>8. QED BY <1>2, <2>5, <2>6, <2>7
<1>3. QED BY <1>1, <1>2

\* So is a top-up.
LEMMA TopsUpOnce ==
    ASSUME LedgerType, NEW t \in TopUps, NEW amount \in Nat,
           wallet[<<"RECHARGE", t>>] = 0, cod[<<"RECHARGE_SETTLEMENT", t>>] = 0,
           Inflow(amount, <<"RECHARGE", t>>, <<"RECHARGE_SETTLEMENT", t>>)
    PROVE  /\ \A o \in Orders : TripRowsKept(o)
           /\ \A u \in TopUps \ {t} : TopUpRowsKept(u)
           /\ wallet'[<<"RECHARGE", t>>] - cod'[<<"RECHARGE_SETTLEMENT", t>>] = amount
<1> DEFINE r == <<"RECHARGE", t>>
           q == <<"RECHARGE_SETTLEMENT", t>>
<1>1. r \in WalletRows /\ q \in CodRows
  BY RowsOfWallet, RowsOfCod
<1>2. SettleThenCredit(amount, r, q)
  BY DEF Inflow
<1>3. /\ Settled(amount) \in Nat /\ Rest(amount) \in Nat
      /\ Settled(amount) + Rest(amount) = amount
      /\ wallet'[r] = wallet[r] + Rest(amount) /\ cod'[q] = cod[q] - Settled(amount)
      /\ \A e \in WalletRows \ {r} : wallet'[e] = wallet[e]
      /\ \A e \in CodRows \ {q} : cod'[e] = cod[e]
  BY <1>1, <1>2, InflowSplits
<1>4. ASSUME NEW o \in Orders PROVE TripRowsKept(o)
  <2>1. /\ <<"EARNING", o>> \in WalletRows \ {r}
        /\ <<"DIGITAL_EARNING_SETTLEMENT", o>> \in CodRows \ {q}
    BY RowsOfWallet, RowsOfCod
  <2>2. QED BY <1>3, <2>1 DEF TripRowsKept
<1>5. ASSUME NEW u \in TopUps \ {t} PROVE TopUpRowsKept(u)
  <2>1. <<"RECHARGE", u>> \in WalletRows \ {r} /\ <<"RECHARGE_SETTLEMENT", u>> \in CodRows \ {q}
    BY RowsOfWallet, RowsOfCod
  <2>2. QED BY <1>3, <2>1 DEF TopUpRowsKept
<1>6. wallet'[r] - cod'[q] = amount
  BY <1>3
<1>7. QED BY <1>4, <1>5, <1>6

\* What one trip and one top-up have on the two ledgers.
TripIsWhole(o) ==
    /\ wallet[<<"EARNING", o>>] - cod[<<"DIGITAL_EARNING_SETTLEMENT", o>>] \in {0, fare[o]}
    /\ trip[o] # "DELIVERED" =>
        wallet[<<"EARNING", o>>] = 0 /\ cod[<<"DIGITAL_EARNING_SETTLEMENT", o>>] = 0

TopUpIsWhole(t) ==
    /\ wallet[<<"RECHARGE", t>>] - cod[<<"RECHARGE_SETTLEMENT", t>>]
         = IF topUp[t].status = "PAID" THEN topUp[t].amount ELSE 0
    /\ topUp[t].status # "PAID" =>
        wallet[<<"RECHARGE", t>>] = 0 /\ cod[<<"RECHARGE_SETTLEMENT", t>>] = 0

LEMMA WholeParts ==
    NothingEarly /\ InflowIsWhole
        <=> (\A o \in Orders : TripIsWhole(o)) /\ (\A t \in TopUps : TopUpIsWhole(t))
BY Zenon DEF NothingEarly, InflowIsWhole, TripIsWhole, TopUpIsWhole

LEMMA TripStays ==
    ASSUME NEW o \in Orders, TripIsWhole(o), TripRowsKept(o), fare'[o] = fare[o], trip'[o] = trip[o]
    PROVE  TripIsWhole(o)'
BY DEF TripIsWhole, TripRowsKept

LEMMA TopUpStays ==
    ASSUME NEW t \in TopUps, TopUpIsWhole(t), TopUpRowsKept(t), topUp'[t] = topUp[t]
    PROVE  TopUpIsWhole(t)'
BY DEF TopUpIsWhole, TopUpRowsKept

LEMMA InflowStep ==
    WalletInv /\ [AccountsNext]_walletVars => NothingEarly' /\ InflowIsWhole'
<1> SUFFICES ASSUME WalletInv, [AccountsNext]_walletVars
             PROVE  /\ \A o \in Orders : TripIsWhole(o)'
                    /\ \A t \in TopUps : TopUpIsWhole(t)'
  BY Zenon DEF NothingEarly, InflowIsWhole, TripIsWhole, TopUpIsWhole
<1>1. /\ LedgerType /\ AccountsTypeOK
      /\ \A o \in Orders : TripIsWhole(o)
      /\ \A t \in TopUps : TopUpIsWhole(t)
  BY WholeParts DEF WalletInv, AccountsTypeOK, LedgerType
<1> DEFINE Good == /\ \A o \in Orders : TripIsWhole(o)'
                   /\ \A t \in TopUps : TopUpIsWhole(t)'
<1>2. \A a \in Amounts : a \in Nat /\ a > 0
  BY LimitsAssumption DEF Amounts
<1>3. ASSUME RowsKept, UNCHANGED <<trip, fare, topUp>> PROVE Good
  BY <1>1, <1>3, TripStays, TopUpStays DEF RowsKept
<1>4. ASSUME UNCHANGED ledgers PROVE RowsKept
  BY <1>4 DEF ledgers, RowsKept, TripRowsKept, TopUpRowsKept
<1>5. ASSUME NEW o \in Orders, NEW share \in Amounts, ShareCash(o, share) PROVE RowsKept
  <2>1. CASE wallet[<<"COMPANY_SHARE", o>>] # 0
    BY <1>4, <1>5, <2>1 DEF ShareCash, ledgers
  <2>2. CASE wallet[<<"COMPANY_SHARE", o>>] = 0
    <3>1. <<"COMPANY_SHARE", o>> \in WalletRows /\ <<"COMPANY_SHARE", o>>[1] = "COMPANY_SHARE"
      BY RowsOfWallet
    <3>2. wallet' = [wallet EXCEPT ![<<"COMPANY_SHARE", o>>] = -share] /\ cod' = cod
      BY <1>5, <2>2 DEF ShareCash
    <3>3. \A y \in WalletRows \ {<<"COMPANY_SHARE", o>>} : wallet'[y] = wallet[y]
      BY <1>1, <3>2 DEF LedgerType
    <3>4. QED BY <3>1, <3>2, <3>3, OtherRows
  <2>3. QED BY <2>1, <2>2
<1>6. ASSUME NEW o \in Orders, NEW a \in Amounts, DeliverTrip(o, a) PROVE Good
  <2>1. /\ trip[o] = "CARRIED" /\ trip'[o] = "DELIVERED" /\ fare'[o] = a /\ topUp' = topUp
        /\ \A p \in Orders \ {o} : trip'[p] = trip[p] /\ fare'[p] = fare[p]
    BY <1>1, <1>6 DEF DeliverTrip, AccountsTypeOK
  <2>2. wallet[<<"EARNING", o>>] = 0 /\ cod[<<"DIGITAL_EARNING_SETTLEMENT", o>>] = 0
    BY <1>1, <2>1 DEF TripIsWhole
  <2>3. CASE RowsKept
    <3>1. TripIsWhole(o)'
      BY <2>1, <2>2, <2>3 DEF TripIsWhole, RowsKept, TripRowsKept
    <3>2. \A p \in Orders \ {o} : TripIsWhole(p)'
      BY <1>1, <2>1, <2>3, TripStays DEF RowsKept
    <3>3. \A t \in TopUps : TopUpIsWhole(t)'
      BY <1>1, <2>1, <2>3, TopUpStays DEF RowsKept
    <3>4. QED BY <3>1, <3>2, <3>3
  <2>4. CASE Earn(o, a)
    <3>1. /\ \A t \in TopUps : TopUpRowsKept(t)
          /\ \A p \in Orders \ {o} : TripRowsKept(p)
          /\ IF EarningPosted(o) THEN TripRowsKept(o)
             ELSE wallet'[<<"EARNING", o>>] - cod'[<<"DIGITAL_EARNING_SETTLEMENT", o>>] = a
      BY <1>1, <1>2, <2>4, EarnsOnce
    <3>2. ~EarningPosted(o)
      BY <2>2 DEF EarningPosted
    <3>3. TripIsWhole(o)'
      BY <2>1, <3>1, <3>2 DEF TripIsWhole
    <3>4. \A p \in Orders \ {o} : TripIsWhole(p)'
      BY <1>1, <2>1, <3>1, TripStays
    <3>5. \A t \in TopUps : TopUpIsWhole(t)'
      BY <1>1, <2>1, <3>1, TopUpStays
    <3>6. QED BY <3>3, <3>4, <3>5
  <2>5. QED BY <1>4, <1>5, <1>6, <2>3, <2>4 DEF DeliverTrip
<1>7. ASSUME NEW o \in Orders, PostAgain(o) PROVE Good
  <2>1. trip[o] = "DELIVERED" /\ UNCHANGED <<trip, fare, topUp>>
    BY <1>7 DEF PostAgain
  <2>2. CASE Earn(o, fare[o])
    <3>1. fare[o] \in Nat
      BY <1>1, LimitsAssumption DEF AccountsTypeOK
    <3>2. /\ \A t \in TopUps : TopUpRowsKept(t)
          /\ \A p \in Orders \ {o} : TripRowsKept(p)
          /\ IF EarningPosted(o) THEN TripRowsKept(o)
             ELSE wallet'[<<"EARNING", o>>] - cod'[<<"DIGITAL_EARNING_SETTLEMENT", o>>] = fare[o]
      BY <1>1, <2>2, <3>1, EarnsOnce
    <3>3. TripIsWhole(o)'
      <4>1. CASE EarningPosted(o)
        BY <1>1, <2>1, <3>2, <4>1, TripStays
      <4>2. CASE ~EarningPosted(o)
        BY <2>1, <3>2, <4>2 DEF TripIsWhole
      <4>3. QED BY <4>1, <4>2
    <3>4. \A p \in Orders \ {o} : TripIsWhole(p)'
      BY <1>1, <2>1, <3>2, TripStays
    <3>5. \A t \in TopUps : TopUpIsWhole(t)'
      BY <1>1, <2>1, <3>2, TopUpStays
    <3>6. QED BY <3>3, <3>4, <3>5
  <2>3. QED BY <1>3, <1>5, <1>7, <2>1, <2>2 DEF PostAgain
<1>8. ASSUME NEW t \in TopUps, TopUpPaid(t) PROVE Good
  <2>1. /\ topUp[t].status # "PAID" /\ UNCHANGED <<trip, fare>>
        /\ topUp'[t].status = "PAID" /\ topUp'[t].amount = topUp[t].amount
        /\ \A u \in TopUps \ {t} : topUp'[u] = topUp[u]
    BY <1>1, <1>8 DEF TopUpPaid, AccountsTypeOK
  <2>2. wallet[<<"RECHARGE", t>>] = 0 /\ cod[<<"RECHARGE_SETTLEMENT", t>>] = 0
    BY <1>1, <2>1 DEF TopUpIsWhole
  <2>3. Inflow(topUp[t].amount, <<"RECHARGE", t>>, <<"RECHARGE_SETTLEMENT", t>>)
    BY <1>8, <2>2 DEF TopUpPaid
  <2>4. topUp[t].amount \in Nat
    BY <1>1, LimitsAssumption DEF AccountsTypeOK
  <2>5. /\ \A o \in Orders : TripRowsKept(o)
        /\ \A u \in TopUps \ {t} : TopUpRowsKept(u)
        /\ wallet'[<<"RECHARGE", t>>] - cod'[<<"RECHARGE_SETTLEMENT", t>>] = topUp[t].amount
    BY <1>1, <2>2, <2>3, <2>4, TopsUpOnce
  <2>6. TopUpIsWhole(t)'
    BY <2>1, <2>5 DEF TopUpIsWhole
  <2>7. \A u \in TopUps \ {t} : TopUpIsWhole(u)'
    BY <1>1, <2>1, <2>5, TopUpStays
  <2>8. \A o \in Orders : TripIsWhole(o)'
    BY <1>1, <2>1, <2>5, TripStays
  <2>9. QED BY <2>6, <2>7, <2>8
<1>9. ASSUME NEW t \in TopUps, TopUpFailed(t) \/ \E a \in Amounts : BeginTopUp(t, a) PROVE Good
  <2>1. /\ topUp[t].status # "PAID" /\ topUp'[t].status # "PAID"
        /\ UNCHANGED <<ledgers, trip, fare>>
        /\ \A u \in TopUps \ {t} : topUp'[u] = topUp[u]
    BY <1>1, <1>9 DEF TopUpFailed, BeginTopUp, AccountsTypeOK
  <2>2. TopUpIsWhole(t)'
    BY <1>1, <2>1 DEF TopUpIsWhole, ledgers
  <2>3. \A u \in TopUps \ {t} : TopUpIsWhole(u)'
    BY <1>1, <1>4, <2>1, TopUpStays DEF RowsKept
  <2>4. \A o \in Orders : TripIsWhole(o)'
    BY <1>1, <1>4, <2>1, TripStays DEF RowsKept
  <2>5. QED BY <2>2, <2>3, <2>4
<1>10. ASSUME NEW k \in Settlements, NEW a \in Amounts, Settle(k, a) PROVE RowsKept
  <2>1. wallet' = wallet /\ cod' = [cod EXCEPT ![<<"RECHARGE_SETTLEMENT", k>>] = -a]
    BY <1>10 DEF Settle
  <2>2. \A y \in CodRows \ {<<"RECHARGE_SETTLEMENT", k>>} : cod'[y] = cod[y]
    BY <1>1, <2>1 DEF LedgerType
  <2>3. ASSUME NEW o \in Orders PROVE TripRowsKept(o)
    <3>1. <<"DIGITAL_EARNING_SETTLEMENT", o>> \in CodRows \ {<<"RECHARGE_SETTLEMENT", k>>}
      BY RowsOfCod
    <3>2. QED BY <2>1, <2>2, <3>1 DEF TripRowsKept
  <2>4. ASSUME NEW t \in TopUps PROVE TopUpRowsKept(t)
    <3>1. t # k
      BY KindsAssumption
    <3>2. <<"RECHARGE_SETTLEMENT", t>> \in CodRows \ {<<"RECHARGE_SETTLEMENT", k>>}
      BY <3>1, RowsOfCod
    <3>3. QED BY <2>1, <2>2, <3>2 DEF TopUpRowsKept
  <2>5. QED BY <2>3, <2>4 DEF RowsKept
<1>11. ASSUME NEW w \in Withdrawals, NEW a \in Amounts, Withdraw(w, a) PROVE RowsKept
  <2>1. <<"PAYOUT", w>> \in WalletRows /\ <<"PAYOUT", w>>[1] = "PAYOUT"
    BY RowsOfWallet
  <2>2. wallet' = [wallet EXCEPT ![<<"PAYOUT", w>>] = -a] /\ cod' = cod
    BY <1>11 DEF Withdraw
  <2>3. \A y \in WalletRows \ {<<"PAYOUT", w>>} : wallet'[y] = wallet[y]
    BY <1>1, <2>2 DEF LedgerType
  <2>4. QED BY <2>1, <2>2, <2>3, OtherRows
<1>12. ASSUME NEW w \in Withdrawals, Refund(w) PROVE RowsKept
  <2>1. <<"ADJUSTMENT", w>> \in WalletRows /\ <<"ADJUSTMENT", w>>[1] = "ADJUSTMENT"
    BY RowsOfWallet
  <2>2. wallet' = [wallet EXCEPT ![<<"ADJUSTMENT", w>>] = -wallet[<<"PAYOUT", w>>]] /\ cod' = cod
    BY <1>12 DEF Refund
  <2>3. \A y \in WalletRows \ {<<"ADJUSTMENT", w>>} : wallet'[y] = wallet[y]
    BY <1>1, <2>2 DEF LedgerType
  <2>4. QED BY <2>1, <2>2, <2>3, OtherRows
<1>13. ASSUME NEW c \in Cleaners, CleanupReverse(c) PROVE RowsKept
  <2> DEFINE e == cleaner[c].row
  <2>1. e \in WalletRows /\ Cleanable(e)
    BY <1>13 DEF WalletInv, CleanupsAreSound, CleanupReverse
  <2> HIDE DEF e
  <2>2. ReversalOf(e) \in WalletRows /\ ReversalOf(e)[1] \notin {"EARNING", "RECHARGE"}
    BY <2>1, ReversalRow
  <2>3. wallet' = [wallet EXCEPT ![ReversalOf(e)] = @ - wallet[e]] /\ cod' = cod
    BY <1>13 DEF CleanupReverse, e
  <2>4. \A y \in WalletRows \ {ReversalOf(e)} : wallet'[y] = wallet[y]
    BY <1>1, <2>3 DEF LedgerType
  <2>5. QED BY <2>2, <2>3, <2>4, OtherRows
<1>14. CASE \/ \E k \in Settlements, a \in Amounts : Settle(k, a)
            \/ \E w \in Withdrawals : Refund(w) \/ \E a \in Amounts : Withdraw(w, a)
            \/ \E c \in Cleaners : CleanupReverse(c)
  <2>1. UNCHANGED <<trip, fare, topUp>>
    BY <1>14 DEF Settle, Refund, Withdraw, CleanupReverse
  <2>2. QED BY <1>3, <1>10, <1>11, <1>12, <1>13, <1>14, <2>1
<1>15. CASE Look \/ UNCHANGED walletVars
  BY <1>3, <1>4, <1>15 DEF Look, walletVars
<1>16. ASSUME NEW o \in Orders, Accept(o) PROVE Good
  <2>1. /\ trip[o] # "DELIVERED" /\ trip'[o] # "DELIVERED" /\ UNCHANGED <<ledgers, fare, topUp>>
        /\ \A p \in Orders \ {o} : trip'[p] = trip[p]
    BY <1>1, <1>16 DEF Accept, AccountsTypeOK
  <2>2. TripIsWhole(o)'
    BY <1>1, <2>1 DEF TripIsWhole, ledgers
  <2>3. \A p \in Orders \ {o} : TripIsWhole(p)'
    BY <1>1, <1>4, <2>1, TripStays DEF RowsKept
  <2>4. \A t \in TopUps : TopUpIsWhole(t)'
    BY <1>1, <1>4, <2>1, TopUpStays DEF RowsKept
  <2>5. QED BY <2>2, <2>3, <2>4
<1>17. CASE \E c \in Cleaners : CleanupRefuse(c) \/ \E e \in WalletRows : CleanupLook(c, e)
  BY <1>3, <1>4, <1>17 DEF CleanupRefuse, CleanupLook
<1>18. QED
  BY <1>6, <1>7, <1>8, <1>9, <1>14, <1>15, <1>16, <1>17 DEF AccountsNext

--------------------------------------------------------------------------------
(***************************************************************************)
(* The debits, the cleanups and the status.                                *)
(***************************************************************************)
OtherType ==
    /\ status \in Statuses
    /\ trip \in [Orders -> {"OPEN", "CARRIED", "DELIVERED"}]
    /\ fare \in [Orders -> 0..MaxAmount]
    /\ topUp \in [TopUps -> [status: {"NONE", "PENDING", "PAID", "FAILED"}, amount: 0..MaxAmount]]
    /\ cleaner \in [Cleaners -> [row: WalletRows \union {NoRow}, seen: Int]]

LEMMA StatusStep ==
    WalletInv /\ [AccountsNext]_walletVars => status' = status \/ SyncStatus
BY DEF AccountsNext, walletVars, Look, Accept, PostAgain, DeliverTrip, Earn, ShareCash, Inflow,
   TopUpPaid, TopUpFailed, BeginTopUp, Settle, Withdraw, Refund, CleanupLook, CleanupReverse,
   CleanupRefuse

LEMMA OtherTypeStep == WalletInv /\ [AccountsNext]_walletVars => OtherType'
<1> SUFFICES ASSUME WalletInv, [AccountsNext]_walletVars PROVE OtherType'
  OBVIOUS
<1>1. OtherType /\ LedgerType
  BY DEF WalletInv, AccountsTypeOK, OtherType, LedgerType
<1>2. status' \in Statuses
  BY <1>1, StatusStep, StatusIsOne DEF OtherType, SyncStatus
<1>3. Amounts \subseteq 0..MaxAmount
  BY LimitsAssumption DEF Amounts
<1>4. ASSUME UNCHANGED <<trip, fare, topUp, cleaner>> PROVE OtherType'
  BY <1>1, <1>2, <1>4 DEF OtherType
<1>5. ASSUME NEW o \in Orders, NEW a \in Amounts, DeliverTrip(o, a) PROVE OtherType'
  BY <1>1, <1>2, <1>3, <1>5 DEF OtherType, DeliverTrip
<1>6. ASSUME NEW o \in Orders, Accept(o) PROVE OtherType'
  BY <1>1, <1>2, <1>6 DEF OtherType, Accept
<1>7. ASSUME NEW t \in TopUps, TopUpPaid(t) \/ TopUpFailed(t) PROVE OtherType'
  BY <1>1, <1>2, <1>7 DEF OtherType, TopUpPaid, TopUpFailed
<1>8. ASSUME NEW t \in TopUps, NEW a \in Amounts, BeginTopUp(t, a) PROVE OtherType'
  BY <1>1, <1>2, <1>3, <1>8 DEF OtherType, BeginTopUp
<1>9. NoCleanup \in [row: WalletRows \union {NoRow}, seen: Int]
  BY DEF NoCleanup
<1>10. ASSUME NEW c \in Cleaners, NEW e \in WalletRows, CleanupLook(c, e) PROVE OtherType'
  <2>1. WalletNet \in Int
    BY <1>1 DEF WalletInv, AccountsMatchLedgers, LedgerType
  <2>2. [row |-> e, seen |-> WalletNet] \in [row: WalletRows \union {NoRow}, seen: Int]
    BY <2>1
  <2>3. QED BY <1>1, <1>2, <1>10, <2>2 DEF OtherType, CleanupLook
<1>11. ASSUME NEW c \in Cleaners, CleanupReverse(c) \/ CleanupRefuse(c) PROVE OtherType'
  BY <1>1, <1>2, <1>9, <1>11 DEF OtherType, CleanupReverse, CleanupRefuse
<1>12. CASE \/ Look \/ UNCHANGED walletVars
            \/ \E o \in Orders : PostAgain(o)
            \/ \E k \in Settlements, a \in Amounts : Settle(k, a)
            \/ \E w \in Withdrawals : Refund(w) \/ \E a \in Amounts : Withdraw(w, a)
  BY <1>4, <1>12 DEF Look, walletVars, PostAgain, Settle, Refund, Withdraw
<1>13. QED BY <1>5, <1>6, <1>7, <1>8, <1>10, <1>11, <1>12 DEF AccountsNext

\* A step writes at most one row of the wallet's ledger, which was not there.
RowWritten(e) ==
    /\ wallet[e] = 0
    /\ \A y \in WalletRows \ {e} : wallet'[y] = wallet[y]
    /\ e[1] \in {"COMPANY_SHARE", "PAYOUT"} => wallet'[e] <= 0
    /\ e[1] \in GivingBack => wallet'[e] = -wallet[TakenBy(e)]

LEMMA InflowWrites ==
    ASSUME LedgerType, NEW amount \in Nat, NEW r \in WalletRows, NEW q \in CodRows,
           wallet[r] = 0, r[1] \in {"EARNING", "RECHARGE"}, Inflow(amount, r, q)
    PROVE  RowWritten(r)
<1>1. SettleThenCredit(amount, r, q)
  BY DEF Inflow
<1>2. \A y \in WalletRows \ {r} : wallet'[y] = wallet[y]
  BY <1>1, InflowSplits
<1>3. QED BY <1>2 DEF RowWritten, GivingBack

LEMMA EarnWrites ==
    ASSUME LedgerType, NEW amount \in Nat, NEW o \in Orders, Earn(o, amount)
    PROVE  UNCHANGED wallet \/ \E e \in WalletRows : RowWritten(e)
<1>1. CASE EarningPosted(o)
  BY <1>1 DEF Earn, ledgers
<1>2. CASE ~EarningPosted(o)
  <2> DEFINE r == <<"EARNING", o>>
             q == <<"DIGITAL_EARNING_SETTLEMENT", o>>
  <2>1. r \in WalletRows /\ q \in CodRows /\ r[1] = "EARNING"
    BY RowsOfWallet, RowsOfCod
  <2>2. wallet[r] = 0
    BY <1>2 DEF EarningPosted
  <2>3. Inflow(amount, r, q)
    BY <1>2 DEF Earn
  <2> HIDE DEF r, q
  <2>4. RowWritten(r)
    BY <2>1, <2>2, <2>3, InflowWrites
  <2>5. QED BY <2>1, <2>4
<1>3. QED BY <1>1, <1>2

LEMMA ShareWrites ==
    ASSUME LedgerType, NEW o \in Orders, NEW share \in Amounts, ShareCash(o, share)
    PROVE  UNCHANGED wallet \/ \E e \in WalletRows : RowWritten(e)
<1> DEFINE r == <<"COMPANY_SHARE", o>>
<1>1. CASE wallet[r] # 0
  BY <1>1 DEF ShareCash
<1>2. CASE wallet[r] = 0
  <2>1. r \in WalletRows /\ r[1] = "COMPANY_SHARE"
    BY RowsOfWallet
  <2>2. wallet' = [wallet EXCEPT ![r] = -share]
    BY <1>2 DEF ShareCash
  <2>3. share \in Nat
    BY LimitsAssumption DEF Amounts
  <2> HIDE DEF r
  <2>4. /\ wallet'[r] = -share /\ -share <= 0
        /\ \A y \in WalletRows \ {r} : wallet'[y] = wallet[y]
    BY <2>1, <2>2, <2>3 DEF LedgerType
  <2>5. RowWritten(r)
    BY <1>2, <2>1, <2>4 DEF RowWritten, GivingBack
  <2>6. QED BY <2>1, <2>5
<1>3. QED BY <1>1, <1>2

LEMMA WalletWrites ==
    WalletInv /\ [AccountsNext]_walletVars =>
        UNCHANGED wallet \/ \E e \in WalletRows : RowWritten(e)
<1> SUFFICES ASSUME WalletInv, [AccountsNext]_walletVars
             PROVE  UNCHANGED wallet \/ \E e \in WalletRows : RowWritten(e)
  OBVIOUS
<1>1. LedgerType /\ AccountsTypeOK
  BY DEF WalletInv, AccountsTypeOK, LedgerType
<1>2. \A a \in Amounts : a \in Nat
  BY LimitsAssumption DEF Amounts
<1> DEFINE Good == UNCHANGED wallet \/ \E e \in WalletRows : RowWritten(e)
<1>3. ASSUME NEW o \in Orders, NEW a \in Amounts, DeliverTrip(o, a) PROVE Good
  <2>1. a \in Nat
    BY <1>2
  <2>2. QED BY <1>1, <1>3, <2>1, EarnWrites, ShareWrites DEF DeliverTrip, ledgers
<1>4. ASSUME NEW o \in Orders, PostAgain(o) PROVE Good
  <2>1. fare[o] \in Nat
    BY <1>1, LimitsAssumption DEF AccountsTypeOK
  <2>2. QED BY <1>1, <1>4, <2>1, EarnWrites, ShareWrites DEF PostAgain
<1>5. ASSUME NEW t \in TopUps, TopUpPaid(t) PROVE Good
  <2> DEFINE r == <<"RECHARGE", t>>
             q == <<"RECHARGE_SETTLEMENT", t>>
  <2>1. r \in WalletRows /\ q \in CodRows /\ r[1] = "RECHARGE"
    BY RowsOfWallet, RowsOfCod
  <2>2. topUp[t].amount \in Nat
    BY <1>1, LimitsAssumption DEF AccountsTypeOK
  <2>3. UNCHANGED wallet \/ (wallet[r] = 0 /\ Inflow(topUp[t].amount, r, q))
    BY <1>5 DEF TopUpPaid, ledgers
  <2> HIDE DEF r, q
  <2>4. QED BY <1>1, <2>1, <2>2, <2>3, InflowWrites
<1>6. ASSUME NEW w \in Withdrawals, NEW a \in Amounts, Withdraw(w, a) PROVE Good
  <2> DEFINE r == <<"PAYOUT", w>>
  <2>1. r \in WalletRows /\ r[1] = "PAYOUT"
    BY RowsOfWallet
  <2>2. wallet[r] = 0 /\ wallet' = [wallet EXCEPT ![r] = -a]
    BY <1>6 DEF Withdraw
  <2> HIDE DEF r
  <2>3. /\ wallet'[r] = -a /\ -a <= 0
        /\ \A y \in WalletRows \ {r} : wallet'[y] = wallet[y]
    BY <1>1, <1>2, <2>1, <2>2 DEF LedgerType
  <2>4. QED BY <2>1, <2>2, <2>3 DEF RowWritten, GivingBack
<1>7. ASSUME NEW w \in Withdrawals, Refund(w) PROVE Good
  <2> DEFINE r == <<"ADJUSTMENT", w>>
             v == -wallet[<<"PAYOUT", w>>]
  <2>1. r \in WalletRows /\ r[1] = "ADJUSTMENT"
    BY RowsOfWallet
  <2>2. wallet[r] = 0 /\ wallet' = [wallet EXCEPT ![r] = v]
    BY <1>7 DEF Refund
  <2>3. v = -wallet[TakenBy(r)]
    BY TakenByParts
  <2> HIDE DEF r, v
  <2>4. wallet'[r] = v /\ \A y \in WalletRows \ {r} : wallet'[y] = wallet[y]
    BY <1>1, <2>1, <2>2 DEF LedgerType
  <2>5. QED BY <2>1, <2>2, <2>3, <2>4 DEF RowWritten
<1>8. ASSUME NEW c \in Cleaners, CleanupReverse(c) PROVE Good
  <2> DEFINE e == cleaner[c].row
             r == ReversalOf(e)
  <2>1. e \in WalletRows /\ Cleanable(e)
    BY <1>8 DEF WalletInv, CleanupsAreSound, CleanupReverse
  <2>2. wallet[r] = 0 /\ wallet' = [wallet EXCEPT ![r] = @ - wallet[e]]
    BY <1>8 DEF CleanupReverse, CleanupAllowed
  <2> HIDE DEF e
  <2>3. r \in WalletRows /\ r[1] \in {"COMPANY_SHARE reversal", "ADJUSTMENT reversal"}
    BY <2>1, ReversalRow
  <2>4. TakenBy(r) = e
    BY <2>1, TakenByCleaned
  <2> HIDE DEF r
  <2>5. wallet[e] \in Int /\ wallet[r] = 0
    BY <1>1, <2>1, <2>2 DEF LedgerType
  <2>6. /\ wallet'[r] = wallet[r] - wallet[e]
        /\ \A y \in WalletRows \ {r} : wallet'[y] = wallet[y]
    BY <1>1, <2>2, <2>3 DEF LedgerType
  <2>7. wallet'[r] = -wallet[e]
    BY <2>5, <2>6
  <2>8. QED BY <2>3, <2>4, <2>5, <2>6, <2>7 DEF RowWritten
<1>9. CASE \/ Look \/ UNCHANGED walletVars
           \/ \E o \in Orders : Accept(o)
           \/ \E t \in TopUps : TopUpFailed(t) \/ \E a \in Amounts : BeginTopUp(t, a)
           \/ \E k \in Settlements, a \in Amounts : Settle(k, a)
           \/ \E c \in Cleaners : CleanupRefuse(c) \/ \E e \in WalletRows : CleanupLook(c, e)
  BY <1>9 DEF Look, walletVars, ledgers, Accept, TopUpFailed, BeginTopUp, Settle, CleanupRefuse,
     CleanupLook
<1>10. QED BY <1>3, <1>4, <1>5, <1>6, <1>7, <1>8, <1>9 DEF AccountsNext

\* A row that is there stays as it is.
LEMMA WalletRowsStay ==
    WalletInv /\ [AccountsNext]_walletVars =>
        \A e \in WalletRows : wallet[e] # 0 => wallet'[e] = wallet[e]
BY WalletWrites DEF RowWritten

LEMMA DebitsStep == WalletInv /\ [AccountsNext]_walletVars => DebitsLower'
<1> SUFFICES ASSUME WalletInv, [AccountsNext]_walletVars PROVE DebitsLower'
  OBVIOUS
<1>1. DebitsLower
  BY DEF WalletInv
<1>2. UNCHANGED wallet \/ \E e \in WalletRows : RowWritten(e)
  BY WalletWrites
<1>3. ASSUME NEW y \in WalletRows, y[1] \in {"COMPANY_SHARE", "PAYOUT"}, wallet[y] <= 0
      PROVE  wallet'[y] <= 0
  BY <1>2, <1>3 DEF RowWritten
<1>4. ASSUME NEW o \in Orders PROVE wallet'[<<"COMPANY_SHARE", o>>] <= 0
  <2>1. <<"COMPANY_SHARE", o>> \in WalletRows /\ <<"COMPANY_SHARE", o>>[1] = "COMPANY_SHARE"
    BY RowsOfWallet
  <2>2. wallet[<<"COMPANY_SHARE", o>>] <= 0
    BY <1>1 DEF DebitsLower
  <2>3. QED BY <1>3, <2>1, <2>2
<1>5. ASSUME NEW w \in Withdrawals PROVE wallet'[<<"PAYOUT", w>>] <= 0
  <2>1. <<"PAYOUT", w>> \in WalletRows /\ <<"PAYOUT", w>>[1] = "PAYOUT"
    BY RowsOfWallet
  <2>2. wallet[<<"PAYOUT", w>>] <= 0
    BY <1>1 DEF DebitsLower
  <2>3. QED BY <1>3, <2>1, <2>2
<1>6. QED BY <1>4, <1>5 DEF DebitsLower

LEMMA CleanupsStep == WalletInv /\ [AccountsNext]_walletVars => CleanupsAreSound'
<1> SUFFICES ASSUME WalletInv, [AccountsNext]_walletVars, NEW c \in Cleaners,
                    cleaner'[c] # NoCleanup
             PROVE  (cleaner[c].row \in WalletRows /\ Cleanable(cleaner[c].row))'
  BY DEF CleanupsAreSound
<1>1. OtherType /\ CleanupsAreSound
  BY DEF WalletInv, AccountsTypeOK, OtherType
<1>2. \A e \in WalletRows : wallet[e] # 0 => wallet'[e] # 0
  BY WalletRowsStay
<1>3. CASE cleaner'[c] = cleaner[c]
  <2>1. cleaner[c].row \in WalletRows /\ Cleanable(cleaner[c].row)
    BY <1>1, <1>3 DEF CleanupsAreSound
  <2>2. cleaner'[c].row = cleaner[c].row
    BY <1>3
  <2>3. QED BY <1>2, <2>1, <2>2 DEF Cleanable
<1>4. CASE \E e \in WalletRows : CleanupLook(c, e)
  <2>1. PICK e \in WalletRows : CleanupLook(c, e)
    BY <1>4
  <2>2. cleaner'[c].row = e /\ Cleanable(e)
    BY <1>1, <2>1 DEF OtherType, CleanupLook
  <2>3. QED BY <1>2, <2>2 DEF Cleanable
<1>5. CASE CleanupReverse(c) \/ CleanupRefuse(c)
  BY <1>1, <1>5 DEF OtherType, CleanupReverse, CleanupRefuse
<1>6. ASSUME NEW d \in Cleaners, d # c,
             \/ CleanupReverse(d) \/ CleanupRefuse(d)
             \/ \E e \in WalletRows : CleanupLook(d, e)
      PROVE  cleaner'[c] = cleaner[c]
  BY <1>1, <1>6 DEF OtherType, CleanupReverse, CleanupRefuse, CleanupLook
<1>7. CASE cleaner' = cleaner
  BY <1>3, <1>7
<1>8. CASE \E d \in Cleaners, e \in WalletRows : CleanupLook(d, e)
  BY <1>3, <1>4, <1>6, <1>8
<1>9. CASE \E d \in Cleaners : CleanupReverse(d) \/ CleanupRefuse(d)
  BY <1>3, <1>5, <1>6, <1>9
<1>10. cleaner' = cleaner \/ (\E d \in Cleaners, e \in WalletRows : CleanupLook(d, e))
         \/ \E d \in Cleaners : CleanupReverse(d) \/ CleanupRefuse(d)
  BY DEF AccountsNext, walletVars, Look, Accept, PostAgain, DeliverTrip, TopUpPaid, TopUpFailed,
     BeginTopUp, Settle, Withdraw, Refund
<1>11. QED BY <1>7, <1>8, <1>9, <1>10

\* Above the floor and below the threshold.
InService == balance > -Floor /\ due < Threshold

\* The antecedent of ClearIsTrue but for the status.
NoRefundReversed == \A w \in Withdrawals : wallet[<<"ADJUSTMENT reversal", w>>] = 0

LEMMA SyncIsTrue ==
    ASSUME SyncStatus, status' = "CLEAR", balance' \in Int, due' \in Int
    PROVE  InService'
<1>1. StatusFor(balance', due') = "CLEAR"
  BY DEF SyncStatus
<1>2. ~(balance' <= -Floor) /\ ~(due' >= Threshold)
  BY <1>1, Zenon DEF StatusFor
<1>3. QED BY <1>2, LimitsAssumption DEF InService

LEMMA ReversalsStay ==
    WalletInv /\ [AccountsNext]_walletVars => (NoRefundReversed' => NoRefundReversed)
<1> SUFFICES ASSUME WalletInv, [AccountsNext]_walletVars, NoRefundReversed', NEW w \in Withdrawals
             PROVE  wallet[<<"ADJUSTMENT reversal", w>>] = 0
  BY DEF NoRefundReversed
<1>1. <<"ADJUSTMENT reversal", w>> \in WalletRows
  BY RowsOfWallet
<1>2. wallet'[<<"ADJUSTMENT reversal", w>>] = 0
  BY DEF NoRefundReversed
<1>3. QED BY <1>1, <1>2, WalletRowsStay

LEMMA ClearStep == WalletInv /\ [AccountsNext]_walletVars => ClearIsTrue'
<1> SUFFICES ASSUME WalletInv, [AccountsNext]_walletVars, status' = "CLEAR", NoRefundReversed'
             PROVE  InService'
  BY DEF ClearIsTrue, NoRefundReversed, InService
<1>1. LedgerType /\ LedgerType' /\ AccountsMatchLedgers /\ AccountsMatchLedgers' /\ DebitsLower
  BY LedgerStep DEF WalletInv, AccountsTypeOK, LedgerType
<1>2. Floor \in Nat \ {0} /\ Threshold \in Nat \ {0} /\ \A a \in Amounts : a \in Nat
  BY LimitsAssumption DEF Amounts
<1>3. CASE SyncStatus
  BY <1>1, <1>3, SyncIsTrue DEF LedgerType
<1>4. ASSUME status' = status PROVE InService
  BY <1>4, ReversalsStay DEF WalletInv, ClearIsTrue, NoRefundReversed, InService
<1>5. CASE UNCHANGED <<balance, due, status>>
  BY <1>4, <1>5 DEF InService
<1>6. ASSUME NEW w \in Withdrawals, NEW a \in Amounts, Withdraw(w, a) PROVE InService'
  <2>1. InService
    BY <1>4, <1>6 DEF Withdraw
  <2>2. balance' >= 0 /\ due' = due
    BY <1>1, <1>2, <1>6 DEF Withdraw, LedgerType
  <2>3. QED BY <1>1, <1>2, <2>1, <2>2 DEF InService, LedgerType
<1>7. ASSUME NEW w \in Withdrawals, Refund(w) PROVE InService'
  <2> DEFINE v == wallet[<<"PAYOUT", w>>]
  <2>1. InService
    BY <1>4, <1>7 DEF Refund
  <2>2. <<"PAYOUT", w>> \in WalletRows
    BY RowsOfWallet
  <2>3. v \in Int /\ v <= 0
    BY <1>1, <2>2 DEF LedgerType, DebitsLower
  <2>4. balance' = balance - v /\ due' = due
    BY <1>7 DEF Refund
  <2> HIDE DEF v
  <2>5. QED BY <1>1, <1>2, <2>1, <2>3, <2>4 DEF InService, LedgerType
<1>8. ASSUME NEW c \in Cleaners, CleanupReverse(c) PROVE InService'
  <2> DEFINE e == cleaner[c].row
             r == ReversalOf(e)
  <2>1. e \in WalletRows /\ Cleanable(e)
    BY <1>8 DEF WalletInv, CleanupsAreSound, CleanupReverse
  <2>2. InService /\ due' = due
    BY <1>4, <1>8 DEF CleanupReverse
  <2>3. wallet[r] = 0 /\ wallet' = [wallet EXCEPT ![r] = @ - wallet[e]] /\ UNCHANGED <<cod, due>>
    BY <1>8 DEF CleanupReverse, CleanupAllowed
  <2> HIDE DEF e
  <2>4. r \in WalletRows
    BY <2>1, ReversalRow
  <2>5. wallet[e] \in Int /\ wallet[e] # 0
    BY <1>1, <2>1 DEF LedgerType, Cleanable
  <2>6. CASE \E w \in Withdrawals : r = <<"ADJUSTMENT reversal", w>>
    <3>1. PICK w \in Withdrawals : r = <<"ADJUSTMENT reversal", w>>
      BY <2>6
    <3> HIDE DEF r
    <3>2. wallet'[r] # 0
      BY <1>1, <2>3, <2>4, <2>5 DEF LedgerType
    <3>3. wallet'[r] = 0
      BY <3>1 DEF NoRefundReversed
    <3>4. QED BY <3>2, <3>3
  <2>7. CASE \E o \in Orders : e = <<"COMPANY_SHARE", o>>
    <3>1. wallet[e] <= 0
      BY <1>1, <2>7 DEF DebitsLower
    <3> HIDE DEF r
    <3>2. balance' = balance - wallet[e]
      <4>1. /\ wallet' \in [WalletRows -> Int] /\ wallet'[r] = -wallet[e]
            /\ \A y \in WalletRows \ {r} : wallet[y] = wallet'[y]
        BY <1>1, <2>3, <2>4, <2>5 DEF LedgerType
      <4>2. wallet \in [WalletRows -> Int] /\ balance \in Int
        BY <1>1 DEF LedgerType
      <4>3. /\ Total(wallet, WalletRows) \in Int
            /\ Total(wallet', WalletRows) = Total(wallet, WalletRows) + wallet'[r] - wallet[r]
        BY <2>4, <4>1, <4>2, RowsAreFinite, RowChanges
      <4>4. balance = Total(wallet, WalletRows) /\ balance' = Total(wallet', WalletRows)
        BY <1>1 DEF AccountsMatchLedgers, WalletNet
      <4>5. QED BY <2>3, <2>5, <4>1, <4>2, <4>3, <4>4
    <3>3. QED BY <1>1, <1>2, <2>2, <2>5, <3>1, <3>2 DEF InService, LedgerType
  <2>8. QED BY <2>1, <2>6, <2>7, RowsToClean
<1>9. \/ SyncStatus \/ UNCHANGED <<balance, due, status>>
      \/ \E w \in Withdrawals : Refund(w) \/ \E a \in Amounts : Withdraw(w, a)
      \/ \E c \in Cleaners : CleanupReverse(c)
  BY DEF AccountsNext, walletVars, accounts, Look, Accept, PostAgain, DeliverTrip, Earn, ShareCash,
     Inflow, TopUpPaid, TopUpFailed, BeginTopUp, Settle, CleanupLook, CleanupRefuse
<1>10. QED BY <1>3, <1>5, <1>6, <1>7, <1>8, <1>9

LEMMA WalletInit == AccountsInit => WalletInv
<1> SUFFICES ASSUME AccountsInit PROVE WalletInv
  OBVIOUS
<1>1. /\ wallet \in [WalletRows -> Int] /\ \A e \in WalletRows : wallet[e] = 0
      /\ cod \in [CodRows -> Int] /\ balance = 0 /\ due \in Nat
      /\ \A e \in CodRows : e[1] # "CASH_COMPANY_SHARE" => cod[e] = 0
  BY LimitsAssumption DEF AccountsInit
<1>2. AccountsTypeOK
  <2>1. OtherType
    BY LimitsAssumption, StatusIsOne DEF AccountsInit, OtherType, NoCleanup
  <2>2. QED BY <1>1, <2>1 DEF AccountsTypeOK, OtherType
<1>3. CleanupsAreSound
  BY DEF AccountsInit, CleanupsAreSound
<1>4. DebitsLower
  <2>1. ASSUME NEW e \in WalletRows PROVE wallet[e] <= 0
    BY <1>1
  <2>2. QED BY <2>1, RowsOfWallet, Zenon DEF DebitsLower
<1>5. \A o \in Orders : TripIsWhole(o)
  <2> SUFFICES ASSUME NEW o \in Orders PROVE TripIsWhole(o)
    OBVIOUS
  <2>1. <<"DIGITAL_EARNING_SETTLEMENT", o>>[1] = "DIGITAL_EARNING_SETTLEMENT"
    OBVIOUS
  <2>2. wallet[<<"EARNING", o>>] = 0 /\ cod[<<"DIGITAL_EARNING_SETTLEMENT", o>>] = 0
    BY <1>1, <2>1, RowsOfWallet, RowsOfCod
  <2>3. QED BY <2>2 DEF TripIsWhole
<1>6. \A t \in TopUps : TopUpIsWhole(t)
  <2> SUFFICES ASSUME NEW t \in TopUps PROVE TopUpIsWhole(t)
    OBVIOUS
  <2>1. <<"RECHARGE_SETTLEMENT", t>>[1] = "RECHARGE_SETTLEMENT"
    OBVIOUS
  <2>2. wallet[<<"RECHARGE", t>>] = 0 /\ cod[<<"RECHARGE_SETTLEMENT", t>>] = 0
    BY <1>1, <2>1, RowsOfWallet, RowsOfCod
  <2>3. topUp[t].status = "NONE"
    BY DEF AccountsInit
  <2>4. QED BY <2>2, <2>3 DEF TopUpIsWhole
<1>7. ClearIsTrue
  <2>1. ASSUME status = "CLEAR" PROVE InService
    <3>1. StatusFor(0, due) = "CLEAR"
      BY <2>1 DEF AccountsInit
    <3>2. ~(due >= Threshold)
      BY <3>1, Zenon DEF StatusFor
    <3>3. QED BY <1>1, <3>2, LimitsAssumption DEF InService
  <2>2. QED BY <2>1 DEF ClearIsTrue, InService
<1>8. AccountsMatchLedgers
  <2>1. Total(wallet, WalletRows) = 0
    BY <1>1, RowsAreFinite, TotalZero
  <2> DEFINE legacy == <<"CASH_COMPANY_SHARE", "legacy">>
  <2>2. legacy \in CodRows /\ legacy[1] = "CASH_COMPANY_SHARE"
    BY DEF CodRows
  <2>3. ASSUME NEW e \in CodRows \ {legacy} PROVE e[1] # "CASH_COMPANY_SHARE"
    BY <2>3, PairParts DEF CodRows
  <2>4. cod[legacy] = due
    BY <2>2 DEF AccountsInit
  <2> HIDE DEF legacy
  <2>5. \A e \in CodRows \ {legacy} : cod[e] = 0
    BY <1>1, <2>3
  <2>6. Total(cod, CodRows) = cod[legacy] + Total(cod, CodRows \ {legacy})
    BY <1>1, <2>2, RowsAreFinite, TotalTake
  <2>7. Total(cod, CodRows \ {legacy}) = 0
    <3>1. IsFiniteSet(CodRows \ {legacy})
      BY RowsAreFinite, FS_Subset
    <3>2. QED BY <2>5, <3>1, TotalZero
  <2>8. QED BY <1>1, <2>1, <2>4, <2>6, <2>7 DEF AccountsMatchLedgers, WalletNet, CodNet
<1>9. QED BY <1>2, <1>3, <1>4, <1>5, <1>6, <1>7, <1>8, WholeParts DEF WalletInv

LEMMA WalletStep == WalletInv /\ [AccountsNext]_walletVars => WalletInv'
<1> SUFFICES ASSUME WalletInv, [AccountsNext]_walletVars PROVE WalletInv'
  OBVIOUS
<1>1. LedgerType' /\ AccountsMatchLedgers'
  BY LedgerStep
<1>2. OtherType'
  BY OtherTypeStep
<1>3. AccountsTypeOK'
  BY <1>1, <1>2 DEF AccountsTypeOK, LedgerType, OtherType
<1>4. QED
  BY <1>1, <1>3, InflowStep, DebitsStep, CleanupsStep, ClearStep DEF WalletInv

LEMMA WalletHolds == AccountsSpec => []WalletInv
BY WalletInit, WalletStep, PTL DEF AccountsSpec

\* Every account, row, top-up and cleanup has the values its column may hold; the
\* debt in cash is never negative.
THEOREM AccountsTypeCorrect == AccountsSpec => []AccountsTypeOK
<1>1. WalletInv => AccountsTypeOK
  BY DEF WalletInv
<1>2. QED BY <1>1, WalletHolds, PTL

\* The balance and the debt that a rider's wallet shows are what the rows of its
\* two ledgers add up to, for any number of trips, top-ups, settlements,
\* withdrawals and cleanups, in any order and of any amounts.
THEOREM AccountsAgree == AccountsSpec => []AccountsMatchLedgers
<1>1. WalletInv => AccountsMatchLedgers
  BY DEF WalletInv
<1>2. QED BY <1>1, WalletHolds, PTL

\* An earning and a top-up are split between the debt and the wallet with nothing
\* lost and nothing twice, however often the trip or the webhook is repeated.
THEOREM InflowsAreWhole == AccountsSpec => []InflowIsWhole
<1>1. WalletInv => InflowIsWhole
  BY DEF WalletInv
<1>2. QED BY <1>1, WalletHolds, PTL

\* A rider is CLEAR only above the floor and below the threshold, as long as no
\* cleanup took the refund of a withdrawal back, which leaves the status as it was.
THEOREM ClearRidersAreInService == AccountsSpec => []ClearIsTrue
<1>1. WalletInv => ClearIsTrue
  BY DEF WalletInv
<1>2. QED BY <1>1, WalletHolds, PTL

\* A row that was posted, on either ledger, is never posted over: a second
\* delivery, a repeated webhook or a settlement asked for again finds it there.
PostedOnce ==
    [][/\ \A e \in WalletRows : wallet[e] # 0 => wallet'[e] = wallet[e]
       /\ \A e \in CodRows : cod[e] # 0 => cod'[e] = cod[e]]_walletVars

\* What that says of the ledger of the debt.
CodStays == \A e \in CodRows : cod[e] # 0 => cod'[e] = cod[e]

LEMMA InflowKeepsCod ==
    ASSUME LedgerType, NEW amount \in Nat, NEW r \in WalletRows, NEW q \in CodRows,
           cod[q] = 0, Inflow(amount, r, q)
    PROVE  CodStays
<1>1. SettleThenCredit(amount, r, q)
  BY DEF Inflow
<1>2. \A y \in CodRows \ {q} : cod'[y] = cod[y]
  BY <1>1, InflowSplits
<1>3. QED BY <1>2 DEF CodStays

LEMMA CodRowsStay == WalletInv /\ [AccountsNext]_walletVars => CodStays
<1> SUFFICES ASSUME WalletInv, [AccountsNext]_walletVars PROVE CodStays
  OBVIOUS
<1>1. LedgerType /\ AccountsTypeOK
  BY DEF WalletInv, AccountsTypeOK, LedgerType
<1>2. ASSUME UNCHANGED cod PROVE CodStays
  BY <1>2 DEF CodStays
<1>3. ASSUME NEW o \in Orders, NEW amount \in Nat, Earn(o, amount) PROVE CodStays
  <2> DEFINE r == <<"EARNING", o>>
             q == <<"DIGITAL_EARNING_SETTLEMENT", o>>
  <2>1. r \in WalletRows /\ q \in CodRows
    BY RowsOfWallet, RowsOfCod
  <2>2. UNCHANGED cod \/ (cod[q] = 0 /\ Inflow(amount, r, q))
    BY <1>3 DEF Earn, EarningPosted, ledgers
  <2> HIDE DEF r, q
  <2>3. QED BY <1>1, <1>2, <2>1, <2>2, InflowKeepsCod
<1>4. ASSUME NEW t \in TopUps, TopUpPaid(t) PROVE CodStays
  <2> DEFINE r == <<"RECHARGE", t>>
             q == <<"RECHARGE_SETTLEMENT", t>>
  <2>1. r \in WalletRows /\ q \in CodRows
    BY RowsOfWallet, RowsOfCod
  <2>2. topUp[t].amount \in Nat
    BY <1>1, LimitsAssumption DEF AccountsTypeOK
  <2>3. UNCHANGED cod \/ (cod[q] = 0 /\ Inflow(topUp[t].amount, r, q))
    BY <1>4 DEF TopUpPaid, ledgers
  <2> HIDE DEF r, q
  <2>4. QED BY <1>1, <1>2, <2>1, <2>2, <2>3, InflowKeepsCod
<1>5. ASSUME NEW k \in Settlements, NEW a \in Amounts, Settle(k, a) PROVE CodStays
  <2> DEFINE q == <<"RECHARGE_SETTLEMENT", k>>
  <2>1. cod[q] = 0 /\ cod' = [cod EXCEPT ![q] = -a]
    BY <1>5 DEF Settle
  <2> HIDE DEF q
  <2>2. QED BY <1>1, <2>1 DEF LedgerType, CodStays
<1>6. ASSUME NEW o \in Orders, NEW a \in Amounts, DeliverTrip(o, a) PROVE CodStays
  <2>1. a \in Nat
    BY LimitsAssumption DEF Amounts
  <2>2. QED BY <1>2, <1>3, <1>6, <2>1 DEF DeliverTrip, ShareCash, ledgers
<1>7. ASSUME NEW o \in Orders, PostAgain(o) PROVE CodStays
  <2>1. fare[o] \in Nat
    BY <1>1, LimitsAssumption DEF AccountsTypeOK
  <2>2. QED BY <1>2, <1>3, <1>7, <2>1 DEF PostAgain, ShareCash
<1>8. CASE \/ Look \/ UNCHANGED walletVars
           \/ \E o \in Orders : Accept(o)
           \/ \E t \in TopUps : TopUpFailed(t) \/ \E a \in Amounts : BeginTopUp(t, a)
           \/ \E w \in Withdrawals : Refund(w) \/ \E a \in Amounts : Withdraw(w, a)
           \/ \E c \in Cleaners : CleanupReverse(c) \/ CleanupRefuse(c)
           \/ \E c \in Cleaners, e \in WalletRows : CleanupLook(c, e)
  BY <1>2, <1>8 DEF Look, walletVars, ledgers, Accept, TopUpFailed, BeginTopUp, Refund, Withdraw,
     CleanupReverse, CleanupRefuse, CleanupLook
<1>9. QED BY <1>4, <1>5, <1>6, <1>7, <1>8 DEF AccountsNext

\* Every step keeps the rows there are.
THEOREM NothingIsPostedAgain == AccountsSpec => PostedOnce
<1>1. WalletInv /\ [AccountsNext]_walletVars =>
        [/\ \A e \in WalletRows : wallet[e] # 0 => wallet'[e] = wallet[e]
         /\ \A e \in CodRows : cod[e] # 0 => cod'[e] = cod[e]]_walletVars
  BY WalletRowsStay, CodRowsStay DEF CodStays
<1>2. QED BY <1>1, WalletHolds, PTL DEF AccountsSpec, PostedOnce

--------------------------------------------------------------------------------
(***************************************************************************)
(* What is given back, on top of WalletInv.                                *)
(***************************************************************************)
GivenBack ==
    \A e \in WalletRows : e[1] \in GivingBack => wallet[e] \in {0, -wallet[TakenBy(e)]}

\* A row that gives back is written after the one that took, for its amount, and
\* neither of them changes any more.
LEMMA GivenBackStep ==
    WalletInv /\ GivenBack /\ [AccountsNext]_walletVars => GivenBack'
<1> SUFFICES ASSUME WalletInv, GivenBack, [AccountsNext]_walletVars,
                    NEW e \in WalletRows, e[1] \in GivingBack
             PROVE  wallet'[e] \in {0, -wallet'[TakenBy(e)]}
  BY DEF GivenBack, TakenBy
<1> DEFINE f == TakenBy(e)
<1>1. f \in WalletRows /\ f # e
  BY TakenByIsARow
<1>2. wallet[e] \in {0, -wallet[f]}
  BY DEF GivenBack
<1>3. UNCHANGED wallet \/ \E d \in WalletRows : RowWritten(d)
  BY WalletWrites
<1>4. ASSUME RowWritten(e) PROVE wallet'[e] = -wallet'[f]
  BY <1>1, <1>4 DEF RowWritten
<1> HIDE DEF f
<1>5. ASSUME RowWritten(f) PROVE wallet'[e] = 0
  BY <1>1, <1>2, <1>5 DEF RowWritten
<1>6. ASSUME NEW d \in WalletRows, RowWritten(d), d # e, d # f
      PROVE  wallet'[e] = wallet[e] /\ wallet'[f] = wallet[f]
  BY <1>1, <1>6 DEF RowWritten
<1>7. wallet'[e] \in {0, -wallet'[f]}
  BY <1>2, <1>3, <1>4, <1>5, <1>6
<1>8. QED BY <1>7 DEF f

LEMMA GivenBackHolds == AccountsSpec => [](WalletInv /\ GivenBack)
<1>1. AccountsInit => GivenBack
  <2>1. SUFFICES ASSUME AccountsInit, NEW e \in WalletRows PROVE wallet[e] = 0
    BY DEF GivenBack
  <2>2. QED BY <2>1 DEF AccountsInit
<1>2. QED BY <1>1, WalletInit, WalletStep, GivenBackStep, PTL DEF AccountsSpec

\* The rows of a withdrawal add up to its amount or to nothing, and so do those of
\* a company share: neither a refund told twice (refundWithdrawalOnce) nor two
\* cleanups of one row (reverseRiderWallet) leave the rider with a gain.
CostsItsAmountOrNothing ==
    /\ \A w \in Withdrawals :
        wallet[<<"PAYOUT", w>>] + wallet[<<"ADJUSTMENT", w>>] + wallet[<<"ADJUSTMENT reversal", w>>]
            \in {0, wallet[<<"PAYOUT", w>>]}
    /\ \A o \in Orders :
        wallet[<<"COMPANY_SHARE", o>>] + wallet[<<"COMPANY_SHARE reversal", o>>]
            \in {0, wallet[<<"COMPANY_SHARE", o>>]}

\* Refunds and reversals never give back twice, or more than was taken.
THEOREM DebitsCostTheirAmountOrNothing == AccountsSpec => []CostsItsAmountOrNothing
<1>1. ASSUME WalletInv, GivenBack, NEW e \in WalletRows, e[1] \in GivingBack
      PROVE  wallet[e] \in {0, -wallet[TakenBy(e)]}
  BY <1>1 DEF GivenBack
<1>2. ASSUME NEW a \in Int, NEW b \in {0, -a}, NEW c \in {0, -b}
      PROVE  a + b \in {0, a} /\ a + b + c \in {0, a}
  BY <1>2
<1>3. ASSUME WalletInv, GivenBack, NEW w \in Withdrawals
      PROVE  wallet[<<"PAYOUT", w>>] + wallet[<<"ADJUSTMENT", w>>] + wallet[<<"ADJUSTMENT reversal", w>>]
                 \in {0, wallet[<<"PAYOUT", w>>]}
  <2> DEFINE a == wallet[<<"PAYOUT", w>>]
             b == wallet[<<"ADJUSTMENT", w>>]
             c == wallet[<<"ADJUSTMENT reversal", w>>]
  <2>1. a \in Int
    BY <1>3, RowsOfWallet DEF WalletInv, AccountsTypeOK
  <2>2. <<"ADJUSTMENT", w>>[1] \in GivingBack /\ <<"ADJUSTMENT reversal", w>>[1] \in GivingBack
    BY DEF GivingBack
  <2>3. b \in {0, -a}
    BY <1>1, <1>3, <2>2, RowsOfWallet, TakenByParts
  <2>4. c \in {0, -b}
    BY <1>1, <1>3, <2>2, RowsOfWallet, TakenByParts
  <2> HIDE DEF a, b, c
  <2>5. a + b + c \in {0, a}
    BY <1>2, <2>1, <2>3, <2>4
  <2>6. QED BY <2>5 DEF a, b, c
<1>4. ASSUME WalletInv, GivenBack, NEW o \in Orders
      PROVE  wallet[<<"COMPANY_SHARE", o>>] + wallet[<<"COMPANY_SHARE reversal", o>>]
                 \in {0, wallet[<<"COMPANY_SHARE", o>>]}
  <2> DEFINE a == wallet[<<"COMPANY_SHARE", o>>]
             b == wallet[<<"COMPANY_SHARE reversal", o>>]
  <2>1. a \in Int
    BY <1>4, RowsOfWallet DEF WalletInv, AccountsTypeOK
  <2>2. <<"COMPANY_SHARE reversal", o>>[1] \in GivingBack
    BY DEF GivingBack
  <2>3. b \in {0, -a}
    BY <1>1, <1>4, <2>2, RowsOfWallet, TakenByParts
  <2> HIDE DEF a, b
  <2>4. a + b \in {0, a}
    BY <1>2, <2>1, <2>3
  <2>5. QED BY <2>4 DEF a, b
<1>5. WalletInv /\ GivenBack => CostsItsAmountOrNothing
  BY <1>3, <1>4 DEF CostsItsAmountOrNothing
<1>6. QED BY <1>5, GivenBackHolds, PTL
================================================================================
