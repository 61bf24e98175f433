--------------------------- MODULE RiderPayoutProofs ---------------------------
(***************************************************************************)
(* Theorems about RiderPayout, for any number of withdrawals and flows,    *)
(* whatever fails: an HTTP error may be taken for an answer, and the catch *)
(* block of a reconcile may write over a row.  What these two can do is    *)
(* recorded in misread and reopened; the theorems show that nothing else   *)
(* goes wrong.                                                             *)
(***************************************************************************)
EXTENDS RiderPayout, TLAPS

\* A flow that won the claim of w and has neither sent the request nor given
\* the claim back.
Holder(p, w) == flow[p].w = w /\ flow[p].at \in {"post", "release"}

\* A flow that is not idle works on a withdrawal.
FlowsHaveWork == \A p \in Flows : flow[p].at # "idle" => flow[p].w \in Withdrawals

\* Nothing was tried for a withdrawal no admin started.
Unstarted == {"NONE", "REQUESTED", "PENDING"}

UnstartedIsUntouched ==
    \A w \in Withdrawals :
        status[w] \in Unstarted
            => posts[w] = 0 /\ \A p \in Flows : flow[p].w # w

\* A request was sent: the row says so and nobody is about to send another.
SentStaysSent ==
    \A w \in Withdrawals :
        posts[w] # 0 => /\ posts[w] = 1
                        /\ sent[w] # "NOT_SENT"
                        /\ \A p \in Flows : ~Holder(p, w)

\* One flow at most holds a claim, and while it does the row is not unsent.
OneHolder ==
    \A w \in Withdrawals, p \in Flows :
        Holder(p, w) => /\ sent[w] # "NOT_SENT"
                        /\ \A q \in Flows : Holder(q, w) => q = p

ClaimInv == UnstartedIsUntouched /\ SentStaysSent /\ OneHolder

PostInv == TypeOK /\ FlowsHaveWork /\ ClaimInv

\* There is a transfer only because a request was sent.
TransferWasPosted == \A w \in Withdrawals : transfer[w] # "NONE" => posts[w] # 0

\* While a flow holds the claim, only an error of another flow decides the row.
HeldIsProcessing ==
    \A w \in Withdrawals, p \in Flows :
        Holder(p, w) => status[w] = "PROCESSING" \/ w \in misread

\* An outcome is what Cashfree thinks, or thought before it reversed the
\* transfer; that a request failed is also true of one it refused.  An error
\* says nothing.
TrueOutcome(w, outcome) ==
    /\ outcome = "failed" => posts[w] # 0 /\ transfer[w] \in {"NONE", "FAILED"}
    /\ outcome = "success" => transfer[w] \in {"SUCCESS", "REVERSED"}
    /\ outcome = "reversed" => transfer[w] = "REVERSED"

\* An answer a flow is about to write down is still true.
AnswersAreTrue ==
    \A p \in Flows :
        flow[p].at \in {"apply", "record"} => TrueOutcome(flow[p].w, flow[p].answer)

MoneyInv ==
    /\ TransferWasPosted /\ HeldIsProcessing /\ AnswersAreTrue
    /\ RefundMeansNoTransfer /\ StatusIsTrue

--------------------------------------------------------------------------------
LEMMA TypeInit == Init => TypeOK
BY AmountAssumption, OpeningAssumption, NoWithdrawalAssumption
DEF Init, TypeOK, RowStatuses, SentStates, FlowStates, Steps, Outcomes, Idle,
    TransferStates

LEMMA AmountIsNat == \A w \in Withdrawals : Amount[w] \in Nat
BY AmountAssumption

LEMMA RefundOnceType ==
    ASSUME TypeOK, NEW w \in Withdrawals, RefundOnce(w)
    PROVE  /\ refund' \in [Withdrawals -> BOOLEAN]
           /\ credits' \in [Withdrawals -> Nat]
           /\ balance' \in Nat
<1>1. CASE refund[w]
  BY <1>1 DEF TypeOK, RefundOnce, moneyVars
<1>2. CASE ~refund[w]
  <2>1. refund' \in [Withdrawals -> BOOLEAN]
    BY <1>2 DEF TypeOK, RefundOnce
  <2>2. credits' \in [Withdrawals -> Nat]
    BY <1>2 DEF TypeOK, RefundOnce
  <2>3. balance' \in Nat
    BY <1>2, AmountIsNat DEF TypeOK, RefundOnce
  <2>4. QED BY <2>1, <2>2, <2>3
<1>3. QED BY <1>1, <1>2

LEMMA ApplyOutcomeType ==
    ASSUME TypeOK, NEW w \in Withdrawals, NEW outcome, ApplyOutcome(w, outcome)
    PROVE  /\ status' \in [Withdrawals -> RowStatuses]
           /\ sent' \in [Withdrawals -> SentStates]
           /\ known' \in [Withdrawals -> BOOLEAN]
           /\ refund' \in [Withdrawals -> BOOLEAN]
           /\ credits' \in [Withdrawals -> Nat]
           /\ balance' \in Nat
<1>1. KeepAnswer(w) => /\ sent' \in [Withdrawals -> SentStates]
                       /\ known' \in [Withdrawals -> BOOLEAN]
  BY DEF TypeOK, KeepAnswer, SentStates
<1>2. \A to \in RowStatuses :
         SetStatus(w, to) => status' \in [Withdrawals -> RowStatuses]
  BY DEF TypeOK, SetStatus
<1>3. {"SUCCESSFUL", "FAILED", "CANCELLED"} \subseteq RowStatuses
  BY DEF RowStatuses
<1>4. QED
  BY <1>1, <1>2, <1>3, RefundOnceType
  DEF ApplyOutcome, TypeOK, rowVars, moneyVars

\* The three ways a step changes where a flow is.
LEMMA FinishFlow ==
    ASSUME TypeOK, NEW p \in Flows, Finish(p)
    PROVE  /\ flow' \in [Flows -> FlowStates]
           /\ flow'[p].at = "idle" /\ flow'[p].w = NoWithdrawal
           /\ \A q \in Flows : q # p => flow'[q] = flow[q]
BY NoWithdrawalAssumption DEF TypeOK, Finish, Idle, FlowStates, Steps, Outcomes

LEMMA GoToFlow ==
    ASSUME TypeOK, NEW p \in Flows, NEW step \in Steps, GoTo(p, step)
    PROVE  /\ flow' \in [Flows -> FlowStates]
           /\ flow'[p].at = step
           /\ flow'[p].w = flow[p].w
           /\ flow'[p].answer = flow[p].answer
           /\ \A q \in Flows : q # p => flow'[q] = flow[q]
BY DEF TypeOK, GoTo, FlowStates

LEMMA AnswerFlow ==
    ASSUME TypeOK, NEW p \in Flows, NEW step \in Steps,
           NEW outcome \in Outcomes, Answer(p, step, outcome)
    PROVE  /\ flow' \in [Flows -> FlowStates]
           /\ flow'[p].at = step
           /\ flow'[p].w = flow[p].w
           /\ flow'[p].answer = outcome
           /\ \A q \in Flows : q # p => flow'[q] = flow[q]
BY DEF TypeOK, Answer, FlowStates

LEMMA OutcomeOfType == \A state : OutcomeOf(state) \in Outcomes
BY DEF OutcomeOf, Outcomes

\* What a flow step leaves alone keeps its type; the rest is the business of
\* the lemmas above.
LEMMA TypeStep == TypeOK /\ FlowsHaveWork /\ [Next]_vars => TypeOK'
<1> SUFFICES ASSUME TypeOK, FlowsHaveWork, [Next]_vars PROVE TypeOK'
  OBVIOUS
<1> USE DEF rowVars, moneyVars, cashfreeVars, historyVars
<1>1. CASE UNCHANGED vars
  BY <1>1 DEF TypeOK, vars
<1>2. ASSUME NEW w \in Withdrawals, Request(w) PROVE TypeOK'
  BY <1>2, AmountIsNat DEF TypeOK, Request, SetStatus, RowStatuses
<1>3. ASSUME NEW w \in Withdrawals, Reject(w) PROVE TypeOK'
  BY <1>3, RefundOnceType DEF TypeOK, Reject, SetStatus, RowStatuses
<1>4. ASSUME NEW w \in Withdrawals, Arrive(w) \/ Decide(w) PROVE TypeOK'
  BY <1>4 DEF TypeOK, Arrive, Decide, TransferStates
<1>5. ASSUME NEW w \in Withdrawals, Webhook(w) PROVE TypeOK'
  BY <1>5, ApplyOutcomeType DEF TypeOK, Webhook
<1>6. ASSUME NEW w \in Withdrawals, NEW p \in Flows, StartProcessing(p, w)
      PROVE  TypeOK'
  <2>1. [Idle EXCEPT !.at = "gate", !.w = w] \in FlowStates
    BY DEF Idle, FlowStates, Steps, Outcomes
  <2>2. QED
    BY <1>6, <2>1
    DEF TypeOK, StartProcessing, SetStatus, RowStatuses, SentStates
<1>7. ASSUME NEW w \in Withdrawals, NEW p \in Flows, Reconcile(p, w)
      PROVE  TypeOK'
  <2>1. [Idle EXCEPT !.at = "read", !.w = w, !.unsent = Unsent(w),
                     !.reconciling = TRUE] \in FlowStates
    BY DEF Idle, FlowStates, Steps, Outcomes, Unsent, TypeOK
  <2>2. QED
    BY <1>7, <2>1 DEF TypeOK, Reconcile
<1>8. ASSUME NEW p \in Flows, FlowStep(p) PROVE TypeOK'
  <2> DEFINE w == flow[p].w
  <2>1. CASE ReadFound(p) \/ ReadError(p) \/ ReplyAccepted(p) \/ ReplyError(p)
    BY <2>1, AnswerFlow, OutcomeOfType
    DEF TypeOK, ReadFound, ReadError, ReplyAccepted, ReplyError, Steps, Outcomes
  <2>2. CASE ReadMissing(p) \/ Gate(p) \/ Refrain(p) \/ Throw(p)
    BY <2>2, GoToFlow, FinishFlow
    DEF TypeOK, ReadMissing, Gate, Refrain, Throw, Steps
  <2>3. CASE ReplyTimeout(p) \/ Crash(p)
    BY <2>3, FinishFlow DEF TypeOK, ReplyTimeout, Crash
  <2>4. CASE Fail(p)
    <3>1. w \in Withdrawals
      BY <2>4 DEF Fail, FlowsHaveWork
    <3>2. QED
      BY <2>4, <3>1, RefundOnceType, FinishFlow
      DEF TypeOK, Fail, SetStatus, RowStatuses, SentStates
  <2>5. CASE Claim(p)
    BY <2>5, GoToFlow, FinishFlow DEF TypeOK, Claim, Steps, SentStates
  <2>6. CASE Post(p)
    <3>1. w \in Withdrawals
      BY <2>6 DEF Post, FlowsHaveWork
    <3>2. transfer' \in [Withdrawals -> TransferStates]
      BY <2>6, <3>1 DEF TypeOK, Post, TransferStates
    <3>3. posts' \in [Withdrawals -> Nat]
      BY <2>6, <3>1 DEF TypeOK, Post
    <3>4. flow' \in [Flows -> FlowStates]
      BY <2>6, GoToFlow DEF Post, Steps
    <3>5. QED
      BY <2>6, <3>2, <3>3, <3>4 DEF TypeOK, Post
  <2>7. CASE Release(p)
    BY <2>7, FinishFlow DEF TypeOK, Release, SentStates
  <2>8. CASE ReplyRefused(p)
    BY <2>8, AnswerFlow
    DEF TypeOK, ReplyRefused, Steps, Outcomes, TransferStates
  <2>9. CASE Record(p)
    <3>1. KeepAnswer(w) \/ UNCHANGED <<sent, known>>
      BY <2>9 DEF Record
    <3>2. sent' \in [Withdrawals -> SentStates] /\ known' \in [Withdrawals -> BOOLEAN]
      BY <3>1 DEF TypeOK, KeepAnswer, SentStates
    <3>3. flow' \in [Flows -> FlowStates]
      BY <2>9, GoToFlow, FinishFlow DEF Record, Steps
    <3>4. QED
      BY <2>9, <3>2, <3>3 DEF TypeOK, Record
  <2>10. CASE Apply(p)
    <3>1. w \in Withdrawals
      BY <2>10 DEF Apply, FlowsHaveWork
    <3>2. QED
      BY <2>10, <3>1, ApplyOutcomeType, FinishFlow DEF TypeOK, Apply
  <2>11. CASE Catch(p)
    <3>1. w \in Withdrawals
      BY <2>11 DEF Catch, FlowsHaveWork
    <3>2. QED
      BY <2>11, <3>1, FinishFlow DEF TypeOK, Catch, SetStatus, RowStatuses
  <2>12. QED
    BY <1>8, <2>1, <2>2, <2>3, <2>4, <2>5, <2>6, <2>7, <2>8, <2>9, <2>10, <2>11
    DEF FlowStep
<1>9. QED
  BY <1>1, <1>2, <1>3, <1>4, <1>5, <1>6, <1>7, <1>8 DEF Next

\* What starts a flow moves it from idle to the withdrawal.
LEMMA StartFlow ==
    ASSUME TypeOK, NEW p \in Flows, NEW w \in Withdrawals,
           StartProcessing(p, w) \/ Reconcile(p, w)
    PROVE  /\ flow'[p].w = w
           /\ flow'[p].at \in {"gate", "read"}
           /\ \A q \in Flows : q # p => flow'[q] = flow[q]
<1> DEFINE f == [Idle EXCEPT !.at = "gate", !.w = w]
           g == [Idle EXCEPT !.at = "read", !.w = w, !.unsent = Unsent(w),
                             !.reconciling = TRUE]
<1>1. f.w = w /\ g.w = w /\ f.at = "gate" /\ g.at = "read"
  BY DEF Idle
<1>2. flow' = [flow EXCEPT ![p] = f] \/ flow' = [flow EXCEPT ![p] = g]
  BY DEF StartProcessing, Reconcile
<1> HIDE DEF f, g
<1>3. QED
  BY <1>1, <1>2 DEF TypeOK

\* A step of a flow moves a flow that is not idle, keeps it on its withdrawal
\* unless it ends, and moves no other.
LEMMA StepFlow ==
    ASSUME TypeOK, NEW p \in Flows, FlowStep(p)
    PROVE  /\ flow[p].at # "idle"
           /\ \/ flow'[p].w = flow[p].w
              \/ flow'[p].at = "idle" /\ flow'[p].w = NoWithdrawal
           /\ \A q \in Flows : q # p => flow'[q] = flow[q]
<1>1. flow[p].at # "idle"
  BY DEF FlowStep, ReadFound, ReadMissing, ReadError, Gate, Fail, Claim, Refrain,
         Post, Release, ReplyAccepted, ReplyRefused, ReplyError, ReplyTimeout,
         Record, Apply, Throw, Catch, Crash
<1>2. \/ \E step \in Steps : GoTo(p, step)
      \/ \E step \in Steps, outcome \in Outcomes : Answer(p, step, outcome)
      \/ Finish(p)
  BY OutcomeOfType
  DEF FlowStep, ReadFound, ReadMissing, ReadError, Gate, Fail, Claim, Refrain,
      Post, Release, ReplyAccepted, ReplyRefused, ReplyError, ReplyTimeout,
      Record, Apply, Throw, Catch, Crash, Steps, Outcomes
<1>3. QED
  BY <1>1, <1>2, GoToFlow, AnswerFlow, FinishFlow

LEMMA FlowsHaveWorkStep == TypeOK /\ FlowsHaveWork /\ [Next]_vars => FlowsHaveWork'
<1> SUFFICES ASSUME TypeOK, FlowsHaveWork, [Next]_vars PROVE FlowsHaveWork'
  OBVIOUS
<1>1. CASE UNCHANGED flow
  BY <1>1 DEF FlowsHaveWork
<1>2. ASSUME NEW w \in Withdrawals, NEW p \in Flows,
             StartProcessing(p, w) \/ Reconcile(p, w)
      PROVE  FlowsHaveWork'
  BY <1>2, StartFlow DEF FlowsHaveWork
<1>3. ASSUME NEW p \in Flows, FlowStep(p) PROVE FlowsHaveWork'
  BY <1>3, StepFlow DEF FlowsHaveWork
<1>4. QED
  BY <1>1, <1>2, <1>3
  DEF Next, vars, cashfreeVars, Request, Reject, Arrive, Decide, Webhook

(***************************************************************************)
(* The rows, the wallet, the flows and the transfers keep their types; the *)
(* balance never becomes negative, whatever withdrawals are debited and    *)
(* refunded in between (debitWallet, creditWallet).                        *)
(***************************************************************************)
THEOREM TypeCorrect == Spec => []TypeOK
<1>1. Init => TypeOK /\ FlowsHaveWork
  BY TypeInit DEF Init, FlowsHaveWork, Idle
<1>2. (TypeOK /\ FlowsHaveWork) /\ [Next]_vars => (TypeOK /\ FlowsHaveWork)'
  BY TypeStep, FlowsHaveWorkStep
<1>3. QED
  BY <1>1, <1>2, PTL DEF Spec

--------------------------------------------------------------------------------
(***************************************************************************)
(* Whatever step is taken, at most one withdrawal is refunded, and only    *)
(* one whose column was empty.                                             *)
(***************************************************************************)
LEMMA RefundStep ==
    ASSUME TypeOK, FlowsHaveWork, [Next]_vars
    PROVE  UNCHANGED <<refund, credits>> \/ \E w \in Withdrawals : RefundOnce(w)
<1> USE DEF moneyVars, rowVars, historyVars
<1>1. ASSUME NEW w \in Withdrawals, NEW outcome, ApplyOutcome(w, outcome)
      PROVE  UNCHANGED <<refund, credits>> \/ RefundOnce(w)
  BY <1>1 DEF ApplyOutcome
<1>2. ASSUME NEW w \in Withdrawals,
             Request(w) \/ Reject(w) \/ Arrive(w) \/ Decide(w) \/ Webhook(w)
      PROVE  UNCHANGED <<refund, credits>> \/ RefundOnce(w)
  BY <1>1, <1>2 DEF Request, Reject, Arrive, Decide, Webhook
<1>3. ASSUME NEW w \in Withdrawals, NEW p \in Flows,
             StartProcessing(p, w) \/ Reconcile(p, w)
      PROVE  UNCHANGED <<refund, credits>>
  BY <1>3 DEF StartProcessing, Reconcile
<1>4. ASSUME NEW p \in Flows, FlowStep(p)
      PROVE  \/ UNCHANGED <<refund, credits>>
             \/ flow[p].w \in Withdrawals /\ RefundOnce(flow[p].w)
  <2>1. flow[p].w \in Withdrawals
    BY <1>4, StepFlow DEF FlowsHaveWork
  <2>2. QED
    BY <1>1, <1>4, <2>1
    DEF FlowStep, ReadFound, ReadMissing, ReadError, Gate, Fail, Claim, Refrain,
        Post, Release, ReplyAccepted, ReplyRefused, ReplyError, ReplyTimeout,
        Record, Apply, Throw, Catch, Crash
<1>5. QED
  BY <1>2, <1>3, <1>4 DEF Next, vars

(***************************************************************************)
(* refundWithdrawalOnce: a withdrawal is refunded at most once, however    *)
(* often and by whomever a refund is asked for.                            *)
(***************************************************************************)
THEOREM RefundedOnce == Spec => []RefundedAtMostOnce
<1> DEFINE Inv == TypeOK /\ FlowsHaveWork /\ RefundedAtMostOnce
<1>1. Init => Inv
  BY TypeInit DEF Init, FlowsHaveWork, Idle, RefundedAtMostOnce
<1>2. Inv /\ [Next]_vars => Inv'
  <2> SUFFICES ASSUME Inv, [Next]_vars PROVE RefundedAtMostOnce'
    BY TypeStep, FlowsHaveWorkStep
  <2>1. CASE UNCHANGED <<refund, credits>>
    BY <2>1 DEF RefundedAtMostOnce
  <2>2. ASSUME NEW w \in Withdrawals, RefundOnce(w) PROVE RefundedAtMostOnce'
    BY <2>2 DEF RefundedAtMostOnce, RefundOnce, moneyVars, TypeOK
  <2>3. QED
    BY <2>1, <2>2, RefundStep
<1>3. QED
  BY <1>1, <1>2, PTL DEF Spec

--------------------------------------------------------------------------------
(***************************************************************************)
(* The claim.  Most steps can only make a row less unsent, start no        *)
(* withdrawal and hand no claim to a flow; for those the invariant is kept *)
(* by ClaimFrame.                                                          *)
(***************************************************************************)
LEMMA ClaimFrame ==
    ASSUME ClaimInv,
           posts' = posts,
           \A v \in Withdrawals : sent'[v] = sent[v] \/ sent'[v] # "NOT_SENT",
           \A v \in Withdrawals : status'[v] \in Unstarted => status[v] \in Unstarted,
           \A v \in Withdrawals, q \in Flows :
              /\ flow'[q].w = v => flow[q].w = v \/ status'[v] \notin Unstarted
              /\ Holder(q, v)' => Holder(q, v)
    PROVE  ClaimInv'
<1>1. UnstartedIsUntouched'
  BY DEF ClaimInv, UnstartedIsUntouched, Unstarted
<1>2. SentStaysSent'
  BY DEF ClaimInv, SentStaysSent
<1>3. OneHolder'
  BY DEF ClaimInv, OneHolder
<1>4. QED
  BY <1>1, <1>2, <1>3 DEF ClaimInv

LEMMA ApplyFrame ==
    ASSUME TypeOK, NEW w \in Withdrawals, NEW outcome, ApplyOutcome(w, outcome)
    PROVE  \A v \in Withdrawals :
              /\ sent'[v] = sent[v] \/ sent'[v] = "PROVIDER"
              /\ status'[v] = status[v] \/ status'[v] \notin Unstarted
<1>1. KeepAnswer(w) =>
        \A v \in Withdrawals : sent'[v] = sent[v] \/ sent'[v] = "PROVIDER"
  BY DEF TypeOK, KeepAnswer
<1>2. \A to \in {"SUCCESSFUL", "FAILED", "CANCELLED"} : SetStatus(w, to) =>
        \A v \in Withdrawals : status'[v] = status[v] \/ status'[v] \notin Unstarted
  BY DEF TypeOK, SetStatus, Unstarted
<1>3. QED
  BY <1>1, <1>2 DEF ApplyOutcome, rowVars

LEMMA ClaimStep ==
    ASSUME TypeOK, FlowsHaveWork, ClaimInv, [Next]_vars
    PROVE  ClaimInv'
<1> USE DEF rowVars, moneyVars, cashfreeVars, historyVars
<1>1. CASE UNCHANGED vars
  BY <1>1, ClaimFrame DEF vars, Holder
<1>2. ASSUME NEW w \in Withdrawals,
             Request(w) \/ Reject(w) \/ Arrive(w) \/ Decide(w)
      PROVE  ClaimInv'
  BY <1>2, ClaimFrame
  DEF Request, Reject, Arrive, Decide, SetStatus, Unstarted, TypeOK, Holder
<1>3. ASSUME NEW w \in Withdrawals, Webhook(w) PROVE ClaimInv'
  BY <1>3, ApplyFrame, ClaimFrame DEF Webhook, Holder
<1>4. ASSUME NEW w \in Withdrawals, NEW p \in Flows, StartProcessing(p, w)
      PROVE  ClaimInv'
  <2>1. posts[w] = 0 /\ \A q \in Flows : flow[q].w # w
    BY <1>4 DEF StartProcessing, ClaimInv, UnstartedIsUntouched, Unstarted
  <2>2. /\ posts' = posts
        /\ status' = [status EXCEPT ![w] = "PROCESSING"]
        /\ sent' = [sent EXCEPT ![w] = "NOT_SENT"]
    BY <1>4 DEF StartProcessing, SetStatus
  <2>3. \A v \in Withdrawals, q \in Flows : Holder(q, v)' => v # w /\ Holder(q, v)
    BY <1>4, <2>1, StartFlow DEF Holder
  <2>4. UnstartedIsUntouched'
    BY <1>4, <2>2, StartFlow
    DEF TypeOK, ClaimInv, UnstartedIsUntouched, Unstarted
  <2>5. SentStaysSent'
    BY <2>1, <2>2, <2>3 DEF TypeOK, ClaimInv, SentStaysSent
  <2>6. OneHolder'
    BY <2>2, <2>3 DEF TypeOK, ClaimInv, OneHolder
  <2>7. QED
    BY <2>4, <2>5, <2>6 DEF ClaimInv
<1>5. ASSUME NEW w \in Withdrawals, NEW p \in Flows, Reconcile(p, w)
      PROVE  ClaimInv'
  <2>1. UNCHANGED <<status, sent, posts>> /\ status[w] = "PROCESSING"
    BY <1>5 DEF Reconcile
  <2>2. /\ flow'[p].w = w /\ flow'[p].at \notin {"post", "release"}
        /\ \A q \in Flows : q # p => flow'[q] = flow[q]
    BY <1>5, StartFlow
  <2>3. \A v \in Withdrawals, q \in Flows :
           /\ flow'[q].w = v => flow[q].w = v \/ status'[v] \notin Unstarted
           /\ Holder(q, v)' => Holder(q, v)
    BY <2>1, <2>2 DEF Holder, Unstarted
  <2>4. QED
    BY <2>1, <2>3, ClaimFrame
<1>6. ASSUME NEW p \in Flows, FlowStep(p) PROVE ClaimInv'
  <2> DEFINE w == flow[p].w
  <2>1. w \in Withdrawals
    BY <1>6, StepFlow DEF FlowsHaveWork
  <2>2. \A v \in Withdrawals, q \in Flows :
           flow'[q].w = v => flow[q].w = v
    BY <1>6, StepFlow, NoWithdrawalAssumption
  <2>3. \A v \in Withdrawals, q \in Flows :
           Holder(q, v)' => \/ Holder(q, v)
                            \/ q = p /\ v = w /\ flow'[p].at \in {"post", "release"}
    <3>1. \A q \in Flows : q # p => flow'[q] = flow[q]
      BY <1>6, StepFlow
    <3>2. QED
      BY <2>2, <3>1 DEF Holder
  <2>4. status[w] \notin Unstarted
    BY <2>1 DEF ClaimInv, UnstartedIsUntouched, Unstarted
  <2>5. CASE \/ ReadFound(p) \/ ReadMissing(p) \/ ReadError(p) \/ Gate(p)
             \/ ReplyAccepted(p) \/ ReplyRefused(p) \/ ReplyError(p)
             \/ ReplyTimeout(p) \/ Throw(p) \/ Crash(p) \/ Refrain(p)
    <3>1. Holder(p, w)' => Holder(p, w)
      BY <2>5, GoToFlow, AnswerFlow, FinishFlow, OutcomeOfType
      DEF ReadFound, ReadMissing, ReadError, Gate, ReplyAccepted, ReplyRefused,
          ReplyError, ReplyTimeout, Throw, Crash, Refrain, Steps, Outcomes, Holder
    <3>2. UNCHANGED <<status, sent, posts>>
      BY <2>5
      DEF ReadFound, ReadMissing, ReadError, Gate, ReplyAccepted, ReplyRefused,
          ReplyError, ReplyTimeout, Throw, Crash, Refrain
    <3>3. \A v \in Withdrawals, q \in Flows : Holder(q, v)' => Holder(q, v)
      BY <2>3, <3>1 DEF Holder
    <3>4. QED
      BY <2>2, <3>2, <3>3, ClaimFrame
  <2>6. CASE Fail(p) \/ Record(p) \/ Apply(p) \/ Catch(p)
    <3>1. flow'[p].at \notin {"post", "release"}
      BY <2>6, GoToFlow, FinishFlow DEF Fail, Record, Apply, Catch, Steps
    <3>2. \A v \in Withdrawals, q \in Flows : Holder(q, v)' => Holder(q, v)
      BY <2>3, <3>1
    <3>3. posts' = posts
      BY <2>6 DEF Fail, Record, Apply, Catch
    <3>4. \A v \in Withdrawals :
             /\ sent'[v] = sent[v] \/ sent'[v] = "PROVIDER"
             /\ status'[v] = status[v] \/ status'[v] \notin Unstarted
      BY <2>1, <2>6, ApplyFrame
      DEF Fail, Record, Apply, Catch, KeepAnswer, SetStatus, Unstarted, TypeOK
    <3>5. QED
      BY <2>2, <3>2, <3>3, <3>4, ClaimFrame
  <2>7. CASE Claim(p)
    <3>1. CASE status[w] = "PROCESSING" /\ Unsent(w)
      <4>1. sent' = [sent EXCEPT ![w] = "CLAIMED"] /\ UNCHANGED <<status, posts>>
        BY <2>7, <3>1 DEF Claim
      <4>2. posts[w] = 0 /\ \A q \in Flows : ~Holder(q, w)
        BY <2>1, <3>1 DEF ClaimInv, SentStaysSent, OneHolder, Unsent
      <4>3. UnstartedIsUntouched'
        BY <2>2, <4>1 DEF ClaimInv, UnstartedIsUntouched
      <4>4. SentStaysSent'
        BY <2>1, <2>3, <4>1, <4>2 DEF TypeOK, ClaimInv, SentStaysSent
      <4>5. OneHolder'
        BY <2>1, <2>3, <4>1, <4>2 DEF TypeOK, ClaimInv, OneHolder
      <4>6. QED
        BY <4>3, <4>4, <4>5 DEF ClaimInv
    <3>2. CASE ~(status[w] = "PROCESSING" /\ Unsent(w))
      <4>1. UNCHANGED <<status, sent, posts>> /\ Finish(p)
        BY <2>7, <3>2 DEF Claim
      <4>2. \A v \in Withdrawals, q \in Flows : Holder(q, v)' => Holder(q, v)
        BY <2>3, <4>1, FinishFlow
      <4>3. QED
        BY <2>2, <4>1, <4>2, ClaimFrame
    <3>3. QED
      BY <3>1, <3>2
  <2>8. CASE Post(p)
    <3>1. Holder(p, w)
      BY <2>8 DEF Post, Holder
    <3>2. /\ posts' = [posts EXCEPT ![w] = @ + 1]
          /\ UNCHANGED <<status, sent>>
          /\ flow'[p].at = "reply"
      BY <2>8, GoToFlow DEF Post, Steps
    <3>3. posts[w] = 0 /\ sent[w] # "NOT_SENT" /\ \A q \in Flows : Holder(q, w) => q = p
      BY <2>1, <3>1 DEF ClaimInv, SentStaysSent, OneHolder
    <3>4. \A v \in Withdrawals, q \in Flows : Holder(q, v)' => v # w /\ Holder(q, v)
      BY <2>3, <3>2, <3>3 DEF Holder
    <3>5. UnstartedIsUntouched'
      BY <2>1, <2>2, <2>4, <3>2
      DEF TypeOK, ClaimInv, UnstartedIsUntouched, Unstarted
    <3>6. SentStaysSent'
      BY <2>1, <3>2, <3>3, <3>4 DEF TypeOK, ClaimInv, SentStaysSent
    <3>7. OneHolder'
      BY <3>2, <3>4 DEF TypeOK, ClaimInv, OneHolder
    <3>8. QED
      BY <3>5, <3>6, <3>7 DEF ClaimInv
  <2>9. CASE Release(p)
    <3>1. Holder(p, w)
      BY <2>9 DEF Release, Holder
    <3>2. posts[w] = 0 /\ \A q \in Flows : Holder(q, w) => q = p
      BY <2>1, <3>1 DEF ClaimInv, SentStaysSent, OneHolder
    <3>3. /\ UNCHANGED <<status, posts>>
          /\ \A v \in Withdrawals : v # w => sent'[v] = sent[v]
          /\ flow'[p].at = "idle"
      BY <2>1, <2>9, FinishFlow DEF TypeOK, Release
    <3>4. \A v \in Withdrawals, q \in Flows : Holder(q, v)' => v # w /\ Holder(q, v)
      BY <2>3, <3>2, <3>3 DEF Holder
    <3>5. UnstartedIsUntouched'
      BY <2>2, <3>3 DEF ClaimInv, UnstartedIsUntouched
    <3>6. SentStaysSent'
      BY <3>2, <3>3, <3>4 DEF ClaimInv, SentStaysSent
    <3>7. OneHolder'
      BY <3>3, <3>4 DEF ClaimInv, OneHolder
    <3>8. QED
      BY <3>5, <3>6, <3>7 DEF ClaimInv
  <2>10. QED
    BY <1>6, <2>5, <2>6, <2>7, <2>8, <2>9 DEF FlowStep
<1>7. QED
  BY <1>1, <1>2, <1>3, <1>4, <1>5, <1>6 DEF Next

(***************************************************************************)
(* claimPayoutTransferDispatch: no interleaving of admins, workers,        *)
(* webhooks, crashes, faults and HTTP errors sends Cashfree two requests   *)
(* for one withdrawal.                                                     *)
(***************************************************************************)
THEOREM PostedAtMostOnce == Spec => []AtMostOnePost
<1>1. Init => PostInv
  BY TypeInit, NoWithdrawalAssumption
  DEF Init, PostInv, FlowsHaveWork, Idle, ClaimInv, UnstartedIsUntouched,
      SentStaysSent, OneHolder, Holder
<1>2. PostInv /\ [Next]_vars => PostInv'
  BY TypeStep, FlowsHaveWorkStep, ClaimStep DEF PostInv
<1>3. PostInv => AtMostOnePost
  BY DEF PostInv, TypeOK, ClaimInv, SentStaysSent, AtMostOnePost
<1>4. QED
  BY <1>1, <1>2, <1>3, PTL DEF Spec

--------------------------------------------------------------------------------
(***************************************************************************)
(* The money.  RowMove and TransferMove say what any step may do to a row  *)
(* and to a transfer; the invariants are then matters of these two.  The   *)
(* last two moves of a row are the ones misread and reopened record.       *)
(***************************************************************************)
RowMove(v) ==
    \/ status'[v] = status[v] /\ refund'[v] = refund[v]
    \/ /\ status[v] \in Unstarted
       /\ status'[v] \in {"REQUESTED", "PROCESSING"}
       /\ refund'[v] = refund[v]
    \/ /\ \/ status[v] \in {"REQUESTED", "PENDING"}
          \/ status[v] = "PROCESSING" /\ sent[v] = "NOT_SENT"
       /\ status'[v] \in {"FAILED", "REJECTED"}
       /\ refund'[v]
    \/ /\ status[v] = "PROCESSING" /\ status'[v] = "FAILED" /\ refund'[v]
       /\ TrueOutcome(v, "failed")
    \/ /\ status[v] = "PROCESSING" /\ status'[v] = "SUCCESSFUL"
       /\ refund'[v] = refund[v]
       /\ TrueOutcome(v, "success")
    \/ /\ status[v] \in {"SUCCESSFUL", "PROCESSING"}
       /\ status'[v] = "CANCELLED"
       /\ refund'[v]
       /\ TrueOutcome(v, "reversed")
    \/ /\ status[v] = "PROCESSING" /\ status'[v] = "FAILED" /\ refund'[v]
       /\ v \in misread'
    \/ /\ Caught(v)
       /\ refund'[v] = refund[v] /\ (refund[v] => v \in reopened')

TransferMove(v) ==
    \/ transfer'[v] = transfer[v]
    \/ /\ \E p \in Flows : Holder(p, v)
       /\ transfer[v] = "NONE" /\ transfer'[v] = "WIRE"
    \/ transfer[v] = "WIRE" /\ transfer'[v] \in {"PENDING", "NONE"}
    \/ transfer[v] = "PENDING" /\ transfer'[v] \in {"SUCCESS", "FAILED"}
    \/ transfer[v] = "SUCCESS" /\ transfer'[v] = "REVERSED"

LEMMA RefundOnceRow ==
    ASSUME TypeOK, NEW w \in Withdrawals, RefundOnce(w)
    PROVE  refund'[w] /\ \A v \in Withdrawals : v # w => refund'[v] = refund[v]
BY DEF TypeOK, RefundOnce, moneyVars

LEMMA ApplyRow ==
    ASSUME TypeOK, NEW w \in Withdrawals, NEW outcome,
           ApplyOutcome(w, outcome),
           \/ TrueOutcome(w, outcome)
           \/ outcome = "failed" /\ (status[w] = "PROCESSING" => w \in misread')
    PROVE  \A v \in Withdrawals : RowMove(v)
<1> USE DEF TypeOK, RowMove, SetStatus, rowVars, moneyVars
<1>1. CASE outcome = "success" /\ status[w] = "PROCESSING"
  BY <1>1 DEF ApplyOutcome
<1>2. CASE outcome = "failed" /\ status[w] = "PROCESSING"
  <2>1. RefundOnce(w) /\ status' = [status EXCEPT ![w] = "FAILED"]
    BY <1>2 DEF ApplyOutcome
  <2>2. refund'[w] /\ \A v \in Withdrawals : v # w => refund'[v] = refund[v]
    BY <2>1, RefundOnceRow
  <2>3. QED
    BY <1>2, <2>1, <2>2
<1>3. CASE outcome = "reversed" /\ status[w] \in {"SUCCESSFUL", "PROCESSING"}
  <2>1. RefundOnce(w) /\ status' = [status EXCEPT ![w] = "CANCELLED"]
    BY <1>3 DEF ApplyOutcome
  <2>2. refund'[w] /\ \A v \in Withdrawals : v # w => refund'[v] = refund[v]
    BY <2>1, RefundOnceRow
  <2>3. QED
    BY <1>3, <2>1, <2>2
<1>4. QED
  BY <1>1, <1>2, <1>3 DEF ApplyOutcome

LEMMA RowMoves ==
    ASSUME PostInv, MoneyInv, [Next]_vars
    PROVE  \A v \in Withdrawals : RowMove(v)
<1> USE DEF rowVars, moneyVars, cashfreeVars, historyVars, PostInv
<1>1. CASE UNCHANGED <<status, refund>>
  BY <1>1 DEF RowMove
<1>2. ASSUME NEW w \in Withdrawals,
             Request(w) \/ Reject(w) \/ \E p \in Flows : StartProcessing(p, w)
      PROVE  \A v \in Withdrawals : RowMove(v)
  BY <1>2, RefundOnceRow
  DEF TypeOK, RowMove, Request, Reject, StartProcessing, SetStatus, Unstarted,
      Unsent
<1>3. ASSUME NEW w \in Withdrawals, Webhook(w)
      PROVE  \A v \in Withdrawals : RowMove(v)
  <2>1. PICK outcome \in Announced(transfer[w]) : ApplyOutcome(w, outcome)
    BY <1>3 DEF Webhook
  <2>2. transfer[w] \in TransferStates
    BY DEF TypeOK
  <2>3. TrueOutcome(w, outcome)
    BY <2>1, <2>2
    DEF Announced, TransferStates, TrueOutcome, MoneyInv, TransferWasPosted
  <2>4. QED
    BY <2>1, <2>3, ApplyRow
<1>4. ASSUME NEW p \in Flows, Apply(p) PROVE \A v \in Withdrawals : RowMove(v)
  <2>1. flow[p].w \in Withdrawals /\ TrueOutcome(flow[p].w, flow[p].answer)
    BY <1>4 DEF Apply, FlowsHaveWork, MoneyInv, AnswersAreTrue
  <2>2. CASE flow[p].answer = "error"
    <3>1. ApplyOutcome(flow[p].w, "failed")
      BY <1>4, <2>2 DEF Apply
    <3>2. status[flow[p].w] = "PROCESSING" => flow[p].w \in misread'
      BY <1>4, <2>2 DEF Apply
    <3>3. QED
      BY <2>1, <3>1, <3>2, ApplyRow
  <2>3. CASE flow[p].answer # "error"
    <3>1. ApplyOutcome(flow[p].w, flow[p].answer)
      BY <1>4, <2>3 DEF Apply
    <3>2. QED
      BY <2>1, <3>1, ApplyRow
  <2>4. QED
    BY <2>2, <2>3
<1>5. ASSUME NEW p \in Flows, Fail(p) PROVE \A v \in Withdrawals : RowMove(v)
  <2>1. flow[p].w \in Withdrawals
    BY <1>5 DEF Fail, FlowsHaveWork
  <2>2. CASE status[flow[p].w] = "PROCESSING" /\ Unsent(flow[p].w)
    <3>1. RefundOnce(flow[p].w) /\ status' = [status EXCEPT ![flow[p].w] = "FAILED"]
      BY <1>5, <2>2 DEF Fail, SetStatus
    <3>2. /\ refund'[flow[p].w]
          /\ \A v \in Withdrawals : v # flow[p].w => refund'[v] = refund[v]
      BY <2>1, <3>1, RefundOnceRow
    <3>3. QED
      BY <2>1, <2>2, <3>1, <3>2 DEF TypeOK, RowMove, Unsent
  <2>3. CASE ~(status[flow[p].w] = "PROCESSING" /\ Unsent(flow[p].w))
    BY <1>5, <2>3 DEF Fail, RowMove
  <2>4. QED
    BY <2>2, <2>3
<1>6. ASSUME NEW p \in Flows, Catch(p) PROVE \A v \in Withdrawals : RowMove(v)
  <2>1. flow[p].w \in Withdrawals /\ refund' = refund
    BY <1>6 DEF Catch, FlowsHaveWork
  <2>2. \A v \in Withdrawals : v # flow[p].w => status'[v] = status[v]
    BY <1>6 DEF Catch, SetStatus, TypeOK
  <2>3. Caught(flow[p].w)
    <3>1. status'[flow[p].w] = "PROCESSING"
      BY <1>6, <2>1 DEF Catch, SetStatus, TypeOK
    <3>2. flow[p].at = "catch" /\ flow'[p] = Idle
      BY <1>6 DEF Catch, Finish, TypeOK
    <3>3. QED
      BY <3>1, <3>2 DEF Caught
  <2>4. refund[flow[p].w] => flow[p].w \in reopened'
    BY <1>6 DEF Catch
  <2>5. QED
    BY <2>1, <2>2, <2>3, <2>4 DEF RowMove
<1>7. ASSUME NEW p \in Flows, FlowStep(p), ~Apply(p), ~Fail(p), ~Catch(p)
      PROVE  UNCHANGED <<status, refund>>
  BY <1>7
  DEF FlowStep, ReadFound, ReadMissing, ReadError, Gate, Claim, Refrain, Post,
      Release, ReplyAccepted, ReplyRefused, ReplyError, ReplyTimeout, Record,
      Throw, Crash
<1>8. QED
  BY <1>1, <1>2, <1>3, <1>4, <1>5, <1>6, <1>7
  DEF Next, vars, Reconcile, Arrive, Decide

\* What misread and reopened recorded stays recorded.
LEMMA HistoryGrows ==
    ASSUME [Next]_vars
    PROVE  misread \subseteq misread' /\ reopened \subseteq reopened'
<1> USE DEF historyVars
<1>1. ASSUME NEW p \in Flows, FlowStep(p)
      PROVE  misread \subseteq misread' /\ reopened \subseteq reopened'
  BY <1>1
  DEF FlowStep, ReadFound, ReadMissing, ReadError, Gate, Fail, Claim, Refrain, Post,
      Release, ReplyAccepted, ReplyRefused, ReplyError, ReplyTimeout, Record, Apply,
      Throw, Catch, Crash
<1>2. QED
  BY <1>1
  DEF Next, vars, Request, Reject, Arrive, Decide, Webhook, StartProcessing, Reconcile

LEMMA TransferMoves ==
    ASSUME PostInv, [Next]_vars, NEW v \in Withdrawals
    PROVE  /\ TransferMove(v)
           /\ posts[v] # 0 => posts'[v] # 0
           /\ transfer'[v] = "WIRE" => transfer[v] = "WIRE" \/ posts'[v] # 0
           /\ transfer'[v] # transfer[v] => UNCHANGED <<status, refund>>
<1> DEFINE Goal == /\ TransferMove(v)
                   /\ posts[v] # 0 => posts'[v] # 0
                   /\ transfer'[v] = "WIRE" => transfer[v] = "WIRE" \/ posts'[v] # 0
                   /\ transfer'[v] # transfer[v] => UNCHANGED <<status, refund>>
<1> USE DEF rowVars, moneyVars, cashfreeVars, historyVars, PostInv
<1>1. CASE UNCHANGED <<transfer, posts>>
  BY <1>1 DEF TransferMove
<1>2. ASSUME NEW w \in Withdrawals, Arrive(w) \/ Decide(w) PROVE Goal
  BY <1>2 DEF TypeOK, TransferMove, Arrive, Decide
<1>3. ASSUME NEW p \in Flows, Post(p) PROVE Goal
  <2>1. posts' = [posts EXCEPT ![flow[p].w] = @ + 1] /\ UNCHANGED <<status, refund>>
    BY <1>3 DEF Post
  <2>2. v = flow[p].w => Holder(p, v)
    BY <1>3 DEF Post, Holder
  <2>3. transfer'[v] = IF v = flow[p].w /\ transfer[v] = "NONE" THEN "WIRE" ELSE transfer[v]
    BY <1>3 DEF TypeOK, Post
  <2>4. posts[v] \in Nat /\ posts'[v] = IF v = flow[p].w THEN posts[v] + 1 ELSE posts[v]
    BY <2>1 DEF TypeOK
  <2>5. QED
    BY <2>1, <2>2, <2>3, <2>4 DEF TransferMove
<1>4. ASSUME NEW p \in Flows, ReplyRefused(p) PROVE Goal
  BY <1>4 DEF TypeOK, TransferMove, ReplyRefused
<1>5. ASSUME NEW p \in Flows, FlowStep(p), ~Post(p), ~ReplyRefused(p)
      PROVE  UNCHANGED <<transfer, posts>>
  BY <1>5
  DEF FlowStep, ReadFound, ReadMissing, ReadError, Gate, Claim, Refrain, Fail,
      Release, ReplyAccepted, ReplyError, ReplyTimeout, Record, Apply, Throw,
      Catch, Crash
<1>6. QED
  BY <1>1, <1>2, <1>3, <1>4, <1>5
  DEF Next, vars, Request, Reject, Webhook, StartProcessing, Reconcile

\* Outcomes stay true, and the outcome of a transfer is true.
LEMMA TrueOutcomeStays ==
    ASSUME PostInv, MoneyInv, [Next]_vars,
           NEW w \in Withdrawals, NEW outcome, TrueOutcome(w, outcome)
    PROVE  TrueOutcome(w, outcome)'
<1>1. outcome' = outcome
  OBVIOUS
<1>2. posts[w] # 0 => \A p \in Flows : ~Holder(p, w)
  BY DEF PostInv, ClaimInv, SentStaysSent
<1>3. QED
  BY <1>1, <1>2, TransferMoves DEF TrueOutcome, TransferMove

LEMMA OutcomeOfIsTrue ==
    ASSUME MoneyInv, NEW w \in Withdrawals
    PROVE  TrueOutcome(w, OutcomeOf(transfer[w]))
BY DEF MoneyInv, TransferWasPosted, TrueOutcome, OutcomeOf

\* A flow that holds a claim after a step held it before or won it by the step.
LEMMA HolderStep ==
    ASSUME PostInv, [Next]_vars, NEW p \in Flows, NEW w \in Withdrawals,
           Holder(p, w)'
    PROVE  \/ Holder(p, w)
           \/ Claim(p) /\ flow[p].w = w /\ status[w] = "PROCESSING"
<1> USE DEF PostInv, rowVars, moneyVars, cashfreeVars
<1>1. CASE UNCHANGED flow
  BY <1>1 DEF Holder
<1>2. ASSUME NEW v \in Withdrawals, NEW q \in Flows,
             StartProcessing(q, v) \/ Reconcile(q, v)
      PROVE  Holder(p, w)
  <2>1. flow'[q].at \notin {"post", "release"}
    BY <1>2, StartFlow
  <2>2. flow'[p] = flow[p]
    BY <1>2, <2>1, StartFlow DEF Holder
  <2>3. QED
    BY <2>2 DEF Holder
<1>3. ASSUME NEW q \in Flows, FlowStep(q), q # p PROVE Holder(p, w)
  BY <1>3, StepFlow DEF Holder
<1>4. ASSUME FlowStep(p)
      PROVE  \/ Holder(p, w)
             \/ Claim(p) /\ flow[p].w = w /\ status[w] = "PROCESSING"
  <2>1. flow[p].w = w /\ flow'[p].at \in {"post", "release"}
    BY <1>4, StepFlow, NoWithdrawalAssumption DEF Holder
  <2>2. CASE Claim(p)
    BY <2>1, <2>2, FinishFlow DEF Claim
  <2>3. CASE Refrain(p)
    BY <2>1, <2>3 DEF Refrain, Holder
  <2>4. CASE ~Claim(p) /\ ~Refrain(p)
    <3>1. \/ \E step \in Steps \ {"post", "release"} : GoTo(p, step)
          \/ \E step \in Steps \ {"post", "release"}, outcome \in Outcomes :
                 Answer(p, step, outcome)
          \/ Finish(p)
      BY <1>4, <2>4, OutcomeOfType
      DEF FlowStep, ReadFound, ReadMissing, ReadError, Gate, Fail, Post, Release,
          ReplyAccepted, ReplyRefused, ReplyError, ReplyTimeout, Record, Apply,
          Throw, Catch, Crash, Steps, Outcomes
    <3>2. flow'[p].at \notin {"post", "release"}
      BY <3>1, GoToFlow, AnswerFlow, FinishFlow
    <3>3. QED
      BY <2>1, <3>2
  <2>5. QED
    BY <2>2, <2>3, <2>4
<1>5. QED
  BY <1>1, <1>2, <1>3, <1>4
  DEF Next, vars, Request, Reject, Arrive, Decide, Webhook

LEMMA MoneyStep ==
    ASSUME PostInv, MoneyInv, [Next]_vars
    PROVE  MoneyInv'
<1> USE DEF PostInv
<1>1. TransferWasPosted'
  <2> SUFFICES ASSUME NEW w \in Withdrawals, transfer'[w] # "NONE"
               PROVE  posts'[w] # 0
    BY DEF TransferWasPosted
  <2>1. CASE transfer[w] # "NONE"
    BY <2>1, TransferMoves DEF MoneyInv, TransferWasPosted
  <2>2. CASE transfer[w] = "NONE"
    <3>1. transfer'[w] = "WIRE"
      BY <2>2, TransferMoves DEF TransferMove
    <3>2. QED
      BY <2>2, <3>1, TransferMoves
  <2>3. QED
    BY <2>1, <2>2
<1>2. HeldIsProcessing'
  <2> SUFFICES ASSUME NEW p \in Flows, NEW w \in Withdrawals, Holder(p, w)'
               PROVE  status'[w] = "PROCESSING" \/ w \in misread'
    BY DEF HeldIsProcessing
  <2>1. CASE Holder(p, w)
    <3>1. posts[w] = 0 /\ sent[w] # "NOT_SENT"
      BY <2>1 DEF ClaimInv, SentStaysSent, OneHolder
    <3>2. (status[w] = "PROCESSING" \/ w \in misread') /\ transfer[w] = "NONE"
      BY <2>1, <3>1, HistoryGrows DEF MoneyInv, HeldIsProcessing, TransferWasPosted
    <3>3. QED
      BY <3>1, <3>2, RowMoves DEF RowMove, TrueOutcome, Unstarted, Caught
  <2>2. CASE Claim(p) /\ flow[p].w = w /\ status[w] = "PROCESSING"
    BY <2>2 DEF Claim
  <2>3. QED
    BY <2>1, <2>2, HolderStep
<1>3. AnswersAreTrue'
  <2> SUFFICES ASSUME NEW p \in Flows, flow'[p].at \in {"apply", "record"}
               PROVE  TrueOutcome(flow[p].w, flow[p].answer)'
    BY DEF AnswersAreTrue
  <2> USE DEF rowVars, moneyVars, cashfreeVars, historyVars
  <2>1. CASE flow'[p] = flow[p]
    <3>1. flow[p].w \in Withdrawals /\ TrueOutcome(flow[p].w, flow[p].answer)
      BY <2>1 DEF MoneyInv, AnswersAreTrue, FlowsHaveWork
    <3>2. TrueOutcome(flow[p].w, flow[p].answer)'
      BY <2>1, <3>1, TrueOutcomeStays
    <3>3. QED
      BY <3>2
  <2>2. ASSUME NEW v \in Withdrawals, NEW q \in Flows,
               StartProcessing(q, v) \/ Reconcile(q, v)
        PROVE  flow'[p] = flow[p]
    <3>1. flow'[q].at \notin {"apply", "record"}
      BY <2>2, StartFlow
    <3>2. QED
      BY <2>2, <3>1, StartFlow
  <2>3. ASSUME NEW q \in Flows, FlowStep(q), q # p PROVE flow'[p] = flow[p]
    BY <2>3, StepFlow
  <2>4. ASSUME FlowStep(p) PROVE TrueOutcome(flow[p].w, flow[p].answer)'
    <3> DEFINE w == flow[p].w
    <3>1. w \in Withdrawals /\ flow'[p].w = w
      BY <2>4, StepFlow DEF FlowsHaveWork
    <3>2. CASE ReadFound(p) \/ ReplyAccepted(p)
      <4>1. flow'[p].answer = OutcomeOf(transfer[w]) /\ UNCHANGED <<transfer, posts>>
        BY <3>2, AnswerFlow, OutcomeOfType DEF ReadFound, ReplyAccepted, Steps
      <4>2. TrueOutcome(w, OutcomeOf(transfer[w]))
        BY <3>1, OutcomeOfIsTrue
      <4>3. QED
        BY <3>1, <4>1, <4>2 DEF TrueOutcome
    <3>3. CASE ReplyRefused(p)
      <4>1. transfer[w] = "WIRE" /\ transfer'[w] = "NONE" /\ posts'[w] = posts[w]
            /\ flow'[p].answer = "failed"
        BY <3>1, <3>3, AnswerFlow DEF TypeOK, ReplyRefused, Steps, Outcomes
      <4>2. posts[w] # 0
        BY <3>1, <4>1 DEF MoneyInv, TransferWasPosted
      <4>3. QED
        BY <3>1, <4>1, <4>2 DEF TrueOutcome
    <3>4. CASE Record(p)
      <4>1. flow'[p].answer = flow[p].answer /\ flow[p].at = "record"
        BY <3>4, GoToFlow, FinishFlow DEF Record, Steps
      <4>2. TrueOutcome(w, flow[p].answer)
        BY <4>1 DEF MoneyInv, AnswersAreTrue
      <4>3. TrueOutcome(w, flow[p].answer)'
        BY <3>1, <4>1, <4>2, <2>4, TrueOutcomeStays
      <4>4. QED
        BY <4>3
    <3>5. CASE ReadError(p) \/ ReplyError(p)
      <4>1. flow'[p].answer = "error"
        BY <3>5, AnswerFlow DEF ReadError, ReplyError, Steps, Outcomes
      <4>2. QED
        BY <3>1, <4>1 DEF TrueOutcome
    <3>6. CASE ~(\/ ReadFound(p) \/ ReplyAccepted(p) \/ ReplyRefused(p) \/ Record(p)
                 \/ ReadError(p) \/ ReplyError(p))
      <4>1. \/ \E step \in Steps \ {"apply", "record"} : GoTo(p, step)
            \/ Finish(p)
        BY <2>4, <3>6
        DEF FlowStep, ReadMissing, Gate, Fail, Claim, Refrain, Post, Release,
            ReplyTimeout, Apply, Throw, Catch, Crash, Steps
      <4>2. flow'[p].at \notin {"apply", "record"}
        BY <4>1, GoToFlow, FinishFlow
      <4>3. QED
        BY <4>2
    <3>7. QED
      BY <3>2, <3>3, <3>4, <3>5, <3>6
  <2>5. QED
    BY <2>1, <2>2, <2>3, <2>4
    DEF Next, vars, Request, Reject, Arrive, Decide, Webhook
<1>4. RefundMeansNoTransfer'
  <2> SUFFICES ASSUME NEW w \in Withdrawals, refund'[w], w \notin misread' \cup reopened'
               PROVE  transfer'[w] \in {"NONE", "FAILED", "REVERSED"}
    BY DEF RefundMeansNoTransfer
  <2>1. w \notin misread \cup reopened
    BY HistoryGrows
  <2>2. CASE refund[w]
    <3>1. transfer[w] \in {"NONE", "FAILED", "REVERSED"} /\ status[w] # "PROCESSING"
      BY <2>1, <2>2 DEF MoneyInv, RefundMeansNoTransfer, StatusIsTrue
    <3>2. \A p \in Flows : ~Holder(p, w)
      BY <2>1, <3>1 DEF MoneyInv, HeldIsProcessing
    <3>3. QED
      BY <3>1, <3>2, TransferMoves DEF TransferMove
  <2>3. CASE ~refund[w]
    <3>1. RowMove(w) /\ transfer'[w] = transfer[w]
      BY <2>3, RowMoves, TransferMoves
    <3>2. status[w] \in Unstarted \/ sent[w] = "NOT_SENT" => transfer[w] = "NONE"
      BY DEF MoneyInv, TransferWasPosted, ClaimInv, UnstartedIsUntouched, SentStaysSent
    <3>3. QED
      BY <2>3, <3>1, <3>2 DEF RowMove, TrueOutcome, Unstarted
  <2>4. QED
    BY <2>2, <2>3 DEF TypeOK
<1>5. StatusIsTrue'
  <2> SUFFICES ASSUME NEW w \in Withdrawals
               PROVE  /\ status'[w] = "SUCCESSFUL"
                            => transfer'[w] \in {"SUCCESS", "REVERSED"}
                      /\ status'[w] \in {"FAILED", "REJECTED", "CANCELLED"} => refund'[w]
                      /\ refund'[w] => \/ status'[w] \in {"FAILED", "REJECTED", "CANCELLED"}
                                       \/ w \in reopened'
    BY DEF StatusIsTrue
  <2>1. RowMove(w) /\ TransferMove(w)
    BY RowMoves, TransferMoves
  <2>2. /\ status[w] = "SUCCESSFUL" => transfer[w] \in {"SUCCESS", "REVERSED"}
        /\ status[w] \in {"FAILED", "REJECTED", "CANCELLED"} => refund[w]
        /\ refund[w] => \/ status[w] \in {"FAILED", "REJECTED", "CANCELLED"}
                        \/ w \in reopened'
    BY HistoryGrows DEF MoneyInv, StatusIsTrue
  <2>3. status'[w] = "SUCCESSFUL" => transfer'[w] \in {"SUCCESS", "REVERSED"}
    BY <2>1, <2>2 DEF RowMove, TransferMove, TrueOutcome, Caught
  <2>4. status'[w] \in {"FAILED", "REJECTED", "CANCELLED"} => refund'[w]
    BY <2>1, <2>2 DEF RowMove, Caught
  <2>5. refund'[w] => \/ status'[w] \in {"FAILED", "REJECTED", "CANCELLED"}
                      \/ w \in reopened'
    BY <2>1, <2>2 DEF RowMove, Unstarted, TypeOK
  <2>6. QED
    BY <2>3, <2>4, <2>5
<1>6. QED
  BY <1>1, <1>2, <1>3, <1>4, <1>5 DEF MoneyInv

LEMMA MoneyInit == Init => PostInv /\ MoneyInv
BY TypeInit, NoWithdrawalAssumption
DEF Init, PostInv, FlowsHaveWork, Idle, ClaimInv, UnstartedIsUntouched,
    SentStaysSent, OneHolder, Holder, MoneyInv, TransferWasPosted,
    HeldIsProcessing, AnswersAreTrue, RefundMeansNoTransfer, StatusIsTrue

LEMMA MoneyHolds == Spec => [](PostInv /\ MoneyInv)
<1>1. (PostInv /\ MoneyInv) /\ [Next]_vars => (PostInv /\ MoneyInv)'
  BY TypeStep, FlowsHaveWorkStep, ClaimStep, MoneyStep DEF PostInv
<1>2. QED
  BY <1>1, MoneyInit, PTL DEF Spec

(***************************************************************************)
(* Money leaves the company once: a withdrawal that was given back to the  *)
(* wallet has no transfer on its way, undecided or paid, unless an HTTP    *)
(* error decided it or a failed reconcile reopened it after the refund.    *)
(***************************************************************************)
THEOREM RefundedIsUnpaid == Spec => []RefundMeansNoTransfer
<1>1. MoneyInv => RefundMeansNoTransfer
  BY DEF MoneyInv
<1>2. QED
  BY <1>1, MoneyHolds, PTL

(***************************************************************************)
(* The status of a withdrawal says what became of the money, errors and    *)
(* failed reconciles included: SUCCESSFUL only what Cashfree paid, what    *)
(* failed, was rejected or was cancelled has its refund, and a refund      *)
(* shows in the status unless a failed reconcile hid it.                   *)
(***************************************************************************)
THEOREM StatusTellsTheTruth == Spec => []StatusIsTrue
<1>1. MoneyInv => StatusIsTrue
  BY DEF MoneyInv
<1>2. QED
  BY <1>1, MoneyHolds, PTL

(***************************************************************************)
(* A decided withdrawal stays decided, whatever late answers, errors and   *)
(* webhooks arrive: only the bank's reversal and the catch block of a      *)
(* failed reconcile change it.                                             *)
(***************************************************************************)
THEOREM DecisionsAreFinal == Spec => DecidedIsFinal
<1>1. PostInv /\ MoneyInv /\ [Next]_vars =>
        [\A w \in Withdrawals :
           /\ status[w] \in {"FAILED", "REJECTED", "CANCELLED"}
                 => status'[w] = status[w] \/ Caught(w)
           /\ status[w] = "SUCCESSFUL"
                 => status'[w] \in {"SUCCESSFUL", "CANCELLED"} \/ Caught(w)
        ]_vars
  BY RowMoves DEF RowMove, Unstarted
<1>2. QED
  BY <1>1, MoneyHolds, PTL DEF Spec, DecidedIsFinal

--------------------------------------------------------------------------------
(***************************************************************************)
(* Conservation.  A withdrawal debited and not given back is at stake.     *)
(* Together with the balance that is the same amount for ever, whatever    *)
(* fails: a step moves one withdrawal's amount between the two, or none.   *)
(***************************************************************************)
AtStake(w) == IF status[w] # "NONE" /\ ~refund[w] THEN Amount[w] ELSE 0

Conserves(w) ==
    /\ balance' + AtStake(w)' = balance + AtStake(w)
    /\ \A v \in Withdrawals \ {w} : AtStake(v)' = AtStake(v)

NothingMoves == balance' = balance /\ \A v \in Withdrawals : AtStake(v)' = AtStake(v)

MoneyIsConserved == [][NothingMoves \/ \E w \in Withdrawals : Conserves(w)]_vars

\* What was given back had been asked for.
RefundsWereAsked == \A w \in Withdrawals : status[w] = "NONE" => ~refund[w]

\* A status that stays, or moves on from one that is not NONE.
MovesOn(w) ==
    \E to \in RowStatuses \ {"NONE"} : status[w] # "NONE" /\ SetStatus(w, to)

LEMMA SameStake ==
    ASSUME NEW w \in Withdrawals, refund'[w] = refund[w],
           status'[w] # "NONE" <=> status[w] # "NONE"
    PROVE  AtStake(w)' = AtStake(w)
BY DEF AtStake

LEMMA StatusMoves ==
    ASSUME TypeOK, NEW w \in Withdrawals, MovesOn(w)
    PROVE  /\ status[w] # "NONE" /\ status'[w] # "NONE"
           /\ \A v \in Withdrawals : v # w => status'[v] = status[v]
BY DEF TypeOK, MovesOn, SetStatus

\* A debited withdrawal is given back, or keeps what it has.
LEMMA RefundConserves ==
    ASSUME TypeOK, RefundsWereAsked, NEW w \in Withdrawals, MovesOn(w), RefundOnce(w)
    PROVE  Conserves(w) /\ RefundsWereAsked'
<1>1. /\ status[w] # "NONE" /\ status'[w] # "NONE"
      /\ \A v \in Withdrawals : v # w => status'[v] = status[v]
  BY StatusMoves
<1>2. refund'[w] /\ \A v \in Withdrawals : v # w => refund'[v] = refund[v]
  BY RefundOnceRow
<1>3. RefundsWereAsked'
  BY <1>1, <1>2 DEF RefundsWereAsked
<1>4. \A v \in Withdrawals \ {w} : AtStake(v)' = AtStake(v)
  BY <1>1, <1>2 DEF AtStake
<1>5. AtStake(w)' = 0
  BY <1>2 DEF AtStake
<1>6. CASE refund[w]
  <2>1. balance' = balance /\ AtStake(w) = 0
    BY <1>6 DEF RefundOnce, moneyVars, AtStake
  <2>2. QED
    BY <1>3, <1>4, <1>5, <2>1 DEF Conserves
<1>7. CASE ~refund[w]
  <2>1. balance' = balance + Amount[w] /\ AtStake(w) = Amount[w]
    BY <1>1, <1>7 DEF RefundOnce, AtStake
  <2>2. balance \in Nat /\ Amount[w] \in Nat
    BY AmountIsNat DEF TypeOK
  <2>3. balance' + AtStake(w)' = balance + AtStake(w)
    BY <1>5, <2>1, <2>2
  <2>4. QED
    BY <1>3, <1>4, <2>3 DEF Conserves
<1>8. QED
  BY <1>6, <1>7

LEMMA StatusConserves ==
    ASSUME TypeOK, RefundsWereAsked, NEW w \in Withdrawals,
           MovesOn(w) \/ UNCHANGED status, UNCHANGED <<refund, balance>>
    PROVE  NothingMoves /\ RefundsWereAsked'
<1>1. \A v \in Withdrawals : status'[v] # "NONE" <=> status[v] # "NONE"
  BY StatusMoves
<1>2. \A v \in Withdrawals : AtStake(v)' = AtStake(v)
  BY <1>1 DEF AtStake
<1>3. QED
  BY <1>1, <1>2 DEF NothingMoves, RefundsWereAsked

LEMMA OutcomeConserves ==
    ASSUME TypeOK, RefundsWereAsked, NEW w \in Withdrawals, NEW outcome, ApplyOutcome(w, outcome)
    PROVE  (NothingMoves \/ Conserves(w)) /\ RefundsWereAsked'
<1>1. CASE outcome = "failed" /\ status[w] = "PROCESSING"
  <2>1. MovesOn(w) /\ RefundOnce(w)
    BY <1>1 DEF ApplyOutcome, MovesOn, RowStatuses
  <2>2. QED
    BY <2>1, RefundConserves
<1>2. CASE outcome = "reversed" /\ status[w] \in {"SUCCESSFUL", "PROCESSING"}
  <2>1. MovesOn(w) /\ RefundOnce(w)
    BY <1>2 DEF ApplyOutcome, MovesOn, RowStatuses
  <2>2. QED
    BY <2>1, RefundConserves
<1>3. CASE outcome = "success" /\ status[w] = "PROCESSING"
  <2>1. MovesOn(w) /\ UNCHANGED <<refund, balance>>
    BY <1>3 DEF ApplyOutcome, MovesOn, RowStatuses, moneyVars
  <2>2. QED
    BY <2>1, StatusConserves
<1>4. CASE UNCHANGED <<status, refund, balance>>
  BY <1>4, StatusConserves
<1>5. QED
  BY <1>1, <1>2, <1>3, <1>4 DEF ApplyOutcome, rowVars, moneyVars

LEMMA RequestConserves ==
    ASSUME TypeOK, RefundsWereAsked, NEW w \in Withdrawals, Request(w)
    PROVE  Conserves(w) /\ RefundsWereAsked'
<1>1. /\ status[w] = "NONE" /\ status'[w] = "REQUESTED"
      /\ \A v \in Withdrawals : v # w => status'[v] = status[v]
      /\ refund' = refund /\ ~refund[w]
  BY DEF Request, SetStatus, TypeOK, RefundsWereAsked
<1>2. balance' = balance - Amount[w] /\ balance \in Nat /\ Amount[w] \in Nat /\ balance >= Amount[w]
  BY AmountIsNat DEF Request, TypeOK
<1>3. AtStake(w) = 0 /\ AtStake(w)' = Amount[w]
  BY <1>1 DEF AtStake
<1>4. \A v \in Withdrawals \ {w} : AtStake(v)' = AtStake(v)
  BY <1>1 DEF AtStake
<1>5. balance' + AtStake(w)' = balance + AtStake(w)
  BY <1>2, <1>3
<1>6. RefundsWereAsked'
  BY <1>1 DEF RefundsWereAsked
<1>7. QED
  BY <1>4, <1>5, <1>6 DEF Conserves

LEMMA FlowConserves ==
    ASSUME PostInv, RefundsWereAsked, NEW p \in Flows, FlowStep(p)
    PROVE  (NothingMoves \/ \E w \in Withdrawals : Conserves(w)) /\ RefundsWereAsked'
<1> DEFINE w == flow[p].w
<1>1. w \in Withdrawals /\ TypeOK
  BY StepFlow DEF PostInv, FlowsHaveWork
<1>2. status[w] # "NONE"
  BY <1>1 DEF PostInv, ClaimInv, UnstartedIsUntouched, Unstarted
<1> HIDE DEF w
<1>3. CASE Apply(p)
  BY <1>1, <1>3, OutcomeConserves DEF Apply, w
<1>4. CASE Catch(p)
  <2>1. MovesOn(w) /\ UNCHANGED <<refund, balance>>
    BY <1>2, <1>4 DEF Catch, MovesOn, RowStatuses, moneyVars, w
  <2>2. QED
    BY <1>1, <2>1, StatusConserves
<1>5. CASE Fail(p)
  <2>1. \/ MovesOn(w) /\ RefundOnce(w)
        \/ UNCHANGED <<status, refund, balance>>
    BY <1>2, <1>5 DEF Fail, MovesOn, RowStatuses, rowVars, moneyVars, w
  <2>2. QED
    BY <1>1, <2>1, RefundConserves, StatusConserves
<1>6. CASE UNCHANGED <<status, refund, balance>>
  BY <1>1, <1>6, StatusConserves
<1>7. QED
  BY <1>3, <1>4, <1>5, <1>6
  DEF FlowStep, ReadFound, ReadMissing, ReadError, Gate, Claim, Refrain, Post, Release,
      ReplyAccepted, ReplyRefused, ReplyError, ReplyTimeout, Record, Throw, Crash,
      rowVars, moneyVars

LEMMA StepConserves ==
    PostInv /\ RefundsWereAsked /\ [Next]_vars =>
        (NothingMoves \/ \E w \in Withdrawals : Conserves(w)) /\ RefundsWereAsked'
<1> SUFFICES ASSUME PostInv, RefundsWereAsked, [Next]_vars
             PROVE  (NothingMoves \/ \E w \in Withdrawals : Conserves(w)) /\ RefundsWereAsked'
  OBVIOUS
<1>1. TypeOK
  BY DEF PostInv
<1>2. ASSUME UNCHANGED <<status, refund, balance>>
      PROVE  NothingMoves /\ RefundsWereAsked'
  BY <1>2 DEF NothingMoves, RefundsWereAsked, AtStake
<1>3. ASSUME NEW w \in Withdrawals, Reject(w)
      PROVE  Conserves(w) /\ RefundsWereAsked'
  <2>1. MovesOn(w) /\ RefundOnce(w)
    BY <1>3 DEF Reject, MovesOn, RowStatuses
  <2>2. QED
    BY <1>1, <2>1, RefundConserves
<1>4. ASSUME NEW w \in Withdrawals, NEW p \in Flows, StartProcessing(p, w)
      PROVE  NothingMoves /\ RefundsWereAsked'
  <2>1. MovesOn(w) /\ UNCHANGED <<refund, balance>>
    BY <1>4 DEF StartProcessing, MovesOn, RowStatuses, moneyVars
  <2>2. QED
    BY <1>1, <2>1, StatusConserves
<1>5. ASSUME NEW w \in Withdrawals, Webhook(w)
      PROVE  (NothingMoves \/ Conserves(w)) /\ RefundsWereAsked'
  BY <1>1, <1>5, OutcomeConserves DEF Webhook
<1>6. QED
  BY <1>1, <1>2, <1>3, <1>4, <1>5, RequestConserves, FlowConserves
  DEF Next, vars, rowVars, moneyVars, Reconcile, Arrive, Decide

(***************************************************************************)
(* No money is made or lost: with flows that overlap and crash, errors     *)
(* that decide nothing and transactions that fail, what leaves the balance *)
(* is at stake in one withdrawal, and what comes back was at stake in one  *)
(* (debitWallet, refundWithdrawalOnce).                                    *)
(***************************************************************************)
THEOREM NoMoneyIsMadeOrLost == Spec => MoneyIsConserved
<1>1. Init => PostInv /\ RefundsWereAsked
  BY MoneyInit DEF Init, RefundsWereAsked
<1>2. (PostInv /\ RefundsWereAsked) /\ [Next]_vars => (PostInv /\ RefundsWereAsked)'
  BY TypeStep, FlowsHaveWorkStep, ClaimStep, StepConserves DEF PostInv
<1>3. PostInv /\ RefundsWereAsked /\ [Next]_vars =>
        [NothingMoves \/ \E w \in Withdrawals : Conserves(w)]_vars
  BY StepConserves
<1>4. QED
  BY <1>1, <1>2, <1>3, PTL DEF Spec, MoneyIsConserved
================================================================================
