--------------------------- MODULE PaymentsProofs ---------------------------
(***************************************************************************)
(* Whoever settles first, and however often, a payment gives its period    *)
(* once: for any accounts, plans, intents, actions in flight and bounds.   *)
(***************************************************************************)
EXTENDS Payments, FiniteSetTheorems, TLAPS

\* What Wire has said of an intent in flight is final.
AnswersAreTrue ==
    \A c \in DOMAIN checking :
        checking[c].status \in Final => wire[checking[c].intent] = checking[c].status

AttemptsAreTrue ==
    \A a \in DOMAIN checkout :
        checkout[a].step = "settle" => wire[checkout[a].intent] = "succeeded"

\* An account without a plan has no time left to extend.
NoPlanNoTime == \A u \in Accounts : plan[u] = NoPlan => expiresAt[u] = 0

Truthful == SettledAsDecided /\ AnswersAreTrue /\ AttemptsAreTrue /\ NoPlanNoTime
IInv == TypeOK /\ Truthful

LEMMA InitInv == Init => IInv
  BY PaymentsAssumption
  DEF Init, IInv, TypeOK, Truthful, SettledAsDecided, AnswersAreTrue, AttemptsAreTrue,
      NoPlanNoTime, WireStatuses, Final

\* Wire's side moves forward only.
LEMMA WireForward ==
    ASSUME IInv, wire' \in [Intents -> WireStatuses],
           \A i \in Intents : wire[i] \in Final => wire'[i] = wire[i],
           UNCHANGED <<payments, recorded, checking, checkout, plan, expiresAt>>
    PROVE  Truthful'
<1>1. \A i \in DOMAIN payments : payments[i].status \in {"pending"} \cup Final
  BY DEF IInv, TypeOK, Row
<1>2. \A i \in DOMAIN payments : payments[i].status \in {"pending", wire'[i]}
  BY <1>1 DEF IInv, Truthful, SettledAsDecided, TypeOK
<1>3. \A c \in DOMAIN checking : checking[c].intent \in Intents
  BY DEF IInv, TypeOK
<1>4. \A a \in DOMAIN checkout : checkout[a].intent \in Intents
  BY DEF IInv, TypeOK, Checkout
<1>5. SettledAsDecided'
  BY <1>2 DEF SettledAsDecided
<1>6. AnswersAreTrue'
  BY <1>3 DEF IInv, Truthful, AnswersAreTrue
<1>7. AttemptsAreTrue'
  BY <1>4 DEF IInv, Truthful, AttemptsAreTrue, Final
<1>8. NoPlanNoTime'
  BY DEF IInv, Truthful, NoPlanNoTime
<1> QED BY <1>5, <1>6, <1>7, <1>8 DEF Truthful

\* A settlement with Wire's own answer.
LEMMA SettleKeeps ==
    ASSUME IInv, NEW i \in Intents, NEW status \in Final, wire[i] = status,
           settle(i, status), UNCHANGED <<now, wire, list, failures, used>>
    PROVE  /\ payments' \in [DOMAIN payments' -> Row] /\ DOMAIN payments' = DOMAIN payments
           /\ plan' \in [Accounts -> Plans \cup {NoPlan}] /\ expiresAt' \in [Accounts -> Nat]
           /\ recorded' = recorded
           /\ SettledAsDecided' /\ NoPlanNoTime'
<1>1. CASE ~Settleable(i)
  BY <1>1 DEF settle, IInv, TypeOK, Truthful, SettledAsDecided, NoPlanNoTime, account
<1>2. CASE Settleable(i)
  <2> DEFINE u == payments[i].account
             from == IF activePlan(u) # NoPlan THEN expiresAt[u] ELSE now
  <2>1. i \in DOMAIN payments /\ payments[i] \in Row
    BY <1>2 DEF Settleable, IInv, TypeOK
  <2>2. u \in Accounts /\ payments[i].plan \in Plans
    BY <2>1 DEF Row
  <2>3. payments' = [payments EXCEPT ![i].status = status]
    BY <1>2 DEF settle
  <2>4. /\ DOMAIN payments' = DOMAIN payments
        /\ payments' \in [DOMAIN payments -> Row]
        /\ \A j \in DOMAIN payments : payments'[j].status = IF j = i THEN status ELSE payments[j].status
    BY <2>1, <2>3 DEF IInv, TypeOK, Row
  <2>5. SettledAsDecided'
    BY <2>4 DEF IInv, Truthful, SettledAsDecided
  <2>6. from \in Nat
    BY <2>2 DEF IInv, TypeOK
  <2>7. \/ UNCHANGED account
        \/ /\ plan' = [plan EXCEPT ![u] = payments[i].plan]
           /\ expiresAt' = [expiresAt EXCEPT ![u] = from + PLAN_DURATION]
    BY <1>2 DEF settle
  <2>8. from + PLAN_DURATION \in Nat
    BY <2>6, PaymentsAssumption
  <2>9. plan' \in [Accounts -> Plans \cup {NoPlan}] /\ expiresAt' \in [Accounts -> Nat]
    <3>1. CASE UNCHANGED account
      BY <3>1 DEF IInv, TypeOK, account
    <3>2. CASE /\ plan' = [plan EXCEPT ![u] = payments[i].plan]
               /\ expiresAt' = [expiresAt EXCEPT ![u] = from + PLAN_DURATION]
      <4>1. plan \in [Accounts -> Plans \cup {NoPlan}] /\ expiresAt \in [Accounts -> Nat]
        BY DEF IInv, TypeOK
      <4>2. plan' \in [Accounts -> Plans \cup {NoPlan}]
        BY <2>2, <3>2, <4>1
      <4> HIDE DEF from
      <4>3. expiresAt' \in [Accounts -> Nat]
        BY <2>2, <2>8, <3>2, <4>1
      <4> QED BY <4>2, <4>3
    <3> QED BY <2>7, <3>1, <3>2
  <2>10. NoPlanNoTime'
    BY <2>2, <2>7, PaymentsAssumption DEF IInv, Truthful, TypeOK, NoPlanNoTime, account
  <2>11. recorded' = recorded
    BY DEF settle
  <2> QED BY <2>4, <2>5, <2>9, <2>10, <2>11
<1> QED BY <1>1, <1>2

---------------------------------------------------------------------------
(* The steps of a checkout. *)

LEMMA StartKeepsInv ==
    ASSUME IInv, NEW a \in Attempts, NEW i \in Intents, NEW u \in Accounts, NEW p \in Plans,
           startCheckout(a, i, u, p)
    PROVE  IInv'
<1>1. /\ DOMAIN checkout' = DOMAIN checkout \cup {a}
      /\ checkout' \in [DOMAIN checkout' -> Checkout]
      /\ AttemptsAreTrue'
  BY DEF startCheckout, With, IInv, TypeOK, Checkout, Truthful, AttemptsAreTrue
<1> QED BY <1>1 DEF startCheckout, IInv, TypeOK, Truthful, SettledAsDecided, AnswersAreTrue,
                    NoPlanNoTime, account, table

LEMMA OnItsWay ==
    ASSUME IInv, NEW a \in DOMAIN checkout
    PROVE  /\ checkout[a].intent \in Intents /\ checkout[a].account \in Accounts
           /\ checkout[a].plan \in Plans
  BY DEF IInv, TypeOK, Checkout

LEMMA GoesKeeps ==
    ASSUME IInv, NEW a \in DOMAIN checkout, NEW step \in {"record", "confirm", "settle"},
           Goes(a, step)
    PROVE  /\ DOMAIN checkout' = DOMAIN checkout
           /\ checkout' \in [DOMAIN checkout' -> Checkout]
           /\ \A b \in DOMAIN checkout : checkout'[b].intent = checkout[b].intent
           /\ \A b \in DOMAIN checkout :
                 checkout'[b].step = IF b = a THEN step ELSE checkout[b].step
<1>1. checkout \in [DOMAIN checkout -> Checkout]
  BY DEF IInv, TypeOK
<1>2. checkout' = [checkout EXCEPT ![a].step = step]
  BY DEF Goes
<1>3. DOMAIN checkout' = DOMAIN checkout
  BY <1>2
<1>4. ASSUME NEW b \in DOMAIN checkout
      PROVE  /\ checkout'[b] \in Checkout
             /\ checkout'[b].intent = checkout[b].intent
             /\ checkout'[b].step = IF b = a THEN step ELSE checkout[b].step
  <2>1. checkout[b] \in Checkout
    BY <1>1
  <2>2. checkout'[b] = IF b = a THEN [checkout[b] EXCEPT !.step = step] ELSE checkout[b]
    BY <1>1, <1>2
  <2> QED BY <2>1, <2>2 DEF Checkout
<1>5. checkout' = [b \in DOMAIN checkout' |-> checkout'[b]]
  BY <1>1, <1>2
<1> QED BY <1>3, <1>4, <1>5

LEMMA DoneKeeps ==
    ASSUME IInv, NEW a, Done(a)
    PROVE  /\ DOMAIN checkout' \subseteq DOMAIN checkout
           /\ checkout' \in [DOMAIN checkout' -> Checkout]
           /\ \A b \in DOMAIN checkout' : checkout'[b] = checkout[b]
  BY DEF IInv, TypeOK, Done, WithoutKey

LEMMA CreateKeepsInv ==
    ASSUME IInv, NEW a \in Attempts, CreateIntent(a)
    PROVE  IInv'
<1> DEFINE i == checkout[a].intent
<1>1. a \in DOMAIN checkout /\ i \in Intents
  BY OnItsWay DEF CreateIntent, At
<1>2. wire' \in [Intents -> WireStatuses] /\ \A j \in Intents : wire[j] \in Final => wire'[j] = wire[j]
  BY <1>1 DEF CreateIntent, IInv, TypeOK, WireStatuses, Final
<1>3. Goes(a, "record")
  BY DEF CreateIntent
<1>4. DOMAIN checkout' = DOMAIN checkout /\ checkout' \in [DOMAIN checkout' -> Checkout]
  BY <1>1, <1>3, GoesKeeps
<1>5. AttemptsAreTrue'
  BY <1>1, <1>2, <1>3, GoesKeeps, OnItsWay DEF IInv, Truthful, AttemptsAreTrue, Final
<1>6. SettledAsDecided'
  <2>1. \A j \in DOMAIN payments : payments[j].status \in {"pending"} \cup Final
    BY DEF IInv, TypeOK, Row
  <2> QED BY <1>2, <2>1 DEF CreateIntent, IInv, TypeOK, Truthful, SettledAsDecided, table
<1>7. AnswersAreTrue'
  BY <1>2 DEF CreateIntent, IInv, TypeOK, Truthful, AnswersAreTrue
<1> QED BY <1>2, <1>4, <1>5, <1>6, <1>7
        DEF CreateIntent, IInv, TypeOK, Truthful, NoPlanNoTime, account, table

LEMMA RecordKeepsInv ==
    ASSUME IInv, NEW a \in Attempts, RecordPending(a)
    PROVE  IInv'
<1> DEFINE i == checkout[a].intent
           u == checkout[a].account
           p == checkout[a].plan
<1>1. a \in DOMAIN checkout /\ i \in Intents /\ u \in Accounts /\ p \in Plans
  BY OnItsWay DEF RecordPending, At
<1>2. Goes(a, "confirm")
  BY DEF RecordPending
<1>3. DOMAIN checkout' = DOMAIN checkout /\ checkout' \in [DOMAIN checkout' -> Checkout]
  BY <1>1, <1>2, GoesKeeps
<1>4. AttemptsAreTrue'
  BY <1>1, <1>2, GoesKeeps DEF RecordPending, IInv, Truthful, AttemptsAreTrue
<1>5. /\ DOMAIN payments' \subseteq Intents /\ payments' \in [DOMAIN payments' -> Row]
      /\ recorded' \in Seq(Intents) /\ DOMAIN recorded \subseteq DOMAIN recorded'
      /\ SettledAsDecided'
  <2>1. CASE i \in DOMAIN payments
    BY <2>1 DEF RecordPending, recordPending, IInv, TypeOK, Truthful, SettledAsDecided, table
  <2>2. CASE i \notin DOMAIN payments
    <3>1. payments' = With(payments, i, [account |-> u, plan |-> p, status |-> "pending"])
          /\ recorded' = Append(recorded, i)
      BY <2>2 DEF RecordPending, recordPending
    <3>2. [account |-> u, plan |-> p, status |-> "pending"] \in Row
      BY <1>1 DEF Row
    <3>3. DOMAIN payments' = DOMAIN payments \cup {i} /\ payments' \in [DOMAIN payments' -> Row]
      BY <3>1, <3>2 DEF With, IInv, TypeOK
    <3>4. SettledAsDecided'
      BY <3>1, <3>3 DEF RecordPending, With, IInv, TypeOK, Truthful, SettledAsDecided
    <3>5. recorded' \in Seq(Intents) /\ DOMAIN recorded \subseteq DOMAIN recorded'
      BY <1>1, <3>1 DEF IInv, TypeOK
    <3> QED BY <1>1, <3>3, <3>4, <3>5 DEF IInv, TypeOK
  <2> QED BY <2>1, <2>2
<1> QED BY <1>3, <1>4, <1>5
        DEF RecordPending, IInv, TypeOK, Truthful, AnswersAreTrue, NoPlanNoTime, account

LEMMA ConfirmKeepsInv ==
    ASSUME IInv, NEW a \in Attempts, ConfirmIntent(a)
    PROVE  IInv'
<1> DEFINE i == checkout[a].intent
<1>1. a \in DOMAIN checkout /\ i \in Intents
  BY OnItsWay DEF ConfirmIntent, At
<1>2. PICK status \in {"confirmed", "succeeded"} :
          /\ wire' = [wire EXCEPT ![i] = IF @ = "created" THEN status ELSE @]
          /\ IF status = "succeeded" /\ wire'[i] = "succeeded" THEN Goes(a, "settle") ELSE Done(a)
  BY DEF ConfirmIntent
<1>3. wire' \in [Intents -> WireStatuses] /\ \A j \in Intents : wire[j] \in Final => wire'[j] = wire[j]
  BY <1>1, <1>2 DEF IInv, TypeOK, WireStatuses, Final
<1>4. /\ DOMAIN checkout' \subseteq DOMAIN checkout
      /\ checkout' \in [DOMAIN checkout' -> Checkout]
      /\ AttemptsAreTrue'
  <2>1. CASE Goes(a, "settle") /\ wire'[i] = "succeeded"
    BY <1>1, <1>3, <2>1, GoesKeeps, OnItsWay DEF IInv, Truthful, AttemptsAreTrue, Final
  <2>2. CASE Done(a)
    BY <1>3, <2>2, DoneKeeps, OnItsWay DEF IInv, Truthful, AttemptsAreTrue, Final
  <2> QED BY <1>2, <2>1, <2>2
<1>5. SettledAsDecided'
  <2>1. \A j \in DOMAIN payments : payments[j].status \in {"pending"} \cup Final
    BY DEF IInv, TypeOK, Row
  <2> QED BY <1>3, <2>1 DEF ConfirmIntent, IInv, TypeOK, Truthful, SettledAsDecided, table
<1>6. AnswersAreTrue'
  BY <1>3 DEF ConfirmIntent, IInv, TypeOK, Truthful, AnswersAreTrue
<1> QED BY <1>3, <1>4, <1>5, <1>6
        DEF ConfirmIntent, IInv, TypeOK, Truthful, NoPlanNoTime, account, table

LEMMA SettleConfirmedKeepsInv ==
    ASSUME IInv, NEW a \in Attempts, SettleConfirmed(a)
    PROVE  IInv'
<1> DEFINE i == checkout[a].intent
<1>1. a \in DOMAIN checkout /\ i \in Intents /\ wire[i] = "succeeded"
  BY OnItsWay DEF SettleConfirmed, At, IInv, Truthful, AttemptsAreTrue
<1>2. settle(i, "succeeded") /\ UNCHANGED <<now, wire, list, failures, used>>
  BY DEF SettleConfirmed
<1>3. "succeeded" \in Final
  BY DEF Final
<1>4. Done(a)
  BY DEF SettleConfirmed
<1>5. /\ DOMAIN checkout' \subseteq DOMAIN checkout
      /\ checkout' \in [DOMAIN checkout' -> Checkout]
      /\ AttemptsAreTrue'
  BY <1>2, <1>4, DoneKeeps DEF IInv, Truthful, AttemptsAreTrue
<1>6. /\ payments' \in [DOMAIN payments' -> Row] /\ DOMAIN payments' = DOMAIN payments
      /\ plan' \in [Accounts -> Plans \cup {NoPlan}] /\ expiresAt' \in [Accounts -> Nat]
      /\ recorded' = recorded /\ SettledAsDecided' /\ NoPlanNoTime'
  BY <1>1, <1>2, <1>3, SettleKeeps
<1> QED BY <1>5, <1>6 DEF SettleConfirmed, IInv, TypeOK, Truthful, AnswersAreTrue

---------------------------------------------------------------------------
(* The steps of a check. *)

LEMMA CheckKeeps ==
    ASSUME IInv, NEW c \in Checkers \cup {Cron}, NEW i \in Intents, Check(c, i), UNCHANGED wire
    PROVE  /\ DOMAIN checking' \subseteq Checkers \cup {Cron}
           /\ checking' \in [DOMAIN checking' -> [intent : Intents, status : WireStatuses]]
           /\ AnswersAreTrue'
  BY DEF Check, With, IInv, TypeOK, Truthful, AnswersAreTrue

LEMMA AnsweredKeeps ==
    ASSUME IInv, NEW c, checking' = WithoutKey(checking, c), UNCHANGED wire
    PROVE  /\ DOMAIN checking' \subseteq Checkers \cup {Cron}
           /\ checking' \in [DOMAIN checking' -> [intent : Intents, status : WireStatuses]]
           /\ AnswersAreTrue'
  BY DEF WithoutKey, IInv, TypeOK, Truthful, AnswersAreTrue

LEMMA SettleKeepsInv ==
    ASSUME IInv, NEW c \in Checkers \cup {Cron}, Settle(c)
    PROVE  IInv'
<1> DEFINE i == checking[c].intent
           status == checking[c].status
<1>1. c \in DOMAIN checking /\ i \in Intents
  BY DEF Settle, IInv, TypeOK
<1>2. checking' = WithoutKey(checking, c) /\ UNCHANGED <<now, wire, checkout, list, failures, used>>
  BY DEF Settle
<1>3. /\ payments' \in [DOMAIN payments' -> Row] /\ DOMAIN payments' = DOMAIN payments
      /\ plan' \in [Accounts -> Plans \cup {NoPlan}] /\ expiresAt' \in [Accounts -> Nat]
      /\ recorded' = recorded /\ SettledAsDecided' /\ NoPlanNoTime'
  <2>1. CASE status \in Final
    <3>1. wire[i] = status /\ settle(i, status)
      BY <1>1, <2>1 DEF Settle, IInv, Truthful, AnswersAreTrue
    <3> QED BY <1>1, <1>2, <2>1, <3>1, SettleKeeps
  <2>2. CASE status \notin Final
    BY <1>2, <2>2 DEF Settle, IInv, TypeOK, Truthful, SettledAsDecided, NoPlanNoTime, account, table
  <2> QED BY <2>1, <2>2
<1>4. AttemptsAreTrue'
  BY <1>2 DEF IInv, Truthful, AttemptsAreTrue
<1> QED BY <1>2, <1>3, <1>4, AnsweredKeeps DEF IInv, TypeOK, Truthful

LEMMA CheckKeepsInv ==
    ASSUME IInv, NEW c \in Checkers \cup {Cron}, NEW i \in Intents, Check(c, i),
           list' \subseteq list,
           UNCHANGED <<now, account, table, wire, checkout, failures, used>>
    PROVE  IInv'
  BY CheckKeeps DEF IInv, TypeOK, Truthful, SettledAsDecided, AttemptsAreTrue, NoPlanNoTime,
                    account, table

LEMMA ReconcileKeepsInv ==
    ASSUME IInv, ReconcileStart \/ ReconcileNext
    PROVE  IInv'
<1>1. CASE ReconcileStart
  BY <1>1 DEF ReconcileStart, Pending, IInv, TypeOK, Truthful, SettledAsDecided, AttemptsAreTrue,
              AnswersAreTrue, NoPlanNoTime, account, table
<1>2. CASE ReconcileNext
  <2>1. PICK n \in list : Check(Cron, recorded[n]) /\ list' = list \ {n}
    BY <1>2 DEF ReconcileNext
  <2>2. recorded[n] \in Intents
    BY <2>1 DEF IInv, TypeOK
  <2>3. UNCHANGED <<now, account, table, wire, checkout, failures, used>>
    BY <1>2 DEF ReconcileNext
  <2>4. list' \subseteq list
    BY <2>1
  <2> QED BY <2>1, <2>2, <2>3, <2>4, CheckKeepsInv
<1> QED BY <1>1, <1>2

---------------------------------------------------------------------------
(* Every step, and the two invariants. *)

LEMMA TickKeepsInv == IInv /\ Tick => IInv'
<1> SUFFICES ASSUME IInv, Tick PROVE IInv'
  OBVIOUS
<1>1. used' \in [Accounts -> Nat] /\ now' \in Nat
  BY DEF Tick, IInv, TypeOK
<1> QED BY <1>1 DEF Tick, IInv, TypeOK, Truthful, SettledAsDecided, AttemptsAreTrue,
                    AnswersAreTrue, NoPlanNoTime, account, table

LEMMA WireKeepsInv ==
    ASSUME IInv, NEW i \in Intents, WirePays(i) \/ WireGivesUp(i)
    PROVE  IInv'
<1>1. wire' \in [Intents -> WireStatuses] /\ \A j \in Intents : wire[j] \in Final => wire'[j] = wire[j]
  BY DEF WirePays, WireGivesUp, IInv, TypeOK, WireStatuses, Final
<1>2. UNCHANGED <<now, plan, expiresAt, payments, recorded, checkout, checking, list, failures, used>>
  BY DEF WirePays, WireGivesUp, account, table
<1>3. Truthful'
  BY <1>1, <1>2, WireForward
<1> QED BY <1>1, <1>2, <1>3 DEF IInv, TypeOK

LEMMA FailKeepsInv ==
    ASSUME IInv
    PROVE  /\ \A a \in Attempts : CheckoutFails(a) => IInv'
           /\ \A c \in Checkers \cup {Cron} : CheckFails(c) => IInv'
<1>1. ASSUME NEW a \in Attempts, CheckoutFails(a)
      PROVE  IInv'
  <2>1. Done(a)
    BY <1>1 DEF CheckoutFails
  <2> QED BY <1>1, <2>1, DoneKeeps DEF CheckoutFails, IInv, TypeOK, Truthful, SettledAsDecided,
          AttemptsAreTrue, AnswersAreTrue, NoPlanNoTime, account, table
<1>2. ASSUME NEW c \in Checkers \cup {Cron}, CheckFails(c)
      PROVE  IInv'
  <2>1. checking' = WithoutKey(checking, c) /\ UNCHANGED wire /\ failures' = failures + 1
    BY <1>2 DEF CheckFails
  <2>2. failures' \in Nat
    BY <2>1 DEF IInv, TypeOK
  <2> QED BY <1>2, <2>1, <2>2, AnsweredKeeps DEF CheckFails, IInv, TypeOK, Truthful,
          SettledAsDecided, AttemptsAreTrue, NoPlanNoTime, account, table
<1> QED BY <1>1, <1>2

LEMMA StepInv == IInv /\ [Next]_vars => IInv'
<1> SUFFICES ASSUME IInv, [Next]_vars PROVE IInv'
  OBVIOUS
<1>1. CASE UNCHANGED vars
  BY <1>1 DEF vars, account, table, IInv, TypeOK, Truthful, SettledAsDecided, AttemptsAreTrue,
              AnswersAreTrue, NoPlanNoTime
<1>2. ASSUME NEW a \in Attempts, NEW i \in Intents, NEW u \in Accounts, NEW p \in Plans,
             startCheckout(a, i, u, p)
      PROVE  IInv'
  BY <1>2, StartKeepsInv
<1>3. ASSUME NEW a \in Attempts,
             CreateIntent(a) \/ RecordPending(a) \/ ConfirmIntent(a) \/ SettleConfirmed(a)
      PROVE  IInv'
  BY <1>3, CreateKeepsInv, RecordKeepsInv, ConfirmKeepsInv, SettleConfirmedKeepsInv
<1>4. ASSUME NEW c \in Checkers, NEW i \in Intents, settleFromWebhook(c, i) \/ refreshPayment(c, i)
      PROVE  IInv'
  <2>1. Check(c, i) /\ UNCHANGED <<now, account, table, wire, checkout, list, failures, used>>
    BY <1>4 DEF settleFromWebhook, refreshPayment
  <2> QED BY <2>1, CheckKeepsInv
<1>5. ASSUME Reconcile PROVE IInv'
  BY <1>5, ReconcileKeepsInv, SettleKeepsInv DEF Reconcile
<1> QED BY <1>1, <1>2, <1>3, <1>4, <1>5, FailKeepsInv, SettleKeepsInv, WireKeepsInv, TickKeepsInv
        DEF Next

LEMMA Invariance == Spec => []IInv
  BY InitInv, StepInv, PTL DEF Spec

\* Every state is one the code's values can be in.
THEOREM TypeCorrect == Spec => []TypeOK
<1>1. IInv => TypeOK
  BY DEF IInv
<1> QED BY <1>1, Invariance, PTL

\* No row is ever settled otherwise than Wire decided, whichever check comes last.
THEOREM SettledAsDecidedHolds == Spec => []SettledAsDecided
<1>1. IInv => SettledAsDecided
  BY DEF IInv, Truthful
<1> QED BY <1>1, Invariance, PTL

---------------------------------------------------------------------------
(* The refinement. *)

paidBar == {i \in Intents : wire[i] = "succeeded"}
grantedBar == {i \in DOMAIN payments : payments[i].status = "succeeded"}

\* A settlement is the grant of a paid period, or nothing the customer sees.
LEMMA SettleRefines ==
    ASSUME IInv, NEW i \in Intents, NEW status \in Final, wire[i] = status,
           settle(i, status), UNCHANGED <<now, wire>>
    PROVE  Access!Next \/ UNCHANGED Access!accessVars
<1> USE DEF paidBar, grantedBar
<1>1. paidBar' = paidBar
  OBVIOUS
<1>2. CASE ~Settleable(i)
  BY <1>1, <1>2 DEF settle, account, Access!accessVars
<1>3. CASE Settleable(i)
  <2> DEFINE u == payments[i].account
             from == IF activePlan(u) # NoPlan THEN expiresAt[u] ELSE now
  <2>1. i \in DOMAIN payments /\ payments[i] \in Row /\ payments[i].status = "pending"
    BY <1>3 DEF Settleable, IInv, TypeOK
  <2>2. u \in Accounts /\ payments[i].plan \in Plans
    BY <2>1 DEF Row
  <2>3. payments' = [payments EXCEPT ![i].status = status]
    BY <1>3 DEF settle
  <2>4. /\ DOMAIN payments' = DOMAIN payments
        /\ \A j \in DOMAIN payments : payments'[j].status = IF j = i THEN status ELSE payments[j].status
    BY <2>1, <2>3 DEF IInv, TypeOK, Row
  <2>5. CASE status = "failed"
    <3>1. grantedBar' = grantedBar
      BY <2>1, <2>4, <2>5
    <3>2. expiresAt' = expiresAt
      BY <2>5 DEF settle, account
    <3> QED BY <1>1, <3>1, <3>2 DEF Access!accessVars
  <2>6. CASE status = "succeeded"
    <3>1. grantedBar' = grantedBar \cup {i}
      BY <2>1, <2>4, <2>6
    <3>2. i \in paidBar \ grantedBar
      BY <2>1, <2>6
    <3>3. expiresAt' = [expiresAt EXCEPT ![u] = from + PLAN_DURATION]
      BY <1>3, <2>6 DEF settle
    <3>4. from = IF expiresAt[u] > now THEN expiresAt[u] ELSE now
      <4>1. plan[u] = NoPlan => expiresAt[u] = 0
        BY <2>2 DEF IInv, Truthful, NoPlanNoTime
      <4>2. now \in Nat /\ expiresAt[u] \in Nat
        BY <2>2 DEF IInv, TypeOK
      <4> QED BY <4>1, <4>2 DEF activePlan
    <3>5. PICK w \in Accounts : w = payments[i].account
      BY <2>2
    <3>6. Access!Grant(i, w)
      BY <1>1, <3>1, <3>2, <3>3, <3>4, <3>5 DEF Access!Grant, Access!Extended
    <3> QED BY <3>6 DEF Access!Next
  <2> QED BY <2>5, <2>6 DEF Final
<1> QED BY <1>2, <1>3

\* Steps that leave the rows' verdicts, the expiries and the clock alone.
LEMMA OthersRefine ==
    ASSUME paidBar' = paidBar, grantedBar' = grantedBar, UNCHANGED <<now, expiresAt>>
    PROVE  UNCHANGED Access!accessVars
  BY DEF Access!accessVars, paidBar, grantedBar

\* Wire takes the money of at most one intent at a time.
LEMMA WireRefines ==
    ASSUME IInv, NEW i \in Intents, NEW status \in WireStatuses,
           wire[i] # "succeeded", wire' = [wire EXCEPT ![i] = status],
           UNCHANGED <<now, expiresAt, payments>>
    PROVE  Access!Next \/ UNCHANGED Access!accessVars
<1>1. grantedBar' = grantedBar
  BY DEF grantedBar
<1>2. \A j \in Intents : wire'[j] = IF j = i THEN status ELSE wire[j]
  BY DEF IInv, TypeOK
<1>3. CASE status = "succeeded"
  <2>1. paidBar' = paidBar \cup {i} /\ i \in Intents \ paidBar
    BY <1>2, <1>3 DEF paidBar
  <2>2. Access!Pay(i)
    BY <1>1, <2>1 DEF Access!Pay, paidBar, grantedBar
  <2> QED BY <2>2 DEF Access!Next
<1>4. CASE status # "succeeded"
  <2>1. paidBar' = paidBar
    BY <1>2, <1>4 DEF paidBar
  <2> QED BY <1>1, <2>1, OthersRefine
<1> QED BY <1>3, <1>4

LEMMA CheckoutRefines ==
    ASSUME IInv, NEW a \in Attempts,
           CreateIntent(a) \/ RecordPending(a) \/ ConfirmIntent(a) \/ SettleConfirmed(a)
    PROVE  Access!Next \/ UNCHANGED Access!accessVars
<1> DEFINE i == checkout[a].intent
<1>1. a \in DOMAIN checkout /\ i \in Intents
  BY OnItsWay DEF CreateIntent, RecordPending, ConfirmIntent, SettleConfirmed, At
<1>2. CASE CreateIntent(a)
  <2>1. wire' = [wire EXCEPT ![i] = IF wire[i] = "none" THEN "created" ELSE wire[i]]
        /\ UNCHANGED <<now, expiresAt, payments>>
    BY <1>2 DEF CreateIntent, account, table
  <2>2. CASE wire[i] = "none"
    <3>1. wire' = [wire EXCEPT ![i] = "created"] /\ "created" \in WireStatuses
      BY <2>1, <2>2 DEF WireStatuses
    <3> QED BY <1>1, <2>1, <2>2, <3>1, WireRefines
  <2>3. CASE wire[i] # "none"
    <3>1. wire' = wire
      BY <1>1, <2>1, <2>3 DEF IInv, TypeOK
    <3> QED BY <2>1, <3>1, OthersRefine DEF paidBar, grantedBar
  <2> QED BY <2>2, <2>3
<1>3. CASE RecordPending(a)
  <2>1. UNCHANGED <<now, expiresAt, wire>> /\ recordPending(i, checkout[a].account, checkout[a].plan)
    BY <1>3 DEF RecordPending, account
  <2>2. grantedBar' = grantedBar
    <3>1. CASE i \in DOMAIN payments
      BY <2>1, <3>1 DEF recordPending, grantedBar, table
    <3>2. CASE i \notin DOMAIN payments
      BY <2>1, <3>2 DEF recordPending, With, grantedBar
    <3> QED BY <3>1, <3>2
  <2>3. paidBar' = paidBar
    BY <2>1 DEF paidBar
  <2> QED BY <2>1, <2>2, <2>3, OthersRefine
<1>4. CASE ConfirmIntent(a)
  <2>1. PICK status \in {"confirmed", "succeeded"} :
            wire' = [wire EXCEPT ![i] = IF wire[i] = "created" THEN status ELSE wire[i]]
    BY <1>4 DEF ConfirmIntent
  <2>2. UNCHANGED <<now, expiresAt, payments>>
    BY <1>4 DEF ConfirmIntent, account, table
  <2>3. CASE wire[i] = "created"
    <3>1. wire' = [wire EXCEPT ![i] = status] /\ status \in WireStatuses
      BY <2>1, <2>3 DEF WireStatuses, Final
    <3> QED BY <1>1, <2>2, <2>3, <3>1, WireRefines
  <2>4. CASE wire[i] # "created"
    <3>1. wire' = wire
      BY <1>1, <2>1, <2>4 DEF IInv, TypeOK
    <3> QED BY <2>2, <3>1, OthersRefine DEF paidBar, grantedBar
  <2> QED BY <2>3, <2>4
<1>5. CASE SettleConfirmed(a)
  <2>1. settle(i, "succeeded") /\ UNCHANGED <<now, wire>> /\ wire[i] = "succeeded"
    BY <1>1, <1>5 DEF SettleConfirmed, At, IInv, Truthful, AttemptsAreTrue
  <2>2. "succeeded" \in Final
    BY DEF Final
  <2> QED BY <1>1, <2>1, <2>2, SettleRefines
<1> QED BY <1>2, <1>3, <1>4, <1>5

LEMMA CheckRefines ==
    ASSUME IInv, NEW c \in Checkers \cup {Cron}, Settle(c)
    PROVE  Access!Next \/ UNCHANGED Access!accessVars
<1> DEFINE i == checking[c].intent
           status == checking[c].status
<1>1. c \in DOMAIN checking /\ i \in Intents /\ UNCHANGED <<now, wire>>
  BY DEF Settle, IInv, TypeOK
<1>2. CASE status \in Final
  <2>1. wire[i] = status /\ settle(i, status)
    BY <1>1, <1>2 DEF Settle, IInv, Truthful, AnswersAreTrue
  <2> QED BY <1>1, <1>2, <2>1, SettleRefines
<1>3. CASE status \notin Final
  BY <1>1, <1>3, OthersRefine DEF Settle, account, table, paidBar, grantedBar
<1> QED BY <1>2, <1>3

LEMMA StepRefines == IInv /\ [Next]_vars => [Access!Next]_(Access!accessVars)
<1> SUFFICES ASSUME IInv, [Next]_vars
             PROVE  Access!Next \/ UNCHANGED Access!accessVars
  OBVIOUS
<1>1. ASSUME UNCHANGED <<now, expiresAt, payments, wire>>
      PROVE  UNCHANGED Access!accessVars
  BY <1>1, OthersRefine DEF paidBar, grantedBar
<1>2. ASSUME NEW i \in Intents, WirePays(i) \/ WireGivesUp(i)
      PROVE  Access!Next \/ UNCHANGED Access!accessVars
  <2>1. UNCHANGED <<now, expiresAt, payments>> /\ wire[i] # "succeeded"
    BY <1>2 DEF WirePays, WireGivesUp, account, table
  <2>2. PICK status \in WireStatuses : wire' = [wire EXCEPT ![i] = status]
    BY <1>2 DEF WirePays, WireGivesUp, WireStatuses, Final
  <2> QED BY <2>1, <2>2, WireRefines
<1>3. ASSUME Tick
      PROVE  Access!Next
  <2>1. now' = now + 1 /\ UNCHANGED <<expiresAt, payments, wire>>
    BY <1>3 DEF Tick, account, table
  <2>2. Access!Tick
    BY <2>1 DEF Access!Tick
  <2> QED BY <2>2 DEF Access!Next
<1>4. CASE UNCHANGED vars
  BY <1>1, <1>4 DEF vars, account, table
<1>5. CASE Next
  BY <1>1, <1>2, <1>3, <1>5, CheckoutRefines, CheckRefines
  DEF Next, Reconcile, startCheckout, CheckoutFails, settleFromWebhook, refreshPayment,
      ReconcileStart, ReconcileNext, CheckFails, account, table
<1> QED BY <1>4, <1>5

\* Checkouts, webhooks, refreshes and the job, in any order and any number of times, give
\* every payment that went through its period once, on top of what was left, and give
\* nothing else.
THEOREM PaymentsImplementAccess == Spec => AccessKept
<1>1. Init => Access!Init
  BY DEF Init, Access!Init
<1>2. IInv /\ [Next]_vars => [Access!Next]_(Access!accessVars)
  BY StepRefines
<1> QED BY <1>1, <1>2, Invariance, PTL DEF Spec, AccessKept, Access!Spec

---------------------------------------------------------------------------
(* The time an account has paid for: what it has used and what is left.    *)

TimeKept == IsFiniteSet(DOMAIN payments) /\ PaidTimeIsGiven

LEMMA OnePeriodMore == \A d, n \in Nat : d * (n + 1) = d * n + d
OBVIOUS

LEMMA SucceededIsFinite ==
    ASSUME TimeKept, NEW u
    PROVE  IsFiniteSet(Succeeded(u)) /\ Cardinality(Succeeded(u)) \in Nat
<1>1. IsFiniteSet(Succeeded(u))
  BY FS_Subset DEF TimeKept, Succeeded
<1> QED BY <1>1, FS_CardinalityType

\* What is left of the plan is what settle extends.
LEMMA LeftOver ==
    ASSUME IInv, NEW u \in Accounts
    PROVE  /\ Left(u) \in Nat /\ now \in Nat /\ expiresAt[u] \in Nat /\ used[u] \in Nat
           /\ (IF activePlan(u) # NoPlan THEN expiresAt[u] ELSE now) = now + Left(u)
           /\ activePlan(u) # NoPlan <=> Left(u) > 0
<1>1. now \in Nat /\ expiresAt[u] \in Nat /\ used[u] \in Nat
  BY DEF IInv, TypeOK
<1>2. plan[u] = NoPlan => expiresAt[u] = 0
  BY DEF IInv, Truthful, NoPlanNoTime
<1>3. activePlan(u) # NoPlan <=> expiresAt[u] > now
  BY <1>1, <1>2 DEF activePlan
<1> QED BY <1>1, <1>3 DEF Left

LEMMA TimeStays ==
    ASSUME TimeKept, IsFiniteSet(DOMAIN payments'), UNCHANGED <<now, expiresAt, used>>,
           \A u \in Accounts : Succeeded(u)' = Succeeded(u)
    PROVE  TimeKept'
BY DEF TimeKept, PaidTimeIsGiven, Left

LEMMA SettleTime ==
    ASSUME IInv, TimeKept, NEW i \in Intents, NEW status \in Final, settle(i, status),
           UNCHANGED <<now, used>>
    PROVE  TimeKept'
<1>1. CASE ~Settleable(i)
  <2>1. UNCHANGED <<payments, expiresAt>>
    BY <1>1 DEF settle, account
  <2> QED BY <2>1, TimeStays DEF TimeKept, Succeeded
<1>2. CASE Settleable(i)
  <2>1. i \in DOMAIN payments /\ payments[i] \in Row /\ payments[i].status = "pending"
    BY <1>2 DEF Settleable, IInv, TypeOK
  <2>2. PICK u \in Accounts : u = payments[i].account
    BY <2>1 DEF Row
  <2>3. /\ DOMAIN payments' = DOMAIN payments
        /\ \A j \in DOMAIN payments : /\ payments'[j].status = IF j = i THEN status ELSE payments[j].status
                                      /\ payments'[j].account = payments[j].account
    BY <1>2, <2>1 DEF settle, IInv, TypeOK, Row
  <2>4. CASE status = "failed"
    <3>1. expiresAt' = expiresAt
      BY <2>4 DEF settle, account
    <3>2. \A v \in Accounts : Succeeded(v)' = Succeeded(v)
      BY <2>1, <2>3, <2>4 DEF Succeeded
    <3> QED BY <2>3, <3>1, <3>2, TimeStays DEF TimeKept
  <2>5. CASE status = "succeeded"
    <3>1. expiresAt' = [expiresAt EXCEPT ![u] =
                            (IF activePlan(u) # NoPlan THEN expiresAt[u] ELSE now) + PLAN_DURATION]
      BY <1>2, <2>2, <2>5 DEF settle
    <3>2. /\ Succeeded(u)' = Succeeded(u) \cup {i} /\ i \notin Succeeded(u)
          /\ \A v \in Accounts \ {u} : Succeeded(v)' = Succeeded(v)
      BY <2>1, <2>2, <2>3, <2>5 DEF Succeeded
    <3>3. ASSUME NEW v \in Accounts \ {u}
          PROVE  used'[v] + Left(v)' = PLAN_DURATION * Cardinality(Succeeded(v)')
      <4>1. expiresAt'[v] = expiresAt[v]
        BY <3>1 DEF IInv, TypeOK
      <4> QED BY <3>2, <4>1 DEF TimeKept, PaidTimeIsGiven, Left
    <3>4. used'[u] + Left(u)' = PLAN_DURATION * Cardinality(Succeeded(u)')
      <4>1. /\ Left(u) \in Nat /\ now \in Nat /\ used[u] \in Nat /\ PLAN_DURATION \in Nat \ {0}
            /\ expiresAt'[u] = now + Left(u) + PLAN_DURATION
        BY <3>1, LeftOver, PaymentsAssumption DEF IInv, TypeOK
      <4>2. Left(u)' = Left(u) + PLAN_DURATION
        BY <4>1 DEF Left
      <4>3. /\ Cardinality(Succeeded(u)) \in Nat
            /\ Cardinality(Succeeded(u)') = Cardinality(Succeeded(u)) + 1
        BY <3>2, SucceededIsFinite, FS_AddElement
      <4>4. used[u] + Left(u) = PLAN_DURATION * Cardinality(Succeeded(u))
        BY DEF TimeKept, PaidTimeIsGiven
      <4>5. PLAN_DURATION * (Cardinality(Succeeded(u)) + 1)
              = PLAN_DURATION * Cardinality(Succeeded(u)) + PLAN_DURATION
        BY <4>1, <4>3, OnePeriodMore
      <4> QED BY <4>1, <4>2, <4>3, <4>4, <4>5
    <3> QED BY <2>3, <3>3, <3>4 DEF TimeKept, PaidTimeIsGiven
  <2> QED BY <2>4, <2>5 DEF Final
<1> QED BY <1>1, <1>2

\* A new row is pending: nothing has been paid by it.
LEMMA RecordTime ==
    ASSUME IInv, TimeKept, NEW a \in Attempts, RecordPending(a)
    PROVE  TimeKept'
<1> DEFINE i == checkout[a].intent
<1>1. UNCHANGED <<now, expiresAt, used>> /\ recordPending(i, checkout[a].account, checkout[a].plan)
  BY DEF RecordPending, account
<1>2. CASE i \in DOMAIN payments
  BY <1>1, <1>2, TimeStays DEF recordPending, table, TimeKept, Succeeded
<1>3. CASE i \notin DOMAIN payments
  <2>1. /\ DOMAIN payments' = DOMAIN payments \cup {i} /\ payments'[i].status = "pending"
        /\ \A j \in DOMAIN payments : payments'[j] = payments[j]
    BY <1>1, <1>3 DEF recordPending, With
  <2>2. IsFiniteSet(DOMAIN payments')
    BY <2>1, FS_AddElement DEF TimeKept
  <2>3. \A u \in Accounts : Succeeded(u)' = Succeeded(u)
    BY <1>3, <2>1 DEF Succeeded
  <2> QED BY <1>1, <2>2, <2>3, TimeStays
<1> QED BY <1>2, <1>3

LEMMA TickTime ==
    ASSUME IInv, TimeKept, Tick
    PROVE  TimeKept'
<1>1. /\ now' = now + 1 /\ UNCHANGED <<expiresAt, payments>>
      /\ used' = [u \in Accounts |-> used[u] + (IF activePlan(u) # NoPlan THEN 1 ELSE 0)]
  BY DEF Tick, account, table
<1>2. ASSUME NEW u \in Accounts
      PROVE  used'[u] + Left(u)' = PLAN_DURATION * Cardinality(Succeeded(u)')
  <2>1. /\ Left(u) \in Nat /\ now \in Nat /\ expiresAt[u] \in Nat /\ used[u] \in Nat
        /\ activePlan(u) # NoPlan <=> Left(u) > 0
    BY LeftOver
  <2>2. used'[u] = used[u] + (IF Left(u) > 0 THEN 1 ELSE 0)
    BY <1>1, <2>1
  <2>3. Left(u)' = (IF Left(u) > 0 THEN Left(u) - 1 ELSE 0)
    BY <1>1, <2>1 DEF Left
  <2>4. used'[u] + Left(u)' = used[u] + Left(u)
    BY <2>1, <2>2, <2>3
  <2>5. Succeeded(u)' = Succeeded(u)
    BY <1>1 DEF Succeeded
  <2> QED BY <2>4, <2>5 DEF TimeKept, PaidTimeIsGiven
<1> QED BY <1>1, <1>2 DEF TimeKept, PaidTimeIsGiven

LEMMA TimeStep == IInv /\ TimeKept /\ [Next]_vars => TimeKept'
<1> SUFFICES ASSUME IInv, TimeKept, [Next]_vars PROVE TimeKept'
  OBVIOUS
<1>1. ASSUME UNCHANGED <<now, expiresAt, used, payments>>
      PROVE  TimeKept'
  BY <1>1, TimeStays DEF TimeKept, Succeeded
<1>2. ASSUME NEW a \in Attempts, SettleConfirmed(a)
      PROVE  TimeKept'
  <2>1. /\ a \in DOMAIN checkout /\ settle(checkout[a].intent, "succeeded")
        /\ UNCHANGED <<now, used>>
    BY <1>2 DEF SettleConfirmed, At
  <2>2. checkout[a].intent \in Intents /\ "succeeded" \in Final
    BY <2>1, OnItsWay DEF Final
  <2> QED BY <2>1, <2>2, SettleTime
<1>3. ASSUME NEW c \in Checkers \cup {Cron}, Settle(c)
      PROVE  TimeKept'
  <2>1. /\ checking[c].intent \in Intents /\ UNCHANGED <<now, used>>
    BY <1>3 DEF Settle, IInv, TypeOK
  <2>2. CASE checking[c].status \in Final
    BY <1>3, <2>1, <2>2, SettleTime DEF Settle
  <2>3. CASE checking[c].status \notin Final
    BY <1>1, <1>3, <2>3 DEF Settle, account, table
  <2> QED BY <2>2, <2>3
<1>4. CASE UNCHANGED vars
  BY <1>1, <1>4 DEF vars, account, table
<1>5. CASE Next
  BY <1>1, <1>2, <1>3, <1>5, RecordTime, TickTime
  DEF Next, Reconcile, startCheckout, CreateIntent, ConfirmIntent, CheckoutFails,
      settleFromWebhook, refreshPayment, ReconcileStart, ReconcileNext, CheckFails,
      WirePays, WireGivesUp, account, table
<1> QED BY <1>4, <1>5

LEMMA TimeInitially == Init => TimeKept
<1> SUFFICES ASSUME Init PROVE TimeKept
  OBVIOUS
<1>1. DOMAIN payments = {} /\ now = 0
  BY DEF Init
<1>2. IsFiniteSet({}) /\ Cardinality({}) = 0
  BY FS_EmptySet
<1>3. ASSUME NEW u \in Accounts
      PROVE  used[u] + Left(u) = PLAN_DURATION * Cardinality(Succeeded(u))
  <2>1. used[u] = 0 /\ Left(u) = 0
    BY <1>1 DEF Init, Left
  <2>2. Succeeded(u) = {}
    BY <1>1 DEF Succeeded
  <2> QED BY <1>2, <2>1, <2>2, PaymentsAssumption
<1> QED BY <1>1, <1>2, <1>3 DEF TimeKept, PaidTimeIsGiven

\* Every succeeded payment has given its account one period, no more and no less: the
\* time it had a plan plus the time it has left, whoever settles and however often.
THEOREM PaidTimeIsGivenHolds == Spec => []PaidTimeIsGiven
<1>1. Spec => []TimeKept
  BY Invariance, TimeInitially, TimeStep, PTL DEF Spec
<1>2. TimeKept => PaidTimeIsGiven
  BY DEF TimeKept
<1> QED BY <1>1, <1>2, PTL
=============================================================================
