------------------------------ MODULE Payments ------------------------------
(***************************************************************************)
(* Buying a plan: checkouts (startCheckout), the intents at Wire, the      *)
(* payments table and the three ways a payment is settled: the webhook,    *)
(* the customer's refresh and the reconciliation job.                      *)
(*                                                                         *)
(* Checkouts and checks are Convex actions.  Every call to Wire and every  *)
(* mutation they make is a step of its own, with everything else in        *)
(* between, and may be the last one.  Amounts and currencies always agree  *)
(* (startCheckout refuses an intent of another amount) and are left out.   *)
(***************************************************************************)
EXTENDS Integers, Sequences, FiniteSets

CONSTANTS
    Accounts, Plans, NoPlan,
    Intents,        \* a checkout's request id is the idempotency key of its intent
    Attempts,       \* startCheckout actions that may be in flight together
    Checkers,       \* webhook and refresh actions that may be in flight together
    Cron,           \* the reconciliation job
    PLAN_DURATION,
    PendingBatch,   \* rows _pending takes; 100 in the code
    MaxFailures, MaxTime   \* bounds of the model

ASSUME PaymentsAssumption ==
    /\ NoPlan \notin Plans /\ Cron \notin Checkers
    /\ PLAN_DURATION \in Nat \ {0} /\ PendingBatch \in Nat \ {0}
    /\ MaxFailures \in Nat /\ MaxTime \in Nat

VARIABLES
    now,
    plan, expiresAt, \* the account's plan and planExpiresAt
    payments,   \* the rows that exist: intent -> [account, plan, status]
    recorded,   \* the intents of the rows, by createdAt
    wire,       \* [Intents -> status], Wire's side
    checkout,   \* the attempts in flight
    checking,   \* the checks in flight: what Wire has answered
    list,       \* rows the reconciliation job still has to check, by their place in recorded
    failures,   \* failed calls so far, for MaxFailures
    used        \* history: [Accounts -> time with a plan]

account == <<plan, expiresAt>>
table == <<payments, recorded>>
vars == <<now, account, table, wire, checkout, checking, list, failures, used>>

Final == {"succeeded", "failed"}   \* failed stands for failed, canceled and expired
WireStatuses == {"none", "created", "confirmed"} \cup Final

Row == [account : Accounts, plan : Plans, status : {"pending"} \cup Final]
Checkout == [intent : Intents, account : Accounts, plan : Plans,
             step : {"create", "record", "confirm", "settle"}]

With(f, x, value) == [y \in DOMAIN f \cup {x} |-> IF y = x THEN value ELSE f[y]]
WithoutKey(f, x) == [y \in DOMAIN f \ {x} |-> f[y]]

Init ==
    /\ now = 0
    /\ plan = [u \in Accounts |-> NoPlan]
    /\ expiresAt = [u \in Accounts |-> 0]
    /\ payments = [i \in {} |-> 0]
    /\ recorded = <<>>
    /\ wire = [i \in Intents |-> "none"]
    /\ checkout = [a \in {} |-> 0]
    /\ checking = [c \in {} |-> 0]
    /\ list = {}
    /\ failures = 0
    /\ used = [u \in Accounts |-> 0]

\* Mutant: a plan is active for good.
activePlanForGood(u) == plan[u]

activePlan(u) == IF plan[u] # NoPlan /\ expiresAt[u] > now THEN plan[u] ELSE NoPlan

---------------------------------------------------------------------------
(* The mutations. *)

recordPending(i, u, p) ==
    IF i \in DOMAIN payments
    THEN payments[i].account = u /\ payments[i].plan = p /\ UNCHANGED table
    ELSE /\ payments' = With(payments, i, [account |-> u, plan |-> p, status |-> "pending"])
         /\ recorded' = Append(recorded, i)

\* Mutant: any row is a gate, settled or not.
SettleableAlways(i) == i \in DOMAIN payments

\* The row is the gate: a payment that is not pending is left alone.
Settleable(i) == i \in DOMAIN payments /\ payments[i].status = "pending"

settle(i, status) ==
    LET u == payments[i].account
        from == IF activePlan(u) # NoPlan THEN expiresAt[u] ELSE now
    IN
    /\ IF Settleable(i)
       THEN payments' = [payments EXCEPT ![i].status = status]
       ELSE UNCHANGED payments
    /\ IF Settleable(i) /\ status = "succeeded"
       THEN /\ plan' = [plan EXCEPT ![u] = payments[i].plan]
            /\ expiresAt' = [expiresAt EXCEPT ![u] = from + PLAN_DURATION]
       ELSE UNCHANGED account
    /\ UNCHANGED recorded

---------------------------------------------------------------------------
(* startCheckout, step by step. *)

At(a, step) == a \in DOMAIN checkout /\ checkout[a].step = step
Goes(a, step) == checkout' = [checkout EXCEPT ![a].step = step]
Done(a) == checkout' = WithoutKey(checkout, a)

startCheckout(a, i, u, p) ==
    /\ a \notin DOMAIN checkout
    /\ checkout' = With(checkout, a, [intent |-> i, account |-> u, plan |-> p, step |-> "create"])
    /\ UNCHANGED <<now, account, table, wire, checking, list, failures, used>>

\* A repeated idempotency key answers with the intent that exists.
CreateIntent(a) ==
    LET i == checkout[a].intent IN
    /\ At(a, "create")
    /\ wire' = [wire EXCEPT ![i] = IF @ = "none" THEN "created" ELSE @]
    /\ Goes(a, "record")
    /\ UNCHANGED <<now, account, table, checking, list, failures, used>>

RecordPending(a) ==
    /\ At(a, "record")
    /\ recordPending(checkout[a].intent, checkout[a].account, checkout[a].plan)
    /\ Goes(a, "confirm")
    /\ UNCHANGED <<now, account, wire, checking, list, failures, used>>

\* Confirming shows the QR, or the intent is paid at once.  A repeated confirmation may
\* answer with the status of the first one.
ConfirmIntent(a) ==
    LET i == checkout[a].intent IN
    /\ At(a, "confirm")
    /\ wire[i] # "failed"
    /\ \E status \in {"confirmed", "succeeded"} :
          /\ wire' = [wire EXCEPT ![i] = IF @ = "created" THEN status ELSE @]
          /\ IF status = "succeeded" /\ wire'[i] = "succeeded" THEN Goes(a, "settle") ELSE Done(a)
    /\ UNCHANGED <<now, account, table, checking, list, failures, used>>

SettleConfirmed(a) ==
    /\ At(a, "settle")
    /\ settle(checkout[a].intent, "succeeded")
    /\ Done(a)
    /\ UNCHANGED <<now, wire, checking, list, failures, used>>

\* A call fails, a mutation throws, or the action is lost.
CheckoutFails(a) ==
    /\ a \in DOMAIN checkout
    /\ Done(a)
    /\ UNCHANGED <<now, account, table, wire, checking, list, failures, used>>

---------------------------------------------------------------------------
(* checkIntent: Wire is asked, and a final status is settled. *)

Check(c, i) ==
    /\ c \notin DOMAIN checking
    /\ checking' = With(checking, c, [intent |-> i, status |-> wire[i]])

\* Any signed event about an intent, once, again or late.
settleFromWebhook(c, i) ==
    /\ wire[i] \in Final
    /\ Check(c, i)
    /\ UNCHANGED <<now, account, table, wire, checkout, list, failures, used>>

refreshPayment(c, i) ==
    /\ Settleable(i)
    /\ Check(c, i)
    /\ UNCHANGED <<now, account, table, wire, checkout, list, failures, used>>

\* Mutant: the newest rows, and of those the ones that are pending.
PendingOfNewest ==
    {n \in DOMAIN recorded : n > Len(recorded) - PendingBatch /\ Settleable(recorded[n])}

\* The newest rows that are pending, by their place in the table.
Pending ==
    LET rows == {n \in DOMAIN recorded : Settleable(recorded[n])}
    IN {n \in rows : Cardinality({m \in rows : m > n}) < PendingBatch}

ReconcileStart ==
    /\ list = {} /\ Cron \notin DOMAIN checking
    /\ Pending # {}
    /\ list' = Pending
    /\ UNCHANGED <<now, account, table, wire, checkout, checking, failures, used>>

ReconcileNext ==
    /\ \E n \in list :
          /\ \A m \in list : m <= n
          /\ Check(Cron, recorded[n])
          /\ list' = list \ {n}
    /\ UNCHANGED <<now, account, table, wire, checkout, failures, used>>

\* Mutant: whatever status Wire has is written.
SettleAnyStatus(c) ==
    /\ c \in DOMAIN checking
    /\ settle(checking[c].intent, checking[c].status)
    /\ checking' = WithoutKey(checking, c)
    /\ UNCHANGED <<now, wire, checkout, list, failures, used>>

\* Mutant: an intent that has not succeeded has failed.
SettleOpenAsFailed(c) ==
    /\ c \in DOMAIN checking
    /\ settle(checking[c].intent, IF checking[c].status = "succeeded" THEN "succeeded" ELSE "failed")
    /\ checking' = WithoutKey(checking, c)
    /\ UNCHANGED <<now, wire, checkout, list, failures, used>>

Settle(c) ==
    /\ c \in DOMAIN checking
    /\ IF checking[c].status \in Final
       THEN settle(checking[c].intent, checking[c].status)
       ELSE UNCHANGED <<account, table>>
    /\ checking' = WithoutKey(checking, c)
    /\ UNCHANGED <<now, wire, checkout, list, failures, used>>

\* Wire does not answer or the mutation fails; the job goes on with its next row.
CheckFails(c) ==
    /\ c \in DOMAIN checking
    /\ failures < MaxFailures
    /\ failures' = failures + 1
    /\ checking' = WithoutKey(checking, c)
    /\ UNCHANGED <<now, account, table, wire, checkout, list, used>>

---------------------------------------------------------------------------
(* Wire and the clock. *)

WirePays(i) ==
    /\ wire[i] = "confirmed"
    /\ wire' = [wire EXCEPT ![i] = "succeeded"]
    /\ UNCHANGED <<now, account, table, checkout, checking, list, failures, used>>

WireGivesUp(i) ==
    /\ wire[i] \in {"created", "confirmed"}
    /\ wire' = [wire EXCEPT ![i] = "failed"]
    /\ UNCHANGED <<now, account, table, checkout, checking, list, failures, used>>

Tick ==
    /\ now < MaxTime
    /\ now' = now + 1
    /\ used' = [u \in Accounts |-> used[u] + (IF activePlan(u) # NoPlan THEN 1 ELSE 0)]
    /\ UNCHANGED <<account, table, wire, checkout, checking, list, failures>>

Reconcile == ReconcileStart \/ ReconcileNext \/ Settle(Cron)

Next ==
    \/ \E a \in Attempts :
          \/ \E i \in Intents, u \in Accounts, p \in Plans : startCheckout(a, i, u, p)
          \/ CreateIntent(a) \/ RecordPending(a) \/ ConfirmIntent(a) \/ SettleConfirmed(a)
          \/ CheckoutFails(a)
    \/ \E c \in Checkers :
          \/ \E i \in Intents : settleFromWebhook(c, i) \/ refreshPayment(c, i)
          \/ Settle(c)
    \/ \E c \in Checkers \cup {Cron} : CheckFails(c)
    \/ Reconcile
    \/ \E i \in Intents : WirePays(i) \/ WireGivesUp(i)
    \/ Tick

Spec == Init /\ [][Next]_vars

\* The job runs every minute and its calls end; webhooks and customers owe nothing.
\* Wire decides every intent sooner or later: an intent has an expiry.
FairSpec ==
    /\ Spec
    /\ WF_vars(Reconcile)
    /\ \A i \in Intents : WF_vars(WirePays(i) \/ WireGivesUp(i))

---------------------------------------------------------------------------
(* Properties. *)

\* Type invariant of the module's state.
TypeOK ==
    /\ now \in Nat /\ failures \in Nat
    /\ plan \in [Accounts -> Plans \cup {NoPlan}] /\ expiresAt \in [Accounts -> Nat]
    /\ DOMAIN payments \subseteq Intents
    /\ payments \in [DOMAIN payments -> Row]
    /\ recorded \in Seq(Intents)
    /\ wire \in [Intents -> WireStatuses]
    /\ DOMAIN checkout \subseteq Attempts
    /\ checkout \in [DOMAIN checkout -> Checkout]
    /\ DOMAIN checking \subseteq Checkers \cup {Cron}
    /\ checking \in [DOMAIN checking -> [intent : Intents, status : WireStatuses]]
    /\ list \subseteq DOMAIN recorded
    /\ used \in [Accounts -> Nat]

Succeeded(u) == {i \in DOMAIN payments : payments[i].account = u /\ payments[i].status = "succeeded"}
Left(u) == IF expiresAt[u] > now THEN expiresAt[u] - now ELSE 0

\* Every succeeded payment has given its account one period, no more and no less: the
\* time it had a plan plus the time it has left.  Two settlements of one payment, or
\* one that forgets what was left, break this (_settle).
PaidTimeIsGiven ==
    \A u \in Accounts :
        used[u] + Left(u) = PLAN_DURATION * Cardinality(Succeeded(u))

\* What Wire has answered about an intent never changes its meaning on the way to the
\* table: no row is settled otherwise than Wire decided, however late the check.
SettledAsDecided ==
    \A i \in DOMAIN payments : payments[i].status \in {"pending", wire[i]}

\* The three ways of settling, together, do what buying a plan promises: every
\* payment gives its period once, from the end of what was left.
Access == INSTANCE PaidAccess WITH
    paid <- {i \in Intents : wire[i] = "succeeded"},
    granted <- {i \in DOMAIN payments : payments[i].status = "succeeded"}
AccessKept == Access!Spec

\* A payment that went through is granted although no webhook ever comes and the
\* customer never looks: reconcilePending finds it, however many newer rows are pending.
PaidIsGranted ==
    \A i \in Intents :
        wire[i] = "succeeded" ~> (i \in DOMAIN payments /\ payments[i].status = "succeeded")
=============================================================================
