----------------------------- MODULE BillingPage -----------------------------
(***************************************************************************)
(* The billing page: a checkout for every click on a plan, the dialog that *)
(* waits for the payment by asking the server every few seconds, and the   *)
(* live query that shows its status, while QPay may never report it to     *)
(* the webhook.  What the server does with a payment is Payments.          *)
(***************************************************************************)
EXTENDS Integers

CONSTANT MaxPayments  \* bound: payments created

ASSUME BillingAssumption == MaxPayments \in Nat

VARIABLES
    created,   \* payments created so far
    qpay,      \* what QPay knows of each: "open", "paid" or "refused"
    stored,    \* the status the server has stored
    starting,  \* a call of startCheckout is in flight
    checkout,  \* the payment of the open dialog
    paymentStatus, \* what the live query shows of it
    asked,     \* payments whose refreshPayment is in flight
    billingError, freeTier \* an error is shown; "off", "activating" or "on"

billingVars == <<created, qpay, stored, starting, checkout, paymentStatus, asked, billingError, freeTier>>

NoCheckout == 0
PaymentIds == 1..MaxPayments

BillingInit ==
    /\ created = 0 /\ qpay = [p \in PaymentIds |-> "open"] /\ stored = [p \in PaymentIds |-> "pending"]
    /\ starting = FALSE /\ checkout = NoCheckout /\ paymentStatus = "loading"
    /\ asked = {} /\ billingError = FALSE /\ freeTier = "off"

\* buy: the dialog is modal, and a plan's button is disabled while a checkout starts.
Buy ==
    /\ ~starting /\ checkout = NoCheckout
    /\ starting' = TRUE /\ billingError' = FALSE
    /\ UNCHANGED <<created, qpay, stored, checkout, paymentStatus, asked, freeTier>>

\* Every click has a request id of its own, so each creates a payment.
CheckoutAnswer ==
    /\ starting /\ created < MaxPayments
    /\ starting' = FALSE /\ created' = created + 1
    /\ checkout' = created + 1 /\ paymentStatus' = "loading"
    /\ UNCHANGED <<qpay, stored, asked, billingError, freeTier>>

\* Unavailable, or an error: the payment may exist all the same.
CheckoutFails ==
    /\ starting /\ starting' = FALSE /\ billingError' = TRUE
    /\ created' \in {created} \cup (IF created < MaxPayments THEN {created + 1} ELSE {})
    /\ UNCHANGED <<qpay, stored, checkout, paymentStatus, asked, freeTier>>

CloseCheckout ==
    /\ checkout # NoCheckout /\ checkout' = NoCheckout /\ paymentStatus' = "loading"
    /\ UNCHANGED <<created, qpay, stored, starting, asked, billingError, freeTier>>

\* Mutant: the page asks once, when the dialog opens.
AskPaymentOnce ==
    /\ checkout # NoCheckout /\ paymentStatus = "loading" /\ asked' = asked \cup {checkout}
    /\ UNCHANGED <<created, qpay, stored, starting, checkout, paymentStatus, billingError, freeTier>>

\* The interval of the effect, while the status shown is "pending".
AskPayment ==
    /\ checkout # NoCheckout /\ paymentStatus = "pending" /\ asked' = asked \cup {checkout}
    /\ UNCHANGED <<created, qpay, stored, starting, checkout, paymentStatus, billingError, freeTier>>

Settled(p) == IF qpay[p] = "paid" THEN "succeeded" ELSE IF qpay[p] = "refused" THEN "failed" ELSE stored[p]

Settle(p) == stored' = [stored EXCEPT ![p] = IF stored[p] = "pending" THEN Settled(p) ELSE stored[p]]

RefreshAnswer(p) ==
    /\ p \in asked /\ asked' = asked \ {p}
    /\ Settle(p)
    /\ UNCHANGED <<created, qpay, starting, checkout, paymentStatus, billingError, freeTier>>

\* Its error is swallowed, and the next tick asks again.
RefreshFails(p) ==
    /\ p \in asked /\ asked' = asked \ {p}
    /\ UNCHANGED <<created, qpay, stored, starting, checkout, paymentStatus, billingError, freeTier>>

\* QPay's callback, or the reconciliation of the server, at any time or never.
Webhook(p) ==
    /\ p <= created /\ stored[p] = "pending" /\ qpay[p] # "open"
    /\ Settle(p)
    /\ UNCHANGED <<created, qpay, starting, checkout, paymentStatus, asked, billingError, freeTier>>

Pay(p, outcome) ==
    /\ p <= created /\ qpay[p] = "open"
    /\ qpay' = [qpay EXCEPT ![p] = outcome]
    /\ UNCHANGED <<created, stored, starting, checkout, paymentStatus, asked, billingError, freeTier>>

LiveQuery ==
    /\ checkout # NoCheckout /\ paymentStatus # stored[checkout]
    /\ paymentStatus' = stored[checkout]
    /\ UNCHANGED <<created, qpay, stored, starting, checkout, asked, billingError, freeTier>>

ActivateFree ==
    /\ checkout = NoCheckout /\ freeTier = "off"
    /\ freeTier' = "activating" /\ billingError' = FALSE
    /\ UNCHANGED <<created, qpay, stored, starting, checkout, paymentStatus, asked>>

FreeAnswer(ok) ==
    /\ freeTier = "activating"
    /\ IF ok THEN freeTier' = "on" /\ UNCHANGED billingError ELSE freeTier' = "off" /\ billingError' = TRUE
    /\ UNCHANGED <<created, qpay, stored, starting, checkout, paymentStatus, asked>>

BillingNext ==
    \/ Buy \/ CheckoutAnswer \/ CheckoutFails \/ CloseCheckout
    \/ AskPayment \/ LiveQuery \/ ActivateFree
    \/ \E p \in PaymentIds :
          \/ RefreshAnswer(p) \/ RefreshFails(p) \/ Webhook(p)
          \/ \E outcome \in {"paid", "refused"} : Pay(p, outcome)
    \/ \E ok \in BOOLEAN : FreeAnswer(ok)

\* The interval ticks, the live query is pushed, and not every refresh fails.
BillingFairness ==
    /\ WF_billingVars(AskPayment) /\ WF_billingVars(LiveQuery)
    /\ \A p \in PaymentIds : SF_billingVars(RefreshAnswer(p))

BillingSpec == BillingInit /\ [][BillingNext]_billingVars /\ BillingFairness

---------------------------------------------------------------------------
(* Properties. *)

BillingTypeOK ==
    /\ created \in 0..MaxPayments /\ checkout \in 0..created
    /\ qpay \in [PaymentIds -> {"open", "paid", "refused"}]
    /\ stored \in [PaymentIds -> {"pending", "succeeded", "failed"}]
    /\ paymentStatus \in {"loading", "pending", "succeeded", "failed"}
    /\ asked \subseteq 1..created /\ {starting, billingError} \subseteq BOOLEAN
    /\ freeTier \in {"off", "activating", "on"}

\* Who pays with the dialog open sees it there sooner or later, also when QPay never
\* reports the payment and refreshes fail now and then.
PaidIsShown ==
    \A p \in PaymentIds : []<>~(checkout = p /\ qpay[p] = "paid" /\ paymentStatus # "succeeded")
=============================================================================
