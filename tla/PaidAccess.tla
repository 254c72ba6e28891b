----------------------------- MODULE PaidAccess -----------------------------
(***************************************************************************)
(* What buying a plan promises: a payment that went through gives its      *)
(* account one period of access, once, on top of what is left of the       *)
(* periods before; nothing else gives access.                              *)
(***************************************************************************)
EXTENDS Integers

CONSTANTS Accounts, Intents, PLAN_DURATION

VARIABLES
    now,
    paid,       \* payments that went through
    granted,    \* payments that have given their period
    expiresAt   \* [Accounts -> Nat]

accessVars == <<now, paid, granted, expiresAt>>

Init ==
    /\ now = 0
    /\ paid = {} /\ granted = {}
    /\ expiresAt = [u \in Accounts |-> 0]

Pay(i) ==
    /\ i \in Intents \ paid
    /\ paid' = paid \cup {i}
    /\ UNCHANGED <<now, granted, expiresAt>>

Extended(u) == (IF expiresAt[u] > now THEN expiresAt[u] ELSE now) + PLAN_DURATION

Grant(i, u) ==
    /\ i \in paid \ granted
    /\ granted' = granted \cup {i}
    /\ expiresAt' = [expiresAt EXCEPT ![u] = Extended(u)]
    /\ UNCHANGED <<now, paid>>

Tick == now' = now + 1 /\ UNCHANGED <<paid, granted, expiresAt>>

Next == Tick \/ \E i \in Intents : Pay(i) \/ \E u \in Accounts : Grant(i, u)

Spec == Init /\ [][Next]_accessVars
=============================================================================
