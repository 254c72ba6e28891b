---------------------------- MODULE ArcGisClient ----------------------------
(***************************************************************************)
(* The ArcGIS client as a whole: requests through the circuit breaker      *)
(* whose headers need a token of the token provider, while the data        *)
(* service and the token service go down and come back.                    *)
(***************************************************************************)
EXTENDS CircuitBreaker, Sequences

CONSTANTS Lifetimes, FailureBackoff

ASSUME ClientAssumption ==
    /\ Lifetimes \subseteq Nat
    /\ FailureBackoff \in Nat
    /\ IsFiniteSet(Tasks)

VARIABLES
    token, renewIn, failure, failedFor, line, generating, dropping, held,
    down,     \* the services that are out of order
    fresh,    \* history: the current token was neither rejected nor has become due
    sinceCall \* history: time since the token service last failed to give a token

TP == INSTANCE TokenProvider

tokens == <<token, renewIn, failure, failedFor, line, generating, dropping, held>>
clientVars == <<vars, tokens, down, fresh, sinceCall>>

ClientInit ==
    /\ Init /\ TP!Init
    /\ down = {} /\ fresh = FALSE /\ sinceCall = FailureBackoff

Same == UNCHANGED <<down, fresh, sinceCall>>

Call(t) == (Enter(t) \/ EnterRefused(t)) /\ UNCHANGED tokens /\ Same

\* _headers returns: at once, after the wait for the lock, or after a renewal.
UseToken(t) == TokenReady(t) /\ (TP!Have(t) \/ TP!Recheck(t)) /\ Same

UseNewToken(t) ==
    /\ "token" \notin down
    /\ \E lifetime \in Lifetimes : TP!Issued(t, lifetime) /\ fresh' = (lifetime > 0)
    /\ TokenReady(t)
    /\ UNCHANGED <<down, sinceCall>>

\* _headers raises: an ArcGISAuthError closes the circuit, an ArcGISUnavailableError
\* of the token service counts as a failure of the data service.
RaiseFailure(t, kind) ==
    IF kind = "refused" THEN TokenRefused(t) ELSE TokenUnavailable(t)

RaiseRemembered(t) == TP!Remembered(t) /\ RaiseFailure(t, failure) /\ Same

RaiseNew(t) ==
    /\ \E kind \in {"refused"} \cup (IF "token" \in down THEN {"unreachable"} ELSE {}) :
          TP!Failed(t, kind) /\ RaiseFailure(t, kind)
    /\ sinceCall' = 0
    /\ UNCHANGED <<down, fresh>>

Await(t) ==
    /\ pc[t] = Headers
    /\ TP!Wait(t) \/ TP!Generate(t) \/ TP!Drop(t)
    /\ UNCHANGED vars /\ Same

\* The data service rejects the token: the first time it is invalidated.
Rejected(t) ==
    /\ TokenRejected(t)
    /\ IF renewed[t] THEN TP!Forget(t) ELSE TP!Reject(t)
    /\ fresh' = (fresh /\ held[t] # token)
    /\ UNCHANGED <<down, sinceCall>>

\* The rest of the request, without the token provider.
Answer(t) ==
    /\ \/ AnswerOk(t) \/ AnswerError(t) \/ SlotTimeout(t)
       \/ "data" \in down /\ (ReadTimeout(t) \/ \E b \in BOOLEAN : RetryableFailure(t, b))
    /\ TP!Forget(t) /\ Same

Proceed(t) == (GetSlot(t) \/ Retry(t)) /\ UNCHANGED tokens /\ Same

Cancelled(t) == Cancel(t) /\ TP!Forget(t) /\ Same

Outage(service) ==
    /\ down' = IF service \in down THEN down \ {service} ELSE down \cup {service}
    /\ UNCHANGED <<vars, tokens, fresh, sinceCall>>

Timers == cooldown + renewIn + failedFor > 0 \/ sinceProbe < RecoveryTime \/ sinceCall < FailureBackoff

Clock ==
    /\ Timers
    /\ Tick \/ (cooldown = 0 /\ sinceProbe = RecoveryTime /\ UNCHANGED vars)
    /\ TP!Age
    /\ fresh' = (fresh /\ renewIn > 1)
    /\ sinceCall' = IF sinceCall < FailureBackoff THEN sinceCall + 1 ELSE sinceCall
    /\ UNCHANGED down

Continue(t) ==
    \/ UseToken(t) \/ UseNewToken(t) \/ RaiseRemembered(t) \/ RaiseNew(t)
    \/ Await(t) \/ Rejected(t) \/ Answer(t) \/ Proceed(t)

ClientNext ==
    \/ Clock
    \/ \E service \in {"data", "token"} : Outage(service)
    \/ \E t \in Tasks : Call(t) \/ Continue(t) \/ Cancelled(t)

\* As for the breaker alone: every wait ends, the clock runs, callers keep calling.
ClientFairness ==
    /\ WF_clientVars(Clock)
    /\ \A t \in Tasks : WF_clientVars(Continue(t)) /\ WF_clientVars(Call(t))

ClientSpec == ClientInit /\ [][ClientNext]_clientVars /\ ClientFairness

---------------------------------------------------------------------------
(* Properties. *)

\* Type invariant of the client's state.
ClientTypeOK ==
    /\ TypeOK /\ TP!TokenTypeOK
    /\ down \subseteq {"data", "token"} /\ fresh \in BOOLEAN /\ sinceCall \in 0..FailureBackoff

\* Requests that find the same token rejected or due cost one renewal between them: the
\* token that replaced it is not renewed because an older one is rejected late.
OneRenewalPerToken == [][\A t \in Tasks : TP!Generate(t) => ~fresh]_clientVars

\* A token service that fails is left alone for the backoff time, by all the requests
\* that waited for the renewal and by those that come later, whoever is cancelled.
FailingServiceIsSpared ==
    [][\A t \in Tasks : TP!Generate(t) => failure = "none" \/ sinceCall >= FailureBackoff]_clientVars

\* The probe of the half-open circuit was cancelled, and no request will answer for it.
Orphaned == circuit = "half_open" /\ probeInFlight /\ \A t \in Tasks : pc[t] = Idle

\* When both services are up for good and no cancelled request was the probe, the
\* breaker closes again, whatever failures the token provider remembers.
BreakerRecovers == <>[](down = {} /\ ~Orphaned) => []<>(circuit = "closed")
=============================================================================
