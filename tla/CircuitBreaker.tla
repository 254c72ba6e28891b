--------------------------- MODULE CircuitBreaker ---------------------------
(***************************************************************************)
(* Upstream requests of the ArcGIS client: the closed/half-open/open       *)
(* circuit breaker, the wait for one of the concurrency slots, the         *)
(* attempts with their retries and the single renewal of a rejected token. *)
(*                                                                         *)
(* Requests are asyncio tasks: they interleave at every await, and the     *)
(* code around the client may cancel one at any await (the demo deadline,  *)
(* the readiness check's wait_for).  The bodies of _circuit_enter,         *)
(* _circuit_succeeded and _circuit_failed hold a lock and await nothing,   *)
(* so each is a part of one action.                                        *)
(***************************************************************************)
EXTENDS Integers, FiniteSets

CONSTANTS
    Tasks,            \* requests that may be in flight together
    Cancellable,      \* tasks that run under a deadline that cancels them
    FailureThreshold, \* circuit_failure_threshold
    RecoveryTime,     \* circuit_recovery_seconds, in ticks of the model
    MaxRetries,       \* max_retries
    MaxConcurrency    \* slots of the semaphore

ASSUME BreakerAssumption ==
    /\ Cancellable \subseteq Tasks
    /\ FailureThreshold \in Nat \ {0}
    /\ RecoveryTime \in Nat \ {0}
    /\ MaxRetries \in Nat
    /\ MaxConcurrency \in Nat \ {0}

VARIABLES
    circuit,       \* _circuit_state
    failures,      \* _circuit_failures, which matters only up to the threshold
    cooldown,      \* time left until _circuit_open_until
    probeInFlight, \* _circuit_probe_in_flight
    pc,            \* where each task is
    attempt,       \* failed attempts of a task
    renewed,       \* token_renewed
    sends,         \* history: upstream calls made for the task's request
    sinceProbe     \* history: time since a request was let through a circuit that was
                   \* not closed; RecoveryTime when none was since the last success

breaker == <<circuit, failures, cooldown, probeInFlight>>
request == <<attempt, renewed, sends>>
vars == <<breaker, pc, request, sinceProbe>>

Idle == "idle"           \* no request
Headers == "headers"     \* awaiting the token provider
Queued == "queued"       \* waiting for a slot
Sending == "sending"     \* one upstream attempt
Backoff == "backoff"     \* sleeping before the next attempt

Places == {Idle, Headers, Queued, Sending, Backoff}

Init ==
    /\ circuit = "closed"
    /\ failures = 0
    /\ cooldown = 0
    /\ probeInFlight = FALSE
    /\ pc = [t \in Tasks |-> Idle]
    /\ attempt = [t \in Tasks |-> 0]
    /\ renewed = [t \in Tasks |-> FALSE]
    /\ sends = [t \in Tasks |-> 0]
    /\ sinceProbe = RecoveryTime

---------------------------------------------------------------------------
(* The breaker. *)

\* Mutant: a probe in flight does not keep other requests out.
RefusesWhileOpen == circuit = "open" /\ cooldown > 0

Refuses == (circuit = "open" /\ cooldown > 0) \/ (circuit = "half_open" /\ probeInFlight)

\* A request that is let through becomes the probe of a circuit that is not closed.
circuitEnter ==
    /\ ~Refuses
    /\ IF circuit = "closed"
       THEN UNCHANGED <<breaker, sinceProbe>>
       ELSE /\ circuit' = "half_open"
            /\ probeInFlight' = TRUE
            /\ sinceProbe' = 0
            /\ UNCHANGED <<failures, cooldown>>

circuitSucceeded ==
    /\ circuit' = "closed"
    /\ failures' = 0
    /\ probeInFlight' = FALSE
    /\ sinceProbe' = RecoveryTime
    /\ UNCHANGED cooldown

Saturating(n) == IF n < FailureThreshold THEN n ELSE FailureThreshold

circuitFailed ==
    /\ probeInFlight' = FALSE
    /\ failures' = Saturating(failures + 1)
    /\ IF circuit = "half_open" \/ failures + 1 >= FailureThreshold
       THEN circuit' = "open" /\ cooldown' = RecoveryTime
       ELSE UNCHANGED <<circuit, cooldown>>
    /\ UNCHANGED sinceProbe

---------------------------------------------------------------------------
(* A request. *)

Goto(t, place) == pc' = [pc EXCEPT ![t] = place]

\* _request returns or raises; the caller's next request starts afresh.
Finish(t) ==
    /\ Goto(t, Idle)
    /\ attempt' = [attempt EXCEPT ![t] = 0]
    /\ renewed' = [renewed EXCEPT ![t] = FALSE]
    /\ sends' = [sends EXCEPT ![t] = 0]

Enter(t) ==
    /\ pc[t] = Idle
    /\ circuitEnter
    /\ Goto(t, Headers)
    /\ UNCHANGED request

\* A request that meets an open circuit, or a probe in flight, is refused at once.
EnterRefused(t) == pc[t] = Idle /\ Refuses /\ UNCHANGED vars

\* The token provider returns a token, reports that its service is unreachable, or
\* raises ArcGISAuthError: refused credentials, also when it only repeats the
\* failure it remembers.  An ArcGISAuthError is an ArcGISError like any other.
TokenReady(t) ==
    /\ pc[t] = Headers
    /\ Goto(t, Queued)
    /\ UNCHANGED <<breaker, request, sinceProbe>>

TokenUnavailable(t) == pc[t] = Headers /\ Finish(t) /\ circuitFailed

TokenRefused(t) == pc[t] = Headers /\ Finish(t) /\ circuitSucceeded

FreeSlot == Cardinality({t \in Tasks : pc[t] = Sending}) < MaxConcurrency

GetSlot(t) ==
    /\ pc[t] = Queued
    /\ FreeSlot
    /\ Goto(t, Sending)
    /\ sends' = [sends EXCEPT ![t] = @ + 1]
    /\ UNCHANGED <<breaker, attempt, renewed, sinceProbe>>

\* The queue timeout raises ArcGISUnavailableError: it counts against the upstream.
SlotTimeout(t) == pc[t] = Queued /\ ~FreeSlot /\ Finish(t) /\ circuitFailed

AnswerOk(t) == pc[t] = Sending /\ Finish(t) /\ circuitSucceeded

\* HTTP 4xx, an ArcGIS error below 500, a body that is no JSON or too large.
AnswerError(t) == pc[t] = Sending /\ Finish(t) /\ circuitSucceeded

\* Mutant: the token is renewed as often as it is rejected.
TokenRejectedAlways(t) ==
    /\ pc[t] = Sending
    /\ Goto(t, Headers)
    /\ UNCHANGED <<breaker, request, sinceProbe>>

\* The first rejected token is renewed and the attempt repeated without counting it;
\* a second one is an error response.
TokenRejected(t) ==
    /\ pc[t] = Sending
    /\ IF renewed[t]
       THEN Finish(t) /\ circuitSucceeded
       ELSE /\ renewed' = [renewed EXCEPT ![t] = TRUE]
            /\ Goto(t, Headers)
            /\ UNCHANGED <<breaker, attempt, sends, sinceProbe>>

\* A slow upstream is not retried.
ReadTimeout(t) == pc[t] = Sending /\ Finish(t) /\ circuitFailed

\* Connection failures and 5xx are retried while attempts and the deadline last.
RetryableFailure(t, beforeDeadline) ==
    /\ pc[t] = Sending
    /\ IF attempt[t] + 1 <= MaxRetries /\ beforeDeadline
       THEN /\ attempt' = [attempt EXCEPT ![t] = @ + 1]
            /\ Goto(t, Backoff)
            /\ UNCHANGED <<breaker, renewed, sends, sinceProbe>>
       ELSE Finish(t) /\ circuitFailed

Retry(t) ==
    /\ pc[t] = Backoff
    /\ Goto(t, Headers)
    /\ UNCHANGED <<breaker, request, sinceProbe>>

\* CancelledError is not an ArcGISError: the breaker does not hear of it.
Cancel(t) ==
    /\ t \in Cancellable
    /\ pc[t] # Idle
    /\ Finish(t)
    /\ UNCHANGED <<breaker, sinceProbe>>

Tick ==
    /\ cooldown > 0 \/ sinceProbe < RecoveryTime
    /\ cooldown' = IF cooldown > 0 THEN cooldown - 1 ELSE 0
    /\ sinceProbe' = IF sinceProbe < RecoveryTime THEN sinceProbe + 1 ELSE sinceProbe
    /\ UNCHANGED <<circuit, failures, probeInFlight, pc, request>>

Progress(t) ==
    \/ TokenReady(t) \/ TokenUnavailable(t) \/ TokenRefused(t)
    \/ GetSlot(t) \/ SlotTimeout(t)
    \/ AnswerOk(t) \/ AnswerError(t) \/ TokenRejected(t) \/ ReadTimeout(t)
    \/ \E beforeDeadline \in BOOLEAN : RetryableFailure(t, beforeDeadline)
    \/ Retry(t)

Next == Tick \/ \E t \in Tasks : Enter(t) \/ EnterRefused(t) \/ Progress(t) \/ Cancel(t)

Spec == Init /\ [][Next]_vars

\* Every wait of a request has a timeout, so a running request goes on; the clock
\* runs; and callers keep calling.  Nothing obliges a caller to cancel.
Fairness ==
    /\ WF_vars(Tick)
    /\ \A t \in Tasks : WF_vars(Progress(t)) /\ WF_vars(Enter(t))

FairSpec == Spec /\ Fairness

---------------------------------------------------------------------------
(* Properties. *)

\* Type invariant of the module's state.
TypeOK ==
    /\ circuit \in {"closed", "open", "half_open"}
    /\ failures \in 0..FailureThreshold
    /\ cooldown \in 0..RecoveryTime
    /\ probeInFlight \in BOOLEAN
    /\ pc \in [Tasks -> Places]
    /\ attempt \in [Tasks -> Nat]
    /\ renewed \in [Tasks -> BOOLEAN]
    /\ sends \in [Tasks -> Nat]
    /\ sinceProbe \in 0..RecoveryTime

\* The point of the breaker: until a request succeeds, a circuit that has opened lets
\* through at most one request per recovery time, whatever late answers of requests
\* sent before it opened arrive in between, and whoever is cancelled.
ProbesAreSpaced ==
    [][\A t \in Tasks : Enter(t) /\ circuit # "closed" => sinceProbe >= RecoveryTime]_vars

\* One request costs the upstream a bounded number of calls: the first, its retries
\* and one more for a renewed token.
CallsAreBounded == \A t \in Tasks : sends[t] <= MaxRetries + 2

\* A circuit that is not closed is backed by enough availability failures since the
\* last success: a single failure of a healthy upstream never leaves it open.
OpenOnlyAfterFailures == circuit # "closed" => failures = FailureThreshold

\* The half-open state is a passage: its probe closes or reopens the circuit.
HalfOpenResolves == (circuit = "half_open") ~> (circuit # "half_open")
=============================================================================
