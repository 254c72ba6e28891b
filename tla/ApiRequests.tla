----------------------------- MODULE ApiRequests -----------------------------
(***************************************************************************)
(* A request on its way through the API: the checks of the middleware      *)
(* stack, authentication with the failure limiter, the memory of refused   *)
(* credentials and the site key's local cache, the anonymous demo with its *)
(* queue, deadline and cache, and the readiness probe with its shared      *)
(* result.  Requests interleave at every await.  They come from one client *)
(* address (the limiter keeps the addresses apart), and each action that   *)
(* responds names the statuses it may respond with.                        *)
(***************************************************************************)
EXTENDS Integers, FiniteSets

CONSTANTS
    Calls,        \* requests that may be in flight together
    FailureLimit, \* failed_auth_per_ip_per_minute
    SiteLimit,    \* the tightest limit of the local window limiter
    KeyTtl,       \* auth_cache_ttl_seconds, in ticks of the model
    DemoSlots,    \* demo_max_concurrency
    ReadyCache    \* READY_CACHE_SECONDS, in ticks of the model

ASSUME RequestsAssumption ==
    /\ FailureLimit \in Nat \ {0} /\ SiteLimit \in Nat /\ KeyTtl \in Nat
    /\ DemoSlots \in Nat \ {0} /\ ReadyCache \in Nat \ {0}
    /\ IsFiniteSet(Calls)

VARIABLES
    stage,        \* where each request is
    misses,       \* FailureLimiter: failures of the client in this minute
    knownBad,     \* TerminalStatusCache: it holds a refused credential
    keyAge,       \* age of the key's entry in key_cache, KeyTtl + 1 for none
    siteHits,     \* WindowRateLimiter: hits of this minute
    demoCached,   \* demo_geocode_cache holds an answer
    demoFree,     \* demo_semaphore
    readyAge,     \* age of app.state.readiness, ReadyCache + 1 when too old or missing
    prober,       \* the holder of readiness_lock
    refusedCalls  \* history: calls to Convex this minute that refused a credential

authState == <<misses, knownBad, keyAge, siteHits, refusedCalls>>
demoState == <<demoCached, demoFree>>
readyState == <<readyAge, prober>>
apiVars == <<stage, authState, demoState, readyState>>

Nobody == "none"

ApiInit ==
    /\ stage = [c \in Calls |-> "free"]
    /\ misses = 0 /\ knownBad = FALSE /\ refusedCalls = 0
    /\ keyAge = KeyTtl + 1 /\ siteHits = 0
    /\ demoCached = FALSE /\ demoFree = DemoSlots
    /\ readyAge = ReadyCache + 1 /\ prober = Nobody

Moves(c, from, to) == stage[c] = from /\ stage' = [stage EXCEPT ![c] = to]

\* The response is sent; with a principal the metering queues a usage record
\* (UsageRecording!record).
Responds(c, from, statuses) == statuses # {} /\ Moves(c, from, "free")

\* Headers or query too large, parameters too many, repeated or unknown; a body too large.
RequestLimits(c) ==
    Responds(c, "free", {431, 414, 400}) /\ UNCHANGED <<authState, demoState, readyState>>

BodySizeLimit(c) ==
    Responds(c, "free", {413}) /\ UNCHANGED <<authState, demoState, readyState>>

---------------------------------------------------------------------------
(* require_api_key. *)

Blocked == misses >= FailureLimit

\* Mutant: a credential that Convex refuses is not counted.
UncountedFailure == UNCHANGED misses

\* The count matters only up to the limit.
RecordFailure == misses' = IF misses < FailureLimit THEN misses + 1 ELSE misses

\* Two Authorization headers, none, or an address that is blocked.
Unauthenticated(c) ==
    /\ Responds(c, "free", {401} \cup (IF Blocked THEN {429} ELSE {}))
    /\ UNCHANGED <<authState, demoState, readyState>>

\* A credential that cannot be one, or one that was refused a short while ago.
KnownBad(c) ==
    /\ ~Blocked
    /\ Responds(c, "free", {401} \cup (IF knownBad THEN {403} ELSE {}))
    /\ RecordFailure
    /\ UNCHANGED <<knownBad, keyAge, siteHits, refusedCalls, demoState, readyState>>

AskConvex(c) ==
    /\ ~Blocked
    /\ Moves(c, "free", "authorizing")
    /\ UNCHANGED <<authState, demoState, readyState>>

\* invalid, revoked or expired, from authorize or from describe: remembered and counted.
RefusedAs(c, from) ==
    /\ Responds(c, from, {401, 403})
    /\ knownBad' = TRUE /\ RecordFailure
    /\ refusedCalls' = refusedCalls + 1
    /\ UNCHANGED <<keyAge, siteHits, demoState, readyState>>

Refusal(c) == RefusedAs(c, "authorizing") \/ RefusedAs(c, "describing")

\* Unpaid, not allowed here, over a limit, or Convex unreachable.
Declined(c) ==
    /\ Responds(c, "authorizing", {402, 403, 429, 503}) \/ Responds(c, "describing", {402, 503})
    /\ UNCHANGED <<authState, demoState, readyState>>

Authorized(c) ==
    /\ Moves(c, "authorizing", "serving")
    /\ UNCHANGED <<authState, demoState, readyState>>

\* _authorize_cached: the site key's description is taken from the cache or asked for;
\* an endpoint that it does not allow is refused before anything is counted, and a hit
\* over the limit is counted all the same.
WithDescription(c, from) ==
    \/ Responds(c, from, {403}) /\ UNCHANGED siteHits
    \/ /\ siteHits' = IF siteHits < SiteLimit THEN siteHits + 1 ELSE siteHits
       /\ IF siteHits < SiteLimit THEN Moves(c, from, "serving") ELSE Responds(c, from, {429})

SiteKeyCached(c) ==
    /\ ~Blocked /\ keyAge <= KeyTtl
    /\ WithDescription(c, "free")
    /\ UNCHANGED <<misses, knownBad, keyAge, refusedCalls, demoState, readyState>>

AskDescription(c) ==
    /\ ~Blocked /\ keyAge > KeyTtl /\ KeyTtl > 0
    /\ Moves(c, "free", "describing")
    /\ UNCHANGED <<authState, demoState, readyState>>

Described(c) ==
    /\ WithDescription(c, "describing")
    /\ keyAge' = 0
    /\ UNCHANGED <<misses, knownBad, refusedCalls, demoState, readyState>>

\* What the exception handlers make of the failures of a provider, and of any other.
GeoErrors == {400, 404, 408, 502, 503}
Unhandled == {500}
ServiceStatuses == {200} \cup GeoErrors \cup Unhandled

\* The handlers: invalid parameters, an answer, or a failure; only a route may be not found.
geocode(c) ==
    Responds(c, "serving", ServiceStatuses \ {404}) /\ UNCHANGED <<authState, demoState, readyState>>

route(c) == Responds(c, "serving", ServiceStatuses) /\ UNCHANGED <<authState, demoState, readyState>>

Unremember ==
    /\ knownBad /\ knownBad' = FALSE
    /\ UNCHANGED <<stage, misses, keyAge, siteHits, refusedCalls, demoState, readyState>>

\* The next minute: the windows of both limiters start again.
NextMinute ==
    /\ misses' = 0 /\ siteHits' = 0 /\ refusedCalls' = 0
    /\ keyAge' = IF keyAge <= KeyTtl THEN keyAge + 1 ELSE keyAge
    /\ UNCHANGED <<stage, knownBad, demoState, readyState>>

---------------------------------------------------------------------------
(* The demo. *)

AskDemo(c) == Moves(c, "free", "demo") /\ UNCHANGED <<authState, demoState, readyState>>

DemoDeclined(c) == Responds(c, "demo", {429, 503}) /\ UNCHANGED <<authState, demoState, readyState>>

DemoAllowed(c) == Moves(c, "demo", "queued") /\ UNCHANGED <<authState, demoState, readyState>>

DemoSlot(c) ==
    /\ demoFree > 0 /\ demoFree' = demoFree - 1
    /\ Moves(c, "queued", "exploring")
    /\ UNCHANGED <<authState, demoCached, readyState>>

DemoBusy(c) ==
    /\ demoFree = 0
    /\ Responds(c, "queued", {503})
    /\ UNCHANGED <<authState, demoState, readyState>>

\* Mutant: the deadline keeps the slot.
DemoEndsLeaking(c) ==
    /\ \/ demoCached /\ Responds(c, "exploring", {200}) /\ demoFree' = demoFree + 1
       \/ Responds(c, "exploring", {504}) /\ UNCHANGED demoFree
    /\ UNCHANGED <<authState, demoCached, readyState>>

\* Bad parameters, an answer of the cache, of the provider, its failure, or the
\* deadline: the slot is released in every case.
DemoEnds(c) ==
    /\ demoFree' = demoFree + 1
    /\ \/ Responds(c, "exploring", (ServiceStatuses \cup {504}) \ {200}) /\ UNCHANGED demoCached
       \/ Responds(c, "exploring", {200}) /\ demoCached' \in {demoCached, TRUE}
    /\ UNCHANGED <<authState, readyState>>

DemoExpires ==
    /\ demoCached /\ demoCached' = FALSE
    /\ UNCHANGED <<stage, demoFree, authState, readyState>>

---------------------------------------------------------------------------
(* Probes. *)

AskReady(c) == Moves(c, "free", "probing") /\ UNCHANGED <<authState, demoState, readyState>>

\* With the lock: the result of the last run, while it is young enough.
ReadyCached(c) ==
    /\ prober = Nobody /\ readyAge <= ReadyCache
    /\ Responds(c, "probing", {200, 503})
    /\ UNCHANGED <<authState, demoState, readyState>>

\* The result is dated by the start of its run.
ReadyRun(c) ==
    /\ stage[c] = "probing" /\ prober = Nobody /\ readyAge > ReadyCache
    /\ prober' = c /\ readyAge' = 0
    /\ UNCHANGED <<stage, authState, demoState>>

ReadyDone(c) ==
    /\ prober = c /\ prober' = Nobody
    /\ Responds(c, "probing", {200, 503})
    /\ UNCHANGED <<readyAge, authState, demoState>>

Second ==
    /\ readyAge <= ReadyCache
    /\ readyAge' = readyAge + 1
    /\ UNCHANGED <<stage, prober, authState, demoState>>

ApiNext ==
    \/ Unremember \/ NextMinute \/ DemoExpires \/ Second
    \/ \E c \in Calls :
          \/ RequestLimits(c) \/ BodySizeLimit(c) \/ Unauthenticated(c) \/ KnownBad(c) \/ AskConvex(c)
          \/ Refusal(c) \/ Declined(c) \/ Authorized(c) \/ geocode(c) \/ route(c)
          \/ SiteKeyCached(c) \/ AskDescription(c) \/ Described(c)
          \/ AskDemo(c) \/ DemoDeclined(c) \/ DemoAllowed(c) \/ DemoSlot(c) \/ DemoBusy(c) \/ DemoEnds(c)
          \/ AskReady(c) \/ ReadyCached(c) \/ ReadyRun(c) \/ ReadyDone(c)

ApiSpec == ApiInit /\ [][ApiNext]_apiVars

---------------------------------------------------------------------------
(* Properties. *)

\* Type invariant; the semaphore's count is what its holders leave.
ApiTypeOK ==
    /\ stage \in [Calls -> {"free", "authorizing", "describing", "serving", "demo", "queued",
                            "exploring", "probing"}]
    /\ misses \in 0..FailureLimit /\ knownBad \in BOOLEAN
    /\ keyAge \in 0..KeyTtl + 1 /\ siteHits \in 0..SiteLimit
    /\ demoCached \in BOOLEAN
    /\ demoFree \in Nat
    /\ demoFree + Cardinality({c \in Calls : stage[c] = "exploring"}) = DemoSlots
    /\ readyAge \in 0..ReadyCache + 1
    /\ prober \in Calls \cup {Nobody} /\ (prober # Nobody => stage[prober] = "probing")
    /\ refusedCalls \in Nat

\* Bad credentials from one address cost Convex at most the limit per minute, and the
\* requests that were already on their way when it was reached.
FailedCallsBounded == refusedCalls < FailureLimit + Cardinality(Calls)
=============================================================================
