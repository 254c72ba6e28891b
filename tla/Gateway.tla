------------------------------ MODULE Gateway ------------------------------
(***************************************************************************)
(* The decision the Convex backend takes on every authenticated request:   *)
(* internal.gateway.authorize with its rate-limit windows, the customer    *)
(* quotas and the free allowance, together with the account changes that   *)
(* move a customer between the free tier and a paid plan and the cron job  *)
(* that prunes the counter tables.                                         *)
(*                                                                         *)
(* A Convex mutation is serializable, so one mutation is one action.       *)
(* Time is counted in rate-limit windows (one minute = one unit).          *)
(***************************************************************************)
EXTENDS RateWindows

CONSTANTS
    Users,            \* customer accounts
    SystemUser,       \* the platform's account, owner of the site keys
    Keys,             \* customer keys
    SiteKeys,         \* keys with isSiteKey, owned by SystemUser
    OwnerOf,          \* [Keys -> Users]
    EndpointsOf,      \* [Keys \cup SiteKeys -> SUBSET Endpoints], the key's scope
    KeyExpiry,        \* [Keys \cup SiteKeys -> Nat]; Never for a key without expiresAt
    Never,
    Endpoints,        \* API_ENDPOINTS
    Route,            \* the endpoint with its own lower limit
    Visitors,         \* visitor addresses (hashed) the website forwards
    Plans,            \* PAID_PLANS
    NoPlan,
    MonthlyRequests,  \* [Plans -> Nat]
    RequestsPerMinute,\* [Plans -> Nat]
    FREE_TOTAL_REQUESTS,
    FREE_RATE_LIMIT_PER_MINUTE,
    RouteLimit,       \* routeRateLimitPerMinute()
    GlobalLimit,      \* globalRateLimitPerMinute()
    PerIpLimit,       \* perIpLimit sent by the gateway
    SiteKeyLimit,     \* the site key's own cap
    ConfiguredQuota,  \* the quotas of lib/env.ts, per kind of bucket and period
    PLAN_DURATION,
    DayLength, MonthLength,
    RateRetention, QuotaRetention, \* ages at which prune deletes rows
    BATCH,            \* rows of one table one prune run may delete
    Lockable, Revocable, \* bounds of the model: accounts and keys an operator touches
    MaxRequests,      \* bound of the model on the requests that are counted
    MaxTime           \* bound of the model on the clock

Day == "day"
Month == "month"
Periods == {Day, Month}
QuotaKinds == {"key", "tenant", "tenant-endpoint"}

AllKeys == Keys \cup SiteKeys
Owner(k) == IF k \in SiteKeys THEN SystemUser ELSE OwnerOf[k]

ASSUME KeysAssumption ==
    /\ OwnerOf \in [Keys -> Users]
    /\ SystemUser \notin Users
    /\ Keys \cap SiteKeys = {}
    /\ KeyExpiry \in [AllKeys -> Nat \cup {Never}]
    /\ Lockable \subseteq Users /\ Revocable \subseteq AllKeys
    /\ EndpointsOf \in [AllKeys -> SUBSET Endpoints]
    /\ Route \in Endpoints

ASSUME PlansAssumption ==
    /\ NoPlan \notin Plans
    /\ MonthlyRequests \in [Plans -> Nat]
    /\ RequestsPerMinute \in [Plans -> Nat]

ASSUME NumbersAssumption ==
    /\ FREE_TOTAL_REQUESTS \in Nat
    /\ FREE_RATE_LIMIT_PER_MINUTE \in Nat
    /\ ConfiguredQuota \in [QuotaKinds \X Periods -> Nat]
    /\ RouteLimit \in Nat /\ GlobalLimit \in Nat
    /\ PerIpLimit \in Nat /\ SiteKeyLimit \in Nat
    /\ PLAN_DURATION \in Nat /\ BATCH \in Nat /\ MaxRequests \in Nat /\ MaxTime \in Nat
    /\ DayLength \in Nat \ {0} /\ MonthLength \in Nat \ {0}
    /\ RateRetention \in Nat /\ QuotaRetention \in Nat

\* A month is so many days, so that one of them begins with it.
ASSUME CalendarAssumption == \E n \in 1..MonthLength : MonthLength = n * DayLength

\* Quota rows outlive the period they count (400 days against a month), and
\* the default quotas are above the free allowance (10,000 against 500).
ASSUME RetentionAssumption == QuotaRetention >= MonthLength /\ QuotaRetention >= DayLength
ASSUME FreeQuotaAssumption ==
    \A kind \in QuotaKinds, period \in Periods :
        ConfiguredQuota[<<kind, period>>] >= FREE_TOTAL_REQUESTS

VARIABLES
    now,
    account,      \* [Users -> plan, planExpiresAt, freeActivated, freeRequestsUsed]
    disabled,     \* accounts with disabledAt
    revoked,      \* keys with revokedAt
    windows,      \* rateLimitWindows
    quotas,       \* quotaWindows
    admitted,     \* history: requests of an account answered "ok" this minute
    arrived,      \* requests counted so far, for MaxRequests
    freeAnswered, \* history: free requests whose "ok" reached the gateway
    paidAdmitted, \* history: paid requests answered "ok" this calendar month
    siteAdmitted  \* history: site-key requests of a visitor answered "ok" this minute

history == <<admitted, freeAnswered, paidAdmitted, siteAdmitted>>
vars == <<now, account, disabled, revoked, windows, quotas, history, arrived>>

---------------------------------------------------------------------------
(* Plans and access (lib/plans.ts). *)

Account == [plan : Plans \cup {NoPlan}, planExpiresAt : Nat,
            freeActivated : BOOLEAN, freeRequestsUsed : Nat]

activePlan(u) ==
    IF account[u].plan # NoPlan /\ account[u].planExpiresAt > now
    THEN account[u].plan ELSE NoPlan

freeRequestsRemain(u) ==
    /\ account[u].freeActivated
    /\ account[u].freeRequestsUsed < FREE_TOTAL_REQUESTS

hasKeyAccess(u) == activePlan(u) # NoPlan \/ freeRequestsRemain(u)

PlanRate(plan) ==
    IF plan = NoPlan THEN FREE_RATE_LIMIT_PER_MINUTE ELSE RequestsPerMinute[plan]

---------------------------------------------------------------------------
(* Rate limits: every limit of the request is hit, admitted or not. *)

Least(a, b) == IF a <= b THEN a ELSE b

\* Mutant: the account's own bucket is forgotten.
CustomerLimitsPerKey(k, e, plan) ==
    {[bucket |-> <<"key", k>>, limit |-> PlanRate(plan)],
     [bucket |-> <<"global">>, limit |-> GlobalLimit]}

CustomerLimits(k, e, plan) ==
    {[bucket |-> <<"key", k>>, limit |-> PlanRate(plan)],
     [bucket |-> <<"user", OwnerOf[k]>>, limit |-> PlanRate(plan)],
     [bucket |-> <<"endpoint", k, e>>,
      limit |-> IF e = Route THEN Least(PlanRate(plan), RouteLimit) ELSE PlanRate(plan)],
     [bucket |-> <<"global">>, limit |-> GlobalLimit]}

\* Mutant: the overall cap on the shared key is forgotten.
SiteLimitsPerVisitor(k, e, v) ==
    {[bucket |-> <<"ip", v>>, limit |-> PerIpLimit]}
    \cup IF e = Route
         THEN {[bucket |-> <<"ip-route", v>>, limit |-> Least(PerIpLimit, RouteLimit)]}
         ELSE {}

SiteLimits(k, e, v) ==
    {[bucket |-> <<"ip", v>>, limit |-> PerIpLimit],
     [bucket |-> <<"key", k>>, limit |-> SiteKeyLimit]}
    \cup IF e = Route
         THEN {[bucket |-> <<"ip-route", v>>, limit |-> Least(PerIpLimit, RouteLimit)]}
         ELSE {}

---------------------------------------------------------------------------
(* Customer quotas: day and month per key and per account, month per       *)
(* endpoint of the account.  Free traffic has rows of its own.             *)

\* Mutant: the period that ended a moment ago.
quotaPeriodBefore(period) ==
    WindowStart(now - 1, IF period = Day THEN DayLength ELSE MonthLength)

quotaPeriod(period) ==
    WindowStart(now, IF period = Day THEN DayLength ELSE MonthLength)

\* Mutant: free and paid traffic share their rows.
PrefixShared(plan) == "paid"

Prefix(plan) == IF plan = NoPlan THEN "free" ELSE "paid"

QuotaRow(bucket, period) == <<bucket, period, quotaPeriod(period)>>

QuotaRows(k, e, plan) ==
    {QuotaRow(<<Prefix(plan), "key", k>>, period) : period \in Periods}
    \cup {QuotaRow(<<Prefix(plan), "tenant", OwnerOf[k]>>, period) : period \in Periods}
    \cup {QuotaRow(<<Prefix(plan), "tenant-endpoint", OwnerOf[k], e>>, Month)}

\* A paid plan's monthly number bounds every row; free rows also have the
\* configured limit of their kind.
QuotaLimit(row, plan) ==
    IF plan = NoPlan
    THEN Least(FREE_TOTAL_REQUESTS, ConfiguredQuota[<<row[1][2], row[2]>>])
    ELSE MonthlyRequests[plan]

QuotaAdmits(k, e, plan) ==
    \A row \in QuotaRows(k, e, plan) : Count(quotas, row) + 1 <= QuotaLimit(row, plan)

\* Two passes: the rows are charged only when every one of them admits.
ChargeQuotas(k, e, plan) == quotas' = AddTo(quotas, QuotaRows(k, e, plan), 1)

\* usage.summary: the allowance an account is told it has, and how much of it is used.
\* Without a plan the lifetime allowance takes the place of the month's.
monthlyQuota(u) ==
    IF activePlan(u) # NoPlan
    THEN [used |-> Count(quotas, QuotaRow(<<"paid", "tenant", u>>, Month)),
          limit |-> MonthlyRequests[activePlan(u)]]
    ELSE [used |-> account[u].freeRequestsUsed, limit |-> FREE_TOTAL_REQUESTS]

---------------------------------------------------------------------------
Init ==
    /\ now = 0
    /\ account = [u \in Users |-> [plan |-> NoPlan, planExpiresAt |-> 0,
                                   freeActivated |-> FALSE, freeRequestsUsed |-> 0]]
    /\ disabled = {}
    /\ revoked = {}
    /\ windows = EmptyTable
    /\ quotas = EmptyTable
    /\ arrived = 0
    /\ admitted = [u \in Users |-> 0]
    /\ freeAnswered = [u \in Users |-> 0]
    /\ paidAdmitted = [u \in Users |-> 0]
    /\ siteAdmitted = [r \in Visitors \X Endpoints |-> 0]

KeyIsLive(k) ==
    /\ k \notin revoked
    /\ KeyExpiry[k] # Never => now < KeyExpiry[k]
    /\ Owner(k) \notin disabled

\* The request passes every check that comes before the counters.
CustomerMayCall(k, e) == KeyIsLive(k) /\ hasKeyAccess(OwnerOf[k]) /\ e \in EndpointsOf[k]

HitWindows(limits) ==
    /\ arrived < MaxRequests
    /\ arrived' = arrived + 1
    /\ windows' = AddTo(windows, RowsOf(limits, now), 1)
RateAdmits(limits) == WithinLimits(windows, limits, now, 1)

\* A request with the website's key: rate limits only, no plan and no quota.
SiteMayCall(k, e) == KeyIsLive(k) /\ e \in EndpointsOf[k]

\* "invalid", "revoked", "expired", "payment_required", "endpoint_not_allowed":
\* none of them is counted.
Refuse(k, e) ==
    /\ ~(IF k \in SiteKeys THEN SiteMayCall(k, e) ELSE CustomerMayCall(k, e))
    /\ UNCHANGED vars

\* "rate_limited": counted in every window, charged to no quota.
RateLimited(k, e) ==
    LET limits == CustomerLimits(k, e, activePlan(OwnerOf[k])) IN
    /\ CustomerMayCall(k, e)
    /\ ~RateAdmits(limits)
    /\ HitWindows(limits)
    /\ UNCHANGED <<now, account, disabled, revoked, quotas, history>>

\* Mutant: one pass, which charges the rows that admit before one refuses.
QuotaExceededOnePass(k, e) ==
    LET plan == activePlan(OwnerOf[k])
        admitting == {row \in QuotaRows(k, e, plan) : Count(quotas, row) + 1 <= QuotaLimit(row, plan)}
        limits == CustomerLimits(k, e, plan)
    IN
    /\ CustomerMayCall(k, e) /\ RateAdmits(limits) /\ ~QuotaAdmits(k, e, plan)
    /\ HitWindows(limits)
    /\ quotas' = AddTo(quotas, admitting, 1)
    /\ UNCHANGED <<now, account, disabled, revoked, history>>

\* "quota_exceeded": within the rate limits, refused by a quota.
QuotaExceeded(k, e) ==
    LET plan == activePlan(OwnerOf[k])
        limits == CustomerLimits(k, e, plan)
    IN
    /\ CustomerMayCall(k, e)
    /\ RateAdmits(limits)
    /\ ~QuotaAdmits(k, e, plan)
    /\ HitWindows(limits)
    /\ UNCHANGED <<now, account, disabled, revoked, quotas, history>>

\* "ok".  The mutation has committed when its answer is sent; an answer lost on
\* the way (delivered = FALSE) is a 503 for a request that has been charged.
Admit(k, e, delivered) ==
    LET u == OwnerOf[k]
        plan == activePlan(u)
        limits == CustomerLimits(k, e, plan)
    IN
    /\ CustomerMayCall(k, e)
    /\ RateAdmits(limits)
    /\ QuotaAdmits(k, e, plan)
    /\ HitWindows(limits)
    /\ ChargeQuotas(k, e, plan)
    /\ account' = IF plan = NoPlan
                  THEN [account EXCEPT ![u].freeRequestsUsed = @ + 1] ELSE account
    /\ admitted' = [admitted EXCEPT ![u] = @ + 1]
    /\ freeAnswered' = IF plan = NoPlan /\ delivered
                       THEN [freeAnswered EXCEPT ![u] = @ + 1] ELSE freeAnswered
    /\ paidAdmitted' = IF plan # NoPlan
                       THEN [paidAdmitted EXCEPT ![u] = @ + 1] ELSE paidAdmitted
    /\ UNCHANGED <<now, disabled, revoked, siteAdmitted>>

SiteAdmit(k, e, v) ==
    /\ SiteMayCall(k, e)
    /\ RateAdmits(SiteLimits(k, e, v))
    /\ HitWindows(SiteLimits(k, e, v))
    /\ siteAdmitted' = [siteAdmitted EXCEPT ![<<v, e>>] = @ + 1]
    /\ UNCHANGED <<now, account, disabled, revoked, quotas,
                   admitted, freeAnswered, paidAdmitted>>

SiteRateLimited(k, e, v) ==
    /\ SiteMayCall(k, e)
    /\ ~RateAdmits(SiteLimits(k, e, v))
    /\ HitWindows(SiteLimits(k, e, v))
    /\ UNCHANGED <<now, account, disabled, revoked, quotas, history>>

Authorize ==
    \/ \E k \in AllKeys, e \in Endpoints : Refuse(k, e)
    \/ \E k \in Keys, e \in Endpoints :
          RateLimited(k, e) \/ QuotaExceeded(k, e) \/ \E d \in BOOLEAN : Admit(k, e, d)
    \/ \E k \in SiteKeys, e \in Endpoints, v \in Visitors :
          SiteAdmit(k, e, v) \/ SiteRateLimited(k, e, v)

---------------------------------------------------------------------------
(* Account changes that the decision reads. *)

\* Mutant: an account can activate the free tier again.
activateFreeTierAgain(u) ==
    /\ u \notin disabled
    /\ account' = [account EXCEPT ![u].freeActivated = TRUE, ![u].freeRequestsUsed = 0]
    /\ UNCHANGED <<now, disabled, revoked, windows, quotas, history, arrived>>

\* Once per account: a second activation returns without a change.
activateFreeTier(u) ==
    /\ u \notin disabled
    /\ ~account[u].freeActivated
    /\ account' = [account EXCEPT ![u].freeActivated = TRUE, ![u].freeRequestsUsed = 0]
    /\ UNCHANGED <<now, disabled, revoked, windows, quotas, history, arrived>>

\* A settled payment: the new plan replaces the old one, from the old expiry on.
GrantPlan(u, p) ==
    LET from == IF activePlan(u) # NoPlan THEN account[u].planExpiresAt ELSE now IN
    /\ from + PLAN_DURATION <= MaxTime
    /\ account' = [account EXCEPT ![u].plan = p, ![u].planExpiresAt = from + PLAN_DURATION]
    /\ UNCHANGED <<now, disabled, revoked, windows, quotas, history, arrived>>

revoke(k) ==
    /\ k \in Revocable \ revoked
    /\ revoked' = revoked \cup {k}
    /\ UNCHANGED <<now, account, disabled, windows, quotas, history, arrived>>

lockUser(u) ==
    /\ u \in Lockable
    /\ disabled' = disabled \cup {u}
    /\ revoked' = revoked \cup {k \in Keys : OwnerOf[k] = u}
    /\ UNCHANGED <<now, account, windows, quotas, history, arrived>>

enableUser(u) ==
    /\ disabled' = disabled \ {u}
    /\ UNCHANGED <<now, account, revoked, windows, quotas, history, arrived>>

AccountChange ==
    \/ \E u \in Users : activateFreeTier(u) \/ lockUser(u) \/ enableUser(u)
    \/ \E u \in Users, p \in Plans : GrantPlan(u, p)
    \/ \E k \in AllKeys : revoke(k)

---------------------------------------------------------------------------
(* The prune cron and the clock. *)

ExpiredWindows == {row \in DOMAIN windows : row[2] < now - RateRetention}
\* Mutant: quota rows are pruned as early as rate-limit windows.
ExpiredQuotasEarly == {row \in DOMAIN quotas : row[3] < now - RateRetention}

ExpiredQuotas == {row \in DOMAIN quotas : row[3] < now - QuotaRetention}

prune ==
    /\ \E batch \in Batches(ExpiredWindows, 2, BATCH) : windows' = Without(windows, batch)
    /\ \E batch \in Batches(ExpiredQuotas, 3, BATCH) : quotas' = Without(quotas, batch)
    /\ UNCHANGED <<now, account, disabled, revoked, history, arrived>>

Tick ==
    /\ now < MaxTime
    /\ now' = now + 1
    /\ admitted' = [u \in Users |-> 0]
    /\ siteAdmitted' = [r \in Visitors \X Endpoints |-> 0]
    /\ paidAdmitted' = IF WindowStart(now + 1, MonthLength) = WindowStart(now, MonthLength)
                       THEN paidAdmitted ELSE [u \in Users |-> 0]
    /\ UNCHANGED <<account, disabled, revoked, windows, quotas, freeAnswered, arrived>>

Next == Authorize \/ AccountChange \/ prune \/ Tick

Spec == Init /\ [][Next]_vars

---------------------------------------------------------------------------
(* Properties. *)

QuotaBuckets ==
    ({"free", "paid"} \X {"key"} \X Keys) \cup ({"free", "paid"} \X {"tenant"} \X Users)
    \cup ({"free", "paid"} \X {"tenant-endpoint"} \X Users \X Endpoints)

\* Type invariant of the module's state.
TypeOK ==
    /\ now \in Nat
    /\ account \in [Users -> Account]
    /\ disabled \subseteq Users
    /\ revoked \subseteq AllKeys
    /\ windows \in [DOMAIN windows -> Nat]
    /\ DOMAIN quotas \subseteq QuotaBuckets \X Periods \X Nat
    /\ quotas \in [DOMAIN quotas -> Nat]
    /\ arrived \in Nat
    /\ admitted \in [Users -> Nat]
    /\ freeAnswered \in [Users -> Nat]
    /\ paidAdmitted \in [Users -> Nat]
    /\ siteAdmitted \in [Visitors \X Endpoints -> Nat]

\* The lifetime allowance: however plans are bought, expire and are bought again,
\* and whatever answers are lost, an account never gets more than
\* FREE_TOTAL_REQUESTS free answers, and every one of them was counted.
FreeAllowance ==
    \A u \in Users :
        /\ freeAnswered[u] <= account[u].freeRequestsUsed
        /\ account[u].freeRequestsUsed <= FREE_TOTAL_REQUESTS

\* "Keep its window quotas apart from paid traffic so an account can use its free
\* allowance after a paid plan expires": as long as free requests remain, no quota
\* row, of any key, account or endpoint, refuses a free request.
FreeAllowanceUsable ==
    \A k \in Keys, e \in Endpoints :
        freeRequestsRemain(OwnerOf[k]) => QuotaAdmits(k, e, NoPlan)

\* The dashboard tells an account the truth about its allowance (usage.summary against
\* authorize): while some of it is left no quota of any key, endpoint or day refuses, and
\* when none is left every request is refused, through plan changes and prunings.
AllowanceShownIsUsable ==
    \A k \in Keys, e \in Endpoints :
        LET u == OwnerOf[k] IN
        hasKeyAccess(u) =>
            (QuotaAdmits(k, e, activePlan(u)) <=> monthlyQuota(u).used < monthlyQuota(u).limit)

\* "Per account, across all its keys, so creating more keys does not raise the
\* ceiling": a request is admitted only while the requests of all the account's
\* keys admitted in this minute, this one included, are within its plan's rate.
AccountCeiling ==
    [][\A u \in Users : admitted'[u] > admitted[u] => admitted'[u] <= PlanRate(activePlan(u))]_vars

\* The monthly allowance of a plan: a paid request is admitted only while the
\* account's paid requests of the calendar month are within the current plan's
\* number, over all keys, endpoints and plan changes, and whatever is pruned.
MonthlyAllowance ==
    [][\A u \in Users : paidAdmitted'[u] > paidAdmitted[u]
                            => paidAdmitted'[u] <= MonthlyRequests[activePlan(u)]]_vars

\* This month's rows of an account's keys and of its endpoints.
KeyRows(prefix, u) ==
    {QuotaRow(<<prefix, "key", k>>, Month) : k \in {j \in Keys : OwnerOf[j] = u}}
EndpointRows(prefix, u) == {QuotaRow(<<prefix, "tenant-endpoint", u, e>>, Month) : e \in Endpoints}

\* The rows of one account and month agree: what is charged to the account is what
\* is charged to its keys together, and to its endpoints together.  This is what
\* the two-pass check is for: a refused request leaves no partial charge behind.
LedgerAgrees ==
    \A u \in Users, prefix \in {"free", "paid"} :
        LET charged == Count(quotas, QuotaRow(<<prefix, "tenant", u>>, Month))
        IN /\ charged = Total(quotas, KeyRows(prefix, u))
           /\ charged = Total(quotas, EndpointRows(prefix, u))

\* The website's key: no visitor is answered more often in a minute than its own
\* limit, its routes no more often than the route limit, and all visitors together
\* no more often than the key's cap, whatever was refused in between.
VisitorCeiling ==
    /\ \A v \in Visitors : /\ Total(siteAdmitted, {v} \X Endpoints) <= PerIpLimit
                           /\ siteAdmitted[<<v, Route>>] <= RouteLimit
    /\ \A k \in SiteKeys : SiteKeys = {k} => Total(siteAdmitted, Visitors \X Endpoints) <= SiteKeyLimit
=============================================================================
