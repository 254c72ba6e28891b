# TLA+ verification of the API provider

The repository is a public geocoding and routing API: a FastAPI gateway
(`src/apps/api`) in front of ArcGIS data, a Convex backend (`src/apps/convex`) that
owns accounts, API keys, limits, usage and payments, a Next.js site (`src/apps/web`),
and a deployment script. This directory holds the TLA+ models of the parts whose
correctness depends on state, order and failure, the TLC runs that check them on small
instances, and TLAPS proofs of the properties that matter most for every instance.

- [Inventory](#inventory): the parts of the system
- [Modules](#modules): which module models what
- [Runs](#runs): what is checked, with which bounds and which fairness
- [Proofs](#proofs): what is proved, from which assumptions and how
- [Disagreements](#disagreements): where the code does not do what it says
- [Not modelled](#not-modelled) and the [plan](#plan)

## Inventory

Convex mutations are serializable transactions: one mutation is one atomic step. Convex
*actions* and the gateway's coroutines are not: every `await` is a point where everything
else can happen, and the code after it may never run. That line decides what is one
action of a model and what is several.

| Component (source) | State | Operations | Interacts with | What is hard | What makes it correct |
|---|---|---|---|---|---|
| Gateway decision: `convex/gateway.ts` `authorize`, `lib/plans.ts`, `lib/env.ts`, `maintenance.ts` | `rateLimitWindows`, `quotaWindows`, plan and free-tier fields of `users`, key rows | authorize a request; activate the free tier; grant a plan; revoke; lock, enable; prune | the gateway calls it on every `/v1` request; payments grant plans; a cron prunes | counters of two kinds and two regimes (free, paid); counters deleted while in use; lost answers | no account gets more than its plan or its free allowance; no refusal charges anything; ledgers agree |
| Demo limits: `gateway.ts` `authorizeDemo` | the same `rateLimitWindows` | one decision over four windows; prune | the demo pages; the same cron | windows of different lengths, one retention | each limit holds over its window |
| ArcGIS client: `services/arcgis/client.py` | circuit state, failure count, probe flag, semaphore | `_request` with retries, token renewal, deadline | token provider, upstream; callers that cancel | late answers, cancellation at any await | the breaker opens for a reason, probes are spaced, half-open resolves, calls are bounded |
| Usage recording: `services/usage.py`, `core/middleware.py`, `gateway.ts` `recordUsage` | the deque of each process; `apiRequests`, `usageDaily`, `lastUsedAt` | record, flush, stop; the mutation | HTTP to Convex, which may fail, be late, or lose the answer | retry of what was already done; stop during a flush; full buffer; clocks that differ | nothing is forgotten silently; order is kept; totals agree with rows |
| Keys and tokens: `convex/apiKeys.ts`, `admin.ts`, `core/abuse.py` | `apiKeys`, `playgroundTokens`, the gateway's cache of refused credentials | create, regenerate, token, revoke, lock, enable, prune; remember an answer | sessions; the gateway | check in one transaction, change in another; answers remembered after a change | limits hold; a dead secret never comes back; what is remembered is final |
| Payments: `convex/payments.ts`, `lib/wire.ts`, `crons.ts` | `payments`, `plan` and `planExpiresAt` of `users`; intents at Wire | startCheckout, webhook, refresh, reconcile | Wire (external); the plan decides what the gateway admits | three settlers of one payment, each with an old answer; actions that die half way | each payment gives one period, once; each payment taken is granted |
| API requests: `api/deps.py`, `core/abuse.py`, `core/middleware.py`, `services/cache.py`, `api/demo.py`, `api/health.py` | per process: failure counts, refused credentials, the site key's description, window counts, demo slots and cache, readiness result | every check of the middleware, authentication, demo, readiness | Convex; the providers; deadlines that cancel | limits asked before an await and told after it; slots held by cancelled requests | bad credentials cost Convex a bounded number of calls; slots come back |
| Token provider: `services/arcgis/auth.py` | token, renewal time, lock, remembered failure | token, invalidate, renew | the ArcGIS client, the token service | one renewal for many waiters, invalidation of an older token, cancellation with the lock | one renewal per token; a failing service is spared; the client recovers |
| Road graph: `services/arcgis/providers.py`, `services/geo/road_graph.py`, `arcgis/client.py` `query_all` | the graph, its age, the lock, the refresh task; per search its scores and heap | load by pages, refresh, snap, search | requests; a layer that is edited meanwhile | readers of an old graph, waiters for the first one, pages of a changing layer | no road is lost or invented; the graph is renewed; the route found is the fastest |
| Sessions and passwords: `convex/auth.ts`, `users.ts`, `admin.ts` | sessions, reset codes, the password, the lock | sign in and out, change, reset, lock | the auth library | actions of several transactions, overlapping | no session of an old password survives a change |
| Site key and deployment: `deploy/production/deploy.py`, `convex/platform.ts` | checkout, containers, Convex functions, the system account's keys | one deployment, resumed by a timer; ensureSiteKey | GitHub's workflows, all services | a death between two steps, new commits and rotated keys meanwhile | only tested commits run; what is recorded as deployed runs; it converges |
| Website: map, place search, playground, live demo, keys, billing, sign-in pages (`apps/web`), `packages/api-client` | what each page shows, and the calls it waits for | the handlers of each page, the answers of their calls | the API, Convex, QPay, the browser | answers of aborted and replaced calls, closures that remember old state, two redirecting servers, checks made on both sides | what is shown answers what was asked last; secrets are shown; payments are seen; redirects end |
| Dashboard: overview, usage and keys pages (`apps/web/components/dashboard`), `convex/usage.ts`, `apiKeys.list` | the answers of each page's queries, the last known ones, the selection, the chart's focus, the time of the table | live queries, selection of period and key, days that pass, the log's pages | `usageDaily`, `apiRequests`, keys; the session | four queries with periods of their own and no upper end; records that are late or ahead; answers of an older selection | figures of one page count the same requests and belong to what is selected, or are dimmed |
| Audit log, static and documentation pages, providers' translations, end-to-end tests | - | inserts nothing reads, presentation | - | - | *not modelled, see below* |

The hazards, each at the line where it bites and with the properties about it, are
listed in `PROJECT.json`.

## Modules

| Module | Models | Extends or instances |
|---|---|---|
| `RateWindows` | `hitWindow`, `combine`, a batch of `prune`: operators on counter tables | |
| `Gateway` | `authorize` with every outcome, account changes, `prune` | `RateWindows` |
| `DemoLimits` | `authorizeDemo`, `prune` | `RateWindows` |
| `CircuitBreaker` | `_request`, `_circuit_*`, attempts, token renewal, slots, cancellation | |
| `UsageRecording` | `UsageRecorder`, the calls, `recordUsage` | |
| `CredentialRegistry` | abstract: a key's one good secret, secrets that are dead for good | |
| `KeyLifecycle` | keys, tokens, locks, `TerminalStatusCache` | implements `CredentialRegistry` |
| `PaidAccess` | abstract: one period per payment that went through | |
| `Payments` | checkout, webhook, refresh, reconciliation, `_settle`, Wire's side | implements `PaidAccess` |
| `TokenProvider` | `ArcGISTokenProvider`: token, invalidate, renewal, lock | |
| `ArcGisClient` | a request with its breaker and its token, outages of both services | `CircuitBreaker`, `TokenProvider` |
| `ApiRequests` | middleware, `require_api_key`, failure limiter, site key cache, demo, readiness | |
| `RoadGraphStore` | the graph's load, lock and refresh; `query_all` over an edited layer | |
| `RoadSearch` | profiles, main component, snap, A*, the walk back | |
| `Deployment` | `deploy.py`, Convex configuration, `ensureSiteKey`, restarts | |
| `Sessions` | sign-in, sign-out, `changePassword`, reset, `disableUser` | |
| `MapPage` | selection, popup, directions, the calls of `GeoClient` | |
| `PlaceSearch` | text, debounce, query and placeholder of a search box | |
| `Playground` | keys, token, submissions of the request builder | |
| `KeysPage` | dialogs, calls and secrets of the keys page | |
| `BillingPage` | checkout, dialog, polling and live query | |
| `SignInPages` | proxy, layout, forms, throttle, header | |
| `Dashboard` | pages of usage, their queries, stable values, selection, log, table of keys | |
| `RequestsChart` | columns, pointer, focus, tooltip of the chart | |
| `SitePages` | the pages that ask again before they are answered, side by side | `MapPage`, `PlaceSearch`, `Playground`, `Dashboard`, `RequestsChart` |
| `RequestForm` | the checks of four forms and those of the API | |
| `MCServices` | one instance of each of the modules from `TokenProvider` on, of `DemoLimits` and `CircuitBreaker`, and (for liveness) of `UsageRecording` | those modules |
| `MC*` (the others) | model values and small functions for TLC | the module they are named after |
| `RateWindowsProofs` | lemmas about counter tables, totals of their rows and windows of a moment | `RateWindows` |
| `GatewayProofs`, `KeyLifecycleProofs`, `PaymentsProofs`, `UsageRecordingProofs` | inductive invariants and theorems | the module they are named after; `GatewayProofs` also `RateWindowsProofs` |
| `ArcGisClientProofs` | the same of the breaker, the token provider and both together | `ArcGisClient` |
| `ServicesProofs` | the same of deployment, roads, search, API requests and demo, and of all components side by side | `MCServices`, `ArcGisClientProofs`, `SiteProofs`, `RateWindowsProofs` |
| `SiteProofs` | the same of the website | `Sessions`, `SitePages`, `KeysPage`, `BillingPage`, `SignInPages`, `RequestForm` |

### Gateway

`account` holds the plan, its expiry, `freeActivated` and `freeRequestsUsed`; `windows`
and `quotas` are the two counter tables as functions of the rows that exist (a missing
row counts zero, as `existing?.count ?? 0` does). `authorize` is one mutation and the
model has one action per way it ends: refused before anything is written, rate limited
(the windows are written, `hitWindow` counts first and compares later), quota exceeded
(windows written, no quota row), admitted (windows, quotas and, without a plan, the
lifetime counter). An admitted request has two outcomes, delivered or lost on the way:
the charge stands in both. The website's key takes the other branch: per visitor, per
visitor on routes, and the cap on the key.

Clocks are integers; a minute is one unit, a day `DayLength`, a month `MonthLength`. The
calendar month of the code is the window `MonthLength` starts; that real months differ in
length does not matter to any property, which only use that a period has one start and that
a month is a whole number of days (`CalendarAssumption`). `monthlyQuota` is the allowance
`usage.summary` computes for the dashboard from the same rows; `AllowanceShownIsUsable`
compares it with what `authorize` would decide. The
history variables `admitted`, `freeAnswered`, `paidAdmitted`, `siteAdmitted` count what
happened independently of the tables the code counts in; the properties compare the two.

### DemoLimits

Four windows: a visitor's, a visitor's per endpoint and all visitors' per minute, and a
visitor's per hour, with costs per endpoint. `prune` deletes every window that is older than
one retention whatever the window's length, so `restarts` counts the hours' rows that are
deleted while their hour runs, and the hourly property is stated per life of a row.

### CircuitBreaker

A task is a coroutine in `_request`: awaiting headers (the token provider), queued for
the semaphore, sending, sleeping before a retry. One action per thing that can be awaited
there and per outcome; `circuitEnter`, `circuitSucceeded` and `circuitFailed` are the
three methods, called in the same step as in the code (no await separates them).
`CancelledError` is not an `ArcGISError`, so `Cancel` leaves the breaker alone. The
failure count is kept up to the threshold, which is all the code compares; the time until
`_circuit_open_until` is a countdown. The outcomes of the token provider are free here;
`ArcGisClient` gives them.

### TokenProvider and ArcGisClient

The `asyncio.Lock` is fair, so it is a line of tasks, its holder first; `token()` asks
without the lock, waits, and asks again with it. A task keeps the token it sends with
(`held`), so `invalidate` of a token that has been replaced meanwhile is a different step
from that of the current one. Cancellation leaves the line wherever the task is in it.
`ArcGisClient` joins both: a request's headers are a step of the token provider, whose
failures reach the breaker as the code maps them (a refusal is an answer, an unreachable
token service a failure of availability), and `down` says which services are out of order.

### UsageRecording

A record is the index of its request in `log`. `record` appends to a bounded deque that
drops its oldest element; `Wake` pops a batch; `Commit` is the mutation; `Answered` lets
the loop go on. `CallFails` may happen before or after the mutation, and a call that was
given up before it may still arrive (`late`, a bag, delivered in any order). `stop`
cancels the loop, which drops the popped batch, and flushes what is pending; `Restart`
starts an empty process. Records carry the time of their process's clock, at most
`ClockAhead` ahead. `recordUsage` refuses records that are too old, too far ahead or of an
unknown key, clamps the time, inserts the row, adds to the day and moves `lastUsedAt`.

### KeyLifecycle and CredentialRegistry

`create`, `regenerate` and `createPlaygroundToken` are Convex actions: session and key
are checked in one transaction (`Begin`), the change is made in another (`insertKey`,
`replaceSecret`, `insertPlaygroundToken`), and each in flight is an entry of `request`.
The second step repeats only the checks the code repeats there. `known` is the gateway's
`TerminalStatusCache`; `replies` are answers that left Convex and have not arrived, so an
answer can be remembered long after the state it describes.

`CredentialRegistry` promises: a key has at most one good secret, a secret that was
replaced or revoked is never good again, a revoked key gets no other. The refinement
mapping takes a key's hash while it is not revoked, the revoked keys, and the secrets
stored so far that no unrevoked key has.

### Payments and PaidAccess

A checkout walks through create, record, confirm, settle: a call or a mutation each, and
`CheckoutFails` may end it anywhere. A check (webhook, refresh or cron) remembers the
status Wire had when it was asked and settles later. `recorded` orders the rows by
creation, `Pending` takes the newest `PendingBatch` pending ones as `_pending` does.
`PaidAccess` maps Wire's succeeded intents to `paid`, settled rows to `granted`.

### ApiRequests

A request moves from one await to the next (`stage`): the answer of Convex to `authorize` or
`describe`, a handler, the decision about a demo request, its slot, its provider, the
readiness lock. Each action that responds names the statuses the code may respond with.
All requests come from one address: the limiter keeps addresses apart and is skipped when
there is none. `KeyTtl = 0` switches the local cache off, as production does.

### RoadGraphStore and RoadSearch

`_get_graph` serves any graph at once and starts the refresh when it is stale; requests
without a graph queue for the lock with the refresh. A load counts the rows, refuses too
many, and reads pages after the last OBJECTID until a page is empty, short and not
flagged, or the limit is reached; the layer is edited between any two of these and may
answer less than it is asked for. `counted`, `mark` and `always` remember what was
in the layer throughout. The search works on a graph nobody changes, so `RoadSearch` is a
module of its own: one step per entry popped from the heap, and `Optimum` is the fastest
of all trails by definition (`TimesAlong` adds up the times along one). Nodes lie on a
line, which makes lengths integers and the straight line an exact distance. `Inf` is
`math.inf`: a number so large that no route takes that long; a way that did would count as none.

### Deployment

One action per step of `deploy.py` that changes something others see, and `Abort`
between any two of them for a failing step or a dying host; the timer starts again at
the beginning. `Judge` looks at the latest run of each workflow for the commit, which a
later run may change. `Configure` and `Up` read the host's environment at different times.

### Sessions

A sign-in has two transactions (the library checks the password, then stores the session);
`changePassword` has three calls, `disableUser` two, and each may die in between. A reset code
opens a session whose change of the password goes through the same steps. `basis` is the
password a session was opened with or kept for.

### The pages

`MapPage`: a call waits for its headers and then for its body; only the first wait listens
to the signal and the timeout. Handlers keep the endpoints of the render they were made
in (`seen`). The route mutation shows the result of the call it was last started for,
while its callbacks run for every call. Started offline it is paused: it is pending and the
panel says that it calculates, but `mutationFn` has not run, so nothing is sent and the call
before is not aborted. It runs when the page is online and shown (`Resumes`), also when the
mutation was reset or another call was sent since; of several paused ones the last one's call
remains. `WaitsAreAnswered` therefore says of a route that is calculated that its call is in
flight and no abort ends it silently, or that it is paused, is among those that will be resumed,
and the page is not online and shown. `pageState` tells a hidden page from an offline one, since
TanStack resumes nothing while a page is hidden; nobody acts on a hidden page, but
calls and the position request go on.
`PlaceSearch`: the query of the debounced text with TanStack's states, the placeholder of
the query before, and the pause while offline. Back online (`OnOnline`) a paused query goes
on and an active one is asked again, once paused mutations have ended, which may be any time
after. A hidden page is not modelled here: it only lengthens the pause.
What TanStack Query (v5) does is not under `src/`; it is modelled from how the pages use
it, with the options they set or leave at their defaults (`networkMode` "online", no retry
of mutations and of this query).
`Playground`: submissions fetch a token or not, and are dispatched in the order their
tokens arrive; each dispatch aborts the one before.
`KeysPage`: modal dialogs and their calls; loss of key access hides the create dialog and
not its call. It assumes that access is not lost and regained within one create call.
`BillingPage`: a checkout per click, polling while the shown status is pending, and QPay and
the webhook at any time or never.
`SignInPages`: one browser tab, a token that may outlive its session, two servers that
redirect, and the throttle that also counts sign-outs.

### Dashboard, RequestsChart and RequestForm

A request that was recorded is a row of `ledger`, and a number the dashboard shows is the set
of requests it counts, so that two numbers that agree by accident do not count as agreeing.
Convex answers the queries of a page together, at one moment: `Deliver` gives a new answer to
those whose rows have changed and leaves the others, whose period may then end on an earlier
day. `stable` is `useStableValue`, which shows the answer of the selection before, dimmed.
The usage page's list of keys only fills its menu and is left out. `ExpiresAt`, `tableNow`
and `MenuOf` are the table of keys, which takes the time once when it is mounted.
`RequestsChart` keeps the positions the chart keeps (`active`, `focusIndex`) beside the day
whose column has the keyboard's focus, which React moves with the day.
`RequestForm` abstracts a text to what the checks of both sides tell apart: the number of its
characters and of its letters and digits, how a number is written, what a pair of coordinates
is like. It sends one request at a time; how those of the playground overlap is in `Playground`.
A route of the developers' page that is asked for offline is paused (`ResumeDemo`): its function
takes the coordinates from the form when it runs, not those the button had checked.

## Runs

All with `tlc -workers 2 -config <run>.cfg <module>`. `CHECK_DEADLOCK FALSE` is set where
the bounds on the clock and on the number of requests end every behaviour; the system
itself never stops.

| Run | States | Bounds, and why they are enough | Shows |
|---|---|---|---|
| `Gateway` | 674,816 | one account with two keys (one limited to routes, expiring, revocable), the site key with two visitors (symmetric), two plans of 1 and 2 requests a month, 2 free requests, 3 requests, 4 minutes, a month of two, retention shorter than the run. Every limit can be reached and exceeded by one, a month ends, a plan ends and another begins, rows are pruned | `FreeAllowance`, `AllowanceShownIsUsable`, `LedgerAgrees`, `AccountCeiling`, `MonthlyAllowance`, `VisitorCeiling` |
| `UsageRecording` | 2,242,514 | two processes, one restarted; three records, a buffer and batch of two, one failed call, a day boundary, a clock one ahead | `KeptInOrder`, `RollupsAgree`, `LastUsedIsLatest` |
| `KeyLifecycle` | 814,272 | two accounts, one of them locked and unlocked; two keys, two secrets, one token, two actions in flight, a limit of one active key, one answer on its way and one remembered. With one unit of time a key of lifetime 1 created at the end never expires, so both kinds occur | `Limits`, `RegistryKept`, `RememberedIsFinal` |
| `Payments` | 509,390 | one account, one plan, two intents, one checkout at a time, one webhook or refresh and the cron, a batch of one, one failed call, periods of 2 over 4: a period is extended while it runs, and both run out. A repeated intent with another plan ends the checkout (`recordPending`), which with one plan is only `CheckoutFails` | `PaidTimeIsGiven`, `SettledAsDecided`, `AccessKept`, `PaidIsGranted` |
| `Services` | 854,555 | see below | the safety properties of the modules from `TokenProvider` on, of `CircuitBreaker` and of `DemoLimits` |
| `ServicesLive` | 201,395 | the same instances of the five components that have a liveness property, without the retry and with one tick less of backoff, and one recording process with three records, a buffer of two, a clock ahead, records that become too old and a call that fails | `BreakerRecovers`, `GraphIsRenewed`, `DeploymentConverges`, `PaidIsShown`, `RedirectsEnd`, `EventuallyStored` |
| `DemoLimitsHour`, `CircuitBreakerCancel`, `UsageRecordingStop`, `KeyLifecycleTokens`, `MapPopup`, `RequestForm` | | | violations, see [Disagreements](#disagreements) |

`MCServices` puts one instance of each smaller component side by side. They share no
state, so a behaviour moves one of them (`focus`, chosen in the initial state) and the
others rest: the run explores the sum of their state spaces, not the product. `Focuses`
names the components of a run, and the values its instances share (`process`, `keyOfUsage`,
`costlyDemo`, `cheapDemo`) are constants too, so that theorems about it hold for any. Bounds:

- client: two requests, one of them cancellable, one retry, a threshold of one failure, a
  token of one tick and a backoff of two. Tokens expire, are rejected after they were
  replaced, renewals fail with a waiter in line, and the holder of the lock is cancelled.
- search: four nodes and four links on a line, every mode and kind of each link (both
  ways, one way, two speeds, excluded), origins on one link, every destination, snaps at
  ends and middle, three expansions, so that the limit is met as well as every other end.
- roads: two requests, one with a deadline, four rows ever added, pages of two, a limit of
  three: the layer outgrows the limit while it is read, and refreshes meet requests.
- api: two requests, each limit one: reached by one of them while the other is in flight.
- deploy: two commits, one workflow, two site keys, so that a push, a re-run and a
  rotation fall between any two steps, and a retired key comes back.
- sessions: two sessions, three passwords, one code: two changes, or a change and a
  reset, overlap with each other and with a lock.
- demo: two visitors, costs 1 and 2, three requests over four minutes of one hour.
- pages: two calls in flight on the map, two texts in the box, three submissions of the
  playground, three secrets, two payments, two attempts of the throttle. The map's calls are
  symmetric (nothing but their contents tells them apart, and the run checks no liveness).
- dashboard: two keys, one of which expires on the last day, two requests, periods of one and
  two days, one midnight that also ends a month: every query's period moves once, with
  answers from before and after; the log has a page of one.
- chart: three days, so that data can grow, shrink and begin on another day.
- form: texts of up to five characters against limits of 2, 3 and 4, numbers from none to one
  past the limit of 2 in every notation, every kind of coordinates.

Each passing run also checks the type invariants of its modules (`ServicesLive` excepted). For every property `PROJECT.json` names a mutant,
an operator beside the one it mutates that a plausible slip in the code would produce, and
with which the property fails.

### Fairness

- `CircuitBreaker` and `ArcGisClient`: weak fairness of the clock, of every running request
  (each of its waits has a timeout: the token and HTTP timeouts, the queue timeout, the
  bounded sleep) and of callers who call again. None for `Cancel`: nobody has to cancel.
  `BreakerRecovers` is about outages that end, and excepts the cancelled probe of
  `CircuitBreakerCancel`.
- `RoadGraphStore`: weak fairness of the lock's holder, of the search (it is bounded) and of
  time. `GraphIsRenewed` assumes that requests keep coming: nothing else refreshes.
- `Deployment`: weak fairness of the timer and of a deployment that is not aborted.
  `DeploymentConverges` assumes that aborts end, that the newest commit stays tested and
  that the host's key is not a retired one, which is refused each time.
- `BillingPage`: weak fairness of the interval and of the live query, strong fairness of a
  refresh that is asked again and again. None for QPay's callback.
- `SignInPages`: weak fairness of the two servers that answer a request.
- `UsageRecording` (in `ServicesLive`): weak fairness of a process's flush loop, which wakes
  every interval.
  A call fails at most `MaxFailures` times, which is the "briefly unreachable" the code
  is written for; with an outage that never ends nothing would be stored.
- `Payments`: weak fairness of the reconciliation job (a cron every minute) and of Wire's
  decision (intents expire). None for webhooks, customers or checkouts: `PaidIsGranted`
  holds although no webhook ever comes.

## Proofs

`tlapm <module>.tla` checks them; every obligation is proved by SMT, Zenon or, for the
temporal steps, LS4. The assumptions are the named `ASSUME`s on the constants, each in the
module that declares them: `KeysAssumption`, `PlansAssumption`, `NumbersAssumption`,
`CalendarAssumption`, `RetentionAssumption` and `FreeQuotaAssumption` of `Gateway`,
`DemoAssumption`, `BreakerAssumption`, `ClientAssumption`, `LifecycleAssumption`,
`PaymentsAssumption`, `UsageAssumption`, `DeploymentAssumption`, `StoreAssumption` and
`RefreshAssumption` of `RoadGraphStore`, `SearchAssumption`, `RequestsAssumption`,
`SessionsAssumption`, `KeysPageAssumption`, `PlaygroundAssumption`, `DashboardAssumption`,
`ChartAssumption`, `BillingAssumption`, `SignInAssumption` and `RequestFormAssumption`.
Constants are natural numbers where the code has counts and times, positive where zero would switch the mechanism off, and distinguished values are distinct.
Six say more: quota rows are kept longer than the period they count
(`RetentionAssumption`), the configured quotas are at least the free allowance, as the code's
defaults are (`FreeQuotaAssumption`), a month is a whole number of days
(`CalendarAssumption`), at least one workflow is judged, as `deploy.py` lists two
(`DeploymentAssumption`), a graph is finite and no link takes longer than `Inf`
(`SearchAssumption`), and the text a form starts with is among those one can type
(`RequestFormAssumption`). Nothing is assumed of the number of accounts, requests or processes
beyond what a proof counts, and the bounds of the models (`MaxTime` and the like) are any numbers.

**`RateWindowsProofs`**: no theorem of its own. What `hitWindow` and a pruned batch do to a table,
what the total of a set of rows is after one of them is hit, and which window a moment is in;
the gateway and the demo share it.

**`GatewayProofs`**. None of the properties is inductive alone.

- `TypeCorrect`, `FreeAllowanceHolds`, `FreeAllowanceUsableHolds`, `AccountCeilingHolds`.
  `AdmittedIsCounted` says that what an account was admitted in this minute is at most what its
  row of this minute counts, which is why pruning must not delete that row and why the
  ceiling holds across plan changes. `FreeLedger` bounds every free quota row by the lifetime
  counter; since no configured quota is below the allowance, no free row can refuse while
  free requests remain. `UnusedBeforeActivation` makes activation's reset of the counter harmless.
- `VisitorCeilingHolds`: `VisitorsAreCounted` relates the visitor's rows of this minute to the
  site key's requests that were admitted for it.
- `LedgerAgreesHolds` and `MonthlyAllowanceHolds`, by `LedgerInv`: no row is of a period to come
  (`NoRowsAhead`), the table is finite (`LedgerIsFinite`, so that its totals are sums), and what
  an account was admitted on a plan is what the rows of this month charged it (`PaidIsCharged`).
  The row of the present month must survive pruning, which is what `RetentionAssumption` is for.
- `AllowanceShownIsUsableHolds`: `ShownInv` adds that a day's row is at most its month's
  (`DaysAreInMonths`), so a day can only refuse when the allowance shown is used up.

**`ArcGisClientProofs`**, for any number of tasks.

- Of the breaker: `TypeCorrect`, `OpenOnlyAfterFailuresHolds`, `CallsAreBoundedHolds`,
  `ProbesAreSpacedHolds`. `OpenHasCooldown` (the cooldown left and the time since the last
  probe add up to the recovery time) and `HalfOpenHasProbe` give the spacing: a half-open
  circuit lets nobody in beside its probe, and a late failure can only restart the cooldown.
  `CallsAreAccounted` says which of a request's calls are which.
- `ClientImplementsBreaker`: every step of the joint client is a step of `CircuitBreaker` or a
  stutter, so all of the above holds of it.
- Of the token provider: `ClientTypeCorrect`, `OneRenewalPerTokenHolds`,
  `FailingServiceIsSparedHolds`. `LineKept`: everybody in the lock's line waits
  for headers and stands there once. `TokensKept`: the backoff of a failure is counted from
  the call that failed (`FailureIsDated`), a fresh token is usable (`FreshIsUsable`), a request
  that is to drop the token it holds does not drop a fresh one (`RejectedIsOld`), and since
  somebody holds the current token or none, a new one differs from all in use (`TokenIsHeld`).

**`KeyLifecycleProofs`**: `TypeCorrect`, `KeysImplementRegistry`, `LimitsHold`,
`RememberedAnswersAreFinal`. The secrets of keys are distinct and remembered in `usedHashes`
(`SecretsAreDistinct`), which makes a stored secret fresh for the registry, and the key of an
action in flight still exists (`RequestsHaveKeys`); with it each step of the detailed system is
an `Issue`, a `Rotate`, a `Retire` or a stutter. A lock is a `Retire` of all the account's
live keys in one step. `LimitsKept` is about cardinalities: the transaction that inserts
counts again, and every other one only takes away. `MemoryKept` says that an answer on
its way or remembered is about a closed credential, if its account is never locked
(`AnswersAreFinal`), and closed credentials stay closed, since tokens are generated once
(`TokensAreDistinct`) and secrets too.

**`PaymentsProofs`**: `TypeCorrect`, `SettledAsDecidedHolds`, `PaymentsImplementAccess`,
`PaidTimeIsGivenHolds`. The invariant: a status that a check carries, if final, is what Wire
has; a checkout that is about to settle belongs to an intent that succeeded; an account without
a plan has no time left; Wire's decisions are final. So a settlement writes what Wire decided,
and `Settleable` makes it a `Grant` at most once. `TimeKept` is the account's balance: the time left
and the time used add up to the periods of the payments settled, whether a period is
extended, runs out or is bought anew.

**`UsageRecordingProofs`**: `TypeCorrect`, `BatchesComeBack` (`KeptInOrder`), `TotalsCountTheRows`
(`RollupsAgree`), `LastUseIsTheLatestRow` (`LastUsedIsLatest`), for any number of processes, any
sizes of buffer and batch and any clocks. One invariant in four parts: the tables have
their types, a process's batch and deque are its records in order and nothing else
(`WorkerKeeps`), no record of a process that is not stopped is forgotten, and the ledger adds up. Each
step either commits one batch or leaves the ledger alone, and the proof is split there: a
lemma says what `recordUsage` does to rows, days and `lastUsedAt`, once, for the batch of a
process and for one that arrives late.

**`ServicesProofs`**.

- Deployment: `OnlyTestedRunsHolds`, `DeployedIsRunningHolds`. `JobIsTested` carries the judgement
  through the steps after it; `JobIsDone` says what the steps so far have left behind and
  `JobHasHostKey` that the key given to Convex is the one the services start with, unless the
  host's was rotated in between. `JobIsNeeded` (a job's commit is not deployed yet) makes a
  step of a new deployment harmless to `DeployedIsRunning`. `DeploymentTypes`: once Convex is
  configured there is a key to register, so that what is registered and revoked are site keys.
- Road graph: `RoadsAreKeptHolds`, for any page size, any cap and any edits. `CountIsKept`: rows
  that came after the count have higher OBJECTIDs, and the counted ones fit under the cap;
  `PagesAreComplete`: every row that stayed is there up to `last_oid`. So a page that ends the
  query early, by being short, empty or over the cap, leaves out only rows that came later.
  `PageFacts` proves what a page of a keyset query is.
  `RoadStoreTypes`: `LoadersKept` says that the lock's line holds each request that waits, once,
  and the refresh at most once, and that a load has a holder; to reason about it, a cancelled request leaves the line by
  its index in it (`OneLeaves`), and the refresh is none of the requests (`RefreshAssumption`).
- Search: `RouteIsFastestHolds`, for every finite graph on a line, all kinds of its links and every
  request, from `SearchInvariant`. A node is closed when its time is known and no longer
  waits in the heap. `ClosedIsFirst`, nothing that waits is ahead of a closed node, makes a
  closed node final, since the heuristic never falls by more than an arc costs (`CostsTyped`);
  `ClosedIsRelaxed` says that a closed node was expanded, `KnownIsReachable` that each time is
  that of a trip without a node twice, and `PreviousIsClosed` that the walk back adds up to the
  time reported. When the search stops, nothing that waits beats the best route
  (`StoppedIsBest`); then a trail that is faster would have a first node whose time is known
  too late, while the one before it is closed and relaxed. The induction along a trail is
  that least counterexample (`NaturalsHaveLeast`).
- API requests: `FailedCallsBoundedHolds`. `CallsAreCounted` splits at the limit: below it, every
  refused call is counted; at it, refused calls and those still in flight stay below the limit
  and all requests, because the request that reached the limit is itself no longer in flight
  and nobody else is let in. `ApiTypes`: the demo's free slots and those that explore add up to
  `DemoSlots`, so that no answer, failure or deadline loses a slot or gives one back twice
  (`SlotsMove`), and the readiness lock is held by a probe.
- Demo: `DemoCeilingsHold`. `MinuteIsCounted`, `AllAreCounted` and `HourIsCounted` say of each
  window that the costs admitted in it are at most its row; the hour's per life of the row.
- All side by side: `ServicesTypesHold` and `ServicesAreSafe`, about the specification that the run
  `Services` checks. `ServicesSteps`: a step of `MCServices` is, for each component, one of its
  steps or a stutter, so each component's specification follows and with it its
  theorems. `ServicesInv` is the conjunction of the components' invariants.

**`SiteProofs`**.

- Sessions: `OldSessionsEndHolds`. A change first stores the new password and then ends the other
  sessions, so the property fails between the two and is not inductive. `SettledIsUpToDate`
  says it of stored sessions when nobody is between them; `SignInsAreMarked` that a
  sign-in on its way either has the present password or is among those the change came too
  late for; `ChangersHaveSessions` that a change belongs to a session.
- Search box: `ResultsAreForTextHolds`. `FetchesAreSearches`: what is fetched is a text long
  enough; `IdleIsKnown`: a text that is not fetched, and not debounced, has its results.
- Playground: `LastSentIsShownHolds`. `SendsAreOrdered`: every dispatch in flight but the last was
  aborted.
- Keys page: `SecretsAreShownHolds`, an action property. `SecretIsAlone`: two calls that
  answer with a secret are never under way together, as one needs the create dialog and the
  other needs it gone, and no secret is shown while one of them is.
- Map: `WaitsAreAnsweredHolds`. `CallsTyped` says what a call is for, `PopupWaits` and `RouteWaits`
  that a page that waits has the call it waits for in flight, not ended by an abort, or a route
  that is paused; `ResumesKeep` is the step in which paused routes abort a newer call.
- Dashboard: `FiguresAgreeHolds`. `InPeriod`: an answer counts requests of its period only, since
  no record is stored ahead of the server's day. `TwinsAgree`: the two queries of the usage page,
  which look for the same period, always have the same answer. `SelectionIsAnswered`: an
  answer that is loaded is the selection's. `OverviewAgrees`: where both of the overview's periods
  overlap, both answers have the same requests. The table's time is never ahead.
- Chart: `ColumnInFocusIsDescribedHolds`. The position remembered is that of the focused day in the
  chart as it was when it got the focus.
- `AnswersAreCurrentHolds` combines five of these.
- `ChartTypes`, `BillingTypes`, `SignInTypes`, `RequestFormTypes`: but for the chart's, which needs
  `ChartInv`, these type invariants are inductive as they stand, and say that messages are shown just when a submitted form would not be
  sent, that the dialog's payment was created, that a live session has a token. Proving the last of
  the four showed that a form opens with a text of `MinText` characters, which its assumption
  had not allowed for.

Every invariant and every action property of a passing run is proved. Model-checked only is
liveness, which needs fairness and `ENABLED` and is out of the prover's reach: `EventuallyStored`,
`PaidIsGranted`, `BreakerRecovers`, `GraphIsRenewed`, `DeploymentConverges`, `PaidIsShown`,
`RedirectsEnd`. What a component does on the instance of `UsageRecording` inside
`MCServices` is proved of that module by itself.

## Disagreements

Six places in which the code does not do what it, its tests or its documents say have a
run whose counterexample shows it (`PROJECT.json` quotes the lines):

- `DemoLimitsHour`: the prune cron deletes hour rows after five minutes, so a demo visitor
  gets more than the hourly limit.
- `CircuitBreakerCancel`: a probe that is cancelled by a deadline leaves the probe flag
  set, and the circuit stays half-open, refusing everybody, for ever.
- `UsageRecordingStop`: a stop that cancels the loop during a flush loses the popped batch
  although Convex is reachable.
- `KeyLifecycleTokens`: a playground token whose creation overlaps a rotation is stored
  after it and works with the new secret.
- `MapPopup`: the answer of an aborted look-up whose headers had arrived opens its popup over
  the place selected since.
- `RequestForm`: the playground's checks do not mirror the API's: a text without letters
  or digits, a number written `1e1` and coordinates with more digits than the API takes pass
  the form and are refused with 400.

Further observations made while modelling, without a run of their own:

- A key whose creation began before `lockUser` is inserted after it: `insertKey` does not
  look at `disabledAt`. It does not work while the account is locked and is live
  when it is unlocked.
- `authorize` answers "revoked" for a live key of a locked account and the gateway may
  still remember it after `enableUser`; `RememberedIsFinal` is therefore stated for
  accounts that are never locked.
- A batch whose answer is lost is stored twice (there is no idempotency key), and counted
  twice. `RollupsAgree` holds all the same: totals count rows.
- Taking a failed batch back into a full deque drops the newest records, not the oldest.
- Requests refused for one visitor's limit are counted against the site key's cap, so one
  visitor can exhaust it; `VisitorCeiling` is an upper bound, not a guarantee of service.
- A token service that refuses counts as an answer and closes a half-open circuit, one
  that is unreachable and a full queue count as failures of the data service and open it;
  with few slots the queue's own timeouts keep reopening it.
- `query_all` ends silently at `arcgis_max_records`, which by default is also
  `routing_max_features`: a layer that outgrows the limit between the count and the last
  page is truncated (`RoadsAreKept` holds, since only rows added meanwhile are lost).
- A rotation of the site key without a new commit is never deployed; a rotation back to an
  old key fails for good; and the old key is revoked before the website restarts with the new one.
- A sign-in that had verified the old password before a change still gets its session; a
  change that dies between its calls leaves the other sessions; a session stored
  while the account is locked works after the unlock.
- Map: closing the popup or clearing the search does not abort the look-up, whose answer opens
  the popup again; a reset route still shows its late failure; a swap with one endpoint
  keeps an old error; a change of the mode during a calculation does not repeat it; popup
  buttons and the answer about the location use the endpoints of the time they were made;
  the client's timeout does not cover the body. A route asked for offline and cleared is
  calculated all the same when the page is back online and may show its error; a call that was sent
  while an older route was paused, as by a position that is found while the page is hidden, is
  aborted by it, and the panel shows neither a route nor a message.
- Search box: Enter while it is loading chooses a result of the text before; offline it shows
  those results without a mark.
- Developers' page: a route asked for offline is sent with what was typed since, unchecked.
- Playground: two submissions while a token is fetched send two requests, and a
  token that arrives after the page was left still sends one nobody aborts.
- Table of keys: its time is taken once, when it is mounted, while its comment relies on
  Convex rendering it again: a key that expires while the list is open is not marked, and a new secret
  for it is offered, also after later answers. The server does not refuse to regenerate an
  expired key. (The other direction is part of `FiguresAgree`: no valid key is marked.)
- Chart: `focusIndex` is a position and stays when the data change, while the focus moves with its
  day; when the chart starts on another day the focused column loses its tooltip or gets that
  of another day. `ColumnInFocusIsDescribed` therefore asks for the same first day.
- Usage page: while a new period loads, the caption already names it above the dimmed figures
  of the old one; the figures of today and of the current minute stay what they were at
  the last change of a row, since queries are not asked again because time passes.
- Live demo: it checks the form of coordinates and not their range, and a text's least length only.
- Billing: every click has its own request id, so a retry after a lost answer creates a
  second payment.
- A sign-out that the throttle refuses is ignored without a word; a browser whose session
  was ended elsewhere cannot reach the sign-in page until its token expires.
- A plan bought while another is active changes the remaining time into the new plan's;
  `PaidTimeIsGiven` is about time, not about which plan it is.
- The key's own rate limit and the fixed account limit of `docs/security/rate-limiting.md`
  are never reached for customers, because the plan's rate is always set.

## Not modelled

- Cryptography and encodings: hashing of secrets, webhook signatures, JSON, cursors. A
  secret is its hash, a verified event is an event.
- Labels and texts: `rename`, audit entries (append-only, nothing reads them to decide), how
  tables and charts are drawn and numbers formatted, the static
  and documentation pages, the map's rendering and camera, translations of provider
  answers, end-to-end tests. They hold data, not decisions: there is nothing in them that a
  sequence of steps could break.
- The auth library: token refresh, its own limits and attempts at codes are taken as it
  documents them.
- The layer metadata cache of the ArcGIS client: a cache of one answer with one lifetime.
- Geometry: distances on the sphere, the spatial index behind the snap, polylines.
- Deleting raw usage rows after their retention: `RollupsAgree` compares totals with all
  the rows ever inserted.
- Amounts and currencies of payments: `startCheckout` refuses an intent that differs, so
  those of a row always agree with its plan.
- Overflow: counters are JavaScript numbers far below 2^53 and Python integers.

## Plan

Modelled and checked: every part whose correctness depends on state, order or failure; every
safety property of a run is proved (see [Proofs](#proofs)). What is left, the most valuable first:

1. The limit of all visitors' calls in `ApiRequests`.
2. The layer metadata cache of the ArcGIS client.
