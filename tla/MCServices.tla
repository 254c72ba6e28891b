------------------------------ MODULE MCServices ------------------------------
(***************************************************************************)
(* One instance of each of the smaller components.  A behaviour is one of  *)
(* the component in `focus`, chosen from Focuses; the others stay in their *)
(* initial states.                                                         *)
(***************************************************************************)
EXTENDS ArcGisClient, RoadSearch, RoadGraphStore, ApiRequests, Deployment, Sessions,
        DemoLimits, SitePages, KeysPage, BillingPage, SignInPages, RequestForm

CONSTANTS
    Focuses,               \* components that may be in focus
    process, keyOfUsage,   \* the process that records usage, and the key it is for
    costlyDemo, cheapDemo  \* endpoints of the demo

VARIABLE focus

\* The state of the usage records, as in UsageRecording.
VARIABLES clock, metered, loop, deque, sent, sentStored, delayed, lost, ledgerRows, ledgerDays,
          lastUses, dropped, denied

recorderVars == <<clock, metered, loop, deque, sent, sentStored, delayed, lost, ledgerRows, ledgerDays,
                  lastUses, dropped, denied>>

\* One process with a buffer of two, a clock ahead, records that get too old,
\* and a call that fails.
Recorder == INSTANCE UsageRecording WITH
    Workers <- {process}, Stoppable <- {}, Keys <- {keyOfUsage}, KnownKeys <- {keyOfUsage},
    BatchSize <- 2, MaxPending <- 2, MaxRecordAge <- 0, MaxClockSkew <- 1, ClockAhead <- 1,
    DayLength <- 2, MaxRecords <- 3, MaxFailures <- 1, MaxTime <- 2,
    now <- clock, log <- metered, phase <- loop, pending <- deque, batch <- sent,
    committed <- sentStored, late <- delayed, failures <- lost, rows <- ledgerRows,
    daily <- ledgerDays, lastUsed <- lastUses, overflowed <- dropped, refused <- denied

Line == [n \in 1..4 |-> 2 * (n - 1)]
Expiries == [k \in DashboardKeys |-> IF k = keyOfUsage THEN 2 ELSE Unlimited]
DemoCosts == [e \in {costlyDemo, cheapDemo} |-> IF e = costlyDemo THEN 2 ELSE 1]
Streets == <<<<1, 2>>, <<2, 4>>, <<3, 1>>, <<3, 4>>>>
Roads == {[dir |-> "both", pace |-> 1], [dir |-> "both", pace |-> 2],
          [dir |-> "forward", pace |-> 1], [dir |-> "forward", pace |-> 0]}

\* The places for calls of the map differ in nothing.
Symmetry == Permutations(GeoCalls)

ServicesInit ==
    /\ focus \in Focuses
    /\ ClientInit /\ SearchInit /\ StoreInit /\ ApiInit /\ DeployInit /\ SessionsInit
    /\ DemoInit /\ MapInit /\ BoxInit /\ PlaygroundInit /\ PageInit /\ BillingInit /\ SignInInit
    /\ DashboardInit /\ ChartInit /\ RequestFormInit /\ Recorder!Init

Rest ==
    /\ focus # "client" => UNCHANGED clientVars
    /\ focus # "search" => UNCHANGED searchVars
    /\ focus # "roads" => UNCHANGED storeVars
    /\ focus # "api" => UNCHANGED apiVars
    /\ focus # "deploy" => UNCHANGED deployVars
    /\ focus # "sessions" => UNCHANGED sessionVars
    /\ focus # "demo" => UNCHANGED demoVars
    /\ focus # "map" => UNCHANGED mapVars
    /\ focus # "box" => UNCHANGED searchBoxVars
    /\ focus # "playground" => UNCHANGED playgroundVars
    /\ focus # "keys" => UNCHANGED keysPageVars
    /\ focus # "billing" => UNCHANGED billingVars
    /\ focus # "signin" => UNCHANGED signInVars
    /\ focus # "dashboard" => UNCHANGED dashboardVars
    /\ focus # "chart" => UNCHANGED chartVars
    /\ focus # "form" => UNCHANGED requestFormVars
    /\ focus # "usage" => UNCHANGED recorderVars
    /\ UNCHANGED focus

ServicesNext ==
    /\ \/ focus = "client" /\ ClientNext
       \/ focus = "search" /\ SearchNext
       \/ focus = "roads" /\ StoreNext
       \/ focus = "api" /\ ApiNext
       \/ focus = "deploy" /\ DeployNext
       \/ focus = "sessions" /\ SessionsNext
       \/ focus = "demo" /\ DemoNext
       \/ focus = "map" /\ MapNext
       \/ focus = "box" /\ BoxNext
       \/ focus = "playground" /\ PlaygroundNext
       \/ focus = "keys" /\ KeysPageNext
       \/ focus = "billing" /\ BillingNext
       \/ focus = "signin" /\ SignInNext
       \/ focus = "dashboard" /\ DashboardNext
       \/ focus = "chart" /\ ChartNext
       \/ focus = "form" /\ RequestFormNext
       \/ focus = "usage" /\ Recorder!Next
    /\ Rest

\* The fairness of the components, for the one in focus.
ServicesFairness ==
    /\ WF_clientVars(focus = "client" /\ Clock)
    /\ \A t \in Tasks : /\ WF_clientVars(focus = "client" /\ Continue(t))
                        /\ WF_clientVars(focus = "client" /\ Call(t))
    /\ WF_storeVars(focus = "roads" /\ Load) /\ WF_storeVars(focus = "roads" /\ Grow)
    /\ \A r \in Requests : WF_storeVars(focus = "roads" /\ AnswerRoute(r))
    /\ WF_deployVars(focus = "deploy" /\ DeployRuns)
    /\ WF_billingVars(focus = "billing" /\ AskPayment) /\ WF_billingVars(focus = "billing" /\ LiveQuery)
    /\ \A i \in PaymentIds : SF_billingVars(focus = "billing" /\ RefreshAnswer(i))
    /\ WF_signInVars(focus = "signin" /\ ProxyDecides) /\ WF_signInVars(focus = "signin" /\ LayoutDecides)
    /\ WF_recorderVars(focus = "usage" /\ Recorder!Flush(process))

ServicesSpec ==
    ServicesInit /\ [][ServicesNext]_<<focus, clientVars, searchVars, storeVars, apiVars, deployVars,
        sessionVars, demoVars, mapVars, searchBoxVars, playgroundVars, keysPageVars, billingVars,
        signInVars, dashboardVars, chartVars, requestFormVars, recorderVars>>

ServicesLiveSpec == ServicesSpec /\ ServicesFairness

\* Type invariants of all the components.
ServicesTypeOK ==
    /\ ClientTypeOK /\ SearchTypeOK /\ StoreTypeOK /\ ApiTypeOK /\ DeployTypeOK /\ SessionsTypeOK
    /\ DemoTypeOK /\ MapTypeOK /\ BoxTypeOK /\ PlaygroundTypeOK /\ KeysPageTypeOK /\ BillingTypeOK /\ SignInTypeOK
    /\ DashboardTypeOK /\ ChartTypeOK /\ RequestFormTypeOK

\* The flush loop gets there: every metered request is stored, or dropped by the bound of the
\* buffer or by the checks of recordUsage (UsageRecorder.flush puts a failed batch back).
EventuallyStored == Recorder!EventuallyStored
=============================================================================
