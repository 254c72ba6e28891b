---------------------------- MODULE DemoLimits ----------------------------
(***************************************************************************)
(* The distributed limits of the anonymous demo (internal.gateway.         *)
(* authorizeDemo) over the rateLimitWindows table, and the cron job that   *)
(* prunes that table.  Unlike every other limit, one of the demo's windows *)
(* is an hour long.  Time is counted in minutes.                           *)
(***************************************************************************)
EXTENDS RateWindows

CONSTANTS
    Visitors,       \* visitor addresses; the unknown address is one of them
    DemoEndpoints,
    CostOf,         \* [DemoEndpoints -> Nat], units of a request
    MinuteLimit, HourLimit, GlobalMinuteLimit,
    HourLength,     \* 60 in the code
    RateRetention,  \* age in minutes at which prune deletes a window; 5 in the code
    BATCH,
    MaxDemoRequests, MaxDemoTime   \* bounds of the model

ASSUME DemoAssumption ==
    /\ CostOf \in [DemoEndpoints -> Nat \ {0}]
    /\ MinuteLimit \in Nat /\ HourLimit \in Nat /\ GlobalMinuteLimit \in Nat
    /\ HourLength \in Nat \ {0} /\ RateRetention \in Nat
    /\ BATCH \in Nat /\ MaxDemoRequests \in Nat /\ MaxDemoTime \in Nat

VARIABLES
    demoNow,
    demoWindows,  \* rateLimitWindows, the demo's buckets
    demoArrived,  \* requests so far, for MaxDemoRequests
    minuteUnits,  \* history: units of a visitor answered "ok" this minute
    hourUnits,    \* history: units of a visitor answered "ok" this hour
    restarts      \* history: prune runs that deleted the visitor's current hour row

demoHistory == <<minuteUnits, hourUnits, restarts>>
demoVars == <<demoNow, demoWindows, demoArrived, demoHistory>>

minute == demoNow
hour == WindowStart(demoNow, HourLength)

\* Mutant: minute limits per endpoint only.
MinuteLimitsPerEndpoint(v, e) ==
    {[bucket |-> <<"ip-endpoint-minute", v, e>>, limit |-> MinuteLimit],
     [bucket |-> <<"global-minute">>, limit |-> GlobalMinuteLimit]}

MinuteLimits(v, e) ==
    {[bucket |-> <<"ip-minute", v>>, limit |-> MinuteLimit],
     [bucket |-> <<"ip-endpoint-minute", v, e>>, limit |-> MinuteLimit],
     [bucket |-> <<"global-minute">>, limit |-> GlobalMinuteLimit]}

HourLimits(v) == {[bucket |-> <<"ip-hour", v>>, limit |-> HourLimit]}

HourRow(v) == <<<<"ip-hour", v>>, hour>>

DemoInit ==
    /\ demoNow = 0
    /\ demoWindows = EmptyTable
    /\ demoArrived = 0
    /\ minuteUnits = [v \in Visitors |-> 0]
    /\ hourUnits = [v \in Visitors |-> 0]
    /\ restarts = [v \in Visitors |-> 0]

\* All four windows are hit before the decision, whatever it is.
HitAll(v, e) ==
    /\ demoArrived < MaxDemoRequests
    /\ demoArrived' = demoArrived + 1
    /\ demoWindows' = AddTo(demoWindows,
                        RowsOf(MinuteLimits(v, e), minute) \cup RowsOf(HourLimits(v), hour),
                        CostOf[e])

WithinDemoLimits(v, e) ==
    /\ WithinLimits(demoWindows, MinuteLimits(v, e), minute, CostOf[e])
    /\ WithinLimits(demoWindows, HourLimits(v), hour, CostOf[e])

DemoOk(v, e) ==
    /\ WithinDemoLimits(v, e)
    /\ HitAll(v, e)
    /\ minuteUnits' = [minuteUnits EXCEPT ![v] = @ + CostOf[e]]
    /\ hourUnits' = [hourUnits EXCEPT ![v] = @ + CostOf[e]]
    /\ UNCHANGED <<demoNow, restarts>>

DemoRateLimited(v, e) ==
    /\ ~WithinDemoLimits(v, e)
    /\ HitAll(v, e)
    /\ UNCHANGED <<demoNow, demoHistory>>

authorizeDemo == \E v \in Visitors, e \in DemoEndpoints : DemoOk(v, e) \/ DemoRateLimited(v, e)

ExpiredWindows == {row \in DOMAIN demoWindows : row[2] < demoNow - RateRetention}

prune ==
    /\ \E batch \in Batches(ExpiredWindows, 2, BATCH) :
          /\ demoWindows' = Without(demoWindows, batch)
          /\ restarts' = [v \in Visitors |-> restarts[v] + (IF HourRow(v) \in batch THEN 1 ELSE 0)]
    /\ UNCHANGED <<demoNow, demoArrived, minuteUnits, hourUnits>>

DemoTick ==
    /\ demoNow < MaxDemoTime
    /\ demoNow' = demoNow + 1
    /\ minuteUnits' = [v \in Visitors |-> 0]
    /\ LET sameHour == WindowStart(demoNow + 1, HourLength) = hour IN
       /\ hourUnits' = IF sameHour THEN hourUnits ELSE [v \in Visitors |-> 0]
       /\ restarts' = IF sameHour THEN restarts ELSE [v \in Visitors |-> 0]
    /\ UNCHANGED <<demoWindows, demoArrived>>

DemoNext == authorizeDemo \/ prune \/ DemoTick

DemoSpec == DemoInit /\ [][DemoNext]_demoVars

---------------------------------------------------------------------------
\* Type invariant of the module's state.
DemoTypeOK ==
    /\ demoNow \in Nat /\ demoArrived \in Nat
    /\ demoWindows \in [DOMAIN demoWindows -> Nat]
    /\ minuteUnits \in [Visitors -> Nat]
    /\ hourUnits \in [Visitors -> Nat]
    /\ restarts \in [Visitors -> Nat]

\* The minute limits of the demo hold against what was answered: per visitor over all
\* endpoints, and over all visitors, whatever is refused, delayed or pruned.
MinuteCeiling ==
    /\ \A v \in Visitors : minuteUnits[v] <= MinuteLimit
    /\ Total(minuteUnits, Visitors) <= GlobalMinuteLimit

\* What the code guarantees about an hour: each prune run that deletes the current
\* hour's row opens a new allowance of HourLimit units.
HourCeilingPerRestart ==
    \A v \in Visitors : hourUnits[v] <= HourLimit * (1 + restarts[v])

\* Both ceilings that hold, over one behaviour of the table.
DemoCeilings == MinuteCeiling /\ HourCeilingPerRestart

\* What the documentation says of the demo: a visitor is answered at most HourLimit
\* units in an hour ("20 units/min, 100/hour").
HourCeiling == \A v \in Visitors : hourUnits[v] <= HourLimit
=============================================================================
