----------------------------- MODULE Dashboard -----------------------------
(***************************************************************************)
(* The pages of the dashboard that show usage: overview, usage and keys.   *)
(* Each asks queries of Convex, which answers all of a page's queries at   *)
(* one moment, and again when rows that an answer was made of have         *)
(* changed.  The clock alone changes no row.  A day is one unit of time; a *)
(* request is what the tables say of it: its key and its day.  Drawing,    *)
(* formats and the texts of the menus are left out.                        *)
(***************************************************************************)
EXTENDS Integers, FiniteSets

CONSTANTS
    DashboardKeys,  \* the account's keys
    Unlimited,      \* the filter "all keys", and the expiry of a key that has none
    ExpiresAt,      \* [DashboardKeys -> day or Unlimited], as chosen when they were made
    Ranges,         \* RANGES: the periods of the usage page, in days
    LongRange,      \* 30 days: of the overview, of the keys page, and of the usage page at first
    MonthDays,
    LogPage,        \* PAGE_SIZE of the request log
    MaxDay,         \* bound: days
    MaxRows         \* bound: requests recorded

ASSUME DashboardAssumption ==
    /\ Ranges \subseteq Nat \ {0} /\ LongRange \in Ranges /\ MonthDays \in Nat \ {0}
    /\ {LogPage, MaxDay, MaxRows} \subseteq Nat /\ LongRange <= MaxDay
    /\ Unlimited \notin DashboardKeys \cup Nat
    /\ ExpiresAt \in [DashboardKeys -> Nat \cup {Unlimited}]

VARIABLES
    today, ledger, revokedKeys,  \* the server: its day, the requests recorded, the keys
    view, sessionRestored,       \* the page that is open, and Convex' session
    days, keyFilter,             \* the usage page's selection
    answers, stable,             \* the answers to the page's queries; useStableValue's last
    logStatus,                   \* of the paginated query
    tableNow                     \* when the table of the active keys was mounted

serverVars == <<today, ledger, revokedKeys>>
answerVars == <<answers, stable>>
selectionVars == <<view, sessionRestored, days, keyFilter>>
dashboardVars == <<serverVars, selectionVars, answerVars, logStatus, tableNow>>

Views == {"overview", "usage", "keys"}
Queries == {"summary", "daily", "endpoints", "list"}
LogStates == {"LoadingFirstPage", "CanLoadMore", "LoadingMore", "Exhausted"}
Nothing == -1  \* no column, no time
NoAnswer == [keyId |-> Unlimited, from |-> 0, day |-> Nothing, rows |-> {}, revoked |-> {}]
NoAnswers == [q \in Queries |-> NoAnswer]

---------------------------------------------------------------------------
(* The queries. *)

\* useConsoleQuery: nothing is asked before the session is restored.
Subscriptions ==
    CASE ~sessionRestored -> {}
      [] sessionRestored /\ view = "overview" -> {"summary", "daily"}
      [] sessionRestored /\ view = "usage" -> {"daily", "endpoints"}
      [] sessionRestored /\ view = "keys" -> {"list"}

\* Mutant: the table's period begins a day before the chart's.
FromDayBefore(q) ==
    CASE q = "summary" -> today - (today % MonthDays)
      [] q = "list" -> today - (LongRange - 1)
      [] q = "daily" -> today - (days - 1)
      [] q = "endpoints" -> today - days

\* The first day a query reads, of its period that ends today.
From(q) ==
    CASE q = "summary" -> today - (today % MonthDays)
      [] q = "list" -> today - (LongRange - 1)
      [] q = "daily" -> today - (days - 1)
      [] q = "endpoints" -> today - (days - 1)

KeyOf(q) == IF q \in {"daily", "endpoints"} THEN keyFilter ELSE Unlimited
ReadsKeys(q) == q \in {"summary", "list"}

\* The daily totals of every key are read, and those of other keys skipped afterwards.
Evaluate(q) ==
    [keyId |-> KeyOf(q), from |-> From(q), day |-> today,
     rows |-> {r \in ledger : r.day >= From(q)},
     revoked |-> IF ReadsKeys(q) THEN revokedKeys ELSE {}]

IsLoaded(a) == a.day # Nothing

\* No row an answer was made of has changed, and none was added where its query looked.
Fresh(q) ==
    /\ IsLoaded(answers[q]) /\ answers[q].rows = {r \in ledger : r.day >= answers[q].from}
    /\ ReadsKeys(q) => answers[q].revoked = revokedKeys

Counted(a) == {r \in a.rows : a.keyId \in {Unlimited, r.key}}

\* daily: a column for each day of the period.  endpoints: all rows from its first day on.
Columns(a) == a.from..a.day
Column(a, d) == {r \in Counted(a) : r.day = d}
ChartTotal(a) == UNION {Column(a, d) : d \in Columns(a)}
EndpointTotals(a) == Counted(a)

\* summary and list.
RequestsToday(a) == {r \in a.rows : r.day = a.day}
RequestsLast30Days(a, k) == {r \in a.rows : r.key = k}
ActiveKeys(a) == IF IsLoaded(a) THEN DashboardKeys \ a.revoked ELSE {}

---------------------------------------------------------------------------
(* What the pages show. *)

\* useStableValue.
Figure(q) == IF IsLoaded(answers[q]) THEN answers[q] ELSE stable[q]
Stale(q) == ~IsLoaded(answers[q]) /\ IsLoaded(stable[q])

\* An account without keys and requests is shown how to begin, in place of the chart.
EmptyShown ==
    /\ view = "overview" /\ IsLoaded(answers["summary"])
    /\ ActiveKeys(answers["summary"]) = {} /\ answers["summary"].rows = {}

\* What the chart draws; the overview has no stable values.
ChartData ==
    IF view = "usage" THEN Figure("daily")
    ELSE IF view = "overview" /\ ~EmptyShown THEN answers["daily"] ELSE NoAnswer

\* The table of keys: the badge, and what the menu of a row offers (as long as the account
\* may use keys, see KeysPage).
IsExpired(k, now) == ExpiresAt[k] # Unlimited /\ ExpiresAt[k] <= now
MenuOf(k) ==
    IF k \in answers["list"].revoked THEN {}
    ELSE {"rename", "revoke"} \cup (IF IsExpired(k, tableNow) THEN {} ELSE {"regenerate"})

---------------------------------------------------------------------------
DashboardInit ==
    /\ today = LongRange - 1 /\ ledger = {} /\ revokedKeys = {}
    /\ view = "overview" /\ sessionRestored = FALSE /\ days = LongRange /\ keyFilter = Unlimited
    /\ answers = NoAnswers /\ stable = NoAnswers
    /\ logStatus = "LoadingFirstPage" /\ tableNow = Nothing

pageVars == <<selectionVars, answerVars, logStatus, tableNow>>

NextDay ==
    /\ today < MaxDay /\ today' = today + 1
    /\ UNCHANGED <<ledger, revokedKeys, pageVars>>

\* Mutant: a time ahead of the server's is stored as it is.
StoreAsSent(k, d) ==
    /\ Cardinality(ledger) < MaxRows
    /\ ledger' = ledger \cup {[key |-> k, day |-> d, id |-> Cardinality(ledger)]}
    /\ UNCHANGED <<today, revokedKeys, pageVars>>

\* recordUsage: the gateway's clock may be ahead, and its record late.
Store(k, d) ==
    /\ Cardinality(ledger) < MaxRows
    /\ ledger' = ledger \cup {[key |-> k, day |-> IF d <= today THEN d ELSE today,
                               id |-> Cardinality(ledger)]}
    /\ UNCHANGED <<today, revokedKeys, pageVars>>

RevokeKey(k) ==
    /\ k \notin revokedKeys /\ revokedKeys' = revokedKeys \cup {k}
    /\ UNCHANGED <<today, ledger, pageVars>>

\* With the session the answers go: the queries are skipped until it is back.
SessionChanges ==
    /\ sessionRestored' = ~sessionRestored
    /\ answers' = NoAnswers /\ logStatus' = "LoadingFirstPage" /\ tableNow' = Nothing
    /\ UNCHANGED <<serverVars, view, days, keyFilter, stable>>

Open(v) ==
    /\ view' = v /\ days' = LongRange /\ keyFilter' = Unlimited
    /\ answers' = NoAnswers /\ stable' = NoAnswers
    /\ logStatus' = "LoadingFirstPage" /\ tableNow' = Nothing
    /\ UNCHANGED <<serverVars, sessionRestored>>

\* New arguments are a new query, of which nothing is known yet.
ForgetFigures == answers' = [answers EXCEPT !["daily"] = NoAnswer, !["endpoints"] = NoAnswer]

SelectDays(d) ==
    /\ view = "usage" /\ d # days
    /\ days' = d /\ ForgetFigures
    /\ UNCHANGED <<serverVars, view, sessionRestored, keyFilter, stable, logStatus, tableNow>>

SelectKey(k) ==
    /\ view = "usage" /\ k # keyFilter
    /\ keyFilter' = k /\ ForgetFigures /\ logStatus' = "LoadingFirstPage"
    /\ UNCHANGED <<serverVars, view, sessionRestored, days, stable, tableNow>>

\* The server answers what has changed, all of it at once; touched says that quotas, plans or
\* minute windows have, which only summary and list read.
Deliver(touched) ==
    /\ Subscriptions # {}
    /\ answers' = [q \in Queries |->
                    IF q \notin Subscriptions THEN NoAnswer
                    ELSE IF Fresh(q) /\ ~(touched /\ ReadsKeys(q)) THEN answers[q] ELSE Evaluate(q)]
    /\ stable' = [q \in Queries |->
                    IF view = "usage" /\ q \in Subscriptions THEN answers'[q] ELSE stable[q]]
    /\ tableNow' = IF ActiveKeys(answers'["list"]) = {} THEN Nothing
                   ELSE IF tableNow = Nothing THEN today ELSE tableNow
    /\ UNCHANGED <<serverVars, selectionVars, logStatus>>

\* The log starts with one page and grows by one at a time.
LogAnswer(status) ==
    /\ view = "usage" /\ sessionRestored /\ logStatus \in {"LoadingFirstPage", "LoadingMore"}
    /\ LET all == Cardinality({r \in ledger : keyFilter \in {Unlimited, r.key}}) IN
       /\ status = "CanLoadMore" => all > LogPage
       /\ status = "Exhausted" => logStatus = "LoadingMore" \/ all <= LogPage
    /\ logStatus' = status
    /\ UNCHANGED <<serverVars, selectionVars, answerVars, tableNow>>

LoadMore ==
    /\ view = "usage" /\ logStatus = "CanLoadMore" /\ logStatus' = "LoadingMore"
    /\ UNCHANGED <<serverVars, selectionVars, answerVars, tableNow>>

DashboardNext ==
    \/ NextDay \/ SessionChanges \/ LoadMore
    \/ \E k \in DashboardKeys : RevokeKey(k) \/ (\E d \in 0..(today + 1) : Store(k, d))
    \/ \E v \in Views : Open(v)
    \/ \E d \in Ranges : SelectDays(d)
    \/ \E k \in DashboardKeys \cup {Unlimited} : SelectKey(k)
    \/ \E touched \in BOOLEAN : Deliver(touched)
    \/ \E status \in {"CanLoadMore", "Exhausted"} : LogAnswer(status)

DashboardSpec == DashboardInit /\ [][DashboardNext]_dashboardVars

---------------------------------------------------------------------------
(* Properties. *)

Rows == [key : DashboardKeys, day : Nat, id : Nat]
AnswerType ==
    [keyId : DashboardKeys \cup {Unlimited}, from : Int, day : Nat \cup {Nothing},
     rows : SUBSET Rows, revoked : SUBSET DashboardKeys]

DashboardTypeOK ==
    /\ today \in 0..MaxDay /\ ledger \subseteq Rows
    /\ revokedKeys \subseteq DashboardKeys
    /\ view \in Views /\ sessionRestored \in BOOLEAN /\ days \in Ranges
    /\ keyFilter \in DashboardKeys \cup {Unlimited}
    /\ {answers, stable} \subseteq [Queries -> AnswerType]
    /\ tableNow \in Nat \cup {Nothing}
    /\ logStatus \in LogStates

\* Whatever is recorded, by clocks that differ, and however answers and selections interleave:
\* the usage page's chart and table count the same requests, both are of the selected
\* period and key or both are dimmed; on the overview the last column is today's figure, and
\* the month's figure counts what the columns of the month do, also where the page shows how
\* to begin instead; the number beside a key is what the chart would add up to for it; and
\* no key that is still valid is denied a new secret as expired.
IsSelected(a) == a.keyId = keyFilter /\ a.day - a.from = days - 1
FiguresAgree ==
    /\ view = "usage" =>
           /\ ChartTotal(ChartData) = EndpointTotals(Figure("endpoints"))
           /\ Stale("daily") = Stale("endpoints")
           /\ \A q \in {"daily", "endpoints"} :
                  IsLoaded(Figure(q)) => Stale(q) \/ IsSelected(Figure(q))
    /\ view = "overview" /\ answers["summary"].day = answers["daily"].day =>
           /\ RequestsToday(answers["summary"]) = Column(ChartData, answers["daily"].day)
           /\ {r \in answers["summary"].rows : r.day >= answers["daily"].from}
                = {r \in ChartTotal(answers["daily"]) : r.day >= answers["summary"].from}
    /\ \A k \in DashboardKeys :
           RequestsLast30Days(answers["list"], k) = ChartTotal([answers["list"] EXCEPT !.keyId = k])
    /\ \A k \in ActiveKeys(answers["list"]) : IsExpired(k, today) \/ "regenerate" \in MenuOf(k)
=============================================================================
