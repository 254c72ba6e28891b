---------------------------- MODULE RequestsChart ----------------------------
(***************************************************************************)
(* The chart of requests per day: one column per day, each a target of the *)
(* pointer and of the keyboard with a tooltip.  The page gives it new data *)
(* at any time.  React keeps the element of a day as long as there is one, *)
(* so a column in focus stays in focus when its index changes, and is told *)
(* nothing when it goes.  The drawing is left out.                         *)
(***************************************************************************)
EXTENDS Integers

CONSTANTS
    ChartDays,   \* bound: days are 1..ChartDays
    NoColumn     \* null

ASSUME ChartAssumption == ChartDays \in Nat /\ NoColumn \notin Int

VARIABLES
    shownDays,           \* the days of the data; none before it is loaded
    active, focusIndex,  \* the chart's state
    inFocus,             \* the day of the column that has the keyboard's focus
    focusedFrom,         \* history: the chart's first day when that column got it
    showTable

chartVars == <<shownDays, active, focusIndex, inFocus, focusedFrom, showTable>>

FirstDay == CHOOSE d \in shownDays : \A e \in shownDays : d <= e
LastDay == CHOOSE d \in shownDays : \A e \in shownDays : d >= e

ColumnCount == IF shownDays = {} THEN 0 ELSE LastDay - FirstDay + 1
Indices == 0..(ColumnCount - 1)
DayOf(i) == FirstDay + i
IndexOf(d) == d - FirstDay

ChartInit ==
    /\ shownDays = {} /\ active = NoColumn /\ focusIndex = NoColumn /\ inFocus = NoColumn
    /\ focusedFrom = NoColumn /\ showTable = FALSE

\* Another period, another key, or the next day, which never is an earlier one.
NewData(from, to) ==
    /\ from..to \notin {{}, shownDays} /\ (shownDays # {} => to >= LastDay)
    /\ shownDays' = from..to
    /\ inFocus' = IF inFocus \in shownDays' THEN inFocus ELSE NoColumn
    /\ UNCHANGED <<active, focusIndex, focusedFrom, showTable>>

\* The overview and the keys of another session: the chart is a skeleton until data comes.
Unload ==
    /\ shownDays # {} /\ shownDays' = {} /\ inFocus' = NoColumn
    /\ UNCHANGED <<active, focusIndex, focusedFrom, showTable>>

PointerMoves(to) ==
    /\ to # active /\ active' = to
    /\ UNCHANGED <<shownDays, focusIndex, inFocus, focusedFrom, showTable>>

\* Tab reaches one of the columns, a click all.
OnFocus(i) ==
    /\ focusIndex' = i /\ inFocus' = DayOf(i) /\ focusedFrom' = FirstDay
    /\ UNCHANGED <<shownDays, active, showTable>>

Blur ==
    /\ inFocus # NoColumn /\ inFocus' = NoColumn /\ focusIndex' = NoColumn
    /\ UNCHANGED <<shownDays, active, focusedFrom, showTable>>

\* Mutant: the keys move the index and leave the focus where it is.
OnKeyDownKeepsFocus(next) ==
    /\ inFocus # NoColumn
    /\ next \in {IndexOf(inFocus) - 1, IndexOf(inFocus) + 1, 0, ColumnCount - 1} \cap Indices
    /\ focusIndex' = next
    /\ UNCHANGED <<shownDays, active, inFocus, focusedFrom, showTable>>

\* Arrow keys, Home and End.
OnKeyDown(next) ==
    /\ inFocus # NoColumn
    /\ next \in {IndexOf(inFocus) - 1, IndexOf(inFocus) + 1, 0, ColumnCount - 1} \cap Indices
    /\ OnFocus(next)

ToggleTable == showTable' = ~showTable /\ UNCHANGED <<shownDays, active, focusIndex, inFocus, focusedFrom>>

ChartNext ==
    \/ Unload \/ Blur
    \/ \E from, to \in 1..ChartDays : NewData(from, to)
    \/ PointerMoves(NoColumn)
    \/ \E i \in Indices : PointerMoves(i) \/ OnFocus(i) \/ OnKeyDown(i)
    \/ shownDays # {} /\ ToggleTable

ChartSpec == ChartInit /\ [][ChartNext]_chartVars

---------------------------------------------------------------------------
(* Properties. *)

ChartTypeOK ==
    /\ shownDays \subseteq 1..ChartDays /\ (shownDays # {} => shownDays = FirstDay..LastDay)
    /\ showTable \in BOOLEAN
    /\ {active, focusIndex} \subseteq 0..(ChartDays - 1) \cup {NoColumn}
    /\ inFocus \in shownDays \cup {NoColumn}
    /\ focusedFrom \in 1..ChartDays \cup {NoColumn}

tooltipIndex == IF active # NoColumn THEN active ELSE focusIndex

\* "Every column is a hover/focus target with a tooltip" (requests-chart.tsx:31): the tooltip is
\* that of the column in focus, unless the pointer is on one, as long as the chart starts on the
\* same day.  The code remembers a position: with another first day it is another column's.
ColumnInFocusIsDescribed ==
    inFocus # NoColumn /\ active = NoColumn /\ focusedFrom = FirstDay =>
        tooltipIndex \in Indices /\ DayOf(tooltipIndex) = inFocus
=============================================================================
