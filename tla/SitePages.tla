----------------------------- MODULE SitePages -----------------------------
(***************************************************************************)
(* The pages of the website that ask a server again before it answered,    *)
(* side by side: the map, the search box, the playground, the pages of     *)
(* usage and their chart.  They share no state.                            *)
(***************************************************************************)
EXTENDS MapPage, PlaceSearch, Playground, Dashboard, RequestsChart

\* What a page shows, or waits for, is the answer to what was asked last: no look-up or route
\* of the map waits for a call that an abort ended, that has ended or that is never sent, the
\* box lists no results of another text without saying that it loads, unless it is offline,
\* the playground shows the request sent last, however late the answers to earlier ones come,
\* figures of one page are of one moment and of the selection, or are dimmed, and a chart's
\* tooltip is of the column that is in focus.
AnswersAreCurrent ==
    WaitsAreAnswered /\ ResultsAreForText /\ LastSentIsShown /\ FiguresAgree /\ ColumnInFocusIsDescribed
=============================================================================
