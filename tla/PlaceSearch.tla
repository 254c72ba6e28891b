----------------------------- MODULE PlaceSearch -----------------------------
(***************************************************************************)
(* The place search box: the text, its debounced value, and the query of   *)
(* TanStack Query for that value, which keeps the results of the query     *)
(* before as a placeholder, is cancelled when the value changes, waits     *)
(* while the browser is offline and is asked again when it is back.  The   *)
(* highlighted row is left out.                                            *)
(***************************************************************************)
CONSTANTS SearchTexts, TooShort  \* trimmed texts long enough to search for; any shorter one

VARIABLES
    text, settled, \* what is typed, and its debounced value
    open,
    fetch,         \* of the settled text: "none", "running", "paused" or "failed"
    known,         \* texts whose answers are in the query cache
    placeholder,      \* the text whose answer was shown before, for the placeholder
    connected      \* the browser is online

searchBoxVars == <<text, settled, open, fetch, known, placeholder, connected>>

BoxInit ==
    /\ text = TooShort /\ settled = TooShort /\ open = FALSE
    /\ fetch = "none" /\ known = {} /\ placeholder = TooShort /\ connected = TRUE

Searching == open /\ settled # TooShort

\* The text whose answer useQuery returns as data, or TooShort for none.
DataOf ==
    IF settled \in known THEN settled ELSE IF fetch # "failed" THEN placeholder ELSE TooShort

Results == IF Searching THEN DataOf ELSE TooShort

\* Mutant: text that is typed while the debounce runs does not count as loading.
LoadingWhileFetching == Searching /\ fetch = "running"

Loading == Searching /\ (fetch = "running" \/ text # settled)

ShowList == open /\ text # TooShort

Begins == fetch' = IF connected THEN "running" ELSE "paused"

\* open becomes o: a query that was disabled fetches unless its answer is young.
Toggle(o) ==
    /\ open' = o
    /\ IF o /\ ~Searching /\ settled # TooShort /\ fetch \notin {"running", "paused"}
       THEN Begins \/ (settled \in known /\ UNCHANGED fetch)
       ELSE UNCHANGED fetch

Typed(t) == text' = t /\ Toggle(TRUE) /\ UNCHANGED <<settled, known, placeholder, connected>>

\* The debounce is over: the query of the old value loses its observer and is cancelled.
Settles ==
    /\ text # settled /\ settled' = text
    /\ placeholder' = IF settled \in known THEN settled ELSE placeholder
    /\ IF open /\ text # TooShort
       THEN Begins \/ (text \in known /\ fetch' = "none")
       ELSE fetch' = "none"
    /\ UNCHANGED <<text, open, known, connected>>

Fetched(ok) ==
    /\ fetch = "running"
    /\ IF ok THEN fetch' = "none" /\ known' = known \cup {settled}
             ELSE fetch' = "failed" /\ UNCHANGED known
    /\ UNCHANGED <<text, settled, open, placeholder, connected>>

\* Enter or a click, also while it is loading: the box takes the name of the place.
Choose(name) ==
    /\ ShowList /\ Results # TooShort
    /\ text' = name /\ open' = FALSE
    /\ UNCHANGED <<settled, fetch, known, placeholder, connected>>

\* Focus or an arrow key; Escape or blur.
Opened == ~open /\ Toggle(TRUE) /\ UNCHANGED <<text, settled, known, placeholder, connected>>
Closed == open /\ Toggle(FALSE) /\ UNCHANGED <<text, settled, known, placeholder, connected>>

\* The button with the cross, which is there unless it is loading, focuses the box again.
Cleared ==
    /\ ~Loading /\ text' = TooShort /\ Toggle(TRUE)
    /\ UNCHANGED <<settled, known, placeholder, connected>>

\* An answer nobody observes leaves the cache.
Collected(t) ==
    /\ t \in known \ {settled, placeholder} /\ known' = known \ {t}
    /\ UNCHANGED <<text, settled, open, fetch, placeholder, connected>>

Connection ==
    /\ connected' = ~connected
    /\ UNCHANGED <<text, settled, open, fetch, known, placeholder>>

\* Online again, once paused mutations have ended: a paused query goes on, one without a
\* young answer is asked again.
OnOnline ==
    /\ connected
    /\ fetch = "paused" \/ (Searching /\ fetch # "running")
    /\ fetch' = "running"
    /\ UNCHANGED <<text, settled, open, known, placeholder, connected>>

BoxNext ==
    \/ Settles \/ Opened \/ Closed \/ Cleared \/ Connection \/ OnOnline
    \/ \E t \in SearchTexts \cup {TooShort} : Typed(t)
    \/ \E t \in SearchTexts : Choose(t) \/ Collected(t)
    \/ \E ok \in BOOLEAN : Fetched(ok)

BoxSpec == BoxInit /\ [][BoxNext]_searchBoxVars

---------------------------------------------------------------------------
(* Properties. *)

BoxTypeOK ==
    /\ {text, settled, placeholder} \subseteq SearchTexts \cup {TooShort}
    /\ open \in BOOLEAN /\ connected \in BOOLEAN
    /\ fetch \in {"none", "running", "paused", "failed"} /\ known \subseteq SearchTexts

\* Results that are not marked as loading are those of the text in the box, however the
\* user types, closes and reopens while answers fail or come late.  A query that
\* is paused shows those of an earlier text.
ResultsAreForText ==
    ShowList /\ ~Loading /\ fetch # "paused" /\ Results # TooShort => Results = text
=============================================================================
