------------------------------- MODULE MapPage -------------------------------
(***************************************************************************)
(* The public map: the selected place and its popup, the endpoints of the  *)
(* directions, and the calls of GeoClient behind them.  A call has two     *)
(* waits, for the headers and for the body, and only the first one listens *)
(* to the caller's signal and to the timeout.  The route is a mutation of  *)
(* TanStack Query, which pauses while the browser is offline.  Handlers    *)
(* keep the endpoints they saw when they were made.  Names, the camera and *)
(* the sheet are left out.                                                 *)
(***************************************************************************)
EXTENDS Integers, FiniteSets

CONSTANTS
    Spots,    \* points of the map
    GeoCalls  \* calls that may be in flight together

VARIABLES
    selection, \* the marked point
    popup,     \* its place, whether it is still looked up, the endpoints its buttons know
    ends,      \* which endpoints have coordinates
    calc,      \* the route mutation: "none", "pending", "paused", "done" or "failed"
    current,   \* the call the page's mutation waits for
    pausedRoute, \* a mutation is paused: the page's, or one it was reset from
    pageState, \* "offline", or online and "hidden" or "shown"
    routeError,
    locating,  \* the position request, as the set of the endpoints it knows
    calls      \* the calls in flight

pauseVars == <<pausedRoute, pageState>>
mapVars == <<selection, popup, ends, calc, current, pauseVars, routeError, locating, calls>>

NoSpot == "nowhere"
NoCall == "no call"
NoEnds == [from |-> FALSE, to |-> FALSE]
NoPopup == [at |-> NoSpot, looking |-> FALSE, seen |-> NoEnds]
FreeCall == [kind |-> "free"]

Endpoints == [from : BOOLEAN, to : BOOLEAN]

MapInit ==
    /\ selection = NoSpot /\ popup = NoPopup
    /\ ends = NoEnds
    /\ calc = "none" /\ current = NoCall /\ routeError = FALSE
    /\ pausedRoute = FALSE /\ pageState = "shown"
    /\ locating = {}
    /\ calls = [c \in GeoCalls |-> FreeCall]

Live(kind) == {c \in GeoCalls : calls[c].kind = kind}

\* A new call aborts the one before it, so aborting the last one is aborting them all.
\* A call that waits for its headers ends at once, one that reads its body goes on.
Cut(kind) ==
    [c \in GeoCalls |-> IF c \notin Live(kind) THEN calls[c]
                        ELSE IF calls[c].reading THEN [calls[c] EXCEPT !.cut = TRUE] ELSE FreeCall]

Aborts(kind) == calls' = Cut(kind)

Sends(c, kind, place, seen) ==
    /\ calls[c] = FreeCall
    /\ calls' = [Cut(kind) EXCEPT ![c] =
                    [kind |-> kind, at |-> place, seen |-> seen, cut |-> FALSE, reading |-> FALSE]]

---------------------------------------------------------------------------
(* Directions. *)

\* calculate, with the endpoints its closure knows: the mutation now waits for this call.
\* Offline it is paused instead, and the call before it goes on.
Calculates(c, seen) ==
    /\ seen.from /\ seen.to
    /\ routeError' = FALSE
    /\ IF pageState = "offline"
       THEN calc' = "paused" /\ current' = NoCall /\ pausedRoute' = TRUE /\ UNCHANGED calls
       ELSE /\ Sends(c, "route", NoSpot, NoEnds)
            /\ calc' = "pending" /\ current' = c /\ UNCHANGED pausedRoute
    /\ UNCHANGED pageState

\* The mutation itself, in flight or paused, goes on without the page.
Resets == calc' = "none" /\ current' = NoCall /\ routeError' = FALSE /\ UNCHANGED pauseVars

\* setEndpoint, of a closure that knew the endpoints `seen`.  Without the other endpoint
\* the mutation is reset, and its call goes on.
SetEndpoint(c, which, seen) ==
    LET next == [seen EXCEPT ![which] = TRUE] IN
    /\ ends' = [ends EXCEPT ![which] = TRUE]
    /\ IF next.from /\ next.to THEN Calculates(c, next) ELSE Resets /\ UNCHANGED calls

EndpointChosen(c, which) ==
    /\ SetEndpoint(c, which, ends)
    /\ UNCHANGED <<selection, popup, locating>>

PopupAction(c, which) ==
    /\ popup # NoPopup /\ ~popup.looking
    /\ SetEndpoint(c, which, popup.seen)
    /\ UNCHANGED <<selection, popup, locating>>

\* Typing into a box leaves the route of the old endpoint on the map.
EndpointTyped(which) ==
    /\ ends' = [ends EXCEPT ![which] = FALSE]
    /\ UNCHANGED <<selection, popup, calc, current, pauseVars, routeError, locating, calls>>

\* The button, or a change of the mode once there is a route or an error.
Recalculate(c) ==
    /\ calc \notin {"pending", "paused"} \/ routeError
    /\ Calculates(c, ends)
    /\ UNCHANGED <<selection, popup, ends, locating>>

\* Without both endpoints an error message stays.
Swap(c) ==
    /\ ends' = [from |-> ends.to, to |-> ends.from]
    /\ IF ends.from /\ ends.to
       THEN Calculates(c, ends')
       ELSE calc' = "none" /\ current' = NoCall /\ UNCHANGED <<pauseVars, routeError, calls>>
    /\ UNCHANGED <<selection, popup, locating>>

ClearRoute ==
    /\ Aborts("route") /\ Resets
    /\ ends' = NoEnds
    /\ UNCHANGED <<selection, popup, locating>>

\* A browser without location access is told so at once.
UseMyLocation ==
    /\ locating = {}
    /\ \/ locating' = {ends} /\ UNCHANGED routeError
       \/ routeError' = TRUE /\ UNCHANGED locating
    /\ UNCHANGED <<selection, popup, ends, calc, current, pauseVars, calls>>

Located(c) ==
    /\ \E seen \in locating : SetEndpoint(c, "from", seen)
    /\ locating' = {}
    /\ UNCHANGED <<selection, popup>>

NotLocated ==
    /\ locating # {} /\ locating' = {} /\ routeError' = TRUE
    /\ UNCHANGED <<selection, popup, ends, calc, current, pauseVars, calls>>

---------------------------------------------------------------------------
(* Places. *)

Opens(place, looking, seen) == popup' = [at |-> place, looking |-> looking, seen |-> seen]

SelectPlace(place) ==
    /\ Aborts("reverse")
    /\ selection' = place /\ Opens(place, FALSE, ends)
    /\ UNCHANGED <<ends, calc, current, pauseVars, routeError, locating>>

\* Mutant: the abort comes after the new call has been sent.
MapClickAbortsLast(c, place) ==
    /\ calls[c] = FreeCall
    /\ calls' = [Cut("reverse") EXCEPT ![c] =
                    [kind |-> "reverse", at |-> place, seen |-> ends, cut |-> TRUE, reading |-> FALSE]]
    /\ selection' = place /\ Opens(place, TRUE, NoEnds)
    /\ UNCHANGED <<ends, calc, current, pauseVars, routeError, locating>>

\* reverseGeocode.
MapClick(c, place) ==
    /\ Sends(c, "reverse", place, ends)
    /\ selection' = place /\ Opens(place, TRUE, NoEnds)
    /\ UNCHANGED <<ends, calc, current, pauseVars, routeError, locating>>

PopupClose ==
    /\ popup # NoPopup /\ popup' = NoPopup
    /\ UNCHANGED <<selection, ends, calc, current, pauseVars, routeError, locating, calls>>

ClearSearch ==
    /\ selection' = NoSpot /\ popup' = NoPopup
    /\ UNCHANGED <<ends, calc, current, pauseVars, routeError, locating, calls>>

---------------------------------------------------------------------------
(* GeoClient.get. *)

HeadersArrive(c) ==
    /\ calls[c] # FreeCall /\ ~calls[c].reading
    /\ calls' = [calls EXCEPT ![c].reading = TRUE]
    /\ UNCHANGED <<selection, popup, ends, calc, current, pauseVars, routeError, locating>>

Frees(c) == calls' = [calls EXCEPT ![c] = FreeCall]

\* onSuccess and onError run for every call; the page shows the data of the current one.
RouteEnds(c, ok) ==
    /\ calls[c].kind = "route" /\ Frees(c)
    /\ routeError' = ~ok
    /\ IF current = c THEN calc' = (IF ok THEN "done" ELSE "failed") /\ current' = NoCall
                      ELSE UNCHANGED <<calc, current>>
    /\ UNCHANGED <<selection, popup, ends, pauseVars, locating>>

\* An answer opens the popup without a look at the signal; a failure looks at it.
ReverseEnds(c, ok) ==
    /\ calls[c].kind = "reverse" /\ Frees(c)
    /\ IF ok \/ ~calls[c].cut THEN Opens(calls[c].at, FALSE, calls[c].seen) ELSE UNCHANGED popup
    /\ UNCHANGED <<selection, ends, calc, current, pauseVars, routeError, locating>>

\* The body: an answer, an error status or no JSON.
BodyArrives(c, ok) ==
    /\ calls[c] # FreeCall /\ calls[c].reading
    /\ RouteEnds(c, ok) \/ ReverseEnds(c, ok)

\* No connection, or the timeout.
CallFails(c) ==
    /\ calls[c] # FreeCall /\ ~calls[c].reading
    /\ RouteEnds(c, FALSE) \/ ReverseEnds(c, FALSE)

---------------------------------------------------------------------------
(* The connection, and whether the page is shown. *)

\* Mutant: the page resumes when it gets online, and not when it is shown again.
ResumesOnline(c) ==
    /\ pageState # "shown" /\ pageState' = "shown"
    /\ IF pausedRoute /\ pageState = "offline"
       THEN /\ Sends(c, "route", NoSpot, NoEnds) /\ pausedRoute' = FALSE
            /\ IF calc = "paused" THEN calc' = "pending" /\ current' = c ELSE UNCHANGED <<calc, current>>
       ELSE UNCHANGED <<calc, current, calls, pausedRoute>>
    /\ UNCHANGED <<selection, popup, ends, routeError, locating>>

\* Offline, or hidden while it is online: nothing paused goes on.
Suspends ==
    /\ pageState' \in {"offline", "hidden"} \ {pageState}
    /\ UNCHANGED <<selection, popup, ends, calc, current, pausedRoute, routeError, locating, calls>>

\* The mutations that are paused run, in their order: each aborts the call before its own,
\* so that the last one's call remains.  A call of the page that was sent while it was hidden
\* is aborted too, and its mutation fails without a message unless it was reading its body.
Resumes(c) ==
    /\ pageState # "shown" /\ pageState' = "shown" /\ pausedRoute' = FALSE
    /\ \/ ~pausedRoute /\ UNCHANGED <<calc, current, calls>>
       \/ /\ pausedRoute /\ Sends(c, "route", NoSpot, NoEnds)
          /\ \/ calc = "paused" /\ calc' = "pending" /\ current' = c
             \/ calc = "pending" /\ ~calls[current].reading /\ calc' = "failed" /\ current' = NoCall
             \/ /\ calc = "pending" => calls[current].reading
                /\ calc # "paused" /\ UNCHANGED <<calc, current>>
    /\ UNCHANGED <<selection, popup, ends, routeError, locating>>

\* Nobody acts on a page that is hidden; what was asked of the browser or the API goes on.
UserActs ==
    \/ PopupClose \/ ClearSearch \/ ClearRoute \/ UseMyLocation
    \/ \E place \in Spots : SelectPlace(place)
    \/ \E which \in {"from", "to"} : EndpointTyped(which)
    \/ \E c \in GeoCalls :
          \/ \E which \in {"from", "to"} : EndpointChosen(c, which) \/ PopupAction(c, which)
          \/ \E place \in Spots : MapClick(c, place)
          \/ Recalculate(c) \/ Swap(c)

MapNext ==
    \/ pageState # "hidden" /\ UserActs
    \/ NotLocated \/ Suspends
    \/ \E c \in GeoCalls :
          \/ Located(c) \/ Resumes(c)
          \/ HeadersArrive(c) \/ CallFails(c)
          \/ \E ok \in BOOLEAN : BodyArrives(c, ok)

MapSpec == MapInit /\ [][MapNext]_mapVars

---------------------------------------------------------------------------
(* Properties. *)

Popups == [at : Spots, looking : BOOLEAN, seen : Endpoints]
GeoCall ==
    [kind : {"route"}, at : {NoSpot}, seen : Endpoints, cut : BOOLEAN, reading : BOOLEAN]
    \cup [kind : {"reverse"}, at : Spots, seen : Endpoints, cut : BOOLEAN, reading : BOOLEAN]

\* Type invariant of the page's state.
MapTypeOK ==
    /\ selection \in Spots \cup {NoSpot} /\ popup \in Popups \cup {NoPopup}
    /\ ends \in Endpoints /\ locating \subseteq Endpoints
    /\ calc \in {"none", "pending", "paused", "done", "failed"} /\ routeError \in BOOLEAN
    /\ pausedRoute \in BOOLEAN /\ pageState \in {"offline", "hidden", "shown"}
    /\ current \in GeoCalls \cup {NoCall}
    /\ calls \in [GeoCalls -> GeoCall \cup {FreeCall}]

\* The page never waits in vain: behind a popup that is "Looking up" there is a call in
\* flight that nobody has aborted, and behind a route that is being calculated one that no
\* abort ends silently; or the route is paused, and will be sent once the page is online and
\* shown.
WaitsAreAnswered ==
    /\ popup # NoPopup /\ popup.looking =>
          \E c \in Live("reverse") : calls[c].at = popup.at /\ ~calls[c].cut
    /\ calc = "pending" => current \in Live("route") /\ (calls[current].cut => calls[current].reading)
    /\ calc = "paused" => pausedRoute /\ pageState # "shown"

\* "Abort the request, for example when a newer search replaces it", says the client's
\* signal option: the popup is that of the point selected last, not of an aborted call.
PopupOfSelection == popup # NoPopup /\ selection # NoSpot => popup.at = selection
=============================================================================
