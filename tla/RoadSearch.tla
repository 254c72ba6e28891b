------------------------------ MODULE RoadSearch ------------------------------
(***************************************************************************)
(* RoadGraph: the usable links and the main component of a travel profile, *)
(* the snap of both ends onto links, the A* search over the graph and the  *)
(* walk back along its predecessors.  Nodes lie on a line, so that lengths *)
(* are integers and the straight-line heuristic is exact.                  *)
(***************************************************************************)
EXTENDS Integers, Sequences, FiniteSets, FiniteSetsExt

CONSTANTS
    Position,      \* [node -> place on the line]
    Ends,          \* [link -> <<u, v>>]
    Kinds,         \* what a link may be: [dir, pace], pace 0 for an excluded class
    SnapLinks,     \* links the origin may lie on
    Offsets,       \* places on a link that a snap may have
    MaxExpansions,
    Inf            \* math.inf: a time no route of the graph takes

VARIABLES
    mode, road,           \* the profile and the kind of every link
    origin, destination,  \* snaps: [link, at], at the distance from u
    gScore, previous, heap, expansions,
    bestTotal, bestGoal,
    status,               \* "idle", "search", "walk", "found", "no_path" or "search_limit"
    spot, walked          \* the walk back: where it is, the time travelled after it

searchVars == <<mode, road, origin, destination, gScore, previous, heap, expansions,
                bestTotal, bestGoal, status, spot, walked>>
question == <<mode, road, origin, destination>>

Nodes == DOMAIN Position
Links == DOMAIN Ends
NoNode == 0    \* previous node "-1": the snap point of the origin
Direct == -1   \* best_goal of a trip along one link
U(l) == Ends[l][1]
V(l) == Ends[l][2]
Span(i, j) == IF i < j THEN j - i ELSE i - j
Length(l) == Span(Position[U(l)], Position[V(l)])

\* Finitely many numbered nodes, links between them, and a time above that of any link.
ASSUME SearchAssumption ==
    /\ Nodes \subseteq Nat \ {0} /\ IsFiniteSet(Nodes) /\ Position \in [Nodes -> Int]
    /\ 0 \notin Links /\ Ends \in [Links -> Nodes \X Nodes] /\ SnapLinks \subseteq Links
    /\ Kinds \subseteq [dir : {"both", "forward", "reverse"}, pace : Nat]
    /\ MaxExpansions \in Nat /\ Inf \in Nat
    /\ \A l \in Links, k \in Kinds : Length(l) * k.pace <= Inf

---------------------------------------------------------------------------
(* Construction of a profile. *)

Usable(l) == road[l].pace > 0
Cost(l) == Length(l) * road[l].pace

\* Union-find over the usable links, direction ignored: the blocks of connected nodes.
Merge(l, blocks) ==
    LET touched == {b \in blocks : b \cap {U(l), V(l)} # {}}
    IN  (blocks \ touched) \cup {UNION touched}

Blocks == FoldSet(Merge, {{n} : n \in Nodes}, {l \in Links : Usable(l)})

LinksIn(b) == Cardinality({l \in Links : Usable(l) /\ U(l) \in b})

IsMain(b) == b \in Blocks /\ \A c \in Blocks : LinksIn(c) <= LinksIn(b)

\* snap(): a point of the nearest usable link of the main component.
IsSnap(s, component) == Usable(s.link) /\ U(s.link) \in component /\ s.at \in 0..Length(s.link)

CanTraverse(l, forward) ==
    \/ mode = "walking"
    \/ road[l].dir = "both"
    \/ road[l].dir = (IF forward THEN "forward" ELSE "reverse")

---------------------------------------------------------------------------
(* The search. *)

Place(s) == Position[U(s.link)] + (IF Position[V(s.link)] >= Position[U(s.link)] THEN s.at ELSE -s.at)

\* Time from u to the snap, and from the snap to v.
FromU(s) == s.at * road[s.link].pace
ToV(s) == Cost(s.link) - FromU(s)

\* Mutant: the heuristic overestimates.
HeuristicSlow(n) == 2 * Span(Position[n], Place(destination))

\* The straight line at the profile's highest speed.
Heuristic(n) == Span(Position[n], Place(destination))

Starts ==
    [n \in Nodes |->
        IF n = U(origin.link) /\ CanTraverse(origin.link, FALSE) THEN FromU(origin)
        ELSE IF n = V(origin.link) /\ CanTraverse(origin.link, TRUE) THEN ToV(origin)
        ELSE Inf]

Goal(n) ==
    IF n = U(destination.link) /\ CanTraverse(destination.link, TRUE) THEN FromU(destination)
    ELSE IF n = V(destination.link) /\ CanTraverse(destination.link, FALSE) THEN ToV(destination)
    ELSE Inf

IsDirect ==
    /\ origin.link = destination.link
    /\ CanTraverse(origin.link, destination.at >= origin.at)

Entry(n, g) == <<g + Heuristic(n), g, n>>

NoSnap == [link |-> 0, at |-> 0]

SearchInit ==
    /\ mode = "walking" /\ road = [l \in Links |-> CHOOSE k \in Kinds : TRUE]
    /\ origin = NoSnap /\ destination = NoSnap
    /\ gScore = [n \in Nodes |-> Inf] /\ previous = [n \in Nodes |-> NoNode]
    /\ heap = {} /\ expansions = 0 /\ bestTotal = Inf /\ bestGoal = NoNode
    /\ status = "idle" /\ spot = NoNode /\ walked = 0

\* A request: both ends snapped onto the main component of its mode.  The search starts
\* at the nodes the origin's link leads to.
Begin ==
    /\ status = "idle" /\ status' = "search"
    /\ mode' \in {"driving", "walking"}
    /\ road' \in [Links -> Kinds]
    /\ \E component \in {b \in Blocks' : IsMain(b)'} :
          /\ origin' \in {s \in [link : SnapLinks, at : Offsets] : IsSnap(s, component)'}
          /\ destination' \in {s \in [link : Links, at : Offsets] : IsSnap(s, component)'}
    /\ gScore' = Starts'
    /\ heap' = {Entry(n, Starts[n])' : n \in {m \in Nodes : Starts[m]' < Inf}}
    /\ bestTotal' = IF IsDirect' THEN Span(FromU(origin), FromU(destination))' ELSE Inf
    /\ bestGoal' = IF IsDirect' THEN Direct ELSE NoNode
    /\ UNCHANGED <<previous, expansions, spot, walked>>

\* heapq compares (f, g, node).
Before(a, b) ==
    \/ a[1] < b[1]
    \/ a[1] = b[1] /\ (a[2] < b[2] \/ (a[2] = b[2] /\ a[3] <= b[3]))

IsTop(e) == e \in heap /\ \A o \in heap : Before(e, o)

\* The arcs out of a node: the links at either end that may be travelled that way.
Leads(l, n, m) ==
    /\ Usable(l)
    /\ \/ n = U(l) /\ m = V(l) /\ CanTraverse(l, TRUE)
       \/ n = V(l) /\ m = U(l) /\ CanTraverse(l, FALSE)

ArcCost(n, m) == Min({Inf} \cup {Cost(l) : l \in {k \in Links : Leads(k, n, m)}})

Discard(e) ==
    /\ status = "search" /\ IsTop(e) /\ e[2] > gScore[e[3]]
    /\ heap' = heap \ {e}
    /\ UNCHANGED <<question, gScore, previous, expansions, bestTotal, bestGoal, status, spot, walked>>

\* Relaxing the arcs one after the other leaves the cheapest arc to each neighbour.
Expand(e) ==
    LET n == e[3]
        better == {m \in Nodes : e[2] + ArcCost(n, m) < gScore[m]}
    IN  /\ status = "search" /\ IsTop(e) /\ e[2] <= gScore[n] /\ e[1] < bestTotal
        /\ IF e[2] + Goal(n) < bestTotal
           THEN bestTotal' = e[2] + Goal(n) /\ bestGoal' = n
           ELSE UNCHANGED <<bestTotal, bestGoal>>
        /\ expansions' = expansions + 1
        /\ IF expansions + 1 > MaxExpansions
           THEN status' = "search_limit" /\ UNCHANGED <<gScore, previous, heap>>
           ELSE /\ gScore' = [m \in Nodes |-> IF m \in better THEN e[2] + ArcCost(n, m) ELSE gScore[m]]
                /\ previous' = [m \in Nodes |-> IF m \in better THEN n ELSE previous[m]]
                /\ heap' = (heap \ {e}) \cup {Entry(m, e[2] + ArcCost(n, m)) : m \in better}
                /\ UNCHANGED status
        /\ UNCHANGED <<question, spot, walked>>

\* The heap is empty, or nothing in it can beat the best route.
Stop ==
    /\ status = "search"
    /\ \A e \in heap : IsTop(e) => e[2] <= gScore[e[3]] /\ e[1] >= bestTotal
    /\ status' = IF bestGoal = NoNode THEN "no_path" ELSE IF bestGoal = Direct THEN "found" ELSE "walk"
    /\ spot' = bestGoal
    /\ walked' = IF bestGoal \in Nodes THEN Goal(bestGoal) ELSE bestTotal
    /\ UNCHANGED <<question, gScore, previous, heap, expansions, bestTotal, bestGoal>>

\* One predecessor of the route; the first node adds the way from the origin's snap.
Walk ==
    /\ status = "walk"
    /\ spot' = previous[spot]
    /\ IF previous[spot] = NoNode
       THEN walked' = walked + Starts[spot] /\ status' = "found"
       ELSE walked' = walked + ArcCost(previous[spot], spot) /\ UNCHANGED status
    /\ UNCHANGED <<question, gScore, previous, heap, expansions, bestTotal, bestGoal>>

SearchNext == Begin \/ (\E e \in heap : Discard(e) \/ Expand(e)) \/ Stop \/ Walk

SearchSpec == SearchInit /\ [][SearchNext]_searchVars /\ WF_searchVars(SearchNext)

---------------------------------------------------------------------------
(* Properties. *)

SearchTypeOK ==
    /\ {origin.link, destination.link} \subseteq Links \cup {0}
    /\ gScore \in [Nodes -> 0..Inf] /\ previous \in [Nodes -> Nodes \cup {NoNode}]
    /\ heap \subseteq Nat \X (0..Inf) \X Nodes
    /\ expansions \in 0..MaxExpansions + 1 /\ bestTotal \in 0..Inf
    /\ bestGoal \in Nodes \cup {NoNode, Direct} /\ walked \in 0..Inf

\* The reference: every way along distinct nodes.
Trails ==
    UNION {{p \in [1..n -> Nodes] : \A i, j \in 1..n : i # j => p[i] # p[j]} : n \in 1..Cardinality(Nodes)}

\* When a traveller who starts at the origin is at each node of the trail.
TimesAlong(p) ==
    LET time[i \in 1..Len(p)] == IF i = 1 THEN Starts[p[1]] ELSE time[i - 1] + ArcCost(p[i - 1], p[i])
    IN  time

TrailTime(p) == TimesAlong(p)[Len(p)] + Goal(p[Len(p)])

Optimum ==
    Min({TrailTime(p) : p \in Trails}
        \cup {IF IsDirect THEN Span(FromU(origin), FromU(destination)) ELSE Inf})

\* The search returns the fastest route, reports that there is none only if there is
\* none, and the route it walks back takes the time it reports.
RouteIsFastest ==
    /\ status = "found" => bestTotal = Optimum /\ walked = bestTotal
    /\ status = "no_path" => Optimum >= Inf
=============================================================================
