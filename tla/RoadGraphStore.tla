---------------------------- MODULE RoadGraphStore ----------------------------
(***************************************************************************)
(* The road network provider's graph: loaded by the first request, built   *)
(* again in the background when it is stale, from a count and a keyset     *)
(* pagination over a road layer that is edited meanwhile.  The lock is     *)
(* first come, first served: `loaders`, its holder first.                  *)
(***************************************************************************)
EXTENDS Integers, Sequences, SequencesExt

CONSTANTS
    Requests,     \* requests that may be in flight together
    Deadlined,    \* those of the demo, which a deadline ends
    MaxOid,       \* bound: rows ever added to the layer
    PageSize,     \* maxRecordCount of the layer
    MaxFeatures,  \* ROUTING_MAX_FEATURES
    GraphTtl,     \* graph_ttl_s, in ticks of the model
    Pageable      \* whether the layer honours resultRecordCount

ASSUME StoreAssumption ==
    /\ MaxOid \in Nat /\ PageSize \in Nat \ {0} /\ MaxFeatures \in Nat \ {0} /\ GraphTtl \in Nat \ {0}
    /\ Pageable \in BOOLEAN /\ Deadlined \subseteq Requests

VARIABLES
    layer, added,  \* OBJECTIDs in the layer, and the highest one ever given
    online,        \* whether the layer answers
    graph, age,    \* whether there is a _graph, and the time since _built_at
    loaders,       \* who holds and who awaits _lock: requests and Refresh
    loadStep,      \* what the holder does: "locked", "count", "page" or "build"
    rows, lastOid, \* query_all: features and last_oid
    using,         \* where each request is
    counted, mark, \* history: the layer when it was counted, and `added` then
    always         \* history: the rows of `counted` that were not deleted since

layerVars == <<layer, added, online>>
loadVars == <<rows, lastOid, counted, mark, always>>
storeVars == <<layerVars, loadVars, graph, age, loaders, loadStep, using>>

Refresh == "refresh"   \* _refresh_task
Free == "free"         \* no request
Waits == "waits"       \* inside _get_graph
Searches == "searches" \* _route_sync, on a graph that no rebuild changes
NoOid == 0

ASSUME RefreshAssumption == Refresh \notin Requests

StoreInit ==
    /\ layer = {} /\ added = 0 /\ online = TRUE
    /\ graph = FALSE /\ age = 0
    /\ loaders = <<>> /\ loadStep = "locked"
    /\ rows = {} /\ lastOid = NoOid /\ counted = {} /\ mark = 0 /\ always = {}
    /\ using = [r \in Requests |-> Free]

---------------------------------------------------------------------------
(* The layer: a new row has the highest OBJECTID so far. *)

AddRow ==
    /\ added < MaxOid
    /\ added' = added + 1 /\ layer' = layer \cup {added + 1}
    /\ UNCHANGED <<online, graph, age, loaders, loadStep, loadVars, using>>

DeleteRow(oid) ==
    /\ oid \in layer
    /\ layer' = layer \ {oid} /\ always' = always \ {oid}
    /\ UNCHANGED <<added, online, graph, age, loaders, loadStep, rows, lastOid, counted, mark, using>>

LayerOutage ==
    /\ online' = ~online
    /\ UNCHANGED <<layer, added, graph, age, loaders, loadStep, loadVars, using>>

---------------------------------------------------------------------------
(* Requests and the lock. *)

Loaders == Requests \cup {Refresh}
Waiting(w) == \E i \in DOMAIN loaders : loaders[i] = w

\* The lock passes on, and what its holder had loaded is forgotten.
PassOn ==
    /\ loaders' = Tail(loaders) /\ loadStep' = "locked"
    /\ rows' = {} /\ lastOid' = NoOid /\ counted' = {} /\ mark' = 0 /\ always' = {}

StaleGraph == age > GraphTtl

\* Mutant: a graph that is used is never built again.
GetGraphServes(r) ==
    /\ using[r] = Free
    /\ IF ~graph
       THEN loaders' = Append(loaders, r) /\ using' = [using EXCEPT ![r] = Waits]
       ELSE using' = [using EXCEPT ![r] = Searches] /\ UNCHANGED loaders
    /\ UNCHANGED <<layerVars, loadVars, graph, age, loadStep>>

\* _get_graph(): a graph is used at once, however old; a stale one starts the refresh.
GetGraph(r) ==
    /\ using[r] = Free
    /\ IF ~graph
       THEN loaders' = Append(loaders, r) /\ using' = [using EXCEPT ![r] = Waits]
       ELSE /\ using' = [using EXCEPT ![r] = Searches]
            /\ loaders' = IF StaleGraph /\ ~Waiting(Refresh) THEN Append(loaders, Refresh) ELSE loaders
    /\ UNCHANGED <<layerVars, loadVars, graph, age, loadStep>>

GotLock ==
    /\ loaders # <<>> /\ loadStep = "locked"
    /\ IF Head(loaders) # Refresh /\ graph
       THEN PassOn /\ using' = [using EXCEPT ![Head(loaders)] = Searches]
       ELSE loadStep' = "count" /\ UNCHANGED <<loaders, loadVars, using>>
    /\ UNCHANGED <<layerVars, graph, age>>

\* A request whose rebuild fails ends with the error; a refresh that fails is logged.
FailLoad ==
    /\ PassOn
    /\ using' = [w \in Requests |-> IF w = Head(loaders) THEN Free ELSE using[w]]
    /\ UNCHANGED <<layerVars, graph, age>>

CountRows ==
    /\ loadStep = "count" /\ online
    /\ IF Cardinality(layer) > MaxFeatures
       THEN FailLoad
       ELSE /\ loadStep' = "page" /\ counted' = layer /\ mark' = added /\ always' = layer
            /\ UNCHANGED <<layerVars, graph, age, loaders, rows, lastOid, using>>

LoadFails == loadStep \in {"count", "page"} /\ ~online /\ FailLoad

---------------------------------------------------------------------------
(* query_all(): one page after the other. *)

Cap == MaxFeatures
Lesser(m, n) == IF m < n THEN m ELSE n

\* resultRecordCount is sent only to a layer that supports pagination.
Asked == IF Pageable THEN Lesser(PageSize, Cap - Cardinality(rows)) ELSE PageSize

\* Mutant: goes on one row too late.
PageSkipping(size) ==
    {oid \in layer : oid > lastOid + 1 /\ Cardinality({o \in layer : lastOid < o /\ o <= oid}) <= size}

\* The first rows after last_oid, ordered by OBJECTID.
Page(size) ==
    {oid \in layer : oid > lastOid /\ Cardinality({o \in layer : lastOid < o /\ o <= oid}) <= size}

HasMore(page) == \E oid \in layer : oid > lastOid /\ oid \notin page

\* A layer may stop short of the size it was asked for, which exceededTransferLimit
\* tells, and may leave that out when the page is full.
PageAnswers ==
    {[page |-> Page(size), exceeded |-> HasMore(Page(size))] : size \in 1..Asked}
        \cup (IF Asked = PageSize THEN {[page |-> Page(PageSize), exceeded |-> FALSE]} ELSE {})

\* query_all goes on after the last OBJECTID of the page, which the layer orders, until
\* a page is empty, or the last by its length and flag, or the limit is reached.
FetchPage ==
    /\ loadStep = "page" /\ online
    /\ \E a \in PageAnswers :
          LET all == rows \cup a.page IN
          /\ rows' = {oid \in all : Cardinality({o \in all : o <= oid}) <= Cap}
          /\ lastOid' = IF a.page = {} THEN lastOid ELSE Max(a.page)
          /\ loadStep' = IF \/ a.page = {}
                            \/ ~a.exceeded /\ Cardinality(a.page) < PageSize
                            \/ Cardinality(all) >= Cap
                         THEN "build" ELSE "page"
    /\ UNCHANGED <<layerVars, graph, age, loaders, counted, mark, always, using>>

\* RoadGraph.build in a thread; the new graph replaces the old one.
BuildGraph ==
    /\ loadStep = "build"
    /\ graph' = TRUE
    /\ age' = 0
    /\ using' = [w \in Requests |-> IF w = Head(loaders) THEN Searches ELSE using[w]]
    /\ PassOn
    /\ UNCHANGED layerVars

\* The search on the graph the request got is over.
AnswerRoute(r) ==
    /\ using[r] = Searches
    /\ using' = [using EXCEPT ![r] = Free]
    /\ UNCHANGED <<layerVars, loadVars, graph, age, loaders, loadStep>>

\* The deadline of the demo ends a request wherever it is, with the lock or without.
CancelRoute(r) ==
    /\ r \in Deadlined /\ using[r] # Free
    /\ using' = [using EXCEPT ![r] = Free]
    /\ \/ ~Waiting(r) /\ UNCHANGED <<loaders, loadStep, loadVars>>
       \/ \E i \in DOMAIN loaders :
             /\ loaders[i] = r
             /\ IF i = 1 THEN PassOn
                ELSE loaders' = RemoveAt(loaders, i) /\ UNCHANGED <<loadStep, loadVars>>
    /\ UNCHANGED <<layerVars, graph, age>>

Grow ==
    /\ graph /\ age <= GraphTtl
    /\ age' = age + 1
    /\ UNCHANGED <<layerVars, loadVars, graph, loaders, loadStep, using>>

Load == GotLock \/ CountRows \/ LoadFails \/ FetchPage \/ BuildGraph

StoreNext ==
    \/ AddRow \/ (\E oid \in layer : DeleteRow(oid)) \/ LayerOutage \/ Grow \/ Load
    \/ \E r \in Requests : GetGraph(r) \/ AnswerRoute(r) \/ CancelRoute(r)

\* The holder of the lock goes on, requests are answered, time passes.
StoreFairness ==
    /\ WF_storeVars(Load) /\ WF_storeVars(Grow)
    /\ \A r \in Requests : WF_storeVars(AnswerRoute(r))

StoreSpec == StoreInit /\ [][StoreNext]_storeVars /\ StoreFairness

---------------------------------------------------------------------------
(* Properties. *)

StoreTypeOK ==
    /\ layer \subseteq 1..added /\ added \in 0..MaxOid /\ online \in BOOLEAN /\ graph \in BOOLEAN
    /\ age \in 0..GraphTtl + 1
    /\ loaders \in Seq(Loaders) /\ IsInjective(loaders)
    /\ loadStep \in {"locked", "count", "page", "build"} /\ (loadStep # "locked" => loaders # <<>>)
    /\ rows \subseteq 1..added /\ Cardinality(rows) <= MaxFeatures
    /\ using \in [Requests -> {Free, Waits, Searches}]
    /\ \A r \in Requests : using[r] = Waits <=> Waiting(r)

\* The graph is built from every road that was in the layer all through the load, and
\* from none that was never there, whatever is added and deleted between the pages,
\* also when the layer outgrows the limit after it was counted.
RoadsAreKept == loadStep = "build" => always \subseteq rows /\ rows \subseteq counted \cup (mark + 1)..added

\* Once the layer answers for good and is small enough, the graph does not stay stale, as
\* long as requests come that no deadline ends.
GraphIsRenewed ==
    /\ <>[](online /\ Cardinality(layer) <= MaxFeatures)
    /\ []<>(\E r \in Requests \ Deadlined : using[r] # Free)
    => []<>(graph /\ ~StaleGraph)
=============================================================================
