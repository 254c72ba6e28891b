----------------------------- MODULE MCGateway -----------------------------
(* One customer with two keys, one of them limited to one endpoint and       *)
(* expiring, beside the website's key with two visitors.                     *)
EXTENDS Gateway, TLC

CONSTANTS u1, k1, k2, site, geocode, starter, pro, v1, v2

MCOwnerOf == [k \in {k1, k2} |-> u1]
MCEndpointsOf == [k \in {k1, k2, site} |-> IF k = k2 THEN {Route} ELSE {geocode, Route}]
MCKeyExpiry == [k \in {k1, k2, site} |-> IF k = k2 THEN 2 ELSE Never]
MCMonthlyRequests == [p \in {starter, pro} |-> IF p = starter THEN 1 ELSE 2]
MCRequestsPerMinute == [p \in {starter, pro} |-> 2]
MCConfiguredQuota == [q \in QuotaKinds \X Periods |-> IF q = <<"key", Day>> THEN 2 ELSE 3]

Symmetry == Permutations({v1, v2})
=============================================================================
