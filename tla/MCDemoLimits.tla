---------------------------- MODULE MCDemoLimits ----------------------------
EXTENDS DemoLimits

CONSTANTS geocode, route, v1, v2

MCCostOf == [e \in {geocode, route} |-> IF e = route THEN 2 ELSE 1]
=============================================================================
