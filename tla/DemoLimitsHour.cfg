\* The documented hourly limit, with the code's retention shorter than an hour.
SPECIFICATION DemoSpec
CONSTANTS
  geocode = geocode  route = route  v1 = v1  v2 = v2
  Visitors = {v1, v2}
  DemoEndpoints = {geocode, route}
  CostOf <- MCCostOf
  MinuteLimit = 2
  HourLimit = 3
  GlobalMinuteLimit = 3
  HourLength = 4
  RateRetention = 1
  BATCH = 3
  MaxDemoRequests = 4
  MaxDemoTime = 4
INVARIANTS HourCeiling
CHECK_DEADLOCK FALSE
