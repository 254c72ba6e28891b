\* Free tier, plans, quotas and pruning for one account with two keys, beside the site key.
SPECIFICATION Spec
CONSTANTS
  u1 = u1  k1 = k1  k2 = k2  site = site  v1 = v1  v2 = v2  geocode = geocode  Route = route
  starter = starter  pro = pro  NoPlan = NoPlan  Never = Never
  SystemUser = system
  Users = {u1}
  Keys = {k1, k2}
  SiteKeys = {site}
  OwnerOf <- MCOwnerOf
  EndpointsOf <- MCEndpointsOf
  KeyExpiry <- MCKeyExpiry
  Endpoints = {geocode, route}
  Visitors = {v1, v2}
  Plans = {starter, pro}
  MonthlyRequests <- MCMonthlyRequests
  RequestsPerMinute <- MCRequestsPerMinute
  FREE_TOTAL_REQUESTS = 2
  FREE_RATE_LIMIT_PER_MINUTE = 1
  RouteLimit = 1
  GlobalLimit = 4
  PerIpLimit = 2
  SiteKeyLimit = 2
  ConfiguredQuota <- MCConfiguredQuota
  PLAN_DURATION = 1
  DayLength = 1
  MonthLength = 2
  RateRetention = 0
  QuotaRetention = 2
  BATCH = 20
  MaxTime = 3
  MaxRequests = 3
  Lockable = {u1}
  Revocable = {k2}
INVARIANTS TypeOK FreeAllowance AllowanceShownIsUsable LedgerAgrees VisitorCeiling
PROPERTIES AccountCeiling MonthlyAllowance
CHECK_DEADLOCK FALSE
SYMMETRY Symmetry
