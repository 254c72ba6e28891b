\* The components that must get somewhere, under their fairness.
SPECIFICATION ServicesLiveSpec
CONSTANTS
  process = process  keyOfUsage = k1
  costlyDemo = p  cheapDemo = u
  Focuses = {"client", "roads", "deploy", "billing", "signin", "usage"}
  Tasks = {a, b}
  Cancellable = {a}
  FailureThreshold = 1
  RecoveryTime = 1
  MaxRetries = 0
  MaxConcurrency = 2
  Lifetimes = {1}
  FailureBackoff = 1
  Position <- Line
  Ends <- Streets
  Kinds <- Roads
  SnapLinks = {1}
  Offsets = {0, 2, 4}
  MaxExpansions = 3
  Inf = 1000
  Requests = {a, b}
  Deadlined = {a}
  MaxOid = 4
  PageSize = 2
  MaxFeatures = 3
  GraphTtl = 1
  Pageable = TRUE
  Calls = {a, b}
  FailureLimit = 1
  SiteLimit = 1
  KeyTtl = 1
  DemoSlots = 1
  ReadyCache = 1
  MaxCommits = 2
  Workflows = {a}
  Visitors = {a, b}
  DemoEndpoints = {p, u}
  CostOf <- DemoCosts
  MinuteLimit = 2
  HourLimit = 3
  GlobalMinuteLimit = 3
  HourLength = 4
  RateRetention = 1
  BATCH = 3
  MaxDemoRequests = 3
  MaxDemoTime = 3
  SiteKeys = {k1, k2}
  FirstKey = k1
  SessionIds = {s1, s2}
  MaxPasswords = 3
  MaxCodes = 1
  Spots = {p}
  GeoCalls = {x, y}
  SearchTexts = {u, v}
  TooShort = p
  MaxSends = 3
  MaxSecrets = 3
  MaxPayments = 2
  AuthMax = 2
  DashboardKeys = {k1, k2}
  Unlimited = x
  ExpiresAt <- Expiries
  Ranges = {1, 2}
  LongRange = 2
  MonthDays = 2
  LogPage = 1
  MaxDay = 2
  MaxRows = 2
  ChartDays = 3
  NoColumn = x
  MinText = 2
  MaxText = 3
  DemoMaxText = 4
  MaxLimit = 2
  LongestText = 5
PROPERTIES BreakerRecovers GraphIsRenewed DeploymentConverges PaidIsShown RedirectsEnd EventuallyStored
CHECK_DEADLOCK FALSE
