\* One account, one plan, two intents; the cron is the only one that must run.
SPECIFICATION FairSpec
CONSTANTS
    Accounts = {u1}
    Plans = {p1}
    NoPlan = NoPlan
    Intents = {i1, i2}
    Attempts = {a1}
    Checkers = {c1}
    Cron = Cron
    PLAN_DURATION = 2
    PendingBatch = 1
    MaxFailures = 1
    MaxTime = 4
    u1 = u1
    p1 = p1
    i1 = i1
    i2 = i2
    a1 = a1
    c1 = c1
CHECK_DEADLOCK FALSE
INVARIANTS TypeOK PaidTimeIsGiven SettledAsDecided
PROPERTIES AccessKept PaidIsGranted
