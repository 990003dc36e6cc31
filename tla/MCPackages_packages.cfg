SPECIFICATION PackagesSpec
CONSTANTS
    k1 = k1
    k2 = k2
    k3 = k3
    v1 = v1
    v2 = v2
    q1 = q1
    ttlMs = 1
    staleMs = 2
    maxSize = 2
    Keys = {k1, k2, k3}
    Values = {v1, v2}
    MaxNow = 4
    retries = 3
    baseDelay = 1
    timeout = 3
    Statuses <- MCStatuses
    Queries = {q1}
    MaxFetch = 1
    MaxTime = 7
    CACHE_TTL_MS = 2
    MaxClients = 3
    MaxInstant = 5
    Markets <- MCMarkets
    Deposits = {0, 1, 2, 5}
    MaxDeposited = 10
    DAYS_PER_YEAR = 3
    marginfiApyMultiplier = 2
    luloApyMultiplier = 1
    Hours <- MCHours
    DailyRates <- MCDailyRates
    MaxEntries = 4
    MaxDays = 3
    CurveValues = {1, 2, 3, 4, 5}
    MaxCurve = 4
INVARIANTS
    CacheServesLastWrites WithinBudget
    ServedAge PairSkew ServedByRecentClient DoubleNeverAhead
    NeverBelowWorst CompoundsOncePerDay DrawdownIsLargestFall
PROPERTIES
    Settles ReadingsAdvance TighterMarketsScoreWorse
CHECK_DEADLOCK FALSE
