SPECIFICATION FairSpec
CONSTANTS
    kamino = kamino
    lulo = lulo
    q1 = q1
    q2 = q2
    usdc = usdc
    failureThreshold = 2
    resetTimeoutMs = 1
    Backends = {kamino, lulo}
    Queries = {q1, q2}
    Assets = {usdc}
    supportedAssets <- BothSupport
    InitialBackends <- OneBackend
    Mobile = {lulo}
    Yields <- SomeYields
    minVolatility = 2
    MinYields = {2}
    NoMinYield = none
    none = none
    HasLogger = TRUE
    MaxFailures = 3
INVARIANTS DominanceRespected
PROPERTIES BreakersGateCalls QueriesReturn BreakersRecover
