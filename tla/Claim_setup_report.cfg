SPECIFICATION OperatorSpec
CONSTANTS
    Levels = {0, 1}
    Toolboxes <- MCToolboxes
    OldWeights = {0, 8}
    MaxFaults = 1
    MaxOrphans = 4
    Crews <- MCCrews
    Cap = 2
    OtherHoldings = {1}
    Mishaps = 0
    k1 = k1
    k2 = k2
    k3 = k3
    Keepers = {k1, k2, k3}
    NoKeeper = NoKeeper
    LEASE_DURATION_SLOTS = 5
INVARIANTS FallbackFindsTreasury
CHECK_DEADLOCK FALSE
