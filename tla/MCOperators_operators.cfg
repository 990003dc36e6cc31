SPECIFICATION FairOperatorSpec
CONSTANTS
    Levels = {0, 1}
    Toolboxes <- MCToolboxes
    OldWeights = {0, 8}
    MaxFaults = 2
    MaxOrphans = 4
    Crews <- MCCrews
    Cap = 2
    OtherHoldings = {1}
    Mishaps = 2
    k1 = k1
    k2 = k2
    k3 = k3
    Keepers = {k1, k2, k3}
    NoKeeper = NoKeeper
    LEASE_DURATION_SLOTS = 5
INVARIANTS
    CompleteMeansDone OrphansComeFromFaults
    GateVerdictHonest WithdrawalsSettle PhaseBRestores
    OldLeaseRunsOut
PROPERTIES
    SetupConverges GateHaltEnds
    LeaseIsMutex RotationCompletes
CHECK_DEADLOCK FALSE
