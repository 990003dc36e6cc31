SPECIFICATION Spec
CONSTANTS
    u1 = u1
    u2 = u2
    pda = pda
    protocol = protocol
    vault_account = vault_account
    own_treasury = own_treasury
    other_treasury = other_treasury
    Users = {u1}
    SHARE_PRICE_PRECISION = 100
    VIRTUAL_OFFSET = 1
    MIN_FIRST_DEPOSIT = 1
    BPS_DENOMINATOR = 100
    PERFORMANCE_FEE_BPS = 10
    MgmtFeeRate = 1
    MgmtFeeDivisor = 20
    MaxU64 = 1000000
    MaxFeeProduct = 100000
    MIN_REBALANCE_INTERVAL_SLOTS = 1
    EQUITY_SNAPSHOT_INTERVAL = 2
    MAX_SHIFT_BPS = 20
    ORACLE_DIVERGENCE_BPS = 1
    TVL_HALT_THRESHOLD_BPS = 85
    MAX_WEIGHTS = 8
    MAX_PROTOCOLS = 2
    MIN_REDEMPTION_SLOTS = 1
    AllocatorPda = pda
    VaultAccount = vault_account
    TreasuryChoices = {own_treasury}
    AllocatorAccounts = {own_treasury}
    ProtocolOwners = {}
    InitialGuardrails <- LooseGuardrails
    InitialUsdc = 99
    AdminOps = {"close_record"}
    DepositAmounts = {66}
    ShareAmounts = {33}
    TransferAmounts = {}
    MoveAmounts = {}
    WeightVectors <- SomeWeights
    Snapshots = {0, 33, 56, 61, 62, 63, 66, 20000}
    GuardrailChoices <- Tightenings
    RedemptionChoices = {}
    CapChoices = {}
    MaxSlot = 3
    MaxPnl = 0
    SlotsPerYear = 7008
INVARIANTS AuditTrail PeakDominates AutoHaltShadowed HelpersErrOneWay
