SPECIFICATION AdaptorSpec
CONSTANTS
    ranger = ranger
    user = user
    vault_account = vault_account
    own_treasury = own_treasury
    Users = {ranger, user}
    SHARE_PRICE_PRECISION = 5
    VIRTUAL_OFFSET = 2
    MIN_FIRST_DEPOSIT = 4
    BPS_DENOMINATOR = 100
    PERFORMANCE_FEE_BPS = 100
    MgmtFeeRate = 1
    MgmtFeeDivisor = 4
    MaxU64 = 100000
    MaxFeeProduct = 100000
    MIN_REBALANCE_INTERVAL_SLOTS = 1
    EQUITY_SNAPSHOT_INTERVAL = 2
    MAX_SHIFT_BPS = 20
    ORACLE_DIVERGENCE_BPS = 1
    TVL_HALT_THRESHOLD_BPS = 85
    MAX_WEIGHTS = 8
    MAX_PROTOCOLS = 2
    MIN_REDEMPTION_SLOTS = 1
    AllocatorPda = ranger
    VaultAccount = vault_account
    TreasuryChoices = {own_treasury}
    AllocatorAccounts = {own_treasury}
    ProtocolOwners = {}
    InitialGuardrails <- RangerGuardrails
    InitialUsdc = 4
    AdminOps = {"halt"}
    DepositAmounts = {4}
    ShareAmounts = {2}
    TransferAmounts = {2}
    MoveAmounts = {}
    WeightVectors <- OneWeight
    Snapshots = {0, 1, 2, 3, 4, 5, 6, 7, 8}
    GuardrailChoices = {}
    RedemptionChoices = {1}
    CapChoices = {4}
    MaxSlot = 2
    MaxPnl = 0
    Ranger = ranger
    StrategyAmounts = {4}
INVARIANTS TokensBackPosition
PROPERTIES RedeemsAtPrice
