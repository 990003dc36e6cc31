SPECIFICATION Spec
CONSTANTS
    u1 = u1
    u2 = u2
    pda = pda
    protocol = protocol
    vault_account = vault_account
    own_treasury = own_treasury
    other_treasury = other_treasury
    Users = {u1, u2}
    SHARE_PRICE_PRECISION = 5
    VIRTUAL_OFFSET = 4
    MIN_FIRST_DEPOSIT = 5
    BPS_DENOMINATOR = 100
    PERFORMANCE_FEE_BPS = 100
    MgmtFeeRate = 1
    MgmtFeeDivisor = 3
    MaxU64 = 100000
    MaxFeeProduct = 100000
    MIN_REBALANCE_INTERVAL_SLOTS = 1
    EQUITY_SNAPSHOT_INTERVAL = 2
    MAX_SHIFT_BPS = 20
    ORACLE_DIVERGENCE_BPS = 1
    TVL_HALT_THRESHOLD_BPS = 85
    MAX_WEIGHTS = 8
    MAX_PROTOCOLS = 2
    MIN_REDEMPTION_SLOTS = 1
    AllocatorPda = pda
    VaultAccount = vault_account
    TreasuryChoices = {own_treasury}
    AllocatorAccounts = {own_treasury}
    ProtocolOwners = {}
    InitialGuardrails <- LooseGuardrails
    InitialUsdc = 5
    AdminOps = {}
    DepositAmounts = {3, 5}
    ShareAmounts = {2}
    TransferAmounts = {2}
    MoveAmounts = {}
    WeightVectors <- OneWeight
    Snapshots = {0, 1, 2, 3, 4, 5, 6, 7, 8, 9, 10}
    GuardrailChoices = {}
    RedemptionChoices = {}
    CapChoices = {}
    MaxSlot = 2
    MaxPnl = 0
    SlotsPerYear = 7008
SYMMETRY UserSymmetry
INVARIANTS ShareLedgerBalances TvlCoversAssets PendingIsCovered RedemptionsLackOnlyOffset
PROPERTIES NoDilution
