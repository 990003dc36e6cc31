SPECIFICATION Spec
CONSTANTS
    u1 = u1
    u2 = u2
    pda = pda
    protocol = protocol
    vault_account = vault_account
    own_treasury = own_treasury
    other_treasury = other_treasury
    Users = {u1}
    SHARE_PRICE_PRECISION = 5
    VIRTUAL_OFFSET = 2
    MIN_FIRST_DEPOSIT = 5
    BPS_DENOMINATOR = 100
    PERFORMANCE_FEE_BPS = 100
    MgmtFeeRate = 1
    MgmtFeeDivisor = 4
    MaxU64 = 100000
    MaxFeeProduct = 100000
    MIN_REBALANCE_INTERVAL_SLOTS = 1
    EQUITY_SNAPSHOT_INTERVAL = 2
    MAX_SHIFT_BPS = 20
    ORACLE_DIVERGENCE_BPS = 1
    TVL_HALT_THRESHOLD_BPS = 85
    MAX_WEIGHTS = 8
    MAX_PROTOCOLS = 2
    MIN_REDEMPTION_SLOTS = 1
    AllocatorPda = pda
    VaultAccount = vault_account
    TreasuryChoices = {vault_account, own_treasury, other_treasury}
    AllocatorAccounts = {vault_account, own_treasury}
    ProtocolOwners = {pda, protocol}
    InitialGuardrails <- LooseGuardrails
    InitialUsdc = 6
    AdminOps = {"halt", "move_treasury", "whitelist"}
    DepositAmounts = {6}
    ShareAmounts = {2}
    TransferAmounts = {}
    MoveAmounts = {2}
    WeightVectors <- OneWeight
    Snapshots = {0, 1, 2, 3, 4, 5, 6, 7, 8, 9, 10, 11, 12}
    GuardrailChoices = {}
    RedemptionChoices = {}
    CapChoices = {}
    MaxSlot = 2
    MaxPnl = 2
    SlotsPerYear = 7008
  
PROPERTIES HaltFreezesFunds
