----------------------------- MODULE Allocator -----------------------------
(***************************************************************************)
(* The allocator program (programs/allocator): one risk vault, its users'  *)
(* positions, the treasury, the protocol accounts and the token accounts   *)
(* they move USDC and shares between.  Each action is one instruction; an  *)
(* instruction that returns an error changes nothing, so an error path is  *)
(* a guard that does not hold.  Signers are the right ones: which keeper   *)
(* signs is the subject of KeeperLease.                                    *)
(*                                                                         *)
(* Not represented: fields the program writes and never reads              *)
(* (current_equity, deposited_usdc, entry_slot, versions, bumps, the       *)
(* lending and leverage caps), events, rent, and the instructions that     *)
(* only the `devnet' feature enables (they return an error by default).    *)
(***************************************************************************)
EXTENDS ShareMath, Sequences, FiniteSets, Functions

CONSTANTS
    Users,
    MIN_FIRST_DEPOSIT, MIN_REBALANCE_INTERVAL_SLOTS, EQUITY_SNAPSHOT_INTERVAL,
    MAX_SHIFT_BPS, ORACLE_DIVERGENCE_BPS, TVL_HALT_THRESHOLD_BPS,
    MAX_WEIGHTS, MAX_PROTOCOLS, MIN_REDEMPTION_SLOTS,
    AllocatorPda,           \* the owner whose token accounts can be recalled
    VaultAccount,           \* the USDC account passed as vault_usdc
    TreasuryChoices,        \* USDC accounts the admin configures as treasury's
    AllocatorAccounts,      \* those of them that the allocator PDA owns
    ProtocolOwners,         \* owners of token accounts funds are allocated to
    InitialGuardrails,      \* arguments of initialize_risk_vault
    InitialUsdc,            \* USDC each user starts with
    AdminOps,               \* the optional instructions this admin uses
    DepositAmounts, ShareAmounts, TransferAmounts, MoveAmounts, \* arguments
    WeightVectors, Snapshots, GuardrailChoices, RedemptionChoices, CapChoices,
    MaxSlot, MaxPnl         \* bounds on time and on protocol profit and loss

VARIABLES
    halted, total_tvl, protocol_whitelist,  \* account Allocator
    vault,                                  \* account RiskVault
    position,                               \* accounts UserPosition
    treasury,                               \* account Treasury
    rebalance_record,                       \* RebalanceRecord PDAs, by counter
    user_usdc, user_shares,                 \* token accounts of the users
    treasury_account,                       \* its usdc_token_account
    vault_usdc,                             \* balance of VaultAccount
    treasury_usdc,                          \* balances of the other choices
    vault_fees,                             \* history: fees in VaultAccount
    protocol_usdc,                          \* protocol account, recallable
    external_usdc,                          \* protocol accounts owned elsewhere
    protocol_pnl,                           \* history: what protocols earned
    slot

allocatorVars == <<halted, total_tvl, protocol_whitelist>>
userTokens    == <<user_usdc, user_shares>>
treasuryVars  == <<treasury, treasury_account, treasury_usdc, vault_fees>>
protocolVars  == <<protocol_usdc, external_usdc, protocol_pnl>>
vars == <<halted, total_tvl, protocol_whitelist, vault, position, treasury,
          rebalance_record, user_usdc, user_shares, treasury_account, vault_usdc,
          treasury_usdc, vault_fees, protocol_usdc, external_usdc, protocol_pnl, slot>>

Guardrails == [max_perp_allocation_bps : Nat, max_single_asset_bps : Nat,
               max_drawdown_bps : Nat, redemption_period_slots : Nat]

ASSUME AllocatorAssumption ==
    /\ IsFiniteSet(Users)
    /\ IsFiniteSet(TreasuryChoices) /\ TreasuryChoices # {}
    /\ MIN_FIRST_DEPOSIT \in Nat /\ MIN_REBALANCE_INTERVAL_SLOTS \in Nat
    /\ EQUITY_SNAPSHOT_INTERVAL \in Nat /\ MAX_SHIFT_BPS \in Nat
    /\ ORACLE_DIVERGENCE_BPS \in Nat /\ TVL_HALT_THRESHOLD_BPS \in Nat
    /\ MAX_WEIGHTS \in Nat /\ MAX_PROTOCOLS \in Nat /\ MIN_REDEMPTION_SLOTS \in Nat
    /\ InitialGuardrails \in Guardrails
    /\ InitialUsdc \in Nat /\ MaxSlot \in Nat /\ MaxPnl \in Nat
    /\ AdminOps \subseteq {"halt", "move_treasury", "whitelist", "close_record"}
    /\ DepositAmounts \subseteq Nat /\ ShareAmounts \subseteq Nat
    /\ TransferAmounts \subseteq Nat
    /\ MoveAmounts \subseteq Nat /\ Snapshots \subseteq Nat
    /\ WeightVectors \subseteq Seq(Nat)
    /\ GuardrailChoices \subseteq Guardrails
    /\ RedemptionChoices \subseteq Nat /\ CapChoices \subseteq Nat

(* The treasury accounts that are not the vault's. *)
OwnTreasuries == TreasuryChoices \ {VaultAccount}

RiskVault ==
    [total_shares : Nat, total_assets : Nat, peak_equity : Nat,
     equity_24h_ago : Nat, last_rebalance_slot : Nat, rebalance_counter : Nat,
     last_mgmt_fee_slot : Nat, current_weights : Seq(Nat),
     guardrails : Guardrails, deposit_cap : Nat, max_single_deposit : Nat]

UserPosition ==
    [open : BOOLEAN, shares : Nat, high_water_mark_price : Nat,
     pending_withdrawal_shares : Nat, withdraw_request_slot : Nat,
     request_time_share_price : Nat]

NoPosition ==
    [open |-> FALSE, shares |-> 0, high_water_mark_price |-> 0,
     pending_withdrawal_shares |-> 0, withdraw_request_slot |-> 0,
     request_time_share_price |-> 0]

RebalanceRecord ==
    [previous_weights : Seq(Nat), new_weights : Seq(Nat), slot : Nat,
     approved : BOOLEAN]

(* What `init' leaves in a record account that the handler does not fill. *)
BlankRecord ==
    [previous_weights |-> <<>>, new_weights |-> <<>>, slot |-> 0, approved |-> FALSE]

Init ==
    /\ halted = FALSE /\ total_tvl = 0 /\ protocol_whitelist = {}
    /\ vault = [total_shares |-> 0, total_assets |-> 0, peak_equity |-> 0,
                equity_24h_ago |-> 0, last_rebalance_slot |-> 0,
                rebalance_counter |-> 0, last_mgmt_fee_slot |-> 0,
                current_weights |-> <<>>, guardrails |-> InitialGuardrails,
                deposit_cap |-> 0, max_single_deposit |-> 0]
    /\ position = [u \in Users |-> NoPosition]
    /\ treasury = [total_fees_collected |-> 0, total_fees_withdrawn |-> 0]
    /\ rebalance_record = [n \in {} |-> BlankRecord]
    /\ user_usdc = [u \in Users |-> InitialUsdc]
    /\ user_shares = [u \in Users |-> 0]
    /\ treasury_account \in TreasuryChoices
    /\ vault_usdc = 0 /\ treasury_usdc = [a \in OwnTreasuries |-> 0] /\ vault_fees = 0
    /\ protocol_usdc = 0 /\ external_usdc = 0 /\ protocol_pnl = 0
    /\ slot = 0

SharePrice == calculate_share_price(vault.total_assets, vault.total_shares)
PriceOf(v) == calculate_share_price(v.total_assets, v.total_shares)

(* The vault after shares are minted for, or burned against, some USDC. *)
Minted(shares, usdc) ==
    [vault EXCEPT !.total_shares = @ + shares, !.total_assets = @ + usdc]

(* Mutants: a redemption leaves the assets, or the supply, as it was. *)
BurnedKeepingAssets(shares, usdc) == [vault EXCEPT !.total_shares = @ - shares]
BurnedKeepingSupply(shares, usdc) == [vault EXCEPT !.total_assets = @ - usdc]

Burned(shares, usdc) ==
    [vault EXCEPT !.total_shares = @ - shares, !.total_assets = @ - usdc]

(* Mutant: a fee reaches the treasury and is not counted. *)
FeesUncounted(fee) == treasury

FeesCounted(fee) == [treasury EXCEPT !.total_fees_collected = @ + fee]

(* initialize_treasury and update_treasury_usdc accept the vault's account. *)
TreasuryIsVault == treasury_account = VaultAccount

(* Mutant: a fee leaves the vault's account whichever the treasury's is. *)
FeeLeavesVault(net, fee) ==
    /\ vault_usdc' = vault_usdc - net - fee
    /\ treasury_usdc' = [a \in OwnTreasuries |->
          IF a = treasury_account THEN treasury_usdc[a] + fee ELSE treasury_usdc[a]]
    /\ vault_fees' = IF TreasuryIsVault THEN vault_fees + fee ELSE vault_fees
    /\ treasury' = FeesCounted(fee)
    /\ UNCHANGED treasury_account

(* `net' leaves the vault's account and a fee goes to the treasury's; one  *)
(* account paying itself keeps what it has.                                *)
PayWithFee(net, fee) ==
    /\ vault_usdc' = IF TreasuryIsVault THEN vault_usdc - net ELSE vault_usdc - net - fee
    /\ treasury_usdc' = [a \in OwnTreasuries |->
          IF a = treasury_account THEN treasury_usdc[a] + fee ELSE treasury_usdc[a]]
    /\ vault_fees' = IF TreasuryIsVault THEN vault_fees + fee ELSE vault_fees
    /\ treasury' = FeesCounted(fee)
    /\ Fits(treasury.total_fees_collected + fee)
    /\ UNCHANGED treasury_account

(* A position after a deposit, a request and a withdrawal. *)
Deposited(p, shares, price) ==
    [p EXCEPT !.open = TRUE,
              !.shares = @ + shares,
              !.high_water_mark_price = Larger(price, @)]

Requested(p, shares) ==
    [p EXCEPT !.pending_withdrawal_shares = shares,
              !.withdraw_request_slot = slot,
              !.request_time_share_price = SharePrice]

(* Mutant: the redeemed shares stay in the position. *)
WithdrawnKeepingShares(p, shares, price) ==
    [p EXCEPT !.pending_withdrawal_shares = 0,
              !.withdraw_request_slot = 0,
              !.request_time_share_price = 0]

Withdrawn(p, shares, price) ==
    [p EXCEPT !.shares = @ - shares,
              !.pending_withdrawal_shares = 0,
              !.withdraw_request_slot = 0,
              !.request_time_share_price = 0,
              !.high_water_mark_price = IF p.shares > shares THEN price ELSE @]

-----------------------------------------------------------------------------
(* Users *)

deposit(u, amount) ==
    LET minted == calculate_shares_to_mint(amount, vault.total_assets, vault.total_shares)
        after  == Minted(minted, amount)
    IN  /\ ~halted
        /\ amount > 0
        /\ vault.deposit_cap > 0 => vault.total_assets + amount <= vault.deposit_cap
        /\ vault.max_single_deposit > 0 => amount <= vault.max_single_deposit
        /\ vault.total_shares = 0 => amount >= MIN_FIRST_DEPOSIT
        /\ minted > 0
        /\ user_usdc[u] >= amount
        /\ Fits(after.total_shares) /\ Fits(after.total_assets) /\ Fits(total_tvl + amount)
        /\ vault' = after
        /\ total_tvl' = total_tvl + amount
        /\ position' = [position EXCEPT ![u] = Deposited(@, minted, PriceOf(after))]
        /\ user_usdc' = [user_usdc EXCEPT ![u] = @ - amount]
        /\ user_shares' = [user_shares EXCEPT ![u] = @ + minted]
        /\ vault_usdc' = vault_usdc + amount
        /\ UNCHANGED <<halted, protocol_whitelist, treasuryVars, rebalance_record,
                       protocolVars, slot>>

(* Mutant: the request is not compared with the position's shares. *)
AnyRequest(u, shares) ==
    /\ position[u].pending_withdrawal_shares = 0
    /\ shares > 0

(* One request at a time, of shares the position has. *)
Requestable(u, shares) ==
    /\ position[u].pending_withdrawal_shares = 0
    /\ position[u].shares >= shares
    /\ shares > 0

(* Allowed while halted. *)
request_withdraw(u, shares) ==
    /\ position[u].open
    /\ Requestable(u, shares)
    /\ position' = [position EXCEPT ![u] = Requested(@, shares)]
    /\ UNCHANGED <<allocatorVars, vault, treasuryVars, rebalance_record, userTokens,
                   vault_usdc, protocolVars, slot>>

(* p is the position a redemption is made from: its pending shares, the    *)
(* slot and the price of its request.                                      *)
Matured(p) ==
    \/ halted
    \/ slot - p.withdraw_request_slot >= vault.guardrails.redemption_period_slots

(* Mutant: the price of the request is honoured. *)
PriceOfRequest(p) == p.request_time_share_price

EffectivePrice(p) == Lesser(SharePrice, p.request_time_share_price)

GrossUsdc(p) == ValueAt(p.pending_withdrawal_shares, EffectivePrice(p))

(* The checked operations of withdraw that may fail. *)
Payable(p) ==
    /\ Fits(p.pending_withdrawal_shares * EffectivePrice(p))
    /\ Fits(GainAbove(EffectivePrice(p), p.high_water_mark_price,
                      p.pending_withdrawal_shares) * PERFORMANCE_FEE_BPS)
    /\ GrossUsdc(p) <= vault_usdc
    /\ GrossUsdc(p) <= vault.total_assets
    /\ GrossUsdc(p) <= total_tvl

(* The body of withdraw, from the position p that u has when it runs. *)
Redeem(u, p) ==
    LET shares == p.pending_withdrawal_shares
        gross  == GrossUsdc(p)
        fee    == PerformanceFee(EffectivePrice(p), p.high_water_mark_price, shares)
        after  == Burned(shares, gross)
    IN  /\ shares > 0
        /\ Matured(p)
        /\ Payable(p)
        /\ user_shares[u] >= shares
        /\ shares <= vault.total_shares
        /\ vault' = after
        /\ total_tvl' = total_tvl - gross
        /\ position' = [position EXCEPT ![u] = Withdrawn(p, shares, PriceOf(after))]
        /\ user_usdc' = [user_usdc EXCEPT ![u] = @ + gross - fee]
        /\ user_shares' = [user_shares EXCEPT ![u] = @ - shares]
        /\ PayWithFee(gross - fee, fee)
        /\ UNCHANGED <<halted, protocol_whitelist, rebalance_record, protocolVars, slot>>

withdraw(u) == Redeem(u, position[u])

close_user_position(u) ==
    /\ position[u].open
    /\ position[u].shares = 0
    /\ position[u].pending_withdrawal_shares = 0
    /\ position' = [position EXCEPT ![u] = NoPosition]
    /\ UNCHANGED <<allocatorVars, vault, treasuryVars, rebalance_record, userTokens,
                   vault_usdc, protocolVars, slot>>

(* A plain SPL transfer of share tokens, outside the program.  Their       *)
(* holder can also burn them there, which is left out.                     *)
TransferShares(u, w, n) ==
    /\ u # w /\ 0 < n /\ n <= user_shares[u]
    /\ user_shares' = [user_shares EXCEPT ![u] = @ - n, ![w] = @ + n]
    /\ UNCHANGED <<allocatorVars, vault, position, treasuryVars, rebalance_record,
                   user_usdc, vault_usdc, protocolVars, slot>>

-----------------------------------------------------------------------------
(* The keeper: rebalance and the movement of funds to and from protocols *)

WeightAt(w, i) == IF i <= Len(w) THEN w[i] ELSE 0

SumOfWeights(w) == SumFunction(w)

ValidWeights(w) ==
    /\ SumOfWeights(w) = BPS_DENOMINATOR
    /\ Len(w) <= MAX_WEIGHTS
    /\ Len(w) > 0 => w[1] <= vault.guardrails.max_perp_allocation_bps
    /\ \A i \in 1..Len(w) : w[i] <= vault.guardrails.max_single_asset_bps
    /\ vault.current_weights # <<>> =>
         \A i \in 1..(Len(vault.current_weights) + Len(w)) :
            /\ WeightAt(w, i) <= WeightAt(vault.current_weights, i) + MAX_SHIFT_BPS
            /\ WeightAt(vault.current_weights, i) <= WeightAt(w, i) + MAX_SHIFT_BPS

(* |snapshot - total_assets| <= 1% of total_assets *)
WithinDivergence(snapshot) ==
    vault.total_assets > 0 =>
        LET threshold == (vault.total_assets * ORACLE_DIVERGENCE_BPS) \div BPS_DENOMINATOR
        IN  /\ Fits(vault.total_assets * ORACLE_DIVERGENCE_BPS)
            /\ snapshot <= vault.total_assets + threshold
            /\ vault.total_assets <= snapshot + threshold

(* Mutant: the drawdown is that of the booked assets. *)
BookedWithinDrawdown(snapshot) ==
    vault.peak_equity > 0 /\ vault.total_assets < vault.peak_equity =>
        RatioWithin(vault.peak_equity - vault.total_assets, vault.peak_equity,
                    vault.guardrails.max_drawdown_bps)

WithinDrawdown(snapshot) ==
    vault.peak_equity > 0 /\ snapshot < vault.peak_equity =>
        RatioWithin(vault.peak_equity - snapshot, vault.peak_equity,
                    vault.guardrails.max_drawdown_bps)

(* The 24-hour ratio is a checked product as well; its error is no halt. *)
CrashRatioFits(snapshot) ==
    vault.equity_24h_ago > 0 => Fits(snapshot * BPS_DENOMINATOR)

CrashDetected(snapshot) ==
    /\ vault.equity_24h_ago > 0
    /\ RatioBps(snapshot, vault.equity_24h_ago) < TVL_HALT_THRESHOLD_BPS

(* Mutants: without the halt check, and without the interval check. *)
ChecksIgnoringHalt(weights, snapshot) ==
    /\ vault.rebalance_counter \notin DOMAIN rebalance_record
    /\ slot - vault.last_rebalance_slot >= MIN_REBALANCE_INTERVAL_SLOTS
    /\ ValidWeights(weights)
    /\ WithinDivergence(snapshot)
    /\ WithinDrawdown(snapshot)
    /\ CrashRatioFits(snapshot)
ChecksIgnoringInterval(weights, snapshot) ==
    /\ vault.rebalance_counter \notin DOMAIN rebalance_record
    /\ ~halted
    /\ ValidWeights(weights)
    /\ WithinDivergence(snapshot)
    /\ WithinDrawdown(snapshot)
    /\ CrashRatioFits(snapshot)

(* Steps 1 to 8 of rebalance and the ratio of step 9, and the `init' of    *)
(* the next record account.                                                *)
RebalanceChecks(weights, snapshot) ==
    /\ vault.rebalance_counter \notin DOMAIN rebalance_record
    /\ ~halted
    /\ slot - vault.last_rebalance_slot >= MIN_REBALANCE_INTERVAL_SLOTS
    /\ ValidWeights(weights)
    /\ WithinDivergence(snapshot)
    /\ WithinDrawdown(snapshot)
    /\ CrashRatioFits(snapshot)

WithRecord(n, r) ==
    [m \in DOMAIN rebalance_record \cup {n} |-> IF m = n THEN r ELSE rebalance_record[m]]

(* Step 9: the auto-halt returns Ok, so the record account stays, blank. *)
rebalance_auto_halt(weights, snapshot) ==
    /\ RebalanceChecks(weights, snapshot)
    /\ CrashDetected(snapshot)
    /\ halted' = TRUE
    /\ rebalance_record' = WithRecord(vault.rebalance_counter, BlankRecord)
    /\ UNCHANGED <<total_tvl, protocol_whitelist, vault, position, treasuryVars,
                   userTokens, vault_usdc, protocolVars, slot>>

SlotsSinceFee == slot - vault.last_mgmt_fee_slot

(* The fee product is computed in u64; it fails rather than wrap. *)
FeeComputable == vault.total_assets * SlotsSinceFee * MgmtFeeRate <= MaxFeeProduct

EquityIsStale ==
    \/ vault.equity_24h_ago = 0
    \/ slot - vault.last_rebalance_slot >= EQUITY_SNAPSHOT_INTERVAL

(* The vault after a rebalance that charged `paid'. *)
Rebalanced(weights, snapshot, paid) ==
    [vault EXCEPT
        !.total_assets = @ - paid,
        !.last_mgmt_fee_slot = slot,
        !.equity_24h_ago = IF EquityIsStale THEN snapshot ELSE @,
        !.current_weights = weights,
        !.peak_equity = Larger(snapshot, @),
        !.last_rebalance_slot = slot,
        !.rebalance_counter = @ + 1]

rebalance(weights, snapshot) ==
    LET fee  == ManagementFee(vault.total_assets, SlotsSinceFee)
        paid == Lesser(fee, vault_usdc)
    IN  /\ RebalanceChecks(weights, snapshot)
        /\ ~CrashDetected(snapshot)
        /\ FeeComputable
        /\ paid <= vault.total_assets
        /\ vault' = Rebalanced(weights, snapshot, paid)
        /\ PayWithFee(0, paid)
        /\ rebalance_record' = WithRecord(vault.rebalance_counter,
               [previous_weights |-> vault.current_weights, new_weights |-> weights,
                slot |-> slot, approved |-> TRUE])
        /\ UNCHANGED <<allocatorVars, position, userTokens, protocolVars, slot>>

(* An empty whitelist admits every destination. *)
allocate_to_protocol(owner, amount) ==
    /\ ~halted
    /\ protocol_whitelist # {} => owner \in protocol_whitelist
    /\ amount > 0
    /\ vault_usdc >= amount
    /\ vault_usdc' = vault_usdc - amount
    /\ IF owner = AllocatorPda
       THEN protocol_usdc' = protocol_usdc + amount /\ UNCHANGED external_usdc
       ELSE external_usdc' = external_usdc + amount /\ UNCHANGED protocol_usdc
    /\ UNCHANGED <<allocatorVars, vault, position, treasuryVars, rebalance_record,
                   userTokens, protocol_pnl, slot>>

recall_from_protocol(amount) ==
    /\ ~halted
    /\ amount > 0
    /\ protocol_usdc >= amount
    /\ protocol_usdc' = protocol_usdc - amount
    /\ vault_usdc' = vault_usdc + amount
    /\ UNCHANGED <<allocatorVars, vault, position, treasuryVars, rebalance_record,
                   userTokens, external_usdc, protocol_pnl, slot>>

(* A protocol credits interest to, or writes a loss off, its account. *)
ProtocolEarns(n) ==
    /\ protocol_usdc > 0 /\ protocol_pnl + n <= MaxPnl
    /\ protocol_usdc' = protocol_usdc + n
    /\ protocol_pnl' = protocol_pnl + n
    /\ UNCHANGED <<allocatorVars, vault, position, treasuryVars, rebalance_record,
                   userTokens, vault_usdc, external_usdc, slot>>

ProtocolLoses(n) ==
    /\ n <= protocol_usdc /\ protocol_pnl - n >= -MaxPnl
    /\ protocol_usdc' = protocol_usdc - n
    /\ protocol_pnl' = protocol_pnl - n
    /\ UNCHANGED <<allocatorVars, vault, position, treasuryVars, rebalance_record,
                   userTokens, vault_usdc, external_usdc, slot>>

-----------------------------------------------------------------------------
(* The admin *)

emergency_halt ==
    /\ halted' = TRUE
    /\ UNCHANGED <<total_tvl, protocol_whitelist, vault, position, treasuryVars,
                   rebalance_record, userTokens, vault_usdc, protocolVars, slot>>

resume ==
    /\ halted' = FALSE
    /\ UNCHANGED <<total_tvl, protocol_whitelist, vault, position, treasuryVars,
                   rebalance_record, userTokens, vault_usdc, protocolVars, slot>>

SetVault(v) ==
    /\ vault' = v
    /\ UNCHANGED <<allocatorVars, position, treasuryVars, rebalance_record, userTokens,
                   vault_usdc, protocolVars, slot>>

update_guardrails(g) ==
    /\ g.max_perp_allocation_bps <= vault.guardrails.max_perp_allocation_bps
    /\ g.max_single_asset_bps <= vault.guardrails.max_single_asset_bps
    /\ g.max_drawdown_bps <= vault.guardrails.max_drawdown_bps
    /\ g.redemption_period_slots >= vault.guardrails.redemption_period_slots
    /\ SetVault([vault EXCEPT !.guardrails = g])

admin_set_redemption_period(slots) ==
    /\ slots >= MIN_REDEMPTION_SLOTS
    /\ SetVault([vault EXCEPT !.guardrails.redemption_period_slots = slots])

update_deposit_cap(cap) == SetVault([vault EXCEPT !.deposit_cap = cap])

admin_set_max_single_deposit(limit) ==
    SetVault([vault EXCEPT !.max_single_deposit = limit])

(* The transfer out of the treasury's account is signed by the PDA. *)
withdraw_treasury(amount) ==
    /\ amount > 0
    /\ amount <= treasury.total_fees_collected - treasury.total_fees_withdrawn
    /\ treasury_account \in AllocatorAccounts
    /\ IF TreasuryIsVault
       THEN /\ vault_usdc >= amount
            /\ vault_usdc' = vault_usdc - amount
            /\ vault_fees' = vault_fees - amount
            /\ UNCHANGED treasury_usdc
       ELSE /\ treasury_usdc[treasury_account] >= amount
            /\ treasury_usdc' = [treasury_usdc EXCEPT ![treasury_account] = @ - amount]
            /\ UNCHANGED <<vault_usdc, vault_fees>>
    /\ treasury' = [treasury EXCEPT !.total_fees_withdrawn = @ + amount]
    /\ UNCHANGED <<allocatorVars, vault, position, treasury_account, rebalance_record,
                   userTokens, protocolVars, slot>>

(* Another account is configured, the vault's own among them; all balances *)
(* stay where they are.                                                    *)
update_treasury_usdc(account) ==
    /\ treasury_account' = account
    /\ UNCHANGED <<allocatorVars, vault, position, treasury, treasury_usdc, vault_fees,
                   rebalance_record, userTokens, vault_usdc, protocolVars, slot>>

SetWhitelist(owners) ==
    /\ protocol_whitelist' = owners
    /\ UNCHANGED <<halted, total_tvl, vault, position, treasuryVars, rebalance_record,
                   userTokens, vault_usdc, protocolVars, slot>>

add_whitelisted_protocol(owner) ==
    /\ owner \notin protocol_whitelist
    /\ Cardinality(protocol_whitelist) < MAX_PROTOCOLS
    /\ SetWhitelist(protocol_whitelist \cup {owner})

remove_whitelisted_protocol(owner) ==
    /\ owner \in protocol_whitelist
    /\ SetWhitelist(protocol_whitelist \ {owner})

(* A blank record's risk_vault is the default key, so only filled ones close. *)
close_rebalance_record(n) ==
    /\ rebalance_record[n].approved
    /\ rebalance_record' = Restrict(rebalance_record, DOMAIN rebalance_record \ {n})
    /\ UNCHANGED <<allocatorVars, vault, position, treasuryVars, userTokens, vault_usdc,
                   protocolVars, slot>>

Tick ==
    /\ slot < MaxSlot
    /\ slot' = slot + 1
    /\ UNCHANGED <<allocatorVars, vault, position, treasuryVars, rebalance_record,
                   userTokens, vault_usdc, protocolVars>>

-----------------------------------------------------------------------------
UserStep(u) ==
    \/ \E a \in DepositAmounts : deposit(u, a)
    \/ \E n \in ShareAmounts \cup {position[u].shares} : request_withdraw(u, n)
    \/ withdraw(u)
    \/ close_user_position(u)
    \/ \E w \in Users, n \in TransferAmounts : TransferShares(u, w, n)

KeeperStep ==
    \/ \E w \in WeightVectors, e \in Snapshots : rebalance(w, e)
    \/ \E w \in WeightVectors, e \in Snapshots : rebalance_auto_halt(w, e)
    \/ \E o \in ProtocolOwners, n \in MoveAmounts : allocate_to_protocol(o, n)
    \/ \E n \in MoveAmounts : recall_from_protocol(n)

AdminStep ==
    \/ "halt" \in AdminOps /\ emergency_halt
    \/ resume
    \/ \E g \in GuardrailChoices : update_guardrails(g)
    \/ \E n \in RedemptionChoices : admin_set_redemption_period(n)
    \/ \E c \in CapChoices : update_deposit_cap(c) \/ admin_set_max_single_deposit(c)
    \/ \E n \in MoveAmounts : withdraw_treasury(n)
    \/ /\ "move_treasury" \in AdminOps
       /\ \E a \in TreasuryChoices : update_treasury_usdc(a)
    \/ /\ "whitelist" \in AdminOps
       /\ \E o \in ProtocolOwners :
             add_whitelisted_protocol(o) \/ remove_whitelisted_protocol(o)
    \/ /\ "close_record" \in AdminOps
       /\ \E n \in DOMAIN rebalance_record : close_rebalance_record(n)

OutsideStep ==
    \/ \E n \in MoveAmounts : ProtocolEarns(n)
    \/ \E n \in MoveAmounts : ProtocolLoses(n)
    \/ Tick

Next == (\E u \in Users : UserStep(u)) \/ KeeperStep \/ AdminStep \/ OutsideStep

Spec == Init /\ [][Next]_vars

-----------------------------------------------------------------------------
(* Properties *)

TypeOK ==
    /\ halted \in BOOLEAN
    /\ total_tvl \in Nat
    /\ protocol_whitelist \subseteq ProtocolOwners
    /\ vault \in RiskVault
    /\ position \in [Users -> UserPosition]
    /\ treasury \in [total_fees_collected : Nat, total_fees_withdrawn : Nat]
    /\ DOMAIN rebalance_record \subseteq Nat
    /\ \A n \in DOMAIN rebalance_record : rebalance_record[n] \in RebalanceRecord
    /\ user_usdc \in [Users -> Nat]
    /\ user_shares \in [Users -> Nat]
    /\ treasury_account \in TreasuryChoices
    /\ vault_usdc \in Nat /\ treasury_usdc \in [OwnTreasuries -> Nat] /\ vault_fees \in Int
    /\ protocol_usdc \in Nat /\ external_usdc \in Nat
    /\ protocol_pnl \in Int
    /\ slot \in Nat

(* The program keeps three counts of one thing: the shares of the vault,   *)
(* the shares of the positions and the share tokens in circulation.  They  *)
(* agree through deposits, withdrawals, token transfers and closed         *)
(* positions, although no instruction ever compares them.  (A holder who   *)
(* burns tokens outside the program gives up the equality of the last.)    *)
ShareLedgerBalances ==
    /\ vault.total_shares = SumFunction([u \in Users |-> position[u].shares])
    /\ vault.total_shares = SumFunction(user_shares)

(* The fees collected and not yet withdrawn. *)
FeesHeld == treasury.total_fees_collected - treasury.total_fees_withdrawn

(* Every unit of USDC the vault counts as an asset, and every fee that was *)
(* collected and not withdrawn, is in one of the program's accounts or a   *)
(* protocol's, up to what protocols earned and lost: no deposit, payout,   *)
(* fee, allocation or recall creates or loses one, also while the treasury *)
(* is the vault's own account and a fee is a transfer to itself.           *)
AssetsAreHeld ==
    vault_usdc + SumFunction(treasury_usdc) + protocol_usdc + external_usdc
        = vault.total_assets + FeesHeld + protocol_pnl

(* Where the fees are: those not in the vault's account are in the         *)
(* treasury accounts of their own, through changes of the configured       *)
(* account, and no more is withdrawn than was collected.  vault_fees is    *)
(* below zero when fees paid elsewhere were withdrawn from the vault's     *)
(* account: what the vault then lacks, a treasury account has too much.    *)
TreasuryHoldsFees ==
    /\ SumFunction(treasury_usdc) = FeesHeld - vault_fees
    /\ FeesHeld >= 0
    /\ OwnTreasuries = TreasuryChoices => vault_fees = 0

(* The allocator's TVL never falls below the vault's assets, so the        *)
(* checked subtraction of withdraw on total_tvl cannot be what blocks a    *)
(* redemption.  (It does drift above them: management fees leave it.)      *)
TvlCoversAssets == total_tvl >= vault.total_assets

(* A redemption in progress is covered by the position it came from and    *)
(* carries the price it was requested at; without one the request fields   *)
(* are clear, through repeated deposits, halts, closes and re-openings.    *)
PendingIsCovered ==
    \A u \in Users :
        LET p == position[u]
        IN  /\ p.pending_withdrawal_shares <= p.shares
            /\ p.withdraw_request_slot <= slot
            /\ p.pending_withdrawal_shares = 0 =>
                 p.withdraw_request_slot = 0 /\ p.request_time_share_price = 0
            /\ ~p.open => p = NoPosition

(* What a pending redemption would pay beyond the assets left, whatever    *)
(* fees and other redemptions came after its request: withdraw then fails  *)
(* on its checked subtraction.  It takes a redemption of more shares than  *)
(* there are assets, and the excess is what the virtual offset adds to the *)
(* price of those shares, less what the shares that stay are worth: it is  *)
(* below the offset, and a request of no more shares than there are assets *)
(* lacks nothing.  A vault with no assets left prices its shares 1:1 and   *)
(* can redeem none of them.                                                *)
RedemptionsLackOnlyOffset ==
    \A u \in Users :
        LET n    == position[u].pending_withdrawal_shares
            lack == GrossUsdc(position[u]) - vault.total_assets
        IN  n > 0 /\ lack > 0 =>
              \/ vault.total_assets = 0
              \/ /\ n > vault.total_assets
                 /\ lack < VIRTUAL_OFFSET
                 /\ lack * (vault.total_shares + VIRTUAL_OFFSET)
                      <= VIRTUAL_OFFSET * (n - vault.total_assets)
                           - vault.total_assets * (vault.total_shares - n)

(* Rounding never works against those who stay: whenever shares are minted *)
(* or burned while others hold some, the value of a share,                 *)
(* (assets + offset) / (shares + offset), does not fall.                   *)
NoDilution ==
    [][ vault.total_shares > 0 /\ vault'.total_shares # vault.total_shares =>
          (vault'.total_assets + VIRTUAL_OFFSET) * (vault.total_shares + VIRTUAL_OFFSET)
            >= (vault.total_assets + VIRTUAL_OFFSET) * (vault'.total_shares + VIRTUAL_OFFSET)
      ]_vars

(* The rebalance records form a chain: each starts from the weights the    *)
(* previous one set, at least the minimum interval later, and the newest   *)
(* one is the state the vault is in; closing records leaves no wrong link. *)
AuditTrail ==
    \A n \in DOMAIN rebalance_record :
        LET r == rebalance_record[n]
        IN  r.approved =>
              /\ n < vault.rebalance_counter
              /\ n + 1 = vault.rebalance_counter =>
                   r.new_weights = vault.current_weights /\ r.slot = vault.last_rebalance_slot
              /\ n + 1 \in DOMAIN rebalance_record /\ rebalance_record[n + 1].approved =>
                   /\ rebalance_record[n + 1].previous_weights = r.new_weights
                   /\ rebalance_record[n + 1].slot - r.slot >= MIN_REBALANCE_INTERVAL_SLOTS

(* While the program is halted the only USDC that moves is paid out, to a  *)
(* redeeming user, with the performance fee on it to the treasury, and by  *)
(* the admin from the treasury: no deposit, rebalance, management fee,     *)
(* allocation or recall, and no share is minted.                           *)
HaltFreezesFunds ==
    [][ halted =>
          /\ vault'.total_shares <= vault.total_shares
          /\ vault'.total_assets <= vault.total_assets
          /\ vault'.last_mgmt_fee_slot = vault.last_mgmt_fee_slot
          /\ vault'.current_weights = vault.current_weights
          /\ vault_usdc' <= vault_usdc
          /\ external_usdc' = external_usdc
          /\ protocol_usdc' - protocol_pnl' = protocol_usdc - protocol_pnl
      ]_vars

(* The 24-hour reference never exceeds the peak equity, although the two   *)
(* are written by different conditions of a rebalance and a halt, or a     *)
(* stale reference, leaves either alone.                                   *)
PeakDominates == vault.equity_24h_ago <= vault.peak_equity

(* With a drawdown cap below the halt threshold the drawdown check rejects *)
(* every snapshot that would trip the 24-hour auto-halt, so a rebalance    *)
(* never halts the program, however far equity falls.                      *)
AutoHaltShadowed ==
    vault.guardrails.max_drawdown_bps < BPS_DENOMINATOR - TVL_HALT_THRESHOLD_BPS =>
        \A e \in Snapshots : ~(WithinDrawdown(e) /\ CrashDetected(e))

=============================================================================
