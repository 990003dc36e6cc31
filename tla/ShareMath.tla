----------------------------- MODULE ShareMath -----------------------------
(***************************************************************************)
(* The arithmetic of the allocator program: ERC-4626 share pricing with a  *)
(* virtual offset, performance and management fees.  Amounts are u64; a    *)
(* "checked" operation of the code is an ordinary operation here plus a    *)
(* guard `Fits' in the action that uses it.                                *)
(***************************************************************************)
EXTENDS Integers

CONSTANTS
    SHARE_PRICE_PRECISION,  \* price of one share is scaled by this
    VIRTUAL_OFFSET,         \* added to assets and shares when pricing
    BPS_DENOMINATOR,        \* basis points in one
    PERFORMANCE_FEE_BPS,    \* share of the gain above the high-water mark
    MgmtFeeRate,            \* MGMT_FEE_PER_SLOT_SCALED, in the run's units
    MgmtFeeDivisor,         \* MGMT_FEE_PRECISION * BPS_DENOMINATOR, likewise
    MaxU64,                 \* u64::MAX in the run's units
    MaxFeeProduct           \* u64::MAX in the units of assets * slots * rate

ASSUME ShareMathAssumption ==
    /\ SHARE_PRICE_PRECISION \in Nat \ {0}
    /\ VIRTUAL_OFFSET \in Nat \ {0}
    /\ BPS_DENOMINATOR \in Nat \ {0}
    /\ PERFORMANCE_FEE_BPS \in 0..BPS_DENOMINATOR
    /\ MgmtFeeRate \in Nat
    /\ MgmtFeeDivisor \in Nat \ {0}
    /\ MaxU64 \in Nat
    /\ MaxFeeProduct \in Nat
    /\ SHARE_PRICE_PRECISION <= MaxU64

U64 == 0..MaxU64

(* A checked u64 operation succeeds exactly when its result fits. *)
Fits(x) == x \in U64

(* `as u64' on a u128 keeps the low 64 bits. *)
AsU64(x) == x % (MaxU64 + 1)

(* The smaller and the larger of two amounts. *)
Lesser(a, b) == IF a <= b THEN a ELSE b
Larger(a, b) == IF a > b THEN a ELSE b

(* One share in USDC; an empty vault, or one with no assets, prices 1:1. *)
calculate_share_price(assets, shares) ==
    IF shares = 0 \/ assets = 0
    THEN SHARE_PRICE_PRECISION
    ELSE AsU64(((assets + VIRTUAL_OFFSET) * SHARE_PRICE_PRECISION)
                 \div (shares + VIRTUAL_OFFSET))

(* Mutant: shares rounded up, in the depositor's favour. *)
SharesRoundedUp(amount, assets, shares) ==
    IF shares = 0
    THEN amount
    ELSE AsU64((amount * (shares + VIRTUAL_OFFSET)) \div (assets + VIRTUAL_OFFSET) + 1)

calculate_shares_to_mint(amount, assets, shares) ==
    IF shares = 0
    THEN amount
    ELSE AsU64((amount * (shares + VIRTUAL_OFFSET)) \div (assets + VIRTUAL_OFFSET))

(* Mutant: rounded up, in the redeemer's favour. *)
ValueRoundedUp(shares, price) == (shares * price) \div SHARE_PRICE_PRECISION + 1

(* shares * price in USDC, rounded down. *)
ValueAt(shares, price) == (shares * price) \div SHARE_PRICE_PRECISION

(* The gain of `shares' above the high-water mark and the fee on it. *)
GainAbove(price, hwm, shares) ==
    IF price > hwm THEN ValueAt(shares, price - hwm) ELSE 0

PerformanceFee(price, hwm, shares) ==
    (GainAbove(price, hwm, shares) * PERFORMANCE_FEE_BPS) \div BPS_DENOMINATOR

(* The fee that rebalance computes inline in u64. *)
ManagementFee(assets, slots) == (assets * slots * MgmtFeeRate) \div MgmtFeeDivisor

(* (part * 10000 / whole), the ratio of the equity checks.  The product is *)
(* a checked u64, so a ratio within a bound is one that can be computed.   *)
RatioBps(part, whole) == (part * BPS_DENOMINATOR) \div whole

RatioWithin(part, whole, bps) ==
    Fits(part * BPS_DENOMINATOR) /\ RatioBps(part, whole) <= bps
=============================================================================
