-------------------------- MODULE AllocatorProofs --------------------------
(***************************************************************************)
(* Theorems about ShareMath, Allocator and ValidationHelpers, for every    *)
(* value of their constants.  The invariants are proved of OpenSpec, in    *)
(* which any caller, a program included, may make the users' calls: Spec   *)
(* implements it, and so does the composition with the adaptor.            *)
(***************************************************************************)
EXTENDS ValidationHelpers, DataLemmas

(* The operators of ShareMath. *)

(* Integer division of naturals rounds down. *)
LEMMA DivBounds ==
    ASSUME NEW a \in Nat, NEW b \in Nat \ {0}
    PROVE  /\ a \div b \in Nat
           /\ (a \div b) * b <= a
           /\ a < (a \div b + 1) * b
  BY SMT

(* Multiplication by a natural number is monotone. *)
LEMMA ProductMonotone ==
    ASSUME NEW a \in Int, NEW b \in Int, NEW c \in Nat, a <= b
    PROVE  a * c <= b * c
  BY SMT

(* What `as u64' keeps is a u64 and never more than there was. *)
LEMMA AsU64Bounds ==
    ASSUME NEW x \in Nat
    PROVE  AsU64(x) \in Nat /\ AsU64(x) <= x /\ AsU64(x) <= MaxU64
  BY ShareMathAssumption, SMT DEF ShareMathAssumption, AsU64

(* A share price is a natural number. *)
LEMMA SharePriceType ==
    ASSUME NEW assets \in Nat, NEW shares \in Nat
    PROVE  calculate_share_price(assets, shares) \in Nat
<1>1. CASE shares = 0 \/ assets = 0
  BY <1>1, ShareMathAssumption DEF calculate_share_price, ShareMathAssumption
<1>2. CASE ~(shares = 0 \/ assets = 0)
  <2> DEFINE num == (assets + VIRTUAL_OFFSET) * SHARE_PRICE_PRECISION
             den == shares + VIRTUAL_OFFSET
  <2>1. num \in Nat /\ den \in Nat \ {0}
    BY ShareMathAssumption DEF ShareMathAssumption
  <2>2. num \div den \in Nat
    <3> HIDE DEF num, den
    <3> QED BY <2>1, DivBounds
  <2>3. AsU64(num \div den) \in Nat
    <3> HIDE DEF num, den
    <3> QED BY <2>2, AsU64Bounds
  <2> QED BY <1>2, <2>3 DEF calculate_share_price
<1> QED BY <1>1, <1>2

(* Minting is rounded down: the new shares are worth at most the deposit,  *)
(* priced with the virtual offset.                                         *)
LEMMA MintRoundsDown ==
    ASSUME NEW amount \in Nat, NEW assets \in Nat, NEW shares \in Nat
    PROVE  LET m == calculate_shares_to_mint(amount, assets, shares)
           IN  /\ m \in Nat
               /\ shares > 0 => m * (assets + VIRTUAL_OFFSET)
                                  <= amount * (shares + VIRTUAL_OFFSET)
<1> DEFINE num == amount * (shares + VIRTUAL_OFFSET)
           den == assets + VIRTUAL_OFFSET
           m == calculate_shares_to_mint(amount, assets, shares)
<1>1. num \in Nat /\ den \in Nat \ {0}
  BY ShareMathAssumption DEF ShareMathAssumption
<1>2. CASE shares = 0
  BY <1>2 DEF calculate_shares_to_mint
<1>3. CASE shares > 0
  <2>1. m = AsU64(num \div den)
    BY <1>3 DEF calculate_shares_to_mint
  <2> HIDE DEF num, den, m
  <2>2. num \div den \in Nat /\ (num \div den) * den <= num
    BY <1>1, DivBounds
  <2>3. m \in Nat /\ m <= num \div den
    BY <2>1, <2>2, AsU64Bounds
  <2>4. m * den <= (num \div den) * den
    BY <1>1, <2>2, <2>3, ProductMonotone
  <2>5. m * den \in Nat /\ (num \div den) * den \in Nat
    BY <1>1, <2>2, <2>3
  <2>6. m * den <= num
    BY <1>1, <2>2, <2>4, <2>5
  <2> QED BY <1>3, <2>3, <2>6 DEF m, num, den
<1> QED BY <1>2, <1>3

(* Shares are worth a natural amount, and no more than their exact value. *)
LEMMA ValueRoundsDown ==
    ASSUME NEW shares \in Nat, NEW price \in Nat
    PROVE  /\ ValueAt(shares, price) \in Nat
           /\ ValueAt(shares, price) * SHARE_PRICE_PRECISION <= shares * price
<1>1. shares * price \in Nat
  OBVIOUS
<1> QED BY <1>1, DivBounds, ShareMathAssumption DEF ValueAt, ShareMathAssumption

(* The performance fee is part of the gain, and so of the payout. *)
LEMMA PerformanceFeeBounds ==
    ASSUME NEW price \in Nat, NEW hwm \in Nat, NEW shares \in Nat
    PROVE  /\ PerformanceFee(price, hwm, shares) \in Nat
           /\ PerformanceFee(price, hwm, shares) <= ValueAt(shares, price)
<1> DEFINE gain == GainAbove(price, hwm, shares)
           fee == PerformanceFee(price, hwm, shares)
           value == ValueAt(shares, price)
<1>1. value \in Nat
  BY ValueRoundsDown
<1>2. gain \in Nat /\ gain <= value
  <2>1. CASE price > hwm
    <3>1. price - hwm \in Nat /\ price - hwm <= price
      BY <2>1
    <3>2. /\ ValueAt(shares, price - hwm) \in Nat
          /\ ValueAt(shares, price - hwm) * SHARE_PRICE_PRECISION <= shares * (price - hwm)
      BY <3>1, ValueRoundsDown
    <3>3. shares * (price - hwm) <= shares * price
      BY <3>1, ProductMonotone, SMT
    <3>4. shares * price \in Nat /\ shares * price < (value + 1) * SHARE_PRICE_PRECISION
      BY DivBounds, ShareMathAssumption DEF ValueAt, ShareMathAssumption
    <3>5. ASSUME NEW g \in Nat, g * SHARE_PRICE_PRECISION <= shares * (price - hwm)
          PROVE  g <= value
      <4>1. SUFFICES ASSUME g >= value + 1 PROVE FALSE
        BY <1>1
      <4>2. (value + 1) * SHARE_PRICE_PRECISION <= g * SHARE_PRICE_PRECISION
        BY <1>1, <4>1, ProductMonotone, ShareMathAssumption DEF ShareMathAssumption
      <4> QED BY <1>1, <3>1, <3>3, <3>4, <3>5, <4>2, ShareMathAssumption
              DEF ShareMathAssumption
    <3> QED BY <2>1, <3>2, <3>5 DEF GainAbove
  <2>2. CASE ~(price > hwm)
    BY <1>1, <2>2 DEF GainAbove
  <2> QED BY <2>1, <2>2
<1>3. fee \in Nat /\ fee <= gain
  <2> HIDE DEF gain
  <2>1. PERFORMANCE_FEE_BPS \in Nat /\ BPS_DENOMINATOR \in Nat \ {0}
        /\ PERFORMANCE_FEE_BPS <= BPS_DENOMINATOR
    BY ShareMathAssumption DEF ShareMathAssumption
  <2>2. gain * PERFORMANCE_FEE_BPS \in Nat
    BY <1>2, <2>1
  <2>3. fee = (gain * PERFORMANCE_FEE_BPS) \div BPS_DENOMINATOR
    BY DEF gain, PerformanceFee
  <2>4. fee \in Nat /\ fee * BPS_DENOMINATOR <= gain * PERFORMANCE_FEE_BPS
    BY <2>1, <2>2, <2>3, DivBounds
  <2>5. gain * PERFORMANCE_FEE_BPS <= gain * BPS_DENOMINATOR
    BY <1>2, <2>1, ProductMonotone, SMT
  <2>6. SUFFICES ASSUME fee >= gain + 1 PROVE FALSE
    BY <1>2, <2>4
  <2>7. (gain + 1) * BPS_DENOMINATOR <= fee * BPS_DENOMINATOR
    BY <1>2, <2>1, <2>4, <2>6, ProductMonotone
  <2> HIDE DEF fee
  <2> QED BY <1>2, <2>1, <2>2, <2>4, <2>5, <2>7
<1> QED BY <1>1, <1>2, <1>3

(* The management fee is a natural amount. *)
LEMMA ManagementFeeType ==
    ASSUME NEW assets \in Nat, NEW slots \in Nat
    PROVE  ManagementFee(assets, slots) \in Nat
<1>1. assets * slots * MgmtFeeRate \in Nat
  BY ShareMathAssumption DEF ShareMathAssumption
<1> QED BY <1>1, DivBounds, ShareMathAssumption DEF ManagementFee, ShareMathAssumption

-----------------------------------------------------------------------------
(* The invariant *)

(* The slots the vault remembers are past ones. *)
TimesArePast ==
    /\ vault.last_mgmt_fee_slot <= slot
    /\ vault.last_rebalance_slot <= slot

(* TypeOK is not inductive alone.  A withdrawal subtracts the shares of a  *)
(* request made earlier, so it needs PendingIsCovered; the management fee  *)
(* is for the slots since the last one, so it needs TimesArePast.          *)
Inv == TypeOK /\ PendingIsCovered /\ TimesArePast

(* The fresh vault satisfies the invariant. *)
LEMMA InvInit == Init => Inv
<1> SUFFICES ASSUME Init PROVE Inv
  OBVIOUS
<1>1. TypeOK
  <2>1. vault \in RiskVault
    BY AllocatorAssumption DEF Init, AllocatorAssumption, RiskVault
  <2>2. position \in [Users -> UserPosition]
    BY DEF Init, NoPosition, UserPosition
  <2>3. user_usdc \in [Users -> Nat] /\ user_shares \in [Users -> Nat]
    BY AllocatorAssumption DEF Init, AllocatorAssumption
  <2>4. treasury \in [total_fees_collected : Nat, total_fees_withdrawn : Nat]
    BY DEF Init
  <2>5. DOMAIN rebalance_record = {}
    BY DEF Init
  <2>6. halted \in BOOLEAN
    BY DEF Init
  <2>7. protocol_whitelist = {}
    BY DEF Init
  <2>8. /\ total_tvl = 0 /\ vault_usdc = 0 /\ vault_fees = 0
        /\ treasury_account \in TreasuryChoices
        /\ treasury_usdc \in [OwnTreasuries -> Nat]
        /\ protocol_usdc = 0 /\ external_usdc = 0 /\ protocol_pnl = 0 /\ slot = 0
    BY DEF Init
  <2> QED BY <2>1, <2>2, <2>3, <2>4, <2>5, <2>6, <2>7, <2>8 DEF TypeOK
<1>2. PendingIsCovered
  BY DEF Init, PendingIsCovered, NoPosition
<1>3. TimesArePast
  BY DEF Init, TimesArePast
<1> QED BY <1>1, <1>2, <1>3 DEF Inv

(* The price of a share in the state and in a later vault. *)
LEMMA PriceType ==
    ASSUME NEW v \in RiskVault
    PROVE  PriceOf(v) \in Nat
  BY SharePriceType DEF PriceOf, RiskVault

(* A position that keeps its type and its cover keeps PendingIsCovered. *)
Covered(p, s) ==
    /\ p.pending_withdrawal_shares <= p.shares
    /\ p.withdraw_request_slot <= s
    /\ p.pending_withdrawal_shares = 0 =>
         p.withdraw_request_slot = 0 /\ p.request_time_share_price = 0
    /\ ~p.open => p = NoPosition

(* The invariant survives a step that changes one position into one that is*)
(* covered at the current slot.                                            *)
LEMMA PositionStep ==
    ASSUME Inv, NEW u \in Users, NEW p \in UserPosition, Covered(p, slot),
           position' = [position EXCEPT ![u] = p], slot' = slot
    PROVE  position' \in [Users -> UserPosition] /\ PendingIsCovered'
<1>1. position \in [Users -> UserPosition]
  BY DEF Inv, TypeOK
<1>2. \A w \in Users : position'[w] = IF w = u THEN p ELSE position[w]
  BY <1>1
<1>3. \A w \in Users : Covered(position[w], slot)
  BY DEF Inv, PendingIsCovered, Covered
<1>4. \A w \in Users : Covered(position'[w], slot')
  BY <1>2, <1>3
<1> QED BY <1>1, <1>4 DEF PendingIsCovered, Covered

(* A vault whose shares and assets change is a vault, otherwise the same. *)
VaultWith(v, s, a) == [v EXCEPT !.total_shares = s, !.total_assets = a]

VaultKeeps(w, v) ==
    /\ w.last_mgmt_fee_slot = v.last_mgmt_fee_slot
    /\ w.last_rebalance_slot = v.last_rebalance_slot
    /\ w.peak_equity = v.peak_equity /\ w.equity_24h_ago = v.equity_24h_ago
    /\ w.rebalance_counter = v.rebalance_counter
    /\ w.current_weights = v.current_weights
    /\ w.guardrails = v.guardrails

(* Setting the two totals of a vault gives a vault, other fields unchanged. *)
LEMMA VaultStep ==
    ASSUME NEW v \in RiskVault, NEW s \in Nat, NEW a \in Nat
    PROVE  /\ VaultWith(v, s, a) \in RiskVault
           /\ VaultWith(v, s, a).total_shares = s
           /\ VaultWith(v, s, a).total_assets = a
           /\ VaultKeeps(VaultWith(v, s, a), v)
<1> DEFINE x == [v EXCEPT !.total_shares = s]
           w == [x EXCEPT !.total_assets = a]
<1>1. x \in RiskVault /\ x.total_shares = s /\ VaultKeeps(x, v)
  BY DEF RiskVault, VaultKeeps
<1>2. VaultWith(v, s, a) = w
  BY DEF VaultWith
<1> HIDE DEF x
<1>3. /\ w \in RiskVault /\ w.total_shares = x.total_shares /\ w.total_assets = a
      /\ VaultKeeps(w, x)
  BY <1>1 DEF RiskVault, VaultKeeps
<1> HIDE DEF w
<1> QED BY <1>1, <1>2, <1>3 DEF VaultKeeps

(* The vault after a mint is a vault that keeps the times in the past. *)
LEMMA MintedVault ==
    ASSUME Inv, NEW s \in Nat, NEW a \in Nat
    PROVE  /\ Minted(s, a) \in RiskVault
           /\ Minted(s, a).total_shares = vault.total_shares + s
           /\ Minted(s, a).total_assets = vault.total_assets + a
           /\ VaultKeeps(Minted(s, a), vault)
<1>1. vault \in RiskVault
  BY DEF Inv, TypeOK
<1> DEFINE shares == vault.total_shares + s
           assets == vault.total_assets + a
<1>2. shares \in Nat /\ assets \in Nat
  BY <1>1 DEF RiskVault
<1>3. Minted(s, a) = VaultWith(vault, shares, assets)
  BY DEF Minted, VaultWith
<1>4. /\ VaultWith(vault, shares, assets) \in RiskVault
      /\ VaultWith(vault, shares, assets).total_shares = shares
      /\ VaultWith(vault, shares, assets).total_assets = assets
      /\ VaultKeeps(VaultWith(vault, shares, assets), vault)
  <2> HIDE DEF shares, assets
  <2> QED BY <1>1, <1>2, VaultStep
<1> QED BY <1>3, <1>4

(* Likewise after a burn that the totals cover. *)
LEMMA BurnedVault ==
    ASSUME Inv, NEW s \in Nat, NEW a \in Nat,
           s <= vault.total_shares, a <= vault.total_assets
    PROVE  /\ Burned(s, a) \in RiskVault
           /\ Burned(s, a).total_shares = vault.total_shares - s
           /\ Burned(s, a).total_assets = vault.total_assets - a
           /\ VaultKeeps(Burned(s, a), vault)
<1>1. vault \in RiskVault
  BY DEF Inv, TypeOK
<1> DEFINE shares == vault.total_shares - s
           assets == vault.total_assets - a
<1>2. shares \in Nat /\ assets \in Nat
  BY <1>1 DEF RiskVault
<1>3. Burned(s, a) = VaultWith(vault, shares, assets)
  BY DEF Burned, VaultWith
<1>4. /\ VaultWith(vault, shares, assets) \in RiskVault
      /\ VaultWith(vault, shares, assets).total_shares = shares
      /\ VaultWith(vault, shares, assets).total_assets = assets
      /\ VaultKeeps(VaultWith(vault, shares, assets), vault)
  <2> HIDE DEF shares, assets
  <2> QED BY <1>1, <1>2, VaultStep
<1> QED BY <1>3, <1>4

(* Likewise after a rebalance, whose times are the current slot. *)
LEMMA RebalancedVault ==
    ASSUME Inv, NEW w \in Seq(Nat), NEW e \in Nat, NEW a \in Nat, a <= vault.total_assets
    PROVE  LET v == Rebalanced(w, e, a)
           IN  /\ v \in RiskVault
               /\ v.total_assets = vault.total_assets - a
               /\ v.total_shares = vault.total_shares
               /\ v.last_mgmt_fee_slot = slot /\ v.last_rebalance_slot = slot
               /\ v.peak_equity = Larger(e, vault.peak_equity)
               /\ v.equity_24h_ago \in {e, vault.equity_24h_ago}
               /\ v.rebalance_counter = vault.rebalance_counter + 1
               /\ v.current_weights = w
               /\ v.guardrails = vault.guardrails
<1> DEFINE assets == vault.total_assets - a
           ref == IF EquityIsStale THEN e ELSE vault.equity_24h_ago
           peak == Larger(e, vault.peak_equity)
           count == vault.rebalance_counter + 1
           v1 == [vault EXCEPT !.total_assets = assets]
           v2 == [v1 EXCEPT !.last_mgmt_fee_slot = slot]
           v3 == [v2 EXCEPT !.equity_24h_ago = ref]
           v4 == [v3 EXCEPT !.current_weights = w]
           v5 == [v4 EXCEPT !.peak_equity = peak]
           v6 == [v5 EXCEPT !.last_rebalance_slot = slot]
           v7 == [v6 EXCEPT !.rebalance_counter = count]
<1>1. vault \in RiskVault /\ slot \in Nat
  BY DEF Inv, TypeOK
<1>2. assets \in Nat /\ ref \in Nat /\ peak \in Nat /\ count \in Nat
  BY <1>1 DEF RiskVault, Larger
<1>3. Rebalanced(w, e, a) = v7
  BY DEF Rebalanced
<1>4. ref \in {e, vault.equity_24h_ago}
  OBVIOUS
<1> HIDE DEF ref, peak
<1>5. /\ v1 \in RiskVault /\ v1.total_assets = assets
      /\ v1.total_shares = vault.total_shares /\ v1.guardrails = vault.guardrails
  BY <1>1, <1>2 DEF RiskVault
<1> HIDE DEF assets, count, v1
<1>6. /\ v2 \in RiskVault /\ v2.total_assets = v1.total_assets
      /\ v2.last_mgmt_fee_slot = slot
      /\ v2.total_shares = v1.total_shares /\ v2.guardrails = v1.guardrails
  BY <1>1, <1>5 DEF RiskVault
<1> HIDE DEF v2
<1>7. /\ v3 \in RiskVault /\ v3.total_assets = v2.total_assets
      /\ v3.last_mgmt_fee_slot = v2.last_mgmt_fee_slot /\ v3.equity_24h_ago = ref
      /\ v3.total_shares = v2.total_shares /\ v3.guardrails = v2.guardrails
  BY <1>2, <1>6 DEF RiskVault
<1> HIDE DEF v3
<1>8. /\ v4 \in RiskVault /\ v4.total_assets = v3.total_assets
      /\ v4.last_mgmt_fee_slot = v3.last_mgmt_fee_slot
      /\ v4.equity_24h_ago = v3.equity_24h_ago /\ v4.current_weights = w
      /\ v4.total_shares = v3.total_shares /\ v4.guardrails = v3.guardrails
  BY <1>7 DEF RiskVault
<1> HIDE DEF v4
<1>9. /\ v5 \in RiskVault /\ v5.total_assets = v4.total_assets
      /\ v5.last_mgmt_fee_slot = v4.last_mgmt_fee_slot
      /\ v5.equity_24h_ago = v4.equity_24h_ago
      /\ v5.current_weights = v4.current_weights /\ v5.peak_equity = peak
      /\ v5.total_shares = v4.total_shares /\ v5.guardrails = v4.guardrails
  BY <1>2, <1>8 DEF RiskVault
<1> HIDE DEF v5
<1>10. /\ v6 \in RiskVault /\ v6.total_assets = v5.total_assets
       /\ v6.last_mgmt_fee_slot = v5.last_mgmt_fee_slot
       /\ v6.equity_24h_ago = v5.equity_24h_ago
       /\ v6.current_weights = v5.current_weights
       /\ v6.peak_equity = v5.peak_equity /\ v6.last_rebalance_slot = slot
       /\ v6.total_shares = v5.total_shares /\ v6.guardrails = v5.guardrails
  BY <1>1, <1>9 DEF RiskVault
<1> HIDE DEF v6
<1>11. /\ v7 \in RiskVault /\ v7.total_assets = v6.total_assets
       /\ v7.last_mgmt_fee_slot = v6.last_mgmt_fee_slot
       /\ v7.equity_24h_ago = v6.equity_24h_ago
       /\ v7.current_weights = v6.current_weights
       /\ v7.peak_equity = v6.peak_equity
       /\ v7.last_rebalance_slot = v6.last_rebalance_slot
       /\ v7.rebalance_counter = count
       /\ v7.total_shares = v6.total_shares /\ v7.guardrails = v6.guardrails
  BY <1>2, <1>10 DEF RiskVault
<1> HIDE DEF v7
<1> QED BY <1>3, <1>4, <1>5, <1>6, <1>7, <1>8, <1>9, <1>10, <1>11 DEF assets, peak, count

(* What a deposit, a request and a withdrawal make of a position. *)
LEMMA DepositedPosition ==
    ASSUME NEW q \in UserPosition, NEW m \in Nat, NEW price \in Nat,
           NEW s, Covered(q, s)
    PROVE  /\ Deposited(q, m, price) \in UserPosition
           /\ Covered(Deposited(q, m, price), s)
<1> DEFINE shares == q.shares + m
           h == Larger(price, q.high_water_mark_price)
           x == [q EXCEPT !.open = TRUE]
           y == [x EXCEPT !.shares = shares]
           z == [y EXCEPT !.high_water_mark_price = h]
<1>1. shares \in Nat /\ shares >= q.shares /\ h \in Nat
  BY DEF UserPosition, Larger
<1>2. Deposited(q, m, price) = z
  BY DEF Deposited
<1> HIDE DEF shares, h
<1>3. /\ x \in UserPosition /\ x.open
      /\ x.pending_withdrawal_shares = q.pending_withdrawal_shares
      /\ x.withdraw_request_slot = q.withdraw_request_slot
      /\ x.request_time_share_price = q.request_time_share_price
  BY DEF UserPosition
<1> HIDE DEF x
<1>4. /\ y \in UserPosition /\ y.open = x.open /\ y.shares = shares
      /\ y.pending_withdrawal_shares = x.pending_withdrawal_shares
      /\ y.withdraw_request_slot = x.withdraw_request_slot
      /\ y.request_time_share_price = x.request_time_share_price
  BY <1>1, <1>3 DEF UserPosition
<1> HIDE DEF y
<1>5. /\ z \in UserPosition /\ z.open = y.open /\ z.shares = y.shares
      /\ z.pending_withdrawal_shares = y.pending_withdrawal_shares
      /\ z.withdraw_request_slot = y.withdraw_request_slot
      /\ z.request_time_share_price = y.request_time_share_price
  BY <1>1, <1>4 DEF UserPosition
<1> HIDE DEF z
<1>6. z.pending_withdrawal_shares <= z.shares
  BY <1>1, <1>3, <1>4, <1>5 DEF UserPosition, Covered
<1> QED BY <1>2, <1>3, <1>4, <1>5, <1>6 DEF Covered

(* A request of shares the position has leaves it covered. *)
LEMMA RequestedPosition ==
    ASSUME Inv, NEW q \in UserPosition, NEW n \in Nat, q.open, 0 < n, n <= q.shares
    PROVE  /\ Requested(q, n) \in UserPosition
           /\ Covered(Requested(q, n), slot)
<1> DEFINE price == SharePrice
           x == [q EXCEPT !.pending_withdrawal_shares = n]
           y == [x EXCEPT !.withdraw_request_slot = slot]
           z == [y EXCEPT !.request_time_share_price = price]
<1>1. price \in Nat /\ slot \in Nat
  BY SharePriceType DEF Inv, TypeOK, RiskVault, SharePrice
<1>2. Requested(q, n) = z
  BY DEF Requested
<1> HIDE DEF price
<1>3. /\ x \in UserPosition /\ x.open = q.open /\ x.shares = q.shares
      /\ x.pending_withdrawal_shares = n
  BY DEF UserPosition
<1> HIDE DEF x
<1>4. /\ y \in UserPosition /\ y.open = x.open /\ y.shares = x.shares
      /\ y.pending_withdrawal_shares = x.pending_withdrawal_shares
      /\ y.withdraw_request_slot = slot
  BY <1>1, <1>3 DEF UserPosition
<1> HIDE DEF y
<1>5. /\ z \in UserPosition /\ z.open = y.open /\ z.shares = y.shares
      /\ z.pending_withdrawal_shares = y.pending_withdrawal_shares
      /\ z.withdraw_request_slot = y.withdraw_request_slot
  BY <1>1, <1>4 DEF UserPosition
<1> HIDE DEF z
<1>6. z.open
  BY <1>3, <1>4, <1>5
<1>7. z.pending_withdrawal_shares = n /\ z.shares = q.shares /\ z.withdraw_request_slot = slot
  BY <1>3, <1>4, <1>5
<1> QED BY <1>1, <1>2, <1>5, <1>6, <1>7 DEF Covered, UserPosition

(* A redemption of pending shares leaves a covered position. *)
LEMMA WithdrawnPosition ==
    ASSUME NEW q \in UserPosition, NEW n \in Nat, NEW price \in Nat, NEW s \in Nat,
           q.open, n <= q.shares
    PROVE  /\ Withdrawn(q, n, price) \in UserPosition
           /\ Covered(Withdrawn(q, n, price), s)
<1> DEFINE shares == q.shares - n
           h == IF q.shares > n THEN price ELSE q.high_water_mark_price
           v == [q EXCEPT !.shares = shares]
           w == [v EXCEPT !.pending_withdrawal_shares = 0]
           x == [w EXCEPT !.withdraw_request_slot = 0]
           y == [x EXCEPT !.request_time_share_price = 0]
           z == [y EXCEPT !.high_water_mark_price = h]
<1>1. shares \in Nat /\ h \in Nat
  BY DEF UserPosition
<1>2. Withdrawn(q, n, price) = z
  BY DEF Withdrawn
<1> HIDE DEF shares, h
<1>3. v \in UserPosition /\ v.open = q.open
  BY <1>1 DEF UserPosition
<1> HIDE DEF v
<1>4. /\ w \in UserPosition /\ w.open = v.open
      /\ w.pending_withdrawal_shares = 0
  BY <1>3 DEF UserPosition
<1> HIDE DEF w
<1>5. /\ x \in UserPosition /\ x.open = w.open
      /\ x.pending_withdrawal_shares = 0 /\ x.withdraw_request_slot = 0
  BY <1>4 DEF UserPosition
<1> HIDE DEF x
<1>6. /\ y \in UserPosition /\ y.open = x.open
      /\ y.pending_withdrawal_shares = 0 /\ y.withdraw_request_slot = 0
      /\ y.request_time_share_price = 0
  BY <1>5 DEF UserPosition
<1> HIDE DEF y
<1>7. /\ z \in UserPosition /\ z.open = y.open
      /\ z.pending_withdrawal_shares = 0 /\ z.withdraw_request_slot = 0
      /\ z.request_time_share_price = 0
  BY <1>1, <1>6 DEF UserPosition
<1> HIDE DEF z
<1>8. z.open
  BY <1>3, <1>4, <1>5, <1>6, <1>7
<1> QED BY <1>2, <1>7, <1>8 DEF Covered, UserPosition

-----------------------------------------------------------------------------
(* Every action preserves Inv. *)

(* deposit preserves the invariant, whatever the amount. *)
LEMMA DepositInv ==
    ASSUME Inv, NEW u \in Users, NEW a \in Nat, deposit(u, a)
    PROVE  Inv'
<1> DEFINE m == calculate_shares_to_mint(a, vault.total_assets, vault.total_shares)
           after == Minted(m, a)
           p == Deposited(position[u], m, PriceOf(after))
<1>1. m \in Nat /\ a \in Nat
  BY MintRoundsDown DEF Inv, TypeOK, RiskVault
<1>2. /\ vault' = after
      /\ total_tvl' = total_tvl + a
      /\ position' = [position EXCEPT ![u] = p]
      /\ user_usdc[u] >= a
      /\ user_usdc' = [user_usdc EXCEPT ![u] = @ - a]
      /\ user_shares' = [user_shares EXCEPT ![u] = @ + m]
      /\ vault_usdc' = vault_usdc + a
      /\ UNCHANGED <<halted, protocol_whitelist, treasuryVars, rebalance_record,
                     protocolVars, slot>>
  BY DEF deposit
<1> HIDE DEF m
<1>3. after \in RiskVault /\ VaultKeeps(after, vault)
  BY <1>1, MintedVault
<1> HIDE DEF after
<1>4. PriceOf(after) \in Nat
  BY <1>3, PriceType
<1>5. p \in UserPosition /\ Covered(p, slot)
  BY <1>1, <1>4, DepositedPosition DEF Inv, TypeOK, PendingIsCovered, Covered
<1> HIDE DEF p
<1>6. position' \in [Users -> UserPosition] /\ PendingIsCovered'
  BY <1>2, <1>5, PositionStep
<1>7. user_usdc' \in [Users -> Nat] /\ user_shares' \in [Users -> Nat]
  BY <1>1, <1>2 DEF Inv, TypeOK
<1>8. TypeOK'
  BY <1>1, <1>2, <1>3, <1>6, <1>7 DEF Inv, TypeOK, treasuryVars, protocolVars
<1>9. TimesArePast'
  BY <1>2, <1>3 DEF Inv, TimesArePast, VaultKeeps
<1> QED BY <1>6, <1>8, <1>9 DEF Inv

(* request_withdraw preserves the invariant. *)
LEMMA RequestInv ==
    ASSUME Inv, NEW u \in Users, NEW n \in ShareAmounts \cup {position[u].shares},
           request_withdraw(u, n)
    PROVE  Inv'
<1>1. position[u] \in UserPosition
  BY DEF Inv, TypeOK
<1>2. n \in Nat
  BY <1>1, AllocatorAssumption DEF AllocatorAssumption, UserPosition
<1>3. /\ position[u].open
      /\ 0 < n /\ n <= position[u].shares
      /\ position' = [position EXCEPT ![u] = Requested(@, n)]
      /\ UNCHANGED <<allocatorVars, vault, treasuryVars, rebalance_record, userTokens,
                     vault_usdc, protocolVars, slot>>
  BY <1>1, <1>2 DEF request_withdraw, Requestable, UserPosition
<1>4. Requested(position[u], n) \in UserPosition /\ Covered(Requested(position[u], n), slot)
  BY <1>1, <1>2, <1>3, RequestedPosition
<1>5. position' \in [Users -> UserPosition] /\ PendingIsCovered'
  BY <1>3, <1>4, PositionStep
<1>6. TypeOK'
  BY <1>3, <1>5 DEF Inv, TypeOK, allocatorVars, treasuryVars, userTokens, protocolVars
<1>7. TimesArePast'
  BY <1>3 DEF Inv, TimesArePast
<1> QED BY <1>5, <1>6, <1>7 DEF Inv

(* A redemption: what its amounts are, and that its owner's position is    *)
(* open and covers it.                                                     *)
LEMMA RedemptionFacts ==
    ASSUME Inv, NEW q \in UserPosition, Covered(q, slot), q.pending_withdrawal_shares > 0
    PROVE  LET n == q.pending_withdrawal_shares
               fee == PerformanceFee(EffectivePrice(q), q.high_water_mark_price, n)
           IN  /\ n \in Nat /\ n <= q.shares /\ q.open
               /\ EffectivePrice(q) \in Nat
               /\ EffectivePrice(q) <= SharePrice
               /\ GrossUsdc(q) \in Nat
               /\ fee \in Nat /\ fee <= GrossUsdc(q)
<1> DEFINE n == q.pending_withdrawal_shares
<1>1. q \in UserPosition
  OBVIOUS
<1>2. n \in Nat /\ n <= q.shares /\ q.high_water_mark_price \in Nat
  BY <1>1 DEF UserPosition, Covered
<1>3. q.open
  <2>1. SUFFICES ASSUME ~q.open PROVE FALSE
    OBVIOUS
  <2>2. q = NoPosition
    BY <2>1 DEF Covered
  <2> QED BY <2>2 DEF NoPosition
<1>4. SharePrice \in Nat
  BY SharePriceType DEF Inv, TypeOK, RiskVault, SharePrice
<1>5. EffectivePrice(q) \in Nat /\ EffectivePrice(q) <= SharePrice
  BY <1>1, <1>4 DEF EffectivePrice, Lesser, UserPosition
<1>6. GrossUsdc(q) = ValueAt(n, EffectivePrice(q))
  BY DEF GrossUsdc
<1>7. GrossUsdc(q) \in Nat
  BY <1>2, <1>5, <1>6, ValueRoundsDown
<1>8. LET fee == PerformanceFee(EffectivePrice(q), q.high_water_mark_price, n)
      IN  fee \in Nat /\ fee <= GrossUsdc(q)
  BY <1>2, <1>5, <1>6, PerformanceFeeBounds
<1> QED BY <1>2, <1>3, <1>5, <1>7, <1>8

(* The treasury accounts of their own are finitely many. *)
LEMMA OwnTreasuriesFinite == IsFiniteSet(OwnTreasuries)
  BY AllocatorAssumption, FS_Subset DEF AllocatorAssumption, OwnTreasuries

(* A payment and its fee move the balances: k of the fee leaves the vault's *)
(* account, all of it or, when the treasury is the same account, none.      *)
FeeMoves(net, fee) ==
    \E k \in 0 .. fee :
        /\ vault_usdc' = vault_usdc - net - k
        /\ SumFunction(treasury_usdc') = SumFunction(treasury_usdc) + k
        /\ vault_fees' = vault_fees + fee - k
        /\ OwnTreasuries = TreasuryChoices => k = fee

(* A payment that the vault's account covers keeps the types of the token  *)
(* and treasury accounts, and counts its fee.                              *)
LEMMA PaymentFacts ==
    ASSUME Inv, NEW net \in Nat, NEW fee \in Nat, net + fee <= vault_usdc,
           PayWithFee(net, fee)
    PROVE  /\ vault_usdc' \in Nat /\ vault_usdc' <= vault_usdc
           /\ treasury_usdc' \in [OwnTreasuries -> Nat]
           /\ vault_fees' \in Int
           /\ treasury_account' = treasury_account
           /\ treasury' \in [total_fees_collected : Nat, total_fees_withdrawn : Nat]
           /\ treasury'.total_fees_collected = treasury.total_fees_collected + fee
           /\ treasury'.total_fees_withdrawn = treasury.total_fees_withdrawn
           /\ FeeMoves(net, fee)
<1>1. /\ vault_usdc \in Nat /\ vault_fees \in Int
      /\ treasury_usdc \in [OwnTreasuries -> Nat]
      /\ treasury_account \in TreasuryChoices
      /\ treasury \in [total_fees_collected : Nat, total_fees_withdrawn : Nat]
  BY DEF Inv, TypeOK
<1>2. SumFunction(treasury_usdc) \in Nat
  BY <1>1, OwnTreasuriesFinite, SumType
<1>3. /\ treasury_usdc' = [a \in OwnTreasuries |->
            IF a = treasury_account THEN treasury_usdc[a] + fee ELSE treasury_usdc[a]]
      /\ treasury_account' = treasury_account
      /\ treasury' = FeesCounted(fee)
  BY DEF PayWithFee
<1>4. treasury_usdc' \in [OwnTreasuries -> Nat]
  BY <1>1, <1>3
<1>5. /\ treasury' \in [total_fees_collected : Nat, total_fees_withdrawn : Nat]
      /\ treasury'.total_fees_collected = treasury.total_fees_collected + fee
      /\ treasury'.total_fees_withdrawn = treasury.total_fees_withdrawn
  BY <1>1, <1>3 DEF FeesCounted
<1>6. CASE TreasuryIsVault
  <2>1. vault_usdc' = vault_usdc - net /\ vault_fees' = vault_fees + fee
    BY <1>6 DEF PayWithFee
  <2>2. treasury_account = VaultAccount
    BY <1>6 DEF TreasuryIsVault
  <2>3. treasury_usdc' = treasury_usdc
    BY <1>1, <1>3, <2>2 DEF OwnTreasuries
  <2>4. OwnTreasuries # TreasuryChoices
    BY <1>1, <2>2 DEF OwnTreasuries
  <2>5. FeeMoves(net, fee)
    <3>1. 0 \in 0 .. fee
      OBVIOUS
    <3> QED BY <1>1, <1>2, <2>1, <2>3, <2>4, <3>1 DEF FeeMoves
  <2> QED BY <1>1, <1>3, <1>4, <1>5, <2>1, <2>5
<1>7. CASE ~TreasuryIsVault
  <2>1. vault_usdc' = vault_usdc - net - fee /\ vault_fees' = vault_fees
    BY <1>7 DEF PayWithFee
  <2>2. treasury_account \in OwnTreasuries
    BY <1>1, <1>7 DEF TreasuryIsVault, OwnTreasuries
  <2>3. treasury_usdc' =
          [treasury_usdc EXCEPT ![treasury_account] = treasury_usdc[treasury_account] + fee]
    BY <1>1, <1>3, <2>2
  <2>4. treasury_usdc[treasury_account] \in Nat
    BY <1>1, <2>2
  <2>5. SumFunction(treasury_usdc') = SumFunction(treasury_usdc) + fee
    <3> DEFINE n == treasury_usdc[treasury_account] + fee
    <3>1. n \in Nat
      BY <2>4
    <3> HIDE DEF n
    <3>2. SumFunction([treasury_usdc EXCEPT ![treasury_account] = n])
            = SumFunction(treasury_usdc) - treasury_usdc[treasury_account] + n
      BY <1>1, <2>2, <3>1, OwnTreasuriesFinite, SumOfUpdate
    <3> QED BY <1>2, <2>3, <2>4, <3>2 DEF n
  <2>6. FeeMoves(net, fee)
    <3>1. fee \in 0 .. fee
      OBVIOUS
    <3> QED BY <1>1, <2>1, <2>5, <3>1 DEF FeeMoves
  <2> QED BY <1>1, <1>3, <1>4, <1>5, <2>1, <2>6
<1> QED BY <1>6, <1>7

(* A redemption, from the position of its owner or from one with a request *)
(* made in the same transaction, preserves the invariant.                  *)
LEMMA RedeemInv ==
    ASSUME Inv, NEW u \in Users, NEW q \in UserPosition, Covered(q, slot), Redeem(u, q)
    PROVE  Inv'
<1> DEFINE n == q.pending_withdrawal_shares
           gross == GrossUsdc(q)
           fee == PerformanceFee(EffectivePrice(q), q.high_water_mark_price, n)
           after == Burned(n, gross)
           p == Withdrawn(q, n, PriceOf(after))
<1>1. /\ n > 0
      /\ Payable(q)
      /\ user_shares[u] >= n
      /\ n <= vault.total_shares
      /\ vault' = after
      /\ total_tvl' = total_tvl - gross
      /\ position' = [position EXCEPT ![u] = p]
      /\ user_usdc' = [user_usdc EXCEPT ![u] = @ + gross - fee]
      /\ user_shares' = [user_shares EXCEPT ![u] = @ - n]
      /\ PayWithFee(gross - fee, fee)
      /\ UNCHANGED <<halted, protocol_whitelist, rebalance_record, protocolVars, slot>>
  BY DEF Redeem
<1>2. /\ n \in Nat /\ n <= q.shares /\ q.open
      /\ gross \in Nat /\ fee \in Nat /\ fee <= gross
  BY <1>1, RedemptionFacts
<1>3. gross <= vault_usdc /\ gross <= vault.total_assets /\ gross <= total_tvl
  BY <1>1 DEF Payable
<1>4. q \in UserPosition
  OBVIOUS
<1> HIDE DEF n, gross, fee
<1>5. after \in RiskVault /\ VaultKeeps(after, vault)
  BY <1>1, <1>2, <1>3, BurnedVault
<1> HIDE DEF after
<1>6. p \in UserPosition /\ Covered(p, slot)
  BY <1>2, <1>4, <1>5, PriceType, WithdrawnPosition DEF Inv, TypeOK
<1> HIDE DEF p
<1>7. position' \in [Users -> UserPosition] /\ PendingIsCovered'
  BY <1>1, <1>6, PositionStep
<1>8. user_usdc' \in [Users -> Nat] /\ user_shares' \in [Users -> Nat]
  BY <1>1, <1>2 DEF Inv, TypeOK
<1>9. /\ treasury' \in [total_fees_collected : Nat, total_fees_withdrawn : Nat]
      /\ treasury_account' = treasury_account
      /\ vault_usdc' \in Nat /\ treasury_usdc' \in [OwnTreasuries -> Nat]
      /\ vault_fees' \in Int
  <2>1. gross - fee \in Nat /\ (gross - fee) + fee <= vault_usdc
    BY <1>2, <1>3
  <2> QED BY <1>1, <1>2, <2>1, PaymentFacts
<1>10. TypeOK'
  BY <1>1, <1>2, <1>3, <1>5, <1>7, <1>8, <1>9 DEF Inv, TypeOK, protocolVars
<1>11. TimesArePast'
  BY <1>1, <1>5 DEF Inv, TimesArePast, VaultKeeps
<1> QED BY <1>7, <1>10, <1>11 DEF Inv

(* A user's position is one that may be redeemed from. *)
LEMMA PositionCovered ==
    ASSUME Inv, NEW u \in Users
    PROVE  position[u] \in UserPosition /\ Covered(position[u], slot)
  BY DEF Inv, TypeOK, PendingIsCovered, Covered

(* What withdraw may find in a position: a request made earlier, or in the *)
(* same transaction by a program that calls it.                            *)
Redeemable(u) == {q \in UserPosition : Covered(q, slot) /\ q.shares = position[u].shares}

(* close_user_position preserves the invariant. *)
LEMMA CloseInv ==
    ASSUME Inv, NEW u \in Users, close_user_position(u)
    PROVE  Inv'
<1>1. /\ position' = [position EXCEPT ![u] = NoPosition]
      /\ UNCHANGED <<allocatorVars, vault, treasuryVars, rebalance_record, userTokens,
                     vault_usdc, protocolVars, slot>>
  BY DEF close_user_position
<1>2. NoPosition \in UserPosition /\ Covered(NoPosition, slot)
  BY DEF Inv, TypeOK, NoPosition, UserPosition, Covered
<1>3. position' \in [Users -> UserPosition] /\ PendingIsCovered'
  BY <1>1, <1>2, PositionStep
<1>4. TypeOK'
  BY <1>1, <1>3 DEF Inv, TypeOK, allocatorVars, treasuryVars, userTokens, protocolVars
<1>5. TimesArePast'
  BY <1>1 DEF Inv, TimesArePast
<1> QED BY <1>3, <1>4, <1>5 DEF Inv

(* A transfer of share tokens preserves the invariant. *)
LEMMA TransferInv ==
    ASSUME Inv, NEW u \in Users, NEW w \in Users, NEW n \in TransferAmounts,
           TransferShares(u, w, n)
    PROVE  Inv'
<1>1. n \in Nat
  BY AllocatorAssumption DEF AllocatorAssumption
<1>2. user_shares' \in [Users -> Nat]
  BY <1>1 DEF Inv, TypeOK, TransferShares
<1>3. TypeOK'
  BY <1>2 DEF Inv, TypeOK, TransferShares, allocatorVars, treasuryVars, protocolVars
<1>4. PendingIsCovered' /\ TimesArePast'
  BY DEF Inv, PendingIsCovered, TimesArePast, TransferShares
<1> QED BY <1>3, <1>4 DEF Inv

(* The record accounts after one more is written. *)
LEMMA RecordsStep ==
    ASSUME Inv, NEW n \in Nat, NEW r \in RebalanceRecord
    PROVE  LET rr == WithRecord(n, r)
           IN  /\ DOMAIN rr = DOMAIN rebalance_record \cup {n}
               /\ DOMAIN rr \subseteq Nat
               /\ \A m \in DOMAIN rr : rr[m] \in RebalanceRecord
               /\ rr[n] = r
               /\ \A m \in DOMAIN rebalance_record : m # n => rr[m] = rebalance_record[m]
  BY DEF Inv, TypeOK, WithRecord

(* rebalance preserves the invariant. *)
LEMMA RebalanceInv ==
    ASSUME Inv, NEW w \in WeightVectors, NEW e \in Snapshots, rebalance(w, e)
    PROVE  Inv'
<1> DEFINE fee == ManagementFee(vault.total_assets, SlotsSinceFee)
           paid == Lesser(fee, vault_usdc)
           after == Rebalanced(w, e, paid)
           r == [previous_weights |-> vault.current_weights, new_weights |-> w,
                 slot |-> slot, approved |-> TRUE]
<1>1. /\ paid <= vault.total_assets
      /\ vault' = after
      /\ PayWithFee(0, paid)
      /\ rebalance_record' = WithRecord(vault.rebalance_counter, r)
      /\ UNCHANGED <<allocatorVars, position, userTokens, protocolVars, slot>>
  BY DEF rebalance
<1>2. w \in Seq(Nat) /\ e \in Nat
  BY AllocatorAssumption DEF AllocatorAssumption
<1>3. vault \in RiskVault /\ slot \in Nat
  BY DEF Inv, TypeOK
<1>4. fee \in Nat
  <2>1. SlotsSinceFee \in Nat /\ vault.total_assets \in Nat
    BY <1>3 DEF SlotsSinceFee, Inv, TimesArePast, RiskVault
  <2> QED BY <2>1, ManagementFeeType
<1> HIDE DEF fee
<1>5. paid \in Nat /\ paid <= vault_usdc
  BY <1>4 DEF Lesser, Inv, TypeOK
<1> HIDE DEF paid
<1>6. after \in RiskVault /\ after.last_mgmt_fee_slot = slot /\ after.last_rebalance_slot = slot
  BY <1>1, <1>2, <1>5, RebalancedVault
<1> HIDE DEF after
<1>7. r \in RebalanceRecord /\ vault.rebalance_counter \in Nat
  BY <1>2, <1>3 DEF RiskVault, RebalanceRecord
<1> HIDE DEF r
<1>8. /\ DOMAIN rebalance_record' \subseteq Nat
      /\ \A m \in DOMAIN rebalance_record' : rebalance_record'[m] \in RebalanceRecord
  BY <1>1, <1>7, RecordsStep
<1>9. /\ treasury' \in [total_fees_collected : Nat, total_fees_withdrawn : Nat]
      /\ treasury_account' = treasury_account
      /\ vault_usdc' \in Nat /\ treasury_usdc' \in [OwnTreasuries -> Nat]
      /\ vault_fees' \in Int
  BY <1>1, <1>5, PaymentFacts
<1>10. TypeOK'
  BY <1>1, <1>5, <1>6, <1>8, <1>9
  DEF Inv, TypeOK, allocatorVars, userTokens, protocolVars
<1>11. PendingIsCovered'
  BY <1>1 DEF Inv, PendingIsCovered
<1>12. TimesArePast'
  BY <1>1, <1>3, <1>6 DEF TimesArePast
<1> QED BY <1>10, <1>11, <1>12 DEF Inv

(* The auto-halt of rebalance preserves the invariant. *)
LEMMA AutoHaltInv ==
    ASSUME Inv, NEW w \in WeightVectors, NEW e \in Snapshots, rebalance_auto_halt(w, e)
    PROVE  Inv'
<1>1. /\ halted' = TRUE
      /\ rebalance_record' = WithRecord(vault.rebalance_counter, BlankRecord)
      /\ UNCHANGED <<total_tvl, protocol_whitelist, vault, position, treasuryVars,
                     userTokens, vault_usdc, protocolVars, slot>>
  BY DEF rebalance_auto_halt
<1>2. BlankRecord \in RebalanceRecord /\ vault.rebalance_counter \in Nat
  BY DEF Inv, TypeOK, BlankRecord, RebalanceRecord, RiskVault
<1>3. /\ DOMAIN rebalance_record' \subseteq Nat
      /\ \A m \in DOMAIN rebalance_record' : rebalance_record'[m] \in RebalanceRecord
  BY <1>1, <1>2, RecordsStep
<1>4. TypeOK'
  BY <1>1, <1>3 DEF Inv, TypeOK, treasuryVars, userTokens, protocolVars
<1>5. PendingIsCovered' /\ TimesArePast'
  BY <1>1 DEF Inv, PendingIsCovered, TimesArePast
<1> QED BY <1>4, <1>5 DEF Inv

(* Moves to and from protocols preserve the invariant. *)
LEMMA ProtocolInv ==
    ASSUME Inv, NEW n \in MoveAmounts,
           \/ \E o \in ProtocolOwners : allocate_to_protocol(o, n)
           \/ recall_from_protocol(n)
           \/ ProtocolEarns(n)
           \/ ProtocolLoses(n)
    PROVE  Inv'
<1>1. n \in Nat
  BY AllocatorAssumption DEF AllocatorAssumption
<1>2. /\ vault_usdc' \in Nat /\ protocol_usdc' \in Nat
      /\ external_usdc' \in Nat /\ protocol_pnl' \in Int
      /\ UNCHANGED <<allocatorVars, vault, position, treasuryVars, rebalance_record,
                     userTokens, slot>>
  <2>1. CASE \E o \in ProtocolOwners : allocate_to_protocol(o, n)
    BY <1>1, <2>1 DEF allocate_to_protocol, Inv, TypeOK
  <2>2. CASE recall_from_protocol(n)
    BY <1>1, <2>2 DEF recall_from_protocol, Inv, TypeOK
  <2>3. CASE ProtocolEarns(n)
    BY <1>1, <2>3 DEF ProtocolEarns, Inv, TypeOK
  <2>4. CASE ProtocolLoses(n)
    BY <1>1, <2>4 DEF ProtocolLoses, Inv, TypeOK
  <2> QED BY <2>1, <2>2, <2>3, <2>4
<1>3. TypeOK'
  BY <1>2 DEF Inv, TypeOK, allocatorVars, treasuryVars, userTokens
<1>4. PendingIsCovered' /\ TimesArePast'
  BY <1>2 DEF Inv, PendingIsCovered, TimesArePast
<1> QED BY <1>3, <1>4 DEF Inv

(* emergency_halt and resume preserve the invariant. *)
LEMMA HaltInv ==
    ASSUME Inv, emergency_halt \/ resume
    PROVE  Inv'
<1>1. /\ halted' \in BOOLEAN
      /\ UNCHANGED <<total_tvl, protocol_whitelist, vault, position, treasuryVars,
                     rebalance_record, userTokens, vault_usdc, protocolVars, slot>>
  BY DEF emergency_halt, resume
<1>2. TypeOK'
  BY <1>1 DEF Inv, TypeOK, treasuryVars, userTokens, protocolVars
<1>3. PendingIsCovered' /\ TimesArePast'
  BY <1>1 DEF Inv, PendingIsCovered, TimesArePast
<1> QED BY <1>2, <1>3 DEF Inv

(* The admin's instructions that set a field of the vault. *)
SettingStep ==
    \/ \E g \in GuardrailChoices : update_guardrails(g)
    \/ \E n \in RedemptionChoices : admin_set_redemption_period(n)
    \/ \E c \in CapChoices : update_deposit_cap(c) \/ admin_set_max_single_deposit(c)

(* What they change and what they leave alone. *)
LEMMA SettingFacts ==
    ASSUME Inv, SettingStep
    PROVE  /\ vault' \in RiskVault
           /\ vault'.total_shares = vault.total_shares
           /\ vault'.total_assets = vault.total_assets
           /\ vault'.last_mgmt_fee_slot = vault.last_mgmt_fee_slot
           /\ vault'.last_rebalance_slot = vault.last_rebalance_slot
           /\ vault'.peak_equity = vault.peak_equity
           /\ vault'.equity_24h_ago = vault.equity_24h_ago
           /\ vault'.rebalance_counter = vault.rebalance_counter
           /\ vault'.current_weights = vault.current_weights
           /\ UNCHANGED <<allocatorVars, position, treasuryVars, rebalance_record,
                          userTokens, vault_usdc, protocolVars, slot>>
<1>1. vault \in RiskVault
  BY DEF Inv, TypeOK
<1>2. CASE \E g \in GuardrailChoices : update_guardrails(g)
  BY <1>1, <1>2, AllocatorAssumption
  DEF AllocatorAssumption, update_guardrails, SetVault, RiskVault
<1>3. CASE \E n \in RedemptionChoices : admin_set_redemption_period(n)
  <2> PICK n \in RedemptionChoices : admin_set_redemption_period(n)
    BY <1>3
  <2> DEFINE g == [vault.guardrails EXCEPT !.redemption_period_slots = n]
  <2>1. g \in Guardrails
    BY <1>1, AllocatorAssumption DEF AllocatorAssumption, RiskVault, Guardrails
  <2>2. /\ vault' = [vault EXCEPT !.guardrails = g]
        /\ UNCHANGED <<allocatorVars, position, treasuryVars, rebalance_record,
                       userTokens, vault_usdc, protocolVars, slot>>
    BY <1>1 DEF admin_set_redemption_period, SetVault, RiskVault
  <2> HIDE DEF g
  <2> QED BY <1>1, <2>1, <2>2 DEF RiskVault
<1>4. CASE \E c \in CapChoices : update_deposit_cap(c) \/ admin_set_max_single_deposit(c)
  BY <1>1, <1>4, AllocatorAssumption
  DEF AllocatorAssumption, update_deposit_cap, admin_set_max_single_deposit,
      SetVault, RiskVault
<1> QED BY <1>2, <1>3, <1>4 DEF SettingStep

(* The instructions that set guardrails and caps preserve the invariant. *)
LEMMA SettingInv ==
    ASSUME Inv, SettingStep
    PROVE  Inv'
<1>1. TypeOK'
  BY SettingFacts
  DEF Inv, TypeOK, allocatorVars, treasuryVars, userTokens, protocolVars
<1>2. PendingIsCovered' /\ TimesArePast'
  BY SettingFacts DEF Inv, PendingIsCovered, TimesArePast
<1> QED BY <1>1, <1>2 DEF Inv

(* What a withdrawal from the treasury takes, from which account. *)
LEMMA TreasuryFacts ==
    ASSUME Inv, NEW n \in MoveAmounts, withdraw_treasury(n)
    PROVE  /\ n \in Nat
           /\ treasury' \in [total_fees_collected : Nat, total_fees_withdrawn : Nat]
           /\ treasury'.total_fees_collected = treasury.total_fees_collected
           /\ treasury'.total_fees_withdrawn = treasury.total_fees_withdrawn + n
           /\ n <= treasury.total_fees_collected - treasury.total_fees_withdrawn
           /\ treasury_usdc' \in [OwnTreasuries -> Nat]
           /\ vault_usdc' \in Nat /\ vault_fees' \in Int
           /\ vault_usdc' <= vault_usdc
           /\ \E k \in 0 .. n :
                 /\ vault_usdc' = vault_usdc - k
                 /\ SumFunction(treasury_usdc') = SumFunction(treasury_usdc) - (n - k)
                 /\ vault_fees' = vault_fees - k
                 /\ OwnTreasuries = TreasuryChoices => k = 0
           /\ UNCHANGED <<allocatorVars, vault, position, treasury_account,
                          rebalance_record, userTokens, protocolVars, slot>>
<1>1. n \in Nat
  BY AllocatorAssumption DEF AllocatorAssumption
<1>2. /\ vault_usdc \in Nat /\ vault_fees \in Int
      /\ treasury_usdc \in [OwnTreasuries -> Nat]
      /\ treasury_account \in TreasuryChoices
      /\ treasury \in [total_fees_collected : Nat, total_fees_withdrawn : Nat]
      /\ SumFunction(treasury_usdc) \in Nat
  BY OwnTreasuriesFinite, SumType DEF Inv, TypeOK
<1>3. /\ n <= treasury.total_fees_collected - treasury.total_fees_withdrawn
      /\ treasury' = [treasury EXCEPT !.total_fees_withdrawn = @ + n]
      /\ UNCHANGED <<allocatorVars, vault, position, treasury_account, rebalance_record,
                     userTokens, protocolVars, slot>>
  BY DEF withdraw_treasury
<1>4. /\ treasury' \in [total_fees_collected : Nat, total_fees_withdrawn : Nat]
      /\ treasury'.total_fees_collected = treasury.total_fees_collected
      /\ treasury'.total_fees_withdrawn = treasury.total_fees_withdrawn + n
  BY <1>1, <1>2, <1>3
<1>5. CASE TreasuryIsVault
  <2>1. /\ vault_usdc >= n /\ vault_usdc' = vault_usdc - n
        /\ vault_fees' = vault_fees - n /\ treasury_usdc' = treasury_usdc
    BY <1>5 DEF withdraw_treasury
  <2>2. OwnTreasuries # TreasuryChoices
    BY <1>2, <1>5 DEF OwnTreasuries, TreasuryIsVault
  <2>3. n \in 0 .. n
    BY <1>1
  <2> QED BY <1>1, <1>2, <1>3, <1>4, <2>1, <2>2, <2>3
<1>6. CASE ~TreasuryIsVault
  <2>1. /\ treasury_usdc[treasury_account] >= n
        /\ treasury_usdc' = [treasury_usdc EXCEPT
                               ![treasury_account] = treasury_usdc[treasury_account] - n]
        /\ vault_usdc' = vault_usdc /\ vault_fees' = vault_fees
    BY <1>6 DEF withdraw_treasury
  <2>2. treasury_account \in OwnTreasuries
    BY <1>2, <1>6 DEF TreasuryIsVault, OwnTreasuries
  <2> DEFINE rest == treasury_usdc[treasury_account] - n
  <2>3. rest \in Nat /\ treasury_usdc[treasury_account] \in Nat
    BY <1>1, <1>2, <2>1, <2>2
  <2>4. treasury_usdc' = [treasury_usdc EXCEPT ![treasury_account] = rest]
    BY <2>1
  <2>5. SumFunction(treasury_usdc')
          = SumFunction(treasury_usdc) - treasury_usdc[treasury_account] + rest
    <3> HIDE DEF rest
    <3> QED BY <1>2, <2>2, <2>3, <2>4, OwnTreasuriesFinite, SumOfUpdate
  <2>6. SumFunction(treasury_usdc') = SumFunction(treasury_usdc) - n
    BY <1>1, <1>2, <2>3, <2>5
  <2>7. treasury_usdc' \in [OwnTreasuries -> Nat]
    <3> HIDE DEF rest
    <3> QED BY <1>2, <2>3, <2>4
  <2>8. 0 \in 0 .. n
    BY <1>1
  <2> HIDE DEF rest
  <2> QED BY <1>1, <1>2, <1>3, <1>4, <2>1, <2>6, <2>7, <2>8
<1> QED BY <1>5, <1>6

(* The treasury instructions preserve the invariant. *)
LEMMA TreasuryInv ==
    ASSUME Inv,
           \/ \E n \in MoveAmounts : withdraw_treasury(n)
           \/ \E a \in TreasuryChoices : update_treasury_usdc(a)
    PROVE  Inv'
<1>1. /\ treasury' \in [total_fees_collected : Nat, total_fees_withdrawn : Nat]
      /\ treasury_account' \in TreasuryChoices
      /\ treasury_usdc' \in [OwnTreasuries -> Nat]
      /\ vault_usdc' \in Nat /\ vault_fees' \in Int
      /\ UNCHANGED <<allocatorVars, vault, position, rebalance_record, userTokens,
                     protocolVars, slot>>
  <2>1. CASE \E n \in MoveAmounts : withdraw_treasury(n)
    BY <2>1, TreasuryFacts DEF Inv, TypeOK
  <2>2. CASE \E a \in TreasuryChoices : update_treasury_usdc(a)
    BY <2>2 DEF update_treasury_usdc, Inv, TypeOK
  <2> QED BY <2>1, <2>2
<1>2. TypeOK'
  BY <1>1 DEF Inv, TypeOK, allocatorVars, userTokens, protocolVars
<1>3. PendingIsCovered' /\ TimesArePast'
  BY <1>1 DEF Inv, PendingIsCovered, TimesArePast
<1> QED BY <1>2, <1>3 DEF Inv

(* The whitelist instructions preserve the invariant. *)
LEMMA WhitelistInv ==
    ASSUME Inv, NEW o \in ProtocolOwners,
           add_whitelisted_protocol(o) \/ remove_whitelisted_protocol(o)
    PROVE  Inv'
<1>1. /\ protocol_whitelist' \subseteq ProtocolOwners
      /\ UNCHANGED <<halted, total_tvl, vault, position, treasuryVars, rebalance_record,
                     userTokens, vault_usdc, protocolVars, slot>>
  BY DEF add_whitelisted_protocol, remove_whitelisted_protocol, SetWhitelist, Inv, TypeOK
<1>2. TypeOK'
  BY <1>1 DEF Inv, TypeOK, treasuryVars, userTokens, protocolVars
<1>3. PendingIsCovered' /\ TimesArePast'
  BY <1>1 DEF Inv, PendingIsCovered, TimesArePast
<1> QED BY <1>2, <1>3 DEF Inv

(* close_rebalance_record preserves the invariant. *)
LEMMA CloseRecordInv ==
    ASSUME Inv, NEW n \in DOMAIN rebalance_record, close_rebalance_record(n)
    PROVE  Inv'
<1>1. /\ rebalance_record' = Restrict(rebalance_record, DOMAIN rebalance_record \ {n})
      /\ UNCHANGED <<allocatorVars, vault, position, treasuryVars, userTokens, vault_usdc,
                     protocolVars, slot>>
  BY DEF close_rebalance_record
<1>2. /\ DOMAIN rebalance_record' \subseteq Nat
      /\ \A m \in DOMAIN rebalance_record' : rebalance_record'[m] \in RebalanceRecord
  BY <1>1 DEF Restrict, Inv, TypeOK
<1>3. TypeOK'
  BY <1>1, <1>2 DEF Inv, TypeOK, allocatorVars, treasuryVars, userTokens, protocolVars
<1>4. PendingIsCovered' /\ TimesArePast'
  BY <1>1 DEF Inv, PendingIsCovered, TimesArePast
<1> QED BY <1>3, <1>4 DEF Inv

(* The passing of a slot preserves the invariant. *)
LEMMA TickInv ==
    ASSUME Inv, Tick
    PROVE  Inv'
<1>1. /\ slot' = slot + 1
      /\ UNCHANGED <<allocatorVars, vault, position, treasuryVars, rebalance_record,
                     userTokens, vault_usdc, protocolVars>>
  BY DEF Tick
<1>2. slot \in Nat /\ vault \in RiskVault /\ position \in [Users -> UserPosition]
  BY DEF Inv, TypeOK
<1>3. TypeOK'
  BY <1>1 DEF Inv, TypeOK, allocatorVars, treasuryVars, userTokens, protocolVars
<1>4. \A u \in Users : position[u].withdraw_request_slot \in Nat
  BY <1>2 DEF UserPosition
<1>5. PendingIsCovered'
  BY <1>1, <1>2, <1>4 DEF Inv, PendingIsCovered
<1>6. TimesArePast'
  BY <1>1, <1>2 DEF Inv, TimesArePast, RiskVault
<1> QED BY <1>3, <1>5, <1>6 DEF Inv

(* The steps the program lets any caller take: a user's or another         *)
(* program's, which may deposit any amount and redeem a request it made in *)
(* the same transaction.  The proofs are about these steps; both Next and  *)
(* the strategy of RangerAdaptor take no others.                           *)
Step ==
    \/ \E u \in Users, a \in Nat : deposit(u, a)
    \/ \E u \in Users : \E n \in ShareAmounts \cup {position[u].shares} :
          request_withdraw(u, n)
    \/ \E u \in Users : \E q \in Redeemable(u) : Redeem(u, q)
    \/ \E u \in Users : close_user_position(u)
    \/ \E u, w \in Users, n \in TransferAmounts : TransferShares(u, w, n)
    \/ \E w \in WeightVectors, e \in Snapshots : rebalance(w, e)
    \/ \E w \in WeightVectors, e \in Snapshots : rebalance_auto_halt(w, e)
    \/ \E n \in MoveAmounts :
          \/ \E o \in ProtocolOwners : allocate_to_protocol(o, n)
          \/ recall_from_protocol(n)
          \/ ProtocolEarns(n)
          \/ ProtocolLoses(n)
    \/ emergency_halt \/ resume
    \/ SettingStep
    \/ \E n \in MoveAmounts : withdraw_treasury(n)
    \/ \E a \in TreasuryChoices : update_treasury_usdc(a)
    \/ \E o \in ProtocolOwners :
          add_whitelisted_protocol(o) \/ remove_whitelisted_protocol(o)
    \/ \E n \in DOMAIN rebalance_record : close_rebalance_record(n)
    \/ Tick

OpenSpec == Init /\ [][Step]_vars

(* The steps of Next are among them. *)
LEMMA NextCases == Inv /\ [Next]_vars => [Step]_vars
<1> SUFFICES ASSUME Inv, Next PROVE Step
  OBVIOUS
<1>a. \A a \in DepositAmounts : a \in Nat
  BY AllocatorAssumption DEF AllocatorAssumption
<1>b. ASSUME NEW u \in Users, withdraw(u)
      PROVE  \E q \in Redeemable(u) : Redeem(u, q)
  BY <1>b, PositionCovered DEF withdraw, Redeemable
<1>1. CASE \E u \in Users : UserStep(u)
  BY <1>1, <1>a, <1>b, Zenon DEF UserStep, Step
<1>2. CASE KeeperStep
  BY <1>2, Zenon DEF KeeperStep, Step
<1>3. CASE AdminStep
  BY <1>3, Zenon DEF AdminStep, SettingStep, Step
<1>4. CASE OutsideStep
  BY <1>4, Zenon DEF OutsideStep, Step
<1> QED BY <1>1, <1>2, <1>3, <1>4 DEF Next

(* Every step preserves the invariant. *)
LEMMA InvNext == Inv /\ [Step]_vars => Inv'
<1> SUFFICES ASSUME Inv, [Step]_vars PROVE Inv'
  OBVIOUS
<1>a. ASSUME NEW u \in Users, NEW q \in Redeemable(u), Redeem(u, q)
      PROVE  Inv'
  BY <1>a, RedeemInv DEF Redeemable
<1>1. CASE Step
  BY <1>1, <1>a, DepositInv, RequestInv, CloseInv, TransferInv, RebalanceInv,
     AutoHaltInv, ProtocolInv, HaltInv, SettingInv, TreasuryInv, WhitelistInv,
     CloseRecordInv, TickInv, Zenon DEF Step
<1>2. CASE UNCHANGED vars
  BY <1>2 DEF vars, Inv, TypeOK, PendingIsCovered, TimesArePast
<1> QED BY <1>1, <1>2

(* The invariant holds in every reachable state. *)
LEMMA InvHolds == OpenSpec => []Inv
  BY InvInit, InvNext, PTL DEF OpenSpec

(* The allocator's specification is the open one for the callers and the   *)
(* amounts of a run.                                                       *)
LEMMA SpecIsOpen == Spec => OpenSpec
  BY InvInit, InvNext, NextCases, PTL DEF Spec, OpenSpec

(* Every variable keeps its type; in particular no amount, of USDC or of   *)
(* shares, ever goes below zero.                                           *)
THEOREM TypeCorrect == Spec => []TypeOK
<1>1. Inv => TypeOK
  BY DEF Inv
<1> QED BY <1>1, InvHolds, SpecIsOpen, PTL

(* A pending redemption is covered by its position in every reachable      *)
(* state, and a position without one carries no request.                   *)
THEOREM PendingCovered == Spec => []PendingIsCovered
<1>1. Inv => PendingIsCovered
  BY DEF Inv
<1> QED BY <1>1, InvHolds, SpecIsOpen, PTL

-----------------------------------------------------------------------------
(* What the three actions that change the vault's assets do to the books.  *)

(* A deposit adds its amount to every total, for shares at no more than value. *)
LEMMA DepositFacts ==
    ASSUME Inv, NEW u \in Users, NEW a \in Nat, deposit(u, a)
    PROVE  \E m \in Nat :
              /\ a \in Nat /\ ~halted
              /\ vault.total_shares > 0 =>
                   m * (vault.total_assets + VIRTUAL_OFFSET)
                      <= a * (vault.total_shares + VIRTUAL_OFFSET)
              /\ vault'.total_shares = vault.total_shares + m
              /\ vault'.total_assets = vault.total_assets + a
              /\ VaultKeeps(vault', vault)
              /\ total_tvl' = total_tvl + a
              /\ vault_usdc' = vault_usdc + a
              /\ UNCHANGED <<halted, protocol_whitelist, treasuryVars,
                             rebalance_record, protocolVars, slot>>
<1> DEFINE m == calculate_shares_to_mint(a, vault.total_assets, vault.total_shares)
<1>1. a \in Nat
  OBVIOUS
<1>2. /\ m \in Nat
      /\ vault.total_shares > 0 => m * (vault.total_assets + VIRTUAL_OFFSET)
                                     <= a * (vault.total_shares + VIRTUAL_OFFSET)
  BY <1>1, MintRoundsDown DEF Inv, TypeOK, RiskVault
<1>3. /\ vault' = Minted(m, a) /\ ~halted
      /\ total_tvl' = total_tvl + a /\ vault_usdc' = vault_usdc + a
      /\ UNCHANGED <<halted, protocol_whitelist, treasuryVars, rebalance_record,
                     protocolVars, slot>>
  BY DEF deposit
<1> HIDE DEF m
<1> QED BY <1>1, <1>2, <1>3, MintedVault

(* Likewise for a redemption: what it pays comes off every total. *)
LEMMA RedeemFacts ==
    ASSUME Inv, NEW u \in Users, NEW q \in Redeemable(u), Redeem(u, q)
    PROVE  \E n \in Nat, fee \in Nat :
              /\ n <= vault.total_shares
              /\ GrossUsdc(q) \in Nat
              /\ GrossUsdc(q) <= vault.total_assets
              /\ EffectivePrice(q) \in Nat /\ EffectivePrice(q) <= SharePrice
              /\ GrossUsdc(q) * SHARE_PRICE_PRECISION <= n * EffectivePrice(q)
              /\ vault'.total_shares = vault.total_shares - n
              /\ vault'.total_assets = vault.total_assets - GrossUsdc(q)
              /\ VaultKeeps(vault', vault)
              /\ total_tvl' = total_tvl - GrossUsdc(q)
              /\ vault_usdc' <= vault_usdc
              /\ FeeMoves(GrossUsdc(q) - fee, fee)
              /\ treasury'.total_fees_collected = treasury.total_fees_collected + fee
              /\ treasury'.total_fees_withdrawn = treasury.total_fees_withdrawn
              /\ UNCHANGED <<halted, protocol_whitelist, rebalance_record,
                             protocolVars, slot>>
<1> DEFINE n == q.pending_withdrawal_shares
           fee == PerformanceFee(EffectivePrice(q), q.high_water_mark_price, n)
<1>1. /\ n > 0 /\ Payable(q) /\ n <= vault.total_shares
      /\ vault' = Burned(n, GrossUsdc(q))
      /\ total_tvl' = total_tvl - GrossUsdc(q)
      /\ PayWithFee(GrossUsdc(q) - fee, fee)
      /\ UNCHANGED <<halted, protocol_whitelist, rebalance_record, protocolVars, slot>>
  BY DEF Redeem
<1>2. /\ n \in Nat /\ GrossUsdc(q) \in Nat /\ fee \in Nat /\ fee <= GrossUsdc(q)
      /\ EffectivePrice(q) \in Nat /\ EffectivePrice(q) <= SharePrice
  BY <1>1, RedemptionFacts DEF Redeemable
<1>3. GrossUsdc(q) <= vault.total_assets /\ GrossUsdc(q) <= vault_usdc
  BY <1>1 DEF Payable
<1>4. GrossUsdc(q) * SHARE_PRICE_PRECISION <= n * EffectivePrice(q)
  BY <1>2, ValueRoundsDown DEF GrossUsdc
<1> HIDE DEF n, fee
<1>5. /\ vault'.total_shares = vault.total_shares - n
      /\ vault'.total_assets = vault.total_assets - GrossUsdc(q)
      /\ VaultKeeps(vault', vault)
  BY <1>1, <1>2, <1>3, BurnedVault
<1>6. /\ treasury'.total_fees_collected = treasury.total_fees_collected + fee
      /\ treasury'.total_fees_withdrawn = treasury.total_fees_withdrawn
      /\ vault_usdc' <= vault_usdc /\ FeeMoves(GrossUsdc(q) - fee, fee)
  <2>1. GrossUsdc(q) - fee \in Nat /\ (GrossUsdc(q) - fee) + fee <= vault_usdc
    BY <1>2, <1>3
  <2> QED BY <1>1, <1>2, <2>1, PaymentFacts
<1> QED BY <1>1, <1>2, <1>3, <1>4, <1>5, <1>6

(* Likewise for a rebalance: the fee moves from the vault to the treasury. *)
LEMMA RebalanceFacts ==
    ASSUME Inv, NEW w \in WeightVectors, NEW e \in Snapshots, rebalance(w, e)
    PROVE  \E paid \in Nat :
              /\ paid <= vault.total_assets
              /\ ~halted
              /\ slot - vault.last_rebalance_slot >= MIN_REBALANCE_INTERVAL_SLOTS
              /\ vault.rebalance_counter \notin DOMAIN rebalance_record
              /\ vault'.total_assets = vault.total_assets - paid
              /\ vault'.total_shares = vault.total_shares
              /\ vault'.last_rebalance_slot = slot
              /\ vault'.peak_equity = Larger(e, vault.peak_equity)
              /\ vault'.equity_24h_ago \in {e, vault.equity_24h_ago}
              /\ vault'.rebalance_counter = vault.rebalance_counter + 1
              /\ vault'.current_weights = w
              /\ FeeMoves(0, paid)
              /\ treasury'.total_fees_collected = treasury.total_fees_collected + paid
              /\ treasury'.total_fees_withdrawn = treasury.total_fees_withdrawn
              /\ rebalance_record' = WithRecord(vault.rebalance_counter,
                     [previous_weights |-> vault.current_weights, new_weights |-> w,
                      slot |-> slot, approved |-> TRUE])
              /\ UNCHANGED <<allocatorVars, position, userTokens, protocolVars, slot>>
<1> DEFINE fee == ManagementFee(vault.total_assets, SlotsSinceFee)
           paid == Lesser(fee, vault_usdc)
<1>1. /\ RebalanceChecks(w, e)
      /\ paid <= vault.total_assets
      /\ vault' = Rebalanced(w, e, paid)
      /\ PayWithFee(0, paid)
      /\ rebalance_record' = WithRecord(vault.rebalance_counter,
             [previous_weights |-> vault.current_weights, new_weights |-> w,
              slot |-> slot, approved |-> TRUE])
      /\ UNCHANGED <<allocatorVars, position, userTokens, protocolVars, slot>>
  BY DEF rebalance
<1>2. w \in Seq(Nat) /\ e \in Nat
  BY AllocatorAssumption DEF AllocatorAssumption
<1>3. SlotsSinceFee \in Nat /\ vault.total_assets \in Nat /\ vault_usdc \in Nat
  BY DEF SlotsSinceFee, Inv, TypeOK, TimesArePast, RiskVault
<1>4. paid \in Nat /\ paid <= vault_usdc /\ 0 + paid = paid
  <2>1. fee \in Nat
    BY <1>3, ManagementFeeType
  <2> HIDE DEF fee
  <2> QED BY <1>3, <2>1 DEF Lesser
<1>5. /\ ~halted
      /\ slot - vault.last_rebalance_slot >= MIN_REBALANCE_INTERVAL_SLOTS
      /\ vault.rebalance_counter \notin DOMAIN rebalance_record
  BY <1>1 DEF RebalanceChecks
<1> HIDE DEF paid
<1>6. /\ treasury'.total_fees_collected = treasury.total_fees_collected + paid
      /\ treasury'.total_fees_withdrawn = treasury.total_fees_withdrawn
      /\ FeeMoves(0, paid)
  BY <1>1, <1>4, PaymentFacts
<1>7. /\ vault'.total_assets = vault.total_assets - paid
      /\ vault'.total_shares = vault.total_shares
      /\ vault'.last_rebalance_slot = slot
      /\ vault'.peak_equity = Larger(e, vault.peak_equity)
      /\ vault'.equity_24h_ago \in {e, vault.equity_24h_ago}
      /\ vault'.rebalance_counter = vault.rebalance_counter + 1
      /\ vault'.current_weights = w
  BY <1>1, <1>2, <1>4, RebalancedVault
<1> QED BY <1>1, <1>4, <1>5, <1>6, <1>7

(* The other actions leave the vault's shares and assets alone, or all of  *)
(* the books.                                                              *)
LEMMA VaultActions ==
    ASSUME Inv, Step
    PROVE  \/ \E u \in Users, a \in Nat : deposit(u, a)
           \/ \E u \in Users : \E q \in Redeemable(u) : Redeem(u, q)
           \/ \E w \in WeightVectors, e \in Snapshots : rebalance(w, e)
           \/ SettingStep
           \/ UNCHANGED vault
  BY DEF Step, request_withdraw, close_user_position, TransferShares, rebalance_auto_halt,
      allocate_to_protocol, recall_from_protocol, ProtocolEarns, ProtocolLoses,
      emergency_halt, resume, withdraw_treasury, update_treasury_usdc,
      add_whitelisted_protocol, remove_whitelisted_protocol, SetWhitelist,
      close_rebalance_record, Tick

(* The books: each conjunct is preserved under Inv alone. *)
Books == AssetsAreHeld /\ TreasuryHoldsFees /\ TvlCoversAssets /\ PeakDominates

(* The books balance in a fresh vault. *)
LEMMA BooksInit == Init => Books
<1>1. SumFunction([a \in OwnTreasuries |-> 0]) = 0
  BY OwnTreasuriesFinite, SumOfZeros
<1> QED BY <1>1 DEF Init, Books, AssetsAreHeld, TreasuryHoldsFees, TvlCoversAssets,
            PeakDominates, FeesHeld

(* Every step keeps the books balanced. *)
LEMMA BooksNext == Inv /\ Books /\ [Step]_vars => Books'
<1> SUFFICES ASSUME Inv, Books, [Step]_vars PROVE Books'
  OBVIOUS
<1> USE DEF Books, AssetsAreHeld, TreasuryHoldsFees, TvlCoversAssets, PeakDominates,
        FeesHeld
<1>t. /\ vault.total_assets \in Nat /\ vault.peak_equity \in Nat
      /\ vault.equity_24h_ago \in Nat
      /\ vault_usdc \in Nat /\ protocol_usdc \in Nat /\ external_usdc \in Nat
      /\ protocol_pnl \in Int /\ total_tvl \in Nat
      /\ SumFunction(treasury_usdc) \in Nat /\ vault_fees \in Int
      /\ treasury.total_fees_collected \in Nat /\ treasury.total_fees_withdrawn \in Nat
  BY OwnTreasuriesFinite, SumType DEF Inv, TypeOK, RiskVault
<1>1. ASSUME NEW u \in Users, NEW a \in Nat, deposit(u, a)
      PROVE  Books'
  <2>1. PICK m \in Nat :
         /\ vault'.total_assets = vault.total_assets + a
         /\ VaultKeeps(vault', vault)
         /\ total_tvl' = total_tvl + a
         /\ vault_usdc' = vault_usdc + a
         /\ UNCHANGED <<treasuryVars, protocolVars>>
    BY <1>1, DepositFacts
  <2>2. AssetsAreHeld'
    BY <1>t, <2>1 DEF treasuryVars, protocolVars
  <2>3. TreasuryHoldsFees'
    BY <1>t, <2>1 DEF treasuryVars
  <2>4. TvlCoversAssets' /\ PeakDominates'
    BY <1>t, <2>1 DEF VaultKeeps
  <2> QED BY <2>2, <2>3, <2>4
<1>2. ASSUME NEW u \in Users, NEW q \in Redeemable(u), Redeem(u, q)
      PROVE  Books'
  <2>0. PICK fee \in Nat :
         /\ GrossUsdc(q) \in Nat
         /\ vault'.total_assets = vault.total_assets - GrossUsdc(q)
         /\ VaultKeeps(vault', vault)
         /\ total_tvl' = total_tvl - GrossUsdc(q)
         /\ FeeMoves(GrossUsdc(q) - fee, fee)
         /\ treasury'.total_fees_collected = treasury.total_fees_collected + fee
         /\ treasury'.total_fees_withdrawn = treasury.total_fees_withdrawn
         /\ UNCHANGED protocolVars
    BY <1>2, RedeemFacts
  <2>k. PICK k \in 0 .. fee :
         /\ vault_usdc' = vault_usdc - (GrossUsdc(q) - fee) - k
         /\ SumFunction(treasury_usdc') = SumFunction(treasury_usdc) + k
         /\ vault_fees' = vault_fees + fee - k
         /\ OwnTreasuries = TreasuryChoices => k = fee
    BY <2>0 DEF FeeMoves
  <2>1. AssetsAreHeld'
    BY <1>t, <2>0, <2>k DEF protocolVars
  <2>2. TreasuryHoldsFees'
    BY <1>t, <2>0, <2>k
  <2>3. TvlCoversAssets'
    BY <1>t, <2>0
  <2>4. PeakDominates'
    BY <1>t, <2>0 DEF VaultKeeps
  <2> QED BY <2>1, <2>2, <2>3, <2>4
<1>3. ASSUME NEW w \in WeightVectors, NEW e \in Snapshots, rebalance(w, e)
      PROVE  Books'
  <2>1. e \in Nat
    BY AllocatorAssumption DEF AllocatorAssumption
  <2>2. PICK paid \in Nat :
         /\ vault'.total_assets = vault.total_assets - paid
         /\ vault'.peak_equity = Larger(e, vault.peak_equity)
         /\ vault'.equity_24h_ago \in {e, vault.equity_24h_ago}
         /\ FeeMoves(0, paid)
         /\ treasury'.total_fees_collected = treasury.total_fees_collected + paid
         /\ treasury'.total_fees_withdrawn = treasury.total_fees_withdrawn
         /\ UNCHANGED <<allocatorVars, protocolVars>>
    BY <1>3, RebalanceFacts
  <2>k. PICK k \in 0 .. paid :
         /\ vault_usdc' = vault_usdc - 0 - k
         /\ SumFunction(treasury_usdc') = SumFunction(treasury_usdc) + k
         /\ vault_fees' = vault_fees + paid - k
         /\ OwnTreasuries = TreasuryChoices => k = paid
    BY <2>2 DEF FeeMoves
  <2>3. AssetsAreHeld' /\ TvlCoversAssets'
    BY <1>t, <2>2, <2>k DEF allocatorVars, protocolVars
  <2>4. TreasuryHoldsFees'
    BY <1>t, <2>2, <2>k
  <2>5. PeakDominates'
    BY <1>t, <2>1, <2>2 DEF Larger
  <2> QED BY <2>3, <2>4, <2>5
<1>4. ASSUME NEW n \in MoveAmounts,
             \/ \E o \in ProtocolOwners : allocate_to_protocol(o, n)
             \/ recall_from_protocol(n)
             \/ ProtocolEarns(n)
             \/ ProtocolLoses(n)
      PROVE  Books'
  <2>1. n \in Nat
    BY AllocatorAssumption DEF AllocatorAssumption
  <2> QED BY <1>4, <1>t, <2>1
          DEF allocate_to_protocol, recall_from_protocol, ProtocolEarns, ProtocolLoses,
              allocatorVars, treasuryVars
<1>5. CASE SettingStep
  BY <1>5, <1>t, SettingFacts DEF allocatorVars, treasuryVars, protocolVars
<1>6. ASSUME NEW n \in MoveAmounts, withdraw_treasury(n)
      PROVE  Books'
  <2>1. /\ n \in Nat
        /\ treasury'.total_fees_collected = treasury.total_fees_collected
        /\ treasury'.total_fees_withdrawn = treasury.total_fees_withdrawn + n
        /\ n <= treasury.total_fees_collected - treasury.total_fees_withdrawn
        /\ UNCHANGED <<allocatorVars, vault, protocolVars>>
    BY <1>6, TreasuryFacts
  <2>2. PICK k \in 0 .. n :
         /\ vault_usdc' = vault_usdc - k
         /\ SumFunction(treasury_usdc') = SumFunction(treasury_usdc) - (n - k)
         /\ vault_fees' = vault_fees - k
         /\ OwnTreasuries = TreasuryChoices => k = 0
    BY <1>6, TreasuryFacts
  <2>3. AssetsAreHeld'
    <3> DEFINE held == vault_usdc + SumFunction(treasury_usdc) + protocol_usdc
                         + external_usdc
               owed == vault.total_assets + FeesHeld + protocol_pnl
    <3>1. held' = held - n
      BY <1>t, <2>1, <2>2 DEF protocolVars
    <3>2. owed' = owed - n
      BY <1>t, <2>1 DEF protocolVars
    <3>3. held = owed
      BY <1>t
    <3> QED BY <3>1, <3>2, <3>3
  <2>4. TreasuryHoldsFees'
    BY <1>t, <2>1, <2>2
  <2>5. TvlCoversAssets' /\ PeakDominates'
    BY <1>t, <2>1 DEF allocatorVars
  <2> QED BY <2>3, <2>4, <2>5
<1>7. CASE \E a \in TreasuryChoices : update_treasury_usdc(a)
  BY <1>7, <1>t DEF update_treasury_usdc, allocatorVars, protocolVars
<1>8. ASSUME UNCHANGED <<total_tvl, vault, treasuryVars, vault_usdc, protocolVars>>
      PROVE  Books'
  BY <1>8 DEF treasuryVars, protocolVars
<1>9. \/ \E u \in Users, a \in Nat : deposit(u, a)
      \/ \E u \in Users : \E q \in Redeemable(u) : Redeem(u, q)
      \/ \E w \in WeightVectors, e \in Snapshots : rebalance(w, e)
      \/ \E n \in MoveAmounts :
            \/ \E o \in ProtocolOwners : allocate_to_protocol(o, n)
            \/ recall_from_protocol(n)
            \/ ProtocolEarns(n)
            \/ ProtocolLoses(n)
      \/ SettingStep
      \/ \E n \in MoveAmounts : withdraw_treasury(n)
      \/ \E a \in TreasuryChoices : update_treasury_usdc(a)
      \/ UNCHANGED <<total_tvl, vault, treasuryVars, vault_usdc, protocolVars>>
  <2>1. CASE Step
    BY <2>1
    DEF Step, request_withdraw, close_user_position, TransferShares, rebalance_auto_halt,
        emergency_halt, resume, add_whitelisted_protocol, remove_whitelisted_protocol,
        SetWhitelist, close_rebalance_record, Tick, allocatorVars
  <2>2. CASE UNCHANGED vars
    BY <2>2 DEF vars, treasuryVars, protocolVars
  <2> QED BY <2>1, <2>2
<1> HIDE DEF Books, AssetsAreHeld, TreasuryHoldsFees, TvlCoversAssets, PeakDominates
<1> QED BY <1>1, <1>2, <1>3, <1>4, <1>5, <1>6, <1>7, <1>8, <1>9, Zenon

(* The books balance in every reachable state. *)
LEMMA BooksHold == OpenSpec => []Books
  BY InvHolds, BooksInit, BooksNext, PTL DEF OpenSpec

(* Custody: every unit of USDC the vault counts as an asset and every fee  *)
(* not yet withdrawn is in an account of the program or of a protocol, up  *)
(* to what the protocols earned and lost, for every choice of the treasury *)
(* accounts, the vault's own among them.                                   *)
THEOREM Custody == Spec => []AssetsAreHeld
<1>1. Books => AssetsAreHeld
  BY DEF Books
<1> QED BY <1>1, BooksHold, SpecIsOpen, PTL

(* The treasury accounts of their own hold the fees that are not in the    *)
(* vault's account, all fees when the vault's account is never configured, *)
(* and no more is withdrawn than was collected.                            *)
THEOREM TreasuryBalances == Spec => []TreasuryHoldsFees
<1>1. Books => TreasuryHoldsFees
  BY DEF Books
<1> QED BY <1>1, BooksHold, SpecIsOpen, PTL

(* The TVL never falls below the assets, so it never blocks a redemption.  *)
THEOREM TvlCovers == Spec => []TvlCoversAssets
<1>1. Books => TvlCoversAssets
  BY DEF Books
<1> QED BY <1>1, BooksHold, SpecIsOpen, PTL

(* The peak equity that the drawdown check uses is never below the 24-hour *)
(* reference that the auto-halt uses.                                      *)
THEOREM PeakIsKept == Spec => []PeakDominates
<1>1. Books => PeakDominates
  BY DEF Books
<1> QED
  BY <1>1, BooksHold, SpecIsOpen, PTL

-----------------------------------------------------------------------------
(* A redemption pays at most what its shares are worth at the price of the *)
(* moment, (assets + offset) / (shares + offset), exactly.                 *)
LEMMA RedemptionRoundsDown ==
    ASSUME NEW A \in Nat, NEW S \in Nat, NEW n \in Nat, NEW g \in Nat, NEW price \in Nat,
           n <= S, S > 0, A > 0 \/ g = 0,
           price <= calculate_share_price(A, S),
           g * SHARE_PRICE_PRECISION <= n * price
    PROVE  g * (S + VIRTUAL_OFFSET) <= n * (A + VIRTUAL_OFFSET)
<1> DEFINE X == A + VIRTUAL_OFFSET
           Y == S + VIRTUAL_OFFSET
           P == SHARE_PRICE_PRECISION
<1>1. X \in Nat \ {0} /\ Y \in Nat \ {0} /\ P \in Nat \ {0}
  BY ShareMathAssumption DEF ShareMathAssumption
<1>2. CASE A = 0
  <2>1. g = 0
    BY <1>2
  <2>2. n * X \in Nat
    BY <1>1
  <2> QED BY <1>1, <2>1, <2>2
<1>3. CASE A > 0
  <2>1. calculate_share_price(A, S) = AsU64((X * P) \div Y)
    BY <1>3 DEF calculate_share_price
  <2> HIDE DEF X, Y, P
  <2>2. X * P \in Nat
    BY <1>1
  <2>3. /\ (X * P) \div Y \in Nat /\ ((X * P) \div Y) * Y <= X * P
    BY <1>1, <2>2, DivBounds
  <2>4. price <= (X * P) \div Y
    BY <2>1, <2>3, AsU64Bounds
  <2>5. price * Y <= X * P
    <3>1. price * Y <= ((X * P) \div Y) * Y
      BY <1>1, <2>3, <2>4, ProductMonotone
    <3> QED BY <1>1, <2>2, <2>3, <3>1
  <2>6. (g * P) * Y <= (n * price) * Y
    BY <1>1, ProductMonotone DEF P
  <2>7. (price * Y) * n <= (X * P) * n
    BY <1>1, <2>2, <2>5, ProductMonotone
  <2>8. (g * Y) * P <= (n * X) * P
    <3>1. (g * P) * Y = (g * Y) * P /\ (n * price) * Y = (price * Y) * n
          /\ (X * P) * n = (n * X) * P
      BY <1>1
    <3>2. (g * Y) * P \in Nat /\ (price * Y) * n \in Nat /\ (n * X) * P \in Nat
      BY <1>1
    <3> QED BY <2>6, <2>7, <3>1, <3>2
  <2>9. g * Y \in Nat /\ n * X \in Nat
    BY <1>1
  <2>10. ASSUME NEW a \in Nat, NEW b \in Nat, a * P <= b * P PROVE a <= b
    <3>1. SUFFICES ASSUME a >= b + 1 PROVE FALSE
      BY <2>10
    <3>2. (b + 1) * P <= a * P
      BY <1>1, <3>1, ProductMonotone
    <3> QED BY <1>1, <2>10, <3>2
  <2> QED BY <2>8, <2>9, <2>10 DEF X, Y
<1> QED BY <1>2, <1>3

(* Multiplying out the comparison of two share values. *)
LEMMA ValueComparison ==
    ASSUME NEW X \in Int, NEW Y \in Int, NEW a \in Int, NEW b \in Int, b * X <= a * Y
    PROVE  (X + a) * Y >= X * (Y + b)
<1>1. (X + a) * Y = X * Y + a * Y /\ X * (Y + b) = X * Y + b * X
  OBVIOUS
<1>2. X * Y \in Int /\ a * Y \in Int /\ b * X \in Int
  OBVIOUS
<1> QED BY <1>1, <1>2

(* Whoever calls, no deposit and no redemption lowers the value of a share.*)
LEMMA DilutionNever == OpenSpec => NoDilution
<1> DEFINE Fair == vault.total_shares > 0 /\ vault'.total_shares # vault.total_shares =>
          (vault'.total_assets + VIRTUAL_OFFSET) * (vault.total_shares + VIRTUAL_OFFSET)
            >= (vault.total_assets + VIRTUAL_OFFSET) * (vault'.total_shares + VIRTUAL_OFFSET)
<1>1. Inv /\ [Step]_vars => Fair
  <2> SUFFICES ASSUME Inv, [Step]_vars, vault.total_shares > 0,
                      vault'.total_shares # vault.total_shares
               PROVE  Fair
    OBVIOUS
  <2> DEFINE A == vault.total_assets
             S == vault.total_shares
             X == A + VIRTUAL_OFFSET
             Y == S + VIRTUAL_OFFSET
  <2>1. A \in Nat /\ S \in Nat /\ X \in Nat /\ Y \in Nat /\ VIRTUAL_OFFSET \in Nat
    BY ShareMathAssumption DEF ShareMathAssumption, Inv, TypeOK, RiskVault
  <2>2. ASSUME NEW u \in Users, NEW a \in Nat, deposit(u, a)
        PROVE  Fair
    <3> PICK m \in Nat : /\ a \in Nat
                         /\ m * X <= a * Y
                         /\ vault'.total_shares = S + m
                         /\ vault'.total_assets = A + a
      BY <2>2, DepositFacts
    <3>1. (X + a) * Y >= X * (Y + m)
      BY <2>1, ValueComparison
    <3>2. /\ vault'.total_assets + VIRTUAL_OFFSET = X + a
          /\ vault'.total_shares + VIRTUAL_OFFSET = Y + m
      BY <2>1
    <3> QED BY <3>1, <3>2
  <2>3. ASSUME NEW u \in Users, NEW q \in Redeemable(u), Redeem(u, q)
        PROVE  Fair
    <3> DEFINE g == GrossUsdc(q)
    <3> PICK n \in Nat : /\ n <= S /\ g \in Nat /\ g <= A
                         /\ EffectivePrice(q) \in Nat /\ EffectivePrice(q) <= SharePrice
                         /\ g * SHARE_PRICE_PRECISION <= n * EffectivePrice(q)
                         /\ vault'.total_shares = S - n
                         /\ vault'.total_assets = A - g
      BY <2>3, RedeemFacts
    <3> HIDE DEF g
    <3>1. g * Y <= n * X
      <4>1. A > 0 \/ g = 0
        BY <2>1
      <4> QED BY <2>1, <4>1, RedemptionRoundsDown DEF SharePrice
    <3>2. (-n) * X <= (-g) * Y
      BY <2>1, <3>1
    <3>3. (X + (-g)) * Y >= X * (Y + (-n))
      BY <2>1, <3>2, ValueComparison
    <3>4. /\ vault'.total_assets + VIRTUAL_OFFSET = X + (-g)
          /\ vault'.total_shares + VIRTUAL_OFFSET = Y + (-n)
      BY <2>1
    <3> QED BY <3>3, <3>4
  <2>4. ASSUME NEW w \in WeightVectors, NEW e \in Snapshots, rebalance(w, e)
        PROVE  Fair
    BY <2>4, RebalanceFacts
  <2>5. CASE SettingStep
    BY <2>5, SettingFacts
  <2>6. CASE UNCHANGED vault
    BY <2>6
  <2> HIDE DEF Fair
  <2> QED BY <2>2, <2>3, <2>4, <2>5, <2>6, VaultActions DEF vars
<1>2. [][Fair]_vars => NoDilution
  BY PTL DEF NoDilution
<1> QED BY <1>1, <1>2, InvHolds, PTL DEF OpenSpec

(* No deposit and no withdrawal lowers the value of the shares of those    *)
(* who stay: rounding always favours the vault.                            *)
THEOREM NeverDilutes == Spec => NoDilution
  BY DilutionNever, SpecIsOpen, PTL

-----------------------------------------------------------------------------

(* A step taken while halted moves no funds but a payout. *)
LEMMA FreezeNext ==
    ASSUME Inv, [Step]_vars, halted
    PROVE  /\ vault'.total_shares <= vault.total_shares
           /\ vault'.total_assets <= vault.total_assets
           /\ vault'.last_mgmt_fee_slot = vault.last_mgmt_fee_slot
           /\ vault'.current_weights = vault.current_weights
           /\ vault_usdc' <= vault_usdc
           /\ external_usdc' = external_usdc
           /\ protocol_usdc' - protocol_pnl' = protocol_usdc - protocol_pnl
<1> DEFINE Frozen ==
           /\ vault'.total_shares <= vault.total_shares
           /\ vault'.total_assets <= vault.total_assets
           /\ vault'.last_mgmt_fee_slot = vault.last_mgmt_fee_slot
           /\ vault'.current_weights = vault.current_weights
           /\ vault_usdc' <= vault_usdc
           /\ external_usdc' = external_usdc
           /\ protocol_usdc' - protocol_pnl' = protocol_usdc - protocol_pnl
<1> SUFFICES Frozen
  OBVIOUS
<1>t. /\ vault.total_assets \in Nat /\ vault.total_shares \in Nat /\ vault_usdc \in Nat
      /\ protocol_usdc \in Nat /\ external_usdc \in Nat /\ protocol_pnl \in Int
  BY DEF Inv, TypeOK, RiskVault
<1>1. ASSUME NEW u \in Users, NEW q \in Redeemable(u), Redeem(u, q)
      PROVE  Frozen
  <2> PICK n \in Nat :
         /\ GrossUsdc(q) \in Nat
         /\ vault'.total_shares = vault.total_shares - n
         /\ vault'.total_assets = vault.total_assets - GrossUsdc(q)
         /\ VaultKeeps(vault', vault)
         /\ vault_usdc' <= vault_usdc
         /\ UNCHANGED protocolVars
    BY <1>1, RedeemFacts
  <2>1. /\ vault'.total_shares <= vault.total_shares
        /\ vault'.total_assets <= vault.total_assets
    BY <1>t
  <2> QED BY <1>t, <2>1 DEF VaultKeeps, protocolVars
<1>2. ASSUME NEW n \in MoveAmounts, ProtocolEarns(n) \/ ProtocolLoses(n)
      PROVE  Frozen
  <2>1. n \in Nat
    BY AllocatorAssumption DEF AllocatorAssumption
  <2> QED BY <1>2, <1>t, <2>1 DEF ProtocolEarns, ProtocolLoses
<1>3. CASE SettingStep
  BY <1>3, <1>t, SettingFacts DEF protocolVars
<1>4. CASE UNCHANGED <<vault, vault_usdc, protocolVars>>
  BY <1>4, <1>t DEF protocolVars
<1>6. ASSUME NEW n \in MoveAmounts, withdraw_treasury(n)
      PROVE  Frozen
  BY <1>6, <1>t, TreasuryFacts DEF protocolVars
<1>5. \/ \E u \in Users : \E q \in Redeemable(u) : Redeem(u, q)
      \/ \E n \in MoveAmounts : ProtocolEarns(n) \/ ProtocolLoses(n)
      \/ SettingStep
      \/ \E n \in MoveAmounts : withdraw_treasury(n)
      \/ UNCHANGED <<vault, vault_usdc, protocolVars>>
  <2>1. CASE Step
    BY <2>1
    DEF Step, deposit, rebalance, rebalance_auto_halt, RebalanceChecks, allocate_to_protocol,
        recall_from_protocol, request_withdraw, close_user_position, TransferShares,
        emergency_halt, resume, update_treasury_usdc,
        add_whitelisted_protocol, remove_whitelisted_protocol, SetWhitelist,
        close_rebalance_record, Tick
  <2>2. CASE UNCHANGED vars
    BY <2>2 DEF vars, protocolVars
  <2> QED BY <2>1, <2>2
<1> HIDE DEF Frozen
<1> QED BY <1>1, <1>2, <1>3, <1>4, <1>5, <1>6

(* While the program is halted, USDC leaves the vault's account only by    *)
(* redemption and by the admin's withdrawal of fees.                       *)
THEOREM HaltFreezes == Spec => HaltFreezesFunds
<1>1. Inv /\ [Step]_vars =>
        [ halted =>
            /\ vault'.total_shares <= vault.total_shares
            /\ vault'.total_assets <= vault.total_assets
            /\ vault'.last_mgmt_fee_slot = vault.last_mgmt_fee_slot
            /\ vault'.current_weights = vault.current_weights
            /\ vault_usdc' <= vault_usdc
            /\ external_usdc' = external_usdc
            /\ protocol_usdc' - protocol_pnl' = protocol_usdc - protocol_pnl ]_vars
  BY FreezeNext
<1> QED BY <1>1, InvHolds, SpecIsOpen, PTL DEF OpenSpec, HaltFreezesFunds

-----------------------------------------------------------------------------
(* A snapshot below the halt ratio of the reference is further below the   *)
(* peak than any drawdown cap that is tighter than the halt.               *)
LEMMA CrashExceedsDrawdown ==
    ASSUME NEW e \in Nat, NEW peak \in Nat, NEW ref \in Nat,
           NEW H \in Nat, NEW d \in Nat,
           0 < ref, ref <= peak, d < BPS_DENOMINATOR - H,
           RatioBps(e, ref) < H
    PROVE  e < peak /\ RatioBps(peak - e, peak) > d
<1> DEFINE B == BPS_DENOMINATOR
           q == RatioBps(e, ref)
<1>1. B \in Nat \ {0}
  BY ShareMathAssumption DEF ShareMathAssumption
<1>2. e * B \in Nat
  BY <1>1
<1>3. q \in Nat /\ e * B < (q + 1) * ref
  BY <1>2, DivBounds DEF RatioBps
<1> HIDE DEF q, B
<1>4. (q + 1) * ref <= H * ref
  BY <1>3, ProductMonotone DEF q
<1>5. H * ref <= H * peak
  <2>1. ref * H <= peak * H
    BY ProductMonotone
  <2> QED BY <2>1
<1>6. e * B < H * peak
  <2>1. (q + 1) * ref \in Nat /\ H * ref \in Nat /\ H * peak \in Nat
    BY <1>3
  <2> QED BY <1>2, <1>3, <1>4, <1>5, <2>1
<1>7. d + 1 + H <= B
  BY <1>1 DEF B
<1>8. (d + 1 + H) * peak <= B * peak
  BY <1>1, <1>7, ProductMonotone
<1>9. e < peak
  <2>1. SUFFICES ASSUME peak <= e PROVE FALSE
    OBVIOUS
  <2>2. peak * B <= e * B
    BY <1>1, <2>1, ProductMonotone
  <2>3. H * peak <= B * peak
    BY <1>1, <1>7, ProductMonotone
  <2>4. peak * B = B * peak /\ B * peak \in Nat /\ H * peak \in Nat
    BY <1>1
  <2> QED BY <1>2, <1>6, <2>2, <2>3, <2>4
<1>10. (d + 1) * peak <= (peak - e) * B
  <2>1. (peak - e) * B = B * peak - e * B /\ (d + 1 + H) * peak = (d + 1) * peak + H * peak
    BY <1>1
  <2>2. B * peak \in Nat /\ (d + 1) * peak \in Nat /\ H * peak \in Nat
    BY <1>1
  <2> QED BY <1>2, <1>6, <1>8, <2>1, <2>2
<1> DEFINE r == RatioBps(peak - e, peak)
<1>11. (peak - e) * B \in Nat /\ peak \in Nat \ {0}
  BY <1>1, <1>9
<1>12. r \in Nat /\ (peak - e) * B < (r + 1) * peak
  BY <1>11, DivBounds DEF RatioBps, B
<1> HIDE DEF r
<1>13. r > d
  <2>1. SUFFICES ASSUME r + 1 <= d + 1 PROVE FALSE
    BY <1>12
  <2>2. (r + 1) * peak <= (d + 1) * peak
    BY <1>12, <2>1, ProductMonotone
  <2>3. (r + 1) * peak \in Nat /\ (d + 1) * peak \in Nat
    BY <1>12
  <2> QED BY <1>10, <1>11, <1>12, <2>2, <2>3
<1> QED BY <1>9, <1>13 DEF r

(* With a drawdown cap below the halt threshold no rebalance ever halts    *)
(* the program: the drawdown check refuses every snapshot that would.      *)
THEOREM AutoHaltIsShadowed == Spec => []AutoHaltShadowed
<1>1. Inv /\ Books => AutoHaltShadowed
  <2> SUFFICES ASSUME Inv, Books,
                      vault.guardrails.max_drawdown_bps
                        < BPS_DENOMINATOR - TVL_HALT_THRESHOLD_BPS,
                      NEW e \in Snapshots, CrashDetected(e), WithinDrawdown(e)
               PROVE  FALSE
    BY DEF AutoHaltShadowed
  <2> DEFINE peak == vault.peak_equity
             ref == vault.equity_24h_ago
             d == vault.guardrails.max_drawdown_bps
             H == TVL_HALT_THRESHOLD_BPS
  <2>1. vault \in RiskVault
    BY DEF Inv, TypeOK
  <2>2. /\ peak \in Nat /\ ref \in Nat /\ d \in Nat /\ H \in Nat /\ e \in Nat
    BY <2>1, AllocatorAssumption DEF AllocatorAssumption, RiskVault, Guardrails
  <2>3. 0 < ref /\ RatioBps(e, ref) < H
    BY DEF CrashDetected
  <2>4. ref <= peak
    BY DEF Books, PeakDominates
  <2>5. e < peak /\ RatioBps(peak - e, peak) > d
    <3> HIDE DEF peak, ref, H
    <3> QED BY <2>2, <2>3, <2>4, CrashExceedsDrawdown DEF H
  <2>6. RatioBps(peak - e, peak) <= d
    BY <2>2, <2>3, <2>4, <2>5 DEF WithinDrawdown, RatioWithin
  <2>7. RatioBps(peak - e, peak) \in Int
    <3>1. (peak - e) * BPS_DENOMINATOR \in Nat /\ peak \in Nat \ {0}
      BY <2>2, <2>5, ShareMathAssumption DEF ShareMathAssumption
    <3> QED BY <3>1, DivBounds DEF RatioBps
  <2> QED BY <2>2, <2>5, <2>6, <2>7
<1> QED BY <1>1, InvHolds, BooksHold, SpecIsOpen, PTL

-----------------------------------------------------------------------------

(* There is no record at the start. *)
LEMMA AuditInit == Init => AuditTrail
  BY DEF Init, AuditTrail

(* Every step keeps the records chained. *)
LEMMA AuditNext == Inv /\ AuditTrail /\ [Step]_vars => AuditTrail'
<1> SUFFICES ASSUME Inv, AuditTrail, [Step]_vars PROVE AuditTrail'
  OBVIOUS
<1>1. ASSUME NEW w \in WeightVectors, NEW e \in Snapshots, rebalance(w, e)
      PROVE  AuditTrail'
  <2> DEFINE c == vault.rebalance_counter
             r == [previous_weights |-> vault.current_weights, new_weights |-> w,
                   slot |-> slot, approved |-> TRUE]
  <2>1. /\ slot - vault.last_rebalance_slot >= MIN_REBALANCE_INTERVAL_SLOTS
        /\ c \notin DOMAIN rebalance_record
        /\ vault'.last_rebalance_slot = slot
        /\ vault'.rebalance_counter = c + 1
        /\ vault'.current_weights = w
        /\ rebalance_record' = WithRecord(c, r)
    BY <1>1, RebalanceFacts
  <2>2. c \in Nat /\ DOMAIN rebalance_record \subseteq Nat
    BY DEF Inv, TypeOK, RiskVault
  <2>3. /\ DOMAIN rebalance_record' = DOMAIN rebalance_record \cup {c}
        /\ rebalance_record'[c] = r
        /\ \A m \in DOMAIN rebalance_record : rebalance_record'[m] = rebalance_record[m]
    BY <2>1 DEF WithRecord
  <2>4. /\ r.approved /\ r.previous_weights = vault.current_weights
        /\ r.new_weights = w /\ r.slot = slot
    OBVIOUS
  <2> HIDE DEF r
  <2> SUFFICES ASSUME NEW n \in DOMAIN rebalance_record', rebalance_record'[n].approved
               PROVE  /\ n < c + 1
                      /\ n + 1 = c + 1 =>
                           /\ rebalance_record'[n].new_weights = w
                           /\ rebalance_record'[n].slot = slot
                      /\ n + 1 \in DOMAIN rebalance_record'
                         /\ rebalance_record'[n + 1].approved =>
                           /\ rebalance_record'[n + 1].previous_weights
                                = rebalance_record'[n].new_weights
                           /\ rebalance_record'[n + 1].slot - rebalance_record'[n].slot
                                >= MIN_REBALANCE_INTERVAL_SLOTS
    BY <2>1 DEF AuditTrail
  <2>5. CASE n = c
    <3>1. ASSUME c + 1 \in DOMAIN rebalance_record', rebalance_record'[c + 1].approved
          PROVE  FALSE
      <4>1. c + 1 \in DOMAIN rebalance_record /\ rebalance_record[c + 1].approved
        BY <2>2, <2>3, <3>1
      <4>2. c + 1 < c
        BY <4>1 DEF AuditTrail
      <4> QED BY <2>2, <4>2
    <3> QED BY <2>2, <2>3, <2>4, <2>5, <3>1
  <2>6. CASE n # c
    <3>1. /\ n \in DOMAIN rebalance_record /\ n \in Nat
          /\ rebalance_record'[n] = rebalance_record[n]
          /\ rebalance_record[n].approved
      BY <2>2, <2>3, <2>6
    <3>2. n < c
      BY <3>1 DEF AuditTrail
    <3>3. CASE n + 1 = c
      <4>1. /\ rebalance_record[n].new_weights = vault.current_weights
            /\ rebalance_record[n].slot = vault.last_rebalance_slot
        BY <3>1, <3>3 DEF AuditTrail
      <4> QED BY <2>1, <2>2, <2>3, <2>4, <3>1, <3>2, <3>3, <4>1
    <3>4. CASE n + 1 # c
      BY <2>2, <2>3, <3>1, <3>2, <3>4 DEF AuditTrail
    <3> QED BY <3>3, <3>4
  <2> QED BY <2>5, <2>6
<1>2. ASSUME NEW w \in WeightVectors, NEW e \in Snapshots, rebalance_auto_halt(w, e)
      PROVE  AuditTrail'
  <2> DEFINE c == vault.rebalance_counter
  <2>1. /\ c \notin DOMAIN rebalance_record
        /\ rebalance_record' = WithRecord(c, BlankRecord)
        /\ UNCHANGED vault
    BY <1>2 DEF rebalance_auto_halt, RebalanceChecks
  <2>2. /\ DOMAIN rebalance_record' = DOMAIN rebalance_record \cup {c}
        /\ ~rebalance_record'[c].approved
        /\ \A m \in DOMAIN rebalance_record : rebalance_record'[m] = rebalance_record[m]
    BY <2>1 DEF WithRecord, BlankRecord
  <2> QED BY <2>1, <2>2 DEF AuditTrail
<1>3. ASSUME NEW k \in DOMAIN rebalance_record, close_rebalance_record(k)
      PROVE  AuditTrail'
  <2>1. /\ DOMAIN rebalance_record' = DOMAIN rebalance_record \ {k}
        /\ \A m \in DOMAIN rebalance_record' : rebalance_record'[m] = rebalance_record[m]
        /\ UNCHANGED vault
    BY <1>3 DEF close_rebalance_record, Restrict
  <2> QED BY <2>1 DEF AuditTrail
<1>4. ASSUME UNCHANGED rebalance_record,
             vault'.rebalance_counter = vault.rebalance_counter,
             vault'.current_weights = vault.current_weights,
             vault'.last_rebalance_slot = vault.last_rebalance_slot
      PROVE  AuditTrail'
  BY <1>4 DEF AuditTrail
<1>5. ASSUME NEW u \in Users, NEW a \in Nat, deposit(u, a)
      PROVE  AuditTrail'
  BY <1>4, <1>5, DepositFacts DEF VaultKeeps
<1>6. ASSUME NEW u \in Users, NEW q \in Redeemable(u), Redeem(u, q)
      PROVE  AuditTrail'
  BY <1>4, <1>6, RedeemFacts DEF VaultKeeps
<1>7. CASE SettingStep
  BY <1>4, <1>7, SettingFacts
<1>8. CASE UNCHANGED <<vault, rebalance_record>>
  BY <1>4, <1>8
<1>9. \/ \E w \in WeightVectors, e \in Snapshots : rebalance(w, e)
      \/ \E w \in WeightVectors, e \in Snapshots : rebalance_auto_halt(w, e)
      \/ \E n \in DOMAIN rebalance_record : close_rebalance_record(n)
      \/ \E u \in Users, a \in Nat : deposit(u, a)
      \/ \E u \in Users : \E q \in Redeemable(u) : Redeem(u, q)
      \/ SettingStep
      \/ UNCHANGED <<vault, rebalance_record>>
  <2>1. CASE Step
    BY <2>1
    DEF Step, request_withdraw, close_user_position, TransferShares, allocate_to_protocol,
        recall_from_protocol, ProtocolEarns, ProtocolLoses, emergency_halt, resume,
        withdraw_treasury, update_treasury_usdc, add_whitelisted_protocol,
        remove_whitelisted_protocol, SetWhitelist, Tick
  <2>2. CASE UNCHANGED vars
    BY <2>2 DEF vars
  <2> QED BY <2>1, <2>2
<1> QED BY <1>1, <1>2, <1>3, <1>5, <1>6, <1>7, <1>8, <1>9

(* The rebalance records form a chain that ends in the vault's state.      *)
THEOREM AuditTrailHolds == Spec => []AuditTrail
  BY InvHolds, AuditInit, AuditNext, SpecIsOpen, PTL DEF OpenSpec
-----------------------------------------------------------------------------
(* The helpers of validation.rs against the checks of rebalance *)

(* Every check of weights the helpers make is one of rebalance's. *)
LEMMA WeightsErrOneWay ==
    ASSUME Inv, NEW w \in WeightVectors, ValidWeights(w)
    PROVE  HelpersAdmitWeights(w)
<1> DEFINE old == vault.current_weights
           g == vault.guardrails
<1>1. w \in Seq(Nat) /\ old \in Seq(Nat) /\ DOMAIN w = 1..Len(w) /\ Len(w) \in Nat
  BY AllocatorAssumption DEF AllocatorAssumption, Inv, TypeOK, RiskVault
<1>2. validate_weight_sum(w)
  BY DEF ValidWeights, validate_weight_sum
<1>3. validate_max_weight(w, g.max_single_asset_bps)
  BY <1>1 DEF ValidWeights, validate_max_weight
<1>4. validate_perp_weight(w, g.max_perp_allocation_bps)
  <2>1. w # <<>> => Len(w) > 0
    BY <1>1
  <2> QED BY <2>1 DEF ValidWeights, validate_perp_weight
<1>5. validate_weight_shift(old, w, MAX_SHIFT_BPS)
  <2> SUFFICES ASSUME old # <<>>, NEW i \in DOMAIN w
               PROVE  /\ w[i] <= WeightAt(old, i) + MAX_SHIFT_BPS
                      /\ WeightAt(old, i) <= w[i] + MAX_SHIFT_BPS
    BY DEF validate_weight_shift
  <2>1. i \in 1..(Len(old) + Len(w)) /\ WeightAt(w, i) = w[i]
    BY <1>1 DEF WeightAt
  <2> QED BY <2>1 DEF ValidWeights
<1> QED BY <1>2, <1>3, <1>4, <1>5 DEF HelpersAdmitWeights

(* A ratio is at most m when what it is of is within m of the whole. *)
LEMMA RatioAtMost ==
    ASSUME NEW x \in Nat, NEW whole \in Nat \ {0}, NEW m \in Nat,
           x <= (whole * m) \div BPS_DENOMINATOR
    PROVE  RatioBps(x, whole) <= m
<1> DEFINE B == BPS_DENOMINATOR
           q == (whole * m) \div B
           r == (x * B) \div whole
<1>1. B \in Nat \ {0}
  BY ShareMathAssumption DEF ShareMathAssumption
<1>2. whole * m \in Nat /\ x * B \in Nat
  BY <1>1
<1>3. q \in Nat /\ q * B <= whole * m
  BY <1>1, <1>2, DivBounds
<1>4. r \in Nat /\ r * whole <= x * B
  BY <1>2, DivBounds
<1> HIDE DEF B, q, r
<1>5. x * B <= q * B
  BY <1>1, <1>3, ProductMonotone DEF q, B
<1>6. r * whole <= whole * m
  <2>1. r * whole \in Nat /\ q * B \in Nat
    BY <1>1, <1>3, <1>4
  <2> QED BY <1>2, <1>3, <1>4, <1>5, <2>1
<1>7. SUFFICES ASSUME r >= m + 1 PROVE FALSE
  BY <1>4 DEF r, RatioBps, B
<1>8. (m + 1) * whole <= r * whole
  BY <1>4, <1>7, ProductMonotone
<1>9. (m + 1) * whole = whole * m + whole
  OBVIOUS
<1>10. r * whole \in Nat
  BY <1>4
<1> QED BY <1>2, <1>6, <1>8, <1>9, <1>10

(* A ratio is below m when what it is of is below m of the whole, and then *)
(* its product is below the whole's.                                       *)
LEMMA RatioBelow ==
    ASSUME NEW x \in Nat, NEW whole \in Nat \ {0}, NEW m \in Nat,
           x < (whole * m) \div BPS_DENOMINATOR
    PROVE  /\ RatioBps(x, whole) < m
           /\ Fits(whole * m) => Fits(x * BPS_DENOMINATOR)
<1> DEFINE B == BPS_DENOMINATOR
           q == (whole * m) \div B
           r == (x * B) \div whole
<1>1. B \in Nat \ {0}
  BY ShareMathAssumption DEF ShareMathAssumption
<1>2. whole * m \in Nat /\ x * B \in Nat
  BY <1>1
<1>3. q \in Nat /\ q * B <= whole * m
  BY <1>1, <1>2, DivBounds
<1>4. r \in Nat /\ r * whole <= x * B
  BY <1>2, DivBounds
<1> HIDE DEF q, r
<1>5. (x + 1) * B <= q * B
  <2>1. x + 1 <= q
    BY <1>3 DEF q, B
  <2> HIDE DEF B
  <2> QED BY <1>1, <1>3, <2>1, ProductMonotone
<1> HIDE DEF B
<1>6. r * whole < whole * m
  <2>1. r * whole \in Nat /\ q * B \in Nat
    BY <1>1, <1>3, <1>4
  <2>2. (x + 1) * B = x * B + B
    BY <1>1
  <2> QED BY <1>1, <1>2, <1>3, <1>4, <1>5, <2>1, <2>2
<1>a. Fits(whole * m) => Fits(x * B)
  <2>1. (x + 1) * B = x * B + B
    BY <1>1
  <2>2. q * B \in Nat
    BY <1>1, <1>3
  <2>3. x * B <= whole * m
    BY <1>1, <1>2, <1>3, <1>5, <2>1, <2>2
  <2> QED BY <1>2, <2>3, ShareMathAssumption DEF Fits, U64, ShareMathAssumption
<1>7. SUFFICES ASSUME r >= m PROVE FALSE
  BY <1>4, <1>a DEF r, RatioBps, B
<1>8. m * whole <= r * whole
  BY <1>4, <1>7, ProductMonotone
<1>9. m * whole = whole * m /\ r * whole \in Nat
  BY <1>4
<1> QED BY <1>2, <1>6, <1>8, <1>9

(* In every state the program reaches, and with the checked products of    *)
(* both, the helpers of validation.rs err on one side of the checks        *)
(* rebalance makes: their weight checks are no stricter, what their        *)
(* drawdown check admits rebalance admits unless its own product           *)
(* overflows, when they halt rebalance halts, and their divergence check   *)
(* is the same where it gives an answer; for any weights and snapshots.    *)
THEOREM HelpersErr == Spec => []HelpersErrOneWay
<1>1. Inv => HelpersErrOneWay
  <2> SUFFICES ASSUME Inv PROVE HelpersErrOneWay
    OBVIOUS
  <2> DEFINE peak == vault.peak_equity
             max == vault.guardrails.max_drawdown_bps
             ref == vault.equity_24h_ago
             assets == vault.total_assets
             threshold == (assets * ORACLE_DIVERGENCE_BPS) \div BPS_DENOMINATOR
  <2>1. /\ peak \in Nat /\ max \in Nat /\ ref \in Nat /\ assets \in Nat
        /\ TVL_HALT_THRESHOLD_BPS \in Nat
    BY AllocatorAssumption DEF AllocatorAssumption, Inv, TypeOK, RiskVault, Guardrails
  <2>2. threshold \in Nat
    <3>1. assets * ORACLE_DIVERGENCE_BPS \in Nat
      BY <2>1, AllocatorAssumption DEF AllocatorAssumption
    <3> QED BY <3>1, DivBounds, ShareMathAssumption DEF ShareMathAssumption
  <2>3. ASSUME NEW w \in WeightVectors, ValidWeights(w) PROVE HelpersAdmitWeights(w)
    BY <2>3, WeightsErrOneWay
  <2>4. ASSUME NEW e \in Snapshots
        PROVE  /\ ~check_drawdown_exceeded(e, peak, max)
                    => WithinDrawdown(e) \/ DrawdownOverflows(e)
               /\ should_auto_halt(e, ref) => CrashDetected(e) /\ CrashRatioFits(e)
               /\ WithinDivergence(e) <=>
                    DivergenceAnswered(assets) /\ ~check_oracle_divergence(e, assets)
    <3>1. e \in Nat
      BY AllocatorAssumption DEF AllocatorAssumption
    <3>2. ~check_drawdown_exceeded(e, peak, max)
            => WithinDrawdown(e) \/ DrawdownOverflows(e)
      <4> SUFFICES ASSUME ~check_drawdown_exceeded(e, peak, max), peak > 0, e < peak
                   PROVE  RatioBps(peak - e, peak) <= max
        BY DEF WithinDrawdown, RatioWithin, DrawdownOverflows
      <4>1. (peak * max) \div BPS_DENOMINATOR \in Nat
        <5>1. peak * max \in Nat
          BY <2>1
        <5> QED BY <5>1, DivBounds, ShareMathAssumption DEF ShareMathAssumption
      <4>2. peak - e <= (peak * max) \div BPS_DENOMINATOR /\ peak - e \in Nat
        BY <2>1, <3>1, <4>1 DEF check_drawdown_exceeded
      <4> QED BY <2>1, <4>2, RatioAtMost
    <3>3. should_auto_halt(e, ref) => CrashDetected(e) /\ CrashRatioFits(e)
      <4> SUFFICES ASSUME should_auto_halt(e, ref)
                   PROVE  CrashDetected(e) /\ CrashRatioFits(e)
        OBVIOUS
      <4>1. /\ ref \in Nat \ {0} /\ Fits(ref * TVL_HALT_THRESHOLD_BPS)
            /\ e < (ref * TVL_HALT_THRESHOLD_BPS) \div BPS_DENOMINATOR
        BY <2>1 DEF should_auto_halt
      <4> QED BY <2>1, <3>1, <4>1, RatioBelow DEF CrashDetected, CrashRatioFits
    <3>4. WithinDivergence(e) <=>
            DivergenceAnswered(assets) /\ ~check_oracle_divergence(e, assets)
      <4>1. check_oracle_divergence(e, assets)
              <=> assets # 0 /\ Larger(e, assets) - Lesser(e, assets) > threshold
        BY DEF check_oracle_divergence
      <4> DEFINE answered == Fits(assets * ORACLE_DIVERGENCE_BPS)
      <4>2. WithinDivergence(e)
              <=> (assets > 0 => answered /\ e <= assets + threshold
                                          /\ assets <= e + threshold)
        BY DEF WithinDivergence
      <4>3. DivergenceAnswered(assets) <=> (assets # 0 => answered)
        BY DEF DivergenceAnswered
      <4> HIDE DEF threshold, assets, answered
      <4> QED BY <2>1, <2>2, <3>1, <4>1, <4>2, <4>3 DEF Larger, Lesser
    <3> QED BY <3>2, <3>3, <3>4
  <2> QED BY <2>3, <2>4 DEF HelpersErrOneWay
<1> QED BY <1>1, InvHolds, SpecIsOpen, PTL

-----------------------------------------------------------------------------
(* The share ledger *)

(* The shares of the positions, by user. *)
PositionShares == [u \in Users |-> position[u].shares]

(* Both sides of the ledger are functions with a sum. *)
LEMMA LedgerTypes ==
    ASSUME Inv
    PROVE  /\ IsFiniteSet(Users)
           /\ PositionShares \in [Users -> Nat] /\ user_shares \in [Users -> Nat]
           /\ SumFunction(PositionShares) \in Nat /\ SumFunction(user_shares) \in Nat
<1>1. IsFiniteSet(Users)
  BY AllocatorAssumption DEF AllocatorAssumption
<1>2. PositionShares \in [Users -> Nat] /\ user_shares \in [Users -> Nat]
  BY DEF Inv, TypeOK, UserPosition, PositionShares
<1> QED BY <1>1, <1>2, SumType

(* A step that changes the shares of one position, of one token account    *)
(* and of the vault by the same amount keeps the three counts equal.       *)
LEMMA LedgerStep ==
    ASSUME Inv, ShareLedgerBalances,
           NEW u \in Users, NEW p \in UserPosition, NEW n \in Nat,
           position' = [position EXCEPT ![u] = p],
           user_shares' = [user_shares EXCEPT ![u] = n],
           vault'.total_shares = vault.total_shares - position[u].shares + p.shares,
           vault'.total_shares = vault.total_shares - user_shares[u] + n
    PROVE  ShareLedgerBalances'
<1>1. vault.total_shares = SumFunction(PositionShares) /\ vault.total_shares = SumFunction(user_shares)
  BY DEF ShareLedgerBalances, PositionShares
<1>2. PositionShares' = [PositionShares EXCEPT ![u] = p.shares]
  BY DEF PositionShares, Inv, TypeOK
<1>3. p.shares \in Nat /\ PositionShares[u] = position[u].shares
  BY DEF UserPosition, PositionShares
<1>4. SumFunction([PositionShares EXCEPT ![u] = p.shares])
        = SumFunction(PositionShares) - PositionShares[u] + p.shares
  BY <1>3, LedgerTypes, SumOfUpdate
<1>5. SumFunction([user_shares EXCEPT ![u] = n]) = SumFunction(user_shares) - user_shares[u] + n
  BY LedgerTypes, SumOfUpdate
<1>6. vault'.total_shares = SumFunction(PositionShares')
  BY <1>1, <1>2, <1>3, <1>4
<1>7. vault'.total_shares = SumFunction(user_shares')
  BY <1>1, <1>5
<1> QED BY <1>6, <1>7 DEF ShareLedgerBalances, PositionShares

(* A step that changes the shares of no position and of no token account. *)
LEMMA LedgerKept ==
    ASSUME Inv, ShareLedgerBalances,
           \A u \in Users : position'[u].shares = position[u].shares,
           user_shares' = user_shares,
           vault'.total_shares = vault.total_shares
    PROVE  ShareLedgerBalances'
<1>1. PositionShares' = PositionShares
  BY DEF PositionShares
<1> QED BY <1>1 DEF ShareLedgerBalances, PositionShares

(* A share transfer moves as much into one account as out of the other. *)
LEMMA LedgerTransfer ==
    ASSUME Inv, ShareLedgerBalances, NEW u \in Users, NEW w \in Users, NEW n \in Nat,
           TransferShares(u, w, n)
    PROVE  ShareLedgerBalances'
<1> DEFINE f == [user_shares EXCEPT ![u] = user_shares[u] - n]
           g == [f EXCEPT ![w] = user_shares[w] + n]
<1>1. /\ u # w /\ n <= user_shares[u]
      /\ position' = position /\ vault' = vault
      /\ user_shares' = [user_shares EXCEPT ![u] = @ - n, ![w] = @ + n]
  BY DEF TransferShares
<1>2. user_shares \in [Users -> Nat] /\ IsFiniteSet(Users)
  BY LedgerTypes
<1>3. user_shares[u] - n \in Nat /\ user_shares[w] + n \in Nat
  BY <1>1, <1>2
<1>4. user_shares' = g
  BY <1>1, <1>2
<1>5. SumFunction(f) = SumFunction(user_shares) - user_shares[u] + (user_shares[u] - n)
  BY <1>2, <1>3, SumOfUpdate
<1>6. f \in [Users -> Nat] /\ f[w] = user_shares[w]
  BY <1>1, <1>2, <1>3
<1> HIDE DEF f
<1>7. SumFunction(g) = SumFunction(f) - f[w] + (user_shares[w] + n)
  BY <1>2, <1>3, <1>6, SumOfUpdate
<1>8. SumFunction(user_shares') = SumFunction(user_shares)
  <2>1. SumFunction(user_shares) \in Nat /\ user_shares[u] \in Nat /\ user_shares[w] \in Nat
    BY LedgerTypes
  <2> HIDE DEF g
  <2> QED BY <1>4, <1>5, <1>6, <1>7, <2>1
<1> QED BY <1>1, <1>8 DEF ShareLedgerBalances

(* Minting and burning change a position and a token account together. *)
LEMMA LedgerDeposit ==
    ASSUME Inv, ShareLedgerBalances, NEW u \in Users, NEW a \in Nat, deposit(u, a)
    PROVE  ShareLedgerBalances'
<1> DEFINE m == calculate_shares_to_mint(a, vault.total_assets, vault.total_shares)
           after == Minted(m, a)
           p == Deposited(position[u], m, PriceOf(after))
<1>1. m \in Nat /\ a \in Nat
  BY MintRoundsDown DEF Inv, TypeOK, RiskVault
<1>2. /\ vault' = after
      /\ position' = [position EXCEPT ![u] = p]
      /\ user_shares' = [user_shares EXCEPT ![u] = @ + m]
  BY DEF deposit
<1> HIDE DEF m
<1>3. after \in RiskVault /\ after.total_shares = vault.total_shares + m
  BY <1>1, MintedVault
<1> HIDE DEF after
<1>4. PriceOf(after) \in Nat
  BY <1>3, PriceType
<1>5. position[u] \in UserPosition /\ p \in UserPosition
  BY <1>1, <1>4, DepositedPosition DEF Inv, TypeOK, PendingIsCovered, Covered
<1>6. p.shares = position[u].shares + m
  BY <1>5 DEF Deposited, UserPosition
<1> HIDE DEF p
<1>7. user_shares' = [user_shares EXCEPT ![u] = user_shares[u] + m] /\ user_shares[u] \in Nat
  BY <1>2 DEF Inv, TypeOK
<1>8. vault.total_shares \in Nat /\ position[u].shares \in Nat
  BY <1>5 DEF Inv, TypeOK, RiskVault, UserPosition
<1>9. user_shares[u] + m \in Nat
  BY <1>1, <1>7
<1>10. /\ vault'.total_shares = vault.total_shares - position[u].shares + p.shares
       /\ vault'.total_shares = vault.total_shares - user_shares[u] + (user_shares[u] + m)
  BY <1>1, <1>2, <1>3, <1>6, <1>7, <1>8
<1> QED BY <1>2, <1>5, <1>7, <1>9, <1>10, LedgerStep

(* A redemption, from the position a user has or, shares aside, another. *)
LEMMA LedgerRedeem ==
    ASSUME Inv, ShareLedgerBalances, NEW u \in Users, NEW q \in UserPosition,
           Covered(q, slot), q.shares = position[u].shares, Redeem(u, q)
    PROVE  ShareLedgerBalances'
<1> DEFINE n == q.pending_withdrawal_shares
           gross == GrossUsdc(q)
           after == Burned(n, gross)
           p == Withdrawn(q, n, PriceOf(after))
<1>1. /\ n > 0 /\ Payable(q) /\ user_shares[u] >= n /\ n <= vault.total_shares
      /\ vault' = after
      /\ position' = [position EXCEPT ![u] = p]
      /\ user_shares' = [user_shares EXCEPT ![u] = @ - n]
  BY DEF Redeem
<1>2. n \in Nat /\ n <= q.shares /\ q.open /\ gross \in Nat
  BY <1>1, RedemptionFacts
<1>3. gross <= vault.total_assets
  BY <1>1 DEF Payable
<1> HIDE DEF n, gross
<1>4. after \in RiskVault /\ after.total_shares = vault.total_shares - n
  BY <1>1, <1>2, <1>3, BurnedVault
<1> HIDE DEF after
<1>5. p \in UserPosition
  BY <1>2, <1>4, PriceType, WithdrawnPosition DEF Inv, TypeOK
<1>6. p.shares = q.shares - n
  BY DEF Withdrawn, UserPosition
<1> HIDE DEF p
<1>7. user_shares' = [user_shares EXCEPT ![u] = user_shares[u] - n] /\ user_shares[u] \in Nat
  BY <1>1 DEF Inv, TypeOK
<1>8. vault.total_shares \in Nat /\ q.shares \in Nat
  BY DEF Inv, TypeOK, RiskVault, UserPosition
<1>9. user_shares[u] - n \in Nat
  BY <1>1, <1>2, <1>7
<1>10. /\ vault'.total_shares = vault.total_shares - position[u].shares + p.shares
       /\ vault'.total_shares = vault.total_shares - user_shares[u] + (user_shares[u] - n)
  BY <1>1, <1>2, <1>4, <1>6, <1>7, <1>8
<1> QED BY <1>1, <1>5, <1>7, <1>9, <1>10, LedgerStep

(* Every step keeps the share ledger balanced. *)
LEMMA LedgerNext == Inv /\ ShareLedgerBalances /\ [Step]_vars => ShareLedgerBalances'
<1> SUFFICES ASSUME Inv, ShareLedgerBalances, [Step]_vars PROVE ShareLedgerBalances'
  OBVIOUS
<1>1. ASSUME NEW u \in Users, NEW a \in Nat, deposit(u, a) PROVE ShareLedgerBalances'
  BY <1>1, LedgerDeposit
<1>2. ASSUME NEW u \in Users, NEW n \in ShareAmounts \cup {position[u].shares},
             request_withdraw(u, n)
      PROVE  ShareLedgerBalances'
  <2>1. /\ position' = [position EXCEPT ![u] = Requested(@, n)]
        /\ vault' = vault /\ user_shares' = user_shares
    BY <1>2 DEF request_withdraw, userTokens
  <2>2. Requested(position[u], n).shares = position[u].shares
    BY DEF Requested, Inv, TypeOK, UserPosition
  <2>3. \A w \in Users : position'[w].shares = position[w].shares
    BY <2>1, <2>2 DEF Inv, TypeOK
  <2> QED BY <2>1, <2>3, LedgerKept
<1>3. ASSUME NEW u \in Users, NEW q \in Redeemable(u), Redeem(u, q)
      PROVE  ShareLedgerBalances'
  BY <1>3, LedgerRedeem DEF Redeemable
<1>4. ASSUME NEW u \in Users, close_user_position(u) PROVE ShareLedgerBalances'
  <2>1. /\ position' = [position EXCEPT ![u] = NoPosition]
        /\ position[u].shares = 0
        /\ vault' = vault /\ user_shares' = user_shares
    BY <1>4 DEF close_user_position, userTokens
  <2>2. \A w \in Users : position'[w].shares = position[w].shares
    BY <2>1 DEF Inv, TypeOK, NoPosition
  <2> QED BY <2>1, <2>2, LedgerKept
<1>5. ASSUME NEW u \in Users, NEW w \in Users, NEW n \in TransferAmounts,
             TransferShares(u, w, n)
      PROVE  ShareLedgerBalances'
  BY <1>5, LedgerTransfer, AllocatorAssumption DEF AllocatorAssumption
<1>6. ASSUME UNCHANGED <<position, user_shares>>, vault'.total_shares = vault.total_shares
      PROVE  ShareLedgerBalances'
  BY <1>6, LedgerKept
<1>7. ASSUME NEW w \in WeightVectors, NEW e \in Snapshots, rebalance(w, e)
      PROVE  ShareLedgerBalances'
  <2>1. vault'.total_shares = vault.total_shares
    BY <1>7, RebalanceFacts
  <2>2. UNCHANGED <<position, user_shares>>
    BY <1>7 DEF rebalance, userTokens
  <2> QED BY <1>6, <2>1, <2>2
<1>8. CASE SettingStep
  BY <1>6, <1>8, SettingFacts DEF userTokens
<1>9. CASE UNCHANGED <<vault, position, user_shares>>
  BY <1>6, <1>9
<1>10. CASE Step
  <2>1. \/ \E u \in Users, a \in Nat : deposit(u, a)
        \/ \E u \in Users : \E n \in ShareAmounts \cup {position[u].shares} :
              request_withdraw(u, n)
        \/ \E u \in Users : \E q \in Redeemable(u) : Redeem(u, q)
        \/ \E u \in Users : close_user_position(u)
        \/ \E u, w \in Users, n \in TransferAmounts : TransferShares(u, w, n)
        \/ \E w \in WeightVectors, e \in Snapshots : rebalance(w, e)
        \/ SettingStep
        \/ UNCHANGED <<vault, position, user_shares>>
    BY <1>10
    DEF Step, rebalance_auto_halt, allocate_to_protocol, recall_from_protocol, ProtocolEarns,
        ProtocolLoses, emergency_halt, resume, withdraw_treasury, update_treasury_usdc,
        add_whitelisted_protocol, remove_whitelisted_protocol, SetWhitelist,
        close_rebalance_record, Tick, userTokens
  <2> QED BY <2>1, <1>1, <1>2, <1>3, <1>4, <1>5, <1>7, <1>8, <1>9, Zenon
<1>11. CASE UNCHANGED vars
  BY <1>11, <1>9 DEF vars
<1> QED BY <1>10, <1>11

(* The ledger of a fresh vault is empty. *)
LEMMA LedgerInit == Init => ShareLedgerBalances
<1> SUFFICES ASSUME Init PROVE ShareLedgerBalances
  OBVIOUS
<1>1. vault.total_shares = 0 /\ user_shares = [u \in Users |-> 0]
  BY DEF Init
<1>2. PositionShares = [u \in Users |-> 0]
  BY DEF Init, PositionShares, NoPosition
<1>3. SumFunction([u \in Users |-> 0]) = 0
  BY SumOfZeros, AllocatorAssumption DEF AllocatorAssumption
<1> QED BY <1>1, <1>2, <1>3 DEF ShareLedgerBalances, PositionShares

(* The ledger balances whoever calls the program. *)
LEMMA LedgerHolds == OpenSpec => []ShareLedgerBalances
  BY InvHolds, LedgerInit, LedgerNext, PTL DEF OpenSpec

(* The vault's shares, the shares of all positions and the share tokens in *)
(* circulation are the same number in every reachable state, for any       *)
(* finite set of users.                                                    *)
THEOREM SharesBalance == Spec => []ShareLedgerBalances
  BY LedgerHolds, SpecIsOpen, PTL

(* No position holds more shares than the vault has issued. *)
LEMMA PositionWithinSupply ==
    ASSUME Inv, ShareLedgerBalances, NEW u \in Users
    PROVE  position[u].shares <= vault.total_shares
<1>1. PositionShares[u] <= SumFunction(PositionShares)
  BY LedgerTypes, SumBoundsValue
<1>2. PositionShares[u] = position[u].shares
  BY DEF PositionShares
<1> QED BY <1>1, <1>2 DEF ShareLedgerBalances, PositionShares

(* Beyond assets A > 0 a redemption g of n out of S shares, rounded down at *)
(* the price with the virtual offset V, lacks only what the offset adds.    *)
LEMMA LackBounds ==
    ASSUME NEW A \in Nat, NEW S \in Nat, NEW V \in Nat \ {0}, NEW n \in Nat, NEW g \in Nat,
           n <= S, g > A, g * (S + V) <= n * (A + V)
    PROVE  /\ n > A
           /\ g - A < V
           /\ (g - A) * (S + V) <= V * (n - A) - A * (S - n)
<1> DEFINE lack == g - A
           Y == S + V
           rest == A * (S - n)
<1>1. lack \in Nat \ {0} /\ Y \in Nat \ {0} /\ S - n \in Nat
  OBVIOUS
<1>2. rest \in Nat
  BY <1>1
<1>3. lack * Y <= V * (n - A) - rest
  <2>1. lack * Y = g * Y - A * Y
    OBVIOUS
  <2>2. A * Y = A * S + A * V /\ n * (A + V) = n * A + n * V
    OBVIOUS
  <2>3. V * (n - A) = n * V - A * V /\ rest = A * S - n * A
    OBVIOUS
  <2>4. /\ g * Y \in Int /\ A * Y \in Int /\ A * S \in Int /\ A * V \in Int
        /\ n * A \in Int /\ n * V \in Int
    OBVIOUS
  <2> HIDE DEF lack, rest
  <2> QED BY <2>1, <2>2, <2>3, <2>4 DEF Y
<1>4. lack * Y \in Nat /\ lack * Y > 0
  <2> HIDE DEF lack, Y
  <2> QED BY <1>1
<1>5. V * (n - A) \in Int /\ V * (n - A) >= lack * Y
  <2>1. V * (n - A) \in Int
    OBVIOUS
  <2> HIDE DEF lack, Y, rest
  <2> QED BY <1>2, <1>3, <1>4, <2>1
<1>6. n > A
  <2>1. SUFFICES ASSUME n - A <= 0 PROVE FALSE
    OBVIOUS
  <2>2. (n - A) * V <= 0 * V
    BY <2>1, ProductMonotone
  <2>3. (n - A) * V = V * (n - A)
    OBVIOUS
  <2> HIDE DEF lack, Y
  <2> QED BY <1>4, <1>5, <2>2, <2>3
<1>7. lack < V
  <2>1. SUFFICES ASSUME V <= lack PROVE FALSE
    BY <1>1
  <2>2. V * Y <= lack * Y
    BY <1>1, <2>1, ProductMonotone
  <2>3. (n - A) * V <= S * V
    <3>1. n - A <= S
      OBVIOUS
    <3> QED BY <3>1, ProductMonotone
  <2>4. V * Y = S * V + V * V /\ (n - A) * V = V * (n - A)
    OBVIOUS
  <2>5. V * V > 0 /\ V * V \in Nat /\ S * V \in Nat
    OBVIOUS
  <2> HIDE DEF lack, Y
  <2> QED BY <1>4, <1>5, <2>2, <2>3, <2>4, <2>5
<1> QED BY <1>3, <1>6, <1>7

(* A redemption lacks only what the offset adds, whoever calls. *)
LEMMA RedemptionsLack == OpenSpec => []RedemptionsLackOnlyOffset
<1>1. Inv /\ ShareLedgerBalances => RedemptionsLackOnlyOffset
  <2> SUFFICES ASSUME Inv, ShareLedgerBalances, NEW u \in Users,
                      position[u].pending_withdrawal_shares > 0,
                      GrossUsdc(position[u]) - vault.total_assets > 0,
                      vault.total_assets # 0
               PROVE  LET n    == position[u].pending_withdrawal_shares
                          lack == GrossUsdc(position[u]) - vault.total_assets
                      IN  /\ n > vault.total_assets
                          /\ lack < VIRTUAL_OFFSET
                          /\ lack * (vault.total_shares + VIRTUAL_OFFSET)
                               <= VIRTUAL_OFFSET * (n - vault.total_assets)
                                    - vault.total_assets * (vault.total_shares - n)
    BY DEF RedemptionsLackOnlyOffset
  <2> DEFINE n == position[u].pending_withdrawal_shares
             g == GrossUsdc(position[u])
             A == vault.total_assets
             S == vault.total_shares
             price == EffectivePrice(position[u])
  <2>1. position[u] \in UserPosition /\ Covered(position[u], slot)
    BY PositionCovered
  <2>2. /\ n \in Nat /\ n <= position[u].shares /\ g \in Nat
        /\ price \in Nat /\ price <= SharePrice
    BY <2>1, RedemptionFacts
  <2>3. position[u].shares \in Nat /\ S \in Nat /\ A \in Nat
    BY <2>1 DEF Inv, TypeOK, RiskVault, UserPosition
  <2>4. n <= S
    BY <2>2, <2>3, PositionWithinSupply
  <2>5. g * SHARE_PRICE_PRECISION <= n * price
    BY <2>2, ValueRoundsDown DEF GrossUsdc
  <2>6. price <= calculate_share_price(A, S)
    BY <2>2 DEF SharePrice
  <2>7. A > 0 /\ g > A /\ S > 0
    <3>1. g - A > 0 /\ A # 0 /\ n > 0
      OBVIOUS
    <3> HIDE DEF n, g, A, S
    <3> QED BY <2>2, <2>3, <2>4, <3>1
  <2>8. VIRTUAL_OFFSET \in Nat \ {0}
    BY ShareMathAssumption DEF ShareMathAssumption
  <2> HIDE DEF n, g, A, S, price
  <2>9. g * (S + VIRTUAL_OFFSET) <= n * (A + VIRTUAL_OFFSET)
    BY <2>2, <2>3, <2>4, <2>5, <2>6, <2>7, RedemptionRoundsDown
  <2>10. /\ n > A
         /\ g - A < VIRTUAL_OFFSET
         /\ (g - A) * (S + VIRTUAL_OFFSET) <= VIRTUAL_OFFSET * (n - A) - A * (S - n)
    BY <2>2, <2>3, <2>4, <2>7, <2>8, <2>9, LackBounds
  <2> QED BY <2>10 DEF n, g, A, S
<1> QED BY <1>1, InvHolds, LedgerHolds, PTL

(* Whatever fees and redemptions came after its request, a redemption that *)
(* the assets left do not pay asks for more shares than there are assets,  *)
(* and lacks less than the virtual offset, by the exact bound; for any     *)
(* finite set of users and any offset.                                     *)
THEOREM RedemptionsLackOffset == Spec => []RedemptionsLackOnlyOffset
  BY RedemptionsLack, SpecIsOpen, PTL
=============================================================================
