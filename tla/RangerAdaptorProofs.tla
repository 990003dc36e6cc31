------------------------- MODULE RangerAdaptorProofs -------------------------
(***************************************************************************)
(* Theorems about RangerAdaptor, for every value of its constants.  The    *)
(* strategy's steps are not steps of the allocator's specification: it     *)
(* passes amounts of its own and redeems a request it made in the same     *)
(* transaction.  The invariant of the allocator holds all the same.        *)
(***************************************************************************)
EXTENDS RangerAdaptor, AllocatorProofs

(* What a step that is not one of the strategy's leaves the strategy with. *)
Untouched ==
    /\ position'[Ranger] = position[Ranger]
    /\ user_usdc'[Ranger] = user_usdc[Ranger]
    /\ user_shares'[Ranger] >= user_shares[Ranger]

(* A deposit through the adaptor counts as many shares as it mints. *)
LEMMA StrategyDeposits ==
    ASSUME Inv, AdaptorAssumption, NEW a \in StrategyAmounts, deposit_strategy(a)
    PROVE  /\ Inv'
           /\ \E m \in Nat :
                 /\ position'[Ranger].shares = position[Ranger].shares + m
                 /\ user_shares'[Ranger] = user_shares[Ranger] + m
           /\ user_usdc'[Ranger] <= user_usdc[Ranger]
<1>1. a \in Nat /\ Ranger \in Users /\ deposit(Ranger, a)
  BY DEF AdaptorAssumption, deposit_strategy
<1> DEFINE m == calculate_shares_to_mint(a, vault.total_assets, vault.total_shares)
           price == PriceOf(Minted(m, a))
<1>2. m \in Nat
  BY <1>1, MintRoundsDown DEF Inv, TypeOK, RiskVault
<1>3. /\ position' = [position EXCEPT ![Ranger] = Deposited(@, m, price)]
      /\ user_usdc' = [user_usdc EXCEPT ![Ranger] = @ - a]
      /\ user_shares' = [user_shares EXCEPT ![Ranger] = @ + m]
  BY <1>1 DEF deposit
<1> HIDE DEF m, price
<1>4. position[Ranger] \in UserPosition
  BY <1>1, PositionCovered
<1>5. Deposited(position[Ranger], m, price).shares = position[Ranger].shares + m
  BY <1>4 DEF Deposited, UserPosition
<1>6. /\ position' [Ranger] = Deposited(position[Ranger], m, price)
      /\ user_usdc'[Ranger] = user_usdc[Ranger] - a
      /\ user_shares'[Ranger] = user_shares[Ranger] + m
      /\ user_usdc[Ranger] \in Nat
  BY <1>1, <1>3 DEF Inv, TypeOK
<1>7. Inv'
  BY <1>1, DepositInv
<1> QED BY <1>1, <1>2, <1>5, <1>6, <1>7

(* A withdrawal through the adaptor: the position it redeems from is       *)
(* covered, whether its request is an old one or its own; as many shares   *)
(* leave the position as tokens are burned, and the payout is no more than *)
(* their value.                                                            *)
LEMMA StrategyWithdraws ==
    ASSUME Inv, AdaptorAssumption, NEW a \in StrategyAmounts, withdraw_strategy(a)
    PROVE  /\ \E q \in Redeemable(Ranger) : Redeem(Ranger, q)
           /\ Inv'
           /\ \E n \in Nat, paid \in Nat :
                 /\ position'[Ranger].shares = position[Ranger].shares - n
                 /\ user_shares'[Ranger] = user_shares[Ranger] - n
                 /\ user_usdc'[Ranger] = user_usdc[Ranger] + paid
                 /\ paid * SHARE_PRICE_PRECISION <= n * SharePrice
<1> DEFINE old == position[Ranger]
           pending == old.pending_withdrawal_shares > 0
           q == IF pending THEN old ELSE Requested(old, SharesFor(a))
<1>1. a \in Nat /\ Ranger \in Users
  BY DEF AdaptorAssumption
<1>2. /\ old.open
      /\ ~pending => Requestable(Ranger, SharesFor(a))
      /\ Redeem(Ranger, q)
  BY DEF withdraw_strategy
<1>3. old \in UserPosition /\ Covered(old, slot)
  BY <1>1, PositionCovered
<1>4. SharesFor(a) \in Nat
  <2>1. vault.total_assets \in Nat /\ vault.total_shares \in Nat
    BY DEF Inv, TypeOK, RiskVault
  <2>2. a * vault.total_shares \in Nat
    BY <1>1, <2>1
  <2>3. vault.total_assets > 0 => (a * vault.total_shares) \div vault.total_assets \in Nat
    BY <2>1, <2>2, DivBounds
  <2> QED BY <1>1, <2>3, AsU64Bounds DEF SharesFor
<1>5. q \in UserPosition /\ Covered(q, slot) /\ q.shares = old.shares
  <2>1. CASE pending
    BY <1>3, <2>1
  <2>2. CASE ~pending
    <3>1. 0 < SharesFor(a) /\ SharesFor(a) <= old.shares
      BY <1>2, <1>3, <1>4, <2>2 DEF Requestable, UserPosition
    <3>2. Requested(old, SharesFor(a)).shares = old.shares
      BY <1>3 DEF Requested, UserPosition
    <3> QED BY <1>2, <1>3, <1>4, <2>2, <3>1, <3>2, RequestedPosition
  <2> QED BY <2>1, <2>2
<1>q. \E r \in Redeemable(Ranger) : Redeem(Ranger, r)
  BY <1>2, <1>5 DEF Redeemable
<1> HIDE DEF q
<1> DEFINE n == q.pending_withdrawal_shares
           gross == GrossUsdc(q)
           fee == PerformanceFee(EffectivePrice(q), q.high_water_mark_price, n)
           price == PriceOf(Burned(n, gross))
<1>6. /\ n > 0
      /\ position' = [position EXCEPT ![Ranger] = Withdrawn(q, n, price)]
      /\ user_usdc' = [user_usdc EXCEPT ![Ranger] = @ + gross - fee]
      /\ user_shares' = [user_shares EXCEPT ![Ranger] = @ - n]
  BY <1>2 DEF Redeem
<1>7. /\ n \in Nat /\ gross \in Nat /\ fee \in Nat /\ fee <= gross
      /\ EffectivePrice(q) \in Nat /\ EffectivePrice(q) <= SharePrice
  BY <1>5, <1>6, RedemptionFacts
<1>8. gross * SHARE_PRICE_PRECISION <= n * EffectivePrice(q)
  BY <1>7, ValueRoundsDown DEF GrossUsdc
<1>9. Withdrawn(q, n, price).shares = q.shares - n
  BY <1>5 DEF Withdrawn, UserPosition
<1> HIDE DEF n, gross, fee, price
<1>10. /\ position'[Ranger] = Withdrawn(q, n, price)
       /\ user_usdc'[Ranger] = user_usdc[Ranger] + gross - fee
       /\ user_shares'[Ranger] = user_shares[Ranger] - n
       /\ user_usdc[Ranger] \in Nat
  BY <1>1, <1>6 DEF Inv, TypeOK
<1>11. SharePrice \in Nat
  BY SharePriceType DEF Inv, TypeOK, RiskVault, SharePrice
<1>12. (gross - fee) * SHARE_PRICE_PRECISION <= n * SharePrice
  <2>1. (gross - fee) * SHARE_PRICE_PRECISION <= gross * SHARE_PRICE_PRECISION
    BY <1>7, ProductMonotone, ShareMathAssumption DEF ShareMathAssumption
  <2>2. EffectivePrice(q) * n <= SharePrice * n
    BY <1>7, <1>11, ProductMonotone
  <2> DEFINE p == SHARE_PRICE_PRECISION
             x == (gross - fee) * p
             y == gross * p
             e == EffectivePrice(q)
             z == n * e
             w == n * SharePrice
  <2>3. p \in Nat
    BY ShareMathAssumption DEF ShareMathAssumption
  <2>4. x \in Int /\ y \in Int /\ z \in Int /\ w \in Int
    <3> HIDE DEF p, e
    <3> QED BY <1>7, <1>11, <2>3 DEF e
  <2>5. x <= y /\ y <= z /\ z <= w
    BY <1>7, <1>8, <1>11, <2>1, <2>2
  <2> HIDE DEF x, y, z, w
  <2>6. x <= w
    BY <2>4, <2>5
  <2> QED BY <2>6 DEF x, w
<1>13. user_usdc'[Ranger] = user_usdc[Ranger] + (gross - fee) /\ gross - fee \in Nat
  BY <1>7, <1>10
<1>14. Inv'
  BY <1>1, <1>2, <1>5, RedeemInv
<1> QED BY <1>q, <1>5, <1>7, <1>9, <1>10, <1>12, <1>13, <1>14

(* Nobody else moves the strategy's shares or its USDC; at most they give  *)
(* it share tokens.                                                        *)
LEMMA OthersLeaveStrategy ==
    ASSUME Inv, AdaptorAssumption, AllocatorStep
    PROVE  Inv' /\ Untouched
<1> DEFINE Types == /\ Ranger \in Users
                    /\ position \in [Users -> UserPosition]
                    /\ user_usdc \in [Users -> Nat] /\ user_shares \in [Users -> Nat]
<1>1. Types
  BY DEF AdaptorAssumption, Inv, TypeOK
<1>2. Next
  BY Zenon DEF AllocatorStep, Next
<1>3. Inv'
  BY <1>2, NextCases, InvNext
<1>4. CASE \E u \in Users \ {Ranger} : UserStep(u)
  <2>1. PICK u \in Users \ {Ranger} : UserStep(u)
    BY <1>4
  <2>2. CASE \E a \in DepositAmounts : deposit(u, a)
    BY <1>1, <1>3, <2>1, <2>2 DEF deposit, Untouched
  <2>3. CASE \E n \in ShareAmounts \cup {position[u].shares} : request_withdraw(u, n)
    BY <1>1, <1>3, <2>1, <2>3 DEF request_withdraw, userTokens, Untouched
  <2>4. CASE withdraw(u)
    BY <1>1, <1>3, <2>1, <2>4 DEF withdraw, Redeem, Untouched
  <2>5. CASE close_user_position(u)
    BY <1>1, <1>3, <2>1, <2>5 DEF close_user_position, userTokens, Untouched
  <2>6. CASE \E w \in Users, n \in TransferAmounts : TransferShares(u, w, n)
    <3>1. PICK w \in Users, n \in TransferAmounts : TransferShares(u, w, n)
      BY <2>6
    <3>2. n \in Nat
      BY AllocatorAssumption DEF AllocatorAssumption
    <3> QED BY <1>1, <1>3, <2>1, <3>1, <3>2 DEF TransferShares, Untouched
  <2> QED BY <2>1, <2>2, <2>3, <2>4, <2>5, <2>6 DEF UserStep
<1> DEFINE Same == position' = position /\ user_usdc' = user_usdc /\ user_shares' = user_shares
<1>5. Same => Untouched
  BY <1>1 DEF Untouched
<1>6. CASE KeeperStep
  <2>1. \A w \in WeightVectors, e \in Snapshots : rebalance(w, e) => Same
    BY DEF rebalance, userTokens
  <2>2. \A w \in WeightVectors, e \in Snapshots : rebalance_auto_halt(w, e) => Same
    BY DEF rebalance_auto_halt, userTokens
  <2>3. \A o \in ProtocolOwners, n \in MoveAmounts : allocate_to_protocol(o, n) => Same
    BY DEF allocate_to_protocol, userTokens
  <2>4. \A n \in MoveAmounts : recall_from_protocol(n) => Same
    BY DEF recall_from_protocol, userTokens
  <2> HIDE DEF Same
  <2> QED BY <1>3, <1>5, <1>6, <2>1, <2>2, <2>3, <2>4, Zenon DEF KeeperStep
<1>7. CASE AdminStep
  <2>1. emergency_halt \/ resume => Same
    BY DEF emergency_halt, resume, userTokens
  <2>2. \A v : SetVault(v) => Same
    BY DEF SetVault, userTokens
  <2>3. SettingStep => Same
    BY <2>2 DEF SettingStep, update_guardrails, admin_set_redemption_period,
       update_deposit_cap, admin_set_max_single_deposit
  <2>4. /\ \A n \in MoveAmounts : withdraw_treasury(n) => Same
        /\ \A a \in TreasuryChoices : update_treasury_usdc(a) => Same
    BY DEF withdraw_treasury, update_treasury_usdc, userTokens
  <2>5. \A o \in ProtocolOwners :
           add_whitelisted_protocol(o) \/ remove_whitelisted_protocol(o) => Same
    BY DEF add_whitelisted_protocol, remove_whitelisted_protocol, SetWhitelist, userTokens
  <2>6. \A n \in DOMAIN rebalance_record : close_rebalance_record(n) => Same
    BY DEF close_rebalance_record, userTokens
  <2> HIDE DEF Same
  <2> QED BY <1>3, <1>5, <1>7, <2>1, <2>3, <2>4, <2>5, <2>6, Zenon DEF AdminStep, SettingStep
<1>8. CASE OutsideStep
  <2>1. \A n \in MoveAmounts : ProtocolEarns(n) \/ ProtocolLoses(n) => Same
    BY DEF ProtocolEarns, ProtocolLoses, userTokens
  <2>2. Tick => Same
    BY DEF Tick, userTokens
  <2> HIDE DEF Same
  <2> QED BY <1>3, <1>5, <1>8, <2>1, <2>2, Zenon DEF OutsideStep
<1> QED BY <1>3, <1>4, <1>6, <1>7, <1>8 DEF AllocatorStep

-----------------------------------------------------------------------------
(* TokensBackPosition needs the allocator's invariant: that amounts are    *)
(* natural numbers, and that a pending request never exceeds its position. *)
StrategyInv == Inv /\ TokensBackPosition

(* The strategy begins without shares and without tokens. *)
LEMMA StrategyInvInit == AdaptorInit => StrategyInv
<1> SUFFICES ASSUME AdaptorInit PROVE StrategyInv
  OBVIOUS
<1>1. Inv
  BY InvInit DEF AdaptorInit
<1>2. user_shares[Ranger] = 0 /\ position[Ranger].shares = 0
  BY AdaptorAssumption DEF AdaptorAssumption, AdaptorInit, Init, NoPosition
<1> QED BY <1>1, <1>2 DEF StrategyInv, TokensBackPosition

(* The strategy's steps and everyone else's preserve the invariant. *)
LEMMA StrategyInvNext == StrategyInv /\ [AdaptorNext]_adaptorVars => StrategyInv'
<1> SUFFICES ASSUME StrategyInv, [AdaptorNext]_adaptorVars PROVE StrategyInv'
  OBVIOUS
<1> USE AdaptorAssumption
<1>1. Inv /\ user_shares[Ranger] >= position[Ranger].shares
  BY DEF StrategyInv, TokensBackPosition
<1>2. user_shares[Ranger] \in Nat /\ position[Ranger].shares \in Nat
  BY <1>1, PositionCovered DEF AdaptorAssumption, Inv, TypeOK, UserPosition
<1>3. CASE \E a \in StrategyAmounts : deposit_strategy(a)
  <2>1. PICK m \in Nat :
           /\ position'[Ranger].shares = position[Ranger].shares + m
           /\ user_shares'[Ranger] = user_shares[Ranger] + m
    BY <1>1, <1>3, StrategyDeposits
  <2>2. Inv'
    BY <1>1, <1>3, StrategyDeposits
  <2> QED BY <1>1, <1>2, <2>1, <2>2 DEF StrategyInv, TokensBackPosition
<1>4. CASE \E a \in StrategyAmounts : withdraw_strategy(a)
  BY <1>1, <1>2, <1>4, StrategyWithdraws DEF StrategyInv, TokensBackPosition
<1>5. CASE AllocatorStep
  <2>1. Inv' /\ Untouched
    BY <1>1, <1>5, OthersLeaveStrategy
  <2>2. user_shares'[Ranger] \in Nat
    BY <2>1 DEF AdaptorAssumption, Inv, TypeOK
  <2> QED BY <1>1, <1>2, <2>1, <2>2 DEF Untouched, StrategyInv, TokensBackPosition
<1>6. CASE UNCHANGED vars
  <2>1. Inv'
    BY <1>1, <1>6, InvNext
  <2> QED BY <1>1, <1>6, <2>1 DEF vars, StrategyInv, TokensBackPosition
<1>7. UNCHANGED adaptorVars \/ initialize_strategy => UNCHANGED vars
  BY DEF adaptorVars, initialize_strategy
<1> QED BY <1>3, <1>4, <1>5, <1>6, <1>7 DEF AdaptorNext, RangerStep

(* The invariant holds in every reachable state. *)
LEMMA StrategyInvHolds == AdaptorSpec => []StrategyInv
  BY StrategyInvInit, StrategyInvNext, PTL DEF AdaptorSpec

(* The strategy holds the share tokens its position counts, so a           *)
(* redemption of all of it never lacks tokens to burn, for any users,      *)
(* amounts and guardrails.                                                 *)
THEOREM TokensAlwaysBack == AdaptorSpec => []TokensBackPosition
<1>1. StrategyInv => TokensBackPosition
  BY DEF StrategyInv
<1> QED BY <1>1, StrategyInvHolds, PTL

(* Users who come and go beside the strategy stay covered: the allocator's *)
(* invariant on pending redemptions holds with the adaptor composed.       *)
THEOREM AdaptorKeepsCover == AdaptorSpec => []PendingIsCovered
<1>1. StrategyInv => PendingIsCovered
  BY DEF StrategyInv, Inv
<1> QED BY <1>1, StrategyInvHolds, PTL

(* USDC reaches the calling vault only against shares burned at no more    *)
(* than their price.                                                       *)
THEOREM StrategyRedeemsAtPrice == AdaptorSpec => RedeemsAtPrice
<1> DEFINE AtPrice ==
        user_usdc'[Ranger] > user_usdc[Ranger] =>
          (user_usdc'[Ranger] - user_usdc[Ranger]) * SHARE_PRICE_PRECISION
            <= (position[Ranger].shares - position'[Ranger].shares) * SharePrice
<1>1. StrategyInv /\ [AdaptorNext]_adaptorVars => AtPrice
  <2> SUFFICES ASSUME StrategyInv, [AdaptorNext]_adaptorVars PROVE AtPrice
    OBVIOUS
  <2> USE AdaptorAssumption
  <2>1. Inv
    BY DEF StrategyInv
  <2>2. user_usdc[Ranger] \in Nat /\ position[Ranger].shares \in Nat
    BY <2>1, PositionCovered DEF AdaptorAssumption, Inv, TypeOK, UserPosition
  <2>3. CASE \E a \in StrategyAmounts : deposit_strategy(a)
    <3>1. Inv' /\ user_usdc'[Ranger] <= user_usdc[Ranger]
      BY <2>1, <2>3, StrategyDeposits
    <3>2. user_usdc'[Ranger] \in Nat
      BY <3>1 DEF AdaptorAssumption, Inv, TypeOK
    <3> QED BY <2>2, <3>1, <3>2
  <2>4. CASE \E a \in StrategyAmounts : withdraw_strategy(a)
    <3>1. PICK n \in Nat, paid \in Nat :
             /\ position'[Ranger].shares = position[Ranger].shares - n
             /\ user_usdc'[Ranger] = user_usdc[Ranger] + paid
             /\ paid * SHARE_PRICE_PRECISION <= n * SharePrice
      BY <2>1, <2>4, StrategyWithdraws
    <3>2. /\ user_usdc'[Ranger] - user_usdc[Ranger] = paid
          /\ position[Ranger].shares - position'[Ranger].shares = n
      BY <2>2, <3>1
    <3> QED BY <3>1, <3>2
  <2>5. CASE AllocatorStep
    BY <2>1, <2>2, <2>5, OthersLeaveStrategy DEF Untouched
  <2>6. CASE UNCHANGED vars
    BY <2>2, <2>6 DEF vars
  <2>7. UNCHANGED adaptorVars \/ initialize_strategy => UNCHANGED vars
    BY DEF adaptorVars, initialize_strategy
  <2> QED BY <2>3, <2>4, <2>5, <2>6, <2>7 DEF AdaptorNext, RangerStep
<1> QED BY <1>1, StrategyInvHolds, PTL DEF AdaptorSpec, RedeemsAtPrice

-----------------------------------------------------------------------------
(* The strategy and the users beside it take only steps the program lets   *)
(* any caller take, so the promises of the allocator hold with the adaptor *)
(* composed.                                                               *)
LEMMA AdaptorStepsAreOpen == StrategyInv /\ [AdaptorNext]_adaptorVars => [Step]_vars
<1> SUFFICES ASSUME StrategyInv, [AdaptorNext]_adaptorVars PROVE [Step]_vars
  OBVIOUS
<1> USE AdaptorAssumption
<1>1. Inv
  BY DEF StrategyInv
<1>2. CASE \E a \in StrategyAmounts : deposit_strategy(a)
  BY <1>2, Zenon DEF AdaptorAssumption, deposit_strategy, Step
<1>3. CASE \E a \in StrategyAmounts : withdraw_strategy(a)
  <2>1. \E q \in Redeemable(Ranger) : Redeem(Ranger, q)
    BY <1>1, <1>3, StrategyWithdraws
  <2>2. Ranger \in Users
    BY DEF AdaptorAssumption
  <2> QED BY <2>1, <2>2, Zenon DEF Step
<1>4. CASE AllocatorStep
  <2>1. Next
    BY <1>4, Zenon DEF AllocatorStep, Next
  <2> QED BY <1>1, <2>1, NextCases
<1>5. UNCHANGED adaptorVars \/ initialize_strategy => UNCHANGED vars
  BY DEF adaptorVars, initialize_strategy
<1> QED BY <1>2, <1>3, <1>4, <1>5 DEF AdaptorNext, RangerStep

(* The composition implements the allocator open to any caller. *)
THEOREM AdaptorIsACaller == AdaptorSpec => OpenSpec
<1>1. AdaptorInit => Init
  BY DEF AdaptorInit
<1> QED BY <1>1, AdaptorStepsAreOpen, StrategyInvHolds, PTL DEF AdaptorSpec, OpenSpec

(* With the strategy among the users the vault's shares, the shares of the *)
(* positions and the share tokens are still the same number.               *)
THEOREM AdaptorKeepsLedger == AdaptorSpec => []ShareLedgerBalances
  BY AdaptorIsACaller, LedgerHolds, PTL

(* Also after requests the strategy makes and redeems in one transaction,  *)
(* the redemptions of the others lack nothing but what the offset adds.    *)
THEOREM AdaptorLeavesCover == AdaptorSpec => []RedemptionsLackOnlyOffset
  BY AdaptorIsACaller, RedemptionsLack, PTL

(* No call of the strategy creates or loses a unit of the vault's USDC, or *)
(* moves the fees away from the accounts they are counted in, whichever    *)
(* account is the treasury's.                                              *)
THEOREM AdaptorKeepsCustody ==
    AdaptorSpec => [](AssetsAreHeld /\ TreasuryHoldsFees /\ TvlCoversAssets)
<1>1. Books => AssetsAreHeld /\ TreasuryHoldsFees /\ TvlCoversAssets
  BY DEF Books
<1> QED BY <1>1, AdaptorIsACaller, BooksHold, PTL

(* No call of the strategy lowers the value of anybody else's shares.      *)
THEOREM AdaptorNeverDilutes == AdaptorSpec => NoDilution
  BY AdaptorIsACaller, DilutionNever, PTL
=============================================================================
