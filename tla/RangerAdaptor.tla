--------------------------- MODULE RangerAdaptor ---------------------------
(***************************************************************************)
(* The adaptor program (programs/nanuqfi-adaptor) composed with the        *)
(* allocator it calls and with the vault that calls it                     *)
(* (programs/mock-ranger-vault).  The strategy's authority is a program    *)
(* address: it is one of the allocator's users, and all it can do are the  *)
(* instructions below.  Each is one transaction, the called programs run   *)
(* inside it, and an error in any of them undoes all of it.                *)
(*                                                                         *)
(* user_usdc[Ranger] is the calling vault's idle pool; the strategy's own  *)
(* USDC account is filled from it, or swept to it, within the transaction. *)
(***************************************************************************)
EXTENDS Allocator

CONSTANTS
    Ranger,                 \* the user that is the strategy's authority
    StrategyAmounts         \* USDC amounts the calling vault passes

ASSUME AdaptorAssumption == Ranger \in Users /\ StrategyAmounts \subseteq Nat

VARIABLE strategy           \* account NanuqfiStrategy

adaptorVars == <<vars, strategy>>

NoStrategy == [open |-> FALSE, position_value |-> 0]

AdaptorInit == Init /\ strategy = NoStrategy

(* What `held' share tokens are worth, without the virtual offset. *)
PositionValue(held, v) ==
    IF v.total_shares > 0 THEN AsU64((held * v.total_assets) \div v.total_shares) ELSE 0

(* The shares requested for an amount of USDC. *)
SharesFor(amount) ==
    IF vault.total_assets > 0 /\ vault.total_shares > 0
    THEN AsU64((amount * vault.total_shares) \div vault.total_assets)
    ELSE amount

(* The value written to the strategy and returned to the calling vault. *)
Report == strategy' = [strategy EXCEPT !.position_value =
                          PositionValue(user_shares'[Ranger], vault')]

initialize_strategy ==
    /\ ~strategy.open
    /\ strategy' = [NoStrategy EXCEPT !.open = TRUE]
    /\ UNCHANGED vars

deposit_strategy(amount) ==
    /\ strategy.open
    /\ deposit(Ranger, amount)
    /\ Report

(* request_withdraw, if nothing is pending, and then withdraw. *)
withdraw_strategy(amount) ==
    LET pending == position[Ranger].pending_withdrawal_shares > 0
        shares  == SharesFor(amount)
    IN  /\ strategy.open /\ position[Ranger].open
        /\ ~pending => Requestable(Ranger, shares)
        /\ Redeem(Ranger, IF pending THEN position[Ranger]
                                     ELSE Requested(position[Ranger], shares))
        /\ Report

RangerStep ==
    \/ initialize_strategy
    \/ \E a \in StrategyAmounts : deposit_strategy(a)
    \/ \E a \in StrategyAmounts : withdraw_strategy(a)

AllocatorStep ==
    /\ \/ \E u \in Users \ {Ranger} : UserStep(u)
       \/ KeeperStep
       \/ AdminStep
       \/ OutsideStep
    /\ UNCHANGED strategy

AdaptorNext == RangerStep \/ AllocatorStep

AdaptorSpec == AdaptorInit /\ [][AdaptorNext]_adaptorVars

(* Time passes and the calling vault keeps asking for its money. *)
FairAdaptorSpec ==
    /\ AdaptorSpec
    /\ WF_adaptorVars(Tick /\ UNCHANGED strategy)
    /\ \A a \in StrategyAmounts : SF_adaptorVars(withdraw_strategy(a))

-----------------------------------------------------------------------------
(* Properties *)

(* The strategy holds at least the share tokens its position counts: the   *)
(* authority can only give tokens up by redeeming them, so a redemption of *)
(* the whole position never lacks tokens to burn.                          *)
TokensBackPosition == user_shares[Ranger] >= position[Ranger].shares

(* The calling vault gets USDC out only against shares that were burned    *)
(* at no more than their price: one transaction moves at most the value of *)
(* the shares it burned, so repeated small withdrawals gain nothing.       *)
RedeemsAtPrice ==
    [][ user_usdc'[Ranger] > user_usdc[Ranger] =>
          (user_usdc'[Ranger] - user_usdc[Ranger]) * SHARE_PRICE_PRECISION
            <= (position[Ranger].shares - position'[Ranger].shares) * SharePrice
      ]_adaptorVars

(* lib.rs:89 of the adaptor: a pending request is kept so that a           *)
(* withdrawal takes two steps when there is a redemption period.  A        *)
(* strategy whose vault keeps asking gets out of its position.             *)
TwoStepWithdrawal ==
    strategy.open /\ position[Ranger].shares > 0
        ~> \/ position[Ranger].pending_withdrawal_shares > 0
           \/ position[Ranger].shares = 0
=============================================================================
