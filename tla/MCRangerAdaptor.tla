-------------------------- MODULE MCRangerAdaptor --------------------------
(***************************************************************************)
(* Instances of RangerAdaptor for TLC: the strategy and one other user.    *)
(***************************************************************************)
EXTENDS RangerAdaptor

CONSTANTS ranger, user, vault_account, own_treasury

RangerGuardrails ==
    [max_perp_allocation_bps |-> 100, max_single_asset_bps |-> 100,
     max_drawdown_bps |-> 100, redemption_period_slots |-> 1]

OneWeight == {<<100>>}
=============================================================================
