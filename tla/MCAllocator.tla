---------------------------- MODULE MCAllocator ----------------------------
(***************************************************************************)
(* Instances of Allocator for TLC.  100 basis points make one, so a whole  *)
(* percentage is one unit: fee 10, shift 20, divergence 1, halt 85.        *)
(***************************************************************************)
EXTENDS AllocatorClaims, ValidationHelpers, TLC

CONSTANTS u1, u2, pda, protocol, vault_account, own_treasury, other_treasury

UserSymmetry == Permutations(Users)

(* No guardrail binds: weights and drawdown up to 100%. *)
LooseGuardrails ==
    [max_perp_allocation_bps |-> 100, max_single_asset_bps |-> 100,
     max_drawdown_bps |-> 100, redemption_period_slots |-> 1]

(* The caps of the moderate vault, with its drawdown cap of 5%. *)
ModerateGuardrails ==
    [max_perp_allocation_bps |-> 60, max_single_asset_bps |-> 60,
     max_drawdown_bps |-> 5, redemption_period_slots |-> 2]

Tightenings == {ModerateGuardrails}

OneWeight == {<<100>>}

(* Two and three protocols, each within a 20% shift of another; the last   *)
(* drops a protocol whose weight is above 20%.                             *)
SomeWeights == {<<60, 40>>, <<50, 50>>, <<40, 30, 30>>, <<20, 80>>}
=============================================================================
