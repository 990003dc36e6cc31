-------------------------- MODULE AllocatorClaims --------------------------
(***************************************************************************)
(* What comments of the program say and its code does not do.  Each        *)
(* definition is the claim, stated over the state of Allocator; a run of   *)
(* its own shows the behaviour refuting it.                                *)
(***************************************************************************)
EXTENDS Allocator

CONSTANT
    SlotsPerYear            \* 63_072_000, in the run's unit of time

(* lib.rs:837: record PDAs are keyed by the counter, so they must not      *)
(* collide.  The account the next rebalance creates does not exist yet.    *)
RecordSlotIsFree == vault.rebalance_counter \notin DOMAIN rebalance_record

(* validation.rs:9: the management fee is 1% a year.  What a rebalance     *)
(* charges, over the slots it charges for, is at most that share of the    *)
(* assets.                                                                 *)
FeeIsOnePercentAYear ==
    [][ vault'.last_mgmt_fee_slot > vault.last_mgmt_fee_slot =>
          (treasury'.total_fees_collected - treasury.total_fees_collected)
              * 100 * SlotsPerYear
            <= vault.total_assets * (vault'.last_mgmt_fee_slot - vault.last_mgmt_fee_slot)
      ]_vars
=============================================================================
