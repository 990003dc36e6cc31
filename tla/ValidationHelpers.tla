------------------------- MODULE ValidationHelpers -------------------------
(***************************************************************************)
(* The functions of programs/allocator/src/validation.rs that the unit     *)
(* tests exercise and the program does not call: rebalance has its own     *)
(* inline versions of the same checks (ValidWeights, WithinDivergence,     *)
(* WithinDrawdown, CrashDetected and ManagementFee of Allocator).  The     *)
(* properties compare the two in every state the program reaches, so they  *)
(* say what the tests of the helpers show of the program.                  *)
(***************************************************************************)
EXTENDS Allocator

validate_weight_sum(w) == SumOfWeights(w) = BPS_DENOMINATOR

validate_max_weight(w, max) == \A i \in DOMAIN w : w[i] <= max

validate_perp_weight(w, max) == w # <<>> => w[1] <= max

(* The loop runs over the new weights only. *)
validate_weight_shift(old, new, max) ==
    old # <<>> =>
        \A i \in DOMAIN new :
            /\ new[i] <= WeightAt(old, i) + max
            /\ WeightAt(old, i) <= new[i] + max

(* The checks of weights that a caller of the helpers would make. *)
HelpersAdmitWeights(w) ==
    /\ validate_weight_sum(w)
    /\ validate_max_weight(w, vault.guardrails.max_single_asset_bps)
    /\ validate_perp_weight(w, vault.guardrails.max_perp_allocation_bps)
    /\ validate_weight_shift(vault.current_weights, w, MAX_SHIFT_BPS)

(* A plain u64 product: under overflow-checks a helper that does not fit   *)
(* panics and gives no answer.                                             *)
DivergenceAnswered(assets) == assets # 0 => Fits(assets * ORACLE_DIVERGENCE_BPS)

(* An absolute difference against a threshold rounded down. *)
check_oracle_divergence(snapshot, assets) ==
    /\ assets # 0
    /\ Larger(snapshot, assets) - Lesser(snapshot, assets)
         > (assets * ORACLE_DIVERGENCE_BPS) \div BPS_DENOMINATOR

(* Mutant: the allowed drawdown is rounded up. *)
DrawdownRoundedUp(equity, peak, max) ==
    /\ peak # 0 /\ equity < peak
    /\ peak - equity > (peak * max) \div BPS_DENOMINATOR + 1

(* The allowed drawdown is an amount here, computed in u128; in rebalance  *)
(* it is a ratio, computed in u64.                                         *)
check_drawdown_exceeded(equity, peak, max) ==
    /\ peak # 0 /\ equity < peak
    /\ peak - equity > (peak * max) \div BPS_DENOMINATOR

(* TRUE needs an answer: its product is a plain u64 one too. *)
should_auto_halt(equity, reference) ==
    /\ reference # 0
    /\ Fits(reference * TVL_HALT_THRESHOLD_BPS)
    /\ equity < (reference * TVL_HALT_THRESHOLD_BPS) \div BPS_DENOMINATOR

-----------------------------------------------------------------------------
(* The drawdown of a snapshot is too large for the product of rebalance. *)
DrawdownOverflows(snapshot) == ~Fits((vault.peak_equity - snapshot) * BPS_DENOMINATOR)

(* validation.rs against lib.rs:452-547: each helper errs on a known side. *)
(* Its weight checks are the laxer ones (a dropped weight is no shift).    *)
(* Its drawdown check is the stricter one where the roundings differ; what *)
(* it admits the program admits as well, unless the program's own product  *)
(* overflows (it rejects then, the helper does not): for that the peak has *)
(* to be above MaxU64 / BPS_DENOMINATOR, far beyond any deposit, such as a *)
(* rebalance of an empty vault accepts.  Its halt is the later one, and    *)
(* whenever it halts the program can compute its ratio and halts.  Its     *)
(* divergence check, where it answers, is the program's.  So a test of a   *)
(* helper speaks for the program in one direction only.                    *)
HelpersErrOneWay ==
    /\ \A w \in WeightVectors : ValidWeights(w) => HelpersAdmitWeights(w)
    /\ \A e \in Snapshots :
        /\ ~check_drawdown_exceeded(e, vault.peak_equity, vault.guardrails.max_drawdown_bps)
             => WithinDrawdown(e) \/ DrawdownOverflows(e)
        /\ should_auto_halt(e, vault.equity_24h_ago)
             => CrashDetected(e) /\ CrashRatioFits(e)
        /\ WithinDivergence(e) <=>
             /\ DivergenceAnswered(vault.total_assets)
             /\ ~check_oracle_divergence(e, vault.total_assets)
=============================================================================
