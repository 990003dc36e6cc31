--------------------------- MODULE LendingBackend ---------------------------
(***************************************************************************)
(* The Kamino, Lulo and Marginfi lending backends (backends/lending.ts) in *)
(* real mode: how they score the market they read and the position they    *)
(* keep of what was deposited through them.  Beside it, the position of    *)
(* MockYieldBackend, which tests use in their place, under the same calls. *)
(***************************************************************************)
EXTENDS Integers

CONSTANTS
    Markets,        \* [supply, borrow] a backend may read
    Deposits,       \* amounts deposited, withdrawn and quoted
    MaxDeposited    \* bound on the position

ASSUME BackendAssumption ==
    /\ Markets \subseteq [supply : Nat, borrow : Nat]
    /\ Deposits \subseteq Nat
    /\ MaxDeposited \in Nat

VARIABLES
    protocol,       \* "kamino", "lulo" or "marginfi"
    market,
    deposited, active,      \* the backend's position
    double,                 \* MockYieldBackend's
    overdrawn               \* history: a withdrawal exceeded the position

backendVars == <<protocol, market, deposited, active, double, overdrawn>>

BackendInit ==
    /\ protocol \in {"kamino", "lulo", "marginfi"}
    /\ market \in Markets
    /\ deposited = 0 /\ active = FALSE
    /\ double = [depositedAmount |-> 0, isActive |-> FALSE]
    /\ overdrawn = FALSE

-----------------------------------------------------------------------------
(* Scores *)

Available(m) == m.supply - m.borrow

(* getRisk in thousandths, times the supply: 20 + 80 and, for Lulo, 10 +   *)
(* 30 times the utilization, which is 0 while nothing is supplied.         *)
ScaledVolatility(p, m) ==
    LET base == IF p = "lulo" THEN 10 ELSE 20
        slope == IF p = "lulo" THEN 30 ELSE 80
    IN  IF m.supply > 0 THEN base * m.supply + slope * m.borrow ELSE base

(* Mutant: the division is guarded, and the share 0 of an empty market. *)
ShareGuarded(n, amount, liquidity) == liquidity > 0 /\ amount * n > liquidity

(* amount / liquidity > 1/n in floating point: over nothing it is infinite,*)
(* or NaN.                                                                 *)
ShareAbove(n, amount, liquidity) ==
    IF liquidity = 0 THEN amount > 0 ELSE liquidity > 0 /\ amount * n > liquidity

(* estimateSlippage, in basis points.  Lulo takes the share for 1 when     *)
(* nothing is available.                                                   *)
estimateSlippage(p, amount, m) ==
    LET bps == IF p = "lulo" THEN <<1, 3, 8>> ELSE <<2, 5, 10>>
    IN  IF ShareAbove(10, amount, Available(m)) \/ (p = "lulo" /\ Available(m) <= 0)
        THEN bps[3]
        ELSE IF ShareAbove(100, amount, Available(m)) THEN bps[2]
        ELSE bps[1]

-----------------------------------------------------------------------------
(* Calls *)

deposit_position(n) ==
    /\ deposited + n <= MaxDeposited
    /\ deposited' = deposited + n
    /\ active' = TRUE
    /\ double' = [depositedAmount |-> double.depositedAmount + n, isActive |-> TRUE]
    /\ UNCHANGED <<protocol, market, overdrawn>>

(* Mutant: a position that is used up stays active. *)
withdraw_staying_active(n) ==
    /\ double.depositedAmount - n >= -MaxDeposited
    /\ deposited' = IF deposited > n THEN deposited - n ELSE 0
    /\ double' = [depositedAmount |-> double.depositedAmount - n,
                  isActive |-> double.isActive /\ double.depositedAmount > n]
    /\ overdrawn' = (overdrawn \/ n > deposited)
    /\ UNCHANGED <<protocol, market, active>>

(* The backend stops at zero, the double does not. *)
withdraw_position(n) ==
    /\ double.depositedAmount - n >= -MaxDeposited
    /\ deposited' = IF deposited > n THEN deposited - n ELSE 0
    /\ active' = (active /\ deposited > n)
    /\ double' = [depositedAmount |-> double.depositedAmount - n,
                  isActive |-> double.isActive /\ double.depositedAmount > n]
    /\ overdrawn' = (overdrawn \/ n > deposited)
    /\ UNCHANGED <<protocol, market>>

MarketMoves ==
    /\ market' \in Markets
    /\ UNCHANGED <<protocol, deposited, active, double, overdrawn>>

BackendNext ==
    \/ \E n \in Deposits : deposit_position(n) \/ withdraw_position(n)
    \/ MarketMoves

BackendSpec == BackendInit /\ [][BackendNext]_backendVars

-----------------------------------------------------------------------------
(* mock-yield-backend.ts:91-99: the double agrees with the backend until   *)
(* the first withdrawal of more than the position, and never shows more    *)
(* than the backend afterwards.                                            *)
DoubleNeverAhead ==
    /\ double.depositedAmount <= deposited
    /\ ~overdrawn => double = [depositedAmount |-> deposited, isActive |-> active]

(* lending.ts:111-116: as more of the same supply is lent out, no backend  *)
(* lowers its volatility or its slippage for any amount, down to a market  *)
(* with nothing left.                                                      *)
TighterMarketsScoreWorse ==
    [][ market'.supply = market.supply /\ market'.borrow >= market.borrow
            /\ Available(market') >= 0 =>
          /\ ScaledVolatility(protocol, market') >= ScaledVolatility(protocol, market)
          /\ \A n \in Deposits :
                estimateSlippage(protocol, n, market') >= estimateSlippage(protocol, n, market)
      ]_backendVars
=============================================================================
