---------------------------- MODULE MCYieldRouter ----------------------------
(***************************************************************************)
(* An instance of YieldRouter for TLC: kamino is registered from the       *)
(* start, lulo comes and goes.                                             *)
(***************************************************************************)
EXTENDS YieldRouter, TLC

CONSTANTS kamino, lulo, q1, q2, usdc, none

BothSupport == (kamino :> {usdc}) @@ (lulo :> {usdc})

OneBackend == <<kamino>>

(* Two yields without volatility, and one whose volatility, above the      *)
(* floor of 2, ranks it between them; all at or above the minimum yield.   *)
SomeYields ==
    {[annualizedApy |-> 2, volatilityScore |-> 0],
     [annualizedApy |-> 3, volatilityScore |-> 0],
     [annualizedApy |-> 5, volatilityScore |-> 4]}
=============================================================================
