------------------------------ MODULE Backtest ------------------------------
(***************************************************************************)
(* The backtest (packages/backtest/src): the loader turns a history of     *)
(* sub-daily Kamino rates into daily points for three protocols, the       *)
(* engine compounds a portfolio that the router's scores rebalance each    *)
(* day, and three that stay with one protocol, and metrics.ts measures the *)
(* curve.  Numbers are exact: a value is a fraction of the initial deposit,*)
(* [num, den], a rate an integer.                                          *)
(***************************************************************************)
EXTENDS Integers, Sequences, SequencesExt, FiniteSets, Functions

CONSTANTS
    DAYS_PER_YEAR,
    marginfiApyMultiplier, luloApyMultiplier,   \* config, integers here
    Hours,          \* rates of a history entry: [day, apy]
    DailyRates,     \* [protocol -> rate] a caller may hand to the engine
    MaxEntries, MaxDays,    \* bounds on the history and on the daily points
    CurveValues, MaxCurve   \* values and bound of a curve to measure

(* No rate is negative; the values of a curve are positive.                *)
ASSUME BacktestAssumption ==
    /\ DAYS_PER_YEAR \in Nat \ {0}
    /\ marginfiApyMultiplier \in Nat /\ luloApyMultiplier \in Nat
    /\ Hours \subseteq [day : Int, apy : Int]
    /\ DailyRates \subseteq [{"kamino", "marginfi", "lulo"} -> Nat]
    /\ CurveValues \subseteq Nat \ {0}

VARIABLES
    history,        \* what the API answers, an entry per observation
    data,           \* the daily points given to the engine
    at,             \* the number of points compounded, 0 before the run
    value,          \* [portfolio and protocols -> fraction]
    curve           \* values given to computeMaxDrawdown

backtestVars == <<history, data, at, value, curve>>

Protocols == {"kamino", "marginfi", "lulo"}
One == [num |-> 1, den |-> 1]

BacktestInit ==
    /\ history = <<>>
    /\ data = <<>>
    /\ at = 0
    /\ value = [v \in Protocols \cup {"portfolio"} |-> One]
    /\ curve = <<>>

-----------------------------------------------------------------------------
(* data-loader.ts *)

Higher(a, b) == IF a > b THEN a ELSE b

(* The rates of an observation; those without yield are dropped. *)
Rates(entry) ==
    LET marginfi == entry.apy * marginfiApyMultiplier
    IN  [kamino |-> entry.apy, marginfi |-> marginfi,
         lulo |-> Higher(entry.apy, marginfi) * luloApyMultiplier]

Kept == {i \in DOMAIN history : history[i].apy > 0}

(* The k-th least of a finite set of integers. *)
Nth(S, k) == CHOOSE x \in S : Cardinality({y \in S : y < x}) + 1 = k

(* Mutant: every observation is a day of its own. *)
EachADay ==
    [k \in 1..Cardinality(Kept) |->
        LET entry == history[Nth(Kept, k)]
        IN  [day |-> entry.day, n |-> 1, sum |-> Rates(entry)]]

(* The observations of a day are averaged: sums, and how many. *)
aggregateToDaily ==
    LET days == {history[i].day : i \in Kept}
        OfDay(d) == {i \in Kept : history[i].day = d}
    IN  [k \in 1..Cardinality(days) |->
            LET d == Nth(days, k)
            IN  [day |-> d, n |-> Cardinality(OfDay(d)),
                 sum |-> [p \in Protocols |->
                     SumFunction([i \in OfDay(d) |-> Rates(history[i])[p]])]]]

observes(entry) ==
    /\ data = <<>> /\ curve = <<>> /\ Len(history) < MaxEntries
    /\ history' = Append(history, entry)
    /\ UNCHANGED <<data, at, value, curve>>

fetchHistoricalData ==
    /\ data = <<>> /\ history # <<>>
    /\ data' = aggregateToDaily
    /\ UNCHANGED <<history, at, value, curve>>

(* A caller of runBacktest may bring its own data. *)
brings(rates) ==
    /\ history = <<>> /\ curve = <<>> /\ at = 0 /\ Len(data) < MaxDays
    /\ data' = Append(data, [day |-> Len(data), n |-> 1, sum |-> rates])
    /\ UNCHANGED <<history, at, value, curve>>

-----------------------------------------------------------------------------
(* engine.ts *)

VOLATILITY_WEIGHTS == [kamino |-> 20, marginfi |-> 19, lulo |-> 18]     \* twentieths

SumOver(f) == f.kamino + f.marginfi + f.lulo

(* Mutant: the total does not weigh the scores it is the total of. *)
UnweightedTotal(rates) == 20 * SumOver(rates)

TotalScore(rates) == SumOver([p \in Protocols |-> rates[p] * VOLATILITY_WEIGHTS[p]])

(* The rate the weights of computeWeights earn: thirds when nothing scores.*)
RouterRate(rates) ==
    IF TotalScore(rates) = 0
    THEN [num |-> SumOver(rates), den |-> 3]
    ELSE [num |-> SumOver([p \in Protocols |-> rates[p] * VOLATILITY_WEIGHTS[p] * rates[p]]),
          den |-> TotalScore(rates)]

(* 1 + rate / DAYS_PER_YEAR, the rate a sum over n observations. *)
Compounded(v, rate, n) ==
    [num |-> v.num * (rate.den * n * DAYS_PER_YEAR + rate.num),
     den |-> v.den * rate.den * n * DAYS_PER_YEAR]

(* The first point opens the run and earns nothing. *)
compounds ==
    /\ at < Len(data) /\ curve = <<>>
    /\ at' = at + 1
    /\ value' = IF at = 0 THEN value
                ELSE LET point == data[at + 1]
                     IN  [v \in DOMAIN value |-> Compounded(value[v],
                            IF v = "portfolio" THEN RouterRate(point.sum)
                            ELSE [num |-> point.sum[v], den |-> 1], point.n)]
    /\ UNCHANGED <<history, data, curve>>

-----------------------------------------------------------------------------
(* metrics.ts: the fold of computeMaxDrawdown, a drawdown a fraction of    *)
(* the peak so far.                                                        *)

Exceeds(a, b) == a.num * b.den > b.num * a.den

(* Mutant: the peak is the previous value. *)
AfterValueNoPeak(s, v) ==
    LET dd == [num |-> s.peak - v, den |-> s.peak]
    IN  [peak |-> v, maxDd |-> IF Exceeds(dd, s.maxDd) THEN dd ELSE s.maxDd]

AfterValue(s, v) ==
    LET peak == IF v > s.peak THEN v ELSE s.peak
        dd == [num |-> peak - v, den |-> peak]
    IN  [peak |-> peak, maxDd |-> IF Exceeds(dd, s.maxDd) THEN dd ELSE s.maxDd]

computeMaxDrawdown(values) ==
    IF Len(values) < 2 THEN [num |-> 0, den |-> 1]
    ELSE FoldLeft(AfterValue, [peak |-> values[1], maxDd |-> [num |-> 0, den |-> 1]],
                  values).maxDd

measures(v) ==
    /\ history = <<>> /\ data = <<>> /\ Len(curve) < MaxCurve
    /\ curve' = Append(curve, v)
    /\ UNCHANGED <<history, data, at, value>>

BacktestNext ==
    \/ \E e \in Hours : observes(e)
    \/ fetchHistoricalData
    \/ \E r \in DailyRates : brings(r)
    \/ compounds
    \/ \E v \in CurveValues : measures(v)

BacktestSpec == BacktestInit /\ [][BacktestNext]_backtestVars

-----------------------------------------------------------------------------
(* engine.ts:14-75: whatever the rates of each day, none negative, the     *)
(* portfolio the scores rebalance never ends below the worst of the three  *)
(* protocols, although no single protocol need be the worst every day.     *)
NeverBelowWorst ==
    \E p \in Protocols : ~Exceeds(value[p], value.portfolio)

(* data-loader.ts:46-50, "treating each as a daily data point causes the   *)
(* engine to compound ~24x too often": the engine compounds no more often  *)
(* than there are days after the first, in their order, and no daily rate  *)
(* exceeds the highest observed.                                           *)
CompoundsOncePerDay ==
    history # <<>> =>
        /\ \A i \in 1..Len(data) - 1 : data[i].day < data[i + 1].day
        /\ \A i \in DOMAIN data : \E e \in ToSet(history) :
              data[i].day = e.day /\ data[i].sum.kamino <= e.apy * data[i].n

(* metrics.ts:9-19: the one-pass drawdown is the largest fall of the curve *)
(* from any value to any later one.                                        *)
DrawdownIsLargestFall ==
    LET dd == computeMaxDrawdown(curve)
        Fall(i, j) == [num |-> curve[i] - curve[j], den |-> curve[i]]
    IN  /\ \A i, j \in DOMAIN curve : i <= j => ~Exceeds(Fall(i, j), dd)
        /\ Len(curve) > 1 =>
              \E i, j \in DOMAIN curve : i <= j /\ ~Exceeds(dd, Fall(i, j))
=============================================================================
