--------------------------- MODULE BacktestProofs ---------------------------
(***************************************************************************)
(* Theorems about Backtest, for every value of its constants: histories of *)
(* any length, any rates that are not negative, any curve of positive      *)
(* values.                                                                 *)
(***************************************************************************)
EXTENDS Backtest, DataLemmas, TLAPS

(* Inequalities of products. *)

(* Multiplying by a positive number keeps an inequality, both ways. *)
LEMMA ScaledOrder ==
    ASSUME NEW x \in Int, NEW y \in Int, NEW k \in Nat \ {0}
    PROVE  x <= y <=> x * k <= y * k
<1>1. x <= y => x * k <= y * k
  <2> SUFFICES ASSUME x <= y PROVE (y - x) * k >= 0
    OBVIOUS
  <2>1. y - x \in Nat
    OBVIOUS
  <2> DEFINE d == y - x
  <2> HIDE DEF d
  <2>2. d * k >= 0
    BY <2>1 DEF d
  <2> QED BY <2>2 DEF d
<1>2. x > y => x * k > y * k
  <2> SUFFICES ASSUME x > y PROVE (x - y) * k > 0
    OBVIOUS
  <2> DEFINE d == x - y
  <2>1. d \in Nat \ {0}
    OBVIOUS
  <2> HIDE DEF d
  <2>2. d * k > 0
    BY <2>1
  <2> QED BY <2>2 DEF d
<1> QED BY <1>1, <1>2

(* Products of natural numbers keep an order. *)
LEMMA ProductOrder ==
    ASSUME NEW a \in Nat, NEW b \in Nat, NEW c \in Nat, NEW d \in Nat, a <= b, c <= d
    PROVE  a * c \in Nat /\ b * d \in Nat /\ a * c <= b * d
<1>1. a * c <= b * c
  <2>1. (b - a) * c >= 0
    <3> DEFINE e == b - a
    <3>1. e \in Nat
      OBVIOUS
    <3> HIDE DEF e
    <3>2. e * c >= 0
      BY <3>1
    <3> QED BY <3>2 DEF e
  <2> QED BY <2>1
<1>2. b * c <= b * d
  <2>1. b * (d - c) >= 0
    <3> DEFINE e == d - c
    <3>1. e \in Nat
      OBVIOUS
    <3> HIDE DEF e
    <3>2. b * e >= 0
      BY <3>1
    <3> QED BY <3>2 DEF e
  <2> QED BY <2>1
<1>3. a * c \in Nat /\ b * c \in Nat /\ b * d \in Nat
  OBVIOUS
<1> QED BY <1>1, <1>2, <1>3

(* The square of a mean is at least the product. *)
LEMMA MeanSquare ==
    ASSUME NEW a \in Nat, NEW b \in Nat, NEW m \in Nat, a + b = 2 * m
    PROVE  a * b <= m * m
<1> DEFINE d == a - m
<1>1. a = m + d /\ b = m - d /\ d \in Int
  OBVIOUS
<1> HIDE DEF d
<1>2. a * b = m * m - d * d
  BY <1>1
<1>3. d * d >= 0
  BY <1>1
<1>4. m * m \in Int /\ d * d \in Int
  BY <1>1
<1> QED BY <1>2, <1>3, <1>4

(* Bounds of factors bound a product. *)
LEMMA ProductChain ==
    ASSUME NEW a \in Nat, NEW b \in Nat, NEW c \in Nat, NEW d \in Nat, NEW e \in Nat,
           a <= b, c <= d, b * d <= e
    PROVE  a * c \in Nat /\ a * c <= e
<1>1. a * c \in Nat /\ b * d \in Nat /\ a * c <= b * d
  BY ProductOrder
<1> QED BY <1>1

-----------------------------------------------------------------------------
(* The drawdown *)

(* Fractions, with their order Exceeds. *)
Fractions == [num : Int, den : Nat \ {0}]

(* Fractions with positive denominators are ordered. *)
LEMMA ExceedsOrder ==
    ASSUME NEW a \in Fractions, NEW b \in Fractions, NEW c \in Fractions,
           ~Exceeds(a, b), ~Exceeds(b, c)
    PROVE  ~Exceeds(a, c)
<1> DEFINE an == a.num  ad == a.den  bn == b.num
           bd == b.den  cn == c.num  cd == c.den
<1>1. /\ an \in Int /\ bn \in Int /\ cn \in Int
      /\ ad \in Nat \ {0} /\ bd \in Nat \ {0} /\ cd \in Nat \ {0}
  BY DEF Fractions
<1>2. an * bd <= bn * ad /\ bn * cd <= cn * bd
  <2>1. ~(an * bd > bn * ad) /\ ~(bn * cd > cn * bd)
    BY DEF Exceeds
  <2> HIDE DEF an, ad, bn, bd, cn, cd
  <2>2. an * bd \in Int /\ bn * ad \in Int /\ bn * cd \in Int /\ cn * bd \in Int
    BY <1>1
  <2> QED BY <2>1, <2>2
<1>7. ~(an * cd > cn * ad)
  <2> HIDE DEF an, ad, bn, bd, cn, cd
  <2>1. (an * bd) * cd <= (bn * ad) * cd
    <3>1. an * bd \in Int /\ bn * ad \in Int
      BY <1>1
    <3> QED BY <1>1, <1>2, <3>1, ScaledOrder
  <2>2. (bn * cd) * ad <= (cn * bd) * ad
    <3>1. bn * cd \in Int /\ cn * bd \in Int
      BY <1>1
    <3> QED BY <1>1, <1>2, <3>1, ScaledOrder
  <2>3. (an * cd) * bd <= (cn * ad) * bd
    BY <1>1, <2>1, <2>2
  <2>4. an * cd \in Int /\ cn * ad \in Int
    BY <1>1
  <2>5. an * cd <= cn * ad
    BY <1>1, <2>3, <2>4, ScaledOrder
  <2> QED BY <2>4, <2>5
<1> QED BY <1>7 DEF Exceeds

(* The recursion of FoldLeft that computeMaxDrawdown is, over the first n  *)
(* values.                                                                 *)
FoldStep(base, values, n, g) ==
    [s \in SUBSET (1..n) |->
        IF s = {} THEN base
        ELSE LET x == Max(s) IN AfterValue(g[s \ {x}], values[x])]

(* The fold is the value at the whole domain of a function that satisfies  *)
(* the recursion.                                                          *)
LEMMA FoldUnfold ==
    ASSUME NEW base, NEW S, NEW values \in Seq(S)
    PROVE  FoldLeft(AfterValue, base, values)
             = (CHOOSE g : g = FoldStep(base, values, Len(values), g))[1..Len(values)]
<1>1. DOMAIN values = 1..Len(values)
  OBVIOUS
<1> QED BY <1>1 DEF FoldLeft, MapThenFoldSet, FoldStep

(* The largest of 1 to n + 1, or of a part of it with n + 1. *)
LEMMA MaxOfInterval ==
    ASSUME NEW n \in Nat
    PROVE  /\ \A s \in SUBSET (1..n+1) : n + 1 \in s => Max(s) = n + 1
<1> SUFFICES ASSUME NEW s \in SUBSET (1..n+1), n + 1 \in s PROVE Max(s) = n + 1
  OBVIOUS
<1>1. \A x \in s : x \in Nat /\ x <= n + 1
  OBVIOUS
<1> DEFINE m == CHOOSE x \in s : \A y \in s : x >= y
<1>2. \A y \in s : n + 1 >= y
  BY <1>1
<1>3. m \in s /\ \A y \in s : m >= y
  BY <1>2
<1>4. m >= n + 1 /\ m <= n + 1 /\ m \in Nat
  BY <1>1, <1>3
<1>5. m = n + 1
  <2> HIDE DEF m
  <2> QED BY <1>4
<1> QED BY <1>5 DEF Max

(* Such a function exists. *)
LEMMA FoldExists ==
    ASSUME NEW base, NEW values
    PROVE  \A n \in Nat : \E g : g = FoldStep(base, values, n, g)
<1> DEFINE S == {n \in Nat : \E g : g = FoldStep(base, values, n, g)}
<1>1. 0 \in S
  <2> DEFINE g == [s \in {{}} |-> base]
  <2>1. SUBSET (1..0) = {{}}
    OBVIOUS
  <2>2. g = FoldStep(base, values, 0, g)
    BY <2>1 DEF FoldStep
  <2> QED BY <2>2
<1>2. ASSUME NEW n \in Nat, n \in S PROVE n + 1 \in S
  <2>1. PICK g : g = FoldStep(base, values, n, g)
    BY <1>2
  <2> DEFINE h == [s \in SUBSET (1..n+1) |->
                     IF n + 1 \in s THEN AfterValue(g[s \ {n + 1}], values[n + 1])
                     ELSE g[s]]
  <2>2. ASSUME NEW s \in SUBSET (1..n+1)
        PROVE  h[s] = IF s = {} THEN base
                      ELSE LET x == Max(s) IN AfterValue(h[s \ {x}], values[x])
    <3>1. CASE n + 1 \in s
      <4>1. Max(s) = n + 1
        BY <3>1, MaxOfInterval
      <4>2. s \ {n + 1} \in SUBSET (1..n+1) /\ n + 1 \notin s \ {n + 1} /\ s # {}
        BY <3>1
      <4>3. h[s \ {n + 1}] = g[s \ {n + 1}]
        BY <4>2
      <4>4. h[s] = AfterValue(g[s \ {n + 1}], values[n + 1])
        BY <3>1
      <4> HIDE DEF h
      <4> QED BY <4>1, <4>2, <4>3, <4>4
    <3>2. CASE n + 1 \notin s
      <4>1. s \in SUBSET (1..n)
        BY <3>2
      <4>2. h[s] = g[s]
        BY <3>2
      <4>3. g[s] = IF s = {} THEN base
                   ELSE LET x == Max(s) IN AfterValue(g[s \ {x}], values[x])
        BY <2>1, <4>1 DEF FoldStep
      <4>4. \A x : h[s \ {x}] = g[s \ {x}]
        BY <3>2
      <4> HIDE DEF h
      <4> QED BY <4>2, <4>3, <4>4
    <3> QED BY <3>1, <3>2
  <2>3. h = FoldStep(base, values, n + 1, h)
    <3>1. DOMAIN h = SUBSET (1..n+1)
      OBVIOUS
    <3>2. h = [s \in SUBSET (1..n+1) |-> h[s]]
      OBVIOUS
    <3> HIDE DEF h
    <3> QED BY <2>2, <3>2 DEF FoldStep
  <2> QED BY <2>3
<1>3. Nat \subseteq S
  <2> HIDE DEF S
  <2> QED BY <1>1, <1>2, NatSetInduction
<1> QED BY <1>3

(* What the fold knows after the first k values of a curve of positive     *)
(* numbers: the peak is one of the values so far (the first one before any *)
(* is read) and none of them is larger, no fall so far is larger than the  *)
(* drawdown, and some fall is as large.                                    *)
FallOf(values, i, j) == [num |-> values[i] - values[j], den |-> values[i]]

Measured(values, k, s) ==
    /\ s \in [peak : Nat \ {0}, maxDd : Fractions]
    /\ \E i \in DOMAIN values : i <= Higher(k, 1) /\ s.peak = values[i]
    /\ \A i \in 1..k : values[i] <= s.peak
    /\ \A i, j \in 1..k : i <= j => ~Exceeds(FallOf(values, i, j), s.maxDd)
    /\ \E i, j \in DOMAIN values :
          i <= j /\ j <= Higher(k, 1) /\ ~Exceeds(s.maxDd, FallOf(values, i, j))

(* One more value keeps what the fold knows true. *)
LEMMA MeasuredNext ==
    ASSUME NEW values \in Seq(Nat \ {0}), NEW k \in 0..Len(values)-1, NEW s,
           Measured(values, k, s)
    PROVE  Measured(values, k + 1, AfterValue(s, values[k + 1]))
<1> DEFINE v == values[k + 1]
           peak == IF v > s.peak THEN v ELSE s.peak
           dd == [num |-> peak - v, den |-> peak]
           t == AfterValue(s, v)
<1>1. /\ v \in Nat \ {0} /\ k + 1 \in DOMAIN values /\ DOMAIN values = 1..Len(values)
      /\ Len(values) \in Nat /\ k \in Nat
  OBVIOUS
<1>2. s.peak \in Nat \ {0} /\ s.maxDd \in Fractions
  BY DEF Measured
<1>3. /\ peak \in Nat \ {0} /\ v <= peak /\ s.peak <= peak
      /\ peak = v \/ peak = s.peak
  BY <1>1, <1>2
<1>4. \A i \in 1..k : values[i] <= s.peak /\ values[i] \in Nat \ {0}
  BY <1>1 DEF Measured
<1>5. dd \in Fractions
  <2> HIDE DEF peak, v
  <2> QED BY <1>1, <1>3 DEF Fractions
<1>6. /\ t.peak = peak
      /\ t.maxDd = IF Exceeds(dd, s.maxDd) THEN dd ELSE s.maxDd
      /\ t = [peak |-> t.peak, maxDd |-> t.maxDd]
  BY DEF AfterValue
<1> HIDE DEF t, v, dd, peak
<1>7. t.maxDd \in Fractions
  BY <1>2, <1>5, <1>6
<1>8. t \in [peak : Nat \ {0}, maxDd : Fractions]
  <2>1. t.peak \in Nat \ {0}
    BY <1>3, <1>6
  <2> DEFINE p == t.peak  m == t.maxDd
  <2> HIDE DEF p, m
  <2>2. [peak |-> p, maxDd |-> m] \in [peak : Nat \ {0}, maxDd : Fractions]
    BY <2>1, <1>7 DEF p, m
  <2> QED BY <1>6, <2>2, Zenon DEF p, m
<1>9. \E i \in DOMAIN values : i <= Higher(k + 1, 1) /\ t.peak = values[i]
  <2>1. CASE peak = v
    <3>1. k + 1 <= Higher(k + 1, 1)
      BY <1>1 DEF Higher
    <3> QED BY <1>1, <1>6, <2>1, <3>1 DEF v
  <2>2. CASE peak = s.peak
    <3>1. PICK i \in DOMAIN values : i <= Higher(k, 1) /\ s.peak = values[i]
      BY DEF Measured
    <3>2. i <= Higher(k + 1, 1)
      BY <1>1, <3>1 DEF Higher
    <3> QED BY <1>6, <2>2, <3>1, <3>2
  <2> QED BY <1>3, <2>1, <2>2
<1>10. \A i \in 1..k+1 : values[i] <= peak /\ values[i] \in Nat \ {0}
  <2> SUFFICES ASSUME NEW i \in 1..k+1
               PROVE  values[i] <= peak /\ values[i] \in Nat \ {0}
    OBVIOUS
  <2>1. CASE i = k + 1
    BY <1>1, <1>3, <2>1 DEF v
  <2>2. CASE i # k + 1
    <3>1. i \in 1..k
      BY <1>1, <2>2
    <3> QED BY <1>2, <1>3, <1>4, <3>1
  <2> QED BY <2>1, <2>2
<1>11. ~Exceeds(s.maxDd, t.maxDd) /\ ~Exceeds(dd, t.maxDd)
  <2>1. \A f \in Fractions : ~Exceeds(f, f)
    BY DEF Exceeds, Fractions
  <2>2. \A f, g \in Fractions : Exceeds(f, g) => ~Exceeds(g, f)
    BY DEF Exceeds, Fractions
  <2> QED BY <1>2, <1>5, <1>6, <2>1, <2>2
<1>12. \A i \in 1..k+1, j \in 1..k+1 : FallOf(values, i, j) \in Fractions
  <2> SUFFICES ASSUME NEW i \in 1..k+1, NEW j \in 1..k+1
               PROVE  FallOf(values, i, j) \in Fractions
    OBVIOUS
  <2>1. values[i] \in Nat \ {0} /\ values[j] \in Nat \ {0}
    BY <1>10
  <2> QED BY <2>1 DEF FallOf, Fractions
<1>13. ASSUME NEW i \in 1..k+1, NEW j \in 1..k+1, i <= j
       PROVE  ~Exceeds(FallOf(values, i, j), t.maxDd)
  <2>1. CASE j \in 1..k
    <3>1. i \in 1..k
      BY <1>1, <1>13, <2>1
    <3>2. ~Exceeds(FallOf(values, i, j), s.maxDd)
      BY <1>13, <2>1, <3>1 DEF Measured
    <3> QED BY <1>2, <1>7, <1>11, <1>12, <3>2, ExceedsOrder
  <2>2. CASE j = k + 1
    <3> DEFINE x == values[i]
    <3>1. x \in Nat \ {0} /\ x <= peak
      BY <1>10
    <3>2. ~Exceeds(FallOf(values, i, j), dd)
      <4>1. ~((x - v) * peak > (peak - v) * x)
        <5> HIDE DEF x
        <5>1. x * v <= peak * v
          BY <1>1, <1>3, <3>1, ScaledOrder
        <5>2. (x - v) * peak = x * peak - peak * v /\ (peak - v) * x = x * peak - x * v
          BY <1>1, <1>3, <3>1
        <5>3. x * v \in Int /\ peak * v \in Int /\ x * peak \in Int
          BY <1>1, <1>3, <3>1
        <5> QED BY <5>1, <5>2, <5>3
      <4>2. FallOf(values, i, j) = [num |-> x - v, den |-> x]
        BY <2>2 DEF FallOf, v
      <4> QED BY <4>1, <4>2 DEF Exceeds, dd
    <3> QED BY <1>5, <1>7, <1>11, <1>12, <3>2, ExceedsOrder
  <2>3. j \in 1..k \/ j = k + 1
    BY <1>1
  <2> QED BY <2>1, <2>2, <2>3
<1>14. \E i, j \in DOMAIN values :
          i <= j /\ j <= Higher(k + 1, 1) /\ ~Exceeds(t.maxDd, FallOf(values, i, j))
  <2>1. CASE t.maxDd = s.maxDd
    <3>1. PICK i \in DOMAIN values, j \in DOMAIN values :
             i <= j /\ j <= Higher(k, 1) /\ ~Exceeds(s.maxDd, FallOf(values, i, j))
      BY DEF Measured
    <3>2. j <= Higher(k + 1, 1)
      BY <1>1, <3>1 DEF Higher
    <3> QED BY <2>1, <3>1, <3>2
  <2>2. CASE t.maxDd = dd
    <3>1. PICK i \in DOMAIN values : i <= Higher(k + 1, 1) /\ t.peak = values[i]
      BY <1>9
    <3>2. k + 1 <= Higher(k + 1, 1) /\ Higher(k + 1, 1) <= k + 1
      BY <1>1 DEF Higher
    <3>3. FallOf(values, i, k + 1) = dd
      BY <1>6, <3>1 DEF FallOf, dd, v
    <3>4. ~Exceeds(dd, dd)
      BY <1>5 DEF Exceeds, Fractions
    <3>5. i <= k + 1
      BY <1>1, <3>1, <3>2 DEF Higher
    <3> QED BY <1>1, <2>2, <3>2, <3>3, <3>4, <3>5
  <2> QED BY <1>6, <2>1, <2>2
<1> QED BY <1>6, <1>8, <1>9, <1>10, <1>13, <1>14 DEF Measured, t, v

(* The fold over the prefixes of a curve of at least two values. *)
LEMMA DrawdownMeasured ==
    ASSUME NEW values \in Seq(Nat \ {0}), Len(values) > 1
    PROVE  \E s : /\ s.maxDd = computeMaxDrawdown(values)
                 /\ Measured(values, Len(values), s)
<1> DEFINE base == [peak |-> values[1], maxDd |-> [num |-> 0, den |-> 1]]
           n == Len(values)
           g == CHOOSE h : h = FoldStep(base, values, n, h)
           S == {k \in Nat : k <= n => Measured(values, k, g[1..k])}
<1>1. n \in Nat /\ DOMAIN values = 1..n /\ values[1] \in Nat \ {0} /\ n > 1
  OBVIOUS
<1>2. g = FoldStep(base, values, n, g)
  <2>1. \E h : h = FoldStep(base, values, n, h)
    BY <1>1, FoldExists
  <2> QED BY <2>1
<1>3. FoldLeft(AfterValue, base, values) = g[1..n]
  BY FoldUnfold
<1> HIDE DEF g, n
<1>4. 0 \in S
  <2>1. g[1..0] = base
    <3>1. 1..0 = {} /\ {} \in SUBSET (1..n)
      OBVIOUS
    <3>2. g[{}] = base
      BY <1>2, <3>1 DEF FoldStep
    <3> QED BY <3>1, <3>2, Zenon
  <2>2. base \in [peak : Nat \ {0}, maxDd : Fractions]
    BY <1>1 DEF Fractions
  <2>3. base.peak = values[1] /\ 1 \in DOMAIN values /\ 1 <= Higher(0, 1)
    BY <1>1 DEF Higher
  <2>4. ~Exceeds(base.maxDd, FallOf(values, 1, 1))
    BY <1>1 DEF Exceeds, FallOf
  <2>5. Measured(values, 0, base)
    <3> HIDE DEF base
    <3>1. 1 <= 1 /\ 1..0 = {}
      OBVIOUS
    <3> QED BY <2>2, <2>3, <2>4, <3>1 DEF Measured
  <2> QED BY <2>1, <2>5
<1>5. ASSUME NEW k \in Nat, k \in S PROVE k + 1 \in S
  <2> SUFFICES ASSUME k + 1 <= n PROVE Measured(values, k + 1, g[1..k+1])
    OBVIOUS
  <2>1. Measured(values, k, g[1..k]) /\ k \in 0..n-1
    BY <1>1, <1>5
  <2>2. g[1..k+1] = AfterValue(g[1..k], values[k + 1])
    <3>1. 1..k+1 \in SUBSET (1..n) /\ 1..k+1 # {} /\ k + 1 \in 1..k+1
      <4>1. k + 1 \in 1..k+1
        OBVIOUS
      <4>2. \A x \in 1..k+1 : x \in 1..n
        BY <1>1, <2>1
      <4> QED BY <4>1, <4>2
    <3>2. Max(1..k+1) = k + 1
      BY <3>1, MaxOfInterval
    <3>3. (1..k+1) \ {k + 1} = 1..k
      OBVIOUS
    <3>4. g[1..k+1] = LET x == Max(1..k+1)
                      IN  AfterValue(g[(1..k+1) \ {x}], values[x])
      BY <1>2, <3>1 DEF FoldStep
    <3> QED BY <3>2, <3>3, <3>4, Zenon
  <2>3. k \in 0..Len(values)-1
    BY <2>1 DEF n
  <2> HIDE DEF S
  <2> QED BY <2>1, <2>2, <2>3, MeasuredNext
<1>6. n \in S
  <2> HIDE DEF S
  <2>1. Nat \subseteq S
    BY <1>4, <1>5, NatSetInduction
  <2> QED BY <1>1, <2>1
<1>7. computeMaxDrawdown(values) = g[1..n].maxDd
  BY <1>1, <1>3 DEF computeMaxDrawdown, n
<1> QED BY <1>1, <1>6, <1>7 DEF n

(* A curve holds values of CurveValues. *)
CurveTyped == curve \in Seq(CurveValues)

(* Every curve measured has positive values. *)
LEMMA CurveIsTyped == BacktestSpec => []CurveTyped
<1>1. BacktestInit => CurveTyped
  BY DEF BacktestInit, CurveTyped
<1>2. CurveTyped /\ [BacktestNext]_backtestVars => CurveTyped'
  <2> SUFFICES ASSUME CurveTyped, [BacktestNext]_backtestVars PROVE CurveTyped'
    OBVIOUS
  <2>1. CASE \E v \in CurveValues : measures(v)
    BY <2>1 DEF measures, CurveTyped
  <2>2. CASE curve' = curve
    BY <2>2 DEF CurveTyped
  <2> QED BY <2>1, <2>2 DEF BacktestNext, observes, fetchHistoricalData, brings,
        compounds, backtestVars
<1> QED BY <1>1, <1>2, PTL DEF BacktestSpec

(* The result of the fold is the largest fall. *)
LEMMA FallsOfCurve == CurveTyped => DrawdownIsLargestFall
<1> SUFFICES ASSUME CurveTyped PROVE DrawdownIsLargestFall
  OBVIOUS
<1> DEFINE dd == computeMaxDrawdown(curve)
           n == Len(curve)
<1>1. curve \in Seq(Nat \ {0}) /\ n \in Nat /\ DOMAIN curve = 1..n
  <2>1. curve \in Seq(CurveValues)
    BY DEF CurveTyped
  <2>2. curve \in Seq(Nat \ {0})
    <3>1. \A i \in DOMAIN curve : curve[i] \in Nat \ {0}
      <4>1. \A i \in DOMAIN curve : curve[i] \in CurveValues
        BY <2>1
      <4> QED BY <4>1, BacktestAssumption DEF BacktestAssumption
    <3> QED BY <2>1, <3>1
  <2> QED BY <2>2
<1>2. CASE n > 1
  <2>1. PICK s : s.maxDd = dd /\ Measured(curve, n, s)
    BY <1>1, <1>2, DrawdownMeasured
  <2>2. \A i, j \in 1..n : i <= j => ~Exceeds(FallOf(curve, i, j), dd)
    BY <2>1 DEF Measured
  <2>3. \E i, j \in DOMAIN curve : i <= j /\ ~Exceeds(dd, FallOf(curve, i, j))
    BY <2>1 DEF Measured
  <2> HIDE DEF dd
  <2> QED BY <1>1, <2>2, <2>3 DEF DrawdownIsLargestFall, FallOf, dd
<1>3. CASE n <= 1
  <2>1. dd = [num |-> 0, den |-> 1]
    BY <1>1, <1>3 DEF computeMaxDrawdown
  <2>2. \A i, j \in DOMAIN curve : i <= j =>
           ~Exceeds([num |-> curve[i] - curve[j], den |-> curve[i]], dd)
    <3> SUFFICES ASSUME NEW i \in DOMAIN curve, NEW j \in DOMAIN curve, i <= j
                 PROVE  ~Exceeds([num |-> curve[i] - curve[j], den |-> curve[i]], dd)
      OBVIOUS
    <3>1. i = j /\ curve[i] \in Nat \ {0}
      BY <1>1, <1>3
    <3> HIDE DEF dd
    <3> QED BY <2>1, <3>1 DEF Exceeds
  <2>3. ~(Len(curve) > 1)
    BY <1>1, <1>3
  <2> HIDE DEF dd
  <2> QED BY <2>2, <2>3 DEF DrawdownIsLargestFall, dd
<1> QED BY <1>1, <1>2, <1>3

(* computeMaxDrawdown, one pass over the curve, is the largest fall.       *)
THEOREM DrawdownIsTheLargest == BacktestSpec => []DrawdownIsLargestFall
BY CurveIsTyped, FallsOfCurve, PTL
-----------------------------------------------------------------------------
(* The daily points *)

(* The k-th least of a finite set is in it, and later ones are larger. *)
LEMMA NthInOrder ==
    ASSUME NEW S \in SUBSET Int, IsFiniteSet(S)
    PROVE  /\ \A k \in 1..Cardinality(S) : Nth(S, k) \in S
           /\ \A k, l \in 1..Cardinality(S) : k < l => Nth(S, k) < Nth(S, l)
<1> DEFINE R == {p \in S \X S : p[1] < p[2]}
           n == Cardinality(S)
<1>1. /\ \A x \in S : <<x, x>> \notin R
      /\ \A x, y, z \in S : <<x, y>> \in R /\ <<y, z>> \in R => <<x, z>> \in R
      /\ \A x, y \in S : x = y \/ <<x, y>> \in R \/ <<y, x>> \in R
      /\ \A x, y \in S : <<x, y>> \in R <=> x < y
  OBVIOUS
<1> HIDE DEF R
<1>2. /\ \A k \in 1..n : \E x \in S : Place(S, R, x) = k
      /\ \A x, y \in S : <<x, y>> \in R <=> Place(S, R, x) < Place(S, R, y)
  BY <1>1, PlacesFollowOrder
<1>3. \A x \in S : Place(S, R, x) = Cardinality({y \in S : y < x}) + 1
  <2> TAKE x \in S
  <2>1. {y \in S : <<y, x>> \in R} = {y \in S : y < x}
    BY <1>1
  <2> QED BY <2>1, Zenon DEF Place
<1>4. ASSUME NEW k \in 1..n PROVE Nth(S, k) \in S /\ Place(S, R, Nth(S, k)) = k
  <2>1. \E x \in S : Cardinality({y \in S : y < x}) + 1 = k
    BY <1>2, <1>3
  <2>2. /\ Nth(S, k) \in S
        /\ Cardinality({y \in S : y < Nth(S, k)}) + 1 = k
    BY <2>1, Zenon DEF Nth
  <2> QED BY <1>3, <2>2, Zenon
<1>5. ASSUME NEW k \in 1..n, NEW l \in 1..n, k < l PROVE Nth(S, k) < Nth(S, l)
  <2>1. /\ Nth(S, k) \in S /\ Place(S, R, Nth(S, k)) = k
        /\ Nth(S, l) \in S /\ Place(S, R, Nth(S, l)) = l
    BY <1>4
  <2> DEFINE x == Nth(S, k)  y == Nth(S, l)
  <2> HIDE DEF x, y
  <2>2. <<x, y>> \in R
    BY <1>2, <1>5, <2>1 DEF x, y
  <2> QED BY <1>1, <2>1, <2>2 DEF x, y
<1> QED BY <1>4, <1>5

(* The observations kept and their days. *)
LEMMA KeptDays ==
    ASSUME history \in Seq(Hours)
    PROVE  LET days == {history[i].day : i \in Kept}
           IN  /\ IsFiniteSet(Kept) /\ Kept \subseteq DOMAIN history
               /\ \A i \in Kept : history[i].day \in Int /\ history[i].apy \in Nat
               /\ IsFiniteSet(days) /\ days \subseteq Int /\ Cardinality(days) \in Nat
<1> DEFINE days == {history[i].day : i \in Kept}
<1>2. IsFiniteSet(Kept) /\ Kept \subseteq DOMAIN history
  <2>1. DOMAIN history = 1..Len(history) /\ Len(history) \in Nat
    OBVIOUS
  <2>2. IsFiniteSet(1..Len(history))
    BY <2>1, FS_Interval
  <2> QED BY <2>1, <2>2, FS_Subset DEF Kept
<1>3. \A i \in Kept : history[i].day \in Int /\ history[i].apy \in Nat
  <2> TAKE i \in Kept
  <2>1. history[i] \in Hours
    BY <1>2
  <2>2. history[i] \in [day : Int, apy : Int]
    BY <2>1, BacktestAssumption DEF BacktestAssumption
  <2>3. history[i].apy > 0
    BY DEF Kept
  <2> QED BY <2>2, <2>3
<1>4. IsFiniteSet(days) /\ days \subseteq Int
  <2>1. IsFiniteSet(days)
    <3> DEFINE g == [i \in Kept |-> history[i].day]
    <3>1. g \in Surjection(Kept, days)
      BY DEF Surjection
    <3> HIDE DEF g, days
    <3> QED BY <1>2, <3>1, FS_Surjection
  <2> QED BY <1>3, <2>1
<1>5. Cardinality(days) \in Nat
  BY <1>4, FS_CardinalityType
<1> QED BY <1>2, <1>3, <1>4, <1>5

(* The points of a history: their days are later and later, each is the    *)
(* day of an observation, and no average is above the highest of its day.  *)
LEMMA DailyPoints ==
    ASSUME history \in Seq(Hours)
    PROVE  /\ Len(aggregateToDaily) \in Nat
           /\ DOMAIN aggregateToDaily = 1..Len(aggregateToDaily)
           /\ \A i, j \in DOMAIN aggregateToDaily :
                 i < j => aggregateToDaily[i].day < aggregateToDaily[j].day
           /\ \A i \in DOMAIN aggregateToDaily : \E j \in DOMAIN history :
                 /\ aggregateToDaily[i].day = history[j].day
                 /\ aggregateToDaily[i].sum.kamino
                      <= history[j].apy * aggregateToDaily[i].n
<1> DEFINE days == {history[i].day : i \in Kept}
           OfDay(d) == {i \in Kept : history[i].day = d}
           n == Cardinality(days)
           point(d) == [day |-> d, n |-> Cardinality(OfDay(d)),
                 sum |-> [p \in Protocols |->
                     SumFunction([i \in OfDay(d) |-> Rates(history[i])[p]])]]
<1>1. aggregateToDaily = [k \in 1..n |-> point(Nth(days, k))]
  BY Zenon DEF aggregateToDaily
<1>2. IsFiniteSet(Kept) /\ Kept \subseteq DOMAIN history
  BY KeptDays
<1>3. \A i \in Kept : history[i].day \in Int /\ history[i].apy \in Nat
  BY KeptDays
<1>4. IsFiniteSet(days) /\ days \subseteq Int
  BY KeptDays
<1>5. n \in Nat
  BY <1>4, FS_CardinalityType
<1> HIDE DEF days, n
<1>6. /\ \A k \in 1..n : Nth(days, k) \in days
      /\ \A k, l \in 1..n : k < l => Nth(days, k) < Nth(days, l)
  BY <1>4, NthInOrder DEF n
<1>7. ASSUME NEW d \in days
      PROVE  \E j \in DOMAIN history :
                /\ d = history[j].day
                /\ point(d).sum.kamino <= history[j].apy * point(d).n
  <2> DEFINE D == OfDay(d)
             f == [i \in D |-> history[i].apy]
  <2>1. IsFiniteSet(D) /\ D \subseteq Kept
    BY <1>2, FS_Subset
  <2>2. D # {}
    BY DEF days
  <2>3. f \in [D -> Nat]
    BY <1>3, <2>1
  <2>4. point(d).n = Cardinality(D)
    OBVIOUS
  <2>5. point(d).sum.kamino = SumFunction(f)
    <3>1. point(d).sum.kamino = SumFunction([i \in D |-> Rates(history[i])["kamino"]])
      BY DEF Protocols
    <3>2. \A i \in D : Rates(history[i])["kamino"] = history[i].apy
      BY DEF Rates
    <3>3. f = [i \in D |-> Rates(history[i])["kamino"]]
      BY <3>2
    <3> HIDE DEF f, D
    <3> QED BY <3>1, <3>3, Zenon
  <2> HIDE DEF f
  <2>6. PICK j \in D : \A i \in D : f[i] <= f[j]
    <3> HIDE DEF D
    <3> QED BY <2>1, <2>2, <2>3, LargestTerm
  <2>7. f[j] = history[j].apy /\ history[j].day = d /\ j \in DOMAIN history
    BY <1>2, <2>6 DEF f
  <2>8. f[j] \in Nat
    BY <2>3, <2>6
  <2>9. SumFunction(f) <= f[j] * Cardinality(D)
    <3> HIDE DEF D
    <3> QED BY <2>1, <2>3, <2>6, <2>8, SumIsBounded
  <2> HIDE DEF D, point
  <2>10. point(d).sum.kamino <= history[j].apy * point(d).n
    BY <2>4, <2>5, <2>7, <2>9
  <2> QED BY <2>7, <2>10
<1>8. \A d : point(d).day = d
  OBVIOUS
<1> DEFINE agg == [k \in 1..n |-> point(Nth(days, k))]
<1>9. DOMAIN agg = 1..n /\ Len(agg) = n /\ \A k \in 1..n : agg[k] = point(Nth(days, k))
  <2>1. DOMAIN agg = 1..n
    OBVIOUS
  <2>2. Len(agg) = n
    <3> HIDE DEF point
    <3> QED BY <1>5, <2>1
  <2> QED BY <2>1, <2>2
<1> HIDE DEF agg, point
<1>10. /\ \A i, j \in 1..n : i < j => agg[i].day < agg[j].day
       /\ \A i \in 1..n : \E j \in DOMAIN history :
                 /\ agg[i].day = history[j].day
                 /\ agg[i].sum.kamino <= history[j].apy * agg[i].n
  <2>1. \A k \in 1..n : agg[k].day = Nth(days, k)
    BY <1>8, <1>9
  <2>2. \A i, j \in 1..n : i < j => agg[i].day < agg[j].day
    BY <1>6, <2>1
  <2>3. \A i \in 1..n : \E j \in DOMAIN history :
                 /\ agg[i].day = history[j].day
                 /\ agg[i].sum.kamino <= history[j].apy * agg[i].n
    <3> TAKE i \in 1..n
    <3>1. Nth(days, i) \in days
      BY <1>6
    <3>2. agg[i] = point(Nth(days, i)) /\ agg[i].day = Nth(days, i)
      BY <1>9, <2>1
    <3> QED BY <1>7, <3>1, <3>2
  <2> QED BY <2>2, <2>3
<1>11. aggregateToDaily = agg
  BY <1>1 DEF agg
<1> QED BY <1>5, <1>9, <1>10, <1>11

(* What fetchHistoricalData hands over are the points of the history. *)
LoaderInv ==
    /\ history \in Seq(Hours)
    /\ history # <<>> => data \in {<<>>, aggregateToDaily}

(* The loader's invariant holds: the history only grows before it is read. *)
LEMMA LoaderInductive == BacktestSpec => []LoaderInv
<1>1. BacktestInit => LoaderInv
  BY DEF BacktestInit, LoaderInv
<1>2. LoaderInv /\ [BacktestNext]_backtestVars => LoaderInv'
  <2> SUFFICES ASSUME LoaderInv, [BacktestNext]_backtestVars PROVE LoaderInv'
    OBVIOUS
  <2>1. CASE \E e \in Hours : observes(e)
    <3>1. PICK e \in Hours : observes(e)
      BY <2>1
    <3>2. history' \in Seq(Hours) /\ data' = <<>>
      BY <3>1 DEF observes, LoaderInv
    <3> QED BY <3>2 DEF LoaderInv
  <2>2. CASE fetchHistoricalData
    <3>1. history' = history /\ data' = aggregateToDaily
      BY <2>2 DEF fetchHistoricalData
    <3>2. aggregateToDaily' = aggregateToDaily
      BY <3>1 DEF aggregateToDaily, Kept
    <3> QED BY <3>1, <3>2, Zenon DEF LoaderInv
  <2>3. CASE \E r \in DailyRates : brings(r)
    <3>1. history' = history /\ history = <<>>
      BY <2>3 DEF brings
    <3> QED BY <3>1 DEF LoaderInv
  <2>4. CASE UNCHANGED <<history, data>>
    <3>1. aggregateToDaily' = aggregateToDaily
      BY <2>4 DEF aggregateToDaily, Kept
    <3> QED BY <2>4, <3>1, Zenon DEF LoaderInv
  <2> QED BY <2>1, <2>2, <2>3, <2>4 DEF BacktestNext, compounds, measures, backtestVars
<1> QED BY <1>1, <1>2, PTL DEF BacktestSpec

(* The points of the history are what the property asks for. *)
LEMMA PointsOfHistory == LoaderInv => CompoundsOncePerDay
<1> SUFFICES ASSUME LoaderInv, history # <<>>
             PROVE  /\ \A i \in 1..Len(data) - 1 : data[i].day < data[i + 1].day
                    /\ \A i \in DOMAIN data : \E e \in ToSet(history) :
                         data[i].day = e.day /\ data[i].sum.kamino <= e.apy * data[i].n
  BY DEF CompoundsOncePerDay
<1>1. CASE data = <<>>
  BY <1>1
<1>2. CASE data = aggregateToDaily
  <2> DEFINE n == Len(data)
  <2>1. history \in Seq(Hours)
    BY DEF LoaderInv
  <2>2. /\ n \in Nat /\ DOMAIN data = 1..n
        /\ \A i, j \in DOMAIN data : i < j => data[i].day < data[j].day
        /\ \A i \in DOMAIN data : \E j \in DOMAIN history :
                 /\ data[i].day = history[j].day
                 /\ data[i].sum.kamino <= history[j].apy * data[i].n
    BY <1>2, <2>1, DailyPoints
  <2>3. \A i \in 1..n - 1 : data[i].day < data[i + 1].day
    <3> TAKE i \in 1..n - 1
    <3>1. i \in DOMAIN data /\ i + 1 \in DOMAIN data /\ i < i + 1
      BY <2>2
    <3> QED BY <2>2, <3>1
  <2>4. \A j \in DOMAIN history : history[j] \in ToSet(history)
    BY DEF ToSet
  <2> QED BY <2>2, <2>3, <2>4
<1> QED BY <1>1, <1>2 DEF LoaderInv

(* The engine compounds once for each day of the history, in order, at a   *)
(* rate no higher than the highest observed that day.                      *)
THEOREM OncePerDay == BacktestSpec => []CompoundsOncePerDay
BY LoaderInductive, PointsOfHistory, PTL

-----------------------------------------------------------------------------
(* The portfolio's return *)

(* Powers, by squaring. *)
Sq(x) == x * x
P4(x) == Sq(Sq(x))
P16(x) == P4(P4(x))
P57(x) == (Sq(P16(x)) * P16(x)) * (Sq(P4(x)) * x)

(* x^20 * y^19 * z^18 *)
Weighted(x, y, z) ==
    (P16(x) * P4(x)) * ((P16(y) * (Sq(y) * y)) * (P16(z) * Sq(z)))

(* Powers are natural numbers, positive ones of positive numbers; they     *)
(* keep products and orders.                                               *)
LEMMA SqFacts ==
    /\ \A x \in Nat : Sq(x) \in Nat
    /\ \A x \in Nat \ {0} : Sq(x) \in Nat \ {0}
    /\ \A x, y \in Nat : Sq(x * y) = Sq(x) * Sq(y)
    /\ \A x, y \in Nat : x <= y => Sq(x) <= Sq(y)
    /\ \A x, y \in Nat : x < y => Sq(x) < Sq(y)
<1>1. \A x \in Nat : Sq(x) \in Nat
  BY DEF Sq
<1>2. \A x \in Nat \ {0} : Sq(x) \in Nat \ {0}
  BY DEF Sq
<1>3. \A x, y \in Nat : Sq(x * y) = Sq(x) * Sq(y)
  BY DEF Sq
<1>4. \A x, y \in Nat : x <= y => Sq(x) <= Sq(y)
  BY ProductOrder DEF Sq
<1>5. \A x, y \in Nat : x < y => Sq(x) < Sq(y)
  <2> SUFFICES ASSUME NEW x \in Nat, NEW y \in Nat, x < y PROVE x * x < y * y
    BY DEF Sq
  <2>1. (x + 1) * (x + 1) <= y * y
    BY ProductOrder
  <2> QED BY <2>1
<1> QED BY <1>1, <1>2, <1>3, <1>4, <1>5

(* The same of the fourth power ... *)
LEMMA P4Facts ==
    /\ \A x \in Nat : P4(x) \in Nat
    /\ \A x \in Nat \ {0} : P4(x) \in Nat \ {0}
    /\ \A x, y \in Nat : P4(x * y) = P4(x) * P4(y)
    /\ \A x, y \in Nat : x <= y => P4(x) <= P4(y)
    /\ \A x, y \in Nat : x < y => P4(x) < P4(y)
<1>1. \A x, y \in Nat : P4(x * y) = P4(x) * P4(y)
  <2> SUFFICES ASSUME NEW x \in Nat, NEW y \in Nat PROVE P4(x * y) = P4(x) * P4(y)
    OBVIOUS
  <2>1. Sq(x * y) = Sq(x) * Sq(y) /\ Sq(x) \in Nat /\ Sq(y) \in Nat
    BY SqFacts
  <2>2. Sq(Sq(x) * Sq(y)) = Sq(Sq(x)) * Sq(Sq(y))
    BY <2>1, SqFacts
  <2> QED BY <2>1, <2>2, Zenon DEF P4
<1> QED BY <1>1, SqFacts DEF P4

(* ... and of the sixteenth. *)
LEMMA P16Facts ==
    /\ \A x \in Nat : P16(x) \in Nat
    /\ \A x \in Nat \ {0} : P16(x) \in Nat \ {0}
    /\ \A x, y \in Nat : P16(x * y) = P16(x) * P16(y)
    /\ \A x, y \in Nat : x <= y => P16(x) <= P16(y)
    /\ \A x, y \in Nat : x < y => P16(x) < P16(y)
<1>1. \A x, y \in Nat : P16(x * y) = P16(x) * P16(y)
  <2> SUFFICES ASSUME NEW x \in Nat, NEW y \in Nat PROVE P16(x * y) = P16(x) * P16(y)
    OBVIOUS
  <2>1. P4(x * y) = P4(x) * P4(y) /\ P4(x) \in Nat /\ P4(y) \in Nat
    BY P4Facts
  <2>2. P4(P4(x) * P4(y)) = P4(P4(x)) * P4(P4(y))
    BY <2>1, P4Facts
  <2> QED BY <2>1, <2>2, Zenon DEF P16
<1> QED BY <1>1, P4Facts DEF P16

(* The weighted product and its factors are natural numbers. *)
LEMMA WeightedType ==
    ASSUME NEW x \in Nat, NEW y \in Nat, NEW z \in Nat
    PROVE  /\ Weighted(x, y, z) \in Nat
           /\ P16(x) * P4(x) \in Nat
           /\ P16(y) * (Sq(y) * y) \in Nat
           /\ P16(z) * Sq(z) \in Nat
<1> DEFINE a == P16(x)  b == P4(x)  c == P16(y)  d == Sq(y)  e == P16(z)  f == Sq(z)
<1>1. a \in Nat /\ b \in Nat /\ c \in Nat /\ d \in Nat /\ e \in Nat /\ f \in Nat
  BY SqFacts, P4Facts, P16Facts
<1>2. Weighted(x, y, z) = (a * b) * ((c * (d * y)) * (e * f))
  BY DEF Weighted
<1> HIDE DEF a, b, c, d, e, f
<1>3. a * b \in Nat /\ c * (d * y) \in Nat /\ e * f \in Nat
  BY <1>1
<1>4. (a * b) * ((c * (d * y)) * (e * f)) \in Nat
  <2> DEFINE p == a * b  q == c * (d * y)  r == e * f
  <2> HIDE DEF p, q, r
  <2>1. p * (q * r) \in Nat
    BY <1>3 DEF p, q, r
  <2> QED BY <2>1 DEF p, q, r
<1> QED BY <1>2, <1>3, <1>4 DEF a, b, c, d, e, f

(* The weighted product of products is a product of weighted products. *)
LEMMA WeightedProduct ==
    ASSUME NEW x \in Nat, NEW y \in Nat, NEW z \in Nat,
           NEW u \in Nat, NEW v \in Nat, NEW w \in Nat
    PROVE  Weighted(x * u, y * v, z * w) = Weighted(x, y, z) * Weighted(u, v, w)
<1> DEFINE a == P16(x)  b == P4(x)  c == P16(y)  d == Sq(y)  e == P16(z)  f == Sq(z)
           g == P16(u)  h == P4(u)  i == P16(v)  j == Sq(v)  k == P16(w)  l == Sq(w)
<1>1. /\ a \in Nat /\ b \in Nat /\ c \in Nat /\ d \in Nat /\ e \in Nat /\ f \in Nat
      /\ g \in Nat /\ h \in Nat /\ i \in Nat /\ j \in Nat /\ k \in Nat /\ l \in Nat
  BY SqFacts, P4Facts, P16Facts
<1>2. /\ Weighted(x, y, z) = (a * b) * ((c * (d * y)) * (e * f))
      /\ Weighted(u, v, w) = (g * h) * ((i * (j * v)) * (k * l))
  BY DEF Weighted
<1>3. /\ P16(x * u) = a * g /\ P4(x * u) = b * h /\ P16(y * v) = c * i
      /\ Sq(y * v) = d * j /\ P16(z * w) = e * k /\ Sq(z * w) = f * l
  BY SqFacts, P4Facts, P16Facts
<1>4. Weighted(x * u, y * v, z * w)
        = ((a * g) * (b * h)) * (((c * i) * ((d * j) * (y * v))) * ((e * k) * (f * l)))
  <2> HIDE DEF a, b, c, d, e, f, g, h, i, j, k, l
  <2> QED BY <1>3, Zenon DEF Weighted
<1> HIDE DEF a, b, c, d, e, f, g, h, i, j, k, l
<1>5. (a * g) * (b * h) = (a * b) * (g * h)
  BY <1>1
<1>6. (c * i) * ((d * j) * (y * v)) = (c * (d * y)) * (i * (j * v))
  BY <1>1
<1>7. (e * k) * (f * l) = (e * f) * (k * l)
  BY <1>1
<1> DEFINE p1 == a * b  p2 == g * h  q1 == c * (d * y)  q2 == i * (j * v)
           r1 == e * f  r2 == k * l
<1>8. p1 \in Nat /\ p2 \in Nat /\ q1 \in Nat /\ q2 \in Nat /\ r1 \in Nat /\ r2 \in Nat
  BY <1>1
<1>9. Weighted(x * u, y * v, z * w) = (p1 * p2) * ((q1 * q2) * (r1 * r2))
  BY <1>4, <1>5, <1>6, <1>7, Zenon
<1>10. Weighted(x, y, z) = p1 * (q1 * r1) /\ Weighted(u, v, w) = p2 * (q2 * r2)
  BY <1>2, Zenon
<1> HIDE DEF p1, p2, q1, q2, r1, r2
<1>11. (p1 * p2) * ((q1 * q2) * (r1 * r2)) = (p1 * (q1 * r1)) * (p2 * (q2 * r2))
  BY <1>8
<1> QED BY <1>9, <1>10, <1>11, Zenon

(* WeightedProduct under a name, for the provers to match. *)
Factored(x, y, z, u, v, w) ==
    Weighted(x * u, y * v, z * w) = Weighted(x, y, z) * Weighted(u, v, w)

(* It holds of all natural numbers. *)
LEMMA WeightedFactors == \A x, y, z, u, v, w \in Nat : Factored(x, y, z, u, v, w)
BY WeightedProduct DEF Factored

(* The exponents add up to 57. *)
LEMMA WeightedOfOne ==
    ASSUME NEW k \in Nat
    PROVE  Weighted(k, k, k) = P57(k)
<1> DEFINE q == P16(k)  f == P4(k)  s == Sq(k)
<1>1. q \in Nat /\ f \in Nat /\ s \in Nat
  BY SqFacts, P4Facts, P16Facts
<1>2. f = s * s
  BY DEF P4, Sq
<1>3. Weighted(k, k, k) = (q * f) * ((q * (s * k)) * (q * s))
  BY DEF Weighted
<1>4. P57(k) = ((q * q) * q) * ((f * f) * k)
  <2>1. Sq(q) = q * q /\ Sq(f) = f * f
    BY DEF Sq
  <2> QED BY <2>1, Zenon DEF P57
<1> HIDE DEF q, f, s
<1>5. (q * f) * ((q * (s * k)) * (q * s)) = ((q * q) * q) * ((f * (s * s)) * k)
  BY <1>1
<1> QED BY <1>2, <1>3, <1>4, <1>5, Zenon

(* The weighted product grows with its factors. *)
LEMMA WeightedOrder ==
    ASSUME NEW x \in Nat, NEW y \in Nat, NEW z \in Nat,
           NEW u \in Nat, NEW v \in Nat, NEW w \in Nat,
           x <= u, y <= v, z <= w
    PROVE  Weighted(x, y, z) <= Weighted(u, v, w)
<1>1. /\ P16(x) * P4(x) <= P16(u) * P4(u)
  BY P4Facts, P16Facts, ProductOrder
<1>2. P16(y) * (Sq(y) * y) <= P16(v) * (Sq(v) * v)
  <2>1. Sq(y) * y <= Sq(v) * v /\ Sq(y) * y \in Nat /\ Sq(v) * v \in Nat
    BY SqFacts, ProductOrder
  <2> QED BY <2>1, P16Facts, ProductOrder
<1>3. P16(z) * Sq(z) <= P16(w) * Sq(w)
  BY SqFacts, P16Facts, ProductOrder
<1> DEFINE a == P16(x) * P4(x)  b == P16(y) * (Sq(y) * y)  c == P16(z) * Sq(z)
           d == P16(u) * P4(u)  e == P16(v) * (Sq(v) * v)  f == P16(w) * Sq(w)
<1>4. /\ a \in Nat /\ b \in Nat /\ c \in Nat /\ d \in Nat /\ e \in Nat /\ f \in Nat
  BY WeightedType
<1>5. a <= d /\ b <= e /\ c <= f
  BY <1>1, <1>2, <1>3
<1>6. Weighted(x, y, z) = a * (b * c) /\ Weighted(u, v, w) = d * (e * f)
  BY Zenon DEF Weighted
<1> HIDE DEF a, b, c, d, e, f
<1>7. b * c <= e * f /\ b * c \in Nat /\ e * f \in Nat
  BY <1>4, <1>5, ProductOrder
<1>8. a * (b * c) <= d * (e * f)
  BY <1>4, <1>5, <1>7, ProductOrder
<1> QED BY <1>6, <1>8

(* Of positive numbers it is positive. *)
LEMMA WeightedPositive ==
    ASSUME NEW x \in Nat \ {0}, NEW y \in Nat \ {0}, NEW z \in Nat \ {0}
    PROVE  Weighted(x, y, z) \in Nat \ {0}
<1>1. Weighted(1, 1, 1) <= Weighted(x, y, z)
  BY WeightedOrder
<1>2. Weighted(1, 1, 1) = 1
  <2>1. 1 * 1 = 1
    OBVIOUS
  <2>2. Sq(1) = 1
    BY <2>1, Zenon DEF Sq
  <2>3. P4(1) = 1
    BY <2>2, Zenon DEF P4
  <2>4. P16(1) = 1
    BY <2>3, Zenon DEF P16
  <2> QED BY <2>1, <2>2, <2>3, <2>4, Zenon DEF Weighted
<1>3. Weighted(x, y, z) \in Nat
  BY WeightedType
<1> QED BY <1>1, <1>2, <1>3

(* So the power of 57 keeps products and orders, too. *)
LEMMA P57Facts ==
    /\ \A k \in Nat : P57(k) \in Nat
    /\ \A k \in Nat \ {0} : P57(k) \in Nat \ {0}
    /\ \A k, l \in Nat : P57(k * l) = P57(k) * P57(l)
    /\ \A k, l \in Nat : k <= l => P57(k) <= P57(l)
<1>1. \A k \in Nat : P57(k) \in Nat
  BY WeightedOfOne, WeightedType
<1>2. \A k \in Nat \ {0} : P57(k) \in Nat \ {0}
  <2> TAKE k \in Nat \ {0}
  <2>1. Weighted(k, k, k) = P57(k) /\ Weighted(k, k, k) \in Nat \ {0}
    BY WeightedOfOne, WeightedPositive
  <2> QED BY <2>1
<1>3. \A k, l \in Nat : P57(k * l) = P57(k) * P57(l)
  <2> TAKE k \in Nat, l \in Nat
  <2>1. k * l \in Nat
    OBVIOUS
  <2>2. Weighted(k * l, k * l, k * l) = P57(k * l)
    BY <2>1, WeightedOfOne
  <2>3. Weighted(k * l, k * l, k * l) = Weighted(k, k, k) * Weighted(l, l, l)
    BY WeightedProduct
  <2>4. Weighted(k, k, k) = P57(k) /\ Weighted(l, l, l) = P57(l)
    BY WeightedOfOne
  <2> QED BY <2>2, <2>3, <2>4, Zenon
<1>4. \A k, l \in Nat : k <= l => P57(k) <= P57(l)
  <2> SUFFICES ASSUME NEW k \in Nat, NEW l \in Nat, k <= l PROVE P57(k) <= P57(l)
    OBVIOUS
  <2>1. Weighted(k, k, k) <= Weighted(l, l, l)
    BY WeightedOrder
  <2> QED BY <2>1, WeightedOfOne
<1> QED BY <1>1, <1>2, <1>3, <1>4

(* It grows strictly. *)
LEMMA P57Strict ==
    ASSUME NEW k \in Nat
    PROVE  P57(k) < P57(k + 1)
<1> DEFINE a == Sq(P16(k)) * P16(k)  b == Sq(P4(k))
           c == Sq(P16(k + 1)) * P16(k + 1)  d == Sq(P4(k + 1))
<1>1. /\ P16(k) \in Nat /\ P4(k) \in Nat /\ P16(k) <= P16(k + 1)
      /\ P16(k + 1) \in Nat \ {0} /\ P4(k + 1) \in Nat \ {0} /\ P4(k) <= P4(k + 1)
  <2>1. k + 1 \in Nat \ {0} /\ k + 1 \in Nat /\ k <= k + 1
    OBVIOUS
  <2> QED BY <2>1, P4Facts, P16Facts
<1>2. /\ Sq(P16(k)) \in Nat /\ Sq(P16(k + 1)) \in Nat \ {0}
      /\ Sq(P16(k)) <= Sq(P16(k + 1))
      /\ b \in Nat /\ d \in Nat \ {0} /\ b <= d
  BY <1>1, SqFacts
<1>3. a \in Nat /\ c \in Nat \ {0} /\ a <= c
  <2>1. a \in Nat /\ c \in Nat /\ a <= c
    BY <1>1, <1>2, ProductOrder
  <2>2. c # 0
    <3> DEFINE g == Sq(P16(k + 1))  h == P16(k + 1)
    <3>1. g \in Nat \ {0} /\ h \in Nat \ {0}
      BY <1>1, <1>2
    <3> HIDE DEF g, h
    <3>2. g * h # 0
      BY <3>1
    <3> QED BY <3>2 DEF g, h
  <2> QED BY <2>1, <2>2
<1>4. P57(k) = a * (b * k) /\ P57(k + 1) = c * (d * (k + 1))
  BY Zenon DEF P57
<1> HIDE DEF a, b, c, d
<1>5. b * k <= d * k /\ b * k \in Nat /\ d * k \in Nat
  BY <1>2, ProductOrder
<1>6. a * (b * k) <= c * (d * k) /\ a * (b * k) \in Nat /\ c * (d * k) \in Nat
  BY <1>3, <1>5, ProductOrder
<1>7. c * (d * (k + 1)) = c * (d * k) + c * d
  BY <1>2, <1>3
<1>8. c * d \in Nat \ {0}
  BY <1>2, <1>3
<1> QED BY <1>4, <1>6, <1>7, <1>8

(* The weights of the scores sum to 57, and 57 factors and seven times     *)
(* their mean are 64, which are paired again and again.                    *)
LEMMA MeanPower64 ==
    ASSUME NEW x0 \in Nat, NEW y0 \in Nat, NEW z0 \in Nat, NEW A0 \in Nat,
           57 * A0 = 20 * x0 + 19 * y0 + 18 * z0
    PROVE  LET x == 64 * x0  y == 64 * y0  z == 64 * z0  A == 64 * A0
           IN  (P16(x) * P16(y)) * (P16(z) * ((P4(x) * P4(A))
                  * ((Sq(y) * Sq(z)) * (Sq(A) * (y * A)))))
                 <= P16(P4(A))
<1> DEFINE x == 64 * x0  y == 64 * y0  z == 64 * z0  A == 64 * A0
           m1 == 32 * y0 + 32 * A0
           m2 == 32 * y0 + 32 * z0
           m3 == 48 * A0 + 16 * y0
           m4 == 32 * x0 + 32 * A0
           m5 == 24 * y0 + 16 * z0 + 24 * A0
           m6 == 16 * x0 + 12 * y0 + 8 * z0 + 28 * A0
           m7 == 32 * x0 + 32 * y0
           m8 == 8 * x0 + 6 * y0 + 36 * z0 + 14 * A0
<1>30. /\ m1 \in Nat /\ m2 \in Nat /\ m3 \in Nat /\ m4 \in Nat
      /\ m5 \in Nat /\ m6 \in Nat /\ m7 \in Nat /\ m8 \in Nat
      /\ x \in Nat /\ y \in Nat /\ z \in Nat /\ A \in Nat
  OBVIOUS
<1>31. /\ y + A = 2 * m1 /\ y + z = 2 * m2 /\ A + m1 = 2 * m3 /\ x + A = 2 * m4
      /\ m2 + m3 = 2 * m5 /\ m4 + m5 = 2 * m6 /\ x + y = 2 * m7 /\ z + m6 = 2 * m8
      /\ m7 + m8 = 2 * A
  OBVIOUS
<1> HIDE DEF x, y, z, A, m1, m2, m3, m4, m5, m6, m7, m8
<1>1. /\ \A a, b, c \in Nat : a * b <= c => Sq(a) * Sq(b) <= Sq(c)
      /\ \A a, b, c \in Nat : a * b <= c => P4(a) * P4(b) <= P4(c)
      /\ \A a, b, c \in Nat : a * b <= c => P16(a) * P16(b) <= P16(c)
  <2> SUFFICES ASSUME NEW a \in Nat, NEW b \in Nat, NEW c \in Nat, a * b <= c
               PROVE  /\ Sq(a) * Sq(b) <= Sq(c)
                      /\ P4(a) * P4(b) <= P4(c)
                      /\ P16(a) * P16(b) <= P16(c)
    OBVIOUS
  <2>1. a * b \in Nat
    OBVIOUS
  <2>2. Sq(a * b) <= Sq(c) /\ P4(a * b) <= P4(c) /\ P16(a * b) <= P16(c)
    BY <2>1, SqFacts, P4Facts, P16Facts
  <2>3. /\ Sq(a * b) = Sq(a) * Sq(b) /\ P4(a * b) = P4(a) * P4(b)
        /\ P16(a * b) = P16(a) * P16(b)
    BY SqFacts, P4Facts, P16Facts
  <2> QED BY <2>2, <2>3
<1>2. \A a, b, m \in Nat : a + b = 2 * m => a * b <= Sq(m)
  BY MeanSquare DEF Sq
<1>3. \A a \in Nat : Sq(a) \in Nat /\ P4(a) \in Nat /\ P16(a) \in Nat
  BY SqFacts, P4Facts, P16Facts
<1>11. y * A <= Sq(m1)
  BY <1>30, <1>31, <1>2
<1>12. Sq(y) * Sq(z) <= P4(m2)
  <2>1. y * z <= Sq(m2)
    BY <1>30, <1>31, <1>2
  <2> QED BY <2>1, <1>1, <1>3, <1>30 DEF P4
<1>13. Sq(A) * Sq(m1) <= P4(m3)
  <2>1. A * m1 <= Sq(m3)
    BY <1>30, <1>31, <1>2
  <2> QED BY <2>1, <1>1, <1>3, <1>30 DEF P4
<1>14. P4(x) * P4(A) <= P4(Sq(m4))
  <2>1. x * A <= Sq(m4)
    BY <1>30, <1>31, <1>2
  <2> QED BY <2>1, <1>1, <1>3, <1>30
<1>15. P4(m2) * P4(m3) <= P4(Sq(m5))
  <2>1. m2 * m3 <= Sq(m5)
    BY <1>30, <1>31, <1>2
  <2> QED BY <2>1, <1>1, <1>3, <1>30
<1>16. P4(Sq(m4)) * P4(Sq(m5)) <= P16(m6)
  <2>1. m4 * m5 <= Sq(m6)
    BY <1>30, <1>31, <1>2
  <2>2. Sq(m4) * Sq(m5) <= P4(m6)
    BY <2>1, <1>1, <1>3, <1>30 DEF P4
  <2> QED BY <2>2, <1>1, <1>3, <1>30 DEF P16
<1>17. P16(x) * P16(y) <= P16(Sq(m7))
  <2>1. x * y <= Sq(m7)
    BY <1>30, <1>31, <1>2
  <2> QED BY <2>1, <1>1, <1>3, <1>30
<1>18. P16(z) * P16(m6) <= P16(Sq(m8))
  <2>1. z * m6 <= Sq(m8)
    BY <1>30, <1>31, <1>2
  <2> QED BY <2>1, <1>1, <1>3, <1>30
<1>19. P16(Sq(m7)) * P16(Sq(m8)) <= P16(P4(A))
  <2>1. m7 * m8 <= Sq(A)
    BY <1>30, <1>31, <1>2
  <2>2. Sq(m7) * Sq(m8) <= P4(A)
    BY <2>1, <1>1, <1>3, <1>30 DEF P4
  <2> QED BY <2>2, <1>1, <1>3, <1>30
<1> DEFINE r1 == y * A
           r2 == Sq(A) * r1
           r3 == (Sq(y) * Sq(z)) * r2
           r4 == (P4(x) * P4(A)) * r3
           r5 == P16(z) * r4
           r6 == (P16(x) * P16(y)) * r5
<1>21. r1 \in Nat /\ r1 <= Sq(m1)
  BY <1>11, <1>30
<1> HIDE DEF r1
<1>22. r2 \in Nat /\ r2 <= P4(m3)
  <2>1. Sq(A) <= Sq(A)
    BY <1>3, <1>30
  <2> QED BY <2>1, <1>3, <1>30, <1>13, <1>21, ProductChain
<1> HIDE DEF r2
<1>23. r3 \in Nat /\ r3 <= P4(Sq(m5))
  <2>1. Sq(y) * Sq(z) \in Nat
    BY <1>3, <1>30
  <2> QED BY <2>1, <1>3, <1>30, <1>12, <1>15, <1>22, ProductChain
<1> HIDE DEF r3
<1>24. r4 \in Nat /\ r4 <= P16(m6)
  <2>1. P4(x) * P4(A) \in Nat
    BY <1>3, <1>30
  <2> QED BY <2>1, <1>3, <1>30, <1>14, <1>16, <1>23, ProductChain
<1> HIDE DEF r4
<1>25. r5 \in Nat /\ r5 <= P16(Sq(m8))
  <2>1. P16(z) <= P16(z)
    BY <1>3, <1>30
  <2> QED BY <2>1, <1>3, <1>30, <1>18, <1>24, ProductChain
<1> HIDE DEF r5
<1>26. r6 \in Nat /\ r6 <= P16(P4(A))
  <2>1. P16(x) * P16(y) \in Nat
    BY <1>3, <1>30
  <2> QED BY <2>1, <1>3, <1>30, <1>17, <1>19, <1>25, ProductChain
<1> QED BY <1>26 DEF r6, r5, r4, r3, r2, r1, x, y, z, A

(* A^57 * A^7 = A^64 *)
LEMMA P64 ==
    ASSUME NEW A \in Nat
    PROVE  P57(A) * (P4(A) * (Sq(A) * A)) = P16(P4(A))
<1> DEFINE s == Sq(A)  f == Sq(s)  e == Sq(f)  q == Sq(e)
<1>1. s \in Nat /\ f \in Nat /\ e \in Nat /\ q \in Nat
  BY SqFacts
<1>2. s = A * A /\ f = s * s /\ e = f * f /\ q = e * e
  BY DEF Sq
<1>3. P4(A) = f /\ P16(A) = q
  BY DEF P4, P16
<1>4. P57(A) = ((q * q) * q) * (e * A)
  <2>1. P57(A) = (Sq(q) * q) * (Sq(f) * A)
    BY <1>3, Zenon DEF P57
  <2> QED BY <2>1, Zenon DEF Sq
<1>5. P16(P4(A)) = (q * q) * (q * q)
  <2>1. P16(P4(A)) = Sq(Sq(P16(A)))
    BY DEF P16, P4
  <2> QED BY <1>3, <2>1, Zenon DEF Sq
<1> HIDE DEF s, f, e, q
<1>6. (((q * q) * q) * (e * A)) * (f * (s * A))
        = ((q * q) * q) * (e * (f * (s * (A * A))))
  BY <1>1
<1>7. ((q * q) * q) * (e * (f * (s * (A * A)))) = ((q * q) * q) * q
  BY <1>2, Zenon
<1>8. ((q * q) * q) * q = (q * q) * (q * q)
  BY <1>1
<1> QED BY <1>3, <1>4, <1>5, <1>6, <1>7, <1>8, Zenon DEF s

(* The power of the weighted mean is at least the weighted product. *)
LEMMA MeanPower ==
    ASSUME NEW x \in Nat, NEW y \in Nat, NEW z \in Nat, NEW A \in Nat \ {0},
           57 * A = 20 * x + 19 * y + 18 * z
    PROVE  Weighted(x, y, z) <= P57(A)
<1> DEFINE X == 64 * x  Y == 64 * y  Z == 64 * z  B == 64 * A
           seven == P4(B) * (Sq(B) * B)
<1>1. X \in Nat /\ Y \in Nat /\ Z \in Nat /\ B \in Nat \ {0}
  OBVIOUS
<1>2. (P16(X) * P16(Y)) * (P16(Z) * ((P4(X) * P4(B))
              * ((Sq(Y) * Sq(Z)) * (Sq(B) * (Y * B)))))
         <= P16(P4(B))
  BY MeanPower64, Zenon
<1> HIDE DEF X, Y, Z, B
<1>3. (P16(X) * P16(Y)) * (P16(Z) * ((P4(X) * P4(B))
              * ((Sq(Y) * Sq(Z)) * (Sq(B) * (Y * B)))))
        = Weighted(X, Y, Z) * seven
  <2> DEFINE a == P16(X)  b == P16(Y)  c == P16(Z)  d == P4(X)  e == P4(B)
             f == Sq(Y)  g == Sq(Z)  h == Sq(B)
  <2>1. /\ a \in Nat /\ b \in Nat /\ c \in Nat /\ d \in Nat /\ e \in Nat
        /\ f \in Nat /\ g \in Nat /\ h \in Nat
    BY <1>1, SqFacts, P4Facts, P16Facts
  <2>2. Weighted(X, Y, Z) = (a * d) * ((b * (f * Y)) * (c * g))
    BY DEF Weighted
  <2> HIDE DEF a, b, c, d, e, f, g, h
  <2>3. (a * b) * (c * ((d * e) * ((f * g) * (h * (Y * B)))))
          = ((a * d) * ((b * (f * Y)) * (c * g))) * (e * (h * B))
    BY <1>1, <2>1
  <2> QED BY <2>2, <2>3, Zenon DEF a, b, c, d, e, f, g, h
<1>4. P57(B) * seven = P16(P4(B))
  BY <1>1, P64
<1>5. seven \in Nat \ {0}
  <2> DEFINE e == P4(B)  h == Sq(B)
  <2>1. e \in Nat \ {0} /\ h \in Nat \ {0}
    BY <1>1, SqFacts, P4Facts
  <2> HIDE DEF e, h
  <2>2. h * B \in Nat \ {0}
    BY <1>1, <2>1
  <2>3. e * (h * B) \in Nat \ {0}
    <3> DEFINE g == h * B
    <3> HIDE DEF g
    <3>1. e * g \in Nat \ {0}
      BY <2>1, <2>2 DEF g
    <3> QED BY <3>1 DEF g
  <2> QED BY <2>3 DEF e, h
<1> HIDE DEF seven
<1>6. Weighted(X, Y, Z) <= P57(B)
  <2>1. Weighted(X, Y, Z) * seven <= P57(B) * seven
    BY <1>2, <1>3, <1>4
  <2>2. Weighted(X, Y, Z) \in Int /\ P57(B) \in Int
    BY <1>1, WeightedType, P57Facts
  <2> QED BY <1>5, <2>1, <2>2, ScaledOrder
<1>7. Weighted(X, Y, Z) = Weighted(x, y, z) * P57(64)
  <2>1. X = x * 64 /\ Y = y * 64 /\ Z = z * 64
    BY DEF X, Y, Z
  <2>2. Weighted(x * 64, y * 64, z * 64) = Weighted(x, y, z) * Weighted(64, 64, 64)
    BY WeightedProduct
  <2>3. Weighted(64, 64, 64) = P57(64)
    BY WeightedOfOne
  <2> QED BY <2>1, <2>2, <2>3, Zenon
<1>8. P57(B) = P57(A) * P57(64)
  <2>1. B = A * 64
    BY DEF B
  <2>2. P57(A * 64) = P57(A) * P57(64)
    BY P57Facts
  <2> QED BY <2>1, <2>2, Zenon
<1>9. P57(64) \in Nat \ {0} /\ P57(A) \in Int /\ Weighted(x, y, z) \in Int
  <2>1. 64 \in Nat \ {0} /\ A \in Nat
    OBVIOUS
  <2>2. P57(64) \in Nat \ {0} /\ P57(A) \in Nat
    BY <2>1, P57Facts
  <2> QED BY <2>2, WeightedType
<1> DEFINE k == P57(64)
<1>10. Weighted(x, y, z) * k <= P57(A) * k
  BY <1>6, <1>7, <1>8
<1> HIDE DEF k
<1>11. k \in Nat \ {0}
  BY <1>9 DEF k
<1> QED BY <1>9, <1>10, <1>11, ScaledOrder

(* A day's compounding keeps the portfolio's power above the product, if   *)
(* its rate is at least the mean of the rates that the weights give.       *)
LEMMA DayKeepsMean ==
    ASSUME NEW a \in Nat \ {0}, NEW b \in Nat \ {0}, NEW c \in Nat \ {0},
           NEW N \in Nat \ {0}, NEW D \in Nat \ {0}, NEW d \in Nat \ {0},
           Weighted(a, b, c) * P57(D) <= P57(N * d),
           NEW r \in Nat, NEW s \in Nat, NEW t \in Nat,
           NEW M \in Nat \ {0}, NEW R \in Nat, NEW Q \in Nat \ {0},
           Q * (20 * r + 19 * s + 18 * t) <= 57 * R
    PROVE  Weighted(a * (M + r), b * (M + s), c * (M + t)) * P57(D * (Q * M))
             <= P57((N * (Q * M + R)) * (d * M))
<1> DEFINE T == 20 * r + 19 * s + 18 * t
           A == 57 * M + T
           B == Q * M + R
           G == Weighted(M + r, M + s, M + t)
           H == Weighted(a, b, c)
<1>1. /\ M + r \in Nat /\ M + s \in Nat /\ M + t \in Nat /\ T \in Nat
      /\ A \in Nat \ {0} /\ Q * M \in Nat \ {0} /\ B \in Nat \ {0}
      /\ N * d \in Nat \ {0} /\ D * (Q * M) \in Nat
  <2>1. T \in Nat
    OBVIOUS
  <2>2. Q * M \in Nat \ {0} /\ N * d \in Nat \ {0}
    OBVIOUS
  <2>3. A \in Nat \ {0} /\ B \in Nat \ {0}
    <3> HIDE DEF T
    <3> QED BY <2>1, <2>2
  <2>4. D * (Q * M) \in Nat
    <3> DEFINE q == Q * M
    <3>1. q \in Nat
      BY <2>2
    <3> HIDE DEF q
    <3> QED BY <3>1
  <2> QED BY <2>1, <2>2, <2>3, <2>4
<1>2. G \in Nat /\ H \in Nat /\ P57(D) \in Nat /\ P57(Q) \in Nat /\ P57(M) \in Nat
  BY <1>1, WeightedType, P57Facts
<1>3. G * P57(57) <= P57(A)
  <2> DEFINE x == (M + r) * 57  y == (M + s) * 57  z == (M + t) * 57
  <2>1. x \in Nat /\ y \in Nat /\ z \in Nat
    OBVIOUS
  <2>2. 57 * A = 20 * x + 19 * y + 18 * z
    OBVIOUS
  <2>3. Weighted(x, y, z) <= P57(A)
    <3> HIDE DEF x, y, z, A
    <3> QED BY <1>1, <2>1, <2>2, MeanPower
  <2>4. Weighted(x, y, z) = G * P57(57)
    <3>1. 57 \in Nat
      OBVIOUS
    <3>2. Weighted(x, y, z) = G * Weighted(57, 57, 57)
      <4> DEFINE u == M + r  v == M + s  w == M + t
      <4>1. u \in Nat /\ v \in Nat /\ w \in Nat
        OBVIOUS
      <4> HIDE DEF u, v, w
      <4>2. Weighted(u * 57, v * 57, w * 57) = Weighted(u, v, w) * Weighted(57, 57, 57)
        <5>1. Factored(u, v, w, 57, 57, 57)
          BY <3>1, <4>1, WeightedFactors, Zenon
        <5> QED BY <5>1, Zenon DEF Factored
      <4> QED BY <4>2 DEF u, v, w
    <3>3. Weighted(57, 57, 57) = P57(57)
      BY <3>1, WeightedOfOne
    <3> QED BY <3>2, <3>3, Zenon
  <2> QED BY <2>3, <2>4
<1>4. P57(Q) * P57(A) <= P57(B) * P57(57)
  <2>1. Q * A <= B * 57
    <3>1. Q * A = 57 * (Q * M) + Q * T
      <4> HIDE DEF T
      <4> QED BY <1>1
    <3>2. Q * T <= 57 * R
      OBVIOUS
    <3>3. B * 57 = 57 * (Q * M) + 57 * R
      OBVIOUS
    <3> HIDE DEF A, B, T
    <3>4. Q * T \in Int
      BY <1>1
    <3> QED BY <1>1, <3>1, <3>2, <3>3, <3>4
  <2> HIDE DEF A, B
  <2>2. Q * A \in Nat /\ B * 57 \in Nat
    BY <1>1
  <2>3. P57(Q * A) <= P57(B * 57)
    BY <2>1, <2>2, P57Facts
  <2>4. 57 \in Nat /\ A \in Nat /\ B \in Nat /\ Q \in Nat
    BY <1>1
  <2>5. P57(Q * A) = P57(Q) * P57(A) /\ P57(B * 57) = P57(B) * P57(57)
    BY <2>4, P57Facts
  <2> QED BY <2>3, <2>5
<1>5. P57(57) \in Nat \ {0} /\ P57(A) \in Nat /\ P57(B) \in Nat
  <2>1. 57 \in Nat \ {0}
    OBVIOUS
  <2> HIDE DEF A, B
  <2> QED BY <1>1, <2>1, P57Facts
<1> DEFINE k == P57(57)  q == P57(Q)  pa == P57(A)  pb == P57(B)
           pd == P57(D)  pm == P57(M)  pn == P57(N * d)
<1>6. pn \in Nat
  BY <1>1, P57Facts
<1>7. Weighted(a * (M + r), b * (M + s), c * (M + t)) = H * G
  <2> DEFINE u == M + r  v == M + s  w == M + t
  <2>1. u \in Nat /\ v \in Nat /\ w \in Nat /\ a \in Nat /\ b \in Nat /\ c \in Nat
    OBVIOUS
  <2> HIDE DEF u, v, w
  <2>2. Weighted(a * u, b * v, c * w) = H * Weighted(u, v, w)
    <3>1. Factored(a, b, c, u, v, w)
      BY <2>1, WeightedFactors, Zenon
    <3> QED BY <3>1, Zenon DEF Factored
  <2> QED BY <2>2 DEF u, v, w
<1>8. P57(D * (Q * M)) = pd * (q * pm)
  <2>1. P57(Q * M) = q * pm
    BY P57Facts
  <2>2. Q * M \in Nat /\ D \in Nat
    BY <1>1
  <2>3. P57(D * (Q * M)) = pd * P57(Q * M)
    BY <2>2, P57Facts
  <2> QED BY <2>1, <2>3, Zenon
<1>9. P57((N * B) * (d * M)) = pn * (pb * pm)
  <2>1. (N * B) * (d * M) = (N * d) * (B * M)
    <3> HIDE DEF B
    <3> QED BY <1>1
  <2>2. B * M \in Nat /\ B \in Nat /\ M \in Nat /\ N * d \in Nat
    <3> HIDE DEF B
    <3> QED BY <1>1
  <2>3. P57(B * M) = pb * pm
    <3> HIDE DEF B
    <3> QED BY <2>2, P57Facts
  <2>4. P57((N * d) * (B * M)) = pn * P57(B * M)
    <3> DEFINE e == N * d  f == B * M
    <3> HIDE DEF e, f
    <3>1. P57(e * f) = P57(e) * P57(f)
      BY <2>2, P57Facts DEF e, f
    <3> QED BY <3>1 DEF e, f
  <2> QED BY <2>1, <2>3, <2>4, Zenon
<1>10. H * pd <= pn
  OBVIOUS
<1> HIDE DEF k, q, pa, pb, pd, pm, pn, G, H
<1>11. /\ k \in Nat \ {0} /\ q \in Nat /\ pa \in Nat /\ pb \in Nat /\ pd \in Nat
       /\ pm \in Nat /\ pn \in Nat /\ G \in Nat /\ H \in Nat
  BY <1>2, <1>5, <1>6 DEF k, q, pa, pb, pd, pm
<1>12. G * q <= pb
  <2>1. G * k <= pa /\ q * pa <= pb * k
    BY <1>3, <1>4 DEF k, q, pa, pb
  <2>2. (G * k) * q <= pa * q
    <3>1. G * k \in Nat /\ q <= q
      BY <1>11
    <3> QED BY <1>11, <2>1, <3>1, ProductOrder
  <2>3. (G * q) * k <= pb * k
    BY <1>11, <2>1, <2>2
  <2>4. G * q \in Int
    BY <1>11
  <2> QED BY <1>11, <2>3, <2>4, ScaledOrder
<1>13. (H * pd) * ((G * q) * pm) <= pn * (pb * pm)
  <2>1. H * pd \in Nat /\ G * q \in Nat /\ pm <= pm
    BY <1>11
  <2>2. (G * q) * pm <= pb * pm /\ (G * q) * pm \in Nat /\ pb * pm \in Nat
    BY <1>11, <1>12, <2>1, ProductOrder
  <2> QED BY <1>10, <1>11, <2>1, <2>2, ProductOrder
<1>14. (H * G) * (pd * (q * pm)) = (H * pd) * ((G * q) * pm)
  BY <1>11
<1>15. P57((N * (Q * M + R)) * (d * M)) = pn * (pb * pm)
  BY <1>9 DEF B
<1> QED BY <1>7, <1>8, <1>13, <1>14, <1>15

(* The weights, in proportion to the rates, earn at least their mean.      *)
LEMMA WeightsEarnMean ==
    ASSUME NEW r \in Nat, NEW s \in Nat, NEW t \in Nat
    PROVE  LET T == 20 * r + 19 * s + 18 * t
           IN  T * T <= 57 * (20 * (r * r) + 19 * (s * s) + 18 * (t * t))
<1> DEFINE T == 20 * r + 19 * s + 18 * t
           S == 20 * (r * r) + 19 * (s * s) + 18 * (t * t)
           e == (r - s) * (r - s)  f == (r - t) * (r - t)  g == (s - t) * (s - t)
<1>1. e \in Nat /\ f \in Nat /\ g \in Nat
  <2>1. \A x \in Int : x * x \in Nat
    OBVIOUS
  <2>2. r - s \in Int /\ r - t \in Int /\ s - t \in Int
    OBVIOUS
  <2> QED BY <2>1, <2>2, Zenon
<1>2. 57 * S = T * T + 380 * e + 360 * f + 342 * g
  OBVIOUS
<1>3. T * T \in Int /\ 57 * S \in Int
  OBVIOUS
<1> HIDE DEF T, S, e, f, g
<1>4. T * T <= 57 * S
  BY <1>1, <1>2, <1>3
<1> QED BY <1>4 DEF T, S

(* The rate of the router's weights. *)
LEMMA RouterRateMean ==
    ASSUME NEW rates \in [Protocols -> Nat]
    PROVE  LET rate == RouterRate(rates)
           IN  /\ rate.num \in Nat /\ rate.den \in Nat \ {0}
               /\ rate.den * (20 * rates.kamino + 19 * rates.marginfi + 18 * rates.lulo)
                    <= 57 * rate.num
<1> DEFINE r == rates.kamino  s == rates.marginfi  t == rates.lulo
           T == 20 * r + 19 * s + 18 * t
           S == 20 * (r * r) + 19 * (s * s) + 18 * (t * t)
           rate == RouterRate(rates)
<1>1. r \in Nat /\ s \in Nat /\ t \in Nat
  BY DEF Protocols
<1>2. TotalScore(rates) = r * 20 + s * 19 + t * 18
  BY DEF TotalScore, SumOver, VOLATILITY_WEIGHTS, Protocols
<1>3. SumOver([p \in Protocols |-> rates[p] * VOLATILITY_WEIGHTS[p] * rates[p]])
        = r * 20 * r + s * 19 * s + t * 18 * t
  BY DEF SumOver, VOLATILITY_WEIGHTS, Protocols
<1>4. SumOver(rates) = r + s + t
  BY DEF SumOver
<1> HIDE DEF r, s, t
<1>5. r * 20 + s * 19 + t * 18 = T /\ T \in Nat
  BY <1>1
<1>6. r * 20 * r + s * 19 * s + t * 18 * t = S
  BY <1>1
<1>7. T * T <= 57 * S
  BY <1>1, WeightsEarnMean
<1>8. S \in Nat
  <2>1. r * r \in Nat /\ s * s \in Nat /\ t * t \in Nat
    BY <1>1
  <2> QED BY <2>1
<1>9. CASE T = 0
  <2>1. rate.num = r + s + t /\ rate.den = 3
    BY <1>2, <1>4, <1>5, <1>9 DEF RouterRate
  <2> HIDE DEF rate
  <2>2. rate.den * T <= 57 * rate.num /\ rate.num \in Nat /\ rate.den \in Nat \ {0}
    <3> HIDE DEF T
    <3> QED BY <1>1, <1>9, <2>1
  <2> QED BY <2>2 DEF T, r, s, t, rate
<1>10. CASE T # 0
  <2>1. rate.num = S /\ rate.den = T
    BY <1>2, <1>3, <1>5, <1>6, <1>10 DEF RouterRate
  <2> HIDE DEF rate
  <2>2. rate.den * T <= 57 * rate.num /\ rate.num \in Nat /\ rate.den \in Nat \ {0}
    <3> HIDE DEF T, S
    <3> QED BY <1>5, <1>7, <1>8, <1>10, <2>1
  <2> QED BY <2>2 DEF T, r, s, t, rate
<1> QED BY <1>9, <1>10

PositiveFractions == [num : Nat \ {0}, den : Nat \ {0}]
Points == [day : Int, n : Nat \ {0}, sum : [Protocols -> Nat]]

(* The protocols' values have one denominator, and the portfolio's is at   *)
(* least their weighted geometric mean.                                    *)
MeanKept(v) ==
    /\ v.kamino.den = v.lulo.den /\ v.marginfi.den = v.lulo.den
    /\ Weighted(v.kamino.num, v.marginfi.num, v.lulo.num) * P57(v.portfolio.den)
         <= P57(v.portfolio.num * v.lulo.den)

(* NeverBelowWorst is not inductive: the protocol that is the worst may    *)
(* have a good day.                                                        *)
ReturnsInv ==
    /\ history \in Seq(Hours)
    /\ data \in Seq(Points)
    /\ at \in Nat
    /\ value \in [Protocols \cup {"portfolio"} -> PositiveFractions]
    /\ MeanKept(value)

(* A compounded value is a positive fraction, with these parts. *)
LEMMA CompoundsPositive ==
    ASSUME NEW v \in PositiveFractions, NEW rate \in [num : Nat, den : Nat \ {0}],
           NEW n \in Nat \ {0}
    PROVE  LET M == n * DAYS_PER_YEAR
               w == Compounded(v, rate, n)
           IN  /\ M \in Nat \ {0}
               /\ w \in PositiveFractions
               /\ w.num = v.num * (rate.den * M + rate.num)
               /\ w.den = v.den * (rate.den * M)
<1> DEFINE a == v.num  b == v.den  r == rate.num  q == rate.den  y == DAYS_PER_YEAR
           M == n * y  w == Compounded(v, rate, n)
<1>1. /\ a \in Nat \ {0} /\ b \in Nat \ {0} /\ r \in Nat
      /\ q \in Nat \ {0} /\ y \in Nat \ {0}
  BY BacktestAssumption DEF PositiveFractions, BacktestAssumption
<1>2. w = [num |-> a * (q * n * y + r), den |-> b * q * n * y]
  BY DEF Compounded
<1> HIDE DEF a, b, r, q, y, w
<1>3. M \in Nat \ {0}
  BY <1>1
<1>4. q * n * y = q * M /\ b * q * n * y = b * (q * M)
  BY <1>1
<1> HIDE DEF M
<1>5. q * M \in Nat \ {0}
  BY <1>1, <1>3
<1> DEFINE e == q * M
<1> HIDE DEF e
<1>6. a * (e + r) \in Nat \ {0} /\ b * e \in Nat \ {0}
  <2>1. e + r \in Nat \ {0} /\ e \in Nat \ {0}
    BY <1>1, <1>5 DEF e
  <2> DEFINE f == e + r
  <2> HIDE DEF f
  <2>2. a * f \in Nat \ {0} /\ b * e \in Nat \ {0}
    BY <1>1, <2>1 DEF f
  <2> QED BY <2>2 DEF f
<1>7. w = [num |-> a * (e + r), den |-> b * e]
  BY <1>2, <1>4 DEF e
<1>8. w \in PositiveFractions /\ w.num = a * (e + r) /\ w.den = b * e
  BY <1>6, <1>7 DEF PositiveFractions
<1> QED BY <1>3, <1>8 DEF a, b, r, q, y, w, M, e

(* A day's compounding keeps the values positive and the mean kept. *)
LEMMA DayKeepsReturns ==
    ASSUME NEW v \in [Protocols \cup {"portfolio"} -> PositiveFractions],
           MeanKept(v), NEW point \in Points
    PROVE  LET w == [p \in Protocols \cup {"portfolio"} |-> Compounded(v[p],
                       IF p = "portfolio" THEN RouterRate(point.sum)
                       ELSE [num |-> point.sum[p], den |-> 1], point.n)]
           IN  /\ w \in [Protocols \cup {"portfolio"} -> PositiveFractions]
               /\ MeanKept(w)
<1> DEFINE w == [p \in Protocols \cup {"portfolio"} |-> Compounded(v[p],
                   IF p = "portfolio" THEN RouterRate(point.sum)
                   ELSE [num |-> point.sum[p], den |-> 1], point.n)]
           n == point.n  sum == point.sum  M == n * DAYS_PER_YEAR
           rate == RouterRate(sum)
           own(p) == [num |-> sum[p], den |-> 1]
           r == sum.kamino  s == sum.marginfi  t == sum.lulo
           R == rate.num  Q == rate.den
           a == v.kamino.num  b == v.marginfi.num  c == v.lulo.num
           N == v.portfolio.num  D == v.portfolio.den  d == v.lulo.den
<1>1. n \in Nat \ {0} /\ sum \in [Protocols -> Nat]
  BY DEF Points
<1>2. /\ v.kamino \in PositiveFractions /\ v.marginfi \in PositiveFractions
      /\ v.lulo \in PositiveFractions /\ v.portfolio \in PositiveFractions
  BY DEF Protocols
<1>3. /\ w.kamino = Compounded(v.kamino, own("kamino"), n)
      /\ w.marginfi = Compounded(v.marginfi, own("marginfi"), n)
      /\ w.lulo = Compounded(v.lulo, own("lulo"), n)
      /\ w.portfolio = Compounded(v.portfolio, rate, n)
      /\ w = [p \in Protocols \cup {"portfolio"} |-> w[p]]
  BY DEF Protocols
<1>4. r \in Nat /\ s \in Nat /\ t \in Nat
  BY <1>1 DEF Protocols
<1>5. R \in Nat /\ Q \in Nat \ {0} /\ Q * (20 * r + 19 * s + 18 * t) <= 57 * R
  BY <1>1, RouterRateMean
<1>6. /\ a \in Nat \ {0} /\ b \in Nat \ {0} /\ c \in Nat \ {0} /\ N \in Nat \ {0}
      /\ D \in Nat \ {0} /\ d \in Nat \ {0}
      /\ v.kamino.den = d /\ v.marginfi.den = d
      /\ Weighted(a, b, c) * P57(D) <= P57(N * d)
  BY <1>2 DEF PositiveFractions, MeanKept
<1>7. rate = [num |-> R, den |-> Q]
  BY DEF RouterRate
<1>8. rate \in [num : Nat, den : Nat \ {0}]
  <2> HIDE DEF R, Q
  <2>1. [num |-> R, den |-> Q] \in [num : Nat, den : Nat \ {0}]
    BY <1>5
  <2> QED BY <1>7, <2>1, Zenon
<1>9. \A x \in Nat : [num |-> x, den |-> 1] \in [num : Nat, den : Nat \ {0}]
  OBVIOUS
<1>10. M \in Nat \ {0}
  BY <1>1, <1>2, <1>8, CompoundsPositive
<1>11. ASSUME NEW x \in PositiveFractions, NEW u \in Nat
       PROVE  LET y == Compounded(x, [num |-> u, den |-> 1], n)
              IN  /\ y \in PositiveFractions
                  /\ y.num = x.num * (M + u)
                  /\ y.den = x.den * M
  <2> DEFINE f == [num |-> u, den |-> 1]
  <2>1. f \in [num : Nat, den : Nat \ {0}] /\ f.num = u /\ f.den = 1
    OBVIOUS
  <2> HIDE DEF f, M
  <2>2. LET y == Compounded(x, f, n)
        IN  /\ y \in PositiveFractions
            /\ y.num = x.num * (f.den * M + f.num)
            /\ y.den = x.den * (f.den * M)
    BY <1>1, <2>1, CompoundsPositive DEF M
  <2>3. 1 * M = M
    BY <1>10
  <2> QED BY <2>1, <2>2, <2>3, Zenon DEF f
<1>12. /\ w.kamino \in PositiveFractions /\ w.kamino.num = a * (M + r)
       /\ w.kamino.den = d * M
       /\ w.marginfi \in PositiveFractions /\ w.marginfi.num = b * (M + s)
       /\ w.marginfi.den = d * M
       /\ w.lulo \in PositiveFractions /\ w.lulo.num = c * (M + t) /\ w.lulo.den = d * M
  <2> DEFINE F(u) == [num |-> u, den |-> 1]
  <2>1. own("kamino") = F(r) /\ own("marginfi") = F(s) /\ own("lulo") = F(t)
    OBVIOUS
  <2> DEFINE x == v.kamino  y == v.marginfi  z == v.lulo
  <2>2. /\ Compounded(x, F(r), n) \in PositiveFractions
        /\ Compounded(x, F(r), n).num = x.num * (M + r)
        /\ Compounded(x, F(r), n).den = x.den * M
    <3> HIDE DEF x, r, n, M
    <3> QED BY <1>2, <1>4, <1>11 DEF x
  <2>3. /\ Compounded(y, F(s), n) \in PositiveFractions
        /\ Compounded(y, F(s), n).num = y.num * (M + s)
        /\ Compounded(y, F(s), n).den = y.den * M
    <3> HIDE DEF y, s, n, M
    <3> QED BY <1>2, <1>4, <1>11 DEF y
  <2>4. /\ Compounded(z, F(t), n) \in PositiveFractions
        /\ Compounded(z, F(t), n).num = z.num * (M + t)
        /\ Compounded(z, F(t), n).den = z.den * M
    <3> HIDE DEF z, t, n, M
    <3> QED BY <1>2, <1>4, <1>11 DEF z
  <2> HIDE DEF w, F, M, n
  <2> QED BY <1>3, <1>6, <2>1, <2>2, <2>3, <2>4, Zenon
<1>13. /\ w.portfolio \in PositiveFractions
       /\ w.portfolio.num = N * (Q * M + R)
       /\ w.portfolio.den = D * (Q * M)
  <2> DEFINE x == v.portfolio  q == rate
  <2>1. LET m == n * DAYS_PER_YEAR
            y == Compounded(x, q, n)
        IN  /\ y \in PositiveFractions
            /\ y.num = x.num * (q.den * m + q.num)
            /\ y.den = x.den * (q.den * m)
    <3> HIDE DEF x, q, n
    <3> QED BY <1>1, <1>2, <1>8, CompoundsPositive DEF x, q
  <2> HIDE DEF w
  <2> QED BY <1>3, <2>1, Zenon
<1>14. Weighted(a * (M + r), b * (M + s), c * (M + t)) * P57(D * (Q * M))
         <= P57((N * (Q * M + R)) * (d * M))
  <2> HIDE DEF a, b, c, N, D, d, r, s, t, M, R, Q
  <2> QED BY <1>4, <1>5, <1>6, <1>10, DayKeepsMean, Zenon
<1> HIDE DEF w
<1>15. w \in [Protocols \cup {"portfolio"} -> PositiveFractions]
  <2>1. \A p \in Protocols \cup {"portfolio"} : w[p] \in PositiveFractions
    BY <1>12, <1>13 DEF Protocols
  <2> QED BY <1>3, <2>1, Zenon
<1>16. MeanKept(w)
  BY <1>12, <1>13, <1>14, Zenon DEF MeanKept
<1> QED BY <1>15, <1>16 DEF w

(* What the loader makes of a history are points. *)
LEMMA LoadedPoints ==
    ASSUME history \in Seq(Hours)
    PROVE  aggregateToDaily \in Seq(Points)
<1> DEFINE days == {history[i].day : i \in Kept}
           OfDay(d) == {i \in Kept : history[i].day = d}
           n == Cardinality(days)
           point(d) == [day |-> d, n |-> Cardinality(OfDay(d)),
                 sum |-> [p \in Protocols |->
                     SumFunction([i \in OfDay(d) |-> Rates(history[i])[p]])]]
<1>1. aggregateToDaily = [k \in 1..n |-> point(Nth(days, k))]
  BY Zenon DEF aggregateToDaily
<1>2. IsFiniteSet(Kept) /\ n \in Nat /\ days \subseteq Int /\ IsFiniteSet(days)
  BY KeptDays
<1>3. \A i \in Kept : history[i].day \in Int /\ history[i].apy \in Nat
  BY KeptDays
<1> HIDE DEF days, n
<1>4. \A k \in 1..n : Nth(days, k) \in days
  BY <1>2, NthInOrder DEF n
<1>5. ASSUME NEW d \in days PROVE point(d) \in Points
  <2> DEFINE D == OfDay(d)
             f(p) == [i \in D |-> Rates(history[i])[p]]
  <2>1. IsFiniteSet(D) /\ D \subseteq Kept
    BY <1>2, FS_Subset
  <2>2. D # {}
    BY DEF days
  <2>3. Cardinality(D) \in Nat \ {0}
    <3>1. Cardinality(D) \in Nat /\ Cardinality(D) # 0
      <4> HIDE DEF D
      <4> QED BY <2>1, <2>2, FS_CardinalityType, FS_EmptySet
    <3> QED BY <3>1
  <2>4. ASSUME NEW p \in Protocols PROVE SumFunction(f(p)) \in Nat
    <3>1. \A i \in D : Rates(history[i])[p] \in Nat
      <4> SUFFICES ASSUME NEW i \in D PROVE Rates(history[i])[p] \in Nat
        OBVIOUS
      <4> DEFINE x == history[i].apy  m == x * marginfiApyMultiplier
                 l == Higher(x, m) * luloApyMultiplier
      <4>1. x \in Nat /\ marginfiApyMultiplier \in Nat /\ luloApyMultiplier \in Nat
        BY <1>3, <2>1, BacktestAssumption DEF BacktestAssumption
      <4>2. Rates(history[i]) = [kamino |-> x, marginfi |-> m, lulo |-> l]
        BY DEF Rates
      <4> HIDE DEF x
      <4>3. m \in Nat
        BY <4>1
      <4>4. Higher(x, m) \in Nat
        BY <4>1, <4>3 DEF Higher
      <4>5. l \in Nat
        BY <4>1, <4>4
      <4> HIDE DEF m, l
      <4> QED BY <4>1, <4>2, <4>3, <4>5 DEF Protocols
    <3>2. f(p) \in [D -> Nat]
      BY <3>1
    <3> HIDE DEF f, D
    <3> QED BY <2>1, <3>2, SumType
  <2>5. d \in Int
    BY <1>2
  <2> HIDE DEF D
  <2>6. [p \in Protocols |-> SumFunction(f(p))] \in [Protocols -> Nat]
    BY <2>4
  <2> DEFINE g == [p \in Protocols |-> SumFunction(f(p))]
             m == Cardinality(D)
  <2>7. point(d) = [day |-> d, n |-> m, sum |-> g]
    BY Zenon DEF D
  <2> HIDE DEF g, m, point
  <2>8. [day |-> d, n |-> m, sum |-> g] \in Points
    BY <2>3, <2>5, <2>6 DEF Points, g, m
  <2> QED BY <2>7, <2>8
<1>6. \A k \in 1..n : point(Nth(days, k)) \in Points
  BY <1>4, <1>5
<1> HIDE DEF point
<1>7. [k \in 1..n |-> point(Nth(days, k))] \in Seq(Points)
  BY <1>2, <1>6
<1> QED BY <1>1, <1>7

(* The returns' invariant holds. *)
LEMMA ReturnsInductive == BacktestSpec => []ReturnsInv
<1>1. BacktestInit => ReturnsInv
  <2> SUFFICES ASSUME BacktestInit PROVE ReturnsInv
    OBVIOUS
  <2>1. value \in [Protocols \cup {"portfolio"} -> PositiveFractions]
    BY DEF BacktestInit, One, PositiveFractions
  <2>2. MeanKept(value)
    <3>1. /\ value.kamino = One /\ value.marginfi = One
          /\ value.lulo = One /\ value.portfolio = One
      BY DEF BacktestInit, Protocols
    <3>2. One.num = 1 /\ One.den = 1
      BY DEF One
    <3>3. Weighted(1, 1, 1) = P57(1) /\ P57(1) \in Nat /\ P57(1 * 1) = P57(1) * P57(1)
      BY WeightedOfOne, P57Facts
    <3>4. 1 * 1 = 1
      OBVIOUS
    <3>5. P57(1) * P57(1) = P57(1) /\ P57(1) <= P57(1)
      BY <3>3, <3>4
    <3> QED BY <3>1, <3>2, <3>3, <3>4, <3>5, Zenon DEF MeanKept
  <2> QED BY <2>1, <2>2 DEF BacktestInit, ReturnsInv
<1>2. ReturnsInv /\ [BacktestNext]_backtestVars => ReturnsInv'
  <2> SUFFICES ASSUME ReturnsInv, [BacktestNext]_backtestVars PROVE ReturnsInv'
    OBVIOUS
  <2> USE DEF ReturnsInv
  <2>1. CASE \E e \in Hours : observes(e)
    BY <2>1 DEF observes, MeanKept
  <2>2. CASE fetchHistoricalData
    BY <2>2, LoadedPoints DEF fetchHistoricalData, MeanKept
  <2>3. CASE \E r \in DailyRates : brings(r)
    <3>1. PICK r \in DailyRates : brings(r)
      BY <2>3
    <3>2. r \in [Protocols -> Nat]
      BY <3>1, BacktestAssumption DEF BacktestAssumption, Protocols
    <3>3. [day |-> Len(data), n |-> 1, sum |-> r] \in Points
      <4>1. Len(data) \in Int
        OBVIOUS
      <4> QED BY <3>2, <4>1 DEF Points
    <3>4. data' \in Seq(Points)
      BY <3>1, <3>3 DEF brings
    <3> QED BY <3>1, <3>4 DEF brings, MeanKept
  <2>4. CASE compounds
    <3>1. CASE at = 0
      BY <2>4, <3>1 DEF compounds, MeanKept
    <3>2. CASE at # 0
      <4> DEFINE point == data[at + 1]
      <4>1. point \in Points
        BY <2>4 DEF compounds
      <4>2. DOMAIN value = Protocols \cup {"portfolio"}
        OBVIOUS
      <4>3. value' = [v \in Protocols \cup {"portfolio"} |-> Compounded(value[v],
                        IF v = "portfolio" THEN RouterRate(point.sum)
                        ELSE [num |-> point.sum[v], den |-> 1], point.n)]
        BY <2>4, <3>2, <4>2, Zenon DEF compounds
      <4> HIDE DEF point
      <4>4. /\ value' \in [Protocols \cup {"portfolio"} -> PositiveFractions]
            /\ MeanKept(value')
        BY <4>1, <4>3, DayKeepsReturns, Zenon
      <4>5. history' = history /\ data' = data /\ at' \in Nat
        BY <2>4 DEF compounds
      <4> QED BY <4>4, <4>5 DEF MeanKept
    <3> QED BY <3>1, <3>2
  <2>5. CASE \E v \in CurveValues : measures(v)
    BY <2>5 DEF measures, MeanKept
  <2>6. CASE UNCHANGED backtestVars
    BY <2>6 DEF backtestVars, MeanKept
  <2> QED BY <2>1, <2>2, <2>3, <2>4, <2>5, <2>6 DEF BacktestNext
<1> QED BY <1>1, <1>2, PTL DEF BacktestSpec

(* Were all three protocols ahead, so would their mean be. *)
LEMMA MeanBeatsWorst == ReturnsInv => NeverBelowWorst
<1> SUFFICES ASSUME ReturnsInv,
                    \A p \in Protocols : Exceeds(value[p], value.portfolio)
             PROVE  FALSE
  BY DEF NeverBelowWorst
<1> DEFINE a == value.kamino.num  b == value.marginfi.num  c == value.lulo.num
           N == value.portfolio.num  D == value.portfolio.den  d == value.lulo.den
           k == N * d
<1>1. /\ value.kamino \in PositiveFractions /\ value.marginfi \in PositiveFractions
      /\ value.lulo \in PositiveFractions /\ value.portfolio \in PositiveFractions
  BY DEF ReturnsInv, Protocols
<1>2. /\ a \in Nat /\ b \in Nat /\ c \in Nat /\ N \in Nat /\ D \in Nat /\ d \in Nat
      /\ value.kamino.den = d /\ value.marginfi.den = d
      /\ Weighted(a, b, c) * P57(D) <= P57(k)
  BY <1>1 DEF ReturnsInv, PositiveFractions, MeanKept
<1>3. a * D > k /\ b * D > k /\ c * D > k
  BY <1>2 DEF Protocols, Exceeds
<1> HIDE DEF a, b, c, N, D, d
<1>4. k \in Nat /\ a * D \in Nat /\ b * D \in Nat /\ c * D \in Nat
  BY <1>2
<1> HIDE DEF k
<1> DEFINE x == a * D  y == b * D  z == c * D
<1>5. Weighted(x, y, z) = Weighted(a, b, c) * P57(D)
  <2>1. Factored(a, b, c, D, D, D)
    BY <1>2, WeightedFactors, Zenon
  <2>2. Weighted(D, D, D) = P57(D)
    BY <1>2, WeightedOfOne
  <2> QED BY <2>1, <2>2, Zenon DEF Factored
<1> HIDE DEF x, y, z
<1>6. P57(k + 1) <= Weighted(x, y, z)
  <2>1. /\ k + 1 \in Nat /\ x \in Nat /\ y \in Nat /\ z \in Nat
        /\ k + 1 <= x /\ k + 1 <= y /\ k + 1 <= z
    BY <1>3, <1>4 DEF x, y, z
  <2>2. Weighted(k + 1, k + 1, k + 1) <= Weighted(x, y, z)
    BY <2>1, WeightedOrder
  <2> QED BY <2>1, <2>2, WeightedOfOne
<1>7. P57(k) < P57(k + 1)
  BY <1>4, P57Strict
<1>8. P57(k) \in Nat /\ P57(k + 1) \in Nat /\ Weighted(x, y, z) \in Nat
  <2>1. k + 1 \in Nat /\ x \in Nat /\ y \in Nat /\ z \in Nat
    BY <1>4 DEF x, y, z
  <2> QED BY <1>4, <2>1, P57Facts, WeightedType
<1> QED BY <1>2, <1>5, <1>6, <1>7, <1>8

(* Whatever the rates, none negative, the portfolio never loses to all     *)
(* three protocols.                                                        *)
THEOREM NeverLosesToAll == BacktestSpec => []NeverBelowWorst
BY ReturnsInductive, MeanBeatsWorst, PTL

=============================================================================
