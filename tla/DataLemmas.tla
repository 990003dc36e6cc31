---------------------------- MODULE DataLemmas ----------------------------
(***************************************************************************)
(* Facts about the data the models are built from: induction over the      *)
(* natural numbers and over finite sets, in a form the provers can use (a  *)
(* set takes the place of the predicate), the sums of Functions, and the   *)
(* places of the elements of a finite set in a total order.                *)
(***************************************************************************)
EXTENDS Integers, FiniteSets, Functions, FiniteSetTheorems, WellFoundedInduction, TLAPS

(* Every non-empty set of natural numbers has a least element. *)
LEMMA LeastNatural ==
    ASSUME NEW S, S \subseteq Nat, S # {}
    PROVE  \E n \in S : \A m \in S : n <= m
<1>1. PICK n \in S : \A m \in S : ~ (<<m, n>> \in OpToRel(<, Nat))
  BY NatLessThanWellFounded, WFMin
<1>2. \A m \in S : ~(m < n)
  BY <1>1 DEF OpToRel
<1> QED BY <1>2

(* A set with 0 and the successor of each of its members holds Nat. *)
LEMMA NatSetInduction ==
    ASSUME NEW S, 0 \in S, \A n \in Nat : n \in S => n + 1 \in S
    PROVE  Nat \subseteq S
<1> SUFFICES ASSUME Nat \ S # {} PROVE FALSE
  OBVIOUS
<1>1. PICK n \in Nat \ S : \A m \in Nat \ S : n <= m
  <2> DEFINE T == Nat \ S
  <2>1. T \subseteq Nat /\ T # {}
    OBVIOUS
  <2> HIDE DEF T
  <2>2. \E n \in T : \A m \in T : n <= m
    BY <2>1, LeastNatural
  <2> QED BY <2>2 DEF T
<1>2. n - 1 \in Nat /\ n - 1 \in S
  BY <1>1
<1> QED BY <1>1, <1>2

(* A family of sets with {} and, with each subset of a finite set, that    *)
(* subset and one more element, holds the finite set.                      *)
LEMMA FiniteSetInduction ==
    ASSUME NEW S, IsFiniteSet(S), NEW F, {} \in F,
           \A T \in SUBSET S, x \in S : T \in F /\ x \notin T => T \cup {x} \in F
    PROVE  S \in F
<1> DEFINE G == {n \in Nat : \A T \in SUBSET S : Cardinality(T) = n => T \in F}
<1>1. 0 \in G
  BY FS_EmptySet, FS_Subset
<1>2. ASSUME NEW n \in Nat, n \in G PROVE n + 1 \in G
  <2> SUFFICES ASSUME NEW T \in SUBSET S, Cardinality(T) = n + 1 PROVE T \in F
    OBVIOUS
  <2>1. IsFiniteSet(T)
    BY FS_Subset
  <2>2. T # {}
    <3>1. Cardinality(T) # 0
      BY <1>2
    <3> QED BY <3>1, FS_EmptySet
  <2>3. PICK x \in T : TRUE
    BY <2>2
  <2>4. Cardinality(T \ {x}) = n
    <3>1. Cardinality(T \ {x}) = Cardinality(T) - 1
      BY <2>1, <2>3, FS_RemoveElement
    <3> QED BY <3>1
  <2>5. T \ {x} \in F
    BY <2>4, <1>2
  <2>6. T = (T \ {x}) \cup {x}
    BY <2>3
  <2> QED BY <2>3, <2>5, <2>6
<1>3. Nat \subseteq G
  <2> HIDE DEF G
  <2> QED BY <1>1, <1>2, NatSetInduction
<1> QED BY <1>3, FS_CardinalityType

-----------------------------------------------------------------------------
(* Sums of functions into Nat *)

(* f as a set: one element for each unit of each f[i], i in s.  Its size   *)
(* does not depend on the order in which SumFunction picks the arguments.  *)
Units(f, s) == {p \in s \X Nat : p[2] < f[p[1]]}

(* One more argument adds its value to the number of units. *)
LEMMA UnitsAdd ==
    ASSUME NEW f, NEW s, NEW x, x \notin s, f[x] \in Nat, IsFiniteSet(Units(f, s))
    PROVE  /\ IsFiniteSet(Units(f, s \cup {x}))
           /\ Cardinality(Units(f, s \cup {x})) = Cardinality(Units(f, s)) + f[x]
<1> DEFINE n == f[x]
           new == {x} \X (0 .. n - 1)
<1>1. IsFiniteSet({x}) /\ Cardinality({x}) = 1
  BY FS_Singleton
<1>2. IsFiniteSet(0 .. n - 1) /\ Cardinality(0 .. n - 1) = n
  <2>1. 0 \in Int /\ n - 1 \in Int
    OBVIOUS
  <2>2. /\ IsFiniteSet(0 .. n - 1)
        /\ Cardinality(0 .. n - 1) = IF 0 > n - 1 THEN 0 ELSE (n - 1) - 0 + 1
    BY <2>1, FS_Interval
  <2> QED BY <2>2
<1>3. IsFiniteSet(new) /\ Cardinality(new) = n
  <2>1. IsFiniteSet(new) /\ Cardinality(new) = Cardinality({x}) * Cardinality(0 .. n - 1)
    BY <1>1, <1>2, FS_Product
  <2> QED BY <2>1, <1>1, <1>2
<1>4. Units(f, s \cup {x}) = Units(f, s) \cup new
  BY DEF Units
<1>5. Units(f, s) \cap new = {}
  BY DEF Units
<1>6. /\ IsFiniteSet(Units(f, s) \cup new)
      /\ Cardinality(Units(f, s) \cup new)
           = Cardinality(Units(f, s)) + Cardinality(new) - Cardinality(Units(f, s) \cap new)
  <2> HIDE DEF new
  <2> QED BY <1>3, FS_Union
<1>7. Cardinality(Units(f, s)) \in Nat
  BY FS_CardinalityType
<1>8. Cardinality(Units(f, s) \cap new) = 0
  BY <1>5, FS_EmptySet, Zenon
<1>9. /\ IsFiniteSet(Units(f, s \cup {x}))
      /\ Cardinality(Units(f, s \cup {x}))
           = Cardinality(Units(f, s)) + n - 0
  BY <1>3, <1>4, <1>6, <1>8, Zenon
<1> QED BY <1>7, <1>9

(* The units of finitely many arguments are finitely many. *)
LEMMA UnitsFinite ==
    ASSUME NEW D, IsFiniteSet(D), NEW f \in [D -> Nat], NEW s \in SUBSET D
    PROVE  IsFiniteSet(Units(f, s)) /\ Cardinality(Units(f, s)) \in Nat
<1> DEFINE F == {T \in SUBSET D : IsFiniteSet(Units(f, T))}
<1>1. {} \in F
  <2>1. Units(f, {}) = {}
    BY DEF Units
  <2> QED BY <2>1, FS_EmptySet
<1>2. ASSUME NEW T \in SUBSET s, NEW x \in s, T \in F, x \notin T
      PROVE  T \cup {x} \in F
  BY <1>2, UnitsAdd
<1>3. IsFiniteSet(s)
  BY FS_Subset
<1>4. s \in F
  <2> HIDE DEF F
  <2> QED BY <1>1, <1>2, <1>3, FiniteSetInduction
<1> QED BY <1>4, FS_CardinalityType

(* The recursion of SumFunction, with the set it is over as a parameter.   *)
SumStep(f, D, g) ==
    [s \in SUBSET D |->
        IF s = {} THEN 0
        ELSE LET x == CHOOSE x \in s : TRUE IN f[x] + g[s \ {x}]]

(* SumFunction is the value at the whole domain of a function that         *)
(* satisfies the recursion.                                                *)
LEMMA SumUnfold ==
    ASSUME NEW f
    PROVE  SumFunction(f)
             = (CHOOSE g : g = SumStep(f, DOMAIN f, g))[DOMAIN f]
  BY DEF SumFunction, SumFunctionOnSet, FoldFunctionOnSet, MapThenFoldSet, SumStep

(* The number of units satisfies the recursion. *)
LEMMA UnitsAreASum ==
    ASSUME NEW D, IsFiniteSet(D), NEW f \in [D -> Nat]
    PROVE  LET g == [s \in SUBSET D |-> Cardinality(Units(f, s))]
           IN  g = SumStep(f, D, g)
<1> DEFINE g == [s \in SUBSET D |-> Cardinality(Units(f, s))]
<1> SUFFICES ASSUME NEW s \in SUBSET D
             PROVE  g[s] = IF s = {} THEN 0
                           ELSE LET x == CHOOSE x \in s : TRUE IN f[x] + g[s \ {x}]
  BY DEF SumStep
<1>1. CASE s = {}
  <2>1. Units(f, {}) = {}
    BY DEF Units
  <2> QED BY <1>1, <2>1, FS_EmptySet
<1>2. CASE s # {}
  <2> DEFINE x == CHOOSE x \in s : TRUE
             t == s \ {x}
  <2>1. x \in s
    BY <1>2
  <2> HIDE DEF x
  <2>2. IsFiniteSet(Units(f, t)) /\ Cardinality(Units(f, t)) \in Nat
    BY UnitsFinite
  <2>3. Cardinality(Units(f, t \cup {x})) = Cardinality(Units(f, t)) + f[x]
    BY <2>1, <2>2, UnitsAdd
  <2>4. t \cup {x} = s
    BY <2>1
  <2>5. Cardinality(Units(f, s)) = Cardinality(Units(f, t)) + f[x]
    BY <2>3, <2>4, Zenon
  <2>6. f[x] \in Nat
    BY <2>1
  <2>7. g[s] = f[x] + g[t]
    <3>1. g[s] = Cardinality(Units(f, s)) /\ g[t] = Cardinality(Units(f, t))
      OBVIOUS
    <3> HIDE DEF g, t
    <3> QED BY <2>2, <2>5, <2>6, <3>1
  <2> QED BY <1>2, <2>7 DEF x
<1> QED BY <1>1, <1>2

(* A function that satisfies the recursion counts the units. *)
LEMMA SumIsUnique ==
    ASSUME NEW D, IsFiniteSet(D), NEW f \in [D -> Nat], NEW h, h = SumStep(f, D, h),
           NEW s \in SUBSET D
    PROVE  h[s] = Cardinality(Units(f, s))
<1> DEFINE F == {n \in Nat : \E t \in SUBSET D :
                    Cardinality(t) = n /\ h[t] # Cardinality(Units(f, t))}
<1> SUFFICES ASSUME h[s] # Cardinality(Units(f, s)) PROVE FALSE
  OBVIOUS
<1>1. F # {}
  <2>1. Cardinality(s) \in Nat
    BY FS_Subset, FS_CardinalityType
  <2> QED BY <2>1
<1>2. PICK n \in F : \A m \in F : n <= m
  <2> F \subseteq Nat
    OBVIOUS
  <2> HIDE DEF F
  <2> QED BY <1>1, LeastNatural
<1>3. PICK t \in SUBSET D : Cardinality(t) = n /\ h[t] # Cardinality(Units(f, t))
  BY <1>2
<1>4. CASE t = {}
  <2>1. h[t] = 0
    BY <1>4 DEF SumStep
  <2>2. Units(f, {}) = {}
    BY DEF Units
  <2> QED BY <1>3, <1>4, <2>1, <2>2, FS_EmptySet
<1>5. CASE t # {}
  <2> DEFINE x == CHOOSE x \in t : TRUE
             r == t \ {x}
  <2>1. x \in t
    BY <1>5
  <2>2. h[t] = f[x] + h[r]
    BY <1>5 DEF SumStep
  <2> HIDE DEF x
  <2>3. IsFiniteSet(t) /\ Cardinality(t) \in Nat
    BY FS_Subset, FS_CardinalityType
  <2>4. Cardinality(r) = Cardinality(t) - 1
    BY <2>1, <2>3, FS_RemoveElement
  <2>5. Cardinality(r) \in Nat
    BY <2>3, FS_Subset, FS_CardinalityType
  <2>6. h[r] = Cardinality(Units(f, r))
    BY <1>2, <1>3, <2>3, <2>4, <2>5
  <2>7. IsFiniteSet(Units(f, r)) /\ Cardinality(Units(f, r)) \in Nat
    BY UnitsFinite
  <2>8. Cardinality(Units(f, r \cup {x})) = Cardinality(Units(f, r)) + f[x]
    BY <2>1, <2>7, UnitsAdd
  <2>9. r \cup {x} = t
    BY <2>1
  <2>10. Cardinality(Units(f, t)) = Cardinality(Units(f, r)) + f[x]
    BY <2>8, <2>9, Zenon
  <2>11. f[x] \in Nat
    BY <2>1
  <2> HIDE DEF r, F
  <2> QED BY <1>3, <2>2, <2>6, <2>7, <2>10, <2>11
<1> QED BY <1>4, <1>5

(* The sum of a function with a finite domain is the number of its units. *)
LEMMA SumCountsUnits ==
    ASSUME NEW D, IsFiniteSet(D), NEW f \in [D -> Nat]
    PROVE  SumFunction(f) = Cardinality(Units(f, D))
<1> DEFINE h == CHOOSE g : g = SumStep(f, D, g)
<1>1. \E g : g = SumStep(f, D, g)
  BY UnitsAreASum
<1>2. h = SumStep(f, D, h)
  BY <1>1
<1>3. SumFunction(f) = h[D]
  BY SumUnfold
<1> HIDE DEF h
<1> QED BY <1>2, <1>3, SumIsUnique

(* The sum of natural numbers is one. *)
LEMMA SumType ==
    ASSUME NEW D, IsFiniteSet(D), NEW f \in [D -> Nat]
    PROVE  SumFunction(f) \in Nat
BY SumCountsUnits, UnitsFinite

(* The sum of zeros is zero. *)
LEMMA SumOfZeros ==
    ASSUME NEW D, IsFiniteSet(D)
    PROVE  SumFunction([d \in D |-> 0]) = 0
<1> DEFINE f == [d \in D |-> 0]
<1>1. f \in [D -> Nat]
  OBVIOUS
<1>2. Units(f, D) = {}
  BY DEF Units
<1>3. Cardinality(Units(f, D)) = 0
  BY <1>2, FS_EmptySet, Zenon
<1> HIDE DEF f
<1>4. SumFunction(f) = 0
  BY <1>1, <1>3, SumCountsUnits
<1> QED BY <1>4 DEF f

(* The sum of a function is its value at one argument and a rest that does *)
(* not depend on that value. *)
LEMMA SumSplit ==
    ASSUME NEW D, IsFiniteSet(D), NEW d \in D
    PROVE  \A f \in [D -> Nat] :
              /\ Cardinality(Units(f, D \ {d})) \in Nat
              /\ SumFunction(f) = Cardinality(Units(f, D \ {d})) + f[d]
<1> SUFFICES ASSUME NEW f \in [D -> Nat]
             PROVE  /\ Cardinality(Units(f, D \ {d})) \in Nat
                    /\ SumFunction(f) = Cardinality(Units(f, D \ {d})) + f[d]
  OBVIOUS
<1> DEFINE t == D \ {d}
<1>1. IsFiniteSet(Units(f, t)) /\ Cardinality(Units(f, t)) \in Nat
  BY UnitsFinite
<1>2. Cardinality(Units(f, t \cup {d})) = Cardinality(Units(f, t)) + f[d]
  BY <1>1, UnitsAdd
<1>3. t \cup {d} = D
  OBVIOUS
<1>4. Cardinality(Units(f, D)) = Cardinality(Units(f, t)) + f[d]
  BY <1>2, <1>3, Zenon
<1>5. SumFunction(f) = Cardinality(Units(f, D))
  BY SumCountsUnits
<1> QED BY <1>1, <1>4, <1>5

(* Changing one value changes the sum by the same amount. *)
LEMMA SumOfUpdate ==
    ASSUME NEW D, IsFiniteSet(D), NEW f \in [D -> Nat], NEW d \in D, NEW n \in Nat
    PROVE  SumFunction([f EXCEPT ![d] = n]) = SumFunction(f) - f[d] + n
<1> DEFINE g == [f EXCEPT ![d] = n]
           t == D \ {d}
<1>1. g \in [D -> Nat] /\ g[d] = n
  OBVIOUS
<1>2. Units(g, t) = Units(f, t)
  BY DEF Units
<1>3. Cardinality(Units(g, t)) = Cardinality(Units(f, t))
  BY <1>2, Zenon
<1> HIDE DEF g
<1>4. SumFunction(g) = Cardinality(Units(g, t)) + n
  BY <1>1, SumSplit
<1>5. SumFunction(f) = Cardinality(Units(f, t)) + f[d] /\ Cardinality(Units(f, t)) \in Nat
  BY SumSplit
<1>6. SumFunction(g) = SumFunction(f) - f[d] + n
  <2> HIDE DEF t
  <2> QED BY <1>3, <1>4, <1>5
<1> QED BY <1>6 DEF g

(* Each value is at most the sum. *)
LEMMA SumBoundsValue ==
    ASSUME NEW D, IsFiniteSet(D), NEW f \in [D -> Nat], NEW d \in D
    PROVE  f[d] <= SumFunction(f)
<1>1. /\ Cardinality(Units(f, D \ {d})) \in Nat
      /\ SumFunction(f) = Cardinality(Units(f, D \ {d})) + f[d]
  BY SumSplit
<1>2. f[d] \in Nat
  OBVIOUS
<1> QED BY <1>1, <1>2

(* A sum is at most the number of its terms times a bound of them. *)
LEMMA SumIsBounded ==
    ASSUME NEW D, IsFiniteSet(D), NEW f \in [D -> Nat], NEW m \in Nat,
           \A d \in D : f[d] <= m
    PROVE  SumFunction(f) <= m * Cardinality(D)
<1> DEFINE I == 0 .. m - 1
<1>1. IsFiniteSet(I) /\ Cardinality(I) = m
  <2>1. 0 \in Int /\ m - 1 \in Int
    OBVIOUS
  <2>2. IsFiniteSet(I) /\ Cardinality(I) = IF 0 > m - 1 THEN 0 ELSE (m - 1) - 0 + 1
    BY <2>1, FS_Interval
  <2> QED BY <2>2
<1>2. IsFiniteSet(D \X I) /\ Cardinality(D \X I) = Cardinality(D) * m
  <2>1. IsFiniteSet(D \X I) /\ Cardinality(D \X I) = Cardinality(D) * Cardinality(I)
    <3> HIDE DEF I
    <3> QED BY <1>1, FS_Product
  <2> QED BY <1>1, <2>1
<1>3. Units(f, D) \subseteq D \X I
  BY DEF Units
<1>4. Cardinality(Units(f, D)) <= Cardinality(D \X I)
  BY <1>2, <1>3, FS_Subset
<1>5. Cardinality(D) \in Nat
  BY FS_CardinalityType
<1>6. SumFunction(f) = Cardinality(Units(f, D))
  BY SumCountsUnits
<1> HIDE DEF I
<1> QED BY <1>2, <1>4, <1>5, <1>6

(* Some term of a sum is the largest. *)
LEMMA LargestTerm ==
    ASSUME NEW D, IsFiniteSet(D), D # {}, NEW f \in [D -> Nat]
    PROVE  \E d \in D : \A e \in D : f[e] <= f[d]
<1> DEFINE S == {SumFunction(f) - f[d] : d \in D}
<1>1. SumFunction(f) \in Nat /\ \A d \in D : f[d] <= SumFunction(f)
  BY SumType, SumBoundsValue
<1> DEFINE total == SumFunction(f)
<1> HIDE DEF total
<1>2. S \subseteq Nat /\ S # {}
  BY <1>1 DEF total
<1>3. PICK n \in S : \A m \in S : n <= m
  <2> HIDE DEF S
  <2> QED BY <1>2, LeastNatural
<1>4. PICK d \in D : n = total - f[d]
  BY DEF total
<1>5. ASSUME NEW e \in D PROVE f[e] <= f[d]
  <2>1. total - f[e] \in S
    BY DEF total
  <2>2. total - f[d] <= total - f[e]
    BY <1>3, <1>4, <2>1
  <2> QED BY <1>1, <2>2 DEF total
<1> QED BY <1>5

-----------------------------------------------------------------------------
(* Places in a total order *)

(* The place of x in the order R of S: one more than those before it. *)
Place(S, R, x) == Cardinality({y \in S : <<y, x>> \in R}) + 1

(* In a strict total order of a finite set the places are 1 to the size of *)
(* the set, each taken once, and follow the order.                         *)
LEMMA PlacesFollowOrder ==
    ASSUME NEW S, IsFiniteSet(S), NEW R,
           \A x \in S : <<x, x>> \notin R,
           \A x, y, z \in S : <<x, y>> \in R /\ <<y, z>> \in R => <<x, z>> \in R,
           \A x, y \in S : x = y \/ <<x, y>> \in R \/ <<y, x>> \in R
    PROVE  /\ \A k \in 1..Cardinality(S) : \E x \in S : Place(S, R, x) = k
           /\ \A x \in S : Place(S, R, x) \in 1..Cardinality(S)
           /\ \A x, y \in S : <<x, y>> \in R <=> Place(S, R, x) < Place(S, R, y)
<1> DEFINE Before(x) == {y \in S : <<y, x>> \in R}
           n == Cardinality(S)
           p == [x \in S |-> Place(S, R, x)]
<1>1. n \in Nat
  BY FS_CardinalityType
<1>2. ASSUME NEW x \in S
      PROVE  /\ IsFiniteSet(Before(x)) /\ Cardinality(Before(x)) \in Nat
             /\ Cardinality(Before(x)) + 1 <= n
  <2>1. IsFiniteSet(S \ {x}) /\ Cardinality(S \ {x}) = n - 1
    BY FS_RemoveElement
  <2>2. Before(x) \subseteq S \ {x}
    OBVIOUS
  <2>3. IsFiniteSet(Before(x)) /\ Cardinality(Before(x)) <= Cardinality(S \ {x})
    <3> HIDE DEF Before
    <3> QED BY <2>1, <2>2, FS_Subset
  <2>4. Cardinality(Before(x)) \in Nat
    BY <2>3, FS_CardinalityType
  <2> HIDE DEF Before, n
  <2> QED BY <1>1, <2>1, <2>3, <2>4
<1>3. ASSUME NEW x \in S, NEW y \in S, <<x, y>> \in R
      PROVE  Cardinality(Before(x)) < Cardinality(Before(y))
  <2>1. Before(x) \subseteq Before(y) /\ Before(x) # Before(y)
    <3>1. x \in Before(y) /\ x \notin Before(x)
      BY <1>3
    <3>2. Before(x) \subseteq Before(y)
      BY <1>3
    <3> QED BY <3>1, <3>2
  <2> HIDE DEF Before
  <2> QED BY <1>2, <2>1, FS_Subset
<1>4. \A x \in S : p[x] = Cardinality(Before(x)) + 1 /\ p[x] \in 1..n
  <2> TAKE x \in S
  <2>1. p[x] = Cardinality(Before(x)) + 1
    BY DEF Place
  <2>2. Cardinality(Before(x)) \in Nat /\ Cardinality(Before(x)) + 1 <= n
    BY <1>2
  <2> HIDE DEF p, Before, n
  <2> QED BY <1>1, <2>1, <2>2
<1>5. \A x, y \in S : <<x, y>> \in R <=> p[x] < p[y]
  <2> SUFFICES ASSUME NEW x \in S, NEW y \in S
               PROVE  <<x, y>> \in R <=> p[x] < p[y]
    OBVIOUS
  <2>1. Cardinality(Before(x)) \in Nat /\ Cardinality(Before(y)) \in Nat
    BY <1>2
  <2>2. p[x] = Cardinality(Before(x)) + 1 /\ p[y] = Cardinality(Before(y)) + 1
    BY <1>4
  <2>3. <<x, y>> \in R => Cardinality(Before(x)) < Cardinality(Before(y))
    BY <1>3
  <2>4. <<y, x>> \in R => Cardinality(Before(y)) < Cardinality(Before(x))
    BY <1>3
  <2>5. x = y => Cardinality(Before(x)) = Cardinality(Before(y))
    OBVIOUS
  <2> HIDE DEF Before, p
  <2> QED BY <2>1, <2>2, <2>3, <2>4, <2>5
<1>6. p \in Injection(S, 1..n)
  <2>1. p \in [S -> 1..n]
    BY <1>4
  <2>2. \A x, y \in S : p[x] = p[y] => x = y
    <3> HIDE DEF p
    <3> QED BY <1>1, <1>4, <1>5
  <2> HIDE DEF p
  <2> QED BY <2>1, <2>2 DEF Injection, IsInjective
<1>7. IsFiniteSet(1..n) /\ Cardinality(1..n) = n
  <2>1. 1 \in Int /\ n \in Int
    BY <1>1
  <2> HIDE DEF n
  <2>2. /\ IsFiniteSet(1 .. n)
        /\ Cardinality(1 .. n) = IF 1 > n THEN 0 ELSE n - 1 + 1
    BY <2>1, FS_Interval
  <2> QED BY <1>1, <2>2
<1>8. p \in Surjection(S, 1..n)
  <2> HIDE DEF p
  <2> QED BY <1>6, <1>7, FS_Injection
<1>9. \A k \in 1..n : \E x \in S : p[x] = k
  BY <1>8 DEF Surjection
<1> QED BY <1>4, <1>5, <1>9

=============================================================================
