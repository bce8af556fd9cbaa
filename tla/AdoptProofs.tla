----------------------------- MODULE AdoptProofs -----------------------------
(***************************************************************************)
(* What adoption promises, for every library and every bands: the route the *)
(* dynamic programme finds is one intent allows, no route is cheaper, and   *)
(* it finds one whenever there is one.                                      *)
(***************************************************************************)
EXTENDS Adopt, FiniteSetTheorems, TLAPS

-----------------------------------------------------------------------------
(* Finite sets *)

\* What holds of a set once it holds of the set without any one of its elements
\* holds of every subset of a finite set.
GrowsWith(S, Good) == \A T \in SUBSET S : (\A x \in T : T \ {x} \in Good) => T \in Good

LEMMA SubsetInduction ==
    ASSUME NEW S, IsFiniteSet(S), NEW Good, GrowsWith(S, Good)
    PROVE  SUBSET S \subseteq Good
<1>. USE DEF GrowsWith
<1>. DEFINE Bad == (SUBSET S) \ Good
<1>1. SUFFICES ASSUME Bad # {} PROVE FALSE
  OBVIOUS
<1>2. IsWellFoundedOn(StrictSubsetOrdering(S), SUBSET S)
  BY FS_StrictSubsetOrderingWellFounded, FS_FiniteSubsetsOfFinite
<1>3. PICK T \in Bad : \A U \in Bad : ~(<<U, T>> \in StrictSubsetOrdering(S))
  <2>1. Bad \subseteq SUBSET S OBVIOUS
  <2>. HIDE DEF Bad
  <2>. QED BY <1>1, <1>2, <2>1, WFMin
<1>4. ASSUME NEW x \in T PROVE T \ {x} \in Good
  <2>1. <<T \ {x}, T>> \in StrictSubsetOrdering(S)
    BY <1>4 DEF StrictSubsetOrdering
  <2>. QED BY <1>3, <2>1
<1>. QED BY <1>3, <1>4

\* A finite set has a first element in any order that is total on it.
Orders(R, S) ==
    /\ \A x, y \in S : x # y => <<x, y>> \in R \/ <<y, x>> \in R
    /\ \A x, y, z \in S : <<x, y>> \in R /\ <<y, z>> \in R => <<x, z>> \in R

LEMMA FirstOfFinite ==
    ASSUME NEW S, IsFiniteSet(S), S # {}, NEW R, Orders(R, S)
    PROVE  \E x \in S : \A y \in S \ {x} : <<x, y>> \in R
<1>. USE DEF Orders
<1>. DEFINE Good == {T \in SUBSET S : T # {} => \E x \in T : \A y \in T \ {x} : <<x, y>> \in R}
<1>1. ASSUME NEW T \in SUBSET S, \A x \in T : T \ {x} \in Good
      PROVE  T \in Good
  <2>1. SUFFICES ASSUME NEW a \in T PROVE T \in Good
    OBVIOUS
  <2>2. CASE T = {a}
    BY <2>2
  <2>3. CASE T # {a}
    <3>1. PICK x \in T \ {a} : \A y \in (T \ {a}) \ {x} : <<x, y>> \in R
      BY <1>1, <2>3
    <3>2. CASE <<x, a>> \in R
      BY <3>1, <3>2
    <3>3. CASE <<a, x>> \in R
      <4>1. \A y \in T \ {a} : <<a, y>> \in R
        BY <3>1, <3>3
      <4>. QED BY <4>1
    <3>. QED BY <3>1, <3>2, <3>3
  <2>. QED BY <2>2, <2>3
<1>2. GrowsWith(S, Good)
  BY <1>1 DEF GrowsWith
<1>3. SUBSET S \subseteq Good
  BY <1>2, SubsetInduction
<1>. QED BY <1>3

LEMMA MinOfFinite ==
    ASSUME NEW S \in SUBSET Int, IsFiniteSet(S), S # {}
    PROVE  Min(S) \in S /\ \A y \in S : Min(S) <= y
<1>. DEFINE R == {p \in S \X S : p[1] < p[2]}
<1>1. Orders(R, S)
  BY DEF Orders
<1>3. PICK x \in S : \A y \in S \ {x} : <<x, y>> \in R
  <2>. HIDE DEF R
  <2>. QED BY <1>1, FirstOfFinite
<1>4. \A y \in S : x <= y
  <2>1. SUFFICES ASSUME NEW y \in S, y # x PROVE x < y
    BY <1>3
  <2>2. <<x, y>> \in R
    BY <1>3, <2>1
  <2>. QED BY <2>2
<1>. QED BY <1>4 DEF Min

LEMMA MaxOfFinite ==
    ASSUME NEW S \in SUBSET Int, IsFiniteSet(S), S # {}
    PROVE  Max(S) \in S /\ \A y \in S : y <= Max(S)
<1>. DEFINE R == {p \in S \X S : p[1] > p[2]}
<1>1. Orders(R, S)
  BY DEF Orders
<1>3. PICK x \in S : \A y \in S \ {x} : <<x, y>> \in R
  <2>. HIDE DEF R
  <2>. QED BY <1>1, FirstOfFinite
<1>4. \A y \in S : x >= y
  <2>1. SUFFICES ASSUME NEW y \in S, y # x PROVE x > y
    BY <1>3
  <2>2. <<x, y>> \in R
    BY <1>3, <2>1
  <2>. QED BY <2>2
<1>. QED BY <1>4 DEF Max

\* What holds of a number once it holds of the lower ones holds of all.
ClimbsThrough(Q, Good) == \A q \in Q : (\A p \in Q : p < q => p \in Good) => q \in Good

LEMMA Upwards ==
    ASSUME NEW Q \in SUBSET Int, IsFiniteSet(Q), NEW Good, ClimbsThrough(Q, Good)
    PROVE  Q \subseteq Good
<1>. USE DEF ClimbsThrough
<1>1. SUFFICES ASSUME Q \ Good # {} PROVE FALSE
  OBVIOUS
<1>2. IsFiniteSet(Q \ Good)
  BY FS_Difference
<1>3. PICK m \in Q \ Good : \A y \in Q \ Good : m <= y
  BY <1>1, <1>2, MinOfFinite
<1>4. ASSUME NEW p \in Q, p < m PROVE p \in Good
  BY <1>3, <1>4
<1>. QED BY <1>3, <1>4

-----------------------------------------------------------------------------
(* Sums over finite sets, as MapThenSumSet forms them *)

Pick(s) == CHOOSE x \in s : TRUE
SumStep(f, g, s) == IF s = {} THEN 0 ELSE f[Pick(s)] + g[s \ {Pick(s)}]
Summed(f, g, S) == g = [s \in SUBSET S |-> SumStep(f, g, s)]
Sums(f, S) == CHOOSE g : Summed(f, g, S)

LEMMA PickOne == ASSUME NEW s, s # {} PROVE Pick(s) \in s
BY DEF Pick

\* The sums of a function over the subsets of a finite set are well defined.
LEMMA SumsExist ==
    ASSUME NEW S, IsFiniteSet(S), NEW f, f \in [S -> Int]
    PROVE  \E g \in [SUBSET S -> Int] : Summed(f, g, S)
<1>. DEFINE Up(n) == {s \in SUBSET S : Cardinality(s) <= n}
            Good == {n \in 0..Cardinality(S) :
                        \E g \in [Up(n) -> Int] : \A s \in Up(n) : g[s] = SumStep(f, g, s)}
<1>1. \A s \in SUBSET S : IsFiniteSet(s) /\ Cardinality(s) \in Nat /\ Cardinality(s) <= Cardinality(S)
  BY FS_Subset, FS_CardinalityType
<1>2. Cardinality(S) \in Nat
  BY FS_CardinalityType
<1>3. ASSUME NEW n \in 0..Cardinality(S), \A k \in 0..Cardinality(S) : k < n => k \in Good
      PROVE  n \in Good
  <2>1. CASE n = 0
    <3>. DEFINE g == [s \in Up(n) |-> 0]
    <3>1. \A s \in Up(n) : s = {}
      BY <1>1, <2>1, FS_EmptySet
    <3>2. g \in [Up(n) -> Int] /\ \A s \in Up(n) : g[s] = SumStep(f, g, s)
      BY <3>1 DEF SumStep
    <3>. QED BY <3>2
  <2>2. CASE n # 0
    <3>1. n - 1 \in Good
      <4>1. n - 1 \in 0..Cardinality(S) /\ n - 1 < n
        BY <1>2, <2>2
      <4>. HIDE DEF Good
      <4>. QED BY <1>3, <4>1
    <3>2. PICK g \in [Up(n - 1) -> Int] : \A s \in Up(n - 1) : g[s] = SumStep(f, g, s)
      BY <3>1
    <3>. DEFINE h == [s \in Up(n) |-> IF Cardinality(s) < n THEN g[s] ELSE SumStep(f, g, s)]
    <3>3. ASSUME NEW s \in Up(n), s # {}
          PROVE  /\ s \ {Pick(s)} \in Up(n - 1) /\ s \ {Pick(s)} \in Up(n)
                 /\ Cardinality(s \ {Pick(s)}) < n
                 /\ f[Pick(s)] \in Int
      <4>1. Pick(s) \in s
        BY <3>3, PickOne
      <4>2. Cardinality(s \ {Pick(s)}) = Cardinality(s) - 1
        BY <1>1, <4>1, FS_RemoveElement
      <4>3. Cardinality(s) <= n /\ Cardinality(s) \in Nat /\ n \in Nat
        BY <1>1, <1>2
      <4>4. Cardinality(s \ {Pick(s)}) <= n - 1 /\ Cardinality(s \ {Pick(s)}) < n
        BY <4>2, <4>3
      <4>5. s \ {Pick(s)} \in SUBSET S /\ Cardinality(s \ {Pick(s)}) <= n
        BY <4>2, <4>3
      <4>6. f[Pick(s)] \in Int
        BY <4>1
      <4>. QED BY <4>4, <4>5, <4>6
    <3>4. ASSUME NEW s \in Up(n)
          PROVE  SumStep(f, g, s) \in Int /\ SumStep(f, h, s) = SumStep(f, g, s)
      <4>1. CASE s = {}
        BY <4>1 DEF SumStep
      <4>2. CASE s # {}
        <5>1. g[s \ {Pick(s)}] \in Int /\ h[s \ {Pick(s)}] = g[s \ {Pick(s)}]
          BY <3>2, <3>3, <4>2
        <5>. QED BY <3>3, <4>2, <5>1 DEF SumStep
      <4>. QED BY <4>1, <4>2
    <3>5. ASSUME NEW s \in Up(n)
          PROVE  h[s] = SumStep(f, g, s)
      <4>1. CASE Cardinality(s) < n
        <5>1. s \in Up(n - 1)
          BY <1>1, <1>2, <4>1
        <5>. QED BY <3>2, <4>1, <5>1
      <4>2. CASE ~(Cardinality(s) < n)
        BY <4>2
      <4>. QED BY <4>1, <4>2
    <3>6. h \in [Up(n) -> Int] /\ \A s \in Up(n) : h[s] = SumStep(f, h, s)
      <4>. HIDE DEF Up
      <4>1. \A s \in Up(n) : h[s] \in Int
        <5>. HIDE DEF h
        <5>. QED BY <3>4, <3>5
      <4>2. h \in [Up(n) -> Int]
        BY <4>1
      <4>. HIDE DEF h
      <4>. QED BY <3>4, <3>5, <4>2
    <3>. QED
      <4>. HIDE DEF Up, h
      <4>. QED BY <3>6
  <2>. QED BY <2>1, <2>2
<1>4. 0..Cardinality(S) \subseteq Good
  <2>1. 0..Cardinality(S) \in SUBSET Int /\ IsFiniteSet(0..Cardinality(S))
    BY <1>2, FS_Interval
  <2>2. ClimbsThrough(0..Cardinality(S), Good)
    BY <1>3 DEF ClimbsThrough
  <2>. QED BY <2>1, <2>2, Upwards
<1>5. Up(Cardinality(S)) = SUBSET S
  BY <1>1
<1>6. PICK g \in [Up(Cardinality(S)) -> Int] : \A s \in Up(Cardinality(S)) : g[s] = SumStep(f, g, s)
  <2>1. Cardinality(S) \in Good
    <3>1. Cardinality(S) \in 0..Cardinality(S)
      BY <1>2
    <3>. HIDE DEF Good
    <3>. QED BY <1>4, <3>1
  <2>. QED BY <2>1
<1>7. g = [s \in SUBSET S |-> SumStep(f, g, s)]
  <2>. HIDE DEF Up
  <2>. QED BY <1>5, <1>6
<1>. QED BY <1>5, <1>6, <1>7 DEF Summed

\* Two functions that agree on a finite set have the same sums over its subsets.
LEMMA SumsAgree ==
    ASSUME NEW S, NEW R, NEW U \in SUBSET (S \cap R), IsFiniteSet(U), NEW f, NEW e,
           \A x \in U : f[x] = e[x],
           NEW g, Summed(f, g, S), NEW h, Summed(e, h, R)
    PROVE  \A T \in SUBSET U : g[T] = h[T]
<1>. DEFINE Good == {T \in SUBSET U : g[T] = h[T]}
<1>1. ASSUME NEW T \in SUBSET U, \A x \in T : T \ {x} \in Good
      PROVE  T \in Good
  <2>1. g[T] = SumStep(f, g, T) /\ h[T] = SumStep(e, h, T)
    BY DEF Summed
  <2>2. CASE T = {}
    BY <2>1, <2>2 DEF SumStep
  <2>3. CASE T # {}
    <3>1. Pick(T) \in T
      BY <2>3, PickOne
    <3>2. T \ {Pick(T)} \in Good
      BY <1>1, <3>1
    <3>. QED BY <2>1, <2>3, <3>1, <3>2 DEF SumStep
  <2>. QED BY <2>2, <2>3
<1>2. GrowsWith(U, Good)
  BY <1>1 DEF GrowsWith
<1>3. SUBSET U \subseteq Good
  BY <1>2, SubsetInduction
<1>. QED BY <1>3

\* Which of its elements a sum takes first makes no difference.
Commutes(f, g, S) == \A T \in SUBSET S : \A x \in T : g[T] = f[x] + g[T \ {x}]

LEMMA SumsCommute ==
    ASSUME NEW S, IsFiniteSet(S), NEW f, f \in [S -> Int], NEW g, g \in [SUBSET S -> Int],
           Summed(f, g, S)
    PROVE  Commutes(f, g, S)
<1>. DEFINE Free(T, x) == g[T] = f[x] + g[T \ {x}]
            Good == {T \in SUBSET S : \A x \in T : Free(T, x)}
<1>1. ASSUME NEW T \in SUBSET S, \A x \in T : T \ {x} \in Good, NEW x \in T
      PROVE  Free(T, x)
  <2>1. PICK y \in T : g[T] = f[y] + g[T \ {y}]
    BY PickOne DEF Summed, SumStep
  <2>2. CASE x = y
    BY <2>1, <2>2
  <2>3. CASE x # y
    <3>1. PICK z \in Int : z = g[(T \ {y}) \ {x}]
      OBVIOUS
    <3>2. g[T \ {y}] = f[x] + z
      BY <1>1, <2>3, <3>1
    <3>3. (T \ {x}) \ {y} = (T \ {y}) \ {x}
      OBVIOUS
    <3>4. g[T \ {x}] = f[y] + z
      BY <1>1, <2>3, <3>1, <3>3
    <3>5. f[x] \in Int /\ f[y] \in Int
      OBVIOUS
    <3>6. f[y] + (f[x] + z) = f[x] + (f[y] + z)
      BY <3>5
    <3>. QED BY <2>1, <3>2, <3>4, <3>6
  <2>. QED BY <2>2, <2>3
<1>2. GrowsWith(S, Good)
  BY <1>1 DEF GrowsWith
<1>3. SUBSET S \subseteq Good
  BY <1>2, SubsetInduction
<1>. QED BY <1>3 DEF Commutes

-----------------------------------------------------------------------------
(* The cost of a step *)

\* The manifests of the discharges have the readings the bands are about.
Measured(qs, m) == \A q \in qs : \A key \in {"depth", "median", "area"} : m[q][key] \in Int

Costs == Int \X Int \X Int

LEMMA ChangeIsInt ==
    ASSUME NEW qs, NEW m, Measured(qs, m), NEW a \in qs, NEW b \in qs, NEW band \in Bands
    PROVE  Change(m, a, b, band) \in Int
<1>1. m[a][band.key] \in Int /\ m[b][band.key] \in Int
  BY BandAssumption DEF Measured
<1>2. ((m[b][band.key] - m[a][band.key]) * 100) \in Int
  BY <1>1
<1>. QED BY <1>1, <1>2, BandAssumption DEF Change

\* How far a step is from the middle of the bands is a sum over finitely many.
LEMMA OffCentreIsInt ==
    ASSUME NEW qs, NEW m, Measured(qs, m), NEW a \in qs, NEW b \in qs
    PROVE  OffCentre(m, a, b) \in Int
<1>. DEFINE term(band) == (2 * Change(m, a, b, band) - (band.floor + band.ceiling))
                              * (Scale \div (band.floor + band.ceiling))
            f == [band \in Bands |-> term(band) * term(band)]
            Iter(g) == g = [s \in SUBSET Bands |->
                              IF s = {} THEN 0
                              ELSE LET x == CHOOSE x \in s : TRUE
                                   IN  term(x) * term(x) + g[s \ {x}]]
<1>1. f \in [Bands -> Int]
  <2>1. SUFFICES ASSUME NEW band \in Bands PROVE term(band) * term(band) \in Int
    BY DEF f
  <2>2. /\ Change(m, a, b, band) \in Int /\ band.floor + band.ceiling \in Int
        /\ band.floor + band.ceiling > 0
    BY ChangeIsInt, BandAssumption
  <2>3. Scale \div (band.floor + band.ceiling) \in Int
    BY <2>2, BandAssumption
  <2>4. term(band) \in Int
    BY <2>2, <2>3
  <2>. HIDE DEF term
  <2>. QED BY <2>4
<1>2. PICK g \in [SUBSET Bands -> Int] : Summed(f, g, Bands)
  <2>. HIDE DEF f
  <2>. QED BY <1>1, BandAssumption, SumsExist
<1>3. ASSUME NEW h PROVE Iter(h) <=> Summed(f, h, Bands)
  <2>. HIDE DEF term
  <2>. QED BY PickOne DEF Summed, SumStep, Pick
<1>4. OffCentre(m, a, b) = (CHOOSE h : Iter(h))[Bands]
  BY DEF OffCentre, MapThenSumSet, MapThenFoldSet
<1>. HIDE DEF f, Iter
<1>5. Iter(CHOOSE h : Iter(h))
  BY <1>2, <1>3
<1>6. PICK h : Iter(h) /\ OffCentre(m, a, b) = h[Bands]
  BY <1>4, <1>5
<1>7. \A T \in SUBSET Bands : g[T] = h[T]
  <2>1. Summed(f, h, Bands) /\ Bands \in SUBSET (Bands \cap Bands) /\ \A x \in Bands : f[x] = f[x]
    BY <1>3, <1>6
  <2>. QED BY <1>2, <2>1, BandAssumption, SumsAgree
<1>. QED BY <1>2, <1>6, <1>7

LEMMA StepCostIsCost ==
    ASSUME NEW qs, NEW m, Measured(qs, m), NEW a \in qs, NEW b \in qs
    PROVE  StepCost(m, a, b) \in Costs
BY OffCentreIsInt DEF StepCost, Costs

\* Costs are totally ordered, and adding a step to two routes keeps their order.
LEMMA CostsAreOrdered ==
    ASSUME NEW c \in Costs, NEW d \in Costs
    PROVE  /\ Plus(c, d) \in Costs
           /\ ~Cheaper(c, c)
           /\ c = d \/ Cheaper(c, d) \/ Cheaper(d, c)
           /\ \A e \in Costs : Cheaper(c, d) /\ Cheaper(d, e) => Cheaper(c, e)
           /\ \A e \in Costs : Cheaper(Plus(c, e), Plus(d, e)) <=> Cheaper(c, d)
BY DEF Costs, Plus, Cheaper
-----------------------------------------------------------------------------
(* The cost of a route *)

Legs(route) == route \ {Max(route)}
Leg(m, route, i) == [q \in Legs(route) |-> StepCost(m, q, Following(route, q))[i]]

\* The next discharge of a route is one of its discharges.
LEMMA FollowingIsNext ==
    ASSUME NEW route \in SUBSET Int, IsFiniteSet(route), NEW q \in Legs(route)
    PROVE  /\ Following(route, q) \in route /\ Following(route, q) > q
           /\ \A p \in route : p > q => Following(route, q) <= p
<1>. DEFINE above == {p \in route : p > q}
<1>1. Max(route) \in above
  <2>1. q \in route /\ q # Max(route)
    BY DEF Legs
  <2>2. PICK x : x = Max(route) /\ x \in route /\ \A y \in route : y <= x
    BY <2>1, MaxOfFinite
  <2>. QED BY <2>1, <2>2
<1>2. above \in SUBSET Int /\ IsFiniteSet(above)
  BY FS_Subset
<1>3. Min(above) \in above /\ \A p \in above : Min(above) <= p
  <2>. HIDE DEF above
  <2>. QED BY <1>1, <1>2, MinOfFinite
<1>. QED BY <1>3 DEF Following

LegSums(m, route, i, g) ==
    /\ Leg(m, route, i) \in [Legs(route) -> Int]
    /\ g \in [SUBSET Legs(route) -> Int]
    /\ Summed(Leg(m, route, i), g, Legs(route))

LEMMA LegsAreCosts ==
    ASSUME NEW qs \in SUBSET Int, NEW m, Measured(qs, m), NEW route \in SUBSET qs, IsFiniteSet(route)
    PROVE  /\ IsFiniteSet(Legs(route))
           /\ \A i \in 1..3 : \E g : LegSums(m, route, i, g)
<1>1. \A q \in Legs(route) : StepCost(m, q, Following(route, q)) \in Costs
  BY FollowingIsNext, StepCostIsCost DEF Legs
<1>2. IsFiniteSet(Legs(route))
  BY FS_RemoveElement DEF Legs
<1>3. ASSUME NEW i \in 1..3 PROVE \E g : LegSums(m, route, i, g)
  <2>1. Leg(m, route, i) \in [Legs(route) -> Int]
    BY <1>1 DEF Leg, Costs
  <2>2. PICK g : g \in [SUBSET Legs(route) -> Int] /\ Summed(Leg(m, route, i), g, Legs(route))
    BY <1>2, <2>1, SumsExist
  <2>. QED BY <2>1, <2>2 DEF LegSums
<1>. QED BY <1>2, <1>3

\* Field by field, the cost of a route is the sum over its legs.
LEMMA RouteCostIsSum ==
    ASSUME NEW m, NEW route, IsFiniteSet(Legs(route)), NEW i, i \in 1..3, NEW g,
           LegSums(m, route, i, g)
    PROVE  RouteCost(m, route)[i] = g[Legs(route)]
<1>. USE DEF LegSums
<1>. DEFINE steps == Legs(route)
            f == Leg(m, route, i)
            Iter(h) == h = [s \in SUBSET steps |->
                              IF s = {} THEN 0
                              ELSE LET x == CHOOSE x \in s : TRUE
                                   IN  StepCost(m, x, Following(route, x))[i] + h[s \ {x}]]
<1>1. ASSUME NEW h PROVE Iter(h) <=> Summed(f, h, steps)
  <2>1. ASSUME NEW s \in SUBSET steps, s # {}
        PROVE  f[Pick(s)] = StepCost(m, Pick(s), Following(route, Pick(s)))[i]
    <3>1. Pick(s) \in Legs(route)
      BY <2>1, PickOne
    <3>. QED BY <3>1 DEF Leg
  <2>. HIDE DEF f, steps
  <2>. QED BY <2>1 DEF Summed, SumStep, Pick
<1>2. RouteCost(m, route)[i] = (CHOOSE h : Iter(h))[steps]
  <2>1. CASE i = 1 BY <2>1 DEF RouteCost, MapThenSumSet, MapThenFoldSet, Legs
  <2>2. CASE i = 2 BY <2>2 DEF RouteCost, MapThenSumSet, MapThenFoldSet, Legs
  <2>3. CASE i = 3 BY <2>3 DEF RouteCost, MapThenSumSet, MapThenFoldSet, Legs
  <2>. QED BY <2>1, <2>2, <2>3
<1>. HIDE DEF Iter
<1>3. Iter(CHOOSE h : Iter(h))
  BY <1>1
<1>4. PICK h : Iter(h) /\ RouteCost(m, route)[i] = h[steps]
  BY <1>2, <1>3
<1>5. \A T \in SUBSET steps : g[T] = h[T]
  <2>1. Summed(f, h, steps) /\ steps \in SUBSET (steps \cap steps) /\ \A x \in steps : f[x] = f[x]
    BY <1>1, <1>4
  <2>. QED BY <2>1, SumsAgree
<1>. QED BY <1>4, <1>5

LEMMA RouteCostIsCost ==
    ASSUME NEW qs \in SUBSET Int, NEW m, Measured(qs, m), NEW route \in SUBSET qs, IsFiniteSet(route)
    PROVE  RouteCost(m, route) \in Costs
<1>1. IsFiniteSet(Legs(route)) /\ \A i \in 1..3 : \E g : LegSums(m, route, i, g)
  BY LegsAreCosts
<1>2. ASSUME NEW i, i \in 1..3 PROVE RouteCost(m, route)[i] \in Int
  <2>1. PICK g : LegSums(m, route, i, g)
    BY <1>1, <1>2
  <2>2. RouteCost(m, route)[i] = g[Legs(route)]
    BY <1>1, <1>2, <2>1, RouteCostIsSum
  <2>. QED BY <2>1, <2>2 DEF LegSums
<1>3. RouteCost(m, route) = <<RouteCost(m, route)[1], RouteCost(m, route)[2], RouteCost(m, route)[3]>>
  BY DEF RouteCost
<1>. QED BY <1>2, <1>3 DEF Costs
\* A route that goes one discharge further follows the same legs and one more.
LEMMA OneLegMore ==
    ASSUME NEW R \in SUBSET Int, IsFiniteSet(R), R # {}, NEW q \in Int, \A p \in R : p < q
    PROVE  /\ IsFiniteSet(R \union {q}) /\ Max(R \union {q}) = q /\ Legs(R \union {q}) = R
           /\ Following(R \union {q}, Max(R)) = q
           /\ \A x \in Legs(R) : Following(R \union {q}, x) = Following(R, x)
<1>. DEFINE R2 == R \union {q}
<1>1. R2 \in SUBSET Int /\ IsFiniteSet(R2) /\ R2 # {}
  BY FS_AddElement
<1>2. Max(R2) = q
  <2>1. PICK x : x = Max(R2) /\ x \in R2 /\ \A y \in R2 : y <= x
    BY <1>1, MaxOfFinite
  <2>. QED BY <2>1
<1>3. Legs(R2) = R
  BY <1>2 DEF Legs
<1>4. PICK last : last = Max(R) /\ last \in R /\ \A y \in R : y <= last
  BY MaxOfFinite
<1>. HIDE DEF R2
<1>5. ASSUME NEW x \in R
      PROVE  /\ Following(R2, x) \in R2 /\ Following(R2, x) > x
             /\ \A p \in R2 : p > x => Following(R2, x) <= p
  BY <1>1, <1>3, FollowingIsNext
<1>6. Following(R2, last) = q
  <2>1. PICK b : b = Following(R2, last) /\ b \in R2 /\ b > last
    BY <1>4, <1>5
  <2>2. b \notin R
    <3>1. SUFFICES ASSUME b \in R PROVE FALSE
      OBVIOUS
    <3>2. b <= last /\ b \in Int /\ last \in Int
      BY <1>4, <3>1
    <3>. QED BY <2>1, <3>2
  <2>. QED BY <2>1, <2>2 DEF R2
<1>7. ASSUME NEW x \in Legs(R)
      PROVE  Following(R2, x) = Following(R, x)
  <2>1. x \in R
    BY DEF Legs
  <2>2. PICK a : /\ a = Following(R, x) /\ a \in R /\ a > x
                 /\ \A p \in R : p > x => a <= p
    BY FollowingIsNext
  <2>3. PICK b : /\ b = Following(R2, x) /\ b \in R2 /\ b > x
                 /\ \A p \in R2 : p > x => b <= p
    BY <1>5, <2>1
  <2>4. a \in R2 /\ b <= a /\ a < q
    BY <2>2, <2>3 DEF R2
  <2>5. b \in R /\ a <= b
    BY <2>2, <2>3, <2>4 DEF R2
  <2>. QED BY <2>2, <2>3, <2>4, <2>5
<1>. QED BY <1>1, <1>2, <1>3, <1>4, <1>6, <1>7 DEF R2

LEMMA OneLegMoreCosts ==
    ASSUME NEW qs \in SUBSET Int, NEW m, Measured(qs, m),
           NEW R \in SUBSET qs, IsFiniteSet(R), R # {}, NEW q \in qs, \A p \in R : p < q
    PROVE  RouteCost(m, R \union {q}) = Plus(RouteCost(m, R), StepCost(m, Max(R), q))
<1>. DEFINE R2 == R \union {q}
<1>1. /\ IsFiniteSet(R2) /\ Legs(R2) = R /\ Following(R2, Max(R)) = q
      /\ \A x \in Legs(R) : Following(R2, x) = Following(R, x)
  BY OneLegMore
<1>2. Max(R) \in R /\ Legs(R) = R \ {Max(R)} /\ IsFiniteSet(Legs(R))
  BY MaxOfFinite, FS_RemoveElement DEF Legs
<1>3. R2 \in SUBSET qs
  OBVIOUS
<1>. HIDE DEF R2
<1>4. ASSUME NEW i, i \in 1..3
      PROVE  RouteCost(m, R2)[i] = RouteCost(m, R)[i] + StepCost(m, Max(R), q)[i]
  <2>1. PICK g : LegSums(m, R, i, g)
    BY <1>4, LegsAreCosts
  <2>2. PICK h : LegSums(m, R2, i, h)
    BY <1>1, <1>3, <1>4, LegsAreCosts
  <2>3. RouteCost(m, R)[i] = g[Legs(R)]
    <3>1. IsFiniteSet(Legs(R))
      BY <1>2
    <3>. QED BY <1>4, <2>1, <3>1, RouteCostIsSum
  <2>4. RouteCost(m, R2)[i] = h[R]
    BY <1>1, <1>4, <2>2, RouteCostIsSum
  <2>. DEFINE f == Leg(m, R, i)
              e == Leg(m, R2, i)
  <2>5. /\ g \in [SUBSET Legs(R) -> Int] /\ Summed(f, g, Legs(R))
        /\ h \in [SUBSET R -> Int] /\ Summed(e, h, R) /\ e \in [R -> Int]
    BY <1>1, <2>1, <2>2 DEF LegSums
  <2>6. e[Max(R)] = StepCost(m, Max(R), q)[i] /\ \A x \in Legs(R) : f[x] = e[x]
    BY <1>1, <1>2 DEF Leg
  <2>. HIDE DEF f, e
  <2>7. h[R] = e[Max(R)] + h[Legs(R)]
    <3>1. Commutes(e, h, R)
      BY <2>5, SumsCommute
    <3>. QED BY <1>2, <3>1 DEF Commutes
  <2>8. g[Legs(R)] = h[Legs(R)]
    <3>1. Legs(R) \in SUBSET (Legs(R) \cap R) /\ Legs(R) \in SUBSET Legs(R)
      BY <1>2
    <3>2. \A T \in SUBSET Legs(R) : g[T] = h[T]
      BY <1>2, <2>5, <2>6, <3>1, SumsAgree
    <3>. QED BY <3>2
  <2>9. h[Legs(R)] \in Int /\ e[Max(R)] \in Int
    <3>1. Legs(R) \in SUBSET R
      BY <1>2
    <3>. QED BY <1>2, <2>5, <3>1
  <2>. QED BY <2>3, <2>4, <2>6, <2>7, <2>8, <2>9
<1>5. RouteCost(m, R2) = <<RouteCost(m, R2)[1], RouteCost(m, R2)[2], RouteCost(m, R2)[3]>>
  BY DEF RouteCost
<1>6. RouteCost(m, R2) = Plus(RouteCost(m, R), StepCost(m, Max(R), q))
  BY <1>4, <1>5 DEF Plus
<1>. QED BY <1>6 DEF R2

\* A route of one discharge costs nothing.
LEMMA NoLegs ==
    ASSUME NEW qs \in SUBSET Int, NEW m, Measured(qs, m), NEW q \in qs
    PROVE  RouteCost(m, {q}) = <<0, 0, 0>>
<1>1. IsFiniteSet({q})
  BY FS_Singleton
<1>2. Legs({q}) = {}
  <2>1. Max({q}) \in {q}
    BY <1>1, MaxOfFinite
  <2>. QED BY <2>1 DEF Legs
<1>4. ASSUME NEW i, i \in 1..3 PROVE RouteCost(m, {q})[i] = 0
  <2>1. IsFiniteSet(Legs({q})) /\ \E g : LegSums(m, {q}, i, g)
    BY <1>1, <1>4, LegsAreCosts
  <2>2. PICK g : LegSums(m, {q}, i, g)
    BY <2>1
  <2>3. RouteCost(m, {q})[i] = g[Legs({q})]
    BY <1>4, <2>1, <2>2, RouteCostIsSum
  <2>4. g[{}] = 0
    BY <1>2, <2>2 DEF LegSums, Summed, SumStep
  <2>. QED BY <1>2, <2>3, <2>4
<1>3. RouteCost(m, {q}) = <<RouteCost(m, {q})[1], RouteCost(m, {q})[2], RouteCost(m, {q})[3]>>
  BY DEF RouteCost
<1>. QED BY <1>3, <1>4
-----------------------------------------------------------------------------
(* The dynamic programme *)

Entries(qs) == [cost : Costs, route : SUBSET qs] \union {None}

\* Where a route to q may come from, and which of two of them comes first.
Origins(qs, m, best, q) == {p \in qs : p < q /\ best[p] # None /\ Tolerated(qs, m, p, q)}
CostVia(m, best, p, q) == Plus(best[p].cost, StepCost(m, p, q))
Sooner(m, best, q, p, o) ==
    \/ Cheaper(CostVia(m, best, p, q), CostVia(m, best, o, q))
    \/ CostVia(m, best, p, q) = CostVia(m, best, o, q) /\ p < o
Soonest(m, best, from, q, p) == p \in from /\ \A o \in from \ {p} : Sooner(m, best, q, p, o)

Costed(best, from) == \A p \in from : best[p].cost \in Costs

\* The parent is well defined: one of the origins comes before all others.
LEMMA ParentIsFirst ==
    ASSUME NEW qs \in SUBSET Int, NEW m, Measured(qs, m), NEW best, NEW q \in qs,
           NEW from \in SUBSET qs, IsFiniteSet(from), from # {}, Costed(best, from)
    PROVE  /\ Soonest(m, best, from, q, Parent(m, best, from, q))
           /\ \A p : Soonest(m, best, from, q, p) => p = Parent(m, best, from, q)
<1>. DEFINE cost(p) == CostVia(m, best, p, q)
            R == {s \in from \X from : Sooner(m, best, q, s[1], s[2])}
<1>1. \A p \in from : cost(p) \in Costs
  BY StepCostIsCost, CostsAreOrdered DEF Costed, CostVia
<1>2. \A x, y \in from : x # y => Sooner(m, best, q, x, y) \/ Sooner(m, best, q, y, x)
  <2>. HIDE DEF cost
  <2>1. SUFFICES ASSUME NEW x \in from, NEW y \in from, x # y
                 PROVE  Sooner(m, best, q, x, y) \/ Sooner(m, best, q, y, x)
    OBVIOUS
  <2>2. cost(x) = cost(y) \/ Cheaper(cost(x), cost(y)) \/ Cheaper(cost(y), cost(x))
    BY <1>1, CostsAreOrdered
  <2>3. x < y \/ y < x
    BY <2>1
  <2>. QED BY <2>2, <2>3 DEF Sooner, cost
<1>3. ASSUME NEW x \in from, NEW y \in from, NEW z \in from,
             Sooner(m, best, q, x, y), Sooner(m, best, q, y, z)
      PROVE  Sooner(m, best, q, x, z)
  <2>1. cost(x) \in Costs /\ cost(y) \in Costs /\ cost(z) \in Costs
    BY <1>1
  <2>2. /\ Cheaper(cost(x), cost(y)) \/ (cost(x) = cost(y) /\ x < y)
        /\ Cheaper(cost(y), cost(z)) \/ (cost(y) = cost(z) /\ y < z)
    BY <1>3 DEF Sooner
  <2>. HIDE DEF cost
  <2>3. Cheaper(cost(x), cost(z)) \/ (cost(x) = cost(z) /\ x < z)
    <3>1. Cheaper(cost(x), cost(y)) /\ Cheaper(cost(y), cost(z)) => Cheaper(cost(x), cost(z))
      BY <2>1, CostsAreOrdered
    <3>2. x < y /\ y < z => x < z
      OBVIOUS
    <3>. QED BY <2>2, <3>1, <3>2
  <2>. QED BY <2>3 DEF Sooner, cost
<1>4. ASSUME NEW x \in from, NEW y \in from, Sooner(m, best, q, x, y), Sooner(m, best, q, y, x)
      PROVE  FALSE
  <2>1. cost(x) \in Costs /\ cost(y) \in Costs
    BY <1>1
  <2>2. /\ Cheaper(cost(x), cost(y)) \/ (cost(x) = cost(y) /\ x < y)
        /\ Cheaper(cost(y), cost(x)) \/ (cost(y) = cost(x) /\ y < x)
    BY <1>4 DEF Sooner
  <2>. HIDE DEF cost
  <2>. QED BY <2>1, <2>2, CostsAreOrdered
<1>5. \E x \in from : \A y \in from \ {x} : <<x, y>> \in R
  <2>1. Orders(R, from)
    <3>1. \A x, y \in from : x # y => <<x, y>> \in R \/ <<y, x>> \in R
      BY <1>2
    <3>2. \A x, y, z \in from : <<x, y>> \in R /\ <<y, z>> \in R => <<x, z>> \in R
      BY <1>3
    <3>. HIDE DEF R
    <3>. QED BY <3>1, <3>2 DEF Orders
  <2>. HIDE DEF R, cost
  <2>. QED BY <2>1, FirstOfFinite
<1>6. \E x \in from : \A o \in from \ {x} : Sooner(m, best, q, x, o)
  BY <1>5
<1>7. Parent(m, best, from, q) = CHOOSE x \in from : \A o \in from \ {x} : Sooner(m, best, q, x, o)
  BY DEF Parent, Sooner, CostVia
<1>8. Soonest(m, best, from, q, Parent(m, best, from, q))
  <2>. HIDE DEF cost, R
  <2>. QED BY <1>6, <1>7 DEF Soonest
<1>9. ASSUME NEW p, Soonest(m, best, from, q, p) PROVE p = Parent(m, best, from, q)
  <2>1. PICK x : x = Parent(m, best, from, q) /\ Soonest(m, best, from, q, x)
    BY <1>8
  <2>2. SUFFICES ASSUME p # x PROVE FALSE
    BY <2>1
  <2>3. /\ p \in from /\ x \in from
        /\ Sooner(m, best, q, p, x) /\ Sooner(m, best, q, x, p)
    BY <1>9, <2>1, <2>2 DEF Soonest
  <2>. QED BY <1>4, <2>3
<1>. QED BY <1>8, <1>9

\* Arrival, with the parent named.
Arrives(qs, m, best, q, e) ==
    IF q = Min(qs) THEN e = [cost |-> <<0, 0, 0>>, route |-> {q}]
    ELSE IF Origins(qs, m, best, q) = {} THEN e = None
    ELSE \E p : /\ Soonest(m, best, Origins(qs, m, best, q), q, p)
                /\ e = [cost |-> CostVia(m, best, p, q), route |-> best[p].route \union {q}]

EnteredBelow(qs, best, q) == \A p \in qs : p < q => best[p] \in Entries(qs)

\* An entry depends on the entries below it, and is of their kind.
LEMMA ArrivalIsEntry ==
    ASSUME NEW qs \in SUBSET Int, IsFiniteSet(qs), NEW m, Measured(qs, m), NEW best, NEW q \in qs,
           EnteredBelow(qs, best, q)
    PROVE  /\ \A e : Arrives(qs, m, best, q, e) <=> e = Arrival(qs, m, best, q)
           /\ Arrival(qs, m, best, q) \in Entries(qs)
<1>. DEFINE from == Origins(qs, m, best, q)
            p == Parent(m, best, from, q)
<1>1. from \in SUBSET qs /\ IsFiniteSet(from)
  BY FS_Subset DEF Origins
<1>2. \A o \in from : best[o] \in [cost : Costs, route : SUBSET qs]
  BY DEF Origins, EnteredBelow, Entries
<1>3. Costed(best, from)
  <2>. HIDE DEF from
  <2>. QED BY <1>2 DEF Costed
<1>4. /\ q = Min(qs) => Arrival(qs, m, best, q) = [cost |-> <<0, 0, 0>>, route |-> {q}]
      /\ q # Min(qs) /\ from = {} => Arrival(qs, m, best, q) = None
      /\ q # Min(qs) /\ from # {} =>
            Arrival(qs, m, best, q) =
                [cost |-> CostVia(m, best, p, q), route |-> best[p].route \union {q}]
  BY DEF Arrival, Origins, CostVia
<1>5. from # {} => Soonest(m, best, from, q, p) /\ \A o : Soonest(m, best, from, q, o) => o = p
  <2>. HIDE DEF from
  <2>. QED BY <1>1, <1>3, ParentIsFirst DEF p
<1>6. \A e : Arrives(qs, m, best, q, e) <=> e = Arrival(qs, m, best, q)
  <2>1. CASE q = Min(qs) BY <1>4, <2>1 DEF Arrives
  <2>2. CASE q # Min(qs) /\ from = {} BY <1>4, <2>2 DEF Arrives
  <2>3. CASE q # Min(qs) /\ from # {}
    <3>. HIDE DEF p
    <3>. QED BY <1>4, <1>5, <2>3 DEF Arrives
  <2>. QED BY <2>1, <2>2, <2>3
<1>7. Arrival(qs, m, best, q) \in Entries(qs)
  <2>1. CASE q = Min(qs) BY <1>4, <2>1 DEF Entries, Costs
  <2>2. CASE q # Min(qs) /\ from = {} BY <1>4, <2>2 DEF Entries
  <2>3. CASE q # Min(qs) /\ from # {}
    <3>1. p \in from
      BY <1>5, <2>3 DEF Soonest
    <3>2. p \in qs /\ best[p] \in [cost : Costs, route : SUBSET qs]
      BY <1>1, <1>2, <3>1
    <3>. HIDE DEF p
    <3>3. CostVia(m, best, p, q) \in Costs
      BY <3>2, StepCostIsCost, CostsAreOrdered DEF CostVia
    <3>4. best[p].route \union {q} \in SUBSET qs
      BY <3>2
    <3>. QED BY <1>4, <2>3, <3>3, <3>4 DEF Entries
  <2>. QED BY <2>1, <2>2, <2>3
<1>. QED BY <1>6, <1>7
AgreeBelow(qs, best, other, q) == \A p \in qs : p < q => best[p] = other[p]

LEMMA ArrivalAgrees ==
    ASSUME NEW qs \in SUBSET Int, IsFiniteSet(qs), NEW m, Measured(qs, m), NEW q \in qs,
           NEW best, EnteredBelow(qs, best, q), NEW other, AgreeBelow(qs, best, other, q)
    PROVE  /\ EnteredBelow(qs, other, q)
           /\ Arrival(qs, m, other, q) = Arrival(qs, m, best, q)
<1>1. EnteredBelow(qs, other, q)
  BY DEF EnteredBelow, AgreeBelow
<1>2. Origins(qs, m, best, q) = Origins(qs, m, other, q)
  BY DEF Origins, AgreeBelow
<1>. DEFINE from == Origins(qs, m, best, q)
<1>3. \A p \in from : best[p] = other[p]
  BY DEF Origins, AgreeBelow
<1>. HIDE DEF from
<1>4. \A p \in from : CostVia(m, best, p, q) = CostVia(m, other, p, q)
  BY <1>3 DEF CostVia
<1>5. \A p : Soonest(m, best, from, q, p) <=> Soonest(m, other, from, q, p)
  BY <1>4 DEF Soonest, Sooner
<1>6. ASSUME NEW e, Arrives(qs, m, best, q, e) PROVE Arrives(qs, m, other, q, e)
  <2>1. \A p : Soonest(m, best, from, q, p) => p \in from
    BY DEF Soonest
  <2>. QED BY <1>2, <1>3, <1>4, <1>5, <1>6, <2>1 DEF Arrives, from
<1>7. Arrives(qs, m, best, q, Arrival(qs, m, best, q))
  BY ArrivalIsEntry
<1>. QED BY <1>1, <1>6, <1>7, ArrivalIsEntry

\* Every entry is its arrival, given the entries below.
Table(qs, m, best) ==
    \A q \in qs : best[q] = Arrival(qs, m, best, q) /\ best[q] \in Entries(qs)

\* The dynamic programme fills the whole table.
LEMMA BestIsTable ==
    ASSUME NEW qs \in SUBSET Int, IsFiniteSet(qs), NEW m, Measured(qs, m)
    PROVE  Table(qs, m, Best(qs, m))
<1>. DEFINE Upto(g, q) == \A p \in qs : p <= q =>
                              g[p] = Arrival(qs, m, g, p) /\ g[p] \in Entries(qs)
            Good == {q \in qs : \E g : Upto(g, q)}
<1>1. ASSUME NEW q \in qs, \A p \in qs : p < q => p \in Good
      PROVE  q \in Good
  <2>1. PICK g : \A p \in qs : p < q => g[p] = Arrival(qs, m, g, p) /\ g[p] \in Entries(qs)
    <3>. DEFINE lower == {p \in qs : p < q}
    <3>1. lower \in SUBSET Int /\ IsFiniteSet(lower)
      BY FS_Subset
    <3>2. CASE lower = {}
      BY <3>2
    <3>3. CASE lower # {}
      <4>1. PICK last : last \in lower /\ \A y \in lower : y <= last
        <5>. HIDE DEF lower
        <5>. QED BY <3>1, <3>3, MaxOfFinite
      <4>2. PICK g : Upto(g, last)
        BY <1>1, <4>1
      <4>3. \A p \in qs : p < q => p <= last
        BY <4>1
      <4>. QED BY <4>2, <4>3
    <3>. QED BY <3>2, <3>3
  <2>. DEFINE h == [x \in qs |-> IF x < q THEN g[x] ELSE Arrival(qs, m, g, q)]
  <2>2. ASSUME NEW p \in qs, p <= q PROVE h[p] = Arrival(qs, m, g, p)
    <3>1. p < q \/ p = q
      BY <1>1, <2>2
    <3>. QED BY <2>1, <3>1
  <2>3. ASSUME NEW p \in qs, p <= q
        PROVE  EnteredBelow(qs, g, p) /\ AgreeBelow(qs, g, h, p)
    <3>1. \A x \in qs : x < p => x < q
      BY <1>1, <2>3
    <3>. QED BY <2>1, <3>1 DEF EnteredBelow, AgreeBelow
  <2>. HIDE DEF h
  <2>4. ASSUME NEW p \in qs, p <= q
        PROVE  h[p] = Arrival(qs, m, h, p) /\ h[p] \in Entries(qs)
    <3>1. Arrival(qs, m, h, p) = Arrival(qs, m, g, p)
      BY <2>3, <2>4, ArrivalAgrees
    <3>2. Arrival(qs, m, g, p) \in Entries(qs)
      BY <2>3, <2>4, ArrivalIsEntry
    <3>. QED BY <2>2, <2>4, <3>1, <3>2
  <2>5. Upto(h, q)
    BY <2>4
  <2>. QED BY <2>5
<1>2. qs \subseteq Good
  <2>1. ClimbsThrough(qs, Good)
    BY <1>1 DEF ClimbsThrough
  <2>. QED BY <2>1, Upwards
<1>3. PICK g : \A p \in qs : g[p] = Arrival(qs, m, g, p) /\ g[p] \in Entries(qs)
  <2>1. CASE qs = {}
    BY <2>1
  <2>2. CASE qs # {}
    <3>1. PICK last : last \in qs /\ \A y \in qs : y <= last
      BY <2>2, MaxOfFinite
    <3>2. PICK g : Upto(g, last)
      BY <1>2, <3>1
    <3>. QED BY <3>1, <3>2
  <2>. QED BY <2>1, <2>2
<1>. DEFINE Fills(f) == f = [q \in qs |-> Arrival(qs, m, f, q)]
            b == [q \in qs |-> g[q]]
<1>4. Fills(b)
  <2>1. ASSUME NEW q \in qs PROVE Arrival(qs, m, b, q) = g[q]
    <3>1. EnteredBelow(qs, g, q) /\ AgreeBelow(qs, g, b, q)
      BY <1>3 DEF EnteredBelow, AgreeBelow
    <3>2. Arrival(qs, m, b, q) = Arrival(qs, m, g, q)
      <4>. HIDE DEF b
      <4>. QED BY <3>1, ArrivalAgrees
    <3>. QED BY <1>3, <3>2
  <2>2. [q \in qs |-> Arrival(qs, m, b, q)] = [q \in qs |-> g[q]]
    <3>. HIDE DEF b
    <3>. QED BY <2>1
  <2>. QED BY <2>2
<1>5. Best(qs, m) = CHOOSE f : Fills(f)
  BY DEF Best
<1>6. PICK f : f = Best(qs, m) /\ Fills(f)
  <2>. HIDE DEF Fills, b
  <2>. QED BY <1>4, <1>5
<1>7. \A q \in qs : f[q] = Arrival(qs, m, f, q)
  BY <1>6
<1>8. qs \subseteq {q \in qs : f[q] \in Entries(qs)}
  <2>. DEFINE Kind == {q \in qs : f[q] \in Entries(qs)}
  <2>1. ASSUME NEW q \in qs, \A p \in qs : p < q => p \in Kind
        PROVE  q \in Kind
    <3>1. EnteredBelow(qs, f, q)
      BY <2>1 DEF EnteredBelow
    <3>2. Arrival(qs, m, f, q) \in Entries(qs)
      BY <3>1, ArrivalIsEntry
    <3>. QED BY <1>7, <3>2
  <2>2. ClimbsThrough(qs, Kind)
    BY <2>1 DEF ClimbsThrough
  <2>. HIDE DEF Kind
  <2>3. qs \subseteq Kind
    BY <2>2, Upwards
  <2>. QED BY <2>3 DEF Kind
<1>. QED BY <1>6, <1>7, <1>8 DEF Table
-----------------------------------------------------------------------------
(* The routes that reach a discharge *)

Reaching(qs, m, q) ==
    {R \in SUBSET {p \in qs : p <= q} :
        /\ {Min(qs), q} \subseteq R
        /\ \A p \in R \ {q} : Tolerated(qs, m, p, Following(R, p))}

\* R reaches q through p.
Extends(qs, m, R, p, q) ==
    /\ p \in qs /\ p < q /\ Tolerated(qs, m, p, q)
    /\ \E shorter \in Reaching(qs, m, p) :
          /\ R = shorter \union {q}
          /\ RouteCost(m, shorter) \in Costs
          /\ RouteCost(m, R) = Plus(RouteCost(m, shorter), StepCost(m, p, q))

LEMMA ReachingSplits ==
    ASSUME NEW qs \in SUBSET Int, IsFiniteSet(qs), NEW m, Measured(qs, m), NEW q \in qs, q # Min(qs),
           NEW R \in Reaching(qs, m, q)
    PROVE  \E p : Extends(qs, m, R, p, q)
<1>. DEFINE shorter == R \ {q}
<1>1. /\ R \in SUBSET qs /\ \A x \in R : x <= q
      /\ Min(qs) \in R /\ q \in R
      /\ \A p \in R \ {q} : Tolerated(qs, m, p, Following(R, p))
  BY DEF Reaching
<1>2. /\ shorter \in SUBSET qs /\ shorter \in SUBSET Int /\ IsFiniteSet(shorter)
      /\ Min(qs) \in shorter /\ \A x \in shorter : x < q
      /\ R = shorter \union {q}
  <2>1. shorter \in SUBSET qs
    BY <1>1
  <2>2. IsFiniteSet(shorter)
    BY <2>1, FS_Subset
  <2>3. shorter \in SUBSET Int /\ Min(qs) \in shorter /\ \A x \in shorter : x < q
    BY <1>1
  <2>4. R = shorter \union {q}
    BY <1>1
  <2>. QED BY <2>1, <2>2, <2>3, <2>4
<1>. HIDE DEF shorter
<1>3. PICK p : p = Max(shorter) /\ p \in shorter /\ \A y \in shorter : y <= p
  BY <1>2, MaxOfFinite
<1>4. /\ Following(R, p) = q
      /\ \A x \in Legs(shorter) : Following(R, x) = Following(shorter, x)
  BY <1>2, <1>3, OneLegMore
<1>5. Tolerated(qs, m, p, q)
  <2>1. p \in R \ {q}
    BY <1>2, <1>3
  <2>. QED BY <1>1, <1>4, <2>1
<1>6. shorter \in Reaching(qs, m, p)
  <2>1. ASSUME NEW x \in shorter \ {p} PROVE Tolerated(qs, m, x, Following(shorter, x))
    <3>1. x \in Legs(shorter) /\ x \in R \ {q}
      BY <1>2, <1>3, <2>1 DEF Legs
    <3>. QED BY <1>1, <1>4, <3>1
  <2>2. shorter \in SUBSET {x \in qs : x <= p} /\ {Min(qs), p} \subseteq shorter
    BY <1>2, <1>3
  <2>. QED BY <2>1, <2>2 DEF Reaching
<1>7. RouteCost(m, shorter) \in Costs
  BY <1>2, RouteCostIsCost
<1>8. RouteCost(m, R) = Plus(RouteCost(m, shorter), StepCost(m, p, q))
  BY <1>2, <1>3, OneLegMoreCosts
<1>9. p \in qs /\ p < q
  BY <1>2, <1>3
<1>. QED BY <1>2, <1>5, <1>6, <1>7, <1>8, <1>9 DEF Extends

LEMMA ReachingGrows ==
    ASSUME NEW qs \in SUBSET Int, IsFiniteSet(qs), NEW m, Measured(qs, m), NEW q \in qs,
           NEW p \in qs, p < q, Tolerated(qs, m, p, q), NEW shorter \in Reaching(qs, m, p)
    PROVE  /\ shorter \union {q} \in Reaching(qs, m, q)
           /\ RouteCost(m, shorter \union {q}) = Plus(RouteCost(m, shorter), StepCost(m, p, q))
<1>. DEFINE R == shorter \union {q}
<1>1. /\ shorter \in SUBSET qs /\ \A x \in shorter : x <= p
      /\ Min(qs) \in shorter /\ p \in shorter
      /\ \A x \in shorter \ {p} : Tolerated(qs, m, x, Following(shorter, x))
  BY DEF Reaching
<1>2. shorter \in SUBSET Int /\ IsFiniteSet(shorter) /\ \A x \in shorter : x < q
  <2>1. IsFiniteSet(shorter)
    BY <1>1, FS_Subset
  <2>2. shorter \in SUBSET Int /\ \A x \in shorter : x < q
    BY <1>1
  <2>. QED BY <2>1, <2>2
<1>3. Max(shorter) = p
  <2>1. PICK x : x = Max(shorter) /\ x \in shorter /\ \A y \in shorter : y <= x
    BY <1>1, <1>2, MaxOfFinite
  <2>2. x <= p /\ p <= x
    BY <1>1, <2>1
  <2>. QED BY <1>1, <2>1, <2>2
<1>4. /\ Following(R, p) = q
      /\ \A x \in Legs(shorter) : Following(R, x) = Following(shorter, x)
  BY <1>1, <1>2, <1>3, OneLegMore
<1>5. ASSUME NEW x \in R \ {q} PROVE Tolerated(qs, m, x, Following(R, x))
  <2>1. CASE x = p
    BY <1>4, <2>1
  <2>2. CASE x # p
    <3>1. x \in Legs(shorter) /\ x \in shorter \ {p}
      BY <1>3, <1>5, <2>2 DEF Legs
    <3>. QED BY <1>1, <1>4, <3>1
  <2>. QED BY <2>1, <2>2
<1>6. R \in SUBSET {x \in qs : x <= q} /\ {Min(qs), q} \subseteq R
  BY <1>1, <1>2
<1>7. R \in Reaching(qs, m, q)
  <2>. HIDE DEF R
  <2>. QED BY <1>5, <1>6 DEF Reaching
<1>8. RouteCost(m, R) = Plus(RouteCost(m, shorter), StepCost(m, p, q))
  BY <1>1, <1>2, <1>3, OneLegMoreCosts
<1>. QED BY <1>7, <1>8

\* Adding the step from p to q keeps the order of the routes to p.
LEMMA StillNoCheaper ==
    ASSUME NEW c \in Costs, NEW d \in Costs, NEW e \in Costs, ~Cheaper(c, d)
    PROVE  ~Cheaper(Plus(c, e), Plus(d, e))
BY CostsAreOrdered

LEMMA NoCheaperThanFirst ==
    ASSUME NEW c \in Costs, NEW d \in Costs, NEW e \in Costs, ~Cheaper(c, d),
           e = d \/ Cheaper(e, d)
    PROVE  ~Cheaper(c, e)
BY CostsAreOrdered

\* An entry of the table is a cheapest route, and there is none where there is no route.
CheapestTo(qs, m, e, q) ==
    IF e = None THEN Reaching(qs, m, q) = {}
    ELSE /\ e.route \in Reaching(qs, m, q)
         /\ e.cost = RouteCost(m, e.route)
         /\ \A R \in Reaching(qs, m, q) : ~Cheaper(RouteCost(m, R), e.cost)

LEMMA LowestIsReached ==
    ASSUME NEW qs \in SUBSET Int, IsFiniteSet(qs), NEW m, Measured(qs, m), NEW q \in qs, q = Min(qs),
           NEW e, e = [cost |-> <<0, 0, 0>>, route |-> {q}]
    PROVE  CheapestTo(qs, m, e, q)
<1>1. \A p \in qs : p <= q => p = q
  <2>1. \A y \in qs : q <= y
    BY MinOfFinite
  <2>. QED BY <2>1
<1>2. Reaching(qs, m, q) = {{q}}
  <2>1. ASSUME NEW R \in Reaching(qs, m, q) PROVE R = {q}
    <3>1. R \in SUBSET {p \in qs : p <= q} /\ q \in R
      BY DEF Reaching
    <3>. QED BY <1>1, <3>1
  <2>2. {q} \in Reaching(qs, m, q)
    BY DEF Reaching
  <2>. QED BY <2>1, <2>2
<1>3. RouteCost(m, {q}) = <<0, 0, 0>>
  BY NoLegs
<1>4. ~Cheaper(<<0, 0, 0>>, <<0, 0, 0>>)
  BY DEF Cheaper
<1>5. e # None
  BY NoneAssumption DEF Costs
<1>. QED BY <1>2, <1>3, <1>4, <1>5 DEF CheapestTo

LEMMA BestIsBest ==
    ASSUME NEW qs \in SUBSET Int, IsFiniteSet(qs), NEW m, Measured(qs, m), NEW best, Table(qs, m, best)
    PROVE  \A q \in qs : CheapestTo(qs, m, best[q], q)
<1>. DEFINE Good == {q \in qs : CheapestTo(qs, m, best[q], q)}
<1>1. ASSUME NEW q \in qs, \A p \in qs : p < q => p \in Good
      PROVE  CheapestTo(qs, m, best[q], q)
  <2>. DEFINE from == Origins(qs, m, best, q)
  <2>1. EnteredBelow(qs, best, q)
    BY DEF Table, EnteredBelow
  <2>2. Arrives(qs, m, best, q, best[q])
    BY <2>1, ArrivalIsEntry DEF Table
  <2>3. ASSUME NEW p \in from
        PROVE  /\ p \in qs /\ p < q /\ Tolerated(qs, m, p, q) /\ best[p] # None
               /\ CheapestTo(qs, m, best[p], p)
               /\ best[p].cost \in Costs /\ StepCost(m, p, q) \in Costs
    <3>1. p \in qs /\ p < q /\ Tolerated(qs, m, p, q) /\ best[p] # None
      BY DEF Origins
    <3>2. best[p].cost \in Costs
      BY <3>1 DEF Table, Entries
    <3>3. StepCost(m, p, q) \in Costs
      BY <3>1, StepCostIsCost
    <3>. QED BY <1>1, <3>1, <3>2, <3>3
  <2>4. ASSUME NEW p, NEW R \in Reaching(qs, m, q), Extends(qs, m, R, p, q)
        PROVE  p \in from /\ RouteCost(m, R) \in Costs
               /\ ~Cheaper(RouteCost(m, R), CostVia(m, best, p, q))
    <3>1. PICK shorter \in Reaching(qs, m, p) :
              /\ RouteCost(m, shorter) \in Costs
              /\ RouteCost(m, R) = Plus(RouteCost(m, shorter), StepCost(m, p, q))
      BY <2>4 DEF Extends
    <3>2. p \in qs /\ p < q /\ Tolerated(qs, m, p, q)
      BY <2>4 DEF Extends
    <3>3. CheapestTo(qs, m, best[p], p)
      BY <1>1, <3>2
    <3>4. best[p] # None /\ ~Cheaper(RouteCost(m, shorter), best[p].cost)
      BY <3>1, <3>3 DEF CheapestTo
    <3>5. p \in from
      BY <3>2, <3>4 DEF Origins
    <3>6. best[p].cost \in Costs /\ StepCost(m, p, q) \in Costs
      BY <2>3, <3>5
    <3>7. ~Cheaper(RouteCost(m, R), CostVia(m, best, p, q))
      BY <3>1, <3>4, <3>6, StillNoCheaper DEF CostVia
    <3>8. RouteCost(m, R) \in Costs
      BY <3>1, <3>6, CostsAreOrdered
    <3>. QED BY <3>5, <3>7, <3>8
  <2>5. CASE q = Min(qs)
    BY <2>2, <2>5, LowestIsReached DEF Arrives
  <2>6. CASE q # Min(qs) /\ from = {}
    <3>1. best[q] = None
      BY <2>2, <2>6 DEF Arrives
    <3>2. Reaching(qs, m, q) = {}
      <4>1. SUFFICES ASSUME NEW R \in Reaching(qs, m, q) PROVE FALSE
        OBVIOUS
      <4>2. PICK p : Extends(qs, m, R, p, q)
        BY <2>6, ReachingSplits
      <4>3. p \in from
        BY <2>4, <4>2
      <4>. QED BY <2>6, <4>3
    <3>. QED BY <3>1, <3>2 DEF CheapestTo
  <2>7. CASE q # Min(qs) /\ from # {}
    <3>1. PICK p : /\ Soonest(m, best, from, q, p)
                   /\ best[q] = [cost |-> CostVia(m, best, p, q), route |-> best[p].route \union {q}]
      BY <2>2, <2>7 DEF Arrives
    <3>2. p \in from /\ \A o \in from \ {p} : Sooner(m, best, q, p, o)
      BY <3>1 DEF Soonest
    <3>. HIDE DEF from
    <3>3. /\ p \in qs /\ p < q /\ Tolerated(qs, m, p, q) /\ best[p] # None
          /\ CheapestTo(qs, m, best[p], p)
          /\ best[p].cost \in Costs /\ StepCost(m, p, q) \in Costs
      BY <2>3, <3>2
    <3>4. best[p].route \in Reaching(qs, m, p) /\ best[p].cost = RouteCost(m, best[p].route)
      BY <3>3 DEF CheapestTo
    <3>5. /\ best[q].route \in Reaching(qs, m, q)
          /\ best[q].cost = RouteCost(m, best[q].route)
      BY <3>1, <3>3, <3>4, ReachingGrows DEF CostVia
    <3>6. best[q] # None
      <4>1. CostVia(m, best, p, q) \in Costs
        BY <3>3, CostsAreOrdered DEF CostVia
      <4>2. best[p].route \union {q} \in SUBSET Int
        BY <3>4 DEF Reaching
      <4>. QED BY <3>1, <4>1, <4>2, NoneAssumption DEF Costs
    <3>7. ASSUME NEW R \in Reaching(qs, m, q)
          PROVE  ~Cheaper(RouteCost(m, R), best[q].cost)
      <4>1. PICK o : Extends(qs, m, R, o, q)
        BY <2>7, ReachingSplits
      <4>2. o \in from /\ RouteCost(m, R) \in Costs
            /\ ~Cheaper(RouteCost(m, R), CostVia(m, best, o, q))
        BY <2>4, <4>1
      <4>3. CostVia(m, best, o, q) \in Costs /\ CostVia(m, best, p, q) \in Costs
        BY <2>3, <3>3, <4>2, CostsAreOrdered DEF CostVia
      <4>4. \/ CostVia(m, best, p, q) = CostVia(m, best, o, q)
            \/ Cheaper(CostVia(m, best, p, q), CostVia(m, best, o, q))
        BY <3>2, <4>2 DEF Sooner
      <4>5. best[q].cost = CostVia(m, best, p, q)
        BY <3>1
      <4>. QED BY <4>2, <4>3, <4>4, <4>5, NoCheaperThanFirst
    <3>. QED BY <3>5, <3>6, <3>7 DEF CheapestTo
  <2>. QED BY <2>5, <2>6, <2>7
<1>2. qs \subseteq Good
  <2>1. ClimbsThrough(qs, Good)
    BY <1>1 DEF ClimbsThrough
  <2>. QED BY <2>1, Upwards
<1>. QED BY <1>2
-----------------------------------------------------------------------------
(* The adopted library *)

LEMMA RoutesReachTheHighest ==
    ASSUME NEW qs \in SUBSET Int, IsFiniteSet(qs), qs # {}, NEW m
    PROVE  Max(qs) \in qs /\ Routes(qs, m) = Reaching(qs, m, Max(qs))
<1>1. PICK last : last = Max(qs) /\ last \in qs /\ \A y \in qs : y <= last
  BY MaxOfFinite
<1>2. {p \in qs : p <= last} = qs
  BY <1>1
<1>. QED BY <1>1, <1>2 DEF Routes, Reaching

Searches(qs) == Bands # {} /\ \E p, q \in qs : p # q

LEMMA SearchedIsBest ==
    ASSUME NEW qs \in SUBSET Int, IsFiniteSet(qs), NEW m, Measured(qs, m), Searches(qs)
    PROVE  \/ Adopted(qs, m) = None /\ Routes(qs, m) = {}
           \/ /\ Adopted(qs, m) \in Routes(qs, m)
              /\ \A route \in Routes(qs, m) :
                    ~Cheaper(RouteCost(m, route), RouteCost(m, Adopted(qs, m)))
<1>1. qs # {}
  BY DEF Searches
<1>2. PICK last : last = Best(qs, m)[Max(qs)]
  OBVIOUS
<1>3. CheapestTo(qs, m, last, Max(qs)) /\ Routes(qs, m) = Reaching(qs, m, Max(qs))
  <2>1. Table(qs, m, Best(qs, m))
    BY BestIsTable
  <2>2. \A q \in qs : CheapestTo(qs, m, Best(qs, m)[q], q)
    BY <2>1, BestIsBest
  <2>. QED BY <1>1, <1>2, <2>2, RoutesReachTheHighest
<1>4. Adopted(qs, m) = IF last = None THEN None ELSE last.route
  BY <1>2 DEF Adopted, Searches
<1>. QED BY <1>3, <1>4 DEF CheapestTo

\* adopt: what it takes as the library is one of the routes intent allows through
\* what storage holds, and no other is cheaper; where there is one discharge or
\* no band, it takes everything.
AdoptsTheCheapest(qs, m) ==
    Adopted(qs, m) # None =>
        /\ Adopted(qs, m) \in SUBSET qs /\ Adopted(qs, m) # {}
        /\ Bands # {} =>
              /\ Adopted(qs, m) \in Routes(qs, m) \/ Cardinality(qs) = 1
              /\ \A route \in Routes(qs, m) :
                    ~Cheaper(RouteCost(m, route), RouteCost(m, Adopted(qs, m)))

THEOREM AdoptionIsCheapest ==
    ASSUME NEW qs \in SUBSET Int, IsFiniteSet(qs), qs # {}, NEW m, Measured(qs, m)
    PROVE  AdoptsTheCheapest(qs, m)
<1>1. CASE Searches(qs)
  <2>1. \A R \in Routes(qs, m) : R \in SUBSET qs /\ Min(qs) \in R
    BY DEF Routes
  <2>. QED BY <1>1, <2>1, SearchedIsBest DEF AdoptsTheCheapest
<1>2. CASE ~Searches(qs)
  <2>1. Adopted(qs, m) = qs
    BY <1>2 DEF Searches, Adopted
  <2>2. ASSUME Bands # {}
        PROVE  /\ Cardinality(qs) = 1
               /\ \A route \in Routes(qs, m) : ~Cheaper(RouteCost(m, route), RouteCost(m, qs))
    <3>1. PICK q : qs = {q}
      <4>1. PICK q : q \in qs
        OBVIOUS
      <4>2. \A p \in qs : p = q
        BY <1>2, <2>2, <4>1 DEF Searches
      <4>3. qs = {q}
        BY <4>1, <4>2
      <4>. QED BY <4>3
    <3>2. Min(qs) = q
      <4>1. Min(qs) \in qs
        BY MinOfFinite
      <4>. QED BY <3>1, <4>1
    <3>3. \A route \in Routes(qs, m) : route = qs
      BY <3>1, <3>2 DEF Routes
    <3>4. Cardinality(qs) = 1
      BY <3>1, FS_Singleton
    <3>5. RouteCost(m, qs) \in Costs
      BY RouteCostIsCost
    <3>6. ~Cheaper(RouteCost(m, qs), RouteCost(m, qs))
      BY <3>5, CostsAreOrdered
    <3>. QED BY <3>3, <3>4, <3>6
  <2>. QED BY <2>1, <2>2 DEF AdoptsTheCheapest
<1>. QED BY <1>1, <1>2

\* adopt: where it finds no library there is no route to find: the table of
\* predecessors gives up on none that intent allows.
THEOREM RefusedHasNoRoute ==
    ASSUME NEW qs \in SUBSET Int, IsFiniteSet(qs), NEW m, Measured(qs, m),
           \A S \in SUBSET qs : S # None, Adopted(qs, m) = None
    PROVE  Routes(qs, m) = {}
<1>1. Searches(qs)
  <2>1. SUFFICES ASSUME ~Searches(qs) PROVE FALSE
    OBVIOUS
  <2>2. Adopted(qs, m) = qs
    BY <2>1 DEF Searches, Adopted
  <2>. QED BY <2>2
<1>2. \A R \in Routes(qs, m) : R # None
  BY DEF Routes
<1>. QED BY <1>1, <1>2, SearchedIsBest

\* adopt: a set it refuses has two neighbours that intent does not tolerate next
\* to each other, and they are further apart than the grid.
THEOREM RefusedHasAGap ==
    ASSUME NEW qs \in SUBSET Int, IsFiniteSet(qs), qs # {}, NEW m, Measured(qs, m),
           \A S \in SUBSET qs : S # None, Adopted(qs, m) = None
    PROVE  /\ QGrid # None
           /\ \E a \in qs \ {Max(qs)} :
                 /\ ~Tolerated(qs, m, a, Following(qs, a))
                 /\ Following(qs, a) - a > QGrid
<1>1. qs \notin Routes(qs, m)
  BY RefusedHasNoRoute
<1>2. Min(qs) \in qs /\ Max(qs) \in qs
  BY MinOfFinite, MaxOfFinite
<1>3. PICK a \in qs \ {Max(qs)} : ~Tolerated(qs, m, a, Following(qs, a))
  BY <1>1, <1>2 DEF Routes
<1>4. PICK b : b = Following(qs, a) /\ b \in qs /\ b > a /\ \A p \in qs : p > a => b <= p
  <2>1. a \in Legs(qs)
    BY DEF Legs
  <2>. QED BY <2>1, FollowingIsNext
<1>5. ~NothingFiner(qs, a, b)
  BY <1>3, <1>4 DEF Tolerated
<1>6. QGrid # None
  <2>1. SUFFICES ASSUME QGrid = None PROVE FALSE
    OBVIOUS
  <2>2. PICK q \in qs : ~(q <= a) /\ ~(q >= b)
    BY <1>5, <2>1 DEF NothingFiner
  <2>3. q > a /\ q < b
    BY <1>4, <2>2
  <2>. QED BY <1>4, <2>3
<1>7. b - a > QGrid
  BY <1>4, <1>5, <1>6, BandAssumption DEF NothingFiner
<1>. QED BY <1>3, <1>4, <1>6, <1>7
=============================================================================
