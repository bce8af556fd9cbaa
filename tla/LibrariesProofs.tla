--------------------------- MODULE LibrariesProofs ---------------------------
(***************************************************************************)
(* What holds of the libraries of a chain of reaches, for every network,    *)
(* intent and reading.                                                      *)
(***************************************************************************)
EXTENDS Libraries, AdoptProofs

-----------------------------------------------------------------------------
(* Stages *)

LEMMA Division ==
    ASSUME NEW v \in Int, NEW d \in Nat \ {0}
    PROVE  \E k \in Int, rem \in 0 .. (d - 1) :
              v \div d = k /\ v % d = rem /\ v = d * k + rem
<1>1. v \div d \in Int /\ v % d \in 0 .. (d - 1)
  OBVIOUS
<1>2. v = d * (v \div d) + (v % d)
  OBVIOUS
<1>. QED BY <1>1, <1>2

LEMMA Multiple ==
    ASSUME NEW k \in Int, NEW d \in Nat \ {0}
    PROVE  d * k \in Int /\ (d * k) % d = 0
OBVIOUS
\* The nearest multiple of dz is within half of it, and rounding keeps the order.
Apart(a, b) == IF a >= b THEN a - b ELSE b - a

LEMMA SnapIsNear ==
    ASSUME NEW v \in Int, NEW dz \in Nat \ {0}
    PROVE  /\ P!Snap(v, dz) \in Int /\ P!Snap(v, dz) % dz = 0
           /\ 2 * Apart(v, P!Snap(v, dz)) <= dz
           /\ \E k \in Int, rem \in 0 .. (dz - 1) :
                 /\ v = dz * k + rem
                 /\ P!Snap(v, dz) = dz * (IF 2 * rem > dz \/ (2 * rem = dz /\ k % 2 = 1)
                                          THEN k + 1 ELSE k)
<1>1. PICK k \in Int, rem \in 0 .. (dz - 1) : v \div dz = k /\ v = dz * k + rem
  BY Division
<1>. DEFINE up == 2 * rem > dz \/ (2 * rem = dz /\ k % 2 = 1)
<1>2. PICK base \in Int : base = dz * k /\ base % dz = 0
  BY Multiple
<1>3. PICK next \in Int : next = dz * (k + 1) /\ next % dz = 0 /\ next = base + dz
  <2>1. dz * (k + 1) = dz * k + dz
    OBVIOUS
  <2>. QED BY <1>2, <2>1, Multiple
<1>4. 2 * (v - k * dz) = 2 * rem
  <2>1. k * dz = base
    BY <1>2
  <2>. QED BY <1>1, <1>2, <2>1
<1>5. P!Snap(v, dz) = dz * (IF up THEN k + 1 ELSE k)
  BY <1>1, <1>4 DEF P!Snap
<1>6. CASE up
  <2>1. P!Snap(v, dz) = next
    BY <1>3, <1>5, <1>6
  <2>2. 2 * rem >= dz
    BY <1>6
  <2>3. 2 * Apart(v, next) <= dz
    BY <1>1, <1>2, <1>3, <2>2 DEF Apart
  <2>. QED BY <1>1, <1>3, <1>5, <2>1, <2>3
<1>7. CASE ~up
  <2>1. P!Snap(v, dz) = base
    BY <1>2, <1>5, <1>7
  <2>2. 2 * rem <= dz
    BY <1>7
  <2>3. 2 * Apart(v, base) <= dz
    BY <1>1, <1>2, <2>2 DEF Apart
  <2>. QED BY <1>1, <1>2, <1>5, <2>1, <2>3
<1>. QED BY <1>6, <1>7

LEMMA SnapKeepsOrder ==
    ASSUME NEW dz \in Nat \ {0}, NEW v \in Int, NEW w \in Int, v <= w
    PROVE  P!Snap(v, dz) <= P!Snap(w, dz)
<1>. DEFINE Up(k, rem) == 2 * rem > dz \/ (2 * rem = dz /\ k % 2 = 1)
<1>1. PICK k \in Int, rem \in 0 .. (dz - 1) :
          v = dz * k + rem /\ P!Snap(v, dz) = dz * (IF Up(k, rem) THEN k + 1 ELSE k)
  BY SnapIsNear
<1>2. PICK j \in Int, rest \in 0 .. (dz - 1) :
          w = dz * j + rest /\ P!Snap(w, dz) = dz * (IF Up(j, rest) THEN j + 1 ELSE j)
  BY SnapIsNear
<1>3. PICK a \in Int, b \in Int : /\ a = (IF Up(k, rem) THEN k + 1 ELSE k)
                                 /\ b = (IF Up(j, rest) THEN j + 1 ELSE j)
  OBVIOUS
<1>4. k <= j
  <2>1. SUFFICES ASSUME k >= j + 1 PROVE FALSE
    OBVIOUS
  <2>2. dz * k >= dz * (j + 1)
    BY <2>1
  <2>3. dz * (j + 1) = dz * j + dz
    OBVIOUS
  <2>4. PICK x \in Int, y \in Int : x = dz * k /\ y = dz * j
    OBVIOUS
  <2>. QED BY <1>1, <1>2, <2>2, <2>3, <2>4
<1>5. a <= b
  <2>1. CASE k = j
    <3>1. rem <= rest
      <4>1. PICK x \in Int : x = dz * k /\ x = dz * j
        BY <2>1
      <4>. QED BY <1>1, <1>2, <4>1
    <3>2. Up(k, rem) => Up(j, rest)
      BY <2>1, <3>1
    <3>. QED BY <1>3, <2>1, <3>2
  <2>2. CASE k < j
    <3>. HIDE DEF Up
    <3>. QED BY <1>3, <2>2
  <2>. QED BY <1>4, <2>1, <2>2
<1>6. dz * a <= dz * b
  BY <1>5
<1>. QED BY <1>1, <1>2, <1>3, <1>6
-----------------------------------------------------------------------------
(* The planner *)

Runs == [q : Nat, wse : Int, bc : Int \union {None}]

\* What `plan` is given: one normal-depth run of each discharge at most.
PlanArgs(p) ==
    /\ p.qs \in SUBSET Nat
    /\ p.dz \in Nat \ {0}
    /\ p.runs \in SUBSET Runs /\ IsFiniteSet(p.runs)
    /\ \A r, s \in p.runs : r.q = s.q /\ r.bc = None /\ s.bc = None => r = s
    /\ p.top = None \/ p.top \in Int

LEMMA PlannerExtremes ==
    ASSUME NEW S PROVE P!Min(S) = Min(S) /\ P!Max(S) = Max(S)
BY DEF P!Min, P!Max, Min, Max

LEMMA ImageIsFinite ==
    ASSUME NEW S, IsFiniteSet(S), NEW f
    PROVE  IsFiniteSet({f[x] : x \in S})
<1>. DEFINE g == [x \in S |-> f[x]]
<1>1. g \in Surjection(S, {f[x] : x \in S})
  BY DEF Surjection
<1>. QED BY <1>1, FS_Surjection

\* The stages of some runs, and their discharges, are finitely many numbers.
LEMMA FieldsOfRuns ==
    ASSUME NEW runs \in SUBSET Runs, IsFiniteSet(runs), runs # {}
    PROVE  /\ P!WseOf(runs) \in SUBSET Int /\ IsFiniteSet(P!WseOf(runs)) /\ P!WseOf(runs) # {}
           /\ {r.q : r \in runs} \in SUBSET Int /\ IsFiniteSet({r.q : r \in runs})
           /\ {r.q : r \in runs} # {}
<1>. DEFINE W == [r \in runs |-> r.wse]
            Q == [r \in runs |-> r.q]
<1>1. IsFiniteSet({r.wse : r \in runs}) /\ IsFiniteSet({r.q : r \in runs})
  <2>1. IsFiniteSet({W[r] : r \in runs}) /\ IsFiniteSet({Q[r] : r \in runs})
    <3>. HIDE DEF W, Q
    <3>. QED BY ImageIsFinite
  <2>2. {W[r] : r \in runs} = {r.wse : r \in runs} /\ {Q[r] : r \in runs} = {r.q : r \in runs}
    OBVIOUS
  <2>. QED BY <2>1, <2>2
<1>2. {r.wse : r \in runs} \in SUBSET Int /\ {r.q : r \in runs} \in SUBSET Int
  BY DEF Runs
<1>. QED BY <1>1, <1>2 DEF P!WseOf
LEMMA FloorIsStage ==
    ASSUME NEW p, PlanArgs(p), NEW q \in Nat, p.runs # {}
    PROVE  P!Floor(p, q) \in Int
<1>. USE DEF PlanArgs
<1>1. PICK low : low = {s \in p.runs : s.q <= q} /\ low \in SUBSET p.runs
  OBVIOUS
<1>2. low \in SUBSET Runs /\ IsFiniteSet(low)
  BY <1>1, FS_Subset
<1>. DEFINE atOrBelow == {r.q : r \in low}
            dsQ == IF atOrBelow # {} THEN P!Max(atOrBelow) ELSE P!Min({r.q : r \in p.runs})
<1>3. \E r \in p.runs : r.q = dsQ
  <2>1. CASE low = {}
    <3>1. Min({r.q : r \in p.runs}) \in {r.q : r \in p.runs}
      BY FieldsOfRuns, MinOfFinite
    <3>. QED BY <2>1, <3>1, PlannerExtremes
  <2>2. CASE low # {}
    <3>1. Max(atOrBelow) \in atOrBelow /\ atOrBelow # {}
      BY <1>2, <2>2, FieldsOfRuns, MaxOfFinite
    <3>. QED BY <1>1, <3>1, PlannerExtremes
  <2>. QED BY <2>1, <2>2
<1>4. PICK at : at = {r \in p.runs : r.q = dsQ} /\ at \in SUBSET p.runs /\ at # {}
  BY <1>3
<1>5. at \in SUBSET Runs /\ IsFiniteSet(at)
  BY <1>4, FS_Subset
<1>6. Min(P!WseOf(at)) \in Int
  BY <1>4, <1>5, FieldsOfRuns, MinOfFinite
<1>7. P!Floor(p, q) = P!Min(P!WseOf(at))
  BY <1>1, <1>4 DEF P!Floor
<1>. QED BY <1>6, <1>7, PlannerExtremes

LEMMA CeilingIsStage ==
    ASSUME NEW p, PlanArgs(p), NEW q, P!Pool(p, q) # {}
    PROVE  P!Ceiling(p, q) \in Int
<1>. USE DEF PlanArgs
<1>1. PICK pool : pool = P!Pool(p, q) /\ pool \in SUBSET p.runs
  BY DEF P!Pool
<1>2. pool \in SUBSET Runs /\ IsFiniteSet(pool)
  BY <1>1, FS_Subset
<1>3. PICK highest \in Int : highest = P!Max(P!WseOf(pool))
  BY <1>1, <1>2, FieldsOfRuns, MaxOfFinite, PlannerExtremes
<1>4. CASE p.top = None
  BY <1>1, <1>3, <1>4 DEF P!Ceiling
<1>5. CASE p.top \in Int
  <2>1. {highest, p.top} \in SUBSET Int /\ IsFiniteSet({highest, p.top})
    <3>1. IsFiniteSet({highest} \union {p.top})
      BY FS_Singleton, FS_AddElement
    <3>2. {highest} \union {p.top} = {highest, p.top}
      OBVIOUS
    <3>. QED BY <1>5, <3>1, <3>2
  <2>2. Min({highest, p.top}) \in Int
    BY <2>1, MinOfFinite
  <2>. QED BY <1>1, <1>3, <1>4, <2>2, PlannerExtremes DEF P!Ceiling
<1>. QED BY <1>4, <1>5

\* The rungs of a discharge are finitely many multiples of the increment, and
\* there is none where no downstream run can be met.
LEMMA RungsAreStages ==
    ASSUME NEW p, PlanArgs(p), NEW q \in Nat
    PROVE  /\ P!Rungs(p, q) \in SUBSET Int /\ IsFiniteSet(P!Rungs(p, q))
           /\ \A z \in P!Rungs(p, q) : z % p.dz = 0 /\ P!Pool(p, q) # {}
<1>. USE DEF PlanArgs
<1>1. CASE P!Pool(p, q) = {}
  <2>1. P!Rungs(p, q) = {}
    BY <1>1 DEF P!Rungs
  <2>. QED BY <2>1, FS_EmptySet
<1>2. CASE P!Pool(p, q) # {}
  <2>1. p.runs # {}
    BY <1>2 DEF P!Pool
  <2>2. PICK a \in Int, b \in Int : /\ a = P!Snap(P!Floor(p, q), p.dz)
                                   /\ b = P!Snap(P!Ceiling(p, q), p.dz)
    BY <1>2, <2>1, FloorIsStage, CeilingIsStage, SnapIsNear
  <2>3. P!Rungs(p, q) \in SUBSET (a .. b)
    BY <2>2 DEF P!Rungs, P!Targets
  <2>4. IsFiniteSet(P!Rungs(p, q))
    BY <2>3, FS_Interval, FS_Subset
  <2>5. \A z \in P!Rungs(p, q) : z % p.dz = 0
    BY DEF P!Rungs, P!Targets
  <2>. QED BY <1>2, <2>3, <2>4, <2>5
<1>. QED BY <1>1, <1>2
\* The runs are totally ordered by how near they are to a stage.
LEMMA NearestIsInPool ==
    ASSUME NEW p, PlanArgs(p), NEW q, P!Pool(p, q) # {}, NEW z \in Int
    PROVE  P!Nearest(p, q, z) \in P!Pool(p, q)
<1>. USE DEF PlanArgs
<1>1. PICK pool : pool = P!Pool(p, q) /\ pool \in SUBSET p.runs
  BY DEF P!Pool
<1>2. pool \in SUBSET Runs /\ IsFiniteSet(pool)
  BY <1>1, FS_Subset
<1>. DEFINE R == {s \in pool \X pool : P!Before(s[1], s[2], z)}
<1>3. \A r \in pool : P!Distance(r, z) \in Int
  BY <1>2 DEF P!Distance, Runs
<1>4. ASSUME NEW r \in pool, NEW s \in pool, r # s
      PROVE  P!Before(r, s, z) \/ P!Before(s, r, z)
  <2>1. P!Distance(r, z) \in Int /\ P!Distance(s, z) \in Int
    BY <1>3
  <2>2. r.q \in Nat /\ s.q \in Nat /\ r.wse \in Int /\ s.wse \in Int
    BY <1>2 DEF Runs
  <2>3. CASE P!Distance(r, z) # P!Distance(s, z) \/ r.q # s.q
    BY <2>1, <2>2, <2>3 DEF P!Before
  <2>4. CASE P!Distance(r, z) = P!Distance(s, z) /\ r.q = s.q
    <3>1. CASE r.bc = None \/ s.bc = None
      <4>1. ~(r.bc = None /\ s.bc = None)
        BY <1>1, <1>4, <2>4
      <4>. QED BY <2>4, <3>1, <4>1 DEF P!Before
    <3>2. CASE r.bc # None /\ s.bc # None
      <4>1. r.bc \in Int /\ s.bc \in Int
        BY <1>2, <3>2 DEF Runs
      <4>2. r.wse # s.wse \/ r.bc # s.bc
        <5>1. r = [q |-> r.q, wse |-> r.wse, bc |-> r.bc] /\ s = [q |-> s.q, wse |-> s.wse, bc |-> s.bc]
          BY <1>2 DEF Runs
        <5>. QED BY <1>4, <2>4, <5>1
      <4>. QED BY <2>2, <2>4, <3>2, <4>1, <4>2 DEF P!Before
    <3>. QED BY <3>1, <3>2
  <2>. QED BY <2>3, <2>4
<1>5. ASSUME NEW r \in pool, NEW s \in pool, NEW t \in pool,
             P!Before(r, s, z), P!Before(s, t, z)
      PROVE  P!Before(r, t, z)
  <2>1. PICK dr \in Int, ds \in Int, dt \in Int :
            dr = P!Distance(r, z) /\ ds = P!Distance(s, z) /\ dt = P!Distance(t, z)
    BY <1>3
  <2>2. /\ r.q \in Nat /\ s.q \in Nat /\ t.q \in Nat
        /\ r.wse \in Int /\ s.wse \in Int /\ t.wse \in Int
        /\ r.bc = None \/ r.bc \in Int
        /\ s.bc = None \/ s.bc \in Int
        /\ t.bc = None \/ t.bc \in Int
    BY <1>2 DEF Runs
  <2>3. \/ dr < ds
        \/ /\ dr = ds
           /\ \/ r.q < s.q
              \/ r.q = s.q /\ s.bc # None /\ (r.bc = None \/ r.wse < s.wse)
              \/ r.q = s.q /\ s.bc # None /\ r.bc # None /\ r.wse = s.wse /\ r.bc < s.bc
    BY <1>5, <2>1 DEF P!Before
  <2>4. \/ ds < dt
        \/ /\ ds = dt
           /\ \/ s.q < t.q
              \/ s.q = t.q /\ t.bc # None /\ (s.bc = None \/ s.wse < t.wse)
              \/ s.q = t.q /\ t.bc # None /\ s.bc # None /\ s.wse = t.wse /\ s.bc < t.bc
    BY <1>5, <2>1 DEF P!Before
  <2>5. \/ dr < dt
        \/ /\ dr = dt
           /\ \/ r.q < t.q
              \/ r.q = t.q /\ t.bc # None /\ (r.bc = None \/ r.wse < t.wse)
              \/ r.q = t.q /\ t.bc # None /\ r.bc # None /\ r.wse = t.wse /\ r.bc < t.bc
    BY <2>1, <2>2, <2>3, <2>4
  <2>. QED BY <2>1, <2>5 DEF P!Before
<1>6. \E r \in pool : \A s \in pool \ {r} : <<r, s>> \in R
  <2>1. Orders(R, pool)
    <3>1. \A r, s \in pool : r # s => <<r, s>> \in R \/ <<s, r>> \in R
      BY <1>4
    <3>2. \A r, s, t \in pool : <<r, s>> \in R /\ <<s, t>> \in R => <<r, t>> \in R
      BY <1>5
    <3>. HIDE DEF R
    <3>. QED BY <3>1, <3>2 DEF Orders
  <2>2. pool # {}
    BY <1>1
  <2>. HIDE DEF R
  <2>. QED BY <1>2, <2>1, <2>2, FirstOfFinite
<1>7. \E r \in pool : \A s \in pool \ {r} : P!Before(r, s, z)
  BY <1>6
<1>. QED BY <1>1, <1>7 DEF P!Nearest

\* Every stage a downstream run attains between the floor and the ceiling of a
\* discharge has a rung of that discharge within half an increment (plan.py:140-163).
THEOREM RungsCover ==
    ASSUME NEW p, PlanArgs(p), NEW q \in Nat, NEW run \in P!Pool(p, q),
           P!Floor(p, q) <= run.wse, run.wse <= P!Ceiling(p, q)
    PROVE  \E z \in P!Rungs(p, q) : 2 * P!Distance(run, z) <= p.dz
<1>. USE DEF PlanArgs
<1>1. p.runs # {} /\ run \in p.runs /\ P!Pool(p, q) # {}
  BY DEF P!Pool
<1>2. PICK wse \in Int : wse = run.wse
  BY <1>1 DEF Runs
<1>3. P!Floor(p, q) \in Int /\ P!Ceiling(p, q) \in Int
  BY <1>1, FloorIsStage, CeilingIsStage
<1>4. PICK a \in Int, b \in Int, z \in Int :
          /\ a = P!Snap(P!Floor(p, q), p.dz)
          /\ b = P!Snap(P!Ceiling(p, q), p.dz)
          /\ z = P!Snap(wse, p.dz) /\ z % p.dz = 0 /\ 2 * Apart(wse, z) <= p.dz
  BY <1>3, SnapIsNear
<1>5. a <= z /\ z <= b
  BY <1>2, <1>3, <1>4, SnapKeepsOrder
<1>6. 2 * P!Distance(run, z) <= p.dz
  BY <1>2, <1>4 DEF P!Distance, Apart
<1>7. z \in P!Rungs(p, q)
  BY <1>4, <1>5, <1>6 DEF P!Rungs, P!Targets
<1>. QED BY <1>6, <1>7
-----------------------------------------------------------------------------
(* Chains *)

Rises(s) == \A i, j \in DOMAIN s : i < j => s[i] < s[j]

LEMMA CanBeSorted ==
    ASSUME NEW S \in SUBSET Int, IsFiniteSet(S)
    PROVE  \E s \in [1 .. Cardinality(S) -> S] : Rises(s)
<1>. DEFINE Good == {T \in SUBSET S : \E s \in [1 .. Cardinality(T) -> T] : Rises(s)}
<1>1. ASSUME NEW T \in SUBSET S, \A x \in T : T \ {x} \in Good
      PROVE  T \in Good
  <2>1. T \in SUBSET Int /\ IsFiniteSet(T) /\ Cardinality(T) \in Nat
    BY FS_Subset, FS_CardinalityType
  <2>2. CASE T = {}
    <3>1. Cardinality(T) = 0
      BY <2>2, FS_EmptySet
    <3>. DEFINE none == [i \in 1 .. 0 |-> 0]
    <3>2. none \in [1 .. 0 -> T] /\ Rises(none)
      BY DEF Rises
    <3>. QED BY <3>1, <3>2
  <2>3. CASE T # {}
    <3>1. PICK last : last = Max(T) /\ last \in T /\ \A y \in T : y <= last
      BY <2>1, <2>3, MaxOfFinite
    <3>2. PICK n \in Nat : n = Cardinality(T) - 1 /\ n = Cardinality(T \ {last})
      <4>1. Cardinality(T \ {last}) = Cardinality(T) - 1 /\ IsFiniteSet(T \ {last})
        BY <2>1, <3>1, FS_RemoveElement
      <4>2. Cardinality(T \ {last}) \in Nat
        BY <4>1, FS_CardinalityType
      <4>. QED BY <4>1, <4>2
    <3>3. PICK s \in [1 .. n -> T \ {last}] : Rises(s)
      BY <1>1, <3>1, <3>2
    <3>. DEFINE more == [i \in 1 .. (n + 1) |-> IF i = n + 1 THEN last ELSE s[i]]
    <3>4. more \in [1 .. (n + 1) -> T]
      BY <3>1, <3>3
    <3>5. Rises(more)
      <4>1. SUFFICES ASSUME NEW i \in 1 .. (n + 1), NEW j \in 1 .. (n + 1), i < j
                     PROVE  more[i] < more[j]
        BY DEF Rises
      <4>2. i \in 1 .. n /\ s[i] \in T \ {last}
        BY <3>3, <4>1
      <4>3. CASE j = n + 1
        <5>1. more[i] = s[i] /\ more[j] = last
          BY <4>2, <4>3
        <5>2. PICK x \in Int : x = s[i] /\ x <= last /\ x # last
          BY <2>1, <3>1, <4>2
        <5>3. last \in Int
          BY <2>1, <3>1
        <5>. QED BY <5>1, <5>2, <5>3
      <4>4. CASE j # n + 1
        <5>1. j \in 1 .. n /\ more[i] = s[i] /\ more[j] = s[j]
          BY <4>2, <4>4
        <5>2. s[i] < s[j]
          <6>1. i \in DOMAIN s /\ j \in DOMAIN s
            BY <3>3, <4>2, <5>1
          <6>. QED BY <3>3, <4>1, <6>1 DEF Rises
        <5>. QED BY <5>1, <5>2
      <4>. QED BY <4>3, <4>4
    <3>6. n + 1 = Cardinality(T)
      BY <2>1, <3>2
    <3>. QED BY <3>4, <3>5, <3>6
  <2>. QED BY <2>2, <2>3
<1>2. GrowsWith(S, Good)
  BY <1>1 DEF GrowsWith
<1>3. SUBSET S \subseteq Good
  BY <1>2, SubsetInduction
<1>. QED BY <1>3

\* sorted() lists every element once, from the lowest up.
LEMMA AscendingIsSorted ==
    ASSUME NEW S \in SUBSET Int, IsFiniteSet(S)
    PROVE  \E n \in Nat : /\ Ascending(S) \in [1 .. n -> S]
                          /\ Rises(Ascending(S))
                          /\ \A x \in S : \E i \in 1 .. n : Ascending(S)[i] = x
                          /\ S # {} => n > 0
<1>1. PICK n \in Nat : n = Cardinality(S)
  BY FS_CardinalityType
<1>2. \E s \in [1 .. n -> S] : \A i, j \in DOMAIN s : i < j => s[i] < s[j]
  BY <1>1, CanBeSorted DEF Rises
<1>3. Ascending(S) = CHOOSE s \in [1 .. n -> S] : \A i, j \in DOMAIN s : i < j => s[i] < s[j]
  BY <1>1 DEF Ascending
<1>4. PICK s : s = Ascending(S) /\ s \in [1 .. n -> S] /\ \A i, j \in DOMAIN s : i < j => s[i] < s[j]
  BY <1>2, <1>3
<1>5. s \in Injection(1 .. n, S)
  <2>1. \A i, j \in 1 .. n : i # j => s[i] # s[j]
    <3>1. SUFFICES ASSUME NEW i \in 1 .. n, NEW j \in 1 .. n, i # j PROVE s[i] # s[j]
      OBVIOUS
    <3>2. s[i] \in Int /\ s[j] \in Int /\ DOMAIN s = 1 .. n
      BY <1>4
    <3>3. i < j \/ j < i
      BY <3>1
    <3>. QED BY <1>4, <3>2, <3>3
  <2>. QED BY <1>4, <2>1 DEF Injection, IsInjective
<1>6. s \in Surjection(1 .. n, S)
  <2>1. IsFiniteSet(1 .. n) /\ Cardinality(1 .. n) = n
    BY FS_Interval
  <2>. QED BY <1>1, <1>5, <2>1, FS_Injection
<1>7. \A x \in S : \E i \in 1 .. n : s[i] = x
  BY <1>6 DEF Surjection
<1>8. ASSUME S # {} PROVE n > 0
  <2>1. PICK x \in S : TRUE
    BY <1>8
  <2>2. PICK i \in 1 .. n : s[i] = x
    BY <1>7, <2>1
  <2>. QED BY <2>2
<1>9. Rises(s)
  BY <1>4 DEF Rises
<1>. QED BY <1>4, <1>7, <1>8, <1>9
-----------------------------------------------------------------------------
(* The inductive invariant *)

\* nominal_wse returns a stage.
RaisedIsStage == \A wse, z \in Int : Raised(wse, z) \in Int

Typed ==
    /\ reading \in Worlds
    /\ edits \in 0 .. MaxEdits
    /\ want \in [Reaches -> UNION {Intents[r] : r \in Reaches}]
    /\ moved \in [Reaches -> BOOLEAN] /\ asked \in [Reaches -> BOOLEAN]
    /\ stored \in [Reaches -> SUBSET Nat] /\ bare \in [Reaches -> SUBSET Nat]
    /\ sweeping \in [Reaches -> SUBSET Nat]
    /\ made \in [Reaches -> SUBSET (Nat \X Int)]
    /\ chains \in [Reaches -> SUBSET Seq(Scenarios)]
    /\ marker \in [Reaches -> {None, "run_nd", "run_kwse"}]
    /\ nd \in [Reaches -> {None} \union NdRow]
    /\ kw \in [Reaches -> {None} \union SUBSET StageRun]

\* What is in storage is on the grid, and what is staged is in storage.
StorageHolds(r) ==
    /\ want[r] \in Intents[r]
    /\ stored[r] \in SUBSET OnGrid[r]
    /\ bare[r] \in SUBSET (OnGrid[r] \ stored[r])
    /\ sweeping[r] \in SUBSET OnGrid[r]
    /\ \A s \in made[r] : s[1] \in stored[r] /\ \E w \in Intents[r] : s[2] % w.dz = 0

\* A row names what adoption takes of a part of what is in storage.
RowHolds(r) ==
    nd[r] # None =>
        /\ nd[r].qs = Adopted(nd[r].curve, reading[r]) /\ nd[r].qs # None
        /\ nd[r].curve \in SUBSET stored[r] /\ nd[r].curve # {}
        /\ nd[r].qs \in SUBSET nd[r].curve

\* A stage library is the library of a normal-depth row, and is in storage.
StagesHold(r) ==
    kw[r] # None =>
        /\ Below[r] # None /\ nd[r] # None
        /\ IsFiniteSet(kw[r])
        /\ \A s \in kw[r] : <<s.q, s.bc>> \in made[r]

\* The seed of a scenario is published or is what its chain runs just before,
\* and its boundary is published.
SeedHolds(r, c, i) ==
    \/ c[i].seed = None
    \/ <<c[i].q, c[i].seed>> \in made[r]
    \/ i > 1 /\ c[i - 1].q = c[i].q /\ c[i - 1].z = c[i].seed
BoundaryHolds(r, s) ==
    IF s.dsBc = None THEN s.dsQ \in stored[Below[r]] ELSE <<s.dsQ, s.dsBc>> \in made[Below[r]]
ChainHolds(r, c) ==
    /\ c # <<>> /\ Below[r] # None
    /\ \A i \in DOMAIN c :
          /\ c[i].q \in stored[r] /\ \E w \in Intents[r] : c[i].z % w.dz = 0
          /\ SeedHolds(r, c, i) /\ BoundaryHolds(r, c[i])

\* A stage library no check is due for is the one planned from the rows as they
\* stand.
StagesOf(r, p) ==
    {[q |-> s[1], bc |-> s[2], wse |-> Raised(reading[r][s[1]].wse, s[2])] : s \in P!Plan(p)}
Settled(r) ==
    /\ kw[r] # None /\ ~asked[r] /\ ~moved[r] /\ ~moved[Below[r]]
    /\ nd[Below[r]] # None /\ nd[Below[r]].qs = nd[Below[r]].curve
PlanHolds(r) == Settled(r) => kw[r] = StagesOf(r, PlanInputs(r, nd[r]))

ReachHolds(r) ==
    /\ StorageHolds(r) /\ RowHolds(r) /\ StagesHold(r) /\ PlanHolds(r)
    /\ \A c \in chains[r] : ChainHolds(r, c)

IInv == Typed /\ \A r \in Reaches : ReachHolds(r)
-----------------------------------------------------------------------------
(* What a check observes *)

LEMMA StorageIsMeasured ==
    ASSUME Typed, NEW r \in Reaches, NEW qs \in SUBSET OnGrid[r]
    PROVE  /\ qs \in SUBSET Int /\ IsFiniteSet(qs) /\ qs # None /\ Measured(qs, reading[r])
           /\ \A q \in qs : reading[r][q].wse \in Int
<1>1. IsFiniteSet(qs)
  BY IntentAssumption, FS_Subset
<1>2. qs \in SUBSET Int /\ qs # None
  BY IntentAssumption, NoneIsNothing
<1>3. \A q \in OnGrid[r] : \A key \in {"wse", "depth", "median", "area"} : reading[r][q][key] \in Int
  BY ReadingAssumption DEF Typed
<1>. QED BY <1>1, <1>2, <1>3 DEF Measured

\* The row a check writes is made of what is in storage.
LEMMA ObservedRowHolds ==
    ASSUME Typed, NEW r \in Reaches, StorageHolds(r), NdObserved(r) # None
    PROVE  /\ NdObserved(r) \in NdRow
           /\ NdObserved(r).curve = stored[r] /\ stored[r] # {}
           /\ NdObserved(r).qs = Adopted(stored[r], reading[r]) /\ NdObserved(r).qs # None
           /\ NdObserved(r).qs \in SUBSET stored[r]
<1>1. PICK qs : qs = Adopted(stored[r], reading[r])
  OBVIOUS
<1>2. NdObserved(r) = [qs |-> qs, curve |-> stored[r]] /\ qs # None /\ stored[r] # {}
  BY <1>1 DEF NdObserved, Spans
<1>3. stored[r] \in SUBSET OnGrid[r]
  BY DEF StorageHolds
<1>4. qs \in SUBSET stored[r]
  <2>1. AdoptsTheCheapest(stored[r], reading[r])
    BY <1>2, <1>3, StorageIsMeasured, AdoptionIsCheapest
  <2>. QED BY <1>1, <1>2, <2>1 DEF AdoptsTheCheapest
<1>5. stored[r] \in SUBSET Nat
  BY DEF Typed
<1>. QED BY <1>1, <1>2, <1>4, <1>5 DEF NdRow

\* What the planner is given, when it is called, is what it expects.
LEMMA PlanInputsHold ==
    ASSUME Typed, NEW r \in Reaches, \A s \in Reaches : StorageHolds(s) /\ RowHolds(s) /\ StagesHold(s),
           NEW own \in NdRow, Plannable(r, own)
    PROVE  /\ PlanArgs(PlanInputs(r, own))
           /\ PlanInputs(r, own).qs = own.qs /\ PlanInputs(r, own).dz = want[r].dz
           /\ PlanInputs(r, own).runs = RunsOf(Below[r])
<1>1. PICK d \in Reaches : d = Below[r] /\ nd[d] # None
  BY NetworkAssumption DEF Plannable
<1>2. PICK curve : curve = nd[d].curve /\ curve \in SUBSET OnGrid[d] /\ curve \in SUBSET Nat
  BY <1>1 DEF StorageHolds, RowHolds, Typed
<1>3. IsFiniteSet(curve) /\ \A q \in curve : reading[d][q].wse \in Int
  BY <1>2, StorageIsMeasured
<1>. DEFINE Run(q) == [q |-> q, wse |-> reading[d][q].wse, bc |-> None]
            swept == {Run(q) : q \in curve}
            staged == IF kw[d] = None THEN {} ELSE kw[d]
<1>4. swept \in SUBSET Runs /\ IsFiniteSet(swept)
  <2>. DEFINE f == [q \in curve |-> Run(q)]
  <2>1. IsFiniteSet({f[q] : q \in curve})
    <3>. HIDE DEF f
    <3>. QED BY <1>3, ImageIsFinite
  <2>2. {f[q] : q \in curve} = swept
    OBVIOUS
  <2>3. swept \in SUBSET Runs
    BY <1>2, <1>3 DEF Runs
  <2>. QED BY <2>1, <2>2, <2>3
<1>5. staged \in SUBSET Runs /\ IsFiniteSet(staged) /\ \A s \in staged : s.bc # None
  <2>1. CASE kw[d] = None
    BY <2>1, FS_EmptySet
  <2>2. CASE kw[d] # None
    <3>1. kw[d] \in SUBSET StageRun /\ IsFiniteSet(kw[d])
      BY <2>2 DEF StagesHold, Typed
    <3>2. StageRun \subseteq Runs /\ \A s \in StageRun : s.bc # None
      BY NoneIsNothing DEF StageRun, Runs
    <3>. QED BY <2>2, <3>1, <3>2
  <2>. QED BY <2>1, <2>2
<1>6. RunsOf(d) = swept \union staged
  BY <1>1, <1>2 DEF RunsOf
<1>7. PICK p : p = PlanInputs(r, own)
  OBVIOUS
<1>8. /\ p.qs = own.qs /\ p.dz = want[r].dz /\ p.top = want[r].top /\ p.runs = swept \union staged
  BY <1>1, <1>6, <1>7 DEF PlanInputs
<1>9. p.qs \in SUBSET Nat
  BY <1>8 DEF NdRow
<1>10. p.dz \in Nat \ {0} /\ (p.top = None \/ p.top \in Int)
  BY <1>8, IntentAssumption DEF StorageHolds
<1>11. p.runs \in SUBSET Runs /\ IsFiniteSet(p.runs)
  <2>. HIDE DEF swept, staged
  <2>1. IsFiniteSet(swept \union staged)
    BY <1>4, <1>5, FS_Union
  <2>. QED BY <1>4, <1>5, <1>8, <2>1
<1>12. \A s, t \in p.runs : s.q = t.q /\ s.bc = None /\ t.bc = None => s = t
  <2>1. ASSUME NEW s \in p.runs, s.bc = None PROVE s = Run(s.q)
    <3>1. s \in swept
      BY <1>5, <1>8, <2>1
    <3>. QED BY <3>1
  <2>. HIDE DEF swept, staged
  <2>. QED BY <2>1
<1>13. PlanArgs(p)
  BY <1>9, <1>10, <1>11, <1>12 DEF PlanArgs
<1>. QED BY <1>1, <1>6, <1>7, <1>8, <1>13
LEMMA PairsAreFinite ==
    ASSUME NEW q, NEW Z, IsFiniteSet(Z)
    PROVE  IsFiniteSet({<<q, z>> : z \in Z})
<1>. DEFINE g == [z \in Z |-> <<q, z>>]
<1>1. IsFiniteSet({g[z] : z \in Z})
  <2>. HIDE DEF g
  <2>. QED BY ImageIsFinite
<1>2. {g[z] : z \in Z} = {<<q, z>> : z \in Z}
  OBVIOUS
<1>. QED BY <1>1, <1>2

\* The planned addresses are finitely many.
LEMMA PlanIsFinite ==
    ASSUME NEW p, PlanArgs(p), IsFiniteSet(p.qs)
    PROVE  /\ IsFiniteSet(P!Plan(p))
           /\ \A s \in P!Plan(p) : /\ s = <<s[1], s[2]>> /\ s[1] \in p.qs /\ s[1] \in Nat
                                   /\ s[2] \in Int /\ s[2] % p.dz = 0
                                   /\ s[2] \in P!Rungs(p, s[1])
<1>. USE DEF PlanArgs
<1>1. \A q \in p.qs : /\ IsFiniteSet(P!Rungs(p, q)) /\ P!Rungs(p, q) \in SUBSET Int
                      /\ \A z \in P!Rungs(p, q) : z % p.dz = 0
  BY RungsAreStages
<1>. DEFINE f == [q \in p.qs |-> {<<q, z>> : z \in P!Rungs(p, q)}]
            parts == {f[q] : q \in p.qs}
<1>2. ASSUME NEW part \in parts PROVE IsFiniteSet(part)
  <2>1. PICK q \in p.qs : part = {<<q, z>> : z \in P!Rungs(p, q)}
    OBVIOUS
  <2>2. IsFiniteSet(P!Rungs(p, q))
    BY <1>1
  <2>. QED BY <2>1, <2>2, PairsAreFinite
<1>3. IsFiniteSet(parts)
  <2>. HIDE DEF f
  <2>. QED BY ImageIsFinite
<1>5. P!Plan(p) = UNION parts
  <2>1. parts = {{<<q, z>> : z \in P!Rungs(p, q)} : q \in p.qs}
    OBVIOUS
  <2>. QED BY <2>1 DEF P!Plan
<1>6. IsFiniteSet(P!Plan(p))
  <2>. HIDE DEF parts
  <2>. QED BY <1>2, <1>3, <1>5, FS_UNION
<1>7. ASSUME NEW s \in P!Plan(p)
      PROVE  /\ s = <<s[1], s[2]>> /\ s[1] \in p.qs /\ s[1] \in Nat
             /\ s[2] \in Int /\ s[2] % p.dz = 0 /\ s[2] \in P!Rungs(p, s[1])
  <2>1. PICK q \in p.qs : s \in {<<q, z>> : z \in P!Rungs(p, q)}
    BY DEF P!Plan
  <2>2. PICK z \in P!Rungs(p, q) : s = <<q, z>>
    BY <2>1
  <2>. QED BY <1>1, <2>2
<1>. QED BY <1>6, <1>7

LEMMA StagesAreRuns ==
    ASSUME RaisedIsStage, Typed, NEW r \in Reaches, NEW p, PlanArgs(p), p.qs \in SUBSET OnGrid[r]
    PROVE  /\ StagesOf(r, p) \in SUBSET StageRun /\ IsFiniteSet(StagesOf(r, p))
           /\ \A s \in StagesOf(r, p) : <<s.q, s.bc>> \in P!Plan(p)
<1>1. IsFiniteSet(p.qs) /\ \A q \in p.qs : reading[r][q].wse \in Int
  BY StorageIsMeasured
<1>2. /\ IsFiniteSet(P!Plan(p))
      /\ \A s \in P!Plan(p) : /\ s = <<s[1], s[2]>> /\ s[1] \in p.qs /\ s[1] \in Nat
                              /\ s[2] \in Int
  BY <1>1, PlanIsFinite
<1>. DEFINE Run(s) == [q |-> s[1], bc |-> s[2], wse |-> Raised(reading[r][s[1]].wse, s[2])]
            f == [s \in P!Plan(p) |-> Run(s)]
<1>3. ASSUME NEW s \in P!Plan(p)
      PROVE  Run(s) \in StageRun /\ <<Run(s).q, Run(s).bc>> \in P!Plan(p)
  <2>1. Raised(reading[r][s[1]].wse, s[2]) \in Int
    BY <1>1, <1>2 DEF RaisedIsStage
  <2>. QED BY <1>2, <2>1 DEF StageRun
<1>4. StagesOf(r, p) = {Run(s) : s \in P!Plan(p)}
  BY DEF StagesOf
<1>5. IsFiniteSet(StagesOf(r, p))
  <2>1. IsFiniteSet({f[s] : s \in P!Plan(p)})
    <3>. HIDE DEF f
    <3>. QED BY <1>2, ImageIsFinite
  <2>2. {f[s] : s \in P!Plan(p)} = {Run(s) : s \in P!Plan(p)}
    OBVIOUS
  <2>. QED BY <1>4, <2>1, <2>2
<1>. HIDE DEF Run
<1>. QED BY <1>3, <1>4, <1>5

\* The stage row a check writes is the planned library, all of it in storage.
LEMMA ObservedStagesHold ==
    ASSUME RaisedIsStage, Typed, NEW r \in Reaches,
           \A s \in Reaches : StorageHolds(s) /\ RowHolds(s) /\ StagesHold(s),
           NEW own, own # None => own \in NdRow /\ own.qs \in SUBSET stored[r],
           KwObserved(r, own) # None
    PROVE  /\ Plannable(r, own)
           /\ KwObserved(r, own) = StagesOf(r, PlanInputs(r, own))
           /\ KwObserved(r, own) \in SUBSET StageRun /\ IsFiniteSet(KwObserved(r, own))
           /\ \A s \in KwObserved(r, own) : <<s.q, s.bc>> \in made[r]
<1>1. PICK p : p = PlanInputs(r, own)
  OBVIOUS
<1>2. /\ Plannable(r, own) /\ P!Plan(p) \subseteq made[r]
      /\ KwObserved(r, own) = StagesOf(r, p)
  BY <1>1 DEF KwObserved, StagesOf
<1>3. own \in NdRow /\ own.qs \in SUBSET stored[r]
  BY <1>2 DEF Plannable
<1>4. PlanArgs(p) /\ p.qs = own.qs
  BY <1>1, <1>2, <1>3, PlanInputsHold
<1>5. p.qs \in SUBSET OnGrid[r]
  BY <1>3, <1>4 DEF StorageHolds
<1>6. /\ StagesOf(r, p) \in SUBSET StageRun /\ IsFiniteSet(StagesOf(r, p))
      /\ \A s \in StagesOf(r, p) : <<s.q, s.bc>> \in P!Plan(p)
  BY <1>4, <1>5, StagesAreRuns
<1>. QED BY <1>1, <1>2, <1>6
-----------------------------------------------------------------------------
(* What a check hands out *)

\* The seed of a rung is the rung just below it, if there is one.
LEMMA SeedIsRungBelow ==
    ASSUME NEW p, PlanArgs(p), NEW q \in Nat, NEW z \in P!Rungs(p, q)
    PROVE  \/ P!Seed(p, q, z) = None
           \/ /\ P!Seed(p, q, z) \in P!Rungs(p, q) /\ P!Seed(p, q, z) < z
              /\ \A y \in P!Rungs(p, q) : y < z => y <= P!Seed(p, q, z)
<1>1. P!Rungs(p, q) \in SUBSET Int /\ IsFiniteSet(P!Rungs(p, q))
  BY RungsAreStages
<1>2. PICK lower : lower = {y \in P!Rungs(p, q) : y < z} /\ lower \in SUBSET P!Rungs(p, q)
  OBVIOUS
<1>3. P!Seed(p, q, z) = IF lower = {} THEN None ELSE P!Max(lower)
  BY <1>2 DEF P!Seed
<1>4. CASE lower = {}
  BY <1>3, <1>4
<1>5. CASE lower # {}
  <2>1. IsFiniteSet(lower) /\ lower \in SUBSET Int
    BY <1>1, <1>2, FS_Subset
  <2>2. Max(lower) \in lower /\ \A y \in lower : y <= Max(lower)
    BY <1>5, <2>1, MaxOfFinite
  <2>3. P!Seed(p, q, z) = Max(lower)
    BY <1>3, <1>5, PlannerExtremes
  <2>. QED BY <1>2, <2>2, <2>3
<1>. QED BY <1>4, <1>5

\* A scenario is well formed, and the run that sets its boundary is one that is there.
LEMMA ScenarioHolds ==
    ASSUME NEW p, PlanArgs(p), NEW q \in Nat, NEW z \in P!Rungs(p, q)
    PROVE  /\ P!Scenario(p, q, z) \in Scenarios
           /\ P!Scenario(p, q, z).q = q /\ P!Scenario(p, q, z).z = z
           /\ P!Scenario(p, q, z).seed = P!Seed(p, q, z)
           /\ \E run \in p.runs : /\ P!Scenario(p, q, z).dsQ = run.q
                                  /\ P!Scenario(p, q, z).dsBc = run.bc
<1>1. z \in Int /\ P!Pool(p, q) # {} /\ P!Rungs(p, q) \in SUBSET Int
  BY RungsAreStages
<1>2. PICK run : run = P!Nearest(p, q, z) /\ run \in P!Pool(p, q)
  BY <1>1, NearestIsInPool
<1>3. run \in p.runs /\ run \in Runs
  BY <1>2 DEF P!Pool, PlanArgs
<1>4. P!Seed(p, q, z) \in Int \union {None}
  BY <1>1, SeedIsRungBelow
<1>5. P!Scenario(p, q, z) =
          [q |-> q, z |-> z, seed |-> P!Seed(p, q, z), dsQ |-> run.q, dsBc |-> run.bc]
  BY <1>2 DEF P!Scenario
<1>6. run.q \in Nat /\ run.bc \in Int \union {None}
  BY <1>3 DEF Runs
<1>. QED BY <1>1, <1>3, <1>4, <1>5, <1>6 DEF Scenarios

LEMMA RunsAreThere ==
    ASSUME Typed, NEW d \in Reaches, RowHolds(d), StagesHold(d), nd[d] # None,
           NEW run \in RunsOf(d)
    PROVE  IF run.bc = None THEN run.q \in stored[d] ELSE <<run.q, run.bc>> \in made[d]
<1>1. CASE \E q \in nd[d].curve : run = [q |-> q, wse |-> reading[d][q].wse, bc |-> None]
  BY <1>1 DEF RowHolds
<1>2. CASE kw[d] # None /\ run \in kw[d]
  <2>1. run.bc # None
    BY <1>2, NoneIsNothing DEF Typed, StageRun
  <2>. QED BY <1>2, <2>1 DEF StagesHold
<1>. QED BY <1>1, <1>2 DEF RunsOf

LEMMA ChainIsSound ==
    ASSUME Typed, NEW r \in Reaches,
           \A s \in Reaches : StorageHolds(s) /\ RowHolds(s) /\ StagesHold(s),
           NEW own \in NdRow, own.qs \in SUBSET stored[r], Plannable(r, own),
           NEW q \in own.qs,
           NEW c, c = Chain(r, PlanInputs(r, own), q), c # <<>>
    PROVE  c \in Seq(Scenarios) /\ ChainHolds(r, c)
<1>1. PICK p : p = PlanInputs(r, own)
  OBVIOUS
<1>2. /\ PlanArgs(p) /\ p.qs = own.qs /\ p.dz = want[r].dz /\ p.runs = RunsOf(Below[r])
  BY <1>1, PlanInputsHold
<1>3. q \in Nat /\ q \in stored[r] /\ Below[r] # None /\ Below[r] \in Reaches /\ nd[Below[r]] # None
  BY NetworkAssumption DEF NdRow, Plannable
<1>4. PICK rungs : rungs = {z \in P!Rungs(p, q) : <<q, z>> \notin made[r]} /\ rungs \in SUBSET P!Rungs(p, q)
  OBVIOUS
<1>5. /\ P!Rungs(p, q) \in SUBSET Int /\ IsFiniteSet(P!Rungs(p, q))
      /\ \A z \in P!Rungs(p, q) : z % p.dz = 0
  BY <1>2, <1>3, RungsAreStages
<1>6. rungs \in SUBSET Int /\ IsFiniteSet(rungs)
  BY <1>4, <1>5, FS_Subset
<1>. DEFINE zs == Ascending(rungs)
<1>7. PICK n \in Nat :
          /\ zs \in [1 .. n -> rungs] /\ Rises(zs)
          /\ \A z \in rungs : \E i \in 1 .. n : zs[i] = z
  BY <1>6, AscendingIsSorted
<1>8. c = [i \in 1 .. n |-> P!Scenario(p, q, zs[i])]
  <2>1. c = [i \in DOMAIN zs |-> P!Scenario(p, q, zs[i])]
    BY <1>1, <1>4 DEF Chain
  <2>. QED BY <1>7, <2>1
<1>. HIDE DEF zs
<1>9. ASSUME NEW i \in 1 .. n
      PROVE  /\ zs[i] \in P!Rungs(p, q) /\ c[i] \in Scenarios
             /\ c[i].q = q /\ c[i].z = zs[i] /\ c[i].seed = P!Seed(p, q, zs[i])
             /\ \E run \in p.runs : c[i].dsQ = run.q /\ c[i].dsBc = run.bc
  <2>1. zs[i] \in P!Rungs(p, q) /\ c[i] = P!Scenario(p, q, zs[i])
    BY <1>4, <1>7, <1>8
  <2>. QED BY <1>2, <1>3, <2>1, ScenarioHolds
<1>10. c \in Seq(Scenarios) /\ DOMAIN c = 1 .. n
  BY <1>8, <1>9
<1>11. ASSUME NEW i \in 1 .. n PROVE BoundaryHolds(r, c[i])
  <2>1. PICK run \in p.runs : c[i].dsQ = run.q /\ c[i].dsBc = run.bc
    BY <1>9
  <2>2. run \in RunsOf(Below[r])
    BY <1>2
  <2>. QED BY <1>3, <2>1, <2>2, RunsAreThere DEF BoundaryHolds
<1>12. ASSUME NEW i \in 1 .. n PROVE SeedHolds(r, c, i)
  <2>1. PICK z, seed : z = zs[i] /\ z \in P!Rungs(p, q) /\ seed = c[i].seed /\ seed = P!Seed(p, q, z)
    BY <1>9
  <2>2. CASE seed = None
    BY <2>1, <2>2 DEF SeedHolds
  <2>3. CASE seed # None /\ <<q, seed>> \in made[r]
    BY <1>9, <2>1, <2>3 DEF SeedHolds
  <2>4. CASE seed # None /\ <<q, seed>> \notin made[r]
    <3>1. /\ seed \in P!Rungs(p, q) /\ seed < z
          /\ \A y \in P!Rungs(p, q) : y < z => y <= seed
      BY <1>2, <1>3, <2>1, <2>4, SeedIsRungBelow
    <3>2. PICK j \in 1 .. n : zs[j] = seed
      BY <1>4, <1>7, <2>4, <3>1
    <3>3. \A a, b \in 1 .. n : a < b => zs[a] < zs[b]
      BY <1>7 DEF Rises
    <3>4. \A a \in 1 .. n : zs[a] \in Int /\ zs[a] \in P!Rungs(p, q)
      BY <1>5, <1>9
    <3>5. j < i
      <4>1. SUFFICES ASSUME j >= i PROVE FALSE
        OBVIOUS
      <4>2. i = j \/ i < j
        BY <4>1
      <4>3. z <= seed /\ z \in Int /\ seed \in Int
        BY <2>1, <3>2, <3>3, <3>4, <4>2
      <4>. QED BY <3>1, <4>3
    <3>6. i - 1 \in 1 .. n /\ i > 1 /\ j <= i - 1
      BY <3>5
    <3>7. zs[i - 1] < z /\ zs[i - 1] <= seed
      BY <2>1, <3>1, <3>3, <3>4, <3>6
    <3>8. j = i - 1
      <4>1. SUFFICES ASSUME j < i - 1 PROVE FALSE
        BY <3>6
      <4>2. seed < zs[i - 1] /\ seed \in Int /\ zs[i - 1] \in Int
        BY <3>2, <3>3, <3>4, <3>6, <4>1
      <4>. QED BY <3>7, <4>2
    <3>9. c[i - 1].q = c[i].q /\ c[i - 1].z = seed
      BY <1>9, <3>2, <3>6, <3>8
    <3>. QED BY <2>1, <3>6, <3>9 DEF SeedHolds
  <2>. QED BY <2>2, <2>3, <2>4
<1>13. ASSUME NEW i \in 1 .. n
       PROVE  c[i].q \in stored[r] /\ \E w \in Intents[r] : c[i].z % w.dz = 0
  <2>1. want[r] \in Intents[r]
    BY DEF StorageHolds
  <2>. QED BY <1>2, <1>3, <1>5, <1>9, <2>1
<1>. QED BY <1>3, <1>10, <1>11, <1>12, <1>13 DEF ChainHolds
-----------------------------------------------------------------------------
(* What lasts while storage grows *)

Grows ==
    /\ reading' = reading
    /\ \A s \in Reaches : stored[s] \subseteq stored'[s] /\ made[s] \subseteq made'[s]

LEMMA RowLasts ==
    ASSUME Grows, NEW r \in Reaches, RowHolds(r), nd'[r] = nd[r]
    PROVE  RowHolds(r)'
BY DEF Grows, RowHolds

LEMMA StagesLast ==
    ASSUME Grows, NEW r \in Reaches, StagesHold(r), nd'[r] = nd[r], kw'[r] = kw[r]
    PROVE  StagesHold(r)'
BY DEF Grows, StagesHold

LEMMA ChainLasts ==
    ASSUME Grows, NEW r \in Reaches, NEW c, ChainHolds(r, c)
    PROVE  ChainHolds(r, c)'
<1>1. Below[r] # None /\ Below[r] \in Reaches
  BY NetworkAssumption DEF ChainHolds
<1>2. ASSUME NEW i \in DOMAIN c PROVE SeedHolds(r, c, i)' /\ BoundaryHolds(r, c[i])'
  <2>1. SeedHolds(r, c, i) /\ BoundaryHolds(r, c[i])
    BY DEF ChainHolds
  <2>2. SeedHolds(r, c, i)'
    BY <2>1 DEF Grows, SeedHolds
  <2>3. BoundaryHolds(r, c[i])'
    BY <1>1, <2>1 DEF Grows, BoundaryHolds
  <2>. QED BY <2>2, <2>3
<1>. QED BY <1>2 DEF Grows, ChainHolds

LEMMA PlanLasts ==
    ASSUME NEW r \in Reaches, PlanHolds(r), reading' = reading, nd'[r] = nd[r], kw'[r] = kw[r],
           nd'[Below[r]] = nd[Below[r]], kw'[Below[r]] = kw[Below[r]],
           Settled(r)' => /\ Settled(r)
                          /\ want'[r] = want[r] /\ want'[Below[r]] = want[Below[r]]
    PROVE  PlanHolds(r)'
<1>1. SUFFICES ASSUME Settled(r)'
               PROVE  kw'[r] = StagesOf(r, PlanInputs(r, nd[r]))'
  BY DEF PlanHolds
<1>2. kw[r] = StagesOf(r, PlanInputs(r, nd[r]))
  BY <1>1 DEF PlanHolds
<1>3. PlanInputs(r, nd[r])' = PlanInputs(r, nd[r])
  BY <1>1 DEF PlanInputs, RunsOf, Others
<1>4. StagesOf(r, PlanInputs(r, nd[r]))' = StagesOf(r, PlanInputs(r, nd[r]))
  BY <1>3 DEF StagesOf
<1>. QED BY <1>2, <1>4

-----------------------------------------------------------------------------
(* Every step keeps the invariant *)

LEMMA InitHolds == Init => IInv
<1>. SUFFICES ASSUME Init PROVE IInv
  OBVIOUS
<1>1. Typed
  BY NetworkAssumption DEF Init, Typed
<1>2. ASSUME NEW r \in Reaches PROVE ReachHolds(r)
  <2>1. /\ stored[r] = {} /\ bare[r] = {} /\ sweeping[r] = {} /\ made[r] = {} /\ chains[r] = {}
        /\ nd[r] = None /\ kw[r] = None /\ want[r] \in Intents[r]
    BY DEF Init
  <2>. QED BY <2>1 DEF ReachHolds, StorageHolds, RowHolds, StagesHold, PlanHolds, Settled
<1>. QED BY <1>1, <1>2 DEF IInv

\* Steps that leave the rows, the intent and the readings alone.
LEMMA WorkHolds ==
    ASSUME IInv, Grows, UNCHANGED rows, UNCHANGED <<want, moved>>,
           \A s \in Reaches : asked[s] => asked'[s],
           NEW r \in Reaches, StorageHolds(r)',
           \A c \in chains'[r] : c \in chains[r] \/ ChainHolds(r, c)'
    PROVE  ReachHolds(r)'
<1>1. ReachHolds(r)
  BY DEF IInv
<1>2. nd' = nd /\ kw' = kw
  BY DEF rows
<1>3. RowHolds(r)' /\ StagesHold(r)'
  BY <1>1, <1>2, RowLasts, StagesLast DEF ReachHolds
<1>4. Settled(r)' => Settled(r)
  BY <1>2 DEF Settled
<1>5. PlanHolds(r)'
  BY <1>1, <1>2, <1>4, PlanLasts DEF ReachHolds, Grows
<1>6. \A c \in chains'[r] : ChainHolds(r, c)'
  BY <1>1, ChainLasts DEF ReachHolds
<1>. QED BY <1>3, <1>5, <1>6 DEF ReachHolds
LEMMA AuthorHolds ==
    ASSUME IInv, NEW r \in Reaches, Author(r)
    PROVE  IInv'
<1>1. PICK w \in Intents[r] : want' = [want EXCEPT ![r] = w]
  BY DEF Author
<1>2. /\ moved' = [moved EXCEPT ![r] = TRUE] /\ edits' = edits + 1 /\ edits < MaxEdits
      /\ UNCHANGED <<reading, stored, bare, made, sweeping, chains, marker, asked, nd, kw>>
  BY DEF Author, rows
<1>3. Typed'
  BY <1>1, <1>2, NetworkAssumption DEF IInv, Typed
<1>4. Grows
  BY <1>2 DEF Grows
<1>5. ASSUME NEW s \in Reaches PROVE ReachHolds(s)'
  <2>1. ReachHolds(s)
    BY DEF IInv
  <2>2. StorageHolds(s)'
    BY <1>1, <1>2, <2>1 DEF ReachHolds, StorageHolds, IInv, Typed
  <2>3. RowHolds(s)' /\ StagesHold(s)' /\ \A c \in chains'[s] : ChainHolds(s, c)'
    BY <1>2, <1>4, <2>1, RowLasts, StagesLast, ChainLasts DEF ReachHolds
  <2>4. Settled(s)' => /\ Settled(s) /\ want'[s] = want[s] /\ want'[Below[s]] = want[Below[s]]
    <3>1. SUFFICES ASSUME Settled(s)'
                   PROVE  Settled(s) /\ s # r /\ Below[s] # r
      BY <1>1 DEF IInv, Typed
    <3>2. kw[s] # None /\ ~moved'[s] /\ ~moved'[Below[s]]
      BY <1>2, <3>1 DEF Settled
    <3>3. Below[s] \in Reaches
      BY <2>1, <3>2, NetworkAssumption DEF ReachHolds, StagesHold
    <3>4. s # r /\ Below[s] # r /\ moved[s] = moved'[s] /\ moved[Below[s]] = moved'[Below[s]]
      BY <1>2, <3>2, <3>3 DEF IInv, Typed
    <3>. QED BY <1>2, <3>1, <3>4 DEF Settled
  <2>5. PlanHolds(s)'
    BY <1>2, <2>1, <2>4, PlanLasts DEF ReachHolds
  <2>. QED BY <2>2, <2>3, <2>5 DEF ReachHolds
<1>. QED BY <1>3, <1>5 DEF IInv

LEMMA OpenRunHolds ==
    ASSUME IInv, NEW r \in Reaches, OpenRun(r)
    PROVE  IInv'
<1>1. PICK q \in sweeping[r] \ stored[r] : bare' = [bare EXCEPT ![r] = {q}]
  BY DEF OpenRun
<1>2. UNCHANGED <<want, moved, edits, reading, stored, made, sweeping, chains, marker, asked, nd, kw>>
  BY DEF OpenRun, rows, intent
<1>3. Typed'
  BY <1>1, <1>2 DEF IInv, Typed
<1>4. Grows
  BY <1>2 DEF Grows
<1>5. ASSUME NEW s \in Reaches PROVE ReachHolds(s)'
  <2>1. StorageHolds(s)'
    BY <1>1, <1>2 DEF IInv, Typed, ReachHolds, StorageHolds
  <2>. QED BY <1>2, <1>4, <2>1, WorkHolds DEF rows
<1>. QED BY <1>3, <1>5 DEF IInv

LEMMA PublishRunHolds ==
    ASSUME IInv, NEW r \in Reaches, PublishRun(r)
    PROVE  IInv'
<1>1. /\ stored' = [stored EXCEPT ![r] = stored[r] \union bare[r]]
      /\ bare' = [bare EXCEPT ![r] = {}]
      /\ UNCHANGED <<want, moved, edits, reading, made, sweeping, chains, marker, asked, nd, kw>>
  BY DEF PublishRun, rows, intent
<1>2. Typed'
  BY <1>1 DEF IInv, Typed
<1>3. Grows
  BY <1>1 DEF Grows, IInv, Typed
<1>4. ASSUME NEW s \in Reaches PROVE ReachHolds(s)'
  <2>1. StorageHolds(s)'
    <3>1. StorageHolds(s) /\ StorageHolds(r)
      BY DEF IInv, ReachHolds
    <3>2. /\ stored'[s] \in SUBSET OnGrid[s] /\ bare'[s] \in SUBSET (OnGrid[s] \ stored'[s])
          /\ stored[s] \subseteq stored'[s]
      <4>1. CASE s = r
        BY <1>1, <3>1, <4>1 DEF IInv, Typed, StorageHolds
      <4>2. CASE s # r
        BY <1>1, <3>1, <4>2 DEF IInv, Typed, StorageHolds
      <4>. QED BY <4>1, <4>2
    <3>. QED BY <1>1, <3>1, <3>2 DEF StorageHolds
  <2>. QED BY <1>1, <1>3, <2>1, WorkHolds DEF rows
<1>. QED BY <1>2, <1>4 DEF IInv

LEMMA EndSweepHolds ==
    ASSUME IInv, NEW r \in Reaches, EndSweep(r)
    PROVE  IInv'
<1>1. /\ sweeping' = [sweeping EXCEPT ![r] = {}]
      /\ UNCHANGED <<want, moved, edits, reading, stored, bare, made, chains, marker, asked, nd, kw>>
  BY DEF EndSweep, rows, intent
<1>2. Typed' /\ Grows
  BY <1>1 DEF IInv, Typed, Grows
<1>3. ASSUME NEW s \in Reaches PROVE ReachHolds(s)'
  <2>1. StorageHolds(s)'
    BY <1>1 DEF IInv, Typed, ReachHolds, StorageHolds
  <2>. QED BY <1>1, <1>2, <2>1, WorkHolds DEF rows
<1>. QED BY <1>2, <1>3 DEF IInv

LEMMA DropChainHolds ==
    ASSUME IInv, NEW r \in Reaches, DropChain(r)
    PROVE  IInv'
<1>1. PICK d \in chains[r] : chains' = [chains EXCEPT ![r] = chains[r] \ {d}]
  BY DEF DropChain
<1>2. UNCHANGED <<want, moved, edits, reading, stored, bare, made, sweeping, marker, asked, nd, kw>>
  BY DEF DropChain, rows, intent
<1>3. Typed' /\ Grows
  BY <1>1, <1>2 DEF IInv, Typed, Grows
<1>4. ASSUME NEW s \in Reaches PROVE ReachHolds(s)'
  <2>1. StorageHolds(s)'
    BY <1>2 DEF IInv, ReachHolds, StorageHolds
  <2>2. chains'[s] \subseteq chains[s]
    BY <1>1 DEF IInv, Typed
  <2>. QED BY <1>2, <1>3, <2>1, <2>2, WorkHolds DEF rows
<1>. QED BY <1>3, <1>4 DEF IInv

\* poll_in_flight only touches the marker, and asks for a check.
LEMMA PollHolds ==
    ASSUME IInv, NEW r \in Reaches, Poll(r) \/ LoseTrack(r)
    PROVE  IInv'
<1>1. /\ marker' = [marker EXCEPT ![r] = None] /\ asked' = [asked EXCEPT ![r] = TRUE]
      /\ UNCHANGED <<want, moved, edits, reading, stored, bare, made, sweeping, chains, nd, kw>>
  BY DEF Poll, LoseTrack, rows, intent
<1>2. Typed' /\ Grows
  BY <1>1 DEF IInv, Typed, Grows
<1>3. \A s \in Reaches : asked[s] => asked'[s]
  BY <1>1 DEF IInv, Typed
<1>4. ASSUME NEW s \in Reaches PROVE ReachHolds(s)'
  <2>1. StorageHolds(s)'
    BY <1>1 DEF IInv, ReachHolds, StorageHolds
  <2>. QED BY <1>1, <1>2, <1>3, <2>1, WorkHolds DEF rows
<1>. QED BY <1>2, <1>4 DEF IInv
LEMMA RunScenarioHolds ==
    ASSUME IInv, NEW r \in Reaches, RunScenario(r)
    PROVE  IInv'
<1>1. PICK c \in chains[r] :
          /\ made' = [made EXCEPT ![r] = made[r] \union {<<Head(c).q, Head(c).z>>}]
          /\ chains' = [chains EXCEPT ![r] = (chains[r] \ {c}) \union ({Tail(c)} \ {<<>>})]
  BY DEF RunScenario
<1>2. UNCHANGED <<want, moved, edits, reading, stored, bare, sweeping, marker, asked, nd, kw>>
  BY DEF RunScenario, rows, intent
<1>3. ChainHolds(r, c) /\ c \in Seq(Scenarios) /\ c # <<>>
  BY DEF IInv, ReachHolds, Typed, ChainHolds
<1>4. /\ Head(c) = c[1] /\ 1 \in DOMAIN c /\ Head(c) \in Scenarios
      /\ Tail(c) \in Seq(Scenarios)
      /\ \A i \in DOMAIN Tail(c) :
            /\ i \in Nat \ {0} /\ i + 1 \in DOMAIN c /\ Tail(c)[i] = c[i + 1]
            /\ i > 1 => Tail(c)[i - 1] = c[i]
  BY <1>3
<1>5. <<c[1].q, c[1].z>> \in Nat \X Int
  BY <1>4 DEF Scenarios
<1>6. made' \in [Reaches -> SUBSET (Nat \X Int)]
  BY <1>1, <1>4, <1>5 DEF IInv, Typed
<1>7. chains' \in [Reaches -> SUBSET Seq(Scenarios)]
  BY <1>1, <1>4 DEF IInv, Typed
<1>8. Typed'
  BY <1>2, <1>6, <1>7 DEF IInv, Typed
<1>9. Grows
  BY <1>1, <1>2 DEF Grows, IInv, Typed
<1>10. <<c[1].q, c[1].z>> \in made'[r]
  BY <1>1, <1>4 DEF IInv, Typed
<1>11. ASSUME Tail(c) # <<>> PROVE ChainHolds(r, Tail(c))'
  <2>1. ChainHolds(r, c)'
    BY <1>3, <1>9, ChainLasts
  <2>2. ASSUME NEW i \in DOMAIN Tail(c)
        PROVE  SeedHolds(r, Tail(c), i)'
    <3>1. SeedHolds(r, c, i + 1)' /\ Tail(c)[i] = c[i + 1] /\ i \in Nat \ {0}
      BY <1>4, <2>1 DEF ChainHolds
    <3>2. CASE c[i + 1].seed = None \/ <<c[i + 1].q, c[i + 1].seed>> \in made'[r]
      BY <3>1, <3>2 DEF SeedHolds
    <3>3. CASE c[i].q = c[i + 1].q /\ c[i].z = c[i + 1].seed
      <4>1. CASE i = 1
        BY <1>10, <3>1, <3>3, <4>1 DEF SeedHolds
      <4>2. CASE i > 1
        BY <1>4, <3>1, <3>3, <4>2 DEF SeedHolds
      <4>. QED BY <3>1, <4>1, <4>2
    <3>4. (i + 1) - 1 = i
      BY <3>1
    <3>. QED BY <3>1, <3>2, <3>3, <3>4 DEF SeedHolds
  <2>3. \A i \in DOMAIN Tail(c) :
            /\ Tail(c)[i].q \in stored'[r] /\ \E w \in Intents[r] : Tail(c)[i].z % w.dz = 0
            /\ BoundaryHolds(r, Tail(c)[i])'
    BY <1>4, <2>1 DEF ChainHolds
  <2>. QED BY <1>11, <2>1, <2>2, <2>3 DEF ChainHolds
<1>12. ASSUME NEW s \in Reaches PROVE ReachHolds(s)'
  <2>1. StorageHolds(s)'
    <3>1. StorageHolds(s)
      BY DEF IInv, ReachHolds
    <3>2. \A t \in made'[s] : t[1] \in stored[s] /\ \E w \in Intents[s] : t[2] % w.dz = 0
      <4>1. CASE s = r
        <5>1. c[1].q \in stored[r] /\ \E w \in Intents[r] : c[1].z % w.dz = 0
          BY <1>3, <1>4 DEF ChainHolds
        <5>2. made'[r] = made[r] \union {<<c[1].q, c[1].z>>}
          BY <1>1, <1>4 DEF IInv, Typed
        <5>. QED BY <3>1, <4>1, <5>1, <5>2 DEF StorageHolds
      <4>2. CASE s # r
        <5>1. made'[s] = made[s]
          BY <1>1, <4>2 DEF IInv, Typed
        <5>. QED BY <3>1, <5>1 DEF StorageHolds
      <4>. QED BY <4>1, <4>2
    <3>. QED BY <1>2, <3>1, <3>2 DEF StorageHolds
  <2>2. \A d \in chains'[s] : d \in chains[s] \/ ChainHolds(s, d)'
    BY <1>1, <1>11 DEF IInv, Typed
  <2>. QED BY <1>2, <1>9, <2>1, <2>2, WorkHolds DEF rows
<1>. QED BY <1>8, <1>12 DEF IInv

\* What a check may do to the jobs of the reach.
Submitted ==
    /\ sweeping' \in [Reaches -> SUBSET Nat]
    /\ chains' \in [Reaches -> SUBSET Seq(Scenarios)]
    /\ marker' \in [Reaches -> {None, "run_nd", "run_kwse"}]
    /\ \A s \in Reaches :
          /\ sweeping'[s] \in SUBSET OnGrid[s]
          /\ \A c \in chains'[s] : c \in chains[s] \/ ChainHolds(s, c)

LEMMA SubmissionHolds ==
    ASSUME IInv, NEW r \in Reaches,
           NEW own, own # None => own \in NdRow /\ own.qs \in SUBSET stored[r],
           NEW stages,
           \/ Satisfied(r, own, stages) \/ Stay(r, own, stages)
           \/ Sweep(r, own) \/ Stage(r, own, stages)
    PROVE  Submitted
<1>1. CASE Satisfied(r, own, stages)
  BY <1>1 DEF Satisfied, Submitted, IInv, Typed, ReachHolds, StorageHolds
<1>2. CASE Stay(r, own, stages)
  BY <1>2 DEF Stay, Submitted, IInv, Typed, ReachHolds, StorageHolds
<1>3. CASE Sweep(r, own)
  <2>1. PICK qs : /\ qs = {q \in OnGrid[r] : want[r].lower <= q /\ q <= want[r].upper}
                  /\ qs \in SUBSET OnGrid[r] /\ qs \in SUBSET Nat
    BY IntentAssumption
  <2>2. /\ sweeping' = [sweeping EXCEPT ![r] = sweeping[r] \union qs]
        /\ marker' = [marker EXCEPT ![r] = "run_nd"] /\ chains' = chains
    BY <1>3, <2>1 DEF Sweep, SweepRange
  <2>3. \A s \in Reaches : sweeping[s] \in SUBSET OnGrid[s]
    BY DEF IInv, ReachHolds, StorageHolds
  <2>. QED BY <2>1, <2>2, <2>3 DEF Submitted, IInv, Typed
<1>4. CASE Stage(r, own, stages)
  <2>1. PICK handed :
            /\ handed = Pending(r, own)
            /\ chains' = [chains EXCEPT ![r] = chains[r] \union handed]
            /\ marker' = [marker EXCEPT ![r] = IF handed = {} THEN None ELSE "run_kwse"]
            /\ sweeping' = sweeping
    BY <1>4 DEF Stage
  <2>2. Plannable(r, own)
    BY <1>4 DEF Stage, KwGap, KwReady, NdReady, Plannable
  <2>3. own \in NdRow /\ own.qs \in SUBSET stored[r]
    BY <2>2 DEF Plannable
  <2>4. ASSUME NEW c \in handed PROVE c \in Seq(Scenarios) /\ ChainHolds(r, c)
    <3>1. PlanInputs(r, own).qs = own.qs
      BY DEF PlanInputs
    <3>2. PICK q \in own.qs : c = Chain(r, PlanInputs(r, own), q) /\ c # <<>>
      BY <2>1, <3>1 DEF Pending
    <3>. QED BY <2>2, <2>3, <3>2, ChainIsSound DEF IInv, ReachHolds
  <2>5. chains' \in [Reaches -> SUBSET Seq(Scenarios)]
    BY <2>1, <2>4 DEF IInv, Typed
  <2>6. \A s \in Reaches : \A c \in chains'[s] : c \in chains[s] \/ ChainHolds(s, c)
    BY <2>1, <2>4 DEF IInv, Typed
  <2>7. \A s \in Reaches : sweeping[s] \in SUBSET OnGrid[s]
    BY DEF IInv, ReachHolds, StorageHolds
  <2>. QED BY <2>1, <2>5, <2>6, <2>7 DEF Submitted, IInv, Typed
<1>. QED BY <1>1, <1>2, <1>3, <1>4
\* The rows and the request a check of r leaves behind.
Checked(r, own, stages, changed, submits) ==
    /\ nd' = [nd EXCEPT ![r] = own] /\ kw' = [kw EXCEPT ![r] = stages]
    /\ moved' = [moved EXCEPT ![r] = FALSE]
    /\ asked' = Asked(r, changed, submits)
    /\ UNCHANGED <<want, edits, reading, stored, bare, made>>

\* A check of the reach below that finds no change leaves the row it is planned
\* from as it was, where nothing was passed over.
LEMMA UnchangedBelow ==
    ASSUME IInv, NEW d \in Reaches, NEW own, own = NdObserved(d), NEW stages,
           own # None, own.qs = own.curve,
           ~moved[d] \/ (own = None /\ stages = None), ~NdChanged(d, own)
    PROVE  nd[d] = own /\ ~moved[d]
<1>1. StorageHolds(d) /\ RowHolds(d) /\ Typed
  BY DEF IInv, ReachHolds
<1>2. own \in NdRow /\ own.curve = stored[d]
  BY <1>1, ObservedRowHolds
<1>3. nd[d] # None /\ nd[d].qs = own.qs
  BY DEF NdChanged
<1>4. nd[d] \in NdRow /\ nd[d].curve \in SUBSET stored[d] /\ nd[d].qs \in SUBSET nd[d].curve
  BY <1>1, <1>3 DEF RowHolds, Typed
<1>5. nd[d].curve = own.curve
  BY <1>2, <1>3, <1>4
<1>6. nd[d] = [qs |-> nd[d].qs, curve |-> nd[d].curve] /\ own = [qs |-> own.qs, curve |-> own.curve]
  BY <1>2, <1>4 DEF NdRow
<1>. QED BY <1>3, <1>5, <1>6

LEMMA CheckHolds ==
    ASSUME RaisedIsStage, IInv, NEW r \in Reaches, Check(r)
    PROVE  IInv'
<1>. DEFINE own == NdObserved(r)
            stages == KwObserved(r, own)
            changed == \/ moved[r] /\ (own # None \/ stages # None)
                       \/ NdChanged(r, own) \/ stages # kw[r]
<1>1. /\ \/ Satisfied(r, own, stages) \/ Stay(r, own, stages)
         \/ Sweep(r, own) \/ Stage(r, own, stages)
      /\ \E submits \in BOOLEAN : Checked(r, own, stages, changed, submits)
  BY DEF Check, Checked
<1>2. PICK submits \in BOOLEAN : Checked(r, own, stages, changed, submits)
  BY <1>1
<1>3. \A s \in Reaches : StorageHolds(s) /\ RowHolds(s) /\ StagesHold(s) /\ PlanHolds(s)
  BY DEF IInv, ReachHolds
<1>4. Typed
  BY DEF IInv
<1>5. own # None => /\ own \in NdRow /\ own.curve = stored[r] /\ own.curve # {}
                    /\ own.qs = Adopted(stored[r], reading[r]) /\ own.qs # None
                    /\ own.qs \in SUBSET stored[r]
  BY <1>3, <1>4, ObservedRowHolds
<1>. HIDE DEF own
<1>7. stages # None =>
          /\ Plannable(r, own) /\ stages = StagesOf(r, PlanInputs(r, own))
          /\ stages \in SUBSET StageRun /\ IsFiniteSet(stages)
          /\ \A s \in stages : <<s.q, s.bc>> \in made[r]
  BY <1>3, <1>4, <1>5, ObservedStagesHold
<1>. HIDE DEF stages
<1>8. Submitted
  BY <1>1, <1>5, SubmissionHolds
<1>. HIDE DEF changed
<1>9. /\ nd'[r] = own /\ kw'[r] = stages /\ ~moved'[r]
      /\ \A s \in Reaches \ {r} : nd'[s] = nd[s] /\ kw'[s] = kw[s] /\ moved'[s] = moved[s]
      /\ \A s \in Reaches \ {r} : asked'[s] = (asked[s] \/ (Below[s] = r /\ changed))
  BY <1>2, <1>4 DEF Checked, Asked, Typed
<1>10. Grows /\ UNCHANGED <<want, edits, reading, stored, bare, made>>
  BY <1>2 DEF Checked, Grows
<1>11. Typed'
  <2>1. own \in {None} \union NdRow /\ stages \in {None} \union SUBSET StageRun
    BY <1>5, <1>7
  <2>2. nd' \in [Reaches -> {None} \union NdRow] /\ kw' \in [Reaches -> {None} \union SUBSET StageRun]
    BY <1>2, <1>4, <2>1 DEF Checked, Typed
  <2>3. moved' \in [Reaches -> BOOLEAN]
    BY <1>2, <1>4 DEF Checked, Typed
  <2>4. changed \in BOOLEAN
    BY <1>4 DEF changed, NdChanged, Typed
  <2>5. asked' \in [Reaches -> BOOLEAN]
    BY <1>2, <1>4, <2>4 DEF Checked, Asked, Typed
  <2>. QED BY <1>4, <1>8, <1>10, <2>2, <2>3, <2>5 DEF Typed, Submitted
<1>12. ASSUME NEW s \in Reaches PROVE StorageHolds(s)' /\ RowHolds(s)' /\ StagesHold(s)'
  <2>1. StorageHolds(s)'
    BY <1>3, <1>8, <1>10 DEF StorageHolds, Submitted
  <2>2. CASE s # r
    BY <1>3, <1>9, <1>10, <2>1, <2>2, RowLasts, StagesLast
  <2>3. CASE s = r
    <3>1. RowHolds(r)'
      BY <1>5, <1>9, <1>10 DEF RowHolds
    <3>2. StagesHold(r)'
      BY <1>7, <1>9, <1>10 DEF StagesHold, Plannable
    <3>. QED BY <2>1, <2>3, <3>1, <3>2
  <2>. QED BY <2>2, <2>3
<1>13. ASSUME NEW s \in Reaches, NEW c \in chains'[s] PROVE ChainHolds(s, c)'
  BY <1>8, <1>10, <1>13, ChainLasts DEF Submitted, IInv, ReachHolds
<1>14. ASSUME NEW s \in Reaches PROVE PlanHolds(s)'
  <2>1. SUFFICES ASSUME Settled(s)' PROVE PlanHolds(s)'
    BY DEF PlanHolds
  <2>2. Below[s] \in Reaches /\ Below[s] # s
    BY <1>12, <2>1, NetworkAssumption DEF Settled, StagesHold
  <2>3. CASE s = r
    <3>1. stages # None /\ kw'[r] = StagesOf(r, PlanInputs(r, own))
      BY <1>7, <1>9, <2>1, <2>3 DEF Settled
    <3>2. PlanInputs(r, nd[r])' = PlanInputs(r, own)
      BY <1>9, <1>10, <2>2, <2>3 DEF PlanInputs, RunsOf, Others
    <3>3. StagesOf(r, PlanInputs(r, nd[r]))' = StagesOf(r, PlanInputs(r, own))
      BY <1>10, <3>2 DEF StagesOf
    <3>. QED BY <2>3, <3>1, <3>3 DEF PlanHolds
  <2>4. CASE s # r /\ Below[s] # r
    <3>1. Settled(s)
      BY <1>9, <2>1, <2>2, <2>4 DEF Settled
    <3>. QED BY <1>3, <1>9, <1>10, <2>2, <2>4, <3>1, PlanLasts
  <2>5. CASE s # r /\ Below[s] = r
    <3>1. ~changed /\ ~asked[s] /\ own # None /\ own.qs = own.curve
      BY <1>9, <2>1, <2>5 DEF Settled
    <3>2. /\ ~moved[r] \/ (own = None /\ stages = None)
          /\ ~NdChanged(r, own) /\ stages = kw[r]
      BY <3>1 DEF changed
    <3>3. nd[r] = own /\ ~moved[r]
      BY <3>1, <3>2, UnchangedBelow DEF own
    <3>4. nd'[r] = nd[r] /\ kw'[r] = kw[r]
      BY <1>9, <3>2, <3>3
    <3>5. Settled(s)
      BY <1>9, <2>1, <2>5, <3>1, <3>3, <3>4 DEF Settled
    <3>. QED BY <1>3, <1>9, <1>10, <2>5, <3>4, <3>5, PlanLasts
  <2>. QED BY <2>3, <2>4, <2>5
<1>. QED BY <1>11, <1>12, <1>13, <1>14 DEF IInv, ReachHolds
LEMMA NextHolds ==
    ASSUME RaisedIsStage
    PROVE  IInv /\ [Next]_vars => IInv'
<1>. SUFFICES ASSUME IInv, [Next]_vars PROVE IInv'
  OBVIOUS
<1>1. CASE UNCHANGED vars
  <2>1. UNCHANGED <<want, moved, edits, reading, stored, bare, made, sweeping, chains, marker, asked,
                    nd, kw>>
    BY <1>1 DEF vars
  <2>2. Typed' /\ Grows
    BY <2>1 DEF IInv, Typed, Grows
  <2>3. ASSUME NEW r \in Reaches PROVE ReachHolds(r)'
    <3>1. StorageHolds(r)'
      BY <2>1 DEF IInv, ReachHolds, StorageHolds
    <3>. QED BY <2>1, <2>2, <3>1, WorkHolds DEF rows
  <2>. QED BY <2>2, <2>3 DEF IInv
<1>2. CASE Next
  <2>1. PICK r \in Reaches :
            \/ Author(r) \/ OpenRun(r) \/ PublishRun(r) \/ EndSweep(r)
            \/ RunScenario(r) \/ DropChain(r) \/ Poll(r) \/ LoseTrack(r) \/ Check(r)
    BY <1>2 DEF Next
  <2>. QED BY <2>1, AuthorHolds, OpenRunHolds, PublishRunHolds, EndSweepHolds, RunScenarioHolds,
              DropChainHolds, PollHolds, CheckHolds
<1>. QED BY <1>1, <1>2

\* The loop's bookkeeping of libraries: storage, rows, stages and running chains
\* stay in step, whatever the network, the intents and the readings.
THEOREM LibrariesInvariant ==
    ASSUME RaisedIsStage
    PROVE  Spec => []IInv
<1>1. Init => IInv
  BY InitHolds
<1>2. IInv /\ [Next]_vars => IInv'
  BY NextHolds
<1>. QED BY <1>1, <1>2, PTL DEF Spec

-----------------------------------------------------------------------------
(* The properties *)

\* observe_nd_runs, observe_kwse_runs and the jobs keep every row, address and
\* scenario of its kind.
THEOREM TypesHold ==
    ASSUME RaisedIsStage
    PROVE  Spec => []TypeOK
<1>1. IInv => TypeOK
  <2>1. SUFFICES ASSUME IInv, NEW r \in Reaches
                 PROVE  /\ want[r] \in Intents[r]
                        /\ moved[r] \in BOOLEAN /\ asked[r] \in BOOLEAN
                        /\ stored[r] \subseteq OnGrid[r]
                        /\ bare[r] \subseteq OnGrid[r] \ stored[r]
                        /\ sweeping[r] \subseteq OnGrid[r]
                        /\ \A s \in made[r] : s[1] \in stored[r] /\ \E w \in Intents[r] : s[2] % w.dz = 0
                        /\ \A c \in chains[r] : c # <<>> /\ \A i \in DOMAIN c : c[i] \in Scenarios
                        /\ marker[r] \in {None, "run_nd", "run_kwse"}
                        /\ nd[r] # None => nd[r] \in NdRow /\ nd[r].qs \subseteq nd[r].curve
                        /\ kw[r] # None => kw[r] \subseteq StageRun
    BY DEF TypeOK, IInv, Typed
  <2>2. \A c \in chains[r] : c # <<>> /\ \A i \in DOMAIN c : c[i] \in Scenarios
    <3>1. ASSUME NEW c \in chains[r] PROVE c \in Seq(Scenarios) /\ c # <<>>
      BY <2>1 DEF IInv, Typed, ReachHolds, ChainHolds
    <3>. QED BY <3>1
  <2>3. nd[r] # None => nd[r] \in NdRow /\ nd[r].qs \subseteq nd[r].curve
    BY <2>1 DEF IInv, Typed, ReachHolds, RowHolds
  <2>. QED BY <2>1, <2>2, <2>3 DEF IInv, Typed, ReachHolds, StorageHolds
<1>2. Spec => []IInv
  BY LibrariesInvariant
<1>. QED BY <1>1, <1>2, PTL

\* adopt: the library every row names is a route intent allows through what
\* storage held, and no other route is cheaper.
THEOREM AdoptedStaysCheapest ==
    ASSUME RaisedIsStage
    PROVE  Spec => []AdoptedIsCheapest
<1>1. IInv => AdoptedIsCheapest
  <2>1. SUFFICES ASSUME IInv, NEW r \in Reaches, nd[r] # None, Bands # {}
                 PROVE  /\ \/ nd[r].qs \in Routes(nd[r].curve, reading[r])
                           \/ Cardinality(nd[r].curve) = 1
                        /\ \A route \in Routes(nd[r].curve, reading[r]) :
                              ~Cheaper(RouteCost(reading[r], route), RouteCost(reading[r], nd[r].qs))
    BY DEF AdoptedIsCheapest
  <2>2. /\ nd[r].curve \in SUBSET OnGrid[r] /\ nd[r].curve # {}
        /\ nd[r].qs = Adopted(nd[r].curve, reading[r]) /\ nd[r].qs # None
    BY <2>1 DEF IInv, ReachHolds, RowHolds, StorageHolds
  <2>3. AdoptsTheCheapest(nd[r].curve, reading[r])
    BY <2>1, <2>2, StorageIsMeasured, AdoptionIsCheapest DEF IInv
  <2>. QED BY <2>1, <2>2, <2>3 DEF AdoptsTheCheapest
<1>2. Spec => []IInv
  BY LibrariesInvariant
<1>. QED BY <1>1, <1>2, PTL

\* observe_nd_runs and _sweep: where adoption refuses what is in storage, the sweep
\* that follows is given a discharge that storage lacks, unless two neighbours
\* intent does not tolerate are both outside the range it asks for.
THEOREM HolesStayFillable ==
    ASSUME RaisedIsStage
    PROVE  Spec => []HolesCanBeFilled
<1>1. IInv => HolesCanBeFilled
  <2>1. SUFFICES ASSUME IInv, NEW r \in Reaches, stored[r] # {},
                        Adopted(stored[r], reading[r]) = None, ~HoleBeyond(r)
                 PROVE  \E q \in SweepRange(r) : q \notin stored[r]
    BY DEF HolesCanBeFilled
  <2>2. stored[r] \in SUBSET OnGrid[r] /\ \A qs \in SUBSET stored[r] : qs # None
    <3>1. stored[r] \in SUBSET OnGrid[r]
      BY <2>1 DEF IInv, ReachHolds, StorageHolds
    <3>. QED BY <3>1, NoneIsNothing
  <2>3. /\ stored[r] \in SUBSET Int /\ IsFiniteSet(stored[r])
        /\ Measured(stored[r], reading[r])
    BY <2>1, <2>2, StorageIsMeasured DEF IInv
  <2>4. QGrid # None
    BY <2>1, <2>2, <2>3, RefusedHasAGap
  <2>5. PICK a \in stored[r] \ {Max(stored[r])} :
            /\ ~Tolerated(stored[r], reading[r], a, Following(stored[r], a))
            /\ Following(stored[r], a) - a > QGrid
    BY <2>1, <2>2, <2>3, RefusedHasAGap
  <2>6. PICK b : /\ b = Following(stored[r], a) /\ b \in stored[r] /\ b > a
                 /\ \A p \in stored[r] : p > a => b <= p
    <3>1. a \in Legs(stored[r])
      BY DEF Legs
    <3>. QED BY <2>3, <3>1, FollowingIsNext
  <2>7. ASSUME NEW q, q > a, q < b PROVE q \notin stored[r]
    BY <2>3, <2>6, <2>7
  <2>8. /\ want[r].lower \in OnGrid[r] /\ want[r].upper \in OnGrid[r]
        /\ want[r].lower <= want[r].upper /\ OnGrid[r] \subseteq Int
    <3>1. want[r] \in Intents[r]
      BY <2>1 DEF IInv, ReachHolds, StorageHolds
    <3>. QED BY <3>1, IntentAssumption
  <2>9. want[r].lower < b /\ want[r].upper > a
    <3>1. ~(b <= want[r].lower) /\ ~(a >= want[r].upper)
      BY <2>1, <2>5, <2>6 DEF HoleBeyond
    <3>. QED BY <2>3, <2>6, <2>8, <3>1
  <2>10. CASE a < want[r].lower
    BY <2>7, <2>8, <2>9, <2>10 DEF SweepRange
  <2>11. CASE want[r].upper < b
    BY <2>7, <2>8, <2>9, <2>11 DEF SweepRange
  <2>12. CASE want[r].lower <= a /\ b <= want[r].upper
    <3>1. PICK q \in OnGrid[r] : a < q /\ q < b
      BY <2>2, <2>4, <2>5, <2>6, GridAssumption
    <3>2. want[r].lower <= q /\ q <= want[r].upper
      BY <2>3, <2>6, <2>8, <2>12, <3>1
    <3>. QED BY <2>7, <3>1, <3>2 DEF SweepRange
  <2>. QED BY <2>3, <2>6, <2>8, <2>10, <2>11, <2>12
<1>2. Spec => []IInv
  BY LibrariesInvariant
<1>. QED BY <1>1, <1>2, PTL

\* run_kwse: whatever was adopted, planned and dropped since a chain was handed
\* out, the scenario it is at finds its seed and its boundary in storage.
THEOREM InputsStayThere ==
    ASSUME RaisedIsStage
    PROVE  Spec => []InputsAreThere
<1>1. IInv => InputsAreThere
  <2>1. SUFFICES ASSUME IInv, NEW r \in Reaches, NEW c \in chains[r], NEW s, s = Head(c)
                 PROVE  /\ IF s.seed = None THEN s.q \in stored[r] ELSE <<s.q, s.seed>> \in made[r]
                        /\ IF s.dsBc = None THEN s.dsQ \in stored[Below[r]]
                           ELSE <<s.dsQ, s.dsBc>> \in made[Below[r]]
    BY DEF InputsAreThere
  <2>2. ChainHolds(r, c) /\ c \in Seq(Scenarios) /\ c # <<>>
    BY <2>1 DEF IInv, Typed, ReachHolds, ChainHolds
  <2>3. 1 \in DOMAIN c /\ s = c[1]
    BY <2>1, <2>2
  <2>4. c[1].q \in stored[r] /\ SeedHolds(r, c, 1) /\ BoundaryHolds(r, c[1])
    BY <2>2, <2>3 DEF ChainHolds
  <2>. QED BY <2>3, <2>4 DEF SeedHolds, BoundaryHolds
<1>2. Spec => []IInv
  BY LibrariesInvariant
<1>. QED BY <1>1, <1>2, PTL

\* observe_kwse_runs and request_checks: a stage library nobody is about to look
\* at again still covers every downstream run its discharges may meet.
THEOREM StagesStayCovered ==
    ASSUME RaisedIsStage
    PROVE  Spec => []StagesAreCovered
<1>1. IInv => StagesAreCovered
  <2>1. SUFFICES ASSUME IInv, NEW r \in Reaches, Settled(r),
                        NEW p, p = PlanInputs(r, nd[r]),
                        NEW q \in p.qs, NEW run \in P!Pool(p, q),
                        P!Floor(p, q) <= run.wse, run.wse <= P!Ceiling(p, q)
                 PROVE  \E s \in kw[r] : s.q = q /\ 2 * P!Distance(run, s.bc) <= p.dz
    BY DEF StagesAreCovered, Settled
  <2>2. kw[r] = StagesOf(r, p) /\ kw[r] # None
    BY <2>1 DEF IInv, ReachHolds, PlanHolds, Settled
  <2>3. nd[r] \in NdRow /\ Plannable(r, nd[r])
    BY <2>1 DEF IInv, Typed, ReachHolds, StagesHold, Settled, Plannable
  <2>4. PlanArgs(p) /\ p.qs \in SUBSET Nat
    BY <2>1, <2>3, PlanInputsHold DEF IInv, ReachHolds, PlanArgs
  <2>5. PICK z \in P!Rungs(p, q) : 2 * P!Distance(run, z) <= p.dz
    BY <2>1, <2>4, RungsCover
  <2>6. <<q, z>> \in P!Plan(p)
    BY <2>1, <2>5 DEF P!Plan
  <2>7. \E s \in StagesOf(r, p) : s.q = q /\ s.bc = z
    <3>. DEFINE s == [q |-> q, bc |-> z, wse |-> Raised(reading[r][q].wse, z)]
    <3>1. <<q, z>>[1] = q /\ <<q, z>>[2] = z
      OBVIOUS
    <3>2. s \in StagesOf(r, p)
      BY <2>6, <3>1 DEF StagesOf
    <3>. QED BY <3>2
  <2>. QED BY <2>2, <2>5, <2>7
<1>2. Spec => []IInv
  BY LibrariesInvariant
<1>. QED BY <1>1, <1>2, PTL
=============================================================================
