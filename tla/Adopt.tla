-------------------------------- MODULE Adopt --------------------------------
(***************************************************************************)
(* Which of the discharges in storage make a reach's normal-depth library   *)
(* (adopt in recon/observe.py).  The discharges are the nodes of a graph,   *)
(* a step that intent tolerates is an edge, and the library is the cheapest *)
(* route from the lowest discharge to the highest.                          *)
(*                                                                          *)
(* `m` is the reading of each scenario's manifest: m[q] has the fields      *)
(* depth, median and area (and wse, which adoption does not look at).       *)
(***************************************************************************)
EXTENDS Integers, FiniteSetsExt

CONSTANTS
    Bands,   \* authored resolution: [key, floor, ceiling, relative]
    QGrid,   \* q_grid_resolution, or None
    Scale,   \* common multiple of the bands' floor + ceiling
    None

\* _bands has one band for each of three readings, and leaves out the ones that
\* are not authored.  A band whose middle is 0 makes _off_centre divide by zero,
\* so none is authored.
ASSUME BandAssumption ==
    /\ IsFiniteSet(Bands)
    /\ Scale \in Nat
    /\ QGrid = None \/ QGrid \in Nat \ {0}
    /\ \A b \in Bands :
          /\ b.key \in {"depth", "median", "area"}
          /\ b.floor \in Nat /\ b.ceiling \in Nat /\ b.relative \in BOOLEAN
          /\ b.floor <= b.ceiling /\ b.ceiling > 0
          /\ Scale % (b.floor + b.ceiling) = 0

\* None is not an entry of the table of the dynamic programme.
ASSUME NoneAssumption == None \notin [cost : Int \X Int \X Int, route : SUBSET Int]

-----------------------------------------------------------------------------
(* One step of a route, from discharge a to discharge b *)

\* The instances read areas that divide 100 times their differences, so that
\* the percentage is exact.
Change(m, a, b, band) ==
    LET before == m[a][band.key]
        after  == m[b][band.key]
    IN  CASE ~band.relative               -> after - before
          [] band.relative /\ before > 0  -> ((after - before) * 100) \div before
          [] OTHER                        -> 0

Verdict(m, a, b) ==
    CASE \E band \in Bands : Change(m, a, b, band) > band.ceiling -> "reject_high"
      [] /\ \A band \in Bands : Change(m, a, b, band) <= band.ceiling
         /\ \E band \in Bands : Change(m, a, b, band) >= band.floor -> "accept"
      [] OTHER -> "reject_low"

\* ((change - middle) / middle)^2 summed over the bands, times Scale^2.
OffCentre(m, a, b) ==
    LET term(band) ==
            (2 * Change(m, a, b, band) - (band.floor + band.ceiling))
                * (Scale \div (band.floor + band.ceiling))
    IN  MapThenSumSet(LAMBDA band : term(band) * term(band), Bands)

\* Whether any discharge could have gone between these two.
NothingFinerBelow(qs, a, b) ==
    IF QGrid = None THEN \A q \in qs : q <= a \/ q >= b ELSE b - a < QGrid
NothingFiner(qs, a, b) ==
    IF QGrid = None THEN \A q \in qs : q <= a \/ q >= b ELSE b - a <= QGrid

Tolerated(qs, m, a, b) == Verdict(m, a, b) # "reject_high" \/ NothingFiner(qs, a, b)

\* Costs are compared field by field: steps no band accepts, steps, distance
\* from the middle of the bands.
StepCost(m, a, b) == <<IF Verdict(m, a, b) = "accept" THEN 0 ELSE 1, 1, OffCentre(m, a, b)>>

Plus(c, d) == <<c[1] + d[1], c[2] + d[2], c[3] + d[3]>>

Cheaper(c, d) ==
    \/ c[1] < d[1]
    \/ c[1] = d[1] /\ c[2] < d[2]
    \/ c[1] = d[1] /\ c[2] = d[2] /\ c[3] < d[3]

-----------------------------------------------------------------------------
(* The dynamic programme *)

\* Of the discharges in `from` that a cheapest route may reach q through, the
\* one with the cheapest route; the lowest of equals, since only a strictly
\* cheaper one replaces it.
ParentNearest(m, best, from, q) == Max(from)
Parent(m, best, from, q) ==
    LET cost(p) == Plus(best[p].cost, StepCost(m, p, q))
    IN  CHOOSE p \in from :
            \A o \in from \ {p} : \/ Cheaper(cost(p), cost(o))
                                  \/ cost(p) = cost(o) /\ p < o

\* The cheapest route to q through the discharges below it: its cost and the
\* discharges on it, or None where no route arrives.
Arrival(qs, m, best, q) ==
    LET from == {p \in qs : p < q /\ best[p] # None /\ Tolerated(qs, m, p, q)}
        p    == Parent(m, best, from, q)
    IN  CASE q = Min(qs) -> [cost |-> <<0, 0, 0>>, route |-> {q}]
          [] q # Min(qs) /\ from # {} ->
                [cost  |-> Plus(best[p].cost, StepCost(m, p, q)),
                 route |-> best[p].route \union {q}]
          [] OTHER -> None

\* The table of the dynamic programme, filled from the lowest discharge up.
Best(qs, m) ==
    LET best[q \in qs] == Arrival(qs, m, best, q)
    IN  best

\* The adopted discharges, or None where no route satisfies intent.
Adopted(qs, m) ==
    IF Bands = {} \/ \A p, q \in qs : p = q THEN qs
    ELSE LET last == Best(qs, m)[Max(qs)] IN IF last = None THEN None ELSE last.route

-----------------------------------------------------------------------------
(* What adoption promises, by enumeration of every library in storage *)

Following(route, q) == Min({p \in route : p > q})

Routes(qs, m) ==
    {route \in SUBSET qs :
        /\ {Min(qs), Max(qs)} \subseteq route
        /\ \A q \in route \ {Max(qs)} : Tolerated(qs, m, q, Following(route, q))}

RouteCost(m, route) ==
    LET steps == route \ {Max(route)}
        total(i) == MapThenSumSet(LAMBDA q : StepCost(m, q, Following(route, q))[i], steps)
    IN  <<total(1), total(2), total(3)>>
=============================================================================
