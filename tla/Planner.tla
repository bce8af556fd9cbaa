------------------------------- MODULE Planner -------------------------------
(***************************************************************************)
(* Which stages a reach's library is run at, and what each run starts from  *)
(* (recon/plan.py).  Stages are integers in a unit fine enough for every    *)
(* reading, so a multiple of dz is exact and _EPS has nothing to absorb.    *)
(*                                                                          *)
(* `p` is what `plan` is given: qs, the reach's own discharges; dz; runs,   *)
(* the downstream reach's scenarios as [q, wse, bc] with bc None for a      *)
(* normal-depth run; dsQs, the discharges of the downstream library; others,*)
(* the most flow that joins on the way; top, kwse_upper_bound or None.      *)
(***************************************************************************)
EXTENDS Integers, Sequences, FiniteSetsExt

CONSTANT None

\* round(value / dz) * dz: to the nearest multiple, halves to the even one.
SnapDown(value, dz) == (value \div dz) * dz
Snap(value, dz) ==
    LET k    == value \div dz
        over == 2 * (value - k * dz)
    IN  dz * (IF over > dz \/ (over = dz /\ k % 2 = 1) THEN k + 1 ELSE k)

WseOf(runs) == {r.wse : r \in runs}

\* The lowest stage worth modelling at discharge q: that of the downstream
\* discharge at or below q, or of the lowest there is.
Floor(p, q) ==
    LET atOrBelow == {r.q : r \in {s \in p.runs : s.q <= q}}
        dsQ == IF atOrBelow # {} THEN Max(atOrBelow) ELSE Min({r.q : r \in p.runs})
    IN  Min(WseOf({r \in p.runs : r.q = dsQ}))

\* The downstream discharge up to which runs can be met at our discharge q.
ReadQ(p, q) ==
    LET atOrAbove == {d \in p.dsQs : d >= q + p.others}
    IN  IF atOrAbove # {} THEN Min(atOrAbove) ELSE Max(p.dsQs)

Pool(p, q) ==
    LET readQ == ReadQ(p, q)
    IN  {r \in p.runs : r.q <= readQ}

Ceiling(p, q) ==
    LET highest == Max(WseOf(Pool(p, q)))
    IN  IF p.top = None THEN highest ELSE Min({highest, p.top})

Targets(p, q) ==
    {z \in Snap(Floor(p, q), p.dz) .. Snap(Ceiling(p, q), p.dz) : z % p.dz = 0}

Distance(r, z) == IF r.wse >= z THEN r.wse - z ELSE z - r.wse

\* min over (distance, discharge).  The first of equals in the order
\* downstream_runs lists them: the normal-depth run, then by achieved stage.
Before(r, s, z) ==
    \/ Distance(r, z) < Distance(s, z)
    \/ /\ Distance(r, z) = Distance(s, z)
       /\ \/ r.q < s.q
          \/ r.q = s.q /\ s.bc # None /\ (r.bc = None \/ r.wse < s.wse)
          \/ r.q = s.q /\ s.bc # None /\ r.bc # None /\ r.wse = s.wse /\ r.bc < s.bc

Nearest(p, q, z) ==
    LET pool == Pool(p, q)
    IN  CHOOSE r \in pool : \A s \in pool \ {r} : Before(r, s, z)

\* The targets with a run near enough to force them; the others are skipped.
Rungs(p, q) ==
    LET pool == Pool(p, q)
    IN  {z \in Targets(p, q) : \E r \in pool : 2 * Distance(r, z) <= p.dz}

\* What a rung starts from: the rung below it, or the reach's own normal-depth
\* run at q (None).
SeedBelow(p, q, z) == IF z - p.dz \in Targets(p, q) THEN z - p.dz ELSE None
Seed(p, q, z) ==
    LET lower == {y \in Rungs(p, q) : y < z}
    IN  IF lower = {} THEN None ELSE Max(lower)

Scenario(p, q, z) ==
    LET r == Nearest(p, q, z)
    IN  [q |-> q, z |-> z, seed |-> Seed(p, q, z), dsQ |-> r.q, dsBc |-> r.bc]

\* The targets of every discharge, as addresses in storage.
Plan(p) == UNION {{<<q, z>> : z \in Rungs(p, q)} : q \in p.qs}
=============================================================================
