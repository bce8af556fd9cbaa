---------------------------- MODULE MCReconciler ----------------------------
(***************************************************************************)
(* Small instances of the reconciliation loop for TLC: a chain of N reaches *)
(* that drains from reach 1 into the terminal reach N, so that the id order *)
(* of the loop is against the order in which the reaches can be proved.     *)
(***************************************************************************)
EXTENDS Reconciler

CONSTANTS N

MCReaches   == 1..N
MCTerminals == {N}
MCBelow     == [r \in 1..N |-> IF r = N THEN None ELSE r + 1]
MCStages    == 1..2

\* What may be authored: one intent; two upper discharges; a discharge and the
\* absence of a stage increment; or two models.
MCIntents1  == {[model |-> 1, q |-> 1, dz |-> TRUE]}
MCIntents2  == MCIntents1 \union {[model |-> 1, q |-> 2, dz |-> TRUE]}
MCIntents3  == MCIntents2 \union {[model |-> 1, q |-> 1, dz |-> FALSE]}
MCIntentsM  == {[model |-> m, q |-> 1, dz |-> TRUE] : m \in Models}

\* A library keeps the runs its intent asks for, and passes later ones over.
MCAdoptedOf == [a \in Discharges \X Discharges |-> {d \in Discharges : d <= a[1] /\ d <= a[2]}]

\* A planner as sensitive as the real one to what it reads below: the lowest stage
\* rises with the runs that are kept, the highest with the runs on the stage curve,
\* kept or passed over, and with the stages below.
MCPlanOf    == [a \in (SUBSET Discharges) \X Discharges \X (SUBSET Discharges) \X Discharges \X SUBSET Stages |->
                  {s \in Stages : Cardinality(a[3]) <= s /\ s <= a[4] + Cardinality(a[5])}]
=============================================================================
