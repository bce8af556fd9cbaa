------------------------------ MODULE MCExport ------------------------------
(***************************************************************************)
(* A small instance of Export: reach 1 drains into reach 2, an outlet no    *)
(* column has a flow for.                                                   *)
(***************************************************************************)
EXTENDS Export

CONSTANTS N

MCReaches == 1..N
MCBelow   == [r \in 1..N |-> IF r = N THEN None ELSE r + 1]

\* New libraries, libraries some of which were made under another model, and an
\* upper reach alone, whose normal-depth row has gone.
MCTables ==
    {<<[r \in 1..N |-> 1], [r \in 1..N |-> None]>>,
     <<[r \in 1..N |-> IF r = 1 THEN 2 ELSE 1], [r \in 1..N |-> IF r = 1 THEN 1 ELSE None]>>,
     <<[r \in 1..N |-> None], [r \in 1..N |-> IF r = 1 THEN 1 ELSE None]>>}
=============================================================================
