----------------------------- MODULE MCLibraries -----------------------------
(* An instance of Libraries: a chain of reaches, with readings from a few worlds. *)
EXTENDS Libraries

MCBelow == [r \in Reaches |-> IF r = 1 THEN None ELSE r - 1]

MCBands == {[key |-> "depth", floor |-> 2, ceiling |-> 4, relative |-> FALSE],
            [key |-> "area", floor |-> 20, ceiling |-> 100, relative |-> TRUE]}

MCOnGrid == [r \in Reaches |-> IF r = 1 THEN {2, 4, 6} ELSE {2, 4}]
Wanted(lower, upper, dz) == [lower |-> lower, upper |-> upper, dz |-> dz, top |-> None]
MCIntents ==
    [r \in Reaches |->
        IF r = 1 THEN {Wanted(2, 6, 4), Wanted(2, 4, 4)} ELSE {Wanted(2, 4, 4), Wanted(2, 4, 8)}]
MCShare == [r \in Reaches |-> 50]

\* Depth, stage and flooded area rise with discharge: slowly, or by jumps.
World(depths, areas) ==
    [r \in Reaches |->
        [q \in {2, 4, 6} |->
            LET i == q \div 2
            IN  [wse |-> 3 * depths[i] + r, depth |-> depths[i], median |-> 0, area |-> areas[i]]]]
MCWorlds ==
    {World(<<1, 2, 3>>, <<100, 120, 150>>),
     World(<<1, 2, 8>>, <<50, 100, 250>>)}

MCRaised(wse, z) == IF z >= wse THEN z + 1 ELSE wse
=============================================================================
