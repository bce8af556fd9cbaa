------------------------------ MODULE MCIntake ------------------------------
(***************************************************************************)
(* A small instance of Intake: a chain 1 -> 2 -> 3 that ends in a lake, in  *)
(* two network files that share reach 2, where the first is cut above the   *)
(* second; reaches 1 and 2 are pieces of one flowpath.                      *)
(***************************************************************************)
EXTENDS Intake, TLC

CONSTANTS Lake, Pond, P1, P2, Own1, Default1, C1, C2

MCReaches    == 1..3
MCFlowpathOf == [r \in 1..3 |-> IF r = 3 THEN 2 ELSE 1]

Upper == [r \in {1, 2} |-> [to |-> r + 1, body |-> None]]
Lower == [r \in {2, 3} |-> IF r = 2 THEN [to |-> 3, body |-> None] ELSE [to |-> None, body |-> Lake]]
MCBodyFiles == {{Lake, Pond}}
MCNetworks == {Upper, Lower}

\* Statistics in tenths: too close for a grid, in the wrong order and wide, or
\* missing; some tables cover one of the flowpaths only.
Near    == [lower |-> 151, upper |-> 154]
Swapped == [lower |-> 2003, upper |-> 7]
Unknown == [lower |-> NaN, upper |-> 995]

MCAOIs ==
    {[network |-> Upper, flows |-> (1 :> Near), lookup |-> None, factors |-> <<10, 10>>],
     [network |-> Lower, flows |-> (1 :> Swapped), lookup |-> None, factors |-> <<10, 10>>],
     [network |-> Lower, flows |-> (1 :> Unknown @@ 2 :> Swapped), lookup |-> Own1, factors |-> <<15, 8>>],
     [network |-> Lower, flows |-> (2 :> Near), lookup |-> None, factors |-> <<10, 10>>]}

MCSymmetry == Permutations({P1, P2})
=============================================================================
