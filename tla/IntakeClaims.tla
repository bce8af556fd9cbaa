---------------------------- MODULE IntakeClaims ----------------------------
(***************************************************************************)
(* What a message of the intake commands says, where the code does          *)
(* something else.                                                          *)
(***************************************************************************)
EXTENDS MCIntake

\* scripts/author_intent.py:102: "NAN flow values found for ... reaches".  A missing
\* statistic is a whole number, at least 1, by the time it is looked for, so that
\* the reach is authored with bounds nobody gave it.
MissingFlowsAreRefused ==
    \A p \in Procs : cmd[p].at = "write" =>
        \A r \in Wanted(cmd[p].aoi) :
            LET s == cmd[p].aoi.flows[FlowpathOf[r]] IN NaN \notin {s.lower, s.upper}
=============================================================================
