------------------------------- MODULE Claims -------------------------------
(***************************************************************************)
(* What the documentation and the messages of the repository say of the     *)
(* loop, where the code does something else.  Each statement is checked by  *)
(* a run of its own, on an instance as small as the disagreement allows.    *)
(***************************************************************************)
EXTENDS MCReconciler

\* scripts/reconcile.py:142: "stopped by hand; nothing lost".  A stop after a library
\* was recorded as changed and before the reaches above were asked to check leaves
\* a stage library bound to runs its downstream reach no longer has.
StoppedLosesNoRequest == \A r \in Reaches : Stale(r) => Noticed(r) \/ Outgrown(r)

\* reconciler/README.md:268: "To clear: processing.clear_halt(reach_id) or update
\* desired_state to bump the revision".  No trigger and no query touches halted
\* when a revision moves.
BumpingUnparks ==
    \A r \in Reaches :
        [](proc[r].halted /\ want[r].rev = 0 => []<>~(proc[r].halted /\ want[r].rev > 0))

\* db/schema/README.md:21: the materialized tables "answer 'is the thing intent
\* asks for there'".  A reach withdrawn and authored anew between the read and
\* the write of an observation starts again at revision 0, below the revision
\* the row is then written with; when the process dies in the check that was to
\* replace that row, the reach is finished by it and is never due again.
MaterializedAnswersIntent ==
    \A r \in Reaches :
        Proved(r) /\ ~proc[r].requested /\ proc[r].ref = None /\ cur # r => AsAsked(r)
=============================================================================
