---------------------------- MODULE ExportClaims ----------------------------
(***************************************************************************)
(* What the documentation says of an export, where the code does something  *)
(* else.                                                                    *)
(***************************************************************************)
EXTENDS MCExport

\* reconciler/README.md:171: "An export is a snapshot of what is materialized when
\* it runs".  Its queries see the tables each at its own moment (READ COMMITTED),
\* so that a check in between leaves an export of what was never materialized.
ExportIsASnapshot == step.at \in {"tables", "rows"} => step.read \in since
=============================================================================
