-------------------------------- MODULE Gap --------------------------------
(***************************************************************************)
(* The decision ladder of recon/gap.py: what, if anything, should happen    *)
(* to one reach now, given one snapshot of it and of the reach it drains    *)
(* into.  Pure: the module has no state.                                    *)
(*                                                                          *)
(* A snapshot is a record of proofs (`model`, `nd`, `kwse` and the same     *)
(* three of the downstream reach), two facts about the network (`terminal`, *)
(* `dsTerminal`), whether a stage increment is authored, and the step that  *)
(* is in flight.  The downstream reach's id and the revision are carried by *)
(* the caller: no branch of the ladder reads them.                          *)
(***************************************************************************)

BuildModel == "build_model"
RunNd      == "run_nd_scenarios"
RunKwse    == "run_kwse_scenarios"
Steps      == {BuildModel, RunNd, RunKwse}
NoStep     == "none"

Snapshots ==
    [terminal: BOOLEAN, model: BOOLEAN, nd: BOOLEAN, kwse: BOOLEAN,
     dsModel: BOOLEAN, dsNd: BOOLEAN, dsKwse: BOOLEAN, dsTerminal: BOOLEAN,
     increment: BOOLEAN, inFlight: Steps \union {NoStep}]

\* A decision is its kind and, unless nothing is missing, the step it is about.
NoGap == [kind |-> "NoGap", step |-> NoStep]
InFlight(step) == [kind |-> "InFlight", step |-> step]
AwaitingDownstream(step) == [kind |-> "AwaitingDownstream", step |-> step]
AwaitingInputs(step) == [kind |-> "AwaitingInputs", step |-> step]
RunStep(step) == [kind |-> "RunStep", step |-> step]

Decisions ==
    [kind: {"InFlight", "AwaitingDownstream", "AwaitingInputs", "RunStep"}, step: Steps]
        \union {NoGap}

Busy(s) == s.inFlight # NoStep

\* What a rung that is not yet proved says: a running job first, then what is
\* missing from a person, then what is missing below, then the job to submit.
ModelRung(s) ==
    CASE Busy(s) -> InFlight(s.inFlight)
      [] ~Busy(s) /\ ~s.terminal /\ ~(s.dsModel /\ s.dsNd) -> AwaitingDownstream(BuildModel)
      [] OTHER -> RunStep(BuildModel)

NdRung(s) ==
    CASE Busy(s) -> InFlight(s.inFlight)
      [] ~Busy(s) /\ ~s.terminal /\ ~s.dsNd -> AwaitingDownstream(RunNd)
      [] OTHER -> RunStep(RunNd)

KwseRungStrict(s) ==
    CASE Busy(s) -> InFlight(s.inFlight)
      [] ~Busy(s) /\ ~s.increment -> AwaitingInputs(RunKwse)
      [] ~Busy(s) /\ s.increment /\ ~(s.dsModel /\ s.dsNd /\ s.dsKwse) -> AwaitingDownstream(RunKwse)
      [] OTHER -> RunStep(RunKwse)
KwseRung(s) ==
    CASE Busy(s) -> InFlight(s.inFlight)
      [] ~Busy(s) /\ ~s.increment -> AwaitingInputs(RunKwse)
      [] ~Busy(s) /\ s.increment /\ ~(s.dsModel /\ s.dsNd /\ (s.dsTerminal \/ s.dsKwse))
            -> AwaitingDownstream(RunKwse)
      [] OTHER -> RunStep(RunKwse)

\* The rungs in order; a rung that is proved says nothing.
Calculate(s) ==
    CASE ~s.model -> ModelRung(s)
      [] s.model /\ ~s.nd -> NdRung(s)
      [] s.model /\ s.nd /\ ~s.terminal /\ ~s.kwse -> KwseRung(s)
      [] OTHER -> NoGap
=============================================================================
