-------------------------- MODULE ReconcilerProofs --------------------------
(***************************************************************************)
(* Proofs about the reconciliation loop, for every network, every planner   *)
(* and every value of the bounds.                                           *)
(***************************************************************************)
EXTENDS Reconciler, TLAPS

-----------------------------------------------------------------------------
(* The operators the loop is built from *)

\* Every statement on reach_processing leaves a well-formed row.
LEMMA ProcOps ==
    ASSUME NEW p \in ProcRow
    PROVE  /\ Requested(p) \in ProcRow
           /\ Unmarked(p) \in ProcRow
           /\ Failed(p) \in ProcRow
           /\ Forgiven(p) \in ProcRow
           /\ \A step \in Steps \union {NoStep}, ref \in JobIds \union {None} :
                 Marked(p, step, ref) \in ProcRow
<1>. USE DEF ProcRow
<1>1. Requested(p) \in ProcRow BY DEF Requested
<1>2. Unmarked(p) \in ProcRow BY DEF Unmarked
<1>3. Failed(p) \in ProcRow
  <2>1. ASSUME NEW u \in ProcRow, NEW n \in Nat, NEW h \in BOOLEAN
        PROVE  [u EXCEPT !.failures = n, !.halted = h, !.resting = TRUE] \in ProcRow
    BY <2>1
  <2>2. Unmarked(p).failures + 1 \in Nat BY <1>2
  <2>3. (p.failures + 1 >= HaltAfter) \in BOOLEAN OBVIOUS
  <2>. QED BY <1>2, <2>1, <2>2, <2>3 DEF Failed
<1>4. Forgiven(p) \in ProcRow BY DEF Forgiven
<1>5. ASSUME NEW step \in Steps \union {NoStep}, NEW ref \in JobIds \union {None}
      PROVE  Marked(p, step, ref) \in ProcRow
  BY DEF Marked
<1>. QED BY <1>1, <1>2, <1>3, <1>4, <1>5

\* The ladder names a step to run only when nothing is in flight, and is silent
\* only when every rung of the reach is proved.
LEMMA LadderIsSound ==
    ASSUME NEW s
    PROVE  /\ Calculate(s).kind = "RunStep" => Calculate(s).step \in Steps /\ ~Busy(s)
           /\ Calculate(s) = NoGap => s.model /\ s.nd /\ (s.terminal \/ s.kwse)
<1>. USE DEF Calculate, ModelRung, NdRung, KwseRung, NoGap, InFlight, AwaitingDownstream,
             AwaitingInputs, RunStep, Steps, BuildModel, RunNd, RunKwse, NoStep
<1>1. CASE ~s.model BY <1>1
<1>2. CASE s.model /\ ~s.nd BY <1>2
<1>3. CASE s.model /\ s.nd /\ ~s.terminal /\ ~s.kwse BY <1>3
<1>4. CASE s.model /\ s.nd /\ (s.terminal \/ s.kwse) BY <1>4
<1>. QED BY <1>1, <1>2, <1>3, <1>4

-----------------------------------------------------------------------------
(* Types *)

CheckPhases == {"readModel", "recordModel", "readNd", "recordNd", "readKwse", "recordKwse",
                "notify", "forgive", "decide", "act", "submit", "mark", "request"}

\* What is typed by where the loop stands: it is at a reach, it has decided on a
\* step, SEPEX has returned a reference.
Where ==
    /\ pc \in CheckPhases \union {"pollRequest"} => cur \in Reaches
    /\ pc \in {"submit", "mark"} => note.gap.step \in Steps
    /\ pc = "mark" => note.ref \in JobIds

Typed == TypeOK /\ Where

\* A check that has nothing in hand.
LEMMA BlankTyped == Blank \in Note
BY DEF Blank, Note, Decisions

\* The initial state is typed.
LEMMA InitTyped == Init => Typed
<1>. SUFFICES ASSUME Init PROVE Typed OBVIOUS
<1>. USE DEF Init
<1>1. WantTyped BY DEF WantTyped
<1>2. RowsTyped BY DEF RowsTyped
<1>3. ProcTyped BY DEF ProcTyped, ProcRow, NewProc
<1>4. StorageTyped BY DEF StorageTyped
<1>5. JobsTyped BY DEF JobsTyped
<1>6. LoopTyped BY BlankTyped DEF LoopTyped, Phases
<1>7. SpentTyped BY SettingAssumption DEF SpentTyped
<1>8. Where BY DEF Where, CheckPhases
<1>. QED BY <1>1, <1>2, <1>3, <1>4, <1>5, <1>6, <1>7, <1>8 DEF Typed, TypeOK

\* What an action leaves alone stays typed.
LEMMA Frame ==
    ASSUME Typed
    PROVE  /\ UNCHANGED want => WantTyped'
           /\ UNCHANGED db => RowsTyped'
           /\ UNCHANGED proc => ProcTyped'
           /\ UNCHANGED storage => StorageTyped'
           /\ UNCHANGED jobs => JobsTyped'
           /\ UNCHANGED loop => LoopTyped' /\ Where'
           /\ UNCHANGED spent => SpentTyped'
<1>. USE DEF Typed, TypeOK
<1>1. UNCHANGED want => WantTyped' BY DEF WantTyped
<1>2. UNCHANGED db => RowsTyped' BY DEF RowsTyped, db
<1>3. UNCHANGED proc => ProcTyped' BY DEF ProcTyped
<1>4. UNCHANGED storage => StorageTyped' BY DEF StorageTyped, storage
<1>5. UNCHANGED jobs => JobsTyped' BY DEF JobsTyped
<1>6. UNCHANGED loop => LoopTyped' /\ Where' BY DEF LoopTyped, Where, loop
<1>7. UNCHANGED spent => SpentTyped' BY DEF SpentTyped
<1>. QED BY <1>1, <1>2, <1>3, <1>4, <1>5, <1>6, <1>7

\* A bound that is used moves by one and stays within itself.
LEMMA SpendTyped ==
    ASSUME SpentTyped, NEW f \in {"edits", "withdrawals", "lookups", "faults", "crashes"}, Spend(f)
    PROVE  SpentTyped'
<1>. USE SettingAssumption DEF SpentTyped, Spend
<1>1. CASE f = "edits" BY <1>1
<1>2. CASE f = "faults" BY <1>2
<1>3. CASE f = "withdrawals" BY <1>3
<1>4. CASE f = "lookups" BY <1>4
<1>5. CASE f = "crashes" BY <1>5
<1>. QED BY <1>1, <1>2, <1>3, <1>4, <1>5

\* Forgetting jobs leaves a well-formed record of the others.
LEMMA ReapedTyped ==
    ASSUME NEW js \in [JobIds -> JobRow \union {None}], NEW ps, NEW held
    PROVE  Reaped(js, ps, held) \in [JobIds -> JobRow \union {None}]
BY DEF Reaped

\* One row of reach_processing changes, or none.
LEMMA ProcUpdate ==
    ASSUME ProcTyped, NEW r, NEW p, r \in Reaches => p \in ProcRow
    PROVE  [proc EXCEPT ![r] = p] \in [Reaches -> ProcRow]
BY DEF ProcTyped

\* What an observation leaves in the loop's memory.
LEMMA NoteOps ==
    ASSUME NEW n \in Note, NEW tell \in BOOLEAN, NEW landed \in BOOLEAN
    PROVE  /\ [n EXCEPT !.wanted = None, !.was = 0, !.landed = landed] \in Note
           /\ [n EXCEPT !.wanted = None, !.was = 0, !.tell = tell, !.landed = landed] \in Note
           /\ [n EXCEPT !.wanted = None, !.was = 0, !.plan = {}, !.tell = tell,
                        !.landed = landed] \in Note
<1>. DEFINE nothing == None
            zero    == 0
            noPlan  == {}
<1>1. nothing \in Wanted \union {None} /\ zero \in Int /\ noPlan \in SUBSET SUBSET Stages OBVIOUS
<1>. HIDE DEF nothing, zero, noPlan
<1>2. [n EXCEPT !.wanted = nothing, !.was = zero, !.landed = landed] \in Note BY <1>1 DEF Note
<1>3. [n EXCEPT !.wanted = nothing, !.was = zero, !.tell = tell, !.landed = landed] \in Note
  BY <1>1 DEF Note
<1>4. [n EXCEPT !.wanted = nothing, !.was = zero, !.plan = noPlan, !.tell = tell,
                !.landed = landed] \in Note
  BY <1>1 DEF Note
<1>. QED BY <1>2, <1>3, <1>4 DEF nothing, zero, noPlan

\* Polling, listing and ending a pass keep the types.
LEMMA PassTyped == ASSUME Typed, Pass PROVE Typed'
<1>. USE DEF Typed, TypeOK
<1>1. CASE BeginPass
  <2>. DEFINE passes == IF tally.passes < 3 THEN tally.passes + 1 ELSE tally.passes
  <2>a. passes \in 0..3 BY DEF LoopTyped
  <2>b. tally' = [tally EXCEPT !.submitted = FALSE, !.passes = passes] BY <1>1 DEF BeginPass
  <2>1. LoopTyped' /\ Where'
    <3>. HIDE DEF passes
    <3>. QED BY <1>1, <2>a, <2>b DEF BeginPass, LoopTyped, Where, Phases, CheckPhases
  <2>. QED BY <1>1, <2>1, Frame DEF BeginPass
<1>2. CASE Poll
  <2>. PICK r \in todo :
         PollRunning(r) \/ PollUnknown(r) \/ PollLost(r) \/ PollSucceeded(r) \/ PollFailed(r)
    BY <1>2 DEF Poll
  <2>0. pc = "poll" /\ r \in Reaches BY <1>2 DEF Poll, LoopTyped
  <2>1. CASE PollRunning(r)
    <3>1. LoopTyped' /\ Where' BY <2>0, <2>1 DEF PollRunning, LoopTyped, Where, CheckPhases
    <3>. QED BY <2>1, <3>1, Frame DEF PollRunning
  <2>2. CASE PollUnknown(r)
    <3>1. LoopTyped' /\ Where' BY <2>0, <2>2 DEF PollUnknown, LoopTyped, Where, CheckPhases
    <3>. QED BY <2>2, <3>1, Frame, SpendTyped DEF PollUnknown
  <2>3. ASSUME NEW p \in ProcRow, PollCommit(r, p)
        PROVE  WantTyped' /\ RowsTyped' /\ ProcTyped' /\ StorageTyped' /\ JobsTyped' /\ LoopTyped' /\ Where'
    <3>1. LoopTyped' /\ Where'
      BY <2>0, <2>3 DEF PollCommit, LoopTyped, Where, CheckPhases, Phases
    <3>2. ProcTyped' BY <2>3, ProcUpdate DEF PollCommit, ProcTyped
    <3>3. JobsTyped' BY <2>3, ReapedTyped DEF PollCommit, JobsTyped
    <3>. QED BY <2>3, <3>1, <3>2, <3>3, Frame DEF PollCommit
  <2>4. proc[r] \in ProcRow BY <2>0 DEF ProcTyped
  <2>5. CASE PollLost(r) BY <2>3, <2>4, <2>5, ProcOps, SpendTyped DEF PollLost
  <2>6. CASE PollSucceeded(r) BY <2>3, <2>4, <2>6, ProcOps, Frame DEF PollSucceeded
  <2>7. CASE PollFailed(r) BY <2>3, <2>4, <2>7, ProcOps, Frame DEF PollFailed
  <2>. QED BY <2>1, <2>2, <2>5, <2>6, <2>7
<1>3. CASE PollRequest
  <2>1. LoopTyped' /\ Where' BY <1>3 DEF PollRequest, LoopTyped, Where, Phases, CheckPhases
  <2>2. ProcTyped' BY <1>3, ProcUpdate, ProcOps DEF PollRequest, ProcTyped
  <2>. QED BY <1>3, <2>1, <2>2, Frame DEF PollRequest
<1>4. CASE ListDue
  <2>1. LoopTyped' /\ Where' BY <1>4 DEF ListDue, LoopTyped, Where, Phases, CheckPhases
  <2>. QED BY <1>4, <2>1, Frame DEF ListDue
<1>5. CASE EndPass
  <2>. DEFINE busy  == \E r \in Reaches : want[r] # None /\ ~proc[r].halted /\ proc[r].step # NoStep
              quiet == CASE busy \/ tally.submitted -> 0
                         [] ~(busy \/ tally.submitted) /\ tally.quiet < 2 -> tally.quiet + 1
                         [] OTHER -> 2
  <2>a. tally.quiet \in 0..2 BY DEF LoopTyped
  <2>b. quiet \in 0..2
    <3>. HIDE DEF busy
    <3>. QED BY <2>a
  <2>c. tally' = [tally EXCEPT !.quiet = quiet] /\ pc' \in {"exited", "asleep"} /\ UNCHANGED <<todo, cur, note>>
    BY <1>5 DEF EndPass
  <2>1. LoopTyped' /\ Where'
    <3>. HIDE DEF quiet
    <3>. QED BY <2>b, <2>c DEF LoopTyped, Where, Phases, CheckPhases
  <2>. QED BY <1>5, <2>1, Frame DEF EndPass
<1>. QED BY <1>1, <1>2, <1>3, <1>4, <1>5 DEF Pass

\* A plan that can be made names stages.
LEMMA PlannedTyped ==
    ASSUME WantTyped, RowsTyped, NEW r \in Reaches, Plannable(r)
    PROVE  /\ Planned(r) \subseteq Stages
           /\ \A c \in Discharges : PlanOn(r, c) \subseteq Stages
<1>. DEFINE d == Below[r]
<1>1. d \in Reaches BY NetworkAssumption DEF Plannable
<1>2. nd[r].qs \subseteq Discharges /\ nd[d].qs \subseteq Discharges
  BY <1>1 DEF Plannable, RowsTyped, NdRow
<1>3. want[d].q \in Discharges BY <1>1 DEF Plannable, WantTyped, Wanted
<1>4. StagesOf(d) \subseteq Stages BY <1>1 DEF StagesOf, RowsTyped, KwseRow
<1>5. ASSUME NEW c \in Discharges PROVE PlanOn(r, c) \subseteq Stages
  <2>1. <<nd[r].qs, want[d].q, nd[d].qs, c, StagesOf(d)>>
          \in (SUBSET Discharges) \X Discharges \X (SUBSET Discharges) \X Discharges \X SUBSET Stages
    BY <1>2, <1>3, <1>4
  <2>. QED BY <2>1, PlanningAssumption DEF PlanOn
<1>6. nd[d].q \in Discharges BY <1>1 DEF Plannable, RowsTyped, NdRow
<1>. QED BY <1>5, <1>6 DEF Planned

\* The observations keep the types: what they write is built from the intent
\* they read, from storage and from a plan that can be made.
LEMMA ObserveTyped ==
    ASSUME Typed,
           StartCheck \/ ReadIntent \/ RecordModel \/ RecordNd \/ RecordKwse \/ Notify \/ Forgive
    PROVE  Typed'
<1>. USE DEF Typed, TypeOK
<1>1. CASE StartCheck 
  <2>. PICK r \in todo :
         /\ proc' = [proc EXCEPT ![r].seen = "checked", ![r].requested = FALSE]
         /\ todo' = todo \ {r}
         /\ cur' = r
    BY <1>1 DEF StartCheck
  <2>0. r \in Reaches BY DEF LoopTyped
  <2>1. LoopTyped' /\ Where' BY <1>1, <2>0 DEF StartCheck, LoopTyped, Where, CheckPhases, Phases
  <2>2. ProcTyped'
    <3>. DEFINE p == [[proc[r] EXCEPT !.seen = "checked"] EXCEPT !.requested = FALSE]
    <3>1. p \in ProcRow BY <2>0 DEF ProcTyped, ProcRow
    <3>2. proc' = [proc EXCEPT ![r] = p] BY <2>0 DEF ProcTyped
    <3>. HIDE DEF p
    <3>. QED BY <3>1, <3>2, ProcUpdate DEF ProcTyped
  <2>. QED BY <1>1, <2>1, <2>2, Frame DEF StartCheck
<1>2. CASE ReadIntent
  <2>0. pc \in CheckPhases BY <1>2 DEF ReadIntent, CheckPhases
  <2>1. cur \in Reaches BY <2>0 DEF Where
  <2>2. want[cur] \in Wanted \union {None} BY <2>1 DEF WantTyped
  <2>3. RowBefore = None \/ RowBefore.rev \in Int
    BY <2>1 DEF RowBefore, RowsTyped, ModelRow, NdRow, KwseRow
  <2>4. note' \in Note
    <3>. DEFINE was == IF RowBefore = None THEN 0 ELSE RowBefore.rev
                w    == want[cur]
                plan == PlanNow
    <3>1. was \in Int /\ w \in Wanted \union {None} BY <2>2, <2>3
    <3>2. note' = [note EXCEPT !.wanted = w, !.was = was, !.plan = plan] BY <1>2 DEF ReadIntent
    <3>3. note \in Note BY DEF LoopTyped
    <3>5. plan \in SUBSET SUBSET Stages BY <2>1, PlannedTyped DEF PlanNow
    <3>. HIDE DEF was, w, plan
    <3>4. [note EXCEPT !.wanted = w, !.was = was, !.plan = plan] \in Note BY <3>1, <3>3, <3>5 DEF Note
    <3>. QED BY <3>2, <3>4
  <2>5. LoopTyped' /\ Where' BY <1>2, <2>1, <2>4 DEF ReadIntent, LoopTyped, Where, CheckPhases, Phases
  <2>. QED BY <1>2, <2>5, Frame DEF ReadIntent
<1>3. CASE RecordModel
  <2>. DEFINE w     == note.wanted
              found == w # None /\ w.model \in built[cur]
              row   == IF found THEN [model |-> w.model, rev |-> RowRevision(w)] ELSE None
              new(was) == mm[cur] = None \/ <<row.model, row.rev>> # <<mm[cur].model, was>>
  <2>1. cur \in Reaches BY <1>3 DEF RecordModel, Where, CheckPhases
  <2>2. row \in ModelRow \union {None} BY DEF LoopTyped, Note, Wanted, ModelRow, RowRevision
  <2>3. RowsTyped'
    <3>. HIDE DEF row
    <3>1. mm' = [mm EXCEPT ![cur] = row] /\ UNCHANGED <<nd, kw>> BY <1>3 DEF RecordModel, row
    <3>. QED BY <2>2, <3>1 DEF RowsTyped
  <2>4. note' \in Note
    <3>1. PICK was : note' = [note EXCEPT !.wanted = None, !.was = 0, !.landed = found /\ new(was)]
      BY <1>3 DEF RecordModel
    <3>. DEFINE landed == found /\ new(was)
    <3>2. landed \in BOOLEAN OBVIOUS
    <3>. HIDE DEF found, new, landed
    <3>3. note' = [note EXCEPT !.wanted = None, !.was = 0, !.landed = landed] BY <3>1 DEF landed
    <3>4. note \in Note BY DEF LoopTyped
    <3>. QED BY <3>2, <3>3, <3>4, NoteOps, Zenon
  <2>5. LoopTyped' /\ Where' BY <1>3, <2>1, <2>4 DEF RecordModel, LoopTyped, Where, CheckPhases, Phases
  <2>. QED BY <1>3, <2>3, <2>5, Frame DEF RecordModel
<1>4. CASE RecordNd
  <2>1. cur \in Reaches BY <1>4 DEF RecordNd, Where, CheckPhases
  <2>2. NdRowOf(note.wanted) \in NdRow \union {None}
    <3>. DEFINE w == note.wanted
    <3>1. CASE ~NdFound(w) BY <3>1 DEF NdRowOf
    <3>2. CASE NdFound(w)
      <4>1. w \in Wanted BY <3>2 DEF NdFound, ModelAgrees, LoopTyped, Note
      <4>2. w.model \in Models /\ w.q \in Discharges /\ w.rev \in Int BY <4>1 DEF Wanted
      <4>6. w.q \in Nat \ {0} BY <4>2, ArtifactAssumption
      <4>3. swept[cur][w.model] \in Discharges \union {0} BY <2>1, <4>2 DEF StorageTyped
      <4>4. swept[cur][w.model] \in Discharges BY <4>3, <4>6, <3>2, ArtifactAssumption DEF NdFound
      <4>5. AdoptedOf[swept[cur][w.model], w.q] \in SUBSET Discharges
        BY <4>1, <4>4, PlanningAssumption DEF Wanted
      <4>. QED BY <3>2, <4>2, <4>4, <4>5 DEF NdRowOf, NdRow, RowRevision
    <3>. QED BY <3>1, <3>2
  <2>3. RowsTyped' BY <1>4, <2>2 DEF RecordNd, RowsTyped
  <2>4. note' \in Note
    <3>. DEFINE row == NdRowOf(note.wanted)
                tell == NdChanged(row)
                landed == note.landed \/ (row # None /\ tell)
    <3>1. tell \in BOOLEAN /\ landed \in BOOLEAN BY DEF NdChanged, LoopTyped, Note
    <3>2. note' = [note EXCEPT !.wanted = None, !.was = 0, !.tell = tell, !.landed = landed]
      BY <1>4 DEF RecordNd
    <3>. HIDE DEF tell, landed
    <3>4. note \in Note BY DEF LoopTyped
    <3>. QED BY <3>1, <3>2, <3>4, NoteOps, Zenon
  <2>5. LoopTyped' /\ Where' BY <1>4, <2>1, <2>4 DEF RecordNd, LoopTyped, Where, CheckPhases, Phases
  <2>. QED BY <1>4, <2>3, <2>5, Frame DEF RecordNd
<1>5. CASE RecordKwse
  <2>1. cur \in Reaches BY <1>5 DEF RecordKwse, Where, CheckPhases
  <2>2. KwseRowOf(note.wanted) \in KwseRow \union {None}
    <3>. DEFINE w == note.wanted
    <3>1. CASE ~KwseFound(w) BY <3>1 DEF KwseRowOf
    <3>2. CASE KwseFound(w)
      <4>1. w \in Wanted BY <3>2 DEF KwseFound, ModelAgrees, LoopTyped, Note
      <4>2. w.model \in Models /\ w.rev \in Int BY <4>1 DEF Wanted
      <4>3. UNION note.plan \subseteq Stages BY DEF LoopTyped, Note
      <4>. QED BY <3>2, <4>2, <4>3 DEF KwseRowOf, KwseRow, RowRevision
    <3>. QED BY <3>1, <3>2
  <2>3. RowsTyped' BY <1>5, <2>2 DEF RecordKwse, RowsTyped
  <2>4. note' \in Note
    <3>. DEFINE row == KwseRowOf(note.wanted)
                tell == note.tell \/ KwseChanged(row)
                landed == note.landed \/ (row # None /\ KwseChanged(row))
    <3>1. tell \in BOOLEAN /\ landed \in BOOLEAN BY DEF KwseChanged, LoopTyped, Note
    <3>2. note' = [note EXCEPT !.wanted = None, !.was = 0, !.plan = {}, !.tell = tell, !.landed = landed]
      BY <1>5 DEF RecordKwse
    <3>. HIDE DEF tell, landed
    <3>4. note \in Note BY DEF LoopTyped
    <3>. QED BY <3>1, <3>2, <3>4, NoteOps, Zenon
  <2>5. LoopTyped' /\ Where' BY <1>5, <2>1, <2>4 DEF RecordKwse, LoopTyped, Where, CheckPhases, Phases
  <2>. QED BY <1>5, <2>3, <2>5, Frame DEF RecordKwse
<1>6. CASE Notify
  <2>1. LoopTyped' /\ Where' BY <1>6 DEF Notify, LoopTyped, Note, Where, CheckPhases, Phases
  <2>2. ProcTyped' BY <1>6, ProcOps DEF Notify, ProcTyped
  <2>. QED BY <1>6, <2>1, <2>2, Frame DEF Notify
<1>7. CASE Forgive
  <2>1. LoopTyped' /\ Where' BY <1>7 DEF Forgive, LoopTyped, Note, Where, CheckPhases, Phases
  <2>2. ProcTyped' BY <1>7, ProcOps, ProcUpdate DEF Forgive, ProcTyped
  <2>. QED BY <1>7, <2>1, <2>2, Frame DEF Forgive
<1>. QED BY <1>1, <1>2, <1>3, <1>4, <1>5, <1>6, <1>7

\* A decision is one of those the ladder knows.
LEMMA DecisionTyped ==
    ASSUME Typed, cur \in Reaches
    PROVE  Decision \in Decisions
<1>. DEFINE s == SnapshotOf(cur)
<1>1. s.inFlight \in Steps \union {NoStep}
  BY DEF SnapshotOf, Typed, TypeOK, ProcTyped, ProcRow
<1>. HIDE DEF s
<1>. USE DEF ModelRung, NdRung, KwseRung, NoGap, InFlight, AwaitingDownstream, AwaitingInputs,
             RunStep, Steps, BuildModel, RunNd, RunKwse, NoStep, Busy, Decisions
<1>2. Calculate(s) \in Decisions
  <2>1. ModelRung(s) \in Decisions BY <1>1
  <2>2. NdRung(s) \in Decisions BY <1>1
  <2>3. KwseRung(s) \in Decisions BY <1>1
  <2>. HIDE DEF ModelRung, NdRung, KwseRung
  <2>. QED BY <2>1, <2>2, <2>3 DEF Calculate
<1>. QED BY <1>2 DEF Decision, s

\* Deciding and acting keep the types; the step a decision names is a step.
LEMMA DecideTyped == ASSUME Typed, Decide \/ Act PROVE Typed'
<1>. USE DEF Typed, TypeOK
<1>0. cur \in Reaches /\ proc[cur] \in ProcRow /\ note \in Note
  BY DEF Decide, Act, Where, CheckPhases, ProcTyped, LoopTyped
<1>1. ASSUME EndCheck, UNCHANGED <<todo, tally>> PROVE LoopTyped' /\ Where'
  BY <1>1, BlankTyped DEF EndCheck, LoopTyped, Where, Phases, CheckPhases
<1>2. CASE Decide /\ (Skip \/ LeaveAlone) BY <1>1, <1>2, Frame DEF Decide, Skip, LeaveAlone
<1>3. CASE Decide /\ Resolve
  <2>1. note' \in Note
    <3>. DEFINE g == Decision
                n == want[cur].rev
    <3>1. g \in Decisions BY <1>0, DecisionTyped
    <3>2. n \in Nat BY <1>0, <1>3 DEF Resolve, WantTyped, Wanted
    <3>3. note' = [note EXCEPT !.gap = g, !.rev = n] BY <1>3 DEF Resolve
    <3>. HIDE DEF g, n
    <3>. QED BY <1>0, <3>1, <3>2, <3>3 DEF Note
  <2>2. LoopTyped' /\ Where'
    BY <1>0, <1>3, <2>1 DEF Decide, Resolve, LoopTyped, Where, Phases, CheckPhases
  <2>. QED BY <1>3, <2>2, Frame DEF Decide, Resolve
<1>4. CASE Act /\ Satisfied
  <2>1. [Unmarked(proc[cur]) EXCEPT !.blocked = FALSE] \in ProcRow
    <3>. DEFINE u == Unmarked(proc[cur])
    <3>1. u \in ProcRow BY <1>0, ProcOps
    <3>. HIDE DEF u
    <3>2. [u EXCEPT !.blocked = FALSE] \in ProcRow BY <3>1 DEF ProcRow
    <3>. QED BY <3>2 DEF u
  <2>2. ProcTyped' BY <1>4, <2>1, ProcUpdate DEF Satisfied, ProcTyped
  <2>3. JobsTyped' BY <1>4, ReapedTyped DEF Satisfied, JobsTyped
  <2>. QED BY <1>1, <1>4, <2>2, <2>3, Frame DEF Act, Satisfied
<1>5. CASE Act /\ Await
  <2>. DEFINE b == note.gap.kind = "AwaitingDownstream"
  <2>1. [proc[cur] EXCEPT !.blocked = b] \in ProcRow
    <3>1. b \in BOOLEAN OBVIOUS
    <3>. HIDE DEF b
    <3>. QED BY <1>0, <3>1 DEF ProcRow
  <2>2. proc' = [proc EXCEPT ![cur] = [proc[cur] EXCEPT !.blocked = b]] BY <1>5 DEF Await
  <2>3. ProcTyped' BY <2>1, <2>2, ProcUpdate DEF ProcTyped
  <2>. QED BY <1>1, <1>5, <2>3, Frame DEF Act, Await
<1>6. CASE Act /\ Choose
  <2>1. [proc[cur] EXCEPT !.blocked = FALSE] \in ProcRow BY <1>0 DEF ProcRow
  <2>2. proc' = [proc EXCEPT ![cur] = [proc[cur] EXCEPT !.blocked = FALSE]] BY <1>6 DEF Choose
  <2>3. ProcTyped' BY <2>1, <2>2, ProcUpdate DEF ProcTyped
  <2>4. note.gap.step \in Steps BY <1>0, <1>6 DEF Choose, Note, Decisions, NoGap
  <2>5. LoopTyped' /\ Where'
    BY <1>0, <1>6, <2>4 DEF Act, Choose, LoopTyped, Where, Phases, CheckPhases
  <2>. QED BY <1>6, <2>3, <2>5, Frame DEF Act, Choose
<1>. QED BY <1>2, <1>3, <1>4, <1>5, <1>6 DEF Decide, Act

\* A job that is submitted is typed by the rows its payload is built from.
LEMMA StartedTyped ==
    ASSUME Typed, NEW r \in Reaches, NEW step \in Steps, NEW j \in JobIds, Started(r, step, j)
    PROVE  JobsTyped'
<1>. USE DEF Typed, TypeOK
<1>1. want[r] \in Wanted BY DEF Started, Ready, WantTyped
<1>2. step # BuildModel => mm[r] \in ModelRow
  BY DEF Started, Ready, Plannable, RowsTyped, Steps
<1>3. step = RunKwse => Missing(r) \subseteq Stages
  BY PlannedTyped DEF Started, Ready, Missing
<1>4. JobFor(r, step) \in JobRow BY <1>1, <1>2, <1>3 DEF JobFor, JobRow, Wanted, ModelRow
<1>. QED BY <1>4 DEF Started, JobsTyped

\* Submitting, marking and requesting keep the types.
LEMMA SubmitTyped == ASSUME Typed, Submit \/ Mark \/ Request PROVE Typed'
<1>. USE DEF Typed, TypeOK
<1>0. cur \in Reaches /\ proc[cur] \in ProcRow /\ note \in Note
  BY DEF Submit, Mark, Request, Where, CheckPhases, ProcTyped, LoopTyped
<1>1. ASSUME EndCheck, UNCHANGED <<todo, tally>> PROVE LoopTyped' /\ Where'
  BY <1>1, BlankTyped DEF EndCheck, LoopTyped, Where, Phases, CheckPhases
<1>2. CASE Submit
  <2>0. note.gap.step \in Steps BY <1>2 DEF Submit, Where
  <2>1. CASE SubmitAccepted
    <3>. PICK j \in JobIds : Started(cur, note.gap.step, j) /\ note' = [note EXCEPT !.ref = j]
      BY <2>1 DEF SubmitAccepted
    <3>1. JobsTyped' BY <1>0, <2>0, StartedTyped
    <3>2. LoopTyped' /\ Where'
      BY <1>0, <1>2, <2>0, <2>1 DEF Submit, SubmitAccepted, LoopTyped, Note, Where, Phases, CheckPhases
    <3>. QED BY <1>2, <2>1, <3>1, <3>2, Frame DEF Submit, SubmitAccepted
  <2>2. CASE SubmitNothing
    <3>1. LoopTyped' /\ Where'
      BY <1>0, <1>2, <2>2 DEF Submit, SubmitNothing, LoopTyped, Where, Phases, CheckPhases
    <3>. QED BY <1>2, <2>2, <3>1, Frame DEF Submit, SubmitNothing
  <2>3. ASSUME proc' = [proc EXCEPT ![cur] = Failed(@)] PROVE ProcTyped'
    BY <1>0, <2>3, ProcOps, ProcUpdate DEF ProcTyped
  <2>4. CASE SubmitRaises
    <3>1. SpentTyped' BY <2>4, SpendTyped, Frame DEF SubmitRaises
    <3>. QED BY <1>1, <1>2, <2>3, <2>4, <3>1, Frame DEF Submit, SubmitRaises
  <2>5. CASE SubmitTimesOut
    <3>1. JobsTyped' BY <1>0, <2>0, <2>5, StartedTyped DEF SubmitTimesOut
    <3>2. SpentTyped' BY <2>5, SpendTyped DEF SubmitTimesOut
    <3>. QED BY <1>1, <1>2, <2>3, <2>5, <3>1, <3>2, Frame DEF Submit, SubmitTimesOut
  <2>. QED BY <1>2, <2>1, <2>2, <2>4, <2>5 DEF Submit
<1>3. CASE Mark
  <2>0. note.gap.step \in Steps /\ note.ref \in JobIds BY <1>3 DEF Mark, Where
  <2>1. ProcTyped' BY <1>0, <1>3, <2>0, ProcOps, ProcUpdate DEF Mark, ProcTyped
  <2>2. LoopTyped' /\ Where' BY <1>0, <1>3 DEF Mark, LoopTyped, Where, Phases, CheckPhases
  <2>. QED BY <1>3, <2>1, <2>2, Frame DEF Mark
<1>4. CASE Request
  <2>1. ProcTyped' BY <1>0, <1>4, ProcOps, ProcUpdate DEF Request, ProcTyped
  <2>. QED BY <1>1, <1>4, <2>1, Frame DEF Request
<1>. QED BY <1>2, <1>3, <1>4

\* So do dying and starting again,
LEMMA CrashTyped == ASSUME Typed, Crash \/ Restart PROVE Typed'
<1>. USE DEF Typed, TypeOK
<1>1. CASE Crash
  <2>1. LoopTyped' /\ Where'
    BY <1>1, BlankTyped DEF Crash, Idle, LoopTyped, Where, Phases, CheckPhases
  <2>2. JobsTyped' BY <1>1, ReapedTyped DEF Crash, JobsTyped
  <2>3. SpentTyped' BY <1>1, SpendTyped DEF Crash
  <2>. QED BY <1>1, <2>1, <2>2, <2>3, Frame DEF Crash
<1>2. CASE Restart
  <2>1. LoopTyped' /\ Where' BY <1>2 DEF Restart, Idle, LoopTyped, Where, Phases, CheckPhases
  <2>. QED BY <1>2, <2>1, Frame DEF Restart
<1>. QED BY <1>1, <1>2

\* ... what jobs publish and how they end,
LEMMA JobsStepTyped == ASSUME Typed, Jobs PROVE Typed'
<1>. USE DEF Typed, TypeOK
<1>. PICK j \in JobIds : Publish(j) \/ Succeed(j) \/ SucceedHollow(j) \/ FailJob(j)
  BY DEF Jobs
<1>1. CASE Publish(j)
  <2>. DEFINE b == jobs[j]
  <2>1. b \in JobRow BY <1>1 DEF Publish, JobsTyped
  <2>2. b.reach \in Reaches /\ b.model \in Models /\ b.q \in Discharges /\ b.stages \subseteq Stages
    BY <2>1 DEF JobRow
  <2>3. StorageTyped'
    <3>1. CASE built' = [built EXCEPT ![b.reach] = @ \union {b.model}] /\ UNCHANGED <<swept, staged>>
      BY <2>2, <3>1 DEF StorageTyped
    <3>2. CASE /\ \E q \in Discharges : swept' = [swept EXCEPT ![b.reach][b.model] = q]
               /\ UNCHANGED <<built, staged>>
      BY <2>2, <3>2 DEF StorageTyped
    <3>3. CASE /\ \E s \in b.stages \ staged[b.reach][b.model] :
                    staged' = [staged EXCEPT ![b.reach][b.model] = @ \union {s}]
               /\ UNCHANGED <<built, swept>>
      BY <2>2, <3>3 DEF StorageTyped
    <3>. QED BY <1>1, <3>1, <3>2, <3>3 DEF Publish
  <2>. QED BY <1>1, <2>3, Frame DEF Publish
<1>2. ASSUME NEW status \in {"succeeded", "failed"}, End(j, status)
      PROVE  WantTyped' /\ RowsTyped' /\ ProcTyped' /\ StorageTyped' /\ JobsTyped' /\ LoopTyped' /\ Where'
  <2>1. [jobs EXCEPT ![j].status = status] \in [JobIds -> JobRow \union {None}]
    BY <1>2 DEF End, JobsTyped, JobRow
  <2>2. JobsTyped' BY <1>2, <2>1, ReapedTyped DEF End, JobsTyped
  <2>. QED BY <1>2, <2>2, Frame DEF End
<1>3. CASE Succeed(j) BY <1>2, <1>3, Frame DEF Succeed
<1>4. CASE SucceedHollow(j) BY <1>2, <1>4, SpendTyped DEF SucceedHollow
<1>5. CASE FailJob(j) BY <1>2, <1>5, SpendTyped DEF FailJob
<1>. QED BY <1>1, <1>3, <1>4, <1>5

\* A change of the defaults moves the revision by one.
LEMMA BumpTyped ==
    ASSUME NEW w \in Wanted, NEW i \in Intents
    PROVE  /\ [w EXCEPT !.model = i.model, !.dz = i.dz, !.rev = @ + 1] \in Wanted
           /\ [w EXCEPT !.model = i.model, !.dz = i.dz, !.rev = @ + 1].rev = w.rev + 1
           /\ [w EXCEPT !.rev = @ + 1] \in Wanted
           /\ [w EXCEPT !.rev = @ + 1].rev = w.rev + 1
<1>. DEFINE m == i.model
            d == i.dz
            n == w.rev + 1
<1>1. m \in Models /\ d \in BOOLEAN /\ n \in Nat BY ArtifactAssumption DEF Wanted
<1>. HIDE DEF m, d, n
<1>2. [w EXCEPT !.model = m, !.dz = d, !.rev = n] \in Wanted
      /\ [w EXCEPT !.model = m, !.dz = d, !.rev = n].rev = n
  BY <1>1 DEF Wanted
<1>3. [w EXCEPT !.rev = n] \in Wanted /\ [w EXCEPT !.rev = n].rev = n BY <1>1 DEF Wanted
<1>. QED BY <1>2, <1>3 DEF m, d, n

\* ... and what people author, withdraw and clear.
LEMMA PeopleTyped == ASSUME Typed, People PROVE Typed'
<1>. USE DEF Typed, TypeOK
<1>1. ASSUME NEW A \in SUBSET Reaches, NEW i \in Intents, Author(A, i) PROVE Typed'
  <2>1. i.model \in Models /\ i.q \in Discharges /\ i.dz \in BOOLEAN BY ArtifactAssumption
  <2>2. ASSUME NEW r \in Reaches PROVE Authored(r, i) \in Wanted
    <3>1. want[r] \in Wanted \union {None} BY DEF WantTyped
    <3>2. Revised(r, i) \in Wanted BY <2>1, <3>1 DEF Revised, Wanted
    <3>. QED BY <3>1, <3>2 DEF Authored
  <2>3. WantTyped' BY <1>1, <2>2 DEF Author, WantTyped
  <2>. QED BY <1>1, <2>3, SpendTyped, Frame DEF Author
<1>2. ASSUME NEW A \in SUBSET Reaches, NEW i \in Intents, ChangeDefaults(A, i) PROVE Typed'
  <2>3. WantTyped' BY <1>2, BumpTyped DEF ChangeDefaults, WantTyped
  <2>. QED BY <1>2, <2>3, SpendTyped, Frame DEF ChangeDefaults
<1>3. ASSUME NEW A \in SUBSET Reaches, NEW i \in Intents, EditLookup(A, i) PROVE Typed'
  <2>1. i.model \in Models BY ArtifactAssumption
  <2>2. ASSUME NEW w \in Wanted PROVE [w EXCEPT !.model = i.model] \in Wanted BY <2>1 DEF Wanted
  <2>3. WantTyped' BY <1>3, <2>2 DEF EditLookup, WantTyped
  <2>. QED BY <1>3, <2>3, SpendTyped, Frame DEF EditLookup
<1>4. ASSUME NEW r \in Reaches, Withdraw(r) PROVE Typed'
  <2>1. WantTyped' BY <1>4 DEF Withdraw, WantTyped
  <2>2. RowsTyped' BY <1>4 DEF Withdraw, Forgotten, RowsTyped, ModelRow, NdRow, KwseRow
  <2>. QED BY <1>4, <2>1, <2>2, SpendTyped, Frame DEF Withdraw
<1>5. ASSUME NEW r \in Reaches, ClearHalt(r) PROVE Typed'
  <2>1. [Requested(Forgiven(proc[r])) EXCEPT !.halted = FALSE] \in ProcRow
    <3>. DEFINE p == Requested(Forgiven(proc[r]))
    <3>1. p \in ProcRow BY ProcOps DEF ProcTyped
    <3>. HIDE DEF p
    <3>2. [p EXCEPT !.halted = FALSE] \in ProcRow BY <3>1 DEF ProcRow
    <3>. QED BY <3>2 DEF p
  <2>2. ProcTyped' BY <1>5, <2>1, ProcUpdate DEF ClearHalt, ProcTyped
  <2>. QED BY <1>5, <2>2, Frame DEF ClearHalt
<1>6. ASSUME NEW r \in Reaches, RetryTime(r) PROVE Typed'
  <2>1. [proc[r] EXCEPT !.resting = FALSE] \in ProcRow BY DEF ProcTyped, ProcRow
  <2>2. proc' = [proc EXCEPT ![r] = [proc[r] EXCEPT !.resting = FALSE]] BY <1>6 DEF RetryTime
  <2>3. ProcTyped' BY <2>1, <2>2, ProcUpdate DEF ProcTyped
  <2>. QED BY <1>6, <2>3, Frame DEF RetryTime
<1>. QED BY <1>1, <1>2, <1>3, <1>4, <1>5, <1>6 DEF People

\* Every step keeps the types.
LEMMA StepTyped == Typed /\ [Next]_vars => Typed'
<1>. SUFFICES ASSUME Typed, [Next]_vars PROVE Typed' OBVIOUS
<1>1. CASE Loop BY <1>1, PassTyped, ObserveTyped, DecideTyped, SubmitTyped DEF Loop, Check
<1>2. CASE Crash \/ Restart BY <1>2, CrashTyped
<1>3. CASE Jobs BY <1>3, JobsStepTyped
<1>4. CASE People BY <1>4, PeopleTyped
<1>5. CASE UNCHANGED vars BY <1>5, Frame DEF vars, db, storage, loop, Typed, TypeOK
<1>. QED BY <1>1, <1>2, <1>3, <1>4, <1>5 DEF Next

\* Every reachable state is typed, whatever people, jobs and faults do.
THEOREM TypesHold == Spec => []TypeOK
<1>1. Spec => []Typed BY InitTyped, StepTyped, PTL DEF Spec
<1>2. Typed => TypeOK BY DEF Typed
<1>. QED BY <1>1, <1>2, PTL
=============================================================================
