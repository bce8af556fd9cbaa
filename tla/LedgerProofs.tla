---------------------------- MODULE LedgerProofs ----------------------------
(***************************************************************************)
(* The reconciliation loop implements Ledger, for every network, planner    *)
(* and bound: initial states map to initial states, and every step of the   *)
(* loop, its jobs and its people maps to a step of Ledger or to a stutter.  *)
(***************************************************************************)
EXTENDS ReconcilerSafety

Recording == {"recordModel", "recordNd", "recordKwse"}

\* The phases Eye is open in.
LEMMA RecordingPhases == DOMAIN RowAt = Recording
BY DEF RowAt, Recording

\* Outside of the three recording phases no observation is under way.
LEMMA EyeRests == pc \notin Recording => Eye = Promise!Resting
BY RecordingPhases DEF Eye, Promise!Resting

\* The same of the next state.
LEMMA EyeRestsNext == pc' \notin Recording => Eye' = Promise!Resting
BY RecordingPhases DEF Eye, Promise!Resting

\* A step that touches neither intent, nor rows, nor storage, away from the
\* recording phases, is a stutter of Ledger.
LEMMA Unseen ==
    ASSUME UNCHANGED <<want, db, storage>>, pc \notin Recording, pc' \notin Recording
    PROVE  UNCHANGED Promise!vars
BY EyeRests, EyeRestsNext DEF Promise!vars, Promise!tables, Promise!storage, db, storage

\* So is one that leaves the loop where it is.
LEMMA EyeFixed == UNCHANGED loop => Eye' = Eye
BY DEF loop, Eye

\* Initial states map to initial states.
LEMMA InitKept == Init => Promise!Init
<1>. SUFFICES ASSUME Init PROVE Promise!Init OBVIOUS
<1>1. Eye = Promise!Resting BY EyeRests DEF Init, Recording
<1>. QED BY <1>1 DEF Init, Promise!Init

\* Polling, listing and ending a pass are not seen.
LEMMA PassKept == ASSUME Pass PROVE UNCHANGED Promise!vars
<1>. USE DEF Recording
<1>1. CASE BeginPass BY <1>1, Unseen DEF BeginPass
<1>2. CASE Poll
  <2>1. UNCHANGED <<want, db, storage>> /\ pc = "poll" /\ pc' \in {"poll", "pollRequest"}
    BY <1>2 DEF Poll, PollRunning, PollUnknown, PollLost, PollSucceeded, PollFailed, PollCommit
  <2>. QED BY <2>1, Unseen
<1>3. CASE PollRequest BY <1>3, Unseen DEF PollRequest
<1>4. CASE ListDue BY <1>4, Unseen DEF ListDue
<1>5. CASE EndPass
  <2>1. UNCHANGED <<want, db, storage>> /\ pc = "check" /\ pc' \in {"exited", "asleep"}
    BY <1>5 DEF EndPass
  <2>. QED BY <2>1, Unseen
<1>. QED BY <1>1, <1>2, <1>3, <1>4, <1>5 DEF Pass

\* Neither is what a check does between and after its observations.
LEMMA QuietKept ==
    ASSUME StartCheck \/ Notify \/ Forgive \/ Decide \/ Act \/ Submit \/ Mark \/ Request
    PROVE  UNCHANGED Promise!vars
<1>. USE DEF Recording
<1>1. CASE StartCheck BY <1>1, Unseen DEF StartCheck
<1>2. CASE Notify BY <1>2, Unseen DEF Notify
<1>3. CASE Forgive BY <1>3, Unseen DEF Forgive
<1>4. CASE Decide
  <2>1. UNCHANGED <<want, db, storage>> /\ pc = "decide" /\ pc' \in {"check", "act"}
    BY <1>4 DEF Decide, Skip, LeaveAlone, Resolve, EndCheck
  <2>. QED BY <2>1, Unseen
<1>5. CASE Submit
  <2>1. UNCHANGED <<want, db, storage>> /\ pc = "submit" /\ pc' \in {"check", "mark", "request"}
    BY <1>5 DEF Submit, SubmitAccepted, SubmitNothing, SubmitRaises, SubmitTimesOut, EndCheck
  <2>. QED BY <2>1, Unseen
<1>6. CASE Mark BY <1>6, Unseen DEF Mark
<1>7. CASE Request BY <1>7, Unseen DEF Request, EndCheck
<1>8. CASE Act
  <2>1. UNCHANGED <<want, db, storage>> /\ pc = "act" /\ pc' \in {"check", "submit"}
    BY <1>8 DEF Act, Satisfied, Await, Choose, EndCheck
  <2>. QED BY <2>1, Unseen
<1>. QED BY <1>1, <1>2, <1>3, <1>4, <1>5, <1>6, <1>7, <1>8

\* An observation begins.
LEMMA LookKept == ASSUME Typed, ReadIntent PROVE Promise!Next
<1>. DEFINE row == RowAt[pc']
<1>1. /\ cur \in Reaches /\ pc' \in Recording
      /\ row \in {"model", "nd", "kwse"}
  BY DEF Typed, Where, CheckPhases, ReadIntent, RowAt, Recording
<1>2. Eye = Promise!Resting BY EyeRests DEF ReadIntent, Recording
<1>3. note'.wanted = want[cur] /\ cur' = cur
  BY DEF ReadIntent, Typed, TypeOK, LoopTyped, Note
<1>4. Eye' = [reach |-> cur, row |-> row, intent |-> want[cur]]
  BY <1>1, <1>3, RecordingPhases DEF Eye
<1>5. Promise!Look(cur, row)
  BY <1>2, <1>4 DEF Promise!Look, ReadIntent, Promise!tables, Promise!storage, db, storage
<1>. QED BY <1>1, <1>5 DEF Promise!Next

\* What the recording phases see of the loop's memory.
LEMMA EyeOpen ==
    /\ pc = "recordModel" => Eye = [reach |-> cur, row |-> "model", intent |-> note.wanted]
    /\ pc = "recordNd" => Eye = [reach |-> cur, row |-> "nd", intent |-> note.wanted]
    /\ pc = "recordKwse" => Eye = [reach |-> cur, row |-> "kwse", intent |-> note.wanted]
BY RecordingPhases DEF Eye, RowAt

\* The model observation records what Ledger allows.
LEMMA ModelKept == ASSUME RecordModel PROVE Promise!RecordModel
<1>1. Eye = [reach |-> cur, row |-> "model", intent |-> note.wanted] BY EyeOpen DEF RecordModel
<1>2. Eye' = Promise!Resting BY EyeRestsNext DEF RecordModel, Recording
<1>3. mm' = [mm EXCEPT ![cur] =
                IF note.wanted # None /\ note.wanted.model \in built[cur]
                THEN [model |-> note.wanted.model, rev |-> note.wanted.rev] ELSE None]
  BY DEF RecordModel, RowRevision
<1>4. UNCHANGED <<want, nd, kw, storage>> BY DEF RecordModel
<1>. QED BY <1>1, <1>2, <1>3, <1>4 DEF Promise!RecordModel, Promise!Observing, Promise!storage, storage

\* So does the normal-depth observation: what intent keeps is some of what there is.
LEMMA NdKept == ASSUME Typed, RecordNd PROVE Promise!RecordNd
<1>1. Eye = [reach |-> cur, row |-> "nd", intent |-> note.wanted] BY EyeOpen DEF RecordNd
<1>2. Eye' = Promise!Resting BY EyeRestsNext DEF RecordNd, Recording
<1>3. nd' = [nd EXCEPT ![cur] = NdRowOf(note.wanted)] BY DEF RecordNd
<1>4. Promise!OnRecord <=> ModelAgrees(note.wanted) BY <1>1 DEF Promise!OnRecord, ModelAgrees
<1>5. UNCHANGED <<want, mm, kw, Promise!storage>> BY DEF RecordNd, Promise!storage, storage
<1>6. Eye.reach = cur /\ Eye.intent = note.wanted BY <1>1
<1>7. CASE NdFound(note.wanted)
  <2>. DEFINE w == note.wanted
              q == swept[cur][w.model]
              S == AdoptedOf[q, w.q]
  <2>1. cur \in Reaches /\ w \in Wanted
    BY <1>7 DEF RecordNd, Typed, TypeOK, LoopTyped, Note, Where, CheckPhases, NdFound, ModelAgrees
  <2>2. w.model \in Models /\ w.q \in Discharges BY <2>1 DEF Wanted
  <2>3. q \in Discharges
    <3>1. swept[cur] \in [Models -> Discharges \union {0}] BY <2>1 DEF Typed, TypeOK, StorageTyped
    <3>2. q \in Discharges \union {0} /\ q >= w.q BY <1>7, <2>2, <3>1 DEF NdFound
    <3>3. w.q \in Nat \ {0} BY <2>2, ArtifactAssumption
    <3>4. q # 0 BY <3>2, <3>3
    <3>. QED BY <3>2, <3>4
  <2>4. S \in SUBSET {d \in Discharges : d <= q} BY <2>2, <2>3, PlanningAssumption
  <2>5. NdRowOf(w) = [model |-> w.model, q |-> q, qs |-> S, rev |-> w.rev]
    BY <1>7 DEF NdRowOf, RowRevision
  <2>6. Promise!OnRecord /\ q >= w.q BY <1>4, <1>7 DEF NdFound
  <2>. HIDE DEF Eye, S
  <2>7. \E T \in SUBSET {d \in Discharges : d <= swept[Eye.reach][Eye.intent.model]} :
           nd' = [nd EXCEPT ![Eye.reach] =
                     [model |-> Eye.intent.model, q |-> swept[Eye.reach][Eye.intent.model],
                      qs |-> T, rev |-> Eye.intent.rev]]
    BY <1>3, <1>6, <2>4, <2>5
  <2>. QED BY <1>1, <1>2, <1>5, <1>6, <2>6, <2>7 DEF Promise!RecordNd, Promise!Observing
<1>8. CASE ~NdFound(note.wanted)
  <2>1. NdRowOf(note.wanted) = None BY <1>8 DEF NdRowOf
  <2>2. ~(Promise!OnRecord /\ swept[cur][note.wanted.model] >= note.wanted.q)
    BY <1>4, <1>8 DEF NdFound
  <2>. QED BY <1>1, <1>2, <1>3, <1>5, <2>1, <2>2 DEF Promise!RecordNd, Promise!Observing
<1>. QED BY <1>7, <1>8

\* And the stage-library observation: the stages the planner names are some of
\* those in storage.
LEMMA KwseKept == ASSUME Planning, RecordKwse PROVE Promise!RecordKwse
<1>1. Eye = [reach |-> cur, row |-> "kwse", intent |-> note.wanted] BY EyeOpen DEF RecordKwse
<1>2. Eye' = Promise!Resting BY EyeRestsNext DEF RecordKwse, Recording
<1>3. kw' = [kw EXCEPT ![cur] = KwseRowOf(note.wanted)] BY DEF RecordKwse
<1>4. Promise!OnRecord <=> ModelAgrees(note.wanted) BY <1>1 DEF Promise!OnRecord, ModelAgrees
<1>5. UNCHANGED <<want, mm, nd, Promise!storage>> BY DEF RecordKwse, Promise!storage, storage
<1>6. CASE KwseFound(note.wanted)
  <2>. DEFINE plan == UNION note.plan
  <2>1. plan \in SUBSET staged[cur][note.wanted.model] BY <1>6, PlanHeld DEF KwseFound
  <2>2. KwseRowOf(note.wanted) =
          [model |-> note.wanted.model, stages |-> plan, rev |-> note.wanted.rev]
    BY <1>6 DEF KwseRowOf, RowRevision
  <2>3. Promise!OnRecord BY <1>4, <1>6 DEF KwseFound
  <2>4. Eye.reach = cur /\ Eye.intent = note.wanted BY <1>1
  <2>. HIDE DEF Eye, plan
  <2>5. \E S \in SUBSET staged[Eye.reach][Eye.intent.model] :
           kw' = [kw EXCEPT ![Eye.reach] =
                     [model |-> Eye.intent.model, stages |-> S, rev |-> Eye.intent.rev]]
    BY <1>3, <2>1, <2>2, <2>4
  <2>. QED BY <1>1, <1>2, <1>5, <2>3, <2>5 DEF Promise!RecordKwse, Promise!Observing
<1>7. CASE ~KwseFound(note.wanted)
  <2>1. KwseRowOf(note.wanted) = None BY <1>7 DEF KwseRowOf
  <2>. QED BY <1>1, <1>2, <1>3, <1>5, <2>1 DEF Promise!RecordKwse, Promise!Observing
<1>. QED BY <1>6, <1>7

\* A crash abandons the observation; a restart is not seen.
LEMMA CrashKept == ASSUME Crash \/ Restart PROVE [Promise!Next]_Promise!vars
<1>1. CASE Crash
  <2>1. Eye' = Promise!Resting BY <1>1, EyeRestsNext DEF Crash, Recording
  <2>2. Promise!Abandon
    BY <1>1, <2>1 DEF Crash, Promise!Abandon, Promise!tables, Promise!storage, db, storage
  <2>. QED BY <2>2 DEF Promise!Next, Promise!Observe
<1>2. CASE Restart BY <1>2, Unseen DEF Restart, Recording
<1>. QED BY <1>1, <1>2

\* A job publishes, or ends without Ledger seeing it.
LEMMA WorkKept == ASSUME Typed, Jobs PROVE [Promise!Next]_Promise!vars
<1>1. PICK j \in JobIds : Publish(j) \/ Succeed(j) \/ SucceedHollow(j) \/ FailJob(j) BY DEF Jobs
<1>2. CASE Publish(j)
  <2>1. /\ jobs[j] \in JobRow
        /\ UNCHANGED <<want, mm, nd, kw>> /\ Eye' = Eye
    BY <1>2, EyeFixed DEF Publish, Typed, TypeOK, JobsTyped, db
  <2>2. jobs[j].reach \in Reaches /\ jobs[j].model \in Models /\ jobs[j].q \in Discharges
           /\ jobs[j].stages \subseteq Stages
    BY <2>1 DEF JobRow
  <2>. DEFINE r == jobs[j].reach
              m == jobs[j].model
  <2>3. swept[r][m] \in Nat
    <3>1. swept[r] \in [Models -> Discharges \union {0}] BY <2>2 DEF Typed, TypeOK, StorageTyped
    <3>2. swept[r][m] \in Discharges \union {0} BY <2>2, <3>1
    <3>3. Discharges \union {0} \subseteq Nat BY ArtifactAssumption
    <3>. QED BY <3>2, <3>3
  <2>4. Promise!Store(r, m)
    <3>1. CASE jobs[j].step = BuildModel
      BY <1>2, <2>1, <3>1 DEF Publish, Promise!Store, Promise!tables, BuildModel, RunNd, RunKwse
    <3>2. CASE jobs[j].step = RunNd
      <4>1. PICK q \in Discharges : swept[r][m] < q /\ swept' = [swept EXCEPT ![r][m] = q]
        BY <1>2, <3>2 DEF Publish, BuildModel, RunNd, RunKwse
      <4>2. UNCHANGED <<built, staged>> BY <1>2, <3>2 DEF Publish, BuildModel, RunNd, RunKwse
      <4>3. q > swept[r][m] BY <2>3, <4>1, ArtifactAssumption
      <4>. QED BY <2>1, <4>1, <4>2, <4>3 DEF Promise!Store, Promise!tables
    <3>3. CASE jobs[j].step = RunKwse
      <4>1. PICK s \in jobs[j].stages \ staged[r][m] :
              staged' = [staged EXCEPT ![r][m] = @ \union {s}]
        BY <1>2, <3>3 DEF Publish, BuildModel, RunNd, RunKwse
      <4>2. s \in Stages /\ UNCHANGED <<built, swept>>
        BY <1>2, <2>2, <3>3 DEF Publish, BuildModel, RunNd, RunKwse
      <4>. QED BY <2>1, <4>1, <4>2 DEF Promise!Store, Promise!tables
    <3>. QED BY <2>1, <3>1, <3>2, <3>3 DEF JobRow, Steps
  <2>. QED BY <2>2, <2>4 DEF Promise!Next
<1>3. CASE Succeed(j) \/ SucceedHollow(j) \/ FailJob(j)
  <2>1. UNCHANGED <<want, db, storage, loop>> BY <1>3 DEF Succeed, SucceedHollow, FailJob, End
  <2>. QED BY <2>1, EyeFixed DEF Promise!vars, Promise!tables, Promise!storage, db, storage
<1>. QED BY <1>1, <1>2, <1>3

\* An intent that is authored, or that a change of the defaults moves, moves by
\* one revision.
LEMMA RevisedFollows ==
    ASSUME Typed, NEW r \in Reaches, NEW i \in Intents
    PROVE  /\ Promise!Follows(want[r], Authored(r, i))
           /\ want[r] # None =>
                /\ Promise!Follows(want[r], [want[r] EXCEPT !.model = i.model, !.dz = i.dz, !.rev = @ + 1])
                /\ Promise!Follows(want[r], [want[r] EXCEPT !.rev = @ + 1])
                /\ Promise!Follows(want[r], [want[r] EXCEPT !.model = i.model])
<1>. USE DEF Typed, TypeOK, WantTyped
<1>1. i.model \in Models /\ i.q \in Discharges /\ i.dz \in BOOLEAN BY ArtifactAssumption
<1>2. CASE want[r] = None
  <2>1. Authored(r, i) = [model |-> i.model, q |-> i.q, dz |-> i.dz, rev |-> 0]
    BY <1>2 DEF Authored, Revised
  <2>2. Authored(r, i) \in Wanted BY <1>1, <2>1 DEF Wanted
  <2>. QED BY <1>2, <2>1, <2>2, NoneAssumption DEF Promise!Follows
<1>3. CASE want[r] # None
  <2>1. want[r] \in Wanted BY <1>3
  <2>. DEFINE w == want[r]
              v == [w EXCEPT !.rev = @ + 1]
              d == [w EXCEPT !.model = i.model, !.dz = i.dz, !.rev = @ + 1]
              e == [w EXCEPT !.model = i.model]
  <2>2. Revised(r, i) = [model |-> i.model, q |-> i.q, dz |-> i.dz, rev |-> w.rev + 1]
    BY <1>3 DEF Revised
  <2>3. ASSUME NEW n \in Nat, NEW m \in Models, NEW z \in BOOLEAN
        PROVE  LET x == [w EXCEPT !.model = m, !.dz = z, !.rev = n]
               IN  x \in Wanted /\ x.rev = n
    BY <2>1 DEF Wanted
  <2>a. w.rev + 1 \in Nat BY <2>1 DEF Wanted
  <2>b. Revised(r, i) \in Wanted /\ Revised(r, i).rev = w.rev + 1 BY <1>1, <2>2, <2>a DEF Wanted
  <2>c. v \in Wanted /\ v.rev = w.rev + 1 BY <2>1, <2>a DEF Wanted
  <2>d. d \in Wanted /\ d.rev = w.rev + 1 BY <1>1, <2>3, <2>a
  <2>e. e \in Wanted BY <1>1, <2>1 DEF Wanted
  <2>5. e = [w EXCEPT !.model = e.model] BY <2>1 DEF Wanted
  <2>6. Authored(r, i) \in {w, Revised(r, i)} BY DEF Authored
  <2>7. v # None /\ d # None /\ e # None /\ Revised(r, i) # None BY <2>b, <2>c, <2>d, <2>e, NoneAssumption
  <2>. HIDE DEF v, d, e
  <2>8. Promise!Follows(w, Authored(r, i))
    BY <1>3, <2>b, <2>6, <2>7 DEF Promise!Follows
  <2>9. Promise!Follows(w, v) /\ Promise!Follows(w, d) /\ Promise!Follows(w, e)
    BY <1>3, <2>c, <2>d, <2>5, <2>7 DEF Promise!Follows
  <2>. QED BY <2>8, <2>9 DEF v, d, e
<1>. QED BY <1>2, <1>3

\* People move intent as Ledger lets them, and nothing else that it shows.
LEMMA PeopleKept == ASSUME Typed, People PROVE [Promise!Next]_Promise!vars
<1>. USE DEF Promise!tables, Promise!storage, db, storage
<1>1. ASSUME NEW A \in SUBSET Reaches, NEW i \in Intents,
             Author(A, i) \/ ChangeDefaults(A, i) \/ EditLookup(A, i)
      PROVE  Promise!Intend
  <2>1. UNCHANGED <<db, storage, loop>> BY <1>1 DEF Author, ChangeDefaults, EditLookup
  <2>2. ASSUME NEW r \in Reaches PROVE Promise!Follows(want[r], want'[r])
    <3>1. want'[r] \in {want[r], Authored(r, i)}
             \/ (want[r] # None /\ want'[r] \in
                   {[want[r] EXCEPT !.model = i.model, !.dz = i.dz, !.rev = @ + 1],
                    [want[r] EXCEPT !.rev = @ + 1], [want[r] EXCEPT !.model = i.model]})
      BY <1>1 DEF Author, ChangeDefaults, EditLookup
    <3>2. Promise!Follows(want[r], want[r]) BY DEF Promise!Follows
    <3>. QED BY <3>1, <3>2, RevisedFollows
  <2>. QED BY <2>1, <2>2, EyeFixed DEF Promise!Intend
<1>2. ASSUME NEW r \in Reaches, Withdraw(r) PROVE Promise!Withdraw(r)
  BY <1>2, EyeFixed DEF Withdraw, Promise!Withdraw, Forgotten, Promise!Forgotten
<1>3. ASSUME NEW r \in Reaches, ClearHalt(r) \/ RetryTime(r) PROVE UNCHANGED Promise!vars
  BY <1>3, EyeFixed DEF ClearHalt, RetryTime, Promise!vars
<1>. QED BY <1>1, <1>2, <1>3 DEF People, Promise!Next

\* Every step maps to a step or a stutter.
LEMMA StepKept == Typed /\ Planning /\ [Next]_vars => [Promise!Next]_Promise!vars
<1>. SUFFICES ASSUME Typed, Planning, [Next]_vars PROVE [Promise!Next]_Promise!vars OBVIOUS
<1>1. CASE Loop
  <2>1. CASE Pass BY <2>1, PassKept
  <2>2. CASE ReadIntent BY <2>2, LookKept
  <2>3. CASE RecordModel \/ RecordNd \/ RecordKwse
    BY <2>3, ModelKept, NdKept, KwseKept DEF Promise!Next, Promise!Observe
  <2>. QED BY <1>1, <2>1, <2>2, <2>3, QuietKept DEF Loop, Check
<1>2. CASE UNCHANGED vars BY <1>2 DEF vars, Promise!vars, Promise!tables, Promise!storage, Eye
<1>. QED BY <1>1, <1>2, CrashKept, WorkKept, PeopleKept DEF Next

-----------------------------------------------------------------------------

\* The loop keeps the promise the tables make: seen through its rows, intent and
\* storage, with one observation at a time, its specification implies Ledger's.
THEOREM LoopKeepsLedger == Spec => KeepsLedger
<1>1. Spec => [](Typed /\ Planning) BY TypedHolds, InitPlanning, StepPlanning, PTL DEF Spec
<1>. QED BY <1>1, InitKept, StepKept, PTL DEF Spec, KeepsLedger, Promise!Spec
=============================================================================
