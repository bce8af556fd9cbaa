----------------------------- MODULE Reconciler -----------------------------
(***************************************************************************)
(* The reconciliation loop (recon/check.py, observe.py, jobs.py, queue.py,  *)
(* processing.py, scripts/reconcile.py) with the world it runs in.          *)
(*                                                                          *)
(* Every query the loop makes is a transaction of its own, so one check is  *)
(* a sequence of commits and the loop's position between two of them is a   *)
(* value of `pc`.  People author and withdraw intent, running jobs publish  *)
(* and end, SEPEX loses track, and the process dies, between any two.       *)
(***************************************************************************)
EXTENDS Integers, FiniteSets, Gap

CONSTANTS
    Reaches,         \* reach ids, numbered in the order `ORDER BY reach_id` gives
    Terminals,       \* the reaches with is_terminal
    Below,           \* reach_to_id, or None
    Models,          \* model identities an intent may imply
    Discharges,      \* the runs of an ND library, numbered as they are published
    Stages,          \* stages a KWSE plan may name
    Intents,         \* the effective intents people author: [model, q, dz]
    AdoptedOf,       \* which of the first runs intent keeps (Adopt has it in full)
    PlanOf,          \* the KWSE planner (Planner has it in full)
    JobIds,          \* references SEPEX hands out (recycled once forgotten)
    HaltAfter,       \* HALT_AFTER_FAILURES
    Forever,         \* --forever
    None,
    MaxEdits,        \* bound: authoring transactions and changes of the defaults
    MaxWithdrawals,  \* bound: rows deleted from desired_state
    MaxLookups,      \* bound: land-cover lookups edited in place
    MaxFaults,       \* bound: jobs or requests that go wrong
    MaxCrashes       \* bound: times the process dies

ASSUME NetworkAssumption ==
    /\ Reaches \subseteq Nat
    /\ Terminals \subseteq Reaches
    /\ Below \in [Reaches -> Reaches \union {None}]
    /\ \A r \in Terminals : Below[r] = None
    /\ None \notin Reaches

ASSUME ArtifactAssumption ==
    /\ Discharges \subseteq Nat \ {0}
    /\ Intents \subseteq [model: Models, q: Discharges, dz: BOOLEAN]

ASSUME PlanningAssumption ==
    /\ AdoptedOf \in [Discharges \X Discharges -> SUBSET Discharges]
    /\ \A c, a \in Discharges : AdoptedOf[c, a] \subseteq {d \in Discharges : d <= c}
    /\ PlanOf \in [(SUBSET Discharges) \X Discharges \X (SUBSET Discharges) \X Discharges \X SUBSET Stages
                      -> SUBSET Stages]

ASSUME JobAssumption == JobIds \subseteq Nat /\ None \notin JobIds

ASSUME SettingAssumption ==
    /\ HaltAfter \in Nat \ {0}
    /\ Forever \in BOOLEAN
    /\ MaxEdits \in Nat /\ MaxWithdrawals \in Nat /\ MaxLookups \in Nat
    /\ MaxFaults \in Nat /\ MaxCrashes \in Nat

VARIABLES
    \* PostgreSQL
    want,       \* desired_state with the defaults resolved into it
    mm, nd, kw, \* materialized_models, materialized_nd_runs, materialized_kwse_runs
    proc,       \* reach_processing
    \* storage: what has been published and accepted, per reach and model
    built, swept, staged,
    \* SEPEX
    jobs,
    \* the loop's own memory
    pc, todo, cur, note, tally,
    spent       \* what has been used of the bounds

db      == <<mm, nd, kw>>
storage == <<built, swept, staged>>
loop    == <<pc, todo, cur, note, tally>>
vars    == <<want, mm, nd, kw, proc, built, swept, staged, jobs, pc, todo, cur, note, tally, spent>>

-----------------------------------------------------------------------------
(* Types *)

Wanted    == [model: Models, q: Discharges, dz: BOOLEAN, rev: Nat]
ModelRow  == [model: Models, rev: Int]
NdRow     == [model: Models, q: Discharges, qs: SUBSET Discharges, rev: Int]
KwseRow   == [model: Models, stages: SUBSET Stages, rev: Int]
JobRow    == [reach: Reaches, step: Steps, model: Models, q: Discharges, stages: SUBSET Stages,
              status: {"running", "succeeded", "failed"}]

ASSUME NoneAssumption == None \notin Wanted \union ModelRow \union NdRow \union KwseRow \union JobRow

\* `seen` is whether the row exists and whether last_checked_at is set;
\* `requested` is check_requested_at > last_checked_at; `resting` is
\* next_retry_at > now(); `blocked` is blocked_on_reach_id (only ever Below).
\* current_step_revision and last_error are recorded and never read back.
ProcRow   == [seen: {"absent", "unchecked", "checked"}, requested: BOOLEAN, halted: BOOLEAN,
              resting: BOOLEAN, failures: Nat, blocked: BOOLEAN,
              step: Steps \union {NoStep}, ref: JobIds \union {None}]

NewProc == [seen |-> "absent", requested |-> FALSE, halted |-> FALSE, resting |-> FALSE,
            failures |-> 0, blocked |-> FALSE, step |-> NoStep, ref |-> None]

\* What one check carries from commit to commit: the intent an observation read,
\* the revision of the row it is about to replace and the plan it made, if there is
\* one; whether the reaches above must hear of it and whether work has landed; what
\* was decided and for which revision; the reference SEPEX returned.
Note == [wanted: Wanted \union {None}, was: Int, plan: SUBSET SUBSET Stages, tell: BOOLEAN,
         landed: BOOLEAN, gap: Decisions, rev: Nat, ref: JobIds \union {None}]

Blank == [wanted |-> None, was |-> 0, plan |-> {}, tell |-> FALSE, landed |-> FALSE,
          gap |-> NoGap, rev |-> 0, ref |-> None]

Phases == {"asleep", "poll", "pollRequest", "check", "readModel", "recordModel", "readNd",
           "recordNd", "readKwse", "recordKwse", "notify", "forgive", "decide", "act", "submit",
           "mark", "request", "exited", "down"}

WantTyped == want \in [Reaches -> Wanted \union {None}]

RowsTyped ==
    /\ mm \in [Reaches -> ModelRow \union {None}]
    /\ nd \in [Reaches -> NdRow \union {None}]
    /\ kw \in [Reaches -> KwseRow \union {None}]

ProcTyped == proc \in [Reaches -> ProcRow]

StorageTyped ==
    /\ built \in [Reaches -> SUBSET Models]
    /\ swept \in [Reaches -> [Models -> Discharges \union {0}]]
    /\ staged \in [Reaches -> [Models -> SUBSET Stages]]

JobsTyped == jobs \in [JobIds -> JobRow \union {None}]

LoopTyped ==
    /\ pc \in Phases
    /\ todo \subseteq Reaches
    /\ cur \in Reaches \union {None}
    /\ note \in Note
    /\ tally \in [submitted: BOOLEAN, quiet: 0..2, passes: 0..3]

SpentTyped ==
    spent \in [edits: 0..MaxEdits, withdrawals: 0..MaxWithdrawals, lookups: 0..MaxLookups,
               faults: 0..MaxFaults, crashes: 0..MaxCrashes]

TypeOK == WantTyped /\ RowsTyped /\ ProcTyped /\ StorageTyped /\ JobsTyped /\ LoopTyped /\ SpentTyped

Init ==
    /\ want = [r \in Reaches |-> None]
    /\ mm = [r \in Reaches |-> None]
    /\ nd = [r \in Reaches |-> None]
    /\ kw = [r \in Reaches |-> None]
    /\ proc = [r \in Reaches |-> NewProc]
    /\ built = [r \in Reaches |-> {}]
    /\ swept = [r \in Reaches |-> [m \in Models |-> 0]]
    /\ staged = [r \in Reaches |-> [m \in Models |-> {}]]
    /\ jobs = [j \in JobIds |-> None]
    /\ pc = "asleep"
    /\ todo = {}
    /\ cur = None
    /\ note = Blank
    /\ tally = [submitted |-> FALSE, quiet |-> 0, passes |-> 0]
    /\ spent = [edits |-> 0, withdrawals |-> 0, lookups |-> 0, faults |-> 0, crashes |-> 0]

-----------------------------------------------------------------------------
(* What the database says *)

\* COALESCE(row.applied_revision >= intent.revision, FALSE)
Applied(row, w) == row # None /\ w # None /\ row.rev >= w.rev

\* The gap that makes a reach due, whether it has all there is to have, and
\* `finished` in the reach_status view, which comes after `halted`, `in_flight`
\* and `resting` there.
Proved(r) ==
    /\ Applied(mm[r], want[r])
    /\ Applied(nd[r], want[r])
    /\ r \in Terminals \/ Applied(kw[r], want[r])

Complete(r) == want[r] # None /\ Proved(r) /\ (r \in Terminals \/ want[r].dz)

Finished(r) ==
    Complete(r) /\ ~proc[r].halted /\ proc[r].step = NoStep /\ ~proc[r].resting

DueOnRequest(r) ==
    /\ want[r] # None
    /\ proc[r].seen = "absent" \/ (proc[r].seen = "checked" /\ proc[r].requested)
    /\ ~proc[r].halted /\ ~proc[r].resting
DueOnGap(r) == want[r] # None /\ ~Proved(r) /\ ~proc[r].halted /\ ~proc[r].resting
DueWhileResting(r) ==
    /\ want[r] # None
    /\ proc[r].seen = "absent" \/ ~Proved(r) \/ (proc[r].seen = "checked" /\ proc[r].requested)
    /\ ~proc[r].halted
Due(r) ==
    /\ want[r] # None
    /\ \/ proc[r].seen = "absent"
       \/ ~Proved(r)
       \/ proc[r].seen = "checked" /\ proc[r].requested
    /\ ~proc[r].halted
    /\ ~proc[r].resting

DsApplied(r, rows) == Below[r] # None /\ Applied(rows[Below[r]], want[Below[r]])

SnapshotOf(r) ==
    [terminal   |-> r \in Terminals,
     model      |-> Applied(mm[r], want[r]),
     nd         |-> Applied(nd[r], want[r]),
     kwse       |-> Applied(kw[r], want[r]),
     dsModel    |-> DsApplied(r, mm),
     dsNd       |-> DsApplied(r, nd),
     dsKwse     |-> DsApplied(r, kw),
     dsTerminal |-> Below[r] \in Terminals,
     increment  |-> want[r].dz,
     inFlight   |-> proc[r].step]

\* scenarios.planned: what a KWSE plan needs, and the plan itself.  The plan
\* reads whatever rows the downstream reach has, proved for its intent or not.
StagesOf(d) == IF kw[d] = None THEN {} ELSE kw[d].stages

Plannable(r) ==
    /\ want[r] # None /\ want[r].dz
    /\ r \notin Terminals
    /\ mm[r] # None /\ nd[r] # None
    /\ Below[r] # None /\ nd[Below[r]] # None /\ want[Below[r]] # None

\* The plan on the first c runs below: those the stage curve of the reach below
\* has, the ones its intent passes over included.
PlanOn(r, c) ==
    PlanOf[nd[r].qs, want[Below[r]].q, nd[Below[r]].qs, c, StagesOf(Below[r])]

Planned(r) == PlanOn(r, nd[Below[r]].q)

-----------------------------------------------------------------------------
(* processing.py and queue.py: one operator per statement on reach_processing *)

Requested(p) == [p EXCEPT !.seen = IF @ = "absent" THEN "unchecked" ELSE @, !.requested = TRUE]

Unmarked(p) == [p EXCEPT !.step = NoStep, !.ref = None]

FailedStillMarked(p) ==
    [p EXCEPT !.failures = @ + 1, !.halted = p.failures + 1 >= HaltAfter, !.resting = TRUE]
Failed(p) ==
    [Unmarked(p) EXCEPT !.failures = @ + 1, !.halted = p.failures + 1 >= HaltAfter, !.resting = TRUE]

Forgiven(p) == [p EXCEPT !.failures = 0, !.resting = FALSE]

MarkedNever(p, step, ref) == p
MarkedBare(p, step, ref) == [p EXCEPT !.step = step]
Marked(p, step, ref) == [p EXCEPT !.step = step, !.ref = ref]

\* A reference is not handed out again while the job runs or somebody holds it;
\* that SEPEX forgets a job somebody holds is for PollUnknown and PollLost.
Reaped(js, ps, held) ==
    [j \in JobIds |->
        IF js[j] # None /\ js[j].status # "running" /\ j # held /\ \A r \in Reaches : ps[r].ref # j
        THEN None ELSE js[j]]

Spend(field) ==
    /\ spent[field] < [edits |-> MaxEdits, withdrawals |-> MaxWithdrawals,
                       lookups |-> MaxLookups, faults |-> MaxFaults, crashes |-> MaxCrashes][field]
    /\ spent' = [spent EXCEPT ![field] = @ + 1]
-----------------------------------------------------------------------------
(* A pass: poll what is running, then check what is due *)

\* main's loop and processing.in_flight: the markers are listed once.
BeginPass ==
    /\ pc = "asleep"
    /\ pc' = "poll"
    /\ todo' = {r \in Reaches : proc[r].step # NoStep}
    /\ tally' = [tally EXCEPT !.submitted = FALSE, !.passes = IF @ < 3 THEN @ + 1 ELSE @]
    /\ UNCHANGED <<want, db, proc, storage, jobs, cur, note, spent>>

\* The first commit of one poll: what becomes of the marker.
PollCommit(r, p) ==
    /\ proc' = [proc EXCEPT ![r] = p]
    /\ jobs' = Reaped(jobs, proc', None)
    /\ todo' = todo \ {r}
    /\ cur' = r
    /\ pc' = "pollRequest"
    /\ UNCHANGED <<want, db, storage, note, tally>>

StatusOf(r) == jobs[proc[r].ref].status

PollRunning(r) ==
    /\ StatusOf(r) = "running"
    /\ todo' = todo \ {r}
    /\ UNCHANGED <<want, db, proc, storage, jobs, pc, cur, note, tally, spent>>

\* SEPEX is unreachable, answers 404 or says something it should not, and the
\* marker is younger than UNKNOWN_GRACE_SECONDS.
PollUnknown(r) ==
    /\ Spend("faults")
    /\ todo' = todo \ {r}
    /\ UNCHANGED <<want, db, proc, storage, jobs, pc, cur, note, tally>>

\* The same, and the marker has outlived the grace.
PollLost(r) == Spend("faults") /\ PollCommit(r, Unmarked(proc[r]))

PollSucceeded(r) ==
    StatusOf(r) = "succeeded" /\ PollCommit(r, Unmarked(proc[r])) /\ UNCHANGED spent

PollFailed(r) ==
    StatusOf(r) = "failed" /\ PollCommit(r, Failed(proc[r])) /\ UNCHANGED spent

Poll ==
    /\ pc = "poll"
    /\ \E r \in todo :
          PollRunning(r) \/ PollUnknown(r) \/ PollLost(r) \/ PollSucceeded(r) \/ PollFailed(r)

\* The second commit of one poll: queue.request_check.
PollRequest ==
    /\ pc = "pollRequest"
    /\ proc' = [proc EXCEPT ![cur] = Requested(@)]
    /\ pc' = "poll"
    /\ cur' = None
    /\ UNCHANGED <<want, db, storage, jobs, todo, note, tally, spent>>

\* queue.due_reaches: computed once for the pass.
ListDue ==
    /\ pc = "poll" /\ todo = {}
    /\ pc' = "check"
    /\ todo' = {r \in Reaches : Due(r)}
    /\ UNCHANGED <<want, db, proc, storage, jobs, cur, note, tally, spent>>

\* The end of a pass: quiet passes are counted and two of them end the loop.
EndPass ==
    /\ pc = "check" /\ todo = {}
    /\ LET busy  == \E r \in Reaches : want[r] # None /\ ~proc[r].halted /\ proc[r].step # NoStep
           quiet == CASE busy \/ tally.submitted -> 0
                      [] ~(busy \/ tally.submitted) /\ tally.quiet < 2 -> tally.quiet + 1
                      [] OTHER -> 2
       IN  /\ tally' = [tally EXCEPT !.quiet = quiet]
           /\ pc' = IF quiet = 2 /\ tally.passes > 2 /\ ~Forever THEN "exited" ELSE "asleep"
    /\ UNCHANGED <<want, db, proc, storage, jobs, todo, cur, note, spent>>

-----------------------------------------------------------------------------
(* One check *)

\* processing.start_check, for the next reach of the list in reach id order.
StartCheck ==
    /\ pc = "check"
    /\ \E r \in todo :
          /\ \A s \in todo : r <= s
          /\ proc' = [proc EXCEPT ![r].seen = "checked", ![r].requested = FALSE]
          /\ todo' = todo \ {r}
          /\ cur' = r
    /\ pc' = "readModel"
    /\ UNCHANGED <<want, db, storage, jobs, note, tally, spent>>

\* Each observation starts by reading the effective intent and the row it may
\* replace, and the one of stages makes its plan, before it looks at storage; the
\* row it writes carries the revision read here.
RowBefore ==
    CASE pc = "readModel" -> mm[cur]
      [] pc = "readNd"    -> nd[cur]
      [] OTHER            -> kw[cur]

PlanNow == IF pc = "readKwse" /\ Plannable(cur) THEN {Planned(cur)} ELSE {}

ReadIntent ==
    /\ pc \in {"readModel", "readNd", "readKwse"}
    /\ note' = [note EXCEPT !.wanted = want[cur],
                            !.was = IF RowBefore = None THEN 0 ELSE RowBefore.rev,
                            !.plan = PlanNow]
    /\ pc' = CASE pc = "readModel" -> "recordModel"
               [] pc = "readNd"    -> "recordNd"
               [] pc = "readKwse"  -> "recordKwse"
    /\ UNCHANGED <<want, db, proc, storage, jobs, todo, cur, tally, spent>>

\* The revision a row carries: the one the observation read before it looked.
RowRevisionNow(w) == IF want[cur] = None THEN w.rev ELSE want[cur].rev
RowRevision(w) == w.rev

\* observe_reach: the model intent implies, if storage holds it.  This one
\* observation reads the row it replaces late, after it has looked at storage.
RecordModel ==
    /\ pc = "recordModel"
    /\ LET w     == note.wanted
           found == w # None /\ w.model \in built[cur]
           row   == IF found THEN [model |-> w.model, rev |-> RowRevision(w)] ELSE None
           new(was) == mm[cur] = None \/ <<row.model, row.rev>> # <<mm[cur].model, was>>
       IN  /\ mm' = [mm EXCEPT ![cur] = row]
           /\ \E was \in {note.was, IF mm[cur] = None THEN 0 ELSE mm[cur].rev} :
                 note' = [note EXCEPT !.wanted = None, !.was = 0, !.landed = found /\ new(was)]
    /\ pc' = "readNd"
    /\ UNCHANGED <<want, nd, kw, proc, storage, jobs, todo, cur, tally, spent>>

\* The model row the two later observations accept: the one intent implies.
ModelAgrees(w) == w # None /\ mm[cur] # None /\ mm[cur].model = w.model

\* observe_nd_runs: the library under that model, if it spans what is asked.  The
\* row has the stage of every run there is, and the set of those that intent keeps.
NdFound(w) == ModelAgrees(w) /\ swept[cur][w.model] >= w.q

NdRowOfAny(w) ==
    LET q == swept[cur][w.model] IN
    IF ModelAgrees(w)
    THEN [model |-> w.model, q |-> q, qs |-> {d \in AdoptedOf[w.q, w.q] : d <= q}, rev |-> RowRevision(w)]
    ELSE None
NdRowOf(w) ==
    LET q == swept[cur][w.model] IN
    IF NdFound(w)
    THEN [model |-> w.model, q |-> q, qs |-> AdoptedOf[q, w.q], rev |-> RowRevision(w)]
    ELSE None

\* Only the set is compared, and the revision: not the stages.
NdChanged(row) ==
    \/ (row = None) # (nd[cur] = None)
    \/ row # None /\ nd[cur] # None /\ <<row.qs, row.rev>> # <<nd[cur].qs, note.was>>

RecordNd ==
    /\ pc = "recordNd"
    /\ LET row     == NdRowOf(note.wanted)
           changed == NdChanged(row)
       IN  /\ nd' = [nd EXCEPT ![cur] = row]
           /\ note' = [note EXCEPT !.wanted = None, !.was = 0, !.tell = changed,
                                   !.landed = @ \/ (row # None /\ changed)]
    /\ pc' = "readKwse"
    /\ UNCHANGED <<want, mm, kw, proc, storage, jobs, todo, cur, tally, spent>>

\* observe_kwse_runs: every scenario the plan names, if storage holds them all.
KwseFound(w) == ModelAgrees(w) /\ \E plan \in note.plan : plan \subseteq staged[cur][w.model]

KwseRowOf(w) ==
    IF KwseFound(w) THEN [model |-> w.model, stages |-> UNION note.plan, rev |-> RowRevision(w)] ELSE None

KwseChanged(row) ==
    \/ (row = None) # (kw[cur] = None)
    \/ row # None /\ kw[cur] # None /\ <<row.stages, row.rev>> # <<kw[cur].stages, note.was>>

RecordKwse ==
    /\ pc = "recordKwse"
    /\ LET row     == KwseRowOf(note.wanted)
           changed == KwseChanged(row)
       IN  /\ kw' = [kw EXCEPT ![cur] = row]
           /\ note' = [note EXCEPT !.wanted = None, !.was = 0, !.plan = {}, !.tell = @ \/ changed,
                                   !.landed = @ \/ (row # None /\ changed)]
    /\ pc' = "notify"
    /\ UNCHANGED <<want, mm, nd, proc, storage, jobs, todo, cur, tally, spent>>

\* queue.request_check_upstream, when either library changed.
ToldBelow(r) == note.tell /\ Below[cur] = r
Told(r) == note.tell /\ Below[r] = cur

Notify ==
    /\ pc = "notify"
    /\ proc' = [r \in Reaches |-> IF Told(r) THEN Requested(proc[r]) ELSE proc[r]]
    /\ note' = [note EXCEPT !.tell = FALSE]
    /\ pc' = "forgive"
    /\ UNCHANGED <<want, db, storage, jobs, todo, cur, tally, spent>>

\* processing.clear_failures, when something that was found is new.
Forgive ==
    /\ pc = "forgive"
    /\ proc' = [proc EXCEPT ![cur] = IF note.landed THEN Forgiven(@) ELSE @]
    /\ note' = [note EXCEPT !.landed = FALSE]
    /\ pc' = "decide"
    /\ UNCHANGED <<want, db, storage, jobs, todo, cur, tally, spent>>

EndCheck == pc' = "check" /\ cur' = None /\ note' = Blank

\* load_snapshot, one query, and gap.calculate.  A reach without intent is skipped,
\* a job in flight is left alone; every other decision has commits of its own, and
\* people may have moved or deleted the intent it was made for when they come.
Decision == Calculate(SnapshotOf(cur))

Skip == want[cur] = None /\ EndCheck /\ UNCHANGED proc

LeaveAloneUnmarked ==
    /\ want[cur] # None /\ Decision.kind = "InFlight" /\ EndCheck
    /\ proc' = [proc EXCEPT ![cur] = Unmarked(@)]
LeaveAlone == want[cur] # None /\ Decision.kind = "InFlight" /\ EndCheck /\ UNCHANGED proc

Resolve ==
    /\ want[cur] # None /\ Decision.kind # "InFlight"
    /\ note' = [note EXCEPT !.gap = Decision, !.rev = want[cur].rev]
    /\ pc' = "act"
    /\ UNCHANGED <<proc, cur>>

Decide ==
    /\ pc = "decide"
    /\ Skip \/ LeaveAlone \/ Resolve
    /\ UNCHANGED <<want, db, storage, jobs, todo, tally, spent>>

\* clear_step, then wait_on: two statements taken as one step, because nothing
\* reads blocked_on_reach_id back.
Satisfied ==
    /\ note.gap = NoGap
    /\ proc' = [proc EXCEPT ![cur] = [Unmarked(@) EXCEPT !.blocked = FALSE]]
    /\ jobs' = Reaped(jobs, proc', None)
    /\ EndCheck

Await ==
    /\ note.gap.kind \in {"AwaitingDownstream", "AwaitingInputs"}
    /\ proc' = [proc EXCEPT ![cur].blocked = (note.gap.kind = "AwaitingDownstream")]
    /\ EndCheck
    /\ UNCHANGED jobs

Choose ==
    /\ note.gap.kind = "RunStep"
    /\ proc' = [proc EXCEPT ![cur].blocked = FALSE]
    /\ pc' = "submit"
    /\ UNCHANGED <<jobs, cur, note>>

Act ==
    /\ pc = "act"
    /\ Satisfied \/ Await \/ Choose
    /\ UNCHANGED <<want, db, storage, todo, tally, spent>>

\* The payload builders read intent and rows again, after the snapshot.
Missing(r) == Planned(r) \ staged[r][mm[r].model]

Ready(r, step) ==
    /\ want[r] # None
    /\ step = RunNd => mm[r] # None
    /\ r \in Terminals \/ (Below[r] # None /\ nd[Below[r]] # None)
    /\ step = RunKwse => Plannable(r)

JobForWanted(r, step) ==
    [reach |-> r, step |-> step, q |-> want[r].q, status |-> "running", model |-> want[r].model,
     stages |-> IF step = RunKwse THEN Missing(r) ELSE {}]
JobFor(r, step) ==
    [reach |-> r, step |-> step, q |-> want[r].q, status |-> "running",
     model |-> IF step = BuildModel THEN want[r].model ELSE mm[r].model,
     stages |-> IF step = RunKwse THEN Missing(r) ELSE {}]

Free == {j \in JobIds : jobs[j] = None}

Started(r, step, j) ==
    /\ Ready(r, step)
    /\ JobFor(r, step).stages # {} \/ step # RunKwse
    /\ j \in Free /\ \A k \in Free : j <= k
    /\ jobs' = [jobs EXCEPT ![j] = JobFor(r, step)]

SubmitAccepted ==
    /\ \E j \in JobIds : Started(cur, note.gap.step, j) /\ note' = [note EXCEPT !.ref = j]
    /\ pc' = "mark"
    /\ UNCHANGED <<proc, cur, spent>>

\* A group with no members is not submitted.
SubmitNothing ==
    /\ note.gap.step = RunKwse /\ Ready(cur, RunKwse) /\ Missing(cur) = {}
    /\ pc' = "request"
    /\ UNCHANGED <<proc, jobs, cur, note, spent>>

\* What the payload needs is gone, or SEPEX refuses, or cannot be reached.
SubmitRaises ==
    /\ (~Ready(cur, note.gap.step) /\ UNCHANGED spent) \/ Spend("faults")
    /\ proc' = [proc EXCEPT ![cur] = Failed(@)]
    /\ EndCheck
    /\ UNCHANGED jobs

\* SEPEX takes the job and the answer does not arrive within the timeout.
SubmitTimesOut ==
    /\ \E j \in JobIds : Started(cur, note.gap.step, j)
    /\ Spend("faults")
    /\ proc' = [proc EXCEPT ![cur] = Failed(@)]
    /\ EndCheck

Submit ==
    /\ pc = "submit"
    /\ SubmitAccepted \/ SubmitNothing \/ SubmitRaises \/ SubmitTimesOut
    /\ UNCHANGED <<want, db, storage, todo, tally>>

\* processing.mark_in_flight: only now is the job on record.
Mark ==
    /\ pc = "mark"
    /\ proc' = [proc EXCEPT ![cur] = Marked(@, note.gap.step, note.ref)]
    /\ tally' = [tally EXCEPT !.submitted = TRUE]
    /\ pc' = "request"
    /\ UNCHANGED <<want, db, storage, jobs, todo, cur, note, spent>>

\* queue.request_check on the reach itself, which ends the check.
Request ==
    /\ pc = "request"
    /\ proc' = [proc EXCEPT ![cur] = Requested(@)]
    /\ EndCheck
    /\ UNCHANGED <<want, db, storage, jobs, todo, tally, spent>>

-----------------------------------------------------------------------------
(* The process dies and is started again *)

Idle == [submitted |-> FALSE, quiet |-> 0, passes |-> 0]

\* Ctrl-C, a kill, or an exception outside run_check's try block.
Crash ==
    /\ pc \notin {"exited", "down"}
    /\ Spend("crashes")
    /\ pc' = "down"
    /\ todo' = {} /\ cur' = None /\ note' = Blank /\ tally' = Idle
    /\ jobs' = Reaped(jobs, proc, None)
    /\ UNCHANGED <<want, db, proc, storage>>

Restart ==
    /\ pc \in {"exited", "down"}
    /\ pc' = "asleep"
    /\ tally' = Idle
    /\ UNCHANGED <<want, db, proc, storage, jobs, todo, cur, note, spent>>

-----------------------------------------------------------------------------
(* Jobs: what a running job publishes, and how it ends *)

Done(j) ==
    LET b == jobs[j] IN
    CASE b.step = BuildModel -> b.model \in built[b.reach]
      [] b.step = RunNd      -> swept[b.reach][b.model] >= b.q
      [] b.step = RunKwse    -> b.stages \subseteq staged[b.reach][b.model]

Publish(j) ==
    /\ jobs[j] # None /\ jobs[j].status = "running" /\ ~Done(j)
    /\ LET b == jobs[j] IN
       \/ /\ b.step = BuildModel
          /\ built' = [built EXCEPT ![b.reach] = @ \union {b.model}]
          /\ UNCHANGED <<swept, staged>>
       \/ /\ b.step = RunNd
          /\ \E q \in Discharges :
                /\ swept[b.reach][b.model] < q /\ q <= b.q
                /\ swept' = [swept EXCEPT ![b.reach][b.model] = q]
          /\ UNCHANGED <<built, staged>>
       \/ /\ b.step = RunKwse
          /\ \E s \in b.stages \ staged[b.reach][b.model] :
                staged' = [staged EXCEPT ![b.reach][b.model] = @ \union {s}]
          /\ UNCHANGED <<built, swept>>
    /\ UNCHANGED <<want, db, proc, jobs, loop, spent>>

End(j, status) ==
    /\ jobs[j] # None /\ jobs[j].status = "running"
    /\ jobs' = Reaped([jobs EXCEPT ![j].status = status], proc, note.ref)
    /\ UNCHANGED <<want, db, proc, storage, loop>>

Succeed(j) == End(j, "succeeded") /\ Done(j) /\ UNCHANGED spent

\* It reports success and what it published is not there, or is refused.
SucceedHollow(j) == End(j, "succeeded") /\ ~Done(j) /\ Spend("faults")

FailJob(j) == End(j, "failed") /\ Spend("faults")

-----------------------------------------------------------------------------
(* People *)

Revised(r, i) ==
    [model |-> i.model, q |-> i.q, dz |-> i.dz, rev |-> IF want[r] = None THEN 0 ELSE want[r].rev + 1]

Authored(r, i) ==
    IF want[r] # None /\ [want[r] EXCEPT !.rev = 0] = [Revised(r, i) EXCEPT !.rev = 0]
    THEN want[r] ELSE Revised(r, i)

Intended == {r \in Reaches : want[r] # None}

\* author_intent.py aoi: one transaction for the reaches of an AOI, refused
\* unless each drains into a reach that is authored too.
Author(A, i) ==
    /\ Spend("edits")
    /\ \A r \in A : Below[r] \in A \union Intended \union {None}
    /\ want' = [r \in Reaches |-> IF r \in A THEN Authored(r, i) ELSE want[r]]
    /\ want' # want
    /\ UNCHANGED <<db, proc, storage, jobs, loop>>

\* A change of the defaults moves every revision; A are the reaches without
\* values of their own in the defaults' place (discharges have no default).
ChangeDefaults(A, i) ==
    /\ Spend("edits")
    /\ Intended # {}
    /\ want' = [r \in Reaches |->
                  CASE want[r] = None -> None
                    [] want[r] # None /\ r \in A ->
                          [want[r] EXCEPT !.model = i.model, !.dz = i.dz, !.rev = @ + 1]
                    [] OTHER -> [want[r] EXCEPT !.rev = @ + 1]]
    /\ UNCHANGED <<db, proc, storage, jobs, loop>>

\* A land-cover lookup is edited where it lies: the identity its content implies
\* moves under the reaches that use it, and no revision does.
EditLookup(A, i) ==
    /\ Spend("lookups")
    /\ want' = [r \in Reaches |->
                  IF r \in A /\ want[r] # None THEN [want[r] EXCEPT !.model = i.model] ELSE want[r]]
    /\ want' # want
    /\ UNCHANGED <<db, proc, storage, jobs, loop>>

\* DELETE FROM desired_state, with the trigger that forgets what was applied.
ForgottenNothing(rows, r) == rows
Forgotten(rows, r) ==
    IF rows[r] = None THEN rows ELSE [rows EXCEPT ![r].rev = -1]

Withdraw(r) ==
    /\ want[r] # None
    /\ Spend("withdrawals")
    /\ want' = [want EXCEPT ![r] = None]
    /\ mm' = Forgotten(mm, r) /\ nd' = Forgotten(nd, r) /\ kw' = Forgotten(kw, r)
    /\ UNCHANGED <<proc, storage, jobs, loop>>

\* processing.clear_halt, by hand.
ClearHalt(r) ==
    /\ proc[r].halted
    /\ proc' = [proc EXCEPT ![r] = [Requested(Forgiven(@)) EXCEPT !.halted = FALSE]]
    /\ UNCHANGED <<want, db, storage, jobs, loop, spent>>

\* next_retry_at comes to pass.
RetryTime(r) ==
    /\ proc[r].resting
    /\ proc' = [proc EXCEPT ![r].resting = FALSE]
    /\ UNCHANGED <<want, db, storage, jobs, loop, spent>>

-----------------------------------------------------------------------------

Pass  == BeginPass \/ Poll \/ PollRequest \/ ListDue \/ EndPass
Check == StartCheck \/ ReadIntent \/ RecordModel \/ RecordNd \/ RecordKwse \/ Notify \/ Forgive
            \/ Decide \/ Act \/ Submit \/ Mark \/ Request
Loop  == Pass \/ Check

Jobs   == \E j \in JobIds : Publish(j) \/ Succeed(j) \/ SucceedHollow(j) \/ FailJob(j)
People ==
    \/ \E A \in SUBSET Reaches \ {{}}, i \in Intents : 
          Author(A, i) \/ ChangeDefaults(A, i) \/ EditLookup(A, i)
    \/ \E r \in Reaches : Withdraw(r) \/ ClearHalt(r) \/ RetryTime(r)

Next == Loop \/ Crash \/ Restart \/ Jobs \/ People

Spec == Init /\ [][Next]_vars

\* The loop keeps running and is restarted, a running job publishes and ends,
\* and time passes; nothing makes people or faults act.
Fairness ==
    /\ WF_vars(Loop)
    /\ WF_vars(Restart)
    /\ \A j \in JobIds : WF_vars(Publish(j) \/ Succeed(j))
    /\ \A r \in Reaches : WF_vars(RetryTime(r))

FairSpec == Spec /\ Fairness
-----------------------------------------------------------------------------
(* Safety *)

\* Nothing is recorded that storage does not hold: every row in materialized_*
\* names artifacts that were published and accepted.
RecordedIsStored ==
    \A r \in Reaches :
        /\ mm[r] # None => mm[r].model \in built[r]
        /\ nd[r] # None => nd[r].q \in 1..swept[r][nd[r].model] /\ nd[r].qs \subseteq 1..nd[r].q
        /\ kw[r] # None => kw[r].stages \subseteq staged[r][kw[r].model]

AsAsked(r) ==
    /\ Applied(mm[r], want[r]) => mm[r].model = want[r].model
    /\ Applied(nd[r], want[r]) => (nd[r].model = want[r].model /\ nd[r].q >= want[r].q)
    /\ Applied(kw[r], want[r]) => (kw[r].model = want[r].model /\ want[r].dz)

\* A row that counts as applied is what the intent in force asks for, whatever
\* people authored between the read and the write of an observation - as long
\* as nobody deleted the intent and authored it anew, or moved what it implies
\* without moving its revision.
AppliedMatchesIntent ==
    spent.withdrawals = 0 /\ spent.lookups = 0 => \A r \in Reaches : AsAsked(r)

\* The libraries of r are being looked for again, and their rows with them.
BeingObserved(r) == cur = r /\ pc \in {"readNd", "recordNd", "readKwse", "recordKwse"}

\* Deleting an intent while it is observed lets one row count as applied that the
\* intent authored next did not ask for, but never makes its reach look finished:
\* the other rows still lack a revision, and the check that gives them one
\* replaces the wrong row first - unless the process dies half way through it.
FinishedAnswersIntent ==
    spent.crashes = 0 /\ spent.lookups = 0 =>
        \A r \in Reaches : Proved(r) /\ ~BeingObserved(r) => AsAsked(r)

\* A parked reach has no job on record and a full streak of failures: parking
\* never leaves a marker that would keep the loop from settling.
ParkedIsIdle ==
    \A r \in Reaches :
        proc[r].halted => proc[r].step = NoStep /\ proc[r].failures >= HaltAfter

\* A marker carries the reference of a job SEPEX still knows, for the same
\* reach and step, so a poll never acts on another reach's job.
MarkersNameTheirJobs ==
    \A r \in Reaches :
        /\ proc[r].step = NoStep <=> proc[r].ref = None
        /\ proc[r].ref # None =>
              /\ jobs[proc[r].ref] # None
              /\ jobs[proc[r].ref].reach = r
              /\ jobs[proc[r].ref].step = proc[r].step

\* What a job starts from is in storage, although its payload is built from rows
\* that were written in earlier commits, for intents that may have gone since: a
\* sweep finds its model, a stage step the sweep of that same model, and each of
\* them a library in the reach below.
JobsHaveInputs ==
    \A j \in JobIds : jobs[j] # None =>
        LET r == jobs[j].reach IN
        /\ jobs[j].step = RunNd => jobs[j].model \in built[r]
        /\ jobs[j].step = RunKwse => swept[r][jobs[j].model] > 0
        /\ r \notin Terminals => Below[r] # None /\ \E m \in Models : swept[Below[r]][m] > 0

\* No job is submitted for a reach that is parked or backing off, although the
\* due list is made once for a pass and failures are recorded while it is worked.
BackOffIsKept ==
    [][\A j \in JobIds : jobs[j] = None /\ jobs'[j] # None =>
          ~proc[jobs'[j].reach].halted /\ ~proc[jobs'[j].reach].resting]_vars

Running(j) == jobs[j] # None /\ jobs[j].status = "running"

\* A running job that builds or sweeps and has not published all it was asked for.
Unfinished(j) == Running(j) /\ jobs[j].step # RunKwse /\ ~Done(j)

\* While nothing fails or dies, it takes a fourth change of intent for a reach to
\* be built or swept by two jobs at once, however often intents are deleted, also
\* under a job or in the middle of a check, and with lookups edited in place, where
\* no revision tells one intent from the next: the loop lets go of a job with work
\* left only once intent asks for what storage held before, and it takes one more
\* change to ask for anything else.  That is so where all ask for as many runs: a
\* sweep publishes run by run, and who asks for fewer is satisfied before it ends.
OneBuilderDespiteDeletion ==
    /\ \A i, k \in Intents : i.q = k.q
    /\ spent.faults = 0 /\ spent.crashes = 0 /\ spent.edits + spent.lookups <= 3
    => \A r \in Reaches : \A j, k \in JobIds :
            Unfinished(j) /\ Unfinished(k) /\ jobs[j].reach = r /\ jobs[k].reach = r => j = k

\* Where the loop stands with respect to the reach above or at `cur`.
StillToObserveKwse == {"readModel", "recordModel", "readNd", "recordNd", "readKwse", "recordKwse"}

Stale(r) ==
    /\ want[r] # None /\ Proved(r) /\ r \notin Terminals
    /\ ~(Plannable(r) /\ kw[r].stages = Planned(r))

\* Somebody will look at r again: it has asked, it is being looked at, the
\* loop is about to tell it, or the reach below is itself not settled.
Noticed(r) ==
    \/ proc[r].requested
    \/ cur = r /\ pc \in StillToObserveKwse
    \/ cur = Below[r] /\ note.tell
    \/ want[Below[r]] = None \/ ~Proved(Below[r])

\* The stage library of r is the plan on fewer runs than the reach below now has:
\* its intent passes the others over, so that nobody was told of them.
Outgrown(r) ==
    /\ Plannable(r)
    /\ \E c \in Discharges :
          /\ c < nd[Below[r]].q
          /\ \A d \in nd[Below[r]].qs : d <= c
          /\ kw[r].stages = PlanOn(r, c)

\* A proved stage library that no longer matches the plan its downstream reach
\* now implies never goes unnoticed, unless the reach below has gained no more
\* than runs it passes over, the process died, or an intent was deleted and
\* authored anew, or moved without moving its revision.
StaleIsNoticed ==
    spent.crashes = 0 /\ spent.withdrawals = 0 /\ spent.lookups = 0 =>
        \A r \in Reaches : Stale(r) => Noticed(r) \/ Outgrown(r)

\* The rows of r are of revision n of its intent or a later one, or have been
\* forgotten with a deletion since.
Answered(r, n) ==
    LET of(row) == row # None /\ (row.rev >= n \/ row.rev < 0)
    IN  of(mm[r]) /\ of(nd[r]) /\ (r \in Terminals \/ of(kw[r]))

\* The loop drops the marker of a job that is still running only when it has lost
\* track of the job, or when the reach has everything that was asked of it at the
\* revision the check decided on - which intent may have left by then.
RunningMarkersAreKept ==
    [][\A r \in Reaches :
          proc[r].ref # None /\ Running(proc[r].ref) /\ proc'[r].ref # proc[r].ref
             => spent'.faults > spent.faults \/ (cur = r /\ Answered(r, note.rev))]_vars

-----------------------------------------------------------------------------
(* What readers of the tables may rely on *)

\* The observation under way, as a reader of the tables sees it: the loop's
\* position, with everything but the intent it has read left out.
RowAt == [recordModel |-> "model", recordNd |-> "nd", recordKwse |-> "kwse"]

Eye ==
    IF pc \in DOMAIN RowAt
    THEN [reach |-> cur, row |-> RowAt[pc], intent |-> note.wanted]
    ELSE [reach |-> None, row |-> "none", intent |-> None]

Promise == INSTANCE Ledger WITH eye <- Eye

\* The loop, its jobs, its crashes and its people, seen from the tables, never
\* do more than a Ledger does: every row is the record of one observation, for
\* the intent that observation read and under its revision, of what storage
\* held when it was written.
KeepsLedger == Promise!Spec

-----------------------------------------------------------------------------
(* Liveness *)

\* The reaches a reach drains through, itself included.
Path(r) ==
    {x \in Reaches : \A S \in SUBSET Reaches :
        r \in S /\ (\A y \in S : Below[y] \in S \union {None}) => x \in S}

\* A reach cannot finish when a person is needed on the way down.
NeedsPerson(r) ==
    \E x \in Path(r) : \/ want[x] = None
                       \/ proc[x].halted
                       \/ x \notin Terminals /\ (Below[x] = None \/ ~want[x].dz)

\* Reaches never all wait for one another: when one is unfinished and nobody is
\* needed on the way down, some reach on that way has a job to poll, or a step
\* to run that the due list offers as soon as any back-off is over.
SomebodyCanMove ==
    \A r \in Reaches : want[r] # None /\ ~Complete(r) /\ ~NeedsPerson(r) =>
        \E x \in Path(r) :
            \/ proc[x].ref # None /\ jobs[proc[x].ref] # None
            \/ /\ Calculate(SnapshotOf(x)).kind = "RunStep"
               /\ Due(x) \/ proc[x].resting

\* Once people, faults and crashes stop, every reach with intent finishes and
\* stays finished, or waits on a reach a person must deal with.
Converges == <>[](\A r \in Reaches : want[r] # None => Finished(r) \/ NeedsPerson(r))

\* ... and its stage library is the one its downstream reach implies, or implied
\* before it gained runs that it passes over.
LibrariesSettle == <>[](\A r \in Reaches : ~Stale(r) \/ Outgrown(r) \/ NeedsPerson(r))

\* A reach withdrawn and authored anew may for a while count a row as applied
\* that the new intent did not ask for; the next check puts it right (unless a
\* lookup was edited in place, which brings no check about, or the process died,
\* after which there may be no next check).
AppliedSettles ==
    <>[](spent.lookups > 0 \/ spent.crashes > 0 \/ \A r \in Reaches : AsAsked(r) \/ NeedsPerson(r))

\* A check that was requested takes place, also when the request arrives in
\* the middle of another check of the same reach.
RequestsAreHonoured ==
    \A r \in Reaches :
        (proc[r].seen = "checked" /\ proc[r].requested /\ want[r] # None)
            ~> ((pc = "readModel" /\ cur = r) \/ proc[r].halted \/ want[r] = None)
=============================================================================
