# Reconciler: specification and proofs

TLA+ modules for the programs of this repository: the reconciliation loop and what
it does to the database and to SEPEX, step by step, while people author intent,
jobs run and fail, and the process dies; the commands by which work enters the
system; and the export by which results leave it. TLC checks small instances;
TLAPS proves every safety property the passing runs check, and that the loop implements
the abstract `Ledger`, for every network, every planner and every bound; liveness
is left to TLC.

Paths below are relative to the repository (`reconciler/recon/check.py`, ...).

## 1. The system

A reach network drains downstream into terminal reaches. For every reach with
intent the system builds a model, runs a library of normal-depth (ND) scenarios
under it and, unless the reach is terminal, a library of known-water-surface
(KWSE) scenarios whose stages are planned from the libraries of the reach below.
PostgreSQL holds intent, what was observed and the state of processing; storage
holds the artifacts; SEPEX runs the jobs. One loop connects them:

```
people -> desired_state --(effective intent)--> loop --submit--> SEPEX -> jobs -> storage
                 ^                               |  ^------ poll --------'          |
          triggers: revision,                    v                                  |
          forget on delete              materialized_*, reach_processing <--observe-'
```

A pass polls the jobs on record, lists the reaches that are due and checks each.
A check observes storage three times (model, ND library, KWSE library), records
what it finds, asks the reaches above to check when a library changed, computes
the gap and acts on it. A job's report is never evidence: only what storage
holds is recorded. Every query is a transaction of its own.

### Inventory

| component | state | operations | what is hard | what makes it correct |
| --- | --- | --- | --- | --- |
| gap ladder (`recon/gap.py`) | none | `calculate` | order of the rungs; a job in flight hides what is missing | says "run" only when nothing is in flight, "no gap" only when all is proved |
| loop (`scripts/reconcile.py`, `recon/queue.py`, `recon/check.py`) | its list of due reaches, quiet and pass counts | `one_pass`, `due_reaches`, `run_check`, the exit rule | the list is computed once; every check is about fifteen commits, anything may happen between two of them; a stop anywhere | converges; a requested check takes place; one job at a time per reach; a stale library is noticed |
| job polling (`recon/jobs.py`) | none of its own | `poll_in_flight` | two commits per job; SEPEX does not answer, or has forgotten | acts on the reach's own job; keeps the marker of a running job |
| processing state (`recon/processing.py`, `db/schema/07`) | `reach_processing` | `start_check`, `mark_in_flight`, `clear_step`, `wait_on`, `record_failure`, `clear_failures`, `clear_halt` | a request that arrives in the middle of a check; parking; back-off | a parked reach is idle; a request outlives the check it arrives in |
| observation (`recon/observe.py`) | `materialized_models`, `_nd_runs`, `_kwse_runs` | `observe_reach`, `observe_nd_runs`, `observe_kwse_runs`, `adopt` | intent read, storage searched and row written in separate transactions; jobs publish meanwhile | rows name what storage holds and count only for the intent they were made for |
| intent (`recon/intent.py`, `db/schema/03`, `09`) | `desired_state`, defaults, revisions | authoring, change of defaults, delete, the triggers | a deletion between read and write; an identity that moves without a revision | revisions identify what was asked for |
| authoring (`scripts/author_intent.py`, `aoi_config.py`, `flow_statistics.py`) | none | `defaults`, `aoi`: bounds on a grid, the downstream-closed check, one transaction per AOI | grids that collapse, missing statistics; what was checked by one query is written by a later one | the database accepts every row; intent stays closed downstream and can be hashed |
| execution service (`recon/execution.py`), SEPEX, jobs | SEPEX's job records; storage | `submit`, `submit_group`, `poll`; publish, end | a late answer, a forgotten job, a job that reports success and published nothing | bounded duplication, recovery |
| scenario collection (`recon/scenarios.py`) | none | `planned`, `pending` | reads rows of the reach below that are not proved | a plan is made of what the libraries hold |
| KWSE planner (`recon/plan.py`) | none | stages and pairings | snapping to a step with round-half-to-even, floors and ceilings | covers the span the downstream library covers, without doubles |
| identity and addresses (`recon/identity.py`, `storage.py`) | none | hashes, paths | land-cover lookup read when identity is computed | equal content, equal address |
| seeding (`scripts/seed.py`) | water bodies, `reach_network`, the published network and polygons | `lakes`, `coasts`, `network` | a commit, then uploads; two people at once; a kill in between | what jobs read is what the database says; an outflow has its polygon |
| source staging (`scripts/stage_source_data.py`) | source data in storage | ask, upload | ask and upload are two requests | what is staged is not replaced |
| flow bounds (`scripts/bound_flows.py`) | - | one table from another | data quality | - |
| flows2fim export (`scripts/f2f.py`) | an out-dir, local or in storage | `scenarios`, `library`, `aep` | four queries while the loop writes; steps killed and run again; grids that are missing | what flows2fim may choose is there and is reached; one export per out-dir |
| views (`db/schema/08_views.sql`) | none | `reach_status` | states are derived, in an order of precedence | agrees with the loop about what is in flight |
| deployment (`deploy/`, `infra/`, `sepex/`) | - | provisioning, Batch status relay | a late or repeated Batch event | the relayed status is the last one |

`PROJECT.json` lists the hazards at their lines and the properties that cover
each.

## 2. Modules

| module | what it is |
| --- | --- |
| `Gap.tla` | the ladder of `recon/gap.py`, without state |
| `Reconciler.tla` | the loop with the database, SEPEX, jobs and people; the safety and liveness properties |
| `MCReconciler.tla` | constants of the small instances |
| `Adopt.tla` | `adopt` of `recon/observe.py`: which discharges in storage make a library; the enumeration it is compared with |
| `Planner.tla` | `recon/plan.py`: the stages of a library, what forces each run and what it starts from |
| `Libraries.tla` | reaches whose libraries are data: sweeps and chains of scenarios, observation, planning and submission with `Adopt` and `Planner` |
| `MCLibraries.tla` | the readings, bands and intents of its instance |
| `Ledger.tla` | the abstract specification: what the `materialized_*` tables promise their readers, without the loop |
| `Bounds.tla` | what `author_intent.py` makes of two flow statistics: bounds, opening step and grid |
| `Intake.tla`, `MCIntake.tla` | the commands that seed, stage and author, with `Bounds` for the rows they write; its instance |
| `Export.tla`, `MCExport.tla` | the three steps of `f2f.py` while checks rewrite the tables; its instance |
| `Claims.tla`, `IntakeClaims.tla`, `ExportClaims.tla` | statements of the documentation and of messages that the code does not keep |
| `ReconcilerProofs.tla` | types: lemmas about the operators, and `Spec => []TypeOK` |
| `ReconcilerSafety.tla` | nine safety properties of the loop, proved |
| `StaleProofs.tla` | no stale stage library goes unnoticed, and what looks finished answers intent, proved |
| `LedgerProofs.tla` | the loop implements `Ledger`, proved |
| `AdoptProofs.tla` | the adopted library is the cheapest, and where none is adopted two neighbours further apart than the grid are not tolerated, proved for any runs and bands |
| `LibrariesProofs.tla` | what `Planner` plans; the properties of `Libraries`, proved |
| `IntakeProofs.tla` | the rows of an AOI are legal; the properties of `Intake`, proved |
| `ExportProofs.tla` | the safety properties of `Export`, proved |

### State of `Reconciler` and what it stands for

| variable | code |
| --- | --- |
| `want` | `desired_state` with the defaults resolved, as `intent.effective` reads it: model identity, upper discharge, whether a stage increment is authored, revision |
| `mm`, `nd`, `kw` | the row of the reach in each `materialized_*` table, with `applied_revision` as `rev` |
| `proc` | the row of `reach_processing`; see the comment at `ProcRow` |
| `nd[r].q`, `nd[r].qs` | the two columns of `materialized_nd_runs` that say which runs there are: `stage_curve` has every run (`q` is the last of them), `q_set` those that adoption kept |
| `built`, `swept`, `staged` | storage: models, how many runs a model has, numbered in the order they are published, the KWSE scenarios under a model |
| `jobs` | SEPEX's records, kept while a job runs or somebody holds its reference |
| `pc`, `todo`, `cur`, `note`, `tally` | the loop's position between two commits, its list, the reach it is at, its local variables, its counts |
| `spent` | how much of each bound has been used |

Actions follow the code: `BeginPass`, `Poll`, `PollRequest`, `ListDue`, `EndPass`
are `one_pass`, `jobs.py` and the exit rule; `StartCheck` to `Request` are
`run_check`, one action per commit or read, with the merges named under
Abstractions; `Crash` and `Restart` are the process;
`Publish`, `Succeed`, `SucceedHollow`, `FailJob` are jobs; `Author`,
`ChangeDefaults`, `EditLookup`, `Withdraw`, `ClearHalt` are people, and
`RetryTime` is `next_retry_at` coming to pass.

A decision and what is done about it are two actions. `Decide` is
`load_snapshot` and `calculate` (`check.py:379`): it keeps the gap and the
revision it was computed for in `note.gap` and `note.rev`. `Act` is
`clear_step` and `wait_on` (406-424), and `Submit` reads the rows again for its
payload. People may author or delete intent between any two of them, so a marker
may be dropped for an intent that is no longer in force. In the same way an
observation of stages makes its plan when it starts (`note.plan`, `observe.py:332`)
and compares storage with that plan later.

### State of `Libraries`

`Reconciler` keeps the control of a check and reduces libraries to how far they
reach; `Libraries` does the reverse. A check is one step, `Check`: it observes
both libraries (`NdObserved`, `KwObserved`), tells the reaches above (`Asked`)
and takes one of `Satisfied`, `Stay`, `Sweep`, `Stage`. `stored`, `bare` and
`made` are storage: discharges with a manifest, a folder still without one, and
stage scenarios by their address. `sweeping` and `chains` are the jobs that
run, `marker` and `asked` the two columns of `reach_processing` that matter here,
`moved` says that `desired_state.revision` is ahead of the rows. What a
scenario reads (`reading`) is fixed in a behaviour and differs between initial
states. Models, parking, failures of a submission and deaths are left to
`Reconciler`. Stages are integers in a unit fine enough for the readings, so
that the `_EPS` of the planner has nothing to absorb; rounding of halves to the
even multiple is kept.

### `Ledger`

What a reader of the tables may rely on: a row is written by an observation,
which reads intent first, looks at storage later and records the revision it
read first. `eye` is the observation under way. `Reconciler!KeepsLedger` is
`INSTANCE Ledger WITH eye <- Eye`, where `Eye` is read off the loop's position:
at a `record...` commit it is the reach and the intent of the check, elsewhere
it rests. Polls, submissions, markers and requests are stutters; every authoring
is an `Intend`, every upload of a job a `Store`.

### State of `Intake`

| variable | code |
| --- | --- |
| `bodies`, `net` | the lakes and coasts, `reach_network` (`to`, `body`) |
| `rows`, `dflt` | `desired_state` with the bounds as written and its lookup, the lookup of `desired_state_defaults` |
| `polys`, `parquet`, `lookups` | storage: published polygons, the published network, staged lookups |
| `cmd` | for each running command, the step it is at and what it has read and not written |
| `past` | how much of each bound has been used, and whether a seeding has moved a link, the default has moved, a seeding has overtaken another, two people have staged one name at once |

Each query, transaction and upload of a command is an action: `SeedBodies`,
`PublishPolygon`; `SeedNetwork`, `LoadNetwork`, `ReadNetwork`, `PutNetwork`;
`Stage`, `StageUpload`; `AuthorDefaults`; `AuthorStart`, `AuthorReadNetwork`,
`AuthorCheck`, `AuthorWrite`; and `Kill` between any two. Commands of two people
interleave. Statistics and factors are tenths, which is what the rounding to
whole numbers tells apart; a missing statistic is `NaN`.

### State of `Export`

| variable | code |
| --- | --- |
| `nd`, `kw`, `watch` | the model of each library row, rewritten by checks, one reach at a time |
| `grids` | the depth grids in storage, which may be lost and come back |
| `out` | the out-dir: `scenarios.db` (absent, tables only, full), start reaches, library, marks of missing grids, maps |
| `step` | the running step of `f2f.py`, with what it has read |
| `since` | history: what the tables have said since the scenarios step began |

The four queries of `scenarios`, its files, each grid of `library`, the marks,
and the stages of `aep` are actions of their own. In storage `scenarios.db` is
uploaded when it is done; locally sqlite leaves tables without rows when killed
(`WriteTables`). `flows2fim` is external: it answers with at most one usable
scenario for a reach, for any reaches.

### Abstractions

- An observation is two steps. `ReadIntent` reads the intent, the row it may
  replace and, for stages, the plan; these reads are queries of their own in
  the code and one step here. The second step looks at storage and writes the
  row. Anything may happen between the two. What the observation sees in storage
  it sees at the moment it writes; storage only grows in the model, so that what
  was there a moment earlier is there still. `RecordModel` reads its old row
  late, as the code does, and may see either.
- A model identity stands for the model and the run identity that follows from
  it. The runs of an ND library are numbered as a sweep publishes them, one by
  one. `AdoptedOf` says which of the first so many runs an intent keeps, and
  `PlanOf` makes stages of the five things the planner reads: the runs the
  reach itself keeps, the upper discharge of the intent below, and of the row
  below the runs kept, the runs on its stage curve, and its stages. Curve and
  kept set are apart because `observe_nd_runs` reports a change of the set
  (`observe.py:294-297`) and the planner reads the curve (`scenarios.py:47-56`).
  Both are constant functions; the proofs hold for any, `Adopt` and `Planner`
  are those of the code.
- Time stamps are reduced to the comparisons the code makes: `requested`,
  `resting`, and whether a marker has outlived its grace, which is a choice
  between `PollUnknown` and `PollLost`. These two are also where SEPEX forgets a
  job the loop has on record: the answer is "unknown", whatever `jobs` still
  says. `Reaped` forgets nothing anybody could ask for; it only frees references
  so that a finite set of them suffices.
- An authored AOI is a set of reaches closed downstream and one intent for all
  of them; discharges have no default, so `ChangeDefaults` moves models and
  increments only.
- `--once` is a pass followed by a stop, which `Crash` covers. Error texts and
  `reach_activity` are left out: nothing reads them back. `clear_step` and
  `wait_on` of a satisfied reach are one step, because nothing reads
  `blocked_on_reach_id` back.
- `Libraries` has one grid of discharges to a reach, which the code chooses anew
  from the bounds whenever they are authored (`choose_q_grid`).
- `Intake.AuthorStart` reads the default and the staged lookup in one step, two
  requests in the code (`author_intent.py:315`, 320). `Bounds` multiplies by
  exact tenths where the code has floats (113-114), in which 10 * 1.1 rounds up
  to 12 and not 11. In storage `f2f.py` uploads the database, start reaches and
  layers together at the end of the scenarios step (416-417); `Export` lets them
  appear one by one, in their order. No property depends on any of the three.
- One loop runs against a database, as the runbook has it.

## 3. What the runs check

| run | instance | shows |
| --- | --- | --- |
| `faults` | chain of 2, one authoring, one fault, one death, parks at the first failure | `TypeOK`, `RecordedIsStored`, `ParkedIsIdle`, `MarkersNameTheirJobs`, `JobsHaveInputs` |
| `converges` | chain of 2, one authoring, one fault, one death, parks at the second failure, fair | `Converges`, `RequestsAreHonoured`, `SomebodyCanMove`, `BackOffIsKept` |
| `libraries` | chain of 2, two authorings of three intents, exits when quiet, fair | `AppliedMatchesIntent`, `StaleIsNoticed`, `LibrariesSettle`, `KeepsLedger` |
| `reauthoring` | one reach, three authorings of two models, one deletion, one lookup edit, fair | `OneBuilderDespiteDeletion`, `RunningMarkersAreKept`, `JobsHaveInputs`, `FinishedAnswersIntent`, `AppliedSettles` |
| `ladders` | chain of 2, discharges 2, 4, 6 below and 2, 4 above, two worlds of readings, two intents each (the lower reach may be narrowed to 2, 4), one authoring anew | `TypeOK`, `AdoptedIsCheapest`, `HolesCanBeFilled`, `InputsAreThere`, `StagesAreCovered` of `Libraries` |
| `intake` | chain of 3 in two files that share a reach, four AOIs, two people, seven commands, one kill, one fault | `TypeOK`, `IntentIsAccepted`, `IntentIsClosed`, `PublishedIsCurrent`, `OutflowsArePublished`, `LookupsAreReadable`, `StagedIsKept` of `Intake` |
| `export` | chain of 2, two models, three tables to begin with, one check, one grid lost, one kill, local or in storage, fair | `TypeOK`, `FinishedLibraryIsUsable`, `StartsReachAll`, `QuietExportIsExact`, `OneExportPerOutDir`, `ExportFinishes` of `Export` |
| `doc_*` | as small as the disagreement allows | the five findings of section 5 |

The properties, in words:

- `RecordedIsStored`: every row in `materialized_*` names artifacts in storage.
- `AppliedMatchesIntent`: a row that counts as applied is what the intent in
  force asks for, whatever was authored while it was being written - as long as
  no intent was deleted and no lookup edited in place.
- `FinishedAnswersIntent`: with deletions, a row may say too much, but no reach
  looks finished by it: whatever counts as proved, outside a check that looks
  for its libraries, is what intent asks for. It excuses deaths (`doc_answers_intent`
  is what a death does) and lookup edits.
- `ParkedIsIdle`: a parked reach has no marker and a full streak of failures.
- `MarkersNameTheirJobs`: a marker carries the reference of a job of that reach
  and step, so that a poll never acts for another reach.
- `RunningMarkersAreKept`: a running job's marker goes only when SEPEX lost
  track of the job, or when every row of the reach is of the revision the check
  decided on. Intent may have moved or gone since: nothing looks again between
  the snapshot (`check.py:379`) and `clear_step` (408), and TLC finds the
  stronger statement, that the reach has all it is asked for now, violated.
- `JobsHaveInputs`: a sweep finds its model in storage, a stage job a sweep of
  that same model, and every job a library in the reach below, although payloads
  are built from rows of earlier commits.
- `BackOffIsKept`: no job is submitted for a reach that is parked or resting,
  although the due list is made once a pass and failures are recorded while it
  is worked.
- `SomebodyCanMove`: reaches never all wait for one another. Where a reach is
  unfinished and nobody is needed on the way down, some reach on that way has a
  job to poll or a step the due list offers.
- `OneBuilderDespiteDeletion`: without faults and deaths, no reach has two build
  or sweep jobs with work left until intent has been authored or a lookup edited
  a fourth time, with intents deleted any number of times, also under a job or
  in the middle of a check. Revisions do not tell one intent from the next
  there. The loop does let go of a job that runs: intent that moves away, back
  while the second job runs, and away again makes it find nothing missing, drop
  a marker, and give another job beside the first. With a fourth change TLC finds
  the two jobs. It is stated for intents that ask for one upper discharge: a
  sweep publishes run by run, and whoever then asks for fewer runs is satisfied
  before it ends, so that with two upper discharges the third authoring is enough
  for two sweeps beside one another (the second is not).

  It does not speak of stage jobs, of which it would be false: a plan shrinks
  while a row below is being replaced, a check finds nothing missing and drops
  the marker, and the plan grows back. The second job runs again what the first
  still runs, at the same addresses. Nothing in the documentation promises
  otherwise; it is recorded here and as a hazard.
- `StaleIsNoticed`: a proved stage library that is no longer what the plan
  implies has a check coming, unless the process died, an intent was deleted or a
  lookup edited in place, or unless it is `Outgrown`: it is what the plan was
  before the reach below gained runs that its intent passes over. These lengthen
  the stage curve the planner reads and leave the kept set, the hash and the
  revision as they were, which is all that `observe_nd_runs` compares. Without
  the excuse TLC finds the library that nobody looks at again, in a chain of two
  whose intents differ in the upper discharge, with three authorings and no
  fault; it is on the list of hazards. In the run the excuse is needed by no
  state, in the theorem it is.
- `KeepsLedger`: seen from the tables the loop never does more than a `Ledger`
  does.
- `Converges`, `LibrariesSettle`, `AppliedSettles`: once people, faults and
  deaths stop, every reach with intent finishes or waits on a person, with the
  stage library its downstream reach implies (or `Outgrown`) and rows that answer
  intent. The last excuses deaths and lookup edits, after which nothing may be
  due.
- `RequestsAreHonoured`: a requested check takes place, also when the request
  arrives in the middle of a check of the same reach.
- `AdoptedIsCheapest`: the adopted library is one of those intent tolerates and
  none of the others is cheaper.
- `HolesCanBeFilled`: when no library in storage is tolerated, the range a sweep
  is given (`check.py:256`) has a discharge that storage lacks, unless the two
  neighbours intent does not tolerate both lie outside that range (`HoleBeyond`).
  Adoption looks at every run there is (`observe.py:230`, 264), and an address
  does not depend on the bounds (`identity.py:131`); bounds that were narrowed
  can therefore leave a gap no sweep will fill, and the loop then submits sweeps
  that add nothing, for as long as intent stays as it is. That needs four lines
  of the grid and is not reached by the run; it is on the list of hazards.
- `InputsAreThere`: the scenario a running job takes next finds its hot start and
  its downstream boundary published, whatever was planned and adopted since the
  chain was handed out, and wherever an earlier chain ended.
- `StagesAreCovered`: a stage library on record with no check coming has, for
  every downstream run between its floor and its ceiling, a rung within half an
  increment. It is stated where the reach below adopted every run it has; where
  it passes runs over, the stage library may be `Outgrown` in the sense above,
  and what its new runs need is not in it.
- `IntentIsAccepted`: what an authoring writes after its checks violates no
  constraint of the database, and a sweep can start on it.
- `IntentIsClosed`: a reach with intent drains into a reach with intent, although
  the check reads links and intent by two queries before the write - as long as
  no seeding moved a link.
- `PublishedIsCurrent`: with no seeding under way, the network jobs read is the
  one in the database, unless one was killed or committed while another was
  about to publish (the read-back and the upload are two steps).
- `OutflowsArePublished`: a reach that drains into a water body finds the polygon
  in storage, or on its way, unless a seeding was killed: bodies are committed
  before their polygons are published, and networks may name them at once.
- `LookupsAreReadable`: a reach with intent has a staged lookup to be hashed from,
  unless the default was moved: `defaults` only remarks on a missing one.
- `StagedIsKept`: what is staged is never replaced, unless two people stage under
  one name at once or a request to storage fails and is taken for a no.
- `FinishedLibraryIsUsable`: after a finished library step every scenario that is
  not marked missing has its grid, whatever was interrupted before.
- `StartsReachAll`: tracing upstream from the start reaches meets every exported
  reach, links cut where they leave the export.
- `QuietExportIsExact`: an export during which no check wrote is what the tables
  hold, with a layer for every reach.
- `OneExportPerOutDir`: an out-dir is filled once, whatever is killed and run
  again.
- `ExportFinishes`: an export with something to publish is finished in the end,
  in one out-dir or another, whatever is killed, unless a materialized library
  has gone from storage for good.

### Bounds and why they are enough

Two reaches, upstream first in id order, are the smallest network with a reach
that waits, a plan and a notification; ids against the direction of flow are the
harder order. A terminal reach alone is enough for what concerns one reach.
Two discharges let a library grow and shrink; three intents add the absence of
an increment; two models let an identity move. Four job references are never
all in use in these instances (that a free one exists at every submission was
checked), and are used again once forgotten. `MaxEdits`, `MaxWithdrawals`,
`MaxLookups`, `MaxFaults` and `MaxCrashes` count authorings, deletions, lookup
edits, things that go wrong and deaths; each may happen between any two steps.
`tally` counts passes up to 3 and quiet passes up to 2, which is all the exit
rule tells apart. A chain of three is beyond what a run of a few minutes
covers, so that a change passed on through a stage library to the reach above it
is left to the plan (section 6) and, for safety, to the proofs, which hold for
every network.

`ladders` rests when nothing is due, so deadlock is not an error there. Three
discharges are the fewest among which a library has a choice, and between which
one can be missing. One world has readings that rise slowly, so that a discharge
is passed over, the other a jump that is not tolerated as long as the grid has a
discharge between that has not been run. The two increments of the upper reach plan stages that
coincide and stages that are skipped; the narrower range of the lower one leaves
a discharge in storage that intent no longer asks for. Areas are chosen so that
percentages are whole. The grid of a reach is fixed and without holes
(`GridAssumption`), as a range with a step is.

`intake` has two network files because a seeding touches the reaches of its own
file only: the upper file is cut above the reach the two share, so that seeding
one after the other moves a link. The AOIs cover one flowpath, both or one in the
other file, with statistics too close for a grid, in the wrong order and missing.
Two commands at once are enough for every pair of steps; seven commands let two
people seed bodies, a network, stage a lookup, set the default and author, and do
one of them again. The two are interchangeable (`SYMMETRY`; the run has no
liveness). Commands run out, so deadlock is not an error there. `export` starts
from new libraries, from libraries made under two models, and from a stage row
whose normal-depth row is gone; one check during the queries is the least that
can mix two states, one grid lost the least that is marked.

### Fairness

`Export` assumes of people only that the steps of a snapshot are run to their end
and again after one was stopped, whatever else is run in between
(`just f2f-snapshot`): strong fairness, because a person who has other commands
to run is not always at leisure, and weak fairness for the next query, file or
grid of a step that is running.

For the loop, `FairSpec` assumes that the loop takes its next step (a `while True` of
synchronous calls), that a stopped loop is started again (the runbook's
operator), that a running job publishes and ends, and that `next_retry_at` comes
to pass. Nothing makes people author, clear a halt, or fail. `NeedsPerson`
exempts a reach below which somebody must act: no intent, a halt, no increment.
The bound on faults is part of the assumption: a job that reports success and
publishes nothing, for ever, is submitted for ever.

## 4. What is proved

The theorems about the loop (`ReconcilerProofs`, `ReconcilerSafety`, `StaleProofs`,
`LedgerProofs`) hold for every `Reaches`, `Below`, `AdoptedOf`, `PlanOf`,
`HaltAfter` and every bound that satisfy the assumptions of `Reconciler` (the
network is a function into itself, references and rows differ from `None`,
`AdoptedOf` keeps runs there are, `PlanOf` returns stages, settings are numbers).
`SomebodyAlwaysCan` alone has a hypothesis more, `Drains`: no set of reaches drains
only into itself. Nothing in the code excludes a loop in the network (it is read
from a file of river data), and reaches on one would wait for each other for ever.

Those about `Adopt` hold for any finite set of runs, any integer readings and any
bands; those about `Libraries` for any network in which no reach drains into
itself, any intents on a grid of discharges (`GridAssumption`: where two lines of it
are further apart than its step there is one between), and any readings, as long as
`nominal_wse` returns a stage. The last is a hypothesis of the theorems
(`RaisedIsStage`) and not an assumption of the module, because it speaks of all
integers and TLC cannot evaluate it; the instance's `Raised` is a number or one
more. Those about `Intake` hold for any number of commands and people and any
files, AOIs and statistics; those about `Export` for any tables, any number of
checks, losses and kills and any network that drains (`NetworkAssumption`: from
any of its reaches water leaves). TLC evaluates the assumptions in every run.

| theorem | property | inductive invariant |
| --- | --- | --- |
| `TypesHold` | `TypeOK` | `Typed`: types, and `Where`: at a reach in a check, a step when submitting, a reference when marking |
| `ParkedReachesAreIdle` | `ParkedIsIdle` | `Parked`: neither the reach of a check nor one on its list is parked |
| `MarkersAreTrue` | `MarkersNameTheirJobs` | `Marks`: a job accepted and not yet recorded is the reach's own, and the reach has no marker |
| `MarkersAreKept` | `RunningMarkersAreKept` | the same, with `MarkerSteps`: every step keeps each marker, drops it with an excuse, or is `Mark`; and `Granted`: a check that acts on nothing being missing was right when it decided |
| `RowsAreBacked` | `RecordedIsStored` | itself, with `StorageGrows` |
| `AppliedRowsMatch` | `AppliedMatchesIntent` | `Fresh`: a row or an observation holds a revision intent has had, and the one in force only if it is what intent asks for |
| `OneBuilderAlways` | `OneBuilderDespiteDeletion` | `Accounting`: by how often people have changed any intent, what jobs and storage have to do with it, and what the observations and the check of a reach hold |
| `JobsFindTheirInputs` | `JobsHaveInputs` | `Fitting`: past its ND row, a check has a library of the model it has; with `RecordedIsStored` |
| `BackingOffIsKept` | `BackOffIsKept` | `Parked`, and `Awake`, the same of resting |
| `SomebodyAlwaysCan` | `SomebodyCanMove` | `Marks`; the lowest unproved reach on the way down, by `PathGoesDown` and `LadderMoves` |
| `FinishedIsAsAsked` | `FinishedAnswersIntent` | `Settles`: `HeldOrGone`, and `Settling` of every reach |
| `StaleLibrariesAreNoticed` | `StaleIsNoticed` | `Heeding` (`Compared`, `Timely`, and `Heeded` of every reach), with `Telling`, `Draining` |
| `LoopKeepsLedger` | `KeepsLedger` | `Typed`: its `Where`, the reach a check is at |
| `AdoptionIsCheapest`, `RefusedHasNoRoute`, `RefusedHasAGap` | - | none: by induction along the discharges, for the table `Best` fills |
| `RungsCover` | - | none: a stage attained in the range is no further from its own multiple of the increment than half of one |
| `LibrariesInvariant` | - | `IInv`: `Typed`, and `ReachHolds` of every reach |
| `TypesHold`, `AdoptedStaysCheapest`, `HolesStayFillable`, `InputsStayThere`, `StagesStayCovered` | `TypeOK`, `AdoptedIsCheapest`, `HolesCanBeFilled`, `InputsAreThere`, `StagesAreCovered` of `Libraries` | the same; with `AdoptionIsCheapest`, `RefusedHasAGap` and the grid, `RungsCover` |
| `AuthoredRowsAreLegal` | - | none: for any two statistics and any factors, by the cases of the grid |
| `IntakeTypesHold`, `AuthoringIsAccepted` | `TypeOK`, `IntentIsAccepted` of `Intake` | types; `AuthoredRowsAreLegal` |
| `IntentCanBeHashed` | `LookupsAreReadable` | `ReadableIntent`, `SeenLookup`: the lookup an authoring has seen is there when it writes |
| `IntentStaysClosed` | `IntentIsClosed` | `LinksHold`, `ClosedToWrite`, `ClosedIntent`: links read are links still there; a set checked is closed when written |
| `PublishedNetworkIsCurrent` | `PublishedIsCurrent` | `CopiesAreCurrent`: a copy about to be uploaded is the table, unless overtaken |
| `OutflowsHavePolygons` | `OutflowsArePublished` | `NamedAreSeeded`, `OnTheirWay`: what a network or a file names is committed, and committed bodies are published or in a command's hands |
| `SourceDataIsKept` | `StagedIsKept` | `UploadsReplaceNothing` |
| `ExportTypesHold` | `TypeOK` of `Export` | `Sound`: `Placing` (what is to be placed, is in the library or is missing; nothing fills a full out-dir) and `Files` (the files of an out-dir belong together) |
| `FinishedIsUsable`, `OneExportEach` | `FinishedLibraryIsUsable`, `OneExportPerOutDir` | the same |
| `StartsReach` | `StartsReachAll` | the same; a set of reaches without a start has one whose water leaves it, and that link is not cut |
| `QuietExportsAreExact` | `QuietExportIsExact` | `Quiet`: the tables as they are are in the history of a step that reads, and if nothing else is, what it has read is what they say |

Why the strengthenings are needed. `ParkedIsIdle` alone is not inductive:
`Forgive` clears a streak of failures and `Mark` puts a marker, and neither looks
at `halted`. The list of due reaches excludes parked ones, the list is computed
once, and only a check's own failure parks its reach, after which the check ends
- which is what `Parked` says. `MarkersNameTheirJobs` needs to know that SEPEX
does not forget a job between its submission and its record, and that the ladder
chose a step only with nothing in flight (`LadderIsSound`). `AppliedMatchesIntent`
needs the intent an observation holds to be as old as its revision says
(`Held`), and authoring never to change an intent under its revision
(`RevisionsMove`); `Withdraw` and `EditLookup` break exactly that, and the
property excludes them.

`RunningMarkersAreKept` rests on what a check keeps between its decision and the
commit that drops the marker. With nothing missing at the snapshot, every row is of
the revision in `note.rev`; until `Act` comes no observation writes a row, and of
what people do only a deletion touches one, which takes its revision away and leaves
it there. That is `Granted`. What intent has become by then it cannot say, nor does
the property.

`StaleIsNoticed` is not inductive because it stops speaking of a reach whose model
is not proved, and speaks of it again when it is. `Heeded` says the same of the
two library rows alone: where they count as applied, the stages are those of the
plan, on the curve below as it is or as it was before it gained runs that are
passed over (`PlannedFor`), or something keeps the fact that they are not - a
request, the check the reach is in, the loop on its way to `notify`, or a library
below that intent has moved past and that will be observed again. A plan held by
an observation must still be the plan when its row is written (`Timely`): only
intent below may have moved meanwhile, which is one of the things that keep the
fact. That a changed library below is told
needs the revision an observation compares with to be the one of the row it
replaces (`Compared`); that the reach below is told for the right reaches needs
`Draining`.

`KeepsLedger` is proved step by step: each action of the loop is shown to be an
action of `Ledger` or to leave what it sees unchanged. A death in an observation
is `Abandon`, a poll or a submission a stutter; an authoring of several reaches
is one `Intend`. The refinement needs only `Typed`: the types, and `Where`, by
which a check is at a reach whenever it writes (`Recording` names the phases in
which the observation is open).

`OneBuilderDespiteDeletion` is not inductive because the loop does let go of jobs
that run. It cannot lean on revisions either: a deleted intent comes back at
revision 0, and a lookup moves what is asked for under any revision. `Accounting`
counts what people have changed instead. After one change all that
was ever asked for is one thing (`Uniform`). After two, what a check has in hand
is either about the model now asked for or that model is in nobody's hands
(`Aimed`), a reach that storage serves has no job left (`ServedIsIdle`), and the
loop holds every job (`AllInHand`). After three it may let one go (`LetGo`), but only
with storage holding what is asked for, and from then on every model row it writes
says so and every submission is satisfied when it is made. To see that it lets go
only then, the proof follows a check from its look at storage to its decision and to
the action on it (`LooksTrue`, `FoundTrue`, `GrantTrue`): finding what it looked for
means no job has work left, unless what it looked for is what intent asks for now
and no change is left to take that back. It also needs `HeldToRecord`, by which an
intent read is forgotten with the observation that read it, and `Fitting`, by which
a check compares a library with its own model.

`FinishedAnswersIntent` is about rows that say too much, and deletion makes them:
an observation that outlives its intent writes a revision that the next intent
reaches. `Settling` says that at most one row of a reach does, and what keeps it
harmless: a wrong ND or KWSE row stands next to a row that cannot count as applied
(`Low`: deletion took its revision, and only a check that replaces the wrong row
on the way gives it one), or it is about to be replaced. A wrong model row may
stay: the ND row beside it is of that same model, which is not the one asked for,
and so does not count. `HeldOrGone` says where
wrong rows come from: the intent an observation holds is one intent in force has
come from, or every row of the reach has lost its revision.

`SomebodyCanMove` needs no invariant beyond `Marks`. Of the unproved reaches on
the way down one drains into a proved reach or into none (`Drains`), and of that
one the ladder says "run" unless a job is on record, which SEPEX then knows.

Adoption is a dynamic programme, and `AdoptionIsCheapest` compares it with all
routes. `Best` is a recursive function on the discharges, and what it computes is
proved from its defining equation, by induction on the discharges as they rise.
No induction theorem with an operator as a parameter is needed: the proper
subsets of a finite set are well founded, so a set of discharges that is not
good has a smallest one (`SubsetInduction`, `Upwards`). Sums over sets of steps,
which the enumeration of routes is written with, are taken apart in the same
way, one step at a time.

`HolesCanBeFilled` follows from a fact of adoption (`RefusedHasAGap`: a set that is
refused has two neighbours that are not tolerated and are further apart than the
grid) and from where they lie. Unless both are outside the range intent asks for,
either the range begins or ends between them, at a discharge storage lacks, or it
contains both, and the grid has a line between them.

`IInv` of `Libraries` says what rows, storage and chains owe each other. A row
names what adoption makes of a part of what storage holds (`RowHolds`); a stage
library is in storage (`StagesHold`); each scenario of a running chain finds its
boundary in storage, and its seed there or just before it in its own chain
(`ChainHolds`) - which is why a chain that ends half way harms no later one. The
delicate part is `PlanHolds`: a stage library with no check coming *is* the plan
made from the rows as they stand now. It has to survive every check of the reach
below, which tells the reaches above only of some of the changes it makes: the
proof shows that the others leave the planner's inputs alone where the lower
reach has adopted all it has run. From there `StagesAreCovered` is a fact about
the planner alone (`RungsCover`).

Only model-checked is all liveness (`Converges`, `RequestsAreHonoured`,
`LibrariesSettle`, `AppliedSettles`, `ExportFinishes`), which is out of the
prover's reach under fairness. `SomebodyCanMove` is the part of `Converges` that
can be said without time: there is always a step to take. That no measure
falls back for ever is what TLC alone shows.

## 5. Where the documentation and the code disagree

Checked, each by a run that finds the violation:

| run | said | done |
| --- | --- | --- |
| `doc_stopped_request` | `scripts/reconcile.py:142` "stopped by hand; nothing lost" | a changed library is committed before the reaches above are asked to check; stopped in between they never are |
| `doc_bump_unparks` | `reconciler/README.md:268` bumping the revision clears a halt | nothing clears `halted` but `clear_halt` |
| `doc_answers_intent` | `db/schema/README.md:21` the tables answer whether what intent asks for is there | an observation of a withdrawn intent writes its old revision after the reach was authored anew at revision 0; a death in the check that was to replace the row leaves it counting as applied for good |
| `doc_snapshot` | `reconciler/README.md:171` "An export is a snapshot of what is materialized when it runs" | its queries each see the tables at their own moment; a check in between leaves an export of what never was |
| `doc_missing_flows` | `scripts/author_intent.py:102` "NAN flow values found for" | a missing statistic is made a whole number before it is looked for, and the reach is authored with a bound nobody gave it |

Met while reading, without a run: the sentence of `reconcile.py:142` goes on to
say that jobs in flight are recorded, whereas a job is recorded after SEPEX
accepted it and a stop in between leaves it to run unrecorded (`Converges` holds
nevertheless); `RUNBOOK.md:155` says that editing the land-cover lookup rebuilds
every model that uses it, whereas no revision moves and a finished reach is not
due; `reconciler/README.md:26` says that `applied_revision` is set only when the
gap is empty and never per step, whereas each observation writes it with its row;
`reconciler/README.md:4` says reaches are processed downstream-first, whereas the
list is in reach id order (gaps close downstream-first because a reach waits for
the one below); and the loop may exit as settled while a reach rests before a
retry, because the exit rule counts neither resting reaches nor outstanding
requests. Two more that no documentation speaks of are described in section 3: a
stage library that is `Outgrown` (`observe.py:294-297`), and bounds that were
narrowed around a gap beyond them (`HoleBeyond`, `check.py:256`).

## 6. Plan

Done in this order: `Gap`, `Reconciler`, its instances and claims, the proofs of
types and of five safety properties; `Adopt` against the minimum over all routes,
`Planner`, and both at work in `Libraries`; `Ledger` and its refinement; `Bounds`
and `Intake`, proved; `Export`, proved; `StaleIsNoticed`, proved; adoption, the
planner and `Libraries`, proved;
`FinishedAnswersIntent`, `JobsHaveInputs`, `BackOffIsKept` and `SomebodyCanMove`,
stated and proved; one builder per reach with deletions and lookup edits, proved,
in place of a statement about all jobs, which does not hold; the
decision of a check and the action on it taken apart, and the stage curve and the
kept runs of a library, with the properties that depend on them stated and proved
anew.
What would be worth doing next:

1. Stage jobs that run beside one another: what the loop would have to keep so
   that a plan which shrinks and grows back is not given out twice.
2. A run from a settled chain of three, where one authoring at the bottom has to
   travel through two stage libraries; it would reach what no run of section 3
   does.
3. The exit rule: what is still to be done when the loop says it has settled.
4. A run of `Libraries` with four lines of the grid, in which bounds are narrowed
   around a gap that is not tolerated and sweeps are submitted that add nothing.
5. Two loops against one database, which nothing in the code prevents.

## 7. Not modelled

- Identity hashes and paths (`identity.py`, `storage.py`): equal content has an
  equal address and different content another, so that a model identity is a
  value. What depends on reading the lookup when it is computed is `EditLookup`
  and `LookupsAreReadable`.
- `scripts/bound_flows.py`: a regression over floating-point flows, made once for
  a continent; its checks are on the table it writes, and nothing runs beside it.
- The wording, log collection and `reach_activity`, which nothing reads back; the
  `reach_status` view beyond `finished` and what the exit rule counts.
- `deploy/`, `infra/` and the registration of processes: scripts that provision and
  are run by hand. The Lambda function that relays a Batch status translates one
  word and forwards it; whether a late event overwrites a newer status is decided
  in SEPEX, whose code is not here. The loop's side of it, a status that is late,
  unknown or wrong, is in `Reconciler`.
- Geometry of seeding, contents of the exported layers, numbering of reaches for
  flows2fim and flows2fim itself.
- Two loops at once, libraries replaced in place and artifacts deleted from
  storage while the loop runs; `PROJECT.json` notes the hazards that go with them.
