------------------------------- MODULE Export -------------------------------
(***************************************************************************)
(* Publishing for flows2fim (scripts/f2f.py) while the loop goes on: the    *)
(* three steps of an export, each query, file and grid a step of its own,   *)
(* killed and run again at any point, against tables that checks keep       *)
(* rewriting and a storage that does not always hold what the tables name.  *)
(*                                                                          *)
(* A scenario stands for all the discharges and stages of one library of    *)
(* one reach; its source is the library's address, which names the model.   *)
(***************************************************************************)
EXTENDS Integers

CONSTANTS
    Reaches,
    Below,         \* reach_to_id, or None
    Own,           \* the reaches in scope: the AOI's network, or the database's
    WithFlows,     \* the reaches the AEP column has a flow for
    Models,
    None,
    Tables,        \* what the two tables may say when we begin to look
    MaxChecks,     \* bound: checks that observe something new while we look
    MaxLosses,     \* bound: grids that storage loses or gains
    MaxKills       \* bound: times a step is killed

ASSUME ExportAssumption ==
    /\ Below \in [Reaches -> Reaches \union {None}]
    /\ Tables \subseteq [Reaches -> Models \union {None}] \X [Reaches -> Models \union {None}]
    /\ Own \subseteq Reaches /\ WithFlows \subseteq Reaches
    /\ None \notin Reaches \union Models
    /\ MaxChecks \in Nat /\ MaxLosses \in Nat /\ MaxKills \in Nat

\* A network drains: from any of its reaches water leaves.
ASSUME NetworkAssumption == \A S \in SUBSET Reaches : S # {} => \E r \in S : Below[r] \notin S

VARIABLES
    nd, kw,   \* the model of each row of materialized_nd_runs, _kwse_runs
    watch,    \* the reach whose libraries a check is observing, or None
    grids,    \* the scenarios whose depth grids are in storage
    out,      \* the out-dir
    step,     \* the running step of f2f.py: where it stands, what it has read
    since,    \* history: what the tables have said while the scenarios step runs
    spent     \* what has been used of the bounds

tables == <<nd, kw>>
vars   == <<nd, kw, watch, grids, out, step, since, spent>>

Rows == [Reaches -> Models \union {None}]
Scenarios == [reach: Reaches, bc: {"nd", "kwse"}, model: Models]
Resting == [at |-> "resting"]

\* An empty out-dir, local or in storage.
NewOut(inStorage) ==
    [inStorage |-> inStorage, db |-> "absent", scenarios |-> {}, network |-> {}, absent |-> {},
     starts |-> None, opened |-> FALSE, library |-> {}, finished |-> FALSE,
     maps |-> None]

Exports == SUBSET Scenarios
Outs ==
    [inStorage: BOOLEAN, db: {"absent", "tables", "full"}, scenarios: Exports,
     network: SUBSET (Reaches \X (Reaches \union {None})), absent: Exports,
     starts: (SUBSET Reaches) \union {None}, opened: BOOLEAN, library: Exports,
     finished: BOOLEAN, maps: Exports \union {None}]

\* Where a step of f2f.py stands, with what it has read or is still to place.
IsStep(s) ==
    \/ s = Resting
    \/ s \in [at: {"nd"}]
    \/ s \in [at: {"kwse"}, scenarios: Exports, nd: Rows]
    \/ s \in [at: {"links", "models"}, scenarios: Exports, nd: Rows, kw: Rows]
    \/ s \in [at: {"tables", "rows", "starts", "layers"}, scenarios: Exports,
               models: SUBSET (Reaches \X Models), read: Rows \X Rows]
    \/ s \in [at: {"place", "mark"}, left: Exports, missing: Exports]
    \/ s \in [at: {"forecast"}, usable: Exports]
    \/ s \in [at: {"controls"}, usable: Exports, rows: SUBSET Reaches]
    \/ s \in [at: {"fim"}, controls: Exports]

TypeOK ==
    /\ nd \in Rows /\ kw \in Rows
    /\ watch \in Reaches \union {None}
    /\ grids \in Exports
    /\ out \in Outs
    /\ out.absent \subseteq out.scenarios /\ out.library \subseteq out.scenarios
    /\ out.db # "full" => out.starts = None /\ out.library = {}
    /\ IsStep(step)
    /\ since \in SUBSET (Rows \X Rows)
    /\ spent \in [checks: 0..MaxChecks, losses: 0..MaxLosses, kills: 0..MaxKills]

Init ==
    /\ \E t \in Tables : nd = t[1] /\ kw = t[2]
    /\ watch = None
    /\ grids = Scenarios
    /\ \E s \in BOOLEAN : out = NewOut(s)
    /\ step = Resting
    /\ since = {}
    /\ spent = [checks |-> 0, losses |-> 0, kills |-> 0]

-----------------------------------------------------------------------------
(* The loop and storage, as an export sees them *)

Heard(now) == IF since = {} THEN {} ELSE since \union {now}

\* One check of a reach replaces its normal-depth row, and then its stage row,
\* which it only ever makes under the model of the row before.
ObserveNd(r) ==
    /\ watch = None
    /\ spent.checks < MaxChecks
    /\ spent' = [spent EXCEPT !.checks = @ + 1]
    /\ \E m \in Models \union {None} : nd' = [nd EXCEPT ![r] = m]
    /\ watch' = r
    /\ since' = Heard(<<nd', kw>>)
    /\ UNCHANGED <<kw, grids, out, step>>

ObserveKwse ==
    /\ watch # None
    /\ \E m \in {None, nd[watch]} : kw' = [kw EXCEPT ![watch] = m]
    /\ since' = Heard(<<nd, kw'>>)
    /\ watch' = None
    /\ UNCHANGED <<nd, grids, out, step, spent>>

\* The loop dies between the two.
ObserveNoMore ==
    /\ watch # None /\ watch' = None
    /\ UNCHANGED <<tables, grids, out, step, since, spent>>

RowsOf(rows, bc) == {[reach |-> r, bc |-> bc, model |-> rows[r]] : r \in {x \in Own : rows[x] # None}}

\* A grid the tables or the export name is not where they say, or is again.
ChangeStorage(s) ==
    /\ spent.losses < MaxLosses
    /\ s \in RowsOf(nd, "nd") \union RowsOf(kw, "kwse") \union out.scenarios
    /\ spent' = [spent EXCEPT !.losses = @ + 1]
    /\ grids' = IF s \in grids THEN grids \ {s} ELSE grids \union {s}
    /\ UNCHANGED <<tables, watch, out, step, since>>

World ==
    \/ \E r \in Reaches : ObserveNd(r)
    \/ ObserveKwse \/ ObserveNoMore
    \/ \E s \in Scenarios : ChangeStorage(s)

-----------------------------------------------------------------------------
(* f2f.py scenarios *)

Go(state) == step' = state

\* OutDir.holds: a folder or a prefix with nothing in it.
IsEmptyOrNot == TRUE
IsEmpty == out.db = "absent"

StartScenarios ==
    /\ step = Resting
    /\ IsEmpty
    /\ Go([at |-> "nd"])
    /\ since' = {<<nd, kw>>}
    /\ UNCHANGED <<tables, watch, grids, out, spent>>

\* Each of the four queries sees the tables as they are when it runs.
QueryNd ==
    /\ step.at = "nd"
    /\ Go([at |-> "kwse", scenarios |-> RowsOf(nd, "nd"), nd |-> nd])
    /\ UNCHANGED <<tables, watch, grids, out, since, spent>>

\* nd_scenarios: a row whose library's folder is not in storage stops the step.
LibraryGone == \E s \in RowsOf(nd, "nd") : s \notin grids

RefuseNd ==
    /\ step.at = "nd"
    /\ LibraryGone
    /\ Go(Resting)
    /\ UNCHANGED <<tables, watch, grids, out, since, spent>>

QueryKwse ==
    /\ step.at = "kwse"
    /\ LET found == step.scenarios \union RowsOf(kw, "kwse")
       IN  Go(IF found = {} THEN Resting
              ELSE [at |-> "links", scenarios |-> found, nd |-> step.nd, kw |-> kw])
    /\ UNCHANGED <<tables, watch, grids, out, since, spent>>

ReachesOf(scenarios) == {s.reach : s \in scenarios}

\* network_rows: a link to a reach that is not exported is cut.
Uncut(exported) == {<<r, Below[r]>> : r \in exported}
NetworkOf(exported) ==
    {<<r, IF Below[r] \in exported THEN Below[r] ELSE None>> : r \in exported}

QueryLinks ==
    /\ step.at = "links"
    /\ Go([step EXCEPT !.at = "models"])
    /\ UNCHANGED <<tables, watch, grids, out, since, spent>>

\* run_models: the model of the normal-depth row if there is one.
ModelOfLate(r) == IF kw[r] # None THEN kw[r] ELSE nd[r]
ModelOf(r) == IF nd[r] # None THEN nd[r] ELSE kw[r]

QueryModels ==
    /\ step.at = "models"
    /\ LET exported == ReachesOf(step.scenarios)
       IN  Go([at |-> IF out.inStorage THEN "rows" ELSE "tables", scenarios |-> step.scenarios,
               models |-> {<<r, ModelOf(r)>> : r \in exported} \ (exported \X {None}),
               read |-> <<step.nd, step.kw>>])
    /\ UNCHANGED <<tables, watch, grids, out, since, spent>>

\* write_scenarios_db: sqlite makes the tables as it goes and commits the rows
\* at the end.  In storage the finished file is uploaded.
WriteTables ==
    /\ step.at = "tables"
    /\ out' = [out EXCEPT !.db = "tables"]
    /\ Go([step EXCEPT !.at = "rows"])
    /\ UNCHANGED <<tables, watch, grids, since, spent>>

WriteRows ==
    /\ step.at = "rows"
    /\ out' = [out EXCEPT !.db = "full", !.scenarios = step.scenarios,
                          !.network = NetworkOf(ReachesOf(step.scenarios))]
    /\ Go([step EXCEPT !.at = "starts"])
    /\ UNCHANGED <<tables, watch, grids, since, spent>>

StartsOf(network) == {link[1] : link \in {l \in network : l[2] = None}}

WriteStarts ==
    /\ step.at = "starts"
    /\ out' = [out EXCEPT !.starts = StartsOf(NetworkOf(ReachesOf(step.scenarios)))]
    /\ Go([step EXCEPT !.at = "layers"])
    /\ UNCHANGED <<tables, watch, grids, since, spent>>

\* export_model_layers: models.gpkg, which no later step reads.
WriteLayers ==
    /\ step.at = "layers"
    /\ Go(Resting)
    /\ since' = {}
    /\ UNCHANGED <<tables, watch, grids, out, spent>>

-----------------------------------------------------------------------------
(* f2f.py library *)

\* read_sources: a database without its rows has no provenance to report.
StartLibrary ==
    /\ step = Resting
    /\ out.db = "full"
    /\ Go([at |-> "place", left |-> out.scenarios, missing |-> {}])
    /\ UNCHANGED <<tables, watch, grids, out, since, spent>>

\* download_grid, copy_grid: 'present', 'copied' or 'missing', in any order.
Placed(s) == s \in out.library
Copies(s) == ~Placed(s) /\ s \in grids
Misses(s) == ~Placed(s) /\ s \notin grids

Place(s) ==
    /\ step.at = "place" /\ s \in step.left
    /\ out' = [out EXCEPT !.library = IF Copies(s) THEN @ \union {s} ELSE @,
                          !.opened = @ \/ ~out.inStorage \/ Copies(s)]
    /\ Go([step EXCEPT !.left = @ \ {s},
                       !.missing = IF Misses(s) THEN @ \union {s} ELSE @,
                       !.at = IF step.left = {s} THEN "mark" ELSE "place"])
    /\ UNCHANGED <<tables, watch, grids, since, spent>>

\* mark_missing: map_exists = 0, and never 1 again; the database is published
\* again if anything was marked.
MarkedNow(missing) == IF out.inStorage THEN out.absent ELSE out.absent \union missing
Marked(missing) == out.absent \union missing

MarkMissing ==
    /\ step.at = "mark"
    /\ out' = [out EXCEPT !.absent = Marked(step.missing), !.finished = TRUE]
    /\ Go(Resting)
    /\ UNCHANGED <<tables, watch, grids, since, spent>>

-----------------------------------------------------------------------------
(* f2f.py aep *)

Usable == out.scenarios \ out.absent

\* The files and a library with something in it; a local library has folders as
\* soon as a grid was tried.
StartAep ==
    /\ step = Resting
    /\ out.db = "full" /\ out.starts # None /\ out.opened
    /\ Usable # {} /\ out.starts # {}
    /\ Go([at |-> "forecast", usable |-> Usable])
    /\ UNCHANGED <<tables, watch, grids, out, since, spent>>

\* A column with no flow for any of the reaches is skipped.
Forecast ==
    /\ step.at = "forecast"
    /\ LET rows == ReachesOf(step.usable) \intersect WithFlows
       IN  IF rows = {} THEN Go(Resting) /\ out' = [out EXCEPT !.maps = {}]
           ELSE Go([at |-> "controls", usable |-> step.usable, rows |-> rows]) /\ UNCHANGED out
    /\ UNCHANGED <<tables, watch, grids, since, spent>>

\* flows2fim controls (external): at most one usable scenario for a reach.
OnePerReach(C) == \A s, t \in C : s.reach = t.reach => s = t

\* Its answer is cut down to the reaches that were forecast.
ForecastOnly(C, rows) == {s \in C : s.reach \in rows}

Controls ==
    /\ step.at = "controls"
    /\ \E C \in SUBSET step.usable :
          /\ OnePerReach(C)
          /\ Go([at |-> "fim", controls |-> ForecastOnly(C, step.rows)])
    /\ UNCHANGED <<tables, watch, grids, out, since, spent>>

\* flows2fim fim, the VRT made relative and its files published.
Fim ==
    /\ step.at = "fim"
    /\ out' = [out EXCEPT !.maps = step.controls]
    /\ Go(Resting)
    /\ UNCHANGED <<tables, watch, grids, since, spent>>

-----------------------------------------------------------------------------
(* People *)

Kill ==
    /\ step # Resting
    /\ spent.kills < MaxKills
    /\ spent' = [spent EXCEPT !.kills = @ + 1]
    /\ Go(Resting)
    /\ since' = {}
    /\ UNCHANGED <<tables, watch, grids, out>>

\* "each export goes into a new, empty out-dir", here one that replaces an
\* out-dir a killed step left without all of its files.
Abandon ==
    /\ step = Resting
    /\ out.db = "tables" \/ (out.db = "full" /\ out.starts = None)
    /\ out' = NewOut(out.inStorage)
    /\ UNCHANGED <<tables, watch, grids, step, since, spent>>

Export == StartScenarios \/ QueryNd \/ RefuseNd \/ QueryKwse \/ QueryLinks \/ QueryModels
             \/ WriteTables \/ WriteRows \/ WriteStarts \/ WriteLayers
Library == StartLibrary \/ (\E s \in Scenarios : Place(s)) \/ MarkMissing
Aep     == StartAep \/ Forecast \/ Controls \/ Fim

Next == World \/ Export \/ Library \/ Aep \/ Kill \/ Abandon

Spec == Init /\ [][Next]_vars

\* A step that was started goes on, and a person gets round to running the three
\* steps in order (just f2f-snapshot), again after one was stopped, whatever else
\* is run in between.
Fairness ==
    /\ WF_vars(Export)
    /\ SF_vars(Abandon)
    /\ SF_vars(StartLibrary /\ ~out.finished)
    /\ WF_vars(\E s \in Scenarios : Place(s)) /\ WF_vars(MarkMissing)
    /\ SF_vars(StartAep /\ out.finished /\ out.maps = None)
    /\ WF_vars(Forecast \/ Controls \/ Fim)

FairSpec == Spec /\ Fairness

-----------------------------------------------------------------------------
(* Safety *)

\* Once a library step has finished, every scenario flows2fim may choose has its
\* grid, whatever was interrupted before and whatever storage lost since.
FinishedLibraryIsUsable == out.finished => Usable \subseteq out.library

\* Tracing upstream from the start reaches meets every exported reach: what an
\* exported reach drains into is exported, or the reach is a start.
StartsReachAll ==
    out.starts # None =>
        \A S \in SUBSET ReachesOf(out.scenarios) :
            (S # {} /\ S \intersect out.starts = {}) =>
                \E link \in out.network : link[1] \in S /\ link[2] \notin S /\ link[2] \in ReachesOf(out.scenarios)

\* When no check wrote anything while the queries ran, the export is the tables,
\* and the layers are those of the models its normal-depth runs were made with.
QuietExportIsExact ==
    step.at \in {"tables", "rows"} /\ since = {<<nd, kw>>} =>
        /\ step.scenarios = RowsOf(nd, "nd") \union RowsOf(kw, "kwse")
        /\ \A s \in step.scenarios :
              /\ \E m \in Models : <<s.reach, m>> \in step.models
              /\ s.bc = "nd" => <<s.reach, s.model>> \in step.models

\* An out-dir never holds two exports: once its scenarios are written they stay,
\* until the out-dir is given up.
OneExportPerOutDir ==
    [][out.db = "full" => out'.scenarios = out.scenarios \/ out' = NewOut(out.inStorage)]_vars

-----------------------------------------------------------------------------
(* Liveness *)

\* An export that has something to publish is finished in the end, in one
\* out-dir or another, unless no grid of it is in storage, or a library that is
\* materialized has gone from it for good.
NothingToPublish == \A r \in Own : nd[r] = None /\ kw[r] = None
ExportFinishes ==
    \/ <>(\/ out.maps # None
          \/ out.finished /\ Usable = {}
          \/ step = Resting /\ out.db = "absent" /\ NothingToPublish)
    \/ <>[]LibraryGone
=============================================================================
