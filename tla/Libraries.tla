------------------------------ MODULE Libraries ------------------------------
(***************************************************************************)
(* The libraries of a chain of reaches as data: sweeps publish normal-depth *)
(* runs one discharge at a time, each check adopts what is in storage,      *)
(* plans the stage library against the reach below, and hands out one chain *)
(* of scenarios per discharge, which publish while plans change under them. *)
(*                                                                          *)
(* A check is one step here; what may happen between its commits, and       *)
(* models, revisions, failures and restarts, are the matter of Reconciler.  *)
(***************************************************************************)
EXTENDS Adopt, Sequences

CONSTANTS
    Reaches, Below,   \* reach_to_id, or None for a terminal reach
    OnGrid,           \* [Reaches -> set of discharges a sweep of the reach may run]
    Intents,          \* [Reaches -> set of [lower, upper, dz, top] people author]
    Share,            \* (1 - own / downstream drainage area)^0.7, in percent
    Worlds,           \* the readings a run may yield: [Reaches -> [discharge -> reading]]
    Raised(_, _),     \* nominal_wse of a run, from its normal-depth wse and imposed stage
    MaxEdits          \* bound: times intent is authored anew

P == INSTANCE Planner

ASSUME NetworkAssumption ==
    /\ None \notin Reaches
    /\ Below \in [Reaches -> Reaches \union {None}]
    /\ \A r \in Reaches : Below[r] # r
    /\ Share \in [Reaches -> 0..100]
    /\ MaxEdits \in Nat

ASSUME IntentAssumption ==
    \A r \in Reaches :
        /\ IsFiniteSet(OnGrid[r]) /\ OnGrid[r] \subseteq Nat
        /\ \A w \in Intents[r] :
              /\ w.lower \in OnGrid[r] /\ w.upper \in OnGrid[r] /\ w.lower <= w.upper
              /\ w.dz \in Nat \ {0}
              /\ w.top = None \/ w.top \in Int

\* A sweep may run every line of the grid: where two of them are further apart
\* than the grid, there is one between them.
ASSUME GridAssumption ==
    QGrid # None =>
        \A r \in Reaches : \A a, b \in OnGrid[r] :
            b - a > QGrid => \E q \in OnGrid[r] : a < q /\ q < b

\* Every run that is published has its manifest's readings.
ASSUME ReadingAssumption ==
    \A world \in Worlds : \A r \in Reaches : \A q \in OnGrid[r] :
        \A key \in {"wse", "depth", "median", "area"} : world[r][q][key] \in Int

\* None is neither a number nor a library.
ASSUME NoneIsNothing ==
    /\ None \notin Int
    /\ \A r \in Reaches : \A qs \in SUBSET OnGrid[r] : qs # None

VARIABLES
    want,          \* the effective intent
    moved,         \* its revision is ahead of what the rows were recorded for
    edits,         \* how often it was authored anew
    reading,       \* what each scenario's manifest says, once it is there
    stored, bare,  \* discharges in nd=<slope>/ with a manifest, and without one yet
    made,          \* <<q, z>> of the stage scenarios in storage
    sweeping,      \* the discharges the running run_nd jobs may run, {} if none runs
    chains,        \* the run_kwse jobs running, as what each has still to run
    marker,        \* current_step
    asked,         \* check_requested_at > last_checked_at
    nd, kw         \* materialized_nd_runs, materialized_kwse_runs

rows == <<nd, kw>>
intent == <<want, moved, edits>>
vars == <<want, moved, edits, reading, stored, bare, made, sweeping, chains, marker, asked, nd, kw>>

NdRow     == [qs: SUBSET Nat, curve: SUBSET Nat]
StageRun  == [q: Nat, wse: Int, bc: Int]
Scenarios == [q: Nat, z: Int, seed: Int \union {None}, dsQ: Nat, dsBc: Int \union {None}]

TypeOK ==
    /\ reading \in Worlds
    /\ edits \in 0..MaxEdits
    /\ \A r \in Reaches :
          /\ want[r] \in Intents[r]
          /\ moved[r] \in BOOLEAN /\ asked[r] \in BOOLEAN
          /\ stored[r] \subseteq OnGrid[r]
          /\ bare[r] \subseteq OnGrid[r] \ stored[r]
          /\ sweeping[r] \subseteq OnGrid[r]
          /\ \A s \in made[r] : s[1] \in stored[r] /\ \E w \in Intents[r] : s[2] % w.dz = 0
          /\ \A c \in chains[r] : c # <<>> /\ \A i \in DOMAIN c : c[i] \in Scenarios
          /\ marker[r] \in {None, "run_nd", "run_kwse"}
          /\ nd[r] # None => nd[r] \in NdRow /\ nd[r].qs \subseteq nd[r].curve
          /\ kw[r] # None => kw[r] \subseteq StageRun

Init ==
    /\ want \in {w \in [Reaches -> UNION {Intents[r] : r \in Reaches}] :
                    \A r \in Reaches : w[r] \in Intents[r]}
    /\ moved = [r \in Reaches |-> FALSE]
    /\ edits = 0
    /\ reading \in Worlds
    /\ stored = [r \in Reaches |-> {}]
    /\ bare = [r \in Reaches |-> {}]
    /\ made = [r \in Reaches |-> {}]
    /\ sweeping = [r \in Reaches |-> {}]
    /\ chains = [r \in Reaches |-> {}]
    /\ marker = [r \in Reaches |-> None]
    /\ asked = [r \in Reaches |-> FALSE]
    /\ nd = [r \in Reaches |-> None]
    /\ kw = [r \in Reaches |-> None]

-----------------------------------------------------------------------------
(* People *)

\* Intent is authored anew: the bounds, the stage increment or the ceiling
\* change, and with them the revision.
Author(r) ==
    /\ edits < MaxEdits
    /\ \E w \in Intents[r] \ {want[r]} : want' = [want EXCEPT ![r] = w]
    /\ moved' = [moved EXCEPT ![r] = TRUE]
    /\ edits' = edits + 1
    /\ UNCHANGED <<reading, stored, bare, made, sweeping, chains, marker, asked, rows>>

-----------------------------------------------------------------------------
(* The jobs *)

\* A sweep opens the folder of a discharge, and publishes its manifest last.
OpenRun(r) ==
    /\ bare[r] = {}
    /\ \E q \in sweeping[r] \ stored[r] : bare' = [bare EXCEPT ![r] = {q}]
    /\ UNCHANGED <<intent, reading, stored, made, sweeping, chains, marker, asked, rows>>

PublishRun(r) ==
    /\ sweeping[r] # {} /\ bare[r] # {}
    /\ stored' = [stored EXCEPT ![r] = @ \union bare[r]]
    /\ bare' = [bare EXCEPT ![r] = {}]
    /\ UNCHANGED <<intent, reading, made, sweeping, chains, marker, asked, rows>>

\* A sweep may end, well or badly, in the middle of a scenario.
EndSweep(r) ==
    /\ sweeping[r] # {}
    /\ sweeping' = [sweeping EXCEPT ![r] = {}]
    /\ UNCHANGED <<intent, reading, stored, bare, made, chains, marker, asked, rows>>

\* A run_kwse job publishes the next scenario of its chain.
RunScenario(r) ==
    /\ \E c \in chains[r] :
          /\ made' = [made EXCEPT ![r] = @ \union {<<Head(c).q, Head(c).z>>}]
          /\ chains' = [chains EXCEPT ![r] = (@ \ {c}) \union ({Tail(c)} \ {<<>>})]
    /\ UNCHANGED <<intent, reading, stored, bare, sweeping, marker, asked, rows>>

DropChain(r) ==
    /\ \E c \in chains[r] : chains' = [chains EXCEPT ![r] = @ \ {c}]
    /\ UNCHANGED <<intent, reading, stored, bare, made, sweeping, marker, asked, rows>>

\* poll_in_flight sees that the job, or every job of the group, has ended.
Poll(r) ==
    /\ \/ marker[r] = "run_nd" /\ sweeping[r] = {}
       \/ marker[r] = "run_kwse" /\ chains[r] = {}
    /\ marker' = [marker EXCEPT ![r] = None]
    /\ asked' = [asked EXCEPT ![r] = TRUE]
    /\ UNCHANGED <<intent, reading, stored, bare, made, sweeping, chains, rows>>

\* It has had no answer about a running job for longer than the grace.
LoseTrack(r) ==
    /\ marker[r] # None
    /\ marker' = [marker EXCEPT ![r] = None]
    /\ asked' = [asked EXCEPT ![r] = TRUE]
    /\ UNCHANGED <<intent, reading, stored, bare, made, sweeping, chains, rows>>

-----------------------------------------------------------------------------
(* What a check observes *)

Spans(r) ==
    /\ stored[r] # {}
    /\ Min(stored[r]) <= want[r].lower
    /\ Max(stored[r]) >= want[r].upper

\* observe_nd_runs.  The curve keeps every discharge in storage, adopted or not.
NdObserved(r) ==
    LET qs == Adopted(stored[r], reading[r])
    IN  IF ~Spans(r) \/ bare[r] # {} \/ qs = None THEN None
        ELSE [qs |-> qs, curve |-> stored[r]]

NdChanged(r, own) ==
    CASE nd[r] # None /\ own # None -> own.qs # nd[r].qs
      [] OTHER                      -> ~(nd[r] = None /\ own = None)

\* scenarios.planned: the arguments of the planner, from the rows of the two
\* reaches; `own` is the reach's own normal-depth row.
RunsOf(d) ==
    {[q |-> q, wse |-> reading[d][q].wse, bc |-> None] : q \in nd[d].curve}
        \union (IF kw[d] = None THEN {} ELSE kw[d])

\* The most flow that joins between the reaches, rounded up: it is only added to
\* a discharge and compared with discharges, all of them whole.
Others(r) == -((-(Share[r] * want[Below[r]].upper)) \div 100)

Plannable(r, own) == Below[r] # None /\ own # None /\ nd[Below[r]] # None

PlanInputs(r, own) ==
    LET d == Below[r]
    IN  [qs |-> own.qs, dz |-> want[r].dz, runs |-> RunsOf(d), dsQs |-> nd[d].qs,
         others |-> Others(r), top |-> want[r].top]

\* observe_kwse_runs, given the row observe_nd_runs has just written.
KwObserved(r, own) ==
    LET planned == P!Plan(PlanInputs(r, own))
    IN  IF ~Plannable(r, own) \/ ~(planned \subseteq made[r]) THEN None
        ELSE {[q |-> s[1], bc |-> s[2], wse |-> Raised(reading[r][s[1]].wse, s[2])] :
                 s \in planned}

-----------------------------------------------------------------------------
(* What a check decides, from the rows `own` and `stages` it has just written *)

NdGap(own) == own = None
KwGap(r, own, stages) == own # None /\ Below[r] # None /\ stages = None

\* ds_nd_ok, ds_kwse_ok: the row is there, for the revision in force.
NdReady(r) == Below[r] # None => nd[Below[r]] # None /\ ~moved[Below[r]]
KwReady(r) == NdReady(r) /\ (Below[Below[r]] # None => kw[Below[r]] # None)

\* sorted()
Ascending(S) ==
    CHOOSE s \in [1..Cardinality(S) -> S] : \A i, j \in DOMAIN s : i < j => s[i] < s[j]

\* What is not in storage yet of the stages planned for discharge q.
Chain(r, p, q) ==
    LET zs == Ascending({z \in P!Rungs(p, q) : <<q, z>> \notin made[r]})
    IN  [i \in DOMAIN zs |-> P!Scenario(p, q, zs[i])]

PendingAll(r, own) ==
    LET p == PlanInputs(r, own) IN {Chain(r, p, q) : q \in p.qs}
\* scenarios.pending: one chain per discharge of what is not in storage.
Pending(r, own) ==
    LET p == PlanInputs(r, own) IN {Chain(r, p, q) : q \in p.qs} \ {<<>>}

\* What the job of a new sweep is told is published: every q=<discharge> folder.
Existing(r) == stored[r] \union bare[r]

Satisfied(r, own, stages) ==
    /\ ~NdGap(own) /\ ~KwGap(r, own, stages)
    /\ marker' = [marker EXCEPT ![r] = None]
    /\ UNCHANGED <<sweeping, chains>>

\* In flight, or the reach below is not there yet.
Stay(r, own, stages) ==
    /\ \/ NdGap(own) /\ (marker[r] # None \/ ~NdReady(r))
       \/ KwGap(r, own, stages) /\ (marker[r] # None \/ ~KwReady(r))
    /\ UNCHANGED <<sweeping, chains, marker>>

\* A sweep that is already running under no marker is one with the new one.
SweepRange(r) == {q \in OnGrid[r] : want[r].lower <= q /\ q <= want[r].upper}

Sweep(r, own) ==
    /\ NdGap(own) /\ marker[r] = None /\ NdReady(r)
    /\ sweeping' = [sweeping EXCEPT ![r] = @ \union SweepRange(r)]
    /\ marker' = [marker EXCEPT ![r] = "run_nd"]
    /\ UNCHANGED chains

Stage(r, own, stages) ==
    /\ KwGap(r, own, stages) /\ marker[r] = None /\ KwReady(r)
    /\ \E handed \in {Pending(r, own)} :
          /\ chains' = [chains EXCEPT ![r] = @ \union handed]
          /\ marker' = [marker EXCEPT ![r] = IF handed = {} THEN None ELSE "run_kwse"]
    /\ UNCHANGED sweeping

\* The request of this check was used up when it began; one that submits asks
\* for another, and a change is announced to the reaches above.
Asked(r, changed, submits) ==
    [s \in Reaches |-> IF s = r THEN submits ELSE asked[s] \/ (Below[s] = r /\ changed)]

Due(r) == asked[r] \/ moved[r] \/ nd[r] = None \/ (Below[r] # None /\ kw[r] = None)

Check(r) ==
    /\ Due(r)
    /\ \E own \in {NdObserved(r)} : \E stages \in {KwObserved(r, own)} :
          LET rerecorded == moved[r] /\ (own # None \/ stages # None)
              changed == rerecorded \/ NdChanged(r, own) \/ stages # kw[r]
          IN  /\ nd' = [nd EXCEPT ![r] = own]
              /\ kw' = [kw EXCEPT ![r] = stages]
              /\ \/ /\ Satisfied(r, own, stages) \/ Stay(r, own, stages)
                    /\ asked' = Asked(r, changed, FALSE)
                 \/ /\ Sweep(r, own) \/ Stage(r, own, stages)
                    /\ asked' = Asked(r, changed, TRUE)
    /\ moved' = [moved EXCEPT ![r] = FALSE]
    /\ UNCHANGED <<want, edits, reading, stored, bare, made>>

Next ==
    \E r \in Reaches :
        \/ Author(r)
        \/ OpenRun(r) \/ PublishRun(r) \/ EndSweep(r)
        \/ RunScenario(r) \/ DropChain(r)
        \/ Poll(r) \/ LoseTrack(r) \/ Check(r)

Spec == Init /\ [][Next]_vars

-----------------------------------------------------------------------------
(* Properties *)

\* The library a row names is one intent allows, and no other route through
\* what storage held is cheaper (adopt's search agrees with trying them all).
AdoptedIsCheapest ==
    \A r \in Reaches : nd[r] # None /\ Bands # {} =>
        LET routes == Routes(nd[r].curve, reading[r])
        IN  /\ nd[r].qs \in routes \/ Cardinality(nd[r].curve) = 1
            /\ \A route \in routes :
                  ~Cheaper(RouteCost(reading[r], route), RouteCost(reading[r], nd[r].qs))

\* A step between two neighbours in storage that intent does not tolerate, above
\* or below all it asks for: adoption looks at every run there is, and a sweep
\* runs none there.
HoleBeyond(r) ==
    \E a \in stored[r] \ {Max(stored[r])} :
        LET b == Following(stored[r], a)
        IN  /\ ~Tolerated(stored[r], reading[r], a, b)
            /\ b <= want[r].lower \/ a >= want[r].upper

\* A library that adoption refuses leaves the sweep that follows a discharge to
\* run: one of the range it is given, which storage lacks - unless the hole is
\* beyond the range, where intent once asked for more than it does now.
HolesCanBeFilled ==
    \A r \in Reaches : stored[r] # {} /\ Adopted(stored[r], reading[r]) = None =>
        ~(SweepRange(r) \subseteq stored[r]) \/ HoleBeyond(r)

\* A running job finds what it was told to start from: the scenario its chain
\* seeds from, and the downstream scenario its boundary comes from, whatever
\* was adopted, planned and dropped since the chain was handed out.
InputsAreThere ==
    \A r \in Reaches : \A c \in chains[r] :
        LET s == Head(c)
            d == Below[r]
        IN  /\ IF s.seed = None THEN s.q \in stored[r] ELSE <<s.q, s.seed>> \in made[r]
            /\ IF s.dsBc = None THEN s.dsQ \in stored[d] ELSE <<s.dsQ, s.dsBc>> \in made[d]

\* A stage library that is recorded and not about to be looked at again has,
\* for every downstream run its discharge may meet, a rung within half an
\* increment.  Not so where the reach below has passed over runs: its curve may
\* grow by one without its q_set changing, and observe_nd_runs does not call
\* that a change.
StagesAreCovered ==
    \A r \in Reaches :
        /\ kw[r] # None /\ ~asked[r] /\ ~moved[r] /\ ~moved[Below[r]]
        /\ nd[Below[r]] # None /\ nd[Below[r]].qs = nd[Below[r]].curve
        =>
            LET p == PlanInputs(r, nd[r])
            IN  \A q \in p.qs : \A run \in P!Pool(p, q) :
                    P!Floor(p, q) <= run.wse /\ run.wse <= P!Ceiling(p, q) =>
                        \E s \in kw[r] : s.q = q /\ 2 * P!Distance(run, s.bc) <= p.dz
=============================================================================
