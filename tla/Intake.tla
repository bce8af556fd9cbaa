------------------------------- MODULE Intake -------------------------------
(***************************************************************************)
(* How work enters the system: the commands people run to stage source      *)
(* data, seed water bodies and networks, and author the defaults and intent *)
(* (stage_source_data.py, seed.py, author_intent.py, aoi_config.py,         *)
(* flow_statistics.py).                                                     *)
(*                                                                          *)
(* A command is a process of its own.  Each query, transaction and upload   *)
(* is a step, commands of two people interleave between any two of them,    *)
(* and a command can be killed there.                                       *)
(***************************************************************************)
EXTENDS Bounds, FiniteSets

CONSTANTS
    Procs,        \* commands that may be running at once
    Reaches,
    FlowpathOf,   \* flow_id: the flowpath a reach's statistics are listed under
    WaterBodies,  \* lakes and coasts
    BodyFiles,    \* files of lakes or coasts: the bodies in each
    Networks,     \* network files: reach -> [to, body], for the reaches in the file
    Lookups,      \* addresses of land-cover lookups
    Contents,     \* what a lookup may hold
    AOIs,         \* AOI configs: [network, flows, lookup, factors]
    None,
    MaxCommands,  \* bound: commands started
    MaxKills,     \* bound: commands killed
    MaxFaults     \* bound: requests to storage that fail

Link == [to: Reaches \union {None}, body: WaterBodies \union {None}]
Row  == [grid: GridMenu, low: Nat, high: Nat, dq: Nat, lookup: Lookups \union {None}]

ASSUME IntakeAssumption ==
    /\ None \notin Reaches \union WaterBodies \union Lookups \union Contents
    /\ None \notin Link /\ None \notin Row
    /\ \A B \in BodyFiles : B # {} /\ B \subseteq WaterBodies
    /\ \A f \in Networks : DOMAIN f \subseteq Reaches /\ f \in [DOMAIN f -> Link]
    /\ \A aoi \in AOIs :
          /\ DOMAIN aoi.network \subseteq Reaches
          /\ aoi.flows \in [DOMAIN aoi.flows -> [lower: Statistics, upper: Statistics]]
          /\ aoi.lookup \in Lookups \union {None}
          /\ aoi.factors[1] \in Nat /\ aoi.factors[2] \in Nat
    /\ MaxCommands \in Nat /\ MaxKills \in Nat /\ MaxFaults \in Nat

VARIABLES
    \* PostgreSQL
    bodies,   \* lakes and coasts
    net,      \* reach_network: reach -> [to, body], or None
    rows,     \* desired_state: reach -> bounds and lookup, or None
    dflt,     \* desired_state_defaults.lulc_lookup, or None
    \* storage
    polys,    \* the polygons published
    parquet,  \* the network published
    lookups,  \* source data: lookup -> content, or None
    cmd,      \* what each command is doing and what it has read
    past      \* what has been used of the bounds, and what has happened

db      == <<bodies, net, rows, dflt>>
storage == <<polys, parquet, lookups>>
vars    == <<bodies, net, rows, dflt, polys, parquet, lookups, cmd, past>>

Maps == [Reaches -> Link \union {None}]

Resting == [at |-> "resting"]

\* What a command is doing, with what it has read and not written yet.
Commands ==
    UNION {{Resting},
           [at: {"polygons"}, left: SUBSET WaterBodies],
           [at: {"load", "readBack"}, file: Networks],
           [at: {"put"}, copy: Maps],
           [at: {"upload"}, lookup: Lookups, content: Contents],
           [at: {"network", "write"}, aoi: AOIs],
           [at: {"intended"}, aoi: AOIs, links: Maps]}

TypeOK ==
    /\ bodies \subseteq WaterBodies /\ polys \subseteq WaterBodies
    /\ net \in Maps /\ parquet \in Maps
    /\ rows \in [Reaches -> Row \union {None}]
    /\ dflt \in Lookups \union {None}
    /\ lookups \in [Lookups -> Contents \union {None}]
    /\ cmd \in [Procs -> Commands]
    /\ past \in [commands: 0..MaxCommands, kills: 0..MaxKills, faults: 0..MaxFaults,
                 relinked: BOOLEAN, moved: BOOLEAN, overtaken: BOOLEAN, raced: BOOLEAN]

Init ==
    /\ bodies = {} /\ polys = {}
    /\ net = [r \in Reaches |-> None] /\ parquet = net
    /\ rows = [r \in Reaches |-> None]
    /\ dflt = None
    /\ lookups = [l \in Lookups |-> None]
    /\ cmd = [p \in Procs |-> Resting]
    /\ past = [commands |-> 0, kills |-> 0, faults |-> 0,
               relinked |-> FALSE, moved |-> FALSE, overtaken |-> FALSE, raced |-> FALSE]

-----------------------------------------------------------------------------

\* A command is started: what it does first is the action that uses this.
Start(p) == cmd[p] = Resting /\ past.commands < MaxCommands
Counted == [past EXCEPT !.commands = @ + 1]
Go(p, state) == cmd' = [cmd EXCEPT ![p] = state]

-----------------------------------------------------------------------------
(* seed.py lakes, coasts *)

\* One transaction for the whole file, and then one upload per polygon.
SeedBodies(p, B) ==
    /\ Start(p) /\ past' = Counted
    /\ bodies' = bodies \union B
    /\ Go(p, [at |-> "polygons", left |-> B])
    /\ UNCHANGED <<net, rows, dflt, storage>>

FirstOnly(left, b) == {}
Left(left, b) == left \ {b}

PublishPolygon(p) ==
    /\ cmd[p].at = "polygons"
    /\ \E b \in cmd[p].left :
          /\ polys' = polys \union {b}
          /\ LET left == Left(cmd[p].left, b)
             IN  Go(p, IF left = {} THEN Resting ELSE [cmd[p] EXCEPT !.left = left])
    /\ UNCHANGED <<db, parquet, lookups, past>>

-----------------------------------------------------------------------------
(* seed.py network *)

\* load_network: a link that leaves the file ends in an outlet.
Clipped(f) ==
    [r \in DOMAIN f |-> IF f[r].to \in DOMAIN f THEN f[r] ELSE [to |-> None, body |-> f[r].body]]

Named(f) == {f[r].body : r \in DOMAIN f} \ {None}

\* check_water_bodies_seeded; the foreign keys of reach_network say the same.
BodiesSeeded(f) == Named(f) \subseteq bodies

SeedNetwork(p, f) ==
    /\ Start(p) /\ past' = Counted
    /\ BodiesSeeded(f)
    /\ Go(p, [at |-> "load", file |-> f])
    /\ UNCHANGED <<db, storage>>

\* The file's rows replace those the database has of the same reaches.
Replaced(table, f) == Clipped(f)
Upserted(table, f) == [r \in Reaches |-> IF r \in DOMAIN f THEN Clipped(f)[r] ELSE table[r]]

Relinks(f) == \E r \in DOMAIN f : net[r] # None /\ net[r].to # Clipped(f)[r].to

LoadNetwork(p) ==
    /\ cmd[p].at = "load"
    /\ net' = Upserted(net, cmd[p].file)
    /\ Go(p, [at |-> "readBack", file |-> cmd[p].file])
    /\ past' = [past EXCEPT !.relinked = @ \/ Relinks(cmd[p].file),
                            !.overtaken = @ \/ \E q \in Procs : cmd[q].at = "put"]
    /\ UNCHANGED <<bodies, rows, dflt, storage>>

\* export_reach_network: the whole table is read, and then uploaded.
ReadBackFile(f) == Upserted([r \in Reaches |-> None], f)
ReadBack(f) == net

ReadNetwork(p) ==
    /\ cmd[p].at = "readBack"
    /\ Go(p, [at |-> "put", copy |-> ReadBack(cmd[p].file)])
    /\ UNCHANGED <<db, storage, past>>

PutNetwork(p) ==
    /\ cmd[p].at = "put"
    /\ parquet' = cmd[p].copy
    /\ Go(p, Resting)
    /\ UNCHANGED <<db, polys, lookups, past>>

-----------------------------------------------------------------------------
(* stage_source_data.py *)

\* Nothing is there, or the question fails and is taken for a no.
StageAsk(p, l, c) ==
    /\ Start(p)
    /\ \/ lookups[l] = None /\ past' = Counted
       \/ lookups[l] \notin {None, c} /\ past.faults < MaxFaults
             /\ past' = [Counted EXCEPT !.faults = @ + 1]
    /\ Go(p, [at |-> "upload", lookup |-> l, content |-> c])
    /\ UNCHANGED <<db, storage>>

\* "source data is not replaced" left out.
StageAskAnything(p, l, c) ==
    /\ Start(p) /\ past' = Counted
    /\ Go(p, [at |-> "upload", lookup |-> l, content |-> c])
    /\ UNCHANGED <<db, storage>>

Stage(p, l, c) == StageAsk(p, l, c)

StageUpload(p) ==
    /\ cmd[p].at = "upload"
    /\ lookups' = [lookups EXCEPT ![cmd[p].lookup] = cmd[p].content]
    /\ Go(p, Resting)
    /\ past' = [past EXCEPT !.raced = @ \/ \E q \in Procs \ {p} :
                                 cmd[q].at = "upload" /\ cmd[q].lookup = cmd[p].lookup]
    /\ UNCHANGED <<db, polys, parquet>>

-----------------------------------------------------------------------------
(* author_intent.py defaults *)

\* The row in force is compared and replaced in one transaction; whether there
\* is a lookup at the new address is looked at afterwards, and only remarked on.
AuthorDefaults(p, l) ==
    /\ Start(p)
    /\ dflt # l
    /\ dflt' = l
    /\ past' = [Counted EXCEPT !.moved = @ \/ dflt # None]
    /\ UNCHANGED <<bodies, net, rows, storage, cmd>>

-----------------------------------------------------------------------------
(* author_intent.py aoi *)

LookupOf(aoi) == IF aoi.lookup = None THEN dflt ELSE aoi.lookup

\* The lookup these reaches will use can be read.
LookupStagedIfGiven(aoi) == aoi.lookup # None => lookups[aoi.lookup] # None
LookupStaged(aoi) == LookupOf(aoi) # None /\ lookups[LookupOf(aoi)] # None

FactorsValid(aoi) == aoi.factors[1] >= 10 /\ aoi.factors[2] \in 1..10

AuthorStart(p, aoi) ==
    /\ Start(p) /\ past' = Counted
    /\ dflt # None /\ LookupStaged(aoi) /\ FactorsValid(aoi)
    /\ Go(p, [at |-> "network", aoi |-> aoi])
    /\ UNCHANGED <<db, storage>>

\* The network and who has intent are read by two queries.
AuthorReadNetwork(p) ==
    /\ cmd[p].at = "network"
    /\ Go(p, [at |-> "intended", aoi |-> cmd[p].aoi, links |-> net])
    /\ UNCHANGED <<db, storage, past>>

Own(aoi) == DOMAIN aoi.network

\* reaches_to_author: those of the AOI's own network its statistics cover.
Wanted(aoi) == {r \in Own(aoi) : FlowpathOf[r] \in DOMAIN aoi.flows}

Seeded(links) == {r \in Reaches : links[r] # None}

\* check_downstream_closed, against the links as they were read.
ClosedOrNot(A, links, intended) == TRUE
Closed(A, links, intended) == \A r \in A : links[r].to \in A \union intended \union {None}

Intended == {r \in Reaches : rows[r] # None}

Authorable(aoi, links) ==
    /\ Own(aoi) \subseteq Seeded(links)
    /\ Wanted(aoi) # {}
    /\ Closed(Wanted(aoi), links, Intended)

\* One of the checks stops the command, or it goes on to write.
AuthorCheck(p) ==
    /\ cmd[p].at = "intended"
    /\ Go(p, IF Authorable(cmd[p].aoi, cmd[p].links)
             THEN [at |-> "write", aoi |-> cmd[p].aoi] ELSE Resting)
    /\ UNCHANGED <<db, storage, past>>

\* load_q_bounds, narrow and place_on_q_grid.
RowFor(r, aoi) ==
    LET s == aoi.flows[FlowpathOf[r]]
        b == BoundsOf(s.lower, s.upper, aoi.factors[1], aoi.factors[2])
    IN  [grid |-> b.grid, low |-> b.low, high |-> b.high, dq |-> b.dq, lookup |-> aoi.lookup]

\* One transaction, which the database's checks can stop as a whole.
AuthorWrite(p) ==
    /\ cmd[p].at = "write"
    /\ LET aoi == cmd[p].aoi IN
       /\ \A r \in Wanted(aoi) : Accepted(RowFor(r, aoi))
       /\ rows' = [r \in Reaches |-> IF r \in Wanted(aoi) THEN RowFor(r, aoi) ELSE rows[r]]
    /\ Go(p, Resting)
    /\ UNCHANGED <<bodies, net, dflt, storage, past>>

-----------------------------------------------------------------------------

\* A command is stopped between two of its steps.
Kill(p) ==
    /\ cmd[p] # Resting
    /\ past.kills < MaxKills
    /\ past' = [past EXCEPT !.kills = @ + 1]
    /\ Go(p, Resting)
    /\ UNCHANGED <<db, storage>>

Command(p) ==
    \/ \E B \in BodyFiles : SeedBodies(p, B)
    \/ PublishPolygon(p)
    \/ \E f \in Networks : SeedNetwork(p, f)
    \/ LoadNetwork(p) \/ ReadNetwork(p) \/ PutNetwork(p)
    \/ \E l \in Lookups, c \in Contents : Stage(p, l, c)
    \/ StageUpload(p)
    \/ \E l \in Lookups : AuthorDefaults(p, l)
    \/ \E aoi \in AOIs : AuthorStart(p, aoi)
    \/ AuthorReadNetwork(p) \/ AuthorCheck(p) \/ AuthorWrite(p)

Next == \E p \in Procs : Command(p) \/ Kill(p)

Spec == Init /\ [][Next]_vars

-----------------------------------------------------------------------------
(* Safety *)

\* The database never refuses the rows of an AOI, and what it holds is a range
\* a sweep can start on.
IntentIsAccepted ==
    \A p \in Procs : cmd[p].at = "write" =>
        \A r \in Wanted(cmd[p].aoi) : Accepted(RowFor(r, cmd[p].aoi)) /\ RowFor(r, cmd[p].aoi).low > 0

\* Whoever authors whatever at the same time, a reach with intent drains into a
\* reach with intent, as long as no seeding has moved a link.
IntentIsClosed ==
    ~past.relinked =>
        \A r \in Intended : net[r].to # None => net[r].to \in Intended

\* The network jobs read is the one in the database, once no seeding is under
\* way, unless one was killed or overtaken by another while it published.
SeedsAtWork == \E p \in Procs : cmd[p].at \in {"readBack", "put"}
PublishedIsCurrent ==
    SeedsAtWork \/ past.kills > 0 \/ past.overtaken \/ parquet = net

\* A reach that drains into a water body finds its polygon in storage, or it is
\* about to be published, unless a seeding of bodies was killed.
OutflowsArePublished ==
    past.kills = 0 =>
        \A r \in Reaches : net[r] # None /\ net[r].body # None =>
            \/ net[r].body \in polys
            \/ \E p \in Procs : cmd[p].at = "polygons" /\ net[r].body \in cmd[p].left

\* The lookup a reach's identity is hashed from can be read, unless the default
\* was moved to another address.
LookupsAreReadable ==
    ~past.moved =>
        \A r \in Intended :
            LET l == IF rows[r].lookup = None THEN dflt ELSE rows[r].lookup
            IN  l # None /\ lookups[l] # None

\* What is staged is never replaced by something else, unless two people stage
\* under one name at once or storage fails to answer.
StagedIsKept ==
    [][\A l \in Lookups : lookups[l] # None =>
          lookups'[l] = lookups[l] \/ past'.raced \/ past'.faults > 0]_vars
=============================================================================
