---------------------------- MODULE IntakeProofs ----------------------------
(***************************************************************************)
(* Proofs about Intake, for any number of commands and any networks, AOIs   *)
(* and statistics; first, that what author_intent.py places on a discharge  *)
(* grid is always a row the database accepts.                               *)
(***************************************************************************)
EXTENDS Intake, TLAPS

-----------------------------------------------------------------------------
(* The bounds of a discharge grid *)

\* A range of positive bounds in order, with a positive step.
Ranges == {b \in [low: Nat \ {0}, high: Nat \ {0}, dq: Nat \ {0}] : b.low <= b.high}

\* The grids authoring chooses from.
SeedGrids == {2, 5, 10}

\* Rounding to the nearest line moves a value by half a grid at most, and to the
\* first line at least.
LEMMA SnapsToGrid ==
    ASSUME NEW v \in Nat, NEW g \in SeedGrids
    PROVE  /\ Snap(v, g) \in Nat /\ Snap(v, g) >= g /\ Snap(v, g) % g = 0
           /\ Snap(v, g) - v <= g /\ v - Snap(v, g) <= g
           /\ Snap(v, g) + g \in Nat /\ (Snap(v, g) + g) % g = 0
<1>. USE DEF SeedGrids
<1>1. CASE g = 2 BY <1>1 DEF Snap, Nearest, AtLeast
<1>2. CASE g = 5 BY <1>2 DEF Snap, Nearest, AtLeast
<1>3. CASE g = 10 BY <1>3 DEF Snap, Nearest, AtLeast
<1>. QED BY <1>1, <1>2, <1>3

\* The grid chosen is one of those.
LEMMA GridIsSeeded == ASSUME NEW low, NEW high PROVE GridOf(low, high) \in SeedGrids
BY DEF GridOf, SeedGrids

\* Whatever the statistics are, the bounds are loaded as a range.
LEMMA LoadsRange ==
    ASSUME NEW lower \in Statistics, NEW upper \in Statistics
    PROVE  Loaded(lower, upper) \in Ranges
<1>. DEFINE low == Whole(lower)
            high == Whole(upper)
<1>1. low \in Nat \ {0} BY DEF Whole, AtLeast, Statistics
<1>2. high \in Nat \ {0} BY DEF Whole, AtLeast, Statistics
<1>. HIDE DEF low, high
<1>3. Tenth(high - low) \in Int BY <1>1, <1>2 DEF Tenth
<1>. DEFINE dq == AtLeast(1, Tenth(high - low))
<1>4. dq \in Nat \ {0} BY <1>3 DEF AtLeast
<1>. HIDE DEF dq
<1>5. [low |-> IF low > high THEN high ELSE low, high |-> IF low > high THEN low ELSE high,
       dq |-> dq] \in Ranges
  BY <1>1, <1>2, <1>4 DEF Ranges
<1>. QED BY <1>5 DEF Loaded, low, high, dq

\* Narrowing leaves a range a range.
LEMMA NarrowsToRange ==
    ASSUME NEW b \in Ranges, NEW lf \in Nat, NEW uf \in Nat
    PROVE  Narrowed(b, lf, uf) \in Ranges
<1>1. ASSUME NEW l \in Nat, HasRange(Pulled(b, l, uf)) PROVE Pulled(b, l, uf) \in Ranges
  <2>. DEFINE x == AtLeast(1, (b.low * l + 9) \div 10)
              y == AtLeast(1, (b.high * uf) \div 10)
  <2>1. b.low \in Nat /\ b.high \in Nat BY DEF Ranges
  <2>2. x \in Nat \ {0}
    <3>1. b.low * l \in Nat BY <2>1
    <3>. QED BY <3>1 DEF AtLeast
  <2>3. y \in Nat \ {0}
    <3>1. b.high * uf \in Nat BY <2>1
    <3>. QED BY <3>1 DEF AtLeast
  <2>. HIDE DEF x, y
  <2>4. Pulled(b, l, uf) = [b EXCEPT !.low = x, !.high = y] BY DEF Pulled, x, y
  <2>. DEFINE z == [b EXCEPT !.low = x, !.high = y]
  <2>5. z \in [low: Nat \ {0}, high: Nat \ {0}, dq: Nat \ {0}] /\ z.low = x /\ z.high = y
    BY <2>2, <2>3 DEF Ranges
  <2>6. x < y
    <3>1. HasRange(z) BY <1>1, <2>4
    <3>. QED BY <2>5, <3>1 DEF HasRange
  <2>. HIDE DEF z
  <2>7. z.low <= z.high BY <2>2, <2>3, <2>5, <2>6
  <2>. QED BY <2>4, <2>5, <2>7 DEF Ranges, z
<1>2. 10 \in Nat OBVIOUS
<1>. QED BY <1>1, <1>2 DEF Narrowed

-----------------------------------------------------------------------------

\* Every row authoring writes passes the checks of desired_state and leaves a
\* sweep somewhere to start, whatever the statistics of the reach: zero, negative,
\* in the wrong order, equal, too close for the grid, or missing.
THEOREM AuthoredRowsAreLegal ==
    ASSUME NEW lower \in Statistics, NEW upper \in Statistics, NEW lf \in Nat, NEW uf \in Nat
    PROVE  LET b == Narrowed(Loaded(lower, upper), lf, uf)
           IN  /\ BoundsOf(lower, upper, lf, uf) \in [grid: GridMenu, low: Nat, high: Nat, dq: Nat]
               /\ Accepted(BoundsOf(lower, upper, lf, uf))
               /\ Sweepable(BoundsOf(lower, upper, lf, uf), b)
<1>. DEFINE b == Narrowed(Loaded(lower, upper), lf, uf)
            g == GridOf(b.low, b.high)
<1>1. b \in Ranges BY LoadsRange, NarrowsToRange
<1>. HIDE DEF b
<1>2. g \in SeedGrids BY GridIsSeeded
<1>. HIDE DEF g
<1>3. /\ b.low \in Nat /\ b.high \in Nat /\ b.dq \in Nat
      /\ b.low <= b.high
  BY <1>1 DEF Ranges
<1>4. g \in Nat /\ g > 0 /\ g \in GridMenu BY <1>2 DEF SeedGrids, GridMenu
<1>. DEFINE low == Snap(b.low, g)
            top == Snap(b.high, g)
            dq == Snap(b.dq, g)
            high == IF top <= low THEN low + g ELSE top
<1>5. /\ low \in Nat /\ low >= g /\ low % g = 0
      /\ low - b.low <= g /\ b.low - low <= g
      /\ low + g \in Nat /\ (low + g) % g = 0
  BY <1>2, <1>3, SnapsToGrid
<1>6. top \in Nat /\ top % g = 0 /\ top - b.high <= g /\ b.high - top <= g
  BY <1>2, <1>3, SnapsToGrid
<1>7. dq \in Nat /\ dq >= g /\ dq % g = 0 BY <1>2, <1>3, SnapsToGrid
<1>8. BoundsOf(lower, upper, lf, uf) = [grid |-> g, low |-> low, high |-> high, dq |-> dq]
  BY DEF BoundsOf, Placed, b, g
<1>. HIDE DEF low, top, dq
<1>9. low < high /\ high \in Nat /\ high % g = 0 BY <1>4, <1>5, <1>6
<1>10. low - b.low \in -g..g BY <1>3, <1>4, <1>5
<1>11. high - b.high \in -g..(2 * g) BY <1>3, <1>4, <1>5, <1>6
<1>. HIDE DEF high
<1>12. Accepted(BoundsOf(lower, upper, lf, uf)) BY <1>4, <1>5, <1>7, <1>8, <1>9 DEF Accepted
<1>13. Sweepable(BoundsOf(lower, upper, lf, uf), b) BY <1>5, <1>7, <1>8, <1>10, <1>11 DEF Sweepable
<1>14. BoundsOf(lower, upper, lf, uf) \in [grid: GridMenu, low: Nat, high: Nat, dq: Nat]
  BY <1>4, <1>5, <1>7, <1>8, <1>9
<1>. QED BY <1>12, <1>13, <1>14 DEF b

-----------------------------------------------------------------------------
(* The commands *)

\* What a command that stands at a step has at hand.
LEMMA CommandsByStep ==
    ASSUME NEW c \in Commands
    PROVE  /\ c.at = "polygons" => c \in [at: {"polygons"}, left: SUBSET WaterBodies]
           /\ c.at \in {"load", "readBack"} => c \in [at: {"load", "readBack"}, file: Networks]
           /\ c.at = "put" => c \in [at: {"put"}, copy: Maps]
           /\ c.at = "upload" => c \in [at: {"upload"}, lookup: Lookups, content: Contents]
           /\ c.at \in {"network", "write"} => c \in [at: {"network", "write"}, aoi: AOIs]
           /\ c.at = "intended" => c \in [at: {"intended"}, aoi: AOIs, links: Maps]
<1>1. CASE c = Resting BY <1>1 DEF Resting
<1>2. CASE c \in [at: {"polygons"}, left: SUBSET WaterBodies] BY <1>2
<1>3. CASE c \in [at: {"load", "readBack"}, file: Networks] BY <1>3
<1>4. CASE c \in [at: {"put"}, copy: Maps] BY <1>4
<1>5. CASE c \in [at: {"upload"}, lookup: Lookups, content: Contents] BY <1>5
<1>6. CASE c \in [at: {"network", "write"}, aoi: AOIs] BY <1>6
<1>7. CASE c \in [at: {"intended"}, aoi: AOIs, links: Maps] BY <1>7
<1>. QED BY <1>1, <1>2, <1>3, <1>4, <1>5, <1>6, <1>7 DEF Commands

\* And that those are the things a command can be at.
LEMMA StepsAreCommands ==
    /\ Resting \in Commands
    /\ \A B \in SUBSET WaterBodies : [at |-> "polygons", left |-> B] \in Commands
    /\ \A f \in Networks : [at |-> "load", file |-> f] \in Commands
    /\ \A f \in Networks : [at |-> "readBack", file |-> f] \in Commands
    /\ \A t \in Maps : [at |-> "put", copy |-> t] \in Commands
    /\ \A l \in Lookups, c \in Contents : [at |-> "upload", lookup |-> l, content |-> c] \in Commands
    /\ \A aoi \in AOIs : [at |-> "network", aoi |-> aoi] \in Commands
    /\ \A aoi \in AOIs : [at |-> "write", aoi |-> aoi] \in Commands
    /\ \A aoi \in AOIs, t \in Maps : [at |-> "intended", aoi |-> aoi, links |-> t] \in Commands
BY DEF Commands

\* A network file is put into the table as links.
LEMMA UpsertsMaps ==
    ASSUME NEW t \in Maps, NEW f \in Networks
    PROVE  /\ Upserted(t, f) \in Maps
           /\ \A r \in DOMAIN f : Clipped(f)[r] \in Link
<1>1. DOMAIN f \subseteq Reaches /\ f \in [DOMAIN f -> Link] BY IntakeAssumption
<1>2. ASSUME NEW r \in DOMAIN f PROVE Clipped(f)[r] \in Link
  <2>1. f[r] \in Link BY <1>1
  <2>2. f[r].body \in WaterBodies \union {None} BY <2>1 DEF Link
  <2>3. [to |-> None, body |-> f[r].body] \in Link BY <2>2 DEF Link
  <2>4. Clipped(f)[r] = IF f[r].to \in DOMAIN f THEN f[r] ELSE [to |-> None, body |-> f[r].body]
    BY DEF Clipped
  <2>. QED BY <2>1, <2>3, <2>4
<1>3. ASSUME NEW r \in Reaches
      PROVE  (IF r \in DOMAIN f THEN Clipped(f)[r] ELSE t[r]) \in Link \union {None}
  BY <1>2 DEF Maps
<1>. QED BY <1>2, <1>3 DEF Upserted, Maps

\* A reach the AOI covers has statistics.
LEMMA WantedHaveFlows ==
    ASSUME NEW aoi \in AOIs, NEW r \in Wanted(aoi)
    PROVE  /\ r \in Reaches
           /\ aoi.flows[FlowpathOf[r]].lower \in Statistics
           /\ aoi.flows[FlowpathOf[r]].upper \in Statistics
<1>1. DOMAIN aoi.network \subseteq Reaches
      /\ aoi.flows \in [DOMAIN aoi.flows -> [lower: Statistics, upper: Statistics]]
  BY IntakeAssumption
<1>2. r \in DOMAIN aoi.network /\ FlowpathOf[r] \in DOMAIN aoi.flows BY DEF Wanted, Own
<1>. QED BY <1>1, <1>2

\* What is written for it is legal, whatever they are.
LEMMA RowsAreLegal ==
    ASSUME NEW aoi \in AOIs, NEW r \in Wanted(aoi)
    PROVE  /\ RowFor(r, aoi) \in Row
           /\ RowFor(r, aoi).lookup = aoi.lookup
           /\ Accepted(RowFor(r, aoi))
           /\ RowFor(r, aoi).low > 0
<1>. DEFINE s == aoi.flows[FlowpathOf[r]]
            b == BoundsOf(s.lower, s.upper, aoi.factors[1], aoi.factors[2])
<1>1. aoi.factors[1] \in Nat /\ aoi.factors[2] \in Nat /\ aoi.lookup \in Lookups \union {None}
  BY IntakeAssumption
<1>2. /\ b \in [grid: GridMenu, low: Nat, high: Nat, dq: Nat]
      /\ Accepted(b)
      /\ Sweepable(b, Narrowed(Loaded(s.lower, s.upper), aoi.factors[1], aoi.factors[2]))
  BY <1>1, WantedHaveFlows, AuthoredRowsAreLegal
<1>3. RowFor(r, aoi) = [grid |-> b.grid, low |-> b.low, high |-> b.high, dq |-> b.dq, lookup |-> aoi.lookup]
  BY DEF RowFor
<1>. HIDE DEF b
<1>4. b.low > 0
  <2>1. b.low >= b.grid BY <1>2 DEF Sweepable
  <2>2. b.grid \in {2, 5, 10, 50, 100} /\ b.low \in Nat BY <1>2 DEF GridMenu
  <2>. QED BY <2>1, <2>2
<1>5. RowFor(r, aoi) \in Row BY <1>1, <1>2, <1>3 DEF Row
<1>6. Accepted(RowFor(r, aoi)) BY <1>2, <1>3 DEF Accepted
<1>. QED BY <1>3, <1>4, <1>5, <1>6

-----------------------------------------------------------------------------
(* Types *)

\* Setting one command's step keeps them all commands.
LEMMA GoTyped ==
    ASSUME TypeOK, NEW p \in Procs, NEW c \in Commands, Go(p, c)
    PROVE  cmd' \in [Procs -> Commands]
BY DEF TypeOK, Go

\* Counting what was used keeps the counters in their bounds.
LEMMA CountedTyped ==
    ASSUME TypeOK, past.commands < MaxCommands
    PROVE  /\ Counted \in [commands: 0..MaxCommands, kills: 0..MaxKills, faults: 0..MaxFaults,
                           relinked: BOOLEAN, moved: BOOLEAN, overtaken: BOOLEAN, raced: BOOLEAN]
           /\ Counted.faults = past.faults /\ Counted.kills = past.kills
           /\ Counted.relinked = past.relinked /\ Counted.moved = past.moved
           /\ Counted.overtaken = past.overtaken /\ Counted.raced = past.raced
BY IntakeAssumption DEF TypeOK, Counted

LEMMA TypeStep == ASSUME TypeOK, [Next]_vars PROVE TypeOK'
<1>. USE DEF TypeOK
<1>1. CASE UNCHANGED vars BY <1>1 DEF vars
<1>2. ASSUME NEW p \in Procs, NEW B \in BodyFiles, SeedBodies(p, B) PROVE TypeOK'
  <2>1. B \subseteq WaterBodies BY IntakeAssumption
  <2>2. cmd' \in [Procs -> Commands] BY <1>2, <2>1, StepsAreCommands, GoTyped DEF SeedBodies
  <2>. QED BY <1>2, <2>1, <2>2, CountedTyped DEF SeedBodies, Start, storage
<1>3. ASSUME NEW p \in Procs, PublishPolygon(p) PROVE TypeOK'
  <2>1. cmd[p] \in [at: {"polygons"}, left: SUBSET WaterBodies]
    BY <1>3, CommandsByStep DEF PublishPolygon
  <2>2. PICK b \in cmd[p].left :
            /\ polys' = polys \union {b}
            /\ Go(p, IF Left(cmd[p].left, b) = {} THEN Resting
                     ELSE [cmd[p] EXCEPT !.left = Left(cmd[p].left, b)])
    BY <1>3 DEF PublishPolygon
  <2>3. [cmd[p] EXCEPT !.left = Left(cmd[p].left, b)] \in Commands BY <2>1 DEF Commands, Left
  <2>4. cmd' \in [Procs -> Commands] BY <2>2, <2>3, StepsAreCommands, GoTyped
  <2>. QED BY <1>3, <2>1, <2>2, <2>4 DEF PublishPolygon, db
<1>4. ASSUME NEW p \in Procs, NEW f \in Networks, SeedNetwork(p, f) PROVE TypeOK'
  <2>1. cmd' \in [Procs -> Commands] BY <1>4, StepsAreCommands, GoTyped DEF SeedNetwork
  <2>. QED BY <1>4, <2>1, CountedTyped DEF SeedNetwork, Start, storage, db
<1>5. ASSUME NEW p \in Procs, LoadNetwork(p) PROVE TypeOK'
  <2>1. cmd[p].file \in Networks BY <1>5, CommandsByStep DEF LoadNetwork
  <2>2. cmd' \in [Procs -> Commands] BY <1>5, <2>1, StepsAreCommands, GoTyped DEF LoadNetwork
  <2>3. net' \in Maps BY <1>5, <2>1, UpsertsMaps DEF LoadNetwork
  <2>4. past' \in [commands: 0..MaxCommands, kills: 0..MaxKills, faults: 0..MaxFaults,
                   relinked: BOOLEAN, moved: BOOLEAN, overtaken: BOOLEAN, raced: BOOLEAN]
    <3>1. ASSUME NEW x \in BOOLEAN, NEW y \in BOOLEAN
          PROVE  [past EXCEPT !.relinked = x, !.overtaken = y] \in
                     [commands: 0..MaxCommands, kills: 0..MaxKills, faults: 0..MaxFaults,
                      relinked: BOOLEAN, moved: BOOLEAN, overtaken: BOOLEAN, raced: BOOLEAN]
      OBVIOUS
    <3>2. (past.relinked \/ Relinks(cmd[p].file)) \in BOOLEAN OBVIOUS
    <3>3. (past.overtaken \/ \E q \in Procs : cmd[q].at = "put") \in BOOLEAN OBVIOUS
    <3>. QED BY <1>5, <3>1, <3>2, <3>3 DEF LoadNetwork
  <2>. QED BY <1>5, <2>2, <2>3, <2>4 DEF LoadNetwork, storage
<1>6. ASSUME NEW p \in Procs, ReadNetwork(p) PROVE TypeOK'
  <2>1. cmd' \in [Procs -> Commands] BY <1>6, StepsAreCommands, GoTyped DEF ReadNetwork, ReadBack
  <2>. QED BY <1>6, <2>1 DEF ReadNetwork, storage, db
<1>7. ASSUME NEW p \in Procs, PutNetwork(p) PROVE TypeOK'
  <2>1. cmd' \in [Procs -> Commands] BY <1>7, StepsAreCommands, GoTyped DEF PutNetwork
  <2>2. cmd[p].copy \in Maps BY <1>7, CommandsByStep DEF PutNetwork
  <2>. QED BY <1>7, <2>1, <2>2 DEF PutNetwork, db
<1>8. ASSUME NEW p \in Procs, NEW l \in Lookups, NEW c \in Contents, Stage(p, l, c) PROVE TypeOK'
  <2>1. cmd' \in [Procs -> Commands]
    BY <1>8, StepsAreCommands, GoTyped DEF Stage, StageAsk
  <2>2. past' \in [commands: 0..MaxCommands, kills: 0..MaxKills, faults: 0..MaxFaults,
                   relinked: BOOLEAN, moved: BOOLEAN, overtaken: BOOLEAN, raced: BOOLEAN]
    <3>1. past.commands < MaxCommands BY <1>8 DEF Stage, StageAsk, Start
    <3>2. CASE past' = Counted BY <3>1, <3>2, CountedTyped
    <3>3. CASE past.faults < MaxFaults /\ past' = [Counted EXCEPT !.faults = @ + 1]
      <4>1. Counted.faults + 1 \in 0..MaxFaults BY <3>1, <3>3, CountedTyped, IntakeAssumption
      <4>. QED BY <3>1, <3>3, <4>1, CountedTyped
    <3>. QED BY <1>8, <3>2, <3>3 DEF Stage, StageAsk
  <2>. QED BY <1>8, <2>1, <2>2 DEF Stage, StageAsk, storage, db
<1>9. ASSUME NEW p \in Procs, StageUpload(p) PROVE TypeOK'
  <2>1. cmd' \in [Procs -> Commands] BY <1>9, StepsAreCommands, GoTyped DEF StageUpload
  <2>2. cmd[p].lookup \in Lookups /\ cmd[p].content \in Contents
    BY <1>9, CommandsByStep DEF StageUpload
  <2>3. lookups' \in [Lookups -> Contents \union {None}] BY <1>9, <2>2 DEF StageUpload
  <2>. QED BY <1>9, <2>1, <2>3 DEF StageUpload, db
<1>10. ASSUME NEW p \in Procs, NEW l \in Lookups, AuthorDefaults(p, l) PROVE TypeOK'
  <2>1. past.commands < MaxCommands BY <1>10 DEF AuthorDefaults, Start
  <2>2. [Counted EXCEPT !.moved = @ \/ dflt # None] \in
            [commands: 0..MaxCommands, kills: 0..MaxKills, faults: 0..MaxFaults,
             relinked: BOOLEAN, moved: BOOLEAN, overtaken: BOOLEAN, raced: BOOLEAN]
    BY <2>1, CountedTyped
  <2>. QED BY <1>10, <2>2 DEF AuthorDefaults, storage
<1>11. ASSUME NEW p \in Procs, NEW aoi \in AOIs, AuthorStart(p, aoi) PROVE TypeOK'
  <2>1. cmd' \in [Procs -> Commands] BY <1>11, StepsAreCommands, GoTyped DEF AuthorStart
  <2>. QED BY <1>11, <2>1, CountedTyped DEF AuthorStart, Start, storage, db
<1>12. ASSUME NEW p \in Procs, AuthorReadNetwork(p) PROVE TypeOK'
  <2>1. cmd[p].aoi \in AOIs BY <1>12, CommandsByStep DEF AuthorReadNetwork
  <2>2. cmd' \in [Procs -> Commands]
    BY <1>12, <2>1, StepsAreCommands, GoTyped DEF AuthorReadNetwork
  <2>. QED BY <1>12, <2>2 DEF AuthorReadNetwork, storage, db
<1>13. ASSUME NEW p \in Procs, AuthorCheck(p) PROVE TypeOK'
  <2>1. cmd[p].aoi \in AOIs BY <1>13, CommandsByStep DEF AuthorCheck
  <2>2. cmd' \in [Procs -> Commands] BY <1>13, <2>1, StepsAreCommands, GoTyped DEF AuthorCheck
  <2>. QED BY <1>13, <2>2 DEF AuthorCheck, storage, db
<1>14. ASSUME NEW p \in Procs, AuthorWrite(p) PROVE TypeOK'
  <2>1. cmd[p].aoi \in AOIs BY <1>14, CommandsByStep DEF AuthorWrite
  <2>2. cmd' \in [Procs -> Commands] BY <1>14, StepsAreCommands, GoTyped DEF AuthorWrite
  <2>3. rows' \in [Reaches -> Row \union {None}] BY <1>14, <2>1, RowsAreLegal DEF AuthorWrite
  <2>. QED BY <1>14, <2>2, <2>3 DEF AuthorWrite, storage
<1>15. ASSUME NEW p \in Procs, Kill(p) PROVE TypeOK'
  <2>1. cmd' \in [Procs -> Commands] BY <1>15, StepsAreCommands, GoTyped DEF Kill
  <2>. QED BY <1>15, <2>1, IntakeAssumption DEF Kill, storage, db
<1>. QED
  BY <1>1, <1>2, <1>3, <1>4, <1>5, <1>6, <1>7, <1>8, <1>9, <1>10, <1>11, <1>12, <1>13, <1>14, <1>15
  DEF Next, Command

LEMMA TypeInit == Init => TypeOK
<1>1. [r \in Reaches |-> None] \in Maps BY DEF Maps
<1>. QED BY <1>1, StepsAreCommands, IntakeAssumption DEF Init, TypeOK

\* Every reachable state is typed: what a command has read and not written yet
\* are links, files and AOIs, and every authored row is a row of the table.
THEOREM IntakeTypesHold == Spec => []TypeOK
BY TypeInit, TypeStep, PTL DEF Spec

\* The database never refuses the rows of an AOI, whatever its statistics.
THEOREM AuthoringIsAccepted == Spec => []IntentIsAccepted
<1>1. TypeOK => IntentIsAccepted
  <2>. SUFFICES ASSUME TypeOK, NEW p \in Procs, cmd[p].at = "write", NEW r \in Wanted(cmd[p].aoi)
                PROVE  Accepted(RowFor(r, cmd[p].aoi)) /\ RowFor(r, cmd[p].aoi).low > 0
    BY DEF IntentIsAccepted
  <2>1. cmd[p].aoi \in AOIs BY CommandsByStep DEF TypeOK
  <2>. QED BY <2>1, RowsAreLegal
<1>. QED BY <1>1, IntakeTypesHold, PTL

-----------------------------------------------------------------------------
(* What one step may do to what others have read *)

\* A command's own step is the only one it takes.
LEMMA OneGoes ==
    ASSUME TypeOK, NEW p \in Procs, NEW c, Go(p, c)
    PROVE  /\ cmd'[p] = c
           /\ \A q \in Procs \ {p} : cmd'[q] = cmd[q]
BY DEF TypeOK, Go

\* How a command comes to hold an AOI's intent: it has just looked at the lookup,
\* or it held that AOI before.
Authoring == {"network", "intended", "write"}

LEMMA HowAuthoring ==
    ASSUME TypeOK, [Next]_vars, NEW q \in Procs, cmd'[q].at \in Authoring
    PROVE  \/ cmd[q].at \in Authoring /\ cmd'[q].aoi = cmd[q].aoi
           \/ cmd'[q].aoi \in AOIs /\ AuthorStart(q, cmd'[q].aoi)
<1>. USE DEF Authoring
<1>1. CASE UNCHANGED vars BY <1>1 DEF vars
<1>. SUFFICES ASSUME NEW p \in Procs, Command(p) \/ Kill(p), cmd' # cmd
              PROVE  \/ cmd[q].at \in Authoring /\ cmd'[q].aoi = cmd[q].aoi
                     \/ cmd'[q].aoi \in AOIs /\ AuthorStart(q, cmd'[q].aoi)
  BY <1>1 DEF Next
<1>2. ASSUME NEW c, Go(p, c), c.at \notin Authoring PROVE cmd[q].at \in Authoring /\ cmd'[q].aoi = cmd[q].aoi
  BY <1>2, OneGoes
<1>3. Resting.at \notin Authoring BY DEF Resting
<1>4. CASE \E B \in BodyFiles : SeedBodies(p, B) BY <1>2, <1>4 DEF SeedBodies
<1>5. CASE PublishPolygon(p)
  <2>1. cmd[p] \in [at: {"polygons"}, left: SUBSET WaterBodies]
    BY <1>5, CommandsByStep DEF PublishPolygon, TypeOK
  <2>2. \A X : [cmd[p] EXCEPT !.left = X].at = "polygons" BY <2>1
  <2>. QED BY <1>2, <1>3, <1>5, <2>2 DEF PublishPolygon
<1>6. CASE \E f \in Networks : SeedNetwork(p, f) BY <1>2, <1>6 DEF SeedNetwork
<1>7. CASE LoadNetwork(p) BY <1>2, <1>7 DEF LoadNetwork
<1>8. CASE ReadNetwork(p) BY <1>2, <1>8 DEF ReadNetwork
<1>9. CASE PutNetwork(p) BY <1>2, <1>3, <1>9 DEF PutNetwork
<1>10. CASE \E l \in Lookups, c \in Contents : Stage(p, l, c) BY <1>2, <1>10 DEF Stage, StageAsk
<1>11. CASE StageUpload(p) BY <1>2, <1>3, <1>11 DEF StageUpload
<1>12. CASE \E l \in Lookups : AuthorDefaults(p, l) BY <1>12 DEF AuthorDefaults
<1>13. CASE \E aoi \in AOIs : AuthorStart(p, aoi)
  <2>1. PICK aoi \in AOIs : AuthorStart(p, aoi) BY <1>13
  <2>2. cmd'[p] = [at |-> "network", aoi |-> aoi] /\ \A x \in Procs \ {p} : cmd'[x] = cmd[x]
    BY <2>1, OneGoes DEF AuthorStart
  <2>. QED BY <2>1, <2>2
<1>14. CASE AuthorReadNetwork(p)
  <2>1. cmd'[p] = [at |-> "intended", aoi |-> cmd[p].aoi, links |-> net]
        /\ \A x \in Procs \ {p} : cmd'[x] = cmd[x]
    BY <1>14, OneGoes DEF AuthorReadNetwork
  <2>. QED BY <1>14, <2>1 DEF AuthorReadNetwork
<1>15. CASE AuthorCheck(p)
  <2>1. /\ cmd'[p] = IF Authorable(cmd[p].aoi, cmd[p].links)
                     THEN [at |-> "write", aoi |-> cmd[p].aoi] ELSE Resting
        /\ \A x \in Procs \ {p} : cmd'[x] = cmd[x]
    BY <1>15, OneGoes DEF AuthorCheck
  <2>. QED BY <1>3, <1>15, <2>1 DEF AuthorCheck
<1>16. CASE AuthorWrite(p) BY <1>2, <1>3, <1>16 DEF AuthorWrite
<1>17. CASE Kill(p) BY <1>2, <1>3, <1>17 DEF Kill
<1>. QED
  BY <1>4, <1>5, <1>6, <1>7, <1>8, <1>9, <1>10, <1>11, <1>12, <1>13, <1>14, <1>15, <1>16, <1>17
  DEF Command

\* A lookup that is staged stays staged; the default stays where it is, unless it
\* is moved; intent is only ever authored; and a link stays, unless a seeding
\* moves one.
LEMMA WhatStays ==
    ASSUME TypeOK, [Next]_vars
    PROVE  /\ \A l \in Lookups : lookups[l] # None => lookups'[l] # None
           /\ ~past'.moved => ~past.moved /\ (dflt # None => dflt' = dflt)
           /\ \A r \in Reaches :
                 \/ rows'[r] = rows[r]
                 \/ \E p \in Procs : /\ cmd[p].at = "write" /\ r \in Wanted(cmd[p].aoi)
                                     /\ rows'[r] = RowFor(r, cmd[p].aoi)
           /\ ~past'.relinked =>
                 /\ ~past.relinked
                 /\ \A r \in Reaches : net[r] # None => net'[r] # None /\ net'[r].to = net[r].to
           /\ past'.kills = 0 => past.kills = 0
           /\ ~past'.overtaken => ~past.overtaken
           /\ past.raced => past'.raced
           /\ past.faults > 0 => past'.faults > 0
<1>. DEFINE P == /\ \A l \in Lookups : lookups[l] # None => lookups'[l] # None
                 /\ ~past'.moved => ~past.moved /\ (dflt # None => dflt' = dflt)
                 /\ \A r \in Reaches :
                       \/ rows'[r] = rows[r]
                       \/ \E p \in Procs : /\ cmd[p].at = "write" /\ r \in Wanted(cmd[p].aoi)
                                           /\ rows'[r] = RowFor(r, cmd[p].aoi)
                 /\ ~past'.relinked =>
                       /\ ~past.relinked
                       /\ \A r \in Reaches : net[r] # None => net'[r] # None /\ net'[r].to = net[r].to
                 /\ past'.kills = 0 => past.kills = 0
                 /\ ~past'.overtaken => ~past.overtaken
                 /\ past.raced => past'.raced
                 /\ past.faults > 0 => past'.faults > 0
<1>. SUFFICES P OBVIOUS
<1>. USE DEF TypeOK
<1>1. CASE UNCHANGED vars BY <1>1 DEF vars
<1>2. ASSUME NEW p \in Procs, NEW B \in BodyFiles, SeedBodies(p, B) PROVE P
  BY <1>2, CountedTyped DEF SeedBodies, Start, storage
<1>3. ASSUME NEW p \in Procs, PublishPolygon(p) PROVE P BY <1>3 DEF PublishPolygon, db
<1>4. ASSUME NEW p \in Procs, NEW f \in Networks, SeedNetwork(p, f) PROVE P
  BY <1>4, CountedTyped DEF SeedNetwork, Start, storage, db
<1>5. ASSUME NEW p \in Procs, LoadNetwork(p) PROVE P
  <2>1. cmd[p].file \in Networks BY <1>5, CommandsByStep DEF LoadNetwork
  <2>. DEFINE f == cmd[p].file
              x == past.relinked \/ Relinks(f)
              y == past.overtaken \/ \E q \in Procs : cmd[q].at = "put"
  <2>2. past'.relinked = x /\ past'.overtaken = y /\ past'.moved = past.moved /\ past'.kills = past.kills
        /\ past'.raced = past.raced /\ past'.faults = past.faults
    BY <1>5 DEF LoadNetwork
  <2>3. ASSUME ~Relinks(f), NEW r \in Reaches, net[r] # None PROVE net'[r] # None /\ net'[r].to = net[r].to
    <3>1. net'[r] = IF r \in DOMAIN f THEN Clipped(f)[r] ELSE net[r] BY <1>5 DEF LoadNetwork, Upserted
    <3>2. CASE r \in DOMAIN f
      <4>1. Clipped(f)[r] \in Link BY <2>1, <3>2, UpsertsMaps
      <4>2. Clipped(f)[r].to = net[r].to BY <2>3, <3>2 DEF Relinks
      <4>. QED BY <3>1, <3>2, <4>1, <4>2, IntakeAssumption
    <3>. QED BY <2>3, <3>1, <3>2
  <2>. QED BY <1>5, <2>2, <2>3 DEF LoadNetwork, storage
<1>6. ASSUME NEW p \in Procs, ReadNetwork(p) PROVE P BY <1>6 DEF ReadNetwork, storage, db
<1>7. ASSUME NEW p \in Procs, PutNetwork(p) PROVE P BY <1>7 DEF PutNetwork, db
<1>8. ASSUME NEW p \in Procs, NEW l \in Lookups, NEW c \in Contents, Stage(p, l, c) PROVE P
  <2>1. past.commands < MaxCommands BY <1>8 DEF Stage, StageAsk, Start
  <2>2. CASE past' = Counted BY <1>8, <2>1, <2>2, CountedTyped DEF Stage, StageAsk, storage, db
  <2>3. CASE past' = [Counted EXCEPT !.faults = @ + 1]
    <3>1. past.faults \in Nat BY IntakeAssumption
    <3>. QED BY <1>8, <2>1, <2>3, <3>1, CountedTyped DEF Stage, StageAsk, storage, db
  <2>. QED BY <1>8, <2>2, <2>3 DEF Stage, StageAsk
<1>9. ASSUME NEW p \in Procs, StageUpload(p) PROVE P
  <2>1. cmd[p].lookup \in Lookups /\ cmd[p].content \in Contents
    BY <1>9, CommandsByStep DEF StageUpload
  <2>2. \A l \in Lookups : lookups[l] # None => lookups'[l] # None
    BY <1>9, <2>1, IntakeAssumption DEF StageUpload
  <2>. QED BY <1>9, <2>2 DEF StageUpload, db
<1>10. ASSUME NEW p \in Procs, NEW l \in Lookups, AuthorDefaults(p, l) PROVE P
  <2>1. past.commands < MaxCommands BY <1>10 DEF AuthorDefaults, Start
  <2>. QED BY <1>10, <2>1, CountedTyped DEF AuthorDefaults, storage
<1>11. ASSUME NEW p \in Procs, NEW aoi \in AOIs, AuthorStart(p, aoi) PROVE P
  BY <1>11, CountedTyped DEF AuthorStart, Start, storage, db
<1>12. ASSUME NEW p \in Procs, AuthorReadNetwork(p) PROVE P BY <1>12 DEF AuthorReadNetwork, storage, db
<1>13. ASSUME NEW p \in Procs, AuthorCheck(p) PROVE P BY <1>13 DEF AuthorCheck, storage, db
<1>14. ASSUME NEW p \in Procs, AuthorWrite(p) PROVE P
  <2>1. ASSUME NEW r \in Reaches
        PROVE  rows'[r] = IF r \in Wanted(cmd[p].aoi) THEN RowFor(r, cmd[p].aoi) ELSE rows[r]
    BY <1>14 DEF AuthorWrite
  <2>2. \A r \in Reaches :
           \/ rows'[r] = rows[r]
           \/ \E q \in Procs : /\ cmd[q].at = "write" /\ r \in Wanted(cmd[q].aoi)
                               /\ rows'[r] = RowFor(r, cmd[q].aoi)
    BY <1>14, <2>1 DEF AuthorWrite
  <2>. HIDE DEF TypeOK
  <2>. QED BY <1>14, <2>2 DEF AuthorWrite, storage
<1>15. ASSUME NEW p \in Procs, Kill(p) PROVE P
  <2>1. past.kills \in Nat BY IntakeAssumption
  <2>. QED BY <1>15, <2>1 DEF Kill, storage, db
<1>. QED
  BY <1>1, <1>2, <1>3, <1>4, <1>5, <1>6, <1>7, <1>8, <1>9, <1>10, <1>11, <1>12, <1>13, <1>14, <1>15
  DEF Next, Command

-----------------------------------------------------------------------------
(* Lookups *)

Readable(l) == l \in Lookups /\ lookups[l] # None

\* A command that authors has seen the lookup its reaches will use.
SeenLookup ==
    \A p \in Procs : cmd[p].at \in Authoring /\ ~past.moved => Readable(LookupOf(cmd[p].aoi))

ReadableIntent ==
    ~past.moved => \A r \in Intended : Readable(IF rows[r].lookup = None THEN dflt ELSE rows[r].lookup)

LEMMA AOIOfAuthoring ==
    ASSUME TypeOK, NEW p \in Procs, cmd[p].at \in Authoring
    PROVE  cmd[p].aoi \in AOIs /\ cmd[p].aoi.lookup \in Lookups \union {None}
<1>1. cmd[p].aoi \in AOIs BY CommandsByStep DEF TypeOK, Authoring
<1>. QED BY <1>1, IntakeAssumption

LEMMA LookupStep ==
    ASSUME TypeOK, SeenLookup, ReadableIntent, [Next]_vars
    PROVE  SeenLookup' /\ ReadableIntent'
<1>1. ASSUME NEW l, Readable(l) PROVE Readable(l)' BY <1>1, WhatStays DEF Readable
<1>2. ASSUME ~past'.moved, Readable(dflt) PROVE dflt' = dflt
  BY <1>2, WhatStays, IntakeAssumption DEF Readable
<1>3. ASSUME ~past'.moved, NEW l, Readable(IF l = None THEN dflt ELSE l)
      PROVE  Readable(IF l = None THEN dflt ELSE l)'
  BY <1>1, <1>2, <1>3
<1>4. SeenLookup'
  <2>. SUFFICES ASSUME NEW p \in Procs, cmd'[p].at \in Authoring, ~past'.moved
                PROVE  Readable(LookupOf(cmd[p].aoi))'
    BY DEF SeenLookup
  <2>1. CASE cmd[p].at \in Authoring /\ cmd'[p].aoi = cmd[p].aoi
    <3>1. Readable(LookupOf(cmd[p].aoi)) BY <2>1, WhatStays DEF SeenLookup
    <3>. QED BY <1>3, <2>1, <3>1 DEF LookupOf
  <2>2. CASE cmd'[p].aoi \in AOIs /\ AuthorStart(p, cmd'[p].aoi)
    <3>1. /\ dflt # None /\ LookupOf(cmd'[p].aoi) # None /\ lookups[LookupOf(cmd'[p].aoi)] # None
          /\ dflt' = dflt /\ lookups' = lookups
      BY <2>2 DEF AuthorStart, LookupStaged, db, storage
    <3>2. cmd'[p].aoi.lookup \in Lookups \union {None} BY <2>2, IntakeAssumption
    <3>3. Readable(LookupOf(cmd'[p].aoi)) BY <3>1, <3>2 DEF Readable, LookupOf, TypeOK
    <3>. QED BY <3>1, <3>3 DEF Readable, LookupOf
  <2>. QED BY <2>1, <2>2, HowAuthoring
<1>5. ReadableIntent'
  <2>. SUFFICES ASSUME ~past'.moved, NEW r \in Reaches, rows'[r] # None
                PROVE  Readable(IF rows[r].lookup = None THEN dflt ELSE rows[r].lookup)'
    BY DEF ReadableIntent, Intended
  <2>0. ~past.moved BY WhatStays
  <2>1. CASE rows'[r] = rows[r]
    <3>1. Readable(IF rows[r].lookup = None THEN dflt ELSE rows[r].lookup)
      BY <2>0, <2>1 DEF ReadableIntent, Intended
    <3>. QED BY <1>3, <2>1, <3>1
  <2>2. ASSUME NEW p \in Procs, cmd[p].at = "write", r \in Wanted(cmd[p].aoi),
               rows'[r] = RowFor(r, cmd[p].aoi)
        PROVE  Readable(IF rows[r].lookup = None THEN dflt ELSE rows[r].lookup)'
    <3>1. cmd[p].aoi \in AOIs BY <2>2, AOIOfAuthoring DEF Authoring
    <3>2. rows'[r].lookup = cmd[p].aoi.lookup BY <2>2, <3>1, RowsAreLegal
    <3>3. Readable(LookupOf(cmd[p].aoi)) BY <2>0, <2>2 DEF SeenLookup, Authoring
    <3>. QED BY <1>3, <3>2, <3>3 DEF LookupOf
  <2>. QED BY <2>1, <2>2, WhatStays
<1>. QED BY <1>4, <1>5

\* What a reach's identity is hashed from was looked at before intent was written,
\* and nobody takes it away in between or afterwards.
THEOREM IntentCanBeHashed == Spec => []LookupsAreReadable
<1>1. Init => SeenLookup /\ ReadableIntent
  <2>. SUFFICES ASSUME Init PROVE SeenLookup /\ ReadableIntent OBVIOUS
  <2>1. \A p \in Procs : cmd[p].at = "resting" BY DEF Init, Resting
  <2>2. SeenLookup BY <2>1 DEF SeenLookup, Authoring
  <2>3. ReadableIntent BY DEF Init, ReadableIntent, Intended
  <2>. QED BY <2>2, <2>3
<1>2. ReadableIntent => LookupsAreReadable
  BY IntakeAssumption DEF ReadableIntent, LookupsAreReadable, Readable
<1>. QED BY <1>1, <1>2, LookupStep, IntakeTypesHold, PTL DEF Spec

-----------------------------------------------------------------------------
(* Links *)

\* The links an authoring command has read are still there.
LinksHold ==
    \A p \in Procs : cmd[p].at = "intended" /\ ~past.relinked =>
        \A r \in Reaches : cmd[p].links[r] # None => net[r] # None /\ net[r].to = cmd[p].links[r].to

\* What it is about to write leads to something that is written with it or is there.
ClosedToWrite ==
    \A p \in Procs : cmd[p].at = "write" /\ ~past.relinked =>
        \A r \in Wanted(cmd[p].aoi) :
            net[r] # None /\ net[r].to \in Wanted(cmd[p].aoi) \union Intended \union {None}

ClosedIntent ==
    ~past.relinked =>
        \A r \in Intended : net[r] # None /\ net[r].to \in Intended \union {None}

\* A command that authors goes on by reading links, checking, writing or dying.
LEMMA AuthoringGoes ==
    ASSUME TypeOK, [Next]_vars, NEW q \in Procs, cmd[q].at \in Authoring, cmd'[q] # cmd[q]
    PROVE  AuthorReadNetwork(q) \/ AuthorCheck(q) \/ AuthorWrite(q) \/ Kill(q)
<1>1. PICK p \in Procs : Command(p) \/ Kill(p) BY DEF Next, vars
<1>2. ASSUME NEW x, Go(p, x) PROVE p = q BY <1>2, OneGoes
<1>3. CASE AuthorReadNetwork(p) BY <1>2, <1>3 DEF AuthorReadNetwork
<1>4. CASE AuthorCheck(p) BY <1>2, <1>4 DEF AuthorCheck
<1>5. CASE AuthorWrite(p) BY <1>2, <1>5 DEF AuthorWrite
<1>6. CASE Kill(p) BY <1>2, <1>6 DEF Kill
<1>7. CASE \E B \in BodyFiles : SeedBodies(p, B)
  BY <1>2, <1>7 DEF SeedBodies, Start, Resting, Authoring
<1>8. CASE \E f \in Networks : SeedNetwork(p, f)
  BY <1>2, <1>8 DEF SeedNetwork, Start, Resting, Authoring
<1>9. CASE \E l \in Lookups, k \in Contents : Stage(p, l, k)
  BY <1>2, <1>9 DEF Stage, StageAsk, Start, Resting, Authoring
<1>10. CASE \E aoi \in AOIs : AuthorStart(p, aoi)
  BY <1>2, <1>10 DEF AuthorStart, Start, Resting, Authoring
<1>11. CASE \E l \in Lookups : AuthorDefaults(p, l) BY <1>11 DEF AuthorDefaults
<1>12. CASE LoadNetwork(p) BY <1>2, <1>12 DEF LoadNetwork, Authoring
<1>13. CASE ReadNetwork(p) BY <1>2, <1>13 DEF ReadNetwork, Authoring
<1>14. CASE PutNetwork(p) \/ StageUpload(p) BY <1>2, <1>14 DEF PutNetwork, StageUpload, Authoring
<1>15. CASE PublishPolygon(p)
  <2>1. p = q BY <1>2, <1>15 DEF PublishPolygon
  <2>. QED BY <1>15, <2>1 DEF PublishPolygon, Authoring
<1>. QED
  BY <1>1, <1>3, <1>4, <1>5, <1>6, <1>7, <1>8, <1>9, <1>10, <1>11, <1>12, <1>13, <1>14, <1>15
  DEF Command

\* How a command comes to hold links, and how it comes to write.
LEMMA HowReading ==
    ASSUME TypeOK, [Next]_vars, NEW q \in Procs, cmd'[q].at = "intended", cmd'[q] # cmd[q]
    PROVE  cmd'[q].links = net /\ net' = net
<1>1. CASE cmd[q].at \in Authoring
  <2>1. CASE AuthorReadNetwork(q) BY <2>1, OneGoes DEF AuthorReadNetwork, db
  <2>2. CASE AuthorCheck(q)
    <3>1. cmd'[q] = IF Authorable(cmd[q].aoi, cmd[q].links)
                    THEN [at |-> "write", aoi |-> cmd[q].aoi] ELSE Resting
      BY <2>2, OneGoes DEF AuthorCheck
    <3>. QED BY <3>1 DEF Resting
  <2>3. CASE AuthorWrite(q) \/ Kill(q) BY <2>3, OneGoes DEF AuthorWrite, Kill, Resting
  <2>. QED BY <1>1, <2>1, <2>2, <2>3, AuthoringGoes
<1>2. CASE cmd[q].at \notin Authoring
  <2>1. AuthorStart(q, cmd'[q].aoi) BY <1>2, HowAuthoring DEF Authoring
  <2>2. cmd'[q] = [at |-> "network", aoi |-> cmd'[q].aoi] BY <2>1, OneGoes DEF AuthorStart
  <2>. QED BY <2>2
<1>. QED BY <1>1, <1>2

LEMMA HowWriting ==
    ASSUME TypeOK, [Next]_vars, NEW q \in Procs, cmd'[q].at = "write", cmd'[q] # cmd[q]
    PROVE  /\ cmd[q].at = "intended" /\ cmd'[q].aoi = cmd[q].aoi
           /\ Authorable(cmd[q].aoi, cmd[q].links)
           /\ net' = net /\ rows' = rows
<1>1. CASE cmd[q].at \in Authoring
  <2>1. CASE AuthorReadNetwork(q) BY <2>1, OneGoes DEF AuthorReadNetwork
  <2>2. CASE AuthorCheck(q)
    <3>1. cmd'[q] = IF Authorable(cmd[q].aoi, cmd[q].links)
                    THEN [at |-> "write", aoi |-> cmd[q].aoi] ELSE Resting
      BY <2>2, OneGoes DEF AuthorCheck
    <3>2. net' = net /\ rows' = rows /\ cmd[q].at = "intended" BY <2>2 DEF AuthorCheck, db
    <3>. QED BY <3>1, <3>2 DEF Resting
  <2>3. CASE AuthorWrite(q) \/ Kill(q) BY <2>3, OneGoes DEF AuthorWrite, Kill, Resting
  <2>. QED BY <1>1, <2>1, <2>2, <2>3, AuthoringGoes
<1>2. CASE cmd[q].at \notin Authoring
  <2>1. AuthorStart(q, cmd'[q].aoi) BY <1>2, HowAuthoring DEF Authoring
  <2>2. cmd'[q] = [at |-> "network", aoi |-> cmd'[q].aoi] BY <2>1, OneGoes DEF AuthorStart
  <2>. QED BY <2>2
<1>. QED BY <1>1, <1>2

LEMMA ClosedStep ==
    ASSUME TypeOK, LinksHold, ClosedToWrite, ClosedIntent, [Next]_vars
    PROVE  LinksHold' /\ ClosedToWrite' /\ ClosedIntent'
<1>1. Intended \subseteq Intended'
  <2>. SUFFICES ASSUME NEW r \in Reaches, rows[r] # None PROVE rows'[r] # None BY DEF Intended
  <2>1. ASSUME NEW p \in Procs, cmd[p].at = "write", r \in Wanted(cmd[p].aoi),
               rows'[r] = RowFor(r, cmd[p].aoi)
        PROVE  rows'[r] # None
    <3>1. cmd[p].aoi \in AOIs BY <2>1, AOIOfAuthoring DEF Authoring
    <3>. QED BY <2>1, <3>1, RowsAreLegal, IntakeAssumption
  <2>. QED BY <2>1, WhatStays
<1>2. LinksHold'
  <2>. SUFFICES ASSUME NEW p \in Procs, cmd'[p].at = "intended", ~past'.relinked,
                       NEW r \in Reaches, cmd'[p].links[r] # None
                PROVE  net'[r] # None /\ net'[r].to = cmd'[p].links[r].to
    BY DEF LinksHold
  <2>1. CASE cmd'[p] = cmd[p] BY <2>1, WhatStays DEF LinksHold
  <2>2. CASE cmd'[p] # cmd[p] BY <2>2, HowReading
  <2>. QED BY <2>1, <2>2
<1>3. ClosedToWrite'
  <2>. SUFFICES ASSUME NEW p \in Procs, cmd'[p].at = "write", ~past'.relinked,
                       NEW r \in Wanted(cmd'[p].aoi)
                PROVE  net'[r] # None /\ net'[r].to \in Wanted(cmd'[p].aoi) \union Intended' \union {None}
    BY DEF ClosedToWrite, Wanted, Own
  <2>0. ~past.relinked BY WhatStays
  <2>1. CASE cmd'[p] = cmd[p]
    <3>1. cmd[p].aoi \in AOIs BY <2>1, AOIOfAuthoring DEF Authoring
    <3>2. r \in Reaches BY <2>1, <3>1, WantedHaveFlows
    <3>3. net[r] # None /\ net[r].to \in Wanted(cmd[p].aoi) \union Intended \union {None}
      BY <2>0, <2>1 DEF ClosedToWrite
    <3>. QED BY <1>1, <2>1, <3>2, <3>3, WhatStays
  <2>2. CASE cmd'[p] # cmd[p]
    <3>1. /\ cmd[p].at = "intended" /\ cmd'[p].aoi = cmd[p].aoi
          /\ Authorable(cmd[p].aoi, cmd[p].links)
          /\ net' = net /\ rows' = rows
      BY <2>2, HowWriting
    <3>2. cmd[p].aoi \in AOIs BY <3>1, AOIOfAuthoring DEF Authoring
    <3>3. r \in Reaches /\ r \in Own(cmd[p].aoi) BY <3>1, <3>2, WantedHaveFlows DEF Wanted
    <3>4. cmd[p].links[r] # None BY <3>1, <3>3 DEF Authorable, Seeded
    <3>5. cmd[p].links[r].to \in Wanted(cmd[p].aoi) \union Intended \union {None}
      BY <3>1 DEF Authorable, Closed
    <3>6. net[r] # None /\ net[r].to = cmd[p].links[r].to BY <2>0, <3>1, <3>3, <3>4 DEF LinksHold
    <3>. QED BY <1>1, <3>1, <3>5, <3>6
  <2>. QED BY <2>1, <2>2
<1>4. ClosedIntent'
  <2>. SUFFICES ASSUME ~past'.relinked, NEW r \in Reaches, rows'[r] # None
                PROVE  net'[r] # None /\ net'[r].to \in Intended' \union {None}
    BY DEF ClosedIntent, Intended
  <2>0. ~past.relinked BY WhatStays
  <2>1. CASE rows'[r] = rows[r]
    <3>1. net[r] # None /\ net[r].to \in Intended \union {None}
      BY <2>0, <2>1 DEF ClosedIntent, Intended
    <3>. QED BY <1>1, <3>1, WhatStays
  <2>2. CASE rows'[r] # rows[r]
    <3>1. PICK p \in Procs : rows' # rows /\ AuthorWrite(p)
      <4>1. PICK p \in Procs : Command(p) \/ Kill(p) BY <2>2 DEF Next, vars
      <4>. QED
        BY <2>2, <4>1
        DEF Command, Kill, SeedBodies, PublishPolygon, SeedNetwork, LoadNetwork, ReadNetwork, PutNetwork,
            Stage, StageAsk, StageUpload, AuthorDefaults, AuthorStart, AuthorReadNetwork, AuthorCheck, db
    <3>2. r \in Wanted(cmd[p].aoi) /\ cmd[p].at = "write" /\ net' = net
      BY <2>2, <3>1 DEF AuthorWrite
    <3>3. net[r] # None /\ net[r].to \in Wanted(cmd[p].aoi) \union Intended \union {None}
      BY <2>0, <3>2 DEF ClosedToWrite
    <3>4. cmd[p].aoi \in AOIs BY <3>2, AOIOfAuthoring DEF Authoring
    <3>5. Wanted(cmd[p].aoi) \subseteq Intended'
      <4>. SUFFICES ASSUME NEW x \in Wanted(cmd[p].aoi) PROVE x \in Reaches /\ rows'[x] # None
        BY DEF Intended
      <4>1. x \in Reaches BY <3>4, WantedHaveFlows
      <4>2. rows'[x] = RowFor(x, cmd[p].aoi) BY <3>1, <4>1 DEF AuthorWrite
      <4>. QED BY <3>4, <4>1, <4>2, RowsAreLegal, IntakeAssumption
    <3>. QED BY <1>1, <3>2, <3>3, <3>5
  <2>. QED BY <2>1, <2>2
<1>. QED BY <1>2, <1>3, <1>4

\* Whoever authors and seeds at the same time, no reach with intent drains into one
\* without, as long as no seeding moves a link: what the check was made against is
\* still so when its rows are written.
THEOREM IntentStaysClosed == Spec => []IntentIsClosed
<1>1. Init => LinksHold /\ ClosedToWrite /\ ClosedIntent
  <2>. SUFFICES ASSUME Init PROVE LinksHold /\ ClosedToWrite /\ ClosedIntent OBVIOUS
  <2>1. \A p \in Procs : cmd[p].at = "resting" BY DEF Init, Resting
  <2>2. LinksHold /\ ClosedToWrite BY <2>1 DEF LinksHold, ClosedToWrite
  <2>3. ClosedIntent BY DEF Init, ClosedIntent, Intended
  <2>. QED BY <2>2, <2>3
<1>2. ClosedIntent => IntentIsClosed BY DEF ClosedIntent, IntentIsClosed
<1>. QED BY <1>1, <1>2, ClosedStep, IntakeTypesHold, PTL DEF Spec

-----------------------------------------------------------------------------
(* What is published *)

\* A copy on its way to storage is the table, unless another seeding overtook it.
CopiesAreCurrent ==
    \A p \in Procs : cmd[p].at = "put" => past.overtaken \/ cmd[p].copy = net

SeedingSettles == CopiesAreCurrent /\ PublishedIsCurrent

LEMMA PublishedStep == ASSUME TypeOK, SeedingSettles, [Next]_vars PROVE SeedingSettles'
<1>. USE DEF SeedingSettles, CopiesAreCurrent, PublishedIsCurrent, SeedsAtWork
<1>1. CASE UNCHANGED vars BY <1>1 DEF vars
<1>. SUFFICES ASSUME NEW p \in Procs, Command(p) \/ Kill(p) PROVE SeedingSettles'
  BY <1>1 DEF Next
<1>2. ~past'.overtaken => ~past.overtaken BY WhatStays
<1>3. past'.kills = 0 \/ past'.kills > 0 BY TypeStep, IntakeAssumption DEF TypeOK
<1>4. ASSUME NEW c, Go(p, c), c.at \notin {"readBack", "put"}, cmd[p].at \notin {"readBack", "put"},
             net' = net, parquet' = parquet, past'.kills = past.kills
      PROVE  SeedingSettles'
  <2>1. cmd'[p] = c /\ \A q \in Procs \ {p} : cmd'[q] = cmd[q] BY <1>4, OneGoes
  <2>2. \A q \in Procs : cmd[q].at \in {"readBack", "put"} => cmd'[q] = cmd[q] BY <1>4, <2>1
  <2>3. CopiesAreCurrent' BY <1>2, <1>4, <2>1
  <2>4. PublishedIsCurrent' BY <1>2, <1>4, <2>2
  <2>. QED BY <2>3, <2>4
<1>5. CASE \E B \in BodyFiles : SeedBodies(p, B)
  <2>1. past.commands < MaxCommands BY <1>5 DEF SeedBodies, Start
  <2>. QED BY <1>4, <1>5, <2>1, CountedTyped DEF SeedBodies, Start, Resting, storage
<1>6. CASE PublishPolygon(p)
  <2>1. cmd[p] \in [at: {"polygons"}, left: SUBSET WaterBodies]
    BY <1>6, CommandsByStep DEF PublishPolygon, TypeOK
  <2>2. \A X : [cmd[p] EXCEPT !.left = X].at = "polygons" BY <2>1
  <2>3. Resting.at = "resting" BY DEF Resting
  <2>. QED BY <1>4, <1>6, <2>2, <2>3 DEF PublishPolygon, db
<1>7. CASE \E f \in Networks : SeedNetwork(p, f)
  <2>1. past.commands < MaxCommands BY <1>7 DEF SeedNetwork, Start
  <2>. QED BY <1>4, <1>7, <2>1, CountedTyped DEF SeedNetwork, Start, Resting, storage, db
<1>8. CASE LoadNetwork(p)
  <2>1. cmd'[p].at = "readBack" /\ \A q \in Procs \ {p} : cmd'[q] = cmd[q]
    BY <1>8, OneGoes DEF LoadNetwork
  <2>2. (\E q \in Procs : cmd[q].at = "put") => past'.overtaken BY <1>8 DEF LoadNetwork, TypeOK
  <2>. QED BY <2>1, <2>2
<1>9. CASE ReadNetwork(p)
  <2>1. cmd'[p] = [at |-> "put", copy |-> net] /\ \A q \in Procs \ {p} : cmd'[q] = cmd[q]
    BY <1>9, OneGoes DEF ReadNetwork, ReadBack
  <2>2. net' = net BY <1>9 DEF ReadNetwork, db
  <2>. QED BY <1>2, <2>1, <2>2
<1>10. CASE PutNetwork(p)
  <2>1. cmd'[p] = Resting /\ \A q \in Procs \ {p} : cmd'[q] = cmd[q]
    BY <1>10, OneGoes DEF PutNetwork
  <2>2. net' = net /\ parquet' = cmd[p].copy /\ past' = past /\ cmd[p].at = "put"
    BY <1>10 DEF PutNetwork, db
  <2>3. Resting.at = "resting" BY DEF Resting
  <2>. QED BY <2>1, <2>2, <2>3
<1>11. CASE \E l \in Lookups, c \in Contents : Stage(p, l, c)
  <2>1. past.commands < MaxCommands BY <1>11 DEF Stage, StageAsk, Start
  <2>2. past'.kills = past.kills
    BY <1>11, <2>1, CountedTyped DEF Stage, StageAsk
  <2>. QED BY <1>4, <1>11, <2>2 DEF Stage, StageAsk, Start, Resting, storage, db
<1>12. CASE StageUpload(p)
  <2>1. past'.kills = past.kills BY <1>12 DEF StageUpload, TypeOK
  <2>. QED BY <1>4, <1>12, <2>1 DEF StageUpload, Resting, db
<1>13. CASE \E l \in Lookups : AuthorDefaults(p, l)
  <2>1. past.commands < MaxCommands BY <1>13 DEF AuthorDefaults, Start
  <2>2. past'.kills = past.kills /\ net' = net /\ parquet' = parquet /\ cmd' = cmd
    BY <1>13, <2>1, CountedTyped DEF AuthorDefaults, storage
  <2>. QED BY <1>2, <2>2
<1>14. CASE \E aoi \in AOIs : AuthorStart(p, aoi)
  <2>1. past.commands < MaxCommands BY <1>14 DEF AuthorStart, Start
  <2>. QED BY <1>4, <1>14, <2>1, CountedTyped DEF AuthorStart, Start, Resting, storage, db
<1>15. CASE AuthorReadNetwork(p) BY <1>4, <1>15 DEF AuthorReadNetwork, storage, db
<1>16. CASE AuthorCheck(p)
  <2>1. Go(p, [at |-> "write", aoi |-> cmd[p].aoi]) \/ Go(p, Resting) BY <1>16 DEF AuthorCheck
  <2>. QED BY <1>4, <1>16, <2>1 DEF AuthorCheck, Resting, storage, db
<1>17. CASE AuthorWrite(p) BY <1>4, <1>17 DEF AuthorWrite, Resting, storage
<1>18. CASE Kill(p)
  <2>1. past'.kills > 0 BY <1>18, IntakeAssumption DEF Kill, TypeOK
  <2>2. cmd'[p] = Resting /\ \A q \in Procs \ {p} : cmd'[q] = cmd[q] BY <1>18, OneGoes DEF Kill
  <2>3. net' = net /\ Resting.at = "resting" BY <1>18 DEF Kill, db, Resting
  <2>. QED BY <1>2, <2>1, <2>2, <2>3
<1>. QED
  BY <1>5, <1>6, <1>7, <1>8, <1>9, <1>10, <1>11, <1>12, <1>13, <1>14, <1>15, <1>16, <1>17, <1>18
  DEF Command

\* The network that jobs read is the database's, once no seeding is under way,
\* however many there were, unless one died or overtook another.
THEOREM PublishedNetworkIsCurrent == Spec => []PublishedIsCurrent
<1>1. Init => SeedingSettles
  BY DEF Init, Resting, SeedingSettles, CopiesAreCurrent, PublishedIsCurrent
<1>2. SeedingSettles => PublishedIsCurrent BY DEF SeedingSettles
<1>. QED BY <1>1, <1>2, PublishedStep, IntakeTypesHold, PTL DEF Spec

-----------------------------------------------------------------------------
(* Water bodies *)

\* A body is seeded before anything names it; unless a seeding is killed, its
\* polygon is in storage or on its way.
NamedAreSeeded ==
    /\ \A r \in Reaches : net[r] # None => net[r].body \in bodies \union {None}
    /\ \A p \in Procs : cmd[p].at = "load" => Named(cmd[p].file) \subseteq bodies

OnTheirWay ==
    past.kills = 0 =>
        \A b \in bodies :
            b \in polys \/ \E p \in Procs : cmd[p].at = "polygons" /\ b \in cmd[p].left

BodiesFirst == NamedAreSeeded /\ OnTheirWay

\* Cutting a file's links at its edge leaves the bodies they name.
LEMMA UpsertsName ==
    ASSUME NEW t, NEW f \in Networks, NEW r \in Reaches, Upserted(t, f)[r] # None
    PROVE  Upserted(t, f)[r].body \in Named(f) \union {None} \/ Upserted(t, f)[r] = t[r]
<1>1. CASE r \in DOMAIN f
  <2>1. Upserted(t, f)[r] = Clipped(f)[r] BY <1>1 DEF Upserted
  <2>2. Clipped(f)[r].body = f[r].body BY <1>1 DEF Clipped
  <2>. QED BY <1>1, <2>1, <2>2 DEF Named
<1>2. CASE r \notin DOMAIN f BY <1>2 DEF Upserted
<1>. QED BY <1>1, <1>2

LEMMA BodiesStep == ASSUME TypeOK, BodiesFirst, [Next]_vars PROVE BodiesFirst'
<1>. USE DEF BodiesFirst, NamedAreSeeded, OnTheirWay
<1>1. CASE UNCHANGED vars BY <1>1 DEF vars
<1>. SUFFICES ASSUME NEW p \in Procs, Command(p) \/ Kill(p) PROVE BodiesFirst'
  BY <1>1 DEF Next
<1>2. past'.kills = 0 => past.kills = 0 BY WhatStays
<1>3. ASSUME NEW c, Go(p, c), c.at \notin {"polygons", "load"}, cmd[p].at # "polygons",
             bodies' = bodies, polys' = polys, net' = net
      PROVE  BodiesFirst'
  <2>1. cmd'[p] = c /\ \A q \in Procs \ {p} : cmd'[q] = cmd[q] BY <1>3, OneGoes
  <2>2. NamedAreSeeded' BY <1>3, <2>1
  <2>3. \A q \in Procs : cmd[q].at = "polygons" => cmd'[q] = cmd[q] BY <1>3, <2>1
  <2>4. OnTheirWay' BY <1>2, <1>3, <2>3
  <2>. QED BY <2>2, <2>4
<1>4. CASE \E B \in BodyFiles : SeedBodies(p, B)
  <2>1. PICK B \in BodyFiles : SeedBodies(p, B) BY <1>4
  <2>2. cmd'[p] = [at |-> "polygons", left |-> B] /\ \A q \in Procs \ {p} : cmd'[q] = cmd[q]
    BY <2>1, OneGoes DEF SeedBodies
  <2>3. bodies' = bodies \union B /\ net' = net /\ polys' = polys /\ cmd[p].at = "resting"
    BY <2>1 DEF SeedBodies, Start, Resting, storage
  <2>4. cmd'[p].at = "polygons" /\ cmd'[p].left = B BY <2>2
  <2>5. NamedAreSeeded' BY <2>2, <2>3, <2>4
  <2>6. OnTheirWay'
    <3>. SUFFICES ASSUME past'.kills = 0, NEW b \in bodies'
                  PROVE  b \in polys' \/ \E q \in Procs : cmd'[q].at = "polygons" /\ b \in cmd'[q].left
      OBVIOUS
    <3>1. CASE b \in B BY <2>4, <3>1
    <3>2. CASE b \in bodies
      <4>1. b \in polys \/ \E q \in Procs : cmd[q].at = "polygons" /\ b \in cmd[q].left
        BY <1>2, <3>2
      <4>2. \A q \in Procs : cmd[q].at = "polygons" => cmd'[q] = cmd[q] BY <2>2, <2>3
      <4>. QED BY <2>3, <4>1, <4>2
    <3>. QED BY <2>3, <3>1, <3>2
  <2>. QED BY <2>5, <2>6
<1>5. CASE PublishPolygon(p)
  <2>1. cmd[p] \in [at: {"polygons"}, left: SUBSET WaterBodies]
    BY <1>5, CommandsByStep DEF PublishPolygon, TypeOK
  <2>2. PICK b \in cmd[p].left :
            /\ polys' = polys \union {b}
            /\ Go(p, IF Left(cmd[p].left, b) = {} THEN Resting
                     ELSE [cmd[p] EXCEPT !.left = Left(cmd[p].left, b)])
    BY <1>5 DEF PublishPolygon
  <2>3. /\ cmd'[p] = IF Left(cmd[p].left, b) = {} THEN Resting
                     ELSE [cmd[p] EXCEPT !.left = Left(cmd[p].left, b)]
        /\ \A q \in Procs \ {p} : cmd'[q] = cmd[q]
    BY <2>2, OneGoes
  <2>4. cmd[p].at = "polygons" /\ bodies' = bodies /\ net' = net BY <1>5 DEF PublishPolygon, db
  <2>5. \A X : [cmd[p] EXCEPT !.left = X].at = "polygons" /\ [cmd[p] EXCEPT !.left = X].left = X
    BY <2>1
  <2>6. cmd'[p].at # "load" BY <2>3, <2>5 DEF Resting
  <2>7. \A x \in cmd[p].left \ {b} : cmd'[p].at = "polygons" /\ x \in cmd'[p].left
    BY <2>3, <2>5 DEF Left
  <2>8. NamedAreSeeded' BY <2>3, <2>4, <2>6
  <2>9. OnTheirWay'
    <3>. SUFFICES ASSUME past'.kills = 0, NEW x \in bodies, x \notin polys'
                  PROVE  \E q \in Procs : cmd'[q].at = "polygons" /\ x \in cmd'[q].left
      BY <2>4
    <3>1. PICK q \in Procs : cmd[q].at = "polygons" /\ x \in cmd[q].left BY <1>2, <2>2
    <3>2. CASE q = p BY <2>2, <2>7, <3>1, <3>2
    <3>3. CASE q # p BY <2>3, <3>1, <3>3
    <3>. QED BY <3>2, <3>3
  <2>. QED BY <2>8, <2>9
<1>6. CASE \E f \in Networks : SeedNetwork(p, f)
  <2>1. PICK f \in Networks : SeedNetwork(p, f) BY <1>6
  <2>2. cmd'[p] = [at |-> "load", file |-> f] /\ \A q \in Procs \ {p} : cmd'[q] = cmd[q]
    BY <2>1, OneGoes DEF SeedNetwork
  <2>3. /\ bodies' = bodies /\ net' = net /\ polys' = polys /\ cmd[p].at = "resting"
        /\ Named(f) \subseteq bodies
    BY <2>1 DEF SeedNetwork, BodiesSeeded, Start, Resting, storage, db
  <2>4. NamedAreSeeded' BY <2>2, <2>3
  <2>5. \A q \in Procs : cmd[q].at = "polygons" => cmd'[q] = cmd[q] BY <2>2, <2>3
  <2>6. OnTheirWay' BY <1>2, <2>3, <2>5
  <2>. QED BY <2>4, <2>6
<1>7. CASE LoadNetwork(p)
  <2>. DEFINE f == cmd[p].file
  <2>1. f \in Networks BY <1>7, CommandsByStep DEF LoadNetwork, TypeOK
  <2>2. /\ net' = Upserted(net, f) /\ bodies' = bodies /\ polys' = polys
        /\ cmd[p].at = "load" /\ Named(f) \subseteq bodies
    BY <1>7 DEF LoadNetwork, storage
  <2>3. cmd'[p].at = "readBack" /\ \A q \in Procs \ {p} : cmd'[q] = cmd[q]
    BY <1>7, OneGoes DEF LoadNetwork
  <2>. HIDE DEF f
  <2>4. ASSUME NEW r \in Reaches, net'[r] # None PROVE net'[r].body \in bodies \union {None}
    BY <2>1, <2>2, <2>4, UpsertsName
  <2>5. \A q \in Procs : cmd'[q].at = "load" => Named(cmd'[q].file) \subseteq bodies' BY <2>2, <2>3
  <2>6. \A q \in Procs : cmd[q].at = "polygons" => cmd'[q] = cmd[q] BY <2>2, <2>3
  <2>7. OnTheirWay' BY <1>2, <2>2, <2>6
  <2>. QED BY <2>2, <2>4, <2>5, <2>7
<1>8. CASE ReadNetwork(p) BY <1>3, <1>8 DEF ReadNetwork, storage, db
<1>9. CASE PutNetwork(p) BY <1>3, <1>9 DEF PutNetwork, Resting, db
<1>10. CASE \E l \in Lookups, c \in Contents : Stage(p, l, c)
  BY <1>3, <1>10 DEF Stage, StageAsk, Start, Resting, storage, db
<1>11. CASE StageUpload(p) BY <1>3, <1>11 DEF StageUpload, Resting, db
<1>12. CASE \E l \in Lookups : AuthorDefaults(p, l) BY <1>2, <1>12 DEF AuthorDefaults, storage
<1>13. CASE \E aoi \in AOIs : AuthorStart(p, aoi)
  BY <1>3, <1>13 DEF AuthorStart, Start, Resting, storage, db
<1>14. CASE AuthorReadNetwork(p) BY <1>3, <1>14 DEF AuthorReadNetwork, storage, db
<1>15. CASE AuthorCheck(p)
  <2>1. Go(p, [at |-> "write", aoi |-> cmd[p].aoi]) \/ Go(p, Resting) BY <1>15 DEF AuthorCheck
  <2>. QED BY <1>3, <1>15, <2>1 DEF AuthorCheck, Resting, storage, db
<1>16. CASE AuthorWrite(p) BY <1>3, <1>16 DEF AuthorWrite, Resting, storage
<1>17. CASE Kill(p)
  <2>1. past'.kills > 0 BY <1>17, IntakeAssumption DEF Kill, TypeOK
  <2>2. cmd'[p] = Resting /\ \A q \in Procs \ {p} : cmd'[q] = cmd[q] BY <1>17, OneGoes DEF Kill
  <2>3. net' = net /\ bodies' = bodies /\ Resting.at = "resting" BY <1>17 DEF Kill, db, Resting
  <2>4. NamedAreSeeded' BY <2>2, <2>3
  <2>5. OnTheirWay' BY <2>1, IntakeAssumption, TypeStep DEF TypeOK
  <2>. QED BY <2>4, <2>5
<1>. QED
  BY <1>4, <1>5, <1>6, <1>7, <1>8, <1>9, <1>10, <1>11, <1>12, <1>13, <1>14, <1>15, <1>16, <1>17
  DEF Command

\* A reach that drains into a water body finds its polygon in storage, or on its
\* way there, whichever commands interleave, as long as no seeding was killed: a
\* network is only loaded after the bodies it names are, and no body goes again.
THEOREM OutflowsHavePolygons == Spec => []OutflowsArePublished
<1>1. Init => BodiesFirst
  BY DEF Init, Resting, BodiesFirst, NamedAreSeeded, OnTheirWay
<1>2. BodiesFirst => OutflowsArePublished
  BY DEF BodiesFirst, NamedAreSeeded, OnTheirWay, OutflowsArePublished
<1>. QED BY <1>1, <1>2, BodiesStep, IntakeTypesHold, PTL DEF Spec

-----------------------------------------------------------------------------
(* What is staged *)

\* What is about to be uploaded replaces nothing else.
UploadsReplaceNothing ==
    \A p \in Procs : cmd[p].at = "upload" =>
        \/ lookups[cmd[p].lookup] \in {None, cmd[p].content}
        \/ past.raced \/ past.faults > 0

LEMMA HowUploading ==
    ASSUME TypeOK, [Next]_vars, NEW q \in Procs, cmd'[q].at = "upload", cmd'[q] # cmd[q]
    PROVE  \E l \in Lookups, c \in Contents :
               Stage(q, l, c) /\ cmd'[q] = [at |-> "upload", lookup |-> l, content |-> c]
<1>1. PICK p \in Procs : Command(p) \/ Kill(p) BY DEF Next, vars
<1>2. ASSUME NEW x, Go(p, x) PROVE p = q /\ cmd'[q] = x BY <1>2, OneGoes
<1>3. Resting.at = "resting" BY DEF Resting
<1>4. CASE \E l \in Lookups, c \in Contents : Stage(p, l, c) BY <1>2, <1>4 DEF Stage, StageAsk
<1>5. CASE PublishPolygon(p)
  <2>1. cmd[p] \in [at: {"polygons"}, left: SUBSET WaterBodies]
    BY <1>5, CommandsByStep DEF PublishPolygon, TypeOK
  <2>2. \A X : [cmd[p] EXCEPT !.left = X].at = "polygons" BY <2>1
  <2>. QED BY <1>2, <1>3, <1>5, <2>2 DEF PublishPolygon
<1>6. CASE AuthorCheck(p)
  <2>1. Go(p, [at |-> "write", aoi |-> cmd[p].aoi]) \/ Go(p, Resting) BY <1>6 DEF AuthorCheck
  <2>. QED BY <1>2, <1>3, <2>1
<1>7. CASE \E B \in BodyFiles : SeedBodies(p, B) BY <1>2, <1>7 DEF SeedBodies
<1>8. CASE \E f \in Networks : SeedNetwork(p, f) BY <1>2, <1>8 DEF SeedNetwork
<1>9. CASE LoadNetwork(p) BY <1>2, <1>9 DEF LoadNetwork
<1>10. CASE ReadNetwork(p) BY <1>2, <1>10 DEF ReadNetwork
<1>11. CASE PutNetwork(p) \/ StageUpload(p) BY <1>2, <1>3, <1>11 DEF PutNetwork, StageUpload
<1>12. CASE \E l \in Lookups : AuthorDefaults(p, l) BY <1>12 DEF AuthorDefaults
<1>13. CASE \E aoi \in AOIs : AuthorStart(p, aoi) BY <1>2, <1>13 DEF AuthorStart
<1>14. CASE AuthorReadNetwork(p) BY <1>2, <1>14 DEF AuthorReadNetwork
<1>15. CASE AuthorWrite(p) \/ Kill(p) BY <1>2, <1>3, <1>15 DEF AuthorWrite, Kill
<1>. QED
  BY <1>1, <1>4, <1>5, <1>6, <1>7, <1>8, <1>9, <1>10, <1>11, <1>12, <1>13, <1>14, <1>15 DEF Command

\* Storage changes a lookup only by an upload.
LEMMA HowStaged ==
    ASSUME TypeOK, [Next]_vars, lookups' # lookups
    PROVE  \E p \in Procs : StageUpload(p)
BY DEF Next, vars, Command, Kill, SeedBodies, PublishPolygon, SeedNetwork, LoadNetwork, ReadNetwork, PutNetwork,
       Stage, StageAsk, AuthorDefaults, AuthorStart, AuthorReadNetwork, AuthorCheck, AuthorWrite, storage, db

LEMMA StagedStep ==
    ASSUME TypeOK, UploadsReplaceNothing, [Next]_vars
    PROVE  /\ UploadsReplaceNothing'
           /\ \A l \in Lookups : lookups[l] # None =>
                 lookups'[l] = lookups[l] \/ past'.raced \/ past'.faults > 0
<1>1. ASSUME NEW p \in Procs, StageUpload(p)
      PROVE  /\ cmd[p].at = "upload" /\ cmd[p].lookup \in Lookups
             /\ lookups' = [lookups EXCEPT ![cmd[p].lookup] = cmd[p].content]
             /\ cmd'[p].at # "upload"
             /\ \A q \in Procs \ {p} : /\ cmd'[q] = cmd[q]
                                       /\ cmd[q].at = "upload" /\ cmd[q].lookup = cmd[p].lookup => past'.raced
  <2>1. cmd[p].lookup \in Lookups BY <1>1, CommandsByStep DEF StageUpload, TypeOK
  <2>2. cmd'[p] = Resting /\ \A q \in Procs \ {p} : cmd'[q] = cmd[q] BY <1>1, OneGoes DEF StageUpload
  <2>3. \A q \in Procs \ {p} : cmd[q].at = "upload" /\ cmd[q].lookup = cmd[p].lookup => past'.raced
    BY <1>1 DEF StageUpload, TypeOK
  <2>. QED BY <1>1, <2>1, <2>2, <2>3 DEF StageUpload, Resting
<1>2. UploadsReplaceNothing'
  <2>. SUFFICES ASSUME NEW q \in Procs, cmd'[q].at = "upload", ~past'.raced, ~(past'.faults > 0)
                PROVE  lookups'[cmd'[q].lookup] \in {None, cmd'[q].content}
    BY DEF UploadsReplaceNothing
  <2>1. CASE cmd'[q] = cmd[q]
    <3>1. lookups[cmd[q].lookup] \in {None, cmd[q].content}
      BY <2>1, WhatStays DEF UploadsReplaceNothing
    <3>2. CASE lookups' = lookups BY <2>1, <3>1, <3>2
    <3>3. CASE lookups' # lookups
      <4>1. PICK p \in Procs : StageUpload(p) BY <3>3, HowStaged
      <4>2. p # q BY <1>1, <4>1
      <4>3. cmd[q].lookup # cmd[p].lookup BY <1>1, <2>1, <4>1, <4>2
      <4>4. cmd[q].lookup \in Lookups BY <2>1, CommandsByStep DEF TypeOK
      <4>5. lookups'[cmd[q].lookup] = lookups[cmd[q].lookup] BY <1>1, <4>1, <4>3, <4>4 DEF TypeOK
      <4>. QED BY <2>1, <3>1, <4>5
    <3>. QED BY <3>2, <3>3
  <2>2. CASE cmd'[q] # cmd[q]
    <3>1. PICK l \in Lookups, c \in Contents :
              Stage(q, l, c) /\ cmd'[q] = [at |-> "upload", lookup |-> l, content |-> c]
      BY <2>2, HowUploading
    <3>2. lookups' = lookups BY <3>1 DEF Stage, StageAsk, storage
    <3>3. CASE lookups[l] = None BY <3>1, <3>2, <3>3
    <3>4. CASE past' = [Counted EXCEPT !.faults = @ + 1]
      <4>1. past.commands < MaxCommands BY <3>1 DEF Stage, StageAsk, Start
      <4>2. past'.faults > 0 BY <3>4, <4>1, CountedTyped, IntakeAssumption DEF TypeOK
      <4>. QED BY <4>2
    <3>. QED BY <3>1, <3>3, <3>4 DEF Stage, StageAsk
  <2>. QED BY <2>1, <2>2
<1>3. ASSUME NEW l \in Lookups, lookups[l] # None, ~past'.raced, ~(past'.faults > 0)
      PROVE  lookups'[l] = lookups[l]
  <2>1. CASE lookups' = lookups BY <2>1
  <2>2. CASE lookups' # lookups
    <3>1. PICK p \in Procs : StageUpload(p) BY <2>2, HowStaged
    <3>2. lookups[cmd[p].lookup] \in {None, cmd[p].content}
      BY <1>1, <1>3, <3>1, WhatStays DEF UploadsReplaceNothing
    <3>. QED BY <1>1, <1>3, <3>1, <3>2 DEF TypeOK
  <2>. QED BY <2>1, <2>2
<1>. QED BY <1>2, <1>3

\* Source data is never replaced by something else, unless two people stage under
\* one name at once or storage fails to answer.
THEOREM SourceDataIsKept == Spec => StagedIsKept
<1>1. Init => UploadsReplaceNothing BY DEF Init, Resting, UploadsReplaceNothing
<1>2. TypeOK /\ UploadsReplaceNothing /\ [Next]_vars =>
          /\ UploadsReplaceNothing'
          /\ [\A l \in Lookups : lookups[l] # None =>
                 lookups'[l] = lookups[l] \/ past'.raced \/ past'.faults > 0]_vars
  BY StagedStep
<1>. QED BY <1>1, <1>2, IntakeTypesHold, PTL DEF Spec, StagedIsKept
=============================================================================
