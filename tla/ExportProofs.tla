---------------------------- MODULE ExportProofs ----------------------------
(***************************************************************************)
(* Proofs about Export, for any network that drains, any tables and any     *)
(* number of checks, losses and kills.                                      *)
(***************************************************************************)
EXTENDS Export, TLAPS

-----------------------------------------------------------------------------
(* Steps and out-dirs *)

\* What a step has at hand where it stands.
LEMMA StepsByPlace ==
    ASSUME NEW s, IsStep(s)
    PROVE  /\ s.at = "kwse" => s \in [at: {"kwse"}, scenarios: Exports, nd: Rows]
           /\ s.at \in {"links", "models"} =>
                 s \in [at: {"links", "models"}, scenarios: Exports, nd: Rows, kw: Rows]
           /\ s.at \in {"tables", "rows", "starts", "layers"} =>
                 s \in [at: {"tables", "rows", "starts", "layers"}, scenarios: Exports,
                        models: SUBSET (Reaches \X Models), read: Rows \X Rows]
           /\ s.at \in {"place", "mark"} => s \in [at: {"place", "mark"}, left: Exports, missing: Exports]
           /\ s.at = "forecast" => s \in [at: {"forecast"}, usable: Exports]
           /\ s.at = "controls" => s \in [at: {"controls"}, usable: Exports, rows: SUBSET Reaches]
           /\ s.at = "fim" => s \in [at: {"fim"}, controls: Exports]
<1>1. CASE s = Resting BY <1>1 DEF Resting
<1>2. CASE s \in [at: {"nd"}] BY <1>2
<1>3. CASE s \in [at: {"kwse"}, scenarios: Exports, nd: Rows] BY <1>3
<1>4. CASE s \in [at: {"links", "models"}, scenarios: Exports, nd: Rows, kw: Rows] BY <1>4
<1>5. CASE s \in [at: {"tables", "rows", "starts", "layers"}, scenarios: Exports,
                  models: SUBSET (Reaches \X Models), read: Rows \X Rows]
  BY <1>5
<1>6. CASE s \in [at: {"place", "mark"}, left: Exports, missing: Exports] BY <1>6
<1>7. CASE s \in [at: {"forecast"}, usable: Exports] BY <1>7
<1>8. CASE s \in [at: {"controls"}, usable: Exports, rows: SUBSET Reaches] BY <1>8
<1>9. CASE s \in [at: {"fim"}, controls: Exports] BY <1>9
<1>. QED BY <1>1, <1>2, <1>3, <1>4, <1>5, <1>6, <1>7, <1>8, <1>9 DEF IsStep

\* A table's rows are scenarios of the reaches in scope that have one.
LEMMA RowsAreScenarios ==
    ASSUME NEW rows \in Rows, NEW bc \in {"nd", "kwse"}
    PROVE  /\ RowsOf(rows, bc) \in Exports
           /\ \A s \in RowsOf(rows, bc) :
                 /\ s.reach \in Reaches /\ s.bc = bc
                 /\ s.model = rows[s.reach] /\ rows[s.reach] # None /\ rows[s.reach] \in Models
<1>1. ASSUME NEW r \in Own, rows[r] # None
      PROVE  /\ [reach |-> r, bc |-> bc, model |-> rows[r]] \in Scenarios
             /\ r \in Reaches /\ rows[r] \in Models
  <2>1. r \in Reaches BY ExportAssumption
  <2>2. rows[r] \in Models BY <1>1, <2>1 DEF Rows
  <2>. QED BY <2>1, <2>2 DEF Scenarios
<1>2. ASSUME NEW s \in RowsOf(rows, bc)
      PROVE  /\ s \in Scenarios /\ s.reach \in Reaches /\ s.bc = bc
             /\ s.model = rows[s.reach] /\ rows[s.reach] # None /\ rows[s.reach] \in Models
  <2>1. PICK r \in Own : rows[r] # None /\ s = [reach |-> r, bc |-> bc, model |-> rows[r]]
    BY DEF RowsOf
  <2>. QED BY <1>1, <2>1
<1>. QED BY <1>2 DEF Exports

\* The reaches of scenarios are reaches, and their links stay among them.
LEMMA NetworksAreLinks ==
    ASSUME NEW S \in Exports
    PROVE  /\ ReachesOf(S) \subseteq Reaches
           /\ NetworkOf(ReachesOf(S)) \in SUBSET (Reaches \X (Reaches \union {None}))
           /\ StartsOf(NetworkOf(ReachesOf(S))) \subseteq Reaches
<1>1. ReachesOf(S) \subseteq Reaches BY DEF ReachesOf, Exports, Scenarios
<1>2. NetworkOf(ReachesOf(S)) \in SUBSET (Reaches \X (Reaches \union {None}))
  BY <1>1, ExportAssumption DEF NetworkOf
<1>3. StartsOf(NetworkOf(ReachesOf(S))) \subseteq Reaches BY <1>2 DEF StartsOf
<1>. QED BY <1>1, <1>2, <1>3

\* An empty out-dir.
LEMMA NewOuts ==
    ASSUME NEW s \in BOOLEAN
    PROVE  /\ NewOut(s) \in Outs /\ NewOut(s).db = "absent" /\ NewOut(s).absent = {}
           /\ NewOut(s).starts = None /\ NewOut(s).library = {} /\ NewOut(s).scenarios = {}
           /\ NewOut(s).finished = FALSE /\ NewOut(s).maps = None
BY DEF NewOut, Outs, Exports

-----------------------------------------------------------------------------
(* The step that runs and the out-dir it writes to *)

Filling   == {"nd", "kwse", "links", "models", "tables", "rows"}
Finishing == {"starts", "layers", "place", "mark", "forecast", "controls", "fim"}

\* An out-dir is full only once a scenarios step has got that far, and whatever is
\* to be placed, is in the library or is known to be missing.
Placing ==
    /\ step.at \in Filling => out.db # "full"
    /\ step.at \in Finishing => out.db = "full"
    /\ step.at = "starts" => out.scenarios = step.scenarios
    /\ step.at \in {"place", "mark"} =>
          /\ step.left \subseteq out.scenarios /\ step.missing \subseteq out.scenarios
          /\ out.scenarios \subseteq step.left \union step.missing \union out.library
    /\ step.at = "mark" => step.left = {}

\* What the files of an out-dir say belongs together.
Files ==
    /\ out.absent \subseteq out.scenarios /\ out.library \subseteq out.scenarios
    /\ out.db # "full" =>
          /\ out.starts = None /\ out.library = {} /\ out.absent = {}
          /\ ~out.finished /\ out.maps = None
    /\ out.db = "full" => out.network = NetworkOf(ReachesOf(out.scenarios))
    /\ out.starts # None => out.starts = StartsOf(out.network)
    /\ FinishedLibraryIsUsable

Typed == out \in Outs /\ IsStep(step) /\ nd \in Rows /\ kw \in Rows

\* A scenarios step reads and writes nothing but its own scenarios and files.
LEMMA ExportStep ==
    ASSUME Typed, Placing, Files, Export
    PROVE  /\ out' \in Outs /\ IsStep(step') /\ Placing' /\ Files'
           /\ out.db = "full" => out'.scenarios = out.scenarios
<1>. USE DEF Typed, Filling, Finishing
<1>. DEFINE Kept == /\ out' \in Outs /\ IsStep(step') /\ Placing' /\ Files'
                    /\ out.db = "full" => out'.scenarios = out.scenarios
<1>0. ASSUME out' = out, IsStep(step'), step'.at \in {"resting"} \union Filling,
             step.at \in Filling \/ out.db # "full" \/ step'.at = "resting"
      PROVE  Kept
  <2>1. Files' BY <1>0 DEF Files, FinishedLibraryIsUsable, Usable
  <2>2. Placing' BY <1>0 DEF Placing
  <2>. QED BY <1>0, <2>1, <2>2
<1>1. Resting.at = "resting" /\ IsStep(Resting) BY DEF Resting, IsStep
<1>2. CASE StartScenarios
  <2>1. step' = [at |-> "nd"] /\ out' = out /\ out.db = "absent" BY <1>2 DEF StartScenarios, Go, IsEmpty
  <2>2. IsStep(step') BY <2>1 DEF IsStep
  <2>. QED BY <1>0, <2>1, <2>2
<1>3. CASE QueryNd
  <2>1. /\ step' = [at |-> "kwse", scenarios |-> RowsOf(nd, "nd"), nd |-> nd]
        /\ out' = out /\ step.at = "nd"
    BY <1>3 DEF QueryNd, Go
  <2>2. IsStep(step') BY <2>1, RowsAreScenarios DEF IsStep
  <2>. QED BY <1>0, <2>1, <2>2
<1>4. CASE RefuseNd BY <1>0, <1>1, <1>4 DEF RefuseNd, Go
<1>5. CASE QueryKwse
  <2>. DEFINE found == step.scenarios \union RowsOf(kw, "kwse")
              x == [at |-> "links", scenarios |-> found, nd |-> step.nd, kw |-> kw]
  <2>1. (step' = Resting \/ step' = x) /\ out' = out /\ step.at = "kwse"
    BY <1>5 DEF QueryKwse, Go
  <2>2. step.scenarios \in Exports /\ step.nd \in Rows BY <2>1, StepsByPlace
  <2>3. found \in Exports BY <2>2, RowsAreScenarios DEF Exports
  <2>4. IsStep(x) BY <2>2, <2>3 DEF IsStep
  <2>. QED BY <1>0, <1>1, <2>1, <2>4
<1>6. CASE QueryLinks
  <2>1. step' = [step EXCEPT !.at = "models"] /\ out' = out /\ step.at = "links"
    BY <1>6 DEF QueryLinks, Go
  <2>2. step' \in [at: {"links", "models"}, scenarios: Exports, nd: Rows, kw: Rows] /\ step'.at = "models"
    BY <2>1, StepsByPlace
  <2>. QED BY <1>0, <2>1, <2>2 DEF IsStep
<1>7. CASE QueryModels
  <2>. DEFINE exported == ReachesOf(step.scenarios)
              m == {<<r, ModelOf(r)>> : r \in exported} \ (exported \X {None})
  <2>1. /\ step' = [at |-> IF out.inStorage THEN "rows" ELSE "tables", scenarios |-> step.scenarios,
                    models |-> m, read |-> <<step.nd, step.kw>>]
        /\ out' = out /\ step.at = "models"
    BY <1>7 DEF QueryModels, Go
  <2>2. step.scenarios \in Exports /\ step.nd \in Rows /\ step.kw \in Rows BY <2>1, StepsByPlace
  <2>3. m \in SUBSET (Reaches \X Models)
    <3>. SUFFICES ASSUME NEW r \in exported, ModelOf(r) # None PROVE r \in Reaches /\ ModelOf(r) \in Models
      OBVIOUS
    <3>1. r \in Reaches BY <2>2, NetworksAreLinks
    <3>. QED BY <3>1 DEF ModelOf, Rows
  <2>4. <<step.nd, step.kw>> \in Rows \X Rows BY <2>2
  <2>. HIDE DEF m
  <2>5. IsStep(step') /\ step'.at \in Filling
    <3>1. CASE out.inStorage BY <2>1, <2>2, <2>3, <2>4, <3>1 DEF IsStep
    <3>2. CASE ~out.inStorage BY <2>1, <2>2, <2>3, <2>4, <3>2 DEF IsStep
    <3>. QED BY <3>1, <3>2
  <2>. QED BY <1>0, <2>1, <2>5
<1>8. CASE WriteTables
  <2>1. out' = [out EXCEPT !.db = "tables"] /\ step' = [step EXCEPT !.at = "rows"] /\ step.at = "tables"
    BY <1>8 DEF WriteTables, Go
  <2>2. IsStep(step') /\ step'.at = "rows" BY <2>1, StepsByPlace DEF IsStep
  <2>3. out.db # "full" BY <2>1 DEF Placing
  <2>4. /\ out' \in Outs /\ out'.db = "tables" /\ out'.scenarios = out.scenarios
        /\ out'.absent = out.absent /\ out'.starts = out.starts /\ out'.library = out.library
        /\ out'.finished = out.finished /\ out'.maps = out.maps
    BY <2>1 DEF Outs
  <2>5. Placing' BY <2>2, <2>4 DEF Placing
  <2>6. Files' BY <2>3, <2>4 DEF Files, FinishedLibraryIsUsable
  <2>. QED BY <2>2, <2>3, <2>4, <2>5, <2>6
<1>9. CASE WriteRows
  <2>. DEFINE L == NetworkOf(ReachesOf(step.scenarios))
  <2>1. /\ out' = [out EXCEPT !.db = "full", !.scenarios = step.scenarios, !.network = L]
        /\ step' = [step EXCEPT !.at = "starts"] /\ step.at = "rows"
    BY <1>9 DEF WriteRows, Go
  <2>2. /\ IsStep(step') /\ step'.at = "starts" /\ step'.scenarios = step.scenarios
        /\ step.scenarios \in Exports
    BY <2>1, StepsByPlace DEF IsStep
  <2>3. out.db # "full" BY <2>1 DEF Placing
  <2>4. L \in SUBSET (Reaches \X (Reaches \union {None})) BY <2>2, NetworksAreLinks
  <2>. HIDE DEF L
  <2>5. /\ out' \in Outs /\ out'.db = "full" /\ out'.scenarios = step.scenarios /\ out'.network = L
        /\ out'.absent = out.absent /\ out'.starts = out.starts /\ out'.library = out.library
        /\ out'.finished = out.finished /\ out'.maps = out.maps
    BY <2>1, <2>2, <2>4 DEF Outs
  <2>6. Placing' BY <2>2, <2>5 DEF Placing
  <2>7. Files' BY <2>3, <2>5 DEF L, Files, FinishedLibraryIsUsable
  <2>. QED BY <2>2, <2>3, <2>5, <2>6, <2>7
<1>10. CASE WriteStarts
  <2>. DEFINE R == StartsOf(NetworkOf(ReachesOf(step.scenarios)))
  <2>1. out' = [out EXCEPT !.starts = R] /\ step' = [step EXCEPT !.at = "layers"] /\ step.at = "starts"
    BY <1>10 DEF WriteStarts, Go
  <2>2. IsStep(step') /\ step'.at = "layers" /\ step.scenarios \in Exports
    BY <2>1, StepsByPlace DEF IsStep
  <2>3. out.db = "full" /\ step.scenarios = out.scenarios BY <2>1 DEF Placing
  <2>4. R \in SUBSET Reaches BY <2>2, NetworksAreLinks
  <2>6. R = StartsOf(out.network) BY <2>3 DEF Files
  <2>. HIDE DEF R
  <2>5. /\ out' \in Outs /\ out'.db = "full" /\ out'.scenarios = out.scenarios /\ out'.network = out.network
        /\ out'.absent = out.absent /\ out'.starts = R /\ out'.library = out.library
        /\ out'.finished = out.finished /\ out'.maps = out.maps
    BY <2>1, <2>3, <2>4 DEF Outs
  <2>7. Placing' BY <2>2, <2>5 DEF Placing
  <2>8. Files' BY <2>3, <2>5, <2>6 DEF Files, FinishedLibraryIsUsable, Usable
  <2>. QED BY <2>2, <2>5, <2>7, <2>8
<1>11. CASE WriteLayers BY <1>0, <1>1, <1>11 DEF WriteLayers, Go
<1>. QED
  BY <1>2, <1>3, <1>4, <1>5, <1>6, <1>7, <1>8, <1>9, <1>10, <1>11 DEF Export

\* A library step leaves the scenarios as they are, and does not finish before each
\* of them is in the library or marked.
LEMMA LibraryStep ==
    ASSUME Typed, Placing, Files, Library
    PROVE  /\ out' \in Outs /\ IsStep(step') /\ Placing' /\ Files'
           /\ out'.scenarios = out.scenarios
<1>. USE DEF Typed, Filling, Finishing
<1>1. Resting.at = "resting" /\ IsStep(Resting) BY DEF Resting, IsStep
<1>2. CASE StartLibrary
  <2>1. /\ step' = [at |-> "place", left |-> out.scenarios, missing |-> {}]
        /\ out' = out /\ out.db = "full"
    BY <1>2 DEF StartLibrary, Go
  <2>2. out.scenarios \in Exports BY DEF Outs
  <2>3. {} \in Exports BY DEF Exports
  <2>4. IsStep(step') BY <2>1, <2>2, <2>3 DEF IsStep
  <2>5. Placing' BY <2>1 DEF Placing
  <2>6. Files' BY <2>1 DEF Files, FinishedLibraryIsUsable, Usable
  <2>. QED BY <2>1, <2>4, <2>5, <2>6
<1>3. CASE \E s \in Scenarios : Place(s)
  <2>1. PICK s \in Scenarios : Place(s) BY <1>3
  <2>. DEFINE l == IF Copies(s) THEN out.library \union {s} ELSE out.library
              b == out.opened \/ ~out.inStorage \/ Copies(s)
              m == IF Misses(s) THEN step.missing \union {s} ELSE step.missing
              a == IF step.left = {s} THEN "mark" ELSE "place"
  <2>2. /\ out' = [out EXCEPT !.library = l, !.opened = b]
        /\ step' = [step EXCEPT !.left = step.left \ {s}, !.missing = m, !.at = a]
        /\ step.at = "place" /\ s \in step.left
    BY <2>1 DEF Place, Go
  <2>3. step \in [at: {"place", "mark"}, left: Exports, missing: Exports] BY <2>2, StepsByPlace
  <2>4. l \in Exports /\ m \in Exports /\ step.left \ {s} \in Exports BY <2>3 DEF Outs, Exports
  <2>5. b \in BOOLEAN BY DEF Outs, Copies, Placed
  <2>6. a \in {"place", "mark"} /\ (a = "mark" => step.left \ {s} = {}) OBVIOUS
  <2>7. /\ out.library \subseteq l /\ l \subseteq out.library \union {s}
        /\ step.missing \subseteq m /\ m \subseteq step.missing \union {s}
        /\ s \in l \union m
    BY DEF Copies, Misses, Placed
  <2>. HIDE DEF l, b, m, a
  <2>8. /\ step' \in [at: {"place", "mark"}, left: Exports, missing: Exports]
        /\ step'.at = a /\ step'.left = step.left \ {s} /\ step'.missing = m
    BY <2>2, <2>3, <2>4, <2>6
  <2>9. /\ out' \in Outs /\ out'.db = out.db /\ out'.scenarios = out.scenarios /\ out'.network = out.network
        /\ out'.absent = out.absent /\ out'.starts = out.starts /\ out'.library = l
        /\ out'.finished = out.finished /\ out'.maps = out.maps
    BY <2>2, <2>4, <2>5 DEF Outs
  <2>10. /\ out.db = "full" /\ step.left \subseteq out.scenarios /\ step.missing \subseteq out.scenarios
         /\ out.scenarios \subseteq step.left \union step.missing \union out.library
    BY <2>2 DEF Placing
  <2>11. Placing' BY <2>2, <2>6, <2>7, <2>8, <2>9, <2>10 DEF Placing
  <2>12. Files'
    BY <2>2, <2>7, <2>9, <2>10 DEF Files, FinishedLibraryIsUsable, Usable
  <2>. QED BY <2>8, <2>9, <2>11, <2>12 DEF IsStep
<1>4. CASE MarkMissing
  <2>1. out' = [out EXCEPT !.absent = Marked(step.missing), !.finished = TRUE] /\ step' = Resting
        /\ step.at = "mark"
    BY <1>4 DEF MarkMissing, Go
  <2>2. step.missing \in Exports BY <2>1, StepsByPlace
  <2>3. Marked(step.missing) \in Exports BY <2>2 DEF Marked, Outs, Exports
  <2>4. /\ out' \in Outs /\ out'.db = out.db /\ out'.scenarios = out.scenarios /\ out'.network = out.network
        /\ out'.absent = Marked(step.missing) /\ out'.starts = out.starts /\ out'.library = out.library
        /\ out'.finished = TRUE /\ out'.maps = out.maps
    BY <2>1, <2>3 DEF Outs
  <2>5. /\ out.db = "full" /\ step.missing \subseteq out.scenarios
        /\ out.scenarios \subseteq step.missing \union out.library
    BY <2>1 DEF Placing
  <2>6. Placing' BY <1>1, <2>1 DEF Placing
  <2>7. Files'
    BY <2>4, <2>5 DEF Files, FinishedLibraryIsUsable, Usable, Marked
  <2>. QED BY <1>1, <2>1, <2>4, <2>6, <2>7
<1>. QED BY <1>2, <1>3, <1>4 DEF Library

\* A mapping step writes nothing but its maps, which it cuts down to the forecast.
LEMMA AepStep ==
    ASSUME Typed, Placing, Files, Aep
    PROVE  /\ out' \in Outs /\ IsStep(step') /\ Placing' /\ Files'
           /\ out'.scenarios = out.scenarios
<1>. USE DEF Typed, Filling, Finishing
<1>. DEFINE Kept == /\ out' \in Outs /\ IsStep(step') /\ Placing' /\ Files'
                    /\ out'.scenarios = out.scenarios
<1>1. Resting.at = "resting" /\ IsStep(Resting) BY DEF Resting, IsStep
<1>2. Usable \in Exports BY DEF Usable, Outs, Exports
<1>3. ASSUME out' = out PROVE Files' /\ out' \in Outs /\ out'.scenarios = out.scenarios
  BY <1>3 DEF Files, FinishedLibraryIsUsable, Usable
<1>4. ASSUME NEW S \in Exports, out' = [out EXCEPT !.maps = S],
             out.db = "full", step' = Resting
      PROVE  Kept
  <2>1. /\ out' \in Outs /\ out'.db = out.db /\ out'.scenarios = out.scenarios /\ out'.network = out.network
        /\ out'.absent = out.absent /\ out'.starts = out.starts /\ out'.library = out.library
        /\ out'.finished = out.finished /\ out'.maps = S
    BY <1>4 DEF Outs
  <2>2. Placing' BY <1>1, <1>4 DEF Placing
  <2>3. Files' BY <1>4, <2>1 DEF Files, FinishedLibraryIsUsable, Usable
  <2>. QED BY <1>1, <1>4, <2>1, <2>2, <2>3
<1>5. CASE StartAep
  <2>1. step' = [at |-> "forecast", usable |-> Usable] /\ out' = out /\ out.db = "full"
    BY <1>5 DEF StartAep, Go
  <2>2. IsStep(step') BY <1>2, <2>1 DEF IsStep
  <2>3. Placing' BY <2>1 DEF Placing
  <2>. QED BY <1>3, <2>1, <2>2, <2>3
<1>6. CASE Forecast
  <2>. DEFINE rows == ReachesOf(step.usable) \intersect WithFlows
  <2>1. step.at = "forecast" /\ out.db = "full" BY <1>6 DEF Forecast, Placing
  <2>2. step.usable \in Exports BY <2>1, StepsByPlace
  <2>3. rows \in SUBSET Reaches BY <2>2, NetworksAreLinks
  <2>4. CASE step' = Resting /\ out' = [out EXCEPT !.maps = {}]
    <3>1. {} \in Exports BY DEF Exports
    <3>. QED BY <1>4, <2>1, <2>4, <3>1
  <2>5. CASE step' = [at |-> "controls", usable |-> step.usable, rows |-> rows] /\ out' = out
    <3>. HIDE DEF rows
    <3>1. IsStep(step') BY <2>2, <2>3, <2>5 DEF IsStep
    <3>2. Placing' BY <2>1, <2>3, <2>5 DEF Placing
    <3>. QED BY <1>3, <2>5, <3>1, <3>2
  <2>. QED BY <1>6, <2>4, <2>5 DEF Forecast, Go
<1>7. CASE Controls
  <2>1. PICK C \in SUBSET step.usable :
            step' = [at |-> "fim", controls |-> ForecastOnly(C, step.rows)] /\ out' = out
    BY <1>7 DEF Controls, Go
  <2>2. step.at = "controls" /\ out.db = "full" BY <1>7 DEF Controls, Placing
  <2>3. step.usable \in Exports BY <2>2, StepsByPlace
  <2>4. ForecastOnly(C, step.rows) \in Exports BY <2>3 DEF ForecastOnly, Exports
  <2>5. IsStep(step') BY <2>1, <2>4 DEF IsStep
  <2>6. Placing' BY <2>1, <2>2 DEF Placing
  <2>. QED BY <1>3, <2>1, <2>5, <2>6
<1>8. CASE Fim
  <2>1. out' = [out EXCEPT !.maps = step.controls] /\ step' = Resting /\ step.at = "fim"
    BY <1>8 DEF Fim, Go
  <2>2. step.controls \in Exports BY <2>1, StepsByPlace
  <2>3. out.db = "full" BY <2>1 DEF Placing
  <2>. QED BY <1>4, <2>1, <2>2, <2>3
<1>. QED BY <1>5, <1>6, <1>7, <1>8 DEF Aep

Sound == Typed /\ Placing /\ Files

\* What the world does, a death and a new out-dir leave an out-dir sound; and the
\* scenarios of a full one change only with a new one.
LEMMA SoundStep ==
    ASSUME Sound, Typed', [Next]_vars
    PROVE  Sound' /\ (out.db = "full" => out'.scenarios = out.scenarios \/ out' = NewOut(out.inStorage))
<1>. USE DEF Sound
<1>1. ASSUME out' = out, step' = step
      PROVE  Sound' /\ out'.scenarios = out.scenarios
  BY <1>1 DEF Placing, Files, FinishedLibraryIsUsable, Usable
<1>2. CASE UNCHANGED vars BY <1>1, <1>2 DEF vars
<1>3. CASE World
  BY <1>1, <1>3 DEF World, ObserveNd, ObserveKwse, ObserveNoMore, ChangeStorage
<1>4. CASE Export BY <1>4, ExportStep
<1>5. CASE Library BY <1>5, LibraryStep
<1>6. CASE Aep BY <1>6, AepStep
<1>7. CASE Kill
  <2>1. out' = out /\ step' = Resting BY <1>7 DEF Kill, Go
  <2>2. Files' BY <2>1 DEF Files, FinishedLibraryIsUsable, Usable
  <2>. QED BY <2>1, <2>2 DEF Placing, Filling, Finishing, Resting
<1>8. CASE Abandon
  <2>1. out' = NewOut(out.inStorage) /\ step' = Resting /\ out.inStorage \in BOOLEAN
    BY <1>8 DEF Abandon, Typed, Outs
  <2>2. /\ out'.db = "absent" /\ out'.absent = {} /\ out'.starts = None /\ out'.library = {}
        /\ out'.scenarios = {} /\ out'.finished = FALSE /\ out'.maps = None
    BY <2>1, NewOuts
  <2>3. Files' BY <2>2 DEF Files, FinishedLibraryIsUsable
  <2>. QED BY <2>1, <2>3 DEF Placing, Filling, Finishing, Resting
<1>. QED BY <1>2, <1>3, <1>4, <1>5, <1>6, <1>7, <1>8 DEF Next

-----------------------------------------------------------------------------
(* Types *)

\* What has been heard of the tables are tables.
LEMMA HeardTyped ==
    ASSUME since \in SUBSET (Rows \X Rows), NEW a \in Rows, NEW b \in Rows
    PROVE  Heard(<<a, b>>) \in SUBSET (Rows \X Rows)
BY DEF Heard

LEMMA TypeStep == ASSUME TypeOK, Sound, [Next]_vars PROVE TypeOK' /\ Typed'
<1>. USE DEF TypeOK, Typed
<1>. DEFINE Rest == /\ nd' \in Rows /\ kw' \in Rows /\ watch' \in Reaches \union {None}
                    /\ grids' \in Exports /\ since' \in SUBSET (Rows \X Rows)
                    /\ spent' \in [checks: 0..MaxChecks, losses: 0..MaxLosses, kills: 0..MaxKills]
<1>1. ASSUME out' = out, step' = step, Rest PROVE TypeOK' /\ Typed' BY <1>1
<1>2. ASSUME out' \in Outs, IsStep(step'), Files', Rest PROVE TypeOK' /\ Typed' BY <1>2 DEF Files
<1>3. CASE UNCHANGED vars BY <1>1, <1>3 DEF vars
<1>4. ASSUME NEW r \in Reaches, ObserveNd(r) PROVE TypeOK' /\ Typed'
  <2>1. nd' \in Rows BY <1>4 DEF ObserveNd, Rows
  <2>2. since' \in SUBSET (Rows \X Rows) BY <1>4, <2>1, HeardTyped DEF ObserveNd
  <2>3. spent' \in [checks: 0..MaxChecks, losses: 0..MaxLosses, kills: 0..MaxKills]
    BY <1>4, ExportAssumption DEF ObserveNd
  <2>. QED BY <1>1, <1>4, <2>1, <2>2, <2>3 DEF ObserveNd
<1>5. CASE ObserveKwse
  <2>1. watch \in Reaches BY <1>5 DEF ObserveKwse
  <2>2. kw' \in Rows BY <1>5, <2>1 DEF ObserveKwse, Rows
  <2>3. since' \in SUBSET (Rows \X Rows) BY <1>5, <2>2, HeardTyped DEF ObserveKwse
  <2>. QED BY <1>1, <1>5, <2>2, <2>3 DEF ObserveKwse
<1>6. CASE ObserveNoMore BY <1>1, <1>6 DEF ObserveNoMore, tables
<1>7. ASSUME NEW s \in Scenarios, ChangeStorage(s) PROVE TypeOK' /\ Typed'
  <2>1. grids' \in Exports BY <1>7 DEF ChangeStorage, Exports
  <2>2. spent' \in [checks: 0..MaxChecks, losses: 0..MaxLosses, kills: 0..MaxKills]
    BY <1>7, ExportAssumption DEF ChangeStorage
  <2>. QED BY <1>1, <1>7, <2>1, <2>2 DEF ChangeStorage, tables
<1>8. CASE Export
  <2>1. out' \in Outs /\ IsStep(step') /\ Files' BY <1>8, ExportStep DEF Sound
  <2>2. /\ nd' = nd /\ kw' = kw /\ watch' = watch /\ grids' = grids /\ spent' = spent
        /\ since' \in {since, {<<nd, kw>>}, {}}
    BY <1>8 DEF Export, StartScenarios, QueryNd, RefuseNd, QueryKwse, QueryLinks, QueryModels,
                WriteTables, WriteRows, WriteStarts, WriteLayers, tables
  <2>3. since' \in SUBSET (Rows \X Rows) BY <2>2
  <2>. QED BY <1>2, <2>1, <2>2, <2>3
<1>9. CASE Library
  <2>1. out' \in Outs /\ IsStep(step') /\ Files' BY <1>9, LibraryStep DEF Sound
  <2>2. /\ nd' = nd /\ kw' = kw /\ watch' = watch /\ grids' = grids /\ spent' = spent /\ since' = since
    BY <1>9 DEF Library, StartLibrary, Place, MarkMissing, tables
  <2>. QED BY <1>2, <2>1, <2>2
<1>10. CASE Aep
  <2>1. out' \in Outs /\ IsStep(step') /\ Files' BY <1>10, AepStep DEF Sound
  <2>2. /\ nd' = nd /\ kw' = kw /\ watch' = watch /\ grids' = grids /\ spent' = spent /\ since' = since
    BY <1>10 DEF Aep, StartAep, Forecast, Controls, Fim, tables
  <2>. QED BY <1>2, <2>1, <2>2
<1>11. CASE Kill
  <2>1. spent' \in [checks: 0..MaxChecks, losses: 0..MaxLosses, kills: 0..MaxKills]
    BY <1>11, ExportAssumption DEF Kill
  <2>2. out' = out /\ IsStep(step') BY <1>11 DEF Kill, Go, IsStep
  <2>. QED BY <1>11, <2>1, <2>2 DEF Kill, tables
<1>12. CASE Abandon
  <2>1. out' = NewOut(out.inStorage) /\ step' = step /\ out.inStorage \in BOOLEAN
    BY <1>12 DEF Abandon, Outs
  <2>2. out' \in Outs BY <2>1, NewOuts
  <2>3. /\ out'.absent \subseteq out'.scenarios /\ out'.library \subseteq out'.scenarios
        /\ out'.starts = None /\ out'.library = {}
    BY <2>1, NewOuts
  <2>. QED BY <1>12, <2>1, <2>2, <2>3 DEF Abandon, tables
<1>. QED
  BY <1>3, <1>4, <1>5, <1>6, <1>7, <1>8, <1>9, <1>10, <1>11, <1>12 DEF Next, World

LEMMA SoundInit == Init => TypeOK /\ Sound
<1>. SUFFICES ASSUME Init PROVE TypeOK /\ Sound OBVIOUS
<1>1. nd \in Rows /\ kw \in Rows BY ExportAssumption DEF Init, Rows
<1>2. PICK s \in BOOLEAN : out = NewOut(s) BY DEF Init
<1>3. /\ out \in Outs /\ out.db = "absent" /\ out.absent = {} /\ out.starts = None /\ out.library = {}
      /\ out.scenarios = {} /\ out.finished = FALSE /\ out.maps = None
  BY <1>2, NewOuts
<1>4. step.at = "resting" /\ IsStep(step) BY DEF Init, Resting, IsStep
<1>5. spent \in [checks: 0..MaxChecks, losses: 0..MaxLosses, kills: 0..MaxKills]
  BY ExportAssumption DEF Init
<1>6. TypeOK BY <1>1, <1>3, <1>4, <1>5 DEF Init, TypeOK, Exports
<1>7. Files BY <1>3 DEF Files, FinishedLibraryIsUsable
<1>8. Placing BY <1>4 DEF Placing, Filling, Finishing
<1>. QED BY <1>1, <1>3, <1>4, <1>6, <1>7, <1>8 DEF Sound, Typed

LEMMA ExportsAreSound == Spec => [](TypeOK /\ Sound)
<1>1. TypeOK /\ Sound /\ [Next]_vars => (TypeOK /\ Sound)' BY TypeStep, SoundStep
<1>. QED BY <1>1, SoundInit, PTL DEF Spec

\* Every reachable state is typed, and what an out-dir marks or holds are scenarios
\* of the export in it: no step fills an out-dir that has been filled.
THEOREM ExportTypesHold == Spec => []TypeOK
BY ExportsAreSound, PTL

\* A finished library has the grid of every scenario that flows2fim may choose,
\* whatever was killed and run again and whatever storage lost.
THEOREM FinishedIsUsable == Spec => []FinishedLibraryIsUsable
<1>1. Sound => FinishedLibraryIsUsable BY DEF Sound, Files
<1>. QED BY <1>1, ExportsAreSound, PTL

\* An out-dir never holds two exports, killed steps included.
THEOREM OneExportEach == Spec => OneExportPerOutDir
<1>1. TypeOK /\ Sound /\ [Next]_vars =>
          [out.db = "full" => out'.scenarios = out.scenarios \/ out' = NewOut(out.inStorage)]_vars
  BY TypeStep, SoundStep
<1>. QED BY <1>1, ExportsAreSound, PTL DEF Spec, OneExportPerOutDir

\* Tracing upstream from the starts reaches every exported reach, in any network
\* that drains: from any exported reaches without a start, water leaves into
\* another exported reach.
THEOREM StartsReach == Spec => []StartsReachAll
<1>1. TypeOK /\ Sound => StartsReachAll
  <2>. SUFFICES ASSUME TypeOK, Sound, out.starts # None,
                       NEW S \in SUBSET ReachesOf(out.scenarios), S # {}, S \intersect out.starts = {}
                PROVE  \E link \in out.network :
                          link[1] \in S /\ link[2] \notin S /\ link[2] \in ReachesOf(out.scenarios)
    BY DEF StartsReachAll
  <2>. DEFINE exported == ReachesOf(out.scenarios)
  <2>1. out.network = NetworkOf(exported) /\ out.starts = StartsOf(out.network)
    BY DEF Sound, Files
  <2>2. S \subseteq Reaches BY NetworksAreLinks DEF TypeOK, Outs
  <2>3. PICK r \in S : Below[r] \notin S BY <2>2, NetworkAssumption
  <2>4. <<r, IF Below[r] \in exported THEN Below[r] ELSE None>> \in out.network
    BY <2>1 DEF NetworkOf
  <2>5. Below[r] \in exported
    <3>1. SUFFICES ASSUME <<r, None>> \in out.network PROVE FALSE BY <2>4
    <3>2. r \in out.starts BY <2>1, <3>1 DEF StartsOf
    <3>. QED BY <3>2
  <2>. QED BY <2>3, <2>4, <2>5
<1>. QED BY <1>1, ExportsAreSound, PTL

-----------------------------------------------------------------------------
(* What an export read *)

Reading == {"nd", "kwse", "links", "models", "tables", "rows"}

\* While a scenarios step reads, its history has what the tables say now; and if
\* they have said nothing else, what it has read is what they say.
Quiet ==
    /\ step.at \in Reading => <<nd, kw>> \in since
    /\ since = {<<nd, kw>>} =>
          /\ step.at = "kwse" => step.scenarios = RowsOf(nd, "nd")
          /\ step.at \in {"links", "models"} =>
                step.scenarios = RowsOf(nd, "nd") \union RowsOf(kw, "kwse")
          /\ QuietExportIsExact

LEMMA QuietStep == ASSUME TypeOK, Quiet, [Next]_vars PROVE Quiet'
<1>. USE DEF TypeOK, Reading
<1>1. ASSUME UNCHANGED <<nd, kw, since, step>> PROVE Quiet' BY <1>1 DEF Quiet, QuietExportIsExact
<1>2. ASSUME step'.at \notin Reading PROVE Quiet' BY <1>2 DEF Quiet, QuietExportIsExact
<1>3. ASSUME step' = step, since' = Heard(<<nd', kw'>>) PROVE Quiet'
  <2>1. CASE step.at \notin Reading BY <1>2, <1>3, <2>1
  <2>2. CASE step.at \in Reading
    <3>1. <<nd, kw>> \in since BY <2>2 DEF Quiet
    <3>2. since' = since \union {<<nd', kw'>>} BY <1>3, <3>1 DEF Heard
    <3>3. CASE since' = {<<nd', kw'>>}
      <4>1. <<nd, kw>> = <<nd', kw'>> /\ since = {<<nd, kw>>} BY <3>1, <3>2, <3>3
      <4>. QED BY <1>1, <1>3, <3>3, <4>1
    <3>4. CASE since' # {<<nd', kw'>>} BY <3>2, <3>4 DEF Quiet
    <3>. QED BY <3>3, <3>4
  <2>. QED BY <2>1, <2>2
<1>4. CASE UNCHANGED vars BY <1>1, <1>4 DEF vars
<1>5. CASE World
  BY <1>1, <1>3, <1>5 DEF World, ObserveNd, ObserveKwse, ObserveNoMore, ChangeStorage, tables
<1>6. CASE StartScenarios
  <2>1. step' = [at |-> "nd"] /\ since' = {<<nd, kw>>} /\ nd' = nd /\ kw' = kw
    BY <1>6 DEF StartScenarios, Go, tables
  <2>. QED BY <2>1 DEF Quiet, QuietExportIsExact
<1>7. CASE QueryNd
  <2>1. /\ step' = [at |-> "kwse", scenarios |-> RowsOf(nd, "nd"), nd |-> nd]
        /\ step.at = "nd" /\ since' = since /\ nd' = nd /\ kw' = kw
    BY <1>7 DEF QueryNd, Go, tables
  <2>. QED BY <2>1 DEF Quiet, QuietExportIsExact
<1>8. CASE RefuseNd BY <1>2, <1>8 DEF RefuseNd, Go, Resting
<1>9. CASE QueryKwse
  <2>. DEFINE found == step.scenarios \union RowsOf(kw, "kwse")
              x == [at |-> "links", scenarios |-> found, nd |-> step.nd, kw |-> kw]
  <2>1. (step' = Resting \/ step' = x) /\ step.at = "kwse" /\ since' = since /\ nd' = nd /\ kw' = kw
    BY <1>9 DEF QueryKwse, Go, tables
  <2>2. CASE step' = Resting BY <1>2, <2>2 DEF Resting
  <2>3. CASE step' = x
    <3>1. since = {<<nd, kw>>} => found = RowsOf(nd, "nd") \union RowsOf(kw, "kwse")
      BY <2>1 DEF Quiet
    <3>2. step'.at = "links" /\ step'.scenarios = found BY <2>3
    <3>. QED BY <2>1, <3>1, <3>2 DEF Quiet, QuietExportIsExact
  <2>. QED BY <2>1, <2>2, <2>3
<1>10. CASE QueryLinks
  <2>1. /\ step' = [step EXCEPT !.at = "models"] /\ step.at = "links"
        /\ since' = since /\ nd' = nd /\ kw' = kw
    BY <1>10 DEF QueryLinks, Go, tables
  <2>2. step'.at = "models" /\ step'.scenarios = step.scenarios BY <2>1, StepsByPlace
  <2>. QED BY <2>1, <2>2 DEF Quiet, QuietExportIsExact
<1>11. CASE QueryModels
  <2>. DEFINE exported == ReachesOf(step.scenarios)
              m == {<<r, ModelOf(r)>> : r \in exported} \ (exported \X {None})
  <2>1. /\ step'.at \in {"rows", "tables"} /\ step'.scenarios = step.scenarios /\ step'.models = m
        /\ step.at = "models" /\ since' = since /\ nd' = nd /\ kw' = kw
    BY <1>11 DEF QueryModels, Go, tables
  <2>2. ASSUME since = {<<nd, kw>>}
        PROVE  /\ step.scenarios = RowsOf(nd, "nd") \union RowsOf(kw, "kwse")
               /\ \A s \in step.scenarios :
                     /\ \E x \in Models : <<s.reach, x>> \in m
                     /\ s.bc = "nd" => <<s.reach, s.model>> \in m
    <3>1. step.scenarios = RowsOf(nd, "nd") \union RowsOf(kw, "kwse") BY <2>1, <2>2 DEF Quiet
    <3>2. ASSUME NEW s \in step.scenarios
          PROVE  /\ \E x \in Models : <<s.reach, x>> \in m
                 /\ s.bc = "nd" => <<s.reach, s.model>> \in m
      <4>1. s.reach \in Reaches /\ s.reach \in exported
        BY <3>1, RowsAreScenarios DEF ReachesOf
      <4>2. nd[s.reach] # None \/ kw[s.reach] # None BY <3>1, RowsAreScenarios
      <4>3. nd[s.reach] \in Models \union {None} /\ kw[s.reach] \in Models \union {None}
        BY <4>1 DEF Rows
      <4>4. ModelOf(s.reach) \in Models /\ ModelOf(s.reach) # None
        BY <4>2, <4>3, ExportAssumption DEF ModelOf
      <4>5. <<s.reach, ModelOf(s.reach)>> \in m BY <4>1, <4>4
      <4>6. s.bc = "nd" => s.model = ModelOf(s.reach) BY <3>1, RowsAreScenarios DEF ModelOf
      <4>. QED BY <4>4, <4>5, <4>6
    <3>. QED BY <3>1, <3>2
  <2>3. <<nd, kw>> \in since BY <2>1 DEF Quiet
  <2>. HIDE DEF m
  <2>. QED BY <2>1, <2>2, <2>3 DEF Quiet, QuietExportIsExact
<1>12. CASE WriteTables
  <2>1. /\ step' = [step EXCEPT !.at = "rows"] /\ step.at = "tables"
        /\ since' = since /\ nd' = nd /\ kw' = kw
    BY <1>12 DEF WriteTables, Go, tables
  <2>2. step'.at = "rows" /\ step'.scenarios = step.scenarios /\ step'.models = step.models
    BY <2>1, StepsByPlace
  <2>. QED BY <2>1, <2>2 DEF Quiet, QuietExportIsExact
<1>13. CASE WriteRows
  <2>1. step' = [step EXCEPT !.at = "starts"] /\ step.at = "rows" BY <1>13 DEF WriteRows, Go
  <2>2. step'.at = "starts" BY <2>1, StepsByPlace
  <2>. QED BY <1>2, <2>2
<1>14. CASE WriteStarts
  <2>1. step' = [step EXCEPT !.at = "layers"] /\ step.at = "starts" BY <1>14 DEF WriteStarts, Go
  <2>2. step'.at = "layers" BY <2>1, StepsByPlace
  <2>. QED BY <1>2, <2>2
<1>15. CASE WriteLayers BY <1>2, <1>15 DEF WriteLayers, Go, Resting
<1>16. CASE StartLibrary BY <1>2, <1>16 DEF StartLibrary, Go
<1>17. CASE \E s \in Scenarios : Place(s)
  <2>1. PICK s \in Scenarios : Place(s) BY <1>17
  <2>. DEFINE m == IF Misses(s) THEN step.missing \union {s} ELSE step.missing
              a == IF step.left = {s} THEN "mark" ELSE "place"
  <2>2. step' = [step EXCEPT !.left = step.left \ {s}, !.missing = m, !.at = a] /\ step.at = "place"
    BY <2>1 DEF Place, Go
  <2>3. step \in [at: {"place", "mark"}, left: Exports, missing: Exports] BY <2>2, StepsByPlace
  <2>4. a \notin Reading OBVIOUS
  <2>. HIDE DEF m, a
  <2>5. step'.at = a BY <2>2, <2>3
  <2>. QED BY <1>2, <2>4, <2>5
<1>18. CASE MarkMissing BY <1>2, <1>18 DEF MarkMissing, Go, Resting
<1>19. CASE Aep
  <2>1. step'.at \notin Reading
    BY <1>19 DEF Aep, StartAep, Forecast, Controls, Fim, Go, Resting
  <2>. QED BY <1>2, <2>1
<1>20. CASE Kill BY <1>2, <1>20 DEF Kill, Go, Resting
<1>21. CASE Abandon BY <1>2, <1>21 DEF Abandon, Resting
<1>. QED
  BY <1>4, <1>5, <1>6, <1>7, <1>8, <1>9, <1>10, <1>11, <1>12, <1>13, <1>14, <1>15, <1>16, <1>17, <1>18,
     <1>19, <1>20, <1>21
  DEF Next, Export, Library

\* When no check wrote anything while the queries ran, the export is exactly what
\* the tables hold, with a layer for every exported reach, that of the model its
\* normal-depth runs were made with.
THEOREM QuietExportsAreExact == Spec => []QuietExportIsExact
<1>1. Init => Quiet BY DEF Init, Quiet, QuietExportIsExact, Reading, Resting
<1>2. Quiet => QuietExportIsExact BY DEF Quiet, QuietExportIsExact
<1>. QED BY <1>1, <1>2, QuietStep, ExportTypesHold, PTL DEF Spec
=============================================================================
