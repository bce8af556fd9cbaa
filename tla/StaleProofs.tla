---------------------------- MODULE StaleProofs ----------------------------
(***************************************************************************)
(* No stale stage library goes unnoticed: between the commit that moves a   *)
(* library below and the check above it, something always holds the fact    *)
(* that the reach above must be looked at again.  And what looks finished    *)
(* answers intent, deletions and all: a row that says too much is kept from  *)
(* making its reach look finished until it is replaced.                      *)
(***************************************************************************)
EXTENDS ReconcilerSafety

\* Nobody died, deleted an intent or moved one in place.
Calm == spent.crashes = 0 /\ Untouched

\* What must be told is held from the record of a library to the request above.
Telling == note.tell => pc \in {"readKwse", "recordKwse", "notify"}

\* The revision an observation compares with is that of the row it replaces.
Before(row) == IF row = None THEN 0 ELSE row.rev
Compared ==
    /\ pc = "recordNd" => note.was = Before(nd[cur])
    /\ pc = "recordKwse" => note.was = Before(kw[cur])

\* A stage library has a reach below it, and so has a plan for one.
Draining ==
    /\ \A r \in Reaches : kw[r] # None => r \notin Terminals /\ Below[r] \in Reaches
    /\ note.plan # {} => cur \in Reaches \ Terminals /\ Below[cur] \in Reaches

\* The libraries of a reach are of the intent in force, whatever its model is.
Current(b) ==
    /\ Applied(nd[b], want[b])
    /\ b \in Terminals \/ Applied(kw[b], want[b])

\* What keeps the fact that r must be looked at again, model rows left aside.
Kept(r) ==
    \/ proc[r].requested
    \/ cur = r /\ pc \in StillToObserveKwse
    \/ cur = Below[r] /\ note.tell
    \/ ~Current(Below[r])

\* The stages of r are the plan on the runs below, or on those there were before
\* others came that the intent below passes over.
PlannedFor(r) ==
    \E c \in Discharges :
        /\ c <= nd[Below[r]].q
        /\ \A d \in nd[Below[r]].qs : d <= c
        /\ kw[r].stages = PlanOn(r, c)

Heeded(r) ==
    (kw[r] # None /\ Applied(nd[r], want[r]) /\ Applied(kw[r], want[r])) =>
        PlannedFor(r) \/ Kept(r)

\* The plan an observation of stages holds is the one it would make now, unless
\* the intent below has moved since.
Timely ==
    pc = "recordKwse" => \A p \in note.plan :
        p = Planned(cur) \/ ~Applied(nd[Below[cur]], want[Below[cur]])

Heeding == Calm => Compared /\ Timely /\ \A r \in Reaches : Heeded(r)

\* At first nothing is recorded.
LEMMA InitHeeding == Init => Telling /\ Draining /\ Heeding
BY DEF Init, Telling, Draining, Heeding, Compared, Timely, Heeded, Blank

\* While calm, it had been calm before.
LEMMA CalmBefore == ASSUME Typed, [Next]_vars, Calm' PROVE Calm
<1>. USE DEF Calm
<1>1. Untouched BY RevisionsMove
<1>2. ASSUME UNCHANGED spent PROVE spent.crashes = 0 BY <1>2
<1>3. ASSUME NEW f \in {"edits", "withdrawals", "lookups", "faults", "crashes"}, Spend(f)
      PROVE  spent.crashes = 0 /\ f # "crashes"
  <2>. USE <1>3 DEF Typed, TypeOK, SpentTyped, Spend
  <2>1. CASE f = "edits" BY <2>1
  <2>2. CASE f = "withdrawals" BY <2>2
  <2>3. CASE f = "lookups" BY <2>3
  <2>4. CASE f = "faults" BY <2>4
  <2>5. CASE f = "crashes" BY <2>5
  <2>. QED BY <2>1, <2>2, <2>3, <2>4, <2>5
<1>. QED BY <1>1, <1>2, <1>3, SpentSteps

\* Every step but the two that record a library leaves nothing new to tell.
LEMMA StepTelling == Typed /\ Telling /\ [Next]_vars => Telling'
<1>. SUFFICES ASSUME Typed, Telling, [Next]_vars PROVE Telling' OBVIOUS
<1>0. note \in Note BY DEF Typed, TypeOK, LoopTyped
<1>1. ASSUME UNCHANGED loop PROVE Telling' BY <1>1 DEF loop, Telling
<1>2. ASSUME ~note'.tell PROVE Telling' BY <1>2 DEF Telling
<1>3. ASSUME pc \notin {"readKwse", "recordKwse", "notify"}, note'.tell = note.tell PROVE Telling'
  BY <1>2, <1>3 DEF Telling
<1>4. CASE Pass
  BY <1>3, <1>4
  DEF Pass, BeginPass, Poll, PollRunning, PollUnknown, PollLost, PollSucceeded, PollFailed,
      PollCommit, PollRequest, ListDue, EndPass
<1>5. CASE StartCheck \/ Mark \/ Restart BY <1>3, <1>5 DEF StartCheck, Mark, Restart
<1>6. CASE ReadIntent
  <2>1. note'.tell = note.tell BY <1>0, <1>6 DEF ReadIntent, Note
  <2>. QED BY <1>6, <2>1 DEF ReadIntent, Telling
<1>7. CASE RecordModel \/ Forgive BY <1>0, <1>3, <1>7 DEF RecordModel, Forgive, Note
<1>8. CASE RecordNd \/ RecordKwse BY <1>8 DEF RecordNd, RecordKwse, Telling
<1>9. CASE Notify BY <1>0, <1>2, <1>9 DEF Notify, Note
<1>10. ASSUME EndCheck PROVE Telling' BY <1>2, <1>10 DEF EndCheck, Blank
<1>11. CASE Decide \/ Act
  <2>1. CASE Decide /\ Resolve BY <1>0, <1>3, <2>1 DEF Decide, Resolve, Note
  <2>2. CASE Act /\ Choose BY <1>3, <2>2 DEF Act, Choose
  <2>. QED BY <1>10, <1>11, <2>1, <2>2 DEF Decide, Skip, LeaveAlone, Act, Satisfied, Await
<1>12. CASE Submit
  <2>1. CASE SubmitAccepted BY <1>0, <1>3, <1>12, <2>1 DEF Submit, SubmitAccepted, Note
  <2>2. CASE SubmitNothing BY <1>3, <1>12, <2>2 DEF Submit, SubmitNothing
  <2>. QED BY <1>10, <1>12, <2>1, <2>2 DEF Submit, SubmitRaises, SubmitTimesOut
<1>13. CASE Request BY <1>10, <1>13 DEF Request
<1>14. CASE Crash BY <1>2, <1>14 DEF Crash, Blank
<1>15. CASE Jobs BY <1>1, <1>15 DEF Jobs, Publish, Succeed, SucceedHollow, FailJob, End
<1>16. CASE People
  BY <1>1, <1>16 DEF People, Author, ChangeDefaults, EditLookup, Withdraw, ClearHalt, RetryTime
<1>17. CASE UNCHANGED vars BY <1>1, <1>17 DEF vars, loop
<1>. QED
  BY <1>4, <1>5, <1>6, <1>7, <1>8, <1>9, <1>11, <1>12, <1>13, <1>14, <1>15, <1>16, <1>17
  DEF Next, Loop, Check

\* Only an observation of stages writes a stage row, and it needs a reach below.
LEMMA StepDraining == Typed /\ Planning /\ Draining /\ [Next]_vars => Draining'
<1>. SUFFICES ASSUME Typed, Planning, Draining, [Next]_vars PROVE Draining' OBVIOUS
<1>0. kw \in [Reaches -> KwseRow \union {None}] BY DEF Typed, TypeOK, RowsTyped
<1>1. note'.plan # {} => cur' \in Reaches \ Terminals /\ Below[cur'] \in Reaches
  <2>1. CASE UNCHANGED loop BY <2>1 DEF loop, Draining
  <2>2. CASE ReadIntent
    <3>1. cur \in Reaches /\ cur' = cur /\ note'.plan = PlanNow
      BY <2>2 DEF ReadIntent, Typed, TypeOK, LoopTyped, Note, Where, CheckPhases
    <3>. QED BY <3>1, NetworkAssumption DEF PlanNow, Plannable
  <2>. QED BY <2>1, <2>2, PlanMoves
<1>2. ASSUME UNCHANGED kw
      PROVE  \A r \in Reaches : kw'[r] # None => r \notin Terminals /\ Below[r] \in Reaches
  BY <1>2 DEF Draining
<1>3. CASE RecordKwse
  <2>1. cur \in Reaches BY <1>3 DEF RecordKwse, Typed, Where, CheckPhases
  <2>. DEFINE row == KwseRowOf(note.wanted)
  <2>2. row # None => cur \notin Terminals /\ Below[cur] \in Reaches
    BY DEF KwseRowOf, KwseFound, Draining
  <2>3. kw' = [kw EXCEPT ![cur] = row] BY <1>3 DEF RecordKwse
  <2>. HIDE DEF row
  <2>. QED BY <1>0, <1>1, <2>1, <2>2, <2>3 DEF Draining
<1>4. ASSUME NEW r \in Reaches, Withdraw(r) PROVE Draining'
  BY <1>0, <1>1, <1>4 DEF Withdraw, Forgotten, Draining
<1>5. UNCHANGED db \/ RecordModel \/ RecordNd => UNCHANGED kw BY DEF db, RecordModel, RecordNd
<1>. QED BY <1>1, <1>2, <1>3, <1>4, <1>5, DbMoves DEF Draining

\* An observation that is about to write has just read, or waits where it was.
LEMMA ToRecord ==
    ASSUME [Next]_vars, pc' \in {"recordNd", "recordKwse"}
    PROVE  ReadIntent \/ UNCHANGED loop
<1>1. CASE Pass
  <2>1. ASSUME UNCHANGED pc, pc = "poll" PROVE FALSE BY <2>1
  <2>. QED
    BY <1>1, <2>1
    DEF Pass, BeginPass, Poll, PollRunning, PollUnknown, PollLost, PollSucceeded, PollFailed,
        PollCommit, PollRequest, ListDue, EndPass
<1>2. CASE Decide \/ Act \/ Submit
  BY <1>2
  DEF Decide, Skip, LeaveAlone, Resolve, Act, Satisfied, Await, Choose, Submit, SubmitAccepted,
      SubmitNothing, SubmitRaises, SubmitTimesOut, EndCheck
<1>3. CASE StartCheck \/ RecordModel \/ RecordNd \/ RecordKwse \/ Notify \/ Forgive \/ Mark \/ Request
  BY <1>3
  DEF StartCheck, RecordModel, RecordNd, RecordKwse, Notify, Forgive, Mark, Request, EndCheck
<1>4. CASE Crash \/ Restart BY <1>4 DEF Crash, Restart
<1>5. Jobs \/ People => UNCHANGED loop
  BY DEF Jobs, Publish, Succeed, SucceedHollow, FailJob, End, People, Author, ChangeDefaults,
         EditLookup, Withdraw, ClearHalt, RetryTime
<1>6. UNCHANGED vars => UNCHANGED loop BY DEF vars, loop
<1>. QED BY <1>1, <1>2, <1>3, <1>4, <1>5, <1>6 DEF Next, Loop, Check

\* Between the read and the write of an observation nobody else writes a row.
LEMMA WaitsAlone ==
    ASSUME Typed, [Next]_vars, Untouched', UNCHANGED loop, pc \in {"recordNd", "recordKwse"}
    PROVE  UNCHANGED db
<1>1. \A r \in Reaches : ~Withdraw(r) BY SpendsMark DEF Withdraw
<1>2. ~RecordModel /\ ~RecordNd /\ ~RecordKwse BY DEF RecordModel, RecordNd, RecordKwse, loop
<1>. QED BY <1>1, <1>2, DbMoves

\* So what it compares with is the row it replaces.
LEMMA StepCompared ==
    ASSUME Typed, Compared, [Next]_vars, Untouched'
    PROVE  Compared'
<1>1. CASE UNCHANGED loop /\ pc \in {"recordNd", "recordKwse"}
  BY <1>1, WaitsAlone DEF loop, db, Compared, Before
<1>2. CASE ReadIntent
  <2>1. note'.was = Before(RowBefore) /\ cur' = cur /\ UNCHANGED db
    BY <1>2 DEF ReadIntent, Typed, TypeOK, LoopTyped, Note, Before
  <2>2. pc' = "recordNd" => pc = "readNd" BY <1>2 DEF ReadIntent
  <2>3. pc' = "recordKwse" => pc = "readKwse" BY <1>2 DEF ReadIntent
  <2>4. (pc = "readNd" => RowBefore = nd[cur]) /\ (pc = "readKwse" => RowBefore = kw[cur])
    BY DEF RowBefore
  <2>. QED BY <2>1, <2>2, <2>3, <2>4 DEF Compared, Before, db
<1>. QED BY <1>1, <1>2, ToRecord DEF Compared, loop

\* And its plan is the one it would make now.
LEMMA StepTimely ==
    ASSUME Typed, Draining, Timely, [Next]_vars, Untouched',
           \A s \in Reaches : Behind(s) /\ Moved(s), WantTyped'
    PROVE  Timely'
<1>. SUFFICES ASSUME pc' = "recordKwse", NEW p \in note'.plan,
                     Applied(nd[Below[cur]], want[Below[cur]])'
              PROVE  (p = Planned(cur))'
  BY DEF Timely
<1>1. CASE UNCHANGED loop
  <2>1. pc = "recordKwse" /\ cur' = cur /\ p \in note.plan /\ UNCHANGED db BY <1>1, WaitsAlone DEF loop
  <2>. DEFINE b == Below[cur]
  <2>2. cur \in Reaches /\ b \in Reaches BY <2>1 DEF Draining
  <2>3. nd'[b] = nd[b] /\ nd[b] # None /\ want'[b] # None /\ nd[b].rev >= want'[b].rev
    BY <2>1 DEF Applied, db
  <2>4. nd[b].rev \in Int /\ want'[b].rev \in Nat
    BY <2>2, <2>3 DEF Typed, TypeOK, RowsTyped, NdRow, WantTyped, Wanted
  <2>5. want[b] # None /\ nd[b].rev <= want[b].rev /\ want[b].rev <= want'[b].rev
    BY <2>2, <2>3 DEF Behind, Moved
  <2>6. want[b].rev \in Nat BY <2>2, <2>5 DEF Typed, TypeOK, WantTyped, Wanted
  <2>7. want[b].rev = want'[b].rev /\ nd[b].rev >= want[b].rev BY <2>3, <2>4, <2>5, <2>6
  <2>8. want'[b] = want[b] BY <2>2, <2>5, <2>7 DEF Moved
  <2>9. p = Planned(cur) BY <2>1, <2>3, <2>5, <2>7 DEF Timely, Applied
  <2>. QED BY <2>1, <2>8, <2>9 DEF Planned, PlanOn, StagesOf, db
<1>2. CASE ReadIntent
  <2>1. note'.plan = PlanNow /\ cur' = cur /\ UNCHANGED <<want, db>>
    BY <1>2 DEF ReadIntent, Typed, TypeOK, LoopTyped, Note
  <2>2. p = Planned(cur) BY <2>1 DEF PlanNow
  <2>. QED BY <2>1, <2>2 DEF Planned, PlanOn, StagesOf, db
<1>. QED BY <1>1, <1>2, ToRecord

\* A step that leaves intent and libraries alone and forgets nothing keeps r heeded.
LEMMA HeededStays ==
    ASSUME NEW r \in Reaches, Heeded(r), UNCHANGED <<want, nd, kw>>, Kept(r) => Kept(r)'
    PROVE  Heeded(r)'
<1>1. \A c : PlanOn(r, c)' = PlanOn(r, c) BY DEF PlanOn, StagesOf
<1>. QED BY <1>1 DEF Heeded, PlannedFor, Applied

\* The revisions rows and intents carry are numbers.
LEMMA RevisionsAreNumbers ==
    ASSUME Typed, NEW r \in Reaches
    PROVE  /\ mm[r] # None => mm[r].rev \in Int
           /\ nd[r] # None => nd[r].rev \in Int
           /\ kw[r] # None => kw[r].rev \in Int
           /\ want[r] # None => want[r].rev \in Nat
BY DEF Typed, TypeOK, RowsTyped, WantTyped, ModelRow, NdRow, KwseRow, Wanted

\* A library row is of no more runs than storage has.
LEMMA StoredUpTo ==
    ASSUME Typed, RecordedIsStored, NEW r \in Reaches, nd[r] # None
    PROVE  nd[r].q <= swept[r][nd[r].model]
BY SweptIsNat DEF Typed, TypeOK, RowsTyped, NdRow, RecordedIsStored

\* What a statement on reach_processing does to a request.
LEMMA RequestColumn ==
    ASSUME NEW p \in ProcRow
    PROVE  /\ Requested(p).requested
           /\ Unmarked(p).requested = p.requested
           /\ Failed(p).requested = p.requested
           /\ Forgiven(p).requested = p.requested
           /\ \A b \in BOOLEAN : [Unmarked(p) EXCEPT !.blocked = b].requested = p.requested
           /\ \A s, j : Marked(p, s, j).requested = p.requested
<1>1. Unmarked(p) \in ProcRow BY ProcOps
<1>. QED BY <1>1 DEF Requested, Unmarked, Failed, Forgiven, Marked, ProcRow

\* Only the start of a check takes a request away.
LEMMA RequestsStay ==
    ASSUME Typed, [Next]_vars, ~StartCheck
    PROVE  \A r \in Reaches : proc[r].requested => proc'[r].requested
<1>0. proc \in [Reaches -> ProcRow] BY DEF Typed, TypeOK, ProcTyped
<1>. DEFINE Goal == \A r \in Reaches : proc[r].requested => proc'[r].requested
<1>1. ASSUME UNCHANGED proc PROVE Goal BY <1>1
<1>2. ASSUME NEW s \in Reaches, NEW p, proc' = [proc EXCEPT ![s] = p],
             proc[s].requested => p.requested
      PROVE  Goal
  BY <1>0, <1>2
<1>3. CASE Poll
  <2>1. ASSUME NEW r \in todo, PollLost(r) \/ PollSucceeded(r) \/ PollFailed(r) PROVE Goal
    <3>1. r \in Reaches BY DEF Typed, TypeOK, LoopTyped
    <3>2. proc' = [proc EXCEPT ![r] = Unmarked(proc[r])] \/ proc' = [proc EXCEPT ![r] = Failed(proc[r])]
      BY <2>1 DEF PollLost, PollSucceeded, PollFailed, PollCommit
    <3>. QED BY <1>0, <1>2, <3>1, <3>2, RequestColumn
  <2>. QED BY <1>1, <1>3, <2>1 DEF Poll, PollRunning, PollUnknown
<1>4. CASE BeginPass \/ ListDue \/ EndPass BY <1>1, <1>4 DEF BeginPass, ListDue, EndPass
<1>5. CASE PollRequest \/ Request
  <2>1. cur \in Reaches /\ proc' = [proc EXCEPT ![cur] = Requested(proc[cur])]
    BY <1>0, <1>5 DEF PollRequest, Request, Typed, Where, CheckPhases
  <2>. QED BY <1>0, <1>2, <2>1, RequestColumn
<1>6. CASE ReadIntent \/ RecordModel \/ RecordNd \/ RecordKwse
  BY <1>1, <1>6 DEF ReadIntent, RecordModel, RecordNd, RecordKwse
<1>7. CASE Notify
  <2>1. \A r \in Reaches : proc'[r] = Requested(proc[r]) \/ proc'[r] = proc[r] BY <1>7 DEF Notify
  <2>. QED BY <1>0, <2>1, RequestColumn
<1>8. CASE Forgive
  <2>1. cur \in Reaches BY <1>8 DEF Forgive, Typed, Where, CheckPhases
  <2>2. proc' = [proc EXCEPT ![cur] = Forgiven(proc[cur])] \/ proc' = [proc EXCEPT ![cur] = proc[cur]]
    BY <1>8 DEF Forgive
  <2>. QED BY <1>0, <1>2, <2>1, <2>2, RequestColumn
<1>9. CASE Act
  <2>1. cur \in Reaches /\ proc[cur] \in ProcRow BY <1>0, <1>9 DEF Act, Typed, Where, CheckPhases
  <2>2. CASE Satisfied
    <3>1. proc' = [proc EXCEPT ![cur] = [Unmarked(proc[cur]) EXCEPT !.blocked = FALSE]]
      BY <2>2 DEF Satisfied
    <3>. QED BY <1>2, <2>1, <3>1, RequestColumn
  <2>3. CASE Await \/ Choose
    <3>1. PICK b : proc' = [proc EXCEPT ![cur] = [proc[cur] EXCEPT !.blocked = b]]
      BY <2>3 DEF Await, Choose
    <3>2. [proc[cur] EXCEPT !.blocked = b].requested = proc[cur].requested BY <2>1 DEF ProcRow
    <3>. QED BY <1>2, <2>1, <3>1, <3>2
  <2>. QED BY <1>9, <2>2, <2>3 DEF Act
<1>10. CASE Submit
  <2>1. cur \in Reaches BY <1>10 DEF Submit, Typed, Where, CheckPhases
  <2>2. UNCHANGED proc \/ proc' = [proc EXCEPT ![cur] = Failed(proc[cur])]
    BY <1>10 DEF Submit, SubmitAccepted, SubmitNothing, SubmitRaises, SubmitTimesOut
  <2>. QED BY <1>0, <1>1, <1>2, <2>1, <2>2, RequestColumn
<1>11. CASE Mark
  <2>1. cur \in Reaches /\ proc' = [proc EXCEPT ![cur] = Marked(proc[cur], note.gap.step, note.ref)]
    BY <1>11 DEF Mark, Typed, Where, CheckPhases
  <2>. QED BY <1>0, <1>2, <2>1, RequestColumn
<1>12. CASE Crash \/ Restart \/ Jobs \/ Decide
  BY <1>1, <1>12
  DEF Crash, Restart, Jobs, Publish, Succeed, SucceedHollow, FailJob, End, Decide, Skip, LeaveAlone,
      Resolve
<1>13. CASE People
  <2>1. ASSUME NEW r \in Reaches, ClearHalt(r) PROVE Goal
    <3>1. proc' = [proc EXCEPT ![r] = [Requested(Forgiven(proc[r])) EXCEPT !.halted = FALSE]]
      BY <2>1 DEF ClearHalt
    <3>2. Requested(Forgiven(proc[r])) \in ProcRow /\ Requested(Forgiven(proc[r])).requested
      BY <1>0, ProcOps, RequestColumn
    <3>3. [Requested(Forgiven(proc[r])) EXCEPT !.halted = FALSE].requested BY <3>2 DEF ProcRow
    <3>. QED BY <1>2, <3>1, <3>3
  <2>2. ASSUME NEW r \in Reaches, RetryTime(r) PROVE Goal
    <3>1. proc' = [proc EXCEPT ![r] = [proc[r] EXCEPT !.resting = FALSE]] BY <2>2 DEF RetryTime
    <3>2. [proc[r] EXCEPT !.resting = FALSE].requested = proc[r].requested BY <1>0 DEF ProcRow
    <3>. QED BY <1>2, <3>1, <3>2
  <2>. QED BY <1>1, <1>13, <2>1, <2>2 DEF People, Author, ChangeDefaults, EditLookup, Withdraw
<1>14. CASE UNCHANGED vars BY <1>1, <1>14 DEF vars
<1>. QED
  BY <1>3, <1>4, <1>5, <1>6, <1>7, <1>8, <1>9, <1>10, <1>11, <1>12, <1>13, <1>14
  DEF Next, Loop, Pass, Check
\* Steps that neither record, nor start a check, nor tell, nor author.
LEMMA OthersHeed ==
    ASSUME Typed, Telling, [Next]_vars, NEW r \in Reaches, Heeded(r),
           ~(RecordNd \/ RecordKwse \/ StartCheck \/ Notify \/ Crash \/ People)
    PROVE  Heeded(r)'
<1>0. note \in Note BY DEF Typed, TypeOK, LoopTyped
<1>1. proc[r].requested => proc'[r].requested BY RequestsStay
<1>2. ASSUME UNCHANGED <<want, nd, kw>>, UNCHANGED <<cur, pc>>, note'.tell = note.tell
      PROVE  Heeded(r)'
  BY <1>1, <1>2, HeededStays DEF Kept, Current, Applied
<1>3. ASSUME UNCHANGED <<want, nd, kw>>, ~note.tell, pc \notin StillToObserveKwse PROVE Heeded(r)'
  BY <1>1, <1>3, HeededStays DEF Kept, Current, Applied
<1>4. CASE Jobs \/ UNCHANGED vars
  BY <1>2, <1>4 DEF Jobs, Publish, Succeed, SucceedHollow, FailJob, End, loop, db, vars
<1>5. CASE ReadIntent \/ RecordModel
  <2>1. UNCHANGED <<want, nd, kw, cur>> /\ pc \in StillToObserveKwse /\ pc' \in StillToObserveKwse
    BY <1>5 DEF ReadIntent, RecordModel, StillToObserveKwse, db
  <2>2. note'.tell = note.tell BY <1>0, <1>5 DEF ReadIntent, RecordModel, Note
  <2>. QED BY <1>1, <2>1, <2>2, HeededStays DEF Kept, Current, Applied
<1>6. CASE Pass \/ Restart \/ Forgive \/ Decide \/ Act \/ Submit \/ Mark \/ Request
  <2>1. UNCHANGED <<want, nd, kw>>
    BY <1>6
    DEF Pass, BeginPass, Poll, PollRunning, PollUnknown, PollLost, PollSucceeded, PollFailed,
        PollCommit, PollRequest, ListDue, EndPass, Restart, Forgive, Decide, Act, Submit, Mark,
        Request, db
  <2>2. pc \in {"asleep", "poll", "pollRequest", "check", "exited", "down", "forgive", "decide",
                "act", "submit", "mark", "request"}
    BY <1>6
    DEF Pass, BeginPass, Poll, PollRequest, ListDue, EndPass, Restart, Forgive, Decide, Act, Submit,
        Mark, Request
  <2>3. ~note.tell /\ pc \notin StillToObserveKwse BY <1>0, <2>2 DEF Telling, StillToObserveKwse, Note
  <2>. QED BY <1>3, <2>1, <2>3
<1>. QED BY <1>4, <1>5, <1>6 DEF Next, Loop, Check

\* A check of r itself is as good as a request, and of another changes nothing.
LEMMA StartHeeds ==
    ASSUME Typed, Telling, StartCheck, NEW r \in Reaches, Heeded(r)
    PROVE  Heeded(r)'
<1>0. note \in Note /\ proc \in [Reaches -> ProcRow] /\ UNCHANGED <<want, nd, kw, note>>
  BY DEF StartCheck, Typed, TypeOK, LoopTyped, ProcTyped, db
<1>1. ~note.tell /\ pc \notin StillToObserveKwse
  BY <1>0 DEF StartCheck, Telling, StillToObserveKwse, Note
<1>2. PICK s \in todo : cur' = s /\ proc' = [proc EXCEPT ![s].seen = "checked", ![s].requested = FALSE]
  BY DEF StartCheck
<1>3. pc' \in StillToObserveKwse BY DEF StartCheck, StillToObserveKwse
<1>4. r # s => proc'[r] = proc[r] BY <1>0, <1>2
<1>. QED BY <1>0, <1>1, <1>2, <1>3, <1>4, HeededStays DEF Kept, Current, Applied

\* Telling the reaches above leaves them a request.
LEMMA NotifyHeeds ==
    ASSUME Typed, Notify, NEW r \in Reaches, Heeded(r)
    PROVE  Heeded(r)'
<1>0. proc \in [Reaches -> ProcRow] /\ UNCHANGED <<want, nd, kw, cur>>
  BY DEF Notify, Typed, TypeOK, ProcTyped, db
<1>1. proc'[r] = IF Told(r) THEN Requested(proc[r]) ELSE proc[r] BY DEF Notify
<1>2. proc[r].requested \/ Told(r) => proc'[r].requested BY <1>0, <1>1, RequestColumn
<1>3. pc \notin StillToObserveKwse BY DEF Notify, StillToObserveKwse
<1>4. Kept(r) => Kept(r)'
  BY <1>0, <1>2, <1>3 DEF Kept, Current, Applied, Told
<1>. QED BY <1>0, <1>4, HeededStays

\* An intent that moves takes its revision away from the rows of the reach.
LEMMA PeopleHeed ==
    ASSUME Typed, Typed', People, NEW r \in Reaches, Heeded(r), Draining, Calm, Calm',
           \A s \in Reaches : Behind(s) /\ Moved(s), [Next]_vars
    PROVE  Heeded(r)'
<1>0. UNCHANGED <<nd, kw, cur, pc, note>>
  <2>1. \A s \in Reaches : ~Withdraw(s) BY SpendsMark DEF Withdraw, Calm
  <2>. QED
    BY <2>1 DEF People, Author, ChangeDefaults, EditLookup, ClearHalt, RetryTime, db, loop
<1>1. proc[r].requested => proc'[r].requested BY <1>0, RequestsStay DEF StartCheck
<1>2. ASSUME NEW s \in Reaches
      PROVE  /\ nd[s] \in NdRow \union {None} /\ kw[s] \in KwseRow \union {None}
             /\ nd[s] # None => nd[s].rev \in Int
             /\ kw[s] # None => kw[s].rev \in Int
             /\ want[s] # None => want[s].rev \in Nat
             /\ want'[s] # None => want'[s].rev \in Nat
  BY DEF Typed, TypeOK, RowsTyped, WantTyped, NdRow, KwseRow, Wanted
<1>3. ASSUME NEW s \in Reaches
      PROVE  /\ Applied(nd[s], want[s])' => Applied(nd[s], want[s]) /\ want'[s] = want[s]
             /\ Applied(kw[s], want[s])' => Applied(kw[s], want[s]) /\ want'[s] = want[s]
  <2>1. Behind(s) /\ Moved(s) OBVIOUS
  <2>. QED BY <1>0, <1>2, <2>1 DEF Applied, Behind, Moved
<1>. SUFFICES ASSUME kw'[r] # None, Applied(nd[r], want[r])', Applied(kw[r], want[r])', ~Kept(r)'
              PROVE  PlannedFor(r)'
  BY DEF Heeded
<1>4. Below[r] \in Reaches BY <1>0 DEF Draining
<1>5. Current(Below[r])' BY DEF Kept
<1>6. Current(Below[r]) /\ want'[Below[r]] = want[Below[r]]
  BY <1>3, <1>4, <1>5 DEF Current
<1>7. Applied(nd[r], want[r]) /\ Applied(kw[r], want[r]) /\ ~Kept(r)
  BY <1>0, <1>1, <1>3, <1>6 DEF Kept
<1>8. PlannedFor(r) BY <1>0, <1>7 DEF Heeded
<1>9. \A c : PlanOn(r, c)' = PlanOn(r, c) BY <1>0, <1>6 DEF PlanOn, StagesOf
<1>. QED BY <1>0, <1>8, <1>9 DEF PlannedFor

\* A normal-depth library that is written anew is told of, or keeps the set that
\* intent keeps and has gained no more than runs it passes over.
LEMMA RecordNdHeeds ==
    ASSUME Typed, Typed', Telling, [Next]_vars, RecordNd, Compared, Draining, NEW r \in Reaches, Heeded(r),
           RecordedIsStored, \A s \in Reaches : Behind(s) /\ Behind(s)'
    PROVE  Heeded(r)'
<1>0. /\ nd \in [Reaches -> NdRow \union {None}] /\ cur \in Reaches /\ note \in Note
      /\ UNCHANGED <<want, kw, cur, mm, swept>>
  BY DEF RecordNd, Typed, TypeOK, RowsTyped, LoopTyped, Where, CheckPhases, storage
<1>1. proc[r].requested => proc'[r].requested BY RequestsStay DEF RecordNd, StartCheck
<1>2. CASE cur = r
  BY <1>2 DEF RecordNd, Heeded, Kept, StillToObserveKwse
<1>. DEFINE row == NdRowOf(note.wanted)
<1>3. nd' = [nd EXCEPT ![cur] = row] /\ note'.tell = NdChanged(row)
  BY <1>0 DEF RecordNd, Note
<1>4. NdChanged(row) <=> \/ (row = None) # (nd[cur] = None)
                         \/ row # None /\ nd[cur] # None /\ <<row.qs, row.rev>> # <<nd[cur].qs, nd[cur].rev>>
  BY DEF NdChanged, RecordNd, Compared, Before
<1>5. row # None => row.q = swept[cur][row.model] BY DEF NdRowOf
<1>. HIDE DEF row
<1>. SUFFICES ASSUME kw[r] # None, cur # r, Applied(nd[r], want[r])', Applied(kw[r], want[r])', ~Kept(r)'
              PROVE  PlannedFor(r)'
  BY <1>0, <1>2 DEF Heeded
<1>6. Below[r] \in Reaches BY DEF Draining
<1>7. Current(Below[r])' BY DEF Kept
<1>8. CASE cur # Below[r]
  <2>1. nd'[r] = nd[r] /\ nd'[Below[r]] = nd[Below[r]] BY <1>0, <1>3, <1>6, <1>8
  <2>2. ~Kept(r) BY <1>0, <1>1, <1>7, <1>8, <2>1 DEF Kept, Current
  <2>3. PlannedFor(r) BY <1>0, <2>1, <2>2 DEF Heeded
  <2>4. \A c : PlanOn(r, c)' = PlanOn(r, c) BY <1>0, <2>1 DEF PlanOn, StagesOf
  <2>. QED BY <1>0, <2>1, <2>3, <2>4 DEF PlannedFor
<1>9. CASE cur = Below[r]
  <2>1. ~NdChanged(row) BY <1>0, <1>3, <1>9 DEF Kept
  <2>2. nd'[r] = nd[r] /\ nd'[cur] = row BY <1>0, <1>3, <1>9
  <2>3. row # None BY <1>7, <1>9, <2>2 DEF Current, Applied
  <2>4. nd[cur] # None /\ row.qs = nd[cur].qs /\ row.rev = nd[cur].rev
    BY <1>4, <2>1, <2>3
  <2>5. Current(cur) BY <1>0, <1>7, <1>9, <2>2, <2>4 DEF Current, Applied
  <2>6. ~note.tell /\ ~Kept(r)
    <3>1. pc = "recordNd" BY DEF RecordNd
    <3>. QED BY <3>1, <1>0, <1>1, <1>9, <2>5 DEF Kept, Telling, Note
  <2>7. PlannedFor(r) BY <1>0, <2>2, <2>6 DEF Heeded
  <2>8. nd[cur].q <= row.q
    <3>1. want[cur] # None /\ nd[cur].rev \in Int /\ want[cur].rev \in Int /\ nd[cur].rev >= want[cur].rev
      BY <1>0, <2>4, <2>5, RevisionsAreNumbers DEF Current, Applied
    <3>2. nd[cur].rev = want[cur].rev
      <4>1. nd[cur].rev <= want[cur].rev BY <1>0, <2>4 DEF Behind
      <4>. QED BY <3>1, <4>1
    <3>3. nd[cur].model = want[cur].model BY <1>0, <2>4, <3>2 DEF Behind
    <3>4. row.model = want[cur].model
      <4>1. Behind(cur)' BY <1>0
      <4>2. nd'[cur] = row /\ want' = want /\ cur' = cur BY <1>0, <2>2
      <4>. QED BY <2>3, <2>4, <3>2, <4>1, <4>2 DEF Behind
    <3>. QED BY <1>0, <1>5, <2>3, <2>4, <3>3, <3>4, StoredUpTo
  <2>9. \A c : PlanOn(r, c)' = PlanOn(r, c)
    BY <1>0, <1>9, <2>2, <2>4 DEF PlanOn, StagesOf
  <2>10. nd[cur].q \in Nat /\ row.q \in Nat
    <3>1. row \in NdRow
      <4>1. nd'[cur] \in NdRow \union {None} BY <1>0 DEF Typed, TypeOK, RowsTyped
      <4>. QED BY <2>2, <2>3, <4>1
    <3>. QED BY <1>0, <2>4, <3>1, ArtifactAssumption DEF NdRow
  <2>11. PICK c \in Discharges : /\ c <= nd[cur].q
                                 /\ \A d \in nd[cur].qs : d <= c
                                 /\ kw[r].stages = PlanOn(r, c)
    BY <1>9, <2>7 DEF PlannedFor
  <2>12. c <= row.q BY <2>8, <2>10, <2>11, ArtifactAssumption
  <2>13. nd'[Below[r]] = row /\ kw'[r] = kw[r] BY <1>0, <1>9, <2>2
  <2>. QED BY <2>4, <2>9, <2>11, <2>12, <2>13 DEF PlannedFor
<1>. QED BY <1>8, <1>9

\* A stage library that is written anew is the plan of the moment, or the intent
\* below has moved since; and it is told of above, or says what it said.
LEMMA RecordKwseHeeds ==
    ASSUME Typed, Typed', [Next]_vars, RecordKwse, Compared, Timely, Planning, Draining', NEW r \in Reaches,
           Heeded(r), RecordedIsStored
    PROVE  Heeded(r)'
<1>0. /\ kw \in [Reaches -> KwseRow \union {None}] /\ cur \in Reaches /\ note \in Note
      /\ UNCHANGED <<want, nd, cur>> /\ pc = "recordKwse"
  BY DEF RecordKwse, Typed, TypeOK, RowsTyped, LoopTyped, Where, CheckPhases
<1>1. proc[r].requested => proc'[r].requested BY RequestsStay DEF RecordKwse, StartCheck
<1>. DEFINE row == KwseRowOf(note.wanted)
<1>2. kw' = [kw EXCEPT ![cur] = row] /\ note'.tell = (note.tell \/ KwseChanged(row))
  BY <1>0 DEF RecordKwse, Note
<1>3. KwseChanged(row) <=>
         \/ (row = None) # (kw[cur] = None)
         \/ row # None /\ kw[cur] # None /\ <<row.stages, row.rev>> # <<kw[cur].stages, kw[cur].rev>>
  BY DEF KwseChanged, RecordKwse, Compared, Before
<1>4. row # None =>
        row.stages = Planned(cur) \/ ~Applied(nd[Below[cur]], want[Below[cur]])
  BY <1>0, PlanHeld DEF KwseRowOf, KwseFound, Timely
<1>. HIDE DEF row
<1>. SUFFICES ASSUME kw'[r] # None, Applied(nd[r], want[r])', Applied(kw[r], want[r])', ~Kept(r)'
              PROVE  PlannedFor(r)'
  BY DEF Heeded
<1>5. Below[r] \in Reaches BY DEF Draining
<1>6. Current(Below[r])' BY DEF Kept
<1>7. StagesOf(Below[r])' = StagesOf(Below[r])
  <2>1. CASE cur # Below[r] BY <1>0, <1>2, <1>5, <2>1 DEF StagesOf
  <2>2. CASE cur = Below[r]
    <3>1. ~KwseChanged(row) BY <1>0, <1>2, <2>2 DEF Kept
    <3>2. kw'[cur] = row BY <1>0, <1>2
    <3>. QED BY <1>3, <2>2, <3>1, <3>2 DEF StagesOf
  <2>. QED BY <2>1, <2>2
<1>8. \A c : PlanOn(r, c)' = PlanOn(r, c) BY <1>0, <1>7 DEF PlanOn
<1>9. CASE cur = r
  <2>1. Applied(nd[Below[r]], want[Below[r]]) BY <1>0, <1>6 DEF Current, Applied
  <2>2. kw'[r] = row /\ row # None BY <1>0, <1>2, <1>9
  <2>3. row.stages = PlanOn(r, nd[Below[r]].q) BY <1>4, <1>9, <2>1, <2>2 DEF Planned
  <2>4. nd[Below[r]] # None /\ nd[Below[r]] \in NdRow
    BY <1>5, <2>1 DEF Applied, Typed, TypeOK, RowsTyped
  <2>5. nd[Below[r]].q \in Discharges /\ nd[Below[r]].q \in Nat
    BY <2>4, ArtifactAssumption DEF NdRow
  <2>6. \A d \in nd[Below[r]].qs : d <= nd[Below[r]].q BY <1>5, <2>4, <2>5 DEF RecordedIsStored
  <2>. QED BY <1>0, <1>8, <2>2, <2>3, <2>5, <2>6 DEF PlannedFor
<1>10. CASE cur # r
  <2>1. kw'[r] = kw[r] BY <1>0, <1>2, <1>10
  <2>2. Current(Below[r])
    <3>1. CASE cur # Below[r] BY <1>0, <1>2, <1>5, <1>6, <3>1 DEF Current
    <3>2. CASE cur = Below[r]
      <4>1. ~KwseChanged(row) /\ kw'[cur] = row BY <1>0, <1>2, <3>2 DEF Kept
      <4>. QED BY <1>0, <1>3, <1>6, <3>2, <4>1 DEF Current, Applied
    <3>. QED BY <3>1, <3>2
  <2>3. ~Kept(r) BY <1>0, <1>1, <1>2, <1>10, <2>2 DEF Kept
  <2>4. PlannedFor(r) BY <1>0, <2>1, <2>3 DEF Heeded
  <2>. QED BY <1>0, <1>8, <2>1, <2>4 DEF PlannedFor
<1>. QED BY <1>9, <1>10

\* Whatever happens, while nobody dies or deletes an intent, every reach is heeded.
LEMMA StepHeeding ==
    Typed /\ Planning /\ Telling /\ Draining /\ Fresh /\ RecordedIsStored /\ Heeding /\ [Next]_vars
        => Heeding'
<1>. SUFFICES ASSUME Typed, Planning, Telling, Draining, Fresh, RecordedIsStored, Heeding, [Next]_vars, Calm'
              PROVE  Compared' /\ Timely' /\ \A r \in Reaches : Heeded(r)'
  BY DEF Heeding
<1>1. Calm BY CalmBefore
<1>2. Compared /\ Timely /\ \A r \in Reaches : Heeded(r) BY <1>1 DEF Heeding
<1>3. Typed' /\ Draining' /\ Fresh' BY StepTyped, StepDraining, StepFresh
<1>4. \A r \in Reaches : Behind(r) /\ Moved(r) /\ Behind(r)' BY <1>1, <1>3, RevisionsMove DEF Fresh, Calm
<1>5. Compared' BY <1>2, StepCompared DEF Calm
<1>6. Timely' BY <1>2, <1>3, <1>4, StepTimely DEF Calm, Typed, TypeOK
<1>7. ~Crash BY <1>1 DEF Crash, Spend, Calm, Typed, TypeOK, SpentTyped
<1>8. ASSUME NEW r \in Reaches PROVE Heeded(r)'
  <2>1. CASE RecordNd BY <1>2, <1>3, <1>4, <2>1, RecordNdHeeds
  <2>2. CASE RecordKwse BY <1>2, <1>3, <2>2, RecordKwseHeeds
  <2>3. CASE StartCheck BY <1>2, <2>3, StartHeeds
  <2>4. CASE Notify BY <1>2, <2>4, NotifyHeeds
  <2>5. CASE People BY <1>1, <1>2, <1>3, <1>4, <2>5, PeopleHeed
  <2>. QED BY <1>2, <1>7, <2>1, <2>2, <2>3, <2>4, <2>5, OthersHeed
<1>. QED BY <1>5, <1>6, <1>8

\* No stale stage library goes unnoticed: whatever people author, jobs publish
\* and SEPEX loses between any two commits of the loop, a proved stage library
\* that is not the plan its downstream reach now implies is looked at again, or
\* was the plan before that reach gained runs its intent passes over.
THEOREM StaleLibrariesAreNoticed == Spec => []StaleIsNoticed
<1>1. Typed /\ Draining /\ Fresh /\ Heeding => StaleIsNoticed
  <2>. SUFFICES ASSUME Typed, Draining, Fresh, Heeding, Calm, NEW r \in Reaches, Stale(r), ~Noticed(r)
                PROVE  Outgrown(r)
    BY DEF StaleIsNoticed, Calm, Untouched
  <2>1. /\ r \notin Terminals /\ want[r] # None
        /\ Applied(mm[r], want[r]) /\ Applied(nd[r], want[r]) /\ Applied(kw[r], want[r])
    BY DEF Stale, Proved
  <2>2. Below[r] \in Reaches /\ mm[r] # None /\ nd[r] # None /\ kw[r] # None
    BY <2>1 DEF Draining, Applied
  <2>3. want[Below[r]] # None /\ Proved(Below[r]) BY DEF Noticed
  <2>4. nd[Below[r]] # None /\ Current(Below[r]) BY <2>3 DEF Proved, Current, Applied
  <2>5. want[r].dz
    <3>1. Behind(r) BY DEF Fresh, Calm
    <3>2. kw[r].rev \in Int /\ want[r].rev \in Int
      BY <2>1, <2>2 DEF Typed, TypeOK, RowsTyped, WantTyped, KwseRow, Wanted
    <3>. QED BY <2>1, <2>2, <3>1, <3>2 DEF Behind, Applied
  <2>6. Plannable(r) BY <2>1, <2>2, <2>3, <2>4, <2>5, NetworkAssumption DEF Plannable
  <2>7. ~Kept(r) BY <2>4 DEF Noticed, Kept
  <2>8. PlannedFor(r) BY <2>1, <2>2, <2>7 DEF Heeding, Heeded
  <2>9. kw[r].stages # Planned(r) BY <2>6 DEF Stale
  <2>10. nd[Below[r]].q \in Nat /\ \A c \in Discharges : c \in Nat
    BY <2>2, <2>4, ArtifactAssumption DEF Typed, TypeOK, RowsTyped, NdRow
  <2>. QED BY <2>6, <2>8, <2>9, <2>10 DEF PlannedFor, Planned, Outgrown
<1>2. Spec => [](Typed /\ Planning /\ Telling /\ Draining /\ Fresh /\ RecordedIsStored)
  BY TypedHolds, InitPlanning, StepPlanning, InitHeeding, StepTelling, StepDraining, InitFresh, StepFresh,
     RowsAreBacked, PTL DEF Spec
<1>. QED BY <1>1, <1>2, InitHeeding, StepHeeding, PTL DEF Spec

-----------------------------------------------------------------------------
(* What looks finished answers intent, deletions and all *)

\* Nobody died or moved an intent under its revision; deleting one is allowed.
Steady == spent.crashes = 0 /\ spent.lookups = 0

\* A row that cannot count as applied, whatever is authored next.
Low(row) == row # None => row.rev < 0

\* A row says no more than intent does: it carries no revision intent has yet to
\* reach, and the one in force only if it is what is asked for.
Honest(row, r, match) ==
    row # None =>
        IF want[r] = None THEN row.rev < 0
        ELSE /\ row.rev <= want[r].rev
             /\ row.rev = want[r].rev => match

HonestModel(r) == Honest(mm[r], r, mm[r].model = want[r].model)
HonestNd(r) == Honest(nd[r], r, nd[r].model = want[r].model /\ nd[r].q >= want[r].q)
HonestKwse(r) == Honest(kw[r], r, kw[r].model = want[r].model /\ want[r].dz)

LooksForNd(r) == cur = r /\ pc \in {"readNd", "recordNd"}
LooksForKwse(r) == cur = r /\ pc \in {"readKwse", "recordKwse"}

\* One row at most says too much.  It is kept from making its reach look finished
\* by a row that cannot count as applied, or by the check that wrote it, which is
\* still to replace one; a model row that says too much is contradicted by a
\* normal-depth row that counts.
Settling(r) ==
    /\ ~HonestModel(r) =>
          /\ HonestNd(r) /\ HonestKwse(r)
          /\ nd[r] # None => nd[r].rev < 0 \/ nd[r].model = mm[r].model
    /\ ~HonestNd(r) => HonestKwse(r) /\ (Low(mm[r]) \/ LooksForNd(r))
    /\ ~HonestKwse(r) => (Low(nd[r]) /\ (Low(mm[r]) \/ LooksForNd(r))) \/ LooksForKwse(r)

\* The intent an observation holds is one intent in force has come from, or it was
\* deleted since, which took the revision from every row.
HeldSince ==
    /\ want[cur] # None
    /\ note.wanted.rev <= want[cur].rev
    /\ note.wanted.rev = want[cur].rev => note.wanted = want[cur]

HeldOrGone ==
    note.wanted # None =>
        /\ pc \in {"recordModel", "recordNd", "recordKwse"}
        /\ HeldSince \/ (Low(mm[cur]) /\ Low(nd[cur]) /\ Low(kw[cur]))

Settles == Steady => HeldOrGone /\ \A r \in Reaches : Settling(r)

\* At first nothing is recorded and nothing is held.
LEMMA InitSettles == Init => Settles
BY DEF Init, Settles, HeldOrGone, Settling, HonestModel, HonestNd, HonestKwse, Honest, Low, Blank

\* While steady, it had been steady before.
LEMMA SteadyBefore ==
    ASSUME Typed, [Next]_vars, Steady'
    PROVE  Steady /\ ~Spend("crashes") /\ ~Spend("lookups")
<1>. USE DEF Steady
<1>1. ASSUME NEW f \in {"edits", "withdrawals", "lookups", "faults", "crashes"}, Spend(f)
      PROVE  Steady /\ f \notin {"crashes", "lookups"}
  <2>. USE <1>1 DEF Typed, TypeOK, SpentTyped, Spend
  <2>1. CASE f = "edits" BY <2>1
  <2>2. CASE f = "withdrawals" BY <2>2
  <2>3. CASE f = "lookups" BY <2>3
  <2>4. CASE f = "faults" BY <2>4
  <2>5. CASE f = "crashes" BY <2>5
  <2>. QED BY <2>1, <2>2, <2>3, <2>4, <2>5
<1>. QED BY <1>1, SpentSteps

\* Intent moves when it is authored, with no row changing, or when it is deleted;
\* rows change when they are recorded, with intent as it was, or with a deletion.
LEMMA SteadyMoves ==
    ASSUME Typed, [Next]_vars, Steady'
    PROVE  \/ UNCHANGED db /\ \A r \in Reaches : Moved(r)
           \/ RecordModel \/ RecordNd \/ RecordKwse
           \/ \E r \in Reaches : Withdraw(r)
<1>1. ~Spend("crashes") /\ ~Spend("lookups") BY SteadyBefore
<1>2. ASSUME UNCHANGED want PROVE \A r \in Reaches : Moved(r)
  BY <1>2 DEF Moved, Typed, TypeOK, WantTyped, Wanted
<1>3. CASE Pass
  BY <1>2, <1>3
  DEF Pass, BeginPass, Poll, PollRunning, PollUnknown, PollLost, PollSucceeded, PollFailed,
      PollCommit, PollRequest, ListDue, EndPass, db
<1>4. CASE Check
  BY <1>2, <1>4
  DEF Check, StartCheck, ReadIntent, Notify, Forgive, Decide, Act, Submit, Mark, Request, db
<1>5. CASE Crash \/ Restart BY <1>1, <1>2, <1>5 DEF Crash, Restart, db
<1>6. CASE Jobs BY <1>2, <1>6 DEF Jobs, Publish, Succeed, SucceedHollow, FailJob, End, db
<1>7. ASSUME NEW A \in SUBSET Reaches, NEW i \in Intents, Author(A, i) \/ ChangeDefaults(A, i)
      PROVE  UNCHANGED db /\ \A r \in Reaches : Moved(r)
  BY <1>7, AuthoringMoves DEF Author, ChangeDefaults, db
<1>8. CASE People
  BY <1>1, <1>2, <1>7, <1>8 DEF People, EditLookup, ClearHalt, RetryTime, db
<1>9. CASE UNCHANGED vars BY <1>2, <1>9 DEF vars, db
<1>. QED BY <1>3, <1>4, <1>5, <1>6, <1>8, <1>9 DEF Next, Loop

\* A check leaves the place where it looks for a library by recording one.
LEMMA LooksOn ==
    ASSUME [Next]_vars, ~RecordNd, ~RecordKwse, ~Crash, NEW r \in Reaches
    PROVE  /\ LooksForNd(r) => LooksForNd(r)'
           /\ LooksForKwse(r) => LooksForKwse(r)'
<1>. USE DEF LooksForNd, LooksForKwse
<1>1. CASE Pass
  BY <1>1
  DEF Pass, BeginPass, Poll, PollRunning, PollUnknown, PollLost, PollSucceeded, PollFailed,
      PollCommit, PollRequest, ListDue, EndPass
<1>2. CASE Check
  BY <1>2
  DEF Check, StartCheck, ReadIntent, RecordModel, Notify, Forgive, Decide, Act, Submit, Mark, Request
<1>3. CASE Restart BY <1>3 DEF Restart
<1>4. Jobs => UNCHANGED loop BY DEF Jobs, Publish, Succeed, SucceedHollow, FailJob, End
<1>5. People => UNCHANGED loop
  BY DEF People, Author, ChangeDefaults, EditLookup, Withdraw, ClearHalt, RetryTime
<1>6. UNCHANGED vars => UNCHANGED loop BY DEF vars, loop
<1>. QED BY <1>1, <1>2, <1>3, <1>4, <1>5, <1>6 DEF Next, Loop, loop

\* Authoring takes honesty from no row.
LEMMA HonestyKept ==
    ASSUME Typed, NEW r \in Reaches, Moved(r), WantTyped',
           mm'[r] = mm[r], nd'[r] = nd[r], kw'[r] = kw[r]
    PROVE  /\ HonestModel(r) => HonestModel(r)'
           /\ HonestNd(r) => HonestNd(r)'
           /\ HonestKwse(r) => HonestKwse(r)'
<1>1. want'[r] # None => want'[r].rev \in Nat BY DEF WantTyped, Wanted
<1>2. HonestModel(r) => HonestModel(r)' BY <1>1, RevisionsAreNumbers DEF HonestModel, Honest, Moved
<1>3. HonestNd(r) => HonestNd(r)' BY <1>1, RevisionsAreNumbers DEF HonestNd, Honest, Moved
<1>4. HonestKwse(r) => HonestKwse(r)' BY <1>1, RevisionsAreNumbers DEF HonestKwse, Honest, Moved
<1>. QED BY <1>2, <1>3, <1>4

\* A row without a revision is honest.
LEMMA LowIsHonest ==
    ASSUME Typed, NEW r \in Reaches
    PROVE  /\ Low(mm[r]) => HonestModel(r)
           /\ Low(nd[r]) => HonestNd(r)
           /\ Low(kw[r]) => HonestKwse(r)
BY RevisionsAreNumbers DEF Low, HonestModel, HonestNd, HonestKwse, Honest

\* A reach that is not being checked keeps its rows while another's are recorded.
LEMMA OthersSettle ==
    ASSUME Typed, RecordModel \/ RecordNd \/ RecordKwse, NEW r \in Reaches, r # cur, Settling(r)
    PROVE  Settling(r)'
<1>1. mm'[r] = mm[r] /\ nd'[r] = nd[r] /\ kw'[r] = kw[r] /\ want' = want
  BY DEF RecordModel, RecordNd, RecordKwse, Typed, TypeOK, RowsTyped
<1>2. cur' = cur BY DEF RecordModel, RecordNd, RecordKwse
<1>3. HonestModel(r)' = HonestModel(r) /\ HonestNd(r)' = HonestNd(r) /\ HonestKwse(r)' = HonestKwse(r)
  BY <1>1 DEF HonestModel, HonestNd, HonestKwse, Honest
<1>4. ~LooksForNd(r) /\ ~LooksForKwse(r) BY DEF LooksForNd, LooksForKwse
<1>. QED BY <1>1, <1>3, <1>4 DEF Settling, Low

\* The model row is recorded: either it is honest, or the other two have lost
\* their revisions, and the normal-depth row is replaced next.
LEMMA ModelSettles ==
    ASSUME Typed, RecordModel, HeldOrGone, Settling(cur)
    PROVE  Settling(cur)'
<1>. USE DEF Typed, TypeOK
<1>. DEFINE w == note.wanted
            row == IF w # None /\ w.model \in built[cur]
                   THEN [model |-> w.model, rev |-> RowRevision(w)] ELSE None
<1>1. cur \in Reaches /\ cur' = cur /\ want' = want /\ nd' = nd /\ kw' = kw /\ pc = "recordModel"
  BY DEF RecordModel, Where, CheckPhases
<1>2. mm'[cur] = row BY <1>1 DEF RecordModel, RowsTyped
<1>3. row # None => w # None /\ row.model = w.model /\ row.rev = w.rev BY DEF RowRevision
<1>. HIDE DEF row
<1>4. LooksForNd(cur)' /\ ~LooksForNd(cur) /\ ~LooksForKwse(cur)
  BY <1>1 DEF RecordModel, LooksForNd, LooksForKwse
<1>5. HonestNd(cur)' = HonestNd(cur) /\ HonestKwse(cur)' = HonestKwse(cur)
  BY <1>1 DEF HonestNd, HonestKwse, Honest
<1>6. w # None /\ HeldSince => HonestModel(cur)'
  BY <1>1, <1>2, <1>3 DEF HeldSince, HonestModel, Honest
<1>7. ~HonestModel(cur)' => Low(nd[cur]) /\ Low(kw[cur])
  BY <1>1, <1>2, <1>3, <1>6 DEF HeldOrGone, HonestModel, Honest
<1>8. ~HonestModel(cur)' => HonestNd(cur) /\ HonestKwse(cur) BY <1>1, <1>7, LowIsHonest
<1>9. ~HonestModel(cur)' => (nd'[cur] # None => nd'[cur].rev < 0) BY <1>1, <1>7 DEF Low
<1>10. ~HonestNd(cur) => HonestKwse(cur) BY DEF Settling
<1>11. ~HonestKwse(cur) => Low(nd[cur]) BY <1>4 DEF Settling
<1>. QED BY <1>1, <1>4, <1>5, <1>8, <1>9, <1>10, <1>11 DEF Settling

\* The normal-depth row is recorded, under the model the model row names: either
\* it is honest, or the other two have lost their revisions.
LEMMA NdSettles ==
    ASSUME Typed, RecordNd, HeldOrGone, Settling(cur)
    PROVE  Settling(cur)'
<1>. USE DEF Typed, TypeOK
<1>. DEFINE w == note.wanted
            row == NdRowOf(w)
<1>1. cur \in Reaches /\ cur' = cur /\ want' = want /\ mm' = mm /\ kw' = kw /\ pc = "recordNd"
  BY DEF RecordNd, Where, CheckPhases
<1>2. nd'[cur] = row BY <1>1 DEF RecordNd, RowsTyped
<1>3. row # None => /\ w # None /\ row.model = w.model /\ row.rev = w.rev /\ row.q >= w.q
                    /\ row.model = mm[cur].model
  BY DEF NdRowOf, NdFound, ModelAgrees, RowRevision
<1>. HIDE DEF row
<1>4. LooksForKwse(cur)' BY <1>1 DEF RecordNd, LooksForKwse
<1>5. HonestModel(cur)' = HonestModel(cur) /\ HonestKwse(cur)' = HonestKwse(cur)
  BY <1>1 DEF HonestModel, HonestKwse, Honest
<1>6. w # None /\ HeldSince => HonestNd(cur)'
  BY <1>1, <1>2, <1>3 DEF HeldSince, HonestNd, Honest
<1>7. ~HonestNd(cur)' => Low(mm[cur]) /\ Low(kw[cur])
  BY <1>1, <1>2, <1>3, <1>6 DEF HeldOrGone, HonestNd, Honest
<1>8. ~HonestNd(cur)' => HonestModel(cur) /\ HonestKwse(cur) BY <1>1, <1>7, LowIsHonest
<1>9. ~HonestModel(cur) => HonestNd(cur)' /\ HonestKwse(cur) BY <1>8 DEF Settling
<1>10. nd'[cur] # None => nd'[cur].model = mm'[cur].model BY <1>1, <1>2, <1>3
<1>. QED BY <1>1, <1>4, <1>5, <1>7, <1>8, <1>9, <1>10 DEF Settling

\* The stage row is recorded last: either it is honest, or the other two have
\* lost their revisions and the next check replaces them first.
LEMMA KwseSettles ==
    ASSUME Typed, Planning, RecordKwse, HeldOrGone, Settling(cur)
    PROVE  Settling(cur)'
<1>. USE DEF Typed, TypeOK
<1>. DEFINE w == note.wanted
            row == KwseRowOf(w)
<1>1. cur \in Reaches /\ cur' = cur /\ want' = want /\ mm' = mm /\ nd' = nd /\ pc = "recordKwse"
  BY DEF RecordKwse, Where, CheckPhases
<1>2. kw'[cur] = row BY <1>1 DEF RecordKwse, RowsTyped
<1>3. row # None => w # None /\ row.model = w.model /\ row.rev = w.rev /\ w.dz
  BY DEF KwseRowOf, KwseFound, ModelAgrees, RowRevision, Planning
<1>. HIDE DEF row
<1>4. ~LooksForNd(cur) BY <1>1 DEF LooksForNd
<1>5. HonestModel(cur)' = HonestModel(cur) /\ HonestNd(cur)' = HonestNd(cur)
  BY <1>1 DEF HonestModel, HonestNd, Honest
<1>6. w # None /\ HeldSince => HonestKwse(cur)'
  BY <1>1, <1>2, <1>3 DEF HeldSince, HonestKwse, Honest
<1>7. ~HonestKwse(cur)' => Low(mm[cur]) /\ Low(nd[cur])
  BY <1>1, <1>2, <1>3, <1>6 DEF HeldOrGone, HonestKwse, Honest
<1>8. ~HonestKwse(cur)' => HonestModel(cur) /\ HonestNd(cur) BY <1>1, <1>7, LowIsHonest
<1>9. ~HonestNd(cur) => Low(mm[cur]) BY <1>4 DEF Settling
<1>10. ~HonestModel(cur) =>
         HonestNd(cur) /\ (nd[cur] # None => nd[cur].rev < 0 \/ nd[cur].model = mm[cur].model)
  BY DEF Settling
<1>. QED BY <1>1, <1>5, <1>7, <1>8, <1>9, <1>10 DEF Settling

\* An intent that is held was in force, or is gone with every revision.
LEMMA StepHeldOrGone ==
    ASSUME Typed, Typed', [Next]_vars, Steady', HeldOrGone
    PROVE  HeldOrGone'
<1>. USE DEF Typed, TypeOK
<1>1. CASE note'.wanted = None BY <1>1 DEF HeldOrGone
<1>2. CASE ReadIntent
  <2>1. cur \in Reaches /\ note \in Note /\ pc' \in {"recordModel", "recordNd", "recordKwse"}
    BY <1>2 DEF ReadIntent, Where, CheckPhases, LoopTyped
  <2>2. note'.wanted = want[cur] /\ want' = want /\ cur' = cur BY <1>2, <2>1 DEF ReadIntent, Note
  <2>. QED BY <2>1, <2>2, RevisionsAreNumbers DEF HeldOrGone, HeldSince
<1>3. CASE UNCHANGED loop /\ note'.wanted # None
  <2>0. note' = note /\ pc' = pc /\ cur' = cur /\ note.wanted # None BY <1>3 DEF loop
  <2>1. cur \in Reaches /\ pc \in {"recordModel", "recordNd", "recordKwse"}
    BY <2>0 DEF HeldOrGone, Where, CheckPhases
  <2>2. note.wanted \in Wanted BY <2>0 DEF LoopTyped, Note
  <2>3. CASE UNCHANGED db /\ Moved(cur)
    <3>1. CASE HeldSince
      <4>1. want[cur] \in Wanted /\ want'[cur] \in Wanted
        BY <2>1, <2>3, <3>1 DEF HeldSince, Moved, WantTyped
      <4>2. want[cur].rev \in Nat /\ want'[cur].rev \in Nat /\ note.wanted.rev \in Nat
        BY <2>2, <4>1 DEF Wanted
      <4>3. HeldSince' BY <2>0, <2>3, <3>1, <4>2 DEF HeldSince, Moved
      <4>. QED BY <2>0, <2>1, <4>3 DEF HeldOrGone
    <3>. QED BY <2>0, <2>1, <2>3, <3>1 DEF HeldOrGone, db, Low
  <2>4. ASSUME NEW r \in Reaches, Withdraw(r) PROVE HeldOrGone'
    <3>1. CASE cur = r
      <4>1. Low(mm'[cur]) /\ Low(nd'[cur]) /\ Low(kw'[cur])
        BY <2>1, <2>4, <3>1, WithdrawnRows DEF Low
      <4>. QED BY <2>0, <2>1, <4>1 DEF HeldOrGone, Low
    <3>2. CASE cur # r
      <4>1. UNCHANGED <<mm[cur], nd[cur], kw[cur], want[cur]>>
        BY <2>0, <2>1, <2>4, <3>2, WithdrawnRows
      <4>. QED BY <2>0, <4>1 DEF HeldOrGone, HeldSince, Low
    <3>. QED BY <3>1, <3>2
  <2>5. ~RecordModel /\ ~RecordNd /\ ~RecordKwse
    BY <2>0 DEF RecordModel, RecordNd, RecordKwse
  <2>. QED BY <2>1, <2>3, <2>4, <2>5, SteadyMoves
<1>. QED BY <1>1, <1>2, <1>3, HeldMoves DEF HeldOrGone

\* Every step keeps what settles.
LEMMA StepSettles == Typed /\ Planning /\ Settles /\ [Next]_vars => Settles'
<1>. SUFFICES ASSUME Typed, Planning, Settles, [Next]_vars, Steady'
              PROVE  HeldOrGone' /\ \A r \in Reaches : Settling(r)'
  BY DEF Settles
<1>1. Typed' /\ HeldOrGone /\ (\A r \in Reaches : Settling(r)) /\ ~Crash
  BY StepTyped, SteadyBefore DEF Settles, Crash
<1>2. HeldOrGone' BY <1>1, StepHeldOrGone
<1>3. CASE (RecordModel \/ RecordNd \/ RecordKwse)
  <2>1. cur \in Reaches /\ cur' = cur
    BY <1>3 DEF RecordModel, RecordNd, RecordKwse, Typed, Where, CheckPhases
  <2>2. Settling(cur)' BY <1>1, <1>3, <2>1, ModelSettles, NdSettles, KwseSettles
  <2>. QED BY <1>1, <1>2, <1>3, <2>1, <2>2, OthersSettle
<1>4. ASSUME NEW x \in Reaches, Withdraw(x), NEW r \in Reaches PROVE Settling(r)'
  <2>1. CASE r = x
    <3>1. want'[r] = None BY <1>4, <2>1 DEF Withdraw, Typed, TypeOK, WantTyped
    <3>2. HonestModel(r)' /\ HonestNd(r)' /\ HonestKwse(r)'
      BY <1>4, <2>1, <3>1, WithdrawnRows DEF HonestModel, HonestNd, HonestKwse, Honest
    <3>. QED BY <3>2 DEF Settling
  <2>2. CASE r # x
    <3>1. UNCHANGED <<mm[r], nd[r], kw[r], want[r], cur, pc>>
      BY <1>4, <2>2, WithdrawnRows DEF Withdraw, loop
    <3>. QED BY <1>1, <3>1
         DEF Settling, HonestModel, HonestNd, HonestKwse, Honest, Low, LooksForNd, LooksForKwse
  <2>. QED BY <2>1, <2>2
<1>5. ASSUME UNCHANGED db, NEW r \in Reaches, Moved(r), ~RecordNd, ~RecordKwse PROVE Settling(r)'
  <2>1. mm'[r] = mm[r] /\ nd'[r] = nd[r] /\ kw'[r] = kw[r] BY <1>5 DEF db
  <2>2. /\ HonestModel(r) => HonestModel(r)'
        /\ HonestNd(r) => HonestNd(r)'
        /\ HonestKwse(r) => HonestKwse(r)'
    BY <1>1, <1>5, <2>1, HonestyKept DEF Typed, TypeOK
  <2>3. /\ LooksForNd(r) => LooksForNd(r)'
        /\ LooksForKwse(r) => LooksForKwse(r)'
    BY <1>1, <1>5, LooksOn
  <2>4. Low(mm[r])' = Low(mm[r]) /\ Low(nd[r])' = Low(nd[r]) BY <2>1 DEF Low
  <2>. QED BY <1>1, <2>1, <2>2, <2>3, <2>4 DEF Settling
<1>. QED BY <1>2, <1>3, <1>4, <1>5, SteadyMoves

\* A reach that counts as finished, and whose libraries are not being looked for
\* again, has what its intent asks for, deleted and authored anew as it may be.
THEOREM FinishedIsAsAsked == Spec => []FinishedAnswersIntent
<1>1. Typed /\ Settles => FinishedAnswersIntent
  <2>. SUFFICES ASSUME Typed, Settles, Steady, NEW r \in Reaches, Proved(r), ~BeingObserved(r)
                PROVE  AsAsked(r)
    BY DEF FinishedAnswersIntent, Steady
  <2>1. Settling(r) /\ ~LooksForNd(r) /\ ~LooksForKwse(r)
    BY DEF Settles, BeingObserved, LooksForNd, LooksForKwse
  <2>2. /\ want[r] # None /\ want[r].rev \in Nat
        /\ mm[r] # None /\ mm[r].rev \in Int /\ mm[r].rev >= want[r].rev
        /\ nd[r] # None /\ nd[r].rev \in Int /\ nd[r].rev >= want[r].rev
    BY RevisionsAreNumbers DEF Proved, Applied
  <2>3. ~Low(mm[r]) /\ ~Low(nd[r]) BY <2>2 DEF Low
  <2>4. HonestNd(r) /\ HonestKwse(r) BY <2>1, <2>3 DEF Settling
  <2>5. nd[r].model = want[r].model /\ nd[r].q >= want[r].q BY <2>2, <2>4 DEF HonestNd, Honest
  <2>6. mm[r].model = want[r].model
    <3>1. CASE HonestModel(r) BY <2>2, <3>1 DEF HonestModel, Honest
    <3>2. CASE ~HonestModel(r)
      <4>. nd[r].model = mm[r].model BY <2>1, <2>2, <3>2 DEF Settling
      <4>. QED BY <2>5
    <3>. QED BY <3>1, <3>2
  <2>7. Applied(kw[r], want[r]) => kw[r].model = want[r].model /\ want[r].dz
    BY <2>2, <2>4, RevisionsAreNumbers DEF HonestKwse, Honest, Applied
  <2>. QED BY <2>5, <2>6, <2>7 DEF AsAsked
<1>. QED BY <1>1, TypedHolds, InitPlanning, StepPlanning, InitSettles, StepSettles, PTL DEF Spec
=============================================================================
