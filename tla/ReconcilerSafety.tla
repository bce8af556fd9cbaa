-------------------------- MODULE ReconcilerSafety --------------------------
(***************************************************************************)
(* Proofs of the loop's safety properties, each from an inductive invariant *)
(* that says where in a check the property rests on what is to come; and     *)
(* that reaches never all wait for one another.                              *)
(***************************************************************************)
EXTENDS ReconcilerProofs

\* Every reachable state is typed, by where the loop stands as well.
LEMMA TypedHolds == Spec => []Typed
BY InitTyped, StepTyped, PTL DEF Spec

\* What the statements on reach_processing do to the columns the proofs read.
LEMMA ProcColumns ==
    ASSUME NEW p \in ProcRow
    PROVE  /\ Requested(p).halted = p.halted /\ Requested(p).failures = p.failures
           /\ Requested(p).step = p.step /\ Requested(p).ref = p.ref
           /\ Forgiven(p).halted = p.halted /\ Forgiven(p).failures = 0
           /\ Forgiven(p).step = p.step /\ Forgiven(p).ref = p.ref
           /\ Unmarked(p).halted = p.halted /\ Unmarked(p).failures = p.failures
           /\ Unmarked(p).step = NoStep /\ Unmarked(p).ref = None
           /\ Failed(p).halted => Failed(p).failures >= HaltAfter
           /\ Failed(p).step = NoStep /\ Failed(p).ref = None
           /\ \A step, ref : /\ Marked(p, step, ref).halted = p.halted
                             /\ Marked(p, step, ref).failures = p.failures
                             /\ Marked(p, step, ref).step = step
                             /\ Marked(p, step, ref).ref = ref
<1>. USE DEF ProcRow
<1>1. /\ Requested(p).halted = p.halted /\ Requested(p).failures = p.failures
      /\ Requested(p).step = p.step /\ Requested(p).ref = p.ref
  BY DEF Requested
<1>2. /\ Forgiven(p).halted = p.halted /\ Forgiven(p).failures = 0
      /\ Forgiven(p).step = p.step /\ Forgiven(p).ref = p.ref
  BY DEF Forgiven
<1>3. /\ Unmarked(p).halted = p.halted /\ Unmarked(p).failures = p.failures
      /\ Unmarked(p).step = NoStep /\ Unmarked(p).ref = None
  BY DEF Unmarked
<1>4. /\ Failed(p).halted => Failed(p).failures >= HaltAfter
      /\ Failed(p).step = NoStep /\ Failed(p).ref = None
  <2>1. ASSUME NEW u \in ProcRow, NEW n \in Nat, NEW h \in BOOLEAN
        PROVE  LET f == [u EXCEPT !.failures = n, !.halted = h, !.resting = TRUE]
               IN  f.halted = h /\ f.failures = n /\ f.step = u.step /\ f.ref = u.ref
    BY <2>1
  <2>. DEFINE h == p.failures + 1 >= HaltAfter
              n == Unmarked(p).failures + 1
  <2>2. Failed(p) = [Unmarked(p) EXCEPT !.failures = n, !.halted = h, !.resting = TRUE]
    BY DEF Failed
  <2>3. Unmarked(p) \in ProcRow /\ n \in Nat /\ h \in BOOLEAN /\ (h => n >= HaltAfter)
    BY <1>3, ProcOps
  <2>4. Failed(p).halted = h /\ Failed(p).failures = n
        /\ Failed(p).step = Unmarked(p).step /\ Failed(p).ref = Unmarked(p).ref
    <3>. HIDE DEF n, h
    <3>. QED BY <2>1, <2>2, <2>3
  <2>. QED BY <1>3, <2>3, <2>4
<1>5. ASSUME NEW step, NEW ref
      PROVE  /\ Marked(p, step, ref).halted = p.halted
             /\ Marked(p, step, ref).failures = p.failures
             /\ Marked(p, step, ref).step = step
             /\ Marked(p, step, ref).ref = ref
  BY DEF Marked
<1>. QED BY <1>1, <1>2, <1>3, <1>4, <1>5

-----------------------------------------------------------------------------
(* A parked reach is idle *)

Idling(p) == p.halted => p.step = NoStep /\ p.failures >= HaltAfter

\* A check takes an unparked reach from the list and only its own failure parks
\* it, so forgiving its failures or marking it meets no parked reach.
Parked ==
    /\ \A r \in Reaches : Idling(proc[r])
    /\ pc \in CheckPhases => ~proc[cur].halted /\ cur \notin todo
    /\ pc \in CheckPhases \union {"check"} => \A r \in todo : ~proc[r].halted

\* Nothing is parked at first.
LEMMA InitParked == Init => Parked
BY DEF Init, Parked, Idling, NewProc, CheckPhases

\* One row changes and stays idle if it is parked.
LEMMA IdleRow ==
    ASSUME Typed, Parked, NEW r, NEW p, r \in Reaches => Idling(p), proc' = [proc EXCEPT ![r] = p]
    PROVE  \A x \in Reaches : Idling(proc'[x])
BY DEF Typed, TypeOK, ProcTyped, Parked

\* Every step of the loop keeps parked reaches idle and out of its list.
LEMMA LoopParked == ASSUME Typed, Parked, Loop PROVE Parked'
<1>. USE DEF Typed, TypeOK
<1>0. \A r \in Reaches : proc[r] \in ProcRow BY DEF ProcTyped
<1>1. CASE BeginPass BY <1>1 DEF BeginPass, Parked, CheckPhases
<1>2. CASE Poll
  <2>. PICK r \in todo :
         PollRunning(r) \/ PollUnknown(r) \/ PollLost(r) \/ PollSucceeded(r) \/ PollFailed(r)
    BY <1>2 DEF Poll
  <2>0. pc = "poll" /\ r \in Reaches BY <1>2 DEF Poll, LoopTyped
  <2>1. CASE PollRunning(r) BY <2>0, <2>1 DEF PollRunning, Parked, CheckPhases
  <2>2. CASE PollUnknown(r) BY <2>0, <2>2 DEF PollUnknown, Parked, CheckPhases
  <2>3. ASSUME NEW p \in ProcRow, Idling(p), PollCommit(r, p) PROVE Parked'
    BY <2>0, <2>3, IdleRow DEF PollCommit, Parked, CheckPhases
  <2>4. Unmarked(proc[r]) \in ProcRow /\ Idling(Unmarked(proc[r]))
    BY <1>0, <2>0, ProcOps, ProcColumns DEF Parked, Idling
  <2>5. Failed(proc[r]) \in ProcRow /\ Idling(Failed(proc[r]))
    BY <1>0, <2>0, ProcOps, ProcColumns DEF Parked, Idling
  <2>. QED BY <2>1, <2>2, <2>3, <2>4, <2>5 DEF PollLost, PollSucceeded, PollFailed
<1>3. CASE PollRequest
  <2>1. Idling(Requested(proc[cur])) BY <1>0, <1>3, ProcColumns DEF PollRequest, Where, Parked, Idling
  <2>. QED BY <1>3, <2>1, IdleRow DEF PollRequest, Parked, CheckPhases
<1>4. CASE ListDue BY <1>4 DEF ListDue, Due, Parked, CheckPhases
<1>5. CASE EndPass BY <1>5 DEF EndPass, Parked, CheckPhases
<1>6. CASE StartCheck
  <2>. PICK r \in todo :
         /\ proc' = [proc EXCEPT ![r].seen = "checked", ![r].requested = FALSE]
         /\ todo' = todo \ {r}
         /\ cur' = r
    BY <1>6 DEF StartCheck
  <2>0. r \in Reaches BY DEF LoopTyped
  <2>1. \A x \in Reaches : /\ proc'[x].halted = proc[x].halted /\ proc'[x].step = proc[x].step
                           /\ proc'[x].failures = proc[x].failures
    BY <1>0, <2>0 DEF ProcTyped, ProcRow
  <2>. QED BY <1>6, <2>0, <2>1 DEF StartCheck, Parked, Idling, LoopTyped, CheckPhases
<1>7. CASE ReadIntent BY <1>7 DEF ReadIntent, Parked, CheckPhases
<1>8. CASE RecordModel BY <1>8 DEF RecordModel, Parked, CheckPhases
<1>9. CASE RecordNd BY <1>9 DEF RecordNd, Parked, CheckPhases
<1>10. CASE RecordKwse BY <1>10 DEF RecordKwse, Parked, CheckPhases
<1>11. CASE Notify
  <2>1. \A x \in Reaches : /\ proc'[x].halted = proc[x].halted /\ proc'[x].step = proc[x].step
                           /\ proc'[x].failures = proc[x].failures
    BY <1>0, <1>11, ProcColumns DEF Notify
  <2>. QED BY <1>11, <2>1 DEF Notify, Parked, Idling, LoopTyped, Where, CheckPhases
<1>12. CASE Forgive
  <2>0. cur \in Reaches /\ ~proc[cur].halted BY <1>12 DEF Forgive, Where, Parked, CheckPhases
  <2>1. Forgiven(proc[cur]).halted = proc[cur].halted BY <1>0, <2>0, ProcColumns
  <2>2. \A x \in Reaches : /\ proc'[x].halted = proc[x].halted
                           /\ x # cur => proc'[x] = proc[x]
    BY <1>12, <2>0, <2>1 DEF Forgive, ProcTyped
  <2>. QED BY <1>12, <2>0, <2>2 DEF Forgive, Parked, Idling, LoopTyped, CheckPhases
<1>17. CASE Decide
  <2>1. UNCHANGED <<proc, todo>> /\ (pc' = "check" \/ (pc' = "act" /\ UNCHANGED cur))
    BY <1>17 DEF Decide, Skip, LeaveAlone, Resolve, EndCheck
  <2>. QED BY <1>17, <2>1 DEF Decide, Parked, CheckPhases
<1>13. CASE Act
  <2>0. cur \in Reaches BY <1>13 DEF Act, Where, CheckPhases
  <2>1. \A x \in Reaches : proc'[x].halted = proc[x].halted /\ proc'[x].failures = proc[x].failures
                             /\ proc'[x].step \in {proc[x].step, NoStep}
    <3>2. CASE Satisfied
      <4>. DEFINE u == Unmarked(proc[cur])
      <4>1. /\ u \in ProcRow /\ u.halted = proc[cur].halted
            /\ u.failures = proc[cur].failures /\ u.step = NoStep
        BY <1>0, <2>0, ProcOps, ProcColumns
      <4>2. proc' = [proc EXCEPT ![cur] = [u EXCEPT !.blocked = FALSE]] BY <3>2 DEF Satisfied
      <4>. HIDE DEF u
      <4>. QED BY <1>0, <2>0, <4>1, <4>2 DEF ProcTyped, ProcRow
    <3>3. CASE Await BY <1>0, <2>0, <3>3 DEF Await, ProcTyped, ProcRow
    <3>4. CASE Choose BY <1>0, <2>0, <3>4 DEF Choose, ProcTyped, ProcRow
    <3>. QED BY <1>13, <3>2, <3>3, <3>4 DEF Act
  <2>2. UNCHANGED todo /\ (pc' = "check" \/ (pc' = "submit" /\ UNCHANGED cur))
    <3>1. UNCHANGED todo BY <1>13 DEF Act
    <3>2. CASE EndCheck BY <3>1, <3>2 DEF EndCheck
    <3>3. CASE Choose BY <3>1, <3>3 DEF Choose
    <3>. QED BY <1>13, <3>2, <3>3 DEF Act, Satisfied, Await
  <2>. QED BY <1>13, <2>0, <2>1, <2>2 DEF Act, Parked, Idling, LoopTyped, CheckPhases
<1>14. CASE Submit
  <2>0. cur \in Reaches /\ pc = "submit" BY <1>14 DEF Submit, Where, CheckPhases
  <2>1. CASE SubmitAccepted \/ SubmitNothing
    BY <1>14, <2>0, <2>1 DEF Submit, SubmitAccepted, SubmitNothing, Parked, CheckPhases
  <2>2. CASE SubmitRaises \/ SubmitTimesOut
    <3>1. proc' = [proc EXCEPT ![cur] = Failed(proc[cur])] BY <2>2 DEF SubmitRaises, SubmitTimesOut
    <3>2. Idling(Failed(proc[cur])) BY <1>0, <2>0, ProcColumns DEF Idling
    <3>3. \A x \in todo : proc'[x] = proc[x]
      BY <2>0, <3>1 DEF Parked, CheckPhases, LoopTyped, ProcTyped
    <3>4. pc' = "check" /\ UNCHANGED todo
      BY <1>14, <2>2 DEF Submit, SubmitRaises, SubmitTimesOut, EndCheck
    <3>. QED BY <2>0, <3>1, <3>2, <3>3, <3>4, IdleRow DEF Parked, CheckPhases
  <2>. QED BY <1>14, <2>1, <2>2 DEF Submit
<1>15. CASE Mark
  <2>0. cur \in Reaches /\ ~proc[cur].halted BY <1>15 DEF Mark, Where, Parked, CheckPhases
  <2>1. ~Marked(proc[cur], note.gap.step, note.ref).halted BY <1>0, <2>0, ProcColumns
  <2>2. Idling(Marked(proc[cur], note.gap.step, note.ref)) BY <2>1 DEF Idling
  <2>3. \A x \in Reaches : Idling(proc'[x]) BY <1>15, <2>2, IdleRow DEF Mark
  <2>. QED BY <1>15, <2>0, <2>1, <2>3 DEF Mark, Parked, LoopTyped, ProcTyped, CheckPhases
<1>16. CASE Request
  <2>0. cur \in Reaches /\ Idling(proc[cur]) BY <1>16 DEF Request, Where, Parked, CheckPhases
  <2>1. Idling(Requested(proc[cur])) BY <1>0, <2>0, ProcColumns DEF Idling
  <2>2. \A x \in Reaches : Idling(proc'[x]) BY <1>16, <2>1, IdleRow DEF Request
  <2>3. \A x \in todo : proc'[x] = proc[x]
    BY <1>16, <2>0 DEF Request, Parked, CheckPhases, LoopTyped, ProcTyped
  <2>. QED BY <1>16, <2>0, <2>2, <2>3 DEF Request, EndCheck, Parked, CheckPhases
<1>. QED
  BY <1>1, <1>2, <1>3, <1>4, <1>5, <1>6, <1>7, <1>8, <1>9, <1>10, <1>11, <1>12, <1>13, <1>14,
     <1>15, <1>16, <1>17 DEF Loop, Pass, Check

\* So does every other step: people only take halted away.
LEMMA StepParked == Typed /\ Parked /\ [Next]_vars => Parked'
<1>. SUFFICES ASSUME Typed, Parked, [Next]_vars PROVE Parked' OBVIOUS
<1>1. ASSUME UNCHANGED <<proc, pc, todo, cur>> PROVE Parked'
  BY <1>1 DEF Parked
<1>2. CASE Loop BY <1>2, LoopParked
<1>3. CASE Crash BY <1>3 DEF Crash, Parked, CheckPhases
<1>4. CASE Restart BY <1>4 DEF Restart, Parked, CheckPhases
<1>5. CASE Jobs
  BY <1>1, <1>5 DEF Jobs, Publish, Succeed, SucceedHollow, FailJob, End, loop
<1>6. ASSUME NEW r \in Reaches, NEW p \in ProcRow, proc' = [proc EXCEPT ![r] = p], Idling(p),
             p.halted => proc[r].halted, UNCHANGED <<pc, todo, cur>>
      PROVE  Parked'
  <2>1. \A x \in Reaches : Idling(proc'[x]) BY <1>6, IdleRow
  <2>2. \A x \in Reaches : proc'[x].halted => proc[x].halted BY <1>6 DEF Typed, TypeOK, ProcTyped
  <2>. QED BY <1>6, <2>1, <2>2 DEF Parked, Typed, TypeOK, LoopTyped, Where
<1>7. ASSUME NEW r \in Reaches, ClearHalt(r) PROVE Parked'
  <2>. DEFINE p == [Requested(Forgiven(proc[r])) EXCEPT !.halted = FALSE]
  <2>1. Requested(Forgiven(proc[r])) \in ProcRow BY ProcOps DEF Typed, TypeOK, ProcTyped
  <2>2. p \in ProcRow /\ ~p.halted
    <3>. DEFINE u == Requested(Forgiven(proc[r]))
    <3>. HIDE DEF u
    <3>1. u \in ProcRow BY <2>1 DEF u
    <3>2. [u EXCEPT !.halted = FALSE] \in ProcRow /\ ~[u EXCEPT !.halted = FALSE].halted
      BY <3>1 DEF ProcRow
    <3>. QED BY <3>2 DEF u
  <2>3. proc' = [proc EXCEPT ![r] = p] /\ UNCHANGED <<pc, todo, cur>> BY <1>7 DEF ClearHalt, loop
  <2>. HIDE DEF p
  <2>. QED BY <1>6, <2>2, <2>3 DEF Idling
<1>8. ASSUME NEW r \in Reaches, RetryTime(r) PROVE Parked'
  <2>. DEFINE p == [proc[r] EXCEPT !.resting = FALSE]
  <2>1. proc[r] \in ProcRow /\ Idling(proc[r]) BY DEF Typed, TypeOK, ProcTyped, Parked
  <2>2. p \in ProcRow /\ p.halted = proc[r].halted /\ p.step = proc[r].step /\ p.failures = proc[r].failures
    BY <2>1 DEF ProcRow
  <2>3. proc' = [proc EXCEPT ![r] = p] /\ UNCHANGED <<pc, todo, cur>> BY <1>8 DEF RetryTime, loop
  <2>. HIDE DEF p
  <2>. QED BY <1>6, <2>1, <2>2, <2>3 DEF Idling
<1>9. CASE People
  BY <1>1, <1>7, <1>8, <1>9 DEF People, Author, ChangeDefaults, EditLookup, Withdraw, loop
<1>10. CASE UNCHANGED vars BY <1>1, <1>10 DEF vars
<1>. QED BY <1>2, <1>3, <1>4, <1>5, <1>9, <1>10 DEF Next

\* A parked reach has no job on record and a full streak of failures.
THEOREM ParkedReachesAreIdle == Spec => []ParkedIsIdle
<1>1. Typed /\ Parked => ParkedIsIdle BY DEF Parked, Idling, ParkedIsIdle
<1>. QED BY <1>1, TypedHolds, InitParked, StepParked, PTL DEF Spec

-----------------------------------------------------------------------------
(* Backing off is kept *)

\* The statements on reach_processing that leave next_retry_at alone, or clear it.
LEMMA RestColumns ==
    ASSUME NEW p \in ProcRow
    PROVE  /\ Requested(p).resting = p.resting
           /\ Forgiven(p).resting = FALSE
           /\ Unmarked(p).resting = p.resting
<1>. USE DEF ProcRow
<1>1. Requested(p).resting = p.resting BY DEF Requested
<1>2. Forgiven(p).resting = FALSE BY DEF Forgiven
<1>3. Unmarked(p).resting = p.resting BY DEF Unmarked
<1>. QED BY <1>1, <1>2, <1>3

\* Only a failure sends a reach to rest: one that a poll reports, or that of the
\* submission which ends its own check.
Rests(r) == proc'[r].resting => proc[r].resting \/ Poll \/ (Submit /\ r = cur /\ pc' = "check")

LEMMA RestSteps == ASSUME Typed, [Next]_vars PROVE \A r \in Reaches : Rests(r)
<1>. USE DEF Typed, TypeOK
<1>0. proc \in [Reaches -> ProcRow] /\ \A r \in Reaches : proc[r] \in ProcRow BY DEF ProcTyped
<1>a. ASSUME NEW r, NEW p, r \in Reaches /\ p.resting => proc[r].resting,
             proc' = [proc EXCEPT ![r] = p]
      PROVE  \A x \in Reaches : Rests(x)
  BY <1>0, <1>a DEF Rests
<1>b. ASSUME UNCHANGED proc PROVE \A x \in Reaches : Rests(x) BY <1>b DEF Rests
<1>1. CASE BeginPass \/ ListDue \/ EndPass BY <1>1, <1>b DEF BeginPass, ListDue, EndPass
<1>2. CASE Poll BY <1>2 DEF Rests
<1>3. CASE PollRequest BY <1>0, <1>3, <1>a, RestColumns DEF PollRequest
<1>4. CASE StartCheck
  <2>. PICK r \in todo : proc' = [proc EXCEPT ![r].seen = "checked", ![r].requested = FALSE]
    BY <1>4 DEF StartCheck
  <2>. QED BY <1>0 DEF Rests, ProcRow, LoopTyped
<1>5. CASE ReadIntent \/ RecordModel \/ RecordNd \/ RecordKwse
  BY <1>5, <1>b DEF ReadIntent, RecordModel, RecordNd, RecordKwse
<1>6. CASE Notify BY <1>0, <1>6, RestColumns DEF Notify, Rests
<1>7. CASE Forgive
  <2>. DEFINE p == IF note.landed THEN Forgiven(proc[cur]) ELSE proc[cur]
  <2>1. cur \in Reaches /\ p.resting => proc[cur].resting BY <1>0, RestColumns
  <2>2. proc' = [proc EXCEPT ![cur] = p] BY <1>7 DEF Forgive
  <2>. HIDE DEF p
  <2>. QED BY <2>1, <2>2, <1>a
<1>18. CASE Decide BY <1>18, <1>b DEF Decide, Skip, LeaveAlone, Resolve
<1>8. CASE Act
  <2>0. cur \in Reaches /\ proc[cur] \in ProcRow BY <1>0, <1>8 DEF Act, Where, CheckPhases
  <2>2. CASE Satisfied
    <3>. DEFINE u == Unmarked(proc[cur])
                p == [u EXCEPT !.blocked = FALSE]
    <3>1. u \in ProcRow /\ u.resting = proc[cur].resting BY <2>0, ProcOps, RestColumns
    <3>2. p.resting = u.resting
      <4>. HIDE DEF u
      <4>. QED BY <3>1 DEF ProcRow
    <3>3. proc' = [proc EXCEPT ![cur] = p] BY <2>2 DEF Satisfied
    <3>. HIDE DEF u, p
    <3>. QED BY <3>1, <3>2, <3>3, <1>a
  <2>3. CASE Await BY <1>0, <2>0, <2>3 DEF Await, Rests, ProcRow
  <2>4. CASE Choose BY <1>0, <2>0, <2>4 DEF Choose, Rests, ProcRow
  <2>. QED BY <1>8, <2>2, <2>3, <2>4 DEF Act
<1>9. CASE Submit
  <2>0. cur \in Reaches BY <1>9 DEF Submit, Where, CheckPhases
  <2>1. CASE SubmitAccepted \/ SubmitNothing BY <2>1, <1>b DEF SubmitAccepted, SubmitNothing
  <2>2. CASE SubmitRaises \/ SubmitTimesOut
    <3>1. pc' = "check" /\ proc' = [proc EXCEPT ![cur] = Failed(proc[cur])]
      BY <2>2 DEF SubmitRaises, SubmitTimesOut, EndCheck
    <3>. QED BY <1>0, <1>9, <2>0, <3>1 DEF Rests
  <2>. QED BY <1>9, <2>1, <2>2 DEF Submit
<1>10. CASE Mark
  <2>1. cur \in Reaches => Marked(proc[cur], note.gap.step, note.ref).resting = proc[cur].resting
    BY <1>0 DEF Marked, ProcRow
  <2>. QED BY <1>10, <2>1, <1>a DEF Mark
<1>11. CASE Request BY <1>0, <1>11, <1>a, RestColumns DEF Request
<1>12. CASE Crash \/ Restart BY <1>12, <1>b DEF Crash, Restart
<1>13. CASE Jobs BY <1>13, <1>b DEF Jobs, Publish, Succeed, SucceedHollow, FailJob, End
<1>14. ASSUME NEW r \in Reaches, ClearHalt(r) PROVE \A x \in Reaches : Rests(x)
  <2>. DEFINE f == Forgiven(proc[r])
              u == Requested(f)
              p == [u EXCEPT !.halted = FALSE]
  <2>1. f \in ProcRow /\ ~f.resting BY <1>0, ProcOps, RestColumns
  <2>2. u \in ProcRow /\ u.resting = f.resting
    <3>. HIDE DEF f
    <3>. QED BY <2>1, ProcOps, RestColumns
  <2>3. p.resting = u.resting
    <3>. HIDE DEF u
    <3>. QED BY <2>2 DEF ProcRow
  <2>4. proc' = [proc EXCEPT ![r] = p] BY <1>14 DEF ClearHalt
  <2>. HIDE DEF f, u, p
  <2>. QED BY <2>1, <2>2, <2>3, <2>4, <1>a
<1>15. ASSUME NEW r \in Reaches, RetryTime(r) PROVE \A x \in Reaches : Rests(x)
  BY <1>0, <1>15 DEF RetryTime, Rests, ProcRow
<1>16. CASE People
  BY <1>16, <1>14, <1>15, <1>b DEF People, Author, ChangeDefaults, EditLookup, Withdraw
<1>17. CASE UNCHANGED vars BY <1>17, <1>b DEF vars
<1>. QED
  BY <1>1, <1>2, <1>3, <1>4, <1>5, <1>6, <1>7, <1>8, <1>9, <1>10, <1>11, <1>12, <1>13, <1>16,
     <1>17, <1>18 DEF Next, Loop, Pass, Check

\* A check stays with its reach, and the list of a pass only grows shorter.
LEMMA CheckMoves ==
    ASSUME [Next]_vars
    PROVE  /\ pc' \in CheckPhases => StartCheck \/ (pc \in CheckPhases /\ cur' = cur)
           /\ pc' \in CheckPhases \union {"check"} =>
                 ListDue \/ (pc \in CheckPhases \union {"check"} /\ todo' \subseteq todo)
<1>. USE DEF CheckPhases
<1>1. CASE Pass
  BY <1>1
  DEF Pass, BeginPass, Poll, PollRunning, PollUnknown, PollLost, PollSucceeded, PollFailed,
      PollCommit, PollRequest, ListDue, EndPass
<1>2. CASE StartCheck BY <1>2 DEF StartCheck
<1>3. CASE Decide \/ Act
  BY <1>3 DEF Decide, Skip, LeaveAlone, Resolve, Act, Satisfied, Await, Choose, EndCheck
<1>4. CASE Submit
  BY <1>4 DEF Submit, SubmitAccepted, SubmitNothing, SubmitRaises, SubmitTimesOut, EndCheck
<1>5. CASE ReadIntent \/ RecordModel \/ RecordNd \/ RecordKwse \/ Notify \/ Forgive \/ Mark \/ Request
  BY <1>5 DEF ReadIntent, RecordModel, RecordNd, RecordKwse, Notify, Forgive, Mark, Request, EndCheck
<1>6. CASE Crash \/ Restart BY <1>6 DEF Crash, Restart
<1>7. Jobs => UNCHANGED loop BY DEF Jobs, Publish, Succeed, SucceedHollow, FailJob, End
<1>8. People => UNCHANGED loop
  BY DEF People, Author, ChangeDefaults, EditLookup, Withdraw, ClearHalt, RetryTime
<1>9. UNCHANGED vars => UNCHANGED loop BY DEF vars, loop
<1>. QED BY <1>1, <1>2, <1>3, <1>4, <1>5, <1>6, <1>7, <1>8, <1>9 DEF Next, Loop, Check, loop

\* Neither the reach of a check nor one on its list is resting.
Awake ==
    /\ pc \in CheckPhases => ~proc[cur].resting
    /\ pc \in CheckPhases \union {"check"} => \A r \in todo : ~proc[r].resting

\* At first there is neither.
LEMMA InitAwake == Init => Awake
BY DEF Init, Awake, CheckPhases

\* Every step keeps them awake: a failure that is polled comes before the list is
\* made, and that of a submission is of a reach no longer on it.
LEMMA StepAwake == Typed /\ Parked /\ Awake /\ [Next]_vars => Awake'
<1>. SUFFICES ASSUME Typed, Parked, Awake, [Next]_vars PROVE Awake' OBVIOUS
<1>0. todo \subseteq Reaches /\ (pc \in CheckPhases => cur \in Reaches)
  BY DEF Typed, TypeOK, LoopTyped, Where
<1>1. ASSUME pc' \in CheckPhases \union {"check"} PROVE ~Poll
  BY <1>1
  DEF Poll, PollRunning, PollUnknown, PollLost, PollSucceeded, PollFailed, PollCommit, CheckPhases
<1>2. ASSUME pc' \in CheckPhases \union {"check"}, NEW r \in todo' PROVE ~proc'[r].resting
  <2>1. CASE ListDue BY <2>1 DEF ListDue, Due
  <2>2. CASE pc \in CheckPhases \union {"check"} /\ todo' \subseteq todo
    <3>1. r \in Reaches /\ ~proc[r].resting BY <1>0, <2>2 DEF Awake
    <3>2. Submit => r # cur BY <1>2, <2>2 DEF Submit, Parked, CheckPhases
    <3>. QED BY <1>1, <1>2, <3>1, <3>2, RestSteps DEF Rests
  <2>. QED BY <1>2, <2>1, <2>2, CheckMoves
<1>3. ASSUME pc' \in CheckPhases PROVE ~proc'[cur'].resting
  <2>0. ~Poll /\ pc' # "check" BY <1>1, <1>3 DEF CheckPhases
  <2>1. CASE StartCheck
    <3>1. pc = "check" /\ cur' \in todo BY <2>1 DEF StartCheck
    <3>. QED BY <1>0, <2>0, <3>1, RestSteps DEF Rests, Awake
  <2>2. CASE pc \in CheckPhases /\ cur' = cur BY <1>0, <2>0, <2>2, RestSteps DEF Rests, Awake
  <2>. QED BY <1>3, <2>1, <2>2, CheckMoves
<1>. QED BY <1>2, <1>3 DEF Awake

-----------------------------------------------------------------------------
(* Markers and the jobs they name *)

Names(js, j, r, step) == js[j] # None /\ js[j].reach = r /\ js[j].step = step

Named(p, js, r) ==
    /\ p.step = NoStep <=> p.ref = None
    /\ p.ref # None => Names(js, p.ref, r, p.step)

\* A job accepted and not yet recorded is the reach's own, and the reach has no
\* other on record: that is what the ladder made sure of when it chose the step,
\* and only the loop puts a marker.
Marks ==
    /\ \A r \in Reaches : Named(proc[r], jobs, r)
    /\ pc = "act" /\ note.gap.kind = "RunStep" => proc[cur].step = NoStep
    /\ pc \in {"submit", "mark"} => proc[cur].step = NoStep
    /\ pc = "mark" => Names(jobs, note.ref, cur, note.gap.step)

\* No marker exists at first.
LEMMA InitMarks == Init => Marks
BY DEF Init, Marks, Named, NewProc

\* What a step does to one marker, and what excuses dropping it.
Keeps(r) == proc'[r].step = proc[r].step /\ proc'[r].ref = proc[r].ref
Drops(r) == proc'[r].step = NoStep /\ proc'[r].ref = None
Excused(r) ==
    \/ proc[r].ref # None => ~Running(proc[r].ref)
    \/ spent'.faults > spent.faults
    \/ Act /\ note.gap = NoGap /\ r = cur

\* No action but Mark puts a marker, and none drops one without an excuse.
LEMMA MarkerSteps ==
    ASSUME Typed, Marks, [Next]_vars
    PROVE  \A r \in Reaches :
             Keeps(r) \/ (Drops(r) /\ Excused(r) /\ (Poll \/ Act)) \/ (Mark /\ r = cur)
<1>. USE DEF Typed, TypeOK
<1>0. proc \in [Reaches -> ProcRow] /\ \A r \in Reaches : proc[r] \in ProcRow BY DEF ProcTyped
<1>a. ASSUME NEW r, NEW p, r \in Reaches => p.step = proc[r].step /\ p.ref = proc[r].ref,
             proc' = [proc EXCEPT ![r] = p]
      PROVE  \A x \in Reaches : Keeps(x)
  BY <1>0, <1>a DEF Keeps
<1>b. ASSUME NEW r \in Reaches, NEW p, p.step = NoStep, p.ref = None, Excused(r),
             proc' = [proc EXCEPT ![r] = p], Poll \/ Act
      PROVE  \A x \in Reaches : Keeps(x) \/ (Drops(x) /\ Excused(x) /\ (Poll \/ Act))
  BY <1>0, <1>b DEF Keeps, Drops
<1>c. ASSUME UNCHANGED proc PROVE \A x \in Reaches : Keeps(x) BY <1>c DEF Keeps
<1>d. ASSUME Spend("faults") PROVE \A x \in Reaches : Excused(x)
  BY <1>d DEF Spend, SpentTyped, Excused
<1>1. CASE BeginPass \/ ListDue \/ EndPass BY <1>1, <1>c DEF BeginPass, ListDue, EndPass
<1>2. CASE Poll
  <2>. PICK r \in todo :
         PollRunning(r) \/ PollUnknown(r) \/ PollLost(r) \/ PollSucceeded(r) \/ PollFailed(r)
    BY <1>2 DEF Poll
  <2>0. r \in Reaches /\ proc[r] \in ProcRow BY <1>0 DEF LoopTyped
  <2>1. CASE PollRunning(r) \/ PollUnknown(r) BY <2>1, <1>c DEF PollRunning, PollUnknown
  <2>2. CASE PollLost(r)
    <3>1. Excused(r) BY <2>0, <2>2, <1>d DEF PollLost
    <3>. QED BY <1>2, <2>0, <2>2, <3>1, <1>b, ProcColumns DEF PollLost, PollCommit
  <2>3. CASE PollSucceeded(r)
    <3>1. Excused(r) BY <2>3 DEF PollSucceeded, StatusOf, Excused, Running
    <3>. QED BY <1>2, <2>0, <2>3, <3>1, <1>b, ProcColumns DEF PollSucceeded, PollCommit
  <2>4. CASE PollFailed(r)
    <3>1. Excused(r) BY <2>4 DEF PollFailed, StatusOf, Excused, Running
    <3>. QED BY <1>2, <2>0, <2>4, <3>1, <1>b, ProcColumns DEF PollFailed, PollCommit
  <2>. QED BY <2>1, <2>2, <2>3, <2>4
<1>3. CASE PollRequest BY <1>0, <1>3, <1>a, ProcColumns DEF PollRequest
<1>4. CASE StartCheck
  <2>. PICK r \in todo : proc' = [proc EXCEPT ![r].seen = "checked", ![r].requested = FALSE]
    BY <1>4 DEF StartCheck
  <2>0. r \in Reaches BY DEF LoopTyped
  <2>. QED BY <1>0, <2>0 DEF Keeps, ProcRow
<1>5. CASE ReadIntent \/ RecordModel \/ RecordNd \/ RecordKwse
  BY <1>5, <1>c DEF ReadIntent, RecordModel, RecordNd, RecordKwse
<1>6. CASE Notify BY <1>0, <1>6, ProcColumns DEF Notify, Keeps
<1>7. CASE Forgive
  <2>. DEFINE p == IF note.landed THEN Forgiven(proc[cur]) ELSE proc[cur]
  <2>1. cur \in Reaches => p.step = proc[cur].step /\ p.ref = proc[cur].ref BY <1>0, ProcColumns
  <2>2. proc' = [proc EXCEPT ![cur] = p] BY <1>7 DEF Forgive
  <2>. HIDE DEF p
  <2>. QED BY <2>1, <2>2, <1>a
<1>18. CASE Decide BY <1>18, <1>c DEF Decide, Skip, LeaveAlone, Resolve
<1>8. CASE Act
  <2>0. cur \in Reaches /\ proc[cur] \in ProcRow BY <1>0, <1>8 DEF Act, Where, CheckPhases
  <2>2. CASE Satisfied
    <3>. DEFINE p == [Unmarked(proc[cur]) EXCEPT !.blocked = FALSE]
    <3>1. p.step = NoStep /\ p.ref = None
      <4>. DEFINE u == Unmarked(proc[cur])
      <4>1. u \in ProcRow /\ u.step = NoStep /\ u.ref = None BY <2>0, ProcOps, ProcColumns
      <4>. HIDE DEF u
      <4>2. [u EXCEPT !.blocked = FALSE].step = u.step /\ [u EXCEPT !.blocked = FALSE].ref = u.ref
        BY <4>1 DEF ProcRow
      <4>. QED BY <4>1, <4>2 DEF u
    <3>2. Excused(cur) BY <1>8, <2>2 DEF Satisfied, Excused
    <3>3. proc' = [proc EXCEPT ![cur] = p] BY <2>2 DEF Satisfied
    <3>. HIDE DEF p
    <3>. QED BY <1>8, <2>0, <3>1, <3>2, <3>3, <1>b
  <2>3. CASE Await BY <1>0, <2>0, <2>3 DEF Await, Keeps, ProcRow
  <2>4. CASE Choose BY <1>0, <2>0, <2>4 DEF Choose, Keeps, ProcRow
  <2>. QED BY <1>8, <2>2, <2>3, <2>4 DEF Act
<1>9. CASE Submit
  <2>0. /\ cur \in Reaches /\ proc[cur] \in ProcRow
        /\ proc[cur].step = NoStep /\ proc[cur].ref = None
    BY <1>0, <1>9 DEF Submit, Where, CheckPhases, Marks, Named
  <2>1. CASE SubmitAccepted \/ SubmitNothing BY <2>1, <1>c DEF SubmitAccepted, SubmitNothing
  <2>2. CASE SubmitRaises \/ SubmitTimesOut
    <3>1. proc' = [proc EXCEPT ![cur] = Failed(proc[cur])] BY <2>2 DEF SubmitRaises, SubmitTimesOut
    <3>. QED BY <2>0, <3>1, <1>a, ProcColumns
  <2>. QED BY <1>9, <2>1, <2>2 DEF Submit
<1>10. CASE Mark BY <1>0, <1>10 DEF Mark, Keeps
<1>11. CASE Request BY <1>0, <1>11, <1>a, ProcColumns DEF Request
<1>12. CASE Crash \/ Restart BY <1>12, <1>c DEF Crash, Restart
<1>13. CASE Jobs BY <1>13, <1>c DEF Jobs, Publish, Succeed, SucceedHollow, FailJob, End
<1>14. ASSUME NEW r \in Reaches, ClearHalt(r) PROVE \A x \in Reaches : Keeps(x)
  <2>. DEFINE u == Requested(Forgiven(proc[r]))
              p == [u EXCEPT !.halted = FALSE]
  <2>1. u \in ProcRow /\ u.step = proc[r].step /\ u.ref = proc[r].ref
    BY <1>0, ProcOps, ProcColumns
  <2>2. p.step = u.step /\ p.ref = u.ref
    <3>. HIDE DEF u
    <3>. QED BY <2>1 DEF ProcRow
  <2>3. proc' = [proc EXCEPT ![r] = p] BY <1>14 DEF ClearHalt
  <2>. HIDE DEF u, p
  <2>. QED BY <2>1, <2>2, <2>3, <1>a
<1>15. ASSUME NEW r \in Reaches, RetryTime(r) PROVE \A x \in Reaches : Keeps(x)
  BY <1>0, <1>15 DEF RetryTime, Keeps, ProcRow
<1>16. CASE People
  BY <1>16, <1>14, <1>15, <1>c DEF People, Author, ChangeDefaults, EditLookup, Withdraw
<1>17. CASE UNCHANGED vars BY <1>17, <1>c DEF vars
<1>. QED
  BY <1>1, <1>2, <1>3, <1>4, <1>5, <1>6, <1>7, <1>8, <1>9, <1>10, <1>11, <1>12, <1>13, <1>16,
     <1>17, <1>18 DEF Next, Loop, Pass, Check

\* SEPEX forgets no job that a marker names or the loop holds.
LEMMA ReapedKeeps ==
    ASSUME NEW js, NEW ps, NEW held, NEW j \in JobIds, NEW r, NEW step, Names(js, j, r, step),
           j = held \/ \E x \in Reaches : ps[x].ref = j
    PROVE  Names(Reaped(js, ps, held), j, r, step)
BY DEF Reaped, Names

\* A job that is submitted takes a free reference and names its reach and step.
LEMMA StartedNames ==
    ASSUME Typed, NEW r \in Reaches, NEW step \in Steps, NEW i \in JobIds, Started(r, step, i)
    PROVE  /\ Names(jobs', i, r, step)
           /\ \A j \in JobIds : \A x, s : Names(jobs, j, x, s) => Names(jobs', j, x, s)
<1>. USE DEF Typed, TypeOK
<1>1. jobs' = [jobs EXCEPT ![i] = JobFor(r, step)] /\ jobs[i] = None BY DEF Started, Free
<1>2. JobFor(r, step).reach = r /\ JobFor(r, step).step = step BY DEF JobFor
<1>3. JobFor(r, step) # None
  <2>1. jobs'[i] \in JobRow \union {None} BY StartedTyped DEF JobsTyped
  <2>2. JobFor(r, step) \in JobRow
    <3>1. want[r] \in Wanted BY DEF Started, Ready, WantTyped
    <3>2. step # BuildModel => mm[r] \in ModelRow
      BY DEF Started, Ready, Plannable, RowsTyped, Steps
    <3>3. step = RunKwse => Missing(r) \subseteq Stages BY PlannedTyped DEF Started, Ready, Missing
    <3>. QED BY <3>1, <3>2, <3>3 DEF JobFor, JobRow, Wanted, ModelRow
  <2>. QED BY <2>2, NoneAssumption
<1>. QED BY <1>1, <1>2, <1>3 DEF Names, JobsTyped

\* A job that a marker names, or that the loop holds a reference to, stays on
\* SEPEX's record.
LEMMA JobsKept ==
    ASSUME Typed, [Next]_vars, NEW j \in JobIds, NEW r, NEW step, Names(jobs, j, r, step),
           \/ \E x \in Reaches : proc'[x].ref = j
           \/ pc = "mark" /\ pc' # "down" /\ note.ref = j
    PROVE  Names(jobs', j, r, step)
<1>. USE DEF Typed, TypeOK
<1>a. CASE UNCHANGED jobs BY <1>a DEF Names
<1>b. ASSUME jobs' = Reaped(jobs, proc', None), pc # "mark" \/ pc' = "down" PROVE Names(jobs', j, r, step)
  BY <1>b, ReapedKeeps
<1>1. CASE BeginPass \/ PollRequest \/ ListDue \/ EndPass
  BY <1>1, <1>a DEF BeginPass, PollRequest, ListDue, EndPass
<1>2. CASE Poll
  BY <1>2, <1>a, <1>b
  DEF Poll, PollRunning, PollUnknown, PollLost, PollSucceeded, PollFailed, PollCommit
<1>3. CASE StartCheck \/ ReadIntent \/ RecordModel \/ RecordNd \/ RecordKwse \/ Notify \/ Forgive
  BY <1>3, <1>a DEF StartCheck, ReadIntent, RecordModel, RecordNd, RecordKwse, Notify, Forgive
<1>13. CASE Decide BY <1>13, <1>a DEF Decide
<1>4. CASE Act
  <2>1. pc = "act" BY <1>4 DEF Act
  <2>2. CASE Satisfied BY <2>1, <2>2, <1>b DEF Satisfied
  <2>3. CASE Await \/ Choose BY <2>3, <1>a DEF Await, Choose
  <2>. QED BY <1>4, <2>2, <2>3 DEF Act
<1>5. CASE Submit
  <2>0. cur \in Reaches /\ note.gap.step \in Steps BY <1>5 DEF Submit, Where, CheckPhases
  <2>1. CASE SubmitAccepted BY <2>0, <2>1, StartedNames DEF SubmitAccepted
  <2>2. CASE SubmitTimesOut BY <2>0, <2>2, StartedNames DEF SubmitTimesOut
  <2>3. CASE SubmitNothing \/ SubmitRaises BY <2>3, <1>a DEF SubmitNothing, SubmitRaises
  <2>. QED BY <1>5, <2>1, <2>2, <2>3 DEF Submit
<1>6. CASE Mark \/ Request BY <1>6, <1>a DEF Mark, Request
<1>7. CASE Crash
  <2>1. jobs' = Reaped(jobs, proc', None) /\ pc' = "down"
    <3>1. jobs' = Reaped(jobs, proc, None) /\ proc' = proc /\ pc' = "down" BY <1>7 DEF Crash
    <3>. QED BY <3>1
  <2>. QED BY <2>1, <1>b
<1>8. CASE Restart BY <1>8, <1>a DEF Restart
<1>9. ASSUME NEW i \in JobIds, NEW status \in {"succeeded", "failed"}, End(i, status)
      PROVE  Names(jobs', j, r, step)
  <2>. DEFINE js == [jobs EXCEPT ![i].status = status]
  <2>1. Names(js, j, r, step)
    <3>1. jobs[j] \in JobRow BY DEF JobsTyped, Names
    <3>2. CASE i # j BY <3>2 DEF Names, JobsTyped
    <3>3. CASE i = j
      <4>1. js[j] = [jobs[j] EXCEPT !.status = status] BY <3>3 DEF JobsTyped
      <4>2. js[j].reach = jobs[j].reach /\ js[j].step = jobs[j].step BY <3>1, <4>1 DEF JobRow
      <4>3. js[j] \in JobRow BY <3>1, <4>1 DEF JobRow
      <4>4. js[j] # None
        <5>. HIDE DEF js
        <5>. QED BY <4>3, NoneAssumption
      <4>. QED BY <4>2, <4>4 DEF Names
    <3>. QED BY <3>2, <3>3
  <2>2. jobs' = Reaped(js, proc, note.ref) /\ proc' = proc BY <1>9 DEF End
  <2>. HIDE DEF js
  <2>3. j = note.ref \/ \E x \in Reaches : proc[x].ref = j BY <2>2
  <2>. QED BY <2>1, <2>2, <2>3, ReapedKeeps
<1>10. CASE Jobs BY <1>10, <1>9, <1>a DEF Jobs, Publish, Succeed, SucceedHollow, FailJob
<1>11. CASE People
  BY <1>11, <1>a DEF People, Author, ChangeDefaults, EditLookup, Withdraw, ClearHalt, RetryTime
<1>12. CASE UNCHANGED vars BY <1>12, <1>a DEF vars
<1>. QED
  BY <1>1, <1>2, <1>3, <1>4, <1>5, <1>6, <1>7, <1>8, <1>10, <1>11, <1>12, <1>13
  DEF Next, Loop, Pass, Check

\* A check comes to act by deciding.
LEMMA ActPhase ==
    ASSUME [Next]_vars, pc' = "act"
    PROVE  (Decide /\ Resolve) \/ UNCHANGED loop
<1>1. CASE Pass
  BY <1>1
  DEF Pass, BeginPass, Poll, PollRunning, PollUnknown, PollLost, PollSucceeded, PollFailed,
      PollCommit, PollRequest, ListDue, EndPass
<1>2. CASE Decide BY <1>2 DEF Decide, Skip, LeaveAlone, EndCheck
<1>3. CASE Act \/ Submit
  BY <1>3
  DEF Act, Satisfied, Await, Choose, Submit, SubmitAccepted, SubmitNothing, SubmitRaises,
      SubmitTimesOut, EndCheck
<1>4. CASE StartCheck \/ ReadIntent \/ RecordModel \/ RecordNd \/ RecordKwse \/ Notify \/ Forgive
             \/ Mark \/ Request
  BY <1>4
  DEF StartCheck, ReadIntent, RecordModel, RecordNd, RecordKwse, Notify, Forgive, Mark, Request, EndCheck
<1>5. CASE Crash \/ Restart BY <1>5 DEF Crash, Restart
<1>6. Jobs \/ People => UNCHANGED loop
  BY DEF Jobs, Publish, Succeed, SucceedHollow, FailJob, End, People, Author, ChangeDefaults,
         EditLookup, Withdraw, ClearHalt, RetryTime
<1>7. UNCHANGED vars => UNCHANGED loop BY DEF vars, loop
<1>. QED BY <1>1, <1>2, <1>3, <1>4, <1>5, <1>6, <1>7 DEF Next, Loop, Check

\* Every step keeps markers true.
LEMMA StepMarks == Typed /\ Marks /\ [Next]_vars => Marks'
<1>. SUFFICES ASSUME Typed, Marks, [Next]_vars PROVE Marks' OBVIOUS
<1>. USE DEF Typed, TypeOK
<1>1. ASSUME NEW r \in Reaches PROVE Named(proc'[r], jobs', r)
  <2>0. Named(proc[r], jobs, r) /\ proc[r] \in ProcRow BY DEF Marks, ProcTyped
  <2>1. CASE Keeps(r)
    <3>1. CASE proc[r].ref = None BY <2>0, <2>1, <3>1 DEF Keeps, Named
    <3>2. CASE proc[r].ref # None
      <4>1. proc[r].ref \in JobIds BY <2>0, <3>2 DEF ProcRow
      <4>2. Names(jobs', proc[r].ref, r, proc[r].step)
        BY <2>0, <2>1, <3>2, <4>1, JobsKept DEF Keeps, Named
      <4>. QED BY <2>0, <2>1, <3>2, <4>2 DEF Keeps, Named
    <3>. QED BY <3>1, <3>2
  <2>2. CASE Drops(r) BY <2>2 DEF Drops, Named
  <2>3. CASE Mark /\ r = cur
    <3>1. note.gap.step \in Steps /\ note.ref \in JobIds BY <2>3 DEF Mark, Where
    <3>2. proc'[r].step = note.gap.step /\ proc'[r].ref = note.ref
      BY <2>0, <2>3, ProcColumns DEF Mark, ProcTyped
    <3>3. note.ref # None /\ note.gap.step # NoStep
      BY <3>1, JobAssumption DEF Steps, BuildModel, RunNd, RunKwse, NoStep
    <3>4. Names(jobs', note.ref, r, note.gap.step) BY <2>3 DEF Mark, Marks, Names
    <3>. QED BY <3>2, <3>3, <3>4 DEF Named
  <2>. QED BY <2>1, <2>2, <2>3, MarkerSteps
<1>2. ASSUME pc' \in {"submit", "mark"}
      PROVE  proc'[cur'].step = NoStep /\ (pc' = "mark" => Names(jobs', note'.ref, cur', note'.gap.step))
  <2>1. CASE Act
    <3>0. cur \in Reaches /\ pc = "act" BY <2>1 DEF Act, Where, CheckPhases
    <3>1. Choose /\ pc' = "submit" /\ cur' = cur
      <4>1. ~EndCheck BY <1>2 DEF EndCheck
      <4>. QED BY <2>1, <4>1 DEF Act, Satisfied, Await, Choose
    <3>2. proc[cur].step = NoStep BY <3>0, <3>1 DEF Choose, Marks
    <3>3. Keeps(cur) \/ Drops(cur) BY <3>0, MarkerSteps DEF Mark
    <3>. QED BY <3>1, <3>2, <3>3 DEF Keeps, Drops
  <2>2. CASE Submit
    <3>0. cur \in Reaches /\ note \in Note /\ note.gap.step \in Steps
      BY <2>2 DEF Submit, Where, CheckPhases, LoopTyped
    <3>1. SubmitAccepted
      BY <1>2, <2>2 DEF Submit, SubmitNothing, SubmitRaises, SubmitTimesOut, EndCheck
    <3>. PICK j \in JobIds : Started(cur, note.gap.step, j) /\ note' = [note EXCEPT !.ref = j]
      BY <3>1 DEF SubmitAccepted
    <3>2. Names(jobs', j, cur, note.gap.step) BY <3>0, StartedNames
    <3>3. note'.ref = j /\ note'.gap.step = note.gap.step BY <3>0 DEF Note
    <3>4. proc'[cur'].step = proc[cur].step /\ cur' = cur BY <3>1 DEF SubmitAccepted
    <3>. QED BY <2>2, <3>2, <3>3, <3>4 DEF Submit, Marks
  <2>3. CASE UNCHANGED loop
    <3>0. pc' = pc /\ cur' = cur /\ note' = note BY <2>3 DEF loop
    <3>1. cur \in Reaches /\ proc[cur].step = NoStep
      BY <1>2, <3>0 DEF Where, CheckPhases, Marks
    <3>2. ~Mark BY <1>2, <3>0 DEF Mark
    <3>3. proc'[cur].step = NoStep BY <3>1, <3>2, MarkerSteps DEF Keeps, Drops
    <3>4. ASSUME pc' = "mark" PROVE Names(jobs', note.ref, cur, note.gap.step)
      BY <3>0, <3>4, JobsKept DEF Marks, Where
    <3>. QED BY <3>0, <3>3, <3>4
  <2>4. CASE Pass
    BY <1>2, <2>4
    DEF Pass, BeginPass, Poll, PollRunning, PollUnknown, PollLost, PollSucceeded, PollFailed,
        PollCommit, PollRequest, ListDue, EndPass
  <2>5. CASE StartCheck \/ ReadIntent \/ RecordModel \/ RecordNd \/ RecordKwse \/ Notify \/ Forgive
               \/ Decide \/ Mark \/ Request \/ Crash \/ Restart
    BY <1>2, <2>5
    DEF StartCheck, ReadIntent, RecordModel, RecordNd, RecordKwse, Notify, Forgive, Decide, Skip,
        LeaveAlone, Resolve, Mark, Request, EndCheck, Crash, Restart
  <2>6. Jobs \/ People => UNCHANGED loop
    BY DEF Jobs, Publish, Succeed, SucceedHollow, FailJob, End, People, Author, ChangeDefaults,
           EditLookup, Withdraw, ClearHalt, RetryTime
  <2>7. UNCHANGED vars => UNCHANGED loop BY DEF vars, loop
  <2>. QED BY <2>1, <2>2, <2>3, <2>4, <2>5, <2>6, <2>7 DEF Next, Loop, Check
<1>3. ASSUME pc' = "act", note'.gap.kind = "RunStep" PROVE proc'[cur'].step = NoStep
  <2>1. CASE Resolve /\ Decide
    <3>1. cur' = cur /\ proc' = proc /\ note' = [note EXCEPT !.gap = Decision, !.rev = want[cur].rev]
      BY <2>1 DEF Resolve
    <3>2. note'.gap = Decision BY <3>1 DEF LoopTyped, Note
    <3>3. ~Busy(SnapshotOf(cur)) BY <1>3, <3>2, LadderIsSound DEF Decision
    <3>. QED BY <3>1, <3>3 DEF Busy, SnapshotOf
  <2>2. CASE UNCHANGED loop
    <3>1. pc' = pc /\ cur' = cur /\ note' = note BY <2>2 DEF loop
    <3>2. cur \in Reaches /\ proc[cur].step = NoStep /\ ~Mark
      BY <1>3, <3>1 DEF Where, CheckPhases, Marks, Mark
    <3>. QED BY <3>1, <3>2, MarkerSteps DEF Keeps, Drops
  <2>. QED BY <1>3, <2>1, <2>2, ActPhase
<1>. QED BY <1>1, <1>2, <1>3 DEF Marks

\* A marker carries the reference of a job SEPEX still knows, for the same reach
\* and step: a poll never acts on what another reach's job reports.
THEOREM MarkersAreTrue == Spec => []MarkersNameTheirJobs
<1>1. Marks => MarkersNameTheirJobs BY DEF Marks, Named, Names, MarkersNameTheirJobs
<1>. QED BY <1>1, TypedHolds, InitMarks, StepMarks, PTL DEF Spec

-----------------------------------------------------------------------------
(* Rows and storage *)

Stored(r) ==
    /\ mm[r] # None => mm[r].model \in built[r]
    /\ nd[r] # None => nd[r].q \in 1..swept[r][nd[r].model] /\ nd[r].qs \subseteq 1..nd[r].q
    /\ kw[r] # None => kw[r].stages \subseteq staged[r][kw[r].model]

\* How far a library reaches is a number.
LEMMA SweptIsNat == StorageTyped => \A r \in Reaches, m \in Models : swept[r][m] \in Nat
<1>1. Discharges \union {0} \subseteq Nat BY ArtifactAssumption
<1>. QED BY <1>1 DEF StorageTyped

\* What a job publishes is never taken back, and a library only grows.
LEMMA StorageGrows ==
    ASSUME Typed, NEW j \in JobIds, Publish(j)
    PROVE  /\ \A r \in Reaches : built[r] \subseteq built'[r]
           /\ \A r \in Reaches, m \in Models : swept'[r][m] >= swept[r][m]
           /\ \A r \in Reaches, m \in Models : staged[r][m] \subseteq staged'[r][m]
<1>. DEFINE b == jobs[j]
<1>0. b \in JobRow BY DEF Publish, Typed, TypeOK, JobsTyped
<1>1. b.reach \in Reaches /\ b.model \in Models /\ b.q \in Nat
  BY <1>0, ArtifactAssumption DEF JobRow
<1>2. /\ built \in [Reaches -> SUBSET Models]
      /\ swept \in [Reaches -> [Models -> Nat]]
      /\ staged \in [Reaches -> [Models -> SUBSET Stages]]
  <2>1. Discharges \union {0} \subseteq Nat BY ArtifactAssumption
  <2>. QED BY <2>1 DEF Typed, TypeOK, StorageTyped
<1>3. CASE built' = [built EXCEPT ![b.reach] = @ \union {b.model}] /\ UNCHANGED <<swept, staged>>
  BY <1>1, <1>2, <1>3
<1>4. CASE /\ \E q \in Discharges :
                /\ swept[b.reach][b.model] < q
                /\ swept' = [swept EXCEPT ![b.reach][b.model] = q]
           /\ UNCHANGED <<built, staged>>
  <2>. PICK q \in Discharges : /\ swept[b.reach][b.model] < q
                               /\ swept' = [swept EXCEPT ![b.reach][b.model] = q]
    BY <1>4
  <2>1. q \in Nat BY ArtifactAssumption
  <2>2. ASSUME NEW r \in Reaches, NEW m \in Models PROVE swept'[r][m] >= swept[r][m]
    BY <1>1, <1>2, <2>1
  <2>. QED BY <1>4, <2>2
<1>5. CASE /\ \E s \in b.stages \ staged[b.reach][b.model] :
                staged' = [staged EXCEPT ![b.reach][b.model] = @ \union {s}]
           /\ UNCHANGED <<built, swept>>
  <2>. PICK s : staged' = [staged EXCEPT ![b.reach][b.model] = @ \union {s}] BY <1>5
  <2>1. ASSUME NEW r \in Reaches, NEW m \in Models PROVE staged[r][m] \subseteq staged'[r][m]
    BY <1>1, <1>2
  <2>2. \A r \in Reaches, m \in Models : swept'[r][m] >= swept[r][m] BY <1>2, <1>5
  <2>. QED BY <1>5, <2>1, <2>2
<1>. QED BY <1>3, <1>4, <1>5 DEF Publish

\* Deleting an intent takes nothing but the revision from the rows of its reach.
LEMMA WithdrawnRows ==
    ASSUME Typed, NEW r \in Reaches, Withdraw(r), NEW x \in Reaches
    PROVE  /\ mm'[x] = None <=> mm[x] = None
           /\ nd'[x] = None <=> nd[x] = None
           /\ kw'[x] = None <=> kw[x] = None
           /\ mm[x] # None => mm'[x].model = mm[x].model
           /\ nd[x] # None => nd'[x].model = nd[x].model /\ nd'[x].q = nd[x].q /\ nd'[x].qs = nd[x].qs
           /\ kw[x] # None => kw'[x].model = kw[x].model /\ kw'[x].stages = kw[x].stages
           /\ x = r => /\ mm[x] # None => mm'[x].rev = -1
                       /\ nd[x] # None => nd'[x].rev = -1
                       /\ kw[x] # None => kw'[x].rev = -1
           /\ x # r => UNCHANGED <<mm[x], nd[x], kw[x], want[x]>>
<1>. USE DEF Typed, TypeOK
<1>1. /\ mm[x] \in ModelRow \union {None} /\ nd[x] \in NdRow \union {None}
      /\ kw[x] \in KwseRow \union {None}
  BY DEF RowsTyped
<1>2. CASE x # r
  <2>1. mm'[x] = mm[x] /\ nd'[x] = nd[x] /\ kw'[x] = kw[x]
    BY <1>2 DEF Withdraw, Forgotten, RowsTyped
  <2>2. want'[x] = want[x] BY <1>2 DEF Withdraw, WantTyped
  <2>. QED BY <1>2, <2>1, <2>2
<1>3. CASE x = r
  <2>1. /\ mm'[x] = IF mm[x] = None THEN None ELSE [mm[x] EXCEPT !.rev = -1]
        /\ nd'[x] = IF nd[x] = None THEN None ELSE [nd[x] EXCEPT !.rev = -1]
        /\ kw'[x] = IF kw[x] = None THEN None ELSE [kw[x] EXCEPT !.rev = -1]
    BY <1>3 DEF Withdraw, Forgotten, RowsTyped
  <2>2. mm[x] # None => mm'[x] \in ModelRow /\ mm'[x].model = mm[x].model /\ mm'[x].rev = -1
    BY <1>1, <2>1 DEF ModelRow
  <2>3. nd[x] # None => /\ nd'[x] \in NdRow /\ nd'[x].model = nd[x].model
                        /\ nd'[x].q = nd[x].q /\ nd'[x].qs = nd[x].qs /\ nd'[x].rev = -1
    BY <1>1, <2>1 DEF NdRow
  <2>4. kw[x] # None => /\ kw'[x] \in KwseRow /\ kw'[x].model = kw[x].model
                        /\ kw'[x].stages = kw[x].stages /\ kw'[x].rev = -1
    BY <1>1, <2>1 DEF KwseRow
  <2>. QED BY <1>3, <2>1, <2>2, <2>3, <2>4, NoneAssumption
<1>. QED BY <1>2, <1>3

\* An observation of stages holds one plan at most, which it made for an intent that
\* has a stage increment.
Planning ==
    /\ \A p, x \in note.plan : p = x
    /\ note.plan # {} => pc = "recordKwse" /\ note.wanted # None /\ note.wanted.dz

\* At first there is no plan.
LEMMA InitPlanning == Init => Planning
BY DEF Init, Planning, Blank

\* A plan that is held after a step was made by it, or held before it.
LEMMA PlanMoves ==
    ASSUME Typed, [Next]_vars, Planning, note'.plan # {}
    PROVE  ReadIntent \/ UNCHANGED loop
<1>. USE DEF Typed, TypeOK
<1>1. CASE RecordModel \/ RecordNd \/ RecordKwse
  BY <1>1 DEF RecordModel, RecordNd, RecordKwse, LoopTyped, Note, Planning
<1>2. ASSUME pc # "recordKwse" PROVE note'.plan # note.plan
  BY <1>2 DEF Planning
<1>3. CASE Pass
  BY <1>2, <1>3
  DEF Pass, BeginPass, Poll, PollRunning, PollUnknown, PollLost, PollSucceeded, PollFailed,
      PollCommit, PollRequest, ListDue, EndPass
<1>4. CASE StartCheck \/ Mark BY <1>2, <1>4 DEF StartCheck, Mark
<1>5. CASE Notify \/ Forgive BY <1>2, <1>5 DEF Notify, Forgive, LoopTyped, Note
<1>6. EndCheck => FALSE BY DEF EndCheck, Blank
<1>7. CASE Decide \/ Act
  <2>1. CASE Decide /\ Resolve BY <1>2, <2>1 DEF Decide, Resolve, LoopTyped, Note
  <2>2. CASE Act /\ Choose BY <1>2, <2>2 DEF Act, Choose
  <2>. QED BY <1>6, <1>7, <2>1, <2>2 DEF Decide, Skip, LeaveAlone, Act, Satisfied, Await
<1>8. CASE Submit
  <2>1. CASE SubmitAccepted BY <1>2, <1>8, <2>1 DEF Submit, SubmitAccepted, LoopTyped, Note
  <2>2. CASE SubmitNothing BY <1>2, <1>8, <2>2 DEF Submit, SubmitNothing
  <2>. QED BY <1>6, <1>8, <2>1, <2>2 DEF Submit, SubmitRaises, SubmitTimesOut
<1>9. CASE Request BY <1>6, <1>9 DEF Request
<1>10. CASE Crash \/ Restart BY <1>2, <1>10 DEF Crash, Restart, Blank
<1>11. Jobs => UNCHANGED loop BY DEF Jobs, Publish, Succeed, SucceedHollow, FailJob, End
<1>12. People => UNCHANGED loop
  BY DEF People, Author, ChangeDefaults, EditLookup, Withdraw, ClearHalt, RetryTime
<1>13. UNCHANGED vars => UNCHANGED loop BY DEF vars, loop
<1>. QED
  BY <1>1, <1>3, <1>4, <1>5, <1>7, <1>8, <1>9, <1>10, <1>11, <1>12, <1>13 DEF Next, Loop, Check

\* Every step keeps to one plan, of an intent that has an increment.
LEMMA StepPlanning == Typed /\ Planning /\ [Next]_vars => Planning'
<1>. SUFFICES ASSUME Typed, Planning, [Next]_vars PROVE Planning' OBVIOUS
<1>1. CASE note'.plan = {} BY <1>1 DEF Planning
<1>2. CASE UNCHANGED loop BY <1>2 DEF Planning, loop
<1>3. CASE ReadIntent /\ note'.plan # {}
  <2>1. note'.plan = PlanNow /\ note'.wanted = want[cur]
    BY <1>3 DEF ReadIntent, Typed, TypeOK, LoopTyped, Note
  <2>2. pc = "readKwse" /\ Plannable(cur) /\ PlanNow = {Planned(cur)} BY <1>3, <2>1 DEF PlanNow
  <2>3. want[cur] # None /\ want[cur].dz /\ pc' = "recordKwse"
    BY <1>3, <2>2 DEF Plannable, ReadIntent
  <2>. QED BY <2>1, <2>2, <2>3 DEF Planning
<1>. QED BY <1>1, <1>2, <1>3, PlanMoves

\* The stages of a row that an observation writes are those of the plan it holds.
LEMMA PlanHeld ==
    ASSUME Planning, NEW p \in note.plan
    PROVE  UNION note.plan = p
BY DEF Planning

\* What a normal-depth row says is what was found.
LEMMA NdRowFields ==
    ASSUME NEW w, NdRowOf(w) # None
    PROVE  /\ NdFound(w) /\ NdRowOf(w).model = w.model /\ NdRowOf(w).q = swept[cur][w.model]
           /\ NdRowOf(w).qs = AdoptedOf[swept[cur][w.model], w.q]
BY DEF NdRowOf

\* Every step keeps rows backed.
LEMMA StepStored == Typed /\ Planning /\ RecordedIsStored /\ [Next]_vars => RecordedIsStored'
<1>. SUFFICES ASSUME Typed, Planning, RecordedIsStored, [Next]_vars PROVE RecordedIsStored' OBVIOUS
<1>. USE DEF Typed, TypeOK
<1>0. UNCHANGED <<db, storage>> => RecordedIsStored' BY DEF RecordedIsStored, db, storage
<1>1. ASSUME UNCHANGED db, NEW j \in JobIds, Publish(j) PROVE RecordedIsStored'
  <2>. SUFFICES ASSUME NEW r \in Reaches PROVE Stored(r)' BY DEF RecordedIsStored, Stored
  <2>0. Stored(r) BY DEF RecordedIsStored, Stored
  <2>1. mm[r] # None => mm'[r].model \in built'[r] BY <1>1, <2>0, StorageGrows DEF Stored, db
  <2>2. nd[r] # None => nd'[r].q \in 1..swept'[r][nd'[r].model] /\ nd'[r].qs \subseteq 1..nd'[r].q
    <3>. SUFFICES ASSUME nd[r] # None PROVE nd[r].q \in 1..swept'[r][nd[r].model]
      BY <1>1, <2>0 DEF db, Stored
    <3>1. nd[r].model \in Models BY DEF RowsTyped, NdRow
    <3>2. swept'[r][nd[r].model] >= swept[r][nd[r].model] BY <1>1, <3>1, StorageGrows
    <3>3. swept[r][nd[r].model] \in Nat BY <3>1, SweptIsNat
    <3>4. swept'[r][nd[r].model] \in Discharges \union {0}
      <4>1. StorageTyped' BY <1>1, JobsStepTyped DEF Jobs
      <4>. QED BY <3>1, <4>1 DEF StorageTyped
    <3>5. swept'[r][nd[r].model] \in Nat
      <4>1. Discharges \union {0} \subseteq Nat BY ArtifactAssumption
      <4>. QED BY <3>4, <4>1
    <3>. QED BY <2>0, <3>2, <3>3, <3>5 DEF Stored
  <2>3. kw[r] # None => kw'[r].stages \subseteq staged'[r][kw'[r].model]
    <3>1. kw[r] # None => kw[r].model \in Models BY DEF RowsTyped, KwseRow
    <3>. QED BY <1>1, <2>0, <3>1, StorageGrows DEF Stored, db
  <2>. QED BY <1>1, <2>1, <2>2, <2>3 DEF Stored, db
<1>2. CASE RecordModel
  <2>0. cur \in Reaches BY <1>2 DEF RecordModel, Where, CheckPhases
  <2>. DEFINE w     == note.wanted
              found == w # None /\ w.model \in built[cur]
              row   == IF found THEN [model |-> w.model, rev |-> RowRevision(w)] ELSE None
  <2>1. row # None => row.model \in built[cur] OBVIOUS
  <2>2. mm' = [mm EXCEPT ![cur] = row] /\ UNCHANGED <<nd, kw, storage>> BY <1>2 DEF RecordModel
  <2>. HIDE DEF row
  <2>. QED BY <2>0, <2>1, <2>2 DEF RecordedIsStored, RowsTyped, storage
<1>3. CASE RecordNd
  <2>0. cur \in Reaches BY <1>3 DEF RecordNd, Where, CheckPhases
  <2>. DEFINE w   == note.wanted
              row == NdRowOf(w)
  <2>1. row # None => row.q \in 1..swept[cur][row.model] /\ row.qs \subseteq 1..row.q
    <3>1. CASE ~NdFound(w) BY <3>1 DEF NdRowOf
    <3>2. CASE NdFound(w)
      <4>1. w \in Wanted BY <3>2 DEF NdFound, ModelAgrees, LoopTyped, Note
      <4>2. w.model \in Models /\ w.q \in Nat \ {0} /\ w.q \in Discharges
        BY <4>1, ArtifactAssumption DEF Wanted
      <4>. DEFINE n == swept[cur][w.model]
      <4>3. n \in Nat /\ n \in Discharges \union {0} /\ n >= w.q
        BY <2>0, <3>2, <4>2, SweptIsNat DEF StorageTyped, NdFound
      <4>4. n \in Discharges BY <4>2, <4>3
      <4>. HIDE DEF n
      <4>. DEFINE S == AdoptedOf[n, w.q]
      <4>5. S \subseteq 1..n
        <5>1. S \subseteq {d \in Discharges : d <= n} BY <4>2, <4>4, PlanningAssumption
        <5>2. \A d \in Discharges : d \in Nat \ {0} BY ArtifactAssumption
        <5>. HIDE DEF S
        <5>. QED BY <4>3, <5>1, <5>2
      <4>6. row # None => row.model = w.model /\ row.q = n /\ row.qs = S
        BY NdRowFields DEF n
      <4>. HIDE DEF S, row
      <4>7. row # None => row.q \in 1..n /\ n = swept[cur][row.model] BY <4>2, <4>3, <4>6 DEF n
      <4>. QED BY <4>5, <4>6, <4>7
    <3>. QED BY <3>1, <3>2
  <2>2. nd' = [nd EXCEPT ![cur] = row] /\ UNCHANGED <<mm, kw, storage>> BY <1>3 DEF RecordNd
  <2>. HIDE DEF row
  <2>. QED BY <2>0, <2>1, <2>2 DEF RecordedIsStored, RowsTyped, storage
<1>4. CASE RecordKwse
  <2>0. cur \in Reaches BY <1>4 DEF RecordKwse, Where, CheckPhases
  <2>. DEFINE row == KwseRowOf(note.wanted)
  <2>1. row # None => row.stages \subseteq staged[cur][row.model]
    BY PlanHeld DEF KwseRowOf, KwseFound
  <2>2. kw' = [kw EXCEPT ![cur] = row] /\ UNCHANGED <<mm, nd, storage>> BY <1>4 DEF RecordKwse
  <2>. HIDE DEF row
  <2>. QED BY <2>0, <2>1, <2>2 DEF RecordedIsStored, RowsTyped, storage
<1>5. ASSUME NEW r \in Reaches, Withdraw(r) PROVE RecordedIsStored'
  <2>1. ASSUME NEW x \in Reaches
        PROVE  /\ mm'[x] = None <=> mm[x] = None
               /\ nd'[x] = None <=> nd[x] = None
               /\ kw'[x] = None <=> kw[x] = None
               /\ mm[x] # None => mm'[x].model = mm[x].model
               /\ nd[x] # None => nd'[x].model = nd[x].model /\ nd'[x].q = nd[x].q /\ nd'[x].qs = nd[x].qs
               /\ kw[x] # None => kw'[x].model = kw[x].model /\ kw'[x].stages = kw[x].stages
    BY <1>5, WithdrawnRows
  <2>. QED BY <1>5, <2>1 DEF Withdraw, RecordedIsStored, storage
<1>6. CASE Pass \/ StartCheck \/ ReadIntent \/ Notify \/ Forgive \/ Decide \/ Act \/ Submit \/ Mark
              \/ Request \/ Crash \/ Restart
  <2>. UNCHANGED <<db, storage>>
    BY <1>6
    DEF Pass, BeginPass, Poll, PollRunning, PollUnknown, PollLost, PollSucceeded, PollFailed,
        PollCommit, PollRequest, ListDue, EndPass, StartCheck, ReadIntent, Notify, Forgive, Decide,
        Act, Submit, Mark, Request, Crash, Restart
  <2>. QED BY <1>0
<1>7. CASE Jobs
  BY <1>7, <1>0, <1>1 DEF Jobs, Publish, Succeed, SucceedHollow, FailJob, End
<1>8. CASE People
  BY <1>8, <1>0, <1>5 DEF People, Author, ChangeDefaults, EditLookup, ClearHalt, RetryTime
<1>9. CASE UNCHANGED vars BY <1>9, <1>0 DEF vars, db, storage
<1>. QED BY <1>2, <1>3, <1>4, <1>6, <1>7, <1>8, <1>9 DEF Next, Loop, Check

\* Every row in materialized_* names artifacts that storage holds.
THEOREM RowsAreBacked == Spec => []RecordedIsStored
<1>1. Init => RecordedIsStored BY DEF Init, RecordedIsStored
<1>. QED BY <1>1, TypedHolds, InitPlanning, StepPlanning, StepStored, PTL DEF Spec

-----------------------------------------------------------------------------
(* Markers are kept *)

\* Rows change when they are recorded, and with a deletion.
LEMMA DbMoves ==
    ASSUME [Next]_vars
    PROVE  \/ UNCHANGED db
           \/ RecordModel \/ RecordNd \/ RecordKwse \/ \E r \in Reaches : Withdraw(r)
<1>1. CASE Pass
  BY <1>1
  DEF Pass, BeginPass, Poll, PollRunning, PollUnknown, PollLost, PollSucceeded, PollFailed,
      PollCommit, PollRequest, ListDue, EndPass
<1>2. CASE Check
  BY <1>2
  DEF Check, StartCheck, ReadIntent, Notify, Forgive, Decide, Act, Submit, Mark, Request
<1>3. CASE Crash \/ Restart BY <1>3 DEF Crash, Restart
<1>4. CASE Jobs BY <1>4 DEF Jobs, Publish, Succeed, SucceedHollow, FailJob, End
<1>5. CASE People
  BY <1>5 DEF People, Author, ChangeDefaults, EditLookup, ClearHalt, RetryTime
<1>6. CASE UNCHANGED vars BY <1>6 DEF vars, db
<1>. QED BY <1>1, <1>2, <1>3, <1>4, <1>5, <1>6 DEF Next, Loop

\* A check that acts on nothing being missing was right when it decided so, and
\* only a deletion has touched the rows of its reach since.
Granted == pc = "act" /\ note.gap = NoGap => Answered(cur, note.rev)

\* At first no check acts.
LEMMA InitGranted == Init => Granted
BY DEF Init, Granted

\* Every step keeps what a check acts on.
LEMMA StepGranted == Typed /\ Granted /\ [Next]_vars => Granted'
<1>. SUFFICES ASSUME Typed, Granted, [Next]_vars, pc' = "act", note'.gap = NoGap
              PROVE  Answered(cur, note.rev)'
  BY DEF Granted
<1>. USE DEF Typed, TypeOK
<1>1. CASE Decide /\ Resolve
  <2>1. cur \in Reaches BY <1>1 DEF Decide, Where, CheckPhases
  <2>2. /\ cur' = cur /\ want[cur] # None /\ UNCHANGED <<mm, nd, kw>>
        /\ note'.gap = Decision /\ note'.rev = want[cur].rev
    BY <1>1 DEF Decide, Resolve, db, LoopTyped, Note
  <2>. DEFINE sn == SnapshotOf(cur)
  <2>3. sn.model /\ sn.nd /\ (sn.terminal \/ sn.kwse)
    <3>1. Calculate(sn) = NoGap BY <2>2 DEF Decision
    <3>. HIDE DEF sn
    <3>. QED BY <3>1, LadderIsSound
  <2>4. sn.model = Applied(mm[cur], want[cur]) /\ sn.nd = Applied(nd[cur], want[cur])
        /\ sn.kwse = Applied(kw[cur], want[cur]) /\ sn.terminal = (cur \in Terminals)
    BY DEF SnapshotOf
  <2>. HIDE DEF sn
  <2>. QED BY <2>2, <2>3, <2>4 DEF Answered, Applied
<1>2. CASE UNCHANGED loop
  <2>1. pc = "act" /\ UNCHANGED <<cur, note>> BY <1>2 DEF loop
  <2>2. cur \in Reaches /\ Answered(cur, note.rev)
    BY <2>1 DEF Where, CheckPhases, Granted
  <2>3. CASE UNCHANGED db BY <2>1, <2>2, <2>3 DEF db, Answered
  <2>4. ASSUME NEW r \in Reaches, Withdraw(r) PROVE Answered(cur, note.rev)'
    <3>1. CASE r = cur
      <4>1. /\ mm'[cur] # None /\ mm'[cur].rev = -1 /\ nd'[cur] # None /\ nd'[cur].rev = -1
            /\ cur \in Terminals \/ (kw'[cur] # None /\ kw'[cur].rev = -1)
        BY <2>2, <2>4, <3>1, WithdrawnRows DEF Answered
      <4>. QED BY <2>1, <4>1 DEF Answered
    <3>2. CASE r # cur
      <4>1. UNCHANGED <<mm[cur], nd[cur], kw[cur]>> BY <2>1, <2>2, <2>4, <3>2, WithdrawnRows
      <4>. QED BY <2>1, <2>2, <4>1 DEF Answered
    <3>. QED BY <3>1, <3>2
  <2>5. ~RecordModel /\ ~RecordNd /\ ~RecordKwse BY <2>1 DEF RecordModel, RecordNd, RecordKwse
  <2>. QED BY <2>3, <2>4, <2>5, DbMoves
<1>. QED BY <1>1, <1>2, ActPhase

\* The marker of a job that is still running is dropped only when SEPEX has lost
\* track of the job, or the reach has everything that was asked of it when the
\* check that drops it decided, however intent has moved by the time it does.
THEOREM MarkersAreKept == Spec => RunningMarkersAreKept
<1>1. Typed /\ Marks /\ Granted /\ [Next]_vars =>
        [\A r \in Reaches :
            proc[r].ref # None /\ Running(proc[r].ref) /\ proc'[r].ref # proc[r].ref
               => spent'.faults > spent.faults \/ (cur = r /\ Answered(r, note.rev))]_vars
  <2>. SUFFICES ASSUME Typed, Marks, Granted, [Next]_vars, NEW r \in Reaches,
                       proc[r].ref # None, Running(proc[r].ref), proc'[r].ref # proc[r].ref
                PROVE  spent'.faults > spent.faults \/ (cur = r /\ Answered(r, note.rev))
    OBVIOUS
  <2>1. ~Keeps(r) BY DEF Keeps
  <2>2. CASE Drops(r) /\ Excused(r) BY <2>2 DEF Excused, Act, Granted
  <2>3. CASE Mark /\ r = cur BY <2>3 DEF Mark, Marks, Named
  <2>. QED BY <2>1, <2>2, <2>3, MarkerSteps
<1>. QED
  BY <1>1, TypedHolds, InitMarks, StepMarks, InitGranted, StepGranted, PTL
  DEF Spec, RunningMarkersAreKept

-----------------------------------------------------------------------------
(* Revisions *)

\* As long as nobody has withdrawn an intent or edited a lookup in place,
\* revisions identify what was asked for.
Untouched == spent.withdrawals = 0 /\ spent.lookups = 0

\* Each row carries a revision intent has had, and the one in force only if it
\* is what the intent in force asks for; so does the intent an observation holds.
Behind(r) ==
    /\ mm[r] # None =>
          /\ want[r] # None /\ mm[r].rev <= want[r].rev
          /\ mm[r].rev = want[r].rev => mm[r].model = want[r].model
    /\ nd[r] # None =>
          /\ want[r] # None /\ nd[r].rev <= want[r].rev
          /\ nd[r].rev = want[r].rev => (nd[r].model = want[r].model /\ nd[r].q >= want[r].q)
    /\ kw[r] # None =>
          /\ want[r] # None /\ kw[r].rev <= want[r].rev
          /\ kw[r].rev = want[r].rev => (kw[r].model = want[r].model /\ want[r].dz)

Held ==
    note.wanted # None =>
        /\ pc \in {"recordModel", "recordNd", "recordKwse"}
        /\ want[cur] # None /\ note.wanted.rev <= want[cur].rev
        /\ note.wanted.rev = want[cur].rev => note.wanted = want[cur]

Fresh == Untouched => Held /\ \A r \in Reaches : Behind(r)

\* At first nothing is recorded and nothing is held.
LEMMA InitFresh == Init => Fresh
BY DEF Init, Fresh, Held, Behind, Blank

\* Authoring never deletes an intent and never changes one under its revision.
Moved(r) ==
    want[r] # None =>
        /\ want'[r] # None
        /\ want[r].rev <= want'[r].rev
        /\ want[r].rev = want'[r].rev => want'[r] = want[r]

\* Both ways of authoring give what they change a revision of its own.
LEMMA AuthoringMoves ==
    ASSUME Typed, NEW A \in SUBSET Reaches, NEW i \in Intents, Author(A, i) \/ ChangeDefaults(A, i)
    PROVE  \A r \in Reaches : Moved(r)
<1>. USE DEF Typed, TypeOK
<1>0. \A r \in Reaches : want[r] \in Wanted \union {None} BY DEF WantTyped
<1>1. CASE Author(A, i)
  <2>1. ASSUME NEW r \in Reaches, want[r] # None
        PROVE  /\ Authored(r, i) # None
               /\ want[r].rev <= Authored(r, i).rev
               /\ want[r].rev = Authored(r, i).rev => Authored(r, i) = want[r]
    <3>1. want[r] \in Wanted /\ want[r].rev \in Nat BY <1>0, <2>1 DEF Wanted
    <3>2. Revised(r, i).rev = want[r].rev + 1 BY <2>1 DEF Revised
    <3>3. Revised(r, i) \in Wanted BY <3>1, <2>1, ArtifactAssumption DEF Revised, Wanted
    <3>4. Revised(r, i) # None BY <3>3, NoneAssumption
    <3>. QED BY <2>1, <3>1, <3>2, <3>4 DEF Authored
  <2>2. \A r \in Reaches : want'[r] = IF r \in A THEN Authored(r, i) ELSE want[r]
    BY <1>1 DEF Author
  <2>. QED BY <1>0, <2>1, <2>2 DEF Moved, Wanted
<1>2. CASE ChangeDefaults(A, i)
  <2>1. ASSUME NEW r \in Reaches, want[r] # None PROVE Moved(r)
    <3>1. want[r] \in Wanted /\ want[r].rev \in Nat BY <1>0, <2>1 DEF Wanted
    <3>. DEFINE x == [want[r] EXCEPT !.model = i.model, !.dz = i.dz, !.rev = @ + 1]
                y == [want[r] EXCEPT !.rev = @ + 1]
    <3>2. want'[r] = x \/ want'[r] = y BY <1>2, <2>1 DEF ChangeDefaults
    <3>3. /\ x \in Wanted /\ x.rev = want[r].rev + 1
          /\ y \in Wanted /\ y.rev = want[r].rev + 1
      BY <3>1, BumpTyped
    <3>. HIDE DEF x, y
    <3>4. want'[r] # None /\ want'[r].rev = want[r].rev + 1 BY <3>2, <3>3, NoneAssumption
    <3>. QED BY <3>1, <3>4 DEF Moved
  <2>. QED BY <2>1 DEF Moved
<1>. QED BY <1>1, <1>2

\* While nothing was withdrawn or edited in place, nothing had been before.
LEMMA SpendsMark ==
    ASSUME Typed, NEW f \in {"edits", "withdrawals", "lookups", "faults", "crashes"}, Spend(f), Untouched'
    PROVE  Untouched /\ f \notin {"withdrawals", "lookups"}
<1>. USE DEF Typed, TypeOK, SpentTyped, Spend, Untouched
<1>1. CASE f = "edits" BY <1>1
<1>2. CASE f = "withdrawals" BY <1>2
<1>3. CASE f = "lookups" BY <1>3
<1>4. CASE f = "faults" BY <1>4
<1>5. CASE f = "crashes" BY <1>5
<1>. QED BY <1>1, <1>2, <1>3, <1>4, <1>5

\* No other step moves intent under a revision.
LEMMA RevisionsMove ==
    ASSUME Typed, [Next]_vars, Untouched'
    PROVE  Untouched /\ \A r \in Reaches : Moved(r)
<1>. USE DEF Typed, TypeOK
<1>0. \A r \in Reaches : want[r] \in Wanted \union {None} BY DEF WantTyped
<1>a. ASSUME UNCHANGED want PROVE \A r \in Reaches : Moved(r)
  BY <1>0, <1>a DEF Moved, Wanted
<1>b. ASSUME UNCHANGED spent PROVE Untouched BY <1>b DEF Untouched
<1>c. ASSUME Spend("faults") \/ Spend("edits") \/ Spend("crashes") PROVE Untouched
  BY <1>c, SpendsMark
<1>1. CASE Poll
  BY <1>1, <1>a, <1>b, <1>c
  DEF Poll, PollRunning, PollUnknown, PollLost, PollSucceeded, PollFailed, PollCommit
<1>2. CASE BeginPass \/ PollRequest \/ ListDue \/ EndPass
  BY <1>2, <1>a, <1>b DEF BeginPass, PollRequest, ListDue, EndPass
<1>3. CASE StartCheck \/ ReadIntent \/ RecordModel \/ RecordNd \/ RecordKwse \/ Notify \/ Forgive
             \/ Decide \/ Act \/ Mark \/ Request
  BY <1>3, <1>a, <1>b
  DEF StartCheck, ReadIntent, RecordModel, RecordNd, RecordKwse, Notify, Forgive, Decide, Act, Mark,
      Request
<1>4. CASE Submit
  BY <1>4, <1>a, <1>b, <1>c
  DEF Submit, SubmitAccepted, SubmitNothing, SubmitRaises, SubmitTimesOut
<1>5. CASE Crash \/ Restart BY <1>5, <1>a, <1>b, <1>c DEF Crash, Restart
<1>6. CASE Jobs
  BY <1>6, <1>a, <1>b, <1>c DEF Jobs, Publish, Succeed, SucceedHollow, FailJob, End
<1>7. ASSUME NEW A \in SUBSET Reaches, NEW i \in Intents, Author(A, i) \/ ChangeDefaults(A, i)
      PROVE  Untouched /\ \A r \in Reaches : Moved(r)
  BY <1>7, <1>c, AuthoringMoves DEF Author, ChangeDefaults
<1>8. ASSUME NEW A \in SUBSET Reaches, NEW i \in Intents, EditLookup(A, i) PROVE FALSE
  BY <1>8, SpendsMark DEF EditLookup
<1>9. ASSUME NEW r \in Reaches, Withdraw(r) PROVE FALSE
  BY <1>9, SpendsMark DEF Withdraw
<1>10. CASE People
  BY <1>10, <1>7, <1>8, <1>9, <1>a, <1>b DEF People, ClearHalt, RetryTime
<1>11. CASE UNCHANGED vars BY <1>11, <1>a, <1>b DEF vars
<1>. QED
  BY <1>1, <1>2, <1>3, <1>4, <1>5, <1>6, <1>10, <1>11 DEF Next, Loop, Pass, Check

\* What a step leaves alone stays behind intent.
LEMMA BehindStays ==
    ASSUME Typed, NEW r \in Reaches, Behind(r), Moved(r), WantTyped'
    PROVE  mm'[r] = mm[r] /\ nd'[r] = nd[r] /\ kw'[r] = kw[r] => Behind(r)'
<1>1. mm[r] \in ModelRow \union {None} /\ nd[r] \in NdRow \union {None} /\ kw[r] \in KwseRow \union {None}
  BY DEF Typed, TypeOK, RowsTyped
<1>2. want[r] \in Wanted \union {None} /\ want'[r] \in Wanted \union {None}
  BY DEF Typed, TypeOK, WantTyped
<1>3. /\ mm[r] # None => mm[r].rev \in Int
      /\ nd[r] # None => nd[r].rev \in Int
      /\ kw[r] # None => kw[r].rev \in Int
      /\ want[r] # None => want[r].rev \in Int
      /\ want'[r] # None => want'[r].rev \in Int
  BY <1>1, <1>2 DEF ModelRow, NdRow, KwseRow, Wanted
<1>. QED BY <1>3 DEF Behind, Moved

\* An observation that finds nothing writes no row; one that finds something
\* writes the revision of the intent it read.
LEMMA RecordsBehind ==
    ASSUME Typed, Planning, Untouched, Held, \A r \in Reaches : Behind(r), RecordModel \/ RecordNd \/ RecordKwse
    PROVE  \A r \in Reaches : Behind(r)'
<1>. USE DEF Typed, TypeOK
<1>. DEFINE w == note.wanted
<1>0. cur \in Reaches /\ UNCHANGED want
  BY DEF RecordModel, RecordNd, RecordKwse, Where, CheckPhases
<1>1. CASE RecordModel
  <2>. DEFINE row == IF w # None /\ w.model \in built[cur]
                     THEN [model |-> w.model, rev |-> RowRevision(w)] ELSE None
  <2>1. row # None => /\ w # None /\ row.model = w.model /\ row.rev = w.rev
    BY DEF RowRevision
  <2>2. mm' = [mm EXCEPT ![cur] = row] /\ UNCHANGED <<nd, kw>> BY <1>1 DEF RecordModel
  <2>. HIDE DEF row
  <2>. QED BY <1>0, <2>1, <2>2 DEF Behind, Held, RowsTyped
<1>2. CASE RecordNd
  <2>. DEFINE row == NdRowOf(w)
  <2>1. row # None => /\ w # None /\ row.model = w.model /\ row.rev = w.rev /\ row.q >= w.q
    BY DEF NdRowOf, NdFound, ModelAgrees, RowRevision
  <2>2. nd' = [nd EXCEPT ![cur] = row] /\ UNCHANGED <<mm, kw>> BY <1>2 DEF RecordNd
  <2>. HIDE DEF row
  <2>. QED BY <1>0, <2>1, <2>2 DEF Behind, Held, RowsTyped
<1>3. CASE RecordKwse
  <2>. DEFINE row == KwseRowOf(w)
  <2>1. row # None => /\ w # None /\ row.model = w.model /\ row.rev = w.rev /\ w.dz
    BY DEF KwseRowOf, KwseFound, ModelAgrees, RowRevision, Planning
  <2>2. kw' = [kw EXCEPT ![cur] = row] /\ UNCHANGED <<mm, nd>> BY <1>3 DEF RecordKwse
  <2>. HIDE DEF row
  <2>. QED BY <1>0, <2>1, <2>2 DEF Behind, Held, RowsTyped
<1>. QED BY <1>1, <1>2, <1>3

\* An intent that is held after a step was read by it, or held before it.
LEMMA HeldMoves ==
    ASSUME Typed, [Next]_vars, note'.wanted # None,
           note.wanted # None => pc \in {"recordModel", "recordNd", "recordKwse"}
    PROVE  ReadIntent \/ UNCHANGED loop
<1>. USE DEF Typed, TypeOK
<1>1. CASE RecordModel \/ RecordNd \/ RecordKwse
  BY <1>1 DEF RecordModel, RecordNd, RecordKwse, LoopTyped, Note
<1>2. ASSUME pc \notin {"recordModel", "recordNd", "recordKwse"}
      PROVE  note'.wanted # note.wanted
  BY <1>2
<1>3. CASE Pass
  BY <1>2, <1>3
  DEF Pass, BeginPass, Poll, PollRunning, PollUnknown, PollLost, PollSucceeded, PollFailed,
      PollCommit, PollRequest, ListDue, EndPass
<1>4. CASE StartCheck \/ Mark BY <1>2, <1>4 DEF StartCheck, Mark
<1>5. CASE Notify \/ Forgive BY <1>2, <1>5 DEF Notify, Forgive, LoopTyped, Note
<1>6. EndCheck => FALSE BY DEF EndCheck, Blank
<1>7. CASE Decide \/ Act
  <2>1. CASE Decide /\ Resolve BY <1>2, <2>1 DEF Decide, Resolve, LoopTyped, Note
  <2>2. CASE Act /\ Choose BY <1>2, <2>2 DEF Act, Choose
  <2>. QED BY <1>6, <1>7, <2>1, <2>2 DEF Decide, Skip, LeaveAlone, Act, Satisfied, Await
<1>8. CASE Submit
  <2>1. CASE SubmitAccepted BY <1>2, <1>8, <2>1 DEF Submit, SubmitAccepted, LoopTyped, Note
  <2>2. CASE SubmitNothing BY <1>2, <1>8, <2>2 DEF Submit, SubmitNothing
  <2>. QED BY <1>6, <1>8, <2>1, <2>2 DEF Submit, SubmitRaises, SubmitTimesOut
<1>9. CASE Request BY <1>6, <1>9 DEF Request
<1>10. CASE Crash \/ Restart BY <1>2, <1>10 DEF Crash, Restart, Blank
<1>11. Jobs => UNCHANGED loop BY DEF Jobs, Publish, Succeed, SucceedHollow, FailJob, End
<1>12. People => UNCHANGED loop
  BY DEF People, Author, ChangeDefaults, EditLookup, Withdraw, ClearHalt, RetryTime
<1>13. UNCHANGED vars => UNCHANGED loop BY DEF vars, loop
<1>. QED
  BY <1>1, <1>3, <1>4, <1>5, <1>7, <1>8, <1>9, <1>10, <1>11, <1>12, <1>13 DEF Next, Loop, Check

\* An observation holds an intent only while it looks.
LEMMA StepHeld ==
    ASSUME Typed, [Next]_vars, Held, \A r \in Reaches : Moved(r), WantTyped'
    PROVE  Held'
<1>. USE DEF Typed, TypeOK
<1>1. CASE UNCHANGED loop
  <2>0. note' = note /\ pc' = pc /\ cur' = cur BY <1>1 DEF loop
  <2>. SUFFICES ASSUME note.wanted # None
                PROVE  /\ want'[cur] # None /\ note.wanted.rev <= want'[cur].rev
                       /\ note.wanted.rev = want'[cur].rev => note.wanted = want'[cur]
    BY <2>0 DEF Held
  <2>1. cur \in Reaches BY DEF Held, Where, CheckPhases
  <2>2. want[cur] \in Wanted /\ want'[cur] \in Wanted /\ note.wanted \in Wanted
    BY <2>1 DEF Held, Moved, WantTyped, LoopTyped, Note
  <2>3. want[cur].rev \in Nat /\ want'[cur].rev \in Nat /\ note.wanted.rev \in Nat
    BY <2>2 DEF Wanted
  <2>. QED BY <2>1, <2>3 DEF Held, Moved
<1>2. CASE ReadIntent
  <2>1. cur \in Reaches /\ note \in Note /\ pc' \in {"recordModel", "recordNd", "recordKwse"}
    BY <1>2 DEF ReadIntent, Where, CheckPhases, LoopTyped
  <2>2. note'.wanted = want[cur] /\ want' = want /\ cur' = cur BY <1>2, <2>1 DEF ReadIntent, Note
  <2>3. want[cur] # None => want[cur].rev \in Nat BY <2>1 DEF WantTyped, Wanted
  <2>. QED BY <2>1, <2>2, <2>3 DEF Held
<1>3. CASE note'.wanted = None BY <1>3 DEF Held
<1>. QED BY <1>1, <1>2, <1>3, HeldMoves DEF Held

\* Every step keeps rows behind intent.
LEMMA StepFresh == Typed /\ Planning /\ Fresh /\ [Next]_vars => Fresh'
<1>. SUFFICES ASSUME Typed, Planning, Fresh, [Next]_vars, Untouched' PROVE Held' /\ \A r \in Reaches : Behind(r)'
  BY DEF Fresh
<1>1. Untouched /\ (\A r \in Reaches : Moved(r)) /\ WantTyped'
  BY RevisionsMove, StepTyped DEF Typed, TypeOK
<1>2. Held /\ \A r \in Reaches : Behind(r) BY <1>1 DEF Fresh
<1>3. Held' BY <1>1, <1>2, StepHeld
<1>4. CASE RecordModel \/ RecordNd \/ RecordKwse BY <1>1, <1>2, <1>3, <1>4, RecordsBehind
<1>5. UNCHANGED db => \A r \in Reaches : Behind(r)' BY <1>1, <1>2, BehindStays DEF db
<1>6. ASSUME NEW r \in Reaches, Withdraw(r) PROVE FALSE BY <1>6, SpendsMark DEF Withdraw
<1>. QED BY <1>3, <1>4, <1>5, <1>6, DbMoves

\* A row that counts as applied is what the intent in force asks for, whatever
\* people author between the read and the write of an observation.
THEOREM AppliedRowsMatch == Spec => []AppliedMatchesIntent
<1>1. Typed /\ Fresh => AppliedMatchesIntent
  <2>. SUFFICES ASSUME Typed, Fresh, Untouched, NEW r \in Reaches PROVE AsAsked(r)
    BY DEF AppliedMatchesIntent, Untouched
  <2>1. mm[r] \in ModelRow \union {None} /\ nd[r] \in NdRow \union {None} /\ kw[r] \in KwseRow \union {None}
    BY DEF Typed, TypeOK, RowsTyped
  <2>2. want[r] # None => want[r].rev \in Int BY DEF Typed, TypeOK, WantTyped, Wanted
  <2>3. /\ mm[r] # None => mm[r].rev \in Int
        /\ nd[r] # None => nd[r].rev \in Int
        /\ kw[r] # None => kw[r].rev \in Int
    BY <2>1 DEF ModelRow, NdRow, KwseRow
  <2>. QED BY <2>2, <2>3 DEF Fresh, Behind, AsAsked, Applied
<1>. QED BY <1>1, TypedHolds, InitPlanning, StepPlanning, InitFresh, StepFresh, PTL DEF Spec
-----------------------------------------------------------------------------
(* Jobs, and the loop's hold on them *)

\* Nothing has failed or died.
Faultless == spent.faults = 0 /\ spent.crashes = 0

WorkOf(j, r) == Unfinished(j) /\ jobs[j].reach = r

\* The loop knows of the job: it is on the marker, or about to be.
InHand(j, r) == proc[r].ref = j \/ (pc = "mark" /\ cur = r /\ note.ref = j)

AllInHand(r) == \A j \in JobIds : WorkOf(j, r) => InHand(j, r)
AtMostOne(r) == \A j, k \in JobIds : WorkOf(j, r) /\ WorkOf(k, r) => j = k

\* Storage holds what intent asks of the jobs that build and sweep.
Holds(r, m, q) == m \in built[r] /\ swept[r][m] >= q
Served(r) == Holds(r, want[r].model, want[r].q)

\* Nothing was done for a reach nobody has asked anything of.
Unasked(r) ==
    /\ built[r] = {}
    /\ \A m \in Models : swept[r][m] = 0
    /\ \A j \in JobIds : jobs[j] # None => jobs[j].reach # r

\* All that was done was for one model.
Only(r, m) ==
    /\ built[r] \subseteq {m}
    /\ \A x \in Models : swept[r][x] # 0 => x = m
    /\ \A j \in JobIds : WorkOf(j, r) => jobs[j].model = m

\* The loop has let go of a job: what is asked for now, if anything, is in
\* storage, every model row written from now on is of the model asked for, and no
\* job the loop submits has work to do.
LetGo(r) ==
    /\ AtMostOne(r)
    /\ want[r] # None =>
          /\ Served(r)
          /\ mm[r] # None => mm[r].model = want[r].model
          /\ pc = "recordModel" /\ cur = r /\ note.wanted # None
                => note.wanted.model = want[r].model

\* A step uses up at most one thing of the bounds.
LEMMA SpentSteps ==
    ASSUME [Next]_vars
    PROVE  UNCHANGED spent \/ \E f \in {"edits", "withdrawals", "lookups", "faults", "crashes"} : Spend(f)
<1>1. CASE Pass
  BY <1>1
  DEF Pass, BeginPass, Poll, PollRunning, PollUnknown, PollLost, PollSucceeded, PollFailed,
      PollRequest, ListDue, EndPass
<1>2. CASE Submit
  BY <1>2 DEF Submit, SubmitAccepted, SubmitNothing, SubmitRaises, SubmitTimesOut
<1>3. CASE Check /\ ~Submit
  BY <1>3
  DEF Check, StartCheck, ReadIntent, RecordModel, RecordNd, RecordKwse, Notify, Forgive, Decide,
      Act, Mark, Request
<1>4. CASE Crash \/ Restart BY <1>4 DEF Crash, Restart
<1>5. CASE Jobs BY <1>5 DEF Jobs, Publish, Succeed, SucceedHollow, FailJob
<1>6. CASE People
  BY <1>6 DEF People, Author, ChangeDefaults, EditLookup, Withdraw, ClearHalt, RetryTime
<1>7. CASE UNCHANGED vars BY <1>7 DEF vars
<1>. QED BY <1>1, <1>2, <1>3, <1>4, <1>5, <1>6, <1>7 DEF Next, Loop

\* While nothing has failed nothing had, and this step is no failure.
LEMMA FaultlessBefore ==
    ASSUME Typed, [Next]_vars, Faultless'
    PROVE  Faultless /\ ~Spend("faults") /\ ~Spend("crashes")
<1>. USE DEF Faultless
<1>1. ASSUME UNCHANGED spent PROVE Faultless BY <1>1
<1>2. ASSUME NEW f \in {"edits", "withdrawals", "lookups", "faults", "crashes"}, Spend(f)
      PROVE  Faultless /\ f \notin {"faults", "crashes"}
  <2>. USE <1>2 DEF Typed, TypeOK, SpentTyped, Spend
  <2>1. CASE f = "edits" BY <2>1
  <2>2. CASE f = "withdrawals" BY <2>2
  <2>3. CASE f = "lookups" BY <2>3
  <2>4. CASE f = "faults" BY <2>4
  <2>5. CASE f = "crashes" BY <2>5
  <2>. QED BY <2>1, <2>2, <2>3, <2>4, <2>5
<1>. QED BY <1>1, <1>2, SpentSteps

\* A job on SEPEX's record was there before, with the same payload, or is being
\* submitted.
LEMMA JobsBefore ==
    ASSUME Typed, [Next]_vars, NEW j \in JobIds, jobs'[j] # None
    PROVE  \/ /\ jobs[j] # None
              /\ jobs'[j].reach = jobs[j].reach
              /\ jobs'[j].step = jobs[j].step /\ jobs'[j].model = jobs[j].model
              /\ jobs'[j].q = jobs[j].q
              /\ jobs'[j].status = "running" => jobs'[j] = jobs[j]
           \/ Submit /\ Started(cur, note.gap.step, j)
<1>. USE DEF Typed, TypeOK
<1>a. CASE UNCHANGED jobs BY <1>a
<1>b. ASSUME NEW ps, NEW held, jobs' = Reaped(jobs, ps, held) PROVE jobs'[j] = jobs[j]
  BY <1>b DEF Reaped
<1>1. CASE BeginPass \/ PollRequest \/ ListDue \/ EndPass
  BY <1>1, <1>a DEF BeginPass, PollRequest, ListDue, EndPass
<1>2. CASE Poll
  <2>. PICK r \in todo :
         PollRunning(r) \/ PollUnknown(r) \/ PollLost(r) \/ PollSucceeded(r) \/ PollFailed(r)
    BY <1>2 DEF Poll
  <2>1. UNCHANGED jobs \/ jobs' = Reaped(jobs, proc', None)
    BY DEF PollRunning, PollUnknown, PollLost, PollSucceeded, PollFailed, PollCommit
  <2>. QED BY <2>1, <1>a, <1>b
<1>3. CASE StartCheck \/ ReadIntent \/ RecordModel \/ RecordNd \/ RecordKwse \/ Notify \/ Forgive
  BY <1>3, <1>a DEF StartCheck, ReadIntent, RecordModel, RecordNd, RecordKwse, Notify, Forgive
<1>13. CASE Decide BY <1>13, <1>a DEF Decide
<1>4. CASE Act
  <2>1. UNCHANGED jobs \/ jobs' = Reaped(jobs, proc', None)
    BY <1>4 DEF Act, Satisfied, Await, Choose
  <2>. QED BY <2>1, <1>a, <1>b
<1>5. CASE Submit
  <2>1. ASSUME NEW i \in JobIds, Started(cur, note.gap.step, i)
        PROVE  i = j \/ jobs'[j] = jobs[j]
    BY <2>1 DEF Started, JobsTyped
  <2>2. UNCHANGED jobs \/ \E i \in JobIds : Started(cur, note.gap.step, i)
    BY <1>5 DEF Submit, SubmitAccepted, SubmitNothing, SubmitRaises, SubmitTimesOut
  <2>. QED BY <1>5, <2>1, <2>2, <1>a
<1>6. CASE Mark \/ Request BY <1>6, <1>a DEF Mark, Request
<1>7. CASE Crash BY <1>7, <1>b DEF Crash
<1>8. CASE Restart BY <1>8, <1>a DEF Restart
<1>9. ASSUME NEW i \in JobIds, NEW status \in {"succeeded", "failed"}, End(i, status)
      PROVE  /\ jobs[j] # None
             /\ jobs'[j].reach = jobs[j].reach
             /\ jobs'[j].step = jobs[j].step /\ jobs'[j].model = jobs[j].model
             /\ jobs'[j].q = jobs[j].q
             /\ jobs'[j].status = "running" => jobs'[j] = jobs[j]
  <2>. DEFINE js == [jobs EXCEPT ![i].status = status]
  <2>1. jobs' = Reaped(js, proc, note.ref) BY <1>9 DEF End
  <2>2. jobs'[j] = js[j]
    <3>. HIDE DEF js
    <3>. QED BY <2>1 DEF Reaped
  <2>3. CASE i # j BY <2>2, <2>3 DEF JobsTyped
  <2>4. CASE i = j
    <3>1. jobs[j] # None /\ jobs[j] \in JobRow BY <1>9, <2>4 DEF End, JobsTyped
    <3>2. jobs'[j] = [jobs[j] EXCEPT !.status = status] BY <2>2, <2>4 DEF JobsTyped
    <3>3. /\ jobs'[j].reach = jobs[j].reach /\ jobs'[j].step = jobs[j].step
          /\ jobs'[j].model = jobs[j].model /\ jobs'[j].q = jobs[j].q /\ jobs'[j].status = status
      BY <3>1, <3>2 DEF JobRow
    <3>. QED BY <3>1, <3>3
  <2>. QED BY <2>3, <2>4
<1>10. CASE Jobs BY <1>10, <1>9, <1>a DEF Jobs, Publish, Succeed, SucceedHollow, FailJob
<1>11. CASE People
  BY <1>11, <1>a DEF People, Author, ChangeDefaults, EditLookup, Withdraw, ClearHalt, RetryTime
<1>12. CASE UNCHANGED vars BY <1>12, <1>a DEF vars
<1>. QED
  BY <1>1, <1>2, <1>3, <1>4, <1>5, <1>6, <1>7, <1>8, <1>10, <1>11, <1>12, <1>13
  DEF Next, Loop, Pass, Check

\* Storage changes only when a job publishes.
LEMMA StorageSteps ==
    ASSUME [Next]_vars
    PROVE  UNCHANGED storage \/ \E j \in JobIds : Publish(j)
<1>1. CASE Pass
  BY <1>1
  DEF Pass, BeginPass, Poll, PollRunning, PollUnknown, PollLost, PollSucceeded, PollFailed,
      PollCommit, PollRequest, ListDue, EndPass
<1>2. CASE Check
  BY <1>2
  DEF Check, StartCheck, ReadIntent, RecordModel, RecordNd, RecordKwse, Notify, Forgive, Decide,
      Act, Submit, Mark, Request
<1>3. CASE Crash \/ Restart BY <1>3 DEF Crash, Restart
<1>4. CASE Jobs BY <1>4 DEF Jobs, Succeed, SucceedHollow, FailJob, End
<1>5. CASE People
  BY <1>5 DEF People, Author, ChangeDefaults, EditLookup, Withdraw, ClearHalt, RetryTime
<1>6. CASE UNCHANGED vars BY <1>6 DEF vars, storage
<1>. QED BY <1>1, <1>2, <1>3, <1>4, <1>5, <1>6 DEF Next, Loop

\* What storage holds of a reach is never taken back.
LEMMA StorageKept ==
    ASSUME Typed, [Next]_vars, NEW r \in Reaches
    PROVE  /\ built[r] \subseteq built'[r]
           /\ \A m \in Models : /\ swept[r][m] \in Nat /\ swept'[r][m] \in Nat
                               /\ swept'[r][m] >= swept[r][m]
<1>1. \A m \in Models : swept[r][m] \in Nat BY SweptIsNat DEF Typed, TypeOK
<1>2. \A m \in Models : swept'[r][m] \in Nat
  <2>1. StorageTyped' BY StepTyped DEF Typed, TypeOK
  <2>2. Discharges \union {0} \subseteq Nat BY ArtifactAssumption
  <2>. QED BY <2>1, <2>2 DEF StorageTyped
<1>3. CASE UNCHANGED storage BY <1>1, <1>3 DEF storage
<1>4. CASE \E i \in JobIds : Publish(i) BY <1>1, <1>2, <1>4, StorageGrows
<1>. QED BY <1>3, <1>4, <1>1, <1>2, StorageSteps

\* A job publishes for its own reach and model, and while a build or a sweep has work
\* left it has not come as far as it was asked to.
LEMMA PublishWorks ==
    ASSUME Typed, NEW j \in JobIds, Publish(j), NEW r \in Reaches
    PROVE  \/ UNCHANGED <<built[r], swept[r]>>
           \/ /\ WorkOf(j, r)
              /\ built'[r] \subseteq built[r] \union {jobs[j].model}
              /\ \A m \in Models : swept'[r][m] = swept[r][m] \/ m = jobs[j].model
              /\ WorkOf(j, r)' =>
                    /\ built'[r] = built[r]
                    /\ \A m \in Models : swept'[r][m] = swept[r][m] \/ swept'[r][m] < jobs[j].q
<1>. USE DEF Typed, TypeOK
<1>. DEFINE b == jobs[j]
<1>0. b \in JobRow /\ b.reach \in Reaches /\ b.model \in Models /\ b.q \in Nat
  BY ArtifactAssumption DEF Publish, JobsTyped, JobRow
<1>1. /\ built \in [Reaches -> SUBSET Models]
      /\ swept \in [Reaches -> [Models -> Nat]]
  <2>1. Discharges \union {0} \subseteq Nat BY ArtifactAssumption
  <2>. QED BY <2>1 DEF StorageTyped
<1>2. Running(j) /\ ~Done(j) /\ UNCHANGED jobs BY DEF Publish, Running
<1>3. CASE b.step = BuildModel /\ built' = [built EXCEPT ![b.reach] = @ \union {b.model}] /\ UNCHANGED swept
  <2>1. CASE r # b.reach BY <1>1, <1>3, <2>1
  <2>2. CASE r = b.reach
    <3>1. built'[r] = built[r] \union {b.model} BY <1>1, <1>3, <2>2
    <3>2. WorkOf(j, r) BY <1>2, <1>3, <2>2 DEF WorkOf, Unfinished, BuildModel, RunKwse
    <3>3. Done(j)' BY <1>2, <1>3, <2>2, <3>1 DEF Done, BuildModel, RunNd, RunKwse
    <3>. QED BY <1>3, <3>1, <3>2, <3>3 DEF WorkOf, Unfinished
  <2>. QED BY <2>1, <2>2
<1>4. CASE /\ b.step = RunNd
           /\ \E q \in Discharges : swept' = [swept EXCEPT ![b.reach][b.model] = q]
           /\ UNCHANGED built
  <2>. PICK q \in Discharges : swept' = [swept EXCEPT ![b.reach][b.model] = q] BY <1>4
  <2>0. q \in Nat BY ArtifactAssumption
  <2>1. CASE r # b.reach BY <1>1, <1>4, <2>1
  <2>2. CASE r = b.reach
    <3>1. \A m \in Models : swept'[r][m] = IF m = b.model THEN q ELSE swept[r][m]
      BY <1>0, <1>1, <2>2
    <3>2. WorkOf(j, r) BY <1>2, <1>4, <2>2 DEF WorkOf, Unfinished, RunNd, RunKwse
    <3>3. WorkOf(j, r)' => q < b.q
      <4>1. WorkOf(j, r)' => ~(swept'[r][b.model] >= b.q)
        BY <1>2, <1>4, <2>2 DEF WorkOf, Unfinished, Done, BuildModel, RunNd, RunKwse
      <4>. QED BY <1>0, <2>0, <3>1, <4>1
    <3>. QED BY <1>4, <3>1, <3>2, <3>3
  <2>. QED BY <2>1, <2>2
<1>. QED BY <1>3, <1>4 DEF Publish

\* What a check submits is for its reach, by its intent and its model row.
LEMMA SubmittedIs ==
    ASSUME Typed, Submit, NEW j \in JobIds, Started(cur, note.gap.step, j)
    PROVE  /\ pc = "submit" /\ cur \in Reaches /\ want[cur] # None
           /\ jobs[j] = None
           /\ jobs'[j].reach = cur /\ jobs'[j].step = note.gap.step /\ jobs'[j].q = want[cur].q
           /\ note.gap.step = BuildModel => jobs'[j].model = want[cur].model
           /\ note.gap.step = RunNd => mm[cur] # None /\ jobs'[j].model = mm[cur].model
           /\ UNCHANGED <<want, db, storage, mm, built, swept>>
<1>. USE DEF Typed, TypeOK
<1>1. pc = "submit" /\ cur \in Reaches /\ UNCHANGED <<want, db, storage>>
  BY DEF Submit, Where, CheckPhases
<1>2. jobs'[j] = JobFor(cur, note.gap.step) /\ jobs[j] = None BY DEF Started, Free, JobsTyped
<1>3. want[cur] # None /\ (note.gap.step = RunNd => mm[cur] # None) BY DEF Started, Ready
<1>4. note.gap.step = RunNd => note.gap.step # BuildModel BY DEF BuildModel, RunNd
<1>. QED BY <1>1, <1>2, <1>3, <1>4 DEF JobFor, db, storage

\* Work that is left was left before, or has just been submitted.
LEMMA WorkBefore ==
    ASSUME Typed, [Next]_vars, NEW j \in JobIds, NEW r \in Reaches, WorkOf(j, r)'
    PROVE  \/ WorkOf(j, r) /\ jobs'[j] = jobs[j]
           \/ Submit /\ Started(cur, note.gap.step, j) /\ r = cur
<1>. USE DEF Typed, TypeOK
<1>0. jobs'[j] # None /\ jobs'[j].status = "running" /\ jobs'[j].reach = r
      /\ jobs'[j].step # RunKwse /\ ~Done(j)'
  BY DEF WorkOf, Unfinished, Running
<1>1. CASE Submit /\ Started(cur, note.gap.step, j) BY <1>0, <1>1, SubmittedIs
<1>2. CASE jobs[j] # None /\ jobs'[j] = jobs[j]
  <2>1. jobs[j] \in JobRow BY <1>2 DEF JobsTyped
  <2>2. jobs[j].model \in Models /\ jobs[j].q \in Nat BY <2>1, ArtifactAssumption DEF JobRow
  <2>3. built[r] \subseteq built'[r] /\ \A m \in Models : swept'[r][m] >= swept[r][m]
    BY StorageKept
  <2>4. swept[r][jobs[j].model] \in Nat /\ swept'[r][jobs[j].model] \in Nat BY <2>2, StorageKept
  <2>6. Done(j) => Done(j)'
    <3>1. CASE jobs[j].step = BuildModel
      BY <1>0, <1>2, <2>3, <3>1 DEF Done, BuildModel, RunNd, RunKwse
    <3>2. CASE jobs[j].step = RunNd
      BY <1>0, <1>2, <2>2, <2>3, <2>4, <3>2 DEF Done, BuildModel, RunNd, RunKwse
    <3>. QED BY <1>0, <1>2, <2>1, <3>1, <3>2 DEF JobRow, Steps
  <2>. QED BY <1>0, <1>2, <2>6 DEF WorkOf, Unfinished, Running
<1>. QED BY <1>0, <1>1, <1>2, JobsBefore

\* A reach whose jobs are all in hand has at most one with work left.
LEMMA OneInHand ==
    ASSUME Typed, Marks, NEW r \in Reaches, AllInHand(r)
    PROVE  AtMostOne(r)
<1>1. pc = "mark" /\ cur = r => proc[r].ref = None BY DEF Marks, Named
<1>2. \A j \in JobIds : j # None BY JobAssumption
<1>. QED BY <1>1, <1>2 DEF AllInHand, AtMostOne, InHand

\* How the loop comes to record, and how it leaves a mark.
LEMMA LoopMoves ==
    ASSUME [Next]_vars
    PROVE  /\ pc' \in {"recordModel", "recordNd"} => ReadIntent \/ UNCHANGED loop
           /\ pc = "mark" => Mark \/ Crash \/ UNCHANGED loop
<1>1. CASE Pass
  BY <1>1
  DEF Pass, BeginPass, Poll, PollRunning, PollUnknown, PollLost, PollSucceeded, PollFailed,
      PollCommit, PollRequest, ListDue, EndPass
<1>2. CASE Decide \/ Act
  BY <1>2 DEF Decide, Skip, LeaveAlone, Resolve, Act, Satisfied, Await, Choose, EndCheck
<1>3. CASE Submit
  BY <1>3 DEF Submit, SubmitAccepted, SubmitNothing, SubmitRaises, SubmitTimesOut, EndCheck
<1>4. CASE ReadIntent BY <1>4 DEF ReadIntent
<1>5. CASE StartCheck \/ RecordModel \/ RecordNd \/ RecordKwse \/ Notify \/ Forgive \/ Mark \/ Request
  BY <1>5
  DEF StartCheck, RecordModel, RecordNd, RecordKwse, Notify, Forgive, Mark, Request, EndCheck
<1>6. CASE Crash \/ Restart BY <1>6 DEF Crash, Restart
<1>7. CASE Jobs BY <1>7 DEF Jobs, Publish, Succeed, SucceedHollow, FailJob, End
<1>8. CASE People
  BY <1>8 DEF People, Author, ChangeDefaults, EditLookup, Withdraw, ClearHalt, RetryTime
<1>9. CASE UNCHANGED vars BY <1>9 DEF vars, loop
<1>. QED BY <1>1, <1>2, <1>3, <1>4, <1>5, <1>6, <1>7, <1>8, <1>9 DEF Next, Loop, Check

\* The rows of models and normal-depth runs change when they are recorded, and
\* with a deletion.
LEMMA RowsMove ==
    ASSUME [Next]_vars
    PROVE  \/ UNCHANGED <<mm, nd>>
           \/ RecordModel \/ RecordNd \/ \E r \in Reaches : Withdraw(r)
BY DbMoves DEF db, RecordKwse

\* How often people have authored intent or edited a lookup.
Changes == spent.edits + spent.lookups

Changing(A, i) == Author(A, i) \/ ChangeDefaults(A, i) \/ EditLookup(A, i)

\* Intent changes when people change it, who touch nothing else, or is deleted.
LEMMA IntentMoves ==
    ASSUME Typed, [Next]_vars
    PROVE  \/ Changes' = Changes /\ UNCHANGED want
           \/ Changes' = Changes /\ \E r \in Reaches : Withdraw(r)
           \/ /\ Changes' = Changes + 1 /\ UNCHANGED <<db, proc, storage, jobs, loop>>
              /\ \E A \in SUBSET Reaches, i \in Intents : Changing(A, i)
<1>a. UNCHANGED spent => Changes' = Changes BY DEF Changes
<1>b. ASSUME NEW f \in {"withdrawals", "faults", "crashes"}, Spend(f) PROVE Changes' = Changes
  <2>. USE <1>b DEF Typed, TypeOK, SpentTyped, Spend, Changes
  <2>1. CASE f = "withdrawals" BY <2>1
  <2>2. CASE f = "faults" BY <2>2
  <2>3. CASE f = "crashes" BY <2>3
  <2>. QED BY <2>1, <2>2, <2>3
<1>c. ASSUME NEW f \in {"edits", "lookups"}, Spend(f) PROVE Changes' = Changes + 1
  <2>. USE <1>c DEF Typed, TypeOK, SpentTyped, Spend, Changes
  <2>1. CASE f = "edits" BY <2>1
  <2>2. CASE f = "lookups" BY <2>2
  <2>. QED BY <2>1, <2>2
<1>1. CASE Pass
  BY <1>1, <1>a, <1>b
  DEF Pass, BeginPass, Poll, PollRunning, PollUnknown, PollLost, PollSucceeded, PollFailed,
      PollCommit, PollRequest, ListDue, EndPass
<1>2. CASE Check /\ ~Submit
  BY <1>2, <1>a
  DEF Check, StartCheck, ReadIntent, RecordModel, RecordNd, RecordKwse, Notify, Forgive, Decide,
      Act, Mark, Request
<1>3. CASE Submit
  BY <1>3, <1>a, <1>b DEF Submit, SubmitAccepted, SubmitNothing, SubmitRaises, SubmitTimesOut
<1>4. CASE Crash \/ Restart BY <1>4, <1>a, <1>b DEF Crash, Restart
<1>5. CASE Jobs BY <1>5, <1>a, <1>b DEF Jobs, Publish, Succeed, SucceedHollow, FailJob, End
<1>6. CASE People
  <2>1. ASSUME NEW A \in SUBSET Reaches, NEW i \in Intents, Changing(A, i)
        PROVE  Changes' = Changes + 1 /\ UNCHANGED <<db, proc, storage, jobs, loop>>
    BY <2>1, <1>c DEF Changing, Author, ChangeDefaults, EditLookup
  <2>2. ASSUME NEW r \in Reaches, Withdraw(r) PROVE Changes' = Changes
    BY <2>2, <1>b DEF Withdraw
  <2>3. ASSUME NEW r \in Reaches, ClearHalt(r) \/ RetryTime(r)
        PROVE  Changes' = Changes /\ UNCHANGED want
    BY <2>3, <1>a DEF ClearHalt, RetryTime
  <2>. QED BY <1>6, <2>1, <2>2, <2>3 DEF People, Changing
<1>7. CASE UNCHANGED vars BY <1>7, <1>a DEF vars
<1>. QED BY <1>1, <1>2, <1>3, <1>4, <1>5, <1>6, <1>7 DEF Next, Loop

\* The jobs of a reach stay in hand as long as the loop drops no marker of one
\* with work left because it has decided that nothing is missing.
LEMMA StaysInHand ==
    ASSUME Typed, Marks, [Next]_vars, Faultless', NEW r \in Reaches, AllInHand(r),
           Act /\ note.gap = NoGap /\ cur = r =>
               \A j \in JobIds : WorkOf(j, r) /\ proc[r].ref = j => ~Drops(r)
    PROVE  AllInHand(r)'
<1>. USE DEF Typed, TypeOK
<1>0. Faultless /\ ~Spend("faults") /\ ~Spend("crashes") BY FaultlessBefore
<1>. SUFFICES ASSUME NEW j \in JobIds, WorkOf(j, r)' PROVE InHand(j, r)' BY DEF AllInHand
<1>1. CASE Submit /\ Started(cur, note.gap.step, j) /\ r = cur
  <2>1. CASE SubmitAccepted
    <3>. PICK i \in JobIds : Started(cur, note.gap.step, i) /\ note' = [note EXCEPT !.ref = i]
      BY <2>1 DEF SubmitAccepted
    <3>1. i = j BY <1>1, JobAssumption DEF Started
    <3>2. note'.ref = i BY DEF LoopTyped, Note
    <3>. QED BY <1>1, <2>1, <3>1, <3>2 DEF SubmitAccepted, InHand
  <2>2. CASE SubmitNothing \/ SubmitRaises
    <3>1. jobs'[j] = None BY <1>1, <2>2, SubmittedIs DEF SubmitNothing, SubmitRaises
    <3>. QED BY <3>1 DEF WorkOf, Unfinished, Running
  <2>3. CASE SubmitTimesOut BY <1>0, <2>3 DEF SubmitTimesOut
  <2>. QED BY <1>1, <2>1, <2>2, <2>3 DEF Submit
<1>2. CASE WorkOf(j, r)
  <2>1. CASE proc[r].ref = j
    <3>1. j # None /\ Running(j) BY <1>2, JobAssumption DEF WorkOf, Unfinished
    <3>2. ~(spent'.faults > spent.faults) BY <1>0 DEF Faultless
    <3>3. ~(Drops(r) /\ Excused(r)) BY <1>2, <2>1, <3>1, <3>2 DEF Excused
    <3>4. ~(Mark /\ r = cur) BY <2>1, <3>1 DEF Mark, Marks, Named
    <3>5. Keeps(r) BY <3>3, <3>4, MarkerSteps
    <3>. QED BY <2>1, <3>5 DEF Keeps, InHand
  <2>2. CASE pc = "mark" /\ cur = r /\ note.ref = j
    <3>1. CASE Mark
      <4>1. proc'[r] = Marked(proc[r], note.gap.step, note.ref) BY <2>2, <3>1 DEF Mark, ProcTyped
      <4>2. proc'[r].ref = j BY <2>2, <4>1, ProcColumns DEF ProcTyped
      <4>. QED BY <4>2 DEF InHand
    <3>2. CASE UNCHANGED loop BY <2>2, <3>2 DEF loop, InHand
    <3>3. ~Crash BY <1>0 DEF Crash
    <3>. QED BY <2>2, <3>1, <3>2, <3>3, LoopMoves
  <2>. QED BY <1>2, <2>1, <2>2 DEF AllInHand, InHand
<1>. QED BY <1>1, <1>2, WorkBefore

\* Nothing is done for a reach that has never been asked anything of.
LEMMA UnaskedStays ==
    ASSUME Typed, [Next]_vars, NEW r \in Reaches, want[r] = None, Unasked(r)
    PROVE  Unasked(r)'
<1>1. UNCHANGED <<built[r], swept[r]>>
  <2>1. ASSUME NEW j \in JobIds, Publish(j) PROVE UNCHANGED <<built[r], swept[r]>>
    <3>1. ~WorkOf(j, r) BY DEF WorkOf, Unfinished, Running, Unasked
    <3>. QED BY <2>1, <3>1, PublishWorks
  <2>2. UNCHANGED storage => UNCHANGED <<built[r], swept[r]>> BY DEF storage
  <2>. QED BY <2>1, <2>2, StorageSteps
<1>2. ASSUME NEW j \in JobIds, jobs'[j] # None PROVE jobs'[j].reach # r
  <2>1. CASE Submit /\ Started(cur, note.gap.step, j) BY <2>1, SubmittedIs
  <2>2. CASE jobs[j] # None /\ jobs'[j].reach = jobs[j].reach BY <2>2 DEF Unasked
  <2>. QED BY <1>2, <2>1, <2>2, JobsBefore
<1>. QED BY <1>1, <1>2 DEF Unasked

\* What an intent says.
LEMMA WantedIs ==
    ASSUME NEW w \in Wanted PROVE w.model \in Models /\ w.q \in Nat \ {0} /\ w.rev \in Nat
BY ArtifactAssumption DEF Wanted

\* What is done while intent asks for one model, or for nothing, is for that model.
LEMMA OnlyStays ==
    ASSUME Typed, RecordedIsStored, [Next]_vars, NEW r \in Reaches, NEW m \in Models,
           want[r] # None => want[r].model = m, Only(r, m)
    PROVE  Only(r, m)'
<1>1. built'[r] \subseteq {m} /\ \A x \in Models : swept'[r][x] # 0 => x = m
  <2>1. ASSUME NEW j \in JobIds, Publish(j)
        PROVE  built'[r] \subseteq {m} /\ \A x \in Models : swept'[r][x] # 0 => x = m
    <3>1. CASE UNCHANGED <<built[r], swept[r]>> BY <3>1 DEF Only
    <3>2. CASE /\ WorkOf(j, r)
               /\ built'[r] \subseteq built[r] \union {jobs[j].model}
               /\ \A x \in Models : swept'[r][x] = swept[r][x] \/ x = jobs[j].model
      <4>1. jobs[j].model = m BY <3>2 DEF Only
      <4>. QED BY <3>2, <4>1 DEF Only
    <3>. QED BY <2>1, <3>1, <3>2, PublishWorks
  <2>2. CASE UNCHANGED storage BY <2>2 DEF storage, Only
  <2>. QED BY <2>1, <2>2, StorageSteps
<1>2. ASSUME NEW j \in JobIds, WorkOf(j, r)' PROVE jobs'[j].model = m
  <2>1. CASE WorkOf(j, r) /\ jobs'[j] = jobs[j] BY <2>1 DEF Only
  <2>2. CASE Submit /\ Started(cur, note.gap.step, j) /\ r = cur
    <3>1. note.gap.step \in {BuildModel, RunNd}
      BY <1>2, <2>2, SubmittedIs DEF WorkOf, Unfinished, Typed, Where, Steps
    <3>2. mm[r] # None => mm[r].model = m BY DEF RecordedIsStored, Only
    <3>. QED BY <2>2, <3>1, <3>2, SubmittedIs
  <2>. QED BY <1>2, <2>1, <2>2, WorkBefore
<1>. QED BY <1>1, <1>2 DEF Only

\* A job with work left while all was done for one model means that storage does not
\* hold what that job was asked for, of any model.
LEMMA OnlyHoldsNone ==
    ASSUME Typed, NEW r \in Reaches, NEW m \in Models, Only(r, m), NEW j \in JobIds, WorkOf(j, r),
           NEW x \in Models
    PROVE  ~Holds(r, x, jobs[j].q)
<1>. USE DEF Typed, TypeOK
<1>1. /\ jobs[j] \in JobRow /\ jobs[j].step # RunKwse /\ ~Done(j) /\ jobs[j].reach = r
      /\ jobs[j].model = m
  BY DEF WorkOf, Unfinished, Running, JobsTyped, Only
<1>2. jobs[j].q \in Nat \ {0} BY <1>1, ArtifactAssumption DEF JobRow
<1>3. swept[r][x] \in Nat BY SweptIsNat
<1>4. CASE jobs[j].step = BuildModel
  <2>1. m \notin built[r] BY <1>1, <1>4 DEF Done, BuildModel, RunNd, RunKwse
  <2>. QED BY <2>1 DEF Only, Holds
<1>5. CASE jobs[j].step = RunNd
  <2>1. ~(swept[r][m] >= jobs[j].q) BY <1>1, <1>5 DEF Done, BuildModel, RunNd, RunKwse
  <2>2. CASE x = m BY <2>1, <2>2 DEF Holds
  <2>3. CASE x # m
    <3>1. swept[r][x] = 0 BY <2>3 DEF Only
    <3>. QED BY <1>2, <3>1 DEF Holds
  <2>. QED BY <2>2, <2>3
<1>. QED BY <1>1, <1>4, <1>5 DEF JobRow, Steps

\* Once the loop has let go of a job, what it submits has no work to do.
LEMMA LetGoStays ==
    ASSUME Typed, [Next]_vars, NEW r \in Reaches, want'[r] \in {want[r], None}, LetGo(r)
    PROVE  LetGo(r)'
<1>. USE DEF Typed, TypeOK
<1>1. ASSUME NEW j \in JobIds, WorkOf(j, r)' PROVE WorkOf(j, r)
  <2>. SUFFICES ASSUME Submit /\ Started(cur, note.gap.step, j) /\ r = cur PROVE FALSE
    BY <1>1, WorkBefore
  <2>1. ~Done(j)' /\ jobs'[j].step # RunKwse BY <1>1 DEF WorkOf, Unfinished
  <2>2. /\ jobs'[j].reach = r /\ jobs'[j].step = note.gap.step /\ jobs'[j].q = want[r].q
        /\ jobs'[j].model = want[r].model /\ UNCHANGED <<built, swept>> /\ Served(r)
    BY <2>1, SubmittedIs DEF Where, Steps, LetGo
  <2>3. note.gap.step \in {BuildModel, RunNd} BY <2>1, <2>2, SubmittedIs DEF Where, Steps
  <2>. QED BY <2>1, <2>2, <2>3 DEF Done, Served, Holds, BuildModel, RunNd, RunKwse
<1>2. AtMostOne(r)' BY <1>1 DEF AtMostOne, LetGo
<1>. SUFFICES ASSUME want[r] # None, want'[r] = want[r]
              PROVE  /\ Served(r)'
                     /\ mm'[r] # None => mm'[r].model = want[r].model
                     /\ pc' = "recordModel" /\ cur' = r /\ note'.wanted # None
                           => note'.wanted.model = want[r].model
  BY <1>2 DEF LetGo
<1>3. want[r] \in Wanted /\ want[r].model \in Models /\ want[r].q \in Nat
  <2>1. want[r] \in Wanted BY DEF WantTyped
  <2>. QED BY <2>1, WantedIs
<1>4. Served(r)'
  <2>1. built[r] \subseteq built'[r] BY StorageKept
  <2>2. /\ swept[r][want[r].model] \in Nat /\ swept'[r][want[r].model] \in Nat
        /\ swept'[r][want[r].model] >= swept[r][want[r].model]
    BY <1>3, StorageKept
  <2>. QED BY <1>3, <2>1, <2>2 DEF LetGo, Served, Holds
<1>5. ASSUME mm'[r] # None PROVE mm'[r].model = want[r].model
  <2>1. CASE UNCHANGED <<mm, nd>> BY <1>5, <2>1 DEF LetGo
  <2>2. CASE RecordNd BY <1>5, <2>2 DEF RecordNd, LetGo
  <2>3. CASE RecordModel /\ cur # r
    <3>1. mm'[r] = mm[r] BY <2>3 DEF RecordModel, RowsTyped
    <3>. QED BY <1>5, <3>1 DEF LetGo
  <2>4. CASE RecordModel /\ cur = r
    <3>1. mm'[r] = [model |-> note.wanted.model, rev |-> RowRevision(note.wanted)]
          /\ note.wanted # None
      BY <1>5, <2>4 DEF RecordModel, RowsTyped
    <3>2. note.wanted.model = want[r].model BY <2>4, <3>1 DEF RecordModel, LetGo
    <3>. QED BY <3>1, <3>2
  <2>5. ASSUME NEW x \in Reaches, Withdraw(x) PROVE mm'[r].model = want[r].model
    BY <1>5, <2>5, WithdrawnRows DEF LetGo
  <2>. QED BY <2>1, <2>2, <2>3, <2>4, <2>5, RowsMove
<1>6. ASSUME pc' = "recordModel", cur' = r, note'.wanted # None
      PROVE  note'.wanted.model = want[r].model
  <2>1. CASE ReadIntent BY <1>6, <2>1 DEF ReadIntent, LoopTyped, Note
  <2>2. CASE UNCHANGED loop BY <1>6, <2>2 DEF loop, LetGo
  <2>. QED BY <1>6, <2>1, <2>2, LoopMoves
<1>. QED BY <1>4, <1>5, <1>6


\* A check that drops the marker of a job with work left, storage holding what is
\* asked for, lets go of it.
LEMMA LetGoArises ==
    ASSUME Typed, Act, NEW r \in Reaches, AtMostOne(r),
           want[r] # None => Served(r) /\ (mm[r] # None => mm[r].model = want[r].model)
    PROVE  LetGo(r)'
<1>1. UNCHANGED <<want, mm, built, swept>> /\ pc' # "recordModel" /\ ~Submit
  BY DEF Act, Satisfied, Await, Choose, EndCheck, Submit, db, storage
<1>2. [Next]_vars BY DEF Next, Loop, Check
<1>3. AtMostOne(r)'
  <2>1. \A k \in JobIds : WorkOf(k, r)' => WorkOf(k, r) BY <1>1, <1>2, WorkBefore
  <2>. QED BY <2>1 DEF AtMostOne
<1>. QED BY <1>1, <1>3 DEF LetGo, Served, Holds

-----------------------------------------------------------------------------
(* What a job starts from *)

\* No job is submitted for a reach that is parked or backing off.
THEOREM BackingOffIsKept == Spec => BackOffIsKept
<1>1. Typed /\ Parked /\ Awake /\ [Next]_vars =>
        [\A j \in JobIds : jobs[j] = None /\ jobs'[j] # None =>
            ~proc[jobs'[j].reach].halted /\ ~proc[jobs'[j].reach].resting]_vars
  <2>. SUFFICES ASSUME Typed, Parked, Awake, [Next]_vars, NEW j \in JobIds,
                       jobs[j] = None, jobs'[j] # None
                PROVE  ~proc[jobs'[j].reach].halted /\ ~proc[jobs'[j].reach].resting
    OBVIOUS
  <2>1. Submit /\ Started(cur, note.gap.step, j) BY JobsBefore
  <2>2. pc = "submit" /\ jobs'[j].reach = cur BY <2>1, SubmittedIs
  <2>. QED BY <2>2 DEF Parked, Awake, CheckPhases
<1>. QED BY <1>1, TypedHolds, InitParked, StepParked, InitAwake, StepAwake, PTL DEF Spec, BackOffIsKept

\* From the record of the normal-depth row on, a check has rows of one model.
Fitting ==
    pc \in {"readKwse", "recordKwse", "notify", "forgive", "decide", "act", "submit"} =>
        (mm[cur] # None /\ nd[cur] # None => nd[cur].model = mm[cur].model)

\* A check comes to those phases by recording the normal-depth row.
LEMMA FittingPhases ==
    ASSUME [Next]_vars,
           pc' \in {"readKwse", "recordKwse", "notify", "forgive", "decide", "act", "submit"}
    PROVE  \/ RecordNd
           \/ /\ pc \in {"readKwse", "recordKwse", "notify", "forgive", "decide", "act", "submit"}
              /\ cur' = cur /\ (pc = "submit" => pc' = "submit")
              /\ pc = "act" => pc' \in {"act", "submit"}
<1>1. CASE Pass
  BY <1>1
  DEF Pass, BeginPass, Poll, PollRunning, PollUnknown, PollLost, PollSucceeded, PollFailed,
      PollCommit, PollRequest, ListDue, EndPass
<1>2. CASE Decide \/ Act
  BY <1>2 DEF Decide, Skip, LeaveAlone, Resolve, Act, Satisfied, Await, Choose, EndCheck
<1>3. CASE Submit
  BY <1>3 DEF Submit, SubmitAccepted, SubmitNothing, SubmitRaises, SubmitTimesOut, EndCheck
<1>4. CASE StartCheck \/ ReadIntent \/ RecordModel \/ RecordKwse \/ Notify \/ Forgive \/ Mark \/ Request
  BY <1>4
  DEF StartCheck, ReadIntent, RecordModel, RecordKwse, Notify, Forgive, Mark, Request, EndCheck
<1>5. CASE Crash \/ Restart BY <1>5 DEF Crash, Restart
<1>6. Jobs => UNCHANGED loop BY DEF Jobs, Publish, Succeed, SucceedHollow, FailJob, End
<1>7. People => UNCHANGED loop
  BY DEF People, Author, ChangeDefaults, EditLookup, Withdraw, ClearHalt, RetryTime
<1>8. UNCHANGED vars => UNCHANGED loop BY DEF vars, loop
<1>. QED BY <1>1, <1>2, <1>3, <1>4, <1>5, <1>6, <1>7, <1>8 DEF Next, Loop, Check, loop

\* An observation of runs looks under the model the model row names.
LEMMA StepFitting == Typed /\ Fitting /\ [Next]_vars => Fitting'
<1>. SUFFICES ASSUME Typed, Fitting, [Next]_vars,
                     pc' \in {"readKwse", "recordKwse", "notify", "forgive", "decide", "act", "submit"},
                     mm'[cur'] # None, nd'[cur'] # None
              PROVE  nd'[cur'].model = mm'[cur'].model
  BY DEF Fitting
<1>. USE DEF Typed, TypeOK
<1>1. CASE RecordNd
  <2>1. cur \in Reaches /\ cur' = cur /\ mm' = mm BY <1>1 DEF RecordNd, Where, CheckPhases
  <2>2. nd'[cur] = NdRowOf(note.wanted) BY <1>1, <2>1 DEF RecordNd, RowsTyped
  <2>. QED BY <2>1, <2>2, NdRowFields DEF NdFound, ModelAgrees
<1>2. CASE /\ pc \in {"readKwse", "recordKwse", "notify", "forgive", "decide", "act", "submit"}
           /\ cur' = cur
  <2>1. cur \in Reaches /\ ~RecordModel /\ ~RecordNd
    BY <1>2 DEF Where, CheckPhases, RecordModel, RecordNd
  <2>2. CASE UNCHANGED <<mm, nd>> BY <1>2, <2>2 DEF Fitting
  <2>3. ASSUME NEW r \in Reaches, Withdraw(r) PROVE nd'[cur].model = mm'[cur].model
    <3>1. /\ mm'[cur] = None <=> mm[cur] = None
          /\ nd'[cur] = None <=> nd[cur] = None
          /\ mm[cur] # None => mm'[cur].model = mm[cur].model
          /\ nd[cur] # None => nd'[cur].model = nd[cur].model
      BY <2>1, <2>3, WithdrawnRows
    <3>. QED BY <1>2, <3>1 DEF Fitting
  <2>. QED BY <1>2, <2>1, <2>2, <2>3, RowsMove
<1>. QED BY <1>1, <1>2, FittingPhases

\* What jobs start from stays there, and a job that is submitted finds it there.
LEMMA StepInputs ==
    Typed /\ Fitting /\ RecordedIsStored /\ JobsHaveInputs /\ [Next]_vars => JobsHaveInputs'
<1>. SUFFICES ASSUME Typed, Fitting, RecordedIsStored, JobsHaveInputs, [Next]_vars,
                     NEW j \in JobIds, jobs'[j] # None
              PROVE  LET r == jobs'[j].reach IN
                     /\ jobs'[j].step = RunNd => jobs'[j].model \in built'[r]
                     /\ jobs'[j].step = RunKwse => swept'[r][jobs'[j].model] > 0
                     /\ r \notin Terminals =>
                            Below[r] # None /\ \E m \in Models : swept'[Below[r]][m] > 0
  BY DEF JobsHaveInputs
<1>. USE DEF Typed, TypeOK
<1>1. CASE /\ jobs[j] # None
           /\ jobs'[j].reach = jobs[j].reach
           /\ jobs'[j].step = jobs[j].step /\ jobs'[j].model = jobs[j].model
  <2>. DEFINE r == jobs[j].reach
  <2>1. r \in Reaches /\ jobs[j].model \in Models BY <1>1 DEF JobsTyped, JobRow
  <2>2. /\ jobs[j].step = RunNd => jobs[j].model \in built[r]
        /\ jobs[j].step = RunKwse => swept[r][jobs[j].model] > 0
        /\ r \notin Terminals => Below[r] # None /\ \E m \in Models : swept[Below[r]][m] > 0
    BY <1>1 DEF JobsHaveInputs
  <2>3. jobs[j].step = RunNd => jobs[j].model \in built'[r] BY <2>1, <2>2, StorageKept
  <2>4. jobs[j].step = RunKwse => swept'[r][jobs[j].model] > 0 BY <2>1, <2>2, StorageKept
  <2>5. ASSUME r \notin Terminals
        PROVE  Below[r] # None /\ \E m \in Models : swept'[Below[r]][m] > 0
    <3>1. Below[r] \in Reaches BY <2>1, <2>2, <2>5, NetworkAssumption
    <3>2. PICK m \in Models : swept[Below[r]][m] > 0 BY <2>2, <2>5
    <3>3. /\ swept[Below[r]][m] \in Nat /\ swept'[Below[r]][m] \in Nat
          /\ swept'[Below[r]][m] >= swept[Below[r]][m]
      BY <3>1, StorageKept
    <3>4. swept'[Below[r]][m] > 0 BY <3>2, <3>3
    <3>. QED BY <2>2, <2>5, <3>4
  <2>. QED BY <1>1, <2>3, <2>4, <2>5
<1>2. CASE Submit /\ Started(cur, note.gap.step, j)
  <2>1. /\ pc = "submit" /\ cur \in Reaches /\ jobs'[j].reach = cur /\ jobs'[j].step = note.gap.step
        /\ built' = built /\ swept' = swept
    BY <1>2, SubmittedIs
  <2>2. Ready(cur, note.gap.step) /\ jobs'[j] = JobFor(cur, note.gap.step) BY <1>2 DEF Started, JobsTyped
  <2>3. ASSUME NEW x \in Reaches, nd[x] # None
        PROVE  nd[x].model \in Models /\ swept[x][nd[x].model] > 0
    <3>1. nd[x].model \in Models BY <2>3 DEF RowsTyped, NdRow
    <3>2. swept[x][nd[x].model] \in Nat BY <3>1, SweptIsNat
    <3>3. nd[x].q \in 1..swept[x][nd[x].model] BY <2>3 DEF RecordedIsStored
    <3>. QED BY <3>1, <3>2, <3>3
  <2>4. ASSUME note.gap.step = RunNd PROVE jobs'[j].model \in built[cur]
    <3>1. mm[cur] # None /\ jobs'[j].model = mm[cur].model
      BY <2>2, <2>4 DEF Ready, JobFor, BuildModel, RunNd
    <3>. QED BY <2>1, <3>1 DEF RecordedIsStored
  <2>5. ASSUME note.gap.step = RunKwse PROVE swept[cur][jobs'[j].model] > 0
    <3>1. mm[cur] # None /\ nd[cur] # None /\ jobs'[j].model = mm[cur].model
      BY <2>2, <2>5 DEF Ready, Plannable, JobFor, BuildModel, RunKwse
    <3>2. nd[cur].model = mm[cur].model BY <2>1, <3>1 DEF Fitting
    <3>. QED BY <2>1, <2>3, <3>1, <3>2
  <2>6. ASSUME cur \notin Terminals
        PROVE  Below[cur] # None /\ \E m \in Models : swept[Below[cur]][m] > 0
    <3>1. Below[cur] \in Reaches /\ nd[Below[cur]] # None
      BY <2>1, <2>2, <2>6, NetworkAssumption DEF Ready
    <3>. QED BY <2>3, <3>1, NetworkAssumption
  <2>. QED BY <2>1, <2>4, <2>5, <2>6
<1>. QED BY <1>1, <1>2, JobsBefore

\* What a job starts from is in storage, for every job and as long as SEPEX knows
\* of it, whatever people did between the commits its payload was built from.
THEOREM JobsFindTheirInputs == Spec => []JobsHaveInputs
<1>1. Init => Fitting /\ RecordedIsStored /\ JobsHaveInputs
  BY DEF Init, Fitting, RecordedIsStored, JobsHaveInputs
<1>. QED BY <1>1, TypedHolds, InitPlanning, StepPlanning, StepFitting, StepStored, StepInputs,
     PTL DEF Spec

-----------------------------------------------------------------------------
(* One builder per reach *)

\* All ask for as many runs: for so many.
Alike == \A i, k \in Intents : i.q = k.q
Upper == CHOOSE q \in Discharges : \A i \in Intents : i.q = q

AllUpper ==
    /\ \A r \in Reaches : want[r] # None => want[r].q = Upper
    /\ note.wanted # None => note.wanted.q = Upper
    /\ \A j \in JobIds : jobs[j] # None => jobs[j].q = Upper

\* All that was done for r was for one model, intent asks for it or for nothing,
\* and so does the intent an observation of r holds.
Uniform(r, m) ==
    /\ Only(r, m)
    /\ want[r] # None => want[r].model = m
    /\ cur = r /\ note.wanted # None => note.wanted.model = m

IdleAt(r) == \A j \in JobIds : ~WorkOf(j, r)

\* The model asked for is neither in storage nor the one a job works for.
Absent(r) ==
    /\ want[r].model \notin built[r]
    /\ \A j \in JobIds : WorkOf(j, r) => jobs[j].model # want[r].model

\* A check of r is about the model asked for, or that model is absent: what the
\* check submits then is not for a reach that is served.
ToSubmit == {"readNd", "recordNd", "readKwse", "recordKwse", "notify", "forgive", "decide", "act", "submit"}
Aimed(r) ==
    cur = r /\ want[r] # None =>
        /\ pc = "recordModel" /\ note.wanted # None => note.wanted.model = want[r].model \/ Absent(r)
        /\ pc \in ToSubmit /\ mm[r] # None => mm[r].model = want[r].model \/ Absent(r)

ServedIsIdle(r) == want[r] # None /\ Served(r) => IdleAt(r)

\* When storage holds what an observation looks for, no job has work left: unless
\* it looks for what intent asks for now, and intent moves no more ...
LooksTrue(r) ==
    cur = r /\ pc = "recordNd" /\ note.wanted # None =>
        \/ Holds(r, note.wanted.model, note.wanted.q) => IdleAt(r)
        \/ /\ Changes = 3
           /\ want[r] # None => note.wanted.model = want[r].model /\ note.wanted.q = want[r].q

\* ... and so when a check has found what it looked for.
ToDecide == {"readKwse", "recordKwse", "notify", "forgive", "decide"}
FoundTrue(r) ==
    cur = r /\ pc \in ToDecide /\ mm[r] # None /\ nd[r] # None =>
        \/ IdleAt(r)
        \/ /\ Changes = 3
           /\ want[r] # None => nd[r].model = want[r].model /\ nd[r].q >= want[r].q

\* ... and so when it acts on nothing being missing, which lets go of a job then.
GrantTrue(r) ==
    cur = r /\ pc = "act" /\ note.gap = NoGap =>
        \/ IdleAt(r)
        \/ /\ Changes = 3
           /\ want[r] # None => Served(r) /\ (mm[r] # None => mm[r].model = want[r].model)

\* What is known of the jobs of r, by how often people have changed intent.
Accounted(r) ==
    /\ Changes = 0 => want[r] = None /\ Unasked(r) /\ note.wanted = None
    /\ Changes = 1 => \E m \in Models : Uniform(r, m)
    /\ Changes = 2 => Aimed(r) /\ ServedIsIdle(r)
    /\ Changes <= 2 => AllInHand(r)
    /\ Changes = 3 => AllInHand(r) \/ LetGo(r)
    /\ Changes <= 3 => LooksTrue(r) /\ FoundTrue(r) /\ GrantTrue(r)

HeldToRecord == note.wanted # None => pc \in {"recordModel", "recordNd", "recordKwse"}

Accounting ==
    HeldToRecord /\ (Alike => AllUpper /\ (Faultless => \A r \in Reaches : Accounted(r)))

\* At first nobody has changed anything.
LEMMA InitAccounting == Init => Accounting
BY DEF Init, Accounting, HeldToRecord, Accounted, Unasked, AllInHand, WorkOf, Unfinished, Running,
       Changes, LooksTrue, FoundTrue, GrantTrue, AllUpper, Blank

\* An intent is held only by the observation that read it.
LEMMA HeldToRecordStays ==
    ASSUME Typed, HeldToRecord, [Next]_vars
    PROVE  /\ HeldToRecord'
           /\ note'.wanted # None => ReadIntent \/ UNCHANGED loop
<1>1. note'.wanted # None => ReadIntent \/ UNCHANGED loop BY HeldMoves DEF HeldToRecord
<1>2. ReadIntent => pc' \in {"recordModel", "recordNd", "recordKwse"} BY DEF ReadIntent
<1>. QED BY <1>1, <1>2 DEF HeldToRecord, loop

\* People ask for as many runs as everybody, and so do the jobs.
LEMMA AllUpperStays ==
    ASSUME Typed, HeldToRecord, Alike, AllUpper, [Next]_vars
    PROVE  AllUpper'
<1>. USE DEF Typed, TypeOK
<1>0. \A i \in Intents : i.q = Upper
  <2>. SUFFICES ASSUME NEW i \in Intents PROVE i.q = Upper OBVIOUS
  <2>1. i.q \in Discharges /\ \A k \in Intents : k.q = i.q BY ArtifactAssumption DEF Alike
  <2>2. \E q \in Discharges : \A k \in Intents : k.q = q BY <2>1
  <2>. QED BY <2>2 DEF Upper
<1>1. ASSUME NEW r \in Reaches, want'[r] # None PROVE want'[r].q = Upper
  <2>0. want[r] \in Wanted \union {None} BY DEF WantTyped
  <2>1. CASE want'[r] = want[r] BY <1>1, <2>1 DEF AllUpper
  <2>2. ASSUME NEW A \in SUBSET Reaches, NEW i \in Intents, Changing(A, i) PROVE want'[r].q = Upper
    <3>1. CASE Author(A, i)
      <4>1. want'[r] = IF r \in A THEN Authored(r, i) ELSE want[r] BY <3>1 DEF Author
      <4>2. Revised(r, i).q = Upper BY <1>0 DEF Revised
      <4>. QED BY <1>1, <4>1, <4>2 DEF Authored, AllUpper
    <3>2. CASE ChangeDefaults(A, i) BY <1>1, <2>0, <3>2 DEF ChangeDefaults, AllUpper, Wanted
    <3>3. CASE EditLookup(A, i) BY <1>1, <2>0, <3>3 DEF EditLookup, AllUpper, Wanted
    <3>. QED BY <2>2, <3>1, <3>2, <3>3 DEF Changing
  <2>3. ASSUME NEW x \in Reaches, Withdraw(x) PROVE want'[r] \in {want[r], None}
    BY <2>3 DEF Withdraw, WantTyped
  <2>. QED BY <1>1, <2>1, <2>2, <2>3, IntentMoves
<1>2. ASSUME note'.wanted # None PROVE note'.wanted.q = Upper
  <2>1. CASE ReadIntent
    <3>1. cur \in Reaches /\ note'.wanted = want[cur]
      BY <2>1 DEF ReadIntent, LoopTyped, Note, Where, CheckPhases
    <3>. QED BY <1>2, <3>1 DEF AllUpper
  <2>2. CASE UNCHANGED loop BY <1>2, <2>2 DEF loop, AllUpper
  <2>. QED BY <1>2, <2>1, <2>2, HeldToRecordStays
<1>3. ASSUME NEW j \in JobIds, jobs'[j] # None PROVE jobs'[j].q = Upper
  BY <1>3, JobsBefore, SubmittedIs DEF AllUpper
<1>. QED BY <1>1, <1>2, <1>3 DEF AllUpper

\* A check comes to those phases by recording the model row, and leaves them
\* behind when it submits.
LEMMA ToSubmitPhases ==
    ASSUME [Next]_vars, pc' \in ToSubmit
    PROVE  ~Submit /\ (RecordModel \/ (pc \in ToSubmit /\ cur' = cur))
<1>. USE DEF ToSubmit
<1>1. CASE Pass
  BY <1>1
  DEF Pass, BeginPass, Poll, PollRunning, PollUnknown, PollLost, PollSucceeded, PollFailed,
      PollCommit, PollRequest, ListDue, EndPass, Submit
<1>2. CASE Decide \/ Act
  BY <1>2 DEF Decide, Skip, LeaveAlone, Resolve, Act, Satisfied, Await, Choose, EndCheck, Submit
<1>3. CASE Submit
  BY <1>3 DEF Submit, SubmitAccepted, SubmitNothing, SubmitRaises, SubmitTimesOut, EndCheck
<1>4. CASE \/ StartCheck \/ ReadIntent \/ RecordModel \/ RecordNd \/ RecordKwse \/ Notify \/ Forgive
           \/ Mark \/ Request
  BY <1>4
  DEF StartCheck, ReadIntent, RecordModel, RecordNd, RecordKwse, Notify, Forgive, Mark, Request,
      EndCheck, Submit
<1>5. CASE Crash \/ Restart BY <1>5 DEF Crash, Restart
<1>6. Jobs => UNCHANGED loop BY DEF Jobs, Publish, Succeed, SucceedHollow, FailJob, End
<1>7. People => UNCHANGED loop
  BY DEF People, Author, ChangeDefaults, EditLookup, Withdraw, ClearHalt, RetryTime
<1>8. UNCHANGED vars => UNCHANGED loop BY DEF vars, loop
<1>. QED BY <1>1, <1>2, <1>3, <1>4, <1>5, <1>6, <1>7, <1>8 DEF Next, Loop, Check, loop

\* A reach none of whose jobs has work left comes by one only when it is given one.
LEMMA IdleStays ==
    ASSUME Typed, [Next]_vars, NEW r \in Reaches, ~(Submit /\ cur = r), IdleAt(r)
    PROVE  IdleAt(r)'
BY WorkBefore DEF IdleAt

\* A job that fills storage was the only one with work left.
LEMMA HoldsIsIdle ==
    ASSUME Typed, AllUpper, [Next]_vars, NEW r \in Reaches, ~(Submit /\ cur = r), AtMostOne(r),
           NEW m \in Models, Holds(r, m, Upper) => IdleAt(r), Holds(r, m, Upper)'
    PROVE  IdleAt(r)'
<1>1. CASE UNCHANGED <<built[r], swept[r]>> BY <1>1, IdleStays DEF Holds
<1>2. ASSUME NEW j \in JobIds, WorkOf(j, r), ~WorkOf(j, r)' PROVE IdleAt(r)'
  <2>1. \A k \in JobIds : WorkOf(k, r)' => WorkOf(k, r) BY WorkBefore
  <2>. QED BY <1>2, <2>1 DEF AtMostOne, IdleAt
<1>3. ASSUME NEW j \in JobIds, WorkOf(j, r), built'[r] = built[r],
             \A x \in Models : swept'[r][x] = swept[r][x] \/ swept'[r][x] < jobs[j].q
      PROVE  FALSE
  <2>1. jobs[j] \in JobRow /\ jobs[j].q = Upper
    BY <1>3 DEF WorkOf, Unfinished, Running, AllUpper, Typed, TypeOK, JobsTyped
  <2>2. Upper \in Nat /\ swept'[r][m] \in Nat BY <2>1, StorageKept, ArtifactAssumption DEF JobRow
  <2>3. swept'[r][m] = swept[r][m] BY <1>3, <2>1, <2>2 DEF Holds
  <2>. QED BY <1>3, <2>3 DEF Holds, IdleAt
<1>4. UNCHANGED storage => UNCHANGED <<built[r], swept[r]>> BY DEF storage
<1>. QED BY <1>1, <1>2, <1>3, <1>4, StorageSteps, PublishWorks

\* What was done for one model, and is still asked for, stays that.
LEMMA UniformStays ==
    ASSUME Typed, RecordedIsStored, HeldToRecord, [Next]_vars, NEW r \in Reaches,
           want'[r] \in {want[r], None}, NEW m \in Models, Uniform(r, m)
    PROVE  Uniform(r, m)'
<1>1. Only(r, m)' BY OnlyStays DEF Uniform
<1>2. want'[r] # None => want'[r].model = m BY DEF Uniform
<1>3. ASSUME cur' = r, note'.wanted # None PROVE note'.wanted.model = m
  <2>1. CASE ReadIntent BY <1>3, <2>1 DEF ReadIntent, Uniform, Typed, TypeOK, LoopTyped, Note
  <2>2. CASE UNCHANGED loop BY <1>3, <2>2 DEF loop, Uniform
  <2>. QED BY <1>3, <2>1, <2>2, HeldToRecordStays
<1>. QED BY <1>1, <1>2, <1>3 DEF Uniform

\* An absent model stays absent until a job is submitted or intent moves.
LEMMA AbsentStays ==
    ASSUME Typed, [Next]_vars, NEW r \in Reaches, want[r] # None, want'[r] = want[r], ~Submit, Absent(r)
    PROVE  Absent(r)'
<1>1. \A j \in JobIds : WorkOf(j, r)' => WorkOf(j, r) /\ jobs'[j] = jobs[j] BY WorkBefore
<1>2. ASSUME NEW j \in JobIds, Publish(j) PROVE want[r].model \notin built'[r]
  BY <1>2, PublishWorks DEF Absent
<1>3. UNCHANGED storage => built' = built BY DEF storage
<1>4. want[r].model \notin built'[r] BY <1>2, <1>3, StorageSteps DEF Absent
<1>. QED BY <1>1, <1>4 DEF Absent

\* A check stays about the model asked for.
LEMMA AimedStays ==
    ASSUME Typed, HeldToRecord, [Next]_vars, NEW r \in Reaches, want'[r] \in {want[r], None}, Aimed(r)
    PROVE  Aimed(r)'
<1>. USE DEF Typed, TypeOK
<1>. SUFFICES ASSUME cur' = r, want[r] # None, want'[r] = want[r]
              PROVE  /\ pc' = "recordModel" /\ note'.wanted # None
                           => note'.wanted.model = want[r].model \/ Absent(r)'
                     /\ pc' \in ToSubmit /\ mm'[r] # None => mm'[r].model = want[r].model \/ Absent(r)'
  BY DEF Aimed
<1>0. ~Submit /\ Absent(r) => Absent(r)' BY AbsentStays
<1>1. ASSUME pc' = "recordModel", note'.wanted # None
      PROVE  note'.wanted.model = want[r].model \/ Absent(r)'
  <2>1. CASE ReadIntent BY <1>1, <2>1 DEF ReadIntent, LoopTyped, Note
  <2>2. CASE UNCHANGED loop
    <3>1. pc = "recordModel" /\ cur = r /\ note' = note BY <1>1, <2>2 DEF loop
    <3>2. ~Submit BY <3>1 DEF Submit
    <3>. QED BY <1>0, <1>1, <3>1, <3>2 DEF Aimed
  <2>. QED BY <1>1, <2>1, <2>2, HeldToRecordStays
<1>2. ASSUME pc' \in ToSubmit, mm'[r] # None PROVE mm'[r].model = want[r].model \/ Absent(r)'
  <2>0. ~Submit BY <1>2, ToSubmitPhases
  <2>1. CASE RecordModel
    <3>1. cur = r BY <2>1 DEF RecordModel
    <3>2. note.wanted # None /\ mm'[r] = [model |-> note.wanted.model, rev |-> RowRevision(note.wanted)]
      BY <1>2, <2>1, <3>1 DEF RecordModel, RowsTyped
    <3>3. note.wanted.model = want[r].model \/ Absent(r) BY <2>1, <3>1, <3>2 DEF RecordModel, Aimed
    <3>. QED BY <1>0, <2>0, <3>2, <3>3
  <2>2. CASE pc \in ToSubmit /\ cur' = cur
    <3>1. ~RecordModel BY <2>2 DEF RecordModel, ToSubmit
    <3>2. RecordNd => UNCHANGED mm BY DEF RecordNd
    <3>3. mm[r] # None /\ mm'[r].model = mm[r].model BY <1>2, <3>1, <3>2, RowsMove, WithdrawnRows
    <3>. QED BY <1>0, <2>0, <2>2, <3>3 DEF Aimed
  <2>. QED BY <1>2, <2>1, <2>2, ToSubmitPhases
<1>. QED BY <1>1, <1>2

\* A reach that is served is given no job that has work to do.
LEMMA ServedStaysIdle ==
    ASSUME Typed, AllUpper, [Next]_vars, NEW r \in Reaches, want'[r] \in {want[r], None},
           AtMostOne(r), Aimed(r), ServedIsIdle(r)
    PROVE  ServedIsIdle(r)'
<1>. USE DEF Typed, TypeOK
<1>. SUFFICES ASSUME want[r] # None, want'[r] = want[r], Served(r)' PROVE IdleAt(r)'
  BY DEF ServedIsIdle
<1>0. want[r].model \in Models /\ want[r].q = Upper
  <2>1. want[r] \in Wanted BY DEF WantTyped
  <2>. QED BY <2>1, WantedIs DEF AllUpper
<1>1. CASE ~(Submit /\ cur = r)
  <2>. PICK m \in Models : m = want[r].model BY <1>0
  <2>1. Holds(r, m, Upper) => IdleAt(r) BY <1>0 DEF ServedIsIdle, Served
  <2>2. Holds(r, m, Upper)' BY <1>0 DEF Served, Holds
  <2>. QED BY <1>1, <2>1, <2>2, HoldsIsIdle
<1>2. CASE Submit /\ cur = r
  <2>. SUFFICES ASSUME NEW j \in JobIds, WorkOf(j, r)' PROVE FALSE BY DEF IdleAt
  <2>1. UNCHANGED <<mm, built, swept>> BY <1>2 DEF Submit, db, storage
  <2>2. Served(r) /\ IdleAt(r) BY <2>1 DEF Served, Holds, ServedIsIdle
  <2>3. Started(cur, note.gap.step, j) BY <2>2, WorkBefore DEF IdleAt
  <2>4. ~Done(j)' /\ jobs'[j].step # RunKwse BY DEF WorkOf, Unfinished
  <2>5. note.gap.step \in {BuildModel, RunNd} BY <1>2, <2>3, <2>4, SubmittedIs DEF Where, Steps
  <2>6. mm[r] # None => mm[r].model = want[r].model
    <3>1. ~Absent(r) BY <2>2 DEF Absent, Served, Holds
    <3>2. pc \in ToSubmit BY <1>2 DEF Submit, ToSubmit
    <3>. QED BY <1>2, <3>1, <3>2 DEF Aimed
  <2>7. jobs'[j].model = want[r].model /\ jobs'[j].q = want[r].q /\ jobs'[j].reach = r
        /\ jobs'[j].step = note.gap.step
    BY <1>2, <2>3, <2>5, <2>6, SubmittedIs
  <2>. QED BY <2>1, <2>2, <2>4, <2>5, <2>7 DEF Done, Served, Holds, BuildModel, RunNd, RunKwse
<1>. QED BY <1>1, <1>2

\* Reading intent for the normal-depth row, a check learns what is so.
LEMMA LooksStay ==
    ASSUME Typed, AllUpper, HeldToRecord, [Next]_vars, NEW r \in Reaches, Changes' = Changes,
           want'[r] \in {want[r], None}, AtMostOne(r), LooksTrue(r), Changes # 3 => ServedIsIdle(r)
    PROVE  LooksTrue(r)'
<1>. USE DEF Typed, TypeOK
<1>. SUFFICES ASSUME cur' = r, pc' = "recordNd", note'.wanted # None
              PROVE  \/ Holds(r, note.wanted.model, note.wanted.q)' => IdleAt(r)'
                     \/ /\ Changes = 3
                        /\ want'[r] # None => /\ note'.wanted.model = want'[r].model
                                              /\ note'.wanted.q = want'[r].q
  BY DEF LooksTrue
<1>1. CASE ReadIntent
  <2>1. /\ note'.wanted = want[r] /\ want' = want /\ UNCHANGED <<built, swept>> /\ ~Submit /\ cur = r
    BY <1>1 DEF ReadIntent, LoopTyped, Note, Submit, storage
  <2>2. ASSUME Changes # 3, Holds(r, note.wanted.model, note.wanted.q)' PROVE IdleAt(r)'
    <3>1. Served(r) BY <2>1, <2>2 DEF Served, Holds
    <3>2. IdleAt(r) BY <2>1, <2>2, <3>1 DEF ServedIsIdle
    <3>. QED BY <2>1, <3>2, IdleStays
  <2>. QED BY <2>1, <2>2
<1>2. CASE UNCHANGED loop
  <2>1. pc = "recordNd" /\ cur = r /\ note' = note /\ note.wanted # None BY <1>2 DEF loop
  <2>2. ~Submit BY <2>1 DEF Submit
  <2>. PICK m \in Models : m = note.wanted.model
    <3>1. note.wanted \in Wanted BY <2>1 DEF LoopTyped, Note
    <3>. QED BY <3>1, WantedIs
  <2>0. note.wanted.q = Upper BY <2>1 DEF AllUpper
  <2>3. CASE Holds(r, m, Upper) => IdleAt(r)
    <3>1. Holds(r, m, Upper)' => IdleAt(r)' BY <2>2, <2>3, HoldsIsIdle
    <3>. QED BY <2>0, <2>1, <3>1 DEF Holds
  <2>4. CASE ~(Holds(r, m, Upper) => IdleAt(r)) BY <2>0, <2>1, <2>4 DEF LooksTrue
  <2>. QED BY <2>3, <2>4
<1>. QED BY <1>1, <1>2, HeldToRecordStays, LoopMoves

\* Recording what it finds, a check keeps what it has learned.
LEMMA FoundStays ==
    ASSUME Typed, RecordedIsStored, [Next]_vars, NEW r \in Reaches, Changes' = Changes,
           want'[r] \in {want[r], None}, LooksTrue(r), FoundTrue(r)
    PROVE  FoundTrue(r)'
<1>. USE DEF Typed, TypeOK
<1>. SUFFICES ASSUME cur' = r, pc' \in ToDecide, mm'[r] # None, nd'[r] # None
              PROVE  \/ IdleAt(r)'
                     \/ /\ Changes = 3
                        /\ want'[r] # None => nd'[r].model = want'[r].model /\ nd'[r].q >= want'[r].q
  BY DEF FoundTrue
<1>0. ~Submit BY ToSubmitPhases DEF ToSubmit, ToDecide
<1>1. CASE RecordNd
  <2>1. cur = r /\ pc = "recordNd" /\ mm' = mm /\ want' = want /\ nd'[r] = NdRowOf(note.wanted)
    BY <1>1 DEF RecordNd, RowsTyped
  <2>. DEFINE w == note.wanted
  <2>2. /\ w # None /\ mm[r] # None /\ mm[r].model = w.model /\ swept[r][w.model] >= w.q
        /\ nd'[r].model = w.model /\ nd'[r].q >= w.q
    <3>1. NdRowOf(w) # None BY <2>1
    <3>2. NdFound(w) /\ NdRowOf(w).model = w.model /\ NdRowOf(w).q = swept[r][w.model]
      BY <2>1, <3>1, NdRowFields
    <3>3. nd'[r].model = w.model /\ nd'[r].q = swept[r][w.model] BY <2>1, <3>2
    <3>. HIDE DEF w
    <3>. QED BY <2>1, <3>2, <3>3 DEF NdFound, ModelAgrees
  <2>3. Holds(r, w.model, w.q) BY <2>2 DEF RecordedIsStored, Holds
  <2>4. CASE IdleAt(r) BY <1>0, <2>4, IdleStays
  <2>5. CASE ~IdleAt(r) BY <2>1, <2>2, <2>3, <2>5 DEF LooksTrue
  <2>. QED BY <2>4, <2>5
<1>2. CASE pc \in ToDecide /\ cur' = cur
  <2>1. ~RecordModel /\ ~RecordNd BY <1>2 DEF RecordModel, RecordNd, ToDecide
  <2>2. /\ mm[r] # None /\ nd[r] # None /\ nd'[r].model = nd[r].model /\ nd'[r].q = nd[r].q
    BY <2>1, RowsMove, WithdrawnRows
  <2>3. CASE IdleAt(r) BY <1>0, <2>3, IdleStays
  <2>4. CASE ~IdleAt(r)
    <3>1. Changes = 3 /\ (want[r] # None => nd[r].model = want[r].model /\ nd[r].q >= want[r].q)
      BY <1>2, <2>2, <2>4 DEF FoundTrue
    <3>2. ASSUME want'[r] # None PROVE nd'[r].model = want'[r].model /\ nd'[r].q >= want'[r].q
      <4>1. want'[r] = want[r] BY <3>2
      <4>2. nd[r].model = want[r].model /\ nd[r].q >= want[r].q BY <3>1, <3>2, <4>1
      <4>3. nd'[r].model = nd[r].model /\ nd'[r].q = nd[r].q BY <2>2
      <4>. QED BY <4>1, <4>2, <4>3
    <3>. QED BY <3>1, <3>2
  <2>. QED BY <2>3, <2>4
<1>. QED BY <1>1, <1>2, FittingPhases DEF ToDecide

\* Deciding that nothing is missing, a check has learned what is so; and it stays so
\* until the check acts on it.
LEMMA GrantStays ==
    ASSUME Typed, Fitting, RecordedIsStored, [Next]_vars, NEW r \in Reaches, Changes' = Changes,
           want'[r] \in {want[r], None}, FoundTrue(r), GrantTrue(r)
    PROVE  GrantTrue(r)'
<1>. USE DEF Typed, TypeOK
<1>. SUFFICES ASSUME cur' = r, pc' = "act", note'.gap = NoGap
              PROVE  \/ IdleAt(r)'
                     \/ /\ Changes = 3
                        /\ want'[r] # None =>
                              Served(r)' /\ (mm'[r] # None => mm'[r].model = want'[r].model)
  BY DEF GrantTrue
<1>0. ~Submit BY ToSubmitPhases DEF ToSubmit
<1>1. CASE Decide /\ Resolve
  <2>0. /\ pc = "decide" /\ cur = r /\ UNCHANGED <<want, mm, nd, built, swept>>
        /\ note'.gap = Decision
    BY <1>1 DEF Decide, Resolve, db, storage, LoopTyped, Note
  <2>1. want[r] # None /\ mm[r] # None /\ nd[r] # None
    <3>. DEFINE sn == SnapshotOf(r)
    <3>1. sn.model /\ sn.nd
      <4>1. Calculate(sn) = NoGap BY <2>0 DEF Decision
      <4>. HIDE DEF sn
      <4>. QED BY <4>1, LadderIsSound
    <3>2. sn.model = Applied(mm[r], want[r]) /\ sn.nd = Applied(nd[r], want[r]) BY DEF SnapshotOf
    <3>. HIDE DEF sn
    <3>. QED BY <3>1, <3>2 DEF Applied
  <2>2. CASE IdleAt(r) BY <1>0, <2>2, IdleStays
  <2>3. CASE ~IdleAt(r)
    <3>1. Changes = 3 /\ nd[r].model = want[r].model /\ nd[r].q >= want[r].q
      BY <2>0, <2>1, <2>3 DEF FoundTrue, ToDecide
    <3>2. mm[r].model = want[r].model BY <2>0, <2>1, <3>1 DEF Fitting
    <3>3. mm[r].model \in built[r] /\ nd[r].q \in 1..swept[r][nd[r].model]
      BY <2>1 DEF RecordedIsStored
    <3>4. want[r] \in Wanted BY <2>1 DEF WantTyped
    <3>5. want[r].q \in Nat /\ swept[r][want[r].model] \in Nat BY <3>4, WantedIs, SweptIsNat
    <3>6. Served(r) BY <3>1, <3>2, <3>3, <3>5 DEF Served, Holds
    <3>. QED BY <2>0, <3>1, <3>2, <3>6 DEF Served, Holds
  <2>. QED BY <2>2, <2>3
<1>2. CASE UNCHANGED loop
  <2>0. pc = "act" /\ cur = r /\ note.gap = NoGap BY <1>2 DEF loop
  <2>1. CASE IdleAt(r) BY <1>0, <2>1, IdleStays
  <2>2. CASE ~IdleAt(r)
    <3>. SUFFICES ASSUME want[r] # None, want'[r] = want[r]
                  PROVE  Served(r)' /\ (mm'[r] # None => mm'[r].model = want[r].model)
      BY <2>0, <2>2 DEF GrantTrue
    <3>1. Served(r) /\ (mm[r] # None => mm[r].model = want[r].model)
      BY <2>0, <2>2 DEF GrantTrue
    <3>2. want[r].model \in Models /\ want[r].q \in Nat
      <4>1. want[r] \in Wanted BY DEF WantTyped
      <4>. QED BY <4>1, WantedIs
    <3>3. Served(r)'
      <4>1. built[r] \subseteq built'[r] BY StorageKept
      <4>2. /\ swept[r][want[r].model] \in Nat /\ swept'[r][want[r].model] \in Nat
            /\ swept'[r][want[r].model] >= swept[r][want[r].model]
        BY <3>2, StorageKept
      <4>. QED BY <3>1, <3>2, <4>1, <4>2 DEF Served, Holds
    <3>4. ~RecordModel /\ ~RecordNd BY <2>0 DEF RecordModel, RecordNd
    <3>5. mm'[r] # None => mm[r] # None /\ mm'[r].model = mm[r].model BY <3>4, RowsMove, WithdrawnRows
    <3>. QED BY <3>1, <3>3, <3>5
  <2>. QED BY <2>1, <2>2
<1>. QED BY <1>1, <1>2, ActPhase

\* A check drops the marker of a job with work left only when intent moves no more
\* and the job is needed no more.
LEMMA HandStays ==
    ASSUME Typed, Marks, [Next]_vars, Faultless', NEW r \in Reaches, GrantTrue(r), AllInHand(r)
    PROVE  AllInHand(r)' \/ (Changes = 3 /\ LetGo(r)')
<1>1. CASE Act /\ note.gap = NoGap /\ cur = r /\ ~IdleAt(r)
  <2>1. /\ Changes = 3
        /\ want[r] # None => Served(r) /\ (mm[r] # None => mm[r].model = want[r].model)
    BY <1>1 DEF GrantTrue, Act
  <2>2. LetGo(r)' BY <1>1, <2>1, OneInHand, LetGoArises
  <2>. QED BY <2>1, <2>2
<1>2. CASE ~(Act /\ note.gap = NoGap /\ cur = r /\ ~IdleAt(r))
  <2>1. AllInHand(r)' BY <1>2, StaysInHand DEF IdleAt
  <2>. QED BY <2>1
<1>. QED BY <1>1, <1>2

\* People change nothing but intent, so what is known of jobs grows by one change.
LEMMA ChangeAccounts ==
    ASSUME Typed, RecordedIsStored, AllUpper, AllUpper', [Next]_vars, NEW r \in Reaches, Accounted(r),
           Changes \in Nat, Changes' = Changes + 1, Changes <= 2, UNCHANGED <<db, proc, storage, jobs, loop>>,
           NEW A \in SUBSET Reaches, NEW i \in Intents, Changing(A, i)
    PROVE  Accounted(r)'
<1>. USE DEF Typed, TypeOK
<1>0. /\ UNCHANGED <<mm, nd, proc, built, swept, staged, jobs, pc, cur, note>>
      /\ Changes \in {0, 1, 2} /\ want'[r] \in Wanted \union {None}
  <2>1. WantTyped' BY StepTyped
  <2>. QED BY <2>1 DEF db, storage, loop, WantTyped
<1>1. \A j \in JobIds : WorkOf(j, r)' = WorkOf(j, r)
  BY <1>0 DEF WorkOf, Unfinished, Running, Done
<1>2. (IdleAt(r) => IdleAt(r)') /\ AllInHand(r)'
  <2>1. AllInHand(r) BY <1>0 DEF Accounted
  <2>. QED BY <1>0, <1>1, <2>1 DEF IdleAt, AllInHand, InHand
<1>3. LooksTrue(r)' /\ FoundTrue(r)' /\ GrantTrue(r)'
  <2>1. LooksTrue(r) /\ FoundTrue(r) /\ GrantTrue(r) /\ Changes # 3 BY <1>0 DEF Accounted
  <2>2. LooksTrue(r)' BY <1>0, <1>2, <2>1 DEF LooksTrue, Holds
  <2>3. FoundTrue(r)' BY <1>0, <1>2, <2>1 DEF FoundTrue
  <2>4. GrantTrue(r)' BY <1>0, <1>2, <2>1 DEF GrantTrue
  <2>. QED BY <2>2, <2>3, <2>4
<1>4. CASE Changes = 0
  <2>1. want[r] = None /\ Unasked(r) /\ note.wanted = None BY <1>4 DEF Accounted
  <2>2. i.model \in Models BY ArtifactAssumption
  <2>3. want'[r] # None => want'[r].model = i.model
    <3>1. CASE Author(A, i)
      <4>1. want'[r] = IF r \in A THEN Authored(r, i) ELSE want[r] BY <3>1 DEF Author
      <4>. QED BY <2>1, <4>1 DEF Authored, Revised
    <3>2. CASE ChangeDefaults(A, i) BY <2>1, <3>2 DEF ChangeDefaults
    <3>3. CASE EditLookup(A, i) BY <2>1, <3>3 DEF EditLookup
    <3>. QED BY <3>1, <3>2, <3>3 DEF Changing
  <2>4. Only(r, i.model)' BY <1>0, <1>1, <2>1 DEF Unasked, Only, WorkOf, Unfinished, Running
  <2>5. Uniform(r, i.model)' BY <1>0, <2>1, <2>3, <2>4 DEF Uniform
  <2>. QED BY <1>2, <1>3, <1>4, <2>2, <2>5 DEF Accounted
<1>5. CASE Changes = 1
  <2>. PICK m \in Models : Uniform(r, m) BY <1>5 DEF Accounted
  <2>0. Only(r, m) BY DEF Uniform
  <2>1. ServedIsIdle(r)'
    <3>. SUFFICES ASSUME want'[r] # None, Served(r)', NEW j \in JobIds, WorkOf(j, r)' PROVE FALSE
      BY DEF ServedIsIdle, IdleAt
    <3>1. want'[r].model \in Models BY <1>0, WantedIs
    <3>2. ~Holds(r, want'[r].model, jobs[j].q) BY <1>1, <2>0, <3>1, OnlyHoldsNone
    <3>3. jobs[j].q = want'[r].q BY <1>1 DEF WorkOf, Unfinished, Running, AllUpper
    <3>. QED BY <1>0, <3>2, <3>3 DEF Served, Holds
  <2>2. Aimed(r)'
    <3>. SUFFICES ASSUME cur = r, want'[r] # None
                  PROVE  /\ note.wanted # None => note.wanted.model = want'[r].model \/ Absent(r)'
                         /\ mm[r] # None => mm[r].model = want'[r].model \/ Absent(r)'
      BY <1>0 DEF Aimed
    <3>1. note.wanted # None => note.wanted.model = m BY DEF Uniform
    <3>2. mm[r] # None => mm[r].model = m BY <2>0 DEF RecordedIsStored, Only
    <3>3. want'[r].model # m => Absent(r)' BY <1>0, <1>1, <2>0 DEF Absent, Only
    <3>. QED BY <3>1, <3>2, <3>3
  <2>. QED BY <1>2, <1>3, <1>5, <2>1, <2>2 DEF Accounted
<1>6. CASE Changes = 2 BY <1>2, <1>3, <1>6 DEF Accounted
<1>. QED BY <1>0, <1>4, <1>5, <1>6

\* While nobody changes intent, what is known of the jobs of a reach stays.
LEMMA AccountsStay ==
    ASSUME Typed, Marks, Fitting, RecordedIsStored, AllUpper, HeldToRecord, [Next]_vars, Faultless',
           \A x \in Reaches : Accounted(x), Changes \in 0..3, Changes' = Changes,
           \A x \in Reaches : want'[x] \in {want[x], None}, NEW r \in Reaches
    PROVE  Accounted(r)'
<1>. USE DEF Typed, TypeOK
<1>0. Accounted(r) /\ LooksTrue(r) /\ FoundTrue(r) /\ GrantTrue(r) BY DEF Accounted
<1>1. AtMostOne(r) BY <1>0, OneInHand DEF Accounted, LetGo
<1>2. CASE Changes = 0
  <2>1. \A x \in Reaches : want[x] = None BY <1>2 DEF Accounted
  <2>2. want'[r] = None BY <2>1
  <2>3. Unasked(r)' BY <1>0, <1>2, <2>1, UnaskedStays DEF Accounted
  <2>4. note'.wanted = None
    <3>1. CASE ReadIntent
      <4>1. cur \in Reaches BY <3>1 DEF ReadIntent, Where, CheckPhases
      <4>. QED BY <2>1, <3>1, <4>1 DEF ReadIntent, LoopTyped, Note
    <3>2. CASE UNCHANGED loop BY <1>0, <1>2, <3>2 DEF loop, Accounted
    <3>. QED BY <3>1, <3>2, HeldToRecordStays
  <2>. QED BY <1>2, <2>2, <2>3, <2>4 DEF Accounted, Unasked, AllInHand, WorkOf, Unfinished, Running,
                                        LooksTrue, FoundTrue, GrantTrue, IdleAt
<1>3. CASE Changes # 0
  <2>1. Changes = 1 => (\E m \in Models : Uniform(r, m))'
    <3>. SUFFICES ASSUME Changes = 1 PROVE \E m \in Models : Uniform(r, m)'
      OBVIOUS
    <3>. PICK m \in Models : Uniform(r, m) BY <1>0 DEF Accounted
    <3>1. Uniform(r, m)' BY UniformStays
    <3>. QED BY <3>1
  <2>2. Changes # 3 => ServedIsIdle(r)
    <3>1. CASE Changes = 1
      <4>. PICK m \in Models : Uniform(r, m) BY <1>0, <3>1 DEF Accounted
      <4>. SUFFICES ASSUME want[r] # None, Served(r), NEW j \in JobIds, WorkOf(j, r) PROVE FALSE
        BY DEF ServedIsIdle, IdleAt
      <4>1. want[r].model \in Models BY WantedIs DEF WantTyped
      <4>2. jobs[j].q = want[r].q BY DEF WorkOf, Unfinished, Running, AllUpper
      <4>3. ~Holds(r, want[r].model, jobs[j].q) BY <4>1, OnlyHoldsNone DEF Uniform
      <4>. QED BY <4>2, <4>3 DEF Served
    <3>2. CASE Changes = 2 BY <1>0, <3>2 DEF Accounted
    <3>. QED BY <1>3, <3>1, <3>2
  <2>3. LooksTrue(r)' BY <1>0, <1>1, <2>2, LooksStay
  <2>4. FoundTrue(r)' BY <1>0, FoundStays
  <2>5. Changes = 2 => Aimed(r)' /\ ServedIsIdle(r)'
    BY <1>0, <1>1, AimedStays, ServedStaysIdle DEF Accounted
  <2>6. AllInHand(r) => AllInHand(r)' \/ (Changes = 3 /\ LetGo(r)') BY <1>0, HandStays
  <2>7. LetGo(r) => LetGo(r)' BY LetGoStays
  <2>8. GrantTrue(r)' BY <1>0, GrantStays
  <2>. QED BY <1>0, <1>3, <2>1, <2>3, <2>4, <2>5, <2>6, <2>7, <2>8 DEF Accounted
<1>. QED BY <1>2, <1>3

\* Every step keeps the account.
LEMMA StepAccounting ==
    Typed /\ Marks /\ Fitting /\ RecordedIsStored /\ Accounting /\ [Next]_vars => Accounting'
<1>. SUFFICES ASSUME Typed, Marks, Fitting, RecordedIsStored, Accounting, [Next]_vars
              PROVE  Accounting'
  OBVIOUS
<1>1. HeldToRecord' BY HeldToRecordStays DEF Accounting
<1>0. Alike => AllUpper' BY AllUpperStays DEF Accounting
<1>. SUFFICES ASSUME Alike, Faultless', NEW r \in Reaches PROVE Accounted(r)'
  BY <1>0, <1>1 DEF Accounting
<1>2. Faultless /\ \A x \in Reaches : Accounted(x) BY FaultlessBefore DEF Accounting
<1>3. Changes \in Nat /\ Changes' \in Nat
  <2>1. SpentTyped /\ SpentTyped' BY StepTyped DEF Typed, TypeOK
  <2>. QED BY <2>1, SettingAssumption DEF SpentTyped, Changes
<1>4. CASE Changes' > 3 BY <1>3, <1>4 DEF Accounted
<1>5. CASE /\ Changes' = Changes + 1 /\ UNCHANGED <<db, proc, storage, jobs, loop>>
           /\ \E A \in SUBSET Reaches, i \in Intents : Changing(A, i)
           /\ ~(Changes' > 3)
  <2>1. Changes <= 2 BY <1>3, <1>5
  <2>. QED BY <1>0, <1>2, <1>3, <1>5, <2>1, ChangeAccounts DEF Accounting
<1>6. CASE Changes' = Changes /\ (UNCHANGED want \/ \E x \in Reaches : Withdraw(x)) /\ ~(Changes' > 3)
  <2>1. \A x \in Reaches : want'[x] \in {want[x], None}
    BY <1>6 DEF Withdraw, Typed, TypeOK, WantTyped
  <2>2. Changes \in 0..3 BY <1>3, <1>6
  <2>. QED BY <1>2, <1>6, <2>1, <2>2, AccountsStay DEF Accounting
<1>. QED BY <1>4, <1>5, <1>6, IntentMoves

\* While nothing fails or dies, and all ask for as many runs, no reach is built or
\* swept by two jobs with work left before people have changed intent a fourth time,
\* however often they have deleted it: until the third change a check drops no marker
\* of such a job, and after it the one job that is let go of is needed no more.
THEOREM OneBuilderAlways == Spec => []OneBuilderDespiteDeletion
<1>1. Typed /\ Marks /\ Accounting => OneBuilderDespiteDeletion
  <2>. SUFFICES ASSUME Typed, Marks, Accounting, Alike, Faultless, Changes <= 3, NEW r \in Reaches
                PROVE  AtMostOne(r)
    BY DEF OneBuilderDespiteDeletion, Alike, Faultless, Changes, AtMostOne, WorkOf
  <2>1. Changes \in Nat
    <3>1. SpentTyped BY DEF Typed, TypeOK
    <3>. QED BY <3>1, SettingAssumption DEF SpentTyped, Changes
  <2>2. Changes <= 2 \/ Changes = 3 BY <2>1
  <2>3. AllInHand(r) \/ LetGo(r) BY <2>2 DEF Accounting, Accounted
  <2>. QED BY <2>3, OneInHand DEF LetGo
<1>2. Init => RecordedIsStored /\ Fitting BY DEF Init, RecordedIsStored, Fitting
<1>. QED
  BY <1>1, <1>2, TypedHolds, InitMarks, StepMarks, InitPlanning, StepPlanning, StepFitting, StepStored,
     InitAccounting, StepAccounting, PTL DEF Spec

-----------------------------------------------------------------------------
(* Somebody can move *)

\* The river drains: no set of reaches drains only into itself.
Drains == \A S \in SUBSET Reaches : S # {} => \E x \in S : Below[x] \notin S

\* A path starts at its reach and goes on to the reach below.
LEMMA PathGoesDown ==
    ASSUME NEW r \in Reaches
    PROVE  /\ r \in Path(r)
           /\ \A x \in Path(r) : Below[x] # None => Below[x] \in Path(r)
<1>1. r \in Path(r) BY DEF Path
<1>2. ASSUME NEW x \in Path(r), Below[x] # None PROVE Below[x] \in Path(r)
  <2>1. Below[x] \in Reaches BY <1>2, NetworkAssumption DEF Path
  <2>2. ASSUME NEW S \in SUBSET Reaches, r \in S, \A y \in S : Below[y] \in S \union {None}
        PROVE  Below[x] \in S
    <3>1. x \in S BY <2>2 DEF Path
    <3>. QED BY <1>2, <2>2, <3>1
  <2>. QED BY <2>1, <2>2 DEF Path
<1>. QED BY <1>1, <1>2

\* The ladder offers a step to an unproved reach without a job whose reach below
\* is proved, unless a stage increment is missing.
LEMMA LadderMoves ==
    ASSUME NEW x \in Reaches, ~Proved(x), proc[x].step = NoStep,
           x \in Terminals \/ (Below[x] \in Reaches /\ Proved(Below[x]) /\ want[x].dz)
    PROVE  Calculate(SnapshotOf(x)).kind = "RunStep"
<1>. DEFINE s == SnapshotOf(x)
<1>1. /\ s.terminal = (x \in Terminals) /\ ~Busy(s) /\ s.increment = want[x].dz
      /\ s.model = Applied(mm[x], want[x]) /\ s.nd = Applied(nd[x], want[x])
      /\ s.kwse = Applied(kw[x], want[x])
  BY DEF SnapshotOf, Busy
<1>2. x \in Terminals \/ (s.dsModel /\ s.dsNd /\ (s.dsTerminal \/ s.dsKwse))
  BY NetworkAssumption DEF SnapshotOf, DsApplied, Proved
<1>. HIDE DEF s
<1>3. ~s.model => ModelRung(s).kind = "RunStep" BY <1>1, <1>2 DEF ModelRung, RunStep
<1>4. ~s.nd => NdRung(s).kind = "RunStep" BY <1>1, <1>2 DEF NdRung, RunStep
<1>5. ~s.terminal => KwseRung(s).kind = "RunStep" BY <1>1, <1>2 DEF KwseRung, RunStep
<1>6. ~(s.model /\ s.nd /\ (s.terminal \/ s.kwse)) BY <1>1 DEF Proved
<1>7. Calculate(s).kind = "RunStep"
  <2>1. CASE ~s.model BY <1>3, <2>1 DEF Calculate
  <2>2. CASE s.model /\ ~s.nd BY <1>4, <2>2 DEF Calculate
  <2>3. CASE s.model /\ s.nd /\ ~s.terminal /\ ~s.kwse BY <1>5, <2>3 DEF Calculate
  <2>. QED BY <1>6, <2>1, <2>2, <2>3
<1>. QED BY <1>7 DEF s

\* In a network that drains, reaches never all wait for one another: the lowest
\* unproved reach on the way down has a job on record, or a step to run.
THEOREM SomebodyAlwaysCan == ASSUME Drains PROVE Spec => []SomebodyCanMove
<1>1. Typed /\ Marks => SomebodyCanMove
  <2>. SUFFICES ASSUME Typed, Marks, NEW r \in Reaches, want[r] # None, ~Complete(r), ~NeedsPerson(r)
                PROVE  \E x \in Path(r) :
                         \/ proc[x].ref # None /\ jobs[proc[x].ref] # None
                         \/ /\ Calculate(SnapshotOf(x)).kind = "RunStep"
                            /\ Due(x) \/ proc[x].resting
    BY DEF SomebodyCanMove
  <2>. DEFINE S == {x \in Path(r) : ~Proved(x)}
  <2>1. \A x \in Path(r) : /\ x \in Reaches /\ want[x] # None /\ ~proc[x].halted
                           /\ x \in Terminals \/ (Below[x] # None /\ want[x].dz)
    BY DEF NeedsPerson, Path
  <2>2. r \in S BY <2>1, PathGoesDown DEF Complete
  <2>3. PICK x \in S : Below[x] \notin S BY <2>1, <2>2 DEF Drains
  <2>4. x \in Terminals \/ (Below[x] \in Reaches /\ Proved(Below[x]) /\ want[x].dz)
    BY <2>1, <2>3, PathGoesDown
  <2>5. CASE proc[x].step = NoStep
    <3>1. Calculate(SnapshotOf(x)).kind = "RunStep" BY <2>1, <2>3, <2>4, <2>5, LadderMoves
    <3>2. Due(x) \/ proc[x].resting BY <2>1, <2>3 DEF Due
    <3>. QED BY <2>3, <3>1, <3>2
  <2>6. CASE proc[x].step # NoStep
    <3>1. proc[x].ref # None /\ jobs[proc[x].ref] # None BY <2>1, <2>3, <2>6 DEF Marks, Named, Names
    <3>. QED BY <2>3, <3>1
  <2>. QED BY <2>5, <2>6
<1>. QED BY <1>1, TypedHolds, InitMarks, StepMarks, PTL DEF Spec
=============================================================================
