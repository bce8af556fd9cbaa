------------------------------- MODULE Ledger -------------------------------
(***************************************************************************)
(* What the materialized_* tables promise to whoever reads them (the next   *)
(* check, the reach above, the export, the status view), with the loop left *)
(* out: a row is written by an observation, which reads the intent in force *)
(* first, looks at storage later, and records the revision it read first.   *)
(* No processing state, no job, no order of reaches, no planner.            *)
(*                                                                          *)
(* Reconciler implements this module: its `KeepsLedger` is Spec below with  *)
(* `eye` read off the loop's position.                                      *)
(***************************************************************************)
EXTENDS Integers

CONSTANTS Reaches, Models, Discharges, Stages, None

VARIABLES
    want,                  \* the effective intent of each reach, or None
    mm, nd, kw,            \* materialized_models, _nd_runs, _kwse_runs
    built, swept, staged,  \* what storage holds, per reach and model
    eye                    \* the observation under way: its reach, the row it
                           \* will write ("none" if there is no observation)
                           \* and the intent it has read

tables  == <<mm, nd, kw>>
storage == <<built, swept, staged>>
vars    == <<want, mm, nd, kw, built, swept, staged, eye>>

Resting == [reach |-> None, row |-> "none", intent |-> None]

Init ==
    /\ want = [r \in Reaches |-> None]
    /\ mm = [r \in Reaches |-> None]
    /\ nd = [r \in Reaches |-> None]
    /\ kw = [r \in Reaches |-> None]
    /\ built = [r \in Reaches |-> {}]
    /\ swept = [r \in Reaches |-> [m \in Models |-> 0]]
    /\ staged = [r \in Reaches |-> [m \in Models |-> {}]]
    /\ eye = Resting

-----------------------------------------------------------------------------
(* Observations *)

Look(r, row) ==
    /\ eye = Resting
    /\ eye' = [reach |-> r, row |-> row, intent |-> want[r]]
    /\ UNCHANGED <<want, tables, storage>>

\* The process dies and the observation with it.
Abandon ==
    /\ eye' = Resting
    /\ UNCHANGED <<want, tables, storage>>

Observing(row) == eye.row = row

\* The model on record is the one the intent that was read implies.
OnRecord ==
    /\ eye.intent # None
    /\ mm[eye.reach] # None /\ mm[eye.reach].model = eye.intent.model

RecordModel ==
    /\ Observing("model")
    /\ LET r == eye.reach  w == eye.intent
       IN  mm' = [mm EXCEPT ![r] = IF w # None /\ w.model \in built[r]
                                   THEN [model |-> w.model, rev |-> w.rev] ELSE None]
    /\ eye' = Resting
    /\ UNCHANGED <<want, nd, kw, storage>>

\* The whole library in storage is on record, with some of it kept.
RecordNd ==
    /\ Observing("nd")
    /\ LET r == eye.reach  w == eye.intent
           spans == OnRecord /\ swept[r][w.model] >= w.q
       IN  \/ ~spans /\ nd' = [nd EXCEPT ![r] = None]
           \/ /\ spans
              /\ \E S \in SUBSET {d \in Discharges : d <= swept[r][w.model]} :
                    nd' = [nd EXCEPT ![r] =
                             [model |-> w.model, q |-> swept[r][w.model], qs |-> S, rev |-> w.rev]]
    /\ eye' = Resting
    /\ UNCHANGED <<want, mm, kw, storage>>

\* Which stages a stage library must have is the planner's business; that they
\* are in storage under the model on record is the promise.
RecordKwse ==
    /\ Observing("kwse")
    /\ LET r == eye.reach  w == eye.intent
       IN  \/ kw' = [kw EXCEPT ![r] = None]
           \/ /\ OnRecord
              /\ \E S \in SUBSET staged[r][w.model] :
                    kw' = [kw EXCEPT ![r] = [model |-> w.model, stages |-> S, rev |-> w.rev]]
    /\ eye' = Resting
    /\ UNCHANGED <<want, mm, nd, storage>>

-----------------------------------------------------------------------------
(* The world *)

\* Storage only grows, whatever happens to jobs.
Store(r, m) ==
    /\ \/ built' = [built EXCEPT ![r] = @ \union {m}] /\ UNCHANGED <<swept, staged>>
       \/ /\ \E q \in Discharges :
                q > swept[r][m] /\ swept' = [swept EXCEPT ![r][m] = q]
          /\ UNCHANGED <<built, staged>>
       \/ /\ \E s \in Stages : staged' = [staged EXCEPT ![r][m] = @ \union {s}]
          /\ UNCHANGED <<built, swept>>
    /\ UNCHANGED <<want, tables, eye>>

\* How an intent may move: authored first, revised, or changed under its
\* revision by a lookup edited in place.
Follows(w, v) ==
    \/ v = w
    \/ /\ v # None
       /\ \/ w = None /\ v.rev = 0
          \/ w # None /\ v.rev = w.rev + 1
          \/ w # None /\ v = [w EXCEPT !.model = v.model]

Intend ==
    /\ \A r \in Reaches : Follows(want[r], want'[r])
    /\ UNCHANGED <<tables, storage, eye>>

Forgotten(rows, r) == IF rows[r] = None THEN rows ELSE [rows EXCEPT ![r].rev = -1]

\* An intent is deleted and what was applied is forgotten with it.
Withdraw(r) ==
    /\ want' = [want EXCEPT ![r] = None]
    /\ mm' = Forgotten(mm, r) /\ nd' = Forgotten(nd, r) /\ kw' = Forgotten(kw, r)
    /\ UNCHANGED <<storage, eye>>

Observe == Abandon \/ RecordModel \/ RecordNd \/ RecordKwse

Next ==
    \/ \E r \in Reaches, row \in {"model", "nd", "kwse"} : Look(r, row)
    \/ Observe
    \/ \E r \in Reaches, m \in Models : Store(r, m)
    \/ Intend
    \/ \E r \in Reaches : Withdraw(r)

Spec == Init /\ [][Next]_vars
=============================================================================
