------------------------- MODULE PipelineStoreProofs -------------------------
(***************************************************************************)
(* What PipelineStore promises for any set of runs, any profiles and any   *)
(* last version: proofs.                                                   *)
(***************************************************************************)
EXTENDS PipelineStore, TLAPS

-----------------------------------------------------------------------------
(* The tables.                                                               *)

\* Every stage's states are states, whatever the stage.
LEMMA TableTyped ==
  \A i \in 0..7 : ActiveState(i) \in RunStates /\ Checkpoint(i) \in RunStates
BY DEF RunStates, ActiveStates, Checkpoints

\* stage_for_run answers with a stage for every state.
LEMMA StageOfTyped == \A s : StageOf(s) \in 0..7
BY DEF StageOf

\* Stages and their predecessors are indices of the tables.
LEMMA StagesInRange == \A i \in Stages : i \in 0..7 /\ i - 1 \in 0..7
BY DEF Stages

LEMMA FailureTyped == \A i \in 0..7, b \in BOOLEAN : Failure(i, b) \in Failures
BY DEF Failure, Failures

-----------------------------------------------------------------------------
(* The operators every transaction is built from.                            *)

\* A move within the version bound makes a well-formed row of a well-formed row.
LEMMA MovedTyped ==
  ASSUME NEW row \in Rows, NEW to \in RunStates, row.version < MaxVersion
  PROVE  Moved(row, to) \in Rows
<1>1. row.version \in 0..MaxVersion
  BY DEF Rows
<1>2. row.version + 1 \in 0..MaxVersion
  BY <1>1, MaxVersionAssumption
<1> QED
  BY <1>2 DEF Moved, Rows

\* The events of a new run are well formed, one per state it has been through.
LEMMA EventsThroughTyped ==
  ASSUME NEW states \in Seq(RunStates)
  PROVE  /\ EventsThrough(states) \in Seq(Events)
         /\ Len(EventsThrough(states)) = Len(states)
<1> DEFINE n == Len(states)
<1>1. n \in Nat
  OBVIOUS
<1>2. \A k \in 1..n : EventsThrough(states)[k] \in Events
  BY DEF EventsThrough, Events, RunStates
<1>3. EventsThrough(states) \in [1..n -> Events]
  BY <1>2 DEF EventsThrough
<1> QED
  BY <1>1, <1>3

\* Persisting a well-formed row keeps rows and logs well formed.
LEMMA PersistTyped ==
  ASSUME TypeOK, NEW r \in Runs, NEW row \in Rows, Persist(r, row)
  PROVE  run' \in [Runs -> Rows] /\ log' \in [Runs -> Seq(Events)]
<1>1. [from |-> run[r].state, to |-> row.state] \in Events
  BY DEF TypeOK, Rows, Events
<1>2. Append(log[r], [from |-> run[r].state, to |-> row.state]) \in Seq(Events)
  BY <1>1 DEF TypeOK
<1> QED
  BY <1>2 DEF TypeOK, Persist

\* The row of a new run is well formed.
LEMMA NewRowTyped ==
  ASSUME NEW states \in Seq(RunStates), Len(states) \in 1..MaxVersion,
         NEW document \in Runs \cup {NoRun}, NEW source \in Sources
  PROVE  NewRow(states, document, source) \in Rows
<1>1. states[Len(states)] \in RunStates
  OBVIOUS
<1>2. Len(states) \in 0..MaxVersion /\ {} \in Failures
  BY MaxVersionAssumption DEF Failures
<1> QED
  BY <1>1, <1>2 DEF NewRow, Rows

\* The three histories a run can be born with.
LEMMA BirthsTyped ==
  /\ Ingestion \in Seq(RunStates) /\ Len(Ingestion) = 3
  /\ Append(Ingestion, "Parsing") \in Seq(RunStates)
  /\ Len(Append(Ingestion, "Parsing")) = 4
  /\ Ingestion \o <<"Parsing", "Parsed">> \in Seq(RunStates)
  /\ Len(Ingestion \o <<"Parsing", "Parsed">>) = 5
<1>1. {"Received", "Ingesting", "Ingested", "Parsing", "Parsed"} \subseteq RunStates
  <2>1. ActiveState(0) = "Ingesting" /\ ActiveState(1) = "Parsing"
    BY DEF ActiveState
  <2>2. Checkpoint(0) = "Ingested" /\ Checkpoint(1) = "Parsed"
    BY DEF Checkpoint
  <2> QED
    BY <2>1, <2>2, TableTyped DEF RunStates
<1> QED
  BY <1>1 DEF Ingestion

-----------------------------------------------------------------------------
(* TypeOK is inductive: one step per transaction.                            *)

\* Every row and event the store ever writes is well formed, and no version exceeds its
\* bound, for any number of runs and any bound (transition_in_tx's checked_add).
LEMMA TypeOKInit == Init => TypeOK
<1> SUFFICES ASSUME Init PROVE TypeOK
  OBVIOUS
<1>1. NoRow \in Rows
  BY MaxVersionAssumption DEF NoRow, Rows, RunStates, Failures, Sources
<1>2. NoHandoff \in [phase : Phases, child : Runs \cup {NoRun}]
  BY DEF NoHandoff, Phases
<1> QED
  BY <1>1, <1>2 DEF Init, TypeOK

LEMMA AdmissionTyped ==
  ASSUME TypeOK, NEW r \in Runs, Admission(r)
  PROVE  TypeOK'
<1>1. CASE \E s \in {"native", "scanned"}, p \in Profiles \cup {NoProfile} : Ingest(r, s, p)
  <2> PICK s \in {"native", "scanned"}, p \in Profiles \cup {NoProfile} : Ingest(r, s, p)
    BY <1>1
  <2>1. NewRow(Ingestion, r, s) \in Rows
    BY NewRowTyped, BirthsTyped, MaxVersionAssumption DEF Sources
  <2>2. EventsThrough(Ingestion) \in Seq(Events)
    BY EventsThroughTyped, BirthsTyped
  <2> QED
    BY <2>1, <2>2 DEF Ingest, TypeOK
<1>2. CASE \E src \in Runs : CreateRetry(src, run[src].version, r)
  <2> PICK src \in Runs : CreateRetry(src, run[src].version, r)
    BY <1>2
  <2> DEFINE states == Append(Ingestion, "Parsing")
  <2>1. run[src].document \in Runs \cup {NoRun} /\ run[src].source \in Sources
    BY DEF TypeOK, Rows
  <2>2. states \in Seq(RunStates) /\ Len(states) \in 1..MaxVersion
    BY BirthsTyped, MaxVersionAssumption
  <2> HIDE DEF states
  <2>3. NewRow(states, run[src].document, run[src].source) \in Rows
    BY <2>1, <2>2, NewRowTyped
  <2>4. EventsThrough(states) \in Seq(Events)
    BY <2>2, EventsThroughTyped
  <2> QED
    BY <2>3, <2>4 DEF CreateRetry, TypeOK, states
<1>3. CASE \E src \in Runs : SaveCorrection(src, run[src].version, r)
  <2> PICK src \in Runs : SaveCorrection(src, run[src].version, r)
    BY <1>3
  <2> DEFINE states == Ingestion \o <<"Parsing", "Parsed">>
  <2>1. states \in Seq(RunStates) /\ Len(states) \in 1..MaxVersion
    BY BirthsTyped, MaxVersionAssumption
  <2> HIDE DEF states
  <2>2. NewRow(states, r, "ocr") \in Rows
    BY <2>1, NewRowTyped DEF Sources
  <2>3. EventsThrough(states) \in Seq(Events)
    BY <2>1, EventsThroughTyped
  <2>4. {1} \subseteq 1..Summary
    BY DEF Summary
  <2> QED
    BY <2>2, <2>3, <2>4 DEF SaveCorrection, TypeOK, states
<1>4. CASE \E p \in Profiles : PinProfile(r, p)
  BY <1>4 DEF PinProfile, TypeOK
<1> QED
  BY <1>1, <1>2, <1>3, <1>4 DEF Admission

\* Every transition of one row, with whatever else of the row it writes, ends in a
\* well-formed row: the shape all of Stage, Interruption and RewindChild share.
LEMMA TransitionTyped ==
  ASSUME TypeOK, NEW r \in Runs, NEW from, NEW v, NEW to \in RunStates, CanMove(r, from, v, to)
  PROVE  Moved(run[r], to) \in Rows
BY MovedTyped DEF CanMove, TypeOK

LEMMA FailureRowTyped ==
  ASSUME NEW row \in Rows, NEW i \in 0..7, NEW b \in BOOLEAN
  PROVE  [row EXCEPT !.failure = Failure(i, b)] \in Rows
BY FailureTyped DEF Rows

LEMMA StageTyped ==
  ASSUME TypeOK, NEW r \in Runs, Stage(r)
  PROVE  TypeOK'
<1> DEFINE v == run[r].version
<1>0. {"Failed", "Verified"} \cup Successful \subseteq RunStates
  BY DEF RunStates, Terminal, Checkpoints, Checkpoint
<1>1. CASE \E i \in Stages : StartStage(r, i, v)
  <2> PICK i \in Stages : StartStage(r, i, v)
    BY <1>1
  <2>1. Moved(run[r], ActiveState(i)) \in Rows
    BY TransitionTyped, TableTyped, StagesInRange DEF StartStage
  <2> QED
    BY <2>1, PersistTyped DEF StartStage, TypeOK
<1>2. CASE \E i \in Stages : CompleteStage(r, i, v)
  <2> PICK i \in Stages : CompleteStage(r, i, v)
    BY <1>2
  <2>1. Moved(run[r], Checkpoint(i)) \in Rows
    BY TransitionTyped, TableTyped, StagesInRange DEF CompleteStage
  <2>2. i \in 1..Summary
    BY DEF Stages, Summary
  <2>3. artifacts' \in [Runs -> SUBSET (1..Summary)]
    BY <2>2 DEF CompleteStage, TypeOK
  <2>4. attempt' \in [Runs -> BOOLEAN]
    BY DEF CompleteStage, TypeOK
  <2> QED
    BY <2>1, <2>3, <2>4, PersistTyped DEF CompleteStage, TypeOK
<1>3. CASE \E i \in Stages, b \in BOOLEAN : FailStage(r, i, v, b)
  <2> PICK i \in Stages, b \in BOOLEAN : FailStage(r, i, v, b)
    BY <1>3
  <2>1. Moved(run[r], "Failed") \in Rows
    BY <1>0, TransitionTyped DEF FailStage
  <2>2. [Moved(run[r], "Failed") EXCEPT !.failure = Failure(i, b)] \in Rows
    BY <2>1, FailureRowTyped, StagesInRange
  <2> QED
    BY <2>2, PersistTyped DEF FailStage, TypeOK
<1>4. CASE RecordVerificationAttempt(r, v)
  BY <1>4 DEF RecordVerificationAttempt, TypeOK
<1>5. CASE \E s \in Successful : CompleteSummary(r, v, s)
  <2> PICK s \in Successful : CompleteSummary(r, v, s)
    BY <1>5
  <2>1. Moved(run[r], s) \in Rows
    BY <1>0, TransitionTyped DEF CompleteSummary
  <2>2. Summary \in 1..Summary
    BY DEF Summary
  <2>3. artifacts' \in [Runs -> SUBSET (1..Summary)]
    BY <2>2 DEF CompleteSummary, TypeOK
  <2> QED
    BY <2>1, <2>3, PersistTyped DEF CompleteSummary, TypeOK
<1>6. CASE \E b \in BOOLEAN : FailSummary(r, v, b)
  <2> PICK b \in BOOLEAN : FailSummary(r, v, b)
    BY <1>6
  <2>1. Moved(run[r], "Failed") \in Rows
    BY <1>0, TransitionTyped DEF FailSummary
  <2>2. [Moved(run[r], "Failed") EXCEPT !.failure = Failure(7, b)] \in Rows
    BY <2>1, FailureRowTyped
  <2> QED
    BY <2>2, PersistTyped DEF FailSummary, TypeOK
<1> QED
  BY <1>1, <1>2, <1>3, <1>4, <1>5, <1>6 DEF Stage

\* complete_cancellation is also how fail_background_execution ends when it comes late.
LEMMA CompleteCancellationTyped ==
  ASSUME TypeOK, NEW r \in Runs, NEW v, CompleteCancellation(r, v)
  PROVE  TypeOK'
<1>1. "Cancelled" \in RunStates
  BY DEF RunStates, Terminal
<1>2. Moved(run[r], "Cancelled") \in Rows
  BY <1>1, TransitionTyped DEF CompleteCancellation
<1> QED
  BY <1>2, PersistTyped DEF CompleteCancellation, TypeOK

LEMMA InterruptionTyped ==
  ASSUME TypeOK, NEW r \in Runs, Interruption(r)
  PROVE  TypeOK'
<1> DEFINE v == run[r].version
<1>0. {"Failed", "Cancelling"} \subseteq RunStates
  BY DEF RunStates, Terminal
<1>1. CASE RequestCancellation(r, v)
  <2>1. Moved(run[r], "Cancelling") \in Rows
    BY <1>0, <1>1, TransitionTyped DEF RequestCancellation
  <2>2. [Moved(run[r], "Cancelling") EXCEPT !.cancel = TRUE] \in Rows
    BY <2>1 DEF Rows
  <2> QED
    BY <1>1, <2>2, PersistTyped DEF RequestCancellation, TypeOK
<1>2. CASE CompleteCancellation(r, v)
  BY <1>2, CompleteCancellationTyped
<1>3. CASE FailBackground(r, run[r].state, v)
  <2>1. CASE CompleteCancellation(r, v)
    BY <2>1, CompleteCancellationTyped
  <2>2. CASE ~CompleteCancellation(r, v)
    <3>1. CanMove(r, run[r].state, v, "Failed")
      BY <1>3, <2>2 DEF FailBackground
    <3>2. Moved(run[r], "Failed") \in Rows
      BY <1>0, <3>1, TransitionTyped
    <3>3. [Moved(run[r], "Failed") EXCEPT !.failure = Failure(StageOf(run[r].state), TRUE)]
            \in Rows
      BY <3>2, FailureRowTyped, StageOfTyped
    <3> QED
      BY <1>3, <2>2, <3>3, PersistTyped DEF FailBackground, TypeOK
  <2> QED
    BY <2>1, <2>2
<1> QED
  BY <1>1, <1>2, <1>3 DEF Interruption

LEMMA HandoffStepTyped ==
  ASSUME TypeOK, NEW root \in Runs, HandoffStep(root)
  PROVE  TypeOK'
<1>1. CASE \E child \in Runs \ {root} : PrepareHandoff(root, child)
  BY <1>1 DEF PrepareHandoff, TypeOK, Phases, OpenPhases
<1>2. CASE \E edge \in HandoffEdges : MoveHandoff(root, edge[1], edge[2])
  <2> PICK edge \in HandoffEdges : MoveHandoff(root, edge[1], edge[2])
    BY <1>2
  <2>1. edge[2] \in Phases
    BY DEF HandoffEdges, Phases, OpenPhases
  <2> QED
    BY <2>1 DEF MoveHandoff, TypeOK
<1>3. CASE AdmitChild(root)
  <2> DEFINE child == handoff[root].child
             closed == [Moved(run[root], "Failed") EXCEPT !.failure = Failure(1, FALSE)]
  <2>1. "Failed" \in RunStates
    BY DEF RunStates, Terminal
  <2>2. Moved(run[root], "Failed") \in Rows
    BY <1>3, <2>1, TransitionTyped DEF AdmitChild
  <2>3. closed \in Rows
    <3>1. 1 \in 0..7 /\ FALSE \in BOOLEAN
      OBVIOUS
    <3> QED
      BY <2>2, <3>1, FailureRowTyped
  <2>4. child \in Runs \cup {NoRun}
    BY DEF TypeOK
  <2>5. NewRow(Ingestion, child, "ocr") \in Rows
    BY <2>4, NewRowTyped, BirthsTyped, MaxVersionAssumption DEF Sources
  <2>6. run' \in [Runs -> Rows]
    BY <1>3, <2>3, <2>5 DEF AdmitChild, TypeOK
  <2>7. EventsThrough(Ingestion) \in Seq(Events)
    BY EventsThroughTyped, BirthsTyped
  <2>8. [from |-> "Parsed", to |-> "Failed"] \in Events
    BY <2>1, BirthsTyped DEF AdmitChild, CanMove, TypeOK, Rows, Events, RunStates,
       Checkpoints, Checkpoint
  <2>9. Append(log[root], [from |-> "Parsed", to |-> "Failed"]) \in Seq(Events)
    BY <2>8 DEF TypeOK
  <2>10. log' \in [Runs -> Seq(Events)]
    BY <1>3, <2>7, <2>9 DEF AdmitChild, TypeOK
  <2>11. profile' \in [Runs -> Profiles \cup {NoProfile}]
    BY <1>3 DEF AdmitChild, TypeOK
  <2>12. handoff' \in [Runs -> [phase : Phases, child : Runs \cup {NoRun}]]
    BY <1>3 DEF AdmitChild, TypeOK, Phases, AdmittedPhases
  <2> QED
    BY <1>3, <2>6, <2>10, <2>11, <2>12 DEF AdmitChild, TypeOK
<1>4. CASE MarkHandoffCompleted(root)
  BY <1>4 DEF MarkHandoffCompleted, TypeOK, Phases, AdmittedPhases
<1>5. CASE \E i \in Stages : RewindChild(root, i)
  <2> PICK i \in Stages : RewindChild(root, i)
    BY <1>5
  <2>1. Moved(run[root], Checkpoint(i-1)) \in Rows
    BY TransitionTyped, TableTyped, StagesInRange DEF RewindChild
  <2> QED
    BY <2>1, PersistTyped DEF RewindChild, TypeOK
<1> QED
  BY <1>1, <1>2, <1>3, <1>4, <1>5 DEF HandoffStep

LEMMA ReconcileTyped ==
  ASSUME TypeOK, Reconcile
  PROVE  TypeOK'
<1>1. {"Failed", "Cancelled"} \subseteq RunStates
  BY DEF RunStates, Terminal
<1>2. ASSUME NEW r \in Runs, Interrupted(r)
      PROVE  Reconciled(run[r]) \in Rows
  <2>1. run[r] \in Rows /\ run[r].version < MaxVersion
    BY <1>2 DEF Reconcile, CanReconcile, TypeOK
  <2>2. Moved(run[r], "Cancelled") \in Rows /\ Moved(run[r], "Failed") \in Rows
    BY <1>1, <2>1, MovedTyped
  <2>3. [Moved(run[r], "Failed") EXCEPT !.failure = Failure(StageOf(run[r].state), TRUE)]
          \in Rows
    BY <2>2, FailureRowTyped, StageOfTyped
  <2> QED
    BY <2>2, <2>3 DEF Reconciled
<1>3. run' \in [Runs -> Rows]
  BY <1>2 DEF Reconcile, TypeOK
<1>4. ASSUME NEW r \in Runs, Interrupted(r)
      PROVE  Append(log[r], [from |-> run[r].state, to |-> Reconciled(run[r]).state])
               \in Seq(Events)
  <2>1. [from |-> run[r].state, to |-> Reconciled(run[r]).state] \in Events
    BY <1>2, <1>4 DEF Events, Rows, TypeOK
  <2> QED
    BY <2>1 DEF TypeOK
<1>5. log' \in [Runs -> Seq(Events)]
  BY <1>4 DEF Reconcile, TypeOK
<1> QED
  BY <1>3, <1>5 DEF Reconcile, TypeOK

\* Every transaction, of whatever thread, leaves well-formed rows and events.
LEMMA NextTyped ==
  ASSUME TypeOK, [Next]_vars
  PROVE  TypeOK'
<1>1. CASE \E r \in Runs : Admission(r) \/ Stage(r) \/ Interruption(r) \/ HandoffStep(r)
  BY <1>1, AdmissionTyped, StageTyped, InterruptionTyped, HandoffStepTyped
<1>2. CASE Reconcile
  BY <1>2, ReconcileTyped
<1>3. CASE UNCHANGED vars
  BY <1>3 DEF TypeOK, vars
<1> QED
  BY <1>1, <1>2, <1>3 DEF Next

\* Versions stay within their bound and rows, events and relations are well formed, always.
THEOREM TypeCorrect == Spec => []TypeOK
<1>1. TypeOK /\ [Next]_vars => TypeOK'
  BY NextTyped
<1> QED
  BY <1>1, TypeOKInit, PTL DEF Spec

-----------------------------------------------------------------------------
(* What a step does to one row. Every invariant about rows and their events  *)
(* follows from this case distinction alone.                                 *)

\* Working states, checkpoints and the rest are different states.
LEMMA TableValues ==
  /\ \A i \in 0..7 :
       /\ ActiveState(i) \in {"Ingesting", "Parsing", "Normalizing", "Structuring", "Chunking",
                              "Analyzing", "Synthesizing", "Verifying"}
       /\ Checkpoint(i) \in {"Ingested", "Parsed", "Normalized", "Structured", "Chunked",
                             "Analyzed", "Synthesized", "Verified"}
  /\ ActiveStates \cap (Checkpoints \cup Terminal \cup {"Absent", "Received", "Cancelling"}) = {}
  /\ Checkpoints \cap (Terminal \cup {"Absent", "Received", "Cancelling"}) = {}
<1>1. \A i \in 0..7 :
        ActiveState(i) \in {"Ingesting", "Parsing", "Normalizing", "Structuring", "Chunking",
                            "Analyzing", "Synthesizing", "Verifying"}
  BY DEF ActiveState
<1>2. \A i \in 0..7 :
        Checkpoint(i) \in {"Ingested", "Parsed", "Normalized", "Structured", "Chunked",
                           "Analyzed", "Synthesized", "Verified"}
  BY DEF Checkpoint
<1> QED
  BY <1>1, <1>2 DEF ActiveStates, Checkpoints, Terminal, Successful

\* A restart edge leads from a working state to a checkpoint.
LEMMA RewindEnds ==
  \A from, to : <<from, to>> \in Rewind => from \in ActiveStates /\ to \in Checkpoints
BY StagesInRange DEF Rewind, ActiveStates, Checkpoints

\* Neither starting nor completing a stage is one of the restart edges.
LEMMA RewindEdges ==
  \A i \in Stages :
    /\ <<Checkpoint(i-1), ActiveState(i)>> \notin Rewind
    /\ <<ActiveState(i), Checkpoint(i)>> \notin Rewind
<1>1. \A i, j \in Stages : Checkpoint(i) = Checkpoint(j-1) => ActiveState(i) # ActiveState(j)
  BY DEF Stages, Checkpoint, ActiveState
<1>2. \A i \in Stages : Checkpoint(i-1) \in Checkpoints
  BY StagesInRange DEF Checkpoints
<1> QED
  BY <1>1, <1>2, RewindEnds, TableValues DEF Rewind

RowKept(r) == run'[r] = run[r] /\ log'[r] = log[r]

Births == {Ingestion, Append(Ingestion, "Parsing"), Ingestion \o <<"Parsing", "Parsed">>}

\* A new run has been through three to five states and rests in none of the others.
LEMMA BirthStates ==
  \A states \in Births :
    Len(states) \in 3..5 /\ states[Len(states)] \in {"Ingested", "Parsing", "Parsed"}
<1>1. Ingestion[3] = "Ingested" /\ Append(Ingestion, "Parsing")[4] = "Parsing"
      /\ (Ingestion \o <<"Parsing", "Parsed">>)[5] = "Parsed"
  BY DEF Ingestion
<1> SUFFICES ASSUME NEW states \in Births
             PROVE  Len(states) \in 3..5 /\ states[Len(states)] \in {"Ingested", "Parsing", "Parsed"}
  OBVIOUS
<1>2. CASE states = Ingestion
  BY <1>1, <1>2, BirthsTyped
<1>3. CASE states = Append(Ingestion, "Parsing")
  BY <1>1, <1>3, BirthsTyped
<1>4. CASE states = Ingestion \o <<"Parsing", "Parsed">>
  BY <1>1, <1>4, BirthsTyped
<1> QED
  BY <1>2, <1>3, <1>4 DEF Births

RowBorn(r) ==
  /\ ~Exists(r)
  /\ \E states \in Births, d \in Runs \cup {NoRun}, s \in Sources :
       run'[r] = NewRow(states, d, s) /\ log'[r] = EventsThrough(states)

RowMoved(r) ==
  \E to \in RunStates :
    /\ ValidTransition(run[r].state, to)
    /\ run'[r].state = to /\ run'[r].version = run[r].version + 1
    /\ run'[r].cancel = (run[r].cancel \/ to = "Cancelling")
    /\ run[r].state = "Cancelling" => to = "Cancelled" /\ run[r].cancel
    /\ <<run[r].state, to>> \in Rewind => IsAdmittedChild(r)
    /\ log'[r] = Append(log[r], [from |-> run[r].state, to |-> to])

RowStep(r) == RowKept(r) \/ RowBorn(r) \/ RowMoved(r)

\* A transition through transition_in_tx moves one row by one edge and leaves the others.
LEMMA PersistMoves ==
  ASSUME TypeOK, NEW r \in Runs, NEW row \in Rows, NEW to \in RunStates,
         NEW from, NEW v, CanMove(r, from, v, to),
         row.state = to, row.version = run[r].version + 1,
         row.cancel = (run[r].cancel \/ to = "Cancelling"),
         run[r].state = "Cancelling" => to = "Cancelled" /\ run[r].cancel,
         <<run[r].state, to>> \in Rewind => IsAdmittedChild(r),
         Persist(r, row), NEW q \in Runs
  PROVE  RowStep(q)
<1>1. CASE q = r
  BY <1>1 DEF RowStep, RowMoved, Persist, CanMove, TypeOK
<1>2. CASE q # r
  BY <1>2 DEF RowStep, RowKept, Persist, TypeOK
<1> QED
  BY <1>1, <1>2

\* What Moved and a recorded failure leave of a row.
LEMMA MovedFields ==
  ASSUME NEW row \in Rows, NEW to
  PROVE  /\ Moved(row, to).state = to
         /\ Moved(row, to).version = row.version + 1
         /\ Moved(row, to).cancel = row.cancel
BY DEF Moved, Rows

LEMMA FailedFields ==
  ASSUME NEW row \in Rows, NEW f
  PROVE  /\ [row EXCEPT !.failure = f].state = row.state
         /\ [row EXCEPT !.failure = f].version = row.version
         /\ [row EXCEPT !.failure = f].cancel = row.cancel
BY DEF Rows

\* Moving a run, and recording a failure with the move if it fails, is a RowStep of every run
\* when the edge starts in a state that is not CANCELLING and is no restart edge.
LEMMA MoveIsRowStep ==
  ASSUME TypeOK, NEW r \in Runs, NEW from \in RunStates, NEW v,
         NEW to \in RunStates, CanMove(r, from, v, to),
         from # "Cancelling", to # "Cancelling",
         <<from, to>> \in Rewind => IsAdmittedChild(r),
         NEW f \in Failures,
         \/ Persist(r, Moved(run[r], to))
         \/ Persist(r, [Moved(run[r], to) EXCEPT !.failure = f]),
         NEW q \in Runs
  PROVE  RowStep(q)
<1> DEFINE plain == Moved(run[r], to)
           failed == [plain EXCEPT !.failure = f]
<1>1. run[r] \in Rows /\ run[r].state = from
  BY DEF TypeOK, CanMove
<1>2. plain \in Rows
  BY TransitionTyped
<1>3. failed \in Rows
  BY <1>2 DEF Rows
<1>4. plain.state = to /\ plain.version = run[r].version + 1 /\ plain.cancel = run[r].cancel
  BY <1>1, MovedFields
<1>5. failed.state = to /\ failed.version = run[r].version + 1 /\ failed.cancel = run[r].cancel
  BY <1>2, <1>4, FailedFields
<1>6. run[r].cancel = (run[r].cancel \/ to = "Cancelling")
  BY <1>1 DEF Rows
<1> HIDE DEF plain, failed
<1>7. CASE Persist(r, plain)
  BY <1>1, <1>2, <1>4, <1>6, <1>7, PersistMoves
<1>8. CASE Persist(r, failed)
  BY <1>1, <1>3, <1>5, <1>6, <1>8, PersistMoves
<1> QED
  BY <1>7, <1>8 DEF plain, failed

\* The states a stage moves between are states, none of them CANCELLING.
LEMMA StageEdges ==
  \A i \in Stages :
    /\ {Checkpoint(i-1), ActiveState(i), Checkpoint(i), "Failed"} \subseteq RunStates
    /\ "Cancelling" \notin {Checkpoint(i-1), ActiveState(i), Checkpoint(i), "Failed"}
    /\ <<Checkpoint(i-1), ActiveState(i)>> \notin Rewind
    /\ <<ActiveState(i), Checkpoint(i)>> \notin Rewind
    /\ <<ActiveState(i), "Failed">> \notin Rewind
<1>1. "Failed" \in RunStates /\ "Failed" \notin Checkpoints
  BY TableValues DEF RunStates, Terminal
<1> QED
  BY <1>1, RewindEnds, RewindEdges, StagesInRange, TableTyped, TableValues

LEMMA StageRowStep ==
  ASSUME TypeOK, NEW r \in Runs, Stage(r), NEW q \in Runs
  PROVE  RowStep(q)
<1> DEFINE v == run[r].version
<1>0. {} \in Failures
  BY DEF Failures
<1>1. CASE \E i \in Stages : StartStage(r, i, v)
  BY <1>0, <1>1, StageEdges, MoveIsRowStep DEF StartStage
<1>2. CASE \E i \in Stages : CompleteStage(r, i, v)
  BY <1>0, <1>2, StageEdges, MoveIsRowStep DEF CompleteStage
<1>3. CASE \E i \in Stages, b \in BOOLEAN : FailStage(r, i, v, b)
  <2> PICK i \in Stages, b \in BOOLEAN : FailStage(r, i, v, b)
    BY <1>3
  <2>1. Failure(i, b) \in Failures
    BY FailureTyped, StagesInRange
  <2> QED
    BY <2>1, StageEdges, MoveIsRowStep DEF FailStage
<1>4. CASE RecordVerificationAttempt(r, v)
  BY <1>4 DEF RecordVerificationAttempt, RowStep, RowKept
<1>5. "Verified" \in RunStates /\ Successful \cup {"Failed"} \subseteq RunStates
  BY DEF RunStates, Terminal, Checkpoints, Checkpoint
<1>6. \A s \in Successful \cup {"Failed"} : s # "Cancelling" /\ <<"Verified", s>> \notin Rewind
  BY TableValues, RewindEnds DEF Terminal, Successful
<1>7. CASE \E s \in Successful : CompleteSummary(r, v, s)
  BY <1>0, <1>5, <1>6, <1>7, MoveIsRowStep DEF CompleteSummary
<1>8. CASE \E b \in BOOLEAN : FailSummary(r, v, b)
  <2> PICK b \in BOOLEAN : FailSummary(r, v, b)
    BY <1>8
  <2>1. Failure(7, b) \in Failures
    BY FailureTyped
  <2> QED
    BY <1>5, <1>6, <2>1, MoveIsRowStep DEF FailSummary
<1> QED
  BY <1>1, <1>2, <1>3, <1>4, <1>7, <1>8 DEF Stage

LEMMA CompleteCancellationRowStep ==
  ASSUME TypeOK, NEW r \in Runs, NEW v, CompleteCancellation(r, v), NEW q \in Runs
  PROVE  RowStep(q)
<1>1. {"Cancelling", "Cancelled"} \subseteq RunStates /\ "Cancelled" \notin Checkpoints
  BY TableValues DEF RunStates, Terminal
<1>2. <<"Cancelling", "Cancelled">> \notin Rewind
  BY <1>1, RewindEnds
<1>3. run[r] \in Rows /\ run[r].state = "Cancelling" /\ run[r].cancel
  BY DEF CompleteCancellation, CanMove, TypeOK
<1>4. Moved(run[r], "Cancelled") \in Rows
  BY <1>1, TransitionTyped DEF CompleteCancellation
<1> QED
  BY <1>1, <1>2, <1>3, <1>4, MovedFields, PersistMoves DEF CompleteCancellation

LEMMA InterruptionRowStep ==
  ASSUME TypeOK, NEW r \in Runs, Interruption(r), NEW q \in Runs
  PROVE  RowStep(q)
<1> DEFINE s == run[r].state
           v == run[r].version
<1>1. run[r] \in Rows /\ s \in RunStates
  BY DEF TypeOK, Rows
<1>2. {"Failed", "Cancelling"} \subseteq RunStates \ Checkpoints
  BY TableValues DEF RunStates, Terminal
<1>3. <<s, "Failed">> \notin Rewind /\ <<s, "Cancelling">> \notin Rewind
  BY <1>2, RewindEnds
<1>4. CASE RequestCancellation(r, v)
  <2> DEFINE row == [Moved(run[r], "Cancelling") EXCEPT !.cancel = TRUE]
  <2>1. Moved(run[r], "Cancelling") \in Rows
    BY <1>2, <1>4, TransitionTyped DEF RequestCancellation
  <2>2. row \in Rows /\ row.cancel = TRUE /\ row.state = Moved(run[r], "Cancelling").state
        /\ row.version = Moved(run[r], "Cancelling").version
    BY <2>1 DEF Rows
  <2>3. s # "Cancelling"
    BY <1>4, TableValues DEF RequestCancellation, CanRequestCancellation
  <2> HIDE DEF row
  <2>4. row.state = "Cancelling" /\ row.version = v + 1
    BY <1>1, <2>2, MovedFields
  <2>5. Persist(r, row) /\ CanMove(r, s, v, "Cancelling")
    BY <1>4 DEF RequestCancellation, row
  <2> QED
    BY <1>1, <1>2, <1>3, <2>2, <2>3, <2>4, <2>5, PersistMoves
<1>5. CASE CompleteCancellation(r, v)
  BY <1>5, CompleteCancellationRowStep
<1>6. CASE FailBackground(r, s, v) /\ ~CompleteCancellation(r, v)
  <2>1. Failure(StageOf(s), TRUE) \in Failures
    BY StageOfTyped, FailureTyped
  <2> QED
    BY <1>1, <1>2, <1>3, <1>6, <2>1, MoveIsRowStep DEF FailBackground
<1> QED
  BY <1>4, <1>5, <1>6 DEF Interruption

LEMMA AdmissionRowStep ==
  ASSUME TypeOK, NEW r \in Runs, Admission(r), NEW q \in Runs
  PROVE  RowStep(q)
<1>1. CASE \E s \in {"native", "scanned"}, p \in Profiles \cup {NoProfile} : Ingest(r, s, p)
  <2>1. PICK s \in {"native", "scanned"}, p \in Profiles \cup {NoProfile} : Ingest(r, s, p)
    BY <1>1
  <2>2. /\ run' = [run EXCEPT ![r] = NewRow(Ingestion, r, s)]
        /\ log' = [log EXCEPT ![r] = EventsThrough(Ingestion)]
        /\ ~Exists(r)
    BY <2>1 DEF Ingest, Fresh
  <2> QED
    BY <2>2 DEF TypeOK, RowStep, RowKept, RowBorn, Births, Sources
<1>2. CASE \E src \in Runs : CreateRetry(src, run[src].version, r)
  <2>1. PICK src \in Runs : CreateRetry(src, run[src].version, r)
    BY <1>2
  <2> DEFINE states == Append(Ingestion, "Parsing")
  <2>2. /\ run' = [run EXCEPT ![r] = NewRow(states, run[src].document, run[src].source)]
        /\ log' = [log EXCEPT ![r] = EventsThrough(states)]
        /\ ~Exists(r)
    BY <2>1 DEF CreateRetry, Fresh
  <2>3. run[src].document \in Runs \cup {NoRun} /\ run[src].source \in Sources
    BY DEF TypeOK, Rows
  <2>4. states \in Births
    BY DEF Births
  <2> QED
    BY <2>2, <2>3, <2>4 DEF TypeOK, RowStep, RowKept, RowBorn
<1>3. CASE \E src \in Runs : SaveCorrection(src, run[src].version, r)
  <2>1. PICK src \in Runs : SaveCorrection(src, run[src].version, r)
    BY <1>3
  <2> DEFINE states == Ingestion \o <<"Parsing", "Parsed">>
  <2>2. /\ run' = [run EXCEPT ![r] = NewRow(states, r, "ocr")]
        /\ log' = [log EXCEPT ![r] = EventsThrough(states)]
        /\ ~Exists(r)
    BY <2>1 DEF SaveCorrection, Fresh
  <2>3. states \in Births /\ "ocr" \in Sources
    BY DEF Births, Sources
  <2> QED
    BY <2>2, <2>3 DEF TypeOK, RowStep, RowKept, RowBorn
<1>4. CASE \E p \in Profiles : PinProfile(r, p)
  BY <1>4 DEF PinProfile, RowStep, RowKept
<1> QED
  BY <1>1, <1>2, <1>3, <1>4 DEF Admission

LEMMA HandoffRowStep ==
  ASSUME TypeOK, NEW root \in Runs, HandoffStep(root), NEW q \in Runs
  PROVE  RowStep(q)
<1>1. CASE \E child \in Runs \ {root} : PrepareHandoff(root, child)
  BY <1>1 DEF PrepareHandoff, RowStep, RowKept
<1>2. CASE \E edge \in HandoffEdges : MoveHandoff(root, edge[1], edge[2])
  BY <1>2 DEF MoveHandoff, RowStep, RowKept
<1>3. CASE AdmitChild(root)
  <2> DEFINE child == handoff[root].child
             closed == [Moved(run[root], "Failed") EXCEPT !.failure = Failure(1, FALSE)]
  <2>1. run[root] \in Rows /\ run[root].state = "Parsed" /\ "Failed" \in RunStates
    BY <1>3 DEF AdmitChild, CanMove, TypeOK, RunStates, Terminal
  <2>2. Moved(run[root], "Failed") \in Rows
    BY <1>3, <2>1, TransitionTyped DEF AdmitChild
  <2>3. closed.state = "Failed" /\ closed.version = run[root].version + 1
        /\ closed.cancel = run[root].cancel
    BY <2>1, <2>2, MovedFields, FailedFields
  <2>4. <<"Parsed", "Failed">> \notin Rewind /\ run[root].cancel \in BOOLEAN
    BY <2>1, RewindEnds, TableValues DEF Rows, Terminal
  <2>5. /\ run' = [run EXCEPT ![root] = closed, ![child] = NewRow(Ingestion, child, "ocr")]
        /\ log' = [log EXCEPT ![root] = Append(@, [from |-> "Parsed", to |-> "Failed"]),
                              ![child] = EventsThrough(Ingestion)]
        /\ ~Exists(child) /\ ValidTransition("Parsed", "Failed")
    BY <1>3 DEF AdmitChild, CanMove
  <2>6. child # root
    BY <2>1, <2>5 DEF Exists
  <2> HIDE DEF closed
  <2>7. CASE q = root
    <3>1. run'[q] = closed /\ log'[q] = Append(log[q], [from |-> "Parsed", to |-> "Failed"])
      BY <2>5, <2>6, <2>7 DEF TypeOK
    <3>2. run'[q].cancel = (run[q].cancel \/ "Failed" = "Cancelling")
      BY <2>3, <2>4, <2>7, <3>1
    <3>3. run'[q].state = "Failed" /\ run'[q].version = run[q].version + 1
      BY <2>3, <2>7, <3>1
    <3>4. /\ run[q].state = "Parsed" /\ "Failed" \in RunStates
          /\ ValidTransition(run[q].state, "Failed")
          /\ <<run[q].state, "Failed">> \notin Rewind
          /\ log'[q] = Append(log[q], [from |-> run[q].state, to |-> "Failed"])
      BY <2>1, <2>4, <2>5, <2>7, <3>1
    <3> QED
      BY <3>2, <3>3, <3>4 DEF RowStep, RowMoved
  <2>8. CASE q = child
    <3>1. run'[q] = NewRow(Ingestion, q, "ocr") /\ log'[q] = EventsThrough(Ingestion)
      BY <2>5, <2>8 DEF TypeOK
    <3> QED
      BY <2>5, <2>8, <3>1 DEF RowStep, RowBorn, Births, Sources
  <2>9. CASE q \notin {root, child}
    BY <2>5, <2>9 DEF RowStep, RowKept, TypeOK
  <2> QED
    BY <2>7, <2>8, <2>9
<1>4. CASE MarkHandoffCompleted(root)
  BY <1>4 DEF MarkHandoffCompleted, RowStep, RowKept
<1>5. CASE \E i \in Stages : RewindChild(root, i)
  <2> PICK i \in Stages : RewindChild(root, i)
    BY <1>5
  <2>1. {} \in Failures
    BY DEF Failures
  <2>2. {ActiveState(i), Checkpoint(i-1)} \subseteq RunStates \ {"Cancelling"}
    BY StageEdges
  <2> QED
    BY <2>1, <2>2, MoveIsRowStep DEF RewindChild
<1> QED
  BY <1>1, <1>2, <1>3, <1>4, <1>5 DEF HandoffStep

LEMMA ReconcileRowStep ==
  ASSUME TypeOK, Reconcile, NEW q \in Runs
  PROVE  RowStep(q)
<1> DEFINE row == Reconciled(run[q])
<1>1. CASE ~Interrupted(q)
  BY <1>1 DEF Reconcile, RowStep, RowKept
<1>2. CASE Interrupted(q)
  <2>1. run[q] \in Rows /\ CanReconcile(run[q])
    BY <1>2 DEF Reconcile, TypeOK
  <2>2. {"Failed", "Cancelled"} \subseteq RunStates \ Checkpoints
    BY TableValues DEF RunStates, Terminal
  <2>3. Moved(run[q], "Failed") \in Rows
    BY <2>1, <2>2, MovedTyped DEF CanReconcile
  <2>4. /\ row.state = IF run[q].state = "Cancelling" THEN "Cancelled" ELSE "Failed"
        /\ row.version = run[q].version + 1
        /\ row.cancel = run[q].cancel
    BY <2>1, <2>3, MovedFields, FailedFields DEF Reconciled
  <2>5. ValidTransition(run[q].state, row.state)
    <3>1. run[q].state \in ActiveStates \cup {"Cancelling"}
      BY <1>2 DEF Interrupted
    <3>2. run[q].state \notin Terminal \cup {"Absent"}
      BY <3>1, TableValues DEF Terminal, Successful
    <3>3. <<"Cancelling", "Cancelled">> \in Forward
      BY DEF Forward
    <3> QED
      BY <2>4, <3>2, <3>3 DEF ValidTransition
  <2>6. <<run[q].state, row.state>> \notin Rewind
    BY <2>2, <2>4, RewindEnds
  <2>7. run[q].cancel = (run[q].cancel \/ row.state = "Cancelling")
    BY <2>1, <2>4 DEF Rows
  <2>8. run'[q] = row
        /\ log'[q] = Append(log[q], [from |-> run[q].state, to |-> row.state])
    BY <1>2 DEF Reconcile
  <2>9. row.state \in RunStates
    BY <2>2, <2>4
  <2>10. run[q].state = "Cancelling" => row.state = "Cancelled" /\ run[q].cancel
    BY <2>1, <2>4 DEF CanReconcile
  <2> HIDE DEF row
  <2> QED
    BY <2>4, <2>5, <2>6, <2>7, <2>8, <2>9, <2>10 DEF RowStep, RowMoved
<1> QED
  BY <1>1, <1>2

\* The whole case distinction.
LEMMA NextRowStep ==
  ASSUME TypeOK, [Next]_vars, NEW q \in Runs
  PROVE  RowStep(q)
<1>1. CASE \E r \in Runs : Admission(r) \/ Stage(r) \/ Interruption(r) \/ HandoffStep(r)
  BY <1>1, AdmissionRowStep, StageRowStep, InterruptionRowStep, HandoffRowStep
<1>2. CASE Reconcile
  BY <1>2, ReconcileRowStep
<1>3. CASE UNCHANGED vars
  BY <1>3 DEF vars, RowStep, RowKept
<1> QED
  BY <1>1, <1>2, <1>3 DEF Next

-----------------------------------------------------------------------------
(* Cancellation.                                                             *)

\* Once request_cancellation has committed, no transaction of the store, in any order, with
\* any arguments, by any thread, makes anything of the run but CANCELLED, and nothing else
\* is ever marked as a requested cancellation.
THEOREM CancellationIsDurable == Spec => []CancellationDurable
<1>1. Init => CancellationDurable
  BY DEF Init, NoRow, CancellationDurable
<1>2. ASSUME TypeOK, CancellationDurable, [Next]_vars
      PROVE  CancellationDurable'
  <2> SUFFICES ASSUME NEW q \in Runs
               PROVE  run'[q].cancel <=> run'[q].state \in {"Cancelling", "Cancelled"}
    BY DEF CancellationDurable
  <2>1. run[q].cancel <=> run[q].state \in {"Cancelling", "Cancelled"}
    BY <1>2 DEF CancellationDurable
  <2>2. CASE RowKept(q)
    BY <2>1, <2>2 DEF RowKept
  <2>3. CASE RowBorn(q)
    <3>1. PICK states \in Births, d \in Runs \cup {NoRun}, s \in Sources :
            run'[q] = NewRow(states, d, s)
      BY <2>3 DEF RowBorn
    <3>2. states[Len(states)] \in {"Ingested", "Parsing", "Parsed"}
      BY BirthStates
    <3> QED
      BY <3>1, <3>2 DEF NewRow
  <2>4. CASE RowMoved(q)
    <3>1. PICK to \in RunStates :
            /\ ValidTransition(run[q].state, to)
            /\ run'[q].state = to
            /\ run'[q].cancel = (run[q].cancel \/ to = "Cancelling")
            /\ run[q].state = "Cancelling" => to = "Cancelled" /\ run[q].cancel
      BY <2>4 DEF RowMoved
    <3>2. run[q].state # "Cancelled"
      BY <3>1 DEF ValidTransition, Terminal
    <3>3. to = "Cancelled" => run[q].state = "Cancelling"
      BY <3>1, TableValues, RewindEnds, StagesInRange DEF ValidTransition, Forward, Terminal,
         Successful
    <3> QED
      BY <2>1, <3>1, <3>2, <3>3
  <2> QED
    BY <1>2, <2>2, <2>3, <2>4, NextRowStep DEF RowStep
<1> QED
  BY <1>1, <1>2, TypeCorrect, PTL DEF Spec

-----------------------------------------------------------------------------
(* History.                                                                  *)

\* What LogExplainsRun says of one run.
Explained(r) ==
  /\ Len(log[r]) = run[r].version
  /\ Exists(r) => /\ log[r] # <<>>
                  /\ log[r][1].from = "Absent"
                  /\ log[r][Len(log[r])].to = run[r].state
  /\ \A n \in 2..Len(log[r]) :
       /\ log[r][n].from = log[r][n-1].to
       /\ ValidTransition(log[r][n].from, log[r][n].to)

\* The states a new run has been through follow one another by legal edges.
LEMMA BirthEdges ==
  \A states \in Births : \A n \in 2..Len(states) : ValidTransition(states[n-1], states[n])
<1>1. /\ ActiveState(0) = "Ingesting" /\ Checkpoint(0) = "Ingested"
      /\ ActiveState(1) = "Parsing" /\ Checkpoint(1) = "Parsed"
  BY DEF ActiveState, Checkpoint
<1>2. /\ <<"Received", "Ingesting">> \in Forward
      /\ <<"Ingesting", "Ingested">> \in Forward
      /\ <<"Ingested", "Parsing">> \in Forward
      /\ <<"Parsing", "Parsed">> \in Forward
  <2>1. \A i \in 0..7 : <<ActiveState(i), Checkpoint(i)>> \in Forward
    BY DEF Forward
  <2>2. \A i \in Stages : <<Checkpoint(i-1), ActiveState(i)>> \in Forward
    BY DEF Forward
  <2>3. <<Checkpoint(0), ActiveState(1)>> \in Forward
    BY <2>2 DEF Stages
  <2>4. <<"Received", "Ingesting">> \in Forward
    BY DEF Forward
  <2> QED
    BY <1>1, <2>1, <2>3, <2>4
<1>3. /\ ValidTransition("Received", "Ingesting") /\ ValidTransition("Ingesting", "Ingested")
      /\ ValidTransition("Ingested", "Parsing") /\ ValidTransition("Parsing", "Parsed")
  BY <1>2 DEF ValidTransition, Terminal, Successful
<1> SUFFICES ASSUME NEW states \in Births, NEW n \in 2..Len(states)
             PROVE  ValidTransition(states[n-1], states[n])
  OBVIOUS
<1>4. CASE states = Ingestion
  <2>1. n \in {2, 3}
    BY <1>4, BirthsTyped
  <2>2. states[1] = "Received" /\ states[2] = "Ingesting" /\ states[3] = "Ingested"
    BY <1>4 DEF Ingestion
  <2> QED
    BY <1>3, <2>1, <2>2
<1>5. CASE states = Append(Ingestion, "Parsing")
  <2>1. n \in {2, 3, 4}
    BY <1>5, BirthsTyped
  <2>2. states[1] = "Received" /\ states[2] = "Ingesting" /\ states[3] = "Ingested"
        /\ states[4] = "Parsing"
    BY <1>5 DEF Ingestion
  <2> QED
    BY <1>3, <2>1, <2>2
<1>6. CASE states = Ingestion \o <<"Parsing", "Parsed">>
  <2>1. n \in {2, 3, 4, 5}
    BY <1>6, BirthsTyped
  <2>2. states[1] = "Received" /\ states[2] = "Ingesting" /\ states[3] = "Ingested"
        /\ states[4] = "Parsing" /\ states[5] = "Parsed"
    BY <1>6 DEF Ingestion
  <2> QED
    BY <1>3, <2>1, <2>2
<1> QED
  BY <1>4, <1>5, <1>6 DEF Births

\* The events inserted with a new run explain it.
LEMMA BornExplained ==
  ASSUME NEW r \in Runs, RowBorn(r)
  PROVE  Explained(r)'
<1>1. PICK states \in Births, d \in Runs \cup {NoRun}, s \in Sources :
        run'[r] = NewRow(states, d, s) /\ log'[r] = EventsThrough(states)
  BY DEF RowBorn
<1>2. Len(states) \in 3..5
  BY BirthStates
<1>3. Len(log'[r]) = Len(states)
  BY <1>1, <1>2 DEF EventsThrough
<1>4. \A n \in 1..Len(states) :
        /\ log'[r][n].from = IF n = 1 THEN "Absent" ELSE states[n-1]
        /\ log'[r][n].to = states[n]
  <2> TAKE n \in 1..Len(states)
  <2> DEFINE before == IF n = 1 THEN "Absent" ELSE states[n-1]
  <2>1. log'[r][n] = [from |-> before, to |-> states[n]]
    BY <1>1 DEF EventsThrough
  <2> HIDE DEF before
  <2>2. log'[r][n].from = before /\ log'[r][n].to = states[n]
    BY <2>1
  <2> QED
    BY <2>2 DEF before
<1>5. run'[r].version = Len(states) /\ run'[r].state = states[Len(states)]
  BY <1>1 DEF NewRow
<1>6. log'[r] # <<>>
  BY <1>2, <1>3
<1>7. log'[r][1].from = "Absent" /\ log'[r][Len(log'[r])].to = run'[r].state
  <2>1. 1 \in 1..Len(states) /\ Len(states) \in 1..Len(states)
    BY <1>2
  <2> QED
    BY <1>3, <1>4, <1>5, <2>1
<1>8. ASSUME NEW n \in 2..Len(log'[r])
      PROVE  /\ log'[r][n].from = log'[r][n-1].to
             /\ ValidTransition(log'[r][n].from, log'[r][n].to)
  <2>1. n \in 2..Len(states) /\ n \in 1..Len(states) /\ n-1 \in 1..Len(states) /\ n # 1
    BY <1>2, <1>3
  <2>2. log'[r][n].from = states[n-1] /\ log'[r][n].to = states[n]
        /\ log'[r][n-1].to = states[n-1]
    BY <1>4, <2>1
  <2> QED
    BY <2>1, <2>2, BirthEdges
<1> QED
  BY <1>3, <1>5, <1>6, <1>7, <1>8 DEF Explained

\* One more event for one more version keeps the chain unbroken.
LEMMA MovedExplained ==
  ASSUME TypeOK, NEW r \in Runs, Explained(r), RowMoved(r)
  PROVE  Explained(r)'
<1>1. PICK to \in RunStates :
        /\ ValidTransition(run[r].state, to)
        /\ run'[r].state = to /\ run'[r].version = run[r].version + 1
        /\ log'[r] = Append(log[r], [from |-> run[r].state, to |-> to])
  BY DEF RowMoved
<1> DEFINE e == [from |-> run[r].state, to |-> to]
<1>2. Exists(r) /\ log[r] \in Seq(Events) /\ Len(log[r]) \in Nat
  BY <1>1 DEF ValidTransition, Exists, TypeOK
<1>3. Len(log[r]) >= 1
  BY <1>2 DEF Explained
<1>4. /\ Len(log'[r]) = Len(log[r]) + 1
      /\ log'[r][Len(log[r]) + 1] = e
      /\ \A n \in 1..Len(log[r]) : log'[r][n] = log[r][n]
  BY <1>1, <1>2
<1>5. log'[r] # <<>> /\ log'[r][1].from = "Absent" /\ log'[r][Len(log'[r])].to = run'[r].state
  BY <1>1, <1>2, <1>3, <1>4 DEF Explained
<1>6. ASSUME NEW n \in 2..Len(log'[r])
      PROVE  /\ log'[r][n].from = log'[r][n-1].to
             /\ ValidTransition(log'[r][n].from, log'[r][n].to)
  <2>1. CASE n <= Len(log[r])
    <3>1. n \in 2..Len(log[r]) /\ n \in 1..Len(log[r]) /\ n-1 \in 1..Len(log[r])
      BY <1>2, <2>1
    <3> QED
      BY <1>4, <3>1 DEF Explained
  <2>2. CASE n > Len(log[r])
    <3>1. n = Len(log[r]) + 1 /\ n-1 = Len(log[r]) /\ n-1 \in 1..Len(log[r])
      BY <1>2, <1>3, <1>4, <2>2
    <3>2. log'[r][n-1].to = run[r].state
      BY <1>2, <1>4, <3>1 DEF Explained
    <3> QED
      BY <1>1, <1>4, <3>1, <3>2
  <2> QED
    BY <1>2, <2>1, <2>2
<1>7. Len(log'[r]) = run'[r].version
  BY <1>1, <1>4 DEF Explained
<1> QED
  BY <1>5, <1>6, <1>7 DEF Explained

\* However many runs there are and however their transactions interleave, the events of a run
\* are one unbroken chain of legal edges from its creation to the state in its row, one per
\* version: no transaction of db.rs moves a row without the event that says so.
THEOREM LogExplainsEveryRun == Spec => []LogExplainsRun
<1>1. LogExplainsRun <=> \A r \in Runs : Explained(r)
  BY DEF LogExplainsRun, Explained
<1>2. Init => LogExplainsRun
  BY <1>1 DEF Init, NoRow, Exists, Explained
<1>3. ASSUME TypeOK, LogExplainsRun, [Next]_vars
      PROVE  LogExplainsRun'
  <2> SUFFICES ASSUME NEW r \in Runs PROVE Explained(r)'
    BY DEF LogExplainsRun, Explained
  <2>1. Explained(r)
    BY <1>1, <1>3
  <2>2. CASE RowKept(r)
    BY <2>1, <2>2 DEF RowKept, Explained, Exists
  <2>3. CASE RowBorn(r)
    BY <2>3, BornExplained
  <2>4. CASE RowMoved(r)
    BY <1>3, <2>1, <2>4, MovedExplained
  <2> QED
    BY <1>3, <2>2, <2>3, <2>4, NextRowStep DEF RowStep
<1> QED
  BY <1>2, <1>3, TypeCorrect, PTL DEF Spec

\* A run id without a row has no events and no artifacts.
AbsentIsBlank == \A r \in Runs : ~Exists(r) => log[r] = <<>> /\ artifacts[r] = {}

\* A run, once there, stays: no edge leads back to Absent.
LEMMA RunsStay ==
  ASSUME NEW r \in Runs, RowStep(r), Exists(r) \/ ~RowKept(r)
  PROVE  Exists(r)'
<1>1. CASE RowKept(r)
  BY <1>1 DEF RowKept, Exists
<1>2. CASE RowBorn(r)
  <2>1. PICK states \in Births, d \in Runs \cup {NoRun}, s \in Sources :
          run'[r] = NewRow(states, d, s)
    BY <1>2 DEF RowBorn
  <2> QED
    BY <2>1, BirthStates DEF NewRow, Exists
<1>3. CASE RowMoved(r)
  <2>1. PICK to \in RunStates : ValidTransition(run[r].state, to) /\ run'[r].state = to
    BY <1>3 DEF RowMoved
  <2>2. to # "Absent"
    BY <2>1, TableValues, RewindEnds, StagesInRange DEF ValidTransition, Forward, Successful
  <2> QED
    BY <2>1, <2>2 DEF Exists
<1> QED
  BY <1>1, <1>2, <1>3 DEF RowStep

\* Artifacts are added by three transactions, each to a run that has a row when it commits.
LEMMA ArtifactsAdded ==
  ASSUME TypeOK, [Next]_vars, NEW q \in Runs
  PROVE  \/ artifacts'[q] = artifacts[q]
         \/ Exists(q) /\ artifacts[q] \subseteq artifacts'[q]
         \/ ~Exists(q) /\ Exists(q)'
<1> DEFINE Added == \/ artifacts'[q] = artifacts[q]
                    \/ Exists(q) /\ artifacts[q] \subseteq artifacts'[q]
                    \/ ~Exists(q) /\ Exists(q)'
<1>1. ASSUME NEW r \in Runs, Admission(r) PROVE Added
  <2>1. CASE \E s \in {"native", "scanned"}, p \in Profiles \cup {NoProfile} : Ingest(r, s, p)
    BY <2>1 DEF Ingest
  <2>2. CASE \E src \in Runs : CreateRetry(src, run[src].version, r)
    BY <2>2 DEF CreateRetry
  <2>3. CASE \E src \in Runs : SaveCorrection(src, run[src].version, r)
    <3>1. PICK src \in Runs : SaveCorrection(src, run[src].version, r)
      BY <2>3
    <3>2. artifacts' = [artifacts EXCEPT ![r] = {1}] /\ ~Exists(r)
      BY <3>1 DEF SaveCorrection, Fresh
    <3>3. run'[r] = NewRow(Ingestion \o <<"Parsing", "Parsed">>, r, "ocr")
      BY <3>1 DEF SaveCorrection, TypeOK
    <3>4. Exists(r)'
      BY <3>3, BirthStates DEF NewRow, Births, Exists
    <3> QED
      BY <3>2, <3>4 DEF TypeOK
  <2>4. CASE \E p \in Profiles : PinProfile(r, p)
    BY <2>4 DEF PinProfile
  <2> QED
    BY <1>1, <2>1, <2>2, <2>3, <2>4 DEF Admission
<1>2. ASSUME NEW r \in Runs, Stage(r) PROVE Added
  <2> DEFINE v == run[r].version
  <2>1. CASE \E i \in Stages : StartStage(r, i, v)
    BY <2>1 DEF StartStage
  <2>2. CASE \E i \in Stages : CompleteStage(r, i, v)
    <3>1. PICK i \in Stages : CompleteStage(r, i, v)
      BY <2>2
    <3>2. Exists(r) /\ artifacts' = [artifacts EXCEPT ![r] = @ \cup {i}]
      BY <3>1 DEF CompleteStage, CanMove, ValidTransition, Exists
    <3> QED
      BY <3>2 DEF TypeOK
  <2>3. CASE \E i \in Stages, b \in BOOLEAN : FailStage(r, i, v, b)
    BY <2>3 DEF FailStage
  <2>4. CASE RecordVerificationAttempt(r, v)
    BY <2>4 DEF RecordVerificationAttempt
  <2>5. CASE \E s \in Successful : CompleteSummary(r, v, s)
    <3>1. Exists(r) /\ artifacts' = [artifacts EXCEPT ![r] = @ \cup {Summary}]
      BY <2>5 DEF CompleteSummary, CanMove, ValidTransition, Exists
    <3> QED
      BY <3>1 DEF TypeOK
  <2>6. CASE \E b \in BOOLEAN : FailSummary(r, v, b)
    BY <2>6 DEF FailSummary
  <2> QED
    BY <1>2, <2>1, <2>2, <2>3, <2>4, <2>5, <2>6 DEF Stage
<1>3. ASSUME NEW r \in Runs, Interruption(r) PROVE Added
  BY <1>3 DEF Interruption, RequestCancellation, CompleteCancellation, FailBackground
<1>4. ASSUME NEW r \in Runs, HandoffStep(r) PROVE Added
  BY <1>4 DEF HandoffStep, PrepareHandoff, MoveHandoff, AdmitChild, MarkHandoffCompleted,
     RewindChild
<1>5. CASE Reconcile
  BY <1>5 DEF Reconcile
<1>6. CASE UNCHANGED vars
  BY <1>6 DEF vars
<1> QED
  BY <1>1, <1>2, <1>3, <1>4, <1>5, <1>6 DEF Next

LEMMA AbsentStaysBlank == Spec => []AbsentIsBlank
<1>1. Init => AbsentIsBlank
  BY DEF Init, AbsentIsBlank
<1>2. ASSUME TypeOK, AbsentIsBlank, [Next]_vars
      PROVE  AbsentIsBlank'
  <2> SUFFICES ASSUME NEW r \in Runs, ~Exists(r)'
               PROVE  log'[r] = <<>> /\ artifacts'[r] = {}
    BY DEF AbsentIsBlank
  <2>1. RowKept(r) /\ ~Exists(r)
    BY <1>2, NextRowStep, RunsStay
  <2>2. artifacts'[r] = artifacts[r]
    BY <1>2, <2>1, ArtifactsAdded
  <2> QED
    BY <1>2, <2>1, <2>2 DEF RowKept, AbsentIsBlank
<1> QED
  BY <1>1, <1>2, TypeCorrect, PTL DEF Spec

\* Nothing is taken back, by any step of any number of threads: events and artifacts are only
\* added, a terminal row is never written again, and the restart edges of is_valid_transition
\* are used for admitted OCR children alone.
THEOREM HistoryIsKept == Spec => HistoryOnlyGrows
<1> DEFINE Kept(r) ==
      /\ Len(log[r]) <= Len(log'[r]) /\ SubSeq(log'[r], 1, Len(log[r])) = log[r]
      /\ artifacts[r] \subseteq artifacts'[r]
      /\ run[r].state \in Terminal => run'[r] = run[r]
      /\ <<run[r].state, run'[r].state>> \in Rewind => IsAdmittedChild(r)
<1>1. ASSUME TypeOK, AbsentIsBlank, [Next]_vars, NEW r \in Runs
      PROVE  Kept(r)
  <2>1. log[r] \in Seq(Events) /\ Len(log[r]) \in Nat
    BY <1>1 DEF TypeOK
  <2>2. artifacts[r] \subseteq artifacts'[r]
    BY <1>1, ArtifactsAdded DEF AbsentIsBlank
  <2>3. CASE RowKept(r)
    <3>1. SubSeq(log[r], 1, Len(log[r])) = log[r]
      BY <2>1
    <3>2. <<run[r].state, run[r].state>> \notin Rewind
      BY RewindEnds, TableValues
    <3> QED
      BY <2>1, <2>2, <2>3, <3>1, <3>2 DEF RowKept
  <2>4. CASE RowBorn(r)
    <3>1. log[r] = <<>> /\ run[r].state = "Absent"
      BY <1>1, <2>4 DEF RowBorn, AbsentIsBlank, Exists
    <3>2. PICK states \in Births : log'[r] = EventsThrough(states)
      BY <2>4 DEF RowBorn
    <3>3. Len(log'[r]) \in Nat
      BY <3>2, BirthStates DEF EventsThrough
    <3>4. SubSeq(log'[r], 1, 0) = <<>>
      OBVIOUS
    <3>5. "Absent" \notin Terminal /\ "Absent" \notin ActiveStates
      BY TableValues DEF Terminal, Successful
    <3> QED
      BY <2>2, <3>1, <3>3, <3>4, <3>5, RewindEnds
  <2>5. CASE RowMoved(r)
    <3>1. PICK to \in RunStates :
            /\ ValidTransition(run[r].state, to) /\ run'[r].state = to
            /\ <<run[r].state, to>> \in Rewind => IsAdmittedChild(r)
            /\ log'[r] = Append(log[r], [from |-> run[r].state, to |-> to])
      BY <2>5 DEF RowMoved
    <3>2. run[r].state \notin Terminal
      BY <3>1 DEF ValidTransition
    <3>3. Len(log'[r]) = Len(log[r]) + 1
      BY <2>1, <3>1
    <3>4. SubSeq(log'[r], 1, Len(log[r])) = log[r]
      BY <2>1, <3>1
    <3> QED
      BY <2>1, <2>2, <3>1, <3>2, <3>3, <3>4
  <2> QED
    BY <1>1, <2>3, <2>4, <2>5, NextRowStep DEF RowStep
<1>2. TypeOK /\ AbsentIsBlank /\ [Next]_vars => [\A r \in Runs : Kept(r)]_vars
  BY <1>1
<1> QED
  BY <1>2, TypeCorrect, AbsentStaysBlank, PTL DEF Spec, HistoryOnlyGrows

-----------------------------------------------------------------------------
(* What a step does to the work of one run: its row, events and artifacts.   *)

WorkKept(q) == run'[q] = run[q] /\ log'[q] = log[q] /\ artifacts'[q] = artifacts[q]

\* Only a run born with a text, already PARSED, is born with an artifact.
WorkBorn(q) ==
  /\ ~Exists(q)
  /\ \E states \in Births, d \in Runs \cup {NoRun}, s \in Sources :
       /\ run'[q] = NewRow(states, d, s) /\ log'[q] = EventsThrough(states)
       /\ artifacts'[q] = IF states[Len(states)] = "Parsed" THEN {1} ELSE artifacts[q]

Starts(q, to) ==
  \E i \in Stages : /\ run[q].state = Checkpoint(i-1) /\ to = ActiveState(i)
                    /\ i = 2 => ~HasHandoff(q)
                    /\ artifacts'[q] = artifacts[q]
Completes(q, to) ==
  \E i \in Stages : /\ run[q].state = ActiveState(i) /\ to = Checkpoint(i)
                    /\ i \notin artifacts[q] /\ artifacts'[q] = artifacts[q] \cup {i}
Rewinds(q, to) ==
  \E i \in Stages : /\ run[q].state = ActiveState(i) /\ to = Checkpoint(i-1)
                    /\ artifacts'[q] = artifacts[q]
Succeeds(q, to) ==
  /\ run[q].state = "Verified" /\ to \in Successful
  /\ artifacts'[q] = artifacts[q] \cup {Summary}
Stops(q, to) == to \in {"Failed", "Cancelling", "Cancelled"} /\ artifacts'[q] = artifacts[q]

WorkEdge(q, to) ==
  Starts(q, to) \/ Completes(q, to) \/ Rewinds(q, to) \/ Succeeds(q, to) \/ Stops(q, to)

\* A failure says the stage it happened in. A run at PARSED is failed by its worker's end, for
\* the stage that would have come next, or by the admission of its OCR child.
FailureAfter(q, to, failure) ==
  /\ to # "Failed" => failure = run[q].failure
  /\ to = "Failed" => /\ failure \in Failures
                      /\ run[q].state = "Parsed" => failure = Failure(2, TRUE) \/ AdmitChild(q)

WorkMoved(q) ==
  \E to \in RunStates :
    /\ Exists(q)
    /\ run'[q].state = to /\ run'[q].version = run[q].version + 1
    /\ run'[q].document = run[q].document /\ run'[q].source = run[q].source
    /\ FailureAfter(q, to, run'[q].failure)
    /\ log'[q] = Append(log[q], [from |-> run[q].state, to |-> to])
    /\ WorkEdge(q, to)

WorkStep(q) == WorkKept(q) \/ WorkBorn(q) \/ WorkMoved(q)

\* Moved leaves the rest of a row alone, and so does a recorded failure or request.
LEMMA MovedKeeps ==
  ASSUME NEW row \in Rows, NEW to
  PROVE  /\ Moved(row, to).document = row.document
         /\ Moved(row, to).source = row.source
         /\ Moved(row, to).failure = row.failure
BY DEF Moved, Rows

LEMMA FailedKeeps ==
  ASSUME NEW row \in Rows, NEW f
  PROVE  /\ [row EXCEPT !.failure = f].document = row.document
         /\ [row EXCEPT !.failure = f].source = row.source
         /\ [row EXCEPT !.failure = f].failure = f
BY DEF Rows

\* One row moves along one edge; the work of every other run is kept.
LEMMA MoverWorks ==
  ASSUME TypeOK, NEW r \in Runs, NEW row \in Rows, NEW to \in RunStates, Persist(r, row),
         Exists(r), row.state = to, row.version = run[r].version + 1,
         row.document = run[r].document, row.source = run[r].source,
         FailureAfter(r, to, row.failure), WorkEdge(r, to),
         \A q \in Runs \ {r} : artifacts'[q] = artifacts[q],
         NEW q \in Runs
  PROVE  WorkStep(q)
<1>1. CASE q = r
  <2>1. run'[q] = row /\ log'[q] = Append(log[q], [from |-> run[q].state, to |-> to])
    BY <1>1 DEF Persist, TypeOK
  <2> QED
    BY <1>1, <2>1 DEF WorkStep, WorkMoved
<1>2. CASE q # r
  BY <1>2 DEF WorkStep, WorkKept, Persist, TypeOK
<1> QED
  BY <1>1, <1>2

\* The same for a plain move to a state that is not FAILED.
LEMMA PlainMoveWorks ==
  ASSUME TypeOK, NEW r \in Runs, NEW from, NEW v, NEW to \in RunStates,
         CanMove(r, from, v, to), Persist(r, Moved(run[r], to)), to # "Failed",
         WorkEdge(r, to), \A q \in Runs \ {r} : artifacts'[q] = artifacts[q],
         NEW q \in Runs
  PROVE  WorkStep(q)
<1> DEFINE row == Moved(run[r], to)
<1>1. run[r] \in Rows /\ row \in Rows
  BY TransitionTyped DEF TypeOK
<1>2. Exists(r)
  BY DEF CanMove, ValidTransition, Exists
<1>3. /\ row.state = to /\ row.version = run[r].version + 1 /\ row.document = run[r].document
      /\ row.source = run[r].source /\ row.failure = run[r].failure
  BY <1>1, MovedFields, MovedKeeps
<1>4. FailureAfter(r, to, row.failure)
  BY <1>3 DEF FailureAfter
<1> HIDE DEF row
<1>5. Persist(r, row)
  BY DEF row
<1> QED
  BY <1>1, <1>2, <1>3, <1>4, <1>5, MoverWorks

\* The same for a recorded failure.
LEMMA FailureWorks ==
  ASSUME TypeOK, NEW r \in Runs, NEW from, NEW v, CanMove(r, from, v, "Failed"),
         NEW f \in Failures, Persist(r, [Moved(run[r], "Failed") EXCEPT !.failure = f]),
         from = "Parsed" => f = Failure(2, TRUE),
         artifacts' = artifacts, NEW q \in Runs
  PROVE  WorkStep(q)
<1> DEFINE plain == Moved(run[r], "Failed")
           row == [plain EXCEPT !.failure = f]
<1>0. "Failed" \in RunStates
  BY DEF RunStates, Terminal
<1>1. run[r] \in Rows /\ plain \in Rows
  BY <1>0, TransitionTyped DEF TypeOK
<1>2. Exists(r) /\ run[r].state = from
  BY DEF CanMove, ValidTransition, Exists
<1>3. row \in Rows
  BY <1>1 DEF Rows
<1>4. /\ plain.state = "Failed" /\ plain.version = run[r].version + 1
      /\ plain.document = run[r].document /\ plain.source = run[r].source
  BY <1>1, MovedFields, MovedKeeps
<1>5. /\ row.state = "Failed" /\ row.version = run[r].version + 1
      /\ row.document = run[r].document /\ row.source = run[r].source /\ row.failure = f
  BY <1>1, <1>4, FailedFields, FailedKeeps
<1>6. FailureAfter(r, "Failed", row.failure) /\ WorkEdge(r, "Failed")
  BY <1>2, <1>5 DEF FailureAfter, WorkEdge, Stops
<1> HIDE DEF plain, row
<1>7. Persist(r, row)
  BY DEF plain, row
<1> QED
  BY <1>0, <1>2, <1>3, <1>5, <1>6, <1>7, MoverWorks

LEMMA StageWorks ==
  ASSUME TypeOK, NEW r \in Runs, Stage(r), NEW q \in Runs
  PROVE  WorkStep(q)
<1> DEFINE v == run[r].version
<1>1. CASE \E i \in Stages : StartStage(r, i, v)
  <2> PICK i \in Stages : StartStage(r, i, v)
    BY <1>1
  <2>1. CanMove(r, Checkpoint(i-1), v, ActiveState(i)) /\ artifacts' = artifacts
    BY DEF StartStage
  <2>2. ActiveState(i) \in RunStates /\ ActiveState(i) # "Failed"
    BY StagesInRange, TableTyped, TableValues DEF ActiveStates, Terminal
  <2>3. WorkEdge(r, ActiveState(i))
    BY <2>1 DEF StartStage, CanMove, WorkEdge, Starts
  <2>4. Persist(r, Moved(run[r], ActiveState(i)))
    BY DEF StartStage
  <2> QED
    BY <2>1, <2>2, <2>3, <2>4, PlainMoveWorks
<1>2. CASE \E i \in Stages : CompleteStage(r, i, v)
  <2> PICK i \in Stages : CompleteStage(r, i, v)
    BY <1>2
  <2>1. CanMove(r, ActiveState(i), v, Checkpoint(i))
    BY DEF CompleteStage
  <2>2. Checkpoint(i) \in RunStates /\ Checkpoint(i) # "Failed"
    BY StagesInRange, TableTyped, TableValues DEF Checkpoints, Terminal
  <2>3. artifacts' = [artifacts EXCEPT ![r] = @ \cup {i}] /\ i \notin artifacts[r]
    BY DEF CompleteStage
  <2>4. WorkEdge(r, Checkpoint(i))
    BY <2>1, <2>3 DEF CanMove, WorkEdge, Completes, TypeOK
  <2>5. Persist(r, Moved(run[r], Checkpoint(i)))
    BY DEF CompleteStage
  <2>6. \A p \in Runs \ {r} : artifacts'[p] = artifacts[p]
    BY <2>3 DEF TypeOK
  <2> QED
    BY <2>1, <2>2, <2>4, <2>5, <2>6, PlainMoveWorks
<1>3. CASE \E i \in Stages, b \in BOOLEAN : FailStage(r, i, v, b)
  <2> PICK i \in Stages, b \in BOOLEAN : FailStage(r, i, v, b)
    BY <1>3
  <2> DEFINE f == Failure(i, b)
  <2>1. f \in Failures
    BY FailureTyped, StagesInRange
  <2>2. ActiveState(i) = "Parsed" => f = Failure(2, TRUE)
    BY StagesInRange, TableValues
  <2>3. /\ CanMove(r, ActiveState(i), v, "Failed") /\ artifacts' = artifacts
        /\ Persist(r, [Moved(run[r], "Failed") EXCEPT !.failure = f])
    BY DEF FailStage
  <2> HIDE DEF f
  <2> QED
    BY <2>1, <2>2, <2>3, FailureWorks
<1>4. CASE RecordVerificationAttempt(r, v)
  BY <1>4 DEF RecordVerificationAttempt, WorkStep, WorkKept
<1>5. CASE \E s \in Successful : CompleteSummary(r, v, s)
  <2> PICK s \in Successful : CompleteSummary(r, v, s)
    BY <1>5
  <2>1. s \in RunStates /\ s # "Failed"
    BY DEF RunStates, Terminal, Successful
  <2>2. artifacts' = [artifacts EXCEPT ![r] = @ \cup {Summary}]
    BY DEF CompleteSummary
  <2>3. WorkEdge(r, s)
    BY <2>2 DEF CompleteSummary, CanMove, WorkEdge, Succeeds, TypeOK
  <2>4. \A p \in Runs \ {r} : artifacts'[p] = artifacts[p]
    BY <2>2 DEF TypeOK
  <2> QED
    BY <2>1, <2>3, <2>4, PlainMoveWorks DEF CompleteSummary
<1>6. CASE \E b \in BOOLEAN : FailSummary(r, v, b)
  <2> PICK b \in BOOLEAN : FailSummary(r, v, b)
    BY <1>6
  <2> DEFINE f == Failure(7, b)
  <2>1. f \in Failures
    BY FailureTyped
  <2>2. /\ CanMove(r, "Verified", v, "Failed") /\ artifacts' = artifacts
        /\ Persist(r, [Moved(run[r], "Failed") EXCEPT !.failure = f])
    BY DEF FailSummary
  <2>3. "Verified" = "Parsed" => f = Failure(2, TRUE)
    OBVIOUS
  <2> HIDE DEF f
  <2> QED
    BY <2>1, <2>2, <2>3, FailureWorks
<1> QED
  BY <1>1, <1>2, <1>3, <1>4, <1>5, <1>6 DEF Stage

LEMMA CompleteCancellationWorks ==
  ASSUME TypeOK, NEW r \in Runs, NEW v, CompleteCancellation(r, v), NEW q \in Runs
  PROVE  WorkStep(q)
<1>1. "Cancelled" \in RunStates
  BY DEF RunStates, Terminal
<1>2. WorkEdge(r, "Cancelled") /\ artifacts' = artifacts
  BY DEF CompleteCancellation, WorkEdge, Stops
<1> QED
  BY <1>1, <1>2, PlainMoveWorks DEF CompleteCancellation

LEMMA InterruptionWorks ==
  ASSUME TypeOK, NEW r \in Runs, Interruption(r), NEW q \in Runs
  PROVE  WorkStep(q)
<1> DEFINE s == run[r].state
           v == run[r].version
<1>1. run[r] \in Rows
  BY DEF TypeOK
<1>2. CASE RequestCancellation(r, v)
  <2> DEFINE plain == Moved(run[r], "Cancelling")
             row == [plain EXCEPT !.cancel = TRUE]
  <2>1. "Cancelling" \in RunStates
    BY DEF RunStates
  <2>2. plain \in Rows
    BY <1>2, <2>1, TransitionTyped DEF RequestCancellation
  <2>3. /\ row \in Rows /\ row.state = plain.state /\ row.version = plain.version
        /\ row.document = plain.document /\ row.source = plain.source
        /\ row.failure = plain.failure
    BY <2>2 DEF Rows
  <2>4. /\ plain.state = "Cancelling" /\ plain.version = v + 1 /\ plain.failure = run[r].failure
        /\ plain.document = run[r].document /\ plain.source = run[r].source
    BY <1>1, MovedFields, MovedKeeps
  <2>5. Exists(r) /\ artifacts' = artifacts
    BY <1>2 DEF RequestCancellation, CanMove, ValidTransition, Exists
  <2>6. FailureAfter(r, "Cancelling", row.failure) /\ WorkEdge(r, "Cancelling")
    BY <2>3, <2>4, <2>5 DEF FailureAfter, WorkEdge, Stops
  <2> HIDE DEF plain
  <2>7. Persist(r, row)
    BY <1>2 DEF RequestCancellation, plain
  <2> HIDE DEF row
  <2> QED
    BY <2>1, <2>3, <2>4, <2>5, <2>6, <2>7, MoverWorks
<1>3. CASE CompleteCancellation(r, v)
  BY <1>3, CompleteCancellationWorks
<1>4. CASE FailBackground(r, s, v) /\ ~CompleteCancellation(r, v)
  <2> DEFINE f == Failure(StageOf(s), TRUE)
  <2>1. f \in Failures
    BY StageOfTyped, FailureTyped
  <2>2. s = "Parsed" => f = Failure(2, TRUE)
    BY DEF StageOf
  <2>3. /\ CanMove(r, s, v, "Failed") /\ artifacts' = artifacts
        /\ Persist(r, [Moved(run[r], "Failed") EXCEPT !.failure = f])
    BY <1>4 DEF FailBackground
  <2> HIDE DEF f
  <2> QED
    BY <2>1, <2>2, <2>3, FailureWorks
<1> QED
  BY <1>2, <1>3, <1>4 DEF Interruption

LEMMA AdmissionWorks ==
  ASSUME TypeOK, NEW r \in Runs, Admission(r), NEW q \in Runs
  PROVE  WorkStep(q)
<1>1. CASE \E s \in {"native", "scanned"}, p \in Profiles \cup {NoProfile} : Ingest(r, s, p)
  <2>1. PICK s \in {"native", "scanned"}, p \in Profiles \cup {NoProfile} : Ingest(r, s, p)
    BY <1>1
  <2>2. /\ run' = [run EXCEPT ![r] = NewRow(Ingestion, r, s)]
        /\ log' = [log EXCEPT ![r] = EventsThrough(Ingestion)]
        /\ ~Exists(r) /\ artifacts' = artifacts
    BY <2>1 DEF Ingest, Fresh
  <2>3. Ingestion \in Births /\ Ingestion[Len(Ingestion)] # "Parsed" /\ s \in Sources
    BY BirthsTyped DEF Births, Ingestion, Sources
  <2> QED
    BY <2>2, <2>3 DEF TypeOK, WorkStep, WorkKept, WorkBorn
<1>2. CASE \E src \in Runs : CreateRetry(src, run[src].version, r)
  <2>1. PICK src \in Runs : CreateRetry(src, run[src].version, r)
    BY <1>2
  <2> DEFINE states == Append(Ingestion, "Parsing")
  <2>2. /\ run' = [run EXCEPT ![r] = NewRow(states, run[src].document, run[src].source)]
        /\ log' = [log EXCEPT ![r] = EventsThrough(states)]
        /\ ~Exists(r) /\ artifacts' = artifacts
    BY <2>1 DEF CreateRetry, Fresh
  <2>3. run[src].document \in Runs \cup {NoRun} /\ run[src].source \in Sources
    BY DEF TypeOK, Rows
  <2>4. states \in Births /\ states[Len(states)] # "Parsed"
    BY BirthsTyped DEF Births, Ingestion
  <2> HIDE DEF states
  <2> QED
    BY <2>2, <2>3, <2>4 DEF TypeOK, WorkStep, WorkKept, WorkBorn
<1>3. CASE \E src \in Runs : SaveCorrection(src, run[src].version, r)
  <2>1. PICK src \in Runs : SaveCorrection(src, run[src].version, r)
    BY <1>3
  <2> DEFINE states == Ingestion \o <<"Parsing", "Parsed">>
  <2>2. /\ run' = [run EXCEPT ![r] = NewRow(states, r, "ocr")]
        /\ log' = [log EXCEPT ![r] = EventsThrough(states)]
        /\ ~Exists(r) /\ artifacts' = [artifacts EXCEPT ![r] = {1}]
    BY <2>1 DEF SaveCorrection, Fresh
  <2>3. states \in Births /\ "ocr" \in Sources /\ states[Len(states)] = "Parsed"
    BY BirthsTyped DEF Births, Sources, Ingestion
  <2> HIDE DEF states
  <2> QED
    BY <2>2, <2>3 DEF TypeOK, WorkStep, WorkKept, WorkBorn
<1>4. CASE \E p \in Profiles : PinProfile(r, p)
  BY <1>4 DEF PinProfile, WorkStep, WorkKept
<1> QED
  BY <1>1, <1>2, <1>3, <1>4 DEF Admission

LEMMA HandoffWorks ==
  ASSUME TypeOK, NEW root \in Runs, HandoffStep(root), NEW q \in Runs
  PROVE  WorkStep(q)
<1>1. CASE \E child \in Runs \ {root} : PrepareHandoff(root, child)
  BY <1>1 DEF PrepareHandoff, WorkStep, WorkKept
<1>2. CASE \E edge \in HandoffEdges : MoveHandoff(root, edge[1], edge[2])
  BY <1>2 DEF MoveHandoff, WorkStep, WorkKept
<1>3. CASE AdmitChild(root)
  <2> DEFINE child == handoff[root].child
             plain == Moved(run[root], "Failed")
             closed == [plain EXCEPT !.failure = Failure(1, FALSE)]
  <2>1. run[root] \in Rows /\ run[root].state = "Parsed" /\ "Failed" \in RunStates
    BY <1>3 DEF AdmitChild, CanMove, TypeOK, RunStates, Terminal
  <2>2. plain \in Rows
    BY <1>3, <2>1, TransitionTyped DEF AdmitChild
  <2>3. /\ closed.state = plain.state /\ closed.version = plain.version
        /\ closed.document = plain.document /\ closed.source = plain.source
        /\ closed.failure = Failure(1, FALSE)
    BY <2>2, FailedFields, FailedKeeps
  <2>4. /\ plain.state = "Failed" /\ plain.version = run[root].version + 1
        /\ plain.document = run[root].document /\ plain.source = run[root].source
    BY <2>1, MovedFields, MovedKeeps
  <2>5. /\ run' = [run EXCEPT ![root] = closed, ![child] = NewRow(Ingestion, child, "ocr")]
        /\ log' = [log EXCEPT ![root] = Append(@, [from |-> "Parsed", to |-> "Failed"]),
                              ![child] = EventsThrough(Ingestion)]
        /\ ~Exists(child) /\ artifacts' = artifacts
    BY <1>3 DEF AdmitChild
  <2>6. child # root
    BY <2>1, <2>5 DEF Exists
  <2>7. Failure(1, FALSE) \in Failures
    <3>1. 1 \in 0..7 /\ FALSE \in BOOLEAN
      OBVIOUS
    <3> QED
      BY <3>1, FailureTyped
  <2> HIDE DEF plain, closed
  <2>8. CASE q = root
    <3>1. run'[q] = closed /\ log'[q] = Append(log[q], [from |-> "Parsed", to |-> "Failed"])
      BY <2>5, <2>6, <2>8 DEF TypeOK
    <3>2. FailureAfter(q, "Failed", run'[q].failure)
      BY <1>3, <2>3, <2>7, <2>8, <3>1 DEF FailureAfter
    <3>3. Exists(q) /\ WorkEdge(q, "Failed")
      BY <2>1, <2>5, <2>8 DEF Exists, WorkEdge, Stops
    <3>4. /\ run'[q].state = "Failed" /\ run'[q].version = run[q].version + 1
          /\ run'[q].document = run[q].document /\ run'[q].source = run[q].source
      BY <2>3, <2>4, <2>8, <3>1
    <3>5. log'[q] = Append(log[q], [from |-> run[q].state, to |-> "Failed"])
      BY <2>1, <2>8, <3>1
    <3> QED
      BY <2>1, <3>2, <3>3, <3>4, <3>5 DEF WorkStep, WorkMoved
  <2>9. CASE q = child
    <3>1. /\ run'[q] = NewRow(Ingestion, q, "ocr") /\ log'[q] = EventsThrough(Ingestion)
          /\ artifacts'[q] = artifacts[q]
      BY <2>5, <2>9 DEF TypeOK
    <3>2. Ingestion \in Births /\ Ingestion[Len(Ingestion)] # "Parsed" /\ "ocr" \in Sources
      BY BirthsTyped DEF Births, Ingestion, Sources
    <3> QED
      BY <2>5, <2>9, <3>1, <3>2 DEF WorkStep, WorkBorn
  <2>10. CASE q \notin {root, child}
    BY <2>5, <2>10 DEF WorkStep, WorkKept, TypeOK
  <2> QED
    BY <2>8, <2>9, <2>10
<1>4. CASE MarkHandoffCompleted(root)
  BY <1>4 DEF MarkHandoffCompleted, WorkStep, WorkKept
<1>5. CASE \E i \in Stages : RewindChild(root, i)
  <2> PICK i \in Stages : RewindChild(root, i)
    BY <1>5
  <2>1. Checkpoint(i-1) \in RunStates /\ Checkpoint(i-1) # "Failed"
    BY StagesInRange, TableTyped, TableValues DEF Checkpoints, Terminal
  <2>2. WorkEdge(root, Checkpoint(i-1)) /\ artifacts' = artifacts
    BY DEF RewindChild, CanMove, WorkEdge, Rewinds
  <2> QED
    BY <2>1, <2>2, PlainMoveWorks DEF RewindChild
<1> QED
  BY <1>1, <1>2, <1>3, <1>4, <1>5 DEF HandoffStep

LEMMA ReconcileWorks ==
  ASSUME TypeOK, Reconcile, NEW q \in Runs
  PROVE  WorkStep(q)
<1> DEFINE s == run[q].state
           row == Reconciled(run[q])
           f == Failure(StageOf(s), TRUE)
<1>1. CASE ~Interrupted(q)
  BY <1>1 DEF Reconcile, WorkStep, WorkKept
<1>2. CASE Interrupted(q)
  <2>1. run[q] \in Rows /\ CanReconcile(run[q]) /\ artifacts' = artifacts
    BY <1>2 DEF Reconcile, TypeOK
  <2>2. {"Failed", "Cancelled"} \subseteq RunStates /\ f \in Failures
    BY StageOfTyped, FailureTyped DEF RunStates, Terminal
  <2>3. Moved(run[q], "Failed") \in Rows
    BY <2>1, <2>2, MovedTyped DEF CanReconcile
  <2>4. s \in ActiveStates \cup {"Cancelling"}
    BY <1>2 DEF Interrupted
  <2>5. Exists(q) /\ s # "Parsed"
    <3>1. "Parsed" \in Checkpoints
      BY DEF Checkpoints, Checkpoint
    <3> QED
      BY <2>4, <3>1, TableValues DEF Exists
  <2>6. /\ row.state = IF s = "Cancelling" THEN "Cancelled" ELSE "Failed"
        /\ row.version = run[q].version + 1
        /\ row.document = run[q].document /\ row.source = run[q].source
        /\ row.failure = IF s = "Cancelling" THEN run[q].failure ELSE f
    <3>1. row = IF s = "Cancelling" THEN Moved(run[q], "Cancelled")
                                    ELSE [Moved(run[q], "Failed") EXCEPT !.failure = f]
      BY DEF Reconciled
    <3> HIDE DEF row, f
    <3>2. CASE s = "Cancelling"
      BY <2>1, <3>1, <3>2, MovedFields, MovedKeeps
    <3>3. CASE s # "Cancelling"
      BY <2>1, <2>3, <3>1, <3>3, MovedFields, MovedKeeps, FailedFields, FailedKeeps
    <3> QED
      BY <3>2, <3>3
  <2>7. FailureAfter(q, row.state, row.failure)
    BY <2>2, <2>5, <2>6 DEF FailureAfter
  <2>8. WorkEdge(q, row.state) /\ row.state \in RunStates
    BY <2>1, <2>2, <2>6 DEF WorkEdge, Stops
  <2>9. run'[q] = row /\ log'[q] = Append(log[q], [from |-> s, to |-> row.state])
    BY <1>2 DEF Reconcile
  <2> HIDE DEF row
  <2> QED
    BY <2>5, <2>6, <2>7, <2>8, <2>9 DEF WorkStep, WorkMoved
<1> QED
  BY <1>1, <1>2

\* The whole case distinction.
LEMMA NextWorks ==
  ASSUME TypeOK, [Next]_vars, NEW q \in Runs
  PROVE  WorkStep(q)
<1>1. CASE \E r \in Runs : Admission(r) \/ Stage(r) \/ Interruption(r) \/ HandoffStep(r)
  BY <1>1, AdmissionWorks, StageWorks, InterruptionWorks, HandoffWorks
<1>2. CASE Reconcile
  BY <1>2, ReconcileWorks
<1>3. CASE UNCHANGED vars
  BY <1>3 DEF vars, WorkStep, WorkKept
<1> QED
  BY <1>1, <1>2, <1>3 DEF Next

-----------------------------------------------------------------------------
(* The work of a run.                                                        *)

\* No two stages share a state.
LEMMA TableInjective ==
  \A i, j \in Stages :
    /\ Checkpoint(i-1) = Checkpoint(j-1) => i = j
    /\ ActiveState(i) = ActiveState(j) => i = j
    /\ Checkpoint(i) = Checkpoint(j-1) => i = j-1
    /\ Checkpoint(i) = Checkpoint(j) => i = j
    /\ ActiveState(i) \notin {Checkpoint(j-1), Checkpoint(j), "Verified"}
    /\ Checkpoint(j-1) # "Verified" /\ (Checkpoint(i) = "Verified" => i = 7)
BY DEF Stages, Checkpoint, ActiveState

\* Where a new run stands.
LEMMA BirthStages ==
  \A i \in Stages :
    /\ "Parsed" \in {Checkpoint(i-1), ActiveState(i)} => i = 2
    /\ "Ingested" \in {Checkpoint(i-1), ActiveState(i)} => i = 1
    /\ "Parsing" \in {Checkpoint(i-1), ActiveState(i)} => i = 1
BY DEF Stages, Checkpoint, ActiveState

\* What CheckpointsHoldArtifacts says of a run in state s with the artifacts a.
Vouches(s, a) ==
  /\ \A i \in Stages : s \in {Checkpoint(i-1), ActiveState(i)} => a = 1..(i-1)
  /\ s = "Verified" => a = 1..7
  /\ s \in Successful => a = 1..Summary

\* The states of the stages are not the states a run ends in, or is cancelled in.
LEMMA StageStates ==
  \A i \in Stages : \A s \in {Checkpoint(i-1), ActiveState(i), Checkpoint(i)} :
    s \notin Terminal \cup {"Cancelling", "Absent"}
<1>1. \A i \in Stages :
        {Checkpoint(i-1), ActiveState(i), Checkpoint(i)} \subseteq ActiveStates \cup Checkpoints
  BY StagesInRange DEF ActiveStates, Checkpoints
<1> QED
  BY <1>1, TableValues

LEMMA BornVouched ==
  ASSUME AbsentIsBlank, NEW q \in Runs, WorkBorn(q)
  PROVE  Vouches(run'[q].state, artifacts'[q])
<1>1. PICK states \in Births, d \in Runs \cup {NoRun}, s \in Sources :
        /\ run'[q] = NewRow(states, d, s)
        /\ artifacts'[q] = IF states[Len(states)] = "Parsed" THEN {1} ELSE artifacts[q]
  BY DEF WorkBorn
<1> DEFINE last == states[Len(states)]
<1>2. last \in {"Ingested", "Parsing", "Parsed"} /\ run'[q].state = last
  BY <1>1, BirthStates DEF NewRow
<1>3. artifacts'[q] = IF last = "Parsed" THEN {1} ELSE {}
  BY <1>1 DEF AbsentIsBlank, WorkBorn
<1>4. last # "Verified" /\ last \notin Successful
  BY <1>2 DEF Successful
<1> HIDE DEF last
<1>5. ASSUME NEW i \in Stages, last \in {Checkpoint(i-1), ActiveState(i)}
      PROVE  artifacts'[q] = 1..(i-1)
  <2>1. CASE last = "Parsed"
    BY <1>3, <1>5, <2>1, BirthStages
  <2>2. CASE last # "Parsed"
    BY <1>2, <1>3, <1>5, <2>2, BirthStages
  <2> QED
    BY <2>1, <2>2
<1> QED
  BY <1>2, <1>4, <1>5 DEF Vouches

\* An edge of the pipeline takes a run from vouched artifacts to vouched artifacts.
LEMMA EdgeVouched ==
  ASSUME NEW q \in Runs, NEW to, Vouches(run[q].state, artifacts[q]), WorkEdge(q, to)
  PROVE  Vouches(to, artifacts'[q])
<1>1. CASE Starts(q, to)
  <2>1. PICK i \in Stages : /\ run[q].state = Checkpoint(i-1) /\ to = ActiveState(i)
                            /\ artifacts'[q] = artifacts[q]
    BY <1>1 DEF Starts
  <2>2. artifacts'[q] = 1..(i-1)
    BY <2>1 DEF Vouches
  <2>3. to # "Verified" /\ to \notin Successful
    BY <2>1, TableInjective, StageStates DEF Terminal
  <2>4. \A j \in Stages : to \in {Checkpoint(j-1), ActiveState(j)} => j = i
    BY <2>1, TableInjective
  <2> QED
    BY <2>2, <2>3, <2>4 DEF Vouches
<1>2. CASE Completes(q, to)
  <2>1. PICK i \in Stages : /\ run[q].state = ActiveState(i) /\ to = Checkpoint(i)
                            /\ artifacts'[q] = artifacts[q] \cup {i}
    BY <1>2 DEF Completes
  <2>2. artifacts[q] = 1..(i-1)
    BY <2>1 DEF Vouches
  <2>3. i \in 1..7
    BY DEF Stages
  <2>4. artifacts'[q] = 1..i
    BY <2>1, <2>2, <2>3
  <2>5. to = "Verified" => i = 7
    BY <2>1, TableInjective
  <2>6. to \notin Successful
    BY <2>1, StageStates DEF Terminal
  <2>7. \A j \in Stages : to \in {Checkpoint(j-1), ActiveState(j)} => j - 1 = i
    BY <2>1, TableInjective
  <2> QED
    BY <2>4, <2>5, <2>6, <2>7 DEF Vouches
<1>3. CASE Rewinds(q, to)
  <2>1. PICK i \in Stages : /\ run[q].state = ActiveState(i) /\ to = Checkpoint(i-1)
                            /\ artifacts'[q] = artifacts[q]
    BY <1>3 DEF Rewinds
  <2>2. artifacts'[q] = 1..(i-1)
    BY <2>1 DEF Vouches
  <2>3. to # "Verified" /\ to \notin Successful
    BY <2>1, TableInjective, StageStates DEF Terminal
  <2>4. \A j \in Stages : to \in {Checkpoint(j-1), ActiveState(j)} => j = i
    BY <2>1, TableInjective
  <2> QED
    BY <2>2, <2>3, <2>4 DEF Vouches
<1>4. CASE Succeeds(q, to)
  <2>1. artifacts'[q] = 1..Summary
    BY <1>4 DEF Succeeds, Vouches, Summary
  <2>2. to \in Successful /\ to # "Verified"
    BY <1>4 DEF Succeeds, Successful
  <2>3. \A i \in Stages : to \notin {Checkpoint(i-1), ActiveState(i)}
    BY <2>2, StageStates DEF Terminal
  <2> QED
    BY <2>1, <2>2, <2>3 DEF Vouches
<1>5. CASE Stops(q, to)
  <2>1. to # "Verified" /\ to \notin Successful
    BY <1>5 DEF Stops, Successful
  <2>2. \A i \in Stages : to \notin {Checkpoint(i-1), ActiveState(i)}
    BY <1>5, StageStates DEF Stops, Terminal
  <2> QED
    BY <2>1, <2>2 DEF Vouches
<1> QED
  BY <1>1, <1>2, <1>3, <1>4, <1>5 DEF WorkEdge

LEMMA VouchesForAll ==
  CheckpointsHoldArtifacts <=> \A r \in Runs : Vouches(run[r].state, artifacts[r])
BY DEF CheckpointsHoldArtifacts, Vouches, Stages

\* However transactions of whatever threads interleave, a run that rests at a checkpoint, or is
\* being worked on from one, has exactly the artifacts of the stages before it, so that
\* continuation_checkpoint and the OCR rewind may resume from the state alone.
THEOREM CheckpointsVouch == Spec => []CheckpointsHoldArtifacts
<1>1. Init => CheckpointsHoldArtifacts
  <2> SUFFICES ASSUME Init, NEW r \in Runs PROVE Vouches(run[r].state, artifacts[r])
    BY VouchesForAll
  <2>1. run[r].state = "Absent"
    BY DEF Init, NoRow
  <2>2. \A i \in Stages : "Absent" \notin {Checkpoint(i-1), ActiveState(i)}
    BY StageStates
  <2> QED
    BY <2>1, <2>2 DEF Vouches, Successful
<1>2. ASSUME TypeOK, AbsentIsBlank, CheckpointsHoldArtifacts, [Next]_vars
      PROVE  CheckpointsHoldArtifacts'
  <2> SUFFICES ASSUME NEW q \in Runs PROVE Vouches(run[q].state, artifacts[q])'
    BY DEF CheckpointsHoldArtifacts, Vouches, Stages
  <2>1. Vouches(run[q].state, artifacts[q])
    BY <1>2, VouchesForAll
  <2>2. CASE WorkKept(q)
    BY <2>1, <2>2 DEF WorkKept, Vouches
  <2>3. CASE WorkBorn(q)
    BY <1>2, <2>3, BornVouched DEF Vouches
  <2>4. CASE WorkMoved(q)
    <3>1. PICK to \in RunStates : run'[q].state = to /\ WorkEdge(q, to)
      BY <2>4 DEF WorkMoved
    <3>2. Vouches(to, artifacts'[q])
      BY <2>1, <3>1, EdgeVouched
    <3> QED
      BY <3>1, <3>2 DEF Vouches
  <2> QED
    BY <1>2, <2>2, <2>3, <2>4, NextWorks DEF WorkStep
<1> QED
  BY <1>1, <1>2, TypeCorrect, AbsentStaysBlank, PTL DEF Spec

\* What StageCompletesOnce says of one stage of one run.
Once(r, i) ==
  /\ i \in artifacts[r] <=> Completions(r, i) # {}
  /\ \A n, m \in Completions(r, i) : n = m

\* The event that completes stage i.
Completion(i) == [from |-> ActiveState(i), to |-> Checkpoint(i)]

LEMMA CompletionsKept ==
  ASSUME NEW r, NEW i, log'[r] = log[r]
  PROVE  Completions(r, i)' = Completions(r, i)
BY DEF Completions

\* One more event completes the stage, or leaves its completions as they are.
LEMMA CompletionsAfter ==
  ASSUME TypeOK, NEW r \in Runs, NEW i, NEW e, log'[r] = Append(log[r], e)
  PROVE  Completions(r, i)' = Completions(r, i)
                                \cup (IF e = Completion(i) THEN {Len(log[r]) + 1} ELSE {})
<1>1. log[r] \in Seq(Events) /\ Len(log[r]) \in Nat
  BY DEF TypeOK
<1>2. /\ Len(log'[r]) = Len(log[r]) + 1
      /\ log'[r][Len(log[r]) + 1] = e
      /\ \A n \in 1..Len(log[r]) : log'[r][n] = log[r][n]
  BY <1>1
<1>3. \A n : n \in 1..(Len(log[r]) + 1) <=> n \in 1..Len(log[r]) \/ n = Len(log[r]) + 1
  BY <1>1
<1>4. Completions(r, i)' = {n \in 1..Len(log'[r]) : log'[r][n] = Completion(i)}
  BY DEF Completions, Completion
<1>5. Completions(r, i) = {n \in 1..Len(log[r]) : log[r][n] = Completion(i)}
  BY DEF Completions, Completion
<1> QED
  BY <1>2, <1>3, <1>4, <1>5

\* Of the edges of a run's work only the completion of stage i is a completion of stage i.
LEMMA CompletionEdges ==
  ASSUME NEW q \in Runs, NEW to, WorkEdge(q, to), NEW i \in Stages
  PROVE  LET e == [from |-> run[q].state, to |-> to] IN
         \/ e = Completion(i) /\ i \notin artifacts[q] /\ artifacts'[q] = artifacts[q] \cup {i}
         \/ e # Completion(i) /\ (i \in artifacts'[q] <=> i \in artifacts[q])
<1> DEFINE e == [from |-> run[q].state, to |-> to]
<1>0. e = Completion(i) <=> run[q].state = ActiveState(i) /\ to = Checkpoint(i)
  BY DEF Completion
<1>1. CASE Starts(q, to)
  BY <1>0, <1>1, TableInjective DEF Starts
<1>2. CASE Completes(q, to)
  <2>1. PICK j \in Stages : /\ run[q].state = ActiveState(j) /\ to = Checkpoint(j)
                            /\ j \notin artifacts[q] /\ artifacts'[q] = artifacts[q] \cup {j}
    BY <1>2 DEF Completes
  <2>2. i # j => ActiveState(i) # ActiveState(j)
    BY TableInjective
  <2> QED
    BY <1>0, <2>1, <2>2
<1>3. CASE Rewinds(q, to)
  <2>1. PICK j \in Stages : /\ run[q].state = ActiveState(j) /\ to = Checkpoint(j-1)
                            /\ artifacts'[q] = artifacts[q]
    BY <1>3 DEF Rewinds
  <2>2. ActiveState(i) = ActiveState(j) => i = j
    BY TableInjective
  <2>3. Checkpoint(j) # Checkpoint(j-1)
    BY TableInjective DEF Stages
  <2> QED
    BY <1>0, <2>1, <2>2, <2>3
<1>4. CASE Succeeds(q, to)
  <2>1. to # Checkpoint(i)
    BY <1>4, StageStates DEF Succeeds, Terminal
  <2>2. Summary # i
    BY DEF Stages, Summary
  <2> QED
    BY <1>0, <1>4, <2>1, <2>2 DEF Succeeds
<1>5. CASE Stops(q, to)
  <2>1. to # Checkpoint(i)
    BY <1>5, StageStates DEF Stops, Terminal
  <2> QED
    BY <1>0, <1>5, <2>1 DEF Stops
<1> QED
  BY <1>1, <1>2, <1>3, <1>4, <1>5 DEF WorkEdge

\* The events a run is born with complete the first stage, if it is born PARSED, and no other.
LEMMA BornOnce ==
  ASSUME AbsentIsBlank, NEW q \in Runs, WorkBorn(q), NEW i \in Stages
  PROVE  Once(q, i)'
<1>1. PICK states \in Births :
        /\ log'[q] = EventsThrough(states)
        /\ artifacts'[q] = IF states[Len(states)] = "Parsed" THEN {1} ELSE artifacts[q]
  BY DEF WorkBorn
<1>2. artifacts[q] = {}
  BY DEF AbsentIsBlank, WorkBorn
<1> DEFINE len == Len(states)
           through == EventsThrough(states)
<1>3. len \in 3..5 /\ Len(through) = len
  BY BirthStates DEF EventsThrough
<1>4. \A n \in 1..len : /\ through[n].from = IF n = 1 THEN "Absent" ELSE states[n-1]
                        /\ through[n].to = states[n]
                        /\ through[n] = [from |-> through[n].from, to |-> through[n].to]
  <2> TAKE n \in 1..len
  <2> DEFINE before == IF n = 1 THEN "Absent" ELSE states[n-1]
  <2>1. through[n] = [from |-> before, to |-> states[n]]
    BY DEF EventsThrough
  <2> HIDE DEF before, through
  <2> QED
    BY <2>1 DEF before
<1>5. Completions(q, i)' = {n \in 1..len : through[n].from = ActiveState(i) /\ through[n].to = Checkpoint(i)}
  <2>1. Completions(q, i)' = {n \in 1..len : through[n] = [from |-> ActiveState(i), to |-> Checkpoint(i)]}
    BY <1>1, <1>3 DEF Completions
  <2> HIDE DEF through, len
  <2> QED
    BY <1>4, <2>1
<1>6. \A n \in 1..len : n # 5 => states[n] # Checkpoint(i)
  <2>1. states[1] = "Received" /\ states[2] = "Ingesting" /\ states[3] = "Ingested"
    BY DEF Births, Ingestion
  <2>2. len >= 4 => states[4] = "Parsing"
    BY BirthsTyped DEF Births, Ingestion
  <2>3. Checkpoint(i) \notin {"Received", "Ingesting", "Ingested", "Parsing"}
    BY DEF Stages, Checkpoint
  <2> QED
    BY <1>3, <2>1, <2>2, <2>3
<1>7. CASE len = 5
  <2>1. states = Ingestion \o <<"Parsing", "Parsed">>
    <3>1. states = Ingestion => Len(states) = 3
      BY BirthsTyped
    <3>2. states = Append(Ingestion, "Parsing") => Len(states) = 4
      BY BirthsTyped
    <3>3. states # Ingestion /\ states # Append(Ingestion, "Parsing")
      BY <1>7, <3>1, <3>2
    <3> QED
      BY <3>3 DEF Births
  <2>2. states[4] = "Parsing" /\ states[5] = "Parsed"
    BY <2>1 DEF Ingestion
  <2>3. through[5].from = "Parsing" /\ through[5].to = "Parsed"
    BY <1>4, <1>7, <2>2
  <2>4. ("Parsing" = ActiveState(i) /\ "Parsed" = Checkpoint(i)) <=> i = 1
    BY DEF Stages, Checkpoint, ActiveState
  <2> HIDE DEF through
  <2>5. Completions(q, i)' = IF i = 1 THEN {5} ELSE {}
    BY <1>4, <1>5, <1>6, <1>7, <2>3, <2>4
  <2>6. artifacts'[q] = {1}
    BY <1>1, <1>7, <2>2
  <2> QED
    BY <2>5, <2>6 DEF Once
<1>8. CASE len # 5
  <2>1. states[len] # "Parsed"
    <3>1. states # Ingestion \o <<"Parsing", "Parsed">>
      BY <1>8, BirthsTyped
    <3>2. states = Ingestion \/ states = Append(Ingestion, "Parsing")
      BY <3>1 DEF Births
    <3> QED
      BY <3>2, BirthsTyped DEF Ingestion
  <2> HIDE DEF through, len
  <2>2. \A n \in 1..len : n # 5 /\ through[n].to # Checkpoint(i)
    BY <1>3, <1>4, <1>6, <1>8
  <2>3. Completions(q, i)' = {}
    BY <1>5, <2>2
  <2>4. artifacts'[q] = {}
    BY <1>1, <1>2, <2>1 DEF len
  <2> QED
    BY <2>3, <2>4 DEF Once
<1> QED
  BY <1>7, <1>8

LEMMA OnceForAll == StageCompletesOnce <=> \A r \in Runs, i \in Stages : Once(r, i)
BY DEF StageCompletesOnce, Once

\* Whatever is rewound, retried, cancelled or interrupted, a stage is completed at most once in
\* the life of a run, and its artifact is there exactly when an event says that it was.
THEOREM StagesCompleteOnce == Spec => []StageCompletesOnce
<1>1. Init => StageCompletesOnce
  <2> SUFFICES ASSUME Init, NEW r \in Runs, NEW i \in Stages PROVE Once(r, i)
    BY OnceForAll
  <2>1. log[r] = <<>> /\ artifacts[r] = {}
    BY DEF Init
  <2> QED
    BY <2>1 DEF Once, Completions
<1>2. ASSUME TypeOK, AbsentIsBlank, StageCompletesOnce, [Next]_vars
      PROVE  StageCompletesOnce'
  <2> SUFFICES ASSUME NEW q \in Runs, NEW i \in Stages PROVE Once(q, i)'
    BY DEF StageCompletesOnce, Once
  <2>1. Once(q, i)
    BY <1>2, OnceForAll
  <2>2. CASE WorkKept(q)
    BY <2>1, <2>2, CompletionsKept DEF WorkKept, Once
  <2>3. CASE WorkBorn(q)
    BY <1>2, <2>3, BornOnce
  <2>4. CASE WorkMoved(q)
    <3>1. PICK to \in RunStates :
            /\ log'[q] = Append(log[q], [from |-> run[q].state, to |-> to])
            /\ WorkEdge(q, to)
      BY <2>4 DEF WorkMoved
    <3> DEFINE e == [from |-> run[q].state, to |-> to]
    <3>2. Completions(q, i)' = Completions(q, i)
                                 \cup (IF e = Completion(i) THEN {Len(log[q]) + 1} ELSE {})
      BY <1>2, <3>1, CompletionsAfter
    <3>3. \/ e = Completion(i) /\ i \notin artifacts[q] /\ artifacts'[q] = artifacts[q] \cup {i}
          \/ e # Completion(i) /\ (i \in artifacts'[q] <=> i \in artifacts[q])
      BY <3>1, CompletionEdges
    <3> HIDE DEF e
    <3>4. CASE e = Completion(i)
      <4>1. Completions(q, i)' = {Len(log[q]) + 1}
        BY <2>1, <3>2, <3>3, <3>4 DEF Once
      <4> QED
        BY <3>3, <3>4, <4>1 DEF Once
    <3>5. CASE e # Completion(i)
      BY <2>1, <3>2, <3>3, <3>5 DEF Once
    <3> QED
      BY <3>4, <3>5
  <2> QED
    BY <1>2, <2>2, <2>3, <2>4, NextWorks DEF WorkStep
<1> QED
  BY <1>1, <1>2, TypeCorrect, AbsentStaysBlank, PTL DEF Spec

-----------------------------------------------------------------------------
(* What a step does to the relations between runs.                           *)

\* A run that is there stays, keeps its document and its artifacts, and its version grows.
LEMMA RunGoesOn ==
  ASSUME TypeOK, [Next]_vars, NEW q \in Runs, Exists(q)
  PROVE  /\ Exists(q)' /\ run'[q].document = run[q].document
         /\ run'[q].version \in Nat /\ run'[q].version >= run[q].version
         /\ artifacts[q] \subseteq artifacts'[q]
<1>1. Exists(q)'
  BY NextRowStep, RunsStay
<1>2. run[q].version \in Nat
  BY DEF TypeOK, Rows
<1>3. CASE WorkKept(q)
  BY <1>1, <1>2, <1>3 DEF WorkKept
<1>4. CASE WorkMoved(q)
  <2>1. PICK to \in RunStates : /\ run'[q].version = run[q].version + 1
                                /\ run'[q].document = run[q].document
                                /\ WorkEdge(q, to)
    BY <1>4 DEF WorkMoved
  <2>2. artifacts[q] \subseteq artifacts'[q]
    BY <2>1 DEF WorkEdge, Starts, Completes, Rewinds, Succeeds, Stops
  <2> QED
    BY <1>1, <1>2, <2>1, <2>2
<1> QED
  BY <1>3, <1>4, NextWorks DEF WorkStep, WorkBorn

\* Nothing is written to a row in a terminal state.
LEMMA TerminalStays ==
  ASSUME TypeOK, [Next]_vars, NEW q \in Runs, run[q].state \in Terminal
  PROVE  run'[q] = run[q]
<1>1. ~RowMoved(q)
  BY DEF RowMoved, ValidTransition
<1>2. ~RowBorn(q)
  BY DEF RowBorn, Exists, Terminal, Successful
<1> QED
  BY <1>1, <1>2, NextRowStep DEF RowStep, RowKept

\* Retries, corrections and handoffs are each written by the transactions that say so.
LEMMA RelationsWritten ==
  ASSUME TypeOK, [Next]_vars, NEW q \in Runs
  PROVE  /\ \/ retryOf'[q] = retryOf[q]
            \/ \E s \in Runs : CreateRetry(s, run[s].version, q)
         /\ \/ correctionOf'[q] = correctionOf[q]
            \/ \E s \in Runs : SaveCorrection(s, run[s].version, q)
         /\ \/ handoff'[q] = handoff[q]
            \/ \E child \in Runs \ {q} : PrepareHandoff(q, child)
            \/ \E edge \in HandoffEdges : MoveHandoff(q, edge[1], edge[2])
            \/ AdmitChild(q)
            \/ MarkHandoffCompleted(q)
<1> DEFINE Written == 
        /\ \/ retryOf'[q] = retryOf[q]
           \/ \E s \in Runs : CreateRetry(s, run[s].version, q)
        /\ \/ correctionOf'[q] = correctionOf[q]
           \/ \E s \in Runs : SaveCorrection(s, run[s].version, q)
        /\ \/ handoff'[q] = handoff[q]
           \/ \E child \in Runs \ {q} : PrepareHandoff(q, child)
           \/ \E edge \in HandoffEdges : MoveHandoff(q, edge[1], edge[2])
           \/ AdmitChild(q)
           \/ MarkHandoffCompleted(q)
<1>1. ASSUME NEW r \in Runs, Admission(r) PROVE Written
  <2>1. CASE \E s \in {"native", "scanned"}, p \in Profiles \cup {NoProfile} : Ingest(r, s, p)
    BY <2>1 DEF Ingest
  <2>2. CASE \E s \in Runs : CreateRetry(s, run[s].version, r)
    <3>1. PICK s \in Runs : CreateRetry(s, run[s].version, r)
      BY <2>2
    <3>2. retryOf' = [retryOf EXCEPT ![r] = s] /\ UNCHANGED <<correctionOf, handoff>>
      BY <3>1 DEF CreateRetry
    <3>3. q # r => retryOf'[q] = retryOf[q]
      BY <3>2 DEF TypeOK
    <3> QED
      BY <3>1, <3>2, <3>3
  <2>3. CASE \E s \in Runs : SaveCorrection(s, run[s].version, r)
    <3>1. PICK s \in Runs : SaveCorrection(s, run[s].version, r)
      BY <2>3
    <3>2. correctionOf' = [correctionOf EXCEPT ![r] = s] /\ UNCHANGED <<retryOf, handoff>>
      BY <3>1 DEF SaveCorrection
    <3>3. q # r => correctionOf'[q] = correctionOf[q]
      BY <3>2 DEF TypeOK
    <3> QED
      BY <3>1, <3>2, <3>3
  <2>4. CASE \E p \in Profiles : PinProfile(r, p)
    BY <2>4 DEF PinProfile
  <2> QED
    BY <1>1, <2>1, <2>2, <2>3, <2>4 DEF Admission
<1>2. ASSUME NEW r \in Runs, Stage(r) PROVE Written
  BY <1>2 DEF Stage, StartStage, CompleteStage, FailStage, RecordVerificationAttempt,
     CompleteSummary, FailSummary
<1>3. ASSUME NEW r \in Runs, Interruption(r) PROVE Written
  BY <1>3 DEF Interruption, RequestCancellation, CompleteCancellation, FailBackground
<1>4. ASSUME NEW r \in Runs, HandoffStep(r) PROVE Written
  <2>1. CASE q = r
    BY <1>4, <2>1 DEF HandoffStep, PrepareHandoff, MoveHandoff, AdmitChild, MarkHandoffCompleted,
       RewindChild
  <2>2. CASE q # r
    BY <1>4, <2>2 DEF HandoffStep, PrepareHandoff, MoveHandoff, AdmitChild, MarkHandoffCompleted,
       RewindChild, TypeOK
  <2> QED
    BY <2>1, <2>2
<1>5. CASE Reconcile
  BY <1>5 DEF Reconcile
<1>6. CASE UNCHANGED vars
  BY <1>6 DEF vars
<1> QED
  BY <1>1, <1>2, <1>3, <1>4, <1>5, <1>6 DEF Next

\* A profile, once pinned to a run that is there, is never exchanged; and a run comes to be
\* under an id nobody was promised, or as the child its root was promised.
LEMMA ProfilesAndBirths ==
  ASSUME TypeOK, [Next]_vars, NEW q \in Runs
  PROVE  /\ Exists(q) /\ profile[q] # NoProfile => profile'[q] = profile[q]
         /\ ~Exists(q) /\ Exists(q)' =>
              Fresh(q) \/ \E root \in Runs : AdmitChild(root) /\ handoff[root].child = q
<1> DEFINE Rule == 
        /\ Exists(q) /\ profile[q] # NoProfile => profile'[q] = profile[q]
        /\ ~Exists(q) /\ Exists(q)' =>
              Fresh(q) \/ \E root \in Runs : AdmitChild(root) /\ handoff[root].child = q
<1>1. ASSUME NEW r \in Runs, Admission(r) PROVE Rule
  <2>1. CASE Fresh(r)
    <3>1. \A p \in Runs \ {r} : profile'[p] = profile[p] /\ run'[p] = run[p]
      BY <1>1, <2>1 DEF Admission, Ingest, CreateRetry, SaveCorrection, PinProfile, TypeOK, Fresh
    <3> QED
      BY <2>1, <3>1 DEF Fresh, Exists
  <2>2. CASE ~Fresh(r)
    <3>1. PICK p \in Profiles : PinProfile(r, p)
      BY <1>1, <2>2 DEF Admission, Ingest, CreateRetry, SaveCorrection
    <3> QED
      BY <3>1 DEF PinProfile, TypeOK, Exists
  <2> QED
    BY <2>1, <2>2
<1>2. ASSUME NEW r \in Runs, Stage(r) PROVE Rule
  <2>1. profile' = profile /\ Exists(r)
    BY <1>2 DEF Stage, StartStage, CompleteStage, FailStage, RecordVerificationAttempt,
       CompleteSummary, FailSummary, CanMove, ValidTransition, Exists
  <2>2. \A p \in Runs \ {r} : run'[p] = run[p]
    BY <1>2 DEF Stage, StartStage, CompleteStage, FailStage, RecordVerificationAttempt,
       CompleteSummary, FailSummary, Persist, TypeOK
  <2> QED
    BY <2>1, <2>2 DEF Exists
<1>3. ASSUME NEW r \in Runs, Interruption(r) PROVE Rule
  <2>1. profile' = profile /\ Exists(r)
    BY <1>3 DEF Interruption, RequestCancellation, CompleteCancellation, FailBackground, CanMove,
       ValidTransition, Exists
  <2>2. \A p \in Runs \ {r} : run'[p] = run[p]
    BY <1>3 DEF Interruption, RequestCancellation, CompleteCancellation, FailBackground, Persist,
       TypeOK
  <2> QED
    BY <2>1, <2>2 DEF Exists
<1>4. ASSUME NEW r \in Runs, HandoffStep(r) PROVE Rule
  <2>1. CASE AdmitChild(r)
    <3> DEFINE child == handoff[r].child
    <3>1. ~Exists(child) /\ profile' = [profile EXCEPT ![child] = profile[r]]
      BY <2>1 DEF AdmitChild
    <3>2. Exists(r) /\ \A p \in Runs \ {r, child} : run'[p] = run[p]
      BY <2>1 DEF AdmitChild, CanMove, ValidTransition, Exists, TypeOK
    <3>3. q # child => profile'[q] = profile[q]
      BY <3>1 DEF TypeOK
    <3> QED
      BY <2>1, <3>1, <3>2, <3>3 DEF Exists
  <2>2. CASE \E i \in Stages : RewindChild(r, i)
    <3>1. PICK i \in Stages : RewindChild(r, i)
      BY <2>2
    <3>2. profile' = profile /\ Exists(r) /\ \A p \in Runs \ {r} : run'[p] = run[p]
      BY <3>1 DEF RewindChild, CanMove, ValidTransition, Exists, Persist, TypeOK
    <3> QED
      BY <3>2 DEF Exists
  <2> QED
    BY <1>4, <2>1, <2>2 DEF HandoffStep, PrepareHandoff, MoveHandoff, MarkHandoffCompleted, Exists
<1>5. CASE Reconcile
  <2>1. profile' = profile /\ (~Interrupted(q) => run'[q] = run[q])
    BY <1>5 DEF Reconcile
  <2>2. Interrupted(q) => Exists(q)
    BY TableValues DEF Interrupted, Exists
  <2> QED
    BY <2>1, <2>2 DEF Exists
<1>6. CASE UNCHANGED vars
  BY <1>6 DEF vars, Exists
<1> QED
  BY <1>1, <1>2, <1>3, <1>4, <1>5, <1>6 DEF Next

-----------------------------------------------------------------------------
(* Retries.                                                                  *)

\* What RetryLineage needs to be inductive: a source's profile is pinned, so it stays the one
\* that its retry inherited.
RetriesArePinned == \A r, s \in Runs : retryOf[r] = s => profile[s] # NoProfile

\* However retries, other runs and restarts interleave, a failed run has at most one retry, of its
\* own document under its own profile, and stays the recoverable failure it was.
THEOREM RetriesKeepLineage == Spec => []RetryLineage
<1>1. Init => RetryLineage /\ RetriesArePinned
  BY NoRunAssumption DEF Init, RetryLineage, RetriesArePinned
<1>2. ASSUME TypeOK, RetryLineage, RetriesArePinned, [Next]_vars
      PROVE  (RetryLineage /\ RetriesArePinned)'
  <2> SUFFICES ASSUME NEW r \in Runs, NEW s \in Runs, retryOf'[r] = s
               PROVE  /\ \A q \in Runs : retryOf'[q] = s => q = r
                      /\ run'[s].state = "Failed" /\ \E f \in run'[s].failure : f.recoverable
                      /\ Exists(r)' /\ run'[r].document = run'[s].document
                      /\ profile'[r] = profile'[s]
                      /\ run'[r].version > 3 /\ profile'[s] # NoProfile
    BY DEF RetryLineage, RetriesArePinned
  <2>1. CASE retryOf[r] = s
    <3>1. /\ \A q \in Runs : retryOf[q] = s => q = r
          /\ run[s].state = "Failed" /\ \E f \in run[s].failure : f.recoverable
          /\ Exists(r) /\ run[r].document = run[s].document /\ profile[r] = profile[s]
          /\ run[r].version > 3 /\ profile[s] # NoProfile
      BY <1>2, <2>1 DEF RetryLineage, RetriesArePinned
    <3>2. run'[s] = run[s] /\ Exists(s)
      BY <1>2, <3>1, TerminalStays DEF Terminal, Exists
    <3>3. profile'[s] = profile[s] /\ profile'[r] = profile[r]
      BY <1>2, <3>1, <3>2, ProfilesAndBirths
    <3>4. /\ Exists(r)' /\ run'[r].document = run[r].document
          /\ run'[r].version \in Nat /\ run'[r].version >= run[r].version
      BY <1>2, <3>1, RunGoesOn
    <3>5. run'[r].version > 3
      <4>1. run[r].version \in Nat
        BY <1>2 DEF TypeOK, Rows
      <4> QED
        BY <3>1, <3>4, <4>1
    <3>6. ASSUME NEW q \in Runs, retryOf'[q] = s PROVE q = r
      <4>1. retryOf[q] = s \/ CreateRetry(s, run[s].version, q)
        <5>1. CASE retryOf'[q] = retryOf[q]
          BY <3>6, <5>1
        <5>2. CASE \E src \in Runs : CreateRetry(src, run[src].version, q)
          BY <1>2, <3>6, <5>2 DEF CreateRetry, TypeOK
        <5> QED
          BY <1>2, <5>1, <5>2, RelationsWritten
      <4>2. ~CreateRetry(s, run[s].version, q)
        BY <2>1 DEF CreateRetry, Retryable
      <4> QED
        BY <3>1, <4>1, <4>2
    <3> QED
      BY <3>1, <3>2, <3>3, <3>4, <3>5, <3>6
  <2>2. CASE retryOf[r] # s
    <3>1. PICK src \in Runs : CreateRetry(src, run[src].version, r)
      BY <1>2, <2>2, RelationsWritten
    <3> DEFINE states == Append(Ingestion, "Parsing")
    <3>2. /\ Retryable(src, run[src].version) /\ ~Exists(r)
          /\ run' = [run EXCEPT ![r] = NewRow(states, run[src].document, run[src].source)]
          /\ profile' = [profile EXCEPT ![r] = profile[src]]
          /\ retryOf' = [retryOf EXCEPT ![r] = src]
      BY <3>1 DEF CreateRetry, Fresh
    <3>3. src = s
      BY <1>2, <3>2 DEF TypeOK
    <3>4. run[s].state = "Failed" /\ profile[s] # NoProfile
          /\ (\E f \in run[s].failure : f.recoverable) /\ \A q \in Runs : retryOf[q] # s
      BY <3>2, <3>3 DEF Retryable
    <3>5. r # s
      BY <3>2, <3>4 DEF Exists
    <3>6. run'[s] = run[s] /\ run'[r] = NewRow(states, run[s].document, run[s].source)
      BY <1>2, <3>2, <3>3, <3>5 DEF TypeOK
    <3>7. Len(states) = 4 /\ states[4] = "Parsing"
      BY BirthsTyped DEF Ingestion
    <3> HIDE DEF states
    <3>8. run'[r].document = run[s].document /\ run'[r].version = 4 /\ run'[r].state = "Parsing"
      BY <3>6, <3>7 DEF NewRow
    <3>9. profile'[r] = profile[s] /\ profile'[s] = profile[s]
      BY <1>2, <3>2, <3>3, <3>5 DEF TypeOK
    <3>10. \A q \in Runs : retryOf'[q] = s => q = r
      BY <1>2, <3>2, <3>4 DEF TypeOK
    <3> QED
      BY <3>4, <3>6, <3>8, <3>9, <3>10 DEF Exists
  <2> QED
    BY <2>1, <2>2
<1> QED
  BY <1>1, <1>2, TypeCorrect, PTL DEF Spec

-----------------------------------------------------------------------------
(* Corrections.                                                              *)

\* What OneCorrectionPerDocument needs to be inductive: a correction and its source are both
\* there, and the correction has its text, so that no stage before the second is open to it.
CorrectionsHaveText ==
  \A c \in Runs : correctionOf[c] # NoRun =>
    Exists(c) /\ Exists(correctionOf[c]) /\ 1 \in artifacts[c]

\* A run that has its text is not parsed again.
LEMMA TextIsNotParsedAgain ==
  ASSUME NEW q \in Runs, NEW to, Vouches(run[q].state, artifacts[q]), WorkEdge(q, to),
         1 \in artifacts[q]
  PROVE  to # "Parsing"
<1> SUFFICES ASSUME to = "Parsing" PROVE FALSE
  OBVIOUS
<1>1. /\ \A i \in Stages : ActiveState(i) = "Parsing" => i = 1
      /\ \A i \in Stages : Checkpoint(i) # "Parsing" /\ Checkpoint(i-1) # "Parsing"
      /\ 1 \in Stages
  BY DEF Stages, ActiveState, Checkpoint
<1>2. run[q].state = Checkpoint(0)
  BY <1>1 DEF WorkEdge, Starts, Completes, Rewinds, Succeeds, Stops, Successful
<1>3. artifacts[q] = 1..(1-1)
  BY <1>1, <1>2 DEF Vouches
<1> QED
  BY <1>3

\* Whoever corrects whatever and whenever, a document's text is corrected at most once, by a run
\* over a document of its own that has that text and is never parsed again.
THEOREM DocumentsAreCorrectedOnce == Spec => []OneCorrectionPerDocument
<1> DEFINE Corrected(c) ==
      correctionOf[c] # NoRun =>
        /\ run[c].document = c /\ c # correctionOf[c]
        /\ \A n \in 6..Len(log[c]) : log[c][n].to # "Parsing"
        /\ Exists(c) /\ Exists(correctionOf[c]) /\ 1 \in artifacts[c]
           Apart(c, d) ==
      (/\ correctionOf[c] # NoRun /\ correctionOf[d] # NoRun
       /\ run[correctionOf[d]].document = run[correctionOf[c]].document) => d = c
<1>1. Init => OneCorrectionPerDocument /\ CorrectionsHaveText
  BY DEF Init, OneCorrectionPerDocument, CorrectionsHaveText
<1>2. ASSUME TypeOK, LogExplainsRun, CheckpointsHoldArtifacts, OneCorrectionPerDocument,
             CorrectionsHaveText, [Next]_vars
      PROVE  (OneCorrectionPerDocument /\ CorrectionsHaveText)'
  <2>1. \A c, d \in Runs : Corrected(c) /\ Apart(c, d)
    BY <1>2 DEF OneCorrectionPerDocument, CorrectionsHaveText
  <2>2. \A c \in Runs : correctionOf[c] # NoRun => correctionOf[c] \in Runs
    BY <1>2 DEF TypeOK
  <2>3. \A c \in Runs :
          \/ correctionOf'[c] = correctionOf[c]
          \/ \E s \in Runs : SaveCorrection(s, run[s].version, c)
    BY <1>2, RelationsWritten
  <2>4. ASSUME NEW c \in Runs, NEW s \in Runs, SaveCorrection(s, run[s].version, c)
        PROVE  /\ correctionOf' = [correctionOf EXCEPT ![c] = s] /\ correctionOf'[c] = s
               /\ ~Exists(c) /\ Exists(s) /\ NotCorrected(run[s].document)
               /\ run'[c].document = c /\ Len(log'[c]) = 5 /\ Exists(c)' /\ artifacts'[c] = {1}
    <3> DEFINE states == Ingestion \o <<"Parsing", "Parsed">>
    <3>1. /\ correctionOf' = [correctionOf EXCEPT ![c] = s]
          /\ ~Exists(c) /\ NotCorrected(run[s].document)
          /\ run[s].state \in Successful \cup {"Failed", "Parsed"}
          /\ run' = [run EXCEPT ![c] = NewRow(states, c, "ocr")]
          /\ log' = [log EXCEPT ![c] = EventsThrough(states)]
          /\ artifacts' = [artifacts EXCEPT ![c] = {1}]
      BY <2>4 DEF SaveCorrection, Fresh
    <3>2. correctionOf'[c] = s /\ artifacts'[c] = {1} /\ run'[c] = NewRow(states, c, "ocr")
          /\ log'[c] = EventsThrough(states)
      BY <1>2, <3>1 DEF TypeOK
    <3>3. Len(states) = 5 /\ states[5] = "Parsed"
      BY BirthsTyped DEF Ingestion
    <3> HIDE DEF states
    <3>4. run'[c].document = c /\ run'[c].state = "Parsed" /\ Len(log'[c]) = 5
      BY <3>2, <3>3 DEF NewRow, EventsThrough
    <3> QED
      BY <3>1, <3>2, <3>4 DEF Exists, Successful
  <2>5. ASSUME NEW c \in Runs PROVE Corrected(c)'
    <3>1. CASE correctionOf'[c] = correctionOf[c] /\ correctionOf[c] # NoRun
      <4>1. /\ run[c].document = c /\ c # correctionOf[c] /\ correctionOf[c] \in Runs
            /\ \A n \in 6..Len(log[c]) : log[c][n].to # "Parsing"
            /\ Exists(c) /\ Exists(correctionOf[c]) /\ 1 \in artifacts[c]
        BY <2>1, <2>2, <3>1
      <4>2. run'[c].document = c /\ Exists(c)' /\ 1 \in artifacts'[c]
        BY <1>2, <4>1, RunGoesOn
      <4>3. Exists(correctionOf[c])'
        <5>1. run'[correctionOf[c]].state # "Absent"
          BY <1>2, <4>1, RunGoesOn DEF Exists
        <5> QED
          BY <3>1, <5>1 DEF Exists
      <4>4. \A n \in 6..Len(log'[c]) : log'[c][n].to # "Parsing"
        <5>1. CASE WorkKept(c)
          BY <4>1, <5>1 DEF WorkKept
        <5>2. CASE WorkMoved(c)
          <6>1. PICK to \in RunStates : /\ WorkEdge(c, to)
                                        /\ log'[c] = Append(log[c], [from |-> run[c].state, to |-> to])
            BY <5>2 DEF WorkMoved
          <6>2. to # "Parsing"
            BY <1>2, <4>1, <6>1, TextIsNotParsedAgain, VouchesForAll
          <6>3. log[c] \in Seq(Events) /\ Len(log[c]) \in Nat
            BY <1>2 DEF TypeOK
          <6>4. /\ Len(log'[c]) = Len(log[c]) + 1
                /\ log'[c][Len(log[c]) + 1].to = to
                /\ \A n \in 1..Len(log[c]) : log'[c][n] = log[c][n]
            BY <6>1, <6>3
          <6> QED
            BY <4>1, <6>2, <6>3, <6>4
        <5> QED
          BY <1>2, <4>1, <5>1, <5>2, NextWorks DEF WorkStep, WorkBorn
      <4> QED
        BY <3>1, <4>1, <4>2, <4>3, <4>4 DEF Exists
    <3>2. CASE \E s \in Runs : SaveCorrection(s, run[s].version, c)
      <4>1. PICK s \in Runs : SaveCorrection(s, run[s].version, c)
        BY <3>2
      <4>2. /\ correctionOf'[c] = s /\ ~Exists(c) /\ Exists(s)
            /\ run'[c].document = c /\ Len(log'[c]) = 5 /\ Exists(c)' /\ artifacts'[c] = {1}
        BY <2>4, <4>1
      <4>3. c # s /\ Exists(s)'
        BY <1>2, <4>2, RunGoesOn
      <4> QED
        BY <4>2, <4>3 DEF Exists
    <3>3. CASE correctionOf'[c] = NoRun
      BY <3>3
    <3> QED
      BY <2>3, <3>1, <3>2, <3>3
  <2>6. ASSUME NEW c \in Runs, NEW d \in Runs, c # d, correctionOf'[d] # NoRun,
               NEW s \in Runs, SaveCorrection(s, run[s].version, c)
        PROVE  run'[correctionOf'[d]].document # run'[correctionOf'[c]].document
    <3>1. correctionOf'[c] = s /\ Exists(s) /\ NotCorrected(run[s].document)
          /\ correctionOf' = [correctionOf EXCEPT ![c] = s]
      BY <2>4, <2>6
    <3>2. correctionOf'[d] = correctionOf[d] /\ correctionOf[d] # NoRun
      BY <1>2, <2>6, <3>1 DEF TypeOK
    <3>3. run[correctionOf[d]].document # run[s].document
      BY <3>1, <3>2 DEF NotCorrected
    <3>4. Exists(correctionOf[d]) /\ correctionOf[d] \in Runs
      BY <2>1, <2>2, <3>2
    <3>5. run'[correctionOf[d]].document = run[correctionOf[d]].document
          /\ run'[s].document = run[s].document
      BY <1>2, <3>1, <3>4, RunGoesOn
    <3> QED
      BY <3>1, <3>2, <3>3, <3>5
  <2>7. ASSUME NEW c \in Runs, NEW d \in Runs PROVE Apart(c, d)'
    <3>1. CASE correctionOf'[c] = correctionOf[c] /\ correctionOf'[d] = correctionOf[d]
      <4> SUFFICES ASSUME correctionOf[c] # NoRun, correctionOf[d] # NoRun,
                          run'[correctionOf[d]].document = run'[correctionOf[c]].document
                   PROVE  d = c
        BY <3>1
      <4>1. Exists(correctionOf[d]) /\ correctionOf[d] \in Runs
            /\ Exists(correctionOf[c]) /\ correctionOf[c] \in Runs
        BY <2>1, <2>2
      <4>2. run'[correctionOf[d]].document = run[correctionOf[d]].document
            /\ run'[correctionOf[c]].document = run[correctionOf[c]].document
        BY <1>2, <4>1, RunGoesOn
      <4>3. Apart(c, d)
        BY <2>1
      <4> QED
        BY <4>2, <4>3
    <3>2. CASE \E s \in Runs : SaveCorrection(s, run[s].version, c)
      BY <2>6, <3>2
    <3>3. CASE \E s \in Runs : SaveCorrection(s, run[s].version, d)
      BY <2>6, <3>3
    <3> QED
      BY <2>3, <3>1, <3>2, <3>3
  <2> QED
    BY <2>5, <2>7 DEF OneCorrectionPerDocument, CorrectionsHaveText
<1> QED
  BY <1>1, <1>2, TypeCorrect, LogExplainsEveryRun, CheckpointsVouch, PTL DEF Spec

-----------------------------------------------------------------------------
(* OCR children.                                                             *)

\* What HandoffAdmitsOneChild needs to be inductive. The root of a handoff rests where the
\* handoff found it, or ends from there; once its child is admitted it has failed.
RootStates == {"Parsed", "Failed", "Cancelling", "Cancelled"}
RootRests ==
  \A h \in Runs : HasHandoff(h) =>
    /\ handoff[h].child \in Runs
    /\ run[h].state \in RootStates
    /\ handoff[h].phase \in AdmittedPhases => run[h].state = "Failed"

\* Only a failed run says why it failed.
FailureOnlyWhenFailed == \A r \in Runs : run[r].failure # {} => run[r].state = "Failed"

LEMMA FailureStaysExplained == Spec => []FailureOnlyWhenFailed
<1>1. Init => FailureOnlyWhenFailed
  BY DEF Init, NoRow, FailureOnlyWhenFailed
<1>2. ASSUME TypeOK, FailureOnlyWhenFailed, [Next]_vars
      PROVE  FailureOnlyWhenFailed'
  <2> SUFFICES ASSUME NEW q \in Runs, run'[q].failure # {} PROVE run'[q].state = "Failed"
    BY DEF FailureOnlyWhenFailed
  <2>1. CASE WorkKept(q)
    BY <1>2, <2>1 DEF WorkKept, FailureOnlyWhenFailed
  <2>2. CASE WorkMoved(q)
    <3>1. PICK to \in RunStates : run'[q].state = to /\ FailureAfter(q, to, run'[q].failure)
      BY <2>2 DEF WorkMoved
    <3>2. run[q].state = "Failed" => run'[q] = run[q]
      BY <1>2, TerminalStays DEF Terminal
    <3> QED
      BY <1>2, <3>1, <3>2 DEF FailureAfter, FailureOnlyWhenFailed
  <2>3. ASSUME WorkBorn(q) PROVE FALSE
    <3>1. PICK states \in Births, d \in Runs \cup {NoRun}, s \in Sources :
            run'[q] = NewRow(states, d, s)
      BY <2>3 DEF WorkBorn
    <3>2. NewRow(states, d, s).failure = {}
      BY DEF NewRow
    <3> QED
      BY <3>1, <3>2
  <2> QED
    BY <1>2, <2>1, <2>2, <2>3, NextWorks DEF WorkStep
<1> QED
  BY <1>1, <1>2, TypeCorrect, PTL DEF Spec

\* The root of a handoff does no more work: whatever happens to it ends it, and only the
\* admission of its child ends it with the hand-over failure.
LEMMA RootStep ==
  ASSUME TypeOK, [Next]_vars, NEW h \in Runs, HasHandoff(h), run[h].state \in RootStates
  PROVE  /\ run'[h].state \in RootStates /\ artifacts'[h] = artifacts[h]
         /\ \/ run'[h].failure = run[h].failure
            \/ run'[h].failure = Failure(2, TRUE)
            \/ AdmitChild(h)
<1>1. CASE WorkKept(h)
  BY <1>1 DEF WorkKept
<1>2. CASE WorkMoved(h)
  <2>1. PICK to \in RunStates : /\ run'[h].state = to /\ WorkEdge(h, to)
                                /\ FailureAfter(h, to, run'[h].failure)
                                /\ run'[h].version = run[h].version + 1
    BY <1>2 DEF WorkMoved
  <2>2. run[h].version \in Nat
    BY DEF TypeOK, Rows
  <2>3. run[h].state \in {"Parsed", "Cancelling"}
    BY <2>1, <2>2, TerminalStays DEF RootStates, Terminal
  <2>4. /\ \A i \in Stages : run[h].state # ActiveState(i)
        /\ \A i \in Stages : run[h].state = Checkpoint(i-1) => i = 2
        /\ run[h].state # "Verified"
    BY <2>3 DEF Stages, ActiveState, Checkpoint
  <2>5. Stops(h, to)
    BY <2>1, <2>4 DEF WorkEdge, Starts, Completes, Rewinds, Succeeds
  <2>6. run[h].state = "Cancelling" => to # "Failed"
    <3>1. ~RowBorn(h) /\ (RowKept(h) => run'[h].version = run[h].version)
      BY <2>3 DEF RowBorn, RowKept, Exists
    <3>2. RowMoved(h)
      BY <2>1, <2>2, <3>1, NextRowStep DEF RowStep
    <3> QED
      BY <2>1, <3>2 DEF RowMoved
  <2> QED
    BY <2>1, <2>3, <2>5, <2>6 DEF Stops, FailureAfter, RootStates
<1>3. ~WorkBorn(h)
  BY DEF WorkBorn, RootStates, Exists
<1> QED
  BY <1>1, <1>2, <1>3, NextWorks DEF WorkStep

\* The id promised to a child stays its own: no other run is admitted under it.
LEMMA PromisedIdIsKept ==
  ASSUME TypeOK, HandoffAdmitsOneChild, RootRests, [Next]_vars, NEW h \in Runs, HasHandoff(h),
         ~Exists(handoff[h].child), ~AdmitChild(h)
  PROVE  run'[handoff[h].child].state = "Absent"
<1>1. PICK child \in Runs : handoff[h].child = child
  BY DEF RootRests
<1>2. ~Fresh(child) /\ ~Exists(child)
  BY <1>1 DEF Fresh
<1>3. \A g \in Runs : handoff[g].child = child => g = h
  BY <1>1 DEF HandoffAdmitsOneChild
<1>4. ~(Exists(child)')
  BY <1>1, <1>2, <1>3, ProfilesAndBirths
<1> QED
  BY <1>1, <1>4 DEF Exists

\* One id is promised to one root.
LEMMA PromisesStayApart ==
  ASSUME TypeOK, HandoffAdmitsOneChild, RootRests, [Next]_vars, NEW h \in Runs, HasHandoff(h)'
  PROVE  /\ handoff'[h].child \in Runs
         /\ \A g \in Runs : handoff'[g].child = handoff'[h].child => g = h
<1> DEFINE Prepared(q) == \E child \in Runs \ {q} : PrepareHandoff(q, child)
<1>1. ASSUME NEW q \in Runs, ~Prepared(q)
      PROVE  /\ handoff'[q].child = handoff[q].child
             /\ handoff'[q].phase # "none" => HasHandoff(q)
  <2>1. CASE handoff'[q] = handoff[q]
    BY <2>1 DEF HasHandoff
  <2>2. CASE \E edge \in HandoffEdges : MoveHandoff(q, edge[1], edge[2])
    BY <2>2 DEF MoveHandoff, HandoffEdges, OpenPhases, HasHandoff, TypeOK
  <2>3. CASE AdmitChild(q)
    BY <2>3 DEF AdmitChild, HasHandoff, TypeOK
  <2>4. CASE MarkHandoffCompleted(q)
    BY <2>4 DEF MarkHandoffCompleted, HasHandoff, TypeOK
  <2> QED
    BY <1>1, <2>1, <2>2, <2>3, <2>4, RelationsWritten
<1>2. ASSUME NEW q \in Runs, NEW child \in Runs, PrepareHandoff(q, child)
      PROVE  /\ ~HasHandoff(q) /\ Fresh(child) /\ handoff'[q].child = child
             /\ \A g \in Runs \ {q} : handoff'[g] = handoff[g]
  BY <1>2 DEF PrepareHandoff, TypeOK
<1>3. CASE Prepared(h)
  <2>1. PICK child \in Runs : PrepareHandoff(h, child)
    BY <1>3
  <2> QED
    BY <1>2, <2>1 DEF Fresh
<1>4. CASE ~Prepared(h)
  <2>1. handoff'[h].child = handoff[h].child /\ HasHandoff(h)
    BY <1>1, <1>4 DEF HasHandoff
  <2>2. PICK child \in Runs : handoff[h].child = child
    BY <2>1 DEF RootRests
  <2>3. \A g \in Runs : handoff[g].child = child => g = h
    BY <2>1, <2>2 DEF HandoffAdmitsOneChild
  <2>4. ASSUME NEW g \in Runs, handoff'[g].child = child PROVE g = h
    <3>1. ~Prepared(g)
      BY <1>2, <2>2, <2>4 DEF Fresh
    <3>2. handoff'[g].child = handoff[g].child
      BY <1>1, <3>1
    <3> QED
      BY <2>3, <2>4, <3>2
  <2> QED
    BY <2>1, <2>2, <2>4
<1> QED
  BY <1>3, <1>4

\* The hand-over failure of an admitted root is no other failure.
LEMMA HandOverFailure == Failure(1, FALSE) # {} /\ Failure(2, TRUE) # Failure(1, FALSE)
<1>1. [stage |-> 1, recoverable |-> FALSE] \in Failure(1, FALSE)
  BY DEF Failure
<1>2. [stage |-> 1, recoverable |-> FALSE] # [stage |-> 2, recoverable |-> TRUE]
  OBVIOUS
<1>3. [stage |-> 1, recoverable |-> FALSE] \notin Failure(2, TRUE)
  BY <1>2 DEF Failure
<1> QED
  BY <1>1, <1>3

\* What HandoffAdmitsOneChild and RootRests say of the handoff of root h to child c, in terms of
\* the phase of the handoff, the rows of root and child, the root's artifacts, and the profiles
\* of root and child.
HandoffHolds(phase, root, child, text, p, q) ==
  LET admitted == phase \in AdmittedPhases IN
  /\ root.state \in RootStates /\ text = {1}
  /\ child.state # "Absent" <=> admitted
  /\ admitted <=> root.failure = Failure(1, FALSE)
  /\ admitted => root.state = "Failed" /\ q = p /\ p # NoProfile
  /\ phase = "completed" => child.state \in Successful

\* A handoff whose phase does not change sides goes on as the handoff it was.
LEMMA HandoffGoesOn ==
  ASSUME TypeOK, HandoffAdmitsOneChild, RootRests, [Next]_vars, NEW h \in Runs, HasHandoff(h),
         NEW c \in Runs, handoff[h].child = c, ~AdmitChild(h),
         NEW phase, phase \in AdmittedPhases <=> handoff[h].phase \in AdmittedPhases,
         phase = "completed" => run[c].state \in Successful
  PROVE  HandoffHolds(phase, run'[h], run'[c], artifacts'[h], profile'[h], profile'[c])
<1> DEFINE admitted == handoff[h].phase \in AdmittedPhases
<1>1. /\ Exists(c) <=> admitted
      /\ admitted <=> run[h].failure = Failure(1, FALSE)
      /\ admitted => profile[c] = profile[h] /\ profile[h] # NoProfile
      /\ artifacts[h] = {1}
      /\ run[h].state \in RootStates
      /\ admitted => run[h].state = "Failed"
  BY DEF HandoffAdmitsOneChild, RootRests
<1> HIDE DEF admitted
<1>2. run'[h].state \in RootStates /\ artifacts'[h] = {1}
  BY <1>1, RootStep
<1>3. run'[h].failure = run[h].failure \/ run'[h].failure = Failure(2, TRUE)
  BY <1>1, RootStep
<1>4. CASE admitted
  <2>1. run'[h] = run[h]
    BY <1>1, <1>4, TerminalStays DEF Terminal
  <2>2. run'[c].state # "Absent"
    BY <1>1, <1>4, RunGoesOn DEF Exists
  <2>3. profile'[c] = profile[c] /\ profile'[h] = profile[h]
    BY <1>1, <1>4, ProfilesAndBirths DEF Exists
  <2>4. phase = "completed" => run'[c].state \in Successful
    BY TerminalStays DEF Terminal
  <2> QED
    BY <1>1, <1>2, <1>4, <2>1, <2>2, <2>3, <2>4 DEF HandoffHolds, admitted
<1>5. CASE ~admitted
  <2>1. run'[c].state = "Absent"
    BY <1>1, <1>5, PromisedIdIsKept
  <2>2. Failure(2, TRUE) # Failure(1, FALSE)
    BY HandOverFailure
  <2>3. phase \notin AdmittedPhases /\ phase # "completed"
    BY <1>5 DEF admitted, AdmittedPhases
  <2> QED
    BY <1>1, <1>2, <1>3, <1>5, <2>1, <2>2, <2>3 DEF HandoffHolds
<1> QED
  BY <1>4, <1>5

LEMMA HandoffsHold == Spec => [](HandoffAdmitsOneChild /\ RootRests)
<1>1. Init => HandoffAdmitsOneChild /\ RootRests
  <2>1. Init => \A h \in Runs : ~HasHandoff(h)
    BY DEF Init, NoHandoff, HasHandoff
  <2> QED
    BY <2>1 DEF HandoffAdmitsOneChild, RootRests
<1>2. ASSUME TypeOK, CheckpointsHoldArtifacts, FailureOnlyWhenFailed, HandoffAdmitsOneChild,
             RootRests, [Next]_vars
      PROVE  (HandoffAdmitsOneChild /\ RootRests)'
  <2>1. ASSUME NEW h \in Runs, HasHandoff(h)',
               NEW c \in Runs, handoff'[h].child = c
        PROVE  HandoffHolds(handoff'[h].phase, run'[h], run'[c], artifacts'[h],
                            profile'[h], profile'[c])
    <3>1. ASSUME NEW child \in Runs, PrepareHandoff(h, child)
          PROVE  HandoffHolds(handoff'[h].phase, run'[h], run'[c], artifacts'[h],
                              profile'[h], profile'[c])
      <4>1. /\ handoff'[h] = [phase |-> "prepared", child |-> child]
            /\ run' = run /\ artifacts' = artifacts
            /\ run[h].state = "Parsed" /\ ~Exists(child)
        BY <1>2, <3>1 DEF PrepareHandoff, Fresh, TypeOK
      <4>2. handoff'[h].phase = "prepared" /\ c = child
        BY <2>1, <4>1
      <4>3. artifacts[h] = {1}
        <5>1. Checkpoint(2-1) = "Parsed" /\ 2 \in 1..7
          BY DEF Checkpoint
        <5>2. artifacts[h] = 1..(2-1)
          BY <1>2, <4>1, <5>1 DEF CheckpointsHoldArtifacts
        <5> QED
          BY <5>2
      <4>4. run[h].failure = {}
        BY <1>2, <4>1 DEF FailureOnlyWhenFailed
      <4> QED
        BY <4>1, <4>2, <4>3, <4>4, HandOverFailure
        DEF HandoffHolds, RootStates, AdmittedPhases, Exists
    <3>2. CASE handoff'[h] = handoff[h] /\ ~AdmitChild(h)
      <4>1. HasHandoff(h)
        BY <2>1, <3>2 DEF HasHandoff
      <4>2. handoff'[h].phase = "completed" => run[c].state \in Successful
        BY <1>2, <2>1, <3>2, <4>1 DEF HandoffAdmitsOneChild
      <4> QED
        BY <1>2, <2>1, <3>2, <4>1, <4>2, HandoffGoesOn
    <3>3. ASSUME NEW from, NEW to, <<from, to>> \in HandoffEdges, MoveHandoff(h, from, to)
          PROVE  HandoffHolds(handoff'[h].phase, run'[h], run'[c], artifacts'[h],
                              profile'[h], profile'[c])
      <4>1. /\ handoff[h].phase = from /\ handoff'[h].phase = to
            /\ handoff'[h].child = handoff[h].child /\ run' = run
        BY <1>2, <3>3 DEF MoveHandoff, TypeOK
      <4>2. from \in OpenPhases /\ to \in OpenPhases \cup {"failed"}
        BY <3>3 DEF HandoffEdges, OpenPhases
      <4>3. /\ from \notin AdmittedPhases /\ to \notin AdmittedPhases
            /\ to # "completed" /\ HasHandoff(h)
        BY <4>1, <4>2 DEF OpenPhases, AdmittedPhases, HasHandoff
      <4>4. ~AdmitChild(h)
        <5>1. AdmitChild(h) => handoff'[h].phase = "child_admitted"
          BY <1>2 DEF AdmitChild, TypeOK
        <5> QED
          BY <4>1, <4>3, <5>1 DEF AdmittedPhases
      <4> QED
        BY <1>2, <2>1, <4>1, <4>3, <4>4, HandoffGoesOn
    <3>4. CASE AdmitChild(h)
      <4> DEFINE f == Failure(1, FALSE)
      <4>1. /\ handoff'[h].phase = "child_admitted" /\ handoff'[h].child = handoff[h].child
            /\ handoff[h].phase = "output_ready" /\ HasHandoff(h)
        BY <1>2, <3>4 DEF AdmitChild, TypeOK, HasHandoff
      <4>2. handoff[h].child = c
        BY <2>1, <4>1
      <4>3. /\ run' = [run EXCEPT ![h] = [Moved(run[h], "Failed") EXCEPT !.failure = f],
                                 ![c] = NewRow(Ingestion, c, "ocr")]
            /\ profile' = [profile EXCEPT ![c] = profile[h]]
            /\ artifacts' = artifacts /\ profile[h] # NoProfile
            /\ ~Exists(c) /\ run[h].state = "Parsed"
        BY <3>4, <4>2 DEF AdmitChild, CanMove
      <4>4. c # h
        BY <4>3 DEF Exists
      <4> DEFINE plain == Moved(run[h], "Failed")
      <4>5. run[h] \in Rows /\ "Failed" \in RunStates
        BY <1>2 DEF TypeOK, RunStates, Terminal
      <4>6. plain \in Rows /\ plain.state = "Failed"
        <5>1. CanMove(h, "Parsed", run[h].version, "Failed")
          BY <3>4 DEF AdmitChild
        <5> QED
          BY <4>5, <5>1, TransitionTyped, MovedFields, <1>2
      <4> HIDE DEF f, plain
      <4>7. run'[h] = [plain EXCEPT !.failure = f] /\ run'[c] = NewRow(Ingestion, c, "ocr")
        BY <1>2, <4>3, <4>4 DEF TypeOK, plain
      <4>8. run'[h].state = "Failed" /\ run'[h].failure = f
        BY <4>6, <4>7, FailedFields, FailedKeeps
      <4>9. run'[c].state = "Ingested"
        BY <4>7 DEF NewRow, Ingestion
      <4>10. profile'[c] = profile[h] /\ profile'[h] = profile[h]
        BY <1>2, <4>3, <4>4 DEF TypeOK
      <4>11. artifacts'[h] = {1}
        BY <1>2, <4>1, <4>3 DEF HandoffAdmitsOneChild
      <4> QED
        BY <4>1, <4>3, <4>8, <4>9, <4>10, <4>11
        DEF HandoffHolds, RootStates, AdmittedPhases, f
    <3>5. CASE MarkHandoffCompleted(h)
      <4>1. /\ handoff[h].phase = "child_admitted" /\ handoff'[h].phase = "completed"
            /\ handoff'[h].child = handoff[h].child
            /\ run[handoff[h].child].state \in Successful
        BY <1>2, <3>5 DEF MarkHandoffCompleted, TypeOK
      <4>2. HasHandoff(h) /\ ~AdmitChild(h)
        BY <4>1 DEF HasHandoff, AdmitChild
      <4> QED
        BY <1>2, <2>1, <4>1, <4>2, HandoffGoesOn DEF AdmittedPhases
    <3> QED
      <4>1. CASE \E edge \in HandoffEdges : MoveHandoff(h, edge[1], edge[2])
        <5>1. PICK edge \in HandoffEdges : MoveHandoff(h, edge[1], edge[2])
          BY <4>1
        <5>2. <<edge[1], edge[2]>> \in HandoffEdges
          BY <5>1 DEF MoveHandoff
        <5> QED
          BY <3>3, <5>1, <5>2
      <4> QED
        BY <1>2, <3>1, <3>2, <3>4, <3>5, <4>1, RelationsWritten
  <2>2. ASSUME NEW h \in Runs, HasHandoff(h)'
        PROVE  /\ handoff'[h].child \in Runs
               /\ \A g \in Runs : handoff'[g].child = handoff'[h].child => g = h
    BY <1>2, <2>2, PromisesStayApart
  <2> QED
    BY <2>1, <2>2 DEF HandoffHolds, HandoffAdmitsOneChild, RootRests, Exists
<1> QED
  BY <1>1, <1>2, TypeCorrect, CheckpointsVouch, FailureStaysExplained, PTL DEF Spec

\* The handoff of a scanned document, whatever else happens to its root: its child comes to
\* exist in the step that closes the root, under the root's profile, belongs to that root alone,
\* and is finished when the handoff is; the root never goes past PARSED.
THEOREM HandoffsAdmitOneChild == Spec => []HandoffAdmitsOneChild
BY HandoffsHold, PTL
=============================================================================
