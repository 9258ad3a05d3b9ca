---------------------------- MODULE PipelineStore ----------------------------
(***************************************************************************)
(* The document store of the pipeline: the rows db.rs keeps for each run   *)
(* and one action per write transaction. Every transaction is BEGIN        *)
(* IMMEDIATE, so SQLite serialises them and each is one atomic step; a     *)
(* transaction that returns an error rolls back and is no step at all.     *)
(*                                                                         *)
(* Callers are not modelled here: Next lets any transaction happen at any  *)
(* time with any arguments the code could pass. What holds of this module  *)
(* holds whatever the threads above the store do. DesktopJobs models       *)
(* those threads.                                                          *)
(***************************************************************************)
EXTENDS PipelineStates, Sequences, FiniteSets

CONSTANTS Runs,        \* run ids the store may be given (UUIDs, never reused)
          NoRun,       \* no run: a missing foreign key
          Profiles,    \* model profile snapshots
          NoProfile,   \* no row in pipeline_run_model_profiles
          MaxVersion   \* the last state_version; u32::MAX in the code

ASSUME NoRunAssumption == NoRun \notin Runs
ASSUME NoProfileAssumption == NoProfile \notin Profiles
ASSUME MaxVersionAssumption == MaxVersion \in Nat /\ MaxVersion >= 5

VARIABLES run,        \* pipeline_runs joined with documents, by run id
          log,        \* pipeline_events, by run id, in sequence_no order
          artifacts,  \* stages whose artifact row exists; Summary for the last
          attempt,    \* has run a row in summary_verification_attempts?
          profile,    \* pipeline_run_model_profiles
          retryOf,    \* pipeline_run_retries: the source a retry run came from
          correctionOf, \* ocr_text_corrections: the run whose text was corrected
          handoff     \* ocr_handoffs, by root run id

vars == <<run, log, artifacts, attempt, profile, retryOf, correctionOf, handoff>>

\* summary_artifacts and citation_artifacts, always written together.
Summary == 8

\* documents.source_type, where "scanned" is a native document whose parse finds
\* no text at all (ParsedDocument::requires_ocr).
Sources == {"native", "scanned", "ocr"}

\* A run's optional failure is a set of at most one.
Failure(stage, recoverable) == {[stage |-> stage, recoverable |-> recoverable]}
Failures == {{}} \cup {Failure(i, b) : i \in 0..7, b \in BOOLEAN}

OpenPhases == {"prepared", "submission_uncertain", "running", "output_ready"}
AdmittedPhases == {"child_admitted", "completed"}
Phases == {"none", "failed"} \cup OpenPhases \cup AdmittedPhases

Rows == [state : RunStates, version : 0..MaxVersion, failure : Failures,
         cancel : BOOLEAN, document : Runs \cup {NoRun}, source : Sources]
Events == [from : RunStates, to : RunStates]

NoRow == [state |-> "Absent", version |-> 0, failure |-> {}, cancel |-> FALSE,
          document |-> NoRun, source |-> "native"]
NoHandoff == [phase |-> "none", child |-> NoRun]

Exists(r) == run[r].state # "Absent"

\* A fresh UUID: neither in use nor promised to a child that is not admitted yet.
Fresh(r) == ~Exists(r) /\ \A h \in Runs : handoff[h].child # r

HasHandoff(r) == handoff[r].phase # "none"

\* is_admitted_ocr_child
IsAdmittedChild(r) ==
  \E h \in Runs : handoff[h].phase = "child_admitted" /\ handoff[h].child = r

-----------------------------------------------------------------------------
(* The transition every transaction is built from.                           *)

\* Mutant: the version is incremented without checked_add.
CanMove_Unbounded(r, from, v, to) ==
  run[r].state = from /\ run[r].version = v /\ ValidTransition(from, to)

\* transition_in_tx succeeds: the expected state and version are the persisted
\* ones, the edge is legal and the version can still be incremented.
CanMove(r, from, v, to) ==
  /\ run[r].state = from
  /\ run[r].version = v
  /\ ValidTransition(from, to)
  /\ v < MaxVersion

Moved(row, to) == [row EXCEPT !.state = to, !.version = @ + 1]

\* Persist row as the next version of run r and append the event that says so.
Persist(r, row) ==
  /\ run' = [run EXCEPT ![r] = row]
  /\ log' = [log EXCEPT ![r] = Append(@, [from |-> run[r].state, to |-> row.state])]

\* The chain of states a new run has been through when its transaction commits.
Ingestion == <<"Received", "Ingesting", "Ingested">>

EventsThrough(states) ==
  [n \in 1..Len(states) |->
     [from |-> IF n = 1 THEN "Absent" ELSE states[n-1], to |-> states[n]]]

NewRow(states, document, source) ==
  [state |-> states[Len(states)], version |-> Len(states), failure |-> {},
   cancel |-> FALSE, document |-> document, source |-> source]

-----------------------------------------------------------------------------
(* Admission of runs.                                                        *)

\* persist_ingestion_with_profiles: the document, the run and its three events.
Ingest(r, source, p) ==
  /\ Fresh(r)
  /\ run' = [run EXCEPT ![r] = NewRow(Ingestion, r, source)]
  /\ log' = [log EXCEPT ![r] = EventsThrough(Ingestion)]
  /\ profile' = [profile EXCEPT ![r] = p]
  /\ UNCHANGED <<artifacts, attempt, retryOf, correctionOf, handoff>>

\* Mutant: a retry does not look for an earlier retry of the same source.
Retryable_Again(src, v) ==
  /\ run[src].state = "Failed" /\ run[src].version = v
  /\ \E f \in run[src].failure : f.recoverable /\ f.stage # 0
  /\ profile[src] # NoProfile

\* validate_retry_source
Retryable(src, v) ==
  /\ run[src].state = "Failed"
  /\ run[src].version = v
  /\ \E f \in run[src].failure : f.recoverable /\ f.stage # 0
  /\ profile[src] # NoProfile
  /\ \A r \in Runs : retryOf[r] # src

\* create_retry_run: the retry shares the source's document and starts in PARSING.
CreateRetry(src, v, r) ==
  LET states == Append(Ingestion, "Parsing") IN
  /\ Retryable(src, v)
  /\ Fresh(r)
  /\ run' = [run EXCEPT ![r] = NewRow(states, run[src].document, run[src].source)]
  /\ log' = [log EXCEPT ![r] = EventsThrough(states)]
  /\ profile' = [profile EXCEPT ![r] = profile[src]]
  /\ retryOf' = [retryOf EXCEPT ![r] = src]
  /\ UNCHANGED <<artifacts, attempt, correctionOf, handoff>>

\* Mutant: ocr_text_corrections has no unique source document.
NotCorrected_Unchecked(document) == TRUE

\* load_for_document finds no correction of the document.
NotCorrected(document) ==
  \A c \in Runs : correctionOf[c] # NoRun => run[correctionOf[c]].document # document

\* corrections::save for a document not corrected before; a repeated save returns the
\* existing run and writes nothing. The corrected run is born PARSED.
SaveCorrection(src, v, r) ==
  LET states == Ingestion \o <<"Parsing", "Parsed">> IN
  /\ run[src].source = "ocr"
  /\ run[src].state \in Successful \cup {"Failed", "Parsed"}
  /\ run[src].version = v
  /\ 1 \in artifacts[src]
  /\ NotCorrected(run[src].document)
  /\ Fresh(r)
  /\ run' = [run EXCEPT ![r] = NewRow(states, r, "ocr")]
  /\ log' = [log EXCEPT ![r] = EventsThrough(states)]
  /\ artifacts' = [artifacts EXCEPT ![r] = {1}]
  /\ profile' = [profile EXCEPT ![r] = profile[src]]
  /\ correctionOf' = [correctionOf EXCEPT ![r] = src]
  /\ UNCHANGED <<attempt, retryOf, handoff>>

\* ensure_run_model_profile, where it inserts: the first model stage pins the profile.
PinProfile(r, p) ==
  /\ Exists(r)
  /\ profile[r] = NoProfile
  /\ profile' = [profile EXCEPT ![r] = p]
  /\ UNCHANGED <<run, log, artifacts, attempt, retryOf, correctionOf, handoff>>

-----------------------------------------------------------------------------
(* Stages.                                                                   *)

\* Mutant: start_normalizing does not look for an OCR handoff.
StartStage_IgnoreHandoff(r, i, v) ==
  /\ CanMove(r, Checkpoint(i-1), v, ActiveState(i))
  /\ Persist(r, Moved(run[r], ActiveState(i)))
  /\ UNCHANGED <<artifacts, attempt, profile, retryOf, correctionOf, handoff>>

\* start_parsing ... start_verification: stage i takes the checkpoint before it. The
\* artifact it reads must be there, and an OCR handoff keeps its root from normalizing.
StartStage(r, i, v) ==
  /\ CanMove(r, Checkpoint(i-1), v, ActiveState(i))
  /\ i > 1 => i-1 \in artifacts[r]
  /\ i = 2 => ~HasHandoff(r)
  /\ Persist(r, Moved(run[r], ActiveState(i)))
  /\ UNCHANGED <<artifacts, attempt, profile, retryOf, correctionOf, handoff>>

\* Mutant: the checkpoint commits in a transaction of its own, before the artifact.
CompleteStage_CheckpointFirst(r, i, v) ==
  /\ CanMove(r, ActiveState(i), v, Checkpoint(i))
  /\ Persist(r, Moved(run[r], Checkpoint(i)))
  /\ UNCHANGED <<artifacts, attempt, profile, retryOf, correctionOf, handoff>>

\* complete_parsing ... complete_verification: the artifact and the checkpoint commit
\* together. Artifact and attempt rows are insert-once.
CompleteStage(r, i, v) ==
  /\ CanMove(r, ActiveState(i), v, Checkpoint(i))
  /\ i \notin artifacts[r]
  /\ i = 7 => ~attempt[r]
  /\ Persist(r, Moved(run[r], Checkpoint(i)))
  /\ artifacts' = [artifacts EXCEPT ![r] = @ \cup {i}]
  /\ attempt' = [attempt EXCEPT ![r] = @ \/ i = 7]
  /\ UNCHANGED <<profile, retryOf, correctionOf, handoff>>

\* fail_parsing ... fail_verification.
FailStage(r, i, v, recoverable) ==
  /\ CanMove(r, ActiveState(i), v, "Failed")
  /\ Persist(r, [Moved(run[r], "Failed") EXCEPT !.failure = Failure(i, recoverable)])
  /\ UNCHANGED <<artifacts, attempt, profile, retryOf, correctionOf, handoff>>

\* record_verification_attempt: the verdicts of a verification no claim survived.
RecordVerificationAttempt(r, v) ==
  /\ run[r].state = "Verifying" /\ run[r].version = v
  /\ ~attempt[r]
  /\ attempt' = [attempt EXCEPT ![r] = TRUE]
  /\ UNCHANGED <<run, log, artifacts, profile, retryOf, correctionOf, handoff>>

\* complete_summary
CompleteSummary(r, v, outcome) ==
  /\ outcome \in Successful
  /\ CanMove(r, "Verified", v, outcome)
  /\ Summary \notin artifacts[r]
  /\ Persist(r, Moved(run[r], outcome))
  /\ artifacts' = [artifacts EXCEPT ![r] = @ \cup {Summary}]
  /\ UNCHANGED <<attempt, profile, retryOf, correctionOf, handoff>>

\* fail_summary
FailSummary(r, v, recoverable) ==
  /\ CanMove(r, "Verified", v, "Failed")
  /\ Persist(r, [Moved(run[r], "Failed") EXCEPT !.failure = Failure(7, recoverable)])
  /\ UNCHANGED <<artifacts, attempt, profile, retryOf, correctionOf, handoff>>

-----------------------------------------------------------------------------
(* Cancellation, worker failure and restart.                                 *)

\* request_cancellation
RequestCancellation(r, v) ==
  /\ CanRequestCancellation(run[r].state)
  /\ CanMove(r, run[r].state, v, "Cancelling")
  /\ Persist(r, [Moved(run[r], "Cancelling") EXCEPT !.cancel = TRUE])
  /\ UNCHANGED <<artifacts, attempt, profile, retryOf, correctionOf, handoff>>

\* complete_cancellation
CompleteCancellation(r, v) ==
  /\ run[r].cancel
  /\ CanMove(r, "Cancelling", v, "Cancelled")
  /\ Persist(r, Moved(run[r], "Cancelled"))
  /\ UNCHANGED <<artifacts, attempt, profile, retryOf, correctionOf, handoff>>

\* fail_background_execution: a cancellation that committed first wins over the failure.
FailBackground(r, from, v) ==
  \/ CompleteCancellation(r, run[r].version)
  \/ /\ run[r].state # "Cancelling"
     /\ CanRequestCancellation(from)
     /\ CanMove(r, from, v, "Failed")
     /\ Persist(r, [Moved(run[r], "Failed")
                      EXCEPT !.failure = Failure(StageOf(from), TRUE)])
     /\ UNCHANGED <<artifacts, attempt, profile, retryOf, correctionOf, handoff>>

\* What reconcile_interrupted_runs makes of one row after a restart. An admitted OCR
\* child stays with its handoff; stable and terminal rows are left alone.
Interrupted(r) ==
  \/ run[r].state = "Cancelling"
  \/ run[r].state \in ActiveStates /\ ~IsAdmittedChild(r)

\* Mutants: every interrupted row is failed, even a cancelling one; the failure's details
\* are not written.
Reconciled_FailAll(row) ==
  [Moved(row, "Failed") EXCEPT !.failure = Failure(StageOf(row.state), TRUE)]
Reconciled(row) ==
  IF row.state = "Cancelling"
    THEN Moved(row, "Cancelled")
    ELSE [Moved(row, "Failed") EXCEPT !.failure = Failure(StageOf(row.state), TRUE)]

\* A row moves if its version can, and out of CANCELLING only with the request's marker.
CanReconcile(row) == row.version < MaxVersion /\ (row.state = "Cancelling" => row.cancel)

\* Mutant: the batch updates the rows and appends no events.
Reconcile_Unlogged ==
  /\ \E r \in Runs : Interrupted(r)
  /\ \A r \in Runs : Interrupted(r) => CanReconcile(run[r])
  /\ run' = [r \in Runs |-> IF Interrupted(r) THEN Reconciled(run[r]) ELSE run[r]]
  /\ UNCHANGED <<log, artifacts, attempt, profile, retryOf, correctionOf, handoff>>

\* reconcile_interrupted_runs: the whole batch is one transaction, so one row that
\* cannot move keeps every row where it is.
Reconcile ==
  /\ \E r \in Runs : Interrupted(r)
  /\ \A r \in Runs : Interrupted(r) => CanReconcile(run[r])
  /\ run' = [r \in Runs |-> IF Interrupted(r) THEN Reconciled(run[r]) ELSE run[r]]
  /\ log' = [r \in Runs |->
               IF Interrupted(r)
                 THEN Append(log[r], [from |-> run[r].state, to |-> Reconciled(run[r]).state])
                 ELSE log[r]]
  /\ UNCHANGED <<artifacts, attempt, profile, retryOf, correctionOf, handoff>>

-----------------------------------------------------------------------------
(* The OCR handoff of a scanned document from its root run to a child run.   *)

\* Mutant: the promised child may already be promised to another root.
PrepareHandoff_SharedChild(root, child) ==
  /\ ~HasHandoff(root) /\ run[root].state = "Parsed" /\ run[root].source = "scanned"
  /\ ~Exists(child)
  /\ handoff' = [handoff EXCEPT ![root] = [phase |-> "prepared", child |-> child]]
  /\ UNCHANGED <<run, log, artifacts, attempt, profile, retryOf, correctionOf>>

\* prepare_ocr_handoff, where it inserts: the child's id is promised here.
PrepareHandoff(root, child) ==
  /\ ~HasHandoff(root)
  /\ run[root].state = "Parsed"
  /\ run[root].source = "scanned"
  /\ 1 \in artifacts[root]
  /\ Fresh(child)
  /\ handoff' = [handoff EXCEPT ![root] = [phase |-> "prepared", child |-> child]]
  /\ UNCHANGED <<run, log, artifacts, attempt, profile, retryOf, correctionOf>>

\* The phase edges the OCR coordinator asks of transition_ocr_handoff,
\* store_ocr_outputs and fail_ocr_handoff.
HandoffEdges ==
  {<<"prepared", "submission_uncertain">>, <<"submission_uncertain", "prepared">>}
    \cup {"submission_uncertain", "running"} \X {"running", "output_ready"}
    \cup OpenPhases \X {"failed"}

\* One compare-and-set of the phase.
MoveHandoff(root, from, to) ==
  /\ handoff[root].phase = from
  /\ <<from, to>> \in HandoffEdges
  /\ handoff' = [handoff EXCEPT ![root].phase = to]
  /\ UNCHANGED <<run, log, artifacts, attempt, profile, retryOf, correctionOf>>

\* admit_ocr_child, where it admits: the child run, its inherited profile, the root's
\* terminal hand-over failure and the phase commit together.
AdmitChild(root) ==
  LET child == handoff[root].child IN
  /\ handoff[root].phase = "output_ready"
  /\ ~Exists(child)
  /\ profile[root] # NoProfile
  /\ CanMove(root, "Parsed", run[root].version, "Failed")
  /\ run' = [run EXCEPT ![root] = [Moved(run[root], "Failed")
                                     EXCEPT !.failure = Failure(1, FALSE)],
                        ![child] = NewRow(Ingestion, child, "ocr")]
  /\ log' = [log EXCEPT ![root] = Append(@, [from |-> "Parsed", to |-> "Failed"]),
                        ![child] = EventsThrough(Ingestion)]
  /\ profile' = [profile EXCEPT ![child] = profile[root]]
  /\ handoff' = [handoff EXCEPT ![root].phase = "child_admitted"]
  /\ UNCHANGED <<artifacts, attempt, retryOf, correctionOf>>

\* mark_ocr_handoff_completed_for_child
MarkHandoffCompleted(root) ==
  LET child == handoff[root].child IN
  /\ handoff[root].phase = "child_admitted"
  /\ run[child].state \in Successful
  /\ Summary \in artifacts[child]
  /\ handoff' = [handoff EXCEPT ![root].phase = "completed"]
  /\ UNCHANGED <<run, log, artifacts, attempt, profile, retryOf, correctionOf>>

\* Mutants: any interrupted run is rewound; an interrupted child starts all over.
RewindChild_Anyone(r, i) ==
  /\ CanMove(r, ActiveState(i), run[r].version, Checkpoint(i-1))
  /\ Persist(r, Moved(run[r], Checkpoint(i-1)))
  /\ UNCHANGED <<artifacts, attempt, profile, retryOf, correctionOf, handoff>>
RewindChild_ToStart(r, i) ==
  /\ IsAdmittedChild(r) /\ run[r].state = ActiveState(i) /\ run[r].version < MaxVersion
  /\ Persist(r, Moved(run[r], Checkpoint(0)))
  /\ UNCHANGED <<artifacts, attempt, profile, retryOf, correctionOf, handoff>>

\* rewind_interrupted_ocr_child, where it rewinds: back to the stage's checkpoint.
RewindChild(r, i) ==
  /\ IsAdmittedChild(r)
  /\ CanMove(r, ActiveState(i), run[r].version, Checkpoint(i-1))
  /\ Persist(r, Moved(run[r], Checkpoint(i-1)))
  /\ UNCHANGED <<artifacts, attempt, profile, retryOf, correctionOf, handoff>>

-----------------------------------------------------------------------------
Init ==
  /\ run = [r \in Runs |-> NoRow]
  /\ log = [r \in Runs |-> <<>>]
  /\ artifacts = [r \in Runs |-> {}]
  /\ attempt = [r \in Runs |-> FALSE]
  /\ profile = [r \in Runs |-> NoProfile]
  /\ retryOf = [r \in Runs |-> NoRun]
  /\ correctionOf = [r \in Runs |-> NoRun]
  /\ handoff = [r \in Runs |-> NoHandoff]

Admission(r) ==
  \/ \E s \in {"native", "scanned"}, p \in Profiles \cup {NoProfile} : Ingest(r, s, p)
  \/ \E src \in Runs : CreateRetry(src, run[src].version, r)
  \/ \E src \in Runs : SaveCorrection(src, run[src].version, r)
  \/ \E p \in Profiles : PinProfile(r, p)

Stage(r) ==
  \E v \in {run[r].version} :
    \/ \E i \in Stages : StartStage(r, i, v)
    \/ \E i \in Stages : CompleteStage(r, i, v)
    \/ \E i \in Stages, b \in BOOLEAN : FailStage(r, i, v, b)
    \/ RecordVerificationAttempt(r, v)
    \/ \E s \in Successful : CompleteSummary(r, v, s)
    \/ \E b \in BOOLEAN : FailSummary(r, v, b)

Interruption(r) ==
  \/ RequestCancellation(r, run[r].version)
  \/ CompleteCancellation(r, run[r].version)
  \/ FailBackground(r, run[r].state, run[r].version)

HandoffStep(root) ==
  \/ \E child \in Runs \ {root} : PrepareHandoff(root, child)
  \/ \E edge \in HandoffEdges : MoveHandoff(root, edge[1], edge[2])
  \/ AdmitChild(root)
  \/ MarkHandoffCompleted(root)
  \/ \E i \in Stages : RewindChild(root, i)

Next ==
  \/ \E r \in Runs : Admission(r) \/ Stage(r) \/ Interruption(r) \/ HandoffStep(r)
  \/ Reconcile

Spec == Init /\ [][Next]_vars

-----------------------------------------------------------------------------
(* What the store promises, whatever its callers do.                         *)

\* Every row and every event is well formed and versions stay within their bound.
TypeOK ==
  /\ run \in [Runs -> Rows]
  /\ log \in [Runs -> Seq(Events)]
  /\ artifacts \in [Runs -> SUBSET (1..Summary)]
  /\ attempt \in [Runs -> BOOLEAN]
  /\ profile \in [Runs -> Profiles \cup {NoProfile}]
  /\ retryOf \in [Runs -> Runs \cup {NoRun}]
  /\ correctionOf \in [Runs -> Runs \cup {NoRun}]
  /\ handoff \in [Runs -> [phase : Phases, child : Runs \cup {NoRun}]]

\* The events of a run are one unbroken chain of legal edges from its creation to the
\* state in its row, one event per version: no transaction moves a row without saying so
\* (transition_in_tx, reconcile_interrupted_runs_in_transaction, the insert_* helpers).
LogExplainsRun ==
  \A r \in Runs :
    /\ Len(log[r]) = run[r].version
    /\ Exists(r) => /\ log[r] # <<>>
                    /\ log[r][1].from = "Absent"
                    /\ log[r][Len(log[r])].to = run[r].state
    /\ \A n \in 2..Len(log[r]) :
         /\ log[r][n].from = log[r][n-1].to
         /\ ValidTransition(log[r][n].from, log[r][n].to)

\* The events of run r that complete stage i.
Completions(r, i) ==
  {n \in 1..Len(log[r]) : log[r][n] = [from |-> ActiveState(i), to |-> Checkpoint(i)]}

\* A stage completes at most once in the life of a run, however often the run is rewound
\* (rewind_interrupted_ocr_child), and its artifact is there exactly when it did.
StageCompletesOnce ==
  \A r \in Runs, i \in Stages :
    LET done == Completions(r, i) IN
    /\ i \in artifacts[r] <=> done # {}
    /\ \A n, m \in done : n = m

\* A state a run can be continued or rewound from vouches for exactly the artifacts of the
\* stages before it, and success for all of them: what continuation_checkpoint and the
\* OCR rewind take for granted when they resume work from a persisted state alone.
CheckpointsHoldArtifacts ==
  \A r \in Runs :
    /\ \A i \in 1..7 :
         run[r].state \in {Checkpoint(i-1), ActiveState(i)} => artifacts[r] = 1..(i-1)
    /\ run[r].state = "Verified" => artifacts[r] = 1..7
    /\ run[r].state \in Successful => artifacts[r] = 1..Summary

\* An acknowledged cancellation request is never lost: from then on the run is cancelling or
\* cancelled, and nothing else is (request_cancellation against every other transaction).
CancellationDurable ==
  \A r \in Runs : run[r].cancel <=> run[r].state \in {"Cancelling", "Cancelled"}

\* A failed run is retried at most once and by a run of its own document under its own
\* profile; the source stays the recoverable failure it was (create_retry_run).
RetryLineage ==
  \A r, s \in Runs :
    retryOf[r] = s =>
      /\ \A q \in Runs : retryOf[q] = s => q = r
      /\ run[s].state = "Failed" /\ \E f \in run[s].failure : f.recoverable
      /\ Exists(r) /\ run[r].document = run[s].document /\ profile[r] = profile[s]
      /\ run[r].version > 3

\* A document's text is corrected at most once, by a run over a document of its own that
\* starts from the corrected text and is never parsed again (corrections::save).
OneCorrectionPerDocument ==
  \A c, d \in Runs :
    correctionOf[c] # NoRun =>
      /\ run[c].document = c /\ c # correctionOf[c]
      /\ \A n \in 6..Len(log[c]) : log[c][n].to # "Parsing"
      /\ (correctionOf[d] # NoRun /\ run[correctionOf[d]].document
             = run[correctionOf[c]].document) => d = c

\* The child of a handoff comes to exist in the very step its root is closed, inherits the
\* root's profile, belongs to one root, and a completed handoff has a finished child; until
\* then the root has not gone past PARSED (admit_ocr_child, start_normalizing).
HandoffAdmitsOneChild ==
  \A h \in Runs : HasHandoff(h) =>
    LET child == handoff[h].child
        admitted == handoff[h].phase \in AdmittedPhases
    IN /\ Exists(child) <=> admitted
       /\ admitted <=> run[h].failure = Failure(1, FALSE)
       /\ admitted => profile[child] = profile[h] /\ profile[h] # NoProfile
       /\ artifacts[h] = {1}
       /\ handoff[h].phase = "completed" => run[child].state \in Successful
       /\ \A g \in Runs : handoff[g].child = child => g = h

\* Nothing is taken back: events and artifacts are only added, a terminal row never changes
\* again, and only an admitted OCR child goes back to an earlier checkpoint (the restart
\* edges in is_valid_transition are for it alone).
HistoryOnlyGrows ==
  [][\A r \in Runs :
       /\ Len(log[r]) <= Len(log'[r]) /\ SubSeq(log'[r], 1, Len(log[r])) = log[r]
       /\ artifacts[r] \subseteq artifacts'[r]
       /\ run[r].state \in Terminal => run'[r] = run[r]
       /\ <<run[r].state, run'[r].state>> \in Rewind => IsAdmittedChild(r)]_vars

\* A run waiting at a checkpoint, or sent back to one, can still do the stage that comes
\* next: nothing that stage inserts once is there already (the restart edges of an OCR
\* child promise this; record_verification_attempt does not honour it).
RewoundWorkCanFinish ==
  \A r \in Runs, i \in Stages :
    run[r].state = Checkpoint(i-1) => i \notin artifacts[r] /\ (i = 7 => ~attempt[r])
=============================================================================
