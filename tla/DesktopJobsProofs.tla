------------------------- MODULE DesktopJobsProofs -------------------------
(***************************************************************************)
(* What DesktopJobs promises for any set of runs, any profiles, any last   *)
(* version and any number of crashes: proofs.                              *)
(***************************************************************************)
EXTENDS DesktopJobs, PipelineStoreProofs

-----------------------------------------------------------------------------
(* What the threads remember is fit for the store transactions they issue.   *)

ChildPcs == {"adopt", "begin child", "spawn child", "unstarted child"}

UiShape ==
  /\ ui.cmd # "none" => ui.run \in Runs
  /\ ui.cmd \in {"direct", "working", "failing"} => ui.stage \in Stages

Workers == [pc : WorkerPcs, stage : 0..Finish, ver : 0..MaxVersion,
            out : {"none", "lost", "ocr", "other"}]
Fits(r, w) ==
  /\ w.pc = "begin" => w.stage \in Stages
  /\ w.pc \in {"boundary", "ready", "parse", "work", "failing"} => w.stage \in 1..Finish
  /\ w.pc \in ChildPcs => HasHandoff(r)
WorkerShape == \A r \in Runs : Fits(r, worker[r])

RecoveryShape ==
  /\ \A h \in recovery.todo : HasHandoff(h)
  /\ recovery.pc \in {"check", "exchange", "settle", "rewind", "launch"} =>
       /\ recovery.run \in Runs
       /\ recovery.pc \in {"check", "exchange", "settle"} => HasHandoff(recovery.run)

\* A child is a run other than its root.
ChildrenApart == \A h \in Runs : HasHandoff(h) => handoff[h].child \in Runs \ {h}

Shape ==
  /\ TypeOK /\ ChildrenApart
  /\ JobsTypeOK /\ UiShape /\ WorkerShape /\ RecoveryShape

-----------------------------------------------------------------------------
(* Every step of a thread is a transaction of the store, or none.            *)

LEMMA StagesTyped == 1 \in Stages /\ Stages \subseteq 1..Finish
BY DEF Stages, Finish

\* fail_background_execution and the end of a handoff are transactions of the store.
LEMMA FailBackgroundIsNext ==
  ASSUME NEW r \in Runs, NEW from, NEW v, FailBackground(r, from, v)
  PROVE  Next
<1>1. CASE CompleteCancellation(r, run[r].version)
  BY <1>1 DEF Next, Interruption
<1>2. CASE run[r].state = from /\ run[r].version = v
  BY <1>2 DEF Next, Interruption
<1> QED
  BY <1>1, <1>2 DEF FailBackground, CanMove

LEMMA FailUnstartedIsNext ==
  ASSUME NEW r \in Runs, FailUnstarted(r)
  PROVE  [Next]_vars
BY FailBackgroundIsNext DEF FailUnstarted

LEMMA MoveHandoffIsNext ==
  ASSUME NEW r \in Runs, NEW from, NEW to, MoveHandoff(r, from, to)
  PROVE  Next
<1>1. <<from, to>> \in HandoffEdges
  BY DEF MoveHandoff
<1>2. \E edge \in HandoffEdges : MoveHandoff(r, edge[1], edge[2])
  BY <1>1
<1> QED
  BY <1>2 DEF Next, HandoffStep

LEMMA MarkCompletedIsNext ==
  ASSUME NEW r \in Runs, MarkCompleted(r)
  PROVE  [Next]_vars
BY DEF MarkCompleted, Next, HandoffStep

LEMMA StopHandoffIsNext ==
  ASSUME NEW r \in Runs, StopHandoff(r)
  PROVE  [Next]_vars
BY MoveHandoffIsNext DEF StopHandoff

\* A stage's transactions are the store's when they name the version the row is at.
LEMMA StartStageIsNext ==
  ASSUME NEW r \in Runs, NEW i \in Stages, NEW v, StartStage(r, i, v)
  PROVE  Next
<1>1. v = run[r].version
  BY DEF StartStage, CanMove
<1> QED
  BY <1>1 DEF Next, Stage

LEMMA CompleteStageIsNext ==
  ASSUME NEW r \in Runs, NEW i \in Stages, NEW v, CompleteStage(r, i, v)
  PROVE  Next
<1>1. v = run[r].version
  BY DEF CompleteStage, CanMove
<1> QED
  BY <1>1 DEF Next, Stage

LEMMA FailStageIsNext ==
  ASSUME NEW r \in Runs, NEW i \in Stages, NEW v, NEW b \in BOOLEAN, FailStage(r, i, v, b)
  PROVE  Next
<1>1. v = run[r].version
  BY DEF FailStage, CanMove
<1> QED
  BY <1>1 DEF Next, Stage

LEMMA SummaryIsNext ==
  ASSUME NEW r \in Runs, NEW v,
         \/ \E s \in Successful : CompleteSummary(r, v, s)
         \/ \E b \in BOOLEAN : FailSummary(r, v, b)
         \/ RecordVerificationAttempt(r, v)
  PROVE  Next
<1>1. v = run[r].version
  BY DEF CompleteSummary, FailSummary, RecordVerificationAttempt, CanMove
<1> QED
  BY <1>1 DEF Next, Stage

LEMMA InterruptionIsNext ==
  ASSUME NEW r \in Runs, NEW v, RequestCancellation(r, v) \/ CompleteCancellation(r, v)
  PROVE  Next
<1>1. v = run[r].version
  BY DEF RequestCancellation, CompleteCancellation, CanMove
<1> QED
  BY <1>1 DEF Next, Interruption

LEMMA AdmissionIsNext ==
  ASSUME NEW r \in Runs, Admission(r)
  PROVE  Next
BY DEF Next

LEMMA UiStepIsStoreStep ==
  ASSUME Shape, UiStep
  PROVE  [Next]_vars
<1> USE UploadsAssumption
<1>1. ui.cmd \notin {"none"} => ui.run \in Runs
  BY DEF Shape, UiShape
<1>2. ASSUME NEW r \in Runs, UploadDocument(r) \/ IngestOnly(r) PROVE [Next]_vars
  BY <1>2, AdmissionIsNext DEF UploadDocument, IngestOnly, Admission
<1>3. ASSUME NEW r \in Runs, ContinueRun(r) \/ CancelRun(r) PROVE [Next]_vars
  BY <1>3 DEF ContinueRun, CancelRun
<1>4. ASSUME NEW r \in Runs, NEW src \in Runs, RetryRun(src, r) \/ CorrectText(src, r)
      PROVE  [Next]_vars
  BY <1>4, AdmissionIsNext DEF RetryRun, CorrectText, Admission
<1>5. ASSUME NEW r \in Runs, NEW i \in Stages, DirectStage(r, i) PROVE [Next]_vars
  BY <1>5 DEF DirectStage
<1>6. CASE AdmitUpload
  BY <1>1, <1>6, StartStageIsNext, StagesTyped DEF AdmitUpload
<1>7. CASE ClaimRun \/ SpawnWorker \/ SpawnFails \/ SignalToken
  BY <1>7 DEF ClaimRun, SpawnWorker, SpawnFails, SignalToken
<1>8. CASE PersistStartFailure
  BY <1>1, <1>8, FailUnstartedIsNext DEF PersistStartFailure
<1>9. CASE CommitCancel
  BY <1>1, <1>9, InterruptionIsNext DEF CommitCancel
<1>10. CASE DirectBegin \/ DirectEnd \/ DirectFail
  BY <1>1, <1>10, StartStageIsNext, CompleteStageIsNext, FailStageIsNext
  DEF DirectBegin, DirectEnd, DirectFail, Shape, UiShape
<1> QED
  BY <1>2, <1>3, <1>4, <1>5, <1>6, <1>7, <1>8, <1>9, <1>10 DEF UiStep

LEMMA WorkerStepIsStoreStep ==
  ASSUME Shape, NEW r \in Runs, WorkerStep(r)
  PROVE  [Next]_vars
<1> DEFINE i == worker[r].stage
           v == worker[r].ver
           c == handoff[r].child
<1>1. worker[r].pc \in ChildPcs => c \in Runs
  BY DEF Shape, WorkerShape, Fits, ChildrenApart
<1>2. CASE OpenRow(r) \/ Plan(r) \/ Boundary(r) \/ ReadRow(r) \/ StageFails(r) \/ StopMidStage(r)
  BY <1>2 DEF OpenRow, Plan, Boundary, ReadRow, StageFails, StopMidStage
<1>3. CASE Pin(r)
  BY <1>3, AdmissionIsNext DEF Pin, Admission
<1>4. CASE BeginStage(r)
  BY <1>4, StartStageIsNext DEF BeginStage, Shape, WorkerShape, Fits, At
<1>5. CASE EndStage(r)
  BY <1>5, CompleteStageIsNext, SummaryIsNext DEF EndStage
<1>6. CASE NoClaimSurvives(r)
  BY <1>6, SummaryIsNext DEF NoClaimSurvives
<1>7. CASE WriteFailure(r)
  BY <1>7, FailStageIsNext, SummaryIsNext DEF WriteFailure
<1>8. CASE WorkerError(r) \/ OcrGivesUp(r) \/ AdoptChild(r) \/ SpawnChild(r) \/ Leave(r)
  BY <1>8 DEF WorkerError, OcrGivesUp, AdoptChild, SpawnChild, Leave
<1>9. CASE OcrCheck(r)
  BY <1>9, StopHandoffIsNext DEF OcrCheck
<1>10. CASE OcrExchange(r)
  BY <1>10, MoveHandoffIsNext DEF OcrExchange, HandoffMoves, HandoffRefused, Next, HandoffStep
<1>11. CASE BeginChild(r)
  BY <1>1, <1>11, StartStageIsNext, InterruptionIsNext, StagesTyped DEF BeginChild, At, ChildPcs
<1>12. CASE ChildUnstarted(r)
  BY <1>1, <1>12, FailUnstartedIsNext DEF ChildUnstarted, At, ChildPcs
<1>13. CASE Finalize(r)
  BY <1>13, MarkCompletedIsNext DEF Finalize
<1>14. CASE FinalWrite(r)
  BY <1>14, InterruptionIsNext, FailBackgroundIsNext DEF FinalWrite
<1> QED
  BY <1>2, <1>3, <1>4, <1>5, <1>6, <1>7, <1>8, <1>9, <1>10, <1>11, <1>12, <1>13, <1>14
  DEF WorkerStep

LEMMA RecoveryStepIsStoreStep ==
  ASSUME Shape, RecoveryStep
  PROVE  [Next]_vars
<1>1. recovery.pc \in {"check", "exchange", "settle", "rewind", "launch"} => recovery.run \in Runs
  BY DEF Shape, RecoveryShape
<1>2. CASE ListHandoffs \/ (\E h \in Runs : PickHandoff(h)) \/ RecoveryGivesUp
           \/ (\E c \in Runs : ResumeClaims(c)) \/ ResumeLaunches \/ RecoveryEnds
  BY <1>2 DEF ListHandoffs, PickHandoff, RecoveryGivesUp, ResumeClaims, ResumeLaunches, RecoveryEnds
<1>3. CASE RecoveryCheck
  BY <1>1, <1>3, StopHandoffIsNext DEF RecoveryCheck
<1>4. CASE RecoveryExchange
  BY <1>1, <1>4, MoveHandoffIsNext
  DEF RecoveryExchange, HandoffMoves, HandoffRefused, Next, HandoffStep
<1>5. CASE RecoverySettles
  BY <1>1, <1>5, InterruptionIsNext DEF RecoverySettles
<1>6. CASE ResumeRewinds
  BY <1>1, <1>6, MarkCompletedIsNext DEF ResumeRewinds, Next, HandoffStep
<1> QED
  BY <1>2, <1>3, <1>4, <1>5, <1>6 DEF RecoveryStep

LEMMA JobStepIsStoreStep ==
  ASSUME Shape, [JobsNext]_allVars
  PROVE  [Next]_vars
<1>1. CASE Crash \/ Restart
  BY <1>1 DEF Crash, Restart, Next
<1>2. CASE UNCHANGED allVars
  BY <1>2 DEF allVars
<1> QED
  BY <1>1, <1>2, UiStepIsStoreStep, WorkerStepIsStoreStep, RecoveryStepIsStoreStep DEF JobsNext

-----------------------------------------------------------------------------
(* What the threads remember stays well formed.                              *)

\* A handoff stays, and so does the id it promises.
LEMMA PromiseStays ==
  ASSUME TypeOK, [Next]_vars, NEW h \in Runs
  PROVE  /\ HasHandoff(h) => HasHandoff(h)' /\ handoff'[h].child = handoff[h].child
         /\ ~HasHandoff(h) =>
              handoff'[h] = handoff[h] \/ \E c \in Runs \ {h} : PrepareHandoff(h, c)
<1>1. CASE handoff'[h] = handoff[h]
  BY <1>1 DEF HasHandoff
<1>2. CASE \E edge \in HandoffEdges : MoveHandoff(h, edge[1], edge[2])
  BY <1>2 DEF MoveHandoff, HandoffEdges, OpenPhases, HasHandoff, TypeOK
<1>3. CASE AdmitChild(h) \/ MarkHandoffCompleted(h)
  <2>1. PICK phase \in AdmittedPhases : handoff' = [handoff EXCEPT ![h].phase = phase]
    BY <1>3 DEF AdmitChild, MarkHandoffCompleted, AdmittedPhases
  <2>2. HasHandoff(h)
    BY <1>3 DEF AdmitChild, MarkHandoffCompleted, HasHandoff
  <2> QED
    BY <2>1, <2>2 DEF AdmittedPhases, HasHandoff, TypeOK
<1>4. CASE \E c \in Runs \ {h} : PrepareHandoff(h, c)
  <2>1. ~HasHandoff(h)
    BY <1>4 DEF PrepareHandoff
  <2> QED
    BY <1>4, <2>1
<1> QED
  BY <1>1, <1>2, <1>3, <1>4, RelationsWritten

LEMMA ChildrenStayApart ==
  ASSUME TypeOK, ChildrenApart, [Next]_vars
  PROVE  ChildrenApart'
<1> SUFFICES ASSUME NEW h \in Runs, HasHandoff(h)' PROVE handoff'[h].child \in Runs \ {h}
  BY DEF ChildrenApart
<1>1. CASE HasHandoff(h)
  BY <1>1, PromiseStays DEF ChildrenApart
<1>2. CASE handoff'[h] = handoff[h]
  BY <1>2 DEF HasHandoff, ChildrenApart
<1>3. CASE \E c \in Runs \ {h} : PrepareHandoff(h, c)
  BY <1>3 DEF PrepareHandoff, TypeOK
<1> QED
  BY <1>1, <1>2, <1>3, PromiseStays

WorkersOK == worker \in [Runs -> Workers] /\ WorkerShape
UiOK == /\ ui \in [cmd : UiCommands, run : Runs \cup {NoRun}, stage : 0..Finish,
                   ver : 0..MaxVersion, live : BOOLEAN]
        /\ UiShape
RecoveryOK == /\ recovery \in [pc : RecoveryPcs, todo : SUBSET Runs, resume : SUBSET Runs,
                               reserved : SUBSET Runs, run : Runs \cup {NoRun}]
              /\ RecoveryShape
ProcessOK == up \in BOOLEAN /\ crashes \in 0..MaxCrashes /\ active \in [Runs -> Claims]

LEMMA ShapeParts ==
  Shape <=> TypeOK /\ ChildrenApart /\ WorkersOK /\ UiOK /\ RecoveryOK /\ ProcessOK
BY DEF Shape, JobsTypeOK, WorkersOK, UiOK, RecoveryOK, ProcessOK, Workers

\* Threads that do not move stay well formed, whatever the store does.
LEMMA OthersStayOK ==
  ASSUME Shape, [Next]_vars
  PROVE  /\ worker' = worker => WorkersOK'
         /\ ui' = ui => UiOK'
         /\ recovery' = recovery => RecoveryOK'
         /\ up' = up /\ crashes' = crashes /\ active' = active => ProcessOK'
<1>1. TypeOK /\ WorkersOK /\ UiOK /\ RecoveryOK /\ ProcessOK
  BY ShapeParts
<1>2. \A h \in Runs : HasHandoff(h) => HasHandoff(h)'
  BY <1>1, PromiseStays
<1>3. worker' = worker => WorkersOK'
  BY <1>1, <1>2 DEF WorkersOK, WorkerShape, Fits
<1>4. recovery' = recovery => RecoveryOK'
  BY <1>1, <1>2 DEF RecoveryOK, RecoveryShape, HasHandoff
<1> QED
  BY <1>1, <1>3, <1>4 DEF UiOK, UiShape, ProcessOK

\* A worker is set to something it may be.
LEMMA WorkerSetOK ==
  ASSUME Shape, [Next]_vars, NEW r \in Runs, NEW w \in Workers, Fits(r, w),
         worker' = [worker EXCEPT ![r] = w]
  PROVE  WorkersOK'
<1>1. TypeOK /\ WorkersOK
  BY ShapeParts
<1>2. \A h \in Runs : HasHandoff(h) => HasHandoff(h)'
  BY <1>1, PromiseStays
<1>3. worker' \in [Runs -> Workers] /\ \A q \in Runs : worker'[q] = IF q = r THEN w ELSE worker[q]
  BY <1>1 DEF WorkersOK
<1>4. \A q \in Runs : Fits(q, worker'[q])
  BY <1>1, <1>3 DEF WorkersOK, WorkerShape
<1> QED
  BY <1>2, <1>3, <1>4 DEF WorkersOK, WorkerShape, Fits

LEMMA StepOK ==
  ASSUME Shape, [Next]_vars, NEW r \in Runs, NEW pc \in WorkerPcs, NEW i \in 0..Finish,
         NEW v \in 0..MaxVersion, Step(r, pc, i, v),
         pc = "begin" => i \in Stages,
         pc \in {"boundary", "ready", "parse", "work", "failing"} => i \in 1..Finish,
         pc \in ChildPcs => HasHandoff(r)
  PROVE  WorkersOK'
<1> DEFINE w == [pc |-> pc, stage |-> i, ver |-> v, out |-> "none"]
<1>1. w \in Workers /\ Fits(r, w)
  BY DEF Workers, Fits
<1> QED
  BY <1>1, WorkerSetOK DEF Step

\* A finished worker and a new one.
LEMMA IdleTyped ==
  Idle \in Workers /\ Idle.pc = "idle" /\ Idle.stage = 0 /\ Idle.ver = 0 /\ Idle.out = "none"
BY MaxVersionAssumption DEF Idle, Workers, WorkerPcs, Finish

LEMMA EndOK ==
  ASSUME Shape, [Next]_vars, NEW r \in Runs, NEW out \in {"lost", "ocr", "other"}, End(r, out)
  PROVE  WorkersOK'
<1> DEFINE w == [Idle EXCEPT !.pc = "final", !.out = out]
<1>1. "final" \in WorkerPcs
  BY DEF WorkerPcs
<1>2. worker' = [worker EXCEPT ![r] = w] /\ w = [Idle EXCEPT !.pc = "final", !.out = out]
  BY DEF End
<1> HIDE DEF w
<1>3. w \in Workers /\ w.pc = "final"
  BY <1>1, <1>2, IdleTyped DEF Workers
<1> QED
  BY <1>2, <1>3, WorkerSetOK DEF Fits, ChildPcs

LEMMA StartOK ==
  ASSUME Shape, [Next]_vars, NEW r \in Runs, NEW v \in 0..MaxVersion, StartWorker(r, v)
  PROVE  WorkersOK'
<1> DEFINE pc == IF v = 0 THEN "started" ELSE "continue"
           w == [Idle EXCEPT !.pc = pc, !.ver = v]
<1>1. pc \in WorkerPcs /\ pc \notin ChildPcs
      /\ pc \notin {"begin", "boundary", "ready", "parse", "work", "failing"}
  BY DEF WorkerPcs, ChildPcs
<1>2. worker' = [worker EXCEPT ![r] = w] /\ w = [Idle EXCEPT !.pc = pc, !.ver = v]
  BY DEF StartWorker
<1> HIDE DEF pc, w
<1>3. w \in Workers /\ w.pc = pc
  BY <1>1, <1>2, IdleTyped DEF Workers
<1> QED
  BY <1>1, <1>2, <1>3, WorkerSetOK DEF Fits

\* A command is one the UI thread can execute.
LEMMA CommandOK ==
  ASSUME NEW cmd \in UiCommands, NEW r \in Runs, NEW i \in 0..Finish, NEW v \in 0..MaxVersion,
         Command(cmd, r, i, v), cmd \in {"direct", "working", "failing"} => i \in Stages
  PROVE  UiOK'
BY DEF Command, UiOK, UiShape

LEMMA ReturnOK ==
  ASSUME Return
  PROVE  UiOK'
BY MaxVersionAssumption DEF Return, NoCommand, UiOK, UiShape, UiCommands, Finish

LEMMA ReleaseOK ==
  ASSUME Shape, NEW S \in SUBSET Runs, Release(S)
  PROVE  UiOK' /\ active' \in [Runs -> Claims]
<1>1. UiOK /\ ProcessOK
  BY ShapeParts
<1>2. active' \in [Runs -> Claims]
  BY <1>1 DEF Release, ProcessOK, Claims
<1>3. CASE ui.run \in S
  <2>1. ui' = [ui EXCEPT !.live = FALSE]
    BY <1>3 DEF Release
  <2> QED
    BY <1>1, <1>2, <2>1 DEF UiOK, UiShape
<1>4. CASE ui.run \notin S
  BY <1>1, <1>2, <1>4 DEF Release, UiOK, UiShape
<1> QED
  BY <1>3, <1>4

\* The numbers a command or a worker takes from a row.
LEMMA Numbers ==
  ASSUME Shape
  PROVE  /\ \A r \in Runs : run[r].version \in 0..MaxVersion
         /\ 0 \in 0..MaxVersion /\ Len(Ingestion) \in 0..MaxVersion
         /\ 0 \in 0..Finish /\ 1 \in 0..Finish /\ Stages \subseteq 0..Finish
         /\ \A r \in Runs, i \in Stages : \A v : StartStage(r, i, v) => Later(v) \in 0..MaxVersion
         /\ \A r \in Runs : /\ worker[r].stage \in 0..Finish
                            /\ worker[r].ver \in 0..MaxVersion
         /\ ui.stage \in 0..Finish /\ ui.ver \in 0..MaxVersion
<1>1. \A r \in Runs : run[r].version \in 0..MaxVersion
  BY DEF Shape, TypeOK, Rows
<1>2. Len(Ingestion) = 3
  BY DEF Ingestion
<1>3. ASSUME NEW r \in Runs, NEW i \in Stages, NEW v, StartStage(r, i, v)
      PROVE  Later(v) \in 0..MaxVersion
  <2>1. v = run[r].version /\ v < MaxVersion
    BY <1>3 DEF StartStage, CanMove
  <2> QED
    BY <1>1, <2>1, MaxVersionAssumption DEF Later
<1> QED
  BY <1>1, <1>2, <1>3, MaxVersionAssumption DEF Stages, Finish, Shape, JobsTypeOK

ThreadsOK == WorkersOK /\ UiOK /\ RecoveryOK /\ ProcessOK

LEMMA UiStepShaped ==
  ASSUME Shape, UiStep
  PROVE  ThreadsOK'
<1> USE Numbers
<1>0. [Next]_vars /\ WorkersOK /\ UiOK /\ RecoveryOK /\ ProcessOK
  BY UiStepIsStoreStep, ShapeParts
<1>1. /\ worker' = worker => WorkersOK'
      /\ ui' = ui => UiOK'
      /\ recovery' = recovery => RecoveryOK'
      /\ up' = up /\ crashes' = crashes /\ active' = active => ProcessOK'
  BY <1>0, OthersStayOK
<1>2. ui.cmd # "none" => ui.run \in Runs
  BY <1>0 DEF UiOK, UiShape
<1>3. ASSUME UiOnly, UiOK' PROVE ThreadsOK'
  BY <1>1, <1>3 DEF UiOnly, ThreadsOK
<1>4. ASSUME NEW r \in Runs, UploadDocument(r) PROVE ThreadsOK'
  BY <1>3, <1>4, CommandOK DEF UploadDocument, UiCommands
<1>5. CASE AdmitUpload
  BY <1>2, <1>3, <1>5, CommandOK, ReturnOK DEF AdmitUpload, UiCommands
<1>6. ASSUME NEW r \in Runs, NEW src \in Runs, RetryRun(src, r) PROVE ThreadsOK'
  BY <1>3, <1>6, CommandOK DEF RetryRun, UiCommands
<1>7. ASSUME NEW r \in Runs, ContinueRun(r) \/ CancelRun(r) PROVE ThreadsOK'
  BY <1>3, <1>7, CommandOK DEF ContinueRun, CancelRun, UiCommands
<1>8. CASE ClaimRun
  <2>1. ui.run \in Runs
    BY <1>2, <1>8 DEF ClaimRun
  <2>2. UiOK'
    BY <1>8, <2>1, CommandOK, ReturnOK DEF ClaimRun, UiCommands
  <2>3. active' \in [Runs -> Claims]
    BY <1>0, <1>8, <2>1 DEF ClaimRun, Claim, ProcessOK, Claims
  <2> QED
    BY <1>0, <1>1, <1>8, <2>2, <2>3 DEF ClaimRun, ProcessOK, ThreadsOK
<1>9. CASE SpawnWorker
  <2>1. WorkersOK' /\ UiOK'
    BY <1>0, <1>2, <1>9, StartOK, ReturnOK DEF SpawnWorker
  <2> QED
    BY <1>1, <1>9, <2>1 DEF SpawnWorker, ThreadsOK
<1>10. CASE SpawnFails
  <2>1. ui.run \in Runs
    BY <1>2, <1>10 DEF SpawnFails
  <2>2. UiOK'
    BY <1>10, <2>1, CommandOK, ReturnOK DEF SpawnFails, UiCommands
  <2>3. active' \in [Runs -> Claims]
    BY <1>0, <1>10, <2>1 DEF SpawnFails, ProcessOK, Claims
  <2> QED
    BY <1>0, <1>1, <1>10, <2>2, <2>3 DEF SpawnFails, ProcessOK, ThreadsOK
<1>11. CASE PersistStartFailure
  BY <1>3, <1>11, ReturnOK DEF PersistStartFailure
<1>12. CASE CommitCancel
  <2>1. CASE ui' = [ui EXCEPT !.cmd = "signal"]
    BY <1>0, <1>2, <1>3, <1>12, <2>1 DEF CommitCancel, UiOK, UiShape, UiCommands
  <2> QED
    BY <1>3, <1>12, <2>1, ReturnOK DEF CommitCancel
<1>13. CASE SignalToken
  <2>1. active' \in [Runs -> Claims]
    BY <1>0, <1>13 DEF SignalToken, ProcessOK, Claims
  <2> QED
    BY <1>0, <1>1, <1>13, <2>1, ReturnOK DEF SignalToken, ProcessOK, ThreadsOK
<1>14. ASSUME NEW r \in Runs, NEW i \in Stages, DirectStage(r, i) PROVE ThreadsOK'
  BY <1>3, <1>14, CommandOK DEF DirectStage, UiCommands
<1>15. CASE DirectBegin
  <2>1. ui.run \in Runs /\ ui.stage \in Stages
    BY <1>0, <1>15 DEF DirectBegin, UiOK, UiShape
  <2> QED
    BY <1>3, <1>15, <2>1, CommandOK, ReturnOK DEF DirectBegin, UiCommands
<1>16. CASE DirectEnd
  <2>1. CASE ui' = [ui EXCEPT !.cmd = "failing"]
    BY <1>0, <1>3, <1>16, <2>1 DEF DirectEnd, UiOK, UiShape, UiCommands
  <2> QED
    BY <1>3, <1>16, <2>1, ReturnOK DEF DirectEnd
<1>17. CASE DirectFail
  BY <1>3, <1>17, ReturnOK DEF DirectFail
<1>18. ASSUME NEW r \in Runs, IngestOnly(r) PROVE ThreadsOK'
  BY <1>1, <1>18 DEF IngestOnly, jobVars, ThreadsOK
<1>19. ASSUME NEW r \in Runs, NEW src \in Runs, CorrectText(src, r) PROVE ThreadsOK'
  BY <1>1, <1>19 DEF CorrectText, jobVars, ThreadsOK
<1> QED
  BY <1>4, <1>5, <1>6, <1>7, <1>8, <1>9, <1>10, <1>11, <1>12, <1>13, <1>14, <1>15, <1>16, <1>17,
     <1>18, <1>19 DEF UiStep

LEMMA RecoveryStepShaped ==
  ASSUME Shape, RecoveryStep
  PROVE  ThreadsOK'
<1>0. [Next]_vars /\ WorkersOK /\ UiOK /\ RecoveryOK /\ ProcessOK /\ TypeOK /\ ChildrenApart
  BY RecoveryStepIsStoreStep, ShapeParts
<1>1. /\ worker' = worker => WorkersOK'
      /\ ui' = ui => UiOK'
      /\ recovery' = recovery => RecoveryOK'
      /\ up' = up /\ crashes' = crashes /\ active' = active => ProcessOK'
  BY <1>0, OthersStayOK
<1>2. \A h \in Runs : HasHandoff(h) => HasHandoff(h)'
  BY <1>0, PromiseStays
<1>3. ASSUME RecoveryOnly, RecoveryOK' PROVE ThreadsOK'
  BY <1>1, <1>3 DEF RecoveryOnly, ThreadsOK
<1>4. ASSUME NEW h \in Runs, NEW children \in SUBSET Runs, HandoffDone(h, children)
      PROVE  RecoveryOK'
  <2>1. /\ recovery' \in [pc : RecoveryPcs, todo : SUBSET Runs, resume : SUBSET Runs,
                          reserved : SUBSET Runs, run : Runs \cup {NoRun}]
        /\ recovery'.pc = "pick" /\ recovery'.todo \subseteq recovery.todo
    BY <1>0, <1>4 DEF HandoffDone, RecoveryOK, RecoveryPcs
  <2> QED
    BY <1>0, <1>2, <2>1 DEF RecoveryOK, RecoveryShape, HasHandoff
<1>5. ASSUME NEW pc \in {"check", "exchange", "settle", "rewind", "launch"}, NEW h \in Runs,
             Recovering(pc, h), pc \in {"check", "exchange", "settle"} => HasHandoff(h)
      PROVE  RecoveryOK'
  <2>1. /\ recovery' \in [pc : RecoveryPcs, todo : SUBSET Runs, resume : SUBSET Runs,
                          reserved : SUBSET Runs, run : Runs \cup {NoRun}]
        /\ recovery'.pc = pc /\ recovery'.run = h /\ recovery'.todo = recovery.todo
    BY <1>0, <1>5 DEF Recovering, RecoveryOK, RecoveryPcs
  <2> QED
    BY <1>0, <1>2, <1>5, <2>1 DEF RecoveryOK, RecoveryShape, HasHandoff
<1>6. recovery.pc \in {"check", "exchange", "settle", "rewind", "launch"} => recovery.run \in Runs
  BY <1>0 DEF RecoveryOK, RecoveryShape
<1>7. recovery.pc \in {"check", "exchange", "settle"} => HasHandoff(recovery.run)
  BY <1>0 DEF RecoveryOK, RecoveryShape
<1>8. ASSUME NEW c \in Runs, ResumeEnds(c) PROVE RecoveryOK'
  <2>1. /\ recovery' \in [pc : RecoveryPcs, todo : SUBSET Runs, resume : SUBSET Runs,
                          reserved : SUBSET Runs, run : Runs \cup {NoRun}]
        /\ recovery'.pc = "pick" /\ recovery'.todo = recovery.todo
    BY <1>0, <1>8 DEF ResumeEnds, RecoveryOK, RecoveryPcs
  <2> QED
    BY <1>0, <1>2, <2>1 DEF RecoveryOK, RecoveryShape, HasHandoff
<1>9. \A h \in Runs : HasHandoff(h) => {handoff[h].child} \in SUBSET Runs
  BY <1>0 DEF ChildrenApart
<1>10. CASE ListHandoffs
  <2>1. RecoveryOK'
    <3>1. /\ recovery' \in [pc : RecoveryPcs, todo : SUBSET Runs, resume : SUBSET Runs,
                            reserved : SUBSET Runs, run : Runs \cup {NoRun}]
          /\ recovery'.pc = "pick"
          /\ \A h \in recovery'.todo : h \in Runs /\ handoff[h].phase \in OpenPhases \cup {"child_admitted"}
      BY <1>0, <1>10 DEF ListHandoffs, RecoveryOK, RecoveryPcs
    <3>2. \A h \in recovery'.todo : h \in Runs /\ HasHandoff(h)
      BY <3>1 DEF OpenPhases, HasHandoff
    <3> QED
      BY <1>2, <3>1, <3>2 DEF RecoveryOK, RecoveryShape, HasHandoff
  <2> QED
    BY <1>3, <1>10, <2>1 DEF ListHandoffs
<1>11. ASSUME NEW h \in Runs, PickHandoff(h) PROVE ThreadsOK'
  <2>1. CASE handoff[h].phase \in AdmittedPhases
    <3>1. HasHandoff(h)
      BY <2>1 DEF AdmittedPhases, HasHandoff
    <3>2. RecoveryOK'
      BY <1>4, <1>9, <1>11, <2>1, <3>1 DEF PickHandoff
    <3> QED
      BY <1>3, <1>11, <3>2 DEF PickHandoff
  <2>2. CASE handoff[h].phase \notin AdmittedPhases
    <3>1. recovery' = [recovery EXCEPT !.pc = "check", !.run = h] /\ HasHandoff(h)
      BY <1>0, <1>11, <2>2 DEF PickHandoff, Recovering, RecoveryOK, RecoveryShape
    <3> QED
      BY <1>3, <1>5, <1>11, <3>1 DEF PickHandoff, Recovering
  <2> QED
    BY <2>1, <2>2
<1>12. CASE RecoveryCheck
  BY <1>3, <1>5, <1>6, <1>7, <1>12 DEF RecoveryCheck
<1>13. CASE RecoveryExchange
  BY <1>3, <1>4, <1>5, <1>6, <1>7, <1>9, <1>13 DEF RecoveryExchange
<1>14. CASE RecoveryGivesUp
  BY <1>3, <1>4, <1>6, <1>14 DEF RecoveryGivesUp
<1>15. CASE RecoverySettles
  BY <1>3, <1>4, <1>6, <1>15 DEF RecoverySettles
<1>16. ASSUME NEW c \in Runs, ResumeClaims(c) PROVE ThreadsOK'
  <2>1. RecoveryOK'
    <3>1. CASE Unclaimed(c)
      BY <1>5, <1>16, <3>1 DEF ResumeClaims
    <3>2. CASE ~Unclaimed(c)
      <4>1. recovery' = [recovery EXCEPT !.resume = @ \ {c}]
        BY <1>16, <3>2 DEF ResumeClaims
      <4> QED
        BY <1>0, <1>2, <4>1 DEF RecoveryOK, RecoveryShape, HasHandoff
    <3> QED
      BY <3>1, <3>2
  <2>2. active' \in [Runs -> Claims]
    BY <1>0, <1>16 DEF ResumeClaims, Claim, ProcessOK, Claims
  <2> QED
    BY <1>0, <1>1, <1>16, <2>1, <2>2 DEF ResumeClaims, ThreadsOK, ProcessOK
<1>17. CASE ResumeRewinds
  <2> DEFINE c == recovery.run
  <2>1. c \in Runs
    BY <1>6, <1>17 DEF ResumeRewinds
  <2>2. CASE Recovering("launch", c) /\ UNCHANGED <<active, ui>>
    BY <1>1, <1>5, <1>17, <2>1, <2>2 DEF ResumeRewinds, ThreadsOK
  <2>3. CASE Release({c}) /\ ResumeEnds(c)
    <3>1. UiOK' /\ active' \in [Runs -> Claims]
      BY <2>1, <2>3, ReleaseOK
    <3> QED
      BY <1>0, <1>1, <1>8, <1>17, <2>1, <2>3, <3>1 DEF ResumeRewinds, ThreadsOK, ProcessOK
  <2> QED
    BY <1>17, <2>2, <2>3 DEF ResumeRewinds
<1>18. CASE ResumeLaunches
  <2> DEFINE c == recovery.run
  <2>1. c \in Runs /\ RecoveryOK'
    BY <1>6, <1>8, <1>18 DEF ResumeLaunches
  <2>2. CASE StartWorker(c, run[c].version) /\ UNCHANGED <<active, ui>>
    <3>1. WorkersOK'
      BY <1>0, <2>1, <2>2, Numbers, StartOK
    <3> QED
      BY <1>1, <1>18, <2>1, <2>2, <3>1 DEF ResumeLaunches, ThreadsOK
  <2>3. CASE Release({c}) /\ UNCHANGED worker
    <3>1. UiOK' /\ active' \in [Runs -> Claims]
      BY <2>1, <2>3, ReleaseOK
    <3> QED
      BY <1>0, <1>1, <1>18, <2>1, <2>3, <3>1 DEF ResumeLaunches, ThreadsOK, ProcessOK
  <2> QED
    BY <1>18, <2>2, <2>3 DEF ResumeLaunches
<1>19. CASE RecoveryEnds
  <2>1. recovery.reserved \in SUBSET Runs
    BY <1>0 DEF RecoveryOK
  <2>2. UiOK' /\ active' \in [Runs -> Claims]
    BY <1>19, <2>1, ReleaseOK DEF RecoveryEnds
  <2>3. RecoveryOK'
    <3>1. recovery' = NoRecovery
      BY <1>19 DEF RecoveryEnds
    <3> QED
      BY <3>1 DEF NoRecovery, RecoveryOK, RecoveryShape, RecoveryPcs
  <2> QED
    BY <1>0, <1>1, <1>19, <2>2, <2>3 DEF RecoveryEnds, ThreadsOK, ProcessOK
<1> QED
  BY <1>10, <1>11, <1>12, <1>13, <1>14, <1>15, <1>16, <1>17, <1>18, <1>19 DEF RecoveryStep

LEMMA WorkerStepShaped ==
  ASSUME Shape, NEW r \in Runs, WorkerStep(r)
  PROVE  ThreadsOK'
<1> DEFINE w == worker[r]
           c == handoff[r].child
<1> USE Numbers DEF WorkerPcs, ChildPcs
<1>0. [Next]_vars /\ WorkersOK /\ UiOK /\ RecoveryOK /\ ProcessOK /\ TypeOK /\ ChildrenApart
  BY WorkerStepIsStoreStep, ShapeParts
<1>1. /\ worker' = worker => WorkersOK'
      /\ ui' = ui => UiOK'
      /\ recovery' = recovery => RecoveryOK'
      /\ up' = up /\ crashes' = crashes /\ active' = active => ProcessOK'
  BY <1>0, OthersStayOK
<1>2. ASSUME WorkerOnly, WorkersOK' PROVE ThreadsOK'
  BY <1>1, <1>2 DEF WorkerOnly, ThreadsOK
<1>3. w \in Workers /\ Fits(r, w)
  BY <1>0 DEF WorkersOK, WorkerShape
<1>4. w.pc \in ChildPcs => HasHandoff(r) /\ c \in Runs
  BY <1>0, <1>3 DEF Fits, ChildrenApart
<1>5. ASSUME NEW out \in {"lost", "ocr", "other"}, WorkerOnly, End(r, out) PROVE ThreadsOK'
  BY <1>0, <1>2, <1>5, EndOK
<1>6. ASSUME NEW pc \in WorkerPcs, NEW i \in 0..Finish, NEW v \in 0..MaxVersion, WorkerOnly,
             Step(r, pc, i, v),
             pc = "begin" => i \in Stages,
             pc \in {"boundary", "ready", "parse", "work", "failing"} => i \in 1..Finish,
             pc \in ChildPcs => HasHandoff(r)
      PROVE  ThreadsOK'
  BY <1>0, <1>2, <1>6, StepOK
<1>7. Stages = 1..7 /\ Finish = 8 /\ 1 \in 1..8
  BY DEF Stages, Finish
<1>8. CASE OpenRow(r)
  BY <1>5, <1>6, <1>7, <1>8 DEF OpenRow
<1>9. CASE Plan(r)
  <2>1. StageOf(run[r].state) \in 1..Finish \/ run[r].state = "Ingesting"
    BY DEF StageOf, Finish
  <2>2. "Ingesting" \notin Checkpoints
    BY TableValues DEF ActiveStates, ActiveState
  <2>3. CASE \E out \in {"lost", "other"} : End(r, out)
    BY <1>5, <1>9, <2>3 DEF Plan
  <2>4. CASE Continuable(r) /\ Step(r, "boundary",
                        IF run[r].state = "Verified" THEN Finish ELSE StageOf(run[r].state), 0)
    <3> DEFINE i == IF run[r].state = "Verified" THEN Finish ELSE StageOf(run[r].state)
    <3>1. i \in 1..Finish /\ i \in 0..Finish
      BY <1>7, <2>1, <2>2, <2>4 DEF Continuable
    <3>2. Step(r, "boundary", i, 0) /\ WorkerOnly
      BY <1>9, <2>4 DEF Plan
    <3> HIDE DEF i
    <3> QED
      BY <1>6, <3>1, <3>2
  <2> QED
    BY <1>9, <2>3, <2>4 DEF Plan
<1>10. CASE Boundary(r)
  BY <1>3, <1>5, <1>6, <1>7, <1>10 DEF Boundary, Fits, At
<1>11. CASE Pin(r)
  BY <1>1, <1>2, <1>11 DEF Pin
<1>12. CASE ReadRow(r)
  <2> DEFINE pc == IF w.stage = Finish THEN "work" ELSE "begin"
  <2>1. WorkerOnly /\ Step(r, pc, w.stage, run[r].version) /\ w.stage \in 1..Finish
    BY <1>3, <1>12 DEF ReadRow, Fits, At
  <2>2. pc \in WorkerPcs /\ pc \notin ChildPcs /\ w.stage \in 0..Finish
    BY <1>7, <2>1
  <2>3. pc = "begin" => w.stage \in Stages
    BY <1>7, <2>1
  <2> HIDE DEF pc
  <2> QED
    BY <1>6, <2>1, <2>2, <2>3
<1>13. CASE BeginStage(r)
  <2>1. w.stage \in Stages
    BY <1>3, <1>13 DEF BeginStage, Fits, At
  <2>2. WorkerOnly
    BY <1>13 DEF BeginStage
  <2>3. CASE StartStage(r, w.stage, w.ver) /\ Step(r, "work", w.stage, Later(w.ver))
    <3>1. Later(w.ver) \in 0..MaxVersion /\ w.stage \in 1..Finish /\ w.stage \in 0..Finish
      BY <1>7, <2>1, <2>3
    <3> QED
      BY <1>6, <2>2, <2>3, <3>1
  <2>4. CASE End(r, "lost")
    BY <1>5, <2>2, <2>4
  <2> QED
    BY <1>13, <2>3, <2>4 DEF BeginStage
<1>14. CASE EndStage(r)
  <2>1. CASE w.stage \in Stages
    <3>1. w.stage + 1 \in 1..Finish /\ w.stage + 1 \in 0..Finish
      BY <1>7, <2>1
    <3>2. w.stage # Finish
      BY <1>7, <2>1
    <3> QED
      BY <1>6, <1>7, <1>14, <2>1, <3>1, <3>2 DEF EndStage
  <2>2. CASE w.stage \notin Stages
    BY <1>5, <1>14, <2>2 DEF EndStage
  <2> QED
    BY <2>1, <2>2
<1>15. CASE StageFails(r)
  BY <1>3, <1>6, <1>7, <1>15 DEF StageFails, Fits
<1>16. CASE StopMidStage(r)
  BY <1>5, <1>16 DEF StopMidStage
<1>17. CASE NoClaimSurvives(r)
  <2>1. WorkerOnly /\ (Step(r, "failing", 7, w.ver) \/ End(r, "lost"))
    BY <1>17 DEF NoClaimSurvives
  <2>2. w.ver \in 0..MaxVersion /\ 7 \in 1..Finish /\ 7 \in 0..Finish
    BY <1>7
  <2> QED
    BY <1>5, <1>6, <2>1, <2>2
<1>18. CASE WriteFailure(r)
  BY <1>5, <1>18 DEF WriteFailure
<1>19. CASE WorkerError(r) \/ OcrGivesUp(r)
  BY <1>5, <1>19 DEF WorkerError, OcrGivesUp
<1>20. CASE OcrCheck(r)
  BY <1>5, <1>6, <1>7, <1>20 DEF OcrCheck
<1>21. CASE OcrExchange(r)
  <2>1. CASE Step(r, "ocr", 1, 0) \/ End(r, "ocr")
    BY <1>5, <1>6, <1>7, <1>21, <2>1 DEF OcrExchange
  <2>2. CASE AdmitChild(r) /\ Step(r, "adopt", 1, 0)
    <3>1. HasHandoff(r)
      BY <2>2 DEF AdmitChild, HasHandoff
    <3> QED
      BY <1>6, <1>7, <1>21, <2>2, <3>1 DEF OcrExchange
  <2> QED
    BY <1>21, <2>1, <2>2 DEF OcrExchange
<1>22. CASE AdoptChild(r)
  <2>1. c \in Runs /\ HasHandoff(r)
    BY <1>4, <1>22 DEF AdoptChild, At
  <2>2. CASE Claim(c) /\ Step(r, "begin child", 1, run[c].version)
    <3>1. WorkersOK'
      BY <1>0, <1>7, <2>1, <2>2, StepOK
    <3>2. active' \in [Runs -> Claims]
      BY <1>0, <2>2 DEF Claim, ProcessOK, Claims
    <3> QED
      BY <1>0, <1>1, <1>22, <3>1, <3>2 DEF AdoptChild, ThreadsOK, ProcessOK
  <2>3. CASE UNCHANGED active /\ End(r, "ocr")
    BY <1>5, <1>22, <2>3 DEF AdoptChild, WorkerOnly
  <2> QED
    BY <1>22, <2>2, <2>3 DEF AdoptChild
<1>23. CASE BeginChild(r)
  <2>1. c \in Runs /\ HasHandoff(r)
    BY <1>4, <1>23 DEF BeginChild, At
  <2>2. CASE Step(r, "spawn child", 1, 0) /\ UNCHANGED <<active, ui>>
    BY <1>6, <1>7, <1>23, <2>1, <2>2 DEF BeginChild, WorkerOnly
  <2>3. CASE Release({c}) /\ End(r, "other")
    <3>1. UiOK' /\ active' \in [Runs -> Claims]
      BY <2>1, <2>3, ReleaseOK
    <3>2. WorkersOK'
      BY <1>0, <2>3, EndOK
    <3> QED
      BY <1>0, <1>1, <1>23, <3>1, <3>2 DEF BeginChild, ThreadsOK, ProcessOK
  <2> QED
    BY <1>23, <2>2, <2>3 DEF BeginChild
<1>24. CASE SpawnChild(r)
  <2>1. c \in Runs \ {r} /\ HasHandoff(r)
    BY <1>0, <1>4, <1>24 DEF SpawnChild, At, ChildrenApart
  <2>2. ASSUME NEW a, NEW b, worker' = [worker EXCEPT ![c] = a, ![r] = b],
               a = [Idle EXCEPT !.pc = "started"], b = [Idle EXCEPT !.pc = "final", !.out = "ocr"]
        PROVE  WorkersOK'
    <3>1. a \in Workers /\ a.pc = "started"
      BY <2>2, IdleTyped DEF Workers
    <3>2. b \in Workers /\ b.pc = "final"
      BY <2>2, IdleTyped DEF Workers
    <3>3. worker' \in [Runs -> Workers] /\ worker'[c] = a /\ worker'[r] = b
          /\ \A q \in Runs \ {r, c} : worker'[q] = worker[q]
      BY <1>0, <2>1, <2>2, <3>1, <3>2 DEF WorkersOK
    <3>4. \A q \in Runs : Fits(q, worker'[q])
      BY <1>0, <3>1, <3>2, <3>3 DEF WorkersOK, WorkerShape, Fits
    <3>5. \A h \in Runs : HasHandoff(h) => HasHandoff(h)'
      BY <1>0, PromiseStays
    <3> QED
      BY <3>3, <3>4, <3>5 DEF WorkersOK, WorkerShape, Fits
  <2>3. CASE UNCHANGED <<active, ui>>
             /\ worker' = [worker EXCEPT ![c] = [Idle EXCEPT !.pc = "started"],
                                         ![r] = [Idle EXCEPT !.pc = "final", !.out = "ocr"]]
    BY <1>1, <1>24, <2>2, <2>3 DEF SpawnChild, ThreadsOK
  <2>4. CASE Release({c}) /\ Step(r, "unstarted child", 1, 0)
    <3>1. UiOK' /\ active' \in [Runs -> Claims]
      BY <2>1, <2>4, ReleaseOK
    <3>2. WorkersOK'
      BY <1>0, <1>7, <2>1, <2>4, StepOK
    <3> QED
      BY <1>0, <1>1, <1>24, <3>1, <3>2 DEF SpawnChild, ThreadsOK, ProcessOK
  <2> QED
    BY <1>24, <2>3, <2>4 DEF SpawnChild
<1>25. CASE ChildUnstarted(r)
  BY <1>5, <1>25 DEF ChildUnstarted
<1>26. CASE Finalize(r)
  <2>1. \E pc \in {"stop", "leave", "fail"}, v \in {0, run[r].version} : Step(r, pc, 0, v)
    BY <1>26 DEF Finalize
  <2> QED
    BY <1>6, <1>26, <2>1 DEF Finalize
<1>27. CASE FinalWrite(r)
  BY <1>6, <1>27 DEF FinalWrite
<1>28. CASE Leave(r)
  <2>1. UiOK' /\ active' \in [Runs -> Claims]
    BY <1>28, ReleaseOK DEF Leave
  <2>2. WorkersOK'
    <3>1. Fits(r, Idle)
      BY IdleTyped DEF Fits
    <3> QED
      BY <1>0, <1>28, <3>1, IdleTyped, WorkerSetOK DEF Leave
  <2> QED
    BY <1>0, <1>1, <1>28, <2>1, <2>2 DEF Leave, ThreadsOK, ProcessOK
<1> QED
  BY <1>8, <1>9, <1>10, <1>11, <1>12, <1>13, <1>14, <1>15, <1>16, <1>17, <1>18, <1>19, <1>20,
     <1>21, <1>22, <1>23, <1>24, <1>25, <1>26, <1>27, <1>28 DEF WorkerStep

LEMMA ForgottenOK ==
  ASSUME worker' = [r \in Runs |-> Idle], ui' = NoCommand, recovery' = NoRecovery
  PROVE  WorkersOK' /\ UiOK' /\ RecoveryOK'
<1>1. \A r \in Runs : Fits(r, Idle)'
  BY IdleTyped DEF Fits, ChildPcs
<1>2. WorkersOK'
  BY <1>1, IdleTyped DEF WorkersOK, WorkerShape
<1>3. UiOK'
  BY ReturnOK DEF Return
<1> QED
  BY <1>2, <1>3 DEF RecoveryOK, RecoveryShape, NoRecovery, RecoveryPcs

LEMMA ProcessShaped ==
  ASSUME Shape, Crash \/ Restart
  PROVE  ThreadsOK'
<1>0. [Next]_vars /\ WorkersOK /\ UiOK /\ RecoveryOK /\ ProcessOK /\ TypeOK
  BY ShapeParts DEF Crash, Restart, Next
<1>1. /\ worker' = worker => WorkersOK'
      /\ ui' = ui => UiOK'
  BY <1>0, OthersStayOK
<1>2. CASE Crash
  <2>1. ProcessOK'
    <3>1. up' = FALSE /\ crashes' = crashes + 1 /\ crashes < MaxCrashes
      BY <1>2 DEF Crash, Later
    <3>2. crashes' \in 0..MaxCrashes
      BY <1>0, <3>1, MaxCrashesAssumption DEF ProcessOK
    <3>3. active' \in [Runs -> Claims]
      BY <1>2 DEF Crash, Claims
    <3> QED
      BY <3>1, <3>2, <3>3 DEF ProcessOK
  <2> QED
    BY <1>2, <2>1, ForgottenOK DEF Crash, ThreadsOK
<1>3. CASE Restart
  <2> DEFINE roots == {h \in Runs : handoff[h].phase \in OpenPhases}
  <2>1. ProcessOK'
    BY <1>0, <1>3 DEF Restart, ProcessOK, Claims
  <2>2. recovery' = [NoRecovery EXCEPT !.pc = "list", !.reserved = roots]
    BY <1>3 DEF Restart
  <2>3. roots \in SUBSET Runs
    OBVIOUS
  <2> HIDE DEF roots
  <2>4. RecoveryOK'
    BY <2>2, <2>3 DEF NoRecovery, RecoveryOK, RecoveryShape, RecoveryPcs
  <2> QED
    BY <1>1, <1>3, <2>1, <2>4 DEF Restart, ThreadsOK
<1> QED
  BY <1>2, <1>3

LEMMA ShapeInit == JobsInit => Shape
<1> SUFFICES ASSUME JobsInit PROVE Shape
  OBVIOUS
<1>1. TypeOK
  BY TypeOKInit DEF JobsInit
<1>2. \A h \in Runs : ~HasHandoff(h)
  BY DEF JobsInit, Init, NoHandoff, HasHandoff
<1>3. WorkersOK
  <2>1. \A r \in Runs : Fits(r, Idle)
    BY IdleTyped DEF Fits, ChildPcs
  <2> QED
    BY <2>1, IdleTyped DEF WorkersOK, WorkerShape, JobsInit
<1>4. UiOK
  BY MaxVersionAssumption DEF JobsInit, NoCommand, UiOK, UiShape, UiCommands, Finish
<1>5. RecoveryOK
  BY DEF JobsInit, RecoveryOK, RecoveryShape, NoRecovery, RecoveryPcs
<1>6. ProcessOK
  BY MaxCrashesAssumption DEF JobsInit, ProcessOK, Claims
<1> QED
  BY <1>1, <1>2, <1>3, <1>4, <1>5, <1>6, ShapeParts DEF ChildrenApart

LEMMA ShapeStep ==
  ASSUME Shape, [JobsNext]_allVars
  PROVE  Shape'
<1>1. TypeOK /\ ChildrenApart /\ [Next]_vars
  BY JobStepIsStoreStep, ShapeParts
<1>2. TypeOK' /\ ChildrenApart'
  BY <1>1, NextTyped, ChildrenStayApart
<1>3. ThreadsOK'
  <2>1. CASE UNCHANGED allVars
    BY <1>1, <2>1, OthersStayOK DEF allVars, jobVars, ThreadsOK
  <2> QED
    BY <2>1, UiStepShaped, RecoveryStepShaped, WorkerStepShaped, ProcessShaped DEF JobsNext
<1> QED
  BY <1>2, <1>3, ShapeParts DEF ThreadsOK, Shape, JobsTypeOK, WorkersOK, UiOK, RecoveryOK, ProcessOK,
     Workers

LEMMA ShapeHolds == JobsSpec => []Shape
BY ShapeInit, ShapeStep, PTL DEF JobsSpec

\* What UI thread, workers, recovery thread and restarts remember is well formed: no command, no
\* worker and no recovery ever goes past the last stage or acts on a run that is not there.
THEOREM JobsAreTyped == JobsSpec => []JobsTypeOK
BY ShapeHolds, PTL DEF Shape

\* Whatever the threads of the desktop do, in whatever order, and wherever the process dies, is a
\* behaviour of the document store: each of their steps is one of its transactions, or none.
THEOREM JobsImplementStore == JobsSpec => Spec
<1>1. JobsInit => Init
  BY DEF JobsInit
<1>2. ASSUME Shape, [JobsNext]_allVars PROVE [Next]_vars
  BY <1>2, JobStepIsStoreStep
<1> QED
  BY <1>1, <1>2, ShapeHolds, PTL DEF JobsSpec, Spec

\* So what holds of the store whatever its callers do holds under these callers.
StoreInv ==
  /\ HandoffAdmitsOneChild /\ RootRests
  /\ CancellationDurable /\ AbsentIsBlank /\ LogExplainsRun

LEMMA StoreInvHolds == JobsSpec => []StoreInv
BY JobsImplementStore, HandoffsHold, CancellationIsDurable, AbsentStaysBlank, LogExplainsEveryRun,
   PTL DEF StoreInv

-----------------------------------------------------------------------------
(* Claims.                                                                   *)

\* The thread that will release the claim of run r, by kind: its worker, the command that is
\* about to start one, the root's worker that has adopted it, the restart's reservation of a
\* root, the recovery of a child.
Starting == {"begin child", "spawn child"}
ByWorker(r) == worker[r].pc # "idle"
ByUi(r) == ui.cmd = "spawn" /\ ui.run = r
ByParent(r) == StartsChild(r, Starting)
ByReservation(r) == r \in recovery.reserved
ByRecovery(r) == recovery.pc \in {"rewind", "launch"} /\ recovery.run = r

Claimed(r) == active[r] # "none"

\* What ClaimsMatchThreads needs to be inductive: no two threads will release one claim.
OneOwner(r) ==
  /\ ByWorker(r) => ~ByUi(r) /\ ~ByParent(r) /\ ~ByReservation(r) /\ ~ByRecovery(r)
  /\ ByUi(r) => ~ByParent(r) /\ ~ByReservation(r) /\ ~ByRecovery(r)
  /\ ByParent(r) => ~ByReservation(r) /\ ~ByRecovery(r)
  /\ ByReservation(r) => ~ByRecovery(r)

Owned(r) ==
  /\ Claimed(r) <=> ByWorker(r) \/ ByUi(r) \/ ByParent(r) \/ ByReservation(r) \/ ByRecovery(r)
  /\ OneOwner(r)

\* Nothing is remembered while the process is down, and a token a command holds is the claim's.
Forgotten ==
  ~up => /\ ui = NoCommand /\ recovery = NoRecovery
         /\ \A r \in Runs : worker[r] = Idle /\ active[r] = "none"
TokenHeld == ui.cmd \in {"cancel", "signal"} /\ ui.live => Claimed(ui.run)

ClaimInv == (\A r \in Runs : Owned(r)) /\ Forgotten /\ TokenHeld

LEMMA OwnedIsMatched == (\A r \in Runs : Owned(r)) => ClaimsMatchThreads
BY DEF Owned, Claimed, ClaimsMatchThreads, Releases, ByWorker, ByUi, ByParent, ByReservation,
   ByRecovery, Starting

\* Which runs a step's threads are starting as children, told from the promises before it.
LEMMA ParentsAfter ==
  ASSUME Shape, [Next]_vars, NEW q \in Runs,
         \A h \in Runs : worker'[h].pc \in Starting => HasHandoff(h)
  PROVE  ByParent(q)' <=> \E h \in Runs : handoff[h].child = q /\ worker'[h].pc \in Starting
<1>1. \A h \in Runs : HasHandoff(h) => handoff'[h].child = handoff[h].child
  BY PromiseStays DEF Shape
<1> QED
  BY <1>1 DEF ByParent, StartsChild

LEMMA ParentsHaveHandoffs ==
  ASSUME Shape, NEW h \in Runs, worker[h].pc \in Starting
  PROVE  HasHandoff(h)
BY DEF Shape, WorkerShape, Fits, ChildPcs, Starting

\* Steps that leave the workers alone leave the children to be started alone.
LEMMA ParentsStay ==
  ASSUME Shape, [Next]_vars, worker' = worker, NEW q \in Runs
  PROVE  ByParent(q)' <=> ByParent(q)
<1>1. \A h \in Runs : worker'[h].pc \in Starting => HasHandoff(h)
  BY ParentsHaveHandoffs
<1> QED
  BY <1>1, ParentsAfter DEF ByParent, StartsChild

-----------------------------------------------------------------------------
(* What a worker's step does to itself and to others.                        *)

LEMMA StepIs ==
  ASSUME Shape, NEW r \in Runs, NEW pc, NEW i, NEW v, Step(r, pc, i, v)
  PROVE  /\ worker'[r] = [pc |-> pc, stage |-> i, ver |-> v, out |-> "none"]
         /\ worker'[r].pc = pc /\ worker'[r].stage = i /\ worker'[r].ver = v
         /\ \A q \in Runs \ {r} : worker'[q] = worker[q]
BY DEF Step, Shape, JobsTypeOK

LEMMA EndIs ==
  ASSUME Shape, NEW r \in Runs, NEW out, End(r, out)
  PROVE  /\ worker'[r].pc = "final" /\ worker'[r].out = out
         /\ \A q \in Runs \ {r} : worker'[q] = worker[q]
<1>1. worker' = [worker EXCEPT ![r] = [Idle EXCEPT !.pc = "final", !.out = out]]
  BY DEF End
<1>2. worker'[r] = [Idle EXCEPT !.pc = "final", !.out = out]
      /\ \A q \in Runs \ {r} : worker'[q] = worker[q]
  BY <1>1 DEF Shape, JobsTypeOK
<1> QED
  BY <1>2, IdleTyped DEF Workers

LEMMA StartWorkerIs ==
  ASSUME Shape, NEW r \in Runs, NEW v, StartWorker(r, v)
  PROVE  /\ worker'[r].pc = IF v = 0 THEN "started" ELSE "continue"
         /\ worker'[r].ver = v
         /\ worker'[r].pc \in {"started", "continue"}
         /\ \A q \in Runs \ {r} : worker'[q] = worker[q]
<1> DEFINE pc == IF v = 0 THEN "started" ELSE "continue"
           w == [Idle EXCEPT !.pc = pc, !.ver = v]
<1>1. worker' = [worker EXCEPT ![r] = w] /\ w = [Idle EXCEPT !.pc = pc, !.ver = v]
  BY DEF StartWorker
<1>2. pc \in {"started", "continue"}
  OBVIOUS
<1> HIDE DEF w
<1>3. w.pc = pc /\ w.ver = v
  BY <1>1, IdleTyped DEF Workers
<1> QED
  BY <1>1, <1>2, <1>3 DEF Shape, JobsTypeOK

\* A worker that is not about to start a child, or to leave, keeps the run it has.
WorksOn(r) ==
  /\ WorkerOnly
  /\ worker[r].pc \notin Starting \cup {"idle"} /\ worker'[r].pc \notin Starting \cup {"idle"}
  /\ \A q \in Runs \ {r} : worker'[q] = worker[q]

Hands(r) == AdoptChild(r) \/ BeginChild(r) \/ SpawnChild(r) \/ Leave(r)

LEMMA WorkerWorksOn ==
  ASSUME Shape, NEW r \in Runs, WorkerStep(r)
  PROVE  WorksOn(r) \/ Hands(r)
<1> DEFINE pc == worker[r].pc
<1>1. ASSUME NEW to, NEW i, NEW v, Step(r, to, i, v), to \notin Starting \cup {"idle"}, WorkerOnly,
             pc \notin Starting \cup {"idle"}
      PROVE  WorksOn(r)
  BY <1>1, StepIs DEF WorksOn
<1>2. ASSUME NEW out, End(r, out), WorkerOnly, pc \notin Starting \cup {"idle"}
      PROVE  WorksOn(r)
  BY <1>2, EndIs DEF WorksOn, Starting
<1> USE <1>1, <1>2 DEF Starting, At
<1>3. CASE OpenRow(r)
  <2>1. pc = "started" /\ WorkerOnly
        /\ (End(r, "other") \/ Step(r, "parse", 1, run[r].version))
    BY <1>3 DEF OpenRow
  <2>2. CASE End(r, "other")
    BY <2>1, <2>2
  <2>3. CASE Step(r, "parse", 1, run[r].version)
    <3>1. worker'[r].pc = "parse" /\ \A q \in Runs \ {r} : worker'[q] = worker[q]
      BY <2>3, StepIs
    <3> QED
      BY <2>1, <3>1 DEF WorksOn
  <2> QED
    BY <2>1, <2>2, <2>3
<1>4. CASE Plan(r)
  BY <1>4 DEF Plan
<1>5. CASE Boundary(r)
  BY <1>5 DEF Boundary
<1>6. CASE Pin(r)
  BY <1>6 DEF Pin, WorksOn
<1>7. CASE ReadRow(r)
  <2>1. pc = "ready" /\ WorkerOnly
        /\ \E to \in {"work", "begin"} : Step(r, to, worker[r].stage, run[r].version)
    BY <1>7 DEF ReadRow
  <2> QED
    BY <2>1
<1>8. CASE BeginStage(r)
  <2>1. pc = "begin" /\ WorkerOnly
        /\ (End(r, "lost") \/ Step(r, "work", worker[r].stage, Later(worker[r].ver)))
    BY <1>8 DEF BeginStage
  <2>2. CASE End(r, "lost")
    BY <2>1, <2>2
  <2>3. CASE Step(r, "work", worker[r].stage, Later(worker[r].ver))
    <3>1. worker'[r].pc = "work" /\ \A q \in Runs \ {r} : worker'[q] = worker[q]
      BY <2>3, StepIs
    <3> QED
      BY <2>1, <3>1 DEF WorksOn
  <2> QED
    BY <2>1, <2>2, <2>3
<1>9. CASE EndStage(r)
  BY <1>9 DEF EndStage
<1>10. CASE StageFails(r) \/ StopMidStage(r)
  <2>1. pc \in {"parse", "work"} /\ WorkerOnly
        /\ (End(r, "other") \/ Step(r, "failing", worker[r].stage, worker[r].ver))
    BY <1>10 DEF StageFails, StopMidStage
  <2>2. CASE End(r, "other")
    BY <2>1, <2>2
  <2>3. CASE Step(r, "failing", worker[r].stage, worker[r].ver)
    <3>1. worker'[r].pc = "failing" /\ \A q \in Runs \ {r} : worker'[q] = worker[q]
      BY <2>3, StepIs
    <3> QED
      BY <2>1, <3>1 DEF WorksOn
  <2> QED
    BY <2>1, <2>2, <2>3
<1>11. CASE NoClaimSurvives(r)
  <2>1. pc = "work" /\ WorkerOnly
        /\ (End(r, "lost") \/ Step(r, "failing", 7, worker[r].ver))
    BY <1>11 DEF NoClaimSurvives
  <2>2. CASE End(r, "lost")
    BY <2>1, <2>2
  <2>3. CASE Step(r, "failing", 7, worker[r].ver)
    <3>1. worker'[r].pc = "failing" /\ \A q \in Runs \ {r} : worker'[q] = worker[q]
      BY <2>3 DEF Step, Shape, JobsTypeOK
    <3> QED
      BY <2>1, <3>1 DEF WorksOn
  <2> QED
    BY <2>1, <2>2, <2>3
<1>12. CASE WriteFailure(r)
  BY <1>12 DEF WriteFailure
<1>13. CASE WorkerError(r) \/ OcrGivesUp(r)
  BY <1>13 DEF WorkerError, OcrGivesUp
<1>14. CASE OcrCheck(r)
  BY <1>14 DEF OcrCheck
<1>15. CASE OcrExchange(r)
  BY <1>15 DEF OcrExchange
<1>16. CASE ChildUnstarted(r)
  BY <1>16 DEF ChildUnstarted
<1>17. CASE Finalize(r)
  <2>1. \E to \in {"stop", "leave", "fail"}, v \in {0, run[r].version} : Step(r, to, 0, v)
    BY <1>17 DEF Finalize
  <2> QED
    BY <1>17, <2>1 DEF Finalize
<1>18. CASE FinalWrite(r)
  BY <1>18 DEF FinalWrite
<1> QED
  BY <1>3, <1>4, <1>5, <1>6, <1>7, <1>8, <1>9, <1>10, <1>11, <1>12, <1>13, <1>14, <1>15, <1>16,
     <1>17, <1>18 DEF WorkerStep, Hands
-----------------------------------------------------------------------------
(* One owner to each claim, step by step.                                    *)

\* Nothing happens to the claim of q and to the threads that would release it.
SameOwner(q) ==
  /\ Claimed(q)' <=> Claimed(q)
  /\ ByWorker(q)' <=> ByWorker(q)
  /\ ByUi(q)' <=> ByUi(q)
  /\ ByParent(q)' <=> ByParent(q)
  /\ ByReservation(q)' <=> ByReservation(q)
  /\ ByRecovery(q)' <=> ByRecovery(q)

LEMMA StaysOwned ==
  ASSUME NEW q \in Runs, Owned(q), SameOwner(q)
  PROVE  Owned(q)'
BY DEF Owned, OneOwner, SameOwner

\* A running process forgets nothing.
LEMMA UpForgets == ASSUME up' = TRUE PROVE Forgotten'
BY DEF Forgotten

\* Whoever has something to do belongs to a process that is up.
LEMMA UpWhenBusy ==
  ASSUME Forgotten, Shape
  PROVE  /\ \A r \in Runs : worker[r].pc # "idle" => up
         /\ \A r \in Runs : active[r] # "none" => up
         /\ ui.cmd # "none" => up
         /\ recovery.pc # "off" => up
         /\ up \in BOOLEAN
<1>1. \A r \in Runs : worker[r] = Idle => worker[r].pc = "idle"
  BY IdleTyped
<1>2. ui = NoCommand => ui.cmd = "none"
  BY DEF NoCommand
<1>3. recovery = NoRecovery => recovery.pc = "off"
  BY DEF NoRecovery
<1> QED
  BY <1>1, <1>2, <1>3 DEF Forgotten, Shape, JobsTypeOK

\* A worker that works on, and the children it may have promised.
LEMMA WorksOnKeepsClaims ==
  ASSUME Shape, [Next]_vars, ClaimInv, NEW r \in Runs, WorksOn(r)
  PROVE  ClaimInv'
<1>1. up /\ up' = up
  BY UpWhenBusy DEF WorksOn, WorkerOnly, ClaimInv
<1>2. ASSUME NEW q \in Runs PROVE Owned(q)'
  <2>1. \A h \in Runs : worker'[h].pc \in Starting => worker'[h] = worker[h]
    BY DEF WorksOn
  <2>2. \A h \in Runs : worker[h].pc \in Starting => worker'[h] = worker[h]
    BY DEF WorksOn
  <2>3. \A h \in Runs : worker'[h].pc \in Starting => HasHandoff(h)
    BY <2>1, ParentsHaveHandoffs
  <2>4. ByParent(q)' <=> ByParent(q)
    BY <2>1, <2>2, <2>3, ParentsAfter DEF ByParent, StartsChild
  <2>5. ByWorker(q)' <=> ByWorker(q)
    BY DEF WorksOn, ByWorker
  <2>6. SameOwner(q)
    BY <2>4, <2>5 DEF SameOwner, WorksOn, WorkerOnly, Claimed, ByUi, ByReservation, ByRecovery
  <2> QED
    BY <2>6, StaysOwned DEF ClaimInv
<1>3. TokenHeld'
  BY DEF ClaimInv, TokenHeld, WorksOn, WorkerOnly, Claimed
<1> QED
  BY <1>1, <1>2, <1>3, UpForgets DEF ClaimInv

\* A worker that starts a child has it to itself.
LEMMA ChildIsItsOwn ==
  ASSUME Shape, StoreInv, NEW r \in Runs, worker[r].pc \in ChildPcs
  PROVE  /\ handoff[r].child \in Runs \ {r}
         /\ \A h \in Runs : handoff[h].child = handoff[r].child => h = r
<1>1. HasHandoff(r) /\ handoff[r].child \in Runs \ {r}
  BY DEF Shape, WorkerShape, Fits, ChildrenApart
<1>2. ASSUME NEW h \in Runs, handoff[h].child = handoff[r].child PROVE h = r
  BY <1>1, <1>2 DEF StoreInv, HandoffAdmitsOneChild
<1> QED
  BY <1>1, <1>2

\* The claims a step takes or gives up: nobody else's change.
LEMMA ClaimsRest ==
  ASSUME ClaimInv, up' = TRUE, TokenHeld', NEW c \in Runs, Owned(c)',
         \A q \in Runs \ {c} : SameOwner(q)
  PROVE  ClaimInv'
<1>1. \A q \in Runs : Owned(q)'
  <2> SUFFICES ASSUME NEW q \in Runs PROVE Owned(q)'
    OBVIOUS
  <2>1. CASE q = c
    BY <2>1
  <2>2. CASE q # c
    BY <2>2, StaysOwned DEF ClaimInv
  <2> QED
    BY <2>1, <2>2
<1> QED
  BY <1>1, UpForgets DEF ClaimInv

\* Releasing a claim takes no token from another.
LEMMA ReleaseHoldsTokens ==
  ASSUME Shape, ClaimInv, NEW S \in SUBSET Runs, Release(S)
  PROVE  /\ TokenHeld'
         /\ \A q \in Runs : /\ q \in S => ~Claimed(q)'
                            /\ q \notin S => (Claimed(q)' <=> Claimed(q))
                            /\ ByUi(q)' <=> ByUi(q)
<1>1. \A q \in Runs : active'[q] = IF q \in S THEN "none" ELSE active[q]
  BY DEF Release
<1>2. /\ ui'.cmd = ui.cmd /\ ui'.run = ui.run
      /\ ui'.live => ui.live /\ ui.run \notin S
  <2>1. CASE ui.run \in S
    BY <2>1 DEF Release, Shape, JobsTypeOK
  <2>2. CASE ui.run \notin S
    BY <2>2 DEF Release
  <2> QED
    BY <2>1, <2>2
<1>3. ui.cmd # "none" => ui.run \in Runs
  BY DEF Shape, UiShape
<1>4. \A q \in Runs : /\ q \in S => ~Claimed(q)'
                      /\ q \notin S => (Claimed(q)' <=> Claimed(q))
                      /\ ByUi(q)' <=> ByUi(q)
  BY <1>1, <1>2 DEF Claimed, ByUi
<1>5. TokenHeld'
  BY <1>1, <1>2, <1>3 DEF ClaimInv, TokenHeld, Claimed
<1> QED
  BY <1>4, <1>5

LEMMA AdoptKeepsClaims ==
  ASSUME Shape, StoreInv, [Next]_vars, ClaimInv, NEW r \in Runs, AdoptChild(r)
  PROVE  ClaimInv'
<1> DEFINE c == handoff[r].child
<1>1. worker[r].pc = "adopt" /\ up /\ up' = TRUE /\ ui' = ui /\ recovery' = recovery
  BY UpWhenBusy DEF AdoptChild, At, ClaimInv
<1>2. c \in Runs \ {r} /\ \A h \in Runs : handoff[h].child = c => h = r
  BY <1>1, ChildIsItsOwn DEF ChildPcs
<1>3. CASE active' = active /\ End(r, "ocr")
  <2>1. WorksOn(r)
    BY <1>1, <1>3, EndIs DEF WorksOn, WorkerOnly, AdoptChild, Starting
  <2> QED
    BY <2>1, WorksOnKeepsClaims
<1>4. CASE Unclaimed(c) /\ Claim(c) /\ Step(r, "begin child", 1, run[c].version)
  <2>1. /\ worker'[r].pc = "begin child"
        /\ \A q \in Runs \ {r} : worker'[q] = worker[q]
    BY <1>4 DEF Step, Shape, JobsTypeOK
  <2>2. active'[c] = "live" /\ active[c] = "none"
        /\ \A q \in Runs \ {c} : active'[q] = active[q]
    BY <1>2, <1>4 DEF Claim, Unclaimed, Shape, JobsTypeOK
  <2>3. HasHandoff(r) /\ \A h \in Runs : worker'[h].pc \in Starting => HasHandoff(h)
    <3>1. HasHandoff(r)
      BY <1>1 DEF Shape, WorkerShape, Fits, ChildPcs
    <3> QED
      BY <2>1, <3>1, ParentsHaveHandoffs
  <2>4. TokenHeld'
    BY <1>1, <2>2 DEF ClaimInv, TokenHeld, Claimed, Shape, UiShape
  <2>5. ASSUME NEW q \in Runs \ {c} PROVE SameOwner(q)
    <3>1. ByParent(q)' <=> ByParent(q)
      <4>1. q \in Runs /\ handoff[r].child # q
        BY <2>5
      <4>2. ByParent(q)' <=> \E h \in Runs : handoff[h].child = q /\ worker'[h].pc \in Starting
        BY <2>3, <4>1, ParentsAfter
      <4> QED
        BY <2>1, <4>1, <4>2 DEF ByParent, StartsChild
    <3> QED
      BY <1>1, <2>1, <2>2, <2>5, <3>1
      DEF SameOwner, ByWorker, ByUi, ByReservation, ByRecovery, Claimed
  <2>6. ASSUME NEW q \in Runs, q = c PROVE Owned(q)'
    <3>1. ~ByWorker(q) /\ ~ByUi(q) /\ ~ByParent(q) /\ ~ByReservation(q) /\ ~ByRecovery(q)
      BY <2>2, <2>6 DEF ClaimInv, Owned, Claimed
    <3>2. ~ByWorker(q)' /\ ~ByUi(q)' /\ ~ByReservation(q)' /\ ~ByRecovery(q)'
      BY <1>1, <1>2, <2>1, <2>6, <3>1 DEF ByWorker, ByUi, ByReservation, ByRecovery
    <3>3. ByParent(q)'
      BY <2>1, <2>3, <2>6, ParentsAfter DEF Starting
    <3>4. Claimed(q)'
      BY <2>2, <2>6 DEF Claimed
    <3> QED
      BY <3>2, <3>3, <3>4 DEF Owned, OneOwner
  <2> QED
    BY <1>1, <1>2, <2>4, <2>5, <2>6, ClaimsRest
<1> QED
  BY <1>3, <1>4 DEF AdoptChild

\* A parent that gives its child up.
LEMMA ParentGivesUp ==
  ASSUME Shape, StoreInv, [Next]_vars, ClaimInv, NEW r \in Runs, worker[r].pc \in Starting,
         worker'[r].pc \notin Starting \cup {"idle"}, Release({handoff[r].child}),
         \A q \in Runs \ {r} : worker'[q] = worker[q], up' = up, recovery' = recovery
  PROVE  ClaimInv'
<1> DEFINE c == handoff[r].child
<1>1. worker[r].pc \in ChildPcs /\ worker[r].pc # "idle"
  BY DEF ChildPcs, Starting
<1>2. c \in Runs \ {r} /\ \A h \in Runs : handoff[h].child = c => h = r
  BY <1>1, ChildIsItsOwn
<1>3. up' = TRUE
  BY <1>1, UpWhenBusy DEF ClaimInv
<1>4. \A h \in Runs : worker'[h].pc \in Starting => HasHandoff(h)
  BY ParentsHaveHandoffs
<1>5. {c} \in SUBSET Runs
  BY <1>2
<1>6. /\ TokenHeld'
      /\ \A q \in Runs : /\ q = c => ~Claimed(q)'
                         /\ q # c => (Claimed(q)' <=> Claimed(q))
                         /\ ByUi(q)' <=> ByUi(q)
  BY <1>5, ReleaseHoldsTokens
<1>7. ASSUME NEW q \in Runs
      PROVE  ByParent(q)' <=> ByParent(q) /\ q # c
  <2>1. ByParent(q)' <=> \E h \in Runs : handoff[h].child = q /\ worker'[h].pc \in Starting
    BY <1>4, ParentsAfter
  <2> QED
    BY <1>2, <2>1 DEF ByParent, StartsChild
<1>8. ASSUME NEW q \in Runs
      PROVE  /\ ByWorker(q)' <=> ByWorker(q)
             /\ ByReservation(q)' <=> ByReservation(q)
             /\ ByRecovery(q)' <=> ByRecovery(q)
  BY <1>1 DEF ByWorker, ByReservation, ByRecovery
<1>9. \A q \in Runs \ {c} : SameOwner(q)
  BY <1>6, <1>7, <1>8 DEF SameOwner
<1>10. ASSUME NEW q \in Runs, q = c PROVE Owned(q)'
  <2>1. ByParent(q)
    BY <1>10 DEF ByParent, StartsChild
  <2>2. ~ByWorker(q) /\ ~ByUi(q) /\ ~ByReservation(q) /\ ~ByRecovery(q)
    BY <2>1 DEF ClaimInv, Owned, OneOwner
  <2> QED
    BY <1>6, <1>7, <1>8, <1>10, <2>2 DEF Owned, OneOwner
<1> QED
  BY <1>2, <1>3, <1>6, <1>9, <1>10, ClaimsRest

LEMMA BeginChildKeepsClaims ==
  ASSUME Shape, StoreInv, [Next]_vars, ClaimInv, NEW r \in Runs, BeginChild(r)
  PROVE  ClaimInv'
<1> DEFINE c == handoff[r].child
<1>1. worker[r].pc = "begin child" /\ up' = up /\ recovery' = recovery /\ crashes' = crashes
  BY DEF BeginChild, At
<1>2. CASE Step(r, "spawn child", 1, 0) /\ UNCHANGED <<active, ui>>
  <2>1. worker'[r].pc = "spawn child" /\ \A q \in Runs \ {r} : worker'[q] = worker[q]
    BY <1>2 DEF Step, Shape, JobsTypeOK
  <2>2. \A h \in Runs : worker'[h].pc \in Starting <=> worker[h].pc \in Starting
    BY <1>1, <2>1 DEF Starting
  <2>3. \A h \in Runs : worker'[h].pc \in Starting => HasHandoff(h)
    BY <2>2, ParentsHaveHandoffs
  <2>4. ASSUME NEW q \in Runs PROVE Owned(q)'
    <3>1. ByParent(q)' <=> ByParent(q)
      BY <2>2, <2>3, ParentsAfter DEF ByParent, StartsChild
    <3>2. ByWorker(q)' <=> ByWorker(q)
      BY <1>1, <2>1 DEF ByWorker
    <3>3. SameOwner(q)
      BY <1>1, <1>2, <3>1, <3>2 DEF SameOwner, Claimed, ByUi, ByReservation, ByRecovery
    <3> QED
      BY <3>3, StaysOwned DEF ClaimInv
  <2>5. up' = TRUE
    BY <1>1, UpWhenBusy DEF ClaimInv
  <2>6. TokenHeld'
    BY <1>2 DEF ClaimInv, TokenHeld, Claimed
  <2> QED
    BY <2>4, <2>5, <2>6, UpForgets DEF ClaimInv
<1>3. CASE Release({c}) /\ End(r, "other")
  <2>1. worker'[r].pc = "final" /\ \A q \in Runs \ {r} : worker'[q] = worker[q]
    BY <1>3, EndIs
  <2> QED
    BY <1>1, <1>3, <2>1, ParentGivesUp DEF Starting
<1> QED
  BY <1>2, <1>3 DEF BeginChild

LEMMA SpawnChildKeepsClaims ==
  ASSUME Shape, StoreInv, [Next]_vars, ClaimInv, NEW r \in Runs, SpawnChild(r)
  PROVE  ClaimInv'
<1> DEFINE c == handoff[r].child
           started == [Idle EXCEPT !.pc = "started"]
           final == [Idle EXCEPT !.pc = "final", !.out = "ocr"]
<1>1. worker[r].pc = "spawn child" /\ up' = up /\ recovery' = recovery
  BY DEF SpawnChild, At
<1>2. c \in Runs \ {r} /\ \A h \in Runs : handoff[h].child = c => h = r
  BY <1>1, ChildIsItsOwn DEF ChildPcs
<1>3. CASE Release({c}) /\ Step(r, "unstarted child", 1, 0)
  <2>1. worker'[r].pc = "unstarted child" /\ \A q \in Runs \ {r} : worker'[q] = worker[q]
    BY <1>3 DEF Step, Shape, JobsTypeOK
  <2> QED
    BY <1>1, <1>3, <2>1, ParentGivesUp DEF Starting
<1>4. CASE worker' = [worker EXCEPT ![c] = started, ![r] = final] /\ UNCHANGED <<active, ui>>
  <2>1. started.pc = "started" /\ final.pc = "final"
    BY IdleTyped DEF Workers
  <2> HIDE DEF started, final
  <2>2. /\ worker'[c] = started /\ worker'[r] = final
        /\ \A q \in Runs \ {r, c} : worker'[q] = worker[q]
    BY <1>2, <1>4 DEF Shape, JobsTypeOK
  <2>3. ASSUME NEW q \in Runs, q = c
        PROVE  ByParent(q) /\ Claimed(q)
               /\ ~ByWorker(q) /\ ~ByUi(q) /\ ~ByReservation(q) /\ ~ByRecovery(q)
    <3>1. ByParent(q)
      BY <1>1, <2>3 DEF ByParent, StartsChild, Starting
    <3> QED
      BY <3>1 DEF ClaimInv, Owned, OneOwner
  <2>4. worker[c].pc = "idle"
    BY <1>2, <2>3 DEF ByWorker
  <2>5. \A h \in Runs : worker'[h].pc \in Starting <=> worker[h].pc \in Starting /\ h # r
    BY <1>1, <1>2, <2>1, <2>2, <2>4 DEF Starting
  <2>6. \A h \in Runs : worker'[h].pc \in Starting => HasHandoff(h)
    BY <2>5, ParentsHaveHandoffs
  <2>7. ASSUME NEW q \in Runs
        PROVE  /\ ByParent(q)' <=> ByParent(q) /\ q # c
               /\ ByWorker(q)' <=> ByWorker(q) \/ q = c
               /\ ByUi(q)' <=> ByUi(q)
               /\ ByReservation(q)' <=> ByReservation(q)
               /\ ByRecovery(q)' <=> ByRecovery(q)
               /\ Claimed(q)' <=> Claimed(q)
    <3>1. ByParent(q)' <=> \E h \in Runs : handoff[h].child = q /\ worker'[h].pc \in Starting
      BY <2>6, ParentsAfter
    <3>2. ByParent(q)' <=> ByParent(q) /\ q # c
      BY <1>2, <2>5, <3>1 DEF ByParent, StartsChild
    <3>3. ByWorker(q)' <=> ByWorker(q) \/ q = c
      BY <1>1, <2>1, <2>2 DEF ByWorker
    <3> QED
      BY <1>1, <1>4, <3>2, <3>3 DEF ByUi, ByReservation, ByRecovery, Claimed
  <2>8. \A q \in Runs \ {c} : SameOwner(q)
    BY <2>7 DEF SameOwner
  <2>9. ASSUME NEW q \in Runs, q = c PROVE Owned(q)'
    BY <2>3, <2>7, <2>9 DEF Owned, OneOwner
  <2>10. up' = TRUE
    BY <1>1, UpWhenBusy DEF ClaimInv
  <2>11. TokenHeld'
    BY <1>4 DEF ClaimInv, TokenHeld, Claimed
  <2> QED
    BY <1>2, <2>8, <2>9, <2>10, <2>11, ClaimsRest
<1> QED
  BY <1>3, <1>4 DEF SpawnChild

LEMMA LeaveKeepsClaims ==
  ASSUME Shape, StoreInv, [Next]_vars, ClaimInv, NEW r \in Runs, Leave(r)
  PROVE  ClaimInv'
<1>1. /\ worker[r].pc = "leave" /\ up' = up /\ recovery' = recovery /\ Release({r})
      /\ worker'[r] = Idle /\ \A q \in Runs \ {r} : worker'[q] = worker[q]
  BY DEF Leave, At, Shape, JobsTypeOK
<1>2. worker'[r].pc = "idle"
  BY <1>1, IdleTyped
<1>3. /\ TokenHeld'
      /\ \A q \in Runs : /\ q = r => ~Claimed(q)'
                         /\ q # r => (Claimed(q)' <=> Claimed(q))
                         /\ ByUi(q)' <=> ByUi(q)
  <2>1. {r} \in SUBSET Runs
    OBVIOUS
  <2> QED
    BY <1>1, <2>1, ReleaseHoldsTokens
<1>4. \A h \in Runs : worker'[h].pc \in Starting <=> worker[h].pc \in Starting
  BY <1>1, <1>2 DEF Starting
<1>5. \A h \in Runs : worker'[h].pc \in Starting => HasHandoff(h)
  BY <1>4, ParentsHaveHandoffs
<1>6. ASSUME NEW q \in Runs
      PROVE  /\ ByParent(q)' <=> ByParent(q)
             /\ ByWorker(q)' <=> ByWorker(q) /\ q # r
             /\ ByReservation(q)' <=> ByReservation(q)
             /\ ByRecovery(q)' <=> ByRecovery(q)
  <2>1. ByParent(q)' <=> ByParent(q)
    BY <1>4, <1>5, ParentsAfter DEF ByParent, StartsChild
  <2> QED
    BY <1>1, <1>2, <2>1 DEF ByWorker, ByReservation, ByRecovery
<1>7. \A q \in Runs \ {r} : SameOwner(q)
  BY <1>3, <1>6 DEF SameOwner
<1>8. Owned(r)'
  <2>1. ByWorker(r)
    BY <1>1 DEF ByWorker
  <2>2. ~ByUi(r) /\ ~ByParent(r) /\ ~ByReservation(r) /\ ~ByRecovery(r)
    BY <2>1 DEF ClaimInv, Owned, OneOwner
  <2> QED
    BY <1>3, <1>6, <2>2 DEF Owned, OneOwner
<1>9. up' = TRUE
  BY <1>1, UpWhenBusy DEF ClaimInv
<1> QED
  BY <1>3, <1>7, <1>8, <1>9, ClaimsRest

LEMMA WorkerKeepsClaims ==
  ASSUME Shape, StoreInv, [Next]_vars, ClaimInv, NEW r \in Runs, WorkerStep(r)
  PROVE  ClaimInv'
BY WorkerWorksOn, WorksOnKeepsClaims, AdoptKeepsClaims, BeginChildKeepsClaims,
   SpawnChildKeepsClaims, LeaveKeepsClaims DEF Hands

\* A command that neither takes a claim nor gives one up.
UiRests ==
  /\ UiOnly
  /\ ui.cmd # "spawn" /\ ui'.cmd # "spawn"
  /\ ui'.cmd \in {"cancel", "signal"} /\ ui'.live =>
       \/ Claimed(ui'.run)
       \/ ui.cmd \in {"cancel", "signal"} /\ ui.live /\ ui'.run = ui.run

UiHands == ClaimRun \/ SpawnWorker \/ SpawnFails \/ SignalToken

\* What a command leaves of the UI thread.
LEMMA CommandIs ==
  ASSUME NEW cmd, NEW r, NEW i, NEW v, Command(cmd, r, i, v)
  PROVE  ui'.cmd = cmd /\ ui'.run = r /\ ui'.stage = i /\ ui'.ver = v /\ ui'.live = TRUE
BY DEF Command

LEMMA ReturnIs ==
  ASSUME Return
  PROVE  ui' = NoCommand /\ ui'.cmd = "none"
BY DEF Return, NoCommand

LEMMA UiRestsOrHands ==
  ASSUME Shape, UiStep
  PROVE  UiRests \/ UiHands
<1> DEFINE Quiet == {"admit", "claim", "direct", "working", "unstarted", "failing", "none"}
<1>1. UiFree => ui.cmd = "none"
  BY DEF UiFree, NoCommand
<1>2. ASSUME UiOnly, ui.cmd # "spawn", ui'.cmd \in Quiet PROVE UiRests
  BY <1>2 DEF UiRests
<1>3. ASSUME NEW r \in Runs, UploadDocument(r) PROVE UiRests
  <2>1. ui'.cmd = "admit"
    BY <1>3 DEF UploadDocument, Command
  <2> QED
    BY <1>1, <1>2, <1>3, <2>1 DEF UploadDocument
<1>4. ASSUME NEW r \in Runs, IngestOnly(r) PROVE UiRests
  BY <1>1, <1>2, <1>4 DEF IngestOnly, jobVars, UiOnly
<1>5. ASSUME NEW r \in Runs, ContinueRun(r) PROVE UiRests
  <2>1. ui'.cmd = "claim"
    BY <1>5 DEF ContinueRun, Command
  <2> QED
    BY <1>1, <1>2, <1>5, <2>1 DEF ContinueRun
<1>6. ASSUME NEW r \in Runs, CancelRun(r) PROVE UiRests
  <2>1. ui'.cmd = "cancel" /\ ui'.run = r
    BY <1>6 DEF CancelRun, Command
  <2>2. active[r] # "none" /\ UiOnly /\ ui.cmd # "spawn"
    BY <1>1, <1>6 DEF CancelRun, Unclaimed
  <2> QED
    BY <2>1, <2>2 DEF UiRests, Claimed
<1>7. ASSUME NEW r \in Runs, NEW src \in Runs, RetryRun(src, r) PROVE UiRests
  <2>1. ui'.cmd = "claim"
    BY <1>7 DEF RetryRun, Command
  <2> QED
    BY <1>1, <1>2, <1>7, <2>1 DEF RetryRun
<1>8. ASSUME NEW r \in Runs, NEW src \in Runs, CorrectText(src, r) PROVE UiRests
  BY <1>1, <1>2, <1>8 DEF CorrectText, jobVars, UiOnly
<1>9. ASSUME NEW r \in Runs, NEW i \in Stages, DirectStage(r, i) PROVE UiRests
  <2>1. ui'.cmd = "direct"
    BY <1>9 DEF DirectStage, Command
  <2> QED
    BY <1>1, <1>2, <1>9, <2>1 DEF DirectStage
<1>10. CASE AdmitUpload
  <2>1. ui'.cmd \in {"claim", "none"}
    BY <1>10, ReturnIs DEF AdmitUpload, Command
  <2> QED
    BY <1>2, <1>10, <2>1 DEF AdmitUpload
<1>11. CASE PersistStartFailure
  BY <1>2, <1>11, ReturnIs DEF PersistStartFailure
<1>12. CASE CommitCancel
  <2>1. CASE Return
    BY <1>2, <1>12, <2>1, ReturnIs DEF CommitCancel
  <2>2. CASE ui' = [ui EXCEPT !.cmd = "signal"]
    <3>1. ui'.cmd = "signal" /\ ui'.live = ui.live /\ ui'.run = ui.run
      BY <2>2 DEF Shape, JobsTypeOK
    <3> QED
      BY <1>12, <3>1 DEF CommitCancel, UiRests
  <2> QED
    BY <1>12, <2>1, <2>2 DEF CommitCancel
<1>13. CASE DirectBegin
  <2>1. ui'.cmd \in {"working", "none"}
    BY <1>13, ReturnIs DEF DirectBegin, Command
  <2> QED
    BY <1>2, <1>13, <2>1 DEF DirectBegin
<1>14. CASE DirectEnd
  <2>1. ui'.cmd \in {"failing", "none"}
    BY <1>14, ReturnIs DEF DirectEnd, Shape, JobsTypeOK
  <2> QED
    BY <1>2, <1>14, <2>1 DEF DirectEnd
<1>15. CASE DirectFail
  BY <1>2, <1>15, ReturnIs DEF DirectFail
<1> QED
  BY <1>3, <1>4, <1>5, <1>6, <1>7, <1>8, <1>9, <1>10, <1>11, <1>12, <1>13, <1>14, <1>15
  DEF UiStep, UiHands

LEMMA UiRestsKeepsClaims ==
  ASSUME Shape, [Next]_vars, ClaimInv, UiRests, up = TRUE
  PROVE  ClaimInv'
<1>1. ASSUME NEW q \in Runs PROVE Owned(q)'
  <2>1. ByParent(q)' <=> ByParent(q)
    BY ParentsStay DEF UiRests, UiOnly
  <2>2. SameOwner(q)
    BY <2>1 DEF SameOwner, UiRests, UiOnly, Claimed, ByWorker, ByUi, ByReservation, ByRecovery
  <2> QED
    BY <2>2, StaysOwned DEF ClaimInv
<1>2. TokenHeld'
  BY DEF ClaimInv, TokenHeld, UiRests, UiOnly, Claimed
<1>3. up' = TRUE
  BY DEF UiRests, UiOnly
<1> QED
  BY <1>1, <1>2, <1>3, UpForgets DEF ClaimInv

LEMMA ClaimRunKeepsClaims ==
  ASSUME Shape, [Next]_vars, ClaimInv, ClaimRun
  PROVE  ClaimInv'
<1>0. PICK c \in Runs : ui.run = c
  BY DEF ClaimRun, Shape, UiShape
<1>1. ui.cmd = "claim" /\ up' = TRUE /\ worker' = worker /\ recovery' = recovery
  BY UpWhenBusy DEF ClaimRun, ClaimInv
<1>2. \A q \in Runs : ~ByUi(q)
  BY <1>1 DEF ByUi
<1>3. ASSUME NEW q \in Runs
      PROVE  /\ ByParent(q)' <=> ByParent(q)
             /\ ByWorker(q)' <=> ByWorker(q)
             /\ ByReservation(q)' <=> ByReservation(q)
             /\ ByRecovery(q)' <=> ByRecovery(q)
  BY <1>1, ParentsStay DEF ByWorker, ByReservation, ByRecovery
<1>4. CASE Unclaimed(c) /\ Claim(c) /\ Command("spawn", c, ui.stage, ui.ver)
  <2>1. ui'.cmd = "spawn" /\ ui'.run = c
    BY <1>4 DEF Command
  <2>2. active'[c] = "live" /\ active[c] = "none" /\ \A q \in Runs \ {c} : active'[q] = active[q]
    BY <1>1, <1>4 DEF Claim, Unclaimed, Shape, JobsTypeOK
  <2>3. \A q \in Runs \ {c} : SameOwner(q)
    BY <1>2, <1>3, <2>1, <2>2 DEF SameOwner, ByUi, Claimed
  <2>4. Owned(c)'
    <3>1. ~ByWorker(c) /\ ~ByParent(c) /\ ~ByReservation(c) /\ ~ByRecovery(c)
      BY <1>1, <2>2 DEF ClaimInv, Owned, Claimed
    <3>2. ByUi(c)' /\ Claimed(c)'
      BY <2>1, <2>2 DEF ByUi, Claimed
    <3> QED
      BY <1>3, <3>1, <3>2 DEF Owned, OneOwner
  <2>5. TokenHeld'
    BY <2>1 DEF TokenHeld
  <2> QED
    BY <1>1, <2>3, <2>4, <2>5, ClaimsRest
<1>5. CASE active' = active /\ Return
  <2>1. ui'.cmd = "none"
    BY <1>5, ReturnIs
  <2>2. \A q \in Runs : SameOwner(q)
    BY <1>2, <1>3, <1>5, <2>1 DEF SameOwner, ByUi, Claimed
  <2>3. TokenHeld'
    BY <2>1 DEF TokenHeld
  <2> QED
    BY <1>1, <2>2, <2>3, StaysOwned, UpForgets DEF ClaimInv
<1> QED
  BY <1>0, <1>4, <1>5 DEF ClaimRun

LEMMA SpawnWorkerKeepsClaims ==
  ASSUME Shape, [Next]_vars, ClaimInv, SpawnWorker
  PROVE  ClaimInv'
<1>0. PICK c \in Runs : ui.run = c
  BY DEF SpawnWorker, Shape, UiShape
<1>1. ui.cmd = "spawn" /\ up' = TRUE /\ recovery' = recovery /\ active' = active
  BY UpWhenBusy DEF SpawnWorker, ClaimInv
<1>2. \A q \in Runs : ByUi(q) <=> q = c
  BY <1>0, <1>1 DEF ByUi
<1>3. ui'.cmd = "none"
  BY ReturnIs DEF SpawnWorker
<1>4. /\ ~ByWorker(c) /\ ~ByParent(c) /\ ~ByReservation(c) /\ ~ByRecovery(c) /\ Claimed(c)
  BY <1>2 DEF ClaimInv, Owned, OneOwner
<1>5. worker'[c].pc \in {"started", "continue"} /\ \A q \in Runs \ {c} : worker'[q] = worker[q]
  <2>1. StartWorker(c, ui.ver)
    BY <1>0 DEF SpawnWorker
  <2> QED
    BY <2>1, StartWorkerIs
<1>6. \A h \in Runs : worker'[h].pc \in Starting <=> worker[h].pc \in Starting
  BY <1>4, <1>5 DEF ByWorker, Starting
<1>7. \A h \in Runs : worker'[h].pc \in Starting => HasHandoff(h)
  BY <1>6, ParentsHaveHandoffs
<1>8. ASSUME NEW q \in Runs
      PROVE  /\ ByParent(q)' <=> ByParent(q)
             /\ ByWorker(q)' <=> ByWorker(q) \/ q = c
             /\ ~ByUi(q)'
             /\ ByReservation(q)' <=> ByReservation(q)
             /\ ByRecovery(q)' <=> ByRecovery(q)
             /\ Claimed(q)' <=> Claimed(q)
  <2>1. ByParent(q)' <=> ByParent(q)
    BY <1>6, <1>7, ParentsAfter DEF ByParent, StartsChild
  <2>2. ByWorker(q)' <=> ByWorker(q) \/ q = c
    BY <1>5 DEF ByWorker
  <2> QED
    BY <1>1, <1>3, <2>1, <2>2 DEF ByUi, ByReservation, ByRecovery, Claimed
<1>9. \A q \in Runs \ {c} : SameOwner(q)
  BY <1>2, <1>8 DEF SameOwner
<1>10. Owned(c)'
  BY <1>4, <1>8 DEF Owned, OneOwner
<1>11. TokenHeld'
  BY <1>3 DEF TokenHeld
<1> QED
  BY <1>1, <1>9, <1>10, <1>11, ClaimsRest

LEMMA SpawnFailsKeepsClaims ==
  ASSUME Shape, [Next]_vars, ClaimInv, SpawnFails
  PROVE  ClaimInv'
<1>0. PICK c \in Runs : ui.run = c
  BY DEF SpawnFails, Shape, UiShape
<1>1. ui.cmd = "spawn" /\ up' = TRUE /\ recovery' = recovery /\ worker' = worker
  BY UpWhenBusy DEF SpawnFails, ClaimInv
<1>2. \A q \in Runs : ByUi(q) <=> q = c
  BY <1>0, <1>1 DEF ByUi
<1>3. ui'.cmd \in {"none", "unstarted"}
  BY ReturnIs DEF SpawnFails, Command
<1>4. ~ByWorker(c) /\ ~ByParent(c) /\ ~ByReservation(c) /\ ~ByRecovery(c)
  BY <1>2 DEF ClaimInv, Owned, OneOwner
<1>5. active'[c] = "none" /\ \A q \in Runs \ {c} : active'[q] = active[q]
  BY <1>0 DEF SpawnFails, Shape, JobsTypeOK
<1>6. ASSUME NEW q \in Runs
      PROVE  /\ ByParent(q)' <=> ByParent(q)
             /\ ByWorker(q)' <=> ByWorker(q)
             /\ ~ByUi(q)'
             /\ ByReservation(q)' <=> ByReservation(q)
             /\ ByRecovery(q)' <=> ByRecovery(q)
             /\ q # c => (Claimed(q)' <=> Claimed(q))
             /\ ~Claimed(c)'
  <2>1. ByParent(q)' <=> ByParent(q)
    BY <1>1, ParentsStay
  <2> QED
    BY <1>1, <1>3, <1>5, <2>1 DEF ByWorker, ByUi, ByReservation, ByRecovery, Claimed
<1>7. \A q \in Runs \ {c} : SameOwner(q)
  BY <1>2, <1>6 DEF SameOwner
<1>8. Owned(c)'
  BY <1>4, <1>6 DEF Owned, OneOwner
<1>9. TokenHeld'
  BY <1>3 DEF TokenHeld
<1> QED
  BY <1>1, <1>7, <1>8, <1>9, ClaimsRest

LEMMA SignalKeepsClaims ==
  ASSUME Shape, [Next]_vars, ClaimInv, SignalToken
  PROVE  ClaimInv'
<1>0. PICK c \in Runs : ui.run = c
  BY DEF SignalToken, Shape, UiShape
<1>1. ui.cmd = "signal" /\ up' = TRUE /\ recovery' = recovery /\ worker' = worker
  BY UpWhenBusy DEF SignalToken, ClaimInv
<1>2. ui'.cmd = "none"
  BY ReturnIs DEF SignalToken
<1>3. \A q \in Runs : Claimed(q)' <=> Claimed(q)
  <2>1. CASE ui.live
    <3>1. Claimed(c)
      BY <1>0, <1>1, <2>1 DEF ClaimInv, TokenHeld
    <3>2. active' = [active EXCEPT ![c] = "requested"]
      BY <1>0, <2>1 DEF SignalToken
    <3> QED
      BY <3>1, <3>2 DEF Claimed, Shape, JobsTypeOK
  <2>2. CASE ~ui.live
    BY <2>2 DEF SignalToken, Claimed
  <2> QED
    BY <2>1, <2>2
<1>4. ASSUME NEW q \in Runs PROVE SameOwner(q)
  <2>1. ByParent(q)' <=> ByParent(q)
    BY <1>1, ParentsStay
  <2> QED
    BY <1>1, <1>2, <1>3, <2>1 DEF SameOwner, ByWorker, ByUi, ByReservation, ByRecovery
<1>5. TokenHeld'
  BY <1>2 DEF TokenHeld
<1> QED
  BY <1>1, <1>4, <1>5, StaysOwned, UpForgets DEF ClaimInv

LEMMA UiStepIsUp ==
  ASSUME Shape, Forgotten, UiStep
  PROVE  up = TRUE
<1>1. ui.cmd # "none" \/ UiFree
  <2>1. \A r \in Runs, src \in Runs, i \in Stages :
          (UploadDocument(r) \/ IngestOnly(r) \/ ContinueRun(r) \/ CancelRun(r)
             \/ RetryRun(src, r) \/ CorrectText(src, r) \/ DirectStage(r, i)) => UiFree
    BY DEF UploadDocument, IngestOnly, ContinueRun, CancelRun, RetryRun, CorrectText, DirectStage
  <2>2. (AdmitUpload \/ ClaimRun \/ SpawnWorker \/ SpawnFails \/ PersistStartFailure
          \/ CommitCancel \/ SignalToken \/ DirectBegin \/ DirectEnd \/ DirectFail)
        => ui.cmd # "none"
    BY DEF AdmitUpload, ClaimRun, SpawnWorker, SpawnFails, PersistStartFailure, CommitCancel,
           SignalToken, DirectBegin, DirectEnd, DirectFail
  <2> QED
    BY <2>1, <2>2, StagesTyped DEF UiStep
<1> QED
  BY <1>1, UpWhenBusy DEF UiFree

LEMMA UiKeepsClaims ==
  ASSUME Shape, [Next]_vars, ClaimInv, UiStep
  PROVE  ClaimInv'
<1>1. CASE UiRests
  <2>1. up = TRUE
    BY UiStepIsUp DEF ClaimInv
  <2> QED
    BY <1>1, <2>1, UiRestsKeepsClaims
<1> QED
  BY <1>1, UiRestsOrHands, ClaimRunKeepsClaims, SpawnWorkerKeepsClaims, SpawnFailsKeepsClaims,
     SignalKeepsClaims DEF UiHands

\* A recovery that neither takes a claim nor gives one up.
RecoveryRests ==
  /\ RecoveryOnly
  /\ recovery.pc # "off" /\ recovery'.reserved = recovery.reserved
  /\ recovery.pc \notin {"rewind", "launch"} /\ recovery'.pc \notin {"rewind", "launch"}

RecoveryHands ==
  (\E c \in Runs : ResumeClaims(c)) \/ ResumeRewinds \/ ResumeLaunches \/ RecoveryEnds

\* What a step leaves of the recovery thread.
LEMMA RecoveringIs ==
  ASSUME Shape, NEW pc, NEW h, Recovering(pc, h)
  PROVE  /\ recovery'.pc = pc /\ recovery'.run = h /\ recovery'.reserved = recovery.reserved
         /\ recovery'.todo = recovery.todo /\ recovery'.resume = recovery.resume
BY DEF Recovering, Shape, JobsTypeOK

LEMMA HandoffDoneIs ==
  ASSUME Shape, NEW h, NEW children, HandoffDone(h, children)
  PROVE  /\ recovery'.pc = "pick" /\ recovery'.reserved = recovery.reserved
         /\ recovery'.resume = recovery.resume \cup children
         /\ recovery'.todo = recovery.todo \ {h}
BY DEF HandoffDone, Shape, JobsTypeOK

LEMMA RecoveryRestsOrHands ==
  ASSUME Shape, RecoveryStep
  PROVE  RecoveryRests \/ RecoveryHands
<1>1. ASSUME NEW pc, NEW h, Recovering(pc, h), pc \notin {"rewind", "launch"}, RecoveryOnly,
             recovery.pc \notin {"off", "rewind", "launch"}
      PROVE  RecoveryRests
  BY <1>1, RecoveringIs DEF RecoveryRests
<1>2. ASSUME NEW h, NEW children, HandoffDone(h, children), RecoveryOnly,
             recovery.pc \notin {"off", "rewind", "launch"}
      PROVE  RecoveryRests
  BY <1>2, HandoffDoneIs DEF RecoveryRests
<1>3. CASE ListHandoffs
  <2>1. recovery'.pc = "pick" /\ recovery'.reserved = recovery.reserved
    BY <1>3 DEF ListHandoffs, Shape, JobsTypeOK
  <2> QED
    BY <1>3, <2>1 DEF ListHandoffs, RecoveryRests
<1>4. ASSUME NEW h \in Runs, PickHandoff(h) PROVE RecoveryRests
  <2>1. recovery.pc = "pick" /\ RecoveryOnly
        /\ (Recovering("check", h) \/ \E children : HandoffDone(h, children))
    BY <1>4 DEF PickHandoff
  <2> QED
    BY <1>1, <1>2, <2>1
<1>5. CASE RecoveryCheck
  <2>1. recovery.pc = "check" /\ RecoveryOnly
        /\ \E pc \in {"settle", "exchange"} : Recovering(pc, recovery.run)
    BY <1>5 DEF RecoveryCheck
  <2> QED
    BY <1>1, <2>1
<1>6. CASE RecoveryExchange
  <2>1. recovery.pc = "exchange" /\ RecoveryOnly
        /\ \/ Recovering("check", recovery.run)
           \/ \E children : HandoffDone(recovery.run, children)
    BY <1>6 DEF RecoveryExchange
  <2> QED
    BY <1>1, <1>2, <2>1
<1>7. CASE RecoveryGivesUp
  BY <1>2, <1>7 DEF RecoveryGivesUp
<1>8. CASE RecoverySettles
  BY <1>2, <1>8 DEF RecoverySettles
<1> QED
  BY <1>3, <1>4, <1>5, <1>6, <1>7, <1>8 DEF RecoveryStep, RecoveryHands

LEMMA RecoveryRestsKeepsClaims ==
  ASSUME Shape, [Next]_vars, ClaimInv, RecoveryRests
  PROVE  ClaimInv'
<1>1. ASSUME NEW q \in Runs PROVE Owned(q)'
  <2>1. ByParent(q)' <=> ByParent(q)
    BY ParentsStay DEF RecoveryRests, RecoveryOnly
  <2>2. SameOwner(q)
    BY <2>1
    DEF SameOwner, RecoveryRests, RecoveryOnly, Claimed, ByWorker, ByUi, ByReservation, ByRecovery
  <2> QED
    BY <2>2, StaysOwned DEF ClaimInv
<1>2. TokenHeld'
  BY DEF ClaimInv, TokenHeld, RecoveryRests, RecoveryOnly, Claimed
<1>3. up' = TRUE
  BY UpWhenBusy DEF RecoveryRests, RecoveryOnly, ClaimInv
<1> QED
  BY <1>1, <1>2, <1>3, UpForgets DEF ClaimInv

LEMMA ResumeClaimsKeepsClaims ==
  ASSUME Shape, [Next]_vars, ClaimInv, NEW c \in Runs, ResumeClaims(c)
  PROVE  ClaimInv'
<1>1. recovery.pc = "pick" /\ up' = TRUE /\ worker' = worker /\ ui' = ui
  BY UpWhenBusy DEF ResumeClaims, ClaimInv
<1>2. \A q \in Runs : ~ByRecovery(q)
  BY <1>1 DEF ByRecovery
<1>3. ASSUME NEW q \in Runs
      PROVE  /\ ByParent(q)' <=> ByParent(q)
             /\ ByWorker(q)' <=> ByWorker(q)
             /\ ByUi(q)' <=> ByUi(q)
  BY <1>1, ParentsStay DEF ByWorker, ByUi
<1>4. CASE Unclaimed(c) /\ Claim(c) /\ Recovering("rewind", c)
  <2>1. recovery'.pc = "rewind" /\ recovery'.run = c /\ recovery'.reserved = recovery.reserved
    BY <1>4, RecoveringIs
  <2>2. active'[c] = "live" /\ active[c] = "none" /\ \A q \in Runs \ {c} : active'[q] = active[q]
    BY <1>4 DEF Claim, Unclaimed, Shape, JobsTypeOK
  <2>3. \A q \in Runs \ {c} : SameOwner(q)
    BY <1>2, <1>3, <2>1, <2>2 DEF SameOwner, ByReservation, ByRecovery, Claimed
  <2>4. Owned(c)'
    <3>1. ~ByWorker(c) /\ ~ByParent(c) /\ ~ByUi(c) /\ ~ByReservation(c)
      BY <2>2 DEF ClaimInv, Owned, Claimed
    <3>2. ByRecovery(c)' /\ Claimed(c)' /\ (ByReservation(c)' <=> ByReservation(c))
      BY <2>1, <2>2 DEF ByRecovery, ByReservation, Claimed
    <3> QED
      BY <1>3, <3>1, <3>2 DEF Owned, OneOwner
  <2>5. TokenHeld'
    BY <1>1, <2>2 DEF ClaimInv, TokenHeld, Claimed, Shape, UiShape
  <2> QED
    BY <1>1, <2>3, <2>4, <2>5, ClaimsRest
<1>5. CASE active' = active /\ recovery' = [recovery EXCEPT !.resume = @ \ {c}]
  <2>1. recovery'.pc = "pick" /\ recovery'.reserved = recovery.reserved
    BY <1>1, <1>5 DEF Shape, JobsTypeOK
  <2>2. \A q \in Runs : SameOwner(q)
    BY <1>2, <1>3, <1>5, <2>1 DEF SameOwner, ByReservation, ByRecovery, Claimed
  <2>3. TokenHeld'
    BY <1>1, <1>5 DEF ClaimInv, TokenHeld, Claimed
  <2> QED
    BY <1>1, <2>2, <2>3, StaysOwned, UpForgets DEF ClaimInv
<1> QED
  BY <1>4, <1>5 DEF ResumeClaims

\* The recovery that releases the claim it took.
LEMMA RecoveryLetsGo ==
  ASSUME Shape, [Next]_vars, ClaimInv, NEW c \in Runs, recovery.run = c,
         recovery.pc \in {"rewind", "launch"}, ResumeEnds(c), Release({c}),
         worker' = worker, up' = up
  PROVE  ClaimInv'
<1>1. \A q \in Runs : ByRecovery(q) <=> q = c
  BY DEF ByRecovery
<1>2. recovery'.pc = "pick" /\ recovery'.reserved = recovery.reserved
  BY DEF ResumeEnds, Shape, JobsTypeOK
<1>3. /\ TokenHeld'
      /\ \A q \in Runs : /\ q = c => ~Claimed(q)'
                         /\ q # c => (Claimed(q)' <=> Claimed(q))
                         /\ ByUi(q)' <=> ByUi(q)
  <2>1. {c} \in SUBSET Runs
    OBVIOUS
  <2> QED
    BY <2>1, ReleaseHoldsTokens
<1>4. ASSUME NEW q \in Runs
      PROVE  /\ ByParent(q)' <=> ByParent(q)
             /\ ByWorker(q)' <=> ByWorker(q)
             /\ ByReservation(q)' <=> ByReservation(q)
             /\ ~ByRecovery(q)'
  BY <1>2, ParentsStay DEF ByWorker, ByReservation, ByRecovery
<1>5. \A q \in Runs \ {c} : SameOwner(q)
  BY <1>1, <1>3, <1>4 DEF SameOwner
<1>6. Owned(c)'
  <2>1. ~ByWorker(c) /\ ~ByUi(c) /\ ~ByParent(c) /\ ~ByReservation(c)
    BY <1>1 DEF ClaimInv, Owned, OneOwner
  <2> QED
    BY <1>3, <1>4, <2>1 DEF Owned, OneOwner
<1>7. up' = TRUE
  BY UpWhenBusy DEF ClaimInv
<1> QED
  BY <1>3, <1>5, <1>6, <1>7, ClaimsRest

LEMMA ResumeRewindsKeepsClaims ==
  ASSUME Shape, [Next]_vars, ClaimInv, ResumeRewinds
  PROVE  ClaimInv'
<1>0. PICK c \in Runs : recovery.run = c
  BY DEF ResumeRewinds, Shape, RecoveryShape
<1>1. recovery.pc = "rewind" /\ worker' = worker /\ up' = up
  BY DEF ResumeRewinds
<1>2. CASE Recovering("launch", c) /\ UNCHANGED <<active, ui>>
  <2>1. recovery'.pc = "launch" /\ recovery'.run = c /\ recovery'.reserved = recovery.reserved
    BY <1>2, RecoveringIs
  <2>2. ASSUME NEW q \in Runs PROVE SameOwner(q)
    <3>1. ByParent(q)' <=> ByParent(q)
      BY <1>1, ParentsStay
    <3> QED
      BY <1>0, <1>1, <1>2, <2>1, <3>1
      DEF SameOwner, ByWorker, ByUi, ByReservation, ByRecovery, Claimed
  <2>3. TokenHeld'
    BY <1>2 DEF ClaimInv, TokenHeld, Claimed
  <2>4. up' = TRUE
    BY <1>1, UpWhenBusy DEF ClaimInv
  <2> QED
    BY <2>2, <2>3, <2>4, StaysOwned, UpForgets DEF ClaimInv
<1>3. CASE Release({c}) /\ ResumeEnds(c)
  BY <1>0, <1>1, <1>3, RecoveryLetsGo
<1> QED
  BY <1>0, <1>2, <1>3 DEF ResumeRewinds

LEMMA ResumeLaunchesKeepsClaims ==
  ASSUME Shape, [Next]_vars, ClaimInv, ResumeLaunches
  PROVE  ClaimInv'
<1>0. PICK c \in Runs : recovery.run = c
  BY DEF ResumeLaunches, Shape, RecoveryShape
<1>1. recovery.pc = "launch" /\ up' = up /\ ResumeEnds(c)
  BY <1>0 DEF ResumeLaunches
<1>2. CASE Release({c}) /\ worker' = worker
  BY <1>0, <1>1, <1>2, RecoveryLetsGo
<1>3. CASE StartWorker(c, run[c].version) /\ UNCHANGED <<active, ui>>
  <2>1. \A q \in Runs : ByRecovery(q) <=> q = c
    BY <1>0, <1>1 DEF ByRecovery
  <2>2. recovery'.pc = "pick" /\ recovery'.reserved = recovery.reserved
    BY <1>1 DEF ResumeEnds, Shape, JobsTypeOK
  <2>3. ~ByWorker(c) /\ ~ByUi(c) /\ ~ByParent(c) /\ ~ByReservation(c) /\ Claimed(c)
    BY <2>1 DEF ClaimInv, Owned, OneOwner
  <2>4. worker'[c].pc \in {"started", "continue"}
        /\ \A q \in Runs \ {c} : worker'[q] = worker[q]
    <3>1. StartWorker(c, run[c].version)
      BY <1>3
    <3> QED
      BY <3>1, StartWorkerIs
  <2>5. \A h \in Runs : worker'[h].pc \in Starting <=> worker[h].pc \in Starting
    BY <2>3, <2>4 DEF ByWorker, Starting
  <2>6. \A h \in Runs : worker'[h].pc \in Starting => HasHandoff(h)
    BY <2>5, ParentsHaveHandoffs
  <2>7. ASSUME NEW q \in Runs
        PROVE  /\ ByParent(q)' <=> ByParent(q)
               /\ ByWorker(q)' <=> ByWorker(q) \/ q = c
               /\ ByUi(q)' <=> ByUi(q)
               /\ ByReservation(q)' <=> ByReservation(q)
               /\ ~ByRecovery(q)'
               /\ Claimed(q)' <=> Claimed(q)
    <3>1. ByParent(q)' <=> ByParent(q)
      BY <2>5, <2>6, ParentsAfter DEF ByParent, StartsChild
    <3>2. ByWorker(q)' <=> ByWorker(q) \/ q = c
      BY <2>4 DEF ByWorker
    <3> QED
      BY <1>3, <2>2, <3>1, <3>2 DEF ByUi, ByReservation, ByRecovery, Claimed
  <2>8. \A q \in Runs \ {c} : SameOwner(q)
    BY <2>1, <2>7 DEF SameOwner
  <2>9. Owned(c)'
    BY <2>3, <2>7 DEF Owned, OneOwner
  <2>10. TokenHeld'
    BY <1>3 DEF ClaimInv, TokenHeld, Claimed
  <2>11. up' = TRUE
    BY <1>1, UpWhenBusy DEF ClaimInv
  <2> QED
    BY <2>8, <2>9, <2>10, <2>11, ClaimsRest
<1> QED
  BY <1>0, <1>2, <1>3 DEF ResumeLaunches

LEMMA RecoveryEndsKeepsClaims ==
  ASSUME Shape, [Next]_vars, ClaimInv, RecoveryEnds
  PROVE  ClaimInv'
<1> DEFINE S == recovery.reserved
<1>1. /\ recovery.pc \notin {"off", "rewind", "launch"} /\ worker' = worker /\ up' = up
      /\ recovery' = NoRecovery /\ Release(S) /\ S \in SUBSET Runs
  BY DEF RecoveryEnds, Shape, JobsTypeOK
<1>2. /\ TokenHeld'
      /\ \A q \in Runs : /\ q \in S => ~Claimed(q)'
                         /\ q \notin S => (Claimed(q)' <=> Claimed(q))
                         /\ ByUi(q)' <=> ByUi(q)
  BY <1>1, ReleaseHoldsTokens
<1>3. ASSUME NEW q \in Runs
      PROVE  /\ ByParent(q)' <=> ByParent(q)
             /\ ByWorker(q)' <=> ByWorker(q)
             /\ ByReservation(q) <=> q \in S
             /\ ~ByReservation(q)'
             /\ ~ByRecovery(q) /\ ~ByRecovery(q)'
  BY <1>1, ParentsStay DEF ByWorker, ByReservation, ByRecovery, NoRecovery
<1>4. ASSUME NEW q \in Runs PROVE Owned(q)'
  <2>1. Owned(q)
    BY DEF ClaimInv
  <2>2. CASE q \in S
    BY <1>2, <1>3, <2>1, <2>2 DEF Owned, OneOwner
  <2>3. CASE q \notin S
    BY <1>2, <1>3, <2>1, <2>3 DEF Owned, OneOwner
  <2> QED
    BY <2>2, <2>3
<1>5. up' = TRUE
  BY <1>1, UpWhenBusy DEF ClaimInv
<1> QED
  BY <1>2, <1>4, <1>5, UpForgets DEF ClaimInv

LEMMA RecoveryKeepsClaims ==
  ASSUME Shape, [Next]_vars, ClaimInv, RecoveryStep
  PROVE  ClaimInv'
BY RecoveryRestsOrHands, RecoveryRestsKeepsClaims, ResumeClaimsKeepsClaims,
   ResumeRewindsKeepsClaims, ResumeLaunchesKeepsClaims, RecoveryEndsKeepsClaims DEF RecoveryHands

LEMMA CrashKeepsClaims ==
  ASSUME Shape, Crash
  PROVE  ClaimInv'
<1>1. /\ \A q \in Runs : active'[q] = "none" /\ worker'[q] = Idle
      /\ ui' = NoCommand /\ recovery' = NoRecovery
  BY DEF Crash
<1>2. Idle.pc = "idle" /\ Idle.pc \notin Starting
  BY IdleTyped DEF Starting
<1>3. ui'.cmd = "none" /\ recovery'.pc = "off" /\ recovery'.reserved = {}
  BY <1>1 DEF NoCommand, NoRecovery
<1>4. ASSUME NEW q \in Runs
      PROVE  ~Claimed(q)' /\ ~ByWorker(q)' /\ ~ByUi(q)' /\ ~ByParent(q)' /\ ~ByReservation(q)'
             /\ ~ByRecovery(q)'
  BY <1>1, <1>2, <1>3
  DEF Claimed, ByWorker, ByUi, ByParent, StartsChild, ByReservation, ByRecovery
<1> QED
  BY <1>1, <1>3, <1>4 DEF ClaimInv, Owned, OneOwner, Forgotten, TokenHeld

LEMMA RestartKeepsClaims ==
  ASSUME Shape, ClaimInv, Restart
  PROVE  ClaimInv'
<1> DEFINE roots == {h \in Runs : handoff[h].phase \in OpenPhases}
<1>1. /\ up' = TRUE /\ worker' = worker /\ ui' = ui /\ ui = NoCommand
      /\ \A q \in Runs : worker[q] = Idle
      /\ \A q \in Runs : active'[q] = IF q \in roots THEN "live" ELSE "none"
  BY DEF Restart, ClaimInv, Forgotten
<1>2. recovery'.pc = "list" /\ recovery'.reserved = roots
  BY DEF Restart, NoRecovery
<1>3. Idle.pc = "idle" /\ Idle.pc \notin Starting /\ ui.cmd = "none"
  BY <1>1, IdleTyped DEF Starting, NoCommand
<1>4. ASSUME NEW q \in Runs
      PROVE  /\ Claimed(q)' <=> q \in roots
             /\ ByReservation(q)' <=> q \in roots
             /\ ~ByWorker(q)' /\ ~ByUi(q)' /\ ~ByParent(q)' /\ ~ByRecovery(q)'
  <2>1. Claimed(q)' <=> q \in roots
    BY <1>1 DEF Claimed
  <2>2. ByReservation(q)' <=> q \in roots
    BY <1>2 DEF ByReservation
  <2>3. ~ByWorker(q)' /\ ~ByUi(q)' /\ ~ByParent(q)' /\ ~ByRecovery(q)'
    BY <1>1, <1>2, <1>3 DEF ByWorker, ByUi, ByParent, StartsChild, ByRecovery
  <2> QED
    BY <2>1, <2>2, <2>3
<1>5. TokenHeld'
  BY <1>1, <1>3 DEF TokenHeld
<1> QED
  BY <1>1, <1>4, <1>5, UpForgets DEF ClaimInv, Owned, OneOwner

LEMMA ClaimStep ==
  ASSUME Shape, StoreInv, ClaimInv, [JobsNext]_allVars
  PROVE  ClaimInv'
<1>1. [Next]_vars
  BY JobStepIsStoreStep
<1>2. CASE UNCHANGED allVars
  BY <1>2
  DEF allVars, jobVars, vars, ClaimInv, Owned, OneOwner, Forgotten, TokenHeld, Claimed, ByWorker,
      ByUi, ByParent, StartsChild, ByReservation, ByRecovery
<1> QED
  BY <1>1, <1>2, UiKeepsClaims, RecoveryKeepsClaims, WorkerKeepsClaims, CrashKeepsClaims,
     RestartKeepsClaims DEF JobsNext

LEMMA ClaimInit == JobsInit => ClaimInv
<1> SUFFICES ASSUME JobsInit PROVE ClaimInv
  OBVIOUS
<1>1. /\ \A q \in Runs : active[q] = "none" /\ worker[q] = Idle
      /\ ui = NoCommand /\ recovery = NoRecovery
  BY DEF JobsInit
<1>2. Idle.pc = "idle" /\ Idle.pc \notin Starting
  BY IdleTyped DEF Starting
<1>3. ui.cmd = "none" /\ recovery.pc = "off" /\ recovery.reserved = {}
  BY <1>1 DEF NoCommand, NoRecovery
<1>4. ASSUME NEW q \in Runs
      PROVE  ~Claimed(q) /\ ~ByWorker(q) /\ ~ByUi(q) /\ ~ByParent(q) /\ ~ByReservation(q)
             /\ ~ByRecovery(q)
  BY <1>1, <1>2, <1>3
  DEF Claimed, ByWorker, ByUi, ByParent, StartsChild, ByReservation, ByRecovery
<1> QED
  BY <1>1, <1>3, <1>4 DEF ClaimInv, Owned, OneOwner, Forgotten, TokenHeld

LEMMA ClaimsHold == JobsSpec => []ClaimInv
BY ClaimInit, ClaimStep, ShapeHolds, StoreInvHolds, PTL DEF JobsSpec

\* The registry tells the truth: however many workers, commands, adopted children, reservations
\* and recoveries there are, a run is claimed exactly while one of them will release the claim, and
\* never two (ActiveRunClaim, ActiveRecoveryReservations, spawn_claimed).
THEOREM ClaimsAreTrue == JobsSpec => []ClaimsMatchThreads
BY ClaimsHold, OwnedIsMatched, PTL DEF ClaimInv

-----------------------------------------------------------------------------
(* Which transactions set a run to work, and which cancel it.                *)

Busy == ActiveStates \cup {"Cancelling"}

\* A row that is in a working state, or CANCELLING, after the step was there before it. The
\* transactions that end a stage or a run leave its row in no such state.
Quiet(q) == run'[q].state \in Busy => run'[q] = run[q]

LEMMA BusyStates ==
  /\ \A i \in 0..7 : Checkpoint(i) \notin Busy /\ ActiveState(i) \in ActiveStates
  /\ \A s \in Checkpoints \cup Terminal \cup {"Absent", "Failed", "Cancelled"} : s \notin Busy
  /\ ActiveState(1) = "Parsing" /\ "Parsing" \in ActiveStates /\ Checkpoint(0) = "Ingested"
  /\ "Cancelling" \notin ActiveStates
<1>1. \A i \in 0..7 : Checkpoint(i) \in Checkpoints /\ ActiveState(i) \in ActiveStates
  BY DEF Checkpoints, ActiveStates
<1>2. {"Failed", "Cancelled"} \subseteq Terminal
  BY DEF Terminal
<1>3. ActiveState(1) = "Parsing" /\ Checkpoint(0) = "Ingested"
  BY DEF ActiveState, Checkpoint
<1>4. "Cancelling" \notin Terminal \cup {"Absent", "Failed", "Cancelled"}
  BY DEF Terminal, Successful
<1>5. \A s \in Checkpoints \cup Terminal \cup {"Absent", "Failed", "Cancelled"} : s \notin Busy
  BY <1>2, <1>4, TableValues DEF Busy
<1>6. "Cancelling" \notin ActiveStates
  BY TableValues
<1> QED
  BY <1>1, <1>3, <1>5, <1>6

LEMMA PutQuiet ==
  ASSUME TypeOK, NEW r \in Runs, NEW row, run' = [run EXCEPT ![r] = row], row.state \notin Busy,
         NEW q \in Runs
  PROVE  Quiet(q) /\ run'[r].state \notin Busy
<1>1. run'[r] = row /\ (q # r => run'[q] = run[q])
  BY DEF TypeOK
<1> QED
  BY <1>1 DEF Quiet

LEMMA MoveQuiet ==
  ASSUME TypeOK, NEW r \in Runs, NEW to, to \notin Busy, NEW f,
         \/ Persist(r, Moved(run[r], to))
         \/ Persist(r, [Moved(run[r], to) EXCEPT !.failure = f]) /\ Moved(run[r], to) \in Rows,
         NEW q \in Runs
  PROVE  Quiet(q) /\ run'[r].state \notin Busy
<1>1. run[r] \in Rows
  BY DEF TypeOK
<1>2. Moved(run[r], to).state = to
  BY <1>1, MovedFields
<1>3. CASE Persist(r, Moved(run[r], to))
  <2> DEFINE row == Moved(run[r], to)
  <2>1. run' = [run EXCEPT ![r] = row] /\ row.state \notin Busy
    BY <1>2, <1>3 DEF Persist
  <2> HIDE DEF row
  <2> QED
    BY <2>1, PutQuiet
<1>4. CASE Persist(r, [Moved(run[r], to) EXCEPT !.failure = f]) /\ Moved(run[r], to) \in Rows
  <2> DEFINE row == [Moved(run[r], to) EXCEPT !.failure = f]
  <2>1. row.state = to
    BY <1>2, <1>4, FailedFields
  <2>2. run' = [run EXCEPT ![r] = row]
    BY <1>4 DEF Persist
  <2> HIDE DEF row
  <2> QED
    BY <2>1, <2>2, PutQuiet
<1> QED
  BY <1>3, <1>4

LEMMA StageQuiet ==
  ASSUME TypeOK, NEW r \in Runs, NEW v, NEW q \in Runs,
         \/ \E i \in Stages : CompleteStage(r, i, v)
         \/ \E i \in Stages, b \in BOOLEAN : FailStage(r, i, v, b)
         \/ \E s \in Successful : CompleteSummary(r, v, s)
         \/ \E b \in BOOLEAN : FailSummary(r, v, b)
  PROVE  Quiet(q) /\ run'[r].state \notin Busy
<1>1. ASSUME NEW i \in Stages, CompleteStage(r, i, v) PROVE Quiet(q) /\ run'[r].state \notin Busy
  <2>1. Checkpoint(i) \notin Busy
    BY BusyStates, StagesInRange
  <2> QED
    BY <1>1, <2>1, MoveQuiet DEF CompleteStage
<1>2. "Failed" \notin Busy /\ "Failed" \in RunStates
  BY BusyStates DEF RunStates, Terminal
<1>3. ASSUME NEW i \in Stages, NEW b \in BOOLEAN, FailStage(r, i, v, b) PROVE Quiet(q) /\ run'[r].state \notin Busy
  <2>1. Moved(run[r], "Failed") \in Rows
    BY <1>2, <1>3, TransitionTyped DEF FailStage
  <2> DEFINE f == Failure(i, b)
  <2>2. Persist(r, [Moved(run[r], "Failed") EXCEPT !.failure = f])
    BY <1>3 DEF FailStage
  <2> HIDE DEF f
  <2> QED
    BY <1>2, <2>1, <2>2, MoveQuiet
<1>4. ASSUME NEW s \in Successful, CompleteSummary(r, v, s) PROVE Quiet(q) /\ run'[r].state \notin Busy
  <2>1. s \notin Busy
    BY BusyStates DEF Terminal
  <2> QED
    BY <1>4, <2>1, MoveQuiet DEF CompleteSummary
<1>5. ASSUME NEW b \in BOOLEAN, FailSummary(r, v, b) PROVE Quiet(q) /\ run'[r].state \notin Busy
  <2>1. Moved(run[r], "Failed") \in Rows
    BY <1>2, <1>5, TransitionTyped DEF FailSummary
  <2> DEFINE f == Failure(7, b)
  <2>2. Persist(r, [Moved(run[r], "Failed") EXCEPT !.failure = f])
    BY <1>5 DEF FailSummary
  <2> HIDE DEF f
  <2> QED
    BY <1>2, <2>1, <2>2, MoveQuiet
<1> QED
  BY <1>1, <1>3, <1>4, <1>5

LEMMA CompleteCancellationQuiet ==
  ASSUME TypeOK, NEW r \in Runs, NEW v, CompleteCancellation(r, v), NEW q \in Runs
  PROVE  Quiet(q) /\ run'[r].state \notin Busy
<1>1. "Cancelled" \notin Busy
  BY BusyStates
<1> QED
  BY <1>1, MoveQuiet DEF CompleteCancellation

LEMMA FailBackgroundQuiet ==
  ASSUME TypeOK, NEW r \in Runs, NEW from, NEW v, FailBackground(r, from, v), NEW q \in Runs
  PROVE  Quiet(q) /\ run'[r].state \notin Busy
<1>1. CASE CompleteCancellation(r, run[r].version)
  BY <1>1, CompleteCancellationQuiet
<1>2. CASE ~CompleteCancellation(r, run[r].version)
  <2>1. "Failed" \notin Busy /\ "Failed" \in RunStates
    BY BusyStates DEF RunStates, Terminal
  <2>2. Moved(run[r], "Failed") \in Rows
    BY <1>2, <2>1, TransitionTyped DEF FailBackground
  <2> DEFINE f == Failure(StageOf(from), TRUE)
  <2>3. Persist(r, [Moved(run[r], "Failed") EXCEPT !.failure = f])
    BY <1>2 DEF FailBackground
  <2> HIDE DEF f
  <2> QED
    BY <2>1, <2>2, <2>3, MoveQuiet
<1> QED
  BY <1>1, <1>2

LEMMA BirthQuiet ==
  ASSUME TypeOK, NEW r \in Runs, NEW q \in Runs,
         \/ \E s, p : Ingest(r, s, p)
         \/ \E src \in Runs : \E v : SaveCorrection(src, v, r)
  PROVE  Quiet(q)
<1>1. "Ingested" \notin Busy /\ "Parsed" \notin Busy
  BY BusyStates DEF Checkpoints, Checkpoint
<1>2. /\ Ingestion[Len(Ingestion)] = "Ingested"
      /\ (Ingestion \o <<"Parsing", "Parsed">>)[Len(Ingestion \o <<"Parsing", "Parsed">>)]
           = "Parsed"
  BY DEF Ingestion
<1>3. ASSUME NEW states, NEW d, NEW s, run' = [run EXCEPT ![r] = NewRow(states, d, s)],
             states[Len(states)] \notin Busy
      PROVE  Quiet(q)
  <2>1. NewRow(states, d, s).state = states[Len(states)]
    BY DEF NewRow
  <2> QED
    BY <1>3, <2>1, PutQuiet
<1>4. ASSUME NEW s, NEW p, Ingest(r, s, p) PROVE Quiet(q)
  BY <1>1, <1>2, <1>3, <1>4 DEF Ingest
<1>5. ASSUME NEW src \in Runs, NEW v, SaveCorrection(src, v, r) PROVE Quiet(q)
  <2>1. run' = [run EXCEPT ![r] = NewRow(Ingestion \o <<"Parsing", "Parsed">>, r, "ocr")]
    BY <1>5 DEF SaveCorrection
  <2> QED
    BY <1>1, <1>2, <1>3, <2>1
<1> QED
  BY <1>4, <1>5

LEMMA HandoffQuiet ==
  ASSUME TypeOK, ChildrenApart, NEW r \in Runs, NEW q \in Runs,
         \/ \E c \in Runs : PrepareHandoff(r, c)
         \/ \E from, to : MoveHandoff(r, from, to)
         \/ AdmitChild(r) \/ MarkHandoffCompleted(r)
         \/ \E i \in Stages : RewindChild(r, i)
  PROVE  Quiet(q)
<1>1. CASE \/ \E c \in Runs : PrepareHandoff(r, c)
           \/ \E from, to : MoveHandoff(r, from, to)
           \/ MarkHandoffCompleted(r)
  BY <1>1 DEF PrepareHandoff, MoveHandoff, MarkHandoffCompleted, Quiet
<1>2. ASSUME NEW i \in Stages, RewindChild(r, i) PROVE Quiet(q)
  <2>1. Checkpoint(i-1) \notin Busy
    BY BusyStates, StagesInRange
  <2> QED
    BY <1>2, <2>1, MoveQuiet DEF RewindChild
<1>3. CASE AdmitChild(r)
  <2>1. HasHandoff(r)
    BY <1>3 DEF AdmitChild, HasHandoff
  <2>2. PICK c \in Runs \ {r} : handoff[r].child = c
    BY <2>1 DEF ChildrenApart
  <2>3. "Failed" \notin Busy /\ "Failed" \in RunStates /\ "Ingested" \notin Busy
    BY BusyStates DEF RunStates, Terminal, Checkpoints, Checkpoint
  <2>4. Moved(run[r], "Failed") \in Rows
    BY <1>3, <2>3, TransitionTyped DEF AdmitChild
  <2> DEFINE f == Failure(1, FALSE)
             failed == [Moved(run[r], "Failed") EXCEPT !.failure = f]
             born == NewRow(Ingestion, c, "ocr")
  <2>5. run' = [run EXCEPT ![r] = failed, ![c] = born]
    BY <1>3, <2>2 DEF AdmitChild
  <2>6. failed.state = "Failed"
    <3>1. run[r] \in Rows
      BY DEF TypeOK
    <3> HIDE DEF f
    <3> QED
      BY <2>4, <3>1, MovedFields, FailedFields
  <2>7. born.state = "Ingested"
    BY DEF NewRow, Ingestion
  <2> HIDE DEF failed, born
  <2>8. run'[r] = failed /\ run'[c] = born /\ \A p \in Runs \ {r, c} : run'[p] = run[p]
    BY <2>2, <2>5 DEF TypeOK
  <2> QED
    BY <2>3, <2>6, <2>7, <2>8 DEF Quiet
<1> QED
  BY <1>1, <1>2, <1>3

LEMMA ReconcileQuiet ==
  ASSUME TypeOK, Reconcile, NEW q \in Runs
  PROVE  Quiet(q)
<1>1. CASE ~Interrupted(q)
  BY <1>1 DEF Reconcile, Quiet
<1>2. CASE Interrupted(q)
  <2>1. run[q] \in Rows
    BY DEF TypeOK
  <2>2. run'[q] = Reconciled(run[q])
    BY <1>2 DEF Reconcile
  <2>3. Reconciled(run[q]).state \in {"Failed", "Cancelled"}
    BY <2>1 DEF Reconciled, Moved, Rows
  <2> QED
    BY <2>2, <2>3, BusyStates DEF Quiet
<1> QED
  BY <1>1, <1>2

\* Starting a stage puts one row to work.
LEMMA StartIs ==
  ASSUME TypeOK, NEW r \in Runs, NEW i \in Stages, NEW v, StartStage(r, i, v)
  PROVE  /\ run[r].state = Checkpoint(i-1) /\ v = run[r].version
         /\ run'[r].state = ActiveState(i) /\ run'[r].state \in ActiveStates
         /\ run'[r].version = Later(v)
         /\ \A q \in Runs \ {r} : run'[q] = run[q]
<1>1. run[r] \in Rows /\ run[r].state = Checkpoint(i-1) /\ v = run[r].version
  BY DEF TypeOK, StartStage, CanMove
<1>2. run' = [run EXCEPT ![r] = Moved(run[r], ActiveState(i))]
  BY DEF StartStage, Persist
<1>3. /\ Moved(run[r], ActiveState(i)).state = ActiveState(i)
      /\ Moved(run[r], ActiveState(i)).version = run[r].version + 1
  BY <1>1, MovedFields
<1>4. ActiveState(i) \in ActiveStates
  BY BusyStates, StagesInRange
<1>5. run'[r] = Moved(run[r], ActiveState(i)) /\ \A q \in Runs \ {r} : run'[q] = run[q]
  BY <1>2 DEF TypeOK
<1> QED
  BY <1>1, <1>3, <1>4, <1>5 DEF Later

LEMMA RetryIs ==
  ASSUME TypeOK, NEW src \in Runs, NEW v, NEW r \in Runs, CreateRetry(src, v, r)
  PROVE  /\ Fresh(r) /\ run'[r].state = "Parsing" /\ handoff' = handoff
         /\ \A q \in Runs \ {r} : run'[q] = run[q]
<1> DEFINE states == Append(Ingestion, "Parsing")
<1>1. /\ Fresh(r) /\ handoff' = handoff
      /\ run' = [run EXCEPT ![r] = NewRow(states, run[src].document, run[src].source)]
  BY DEF CreateRetry
<1>2. states[Len(states)] = "Parsing"
  BY DEF Ingestion
<1>3. NewRow(states, run[src].document, run[src].source).state = "Parsing"
  BY <1>2 DEF NewRow
<1> QED
  BY <1>1, <1>3 DEF TypeOK

LEMMA UnchangedQuiet ==
  ASSUME UNCHANGED vars, NEW q \in Runs
  PROVE  Quiet(q)
BY DEF vars, Quiet

LEMMA FailUnstartedQuiet ==
  ASSUME TypeOK, NEW r \in Runs, FailUnstarted(r), NEW q \in Runs
  PROVE  Quiet(q)
BY FailBackgroundQuiet, UnchangedQuiet DEF FailUnstarted

LEMMA MarkCompletedQuiet ==
  ASSUME TypeOK, NEW r \in Runs, MarkCompleted(r), NEW q \in Runs
  PROVE  Quiet(q)
BY UnchangedQuiet DEF MarkCompleted, MarkHandoffCompleted, Quiet

LEMMA StopHandoffQuiet ==
  ASSUME TypeOK, NEW r \in Runs, StopHandoff(r), NEW q \in Runs
  PROVE  Quiet(q)
BY UnchangedQuiet DEF StopHandoff, MoveHandoff, Quiet

\* A worker puts its own run to work, or the child it has adopted, and nothing else.
LEMMA WorkerQuiet ==
  ASSUME Shape, NEW r \in Runs, WorkerStep(r), NEW q \in Runs
  PROVE  \/ Quiet(q)
         \/ BeginStage(r) /\ StartStage(r, worker[r].stage, worker[r].ver)
         \/ BeginChild(r) /\ StartStage(handoff[r].child, 1, worker[r].ver)
<1>0. TypeOK /\ ChildrenApart
  BY DEF Shape
<1>1. worker[r].pc \in ChildPcs => handoff[r].child \in Runs
  BY DEF Shape, WorkerShape, Fits, ChildrenApart
<1>2. CASE OpenRow(r) \/ Plan(r) \/ Boundary(r) \/ ReadRow(r) \/ StageFails(r) \/ StopMidStage(r)
           \/ WorkerError(r) \/ OcrGivesUp(r) \/ AdoptChild(r) \/ SpawnChild(r) \/ Leave(r)
  <2>1. UNCHANGED vars
    BY <1>2 DEF OpenRow, Plan, Boundary, ReadRow, StageFails, StopMidStage, WorkerError,
                OcrGivesUp, AdoptChild, SpawnChild, Leave
  <2> QED
    BY <2>1, UnchangedQuiet
<1>3. CASE Pin(r)
  BY <1>3 DEF Pin, PinProfile, Quiet
<1>4. CASE BeginStage(r)
  BY <1>4, UnchangedQuiet DEF BeginStage
<1>5. CASE EndStage(r)
  BY <1>0, <1>5, StageQuiet DEF EndStage
<1>6. CASE NoClaimSurvives(r)
  BY <1>6, UnchangedQuiet DEF NoClaimSurvives, RecordVerificationAttempt, Quiet
<1>7. CASE WriteFailure(r)
  BY <1>0, <1>7, StageQuiet, UnchangedQuiet DEF WriteFailure
<1>8. CASE OcrCheck(r)
  BY <1>0, <1>8, StopHandoffQuiet, UnchangedQuiet DEF OcrCheck
<1>9. CASE OcrExchange(r)
  BY <1>0, <1>9, HandoffQuiet DEF OcrExchange, HandoffMoves, HandoffRefused
<1>10. CASE BeginChild(r)
  BY <1>0, <1>1, <1>10, CompleteCancellationQuiet, UnchangedQuiet DEF BeginChild, At, ChildPcs
<1>11. CASE ChildUnstarted(r)
  BY <1>0, <1>1, <1>11, FailUnstartedQuiet DEF ChildUnstarted, At, ChildPcs
<1>12. CASE Finalize(r)
  BY <1>0, <1>12, MarkCompletedQuiet, UnchangedQuiet DEF Finalize
<1>13. CASE FinalWrite(r)
  BY <1>0, <1>13, CompleteCancellationQuiet, FailBackgroundQuiet, UnchangedQuiet DEF FinalWrite
<1> QED
  BY <1>2, <1>3, <1>4, <1>5, <1>6, <1>7, <1>8, <1>9, <1>10, <1>11, <1>12, <1>13 DEF WorkerStep

LEMMA RecoveryQuiet ==
  ASSUME Shape, RecoveryStep, NEW q \in Runs
  PROVE  Quiet(q)
<1>0. TypeOK /\ ChildrenApart
  BY DEF Shape
<1>1. recovery.pc \in {"check", "exchange", "settle", "rewind", "launch"} => recovery.run \in Runs
  BY DEF Shape, RecoveryShape
<1>2. CASE ListHandoffs \/ (\E h \in Runs : PickHandoff(h)) \/ RecoveryGivesUp
           \/ (\E c \in Runs : ResumeClaims(c)) \/ ResumeLaunches \/ RecoveryEnds
  <2>1. UNCHANGED vars
    BY <1>2 DEF ListHandoffs, PickHandoff, RecoveryGivesUp, ResumeClaims, ResumeLaunches,
                RecoveryEnds
  <2> QED
    BY <2>1, UnchangedQuiet
<1>3. CASE RecoveryCheck
  BY <1>0, <1>1, <1>3, StopHandoffQuiet, UnchangedQuiet DEF RecoveryCheck
<1>4. CASE RecoveryExchange
  BY <1>0, <1>1, <1>4, HandoffQuiet DEF RecoveryExchange, HandoffMoves, HandoffRefused
<1>5. CASE RecoverySettles
  BY <1>0, <1>1, <1>5, CompleteCancellationQuiet, UnchangedQuiet DEF RecoverySettles
<1>6. CASE ResumeRewinds
  BY <1>0, <1>1, <1>6, HandoffQuiet, MarkCompletedQuiet, UnchangedQuiet DEF ResumeRewinds
<1> QED
  BY <1>2, <1>3, <1>4, <1>5, <1>6 DEF RecoveryStep

\* A command puts a run to work, cancels one, or does neither.
LEMMA UiQuiet ==
  ASSUME Shape, UiStep, NEW q \in Runs
  PROVE  \/ Quiet(q)
         \/ AdmitUpload /\ StartStage(ui.run, 1, ui.ver)
         \/ DirectBegin /\ StartStage(ui.run, ui.stage, ui.ver)
         \/ \E r, src \in Runs : RetryRun(src, r)
         \/ CommitCancel /\ RequestCancellation(ui.run, ui.ver)
<1>0. TypeOK
  BY DEF Shape
<1>1. ui.cmd # "none" => ui.run \in Runs
  BY DEF Shape, UiShape
<1>2. ASSUME NEW r \in Runs, UploadDocument(r) \/ IngestOnly(r) PROVE Quiet(q)
  BY <1>0, <1>2, BirthQuiet DEF UploadDocument, IngestOnly
<1>3. ASSUME NEW r \in Runs, ContinueRun(r) \/ CancelRun(r) PROVE Quiet(q)
  BY <1>3, UnchangedQuiet DEF ContinueRun, CancelRun
<1>4. ASSUME NEW r \in Runs, NEW src \in Runs, CorrectText(src, r) PROVE Quiet(q)
  BY <1>0, <1>4, BirthQuiet DEF CorrectText
<1>5. ASSUME NEW r \in Runs, NEW i \in Stages, DirectStage(r, i) PROVE Quiet(q)
  BY <1>5, UnchangedQuiet DEF DirectStage
<1>6. CASE ClaimRun \/ SpawnWorker \/ SpawnFails \/ SignalToken
  <2>1. UNCHANGED vars
    BY <1>6 DEF ClaimRun, SpawnWorker, SpawnFails, SignalToken
  <2> QED
    BY <2>1, UnchangedQuiet
<1>7. CASE PersistStartFailure
  BY <1>0, <1>1, <1>7, FailUnstartedQuiet DEF PersistStartFailure
<1>8. CASE AdmitUpload \/ DirectBegin \/ CommitCancel
  BY <1>8, UnchangedQuiet DEF AdmitUpload, DirectBegin, CommitCancel
<1>9. CASE DirectEnd \/ DirectFail
  <2>1. ui.run \in Runs /\ ui.stage \in Stages
    BY <1>9 DEF DirectEnd, DirectFail, Shape, UiShape
  <2> QED
    BY <1>0, <1>9, <2>1, StageQuiet, UnchangedQuiet DEF DirectEnd, DirectFail
<1> QED
  BY <1>2, <1>3, <1>4, <1>5, <1>6, <1>7, <1>8, <1>9 DEF UiStep

\* A worker cancels nothing.
LEMMA WorkerCancelsNone ==
  ASSUME Shape, NEW r \in Runs, WorkerStep(r), NEW q \in Runs, run'[q].state = "Cancelling"
  PROVE  run'[q] = run[q]
<1>0. TypeOK
  BY DEF Shape
<1>1. Quiet(q) => run'[q] = run[q]
  BY DEF Quiet, Busy
<1>2. ASSUME NEW c \in Runs, NEW i \in Stages, NEW v, StartStage(c, i, v) PROVE run'[q] = run[q]
  <2>1. q # c
    BY <1>0, <1>2, StartIs, BusyStates
  <2> QED
    BY <1>0, <1>2, <2>1, StartIs
<1>3. CASE BeginStage(r) /\ StartStage(r, worker[r].stage, worker[r].ver)
  <2>1. worker[r].stage \in Stages
    BY <1>3 DEF BeginStage, At, Shape, WorkerShape, Fits
  <2> QED
    BY <1>2, <1>3, <2>1
<1>4. CASE BeginChild(r) /\ StartStage(handoff[r].child, 1, worker[r].ver)
  <2>1. handoff[r].child \in Runs
    BY <1>4 DEF BeginChild, At, Shape, WorkerShape, Fits, ChildPcs, ChildrenApart
  <2> QED
    BY <1>2, <1>4, <2>1, StagesTyped
<1> QED
  BY <1>1, <1>3, <1>4, WorkerQuiet

\* Only the command that cancels a run makes it CANCELLING.
LEMMA OnlyCommandsCancel ==
  ASSUME Shape, [JobsNext]_allVars, NEW q \in Runs, run'[q].state = "Cancelling"
  PROVE  \/ run'[q] = run[q]
         \/ CommitCancel /\ RequestCancellation(ui.run, ui.ver)
<1>0. TypeOK
  BY DEF Shape
<1>1. Quiet(q) => run'[q] = run[q]
  BY DEF Quiet, Busy
<1>2. ASSUME NEW r \in Runs, NEW i \in Stages, NEW v, StartStage(r, i, v) PROVE run'[q] = run[q]
  <2>1. q # r
    BY <1>0, <1>2, StartIs, BusyStates
  <2> QED
    BY <1>0, <1>2, <2>1, StartIs
<1>3. CASE Crash \/ Restart
  BY <1>0, <1>1, <1>3, ReconcileQuiet, UnchangedQuiet DEF Crash, Restart
<1>4. CASE UNCHANGED allVars
  BY <1>4 DEF allVars, vars
<1>5. CASE RecoveryStep
  BY <1>1, <1>5, RecoveryQuiet
<1>6. ASSUME NEW r \in Runs, WorkerStep(r) PROVE run'[q] = run[q]
  BY <1>6, WorkerCancelsNone
<1>7. CASE UiStep
  <2>1. CASE AdmitUpload /\ StartStage(ui.run, 1, ui.ver)
    <3>1. ui.run \in Runs
      BY <2>1 DEF AdmitUpload, Shape, UiShape
    <3> QED
      BY <1>2, <2>1, <3>1, StagesTyped
  <2>2. CASE DirectBegin /\ StartStage(ui.run, ui.stage, ui.ver)
    <3>1. ui.run \in Runs /\ ui.stage \in Stages
      BY <2>2 DEF DirectBegin, Shape, UiShape
    <3> QED
      BY <1>2, <2>2, <3>1
  <2>3. ASSUME NEW r \in Runs, NEW src \in Runs, RetryRun(src, r) PROVE run'[q] = run[q]
    <3>1. CreateRetry(src, run[src].version, r)
      BY <2>3 DEF RetryRun
    <3> QED
      BY <1>0, <3>1, RetryIs
  <2> QED
    BY <1>1, <1>7, <2>1, <2>2, <2>3, UiQuiet
<1> QED
  BY <1>3, <1>4, <1>5, <1>6, <1>7 DEF JobsNext

-----------------------------------------------------------------------------
(* Cancellation.                                                             *)

\* The command of the UI thread goes on as it was: the claim it holds the token of may be gone.
SameCommand ==
  /\ ui'.cmd = ui.cmd /\ ui'.run = ui.run /\ ui'.ver = ui.ver /\ ui'.stage = ui.stage
  /\ ui'.live => ui.live
  /\ ui.live /\ ~ui'.live => active'[ui.run] = "none"

LEMMA ReleaseLeavesCommand ==
  ASSUME Shape, NEW S \in SUBSET Runs, Release(S)
  PROVE  /\ SameCommand
         /\ \A q \in Runs : active'[q] = IF q \in S THEN "none" ELSE active[q]
<1>1. \A q \in Runs : active'[q] = IF q \in S THEN "none" ELSE active[q]
  BY DEF Release
<1>2. CASE ui.run \in S
  <2>1. ui' = [ui EXCEPT !.live = FALSE] /\ active'[ui.run] = "none"
    BY <1>1, <1>2 DEF Release
  <2> QED
    BY <1>1, <2>1 DEF SameCommand, Shape, JobsTypeOK
<1>3. CASE ui.run \notin S
  BY <1>1, <1>3 DEF Release, SameCommand
<1> QED
  BY <1>2, <1>3

\* A worker leaves the UI thread alone, and the only claim it takes is its child's.
LEMMA WorkerLeavesCommand ==
  ASSUME Shape, NEW r \in Runs, WorkerStep(r)
  PROVE  /\ SameCommand
         /\ \A q \in Runs : \/ active'[q] \in {active[q], "none"}
                            \/ /\ AdoptChild(r) /\ handoff[r].child = q
                               /\ worker'[r].pc = "begin child"
<1>1. CASE WorksOn(r)
  BY <1>1 DEF WorksOn, WorkerOnly, SameCommand
<1>2. CASE AdoptChild(r)
  <2>1. SameCommand
    BY <1>2 DEF AdoptChild, SameCommand
  <2>2. ASSUME NEW q \in Runs, active'[q] # active[q]
        PROVE  handoff[r].child = q /\ worker'[r].pc = "begin child"
    <3>1. Claim(handoff[r].child) /\ Step(r, "begin child", 1, run[handoff[r].child].version)
      BY <1>2, <2>2 DEF AdoptChild
    <3>2. worker'[r].pc = "begin child"
      BY <3>1 DEF Step, Shape, JobsTypeOK
    <3> QED
      BY <2>2, <3>1, <3>2 DEF Claim, Shape, JobsTypeOK
  <2> QED
    BY <1>2, <2>1, <2>2
<1>3. CASE Leave(r)
  <2>1. {r} \in SUBSET Runs
    OBVIOUS
  <2> QED
    BY <1>3, <2>1, ReleaseLeavesCommand DEF Leave
<1>4. CASE BeginChild(r) \/ SpawnChild(r)
  <2>1. {handoff[r].child} \in SUBSET Runs
    BY <1>4 DEF BeginChild, SpawnChild, At, Shape, WorkerShape, Fits, ChildPcs, ChildrenApart
  <2>2. Release({handoff[r].child}) \/ UNCHANGED <<active, ui>>
    BY <1>4 DEF BeginChild, SpawnChild
  <2>3. CASE Release({handoff[r].child})
    BY <2>1, <2>3, ReleaseLeavesCommand
  <2>4. CASE UNCHANGED <<active, ui>>
    BY <2>4 DEF SameCommand
  <2> QED
    BY <2>2, <2>3, <2>4
<1> QED
  BY <1>1, <1>2, <1>3, <1>4, WorkerWorksOn DEF Hands

LEMMA RecoveryLeavesCommand ==
  ASSUME Shape, RecoveryStep
  PROVE  SameCommand
<1>1. CASE RecoveryRests
  BY <1>1 DEF RecoveryRests, RecoveryOnly, SameCommand
<1>2. ASSUME NEW c \in Runs, ResumeClaims(c) PROVE SameCommand
  BY <1>2 DEF ResumeClaims, SameCommand
<1>3. CASE ResumeRewinds \/ ResumeLaunches
  <2>1. {recovery.run} \in SUBSET Runs
    BY <1>3 DEF ResumeRewinds, ResumeLaunches, Shape, RecoveryShape
  <2>2. Release({recovery.run}) \/ UNCHANGED <<active, ui>>
    BY <1>3 DEF ResumeRewinds, ResumeLaunches
  <2>3. CASE Release({recovery.run})
    BY <2>1, <2>3, ReleaseLeavesCommand
  <2> QED
    BY <2>2, <2>3 DEF SameCommand
<1>4. CASE RecoveryEnds
  <2>1. Release(recovery.reserved) /\ recovery.reserved \in SUBSET Runs
    BY <1>4 DEF RecoveryEnds, Shape, JobsTypeOK
  <2> QED
    BY <2>1, ReleaseLeavesCommand
<1> QED
  BY <1>1, <1>2, <1>3, <1>4, RecoveryRestsOrHands DEF RecoveryHands

\* Nobody but its parent moves a child that waits to begin.
LEMMA ChildWaits ==
  ASSUME Shape, ClaimInv, NEW h \in Runs, worker[h].pc = "begin child"
  PROVE  /\ \A r \in Runs : WorkerStep(r) => worker'[h].pc = "begin child" \/ BeginChild(h)
         /\ UiStep => worker'[h].pc = "begin child"
<1>0. ByWorker(h) /\ ~ByUi(h) /\ ~ByParent(h)
  BY DEF ByWorker, ClaimInv, Owned, OneOwner
<1>1. ASSUME NEW r \in Runs, WorkerStep(r) PROVE worker'[h].pc = "begin child" \/ BeginChild(h)
  <2>1. CASE WorksOn(r)
    BY <2>1 DEF WorksOn, Starting
  <2>2. CASE AdoptChild(r)
    <3>1. r # h
      BY <2>2 DEF AdoptChild, At
    <3>2. worker'[h] = worker[h]
      BY <2>2, <3>1 DEF AdoptChild, Step, End, Shape, JobsTypeOK
    <3> QED
      BY <3>2
  <2>3. CASE BeginChild(r) /\ r # h
    <3>1. worker'[h] = worker[h]
      BY <2>3 DEF BeginChild, Step, End, Shape, JobsTypeOK
    <3> QED
      BY <3>1
  <2>4. CASE SpawnChild(r)
    <3>1. worker[r].pc = "spawn child" /\ r # h
      BY <2>4 DEF SpawnChild, At
    <3>2. handoff[r].child # h
      BY <1>0, <3>1 DEF ByParent, StartsChild, Starting
    <3>3. worker'[h] = worker[h]
      BY <2>4, <3>1, <3>2 DEF SpawnChild, Step, Shape, JobsTypeOK
    <3> QED
      BY <3>3
  <2>5. CASE Leave(r)
    <3>1. r # h
      BY <2>5 DEF Leave, At
    <3>2. worker'[h] = worker[h]
      BY <2>5, <3>1 DEF Leave, Shape, JobsTypeOK
    <3> QED
      BY <3>2
  <2> QED
    BY <1>1, <2>1, <2>2, <2>3, <2>4, <2>5, WorkerWorksOn DEF Hands
<1>2. ASSUME UiStep PROVE worker'[h].pc = "begin child"
  <2>1. CASE UiRests \/ ClaimRun \/ SpawnFails \/ SignalToken
    BY <2>1 DEF UiRests, UiOnly, ClaimRun, SpawnFails, SignalToken
  <2>2. CASE SpawnWorker
    <3>1. ui.run # h /\ ui.run \in Runs
      BY <1>0, <2>2 DEF SpawnWorker, ByUi, Shape, UiShape
    <3>2. worker'[h] = worker[h]
      BY <2>2, <3>1 DEF SpawnWorker, StartWorker, Shape, JobsTypeOK
    <3> QED
      BY <3>2
  <2> QED
    BY <1>2, <2>1, <2>2, UiRestsOrHands DEF UiHands
<1> QED
  BY <1>1, <1>2

\* Where the command the UI thread is left with comes from.
Begun(cmd, r, v) == ui'.cmd = cmd /\ ui'.run = r /\ ui'.ver = v

AskedBy(r) ==
  \/ Begun("admit", r, Len(Ingestion)) /\ UploadDocument(r)
  \/ Begun("claim", r, 0) /\ \E src \in Runs : RetryRun(src, r)
  \/ Begun("claim", r, run[r].version) /\ ContinueRun(r)
  \/ Begun("cancel", r, run[r].version) /\ CancelRun(r) /\ ui'.live
  \/ \E i \in Stages : Begun("direct", r, run[r].version) /\ DirectStage(r, i) /\ ui'.stage = i

GoesOn(r) ==
  /\ ui.run = r
  /\ \/ Begun("claim", r, 0) /\ AdmitUpload /\ StartStage(r, 1, ui.ver)
     \/ Begun("spawn", r, ui.ver) /\ ClaimRun /\ Unclaimed(r) /\ Claim(r)
     \/ Begun("unstarted", r, 0) /\ SpawnFails /\ ui.ver = 0
     \/ Begun("signal", r, ui.ver) /\ CommitCancel /\ RequestCancellation(r, ui.ver)
          /\ ui'.live = ui.live
     \/ Begun("working", r, Later(ui.ver)) /\ DirectBegin /\ StartStage(r, ui.stage, ui.ver)
          /\ ui'.stage = ui.stage
     \/ Begun("failing", r, ui.ver) /\ DirectEnd /\ UNCHANGED vars /\ ui'.stage = ui.stage

LEMMA CommandOrigin ==
  ASSUME Shape, UiStep
  PROVE  ui' = NoCommand \/ \E r \in Runs : AskedBy(r) \/ GoesOn(r)
<1> USE CommandIs, ReturnIs
<1>1. ASSUME NEW r \in Runs, UploadDocument(r) PROVE AskedBy(r)
  BY <1>1 DEF UploadDocument, AskedBy, Begun, Command
<1>2. ASSUME NEW r \in Runs, NEW src \in Runs, RetryRun(src, r) PROVE AskedBy(r)
  <2>1. Begun("claim", r, 0)
    BY <1>2 DEF RetryRun, Begun, Command
  <2> QED
    BY <1>2, <2>1 DEF AskedBy
<1>3. ASSUME NEW r \in Runs, ContinueRun(r) PROVE AskedBy(r)
  <2>1. Begun("claim", r, run[r].version)
    BY <1>3 DEF ContinueRun, Begun, Command
  <2> QED
    BY <1>3, <2>1 DEF AskedBy
<1>4. ASSUME NEW r \in Runs, CancelRun(r) PROVE AskedBy(r)
  <2>1. Begun("cancel", r, run[r].version) /\ ui'.live
    BY <1>4 DEF CancelRun, Begun, Command
  <2> QED
    BY <1>4, <2>1 DEF AskedBy
<1>5. ASSUME NEW r \in Runs, NEW i \in Stages, DirectStage(r, i) PROVE AskedBy(r)
  <2>1. Begun("direct", r, run[r].version) /\ ui'.stage = i
    BY <1>5 DEF DirectStage, Begun, Command
  <2> QED
    BY <1>5, <2>1 DEF AskedBy
<1>6. ASSUME NEW r \in Runs, IngestOnly(r) PROVE ui' = NoCommand
  BY <1>6 DEF IngestOnly, UiFree, jobVars
<1>7. ASSUME NEW r \in Runs, NEW src \in Runs, CorrectText(src, r) PROVE ui' = NoCommand
  BY <1>7 DEF CorrectText, UiFree, jobVars
<1>8. CASE PersistStartFailure \/ DirectFail \/ SpawnWorker \/ SignalToken
  BY <1>8 DEF PersistStartFailure, DirectFail, SpawnWorker, SignalToken
<1>9. ui.cmd # "none" => ui.run \in Runs
  BY DEF Shape, UiShape
<1>10. CASE AdmitUpload
  <2>1. ui' = NoCommand \/ (StartStage(ui.run, 1, ui.ver) /\ Command("claim", ui.run, 1, 0))
    BY <1>10 DEF AdmitUpload
  <2>2. PICK r \in Runs : ui.run = r
    BY <1>9, <1>10 DEF AdmitUpload
  <2>3. Command("claim", r, 1, 0) => Begun("claim", r, 0)
    BY DEF Begun, Command
  <2> QED
    BY <1>10, <2>1, <2>2, <2>3 DEF GoesOn
<1>11. CASE ClaimRun
  <2>1. PICK r \in Runs : ui.run = r
    BY <1>9, <1>11 DEF ClaimRun
  <2>2. \/ ui' = NoCommand
        \/ Unclaimed(r) /\ Claim(r) /\ Command("spawn", r, ui.stage, ui.ver)
    BY <1>11, <2>1 DEF ClaimRun
  <2>3. Command("spawn", r, ui.stage, ui.ver) => Begun("spawn", r, ui.ver)
    BY DEF Begun, Command
  <2> QED
    BY <1>11, <2>1, <2>2, <2>3 DEF GoesOn
<1>12. CASE SpawnFails
  <2>1. PICK r \in Runs : ui.run = r
    BY <1>9, <1>12 DEF SpawnFails
  <2>2. ui' = NoCommand \/ (ui.ver = 0 /\ Command("unstarted", r, 1, 0))
    BY <1>12, <2>1 DEF SpawnFails
  <2>3. Command("unstarted", r, 1, 0) => Begun("unstarted", r, 0)
    BY DEF Begun, Command
  <2> QED
    BY <1>12, <2>1, <2>2, <2>3 DEF GoesOn
<1>13. CASE CommitCancel
  <2>1. PICK r \in Runs : ui.run = r
    BY <1>9, <1>13 DEF CommitCancel
  <2>2. ui' = NoCommand \/ (RequestCancellation(r, ui.ver) /\ ui' = [ui EXCEPT !.cmd = "signal"])
    BY <1>13, <2>1 DEF CommitCancel
  <2>3. ui' = [ui EXCEPT !.cmd = "signal"] => Begun("signal", r, ui.ver) /\ ui'.live = ui.live
    BY <2>1 DEF Begun, Shape, JobsTypeOK
  <2> QED
    BY <1>13, <2>1, <2>2, <2>3 DEF GoesOn
<1>14. CASE DirectBegin
  <2>1. PICK r \in Runs : ui.run = r
    BY <1>9, <1>14 DEF DirectBegin
  <2>2. \/ ui' = NoCommand
        \/ /\ StartStage(r, ui.stage, ui.ver)
           /\ Command("working", r, ui.stage, Later(ui.ver))
    BY <1>14, <2>1 DEF DirectBegin
  <2>3. Command("working", r, ui.stage, Later(ui.ver)) =>
          Begun("working", r, Later(ui.ver)) /\ ui'.stage = ui.stage
    BY DEF Begun, Command
  <2> QED
    BY <1>14, <2>1, <2>2, <2>3 DEF GoesOn
<1>15. CASE DirectEnd
  <2>1. PICK r \in Runs : ui.run = r
    BY <1>9, <1>15 DEF DirectEnd
  <2>2. ui' = NoCommand \/ (UNCHANGED vars /\ ui' = [ui EXCEPT !.cmd = "failing"])
    BY <1>15, <2>1 DEF DirectEnd
  <2>3. ui' = [ui EXCEPT !.cmd = "failing"] => Begun("failing", r, ui.ver) /\ ui'.stage = ui.stage
    BY <2>1 DEF Begun, Shape, JobsTypeOK
  <2> QED
    BY <1>15, <2>1, <2>2, <2>3 DEF GoesOn
<1> QED
  BY <1>1, <1>2, <1>3, <1>4, <1>5, <1>6, <1>7, <1>8, <1>10, <1>11, <1>12, <1>13, <1>14, <1>15
  DEF UiStep

LEMMA RequestIs ==
  ASSUME TypeOK, NEW r \in Runs, NEW v, RequestCancellation(r, v)
  PROVE  /\ v = run[r].version /\ run'[r].state = "Cancelling"
         /\ \A q \in Runs \ {r} : run'[q] = run[q]
<1>1. v = run[r].version /\ run[r] \in Rows
  BY DEF RequestCancellation, CanMove, TypeOK
<1> DEFINE moved == Moved(run[r], "Cancelling")
           row == [moved EXCEPT !.cancel = TRUE]
<1>2. run' = [run EXCEPT ![r] = row]
  BY DEF RequestCancellation, Persist
<1>3. row.state = "Cancelling"
  BY <1>1 DEF Moved, Rows
<1> HIDE DEF row
<1> QED
  BY <1>1, <1>2, <1>3 DEF TypeOK

\* Only a command asks a worker to stop.
LEMMA WorkerAsksNobody ==
  ASSUME Shape, NEW r \in Runs, WorkerStep(r), NEW q \in Runs, active'[q] = "requested"
  PROVE  active[q] = "requested"
<1>1. CASE AdoptChild(r)
  BY <1>1 DEF AdoptChild, Claim, Shape, JobsTypeOK
<1> QED
  BY <1>1, WorkerLeavesCommand

LEMMA RecoveryAsksNobody ==
  ASSUME Shape, RecoveryStep, NEW q \in Runs, active'[q] = "requested"
  PROVE  active[q] = "requested"
<1>1. CASE RecoveryRests
  BY <1>1 DEF RecoveryRests, RecoveryOnly
<1>2. ASSUME NEW c \in Runs, ResumeClaims(c) PROVE active[q] = "requested"
  BY <1>2 DEF ResumeClaims, Claim, Shape, JobsTypeOK
<1>3. CASE ResumeRewinds \/ ResumeLaunches
  BY <1>3 DEF ResumeRewinds, ResumeLaunches, Release
<1>4. CASE RecoveryEnds
  BY <1>4 DEF RecoveryEnds, Release
<1> QED
  BY <1>1, <1>2, <1>3, <1>4, RecoveryRestsOrHands DEF RecoveryHands

LEMMA UiAsks ==
  ASSUME Shape, UiStep, NEW q \in Runs, active'[q] = "requested", active[q] # "requested"
  PROVE  SignalToken /\ ui.run = q
<1>1. CASE UiRests \/ SpawnWorker
  BY <1>1 DEF UiRests, UiOnly, SpawnWorker
<1>2. CASE ClaimRun
  BY <1>2 DEF ClaimRun, Claim, Shape, JobsTypeOK
<1>3. CASE SpawnFails
  BY <1>3 DEF SpawnFails, Shape, JobsTypeOK
<1>4. CASE SignalToken
  BY <1>4 DEF SignalToken, Shape, JobsTypeOK
<1> QED
  BY <1>1, <1>2, <1>3, <1>4, UiRestsOrHands DEF UiHands

Stopped == {"Cancelling", "Cancelled"}
WaitsToBegin(r) == StartsChild(r, {"begin child"})

\* What SignalFollowsCommit needs to be inductive: a signal is on its way only after the commit,
\* nothing is claimed for a run that is CANCELLING, the version a cancel command has seen is no
\* newer than the row, and there is no recovery before the first crash. A command whose token is
\* gone cannot cancel the run under a new claim: either the version it has seen is stale, or the
\* claim is a parent's, which completes the cancellation itself.
SignalAfterCommit == ui.cmd = "signal" => run[ui.run].state \in Stopped
RequestedStops == \A r \in Runs : active[r] = "requested" => run[r].state \in Stopped
ClaimsNoCancelled == ui.cmd = "claim" => run[ui.run].state # "Cancelling"
VersionSeen == ui.cmd = "cancel" => Exists(ui.run) /\ ui.ver <= run[ui.run].version
FirstSession == crashes = 0 => up /\ recovery = NoRecovery
StaleToken ==
  crashes = 0 /\ ui.cmd = "cancel" /\ Claimed(ui.run) /\ ~ui.live =>
    ui.ver < run[ui.run].version \/ WaitsToBegin(ui.run)
TokenReaches(r) ==
  crashes = 0 /\ active[r] = "live" /\ run[r].state = "Cancelling" =>
    (ui.cmd = "signal" /\ ui.run = r /\ ui.live) \/ WaitsToBegin(r)

CancelInv ==
  /\ SignalAfterCommit /\ RequestedStops /\ ClaimsNoCancelled /\ VersionSeen /\ FirstSession
  /\ StaleToken /\ \A r \in Runs : TokenReaches(r)

LEMMA TokensReachWorkers ==
  ASSUME CancelInv, ClaimInv
  PROVE  SignalFollowsCommit
<1> SUFFICES ASSUME NEW r \in Runs
             PROVE  /\ active[r] = "requested" => run[r].state \in {"Cancelling", "Cancelled"}
                    /\ crashes = 0 /\ active[r] = "live" /\ run[r].state = "Cancelling"
                         /\ worker[r].pc # "idle"
                         => ui.cmd = "signal" /\ ui.run = r /\ ui.live
  BY DEF SignalFollowsCommit
<1>1. worker[r].pc # "idle" => ~WaitsToBegin(r)
  BY DEF ClaimInv, Owned, OneOwner, ByWorker, ByParent, WaitsToBegin, StartsChild, Starting
<1> QED
  BY <1>1 DEF CancelInv, RequestedStops, TokenReaches, Stopped

LEMMA StoppedStays ==
  ASSUME Shape, [Next]_vars, NEW q \in Runs, run[q].state \in Stopped
  PROVE  run'[q].state \in Stopped
<1>1. RowStep(q)
  BY NextRowStep DEF Shape
<1>2. ~RowBorn(q)
  BY DEF RowBorn, Exists, Stopped
<1>3. RowMoved(q) => run'[q].state = "Cancelled"
  BY DEF RowMoved, Stopped, ValidTransition, Terminal
<1> QED
  BY <1>1, <1>2, <1>3 DEF RowStep, RowKept, Stopped

\* Steps that are not a command's.
OthersStep == RecoveryStep \/ (\E r \in Runs : WorkerStep(r)) \/ UNCHANGED allVars

LEMMA OthersLeaveCommand ==
  ASSUME Shape, OthersStep
  PROVE  SameCommand
BY WorkerLeavesCommand, RecoveryLeavesCommand DEF OthersStep, SameCommand, allVars, jobVars

\* A crash and a restart leave no command behind.
LEMMA ProcessEndsCommand ==
  ASSUME Shape, ClaimInv, Crash \/ Restart
  PROVE  ui'.cmd = "none" /\ \A q \in Runs : active'[q] # "requested"
BY DEF ClaimInv, Forgotten, Crash, Restart, NoCommand

LEMMA SignalAfterCommitStep ==
  ASSUME Shape, ClaimInv, SignalAfterCommit, [JobsNext]_allVars
  PROVE  SignalAfterCommit'
<1>0. [Next]_vars /\ TypeOK
  BY JobStepIsStoreStep DEF Shape
<1>1. CASE OthersStep
  <2>1. SameCommand
    BY <1>1, OthersLeaveCommand
  <2>2. ui.cmd = "signal" => ui.run \in Runs
    BY DEF Shape, UiShape
  <2> QED
    BY <1>0, <2>1, <2>2, StoppedStays DEF SignalAfterCommit, SameCommand
<1>2. CASE Crash \/ Restart
  BY <1>2, ProcessEndsCommand DEF SignalAfterCommit
<1>3. CASE UiStep
  <2>1. CASE ui' = NoCommand
    BY <2>1 DEF SignalAfterCommit, NoCommand
  <2>2. ASSUME NEW r \in Runs, AskedBy(r) PROVE SignalAfterCommit'
    BY <2>2 DEF AskedBy, Begun, SignalAfterCommit
  <2>3. ASSUME NEW r \in Runs, GoesOn(r), ui'.cmd = "signal" PROVE SignalAfterCommit'
    <3>1. RequestCancellation(r, ui.ver) /\ ui'.run = r
      BY <2>3 DEF GoesOn, Begun
    <3>2. run'[r].state = "Cancelling"
      BY <1>0, <3>1, RequestIs
    <3> QED
      BY <3>1, <3>2 DEF SignalAfterCommit, Stopped
  <2> QED
    BY <1>3, <2>1, <2>2, <2>3, CommandOrigin DEF SignalAfterCommit
<1> QED
  BY <1>1, <1>2, <1>3 DEF JobsNext, OthersStep

LEMMA RequestedStopsStep ==
  ASSUME Shape, ClaimInv, SignalAfterCommit, RequestedStops, [JobsNext]_allVars
  PROVE  RequestedStops'
<1>0. [Next]_vars
  BY JobStepIsStoreStep
<1>1. ASSUME NEW q \in Runs, active'[q] = "requested" PROVE run[q].state \in Stopped
  <2>1. CASE active[q] = "requested"
    BY <2>1 DEF RequestedStops
  <2>2. CASE active[q] # "requested"
    <3>1. CASE Crash \/ Restart
      BY <1>1, <3>1, ProcessEndsCommand
    <3>2. CASE UNCHANGED allVars
      BY <1>1, <2>2, <3>2 DEF allVars, jobVars
    <3>3. CASE RecoveryStep
      BY <1>1, <2>2, <3>3, RecoveryAsksNobody
    <3>4. CASE \E r \in Runs : WorkerStep(r)
      BY <1>1, <2>2, <3>4, WorkerAsksNobody
    <3>5. CASE UiStep
      <4>1. SignalToken /\ ui.run = q
        BY <1>1, <2>2, <3>5, UiAsks
      <4> QED
        BY <4>1 DEF SignalToken, SignalAfterCommit
    <3> QED
      BY <3>1, <3>2, <3>3, <3>4, <3>5 DEF JobsNext
  <2> QED
    BY <2>1, <2>2
<1> QED
  BY <1>0, <1>1, StoppedStays DEF RequestedStops

LEMMA ClaimsNoCancelledStep ==
  ASSUME Shape, ClaimInv, ClaimsNoCancelled, [JobsNext]_allVars
  PROVE  ClaimsNoCancelled'
<1>0. TypeOK
  BY DEF Shape
<1>1. CASE OthersStep
  <2>1. SameCommand
    BY <1>1, OthersLeaveCommand
  <2>2. ASSUME NEW q \in Runs, ui.run = q, ui.cmd = "claim", run'[q].state = "Cancelling"
        PROVE  run[q].state = "Cancelling"
    BY <2>2, OnlyCommandsCancel DEF CommitCancel
  <2>3. ui.cmd = "claim" => ui.run \in Runs
    BY DEF Shape, UiShape
  <2> QED
    BY <2>1, <2>2, <2>3 DEF ClaimsNoCancelled, SameCommand
<1>2. CASE Crash \/ Restart
  BY <1>2, ProcessEndsCommand DEF ClaimsNoCancelled
<1>3. CASE UiStep
  <2>1. CASE ui' = NoCommand
    BY <2>1 DEF ClaimsNoCancelled, NoCommand
  <2>2. ASSUME NEW r \in Runs, AskedBy(r), ui'.cmd = "claim" PROVE ClaimsNoCancelled'
    <3>1. ui'.run = r /\ (ContinueRun(r) \/ \E src \in Runs : RetryRun(src, r))
      BY <2>2 DEF AskedBy, Begun
    <3>2. CASE ContinueRun(r)
      <4>1. run' = run /\ run[r].state \in Checkpoints
        BY <3>2 DEF ContinueRun, Continuable, vars
      <4> QED
        BY <3>1, <4>1, TableValues DEF ClaimsNoCancelled
    <3>3. ASSUME NEW src \in Runs, RetryRun(src, r) PROVE ClaimsNoCancelled'
      <4>1. CreateRetry(src, run[src].version, r)
        BY <3>3 DEF RetryRun
      <4>2. run'[r].state = "Parsing"
        BY <1>0, <4>1, RetryIs
      <4> QED
        BY <3>1, <4>2 DEF ClaimsNoCancelled
    <3> QED
      BY <3>1, <3>2, <3>3
  <2>3. ASSUME NEW r \in Runs, GoesOn(r), ui'.cmd = "claim" PROVE ClaimsNoCancelled'
    <3>1. StartStage(r, 1, ui.ver) /\ ui'.run = r
      BY <2>3 DEF GoesOn, Begun
    <3>2. run'[r].state = "Parsing"
      BY <1>0, <3>1, StartIs, StagesTyped, BusyStates
    <3> QED
      BY <3>1, <3>2 DEF ClaimsNoCancelled
  <2> QED
    BY <1>3, <2>1, <2>2, <2>3, CommandOrigin DEF ClaimsNoCancelled
<1> QED
  BY <1>1, <1>2, <1>3 DEF JobsNext, OthersStep

LEMMA VersionSeenStep ==
  ASSUME Shape, ClaimInv, VersionSeen, [JobsNext]_allVars
  PROVE  VersionSeen'
<1>0. TypeOK /\ [Next]_vars
  BY JobStepIsStoreStep DEF Shape
<1>1. CASE OthersStep
  <2>1. SameCommand
    BY <1>1, OthersLeaveCommand
  <2>2. ASSUME NEW q \in Runs, ui.run = q, ui.cmd = "cancel"
        PROVE  Exists(q)' /\ ui.ver <= run'[q].version
    <3>1. Exists(q) /\ ui.ver <= run[q].version
      BY <2>2 DEF VersionSeen
    <3>2. Exists(q)' /\ run'[q].version \in Nat /\ run'[q].version >= run[q].version
      BY <1>0, <3>1, RunGoesOn
    <3>3. ui.ver \in Nat /\ run[q].version \in Nat
      BY <1>0, MaxVersionAssumption DEF TypeOK, Rows, Shape, JobsTypeOK
    <3> QED
      BY <3>1, <3>2, <3>3
  <2>3. ui.cmd = "cancel" => ui.run \in Runs
    BY DEF Shape, UiShape
  <2>4. ASSUME ui'.cmd = "cancel" PROVE run'[ui'.run].state # "Absent" /\ ui'.ver <= run'[ui'.run].version
    <3>1. PICK q \in Runs : ui.run = q
      BY <2>1, <2>3, <2>4 DEF SameCommand
    <3> QED
      BY <2>1, <2>2, <2>4, <3>1 DEF SameCommand, Exists
  <2> QED
    BY <2>4 DEF VersionSeen, Exists
<1>2. CASE Crash \/ Restart
  BY <1>2, ProcessEndsCommand DEF VersionSeen
<1>3. CASE UiStep
  <2>1. CASE ui' = NoCommand
    BY <2>1 DEF VersionSeen, NoCommand
  <2>2. ASSUME NEW r \in Runs, AskedBy(r), ui'.cmd = "cancel" PROVE VersionSeen'
    <3>1. CancelRun(r) /\ ui'.run = r /\ ui'.ver = run[r].version
      BY <2>2 DEF AskedBy, Begun
    <3>2. run' = run /\ run[r].state \in ActiveStates \cup Checkpoints
      BY <3>1 DEF CancelRun, CanRequestCancellation, vars
    <3>3. run[r].state # "Absent" /\ run[r].version \in Nat
      BY <1>0, <3>2, TableValues, MaxVersionAssumption DEF TypeOK, Rows
    <3> QED
      BY <3>1, <3>2, <3>3 DEF VersionSeen, Exists
  <2>3. ASSUME NEW r \in Runs, GoesOn(r) PROVE ui'.cmd # "cancel"
    BY <2>3 DEF GoesOn, Begun
  <2> QED
    BY <1>3, <2>1, <2>2, <2>3, CommandOrigin DEF VersionSeen
<1> QED
  BY <1>1, <1>2, <1>3 DEF JobsNext, OthersStep

LEMMA FirstSessionStep ==
  ASSUME Shape, FirstSession, [JobsNext]_allVars
  PROVE  FirstSession' /\ (crashes' = 0 => crashes = 0 /\ ~Crash /\ ~Restart /\ ~RecoveryStep)
<1>1. crashes \in Nat
  BY MaxCrashesAssumption DEF Shape, JobsTypeOK
<1>2. CASE Crash
  BY <1>1, <1>2 DEF Crash, Later, FirstSession
<1>3. CASE Restart
  BY <1>3 DEF Restart, FirstSession
<1>4. CASE RecoveryStep
  <2>1. recovery.pc # "off" /\ crashes' = crashes
    BY <1>4 DEF RecoveryStep, ListHandoffs, PickHandoff, RecoveryCheck, RecoveryExchange,
       RecoveryGivesUp, RecoverySettles, ResumeClaims, ResumeRewinds, ResumeLaunches, RecoveryEnds,
       RecoveryOnly
  <2> QED
    BY <2>1 DEF FirstSession, NoRecovery
<1>5. CASE ~Crash /\ ~Restart /\ ~RecoveryStep
  <2>1. CASE UNCHANGED allVars
    BY <1>5, <2>1 DEF allVars, jobVars, FirstSession
  <2>2. ASSUME NEW r \in Runs, WorkerStep(r)
        PROVE  up' = up /\ crashes' = crashes /\ recovery' = recovery
    <3>1. CASE WorksOn(r)
      BY <3>1 DEF WorksOn, WorkerOnly
    <3> QED
      BY <2>2, <3>1, WorkerWorksOn DEF Hands, AdoptChild, BeginChild, SpawnChild, Leave
  <2>3. CASE UiStep
    <3>1. up' = up /\ crashes' = crashes /\ recovery' = recovery
      BY <2>3, UiRestsOrHands DEF UiRests, UiOnly, UiHands, ClaimRun, SpawnWorker, SpawnFails,
         SignalToken
    <3> QED
      BY <1>5, <3>1 DEF FirstSession
  <2> QED
    BY <1>5, <2>1, <2>2, <2>3 DEF JobsNext, FirstSession
<1> QED
  BY <1>2, <1>3, <1>4, <1>5

\* A child that waits to begin goes on waiting, begins, or loses its claim.
LEMMA WaitingGoesOn ==
  ASSUME Shape, ClaimInv, [Next]_vars, NEW q \in Runs, WaitsToBegin(q)
  PROVE  /\ \A r \in Runs : WorkerStep(r) =>
              \/ WaitsToBegin(q)' \/ active'[q] = "none" \/ StartStage(q, 1, run[q].version)
         /\ UiStep => WaitsToBegin(q)'
<1>1. PICK h \in Runs : handoff[h].child = q /\ worker[h].pc = "begin child"
  BY DEF WaitsToBegin, StartsChild
<1>2. handoff'[h].child = q
  <2>1. HasHandoff(h)
    BY <1>1 DEF Shape, WorkerShape, Fits, ChildPcs
  <2> QED
    BY <1>1, <2>1, PromiseStays DEF Shape
<1>3. worker'[h].pc = "begin child" => WaitsToBegin(q)'
  BY <1>2 DEF WaitsToBegin, StartsChild
<1>4. ASSUME BeginChild(h) PROVE active'[q] = "none" \/ StartStage(q, 1, run[q].version)
  <2>1. CASE StartStage(q, 1, worker[h].ver)
    BY <2>1, StartIs, StagesTyped DEF Shape
  <2>2. CASE Release({q})
    BY <2>2 DEF Release
  <2> QED
    BY <1>1, <1>4, <2>1, <2>2 DEF BeginChild
<1> QED
  BY <1>1, <1>3, <1>4, ChildWaits

\* In the first session a run's claim is renewed by its parent alone.
LEMMA WorkerClaimsChild ==
  ASSUME Shape, [Next]_vars, NEW r \in Runs, WorkerStep(r), NEW q \in Runs,
         active'[q] \notin {active[q], "none"}
  PROVE  WaitsToBegin(q)'
<1>1. AdoptChild(r) /\ handoff[r].child = q /\ worker'[r].pc = "begin child"
  BY WorkerLeavesCommand
<1>2. HasHandoff(r)
  BY <1>1 DEF AdoptChild, At, Shape, WorkerShape, Fits, ChildPcs
<1>3. handoff'[r].child = q
  BY <1>1, <1>2, PromiseStays DEF Shape
<1> QED
  BY <1>1, <1>3 DEF WaitsToBegin, StartsChild

LEMMA StaleTokenStep ==
  ASSUME Shape, ClaimInv, VersionSeen, FirstSession, StaleToken, [JobsNext]_allVars
  PROVE  StaleToken'
<1> SUFFICES ASSUME crashes' = 0, ui'.cmd = "cancel", Claimed(ui.run)', ~ui'.live
             PROVE  ui'.ver < run'[ui'.run].version \/ WaitsToBegin(ui.run)'
  BY DEF StaleToken
<1>0. TypeOK /\ [Next]_vars
  BY JobStepIsStoreStep DEF Shape
<1>1. crashes = 0 /\ ~Crash /\ ~Restart /\ ~RecoveryStep
  BY FirstSessionStep
<1>2. ~UiStep
  <2>1. ASSUME UiStep PROVE FALSE
    <3>1. ASSUME NEW r \in Runs, AskedBy(r) PROVE ui'.live
      BY <3>1 DEF AskedBy, Begun
    <3>2. ASSUME NEW r \in Runs, GoesOn(r) PROVE ui'.cmd # "cancel"
      BY <3>2 DEF GoesOn, Begun
    <3> QED
      BY <2>1, <3>1, <3>2, CommandOrigin DEF NoCommand
  <2> QED
    BY <2>1
<1>3. CASE UNCHANGED allVars
  BY <1>1, <1>3 DEF allVars, jobVars, vars, StaleToken, Claimed, WaitsToBegin, StartsChild
<1>4. ASSUME NEW r \in Runs, WorkerStep(r)
      PROVE  ui'.ver < run'[ui'.run].version \/ WaitsToBegin(ui.run)'
  <2>1. SameCommand
    BY <1>4, WorkerLeavesCommand
  <2>2. PICK q \in Runs : ui.run = q
    BY <2>1 DEF SameCommand, Shape, UiShape
  <2>3. ui'.run = q /\ ui'.ver = ui.ver /\ ui.cmd = "cancel" /\ active'[q] # "none" /\ ~ui.live
    BY <2>1, <2>2 DEF SameCommand, Claimed
  <2>4. WaitsToBegin(q)' => WaitsToBegin(ui.run)'
    BY <2>3 DEF WaitsToBegin
  <2>5. Exists(q) /\ ui.ver <= run[q].version
    BY <2>2, <2>3 DEF VersionSeen
  <2>6. run'[q].version \in Nat /\ run'[q].version >= run[q].version
        /\ ui.ver \in Nat /\ run[q].version \in Nat
    BY <1>0, <2>5, RunGoesOn, MaxVersionAssumption DEF TypeOK, Rows, Shape, JobsTypeOK
  <2>7. CASE active[q] = "none"
    BY <1>0, <1>4, <2>3, <2>4, <2>7, WorkerClaimsChild
  <2>8. CASE active[q] # "none"
    <3>1. ui.ver < run[q].version \/ WaitsToBegin(q)
      BY <1>1, <2>2, <2>3, <2>8 DEF StaleToken, Claimed
    <3>2. CASE ui.ver < run[q].version
      BY <2>3, <2>6, <3>2
    <3>3. CASE StartStage(q, 1, run[q].version)
      <4>1. run'[q].version = run[q].version + 1
        BY <1>0, <3>3, StartIs, StagesTyped DEF Later
      <4> QED
        BY <2>3, <2>5, <2>6, <4>1
    <3> QED
      BY <1>0, <1>4, <2>3, <2>4, <3>1, <3>2, <3>3, WaitingGoesOn
  <2> QED
    BY <2>7, <2>8
<1> QED
  BY <1>1, <1>2, <1>3, <1>4 DEF JobsNext

\* The second half of a cancellation follows the first at once.
LEMMA SignalIsNext ==
  ASSUME UiStep, ui.cmd = "signal"
  PROVE  SignalToken
<1>1. ui # NoCommand
  BY DEF NoCommand
<1> QED
  BY <1>1
  DEF UiStep, UploadDocument, IngestOnly, ContinueRun, CancelRun, RetryRun, CorrectText, DirectStage,
      UiFree, AdmitUpload, ClaimRun, SpawnWorker, SpawnFails, PersistStartFailure, CommitCancel,
      DirectBegin, DirectEnd, DirectFail

LEMMA UiTokenReachesStep ==
  ASSUME Shape, ClaimInv, StaleToken, ClaimsNoCancelled, [Next]_vars,
         NEW q \in Runs, TokenReaches(q), UiStep, crashes = 0,
         active'[q] = "live", run'[q].state = "Cancelling"
  PROVE  (ui'.cmd = "signal" /\ ui'.run = q /\ ui'.live) \/ WaitsToBegin(q)'
<1>0. TypeOK
  BY DEF Shape
<1>1. active[q] = "live"
  <2>1. CASE UiRests \/ SpawnWorker
    BY <2>1 DEF UiRests, UiOnly, SpawnWorker
  <2>2. CASE ClaimRun
    <3>1. q # ui.run
      BY <2>2 DEF ClaimRun, ClaimsNoCancelled, vars
    <3> QED
      BY <2>2, <3>1 DEF ClaimRun, Claim, Shape, JobsTypeOK
  <2>3. CASE SpawnFails
    BY <2>3 DEF SpawnFails, Shape, JobsTypeOK
  <2>4. CASE SignalToken
    BY <2>4 DEF SignalToken, Shape, JobsTypeOK
  <2> QED
    BY <2>1, <2>2, <2>3, <2>4, UiRestsOrHands DEF UiHands
<1>2. WaitsToBegin(q) => WaitsToBegin(q)'
  BY WaitingGoesOn
<1>3. CASE run'[q] = run[q]
  <2>1. (ui.cmd = "signal" /\ ui.run = q /\ ui.live) \/ WaitsToBegin(q)
    BY <1>1, <1>3 DEF TokenReaches
  <2>2. CASE ui.cmd = "signal" /\ ui.run = q /\ ui.live
    <3>1. SignalToken
      BY <2>2, SignalIsNext
    <3> QED
      BY <2>2, <3>1 DEF SignalToken, Shape, JobsTypeOK
  <2> QED
    BY <1>2, <2>1, <2>2
<1>4. CASE run'[q] # run[q]
  <2>1. CommitCancel /\ RequestCancellation(ui.run, ui.ver)
    BY <1>4, OnlyCommandsCancel DEF JobsNext
  <2>2. PICK c \in Runs : ui.run = c
    BY <2>1 DEF CommitCancel, Shape, UiShape
  <2>3. c = q /\ ui.ver = run[q].version
    BY <1>0, <1>4, <2>1, <2>2, RequestIs
  <2>4. ui' = [ui EXCEPT !.cmd = "signal"]
    BY <1>4, <2>1 DEF CommitCancel, vars
  <2>5. ui'.cmd = "signal" /\ ui'.run = q /\ ui'.live = ui.live
    BY <2>2, <2>3, <2>4 DEF Shape, JobsTypeOK
  <2>6. CASE ~ui.live
    <3>1. ui.ver < run[q].version \/ WaitsToBegin(q)
      BY <1>1, <2>1, <2>2, <2>3, <2>6 DEF StaleToken, Claimed, CommitCancel
    <3>2. run[q].version \in Nat
      BY <1>0, MaxVersionAssumption DEF TypeOK, Rows
    <3>3. WaitsToBegin(q)
      BY <2>3, <3>1, <3>2
    <3> QED
      BY <1>2, <3>3
  <2> QED
    BY <2>5, <2>6
<1> QED
  BY <1>3, <1>4

LEMMA TokenReachesStep ==
  ASSUME Shape, ClaimInv, FirstSession, StaleToken, ClaimsNoCancelled,
         NEW q \in Runs, TokenReaches(q), [JobsNext]_allVars
  PROVE  TokenReaches(q)'
<1> SUFFICES ASSUME crashes' = 0, active'[q] = "live", run'[q].state = "Cancelling"
             PROVE  (ui'.cmd = "signal" /\ ui'.run = q /\ ui'.live) \/ WaitsToBegin(q)'
  BY DEF TokenReaches
<1>0. TypeOK /\ [Next]_vars
  BY JobStepIsStoreStep DEF Shape
<1>1. crashes = 0 /\ ~Crash /\ ~Restart /\ ~RecoveryStep
  BY FirstSessionStep
<1>2. CASE UiStep
  BY <1>0, <1>1, <1>2, UiTokenReachesStep
<1>3. CASE UNCHANGED allVars
  <2>1. active[q] = "live" /\ run[q].state = "Cancelling" /\ ui' = ui
    BY <1>3 DEF allVars, jobVars, vars
  <2>2. WaitsToBegin(q) => WaitsToBegin(q)'
    BY <1>3 DEF allVars, jobVars, vars, WaitsToBegin, StartsChild
  <2> QED
    BY <1>1, <2>1, <2>2 DEF TokenReaches
<1>4. ASSUME NEW r \in Runs, WorkerStep(r)
      PROVE  (ui'.cmd = "signal" /\ ui'.run = q /\ ui'.live) \/ WaitsToBegin(q)'
  <2>1. run'[q] = run[q]
    BY <1>4, WorkerCancelsNone
  <2>2. SameCommand
    BY <1>4, WorkerLeavesCommand
  <2>3. CASE active[q] # "live"
    BY <1>0, <1>4, <2>3, WorkerClaimsChild
  <2>4. CASE active[q] = "live"
    <3>1. (ui.cmd = "signal" /\ ui.run = q /\ ui.live) \/ WaitsToBegin(q)
      BY <1>1, <2>1, <2>4 DEF TokenReaches
    <3>2. CASE ui.cmd = "signal" /\ ui.run = q /\ ui.live
      BY <2>2, <3>2 DEF SameCommand
    <3>3. CASE WaitsToBegin(q)
      <4>1. ~StartStage(q, 1, run[q].version)
        BY <1>0, StartIs, StagesTyped, BusyStates
      <4> QED
        BY <1>0, <1>4, <3>3, <4>1, WaitingGoesOn
    <3> QED
      BY <3>1, <3>2, <3>3
  <2> QED
    BY <2>3, <2>4
<1> QED
  BY <1>1, <1>2, <1>3, <1>4 DEF JobsNext

LEMMA CancelStep ==
  ASSUME Shape, ClaimInv, CancelInv, [JobsNext]_allVars
  PROVE  CancelInv'
<1>1. /\ SignalAfterCommit /\ RequestedStops /\ ClaimsNoCancelled /\ VersionSeen /\ FirstSession
      /\ StaleToken /\ \A r \in Runs : TokenReaches(r)
  BY DEF CancelInv
<1>2. /\ SignalAfterCommit' /\ RequestedStops' /\ ClaimsNoCancelled' /\ VersionSeen'
      /\ FirstSession' /\ StaleToken'
  BY <1>1, SignalAfterCommitStep, RequestedStopsStep, ClaimsNoCancelledStep, VersionSeenStep,
     FirstSessionStep, StaleTokenStep
<1>3. \A r \in Runs : TokenReaches(r)'
  BY <1>1, TokenReachesStep
<1> QED
  BY <1>2, <1>3 DEF CancelInv

LEMMA CancelInit == JobsInit => CancelInv
<1> SUFFICES ASSUME JobsInit PROVE CancelInv
  OBVIOUS
<1>1. ui.cmd = "none" /\ up /\ recovery = NoRecovery /\ \A r \in Runs : active[r] = "none"
  BY DEF JobsInit, NoCommand
<1> QED
  BY <1>1
  DEF CancelInv, SignalAfterCommit, RequestedStops, ClaimsNoCancelled, VersionSeen, FirstSession,
      StaleToken, TokenReaches

\* A cancellation never stops at half way: a token is signalled only once CANCELLING is committed,
\* and in the first session the worker of a CANCELLING run holds the token that the command is
\* about to signal, whoever released and took the claim since the command looked it up
\* (request_cancellation, claim_run, start_admitted_ocr_child).
THEOREM SignalsFollowCommits == JobsSpec => []SignalFollowsCommit
<1>1. JobsSpec => []CancelInv
  BY CancelInit, CancelStep, ShapeHolds, ClaimsHold, PTL DEF JobsSpec
<1> QED
  BY <1>1, TokensReachWorkers, ClaimsHold, PTL

-----------------------------------------------------------------------------
(* New runs are nobody else's: what the admission of a run relies on.        *)

Promised(q) == \E h \in Runs : HasHandoff(h) /\ handoff[h].child = q

\* The store has a row for the id, or has promised it to a child.
Known(q) == Exists(q) \/ Promised(q)

\* A command that has just admitted a run, and owes it a worker, finds it unclaimed: no other
\* thread can have heard of it. (Continued runs may be claimed meanwhile.)
AdmissionPending == ui.cmd = "admit" \/ (ui.cmd = "claim" /\ ui.ver = 0)
AdmissionIsOwn == AdmissionPending =>
  Known(ui.run) /\ ~Claimed(ui.run) /\ ~Promised(ui.run)
ClaimsKnown == \A q \in Runs : Claimed(q) => Known(q)
CommandsKnown == ui.cmd # "none" => Known(ui.run)
ResumesPromised == \A q \in recovery.resume : Promised(q)

KnownInv == AdmissionIsOwn /\ ClaimsKnown /\ CommandsKnown /\ ResumesPromised

LEMMA FreshIsUnknown ==
  ASSUME NEW q \in Runs, Fresh(q)
  PROVE  ~Known(q)
BY DEF Fresh, Known, Promised

LEMMA KnownStays ==
  ASSUME TypeOK, [Next]_vars, NEW q \in Runs
  PROVE  /\ Promised(q) => Promised(q)'
         /\ Known(q) => Known(q)'
         /\ Known(q) /\ Promised(q)' => Promised(q)
<1>1. Promised(q) => Promised(q)'
  BY PromiseStays DEF Promised
<1>2. Known(q) => Known(q)'
  BY <1>1, RunGoesOn DEF Known
<1>3. ASSUME Known(q), Promised(q)' PROVE Promised(q)
  <2>1. PICK h \in Runs : HasHandoff(h)' /\ handoff'[h].child = q
    BY <1>3 DEF Promised
  <2>2. CASE HasHandoff(h)
    BY <2>1, <2>2, PromiseStays DEF Promised
  <2>3. CASE ~HasHandoff(h)
    <3>1. handoff'[h] # handoff[h]
      BY <2>1, <2>3 DEF HasHandoff
    <3>2. PICK c \in Runs \ {h} : PrepareHandoff(h, c)
      BY <2>3, <3>1, PromiseStays
    <3>3. handoff'[h].child = c /\ Fresh(c)
      BY <3>2 DEF PrepareHandoff, TypeOK
    <3> QED
      BY <1>3, <2>1, <3>3, FreshIsUnknown
  <2> QED
    BY <2>2, <2>3
<1> QED
  BY <1>1, <1>2, <1>3

\* A worker claims nothing but a promised child.
LEMMA WorkerClaimsPromised ==
  ASSUME Shape, NEW r \in Runs, WorkerStep(r), NEW q \in Runs, Claimed(q)', ~Claimed(q)
  PROVE  Promised(q)
<1>1. AdoptChild(r) /\ handoff[r].child = q
  BY WorkerLeavesCommand DEF Claimed
<1>2. HasHandoff(r)
  BY <1>1 DEF AdoptChild, At, Shape, WorkerShape, Fits, ChildPcs
<1> QED
  BY <1>1, <1>2 DEF Promised

LEMMA RecoveryClaimsPromised ==
  ASSUME Shape, ResumesPromised, RecoveryStep, NEW q \in Runs, Claimed(q)', ~Claimed(q)
  PROVE  Promised(q)
<1>1. CASE RecoveryRests
  BY <1>1 DEF RecoveryRests, RecoveryOnly, Claimed
<1>2. ASSUME NEW c \in Runs, ResumeClaims(c) PROVE Promised(q)
  <2>1. c \in recovery.resume /\ (Claim(c) \/ UNCHANGED active)
    BY <1>2 DEF ResumeClaims
  <2>2. q = c
    BY <2>1 DEF Claim, Claimed, Shape, JobsTypeOK
  <2> QED
    BY <2>1, <2>2 DEF ResumesPromised
<1>3. CASE ResumeRewinds \/ ResumeLaunches \/ RecoveryEnds
  BY <1>3 DEF ResumeRewinds, ResumeLaunches, RecoveryEnds, Release, Claimed
<1> QED
  BY <1>1, <1>2, <1>3, RecoveryRestsOrHands DEF RecoveryHands

\* The UI thread claims the run of its command, and the command goes on.
LEMMA UiClaims ==
  ASSUME Shape, TokenHeld, UiStep, NEW q \in Runs, Claimed(q)', ~Claimed(q)
  PROVE  ClaimRun /\ ui.run = q
<1>1. CASE UiRests \/ SpawnWorker
  BY <1>1 DEF UiRests, UiOnly, SpawnWorker, Claimed
<1>2. CASE ClaimRun
  BY <1>2 DEF ClaimRun, Claim, Claimed, Shape, JobsTypeOK
<1>3. CASE SpawnFails
  BY <1>3 DEF SpawnFails, Claimed, Shape, JobsTypeOK
<1>4. CASE SignalToken
  <2>1. ui.live => Claimed(ui.run)
    BY <1>4 DEF SignalToken, TokenHeld
  <2>2. CASE ui.run = q
    BY <1>4, <2>1, <2>2 DEF SignalToken, Claimed
  <2>3. CASE ui.run # q
    BY <1>4, <2>3 DEF SignalToken, Claimed, Shape, JobsTypeOK
  <2> QED
    BY <2>2, <2>3
<1> QED
  BY <1>1, <1>2, <1>3, <1>4, UiRestsOrHands DEF UiHands

LEMMA ResumesAre ==
  ASSUME Shape, RecoveryStep, NEW q \in Runs, q \in recovery'.resume
  PROVE  q \in recovery.resume \/ Promised(q)
<1>1. ASSUME NEW root, NEW children, HandoffDone(root, children)
      PROVE  q \in recovery.resume \/ q \in children
  BY <1>1 DEF HandoffDone, Shape, JobsTypeOK
<1>2. ASSUME NEW pc, NEW root, Recovering(pc, root) PROVE q \in recovery.resume
  BY <1>2 DEF Recovering, Shape, JobsTypeOK
<1>3. ASSUME NEW c, recovery' = [recovery EXCEPT !.resume = @ \ {c}] \/ ResumeEnds(c)
      PROVE  q \in recovery.resume
  BY <1>3 DEF ResumeEnds, Shape, JobsTypeOK
<1>4. CASE ListHandoffs
  BY <1>4 DEF ListHandoffs, Shape, JobsTypeOK
<1>5. ASSUME NEW h \in Runs, PickHandoff(h) PROVE q \in recovery.resume \/ Promised(q)
  <2>1. \/ Recovering("check", h)
        \/ handoff[h].phase \in AdmittedPhases /\ HandoffDone(h, {})
        \/ handoff[h].phase \in AdmittedPhases /\ HandoffDone(h, {handoff[h].child})
    BY <1>5 DEF PickHandoff
  <2>2. handoff[h].phase \in AdmittedPhases => HasHandoff(h)
    BY DEF AdmittedPhases, HasHandoff
  <2> QED
    BY <1>1, <1>2, <2>1, <2>2 DEF Promised
<1>6. CASE RecoveryCheck
  BY <1>2, <1>6 DEF RecoveryCheck
<1>7. CASE RecoveryExchange
  <2>1. PICK h \in Runs : recovery.run = h
    BY <1>7 DEF RecoveryExchange, Shape, RecoveryShape
  <2>2. \/ Recovering("check", h) \/ HandoffDone(h, {})
        \/ AdmitChild(h) /\ HandoffDone(h, {handoff[h].child})
    BY <1>7, <2>1 DEF RecoveryExchange
  <2>3. AdmitChild(h) => HasHandoff(h)
    BY DEF AdmitChild, HasHandoff
  <2> QED
    BY <1>1, <1>2, <2>2, <2>3 DEF Promised
<1>8. CASE RecoveryGivesUp \/ RecoverySettles
  BY <1>1, <1>8 DEF RecoveryGivesUp, RecoverySettles
<1>9. ASSUME NEW c \in Runs, ResumeClaims(c) PROVE q \in recovery.resume
  BY <1>2, <1>3, <1>9 DEF ResumeClaims
<1>10. CASE ResumeRewinds \/ ResumeLaunches
  BY <1>2, <1>3, <1>10 DEF ResumeRewinds, ResumeLaunches
<1>11. CASE RecoveryEnds
  BY <1>11 DEF RecoveryEnds, NoRecovery
<1> QED
  BY <1>4, <1>5, <1>6, <1>7, <1>8, <1>9, <1>10, <1>11 DEF RecoveryStep

LEMMA ResumesPromisedStep ==
  ASSUME Shape, ResumesPromised, [JobsNext]_allVars
  PROVE  ResumesPromised'
<1>0. TypeOK /\ [Next]_vars
  BY JobStepIsStoreStep DEF Shape
<1>1. recovery.resume \subseteq Runs
  BY DEF Shape, JobsTypeOK
<1>2. \A q \in Runs : Promised(q) => Promised(q)'
  BY <1>0, KnownStays
<1>3. CASE recovery'.resume \subseteq recovery.resume
  BY <1>1, <1>2, <1>3 DEF ResumesPromised
<1>4. CASE RecoveryStep
  <2>1. recovery'.resume \subseteq Runs
    BY ShapeStep DEF Shape, JobsTypeOK
  <2> QED
    BY <1>2, <1>4, <2>1, ResumesAre DEF ResumesPromised
<1>5. CASE Crash \/ Restart
  <2>1. NoRecovery.resume = {}
    BY DEF NoRecovery
  <2>2. Crash => recovery'.resume = {}
    BY <2>1 DEF Crash
  <2>3. Restart => recovery'.resume = {}
    BY DEF Restart, NoRecovery
  <2> QED
    BY <1>3, <1>5, <2>2, <2>3
<1>6. CASE UNCHANGED allVars
  BY <1>3, <1>6 DEF allVars, jobVars
<1>7. ASSUME NEW r \in Runs, WorkerStep(r) PROVE ResumesPromised'
  <2>1. recovery' = recovery
    <3>1. CASE WorksOn(r)
      BY <3>1 DEF WorksOn, WorkerOnly
    <3> QED
      BY <1>7, <3>1, WorkerWorksOn DEF Hands, AdoptChild, BeginChild, SpawnChild, Leave
  <2> QED
    BY <1>3, <2>1
<1>8. CASE UiStep
  <2>1. recovery' = recovery
    BY <1>8, UiRestsOrHands DEF UiRests, UiOnly, UiHands, ClaimRun, SpawnWorker, SpawnFails,
       SignalToken
  <2> QED
    BY <1>3, <2>1
<1> QED
  BY <1>4, <1>5, <1>6, <1>7, <1>8 DEF JobsNext

LEMMA ClaimsKnownStep ==
  ASSUME Shape, StoreInv, ClaimInv, KnownInv, [JobsNext]_allVars
  PROVE  ClaimsKnown'
<1> SUFFICES ASSUME NEW q \in Runs, Claimed(q)' PROVE Known(q)'
  BY DEF ClaimsKnown
<1>0. TypeOK /\ [Next]_vars
  BY JobStepIsStoreStep DEF Shape
<1>1. Known(q) => Known(q)'
  BY <1>0, KnownStays
<1>2. CASE Claimed(q)
  BY <1>1, <1>2 DEF KnownInv, ClaimsKnown
<1>3. CASE ~Claimed(q)
  <2>1. CASE UNCHANGED allVars
    BY <1>3, <2>1 DEF allVars, jobVars, Claimed
  <2>2. ASSUME NEW r \in Runs, WorkerStep(r) PROVE Known(q)'
    BY <1>1, <1>3, <2>2, WorkerClaimsPromised DEF Known
  <2>3. CASE RecoveryStep
    BY <1>1, <1>3, <2>3, RecoveryClaimsPromised DEF Known, KnownInv
  <2>4. CASE UiStep
    <3>1. ClaimRun /\ ui.run = q
      BY <1>3, <2>4, UiClaims DEF ClaimInv
    <3>2. Known(ui.run)
      BY <3>1 DEF ClaimRun, KnownInv, CommandsKnown
    <3> QED
      BY <1>1, <3>1, <3>2
  <2>5. CASE Crash
    BY <2>5 DEF Crash, Claimed
  <2>6. CASE Restart
    <3>1. handoff[q].phase \in OpenPhases
      BY <2>6 DEF Restart, Claimed
    <3>2. HasHandoff(q)
      BY <3>1 DEF OpenPhases, HasHandoff
    <3>3. Exists(q)
      BY <3>2 DEF StoreInv, RootRests, RootStates, Exists
    <3> QED
      BY <1>1, <3>3 DEF Known
  <2> QED
    BY <2>1, <2>2, <2>3, <2>4, <2>5, <2>6 DEF JobsNext
<1> QED
  BY <1>2, <1>3

\* A command that admits a run leaves it in the store.
LEMMA AdmittedIs ==
  ASSUME Shape, ClaimsKnown, NEW r \in Runs, UploadDocument(r) \/ \E src \in Runs : RetryRun(src, r)
  PROVE  Known(r)' /\ ~Promised(r)' /\ ~Claimed(r)'
<1>0. TypeOK
  BY DEF Shape
<1>1. Fresh(r) /\ handoff' = handoff /\ active' = active /\ run'[r].state # "Absent"
  <2>1. ASSUME NEW s, NEW p, Ingest(r, s, p)
        PROVE  Fresh(r) /\ handoff' = handoff /\ run'[r].state # "Absent"
    <3> DEFINE row == NewRow(Ingestion, r, s)
    <3>1. Fresh(r) /\ handoff' = handoff /\ run' = [run EXCEPT ![r] = row]
      BY <2>1 DEF Ingest
    <3>2. row.state = "Ingested"
      BY DEF NewRow, Ingestion
    <3> HIDE DEF row
    <3> QED
      BY <1>0, <3>1, <3>2 DEF TypeOK
  <2>2. CASE UploadDocument(r)
    BY <2>1, <2>2 DEF UploadDocument, UiOnly
  <2>3. ASSUME NEW src \in Runs, RetryRun(src, r)
        PROVE  Fresh(r) /\ handoff' = handoff /\ active' = active /\ run'[r].state # "Absent"
    <3>1. CreateRetry(src, run[src].version, r) /\ active' = active
      BY <2>3 DEF RetryRun, UiOnly
    <3> QED
      BY <1>0, <3>1, RetryIs
  <2> QED
    BY <2>1, <2>2, <2>3
<1>2. ~Known(r) /\ ~Promised(r) /\ ~Claimed(r)
  BY <1>1, FreshIsUnknown DEF ClaimsKnown, Known
<1> QED
  BY <1>1, <1>2 DEF Known, Exists, Promised, HasHandoff, Claimed

LEMMA CommandsKnownStep ==
  ASSUME Shape, ClaimInv, KnownInv, [JobsNext]_allVars
  PROVE  CommandsKnown'
<1>0. TypeOK /\ [Next]_vars
  BY JobStepIsStoreStep DEF Shape
<1>1. ASSUME NEW q \in Runs, Known(q), ui'.run = q PROVE CommandsKnown'
  <2>1. Known(q)'
    BY <1>0, <1>1, KnownStays
  <2> QED
    BY <1>1, <2>1 DEF CommandsKnown, Known, Promised, Exists
<1>2. ui.cmd # "none" => ui.run \in Runs /\ Known(ui.run)
  BY DEF Shape, UiShape, KnownInv, CommandsKnown
<1>3. CASE OthersStep
  <2>1. SameCommand
    BY <1>3, OthersLeaveCommand
  <2>2. CASE ui.cmd = "none"
    BY <2>1, <2>2 DEF SameCommand, CommandsKnown
  <2>3. CASE ui.cmd # "none"
    BY <1>1, <1>2, <2>1, <2>3 DEF SameCommand
  <2> QED
    BY <2>2, <2>3
<1>4. CASE Crash \/ Restart
  BY <1>4, ProcessEndsCommand DEF CommandsKnown
<1>5. CASE UiStep
  <2>1. CASE ui' = NoCommand
    BY <2>1 DEF CommandsKnown, NoCommand
  <2>2. ASSUME NEW r \in Runs, AskedBy(r) PROVE CommandsKnown'
    <3>1. ui'.run = r
      BY <2>2 DEF AskedBy, Begun
    <3>2. CASE UploadDocument(r) \/ \E src \in Runs : RetryRun(src, r)
      <4>1. Known(r)'
        BY <3>2, AdmittedIs DEF KnownInv
      <4> QED
        BY <3>1, <4>1 DEF CommandsKnown, Known, Promised, Exists
    <3>3. CASE ContinueRun(r) \/ CancelRun(r) \/ \E i \in Stages : DirectStage(r, i)
      <4>1. run[r].state \in ActiveStates \cup Checkpoints
        BY <3>3, StagesInRange
        DEF ContinueRun, Continuable, CancelRun, CanRequestCancellation, DirectStage, Checkpoints
      <4>2. run[r].state # "Absent"
        BY <4>1, TableValues
      <4> QED
        BY <1>1, <3>1, <4>2 DEF Known, Exists
    <3> QED
      BY <2>2, <3>2, <3>3 DEF AskedBy
  <2>3. ASSUME NEW r \in Runs, GoesOn(r) PROVE CommandsKnown'
    <3>1. ui.run = r /\ ui'.run = r /\ ui.cmd # "none"
      BY <2>3 DEF GoesOn, Begun, AdmitUpload, ClaimRun, SpawnFails, CommitCancel, DirectBegin,
         DirectEnd
    <3>2. Known(r)
      BY <1>2, <3>1
    <3> QED
      BY <1>1, <3>1, <3>2
  <2> QED
    BY <1>5, <2>1, <2>2, <2>3, CommandOrigin
<1> QED
  BY <1>3, <1>4, <1>5 DEF JobsNext, OthersStep

LEMMA AdmissionIsOwnStep ==
  ASSUME Shape, StoreInv, ClaimInv, KnownInv, [JobsNext]_allVars
  PROVE  AdmissionIsOwn'
<1>0. TypeOK /\ [Next]_vars
  BY JobStepIsStoreStep DEF Shape
<1>1. ASSUME NEW q \in Runs, ui.run = q, ui'.run = q, AdmissionPending, ~Claimed(q)'
      PROVE  AdmissionIsOwn'
  <2>1. Known(q) /\ ~Promised(q)
    BY <1>1 DEF KnownInv, AdmissionIsOwn
  <2>2. Known(q)' /\ ~Promised(q)'
    BY <1>0, <2>1, KnownStays
  <2> QED
    BY <1>1, <2>2 DEF AdmissionIsOwn, Known, Promised, Exists, Claimed
<1>2. AdmissionPending => ui.run \in Runs /\ ~Claimed(ui.run) /\ ~Promised(ui.run)
  BY DEF Shape, UiShape, KnownInv, AdmissionIsOwn, AdmissionPending
<1>3. CASE OthersStep
  <2>1. SameCommand
    BY <1>3, OthersLeaveCommand
  <2>2. AdmissionPending' => AdmissionPending
    BY <2>1 DEF SameCommand, AdmissionPending
  <2>3. ASSUME NEW q \in Runs, ui.run = q, AdmissionPending PROVE ~Claimed(q)'
    <3>1. ~Claimed(q) /\ ~Promised(q)
      BY <1>2, <2>3
    <3>2. CASE UNCHANGED allVars
      BY <3>1, <3>2 DEF allVars, jobVars, Claimed
    <3> QED
      BY <1>3, <3>1, <3>2, WorkerClaimsPromised, RecoveryClaimsPromised DEF OthersStep, KnownInv
  <2> QED
    BY <1>1, <1>2, <2>1, <2>2, <2>3 DEF SameCommand, AdmissionIsOwn
<1>4. CASE Crash \/ Restart
  BY <1>4, ProcessEndsCommand DEF AdmissionIsOwn, AdmissionPending
<1>5. CASE UiStep
  <2>1. CASE ui' = NoCommand
    BY <2>1 DEF AdmissionIsOwn, AdmissionPending, NoCommand
  <2>2. ASSUME NEW r \in Runs, AskedBy(r), AdmissionPending' PROVE AdmissionIsOwn'
    <3>1. ui'.run = r
      BY <2>2 DEF AskedBy, Begun
    <3>2. CASE UploadDocument(r) \/ \E src \in Runs : RetryRun(src, r)
      <4>1. Known(r)' /\ ~Promised(r)' /\ ~Claimed(r)'
        BY <3>2, AdmittedIs DEF KnownInv
      <4> QED
        BY <3>1, <4>1 DEF AdmissionIsOwn, Known, Promised, Exists, Claimed
    <3>3. CASE Begun("claim", r, run[r].version) /\ ContinueRun(r)
      <4>1. run[r].state # "Absent"
        BY <3>3, TableValues DEF ContinueRun, Continuable
      <4>2. run[r].version # 0
        <5>1. log[r] # <<>> /\ Len(log[r]) = run[r].version /\ log[r] \in Seq(Events)
          BY <1>0, <4>1 DEF StoreInv, LogExplainsRun, Exists, TypeOK
        <5> QED
          BY <5>1
      <4> QED
        BY <2>2, <3>3, <4>2 DEF Begun, AdmissionPending
    <3> QED
      BY <2>2, <3>2, <3>3 DEF AskedBy, Begun, AdmissionPending
  <2>3. ASSUME NEW r \in Runs, GoesOn(r), AdmissionPending' PROVE AdmissionIsOwn'
    <3>1. ui.run = r /\ ui'.run = r /\ AdmitUpload
      BY <2>3 DEF GoesOn, Begun, AdmissionPending
    <3>2. AdmissionPending /\ active' = active
      BY <3>1 DEF AdmitUpload, UiOnly, AdmissionPending
    <3> QED
      BY <1>1, <1>2, <3>1, <3>2 DEF Claimed
  <2> QED
    BY <1>5, <2>1, <2>2, <2>3, CommandOrigin DEF AdmissionIsOwn
<1> QED
  BY <1>3, <1>4, <1>5 DEF JobsNext, OthersStep

LEMMA KnownHolds == JobsSpec => []KnownInv
<1>1. JobsInit => KnownInv
  BY DEF JobsInit, NoCommand, NoRecovery, KnownInv, AdmissionIsOwn, AdmissionPending, ClaimsKnown,
     CommandsKnown, ResumesPromised, Claimed
<1>2. ASSUME Shape, StoreInv, ClaimInv, KnownInv, [JobsNext]_allVars PROVE KnownInv'
  BY <1>2, ResumesPromisedStep, ClaimsKnownStep, CommandsKnownStep, AdmissionIsOwnStep DEF KnownInv
<1> QED
  BY <1>1, <1>2, ShapeHolds, StoreInvHolds, ClaimsHold, PTL DEF JobsSpec

-----------------------------------------------------------------------------
(* Active rows have owners, if the store never refuses to record a failure.  *)

HeldByWorker(q) ==
  \/ worker[q].pc = "started"
  \/ /\ worker[q].pc \in {"parse", "work", "failing", "stop", "fail"}
     /\ worker[q].ver = run[q].version
  \/ worker[q].pc = "final" /\ worker[q].out # "lost"
HeldByCommand(q) ==
  /\ ui.run = q
  /\ \/ ui.cmd \in {"claim", "spawn", "unstarted"} /\ ui.ver = 0
     \/ ui.cmd \in {"working", "failing"} /\ ui.ver = run[q].version
HeldByParent(q) == StartsChild(q, {"spawn child", "unstarted child"})

LEMMA Holders ==
  ASSUME NEW q \in Runs
  PROVE  Holder(q) <=> HeldByWorker(q) \/ HeldByCommand(q) \/ HeldByParent(q)
BY DEF Holder, HeldByWorker, HeldByCommand, HeldByParent

\* A worker moves no worker but its own, and starts the one of the child it has claimed.
LEMMA OtherWorkers ==
  ASSUME Shape, ClaimInv, NEW r \in Runs, WorkerStep(r), NEW h \in Runs \ {r}
  PROVE  \/ worker'[h] = worker[h]
         \/ worker[h].pc = "idle" /\ worker'[h].pc = "started"
<1>0. h \in Runs /\ h # r
  OBVIOUS
<1>1. CASE WorksOn(r)
  BY <1>1 DEF WorksOn
<1>2. CASE AdoptChild(r) \/ BeginChild(r)
  BY <1>0, <1>2 DEF AdoptChild, BeginChild, Step, End, Shape, JobsTypeOK
<1>3. CASE SpawnChild(r)
  <2>1. CASE Step(r, "unstarted child", 1, 0)
    BY <1>0, <2>1, StepIs DEF Step, Shape, JobsTypeOK
  <2>2. CASE worker' = [worker EXCEPT ![handoff[r].child] = [Idle EXCEPT !.pc = "started"],
                                      ![r] = [Idle EXCEPT !.pc = "final", !.out = "ocr"]]
    <3>1. CASE handoff[r].child # h
      BY <1>0, <2>2, <3>1 DEF Shape, JobsTypeOK
    <3>2. CASE handoff[r].child = h
      <4>1. ByParent(h)
        BY <1>3, <3>2 DEF SpawnChild, At, ByParent, StartsChild, Starting
      <4>2. worker[h].pc = "idle"
        BY <1>0, <4>1 DEF ClaimInv, Owned, OneOwner, ByWorker
      <4>3. worker'[h] = [Idle EXCEPT !.pc = "started"]
        BY <1>0, <2>2, <3>2 DEF Shape, JobsTypeOK
      <4>4. worker'[h].pc = "started"
        BY <4>3, IdleTyped DEF Workers
      <4> QED
        BY <4>2, <4>4
    <3> QED
      BY <3>1, <3>2
  <2> QED
    BY <1>3, <2>1, <2>2 DEF SpawnChild
<1>4. CASE Leave(r)
  BY <1>0, <1>4 DEF Leave, Shape, JobsTypeOK
<1> QED
  BY <1>1, <1>2, <1>3, <1>4, WorkerWorksOn DEF Hands

LEMMA RestIsNotActive ==
  ASSUME NEW s, s \in ActiveStates
  PROVE  s \in Busy /\ s # "Cancelling" /\ s \notin Terminal /\ s \notin RootStates
<1>1. s \in Busy /\ s # "Cancelling" /\ s \notin Terminal
  BY BusyStates DEF Busy
<1>2. "Parsed" \notin Busy /\ "Failed" \notin Busy /\ "Cancelled" \notin Busy
  BY BusyStates DEF Checkpoints, Checkpoint
<1> QED
  BY <1>1, <1>2 DEF RootStates

\* The worker of an active run keeps hold of it, version and all, until it moves the row.
LEMMA WorkerHoldsOn ==
  ASSUME Shape, StoreInv, ~FaultyStore, NEW r \in Runs, WorkerStep(r),
         run'[r] = run[r], run[r].state \in ActiveStates, HeldByWorker(r)
  PROVE  HeldByWorker(r)'
<1> DEFINE pc == worker[r].pc
<1>0. TypeOK /\ run'[r].state \in Busy /\ run[r].state # "Cancelling" /\ run[r].state \notin Terminal
  BY RestIsNotActive DEF Shape
<1>1. ~HasHandoff(r)
  BY RestIsNotActive DEF StoreInv, RootRests
<1>2. ASSUME NEW out, End(r, out), out # "lost" PROVE HeldByWorker(r)'
  BY <1>2, EndIs DEF HeldByWorker
<1>3. pc \in {"started", "parse", "work", "failing", "stop", "fail", "final"}
  BY DEF HeldByWorker
<1>4. pc \in {"parse", "work", "failing", "stop", "fail"} => worker[r].ver = run[r].version
  BY DEF HeldByWorker
<1>5. CASE OpenRow(r)
  <2>1. End(r, "other") \/ Step(r, "parse", 1, run[r].version)
    BY <1>5 DEF OpenRow
  <2>2. CASE Step(r, "parse", 1, run[r].version)
    <3>1. worker'[r].pc = "parse" /\ worker'[r].ver = run[r].version
      BY <2>2 DEF Step, Shape, JobsTypeOK
    <3> QED
      BY <3>1 DEF HeldByWorker
  <2> QED
    BY <1>2, <2>1, <2>2
<1>6. CASE WorkerError(r) \/ StopMidStage(r)
  BY <1>2, <1>6 DEF WorkerError, StopMidStage
<1>7. CASE StageFails(r)
  <2>1. worker'[r].pc = "failing" /\ worker'[r].ver = worker[r].ver /\ pc \in {"parse", "work"}
    BY <1>7 DEF StageFails, Step, Shape, JobsTypeOK
  <2> QED
    BY <1>4, <2>1 DEF HeldByWorker
<1>8. CASE EndStage(r)
  <2>1. run'[r].state \notin Busy
    BY <1>0, <1>8, StageQuiet DEF EndStage
  <2> QED
    BY <1>0, <2>1
<1>9. CASE NoClaimSurvives(r)
  <2>1. Step(r, "failing", 7, worker[r].ver)
    BY <1>4, <1>9 DEF NoClaimSurvives, At
  <2>2. worker'[r].pc = "failing" /\ worker'[r].ver = worker[r].ver
    BY <2>1 DEF Step, Shape, JobsTypeOK
  <2> QED
    BY <1>4, <1>9, <2>2 DEF HeldByWorker, NoClaimSurvives, At
<1>10. CASE WriteFailure(r)
  BY <1>2, <1>4, <1>10 DEF WriteFailure, At
<1>11. CASE Finalize(r)
  <2>1. worker[r].out # "lost"
    BY <1>11 DEF Finalize, At, HeldByWorker
  <2>2. Step(r, "fail", 0, run[r].version)
    BY <1>0, <1>1, <1>11, <2>1 DEF Finalize
  <2>3. worker'[r].pc = "fail" /\ worker'[r].ver = run[r].version
    BY <2>2 DEF Step, Shape, JobsTypeOK
  <2> QED
    BY <2>3 DEF HeldByWorker
<1>12. CASE FinalWrite(r)
  <2>1. CompleteCancellation(r, worker[r].ver)
          \/ FailBackground(r, StateAt(r, worker[r].ver), worker[r].ver)
    BY <1>4, <1>12 DEF FinalWrite, Fault
  <2>2. run'[r].state \notin Busy
    BY <1>0, <2>1, CompleteCancellationQuiet, FailBackgroundQuiet
  <2> QED
    BY <1>0, <2>2
<1> QED
  BY <1>3, <1>5, <1>6, <1>7, <1>8, <1>9, <1>10, <1>11, <1>12
  DEF WorkerStep, Plan, Boundary, Pin, ReadRow, BeginStage, OcrCheck, OcrExchange, OcrGivesUp,
      AdoptChild, BeginChild, SpawnChild, ChildUnstarted, Leave, At

LEMMA ParentsKeepPromises ==
  ASSUME Shape, [Next]_vars, NEW h \in Runs, NEW q \in Runs, worker[h].pc \in ChildPcs,
         handoff[h].child = q, worker'[h].pc \in {"spawn child", "unstarted child"}
  PROVE  HeldByParent(q)'
<1>1. HasHandoff(h)
  BY DEF Shape, WorkerShape, Fits
<1>2. handoff'[h].child = q
  BY <1>1, PromiseStays DEF Shape
<1> QED
  BY <1>2 DEF HeldByParent, StartsChild

\* A parent that holds its child hands it over to the child's own worker, or fails it.
LEMMA ParentHoldsOn ==
  ASSUME Shape, ClaimInv, ~FaultyStore, [Next]_vars, NEW r \in Runs, WorkerStep(r), NEW q \in Runs,
         run'[q] = run[q], run[q].state \in ActiveStates, NEW h \in Runs, handoff[h].child = q,
         worker[h].pc \in {"spawn child", "unstarted child"}
  PROVE  HeldByWorker(q)' \/ HeldByParent(q)'
<1>0. TypeOK /\ run'[q].state \in Busy /\ run[q].state \notin Terminal
  BY RestIsNotActive DEF Shape
<1>1. q # h
  BY DEF Shape, WorkerShape, Fits, ChildPcs, ChildrenApart
<1>2. worker[h].pc \in ChildPcs
  BY DEF ChildPcs
<1>3. CASE r # h
  <2>1. worker'[h] = worker[h]
    BY <1>3, OtherWorkers
  <2> QED
    BY <1>2, <2>1, ParentsKeepPromises
<1>4. CASE r = h
  <2>1. CASE SpawnChild(h)
    <3>1. CASE Step(h, "unstarted child", 1, 0)
      <4>1. worker'[h].pc = "unstarted child"
        BY <3>1 DEF Step, Shape, JobsTypeOK
      <4> QED
        BY <1>2, <4>1, ParentsKeepPromises
    <3>2. CASE worker' = [worker EXCEPT ![q] = [Idle EXCEPT !.pc = "started"],
                                        ![h] = [Idle EXCEPT !.pc = "final", !.out = "ocr"]]
      <4>1. worker'[q] = [Idle EXCEPT !.pc = "started"]
        BY <1>1, <3>2 DEF Shape, JobsTypeOK
      <4>2. worker'[q].pc = "started"
        BY <4>1, IdleTyped DEF Workers
      <4> QED
        BY <4>2 DEF HeldByWorker
    <3> QED
      BY <2>1, <3>1, <3>2 DEF SpawnChild
  <2>2. CASE ChildUnstarted(h)
    <3>1. FailBackground(q, run[q].state, run[q].version)
      BY <1>0, <2>2 DEF ChildUnstarted, FailUnstarted, Fault
    <3>2. run'[q].state \notin Busy
      BY <1>0, <3>1, FailBackgroundQuiet
    <3> QED
      BY <1>0, <3>2
  <2> QED
    BY <1>4, <2>1, <2>2
    DEF WorkerStep, OpenRow, Plan, Boundary, Pin, ReadRow, BeginStage, EndStage, StageFails,
        StopMidStage, NoClaimSurvives, WriteFailure, WorkerError, OcrCheck, OcrExchange, OcrGivesUp,
        AdoptChild, BeginChild, Finalize, FinalWrite, Leave, At
<1> QED
  BY <1>3, <1>4

LEMMA CommandHoldsOn ==
  ASSUME SameCommand, NEW q \in Runs, run'[q] = run[q], HeldByCommand(q)
  PROVE  HeldByCommand(q)'
BY DEF SameCommand, HeldByCommand

LEMMA WorkerKeepsHolders ==
  ASSUME Shape, StoreInv, ClaimInv, ~FaultyStore, [Next]_vars, NEW r \in Runs, WorkerStep(r),
         NEW q \in Runs, run'[q] = run[q], run[q].state \in ActiveStates, Holder(q)
  PROVE  Holder(q)'
<1>1. ASSUME HeldByWorker(q) PROVE HeldByWorker(q)'
  <2>1. CASE r = q
    BY <1>1, <2>1, WorkerHoldsOn
  <2>2. CASE r # q
    <3>1. worker'[q] = worker[q] \/ worker'[q].pc = "started"
      BY <2>2, OtherWorkers
    <3> QED
      BY <1>1, <3>1 DEF HeldByWorker
  <2> QED
    BY <2>1, <2>2
<1>2. ASSUME HeldByCommand(q) PROVE HeldByCommand(q)'
  BY <1>2, WorkerLeavesCommand, CommandHoldsOn
<1>3. ASSUME HeldByParent(q) PROVE HeldByWorker(q)' \/ HeldByParent(q)'
  <2>1. PICK h \in Runs : handoff[h].child = q /\ worker[h].pc \in {"spawn child", "unstarted child"}
    BY <1>3 DEF HeldByParent, StartsChild
  <2> QED
    BY <2>1, ParentHoldsOn
<1>4. Holder(q)' <=> HeldByWorker(q)' \/ HeldByCommand(q)' \/ HeldByParent(q)'
  BY DEF Holder, HeldByWorker, HeldByCommand, HeldByParent
<1> QED
  BY <1>1, <1>2, <1>3, <1>4, Holders

\* A worker that sets a row to work holds it.
LEMMA WorkerTakesRow ==
  ASSUME Shape, [Next]_vars, NEW r \in Runs, NEW q \in Runs, run'[q] # run[q],
         \/ BeginStage(r) /\ StartStage(r, worker[r].stage, worker[r].ver)
         \/ BeginChild(r) /\ StartStage(handoff[r].child, 1, worker[r].ver)
  PROVE  Holder(q)'
<1>0. TypeOK
  BY DEF Shape
<1>1. CASE BeginStage(r) /\ StartStage(r, worker[r].stage, worker[r].ver)
  <2>1. worker[r].stage \in Stages
    BY <1>1 DEF BeginStage, At, Shape, WorkerShape, Fits
  <2>2. q = r /\ run'[r].version = Later(worker[r].ver) /\ run'[r].state # run[r].state
    BY <1>0, <1>1, <2>1, StartIs, BusyStates, StagesInRange DEF Busy
  <2>3. Step(r, "work", worker[r].stage, Later(worker[r].ver))
    BY <1>1, <2>2 DEF BeginStage, vars
  <2>4. worker'[r].pc = "work" /\ worker'[r].ver = Later(worker[r].ver)
    BY <2>3 DEF Step, Shape, JobsTypeOK
  <2> QED
    BY <2>2, <2>4 DEF Holder
<1>2. CASE BeginChild(r) /\ StartStage(handoff[r].child, 1, worker[r].ver)
  <2>1. worker[r].pc \in ChildPcs /\ handoff[r].child \in Runs
    BY <1>2 DEF BeginChild, At, Shape, WorkerShape, Fits, ChildPcs, ChildrenApart
  <2>2. q = handoff[r].child
    BY <1>0, <1>2, <2>1, StartIs, StagesTyped
  <2>3. CanMove(q, "Ingested", worker[r].ver, "Parsing")
    BY <1>2, <2>2 DEF StartStage, Checkpoint, ActiveState
  <2>4. Step(r, "spawn child", 1, 0)
    BY <1>2, <2>2, <2>3 DEF BeginChild
  <2>5. worker'[r].pc = "spawn child"
    BY <2>4 DEF Step, Shape, JobsTypeOK
  <2>6. HeldByParent(q)'
    BY <2>1, <2>2, <2>5, ParentsKeepPromises
  <2> QED
    BY <2>6 DEF Holder, HeldByParent
<1> QED
  BY <1>1, <1>2

LEMMA UiWorkers ==
  ASSUME Shape, ClaimInv, UiStep, NEW h \in Runs
  PROVE  \/ worker'[h] = worker[h]
         \/ SpawnWorker /\ ui.run = h /\ worker[h].pc = "idle"
<1>1. CASE UiRests \/ ClaimRun \/ SpawnFails \/ SignalToken
  BY <1>1 DEF UiRests, UiOnly, ClaimRun, SpawnFails, SignalToken
<1>2. CASE SpawnWorker
  <2>1. CASE ui.run # h
    BY <1>2, <2>1 DEF SpawnWorker, StartWorker, Shape, JobsTypeOK
  <2>2. CASE ui.run = h
    <3>1. ByUi(h)
      BY <1>2, <2>2 DEF SpawnWorker, ByUi
    <3>2. worker[h].pc = "idle"
      BY <3>1 DEF ClaimInv, Owned, OneOwner, ByWorker
    <3> QED
      BY <1>2, <2>2, <3>2
  <2> QED
    BY <2>1, <2>2
<1> QED
  BY <1>1, <1>2, UiRestsOrHands DEF UiHands

\* A command under way goes on with its own next step.
LEMMA CommandGoesOn ==
  ASSUME UiStep, ui.cmd # "none"
  PROVE  \/ AdmitUpload \/ ClaimRun \/ SpawnWorker \/ SpawnFails \/ PersistStartFailure
         \/ CommitCancel \/ SignalToken \/ DirectBegin \/ DirectEnd \/ DirectFail
<1>1. ui # NoCommand
  BY DEF NoCommand
<1> QED
  BY <1>1
  DEF UiStep, UploadDocument, IngestOnly, ContinueRun, CancelRun, RetryRun, CorrectText, DirectStage,
      UiFree

\* A command that has put a run to work hands it over to a worker, works on it, or fails it.
LEMMA CommandKeepsHolder ==
  ASSUME Shape, KnownInv, ~FaultyStore, UiStep, NEW q \in Runs,
         run'[q] = run[q], run[q].state \in ActiveStates, HeldByCommand(q)
  PROVE  HeldByWorker(q)' \/ HeldByCommand(q)'
<1>0. TypeOK /\ run'[q].state \in Busy /\ run[q].state \notin Terminal
  BY RestIsNotActive DEF Shape
<1>1. ui.run = q /\ ui.cmd \in {"claim", "spawn", "unstarted", "working", "failing"}
  BY DEF HeldByCommand
<1>2. ASSUME NEW cmd, NEW i, NEW v, Command(cmd, q, i, v)
      PROVE  ui'.cmd = cmd /\ ui'.run = q /\ ui'.ver = v
  BY <1>2 DEF Command
<1>3. CASE ClaimRun
  <2>1. ui.cmd = "claim" /\ ui.ver = 0
    BY <1>3 DEF ClaimRun, HeldByCommand
  <2>2. Unclaimed(q)
    BY <1>1, <2>1 DEF KnownInv, AdmissionIsOwn, AdmissionPending, Claimed, Unclaimed
  <2>3. Command("spawn", q, ui.stage, ui.ver)
    BY <1>1, <1>3, <2>2 DEF ClaimRun
  <2> QED
    BY <1>2, <2>1, <2>3 DEF HeldByCommand
<1>4. CASE SpawnWorker
  <2>1. ui.ver = 0 /\ StartWorker(q, ui.ver)
    BY <1>1, <1>4 DEF SpawnWorker, HeldByCommand
  <2>2. worker'[q].pc = "started"
    BY <2>1, StartWorkerIs
  <2> QED
    BY <2>2 DEF HeldByWorker
<1>5. CASE SpawnFails
  <2>1. Command("unstarted", q, 1, 0)
    BY <1>1, <1>5 DEF SpawnFails, HeldByCommand
  <2> QED
    BY <1>2, <2>1 DEF HeldByCommand, Command
<1>6. CASE PersistStartFailure
  <2>1. FailBackground(q, run[q].state, run[q].version)
    BY <1>0, <1>1, <1>6 DEF PersistStartFailure, FailUnstarted, Fault
  <2> QED
    BY <1>0, <2>1, FailBackgroundQuiet
<1>7. ui.cmd \in {"working", "failing"} => ui.stage \in Stages /\ ui.ver = run[q].version
  BY DEF HeldByCommand, Shape, UiShape
<1>8. CASE DirectEnd
  <2>1. CASE CompleteStage(q, ui.stage, ui.ver)
    <3>1. run'[q].state \notin Busy
      BY <1>0, <1>7, <1>8, <2>1, StageQuiet DEF DirectEnd
    <3> QED
      BY <1>0, <3>1
  <2>2. CASE ui' = [ui EXCEPT !.cmd = "failing"]
    <3>1. ui'.cmd = "failing" /\ ui'.run = q /\ ui'.ver = ui.ver
      BY <1>1, <2>2 DEF Shape, JobsTypeOK
    <3> QED
      BY <1>7, <1>8, <3>1 DEF HeldByCommand, DirectEnd
  <2> QED
    BY <1>1, <1>8, <2>1, <2>2 DEF DirectEnd
<1>9. CASE DirectFail
  <2>1. \E b \in BOOLEAN : FailStage(q, ui.stage, ui.ver, b)
    BY <1>1, <1>7, <1>9 DEF DirectFail, Fault
  <2> QED
    BY <1>0, <1>7, <1>9, <2>1, StageQuiet DEF DirectFail
<1> QED
  BY <1>1, <1>3, <1>4, <1>5, <1>6, <1>8, <1>9, CommandGoesOn
  DEF AdmitUpload, CommitCancel, SignalToken, DirectBegin

LEMMA UiKeepsHolders ==
  ASSUME Shape, ClaimInv, KnownInv, ~FaultyStore, [Next]_vars, UiStep, NEW q \in Runs,
         run'[q] = run[q], run[q].state \in ActiveStates, Holder(q)
  PROVE  Holder(q)'
<1>1. ASSUME HeldByWorker(q) PROVE HeldByWorker(q)'
  <2>1. worker[q].pc # "idle"
    BY <1>1 DEF HeldByWorker
  <2>2. worker'[q] = worker[q]
    BY <2>1, UiWorkers
  <2> QED
    BY <1>1, <2>2 DEF HeldByWorker
<1>2. ASSUME HeldByCommand(q) PROVE HeldByWorker(q)' \/ HeldByCommand(q)'
  BY <1>2, CommandKeepsHolder
<1>3. ASSUME HeldByParent(q) PROVE HeldByParent(q)'
  <2>1. PICK h \in Runs : handoff[h].child = q /\ worker[h].pc \in {"spawn child", "unstarted child"}
    BY <1>3 DEF HeldByParent, StartsChild
  <2>2. worker'[h] = worker[h]
    BY <2>1, UiWorkers
  <2> QED
    BY <2>1, <2>2, ParentsKeepPromises DEF ChildPcs
<1>4. Holder(q)' <=> HeldByWorker(q)' \/ HeldByCommand(q)' \/ HeldByParent(q)'
  BY DEF Holder, HeldByWorker, HeldByCommand, HeldByParent
<1> QED
  BY <1>1, <1>2, <1>3, <1>4, Holders

\* A command that sets a row to work holds it.
LEMMA UiTakesRow ==
  ASSUME Shape, UiStep, NEW q \in Runs, run'[q] # run[q], run'[q].state \in ActiveStates
  PROVE  Holder(q)'
<1>0. TypeOK /\ run'[q].state \in Busy /\ run'[q].state # "Cancelling"
  BY RestIsNotActive DEF Shape
<1>1. ASSUME NEW cmd, NEW i, NEW v, Command(cmd, q, i, v)
      PROVE  ui'.cmd = cmd /\ ui'.run = q /\ ui'.ver = v
  BY <1>1 DEF Command
<1>2. CASE AdmitUpload /\ StartStage(ui.run, 1, ui.ver)
  <2>1. PICK c \in Runs : ui.run = c
    BY <1>2 DEF AdmitUpload, Shape, UiShape
  <2>2. q = c
    BY <1>0, <1>2, <2>1, StartIs, StagesTyped
  <2>3. Command("claim", q, 1, 0)
    BY <1>2, <2>1, <2>2 DEF AdmitUpload, vars
  <2> QED
    BY <1>1, <2>3 DEF Holder
<1>3. CASE DirectBegin /\ StartStage(ui.run, ui.stage, ui.ver)
  <2>1. PICK c \in Runs : ui.run = c
    BY <1>3 DEF DirectBegin, Shape, UiShape
  <2>2. ui.stage \in Stages
    BY <1>3 DEF DirectBegin, Shape, UiShape
  <2>3. q = c /\ run'[q].version = Later(ui.ver)
    BY <1>0, <1>3, <2>1, <2>2, StartIs
  <2>4. Command("working", q, ui.stage, Later(ui.ver))
    BY <1>3, <2>1, <2>3 DEF DirectBegin, vars
  <2>5. ui'.cmd = "working" /\ ui'.run = q /\ ui'.ver = Later(ui.ver)
    BY <2>4 DEF Command
  <2> QED
    BY <2>3, <2>5 DEF Holder
<1>4. ASSUME NEW r \in Runs, NEW src \in Runs, RetryRun(src, r) PROVE Holder(q)'
  <2>1. q = r
    BY <1>0, <1>4, RetryIs DEF RetryRun
  <2>2. Command("claim", q, 1, 0)
    BY <1>4, <2>1 DEF RetryRun
  <2>3. ui'.cmd = "claim" /\ ui'.run = q /\ ui'.ver = 0
    BY <2>2 DEF Command
  <2> QED
    BY <2>3 DEF Holder
<1>5. CASE CommitCancel /\ RequestCancellation(ui.run, ui.ver)
  <2>1. PICK c \in Runs : ui.run = c
    BY <1>5 DEF CommitCancel, Shape, UiShape
  <2> QED
    BY <1>0, <1>5, <2>1, RequestIs
<1> QED
  BY <1>0, <1>2, <1>3, <1>4, <1>5, UiQuiet DEF Quiet

LEMMA RecoveryWorkers ==
  ASSUME Shape, ClaimInv, RecoveryStep, NEW h \in Runs
  PROVE  worker'[h] = worker[h] \/ worker[h].pc = "idle"
<1>1. CASE RecoveryRests
  BY <1>1 DEF RecoveryRests, RecoveryOnly
<1>2. CASE (\E c \in Runs : ResumeClaims(c)) \/ ResumeRewinds \/ RecoveryEnds
  BY <1>2 DEF ResumeClaims, ResumeRewinds, RecoveryEnds
<1>3. CASE ResumeLaunches
  <2>1. PICK c \in Runs : recovery.run = c
    BY <1>3 DEF ResumeLaunches, Shape, RecoveryShape
  <2>2. CASE h = c
    <3>1. ByRecovery(h)
      BY <1>3, <2>1, <2>2 DEF ResumeLaunches, ByRecovery
    <3> QED
      BY <3>1 DEF ClaimInv, Owned, OneOwner, ByWorker
  <2>3. CASE h # c
    BY <1>3, <2>1, <2>3 DEF ResumeLaunches, StartWorker, Shape, JobsTypeOK
  <2> QED
    BY <2>2, <2>3
<1> QED
  BY <1>1, <1>2, <1>3, RecoveryRestsOrHands DEF RecoveryHands

LEMMA RecoveryKeepsHolders ==
  ASSUME Shape, ClaimInv, [Next]_vars, RecoveryStep, NEW q \in Runs, run'[q] = run[q], Holder(q)
  PROVE  Holder(q)'
<1>1. ASSUME HeldByWorker(q) PROVE HeldByWorker(q)'
  <2>1. worker'[q] = worker[q]
    BY <1>1, RecoveryWorkers DEF HeldByWorker
  <2> QED
    BY <1>1, <2>1 DEF HeldByWorker
<1>2. ASSUME HeldByCommand(q) PROVE HeldByCommand(q)'
  BY <1>2, RecoveryLeavesCommand, CommandHoldsOn
<1>3. ASSUME HeldByParent(q) PROVE HeldByParent(q)'
  <2>1. PICK h \in Runs : handoff[h].child = q /\ worker[h].pc \in {"spawn child", "unstarted child"}
    BY <1>3 DEF HeldByParent, StartsChild
  <2>2. worker'[h] = worker[h]
    BY <2>1, RecoveryWorkers
  <2> QED
    BY <2>1, <2>2, ParentsKeepPromises DEF ChildPcs
<1>4. Holder(q)' <=> HeldByWorker(q)' \/ HeldByCommand(q)' \/ HeldByParent(q)'
  BY DEF Holder, HeldByWorker, HeldByCommand, HeldByParent
<1> QED
  BY <1>1, <1>2, <1>3, <1>4, Holders

\* An admitted child that is at work stays one.
LEMMA AdmittedStays ==
  ASSUME TypeOK, [Next]_vars, NEW q \in Runs, IsAdmittedChild(q), run[q].state \in ActiveStates
  PROVE  IsAdmittedChild(q)'
<1>1. PICK h \in Runs : handoff[h].phase = "child_admitted" /\ handoff[h].child = q
  BY DEF IsAdmittedChild
<1>2. run[q].state \notin Successful
  BY RestIsNotActive DEF Terminal
<1>3. handoff'[h] = handoff[h]
  <2>1. ~\E c \in Runs \ {h} : PrepareHandoff(h, c)
    BY <1>1 DEF PrepareHandoff, HasHandoff
  <2>2. ~\E edge \in HandoffEdges : MoveHandoff(h, edge[1], edge[2])
    BY <1>1 DEF MoveHandoff, HandoffEdges, OpenPhases
  <2>3. ~AdmitChild(h) /\ ~MarkHandoffCompleted(h)
    BY <1>1, <1>2 DEF AdmitChild, MarkHandoffCompleted
  <2> QED
    BY <2>1, <2>2, <2>3, RelationsWritten
<1> QED
  BY <1>1, <1>3 DEF IsAdmittedChild

\* An active row is held, or waits for the recovery that a restart has started.
Attended(q) == run[q].state \in ActiveStates => Holder(q) \/ (IsAdmittedChild(q) /\ crashes > 0)
AllAttended == up => \A q \in Runs : Attended(q)

LEMMA CrashesStay ==
  ASSUME RecoveryStep \/ UiStep \/ \E r \in Runs : WorkerStep(r), Shape
  PROVE  crashes' = crashes
<1>1. CASE RecoveryStep
  BY <1>1
  DEF RecoveryStep, ListHandoffs, PickHandoff, RecoveryCheck, RecoveryExchange, RecoveryGivesUp,
      RecoverySettles, ResumeClaims, ResumeRewinds, ResumeLaunches, RecoveryEnds, RecoveryOnly
<1>2. CASE UiStep
  BY <1>2, UiRestsOrHands DEF UiRests, UiOnly, UiHands, ClaimRun, SpawnWorker, SpawnFails, SignalToken
<1>3. ASSUME NEW r \in Runs, WorkerStep(r) PROVE crashes' = crashes
  BY <1>3, WorkerWorksOn DEF WorksOn, WorkerOnly, Hands, AdoptChild, BeginChild, SpawnChild, Leave
<1> QED
  BY <1>1, <1>2, <1>3

LEMMA StepUp ==
  ASSUME Shape, Forgotten, RecoveryStep \/ UiStep \/ \E r \in Runs : WorkerStep(r)
  PROVE  up
<1>1. CASE RecoveryStep
  <2>1. recovery.pc # "off"
    BY <1>1
    DEF RecoveryStep, ListHandoffs, PickHandoff, RecoveryCheck, RecoveryExchange, RecoveryGivesUp,
        RecoverySettles, ResumeClaims, ResumeRewinds, ResumeLaunches, RecoveryEnds
  <2> QED
    BY <2>1, UpWhenBusy
<1>2. CASE UiStep
  BY <1>2, UiStepIsUp
<1>3. ASSUME NEW r \in Runs, WorkerStep(r) PROVE up
  <2>1. worker[r].pc # "idle"
    BY <1>3, WorkerWorksOn
    DEF WorksOn, Hands, AdoptChild, BeginChild, SpawnChild, Leave, At
  <2> QED
    BY <2>1, UpWhenBusy
<1> QED
  BY <1>1, <1>2, <1>3

LEMMA RestartAttends ==
  ASSUME Shape, FirstSession, Restart, NEW q \in Runs, run'[q].state \in ActiveStates
  PROVE  IsAdmittedChild(q)' /\ crashes' > 0
<1>0. TypeOK /\ run'[q].state \in Busy
  BY RestIsNotActive DEF Shape
<1>1. crashes' = crashes /\ crashes \in Nat /\ crashes # 0
  BY MaxCrashesAssumption DEF Restart, FirstSession, Shape, JobsTypeOK
<1>2. run'[q] = run[q] /\ ~Interrupted(q) /\ handoff' = handoff
  <2>1. CASE Reconcile
    <3>1. run'[q] = run[q] /\ handoff' = handoff
      BY <1>0, <2>1, ReconcileQuiet DEF Quiet, Reconcile
    <3>2. ASSUME Interrupted(q) PROVE FALSE
      <4>1. run'[q] = Reconciled(run[q]) /\ run[q] \in Rows
        BY <1>0, <2>1, <3>2 DEF Reconcile, TypeOK
      <4>2. Reconciled(run[q]).state \in {"Failed", "Cancelled"}
        BY <4>1 DEF Reconciled, Moved, Rows
      <4> QED
        BY <1>0, <4>1, <4>2, BusyStates
    <3> QED
      BY <3>1, <3>2
  <2>2. CASE (\A r \in Runs : ~Interrupted(r)) /\ UNCHANGED vars
    BY <2>2 DEF vars
  <2> QED
    BY <2>1, <2>2 DEF Restart
<1>3. IsAdmittedChild(q)
  BY <1>2 DEF Interrupted
<1> QED
  BY <1>1, <1>2, <1>3 DEF IsAdmittedChild

LEMMA AttendedStep ==
  ASSUME ~FaultyStore, Shape, StoreInv, ClaimInv, FirstSession, KnownInv, AllAttended,
         [JobsNext]_allVars
  PROVE  AllAttended'
<1> SUFFICES ASSUME up', NEW q \in Runs, run'[q].state \in ActiveStates
             PROVE  Holder(q)' \/ (IsAdmittedChild(q)' /\ crashes' > 0)
  BY DEF AllAttended, Attended
<1>0. TypeOK /\ [Next]_vars /\ run'[q].state \in Busy
  BY JobStepIsStoreStep, RestIsNotActive DEF Shape
<1>1. CASE UNCHANGED allVars
  BY <1>1
  DEF allVars, jobVars, vars, AllAttended, Attended, Holder, StartsChild, IsAdmittedChild
<1>2. CASE Crash
  BY <1>2 DEF Crash
<1>3. CASE Restart
  BY <1>3, RestartAttends
<1>4. CASE RecoveryStep \/ UiStep \/ \E r \in Runs : WorkerStep(r)
  <2>1. up /\ crashes' = crashes
    BY <1>4, StepUp, CrashesStay DEF ClaimInv
  <2>2. CASE run'[q] # run[q]
    <3>1. ~Quiet(q)
      BY <1>0, <2>2 DEF Quiet
    <3>2. CASE RecoveryStep
      BY <3>1, <3>2, RecoveryQuiet
    <3>3. CASE UiStep
      BY <2>2, <3>3, UiTakesRow
    <3>4. ASSUME NEW r \in Runs, WorkerStep(r) PROVE Holder(q)'
      BY <1>0, <2>2, <3>1, <3>4, WorkerQuiet, WorkerTakesRow
    <3> QED
      BY <1>4, <3>2, <3>3, <3>4
  <2>3. CASE run'[q] = run[q]
    <3>1. run[q].state \in ActiveStates /\ Attended(q)
      BY <2>1, <2>3 DEF AllAttended
    <3>2. CASE Holder(q)
      BY <1>0, <1>4, <2>3, <3>1, <3>2, RecoveryKeepsHolders, UiKeepsHolders, WorkerKeepsHolders
    <3>3. CASE IsAdmittedChild(q) /\ crashes > 0
      BY <1>0, <2>1, <3>1, <3>3, AdmittedStays
    <3> QED
      BY <3>1, <3>2, <3>3 DEF Attended
  <2> QED
    BY <2>2, <2>3
<1> QED
  BY <1>1, <1>2, <1>3, <1>4 DEF JobsNext

LEMMA FirstSessionHolds == JobsSpec => []FirstSession
<1>1. JobsInit => FirstSession
  BY DEF JobsInit, FirstSession
<1> QED
  BY <1>1, FirstSessionStep, ShapeHolds, PTL DEF JobsSpec

\* No run is left working with nobody at work on it: whatever commands, workers, adopted children,
\* failed starts, crashes and restarts do to each other, an active row is in the hands of a thread
\* that will complete or fail it, or is an OCR child that the recovery thread will resume (spawn,
\* start_admitted_ocr_child, finalize, reconcile_interrupted_runs), as long as the store does
\* not refuse the very write that records a failure.
THEOREM ActiveRowsHaveOwners ==
  ASSUME FaultyStore = FALSE
  PROVE  JobsSpec => []ActiveRowHasOwner
<1>1. JobsInit => AllAttended
  <2>1. ASSUME JobsInit, NEW q \in Runs PROVE run[q].state \notin ActiveStates
    <3>1. run[q].state = "Absent"
      BY <2>1 DEF JobsInit, Init, NoRow
    <3> QED
      BY <3>1, TableValues
  <2> QED
    BY <2>1 DEF AllAttended, Attended
<1>2. Shape /\ StoreInv /\ ClaimInv /\ FirstSession /\ KnownInv /\ AllAttended /\ [JobsNext]_allVars
        => AllAttended'
  BY AttendedStep
<1>3. AllAttended => ActiveRowHasOwner
  BY DEF AllAttended, Attended, ActiveRowHasOwner
<1> QED
  BY <1>1, <1>2, <1>3, ShapeHolds, StoreInvHolds, ClaimsHold, FirstSessionHolds, KnownHolds, PTL
  DEF JobsSpec
=============================================================================
