---------------------------- MODULE DesktopJobs ----------------------------
(***************************************************************************)
(* The desktop process above the document store: the UI thread, which runs *)
(* one command at a time; one background worker per claimed run; the OCR   *)
(* recovery thread that a restart starts; the registry of claims and their *)
(* cancellation tokens; and the process dying at any moment.               *)
(*                                                                         *)
(* Each step is one store transaction, one registry lock or one token      *)
(* check. The registry and everything the threads remember are lost in a   *)
(* crash; only the variables of PipelineStore survive.                     *)
(***************************************************************************)
EXTENDS PipelineStore

CONSTANTS Uploads,      \* kinds of document the user brings, of {"native", "scanned"}
          MaxCrashes,   \* how often the process may die
          FaultyStore   \* may SQLite refuse even the write that records a failure?

ASSUME UploadsAssumption == Uploads \subseteq {"native", "scanned"}
ASSUME MaxCrashesAssumption == MaxCrashes \in Nat
ASSUME FaultyStoreAssumption == FaultyStore \in BOOLEAN

VARIABLES up,       \* is the process running?
          crashes,  \* how often it has died
          active,   \* DesktopJobManager.active: each claim with its token's state
          worker,   \* the background thread of each run
          ui,       \* the command the UI thread is executing
          recovery  \* the OCR recovery thread

jobVars == <<up, crashes, active, worker, ui, recovery>>
allVars == <<vars, jobVars>>

\* Stage 8 is complete_verified_document, which follows the seven stages.
Finish == 8

Idle == [pc |-> "idle", stage |-> 0, ver |-> 0, out |-> "none"]
NoCommand == [cmd |-> "none", run |-> NoRun, stage |-> 0, ver |-> 0, live |-> TRUE]
NoRecovery == [pc |-> "off", todo |-> {}, resume |-> {}, reserved |-> {}, run |-> NoRun]

\* The version a row is left with by a transition.
Later(v) == v + 1

\* A failure, with the process still up, that leaves what it was about to write unwritten.
Fault == FaultyStore

-----------------------------------------------------------------------------
(* The registry.                                                             *)

Unclaimed(r) == active[r] = "none"

\* claim_run inserts a fresh token.
Claim(r) == active' = [active EXCEPT ![r] = "live"]

\* active.remove for every run of S. A cancel command may still hold a removed token, which
\* then signals nobody.
Release(S) ==
  /\ active' = [r \in Runs |-> IF r \in S THEN "none" ELSE active[r]]
  /\ ui' = IF ui.run \in S THEN [ui EXCEPT !.live = FALSE] ELSE ui

-----------------------------------------------------------------------------
(* UI commands. Every command starts from an idle UI thread.                 *)

Command(cmd, r, stage, v) ==
  ui' = [cmd |-> cmd, run |-> r, stage |-> stage, ver |-> v, live |-> TRUE]
Return == ui' = NoCommand

UiOnly == UNCHANGED <<up, crashes, active, worker, recovery>>

UiFree == up /\ ui = NoCommand

\* start_pdf: the ingestion transaction of admit_pdf_for_background ...
UploadDocument(r) ==
  /\ UiFree
  /\ \E s \in Uploads, p \in Profiles : Ingest(r, s, p)
  /\ Command("admit", r, 1, Len(Ingestion))
  /\ UiOnly

\* ... and its start_parsing transaction, which may fail and leave the run INGESTED.
AdmitUpload ==
  /\ ui.cmd = "admit"
  /\ \/ StartStage(ui.run, 1, ui.ver) /\ Command("claim", ui.run, 1, 0)
     \/ UNCHANGED vars /\ Return
  /\ UiOnly

\* start_retry: the retry run is born PARSING. Version 0 stands for StartedParsing work.
RetryRun(src, r) ==
  /\ UiFree
  /\ CreateRetry(src, run[src].version, r)
  /\ Command("claim", r, 1, 0)
  /\ UiOnly

\* continuation_plan
Continuable(r) == run[r].state \in Checkpoints /\ ~HasHandoff(r)

\* start_continuation: nothing is written before the worker starts.
ContinueRun(r) ==
  /\ UiFree
  /\ Continuable(r)
  /\ run[r].state \in {"Analyzed", "Synthesized"} => profile[r] # NoProfile
  /\ Command("claim", r, 0, run[r].version)
  /\ UNCHANGED vars /\ UiOnly

\* spawn, until the claim: a run claimed already is refused.
ClaimRun ==
  /\ ui.cmd = "claim"
  /\ IF Unclaimed(ui.run)
       THEN Claim(ui.run) /\ Command("spawn", ui.run, ui.stage, ui.ver)
       ELSE UNCHANGED active /\ Return
  /\ UNCHANGED <<vars, up, crashes, worker, recovery>>

StartWorker(r, v) ==
  worker' = [worker EXCEPT ![r] = [Idle EXCEPT !.pc = IF v = 0 THEN "started" ELSE "continue",
                                               !.ver = v]]

\* spawn_claimed
SpawnWorker ==
  /\ ui.cmd = "spawn"
  /\ StartWorker(ui.run, ui.ver)
  /\ Return
  /\ UNCHANGED <<vars, up, crashes, active, recovery>>

\* Mutant: the failure to start is reported to the user alone.
SpawnFails_Unpersisted ==
  /\ ui.cmd = "spawn"
  /\ active' = [active EXCEPT ![ui.run] = "none"]
  /\ Return
  /\ UNCHANGED <<vars, up, crashes, worker, recovery>>

\* The thread cannot start: the claim is dropped, and a run already PARSING is failed.
SpawnFails ==
  /\ ui.cmd = "spawn"
  /\ active' = [active EXCEPT ![ui.run] = "none"]
  /\ IF ui.ver = 0 THEN Command("unstarted", ui.run, 1, 0) ELSE Return
  /\ UNCHANGED <<vars, up, crashes, worker, recovery>>

\* persist_worker_start_failure. The claim is gone by now: whoever took the run since may have
\* brought it to its end.
FailUnstarted(r) ==
  \/ FailBackground(r, run[r].state, run[r].version)
  \/ (Fault \/ run[r].state \in Terminal) /\ UNCHANGED vars

PersistStartFailure ==
  /\ ui.cmd = "unstarted"
  /\ FailUnstarted(ui.run)
  /\ Return /\ UiOnly

\* request_cancellation takes the token of the run's claim under the registry lock ...
CancelRun(r) ==
  /\ UiFree
  /\ ~Unclaimed(r)
  /\ CanRequestCancellation(run[r].state)
  /\ Command("cancel", r, 0, run[r].version)
  /\ UNCHANGED vars /\ UiOnly

\* Mutant: the token is signalled even when the request was refused.
CommitCancel_SignalAnyway ==
  /\ ui.cmd = "cancel"
  /\ RequestCancellation(ui.run, ui.ver) \/ UNCHANGED vars
  /\ ui' = [ui EXCEPT !.cmd = "signal"]
  /\ UiOnly

\* ... commits CANCELLING if the version the user saw is still the run's, or is refused ...
CommitCancel ==
  /\ ui.cmd = "cancel"
  /\ \/ RequestCancellation(ui.run, ui.ver) /\ ui' = [ui EXCEPT !.cmd = "signal"]
     \/ UNCHANGED vars /\ Return
  /\ UiOnly

\* ... and only then signals the token it took.
SignalToken ==
  /\ ui.cmd = "signal"
  /\ active' = IF ui.live THEN [active EXCEPT ![ui.run] = "requested"] ELSE active
  /\ Return
  /\ UNCHANGED <<vars, up, crashes, worker, recovery>>

\* ingest_document, parse_document ... chunk_document: the same stages run on the UI thread,
\* with no claim, no token and no finalizer.
IngestOnly(r) ==
  /\ UiFree
  /\ \E s \in Uploads : Ingest(r, s, NoProfile)
  /\ UNCHANGED jobVars

DirectStage(r, i) ==
  /\ UiFree
  /\ i <= 4 /\ run[r].state = Checkpoint(i-1)
  /\ Command("direct", r, i, run[r].version)
  /\ UNCHANGED vars /\ UiOnly

DirectBegin ==
  /\ ui.cmd = "direct"
  /\ \/ StartStage(ui.run, ui.stage, ui.ver) /\ Command("working", ui.run, ui.stage, Later(ui.ver))
     \/ UNCHANGED vars /\ Return
  /\ UiOnly

DirectEnd ==
  /\ ui.cmd = "working"
  /\ \/ CompleteStage(ui.run, ui.stage, ui.ver) /\ Return
     \/ UNCHANGED vars /\ ui' = [ui EXCEPT !.cmd = "failing"]
  /\ UiOnly

DirectFail ==
  /\ ui.cmd = "failing"
  /\ \/ \E b \in BOOLEAN : FailStage(ui.run, ui.stage, ui.ver, b)
     \/ (Fault \/ run[ui.run].version # ui.ver) /\ UNCHANGED vars
  /\ Return /\ UiOnly

\* save_ocr_correction, which starts no work: the user continues the PARSED run.
CorrectText(src, r) ==
  /\ UiFree
  /\ SaveCorrection(src, run[src].version, r)
  /\ UNCHANGED jobVars

UiStep ==
  \/ \E r \in Runs : \/ UploadDocument(r) \/ IngestOnly(r) \/ ContinueRun(r) \/ CancelRun(r)
                     \/ \E src \in Runs : RetryRun(src, r) \/ CorrectText(src, r)
                     \/ \E i \in Stages : DirectStage(r, i)
  \/ AdmitUpload \/ ClaimRun \/ SpawnWorker \/ SpawnFails \/ PersistStartFailure
  \/ CommitCancel \/ SignalToken \/ DirectBegin \/ DirectEnd \/ DirectFail

-----------------------------------------------------------------------------
(* The background worker of run r: execute.                                  *)

At(r, pc) == worker[r].pc = pc
Step(r, pc, i, v) ==
  worker' = [worker EXCEPT ![r] = [pc |-> pc, stage |-> i, ver |-> v, out |-> "none"]]

\* execute returns: what finalize tells apart of the outcome is whether the worker lost the
\* run to a concurrent writer ("lost"), or stopped in the OCR handoff ("ocr").
End(r, out) == worker' = [worker EXCEPT ![r] = [Idle EXCEPT !.pc = "final", !.out = out]]

WorkerOnly == UNCHANGED <<up, crashes, active, ui, recovery>>

Requested(r) == active[r] = "requested"

\* StartedParsing: the row is read and the token checked before the parser runs.
OpenRow(r) ==
  /\ At(r, "started")
  /\ IF Requested(r) THEN End(r, "other") ELSE Step(r, "parse", 1, run[r].version)
  /\ UNCHANGED vars /\ WorkerOnly

\* continue_run_to_summary_controlled: the plan is made again from the row as it is now.
Plan(r) ==
  /\ At(r, "continue")
  /\ CASE Requested(r) -> End(r, "other")
       [] ~Requested(r) /\ run[r].version # worker[r].ver -> End(r, "lost")
       [] ~Requested(r) /\ run[r].version = worker[r].ver ->
            IF Continuable(r)
              THEN Step(r, "boundary",
                        IF run[r].state = "Verified" THEN Finish ELSE StageOf(run[r].state), 0)
              ELSE End(r, "other")
  /\ UNCHANGED vars /\ WorkerOnly

\* cancellation_checkpoint, between stages.
Boundary(r) ==
  /\ At(r, "boundary")
  /\ IF Requested(r) THEN End(r, "other") ELSE Step(r, "ready", worker[r].stage, 0)
  /\ UNCHANGED vars /\ WorkerOnly

\* ensure_runtime_profile, before each model stage.
Unpinned(r) == worker[r].stage \in 5..7 /\ profile[r] = NoProfile

Pin(r) ==
  /\ At(r, "ready") /\ Unpinned(r)
  /\ \E p \in Profiles : PinProfile(r, p)
  /\ UNCHANGED worker /\ WorkerOnly

\* Each stage reads the row afresh and starts from the version it finds.
ReadRow(r) ==
  LET i == worker[r].stage IN
  /\ At(r, "ready") /\ ~Unpinned(r)
  /\ Step(r, IF i = Finish THEN "work" ELSE "begin", i, run[r].version)
  /\ UNCHANGED vars /\ WorkerOnly

BeginStage(r) ==
  LET i == worker[r].stage  v == worker[r].ver IN
  /\ At(r, "begin")
  /\ \/ StartStage(r, i, v) /\ Step(r, "work", i, Later(v))
     \/ ~CanMove(r, Checkpoint(i-1), v, ActiveState(i)) /\ UNCHANGED vars /\ End(r, "lost")
  /\ WorkerOnly

\* Mutant: the summary is one more stage, followed by another boundary.
EndStage_PastFinish(r) ==
  LET i == worker[r].stage  v == worker[r].ver IN
  /\ worker[r].pc \in {"parse", "work"}
  /\ \/ i \in Stages /\ CompleteStage(r, i, v)
     \/ i = Finish /\ \E s \in Successful : CompleteSummary(r, v, s)
  /\ Step(r, "boundary", i + 1, 0)
  /\ WorkerOnly

\* The stage's result commits. Parsing a scanned document on admission leads to OCR.
EndStage(r) ==
  LET i == worker[r].stage  v == worker[r].ver IN
  /\ worker[r].pc \in {"parse", "work"}
  /\ \/ /\ i \in Stages /\ CompleteStage(r, i, v)
        /\ IF At(r, "parse") /\ run[r].source = "scanned"
             THEN Step(r, "ocr", 1, 0)
             ELSE Step(r, "boundary", i + 1, 0)
     \/ /\ i = Finish /\ \E s \in Successful : CompleteSummary(r, v, s)
        /\ End(r, "other")
  /\ WorkerOnly

\* The stage itself fails, or its result is refused: either way the failure is written next.
StageFails(r) ==
  /\ worker[r].pc \in {"parse", "work"}
  /\ Step(r, "failing", worker[r].stage, worker[r].ver)
  /\ UNCHANGED vars /\ WorkerOnly

\* The model stages check the token as they go.
StopMidStage(r) ==
  /\ At(r, "work") /\ worker[r].stage \in 5..7 /\ Requested(r)
  /\ End(r, "other")
  /\ UNCHANGED vars /\ WorkerOnly

\* verify_synthesized_document_controlled, when no claim survives.
NoClaimSurvives(r) ==
  LET v == worker[r].ver IN
  /\ At(r, "work") /\ worker[r].stage = 7
  /\ \/ RecordVerificationAttempt(r, v) /\ Step(r, "failing", 7, v)
     \/ run[r].version # v /\ UNCHANGED vars /\ End(r, "lost")
  /\ WorkerOnly

\* persist_*_failure
WriteFailure(r) ==
  LET i == worker[r].stage  v == worker[r].ver IN
  /\ At(r, "failing")
  /\ \/ /\ \E b \in BOOLEAN : \/ i \in Stages /\ FailStage(r, i, v, b)
                              \/ i = Finish /\ FailSummary(r, v, b)
        /\ End(r, "other")
     \/ run[r].version # v /\ UNCHANGED vars /\ End(r, "lost")
  /\ WorkerOnly

\* Any other error of the store or the runtime, and a panic that catch_unwind catches.
WorkerError(r) ==
  /\ worker[r].pc \in {"started", "continue", "ready", "begin", "parse", "work", "failing", "ocr"}
  /\ End(r, "other")
  /\ UNCHANGED vars /\ WorkerOnly

-----------------------------------------------------------------------------
(* The OCR coordinator, run by the root's worker or by the recovery thread:  *)
(* each turn of its loop is one check for cancellation and one write.        *)

\* root_cancellation_requested
CancelSeen(root) == Requested(root) \/ run[root].cancel

\* cancellation_checkpoint of the coordinator, where it stops: the handoff is failed.
StopHandoff(root) ==
  /\ CancelSeen(root)
  /\ IF handoff[root].phase \in OpenPhases
       THEN MoveHandoff(root, handoff[root].phase, "failed")
       ELSE UNCHANGED vars

\* What the provider answers moves the phase forward, or back after "no such job".
HandoffMoves(root) ==
  \E to \in OpenPhases : MoveHandoff(root, handoff[root].phase, to)

\* The provider refuses the job, or its answer is invalid.
HandoffRefused(root) == MoveHandoff(root, handoff[root].phase, "failed")

OcrCheck(r) ==
  /\ At(r, "ocr")
  /\ \/ StopHandoff(r) /\ End(r, "other")
     \/ ~CancelSeen(r) /\ UNCHANGED vars /\ Step(r, "exchange", 1, 0)
  /\ WorkerOnly

OcrExchange(r) ==
  /\ At(r, "exchange")
  /\ \/ (\E c \in Runs \ {r} : PrepareHandoff(r, c)) /\ Step(r, "ocr", 1, 0)
     \/ HandoffMoves(r) /\ Step(r, "ocr", 1, 0)
     \/ HandoffRefused(r) /\ End(r, "ocr")
     \/ AdmitChild(r) /\ Step(r, "adopt", 1, 0)
  /\ WorkerOnly

\* Mutant: an exchange has no deadline and no error that ends it.
OcrGivesUp_Never(r) == At(r, "exchange") /\ FALSE /\ UNCHANGED allVars

\* No provider, a transport error, a store error or the deadline: the phase stays.
OcrGivesUp(r) ==
  /\ At(r, "exchange")
  /\ End(r, "ocr")
  /\ UNCHANGED vars /\ WorkerOnly

\* start_admitted_ocr_child claims the child and reads its row ...
AdoptChild(r) ==
  LET c == handoff[r].child IN
  /\ At(r, "adopt")
  /\ IF Unclaimed(c) THEN Claim(c) /\ Step(r, "begin child", 1, run[c].version)
                     ELSE UNCHANGED active /\ End(r, "ocr")
  /\ UNCHANGED <<vars, up, crashes, ui, recovery>>

\* Mutant: a child that cannot be started keeps its claim.
BeginChild_KeepClaim(r) ==
  LET c == handoff[r].child  v == worker[r].ver IN
  /\ At(r, "begin child")
  /\ \/ StartStage(c, 1, v) /\ Step(r, "spawn child", 1, 0)
     \/ ~CanMove(c, "Ingested", v, "Parsing") /\ UNCHANGED vars /\ End(r, "other")
  /\ WorkerOnly

\* ... moves it to PARSING, or completes the cancellation that got there first ...
BeginChild(r) ==
  LET c == handoff[r].child  v == worker[r].ver IN
  /\ At(r, "begin child")
  /\ \/ StartStage(c, 1, v) /\ Step(r, "spawn child", 1, 0) /\ UNCHANGED <<active, ui>>
     \/ /\ ~CanMove(c, "Ingested", v, "Parsing")
        /\ IF run[c].state = "Cancelling" THEN CompleteCancellation(c, run[c].version)
                                          ELSE UNCHANGED vars
        /\ Release({c}) /\ End(r, "other")
  /\ UNCHANGED <<up, crashes, recovery>>

\* ... and starts its worker under the same claim.
SpawnChild(r) ==
  LET c == handoff[r].child IN
  /\ At(r, "spawn child")
  /\ \/ /\ worker' = [worker EXCEPT ![c] = [Idle EXCEPT !.pc = "started"],
                                    ![r] = [Idle EXCEPT !.pc = "final", !.out = "ocr"]]
        /\ UNCHANGED <<active, ui>>
     \/ Release({c}) /\ Step(r, "unstarted child", 1, 0)
  /\ UNCHANGED <<vars, up, crashes, recovery>>

ChildUnstarted(r) ==
  LET c == handoff[r].child IN
  /\ At(r, "unstarted child")
  /\ FailUnstarted(c)
  /\ End(r, "ocr") /\ WorkerOnly

-----------------------------------------------------------------------------
(* finalize, and the end of the thread.                                      *)

\* handoff[h] is the admitted handoff run r is the child of.
ChildOf(r, h) == handoff[h].phase = "child_admitted" /\ handoff[h].child = r

\* A finished run is left alone; if it is an OCR child its handoff is completed.
MarkCompleted(r) ==
  IF run[r].state \in Successful /\ IsAdmittedChild(r)
    THEN \E h \in Runs : ChildOf(r, h) /\ MarkHandoffCompleted(h)
    ELSE UNCHANGED vars

\* Mutant: a worker that lost its run leaves before it looks for a cancellation.
Finalize_LossFirst(r) ==
  /\ At(r, "final")
  /\ IF worker[r].out = "lost"
       THEN Step(r, "leave", 0, 0) /\ UNCHANGED vars
       ELSE CASE run[r].state = "Cancelling" ->
                   Step(r, "stop", 0, run[r].version) /\ UNCHANGED vars
              [] run[r].state \in Terminal -> Step(r, "leave", 0, 0) /\ MarkCompleted(r)
              [] OTHER -> Step(r, "fail", 0, run[r].version) /\ UNCHANGED vars
  /\ WorkerOnly

\* finalize reads the row and decides; a write it decides on is a step of its own, in which
\* the row may have changed.
Finalize(r) ==
  LET s == run[r].state
      out == worker[r].out
      leaves == \/ out = "lost"
                \/ out = "ocr" /\ HasHandoff(r) /\ handoff[r].phase # "failed"
  IN
  /\ At(r, "final")
  /\ CASE s = "Cancelling"   -> Step(r, "stop", 0, run[r].version) /\ UNCHANGED vars
       [] s \in Terminal     -> Step(r, "leave", 0, 0) /\ MarkCompleted(r)
       [] OTHER              -> /\ Step(r, IF leaves THEN "leave" ELSE "fail", 0, run[r].version)
                                /\ UNCHANGED vars
  /\ WorkerOnly

\* The state the row had at the version the finalizer read.
StateAt(r, v) == log[r][v].to

FinalWrite(r) ==
  LET v == worker[r].ver IN
  /\ \/ At(r, "stop") /\ CompleteCancellation(r, v)
     \/ At(r, "fail") /\ FailBackground(r, StateAt(r, v), v)
     \/ /\ worker[r].pc \in {"stop", "fail"}
        /\ Fault \/ (run[r].version # v /\ run[r].state # "Cancelling")
        /\ UNCHANGED vars
  /\ Step(r, "leave", 0, 0)
  /\ WorkerOnly

\* The last thing the thread does is remove its run from the registry.
Leave(r) ==
  /\ At(r, "leave")
  /\ Release({r})
  /\ worker' = [worker EXCEPT ![r] = Idle]
  /\ UNCHANGED <<vars, up, crashes, recovery>>

WorkerStep(r) ==
  \/ OpenRow(r) \/ Plan(r) \/ Boundary(r) \/ Pin(r) \/ ReadRow(r) \/ BeginStage(r)
  \/ EndStage(r) \/ StageFails(r) \/ StopMidStage(r) \/ NoClaimSurvives(r)
  \/ WriteFailure(r) \/ WorkerError(r)
  \/ OcrCheck(r) \/ OcrExchange(r) \/ OcrGivesUp(r)
  \/ AdoptChild(r) \/ BeginChild(r) \/ SpawnChild(r) \/ ChildUnstarted(r)
  \/ Finalize(r) \/ FinalWrite(r) \/ Leave(r)

-----------------------------------------------------------------------------
(* The OCR recovery thread.                                                  *)

Recovering(pc, root) == recovery' = [recovery EXCEPT !.pc = pc, !.run = root]

\* The handoff of root is done with; its child, if it got one, is resumed in the end.
HandoffDone(root, children) ==
  recovery' = [recovery EXCEPT !.pc = "pick", !.run = NoRun, !.todo = @ \ {root},
                               !.resume = @ \cup children]

RecoveryOnly == UNCHANGED <<up, crashes, active, worker, ui>>

\* recover_ocr_handoffs lists the handoffs again: a root that is not reserved is left to a
\* later restart, an admitted child needs no reservation.
ListHandoffs ==
  /\ recovery.pc = "list"
  /\ recovery' = [recovery EXCEPT !.pc = "pick", !.todo =
       {h \in Runs : \/ handoff[h].phase \in OpenPhases /\ h \in recovery.reserved
                     \/ handoff[h].phase = "child_admitted"}]
  /\ UNCHANGED vars /\ RecoveryOnly

PickHandoff(h) ==
  /\ recovery.pc = "pick" /\ h \in recovery.todo
  /\ IF handoff[h].phase \in AdmittedPhases
       THEN \E children \in {{}, {handoff[h].child}} : HandoffDone(h, children)
       ELSE Recovering("check", h)
  /\ UNCHANGED vars /\ RecoveryOnly

RecoveryCheck ==
  LET h == recovery.run IN
  /\ recovery.pc = "check"
  /\ \/ StopHandoff(h) /\ Recovering("settle", h)
     \/ ~CancelSeen(h) /\ UNCHANGED vars /\ Recovering("exchange", h)
  /\ RecoveryOnly

RecoveryExchange ==
  LET h == recovery.run IN
  /\ recovery.pc = "exchange"
  /\ \/ HandoffMoves(h) /\ Recovering("check", h)
     \/ HandoffRefused(h) /\ HandoffDone(h, {})
     \/ AdmitChild(h) /\ HandoffDone(h, {handoff[h].child})
  /\ RecoveryOnly

RecoveryGivesUp ==
  /\ recovery.pc = "exchange"
  /\ HandoffDone(recovery.run, {})
  /\ UNCHANGED vars /\ RecoveryOnly

\* A cancelled root is settled here, since it has no worker of its own.
RecoverySettles ==
  LET h == recovery.run IN
  /\ recovery.pc = "settle"
  /\ IF run[h].state = "Cancelling" THEN CompleteCancellation(h, run[h].version)
                                    ELSE UNCHANGED vars
  /\ HandoffDone(h, {})
  /\ RecoveryOnly

\* resume_ocr_child claims the child, unless somebody has ...
ResumeClaims(c) ==
  /\ recovery.pc = "pick" /\ recovery.todo = {} /\ c \in recovery.resume
  /\ IF Unclaimed(c)
       THEN Claim(c) /\ Recovering("rewind", c)
       ELSE /\ UNCHANGED active
            /\ recovery' = [recovery EXCEPT !.resume = @ \ {c}]
  /\ UNCHANGED <<vars, up, crashes, worker, ui>>

ResumeEnds(c) ==
  recovery' = [recovery EXCEPT !.pc = "pick", !.run = NoRun, !.resume = @ \ {c}]

\* ... rewinds it, finds nothing to rewind or nothing left to do ...
ResumeRewinds ==
  LET c == recovery.run IN
  /\ recovery.pc = "rewind"
  /\ \/ /\ (\E i \in Stages : RewindChild(c, i))
           \/ (IsAdmittedChild(c) /\ run[c].state \in Checkpoints /\ UNCHANGED vars)
        /\ Recovering("launch", c) /\ UNCHANGED <<active, ui>>
     \/ /\ run[c].state \in Terminal \cup {"Cancelling"} \/ ~IsAdmittedChild(c)
        /\ MarkCompleted(c) /\ Release({c}) /\ ResumeEnds(c)
  /\ UNCHANGED <<up, crashes, worker>>

\* ... and starts its worker under the same claim, or gives the claim up when the plan, the
\* runtime or the thread fails it.
ResumeLaunches ==
  LET c == recovery.run IN
  /\ recovery.pc = "launch"
  /\ \/ Continuable(c) /\ StartWorker(c, run[c].version) /\ UNCHANGED <<active, ui>>
     \/ Release({c}) /\ UNCHANGED worker
  /\ ResumeEnds(c)
  /\ UNCHANGED <<vars, up, crashes>>

\* The reservations of the roots are dropped when the thread ends, which an error may bring
\* about early.
RecoveryEnds ==
  /\ \/ recovery.pc = "pick" /\ recovery.todo = {} /\ recovery.resume = {}
     \/ recovery.pc \in {"list", "check", "exchange", "settle"}
  /\ Release(recovery.reserved)
  /\ recovery' = NoRecovery
  /\ UNCHANGED <<vars, up, crashes, worker>>

RecoveryStep ==
  \/ ListHandoffs \/ (\E h \in Runs : PickHandoff(h)) \/ RecoveryCheck \/ RecoveryExchange
  \/ RecoveryGivesUp \/ RecoverySettles \/ (\E c \in Runs : ResumeClaims(c))
  \/ ResumeRewinds \/ ResumeLaunches \/ RecoveryEnds

-----------------------------------------------------------------------------
(* The process.                                                              *)

\* Everything in memory is lost; a transaction under way never happened.
Crash ==
  /\ up /\ crashes < MaxCrashes
  /\ up' = FALSE /\ crashes' = Later(crashes)
  /\ active' = [r \in Runs |-> "none"]
  /\ worker' = [r \in Runs |-> Idle]
  /\ ui' = NoCommand /\ recovery' = NoRecovery
  /\ UNCHANGED vars

\* Before any command, startup reconciles the interrupted runs and reserves the roots of the
\* handoffs that have no child yet for the recovery thread.
Restart ==
  LET roots == {h \in Runs : handoff[h].phase \in OpenPhases} IN
  /\ ~up /\ up' = TRUE
  /\ Reconcile \/ ((\A r \in Runs : ~Interrupted(r)) /\ UNCHANGED vars)
  /\ active' = [r \in Runs |-> IF r \in roots THEN "live" ELSE "none"]
  /\ recovery' = [NoRecovery EXCEPT !.pc = "list", !.reserved = roots]
  /\ UNCHANGED <<crashes, worker, ui>>

JobsInit ==
  /\ Init
  /\ up = TRUE /\ crashes = 0
  /\ active = [r \in Runs |-> "none"]
  /\ worker = [r \in Runs |-> Idle]
  /\ ui = NoCommand /\ recovery = NoRecovery

JobsNext ==
  \/ UiStep
  \/ RecoveryStep
  \/ \E r \in Runs : WorkerStep(r)
  \/ Crash
  \/ Restart

JobsSpec == JobsInit /\ [][JobsNext]_allVars

\* Fairness: the OS schedules every thread that has something to do, a command the UI thread
\* has begun goes on, and the application is started again after it died. The user owes
\* nothing. An OCR exchange does not go on for ever: run_handoff_until checks its deadline
\* in every turn.
UiContinues == ui # NoCommand /\ UiStep

Fairness ==
  /\ WF_allVars(UiContinues)
  /\ WF_allVars(RecoveryStep)
  /\ SF_allVars(RecoveryGivesUp)
  /\ WF_allVars(Restart)
  /\ \A r \in Runs : /\ WF_allVars(WorkerStep(r))
                     /\ SF_allVars(OcrGivesUp(r))

-----------------------------------------------------------------------------
(* What the desktop promises.                                                *)

Claims == {"none", "live", "requested"}
WorkerPcs ==
  {"idle", "started", "continue", "boundary", "ready", "begin", "parse", "work", "failing",
   "ocr", "exchange", "adopt", "begin child", "spawn child", "unstarted child", "final",
   "stop", "fail", "leave"}
UiCommands == {"none", "admit", "claim", "spawn", "unstarted", "cancel", "signal", "direct",
               "working", "failing"}
RecoveryPcs == {"off", "list", "pick", "check", "exchange", "settle", "rewind", "launch"}

\* What the threads remember is well formed; stages run up to the summary and no further.
JobsTypeOK ==
  /\ up \in BOOLEAN /\ crashes \in 0..MaxCrashes
  /\ active \in [Runs -> Claims]
  /\ worker \in [Runs -> [pc : WorkerPcs, stage : 0..Finish, ver : 0..MaxVersion,
                          out : {"none", "lost", "ocr", "other"}]]
  /\ ui \in [cmd : UiCommands, run : Runs \cup {NoRun}, stage : 0..Finish,
             ver : 0..MaxVersion, live : BOOLEAN]
  /\ recovery \in [pc : RecoveryPcs, todo : SUBSET Runs, resume : SUBSET Runs,
                   reserved : SUBSET Runs, run : Runs \cup {NoRun}]

\* The root worker that is starting the admitted child r.
StartsChild(r, pcs) == \E h \in Runs : handoff[h].child = r /\ worker[h].pc \in pcs

\* A thread that will move run r on from the very version its row is at.
Holder(r) ==
  \/ worker[r].pc = "started"
  \/ /\ worker[r].pc \in {"parse", "work", "failing", "stop", "fail"}
     /\ worker[r].ver = run[r].version
  \/ worker[r].pc = "final" /\ worker[r].out # "lost"
  \/ ui.run = r /\ ui.cmd \in {"claim", "spawn", "unstarted"} /\ ui.ver = 0
  \/ ui.run = r /\ ui.cmd \in {"working", "failing"} /\ ui.ver = run[r].version
  \/ StartsChild(r, {"spawn child", "unstarted child"})

\* No run is left working with nobody at work on it: while the process is up, a row in an
\* active state is in the hands of a thread that will complete or fail it (spawn,
\* start_admitted_ocr_child and finalize hand it over without a gap). An OCR child that a
\* crash interrupted waits for the recovery thread instead.
ActiveRowHasOwner ==
  up => \A r \in Runs :
    run[r].state \in ActiveStates => Holder(r) \/ (IsAdmittedChild(r) /\ crashes > 0)

\* Somebody is bound to remove the claim of run r.
Releases(r) ==
  \/ worker[r].pc # "idle"
  \/ ui.cmd = "spawn" /\ ui.run = r
  \/ StartsChild(r, {"begin child", "spawn child"})
  \/ r \in recovery.reserved
  \/ recovery.pc \in {"rewind", "launch"} /\ recovery.run = r

\* The registry tells the truth: a run is claimed exactly while a thread owns it and will
\* give it up, so no run is locked out for the rest of the session and no thread works on a
\* run another may claim (ActiveRunClaim, ActiveRecoveryReservations, spawn_claimed).
ClaimsMatchThreads == \A r \in Runs : active[r] # "none" <=> Releases(r)

\* A token is signalled only after CANCELLING is committed, and the worker of a run that is
\* CANCELLING holds the very token that is signalled, or is about to be: a cancellation and a
\* new claim of the run never leave a worker with a token nobody signals. Only a recovery
\* thread can get between the two halves of a cancellation and claim the run anew, hence the
\* second part is about a session that follows no crash (request_cancellation, claim_run).
SignalFollowsCommit ==
  \A r \in Runs :
    /\ active[r] = "requested" => run[r].state \in {"Cancelling", "Cancelled"}
    /\ crashes = 0 /\ active[r] = "live" /\ run[r].state = "Cancelling"
         /\ worker[r].pc # "idle"
         => ui.cmd = "signal" /\ ui.run = r /\ ui.live

\* A cancellation that commits before its worker has decided how to leave is completed, and
\* one that a crash interrupts is completed by the restart (finalize, reconcile).
CancellationCompletes ==
  \A r \in Runs :
    (run[r].state = "Cancelling" /\ (up => worker[r].pc \notin {"idle", "leave"}))
      ~> (run[r].state = "Cancelled")

\* Every claim is released: no chain of stages, OCR exchange, handed-over child or recovery
\* keeps a run for ever.
EveryClaimIsReleased ==
  \A r \in Runs : (active[r] # "none") ~> (active[r] = "none")

\* "rather than stranding CANCELLING" (docs/CONTRACTS.md): while the process is up a run that
\* is CANCELLING has an owner left to complete the cancellation.
CancellingIsOwned ==
  up => \A r \in Runs : run[r].state = "Cancelling" => active[r] # "none"

\* A run at rest at a checkpoint can be moved on by the user, or by the OCR recovery that a
\* restart starts: "stable-checkpoint continuation and new-run retry remain user actions"
\* (docs/PIPELINE_STATE_MACHINE.md).
CheckpointIsNoDeadEnd ==
  up => \A r \in Runs :
    run[r].state \in Checkpoints /\ active[r] = "none" =>
      Continuable(r) \/ handoff[r].phase \in OpenPhases
=============================================================================
