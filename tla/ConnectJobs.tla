----------------------------- MODULE ConnectJobs -----------------------------
(***************************************************************************)
(* The Connect job provider: requests that are admitted one at a time, the  *)
(* job each may become, the worker of that job, and the provider process    *)
(* that starts, recovers, stops or dies around them.                        *)
(*                                                                          *)
(* A request is one HTTP transfer with import paths of its own (a transfer  *)
(* id), so a client that retries a job sends another request with the same  *)
(* job. The run of a job is what PipelineStore calls its pipeline run; here *)
(* it is only resting at a checkpoint, inside a stage, being cancelled, or   *)
(* at its end. The desktop's commands reach it too: none of them asks        *)
(* whether a run belongs to a job.                                          *)
(***************************************************************************)
EXTENDS Naturals, FiniteSets

CONSTANTS Requests,   \* transfers: each names a job and carries its document
          Jobs,       \* job identifiers
          UserJobs,   \* the jobs whose runs a user takes up in the desktop
          NoRequest   \* nobody holds the permit, or the authority

ASSUME NoRequestAssumption == NoRequest \notin Requests
ASSUME UserJobsAssumption == UserJobs \subseteq Jobs

VARIABLES phase,      \* the provider process
          entitled,   \* EntitlementGate::decision().is_active()
          faulty,     \* the store may fail a transaction or a read, the disk a file operation
          jobs,       \* connect_jobs: state, and the request whose import it owns
          run,        \* the pipeline run of each job
          staging,    \* hidden files of connect-imports, by request
          imports,    \* final files of connect-imports, by request
          req,        \* each request's place, and whether its client still waits
          slot,       \* admission_slot: the request whose worker holds the permit
          authority,  \* ProviderAdmissionAuthority: the request that holds its lock
          worker,     \* the thread connect-job-<id>
          desk,       \* jobs whose run a thread of the desktop has claimed
          moved,      \* jobs whose run the desktop moved: its state and version are not the worker's
          litter      \* history: requests with a file operation that failed

vars == <<phase, entitled, faulty, jobs, run, staging, imports, req, slot, authority, worker,
          desk, moved, litter>>
files == <<staging, imports, litter>>
process == <<phase, entitled, faulty>>
desktop == <<desk, moved>>
admission == <<staging, imports, litter, req, slot, authority>>

Phases == {"down", "locked", "reconciled", "serving", "stopping", "draining"}
Runs == {"none", "resting", "active", "cancelling", "completed", "failed"}
NoJob == [state |-> "none"]
ActiveStates == {"accepted", "processing"}
JobRows == {NoJob} \cup [state : ActiveStates \cup {"completed", "failed"}, file : Requests]
NewRequest == [pc |-> "new"]
Places == {"lookup", "receive", "queued", "admit", "promoted", "accept", "spawn"}
RequestRows == {NewRequest} \cup [pc : Places \cup {"done", "lost"}, job : Jobs, waiting : BOOLEAN]
WorkerSteps == {"none", "start", "run", "save", "fail"}

Init == /\ phase = "down"
        /\ entitled = TRUE
        /\ faulty \in BOOLEAN
        /\ jobs = [j \in Jobs |-> NoJob]
        /\ run = [j \in Jobs |-> "none"]
        /\ staging = {} /\ imports = {}
        /\ req = [r \in Requests |-> NewRequest]
        /\ slot = NoRequest /\ authority = NoRequest
        /\ worker = [j \in Jobs |-> "none"]
        /\ desk = {} /\ moved = {} /\ litter = {}

-----------------------------------------------------------------------------
(***************************************************************************)
(* What the steps share                                                     *)
(***************************************************************************)
Exists(j) == jobs[j] # NoJob
Active(j) == jobs[j].state \in ActiveStates
HasActiveJob == \E j \in Jobs : Active(j)

\* ProviderWorkerOwner: accepting until shutdown_until, which also requests cancellation.
Accepting == phase \in {"serving", "stopping"}
Cancelled == phase = "draining"
Stopped == phase \in {"stopping", "draining"}

At(r, pc) == req[r].pc = pc
Goto(r, pc) == req' = [req EXCEPT ![r].pc = pc]

\* admission_live: the client still waits within its deadline, and nobody cancelled the workers.
Live(r) == req[r].waiting /\ ~Cancelled

Finish_KeepPermit(r) == /\ Goto(r, "done")
                        /\ UNCHANGED slot
                        /\ authority' = IF authority = r THEN NoRequest ELSE authority

\* The request is answered: its thread ends and gives back what it holds.
Finish(r) == /\ Goto(r, "done")
             /\ slot' = IF slot = r THEN NoRequest ELSE slot
             /\ authority' = IF authority = r THEN NoRequest ELSE authority

Drop_KeepPromoted(r) == staging' = staging \ {r} /\ UNCHANGED <<imports, litter>>

\* PendingImport::drop of an import that was not committed. A removal that fails is not reported.
Drop(r) ==
  \/ staging' = staging \ {r} /\ imports' = imports \ {r} /\ UNCHANGED litter
  \/ /\ faulty
     /\ staging' \in {staging, staging \ {r}} /\ imports' \in {imports, imports \ {r}}
     /\ r \in staging' \cup imports' /\ litter' = litter \cup {r}
Refuse(r) == Finish(r) /\ Drop(r)

\* What accept_job_with_ingestion_guarded commits: the run at its first checkpoint, and the job.
Insert(r) == LET j == req[r].job IN
  /\ jobs' = [jobs EXCEPT ![j] = [state |-> "accepted", file |-> r]]
  /\ run' = [run EXCEPT ![j] = "resting"]

\* The rows of connect_jobs in these states become failed.
FailAll == jobs' = [j \in Jobs |-> IF Active(j) THEN [jobs[j] EXCEPT !.state = "failed"] ELSE jobs[j]]

\* mark_failed, whose own failure is only logged.
MarkFailed(j) ==
  \/ /\ Active(j)
     /\ jobs' = [jobs EXCEPT ![j].state = "failed"]
  \/ (faulty \/ ~Active(j)) /\ UNCHANGED jobs

-----------------------------------------------------------------------------
(***************************************************************************)
(* A request: create_job_for_request and create_job_for                     *)
(***************************************************************************)
\* Authorised, entitled, and the provider is accepting.
Arrive(r, j) ==
  /\ At(r, "new") /\ Accepting /\ entitled
  /\ req' = [req EXCEPT ![r] = [pc |-> "lookup", job |-> j, waiting |-> TRUE]]
  /\ UNCHANGED <<process, desktop, jobs, run, files, slot, authority, worker>>

\* The first admission work: a job of this identifier answers the request as it stands.
Lookup(r) ==
  /\ At(r, "lookup") /\ slot = NoRequest
  /\ IF Exists(req[r].job) \/ ~Accepting
     THEN Finish(r)
     ELSE Goto(r, "receive") /\ UNCHANGED <<slot, authority>>
  /\ UNCHANGED <<process, desktop, jobs, run, files, worker>>

\* receive_artifact creates the staged file, and the body streams into it.
Receive(r) ==
  /\ At(r, "receive")
  /\ Goto(r, "queued")
  /\ staging' = staging \cup {r}
  /\ UNCHANGED <<process, desktop, jobs, run, imports, litter, slot, authority, worker>>

\* Before a worker owns it, a request ends with its future: a deadline, a client that went
\* away, a body that is not what it declared, a failed read.
Abandon(r) ==
  /\ req[r].pc \in {"lookup", "receive", "queued"}
  /\ Refuse(r)
  /\ UNCHANGED <<process, desktop, jobs, run, worker>>

\* Afterwards the worker goes on without it, and only sees that nobody waits.
GiveUp(r) ==
  /\ req[r].pc \in {"admit", "promoted", "accept", "spawn"} /\ req[r].waiting
  /\ req' = [req EXCEPT ![r].waiting = FALSE]
  /\ UNCHANGED <<process, desktop, jobs, run, files, slot, authority, worker>>

\* The second admission work takes the permit into the worker thread.
Admit(r) ==
  /\ At(r, "queued") /\ slot = NoRequest
  /\ IF Accepting
     THEN Goto(r, "admit") /\ slot' = r /\ UNCHANGED <<authority, files>>
     ELSE Refuse(r)
  /\ UNCHANGED <<process, desktop, jobs, run, worker>>

-----------------------------------------------------------------------------
(***************************************************************************)
(* The admission worker: admit_received_job                                 *)
(***************************************************************************)
\* The artifact is not a document, the runtime cannot be built, nobody waits any more, a
\* lifecycle change is under way, or the provider stops.
TurnAway(r) ==
  /\ At(r, "admit")
  /\ Refuse(r)
  /\ UNCHANGED <<process, desktop, jobs, run, worker>>

\* promote_staged_artifact links the import; the staged file stays when its removal fails.
Promote(r) ==
  /\ imports' = imports \cup {r}
  /\ \/ staging' = staging \ {r} /\ UNCHANGED litter
     \/ faulty /\ UNCHANGED staging /\ litter' = litter \cup {r}

Enter_Unheld(r) ==
  /\ At(r, "admit") /\ Live(r) /\ phase = "serving" /\ authority = NoRequest
  /\ Goto(r, "promoted") /\ Promote(r)
  /\ UNCHANGED <<process, desktop, jobs, run, slot, authority, worker>>

\* The admission authority is entered, and the staged file becomes the import.
Enter(r) ==
  /\ At(r, "admit") /\ Live(r) /\ phase = "serving" /\ authority = NoRequest
  /\ authority' = r
  /\ Goto(r, "promoted") /\ Promote(r)
  /\ UNCHANGED <<process, desktop, jobs, run, slot, worker>>

\* The same, but the directory cannot be synced: the error comes before mark_promoted, and the drop
\* knows of the staged file alone.
PromotedUnsynced(r) ==
  /\ At(r, "admit") /\ Live(r) /\ phase = "serving" /\ authority = NoRequest
  /\ faulty
  /\ Finish(r)
  /\ staging' \in {staging, staging \ {r}} /\ imports' = imports \cup {r}
  /\ litter' = litter \cup {r}
  /\ UNCHANGED <<process, desktop, jobs, run, worker>>

\* Under the authority: another request may have had the job accepted, or another job is active.
Recheck(r) ==
  /\ At(r, "promoted")
  /\ IF Exists(req[r].job) \/ HasActiveJob
     THEN Refuse(r)
     ELSE Goto(r, "accept") /\ UNCHANGED <<slot, authority, files>>
  /\ UNCHANGED <<process, desktop, jobs, run, worker>>

Accept(r) ==
  /\ At(r, "accept") /\ Live(r) /\ entitled
  /\ Insert(r)
  /\ Goto(r, "spawn") /\ authority' = NoRequest
  /\ UNCHANGED <<process, desktop, files, slot, worker>>

\* The check inside the transaction fails, or the transaction does.
NotAccepted(r) ==
  /\ \/ faulty /\ req[r].pc \in {"promoted", "accept"}
     \/ At(r, "accept") /\ ~(Live(r) /\ entitled)
  /\ Refuse(r)
  /\ UNCHANGED <<process, desktop, jobs, run, worker>>

\* The transaction commits but the job cannot be read back. Whether the next read finds the
\* job, and answers with it, or fails too, the import was not committed and is dropped.
AcceptUnread(r) ==
  /\ At(r, "accept") /\ Live(r) /\ entitled /\ faulty
  /\ Insert(r)
  /\ Refuse(r)
  /\ UNCHANGED <<process, desktop, worker>>

Spawn_Uncommitted(r) ==
  /\ At(r, "spawn") /\ Accepting
  /\ worker' = [worker EXCEPT ![req[r].job] = "start"]
  /\ Refuse(r)
  /\ UNCHANGED <<process, desktop, jobs, run>>

\* The job's own thread, unless the provider stopped accepting or has no thread to give.
Spawn(r) ==
  /\ At(r, "spawn") /\ Accepting
  /\ worker' = [worker EXCEPT ![req[r].job] = "start"]
  /\ Finish(r)
  /\ UNCHANGED <<process, desktop, jobs, run, files>>

SpawnFails_Unmarked(r) ==
  /\ At(r, "spawn")
  /\ Finish(r)
  /\ UNCHANGED <<process, desktop, jobs, run, files, worker>>

SpawnFails(r) ==
  /\ At(r, "spawn")
  /\ MarkFailed(req[r].job)
  /\ Finish(r)
  /\ UNCHANGED <<process, desktop, run, files, worker>>

-----------------------------------------------------------------------------
(***************************************************************************)
(* The job's worker: process_job                                            *)
(***************************************************************************)
Working(j, step) == worker[j] = step
Proceed(j, step) == worker' = [worker EXCEPT ![j] = step]

Process(j) ==
  /\ Working(j, "start") /\ jobs[j].state = "accepted"
  /\ jobs' = [jobs EXCEPT ![j].state = "processing"]
  /\ Proceed(j, "run")
  /\ UNCHANGED <<process, desktop, run, admission>>

\* A stage begins from the checkpoint the last one left; it ends at the next one, at the summary,
\* or failed.
BeginStage(j) ==
  /\ Working(j, "run") /\ run[j] = "resting" /\ j \notin moved /\ ~Cancelled
  /\ run' = [run EXCEPT ![j] = "active"]
  /\ UNCHANGED <<process, desktop, jobs, admission, worker>>

EndStage(j) ==
  /\ Working(j, "run") /\ run[j] = "active" /\ j \notin moved
  /\ \E s \in {"resting", "completed", "failed"} :
       /\ run' = [run EXCEPT ![j] = s]
       /\ worker' = [worker EXCEPT ![j] = CASE s = "resting" -> "run"
                                            [] s = "completed" -> "save"
                                            [] s = "failed" -> "fail"]
  /\ UNCHANGED <<process, desktop, jobs, admission>>

\* The desktop moved the run meanwhile: the transaction finds another state or version.
Outrun(j) ==
  /\ Working(j, "run") /\ j \in moved
  /\ Proceed(j, "fail")
  /\ UNCHANGED <<process, desktop, jobs, run, admission>>

\* A cancelled worker leaves its run where it was: only the next start reconciles it.
Interrupted(j) ==
  /\ Working(j, "run") /\ Cancelled
  /\ Proceed(j, "fail")
  /\ UNCHANGED <<process, desktop, jobs, run, admission>>

\* A transaction of the worker fails. The stage it was in stays as the store has it.
WorkerStoreFails(j) ==
  /\ faulty /\ worker[j] \in {"start", "run", "save"}
  /\ Proceed(j, "fail")
  /\ UNCHANGED <<process, desktop, jobs, run, admission>>

\* persist_completed_summary
Complete(j) ==
  /\ Working(j, "save") /\ jobs[j].state = "processing"
  /\ jobs' = [jobs EXCEPT ![j].state = "completed"]
  /\ Proceed(j, "none")
  /\ UNCHANGED <<process, desktop, run, admission>>

\* The summary cannot be delivered within the contract: the job fails, its run does not.
Undeliverable(j) ==
  /\ Working(j, "save")
  /\ Proceed(j, "fail")
  /\ UNCHANGED <<process, desktop, jobs, run, admission>>

Fail(j) ==
  /\ Working(j, "fail")
  /\ MarkFailed(j)
  /\ Proceed(j, "none")
  /\ UNCHANGED <<process, desktop, run, admission>>

-----------------------------------------------------------------------------
(***************************************************************************)
(* The provider process                                                     *)
(***************************************************************************)
\* It owns the store's provider lock from here to its end.
Start ==
  /\ phase = "down"
  /\ phase' = "locked"
  /\ UNCHANGED <<entitled, faulty, desktop, jobs, run, admission, worker>>

Reconciled == [j \in Jobs |-> IF run[j] \in {"active", "cancelling"} THEN "failed" ELSE run[j]]

ReconcileRuns_Skipped ==
  /\ phase = "locked"
  /\ phase' = "reconciled"
  /\ UNCHANGED <<entitled, faulty, desktop, jobs, run, admission, worker>>

\* reconcile_interrupted_runs, in a transaction before that of the jobs
ReconcileRuns ==
  /\ phase = "locked"
  /\ run' = Reconciled
  /\ phase' = "reconciled"
  /\ UNCHANGED <<entitled, faulty, desktop, jobs, admission, worker>>

FailInterrupted_RunsOnly ==
  /\ phase = "reconciled"
  /\ phase' = "serving"
  /\ UNCHANGED <<entitled, faulty, desktop, jobs, run, admission, worker>>

\* mark_interrupted_jobs_failed, and then the server and its registrations
FailInterrupted ==
  /\ phase = "reconciled"
  /\ FailAll
  /\ phase' = "serving"
  /\ UNCHANGED <<entitled, faulty, desktop, run, admission, worker>>

\* shutdown_inner: begin_stop waits for the authority
BeginStop ==
  /\ phase = "serving" /\ authority = NoRequest
  /\ phase' = "stopping"
  /\ UNCHANGED <<entitled, faulty, desktop, jobs, run, admission, worker>>

\* shutdown_until: no more workers, and a cancellation for those that run
StopWorkers ==
  /\ phase = "stopping"
  /\ phase' = "draining"
  /\ UNCHANGED <<entitled, faulty, desktop, jobs, run, admission, worker>>

\* The process ends: after the graceful deadline, with workers or without, on a start that
\* fails, or because it is killed. Files and rows stay.
Halt ==
  /\ phase # "down"
  /\ phase' = "down"
  /\ req' = [r \in Requests |-> IF req[r].pc \in Places THEN [req[r] EXCEPT !.pc = "lost"] ELSE req[r]]
  /\ slot' = NoRequest /\ authority' = NoRequest
  /\ worker' = [j \in Jobs |-> "none"]
  /\ UNCHANGED <<entitled, faulty, desktop, jobs, run, files>>

\* reconcile_standalone_state_if_unowned, by a desktop that finds no provider: only the runs
Standalone ==
  /\ phase = "down" /\ run # Reconciled
  /\ run' = Reconciled
  /\ UNCHANGED <<process, desktop, jobs, admission, worker>>

\* The entitlement expires, or is renewed.
EntitlementChanges ==
  /\ entitled' = ~entitled
  /\ UNCHANGED <<phase, faulty, desktop, jobs, run, admission, worker>>

-----------------------------------------------------------------------------
(***************************************************************************)
(* The desktop, on the run of a job as on any other: DesktopJobs in short   *)
(***************************************************************************)
\* start_continuation: the plan wants a run at a checkpoint, and the claim is its thread's. A stage
\* command has no claim to cancel, and is otherwise such a thread.
StartContinuation(j) ==
  /\ j \in UserJobs \ desk /\ run[j] = "resting"
  /\ desk' = desk \cup {j}
  /\ UNCHANGED <<process, jobs, run, admission, worker, moved>>

Moves(j, s) == run' = [run EXCEPT ![j] = s] /\ moved' = moved \cup {j}

DesktopBeginsStage(j) ==
  /\ j \in desk /\ run[j] = "resting"
  /\ Moves(j, "active")
  /\ UNCHANGED <<process, jobs, admission, worker, desk>>

DesktopEndsStage(j) ==
  /\ j \in desk /\ run[j] = "active" /\ j \in moved
  /\ \E s \in {"resting", "completed", "failed"} : Moves(j, s)
  /\ UNCHANGED <<process, jobs, admission, worker, desk>>

\* request_cancellation: a claim, and the version on the screen; the stage may be the worker's.
RequestCancellation(j) ==
  /\ j \in desk /\ run[j] \in {"resting", "active"}
  /\ Moves(j, "cancelling")
  /\ UNCHANGED <<process, jobs, admission, worker, desk>>

\* finalize, or persist_worker_start_failure: a cancellation is completed, and a run without an end
\* is failed, unless the thread lost it to somebody else.
Finalize(j) ==
  /\ j \in desk /\ desk' = desk \ {j}
  /\ \/ run[j] \in {"resting", "active", "cancelling"} /\ Moves(j, "failed")
     \/ /\ \/ run[j] \in {"resting", "completed", "failed"}
           \/ run[j] = "active" /\ j \notin moved
           \/ faulty
        /\ UNCHANGED <<run, moved>>
  /\ UNCHANGED <<process, jobs, admission, worker>>

DesktopEnds ==
  /\ desk # {} /\ desk' = {}
  /\ UNCHANGED <<process, jobs, run, admission, worker, moved>>

Provider == \/ Start \/ ReconcileRuns \/ FailInterrupted \/ BeginStop \/ StopWorkers
            \/ Halt \/ Standalone \/ EntitlementChanges

Client(r) == GiveUp(r) \/ \E j \in Jobs : Arrive(r, j)

Admission(r) == \/ Lookup(r) \/ Receive(r) \/ Abandon(r) \/ Admit(r) \/ TurnAway(r) \/ Enter(r)
                \/ PromotedUnsynced(r) \/ Recheck(r) \/ Accept(r) \/ NotAccepted(r) \/ AcceptUnread(r)
                \/ Spawn(r) \/ SpawnFails(r)

Work(j) == \/ Process(j) \/ BeginStage(j) \/ EndStage(j) \/ Outrun(j) \/ Interrupted(j)
           \/ WorkerStoreFails(j)
           \/ Complete(j) \/ Undeliverable(j) \/ Fail(j)

Desktop == \/ DesktopEnds
           \/ \E j \in Jobs : \/ StartContinuation(j) \/ DesktopBeginsStage(j) \/ DesktopEndsStage(j)
                             \/ RequestCancellation(j) \/ Finalize(j)

Next == \/ Provider \/ Desktop
        \/ \E r \in Requests : Client(r) \/ Admission(r)
        \/ \E j \in Jobs : Work(j)

Spec == Init /\ [][Next]_vars

\* A thread goes on as long as its process lives, and a run has finitely many stages. Nothing
\* makes anybody start a provider, stop it, or send a request.
Fairness == /\ WF_vars(ReconcileRuns) /\ WF_vars(FailInterrupted)
            /\ \A r \in Requests : WF_vars(Admission(r))
            /\ \A j \in Jobs : WF_vars(Work(j)) /\ SF_vars(EndStage(j) /\ run'[j] # "resting")

FairSpec == Spec /\ Fairness

-----------------------------------------------------------------------------
(***************************************************************************)
(* Properties                                                               *)
(***************************************************************************)

\* Types; the permit and the authority are with requests at the places that hold them; the
\* threads of a provider end with it.
TypeOK ==
  /\ phase \in Phases /\ entitled \in BOOLEAN /\ faulty \in BOOLEAN
  /\ jobs \in [Jobs -> JobRows]
  /\ run \in [Jobs -> Runs]
  /\ staging \subseteq Requests /\ imports \subseteq Requests
  /\ req \in [Requests -> RequestRows]
  /\ worker \in [Jobs -> WorkerSteps]
  /\ desk \subseteq Jobs /\ moved \subseteq Jobs /\ litter \subseteq Requests
  /\ \A r \in Requests : slot = r <=> req[r].pc \in {"admit", "promoted", "accept", "spawn"}
  /\ \A r \in Requests : authority = r <=> req[r].pc \in {"promoted", "accept"}
  /\ slot \in Requests \cup {NoRequest} /\ authority \in Requests \cup {NoRequest}
  /\ ~Accepting /\ ~Cancelled => worker = [j \in Jobs |-> "none"] /\ slot = NoRequest

\* While the provider is up a job that is accepted or processing has somebody to end it: its
\* worker, or the admission that is about to start one. Otherwise every later request would be
\* told that the provider is busy until it restarts. A store that fails can leave one, since
\* the failure to persist a failure is only logged.
ActiveJobHasWorker ==
  (Accepting \/ Cancelled) /\ ~faulty =>
    \A j \in Jobs : Active(j) => \/ worker[j] # "none"
                                 \/ \E r \in Requests : At(r, "spawn") /\ req[r].job = j

\* A completed job has a completed run, although the desktop may run the same run. And a serving
\* provider shows no failed job whose run is still inside a stage that a worker began, whatever the
\* last provider was doing when it ended: only a user's own command leaves such a run in a stage.
JobAgreesWithRun ==
  \A j \in Jobs :
    /\ jobs[j].state = "completed" => run[j] = "completed"
    /\ jobs[j].state = "failed" /\ phase = "serving" /\ ~faulty => run[j] # "active" \/ j \in moved

\* An accepted job keeps the document it was accepted with, whatever becomes of the other
\* requests for it, as long as the store does not fail.
AcceptedFileStays ==
  ~faulty => \A j \in Jobs : Exists(j) => jobs[j].file \in imports

\* A request that was answered leaves no file behind but the one its job owns, unless the disk
\* failed it: then a sync or a removal that fails leaves a file that nothing collects (README). So
\* does a provider that dies, for the requests it did not answer.
NoLeakedImport ==
  \A r \in Requests : At(r, "done") /\ r \notin litter =>
    /\ r \notin staging
    /\ r \in imports => \E j \in Jobs : Exists(j) /\ jobs[j].file = r

\* Once the provider began to stop no job is accepted, although requests that were admitted
\* before are still under way.
NoJobAfterStop ==
  [][Stopped => \A j \in Jobs : Exists(j)' => Exists(j)]_vars

\* Every job of a provider that stays up ends, whether it was accepted by that provider or found
\* at its start, and however its worker, its stages or a stop fare.
ServedJobEnds ==
  \A j \in Jobs : Active(j) /\ ~faulty /\ phase # "down" ~> ~Active(j) \/ phase = "down"
=============================================================================
