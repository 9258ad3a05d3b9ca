# A verification development of document-summarizer

document-summarizer is a desktop application (Tauri, Rust) that turns PDFs into checked
summaries with a local model. Everything it knows of a document's way through the pipeline
is in one SQLite database; everything it is doing is in threads of a few processes. This
directory models the two and what lies between them: which transactions the database
accepts, which thread asks for which transaction when, what is left when the process dies,
and the five protocols the program speaks with others: with an OCR application, with the
inference gateway, with the clients of its own Connect provider, with the service manager
that runs that provider in the background, and with the package manager that exchanges the program
under it. Paths below are relative to the repository; `P/` is `src-tauri/src/pipeline/`, `C/`
is `src-tauri/src/connect/`, `debian/` is `src-tauri/linux/debian/`.

## 1. The system

### Components, state and operations

| Component | State | Operations | What makes it correct |
|---|---|---|---|
| Pipeline states (`P/contracts.rs`, `P/state.rs`) | none | `is_valid_transition`, the stage tables | the forward chain, the OCR restart edges, no way out of a terminal state |
| Document store (`P/db.rs`, `P/schema.rs`, `P/recovery.rs`, `P/corrections.rs`) | runs, events, one artifact row per stage, verification attempts, profiles, retry lineage, corrections, OCR handoffs | one `BEGIN IMMEDIATE` transaction per operation, compare-and-set on state and version | rows, events and artifacts agree after every commit; lineage is one to one; a cancellation is durable |
| Desktop job manager (`desktop.rs`, `desktop_startup.rs`, `lib.rs`, `P/control.rs`) | the registry of claims with cancellation tokens, worker threads, the recovery reservations | start, retry, continue, cancel; the worker and its finalizer; startup | no active run without an owner, no claim without a thread, cancellations complete |
| Stage drivers (`P/service.rs` and the stage modules) | none of their own | read a checkpoint, compute, commit artifact and checkpoint, or commit a failure | each stage from its own checkpoint only; every error ends in a durable failure |
| OCR handoff consumer (`C/ocr_consumer.rs`, `C/ocr_consumer/streamed.rs`) | the `ocr_handoffs` row | prepare, submit, poll, store outputs, admit the child; recovery after a restart | at most one child and one remote job per root, cancellable, bounded in time |
| Connect provider (`C/provider.rs`, `C/store.rs`, `C/v2.rs`) | `connect_jobs`, discovery files | accept, process, complete, fail, interrupt | one active job, one job per id, job and run agree |
| Connect lifecycle (`C/lifecycle.rs`, `C/lifecycle_control.rs`) | lifecycle choice, transition record, locks | enable, disable, roll back, recover | an interrupted operation is finished or rolled back |
| Package control (`C/package_control.rs`, `debian/`) | intent, operation record, receipts, copied controllers, the users' acknowledgements | the commands of the maintainer scripts; admission of starts and jobs | nobody runs while the program is exchanged; choices outlive every operation |
| Inference gateway (`P/gateway_store.rs`, `P/gateway_client.rs`, `P/gateway_runtime.rs`) | the request ledger | reserve, submit, complete, acknowledge | monotonic states, at most one submission |
| Model runtime (`P/model_settings.rs`, `P/model.rs`, `P/llama_cpp.rs`) | the profile lease, the server process | claim and release, generate | a runtime in use is not evicted |
| Store lifecycle (`P/db/lifecycle.rs`, `P/db/access.rs`) | three lock files, readiness record, the cached `Store` | prepare, attach, probe, open, give up | one primary; one generation in use; a successor can take over |
| Summary algorithms (`P/summary/`) | none | extraction, budgeting, verification | functions of their input |
| Entitlement, Windows storage, ingest, workspace views, profile suggestion, frontend, release scripts | files and views | checks, queries, rendering | mostly sequential |

### How they interact

The UI thread runs synchronous Tauri commands one at a time. A command that starts work
first commits a transaction of its own, then claims the run in the registry (a mutex around
a map from run id to token), then starts one worker thread. The worker goes through the
stages; each stage reads the row, commits a start, computes without holding anything, and
commits its result against the version it started from. The token is checked between stages
and inside the model stages. When the worker returns, its finalizer reads the row in one
transaction, writes in another, and only then is the claim dropped.

A document whose parse finds no text at all is handed to an OCR application. The root's
worker runs the exchange itself: it records the phase of the handoff before and after each
message, and in the end admits a *child* run of its own document, whose admission closes the
root. Child and root are claimed by the same worker for a while. After a restart the
startup code reconciles every interrupted row in one batch before the first command, reserves
the claims of all roots whose handoff is open, and starts a recovery thread that takes the
exchanges up again and resumes the children.

The program is also on the other side of such an exchange: its *Connect provider* accepts jobs
over HTTP, one at a time, each with a document that is streamed into a file before the job is
accepted in the database; a thread per job then drives the same stages as the desktop. The
provider runs in the application's process or as a user service, never both at once: an owner
lock, two registration files and the record of a *transition* decide which. A job is accepted
under a lock that no transition may be recorded under. When the package is upgraded or removed, a
controller that runs as root stops the provider of every user, keeps what each had chosen, and puts it
back when the program is there again. Model steps may go to a gateway instead
of a local server; a ledger in the same database makes each such step answered once.

Several processes share the database file itself. One of them, the *primary*, has prepared it; the
others attach to it for as long as the primary lives. Who may do what is decided by three files that
are locked, the gate, the owner lock and the lease, and by a readiness record that names the generation of
the primary.

The hard parts are therefore: a row read in one transaction and written in another; two
threads and the user around one claim; the process dying between two transactions that
belong together; the OCR child, the only run that is ever sent back to an earlier
checkpoint; answers that are lost, late or contradict each other; files that must agree with
rows; two processes that look at each other's files in some order; and an operation of many writes that
another program starts again, or does not, after it died at any of them. `PROJECT.json` lists each place under `hazards`.

## 2. The modules

### PipelineStates: `P/contracts.rs`, `P/state.rs`

The states, the table of stages (0 Ingest to 7 Verify), and `ValidTransition`. No variables.

### PipelineStore: the transactions of `P/db.rs`

State, by run id:

| Variable | Code |
|---|---|
| `run` | the `pipeline_runs` row: state, version, failure, cancellation marker, and what matters of its document: its id and kind |
| `log` | `pipeline_events` in order |
| `artifacts` | which of the artifact tables have a row for the run; 8 stands for the summary with its citations |
| `attempt` | `summary_verification_attempts`, separate because one code path writes it alone |
| `profile`, `retryOf`, `correctionOf` | the tables of the same purpose |
| `handoff` | `ocr_handoffs` by root: phase and promised child |

One action per write transaction. A transaction that returns an error is no step: SQLite
rolls it back. `CanMove` is the guard of `transition_in_tx` (expected state, expected
version, legal edge, `checked_add`); `Persist` is its update together with its event.
`StartStage`, `CompleteStage` and `FailStage` each stand for the seven functions of their
kind, which differ only in the artifact table they name. Run ids are UUIDs: `Fresh` never
reuses one and never takes one that is promised to an OCR child.

`Next` is the *most general client*: any transaction at any time, with the current version
(a stale one is refused). What is shown of this module holds for every caller. Only the phases of a
handoff are taken in the order in which the consumer of `C/ocr_consumer.rs` asks for them, not in every order
`save_status` would write.

Kinds of document: `native`; `scanned`, which is a native PDF that turns out to have no text;
`ocr`, a document derived by OCR or by a text correction.

### DesktopJobs: the threads of `desktop.rs`

EXTENDS PipelineStore and gives its transactions their callers. A step is one transaction,
one registry operation or one token check, together with what the thread decides on it. What
a thread remembers (a version it read, a stage, an outcome) is in its record; that is how
reads become stale.

| Variable | Code |
|---|---|
| `up`, `crashes` | the process; `Crash` loses every variable of this table, `Restart` is `desktop_startup::prepare` |
| `active` | `DesktopJobManager.active`: no claim, a claim with a live token, a claim whose token is requested |
| `worker[r]` | the thread of `spawn_claimed` for run r. `pc` is where `execute`, the OCR loop or `finalize` stands |
| `ui` | the command on the UI thread. `live` says whether the token a cancel command took is still the registry's |
| `recovery` | `start_ocr_recovery_task`: handoffs to do, children to resume, reservations |

Stage commands of the UI (`parse_document` to `chunk_document`) run without claim or
finalizer, as in the code: `DirectBegin`, `DirectEnd`, `DirectFail`. A worker's outcome is
kept as far as `finalize` looks at it: `lost` (`is_concurrent_ownership_loss`), `ocr` (an
OCR error, which leaves an open handoff alone) or `other`. `FaultyStore` would let a
failure go unwritten because SQLite refuses it; the runs below set it to FALSE, so the
properties are about a store that can be written.

Abstractions: parsing, model calls and their results are nondeterministic outcomes; the
provider's answers are any phase change the code accepts; a scanned document is one from
birth, although the code learns it from the parse.

### GatewayLedger and GatewayAnswers: `P/gateway_store.rs`, `P/gateway_client.rs`

One row of `model_gateway_requests`, which stands for one model step: rows of different keys
never meet, since every statement names its key. `call[c]` is one call of
`GatewayClient::execute`: the point it is at and the record it loaded last, which is how a
record becomes stale. `resolve_local_record` occurs four times in `execute` and is modelled
once, with the point it returns to. A transaction may fail without effect, a request or its
response may be lost, the process may die between any two steps, and time may pass there
(`clock`; only whether a request has expired matters). Request ids, digests and bodies are
members of small sets; a body is the record of what the code hashes. The gateway is external
and answers each POST as it likes.

GatewayAnswers is the abstract specification: a step is settled once, delivered any number of
times, released only when it is settled. `GatewayLedger!Implements` is the refinement.

### OcrExchange: `C/ocr_consumer.rs`, `C/ocr_consumer/streamed.rs`

The conversation PipelineStore and DesktopJobs leave out: there a handoff changes phase as
the code allows, here is who changes it and why. Any number of *consumers* (coordinators of one
handoff, each with what it loaded) claim, submit, poll, apply the answer, fetch and verify the
outputs, write the child's document and admit the child. The provider may answer anything
well-formed at any time, in particular a status from long ago or a completion it did not give
before. Protocols 2 (outputs in the answer) and 3 (outputs described, then fetched in ranges)
are both there; fetching all ranges and checking them is one step with three outcomes, since
it writes nothing. The root can be cancelled at any moment.

The module does not use DesktopJobs' claims. The desktop's own claims keep two coordinators
apart; the consumer's code is written to be safe without them, and is checked without them.

### ConnectJobs: `C/provider.rs`, `C/store.rs`

| Variable | Code |
|---|---|
| `phase` | the process: down; owner of the lock; runs reconciled; serving; `begin_stop` done; `shutdown_until` done |
| `req[r]` | an HTTP transfer: how far it is, which job it names, whether its client still waits |
| `slot`, `authority` | the admission permit and `ProviderAdmissionAuthority`, by the transfer that holds them |
| `staging`, `imports` | the files of `connect-imports`, by transfer: a retried job is another transfer with a file of its own |
| `jobs`, `run`, `worker` | `connect_jobs`, the job's pipeline run as far as it is resting, inside a stage, being cancelled or at its end, the thread `connect-job-<id>` |
| `desk`, `moved` | the runs a thread of the desktop has claimed, and those the desktop has moved, so that the worker's next transaction finds another state or version |
| `entitled`, `faulty` | the entitlement gate; whether this database may fail a transaction or a read, and this disk a removal or a sync |
| `litter` | history, for `NoLeakedImport`: the transfers of which a removal or a sync has failed |

Before the permit moves into the admission worker a transfer ends with its future (`Abandon`);
afterwards the worker goes on although nobody waits (`GiveUp`), and only its own checks end it.
`Drop` is the destructor of an uncommitted `PendingImport`, whose removals may fail unnoticed; `Enter`
links the import (`Promote`), and `PromotedUnsynced` is the same with a directory that cannot be synced,
an error that comes before `mark_promoted`. The runs of jobs are rows like any other, and the
desktop's history offers to continue them: `StartContinuation` to `Finalize` are what DesktopJobs has in full, in as
much as a run's worker and reconciliation can tell it. None of them looks at `connect_jobs`; the
worker that is overtaken fails its job (`Outrun`). Refusals of every kind (bad artifact,
no runtime, lifecycle change) are one action, `TurnAway`. Whether a resubmission must carry the
same hash is not modelled: it decides which reply is given, and changes nothing.

### LifecycleControl: `C/lifecycle_control.rs`, `C/lifecycle.rs`, `C/provider.rs`

A *controller* turns the background provider on or off; `record` is its transition file, `ctl`
the point at which the holder of the control lock stands, `enabled`, `unit` and `launch` what
the service manager and the launch files say. A *provider* (the application or the service) goes
through opening the store, the owner lock, and two registrations, each preceded by a look at the
record. `admitting` is the lock under which a job is admitted and a record is written. Every
attempt may end after any step (`GiveUp`, `Reboot`), and the next one takes the record up
where it stands (`Resume`). A registration that does not answer its probe in time is sent no signal; its
provider keeps the owner lock, and the attempt ends at its deadline (`NotStopped`). Such a silence is one of the faults. The service manager is external: it starts a wanted unit, and again
when it failed; its limit on restarts is not modelled. A provider that obeys a signal exits
without failure.

### PackageControl: `C/package_control.rs`, `debian/`

| Variable | Code |
|---|---|
| `intent`, `op`, `removed`, `install` | the files of `/var/lib/document-summarizer`: the quiesce intent (of the controller or of `preinst`), the operation record with its participants, the receipts of a removal and of a reinstallation |
| `controllers` | the copies `package-controller-<generation>`, which work when the program is gone |
| `binary`, `quarantine` | `/usr/bin/document-summarizer`: the program, nothing yet (`"away"`) and then the wrapper that `preinst` puts there, the program `postrm` put back, or nothing since dpkg removed it (`"none"`); the copy put aside |
| `dpkg` | the package's status between two scripts, and its version |
| `ctl` | the holder of the controller lock: its command, the line it is at, the participants left |
| `link[u]`, `ack[u]`, `session[u]`, `prov[u]` | a user's wish as systemd has it, the acknowledgement in the user's home, the runtime directory (by the login that made it), the provider |
| `hidden` | the accounts whose home directory, directory of the acknowledgement or acknowledgement is not authenticated: `discover_accounts` and `remove_participant_receipts` skip them with `continue` |
| `halted` | the accounts with a `background-mode-transition-v1.json`: a transition that was left half done |
| `wish`, `usurped`, `overlooked` | history, for the properties: the last choice made; whose restoration was settled by an application the user opened meanwhile, or whom a purge did not forget; whom a discovery passed over and who has not acknowledged a start or a choice since |

Each write of a command is an action, as is each effect on one participant, so that `Die` comes between any two
of them; a refusal (`Refuse`) undoes nothing, as in the code. `finish` releases its locks while a
successor starts (`Restore`, `Await`, `Relock`); everything else is done under both locks, which is
why `Begins`, `AdmitJob` and `Choose` ask for `~Locked`. The maintainer scripts are the actions `Prerm` to
`PostinstConfigure`: they decide from dpkg's status and from the files which command they run. dpkg
is external: its status after a script that succeeded or failed (`StatusAfter`) is what its manual says.
What LifecycleControl does in many steps is one step here (`Choose`), or one that leaves the transition's record
behind with the link at either choice and the provider running or not (`Halt`); the two modules are not composed. A
half-done transition refuses every discovery (`Discoverable`), keeps the package's acknowledgement from being
written by its service (`Publish`) and ends with the user's next choice or recovery, which needs the package's
admission (`Controls`). A user's files may become unfit and fit again at any moment (`Obscure`, `Reveal`).
An administrator may also run `postinst abort-remove` and `postrm purge` by hand, as long as a removal is
pending. Every upgrade goes the way of `preinst`, which does not tell a legacy program from a present one.

### StoreLifecycle: `P/db/lifecycle.rs`, `P/db/access.rs`

The locks are no variables. A lock is held by an open file, and an open file is a local of a function
or a field of a `Store`; so who holds which lock is an operator over where the threads are and which
Stores they, `StoreAccess.cached` and the provider still refer to (`GateExclusive`, `GateShared`,
`Owns`, `OwnerShared`, `LeaseExclusive`, `LeaseShared`, `HasAuthority`, `AccessFree`).

| Variable | Code |
|---|---|
| `th[t]` | a thread: the line it is at, what it was asked to do, which check of readiness it is in, the Store in its scope and the connection it opened |
| `cached[p]`, `provider[p]` | `StoreAccess.cached`; the Store of the running Connect provider |
| `closing[p]` | what a Store that is being dropped still holds: lease, owner lock and authority go in the order of `PreparedStore`'s fields. A killed process may keep the owner lock longest (`dying`) |
| `record`, `file` | the readiness record in the lease's file; which file the database's path leads to |

Commands, a user's Retry, the start of a provider, requests to it and gateway calls all go through
the same three procedures, each step of which is an action: `check_ready`, `prepare` and
`attach_under_gate`. A call that finds the gate taken in its first step changes nothing and is
no step. Everything that is checked of the schema, the journal and the file system may fail
anywhere (`Stumble`). A file that replaces the database is a prepared one with another identity.
`Store::initialize`, which prepares without authority and then attaches to a living primary, is used by
tests only and left out.

## 3. What TLC checks

| Run | Instance | Properties |
|---|---|---|
| `store` | 4 runs, version up to 20 for two of them | `TypeOK`, `LogExplainsRun`, `StageCompletesOnce`, `CheckpointsHoldArtifacts`, `CancellationDurable`, `HandoffAdmitsOneChild`, `RetryLineage`, `OneCorrectionPerDocument`, `HistoryOnlyGrows` |
| `jobs_ocr` | 3 runs, native and scanned uploads, one crash | `JobsTypeOK`, `ActiveRowHasOwner`, `ClaimsMatchThreads`, `SignalFollowsCommit` |
| `jobs_live` | 2 runs, fair | `CancellationCompletes`, `EveryClaimIsReleased` |
| `gateway` | 2 calls, 2 inputs, ids and answers, 3 instants | `PostsAreOnRecord`, `Implements` |
| `ocr` | 2 consumers, 2 results, both protocols | `NoUnclearedReplay`, `ChildHasItsDocument`, `CompletionIsPinned` |
| `connect` | 2 transfers, 2 jobs, fair | `TypeOK`, `ActiveJobHasWorker`, `JobAgreesWithRun`, `AcceptedFileStays`, `NoLeakedImport`, `NoJobAfterStop`, `ServedJobEnds` |
| `lifecycle` | 3 transitions, 4 faults, fair | `TypeOK`, `JobsAndTransitionsExclude`, `StoppedMeansStopped`, `ChoiceFollowsOutcome`, `TransitionEnds` |
| `package` | 2 users, 2 operations begun, 2 versions, one fault, fair | `TypeOK`, `QuietWhileReplaced`, `ChoicesKept`, `OperationEnds` |
| `storelife` | a desktop with 2 threads and a service with 1, 2 files, one fault, fair | `OneGeneration`, `ConnectionIsPrepared`, `LiveIsServed`, `ServedAgain` |
| `store_rewind`, `jobs_stranded`, `jobs_deadend` | the same instances or smaller | one statement of the repository each, violated (section 4) |

The type invariants of GatewayLedger, OcrExchange and StoreLifecycle are proved and need no run.

What the properties say of the store and its threads:

* `LogExplainsRun`: the events of a run are one chain of legal edges from its creation to its
  state, one per version.
* `StageCompletesOnce`, `CheckpointsHoldArtifacts`: an artifact is there exactly if its stage
  completed, a stage completes once however often the run was rewound, and a checkpoint
  vouches for exactly the stages before it. Continuation and rewind rely on it: they resume
  from the state alone.
* `CancellationDurable`: nothing comes of a cancelled run but CANCELLED.
* `RetryLineage`, `OneCorrectionPerDocument`, `HandoffAdmitsOneChild`: the three ways one run
  begets another stay one to one, atomic and of one profile.
* `HistoryOnlyGrows`: events and artifacts are never taken back, terminal rows never written,
  the restart edges used for OCR children alone.
* `ActiveRowHasOwner`: while the process is up, a run in an active state is in the hands of a
  thread that will end it, and that thread knows the row's current version.
* `ClaimsMatchThreads`: a run is claimed exactly while a thread will release it.
* `SignalFollowsCommit`: a requested token means a committed cancellation, and the worker of a
  CANCELLING run holds the token that is, or is about to be, signalled.
* `CancellationCompletes`, `EveryClaimIsReleased`: the liveness of the two protocols.

of the gateway (`GatewayLedger`):

* `Implements`: however calls overlap, die and repeat, a step has one answer, and the gateway is
  allowed to forget only what is in the ledger. (The same two facts as invariants of the ledger
  itself, `OneAnswerPerStep` and `ReleasedIsDurable`, are proved and need no run.)
* `PostsAreOnRecord`: what the transport was given is what the row was marked with before.

`LateCallsDoNotPost`, that a call which begins after the answer or the expiry starts no inference, is
proved and needs no run.

of the exchange with an OCR application (`OcrExchange`):

* `NoUnclearedReplay`: a request is sent a second time only after the provider said that it
  does not know the job.
* `CompletionIsPinned`: the first completion of protocol 3 stays, and the stored outputs are its.
* `ChildHasItsDocument`: no child is admitted or returned before its file is in place.

of the Connect provider (`ConnectJobs`):

* `ActiveJobHasWorker`: an accepted job has somebody who will end it; it would otherwise keep
  the provider busy until a restart.
* `JobAgreesWithRun`: a completed job has a completed run, although the desktop may run and cancel the same
  run; a serving provider shows no failed job whose run claims to be inside a stage, unless the desktop took it up.
* `AcceptedFileStays`, `NoLeakedImport`: cleanup removes the losers' files, all of them unless a
  removal or a sync fails, and never the winner's.
* `NoJobAfterStop`, `ServedJobEnds`: nothing is accepted once the stop has begun; what was
  accepted ends.

of the background mode (`LifecycleControl`):

* `JobsAndTransitionsExclude`: no job is being admitted while a transition is recorded.
* `StoppedMeansStopped`: the handshake between a provider that registers and then looks for a
  record, and a controller that records and then looks for registrations.
* `ChoiceFollowsOutcome`: a transition ends with its target or with the choice before it. (That the
  manager's choice and the launch files agree between transitions, `SettledChoice`, is proved and needs
  no run.)
* `TransitionEnds`: a transition that is taken up again ends; it never waits for a provider that
  its own record keeps out.

of the package control (`PackageControl`):

* `QuietWhileReplaced`: no provider runs once dpkg removed its program or `preinst` wrapped and ended it, none before
  its turn of a restoration, and no job is accepted across an operation. The intent, the record and the
  two locks keep the providers out at different steps, and none of them is held from begin to end. It is said
  of providers that no discovery passed over (`PassedOver`), and not of the moment in which `preinst` has their program
  away and has not ended them: section 4 says what happens there.
* `ChoicesKept`: where the enablement is not what the user chose, the operation or the removal
  receipt holds the choice; when no operation is left, enablement and acknowledgement agree with it. Retries after
  a death start from enablements that were already taken away, and must not record those. Choices that are half
  made (`halted`) and the users of `usurped` are excepted.
* `OperationEnds`: an operation that is taken up again ends, whichever write it died at, with eight
  exceptions that the property names (section 4).

of the store's lifecycle (`StoreLifecycle`):

* `OneGeneration`: all Stores in use are of the generation on record, and one process is the primary.
* `LiveIsServed`: who looks for a primary is not deceived by another probe, which holds the same
  lock for a moment, or by an initializer that is not finished.
* `ConnectionIsPrepared`: a connection leads to the file its generation was prepared for, whenever the file at
  the path is exchanged for a new one.
* `ServedAgain`: after the primary died a restarting service takes its place, although others held
  leases of the departed one.

`AuthorityFindsNoPrimary`, that a successor is not refused by what its predecessor is still closing,
is proved and needs no run.

### Bounds

`MaxVersion` is `u32::MAX` in the code. A run that goes through everything has 18 events, so 20
leaves room for a rewind or two; the bound itself is reached and is part of `TypeOK`. Two runs
are enough for a pair of any kind (root and child, source and retry, source and correction);
four make lineages of lineages, and since those need few stages, the constraint `Lineage` of
MCPipelineStore explores more than two runs only up to version 6 and with one or two uploads.
In MCDesktopJobs retries and corrections are of runs that failed early (`EarlySource`): the
threads treat a failure in a late stage like one in an early stage. Its `Lineage` spends the
crash on a scanned upload and its child, and lets native uploads and three runs go on without one
(three runs up to version 5). Run ids and profiles are interchangeable, hence symmetry in the
safety runs; the liveness runs have none. The constraint of `jobs_live` is on what the user does
(`FewCommands`, in the next-state relation), so no fair step is ever cut off; it starts either in
an empty store or after a death during an OCR handoff in any of the open phases (`DiedInHandoff`). There is
no crash in the run itself, so what it shows of a restart is as wide as those initial states.

Two calls, consumers or transfers are the smallest number that race; a third would do what one
of the two can do after it ended, since each may begin again (a transfer may not, but a job may
have both, or each job one). The desktop takes up the run of one of the two jobs (`UserJobs`), and not with a
faulty store at the same time (`UsersWithoutFaults` of MCConnectJobs: whether the store is faulty is chosen
at the start, and only behaviours that `ServedJobEnds` excludes anyway are cut). Two answers, results and inputs tell "the same" from "another".
`MaxClock` 2 with `Lifetime` 1 lets a request expire before, during and after a call.
`MaxMissing` 1 allows one resubmission. Three transitions let an enabling follow a disabling that
followed an enabling, so that a generation of the one before last can still be on its way; four
faults interrupt two attempts of each course twice.

Two generations are enough for StoreLifecycle since one that nobody remembers counts as a new UUID. Two
desktop threads let one hold a Store or a connection while the other finds the primary gone, and a service
besides them makes two processes that prepare. The fault is any one of a death, a stop, an error at any
step or a file exchanged for another; a second one would end the successor as the first ended the primary.
`FewCalls` of MCStoreLifecycle restricts, in the next-state relation, what a thread *begins*: one of the
desktop's threads gives commands, the other retries and attaches, and the service's thread starts the
provider. What has begun is never cut off.

Two users let one be settled while the other is not, have different choices and sessions, and log in and out
at different moments. Two generations are a removal and the reinstallation after it, an upgrade and the
removal after it, or an operation and the one begun over what is left of it. A fault is a
death of a command, a kill of dpkg, a deadline, or a user who acts where it hurts while an operation is
pending (`Open`, `Exit` of a wanted service, `Logout`), a transition left half done (`Halt`), or files that become unfit
(`Obscure`); one of them at a time. Two sessions let a user log in anew. Only one of the users (`Disturbed`) does
so or has files and transitions that go wrong; the other is there to be stopped, restored or refused beside
it, and may die, exit and open the application as well. `FewStarts` of MCPackageControl restricts the initial states only. The
run has 370 472 distinct states.

Deadlock is not checked in the runs of the store, its threads, the ledger and the exchange: a
bounded number of run ids, and the end of an exchange, are used up; nor in that of PackageControl,
where a machine nobody is logged in to may have used up its operations. ConnectJobs,
LifecycleControl and StoreLifecycle can always go on, and there it is checked.

### Fairness

DesktopJobs: weak fairness for the UI thread *continuing a command it has begun*, for each worker, for the
recovery thread and for the application being started again: the operating system schedules
threads, and no lock of the code is held across a wait for another thread. Strong fairness for an OCR
exchange giving up (`OcrGivesUp`, `RecoveryGivesUp`): `run_handoff_until` compares its
deadline in every turn of its loop, so it cannot poll for ever. Nothing is assumed of the user:
no command need ever be issued.

ConnectJobs: weak fairness for admission, for a job's worker and for the two reconciling steps of a
start; strong fairness for a stage that ends otherwise than at a checkpoint, since a run has
finitely many stages. Nobody need send a request, start a provider or stop it.

LifecycleControl: weak fairness for an attempt, for both providers once they have begun, for the
service manager starting a unit it wants, and for `Resume`: the documents leave recovery to the
operator, so `TransitionEnds` is a promise to an operator who does recover. The number of faults is
bounded, so it says that the *last* attempt ends, from wherever the others stopped.

PackageControl: weak fairness for the controller (each lock is waited for with a deadline, and each
effect is a command with a timeout), for systemd starting a wanted service, and for a start or an admission that has begun
(`Serves`; at most one of the three can happen to a user at a time).
Strong fairness for what dpkg does by itself after a failed or interrupted script (`Unwind`) and for the
administrator giving the failed command again (`Retry`): the documents leave both to them, and
without a retry a died command's record stays. Nobody need begin an operation, log in or log out.

StoreLifecycle: weak fairness for a thread that has begun something and for closing files, strong
fairness for the start of a background provider, which the service manager repeats (`Restart=on-failure`;
its limit on restarts is left out, as in LifecycleControl) and whose attempt for the
gate fails only while somebody looks. `ServedAgain` has two premises. `Attended`: the desktop
asks for its store again and again while it has one cached; an idle desktop keeps the lease of a departed
primary and with it every successor off. `Undisturbed`: from some time on nobody retries or attaches;
a user's Retry and a restarting service may refuse each other at the gate for ever.

`CancellationCompletes` excludes a worker that has already decided to leave; that case is the
second finding below. The gateway's ledger and the exchange are checked for safety only: their
clients may give up at any time.

## 4. Where the code and its documents disagree

1. **A rewound child that cannot verify again** (`store_rewind`). `record_verification_attempt`
   (`P/db.rs:2641`) commits the attempt before the failure it belongs to. If the process dies in
   between, the OCR child is rewound to SYNTHESIZED, and the insert-once attempt row makes every
   later `complete_verification` fail. `docs/PR-OCR-PROVIDER-HANDOFF.md:116` promises that the
   restart "rewinds it to the last persisted stable checkpoint, and resumes the same child".
2. **A cancellation nobody completes** (`jobs_stranded`). Between the finalizer's decision to
   leave the row alone and the drop of the claim, a cancel command still finds the token and
   commits CANCELLING. No thread looks at the row again before the next restart.
   `docs/CONTRACTS.md:2066` describes the neighbouring race as handled "rather than
   stranding `CANCELLING`"; it is handled where the finalizer writes, and not where it returns
   early (`desktop.rs:691` to `702`). The counterexample needs no crash: a continuation loses
   its version to a direct stage command, and the user cancels while its worker leaves.
3. **A checkpoint nobody can leave** (`jobs_deadend`). A refused OCR handoff is failed in one
   transaction and its root by the worker's finalizer in another. If the process dies in between,
   or the recovery thread, which has no finalizer, fails the handoff, the root stays PARSED:
   continuation and normalization refuse a root with a handoff, recovery lists only open
   handoffs, a retry needs FAILED and a cancellation needs a claim.
   `docs/PIPELINE_STATE_MACHINE.md:283` says stable-checkpoint continuation remains a user action.
Noticed in passing and not checked by a run:

* An accepted job loses its document. `accept_job_with_ingestion_guarded`
  commits and then reads the job in a new transaction (`C/store.rs:156`). If the read fails,
  the caller (`C/provider.rs:1996`) takes the acceptance for failed: its uncommitted
  `PendingImport` removes the file of the job that *was* accepted, no worker is started, and the
  job keeps the provider busy until a restart. `docs/CONTRACTS.md:1802` says cleanup "never"
  removes "the accepted job's owned source". `AcceptedFileStays` is what does hold: with a store
  that does not fail. ConnectJobs has these steps (`faulty`).
* An import nobody collects. `promote_staged_artifact` links the import, removes the staged file and syncs the
  directory (`C/provider.rs:2335` to `2338`); if the sync fails it returns before `mark_promoted` (`1949`), and the
  destructor, which removes the final file only of a promoted import (`2301`), leaves it. Removals that
  fail are ignored (`let _ =`) in both places. `docs/CONTRACTS.md:1801` says that cleanup "removes only the losing request's
  separately allocated import". ConnectJobs has these steps (`PromotedUnsynced`, `Drop`, `Promote`; `litter` names the transfers).
* A failed job whose run goes on. A run that rests at a checkpoint can be continued from the desktop
  (`P/service.rs:205`, `P/workspace.rs:203`), whoever started it: also the run of a Connect job, while its
  worker has it between two stages (the worker then loses its version and fails the job), or after the job has failed. The job stays
  failed when its run completes. ConnectJobs has these steps (`StartContinuation`, `Outrun`).
* An advanced handoff is taken back. Of two coordinators of one handoff one claims it, the other carries
  it on to the admitted child, and the first, which reloads the row and does not look at its phase again
  (`C/ocr_consumer.rs:508`), submits and saves the answer. `save_status` compares with the phase just
  loaded, so the handoff goes from `child_admitted` back to `running`, or to `failed`.
  `docs/PR-OCR-STREAMED-RETRIEVAL.md:238` says "An already-advanced phase is never regressed." The
  desktop's claims normally keep a second coordinator away. OcrExchange has these steps.
* A migration under open work. The desktop's commands open the store with `self.store()?.writer()?`
  (`desktop.rs:219` and seven more, `lib.rs:222`): the `Store` is a temporary that is dropped, with its
  lease, at the end of the statement, and the connection stays. While one thread works on it the primary
  dies, another thread's `get()` drops the cached Store, and the restarted provider finds the lease free,
  migrates and reconciles. `P/db/lifecycle.rs:287` says "Consumers of a departed primary may still have
  open work. Do not migrate underneath them". SQLite's own locks and the compare-and-set on versions
  still protect single transactions. `OneGeneration` is what does hold: nobody who keeps a *Store* is
  migrated underneath. StoreLifecycle has these steps (`Passed` drops the Store of a command).

* Package operations that no retry ends; `OperationEnds` names them, and PackageControl has the steps of each.
  `Wedged`: `prepare-remove` writes its intent before it looks at the record (`C/package_control.rs:549`,
  `622`). If `prerm` runs over the record of an interrupted rollback, or if dpkg was killed right after a `prerm`
  that succeeded, the new intent has another generation than the record, and `abort-remove`, `recover-install`,
  `adopt-bootstrap` and `finish-purge` all refuse from then on (`docs/CONTRACTS.md:2333`: "Interrupted rollback
  resumes its saved progress"); so does an upgrade tried over the intent of a pending removal.
  `Outdated`: `write_install_receipt` (`1459`) refuses an older receipt whose version is not the one removed, which
  an upgrade in between, which writes none, leaves behind. `Littered`: a purge that dies between
  clearing its record and deleting the controller, then an installation and a removal, leave two
  controllers, and the scripts insist on one (`debian/postrm:151`). `Estranged`: discovery
  refuses for everybody while one user is in another session than that of the acknowledgement and
  has started no provider there (`2371`); a participant recorded with a session is refused in a later one,
  and a purge does not take up a session that began since. `Occupied`: a rollback refuses while the
  application is open of a user who wanted no service, as long as it stays open. `Interrupted`: discovery refuses for
  everybody while one participant has a `background-mode-transition-v1.json` (`2373`). If `preinst` has
  put the intent of an upgrade down by then, the user's recovery of that transition is barred by the very intent
  (`C/lifecycle_control.rs:974`), and `adopt-bootstrap`, `prepare-remove`, `abort-remove` and `finish-purge` refuse for ever.
  `Silenced`: a participant whose acknowledgement can no longer be written (`1185`) cannot start the successor that
  the settlement waits for.
* Accounts that nobody stops. `discover_accounts` skips an account whose directory or acknowledgement cannot be
  authenticated (`C/package_control.rs:2356` to `2370`), silently. Its provider is not stopped by a removal, an adoption or a
  purge, goes on with the program removed, and accepts jobs again once the record is cleared; its link stays, and
  `remove_participant_receipts` skips its acknowledgement too (`1270`). `docs/CONTRACTS.md:2307` says an "unowned participant
  receipt" "fails closed", and `2285` promises strict checks "Once a participant is accepted";
  `QuietWhileReplaced` and `ChoicesKept` are what holds for those. PackageControl has these steps (`Obscure`, `Discovering`, `PassedOver`).
* Providers without their program. `preinst` removes the installed binary and then puts the wrapper in its place, before
  it terminates the old providers (`debian/preinst:326` to `331`), and it refuses if one of them runs another
  program or has an unfit registration. In between, and after a death there, they serve without a file at their
  path. PackageControl has these steps (`TakeAway`, `Wrap`, `Terminate`); nobody starts in that time, which is what `QuietWhileReplaced` says from `quiesced` on.
* A choice that a restoration forgets. While a successor is waited for, the user may open the application; it is
  admitted in the successor's place, and `recover_pending_restore` and `validate_restored`
  (`C/package_control.rs:2468` to `2562`) settle the participant as ready without looking at the
  enablement, which is still off. The property leaves these users out (`usurped`).
* A branch without a caller. `prepare-reinstall` finishes an interrupted removal first (`743`), but dpkg calls
  `preinst install` only for a package that is removed or absent; a half-removed one gets
  `preinst upgrade`, which needs the program. A temporary file or an abandoned copy in
  `/var/lib/document-summarizer` makes every purge refuse (`1329`).

Smaller ones: `submission_uncertain -> prepared` goes back after
the provider answers that it knows no such job. A
cancelled root whose worker lost a race may keep an open handoff until the next restart. And a
cancel command that took the token of a claim just before the recovery thread replaced that
claim signals the old token; the cancellation still commits and is completed when the new owner
next writes, which is why the second half of `SignalFollowsCommit` speaks of sessions that
follow no crash. Staged files and imports of transfers whose provider died are never collected. And
a controller takes the admission lock without waiting to write its record's next phase, so that it
can be turned away by a starting provider that holds it for a moment; the record stays and a
recovery continues (`GiveUp`).

## 5. What is proved

`PipelineStoreProofs` proves, with TLAPS and for every value of the constants (any set of runs
and profiles, any `MaxVersion >= 5`, the length of the longest birth of a run):

| Theorem | Statement |
|---|---|
| `TypeCorrect` | `Spec => []TypeOK` |
| `CancellationIsDurable` | `Spec => []CancellationDurable` |
| `LogExplainsEveryRun` | `Spec => []LogExplainsRun` |
| `HistoryIsKept` | `Spec => HistoryOnlyGrows` |

The assumptions are the three ASSUMEs of PipelineStore: no run is `NoRun`, no profile is
`NoProfile`, and `MaxVersion` is a number of at least 5.

The argument. `TypeOK` is inductive as it stands, and has one lemma per group of transactions.
The others rest on one case distinction, `NextRowStep`: under any step of `Next`, each single
run is *kept* (row and events unchanged), *born* (it had no row, and gets one of the three birth
chains with its events), or *moved* (one legal edge, version plus one, one event, the marker set
exactly by entering CANCELLING, CANCELLING left only for CANCELLED, restart edges for admitted OCR
children alone). It is the step of the proof that looks at each transaction of `P/db.rs`; four
more lemmas (`StageRowStep`, `InterruptionRowStep`, `AdmissionRowStep`, `HandoffRowStep`) and
`ReconcileRowStep` establish it. With it

* `CancellationDurable` is inductive together with `TypeOK`: a born run is not cancelled, and a
  move enters CANCELLED only from CANCELLING;
* `LogExplainsRun` is inductive together with `TypeOK`: an appended event starts in the row's
  state, which by induction is where the chain ends;
* `HistoryOnlyGrows` needs one strengthening, `AbsentIsBlank`: an id without a row has neither
  events nor artifacts, so that a birth takes nothing away.

It continues with a run's work and its relatives, under the same assumptions:

| Theorem | Statement |
|---|---|
| `CheckpointsVouch` | `Spec => []CheckpointsHoldArtifacts` |
| `StagesCompleteOnce` | `Spec => []StageCompletesOnce` |
| `RetriesKeepLineage` | `Spec => []RetryLineage` |
| `DocumentsAreCorrectedOnce` | `Spec => []OneCorrectionPerDocument` |
| `HandoffsAdmitOneChild` | `Spec => []HandoffAdmitsOneChild` |

The argument. `WorkStep` refines the case distinction above with what a move does to the artifacts:
it starts, completes or rewinds a stage, succeeds, or stops the run, and only completing and succeeding
add an artifact (`WorkEdge`). `CheckpointsHoldArtifacts` is then inductive, and `StageCompletesOnce`
follows from it: a stage is completed from its active state alone, where its artifact is missing. The
relatives need strengthenings. A retry's source has a pinned profile (`RetriesArePinned`), or it could still be
given another one than its retry inherited. A correction and its source exist and the correction has its text
(`CorrectionsHaveText`), so that the first stage is closed to it for good. The root of a handoff
rests at PARSED until it fails or is cancelled (`RootRests`), and a failure is written only by failing
(`FailureOnlyWhenFailed`), which makes the root's failure a proof of the admission.

`DesktopJobsProofs` proves, for any runs, profiles, kinds of upload and number of crashes:

| Theorem | Statement |
|---|---|
| `JobsAreTyped` | `JobsSpec => []JobsTypeOK` |
| `JobsImplementStore` | `JobsSpec => Spec`: the program's threads do nothing to the store but its transactions |
| `ClaimsAreTrue` | `JobsSpec => []ClaimsMatchThreads` |
| `SignalsFollowCommits` | `JobsSpec => []SignalFollowsCommit` |
| `ActiveRowsHaveOwners` | `JobsSpec => []ActiveRowHasOwner`, if `FaultyStore = FALSE` |

The argument. `Shape` says what a thread remembers: the stage a worker is at, that a worker about to start a
child has a handoff, that the recovery's list is of handoffs. It is what makes the arguments of a thread's
transaction the ones the store's `Next` allows, hence the refinement, step by step; with it every theorem
about the store holds of the program, and `StoreInv` collects those the following proofs use.

* `ClaimsMatchThreads` is not inductive: a second thread could be bound to release the same claim, and the
  first release would leave it without one. `ClaimInv` adds that there is one owner to a claim
  (`OneOwner`), that nothing is remembered while the process is down, and that a token a cancel command holds
  is a claim's.
* `SignalFollowsCommit` speaks of a command that reads the row, takes the token, commits and signals, while
  the worker ends and the run is claimed anew. `CancelInv` says why that is harmless: if the
  claim the token belonged to is gone, the version the command has read is stale and its commit is refused
  (`StaleToken`), or the claim is that of a parent about to begin its child, which completes the
  cancellation itself (`WaitsToBegin`).
* `ActiveRowHasOwner` rests on the versions: a worker owns its row while it remembers the row's version, and no
  other thread can move the row from under it but to CANCELLING. The part that is not about versions is the
  admission of a run: between the commit and the claim nobody holds the row, and if the claim
  were refused it would be left behind. `KnownInv` says that it is not refused: claims are only on runs the store
  knows or has promised to a handoff, and a run just admitted is neither anybody's child nor claimed. If
  SQLite may refuse the write that records a failure the property is false, and the code
  says so (the next restart fails the row); hence the hypothesis, which is also the run's.

`GatewayLedgerProofs` proves, for any requests, callers, request ids and answers and any lifetime:

| Theorem | Statement |
|---|---|
| `GatewayTypeCorrect` | `Spec => []TypeOK` |
| `OneAnswer` | `Spec => []OneAnswerPerStep` |
| `AcknowledgedIsDurable` | `Spec => []ReleasedIsDurable` |
| `OneBody` | `Spec => []PostsAreOnRecord` |
| `LateIsOffline` | `Spec => []LateCallsDoNotPost` |
| `LedgerImplementsContract` | `Spec => Implements`: the ledger implements GatewayAnswers |

The argument. Calls overlap, hold a row they have read and act on it much later. A step of the
system writes the row in one way only, so that the new row `Follows` the old one: same id,
expiry and input, never back to reserved, a settled row with its answer for good. What a call
holds is therefore `Sound` whatever the others do in between, and one lemma per action shows that
an action writes a row that follows and leaves its own call sound. The refinement is then step by
step: an action that settles the row is the contract's choice of an answer, one that returns is the
contract's answer, every other one is a stutter.

`OcrExchangeProofs` proves, for any coordinators and results and any bound on denials:

| Theorem | Statement |
|---|---|
| `ExchangeTypeCorrect` | `Spec => []TypeOK` |
| `NoReplayWithoutDenial` | `Spec => []NoUnclearedReplay` |
| `AdmittedChildHasDocument` | `Spec => []ChildHasItsDocument` |
| `FirstCompletionStays` | `Spec => CompletionIsPinned` |

The second one counts tokens. The right to submit is with the prepared row, with a coordinator that
is about to submit, or with one that carries a denial; `TokenInv` says that submissions made plus
rights outstanding are at most one more than the provider's denials. The compare-and-set on the
phase moves a token from the row to one coordinator, so that two of them never submit on the same
right. No finiteness of the coordinators is assumed: the invariant says that the holders are finitely
many. The others rest on `Sound`, as in the ledger.

`ConnectJobsProofs` proves, for any transfers and jobs:

| Theorem | Statement |
|---|---|
| `ConnectTypeCorrect` | `Spec => []TypeOK` |
| `ActiveJobIsOwned` | `Spec => []ActiveJobHasWorker` |
| `JobAndRunAgree` | `Spec => []JobAgreesWithRun` |
| `AcceptedFileIsKept` | `Spec => []AcceptedFileStays` |
| `NothingLeaks` | `Spec => []NoLeakedImport` |
| `StoppedAcceptsNothing` | `Spec => NoJobAfterStop` |

The argument is about ownership. `TypeOK` has the permit and the authority with one request at a
time, so that a request between `Recheck` and `Accept` is alone there and its check still holds.
`RequestOK` says which files a request has at each place and `JobOK` what its job, its worker and its
run agree on; a file belongs to its request until it is answered, and to the accepted job after that.
Three lemmas carry most steps: `RequestMoves` (one request moves, the others keep what they have),
`HandOver` (from the request to the worker) and `WorkerMoves` (one worker moves its job). The desktop needs one
more, `DesktopMoves`: a run it moves is from then on one it `moved`, about which the worker assumes nothing, and was not
completed, so that a job about to be completed is out of its reach.

`LifecycleControlProofs` proves, for any number of transitions and of faults:

| Theorem | Statement |
|---|---|
| `ControlTypeCorrect` | `Spec => []TypeOK` |
| `JobsWaitForTransitions` | `Spec => []JobsAndTransitionsExclude` |
| `StoppedStays` | `Spec => []StoppedMeansStopped` |
| `ChoiceSettles` | `Spec => []SettledChoice` |
| `OutcomeIsTheChoice` | `Spec => ChoiceFollowsOutcome` |

The argument goes phase by phase. `ChoiceOK` gives what the record and the controller's place say of
the manager's choice and the launch files; nothing in it depends on how often the phase was begun,
which is why an interrupted attempt can be repeated. `ProviderOK` says that a provider past its first
check was admitted by the record as it is, unless the publishers are still being stopped; it is the owner
lock that tells the controller that they are.

`StoreLifecycleProofs` proves, for any processes, threads, generations and files and any number of faults:

| Theorem | Statement |
|---|---|
| `StoreTypeCorrect` | `Spec => []TypeOK` |
| `OneGenerationInUse` | `Spec => []OneGeneration` |
| `AuthorityIsEnough` | `Spec => []AuthorityFindsNoPrimary` |
| `LiveIsTrue` | `Spec => LiveIsServed` |
| `ConnectionLeadsHome` | `Spec => []ConnectionIsPrepared` |

The argument follows the locks. `GateOK` says that who prepares the store is alone at it; `OneOwner`,
`FreshOwner` and `LastRef` say who may have the owner lock and why; `LeaseOK` says that from the exclusive
lease to the new Store nobody has one, which is why the record can be exchanged. `Move` judges a
step of a thread by where it leads, without asking which step it is, and `Settle` judges what ends a Store
or a process by what is left; the lemmas per group of actions only show that an action is such a step.
`FInv` adds the files: the path leads to later and later ones (`Replace` puts no earlier one back), a connection was made between two looks
at it, and a new generation is in nobody's memory. Most steps are `Plain` and leave that alone.

`PackageControlProofs` proves, for any users, versions, generations, logins and faults:

| Theorem | Statement |
|---|---|
| `PackageTypeCorrect` | `Spec => []TypeOK` |
| `CommandsKeepCourse` | `Spec => []Sound` |
| `ProvidersKeepQuiet` | `Spec => []QuietWhileReplaced` |
| `ChoicesOutlive` | `Spec => []ChoicesKept` |

The argument has three layers, each inductive over the ones before.

* `Sound` is `TypeOK` and what a command may rely on at each place it passes (`Course`): its record and intent
  are of the kind it is for, in the phase it expects, with the users it still has to stop or to settle, and
  dpkg's status says what became of the program (`StatusFits`). That is where the maintainer
  scripts' protocol is used: `prepare-reinstall`, for one, never meets a removal to finish, because dpkg
  installs anew only after postrm has succeeded. A command that dies or fails anywhere leaves its files as
  the last write left them (`FailureIsSound`), and so does a step of a user.
* `Excluded` says who may run. Under the exclusive locks nobody starts or admits a job (`SharedExcluded`); who
  runs has acknowledged and is logged in, or was passed over (`RunnersKnown`), hence is in the record when it is made; a
  record was made beside a half-done transition only if the account was passed over (`TransitionsOverlooked`); and who still
  runs is among those left to stop (`RunnersStop`), unless a discovery passed it over while it served. No lock is held during the settlement, and what keeps a
  user from starting before his turn is the record itself (`StartsAwaited`).
* `Kept` says which file tells a user's choice. A link is removed by an operation whose record has the choice
  (`LinksStop`, `LinksLeft`, `LinksSuppressed`), the record of a removal is dropped when the removal receipt has
  its list (`ReceiptWritten`), the receipt when the new record has it (`ReceiptFits`), and that record when the links and
  acknowledgements of all its users are settled (`SettledAsChosen`, `AcksTell`). A user changes his mind between
  operations only (`Choose`). A purge forgets the choices and drops the receipts, then its record, so that no
  receipt survives the purge (`Purged`). A link is that of somebody who has acknowledged it or
  whom a discovery passed over (`LinksKnown`). Users whose restoration was settled by an application they opened
  are excepted, as in the property (section 4, "A choice that a restoration forgets").

The assumptions of each module are its ASSUMEs, which are named in it; `ActiveRowsHaveOwners` has the one
more that is stated with it. Every invariant and action property of the passing runs is the statement of
one of these theorems. Only model-checked: liveness under fairness, which is out of the prover's reach
(`CancellationCompletes`, `EveryClaimIsReleased`, `ServedJobEnds`, `TransitionEnds`, `OperationEnds` and
`ServedAgain`).

## 6. What is not modelled, and what is left

* **Parts of the lifecycle**: the renewal of a runtime's identity, systemd's limit on restarts, and
  of the package controller the commands `prepare-upgrade` and `finish-upgrade`, which no maintainer
  script gives (an upgrade is `adopt-bootstrap` and `recover-install`). The checks of owners, modes and links of
  the controller's own files are refusals that may happen anyway; those of a user's directory and acknowledgement,
  which skip the account instead, are modelled (`hidden`).
* **Model runtime** (`P/model_settings.rs`, `P/model.rs`, `P/llama_cpp.rs`, `P/native_request.rs`,
  `P/qwen_tokenizer.rs`). Framing, tokenizing and HTTP; the only protocol state is a count of
  leases, changed under one mutex and given back by a guard.
* **Summary algorithms** (`P/summary/`, most of `P/summary.rs`). Text processing of model output,
  about a third of the program: functions of strings, without state.
* **Entitlement and Windows storage**: verification of a signed licence, and ACLs.
* **Frontend and release scripts**: rendering, building and accepting a release. The commands the frontend issues
  are the UI steps of DesktopJobs.
* **A database exchanged and exchanged back**: `open` looks at the file's identity before and after it connects
  (`P/db/lifecycle.rs:444`). Another file that is there only while it connects passes both looks, and the
  connection then leads to it. `Replace` only puts new files at the path, and `ConnectionIsPrepared` says no more.
* Inside what is modelled: migrations of the schema, the recovery of OCR handoffs that `retry_store`
  starts when the store was not ready before, discovery of providers, the read-only views and status
  calls.

Left to prove: no safety property of a run. A further theorem worth stating is what `ActiveRowHasOwner`
becomes with `FaultyStore = TRUE`: a row without an owner is one whose failure could not be recorded.

## 7. Running it

    tlc -workers 2 -config MCPipelineStore.cfg MCPipelineStore.tla
    tlc -workers 2 -config MCDesktopJobs_ocr.cfg MCDesktopJobs.tla
    tlc -workers 2 -config MCConnectJobs.cfg MCConnectJobs.tla
    tlapm PipelineStoreProofs.tla
    tlapm DesktopJobsProofs.tla
    tlapm GatewayLedgerProofs.tla
    tlapm OcrExchangeProofs.tla
    tlapm ConnectJobsProofs.tla
    tlapm LifecycleControlProofs.tla
    tlapm StoreLifecycleProofs.tla
    tlapm PackageControlProofs.tla

`PROJECT.json` names every run, the source lines each definition models, a mutant of the code
for each checked property, and the findings.
