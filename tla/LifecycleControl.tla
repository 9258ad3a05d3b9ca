--------------------------- MODULE LifecycleControl ---------------------------
(***************************************************************************)
(* Turning the background provider on and off. A controller writes a record *)
(* of its transition, stops whoever publishes, changes the choice of the    *)
(* user's service manager, and clears the record; every step is done again  *)
(* by a later attempt if it was interrupted. Meanwhile two providers, the   *)
(* foreground application and the service, start and publish themselves     *)
(* under rules of their own: the record admits at most the service that the *)
(* transition itself starts, and no job at all.                             *)
(*                                                                          *)
(* systemd is external: a unit is wanted or not, and started while it is.   *)
(***************************************************************************)
EXTENDS Naturals

CONSTANTS MaxTransitions,  \* bound: records written
          MaxFaults        \* bound: errors, deaths and missed deadlines

ASSUME MaxTransitionsAssumption == MaxTransitions \in Nat \ {0}
ASSUME MaxFaultsAssumption == MaxFaults \in Nat

VARIABLES record,     \* background-mode-transition-v1.json
          enabled,    \* the manager's choice: the link in default.target.wants
          unit,       \* the manager wants the service to run now
          launch,     \* generations in the launch receipt and in the environment file
          ctl,        \* the holder of the control lock, and how far it is
          prov,       \* the two provider processes
          admitting,  \* the provider whose admission worker holds the admission lock shared
          gen,        \* generations handed out
          faults      \* what went wrong so far

vars == <<record, enabled, unit, launch, ctl, prov, admitting, gen, faults>>
manager == <<enabled, unit, launch>>
counters == <<gen, faults>>

Providers == {"foreground", "service"}
Generations == 1..(MaxTransitions + 1)
NoGeneration == 0
NoProvider == "nobody"

\* The phases each transition goes through.
Course(kind, disposition) ==
  IF kind = "disable" THEN {"intent-recorded", "publisher-stopped", "manager-disabled"}
  ELSE IF disposition = "forward"
       THEN {"intent-recorded", "source-stopped", "manager-enabled", "successor-ready"}
       ELSE {"manager-enabled", "rollback-target-stopped", "prior-choice-restored"}
Phases == UNION {Course(k, d) : k \in {"enable", "disable"}, d \in {"forward", "rollback"}}

NoRecord == [phase |-> "none"]
Records == [phase : Phases, kind : {"enable", "disable"}, disposition : {"forward", "rollback"},
            prior : BOOLEAN, generation : Generations]

Idle == [pc |-> "idle"]
Controllers == {Idle} \cup [pc : {"new"}, kind : {"enable", "disable"}, prior : BOOLEAN]
                 \cup [pc : {"run", "await", "receipt", "environment", "disabled", "persist", "clear"}]

Off == [pc |-> "off", generation |-> NoGeneration, stop |-> FALSE]
ProviderStates == [pc : {"off", "begun", "owner", "pub1", "v1", "pub2", "serving"},
                   generation : Generations \cup {NoGeneration}, stop : BOOLEAN]

Init == /\ record = NoRecord
        /\ enabled \in BOOLEAN /\ unit = enabled
        /\ launch = LET g == IF enabled THEN 1 ELSE NoGeneration IN [receipt |-> g, environment |-> g]
        /\ ctl = Idle
        /\ prov = [p \in Providers |-> Off]
        /\ admitting = NoProvider
        /\ gen = 1 /\ faults = 0

-----------------------------------------------------------------------------
(***************************************************************************)
(* The record, and who it admits                                            *)
(***************************************************************************)
Pending == record # NoRecord
InPhase(phases) == record.phase \in phases
Forward == Pending /\ record.disposition = "forward"
Rollback == Pending /\ record.disposition = "rollback"
Enabling == Pending /\ record.kind = "enable"

NextPhase_Enabling(phase) ==
  CASE phase = "intent-recorded" -> "source-stopped"
    [] phase = "source-stopped" -> "manager-enabled"
    [] phase = "manager-enabled" -> IF Rollback THEN "rollback-target-stopped" ELSE "successor-ready"
    [] phase = "publisher-stopped" -> "manager-disabled"
    [] phase = "rollback-target-stopped" -> "prior-choice-restored"

NextPhase(phase) ==
  CASE phase = "intent-recorded" -> IF Enabling THEN "source-stopped" ELSE "publisher-stopped"
    [] phase = "source-stopped" -> "manager-enabled"
    [] phase = "manager-enabled" -> IF Rollback THEN "rollback-target-stopped" ELSE "successor-ready"
    [] phase = "publisher-stopped" -> "manager-disabled"
    [] phase = "rollback-target-stopped" -> "prior-choice-restored"

Admitted_TargetOnly(g) ==
  IF ~Pending THEN g = NoGeneration
  ELSE /\ g = record.generation /\ Enabling
       /\ IF Forward THEN InPhase({"source-stopped", "manager-enabled", "successor-ready"})
                     ELSE record.prior /\ InPhase({"rollback-target-stopped"})

\* admitted_transition_child
Admitted(g) ==
  IF ~Pending THEN g = NoGeneration
  ELSE /\ g = record.generation /\ Enabling
       /\ IF Forward
          THEN InPhase({"source-stopped", "manager-enabled", "successor-ready"})
          ELSE record.prior /\ InPhase({"rollback-target-stopped", "prior-choice-restored"})

\* restore_prior_choice turns the service on again, or off.
RestoreOn_Always == Rollback /\ InPhase({"rollback-target-stopped"})
RestoreOn == Rollback /\ InPhase({"rollback-target-stopped"}) /\ record.prior
RestoreOff == Rollback /\ InPhase({"rollback-target-stopped"}) /\ ~record.prior

Controls(pc) == ctl.pc = pc
GoOn(pc) == ctl' = [pc |-> pc]
Fault == faults < MaxFaults /\ faults' = faults + 1

-----------------------------------------------------------------------------
(***************************************************************************)
(* The controller: run_with_probe and resume_rollback                       *)
(***************************************************************************)
\* The control lock is taken without waiting; a second controller is turned away.
Begin(kind) ==
  /\ Controls("idle") /\ ~Pending /\ gen <= MaxTransitions
  /\ ctl' = [pc |-> "new", kind |-> kind, prior |-> enabled]
  /\ UNCHANGED <<record, manager, prov, admitting, counters>>

\* A record that is there is taken up where it stands, by recover or a request of its kind.
Resume ==
  /\ Controls("idle") /\ Pending
  /\ GoOn("run")
  /\ UNCHANGED <<record, manager, prov, admitting, counters>>

PersistNew_Ungated ==
  /\ Controls("new")
  /\ record' = [phase |-> "intent-recorded", kind |-> ctl.kind, disposition |-> "forward",
                prior |-> ctl.prior, generation |-> gen + 1]
  /\ gen' = gen + 1
  /\ GoOn("run")
  /\ UNCHANGED <<manager, prov, admitting, faults>>

\* The admission lock is taken exclusively, without waiting.
PersistNew ==
  /\ Controls("new") /\ admitting = NoProvider
  /\ record' = [phase |-> "intent-recorded", kind |-> ctl.kind, disposition |-> "forward",
                prior |-> ctl.prior, generation |-> gen + 1]
  /\ gen' = gen + 1
  /\ GoOn("run")
  /\ UNCHANGED <<manager, prov, admitting, faults>>

TurnedAway ==
  /\ Controls("new") /\ admitting # NoProvider
  /\ ctl' = Idle
  /\ UNCHANGED <<record, manager, prov, admitting, counters>>

Stands(p, pc) == prov[p].pc = pc
Registered(p) == prov[p].pc \in {"v1", "pub2", "serving"}
Owner(p) == prov[p].pc \in {"owner", "pub1", "v1", "pub2", "serving"}

\* stop_publishers: the unit is stopped if systemctl manages to, and whoever is registered and
\* answers a probe in time is sent a signal; then the owner lock must come free. A service that
\* obeys exits without a failure, so that it is not started again.
StopPublishers ==
  /\ Controls("run")
  /\ InPhase({"intent-recorded"}) \/ (Rollback /\ InPhase({"manager-enabled"}))
  /\ \E stopped \in BOOLEAN, answering \in SUBSET {p \in Providers : Registered(p)} :
       /\ unit' = (unit /\ ~stopped /\ "service" \notin answering)
       /\ prov' = [p \in Providers |->
                     IF p \in answering \/ (p = "service" /\ stopped /\ prov[p].pc # "off")
                     THEN [prov[p] EXCEPT !.stop = TRUE] ELSE prov[p]]
       /\ IF \A p \in Providers : Registered(p) => p \in answering THEN UNCHANGED faults ELSE Fault
  /\ GoOn("await")
  /\ UNCHANGED <<record, enabled, launch, admitting, gen>>

\* The deadline passes with a provider that has no signal and keeps the lock.
NotStopped ==
  /\ Controls("await") /\ \E p \in Providers : Stands(p, "serving") /\ ~prov[p].stop
  /\ ctl' = Idle
  /\ UNCHANGED <<record, manager, prov, admitting, counters>>

AwaitOwner_Unawaited ==
  /\ Controls("await")
  /\ GoOn("persist")
  /\ UNCHANGED <<record, manager, prov, admitting, counters>>

AwaitOwner ==
  /\ Controls("await") /\ \A p \in Providers : ~Owner(p)
  /\ GoOn("persist")
  /\ UNCHANGED <<record, manager, prov, admitting, counters>>

\* enable_and_start: the receipt, the environment file, and enable --now
WriteReceipt ==
  /\ Controls("run") /\ Forward /\ InPhase({"source-stopped"})
  /\ launch' = [launch EXCEPT !.receipt = record.generation]
  /\ GoOn("receipt")
  /\ UNCHANGED <<record, enabled, unit, prov, admitting, counters>>

WriteEnvironment ==
  /\ Controls("receipt")
  /\ launch' = [launch EXCEPT !.environment = record.generation]
  /\ GoOn("environment")
  /\ UNCHANGED <<record, enabled, unit, prov, admitting, counters>>

EnableUnit ==
  /\ Controls("environment") \/ (Controls("run") /\ RestoreOn)
  /\ enabled' = TRUE /\ unit' = TRUE
  /\ GoOn("persist")
  /\ UNCHANGED <<record, launch, prov, admitting, counters>>

\* disable --now succeeds when the process is gone.
DisableUnit ==
  /\ Controls("run") /\ (RestoreOff \/ InPhase({"publisher-stopped"}))
  /\ enabled' = FALSE /\ unit' = FALSE
  /\ prov' = [prov EXCEPT !["service"].stop = prov["service"].pc # "off"]
  /\ GoOn("disabled")
  /\ UNCHANGED <<record, launch, admitting, counters>>

NoLaunch == [receipt |-> NoGeneration, environment |-> NoGeneration]

Disabled ==
  /\ Controls("disabled") /\ prov["service"].pc = "off"
  /\ launch' = IF Rollback THEN NoLaunch ELSE launch
  /\ GoOn("persist")
  /\ UNCHANGED <<record, enabled, unit, prov, admitting, counters>>

Persist ==
  /\ Controls("persist") /\ admitting = NoProvider
  /\ record' = [record EXCEPT !.phase = NextPhase(record.phase)]
  /\ GoOn("run")
  /\ UNCHANGED <<manager, prov, admitting, counters>>

\* The steps of either course that wait until a provider is published and answers.
AwaitsReady == \/ Forward /\ InPhase({"manager-enabled"})
               \/ Rollback /\ InPhase({"prior-choice-restored"}) /\ record.prior

Ready ==
  /\ Controls("run") /\ AwaitsReady
  /\ \E p \in Providers : prov[p].pc = "serving"
  /\ GoOn(IF Forward THEN "persist" ELSE "clear")
  /\ UNCHANGED <<record, manager, prov, admitting, counters>>

\* The deadline passes: an enabling turns into its rollback, with deadlines of its own.
NotReady ==
  /\ Controls("run") /\ Forward /\ InPhase({"manager-enabled"})
  /\ Fault
  /\ record' = [record EXCEPT !.disposition = "rollback"]
  /\ UNCHANGED <<manager, ctl, prov, admitting, gen>>

\* before_clear: a disabling removes the launch files.
BeforeClear ==
  /\ Controls("run")
  /\ \/ Forward /\ InPhase({"successor-ready", "manager-disabled"})
     \/ Rollback /\ InPhase({"prior-choice-restored"}) /\ ~record.prior
  /\ launch' = IF Enabling THEN launch ELSE NoLaunch
  /\ GoOn("clear")
  /\ UNCHANGED <<record, enabled, unit, prov, admitting, counters>>

Clear ==
  /\ Controls("clear") /\ admitting = NoProvider
  /\ record' = NoRecord
  /\ ctl' = Idle
  /\ UNCHANGED <<manager, prov, admitting, counters>>

\* The attempt ends where it is: an error of systemctl or of a file, a lock that another process
\* happens to hold, a deadline, or the death of the controller. The record stays.
GiveUp ==
  /\ ~Controls("idle")
  /\ Fault
  /\ ctl' = Idle
  /\ UNCHANGED <<record, manager, prov, admitting, gen>>

-----------------------------------------------------------------------------
(***************************************************************************)
(* A provider: start_at_with_entitlement_mode and its loop                  *)
(***************************************************************************)
Moves(p, pc) == prov' = [prov EXCEPT ![p].pc = pc]
Exits(p) == /\ prov' = [prov EXCEPT ![p] = Off]
            /\ admitting' = IF admitting = p THEN NoProvider ELSE admitting
Others == UNCHANGED <<record, manager, ctl, counters>>

\* The application knows no generation. The service has the one of the record, if there is one,
\* and first of all needs launch files that agree.
Generation(p) == IF p = "service" /\ Pending THEN record.generation ELSE NoGeneration
Launchable == launch.receipt = launch.environment /\ launch.receipt # NoGeneration

Open(p) ==
  /\ Stands(p, "off") /\ Admitted(Generation(p))
  /\ p = "service" => unit /\ Launchable
  /\ prov' = [prov EXCEPT ![p] = [pc |-> "begun", generation |-> Generation(p), stop |-> FALSE]]
  /\ UNCHANGED admitting /\ Others

\* The owner lock is free, or the process exits: a service tries again after a while.
Own(p) ==
  /\ Stands(p, "begun") /\ ~prov[p].stop
  /\ IF \E q \in Providers : Owner(q) THEN Exits(p) ELSE Moves(p, "owner") /\ UNCHANGED admitting
  /\ Others

\* Before each of the two registrations the record is looked at again.
CheckFirst(p) ==
  /\ Stands(p, "owner") /\ ~prov[p].stop
  /\ IF Admitted(prov[p].generation) THEN Moves(p, "pub1") /\ UNCHANGED admitting ELSE Exits(p)
  /\ Others

PublishFirst(p) ==
  /\ Stands(p, "pub1")
  /\ Moves(p, "v1")
  /\ UNCHANGED admitting /\ Others

CheckSecond(p) ==
  /\ Stands(p, "v1")
  /\ IF Admitted(prov[p].generation) THEN Moves(p, "pub2") /\ UNCHANGED admitting ELSE Exits(p)
  /\ Others

PublishSecond(p) ==
  /\ Stands(p, "pub2")
  /\ Moves(p, "serving")
  /\ UNCHANGED admitting /\ Others

\* enter_job_admission, kept until the job is accepted or turned away
AdmitJob(p) ==
  /\ Stands(p, "serving") /\ admitting = NoProvider /\ ~Pending
  /\ admitting' = p
  /\ UNCHANGED prov /\ Others

JobAdmitted(p) ==
  /\ admitting = p
  /\ admitting' = NoProvider
  /\ UNCHANGED prov /\ Others

\* A signal ends a provider that is not in the middle of its publication.
Leave(p) ==
  /\ prov[p].stop /\ prov[p].pc \in {"begun", "owner", "serving"}
  /\ Exits(p)
  /\ Others

\* The user closes the application; a service that dies is a fault, and is started again.
Close ==
  /\ ~Stands("foreground", "off")
  /\ Exits("foreground")
  /\ Others

Die ==
  /\ ~Stands("service", "off")
  /\ Fault
  /\ Exits("service")
  /\ UNCHANGED <<record, manager, ctl, gen>>

\* The machine restarts, or the session does: an enabled unit is started at the login.
Reboot ==
  /\ Fault
  /\ ctl' = Idle /\ admitting' = NoProvider
  /\ prov' = [p \in Providers |-> Off]
  /\ unit' = enabled
  /\ UNCHANGED <<record, enabled, launch, gen>>

Attempt == \/ PersistNew \/ TurnedAway \/ StopPublishers \/ NotStopped \/ AwaitOwner
           \/ WriteReceipt \/ WriteEnvironment \/ EnableUnit \/ DisableUnit \/ Disabled \/ Persist \/ Ready
           \/ BeforeClear \/ Clear

Starting(p) == \/ Own(p) \/ CheckFirst(p) \/ PublishFirst(p) \/ CheckSecond(p)
               \/ PublishSecond(p) \/ Leave(p)

Next == \/ \E kind \in {"enable", "disable"} : Begin(kind)
        \/ Resume \/ Attempt \/ NotReady \/ GiveUp
        \/ \E p \in Providers : Open(p) \/ Starting(p) \/ AdmitJob(p) \/ JobAdmitted(p)
        \/ Close \/ Die \/ Reboot

Spec == Init /\ [][Next]_vars

\* A process goes on while it lives; the manager starts a unit it wants, and again when it exits
\* with a failure; and the operator recovers an operation that was interrupted.
Fairness == /\ WF_vars(Attempt) /\ WF_vars(Resume)
            /\ WF_vars(Open("service"))
            /\ \A p \in Providers : WF_vars(Starting(p)) /\ WF_vars(JobAdmitted(p))

FairSpec == Spec /\ Fairness

-----------------------------------------------------------------------------
(***************************************************************************)
(* Properties                                                               *)
(***************************************************************************)

\* Types; a record is on the course of its kind, and only an enabling is rolled back; one
\* provider owns the store at most.
TypeOK ==
  /\ record \in Records \cup {NoRecord}
  /\ Pending => record.phase \in Course(record.kind, record.disposition)
  /\ Rollback => Enabling
  /\ enabled \in BOOLEAN /\ unit \in BOOLEAN
  /\ launch \in [{"receipt", "environment"} -> Generations \cup {NoGeneration}]
  /\ ctl \in Controllers
  /\ prov \in [Providers -> ProviderStates]
  /\ \A p, q \in Providers : Owner(p) /\ Owner(q) => p = q
  /\ admitting \in Providers \cup {NoProvider}
  /\ gen \in Generations /\ faults \in 0..MaxFaults

\* No job is being admitted while a transition is recorded: one that was under way when the
\* record was to be written kept it from being written.
JobsAndTransitionsExclude == Pending => admitting = NoProvider

\* Once the controller recorded that the publishers are stopped, nobody serves but the service
\* that this very transition starts; and nobody at all where it starts none. A provider that
\* began before the record was written, and slept through the stop, is refused; one that did not
\* answer the probe and was sent no signal keeps the owner lock, and the controller waiting.
StoppedMeansStopped ==
  Pending /\ ~InPhase({"intent-recorded"}) /\ ~(Rollback /\ InPhase({"manager-enabled"})) =>
    \A p \in Providers : Stands(p, "serving") =>
      /\ p = "service" /\ prov[p].generation = record.generation
      /\ Enabling /\ (Rollback => record.prior)

\* When no transition is recorded, an enabled service has launch files of one generation and can
\* start, and a disabled one has none, whatever was interrupted on the way.
SettledChoice == ~Pending => IF enabled THEN Launchable ELSE launch = NoLaunch

\* A transition ends with the manager's choice it decided on: its target, or after a rollback the
\* choice recorded before its first step, over all attempts.
Decided == IF Rollback THEN record.prior ELSE Enabling
ChoiceFollowsOutcome == [][Pending /\ ~Pending' => enabled = Decided]_vars

\* However often its attempts are interrupted, a transition that is taken up again ends: the
\* provider it waits for is always one that the record lets start.
TransitionEnds == Pending ~> ~Pending
=============================================================================
