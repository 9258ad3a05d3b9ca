------------------------ MODULE LifecycleControlProofs ------------------------
(***************************************************************************)
(* Proofs about LifecycleControl, for any number of transitions and of      *)
(* faults.                                                                  *)
(*                                                                          *)
(* The argument goes phase by phase. What a controller has done so far is   *)
(* given by the record and its own place (ChoiceOK), so that an attempt     *)
(* which starts over finds what the interrupted one left; and a provider    *)
(* past a check was admitted by the record, or is about to meet the next    *)
(* check, or has its signal (ProviderOK).                                   *)
(***************************************************************************)
EXTENDS LifecycleControl, TLAPS

USE MaxTransitionsAssumption, MaxFaultsAssumption

-----------------------------------------------------------------------------
(***************************************************************************)
(* The invariant                                                            *)
(***************************************************************************)
\* The two points of a course from which the publishers are being stopped.
Stopping == InPhase({"intent-recorded"}) \/ (Rollback /\ InPhase({"manager-enabled"}))

\* Where a controller is, the record allows.
ControllerOK ==
  /\ Controls("new") => ~Pending /\ gen <= MaxTransitions /\ ctl.prior = enabled
  /\ ~Controls("new") /\ ~Controls("idle") => Pending
  /\ Controls("await") => Stopping
  /\ ctl.pc \in {"receipt", "environment"} => Forward /\ InPhase({"source-stopped"})
  /\ Controls("disabled") => RestoreOff \/ InPhase({"publisher-stopped"})
  /\ Controls("persist") => ~InPhase({"successor-ready", "manager-disabled", "prior-choice-restored"})
  /\ Controls("clear") => InPhase({"successor-ready", "manager-disabled", "prior-choice-restored"})

LaunchOf(g) == [receipt |-> g, environment |-> g]
Launched == launch = LaunchOf(record.generation)
Settled == IF enabled THEN Launchable ELSE launch = NoLaunch

\* The manager's choice and the launch files, phase by phase.
ChoiceOK ==
  /\ ~Pending => Settled
  /\ InPhase({"intent-recorded"}) => Settled /\ enabled = record.prior
  /\ InPhase({"source-stopped"}) =>
       /\ ctl.pc \in {"receipt", "environment", "persist"} => launch.receipt = record.generation
       /\ ctl.pc \in {"environment", "persist"} => Launched
       /\ Controls("persist") => enabled
  /\ InPhase({"manager-enabled", "successor-ready"}) => enabled /\ Launched
  /\ InPhase({"publisher-stopped"}) /\ ctl.pc \in {"disabled", "persist"} => ~enabled
  /\ InPhase({"manager-disabled"}) => ~enabled /\ (Controls("clear") => launch = NoLaunch)
  /\ InPhase({"rollback-target-stopped"}) =>
       /\ record.prior => enabled /\ Launched
       /\ ctl.pc \in {"disabled", "persist"} /\ ~record.prior => ~enabled
       /\ Controls("persist") /\ ~record.prior => launch = NoLaunch
  /\ InPhase({"prior-choice-restored"}) => Settled /\ enabled = record.prior

Checked == {"pub1", "v1", "pub2", "serving"}

\* A provider knows a generation only as a service; and where the publishers were stopped, only
\* one that the record admits is past its first check.
ProviderOK(p) ==
  /\ prov[p].generation # NoGeneration => p = "service"
  /\ Pending /\ (~Stopping \/ Controls("persist")) /\ prov[p].pc \in Checked =>
       /\ ~Stopping
       /\ prov[p].generation = record.generation /\ Enabling
       /\ Rollback => record.prior

IInv == /\ TypeOK
        /\ ControllerOK
        /\ ChoiceOK
        /\ \A p \in Providers : ProviderOK(p)
        /\ JobsAndTransitionsExclude

-----------------------------------------------------------------------------
(***************************************************************************)
(* Lemmas                                                                   *)
(***************************************************************************)
Kinds == {"enable", "disable"}
Dispositions == {"forward", "rollback"}

\* The phases by name.
LEMMA CoursePhases ==
  ASSUME NEW k \in Kinds, NEW d \in Dispositions, NEW f \in Course(k, d)
  PROVE  /\ f \in Phases
         /\ f \in {"intent-recorded", "publisher-stopped", "manager-disabled", "source-stopped",
                   "manager-enabled", "successor-ready", "rollback-target-stopped",
                   "prior-choice-restored"}
<1>1. k \in {"enable", "disable"} /\ d \in {"forward", "rollback"}
  BY DEF Kinds, Dispositions
<1>2. f \in Phases
  BY <1>1 DEF Phases
<1>3. f \in {"intent-recorded", "publisher-stopped", "manager-disabled", "source-stopped",
             "manager-enabled", "successor-ready", "rollback-target-stopped",
             "prior-choice-restored"}
  BY DEF Course
<1> QED
  BY <1>2, <1>3

\* A record that is pending has its fields, and a phase of its course.
LEMMA RecordFields ==
  ASSUME TypeOK, Pending
  PROVE  /\ record \in Records
         /\ record.kind \in Kinds /\ record.disposition \in Dispositions
         /\ record.prior \in BOOLEAN /\ record.generation \in Generations
         /\ record.generation # NoGeneration
         /\ record.phase \in Course(record.kind, record.disposition)
         /\ Rollback => record.kind = "enable"
BY DEF TypeOK, Pending, Records, NoRecord, Kinds, Dispositions, Generations, NoGeneration, Enabling

\* Without a record no phase is current.
LEMMA NoPhase == ~Pending => record.phase = "none"
BY DEF Pending, NoRecord

LEMMA Initially == Init => IInv
<1> SUFFICES ASSUME Init PROVE IInv
  OBVIOUS
<1>1. /\ record = NoRecord /\ record.phase = "none" /\ ~Pending /\ ~Rollback /\ ctl.pc = "idle"
      /\ ctl = Idle /\ gen = 1 /\ faults = 0 /\ admitting = NoProvider
      /\ prov = [p \in Providers |-> Off] /\ enabled \in BOOLEAN /\ unit \in BOOLEAN
      /\ 1 \in Generations
  BY DEF Init, Pending, Rollback, NoRecord, Idle, Generations
<1>2. launch = IF enabled THEN LaunchOf(1) ELSE NoLaunch
  BY DEF Init, LaunchOf, NoLaunch
<1>3. TypeOK
  <2>1. launch \in [{"receipt", "environment"} -> Generations \cup {NoGeneration}]
    BY <1>1, <1>2 DEF LaunchOf, NoLaunch
  <2>2. prov \in [Providers -> ProviderStates] /\ \A p \in Providers : ~Owner(p)
    BY <1>1 DEF Off, ProviderStates, Owner
  <2> QED
    BY <1>1, <2>1, <2>2 DEF TypeOK, Controllers
<1>4. ControllerOK
  BY <1>1 DEF ControllerOK, Controls
<1>5. ChoiceOK
  BY <1>1, <1>2 DEF ChoiceOK, InPhase, Settled, Launchable, LaunchOf, NoLaunch, NoGeneration
<1>6. \A p \in Providers : ProviderOK(p)
  BY <1>1 DEF ProviderOK, Off, Controls
<1> QED
  BY <1>1, <1>3, <1>4, <1>5, <1>6 DEF IInv, JobsAndTransitionsExclude

-----------------------------------------------------------------------------
(***************************************************************************)
(* Providers                                                                *)
(***************************************************************************)
\* One provider moves, and what the controller sees of the record and the manager stays.
LEMMA ProviderMoves ==
  ASSUME IInv, NEW p \in Providers, NEW q \in ProviderStates, prov' = [prov EXCEPT ![p] = q],
         UNCHANGED <<record, manager, ctl, gen>>, faults' \in 0..MaxFaults,
         admitting' \in Providers \cup {NoProvider}, Pending => admitting' = NoProvider,
         \/ q.pc \notin {"owner", "pub1", "v1", "pub2", "serving"}
         \/ Owner(p)
         \/ \A o \in Providers : ~Owner(o),
         ProviderOK(p)'
  PROVE  IInv'
<1>1. prov' \in [Providers -> ProviderStates] /\ prov'[p] = q
      /\ \A o \in Providers \ {p} : prov'[o] = prov[o]
  BY DEF IInv, TypeOK
<1>2. TypeOK'
  <2>1. \A a, b \in Providers : Owner(a)' /\ Owner(b)' => a = b
    BY <1>1 DEF IInv, TypeOK, Owner
  <2> QED
    BY <1>1, <2>1 DEF IInv, TypeOK, Pending, Rollback, Enabling, manager
<1>3. ControllerOK'
  BY DEF IInv, ControllerOK, Controls, Pending, Forward, Rollback, InPhase, Stopping, RestoreOff,
         manager
<1>4. ChoiceOK'
  BY DEF IInv, ChoiceOK, Controls, Pending, InPhase, Settled, Launched, Launchable, manager
<1>5. ASSUME NEW o \in Providers PROVE ProviderOK(o)'
  BY <1>1, <1>5 DEF IInv, ProviderOK, Controls, Pending, Forward, Rollback, Enabling, InPhase, Stopping
<1>6. JobsAndTransitionsExclude'
  BY DEF JobsAndTransitionsExclude, Pending
<1> QED
  BY <1>2, <1>3, <1>4, <1>5, <1>6 DEF IInv

\* A provider that exits leaves nothing.
LEMMA ExitKeeps ==
  ASSUME IInv, NEW p \in Providers, Exits(p), UNCHANGED <<record, manager, ctl, gen>>,
         faults' \in 0..MaxFaults
  PROVE  IInv'
<1>1. Off \in ProviderStates /\ Off.pc = "off" /\ Off.generation = NoGeneration
  BY DEF Off, ProviderStates
<1>2. prov' = [prov EXCEPT ![p] = Off] /\ prov'[p] = Off
  BY DEF Exits, IInv, TypeOK
<1>3. admitting' \in Providers \cup {NoProvider} /\ (Pending => admitting' = NoProvider)
  BY DEF Exits, IInv, TypeOK, JobsAndTransitionsExclude
<1>4. ProviderOK(p)'
  BY <1>1, <1>2 DEF ProviderOK, Checked
<1> QED
  BY <1>1, <1>2, <1>3, <1>4, ProviderMoves

\* What an admitted generation says of the record, if there is one.
LEMMA AdmittedIs ==
  ASSUME TypeOK, Pending, NEW g, Admitted(g)
  PROVE  /\ ~Stopping /\ g = record.generation /\ Enabling
         /\ Rollback => record.prior
<1>1. record.disposition \in {"forward", "rollback"}
  BY RecordFields DEF Dispositions
<1> QED
  BY <1>1 DEF Admitted, Stopping, InPhase, Forward, Rollback

LEMMA OpenKeeps ==
  ASSUME IInv, NEW p \in Providers, Open(p) PROVE IInv'
<1> DEFINE q == [pc |-> "begun", generation |-> Generation(p), stop |-> FALSE]
<1>1. TypeOK /\ JobsAndTransitionsExclude
  BY DEF IInv
<1>2. Generation(p) \in Generations \cup {NoGeneration}
  BY <1>1, RecordFields DEF Generation
<1>3. /\ q \in ProviderStates /\ q.pc = "begun" /\ q.generation = Generation(p)
      /\ prov' = [prov EXCEPT ![p] = q]
  BY <1>2 DEF ProviderStates, Open
<1> HIDE DEF q
<1>4. prov'[p] = q
  BY <1>1, <1>3 DEF TypeOK
<1>5. ProviderOK(p)'
  BY <1>3, <1>4 DEF ProviderOK, Checked, Generation
<1>6. UNCHANGED <<record, manager, ctl, gen, faults, admitting>>
  BY DEF Open, Others, counters
<1> QED
  BY <1>1, <1>3, <1>5, <1>6, ProviderMoves DEF TypeOK, JobsAndTransitionsExclude

\* A provider goes on to another place in its start.
LEMMA PlacedProvider ==
  ASSUME IInv, NEW p \in Providers, NEW pc \in {"owner", "pub1", "v1", "pub2", "serving"},
         Moves(p, pc), Others, UNCHANGED admitting,
         Owner(p) \/ \A o \in Providers : ~Owner(o),
         \/ pc = "owner"
         \/ pc \in {"pub1", "pub2"} /\ Admitted(prov[p].generation)
         \/ pc = "v1" /\ prov[p].pc = "pub1"
         \/ pc = "serving" /\ prov[p].pc = "pub2"
  PROVE  IInv'
<1> DEFINE q == [prov[p] EXCEPT !.pc = pc]
<1>1. TypeOK /\ JobsAndTransitionsExclude /\ ProviderOK(p) /\ ControllerOK
      /\ prov[p] \in ProviderStates /\ prov \in [Providers -> ProviderStates]
  BY DEF IInv, TypeOK
<1>2. /\ q \in ProviderStates /\ q.pc = pc /\ q.generation = prov[p].generation
      /\ q.stop = prov[p].stop /\ prov' = [prov EXCEPT ![p] = q]
  BY <1>1 DEF ProviderStates, Moves
<1> HIDE DEF q
<1>3. prov'[p] = q
  BY <1>1, <1>2
<1>4. UNCHANGED <<record, manager, ctl, gen, faults>>
  BY DEF Others, counters
<1>5. /\ Pending' = Pending /\ Stopping' = Stopping /\ Rollback' = Rollback
      /\ Enabling' = Enabling /\ Controls("persist")' = Controls("persist")
      /\ Controls("await")' = Controls("await")
  BY <1>4 DEF Pending, Stopping, Rollback, Enabling, InPhase, Controls
<1>6. ProviderOK(p)'
  <2>1. CASE pc = "owner"
    BY <1>1, <1>2, <1>3, <2>1 DEF ProviderOK, Checked
  <2>2. CASE pc \in {"pub1", "pub2"} /\ Admitted(prov[p].generation)
    <3>1. Pending => /\ ~Stopping /\ prov[p].generation = record.generation /\ Enabling
                     /\ Rollback => record.prior
      BY <1>1, <2>2, AdmittedIs
    <3>2. Controls("await") => Pending /\ Stopping
      BY <1>1 DEF ControllerOK, Controls
    <3> QED
      BY <1>1, <1>2, <1>3, <1>4, <1>5, <3>1, <3>2 DEF ProviderOK
  <2>3. CASE pc = "v1" /\ prov[p].pc = "pub1"
    BY <1>1, <1>2, <1>3, <1>4, <1>5, <2>3 DEF ProviderOK, Checked
  <2>4. CASE pc = "serving" /\ prov[p].pc = "pub2"
    BY <1>1, <1>2, <1>3, <1>4, <1>5, <2>4 DEF ProviderOK, Checked
  <2> QED
    BY <2>1, <2>2, <2>3, <2>4
<1> QED
  BY <1>1, <1>2, <1>4, <1>6, ProviderMoves DEF TypeOK, JobsAndTransitionsExclude

LEMMA StartingKeeps ==
  ASSUME IInv, NEW p \in Providers, Starting(p) PROVE IInv'
<1>1. UNCHANGED <<record, manager, ctl, gen>> /\ faults' \in 0..MaxFaults
  BY DEF IInv, TypeOK, Starting, Own, CheckFirst, PublishFirst, CheckSecond, PublishSecond, Leave,
         Others, counters
<1>2. CASE Exits(p)
  BY <1>1, <1>2, ExitKeeps
<1>3. CASE Own(p) /\ ~Exits(p)
  BY <1>3, PlacedProvider DEF Own
<1>4. CASE CheckFirst(p) /\ ~Exits(p)
  BY <1>4, PlacedProvider DEF CheckFirst, Stands, Owner
<1>5. CASE PublishFirst(p)
  BY <1>5, PlacedProvider DEF PublishFirst, Stands, Owner
<1>6. CASE CheckSecond(p) /\ ~Exits(p)
  BY <1>6, PlacedProvider DEF CheckSecond, Stands, Owner
<1>7. CASE PublishSecond(p)
  BY <1>7, PlacedProvider DEF PublishSecond, Stands, Owner
<1> QED
  BY <1>2, <1>3, <1>4, <1>5, <1>6, <1>7 DEF Starting, Leave

\* A job is admitted by a provider that serves, and only the lock changes hands.
LEMMA AdmittingKeeps ==
  ASSUME IInv, NEW p \in Providers, AdmitJob(p) \/ JobAdmitted(p) PROVE IInv'
<1>1. UNCHANGED <<record, manager, ctl, gen, faults, prov>>
  BY DEF AdmitJob, JobAdmitted, Others, counters
<1>2. TypeOK /\ ControllerOK /\ ChoiceOK /\ \A o \in Providers : ProviderOK(o)
  BY DEF IInv
<1>3. admitting' \in Providers \cup {NoProvider} /\ (Pending => admitting' = NoProvider)
  BY DEF AdmitJob, JobAdmitted
<1>4. TypeOK'
  BY <1>1, <1>2, <1>3 DEF TypeOK, Pending, Rollback, Enabling, Owner, manager
<1>5. ControllerOK'
  BY <1>1, <1>2 DEF ControllerOK, Controls, Pending, Forward, Rollback, InPhase, Stopping,
     RestoreOff, manager
<1>6. ChoiceOK'
  BY <1>1, <1>2 DEF ChoiceOK, Controls, Pending, InPhase, Settled, Launched, Launchable, manager
<1>7. ASSUME NEW o \in Providers PROVE ProviderOK(o)'
  BY <1>1, <1>2, <1>7 DEF ProviderOK, Controls, Pending, Rollback, Enabling, InPhase, Stopping
<1> QED
  BY <1>1, <1>3, <1>4, <1>5, <1>6, <1>7 DEF IInv, JobsAndTransitionsExclude, Pending

LEMMA EndingKeeps == IInv /\ (Close \/ Die) => IInv'
<1> SUFFICES ASSUME IInv, Close \/ Die PROVE IInv'
  OBVIOUS
<1>1. UNCHANGED <<record, manager, ctl, gen>> /\ faults' \in 0..MaxFaults
  BY DEF IInv, TypeOK, Close, Die, Others, counters, Fault
<1>2. PICK p \in Providers : Exits(p)
  BY DEF Close, Die, Providers
<1> QED
  BY <1>1, <1>2, ExitKeeps

-----------------------------------------------------------------------------
(***************************************************************************)
(* The controller, where the record stays                                   *)
(***************************************************************************)
\* A controller moves on; the record and where the providers are stay.
LEMMA ControllerMoves ==
  ASSUME IInv, UNCHANGED <<record, admitting, gen>>, faults' \in 0..MaxFaults,
         enabled' \in BOOLEAN, unit' \in BOOLEAN,
         launch' \in [{"receipt", "environment"} -> Generations \cup {NoGeneration}],
         ctl' \in Controllers, prov' \in [Providers -> ProviderStates],
         \A p \in Providers : /\ prov'[p].pc = prov[p].pc
                              /\ prov'[p].generation = prov[p].generation,
         Controls("persist")' => Controls("persist") \/ ~Stopping
                                 \/ \A p \in Providers : prov[p].pc \notin Checked,
         ControllerOK', ChoiceOK'
  PROVE  IInv'
<1>1. TypeOK /\ \A p \in Providers : ProviderOK(p)
  BY DEF IInv
<1>2. /\ Pending' = Pending /\ Stopping' = Stopping /\ Rollback' = Rollback /\ Enabling' = Enabling
  BY DEF Pending, Stopping, Rollback, Enabling, InPhase
<1>3. TypeOK'
  BY <1>1, <1>2 DEF TypeOK, Owner
<1>4. ASSUME NEW p \in Providers PROVE ProviderOK(p)'
  <2>1. ProviderOK(p)
    BY <1>1
  <2>2. Pending /\ (~Stopping \/ Controls("persist")') /\ prov[p].pc \in Checked =>
          ~Stopping \/ Controls("persist")
    OBVIOUS
  <2> QED
    BY <1>2, <2>1, <2>2 DEF ProviderOK
<1> QED
  BY <1>2, <1>3, <1>4 DEF IInv, JobsAndTransitionsExclude

\* The places of a controller that goes on.
LEMMA GoOnPlaces ==
  ASSUME NEW pc \in {"run", "await", "receipt", "environment", "disabled", "persist", "clear"},
         GoOn(pc)
  PROVE  ctl' \in Controllers /\ ctl'.pc = pc
BY DEF GoOn, Controllers

\* A phase is one at a time.
USE DEF InPhase, Controls

\* A controller that only moves: it begins, resumes, is turned away, waits, or gives up.
LEMMA MovingKeeps ==
  ASSUME IInv, UNCHANGED <<record, manager, prov, admitting, gen>>, faults' \in 0..MaxFaults,
         ctl' \in Controllers, ControllerOK', ctl'.pc \notin {"await", "receipt", "environment",
                                                              "disabled"},
         Controls("persist")' => /\ InPhase({"intent-recorded", "manager-enabled"})
                                 /\ Stopping => \A p \in Providers : prov[p].pc \notin Checked,
         Controls("clear")' => ~InPhase({"manager-disabled"})
  PROVE  IInv'
<1>1. TypeOK /\ ChoiceOK
  BY DEF IInv
<1>2. ChoiceOK'
  BY <1>1 DEF ChoiceOK, Pending, Settled, Launched, Launchable, manager
<1> QED
  BY <1>1, <1>2, ControllerMoves DEF TypeOK, manager

LEMMA BeginKeeps ==
  ASSUME IInv, NEW kind \in Kinds, Begin(kind) PROVE IInv'
<1>1. /\ UNCHANGED <<record, manager, prov, admitting, gen, faults>> /\ ~Pending
      /\ gen <= MaxTransitions /\ TypeOK /\ ctl' = [pc |-> "new", kind |-> kind, prior |-> enabled]
  BY DEF IInv, Begin, counters
<1>2. ctl' \in Controllers /\ ctl'.pc = "new" /\ ctl'.prior = enabled
  BY <1>1 DEF TypeOK, Controllers, Kinds
<1>3. ControllerOK'
  BY <1>1, <1>2 DEF ControllerOK, Pending, manager
<1> QED
  BY <1>1, <1>2, <1>3, MovingKeeps DEF TypeOK

LEMMA IdleKeeps ==
  ASSUME IInv, Resume \/ TurnedAway \/ NotStopped \/ GiveUp PROVE IInv'
<1>1. /\ UNCHANGED <<record, manager, prov, admitting, gen>> /\ faults' \in 0..MaxFaults
      /\ ctl' \in Controllers /\ \/ ctl'.pc = "idle"
                                 \/ ctl'.pc = "run" /\ Pending
  BY GoOnPlaces DEF IInv, TypeOK, Resume, TurnedAway, NotStopped, GiveUp, Fault, counters, Idle, Controllers
<1>2. ControllerOK'
  BY <1>1 DEF ControllerOK, Pending
<1> QED
  BY <1>1, <1>2, MovingKeeps

LEMMA AwaitOwnerKeeps == IInv /\ AwaitOwner => IInv'
<1> SUFFICES ASSUME IInv, AwaitOwner PROVE IInv'
  OBVIOUS
<1>1. /\ UNCHANGED <<record, manager, prov, admitting, gen, faults>> /\ TypeOK
      /\ ctl' \in Controllers /\ ctl'.pc = "persist" /\ Pending /\ Stopping
      /\ \A p \in Providers : ~Owner(p)
  BY GoOnPlaces DEF IInv, AwaitOwner, counters, ControllerOK
<1>2. ControllerOK'
  BY <1>1 DEF ControllerOK, Pending, Stopping
<1>3. \A p \in Providers : prov[p].pc \notin Checked
  BY <1>1 DEF Owner, Checked
<1> QED
  BY <1>1, <1>2, <1>3, MovingKeeps DEF TypeOK, Stopping

LEMMA ReadyKeeps == IInv /\ Ready => IInv'
<1> SUFFICES ASSUME IInv, Ready PROVE IInv'
  OBVIOUS
<1>1. /\ UNCHANGED <<record, manager, prov, admitting, gen, faults>> /\ TypeOK /\ Pending
      /\ ctl' \in Controllers
      /\ \/ Forward /\ ctl'.pc = "persist" /\ record.phase = "manager-enabled"
         \/ Rollback /\ ctl'.pc = "clear" /\ record.phase = "prior-choice-restored"
  BY GoOnPlaces DEF IInv, Ready, counters, ControllerOK, AwaitsReady, Forward, Rollback
<1>2. ControllerOK'
  BY <1>1 DEF ControllerOK, Pending
<1>3. Forward => ~Rollback
  BY DEF Forward, Rollback
<1> QED
  BY <1>1, <1>2, <1>3, MovingKeeps DEF TypeOK, Stopping

LEMMA StopPublishersKeeps == IInv /\ StopPublishers => IInv'
<1> SUFFICES ASSUME IInv, StopPublishers PROVE IInv'
  OBVIOUS
<1>1. /\ UNCHANGED <<record, enabled, launch, admitting, gen>> /\ TypeOK /\ ChoiceOK
      /\ ctl' \in Controllers /\ ctl'.pc = "await" /\ Pending /\ Stopping
  BY GoOnPlaces DEF IInv, StopPublishers, ControllerOK, Stopping
<1>2. /\ unit' \in BOOLEAN /\ prov' \in [Providers -> ProviderStates] /\ faults' \in 0..MaxFaults
      /\ \A p \in Providers : /\ prov'[p].pc = prov[p].pc
                              /\ prov'[p].generation = prov[p].generation
  <2>1. PICK stopped \in BOOLEAN, answering \in SUBSET {p \in Providers : Registered(p)} :
          /\ unit' = (unit /\ ~stopped /\ "service" \notin answering)
          /\ prov' = [p \in Providers |->
                        IF p \in answering \/ (p = "service" /\ stopped /\ prov[p].pc # "off")
                        THEN [prov[p] EXCEPT !.stop = TRUE] ELSE prov[p]]
          /\ UNCHANGED faults \/ Fault
    BY DEF StopPublishers
  <2>2. ASSUME NEW p \in Providers
        PROVE  /\ prov'[p] \in ProviderStates
               /\ prov'[p].pc = prov[p].pc /\ prov'[p].generation = prov[p].generation
    <3>1. prov[p] \in ProviderStates
      BY <1>1 DEF TypeOK
    <3>2. prov'[p] = [prov[p] EXCEPT !.stop = TRUE] \/ prov'[p] = prov[p]
      BY <2>1
    <3> QED
      BY <3>1, <3>2 DEF ProviderStates
  <2>3. unit' \in BOOLEAN
    BY <1>1, <2>1
  <2>4. faults' \in 0..MaxFaults
    BY <1>1, <2>1 DEF TypeOK, Fault
  <2> QED
    BY <2>1, <2>2, <2>3, <2>4
<1>3. ControllerOK'
  BY <1>1 DEF ControllerOK, Pending, Stopping, Rollback
<1>4. ChoiceOK'
  BY <1>1 DEF ChoiceOK, Pending, Settled, Launched, Launchable
<1> QED
  BY <1>1, <1>2, <1>3, <1>4, ControllerMoves DEF TypeOK

\* The manager and the launch files change under a controller that goes on.
LEMMA ManagerMoves ==
  ASSUME IInv, UNCHANGED <<record, admitting, gen, faults>>, Pending,
         enabled' \in BOOLEAN, unit' \in BOOLEAN,
         launch' \in [{"receipt", "environment"} -> Generations \cup {NoGeneration}],
         NEW pc \in {"receipt", "environment", "disabled", "persist", "clear"}, GoOn(pc),
         prov' \in [Providers -> ProviderStates],
         \A p \in Providers : /\ prov'[p].pc = prov[p].pc
                              /\ prov'[p].generation = prov[p].generation,
         ~Stopping, ControllerOK', ChoiceOK'
  PROVE  IInv'
<1>1. ctl' \in Controllers /\ ctl'.pc = pc
  BY GoOnPlaces
<1> QED
  BY <1>1, ControllerMoves DEF IInv, TypeOK

LEMMA WriteReceiptKeeps == IInv /\ WriteReceipt => IInv'
<1> SUFFICES ASSUME IInv, WriteReceipt PROVE IInv'
  OBVIOUS
<1>1. /\ UNCHANGED <<record, enabled, unit, prov, admitting, gen, faults>> /\ TypeOK /\ ChoiceOK
      /\ Pending /\ Forward /\ record.phase = "source-stopped" /\ GoOn("receipt")
      /\ launch' = [launch EXCEPT !.receipt = record.generation]
  BY DEF IInv, WriteReceipt, counters, Forward
<1>2. ctl'.pc = "receipt"
  BY <1>1, GoOnPlaces
<1>3. launch' \in [{"receipt", "environment"} -> Generations \cup {NoGeneration}]
      /\ launch'.receipt = record.generation
  BY <1>1, RecordFields DEF TypeOK
<1>4. ControllerOK'
  BY <1>1, <1>2 DEF ControllerOK, Pending, Forward
<1>5. ChoiceOK'
  BY <1>1, <1>2, <1>3 DEF ChoiceOK, Pending, NoRecord
<1> QED
  BY <1>1, <1>3, <1>4, <1>5, ManagerMoves DEF TypeOK, Stopping

LEMMA WriteEnvironmentKeeps == IInv /\ WriteEnvironment => IInv'
<1> SUFFICES ASSUME IInv, WriteEnvironment PROVE IInv'
  OBVIOUS
<1>1. /\ UNCHANGED <<record, enabled, unit, prov, admitting, gen, faults>> /\ TypeOK /\ ChoiceOK
      /\ Pending /\ Forward /\ record.phase = "source-stopped" /\ GoOn("environment")
      /\ launch' = [launch EXCEPT !.environment = record.generation]
      /\ launch.receipt = record.generation
  BY DEF IInv, WriteEnvironment, counters, Forward, ControllerOK, ChoiceOK
<1>2. ctl'.pc = "environment"
  BY <1>1, GoOnPlaces
<1>3. /\ launch' \in [{"receipt", "environment"} -> Generations \cup {NoGeneration}]
      /\ launch' = LaunchOf(record.generation)
  BY <1>1, RecordFields DEF TypeOK, LaunchOf
<1>4. ControllerOK'
  BY <1>1, <1>2 DEF ControllerOK, Pending, Forward
<1>5. ChoiceOK'
  BY <1>1, <1>2, <1>3 DEF ChoiceOK, Pending, NoRecord, Launched, LaunchOf
<1> QED
  BY <1>1, <1>3, <1>4, <1>5, ManagerMoves DEF TypeOK, Stopping

LEMMA EnableUnitKeeps == IInv /\ EnableUnit => IInv'
<1> SUFFICES ASSUME IInv, EnableUnit PROVE IInv'
  OBVIOUS
<1>1. /\ UNCHANGED <<record, launch, prov, admitting, gen, faults>> /\ TypeOK /\ ChoiceOK
      /\ Pending /\ GoOn("persist") /\ enabled' = TRUE /\ unit' = TRUE /\ Launched
      /\ \/ record.phase = "source-stopped"
         \/ record.phase = "rollback-target-stopped" /\ record.prior
  BY DEF IInv, EnableUnit, counters, Forward, Rollback, RestoreOn, ControllerOK, ChoiceOK
<1>2. ctl'.pc = "persist"
  BY <1>1, GoOnPlaces
<1>3. ControllerOK'
  BY <1>1, <1>2 DEF ControllerOK, Pending
<1>4. ChoiceOK'
  BY <1>1, <1>2 DEF ChoiceOK, Pending, NoRecord, Launched, LaunchOf
<1> QED
  BY <1>1, <1>3, <1>4, ManagerMoves DEF TypeOK, Stopping

LEMMA DisableUnitKeeps == IInv /\ DisableUnit => IInv'
<1> SUFFICES ASSUME IInv, DisableUnit PROVE IInv'
  OBVIOUS
<1>1. /\ UNCHANGED <<record, launch, admitting, gen, faults>> /\ TypeOK /\ ChoiceOK
      /\ Pending /\ GoOn("disabled") /\ enabled' = FALSE /\ unit' = FALSE
      /\ RestoreOff \/ record.phase = "publisher-stopped"
      /\ prov' = [prov EXCEPT !["service"].stop = prov["service"].pc # "off"]
  BY DEF IInv, DisableUnit, counters, ControllerOK
<1>2. ctl'.pc = "disabled"
  BY <1>1, GoOnPlaces
<1>3. \/ record.phase = "publisher-stopped"
      \/ record.phase = "rollback-target-stopped" /\ ~record.prior
  BY <1>1 DEF RestoreOff
<1>4. /\ prov' \in [Providers -> ProviderStates]
      /\ \A p \in Providers : /\ prov'[p].pc = prov[p].pc
                              /\ prov'[p].generation = prov[p].generation
  BY <1>1 DEF TypeOK, Providers, ProviderStates
<1>5. ControllerOK'
  BY <1>1, <1>2 DEF ControllerOK, Pending, RestoreOff, Rollback
<1>6. ChoiceOK'
  BY <1>1, <1>2, <1>3 DEF ChoiceOK, Pending, NoRecord
<1> QED
  BY <1>1, <1>3, <1>4, <1>5, <1>6, ManagerMoves DEF TypeOK, Stopping

LEMMA DisabledKeeps == IInv /\ Disabled => IInv'
<1> SUFFICES ASSUME IInv, Disabled PROVE IInv'
  OBVIOUS
<1>1. /\ UNCHANGED <<record, enabled, unit, prov, admitting, gen, faults>> /\ TypeOK /\ ChoiceOK
      /\ Pending /\ GoOn("persist") /\ (RestoreOff \/ record.phase = "publisher-stopped")
      /\ launch' = (IF Rollback THEN NoLaunch ELSE launch) /\ ctl.pc = "disabled"
  BY DEF IInv, Disabled, counters, ControllerOK
<1>2. ctl'.pc = "persist"
  BY <1>1, GoOnPlaces
<1>3. launch' \in [{"receipt", "environment"} -> Generations \cup {NoGeneration}]
  BY <1>1 DEF TypeOK, NoLaunch
<1>4. \/ record.phase = "publisher-stopped" /\ ~enabled
      \/ /\ record.phase = "rollback-target-stopped" /\ ~record.prior /\ ~enabled
         /\ launch' = NoLaunch
  BY <1>1 DEF RestoreOff, ChoiceOK
<1>5. ControllerOK'
  BY <1>1, <1>2, <1>4 DEF ControllerOK, Pending
<1>6. ChoiceOK'
  BY <1>1, <1>2, <1>4 DEF ChoiceOK, Pending, NoRecord, NoLaunch
<1> QED
  BY <1>1, <1>3, <1>4, <1>5, <1>6, ManagerMoves DEF TypeOK, Stopping

LEMMA BeforeClearKeeps == IInv /\ BeforeClear => IInv'
<1> SUFFICES ASSUME IInv, BeforeClear PROVE IInv'
  OBVIOUS
<1>1. /\ UNCHANGED <<record, enabled, unit, prov, admitting, gen, faults>> /\ TypeOK /\ ChoiceOK
      /\ Pending /\ GoOn("clear") /\ launch' = (IF Enabling THEN launch ELSE NoLaunch)
      /\ record.phase \in {"successor-ready", "manager-disabled", "prior-choice-restored"}
  BY DEF IInv, BeforeClear, counters, ControllerOK, Forward, Rollback
<1>2. ctl'.pc = "clear"
  BY <1>1, GoOnPlaces
<1>3. launch' \in [{"receipt", "environment"} -> Generations \cup {NoGeneration}]
  BY <1>1 DEF TypeOK, NoLaunch
<1>4. IF record.phase = "manager-disabled" THEN launch' = NoLaunch ELSE launch' = launch
  <2>1. record.kind \in Kinds /\ record.phase \in Course(record.kind, record.disposition)
    BY <1>1, RecordFields
  <2> QED
    BY <1>1, <2>1 DEF Course, Enabling, Kinds
<1>5. ControllerOK'
  BY <1>1, <1>2 DEF ControllerOK, Pending
<1>6. ChoiceOK'
  BY <1>1, <1>2, <1>4 DEF ChoiceOK, Pending, NoRecord, Launched, Settled, Launchable
<1> QED
  BY <1>1, <1>3, <1>5, <1>6, ManagerMoves DEF TypeOK, Stopping

-----------------------------------------------------------------------------
(***************************************************************************)
(* The controller, where the record moves                                   *)
(***************************************************************************)
\* The record moves; the manager and the providers stay.
LEMMA RecordMoves ==
  ASSUME IInv, UNCHANGED <<manager, prov, admitting>>, admitting = NoProvider \/ Pending,
         record' \in Records \cup {NoRecord},
         Pending' => record'.phase \in Course(record'.kind, record'.disposition),
         Rollback' => Enabling',
         gen' \in Generations, faults' \in 0..MaxFaults, ctl' \in Controllers,
         ControllerOK', ChoiceOK', \A p \in Providers : ProviderOK(p)'
  PROVE  IInv'
<1>1. TypeOK'
  BY DEF IInv, TypeOK, Owner, manager
<1> QED
  BY <1>1 DEF IInv, JobsAndTransitionsExclude

LEMMA PersistNewKeeps == IInv /\ PersistNew => IInv'
<1> SUFFICES ASSUME IInv, PersistNew PROVE IInv'
  OBVIOUS
<1> DEFINE new == [phase |-> "intent-recorded", kind |-> ctl.kind, disposition |-> "forward",
                   prior |-> ctl.prior, generation |-> gen + 1]
<1>1. /\ UNCHANGED <<manager, prov, admitting, faults>> /\ admitting = NoProvider /\ TypeOK
      /\ ChoiceOK /\ ctl.pc = "new" /\ ~Pending /\ gen <= MaxTransitions /\ ctl.prior = enabled
      /\ GoOn("run") /\ gen' = gen + 1 /\ record' = new
      /\ \A p \in Providers : ProviderOK(p)
  BY DEF IInv, PersistNew, ControllerOK
<1>2. ctl' \in Controllers /\ ctl'.pc = "run"
  BY <1>1, GoOnPlaces
<1>3. ctl.kind \in {"enable", "disable"} /\ ctl.prior \in BOOLEAN
  BY <1>1 DEF TypeOK, Controllers, Idle
<1>4. gen' \in Generations
  BY <1>1 DEF TypeOK, Generations
<1>5. "intent-recorded" \in Course(ctl.kind, "forward")
  BY <1>3 DEF Course
<1>6. "intent-recorded" \in Phases
  BY <1>3, <1>5, CoursePhases DEF Kinds, Dispositions
<1>7. /\ new \in Records /\ new.phase = "intent-recorded" /\ new.disposition = "forward"
      /\ new.prior = enabled /\ new # NoRecord
      /\ new.phase \in Course(new.kind, new.disposition)
  BY <1>1, <1>3, <1>4, <1>5, <1>6 DEF Records, NoRecord
<1> HIDE DEF new
<1>8. Pending' /\ ~Rollback' /\ Stopping'
  BY <1>1, <1>7 DEF Pending, Rollback, Stopping
<1>9. ControllerOK'
  BY <1>2, <1>8 DEF ControllerOK
<1>10. ChoiceOK'
  BY <1>1, <1>2, <1>7, <1>8 DEF ChoiceOK, Settled, Launchable, manager
<1>11. ASSUME NEW p \in Providers PROVE ProviderOK(p)'
  BY <1>1, <1>2, <1>8 DEF ProviderOK
<1> QED
  BY <1>1, <1>2, <1>4, <1>7, <1>8, <1>9, <1>10, <1>11, RecordMoves DEF TypeOK

\* The course is followed one phase at a time.
LEMMA NextPhaseOnCourse ==
  ASSUME TypeOK, Pending,
         ~InPhase({"successor-ready", "manager-disabled", "prior-choice-restored"})
  PROVE  /\ NextPhase(record.phase) \in Course(record.kind, record.disposition)
         /\ record.phase = "intent-recorded" =>
              NextPhase(record.phase) \in {"source-stopped", "publisher-stopped"}
         /\ record.phase = "source-stopped" => NextPhase(record.phase) = "manager-enabled"
         /\ record.phase = "manager-enabled" =>
              NextPhase(record.phase) = IF Rollback THEN "rollback-target-stopped"
                                        ELSE "successor-ready"
         /\ record.phase = "publisher-stopped" => NextPhase(record.phase) = "manager-disabled"
         /\ record.phase = "rollback-target-stopped" =>
              NextPhase(record.phase) = "prior-choice-restored"
         /\ record.phase \in {"intent-recorded", "source-stopped", "manager-enabled",
                              "publisher-stopped", "rollback-target-stopped"}
         /\ record.phase = "source-stopped" => ~Rollback
<1>1. /\ record.kind \in {"enable", "disable"} /\ record.disposition \in {"forward", "rollback"}
      /\ record.phase \in Course(record.kind, record.disposition)
      /\ Rollback => record.kind = "enable"
  BY RecordFields DEF Kinds, Dispositions
<1> QED
  BY <1>1 DEF NextPhase, Course, Rollback, Enabling

LEMMA PersistKeeps == IInv /\ Persist => IInv'
<1> SUFFICES ASSUME IInv, Persist PROVE IInv'
  OBVIOUS
<1> DEFINE f == NextPhase(record.phase)
           next == [record EXCEPT !.phase = f]
<1>1. /\ UNCHANGED <<manager, prov, admitting, gen, faults>> /\ admitting = NoProvider /\ TypeOK
      /\ ChoiceOK /\ ctl.pc = "persist" /\ Pending /\ GoOn("run") /\ record' = next
      /\ ~InPhase({"successor-ready", "manager-disabled", "prior-choice-restored"})
      /\ \A p \in Providers : ProviderOK(p)
  BY DEF IInv, Persist, ControllerOK, counters
<1>2. ctl' \in Controllers /\ ctl'.pc = "run"
  BY <1>1, GoOnPlaces
<1>3. /\ record.kind \in Kinds /\ record.disposition \in Dispositions
      /\ f \in Course(record.kind, record.disposition) /\ record \in Records
      /\ record.prior \in BOOLEAN
  BY <1>1, RecordFields, NextPhaseOnCourse
<1>4. f \in Phases
  BY <1>3, CoursePhases
<1>5. /\ next \in Records /\ next.phase = f /\ next.kind = record.kind
      /\ next.disposition = record.disposition /\ next.prior = record.prior
      /\ next.generation = record.generation /\ next # NoRecord
  BY <1>3, <1>4 DEF Records, NoRecord
<1>6. \/ record.phase = "intent-recorded" /\ f \in {"source-stopped", "publisher-stopped"}
      \/ record.phase = "source-stopped" /\ f = "manager-enabled" /\ ~Rollback
      \/ record.phase = "manager-enabled" /\ f = "rollback-target-stopped" /\ Rollback
      \/ record.phase = "manager-enabled" /\ f = "successor-ready" /\ ~Rollback
      \/ record.phase = "publisher-stopped" /\ f = "manager-disabled"
      \/ record.phase = "rollback-target-stopped" /\ f = "prior-choice-restored"
  BY <1>1, NextPhaseOnCourse
<1> HIDE DEF next, f
<1>7. /\ Pending' /\ (Rollback' <=> Rollback) /\ (Enabling' <=> Enabling)
      /\ record'.phase = f /\ record'.prior = record.prior
      /\ record'.generation = record.generation
  BY <1>1, <1>5 DEF Pending, Rollback, Enabling
<1>8. ControllerOK'
  BY <1>2, <1>7 DEF ControllerOK
<1>9. ChoiceOK'
  <2>1. /\ enabled' = enabled /\ launch' = launch /\ (Launched' <=> Launched)
        /\ (Settled' <=> Settled)
    BY <1>1, <1>7 DEF manager, Launched, Settled, Launchable
  <2>2. record.generation # NoGeneration /\ record.prior \in BOOLEAN
    BY <1>1, RecordFields
  <2>3. CASE f \in {"source-stopped", "publisher-stopped"}
    BY <1>2, <1>7, <2>3 DEF ChoiceOK
  <2>4. CASE f \in {"manager-enabled", "successor-ready", "rollback-target-stopped"}
    <3>1. enabled /\ Launched
      BY <1>1, <1>6, <2>4 DEF ChoiceOK
    <3> QED
      BY <1>2, <1>7, <2>1, <2>4, <3>1 DEF ChoiceOK
  <2>5. CASE f = "manager-disabled"
    <3>1. ~enabled
      BY <1>1, <1>6, <2>5 DEF ChoiceOK
    <3> QED
      BY <1>2, <1>7, <2>1, <2>5, <3>1 DEF ChoiceOK
  <2>6. CASE f = "prior-choice-restored"
    <3>1. IF record.prior THEN enabled /\ Launched ELSE ~enabled /\ launch = NoLaunch
      BY <1>1, <1>6, <2>6 DEF ChoiceOK
    <3>2. Settled /\ (enabled <=> record.prior)
      BY <2>2, <3>1 DEF Settled, Launched, Launchable, LaunchOf
    <3>3. enabled = record.prior
      BY <1>1, <2>2, <3>2 DEF TypeOK
    <3> QED
      BY <1>2, <1>7, <2>1, <2>6, <3>2, <3>3 DEF ChoiceOK
  <2> QED
    BY <1>6, <2>3, <2>4, <2>5, <2>6
<1>10. ~Stopping'
  BY <1>6, <1>7 DEF Stopping
<1>11. ASSUME NEW p \in Providers PROVE ProviderOK(p)'
  BY <1>1, <1>2, <1>7, <1>10 DEF ProviderOK
<1> QED
  BY <1>1, <1>2, <1>3, <1>5, <1>7, <1>8, <1>9, <1>11, RecordFields, RecordMoves
     DEF TypeOK, Enabling

LEMMA NotReadyKeeps == IInv /\ NotReady => IInv'
<1> SUFFICES ASSUME IInv, NotReady PROVE IInv'
  OBVIOUS
<1> DEFINE back == [record EXCEPT !.disposition = "rollback"]
<1>1. /\ UNCHANGED <<manager, ctl, prov, admitting, gen>> /\ faults' \in 0..MaxFaults /\ TypeOK
      /\ ChoiceOK /\ ctl.pc = "run" /\ Pending /\ Forward /\ record.phase = "manager-enabled"
      /\ record' = back /\ JobsAndTransitionsExclude /\ \A p \in Providers : ProviderOK(p)
  BY DEF IInv, NotReady, Fault, Forward, TypeOK
<1>2. record \in Records /\ record.phase \in Course(record.kind, record.disposition)
      /\ record.kind \in {"enable", "disable"}
  BY <1>1, RecordFields DEF Kinds
<1>3. record.kind = "enable" /\ "manager-enabled" \in Course("enable", "rollback")
  BY <1>1, <1>2 DEF Course
<1>4. /\ back \in Records /\ back.phase = "manager-enabled" /\ back.kind = "enable"
      /\ back.disposition = "rollback" /\ back.generation = record.generation /\ back # NoRecord
  BY <1>1, <1>2, <1>3 DEF Records, NoRecord
<1> HIDE DEF back
<1>5. Pending' /\ Rollback' /\ Enabling' /\ Stopping'
  BY <1>1, <1>4 DEF Pending, Rollback, Enabling, Stopping
<1>6. ControllerOK'
  BY <1>1, <1>5 DEF ControllerOK
<1>7. ChoiceOK'
  BY <1>1, <1>4, <1>5 DEF ChoiceOK, Launched, manager
<1>8. ASSUME NEW p \in Providers PROVE ProviderOK(p)'
  BY <1>1, <1>5 DEF ProviderOK
<1> QED
  BY <1>1, <1>3, <1>4, <1>5, <1>6, <1>7, <1>8, RecordMoves DEF TypeOK

\* Where a course ends the manager's choice is the one it decided on.
LEMMA CourseEnds ==
  ASSUME IInv, Controls("clear") PROVE Pending /\ Settled /\ enabled = Decided
<1>1. /\ TypeOK /\ ChoiceOK /\ Pending
      /\ record.phase \in {"successor-ready", "manager-disabled", "prior-choice-restored"}
  BY DEF IInv, ControllerOK
<1>2. /\ record.kind \in {"enable", "disable"} /\ record.disposition \in {"forward", "rollback"}
      /\ record.phase \in Course(record.kind, record.disposition)
      /\ record.generation # NoGeneration /\ (Rollback => record.kind = "enable")
  BY <1>1, RecordFields DEF Kinds, Dispositions
<1>3. CASE record.phase = "successor-ready"
  <2>1. record.kind = "enable" /\ ~Rollback
    BY <1>2, <1>3 DEF Course, Rollback
  <2>2. enabled /\ Launched
    BY <1>1, <1>3 DEF ChoiceOK
  <2> QED
    BY <1>1, <1>2, <2>1, <2>2 DEF Settled, Launched, Launchable, LaunchOf, Decided, Enabling, TypeOK
<1>4. CASE record.phase = "manager-disabled"
  <2>1. record.kind # "enable" /\ ~Rollback
    BY <1>2, <1>4 DEF Course, Rollback
  <2>2. ~enabled /\ launch = NoLaunch
    BY <1>1, <1>4 DEF ChoiceOK
  <2> QED
    BY <1>1, <2>1, <2>2 DEF Settled, Decided, Enabling, TypeOK
<1>5. CASE record.phase = "prior-choice-restored"
  <2>1. Rollback
    BY <1>1, <1>2, <1>5 DEF Course, Rollback
  <2>2. Settled /\ enabled = record.prior
    BY <1>1, <1>5 DEF ChoiceOK
  <2> QED
    BY <1>1, <2>1, <2>2 DEF Decided
<1> QED
  BY <1>1, <1>3, <1>4, <1>5

LEMMA ClearKeeps == IInv /\ Clear => IInv'
<1> SUFFICES ASSUME IInv, Clear PROVE IInv'
  OBVIOUS
<1>1. /\ UNCHANGED <<manager, prov, admitting, gen, faults>> /\ TypeOK /\ admitting = NoProvider
      /\ ctl.pc = "clear" /\ ctl' = Idle /\ record' = NoRecord /\ Settled
      /\ \A p \in Providers : ProviderOK(p)
  BY CourseEnds DEF IInv, Clear, counters
<1>2. ~Pending' /\ ~Rollback' /\ record'.phase = "none" /\ ctl' \in Controllers /\ ctl'.pc = "idle"
  BY <1>1 DEF Pending, Rollback, NoRecord, Idle, Controllers
<1>3. ControllerOK'
  BY <1>2 DEF ControllerOK
<1>4. ChoiceOK'
  BY <1>1, <1>2 DEF ChoiceOK, Settled, Launchable, manager
<1>5. ASSUME NEW p \in Providers PROVE ProviderOK(p)'
  BY <1>1, <1>2 DEF ProviderOK
<1> QED
  BY <1>1, <1>2, <1>3, <1>4, <1>5, RecordMoves DEF TypeOK

LEMMA RebootKeeps == IInv /\ Reboot => IInv'
<1> SUFFICES ASSUME IInv, Reboot PROVE IInv'
  OBVIOUS
<1>1. /\ UNCHANGED <<record, enabled, launch, gen>> /\ TypeOK /\ ChoiceOK /\ ctl' = Idle
      /\ admitting' = NoProvider /\ prov' = [p \in Providers |-> Off] /\ unit' = enabled
      /\ faults' \in 0..MaxFaults
  BY DEF IInv, Reboot, Fault, TypeOK
<1>2. ctl' \in Controllers /\ ctl'.pc = "idle"
  BY <1>1 DEF Idle, Controllers
<1>3. /\ prov' \in [Providers -> ProviderStates]
      /\ \A p \in Providers : prov'[p].pc = "off" /\ prov'[p].generation = NoGeneration
  BY <1>1 DEF Off, ProviderStates
<1>4. TypeOK'
  BY <1>1, <1>2, <1>3 DEF TypeOK, Pending, Rollback, Enabling, Owner
<1>5. ControllerOK'
  BY <1>2 DEF ControllerOK
<1>6. ChoiceOK'
  BY <1>1, <1>2 DEF ChoiceOK, Pending, Settled, Launched, Launchable
<1>7. ASSUME NEW p \in Providers PROVE ProviderOK(p)'
  BY <1>2, <1>3 DEF ProviderOK, Checked
<1> QED
  BY <1>1, <1>4, <1>5, <1>6, <1>7 DEF IInv, JobsAndTransitionsExclude

-----------------------------------------------------------------------------
(***************************************************************************)
(* Every step                                                               *)
(***************************************************************************)
LEMMA NextKeeps == IInv /\ [Next]_vars => IInv'
<1> SUFFICES ASSUME IInv, [Next]_vars PROVE IInv'
  OBVIOUS
<1>1. ASSUME NEW kind \in {"enable", "disable"}, Begin(kind) PROVE IInv'
  BY <1>1, BeginKeeps DEF Kinds
<1>2. ASSUME Attempt PROVE IInv'
  BY <1>2, PersistNewKeeps, IdleKeeps, StopPublishersKeeps, AwaitOwnerKeeps, WriteReceiptKeeps,
     WriteEnvironmentKeeps, EnableUnitKeeps, DisableUnitKeeps, DisabledKeeps, PersistKeeps,
     ReadyKeeps, BeforeClearKeeps, ClearKeeps DEF Attempt
<1>3. ASSUME NEW p \in Providers, Open(p) \/ Starting(p) \/ AdmitJob(p) \/ JobAdmitted(p)
      PROVE  IInv'
  BY <1>3, OpenKeeps, StartingKeeps, AdmittingKeeps
<1>4. CASE UNCHANGED vars
  <2>1. /\ UNCHANGED <<record, enabled, unit, launch, ctl, prov, admitting, gen, faults>>
        /\ TypeOK /\ ControllerOK /\ ChoiceOK /\ \A p \in Providers : ProviderOK(p)
    BY <1>4 DEF IInv, vars, manager, counters
  <2>2. TypeOK'
    BY <2>1 DEF TypeOK, Pending, Rollback, Enabling, Owner
  <2>3. ControllerOK' /\ ChoiceOK'
    BY <2>1 DEF ControllerOK, ChoiceOK, Pending, Forward, Rollback, Stopping, RestoreOff, Settled,
       Launched, Launchable
  <2>4. \A p \in Providers : ProviderOK(p)'
    BY <2>1 DEF ProviderOK, Pending, Rollback, Enabling, Stopping
  <2> QED
    BY <2>1, <2>2, <2>3, <2>4 DEF IInv, JobsAndTransitionsExclude, Pending
<1> QED
  BY <1>1, <1>2, <1>3, <1>4, IdleKeeps, NotReadyKeeps, EndingKeeps, RebootKeeps DEF Next

LEMMA AlwaysIInv == Spec => []IInv
BY Initially, NextKeeps, PTL DEF Spec

-----------------------------------------------------------------------------
(***************************************************************************)
(* Theorems                                                                 *)
(***************************************************************************)
\* The record stays on the course of its kind, and one provider owns the store at most.
THEOREM ControlTypeCorrect == Spec => []TypeOK
BY AlwaysIInv, PTL DEF IInv

\* enter_job_admission and the writing of a record exclude each other over processes.
THEOREM JobsWaitForTransitions == Spec => []JobsAndTransitionsExclude
BY AlwaysIInv, PTL DEF IInv

\* However late a provider wakes up, it does not serve against a record that has stopped it
\* (admitted_transition_child, looked at before each registration).
THEOREM StoppedStays == Spec => []StoppedMeansStopped
<1>1. IInv => StoppedMeansStopped
  BY RecordFields DEF IInv, ProviderOK, StoppedMeansStopped, Stopping, Stands, Checked
<1> QED
  BY <1>1, AlwaysIInv, PTL

\* Whatever was interrupted, without a record the enabled service can start, and a disabled
\* one leaves no launch files.
THEOREM ChoiceSettles == Spec => []SettledChoice
<1>1. IInv => SettledChoice
  BY DEF IInv, ChoiceOK, SettledChoice, Settled
<1> QED
  BY <1>1, AlwaysIInv, PTL

\* A transition ends with the choice it decided on, over all its attempts.
THEOREM OutcomeIsTheChoice == Spec => ChoiceFollowsOutcome
<1>1. IInv /\ [Next]_vars => [Pending /\ ~Pending' => enabled = Decided]_vars
  <2> SUFFICES ASSUME IInv, [Next]_vars, Pending, ~Pending' PROVE enabled = Decided
    OBVIOUS
  <2>1. CASE Clear
    BY <2>1, CourseEnds DEF Clear
  <2>2. CASE ~Clear
    <3>1. UNCHANGED record \/ Persist \/ NotReady
      BY <2>2 DEF Next, vars, Begin, Resume, Attempt, GiveUp, Open, Starting, AdmitJob, JobAdmitted,
         Close, Die, Reboot, PersistNew, TurnedAway, StopPublishers, NotStopped, AwaitOwner, WriteReceipt,
         WriteEnvironment, EnableUnit, DisableUnit, Disabled, Ready, BeforeClear, Own, CheckFirst,
         PublishFirst, CheckSecond, PublishSecond, Leave, Others, IInv, ControllerOK
    <3>2. record \in Records
      BY RecordFields DEF IInv
    <3>3. record'.phase = record.phase \/ Persist \/ NotReady
      BY <3>1
    <3> QED
      BY <3>1, <3>2 DEF Pending, Persist, NotReady, Records, NoRecord
  <2> QED
    BY <2>1, <2>2
<1> QED
  BY <1>1, AlwaysIInv, PTL DEF Spec, ChoiceFollowsOutcome
=============================================================================
