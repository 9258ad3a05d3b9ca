------------------------- MODULE PackageControlProofs -------------------------
(***************************************************************************)
(* Proofs about PackageControl, for any users, versions, generations,       *)
(* logins and faults.                                                       *)
(***************************************************************************)
EXTENDS PackageControl, TLAPS, WellFoundedInduction

USE UsersAssumption, BoundsAssumption

-----------------------------------------------------------------------------
(* Where a command stands, and what it has found by then.                    *)

Finishes == {"settle", "examine", "restore", "await", "relock", "receipt", "retire", "forget", "clear"}
Stops == {"copy", "stop", "suppress", "stopped"}

\* The places each command passes. It meets no removal to finish in prepare-reinstall, because
\* dpkg installs anew only after postrm has succeeded.
Course(cmd) ==
  CASE cmd = "none" -> {"idle"}
    [] cmd = "prepare-remove" -> {"begin", "record", "unmark", "done"} \cup Stops
    [] cmd = "abort-remove" -> {"begin", "unmark", "done"} \cup Finishes
    [] cmd = "finish-remove" -> {"begin", "done"} \cup Finishes
    [] cmd = "recover-install" -> {"begin", "done"} \cup Finishes
    [] cmd = "finish-purge" -> {"begin", "unmark", "empty", "acks", "receipts", "cleared",
                                "controllers", "done"} \cup Stops
    [] cmd = "adopt-bootstrap" -> {"begin", "record", "adopt", "dequarantine", "unmark",
                                   "done"} \cup Stops
    [] cmd = "prepare-reinstall" -> {"begin", "reinstall", "adopt-controller", "done"}
    [] cmd = "preinst-upgrade" -> {"begin", "wrap", "terminate", "quiesced", "done"}
    [] cmd = "abort-upgrade" -> {"begin", "unquarantine", "unmark", "done"}
OnCourse == ctl.at \in Course(ctl.cmd) /\ (ctl.cmd = "none" => ctl = Idle)

\* The record a command works on is of the kind the command is for.
RecordIs(kinds, rollback) == op # None /\ op.kind \in kinds /\ op.rollback = rollback
RecordFits ==
  /\ ctl.at \in {"copy", "stop", "suppress", "stopped", "adopt"} => op # None
  /\ ctl.cmd = "prepare-remove" /\ ctl.at \notin {"begin", "record"} => RecordIs({"remove"}, FALSE)
  /\ ctl.cmd = "finish-remove" /\ ctl.at \in Finishes => RecordIs({"remove"}, FALSE)
  /\ ctl.cmd = "recover-install" /\ ctl.at \in Finishes => op # None /\ op.kind \in {"upgrade", "reinstall"}
  /\ ctl.cmd = "abort-remove" /\ ctl.at \in Finishes => RecordIs({"remove"}, TRUE)
  /\ ctl.cmd = "abort-remove" /\ ctl.at = "unmark" => op = None \/ RecordIs({"remove"}, TRUE)
  /\ ctl.cmd = "finish-purge" /\ ctl.at # "begin" => op = None \/ op.kind = "purge"
  /\ ctl.cmd = "prepare-reinstall" /\ ctl.at = "reinstall" => op = None \/ op.kind = "reinstall"
  /\ ctl.at = "adopt-controller" => op # None /\ op.kind = "reinstall"
  /\ ctl.cmd = "prepare-reinstall" /\ ctl.at = "done" => op # None /\ op.kind = "reinstall"
  /\ ctl.cmd = "finish-remove" /\ ctl.at = "done" => op = None

\* So is the intent.
IntentFits ==
  /\ ctl.at \in {"record", "wrap", "terminate", "quiesced", "unquarantine"} => intent # None
  /\ ctl.cmd = "prepare-remove" /\ ctl.at = "record" => intent.kind = "remove"
  /\ ctl.cmd = "adopt-bootstrap" /\ ctl.at # "done" => intent # None
  /\ ctl.cmd = "adopt-bootstrap" /\ ctl.at \notin {"begin", "done"} =>
       intent.boot \in {"quiesced", "adopted"}
  /\ ctl.at \in {"wrap", "terminate", "quiesced"} => intent.kind = "upgrade"

\* The phase of the record, and whom the command still has to stop or to settle.
ProgressFits ==
  /\ ctl.at \in {"stop", "suppress"} => op.phase = "intent" /\ ctl.left \subseteq Everyone
  /\ ctl.at = "suppress" => ctl.left # {}
  /\ ctl.at \in {"stopped", "adopt", "dequarantine"} => op.phase # "intent"
  /\ ctl.cmd = "prepare-remove" /\ ctl.at \in {"unmark", "done"} => op.phase # "intent"
  /\ ctl.at \in {"examine", "restore", "await", "relock"} => op.phase = "settling" /\ ctl.left = Unsettled
  /\ ctl.at \in {"restore", "await", "relock"} => ctl.left # {} /\ Restoring
  /\ ctl.at \in {"receipt", "retire", "forget", "clear"} =>
       op.phase \in {"settling", "finalizing"} /\ Unsettled = {}

\* What is to be settled, as the choice is.
OutcomeFits ==
  LET u == First(ctl.left) IN
  /\ ctl.at = "await" => op.who[u].choice /\ ctl.got = "ready"
  /\ ctl.at = "relock" => /\ ctl.got \in {"disabled", "deferred", "ready"}
                          /\ ctl.got = "disabled" <=> ~op.who[u].choice

\* There is a generation for whoever is going to begin one, and a version to upgrade to.
RoomLeft ==
  /\ ctl.cmd \in {"prepare-remove", "preinst-upgrade"} /\ ctl.at = "begin" /\ intent = None => Room
  /\ ctl.cmd = "prepare-reinstall" /\ op = None => Room
  /\ ctl.cmd = "preinst-upgrade" \/ binary = "wrapper" => dpkg.version < LastVersion

-----------------------------------------------------------------------------
(* What dpkg's status says of the program and the record.                    *)

\* The statuses in which dpkg runs a command.
StatusesFor(cmd) ==
  CASE cmd = "prepare-remove" -> {"installed", "half-configured"}
    [] cmd = "abort-remove" -> {"prerm-failed", "half-configured", "installed"}
    [] cmd = "finish-remove" -> {"removing"}
    [] cmd = "finish-purge" -> {"removing", "removed"}
    [] cmd \in {"adopt-bootstrap", "recover-install"} -> {"unpacked", "half-configured", "installed"}
    [] cmd = "prepare-reinstall" -> {"removed", "absent"}
    [] cmd = "preinst-upgrade" -> {"installed", "half-configured", "preinst-failed"}
    [] cmd = "abort-upgrade" -> {"preinst-failed"}
    [] OTHER -> Statuses

StatusFits ==
  /\ dpkg.status \in StatusesFor(ctl.cmd)
  /\ ctl.cmd \in {"finish-remove", "finish-purge"} => binary = "none"
  /\ dpkg.status \in {"removed", "absent"} => /\ binary = "none"
                                              /\ op = None \/ op.kind \in {"reinstall", "purge"}
  /\ dpkg.status \notin {"removing", "removed", "absent", "unpacking"} => binary # "none"
  /\ dpkg.status = "removing" /\ binary # "none" => RecordIs({"remove"}, FALSE) /\ op.phase # "intent"
  /\ dpkg.status = "unpacking" /\ binary = "none" => IF op = None THEN removed = None ELSE op.kind = "reinstall"
  /\ op # None /\ op.kind = "purge" => binary = "none"

-----------------------------------------------------------------------------
(* Who runs.                                                                 *)

SharedExcluded == ctl.at \notin {"idle", "restore", "await", "relock"} => ~SharedHeld
RunnersKnown == \A u \in Users :
  /\ prov[u] # "off" => session[u] # 0
  /\ prov[u] \in {"serving", "admitting"} \/ u \in halted => ack[u] # None \/ u \in overlooked
\* A discovery that passed over a transition found its account unfit.
TransitionsOverlooked == op # None \/ binary = "none" => halted \subseteq overlooked
StartsAwaited == \A u \in Users :
  prov[u] = "starting" =>
    \/ Unbarred
    \/ /\ intent = None /\ op # None /\ Restoring /\ op.phase = "settling"
       /\ u \in Everyone /\ op.who[u].choice /\ op.who[u].settled = "pending"
RunnersStop ==
  /\ op # None /\ op.phase = "intent" => \A u \in Users : Running(u) => u \in Everyone
  /\ ctl.at \in {"stop", "suppress"} => \A u \in Users : Running(u) => u \in ctl.left
QuietPlaces == ctl.at = "quiesced" => \A u \in Users : prov[u] = "off"

-----------------------------------------------------------------------------
(* What is known of the users' choices.                                      *)

LinksSuppressed ==
  /\ binary = "none" => \A u \in Users \ overlooked : ~link[u]
  /\ op # None /\ op.phase # "intent" /\ ~Restoring => \A u \in Users \ overlooked : ~link[u]
  /\ op # None /\ op.phase = "stopped" => \A u \in Users \ overlooked : ~link[u]
LinksStop ==
  op # None /\ op.phase = "intent" => \A u \in Users \ overlooked : link[u] => u \in Everyone
LinksLeft ==
  ctl.at \in {"stop", "suppress"} => \A u \in Users \ overlooked : link[u] => u \in ctl.left
LinksKnown ==
  /\ \A u \in Users \ overlooked : link[u] => ack[u] # None
  /\ op # None /\ op.kind # "purge" => \A u \in Everyone : ack[u] # None
  /\ removed # None /\ ~Forgetting => \A u \in DOMAIN removed.who : ack[u] # None

ReceiptFits ==
  /\ removed # None => binary = "none" \/ (op # None /\ op.kind = "reinstall")
  /\ op # None /\ op.kind = "reinstall" /\ removed # None => DOMAIN removed.who \subseteq Everyone
ReceiptWritten ==
  /\ ctl.at \in {"receipt", "retire", "forget", "clear"} /\ RecordIs({"remove"}, FALSE) =>
       removed = [generation |-> op.generation, version |-> op.target, who |-> op.who]
  /\ ctl.at = "clear" /\ op.kind = "reinstall" => removed = None

\* Nobody is settled before the settlement, and who is settled has the link he chose.
SettledAsChosen ==
  op # None =>
    /\ op.phase \in {"intent", "stopped"} => \A u \in Everyone : op.who[u].settled = "pending"
    /\ ~Forgetting /\ op.phase \in {"settling", "finalizing"} /\ Restoring =>
         \A u \in Everyone \ usurped : op.who[u].settled # "pending" => link[u] = op.who[u].choice

\* An acknowledgement tells the choice, unless its user is still to be settled.
AcksTell ==
  op # None /\ ~Forgetting => \A u \in Users \ (usurped \cup halted) : ack[u] # None =>
    \/ ack[u].choice = wish[u]
    \/ /\ Restoring /\ op.phase \in {"settling", "finalizing"}
       /\ u \in Everyone /\ op.who[u].choice /\ op.who[u].settled = "pending"
Purged == /\ ctl.at \in {"receipts", "cleared"} =>
               overlooked \subseteq usurped /\ \A u \in Users \ usurped : ack[u] = None /\ ~wish[u]
          /\ ctl.at = "cleared" => removed = None

-----------------------------------------------------------------------------
(* Records and participants.                                                 *)

LEMMA NoneApart ==
  /\ None \notin Intents /\ None \notin Operations
  /\ None \notin RemovalReceipts /\ None \notin InstallReceipts
  /\ None \notin [choice : BOOLEAN, runtime : Sessions]
<1> QED
  BY DEF None, Intents, Operations, RemovalReceipts, InstallReceipts

\* The first of some users is one of them.
LEMMA FirstIsOne ==
  ASSUME NEW S \in SUBSET Users, S # {}
  PROVE  First(S) \in S
<1>1. PICK u \in S : \A v \in S : <<v, u>> \notin OpToRel(<, Nat)
  BY WFMin, NatLessThanWellFounded, Zenon
<1>2. \A v \in S : u <= v
  <2>1. ASSUME NEW v \in S PROVE ~(v < u)
    BY <1>1, Zenon DEF OpToRel
  <2> QED
    BY <2>1
<1> QED
  BY <1>2 DEF First

LEMMA WhoTyped ==
  ASSUME op \in Operations
  PROVE  op.who \in [Everyone -> Participants] /\ Everyone \subseteq Users
<1>1. op # None
  BY NoneApart
<1>2. PICK S \in SUBSET Users : op.who \in [S -> Participants]
  BY DEF Operations, ParticipantLists
<1> QED
  BY <1>1, <1>2 DEF Everyone

LEMMA ListTyped ==
  ASSUME NEW S \in SUBSET Users, NEW who \in [S -> Participants]
  PROVE  who \in ParticipantLists
BY DEF ParticipantLists

\* A new list of participants leaves the rest of the record alone.
LEMMA WhoWritten ==
  ASSUME op \in Operations, NEW who \in ParticipantLists
  PROVE  LET new == [op EXCEPT !.who = who] IN
         /\ new \in Operations /\ new # None
         /\ new.who = who /\ new.kind = op.kind /\ new.rollback = op.rollback
         /\ new.phase = op.phase /\ new.generation = op.generation
         /\ new.source = op.source /\ new.target = op.target /\ new.predecessor = op.predecessor
<1> DEFINE new == [op EXCEPT !.who = who]
<1>1. new \in Operations
  BY DEF Operations
<1>2. new # None
  BY <1>1, NoneApart
<1>3. new.who = who /\ new.kind = op.kind /\ new.rollback = op.rollback
  BY DEF Operations
<1>4. new.phase = op.phase /\ new.generation = op.generation
  BY DEF Operations
<1>5. new.source = op.source /\ new.target = op.target /\ new.predecessor = op.predecessor
  BY DEF Operations
<1> QED
  BY <1>1, <1>2, <1>3, <1>4, <1>5

\* The record new is of the same operation as op.
SameOrder(new) ==
  /\ new \in Operations /\ new # None
  /\ new.generation = op.generation /\ new.kind = op.kind /\ new.rollback = op.rollback
  /\ new.source = op.source /\ new.target = op.target /\ new.predecessor = op.predecessor

LEMMA PhaseWritten ==
  ASSUME op \in Operations, NEW ph \in {"intent", "stopped", "settling", "finalizing"}
  PROVE  LET new == [op EXCEPT !.phase = ph] IN
         SameOrder(new) /\ new.phase = ph /\ new.who = op.who
<1> DEFINE new == [op EXCEPT !.phase = ph]
<1>1. new \in Operations
  BY DEF Operations
<1>2. new # None
  BY <1>1, NoneApart
<1>3. new.who = op.who /\ new.kind = op.kind /\ new.rollback = op.rollback /\ new.phase = ph
  BY DEF Operations
<1>4. new.generation = op.generation /\ new.source = op.source
  BY DEF Operations
<1>5. new.target = op.target /\ new.predecessor = op.predecessor
  BY DEF Operations
<1> QED
  BY <1>1, <1>2, <1>3, <1>4, <1>5 DEF SameOrder

LEMMA ParticipantWritten ==
  ASSUME op \in Operations, NEW u \in Everyone, NEW p \in Participants
  PROVE  LET new == [op EXCEPT !.who[u] = p] IN
         /\ SameOrder(new) /\ new.phase = op.phase
         /\ new.who = [op.who EXCEPT ![u] = p] /\ DOMAIN new.who = Everyone
<1> DEFINE who == [op.who EXCEPT ![u] = p]
           new == [op EXCEPT !.who = who]
<1>1. who \in [Everyone -> Participants] /\ Everyone \subseteq Users
  BY WhoTyped
<1>2. who \in ParticipantLists
  BY <1>1, ListTyped
<1>3. [op EXCEPT !.who[u] = p] = new
  OBVIOUS
<1> HIDE DEF who
<1>4. SameOrder(new) /\ new.phase = op.phase /\ new.who = who
  BY <1>2, WhoWritten DEF SameOrder
<1>5. DOMAIN who = Everyone
  BY <1>1
<1> QED
  BY <1>3, <1>4, <1>5 DEF who

LEMMA RefreshedTyped ==
  ASSUME op \in Operations, NEW u \in Everyone, session \in [Users -> Sessions]
  PROVE  /\ Refreshed(u) \in Participants /\ op.who[u] \in Participants
         /\ Refreshed(u).choice = op.who[u].choice /\ Refreshed(u).settled = op.who[u].settled
         /\ \A s \in Settlements : LET p == [Refreshed(u) EXCEPT !.settled = s] IN
              p \in Participants /\ p.choice = op.who[u].choice /\ p.settled = s
<1>1. op.who[u] \in Participants /\ u \in Users
  BY WhoTyped
<1> QED
  BY <1>1 DEF Refreshed, Participants

LEMMA DiscoveredTyped ==
  ASSUME ack \in [Users -> [choice : BOOLEAN, runtime : Sessions] \cup {None}],
         session \in [Users -> Sessions]
  PROVE  /\ Discovered \in ParticipantLists
         /\ DOMAIN Discovered = Discovering
         /\ \A u \in DOMAIN Discovered : /\ Discovered[u].choice = ack[u].choice
                                         /\ Discovered[u].settled = "pending"
<1>1. Discovered \in [Discovering -> Participants]
  BY DEF Discovered, Discovering, Participants, Settlements
<1>2. Discovered \in ParticipantLists
  BY <1>1, ListTyped DEF Discovering
<1> QED
  BY <1>2 DEF Discovered, Discovering

LEMMA OperationBegun ==
  ASSUME ack \in [Users -> [choice : BOOLEAN, runtime : Sessions] \cup {None}],
         session \in [Users -> Sessions], NEW i \in Intents
  PROVE  LET new == NewOperation(i) IN
         /\ new \in Operations /\ new # None
         /\ new.who = Discovered /\ new.phase = "intent" /\ new.kind = i.kind /\ ~new.rollback
         /\ new.generation = i.generation /\ new.source = i.source /\ new.target = i.target
<1>1. NewOperation(i) \in Operations
  <2>1. i.generation \in Generations /\ i.kind \in Kinds /\ i.source \in Versions /\ i.target \in Versions
    BY DEF Intents, Kinds
  <2>2. Discovered \in ParticipantLists
    BY DiscoveredTyped
  <2>3. NoGeneration \in Generations
    BY DEF NoGeneration, Generations
  <2> QED
    BY <2>1, <2>2, <2>3 DEF NewOperation, Operations
<1>2. NewOperation(i) # None
  BY <1>1, NoneApart
<1> QED
  BY <1>1, <1>2 DEF NewOperation

-----------------------------------------------------------------------------
(* Commands keep to their course.                                            *)

Command == /\ OnCourse /\ RecordFits /\ IntentFits /\ ProgressFits /\ OutcomeFits
           /\ RoomLeft /\ StatusFits
Sound == TypeOK /\ Command

\* The command ends in failure: the script exits, and dpkg takes notice.
Fails == /\ ctl # Idle /\ Leave(FALSE) /\ faults' \in 0..MaxFaults
         /\ UNCHANGED <<files, binary, quarantine, people, gen>>

LEMMA FailureIsSound ==
  ASSUME Sound, Fails
  PROVE  Sound'
<1> USE DEF Sound, Command
<1>1. ctl' = Idle /\ dpkg'.status = StatusAfter(ctl.cmd, FALSE) /\ dpkg'.version = dpkg.version
  BY DEF Fails, Leave, TypeOK
<1>2. UNCHANGED <<intent, op, removed, install, controllers, binary, quarantine, link, ack, session,
                  prov, logins, wish, usurped, hidden, halted, overlooked, gen>>
  BY DEF Fails, files, people
<1>3. StatusAfter(ctl.cmd, FALSE) \in Statuses
  BY DEF StatusAfter, Statuses, TypeOK
<1>4. TypeOK'
  <2>1. dpkg' \in [status : Statuses, version : Versions]
    BY <1>3 DEF Fails, Leave, TypeOK
  <2>2. ctl' \in [cmd : Commands \cup {"none"}, at : Places \cup {"idle"}, left : SUBSET Users,
                  got : Settlements]
    BY <1>1 DEF Idle, Settlements
  <2> QED
    BY <1>2, <2>1, <2>2 DEF TypeOK, Fails
<1>5. (OnCourse /\ RecordFits /\ IntentFits /\ ProgressFits /\ OutcomeFits)'
  BY <1>1 DEF Idle, OnCourse, Course, RecordFits, IntentFits, ProgressFits, OutcomeFits, Finishes
<1>6. RoomLeft'
  BY <1>1, <1>2 DEF Idle, RoomLeft
<1>7. StatusFits'
  BY <1>1, <1>2, <1>3 DEF Idle, StatusFits, StatusAfter, StatusesFor, Statuses, RecordIs, Fails, OnCourse, Course, TypeOK, Commands
<1> QED
  BY <1>4, <1>5, <1>6, <1>7

\* The parts of the typing, as steps write them.
CtlTyped == ctl \in [cmd : Commands \cup {"none"}, at : Places \cup {"idle"}, left : SUBSET Users,
                     got : Settlements]
PeopleTyped ==
  /\ link \in [Users -> BOOLEAN] /\ wish \in [Users -> BOOLEAN] 
  /\ usurped \subseteq Users /\ hidden \subseteq Users
  /\ halted \subseteq Users /\ overlooked \subseteq Users
  /\ ack \in [Users -> [choice : BOOLEAN, runtime : Sessions] \cup {None}]
  /\ session \in [Users -> Sessions] /\ logins \in Sessions
  /\ prov \in [Users -> {"off", "starting", "serving", "admitting"}]
FilesTyped ==
  /\ intent \in Intents \cup {None} /\ op \in Operations \cup {None}
  /\ removed \in RemovalReceipts \cup {None} /\ install \in InstallReceipts \cup {None}
  /\ controllers \subseteq Generations
SystemTyped ==
  /\ binary \in Programs \cup {"away", "wrapper", "none"} /\ quarantine \in Generations
  /\ dpkg \in [status : Statuses, version : Versions]
CountersTyped == gen \in Generations /\ faults \in 0..MaxFaults

LEMMA TypesOfParts ==
  TypeOK <=> CtlTyped /\ PeopleTyped /\ FilesTyped /\ SystemTyped /\ CountersTyped
BY DEF TypeOK, CtlTyped, PeopleTyped, FilesTyped, SystemTyped, CountersTyped

\* A command that goes on, and what it works on stays.
Goes(place) == /\ ctl'.at = place /\ ctl'.cmd = ctl.cmd /\ ctl'.got = ctl.got /\ ctl'.left = ctl.left
               /\ CtlTyped'
LEMMA GoesOn ==
  ASSUME CtlTyped, NEW place \in Places, Go(place)
  PROVE  Goes(place)
BY DEF Go, Goes, CtlTyped

\* Only the record, the intent or the receipts are written.
OnlyFiles == UNCHANGED <<system, people>> /\ faults' = faults
LEMMA FilesOnly ==
  ASSUME TypeOK, OnlyFiles, CtlTyped', FilesTyped', gen' \in Generations
  PROVE  TypeOK'
BY TypesOfParts DEF OnlyFiles, TypeOK, CtlTyped, FilesTyped, system, people

LEMMA MarkIsSound ==
  ASSUME Sound, Mark
  PROVE  Sound'
<1> USE DEF Sound, Command
<1>1. Goes("record") /\ ctl.cmd = "prepare-remove" /\ ctl.at = "begin"
  BY TypesOfParts, GoesOn DEF Mark, At, Places
<1>2. gen' \in Generations /\ gen' = gen + 1
  BY <1>1 DEF Mark, Fresh, RoomLeft, Room, TypeOK, Generations
<1>3. intent' \in Intents /\ intent' # None /\ intent'.kind = "remove" /\ intent'.boot = "none"
  <2>1. intent' \in Intents
    BY <1>1, <1>2 DEF Mark, NewIntent, Intents, Target, TypeOK
  <2> QED
    BY <2>1, NoneApart DEF Mark, NewIntent
<1>4. TypeOK'
  BY <1>1, <1>2, <1>3, FilesOnly DEF Mark, OnlyFiles, FilesTyped, TypeOK, Goes
<1>5. Command'
  BY <1>1, <1>3 DEF Mark, system, Goes, OnCourse, Course, Stops, Finishes, RecordFits, IntentFits, ProgressFits,
     OutcomeFits, RoomLeft, Room, StatusFits, StatusesFor, RecordIs
<1> QED
  BY <1>4, <1>5

LEMMA RefusalFails ==
  ASSUME TypeOK, Refuse, ctl # Idle
  PROVE  Fails
BY DEF Refuse, Fails, TypeOK

\* A step that only goes on writes no file.
LEMMA GoesOnTyped ==
  ASSUME TypeOK, NEW place \in Places, Go(place), UNCHANGED <<files, system, people, gen, faults>>
  PROVE  TypeOK' /\ Goes(place)
<1>1. Goes(place)
  BY TypesOfParts, GoesOn
<1> QED
  BY <1>1 DEF Goes, TypeOK, CtlTyped, files, system, people

LEMMA MarkAgainIsSound ==
  ASSUME Sound, MarkAgain
  PROVE  Sound'
<1> USE DEF Sound
<1>1. CASE Refuse
  BY <1>1, RefusalFails, FailureIsSound DEF MarkAgain, At, Idle
<1>2. CASE IntentMatches /\ Go("record") /\ UNCHANGED <<files, system, people, gen, faults>>
  <2>1. TypeOK' /\ Goes("record") /\ ctl.cmd = "prepare-remove" /\ ctl.at = "begin"
    BY <1>2, GoesOnTyped DEF MarkAgain, At, Places
  <2>2. Command'
    BY <1>2, <2>1 DEF MarkAgain, IntentMatches, Command, files, system, people, Goes, OnCourse, Course,
       Stops, Finishes, RecordFits, IntentFits, ProgressFits, OutcomeFits, RoomLeft, Room, StatusFits,
       StatusesFor, RecordIs
  <2> QED
    BY <2>1, <2>2
<1> QED
  BY <1>1, <1>2 DEF MarkAgain

LEMMA BeginAdoptionIsSound ==
  ASSUME Sound, BeginAdoption
  PROVE  Sound'
<1> USE DEF Sound
<1>1. CASE Refuse
  BY <1>1, RefusalFails, FailureIsSound DEF BeginAdoption, At, Idle
<1>2. CASE Adoptable /\ Go("record") /\ UNCHANGED <<files, system, people, gen, faults>>
  <2>1. TypeOK' /\ Goes("record") /\ ctl.cmd = "adopt-bootstrap" /\ ctl.at = "begin"
    BY <1>2, GoesOnTyped DEF BeginAdoption, At, Places
  <2>2. Command'
    BY <1>2, <2>1 DEF Adoptable, Command, files, system, people, Goes, OnCourse, Course,
       Stops, Finishes, RecordFits, IntentFits, ProgressFits, OutcomeFits, RoomLeft, Room, StatusFits,
       StatusesFor, RecordIs
  <2> QED
    BY <2>1, <2>2
<1> QED
  BY <1>1, <1>2 DEF BeginAdoption

LEMMA RecordIsSound ==
  ASSUME Sound, Record
  PROVE  Sound'
<1> USE DEF Sound
<1>1. ctl.cmd \in {"prepare-remove", "adopt-bootstrap"} /\ ctl.at = "record"
  BY DEF Record, At
<1>2. CASE Refuse
  BY <1>1, <1>2, RefusalFails, FailureIsSound DEF Idle
<1>3. CASE /\ op = None /\ op' = NewOperation(intent) /\ Go("copy")
           /\ overlooked' = (overlooked \cup hidden) \ Discovering
           /\ UNCHANGED <<intent, removed, install, controllers, system, link, ack, session, prov,
                          logins, wish, usurped, hidden, halted, gen, faults>>
  <2>1. Goes("copy")
    BY <1>3, TypesOfParts, GoesOn DEF Places
  <2>2. intent \in Intents /\ intent.kind # "purge"
    BY <1>1 DEF Command, IntentFits, TypeOK, Intents
  <2>3. /\ op' \in Operations /\ op' # None /\ op'.phase = "intent"
        /\ op'.kind = intent.kind /\ op'.rollback = FALSE
    <3>1. ~NewOperation(intent).rollback /\ NewOperation(intent).rollback \in BOOLEAN
      BY <2>2, OperationBegun DEF TypeOK, NewOperation
    <3> QED
      BY <1>3, <2>2, <3>1, OperationBegun DEF TypeOK
  <2>4. TypeOK'
    BY <1>3, <2>1, <2>3 DEF TypeOK, Goes, CtlTyped, system
  <2>5. (OnCourse /\ RecordFits)'
    BY <1>1, <1>3, <2>1, <2>3 DEF Command, Goes, OnCourse, Course, Stops, Finishes, RecordFits, IntentFits, RecordIs
  <2>6. (IntentFits /\ ProgressFits /\ OutcomeFits)'
    BY <1>1, <1>3, <2>1, <2>3 DEF Command, Goes, IntentFits, ProgressFits, OutcomeFits
  <2>7. RoomLeft'
    BY <1>1, <1>3, <2>1, <2>3 DEF Command, Goes, RoomLeft, Room, system
  <2>8. StatusFits'
    BY <1>1, <1>3, <2>1, <2>2, <2>3 DEF Command, Goes, StatusFits, StatusesFor, RecordIs, system
  <2> QED
    BY <2>4, <2>5, <2>6, <2>7, <2>8 DEF Command
<1>4. CASE op # None /\ Continues(intent) /\ Go("copy") /\ UNCHANGED <<files, system, people, gen, faults>>
  <2>1. TypeOK' /\ Goes("copy")
    BY <1>4, GoesOnTyped DEF Places
  <2>2. op.kind = intent.kind /\ op.rollback = FALSE
    BY <1>4 DEF Continues, Valid, TypeOK, Operations
  <2>3. Command'
    BY <1>1, <1>4, <2>1, <2>2 DEF Command, files, system, people, Goes, OnCourse, Course,
       Stops, Finishes, RecordFits, IntentFits, ProgressFits, OutcomeFits, RoomLeft, Room, StatusFits,
       StatusesFor, RecordIs
  <2> QED
    BY <2>1, <2>3
<1> QED
  BY <1>2, <1>3, <1>4 DEF Record

\* Which commands pass a place.
LEMMA CommandsByPlace ==
  ASSUME TypeOK, OnCourse
  PROVE  /\ ctl.at = "idle" \/ ctl.cmd = "none" => ctl = Idle
         /\ ctl.at \in Stops => ctl.cmd \in {"prepare-remove", "finish-purge", "adopt-bootstrap"}
         /\ ctl.at \in Finishes => ctl.cmd \in {"abort-remove", "finish-remove", "recover-install"}
         /\ ctl.at \in {"adopt", "dequarantine"} => ctl.cmd = "adopt-bootstrap"
         /\ ctl.at = "unmark" => ctl.cmd \in {"prepare-remove", "abort-remove", "finish-purge",
                                             "adopt-bootstrap", "abort-upgrade"}
         /\ ctl.at \in {"reinstall", "adopt-controller"} => ctl.cmd = "prepare-reinstall"
         /\ ctl.at \in {"empty", "acks", "receipts", "cleared", "controllers"} => ctl.cmd = "finish-purge"
         /\ ctl.at \in {"wrap", "terminate", "quiesced"} => ctl.cmd = "preinst-upgrade"
         /\ ctl.at = "unquarantine" => ctl.cmd = "abort-upgrade"
<1>1. ctl.cmd \in Commands \cup {"none"}
  BY DEF TypeOK
<1> QED
  BY <1>1 DEF OnCourse, Course, Stops, Finishes, Idle, Commands

LEMMA CopyIsSound ==
  ASSUME Sound, Copy
  PROVE  Sound'
<1> USE DEF Sound
<1>1. op # None /\ op \in Operations
  BY DEF Copy, Command, RecordFits, TypeOK
<1>2. Everyone \subseteq Users
  BY <1>1, WhoTyped
<1>3. /\ ctl'.at = IF op.phase = "intent" THEN "stop" ELSE "stopped"
      /\ ctl'.cmd = ctl.cmd /\ ctl'.left = Everyone /\ CtlTyped'
  BY <1>2 DEF Copy, TypeOK, CtlTyped, Places
<1>4. controllers' \subseteq Generations
  BY <1>1 DEF Copy, TypeOK, Operations
<1>5. TypeOK'
  BY <1>3, <1>4, FilesOnly DEF Copy, OnlyFiles, FilesTyped, TypeOK
<1>6. (OnCourse /\ RecordFits)'
  <2>1. ctl.cmd \in {"prepare-remove", "finish-purge", "adopt-bootstrap"}
    BY CommandsByPlace DEF Copy, Command, Stops
  <2>2. OnCourse'
    BY <1>3, <2>1 DEF OnCourse, Course, Stops
  <2> QED
    BY <1>1, <1>3, <2>1, <2>2 DEF Copy, Command, Finishes, RecordFits, RecordIs
<1>7. (IntentFits /\ ProgressFits /\ OutcomeFits)'
  BY <1>1, <1>3 DEF Copy, Command, OnCourse, Course, Stops, Finishes, IntentFits, ProgressFits, OutcomeFits, Everyone
<1>8. (RoomLeft /\ StatusFits)'
  BY <1>1, <1>3 DEF Copy, Command, RoomLeft, Room, StatusFits, StatusesFor, RecordIs, system
<1> QED
  BY <1>5, <1>6, <1>7, <1>8 DEF Command

\* The record is written, of the same operation.
Rewrites == /\ op # None /\ SameOrder(op') /\ CtlTyped'
            /\ ctl'.cmd = ctl.cmd
            /\ UNCHANGED <<intent, removed, install, controllers, system, gen>>
            /\ faults' = faults /\ PeopleTyped'

LEMMA RewriteIsSound ==
  ASSUME Sound, Rewrites, OnCourse', ProgressFits', OutcomeFits',
         op.phase # "intent" => op'.phase # "intent",
         ctl.at \in Stops <=> ctl'.at \in Stops,
         ctl.at \in Finishes <=> ctl'.at \in Finishes,
         ctl.at \in Stops \cup Finishes
  PROVE  Sound'
<1> USE DEF Sound
<1>1. TypeOK'
  BY DEF Rewrites, SameOrder, TypeOK, CtlTyped, PeopleTyped, system
<1>2. RecordFits'
  BY DEF Rewrites, SameOrder, Command, OnCourse, Course, Stops, Finishes, RecordFits, RecordIs
<1>3. IntentFits'
  BY DEF Rewrites, Command, OnCourse, Course, Stops, Finishes, IntentFits
<1>4. RoomLeft'
  BY DEF Rewrites, SameOrder, Command, OnCourse, Course, Stops, Finishes, RoomLeft, Room, system
<1>5. StatusFits'
  BY DEF Rewrites, SameOrder, Command, StatusFits, StatusesFor, RecordIs, system
<1> QED
  BY <1>1, <1>2, <1>3, <1>4, <1>5 DEF Command

LEMMA StopIsSound ==
  ASSUME Sound, Stop
  PROVE  Sound'
<1> USE DEF Sound
<1> DEFINE u == First(ctl.left)
<1>1. /\ ctl.at = "stop" /\ op # None /\ op \in Operations /\ op.phase = "intent"
      /\ ctl.left # {} /\ ctl.left \subseteq Everyone /\ Everyone \subseteq Users
  BY WhoTyped DEF Stop, Command, RecordFits, ProgressFits, TypeOK
<1>2. u \in ctl.left /\ u \in Everyone /\ u \in Users
  BY <1>1, FirstIsOne
<1>3. CASE Refuse
  BY <1>1, <1>3, RefusalFails, FailureIsSound DEF Idle
<1>4. CASE ~Refuse
  <2>1. /\ op' = [op EXCEPT !.who[u] = Refreshed(u)] /\ Go("suppress")
        /\ prov' = [prov EXCEPT ![u] = "off"]
        /\ UNCHANGED <<intent, removed, install, controllers, system,
                       link, ack, session, logins, wish, usurped, accounts, gen, faults>>
    BY <1>4 DEF Stop
  <2>2. Refreshed(u) \in Participants
    BY <1>1, <1>2, RefreshedTyped DEF TypeOK
  <2>3. SameOrder(op') /\ op'.phase = op.phase /\ DOMAIN op'.who = Everyone
    BY <1>1, <1>2, <2>1, <2>2, ParticipantWritten
  <2>4. Goes("suppress")
    BY <2>1, TypesOfParts, GoesOn DEF Places
  <2>5. Rewrites
    <3>1. PeopleTyped'
      BY <2>1 DEF PeopleTyped, TypeOK, accounts
    <3> QED
      BY <1>1, <2>1, <2>3, <2>4, <3>1 DEF Rewrites, Goes
  <2>6. OnCourse' /\ ProgressFits' /\ OutcomeFits'
    <3>1. ctl.cmd \in {"prepare-remove", "finish-purge", "adopt-bootstrap"}
      BY <1>1, CommandsByPlace DEF Command, Stops
    <3>2. OnCourse'
      BY <2>4, <3>1 DEF Goes, OnCourse, Course, Stops
    <3>3. op' # None
      BY <2>3 DEF SameOrder
    <3> QED
      BY <1>1, <2>3, <2>4, <3>2, <3>3 DEF Goes, ProgressFits, OutcomeFits, Everyone
  <2> QED
    BY <1>1, <2>3, <2>4, <2>5, <2>6, RewriteIsSound DEF Goes, Stops, Finishes
<1> QED
  BY <1>3, <1>4

\* A command goes on without writing a file: what it does to the users' state is typed.
Advances == /\ CtlTyped' /\ PeopleTyped' /\ ctl'.cmd = ctl.cmd
            /\ UNCHANGED <<files, system, gen, faults>>

LEMMA AdvanceIsSound ==
  ASSUME Sound, Advances, OnCourse', ProgressFits', OutcomeFits',
         ctl.at \in Stops <=> ctl'.at \in Stops,
         ctl.at \in Finishes <=> ctl'.at \in Finishes,
         ctl.at \in Stops \cup Finishes
  PROVE  Sound'
<1> USE DEF Sound
<1>1. TypeOK'
  BY DEF Advances, TypeOK, CtlTyped, PeopleTyped, files, system
<1>2. RecordFits'
  BY DEF Advances, Command, OnCourse, Course, Stops, Finishes, RecordFits, RecordIs, files
<1>3. IntentFits'
  BY DEF Advances, Command, OnCourse, Course, Stops, Finishes, IntentFits, files
<1>4. RoomLeft'
  BY DEF Advances, Command, OnCourse, Course, Stops, Finishes, RoomLeft, Room, files, system
<1>5. StatusFits'
  BY DEF Advances, Command, StatusFits, StatusesFor, RecordIs, files, system
<1> QED
  BY <1>1, <1>2, <1>3, <1>4, <1>5 DEF Command

LEMMA SuppressIsSound ==
  ASSUME Sound, Suppress
  PROVE  Sound'
<1> USE DEF Sound
<1> DEFINE u == First(ctl.left)
<1>1. /\ ctl.at = "suppress" /\ op # None /\ op \in Operations /\ op.phase = "intent"
      /\ ctl.left # {} /\ ctl.left \subseteq Everyone /\ Everyone \subseteq Users
  BY WhoTyped DEF Suppress, Command, RecordFits, ProgressFits, TypeOK
<1>3. CASE Refuse
  BY <1>1, <1>3, RefusalFails, FailureIsSound DEF Idle
<1>4. CASE ~Refuse
  <2>1. /\ link' = [link EXCEPT ![u] = FALSE]
        /\ ctl' = [ctl EXCEPT !.at = "stop", !.left = @ \ {u}]
        /\ UNCHANGED <<files, system, ack, session, prov, logins, wish, usurped, accounts, gen, faults>>
    BY <1>4 DEF Suppress
  <2>2. /\ ctl'.at = "stop" /\ ctl'.cmd = ctl.cmd /\ ctl'.left = ctl.left \ {u} /\ CtlTyped'
    BY <2>1 DEF TypeOK, CtlTyped, Places
  <2>3. PeopleTyped'
    BY <2>1 DEF PeopleTyped, TypeOK, accounts
  <2>4. Advances
    BY <2>1, <2>2, <2>3 DEF Advances
  <2>5. ctl.cmd \in {"prepare-remove", "finish-purge", "adopt-bootstrap"}
    BY <1>1, CommandsByPlace DEF Command, Stops
  <2>6. OnCourse'
    BY <2>2, <2>5 DEF OnCourse, Course, Stops
  <2>7. ProgressFits' /\ OutcomeFits'
    BY <1>1, <2>1, <2>2 DEF ProgressFits, OutcomeFits, Everyone, files
  <2> QED
    BY <1>1, <2>2, <2>4, <2>6, <2>7, AdvanceIsSound DEF Stops, Finishes
<1> QED
  BY <1>3, <1>4

LEMMA AllStoppedIsSound ==
  ASSUME Sound, AllStopped
  PROVE  Sound'
<1> USE DEF Sound
<1>1. /\ ctl.at = "stop" /\ op # None /\ op \in Operations
  BY DEF AllStopped, Command, RecordFits, TypeOK
<1>2. SameOrder(op') /\ op'.phase = "stopped" /\ op'.who = op.who
  BY <1>1, PhaseWritten DEF AllStopped
<1>3. Goes("stopped")
  BY TypesOfParts, GoesOn DEF AllStopped, Places
<1>4. Rewrites
  BY <1>1, <1>2, <1>3 DEF Rewrites, AllStopped, Goes, PeopleTyped, TypeOK, people
<1>5. ctl.cmd \in {"prepare-remove", "finish-purge", "adopt-bootstrap"}
  BY <1>1, CommandsByPlace DEF Command, Stops
<1>6. OnCourse'
  BY <1>3, <1>5 DEF Goes, OnCourse, Course, Stops
<1>7. ProgressFits' /\ OutcomeFits'
  BY <1>2, <1>3 DEF Goes, ProgressFits, OutcomeFits
<1> QED
  BY <1>1, <1>2, <1>3, <1>4, <1>6, <1>7, RewriteIsSound DEF Goes, Stops, Finishes

LEMMA PreparedIsSound ==
  ASSUME Sound, Prepared
  PROVE  Sound'
<1> USE DEF Sound
<1>1. ctl.at = "stopped" /\ ctl.cmd \in {"prepare-remove", "finish-purge", "adopt-bootstrap"}
  BY CommandsByPlace DEF Prepared, Command, Stops
<1>2. PICK place \in {"adopt", "unmark"} :
        /\ place = "adopt" <=> ctl.cmd = "adopt-bootstrap"
        /\ Go(place) /\ UNCHANGED <<files, system, people, gen, faults>>
  BY <1>1 DEF Prepared
<1>3. TypeOK' /\ Goes(place)
  BY <1>2, GoesOnTyped DEF Places
<1>4. (OnCourse /\ RecordFits)'
  BY <1>1, <1>2, <1>3 DEF Command, files, Goes, OnCourse, Course, Stops, Finishes, RecordFits, RecordIs
<1>5. (IntentFits /\ ProgressFits /\ OutcomeFits)'
  BY <1>1, <1>2, <1>3 DEF Command, files, Goes, IntentFits, ProgressFits, OutcomeFits
<1>6. (RoomLeft /\ StatusFits)'
  BY <1>1, <1>2, <1>3 DEF Command, files, system, Goes, RoomLeft, Room, StatusFits, StatusesFor, RecordIs
<1> QED
  BY <1>3, <1>4, <1>5, <1>6 DEF Command

LEMMA AdoptIsSound ==
  ASSUME Sound, Adopt
  PROVE  Sound'
<1> USE DEF Sound
<1>1. ctl.at = "adopt" /\ ctl.cmd = "adopt-bootstrap" /\ intent \in Intents /\ op # None
  BY CommandsByPlace DEF Adopt, Command, IntentFits, TypeOK, RecordFits
<1>2. intent' \in Intents /\ intent' # None /\ intent'.boot = "adopted"
  <2>1. intent.kind = "upgrade"
    BY <1>1 DEF Command, IntentFits, Intents
  <2>2. intent' \in Intents /\ intent'.boot = "adopted"
    BY <1>1, <2>1 DEF Adopt, Intents
  <2> QED
    BY <2>2, NoneApart
<1>3. Goes("dequarantine")
  BY TypesOfParts, GoesOn DEF Adopt, Places
<1>4. TypeOK'
  BY <1>2, <1>3, FilesOnly DEF Adopt, OnlyFiles, FilesTyped, TypeOK, Goes
<1>5. (OnCourse /\ RecordFits)'
  BY <1>1, <1>2, <1>3 DEF Adopt, Command, Goes, OnCourse, Course, Stops, Finishes, RecordFits, RecordIs
<1>6. (IntentFits /\ ProgressFits /\ OutcomeFits)'
  BY <1>1, <1>2, <1>3 DEF Adopt, Command, Goes, IntentFits, ProgressFits, OutcomeFits
<1>7. (RoomLeft /\ StatusFits)'
  BY <1>1, <1>2, <1>3 DEF Adopt, Command, system, Goes, RoomLeft, Room, StatusFits, StatusesFor, RecordIs
<1> QED
  BY <1>4, <1>5, <1>6, <1>7 DEF Command

LEMMA DequarantineIsSound ==
  ASSUME Sound, Dequarantine
  PROVE  Sound'
<1> USE DEF Sound
<1>1. ctl.at = "dequarantine" /\ ctl.cmd = "adopt-bootstrap"
  BY CommandsByPlace DEF Dequarantine, Command
<1>2. Goes("unmark")
  BY TypesOfParts, GoesOn DEF Dequarantine, Places
<1>3. TypeOK'
  BY <1>2 DEF Dequarantine, TypeOK, Goes, CtlTyped, files, people, NoGeneration, Generations
<1>4. (OnCourse /\ RecordFits)'
  BY <1>1, <1>2 DEF Dequarantine, Command, Goes, OnCourse, Course, Stops, Finishes, RecordFits, RecordIs, files
<1>5. (IntentFits /\ ProgressFits /\ OutcomeFits)'
  BY <1>1, <1>2 DEF Dequarantine, Command, Goes, IntentFits, ProgressFits, OutcomeFits, files
<1>6. (RoomLeft /\ StatusFits)'
  BY <1>1, <1>2 DEF Dequarantine, Command, files, Goes, RoomLeft, Room, StatusFits, StatusesFor, RecordIs
<1> QED
  BY <1>3, <1>4, <1>5, <1>6 DEF Command

LEMMA UnmarkIsSound ==
  ASSUME Sound, Unmark
  PROVE  Sound'
<1> USE DEF Sound
<1>1. ctl.at = "unmark" /\ ctl.cmd \in {"prepare-remove", "abort-remove", "finish-purge",
                                       "adopt-bootstrap", "abort-upgrade"}
  BY CommandsByPlace DEF Unmark, Command
<1>2. PICK place \in {"settle", "empty", "done"} :
        /\ place = "settle" => ctl.cmd = "abort-remove" /\ op # None
        /\ place = "empty" <=> ctl.cmd = "finish-purge"
        /\ Go(place)
  BY <1>1 DEF Unmark
<1>3. Goes(place)
  BY <1>2, TypesOfParts, GoesOn DEF Places
<1>4. TypeOK'
  BY <1>3, FilesOnly DEF Unmark, OnlyFiles, FilesTyped, TypeOK, Goes
<1>5. (OnCourse /\ RecordFits)'
  BY <1>1, <1>2, <1>3 DEF Unmark, Command, Goes, OnCourse, Course, Stops, Finishes, RecordFits, RecordIs
<1>6. (IntentFits /\ ProgressFits /\ OutcomeFits)'
  BY <1>1, <1>2, <1>3 DEF Unmark, Command, Goes, IntentFits, ProgressFits, OutcomeFits
<1>7. (RoomLeft /\ StatusFits)'
  BY <1>1, <1>2, <1>3 DEF Unmark, Command, system, Goes, RoomLeft, Room, StatusFits, StatusesFor, RecordIs
<1> QED
  BY <1>4, <1>5, <1>6, <1>7 DEF Command

LEMMA AbortRemoveIsSound ==
  ASSUME Sound, AbortRemove
  PROVE  Sound'
<1> USE DEF Sound
<1>1. ctl.at = "begin" /\ ctl.cmd = "abort-remove"
  BY DEF AbortRemove, At
<1>2. CASE Refuse
  BY <1>1, <1>2, RefusalFails, FailureIsSound DEF Idle
<1>3. CASE op = None /\ Go("unmark") /\ UNCHANGED <<files, system, people, gen, faults>>
  <2>1. TypeOK' /\ Goes("unmark")
    BY <1>3, GoesOnTyped DEF Places
  <2>2. (OnCourse /\ RecordFits)'
    BY <1>1, <1>3, <2>1 DEF Command, files, Goes, OnCourse, Course, Stops, Finishes, RecordFits, RecordIs
  <2>3. (IntentFits /\ ProgressFits /\ OutcomeFits)'
    BY <1>1, <1>3, <2>1 DEF Command, files, Goes, IntentFits, ProgressFits, OutcomeFits
  <2>4. (RoomLeft /\ StatusFits)'
    BY <1>1, <1>3, <2>1 DEF Command, files, system, Goes, RoomLeft, Room, StatusFits, StatusesFor, RecordIs
  <2> QED
    BY <2>1, <2>2, <2>3, <2>4 DEF Command
<1>4. CASE /\ AbortsOwn /\ Go("unmark")
           /\ op' = IF op.rollback THEN op ELSE [op EXCEPT !.rollback = TRUE, !.phase = "settling"]
           /\ UNCHANGED <<intent, removed, install, controllers, system, people, gen, faults>>
  <2>1. op # None /\ op \in Operations /\ op.kind = "remove"
    BY <1>4 DEF AbortsOwn, Valid, TypeOK
  <2>2. op' \in Operations /\ op' # None /\ op'.kind = "remove" /\ op'.rollback = TRUE
    <3>1. op' \in Operations /\ op'.kind = "remove" /\ op'.rollback = TRUE
      BY <1>4, <2>1 DEF Operations
    <3> QED
      BY <3>1, NoneApart
  <2>3. Goes("unmark")
    BY <1>4, TypesOfParts, GoesOn DEF Places
  <2>4. TypeOK'
    BY <1>4, <2>2, <2>3, FilesOnly DEF OnlyFiles, FilesTyped, TypeOK, Goes
  <2>5. (OnCourse /\ RecordFits)'
    BY <1>1, <1>4, <2>2, <2>3 DEF Command, Goes, OnCourse, Course, Stops, Finishes, RecordFits, RecordIs
  <2>6. (IntentFits /\ ProgressFits /\ OutcomeFits)'
    BY <1>1, <1>4, <2>3 DEF Command, Goes, IntentFits, ProgressFits, OutcomeFits
  <2>7. (RoomLeft /\ StatusFits)'
    BY <1>1, <1>4, <2>1, <2>2, <2>3 DEF Command, system, Goes, RoomLeft, Room, StatusFits, StatusesFor, RecordIs
  <2> QED
    BY <2>4, <2>5, <2>6, <2>7 DEF Command
<1> QED
  BY <1>2, <1>3, <1>4 DEF AbortRemove

LEMMA FinishBeginsIsSound ==
  ASSUME Sound, FinishBegins
  PROVE  Sound'
<1> USE DEF Sound
<1>1. ctl.at = "begin" /\ ctl.cmd \in {"finish-remove", "recover-install"}
  BY DEF FinishBegins
<1>2. CASE Refuse
  BY <1>1, <1>2, RefusalFails, FailureIsSound DEF Idle
<1>3. CASE ~Refuse
  <2>1. /\ op # None
        /\ IF ctl.cmd = "finish-remove" THEN op.kind = "remove" /\ ~op.rollback
                                        ELSE op.kind \in {"upgrade", "reinstall"}
        /\ Go("settle") /\ UNCHANGED <<files, system, people, gen, faults>>
    BY <1>3 DEF FinishBegins
  <2>2. op.rollback \in BOOLEAN
    BY <2>1 DEF TypeOK, Operations
  <2>3. TypeOK' /\ Goes("settle")
    BY <2>1, GoesOnTyped DEF Places
  <2>4. (OnCourse /\ RecordFits)'
    BY <1>1, <2>1, <2>2, <2>3 DEF Command, files, Goes, OnCourse, Course, Stops, Finishes, RecordFits, RecordIs
  <2>5. (IntentFits /\ ProgressFits /\ OutcomeFits)'
    BY <1>1, <2>1, <2>3 DEF Command, files, Goes, IntentFits, ProgressFits, OutcomeFits
  <2>6. (RoomLeft /\ StatusFits)'
    BY <1>1, <2>1, <2>3 DEF Command, files, system, Goes, RoomLeft, Room, StatusFits, StatusesFor, RecordIs
  <2> QED
    BY <2>3, <2>4, <2>5, <2>6 DEF Command
<1> QED
  BY <1>2, <1>3

\* Between two places of the settlement the course is kept.
LEMMA FinishesGoOn ==
  ASSUME Sound, ctl.at \in Finishes, ctl'.at \in Finishes, ctl'.cmd = ctl.cmd
  PROVE  OnCourse' /\ op # None /\ op \in Operations
<1>1. ctl.cmd \in {"abort-remove", "finish-remove", "recover-install"}
  BY CommandsByPlace DEF Sound, Command
<1>2. op # None /\ op \in Operations
  BY <1>1 DEF Sound, Command, RecordFits, RecordIs, TypeOK
<1> QED
  BY <1>1, <1>2 DEF OnCourse, Course

LEMMA SettleIsSound ==
  ASSUME Sound, Settle
  PROVE  Sound'
<1> USE DEF Sound
<1>1. ctl.at = "settle"
  BY DEF Settle
<1>2. CASE Refuse
  BY <1>1, <1>2, RefusalFails, FailureIsSound DEF Idle
<1>3. CASE /\ op' = [op EXCEPT !.phase = "settling"]
           /\ ctl' = [ctl EXCEPT !.at = "examine", !.left = Unsettled]
           /\ UNCHANGED <<intent, removed, install, controllers, system, people, gen, faults>>
  <2>1. ctl'.at = "examine" /\ ctl'.cmd = ctl.cmd /\ ctl'.left = Unsettled
    BY <1>3 DEF TypeOK
  <2>2. OnCourse' /\ op # None /\ op \in Operations
    BY <1>1, <2>1, FinishesGoOn DEF Finishes
  <2>3. SameOrder(op') /\ op'.phase = "settling" /\ op'.who = op.who
    BY <1>3, <2>2, PhaseWritten
  <2>4. CtlTyped'
    <3>1. Unsettled \subseteq Users
      BY <2>2, WhoTyped DEF Unsettled
    <3> QED
      BY <1>3, <3>1 DEF CtlTyped, TypeOK, Places
  <2>5. Rewrites
    BY <1>3, <2>1, <2>2, <2>3, <2>4 DEF Rewrites, PeopleTyped, TypeOK, people
  <2>6. ProgressFits' /\ OutcomeFits'
    BY <2>1, <2>2, <2>3 DEF ProgressFits, OutcomeFits, Unsettled, Everyone, SameOrder
  <2> QED
    BY <1>1, <2>1, <2>2, <2>3, <2>5, <2>6, RewriteIsSound DEF Stops, Finishes
<1>4. CASE /\ op.phase = "finalizing" /\ Unsettled = {} /\ Go("retire")
           /\ UNCHANGED <<files, system, people, gen, faults>>
  <2>1. Goes("retire")
    BY <1>4, TypesOfParts, GoesOn DEF Places
  <2>2. OnCourse' /\ op # None
    BY <1>1, <2>1, FinishesGoOn DEF Finishes, Goes
  <2>3. Advances
    BY <1>4, <2>1 DEF Advances, Goes, PeopleTyped, TypeOK, people
  <2>4. ProgressFits' /\ OutcomeFits'
    BY <1>4, <2>1, <2>2 DEF Goes, ProgressFits, OutcomeFits, Unsettled, Everyone, files
  <2> QED
    BY <1>1, <2>1, <2>2, <2>3, <2>4, AdvanceIsSound DEF Goes, Stops, Finishes
<1> QED
  BY <1>2, <1>3, <1>4 DEF Settle

\* The participant whose turn it is.
LEMMA TurnOfOne ==
  ASSUME Sound, ctl.at \in {"examine", "restore", "await", "relock"}, ctl.left # {}
  PROVE  LET u == First(ctl.left) IN
         /\ op # None /\ op \in Operations /\ op.phase = "settling" /\ ctl.left = Unsettled
         /\ u \in ctl.left /\ u \in Everyone /\ u \in Users
         /\ op.who[u] \in Participants /\ op.who[u].settled = "pending"
<1>1. ctl.cmd \in {"abort-remove", "finish-remove", "recover-install"}
  BY CommandsByPlace DEF Sound, Command, Finishes
<1>2. op # None /\ op \in Operations
  BY <1>1 DEF Sound, Command, RecordFits, RecordIs, TypeOK, Finishes
<1>3. op.phase = "settling" /\ ctl.left = Unsettled
  BY DEF Sound, Command, ProgressFits
<1>4. ctl.left \subseteq Everyone /\ Everyone \subseteq Users /\ op.who \in [Everyone -> Participants]
  BY <1>2, <1>3, WhoTyped DEF Unsettled
<1>5. First(ctl.left) \in ctl.left
  BY <1>4, FirstIsOne
<1> QED
  BY <1>2, <1>3, <1>4, <1>5 DEF Unsettled

\* What a settlement makes of the record: it is settled for the one whose turn it is.
LEMMA SettlementWritten ==
  ASSUME Sound, ctl.at \in {"examine", "relock"}, ctl.left # {},
         NEW s \in Settlements, op' = Settled(First(ctl.left), s)
  PROVE  LET u == First(ctl.left) IN
         /\ SameOrder(op') /\ op'.phase = op.phase /\ DOMAIN op'.who = Everyone
         /\ \A v \in Everyone : op'.who[v].choice = op.who[v].choice
         /\ \A v \in Everyone \ {u} : op'.who[v] = op.who[v]
         /\ op'.who[u].settled = s
<1> DEFINE u == First(ctl.left)
           p == [Refreshed(u) EXCEPT !.settled = s]
<1>1. op \in Operations /\ u \in Everyone
  BY TurnOfOne
<1>2. p \in Participants /\ p.choice = op.who[u].choice /\ p.settled = s
  BY <1>1, RefreshedTyped DEF Sound, TypeOK
<1>3. op.who \in [Everyone -> Participants]
  BY <1>1, WhoTyped
<1>4. op' = [op EXCEPT !.who[u] = p]
  BY DEF Settled
<1> HIDE DEF p, u
<1>5. SameOrder(op') /\ op'.phase = op.phase /\ op'.who = [op.who EXCEPT ![u] = p] /\ DOMAIN op'.who = Everyone
  BY <1>1, <1>2, <1>4, ParticipantWritten
<1>6. /\ \A v \in Everyone : op'.who[v].choice = op.who[v].choice
      /\ \A v \in Everyone \ {u} : op'.who[v] = op.who[v]
      /\ op'.who[u].settled = s
  BY <1>1, <1>2, <1>3, <1>5
<1> QED
  BY <1>5, <1>6 DEF u

LEMMA SettlementIsSound ==
  ASSUME Sound, ctl.at \in {"examine", "relock"}, ctl.left # {},
         NEW s \in Settlements \ {"pending"}, SettleAs(First(ctl.left), s),
         UNCHANGED <<system, gen, faults>>, PeopleTyped'
  PROVE  Sound'
<1> USE DEF Sound
<1> DEFINE u == First(ctl.left)
<1>1. /\ op # None /\ op \in Operations /\ op.phase = "settling" /\ ctl.left = Unsettled
      /\ u \in ctl.left /\ u \in Everyone
  BY TurnOfOne
<1>2. /\ SameOrder(op') /\ op'.phase = op.phase /\ DOMAIN op'.who = Everyone
      /\ \A v \in Everyone \ {u} : op'.who[v] = op.who[v]
      /\ op'.who[u].settled = s
  BY SettlementWritten DEF SettleAs
<1>3. /\ ctl'.at = "examine" /\ ctl'.cmd = ctl.cmd /\ ctl'.left = ctl.left \ {u} /\ CtlTyped'
  BY DEF SettleAs, TypeOK, CtlTyped, Places, Settlements
<1>4. Rewrites
  BY <1>1, <1>2, <1>3 DEF Rewrites, SettleAs
<1>5. OnCourse'
  BY <1>3, FinishesGoOn DEF Finishes
<1>6. ctl'.left = Unsettled'
  <2>1. Everyone' = Everyone
    BY <1>1, <1>2 DEF Everyone, SameOrder
  <2> QED
    BY <1>1, <1>2, <1>3, <2>1 DEF Unsettled
<1>7. ProgressFits' /\ OutcomeFits'
  BY <1>1, <1>2, <1>3, <1>6 DEF ProgressFits, OutcomeFits
<1> QED
  BY <1>2, <1>3, <1>4, <1>5, <1>7, RewriteIsSound DEF Stops, Finishes

LEMMA UsurpTyped ==
  ASSUME TypeOK, NEW u \in Users, Usurp(u)
  PROVE  usurped' \subseteq Users
BY DEF Usurp, TypeOK

LEMMA RecoverIsSound ==
  ASSUME Sound, Recover
  PROVE  Sound'
<1> USE DEF Sound
<1>1. ctl.at = "examine" /\ ctl.left # {}
  BY DEF Recover
<1>2. CASE Refuse
  BY <1>1, <1>2, RefusalFails, FailureIsSound DEF Idle
<1>3. CASE ~Refuse
  <2>1. /\ SettleAs(First(ctl.left), "ready") /\ Usurp(First(ctl.left))
        /\ UNCHANGED <<system, link, ack, session, prov, logins, wish, accounts, gen, faults>>
    BY <1>3 DEF Recover
  <2>2. PeopleTyped'
    BY <1>1, <2>1, TurnOfOne, UsurpTyped DEF PeopleTyped, TypeOK, accounts
  <2> QED
    BY <1>1, <2>1, <2>2, SettlementIsSound DEF Settlements
<1> QED
  BY <1>2, <1>3

LEMMA ExamineIsSound ==
  ASSUME Sound, Examine
  PROVE  Sound'
<1> USE DEF Sound
<1> DEFINE u == First(ctl.left)
<1>1. ctl.at = "examine" /\ ctl.left # {}
  BY DEF Examine
<1>2. CASE Refuse
  BY <1>1, <1>2, RefusalFails, FailureIsSound DEF Idle
<1>3. CASE /\ Restoring /\ op' = Settled(u, "pending") /\ Go("restore")
           /\ UNCHANGED <<intent, removed, install, controllers, system, people, gen, faults>>
  <2>1. /\ op # None /\ op \in Operations /\ op.phase = "settling" /\ ctl.left = Unsettled
        /\ u \in Everyone /\ op.who[u].settled = "pending"
    BY <1>1, TurnOfOne
  <2>2. /\ SameOrder(op') /\ op'.phase = op.phase /\ DOMAIN op'.who = Everyone
        /\ \A v \in Everyone \ {u} : op'.who[v] = op.who[v]
        /\ op'.who[u].settled = "pending"
    BY <1>1, <1>3, SettlementWritten DEF Settlements
  <2>3. Goes("restore")
    BY <1>3, TypesOfParts, GoesOn DEF Places
  <2>4. Rewrites
    BY <1>3, <2>1, <2>2, <2>3 DEF Rewrites, Goes, PeopleTyped, TypeOK, people
  <2>5. OnCourse'
    BY <1>1, <2>3, FinishesGoOn DEF Finishes, Goes
  <2>6. Unsettled' = Unsettled
    <3>1. Everyone' = Everyone
      BY <2>1, <2>2 DEF Everyone, SameOrder
    <3> QED
      BY <2>1, <2>2, <3>1 DEF Unsettled
  <2>7. Restoring'
    BY <1>3, <2>2 DEF Restoring, SameOrder
  <2>8. ProgressFits' /\ OutcomeFits'
    BY <1>1, <2>1, <2>2, <2>3, <2>6, <2>7 DEF ProgressFits, OutcomeFits, Goes
  <2> QED
    BY <1>1, <2>1, <2>2, <2>3, <2>4, <2>5, <2>8, RewriteIsSound DEF Goes, Stops, Finishes
<1>4. CASE SettleAs(u, "disabled") /\ UNCHANGED <<system, people, gen, faults>>
  <2>1. PeopleTyped'
    BY <1>4 DEF PeopleTyped, TypeOK, people
  <2> QED
    BY <1>1, <1>4, <2>1, SettlementIsSound DEF Settlements
<1> QED
  BY <1>2, <1>3, <1>4 DEF Examine

\* The users and their providers leave the commands alone.
LEMMA PeopleLeaveCommands ==
  ASSUME Sound, UNCHANGED <<files, system, ctl, gen>>, PeopleTyped', faults' \in 0..MaxFaults
  PROVE  Sound'
<1> USE DEF Sound
<1>1. TypeOK'
  BY DEF TypeOK, PeopleTyped, files, system
<1>2. (OnCourse /\ RecordFits /\ IntentFits /\ RoomLeft /\ StatusFits)'
  BY DEF Command, OnCourse, RecordFits, RecordIs, IntentFits, RoomLeft, Room, StatusFits, files, system
<1>3. (ProgressFits /\ OutcomeFits)'
  BY DEF Command, ProgressFits, OutcomeFits, Unsettled, Everyone, Restoring, files
<1> QED
  BY <1>1, <1>2, <1>3 DEF Command

LEMMA StopUnreadyIsSound ==
  ASSUME Sound, StopUnready
  PROVE  Sound'
<1>1. PeopleTyped'
  BY DEF Sound, StopUnready, PeopleTyped, TypeOK, accounts
<1>2. faults' \in 0..MaxFaults
  BY DEF Sound, StopUnready, Fault, TypeOK
<1> QED
  BY <1>1, <1>2, PeopleLeaveCommands DEF StopUnready

LEMMA RestoreIsSound ==
  ASSUME Sound, Restore
  PROVE  Sound'
<1> USE DEF Sound
<1> DEFINE u == First(ctl.left)
<1>1. ctl.at = "restore" /\ ctl.left # {} /\ Restoring
  BY DEF Restore, Command, ProgressFits
<1>2. CASE Refuse
  BY <1>1, <1>2, RefusalFails, FailureIsSound DEF Idle
<1>3. CASE ~Refuse
  <2>1. /\ link' = [link EXCEPT ![u] = op.who[u].choice]
        /\ ctl' = [ctl EXCEPT !.at = IF Outcome(u) = "ready" THEN "await" ELSE "relock", !.got = Outcome(u)]
        /\ UNCHANGED <<files, system, ack, session, prov, logins, wish, usurped, accounts, gen, faults>>
    BY <1>3 DEF Restore
  <2>2. op # None /\ op.phase = "settling" /\ ctl.left = Unsettled /\ op.who[u] \in Participants
    BY <1>1, TurnOfOne
  <2>3. Outcome(u) \in {"disabled", "deferred", "ready"} /\ (Outcome(u) = "disabled" <=> ~op.who[u].choice)
    BY DEF Outcome
  <2>4. /\ ctl'.at = IF Outcome(u) = "ready" THEN "await" ELSE "relock"
        /\ ctl'.cmd = ctl.cmd /\ ctl'.left = ctl.left /\ ctl'.got = Outcome(u)
    BY <2>1 DEF TypeOK
  <2>5. CtlTyped'
    BY <2>1, <2>3 DEF CtlTyped, TypeOK, Places, Settlements
  <2>6. PeopleTyped'
    BY <2>1, <2>2 DEF PeopleTyped, TypeOK, Participants, accounts
  <2>7. Advances
    BY <2>1, <2>4, <2>5, <2>6 DEF Advances
  <2>8. OnCourse'
    BY <1>1, <2>4, FinishesGoOn DEF Finishes
  <2>9. ProgressFits'
    BY <1>1, <2>1, <2>2, <2>4 DEF ProgressFits, Unsettled, Everyone, Restoring, files
  <2>10. OutcomeFits'
    <3>1. op.who[u].choice \in BOOLEAN /\ op' = op /\ First(ctl'.left) = u
      BY <2>1, <2>2, <2>4 DEF Participants, files
    <3> QED
      BY <2>3, <2>4, <3>1 DEF OutcomeFits
  <2> QED
    BY <1>1, <2>4, <2>7, <2>8, <2>9, <2>10, AdvanceIsSound DEF Stops, Finishes
<1> QED
  BY <1>2, <1>3

LEMMA AwaitIsSound ==
  ASSUME Sound, Await
  PROVE  Sound'
<1> USE DEF Sound
<1>1. ctl.at = "await" /\ ctl.left # {} /\ Restoring
  BY DEF Await, Command, ProgressFits
<1>2. CASE Refuse
  BY <1>1, <1>2, RefusalFails, FailureIsSound DEF Idle
<1>3. CASE ~Refuse
  <2>1. Go("relock") /\ UNCHANGED <<files, system, people, gen, faults>>
    BY <1>3 DEF Await
  <2>2. Goes("relock")
    BY <2>1, TypesOfParts, GoesOn DEF Places
  <2>3. Advances
    BY <2>1, <2>2 DEF Advances, Goes, PeopleTyped, TypeOK, people
  <2>4. OnCourse'
    BY <1>1, <2>2, FinishesGoOn DEF Finishes, Goes
  <2>5. ProgressFits'
    BY <1>1, <2>1, <2>2 DEF Command, Goes, ProgressFits, Unsettled, Everyone, Restoring, files
  <2>6. OutcomeFits'
    BY <1>1, <2>1, <2>2 DEF Command, Goes, OutcomeFits, files
  <2> QED
    BY <1>1, <2>2, <2>3, <2>4, <2>5, <2>6, AdvanceIsSound DEF Goes, Stops, Finishes
<1> QED
  BY <1>2, <1>3

LEMMA RelockIsSound ==
  ASSUME Sound, Relock
  PROVE  Sound'
<1> USE DEF Sound
<1>1. /\ ctl.at = "relock" /\ ctl.left # {} /\ ctl.got \in {"disabled", "deferred", "ready"}
  BY DEF Relock, Command, ProgressFits, OutcomeFits
<1>2. CASE Refuse
  BY <1>1, <1>2, RefusalFails, FailureIsSound DEF Idle
<1>3. CASE ~Refuse
  <2>1. /\ SettleAs(First(ctl.left), ctl.got)
        /\ IF ctl.got = "disabled" THEN UNCHANGED usurped ELSE Usurp(First(ctl.left))
        /\ UNCHANGED <<system, link, ack, session, prov, logins, wish, accounts, gen, faults>>
    BY <1>3 DEF Relock
  <2>2. PeopleTyped'
    BY <1>1, <2>1, TurnOfOne, UsurpTyped DEF PeopleTyped, TypeOK, accounts
  <2> QED
    BY <1>1, <2>1, <2>2, SettlementIsSound DEF Settlements
<1> QED
  BY <1>2, <1>3

\* The course from the receipt to the end.
Endings == {"receipt", "retire", "forget", "clear"}
LEMMA EndingOfOne ==
  ASSUME Sound, ctl.at \in Endings
  PROVE  /\ op # None /\ op \in Operations
         /\ ctl.cmd \in {"abort-remove", "finish-remove", "recover-install"}
         /\ op.phase \in {"settling", "finalizing"} /\ Unsettled = {}
<1>1. ctl.cmd \in {"abort-remove", "finish-remove", "recover-install"}
  BY CommandsByPlace DEF Sound, Command, Finishes, Endings
<1> QED
  BY <1>1 DEF Sound, Command, RecordFits, RecordIs, ProgressFits, TypeOK, Finishes, Endings

LEMMA ReceiptTyped ==
  ASSUME TypeOK, op \in Operations
  PROVE  /\ [generation |-> op.generation, version |-> op.target, who |-> op.who] \in RemovalReceipts
         /\ [generation |-> op.generation, version |-> op.target] \in InstallReceipts
BY DEF Operations, RemovalReceipts, InstallReceipts

\* A step of the ending that writes a receipt or removes a file.
LEMMA EndingIsSound ==
  ASSUME Sound, ctl.at \in {"examine"} \cup Endings, op # None, NEW place \in Endings, Go(place),
         op.phase \in {"settling", "finalizing"}, Unsettled = {},
         UNCHANGED <<intent, op, system, people, gen, faults>>, FilesTyped',
         removed' # None => removed # None \/ binary = "none"
  PROVE  Sound'
<1> USE DEF Sound
<1>1. Goes(place)
  BY TypesOfParts, GoesOn DEF Places, Endings
<1>2. TypeOK'
  BY <1>1, FilesOnly DEF OnlyFiles, Goes, TypeOK
<1>3. ctl.cmd \in {"abort-remove", "finish-remove", "recover-install"}
  BY CommandsByPlace DEF Command, Finishes, Endings
<1>4. OnCourse'
  BY <1>1, <1>3 DEF Goes, Course, OnCourse, Finishes, Endings
<1>5. (RecordFits /\ IntentFits)'
  BY <1>1, <1>3 DEF Goes, Command, RecordFits, RecordIs, IntentFits, Finishes, Endings
<1>6. (ProgressFits /\ OutcomeFits)'
  BY <1>1, <1>3 DEF Goes, ProgressFits, OutcomeFits, Endings, Unsettled, Everyone
<1>7. (RoomLeft /\ StatusFits)'
  BY <1>1, <1>3 DEF Goes, Command, RoomLeft, Room, StatusFits, StatusesFor, RecordIs, system
<1> QED
  BY <1>2, <1>4, <1>5, <1>6, <1>7 DEF Command

LEMMA ReceiptIsSound ==
  ASSUME Sound, Receipt
  PROVE  Sound'
<1> USE DEF Sound
<1>1. ctl.at = "examine" /\ ctl.left = {}
  BY DEF Receipt
<1>2. ctl.cmd \in {"abort-remove", "finish-remove", "recover-install"}
  BY <1>1, CommandsByPlace DEF Command, Finishes
<1>3. op # None /\ op \in Operations /\ op.phase \in {"settling", "finalizing"} /\ Unsettled = {}
  BY <1>1, <1>2 DEF Command, RecordFits, RecordIs, ProgressFits, TypeOK, Finishes
<1> DEFINE receipt == [generation |-> op.generation, version |-> op.target, who |-> op.who]
           installed == [generation |-> op.generation, version |-> op.target]
<1>4. receipt \in RemovalReceipts /\ installed \in InstallReceipts
  BY <1>3, ReceiptTyped
<1>5. CASE Refuse
  BY <1>1, <1>5, RefusalFails, FailureIsSound DEF Idle
<1>6. CASE op.kind = "remove" /\ ~op.rollback /\ removed' = receipt /\ Go("receipt")
           /\ UNCHANGED <<intent, op, install, controllers, system, people, gen, faults>>
  <2>1. ctl.cmd = "finish-remove"
    BY <1>1, <1>2, <1>6 DEF Command, RecordFits, RecordIs, Finishes
  <2>2. binary = "none"
    BY <2>1 DEF Command, StatusFits
  <2>3. FilesTyped'
    BY <1>4, <1>6 DEF FilesTyped, TypeOK
  <2> HIDE DEF receipt
  <2> QED
    BY <1>1, <1>3, <1>6, <2>2, <2>3, EndingIsSound DEF Endings
<1>7. CASE install' = installed /\ Go("receipt")
           /\ UNCHANGED <<intent, op, removed, controllers, system, people, gen, faults>>
  <2>1. FilesTyped'
    BY <1>4, <1>7 DEF FilesTyped, TypeOK
  <2> QED
    BY <1>1, <1>3, <1>7, <2>1, EndingIsSound DEF Endings
<1>8. CASE Go("receipt") /\ UNCHANGED <<files, system, people, gen, faults>>
  <2>1. FilesTyped' /\ UNCHANGED <<intent, op, removed>>
    BY <1>8 DEF FilesTyped, TypeOK, files
  <2> QED
    BY <1>1, <1>3, <1>8, <2>1, EndingIsSound DEF Endings
<1> QED
  BY <1>5, <1>6, <1>7, <1>8 DEF Receipt

LEMMA FinalizeIsSound ==
  ASSUME Sound, Finalize
  PROVE  Sound'
<1> USE DEF Sound
<1>1. /\ ctl.at = "receipt" /\ op # None /\ op \in Operations /\ Unsettled = {}
  BY EndingOfOne DEF Finalize, Endings
<1>2. SameOrder(op') /\ op'.phase = "finalizing" /\ op'.who = op.who
  BY <1>1, PhaseWritten DEF Finalize
<1>3. Goes("retire")
  BY TypesOfParts, GoesOn DEF Finalize, Places
<1>4. Rewrites
  BY <1>1, <1>2, <1>3 DEF Rewrites, Finalize, Goes, PeopleTyped, TypeOK, people
<1>5. OnCourse'
  BY <1>1, <1>3, FinishesGoOn DEF Goes, Finishes
<1>6. ProgressFits' /\ OutcomeFits'
  BY <1>1, <1>2, <1>3 DEF Goes, ProgressFits, OutcomeFits, SameOrder, Unsettled, Everyone
<1> QED
  BY <1>1, <1>2, <1>3, <1>4, <1>5, <1>6, RewriteIsSound DEF Goes, Stops, Finishes

LEMMA RetireIsSound ==
  ASSUME Sound, Retire
  PROVE  Sound'
<1> USE DEF Sound
<1>1. ctl.at = "retire" /\ op # None /\ op.phase \in {"settling", "finalizing"} /\ Unsettled = {}
  BY EndingOfOne DEF Retire, Endings
<1>2. FilesTyped'
  BY DEF Retire, FilesTyped, TypeOK
<1> QED
  BY <1>1, <1>2, EndingIsSound DEF Retire, Endings

LEMMA ForgetIsSound ==
  ASSUME Sound, Forget
  PROVE  Sound'
<1> USE DEF Sound
<1>1. ctl.at = "forget" /\ op # None /\ op.phase \in {"settling", "finalizing"} /\ Unsettled = {}
  BY EndingOfOne DEF Forget, Endings
<1>2. CASE Refuse
  BY <1>1, <1>2, RefusalFails, FailureIsSound DEF Idle
<1>3. CASE ~Refuse
  <2>1. /\ removed' \in {removed, None} /\ Go("clear")
        /\ UNCHANGED <<intent, op, install, controllers, system, people, gen, faults>>
    BY <1>3 DEF Forget, files
  <2>2. FilesTyped'
    BY <2>1 DEF FilesTyped, TypeOK
  <2> QED
    BY <1>1, <2>1, <2>2, EndingIsSound DEF Endings
<1> QED
  BY <1>2, <1>3

LEMMA ClearIsSound ==
  ASSUME Sound, Clear
  PROVE  Sound'
<1> USE DEF Sound
<1>1. ctl.at = "clear" /\ ctl.cmd \in {"abort-remove", "finish-remove", "recover-install"}
  BY EndingOfOne DEF Clear, Endings
<1>2. Goes("done")
  BY <1>1, TypesOfParts, GoesOn DEF Clear, Places
<1>3. TypeOK'
  BY <1>2, FilesOnly DEF Clear, OnlyFiles, FilesTyped, TypeOK, Goes
<1>4. OnCourse' /\ RecordFits' /\ IntentFits' /\ ProgressFits' /\ OutcomeFits'
  BY <1>1, <1>2 DEF Clear, Goes, Course, OnCourse, RecordFits, RecordIs, IntentFits, ProgressFits, OutcomeFits,
     Finishes, Stops
<1>5. RoomLeft' 
  BY <1>1, <1>2 DEF Clear, Goes, Command, RoomLeft, Room, system
<1>6. StatusFits'
  <2>1. ctl.cmd # "finish-remove" => binary # "none"
    BY <1>1 DEF Command, StatusFits, StatusesFor
  <2>2. dpkg.status = "removing" => binary = "none"
    BY <1>1, <2>1 DEF Command, StatusFits, StatusesFor
  <2> QED
    BY <1>1, <1>2, <2>1, <2>2 DEF Clear, Goes, Command, StatusFits, StatusesFor, system
<1> QED
  BY <1>3, <1>4, <1>5, <1>6 DEF Command

LEMMA DoneIsSound ==
  ASSUME Sound, Done
  PROVE  Sound'
<1> USE DEF Sound
<1>1. ctl.at = "done" /\ ctl' = Idle
  BY DEF Done, Leave
<1>2. dpkg'.status = StatusAfter(ctl.cmd, TRUE) /\ dpkg'.version = dpkg.version
  BY DEF Done, Leave, TypeOK
<1>3. UNCHANGED <<intent, op, removed, install, controllers, binary, quarantine, link, ack, session,
                  prov, logins, wish, usurped, hidden, halted, overlooked, gen, faults>>
  BY DEF Done, files, people
<1>4. StatusAfter(ctl.cmd, TRUE) \in Statuses
  BY DEF StatusAfter, Statuses, TypeOK
<1>5. TypeOK'
  <2>1. dpkg' \in [status : Statuses, version : Versions]
    BY <1>4 DEF Done, Leave, TypeOK
  <2>2. ctl' \in [cmd : Commands \cup {"none"}, at : Places \cup {"idle"}, left : SUBSET Users,
                  got : Settlements]
    BY <1>1 DEF Idle, Settlements
  <2> QED
    BY <1>3, <2>1, <2>2 DEF TypeOK
<1>6. (OnCourse /\ RecordFits /\ IntentFits /\ ProgressFits /\ OutcomeFits)'
  BY <1>1 DEF Idle, OnCourse, Course, RecordFits, IntentFits, ProgressFits, OutcomeFits, Finishes
<1>7. RoomLeft'
  BY <1>1, <1>2, <1>3 DEF Command, Idle, RoomLeft
<1>8. StatusFits'
  <2>1. ctl.cmd \in Commands
    BY <1>1 DEF Command, OnCourse, Course, TypeOK
  <2> QED
    BY <1>1, <1>2, <1>3, <1>4, <2>1 DEF Command, Idle, StatusFits, StatusAfter, StatusesFor, Statuses, RecordIs,
       RecordFits, ProgressFits, Commands
<1> QED
  BY <1>5, <1>6, <1>7, <1>8 DEF Command

LEMMA BeginReinstallIsSound ==
  ASSUME Sound, BeginReinstall
  PROVE  Sound'
<1> USE DEF Sound
<1>1. ctl.at = "begin" /\ ctl.cmd = "prepare-reinstall"
  BY DEF BeginReinstall, At
<1>2. op = None \/ op.kind \in {"reinstall", "purge"}
  BY <1>1 DEF Command, StatusFits, StatusesFor
<1>3. CASE Refuse
  BY <1>1, <1>3, RefusalFails, FailureIsSound DEF Idle
<1>4. CASE ~Refuse
  <2>1. (op = None \/ op.kind = "reinstall") /\ Go("reinstall") /\ UNCHANGED <<files, system, people, gen, faults>>
    BY <1>2, <1>4 DEF BeginReinstall
  <2>2. TypeOK' /\ Goes("reinstall")
    BY <2>1, GoesOnTyped DEF Places
  <2>3. (OnCourse /\ RecordFits /\ IntentFits /\ ProgressFits /\ OutcomeFits)'
    BY <1>1, <2>1, <2>2 DEF files, Goes, Course, OnCourse, RecordFits, RecordIs, IntentFits, ProgressFits,
       OutcomeFits, Finishes, Stops
  <2>4. (RoomLeft /\ StatusFits)'
    BY <1>1, <2>1, <2>2 DEF Command, files, system, Goes, RoomLeft, Room, StatusFits, StatusesFor, RecordIs
  <2> QED
    BY <2>2, <2>3, <2>4 DEF Command
<1> QED
  BY <1>3, <1>4

\* The record of an installation over a removal.
LEMMA SuccessionTyped ==
  ASSUME TypeOK, removed # None, NEW g \in Generations, ctl.cmd = "prepare-reinstall"
  PROVE  LET new == Succession(g) IN
         /\ new \in Operations /\ new # None
         /\ new.kind = "reinstall" /\ new.phase = "stopped" /\ new.who = Again
         /\ DOMAIN new.who = DOMAIN removed.who
         /\ \A u \in DOMAIN removed.who : /\ Again[u].choice = removed.who[u].choice
                                          /\ Again[u].settled = "pending"
<1>1. removed \in RemovalReceipts
  BY DEF TypeOK
<1>2. PICK S \in SUBSET Users : removed.who \in [S -> Participants]
  BY <1>1 DEF RemovalReceipts, ParticipantLists
<1>3. /\ Again \in [S -> Participants]
      /\ \A u \in S : Again[u].choice = removed.who[u].choice /\ Again[u].settled = "pending"
  BY <1>2 DEF Again, Participants, Settlements
<1>4. Again \in ParticipantLists
  BY <1>3, ListTyped
<1>5. Succession(g) \in Operations
  <2>1. removed.version \in Versions /\ removed.generation \in Generations /\ Target \in Versions
    BY <1>1 DEF RemovalReceipts, Target, TypeOK
  <2> QED
    BY <1>4, <2>1 DEF Succession, Operations, Kinds
<1>6. Succession(g) # None
  BY <1>5, NoneApart
<1>7. DOMAIN Again = S /\ DOMAIN removed.who = S
  BY <1>2, <1>3
<1> QED
  BY <1>3, <1>5, <1>6, <1>7 DEF Succession

LEMMA PrepareReinstallIsSound ==
  ASSUME Sound, PrepareReinstall
  PROVE  Sound'
<1> USE DEF Sound
<1>1. ctl.at = "reinstall" /\ ctl.cmd = "prepare-reinstall"
  BY CommandsByPlace DEF PrepareReinstall, Command
<1>2. CASE Refuse
  BY <1>1, <1>2, RefusalFails, FailureIsSound DEF Idle
<1>3. CASE /\ removed # None /\ op = None /\ Fresh /\ op' = Succession(gen + 1) /\ Go("adopt-controller")
           /\ UNCHANGED <<intent, removed, install, controllers, system, people, faults>>
  <2>1. Goes("adopt-controller")
    BY <1>3, TypesOfParts, GoesOn DEF Places
  <2>2. gen + 1 \in Generations
    BY <1>1, <1>3 DEF Command, RoomLeft, Room, TypeOK, Generations
  <2>3. op' \in Operations /\ op' # None /\ op'.kind = "reinstall"
    BY <1>1, <1>3, <2>2, SuccessionTyped
  <2>4. TypeOK'
    BY <1>3, <2>1, <2>2, <2>3, FilesOnly DEF OnlyFiles, FilesTyped, TypeOK, Goes, Fresh
  <2>5. (OnCourse /\ RecordFits /\ IntentFits /\ ProgressFits /\ OutcomeFits)'
    BY <1>1, <2>1, <2>3 DEF Goes, Course, OnCourse, RecordFits, RecordIs, IntentFits, ProgressFits,
       OutcomeFits, Finishes, Stops
  <2>6. (RoomLeft /\ StatusFits)'
    BY <1>1, <1>3, <2>1, <2>3 DEF Command, system, Goes, RoomLeft, Room, StatusFits, StatusesFor, RecordIs
  <2> QED
    BY <2>4, <2>5, <2>6 DEF Command
<1>4. CASE op # None /\ Go("adopt-controller") /\ UNCHANGED <<files, system, people, gen, faults>>
  <2>1. TypeOK' /\ Goes("adopt-controller")
    BY <1>4, GoesOnTyped DEF Places
  <2>2. op.kind = "reinstall"
    BY <1>1, <1>4 DEF Command, RecordFits
  <2>3. (OnCourse /\ RecordFits /\ IntentFits /\ ProgressFits /\ OutcomeFits)'
    BY <1>1, <1>4, <2>1, <2>2 DEF files, Goes, Course, OnCourse, RecordFits, RecordIs, IntentFits, ProgressFits,
       OutcomeFits, Finishes, Stops
  <2>4. (RoomLeft /\ StatusFits)'
    BY <1>1, <1>4, <2>1 DEF Command, files, system, Goes, RoomLeft, Room, StatusFits, StatusesFor, RecordIs
  <2> QED
    BY <2>1, <2>3, <2>4 DEF Command
<1> QED
  BY <1>2, <1>3, <1>4 DEF PrepareReinstall

LEMMA AdoptControllerIsSound ==
  ASSUME Sound, AdoptController
  PROVE  Sound'
<1> USE DEF Sound
<1>1. ctl.at = "adopt-controller" /\ ctl.cmd = "prepare-reinstall" /\ op # None /\ op.kind = "reinstall"
  BY CommandsByPlace DEF AdoptController, Command, RecordFits
<1>2. CASE Refuse
  BY <1>1, <1>2, RefusalFails, FailureIsSound DEF Idle
<1>3. CASE ~Refuse
  <2>1. /\ controllers' = (controllers \ {op.predecessor}) \cup {op.generation} /\ Go("done")
        /\ UNCHANGED <<intent, op, removed, install, system, people, gen, faults>>
    BY <1>3 DEF AdoptController
  <2>2. Goes("done")
    BY <2>1, TypesOfParts, GoesOn DEF Places
  <2>3. controllers' \subseteq Generations
    BY <1>1, <2>1 DEF TypeOK, Operations
  <2>4. TypeOK'
    BY <2>1, <2>2, <2>3, FilesOnly DEF OnlyFiles, FilesTyped, TypeOK, Goes
  <2>5. (OnCourse /\ RecordFits /\ IntentFits /\ ProgressFits /\ OutcomeFits)'
    BY <1>1, <2>1, <2>2 DEF Goes, Course, OnCourse, RecordFits, RecordIs, IntentFits, ProgressFits,
       OutcomeFits, Finishes, Stops
  <2>6. (RoomLeft /\ StatusFits)'
    BY <1>1, <2>1, <2>2 DEF Command, system, Goes, RoomLeft, Room, StatusFits, StatusesFor, RecordIs
  <2> QED
    BY <2>4, <2>5, <2>6 DEF Command
<1> QED
  BY <1>2, <1>3 

\* The record that a purge takes up, or makes of what it finds.
LEMMA PurgedTyped ==
  ASSUME TypeOK, ~(op = None /\ removed = None /\ intent = None)
  PROVE  /\ PurgedRecord \in Operations
         /\ op # None => PurgedRecord = op
         /\ op = None /\ removed # None => PurgedRecord.phase = "finalizing" /\ PurgedRecord.who = removed.who
         /\ op = None /\ removed = None => PurgedRecord.phase = "intent" /\ PurgedRecord.who = Discovered
<1>1. CASE op # None
  BY <1>1 DEF PurgedRecord, TypeOK
<1>2. CASE op = None /\ removed # None
  <2>1. removed \in RemovalReceipts
    BY <1>2 DEF TypeOK
  <2> QED
    BY <1>2, <2>1 DEF PurgedRecord, Operations, RemovalReceipts, Kinds, NoGeneration, Generations
<1>3. CASE op = None /\ removed = None
  <2>1. intent \in Intents
    BY <1>3 DEF TypeOK
  <2> QED
    BY <1>3, <2>1, OperationBegun DEF PurgedRecord, TypeOK
<1> QED
  BY <1>1, <1>2, <1>3

LEMMA BeginPurgeIsSound ==
  ASSUME Sound, BeginPurge
  PROVE  Sound'
<1> USE DEF Sound
<1>1. ctl.at = "begin" /\ ctl.cmd = "finish-purge"
  BY DEF BeginPurge, At
<1>2. CASE Refuse
  BY <1>1, <1>2, RefusalFails, FailureIsSound DEF Idle
<1>3. CASE op = None /\ Go("empty") /\ UNCHANGED <<files, system, people, gen, faults>>
  <2>1. TypeOK' /\ Goes("empty")
    BY <1>3, GoesOnTyped DEF Places
  <2>2. (OnCourse /\ RecordFits /\ IntentFits /\ ProgressFits /\ OutcomeFits)'
    BY <1>1, <1>3, <2>1 DEF files, Goes, Course, OnCourse, RecordFits, RecordIs, IntentFits, ProgressFits,
       OutcomeFits, Finishes, Stops
  <2>3. (RoomLeft /\ StatusFits)'
    BY <1>1, <1>3, <2>1 DEF Command, files, system, Goes, RoomLeft, Room, StatusFits, StatusesFor, RecordIs
  <2> QED
    BY <2>1, <2>2, <2>3 DEF Command
<1>4. CASE /\ ~(op = None /\ removed = None /\ intent = None)
           /\ op' = [PurgedRecord EXCEPT !.kind = "purge"] /\ Go("copy")
           /\ overlooked' = IF op = None /\ removed = None THEN overlooked \cup hidden ELSE overlooked
           /\ UNCHANGED <<intent, removed, install, controllers, system, link, ack, session, prov,
                          logins, wish, usurped, hidden, halted, gen, faults>>
  <2>1. PurgedRecord \in Operations
    BY <1>4, PurgedTyped
  <2>2. op' \in Operations /\ op' # None /\ op'.kind = "purge"
    <3>1. op' \in Operations /\ op'.kind = "purge"
      BY <1>4, <2>1 DEF Operations, Kinds
    <3> QED
      BY <3>1, NoneApart
  <2>3. Goes("copy")
    BY <1>4, TypesOfParts, GoesOn DEF Places
  <2>4. TypeOK'
    BY <1>4, <2>2, <2>3 DEF TypeOK, Goes, CtlTyped, system
  <2>5. (OnCourse /\ RecordFits /\ IntentFits /\ ProgressFits /\ OutcomeFits)'
    BY <1>1, <2>2, <2>3 DEF Goes, Course, OnCourse, RecordFits, RecordIs, IntentFits, ProgressFits,
       OutcomeFits, Finishes, Stops
  <2>6. (RoomLeft /\ StatusFits)'
    BY <1>1, <1>4, <2>2, <2>3 DEF Command, system, Goes, RoomLeft, Room, StatusFits, StatusesFor, RecordIs
  <2> QED
    BY <2>4, <2>5, <2>6 DEF Command
<1> QED
  BY <1>2, <1>3, <1>4 DEF BeginPurge

\* From place to place of a purge, after the stop.
PurgePlaces == {"empty", "acks", "receipts", "cleared", "controllers", "done"}
LEMMA PurgeGoesOn ==
  ASSUME Sound, ctl.at \in PurgePlaces \ {"done"}, NEW place \in PurgePlaces, Goes(place), TypeOK',
         UNCHANGED <<intent, system, gen>>,
         op' = None \/ (op # None /\ SameOrder(op')) \/ op' = op,
         removed' \in {None, removed}
  PROVE  Sound'
<1> USE DEF Sound
<1>1. ctl.cmd = "finish-purge"
  BY CommandsByPlace DEF Command, PurgePlaces
<1>2. (OnCourse /\ RecordFits /\ IntentFits /\ ProgressFits /\ OutcomeFits)'
  <2>1. op = None \/ op.kind = "purge"
    BY <1>1 DEF Command, RecordFits, PurgePlaces
  <2>2. op' = None \/ op'.kind = "purge"
    BY <2>1 DEF SameOrder
  <2> QED
    BY <1>1, <2>2 DEF Goes, Course, OnCourse, RecordFits, RecordIs, IntentFits, ProgressFits,
       OutcomeFits, Finishes, Stops, PurgePlaces
<1>3. (RoomLeft /\ StatusFits)'
  <2>1. binary = "none" /\ dpkg.status \in {"removing", "removed"}
    BY <1>1 DEF Command, StatusFits, StatusesFor
  <2>2. op' = None \/ op'.kind = "purge"
    BY <1>1 DEF Command, RecordFits, PurgePlaces, SameOrder
  <2> QED
    BY <1>1, <2>1, <2>2 DEF Goes, RoomLeft, StatusFits, StatusesFor, system
<1> QED
  BY <1>2, <1>3 DEF Command

LEMMA SettlePurgeIsSound ==
  ASSUME Sound, SettlePurge
  PROVE  Sound' /\ (op' = op \/ (/\ op # None /\ SameOrder(op') /\ op'.phase = "finalizing"
                                 /\ Everyone' = Everyone))
<1> USE DEF Sound
<1>1. ctl.at = "empty" /\ Go("acks") /\ UNCHANGED <<intent, removed, install, controllers, system, people, gen, faults>>
  BY DEF SettlePurge
<1>2. Goes("acks")
  BY <1>1, TypesOfParts, GoesOn DEF Places
<1>3. op' = op \/ (op # None /\ SameOrder(op') /\ op'.phase = "finalizing" /\ Everyone' = Everyone)
  <2>1. SUFFICES ASSUME op # None, op.phase # "finalizing"
                 PROVE  SameOrder(op') /\ op'.phase = "finalizing" /\ Everyone' = Everyone
    BY DEF SettlePurge
  <2> DEFINE who == [u \in DOMAIN op.who |-> [op.who[u] EXCEPT !.settled = "disabled"]]
             o == [op EXCEPT !.who = who]
  <2>2. op \in Operations
    BY <2>1 DEF TypeOK
  <2>3. op.who \in [Everyone -> Participants] /\ Everyone \subseteq Users
    BY <2>2, WhoTyped
  <2>4. who \in [Everyone -> Participants]
    BY <2>3 DEF Participants, Settlements
  <2>5. who \in ParticipantLists
    BY <2>3, <2>4, ListTyped
  <2>6. op' = [op EXCEPT !.phase = "finalizing", !.who = who]
    BY <2>1 DEF SettlePurge
  <2>7. DOMAIN who = Everyone
    BY <2>3, <2>4
  <2> HIDE DEF who
  <2>8. /\ op' \in Operations /\ op'.phase = "finalizing" /\ op'.who = who
    BY <2>2, <2>5, <2>6 DEF Operations
  <2>9. /\ op'.generation = op.generation /\ op'.kind = op.kind /\ op'.rollback = op.rollback
        /\ op'.source = op.source /\ op'.target = op.target /\ op'.predecessor = op.predecessor
    BY <2>2, <2>6 DEF Operations
  <2>10. op' # None
    BY <2>8, NoneApart
  <2> QED
    BY <2>7, <2>8, <2>9, <2>10 DEF SameOrder, Everyone
<1>4. TypeOK'
  BY <1>1, <1>2, <1>3, FilesOnly DEF OnlyFiles, FilesTyped, TypeOK, Goes, SameOrder
<1>5. Sound'
  BY <1>1, <1>2, <1>3, <1>4, PurgeGoesOn DEF PurgePlaces
<1> QED
  BY <1>3, <1>5

LEMMA ForgottenTyped ==
  ASSUME PeopleTyped, PurgeAcks, ~Refuse
  PROVE  PeopleTyped'
<1>1. /\ ack' = [u \in Users |-> IF u \in hidden THEN ack[u] ELSE None]
      /\ wish' = [u \in Users |-> FALSE]
      /\ usurped' = usurped \cup hidden \cup overlooked
      /\ UNCHANGED <<link, session, prov, logins, hidden, halted, overlooked>>
  BY DEF PurgeAcks, accounts
<1>2. ack' \in [Users -> [choice : BOOLEAN, runtime : Sessions] \cup {None}]
  BY <1>1 DEF PeopleTyped
<1> QED
  BY <1>1, <1>2 DEF PeopleTyped

LEMMA RestOfPurgeIsSound ==
  ASSUME Sound, RefusePurge \/ PurgeAcks \/ PurgeReceipts \/ PurgeRecord \/ PurgeControllers
  PROVE  Sound'
<1> USE DEF Sound
<1>1. CASE RefusePurge
  BY <1>1, RefusalFails, FailureIsSound DEF RefusePurge, Idle
<1>2. CASE PurgeAcks
  <2>1. CASE Refuse
    BY <1>2, <2>1, RefusalFails, FailureIsSound DEF PurgeAcks, Idle
  <2>2. CASE ~Refuse
    <3>1. Goes("receipts") /\ ctl.at = "acks" /\ UNCHANGED <<files, system, gen, faults>>
      BY <1>2, <2>2, TypesOfParts, GoesOn DEF PurgeAcks, Places
    <3>2. PeopleTyped'
      BY <1>2, <2>2, TypesOfParts, ForgottenTyped
    <3>3. TypeOK'
      BY <3>1, <3>2 DEF Goes, TypeOK, CtlTyped, PeopleTyped, files, system
    <3> QED
      BY <3>1, <3>3, PurgeGoesOn DEF PurgePlaces, files
  <2> QED
    BY <2>1, <2>2
<1>3. CASE PurgeReceipts
  <2>1. Goes("cleared")
    BY <1>3, TypesOfParts, GoesOn DEF PurgeReceipts, Places
  <2>2. TypeOK'
    BY <1>3, <2>1, FilesOnly DEF PurgeReceipts, OnlyFiles, FilesTyped, TypeOK, Goes
  <2> QED
    BY <1>3, <2>1, <2>2, PurgeGoesOn DEF PurgeReceipts, PurgePlaces
<1>4. CASE PurgeRecord
  <2>1. Goes("controllers")
    BY <1>4, TypesOfParts, GoesOn DEF PurgeRecord, Places
  <2>2. TypeOK'
    BY <1>4, <2>1, FilesOnly DEF PurgeRecord, OnlyFiles, FilesTyped, TypeOK, Goes
  <2> QED
    BY <1>4, <2>1, <2>2, PurgeGoesOn DEF PurgeRecord, PurgePlaces
<1>5. CASE PurgeControllers
  <2>1. Goes("done")
    BY <1>5, TypesOfParts, GoesOn DEF PurgeControllers, Places
  <2>2. TypeOK'
    BY <1>5, <2>1, FilesOnly DEF PurgeControllers, OnlyFiles, FilesTyped, TypeOK, Goes
  <2> QED
    BY <1>5, <2>1, <2>2, PurgeGoesOn DEF PurgeControllers, PurgePlaces
<1> QED
  BY <1>1, <1>2, <1>3, <1>4, <1>5

-----------------------------------------------------------------------------
(* Commands: the upgrade of a running program.                               *)

\* A command of the bootstrap goes on; the record is not its business.
Bootstraps == /\ TypeOK' /\ OnCourse' /\ IntentFits' /\ ctl'.cmd = ctl.cmd
              /\ ctl.cmd \in {"preinst-upgrade", "abort-upgrade"}
              /\ dpkg' = dpkg /\ op' = op /\ removed' = removed
              /\ binary' = binary \/ {binary, binary'} \cap {"none"} = {}
              /\ binary' = "wrapper" => dpkg.version < LastVersion
              /\ ctl'.at # "begin"

LEMMA BootstrapIsSound ==
  ASSUME Sound, Bootstraps
  PROVE  Sound'
<1> USE DEF Sound
<1>1. (RecordFits /\ ProgressFits /\ OutcomeFits)'
  BY DEF Bootstraps, OnCourse, Course, RecordFits, RecordIs, ProgressFits, OutcomeFits, Finishes, Stops
<1>2. RoomLeft'
  BY DEF Bootstraps, Command, RoomLeft
<1>3. StatusFits'
  BY DEF Bootstraps, Command, StatusFits, StatusesFor, RecordIs
<1> QED
  BY <1>1, <1>2, <1>3 DEF Bootstraps, Command

LEMMA BeginUpgradeIsSound ==
  ASSUME Sound, BeginUpgrade
  PROVE  Sound'
<1> USE DEF Sound
<1>1. /\ ctl.at = "begin" /\ ctl.cmd = "preinst-upgrade" /\ dpkg.version < LastVersion
      /\ binary # "none"
  BY DEF BeginUpgrade, At, Command, RoomLeft, StatusFits, StatusesFor
<1>2. CASE intent = None
  <2>1. /\ Fresh /\ intent' = NewIntent("upgrade", Target, "quarantining") /\ binary' = "app"
        /\ Go("wrap")
        /\ UNCHANGED <<op, removed, install, controllers, quarantine, dpkg, people, faults>>
    BY <1>2 DEF BeginUpgrade
  <2>2. Goes("wrap")
    BY <2>1, TypesOfParts, GoesOn DEF Places
  <2>3. gen' \in Generations /\ gen' = gen + 1
    BY <1>1, <1>2, <2>1 DEF Command, Fresh, RoomLeft, Room, TypeOK, Generations
  <2>4. Target \in Versions
    BY <1>1 DEF Target, TypeOK, Versions
  <2>5. intent' \in Intents /\ intent' # None
    <3>1. intent' \in Intents
      BY <2>1, <2>3, <2>4 DEF NewIntent, Intents, TypeOK
    <3> QED
      BY <3>1, NoneApart
  <2>6. TypeOK'
    BY <2>1, <2>2, <2>3, <2>5 DEF TypeOK, Goes, CtlTyped, people, Programs
  <2>7. (OnCourse /\ IntentFits)'
    BY <1>1, <2>1, <2>2, <2>5 DEF NewIntent, Goes, OnCourse, Course, IntentFits
  <2> QED
    BY <1>1, <2>1, <2>2, <2>6, <2>7, BootstrapIsSound DEF Bootstraps, Goes
<1>3. CASE Refuse
  BY <1>1, <1>3, RefusalFails, FailureIsSound DEF Idle
<1>4. CASE intent # None /\ ~Refuse
  <2> DEFINE place == IF intent.boot = "quarantining" THEN "wrap" ELSE "terminate"
  <2>1. Go(place) /\ UNCHANGED <<files, system, people, gen, faults>> /\ intent.kind = "upgrade"
    BY <1>4 DEF BeginUpgrade, IsBootstrap
  <2>2. TypeOK' /\ Goes(place)
    BY <2>1, GoesOnTyped DEF Places
  <2>3. (OnCourse /\ IntentFits)'
    BY <1>1, <1>4, <2>1, <2>2 DEF Goes, OnCourse, Course, IntentFits, files
  <2> QED
    BY <1>1, <2>1, <2>2, <2>3, BootstrapIsSound DEF Bootstraps, Goes, files, system
<1> QED
  BY <1>2, <1>3, <1>4

LEMMA QuarantineIsSound ==
  ASSUME Sound, Quarantine
  PROVE  Sound'
<1> USE DEF Sound
<1>1. ctl.cmd = "preinst-upgrade" /\ ctl.at = "wrap" /\ intent # None
  BY CommandsByPlace DEF Quarantine, Command, IntentFits
<1>2. TypeOK'
  <2>1. quarantine' \in Generations
    BY <1>1 DEF Quarantine, TypeOK, Intents
  <2> QED
    BY <2>1 DEF Quarantine, TypeOK, files, people
<1>3. (OnCourse /\ IntentFits)'
  BY <1>1 DEF Quarantine, Command, OnCourse, IntentFits, files
<1> QED
  BY <1>1, <1>2, <1>3, BootstrapIsSound DEF Bootstraps, Quarantine, files, Command, RoomLeft

LEMMA TakeAwayIsSound ==
  ASSUME Sound, TakeAway
  PROVE  Sound'
<1> USE DEF Sound
<1>1. /\ ctl.cmd = "preinst-upgrade" /\ ctl.at = "wrap" /\ binary # "none" /\ binary' = "away"
  BY CommandsByPlace DEF TakeAway, Command, StatusFits, StatusesFor
<1>2. TypeOK'
  BY DEF TakeAway, TypeOK, files, people
<1>3. (OnCourse /\ IntentFits)'
  BY <1>1 DEF TakeAway, Command, OnCourse, IntentFits, files
<1> QED
  BY <1>1, <1>2, <1>3, BootstrapIsSound DEF Bootstraps, TakeAway, files

LEMMA WrapIsSound ==
  ASSUME Sound, Wrap
  PROVE  Sound'
<1> USE DEF Sound
<1>1. /\ ctl.cmd = "preinst-upgrade" /\ ctl.at = "wrap" /\ intent # None /\ intent.kind = "upgrade"
      /\ binary # "none" /\ dpkg.version < LastVersion
  BY CommandsByPlace DEF Wrap, Command, IntentFits, StatusFits, StatusesFor, RoomLeft
<1>2. Goes("terminate")
  BY TypesOfParts, GoesOn DEF Wrap, Places
<1>3. TypeOK'
  BY <1>2 DEF Wrap, TypeOK, Goes, CtlTyped, files, people
<1>4. (OnCourse /\ IntentFits)'
  BY <1>1, <1>2 DEF Wrap, Goes, OnCourse, Course, IntentFits, files
<1> QED
  BY <1>1, <1>2, <1>3, <1>4, BootstrapIsSound DEF Bootstraps, Wrap, Goes, files

LEMMA TerminateIsSound ==
  ASSUME Sound, Terminate
  PROVE  Sound'
<1> USE DEF Sound
<1>1. /\ ctl.cmd = "preinst-upgrade" /\ ctl.at = "terminate" /\ intent # None /\ intent.kind = "upgrade"
  BY CommandsByPlace DEF Terminate, Command, IntentFits
<1>2. CASE Refuse
  BY <1>1, <1>2, RefusalFails, FailureIsSound DEF Idle
<1>3. CASE ~Refuse
  <2>1. /\ prov' = [u \in Users |-> "off"] /\ Go("quiesced")
        /\ UNCHANGED <<files, system, link, ack, session, logins, wish, usurped, accounts, gen, faults>>
    BY <1>3 DEF Terminate
  <2>2. Goes("quiesced")
    BY <2>1, TypesOfParts, GoesOn DEF Places
  <2>3. TypeOK'
    BY <2>1, <2>2 DEF TypeOK, Goes, CtlTyped, files, system, accounts
  <2>4. (OnCourse /\ IntentFits)'
    BY <1>1, <2>1, <2>2 DEF Goes, OnCourse, Course, IntentFits, files
  <2> QED
    BY <1>1, <2>1, <2>2, <2>3, <2>4, BootstrapIsSound DEF Bootstraps, Goes, files, system, Command, RoomLeft
<1> QED
  BY <1>2, <1>3

LEMMA QuiescedIsSound ==
  ASSUME Sound, Quiesced
  PROVE  Sound'
<1> USE DEF Sound
<1>1. /\ ctl.cmd = "preinst-upgrade" /\ ctl.at = "quiesced"
      /\ intent # None /\ intent \in Intents /\ intent.kind = "upgrade"
  BY CommandsByPlace DEF Quiesced, Command, IntentFits, TypeOK
<1>2. Goes("done")
  BY TypesOfParts, GoesOn DEF Quiesced, Places
<1>3. intent' \in Intents
  BY <1>1 DEF Quiesced, Intents
<1>4. TypeOK'
  BY <1>2, <1>3 DEF Quiesced, TypeOK, Goes, CtlTyped, system, people
<1>5. (OnCourse /\ IntentFits)'
  BY <1>1, <1>2 DEF Quiesced, Goes, OnCourse, Course, IntentFits
<1> QED
  BY <1>1, <1>2, <1>4, <1>5, BootstrapIsSound DEF Bootstraps, Quiesced, Goes, system, Command, RoomLeft

LEMMA AbortUpgradeIsSound ==
  ASSUME Sound, AbortUpgrade
  PROVE  Sound'
<1> USE DEF Sound
<1>1. ctl.at = "begin" /\ ctl.cmd = "abort-upgrade" /\ binary # "none"
  BY DEF AbortUpgrade, At, Command, StatusFits, StatusesFor
<1>2. CASE Refuse
  BY <1>1, <1>2, RefusalFails, FailureIsSound DEF Idle
<1>3. CASE intent = None
  <2>1. Go("done") /\ UNCHANGED <<files, system, people, gen, faults>>
    BY <1>3 DEF AbortUpgrade
  <2>2. TypeOK' /\ Goes("done")
    BY <2>1, GoesOnTyped DEF Places
  <2>3. (OnCourse /\ IntentFits)'
    BY <1>1, <2>1, <2>2 DEF Goes, OnCourse, Course, IntentFits, files
  <2> QED
    BY <1>1, <2>1, <2>2, <2>3, BootstrapIsSound DEF Bootstraps, Goes, files, system, Command, RoomLeft
<1>4. CASE intent # None /\ ~Refuse
  <2>1. /\ binary' = IF binary \in Programs THEN binary ELSE "restored"
        /\ Go("unquarantine")
        /\ UNCHANGED <<files, quarantine, dpkg, people, gen, faults>>
    BY <1>4 DEF AbortUpgrade
  <2>2. Goes("unquarantine")
    BY <2>1, TypesOfParts, GoesOn DEF Places
  <2>3. TypeOK'
    BY <2>1, <2>2 DEF TypeOK, Goes, CtlTyped, files, people, Programs
  <2>4. (OnCourse /\ IntentFits)'
    BY <1>1, <1>4, <2>1, <2>2 DEF Goes, OnCourse, Course, IntentFits, files
  <2> QED
    BY <1>1, <2>1, <2>2, <2>3, <2>4, BootstrapIsSound DEF Bootstraps, Goes, files, Command, RoomLeft, Programs
<1> QED
  BY <1>2, <1>3, <1>4

LEMMA UnquarantineIsSound ==
  ASSUME Sound, Unquarantine
  PROVE  Sound'
<1> USE DEF Sound
<1>1. ctl.at = "unquarantine" /\ ctl.cmd = "abort-upgrade" /\ intent # None
  BY CommandsByPlace DEF Unquarantine, Command, IntentFits
<1>2. Goes("unmark")
  BY TypesOfParts, GoesOn DEF Unquarantine, Places
<1>3. TypeOK'
  BY <1>2 DEF Unquarantine, TypeOK, Goes, CtlTyped, files, people, NoGeneration, Generations
<1>4. (OnCourse /\ IntentFits)'
  BY <1>1, <1>2 DEF Unquarantine, Goes, OnCourse, Course, IntentFits, files
<1> QED
  BY <1>1, <1>2, <1>3, <1>4, BootstrapIsSound DEF Bootstraps, Unquarantine, Goes, files, Command, RoomLeft

-----------------------------------------------------------------------------
(* Scripts start commands, and dpkg goes on.                                 *)

LEMMA StartIsSound ==
  ASSUME Sound, NEW cmd \in Commands, Start(cmd), UNCHANGED <<files, system, people, gen, faults>>,
         dpkg.status \in StatusesFor(cmd),
         cmd \in {"finish-remove", "finish-purge"} => binary = "none",
         cmd \in {"prepare-remove", "preinst-upgrade"} /\ intent = None => Room,
         cmd = "prepare-reinstall" /\ op = None => Room,
         cmd = "preinst-upgrade" => dpkg.version < LastVersion,
         cmd = "adopt-bootstrap" => intent # None
  PROVE  Sound'
<1> USE DEF Sound
<1>1. ctl'.cmd = cmd /\ ctl'.at = "begin" /\ CtlTyped'
  BY DEF Start, Idle, CtlTyped, Places, Settlements
<1>2. TypeOK'
  BY <1>1 DEF TypeOK, CtlTyped, files, system, people
<1>3. (OnCourse /\ RecordFits /\ IntentFits /\ ProgressFits /\ OutcomeFits)'
  BY <1>1 DEF OnCourse, Course, Commands, RecordFits, RecordIs, IntentFits, ProgressFits, OutcomeFits,
     Finishes, Stops, files
<1>4. (RoomLeft /\ StatusFits)'
  BY <1>1 DEF Command, Start, RoomLeft, Room, StatusFits, RecordIs, files, system
<1> QED
  BY <1>2, <1>3, <1>4 DEF Command

\* dpkg changes the status alone, and no command runs.
Notes(s) == /\ ctl = Idle /\ s \in Statuses /\ Becomes(s)
            /\ UNCHANGED <<files, binary, quarantine, ctl, people, gen>> /\ faults' \in 0..MaxFaults
LEMMA NoteIsSound ==
  ASSUME Sound, NEW s, Notes(s), StatusFits'
  PROVE  Sound'
<1> USE DEF Sound
<1>1. /\ dpkg'.version = dpkg.version /\ dpkg' \in [status : Statuses, version : Versions]
  BY DEF Notes, Becomes, TypeOK
<1>2. TypeOK'
  BY <1>1 DEF Notes, TypeOK, files, people
<1>3. (OnCourse /\ RecordFits /\ IntentFits /\ ProgressFits /\ OutcomeFits)'
  BY DEF Notes, Idle, OnCourse, Course, RecordFits, IntentFits, ProgressFits, OutcomeFits, Finishes
<1>4. RoomLeft'
  BY <1>1 DEF Notes, Idle, Command, RoomLeft
<1> QED
  BY <1>2, <1>3, <1>4 DEF Command

LEMMA ScriptsAreSound ==
  ASSUME Sound, Scripts
  PROVE  Sound'
<1> USE DEF Sound
<1> USE DEF Commands, StatusesFor
<1>1. CASE Prerm
  BY <1>1, StartIsSound DEF Prerm, Status
<1>2. CASE PostinstAbort
  BY <1>2, StartIsSound DEF PostinstAbort, Status
<1>3. CASE DeleteFiles
  <2>1. ctl = Idle /\ dpkg.status = "removing" /\ dpkg' = dpkg /\ ctl' = ctl /\ binary' = "none"
        /\ UNCHANGED <<files, quarantine, dpkg, ctl, people, gen, faults>>
    BY <1>3 DEF DeleteFiles, Status
  <2>2. TypeOK'
    BY <2>1 DEF TypeOK, files, people
  <2>3. (OnCourse /\ RecordFits /\ IntentFits /\ ProgressFits /\ OutcomeFits)'
    BY <2>1 DEF Idle, OnCourse, Course, RecordFits, IntentFits, ProgressFits, OutcomeFits, Finishes
  <2>4. (RoomLeft /\ StatusFits)'
    BY <2>1 DEF Idle, Command, RoomLeft, StatusFits, files, RecordIs
  <2> QED
    BY <2>2, <2>3, <2>4 DEF Command
<1>4. CASE Postrm
  <2>1. CASE op = None
    <3>1. Notes("removed")
      BY <1>4, <2>1 DEF Postrm, Notes, Status, Statuses, TypeOK
    <3>2. StatusFits'
      BY <1>4, <2>1, <3>1 DEF Postrm, Notes, Status, Becomes, Idle, Command, StatusFits, RecordIs, files, TypeOK
    <3> QED
      BY <3>1, <3>2, NoteIsSound
  <2>2. CASE op # None
    BY <1>4, <2>2, StartIsSound DEF Postrm, Status, system
  <2> QED
    BY <2>1, <2>2
<1>5. CASE PostrmPurge
  <2>0. dpkg.status \in {"removing", "removed"} /\ binary = "none"
    BY <1>5 DEF PostrmPurge, Status, Command, StatusFits
  <2>1. CASE OneController
    BY <1>5, <2>0, <2>1, StartIsSound DEF PostrmPurge, system
  <2>2. CASE ~OneController
    <3>1. Notes("absent") /\ op = None
      BY <1>5, <2>2 DEF PostrmPurge, Notes, Status, Statuses, TypeOK
    <3>2. StatusFits'
      BY <2>0, <3>1 DEF Notes, Becomes, Idle, Command, StatusFits, RecordIs, files, TypeOK
    <3> QED
      BY <3>1, <3>2, NoteIsSound
  <2> QED
    BY <2>1, <2>2
<1>6. CASE PreinstInstall
  <2>0. dpkg.status \in {"removed", "absent"} /\ binary = "none"
    BY <1>6 DEF PreinstInstall, Status, Command, StatusFits
  <2>1. CASE op = None /\ removed = None
    <3>1. Notes("unpacking")
      BY <1>6, <2>1 DEF PreinstInstall, Notes, Status, Statuses, TypeOK
    <3>2. StatusFits'
      BY <2>0, <2>1, <3>1 DEF Notes, Becomes, Idle, Command, StatusFits, RecordIs, files, TypeOK
    <3> QED
      BY <3>1, <3>2, NoteIsSound
  <2>2. CASE ~(op = None /\ removed = None)
    BY <1>6, <2>0, <2>2, StartIsSound DEF PreinstInstall, system
  <2> QED
    BY <2>1, <2>2
<1>7. CASE PreinstUpgrade
  BY <1>7, StartIsSound DEF PreinstUpgrade
<1>8. CASE PostrmAbort
  BY <1>8, StartIsSound DEF PostrmAbort, Status
<1>9. CASE Unpack
  <2>1. /\ ctl = Idle /\ dpkg.status = "unpacking" /\ ctl' = ctl /\ binary' = "app" /\ dpkg'.status = "unpacked"
        /\ UNCHANGED <<files, quarantine, ctl, people, gen, faults>>
    BY <1>9 DEF Unpack, Status
  <2>2. /\ dpkg'.version = IF binary = "wrapper" THEN dpkg.version + 1 ELSE dpkg.version
        /\ dpkg' \in [status : Statuses, version : Versions]
    BY <1>9 DEF Unpack, Command, RoomLeft, TypeOK, Statuses, Versions
  <2>3. TypeOK'
    BY <2>1, <2>2 DEF TypeOK, files, people, Programs
  <2>4. (OnCourse /\ RecordFits /\ IntentFits /\ ProgressFits /\ OutcomeFits)'
    BY <2>1 DEF Idle, OnCourse, Course, RecordFits, IntentFits, ProgressFits, OutcomeFits, Finishes
  <2>5. (RoomLeft /\ StatusFits)'
    BY <2>1, <2>2 DEF Idle, Command, RoomLeft, StatusFits, files, RecordIs
  <2> QED
    BY <2>3, <2>4, <2>5 DEF Command
<1>10. CASE PostinstConfigure
  <2>0. dpkg.status \in {"unpacked", "half-configured", "installed"} /\ binary # "none"
    BY <1>10 DEF PostinstConfigure, Status, Command, StatusFits
  <2>1. CASE intent # None
    BY <1>10, <2>0, <2>1, StartIsSound DEF PostinstConfigure, system
  <2>2. CASE intent = None /\ op # None
    BY <1>10, <2>0, <2>2, StartIsSound DEF PostinstConfigure, system
  <2>3. CASE intent = None /\ op = None
    <3>1. Notes("installed")
      BY <1>10, <2>3 DEF PostinstConfigure, Notes, Status, Statuses, TypeOK
    <3>2. StatusFits'
      BY <2>0, <2>3, <3>1 DEF Notes, Becomes, Idle, Command, StatusFits, RecordIs, files, TypeOK
    <3> QED
      BY <3>1, <3>2, NoteIsSound
  <2> QED
    BY <2>1, <2>2, <2>3
<1> QED
  BY <1>1, <1>2, <1>3, <1>4, <1>5, <1>6, <1>7, <1>8, <1>9, <1>10 DEF Scripts

LEMMA KilledIsSound ==
  ASSUME Sound, Killed
  PROVE  Sound'
<1> USE DEF Sound
<1>1. Notes("half-configured")
  BY DEF Killed, Notes, Status, Statuses, Fault, TypeOK
<1>2. StatusFits'
  BY <1>1 DEF Killed, Status, Notes, Becomes, Idle, Command, StatusFits, StatusesFor, RecordIs, files, TypeOK
<1> QED
  BY <1>1, <1>2, NoteIsSound

LEMMA DeathIsSound ==
  ASSUME Sound, Die
  PROVE  Sound'
<1>1. faults' \in 0..MaxFaults
  BY DEF Die, Fault, Sound, TypeOK
<1>2. Fails
  BY <1>1 DEF Die, Fails
<1> QED
  BY <1>2, FailureIsSound

\* An acknowledgement is written, with the provider where the step puts it.
LEMMA AckTyped ==
  ASSUME PeopleTyped, NEW u \in Users, NEW choice \in BOOLEAN,
         ack' = [ack EXCEPT ![u] = [choice |-> choice, runtime |-> session[u]]]
  PROVE  ack' \in [Users -> [choice : BOOLEAN, runtime : Sessions] \cup {None}]
<1>1. [choice |-> choice, runtime |-> session[u]] \in [choice : BOOLEAN, runtime : Sessions]
  BY DEF PeopleTyped
<1> QED
  BY <1>1 DEF PeopleTyped

LEMMA PublishTyped ==
  ASSUME PeopleTyped, NEW u \in Users, Publish(u)
  PROVE  PeopleTyped'
<1>1. /\ UNCHANGED <<link, session, logins, wish, usurped, hidden, halted>>
      /\ overlooked' \in {overlooked, overlooked \ {u}}
  BY DEF Publish
<1>2. PICK place \in {"serving", "off"} : prov' = [prov EXCEPT ![u] = place]
  BY DEF Publish, Runs
<1>3. link[u] \in BOOLEAN
  BY DEF PeopleTyped
<1>4. ack' = ack \/ ack' = [ack EXCEPT ![u] = [choice |-> link[u], runtime |-> session[u]]]
  BY DEF Publish
<1>5. ack' \in [Users -> [choice : BOOLEAN, runtime : Sessions] \cup {None}]
  BY <1>3, <1>4, AckTyped DEF PeopleTyped
<1> QED
  BY <1>1, <1>2, <1>5 DEF PeopleTyped

LEMMA ControlTyped ==
  ASSUME PeopleTyped, NEW u \in Users, Choose(u) \/ Halt(u)
  PROVE  PeopleTyped'
<1>1. /\ UNCHANGED <<session, logins, hidden>> /\ overlooked' = overlooked \ {u}
      /\ prov[u] \in {"off", "serving"}
  BY DEF Choose, Halt, Controls
<1>2. usurped' \in {usurped, usurped \ {u}} /\ halted' \in {halted \ {u}, halted \cup {u}}
  BY DEF Choose, Halt
<1>3. PICK c \in BOOLEAN : link' = [link EXCEPT ![u] = c]
  BY DEF Choose, Halt
<1>4. wish' = wish \/ \E choice \in BOOLEAN : wish' = [wish EXCEPT ![u] = choice]
  BY DEF Choose, Halt
<1>5. link[u] \in BOOLEAN
  BY DEF PeopleTyped
<1>6. PICK a \in BOOLEAN : ack' = [ack EXCEPT ![u] = [choice |-> a, runtime |-> session[u]]]
  BY <1>5 DEF Choose, Halt
<1>7. ack' \in [Users -> [choice : BOOLEAN, runtime : Sessions] \cup {None}]
  BY <1>6, AckTyped
<1>8. PICK place \in {"serving", "off"} : prov' = [prov EXCEPT ![u] = place]
  BY <1>1 DEF Choose, Halt, Runs
<1> QED
  BY <1>1, <1>2, <1>3, <1>4, <1>7, <1>8 DEF PeopleTyped

LEMMA PeopleAreSound ==
  ASSUME Sound, People
  PROVE  Sound'
<1> PICK u \in Users : \/ Launch(u) \/ Open(u) \/ Publish(u) \/ Exit(u) \/ AdmitJob(u)
                       \/ JobAccepted(u) \/ Choose(u) \/ Halt(u) \/ Obscure(u) \/ Reveal(u)
                       \/ Logout(u) \/ Login(u)
  BY DEF People
<1> USE DEF Sound
<1>1. UNCHANGED <<files, system, ctl, gen>>
  BY DEF Launch, Open, Begins, Publish, Exit, AdmitJob, JobAccepted, Controls, Choose, Halt, Obscure, Reveal,
     Logout, Login
<1>2. faults' \in 0..MaxFaults
  BY DEF Launch, Open, Begins, Publish, Exit, AdmitJob, JobAccepted, Choose, Halt, Obscure, Reveal,
     Logout, Login, Fault, TypeOK
<1>3. PeopleTyped'
  <2>1. CASE Launch(u) \/ Open(u) \/ Exit(u) \/ AdmitJob(u) \/ JobAccepted(u)
    BY <2>1 DEF Launch, Open, Begins, Exit, AdmitJob, JobAccepted, Runs, PeopleTyped, TypeOK, accounts
  <2>2. CASE Publish(u)
    BY <2>2, TypesOfParts, PublishTyped
  <2>3. CASE Choose(u) \/ Halt(u)
    BY <2>3, TypesOfParts, ControlTyped
  <2>4. CASE Logout(u)
    BY <2>4 DEF Logout, Runs, PeopleTyped, TypeOK, Sessions, accounts
  <2>5. CASE Login(u)
    BY <2>5 DEF Login, PeopleTyped, TypeOK, Sessions, accounts
  <2>6. CASE Obscure(u) \/ Reveal(u)
    BY <2>6 DEF Obscure, Reveal, PeopleTyped, TypeOK
  <2> QED
    BY <2>1, <2>2, <2>3, <2>4, <2>5, <2>6
<1> QED
  BY <1>1, <1>2, <1>3, PeopleLeaveCommands

LEMMA InitIsSound == Init => Sound
<1> SUFFICES ASSUME Init PROVE Sound
  OBVIOUS
<1>1. TypeOK
  BY DEF Init, TypeOK, Idle, Programs, Versions, Generations, Sessions, NoGeneration, InstallReceipts,
     Statuses, Settlements
<1>2. Command
  BY DEF Init, Idle, Command, OnCourse, Course, RecordFits, RecordIs, IntentFits, ProgressFits, OutcomeFits,
     RoomLeft, StatusFits, StatusesFor, Finishes, Stops, Statuses
<1> QED
  BY <1>1, <1>2 DEF Sound

LEMMA StutterIsSound ==
  ASSUME Sound, UNCHANGED vars
  PROVE  Sound'
<1>1. UNCHANGED <<files, system, ctl, gen>> /\ PeopleTyped' /\ faults' \in 0..MaxFaults
  BY DEF Sound, TypeOK, PeopleTyped, vars, people
<1> QED
  BY <1>1, PeopleLeaveCommands

LEMMA ControllerIsSound ==
  ASSUME Sound, Controller
  PROVE  Sound'
<1>1. CASE Preparing
  BY <1>1, MarkIsSound, MarkAgainIsSound, BeginAdoptionIsSound, RecordIsSound, CopyIsSound, StopIsSound,
     SuppressIsSound, AllStoppedIsSound, PreparedIsSound, AdoptIsSound, DequarantineIsSound, UnmarkIsSound
     DEF Preparing
<1>2. CASE Finishing
  BY <1>2, AbortRemoveIsSound, FinishBeginsIsSound, SettleIsSound, RecoverIsSound, ExamineIsSound,
     RestoreIsSound, AwaitIsSound, RelockIsSound, ReceiptIsSound, FinalizeIsSound, RetireIsSound,
     ForgetIsSound, ClearIsSound, DoneIsSound
     DEF Finishing
<1>3. CASE Reinstalling
  BY <1>3, BeginReinstallIsSound, PrepareReinstallIsSound, AdoptControllerIsSound DEF Reinstalling
<1>4. CASE Purging
  BY <1>4, BeginPurgeIsSound, SettlePurgeIsSound, RestOfPurgeIsSound DEF Purging
<1>5. CASE Upgrading
  BY <1>5, BeginUpgradeIsSound, QuarantineIsSound, TakeAwayIsSound, WrapIsSound, TerminateIsSound, QuiescedIsSound,
     AbortUpgradeIsSound, UnquarantineIsSound DEF Upgrading
<1> QED
  BY <1>1, <1>2, <1>3, <1>4, <1>5 DEF Controller

LEMMA NextIsSound ==
  ASSUME Sound, [Next]_vars
  PROVE  Sound'
BY ControllerIsSound, ScriptsAreSound, KilledIsSound, DeathIsSound, StopUnreadyIsSound, PeopleAreSound,
   StutterIsSound DEF Next

\* Every command keeps to its course, over a record and an intent of the kind it is for, wherever
\* package_control.rs was interrupted before and whichever command dpkg's scripts give it next.
THEOREM CommandsKeepCourse == Spec => []Sound
BY InitIsSound, NextIsSound, PTL DEF Spec

\* The files of the controller, the package's state and the users' state keep their types, for any
\* number of operations, deaths and failed writes of package_control.rs.
THEOREM PackageTypeCorrect == Spec => []TypeOK
BY CommandsKeepCourse, PTL DEF Sound

-----------------------------------------------------------------------------
(* Who runs while the program is exchanged.                                  *)

Excluded == /\ SharedExcluded /\ RunnersKnown /\ TransitionsOverlooked /\ StartsAwaited /\ RunnersStop /\ QuietPlaces
            /\ QuietWhileReplaced

\* The three parts of QuietWhileReplaced.
ExchangedQuiet ==
  /\ binary = "none" => Quiet
  /\ intent # None /\ intent.boot \in {"quiesced", "adopted"} => \A u \in Users : prov[u] = "off"
  /\ op # None /\ (op.phase = "stopped" \/ (op.phase \in {"settling", "finalizing"} /\ ~Restoring)) => Quiet
InTurn ==
  op # None /\ op.phase \in {"settling", "finalizing"} /\ ~op.rollback
    => \A u \in Users : Running(u) => /\ u \in Everyone /\ op.who[u].choice
                                        /\ op.who[u].settled \in {"pending", "ready"}
NoneAdmitting == ~Unbarred => \A u \in Users : prov[u] # "admitting"

LEMMA QuietParts == QuietWhileReplaced <=> ExchangedQuiet /\ InTurn /\ NoneAdmitting
BY DEF QuietWhileReplaced, ExchangedQuiet, InTurn, NoneAdmitting

\* A step that leaves the record, the intent and the users alone.
LEMMA SameViewStays ==
  ASSUME Excluded, UNCHANGED <<intent, op, prov, session, ack, halted, overlooked>>,
         binary' = "none" => binary = "none",
         ctl'.at \in {"idle", "restore", "await", "relock"} \/ ~SharedHeld,
         ctl'.at \notin {"stop", "suppress", "quiesced"}
  PROVE  Excluded'
<1>1. SharedExcluded' /\ RunnersStop' /\ QuietPlaces'
  BY DEF Excluded, SharedExcluded, SharedHeld, RunnersStop, Running, PassedOver, Everyone, QuietPlaces
<1>2. RunnersKnown' /\ TransitionsOverlooked' /\ StartsAwaited'
  BY DEF Excluded, RunnersKnown, TransitionsOverlooked, StartsAwaited, Unbarred, Restoring, Everyone
<1>3. QuietWhileReplaced'
  BY DEF Excluded, QuietWhileReplaced, Quiet, Running, PassedOver, Unbarred, Restoring, Everyone
<1> QED
  BY <1>1, <1>2, <1>3 DEF Excluded

\* A step under the exclusive locks: nobody is starting, and nobody begins.
LEMMA LockedStays ==
  ASSUME Excluded, ~SharedHeld, UNCHANGED <<prov, session, ack, halted, overlooked>>,
         op' # None \/ binary' = "none" => op # None \/ binary = "none",
         RunnersStop', QuietPlaces', ExchangedQuiet', InTurn'
  PROVE  Excluded'
<1>1. SharedExcluded' /\ RunnersKnown' /\ TransitionsOverlooked' /\ StartsAwaited'
  BY DEF Excluded, SharedExcluded, SharedHeld, RunnersKnown, TransitionsOverlooked, StartsAwaited
<1>2. NoneAdmitting'
  BY DEF SharedHeld, NoneAdmitting
<1>3. QuietWhileReplaced'
  BY <1>2 DEF QuietWhileReplaced, ExchangedQuiet, InTurn, NoneAdmitting
<1> QED
  BY <1>1, <1>3 DEF Excluded

\* Where nobody runs whom the discovery met, it does not matter what is written of them.
LEMMA QuietStays ==
  ASSUME Sound, Excluded, Quiet, ~SharedHeld, op # None \/ binary = "none",
         UNCHANGED <<intent, prov, session, halted>>, overlooked \subseteq overlooked',
         ctl'.at # "quiesced"
  PROVE  Excluded'
<1>1. halted \subseteq overlooked /\ halted \subseteq Users
  BY DEF Excluded, TransitionsOverlooked, Sound, TypeOK
<1>2. Quiet'
  BY DEF Quiet, Running, PassedOver
<1>3. SharedExcluded' /\ QuietPlaces' /\ StartsAwaited' /\ NoneAdmitting'
  BY DEF SharedHeld, SharedExcluded, QuietPlaces, StartsAwaited, NoneAdmitting
<1>4. RunnersKnown' /\ TransitionsOverlooked'
  BY <1>1 DEF Excluded, RunnersKnown, TransitionsOverlooked, Quiet, Running, PassedOver
<1>5. RunnersStop'
  BY <1>2 DEF RunnersStop, Quiet
<1>6. ExchangedQuiet' /\ InTurn'
  BY <1>2 DEF Excluded, QuietWhileReplaced, ExchangedQuiet, InTurn, Quiet
<1>7. QuietWhileReplaced'
  BY <1>3, <1>6 DEF QuietWhileReplaced, ExchangedQuiet, InTurn, NoneAdmitting
<1> QED
  BY <1>3, <1>4, <1>5, <1>7 DEF Excluded

LEMMA FailureExcludes ==
  ASSUME Excluded, Refuse \/ Die
  PROVE  Excluded'
<1>1. ctl' = Idle
  BY DEF Refuse, Die, Leave
<1>2. UNCHANGED <<intent, op, binary, prov, session, ack, halted, overlooked>> /\ ctl'.at = "idle"
  BY <1>1 DEF Refuse, Die, files, people, Idle
<1> QED
  BY <1>1, <1>2, SameViewStays

LEMMA GoingExcludes ==
  ASSUME Sound, Excluded,
         \/ MarkAgain \/ BeginAdoption \/ Prepared \/ Dequarantine \/ FinishBegins \/ Receipt \/ Retire
         \/ Forget \/ BeginReinstall \/ AdoptController \/ PurgeReceipts \/ PurgeControllers
         \/ Quarantine \/ TakeAway \/ Wrap \/ AbortUpgrade \/ Unquarantine
  PROVE  Excluded'
<1>1. CASE Refuse
  BY <1>1, FailureExcludes
<1>2. CASE ~Refuse
  <2> USE DEF files, system, people
  <2>0. ctl \in [cmd : Commands \cup {"none"}, at : Places \cup {"idle"}, left : SUBSET Users, got : Settlements]
    BY DEF Sound, TypeOK
  <2>1. /\ UNCHANGED <<intent, op, prov, session, ack, halted, overlooked>>
        /\ binary' = "none" => binary = "none"
        /\ ctl.at \notin {"idle", "restore", "await", "relock"}
        /\ ctl'.at \notin {"stop", "suppress", "quiesced"}
    <3>1. CASE MarkAgain \/ BeginAdoption \/ Prepared \/ Dequarantine \/ FinishBegins \/ BeginReinstall
      BY <1>2, <2>0, <3>1 DEF MarkAgain, BeginAdoption, Prepared, Dequarantine, FinishBegins, BeginReinstall, At, Go
    <3>2. CASE Receipt \/ Retire \/ Forget \/ AdoptController \/ PurgeReceipts \/ PurgeControllers
      BY <1>2, <2>0, <3>2 DEF Receipt, Retire, Forget, AdoptController, PurgeReceipts, PurgeControllers, Go
    <3>3. CASE Quarantine \/ TakeAway \/ Wrap \/ AbortUpgrade \/ Unquarantine
      BY <1>2, <2>0, <3>3 DEF Quarantine, TakeAway, Wrap, AbortUpgrade, Unquarantine, At, Go
    <3> QED
      BY <3>1, <3>2, <3>3
  <2>2. ~SharedHeld
    BY <2>1 DEF Excluded, SharedExcluded
  <2> QED
    BY <2>1, <2>2, SameViewStays
<1> QED
  BY <1>1, <1>2

\* With the locks released.
LEMMA ReleasedExcludes ==
  ASSUME Sound, Excluded, Restore \/ Await \/ Done
  PROVE  Excluded'
<1>1. CASE Refuse
  BY <1>1, FailureExcludes
<1>2. CASE ~Refuse
  <2>1. ctl \in [cmd : Commands \cup {"none"}, at : Places \cup {"idle"}, left : SUBSET Users, got : Settlements]
    BY DEF Sound, TypeOK
  <2>2. ctl'.at \in {"idle", "await", "relock"}
    <3>1. CASE Restore \/ Await
      BY <1>2, <2>1, <3>1 DEF Restore, Await, Go
    <3>2. CASE Done
      <4>1. ctl' = Idle
        BY <3>2 DEF Done, Leave
      <4> QED
        BY <4>1 DEF Idle
    <3> QED
      BY <3>1, <3>2
  <2>3. UNCHANGED <<intent, op, binary, prov, session, ack, halted, overlooked>>
    BY <1>2 DEF Restore, Await, Done, files, system, people, accounts
  <2> QED
    BY <2>2, <2>3, SameViewStays
<1> QED
  BY <1>1, <1>2

LEMMA IntentExcludes ==
  ASSUME Sound, Excluded, Mark \/ Adopt \/ Unmark \/ BeginUpgrade \/ Quiesced
  PROVE  Excluded'
<1>1. ctl \in [cmd : Commands \cup {"none"}, at : Places \cup {"idle"}, left : SUBSET Users, got : Settlements]
  BY DEF Sound, TypeOK
<1>2. CASE Refuse
  BY <1>2, FailureExcludes
<1>3. CASE ~Refuse
  <2> USE DEF files, system, people
  <2>1. ctl.at \notin {"idle", "restore", "await", "relock"}
    BY DEF Mark, Adopt, Unmark, BeginUpgrade, Quiesced, At
  <2>2. ~SharedHeld
    BY <2>1 DEF Excluded, SharedExcluded
  <2>3. UNCHANGED <<op, prov, session, ack, halted, overlooked>> /\ (binary' = "none" => binary = "none")
    BY <1>3 DEF Mark, Adopt, Unmark, BeginUpgrade, Quiesced
  <2>4. ctl'.at \notin {"stop", "suppress", "quiesced"}
    BY <1>1, <1>3 DEF Mark, Adopt, Unmark, BeginUpgrade, Quiesced, Go
  <2>5. intent' # None /\ intent'.boot \in {"quiesced", "adopted"} => \A v \in Users : prov[v] = "off"
    <3>1. CASE Mark \/ Unmark
      BY <3>1 DEF Mark, Unmark, NewIntent
    <3>2. CASE Adopt
      <4>1. intent # None /\ intent.boot \in {"quiesced", "adopted"}
        BY <3>2, CommandsByPlace DEF Adopt, Sound, Command, IntentFits
      <4> QED
        BY <4>1 DEF Excluded, QuietWhileReplaced
    <3>3. CASE BeginUpgrade
      BY <1>3, <3>3 DEF BeginUpgrade, NewIntent, Excluded, QuietWhileReplaced
    <3>4. CASE Quiesced
      BY <3>4 DEF Quiesced, Excluded, QuietPlaces
    <3> QED
      BY <3>1, <3>2, <3>3, <3>4
  <2>6. RunnersStop' /\ QuietPlaces'
    BY <2>3, <2>4 DEF Excluded, RunnersStop, Running, PassedOver, Everyone, QuietPlaces
  <2>7. ExchangedQuiet' /\ InTurn'
    BY <2>3, <2>5 DEF Excluded, QuietWhileReplaced, ExchangedQuiet, InTurn, Quiet, Running, PassedOver,
       Restoring, Everyone
  <2> QED
    BY <2>2, <2>3, <2>6, <2>7, LockedStays
<1> QED
  BY <1>2, <1>3

LEMMA RecordExcludes ==
  ASSUME Sound, Excluded, Record
  PROVE  Excluded'
<1>1. CASE Refuse
  BY <1>1, FailureExcludes
<1>2. CASE op # None /\ Go("copy") /\ UNCHANGED <<files, system, people, gen, faults>>
  <2>1. ctl'.at = "copy" /\ ctl.at = "record"
    BY <1>2 DEF Record, At, Go, Sound, TypeOK
  <2> QED
    BY <1>2, <2>1, SameViewStays DEF Excluded, SharedExcluded, files, system, people
<1>3. CASE op = None /\ ~Refuse
  <2>1. /\ op' = NewOperation(intent) /\ Go("copy") /\ ctl.at = "record" /\ Discoverable
        /\ overlooked' = (overlooked \cup hidden) \ Discovering
        /\ UNCHANGED <<intent, removed, install, controllers, system, link, ack, session, prov,
                       logins, wish, usurped, hidden, halted, gen, faults>>
    BY <1>3 DEF Record, At
  <2>2. intent \in Intents /\ intent # None
    BY <2>1 DEF Sound, Command, IntentFits, TypeOK
  <2>3. op' # None /\ op'.phase = "intent" /\ op'.who = Discovered
    BY <2>1, <2>2, OperationBegun DEF Sound, TypeOK
  <2>4. \A v \in Users : prov[v] \in {"off", "serving"}
    BY <2>1 DEF Excluded, SharedExcluded, SharedHeld, Sound, TypeOK
  <2>5. Everyone' = Discovering
    BY <2>3, DiscoveredTyped DEF Everyone, Sound, TypeOK
  <2>6. ctl'.at = "copy" /\ binary' # "none"
    <3>1. ctl.cmd \in {"prepare-remove", "adopt-bootstrap"}
      BY <1>3 DEF Record, At
    <3> QED
      BY <2>1, <3>1 DEF Go, system, Sound, TypeOK, Command, StatusFits, StatusesFor
  <2>7. SharedExcluded' /\ StartsAwaited' /\ NoneAdmitting' /\ QuietPlaces'
    BY <2>1, <2>4, <2>6 DEF SharedExcluded, SharedHeld, StartsAwaited, NoneAdmitting, QuietPlaces
  <2>8. RunnersKnown'
    BY <2>1 DEF Excluded, RunnersKnown, Discovering
  <2>9. TransitionsOverlooked'
    BY <2>1 DEF Excluded, RunnersKnown, TransitionsOverlooked, Discoverable, Discovering, Sound, TypeOK
  <2>10. RunnersStop'
    BY <2>1, <2>4, <2>5, <2>6 DEF Excluded, RunnersKnown, RunnersStop, Running, PassedOver, Discovering
  <2>11. ExchangedQuiet' /\ InTurn'
    BY <2>1, <2>3, <2>6 DEF Excluded, QuietWhileReplaced, ExchangedQuiet, InTurn
  <2>12. QuietWhileReplaced'
    BY <2>7, <2>11 DEF QuietWhileReplaced, ExchangedQuiet, InTurn, NoneAdmitting
  <2> QED
    BY <2>7, <2>8, <2>9, <2>10, <2>12 DEF Excluded
<1> QED
  BY <1>1, <1>2, <1>3 DEF Record

LEMMA CopyExcludes ==
  ASSUME Sound, Excluded, Copy
  PROVE  Excluded'
<1>1. /\ ctl.at = "copy" /\ UNCHANGED <<intent, op, system, people>> /\ op # None
      /\ ctl'.at = IF op.phase = "intent" THEN "stop" ELSE "stopped"
      /\ ctl'.left = Everyone
  BY DEF Copy, Sound, TypeOK, Command, RecordFits
<1>2. ~SharedHeld
  BY <1>1 DEF Excluded, SharedExcluded
<1>3. RunnersStop' /\ QuietPlaces'
  BY <1>1 DEF Excluded, RunnersStop, Running, PassedOver, Everyone, QuietPlaces, people
<1>4. ExchangedQuiet' /\ InTurn'
  BY <1>1 DEF Excluded, QuietWhileReplaced, ExchangedQuiet, InTurn, Quiet, Running, PassedOver, Restoring,
     Everyone, system, people
<1> QED
  BY <1>1, <1>2, <1>3, <1>4, LockedStays DEF people

\* One provider stops, or more: whoever runs afterwards ran before.
Fewer == /\ prov \in [Users -> {"off", "starting", "serving", "admitting"}]
         /\ prov' \in [Users -> {"off", "starting", "serving", "admitting"}]
         /\ \A v \in Users : prov'[v] \in {prov[v], "off"}
         /\ UNCHANGED <<session, ack, halted, overlooked>>
LEMMA FewerRun ==
  ASSUME Excluded, ~SharedHeld, Fewer, op # None, binary' = binary, RunnersStop', QuietPlaces', ExchangedQuiet', InTurn'
  PROVE  Excluded'
<1>1. ~SharedHeld'
  BY DEF SharedHeld, Fewer
<1>2. SharedExcluded' /\ RunnersKnown' /\ TransitionsOverlooked' /\ StartsAwaited'
  BY <1>1 DEF Excluded, SharedExcluded, SharedHeld, RunnersKnown, TransitionsOverlooked, StartsAwaited, Fewer
<1>3. NoneAdmitting'
  BY <1>1 DEF SharedHeld, NoneAdmitting
<1>4. QuietWhileReplaced'
  BY <1>3 DEF QuietWhileReplaced, ExchangedQuiet, InTurn, NoneAdmitting
<1> QED
  BY <1>2, <1>4 DEF Excluded

LEMMA StopExcludes ==
  ASSUME Sound, Excluded, Stop
  PROVE  Excluded'
<1> DEFINE u == First(ctl.left)
<1>1. CASE Refuse
  BY <1>1, FailureExcludes
<1>2. CASE ~Refuse
  <2>1. /\ ctl.at = "stop" /\ ctl.left # {}
        /\ op' = [op EXCEPT !.who[u] = Refreshed(u)] /\ prov' = [prov EXCEPT ![u] = "off"]
        /\ Go("suppress")
        /\ UNCHANGED <<intent, system, link, ack, session, accounts>>
    BY <1>2 DEF Stop
  <2>2. op # None /\ op \in Operations /\ op.phase = "intent" /\ ctl.left \subseteq Everyone
    BY <2>1 DEF Sound, Command, RecordFits, ProgressFits, TypeOK
  <2>3. u \in ctl.left /\ u \in Everyone /\ u \in Users
    BY <2>1, <2>2, WhoTyped, FirstIsOne
  <2>4. Refreshed(u) \in Participants
    BY <2>2, <2>3, RefreshedTyped DEF Sound, TypeOK
  <2>5. SameOrder(op') /\ op'.phase = "intent" /\ DOMAIN op'.who = Everyone
    <3> HIDE DEF u
    <3> QED
      BY <2>1, <2>2, <2>3, <2>4, ParticipantWritten
  <2>6. ctl'.at = "suppress" /\ ctl'.left = ctl.left
    BY <2>1 DEF Go, Sound, TypeOK
  <2>7. Fewer
    BY <2>1 DEF Fewer, Sound, TypeOK, accounts
  <2> HIDE DEF u
  <2>8. RunnersStop' /\ QuietPlaces'
    BY <2>1, <2>2, <2>5, <2>6, <2>7 DEF Excluded, RunnersStop, Running, PassedOver, Everyone, QuietPlaces,
       SameOrder, Fewer
  <2>9. ExchangedQuiet' /\ InTurn'
    BY <2>1, <2>5, <2>7 DEF Excluded, QuietWhileReplaced, ExchangedQuiet, InTurn, Quiet, Running, PassedOver,
       SameOrder, Fewer, system
  <2>10. ~SharedHeld
    BY <2>1 DEF Excluded, SharedExcluded
  <2> QED
    BY <2>1, <2>2, <2>7, <2>8, <2>9, <2>10, FewerRun DEF system
<1> QED
  BY <1>1, <1>2

LEMMA SuppressExcludes ==
  ASSUME Sound, Excluded, Suppress
  PROVE  Excluded'
<1> DEFINE u == First(ctl.left)
<1>1. CASE Refuse
  BY <1>1, FailureExcludes
<1>2. CASE ~Refuse
  <2>1. /\ ctl.at = "suppress" /\ prov[u] = "off"
        /\ UNCHANGED <<intent, op, binary, prov, session, ack, halted, overlooked>>
        /\ ctl'.at = "stop" /\ ctl'.left = ctl.left \ {u}
    BY <1>2 DEF Suppress, files, system, accounts, Sound, TypeOK
  <2> HIDE DEF u
  <2>2. ~SharedHeld
    BY <2>1 DEF Excluded, SharedExcluded
  <2>3. RunnersStop' /\ QuietPlaces'
    BY <2>1 DEF Excluded, RunnersStop, Running, PassedOver, Everyone, QuietPlaces
  <2>4. ExchangedQuiet' /\ InTurn'
    BY <2>1 DEF Excluded, QuietWhileReplaced, ExchangedQuiet, InTurn, Quiet, Running, PassedOver, Restoring,
       Everyone
  <2> QED
    BY <2>1, <2>2, <2>3, <2>4, LockedStays
<1> QED
  BY <1>1, <1>2

LEMMA AllStoppedExcludes ==
  ASSUME Sound, Excluded, AllStopped
  PROVE  Excluded'
<1>1. /\ ctl.at = "stop" /\ ctl.left = {} /\ op # None /\ ctl'.at = "stopped"
      /\ UNCHANGED <<intent, prov, session, halted, overlooked>>
  BY DEF AllStopped, Go, Sound, TypeOK, Command, RecordFits, people
<1>2. Quiet /\ ~SharedHeld
  BY <1>1 DEF Excluded, RunnersStop, Quiet, SharedExcluded
<1> QED
  BY <1>1, <1>2, QuietStays

\* A step that writes the record while nobody has anybody to stop.
LEMMA SettlingExcludes ==
  ASSUME Excluded, ~SharedHeld, UNCHANGED <<intent, binary, prov, session, ack, halted, overlooked>>,
         op' # None => op # None /\ op'.phase # "intent", ctl'.at \notin {"stop", "suppress", "quiesced"},
         op' # None /\ (op'.phase = "stopped" \/ ~Restoring') => Quiet,
         InTurn'
  PROVE  Excluded'
<1>1. RunnersStop' /\ QuietPlaces'
  BY DEF RunnersStop, QuietPlaces
<1>2. ExchangedQuiet'
  BY DEF Excluded, QuietWhileReplaced, ExchangedQuiet, Quiet, Running, PassedOver
<1> QED
  BY <1>1, <1>2, LockedStays

LEMMA AbortRemoveExcludes ==
  ASSUME Sound, Excluded, AbortRemove
  PROVE  Excluded'
<1>1. CASE Refuse
  BY <1>1, FailureExcludes
<1>2. CASE ~Refuse
  <2>1. /\ ctl.at = "begin" /\ ctl'.at = "unmark"
        /\ UNCHANGED <<intent, binary, prov, session, ack, halted, overlooked>>
    BY <1>2 DEF AbortRemove, At, Go, files, system, people, Sound, TypeOK
  <2>2. ~SharedHeld
    BY <2>1 DEF Excluded, SharedExcluded
  <2>3. CASE op' = op
    BY <2>1, <2>2, <2>3, SameViewStays
  <2>4. CASE op' # op
    <3>1. op # None /\ op' = [op EXCEPT !.rollback = TRUE, !.phase = "settling"]
      BY <1>2, <2>4 DEF AbortRemove, AbortsOwn, Valid, files
    <3>2. op'.rollback = TRUE /\ op'.phase = "settling"
      BY <3>1 DEF Sound, TypeOK, Operations
    <3> QED
      BY <2>1, <2>2, <3>1, <3>2, SettlingExcludes DEF Restoring, InTurn
  <2> QED
    BY <2>3, <2>4
<1> QED
  BY <1>1, <1>2

LEMMA SettleExcludes ==
  ASSUME Sound, Excluded, Settle
  PROVE  Excluded'
<1>1. CASE Refuse
  BY <1>1, FailureExcludes
<1>2. CASE ~Refuse
  <2>1. /\ ctl.at = "settle" /\ ctl'.at \in {"examine", "retire"}
        /\ UNCHANGED <<intent, binary, prov, session, ack, halted, overlooked>>
    BY <1>2 DEF Settle, Go, files, system, people, Sound, TypeOK
  <2>2. ~SharedHeld
    BY <2>1 DEF Excluded, SharedExcluded
  <2>3. CASE op' = op
    BY <2>1, <2>2, <2>3, SameViewStays
  <2>4. CASE op' # op
    <3>1. op.phase \in {"stopped", "settling"} /\ op' = [op EXCEPT !.phase = "settling"]
      BY <1>2, <2>4 DEF Settle, files
    <3>2. op # None /\ op \in Operations
      BY <2>1, CommandsByPlace DEF Finishes, Sound, Command, RecordFits, RecordIs, TypeOK
    <3>3. op.phase = "stopped"
      BY <2>4, <3>1, <3>2 DEF Operations
    <3>4. Quiet
      BY <3>2, <3>3 DEF Excluded, QuietWhileReplaced
    <3> QED
      BY <2>1, <2>2, <3>2, <3>4, QuietStays
  <2> QED
    BY <2>3, <2>4
<1> QED
  BY <1>1, <1>2

\* One participant's settlement: what is written agrees with whether he runs.
LEMMA TurnExcludes ==
  ASSUME Sound, Excluded, ctl.at \in {"examine", "relock"}, ctl.left # {}, ~SharedHeld,
         NEW s \in Settlements, op' = Settled(First(ctl.left), s),
         UNCHANGED <<intent, binary, prov, session, ack, halted, overlooked>>,
         ctl'.at \in {"examine", "restore"},
         ~op.rollback /\ Running(First(ctl.left)) => s \in {"pending", "ready"}
  PROVE  Excluded'
<1> DEFINE u == First(ctl.left)
<1>1. /\ op # None /\ op \in Operations /\ op.phase = "settling" /\ u \in Everyone
  BY TurnOfOne
<1>2. /\ SameOrder(op') /\ op'.phase = op.phase /\ DOMAIN op'.who = Everyone
      /\ \A v \in Everyone : op'.who[v].choice = op.who[v].choice
      /\ \A v \in Everyone \ {u} : op'.who[v] = op.who[v]
      /\ op'.who[u].settled = s
  BY SettlementWritten
<1> HIDE DEF u
<1>3. Everyone' = Everyone /\ Restoring' = Restoring
  BY <1>1, <1>2 DEF Everyone, Restoring, SameOrder
<1>4. ~Restoring => Quiet
  BY <1>1 DEF Excluded, QuietWhileReplaced
<1>5. InTurn'
  <2> SUFFICES ASSUME ~op'.rollback, NEW v \in Users, Running(v)
               PROVE  v \in Everyone /\ op'.who[v].choice /\ op'.who[v].settled \in {"pending", "ready"}
    BY <1>3 DEF InTurn, Running, PassedOver
  <2>1. v \in Everyone /\ op.who[v].choice /\ op.who[v].settled \in {"pending", "ready"}
    BY <1>1, <1>2 DEF Excluded, QuietWhileReplaced, SameOrder
  <2>2. CASE v = u
    BY <1>2, <2>1, <2>2 DEF u, SameOrder
  <2>3. CASE v # u
    BY <1>2, <2>1, <2>3
  <2> QED
    BY <2>2, <2>3
<1> QED
  BY <1>1, <1>2, <1>3, <1>4, <1>5, SettlingExcludes

LEMMA RecoverExcludes ==
  ASSUME Sound, Excluded, Recover
  PROVE  Excluded'
<1>1. CASE Refuse
  BY <1>1, FailureExcludes
<1>2. CASE ~Refuse
  <2>1. /\ ctl.at = "examine" /\ ctl.left # {} /\ SettleAs(First(ctl.left), "ready")
        /\ UNCHANGED <<intent, binary, prov, session, ack, halted, overlooked>>
    BY <1>2 DEF Recover, SettleAs, system, accounts
  <2>2. op' = Settled(First(ctl.left), "ready") /\ ctl'.at = "examine"
    BY <2>1 DEF SettleAs, Sound, TypeOK
  <2>3. ~SharedHeld
    BY <2>1 DEF Excluded, SharedExcluded
  <2> QED
    BY <2>1, <2>2, <2>3, TurnExcludes DEF Settlements
<1> QED
  BY <1>1, <1>2

LEMMA ExamineExcludes ==
  ASSUME Sound, Excluded, Examine
  PROVE  Excluded'
<1>1. CASE Refuse
  BY <1>1, FailureExcludes
<1>2. CASE ~Refuse
  <2>1. /\ ctl.at = "examine" /\ ctl.left # {} /\ prov[First(ctl.left)] = "off"
        /\ UNCHANGED <<intent, binary, prov, session, ack, halted, overlooked>>
    BY <1>2 DEF Examine, SettleAs, system, people
  <2>2. PICK s \in {"pending", "disabled"} : op' = Settled(First(ctl.left), s) /\ ctl'.at \in {"examine", "restore"}
    BY <1>2 DEF Examine, SettleAs, Go, Sound, TypeOK
  <2>3. ~SharedHeld
    BY <2>1 DEF Excluded, SharedExcluded
  <2>4. s \in Settlements
    BY DEF Settlements
  <2> QED
    BY <2>1, <2>2, <2>3, <2>4, TurnExcludes DEF Running
<1> QED
  BY <1>1, <1>2

LEMMA RelockExcludes ==
  ASSUME Sound, Excluded, Relock
  PROVE  Excluded'
<1> DEFINE u == First(ctl.left)
<1>1. CASE Refuse
  BY <1>1, FailureExcludes
<1>2. CASE ~Refuse
  <2>1. /\ ctl.at = "relock" /\ ~SharedHeld /\ Restored(u) /\ SettleAs(u, ctl.got)
        /\ UNCHANGED <<intent, binary, prov, session, ack, halted, overlooked>>
    BY <1>2 DEF Relock, SettleAs, system, accounts
  <2>2. op' = Settled(u, ctl.got) /\ ctl'.at = "examine"
    BY <2>1 DEF SettleAs, Sound, TypeOK
  <2>3. /\ ctl.left # {} /\ ctl.got \in {"disabled", "deferred", "ready"}
        /\ ctl.got = "disabled" <=> ~op.who[u].choice
    BY <2>1 DEF Sound, Command, ProgressFits, OutcomeFits
  <2>4. u \in Users /\ op # None /\ op.phase = "settling"
    BY <2>1, <2>3, TurnOfOne, WhoTyped
  <2>5. ~op.rollback /\ Running(u) => ctl.got = "ready"
    <3> SUFFICES ASSUME ~op.rollback, Running(u) PROVE ctl.got = "ready"
      OBVIOUS
    <3>1. op.who[u].choice
      BY <2>4 DEF Excluded, QuietWhileReplaced
    <3>2. session[u] # 0
      BY <2>4 DEF Excluded, RunnersKnown, Running
    <3> QED
      BY <2>1, <2>3, <3>1, <3>2 DEF Restored
  <2>6. ctl.got \in Settlements
    BY <2>3 DEF Settlements
  <2> QED
    BY <2>1, <2>2, <2>3, <2>5, <2>6, TurnExcludes
<1> QED
  BY <1>1, <1>2

LEMMA FinalizeExcludes ==
  ASSUME Sound, Excluded, Finalize
  PROVE  Excluded'
<1>1. /\ ctl.at = "receipt" /\ op' = [op EXCEPT !.phase = "finalizing"] /\ ctl'.at = "retire"
      /\ UNCHANGED <<intent, binary, prov, session, ack, halted, overlooked>>
  BY DEF Finalize, Go, system, people, Sound, TypeOK
<1>2. op # None /\ op \in Operations /\ op.phase \in {"settling", "finalizing"}
  BY <1>1, CommandsByPlace DEF Finishes, Sound, Command, RecordFits, RecordIs, ProgressFits, TypeOK
<1>3. SameOrder(op') /\ op'.phase = "finalizing" /\ op'.who = op.who
  BY <1>1, <1>2, PhaseWritten
<1>4. ~SharedHeld
  BY <1>1 DEF Excluded, SharedExcluded
<1>5. Everyone' = Everyone /\ Restoring' = Restoring
  BY <1>2, <1>3 DEF Everyone, Restoring, SameOrder
<1>6. InTurn' /\ (~Restoring => Quiet)
  BY <1>1, <1>2, <1>3, <1>5 DEF Excluded, QuietWhileReplaced, InTurn, Running, PassedOver, SameOrder
<1> QED
  BY <1>1, <1>2, <1>3, <1>4, <1>5, <1>6, SettlingExcludes

LEMMA ClearExcludes ==
  ASSUME Sound, Excluded, Clear
  PROVE  Excluded'
<1>1. /\ ctl.at = "clear" /\ op' = None /\ ctl'.at \in {"reinstall", "done"}
      /\ UNCHANGED <<intent, binary, prov, session, ack, halted, overlooked>>
  BY DEF Clear, Go, system, people, Sound, TypeOK
<1>2. ~SharedHeld
  BY <1>1 DEF Excluded, SharedExcluded
<1> QED
  BY <1>1, <1>2, SettlingExcludes DEF InTurn

LEMMA StopUnreadyExcludes ==
  ASSUME Sound, Excluded, StopUnready
  PROVE  Excluded'
<1>1. ctl.at = "examine" /\ UNCHANGED <<intent, op, binary, ctl, session, ack>>
  BY DEF StopUnready, files, system, accounts
<1>2. Fewer
  BY DEF StopUnready, Fewer, Sound, TypeOK, accounts
<1>3. ~SharedHeld
  BY <1>1 DEF Excluded, SharedExcluded
<1>4. RunnersStop' /\ QuietPlaces'
  BY <1>1, <1>2 DEF Excluded, RunnersStop, Running, PassedOver, Everyone, QuietPlaces, Fewer
<1>5. ExchangedQuiet' /\ InTurn'
  BY <1>1, <1>2 DEF Excluded, QuietWhileReplaced, ExchangedQuiet, InTurn, Quiet, Running, PassedOver,
     Restoring, Everyone, Fewer
<1>6. op # None
  BY <1>1, CommandsByPlace DEF Finishes, Sound, Command, RecordFits, RecordIs
<1> QED
  BY <1>1, <1>2, <1>3, <1>4, <1>5, <1>6, FewerRun

\* Without the program nobody runs, whatever is installed again or purged.
LEMMA PurgeExcludes ==
  ASSUME Sound, Excluded, PrepareReinstall \/ BeginPurge \/ SettlePurge \/ RefusePurge \/ PurgeAcks \/ PurgeRecord
  PROVE  Excluded'
<1>1. ctl.cmd = "finish-purge" \/ ctl.at = "reinstall"
  BY CommandsByPlace DEF PrepareReinstall, BeginPurge, SettlePurge, RefusePurge, PurgeAcks, PurgeRecord, At,
     Sound, Command
<1>2. ctl.cmd = "finish-purge" \/ ctl.cmd = "prepare-reinstall"
  BY <1>1, CommandsByPlace DEF Sound, Command
<1>3. binary = "none"
  BY <1>2 DEF Sound, Command, StatusFits, StatusesFor
<1>4. Quiet
  BY <1>3 DEF Excluded, QuietWhileReplaced
<1>5. CASE Refuse
  BY <1>5, FailureExcludes
<1>6. CASE ~Refuse
  <2>1. UNCHANGED <<intent, prov, session, halted>> /\ overlooked \subseteq overlooked'
    BY <1>6 DEF PrepareReinstall, BeginPurge, SettlePurge, RefusePurge, PurgeAcks, PurgeRecord, files, people,
       accounts
  <2>2. ctl.at \notin {"idle", "restore", "await", "relock"} /\ ctl'.at # "quiesced"
    BY <1>6 DEF PrepareReinstall, BeginPurge, SettlePurge, RefusePurge, PurgeAcks, PurgeRecord, At, Go, Sound,
       TypeOK
  <2>3. ~SharedHeld
    BY <2>2 DEF Excluded, SharedExcluded
  <2> QED
    BY <1>3, <1>4, <2>1, <2>2, <2>3, QuietStays
<1> QED
  BY <1>5, <1>6

LEMMA TerminateExcludes ==
  ASSUME Sound, Excluded, Terminate
  PROVE  Excluded'
<1>1. CASE Refuse
  BY <1>1, FailureExcludes
<1>2. CASE ~Refuse
  <2>1. /\ UNCHANGED <<intent, op, binary, ack, halted, overlooked>>
        /\ \A v \in Users : prov'[v] = "off"
    BY <1>2 DEF Terminate, files, system, accounts
  <2>2. SharedExcluded' /\ RunnersKnown' /\ TransitionsOverlooked' /\ StartsAwaited'
    BY <2>1 DEF Excluded, SharedExcluded, SharedHeld, RunnersKnown, TransitionsOverlooked, StartsAwaited
  <2>3. RunnersStop' /\ QuietPlaces' /\ QuietWhileReplaced'
    BY <2>1 DEF RunnersStop, QuietPlaces, QuietWhileReplaced, Quiet, Running
  <2> QED
    BY <2>2, <2>3 DEF Excluded
<1> QED
  BY <1>1, <1>2

LEMMA ControllerExcludes ==
  ASSUME Sound, Excluded, Controller
  PROVE  Excluded'
<1>1. CASE Preparing
  BY <1>1, IntentExcludes, GoingExcludes, RecordExcludes, CopyExcludes, StopExcludes, SuppressExcludes,
     AllStoppedExcludes
     DEF Preparing
<1>2. CASE Finishing
  BY <1>2, AbortRemoveExcludes, GoingExcludes, SettleExcludes, RecoverExcludes, ExamineExcludes,
     ReleasedExcludes, RelockExcludes, FinalizeExcludes, ClearExcludes
     DEF Finishing
<1>3. CASE Reinstalling
  BY <1>3, GoingExcludes, PurgeExcludes DEF Reinstalling
<1>4. CASE Purging
  BY <1>4, GoingExcludes, PurgeExcludes DEF Purging
<1>5. CASE Upgrading
  BY <1>5, GoingExcludes, IntentExcludes, TerminateExcludes DEF Upgrading
<1> QED
  BY <1>1, <1>2, <1>3, <1>4, <1>5 DEF Controller

LEMMA ScriptsExclude ==
  ASSUME Sound, Excluded, Scripts \/ Killed
  PROVE  Excluded'
<1> USE DEF files, system, people
<1>1. CASE DeleteFiles
  <2>1. /\ dpkg.status = "removing" /\ binary # "none" /\ ctl'.at = "idle"
        /\ UNCHANGED <<intent, prov, session, halted, overlooked>>
    BY <1>1 DEF DeleteFiles, Status, Idle
  <2>2. RecordIs({"remove"}, FALSE) /\ op.phase # "intent" /\ op \in Operations
    BY <2>1 DEF Sound, Command, StatusFits, TypeOK, RecordIs
  <2>3. op # None /\ op.phase \in {"stopped", "settling", "finalizing"} /\ ~Restoring
    BY <2>2 DEF RecordIs, Restoring, Operations
  <2>4. Quiet
    BY <2>3 DEF Excluded, QuietWhileReplaced
  <2>5. ~SharedHeld
    BY <2>3, <2>4 DEF Excluded, QuietWhileReplaced, Quiet, Running, PassedOver, SharedHeld, Unbarred
  <2> QED
    BY <2>1, <2>3, <2>4, <2>5, QuietStays
<1>2. CASE Unpack
  <2>1. UNCHANGED <<intent, op, ctl, prov, session, ack, halted, overlooked>> /\ binary' # "none" /\ ctl.at = "idle"
    BY <1>2 DEF Unpack, Status, Idle
  <2> QED
    BY <2>1, SameViewStays
<1>3. CASE ctl' = ctl /\ ~DeleteFiles /\ ~Unpack
  <2>1. UNCHANGED <<intent, op, binary, prov, session, ack, halted, overlooked>> /\ ctl = Idle
    BY <1>3 DEF Scripts, Killed, Prerm, PostinstAbort, Postrm, PostrmPurge, PreinstInstall,
       PreinstUpgrade, PostrmAbort, PostinstConfigure, Start, Status
  <2>2. ctl'.at = "idle"
    BY <1>3, <2>1 DEF Idle
  <2> QED
    BY <2>1, <2>2, SameViewStays
<1>4. CASE ctl' # ctl /\ ~DeleteFiles /\ ~Unpack
  <2>1. PICK cmd \in Commands : Start(cmd)
    BY <1>4 DEF Scripts, Killed, Prerm, PostinstAbort, Postrm, PostrmPurge, PreinstInstall,
       PreinstUpgrade, PostrmAbort, PostinstConfigure, Commands
  <2>2. UNCHANGED <<intent, op, binary, prov, session, ack, halted, overlooked>>
    BY <1>4 DEF Scripts, Killed, Prerm, PostinstAbort, Postrm, PostrmPurge, PreinstInstall,
       PreinstUpgrade, PostrmAbort, PostinstConfigure
  <2>3. ctl'.at = "begin" /\ ~SharedHeld
    BY <2>1 DEF Start, Idle
  <2> QED
    BY <2>2, <2>3, SameViewStays
<1> QED
  BY <1>1, <1>2, <1>3, <1>4

\* Nobody begins but between operations, or in his turn.
LEMMA BeginningExcludes ==
  ASSUME Sound, Excluded, NEW u \in Users, Begins(u)
  PROVE  Excluded'
<1>1. /\ session[u] # 0 /\ binary \in Programs /\ ~Locked /\ (Unbarred \/ Awaited(u))
      /\ prov' = [prov EXCEPT ![u] = "starting"]
      /\ UNCHANGED <<intent, op, binary, ctl, session, ack, halted, overlooked>>
      /\ prov \in [Users -> {"off", "starting", "serving", "admitting"}]
  BY DEF Begins, Runs, files, system, accounts, Sound, TypeOK
<1>2. /\ prov'[u] = "starting" /\ \A v \in Users \ {u} : prov'[v] = prov[v]
      /\ ctl.at \in {"idle", "restore", "await"}
      /\ intent = None /\ binary # "none"
      /\ op # None => /\ Restoring /\ op.phase = "settling" /\ u \in Everyone
                      /\ op.who[u].choice /\ op.who[u].settled = "pending"
  BY <1>1 DEF Locked, Programs, Unbarred, Awaited
<1>3. SharedExcluded' /\ RunnersStop' /\ QuietPlaces'
  BY <1>1, <1>2 DEF SharedExcluded, RunnersStop, QuietPlaces
<1>4. RunnersKnown' /\ TransitionsOverlooked'
  BY <1>1, <1>2 DEF Excluded, RunnersKnown, TransitionsOverlooked
<1>5. StartsAwaited'
  BY <1>1, <1>2 DEF Excluded, StartsAwaited, Unbarred, Restoring, Everyone
<1>6. QuietWhileReplaced'
  BY <1>1, <1>2 DEF Excluded, QuietWhileReplaced, Quiet, Running, PassedOver, Unbarred, Restoring, Everyone
<1> QED
  BY <1>3, <1>4, <1>5, <1>6 DEF Excluded

\* Whoever runs serves on, starts to serve, accepts a job between operations, or leaves.
LEMMA RunningExcludes ==
  ASSUME Sound, Excluded, NEW u \in Users,
         UNCHANGED <<intent, op, binary, ctl>>, NEW place \in {"off", "serving", "admitting"},
         prov' = [prov EXCEPT ![u] = place],
         \A v \in Users \ {u} : /\ session'[v] = session[v] /\ ack'[v] = ack[v]
                                /\ v \in halted' <=> v \in halted
                                /\ v \in overlooked' <=> v \in overlooked,
         place # "off" => session'[u] # 0,
         place # "off" \/ u \in halted' => ack'[u] # None \/ u \in overlooked',
         TransitionsOverlooked',
         Running(u)' => Running(u) \/ (Unbarred /\ ~Locked /\ binary \in Programs),
         place # "off" => prov[u] # "off" \/ (Unbarred /\ ~Locked /\ binary \in Programs),
         place = "admitting" => Unbarred /\ ~Locked
  PROVE  Excluded'
<1>1. /\ prov'[u] = place /\ \A v \in Users \ {u} : prov'[v] = prov[v] /\ (Running(v)' <=> Running(v))
  BY DEF Sound, TypeOK, Running, PassedOver
<1>2. ~Locked => ctl.at \in {"idle", "restore", "await"}
  BY DEF Locked
<1>3. SharedExcluded' /\ StartsAwaited'
  BY <1>1, <1>2 DEF Excluded, SharedExcluded, SharedHeld, StartsAwaited, Unbarred, Restoring, Everyone
<1>4. RunnersKnown'
  BY <1>1 DEF Excluded, RunnersKnown
<1>5. RunnersStop' /\ QuietPlaces'
  BY <1>1, <1>2 DEF Excluded, RunnersStop, QuietPlaces, Unbarred, Everyone
<1>6. QuietWhileReplaced'
  BY <1>1 DEF Excluded, QuietWhileReplaced, Quiet, Unbarred, Programs, Restoring, Everyone
<1> QED
  BY <1>3, <1>4, <1>5, <1>6 DEF Excluded

LEMMA PublishExcludes ==
  ASSUME Sound, Excluded, NEW u \in Users, Publish(u)
  PROVE  Excluded'
<1>1. /\ prov[u] = "starting" /\ UNCHANGED <<intent, op, binary, ctl, session, halted>>
      /\ \A v \in Users \ {u} : ack'[v] = ack[v] /\ (v \in overlooked' <=> v \in overlooked)
  BY DEF Publish, files, system, Sound, TypeOK
<1>2. Running(u) /\ session[u] # 0
  BY <1>1 DEF Excluded, RunnersKnown, Running, PassedOver
<1>3. TransitionsOverlooked'
  BY <1>1 DEF Publish, Excluded, TransitionsOverlooked
<1>4. PICK place \in {"off", "serving"} :
        /\ prov' = [prov EXCEPT ![u] = place]
        /\ place # "off" \/ u \in halted => ack'[u] # None \/ u \in overlooked'
  <2>1. CASE u \in halted
    BY <2>1 DEF Publish, Runs, Excluded, RunnersKnown
  <2>2. CASE u \in hidden \ halted
    BY <2>2 DEF Publish, Runs
  <2>3. CASE u \notin halted \cup hidden
    <3>1. ack'[u] \in [choice : BOOLEAN, runtime : Sessions] /\ prov' = [prov EXCEPT ![u] = "serving"]
      BY <2>3 DEF Publish, Runs, Sound, TypeOK
    <3> QED
      BY <3>1, NoneApart
  <2> QED
    BY <2>1, <2>2, <2>3
<1> QED
  BY <1>1, <1>2, <1>3, <1>4, RunningExcludes

\* The background mode is turned on or off under the package's admission, or its transition is
\* left half done.
LEMMA ControlExcludes ==
  ASSUME Sound, Excluded, NEW u \in Users, Choose(u) \/ Halt(u)
  PROVE  Excluded'
<1>1. /\ session[u] # 0 /\ binary \in Programs /\ ~Locked /\ Unbarred /\ prov[u] \in {"off", "serving"}
      /\ UNCHANGED <<intent, op, binary, ctl, session>>
      /\ \A v \in Users \ {u} : /\ v \in overlooked' <=> v \in overlooked
                                /\ v \in halted' <=> v \in halted
  BY DEF Choose, Halt, Controls, files, system
<1>2. ack'[u] # None /\ \A v \in Users \ {u} : ack'[v] = ack[v]
  <2>1. PICK choice \in BOOLEAN : ack' = [ack EXCEPT ![u] = [choice |-> choice, runtime |-> session[u]]]
    BY DEF Choose, Halt, Sound, TypeOK
  <2>2. ack'[u] = [choice |-> choice, runtime |-> session[u]] /\ \A v \in Users \ {u} : ack'[v] = ack[v]
    BY <2>1 DEF Sound, TypeOK
  <2>3. session[u] \in Sessions
    BY DEF Sound, TypeOK
  <2>4. [choice |-> choice, runtime |-> session[u]] \in [choice : BOOLEAN, runtime : Sessions]
    BY <2>3
  <2>5. ack'[u] # None
    BY <2>2, <2>4, NoneApart
  <2> QED
    BY <2>2, <2>5
<1>3. PICK place \in {"off", "serving"} : prov' = [prov EXCEPT ![u] = place]
  BY <1>1 DEF Choose, Halt, Runs
<1>4. TransitionsOverlooked'
  BY <1>1 DEF TransitionsOverlooked, Unbarred, Programs
<1> QED
  BY <1>1, <1>2, <1>3, <1>4, RunningExcludes

\* Nothing changes that Excluded tells of.
LEMMA UnseenExcludes ==
  ASSUME Excluded, UNCHANGED <<intent, op, binary, ctl, prov, session, ack, halted, overlooked>>
  PROVE  Excluded'
<1>1. SharedExcluded' /\ RunnersKnown' /\ TransitionsOverlooked' /\ StartsAwaited' /\ QuietPlaces'
  BY DEF Excluded, SharedExcluded, SharedHeld, RunnersKnown, TransitionsOverlooked, StartsAwaited, QuietPlaces,
     Unbarred, Restoring, Everyone
<1>2. RunnersStop' /\ QuietWhileReplaced'
  BY DEF Excluded, RunnersStop, QuietWhileReplaced, Quiet, Running, PassedOver, Unbarred, Restoring, Everyone
<1> QED
  BY <1>1, <1>2 DEF Excluded

LEMMA PeopleExclude ==
  ASSUME Sound, Excluded, People
  PROVE  Excluded'
<1> PICK u \in Users : \/ Launch(u) \/ Open(u) \/ Publish(u) \/ Exit(u) \/ AdmitJob(u)
                       \/ JobAccepted(u) \/ Choose(u) \/ Halt(u) \/ Obscure(u) \/ Reveal(u)
                       \/ Logout(u) \/ Login(u)
  BY DEF People
<1> USE DEF files, system, accounts
<1>1. CASE Launch(u) \/ Open(u)
  BY <1>1, BeginningExcludes DEF Launch, Open
<1>2. CASE Exit(u) \/ Logout(u)
  <2>1. prov' = [prov EXCEPT ![u] = "off"] /\ UNCHANGED <<intent, op, binary, ctl, ack, halted, overlooked>>
    BY <1>2 DEF Exit, Logout, Runs
  <2>2. \A v \in Users \ {u} : session'[v] = session[v]
    BY <1>2 DEF Exit, Logout, Sound, TypeOK
  <2>3. TransitionsOverlooked' /\ (u \in halted => ack[u] # None \/ u \in overlooked)
    BY <2>1 DEF Excluded, TransitionsOverlooked, RunnersKnown
  <2>4. ~Running(u)'
    BY <2>1 DEF Running, Sound, TypeOK
  <2> QED
    BY <2>1, <2>2, <2>3, <2>4, RunningExcludes
<1>3. CASE AdmitJob(u) \/ JobAccepted(u)
  <2>1. /\ UNCHANGED <<intent, op, binary, ctl, session, ack, halted, overlooked>>
        /\ prov[u] \in {"serving", "admitting"}
    BY <1>3 DEF AdmitJob, JobAccepted
  <2>2. PICK place \in {"serving", "admitting"} :
          prov' = [prov EXCEPT ![u] = place] /\ (place = "admitting" => Unbarred /\ ~Locked)
    BY <1>3 DEF AdmitJob, JobAccepted, Runs
  <2>3. session[u] # 0 /\ (ack[u] # None \/ u \in overlooked) /\ TransitionsOverlooked'
    BY <2>1 DEF Excluded, RunnersKnown, TransitionsOverlooked
  <2>4. Running(u)' => Running(u)
    BY <2>1, <2>2 DEF Running, PassedOver, Sound, TypeOK
  <2> QED
    BY <2>1, <2>2, <2>3, <2>4, RunningExcludes
<1>4. CASE Login(u)
  <2>1. /\ UNCHANGED <<intent, op, binary, ctl, ack, prov, halted, overlooked>> /\ session[u] = 0
        /\ \A v \in Users \ {u} : session'[v] = session[v]
    BY <1>4 DEF Login, Sound, TypeOK
  <2>2. RunnersKnown' /\ TransitionsOverlooked' /\ SharedExcluded' /\ StartsAwaited' /\ QuietPlaces'
    BY <2>1 DEF Excluded, RunnersKnown, TransitionsOverlooked, SharedExcluded, SharedHeld, QuietPlaces,
       StartsAwaited, Unbarred, Restoring, Everyone
  <2>3. RunnersStop' /\ QuietWhileReplaced'
    BY <2>1 DEF Excluded, RunnersStop, QuietWhileReplaced, Quiet, Running, PassedOver, Unbarred, Restoring,
       Everyone
  <2> QED
    BY <2>2, <2>3 DEF Excluded
<1>5. CASE Obscure(u) \/ Reveal(u)
  BY <1>5, UnseenExcludes DEF Obscure, Reveal
<1> QED
  BY <1>1, <1>2, <1>3, <1>4, <1>5, PublishExcludes, ControlExcludes

LEMMA InitExcludes == Init => Excluded
BY DEF Init, Idle, Excluded, SharedExcluded, RunnersKnown, TransitionsOverlooked, Running, StartsAwaited,
   RunnersStop, QuietPlaces, QuietWhileReplaced, Quiet, Unbarred

LEMMA NextExcludes ==
  ASSUME Sound, Excluded, [Next]_vars
  PROVE  Excluded'
<1>1. CASE UNCHANGED vars
  BY <1>1, UnseenExcludes DEF vars, files, system, people
<1>2. CASE Next
  BY <1>2, ControllerExcludes, ScriptsExclude, FailureExcludes, StopUnreadyExcludes, PeopleExclude DEF Next
<1> QED
  BY <1>1, <1>2

LEMMA ExcludedHolds == Spec => []Excluded
BY InitExcludes, CommandsKeepCourse, NextExcludes, PTL DEF Spec

\* No provider runs while its program is taken away or exchanged, none before its turn of the
\* settlement, and none accepts a job meanwhile, although no lock is held across the steps of
\* package_control.rs and any of its commands may die after any write.
THEOREM ProvidersKeepQuiet == Spec => []QuietWhileReplaced
BY ExcludedHolds, PTL DEF Excluded

-----------------------------------------------------------------------------
(* The users' choices outlive the operations.                                *)

Chosen == /\ LinksSuppressed /\ LinksStop /\ LinksKnown /\ ReceiptFits /\ SettledAsChosen /\ AcksTell
          /\ ChoicesKept
Placed == LinksLeft /\ ReceiptWritten /\ Purged
Kept == Chosen /\ Placed

\* A step that leaves the record, the receipt and the users' files alone.
LEMMA DataStays ==
  ASSUME Chosen, UNCHANGED <<op, removed, link, ack, wish, usurped, halted, overlooked>>,
         binary' = binary \/ {binary, binary'} \cap {"none"} = {}
  PROVE  Chosen'
<1>1. (LinksSuppressed /\ LinksStop /\ LinksKnown /\ ReceiptFits)'
  BY DEF Chosen, LinksSuppressed, LinksStop, LinksKnown, ReceiptFits, Restoring, Everyone, Forgetting
<1>2. (SettledAsChosen /\ AcksTell)'
  BY DEF Chosen, SettledAsChosen, AcksTell, Restoring, Everyone, Forgetting
<1>3. ChoicesKept'
  BY DEF Chosen, ChoicesKept, Holds, Everyone, Forgetting
<1> QED
  BY <1>1, <1>2, <1>3 DEF Chosen

\* Most places say nothing of the choices.
LEMMA Elsewhere ==
  ASSUME ctl'.at \notin {"stop", "suppress", "receipt", "retire", "forget", "clear", "receipts", "cleared"}
  PROVE  Placed'
BY DEF Placed, LinksLeft, ReceiptWritten, Purged

\* The record is written, and nobody's choice.
LEMMA RecordRewritten ==
  ASSUME Chosen, op # None, op' # None, op'.kind = op.kind, DOMAIN op'.who = Everyone,
         \A v \in Everyone : op'.who[v].choice = op.who[v].choice,
         UNCHANGED <<removed, binary, link, ack, wish, halted, overlooked>>, usurped \subseteq usurped',
         LinksSuppressed', LinksStop', SettledAsChosen', AcksTell'
  PROVE  Chosen'
<1>1. Everyone' = Everyone /\ Forgetting' = Forgetting
  BY DEF Everyone, Forgetting
<1>2. (LinksKnown /\ ReceiptFits)'
  BY <1>1 DEF Chosen, LinksKnown, ReceiptFits
<1>3. ChoicesKept'
  BY <1>1 DEF Chosen, ChoicesKept, Holds, Everyone
<1> QED
  BY <1>2, <1>3 DEF Chosen

LEMMA FailureKeeps ==
  ASSUME Kept, Refuse \/ Die
  PROVE  Kept'
<1>1. ctl' = Idle
  BY DEF Refuse, Die, Leave
<1>2. UNCHANGED <<op, removed, binary, link, ack, wish, usurped, halted, overlooked>> /\ ctl'.at = "idle"
  BY <1>1 DEF Refuse, Die, files, people, Idle
<1> QED
  BY <1>2, DataStays, Elsewhere DEF Kept

LEMMA GoingKeeps ==
  ASSUME Sound, Kept,
         \/ Mark \/ MarkAgain \/ BeginAdoption \/ Prepared \/ Adopt \/ Dequarantine \/ Unmark
         \/ FinishBegins \/ Await \/ BeginReinstall \/ AdoptController \/ RefusePurge \/ PurgeControllers
         \/ StopUnready \/ Terminate \/ Quiesced \/ Quarantine \/ Unquarantine
  PROVE  Kept'
<1>1. CASE Refuse
  BY <1>1, FailureKeeps
<1>2. CASE ~Refuse
  <2> USE DEF files, system, people
  <2>1. ctl \in [cmd : Commands \cup {"none"}, at : Places \cup {"idle"}, left : SUBSET Users, got : Settlements]
    BY DEF Sound, TypeOK
  <2>2. CASE Mark \/ MarkAgain \/ BeginAdoption \/ Prepared \/ Adopt \/ Dequarantine \/ Unmark
    <3>1. /\ UNCHANGED <<op, removed, binary, link, ack, wish, usurped, halted, overlooked>>
          /\ ctl'.at \in {"record", "adopt", "settle", "unmark", "dequarantine", "done", "empty"}
      BY <1>2, <2>1, <2>2 DEF Mark, MarkAgain, BeginAdoption, Prepared, Adopt, Dequarantine, Unmark, Go
    <3> QED
      BY <3>1, DataStays, Elsewhere DEF Kept
  <2>3. CASE FinishBegins \/ Await \/ BeginReinstall \/ AdoptController \/ RefusePurge \/ PurgeControllers
    <3>1. /\ UNCHANGED <<op, removed, binary, link, ack, wish, usurped, halted, overlooked>>
          /\ ctl'.at \in {"settle", "relock", "copy", "reinstall", "done"}
      BY <1>2, <2>1, <2>3 DEF FinishBegins, Await, BeginReinstall, AdoptController, RefusePurge, PurgeControllers, Go
    <3> QED
      BY <3>1, DataStays, Elsewhere DEF Kept
  <2>4. CASE StopUnready \/ Terminate \/ Quiesced \/ Quarantine \/ Unquarantine
    <3>1. /\ UNCHANGED <<op, removed, binary, link, ack, wish, usurped, halted, overlooked>>
          /\ ctl'.at \in {"examine", "quiesced", "done", "wrap", "unmark"}
      BY <1>2, <2>1, <2>4 DEF StopUnready, Terminate, Quiesced, Quarantine, Unquarantine, Go, accounts
    <3> QED
      BY <3>1, DataStays, Elsewhere DEF Kept
  <2> QED
    BY <2>2, <2>3, <2>4
<1> QED
  BY <1>1, <1>2

LEMMA DoneKeeps ==
  ASSUME Kept, Done
  PROVE  Kept'
<1>1. ctl' = Idle
  BY DEF Done, Leave
<1>2. UNCHANGED <<op, removed, binary, link, ack, wish, usurped, halted, overlooked>> /\ ctl'.at = "idle"
  BY <1>1 DEF Done, files, people, Idle
<1> QED
  BY <1>2, DataStays, Elsewhere DEF Kept

\* The program changes, but is there before and after.
LEMMA ProgramKeeps ==
  ASSUME Sound, Kept, BeginUpgrade \/ TakeAway \/ Wrap \/ AbortUpgrade
  PROVE  Kept'
<1>1. CASE Refuse
  BY <1>1, FailureKeeps
<1>2. CASE ~Refuse
  <2> USE DEF files, system, people
  <2>1. ctl.cmd \in {"preinst-upgrade", "abort-upgrade"}
    BY CommandsByPlace DEF BeginUpgrade, TakeAway, Wrap, AbortUpgrade, At, Sound, Command
  <2>2. binary # "none"
    BY <2>1 DEF Sound, Command, StatusFits, StatusesFor
  <2>3. binary' # "none" /\ UNCHANGED <<op, removed, link, ack, wish, usurped, halted, overlooked>>
    BY <1>2, <2>2 DEF BeginUpgrade, TakeAway, Wrap, AbortUpgrade
  <2>4. ctl'.at \in {"wrap", "terminate", "done", "unquarantine"}
    BY <1>2 DEF BeginUpgrade, TakeAway, Wrap, AbortUpgrade, Go, Sound, TypeOK
  <2> QED
    BY <2>2, <2>3, <2>4, DataStays, Elsewhere DEF Kept
<1> QED
  BY <1>1, <1>2

LEMMA RecordKeeps ==
  ASSUME Sound, Kept, Record
  PROVE  Kept'
<1>1. CASE Refuse
  BY <1>1, FailureKeeps
<1>2. CASE op # None /\ Go("copy") /\ UNCHANGED <<files, system, people, gen, faults>>
  <2>1. ctl'.at = "copy" /\ UNCHANGED <<op, removed, binary, link, ack, wish, usurped, halted, overlooked>>
    BY <1>2 DEF Go, Sound, TypeOK, files, system, people
  <2> QED
    BY <2>1, DataStays, Elsewhere DEF Kept
<1>3. CASE op = None /\ ~Refuse
  <2>1. /\ op' = NewOperation(intent) /\ ctl'.at = "copy" /\ ctl.at = "record"
        /\ overlooked' = (overlooked \cup hidden) \ Discovering
        /\ UNCHANGED <<removed, binary, link, ack, wish, usurped, halted>>
    BY <1>3 DEF Record, At, Go, system, Sound, TypeOK
  <2>2. intent \in Intents
    BY <2>1 DEF Sound, Command, IntentFits, TypeOK
  <2>3. /\ op' # None /\ op'.phase = "intent" /\ op'.who = Discovered /\ op'.kind \in {"upgrade", "remove"}
    BY <2>1, <2>2, OperationBegun DEF Sound, TypeOK, Intents
  <2>4. /\ Everyone' = Discovering
        /\ \A v \in Everyone' : op'.who[v].choice = ack[v].choice /\ op'.who[v].settled = "pending"
    BY <2>3, DiscoveredTyped DEF Everyone, Sound, TypeOK
  <2>5. ~Forgetting /\ ~Forgetting'
    BY <1>3, <2>3 DEF Forgetting
  <2>6. \A v \in Users \ (usurped \cup halted) : ack[v] # None => ack[v].choice = wish[v]
    BY <1>3, <2>5 DEF Kept, Chosen, ChoicesKept
  <2>7. (LinksSuppressed /\ LinksStop /\ LinksKnown /\ ReceiptFits)'
    <3>1. binary # "none"
      <4>1. ctl.cmd \in {"prepare-remove", "adopt-bootstrap"}
        BY <1>3 DEF Record, At
      <4> QED
        BY <4>1 DEF Sound, Command, StatusFits, StatusesFor
    <3>2. \A v \in Users \ overlooked' : v \in overlooked \cup hidden => v \in Discovering
      BY <2>1
    <3> QED
      BY <1>3, <2>1, <2>3, <2>4, <2>5, <3>1, <3>2 DEF Kept, Chosen, LinksSuppressed, LinksStop, LinksKnown,
         ReceiptFits, Discovering
  <2>8. (SettledAsChosen /\ AcksTell)'
    BY <2>1, <2>3, <2>4, <2>6 DEF SettledAsChosen, AcksTell
  <2>9. ChoicesKept'
    BY <1>3, <2>1, <2>3, <2>4, <2>5, <2>6 DEF Kept, Chosen, ChoicesKept, Holds, Discovering
  <2> QED
    BY <2>1, <2>7, <2>8, <2>9, Elsewhere DEF Kept, Chosen
<1> QED
  BY <1>1, <1>2, <1>3 DEF Record

LEMMA CopyKeeps ==
  ASSUME Sound, Kept, Copy
  PROVE  Kept'
<1>1. /\ ctl.at = "copy" /\ op # None
      /\ UNCHANGED <<op, removed, binary, link, ack, wish, usurped, halted, overlooked>>
      /\ ctl'.at = IF op.phase = "intent" THEN "stop" ELSE "stopped"
      /\ ctl'.left = Everyone
  BY DEF Copy, system, people, Sound, TypeOK, Command, RecordFits
<1>2. LinksLeft'
  BY <1>1 DEF Kept, Chosen, LinksStop, LinksLeft
<1>3. (ReceiptWritten /\ Purged)'
  BY <1>1 DEF ReceiptWritten, Purged
<1> QED
  BY <1>1, <1>2, <1>3, DataStays DEF Kept, Placed

LEMMA StopKeeps ==
  ASSUME Sound, Kept, Stop
  PROVE  Kept'
<1> DEFINE u == First(ctl.left)
<1>1. CASE Refuse
  BY <1>1, FailureKeeps
<1>2. CASE ~Refuse
  <2>1. /\ ctl.at = "stop" /\ ctl.left # {}
        /\ op' = [op EXCEPT !.who[u] = Refreshed(u)]
        /\ Go("suppress")
        /\ UNCHANGED <<removed, binary, link, ack, wish, usurped, halted, overlooked>>
    BY <1>2 DEF Stop, system, accounts
  <2>2. op # None /\ op \in Operations /\ op.phase = "intent" /\ ctl.left \subseteq Everyone
    BY <2>1 DEF Sound, Command, RecordFits, ProgressFits, TypeOK
  <2>3. u \in ctl.left /\ u \in Everyone /\ u \in Users
    BY <2>1, <2>2, WhoTyped, FirstIsOne
  <2>4. /\ Refreshed(u) \in Participants /\ Refreshed(u).choice = op.who[u].choice
        /\ Refreshed(u).settled = op.who[u].settled
    BY <2>2, <2>3, RefreshedTyped DEF Sound, TypeOK
  <2> HIDE DEF u
  <2>5. /\ SameOrder(op') /\ op'.phase = "intent" /\ DOMAIN op'.who = Everyone
        /\ op'.who = [op.who EXCEPT ![u] = Refreshed(u)]
    BY <2>1, <2>2, <2>3, <2>4, ParticipantWritten
  <2>6. op.who \in [Everyone -> Participants]
    BY <2>2, WhoTyped
  <2>7. \A v \in Everyone : op'.who[v].choice = op.who[v].choice /\ op'.who[v].settled = op.who[v].settled
    BY <2>3, <2>4, <2>5, <2>6
  <2>8. Everyone' = Everyone /\ Restoring' = Restoring /\ Forgetting' = Forgetting /\ op' # None
    BY <2>2, <2>5 DEF Everyone, Restoring, Forgetting, SameOrder
  <2>9. (LinksSuppressed /\ LinksStop /\ SettledAsChosen /\ AcksTell)'
    BY <2>1, <2>2, <2>5, <2>7, <2>8 DEF Kept, Chosen, LinksSuppressed, LinksStop, SettledAsChosen, AcksTell
  <2>10. Chosen'
    BY <2>1, <2>2, <2>5, <2>7, <2>8, <2>9, RecordRewritten DEF Kept, SameOrder
  <2>11. ctl'.at = "suppress" /\ ctl'.left = ctl.left
    BY <2>1 DEF Go, Sound, TypeOK
  <2>12. Placed'
    BY <2>1, <2>11 DEF Kept, Placed, LinksLeft, ReceiptWritten, Purged
  <2> QED
    BY <2>10, <2>12 DEF Kept
<1> QED
  BY <1>1, <1>2

LEMMA SuppressKeeps ==
  ASSUME Sound, Kept, Suppress
  PROVE  Kept'
<1> DEFINE u == First(ctl.left)
<1>1. CASE Refuse
  BY <1>1, FailureKeeps
<1>2. CASE ~Refuse
  <2>1. /\ ctl.at = "suppress" /\ link' = [link EXCEPT ![u] = FALSE]
        /\ UNCHANGED <<op, removed, binary, ack, wish, usurped, halted, overlooked>>
        /\ ctl'.at = "stop" /\ ctl'.left = ctl.left \ {u}
    BY <1>2 DEF Suppress, files, system, accounts, Sound, TypeOK
  <2>2. op # None /\ op \in Operations /\ op.phase = "intent" /\ ctl.left \subseteq Everyone /\ ctl.left # {}
    BY <2>1 DEF Sound, Command, RecordFits, ProgressFits, TypeOK
  <2>3. u \in Everyone /\ u \in Users
    BY <2>2, WhoTyped, FirstIsOne
  <2> HIDE DEF u
  <2>4. \A v \in Users : link'[v] => link[v] /\ v # u
    BY <2>1, <2>3 DEF Sound, TypeOK
  <2>5. \A v \in Users \ {u} : link'[v] = link[v]
    BY <2>1, <2>3 DEF Sound, TypeOK
  <2>6. (LinksSuppressed /\ LinksStop /\ LinksKnown /\ ReceiptFits)'
    BY <2>1, <2>2, <2>4 DEF Kept, Chosen, LinksSuppressed, LinksStop, LinksKnown, ReceiptFits, Everyone,
       Forgetting, Restoring
  <2>7. (SettledAsChosen /\ AcksTell)'
    BY <2>1, <2>2 DEF Kept, Chosen, SettledAsChosen, AcksTell, Everyone, Forgetting, Restoring
  <2>8. ChoicesKept'
    BY <2>1, <2>2, <2>3, <2>5 DEF Kept, Chosen, ChoicesKept, Holds, Everyone, Forgetting
  <2>9. Placed'
    BY <2>1, <2>4 DEF Kept, Placed, LinksLeft, ReceiptWritten, Purged
  <2> QED
    BY <2>6, <2>7, <2>8, <2>9 DEF Kept, Chosen
<1> QED
  BY <1>1, <1>2

LEMMA AllStoppedKeeps ==
  ASSUME Sound, Kept, AllStopped
  PROVE  Kept'
<1>1. /\ ctl.at = "stop" /\ ctl.left = {} /\ op' = [op EXCEPT !.phase = "stopped"] /\ ctl'.at = "stopped"
      /\ UNCHANGED <<removed, binary, link, ack, wish, usurped, halted, overlooked>>
  BY DEF AllStopped, Go, system, people, Sound, TypeOK
<1>2. op # None /\ op \in Operations /\ op.phase = "intent"
  BY <1>1 DEF Sound, Command, RecordFits, ProgressFits, TypeOK
<1>3. SameOrder(op') /\ op'.phase = "stopped" /\ op'.who = op.who
  BY <1>1, <1>2, PhaseWritten
<1>4. \A v \in Users \ overlooked : ~link[v]
  BY <1>1 DEF Kept, Placed, LinksLeft
<1>5. Everyone' = Everyone /\ op' # None /\ DOMAIN op'.who = Everyone /\ op'.kind = op.kind
  BY <1>2, <1>3 DEF Everyone, SameOrder
<1>6. (LinksSuppressed /\ LinksStop)'
  BY <1>1, <1>3, <1>4 DEF LinksSuppressed, LinksStop
<1>7. SettledAsChosen'
  BY <1>2, <1>3, <1>5 DEF Kept, Chosen, SettledAsChosen
<1>8. AcksTell'
  BY <1>1, <1>2, <1>3, <1>5 DEF Kept, Chosen, AcksTell, Forgetting
<1>9. Chosen'
  BY <1>1, <1>2, <1>3, <1>5, <1>6, <1>7, <1>8, RecordRewritten DEF Kept
<1> QED
  BY <1>1, <1>9, Elsewhere DEF Kept

\* Rolling back, nobody is settled yet, and everybody's acknowledgement tells his choice.
LEMMA AbortRemoveKeeps ==
  ASSUME Sound, Kept, AbortRemove
  PROVE  Kept'
<1>1. CASE Refuse
  BY <1>1, FailureKeeps
<1>2. CASE ~Refuse
  <2>1. /\ ctl'.at = "unmark" /\ UNCHANGED <<removed, binary, link, ack, wish, usurped, halted, overlooked>>
    BY <1>2 DEF AbortRemove, At, Go, files, system, people, Sound, TypeOK
  <2>2. CASE op' = op
    BY <2>1, <2>2, DataStays, Elsewhere DEF Kept
  <2>3. CASE op' # op
    <3>1. /\ op # None /\ op' = [op EXCEPT !.rollback = TRUE, !.phase = "settling"] /\ ~op.rollback
          /\ op.phase \in {"intent", "stopped"} /\ op.kind = "remove" /\ op \in Operations
      BY <1>2, <2>3 DEF AbortRemove, AbortsOwn, Valid, files, Sound, TypeOK
    <3>2. /\ op'.rollback = TRUE /\ op'.phase = "settling" /\ op'.kind = op.kind /\ op'.who = op.who
          /\ op' \in Operations
      BY <3>1 DEF Operations
    <3>3. op' # None
      BY <3>2, NoneApart
    <3>4. Everyone' = Everyone /\ DOMAIN op'.who = Everyone
      BY <3>1, <3>2, <3>3 DEF Everyone
    <3>5. (LinksSuppressed /\ LinksStop)'
      BY <2>1, <3>2 DEF Kept, Chosen, LinksSuppressed, LinksStop, Restoring
    <3>6. SettledAsChosen'
      BY <3>1, <3>2, <3>4 DEF Kept, Chosen, SettledAsChosen
    <3>7. AcksTell'
      BY <2>1, <3>1, <3>2, <3>4 DEF Kept, Chosen, AcksTell, Forgetting
    <3>8. Chosen'
      BY <2>1, <3>1, <3>2, <3>3, <3>4, <3>5, <3>6, <3>7, RecordRewritten DEF Kept
    <3> QED
      BY <2>1, <3>8, Elsewhere DEF Kept
  <2> QED
    BY <2>2, <2>3
<1> QED
  BY <1>1, <1>2

LEMMA SettleKeeps ==
  ASSUME Sound, Kept, Settle
  PROVE  Kept'
<1>1. CASE Refuse
  BY <1>1, FailureKeeps
<1>2. CASE op.phase = "finalizing" /\ ReceiptsAreExact /\ Go("retire") /\ UNCHANGED <<files, system, people, gen, faults>>
  <2>1. ctl'.at = "retire" /\ UNCHANGED <<op, removed, binary, link, ack, wish, usurped, halted, overlooked>>
    BY <1>2 DEF Go, Sound, TypeOK, files, system, people
  <2>2. Placed'
    BY <1>2, <2>1 DEF Placed, LinksLeft, ReceiptWritten, RecordIs, Purged, ReceiptsAreExact
  <2> QED
    BY <2>1, <2>2, DataStays DEF Kept
<1>3. CASE op.phase \in {"stopped", "settling"} /\ ~Refuse
  <2>1. /\ ctl.at = "settle" /\ ctl'.at = "examine" /\ op' = [op EXCEPT !.phase = "settling"]
        /\ UNCHANGED <<removed, binary, link, ack, wish, usurped, halted, overlooked>>
    BY <1>3 DEF Settle, system, people, Sound, TypeOK
  <2>2. op # None /\ op \in Operations
    BY <2>1, CommandsByPlace DEF Finishes, Sound, Command, RecordFits, RecordIs, TypeOK
  <2>3. SameOrder(op') /\ op'.phase = "settling" /\ op'.who = op.who
    BY <2>1, <2>2, PhaseWritten
  <2>4. /\ Everyone' = Everyone /\ op' # None /\ DOMAIN op'.who = Everyone /\ op'.kind = op.kind
        /\ Restoring' = Restoring
    BY <2>2, <2>3 DEF Everyone, Restoring, SameOrder
  <2>5. (LinksSuppressed /\ LinksStop)'
    BY <1>3, <2>1, <2>2, <2>3, <2>4 DEF Kept, Chosen, LinksSuppressed, LinksStop
  <2>6. SettledAsChosen'
    BY <1>3, <2>1, <2>2, <2>3, <2>4 DEF Kept, Chosen, SettledAsChosen, Forgetting
  <2>7. AcksTell'
    BY <1>3, <2>1, <2>2, <2>3, <2>4 DEF Kept, Chosen, AcksTell, Forgetting
  <2>8. Chosen'
    BY <2>1, <2>2, <2>3, <2>4, <2>5, <2>6, <2>7, RecordRewritten DEF Kept
  <2> QED
    BY <2>1, <2>8, Elsewhere DEF Kept
<1> QED
  BY <1>1, <1>2, <1>3 DEF Settle

\* Who is settled has the link he chose, and an acknowledgement that tells so.
LEMMA TurnKeeps ==
  ASSUME Sound, Kept, ctl.at \in {"examine", "relock"}, ctl.left # {},
         NEW s \in Settlements, op' = Settled(First(ctl.left), s),
         UNCHANGED <<removed, binary, link, ack, wish, halted, overlooked>>, usurped \subseteq usurped',
         ctl'.at \in {"examine", "restore"},
         s # "pending" /\ Restoring /\ First(ctl.left) \notin usurped' =>
           LET u == First(ctl.left) IN
           link[u] = op.who[u].choice /\ (op.who[u].choice => ack[u].choice)
  PROVE  Kept'
<1> DEFINE u == First(ctl.left)
<1>1. /\ op # None /\ op \in Operations /\ op.phase = "settling" /\ u \in Everyone
  BY TurnOfOne
<1>2. /\ SameOrder(op') /\ op'.phase = op.phase /\ DOMAIN op'.who = Everyone
      /\ \A v \in Everyone : op'.who[v].choice = op.who[v].choice
      /\ \A v \in Everyone \ {u} : op'.who[v] = op.who[v]
      /\ op'.who[u].settled = s
  BY SettlementWritten
<1>3. s # "pending" /\ Restoring /\ u \notin usurped' =>
        link[u] = op.who[u].choice /\ (op.who[u].choice => ack[u].choice)
  OBVIOUS
<1> HIDE DEF u
<1>4. /\ Everyone' = Everyone /\ Restoring' = Restoring /\ op' # None /\ op'.kind = op.kind
      /\ Forgetting' = Forgetting
  BY <1>1, <1>2 DEF Everyone, Restoring, SameOrder, Forgetting
<1>5. (LinksSuppressed /\ LinksStop)'
  BY <1>1, <1>2, <1>4 DEF Kept, Chosen, LinksSuppressed, LinksStop
<1>6. SettledAsChosen'
  <2> SUFFICES ASSUME ~Forgetting, Restoring, NEW v \in Everyone, v \notin usurped', op'.who[v].settled # "pending"
               PROVE  link[v] = op'.who[v].choice
    BY <1>1, <1>2, <1>4 DEF SettledAsChosen
  <2>1. CASE v = u
    BY <1>2, <1>3, <2>1
  <2>2. CASE v # u
    BY <1>1, <1>2, <2>2 DEF Kept, Chosen, SettledAsChosen
  <2> QED
    BY <2>1, <2>2
<1>7. AcksTell'
  <2> SUFFICES ASSUME ~Forgetting, NEW v \in Users, v \notin usurped' \cup halted, ack[v] # None, ack[v].choice # wish[v]
               PROVE  /\ Restoring /\ v \in Everyone /\ op'.who[v].choice /\ op'.who[v].settled = "pending"
    BY <1>1, <1>2, <1>4 DEF AcksTell
  <2>1. Restoring /\ v \in Everyone /\ op.who[v].choice /\ op.who[v].settled = "pending"
    BY <1>1 DEF Kept, Chosen, AcksTell
  <2>2. op'.who[v].choice
    BY <1>2, <2>1
  <2>3. CASE v = u /\ s # "pending"
    <3>1. ack[v].choice \in BOOLEAN /\ wish[v] \in BOOLEAN
      BY DEF Sound, TypeOK
    <3>2. op.who[v].choice = wish[v]
      BY <1>1, <2>1 DEF Kept, Chosen, ChoicesKept
    <3>3. ack[v].choice
      BY <1>3, <2>1, <2>3
    <3> QED
      BY <2>1, <3>1, <3>2, <3>3
  <2>4. CASE v # u \/ s = "pending"
    BY <1>2, <2>1, <2>2, <2>4
  <2> QED
    BY <2>3, <2>4
<1>8. Chosen'
  BY <1>1, <1>2, <1>4, <1>5, <1>6, <1>7, RecordRewritten DEF Kept
<1> QED
  BY <1>8, Elsewhere DEF Kept

LEMMA RecoverKeeps ==
  ASSUME Sound, Kept, Recover
  PROVE  Kept'
<1> DEFINE u == First(ctl.left)
<1>1. CASE Refuse
  BY <1>1, FailureKeeps
<1>2. CASE ~Refuse
  <2>1. /\ ctl.at = "examine" /\ ctl.left # {} /\ SettleAs(u, "ready") /\ Usurp(u) /\ HasSuccessor(u)
        /\ UNCHANGED <<removed, binary, link, ack, wish, halted, overlooked>>
    BY <1>2 DEF Recover, SettleAs, system, accounts
  <2>2. op' = Settled(u, "ready") /\ ctl'.at = "examine"
    BY <2>1 DEF SettleAs, Sound, TypeOK
  <2>3. /\ usurped \subseteq usurped'
        /\ u \notin usurped' => link[u] /\ ack[u].choice
    BY <2>1 DEF Usurp
  <2>4. op.who[u].choice \in BOOLEAN /\ link[u] \in BOOLEAN
    BY <2>1, TurnOfOne, RefreshedTyped, WhoTyped DEF Participants, Sound, TypeOK
  <2>5. op.who[u].choice
    BY <2>1 DEF HasSuccessor
  <2> QED
    BY <2>1, <2>2, <2>3, <2>4, <2>5, TurnKeeps DEF Settlements
<1> QED
  BY <1>1, <1>2

LEMMA ExamineKeeps ==
  ASSUME Sound, Kept, Examine
  PROVE  Kept'
<1>1. CASE Refuse
  BY <1>1, FailureKeeps
<1>2. CASE ~Refuse
  <2>1. /\ ctl.at = "examine" /\ ctl.left # {}
        /\ UNCHANGED <<removed, binary, link, ack, wish, usurped, halted, overlooked>>
    BY <1>2 DEF Examine, SettleAs, system, people
  <2>2. PICK s \in {"pending", "disabled"} : /\ op' = Settled(First(ctl.left), s) /\ ctl'.at \in {"examine", "restore"}
                                             /\ s = "disabled" => ~Restoring
    BY <1>2 DEF Examine, SettleAs, Go, Sound, TypeOK
  <2>3. s \in Settlements
    BY DEF Settlements
  <2> QED
    BY <2>1, <2>2, <2>3, TurnKeeps
<1> QED
  BY <1>1, <1>2

LEMMA RelockKeeps ==
  ASSUME Sound, Kept, Relock
  PROVE  Kept'
<1> DEFINE u == First(ctl.left)
<1>1. CASE Refuse
  BY <1>1, FailureKeeps
<1>2. CASE ~Refuse
  <2>1. /\ ctl.at = "relock" /\ Restored(u) /\ SettleAs(u, ctl.got)
        /\ IF ctl.got = "disabled" THEN usurped' = usurped ELSE Usurp(u)
        /\ UNCHANGED <<removed, binary, link, ack, wish, halted, overlooked>>
    BY <1>2 DEF Relock, SettleAs, system, accounts
  <2>2. op' = Settled(u, ctl.got) /\ ctl'.at = "examine"
    BY <2>1 DEF SettleAs, Sound, TypeOK
  <2>3. /\ ctl.left # {} /\ ctl.got \in {"disabled", "deferred", "ready"}
        /\ ctl.got = "disabled" <=> ~op.who[u].choice
    BY <2>1 DEF Sound, Command, ProgressFits, OutcomeFits
  <2>4. op.who[u].choice \in BOOLEAN /\ link[u] \in BOOLEAN
    BY <2>1, <2>3, TurnOfOne, RefreshedTyped, WhoTyped DEF Participants, Sound, TypeOK
  <2>5. usurped \subseteq usurped'
    BY <2>1 DEF Usurp
  <2>6. u \notin usurped' => link[u] = op.who[u].choice /\ (op.who[u].choice => ack[u].choice)
    <3>1. CASE ctl.got = "disabled"
      BY <2>1, <2>3, <2>4, <3>1 DEF Restored
    <3>2. CASE ctl.got # "disabled"
      BY <2>1, <2>3, <2>4, <3>2 DEF Usurp
    <3> QED
      BY <3>1, <3>2
  <2>7. ctl.got \in Settlements
    BY <2>3 DEF Settlements
  <2> QED
    BY <2>1, <2>2, <2>3, <2>5, <2>6, <2>7, TurnKeeps
<1> QED
  BY <1>1, <1>2

LEMMA RestoreKeeps ==
  ASSUME Sound, Kept, Restore
  PROVE  Kept'
<1> DEFINE u == First(ctl.left)
<1>1. CASE Refuse
  BY <1>1, FailureKeeps
<1>2. CASE ~Refuse
  <2>1. /\ ctl.at = "restore" /\ link' = [link EXCEPT ![u] = op.who[u].choice]
        /\ UNCHANGED <<op, removed, binary, ack, wish, usurped, halted, overlooked>>
        /\ ctl' = [ctl EXCEPT !.at = IF Outcome(u) = "ready" THEN "await" ELSE "relock", !.got = Outcome(u)]
    BY <1>2 DEF Restore, files, system, accounts
  <2>0. ctl'.at \in {"await", "relock"}
    BY <2>1 DEF Sound, TypeOK
  <2>2. /\ ctl.left # {} /\ Restoring /\ op.phase = "settling" /\ ctl.left = Unsettled
        /\ ctl.cmd \in {"abort-remove", "finish-remove", "recover-install"}
    BY <2>1, CommandsByPlace DEF Sound, Command, ProgressFits, Finishes
  <2>3. op # None /\ op.kind # "purge" /\ op \in Operations
    BY <2>1, <2>2 DEF Sound, Command, RecordFits, RecordIs, Finishes, TypeOK
  <2>4. ctl.cmd # "finish-remove"
    BY <2>1, <2>2 DEF Sound, Command, RecordFits, RecordIs, Finishes, Restoring
  <2>5. binary # "none"
    BY <2>2, <2>4 DEF Sound, Command, StatusFits, StatusesFor
  <2>6. Everyone \subseteq Users
    BY <2>3, WhoTyped
  <2>7. u \in Unsettled /\ u \in Everyone /\ u \in Users /\ op.who[u].settled = "pending"
    BY <2>2, <2>6, FirstIsOne DEF Unsettled
  <2> HIDE DEF u
  <2>8. link'[u] = op.who[u].choice /\ \A v \in Users \ {u} : link'[v] = link[v]
    BY <2>1, <2>7 DEF Sound, TypeOK
  <2>9. (LinksSuppressed /\ LinksStop)'
    BY <2>1, <2>2, <2>5 DEF LinksSuppressed, LinksStop, Restoring
  <2>10. (LinksKnown /\ ReceiptFits)'
    BY <2>1, <2>3, <2>7, <2>8 DEF Kept, Chosen, LinksKnown, ReceiptFits, Everyone, Forgetting
  <2>11. SettledAsChosen'
    BY <2>1, <2>2, <2>6, <2>7, <2>8 DEF Kept, Chosen, SettledAsChosen, Everyone, Forgetting, Restoring
  <2>12. AcksTell'
    BY <2>1 DEF Kept, Chosen, AcksTell, Everyone, Forgetting, Restoring
  <2>13. ChoicesKept'
    BY <2>1, <2>3, <2>7, <2>8 DEF Kept, Chosen, ChoicesKept, Holds, Everyone, Forgetting
  <2>14. Chosen'
    BY <2>9, <2>10, <2>11, <2>12, <2>13 DEF Chosen
  <2> QED
    BY <2>0, <2>14, Elsewhere DEF Kept
<1> QED
  BY <1>1, <1>2

LEMMA ReceiptKeeps ==
  ASSUME Sound, Kept, Receipt
  PROVE  Kept'
<1>1. CASE Refuse
  BY <1>1, FailureKeeps
<1>2. CASE ~Refuse
  <2>1. /\ ctl.at = "examine" /\ ctl'.at = "receipt"
        /\ UNCHANGED <<op, binary, link, ack, wish, usurped, halted, overlooked>>
    BY <1>2 DEF Receipt, Go, files, system, people, Sound, TypeOK
  <2>2. ctl.cmd \in {"abort-remove", "finish-remove", "recover-install"}
    BY <2>1, CommandsByPlace DEF Sound, Command, Finishes
  <2>3. op # None /\ op.kind # "purge" /\ op \in Operations
    BY <2>1, <2>2 DEF Sound, Command, RecordFits, RecordIs, Finishes, TypeOK
  <2>4. CASE op.kind = "remove" /\ ~op.rollback
    <3> DEFINE receipt == [generation |-> op.generation, version |-> op.target, who |-> op.who]
    <3>1. removed' = receipt
      BY <1>2, <2>4 DEF Receipt
    <3>2. ctl.cmd = "finish-remove"
      BY <2>1, <2>2, <2>4 DEF Sound, Command, RecordFits, RecordIs, Finishes
    <3>3. binary = "none"
      BY <3>2 DEF Sound, Command, StatusFits
    <3>4. removed'.who = op.who /\ DOMAIN removed'.who = Everyone
      BY <2>3, <3>1 DEF Everyone
    <3>5. (LinksSuppressed /\ LinksStop /\ LinksKnown /\ ReceiptFits)'
      BY <2>1, <2>3, <2>4, <3>3, <3>4 DEF Kept, Chosen, LinksSuppressed, LinksStop, LinksKnown, ReceiptFits,
         Restoring, Everyone, Forgetting
    <3>6. (SettledAsChosen /\ AcksTell)'
      BY <2>1 DEF Kept, Chosen, SettledAsChosen, AcksTell, Everyone, Restoring, Forgetting
    <3>7. ChoicesKept'
      <4>1. \A v \in Users \ (usurped \cup halted) :
              /\ v \in Everyone => op.who[v].choice = wish[v]
              /\ link[v] # wish[v] => Holds(op.who, v) \/ (removed # None /\ Holds(removed.who, v))
        BY <2>3 DEF Kept, Chosen, ChoicesKept, Forgetting
      <4>2. removed \in {None, receipt}
        BY <1>2, <2>4 DEF Receipt
      <4>3. \A v \in Users \ (usurped \cup halted) : link[v] # wish[v] => Holds(op.who, v)
        BY <4>1, <4>2
      <4> QED
        BY <2>1, <2>3, <3>4, <4>1, <4>3 DEF ChoicesKept, Holds, Everyone
    <3>8. Placed'
      BY <2>1, <2>4, <3>1 DEF Placed, LinksLeft, ReceiptWritten, RecordIs, Purged
    <3> QED
      BY <3>5, <3>6, <3>7, <3>8 DEF Kept, Chosen
  <2>5. CASE ~(op.kind = "remove" /\ ~op.rollback)
    <3>1. removed' = removed
      BY <1>2, <2>5 DEF Receipt, files
    <3>2. Placed'
      BY <2>1, <2>3, <2>5 DEF Placed, LinksLeft, ReceiptWritten, RecordIs, Purged, Operations
    <3> QED
      BY <2>1, <3>1, <3>2, DataStays DEF Kept
  <2> QED
    BY <2>4, <2>5
<1> QED
  BY <1>1, <1>2

LEMMA FinalizeKeeps ==
  ASSUME Sound, Kept, Finalize
  PROVE  Kept'
<1>1. /\ ctl.at = "receipt" /\ ctl'.at = "retire" /\ op' = [op EXCEPT !.phase = "finalizing"]
      /\ UNCHANGED <<removed, binary, link, ack, wish, usurped, halted, overlooked>>
  BY DEF Finalize, Go, system, people, Sound, TypeOK
<1>2. op # None /\ op \in Operations /\ op.phase \in {"settling", "finalizing"}
  BY <1>1, CommandsByPlace DEF Finishes, Sound, Command, RecordFits, RecordIs, ProgressFits, TypeOK
<1>3. SameOrder(op') /\ op'.phase = "finalizing" /\ op'.who = op.who
  BY <1>1, <1>2, PhaseWritten
<1>4. /\ Everyone' = Everyone /\ op' # None /\ DOMAIN op'.who = Everyone /\ op'.kind = op.kind
      /\ Restoring' = Restoring
  BY <1>2, <1>3 DEF Everyone, Restoring, SameOrder
<1>5. (LinksSuppressed /\ LinksStop)'
  BY <1>1, <1>2, <1>3, <1>4 DEF Kept, Chosen, LinksSuppressed, LinksStop
<1>6. (SettledAsChosen /\ AcksTell)'
  BY <1>1, <1>2, <1>3, <1>4 DEF Kept, Chosen, SettledAsChosen, AcksTell, Forgetting
<1>7. Chosen'
  BY <1>1, <1>2, <1>3, <1>4, <1>5, <1>6, RecordRewritten DEF Kept
<1>8. Placed'
  BY <1>1, <1>2, <1>3 DEF Kept, Placed, LinksLeft, ReceiptWritten, RecordIs, Purged, SameOrder
<1> QED
  BY <1>7, <1>8 DEF Kept

LEMMA RetireKeeps ==
  ASSUME Sound, Kept, Retire
  PROVE  Kept'
<1>1. /\ ctl.at = "retire" /\ ctl'.at = "forget" /\ UNCHANGED <<op, removed, binary, link, ack, wish, usurped, halted, overlooked>>
  BY DEF Retire, Go, system, people, Sound, TypeOK
<1>2. Placed'
  BY <1>1 DEF Kept, Placed, LinksLeft, ReceiptWritten, RecordIs, Purged
<1> QED
  BY <1>1, <1>2, DataStays DEF Kept

\* The removal receipt of which the reinstallation took the choices is not needed any more.
LEMMA ForgetKeeps ==
  ASSUME Sound, Kept, Forget
  PROVE  Kept'
<1>1. CASE Refuse
  BY <1>1, FailureKeeps
<1>2. CASE ~Refuse
  <2>1. /\ ctl.at = "forget" /\ ctl'.at = "clear" /\ UNCHANGED <<op, binary, link, ack, wish, usurped, halted, overlooked>>
        /\ IF op.kind # "reinstall" \/ removed = None THEN removed' = removed ELSE removed' = None
    BY <1>2 DEF Forget, Go, files, system, people, Sound, TypeOK
  <2>2. Placed'
    BY <2>1 DEF Kept, Placed, LinksLeft, ReceiptWritten, RecordIs, Purged
  <2>3. CASE removed' = removed
    BY <2>1, <2>2, <2>3, DataStays DEF Kept
  <2>4. CASE removed' = None /\ op.kind = "reinstall" /\ removed # None
    <3>1. op # None
      BY <2>1, CommandsByPlace, <2>4 DEF Finishes, Sound, Command, RecordFits, RecordIs
    <3>2. (LinksSuppressed /\ LinksStop /\ LinksKnown /\ ReceiptFits)'
      BY <2>1, <2>4 DEF Kept, Chosen, LinksSuppressed, LinksStop, LinksKnown, ReceiptFits,
         Restoring, Everyone, Forgetting
    <3>3. (SettledAsChosen /\ AcksTell)'
      BY <2>1 DEF Kept, Chosen, SettledAsChosen, AcksTell, Everyone, Restoring, Forgetting
    <3>4. DOMAIN removed.who \subseteq Everyone
      BY <2>4, <3>1 DEF Kept, Chosen, ReceiptFits
    <3>5. ChoicesKept'
      BY <2>1, <2>4, <3>1, <3>4 DEF Kept, Chosen, ChoicesKept, Holds, Everyone, Forgetting
    <3> QED
      BY <2>2, <3>2, <3>3, <3>5 DEF Kept, Chosen
  <2> QED
    BY <2>1, <2>3, <2>4
<1> QED
  BY <1>1, <1>2

\* The record goes when links and acknowledgements, or the receipt, tell what it told.
LEMMA ClearKeeps ==
  ASSUME Sound, Kept, Clear
  PROVE  Kept'
<1>1. /\ ctl.at = "clear" /\ op' = None /\ ctl'.at \in {"reinstall", "done"}
      /\ UNCHANGED <<removed, binary, link, ack, wish, usurped, halted, overlooked>>
  BY DEF Clear, Go, system, people, Sound, TypeOK
<1>2. ctl.cmd \in {"abort-remove", "finish-remove", "recover-install"}
  BY <1>1, CommandsByPlace DEF Sound, Command, Finishes
<1>3. /\ op # None /\ op \in Operations /\ op.kind \in {"remove", "upgrade", "reinstall"}
      /\ op.phase \in {"settling", "finalizing"} /\ Unsettled = {}
  BY <1>1, <1>2 DEF Sound, Command, RecordFits, RecordIs, ProgressFits, Finishes, TypeOK
<1>4. ~Forgetting /\ ~Forgetting'
  BY <1>1, <1>3 DEF Forgetting
<1>5. \A v \in Everyone : op.who[v].settled # "pending"
  BY <1>3 DEF Unsettled
<1>6. \A v \in Users \ (usurped \cup halted) : ack[v] # None => ack[v].choice = wish[v]
  BY <1>3, <1>4, <1>5 DEF Kept, Chosen, AcksTell
<1>7. CASE op.kind = "remove" /\ ~op.rollback
  <2>1. removed.who = op.who /\ removed # None
    <3>1. removed = [generation |-> op.generation, version |-> op.target, who |-> op.who]
      BY <1>1, <1>3, <1>7 DEF Kept, Placed, ReceiptWritten, RecordIs, Operations
    <3>2. removed \in RemovalReceipts
      BY <1>3, <3>1 DEF RemovalReceipts, Operations
    <3> QED
      BY <3>1, <3>2, NoneApart
  <2>2. binary = "none"
    BY <1>7, <2>1 DEF Kept, Chosen, ReceiptFits
  <2>3. (LinksSuppressed /\ LinksStop /\ LinksKnown /\ ReceiptFits)'
    BY <1>1, <1>4, <2>2 DEF Kept, Chosen, LinksSuppressed, LinksStop, LinksKnown, ReceiptFits
  <2>4. (SettledAsChosen /\ AcksTell)'
    BY <1>1 DEF SettledAsChosen, AcksTell
  <2>5. ChoicesKept'
    BY <1>1, <1>3, <1>4, <1>6, <2>1 DEF Kept, Chosen, ChoicesKept, Holds
  <2> QED
    BY <1>1, <2>3, <2>4, <2>5, Elsewhere DEF Kept, Chosen
<1>8. CASE Restoring
  <2>1. \A v \in Everyone \ usurped : link[v] = op.who[v].choice
    BY <1>3, <1>4, <1>5, <1>8 DEF Kept, Chosen, SettledAsChosen
  <2>2. op.kind = "reinstall" => removed = None
    BY <1>1 DEF Kept, Placed, ReceiptWritten
  <2>3. (LinksSuppressed /\ LinksStop /\ LinksKnown /\ ReceiptFits)'
    BY <1>1, <1>4, <2>2 DEF Kept, Chosen, LinksSuppressed, LinksStop, LinksKnown, ReceiptFits
  <2>4. (SettledAsChosen /\ AcksTell)'
    BY <1>1 DEF SettledAsChosen, AcksTell
  <2>5. ChoicesKept'
    BY <1>1, <1>3, <1>4, <1>6, <2>1 DEF Kept, Chosen, ChoicesKept, Holds, Everyone
  <2> QED
    BY <1>1, <2>3, <2>4, <2>5, Elsewhere DEF Kept, Chosen
<1> QED
  BY <1>3, <1>7, <1>8 DEF Restoring, Operations

LEMMA PrepareReinstallKeeps ==
  ASSUME Sound, Kept, PrepareReinstall
  PROVE  Kept'
<1>1. CASE Refuse
  BY <1>1, FailureKeeps
<1>2. CASE ~Refuse
  <2>1. /\ ctl.at = "reinstall" /\ ctl'.at = "adopt-controller" /\ removed # None
        /\ UNCHANGED <<removed, binary, link, ack, wish, usurped, halted, overlooked>>
    BY <1>2 DEF PrepareReinstall, Go, files, system, people, Sound, TypeOK
  <2>2. ctl.cmd = "prepare-reinstall"
    BY <2>1, CommandsByPlace DEF Sound, Command
  <2>3. CASE op # None
    <3>1. op' = op
      BY <1>2, <2>1, <2>3 DEF PrepareReinstall, files
    <3> QED
      BY <2>1, <3>1, DataStays, Elsewhere DEF Kept
  <2>4. CASE op = None
    <3>1. gen + 1 \in Generations
      BY <2>2, <2>4 DEF Sound, TypeOK, Command, RoomLeft, Room, Generations
    <3>2. op' = Succession(gen + 1)
      BY <1>2, <2>1, <2>4 DEF PrepareReinstall
    <3>3. /\ op' # None /\ op'.kind = "reinstall" /\ op'.phase = "stopped" /\ op'.who = Again
          /\ DOMAIN op'.who = DOMAIN removed.who
          /\ \A u \in DOMAIN removed.who : /\ Again[u].choice = removed.who[u].choice
                                           /\ Again[u].settled = "pending"
      BY <2>1, <2>2, <3>1, <3>2, SuccessionTyped DEF Sound
    <3>4. Everyone' = DOMAIN removed.who /\ ~Forgetting /\ ~Forgetting'
      BY <2>4, <3>3 DEF Everyone, Forgetting
    <3>5. binary = "none"
      BY <2>2 DEF Sound, Command, StatusFits, StatusesFor
    <3>6. \A v \in Users \ overlooked : ~link[v]
      BY <3>5 DEF Kept, Chosen, LinksSuppressed
    <3>7. (LinksSuppressed /\ LinksStop /\ LinksKnown /\ ReceiptFits)'
      BY <2>1, <3>3, <3>4, <3>5, <3>6 DEF Kept, Chosen, LinksSuppressed, LinksStop, LinksKnown, ReceiptFits
    <3>8. SettledAsChosen'
      BY <2>1, <3>3, <3>4 DEF SettledAsChosen
    <3>9. AcksTell'
      BY <2>1, <2>4, <3>3, <3>4 DEF Kept, Chosen, ChoicesKept, AcksTell
    <3>10. ChoicesKept'
      BY <2>1, <2>4, <3>3, <3>4 DEF Kept, Chosen, ChoicesKept, Holds
    <3> QED
      BY <2>1, <3>7, <3>8, <3>9, <3>10, Elsewhere DEF Kept, Chosen
  <2> QED
    BY <2>3, <2>4
<1> QED
  BY <1>1, <1>2

\* A purge means to forget, and meets no link.
LEMMA ForgettingKeeps ==
  ASSUME LinksSuppressed, binary = "none", op' # None, op'.kind = "purge",
         op'.phase \in {"intent", "stopped"} => \A u \in Everyone' : op'.who[u].settled = "pending",
         UNCHANGED <<binary, link>>, overlooked \subseteq overlooked'
  PROVE  Chosen'
<1>1. \A u \in Users \ overlooked' : ~link'[u]
  BY DEF LinksSuppressed
<1>2. Forgetting'
  BY DEF Forgetting
<1>3. (LinksSuppressed /\ LinksStop)'
  BY <1>1 DEF LinksSuppressed, LinksStop
<1>4. (LinksKnown /\ ReceiptFits)'
  BY <1>1, <1>2 DEF LinksKnown, ReceiptFits
<1>5. (SettledAsChosen /\ AcksTell /\ ChoicesKept)'
  BY <1>2 DEF SettledAsChosen, AcksTell, ChoicesKept
<1> QED
  BY <1>3, <1>4, <1>5 DEF Chosen

LEMMA BeginPurgeKeeps ==
  ASSUME Sound, Kept, BeginPurge
  PROVE  Kept'
<1>1. ctl.cmd = "finish-purge" /\ binary = "none"
  BY DEF BeginPurge, At, Sound, Command, StatusFits
<1>2. CASE Refuse
  BY <1>2, FailureKeeps
<1>3. CASE op = None /\ removed = None /\ intent = None /\ ~Refuse
  <2>1. ctl'.at = "empty" /\ UNCHANGED <<op, removed, binary, link, ack, wish, usurped, halted, overlooked>>
    BY <1>3 DEF BeginPurge, Go, files, system, people, Sound, TypeOK
  <2> QED
    BY <2>1, DataStays, Elsewhere DEF Kept
<1>4. CASE ~(op = None /\ removed = None /\ intent = None) /\ ~Refuse
  <2> DEFINE r == PurgedRecord
  <2>1. /\ op' = [r EXCEPT !.kind = "purge"] /\ ctl'.at = "copy"
        /\ UNCHANGED <<removed, binary, link>> /\ overlooked \subseteq overlooked'
    BY <1>4 DEF BeginPurge, Go, system, Sound, TypeOK
  <2>2. r \in Operations
    BY <1>4, PurgedTyped DEF Sound
  <2>3. r.phase \in {"intent", "stopped"} => \A u \in DOMAIN r.who : r.who[u].settled = "pending"
    <3>1. CASE op # None
      BY <1>4, <3>1, PurgedTyped DEF Sound, Kept, Chosen, SettledAsChosen, Everyone
    <3>2. CASE op = None /\ removed # None
      BY <1>4, <3>2, PurgedTyped DEF Sound
    <3>3. CASE op = None /\ removed = None
      <4>1. r.who = Discovered
        BY <1>4, <3>3, PurgedTyped DEF Sound
      <4> QED
        BY <4>1, DiscoveredTyped DEF Sound, TypeOK
    <3> QED
      BY <3>1, <3>2, <3>3
  <2> HIDE DEF r
  <2>4. op' \in Operations /\ op'.kind = "purge" /\ op'.phase = r.phase /\ op'.who = r.who
    BY <2>1, <2>2 DEF Operations, Kinds
  <2>5. op' # None
    BY <2>4, NoneApart
  <2>6. Chosen'
    BY <1>1, <2>1, <2>3, <2>4, <2>5, ForgettingKeeps DEF Kept, Chosen, Everyone
  <2> QED
    BY <2>1, <2>6, Elsewhere DEF Kept
<1> QED
  BY <1>2, <1>3, <1>4

LEMMA SettlePurgeKeeps ==
  ASSUME Sound, Kept, SettlePurge
  PROVE  Kept'
<1>1. /\ ctl.at = "empty" /\ ctl'.at = "acks" /\ UNCHANGED <<removed, binary, link, ack, wish, usurped, halted, overlooked>>
  BY DEF SettlePurge, Go, system, people, Sound, TypeOK
<1>2. ctl.cmd = "finish-purge" /\ binary = "none"
  BY <1>1, CommandsByPlace DEF Sound, Command, StatusFits
<1>3. CASE op' = op
  BY <1>1, <1>3, DataStays, Elsewhere DEF Kept
<1>4. CASE op' # op
  <2>1. op # None /\ SameOrder(op') /\ op'.phase = "finalizing"
    BY <1>4, SettlePurgeIsSound
  <2>2. op' # None /\ op'.kind = "purge"
    BY <1>1, <1>2, <2>1 DEF Sound, Command, RecordFits, SameOrder
  <2>3. Chosen'
    BY <1>1, <1>2, <2>1, <2>2, ForgettingKeeps DEF Kept, Chosen
  <2> QED
    BY <1>1, <2>3, Elsewhere DEF Kept
<1> QED
  BY <1>3, <1>4

\* The rest of a purge: the acknowledgements, the receipts and the record.
LEMMA PurgingMeets ==
  ASSUME Sound, Kept, ctl.at \in {"acks", "receipts", "cleared"}
  PROVE  /\ binary = "none" /\ (op = None \/ op.kind = "purge")
         /\ \A u \in Users \ overlooked : ~link[u]
<1>1. ctl.cmd = "finish-purge"
  BY CommandsByPlace DEF Sound, Command
<1>2. binary = "none"
  BY <1>1 DEF Sound, Command, StatusFits
<1> QED
  BY <1>1, <1>2 DEF Kept, Chosen, LinksSuppressed, Sound, Command, RecordFits

LEMMA PurgeAcksKeeps ==
  ASSUME Sound, Kept, PurgeAcks
  PROVE  Kept'
<1>1. CASE Refuse
  BY <1>1, FailureKeeps
<1>2. CASE ~Refuse
  <2>1. /\ ctl.at = "acks" /\ ctl'.at = "receipts" /\ OnlyOwnFiles
        /\ ack' = [u \in Users |-> IF u \in hidden THEN ack[u] ELSE None] /\ wish' = [u \in Users |-> FALSE]
        /\ usurped' = usurped \cup hidden \cup overlooked
        /\ UNCHANGED <<op, removed, binary, link, halted, overlooked>>
    BY <1>2 DEF PurgeAcks, Go, files, system, accounts, Sound, TypeOK
  <2>2. /\ binary = "none" /\ (op = None \/ op.kind = "purge") /\ \A u \in Users \ overlooked : ~link[u]
    BY <2>1, PurgingMeets
  <2>3. \A u \in Users \ usurped' : ack'[u] = None /\ ~wish'[u] /\ link'[u] = wish'[u]
    BY <2>1, <2>2 DEF Sound, TypeOK
  <2>4. op = None => removed = None
    BY <2>1 DEF OnlyOwnFiles
  <2>5. (LinksSuppressed /\ LinksStop /\ LinksKnown /\ ReceiptFits)'
    BY <2>1, <2>2, <2>4 DEF Kept, Chosen, LinksSuppressed, LinksStop, LinksKnown, ReceiptFits, Forgetting
  <2>6. SettledAsChosen'
    BY <2>1 DEF Kept, Chosen, SettledAsChosen, Everyone, Restoring, Forgetting
  <2>7. (AcksTell /\ ChoicesKept)'
    BY <2>1, <2>2, <2>3, <2>4 DEF AcksTell, ChoicesKept, Forgetting
  <2>8. Placed'
    BY <2>1, <2>3 DEF Placed, LinksLeft, ReceiptWritten, Purged
  <2> QED
    BY <2>5, <2>6, <2>7, <2>8 DEF Kept, Chosen
<1> QED
  BY <1>1, <1>2

LEMMA PurgeReceiptsKeeps ==
  ASSUME Sound, Kept, PurgeReceipts
  PROVE  Kept'
<1>1. /\ ctl.at = "receipts" /\ ctl'.at = "cleared" /\ removed' = None
      /\ UNCHANGED <<op, binary, link, ack, wish, usurped, halted, overlooked>>
  BY DEF PurgeReceipts, Go, system, people, Sound, TypeOK
<1>2. /\ binary = "none" /\ (op = None \/ op.kind = "purge") /\ \A u \in Users \ overlooked : ~link[u]
  BY <1>1, PurgingMeets
<1>3. /\ overlooked \subseteq usurped
      /\ \A u \in Users \ usurped : ack[u] = None /\ ~wish[u] /\ link[u] = wish[u]
  BY <1>1, <1>2 DEF Kept, Placed, Purged, Sound, TypeOK
<1>4. (LinksSuppressed /\ LinksStop /\ LinksKnown /\ ReceiptFits)'
  BY <1>1, <1>2 DEF LinksSuppressed, LinksStop, LinksKnown, ReceiptFits
<1>5. SettledAsChosen'
  BY <1>1 DEF Kept, Chosen, SettledAsChosen, Everyone, Restoring, Forgetting
<1>6. (AcksTell /\ ChoicesKept)'
  BY <1>1, <1>2, <1>3 DEF AcksTell, ChoicesKept, Forgetting
<1>7. Placed'
  BY <1>1, <1>3 DEF Placed, LinksLeft, ReceiptWritten, Purged
<1> QED
  BY <1>4, <1>5, <1>6, <1>7 DEF Kept, Chosen

LEMMA PurgeRecordKeeps ==
  ASSUME Sound, Kept, PurgeRecord
  PROVE  Kept'
<1>1. /\ ctl.at = "cleared" /\ ctl'.at = "controllers" /\ op' = None
      /\ UNCHANGED <<removed, binary, link, ack, wish, usurped, halted, overlooked>>
  BY DEF PurgeRecord, Go, system, people, Sound, TypeOK
<1>2. /\ binary = "none" /\ \A u \in Users \ overlooked : ~link[u]
  BY <1>1, PurgingMeets
<1>3. removed = None /\ \A u \in Users \ usurped : ack[u] = None /\ ~wish[u] /\ link[u] = wish[u]
  BY <1>1, <1>2 DEF Kept, Placed, Purged, Sound, TypeOK
<1>4. (LinksSuppressed /\ LinksStop /\ LinksKnown /\ ReceiptFits)'
  BY <1>1, <1>2, <1>3 DEF LinksSuppressed, LinksStop, LinksKnown, ReceiptFits
<1>5. (SettledAsChosen /\ AcksTell /\ ChoicesKept)'
  BY <1>1, <1>3 DEF SettledAsChosen, AcksTell, ChoicesKept
<1> QED
  BY <1>1, <1>4, <1>5, Elsewhere DEF Kept, Chosen

LEMMA ControllerKeeps ==
  ASSUME Sound, Kept, Controller
  PROVE  Kept'
<1>1. CASE Preparing
  BY <1>1, GoingKeeps, RecordKeeps, CopyKeeps, StopKeeps, SuppressKeeps, AllStoppedKeeps DEF Preparing
<1>2. CASE Finishing
  BY <1>2, AbortRemoveKeeps, GoingKeeps, SettleKeeps, RecoverKeeps, ExamineKeeps, RestoreKeeps, RelockKeeps,
     ReceiptKeeps, FinalizeKeeps, RetireKeeps, ForgetKeeps, ClearKeeps, DoneKeeps
     DEF Finishing
<1>3. CASE Reinstalling
  BY <1>3, GoingKeeps, PrepareReinstallKeeps DEF Reinstalling
<1>4. CASE Purging
  BY <1>4, GoingKeeps, BeginPurgeKeeps, SettlePurgeKeeps, PurgeAcksKeeps, PurgeReceiptsKeeps, PurgeRecordKeeps
     DEF Purging
<1>5. CASE Upgrading
  BY <1>5, GoingKeeps, ProgramKeeps DEF Upgrading
<1> QED
  BY <1>1, <1>2, <1>3, <1>4, <1>5 DEF Controller

LEMMA ScriptsKeep ==
  ASSUME Sound, Kept, Scripts \/ Killed
  PROVE  Kept'
<1> USE DEF files, system, people
<1>1. CASE DeleteFiles
  <2>1. /\ dpkg.status = "removing" /\ binary # "none" /\ binary' = "none" /\ ctl = Idle
        /\ UNCHANGED <<op, removed, link, ack, wish, usurped, halted, overlooked, ctl>>
    BY <1>1 DEF DeleteFiles, Status
  <2>2. op # None /\ op.phase # "intent" /\ ~Restoring
    BY <2>1 DEF Sound, Command, StatusFits, RecordIs, Restoring
  <2>3. \A u \in Users \ overlooked : ~link[u]
    BY <2>2 DEF Kept, Chosen, LinksSuppressed
  <2>4. (LinksSuppressed /\ LinksStop /\ LinksKnown /\ ReceiptFits)'
    BY <2>1, <2>3 DEF Kept, Chosen, LinksSuppressed, LinksStop, LinksKnown, ReceiptFits, Everyone, Forgetting
  <2>5. (SettledAsChosen /\ AcksTell /\ ChoicesKept)'
    BY <2>1 DEF Kept, Chosen, SettledAsChosen, AcksTell, ChoicesKept, Holds, Everyone, Restoring, Forgetting
  <2>6. ctl'.at = "idle"
    BY <2>1 DEF Idle
  <2> QED
    BY <2>4, <2>5, <2>6, Elsewhere DEF Kept, Chosen
<1>2. CASE Unpack
  <2>1. /\ dpkg.status = "unpacking" /\ binary' = "app" /\ ctl = Idle
        /\ UNCHANGED <<op, removed, link, ack, wish, usurped, halted, overlooked, ctl>>
    BY <1>2 DEF Unpack, Status
  <2>2. ctl'.at = "idle"
    BY <2>1 DEF Idle
  <2>3. CASE binary # "none"
    BY <2>1, <2>2, <2>3, DataStays, Elsewhere DEF Kept
  <2>4. CASE binary = "none"
    <3>1. removed # None => op # None /\ op.kind = "reinstall"
      BY <2>1, <2>4 DEF Sound, Command, StatusFits
    <3>2. (LinksSuppressed /\ LinksStop /\ LinksKnown /\ ReceiptFits)'
      BY <2>1, <3>1 DEF Kept, Chosen, LinksSuppressed, LinksStop, LinksKnown, ReceiptFits, Everyone, Restoring, Forgetting
    <3>3. (SettledAsChosen /\ AcksTell /\ ChoicesKept)'
      BY <2>1 DEF Kept, Chosen, SettledAsChosen, AcksTell, ChoicesKept, Holds, Everyone, Restoring, Forgetting
    <3> QED
      BY <2>2, <3>2, <3>3, Elsewhere DEF Kept, Chosen
  <2> QED
    BY <2>3, <2>4
<1>3. CASE ~DeleteFiles /\ ~Unpack
  <2>1. UNCHANGED <<op, removed, binary, link, ack, wish, usurped, halted, overlooked>>
    BY <1>3 DEF Scripts, Killed, Prerm, PostinstAbort, Postrm, PostrmPurge, PreinstInstall,
       PreinstUpgrade, PostrmAbort, PostinstConfigure
  <2>2. (ctl = Idle /\ ctl' = ctl) \/ \E cmd \in Commands : Start(cmd)
    BY <1>3 DEF Scripts, Killed, Prerm, PostinstAbort, Postrm, PostrmPurge, PreinstInstall,
       PreinstUpgrade, PostrmAbort, PostinstConfigure, Status, Start, Commands
  <2>3. ctl'.at \in {"idle", "begin"}
    <3>1. ctl = Idle /\ ctl' = ctl => ctl'.at = "idle"
      BY DEF Idle
    <3>2. ASSUME NEW cmd \in Commands, Start(cmd) PROVE ctl'.at = "begin"
      BY <3>2 DEF Start, Idle
    <3> QED
      BY <2>2, <3>1, <3>2
  <2> QED
    BY <2>1, <2>3, DataStays, Elsewhere DEF Kept
<1> QED
  BY <1>1, <1>2, <1>3

LEMMA AckWritten ==
  ASSUME TypeOK, NEW u \in Users, NEW c \in BOOLEAN,
         ack' = [ack EXCEPT ![u] = [choice |-> c, runtime |-> session[u]]]
  PROVE  /\ ack'[u].choice = c /\ ack'[u] # None
         /\ \A v \in Users \ {u} : ack'[v] = ack[v]
<1> DEFINE a == [choice |-> c, runtime |-> session[u]]
<1>1. a \in [choice : BOOLEAN, runtime : Sessions] /\ a.choice = c
  BY DEF TypeOK
<1> HIDE DEF a
<1>2. ack'[u] = a /\ \A v \in Users \ {u} : ack'[v] = ack[v]
  <2>1. ack' = [ack EXCEPT ![u] = a]
    BY DEF a
  <2> QED
    BY <2>1 DEF TypeOK
<1> QED
  BY <1>1, <1>2, NoneApart

\* Whoever starts, serves, stops, comes or goes leaves the choices alone.
LEMMA ComingAndGoingKeeps ==
  ASSUME Kept, UNCHANGED <<op, removed, binary, link, ack, wish, usurped, halted, overlooked, ctl>>
  PROVE  Kept'
<1>1. Placed'
  BY DEF Kept, Placed, LinksLeft, ReceiptWritten, RecordIs, Purged
<1> QED
  BY <1>1, DataStays DEF Kept

\* A provider that starts records the link it finds: the choice, or a choice still to be settled.
LEMMA PublishKeeps ==
  ASSUME Sound, Excluded, Kept, NEW u \in Users, Publish(u), u \notin halted \cup hidden
  PROVE  Kept'
<1>1. /\ prov[u] = "starting" /\ ack' = [ack EXCEPT ![u] = [choice |-> link[u], runtime |-> session[u]]]
      /\ overlooked' = overlooked \ {u}
      /\ UNCHANGED <<op, removed, binary, link, wish, usurped, halted, ctl>>
  BY DEF Publish, files, system
<1>2. /\ ack'[u].choice = link[u] /\ ack'[u] # None /\ \A v \in Users \ {u} : ack'[v] = ack[v]
  <2>1. PICK c \in BOOLEAN : c = link[u]
    BY DEF Sound, TypeOK
  <2>2. ack' = [ack EXCEPT ![u] = [choice |-> c, runtime |-> session[u]]]
    BY <1>1, <2>1
  <2> QED
    BY <2>1, <2>2, AckWritten DEF Sound
<1>3. binary # "none"
  BY <1>1 DEF Excluded, QuietWhileReplaced, Quiet, Running, PassedOver
<1>4. ctl.at \notin {"receipts", "cleared"}
  BY <1>3, CommandsByPlace DEF Sound, Command, StatusFits
<1>5. op # None => /\ Restoring /\ op.phase = "settling" /\ u \in Everyone
                   /\ op.who[u].choice /\ op.who[u].settled = "pending"
  BY <1>1 DEF Excluded, StartsAwaited, Unbarred
<1>6. ctl.at \notin {"stop", "suppress"}
  BY <1>5 DEF Sound, Command, RecordFits, ProgressFits
<1>7. (LinksSuppressed /\ LinksStop /\ LinksKnown /\ ReceiptFits)'
  <2>1. (LinksSuppressed /\ LinksStop)'
    BY <1>1, <1>3, <1>5 DEF Kept, Chosen, LinksSuppressed, LinksStop, Everyone, Restoring
  <2>2. (LinksKnown /\ ReceiptFits)'
    BY <1>1, <1>2 DEF Kept, Chosen, LinksKnown, ReceiptFits, Everyone, Forgetting
  <2> QED
    BY <2>1, <2>2
<1>8. SettledAsChosen'
  BY <1>1 DEF Kept, Chosen, SettledAsChosen, Everyone, Restoring, Forgetting
<1>9. AcksTell'
  BY <1>1, <1>2, <1>5 DEF Kept, Chosen, AcksTell, Everyone, Restoring, Forgetting
<1>10. ChoicesKept'
  <2>1. op = None /\ u \notin usurped => link[u] = wish[u]
    BY <1>3 DEF Kept, Chosen, ReceiptFits, ChoicesKept, Forgetting
  <2> QED
    BY <1>1, <1>2, <2>1 DEF Kept, Chosen, ChoicesKept, Holds, Everyone, Forgetting
<1>11. Placed'
  BY <1>1, <1>4, <1>6 DEF Kept, Placed, LinksLeft, ReceiptWritten, RecordIs, Purged
<1> QED
  BY <1>7, <1>8, <1>9, <1>10, <1>11 DEF Kept, Chosen

\* The background mode is turned on or off between operations, or its transition is left half done:
\* then the user's choice is one that is still half made.
LEMMA ControlKeeps ==
  ASSUME Sound, Kept, NEW u \in Users, Choose(u) \/ Halt(u)
  PROVE  Kept'
<1>1. /\ ctl.at \in {"idle", "restore", "await"} /\ op = None /\ binary # "none"
      /\ overlooked' = overlooked \ {u}
      /\ UNCHANGED <<op, removed, binary, ctl>>
  BY DEF Choose, Halt, Controls, Locked, Unbarred, Programs, files, system
<1>2. removed = None
  BY <1>1 DEF Kept, Chosen, ReceiptFits
<1>3. PICK c \in BOOLEAN, a \in BOOLEAN :
        /\ link' = [link EXCEPT ![u] = c]
        /\ ack' = [ack EXCEPT ![u] = [choice |-> a, runtime |-> session[u]]]
        /\ \/ /\ Choose(u) /\ a = c /\ wish' = [wish EXCEPT ![u] = c]
              /\ usurped' = usurped \ {u} /\ halted' = halted \ {u}
           \/ UNCHANGED <<wish, usurped>> /\ halted' = halted \cup {u}
  <2>1. CASE Choose(u)
    BY <2>1 DEF Choose
  <2>2. CASE Halt(u)
    <3>1. PICK a \in BOOLEAN : a = link[u]
      BY DEF Sound, TypeOK
    <3> QED
      BY <2>2, <3>1 DEF Halt
  <2> QED
    BY <2>1, <2>2
<1>4. /\ ack'[u].choice = a /\ ack'[u] # None /\ \A v \in Users \ {u} : ack'[v] = ack[v]
  BY <1>3, AckWritten DEF Sound
<1>5. link'[u] = c /\ \A v \in Users \ {u} : link'[v] = link[v] /\ wish'[v] = wish[v]
  BY <1>3 DEF Sound, TypeOK
<1>6. u \notin halted' => link'[u] = wish'[u] /\ ack'[u].choice = wish'[u]
  BY <1>3, <1>4, <1>5 DEF Sound, TypeOK
<1>7. \A v \in Users \ {u} : v \in usurped' \cup halted' <=> v \in usurped \cup halted
  BY <1>3
<1>8. (LinksSuppressed /\ LinksStop /\ LinksKnown /\ ReceiptFits)'
  BY <1>1, <1>2, <1>4, <1>5 DEF Kept, Chosen, LinksSuppressed, LinksStop, LinksKnown, ReceiptFits
<1>9. (SettledAsChosen /\ AcksTell)'
  BY <1>1 DEF SettledAsChosen, AcksTell
<1>10. ChoicesKept'
  BY <1>1, <1>2, <1>4, <1>5, <1>6, <1>7 DEF Kept, Chosen, ChoicesKept, Forgetting
<1> QED
  BY <1>1, <1>8, <1>9, <1>10, Elsewhere DEF Kept, Chosen

LEMMA PeopleKeep ==
  ASSUME Sound, Excluded, Kept, People
  PROVE  Kept'
<1> PICK u \in Users : \/ Launch(u) \/ Open(u) \/ Publish(u) \/ Exit(u) \/ AdmitJob(u)
                       \/ JobAccepted(u) \/ Choose(u) \/ Halt(u) \/ Obscure(u) \/ Reveal(u)
                       \/ Logout(u) \/ Login(u)
  BY DEF People
<1>1. CASE Publish(u) /\ u \notin halted \cup hidden
  BY <1>1, PublishKeeps
<1>2. CASE Choose(u) \/ Halt(u)
  BY <1>2, ControlKeeps
<1>3. CASE ~(Publish(u) /\ u \notin halted \cup hidden) /\ ~Choose(u) /\ ~Halt(u)
  <2>1. UNCHANGED <<op, removed, binary, link, ack, wish, usurped, halted, overlooked, ctl>>
    BY <1>3 DEF Launch, Open, Begins, Publish, Exit, AdmitJob, JobAccepted, Obscure, Reveal, Logout, Login,
       files, system, accounts
  <2> QED
    BY <2>1, ComingAndGoingKeeps
<1> QED
  BY <1>1, <1>2, <1>3

LEMMA InitKeeps == Init => Kept
<1> SUFFICES ASSUME Init PROVE Kept
  OBVIOUS
<1>1. \A u \in Users : link[u] = wish[u] /\ ack[u].choice = wish[u]
  BY DEF Init
<1>2. \A u \in Users : ack[u] # None
  <2>1. \A u \in Users : ack[u] \in [choice : BOOLEAN, runtime : Sessions]
    BY DEF Init, Sessions
  <2> QED
    BY <2>1, NoneApart
<1>3. Chosen
  BY <1>1, <1>2 DEF Init, Chosen, LinksSuppressed, LinksStop, LinksKnown, ReceiptFits, SettledAsChosen, AcksTell,
     ChoicesKept, Forgetting
<1>4. Placed
  BY DEF Init, Idle, Placed, LinksLeft, ReceiptWritten, Purged
<1> QED
  BY <1>3, <1>4 DEF Kept

LEMMA NextKeeps ==
  ASSUME Sound, Excluded, Kept, [Next]_vars
  PROVE  Kept'
<1>1. CASE UNCHANGED vars
  <2>1. UNCHANGED <<op, removed, binary, link, ack, wish, usurped, halted, overlooked, ctl>>
    BY <1>1 DEF vars, files, system, people
  <2> QED
    BY <2>1, ComingAndGoingKeeps
<1>2. CASE Next
  BY <1>2, ControllerKeeps, ScriptsKeep, FailureKeeps, GoingKeeps, PeopleKeep DEF Next
<1> QED
  BY <1>1, <1>2

\* What a user chose outlives whatever package operations, deaths and retries follow: the record, the
\* removal receipt, the link and the acknowledgement take turns in holding it, and package_control.rs
\* drops none of them before another one tells the same.
THEOREM ChoicesOutlive == Spec => []ChoicesKept
<1>1. Spec => []Kept
  BY InitKeeps, CommandsKeepCourse, ExcludedHolds, NextKeeps, PTL DEF Spec
<1> QED
  BY <1>1, PTL DEF Kept, Chosen
=============================================================================
