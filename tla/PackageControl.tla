---------------------------- MODULE PackageControl ----------------------------
(***************************************************************************)
(* Installing, upgrading, removing and purging the Debian package under     *)
(* running providers. A maintainer script runs one command of the package   *)
(* controller, which keeps everything it must not forget in files of        *)
(* /var/lib/document-summarizer: an intent that bars providers, then a      *)
(* record of the operation with every participant's choice, a copy of the   *)
(* controller that survives the program, and receipts. Any command may die  *)
(* after any of its writes; dpkg or the administrator runs another one.     *)
(*                                                                          *)
(* The scripts of src-tauri/linux/debian decide which command runs. dpkg,   *)
(* which runs the scripts, and the sessions of the users are external. The  *)
(* lock on each user's directory of acknowledgements is left out: whoever   *)
(* holds it holds the quiesce lock too. A transition of the background mode *)
(* (LifecycleControl) is one step here, or one that leaves it half done.    *)
(***************************************************************************)
EXTENDS Naturals, FiniteSets

CONSTANTS Users,           \* accounts, by UID
          Disturbed,       \* bound: users who log in again, or whose files or transitions go wrong
          LastVersion,     \* the newest version there is
          MaxGenerations,  \* bound: intents and operations begun
          MaxLogins,       \* bound: sessions begun, the first ones counted as one
          MaxFaults        \* bound: deaths, deadlines and inconvenient user actions

ASSUME UsersAssumption == Users \subseteq Nat /\ IsFiniteSet(Users) /\ Disturbed \subseteq Users
ASSUME BoundsAssumption == /\ LastVersion \in Nat \ {0} /\ MaxGenerations \in Nat
                           /\ MaxLogins \in Nat \ {0} /\ MaxFaults \in Nat

VARIABLES intent,       \* package-quiesce-v1.record
          op,           \* package-operation-v1.json
          removed,      \* package-removal-receipt-v1.json
          install,      \* package-install-receipt-v1.json
          controllers,  \* generations with a package-controller-<generation>
          binary,       \* what /usr/bin/document-summarizer is
          quarantine,   \* the generation of a legacy-executable-<generation>
          dpkg,         \* dpkg's status of the package, and the version it has
          ctl,          \* the holder of the controller lock, and how far it is
          link,         \* the service is wanted by the user's default.target
          ack,          \* package-participant-v2.json in the user's home
          session,      \* the user's runtime directory: 0 or the number of the login
          prov,         \* the user's provider
          logins, gen, faults,  \* counters
          wish,         \* history: the choice the user last made
          usurped,      \* history: restorations settled by an application the user opened, and
                        \* accounts that a purge did not forget
          hidden,       \* accounts whose directory or acknowledgement is not authenticated
          halted,       \* accounts with a background-mode-transition-v1.json
          overlooked    \* history: accounts that a discovery passed over, till they publish anew

files == <<intent, op, removed, install, controllers>>
system == <<binary, quarantine, dpkg>>
accounts == <<hidden, halted, overlooked>>
people == <<link, ack, session, prov, logins, wish, usurped, hidden, halted, overlooked>>
vars == <<files, system, ctl, people, gen, faults>>

None == [none |-> TRUE]
Generations == 0..MaxGenerations
NoGeneration == 0
Versions == 1..LastVersion
Sessions == 0..MaxLogins
Kinds == {"upgrade", "remove", "purge", "reinstall"}
Settlements == {"pending", "disabled", "deferred", "ready"}
Participants == [choice : BOOLEAN, runtime : Sessions, settled : Settlements]
ParticipantLists == UNION {[S -> Participants] : S \in SUBSET Users}

\* A removal has no bootstrap part; here an upgrade always has one.
Intents == [generation : Generations, kind : {"remove"}, source : Versions, target : Versions,
            boot : {"none"}]
           \cup [generation : Generations, kind : {"upgrade"}, source : Versions, target : Versions,
                 boot : {"quarantining", "quiesced", "adopted"}]
Operations == [generation : Generations, kind : Kinds, rollback : BOOLEAN,
               phase : {"intent", "stopped", "settling", "finalizing"},
               source : Versions, target : Versions, predecessor : Generations,
               who : ParticipantLists]
RemovalReceipts == [generation : Generations, version : Versions, who : ParticipantLists]
InstallReceipts == [generation : Generations, version : Versions]

Programs == {"app", "restored"}   \* the second with another inode than the one put aside

Idle == [cmd |-> "none", at |-> "idle", left |-> {}, got |-> "pending"]
Commands == {"prepare-remove", "abort-remove", "finish-remove", "finish-purge", "adopt-bootstrap",
             "recover-install", "prepare-reinstall", "preinst-upgrade", "abort-upgrade"}
Places == {"begin", "record", "copy", "stop", "suppress", "stopped", "adopt", "dequarantine", "unmark",
           "settle", "examine", "restore", "await", "relock", "receipt", "retire", "forget", "clear",
           "reinstall", "adopt-controller", "empty", "acks", "receipts", "cleared", "controllers",
           "wrap", "terminate", "quiesced", "unquarantine", "done"}
Statuses == {"installed", "prerm-failed", "removing", "removed", "preinst-failed", "unpacking",
             "unpacked", "half-configured", "absent"}

Init == /\ intent = None /\ op = None /\ removed = None
        /\ install \in {None, [generation |-> NoGeneration, version |-> 1]}
        /\ controllers = {} /\ binary = "app" /\ quarantine = NoGeneration
        /\ dpkg = [status |-> "installed", version |-> 1]
        /\ ctl = Idle
        /\ link \in [Users -> BOOLEAN] /\ wish = link
        /\ ack = [u \in Users |-> [choice |-> link[u], runtime |-> 1]]
        /\ session \in [Users -> {0, 1}]
        /\ prov = [u \in Users |-> "off"]
        /\ logins = 1 /\ gen = 0 /\ faults = 0
        /\ usurped = {} /\ hidden = {} /\ halted = {} /\ overlooked = {}

-----------------------------------------------------------------------------
(***************************************************************************)
(* Locks, steps and outcomes                                                *)
(***************************************************************************)
At(cmds, place) == ctl.cmd \in cmds /\ ctl.at = place
Go(place) == ctl' = [ctl EXCEPT !.at = place]
Fault == faults < MaxFaults /\ faults' = faults + 1
Room == gen < MaxGenerations   \* for the intent or the operation that a script will begin
Fresh == gen' = gen + 1

\* A command holds the quiesce and the package lock except while a successor starts.
Locked == ctl.at \notin {"idle", "restore", "await"}
SharedHeld == \E u \in Users : prov[u] \in {"starting", "admitting"}

Everyone == IF op = None THEN {} ELSE DOMAIN op.who
First(S) == CHOOSE u \in S : \A v \in S : u <= v
Restoring == op.kind \in {"upgrade", "reinstall"} \/ op.rollback

\* The target that the script passes to its command.
Target == IF ctl.cmd = "preinst-upgrade" THEN dpkg.version + 1 ELSE dpkg.version

\* validate, without the checks of well-formedness.
Valid(kind, target) == op # None /\ op.kind = kind /\ op.target = target

\* What dpkg makes of the script's exit.
StatusAfter(cmd, ok) ==
  CASE cmd = "prepare-remove" -> IF ok THEN "removing" ELSE "prerm-failed"
    [] cmd = "abort-remove" -> IF dpkg.status # "prerm-failed" THEN dpkg.status
                               ELSE IF ok THEN "installed" ELSE "half-configured"
    [] cmd = "finish-remove" -> IF ok THEN "removed" ELSE "removing"
    [] cmd = "finish-purge" -> IF ok /\ dpkg.status = "removed" THEN "absent" ELSE dpkg.status
    [] cmd = "prepare-reinstall" -> IF ok THEN "unpacking" ELSE "removed"
    [] cmd = "preinst-upgrade" -> IF ok THEN "unpacking" ELSE "preinst-failed"
    [] cmd = "abort-upgrade" -> IF ok THEN "installed" ELSE "preinst-failed"
    [] OTHER -> "half-configured"

Leave(ok) == ctl' = Idle /\ dpkg' = [dpkg EXCEPT !.status = StatusAfter(ctl.cmd, ok)]

\* Variant: the command does not wait for those who hold the locks shared.
Start_Unlocked(cmd) == ctl = Idle /\ ctl' = [Idle EXCEPT !.cmd = cmd, !.at = "begin"]
Start(cmd) == /\ ctl = Idle /\ ~SharedHeld
              /\ ctl' = [Idle EXCEPT !.cmd = cmd, !.at = "begin"]

\* Every ? of the controller: nothing that was written is undone.
Refuse == /\ Leave(FALSE)
          /\ UNCHANGED <<files, binary, quarantine, people, gen, faults>>
Die == /\ ctl # Idle /\ Fault
       /\ Leave(FALSE)
       /\ UNCHANGED <<files, binary, quarantine, people, gen>>

\* The runtime directory is the recorded one, or absent.
DirectoriesMatch(u) == session[u] \in {0, op.who[u].runtime}

\* refresh_runtime_identity: a participant recorded without a session takes the present one.
Refreshed(u) == IF op.who[u].runtime = 0 THEN [op.who[u] EXCEPT !.runtime = session[u]] ELSE op.who[u]

-----------------------------------------------------------------------------
(***************************************************************************)
(* Preparing: the intent, the record, the copy, and everyone stopped        *)
(***************************************************************************)
NewIntent(kind, target, boot) ==
  [generation |-> gen + 1, kind |-> kind, source |-> dpkg.version, target |-> target, boot |-> boot]

\* ensure_quiesce_intent
IntentMatches == /\ intent.kind = "remove" /\ intent.boot = "none"
                 /\ intent.source = Target /\ intent.target = Target
Mark == /\ At({"prepare-remove"}, "begin")
        /\ intent = None
        /\ Fresh /\ intent' = NewIntent("remove", Target, "none")
        /\ Go("record")
        /\ UNCHANGED <<op, removed, install, controllers, system, people, faults>>
MarkAgain == /\ At({"prepare-remove"}, "begin")
             /\ intent # None
             /\ IF IntentMatches THEN Go("record") /\ UNCHANGED <<files, system, people, gen, faults>>
                                 ELSE Refuse

\* adopt_bootstrap
\* Variant: an intent without a bootstrap part is adopted, too.
Adoptable_AnyIntent == intent.boot = "quiesced" => quarantine = intent.generation
Adoptable == /\ intent.kind = "upgrade" /\ intent.boot \in {"quiesced", "adopted"}
             /\ intent.boot = "quiesced" => quarantine = intent.generation
BeginAdoption == /\ At({"adopt-bootstrap"}, "begin")
                 /\ IF Adoptable THEN Go("record") /\ UNCHANGED <<files, system, people, gen, faults>>
                                 ELSE Refuse

\* discover: whoever left an acknowledgement. An account that cannot be authenticated is passed over;
\* one in another session than it acknowledged, or in the middle of a transition, refuses for all.
Discovering == {u \in Users \ hidden : ack[u] # None}
SameSession(u) == session[u] \in {0, ack[u].runtime}
Discoverable == \A u \in Discovering : SameSession(u) /\ u \notin halted
Discovered == [u \in Discovering |->
                 [choice |-> ack[u].choice, runtime |-> session[u], settled |-> "pending"]]
NewOperation(i) == [generation |-> i.generation, kind |-> i.kind, rollback |-> FALSE,
                    phase |-> "intent", source |-> i.source, target |-> i.target,
                    predecessor |-> NoGeneration, who |-> Discovered]

\* prepare_from_intent finds the record of this very intent, or writes it.
\* Variant: only a preparation that stopped nobody yet is gone on with.
Continues_Unstarted(i) == /\ Valid(i.kind, i.target) /\ ~op.rollback
                          /\ op.generation = i.generation /\ op.phase = "intent"
Continues(i) == /\ Valid(i.kind, i.target) /\ ~op.rollback
                /\ op.generation = i.generation /\ op.source = i.source
Record == /\ At({"prepare-remove", "adopt-bootstrap"}, "record")
          /\ IF op = None /\ Discoverable
             THEN /\ op' = NewOperation(intent) /\ Go("copy")
                  /\ overlooked' = (overlooked \cup hidden) \ Discovering
                  /\ UNCHANGED <<intent, removed, install, controllers, system, link, ack, session, prov,
                                 logins, wish, usurped, hidden, halted, gen, faults>>
             ELSE IF op # None /\ Continues(intent)
             THEN Go("copy") /\ UNCHANGED <<files, system, people, gen, faults>>
             ELSE Refuse

\* prepare_controller. Only the first phase has anybody to stop.
Copy == /\ ctl.at = "copy"
        /\ controllers' = controllers \cup {op.generation}
        /\ ctl' = [ctl EXCEPT !.at = IF op.phase = "intent" THEN "stop" ELSE "stopped",
                              !.left = Everyone]
        /\ UNCHANGED <<intent, op, removed, install, system, people, gen, faults>>

Stop == /\ ctl.at = "stop" /\ ctl.left # {}
        /\ LET u == First(ctl.left) IN
           IF session[u] \in {0, Refreshed(u).runtime}
           THEN /\ op' = [op EXCEPT !.who[u] = Refreshed(u)]
                /\ prov' = [prov EXCEPT ![u] = "off"]
                /\ Go("suppress")
                /\ UNCHANGED <<intent, removed, install, controllers, system,
                               link, ack, session, logins, wish, usurped, accounts, gen, faults>>
           ELSE Refuse
Suppress == /\ ctl.at = "suppress"
            /\ LET u == First(ctl.left) IN
               IF DirectoriesMatch(u) /\ prov[u] = "off"
               THEN /\ link' = [link EXCEPT ![u] = FALSE]
                    /\ ctl' = [ctl EXCEPT !.at = "stop", !.left = @ \ {u}]
                    /\ UNCHANGED <<files, system, ack, session, prov, logins, wish, usurped, accounts, gen, faults>>
               ELSE Refuse
AllStopped == /\ ctl.at = "stop" /\ ctl.left = {}
              /\ op' = [op EXCEPT !.phase = "stopped"]
              /\ Go("stopped")
              /\ UNCHANGED <<intent, removed, install, controllers, system, people, gen, faults>>

\* What each command does once everyone is stopped.
Prepared == /\ ctl.at = "stopped"
            /\ Go(CASE ctl.cmd = "adopt-bootstrap" -> "adopt"
                    [] ctl.cmd = "prepare-reinstall" -> "settle"
                    [] OTHER -> "unmark")
            /\ UNCHANGED <<files, system, people, gen, faults>>
Adopt == /\ ctl.at = "adopt"
         /\ intent' = [intent EXCEPT !.boot = "adopted"]
         /\ Go("dequarantine")
         /\ UNCHANGED <<op, removed, install, controllers, system, people, gen, faults>>
Dequarantine == /\ ctl.at = "dequarantine"
                /\ quarantine' = NoGeneration
                /\ Go("unmark")
                /\ UNCHANGED <<files, binary, dpkg, people, gen, faults>>

\* clear_quiesce, where the command has come to trust its record.
Unmark == /\ ctl.at = "unmark"
          /\ intent' = None
          /\ Go(CASE ctl.cmd = "abort-remove" -> IF op = None THEN "done" ELSE "settle"
                  [] ctl.cmd = "finish-purge" -> "empty"
                  [] OTHER -> "done")
          /\ UNCHANGED <<op, removed, install, controllers, system, people, gen, faults>>

-----------------------------------------------------------------------------
(***************************************************************************)
(* Rolling back, settling and finishing                                     *)
(***************************************************************************)
\* abort_remove
AbortAccepted == intent # None => IntentMatches
AbortsOwn == /\ Valid("remove", Target) /\ op.source = Target
             /\ intent # None => intent.generation = op.generation
             /\ removed # None => removed.generation # op.generation
             /\ op.rollback \/ op.phase \in {"intent", "stopped"}
AbortRemove ==
  /\ At({"abort-remove"}, "begin")
  /\ IF AbortAccepted /\ op = None
     THEN Go("unmark") /\ UNCHANGED <<files, system, people, gen, faults>>
     ELSE IF AbortAccepted /\ AbortsOwn
     THEN /\ op' = IF op.rollback THEN op ELSE [op EXCEPT !.rollback = TRUE, !.phase = "settling"]
          /\ Go("unmark")
          /\ UNCHANGED <<intent, removed, install, controllers, system, people, gen, faults>>
     ELSE Refuse

\* The guards of run_with before it calls finish.
FinishBegins ==
  /\ ctl.at = "begin" /\ ctl.cmd \in {"finish-remove", "recover-install"}
  /\ IF op # None /\ Valid(op.kind, Target)
        /\ IF ctl.cmd = "finish-remove" THEN op.kind = "remove" /\ ~op.rollback
                                        ELSE op.kind \in {"upgrade", "reinstall"}
     THEN Go("settle") /\ UNCHANGED <<files, system, people, gen, faults>>
     ELSE Refuse

\* finish, up to its loop. What was settled before is not done again.
Unsettled == {u \in Everyone : op.who[u].settled = "pending"}
ReceiptsAreExact == /\ op.kind = "remove" /\ ~op.rollback
                         => removed = [generation |-> op.generation, version |-> op.target, who |-> op.who]
                    /\ op.kind = "reinstall"
                         => install = [generation |-> op.generation, version |-> op.target]
Settle == /\ ctl.at = "settle"
          /\ IF op.phase \in {"stopped", "settling"}
             THEN /\ op' = [op EXCEPT !.phase = "settling"]
                  /\ ctl' = [ctl EXCEPT !.at = "examine", !.left = Unsettled]
                  /\ UNCHANGED <<intent, removed, install, controllers, system, people, gen, faults>>
             ELSE IF op.phase = "finalizing" /\ Unsettled = {} /\ ReceiptsAreExact
             THEN Go("retire") /\ UNCHANGED <<files, system, people, gen, faults>>
             ELSE Refuse

Settled(u, settlement) == [op EXCEPT !.who[u] = [Refreshed(u) EXCEPT !.settled = settlement]]
SettleAs(u, settlement) == /\ op' = Settled(u, settlement)
                           /\ ctl' = [ctl EXCEPT !.at = "examine", !.left = @ \ {u}, !.got = "pending"]
                           /\ UNCHANGED <<intent, removed, install, controllers>>

\* History: an application that the user opened, or that started before the link was back,
\* stands in for the service, or it left an acknowledgement that says there was none.
Usurp(u) == usurped' = IF link[u] /\ ack[u].choice THEN usurped ELSE usurped \cup {u}

\* recover_pending_restore: a successor left by an earlier attempt is taken, or stopped.
HasSuccessor(u) == Restoring /\ op.who[u].choice /\ session[u] # 0 /\ prov[u] = "serving"
Recover == /\ ctl.at = "examine" /\ ctl.left # {}
           /\ LET u == First(ctl.left) IN
              /\ HasSuccessor(u)
              /\ IF session[u] = Refreshed(u).runtime
                 THEN /\ SettleAs(u, "ready") /\ Usurp(u)
                      /\ UNCHANGED <<system, link, ack, session, prov, logins, wish, accounts, gen, faults>>
                 ELSE Refuse
StopUnready == /\ ctl.at = "examine" /\ ctl.left # {} /\ HasSuccessor(First(ctl.left))
               /\ Fault
               /\ prov' = [prov EXCEPT ![First(ctl.left)] = "off"]
               /\ UNCHANGED <<files, system, ctl, link, ack, session, logins, wish, usurped, accounts, gen>>
Examine == /\ ctl.at = "examine" /\ ctl.left # {}
           /\ LET u == First(ctl.left) IN
              /\ ~HasSuccessor(u)
              /\ IF session[u] \notin {0, Refreshed(u).runtime} \/ prov[u] # "off"
                 THEN Refuse
                 ELSE /\ IF Restoring
                         THEN /\ op' = Settled(u, "pending") /\ Go("restore")
                              /\ UNCHANGED <<intent, removed, install, controllers>>
                         ELSE SettleAs(u, "disabled")
                      /\ UNCHANGED <<system, people, gen, faults>>

\* restore, with the locks released: the link, and the manager if there is a session.
Outcome(u) == IF ~op.who[u].choice THEN "disabled" ELSE IF session[u] = 0 THEN "deferred" ELSE "ready"
Restore == /\ ctl.at = "restore"
           /\ LET u == First(ctl.left) IN
              IF DirectoriesMatch(u)
              THEN /\ link' = [link EXCEPT ![u] = op.who[u].choice]
                   /\ ctl' = [ctl EXCEPT !.at = IF Outcome(u) = "ready" THEN "await" ELSE "relock",
                                         !.got = Outcome(u)]
                   /\ UNCHANGED <<files, system, ack, session, prov, logins, wish, usurped, accounts, gen, faults>>
              ELSE Refuse
\* wait_for_registered_provider; its deadline is Die.
Await == /\ ctl.at = "await"
         /\ LET u == First(ctl.left) IN
            IF session[u] = 0 THEN Refuse
            ELSE /\ prov[u] \in {"serving", "admitting"}
                 /\ Go("relock")
                 /\ UNCHANGED <<files, system, people, gen, faults>>

\* The locks again, and validate_restored under them.
Restored(u) == CASE ctl.got = "ready" -> session[u] = op.who[u].runtime /\ prov[u] = "serving"
                 [] ctl.got = "deferred" -> session[u] = 0 /\ link[u]
                 [] ctl.got = "disabled" -> DirectoriesMatch(u) /\ ~link[u]
Relock == /\ ctl.at = "relock" /\ ~SharedHeld
          /\ LET u == First(ctl.left) IN
             IF Restored(u)
             THEN /\ SettleAs(u, ctl.got)
                  /\ IF ctl.got = "disabled" THEN UNCHANGED usurped ELSE Usurp(u)
                  /\ UNCHANGED <<system, link, ack, session, prov, logins, wish, accounts, gen, faults>>
             ELSE Refuse

\* write_removal_receipt, write_install_receipt
Receipt == /\ ctl.at = "examine" /\ ctl.left = {}
           /\ IF op.kind = "remove" /\ ~op.rollback
              THEN LET receipt == [generation |-> op.generation, version |-> op.target, who |-> op.who] IN
                   IF removed \in {None, receipt}
                   THEN /\ removed' = receipt /\ Go("receipt")
                        /\ UNCHANGED <<intent, op, install, controllers, system, people, gen, faults>>
                   ELSE Refuse
              ELSE IF op.kind = "reinstall"
              THEN IF install = None \/ install.generation = op.generation \/ install.version = op.source
                   THEN /\ install' = [generation |-> op.generation, version |-> op.target]
                        /\ Go("receipt")
                        /\ UNCHANGED <<intent, op, removed, controllers, system, people, gen, faults>>
                   ELSE Refuse
              ELSE Go("receipt") /\ UNCHANGED <<files, system, people, gen, faults>>
Finalize == /\ ctl.at = "receipt"
            /\ op' = [op EXCEPT !.phase = "finalizing"]
            /\ Go("retire")
            /\ UNCHANGED <<intent, removed, install, controllers, system, people, gen, faults>>

\* retire_controller, remove_exact_removal_receipt and clear
Retire == /\ ctl.at = "retire"
          /\ controllers' = IF Restoring THEN controllers \ {op.generation} ELSE controllers
          /\ Go("forget")
          /\ UNCHANGED <<intent, op, removed, install, system, people, gen, faults>>
Forget == /\ ctl.at = "forget"
          /\ IF op.kind # "reinstall" \/ removed = None
             THEN Go("clear") /\ UNCHANGED <<files, system, people, gen, faults>>
             ELSE IF removed.generation = op.predecessor
             THEN /\ removed' = None /\ Go("clear")
                  /\ UNCHANGED <<intent, op, install, controllers, system, people, gen, faults>>
             ELSE Refuse
Clear == /\ ctl.at = "clear"
         /\ op' = None
         /\ Go(IF ctl.cmd = "prepare-reinstall" THEN "reinstall" ELSE "done")
         /\ UNCHANGED <<intent, removed, install, controllers, system, people, gen, faults>>

\* A script whose command succeeded exits, and so does dpkg's step.
Done == /\ ctl.at = "done"
        /\ Leave(TRUE)
        /\ UNCHANGED <<files, binary, quarantine, people, gen, faults>>

-----------------------------------------------------------------------------
(***************************************************************************)
(* Installing again                                                         *)
(***************************************************************************)
BeginReinstall == /\ At({"prepare-reinstall"}, "begin")
                  /\ IF op = None \/ op.kind = "reinstall"
                     THEN Go("reinstall") /\ UNCHANGED <<files, system, people, gen, faults>>
                     ELSE IF op.kind = "remove" /\ ~op.rollback
                     THEN Go("copy") /\ UNCHANGED <<files, system, people, gen, faults>>
                     ELSE Refuse

\* prepare_reinstall: everybody's choice is to be settled anew.
\* Variant: the choice is read from the present enablement.
Again_Enablement == [u \in DOMAIN removed.who |-> [removed.who[u] EXCEPT !.settled = "pending",
                                                                        !.choice = link[u]]]
Again == [u \in DOMAIN removed.who |-> [removed.who[u] EXCEPT !.settled = "pending"]]
Succession(g) == [generation |-> g, kind |-> "reinstall", rollback |-> FALSE, phase |-> "stopped",
                  source |-> removed.version, target |-> Target,
                  predecessor |-> removed.generation, who |-> Again]
PrepareReinstall ==
  /\ ctl.at = "reinstall"
  /\ IF removed = None \/ (op # None /\ op # Succession(op.generation)) THEN Refuse
     ELSE IF op = None
     THEN /\ Fresh /\ op' = Succession(gen + 1) /\ Go("adopt-controller")
          /\ UNCHANGED <<intent, removed, install, controllers, system, people, faults>>
     ELSE Go("adopt-controller") /\ UNCHANGED <<files, system, people, gen, faults>>

\* adopt_reinstall_controller: a rename, done or to be done
AdoptController ==
  /\ ctl.at = "adopt-controller"
  /\ IF (op.generation \in controllers) = (op.predecessor \in controllers) THEN Refuse
     ELSE /\ controllers' = (controllers \ {op.predecessor}) \cup {op.generation}
          /\ Go("done")
          /\ UNCHANGED <<intent, op, removed, install, system, people, gen, faults>>

-----------------------------------------------------------------------------
(***************************************************************************)
(* Purging                                                                  *)
(***************************************************************************)
PurgeAccepted ==
  /\ intent # None => intent.kind = "remove" /\ intent.target = Target
  /\ removed # None => /\ removed.version = Target
                       /\ \A u \in DOMAIN removed.who : removed.who[u].settled = "disabled"
  /\ op # None => /\ ~op.rollback /\ op.kind \in {"remove", "purge"} /\ op.target = Target
                  /\ removed # None => removed.generation = op.generation /\ removed.who = op.who
                  /\ intent # None => intent.generation = op.generation /\ intent.source = op.source
  /\ op = None /\ removed # None /\ intent # None
       => intent.generation = removed.generation /\ intent.source = removed.version
  /\ op = None /\ removed = None /\ intent # None => Discoverable
\* finish_purge takes the record, or makes one of the receipt or of the intent.
PurgedRecord ==
  IF op # None THEN op
  ELSE IF removed # None
  THEN [generation |-> removed.generation, kind |-> "remove", rollback |-> FALSE, phase |-> "finalizing",
        source |-> removed.version, target |-> removed.version, predecessor |-> NoGeneration, who |-> removed.who]
  ELSE NewOperation(intent)
BeginPurge ==
  /\ At({"finish-purge"}, "begin")
  /\ IF ~PurgeAccepted THEN Refuse
     ELSE IF op = None /\ removed = None /\ intent = None
     THEN Go("empty") /\ UNCHANGED <<files, system, people, gen, faults>>
     ELSE /\ op' = [PurgedRecord EXCEPT !.kind = "purge"]
          /\ Go("copy")
          /\ overlooked' = IF op = None /\ removed = None THEN overlooked \cup hidden ELSE overlooked
          /\ UNCHANGED <<intent, removed, install, controllers, system, link, ack, session, prov,
                         logins, wish, usurped, hidden, halted, gen, faults>>

\* Nothing but the operation's own files may be left, or nothing is purged.
OnlyOwnFiles == /\ quarantine = NoGeneration
                /\ controllers \subseteq (IF op = None THEN Generations ELSE {op.generation})
                /\ Cardinality(controllers) <= 1
                /\ op = None => removed = None /\ install = None
Cleaned == \A u \in Everyone : DirectoriesMatch(u) /\ prov[u] = "off"
SettlePurge ==
  /\ ctl.at = "empty"
  /\ IF op = None THEN UNCHANGED op /\ Go("acks")
     ELSE IF op.phase # "finalizing"
     THEN /\ Cleaned
          /\ op' = [op EXCEPT !.phase = "finalizing",
                              !.who = [u \in DOMAIN @ |-> [@[u] EXCEPT !.settled = "disabled"]]]
          /\ Go("acks")
     ELSE (\A u \in Everyone : op.who[u].settled = "disabled") /\ UNCHANGED op /\ Go("acks")
  /\ UNCHANGED <<intent, removed, install, controllers, system, people, gen, faults>>
RefusePurge == /\ ctl.at = "empty" /\ op # None
               /\ IF op.phase = "finalizing"
                  THEN \E u \in Everyone : op.who[u].settled # "disabled" ELSE ~Cleaned
               /\ Refuse
\* purge_settled_state: choices first, then the receipts, the record, and the controller last.
\* The acknowledgement of an account that cannot be authenticated stays.
PurgeAcks == /\ ctl.at = "acks"
             /\ IF OnlyOwnFiles
                THEN /\ ack' = [u \in Users |-> IF u \in hidden THEN ack[u] ELSE None]
                     /\ wish' = [u \in Users |-> FALSE]
                     /\ usurped' = usurped \cup hidden \cup overlooked
                     /\ Go("receipts")
                     /\ UNCHANGED <<files, system, link, session, prov, logins, accounts, gen, faults>>
                ELSE Refuse
PurgeReceipts == /\ ctl.at = "receipts"
                 /\ removed' = None /\ install' = None
                 /\ Go("cleared")
                 /\ UNCHANGED <<intent, op, controllers, system, people, gen, faults>>
PurgeRecord == /\ ctl.at = "cleared"
               /\ op' = None
               /\ Go("controllers")
               /\ UNCHANGED <<intent, removed, install, controllers, system, people, gen, faults>>
PurgeControllers == /\ ctl.at = "controllers"
                    /\ controllers' = {}
                    /\ Go("done")
                    /\ UNCHANGED <<intent, op, removed, install, system, people, gen, faults>>

-----------------------------------------------------------------------------
(***************************************************************************)
(* Upgrading a running program: preinst, and postrm that undoes it          *)
(***************************************************************************)
\* read_bootstrap
IsBootstrap == /\ intent.kind = "upgrade" /\ intent.boot \in {"quarantining", "quiesced"}
               /\ intent.source = dpkg.version /\ intent.target = dpkg.version + 1
\* What is left of the program is the original, the one put aside, or the wrapper.
Quarantinable == IF intent.boot = "quiesced" THEN quarantine = intent.generation /\ binary = "wrapper"
                 ELSE IF quarantine = intent.generation THEN binary # "restored" ELSE binary = "app"
BeginUpgrade ==
  /\ At({"preinst-upgrade"}, "begin")
  /\ IF intent = None
     THEN /\ Fresh /\ intent' = NewIntent("upgrade", Target, "quarantining") /\ binary' = "app"
          /\ Go("wrap")
          /\ UNCHANGED <<op, removed, install, controllers, quarantine, dpkg, people, faults>>
     ELSE IF IsBootstrap /\ Quarantinable
     THEN /\ Go(IF intent.boot = "quarantining" THEN "wrap" ELSE "terminate")
          /\ UNCHANGED <<files, system, people, gen, faults>>
     ELSE Refuse
Quarantine == /\ ctl.at = "wrap" /\ quarantine # intent.generation
              /\ quarantine' = intent.generation
              /\ UNCHANGED <<files, binary, dpkg, ctl, people, gen, faults>>
\* The program is removed while the providers that run it go on; install_wrapper puts one in its
\* place that exits at once.
TakeAway == /\ ctl.at = "wrap" /\ quarantine = intent.generation
            /\ binary \in Programs
            /\ binary' = "away"
            /\ UNCHANGED <<files, quarantine, dpkg, ctl, people, gen, faults>>
Wrap == /\ ctl.at = "wrap" /\ quarantine = intent.generation
        /\ binary \notin Programs
        /\ binary' = "wrapper"
        /\ Go("terminate")
        /\ UNCHANGED <<files, quarantine, dpkg, people, gen, faults>>
\* validate_registrations, terminate_legacy_processes, and the registrations they leave. A provider
\* that runs another program than the one put aside, or has made its registration unfit, refuses.
Terminate == /\ ctl.at = "terminate"
             /\ \/ /\ prov' = [u \in Users |-> "off"]
                   /\ Go("quiesced")
                   /\ UNCHANGED <<files, system, link, ack, session, logins, wish, usurped, accounts, gen, faults>>
                \/ (\E u \in Users : prov[u] # "off") /\ Refuse
Quiesced == /\ ctl.at = "quiesced"
            /\ intent' = [intent EXCEPT !.boot = "quiesced"]
            /\ Go("done")
            /\ UNCHANGED <<op, removed, install, controllers, system, people, gen, faults>>

AbortUpgrade == /\ At({"abort-upgrade"}, "begin")
                /\ IF intent = None
                   THEN Go("done") /\ UNCHANGED <<files, system, people, gen, faults>>
                   ELSE IF /\ IsBootstrap /\ op = None
                           /\ binary \in Programs \/ quarantine = intent.generation
                   THEN /\ binary' = IF binary \in Programs THEN binary ELSE "restored"
                        /\ Go("unquarantine")
                        /\ UNCHANGED <<files, quarantine, dpkg, people, gen, faults>>
                   ELSE Refuse
Unquarantine == /\ ctl.at = "unquarantine"
                /\ quarantine' = NoGeneration
                /\ Go("unmark")
                /\ UNCHANGED <<files, binary, dpkg, people, gen, faults>>

-----------------------------------------------------------------------------
(***************************************************************************)
(* dpkg and the administrator                                               *)
(***************************************************************************)
Status(s) == ctl = Idle /\ dpkg.status = s
Becomes(s) == dpkg' = [dpkg EXCEPT !.status = s]
OneController == Cardinality(controllers) = 1

\* postrm and preinst call the copied controller, and fail without exactly one.
Prerm == /\ Status("installed") \/ Status("half-configured")
         /\ intent = None => Room
         /\ Start("prepare-remove")
         /\ UNCHANGED <<files, system, people, gen, faults>>
\* The latter by hand, as finish-purge after a failed finish-remove.
Removing == \/ op # None /\ op.kind = "remove"
            \/ op = None /\ intent # None /\ intent.kind = "remove"
PostinstAbort == /\ Status("prerm-failed") \/ (Removing /\ dpkg.status \in {"half-configured", "installed"})
                 /\ Start("abort-remove")
                 /\ UNCHANGED <<files, system, people, gen, faults>>
\* dpkg is killed before it takes notice of how prerm ended.
Killed == /\ Status("prerm-failed") \/ (Status("removing") /\ binary # "none")
          /\ Fault /\ Becomes("half-configured")
          /\ UNCHANGED <<files, binary, quarantine, ctl, people, gen>>
DeleteFiles == /\ Status("removing") /\ binary # "none"
               /\ binary' = "none"
               /\ UNCHANGED <<files, quarantine, dpkg, ctl, people, gen, faults>>
Postrm == /\ Status("removing") /\ binary = "none"
          /\ IF op = None THEN Becomes("removed") /\ UNCHANGED ctl
                          ELSE OneController /\ Start("finish-remove") /\ UNCHANGED dpkg
          /\ UNCHANGED <<files, binary, quarantine, people, gen, faults>>
PostrmPurge == /\ Status("removed") \/ (Status("removing") /\ binary = "none" /\ OneController)
               /\ IF OneController THEN Start("finish-purge") /\ UNCHANGED dpkg
                  ELSE /\ controllers = {} /\ {intent, op, removed, install} = {None}
                       /\ Becomes("absent") /\ UNCHANGED ctl
               /\ UNCHANGED <<files, binary, quarantine, people, gen, faults>>
PreinstInstall == /\ Status("removed") \/ Status("absent")
                  /\ IF op = None /\ removed = None THEN Becomes("unpacking") /\ UNCHANGED ctl
                     ELSE /\ op # None \/ Room
                          /\ OneController /\ Start("prepare-reinstall") /\ UNCHANGED dpkg
                  /\ UNCHANGED <<files, binary, quarantine, people, gen, faults>>
PreinstUpgrade == /\ dpkg.status \in {"installed", "half-configured", "preinst-failed"}
                  /\ dpkg.version < LastVersion /\ (intent = None => Room)
                  /\ Start("preinst-upgrade")
                  /\ UNCHANGED <<files, system, people, gen, faults>>
PostrmAbort == /\ Status("preinst-failed")
               /\ Start("abort-upgrade")
               /\ UNCHANGED <<files, system, people, gen, faults>>
Unpack == /\ Status("unpacking")
          /\ binary' = "app"
          /\ dpkg' = [status |-> "unpacked",
                      version |-> IF binary = "wrapper" THEN dpkg.version + 1 ELSE dpkg.version]
          /\ UNCHANGED <<files, quarantine, ctl, people, gen, faults>>
PostinstConfigure == /\ \/ Status("unpacked") \/ Status("half-configured")
                        \/ Status("installed") /\ op # None /\ ~Removing
                     /\ IF intent # None THEN Start("adopt-bootstrap") /\ UNCHANGED dpkg
                        ELSE IF op # None THEN Start("recover-install") /\ UNCHANGED dpkg
                        ELSE Becomes("installed") /\ UNCHANGED ctl
                     /\ UNCHANGED <<files, binary, quarantine, people, gen, faults>>

-----------------------------------------------------------------------------
(***************************************************************************)
(* The users and their providers                                            *)
(***************************************************************************)
\* enter_admission_store, and enter_startup_admission_store for a pending successor
Unbarred == intent = None /\ op = None
Awaited(u) == /\ intent = None /\ op # None /\ Restoring /\ op.phase = "settling"
              /\ u \in Everyone /\ op.who[u].choice /\ op.who[u].settled = "pending"
              /\ session[u] = op.who[u].runtime
Runs(u, place) == prov' = [prov EXCEPT ![u] = place]

Begins(u) == /\ session[u] # 0 /\ binary \in Programs /\ ~Locked
             /\ prov[u] = "off" /\ (Unbarred \/ Awaited(u))
             /\ Runs(u, "starting")
             /\ UNCHANGED <<files, system, ctl, link, ack, session, logins, wish, usurped, accounts, gen>>
Launch(u) == link[u] /\ Begins(u) /\ UNCHANGED faults
Open(u) == ~link[u] /\ u \notin halted /\ Begins(u) /\ IF Unbarred THEN UNCHANGED faults ELSE Fault

\* record_package_participant, but not for the service of a transition, and the registrations end
\* the start. Without the record the start fails.
Publish(u) ==
  /\ prov[u] = "starting"
  /\ IF u \in halted THEN Runs(u, "serving") /\ UNCHANGED <<ack, overlooked>>
     ELSE IF u \in hidden THEN Runs(u, "off") /\ UNCHANGED <<ack, overlooked>>
     ELSE /\ ack' = [ack EXCEPT ![u] = [choice |-> link[u], runtime |-> session[u]]]
          /\ overlooked' = overlooked \ {u}
          /\ Runs(u, "serving")
  /\ UNCHANGED <<files, system, ctl, link, session, logins, wish, usurped, hidden, halted, gen, faults>>
Exit(u) == /\ prov[u] \in {"starting", "serving"}
           /\ IF Unbarred \/ ~link[u] THEN UNCHANGED faults ELSE Fault
           /\ Runs(u, "off")
           /\ UNCHANGED <<files, system, ctl, link, ack, session, logins, wish, usurped, accounts, gen>>
\* The promotion of an artifact and the accepted job hold both locks shared.
AdmitJob(u) == /\ prov[u] = "serving" /\ ~Locked /\ Unbarred /\ u \notin halted
               /\ Runs(u, "admitting")
               /\ UNCHANGED <<files, system, ctl, link, ack, session, logins, wish, usurped, accounts, gen, faults>>
JobAccepted(u) == /\ prov[u] = "admitting"
                  /\ Runs(u, "serving")
                  /\ UNCHANGED <<files, system, ctl, link, ack, session, logins, wish, usurped, accounts, gen, faults>>

\* run_control under the package's admission, which needs the acknowledgement recorded: to the
\* choice the user makes, or to whichever end a transition found half done comes.
Controls(u) == /\ session[u] # 0 /\ binary \in Programs /\ ~Locked /\ Unbarred
               /\ prov[u] \in {"off", "serving"} /\ u \notin hidden
               /\ overlooked' = overlooked \ {u}
               /\ UNCHANGED <<files, system, ctl, session, logins, hidden, gen>>
Choose(u) == /\ Controls(u)
             /\ \E choice \in BOOLEAN :
                  /\ u \in halted \/ choice # link[u]
                  /\ link' = [link EXCEPT ![u] = choice] /\ wish' = [wish EXCEPT ![u] = choice]
                  /\ ack' = [ack EXCEPT ![u] = [choice |-> choice, runtime |-> session[u]]]
                  /\ Runs(u, IF choice THEN "serving" ELSE "off")
             /\ usurped' = usurped \ {u} /\ halted' = halted \ {u}
             /\ UNCHANGED faults
\* The controller of a transition dies, or gives up: its record stays.
Halt(u) == /\ u \in Disturbed /\ Controls(u) /\ Fault
           /\ \E choice \in BOOLEAN, place \in {prov[u], "off"} :
                /\ choice # link[u] => place = "off"
                /\ link' = [link EXCEPT ![u] = choice] /\ Runs(u, place)
           /\ ack' = [ack EXCEPT ![u] = [choice |-> link[u], runtime |-> session[u]]]
           /\ halted' = halted \cup {u}
           /\ UNCHANGED <<wish, usurped>>

\* A user's directory or acknowledgement takes an owner, mode or shape that is refused, or is away.
Obscure(u) == /\ u \in Disturbed \ hidden /\ ack[u] # None
              /\ Fault
              /\ hidden' = hidden \cup {u}
              /\ UNCHANGED <<files, system, ctl, link, ack, session, prov, logins, wish, usurped, halted,
                             overlooked, gen>>
\* They are set right. (A provider that starts replaces an unfit acknowledgement: that is both.)
Reveal(u) == /\ u \in hidden
             /\ hidden' = hidden \ {u}
             /\ UNCHANGED <<files, system, ctl, link, ack, session, prov, logins, wish, usurped, halted,
                            overlooked, gen, faults>>

Logout(u) == /\ session[u] # 0
             /\ session' = [session EXCEPT ![u] = 0]
             /\ IF Unbarred THEN UNCHANGED faults ELSE Fault
             /\ Runs(u, "off")
             /\ UNCHANGED <<files, system, ctl, link, ack, logins, wish, usurped, accounts, gen>>
Login(u) == /\ u \in Disturbed /\ session[u] = 0 /\ logins < MaxLogins
            /\ logins' = logins + 1
            /\ session' = [session EXCEPT ![u] = logins']
            /\ UNCHANGED <<files, system, ctl, link, ack, prov, wish, usurped, accounts, gen, faults>>

-----------------------------------------------------------------------------
Preparing == Mark \/ MarkAgain \/ BeginAdoption \/ Record \/ Copy \/ Stop \/ Suppress \/ AllStopped
               \/ Prepared \/ Adopt \/ Dequarantine \/ Unmark
Finishing == AbortRemove \/ FinishBegins \/ Settle \/ Recover \/ Examine \/ Restore \/ Await
               \/ Relock \/ Receipt \/ Finalize \/ Retire \/ Forget \/ Clear \/ Done
Reinstalling == BeginReinstall \/ PrepareReinstall \/ AdoptController
Purging == BeginPurge \/ SettlePurge \/ RefusePurge \/ PurgeAcks \/ PurgeReceipts \/ PurgeRecord
             \/ PurgeControllers
Upgrading == BeginUpgrade \/ Quarantine \/ TakeAway \/ Wrap \/ Terminate \/ Quiesced \/ AbortUpgrade \/ Unquarantine
Controller == Preparing \/ Finishing \/ Reinstalling \/ Purging \/ Upgrading
Scripts == Prerm \/ PostinstAbort \/ DeleteFiles \/ Postrm \/ PostrmPurge \/ PreinstInstall
             \/ PreinstUpgrade \/ PostrmAbort \/ Unpack \/ PostinstConfigure
People == \E u \in Users : \/ Launch(u) \/ Open(u) \/ Publish(u) \/ Exit(u) \/ AdmitJob(u)
                           \/ JobAccepted(u) \/ Choose(u) \/ Halt(u) \/ Obscure(u)
                           \/ Reveal(u) \/ Logout(u) \/ Login(u)
Next == Controller \/ Scripts \/ Killed \/ Die \/ StopUnready \/ People

\* A command runs on and services start. What was interrupted is finished: dpkg runs the rest of
\* its own step, and the administrator the failed script again, or abort-remove by hand.
Unwind == \/ PostinstAbort /\ dpkg.status = "prerm-failed"
          \/ DeleteFiles \/ Postrm \/ Unpack \/ PostrmAbort
Retry == \/ PostinstAbort /\ Removing
         \/ PostrmPurge /\ op # None /\ op.kind = "purge"
         \/ PreinstInstall /\ op # None /\ op.kind \in {"remove", "reinstall"}
         \/ PostinstConfigure /\ ~Removing
Serves(u) == Launch(u) \/ Publish(u) \/ JobAccepted(u)   \* at most one of them can
Fairness == /\ WF_vars(Controller) /\ SF_vars(Unwind) /\ SF_vars(Retry)
            /\ \A u \in Users : WF_vars(Serves(u))
Spec == Init /\ [][Next]_vars /\ Fairness

-----------------------------------------------------------------------------
(***************************************************************************)
(* Properties                                                               *)
(***************************************************************************)
\* Every file of the controller, the package's state and the people's state have their types.
TypeOK ==
  /\ intent \in Intents \cup {None} /\ op \in Operations \cup {None}
  /\ removed \in RemovalReceipts \cup {None} /\ install \in InstallReceipts \cup {None}
  /\ controllers \subseteq Generations
  /\ binary \in Programs \cup {"away", "wrapper", "none"} /\ quarantine \in Generations
  /\ dpkg \in [status : Statuses, version : Versions]
  /\ ctl \in [cmd : Commands \cup {"none"}, at : Places \cup {"idle"}, left : SUBSET Users,
              got : Settlements]
  /\ link \in [Users -> BOOLEAN] /\ wish \in [Users -> BOOLEAN]
  /\ usurped \subseteq Users /\ hidden \subseteq Users
  /\ halted \subseteq Users /\ overlooked \subseteq Users
  /\ ack \in [Users -> [choice : BOOLEAN, runtime : Sessions] \cup {None}]
  /\ session \in [Users -> Sessions] /\ logins \in Sessions
  /\ prov \in [Users -> {"off", "starting", "serving", "admitting"}]
  /\ gen \in Generations /\ faults \in 0..MaxFaults

\* No provider runs once dpkg removed its program or preinst wrapped and ended it, none before its
\* turn of the settlement, and no job is accepted across any of it: the locks of package_control.rs,
\* the intent and the record exclude the providers at different steps, and none is held in between.
\* (A provider that served when the discovery passed its account over is the exception, except
\* under the wrapper; and nobody has ended any while preinst has their program away: findings in
\* the README.)
PassedOver(u) == u \in overlooked /\ prov[u] \in {"serving", "admitting"}
Running(u) == prov[u] # "off" /\ ~PassedOver(u)
Quiet == \A u \in Users : ~Running(u)
QuietWhileReplaced ==
  /\ binary = "none" => Quiet
  /\ intent # None /\ intent.boot \in {"quiesced", "adopted"} => \A u \in Users : prov[u] = "off"
  /\ op # None /\ (op.phase = "stopped" \/ (op.phase \in {"settling", "finalizing"} /\ ~Restoring)) => Quiet
  /\ op # None /\ op.phase \in {"settling", "finalizing"} /\ ~op.rollback
       => \A u \in Users : Running(u) => /\ u \in Everyone /\ op.who[u].choice
                                          /\ op.who[u].settled \in {"pending", "ready"}
  /\ ~Unbarred => \A u \in Users : prov[u] # "admitting"

\* What a user chose outlives whatever package operations, deaths and retries follow: where the
\* link says otherwise, the operation or the removal receipt still holds the choice; and when no
\* operation is left, link and acknowledgement agree with it. (The exceptions are a choice that is
\* still half made, a restoration that was settled by an application which the user opened
\* meanwhile, and an account that a purge passed over: findings in the README.)
Forgetting == op # None /\ op.kind = "purge"
Holds(who, u) == u \in DOMAIN who /\ who[u].choice = wish[u]
ChoicesKept ==
  ~Forgetting => \A u \in Users \ (usurped \cup halted) :
    /\ link[u] # wish[u] => \/ op # None /\ Holds(op.who, u)
                            \/ removed # None /\ Holds(removed.who, u)
    /\ op # None /\ u \in Everyone => op.who[u].choice = wish[u]
    /\ removed # None /\ u \in DOMAIN removed.who => removed.who[u].choice = wish[u]
    /\ op = None /\ ack[u] # None => ack[u].choice = wish[u]

\* An operation that is taken up again after each interruption ends, unless an intent of another
\* generation stands in its way, an upgrade was tried over a removal, a participant is in a session
\* that the record does not know, an old install receipt names another version, a purge left its
\* controller behind, a rollback finds the application open of a user who wanted no service, an
\* upgrade finds a transition of the background mode half done, or the successor of a participant
\* cannot acknowledge its start.
Wedged == /\ intent # None
          /\ \/ op # None /\ intent.generation # op.generation
             \/ intent.kind = "remove" /\ dpkg.status = "preinst-failed"
Estranged == IF op = None THEN \E u \in Discovering : ~SameSession(u)
             ELSE \E u \in Everyone : session[u] \notin
                    {0, IF op.kind = "purge" /\ op.phase # "intent" THEN op.who[u].runtime
                                                                   ELSE Refreshed(u).runtime}
Outdated == op # None /\ op.kind = "reinstall" /\ install # None
              /\ install.generation # op.generation /\ install.version # op.source
Littered == op # None /\ Cardinality(controllers \cup {op.generation}) > 1
Occupied == op # None /\ \E u \in Everyone : prov[u] # "off" /\ ~op.who[u].choice
Interrupted == op = None /\ intent # None /\ intent.kind = "upgrade" /\ Discovering \cap halted # {}
Silenced == op # None /\ Restoring /\ \E u \in Everyone \cap hidden : op.who[u].choice
OperationEnds ==
  ~Unbarred ~> \/ Unbarred \/ Wedged \/ Estranged \/ Outdated \/ Littered \/ Occupied
               \/ Interrupted \/ Silenced
=============================================================================
