---------------------------- MODULE StoreLifecycle ----------------------------
(***************************************************************************)
(* Who may use the document store: three lock files beside the database.    *)
(* The gate is held exclusively while somebody prepares the store and       *)
(* shared by everybody who looks whether it is ready. The owner lock is     *)
(* held exclusively by the one primary, for as long as its Store lives; a   *)
(* probe for a primary takes it shared and lets go of it at once. The lease *)
(* is held shared by every Store, and exclusively while the store is being  *)
(* migrated; its file is the readiness record, which names the prepared     *)
(* file and the generation of its primary.                                  *)
(*                                                                          *)
(* A lock is held by an open file, and each of these files is a local of a  *)
(* function or a field of a Store. So who holds what follows from where the *)
(* threads are and which Stores are still referred to.                      *)
(*                                                                          *)
(* Left out: what is checked of the schema, the journal and the file system *)
(* (any of it may fail, see Stumble); the attaching branch of prepare,      *)
(* which needs an initializer without authority and has none outside the    *)
(* tests; a controller that holds the authority for a moment               *)
(* (LifecycleControl), which looks like AlreadyRunning.                     *)
(***************************************************************************)
EXTENDS Naturals

CONSTANTS Process, Desktop,   \* all processes, and those with a StoreAccess
          Thread, Home,       \* the threads, and the process of each
          MaxGenerations,     \* generations to choose from; one that nobody remembers is new
          MaxFiles,           \* bound: files that are the database, one after another
          MaxFaults           \* bound: deaths, stops and errors of the operating system

ASSUME DesktopAssumption == Desktop \subseteq Process
ASSUME HomeAssumption == Home \in [Thread -> Process]
ASSUME BoundsAssumption == MaxGenerations \in Nat /\ MaxFiles \in Nat \ {0} /\ MaxFaults \in Nat

VARIABLES th,        \* the threads
          cached,    \* StoreAccess.cached, by process
          provider,  \* the Store the Connect provider keeps while it runs, by process
          closing,   \* which locks a Store that is being dropped still holds, by process
          record,    \* the readiness record in the lease's file
          file,      \* which file the database's path leads to
          faults     \* what went wrong so far

vars == <<th, cached, provider, closing, record, file, faults>>
shared == <<cached, provider, closing, record, file, faults>>
disk == <<record, file>>

Generations == 1..MaxGenerations
Files == 1..MaxFiles

NoStore == [gen |-> 0, file |-> 0, primary |-> FALSE]
Stores == [gen : Generations, file : Files, primary : BOOLEAN]
StoreOrNone == Stores \cup {NoStore}

\* What a connection leads to, and before it is written the next record.
NoConn == [gen |-> 0, file |-> 0]
Conns == [gen : Generations, file : Files]

Torn == [gen |-> 0, file |-> 0]
Records == [gen : Generations, file : Files]

\* What a thread is in: a command's open, a retry, the start of a provider, a request to the
\* provider, or a gateway call, which attaches a Store of its own.
Ops == {"none", "command", "retry", "provider", "request", "gateway"}
\* Which of the checks of readiness it is at.
Checks == {"none", "get", "first", "second", "final"}

CheckPoints == {"probe", "absent", "record", "identity"}
AttachPoints == {"seek", "nobody", "lease", "connection", "seekAgain", "join"}
PreparePoints == {"authority", "primary", "exclude", "migrate", "clear", "write", "bind"}
Points == CheckPoints \cup AttachPoints \cup PreparePoints
            \cup {"idle", "gate", "connect", "work", "relock", "begin", "wait"}

Idle == [pc |-> "idle", op |-> "none", why |-> "none", store |-> NoStore, conn |-> NoConn]

Init == /\ th = [t \in Thread |-> Idle]
        /\ cached = [p \in Process |-> NoStore]
        /\ provider = [p \in Process |-> NoStore]
        /\ closing = [p \in Process |-> "no"]
        /\ record = Torn
        /\ file = 1
        /\ faults = 0

At(t, pc) == th[t].pc = pc
Within(points) == {t \in Thread : th[t].pc \in points}

-----------------------------------------------------------------------------
(***************************************************************************)
(* The locks, by who holds them                                             *)
(***************************************************************************)
\* The Stores a process still refers to.
Refs(p) == ({cached[p], provider[p]} \cup {th[t].store : t \in {u \in Thread : Home[u] = p}})
             \ {NoStore}
PrimaryRef(p) == \E s \in Refs(p) : s.primary

\* .initialize.lock
GateExclusive == Within(PreparePoints)
GateShared == Within(CheckPoints \cup AttachPoints)

\* .owner.lock: a Store's, an initializer's or one that is just being dropped; and the probes'.
Owns(p) == \/ PrimaryRef(p)
           \/ closing[p] \in {"owner", "dying"}
           \/ \E t \in Within({"exclude", "migrate", "clear", "write", "bind"}) : Home[t] = p
OwnerExclusive == {p \in Process : Owns(p)}
OwnerShared == Within({"absent", "nobody"})

\* .ready.lock
LeaseExclusive == Within({"migrate", "clear", "write"})
LeaseShared == {p \in Process : Refs(p) # {}}

\* The application's own lock that guards the store, kept in the Store of the primary.
HasAuthority(p) == \/ PrimaryRef(p)
                   \/ closing[p] \in {"owner", "authority"}
                   \/ \E t \in Within(PreparePoints \ {"authority"}) : Home[t] = p

\* The mutex of StoreAccess is held in get(), and in retry() after that; a process that starts
\* its provider has no commands yet.
InAccess(t) == \/ th[t].why = "get" \/ th[t].op = "provider"
               \/ th[t].op = "retry" /\ ~At(t, "relock")
AccessFree(p) == \A t \in Thread : Home[t] = p => ~InAccess(t)

\* primary_is_live: only an exclusive lock makes the shared attempt fail.
PrimaryIsLive_Exclusive == OwnerExclusive # {} \/ OwnerShared # {}
PrimaryIsLive == OwnerExclusive # {}

-----------------------------------------------------------------------------
Become(t, r) == th' = [th EXCEPT ![t] = r]
Go(t, pc) == Become(t, [th[t] EXCEPT !.pc = pc])
Step(t, from, to) == At(t, from) /\ Go(t, to) /\ UNCHANGED shared

\* Dropping the last reference of a Store gives up the lease, then the owner lock, then the authority.
Drops == closing' = [p \in Process |-> IF PrimaryRef(p) /\ ~PrimaryRef(p)' THEN "owner" ELSE closing[p]]

DropOwner(p) == /\ closing[p] \in {"owner", "dying"}
                /\ closing' = [closing EXCEPT ![p] = IF closing[p] = "owner" THEN "authority" ELSE "no"]
                /\ UNCHANGED <<th, cached, provider, disk, faults>>
DropAuthority(p) == /\ closing[p] = "authority" /\ closing' = [closing EXCEPT ![p] = "no"]
                    /\ UNCHANGED <<th, cached, provider, disk, faults>>

\* An attempt to prepare the store, up to the end of the reconciliation that follows it.
Preparing(t) == th[t].pc \in PreparePoints \cup {"begin"} \/ th[t].why \in {"first", "second"}

\* Where a call goes on that met an error: a desktop without a provider prepares the store for
\* itself, and one that cannot prepare it attaches to it.
Failed(t) ==
  CASE th[t].op = "provider" /\ Home[t] \in Desktop -> [Idle EXCEPT !.pc = "begin", !.op = "retry"]
    [] th[t].op = "retry" /\ Preparing(t) -> [Idle EXCEPT !.pc = "wait", !.op = "retry"]
    [] OTHER -> Idle

\* An error other than contention; get() drops the cached Store for it.
Fail_KeepCached(t) == /\ Become(t, Failed(t)) /\ UNCHANGED <<cached, provider, disk>> /\ Drops
Fail(t) ==
  /\ IF th[t].why = "get"
     THEN /\ cached' = [cached EXCEPT ![Home[t]] = NoStore]
          /\ Become(t, IF th[t].op = "retry" THEN [Idle EXCEPT !.pc = "relock", !.op = "retry"] ELSE Idle)
     ELSE cached' = cached /\ Become(t, Failed(t))
  /\ UNCHANGED <<provider, disk>> /\ Drops

\* Contention; get() and with it retry() leave everything as it is.
Busy(t) == /\ Become(t, IF th[t].why = "get" THEN Idle ELSE Failed(t))
           /\ UNCHANGED <<cached, provider, disk, faults>> /\ Drops

-----------------------------------------------------------------------------
(***************************************************************************)
(* check_ready                                                              *)
(***************************************************************************)
TakeGate(t) == /\ GateExclusive = {} /\ Step(t, "gate", "probe")
GateIsTaken(t) == At(t, "gate") /\ GateExclusive # {} /\ Busy(t)

\* require_primary: a live one makes the lock attempt fail; otherwise the probe has the lock until
\* its file is closed.
Probe(t) == \/ PrimaryIsLive /\ Step(t, "probe", "record")
            \/ ~PrimaryIsLive /\ Step(t, "probe", "absent")
Unavailable(t) == At(t, "absent") /\ Fail(t) /\ UNCHANGED faults

\* read_readiness: the record is whole, of this file and of this generation.
Matches(s) == record # Torn /\ record.file = s.file /\ record.gen = s.gen
ReadRecord(t) == /\ At(t, "record")
                 /\ \/ Matches(th[t].store) /\ Step(t, "record", "identity")
                    \/ ~Matches(th[t].store) /\ Fail(t) /\ UNCHANGED faults

\* What follows a check that has passed.
Passed(t) ==
  CASE th[t].why = "get" /\ th[t].op = "command" -> [th[t] EXCEPT !.pc = "gate", !.why = "first"]
    [] th[t].why = "get" /\ th[t].op = "retry" -> Idle
    [] th[t].why = "first" -> [th[t] EXCEPT !.pc = "connect"]
    [] th[t].why = "second" /\ th[t].op = "gateway" -> [th[t] EXCEPT !.pc = "work", !.why = "none"]
    \* The Store a command has cloned is a temporary: only the connection outlives the statement.
    [] th[t].why = "second" /\ th[t].op \in {"command", "request"} ->
         [th[t] EXCEPT !.pc = "work", !.why = "none", !.store = NoStore]
    [] th[t].why = "second" /\ th[t].op = "retry" ->
         [th[t] EXCEPT !.pc = "gate", !.why = "final", !.conn = NoConn]
    [] OTHER -> Idle

SameFile(s) == file = s.file
CheckIdentity(t) ==
  /\ At(t, "identity")
  /\ \/ /\ SameFile(th[t].store)
        /\ Become(t, Passed(t))
        /\ cached' = IF th[t].why = "final" \/ (th[t].why = "second" /\ th[t].op = "provider"
                                                   /\ Home[t] \in Desktop)
                     THEN [cached EXCEPT ![Home[t]] = th[t].store] ELSE cached
        /\ provider' = IF th[t].why = "second" /\ th[t].op = "provider"
                       THEN [provider EXCEPT ![Home[t]] = th[t].store] ELSE provider
        /\ UNCHANGED <<disk, faults>> /\ Drops
     \/ ~SameFile(th[t].store) /\ Fail(t) /\ UNCHANGED faults

\* open() connects between two checks.
Connect_Unchecked(t) ==
  /\ At(t, "connect")
  /\ Become(t, [th[t] EXCEPT !.pc = "work", !.why = "none", !.store = NoStore,
                             !.conn = [gen |-> th[t].store.gen, file |-> file]])
  /\ UNCHANGED shared
Connect(t) == /\ At(t, "connect")
              /\ Become(t, [th[t] EXCEPT !.pc = "gate", !.why = "second",
                                         !.conn = [gen |-> th[t].store.gen, file |-> file]])
              /\ UNCHANGED shared

EndWork(t) == At(t, "work") /\ Become(t, Idle) /\ UNCHANGED <<cached, provider, disk, faults>> /\ Drops

-----------------------------------------------------------------------------
(***************************************************************************)
(* Who asks for the store                                                   *)
(***************************************************************************)
Ask(t, op, why, store, pc) ==
  /\ At(t, "idle")
  /\ Become(t, [Idle EXCEPT !.pc = pc, !.op = op, !.why = why, !.store = store])
  /\ UNCHANGED shared

\* get() for a command, and at the beginning of a retry. Without a cached Store, or with the gate
\* taken, it fails at once and changes nothing; so do the others below.
Call(t) == LET p == Home[t] IN
  /\ p \in Desktop /\ AccessFree(p) /\ cached[p] # NoStore /\ GateExclusive = {}
  /\ \E op \in {"command", "retry"} : Ask(t, op, "get", cached[p], "probe")
Retry(t) == LET p == Home[t] IN
  /\ p \in Desktop /\ AccessFree(p) /\ cached[p] = NoStore
  /\ Ask(t, "retry", "none", NoStore, "begin")
\* retry() takes the mutex again after get() has failed: another retry may have been faster.
Relock(t) == LET p == Home[t] IN
  /\ At(t, "relock") /\ AccessFree(p)
  /\ IF cached[p] = NoStore THEN Go(t, "begin")
     ELSE Become(t, [Idle EXCEPT !.pc = "gate", !.op = "retry", !.why = "final", !.store = cached[p]])
  /\ UNCHANGED shared
Request(t) == /\ provider[Home[t]] # NoStore /\ GateExclusive = {}
              /\ Ask(t, "request", "first", provider[Home[t]], "probe")
\* The gateway's runtime attaches for itself, and keeps its Store until its work is over.
CallGateway(t) == LET p == Home[t] IN
  /\ p \in Desktop \/ provider[p] # NoStore
  /\ \A u \in Thread : Home[u] = p => th[u].op # "provider"
  /\ GateExclusive = {} /\ Ask(t, "gateway", "none", NoStore, "seek")

-----------------------------------------------------------------------------
(***************************************************************************)
(* Preparing the store: begin and initialize_with_authority                 *)
(***************************************************************************)
\* A probe that is still going on keeps everybody else from the gate.
MayBegin == GateExclusive = {} /\ GateShared = {}
Begin(t) == MayBegin /\ Step(t, "begin", "authority")
CannotBegin(t) == At(t, "begin") /\ ~MayBegin /\ Busy(t)
\* A process that refers to no Store starts its provider, or starts again.
StartProvider(t) == LET p == Home[t] IN
  /\ MayBegin
  /\ Refs(p) = {} /\ \A u \in Thread : Home[u] = p => At(u, "idle")
  /\ Ask(t, "provider", "none", NoStore, "authority")

TakeAuthority(t) == (\A p \in Process : ~HasAuthority(p)) /\ Step(t, "authority", "primary")
AlreadyRunning(t) == At(t, "authority") /\ (\E p \in Process : HasAuthority(p)) /\ Busy(t)

BecomePrimary(t) == OwnerExclusive = {} /\ OwnerShared = {} /\ Step(t, "primary", "exclude")
PrimaryExists(t) == At(t, "primary") /\ (OwnerExclusive # {} \/ OwnerShared # {}) /\ Busy(t)

\* Stores of a departed primary may still be in use; the store is not migrated underneath them.
ExcludeConsumers_NoLease(t) == LeaseExclusive = {} /\ Step(t, "exclude", "migrate")
ExcludeConsumers(t) == LeaseExclusive = {} /\ LeaseShared = {} /\ Step(t, "exclude", "migrate")
ConsumersRemain(t) == At(t, "exclude") /\ (LeaseExclusive # {} \/ LeaseShared # {}) /\ Busy(t)

Migrate(t) == Step(t, "migrate", "clear")
\* The new record, with the identity of the file and a new UUID, is made before the old is erased.
Remembered == {th[t].store.gen : t \in Thread} \cup {th[t].conn.gen : t \in Thread}
                \cup UNION {{s.gen : s \in Refs(p)} : p \in Process}
ClearRecord(t) ==
  /\ At(t, "clear")
  /\ \E g \in Generations \ Remembered :
       Become(t, [th[t] EXCEPT !.pc = "write", !.conn = [gen |-> g, file |-> file]])
  /\ record' = Torn /\ UNCHANGED <<cached, provider, closing, file, faults>>
WriteRecord(t) ==
  /\ At(t, "write") /\ Become(t, [th[t] EXCEPT !.pc = "bind", !.conn = NoConn])
  /\ record' = th[t].conn /\ UNCHANGED <<cached, provider, closing, file, faults>>
\* The lease is shared again, and bind() looks at the file a last time.
Bind(t) == /\ At(t, "bind")
           /\ Become(t, [th[t] EXCEPT !.pc = "gate", !.why = "first",
                                      !.store = [gen |-> record.gen, file |-> file, primary |-> TRUE]])
           /\ UNCHANGED shared

-----------------------------------------------------------------------------
(***************************************************************************)
(* Attaching to a prepared store: attach_wait, attach, attach_under_gate    *)
(***************************************************************************)
EnterGate(t) == GateExclusive = {} /\ Step(t, "wait", "seek")
\* attach_wait gives up after two seconds.
GiveUp(t) == At(t, "wait") /\ GateExclusive # {} /\ Busy(t)

SeekPrimary(t) == \/ PrimaryIsLive /\ Step(t, "seek", "lease")
                  \/ ~PrimaryIsLive /\ (Step(t, "seek", "nobody"))
NoPrimary(t) == At(t, "nobody") /\ Fail(t) /\ UNCHANGED faults

\* The lease is taken, then the record is read for the file that is there now.
TakeLease(t) ==
  /\ At(t, "lease")
  /\ \/ /\ LeaseExclusive = {} /\ record # Torn /\ record.file = file
        /\ Become(t, [th[t] EXCEPT !.pc = "connection",
                        !.store = [gen |-> record.gen, file |-> file, primary |-> FALSE]])
        /\ UNCHANGED shared
     \/ (LeaseExclusive # {} \/ record = Torn \/ record.file # file) /\ Busy(t)
ConnectAnchor(t) == Step(t, "connection", "seekAgain")
SeekAgain(t) == \/ PrimaryIsLive /\ Step(t, "seekAgain", "join")
                \/ ~PrimaryIsLive /\ Step(t, "seekAgain", "nobody")
Join(t) ==
  /\ At(t, "join")
  /\ \/ /\ SameFile(th[t].store)
        /\ Become(t, [th[t] EXCEPT !.pc = "gate",
                        !.why = IF th[t].op = "gateway" THEN "first" ELSE "final"])
        /\ UNCHANGED shared
     \/ ~SameFile(th[t].store) /\ Fail(t) /\ UNCHANGED faults

-----------------------------------------------------------------------------
(***************************************************************************)
(* Faults                                                                   *)
(***************************************************************************)
Fault == faults < MaxFaults /\ faults' = faults + 1

\* Any system call and any SQL statement may fail.
Stumble(t) == Fault /\ ~(th[t].pc \in {"idle", "work", "relock"}) /\ Fail(t)

\* A process dies. Its files are closed one after another, and of a primary's the owner lock may
\* be the last.
Crash(p) == /\ Fault
            /\ th' = [t \in Thread |-> IF Home[t] = p THEN Idle ELSE th[t]]
            /\ cached' = [cached EXCEPT ![p] = NoStore]
            /\ provider' = [provider EXCEPT ![p] = NoStore]
            /\ \E last \in IF Owns(p) THEN {"no", "dying"} ELSE {"no"} : closing' = [closing EXCEPT ![p] = last]
            /\ UNCHANGED disk

\* A background provider is stopped; it joins its workers first.
Stop(p) == /\ p \notin Desktop /\ provider[p] # NoStore
           /\ \A t \in Thread : Home[t] = p => At(t, "idle")
           /\ Fault /\ provider' = [provider EXCEPT ![p] = NoStore]
           /\ UNCHANGED <<th, cached, disk>> /\ Drops

\* Somebody moves another prepared database into the place of this one, and never an earlier one
\* back: an exchange and its reversal between the two checks of open, which compare no more than
\* the file's identity, would pass them.
Replace == /\ file < MaxFiles /\ Fault /\ file' = file + 1
           /\ UNCHANGED <<th, cached, provider, closing, record>>

-----------------------------------------------------------------------------
Check(t) == TakeGate(t) \/ GateIsTaken(t) \/ Probe(t) \/ Unavailable(t) \/ ReadRecord(t)
              \/ CheckIdentity(t) \/ Connect(t) \/ EndWork(t)
Prepare(t) == Relock(t) \/ Begin(t) \/ CannotBegin(t) \/ TakeAuthority(t) \/ AlreadyRunning(t)
                \/ BecomePrimary(t) \/ PrimaryExists(t) \/ ExcludeConsumers(t) \/ ConsumersRemain(t)
                \/ Migrate(t) \/ ClearRecord(t) \/ WriteRecord(t) \/ Bind(t)
Attach(t) == EnterGate(t) \/ GiveUp(t) \/ SeekPrimary(t) \/ NoPrimary(t) \/ TakeLease(t)
               \/ ConnectAnchor(t) \/ SeekAgain(t) \/ Join(t)
Asks(t) == Call(t) \/ Retry(t) \/ StartProvider(t) \/ Request(t) \/ CallGateway(t)
Environment == Replace \/ \E p \in Process : Crash(p) \/ Stop(p)
Closings(p) == DropOwner(p) \/ DropAuthority(p)

Next == \/ \E t \in Thread : Check(t) \/ Prepare(t) \/ Attach(t) \/ Asks(t) \/ Stumble(t)
        \/ \E p \in Process : Closings(p)
        \/ Environment

Spec == Init /\ [][Next]_vars

\* Threads run; who tries for the gate again and again finds it free some time; a background
\* provider that ended is started again. Nobody need give a command.
Fairness == /\ \A t \in Thread : /\ WF_vars(Check(t) \/ Prepare(t) \/ Attach(t))
                                 /\ Home[t] \notin Desktop => SF_vars(StartProvider(t))
            /\ \A p \in Process : WF_vars(Closings(p))
FairSpec == Spec /\ Fairness

-----------------------------------------------------------------------------
(***************************************************************************)
(* Properties                                                               *)
(***************************************************************************)
WellFormed(r) ==
  /\ (r.why # "none") <=> r.pc \in CheckPoints \cup {"gate", "connect"}
  /\ r.why # "none" \/ r.pc \in {"connection", "seekAgain", "join"} => r.store # NoStore
  /\ r.pc \in PreparePoints \cup {"idle", "relock", "begin", "wait", "seek", "lease"} => r.store = NoStore
  /\ (r.conn # NoConn) <=> (r.pc \in {"work", "write"} \/ r.why = "second")
  /\ (r.op = "none") <=> (r.pc = "idle")

\* Every value has its type, and a thread has a Store, a connection and a reason to check exactly
\* where the functions of lifecycle.rs have one in scope.
TypeOK ==
  /\ th \in [Thread -> [pc : Points, op : Ops, why : Checks, store : StoreOrNone,
                        conn : Conns \cup {NoConn}]]
  /\ \A t \in Thread : WellFormed(th[t])
  /\ cached \in [Process -> StoreOrNone] /\ provider \in [Process -> StoreOrNone]
  /\ closing \in [Process -> {"no", "owner", "authority", "dying"}]
  /\ record \in Records \cup {Torn}
  /\ file \in Files /\ faults \in 0..MaxFaults

\* Every Store that anybody refers to, in any process, is of the generation that is on record: the
\* record is not exchanged as long as a Store of the one before is in use (the exclusive lease in
\* prepare), however its primary ended; and no two processes are its primary.
OneGeneration ==
  /\ \A p \in Process : \A s \in Refs(p) : record.gen = s.gen
  /\ \A p, q \in Process : Owns(p) /\ Owns(q) => p = q

\* Who has the application's authority finds the owner lock free, except for what a killed process
\* has not closed yet: a Store gives the lock up before the authority (the order of PreparedStore's
\* fields), so a successor is not refused by the predecessor it has just replaced.
AuthorityFindsNoPrimary ==
  \A t \in Within({"primary"}), p \in Process : Owns(p) => closing[p] = "dying"

\* A connection that is being worked on leads to the file its generation was prepared for, even if
\* the file was exchanged, for good, while it was opened (the two checks of open).
ConnectionIsPrepared ==
  \A t \in Within({"work"}) : record.gen = th[t].conn.gen => record.file = th[t].conn.file

\* Whoever looks for a primary finds one only where there is a Store of one, complete or being
\* dropped or of a process that is just dying: neither another probe (primary_is_live tries the
\* shared lock) nor an initializer that is not finished (the gate) is taken for one.
LiveIsServed == [][\A t \in Thread :
   (At(t, "probe") /\ At(t, "record")') \/ (At(t, "seek") /\ At(t, "lease")')
      => \E p \in Process : PrimaryRef(p) \/ closing[p] \in {"owner", "dying"}]_vars

\* A background provider that is started again and again (systemd) becomes the primary in the end,
\* whatever died before, if the desktop's cached Store of a departed primary is looked at every
\* now and then (get drops it and with it the lease) and nobody attaches for ever.
Served == \E p \in Process : PrimaryRef(p)
Attended == \A p \in Desktop : []<>(cached[p] = NoStore \/ \E t \in Thread : Home[t] = p /\ th[t].why = "get")
Undisturbed == <>[](\A t \in Thread : th[t].op \notin {"retry", "gateway"})
ServedAgain == Attended /\ Undisturbed => <>[]Served
===============================================================================
