--------------------------- MODULE ConnectJobsProofs ---------------------------
(***************************************************************************)
(* Proofs about ConnectJobs, for any set of transfers and of jobs.          *)
(*                                                                          *)
(* The argument is about ownership. The permit and the authority make one   *)
(* request at a time the one that may accept a job (TypeOK); a file belongs *)
(* to a request until the request is answered, and then to the job that was *)
(* accepted with it (RequestOK, JobOK); and an active job belongs to the    *)
(* request that accepted it, then to its worker (ActiveJobHasWorker). The   *)
(* desktop may move the run of a job at any time, but then the run is one   *)
(* it moved, and never one that completed (DesktopMoves).                   *)
(***************************************************************************)
EXTENDS ConnectJobs, TLAPS

USE NoRequestAssumption, UserJobsAssumption

-----------------------------------------------------------------------------
(***************************************************************************)
(* The invariant                                                            *)
(***************************************************************************)
Owned(r) == \E j \in Jobs : Exists(j) /\ jobs[j].file = r

\* The files of a request, and the job of one that was accepted.
RequestOK(r) ==
  /\ r \in staging => req[r].pc \in {"queued", "admit", "lost"} \/ r \in litter
  /\ r \in imports => req[r].pc \in {"promoted", "accept", "spawn", "done", "lost"}
  /\ req[r].pc \in {"promoted", "accept"} => r \in imports
  /\ At(r, "accept") => ~Exists(req[r].job)
  /\ At(r, "spawn") => /\ jobs[req[r].job] = [state |-> "accepted", file |-> r]
                       /\ worker[req[r].job] = "none"
                       /\ run[req[r].job] = "resting" \/ req[r].job \in moved
  /\ At(r, "done") /\ r \in imports => Owned(r) \/ r \in litter

\* A job's document, its worker, and its run.
JobOK(j) ==
  /\ Exists(j) => /\ req[jobs[j].file].pc \in {"spawn", "done", "lost"}
                  /\ ~faulty => jobs[j].file \in imports
  /\ worker[j] = "start" => jobs[j].state = "accepted" /\ (run[j] = "resting" \/ j \in moved)
  /\ worker[j] = "run" => /\ jobs[j].state = "processing"
                          /\ run[j] \in {"resting", "active"} \/ j \in moved
  /\ worker[j] = "save" => jobs[j].state = "processing" /\ run[j] = "completed"
  /\ worker[j] = "fail" => /\ Active(j)
                           /\ phase = "serving" /\ ~faulty => run[j] # "active" \/ j \in moved
  /\ jobs[j].state = "completed" => run[j] = "completed"
  /\ jobs[j].state = "failed" /\ phase = "serving" /\ ~faulty => run[j] # "active" \/ j \in moved
  /\ phase = "reconciled" => run[j] # "active" \/ j \in moved

IInv == /\ TypeOK
        /\ \A r \in Requests : RequestOK(r)
        /\ \A j \in Jobs : JobOK(j)
        /\ Stopped => authority = NoRequest
        /\ ActiveJobHasWorker

-----------------------------------------------------------------------------
(***************************************************************************)
(* Lemmas                                                                   *)
(***************************************************************************)
\* A request that has arrived has a job.
LEMMA Arrived ==
  ASSUME TypeOK, NEW r \in Requests, req[r].pc # "new"
  PROVE  /\ req[r] \in [pc : Places \cup {"done", "lost"}, job : Jobs, waiting : BOOLEAN]
         /\ req[r].job \in Jobs
BY DEF TypeOK, RequestRows, NewRequest

\* A row of connect_jobs is absent, or has a state and a file.
LEMMA JobRow ==
  ASSUME TypeOK, NEW j \in Jobs
  PROVE  /\ Exists(j) <=> jobs[j].state # "none"
         /\ Exists(j) => /\ jobs[j] \in [state : ActiveStates \cup {"completed", "failed"},
                                         file : Requests]
                         /\ jobs[j].file \in Requests
         /\ Active(j) => Exists(j)
BY DEF TypeOK, JobRows, NoJob, Exists, Active, ActiveStates

LEMMA Initially == Init => IInv
<1> SUFFICES ASSUME Init PROVE IInv
  OBVIOUS
<1>1. TypeOK
  BY DEF Init, TypeOK, Phases, JobRows, Runs, RequestRows, NewRequest, WorkerSteps, Accepting,
         Cancelled
<1>2. \A r \in Requests : RequestOK(r)
  BY DEF Init, RequestOK, NewRequest, At
<1>3. \A j \in Jobs : JobOK(j)
  BY DEF Init, JobOK, Exists, NoJob
<1> QED
  BY <1>1, <1>2, <1>3 DEF Init, IInv, Stopped, ActiveJobHasWorker, Accepting, Cancelled

-----------------------------------------------------------------------------
(***************************************************************************)
(* Requests                                                                 *)
(***************************************************************************)
Permitted == {"admit", "promoted", "accept", "spawn"}
Entered == {"promoted", "accept"}
Accepted == {"spawn", "done", "lost"}

\* One request moves before it is accepted, and what the others have stays theirs.
LEMMA RequestMoves ==
  ASSUME IInv, NEW r \in Requests, NEW q \in RequestRows, req' = [req EXCEPT ![r] = q],
         UNCHANGED <<process, desktop, jobs, run, worker>>,
         litter \subseteq litter', litter' \subseteq Requests,
         staging' \subseteq Requests, imports' \subseteq Requests,
         \A s \in Requests \ {r} : /\ s \in staging' <=> s \in staging
                                   /\ s \in imports' <=> s \in imports,
         slot' = IF q.pc \in Permitted THEN r ELSE IF slot = r THEN NoRequest ELSE slot,
         authority' = IF q.pc \in Entered THEN r
                      ELSE IF authority = r THEN NoRequest ELSE authority,
         q.pc \in Permitted => slot \in {r, NoRequest} /\ (Accepting \/ Cancelled),
         q.pc \in Entered => authority \in {r, NoRequest} /\ phase = "serving",
         req[r].pc \in Accepted =>
           /\ q.pc = req[r].pc /\ q.job = req[r].job /\ (r \in imports' <=> r \in imports),
         RequestOK(r)'
  PROVE  IInv'
<1>1. /\ req' \in [Requests -> RequestRows] /\ req'[r] = q
      /\ \A s \in Requests \ {r} : req'[s] = req[s]
  BY DEF IInv, TypeOK
<1>2. TypeOK'
  <2>1. \A s \in Requests : slot' = s <=> req'[s].pc \in Permitted
    BY <1>1 DEF IInv, TypeOK, Permitted
  <2>2. \A s \in Requests : authority' = s <=> req'[s].pc \in Entered
    BY <1>1 DEF IInv, TypeOK, Entered
  <2>3. slot' \in Requests \cup {NoRequest} /\ authority' \in Requests \cup {NoRequest}
    BY DEF IInv, TypeOK
  <2>4. ~Accepting' /\ ~Cancelled' => worker' = [j \in Jobs |-> "none"] /\ slot' = NoRequest
    BY DEF IInv, TypeOK, Accepting, Cancelled, process
  <2> QED
    BY <1>1, <2>1, <2>2, <2>3, <2>4 DEF IInv, TypeOK, Permitted, Entered, process, desktop
<1>3. ASSUME NEW s \in Requests, s # r PROVE RequestOK(s)'
  BY <1>1, <1>3 DEF IInv, RequestOK, At, Owned, Exists, desktop
<1>4. ASSUME NEW j \in Jobs PROVE JobOK(j)'
  <2>1. JobOK(j) /\ (Exists(j) => jobs[j].file \in Requests)
    BY JobRow DEF IInv
  <2>2. Exists(j) => /\ req'[jobs[j].file].pc \in Accepted
                     /\ ~faulty => jobs[j].file \in imports'
    BY <1>1, <2>1 DEF JobOK, Accepted
  <2> QED
    BY <2>1, <2>2 DEF JobOK, Exists, Active, Accepted, process, desktop
<1>5. (Stopped => authority = NoRequest)'
  BY DEF IInv, Stopped, process
<1>6. ActiveJobHasWorker'
  <2>1. \A s \in Requests : At(s, "spawn") => At(s, "spawn")' /\ req'[s].job = req[s].job
    BY <1>1 DEF At, Accepted
  <2> QED
    BY <2>1 DEF IInv, ActiveJobHasWorker, Accepting, Cancelled, Active, process
<1> QED
  BY <1>2, <1>3, <1>4, <1>5, <1>6 DEF IInv

\* A request that goes on to another place keeps its job, and its client.
LEMMA PlacedRequest ==
  ASSUME TypeOK, NEW r \in Requests, req[r].pc # "new", NEW pc \in Places \cup {"done"}
  PROVE  LET q == [req[r] EXCEPT !.pc = pc] IN
           /\ q \in RequestRows /\ q.pc = pc /\ q.job = req[r].job /\ q.job \in Jobs
           /\ Goto(r, pc) => req' = [req EXCEPT ![r] = q]
<1>1. /\ req[r] \in [pc : Places \cup {"done", "lost"}, job : Jobs, waiting : BOOLEAN]
      /\ req \in [Requests -> RequestRows]
  BY Arrived DEF TypeOK
<1> QED
  BY <1>1 DEF RequestRows, Goto

\* Dropping a file removes it, or it is one that a file operation failed.
LEMMA Dropped ==
  ASSUME TypeOK, NEW r \in Requests, Drop(r)
  PROVE  /\ staging' \in {staging, staging \ {r}} /\ imports' \in {imports, imports \ {r}}
         /\ litter \subseteq litter' /\ litter' \subseteq Requests
         /\ r \in staging' \cup imports' => r \in litter'
         /\ staging' \subseteq Requests /\ imports' \subseteq Requests
         /\ \A s \in Requests \ {r} : /\ s \in staging' <=> s \in staging
                                      /\ s \in imports' <=> s \in imports
<1>1. staging \subseteq Requests /\ imports \subseteq Requests /\ litter \subseteq Requests
  BY DEF TypeOK
<1>2. CASE staging' = staging \ {r} /\ imports' = imports \ {r} /\ UNCHANGED litter
  BY <1>1, <1>2
<1>3. CASE /\ staging' \in {staging, staging \ {r}} /\ imports' \in {imports, imports \ {r}}
           /\ r \in staging' \cup imports' /\ litter' = litter \cup {r}
  BY <1>1, <1>3
<1> QED
  BY <1>2, <1>3 DEF Drop

\* A request that is refused leaves no file, but one that cannot be removed.
LEMMA RefuseKeeps ==
  ASSUME IInv, NEW r \in Requests, req[r].pc \in Places \ {"spawn"}, Refuse(r),
         UNCHANGED <<process, desktop, jobs, run, worker>>
  PROVE  IInv'
<1> DEFINE q == [req[r] EXCEPT !.pc = "done"]
<1>1. TypeOK /\ req[r].pc # "new" /\ req[r].pc \notin Accepted
  BY DEF IInv, Places, Accepted
<1>2. q \in RequestRows /\ q.pc = "done" /\ req' = [req EXCEPT ![r] = q]
  BY <1>1, PlacedRequest DEF Refuse, Finish
<1>3. /\ litter \subseteq litter' /\ litter' \subseteq Requests
      /\ r \in staging' \cup imports' => r \in litter'
      /\ staging' \subseteq Requests /\ imports' \subseteq Requests
      /\ \A s \in Requests \ {r} : /\ s \in staging' <=> s \in staging
                                   /\ s \in imports' <=> s \in imports
  BY <1>1, Dropped DEF Refuse
<1>4. /\ slot' = IF slot = r THEN NoRequest ELSE slot
      /\ authority' = IF authority = r THEN NoRequest ELSE authority
  BY DEF Refuse, Finish
<1> HIDE DEF q
<1>5. RequestOK(r)'
  BY <1>1, <1>2, <1>3 DEF RequestOK, At, TypeOK
<1> QED
  BY <1>1, <1>2, <1>3, <1>4, <1>5, RequestMoves DEF TypeOK, Permitted, Entered

LEMMA ArriveKeeps ==
  ASSUME IInv, NEW r \in Requests, NEW j \in Jobs, Arrive(r, j) PROVE IInv'
<1> DEFINE q == [pc |-> "lookup", job |-> j, waiting |-> TRUE]
<1>1. TypeOK /\ req[r].pc = "new" /\ RequestOK(r)
  BY DEF IInv, Arrive, At
<1>2. q \in RequestRows /\ q.pc = "lookup" /\ req' = [req EXCEPT ![r] = q]
  BY DEF RequestRows, Places, Arrive
<1>3. UNCHANGED <<process, desktop, jobs, run, staging, imports, litter, slot, authority, worker>>
  BY DEF Arrive, files
<1> HIDE DEF q
<1>4. RequestOK(r)' /\ slot # r /\ authority # r
  BY <1>1, <1>2, <1>3 DEF RequestOK, At, TypeOK
<1> QED
  BY <1>1, <1>2, <1>3, <1>4, RequestMoves DEF TypeOK, Permitted, Entered, Accepted

LEMMA GiveUpKeeps ==
  ASSUME IInv, NEW r \in Requests, GiveUp(r) PROVE IInv'
<1> DEFINE q == [req[r] EXCEPT !.waiting = FALSE]
<1>1. TypeOK /\ req[r].pc \in {"admit", "promoted", "accept", "spawn"} /\ RequestOK(r)
  BY DEF IInv, GiveUp
<1>2. /\ req[r] \in [pc : Places \cup {"done", "lost"}, job : Jobs, waiting : BOOLEAN]
      /\ req \in [Requests -> RequestRows]
  BY <1>1, Arrived DEF TypeOK
<1>3. /\ q \in RequestRows /\ q.pc = req[r].pc /\ q.job = req[r].job
      /\ req' = [req EXCEPT ![r] = q]
  BY <1>2 DEF RequestRows, GiveUp
<1>4. UNCHANGED <<process, desktop, jobs, run, staging, imports, litter, slot, authority, worker>>
  BY DEF GiveUp, files
<1> HIDE DEF q
<1>5. RequestOK(r)'
  BY <1>1, <1>2, <1>3, <1>4 DEF RequestOK, At, Owned, Exists, desktop
<1>6. slot = r /\ (authority = r <=> req[r].pc \in {"promoted", "accept"})
  BY <1>1 DEF TypeOK
<1>7. (Accepting \/ Cancelled) /\ (req[r].pc \in {"promoted", "accept"} => phase = "serving")
  BY <1>1, <1>6 DEF IInv, TypeOK, Stopped, Accepting, Cancelled
<1> QED
  BY <1>1, <1>3, <1>4, <1>5, <1>6, <1>7, RequestMoves DEF TypeOK, Permitted, Entered, Accepted

\* A request that goes on before it has the permit.
LEMMA WaitingGoesOn ==
  ASSUME IInv, NEW r \in Requests, req[r].pc \in {"lookup", "receive"},
         NEW pc \in {"receive", "queued"}, Goto(r, pc),
         staging' \in {staging, staging \cup {r}}, staging' = staging \/ pc = "queued",
         UNCHANGED <<process, desktop, jobs, run, imports, litter, slot, authority, worker>>
  PROVE  IInv'
<1> DEFINE q == [req[r] EXCEPT !.pc = pc]
<1>1. TypeOK /\ RequestOK(r)
  BY DEF IInv
<1>2. q \in RequestRows /\ q.pc = pc /\ req' = [req EXCEPT ![r] = q]
  BY <1>1, PlacedRequest DEF Places
<1> HIDE DEF q
<1>3. RequestOK(r)' /\ slot # r /\ authority # r
  BY <1>1, <1>2 DEF RequestOK, At, TypeOK
<1>4. staging' \subseteq Requests /\ \A s \in Requests \ {r} : s \in staging' <=> s \in staging
  BY <1>1 DEF TypeOK
<1> QED
  BY <1>1, <1>2, <1>3, <1>4, RequestMoves DEF TypeOK, Permitted, Entered, Accepted

LEMMA LookupKeeps ==
  ASSUME IInv, NEW r \in Requests, Lookup(r) PROVE IInv'
<1>1. RequestOK(r) /\ req[r].pc = "lookup" /\ TypeOK
  BY DEF IInv, Lookup, At
<1>2. UNCHANGED <<process, desktop, jobs, run, staging, imports, litter, worker>>
  BY DEF Lookup, files
<1>3. CASE Finish(r)
  <2> DEFINE q == [req[r] EXCEPT !.pc = "done"]
  <2>1. q \in RequestRows /\ q.pc = "done" /\ req' = [req EXCEPT ![r] = q]
    BY <1>1, <1>3, PlacedRequest DEF Finish
  <2>2. /\ slot' = IF slot = r THEN NoRequest ELSE slot
        /\ authority' = IF authority = r THEN NoRequest ELSE authority
    BY <1>3 DEF Finish
  <2> HIDE DEF q
  <2>3. RequestOK(r)'
    BY <1>1, <1>2, <2>1 DEF RequestOK, At, TypeOK
  <2> QED
    BY <1>1, <1>2, <2>1, <2>2, <2>3, RequestMoves DEF TypeOK, Permitted, Entered, Accepted
<1>4. CASE Goto(r, "receive") /\ UNCHANGED <<slot, authority>>
  BY <1>1, <1>2, <1>4, WaitingGoesOn
<1> QED
  BY <1>3, <1>4 DEF Lookup

LEMMA ReceiveKeeps ==
  ASSUME IInv, NEW r \in Requests, Receive(r) PROVE IInv'
BY WaitingGoesOn DEF Receive, At

LEMMA AdmitKeeps ==
  ASSUME IInv, NEW r \in Requests, Admit(r) PROVE IInv'
<1>1. RequestOK(r) /\ req[r].pc = "queued" /\ TypeOK /\ slot = NoRequest
  BY DEF IInv, Admit, At
<1>2. CASE Refuse(r)
  BY <1>1, <1>2, RefuseKeeps DEF Admit, Places
<1>3. CASE Accepting /\ Goto(r, "admit") /\ slot' = r /\ UNCHANGED <<authority, files>>
  <2> DEFINE q == [req[r] EXCEPT !.pc = "admit"]
  <2>1. q \in RequestRows /\ q.pc = "admit" /\ req' = [req EXCEPT ![r] = q]
    BY <1>1, <1>3, PlacedRequest DEF Places
  <2>2. UNCHANGED <<process, desktop, jobs, run, staging, imports, litter, worker, authority>>
    BY <1>3 DEF Admit, files
  <2> HIDE DEF q
  <2>3. RequestOK(r)' /\ authority # r
    BY <1>1, <2>1, <2>2 DEF RequestOK, At, TypeOK
  <2> QED
    BY <1>1, <1>3, <2>1, <2>2, <2>3, RequestMoves DEF TypeOK, Permitted, Entered, Accepted
<1> QED
  BY <1>2, <1>3 DEF Admit

LEMMA EnterKeeps ==
  ASSUME IInv, NEW r \in Requests, Enter(r) PROVE IInv'
<1> DEFINE q == [req[r] EXCEPT !.pc = "promoted"]
<1>1. RequestOK(r) /\ req[r].pc = "admit" /\ TypeOK /\ slot = r /\ phase = "serving"
      /\ authority = NoRequest /\ authority' = r
  BY DEF IInv, Enter, At, TypeOK
<1>2. q \in RequestRows /\ q.pc = "promoted" /\ req' = [req EXCEPT ![r] = q]
  BY <1>1, PlacedRequest DEF Enter, Places
<1>3. /\ UNCHANGED <<process, desktop, jobs, run, slot, worker>>
      /\ imports' = imports \cup {r} /\ litter' \in {litter, litter \cup {r}}
      /\ staging' = staging \ {r} \/ (staging' = staging /\ r \in litter')
  <2>1. UNCHANGED <<process, desktop, jobs, run, slot, worker>> /\ Promote(r)
    BY DEF Enter
  <2>2. /\ imports' = imports \cup {r}
        /\ \/ staging' = staging \ {r} /\ litter' = litter
           \/ staging' = staging /\ litter' = litter \cup {r}
    BY <2>1 DEF Promote
  <2> QED
    BY <2>1, <2>2
<1> HIDE DEF q
<1>4. RequestOK(r)'
  BY <1>1, <1>2, <1>3 DEF RequestOK, At, TypeOK
<1> QED
  BY <1>1, <1>2, <1>3, <1>4, RequestMoves DEF TypeOK, Permitted, Entered, Accepted, Accepting

\* The link is there and the directory is not synced: the drop leaves it.
LEMMA PromotedUnsyncedKeeps ==
  ASSUME IInv, NEW r \in Requests, PromotedUnsynced(r) PROVE IInv'
<1> DEFINE q == [req[r] EXCEPT !.pc = "done"]
<1>1. RequestOK(r) /\ req[r].pc = "admit" /\ TypeOK
  BY DEF IInv, PromotedUnsynced, At
<1>2. q \in RequestRows /\ q.pc = "done" /\ req' = [req EXCEPT ![r] = q]
  BY <1>1, PlacedRequest DEF PromotedUnsynced, Finish
<1>3. /\ UNCHANGED <<process, desktop, jobs, run, worker>>
      /\ staging' \in {staging, staging \ {r}} /\ imports' = imports \cup {r}
      /\ litter' = litter \cup {r}
      /\ slot' = IF slot = r THEN NoRequest ELSE slot
      /\ authority' = IF authority = r THEN NoRequest ELSE authority
  BY DEF PromotedUnsynced, Finish
<1> HIDE DEF q
<1>4. RequestOK(r)'
  BY <1>1, <1>2, <1>3 DEF RequestOK, At, TypeOK
<1> QED
  BY <1>1, <1>2, <1>3, <1>4, RequestMoves DEF TypeOK, Permitted, Entered, Accepted

LEMMA RecheckKeeps ==
  ASSUME IInv, NEW r \in Requests, Recheck(r) PROVE IInv'
<1>1. RequestOK(r) /\ req[r].pc = "promoted" /\ TypeOK /\ slot = r /\ authority = r
  BY DEF IInv, Recheck, At, TypeOK
<1>2. CASE Refuse(r)
  BY <1>1, <1>2, RefuseKeeps DEF Recheck, Places
<1>3. CASE ~Exists(req[r].job) /\ Goto(r, "accept") /\ UNCHANGED <<slot, authority, files>>
  <2> DEFINE q == [req[r] EXCEPT !.pc = "accept"]
  <2>1. q \in RequestRows /\ q.pc = "accept" /\ q.job = req[r].job /\ req' = [req EXCEPT ![r] = q]
    BY <1>1, <1>3, PlacedRequest DEF Places
  <2>2. UNCHANGED <<process, desktop, jobs, run, staging, imports, litter, worker, authority, slot>>
    BY <1>3 DEF Recheck, files
  <2> HIDE DEF q
  <2>3. RequestOK(r)'
    BY <1>1, <1>3, <2>1, <2>2 DEF RequestOK, At, TypeOK, Exists
  <2>4. phase = "serving"
    BY <1>1 DEF IInv, TypeOK, Stopped, Accepting, Cancelled
  <2> QED
    BY <1>1, <2>1, <2>2, <2>3, <2>4, RequestMoves
       DEF TypeOK, Permitted, Entered, Accepted, Accepting
<1> QED
  BY <1>2, <1>3 DEF Recheck

\* The steps that turn a request away.
LEMMA TurnedAwayKeeps ==
  ASSUME IInv, NEW r \in Requests, Abandon(r) \/ TurnAway(r) \/ NotAccepted(r) PROVE IInv'
BY RefuseKeeps DEF Abandon, TurnAway, NotAccepted, At, Places

-----------------------------------------------------------------------------
(***************************************************************************)
(* The acceptance                                                           *)
(***************************************************************************)
\* The transaction committed: the request owns the job, or the store failed right afterwards.
LEMMA InsertKeeps ==
  ASSUME IInv, NEW r \in Requests, req[r].pc = "accept", Insert(r),
         NEW q \in RequestRows, q.pc \in {"spawn", "done"}, q.job = req[r].job,
         req' = [req EXCEPT ![r] = q], UNCHANGED <<process, desktop, worker>>,
         staging' \in {staging, staging \ {r}}, imports' \in {imports, imports \ {r}},
         litter \subseteq litter', litter' \subseteq Requests,
         q.pc = "spawn" => imports' = imports,
         q.pc = "done" /\ r \in staging' \cup imports' => r \in litter',
         q.pc = "done" => faulty,
         slot' = (IF q.pc = "spawn" THEN r ELSE NoRequest), authority' = NoRequest
  PROVE  IInv'
<1> DEFINE j == req[r].job
<1>1. /\ TypeOK /\ j \in Jobs /\ slot = r /\ authority = r /\ ~Exists(j)
      /\ r \in imports /\ (r \in staging => r \in litter) /\ JobOK(j)
  BY Arrived DEF IInv, TypeOK, RequestOK, At
<1>2. /\ req' \in [Requests -> RequestRows] /\ req'[r] = q
      /\ \A s \in Requests \ {r} : req'[s] = req[s]
  BY <1>1 DEF TypeOK
<1>3. /\ jobs' \in [Jobs -> JobRows] /\ jobs'[j] = [state |-> "accepted", file |-> r]
      /\ \A k \in Jobs \ {j} : jobs'[k] = jobs[k]
      /\ run' \in [Jobs -> Runs] /\ run'[j] = "resting"
      /\ \A k \in Jobs \ {j} : run'[k] = run[k]
  BY <1>1 DEF TypeOK, Insert, JobRows, ActiveStates, Runs
<1>4. worker[j] = "none"
  BY <1>1, JobRow DEF TypeOK, WorkerSteps, JobOK, NoJob, Exists
<1>5. \A s \in Requests \ {r} : req[s].pc \notin Permitted /\ req[s].pc \notin Entered
  BY <1>1 DEF TypeOK, Permitted, Entered
<1>6. Accepting \/ Cancelled
  BY <1>1 DEF TypeOK
<1> HIDE DEF j
<1>7. TypeOK'
  <2>1. \A s \in Requests : slot' = s <=> req'[s].pc \in Permitted
    BY <1>1, <1>2, <1>5 DEF Permitted
  <2>2. \A s \in Requests : authority' = s <=> req'[s].pc \in Entered
    BY <1>1, <1>2, <1>5 DEF Entered
  <2>3. /\ staging' \subseteq Requests /\ imports' \subseteq Requests
        /\ desk' \subseteq Jobs /\ moved' \subseteq Jobs
    BY <1>1 DEF TypeOK, desktop
  <2>4. Accepting' \/ Cancelled'
    BY <1>6 DEF Accepting, Cancelled, process
  <2>5. /\ phase' \in Phases /\ entitled' \in BOOLEAN /\ faulty' \in BOOLEAN
        /\ worker' \in [Jobs -> WorkerSteps]
    BY <1>1 DEF TypeOK, process
  <2> QED
    BY <1>1, <1>2, <1>3, <2>1, <2>2, <2>3, <2>4, <2>5 DEF TypeOK, Permitted, Entered
<1>8. RequestOK(r)'
  BY <1>1, <1>2, <1>3, <1>4 DEF RequestOK, At, j
<1>9. ASSUME NEW s \in Requests, s # r PROVE RequestOK(s)'
  <2>1. RequestOK(s) /\ req'[s] = req[s] /\ req[s].pc \notin Permitted
        /\ (s \in imports' <=> s \in imports) /\ (s \in staging' <=> s \in staging)
    BY <1>2, <1>5, <1>9 DEF IInv
  <2>2. Owned(s) => Owned(s)'
    BY <1>1, <1>3 DEF Owned, Exists
  <2> QED
    BY <2>1, <2>2 DEF RequestOK, At, Permitted, desktop
<1>10. ASSUME NEW k \in Jobs PROVE JobOK(k)'
  <2>1. CASE k = j
    BY <1>1, <1>2, <1>3, <1>4, <2>1 DEF JobOK, process, desktop
  <2>2. CASE k # j
    <3>1. JobOK(k) /\ jobs'[k] = jobs[k] /\ run'[k] = run[k]
          /\ (Exists(k) => jobs[k].file \in Requests)
      BY <1>1, <1>3, <2>2, JobRow DEF IInv
    <3>2. Exists(k) => jobs[k].file # r
      BY <3>1 DEF JobOK
    <3> QED
      BY <1>2, <3>1, <3>2 DEF JobOK, Exists, Active, process, desktop
  <2> QED
    BY <2>1, <2>2
<1>11. ActiveJobHasWorker'
  <2>1. ASSUME NEW k \in Jobs, Active(k)', (Accepting \/ Cancelled)', ~faulty'
        PROVE  worker'[k] # "none" \/ \E s \in Requests : At(s, "spawn")' /\ req'[s].job = k
    <3>1. CASE k = j
      BY <1>2, <2>1, <3>1 DEF At, process, j
    <3>2. CASE k # j
      <4>1. Active(k) /\ (Accepting \/ Cancelled) /\ ~faulty
        BY <1>3, <2>1, <3>2 DEF Active, Accepting, Cancelled, process
      <4>2. worker[k] # "none" \/ \E s \in Requests : At(s, "spawn") /\ req[s].job = k
        BY <4>1 DEF IInv, ActiveJobHasWorker
      <4> QED
        BY <1>2, <4>2 DEF At
    <3> QED
      BY <3>1, <3>2
  <2> QED
    BY <2>1 DEF ActiveJobHasWorker
<1> QED
  BY <1>7, <1>8, <1>9, <1>10, <1>11 DEF IInv

LEMMA AcceptKeeps ==
  ASSUME IInv, NEW r \in Requests, Accept(r) PROVE IInv'
<1> DEFINE q == [req[r] EXCEPT !.pc = "spawn"]
<1>1. TypeOK /\ req[r].pc = "accept" /\ Insert(r) /\ slot = r
  BY DEF IInv, Accept, At, TypeOK
<1>2. q \in RequestRows /\ q.pc = "spawn" /\ q.job = req[r].job /\ req' = [req EXCEPT ![r] = q]
  BY <1>1, PlacedRequest DEF Accept, Places
<1>3. UNCHANGED <<process, desktop, worker, staging, imports, litter, slot>> /\ authority' = NoRequest
  BY DEF Accept, files
<1> HIDE DEF q
<1> QED
  BY <1>1, <1>2, <1>3, InsertKeeps DEF TypeOK

LEMMA AcceptUnreadKeeps ==
  ASSUME IInv, NEW r \in Requests, AcceptUnread(r) PROVE IInv'
<1> DEFINE q == [req[r] EXCEPT !.pc = "done"]
<1>1. TypeOK /\ req[r].pc = "accept" /\ Insert(r) /\ slot = r /\ authority = r /\ faulty
  BY DEF IInv, AcceptUnread, At, TypeOK
<1>2. q \in RequestRows /\ q.pc = "done" /\ q.job = req[r].job /\ req' = [req EXCEPT ![r] = q]
  BY <1>1, PlacedRequest DEF AcceptUnread, Refuse, Finish
<1>3. /\ UNCHANGED <<process, desktop, worker>>
      /\ slot' = NoRequest /\ authority' = NoRequest
  BY <1>1 DEF AcceptUnread, Refuse, Finish
<1>4. /\ staging' \in {staging, staging \ {r}} /\ imports' \in {imports, imports \ {r}}
      /\ litter \subseteq litter' /\ litter' \subseteq Requests
      /\ r \in staging' \cup imports' => r \in litter'
  BY <1>1, Dropped DEF AcceptUnread, Refuse
<1> HIDE DEF q
<1> QED
  BY <1>1, <1>2, <1>3, <1>4, InsertKeeps

\* The request that accepted a job hands it over to its worker, or fails it, and is done.
LEMMA HandOver ==
  ASSUME IInv, NEW r \in Requests, req[r].pc = "spawn", Finish(r),
         NEW j \in Jobs, j = req[r].job, UNCHANGED <<process, desktop, run, files>>,
         \/ /\ Accepting
            /\ worker' = [worker EXCEPT ![j] = "start"]
            /\ UNCHANGED jobs
         \/ MarkFailed(j) /\ UNCHANGED worker
  PROVE  IInv'
<1> DEFINE q == [req[r] EXCEPT !.pc = "done"]
<1>1. /\ TypeOK /\ slot = r /\ authority # r
      /\ jobs[j] = [state |-> "accepted", file |-> r] /\ worker[j] = "none"
      /\ run[j] = "resting" \/ j \in moved
      /\ (r \in staging => r \in litter) /\ RequestOK(r) /\ JobOK(j)
  BY DEF IInv, TypeOK, RequestOK, At
<1>2. q \in RequestRows /\ q.pc = "done" /\ req' = [req EXCEPT ![r] = q]
  BY <1>1, PlacedRequest DEF Finish
<1> HIDE DEF q
<1>3. /\ req' \in [Requests -> RequestRows] /\ req'[r] = q
      /\ \A s \in Requests \ {r} : req'[s] = req[s]
  BY <1>1, <1>2 DEF TypeOK
<1>4. slot' = NoRequest /\ authority' = authority
  BY <1>1 DEF Finish
<1>5. /\ jobs' \in [Jobs -> JobRows] /\ worker' \in [Jobs -> WorkerSteps]
      /\ \A k \in Jobs \ {j} : jobs'[k] = jobs[k] /\ worker'[k] = worker[k]
      /\ Exists(j) /\ jobs'[j].file = r
      /\ \/ worker'[j] = "start" /\ jobs'[j] = jobs[j]
         \/ worker'[j] = "none" /\ jobs'[j].state = "failed"
         \/ worker'[j] = "none" /\ jobs'[j] = jobs[j] /\ faulty
  <2>1. Exists(j) /\ Active(j)
    BY <1>1, JobRow DEF Active, ActiveStates
  <2>2. /\ jobs \in [Jobs -> JobRows] /\ worker \in [Jobs -> WorkerSteps] /\ j \in Jobs
        /\ jobs[j].file = r /\ jobs[j] = [state |-> "accepted", file |-> r]
    BY <1>1 DEF TypeOK
  <2>3. CASE worker' = [worker EXCEPT ![j] = "start"] /\ jobs' = jobs
    BY <2>1, <2>2, <2>3 DEF WorkerSteps
  <2>4. CASE jobs' = [jobs EXCEPT ![j].state = "failed"] /\ worker' = worker
    <3>1. jobs'[j] = [state |-> "failed", file |-> r]
      BY <2>2, <2>4
    <3>2. jobs'[j] \in JobRows
      BY <3>1 DEF JobRows
    <3> QED
      BY <1>1, <2>1, <2>2, <2>4, <3>1, <3>2
  <2>5. CASE (faulty \/ ~Active(j)) /\ jobs' = jobs /\ worker' = worker
    BY <1>1, <2>1, <2>2, <2>5
  <2>6. \/ worker' = [worker EXCEPT ![j] = "start"] /\ jobs' = jobs
        \/ jobs' = [jobs EXCEPT ![j].state = "failed"] /\ worker' = worker
        \/ (faulty \/ ~Active(j)) /\ jobs' = jobs /\ worker' = worker
    BY DEF MarkFailed
  <2> QED
    BY <2>3, <2>4, <2>5, <2>6
<1>6. Exists(j)'
  <2>1. CASE jobs'[j] = jobs[j]
    BY <1>5, <2>1 DEF Exists
  <2>2. CASE jobs'[j].state = "failed"
    BY <2>2 DEF Exists, NoJob
  <2> QED
    BY <1>5, <2>1, <2>2
<1>7. \A s \in Requests \ {r} : req[s].pc \notin Permitted
  BY <1>1 DEF TypeOK, Permitted
<1>8. TypeOK'
  <2>1. \A s \in Requests : slot' = s <=> req'[s].pc \in Permitted
    BY <1>2, <1>3, <1>4, <1>7 DEF Permitted
  <2>2. \A s \in Requests : authority' = s <=> req'[s].pc \in Entered
    BY <1>1, <1>2, <1>3, <1>4 DEF Entered, TypeOK
  <2>3. Accepting' \/ Cancelled'
    BY <1>1 DEF TypeOK, Accepting, Cancelled, process
  <2>4. phase' \in Phases /\ entitled' \in BOOLEAN /\ faulty' \in BOOLEAN
    BY <1>1 DEF TypeOK, process
  <2> QED
    BY <1>1, <1>3, <1>4, <1>5, <2>1, <2>2, <2>3, <2>4 DEF TypeOK, Permitted, Entered, files, desktop
<1>9. RequestOK(r)'
  <2>1. Owned(r)'
    BY <1>1, <1>5, <1>6 DEF Owned
  <2> QED
    BY <1>1, <1>2, <1>3, <2>1 DEF RequestOK, At, files, desktop
<1>10. ASSUME NEW s \in Requests, s # r PROVE RequestOK(s)'
  <2>1. RequestOK(s) /\ req'[s] = req[s] /\ req[s].pc \notin Permitted
    BY <1>3, <1>7, <1>10 DEF IInv
  <2>2. Owned(s) => Owned(s)'
    BY <1>1, <1>5, <1>10 DEF Owned, Exists
  <2> QED
    BY <2>1, <2>2 DEF RequestOK, At, Permitted, files, desktop
<1>11. ASSUME NEW k \in Jobs PROVE JobOK(k)'
  <2>1. CASE k = j
    BY <1>1, <1>2, <1>3, <1>5, <2>1 DEF JobOK, Exists, Active, process, files, desktop
  <2>2. CASE k # j
    <3>1. JobOK(k) /\ jobs'[k] = jobs[k] /\ worker'[k] = worker[k]
          /\ (Exists(k) => jobs[k].file \in Requests)
      BY <1>1, <1>5, <2>2, JobRow DEF IInv
    <3>2. Exists(k) => req'[jobs[k].file].pc \in Accepted
      BY <1>2, <1>3, <3>1 DEF JobOK, Accepted
    <3> QED
      BY <3>1, <3>2 DEF JobOK, Exists, Active, Accepted, process, files, desktop
  <2> QED
    BY <2>1, <2>2
<1>12. (Stopped => authority = NoRequest)'
  BY <1>4 DEF IInv, Stopped, process
<1>13. ActiveJobHasWorker'
  <2>1. ASSUME NEW k \in Jobs, Active(k)', (Accepting \/ Cancelled)', ~faulty'
        PROVE  worker'[k] # "none" \/ \E s \in Requests : At(s, "spawn")' /\ req'[s].job = k
    <3>1. CASE k = j
      BY <1>5, <2>1, <3>1 DEF Active, ActiveStates, process
    <3>2. CASE k # j
      <4>1. Active(k) /\ (Accepting \/ Cancelled) /\ ~faulty
        BY <1>5, <2>1, <3>2 DEF Active, Accepting, Cancelled, process
      <4>2. worker[k] # "none" \/ \E s \in Requests : At(s, "spawn") /\ req[s].job = k
        BY <4>1 DEF IInv, ActiveJobHasWorker
      <4> QED
        BY <1>3, <1>5, <3>2, <4>2 DEF At
    <3> QED
      BY <3>1, <3>2
  <2> QED
    BY <2>1 DEF ActiveJobHasWorker
<1> QED
  BY <1>8, <1>9, <1>10, <1>11, <1>12, <1>13 DEF IInv

LEMMA SpawnKeeps ==
  ASSUME IInv, NEW r \in Requests, Spawn(r) \/ SpawnFails(r) PROVE IInv'
<1>1. req[r].pc = "spawn" /\ Finish(r) /\ UNCHANGED <<process, desktop, run, files>>
  BY DEF Spawn, SpawnFails, At
<1>2. \/ /\ Accepting
         /\ worker' = [worker EXCEPT ![req[r].job] = "start"]
         /\ UNCHANGED jobs
      \/ MarkFailed(req[r].job) /\ UNCHANGED worker
  BY DEF Spawn, SpawnFails
<1>3. req[r].job \in Jobs
  BY <1>1, Arrived DEF IInv
<1> QED
  BY <1>1, <1>2, <1>3, HandOver

-----------------------------------------------------------------------------
(***************************************************************************)
(* Workers                                                                  *)
(***************************************************************************)
\* One worker moves its job and the run of it; the job keeps its document.
LEMMA WorkerMoves ==
  ASSUME IInv, NEW j \in Jobs, worker[j] # "none", UNCHANGED <<process, desktop, admission>>,
         jobs' \in [Jobs -> JobRows], run' \in [Jobs -> Runs], worker' \in [Jobs -> WorkerSteps],
         \A k \in Jobs \ {j} : jobs'[k] = jobs[k] /\ run'[k] = run[k] /\ worker'[k] = worker[k],
         jobs'[j] # NoJob, jobs[j] # NoJob, jobs'[j].file = jobs[j].file, JobOK(j)',
         jobs'[j].state \in ActiveStates /\ ~faulty => worker'[j] # "none"
  PROVE  IInv'
<1>1. TypeOK'
  BY DEF IInv, TypeOK, Accepting, Cancelled, process, admission, desktop
<1>2. ASSUME NEW r \in Requests PROVE RequestOK(r)'
  <2>1. RequestOK(r) /\ (req[r].pc # "new" => req[r].job \in Jobs)
    BY Arrived DEF IInv
  <2>2. Owned(r) => Owned(r)'
    BY DEF Owned, Exists
  <2>3. At(r, "spawn") => req[r].job # j
    BY <2>1 DEF RequestOK
  <2>4. At(r, "accept") => ~Exists(req[r].job)'
    BY <2>1 DEF RequestOK, Exists, At, admission
  <2> QED
    BY <2>1, <2>2, <2>3, <2>4 DEF RequestOK, At, admission, desktop
<1>3. ASSUME NEW k \in Jobs PROVE JobOK(k)'
  BY <1>3 DEF IInv, JobOK, Exists, Active, process, admission, desktop
<1>4. (Stopped => authority = NoRequest)'
  BY DEF IInv, Stopped, process, admission
<1>5. ActiveJobHasWorker'
  BY DEF IInv, ActiveJobHasWorker, Active, Accepting, Cancelled, At, process, admission
<1> QED
  BY <1>1, <1>2, <1>3, <1>4, <1>5 DEF IInv

\* A job with a worker exists, and both have types.
LEMMA Worked ==
  ASSUME IInv, NEW j \in Jobs, worker[j] # "none"
  PROVE  /\ TypeOK /\ JobOK(j) /\ Active(j) /\ jobs[j] # NoJob
         /\ jobs \in [Jobs -> JobRows] /\ run \in [Jobs -> Runs]
         /\ worker \in [Jobs -> WorkerSteps]
         /\ jobs[j] \in [state : ActiveStates \cup {"completed", "failed"}, file : Requests]
<1>1. TypeOK /\ JobOK(j) /\ jobs \in [Jobs -> JobRows] /\ run \in [Jobs -> Runs]
      /\ worker \in [Jobs -> WorkerSteps]
  BY DEF IInv, TypeOK
<1>2. Active(j)
  BY <1>1 DEF JobOK, WorkerSteps, Active, ActiveStates
<1> QED
  BY <1>1, <1>2, JobRow DEF Exists

LEMMA ProcessKeeps ==
  ASSUME IInv, NEW j \in Jobs, Process(j) PROVE IInv'
<1>1. worker[j] = "start" /\ UNCHANGED <<process, desktop, run, admission>>
  BY DEF IInv, JobOK, Process, Working
<1>2. /\ jobs' \in [Jobs -> JobRows] /\ jobs'[j] # NoJob /\ jobs'[j].state = "processing"
      /\ jobs'[j].file = jobs[j].file /\ \A k \in Jobs \ {j} : jobs'[k] = jobs[k]
  BY <1>1, Worked DEF Process, JobRows, ActiveStates, NoJob
<1>3. /\ worker' \in [Jobs -> WorkerSteps] /\ worker'[j] = "run"
      /\ \A k \in Jobs \ {j} : worker'[k] = worker[k]
  BY <1>1, Worked DEF Process, Proceed, WorkerSteps
<1>4. JobOK(j)'
  BY <1>1, <1>2, <1>3, Worked DEF JobOK, Exists, Active, ActiveStates, process, admission, desktop
<1> QED
  BY <1>1, <1>2, <1>3, <1>4, Worked, WorkerMoves

LEMMA BeginStageKeeps ==
  ASSUME IInv, NEW j \in Jobs, BeginStage(j) PROVE IInv'
<1>1. worker[j] = "run" /\ UNCHANGED <<process, desktop, jobs, admission, worker>>
  BY DEF BeginStage, Working
<1>2. /\ run' \in [Jobs -> Runs] /\ run'[j] = "active"
      /\ \A k \in Jobs \ {j} : run'[k] = run[k]
  BY <1>1, Worked DEF BeginStage, Runs
<1>3. JobOK(j)'
  BY <1>1, <1>2, Worked DEF JobOK, Exists, Active, process, admission, desktop, IInv, TypeOK, Accepting, Cancelled
<1> QED
  BY <1>1, <1>2, <1>3, Worked, WorkerMoves

LEMMA EndStageKeeps ==
  ASSUME IInv, NEW j \in Jobs, EndStage(j) PROVE IInv'
<1>1. worker[j] = "run" /\ run[j] = "active"
      /\ UNCHANGED <<process, desktop, jobs, admission>>
  BY DEF EndStage, Working
<1>2. PICK s \in {"resting", "completed", "failed"} :
        /\ run' = [run EXCEPT ![j] = s]
        /\ worker' = [worker EXCEPT ![j] = CASE s = "resting" -> "run"
                                             [] s = "completed" -> "save"
                                             [] s = "failed" -> "fail"]
  BY DEF EndStage
<1>3. /\ run' \in [Jobs -> Runs] /\ run'[j] = s
      /\ \A k \in Jobs \ {j} : run'[k] = run[k]
  BY <1>1, <1>2, Worked DEF Runs
<1>4. /\ worker' \in [Jobs -> WorkerSteps]
      /\ \/ s = "resting" /\ worker'[j] = "run"
         \/ s = "completed" /\ worker'[j] = "save"
         \/ s = "failed" /\ worker'[j] = "fail"
      /\ \A k \in Jobs \ {j} : worker'[k] = worker[k]
  BY <1>1, <1>2, Worked DEF WorkerSteps
<1>5. JobOK(j)'
  BY <1>1, <1>3, <1>4, Worked DEF JobOK, Exists, Active, ActiveStates, process, admission, desktop
<1> QED
  BY <1>1, <1>3, <1>4, <1>5, Worked, WorkerMoves

\* The worker gives the job up: it is about to fail it. A stage may stay active in the store.
LEMMA GivenUp ==
  ASSUME IInv, NEW j \in Jobs, worker[j] \in {"start", "run", "save"}, Proceed(j, "fail"),
         Cancelled \/ faulty \/ worker[j] = "save" \/ j \in moved,
         UNCHANGED <<process, desktop, jobs, run, admission>>
  PROVE  IInv'
<1>1. /\ worker' \in [Jobs -> WorkerSteps] /\ worker'[j] = "fail"
      /\ \A k \in Jobs \ {j} : worker'[k] = worker[k]
  BY Worked DEF Proceed, WorkerSteps
<1>2. JobOK(j)'
  BY <1>1, Worked DEF JobOK, Exists, Active, ActiveStates, Cancelled, process, admission, desktop
<1> QED
  BY <1>1, <1>2, Worked, WorkerMoves

LEMMA GivingUpKeeps ==
  ASSUME IInv, NEW j \in Jobs, Outrun(j) \/ Interrupted(j) \/ WorkerStoreFails(j) \/ Undeliverable(j)
  PROVE  IInv'
BY GivenUp DEF Outrun, Interrupted, WorkerStoreFails, Undeliverable, Working

LEMMA CompleteKeeps ==
  ASSUME IInv, NEW j \in Jobs, Complete(j) PROVE IInv'
<1>1. worker[j] = "save" /\ run[j] = "completed" /\ UNCHANGED <<process, desktop, run, admission>>
  BY DEF IInv, JobOK, Complete, Working
<1>2. /\ jobs' \in [Jobs -> JobRows] /\ jobs'[j] # NoJob /\ jobs'[j].state = "completed"
      /\ jobs'[j].file = jobs[j].file /\ \A k \in Jobs \ {j} : jobs'[k] = jobs[k]
  BY <1>1, Worked DEF Complete, JobRows, ActiveStates, NoJob
<1>3. /\ worker' \in [Jobs -> WorkerSteps] /\ worker'[j] = "none"
      /\ \A k \in Jobs \ {j} : worker'[k] = worker[k]
  BY <1>1, Worked DEF Complete, Proceed, WorkerSteps
<1>4. JobOK(j)'
  BY <1>1, <1>2, <1>3, Worked DEF JobOK, Exists, Active, ActiveStates, process, admission, desktop
<1> QED
  BY <1>1, <1>2, <1>3, <1>4, Worked, WorkerMoves DEF ActiveStates

LEMMA FailKeeps ==
  ASSUME IInv, NEW j \in Jobs, Fail(j) PROVE IInv'
<1>1. worker[j] = "fail" /\ UNCHANGED <<process, desktop, run, admission>>
  BY DEF Fail, Working
<1>2. /\ worker' \in [Jobs -> WorkerSteps] /\ worker'[j] = "none"
      /\ \A k \in Jobs \ {j} : worker'[k] = worker[k]
  BY <1>1, Worked DEF Fail, Proceed, WorkerSteps
<1>3. CASE jobs' = [jobs EXCEPT ![j].state = "failed"]
  <2>1. /\ jobs' \in [Jobs -> JobRows] /\ jobs'[j] # NoJob /\ jobs'[j].state = "failed"
        /\ jobs'[j].file = jobs[j].file /\ \A k \in Jobs \ {j} : jobs'[k] = jobs[k]
    BY <1>1, <1>3, Worked DEF JobRows, NoJob
  <2>2. JobOK(j)'
    BY <1>1, <1>2, <2>1, Worked DEF JobOK, Exists, Active, ActiveStates, process, admission, desktop
  <2> QED
    BY <1>1, <1>2, <2>1, <2>2, Worked, WorkerMoves DEF ActiveStates
<1>4. CASE faulty /\ UNCHANGED jobs
  <2>1. JobOK(j)'
    BY <1>1, <1>2, <1>4, Worked DEF JobOK, Exists, Active, ActiveStates, process, admission, desktop
  <2> QED
    BY <1>1, <1>2, <1>4, <2>1, Worked, WorkerMoves
<1> QED
  BY <1>1, <1>3, <1>4, Worked DEF Fail, MarkFailed

-----------------------------------------------------------------------------
(***************************************************************************)
(* The provider                                                             *)
(***************************************************************************)
\* A provider that is not up has no worker and no permit to give.
LEMMA NobodyWorks ==
  ASSUME IInv, ~Accepting, ~Cancelled
  PROVE  /\ worker = [j \in Jobs |-> "none"] /\ slot = NoRequest /\ authority = NoRequest
         /\ \A j \in Jobs : worker[j] = "none"
         /\ \A r \in Requests : req[r].pc \notin Permitted /\ req[r].pc \notin Entered
<1>1. TypeOK /\ worker = [j \in Jobs |-> "none"] /\ slot = NoRequest
  BY DEF IInv, TypeOK
<1>2. \A r \in Requests : req[r].pc \notin Permitted /\ req[r].pc \notin Entered
  BY <1>1 DEF TypeOK, Permitted, Entered
<1>3. authority = NoRequest
  BY <1>1, <1>2 DEF TypeOK, Entered
<1> QED
  BY <1>1, <1>2, <1>3

\* The process moves, and nothing else.
LEMMA PhaseMoves ==
  ASSUME IInv, phase' \in Phases, entitled' \in BOOLEAN,
         UNCHANGED <<faulty, desktop, jobs, run, admission, worker>>,
         phase' \in {"serving", "reconciled"} => phase' = phase,
         (Accepting \/ Cancelled)' => Accepting \/ Cancelled,
         Accepting \/ Cancelled => (Accepting \/ Cancelled)',
         Stopped' => authority = NoRequest
  PROVE  IInv'
<1>1. TypeOK'
  BY DEF IInv, TypeOK, admission, desktop
<1>2. ASSUME NEW r \in Requests PROVE RequestOK(r)'
  BY <1>2 DEF IInv, RequestOK, Owned, Exists, At, admission, desktop
<1>3. ASSUME NEW j \in Jobs PROVE JobOK(j)'
  BY <1>3 DEF IInv, JobOK, Exists, Active, admission, desktop
<1>4. (Stopped => authority = NoRequest)'
  BY DEF admission
<1>5. ActiveJobHasWorker'
  BY DEF IInv, ActiveJobHasWorker, Active, At, admission
<1> QED
  BY <1>1, <1>2, <1>3, <1>4, <1>5 DEF IInv

LEMMA PhaseKeeps ==
  ASSUME IInv, Start \/ BeginStop \/ StopWorkers \/ EntitlementChanges PROVE IInv'
<1>1. phase \in Phases /\ entitled \in BOOLEAN
  BY DEF IInv, TypeOK
<1>2. CASE Start
  BY <1>1, <1>2, PhaseMoves, NobodyWorks DEF Start, Phases, Accepting, Cancelled, Stopped
<1>3. CASE BeginStop
  BY <1>1, <1>3, PhaseMoves DEF BeginStop, Phases, Accepting, Cancelled, Stopped
<1>4. CASE StopWorkers
  BY <1>1, <1>4, PhaseMoves DEF IInv, StopWorkers, Phases, Accepting, Cancelled, Stopped
<1>5. CASE EntitlementChanges
  BY <1>1, <1>5, PhaseMoves DEF IInv, EntitlementChanges, Accepting, Cancelled, Stopped
<1> QED
  BY <1>2, <1>3, <1>4, <1>5

\* The runs are reconciled while nobody works on them, by a provider or by a desktop.
LEMMA ReconcileKeeps ==
  ASSUME IInv, ReconcileRuns \/ Standalone PROVE IInv'
<1>1. /\ ~Accepting /\ ~Cancelled /\ ~Accepting' /\ ~Cancelled'
      /\ phase' \in {"down", "reconciled"} /\ run' = Reconciled
      /\ UNCHANGED <<entitled, faulty, desktop, jobs, admission, worker>>
  BY DEF ReconcileRuns, Standalone, Accepting, Cancelled, process
<1>2. run' \in [Jobs -> Runs] /\ \A j \in Jobs : /\ run'[j] # "active"
                                                 /\ run[j] = "completed" => run'[j] = run[j]
  BY <1>1 DEF IInv, TypeOK, Runs, Reconciled
<1>3. TypeOK'
  BY <1>1, <1>2 DEF IInv, TypeOK, Phases, admission, desktop
<1>4. ASSUME NEW r \in Requests PROVE RequestOK(r)'
  <2>1. RequestOK(r) /\ ~At(r, "spawn")
    BY <1>1, NobodyWorks DEF IInv, At, Permitted
  <2> QED
    BY <1>1, <2>1 DEF RequestOK, Owned, Exists, At, admission, desktop
<1>5. ASSUME NEW j \in Jobs PROVE JobOK(j)'
  <2>1. JobOK(j) /\ worker[j] = "none" /\ worker'[j] = "none"
    BY <1>1, NobodyWorks DEF IInv
  <2> QED
    BY <1>1, <1>2, <2>1 DEF JobOK, Exists, admission, desktop
<1> QED
  BY <1>1, <1>3, <1>4, <1>5 DEF IInv, Stopped, Accepting, Cancelled, ActiveJobHasWorker

LEMMA FailInterruptedKeeps == IInv /\ FailInterrupted => IInv'
<1> SUFFICES ASSUME IInv, FailInterrupted PROVE IInv'
  OBVIOUS
<1>1. /\ TypeOK /\ ~Accepting /\ ~Cancelled /\ phase = "reconciled" /\ phase' = "serving"
      /\ UNCHANGED <<entitled, faulty, desktop, run, admission, worker>>
  BY DEF IInv, FailInterrupted, Accepting, Cancelled
<1>2. ASSUME NEW j \in Jobs
      PROVE  /\ jobs'[j] \in JobRows /\ ~Active(j)'
             /\ Exists(j)' => Exists(j)
             /\ Exists(j) => Exists(j)' /\ jobs'[j].file = jobs[j].file
             /\ jobs'[j].state = "completed" => jobs[j].state = "completed"
  <2>1. jobs'[j] = IF Active(j) THEN [jobs[j] EXCEPT !.state = "failed"] ELSE jobs[j]
    BY DEF FailInterrupted, FailAll
  <2>2. CASE Active(j)
    <3>1. jobs[j] \in [state : ActiveStates \cup {"completed", "failed"}, file : Requests]
      BY <1>1, <2>2, JobRow
    <3>2. jobs'[j] = [state |-> "failed", file |-> jobs[j].file] /\ jobs[j].file \in Requests
      BY <2>1, <2>2, <3>1
    <3> QED
      BY <1>1, <2>2, <3>2, JobRow DEF JobRows, Exists, NoJob, Active, ActiveStates
  <2>3. CASE ~Active(j)
    BY <1>1, <2>1, <2>3 DEF TypeOK, Active, Exists
  <2> QED
    BY <2>2, <2>3
<1>3. TypeOK'
  <2>1. jobs' \in [Jobs -> JobRows]
    BY <1>2 DEF FailInterrupted, FailAll
  <2> QED
    BY <1>1, <2>1, NobodyWorks DEF TypeOK, Phases, Accepting, Cancelled, admission, desktop
<1>4. ASSUME NEW r \in Requests PROVE RequestOK(r)'
  <2>1. /\ RequestOK(r) /\ ~At(r, "spawn") /\ ~At(r, "accept")
    BY <1>1, NobodyWorks DEF IInv, At, Permitted
  <2>2. Owned(r) => Owned(r)'
    BY <1>2 DEF Owned
  <2> QED
    BY <1>1, <2>1, <2>2 DEF RequestOK, At, admission, desktop
<1>5. ASSUME NEW j \in Jobs PROVE JobOK(j)'
  <2>1. JobOK(j) /\ worker[j] = "none" /\ worker'[j] = "none"
    BY <1>1, NobodyWorks DEF IInv
  <2>2. /\ Exists(j)' => Exists(j) /\ jobs'[j].file = jobs[j].file
        /\ jobs'[j].state = "completed" => jobs[j].state = "completed"
    BY <1>2
  <2> QED
    BY <1>1, <2>1, <2>2 DEF JobOK, admission, desktop
<1>6. ActiveJobHasWorker'
  BY <1>2 DEF ActiveJobHasWorker
<1> QED
  BY <1>1, <1>3, <1>4, <1>5, <1>6 DEF IInv, Stopped

\* Whatever the provider was doing, its files and rows stay, and nobody works on them.
LEMMA HaltKeeps == IInv /\ Halt => IInv'
<1> SUFFICES ASSUME IInv, Halt PROVE IInv'
  OBVIOUS
<1>1. /\ TypeOK /\ phase' = "down" /\ ~Accepting' /\ ~Cancelled' /\ ~Stopped'
      /\ slot' = NoRequest /\ authority' = NoRequest /\ worker' = [j \in Jobs |-> "none"]
      /\ UNCHANGED <<entitled, faulty, desk, moved, jobs, run, staging, imports, litter>>
  BY DEF IInv, Halt, Accepting, Cancelled, Stopped, files, desktop
<1>2. ASSUME NEW r \in Requests
      PROVE  /\ req'[r] \in RequestRows /\ req'[r].pc \notin Places
             /\ req[r].pc \in Places => req'[r].pc = "lost"
             /\ req[r].pc \notin Places => req'[r] = req[r]
  <2>1. req'[r] = IF req[r].pc \in Places THEN [req[r] EXCEPT !.pc = "lost"] ELSE req[r]
    BY DEF Halt
  <2>2. CASE req[r].pc \in Places
    <3>1. req[r] \in [pc : Places \cup {"done", "lost"}, job : Jobs, waiting : BOOLEAN]
      BY <1>1, <2>2, Arrived DEF Places
    <3>2. req'[r] = [pc |-> "lost", job |-> req[r].job, waiting |-> req[r].waiting]
      BY <2>1, <2>2, <3>1
    <3> QED
      BY <2>2, <3>1, <3>2 DEF RequestRows, Places
  <2>3. CASE req[r].pc \notin Places
    BY <1>1, <2>1, <2>3 DEF TypeOK
  <2> QED
    BY <2>2, <2>3
<1>3. TypeOK'
  <2>1. req' \in [Requests -> RequestRows]
    BY <1>2 DEF Halt
  <2> QED
    BY <1>1, <1>2, <2>1 DEF TypeOK, Phases, WorkerSteps, Places
<1>4. ASSUME NEW r \in Requests PROVE RequestOK(r)'
  <2>1. RequestOK(r)
    BY DEF IInv
  <2>2. Owned(r) => Owned(r)'
    BY <1>1 DEF Owned, Exists
  <2>3. CASE req[r].pc \in Places
    <3>1. req'[r].pc = "lost"
      BY <1>2, <2>3
    <3> QED
      BY <3>1 DEF RequestOK, At
  <2>4. CASE req[r].pc \notin Places
    <3>1. req'[r] = req[r]
      BY <1>2, <2>4
    <3> QED
      BY <1>1, <2>1, <2>2, <2>4, <3>1 DEF RequestOK, At, Places
  <2> QED
    BY <2>3, <2>4
<1>5. ASSUME NEW j \in Jobs PROVE JobOK(j)'
  <2>1. JobOK(j) /\ worker'[j] = "none" /\ (Exists(j) => jobs[j].file \in Requests)
    BY <1>1, JobRow DEF IInv
  <2>2. Exists(j) => req'[jobs[j].file].pc \in {"spawn", "done", "lost"}
    BY <1>2, <2>1 DEF JobOK
  <2> QED
    BY <1>1, <2>1, <2>2 DEF JobOK, Exists
<1> QED
  BY <1>1, <1>3, <1>4, <1>5 DEF IInv, ActiveJobHasWorker

-----------------------------------------------------------------------------
(***************************************************************************)
(* The desktop                                                              *)
(***************************************************************************)
\* The runs that change are then ones the desktop moved, and were not at their end.
LEMMA DesktopMoves ==
  ASSUME IInv, UNCHANGED <<process, jobs, admission, worker>>,
         desk' \subseteq Jobs, moved' \subseteq Jobs, moved \subseteq moved',
         run' \in [Jobs -> Runs],
         \A j \in Jobs : run'[j] = run[j] \/ (j \in moved' /\ run[j] # "completed")
  PROVE  IInv'
<1>1. TypeOK'
  BY DEF IInv, TypeOK, Accepting, Cancelled, process, admission
<1>2. ASSUME NEW r \in Requests PROVE RequestOK(r)'
  <2>1. RequestOK(r) /\ (req[r].pc # "new" => req[r].job \in Jobs)
    BY Arrived DEF IInv
  <2> QED
    BY <2>1 DEF RequestOK, Owned, Exists, At, admission
<1>3. ASSUME NEW j \in Jobs PROVE JobOK(j)'
  BY <1>3 DEF IInv, JobOK, Exists, Active, process, admission
<1>4. (Stopped => authority = NoRequest)'
  BY DEF IInv, Stopped, process, admission
<1>5. ActiveJobHasWorker'
  BY DEF IInv, ActiveJobHasWorker, Active, Accepting, Cancelled, At, process, admission
<1> QED
  BY <1>1, <1>2, <1>3, <1>4, <1>5 DEF IInv

LEMMA DesktopKeeps == IInv /\ Desktop => IInv'
<1> SUFFICES ASSUME IInv, Desktop PROVE IInv'
  OBVIOUS
<1>1. desk \subseteq Jobs /\ moved \subseteq Jobs /\ run \in [Jobs -> Runs]
  BY DEF IInv, TypeOK
<1>2. CASE DesktopEnds
  <2>1. UNCHANGED <<process, jobs, admission, worker>> /\ desk' = {} /\ moved' = moved /\ run' = run
    BY <1>2 DEF DesktopEnds
  <2> QED
    BY <1>1, <2>1, DesktopMoves
<1>3. ASSUME NEW j \in Jobs, StartContinuation(j) PROVE IInv'
  <2>1. /\ UNCHANGED <<process, jobs, admission, worker>>
        /\ desk' \subseteq Jobs /\ moved' = moved /\ run' = run
    BY <1>1, <1>3 DEF StartContinuation
  <2> QED
    BY <1>1, <2>1, DesktopMoves
<1>4. ASSUME NEW j \in Jobs, UNCHANGED <<process, jobs, admission, worker>>, desk' \subseteq Jobs,
             NEW s \in Runs, Moves(j, s), run[j] # "completed"
      PROVE  IInv'
  <2>1. /\ run' \in [Jobs -> Runs] /\ j \in moved' /\ moved' \subseteq Jobs /\ moved \subseteq moved'
        /\ \A k \in Jobs \ {j} : run'[k] = run[k]
    BY <1>1, <1>4 DEF Moves
  <2>2. \A k \in Jobs : run'[k] = run[k] \/ (k \in moved' /\ run[k] # "completed")
    BY <1>4, <2>1
  <2> QED
    BY <1>4, <2>1, <2>2, DesktopMoves
<1>5. ASSUME NEW j \in Jobs, DesktopBeginsStage(j) PROVE IInv'
  BY <1>1, <1>4, <1>5 DEF DesktopBeginsStage, Runs
<1>6. ASSUME NEW j \in Jobs, DesktopEndsStage(j) PROVE IInv'
  BY <1>1, <1>4, <1>6 DEF DesktopEndsStage, Runs
<1>7. ASSUME NEW j \in Jobs, RequestCancellation(j) PROVE IInv'
  BY <1>1, <1>4, <1>7 DEF RequestCancellation, Runs
<1>8. ASSUME NEW j \in Jobs, Finalize(j) PROVE IInv'
  <2>1. desk' \subseteq Jobs /\ UNCHANGED <<process, jobs, admission, worker>>
    BY <1>1, <1>8 DEF Finalize
  <2>2. CASE run[j] \in {"resting", "active", "cancelling"} /\ Moves(j, "failed")
    BY <1>4, <2>1, <2>2 DEF Runs
  <2>3. CASE UNCHANGED <<run, moved>>
    BY <1>1, <2>1, <2>3, DesktopMoves
  <2> QED
    BY <1>8, <2>2, <2>3 DEF Finalize
<1> QED
  BY <1>2, <1>3, <1>5, <1>6, <1>7, <1>8 DEF Desktop

-----------------------------------------------------------------------------
(***************************************************************************)
(* Every step                                                               *)
(***************************************************************************)
LEMMA NextKeeps == IInv /\ [Next]_vars => IInv'
<1> SUFFICES ASSUME IInv, [Next]_vars PROVE IInv'
  OBVIOUS
<1>1. ASSUME Provider PROVE IInv'
  BY <1>1, PhaseKeeps, ReconcileKeeps, FailInterruptedKeeps, HaltKeeps DEF Provider
<1>2. ASSUME NEW r \in Requests, Client(r) \/ Admission(r) PROVE IInv'
  <2>1. CASE Client(r)
    BY <2>1, GiveUpKeeps, ArriveKeeps DEF Client
  <2>2. CASE Admission(r)
    BY <2>2, LookupKeeps, ReceiveKeeps, AdmitKeeps, EnterKeeps, PromotedUnsyncedKeeps, RecheckKeeps, TurnedAwayKeeps,
       AcceptKeeps, AcceptUnreadKeeps, SpawnKeeps DEF Admission
  <2> QED
    BY <1>2, <2>1, <2>2
<1>3. ASSUME NEW j \in Jobs, Work(j) PROVE IInv'
  BY <1>3, ProcessKeeps, BeginStageKeeps, EndStageKeeps, GivingUpKeeps, CompleteKeeps, FailKeeps
     DEF Work
<1>4. ASSUME Desktop PROVE IInv'
  BY <1>4, DesktopKeeps
<1>5. CASE UNCHANGED vars
  BY <1>5 DEF IInv, TypeOK, RequestOK, JobOK, Owned, Exists, Active, ActiveJobHasWorker, Accepting,
              Cancelled, Stopped, At, vars
<1> QED
  BY <1>1, <1>2, <1>3, <1>4, <1>5 DEF Next

LEMMA AlwaysIInv == Spec => []IInv
BY Initially, NextKeeps, PTL DEF Spec

\* A provider that is stopping has let every admission out of the authority, so nobody is where
\* a job is accepted; and no other step makes a job.
LEMMA StoppedKeepsJobs ==
  ASSUME IInv, [Next]_vars, Stopped, NEW j \in Jobs, Exists(j)' PROVE Exists(j)
<1>1. TypeOK /\ authority = NoRequest
  BY DEF IInv
<1>2. ASSUME NEW r \in Requests, Admission(r) PROVE Exists(j)
  <2>1. ~At(r, "accept")
    BY <1>1 DEF TypeOK, At
  <2>2. CASE SpawnFails(r)
    <3>1. \A k \in Jobs : Active(k) => Exists(k)
      BY <1>1, JobRow
    <3>2. CASE UNCHANGED jobs
      BY <3>2 DEF Exists
    <3>3. CASE Active(req[r].job) /\ jobs' = [jobs EXCEPT ![req[r].job].state = "failed"]
      <4>1. CASE j = req[r].job
        BY <3>1, <3>3, <4>1
      <4>2. CASE j # req[r].job
        BY <1>1, <3>3, <4>2 DEF Exists, TypeOK
      <4> QED
        BY <4>1, <4>2
    <3> QED
      BY <2>2, <3>2, <3>3 DEF SpawnFails, MarkFailed
  <2>3. CASE ~SpawnFails(r)
    <3>1. UNCHANGED jobs
      BY <1>2, <2>1, <2>3 DEF Admission, Lookup, Receive, Abandon, Admit, TurnAway, Enter,
         PromotedUnsynced, Recheck,
         Accept, NotAccepted, AcceptUnread, Spawn
    <3> QED
      BY <3>1 DEF Exists
  <2> QED
    BY <2>2, <2>3
<1>3. ASSUME NEW r \in Requests, Client(r) PROVE Exists(j)
  BY <1>3 DEF Client, GiveUp, Arrive, Exists
<1>4. ASSUME Provider PROVE Exists(j)
  <2>1. UNCHANGED jobs
    BY <1>4 DEF Provider, Start, ReconcileRuns, FailInterrupted, BeginStop, StopWorkers, Halt,
       Standalone, EntitlementChanges, Stopped
  <2> QED
    BY <2>1 DEF Exists
<1>5. ASSUME NEW k \in Jobs, Work(k) PROVE Exists(j)
  <2>1. worker[k] # "none"
    BY <1>5 DEF Work, Process, BeginStage, EndStage, Outrun, Interrupted, WorkerStoreFails,
       Complete, Undeliverable, Fail, Working
  <2>2. jobs[k] # NoJob
    BY <2>1, Worked
  <2>3. CASE j = k
    BY <2>2, <2>3 DEF Exists
  <2>4. CASE j # k
    <3>1. jobs'[j] = jobs[j]
      BY <1>1, <1>5, <2>4 DEF TypeOK, Work, Process, BeginStage, EndStage, Outrun,
         Interrupted, WorkerStoreFails, Complete, Undeliverable, Fail, MarkFailed
    <3> QED
      BY <3>1 DEF Exists
  <2> QED
    BY <2>3, <2>4
<1>6. CASE UNCHANGED vars
  BY <1>6 DEF vars, Exists
<1>7. ASSUME Desktop PROVE Exists(j)
  <2>1. UNCHANGED jobs
    BY <1>7 DEF Desktop, DesktopEnds, StartContinuation, DesktopBeginsStage, DesktopEndsStage,
       RequestCancellation, Finalize
  <2> QED
    BY <2>1 DEF Exists
<1> QED
  BY <1>2, <1>3, <1>4, <1>5, <1>6, <1>7 DEF Next

-----------------------------------------------------------------------------
(***************************************************************************)
(* Theorems                                                                 *)
(***************************************************************************)
\* The permit and the authority are with the requests at the places that hold them, and the
\* threads of a provider end with it: admission_slot, ProviderAdmissionAuthority, and the
\* worker owner.
THEOREM ConnectTypeCorrect == Spec => []TypeOK
BY AlwaysIInv, PTL DEF IInv

\* A job that a living provider accepted or processes has its worker, or the admission that is
\* about to start one, whatever clients, stages and a stop do, unless the store fails.
THEOREM ActiveJobIsOwned == Spec => []ActiveJobHasWorker
BY AlwaysIInv, PTL DEF IInv

\* A completed Connect job has a completed run, although the desktop's commands move the runs of
\* jobs too. And a restart leaves no failed job whose run is still inside a stage, unless the
\* desktop took that run up: the two reconciliations of a start agree.
THEOREM JobAndRunAgree == Spec => []JobAgreesWithRun
<1>1. IInv => JobAgreesWithRun
  BY DEF IInv, JobOK, JobAgreesWithRun
<1> QED
  BY <1>1, AlwaysIInv, PTL

\* The cleanup of a losing request never removes the document of a job: transfers have import
\* paths of their own, and only the one that was accepted commits its import.
THEOREM AcceptedFileIsKept == Spec => []AcceptedFileStays
<1>1. IInv => AcceptedFileStays
  BY DEF IInv, JobOK, AcceptedFileStays
<1> QED
  BY <1>1, AlwaysIInv, PTL

\* An answered request leaves the staging and import directories as it found them, but for the
\* document its job owns, and for files of which a removal or a sync failed.
THEOREM NothingLeaks == Spec => []NoLeakedImport
<1>1. IInv => NoLeakedImport
  BY DEF IInv, RequestOK, NoLeakedImport, Owned, At
<1> QED
  BY <1>1, AlwaysIInv, PTL

\* begin_stop waits for the authority, so no acceptance is under way when it returns, and none
\* begins afterwards.
THEOREM StoppedAcceptsNothing == Spec => NoJobAfterStop
<1>1. IInv /\ [Next]_vars => [Stopped => \A j \in Jobs : Exists(j)' => Exists(j)]_vars
  BY StoppedKeepsJobs
<1> QED
  BY <1>1, AlwaysIInv, PTL DEF Spec, NoJobAfterStop
=============================================================================
